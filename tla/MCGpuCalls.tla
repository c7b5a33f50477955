----------------------------- MODULE MCGpuCalls -----------------------------
(* TLC instance of the core's calls: the WMI calls while the WMI service and *)
(* the instance come and go, and the GPU calls while the driver does.        *)
EXTENDS GpuCalls

WmiMix == [calls |-> {"command", "cpu", "shutdown"}, changes |-> {"wmi"}]
GpuMix == [calls |-> {"cpu", "fix", "stats", "oc_available", "oc_apply"},
           changes |-> {"driver"}]
BothMixes == {WmiMix, GpuMix}
=============================================================================
