--------------------------- MODULE MCHardwareCore ---------------------------
(* Instances of HardwareCore for TLC.                                      *)
EXTENDS HardwareCore, TLC

\* Callers are interchangeable in the safety runs.
Symmetric == Permutations(Threads)

\* 259 is beast and 257 is level 1 once cut to a byte.
SomeModes  == {1, 259}
SomeLevels == {0, 257}
TwoLevels  == {0, 4}
=============================================================================
