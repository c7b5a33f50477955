------------------------------ MODULE GpuCalls ------------------------------
(***************************************************************************)
(* The GPU half of the core DLL and the handlers on top of it: usage       *)
(* statistics, the clock fix with its diagnostic log, and the overclocking *)
(* binding.  They share g_mutex with the WMI half - the fix keeps it for   *)
(* the ten seconds nvidia-smi may take, the statistics never take it.      *)
(*                                                                         *)
(* hc_last_log and hc_oc_last_error return a pointer into a buffer of the  *)
(* DLL; their callers copy the text after the lock is free again.  A copy  *)
(* made while a fix rewrites the log is undefined: any text may come out.  *)
(*                                                                         *)
(* External: the NVIDIA driver (absent, not usable, working; it may be     *)
(* installed or removed at any time), nvidia-smi.exe, and nvapi64.dll,     *)
(* which stays loadable while somebody has it loaded.                      *)
(***************************************************************************)
EXTENDS WmiConnection, FiniteSets

CONSTANT Mixes  \* bound: [calls, changes] - the calls the threads make in one
                \* behaviour, and the parts of the world outside that change

ASSUME MixesAreMixes ==
    Mixes \subseteq [calls: SUBSET {"command", "cpu", "shutdown", "fix", "stats",
                                   "oc_available", "oc_apply"},
                    changes: SUBSET {"wmi", "driver"}]

ASSUME ThreadsAreFinite == IsFiniteSet(Threads)

VARIABLES
    mix,     \* the mix of this behaviour
    driver,  \* the NVIDIA driver
    dll,     \* how often nvapi64.dll is loaded
    oc,      \* the OcBinding: "untried", "bound" or "failed"
    log,     \* the lines of g_log that anything depends on
    smi,     \* what nvidia-smi did for each thread's last fix
    told,    \* what each handler has read out of the answers
    others   \* history: threads whose fix was followed by another one

gpu  == <<mix, driver, dll, oc, log, smi, told, others>>
coreVars == <<wmiVars, gpu>>

Lines    == {"rgc", "not found", "skipped"}

GpuInit ==
    /\ WmiInit
    /\ mix \in Mixes
    /\ "wmi" \in mix.changes \/ (up /\ present)   \* a bound, like mix
    /\ driver \in {"absent", "broken", "working"}
    /\ "driver" \in mix.changes \/ driver = "working"
    /\ dll = 0
    /\ oc = "untried"
    /\ log = {}
    /\ smi = [t \in Threads |-> "none"]
    /\ told = [t \in Threads |-> {}]
    /\ others = {}

Loadable == dll > 0 \/ driver # "absent"
Works    == driver = "working"

KeepWmi == UNCHANGED <<attempt, conns, outside, calm, runs>>
Holding == {t \in Threads : pc[t] \in {"pstates", "usages"}}

-----------------------------------------------------------------------------
(* hc_gpu_clockfix_run, then hc_last_log and the copy of HardwareGpuFix.   *)

\* Mutant: the log goes on from the last fix.
KeptLog(lines)  == log \cup lines

\* g_log is cleared.
FreshLog(lines) == lines

Unread == {o \in Threads : call[o] = "last_log" /\ pc[o] # "idle"}
Fix(t) ==
    /\ pc[t] = "fix"
    /\ log' = FreshLog({})
    /\ others' = others \cup Unread
    /\ \/ Loadable /\ dll' = dll + 1 /\ Goto(t, "pstates")
       \/ ~Loadable /\ UNCHANGED dll /\ Goto(t, "smi")
    /\ KeepWmi /\ UNCHANGED <<call, mix, driver, oc, smi, told>>

\* Mutant: the way out of the loops over the GPUs keeps the library.
PstateSetKeeps(t) == Works /\ UNCHANGED dll

\* The two ways out of EnableDynamicPstates, each with a FreeLibrary of its own:
\* the first GPU that takes the state ends the search (goto step2) ...
PstateSet(t) == Works /\ dll' = dll - 1

\* ... or there is no entry point, NVAPI does not start, or no GPU takes it.
PstateNotSet(t) == dll' = dll - 1

Pstates(t) ==
    /\ pc[t] = "pstates"
    /\ PstateSet(t) \/ PstateNotSet(t)
    /\ Goto(t, "smi")
    /\ KeepWmi /\ UNCHANGED <<call, mix, driver, oc, log, smi, told, others>>

\* nvidia-smi -rgc: not asked for, not found, or run - and then the log has an
\* "-rgc" line however the run ended.
RunSmi(t) ==
    /\ pc[t] = "smi"
    /\ \E did \in {"skipped", "missing", "failed", "done"} :
         /\ smi' = [smi EXCEPT ![t] = did]
         /\ log' = log \cup CASE did = "skipped" -> {"skipped"}
                              [] did = "missing" -> {"not found"}
                              [] OTHER           -> {"rgc"}
    /\ LeaveTo(t, "none", "wait")
    /\ call' = [call EXCEPT ![t] = "last_log"]
    /\ KeepWmi /\ UNCHANGED <<mix, driver, dll, oc, told, others>>

\* The pointer is returned and the lock released.
LastLog(t) ==
    /\ pc[t] = "last_log"
    /\ LeaveTo(t, "none", "copy_log")
    /\ KeepWmi /\ UNCHANGED <<call, gpu>>

\* HardwareGpuFix copies the text and adds its own "-rgc" line after a reset
\* that worked; RunGpuFix derives its answer from the text.
Rewriting == lock # NoOne /\ call[lock] = "fix"
CopyLog(t) ==
    /\ pc[t] = "copy_log"
    /\ \E text \in IF Rewriting THEN SUBSET Lines ELSE {log} :
         told' = [told EXCEPT ![t] = text \cup IF smi[t] = "done" THEN {"rgc"} ELSE {}]
    /\ others' = IF Rewriting THEN others \cup {t} ELSE others
    /\ pc' = [pc EXCEPT ![t] = "idle"]
    /\ reply' = [reply EXCEPT ![t] = "ok"]
    /\ KeepWmi /\ UNCHANGED <<lock, call, mix, driver, dll, oc, log, smi>>

-----------------------------------------------------------------------------
(* hc_gpu_stats_query: no lock.                                            *)

Stats(t) ==
    /\ pc[t] = "wait" /\ call[t] = "stats"
    /\ \/ Loadable /\ dll' = dll + 1 /\ Goto(t, "usages")
       \/ ~Loadable /\ UNCHANGED dll /\ Goto(t, "fallback")
    /\ KeepWmi /\ UNCHANGED <<call, mix, driver, oc, log, smi, told, others>>

\* Mutant: the statistics read in-process keep the library.
UsagesReadKeeps(t) ==
    /\ Works
    /\ UNCHANGED <<dll, lock>>
    /\ pc' = [pc EXCEPT ![t] = "idle"]
    /\ reply' = [reply EXCEPT ![t] = "ok"]

\* The two ways out of the NVAPI query, each with a FreeLibrary of its own: the
\* statistics are read and returned, or nvidia-smi is asked.
UsagesRead(t) ==
    /\ Works
    /\ dll' = dll - 1
    /\ pc' = [pc EXCEPT ![t] = "idle"]
    /\ reply' = [reply EXCEPT ![t] = "ok"]
    /\ UNCHANGED lock

UsagesNotRead(t) == dll' = dll - 1 /\ Goto(t, "fallback")

Usages(t) ==
    /\ pc[t] = "usages"
    /\ UsagesRead(t) \/ UsagesNotRead(t)
    /\ KeepWmi /\ UNCHANGED <<call, mix, driver, oc, log, smi, told, others>>

Fallback(t) ==
    /\ pc[t] = "fallback"
    /\ \E r \in {"ok", "failed"} : reply' = [reply EXCEPT ![t] = r]
    /\ pc' = [pc EXCEPT ![t] = "idle"]
    /\ KeepWmi /\ UNCHANGED <<lock, call, gpu>>

-----------------------------------------------------------------------------
(* The overclocking binding.                                               *)

ProbeExits == {"no entry point", "not initialised", "not resolved", "no GPU"}

\* Mutant: the last way out of the probe keeps the library.
ProbeFailsKeeps(exit) == oc' = "failed" /\ dll' = dll + IF exit = "no GPU" THEN 1 ELSE 0

\* The ways out of OcEnsureLocked once it has loaded the library: each of them
\* frees it on a path of its own.
ProbeFails(exit) == oc' = "failed" /\ UNCHANGED dll

\* Mutant: a failed probe is repeated.
EnsureEveryTime ==
    \/ oc = "bound" /\ UNCHANGED <<oc, dll>>
    \/ oc # "bound" /\ Works /\ oc' = "bound" /\ dll' = dll + 1
    \/ oc # "bound" /\ oc' = "failed" /\ UNCHANGED dll

\* OcEnsureLocked: probed once for the life of the process.  A binding keeps
\* the library loaded.
Ensure ==
    \/ oc # "untried" /\ UNCHANGED <<oc, dll>>
    \/ oc = "untried" /\ ~Loadable /\ oc' = "failed" /\ UNCHANGED dll
    \/ oc = "untried" /\ Loadable /\ \E exit \in ProbeExits : ProbeFails(exit)
    \/ oc = "untried" /\ Loadable /\ Works /\ oc' = "bound" /\ dll' = dll + 1

\* HardwareOcAvailable: hc_oc_available, then hc_oc_last_error.
OcAvailable(t) ==
    /\ pc[t] = "oc_available"
    /\ Ensure
    /\ told' = [told EXCEPT ![t] = IF oc' = "bound" THEN {"available"} ELSE {}]
    /\ LeaveTo(t, "none", "wait")
    /\ call' = [call EXCEPT ![t] = "oc_last_error"]
    /\ KeepWmi /\ UNCHANGED <<mix, driver, log, smi, others>>

OcLastError(t) ==
    /\ pc[t] = "oc_last_error"
    /\ LeaveTo(t, "none", "copy_error")
    /\ KeepWmi /\ UNCHANGED <<call, gpu>>

CopyError(t) ==
    /\ pc[t] = "copy_error"
    /\ told' = [told EXCEPT ![t] = @ \cup IF oc = "failed" THEN {"error"} ELSE {}]
    /\ pc' = [pc EXCEPT ![t] = "idle"]
    /\ reply' = [reply EXCEPT ![t] = "ok"]
    /\ KeepWmi /\ UNCHANGED <<lock, call, mix, driver, dll, oc, log, smi, others>>

\* Mutant: the lock is kept meanwhile.
AskWhyHolding(t) == pc' = [pc EXCEPT ![t] = "wait"] /\ UNCHANGED <<lock, reply>>

\* hc_oc_apply_offset.  Any status but 0 sends the handler to HardwareOcAvailable
\* for the text of its answer, also one that a bound NVAPI has refused with.
AskWhy(t) == LeaveTo(t, "none", "wait")

OcApply(t) ==
    /\ pc[t] = "oc_apply"
    /\ Ensure
    /\ \E status \in IF oc' = "bound" THEN {"taken", "refused"} ELSE {"unavailable"} :
         IF status = "taken"
           THEN Leave(t, "ok") /\ UNCHANGED call
           ELSE AskWhy(t) /\ call' = [call EXCEPT ![t] = "oc_available"]
    /\ KeepWmi /\ UNCHANGED <<mix, driver, log, smi, told, others>>

GpuStep(t) == \/ Fix(t) \/ Pstates(t) \/ RunSmi(t) \/ LastLog(t) \/ CopyLog(t)
              \/ Stats(t) \/ Usages(t) \/ Fallback(t)
              \/ OcAvailable(t) \/ OcLastError(t) \/ CopyError(t) \/ OcApply(t)

-----------------------------------------------------------------------------
EnterGpu(t, c) ==
    /\ pc[t] = "idle"
    /\ Enter(t, c)
    /\ told' = [told EXCEPT ![t] = {}]
    /\ smi' = [smi EXCEPT ![t] = "none"]
    /\ others' = others \ {t}
    /\ UNCHANGED <<mix, driver, dll, oc, log>>

DriverChanges ==
    /\ "driver" \in mix.changes
    /\ driver' \in {"absent", "broken", "working"} \ {driver}
    /\ UNCHANGED <<wmiVars, mix, dll, oc, log, smi, told, others>>

CoreStep(t) ==
    \/ WmiStep(t) /\ ~(pc[t] = "wait" /\ call[t] = "stats") /\ UNCHANGED gpu
    \/ GpuStep(t)

CoreNext ==
    \/ \E t \in Threads : CoreStep(t)
    \/ \E t \in Threads, c \in mix.calls : EnterGpu(t, c)
    \/ "wmi" \in mix.changes /\ OutsideStep /\ UNCHANGED gpu
    \/ DriverChanges

CoreCallsSpec == GpuInit /\ [][CoreNext]_coreVars
FairCoreSpec  == CoreCallsSpec /\ \A t \in Threads : WF_coreVars(CoreStep(t))

-----------------------------------------------------------------------------
(* Properties.                                                             *)

Calls == CoreCalls \cup {"fix", "stats", "last_log", "oc_available", "oc_last_error",
                         "oc_apply"}
Labels == Calls \cup {"idle", "wait", "find", "exec", "query", "pstates", "smi", "usages",
                      "fallback", "copy_log", "copy_error"}

\* Type invariant of the whole core.
CoreTypeOK ==
    /\ WmiTypeOK
    /\ pc \in [Threads -> Labels] /\ call \in [Threads -> Calls \cup {"none"}]
    /\ driver \in {"absent", "broken", "working"}
    /\ dll \in 0..(Cardinality(Threads) + 1)
    /\ oc \in {"untried", "bound", "failed"}
    /\ log \subseteq Lines
    /\ smi \in [Threads -> {"none", "skipped", "missing", "failed", "done"}]
    /\ told \in [Threads -> SUBSET (Lines \cup {"available", "error"})]
    /\ others \subseteq Threads

\* nvapi64.dll is loaded exactly as often as somebody needs it: once for the
\* binding, whose function pointers stay in use, and once for every query or
\* fix under way - no path of either forgets to give it back.
LibraryBalanced == dll = Cardinality(Holding) + IF oc = "bound" THEN 1 ELSE 0

\* The answer to a clock fix tells of that fix - "-rgc" when nvidia-smi was
\* run, "not found" when it was missing - unless another caller's fix got in
\* between the run and the copy of its log (hc_last_log).
FixAnswerIsOwn ==
    \A t \in Threads :
        (smi[t] # "none" /\ pc[t] = "idle" /\ t \notin others) =>
            /\ "rgc" \in told[t] <=> smi[t] \in {"failed", "done"}
            /\ "not found" \in told[t] <=> smi[t] = "missing"

\* Overclocking answers agree: a finished enquiry says "available" exactly when
\* it gives no error, and a driver that comes or goes later changes neither
\* (OcEnsureLocked probes once; a failed probe is remembered for good).
OcAnswersAgree ==
    \A t \in Threads :
        (pc[t] = "idle" /\ call[t] = "oc_last_error") =>
            /\ "available" \in told[t] <=> oc = "bound"
            /\ "error" \in told[t] <=> oc = "failed"

\* Whoever takes g_mutex gives it back: no call of the core waits for the lock
\* it holds, as calling hc_oc_available from hc_oc_apply_offset would.
LockComesBack == \A t \in Threads : lock = t ~> lock # t
=============================================================================
