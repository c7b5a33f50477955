--------------------------- MODULE GpuCalls_proofs ---------------------------
(* Proofs about WmiConnection and GpuCalls, for any finite set of callers,  *)
(* any mix of calls and any weather outside.                                *)
EXTENDS GpuCalls, FiniteSetTheorems, TLAPS

-----------------------------------------------------------------------------
(* The lock.                                                               *)

\* The labels at which a call stands while it holds g_mutex, and those of the
\* calls that do not (or no longer) hold it.
LockedLabels(c) ==
    CASE c = "command" -> {"command", "find", "exec"}
      [] c = "cpu"     -> {"cpu", "query"}
      [] c = "fix"     -> {"fix", "pstates", "smi"}
      [] c \in {"shutdown", "last_log", "oc_available", "oc_last_error", "oc_apply"} -> {c}
      [] OTHER         -> {}

FreeLabels(c) ==
    {"idle"} \cup CASE c = "none"          -> {}
                    [] c = "stats"         -> {"wait", "usages", "fallback"}
                    [] c = "last_log"      -> {"wait", "copy_log"}
                    [] c = "oc_last_error" -> {"wait", "copy_error"}
                    [] OTHER               -> {"wait"}

\* g_mutex is held exactly by the thread that stands inside a call.
LockInv ==
    \A t \in Threads :
        /\ pc[t] \in LockedLabels(call[t]) \cup FreeLabels(call[t])
        /\ lock = t <=> pc[t] \in LockedLabels(call[t])

CallTypes ==
    /\ lock \in Threads \cup {NoOne}
    /\ pc \in [Threads -> Labels] /\ call \in [Threads -> Calls \cup {"none"}]

\* What every step of a thread does to the places of all of them.
Moved(t) ==
    /\ CallTypes'
    /\ \A u \in Threads \ {t} :
        pc'[u] = pc[u] /\ call'[u] = call[u] /\ (lock' = u <=> lock = u)
    /\ call'[t] \in Calls
    /\ pc'[t] \in LockedLabels(call'[t]) \cup FreeLabels(call'[t])
    /\ lock' = t <=> pc'[t] \in LockedLabels(call'[t])

LEMMA MovedKeepsLock ==
    ASSUME LockInv, NEW t \in Threads, Moved(t)
    PROVE  LockInv'
BY DEF LockInv, Moved

\* The labels tell the calls apart.
LEMMA LabelsTell ==
    ASSUME CallTypes, LockInv, NEW t \in Threads
    PROVE  /\ pc[t] \in {"command", "find", "exec"} => call[t] = "command" /\ lock = t
           /\ pc[t] \in {"cpu", "query"} => call[t] = "cpu" /\ lock = t
           /\ pc[t] \in {"fix", "pstates", "smi"} => call[t] = "fix" /\ lock = t
           /\ pc[t] \in {"shutdown", "last_log", "oc_available", "oc_last_error",
                         "oc_apply"} => call[t] = pc[t] /\ lock = t
           /\ pc[t] \in {"usages", "fallback"} => call[t] = "stats" /\ lock # t
           /\ pc[t] = "copy_log" => call[t] = "last_log" /\ lock # t
           /\ pc[t] = "copy_error" => call[t] = "oc_last_error" /\ lock # t
           /\ pc[t] \in {"idle", "wait"} => lock # t
           /\ pc[t] \in Labels \ {"idle"} => call[t] \in Calls
BY DEF CallTypes, LockInv, Labels, LockedLabels, FreeLabels, Calls, CoreCalls

LEMMA LabelFacts ==
    /\ LockedLabels("command") = {"command", "find", "exec"}
    /\ LockedLabels("cpu") = {"cpu", "query"}
    /\ LockedLabels("fix") = {"fix", "pstates", "smi"}
    /\ \A c \in {"shutdown", "last_log", "oc_available", "oc_last_error", "oc_apply"} :
         LockedLabels(c) = {c}
    /\ LockedLabels("stats") = {}
    /\ \A c \in Calls : "idle" \in FreeLabels(c) /\ "idle" \notin LockedLabels(c)
    /\ \A c \in Calls : "wait" \in FreeLabels(c) /\ "wait" \notin LockedLabels(c)
    /\ {"usages", "fallback"} \subseteq FreeLabels("stats")
    /\ "copy_log" \in FreeLabels("last_log") \ LockedLabels("last_log")
    /\ "copy_error" \in FreeLabels("oc_last_error") \ LockedLabels("oc_last_error")
BY DEF LockedLabels, FreeLabels, Calls, CoreCalls

LEMMA CallNames ==
    /\ Calls = {"command", "cpu", "shutdown", "fix", "stats", "last_log", "oc_available",
                "oc_last_error", "oc_apply"}
    /\ Labels = Calls \cup {"idle", "wait", "find", "exec", "query", "pstates", "smi",
                            "usages", "fallback", "copy_log", "copy_error"}
BY DEF Calls, CoreCalls, Labels

\* A thread that stays inside its call.
LEMMA GotoMoves ==
    ASSUME CallTypes, LockInv, NEW t \in Threads, NEW l \in Labels, Goto(t, l),
           call' = call, l \in LockedLabels(call[t]) \cup FreeLabels(call[t]),
           lock = t <=> l \in LockedLabels(call[t]), call[t] \in Calls
    PROVE  Moved(t)
BY DEF CallTypes, Goto, Moved

\* A thread that leaves its call, for another label or another call.
LEMMA LeaveMoves ==
    ASSUME CallTypes, LockInv, NEW t \in Threads, NEW l \in Labels, NEW r,
           lock = t, LeaveTo(t, r, l), NEW c \in Calls, call' = [call EXCEPT ![t] = c],
           l \in FreeLabels(c) \ LockedLabels(c)
    PROVE  Moved(t)
BY NoOneIsNoThread DEF CallTypes, LeaveTo, Moved

LEMMA CallKept ==
    ASSUME CallTypes, NEW t \in Threads, call' = call
    PROVE  call' = [call EXCEPT ![t] = call[t]]
BY DEF CallTypes

LEMMA AttemptFailedMoves ==
    ASSUME CallTypes, LockInv, NEW t \in Threads, call[t] = "command", lock = t,
           AttemptFailed(t), call' = call
    PROVE  Moved(t)
<1>0. "command" \in Calls
  BY CallNames
<1>1. CASE Goto(t, "command")
  BY <1>0, <1>1, LabelFacts, CallNames, GotoMoves
<1>2. CASE LeaveTo(t, "failed", "idle")
  BY <1>0, <1>2, LabelFacts, CallNames, CallKept, LeaveMoves
<1>. QED BY <1>1, <1>2 DEF AttemptFailed, Leave

LEMMA WmiStepMoves ==
    ASSUME CallTypes, LockInv, NEW t \in Threads, WmiStep(t),
           ~(pc[t] = "wait" /\ call[t] = "stats")
    PROVE  Moved(t)
<1>1. CASE Acquire(t)
  <2>1. call[t] \in Calls \ {"stats"} /\ pc'[t] = call[t] /\ lock' = t /\ lock = NoOne
    BY <1>1, LabelsTell DEF Acquire, CallTypes
  <2>2. call[t] \in LockedLabels(call[t])
    BY <2>1 DEF Calls, CoreCalls, LockedLabels
  <2>. QED BY <1>1, <2>1, <2>2, NoOneIsNoThread DEF Acquire, CallTypes, Moved, Labels
<1>2. CASE Connect(t)
  <2>1. call[t] = "command" /\ lock = t /\ call' = call
    BY <1>2, LabelsTell DEF Connect
  <2>2. Goto(t, "find") \/ AttemptFailed(t)
    BY <1>2 DEF Connect
  <2>. QED BY <2>1, <2>2, LabelFacts, CallNames, GotoMoves, AttemptFailedMoves
<1>3. CASE Find(t)
  <2>1. call[t] = "command" /\ lock = t /\ call' = call
    BY <1>3, LabelsTell DEF Find
  <2>2. Goto(t, "exec") \/ AttemptFailed(t)
    BY <1>3 DEF Find
  <2>. QED BY <2>1, <2>2, LabelFacts, CallNames, GotoMoves, AttemptFailedMoves
<1>4. CASE Exec(t)
  <2>1. call[t] = "command" /\ lock = t /\ call' = call
    BY <1>4, LabelsTell DEF Exec
  <2>2. LeaveTo(t, "ok", "idle") \/ AttemptFailed(t)
    BY <1>4 DEF Exec, Leave
  <2>. QED BY <2>1, <2>2, LabelFacts, CallNames, CallKept,
              LeaveMoves, AttemptFailedMoves
<1>5. CASE Cpu(t) \/ Query(t)
  <2>1. call[t] = "cpu" /\ lock = t /\ call' = call
    BY <1>5, LabelsTell DEF Cpu, Query
  <2>2. Goto(t, "query") \/ \E r : LeaveTo(t, r, "idle")
    BY <1>5 DEF Cpu, Query, Leave
  <2>. QED BY <2>1, <2>2, GotoMoves, LabelFacts, CallNames, CallKept,
              LeaveMoves
<1>6. CASE Shutdown(t)
  <2>1. call[t] = "shutdown" /\ lock = t /\ call' = call
    BY <1>6, LabelsTell DEF Shutdown
  <2>2. LeaveTo(t, "ok", "idle")
    BY <1>6 DEF Shutdown, Leave
  <2>. QED BY <2>1, <2>2, LabelFacts, CallNames, CallKept,
              LeaveMoves
<1>. QED BY <1>1, <1>2, <1>3, <1>4, <1>5, <1>6 DEF WmiStep

LEMMA GpuStepMoves ==
    ASSUME CallTypes, LockInv, NEW t \in Threads, GpuStep(t)
    PROVE  Moved(t)
<1>1. CASE Fix(t) \/ Pstates(t)
  <2>1. call[t] = "fix" /\ lock = t /\ call' = call
    BY <1>1, LabelsTell DEF Fix, Pstates, PstateSet, PstateNotSet
  <2>2. Goto(t, "pstates") \/ Goto(t, "smi")
    BY <1>1 DEF Fix, Pstates, PstateSet, PstateNotSet
  <2>. QED BY <2>1, <2>2, LabelFacts, CallNames, GotoMoves
<1>2. CASE RunSmi(t)
  <2>1. lock = t /\ LeaveTo(t, "none", "wait") /\ call' = [call EXCEPT ![t] = "last_log"]
    BY <1>2, LabelsTell DEF RunSmi
  <2>. QED BY <2>1, LabelFacts, CallNames, LeaveMoves
<1>3. CASE LastLog(t)
  <2>1. lock = t /\ call[t] = "last_log" /\ LeaveTo(t, "none", "copy_log") /\ call' = call
    BY <1>3, LabelsTell DEF LastLog
  <2>. QED BY <2>1, LabelFacts, CallNames, CallKept, LeaveMoves
<1>4. CASE CopyLog(t) \/ Usages(t) \/ Fallback(t) \/ CopyError(t)
  <2>1. lock # t /\ call[t] \in Calls /\ call' = call
    BY <1>4, LabelsTell, CallNames DEF CopyLog, Usages, UsagesRead, UsagesNotRead, Fallback,
        CopyError
  <2>2. /\ lock' = lock
        /\ \/ pc' = [pc EXCEPT ![t] = "idle"]
           \/ pc' = [pc EXCEPT ![t] = "fallback"] /\ call[t] = "stats"
    BY <1>4, LabelsTell DEF CopyLog, Usages, UsagesRead, UsagesNotRead, Fallback, CopyError, Goto
  <2>. QED BY <2>1, <2>2, LabelFacts, CallNames DEF Moved, CallTypes
<1>5. CASE Stats(t)
  <2>1. lock # t /\ call[t] = "stats" /\ call' = call
    BY <1>5, LabelsTell DEF Stats
  <2>2. Goto(t, "usages") \/ Goto(t, "fallback")
    BY <1>5 DEF Stats
  <2>. QED BY <2>1, <2>2, LabelFacts, CallNames, GotoMoves
<1>6. CASE OcAvailable(t)
  <2>1. lock = t /\ LeaveTo(t, "none", "wait") /\ call' = [call EXCEPT ![t] = "oc_last_error"]
    BY <1>6, LabelsTell DEF OcAvailable
  <2>. QED BY <2>1, LabelFacts, CallNames, LeaveMoves
<1>7. CASE OcLastError(t)
  <2>1. /\ lock = t /\ call[t] = "oc_last_error" /\ LeaveTo(t, "none", "copy_error")
        /\ call' = call
    BY <1>7, LabelsTell DEF OcLastError
  <2>. QED BY <2>1, LabelFacts, CallNames, CallKept, LeaveMoves
<1>8. CASE OcApply(t)
  <2>1. /\ lock = t /\ call[t] = "oc_apply"
        /\ \/ LeaveTo(t, "ok", "idle") /\ call' = call
           \/ LeaveTo(t, "none", "wait") /\ call' = [call EXCEPT ![t] = "oc_available"]
    BY <1>8, LabelsTell DEF OcApply, Leave, AskWhy
  <2>. QED BY <2>1, LabelFacts, CallNames, CallKept, LeaveMoves
<1>. QED BY <1>1, <1>2, <1>3, <1>4, <1>5, <1>6, <1>7, <1>8 DEF GpuStep

LEMMA EnterMoves ==
    ASSUME CallTypes, LockInv, NEW t \in Threads, NEW c \in mix.calls, mix.calls \subseteq Calls,
           EnterGpu(t, c)
    PROVE  Moved(t)
<1>1. lock # t /\ pc' = [pc EXCEPT ![t] = "wait"] /\ call' = [call EXCEPT ![t] = c]
      /\ lock' = lock
  BY LabelsTell DEF EnterGpu, Enter
<1>. QED BY <1>1, LabelFacts, CallNames DEF Moved, CallTypes

-----------------------------------------------------------------------------
(* The connections.                                                        *)

Runs(c) == lock # NoOne /\ call[lock] = c

\* What a command and a CPU reading may rely on while they hold the lock.
WmiInv ==
    /\ PathBelongsToConnection
    /\ wmi <= epoch /\ cim <= epoch
    /\ calm /\ lock # NoOne => up /\ present
    /\ \A t \in Threads : pc[t] = "query" => cim # None
    /\ \A t \in Threads : pc[t] \in {"find", "exec"} => wmi # None
    /\ \A t \in Threads : pc[t] = "exec" => path # NoPath
    /\ Runs("command") => runs <= attempt
    \* in calm weather the second attempt uses nothing cached before it
    /\ Runs("command") /\ calm /\ attempt = 1 =>
         /\ wmi \in {None, epoch}
         /\ path # NoPath => path.name = name

CallInv == CallTypes /\ LockInv /\ WmiTypeOK

\* A failed attempt rebuilds everything cached, or ends the call.
LEMMA AttemptFailedKeeps ==
    ASSUME CallInv, WmiInv, NEW t \in Threads, call[t] = "command", lock = t,
           AttemptFailed(t), call' = call, UNCHANGED outside,
           runs' \in {runs, runs + 1}, calm' \in BOOLEAN, calm' => calm
    PROVE  WmiTypeOK' /\ WmiInv'
<1>1. runs' \in 0..(attempt + 1) /\ attempt \in {0, 1} /\ runs' \in 0..2
  BY NoOneIsNoThread DEF WmiInv, Runs, CallInv, WmiTypeOK
<1>2. CASE /\ attempt = 0 /\ attempt' = 1 /\ ResetWmi /\ Goto(t, "command")
  <2>1. WmiTypeOK'
    BY <1>1, <1>2, BoundsAreNat
       DEF CallInv, WmiTypeOK, ResetWmi, Goto, outside, None, NoPath
  <2>2. \A u \in Threads : pc'[u] \in {"find", "exec", "query"} => pc'[u] = pc[u] /\ u # t
    BY <1>2 DEF CallInv, CallTypes, Goto
  <2>3. \A u \in Threads \ {t} : pc[u] \notin {"find", "exec", "query"}
    BY LabelsTell DEF CallInv
  <2>. QED BY <1>1, <1>2, <2>1, <2>2, <2>3
           DEF WmiInv, PathBelongsToConnection, Runs, ResetWmi, Goto, outside, CallInv,
               WmiTypeOK, None
<1>3. CASE attempt = 1 /\ Leave(t, "failed") /\ UNCHANGED <<attempt, conns>>
  <2>1. WmiTypeOK'
    BY <1>1, <1>3 DEF CallInv, WmiTypeOK, Leave, LeaveTo, Replies, outside, conns
  <2>2. \A u \in Threads : pc'[u] \in {"find", "exec", "query"} => pc'[u] = pc[u]
    BY <1>3 DEF CallInv, CallTypes, Leave, LeaveTo
  <2>3. lock' = NoOne
    BY <1>3 DEF Leave, LeaveTo
  <2>. QED BY <1>1, <1>3, <2>1, <2>2, <2>3
           DEF WmiInv, PathBelongsToConnection, Runs, outside, conns
<1>. QED BY <1>1, <1>2, <1>3 DEF AttemptFailed, Attempts

LEMMA WmiStepKeeps ==
    ASSUME CallInv, WmiInv, NEW t \in Threads, WmiStep(t),
           ~(pc[t] = "wait" /\ call[t] = "stats")
    PROVE  WmiTypeOK' /\ WmiInv'
<1>. USE NoOneIsNoThread, BoundsAreNat
<1>. CallTypes /\ LockInv /\ WmiTypeOK
  BY DEF CallInv
<1>9. ASSUME calm' \in {calm, FALSE} PROVE calm' \in BOOLEAN /\ (calm' => calm)
  <2>1. calm \in BOOLEAN
    BY DEF WmiTypeOK
  <2>2. CASE calm' = calm
    BY <2>1, <2>2
  <2>3. CASE calm' = FALSE
    BY <2>3
  <2>. QED BY <1>9, <2>2, <2>3
<1>0. Moved(t)
  BY WmiStepMoves
<1>1. CASE Acquire(t)
  <2>1. call[t] \in Calls /\ pc'[t] = call[t] /\ lock' = t /\ lock = NoOne /\ call' = call
    BY <1>1, LabelsTell, CallNames DEF Acquire, CallTypes
  <2>2. WmiTypeOK'
    BY <1>1, <2>1 DEF Acquire, WmiTypeOK, conns, outside
  <2>3. \A u \in Threads : pc'[u] \in {"find", "exec", "query"} => pc'[u] = pc[u]
    BY <1>0, <2>1, CallNames DEF Moved
  <2>. QED BY <1>1, <2>1, <2>3
           DEF Acquire, WmiInv, PathBelongsToConnection, Runs, conns, outside, WmiTypeOK
<1>2. CASE Connect(t)
  <2>1. call[t] = "command" /\ lock = t /\ call' = call /\ UNCHANGED outside /\ runs' = runs
    BY <1>2, LabelsTell DEF Connect
  <2>2. ASSUME AttemptFailed(t), Fault(~up) PROVE WmiTypeOK' /\ WmiInv'
    <3>1. calm' \in {calm, FALSE} /\ runs' \in {runs, runs + 1}
      BY <2>1, <2>2 DEF Fault
    <3>. QED BY <1>9, <2>1, <2>2, <3>1, AttemptFailedKeeps
  <2>3. ASSUME wmi' = wmi, wmi # None, UNCHANGED <<conns, attempt, calm>>, Goto(t, "find")
        PROVE  WmiTypeOK' /\ WmiInv'
    BY <1>0, <2>1, <2>3
       DEF Goto, Moved, CallTypes, WmiTypeOK, WmiInv, PathBelongsToConnection, Runs,
           conns, outside
  <2>4. ASSUME wmi = None, up, wmi' = epoch, Goto(t, "find"),
               UNCHANGED <<cim, path, attempt, calm>>
        PROVE  WmiTypeOK' /\ WmiInv'
    <3>1. path = NoPath
      BY <2>4 DEF WmiInv, PathBelongsToConnection
    <3>2. \A u \in Threads \ {t} : pc[u] \notin {"find", "exec", "query"}
      BY <2>1, LabelsTell
    <3>. QED BY <1>0, <2>1, <2>4, <3>1, <3>2
             DEF Goto, Moved, CallTypes, WmiTypeOK, WmiInv, PathBelongsToConnection, Runs,
                 outside, None
  <2>. QED BY <1>2, <2>2, <2>3, <2>4 DEF Connect, conns
<1>3. CASE Find(t)
  <2>1. /\ call[t] = "command" /\ lock = t /\ call' = call /\ UNCHANGED outside /\ runs' = runs
        /\ wmi # None
    BY <1>3, LabelsTell DEF Find, WmiInv
  <2>2. ASSUME AttemptFailed(t), calm' \in {calm, FALSE} PROVE WmiTypeOK' /\ WmiInv'
    BY <1>9, <2>1, <2>2, AttemptFailedKeeps
  <2>3. ASSUME path # NoPath, UNCHANGED <<conns, attempt, calm>>, Goto(t, "exec")
        PROVE  WmiTypeOK' /\ WmiInv'
    BY <1>0, <2>1, <2>3
       DEF Goto, Moved, CallTypes, WmiTypeOK, WmiInv, PathBelongsToConnection, Runs,
           conns, outside
  <2>4. ASSUME path' = [conn |-> wmi, name |-> name], Goto(t, "exec"),
               UNCHANGED <<wmi, cim, attempt, calm>>
        PROVE  WmiTypeOK' /\ WmiInv'
    <3>1. path' # NoPath /\ path'.conn = wmi /\ path'.name = name
      BY <2>1, <2>4 DEF NoPath, None
    <3>2. WmiTypeOK'
      BY <1>0, <2>1, <2>4, <3>1 DEF Goto, Moved, CallTypes, WmiTypeOK, outside
    <3>. QED BY <1>0, <2>1, <2>4, <3>1, <3>2
             DEF Goto, Moved, CallTypes, WmiTypeOK, WmiInv, PathBelongsToConnection, Runs,
                 outside
  <2>. QED BY <1>3, <2>2, <2>3, <2>4 DEF Find, Fault
<1>4. CASE Exec(t)
  <2>1. call[t] = "command" /\ lock = t /\ call' = call /\ UNCHANGED outside
    BY <1>4, LabelsTell DEF Exec
  <2>2. ASSUME AttemptFailed(t), calm' \in {calm, FALSE}, runs' \in {runs, runs + 1}
        PROVE  WmiTypeOK' /\ WmiInv'
    BY <1>9, <2>1, <2>2, AttemptFailedKeeps
  <2>3. ASSUME Leave(t, "ok"), UNCHANGED <<attempt, conns, calm>>, runs' = runs + 1
        PROVE  WmiTypeOK' /\ WmiInv'
    <3>1. runs' \in 0..2
      BY <2>1, <2>3 DEF WmiInv, Runs, WmiTypeOK
    <3>. QED BY <1>0, <2>1, <2>3, <3>1
             DEF Leave, LeaveTo, Moved, CallTypes, WmiTypeOK, WmiInv, Replies,
                 PathBelongsToConnection, Runs, conns, outside
  <2>. QED BY <1>4, <2>2, <2>3 DEF Exec, Fault
<1>5. CASE Cpu(t)
  <2>1. /\ call[t] = "cpu" /\ lock = t /\ call' = call
        /\ UNCHANGED <<outside, runs, wmi, path, attempt>>
        /\ calm' \in {calm, FALSE}
    BY <1>5, LabelsTell DEF Cpu, conns, Fault
  <2>2. \/ Goto(t, "query") /\ cim' # None /\ cim' \in 0..MaxEpoch /\ cim' <= epoch
        \/ LeaveTo(t, "failed", "idle") /\ cim' = cim
    BY <1>5 DEF Cpu, conns, Leave, WmiTypeOK, WmiInv, None
  <2>3. \A u \in Threads \ {t} : pc[u] \notin {"find", "exec", "query"}
    BY <2>1, LabelsTell
  <2>4. WmiTypeOK'
    BY <2>1, <2>2 DEF Goto, LeaveTo, WmiTypeOK, outside, Replies
  <2>5. /\ pc'[t] \in {"query", "idle"} /\ \A u \in Threads \ {t} : pc'[u] = pc[u]
        /\ lock' \in {lock, NoOne}
        /\ pc'[t] = "query" => cim' # None
        /\ cim' = cim \/ cim' <= epoch
    <3>1. \A u \in Threads \ {t} : pc'[u] = pc[u]
      BY <1>0 DEF Moved
    <3>2. CASE Goto(t, "query") /\ cim' # None /\ cim' <= epoch
      BY <2>1, <3>1, <3>2 DEF Goto, CallInv, CallTypes
    <3>3. CASE LeaveTo(t, "failed", "idle") /\ cim' = cim
      BY <2>1, <3>1, <3>3 DEF LeaveTo, CallInv, CallTypes
    <3>. QED BY <2>2, <3>2, <3>3
  <2>6. ~Runs("command")'
    BY <2>1, <2>5, NoOneIsNoThread DEF Runs
  <2>7. calm' => calm
    BY <1>9, <2>1
  <2>. QED BY <2>1, <2>3, <2>4, <2>5, <2>6, <2>7
           DEF WmiInv, PathBelongsToConnection, outside
<1>6. CASE Query(t)
  <2>1. /\ call[t] = "cpu" /\ lock = t /\ UNCHANGED <<outside, runs, conns, attempt, call>>
        /\ calm' \in {calm, FALSE} /\ \E r \in {"ok", "failed"} : LeaveTo(t, r, "idle")
    BY <1>6, LabelsTell DEF Query, Fault, Leave
  <2>2. WmiTypeOK'
    BY <2>1 DEF LeaveTo, WmiTypeOK, outside, conns, Replies
  <2>. QED BY <1>0, <2>1, <2>2
           DEF LeaveTo, Moved, CallTypes, WmiInv, PathBelongsToConnection, Runs, conns,
               outside, WmiTypeOK
<1>7. CASE Shutdown(t)
  <2>1. /\ lock = t /\ UNCHANGED <<outside, runs, attempt, call, calm>>
        /\ wmi' = None /\ cim' = None /\ path' = NoPath /\ LeaveTo(t, "ok", "idle")
    BY <1>7, LabelsTell DEF Shutdown, Leave
  <2>2. \A u \in Threads \ {t} : pc[u] \notin {"find", "exec", "query"}
    BY <2>1, LabelsTell
  <2>3. WmiTypeOK'
    BY <2>1 DEF LeaveTo, WmiTypeOK, outside, conns, Replies, None, NoPath
  <2>. QED BY <1>0, <2>1, <2>2, <2>3
           DEF LeaveTo, Moved, CallTypes, WmiInv, PathBelongsToConnection, Runs, outside,
               WmiTypeOK, None
<1>. QED BY <1>1, <1>2, <1>3, <1>4, <1>5, <1>6, <1>7 DEF WmiStep

\* The GPU half leaves the WMI half alone and at most gives the lock back.
LEMMA GpuStepFrame ==
    ASSUME CallInv, NEW t \in Threads, GpuStep(t)
    PROVE  /\ UNCHANGED <<attempt, conns, outside, calm, runs>>
           /\ lock' = NoOne \/ (lock' = lock /\ call' = call)
           /\ reply' \in [Threads -> Replies]
           /\ pc'[t] \notin {"command", "find", "exec", "cpu", "query"}
           /\ call'[t] # "command"
<1>. CallTypes /\ LockInv /\ WmiTypeOK
  BY DEF CallInv
<1>1. CASE Fix(t) \/ Pstates(t)
  BY <1>1, LabelsTell DEF Fix, Pstates, PstateSet, PstateNotSet, KeepWmi, Goto, WmiTypeOK, CallTypes
<1>4. CASE RunSmi(t) \/ LastLog(t)
  <2>1. LeaveTo(t, "none", "wait") \/ LeaveTo(t, "none", "copy_log")
    BY <1>4 DEF RunSmi, LastLog
  <2>2. reply' \in [Threads -> Replies] /\ lock' = NoOne /\ pc'[t] \in {"wait", "copy_log"}
    BY <2>1 DEF LeaveTo, WmiTypeOK, CallTypes, Replies
  <2>3. call'[t] # "command" /\ UNCHANGED <<attempt, conns, outside, calm, runs>>
    BY <1>4, LabelsTell DEF RunSmi, LastLog, KeepWmi, CallTypes
  <2>. QED BY <2>2, <2>3
<1>2. CASE CopyLog(t) \/ Stats(t) \/ Usages(t) \/ Fallback(t)
  BY <1>2, LabelsTell
     DEF CopyLog, Stats, Usages, UsagesRead, UsagesNotRead, Fallback, KeepWmi, Goto, WmiTypeOK,
         CallTypes, Replies
<1>3. CASE OcAvailable(t) \/ OcLastError(t) \/ CopyError(t) \/ OcApply(t)
  BY <1>3, LabelsTell
     DEF OcAvailable, OcLastError, CopyError, OcApply, Leave, AskWhy, KeepWmi, LeaveTo,
         WmiTypeOK, CallTypes, Replies
<1>. QED BY <1>1, <1>2, <1>3, <1>4 DEF GpuStep

\* Steps that neither take the lock nor touch the WMI half.
LEMMA QuietKeeps ==
    ASSUME CallInv, WmiInv, NEW t \in Threads, Moved(t),
           UNCHANGED <<attempt, conns, outside, calm, runs>>,
           reply' \in [Threads -> Replies],
           lock' = NoOne \/ lock' = lock,
           pc'[t] \notin {"find", "exec", "query"}, lock = t /\ lock' = t => call'[t] = call[t]
    PROVE  WmiTypeOK' /\ WmiInv'
<1>1. WmiTypeOK'
  BY DEF CallInv, WmiTypeOK, Moved, CallTypes, conns, outside
<1>2. Runs("command")' => Runs("command")
  BY NoOneIsNoThread DEF Moved, Runs, CallInv, CallTypes
<1>. QED BY <1>1, <1>2 DEF WmiInv, PathBelongsToConnection, Moved, conns, outside

LEMMA OutsideKeeps ==
    ASSUME CallInv, WmiInv, OutsideStep
    PROVE  WmiTypeOK' /\ WmiInv'
<1>1. WmiTypeOK' /\ epoch' >= epoch
  <2>1. UNCHANGED <<lock, attempt, wmi, cim, path, reply, runs>> /\ calm' \in BOOLEAN
    BY DEF OutsideStep, Inside, conns
  <2>2. /\ up \in BOOLEAN /\ epoch \in 1..MaxEpoch
        /\ present \in BOOLEAN /\ name \in 1..MaxNames
    BY DEF CallInv, WmiTypeOK
  <2>3. /\ up' \in BOOLEAN /\ epoch' \in 1..MaxEpoch /\ epoch' >= epoch
        /\ present' \in BOOLEAN /\ name' \in 1..MaxNames
    <3>1. CASE WmiStops
      <4>1. up' \in BOOLEAN /\ UNCHANGED <<epoch, present, name>>
        BY <3>1, Zenon DEF WmiStops
      <4>. QED BY <2>2, <4>1, BoundsAreNat
    <3>2. CASE WmiStarts
      <4>1. epoch' = epoch + 1 /\ epoch < MaxEpoch /\ up' = TRUE
            /\ UNCHANGED <<present, name>>
        BY <3>2 DEF WmiStarts
      <4>. QED BY <2>2, <4>1, BoundsAreNat
    <3>3. CASE InstanceGoes
      <4>1. present' \in BOOLEAN /\ UNCHANGED <<up, epoch, name>>
        BY <3>3, Zenon DEF InstanceGoes
      <4>. QED BY <2>2, <4>1, BoundsAreNat
    <3>4. CASE InstanceComes
      <4>1. /\ name' \in {name, name + 1} /\ name' <= MaxNames /\ present' = TRUE
            /\ UNCHANGED <<up, epoch>>
        BY <3>4 DEF InstanceComes
      <4>. QED BY <2>2, <4>1, BoundsAreNat
    <3>. QED BY <3>1, <3>2, <3>3, <3>4 DEF OutsideStep
  <2>. QED BY <2>1, <2>3 DEF CallInv, WmiTypeOK
<1>2. UNCHANGED <<pc, lock, call, attempt, wmi, cim, path, runs>> /\ calm' = FALSE
  BY DEF OutsideStep, Inside, conns
<1>. QED BY <1>1, <1>2 DEF WmiInv, PathBelongsToConnection, Runs, CallInv, WmiTypeOK

-----------------------------------------------------------------------------
(* The GPU half.                                                           *)

GpuTypes ==
    /\ mix \in Mixes
    /\ driver \in {"absent", "broken", "working"}
    /\ oc \in {"untried", "bound", "failed"}
    /\ log \subseteq Lines
    /\ smi \in [Threads -> {"none", "skipped", "missing", "failed", "done"}]
    /\ told \in [Threads -> SUBSET (Lines \cup {"available", "error"})]
    /\ others \subseteq Threads

\* What is known of an answer while its handler is still collecting it.
\* An outcome belongs to a thread that asks for the log.
SmiInv == \A t \in Threads : smi[t] # "none" <=> call[t] = "last_log"

\* While a fix is being made, the log is empty and its readers are counted.
ClearInv == \A t \in Threads : pc[t] \in {"pstates", "smi"} => log = {} /\ Unread \subseteq others

\* The text a thread reads or has read, undisturbed, tells its own outcome.
Tells(t) ==
    call[t] = "last_log" /\ t \notin others =>
         LET text == IF pc[t] = "idle" THEN told[t] ELSE log
         IN  /\ "rgc" \in text <=> smi[t] \in {"failed", "done"}
             /\ "not found" \in text <=> smi[t] = "missing"

FixInv == SmiInv /\ ClearInv /\ \A t \in Threads : Tells(t)

OcInv ==
    \A t \in Threads : call[t] = "oc_last_error" =>
        /\ oc # "untried"
        /\ "available" \in told[t] <=> oc = "bound"
        /\ "error" \in told[t] <=> pc[t] = "idle" /\ oc = "failed"

LEMMA CallsOfMix ==
    ASSUME mix \in Mixes
    PROVE  mix.calls \subseteq Calls \ {"last_log", "oc_last_error"}
BY MixesAreMixes, CallNames

LEMMA GpuTypesKept ==
    ASSUME GpuTypes, NEW t \in Threads, GpuStep(t)
    PROVE  GpuTypes'
<1>1. CASE Fix(t) \/ Pstates(t) \/ LastLog(t)
  BY <1>1 DEF GpuTypes, Fix, Pstates, PstateSet, PstateNotSet, LastLog, FreshLog, Unread, gpu
<1>2. CASE RunSmi(t)
  BY <1>2 DEF GpuTypes, RunSmi, Lines
<1>3. CASE CopyLog(t)
  <2>1. PICK text \in SUBSET Lines :
          told' = [told EXCEPT ![t] = text \cup IF smi[t] = "done" THEN {"rgc"} ELSE {}]
    BY <1>3 DEF GpuTypes, CopyLog
  <2>2. (text \cup IF smi[t] = "done" THEN {"rgc"} ELSE {})
          \in SUBSET (Lines \cup {"available", "error"})
    BY DEF Lines
  <2>3. others' \subseteq Threads /\ UNCHANGED <<mix, driver, oc, log, smi>>
    BY <1>3 DEF GpuTypes, CopyLog
  <2>. QED BY <2>1, <2>2, <2>3 DEF GpuTypes
<1>4. CASE Stats(t) \/ Usages(t) \/ Fallback(t)
  BY <1>4 DEF GpuTypes, Stats, Usages, UsagesRead, UsagesNotRead, Fallback, gpu
<1>5. CASE OcAvailable(t) \/ OcLastError(t) \/ CopyError(t) \/ OcApply(t)
  BY <1>5 DEF GpuTypes, OcAvailable, OcLastError, CopyError, OcApply, Ensure, ProbeFails, gpu
<1>. QED BY <1>1, <1>2, <1>3, <1>4, <1>5 DEF GpuStep

\* The library: who enters or leaves a query changes the count by one.
LEMMA HoldingMoves ==
    ASSUME CallTypes, NEW t \in Threads, Moved(t)
    PROVE  /\ IsFiniteSet(Holding) /\ Cardinality(Holding) \in Nat
           /\ pc'[t] \in {"pstates", "usages"} <=> t \in Holding'
           /\ pc[t] \in {"pstates", "usages"} <=> t \in Holding
           /\ t \in Holding' /\ t \notin Holding
                => Cardinality(Holding') = Cardinality(Holding) + 1
           /\ t \notin Holding' /\ t \in Holding
                => Cardinality(Holding') = Cardinality(Holding) - 1
           /\ (t \in Holding' <=> t \in Holding) => Holding' = Holding
<1>1. IsFiniteSet(Holding) /\ Cardinality(Holding) \in Nat
  BY ThreadsAreFinite, FS_Subset, FS_CardinalityType DEF Holding
<1>2. Holding' = IF pc'[t] \in {"pstates", "usages"} THEN Holding \cup {t}
                                                     ELSE Holding \ {t}
  BY DEF Holding, Moved, CallTypes
<1>3. /\ pc'[t] \in {"pstates", "usages"} <=> t \in Holding'
      /\ pc[t] \in {"pstates", "usages"} <=> t \in Holding
  BY <1>2 DEF Holding
<1>4. ASSUME t \in Holding', t \notin Holding
      PROVE  Cardinality(Holding') = Cardinality(Holding) + 1
  <2>1. Holding' = Holding \cup {t}
    BY <1>2, <1>3, <1>4
  <2>. QED BY <1>1, <1>4, <2>1, FS_AddElement
<1>5. ASSUME t \notin Holding', t \in Holding
      PROVE  Cardinality(Holding') = Cardinality(Holding) - 1
  <2>1. Holding' = Holding \ {t}
    BY <1>2, <1>3, <1>5
  <2>. QED BY <1>1, <1>5, <2>1, FS_RemoveElement
<1>6. ASSUME t \in Holding' <=> t \in Holding PROVE Holding' = Holding
  BY <1>2, <1>3, <1>6
<1>. QED BY <1>1, <1>3, <1>4, <1>5, <1>6

Bound(binding) == IF binding = "bound" THEN 1 ELSE 0

LEMMA BalanceKept ==
    ASSUME CallInv, GpuTypes, LibraryBalanced, NEW t \in Threads, CoreStep(t)
    PROVE  LibraryBalanced'
<1>. CallTypes /\ LockInv
  BY DEF CallInv
<1>1. Moved(t)
  BY WmiStepMoves, GpuStepMoves DEF CoreStep
<1>2. dll = Cardinality(Holding) + Bound(oc) /\ Cardinality(Holding) \in Nat
  BY <1>1, HoldingMoves DEF LibraryBalanced, Bound
<1>3. ASSUME t \in Holding' <=> t \in Holding, dll' = dll - Bound(oc) + Bound(oc')
      PROVE  LibraryBalanced'
  <2>1. Holding' = Holding
    BY <1>1, <1>3, HoldingMoves
  <2>. QED BY <1>2, <1>3, <2>1 DEF LibraryBalanced, Bound
<1>4. ASSUME t \in Holding', t \notin Holding, dll' = dll + 1, oc' = oc
      PROVE  LibraryBalanced'
  <2>1. Cardinality(Holding') = Cardinality(Holding) + 1
    BY <1>1, <1>4, HoldingMoves
  <2>. QED BY <1>2, <1>4, <2>1 DEF LibraryBalanced, Bound
<1>5. ASSUME t \notin Holding', t \in Holding, dll' = dll - 1, oc' = oc
      PROVE  LibraryBalanced'
  <2>1. Cardinality(Holding') = Cardinality(Holding) - 1
    BY <1>1, <1>5, HoldingMoves
  <2>. QED BY <1>2, <1>5, <2>1 DEF LibraryBalanced, Bound
<1>6. /\ pc'[t] \in {"pstates", "usages"} <=> t \in Holding'
      /\ pc[t] \in {"pstates", "usages"} <=> t \in Holding
  BY <1>1, HoldingMoves
<1>7. ASSUME UNCHANGED <<dll, oc>> PROVE dll' = dll - Bound(oc) + Bound(oc')
  BY <1>2, <1>7 DEF Bound
<1>8. CASE WmiStep(t) /\ ~(pc[t] = "wait" /\ call[t] = "stats") /\ UNCHANGED gpu
  <2>1. pc[t] \notin {"pstates", "usages"}
    BY <1>8 DEF WmiStep, Acquire, Connect, Find, Exec, Cpu, Query, Shutdown
  <2>2. pc'[t] \notin {"pstates", "usages"}
    <3>1. CASE Acquire(t)
      BY <3>1, CallNames, LabelsTell DEF Acquire, CallTypes
    <3>2. CASE ~Acquire(t)
      BY <1>8, <3>2
         DEF WmiStep, Connect, Find, Exec, Cpu, Query, Shutdown, AttemptFailed, Goto, Leave,
             LeaveTo, CallTypes
    <3>. QED BY <3>1, <3>2
  <2>. QED BY <1>3, <1>6, <1>7, <1>8, <2>1, <2>2 DEF gpu
<1>9. CASE Fix(t) \/ Stats(t)
  <2>1. pc[t] \notin {"pstates", "usages"} /\ oc' = oc
    BY <1>9 DEF Fix, Stats
  <2>2. \/ dll' = dll + 1 /\ pc'[t] \in {"pstates", "usages"}
        \/ dll' = dll /\ pc'[t] \notin {"pstates", "usages"}
    BY <1>9 DEF Fix, Stats, Goto, CallTypes
  <2>. QED BY <1>3, <1>4, <1>6, <1>7, <2>1, <2>2
<1>10. CASE Pstates(t) \/ Usages(t)
  <2>1. /\ pc[t] \in {"pstates", "usages"} /\ oc' = oc
        /\ dll' = dll - 1 /\ pc'[t] \notin {"pstates", "usages"}
    BY <1>10 DEF Pstates, PstateSet, PstateNotSet, Usages, UsagesRead, UsagesNotRead, Goto,
        CallTypes
  <2>. QED BY <1>5, <1>6, <2>1
<1>11. CASE OcAvailable(t) \/ OcApply(t)
  <2>1. pc[t] \notin {"pstates", "usages"} /\ pc'[t] \notin {"pstates", "usages"}
    BY <1>11 DEF OcAvailable, OcApply, AskWhy, Leave, LeaveTo, CallTypes
  <2>2. Ensure
    BY <1>11 DEF OcAvailable, OcApply
  <2>3. dll' = dll - Bound(oc) + Bound(oc')
    BY <1>2, <2>2 DEF Ensure, ProbeFails, Bound
  <2>. QED BY <1>3, <1>6, <2>1, <2>3
<1>12. CASE RunSmi(t) \/ LastLog(t) \/ CopyLog(t) \/ Fallback(t) \/ OcLastError(t)
            \/ CopyError(t)
  <2>1. /\ pc[t] \notin {"pstates", "usages"} /\ pc'[t] \notin {"pstates", "usages"}
        /\ UNCHANGED <<dll, oc>>
    BY <1>12 DEF RunSmi, LastLog, CopyLog, Fallback, OcLastError, CopyError, LeaveTo, gpu,
                 CallTypes
  <2>. QED BY <1>3, <1>6, <1>7, <2>1
<1>. QED BY <1>8, <1>9, <1>10, <1>11, <1>12 DEF CoreStep, GpuStep

GpuInv == GpuTypes /\ FixInv /\ OcInv

\* A step of a call that has nothing to do with the log.
LEMMA ElsewhereKeepsFix ==
    ASSUME FixInv, CallTypes, NEW t \in Threads, Moved(t),
           call[t] # "last_log", call'[t] # "last_log", UNCHANGED <<log, smi, others>>,
           \A u \in Threads \ {t} : told'[u] = told[u],
           pc'[t] \in {"pstates", "smi"} => pc[t] \in {"pstates", "smi"}
    PROVE  FixInv'
<1>1. Unread' = Unread
  BY DEF Moved, Unread
<1>2. \A u \in Threads \ {t} : pc'[u] = pc[u] /\ call'[u] = call[u]
  BY DEF Moved
<1>3. SmiInv' /\ ClearInv'
  BY <1>1, <1>2 DEF FixInv, SmiInv, ClearInv
<1>4. \A u \in Threads : Tells(u)'
  BY <1>2 DEF FixInv, Tells
<1>. QED BY <1>3, <1>4 DEF FixInv

LEMMA WmiStepKeepsGpu ==
    ASSUME CallInv, GpuInv, NEW t \in Threads, WmiStep(t), UNCHANGED gpu,
           ~(pc[t] = "wait" /\ call[t] = "stats")
    PROVE  GpuInv'
<1>. CallTypes /\ LockInv
  BY DEF CallInv
<1>1. Moved(t) /\ call' = call
  BY WmiStepMoves DEF WmiStep, Acquire, Connect, Find, Exec, Cpu, Query, Shutdown
<1>2. GpuTypes'
  BY DEF GpuInv, GpuTypes, gpu
<1>3. CASE Acquire(t)
  <2>1. pc'[t] = call[t] /\ pc[t] = "wait" /\ pc'[t] \notin {"pstates", "smi", "idle"}
    BY <1>3, LabelsTell, CallNames DEF Acquire, CallTypes
  <2>2. Unread' = Unread
    BY <1>1, <2>1 DEF Unread, Moved
  <2>3. FixInv'
    <3>1. UNCHANGED <<log, smi, told, others>> /\ SmiInv /\ ClearInv /\ \A u \in Threads : Tells(u)
      BY DEF GpuInv, FixInv, gpu
    <3>2. \A u \in Threads : /\ pc'[u] = "idle" <=> pc[u] = "idle"
                             /\ pc'[u] \in {"pstates", "smi"} => pc[u] = pc'[u]
      BY <1>1, <2>1 DEF Moved
    <3>3. SmiInv' /\ \A u \in Threads : Tells(u)'
      BY <1>1, <3>1, <3>2 DEF SmiInv, Tells
    <3>4. ClearInv'
      BY <2>2, <3>1, <3>2 DEF ClearInv
    <3>. QED BY <3>3, <3>4 DEF FixInv
  <2>4. OcInv'
    BY <1>1, <2>1 DEF GpuInv, OcInv, gpu, Moved
  <2>. QED BY <1>2, <2>3, <2>4 DEF GpuInv
<1>4. CASE ~Acquire(t)
  <2>1. call[t] \in {"command", "cpu", "shutdown"}
    BY <1>4, LabelsTell DEF WmiStep, Connect, Find, Exec, Cpu, Query, Shutdown
  <2>2. pc'[t] \notin {"pstates", "smi"}
    BY <1>4 DEF WmiStep, Connect, Find, Exec, Cpu, Query, Shutdown, AttemptFailed, Goto,
                Leave, LeaveTo, CallTypes
  <2>3. FixInv'
    BY <1>1, <2>1, <2>2, ElsewhereKeepsFix DEF GpuInv, gpu
  <2>4. OcInv'
    BY <1>1, <2>1 DEF GpuInv, OcInv, gpu, Moved
  <2>. QED BY <1>2, <2>3, <2>4 DEF GpuInv
<1>. QED BY <1>3, <1>4

\* A fix clears the log under the lock: whoever has not read it is counted.
LEMMA FixStepsKeepFix ==
    ASSUME CallInv, GpuInv, NEW t \in Threads, Fix(t) \/ Pstates(t) \/ RunSmi(t)
    PROVE  FixInv'
<1>. CallTypes /\ LockInv
  BY DEF CallInv
<1>1. Moved(t) /\ call[t] = "fix" /\ \A u \in Threads \ {t} : pc[u] \notin {"pstates", "smi"}
  BY GpuStepMoves, LabelsTell DEF GpuStep, Fix, Pstates, PstateSet, PstateNotSet, RunSmi
<1>2. CASE Fix(t)
  <2>1. /\ log' = {} /\ others' = others \cup Unread /\ UNCHANGED <<smi, told, call>>
        /\ pc'[t] # "idle"
    BY <1>2 DEF Fix, FreshLog, Goto, CallTypes
  <2>2. Unread' = Unread
    BY <1>1, <2>1 DEF Unread, Moved
  <2>3. \A u \in Threads \ {t} : pc'[u] = pc[u]
    BY <1>1 DEF Moved
  <2>4. SmiInv' /\ ClearInv'
    BY <2>1, <2>2 DEF GpuInv, FixInv, SmiInv, ClearInv
  <2>5. \A u \in Threads : Tells(u)'
    BY <1>1, <2>1, <2>3 DEF GpuInv, FixInv, Tells, Unread
  <2>. QED BY <2>4, <2>5 DEF FixInv
<1>3. CASE Pstates(t)
  <2>1. /\ pc[t] = "pstates" /\ pc'[t] = "smi"
        /\ UNCHANGED <<log, smi, told, others, call>>
    BY <1>3 DEF Pstates, PstateSet, PstateNotSet, Goto, CallTypes
  <2>. QED BY <1>1, <2>1, ElsewhereKeepsFix DEF GpuInv
<1>4. CASE RunSmi(t)
  <2>1. PICK did \in {"skipped", "missing", "failed", "done"} :
          /\ smi' = [smi EXCEPT ![t] = did]
          /\ log' = log \cup CASE did = "skipped" -> {"skipped"}
                               [] did = "missing" -> {"not found"}
                               [] OTHER           -> {"rgc"}
    BY <1>4 DEF RunSmi
  <2>2. /\ "rgc" \in log' <=> did \in {"failed", "done"}
        /\ "not found" \in log' <=> did = "missing"
    BY <1>4, <2>1 DEF GpuInv, FixInv, ClearInv, RunSmi
  <2>3. /\ smi'[t] = did /\ \A u \in Threads \ {t} : smi'[u] = smi[u]
        /\ call'[t] = "last_log" /\ pc'[t] = "wait" /\ UNCHANGED <<told, others>>
    BY <1>4, <2>1 DEF RunSmi, LeaveTo, GpuInv, GpuTypes, CallTypes
  <2>4. \A u \in Threads : pc'[u] \notin {"pstates", "smi"}
    BY <1>1, <2>3 DEF Moved
  <2>5. \A u \in Threads \ {t} : call[u] = "last_log" /\ u \notin others => pc[u] = "idle"
    BY <1>4 DEF GpuInv, FixInv, ClearInv, RunSmi, Unread
  <2>6. \A u \in Threads \ {t} : pc'[u] = pc[u] /\ call'[u] = call[u]
    BY <1>1 DEF Moved
  <2>7. SmiInv' /\ ClearInv'
    BY <2>1, <2>3, <2>4, <2>6 DEF GpuInv, FixInv, SmiInv, ClearInv
  <2>8. Tells(t)'
    BY <2>2, <2>3 DEF Tells
  <2>9. \A u \in Threads \ {t} : Tells(u)'
    BY <2>3, <2>5, <2>6 DEF GpuInv, FixInv, Tells
  <2>. QED BY <2>7, <2>8, <2>9 DEF FixInv
<1>. QED BY <1>2, <1>3, <1>4

\* The log is copied as the fix left it, or the copy is counted as disturbed.
LEMMA CopyKeepsFix ==
    ASSUME CallInv, GpuInv, NEW t \in Threads, CopyLog(t)
    PROVE  FixInv'
<1>. CallTypes /\ LockInv
  BY DEF CallInv
<1>1. /\ Moved(t) /\ call[t] = "last_log" /\ pc[t] = "copy_log" /\ pc'[t] = "idle"
      /\ UNCHANGED <<call, log, smi>>
  BY GpuStepMoves, LabelsTell DEF GpuStep, CopyLog, CallTypes
<1>2. /\ Unread' \subseteq Unread /\ others \subseteq others'
      /\ \A u \in Threads \ {t} : told'[u] = told[u] /\ (u \in others' <=> u \in others)
  BY <1>1 DEF CopyLog, Unread, Moved, GpuInv, GpuTypes
<1>3. \A u \in Threads \ {t} : pc'[u] = pc[u]
  BY <1>1 DEF Moved
<1>4. SmiInv' /\ ClearInv'
  BY <1>1, <1>2, <1>3 DEF GpuInv, FixInv, SmiInv, ClearInv
<1>5. \A u \in Threads \ {t} : Tells(u)'
  BY <1>1, <1>2, <1>3 DEF GpuInv, FixInv, Tells
<1>6. CASE Rewriting
  <2>1. t \in others'
    BY <1>6 DEF CopyLog
  <2>2. Tells(t)'
    BY <2>1 DEF Tells
  <2>. QED BY <1>4, <1>5, <2>2 DEF FixInv
<1>7. CASE ~Rewriting
  <2>1. told'[t] = log \cup IF smi[t] = "done" THEN {"rgc"} ELSE {}
    BY <1>7 DEF CopyLog, GpuInv, GpuTypes
  <2>2. t \notin others' => t \notin others
    BY <1>2
  <2>3. t \notin others =>
          /\ "rgc" \in log <=> smi[t] \in {"failed", "done"}
          /\ "not found" \in log <=> smi[t] = "missing"
    BY <1>1 DEF GpuInv, FixInv, Tells
  <2>4. t \notin others =>
          /\ "rgc" \in told'[t] <=> smi[t] \in {"failed", "done"}
          /\ "not found" \in told'[t] <=> smi[t] = "missing"
    BY <2>1, <2>3
  <2>5. Tells(t)'
    BY <1>1, <1>2, <2>2, <2>4 DEF Tells
  <2>. QED BY <1>4, <1>5, <2>5 DEF FixInv
<1>. QED BY <1>6, <1>7

LEMMA GpuStepKeepsFix ==
    ASSUME CallInv, GpuInv, NEW t \in Threads, GpuStep(t)
    PROVE  FixInv'
<1>. CallTypes /\ LockInv
  BY DEF CallInv
<1>1. Moved(t)
  BY GpuStepMoves
<1>2. CASE Stats(t) \/ Usages(t) \/ Fallback(t)
  <2>1. /\ call[t] = "stats" /\ call' = call /\ pc'[t] \notin {"pstates", "smi"}
        /\ UNCHANGED <<log, smi, others, told>>
    BY <1>2, LabelsTell DEF Stats, Usages, UsagesRead, UsagesNotRead, Fallback, Goto, gpu, CallTypes
  <2>. QED BY <1>1, <2>1, ElsewhereKeepsFix DEF GpuInv
<1>3. CASE OcAvailable(t) \/ OcLastError(t) \/ CopyError(t) \/ OcApply(t)
  <2>1. /\ call[t] # "last_log" /\ call'[t] # "last_log" /\ pc'[t] \notin {"pstates", "smi"}
        /\ UNCHANGED <<log, smi, others>>
    BY <1>3, LabelsTell
       DEF OcAvailable, OcLastError, CopyError, OcApply, AskWhy, Leave, LeaveTo, gpu, CallTypes
  <2>2. \A u \in Threads \ {t} : told'[u] = told[u]
    BY <1>3 DEF OcAvailable, OcLastError, CopyError, OcApply, gpu, GpuInv, GpuTypes
  <2>. QED BY <1>1, <2>1, <2>2, ElsewhereKeepsFix DEF GpuInv
<1>4. CASE LastLog(t)
  <2>1. /\ pc'[t] = "copy_log" /\ pc[t] = "last_log" /\ UNCHANGED <<call, log, smi, others, told>>
    BY <1>4 DEF LastLog, LeaveTo, gpu, CallTypes
  <2>2. Unread' = Unread
    BY <1>1, <2>1 DEF Unread, Moved
  <2>3. \A u \in Threads \ {t} : pc'[u] = pc[u]
    BY <1>1 DEF Moved
  <2>4. SmiInv' /\ ClearInv'
    BY <2>1, <2>2, <2>3 DEF GpuInv, FixInv, SmiInv, ClearInv
  <2>5. \A u \in Threads : Tells(u)'
    BY <2>1, <2>3 DEF GpuInv, FixInv, Tells
  <2>. QED BY <2>4, <2>5 DEF FixInv
<1>. QED BY <1>2, <1>3, <1>4, FixStepsKeepFix, CopyKeepsFix DEF GpuStep

\* The binding is decided once, and the answers tell of it.
LEMMA GpuStepKeepsOc ==
    ASSUME CallInv, GpuInv, NEW t \in Threads, GpuStep(t)
    PROVE  OcInv'
<1>. CallTypes /\ LockInv
  BY DEF CallInv
<1>1. Moved(t)
  BY GpuStepMoves
<1>2. oc # "untried" => oc' = oc
  BY DEF GpuStep, Fix, Pstates, PstateSet, PstateNotSet, RunSmi, LastLog, CopyLog, Stats,
      Usages, UsagesRead, UsagesNotRead, Fallback,
         OcAvailable, OcLastError, CopyError, OcApply, Ensure, ProbeFails, gpu
<1>3. \A u \in Threads \ {t} : told'[u] = told[u]
  BY DEF GpuStep, Fix, Pstates, PstateSet, PstateNotSet, RunSmi, LastLog, CopyLog, Stats,
      Usages, UsagesRead, UsagesNotRead, Fallback,
         OcAvailable, OcLastError, CopyError, OcApply, gpu, GpuInv, GpuTypes
<1>4. ASSUME call'[t] = "oc_last_error"
      PROVE  /\ oc' # "untried"
             /\ "available" \in told'[t] <=> oc' = "bound"
             /\ "error" \in told'[t] <=> pc'[t] = "idle" /\ oc' = "failed"
  <2>1. CASE OcAvailable(t)
    <3>1. /\ told'[t] = IF oc' = "bound" THEN {"available"} ELSE {}
          /\ pc'[t] = "wait" /\ oc' # "untried"
      BY <2>1 DEF OcAvailable, Ensure, ProbeFails, LeaveTo, CallTypes, GpuInv, GpuTypes
    <3>. QED BY <3>1
  <2>2. CASE OcLastError(t)
    BY <1>4, <2>2 DEF OcLastError, LeaveTo, CallTypes, gpu, GpuInv, OcInv
  <2>3. CASE CopyError(t)
    <3>1. /\ told'[t] = told[t] \cup IF oc = "failed" THEN {"error"} ELSE {}
          /\ pc'[t] = "idle" /\ pc[t] = "copy_error" /\ UNCHANGED <<oc, call>>
      BY <2>3 DEF CopyError, CallTypes, GpuInv, GpuTypes
    <3>2. /\ oc # "untried" /\ "error" \notin told[t]
          /\ "available" \in told[t] <=> oc = "bound"
      BY <1>4, <3>1 DEF GpuInv, OcInv
    <3>. QED BY <3>1, <3>2
  <2>4. CASE ~(OcAvailable(t) \/ OcLastError(t) \/ CopyError(t))
    <3>1. call'[t] # "oc_last_error"
      BY <2>4, LabelsTell
         DEF GpuStep, Fix, Pstates, PstateSet, PstateNotSet, RunSmi, LastLog, CopyLog, Stats,
             Usages, UsagesRead, UsagesNotRead, Fallback,
             OcApply, CallTypes
    <3>. QED BY <1>4, <3>1
  <2>. QED BY <2>1, <2>2, <2>3, <2>4
<1>5. \A u \in Threads \ {t} : pc'[u] = pc[u] /\ call'[u] = call[u]
  BY <1>1 DEF Moved
<1>. QED BY <1>2, <1>3, <1>4, <1>5 DEF GpuInv, OcInv

LEMMA EnterKeepsGpu ==
    ASSUME CallInv, GpuInv, NEW t \in Threads, NEW c \in mix.calls, EnterGpu(t, c)
    PROVE  GpuInv'
<1>1. c \in Calls \ {"last_log", "oc_last_error"} /\ mix.calls \subseteq Calls
  BY CallsOfMix DEF GpuInv, GpuTypes
<1>2. Moved(t)
  BY <1>1, EnterMoves DEF CallInv
<1>3. /\ call'[t] = c /\ pc'[t] = "wait" /\ smi'[t] = "none" /\ pc[t] = "idle"
      /\ \A u \in Threads \ {t} : smi'[u] = smi[u] /\ told'[u] = told[u]
      /\ others' = others \ {t} /\ UNCHANGED <<log, oc>>
  BY DEF EnterGpu, Enter, GpuInv, GpuTypes, CallInv, CallTypes
<1>4. Unread' \subseteq Unread /\ t \notin Unread
  BY <1>1, <1>2, <1>3 DEF Unread, Moved
<1>5. GpuTypes'
  BY DEF EnterGpu, GpuInv, GpuTypes
<1>6. FixInv'
  <2>1. \A u \in Threads \ {t} : pc'[u] = pc[u] /\ call'[u] = call[u]
    BY <1>2 DEF Moved
  <2>2. SmiInv' /\ ClearInv'
    BY <1>1, <1>3, <1>4, <2>1 DEF GpuInv, FixInv, SmiInv, ClearInv
  <2>3. \A u \in Threads : Tells(u)'
    BY <1>1, <1>3, <2>1 DEF GpuInv, FixInv, Tells
  <2>. QED BY <2>2, <2>3 DEF FixInv
<1>7. OcInv'
  BY <1>1, <1>2, <1>3 DEF GpuInv, OcInv, Moved
<1>. QED BY <1>5, <1>6, <1>7 DEF GpuInv

-----------------------------------------------------------------------------
(* The inductive invariant.                                                *)

CoreInv == CallInv /\ WmiInv /\ GpuInv /\ LibraryBalanced

LEMMA CoreInitInv == GpuInit => CoreInv
<1>. SUFFICES ASSUME GpuInit PROVE CoreInv
  OBVIOUS
<1>. USE NoOneIsNoThread, BoundsAreNat DEF GpuInit, WmiInit
<1>1. CallTypes /\ LockInv
  BY CallNames DEF CallTypes, LockInv, LockedLabels, FreeLabels
<1>2. WmiTypeOK
  <2>1. calm \in BOOLEAN /\ up \in BOOLEAN /\ present \in BOOLEAN
    BY Zenon
  <2>2. path \in [conn: 0..MaxEpoch, name: 0..MaxNames]
    BY DEF NoPath
  <2>3. reply \in [Threads -> Replies]
    BY DEF Replies
  <2>4. /\ lock \in Threads \cup {NoOne} /\ attempt \in 0..1
        /\ wmi \in 0..MaxEpoch /\ cim \in 0..MaxEpoch
        /\ epoch \in 1..MaxEpoch /\ name \in 1..MaxNames /\ runs \in 0..2
    BY DEF None
  <2>. QED BY <2>1, <2>2, <2>3, <2>4 DEF WmiTypeOK
<1>3. WmiInv
  BY DEF WmiInv, PathBelongsToConnection, Runs, None
<1>4. GpuInv
  BY DEF GpuInv, GpuTypes, FixInv, SmiInv, ClearInv, Tells, OcInv, Lines
<1>5. LibraryBalanced
  <2>1. Holding = {}
    BY DEF Holding
  <2>. QED BY <2>1, FS_EmptySet DEF LibraryBalanced
<1>. QED BY <1>1, <1>2, <1>3, <1>4, <1>5 DEF CoreInv, CallInv

LEMMA CoreStepKeeps ==
    ASSUME CoreInv, NEW t \in Threads, CoreStep(t)
    PROVE  CoreInv'
<1>. CallInv /\ WmiInv /\ GpuInv /\ LibraryBalanced /\ CallTypes /\ LockInv
  BY DEF CoreInv, CallInv
<1>1. LibraryBalanced' /\ Moved(t)
  BY BalanceKept, WmiStepMoves, GpuStepMoves DEF GpuInv, CoreStep
<1>2. CASE GpuStep(t)
  <2>1. WmiTypeOK' /\ WmiInv'
    <3>1. /\ UNCHANGED <<attempt, conns, outside, calm, runs>>
          /\ lock' = NoOne \/ lock' = lock
          /\ reply' \in [Threads -> Replies] /\ pc'[t] \notin {"find", "exec", "query"}
          /\ lock = t /\ lock' = t => call'[t] = call[t]
      BY <1>2, GpuStepFrame, NoOneIsNoThread
    <3>. QED BY <1>1, <3>1, QuietKeeps
  <2>2. GpuInv'
    BY <1>2, GpuTypesKept, GpuStepKeepsFix, GpuStepKeepsOc DEF GpuInv
  <2>. QED BY <1>1, <2>1, <2>2, MovedKeepsLock DEF CoreInv, CallInv, Moved
<1>3. CASE WmiStep(t) /\ ~(pc[t] = "wait" /\ call[t] = "stats") /\ UNCHANGED gpu
  <2>1. WmiTypeOK' /\ WmiInv' /\ GpuInv'
    BY <1>3, WmiStepKeeps, WmiStepKeepsGpu
  <2>. QED BY <1>1, <2>1, MovedKeepsLock DEF CoreInv, CallInv, Moved
<1>. QED BY <1>2, <1>3 DEF CoreStep

LEMMA CoreEnterKeeps ==
    ASSUME CoreInv, NEW t \in Threads, NEW c \in mix.calls, EnterGpu(t, c)
    PROVE  CoreInv'
<1>. CallInv /\ WmiInv /\ GpuInv /\ LibraryBalanced /\ CallTypes /\ LockInv
  BY DEF CoreInv, CallInv
<1>1. Moved(t)
  BY CallsOfMix, EnterMoves DEF GpuInv, GpuTypes
<1>2. /\ UNCHANGED <<attempt, conns, outside, calm, runs, lock, dll, oc>>
      /\ reply' \in [Threads -> Replies] /\ pc'[t] = "wait" /\ pc[t] = "idle" /\ lock # t
  BY LabelsTell DEF EnterGpu, Enter, CallInv, CallTypes, WmiTypeOK, Replies
<1>3. WmiTypeOK' /\ WmiInv'
  BY <1>1, <1>2, QuietKeeps
<1>4. Holding' = Holding
  BY <1>1, <1>2 DEF Holding, Moved
<1>5. LibraryBalanced'
  BY <1>2, <1>4 DEF LibraryBalanced
<1>. QED BY <1>1, <1>3, <1>5, EnterKeepsGpu, MovedKeepsLock DEF CoreInv, CallInv, Moved

LEMMA CoreOutsideKeeps ==
    ASSUME CoreInv, \/ OutsideStep /\ UNCHANGED gpu
                    \/ DriverChanges
                    \/ UNCHANGED coreVars
    PROVE  CoreInv'
<1>1. /\ UNCHANGED <<lock, pc, call, mix, dll, oc, log, smi, told, others>>
      /\ driver' \in {"absent", "broken", "working"}
  BY DEF OutsideStep, Inside, DriverChanges, coreVars, wmiVars, gpu, CoreInv, GpuInv, GpuTypes
<1>2. /\ CallTypes' /\ LockInv' /\ GpuInv' /\ LibraryBalanced'
  <2>. CallTypes /\ LockInv /\ GpuTypes /\ FixInv /\ OcInv /\ LibraryBalanced
    BY DEF CoreInv, CallInv, GpuInv
  <2>1. CallTypes' /\ LockInv' /\ LibraryBalanced'
    BY <1>1 DEF CallTypes, LockInv, LibraryBalanced, Holding
  <2>2. GpuTypes' /\ OcInv'
    BY <1>1 DEF GpuTypes, OcInv
  <2>3. FixInv'
    BY <1>1 DEF FixInv, SmiInv, ClearInv, Tells, Unread
  <2>. QED BY <2>1, <2>2, <2>3 DEF GpuInv
<1>3. WmiTypeOK' /\ WmiInv'
  <2>1. CASE UNCHANGED wmiVars
    BY <2>1 DEF CoreInv, CallInv, WmiTypeOK, WmiInv, PathBelongsToConnection, Runs, wmiVars,
                conns, outside
  <2>. QED BY <2>1, OutsideKeeps DEF CoreInv, DriverChanges, coreVars
<1>. QED BY <1>2, <1>3 DEF CoreInv, CallInv

LEMMA CoreInvariant == CoreCallsSpec => []CoreInv
<1>1. CoreInv /\ [CoreNext]_coreVars => CoreInv'
  BY CoreStepKeeps, CoreEnterKeeps, CoreOutsideKeeps DEF CoreNext
<1>. QED BY <1>1, CoreInitInv, PTL DEF CoreCallsSpec

-----------------------------------------------------------------------------
(* The results.                                                            *)

\* Types, and the labels of each call; a command is run at most twice.
THEOREM CoreTypeCorrect == CoreCallsSpec => []CoreTypeOK
<1>1. CoreInv => CoreTypeOK
  <2>. SUFFICES ASSUME CoreInv PROVE CoreTypeOK
    OBVIOUS
  <2>1. /\ WmiTypeOK /\ GpuTypes /\ CallTypes
        /\ dll = Cardinality(Holding) + IF oc = "bound" THEN 1 ELSE 0
    BY DEF CoreInv, CallInv, GpuInv, LibraryBalanced
  <2>2. /\ Cardinality(Holding) \in Nat /\ Cardinality(Threads) \in Nat
        /\ Cardinality(Holding) <= Cardinality(Threads)
    BY ThreadsAreFinite, FS_Subset, FS_CardinalityType DEF Holding
  <2>3. dll \in 0..(Cardinality(Threads) + 1)
    BY <2>1, <2>2
  <2>. QED BY <2>1, <2>3 DEF CoreTypeOK, GpuTypes, CallTypes
<1>. QED BY <1>1, CoreInvariant, PTL

\* A cached instance path was found over the cached connection.
THEOREM PathOfItsConnection == CoreCallsSpec => []PathBelongsToConnection
<1>1. CoreInv => PathBelongsToConnection
  BY DEF CoreInv, WmiInv
<1>. QED BY <1>1, CoreInvariant, PTL

\* nvapi64.dll is loaded once for the binding and once per query or fix under way.
THEOREM LibraryIsBalanced == CoreCallsSpec => []LibraryBalanced
<1>1. CoreInv => LibraryBalanced
  BY DEF CoreInv
<1>. QED BY <1>1, CoreInvariant, PTL

\* The answer to a clock fix tells of that fix, unless another one got in between.
THEOREM FixAnswersOwn == CoreCallsSpec => []FixAnswerIsOwn
<1>1. CoreInv => FixAnswerIsOwn
  BY DEF CoreInv, GpuInv, FixInv, SmiInv, Tells, FixAnswerIsOwn
<1>. QED BY <1>1, CoreInvariant, PTL

\* "available" and an error text exclude each other, whenever the driver comes or goes.
THEOREM OcAnswers == CoreCallsSpec => []OcAnswersAgree
<1>1. CoreInv => OcAnswersAgree
  BY DEF CoreInv, GpuInv, OcInv, OcAnswersAgree
<1>. QED BY <1>1, CoreInvariant, PTL

-----------------------------------------------------------------------------
(* What the answers mean.                                                  *)

\* A call is answered by a step of its own thread, of the WMI half.
LEMMA WhoAnswers ==
    ASSUME CoreInv, [CoreNext]_coreVars, NEW t \in Threads, lock = t, lock' = NoOne,
           call[t] \in {"command", "cpu"}
    PROVE  WmiStep(t)
<1>. CallInv /\ GpuInv /\ CallTypes /\ LockInv
  BY DEF CoreInv, CallInv
<1>1. ASSUME NEW u \in Threads, Moved(u) PROVE u = t
  BY <1>1, NoOneIsNoThread DEF Moved
<1>2. ASSUME NEW u \in Threads, CoreStep(u) PROVE WmiStep(t)
  <2>1. Moved(u)
    BY <1>2, WmiStepMoves, GpuStepMoves DEF CoreStep
  <2>2. u = t
    BY <1>1, <2>1
  <2>3. ~GpuStep(t)
    BY LabelsTell
       DEF GpuStep, Fix, Pstates, PstateSet, PstateNotSet, RunSmi, LastLog, CopyLog, Stats,
           Usages, UsagesRead, UsagesNotRead, Fallback,
           OcAvailable, OcLastError, CopyError, OcApply
  <2>. QED BY <1>2, <2>2, <2>3 DEF CoreStep
<1>3. ASSUME NEW u \in Threads, NEW c \in mix.calls, EnterGpu(u, c) PROVE FALSE
  BY <1>3, NoOneIsNoThread DEF EnterGpu, Enter
<1>4. CASE OutsideStep \/ DriverChanges \/ UNCHANGED coreVars
  BY <1>4, NoOneIsNoThread DEF OutsideStep, Inside, DriverChanges, coreVars, wmiVars
<1>. QED BY <1>2, <1>3, <1>4 DEF CoreNext

LEMMA CommandRecovers ==
    ASSUME CoreInv, NEW t \in Threads, WmiStep(t), calm, lock = t, call[t] = "command",
           lock' = NoOne
    PROVE  reply'[t] = "ok" \/ ~calm'
<1>. CallTypes /\ LockInv /\ WmiTypeOK /\ WmiInv /\ up /\ present
  BY NoOneIsNoThread DEF CoreInv, CallInv, WmiInv
<1>1. ASSUME AttemptFailed(t) PROVE attempt = 1
  BY <1>1, NoOneIsNoThread DEF AttemptFailed, Attempts, Goto, WmiTypeOK
<1>2. attempt = 1 =>
        /\ wmi \in {None, epoch}
        /\ path # NoPath => path.name = name
  BY NoOneIsNoThread DEF WmiInv, Runs
<1>3. CASE Connect(t)
  <2>1. Fault(~up)
    BY <1>3, NoOneIsNoThread DEF Connect, Goto
  <2>. QED BY <2>1 DEF Fault
<1>4. CASE Find(t)
  <2>1. Fault(~Alive(wmi) \/ ~present) /\ attempt = 1 /\ wmi # None
    BY <1>1, <1>4, NoOneIsNoThread DEF Find, Goto, WmiInv
  <2>2. Alive(wmi)
    BY <1>2, <2>1 DEF Alive
  <2>. QED BY <2>1, <2>2 DEF Fault
<1>5. CASE Exec(t)
  <2>1. CASE Leave(t, "ok")
    BY <2>1 DEF Leave, LeaveTo, WmiTypeOK
  <2>2. CASE Fault(~Reaches) /\ AttemptFailed(t)
    <3>1. attempt = 1 /\ wmi # None /\ path # NoPath
      BY <1>1, <1>5, <2>2 DEF Exec, WmiInv
    <3>2. Reaches
      BY <1>2, <3>1 DEF Reaches, Alive
    <3>. QED BY <2>2, <3>2 DEF Fault
  <2>3. CASE calm' = FALSE
    BY <2>3
  <2>. QED BY <1>5, <2>1, <2>2, <2>3 DEF Exec
<1>6. pc[t] \in {"command", "find", "exec"}
  BY LabelFacts DEF LockInv
<1>. QED BY <1>3, <1>4, <1>5, <1>6 DEF WmiStep, Acquire, Cpu, Query, Shutdown

\* One retry makes a command recover from any past outage.
THEOREM CommandsRecover == CoreCallsSpec => RecoversInOneCall
<1>1. ASSUME CoreInv, [CoreNext]_coreVars
      PROVE  \A t \in Threads :
                (calm /\ lock = t /\ call[t] = "command" /\ lock' = NoOne)
                   => reply'[t] = "ok" \/ ~calm'
  BY <1>1, WhoAnswers, CommandRecovers
<1>. QED BY <1>1, CoreInvariant, PTL DEF CoreCallsSpec, RecoversInOneCall

LEMMA CpuFailure ==
    ASSUME CoreInv, NEW t \in Threads, WmiStep(t), calm, calm', lock = t, call[t] = "cpu",
           lock' = NoOne, reply'[t] = "failed"
    PROVE  cim # None /\ cim < epoch
<1>. CallTypes /\ LockInv /\ WmiTypeOK /\ WmiInv /\ up /\ present
  BY NoOneIsNoThread DEF CoreInv, CallInv, WmiInv
<1>1. ~Cpu(t)
  BY NoOneIsNoThread DEF Cpu, Goto, Fault
<1>2. CASE Query(t)
  <2>1. ~Alive(cim)
    BY <1>2 DEF Query, Leave, LeaveTo, WmiTypeOK, Fault
  <2>2. cim # None /\ cim <= epoch /\ cim # epoch
    BY <1>2, <2>1 DEF Query, WmiInv, Alive
  <2>. QED BY <2>2 DEF WmiTypeOK
<1>3. pc[t] \in {"cpu", "query"}
  BY LabelFacts DEF LockInv
<1>. QED BY <1>1, <1>2, <1>3 DEF WmiStep, Acquire, Connect, Find, Exec, Shutdown

\* In calm weather only a connection from before a restart makes a CPU reading fail.
THEOREM OnlyStaleReadingsFail == CoreCallsSpec => CpuFailsOnlyWhenStale
<1>1. ASSUME CoreInv, [CoreNext]_coreVars
      PROVE  \A t \in Threads :
                (calm /\ calm' /\ lock = t /\ call[t] = "cpu" /\ lock' = NoOne
                   /\ reply'[t] = "failed") => cim # None /\ cim < epoch
  BY <1>1, WhoAnswers, CpuFailure
<1>. QED BY <1>1, CoreInvariant, PTL DEF CoreCallsSpec, CpuFailsOnlyWhenStale

-----------------------------------------------------------------------------
(* The command channel.                                                    *)

Asking == {t \in Threads : pc[t] = "wait" /\ call[t] = "command"}
Turn   == IF lock # NoOne /\ call[lock] = "command" THEN lock ELSE NoOne
Told   == [t \in Threads |-> IF call[t] = "command" THEN reply[t] ELSE "none"]

\* Steps of other calls do not show in the channel.
LEMMA ElsewhereStutters ==
    ASSUME CallTypes, NEW t \in Threads, Moved(t), call[t] # "command", call'[t] # "command",
           \A u \in Threads \ {t} : reply'[u] = reply[u], runs' = runs
    PROVE  UNCHANGED Channel!vars
<1>1. Asking' = Asking
  BY DEF Asking, Moved
<1>2. Told' = Told
  BY DEF Told, Moved
<1>3. Turn' = Turn
  BY NoOneIsNoThread DEF Turn, Moved, CallTypes
<1>. QED BY <1>1, <1>2, <1>3 DEF Channel!vars, Asking, Told, Turn

\* What a command may do while it holds the lock.
LEMMA CommandStep ==
    ASSUME CallInv, WmiInv, NEW t \in Threads, WmiStep(t), call[t] = "command", lock = t
    PROVE  /\ call' = call /\ pc'[t] # "wait" /\ pc[t] # "wait"
           /\ runs' \in {runs, runs + 1}
           /\ \/ lock' = lock /\ reply' = reply /\ runs < 2
              \/ lock' = NoOne /\ reply' = [reply EXCEPT ![t] = "failed"]
              \/ lock' = NoOne /\ reply' = [reply EXCEPT ![t] = "ok"] /\ runs' = runs + 1
<1>. CallTypes /\ LockInv /\ WmiTypeOK
  BY DEF CallInv
<1>1. pc[t] \in {"command", "find", "exec"}
  BY LabelFacts DEF LockInv
<1>2. runs < 2
  BY NoOneIsNoThread DEF WmiInv, Runs, WmiTypeOK
<1>3. call' = call /\ runs' \in {runs, runs + 1}
  BY <1>1 DEF WmiStep, Acquire, Connect, Find, Exec, Cpu, Query, Shutdown
<1>4. \/ \E l \in {"command", "find", "exec"} : Goto(t, l)
      \/ LeaveTo(t, "failed", "idle")
      \/ LeaveTo(t, "ok", "idle") /\ runs' = runs + 1
  BY <1>1 DEF WmiStep, Acquire, Connect, Find, Exec, Cpu, Query, Shutdown, AttemptFailed, Leave
<1>. QED BY <1>1, <1>2, <1>3, <1>4 DEF Goto, LeaveTo, CallTypes

LEMMA CommandShows ==
    ASSUME CallInv, WmiInv, NEW t \in Threads, WmiStep(t), call[t] = "command", lock = t
    PROVE  [Channel!Next]_Channel!vars
<1>. CallTypes /\ LockInv /\ WmiTypeOK
  BY DEF CallInv
<1>1. /\ call' = call /\ pc'[t] # "wait" /\ pc[t] # "wait"
      /\ runs' \in {runs, runs + 1} /\ Moved(t)
  BY CommandStep, WmiStepMoves
<1>2. Asking' = Asking /\ Turn = t
  BY <1>1, NoOneIsNoThread DEF Asking, Turn, Moved
<1>3. CASE lock' = lock /\ reply' = reply /\ runs < 2
  <2>1. Turn' = Turn /\ Told' = Told
    BY <1>1, <1>3 DEF Turn, Told
  <2>2. CASE runs' = runs
    BY <1>2, <2>1, <2>2 DEF Channel!vars, Asking, Turn, Told
  <2>3. CASE runs' = runs + 1
    <3>1. Channel!Run
      BY <1>2, <1>3, <2>1, <2>3, NoOneIsNoThread DEF Channel!Run, Asking, Turn, Told
    <3>. QED BY <3>1 DEF Channel!Next
  <2>. QED BY <1>1, <2>2, <2>3
<1>4. ASSUME lock' = NoOne, NEW r \in {"ok", "failed"}, reply' = [reply EXCEPT ![t] = r],
             r = "ok" => runs' = runs + 1
      PROVE  [Channel!Next]_Channel!vars
  <2>1. Turn' = NoOne /\ Told' = [Told EXCEPT ![Turn] = r]
    BY <1>1, <1>2, <1>4 DEF Turn, Told, WmiTypeOK
  <2>2. runs \in Nat /\ runs' <= 2 /\ (r = "ok" => runs' >= 1)
    BY <1>1, <1>4, NoOneIsNoThread DEF WmiInv, Runs, WmiTypeOK
  <2>3. Channel!Answer(r)
    BY <1>1, <1>2, <2>1, <2>2, NoOneIsNoThread DEF Channel!Answer, Asking, Turn, Told
  <2>. QED BY <2>3 DEF Channel!Next
<1>. QED BY <1>3, <1>4, CommandStep

LEMMA WmiStepShows ==
    ASSUME CallInv, WmiInv, NEW t \in Threads, WmiStep(t),
           ~(pc[t] = "wait" /\ call[t] = "stats")
    PROVE  [Channel!Next]_Channel!vars
<1>. CallTypes /\ LockInv /\ WmiTypeOK
  BY DEF CallInv
<1>1. Moved(t)
  BY WmiStepMoves
<1>2. CASE Acquire(t) /\ call[t] = "command"
  <2>1. Asking' = Asking \ {t} /\ t \in Asking /\ Turn = NoOne /\ Turn' = t /\ Told' = Told
    BY <1>1, <1>2, NoOneIsNoThread DEF Acquire, Asking, Turn, Told, Moved, CallTypes
  <2>2. Channel!Take(t)
    BY <1>2, <2>1 DEF Acquire, Channel!Take, Asking, Turn, Told
  <2>. QED BY <2>2 DEF Channel!Next
<1>3. CASE ~Acquire(t) /\ call[t] = "command"
  <2>1. lock = t
    BY <1>3, LabelsTell DEF WmiStep, Connect, Find, Exec, Cpu, Query, Shutdown
  <2>. QED BY <1>3, <2>1, CommandShows
<1>4. CASE call[t] # "command"
  <2>1. ~Connect(t) /\ ~Find(t) /\ ~Exec(t)
    BY <1>4, LabelsTell DEF Connect, Find, Exec
  <2>2. /\ call' = call /\ runs' = runs
        /\ \A u \in Threads \ {t} : reply'[u] = reply[u]
    BY <1>4, <2>1
       DEF WmiStep, Acquire, Cpu, Query, Shutdown, Goto, Leave, LeaveTo, WmiTypeOK
  <2>. QED BY <1>1, <1>4, <2>2, ElsewhereStutters
<1>. QED BY <1>2, <1>3, <1>4

LEMMA GpuStepShows ==
    ASSUME CallInv, NEW t \in Threads, GpuStep(t)
    PROVE  [Channel!Next]_Channel!vars
<1>. CallTypes /\ LockInv /\ WmiTypeOK
  BY DEF CallInv
<1>1. Moved(t) /\ runs' = runs /\ call'[t] # "command"
  BY GpuStepMoves, GpuStepFrame
<1>2. call[t] # "command"
  BY LabelsTell
     DEF GpuStep, Fix, Pstates, PstateSet, PstateNotSet, RunSmi, LastLog, CopyLog, Stats,
         Usages, UsagesRead, UsagesNotRead, Fallback,
         OcAvailable, OcLastError, CopyError, OcApply
<1>3. \A u \in Threads \ {t} : reply'[u] = reply[u]
  BY DEF GpuStep, Fix, Pstates, PstateSet, PstateNotSet, RunSmi, LastLog, CopyLog, Stats,
      Usages, UsagesRead, UsagesNotRead, Fallback,
         OcAvailable, OcLastError, CopyError, OcApply, Goto, Leave, LeaveTo, AskWhy, WmiTypeOK
<1>. QED BY <1>1, <1>2, <1>3, ElsewhereStutters

LEMMA EnterShows ==
    ASSUME CallInv, GpuInv, NEW t \in Threads, NEW c \in mix.calls, EnterGpu(t, c)
    PROVE  [Channel!Next]_Channel!vars
<1>. CallTypes /\ LockInv /\ WmiTypeOK
  BY DEF CallInv
<1>1. /\ Moved(t) /\ pc[t] = "idle" /\ pc'[t] = "wait" /\ call'[t] = c /\ lock # t
      /\ lock' = lock /\ runs' = runs /\ reply' = [reply EXCEPT ![t] = "none"]
  BY CallsOfMix, EnterMoves, LabelsTell DEF EnterGpu, Enter, GpuInv, GpuTypes, CallTypes
<1>2. /\ t \notin Asking /\ t # Turn /\ Turn' = Turn
      /\ Told' = [Told EXCEPT ![t] = "none"]
  BY <1>1, NoOneIsNoThread DEF Asking, Turn, Told, Moved, CallTypes, WmiTypeOK
<1>3. CASE c = "command"
  <2>1. Asking' = Asking \cup {t}
    BY <1>1, <1>3 DEF Asking, Moved
  <2>2. Channel!Ask(t)
    BY <1>1, <1>2, <2>1 DEF Channel!Ask, Asking, Turn, Told
  <2>. QED BY <2>2 DEF Channel!Next
<1>4. CASE c # "command"
  <2>1. Asking' = Asking
    BY <1>1, <1>4 DEF Asking, Moved
  <2>2. Channel!Forget(t)
    BY <1>1, <1>2, <2>1 DEF Channel!Forget, Asking, Turn, Told
  <2>. QED BY <2>2 DEF Channel!Next
<1>. QED BY <1>3, <1>4

\* The connections implement the channel the hardware layer takes for granted.
THEOREM CommandsAreChannelled == CoreCallsSpec => ChannelSpec
<1>1. GpuInit => Channel!Init
  <2>. SUFFICES ASSUME GpuInit PROVE Channel!Init
    OBVIOUS
  <2>1. Asking = {} /\ Turn = NoOne /\ runs = 0 /\ Told = [t \in Threads |-> "none"]
    BY DEF GpuInit, WmiInit, Asking, Turn, Told
  <2>. QED BY <2>1 DEF Channel!Init, Asking, Turn, Told
<1>2. CoreInv /\ [CoreNext]_coreVars => [Channel!Next]_Channel!vars
  <2>. SUFFICES ASSUME CoreInv, [CoreNext]_coreVars PROVE [Channel!Next]_Channel!vars
    OBVIOUS
  <2>. CallInv /\ WmiInv /\ GpuInv
    BY DEF CoreInv
  <2>1. ASSUME NEW t \in Threads, CoreStep(t) PROVE [Channel!Next]_Channel!vars
    BY <2>1, WmiStepShows, GpuStepShows DEF CoreStep
  <2>2. ASSUME NEW t \in Threads, NEW c \in mix.calls, EnterGpu(t, c)
        PROVE  [Channel!Next]_Channel!vars
    BY <2>2, EnterShows
  <2>3. CASE OutsideStep \/ DriverChanges \/ UNCHANGED coreVars
    <3>1. UNCHANGED <<lock, pc, call, reply, runs>>
      BY <2>3 DEF OutsideStep, Inside, DriverChanges, coreVars, wmiVars
    <3>2. UNCHANGED <<Asking, Turn, Told>>
      BY <3>1 DEF Asking, Turn, Told
    <3>. QED BY <3>1, <3>2 DEF Channel!vars, Asking, Turn, Told
  <2>. QED BY <2>1, <2>2, <2>3 DEF CoreNext
<1>. QED BY <1>1, <1>2, CoreInvariant, PTL DEF CoreCallsSpec, ChannelSpec, Channel!Spec
=============================================================================
