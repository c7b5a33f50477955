--------------------------- MODULE WmiConnection ----------------------------
(***************************************************************************)
(* The core DLL's cached COM connections (honor_core.cpp): g_wmi with the  *)
(* path of the HWMI instance, and g_cimv2 for the CPU counters.  Every     *)
(* call holds g_mutex from its first step to its answer.  Invoke connects  *)
(* and enumerates when nothing is cached, and after a failure drops what   *)
(* is cached and tries once more; the CPU reading never drops its          *)
(* connection.                                                             *)
(*                                                                         *)
(* External: the WMI service, which may stop and start again (connections  *)
(* of an earlier generation are dead), and the HWMI instance, which may be *)
(* missing or come back under another name.                                *)
(***************************************************************************)
EXTENDS Integers

CONSTANTS Threads,     \* the concurrent callers
          NoOne,       \* the owner of a free lock
          MaxEpoch,    \* bound: generations of the WMI service
          MaxNames,    \* bound: names of the HWMI instance
          Faulty       \* may a call fail or its answer get lost for no visible reason?

ASSUME NoOneIsNoThread == NoOne \notin Threads
ASSUME BoundsAreNat    == MaxEpoch \in Nat \ {0} /\ MaxNames \in Nat \ {0}
ASSUME FaultyIsBool    == Faulty \in BOOLEAN

None   == 0                       \* a null connection
NoPath == [conn |-> 0, name |-> 0]

VARIABLES
    lock,      \* who holds g_mutex
    pc, call,  \* where each thread stands, and in which call of the core
    attempt,   \* Invoke: the loop counter of the call that holds the lock
    wmi, cim,  \* g_wmi and g_cimv2: the service generation connected to, or None
    path,      \* g_instancePath: the connection that found it, and the name
    reply,     \* what each thread's last call answered
    up, epoch, \* the WMI service: running, and its generation
    present, name,  \* the HWMI instance: there, and its name
    calm,      \* history: nothing went wrong outside since the lock was taken
    runs       \* history: how often the hardware ran the last command

conns   == <<wmi, cim, path>>
outside == <<up, epoch, present, name>>
wmiVars == <<lock, pc, call, attempt, conns, reply, outside, calm, runs>>

CoreCalls == {"command", "cpu", "shutdown"}
Replies   == {"none", "ok", "failed"}

WmiInit ==
    /\ lock = NoOne
    /\ pc = [t \in Threads |-> "idle"]
    /\ call = [t \in Threads |-> "none"]
    /\ attempt = 0
    /\ wmi = None /\ cim = None /\ path = NoPath
    /\ reply = [t \in Threads |-> "none"]
    /\ up \in BOOLEAN /\ epoch = 1
    /\ present \in BOOLEAN /\ name = 1
    /\ calm = FALSE
    /\ runs = 0

-----------------------------------------------------------------------------
(* The lock.                                                               *)

Enter(t, c) ==
    /\ pc' = [pc EXCEPT ![t] = "wait"]
    /\ call' = [call EXCEPT ![t] = c]
    /\ reply' = [reply EXCEPT ![t] = "none"]
    /\ UNCHANGED <<lock, attempt, conns, outside, calm, runs>>

\* Mutant: the lock is not waited for.
AcquireAnyway(t) ==
    /\ pc[t] = "wait"
    /\ lock' = t
    /\ pc' = [pc EXCEPT ![t] = call[t]]
    /\ attempt' = 0
    /\ calm' = (up /\ present)
    /\ runs' = IF call[t] = "command" THEN 0 ELSE runs
    /\ UNCHANGED <<call, conns, reply, outside>>

\* The lock is free: the call begins, at the label named like it.
Acquire(t) ==
    /\ pc[t] = "wait"
    /\ lock = NoOne
    /\ lock' = t
    /\ pc' = [pc EXCEPT ![t] = call[t]]
    /\ attempt' = 0
    /\ calm' = (up /\ present)
    /\ runs' = IF call[t] = "command" THEN 0 ELSE runs
    /\ UNCHANGED <<call, conns, reply, outside>>

\* The call answers and its lock_guard goes out of scope; on to label l.
LeaveTo(t, r, l) ==
    /\ lock' = NoOne
    /\ pc' = [pc EXCEPT ![t] = l]
    /\ reply' = [reply EXCEPT ![t] = r]
Leave(t, r) == LeaveTo(t, r, "idle")

Goto(t, label) == pc' = [pc EXCEPT ![t] = label] /\ UNCHANGED <<lock, reply>>

-----------------------------------------------------------------------------
(* Connections.                                                            *)

\* Mutant: the path is kept.
ResetKeepsPath ==
    /\ wmi' = None
    /\ UNCHANGED <<cim, path>>

ResetWmi ==
    /\ wmi' = None
    /\ path' = NoPath
    /\ UNCHANGED cim

Alive(c) == up /\ c = epoch

\* Mutants: no retry; one retry too many.
SingleAttempt == 1
ThirdAttempt  == 3

\* An attempt failed: rebuild once, or give up.  What is cached then stays.
Attempts == 2
AttemptFailed(t) ==
    \/ /\ attempt < Attempts - 1
       /\ attempt' = attempt + 1
       /\ ResetWmi
       /\ Goto(t, "command")
    \/ /\ attempt >= Attempts - 1
       /\ Leave(t, "failed")
       /\ UNCHANGED <<attempt, conns>>

\* Something outside may fail a step of a call; it is then no longer calm.
Fault(cause) == (~cause /\ Faulty /\ calm' = FALSE) \/ (cause /\ UNCHANGED calm)

\* WmiService.
Connect(t) ==
    /\ pc[t] = "command"
    /\ \/ wmi # None /\ Goto(t, "find") /\ UNCHANGED <<conns, attempt, calm>>
       \/ /\ wmi = None /\ up
          /\ wmi' = epoch
          /\ Goto(t, "find")
          /\ UNCHANGED <<cim, path, attempt, calm>>
       \/ wmi = None /\ Fault(~up) /\ AttemptFailed(t)
    /\ UNCHANGED <<call, outside, runs>>

\* InstancePath, FindHwmiInstance.
Find(t) ==
    /\ pc[t] = "find"
    /\ \/ path # NoPath /\ Goto(t, "exec") /\ UNCHANGED <<conns, attempt, calm>>
       \/ /\ path = NoPath /\ Alive(wmi) /\ present
          /\ path' = [conn |-> wmi, name |-> name]
          /\ Goto(t, "exec")
          /\ UNCHANGED <<wmi, cim, attempt, calm>>
       \/ path = NoPath /\ Fault(~Alive(wmi) \/ ~present) /\ AttemptFailed(t)
    /\ UNCHANGED <<call, outside, runs>>

\* InvokeCommand from GetObject to the decoded answer.
Reaches == Alive(wmi) /\ present /\ path.name = name
Exec(t) ==
    /\ pc[t] = "exec"
    /\ \/ /\ Reaches
          /\ runs' = runs + 1
          /\ Leave(t, "ok")
          /\ UNCHANGED <<attempt, conns, calm>>
       \/ /\ Fault(~Reaches)
          /\ AttemptFailed(t)
          /\ UNCHANGED runs
       \/ /\ Reaches /\ Faulty      \* it ran, and the answer was lost
          /\ runs' = runs + 1
          /\ calm' = FALSE
          /\ AttemptFailed(t)
    /\ UNCHANGED <<call, outside>>

\* Mutant: the reading relies on an earlier connection.
CpuNoConnect(t) ==
    /\ pc[t] = "cpu"
    /\ Goto(t, "query")
    /\ UNCHANGED <<conns, calm, call, attempt, outside, runs>>

\* hc_get_cpu_freq_mhz: connect if never connected, and query.  Whatever fails,
\* the connection is kept.
Cpu(t) ==
    /\ pc[t] = "cpu"
    /\ \/ cim # None /\ Goto(t, "query") /\ UNCHANGED <<conns, calm>>
       \/ /\ cim = None /\ up
          /\ cim' = epoch
          /\ Goto(t, "query")
          /\ UNCHANGED <<wmi, path, calm>>
       \/ cim = None /\ Fault(~up) /\ Leave(t, "failed") /\ UNCHANGED conns
    /\ UNCHANGED <<call, attempt, outside, runs>>

Query(t) ==
    /\ pc[t] = "query"
    /\ \/ Alive(cim) /\ Leave(t, "ok") /\ UNCHANGED calm
       \/ Fault(~Alive(cim)) /\ Leave(t, "failed")
    /\ UNCHANGED <<conns, call, attempt, outside, runs>>

\* hc_shutdown.
Shutdown(t) ==
    /\ pc[t] = "shutdown"
    /\ wmi' = None /\ cim' = None /\ path' = NoPath
    /\ Leave(t, "ok")
    /\ UNCHANGED <<call, attempt, outside, calm, runs>>

WmiStep(t) == \/ Acquire(t) \/ Connect(t) \/ Find(t) \/ Exec(t)
              \/ Cpu(t) \/ Query(t) \/ Shutdown(t)

-----------------------------------------------------------------------------
(* The world outside.                                                      *)

Inside == <<lock, pc, call, attempt, conns, reply, runs>>

WmiStops  == up /\ up' = FALSE /\ UNCHANGED <<epoch, present, name>>
WmiStarts == ~up /\ epoch < MaxEpoch /\ up' = TRUE /\ epoch' = epoch + 1
             /\ UNCHANGED <<present, name>>
InstanceGoes  == present /\ present' = FALSE /\ UNCHANGED <<up, epoch, name>>
InstanceComes == ~present /\ present' = TRUE /\ name' \in {name, name + 1}
                 /\ name' <= MaxNames /\ UNCHANGED <<up, epoch>>

OutsideStep ==
    /\ WmiStops \/ WmiStarts \/ InstanceGoes \/ InstanceComes
    /\ calm' = FALSE
    /\ UNCHANGED Inside

WmiNext ==
    \/ \E t \in Threads : WmiStep(t)
    \/ \E t \in Threads, c \in CoreCalls : pc[t] = "idle" /\ Enter(t, c)
    \/ OutsideStep

WmiSpec == WmiInit /\ [][WmiNext]_wmiVars

-----------------------------------------------------------------------------
(* Properties.                                                             *)

\* Type invariant; the labels and the names of the calls are in CoreTypeOK.
WmiTypeOK ==
    /\ lock \in Threads \cup {NoOne}
    /\ attempt \in 0..1
    /\ wmi \in 0..MaxEpoch /\ cim \in 0..MaxEpoch
    /\ path \in [conn: 0..MaxEpoch, name: 0..MaxNames]
    /\ reply \in [Threads -> Replies]
    /\ up \in BOOLEAN /\ epoch \in 1..MaxEpoch
    /\ present \in BOOLEAN /\ name \in 1..MaxNames
    /\ calm \in BOOLEAN
    /\ runs \in 0..2

\* The cached instance path was found over the cached connection: a path never
\* outlives the connection it was enumerated on (InstancePath, ResetWmi,
\* hc_shutdown).
PathBelongsToConnection == path # NoPath => wmi # None /\ path.conn = wmi

\* A command whose call saw nothing go wrong - the service up and the instance
\* there from the moment it took the lock - succeeds, whatever had been cached
\* before: one retry is enough to recover from any past outage (Invoke).
RecoversInOneCall ==
    [][\A t \in Threads :
         (calm /\ lock = t /\ call[t] = "command" /\ lock' = NoOne) => reply'[t] = "ok" \/ ~calm']_wmiVars

\* A CPU reading fails in calm weather only because its cached connection dates
\* from before a restart of the service (hc_get_cpu_freq_mhz never rebuilds it).
CpuFailsOnlyWhenStale ==
    [][\A t \in Threads :
         (calm /\ calm' /\ lock = t /\ call[t] = "cpu" /\ lock' = NoOne /\ reply'[t] = "failed")
            => cim # None /\ cim < epoch]_wmiVars

\* Commands run one caller at a time, at most twice per call, and success is
\* answered only for a command that ran: WmiConnection implements CommandChannel.
Channel == INSTANCE CommandChannel WITH
    asking <- {t \in Threads : pc[t] = "wait" /\ call[t] = "command"},
    turn   <- IF lock # NoOne /\ call[lock] = "command" THEN lock ELSE NoOne,
    reply  <- [t \in Threads |-> IF call[t] = "command" THEN reply[t] ELSE "none"]
ChannelSpec == Channel!Spec
=============================================================================
