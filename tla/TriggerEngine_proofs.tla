------------------------ MODULE TriggerEngine_proofs ------------------------
(* Proofs about TriggerEngine, for any programs, rules and workers, and for *)
(* any other callers of the hardware layer beside the workers.             *)
EXTENDS TriggerEngine, HardwareCore_proofs, FiniteSetTheorems

-----------------------------------------------------------------------------
(* The inductive invariant, part by part.                                  *)

WorkerType(lists) ==
    [at: Stages, stem: Stems \cup {NoStem}, edge: Edges, todo: lists, changed: BOOLEAN]

EngineTypes ==
    /\ store \in RuleLists
    /\ procs \subseteq Stems /\ running \subseteq Stems
    /\ \E lists : wk \in [Workers -> WorkerType(lists)]
    /\ silent \subseteq Workers

SwitchTypes == /\ touchpad \in BOOLEAN /\ pinned \in BOOLEAN
               /\ oc = [d \in Domains |-> oc[d]]

\* Where a worker stands tells whether the hardware layer is at work for it.
Calling == {"mode", "ppm1", "ppm2"}
Pausing == {"wait1", "wait2"}

WorkerInv ==
    \A w \in Workers :
        /\ wk[w].at \in Calling <=> pc[w] # "idle"
        /\ wk[w].at \notin {"free", "spawned", "rule"} => wk[w].todo # <<>>
        /\ wk[w].at \in {"wait1", "ppm1", "wait2", "ppm2"} => Rule(w).ppm \in EcLevels

\* Asleep are threads inside hc_set_ppm and workers between two calls.
SleepInv ==
    \A t \in unsettled : pc[t] = "sleep" \/ (t \in Workers /\ wk[t].at \in Pausing)

SilentInv == \A w \in silent : wk[w].at # "free" /\ wk[w].changed

EngineInv == /\ MirrorInv /\ ReplyHonest
             /\ EngineTypes /\ SwitchTypes /\ WorkerInv /\ SleepInv /\ SilentInv

-----------------------------------------------------------------------------
(* The hardware layer, with workers among its callers.                     *)

\* What a step of a call does to the places of the threads and to their sleeps.
LEMMA StepTurns ==
    ASSUME TypeOK, NEW t \in Threads, Step(t)
    PROVE  /\ pc[t] # "idle" /\ pc' = [pc EXCEPT ![t] = pc'[t]]
           /\ pc'[t] = "idle" => Return(t)
           /\ unsettled' = unsettled
                \/ (pc'[t] = "sleep" /\ pc[t] # "sleep" /\ unsettled' = unsettled \cup {t})
           /\ pc[t] = "sleep" => t \notin unsettled
           /\ pc'[t] = "sleep" => SwitchToBeast(t)
<1>. USE DEF Goto, TypeOK
<1>1. CASE SetMode(t) \/ FallBack(t)
  <2>1. PICK l \in {"direct", "done", "fallback"} : Goto(t, l) /\ pc[t] \in {"mode", "fallback"}
                                                     /\ unsettled' = unsettled
    BY <1>1 DEF SetMode, FallBack, AfterTarget
  <2>. QED BY <2>1
<1>2. CASE DirectWrite(t) \/ RetryWrite(t)
  <2>1. PICK l \in {"switch", "done", "store"} : Goto(t, l) /\ pc[t] \in {"direct", "retry"}
                                                  /\ unsettled' = unsettled
    BY <1>2 DEF DirectWrite, RetryWrite, WritePpm, AfterWrite
  <2>. QED BY <2>1
<1>3. CASE SwitchToBeast(t)
  BY <1>3 DEF SwitchToBeast, FallAsleep
<1>4. CASE WakeUp(t) \/ StoreMirror(t)
  BY <1>4 DEF WakeUp, StoreMirror
<1>5. CASE Return(t)
  BY <1>5 DEF Return, Leave
<1>. QED BY <1>1, <1>2, <1>3, <1>4, <1>5 DEF Step

LEMMA HonestCall ==
    ASSUME ReplyHonest, NEW t \in Threads, NEW j, Call(t, j)
    PROVE  ReplyHonest'
BY DEF ReplyHonest, Call

\* A worker takes its answer and goes on, perhaps to a sleep of its own.
LEMMA LeavePreserves ==
    ASSUME MirrorInv, ReplyHonest, NEW t \in Threads, pc[t] = "done", Leave(t),
           unsettled' \subseteq unsettled \cup {t}
    PROVE  MirrorInv' /\ ReplyHonest'
<1>1. TypeOK'
  <2>1. NoJob \in JobType
    BY DEF NoJob, JobType, Ops
  <2>2. pc' \in [Threads -> Labels]
    BY LabelsGoto DEF MirrorInv, Leave, Labels
  <2>. QED BY <2>1, <2>2 DEF MirrorInv, TypeOK, Leave
<1>2. \A u \in Threads \ {t} : job'[u] = job[u]
  BY DEF MirrorInv, TypeOK, Leave
<1>3. StoredLevelsInRange' /\ NoDriftMeansExact'
  BY <1>2, QuietStep DEF Leave, Labels
<1>4. ReplyHonest'
  BY DEF MirrorInv, TypeOK, ReplyHonest, Leave
<1>. QED BY <1>1, <1>3, <1>4 DEF MirrorInv

\* The requests a rule makes are requests the hardware layer may get.
LEMMA RuleCalls ==
    ASSUME NEW id \in DOMAIN ProfileMode, NEW l \in EcLevels
    PROVE  /\ [op |-> "perf", mode |-> ProfileMode[id], hasPpm |-> FALSE, level |-> 0] \in Jobs
           /\ [op |-> "ppm", mode |-> Beast, hasPpm |-> TRUE, level |-> l] \in Jobs
<1>1. ProfileMode[id] \in ReqModes
  BY RulesAreRequests DEF ProfileMode, EcModes, Beast
<1>2. l \in ReqLevels
  BY RulesAreRequests
<1>. QED BY <1>1, <1>2 DEF Jobs

-----------------------------------------------------------------------------
(* Steps that leave the hardware layer alone.                              *)

LEMMA HardwareUntouched ==
    ASSUME MirrorInv, ReplyHonest, UNCHANGED vars
    PROVE  MirrorInv' /\ ReplyHonest'
<1>1. MirrorInv'
  BY StutterPreserves
<1>2. ReplyHonest'
  BY DEF ReplyHonest, vars
<1>. QED BY <1>1, <1>2

\* Worker w takes a turn of its own - a call, an answer, a sleep - after which it
\* stands where the hardware layer and its list of rules say it may.
LEMMA WorkerTurns ==
    ASSUME EngineInv, NEW w \in Workers,
           wk' = [wk EXCEPT ![w] = wk'[w]], pc' = [pc EXCEPT ![w] = pc'[w]],
           unsettled' \subseteq unsettled \cup {w},
           w \in unsettled' => pc'[w] = "sleep" \/ wk'[w].at \in Pausing,
           wk'[w].at \in Calling <=> pc'[w] # "idle",
           wk'[w].at \notin {"free", "spawned", "rule"} => wk'[w].todo # <<>>,
           wk'[w].at \in {"wait1", "ppm1", "wait2", "ppm2"}
             => Head(wk'[w].todo).ppm \in EcLevels
    PROVE  WorkerInv' /\ SleepInv'
<1>1. PICK lists : wk \in [Workers -> WorkerType(lists)]
  BY DEF EngineInv, EngineTypes
<1>2. \A v \in Workers \ {w} : wk'[v] = wk[v]
  BY <1>1
<1>3. pc \in [Threads -> Labels] /\ unsettled \subseteq Threads
  BY DEF EngineInv, MirrorInv, TypeOK
<1>4. \A t \in Threads \ {w} : pc'[t] = pc[t]
  BY <1>3
<1>5. WorkerInv'
  BY <1>2, <1>4, WorkersAreThreads DEF EngineInv, WorkerInv, Rule
<1>6. SleepInv'
  BY <1>2, <1>3, <1>4 DEF EngineInv, SleepInv
<1>. QED BY <1>5, <1>6

\* The fields of a worker that a turn changes, and those it leaves alone.
LEMMA TurnTyped ==
    ASSUME EngineTypes, NEW w \in Workers, NEW at \in Stages, NEW changed \in BOOLEAN,
           NEW todo
    PROVE  /\ wk' = [wk EXCEPT ![w].at = at]
              => /\ wk' = [wk EXCEPT ![w] = wk'[w]]
                 /\ wk'[w].at = at /\ wk'[w].todo = wk[w].todo
                 /\ wk'[w].changed = wk[w].changed
                 /\ \E lists : wk' \in [Workers -> WorkerType(lists)]
           /\ wk' = [wk EXCEPT ![w].at = at, ![w].changed = changed]
              => /\ wk' = [wk EXCEPT ![w] = wk'[w]]
                 /\ wk'[w].at = at /\ wk'[w].todo = wk[w].todo
                 /\ wk'[w].changed = changed
                 /\ \E lists : wk' \in [Workers -> WorkerType(lists)]
           /\ wk' = [wk EXCEPT ![w].at = at, ![w].todo = todo]
              => /\ wk' = [wk EXCEPT ![w] = wk'[w]]
                 /\ wk'[w].at = at /\ wk'[w].todo = todo
                 /\ wk'[w].changed = wk[w].changed
                 /\ \E lists : wk' \in [Workers -> WorkerType(lists)]
<1>1. PICK lists : wk \in [Workers -> WorkerType(lists)]
  BY DEF EngineTypes
<1>2. wk[w] \in WorkerType(lists)
  BY <1>1
<1>3. ASSUME wk' = [wk EXCEPT ![w].at = at]
      PROVE  /\ wk' = [wk EXCEPT ![w] = wk'[w]]
             /\ wk'[w].at = at /\ wk'[w].todo = wk[w].todo
             /\ wk'[w].changed = wk[w].changed
             /\ wk' \in [Workers -> WorkerType(lists)]
  BY <1>1, <1>2, <1>3 DEF WorkerType
<1>4. ASSUME wk' = [wk EXCEPT ![w].at = at, ![w].changed = changed]
      PROVE  /\ wk' = [wk EXCEPT ![w] = wk'[w]]
             /\ wk'[w].at = at /\ wk'[w].todo = wk[w].todo
             /\ wk'[w].changed = changed
             /\ wk' \in [Workers -> WorkerType(lists)]
  BY <1>1, <1>2, <1>4 DEF WorkerType
<1>5. ASSUME wk' = [wk EXCEPT ![w].at = at, ![w].todo = todo]
      PROVE  /\ wk' = [wk EXCEPT ![w] = wk'[w]]
             /\ wk'[w].at = at /\ wk'[w].todo = todo
             /\ wk'[w].changed = wk[w].changed
             /\ wk' \in [Workers -> WorkerType(lists \cup {todo})]
  BY <1>1, <1>2, <1>5 DEF WorkerType
<1>. QED BY <1>3, <1>4, <1>5

\* A turn in which the worker neither calls the hardware layer nor has called it.
LEMMA QuietTurn ==
    ASSUME EngineInv, UNCHANGED vars, NEW w \in Workers,
           wk' = [wk EXCEPT ![w] = wk'[w]],
           wk[w].at \notin Calling \cup Pausing, wk'[w].at \notin Calling \cup Pausing,
           wk'[w].at \notin {"free", "spawned", "rule"} => wk'[w].todo # <<>>
    PROVE  MirrorInv' /\ ReplyHonest' /\ WorkerInv' /\ SleepInv'
<1>1. MirrorInv' /\ ReplyHonest'
  BY HardwareUntouched DEF EngineInv
<1>2. pc' = pc /\ unsettled' = unsettled
  BY DEF vars
<1>3. pc[w] = "idle" /\ w \notin unsettled
  BY DEF EngineInv, WorkerInv, SleepInv
<1>4. pc' = [pc EXCEPT ![w] = pc'[w]]
  BY <1>2 DEF EngineInv, MirrorInv, TypeOK
<1>. QED BY <1>1, <1>2, <1>3, <1>4, WorkerTurns DEF Calling, Pausing

\* What a turn adds to the workers that owe the UI a message is noted in them.
LEMMA SilentTurn ==
    ASSUME EngineInv, NEW w \in Workers, wk' = [wk EXCEPT ![w] = wk'[w]],
           wk'[w].at # "free",
           \/ silent' = silent /\ wk'[w].changed = wk[w].changed
           \/ \E ok : NoteSilent(w, ok) /\ wk'[w].changed = NowChanged(w, ok)
    PROVE  SilentInv'
<1>1. \A v \in Workers \ {w} : wk'[v] = wk[v]
  <2>1. PICK lists : wk \in [Workers -> WorkerType(lists)]
    BY DEF EngineInv, EngineTypes
  <2>. QED BY <2>1
<1>2. \A v \in silent : v \in Workers /\ wk[v].at # "free" /\ wk[v].changed
  BY DEF EngineInv, EngineTypes, SilentInv
<1>3. CASE silent' = silent /\ wk'[w].changed = wk[w].changed
  BY <1>1, <1>2, <1>3, Zenon DEF SilentInv
<1>4. CASE \E ok : NoteSilent(w, ok) /\ wk'[w].changed = NowChanged(w, ok)
  <2>1. PICK ok : NoteSilent(w, ok) /\ wk'[w].changed = NowChanged(w, ok)
    BY <1>4
  <2>2. w \in silent' => wk'[w].changed
    BY <1>2, <2>1, Zenon DEF NoteSilent, NowChanged
  <2>3. silent' \subseteq silent \cup {w}
    BY <2>1 DEF NoteSilent
  <2>. QED BY <1>1, <1>2, <2>2, <2>3, Zenon DEF SilentInv
<1>. QED BY <1>3, <1>4

-----------------------------------------------------------------------------
(* The steps of a worker.                                                  *)

LEMMA BeginPreserves ==
    ASSUME EngineInv, NEW w \in Workers, Begin(w)
    PROVE  EngineInv'
<1>. PICK todo : wk' = [wk EXCEPT ![w].at = "rule", ![w].todo = todo]
  BY DEF Begin
<1>1. /\ wk' = [wk EXCEPT ![w] = wk'[w]]
      /\ wk'[w].at = "rule" /\ wk'[w].changed = wk[w].changed
      /\ \E lists : wk' \in [Workers -> WorkerType(lists)]
  <2>1. "rule" \in Stages
    BY DEF Stages
  <2>. EngineTypes
    BY DEF EngineInv
  <2>. QED BY <2>1, TurnTyped
<1>2. MirrorInv' /\ ReplyHonest' /\ WorkerInv' /\ SleepInv'
  BY <1>1, QuietTurn DEF Begin, Calling, Pausing
<1>3. EngineTypes'
  BY <1>1 DEF EngineInv, EngineTypes, Begin
<1>4. SwitchTypes'
  BY DEF EngineInv, SwitchTypes, Begin, devices
<1>5. SilentInv'
  BY <1>1, SilentTurn DEF Begin
<1>. QED BY <1>2, <1>3, <1>4, <1>5 DEF EngineInv

LEMMA SetTouchpadPreserves ==
    ASSUME EngineInv, NEW w \in Workers, SetTouchpad(w)
    PROVE  EngineInv'
<1>1. wk[w].changed \in BOOLEAN /\ touchpad \in BOOLEAN
  BY DEF EngineInv, EngineTypes, SwitchTypes, WorkerType
<1>. DEFINE at == AfterTouchpad(w)
<1>9. at \in {"core", "mem", "fix"}
  BY DEF AfterTouchpad, AfterCore
<1>2. PICK ok \in BOOLEAN :
        /\ wk' = [wk EXCEPT ![w].at = at, ![w].changed = NowChanged(w, ok)]
        /\ NoteSilent(w, ok)
  BY DEF SetTouchpad
<1>. HIDE DEF at
<1>3. /\ wk' = [wk EXCEPT ![w] = wk'[w]]
      /\ wk'[w].at = at /\ wk'[w].changed = NowChanged(w, ok) /\ wk'[w].todo = wk[w].todo
      /\ \E lists : wk' \in [Workers -> WorkerType(lists)]
  <2>1. at \in Stages
    BY <1>9 DEF Stages
  <2>2. NowChanged(w, ok) \in BOOLEAN
    BY <1>1 DEF NowChanged
  <2>. EngineTypes
    BY DEF EngineInv
  <2>. QED BY <1>2, <2>1, <2>2, TurnTyped
<1>4. wk[w].todo # <<>>
  BY DEF EngineInv, WorkerInv, SetTouchpad
<1>5. MirrorInv' /\ ReplyHonest' /\ WorkerInv' /\ SleepInv'
  BY <1>3, <1>4, <1>9, QuietTurn DEF SetTouchpad, Calling, Pausing
<1>6. EngineTypes'
  BY <1>2, <1>3 DEF EngineInv, EngineTypes, SetTouchpad, NoteSilent
<1>7. SwitchTypes'
  BY <1>1 DEF EngineInv, SwitchTypes, SetTouchpad
<1>8. SilentInv'
  BY <1>2, <1>3, <1>9, SilentTurn
<1>. QED BY <1>5, <1>6, <1>7, <1>8 DEF EngineInv

LEMMA SetOffsetPreserves ==
    ASSUME EngineInv, NEW w \in Workers, NEW d \in Domains, SetOffset(w, d)
    PROVE  EngineInv'
<1>. DEFINE at == IF d = "core" THEN AfterCore(w) ELSE "fix"
<1>1. wk' = [wk EXCEPT ![w].at = at] /\ at \in {"mem", "fix"}
  BY DEF SetOffset, Stage, AfterCore
<1>. HIDE DEF at
<1>2. /\ wk' = [wk EXCEPT ![w] = wk'[w]]
      /\ wk'[w].at = at /\ wk'[w].changed = wk[w].changed /\ wk'[w].todo = wk[w].todo
      /\ \E lists : wk' \in [Workers -> WorkerType(lists)]
  <2>1. at \in Stages
    BY <1>1 DEF Stages
  <2>. EngineTypes
    BY DEF EngineInv
  <2>. QED BY <1>1, <2>1, TurnTyped
<1>3. wk[w].todo # <<>> /\ wk[w].at \in {"core", "mem"}
  BY DEF EngineInv, WorkerInv, SetOffset, Domains
<1>4. MirrorInv' /\ ReplyHonest' /\ WorkerInv' /\ SleepInv'
  BY <1>1, <1>2, <1>3, QuietTurn DEF SetOffset, Calling, Pausing
<1>5. EngineTypes'
  BY <1>2 DEF EngineInv, EngineTypes, SetOffset
<1>6. SwitchTypes'
  BY DEF EngineInv, SwitchTypes, SetOffset
<1>7. SilentInv'
  BY <1>1, <1>2, SilentTurn DEF SetOffset
<1>. QED BY <1>4, <1>5, <1>6, <1>7 DEF EngineInv

LEMMA FixGpuPreserves ==
    ASSUME EngineInv, NEW w \in Workers, FixGpu(w)
    PROVE  EngineInv'
<1>1. wk' = [wk EXCEPT ![w].at = "rule", ![w].todo = Tail(wk[w].todo)]
  <2>1. PICK lists : wk \in [Workers -> WorkerType(lists)]
    BY DEF EngineInv, EngineTypes
  <2>. QED BY <2>1 DEF FixGpu, WorkerType
<1>2. /\ wk' = [wk EXCEPT ![w] = wk'[w]]
      /\ wk'[w].at = "rule" /\ wk'[w].changed = wk[w].changed
      /\ \E lists : wk' \in [Workers -> WorkerType(lists)]
  <2>1. "rule" \in Stages
    BY DEF Stages
  <2>. EngineTypes
    BY DEF EngineInv
  <2>. QED BY <1>1, <2>1, TurnTyped
<1>3. MirrorInv' /\ ReplyHonest' /\ WorkerInv' /\ SleepInv'
  BY <1>2, QuietTurn DEF FixGpu, Calling, Pausing
<1>4. EngineTypes'
  BY <1>2 DEF EngineInv, EngineTypes, FixGpu
<1>5. SwitchTypes'
  BY DEF EngineInv, SwitchTypes, FixGpu
<1>6. SilentInv'
  BY <1>2, SilentTurn DEF FixGpu
<1>. QED BY <1>3, <1>4, <1>5, <1>6 DEF EngineInv

LEMMA FinishPreserves ==
    ASSUME EngineInv, NEW w \in Workers, Finish(w)
    PROVE  EngineInv'
<1>1. PICK lists : wk \in [Workers -> WorkerType(lists)]
  BY DEF EngineInv, EngineTypes
<1>2. Free \in WorkerType(lists \cup {<<>>})
  BY DEF Free, WorkerType, Stages, Edges, NoStem
<1>3. wk' \in [Workers -> WorkerType(lists \cup {<<>>})]
  <2>1. WorkerType(lists) \subseteq WorkerType(lists \cup {<<>>})
    BY DEF WorkerType
  <2>. QED BY <1>1, <1>2, <2>1 DEF Finish
<1>4. wk' = [wk EXCEPT ![w] = wk'[w]] /\ wk'[w].at = "free"
  BY <1>1 DEF Finish, Free
<1>5. MirrorInv' /\ ReplyHonest' /\ WorkerInv' /\ SleepInv'
  BY <1>4, QuietTurn DEF Finish, Calling, Pausing
<1>6. EngineTypes'
  BY <1>3 DEF EngineInv, EngineTypes, Finish
<1>7. SwitchTypes'
  BY DEF EngineInv, SwitchTypes, Finish, devices
<1>8. SilentInv'
  <2>1. w \notin silent'
    BY DEF EngineInv, SilentInv, Finish
  <2>. QED BY <1>1, <2>1 DEF EngineInv, SilentInv, Finish
<1>. QED BY <1>5, <1>6, <1>7, <1>8 DEF EngineInv

LEMMA StartModePreserves ==
    ASSUME EngineInv, NEW w \in Workers, StartMode(w)
    PROVE  EngineInv'
<1>. DEFINE id == Action(Rule(w), wk[w].edge)
<1>1. /\ wk[w].at = "rule" /\ wk[w].todo # <<>>
      /\ UNCHANGED <<store, procs, running, devices, lastEdge, silent, flips, saves>>
  BY DEF StartMode
<1>2. pc[w] = "idle" /\ w \notin unsettled /\ w \in Threads
  BY <1>1, WorkersAreThreads DEF EngineInv, WorkerInv, SleepInv, Calling, Pausing
<1>3. SwitchTypes'
  BY <1>1 DEF EngineInv, SwitchTypes, devices
<1>4. ASSUME NEW at \in Stages, Stage(w, at)
      PROVE  /\ wk' = [wk EXCEPT ![w] = wk'[w]] /\ wk'[w].at = at /\ wk'[w].todo = wk[w].todo
             /\ EngineTypes'
             /\ at # "free" => SilentInv'
  <2>1. /\ wk' = [wk EXCEPT ![w] = wk'[w]] /\ wk'[w].at = at /\ wk'[w].todo = wk[w].todo
        /\ wk'[w].changed = wk[w].changed
        /\ \E lists : wk' \in [Workers -> WorkerType(lists)]
    <3>1. wk[w].changed \in BOOLEAN
      BY DEF EngineInv, EngineTypes, WorkerType
    <3>. EngineTypes
      BY DEF EngineInv
    <3>. QED BY <1>4, <3>1, TurnTyped DEF Stage
  <2>2. EngineTypes'
    BY <1>1, <2>1 DEF EngineInv, EngineTypes
  <2>3. at # "free" => SilentInv'
    BY <1>1, <2>1, SilentTurn
  <2>. QED BY <2>1, <2>2, <2>3
<1>5. CASE id \in DOMAIN ProfileMode
  <2>. DEFINE j == [op |-> "perf", mode |-> ProfileMode[id], hasPpm |-> FALSE, level |-> 0]
  <2>1. Call(w, j) /\ Stage(w, "mode")
    BY <1>5 DEF StartMode
  <2>2. j \in Jobs
    BY <1>5, RuleCalls DEF EcLevels
  <2>3. MirrorInv' /\ ReplyHonest'
    BY <1>2, <2>1, <2>2, CallPreserves, HonestCall DEF EngineInv
  <2>4. pc' = [pc EXCEPT ![w] = pc'[w]] /\ pc'[w] # "idle" /\ unsettled' = unsettled
    BY <1>2, <2>1 DEF Call, Goto, FirstLabel, EngineInv, MirrorInv, TypeOK
  <2>5. "mode" \in Stages
    BY DEF Stages
  <2>6. /\ wk' = [wk EXCEPT ![w] = wk'[w]] /\ wk'[w].at = "mode"
        /\ wk'[w].todo = wk[w].todo /\ EngineTypes' /\ SilentInv'
    BY <1>4, <2>1, <2>5
  <2>7. WorkerInv' /\ SleepInv'
    BY <1>1, <1>2, <2>4, <2>6, WorkerTurns DEF Calling
  <2>. QED BY <1>3, <2>3, <2>6, <2>7 DEF EngineInv
<1>6. CASE id \notin DOMAIN ProfileMode
  <2>1. Stage(w, "touchpad") /\ UNCHANGED vars
    BY <1>6 DEF StartMode
  <2>2. "touchpad" \in Stages
    BY DEF Stages
  <2>3. /\ wk' = [wk EXCEPT ![w] = wk'[w]] /\ wk'[w].at = "touchpad"
        /\ wk'[w].todo = wk[w].todo /\ EngineTypes' /\ SilentInv'
    BY <1>4, <2>1, <2>2
  <2>4. MirrorInv' /\ ReplyHonest' /\ WorkerInv' /\ SleepInv'
    BY <1>1, <2>1, <2>3, QuietTurn DEF Calling, Pausing
  <2>. QED BY <1>3, <2>3, <2>4 DEF EngineInv
<1>. QED BY <1>5, <1>6

LEMMA StartPpmPreserves ==
    ASSUME EngineInv, NEW w \in Workers,
           NEW from \in Pausing, NEW to \in {"ppm1", "ppm2"}, StartPpm(w, from, to)
    PROVE  EngineInv'
<1>. DEFINE j == [op |-> "ppm", mode |-> Beast, hasPpm |-> TRUE, level |-> Rule(w).ppm]
<1>1. /\ wk[w].at = from /\ w \notin unsettled /\ Call(w, j) /\ Stage(w, to)
      /\ UNCHANGED <<store, procs, running, devices, lastEdge, silent, flips, saves>>
  BY DEF StartPpm
<1>2. w \in Threads /\ Rule(w).ppm \in EcLevels /\ wk[w].todo # <<>>
  BY <1>1, WorkersAreThreads DEF EngineInv, WorkerInv, Pausing
<1>3. MirrorInv' /\ ReplyHonest'
  <2>1. j \in Jobs
    <3>1. "smart" \in DOMAIN ProfileMode
      BY DEF ProfileMode
    <3>. QED BY <1>2, <3>1, RuleCalls
  <2>. QED BY <1>1, <1>2, <2>1, CallPreserves, HonestCall DEF EngineInv
<1>4. pc' = [pc EXCEPT ![w] = pc'[w]] /\ pc'[w] # "idle" /\ unsettled' = unsettled
  BY <1>1, <1>2 DEF Call, Goto, FirstLabel, EngineInv, MirrorInv, TypeOK
<1>5. /\ wk' = [wk EXCEPT ![w] = wk'[w]] /\ wk'[w].at = to /\ wk'[w].todo = wk[w].todo
      /\ wk'[w].changed = wk[w].changed
      /\ \E lists : wk' \in [Workers -> WorkerType(lists)]
  <2>1. to \in Stages /\ wk[w].changed \in BOOLEAN
    BY DEF Stages, EngineInv, EngineTypes, WorkerType
  <2>. EngineTypes
    BY DEF EngineInv
  <2>. QED BY <1>1, <2>1, TurnTyped DEF Stage
<1>6. WorkerInv' /\ SleepInv'
  BY <1>1, <1>2, <1>4, <1>5, WorkerTurns DEF Calling, Rule
<1>7. EngineTypes'
  BY <1>1, <1>5 DEF EngineInv, EngineTypes
<1>8. SwitchTypes'
  BY <1>1 DEF EngineInv, SwitchTypes, devices
<1>9. SilentInv'
  BY <1>1, <1>5, SilentTurn
<1>. QED BY <1>3, <1>6, <1>7, <1>8, <1>9 DEF EngineInv

\* A worker with its answer: it goes on to a pause or to the touchpad.
LEMMA AnswerPreserves ==
    ASSUME EngineInv, NEW w \in Workers, wk[w].at \in Calling, Answered(w), Leave(w),
           NEW ok \in BOOLEAN, NEW at \in Pausing \cup {"touchpad"}, NoteSilent(w, ok),
           wk' = [wk EXCEPT ![w].at = at, ![w].changed = NowChanged(w, ok)],
           at \in Pausing => Rule(w).ppm \in EcLevels,
           unsettled' = unsettled \/ (at \in Pausing /\ \E ms : FallAsleep(w, ms)),
           UNCHANGED <<store, procs, running, devices, lastEdge, flips, saves>>
    PROVE  EngineInv'
<1>1. w \in Threads /\ pc[w] = "done" /\ w \notin unsettled /\ wk[w].todo # <<>>
  BY WorkersAreThreads DEF Answered, EngineInv, WorkerInv, SleepInv, Calling, Pausing
<1>2. unsettled' \subseteq unsettled \cup {w} /\ (w \in unsettled' => at \in Pausing)
  BY <1>1 DEF FallAsleep
<1>3. MirrorInv' /\ ReplyHonest'
  BY <1>1, <1>2, LeavePreserves DEF EngineInv
<1>4. pc' = [pc EXCEPT ![w] = pc'[w]] /\ pc'[w] = "idle"
  BY <1>1 DEF Leave, Goto, EngineInv, MirrorInv, TypeOK
<1>5. /\ wk' = [wk EXCEPT ![w] = wk'[w]] /\ wk'[w].at = at /\ wk'[w].todo = wk[w].todo
      /\ wk'[w].changed = NowChanged(w, ok)
      /\ \E lists : wk' \in [Workers -> WorkerType(lists)]
  <2>1. at \in Stages
    BY DEF Stages, Pausing
  <2>2. NowChanged(w, ok) \in BOOLEAN
    <3>1. wk[w].changed \in BOOLEAN
      BY DEF EngineInv, EngineTypes, WorkerType
    <3>. QED BY <3>1 DEF NowChanged
  <2>. EngineTypes
    BY DEF EngineInv
  <2>. QED BY <2>1, <2>2, TurnTyped
<1>6. WorkerInv' /\ SleepInv'
  <2>1. at \notin Calling /\ at \notin {"ppm1", "ppm2"} /\ (at \in {"wait1", "wait2"} => at \in Pausing)
    BY DEF Calling, Pausing
  <2>2. /\ wk'[w].at \in Calling <=> pc'[w] # "idle"
        /\ wk'[w].todo # <<>>
        /\ w \in unsettled' => wk'[w].at \in Pausing
    BY <1>1, <1>2, <1>4, <1>5, <2>1
  <2>3. wk'[w].at \in {"wait1", "ppm1", "wait2", "ppm2"} => Head(wk'[w].todo).ppm \in EcLevels
    BY <1>5, <2>1 DEF Rule
  <2>4. wk' = [wk EXCEPT ![w] = wk'[w]] /\ pc' = [pc EXCEPT ![w] = pc'[w]]
    BY <1>4, <1>5
  <2>. QED BY <1>2, <2>2, <2>3, <2>4, WorkerTurns
<1>7. EngineTypes'
  BY <1>5 DEF EngineInv, EngineTypes, NoteSilent
<1>8. SwitchTypes'
  BY DEF EngineInv, SwitchTypes, devices
<1>9. SilentInv'
  <2>1. wk'[w].at # "free"
    BY <1>5 DEF Pausing
  <2>. QED BY <1>5, <2>1, SilentTurn
<1>. QED BY <1>3, <1>6, <1>7, <1>8, <1>9 DEF EngineInv

LEMMA ModeDonePreserves ==
    ASSUME EngineInv, NEW w \in Workers, ModeDone(w)
    PROVE  EngineInv'
<1>. DEFINE ok == "target" \in claims[w]
            at == IF ok /\ WantsPpm(w) THEN "wait1" ELSE "touchpad"
<1>1. /\ wk[w].at \in Calling /\ Answered(w) /\ Leave(w) /\ NoteSilent(w, ok)
      /\ wk' = [wk EXCEPT ![w].at = at, ![w].changed = NowChanged(w, ok)]
      /\ UNCHANGED <<store, procs, running, devices, lastEdge, flips, saves>>
  BY DEF ModeDone, Calling
<1>2. at \in Pausing \cup {"touchpad"} /\ (at \in Pausing => WantsPpm(w) /\ ok)
  BY DEF Pausing
<1>3. at \in Pausing => Rule(w).ppm \in EcLevels
  BY <1>2 DEF WantsPpm
<1>4. unsettled' = unsettled \/ (at \in Pausing /\ FallAsleep(w, 600))
  BY DEF ModeDone, AfterMode, Pausing
<1>. HIDE DEF ok, at
<1>5. ok \in BOOLEAN
  BY DEF ok
<1>. QED BY <1>1, <1>2, <1>3, <1>4, <1>5, AnswerPreserves

LEMMA PpmDonePreserves ==
    ASSUME EngineInv, NEW w \in Workers, PpmDone(w)
    PROVE  EngineInv'
<1>. DEFINE ok == "level" \in claims[w]
            at == IF TriesAgain(w, ok) THEN "wait2" ELSE "touchpad"
<1>1. /\ wk[w].at \in {"ppm1", "ppm2"} /\ Answered(w) /\ Leave(w) /\ NoteSilent(w, ok)
      /\ wk' = [wk EXCEPT ![w].at = at, ![w].changed = NowChanged(w, ok)]
      /\ UNCHANGED <<store, procs, running, devices, lastEdge, flips, saves>>
  BY DEF PpmDone
<1>2. at \in Pausing \cup {"touchpad"} /\ wk[w].at \in Calling
  BY <1>1 DEF Pausing, Calling
<1>3. Rule(w).ppm \in EcLevels
  BY <1>1 DEF EngineInv, WorkerInv
<1>4. unsettled' = unsettled \/ (at \in Pausing /\ FallAsleep(w, 400))
  BY DEF PpmDone, Pausing
<1>. HIDE DEF ok, at
<1>5. ok \in BOOLEAN
  BY DEF ok
<1>. QED BY <1>1, <1>2, <1>3, <1>4, <1>5, AnswerPreserves

-----------------------------------------------------------------------------
(* The scan.                                                               *)

\* A rule that fires serves a program that is known, at an edge it has.
LEMMA SpawnedTyped ==
    ASSUME EngineTypes, NEW i \in DOMAIN store, NEW seen, Fires(store[i], seen)
    PROVE  /\ Spawned(store[i], seen) \in WorkerType({<<>>})
           /\ Spawned(store[i], seen).at = "spawned"
<1>1. store[i] \in RuleType
  BY RulesAreRules DEF EngineTypes
<1>2. store[i].stem \in Stems \cup {NoStem} /\ Edge(store[i].stem, seen) \in Edges
  BY <1>1 DEF RuleType, Fires, Edge, Edges
<1>. QED BY <1>2 DEF Spawned, Free, WorkerType, Stages

\* Each worker is either left alone or was free and is given a rule.
LEMMA ScanTurns ==
    ASSUME EngineTypes, Scan
    PROVE  /\ \E lists : wk' \in [Workers -> WorkerType(lists)]
           /\ \A w \in Workers :
                 wk'[w] = wk[w] \/ (wk[w].at = "free" /\ wk'[w].at = "spawned")
<1>. DEFINE Hired(seen, made, f) ==
              [w \in Workers |-> IF \E i \in made : f[i] = w
                                   THEN Spawned(store[CHOOSE i \in made : f[i] = w], seen)
                                   ELSE wk[w]]
<1>0. PICK seen \in Sights :
        \E made \in SUBSET {i \in DOMAIN store : Fires(store[i], seen)} :
            \E f \in Injection(made, Workers \ Busy) : wk' = Hired(seen, made, f)
  BY DEF Scan
<1>1. PICK made \in SUBSET {i \in DOMAIN store : Fires(store[i], seen)} :
        \E f \in Injection(made, Workers \ Busy) : wk' = Hired(seen, made, f)
  BY <1>0
<1>2. PICK f \in Injection(made, Workers \ Busy) : wk' = Hired(seen, made, f)
  BY <1>1
<1>3. PICK lists : wk \in [Workers -> WorkerType(lists)]
  BY DEF EngineTypes
<1>4. f \in [made -> Workers \ Busy]
  BY DEF Injection
<1>5. ASSUME NEW w \in Workers
      PROVE  /\ wk'[w] \in WorkerType(lists \cup {<<>>})
             /\ wk'[w] = wk[w] \/ (wk[w].at = "free" /\ wk'[w].at = "spawned")
  <2>1. CASE \E i \in made : f[i] = w
    <3>1. PICK i \in made : f[i] = w /\ wk'[w] = Spawned(store[i], seen)
      BY <1>2, <2>1
    <3>2. wk[w].at = "free"
      BY <1>4, <3>1 DEF Busy
    <3>3. wk'[w] \in WorkerType({<<>>}) /\ wk'[w].at = "spawned"
      BY <3>1, SpawnedTyped
    <3>. QED BY <3>2, <3>3 DEF WorkerType
  <2>2. CASE ~\E i \in made : f[i] = w
    <3>1. wk'[w] = wk[w]
      BY <1>2, <2>2
    <3>. QED BY <1>3, <3>1 DEF WorkerType
  <2>. QED BY <2>1, <2>2
<1>6. wk' \in [Workers -> WorkerType(lists \cup {<<>>})]
  BY <1>2, <1>5
<1>. QED BY <1>5, <1>6

LEMMA ScanPreserves ==
    ASSUME EngineInv, Scan
    PROVE  EngineInv'
<1>1. /\ \E lists : wk' \in [Workers -> WorkerType(lists)]
      /\ \A w \in Workers :
            wk'[w] = wk[w] \/ (wk[w].at = "free" /\ wk'[w].at = "spawned")
  BY ScanTurns DEF EngineInv
<1>2. /\ UNCHANGED <<vars, store, procs, touchpad, silent>>
      /\ oc' = oc /\ running' \subseteq procs /\ pinned' = (pinned \/ procs # {})
  BY DEF Scan, Sights
<1>3. MirrorInv' /\ ReplyHonest'
  BY <1>2, HardwareUntouched DEF EngineInv
<1>4. pc' = pc /\ unsettled' = unsettled
  BY <1>2 DEF vars
<1>5. EngineTypes'
  BY <1>1, <1>2 DEF EngineInv, EngineTypes
<1>6. SwitchTypes'
  BY <1>2 DEF EngineInv, SwitchTypes
<1>7. WorkerInv'
  BY <1>1, <1>4 DEF EngineInv, WorkerInv, Rule, Calling
<1>8. SleepInv'
  BY <1>1, <1>4 DEF EngineInv, SleepInv, Pausing
<1>9. SilentInv'
  <2>1. \A w \in silent' : w \in silent /\ w \in Workers /\ wk'[w] = wk[w]
    BY <1>1, <1>2 DEF EngineInv, EngineTypes, SilentInv
  <2>2. \A w \in silent : wk[w].at # "free" /\ wk[w].changed
    BY DEF EngineInv, SilentInv
  <2>. QED BY <2>1, <2>2, Zenon DEF SilentInv
<1>. QED BY <1>3, <1>5, <1>6, <1>7, <1>8, <1>9 DEF EngineInv

-----------------------------------------------------------------------------
(* The environment and the hardware layer.                                 *)

LEMMA EnvironmentPreserves ==
    ASSUME EngineInv, UNCHANGED <<vars, wk, devices, silent>>,
           store' \in RuleLists, procs' \subseteq Stems, running' \subseteq Stems
    PROVE  EngineInv'
<1>1. MirrorInv' /\ ReplyHonest'
  BY HardwareUntouched DEF EngineInv
<1>2. EngineTypes' /\ SwitchTypes'
  BY DEF EngineInv, EngineTypes, SwitchTypes, devices
<1>3. WorkerInv' /\ SleepInv' /\ SilentInv'
  BY DEF EngineInv, WorkerInv, SleepInv, SilentInv, Rule, vars
<1>. QED BY <1>1, <1>2, <1>3 DEF EngineInv

\* The hardware layer goes on for thread t; no worker moves.
LEMMA LayerPreserves ==
    ASSUME EngineInv, NEW t \in Threads, MirrorInv', ReplyHonest', UNCHANGED engine,
           pc' = [pc EXCEPT ![t] = pc'[t]],
           t \in Workers => (pc[t] = "idle" <=> pc'[t] = "idle"),
           \A u \in unsettled' : (u \in unsettled /\ (u = t => pc[u] # "sleep"))
                                   \/ pc'[u] = "sleep"
    PROVE  EngineInv'
<1>1. \A u \in Threads \ {t} : pc'[u] = pc[u]
  BY DEF EngineInv, MirrorInv, TypeOK
<1>2. unsettled \subseteq Threads
  BY DEF EngineInv, MirrorInv, TypeOK
<1>3. EngineTypes' /\ SwitchTypes' /\ SilentInv'
  BY DEF EngineInv, EngineTypes, SwitchTypes, SilentInv, engine
<1>4. WorkerInv'
  BY <1>1, WorkersAreThreads DEF EngineInv, WorkerInv, Rule, engine
<1>5. SleepInv'
  BY <1>1, <1>2 DEF EngineInv, SleepInv, engine
<1>. QED BY <1>3, <1>4, <1>5 DEF EngineInv

LEMMA CoreStepPreserves ==
    ASSUME EngineInv, NEW t \in Threads, CoreStep(t)
    PROVE  EngineInv'
<1>1. MirrorInv /\ ReplyHonest /\ TypeOK /\ Step(t) /\ UNCHANGED engine
      /\ (t \in Workers => ~Return(t))
  BY DEF EngineInv, MirrorInv, CoreStep
<1>2. MirrorInv'
  BY <1>1, StepPreserves
<1>3. ReplyHonest'
  BY <1>1, ReplyHonestPreserved DEF Next
<1>4. /\ pc[t] # "idle" /\ pc' = [pc EXCEPT ![t] = pc'[t]]
      /\ pc'[t] = "idle" => Return(t)
      /\ unsettled' = unsettled
           \/ (pc'[t] = "sleep" /\ pc[t] # "sleep" /\ unsettled' = unsettled \cup {t})
      /\ pc[t] = "sleep" => t \notin unsettled
  BY <1>1, StepTurns
<1>5. \A u \in unsettled' : (u \in unsettled /\ (u = t => pc[u] # "sleep"))
                              \/ pc'[u] = "sleep"
  BY <1>4
<1>. QED BY <1>1, <1>2, <1>3, <1>4, <1>5, LayerPreserves

LEMMA EcSettlePreserves ==
    ASSUME EngineInv, EcSettle, UNCHANGED engine
    PROVE  EngineInv'
<1>1. MirrorInv'
  BY SettlePreserves DEF EngineInv
<1>2. ReplyHonest'
  BY DEF EngineInv, ReplyHonest, EcSettle
<1>3. EngineTypes' /\ SwitchTypes' /\ SilentInv'
  BY DEF EngineInv, EngineTypes, SwitchTypes, SilentInv, engine
<1>4. WorkerInv' /\ SleepInv'
  BY DEF EngineInv, WorkerInv, SleepInv, Rule, engine, EcSettle
<1>. QED BY <1>1, <1>2, <1>3, <1>4 DEF EngineInv

LEMMA OtherCallPreserves ==
    ASSUME EngineInv, NEW t \in Threads \ Workers, NEW j \in Jobs, Call(t, j),
           UNCHANGED engine
    PROVE  EngineInv'
<1>1. MirrorInv' /\ ReplyHonest'
  BY CallPreserves, HonestCall DEF EngineInv
<1>2. pc' = [pc EXCEPT ![t] = pc'[t]] /\ unsettled' = unsettled
  BY DEF Call, Goto, EngineInv, MirrorInv, TypeOK
<1>3. t \notin unsettled
  BY DEF Call, EngineInv, SleepInv
<1>. QED BY <1>1, <1>2, <1>3, LayerPreserves

-----------------------------------------------------------------------------
(* The invariant.                                                          *)

LEMMA EngineInitInv == EngineInit => EngineInv
<1>. SUFFICES ASSUME EngineInit PROVE EngineInv
  OBVIOUS
<1>1. MirrorInv /\ ReplyHonest
  BY InitInv DEF EngineInit
<1>2. EngineTypes
  <2>1. Free \in WorkerType({<<>>})
    BY DEF Free, WorkerType, Stages, Edges, NoStem
  <2>2. wk \in [Workers -> WorkerType({<<>>})]
    BY <2>1 DEF EngineInit
  <2>. QED BY <2>2 DEF EngineInit, EngineTypes
<1>3. SwitchTypes
  BY DEF EngineInit, SwitchTypes
<1>4. WorkerInv
  <2>1. ASSUME NEW w \in Workers PROVE wk[w].at = "free" /\ pc[w] = "idle"
    BY WorkersAreThreads DEF EngineInit, Init, Free
  <2>. QED BY <2>1 DEF WorkerInv, Calling
<1>5. SleepInv /\ SilentInv
  BY DEF EngineInit, Init, SleepInv, SilentInv
<1>. QED BY <1>1, <1>2, <1>3, <1>4, <1>5 DEF EngineInv

LEMMA WorkerStepPreserves ==
    ASSUME EngineInv, NEW w \in Workers, WorkerStep(w)
    PROVE  EngineInv'
<1>1. ASSUME FirstPpm(w) \/ SecondPpm(w) PROVE EngineInv'
  BY <1>1, StartPpmPreserves DEF FirstPpm, SecondPpm, Pausing
<1>. QED BY <1>1, BeginPreserves, StartModePreserves, ModeDonePreserves, PpmDonePreserves,
            SetTouchpadPreserves, SetOffsetPreserves, FixGpuPreserves, FinishPreserves DEF WorkerStep

LEMMA EngineNextPreserves == EngineInv /\ [EngineNext]_allVars => EngineInv'
<1>. SUFFICES ASSUME EngineInv, [EngineNext]_allVars PROVE EngineInv'
  OBVIOUS
<1>. store \in RuleLists /\ procs \subseteq Stems /\ running \subseteq Stems
  BY DEF EngineInv, EngineTypes
<1>1. ASSUME NEW s \in Stems, ProgramStarts(s) \/ ProgramExits(s) PROVE EngineInv'
  BY <1>1, EnvironmentPreserves DEF ProgramStarts, ProgramExits
<1>2. ASSUME NEW list \in RuleLists, SaveRules(list) PROVE EngineInv'
  BY <1>2, EnvironmentPreserves DEF SaveRules
<1>3. CASE ScanNoRules
  BY <1>3, EnvironmentPreserves DEF ScanNoRules
<1>4. CASE UNCHANGED allVars
  BY <1>4, EnvironmentPreserves DEF allVars, engine, devices
<1>. QED BY <1>1, <1>2, <1>3, <1>4, ScanPreserves, WorkerStepPreserves, CoreStepPreserves,
            EcSettlePreserves, OtherCallPreserves DEF EngineNext

THEOREM EngineInvariant == EngineSpec => []EngineInv
BY EngineInitInv, EngineNextPreserves, PTL DEF EngineSpec

-----------------------------------------------------------------------------
(* Theorems.                                                               *)

\* Every variable keeps its type, and a worker's call is in the hardware layer
\* exactly while the worker waits for it: RunTrigger neither takes an answer
\* that is not its own nor starts a command before the last one is back.
THEOREM TriggerTypeCorrect == EngineSpec => []TriggerTypeOK
<1>1. ASSUME EngineInv PROVE TriggerTypeOK
  <2>1. /\ TypeOK /\ store \in RuleLists /\ procs \subseteq Stems /\ running \subseteq Stems
        /\ silent \subseteq Workers
    BY <1>1 DEF EngineInv, MirrorInv, EngineTypes
  <2>2. touchpad \in BOOLEAN /\ pinned \in BOOLEAN
    BY <1>1 DEF EngineInv, SwitchTypes
  <2>3. ASSUME NEW w \in Workers
        PROVE  /\ wk[w].at \in Stages /\ wk[w].edge \in Edges
               /\ wk[w].stem \in Stems \cup {NoStem}
               /\ wk[w].changed \in BOOLEAN
    BY <1>1 DEF EngineInv, EngineTypes, WorkerType
  <2>4. ASSUME NEW w \in Workers
        PROVE  /\ (wk[w].at \in {"mode", "ppm1", "ppm2"}) <=> (pc[w] # "idle")
               /\ wk[w].at \notin {"free", "spawned", "rule"} => wk[w].todo # <<>>
    BY <1>1 DEF EngineInv, WorkerInv, Calling
  <2>. QED BY <2>1, <2>2, <2>3, <2>4 DEF TriggerTypeOK
<1>. QED BY <1>1, EngineInvariant, PTL

\* A worker that changed mode, level or touchpad, for whichever of its rules,
\* has told the UI when it ends: stateChanged outlives the rule that set it.
THEOREM AllIsAnnounced == EngineSpec => []ChangesAnnounced
<1>1. EngineInv => ChangesAnnounced
  BY DEF EngineInv, SilentInv, ChangesAnnounced
<1>. QED BY <1>1, EngineInvariant, PTL

\* With workers among the callers g_lastPpm is still explained and a worker's
\* stateChanged rests on what the EC took from its own command.
THEOREM MirrorUnderTriggers == EngineSpec => [](MirrorExplained /\ ReplyHonest)
<1>1. EngineInv => MirrorExplained /\ ReplyHonest
  BY DEF EngineInv, MirrorInv, NoDriftMeansExact, MirrorExplained
<1>. QED BY <1>1, EngineInvariant, PTL

-----------------------------------------------------------------------------
(* The workers are callers of HardwareCore.                                *)

Asleep == {t \in unsettled : pc[t] = "sleep"}

LEMMA CoreOperators ==
    ASSUME NEW t, NEW f, NEW b, NEW o
    PROVE  /\ ModeInvoke(t, f, b, o) => Core!ModeInvoke(t, f, b, o)
           /\ PpmInvoke(t, b, o) => Core!PpmInvoke(t, b, o)
           /\ Succeeded(o) <=> Core!Succeeded(o)
           /\ Told(t, f, o) => Core!Told(t, f, o)
           /\ Goto(t, f) <=> Core!Goto(t, f)
           /\ AfterTarget(b, o) = Core!AfterTarget(b, o)
           /\ AfterWrite(b) = Core!AfterWrite(b)
<1>1. /\ Beast = Core!Beast /\ EcModes = Core!EcModes /\ EcLevels = Core!EcLevels
      /\ \A x : Byte(x) = Core!Byte(x)
  BY DEF Beast, Core!Beast, EcModes, Core!EcModes, EcLevels, Core!EcLevels, Byte, Core!Byte
<1>2. ModeInvoke(t, f, b, o) => Core!ModeInvoke(t, f, b, o)
  BY <1>1 DEF ModeInvoke, SwitchTo, ec, Core!ModeInvoke, Core!SwitchTo, Core!ec
<1>3. PpmInvoke(t, b, o) => Core!PpmInvoke(t, b, o)
  <2>1. \A l : PpmWritable(l) <=> Core!PpmWritable(l)
    BY <1>1 DEF PpmWritable, Core!PpmWritable
  <2>2. NoteLevel(b, o) <=> Core!NoteLevel(b, o)
    BY <1>1 DEF NoteLevel, Core!NoteLevel, Storing, Core!Storing
  <2>. QED BY <1>1, <2>1, <2>2 DEF PpmInvoke, Core!PpmInvoke, ec, Core!ec
<1>4. Succeeded(o) <=> Core!Succeeded(o)
  BY DEF Succeeded, Core!Succeeded
<1>5. (Told(t, f, o) => Core!Told(t, f, o)) /\ (Goto(t, f) <=> Core!Goto(t, f))
  BY DEF Told, Core!Told, Goto, Core!Goto
<1>6. AfterTarget(b, o) = Core!AfterTarget(b, o)
  BY <1>1 DEF AfterTarget, Core!AfterTarget
<1>7. AfterWrite(b) = Core!AfterWrite(b)
  BY <1>1 DEF AfterWrite, Core!AfterWrite
<1>. QED BY <1>2, <1>3, <1>4, <1>5, <1>6, <1>7

\* A step of a call that neither falls asleep nor wakes up leaves the sleepers be.
LEMMA AsleepKept ==
    ASSUME EngineInv, NEW t \in Threads, pc' = [pc EXCEPT ![t] = pc'[t]],
           unsettled' = unsettled \/ unsettled' = unsettled \cup {t},
           pc[t] # "sleep" \/ t \notin unsettled, pc'[t] # "sleep"
    PROVE  Asleep' = Asleep
<1>1. \A u \in Threads \ {t} : pc'[u] = pc[u]
  BY DEF EngineInv, MirrorInv, TypeOK
<1>2. unsettled \subseteq Threads
  BY DEF EngineInv, MirrorInv, TypeOK
<1>3. t \notin Asleep /\ t \notin Asleep'
  BY DEF Asleep
<1>4. ASSUME NEW u, u # t PROVE u \in Asleep' <=> u \in Asleep
  BY <1>1, <1>2, <1>4 DEF Asleep
<1>. QED BY <1>3, <1>4

LEMMA CallIsCore ==
    ASSUME EngineInv, NEW t \in Threads, NEW j, Call(t, j)
    PROVE  Core!Call(t, j)
<1>1. pc[t] = "idle" /\ pc' = [pc EXCEPT ![t] = FirstLabel(j)] /\ unsettled' = unsettled
  BY DEF Call, Goto
<1>2. pc' = [pc EXCEPT ![t] = pc'[t]] /\ pc'[t] # "sleep"
  BY <1>1 DEF EngineInv, MirrorInv, TypeOK, FirstLabel
<1>3. Asleep' = Asleep
  BY <1>1, <1>2, AsleepKept
<1>. QED BY <1>1, <1>3 DEF Call, Goto, Core!Call, Core!Goto, FirstLabel, Core!FirstLabel, Asleep

\* A worker that takes its answer returns from the core, whatever pause it begins.
LEMMA LeaveIsCore ==
    ASSUME EngineInv, NEW t \in Threads, pc[t] = "done", Leave(t),
           unsettled' = unsettled \/ unsettled' = unsettled \cup {t}
    PROVE  Core!Step(t)
<1>1. pc' = [pc EXCEPT ![t] = pc'[t]] /\ pc'[t] # "sleep"
  BY DEF Leave, Goto, EngineInv, MirrorInv, TypeOK
<1>2. Asleep' = Asleep
  BY <1>1, AsleepKept
<1>3. Core!Return(t)
  BY <1>2 DEF Leave, Goto, NoJob, Core!Return, Core!Leave, Core!Goto, Core!NoJob, Asleep
<1>. QED BY <1>3 DEF Core!Step

LEMMA SwitchIsCore ==
    ASSUME EngineInv, NEW t \in Threads, SwitchToBeast(t)
    PROVE  Core!SwitchToBeast(t)
<1>1. PICK o \in Outcomes :
        /\ ModeInvoke(t, "beast", Beast, o)
        /\ Goto(t, IF Succeeded(o) THEN "sleep" ELSE "done")
        /\ IF Succeeded(o) THEN FallAsleep(t, 300) ELSE UNCHANGED unsettled
  BY DEF SwitchToBeast
<1>2. /\ Core!ModeInvoke(t, "beast", Core!Beast, o)
      /\ Core!Goto(t, IF Core!Succeeded(o) THEN "sleep" ELSE "done")
      /\ Core!Succeeded(o) <=> Succeeded(o)
  BY <1>1, CoreOperators DEF Beast, Core!Beast, Goto, Core!Goto
<1>3. pc[t] = "switch" /\ t \notin unsettled
  <2>1. pc[t] = "switch"
    BY DEF SwitchToBeast
  <2>2. t \in Workers => wk[t].at \in Calling
    BY <2>1 DEF EngineInv, WorkerInv
  <2>. QED BY <2>1, <2>2 DEF EngineInv, SleepInv, Calling, Pausing
<1>4. \A u \in Threads \ {t} : pc'[u] = pc[u]
  BY <1>1 DEF Goto, EngineInv, MirrorInv, TypeOK
<1>5. pc'[t] = IF Succeeded(o) THEN "sleep" ELSE "done"
  BY <1>1 DEF Goto, EngineInv, MirrorInv, TypeOK
<1>6. unsettled \subseteq Threads
  BY DEF EngineInv, MirrorInv, TypeOK
<1>7. Asleep' = IF Succeeded(o) /\ settling' /\ SettleMs <= 300
                  THEN Asleep \cup {t} ELSE Asleep
  <2>1. unsettled' = IF Succeeded(o) /\ settling' /\ SettleMs <= 300
                       THEN unsettled \cup {t} ELSE unsettled
    BY <1>1 DEF FallAsleep
  <2>2. CASE Succeeded(o) /\ settling' /\ SettleMs <= 300
    <3>1. unsettled' = unsettled \cup {t} /\ pc'[t] = "sleep"
      BY <1>5, <2>1, <2>2
    <3>2. \A u : u \in Asleep' <=> u \in Asleep \cup {t}
      BY <1>4, <1>6, <3>1 DEF Asleep
    <3>. QED BY <2>2, <3>2
  <2>3. CASE ~(Succeeded(o) /\ settling' /\ SettleMs <= 300)
    <3>1. unsettled' = unsettled
      BY <2>1, <2>3
    <3>2. \A u : u \in Asleep' <=> u \in Asleep
      BY <1>3, <1>4, <1>6, <3>1 DEF Asleep
    <3>. QED BY <2>3, <3>2
  <2>. QED BY <2>2, <2>3
<1>8. IF Core!Succeeded(o) THEN Core!FallAsleep(t, 300) ELSE Asleep' = Asleep
  BY <1>2, <1>7 DEF Core!FallAsleep, Asleep
<1>. QED BY <1>2, <1>3, <1>8 DEF SwitchToBeast, Core!SwitchToBeast, Outcomes, Core!Outcomes, Asleep

LEMMA StepIsCore ==
    ASSUME EngineInv, NEW t \in Threads, Step(t)
    PROVE  Core!Step(t)
<1>1. ASSUME ~SwitchToBeast(t) PROVE Asleep' = Asleep
  <2>1. TypeOK
    BY DEF EngineInv, MirrorInv
  <2>2. /\ pc' = [pc EXCEPT ![t] = pc'[t]]
        /\ unsettled' = unsettled \/ unsettled' = unsettled \cup {t}
        /\ pc[t] # "sleep" \/ t \notin unsettled
        /\ pc'[t] # "sleep"
    BY <1>1, <2>1, StepTurns
  <2>. QED BY <2>2, AsleepKept
<1>2. CASE SwitchToBeast(t)
  BY <1>2, SwitchIsCore DEF Core!Step
<1>3. CASE SetMode(t)
  <2>1. PICK o \in Outcomes :
          /\ ModeInvoke(t, "target", Byte(job[t].mode), o)
          /\ Told(t, "target", Succeeded(o))
          /\ Goto(t, AfterTarget(job[t], Succeeded(o)))
    BY <1>3 DEF SetMode
  <2>2. /\ Core!ModeInvoke(t, "target", Core!Byte(job[t].mode), o)
        /\ Core!Told(t, "target", Core!Succeeded(o))
        /\ Core!Goto(t, Core!AfterTarget(job[t], Core!Succeeded(o)))
    <3>1. Succeeded(o) = Core!Succeeded(o) /\ Byte(job[t].mode) = Core!Byte(job[t].mode)
      BY DEF Succeeded, Core!Succeeded, Byte, Core!Byte
    <3>2. AfterTarget(job[t], Succeeded(o)) = Core!AfterTarget(job[t], Core!Succeeded(o))
      BY <3>1, CoreOperators
    <3>3. Core!ModeInvoke(t, "target", Core!Byte(job[t].mode), o)
      BY <2>1, <3>1, CoreOperators
    <3>4. Core!Told(t, "target", Core!Succeeded(o))
      BY <2>1, <3>1, CoreOperators
    <3>5. Core!Goto(t, Core!AfterTarget(job[t], Core!Succeeded(o)))
      BY <2>1, <3>2, CoreOperators
    <3>. QED BY <3>3, <3>4, <3>5
  <2>3. Asleep' = Asleep
    BY <1>1, <1>3 DEF SetMode, SwitchToBeast
  <2>. QED BY <1>3, <2>2, <2>3 DEF SetMode, Core!SetMode, Outcomes, Core!Outcomes, Asleep, Core!Step
<1>4. CASE FallBack(t)
  <2>1. PICK o \in Outcomes :
          /\ ModeInvoke(t, "beast", Beast, o)
          /\ Told(t, "beast", Succeeded(o))
          /\ Goto(t, IF Succeeded(o) /\ job[t].hasPpm THEN "direct" ELSE "done")
    BY <1>4 DEF FallBack
  <2>2. /\ Core!ModeInvoke(t, "beast", Core!Beast, o)
        /\ Core!Told(t, "beast", Core!Succeeded(o))
        /\ Core!Goto(t, IF Core!Succeeded(o) /\ job[t].hasPpm THEN "direct" ELSE "done")
    BY <2>1, CoreOperators DEF Beast, Core!Beast, Succeeded, Core!Succeeded, Goto, Core!Goto
  <2>3. Asleep' = Asleep
    BY <1>1, <1>4 DEF FallBack, SwitchToBeast
  <2>. QED BY <1>4, <2>2, <2>3 DEF FallBack, Core!FallBack, Outcomes, Core!Outcomes, Asleep, Core!Step
<1>5. ASSUME NEW f, WritePpm(t, f), Asleep' = Asleep PROVE Core!WritePpm(t, f)
  <2>1. PICK o \in Outcomes :
          /\ PpmInvoke(t, job[t].level, o)
          /\ Told(t, "level", Succeeded(o))
          /\ Goto(t, IF Succeeded(o) THEN AfterWrite(job[t].level) ELSE f)
    BY <1>5 DEF WritePpm
  <2>2. /\ Core!PpmInvoke(t, job[t].level, o)
        /\ Core!Told(t, "level", Core!Succeeded(o))
        /\ Core!Goto(t, IF Core!Succeeded(o) THEN Core!AfterWrite(job[t].level) ELSE f)
    BY <2>1, CoreOperators DEF Succeeded, Core!Succeeded, Goto, Core!Goto
  <2>. QED BY <1>5, <2>2 DEF WritePpm, Core!WritePpm, Outcomes, Core!Outcomes, Asleep
<1>6. CASE DirectWrite(t) \/ RetryWrite(t)
  <2>1. Asleep' = Asleep
    BY <1>1, <1>6 DEF DirectWrite, RetryWrite, SwitchToBeast
  <2>2. Core!DirectWrite(t) \/ Core!RetryWrite(t)
    BY <1>5, <1>6, <2>1 DEF DirectWrite, RetryWrite, Core!DirectWrite, Core!RetryWrite
  <2>. QED BY <2>2 DEF Core!Step
<1>7. CASE WakeUp(t)
  <2>1. Asleep' = Asleep
    BY <1>1, <1>7 DEF WakeUp, SwitchToBeast
  <2>2. t \notin Asleep
    BY <1>7 DEF WakeUp, Asleep
  <2>. QED BY <1>7, <2>1, <2>2 DEF WakeUp, Goto, Core!WakeUp, Core!Goto, Asleep, Core!Step
<1>8. CASE StoreMirror(t)
  <2>1. Asleep' = Asleep
    BY <1>1, <1>8 DEF StoreMirror, SwitchToBeast
  <2>. QED BY <1>8, <2>1 DEF StoreMirror, Goto, Core!StoreMirror, Core!Goto, Asleep, Core!Step
<1>9. CASE Return(t)
  BY <1>9, LeaveIsCore DEF Return
<1>. QED BY <1>2, <1>3, <1>4, <1>6, <1>7, <1>8, <1>9 DEF Step

\* The workers' steps between two calls are none of the core's.
LEMMA OutsideCore ==
    ASSUME UNCHANGED vars
    PROVE  UNCHANGED Core!vars
BY DEF vars, Core!vars

LEMMA WorkerIsCore ==
    ASSUME EngineInv, NEW w \in Workers, WorkerStep(w)
    PROVE  [Core!Next]_Core!vars
<1>1. w \in Threads
  BY WorkersAreThreads
<1>2. ASSUME NEW j \in Jobs, Call(w, j) PROVE Core!Next
  <2>1. j \in Core!Jobs
    BY <1>2 DEF Jobs, Core!Jobs, Beast, Core!Beast, EcModes, Core!EcModes
  <2>2. Core!Call(w, j)
    BY <1>1, <1>2, CallIsCore
  <2>. QED BY <1>1, <2>1, <2>2 DEF Core!Next
<1>3. CASE StartMode(w)
  <2>. DEFINE id == Action(Rule(w), wk[w].edge)
  <2>1. CASE id \in DOMAIN ProfileMode
    <3>. DEFINE j == [op |-> "perf", mode |-> ProfileMode[id], hasPpm |-> FALSE, level |-> 0]
    <3>1. Call(w, j)
      BY <1>3, <2>1 DEF StartMode
    <3>2. j \in Jobs
      BY <2>1, RuleCalls DEF EcLevels
    <3>. QED BY <1>2, <3>1, <3>2
  <2>2. CASE id \notin DOMAIN ProfileMode
    BY <1>3, <2>2, OutsideCore DEF StartMode
  <2>. QED BY <2>1, <2>2
<1>4. CASE FirstPpm(w) \/ SecondPpm(w)
  <2>. DEFINE j == [op |-> "ppm", mode |-> Beast, hasPpm |-> TRUE, level |-> Rule(w).ppm]
  <2>1. Call(w, j) /\ wk[w].at \in {"wait1", "wait2"}
    BY <1>4 DEF FirstPpm, SecondPpm, StartPpm
  <2>2. Rule(w).ppm \in EcLevels
    BY <2>1 DEF EngineInv, WorkerInv
  <2>3. j \in Jobs
    <3>1. "smart" \in DOMAIN ProfileMode
      BY DEF ProfileMode
    <3>. QED BY <2>2, <3>1, RuleCalls
  <2>. QED BY <1>2, <2>1, <2>3
<1>5. CASE ModeDone(w) \/ PpmDone(w)
  <2>1. /\ pc[w] = "done" /\ Leave(w)
        /\ unsettled' = unsettled \/ unsettled' = unsettled \cup {w}
    BY <1>5 DEF ModeDone, PpmDone, Answered, AfterMode, FallAsleep
  <2>2. Core!Step(w)
    BY <1>1, <2>1, LeaveIsCore
  <2>. QED BY <1>1, <2>2 DEF Core!Next
<1>6. CASE \/ Begin(w) \/ SetTouchpad(w) \/ (\E d \in Domains : SetOffset(w, d))
           \/ FixGpu(w) \/ Finish(w)
  BY <1>6, OutsideCore DEF Begin, SetTouchpad, SetOffset, FixGpu, Finish
<1>. QED BY <1>3, <1>4, <1>5, <1>6 DEF WorkerStep

\* Triggers use the hardware layer as one of its callers: every behaviour of the
\* engine is one of HardwareCore, a worker's pauses apart.  Hence whatever is
\* proved of any number of callers there - of g_lastPpm, of replies, of targets
\* kept - is true of rules applied while menu and pipe are at work.
THEOREM EngineUsesCore == EngineSpec => CoreSpec
<1>1. EngineInit => Core!Init
  <2>. SUFFICES ASSUME EngineInit PROVE Core!Init
    OBVIOUS
  <2>1. Asleep = {}
    BY DEF EngineInit, Init, Asleep
  <2>. QED BY <2>1 DEF EngineInit, Init, Core!Init, Asleep, EcModes, Core!EcModes,
                       Default, Core!Default, NoJob, Core!NoJob
<1>2. EngineInv /\ [EngineNext]_allVars => [Core!Next]_Core!vars
  <2>. SUFFICES ASSUME EngineInv, [EngineNext]_allVars PROVE [Core!Next]_Core!vars
    OBVIOUS
  <2>1. ASSUME NEW t \in Threads, CoreStep(t) PROVE Core!Next
    BY <2>1, StepIsCore DEF CoreStep, Core!Next
  <2>2. ASSUME NEW t \in Threads, NEW j \in Jobs, Call(t, j) PROVE Core!Next
    <3>1. j \in Core!Jobs
      BY DEF Jobs, Core!Jobs, Beast, Core!Beast, EcModes, Core!EcModes
    <3>. QED BY <2>2, <3>1, CallIsCore DEF Core!Next
  <2>3. CASE EcSettle
    <3>1. Asleep' = {}
      BY <2>3 DEF EcSettle, Asleep
    <3>2. Core!EcSettle
      BY <2>3, <3>1 DEF EcSettle, Core!EcSettle, Asleep, Default, Core!Default
    <3>. QED BY <3>2 DEF Core!Next
  <2>4. ASSUME NEW w \in Workers, WorkerStep(w) PROVE [Core!Next]_Core!vars
    BY <2>4, WorkerIsCore
  <2>5. CASE UNCHANGED vars
    BY <2>5, OutsideCore
  <2>. QED BY <2>1, <2>2, <2>3, <2>4, <2>5
           DEF EngineNext, ProgramStarts, ProgramExits, SaveRules, Scan, ScanNoRules, allVars
<1>. QED BY <1>1, <1>2, EngineInvariant, PTL DEF EngineSpec, CoreSpec, Core!Spec

-----------------------------------------------------------------------------
(* What the rules leave behind, when nothing else meddles: one rule that is *)
(* not edited, no caller of the hardware layer beside the workers, no lost  *)
(* command and no scan while a worker is busy.                              *)

Undisturbed ==
    /\ PromptWorkers /\ ~Faulty /\ MaxSaves = 0 /\ SettleMs <= 600
    /\ Workers = Threads
    /\ \A list \in RuleLists : \E r \in RuleType : list = <<r>>

\* What rule r asks for at edge e, part by part.
ModeSet(r, e) == LET id == Action(r, e)
                 IN  id \in DOMAIN ProfileMode => mode = ProfileMode[id]

Levelled(r, e) == e = "open" /\ r.open = "beast" /\ r.ppm \in EcLevels
LevelSet(r, e) == Levelled(r, e) => ~settling /\ ppm = r.ppm /\ mirror = r.ppm

TpSet(r, e) == LET id == IF e = "open" THEN r.openTp ELSE r.closeTp
               IN  id \in {"tp_on", "tp_off"} => touchpad = (id = "tp_on")

OffsetSet(r, e, d) == e = "open" /\ r.oc[d] # 0 => oc[d] = r.oc[d]
OffsetsSet(r, e)   == \A d \in Domains : OffsetSet(r, e, d)

\* Another program may pin the clocks again.
FixMade(r, e) == e = "close" /\ r.fix /\ Stems = {r.stem} => ~pinned

InForce(r, e) == /\ ModeSet(r, e) /\ LevelSet(r, e) /\ TpSet(r, e)
                 /\ OffsetsSet(r, e) /\ FixMade(r, e)

\* The calls of a worker, none of which is refused.
ModeUnderWay(w, m) ==
    /\ m \in EcModes
    /\ job[w] = [op |-> "perf", mode |-> m, hasPpm |-> FALSE, level |-> 0]
    /\ pc[w] \in {"mode", "done"}
    /\ pc[w] = "done" => mode = m /\ "target" \in claims[w]

LevelUnderWay(w, l) ==
    /\ job[w] = [op |-> "ppm", mode |-> Beast, hasPpm |-> TRUE, level |-> l]
    /\ pc[w] \in {"direct", "store", "done"}
    /\ pc[w] # "direct" => ppm = l /\ "level" \in claims[w]
    /\ pc[w] = "done" => mirror = l

\* How far a worker at edge e of rule r is; a level is taken at the first try.
Underway(w, r, e) ==
    /\ wk[w].at \notin {"free", "wait2", "ppm2"}
    /\ wk[w].at \notin {"spawned", "rule"} => wk[w].todo = <<r>>
    /\ wk[w].at = "rule" => wk[w].todo = <<r>> \/ (wk[w].todo = <<>> /\ InForce(r, e))
    /\ wk[w].at = "mode" => /\ Action(r, e) \in DOMAIN ProfileMode
                            /\ ModeUnderWay(w, ProfileMode[Action(r, e)])
    /\ wk[w].at \in {"wait1", "ppm1"} => Levelled(r, e) /\ mode = Beast
    /\ wk[w].at = "wait1" => (settling => w \in unsettled)
    /\ wk[w].at = "ppm1" => ~settling /\ LevelUnderWay(w, r.ppm)
    /\ wk[w].at \in {"touchpad", "core", "mem", "fix"} => ModeSet(r, e) /\ LevelSet(r, e)
    /\ wk[w].at \in {"core", "mem", "fix"} => TpSet(r, e)
    /\ wk[w].at = "mem" => OffsetSet(r, e, "core")
    /\ wk[w].at = "fix" => OffsetsSet(r, e)

\* The program of rule r has one worker at most, which serves its last edge; with
\* none at work, what the rule asks for at that edge is in force.
Served(r) ==
    LET e == lastEdge[r.stem]
    IN  /\ r.stem \in running <=> e = "open"
        /\ \A v, w \in Busy : v = w
        /\ \A w \in Busy : e # "none" /\ wk[w].stem = r.stem /\ wk[w].edge = e
                           /\ Underway(w, r, e)
        /\ Busy = {} /\ e # "none" /\ Action(r, e) # "none" => InForce(r, e)

Watched(r) == r.enabled /\ r.stem # NoStem

AppliedInv(r) ==
    /\ store = <<r>> /\ saves = 0
    /\ lastEdge \in [Stems -> Edges \cup {"none"}]
    /\ IF Watched(r) THEN Served(r) ELSE Busy = {}

-----------------------------------------------------------------------------
(* The turns of the one worker.                                            *)

LEMMA KeptOne ==
    ASSUME NEW x
    PROVE  Kept(<<x>>, {1}) = <<x>>
<1>1. Cardinality({1}) = 1 /\ {j \in {1} : j <= 1} = {1}
  BY FS_Singleton
<1>2. (CHOOSE i \in {1} : Cardinality({j \in {1} : j <= i}) = 1) = 1
  BY <1>1
<1>3. \A k \in 1..1 : k = 1
  OBVIOUS
<1>. QED BY <1>1, <1>2, <1>3 DEF Kept

\* Where a turn takes a worker, and what it leaves alone.
Turn(w, at, todo) ==
    /\ wk' = [wk EXCEPT ![w] = wk'[w]]
    /\ wk'[w].at = at /\ wk'[w].todo = todo
    /\ wk'[w].stem = wk[w].stem /\ wk'[w].edge = wk[w].edge

LEMMA Turns ==
    ASSUME EngineInv, NEW w \in Workers, NEW at \in Stages, NEW todo,
           NEW changed \in BOOLEAN
    PROVE  /\ wk' = [wk EXCEPT ![w].at = at] => Turn(w, at, wk[w].todo)
           /\ wk' = [wk EXCEPT ![w].at = at, ![w].changed = changed]
                => Turn(w, at, wk[w].todo)
           /\ wk' = [wk EXCEPT ![w].at = at, ![w].todo = todo] => Turn(w, at, todo)
<1>1. PICK lists : wk \in [Workers -> WorkerType(lists)]
  BY DEF EngineInv, EngineTypes
<1>2. wk[w] \in WorkerType(lists)
  BY <1>1
<1>3. wk' = [wk EXCEPT ![w].at = at] => Turn(w, at, wk[w].todo)
  BY <1>1, <1>2 DEF Turn, WorkerType
<1>4. ASSUME wk' = [wk EXCEPT ![w].at = at, ![w].changed = changed]
      PROVE  Turn(w, at, wk[w].todo)
  BY <1>1, <1>2, <1>4 DEF Turn, WorkerType
<1>5. ASSUME wk' = [wk EXCEPT ![w].at = at, ![w].todo = todo]
      PROVE  Turn(w, at, todo)
  BY <1>1, <1>2, <1>5 DEF Turn, WorkerType
<1>. QED BY <1>3, <1>4, <1>5

\* A worker at work is the only one, and serves the last edge of the one rule.
LEMMA TheWorker ==
    ASSUME EngineInv, NEW r \in RuleType, AppliedInv(r), NEW w \in Workers, wk[w].at # "free"
    PROVE  /\ Watched(r) /\ Busy = {w} /\ store = <<r>>
           /\ wk[w].stem = r.stem /\ wk[w].edge = lastEdge[r.stem] /\ wk[w].edge \in Edges
           /\ Underway(w, r, wk[w].edge)
<1>1. w \in Busy
  BY DEF Busy
<1>2. wk[w].edge \in Edges
  BY DEF EngineInv, EngineTypes, WorkerType
<1>3. Watched(r) /\ Served(r)
  BY <1>1 DEF AppliedInv
<1>4. Busy = {w}
  BY <1>1, <1>3 DEF Served
<1>. QED BY <1>1, <1>2, <1>3, <1>4 DEF Served, AppliedInv

\* What is left to show of a turn: that the worker is as far as it says.
LEMMA TurnApplied ==
    ASSUME EngineInv, NEW r \in RuleType, AppliedInv(r), NEW w \in Workers,
           wk[w].at # "free", NEW at, at # "free", NEW todo, Turn(w, at, todo),
           UNCHANGED <<store, running, lastEdge, saves>>,
           NEW e, e = wk[w].edge, Underway(w, r, e)'
    PROVE  AppliedInv(r)'
<1>1. /\ Watched(r) /\ Busy = {w} /\ wk[w].stem = r.stem /\ e = lastEdge[r.stem]
      /\ e \in Edges /\ Served(r)
  BY TheWorker DEF AppliedInv
<1>2. \A v \in Workers \ {w} : wk'[v] = wk[v]
  <2>1. PICK lists : wk \in [Workers -> WorkerType(lists)]
    BY DEF EngineInv, EngineTypes
  <2>. QED BY <2>1 DEF Turn
<1>3. Busy' = {w}
  BY <1>1, <1>2 DEF Busy, Turn
<1>4. /\ lastEdge'[r.stem] = e /\ wk'[w].stem = r.stem /\ wk'[w].edge = e
      /\ r.stem \in running' <=> e = "open"
  BY <1>1 DEF Served, Turn
<1>5. e # "none"
  BY <1>1 DEF Edges
<1>6. Served(r)'
  BY <1>3, <1>4, <1>5 DEF Served
<1>. QED BY <1>1, <1>6 DEF AppliedInv

\* What the rule asks for stays in force as long as the machine is left alone.
LEMMA LeftAlone ==
    ASSUME NEW r, NEW e, UNCHANGED <<mode, settling, ppm, mirror>>
    PROVE  /\ ModeSet(r, e)' <=> ModeSet(r, e)
           /\ LevelSet(r, e)' <=> LevelSet(r, e)
           /\ touchpad' = touchpad => (TpSet(r, e)' <=> TpSet(r, e))
           /\ oc' = oc => /\ \A d \in Domains : OffsetSet(r, e, d)' <=> OffsetSet(r, e, d)
                          /\ OffsetsSet(r, e)' <=> OffsetsSet(r, e)
           /\ UNCHANGED devices => (InForce(r, e)' <=> InForce(r, e))
<1>1. ModeSet(r, e)' <=> ModeSet(r, e)
  BY DEF ModeSet, Action
<1>2. LevelSet(r, e)' <=> LevelSet(r, e)
  BY DEF LevelSet
<1>3. touchpad' = touchpad => (TpSet(r, e)' <=> TpSet(r, e))
  BY DEF TpSet
<1>6. oc' = oc => \A d \in Domains : OffsetSet(r, e, d)' <=> OffsetSet(r, e, d)
  BY DEF OffsetSet
<1>4. oc' = oc => (OffsetsSet(r, e)' <=> OffsetsSet(r, e))
  BY <1>6 DEF OffsetsSet
<1>5. pinned' = pinned => (FixMade(r, e)' <=> FixMade(r, e))
  BY DEF FixMade
<1>. QED BY <1>1, <1>2, <1>3, <1>4, <1>5, <1>6 DEF InForce, devices

LEMMA BeginApplied ==
    ASSUME EngineInv, NEW r \in RuleType, AppliedInv(r), NEW w \in Workers, Begin(w)
    PROVE  AppliedInv(r)'
<1>. PICK e : e = wk[w].edge
  OBVIOUS
<1>1. wk[w].at # "free" /\ Watched(r) /\ store = <<r>> /\ wk[w].stem = r.stem
  BY TheWorker DEF Begin
<1>2. {i \in DOMAIN store : store[i].enabled /\ store[i].stem = wk[w].stem} = {1}
  BY <1>1 DEF Watched
<1>3. Turn(w, "rule", <<r>>)
  <2>1. wk' = [wk EXCEPT ![w].at = "rule", ![w].todo = <<r>>]
    BY <1>1, <1>2, KeptOne DEF Begin
  <2>. QED BY <2>1, Turns DEF Stages
<1>4. Underway(w, r, e)'
  BY <1>3 DEF Underway, Turn
<1>5. UNCHANGED <<store, running, lastEdge, saves>>
  BY DEF Begin
<1>. QED BY <1>1, <1>3, <1>4, <1>5, TurnApplied

LEMMA StartModeApplied ==
    ASSUME EngineInv, NEW r \in RuleType, AppliedInv(r), NEW w \in Workers, StartMode(w)
    PROVE  AppliedInv(r)'
<1>. PICK e : e = wk[w].edge
  OBVIOUS
<1>1. /\ wk[w].at = "rule" /\ wk[w].todo = <<r>> /\ e \in Edges /\ Rule(w) = r
  BY TheWorker DEF StartMode, Underway, Rule
<1>2. UNCHANGED <<store, running, lastEdge, saves>>
  BY DEF StartMode
<1>3. CASE Action(r, e) \in DOMAIN ProfileMode
  <2>1. /\ wk' = [wk EXCEPT ![w].at = "mode"]
        /\ Call(w, [op |-> "perf", mode |-> ProfileMode[Action(r, e)],
                    hasPpm |-> FALSE, level |-> 0])
    BY <1>1, <1>3 DEF StartMode, Stage
  <2>2. Turn(w, "mode", <<r>>)
    BY <1>1, <2>1, Turns DEF Stages
  <2>3. ProfileMode[Action(r, e)] \in EcModes
    BY <1>3 DEF ProfileMode, EcModes, Beast
  <2>4. /\ pc'[w] = "mode"
        /\ job'[w] = [op |-> "perf", mode |-> ProfileMode[Action(r, e)],
                      hasPpm |-> FALSE, level |-> 0]
    BY <2>1, WorkersAreThreads
       DEF Call, Goto, FirstLabel, EngineInv, MirrorInv, TypeOK
  <2>5. ModeUnderWay(w, ProfileMode[Action(r, e)])'
    BY <2>3, <2>4 DEF ModeUnderWay, Action
  <2>6. Underway(w, r, e)'
    BY <1>3, <2>2, <2>5 DEF Underway, Turn, Action
  <2>. QED BY <1>1, <1>2, <2>2, <2>6, TurnApplied
<1>4. CASE Action(r, e) \notin DOMAIN ProfileMode
  <2>1. wk' = [wk EXCEPT ![w].at = "touchpad"]
    BY <1>1, <1>4 DEF StartMode, Stage
  <2>2. Turn(w, "touchpad", <<r>>)
    BY <1>1, <2>1, Turns DEF Stages
  <2>3. ~Levelled(r, e)
    BY <1>4 DEF Levelled, Action, ProfileMode
  <2>4. Underway(w, r, e)'
    BY <1>4, <2>2, <2>3 DEF Underway, Turn, ModeSet, LevelSet, Levelled, Action
  <2>. QED BY <1>1, <1>2, <2>2, <2>4, TurnApplied
<1>. QED BY <1>3, <1>4

LEMMA ModeDoneApplied ==
    ASSUME EngineInv, Undisturbed, NEW r \in RuleType, AppliedInv(r), NEW w \in Workers,
           ModeDone(w)
    PROVE  AppliedInv(r)'
<1>. PICK e : e = wk[w].edge
  OBVIOUS
<1>1. /\ wk[w].at = "mode" /\ wk[w].todo = <<r>> /\ e \in Edges /\ Rule(w) = r
      /\ Action(r, e) \in DOMAIN ProfileMode /\ mode = ProfileMode[Action(r, e)]
      /\ "target" \in claims[w]
  <2>1. wk[w].at = "mode" /\ pc[w] = "done"
    BY DEF ModeDone, Answered
  <2>2. e \in Edges /\ Underway(w, r, e)
    BY <2>1, TheWorker
  <2>3. /\ wk[w].todo = <<r>> /\ Action(r, e) \in DOMAIN ProfileMode
        /\ ModeUnderWay(w, ProfileMode[Action(r, e)])
    BY <2>1, <2>2 DEF Underway
  <2>. QED BY <2>1, <2>2, <2>3 DEF ModeUnderWay, Rule
<1>2. UNCHANGED <<store, running, lastEdge, saves>> /\ UNCHANGED <<mode, settling, ppm, mirror>>
  BY DEF ModeDone, Leave
<1>3. WantsPpm(w) <=> Levelled(r, e)
  BY <1>1 DEF WantsPpm, Levelled, Opens, Action
<1>4. wk' = [wk EXCEPT ![w].at = IF WantsPpm(w) THEN "wait1" ELSE "touchpad",
                       ![w].changed = NowChanged(w, TRUE)]
      /\ AfterMode(w)
  BY <1>1 DEF ModeDone, NowChanged
<1>5. NowChanged(w, TRUE) \in BOOLEAN
  BY DEF NowChanged
<1>6. ModeSet(r, e)'
  BY <1>1, <1>2 DEF ModeSet, Action
<1>7. CASE Levelled(r, e)
  <2>1. Turn(w, "wait1", <<r>>)
    BY <1>1, <1>3, <1>4, <1>5, <1>7, Turns DEF Stages
  <2>2. mode' = Beast
    BY <1>1, <1>2, <1>7 DEF Levelled, Action, ProfileMode
  <2>3. settling' => w \in unsettled'
    BY <1>3, <1>4, <1>7 DEF AfterMode, FallAsleep, Undisturbed
  <2>4. Underway(w, r, e)'
    BY <1>7, <2>1, <2>2, <2>3 DEF Underway, Turn, Levelled
  <2>. QED BY <1>1, <1>2, <2>1, <2>4, TurnApplied
<1>8. CASE ~Levelled(r, e)
  <2>1. Turn(w, "touchpad", <<r>>)
    BY <1>1, <1>3, <1>4, <1>5, <1>8, Turns DEF Stages
  <2>2. Underway(w, r, e)'
    BY <1>6, <1>8, <2>1 DEF Underway, Turn, LevelSet, Levelled
  <2>. QED BY <1>1, <1>2, <2>1, <2>2, TurnApplied
<1>. QED BY <1>7, <1>8

LEMMA FirstPpmApplied ==
    ASSUME EngineInv, NEW r \in RuleType, AppliedInv(r), NEW w \in Workers, FirstPpm(w)
    PROVE  AppliedInv(r)'
<1>. PICK e : e = wk[w].edge
  OBVIOUS
<1>1. /\ wk[w].at = "wait1" /\ wk[w].todo = <<r>> /\ e \in Edges /\ Rule(w) = r
      /\ Levelled(r, e) /\ mode = Beast /\ ~settling
  BY TheWorker DEF FirstPpm, StartPpm, Underway, Rule
<1>2. /\ UNCHANGED <<store, running, lastEdge, saves>> /\ UNCHANGED <<mode, settling>>
      /\ wk' = [wk EXCEPT ![w].at = "ppm1"]
      /\ Call(w, [op |-> "ppm", mode |-> Beast, hasPpm |-> TRUE, level |-> r.ppm])
  BY <1>1 DEF FirstPpm, StartPpm, Stage, Call
<1>3. Turn(w, "ppm1", <<r>>)
  BY <1>1, <1>2, Turns DEF Stages
<1>4. /\ pc'[w] = "direct"
      /\ job'[w] = [op |-> "ppm", mode |-> Beast, hasPpm |-> TRUE, level |-> r.ppm]
  BY <1>2, WorkersAreThreads DEF Call, Goto, FirstLabel, EngineInv, MirrorInv, TypeOK
<1>5. LevelUnderWay(w, r.ppm)'
  BY <1>4 DEF LevelUnderWay
<1>6. Underway(w, r, e)'
  BY <1>1, <1>2, <1>3, <1>5 DEF Underway, Turn, Levelled
<1>. QED BY <1>1, <1>2, <1>3, <1>6, TurnApplied

\* A level is taken at the first try, so there is no second.
LEMMA PpmDoneApplied ==
    ASSUME EngineInv, NEW r \in RuleType, AppliedInv(r), NEW w \in Workers, PpmDone(w)
    PROVE  AppliedInv(r)'
<1>. PICK e : e = wk[w].edge
  OBVIOUS
<1>1. /\ wk[w].at = "ppm1" /\ wk[w].todo = <<r>> /\ e \in Edges
      /\ Levelled(r, e) /\ mode = Beast /\ ~settling
      /\ ppm = r.ppm /\ mirror = r.ppm /\ "level" \in claims[w]
  <2>1. wk[w].at \in {"ppm1", "ppm2"} /\ pc[w] = "done"
    BY DEF PpmDone, Answered
  <2>2. Underway(w, r, e) /\ e \in Edges
    BY <2>1, TheWorker
  <2>3. wk[w].at = "ppm1" /\ wk[w].todo = <<r>>
    BY <2>1, <2>2 DEF Underway
  <2>4. Levelled(r, e) /\ mode = Beast /\ ~settling /\ LevelUnderWay(w, r.ppm)
    BY <2>2, <2>3 DEF Underway
  <2>. QED BY <2>1, <2>2, <2>3, <2>4 DEF LevelUnderWay
<1>2. UNCHANGED <<store, running, lastEdge, saves>> /\ UNCHANGED <<mode, settling, ppm, mirror>>
  BY DEF PpmDone, Leave
<1>3. wk' = [wk EXCEPT ![w].at = "touchpad", ![w].changed = NowChanged(w, TRUE)]
  BY <1>1 DEF PpmDone, NowChanged, TriesAgain
<1>4. NowChanged(w, TRUE) \in BOOLEAN
  BY DEF NowChanged
<1>5. Turn(w, "touchpad", <<r>>)
  BY <1>1, <1>3, <1>4, Turns DEF Stages
<1>6. ModeSet(r, e)' /\ LevelSet(r, e)'
  BY <1>1, <1>2 DEF ModeSet, LevelSet, Levelled, Action, ProfileMode
<1>7. Underway(w, r, e)'
  BY <1>5, <1>6 DEF Underway, Turn
<1>. QED BY <1>1, <1>2, <1>5, <1>7, TurnApplied

\* What is left of a rule after its touchpad action, past offsets that are zero.
LEMMA Skipped ==
    ASSUME NEW r, NEW w, NEW e, e = wk[w].edge, Rule(w) = r
    PROVE  /\ AfterCore(w) \in {"mem", "fix"}
           /\ AfterCore(w) = "fix" => OffsetSet(r, e, "mem")
           /\ AfterTouchpad(w) \in {"core", "mem", "fix"}
           /\ AfterTouchpad(w) \in {"mem", "fix"} => OffsetSet(r, e, "core")
           /\ AfterTouchpad(w) = "fix" => OffsetSet(r, e, "mem")
  BY DEF AfterCore, AfterTouchpad, OffsetDue, OffsetSet, Opens

LEMMA SetTouchpadApplied ==
    ASSUME EngineInv, Undisturbed, NEW r \in RuleType, AppliedInv(r), NEW w \in Workers,
           SetTouchpad(w)
    PROVE  AppliedInv(r)'
<1>. PICK e : e = wk[w].edge
  OBVIOUS
<1>1. /\ wk[w].at = "touchpad" /\ wk[w].todo = <<r>> /\ e \in Edges /\ Rule(w) = r
      /\ ModeSet(r, e) /\ LevelSet(r, e)
  BY TheWorker DEF SetTouchpad, Underway, Rule
<1>2. /\ UNCHANGED <<store, running, lastEdge, saves>>
      /\ UNCHANGED <<mode, settling, ppm, mirror, oc>>
  BY DEF SetTouchpad, vars
<1>. DEFINE at == AfterTouchpad(w)
<1>3. PICK ok \in BOOLEAN :
        wk' = [wk EXCEPT ![w].at = at, ![w].changed = NowChanged(w, ok)]
  BY DEF SetTouchpad
<1>. HIDE DEF at
<1>4. at \in {"core", "mem", "fix"} /\ Turn(w, at, <<r>>)
  <2>1. NowChanged(w, ok) \in BOOLEAN
    <3>1. wk[w].changed \in BOOLEAN
      BY DEF EngineInv, EngineTypes, WorkerType
    <3>. QED BY <3>1 DEF NowChanged
  <2>2. at \in {"core", "mem", "fix"}
    BY <1>1, Skipped DEF at
  <2>. QED BY <1>1, <1>3, <2>1, <2>2, Turns DEF Stages
<1>5. TpSet(r, e)'
  <2>1. TpAction(w) = IF e = "open" THEN r.openTp ELSE r.closeTp
    BY <1>1 DEF TpAction, Opens
  <2>2. TpAction(w) \in {"tp_on", "tp_off"} => touchpad' = (TpAction(w) = "tp_on")
    BY DEF SetTouchpad, Undisturbed
  <2>. QED BY <2>1, <2>2 DEF TpSet
<1>6. ModeSet(r, e)' /\ LevelSet(r, e)'
  BY <1>1, <1>2, LeftAlone
<1>7. /\ at \in {"mem", "fix"} => OffsetSet(r, e, "core")'
      /\ at = "fix" => OffsetsSet(r, e)'
  <2>1. /\ at \in {"mem", "fix"} => OffsetSet(r, e, "core")
        /\ at = "fix" => OffsetSet(r, e, "mem")
    BY <1>1, Skipped DEF at
  <2>2. \A d \in Domains : OffsetSet(r, e, d) => OffsetSet(r, e, d)'
    BY <1>2, LeftAlone
  <2>. QED BY <2>1, <2>2 DEF OffsetsSet, Domains
<1>8. Underway(w, r, e)'
  BY <1>4, <1>5, <1>6, <1>7 DEF Underway, Turn
<1>. QED BY <1>1, <1>2, <1>4, <1>8, TurnApplied

LEMMA SetOffsetApplied ==
    ASSUME EngineInv, Undisturbed, NEW r \in RuleType, AppliedInv(r), NEW w \in Workers,
           NEW d \in Domains, SetOffset(w, d)
    PROVE  AppliedInv(r)'
<1>. PICK e : e = wk[w].edge
  OBVIOUS
<1>1. /\ wk[w].at = d /\ wk[w].todo = <<r>> /\ e \in Edges /\ Rule(w) = r
      /\ ModeSet(r, e) /\ LevelSet(r, e) /\ TpSet(r, e)
      /\ d = "mem" => OffsetSet(r, e, "core")
  BY TheWorker DEF SetOffset, Underway, Rule, Domains
<1>2. /\ UNCHANGED <<store, running, lastEdge, saves>>
      /\ UNCHANGED <<mode, settling, ppm, mirror, touchpad>>
  BY DEF SetOffset, vars
<1>. DEFINE at == IF d = "core" THEN AfterCore(w) ELSE "fix"
<1>3. wk' = [wk EXCEPT ![w].at = at]
  BY DEF SetOffset, Stage
<1>. HIDE DEF at
<1>4. at \in {"mem", "fix"} /\ (d = "mem" => at = "fix")
  BY <1>1, Skipped DEF at, Domains
<1>5. Turn(w, at, <<r>>)
  BY <1>1, <1>3, <1>4, Turns DEF Stages
<1>6. OffsetSet(r, e, d)' /\ \A c \in Domains \ {d} : OffsetSet(r, e, c) => OffsetSet(r, e, c)'
  <2>1. oc' = [oc EXCEPT ![d] = r.oc[d]] /\ oc = [c \in Domains |-> oc[c]]
    BY <1>1 DEF SetOffset, Undisturbed, EngineInv, SwitchTypes
  <2>2. oc'[d] = r.oc[d] /\ \A c \in Domains \ {d} : oc'[c] = oc[c]
    BY <2>1
  <2>. QED BY <2>2 DEF OffsetSet
<1>7. OffsetSet(r, e, "core")' /\ (at = "fix" => OffsetsSet(r, e)')
  <2>1. d = "core" /\ at = "fix" => OffsetSet(r, e, "mem")
    BY <1>1, Skipped DEF at
  <2>. QED BY <1>1, <1>6, <2>1 DEF OffsetsSet, Domains
<1>8. ModeSet(r, e)' /\ LevelSet(r, e)' /\ TpSet(r, e)'
  BY <1>1, <1>2, LeftAlone
<1>9. Underway(w, r, e)'
  BY <1>4, <1>5, <1>7, <1>8 DEF Underway, Turn
<1>. QED BY <1>1, <1>2, <1>4, <1>5, <1>9, TurnApplied, Zenon DEF Domains

LEMMA FixGpuApplied ==
    ASSUME EngineInv, Undisturbed, NEW r \in RuleType, AppliedInv(r), NEW w \in Workers,
           FixGpu(w)
    PROVE  AppliedInv(r)'
<1>. PICK e : e = wk[w].edge
  OBVIOUS
<1>1. /\ wk[w].at = "fix" /\ wk[w].todo = <<r>> /\ e \in Edges /\ Rule(w) = r
      /\ ModeSet(r, e) /\ LevelSet(r, e) /\ TpSet(r, e) /\ OffsetsSet(r, e)
  BY TheWorker DEF FixGpu, Underway, Rule
<1>2. /\ UNCHANGED <<store, running, lastEdge, saves>>
      /\ UNCHANGED <<mode, settling, ppm, mirror, touchpad, oc>>
  BY DEF FixGpu, vars
<1>3. wk' = [wk EXCEPT ![w].at = "rule", ![w].todo = <<>>]
  <2>1. PICK lists : wk \in [Workers -> WorkerType(lists)]
    BY DEF EngineInv, EngineTypes
  <2>2. wk' = [wk EXCEPT ![w].at = "rule", ![w].todo = Tail(wk[w].todo)]
    BY <2>1 DEF FixGpu, WorkerType
  <2>3. Tail(<<r>>) = <<>>
    OBVIOUS
  <2>. QED BY <1>1, <2>2, <2>3
<1>4. Turn(w, "rule", <<>>)
  BY <1>1, <1>3, Turns DEF Stages
<1>5. OffsetsSet(r, e)'
  <2>1. \A d \in Domains : OffsetSet(r, e, d) => OffsetSet(r, e, d)'
    BY <1>2, LeftAlone
  <2>. QED BY <1>1, <2>1 DEF OffsetsSet
<1>6. FixMade(r, e)'
  <2>1. e = "close" /\ r.fix => FixDue(w)
    BY <1>1 DEF FixDue, Opens
  <2>. QED BY <2>1 DEF FixGpu, FixMade, Undisturbed
<1>7. ModeSet(r, e)' /\ LevelSet(r, e)' /\ TpSet(r, e)'
  BY <1>1, <1>2, LeftAlone
<1>8. Underway(w, r, e)'
  BY <1>4, <1>5, <1>6, <1>7 DEF Underway, Turn, InForce
<1>. QED BY <1>1, <1>2, <1>4, <1>8, TurnApplied

\* The worker ends: what its rule asks for is in force.
LEMMA FinishApplied ==
    ASSUME EngineInv, NEW r \in RuleType, AppliedInv(r), NEW w \in Workers, Finish(w)
    PROVE  AppliedInv(r)'
<1>. PICK e : e = wk[w].edge
  OBVIOUS
<1>1. /\ Watched(r) /\ Busy = {w} /\ e = lastEdge[r.stem] /\ e \in Edges
      /\ InForce(r, e) /\ Served(r)
  <2>1. wk[w].at = "rule" /\ wk[w].todo = <<>>
    BY DEF Finish
  <2>2. /\ Watched(r) /\ Busy = {w} /\ e = lastEdge[r.stem] /\ e \in Edges
        /\ Underway(w, r, e) /\ Served(r)
    BY <2>1, TheWorker DEF AppliedInv
  <2>3. InForce(r, e)
    BY <2>1, <2>2 DEF Underway
  <2>. QED BY <2>2, <2>3
<1>2. /\ UNCHANGED <<store, running, lastEdge, saves>>
      /\ UNCHANGED <<mode, settling, ppm, mirror, devices>>
  BY DEF Finish, vars
<1>3. Busy' = {}
  <2>1. PICK lists : wk \in [Workers -> WorkerType(lists)]
    BY DEF EngineInv, EngineTypes
  <2>2. wk'[w].at = "free" /\ \A v \in Workers \ {w} : wk'[v] = wk[v]
    BY <2>1 DEF Finish, Free
  <2>. QED BY <1>1, <2>2 DEF Busy
<1>4. InForce(r, e)' /\ e = lastEdge'[r.stem]
  BY <1>1, <1>2, LeftAlone
<1>5. Served(r)'
  BY <1>1, <1>2, <1>3, <1>4 DEF Served
<1>. QED BY <1>1, <1>2, <1>5 DEF AppliedInv

-----------------------------------------------------------------------------
(* The hardware layer and the programs.                                    *)

\* A step in which no worker moves.
LEMMA StandsApplied ==
    ASSUME EngineInv, NEW r \in RuleType, AppliedInv(r),
           UNCHANGED <<store, running, lastEdge, saves, wk>>,
           \A w \in Workers, e \in Edges :
               wk[w].at # "free" /\ Underway(w, r, e) => Underway(w, r, e)',
           Busy = {} => \A e \in Edges : InForce(r, e) => InForce(r, e)'
    PROVE  AppliedInv(r)'
<1>1. Busy' = Busy
  BY DEF Busy
<1>2. CASE ~Watched(r)
  BY <1>1, <1>2 DEF AppliedInv
<1>3. CASE Watched(r)
  <2>. PICK e : e = lastEdge[r.stem]
    OBVIOUS
  <2>1. Served(r) /\ lastEdge'[r.stem] = e
    BY <1>3 DEF AppliedInv
  <2>2. r.stem \in Stems /\ e \in Edges \cup {"none"}
    BY <1>3 DEF AppliedInv, Watched, RuleType
  <2>3. \A v, w \in Busy : v = w
    BY <2>1 DEF Served
  <2>4. ASSUME NEW w \in Busy
        PROVE  e # "none" /\ wk[w].stem = r.stem /\ wk[w].edge = e /\ Underway(w, r, e)'
    <3>1. w \in Workers /\ wk[w].at # "free"
      BY DEF Busy
    <3>2. e # "none" /\ wk[w].stem = r.stem /\ wk[w].edge = e /\ Underway(w, r, e)
      BY <2>1 DEF Served
    <3>. QED BY <2>2, <3>1, <3>2
  <2>5. Busy = {} /\ e # "none" /\ Action(r, e) # "none" => InForce(r, e)'
    BY <2>1, <2>2 DEF Served
  <2>6. Served(r)'
    BY <1>1, <2>1, <2>3, <2>4, <2>5 DEF Served, Action
  <2>. QED BY <1>3, <2>6 DEF AppliedInv
<1>. QED BY <1>2, <1>3

\* Calls are granted when nothing is lost.
LEMMA ModeGranted ==
    ASSUME TypeOK, ~Faulty, NEW t \in Threads, NEW m, ModeUnderWay(t, m), Step(t), ~Return(t)
    PROVE  ModeUnderWay(t, m)'
<1>1. SetMode(t) /\ pc[t] = "mode"
  BY DEF ModeUnderWay, Step, SetMode, FallBack, DirectWrite, SwitchToBeast, WakeUp, RetryWrite,
         StoreMirror, Return
<1>2. Byte(m) = m /\ m \in EcModes /\ job[t].mode = m /\ job[t].op = "perf"
  BY DEF ModeUnderWay, Byte, EcModes
<1>3. PICK outcome \in Outcomes :
        /\ ModeInvoke(t, "target", Byte(job[t].mode), outcome)
        /\ Told(t, "target", Succeeded(outcome))
        /\ Goto(t, AfterTarget(job[t], Succeeded(outcome)))
  BY <1>1 DEF SetMode
<1>4. outcome = "taken" /\ mode' = m
  BY <1>2, <1>3 DEF ModeInvoke, SwitchTo
<1>5. "target" \in claims'[t] /\ pc'[t] = "done"
  BY <1>2, <1>3, <1>4 DEF Told, Succeeded, Goto, AfterTarget, TypeOK
<1>6. job' = job
  BY <1>1 DEF SetMode
<1>. QED BY <1>2, <1>4, <1>5, <1>6 DEF ModeUnderWay

LEMMA LevelGranted ==
    ASSUME TypeOK, ~Faulty, NEW t \in Threads, NEW l \in EcLevels, LevelUnderWay(t, l),
           mode = Beast, Step(t), ~Return(t)
    PROVE  LevelUnderWay(t, l)' /\ UNCHANGED <<mode, settling>>
<1>1. Byte(l) = l /\ job[t].level = l
  BY ByteOfLevel DEF LevelUnderWay
<1>2. DirectWrite(t) \/ StoreMirror(t)
  BY DEF LevelUnderWay, Step, SetMode, FallBack, DirectWrite, SwitchToBeast, WakeUp, RetryWrite,
         StoreMirror, Return
<1>3. CASE DirectWrite(t)
  <2>1. PICK outcome \in Outcomes :
          /\ PpmInvoke(t, l, outcome)
          /\ Told(t, "level", Succeeded(outcome))
          /\ Goto(t, IF Succeeded(outcome) THEN AfterWrite(l) ELSE "switch")
    BY <1>1, <1>3 DEF DirectWrite, WritePpm
  <2>2. outcome = "taken" /\ ppm' = l /\ UNCHANGED <<mode, settling>>
    BY <1>1, <2>1 DEF PpmInvoke, PpmWritable
  <2>3. "level" \in claims'[t] /\ pc'[t] = "store"
    BY <2>1, <2>2 DEF Told, Succeeded, Goto, AfterWrite, TypeOK
  <2>4. job' = job
    BY <1>3 DEF DirectWrite, WritePpm
  <2>. QED BY <2>2, <2>3, <2>4 DEF LevelUnderWay
<1>4. CASE StoreMirror(t)
  <2>1. /\ mirror' = l /\ pc[t] = "store" /\ pc'[t] = "done"
        /\ UNCHANGED <<mode, settling, ppm, job, claims>>
    BY <1>1, <1>4 DEF StoreMirror, Goto, TypeOK
  <2>. QED BY <2>1 DEF LevelUnderWay
<1>. QED BY <1>2, <1>3, <1>4

LEMMA CoreStepApplied ==
    ASSUME EngineInv, Undisturbed, NEW r \in RuleType, AppliedInv(r), NEW t \in Threads,
           CoreStep(t)
    PROVE  AppliedInv(r)'
<1>. PICK e : e = wk[t].edge
  OBVIOUS
<1>1. /\ t \in Workers /\ TypeOK /\ ~Faulty
      /\ Step(t) /\ ~Return(t) /\ UNCHANGED engine
  BY DEF CoreStep, Undisturbed, EngineInv, MirrorInv
<1>2. wk[t].at \in Calling
  BY <1>1, StepTurns DEF EngineInv, WorkerInv
<1>3. wk[t].at # "free"
  BY <1>2 DEF Calling
<1>4. Busy = {t} /\ e \in Edges /\ Underway(t, r, e) /\ \A w \in Workers : wk[w].at # "free" => w = t
  BY <1>1, <1>3, TheWorker DEF Busy
<1>5. UNCHANGED <<store, running, lastEdge, saves, wk>>
  BY <1>1 DEF engine
<1>6. wk[t].at \in {"mode", "ppm1"}
  BY <1>2, <1>4 DEF Calling, Underway
<1>7. CASE wk[t].at = "mode"
  <2>1. ASSUME NEW c \in Edges, Underway(t, r, c) PROVE Underway(t, r, c)'
    <3>1. PICK m : m = ProfileMode[Action(r, c)]
      OBVIOUS
    <3>2. Action(r, c) \in DOMAIN ProfileMode /\ ModeUnderWay(t, m) /\ wk[t].todo = <<r>>
      BY <1>7, <2>1, <3>1 DEF Underway
    <3>3. ModeUnderWay(t, m)'
      BY <1>1, <3>2, ModeGranted
    <3>. QED BY <1>5, <1>7, <3>1, <3>2, <3>3 DEF Underway, Action
  <2>. QED BY <1>4, <1>5, <2>1, StandsApplied
<1>8. CASE wk[t].at = "ppm1"
  <2>1. ASSUME NEW c \in Edges, Underway(t, r, c) PROVE Underway(t, r, c)'
    <3>1. /\ wk[t].todo = <<r>> /\ Levelled(r, c) /\ mode = Beast /\ ~settling
          /\ LevelUnderWay(t, r.ppm)
      BY <1>8, <2>1 DEF Underway
    <3>2. LevelUnderWay(t, r.ppm)' /\ mode' = Beast /\ ~settling'
      BY <1>1, <3>1, LevelGranted DEF Levelled
    <3>. QED BY <1>5, <1>8, <3>1, <3>2 DEF Underway, Levelled
  <2>. QED BY <1>4, <1>5, <2>1, StandsApplied
<1>. QED BY <1>6, <1>7, <1>8

\* The EC applies a mode late: never over a level that a rule has set.
LEMMA EcSettleApplied ==
    ASSUME EngineInv, NEW r \in RuleType, AppliedInv(r), EcSettle, UNCHANGED engine
    PROVE  AppliedInv(r)'
<1>1. /\ UNCHANGED <<store, running, lastEdge, saves, wk, devices>>
      /\ settling /\ ~settling' /\ UNCHANGED <<mode, mirror, pc, job, claims>>
  BY DEF engine, devices, EcSettle
<1>2. ASSUME NEW e \in Edges
      PROVE  /\ ModeSet(r, e) => ModeSet(r, e)'
             /\ LevelSet(r, e) => LevelSet(r, e)'
             /\ TpSet(r, e) => TpSet(r, e)'
             /\ InForce(r, e) => InForce(r, e)'
             /\ OffsetSet(r, e, "core") => OffsetSet(r, e, "core")'
             /\ OffsetsSet(r, e) => OffsetsSet(r, e)'
  <2>1. ModeSet(r, e) => ModeSet(r, e)'
    BY <1>1 DEF ModeSet, Action
  <2>2. LevelSet(r, e) => LevelSet(r, e)'
    BY <1>1 DEF LevelSet, Levelled
  <2>3. TpSet(r, e) => TpSet(r, e)'
    BY <1>1 DEF TpSet, devices
  <2>6. \A d : OffsetSet(r, e, d)' <=> OffsetSet(r, e, d)
    BY <1>1 DEF OffsetSet, devices
  <2>4. OffsetsSet(r, e)' <=> OffsetsSet(r, e)
    BY <2>6 DEF OffsetsSet
  <2>5. FixMade(r, e)' <=> FixMade(r, e)
    BY <1>1 DEF FixMade, devices
  <2>. QED BY <2>1, <2>2, <2>3, <2>4, <2>5, <2>6 DEF InForce
<1>3. ASSUME NEW w \in Workers, NEW e \in Edges, wk[w].at # "free", Underway(w, r, e)
      PROVE  Underway(w, r, e)'
  <2>1. wk[w].at # "ppm1"
    BY <1>1, <1>3 DEF Underway
  <2>2. ASSUME NEW m, ModeUnderWay(w, m) PROVE ModeUnderWay(w, m)'
    BY <1>1, <2>2 DEF ModeUnderWay
  <2>3. wk[w].at = "mode" => (/\ Action(r, e) \in DOMAIN ProfileMode
                              /\ ModeUnderWay(w, ProfileMode[Action(r, e)]))'
    <3>1. PICK m : m = ProfileMode[Action(r, e)]
      OBVIOUS
    <3>. QED BY <1>3, <2>2, <3>1 DEF Underway, Action
  <2>. QED BY <1>1, <1>2, <1>3, <2>1, <2>3 DEF Underway, Levelled
<1>. QED BY <1>1, <1>2, <1>3, StandsApplied

\* A program starts or exits: no worker and nothing of the machine moves.
LEMMA FlipApplied ==
    ASSUME EngineInv, NEW r \in RuleType, AppliedInv(r),
           UNCHANGED <<vars, store, running, lastEdge, saves, wk, devices>>
    PROVE  AppliedInv(r)'
<1>1. ASSUME NEW e \in Edges
      PROVE  /\ ModeSet(r, e)' <=> ModeSet(r, e)
             /\ LevelSet(r, e)' <=> LevelSet(r, e)
             /\ TpSet(r, e)' <=> TpSet(r, e)
             /\ InForce(r, e)' <=> InForce(r, e)
             /\ OffsetSet(r, e, "core")' <=> OffsetSet(r, e, "core")
             /\ OffsetsSet(r, e)' <=> OffsetsSet(r, e)
  BY LeftAlone DEF vars, devices, Domains
<1>2. ASSUME NEW w \in Workers, NEW e \in Edges, Underway(w, r, e)
      PROVE  Underway(w, r, e)'
  BY <1>1, <1>2 DEF Underway, ModeUnderWay, LevelUnderWay, Levelled, Action, vars
<1>. QED BY <1>1, <1>2, StandsApplied

\* A scan gives the rule a worker for the edge it sees, or finds nothing to do.
LEMMA ScanHires ==
    ASSUME EngineInv, Undisturbed, NEW r \in RuleType, AppliedInv(r), Scan
    PROVE  /\ Busy = {}
           /\ ~Fires(r, procs) => Busy' = {}
           /\ Fires(r, procs) => \E w \in Workers : Busy' = {w} /\ wk'[w] = Spawned(r, procs)
<1>1. Busy = {} /\ store = <<r>> /\ DOMAIN store = {1} /\ store[1] = r
  BY DEF Scan, Undisturbed, AppliedInv
<1>. DEFINE hit == {i \in DOMAIN store : Fires(store[i], procs)}
            Hired(made, f) == [w \in Workers |->
              IF \E i \in made : f[i] = w THEN Spawned(store[CHOOSE i \in made : f[i] = w], procs)
                                          ELSE wk[w]]
<1>2. PICK made \in SUBSET hit : \E f \in Injection(made, Workers \ Busy) :
        (Faulty \/ made = hit) /\ wk' = Hired(made, f)
  <2>1. Sights = {procs}
    BY DEF Sights, Undisturbed
  <2>. QED BY <2>1 DEF Scan
<1>3. PICK f \in Injection(made, Workers \ Busy) : made = hit /\ wk' = Hired(made, f)
  BY <1>2 DEF Undisturbed
<1>4. f \in Injection(hit, Workers \ Busy) /\ wk' = Hired(hit, f)
  <2>. HIDE DEF Hired, hit
  <2>. QED BY <1>3
<1>5. \A w \in Workers : wk[w].at = "free"
  BY <1>1 DEF Busy
<1>6. CASE Fires(r, procs)
  <2>1. hit = {1}
    BY <1>1, <1>6
  <2>. HIDE DEF hit
  <2>2. f[1] \in Workers
    BY <1>4, <2>1 DEF Injection
  <2>3. (CHOOSE i \in hit : f[i] = f[1]) = 1
    BY <2>1
  <2>4. wk'[f[1]] = Spawned(r, procs)
    BY <1>1, <1>4, <2>1, <2>2, <2>3
  <2>5. \A w \in Workers \ {f[1]} : wk'[w] = wk[w]
    BY <1>4, <2>1
  <2>6. Spawned(r, procs).at # "free"
    BY DEF Spawned, Free
  <2>7. Busy' = {f[1]}
    BY <1>5, <2>2, <2>4, <2>5, <2>6 DEF Busy
  <2>. QED BY <1>1, <1>6, <2>2, <2>4, <2>7
<1>7. CASE ~Fires(r, procs)
  <2>1. hit = {}
    BY <1>1, <1>7
  <2>. HIDE DEF hit
  <2>2. \A w \in Workers : wk'[w] = wk[w]
    BY <1>4, <2>1
  <2>3. Busy' = {}
    BY <1>5, <2>2 DEF Busy
  <2>. QED BY <1>1, <1>7, <2>3
<1>. QED BY <1>6, <1>7

LEMMA ScanApplied ==
    ASSUME EngineInv, Undisturbed, NEW r \in RuleType, AppliedInv(r), Scan
    PROVE  AppliedInv(r)'
<1>0. Sights = {procs}
  BY DEF Sights, Undisturbed
<1>1. /\ store' = <<r>> /\ saves' = 0 /\ running' = procs /\ procs \subseteq Stems
      /\ UNCHANGED <<mode, settling, ppm, mirror, touchpad, oc>>
      /\ pinned' = (pinned \/ procs # {})
  BY <1>0 DEF Scan, AppliedInv, EngineInv, EngineTypes, vars
<1>2. lastEdge' = [s \in Stems |-> IF Edge(s, procs) = "none" THEN lastEdge[s] ELSE Edge(s, procs)]
  BY <1>0 DEF Scan
<1>3. lastEdge' \in [Stems -> Edges \cup {"none"}]
  BY <1>2 DEF AppliedInv, Edge, Edges
<1>4. CASE ~Watched(r)
  <2>1. ~Fires(r, procs)
    BY <1>4 DEF Watched, Fires
  <2>. QED BY <1>1, <1>3, <1>4, <2>1, ScanHires DEF AppliedInv
<1>5. CASE Watched(r)
  <2>. PICK e : e = lastEdge'[r.stem]
    OBVIOUS
  <2>1. r.stem \in Stems /\ Served(r) /\ Busy = {}
    BY <1>5, ScanHires DEF Watched, RuleType, AppliedInv
  <2>2. e = IF Edge(r.stem, procs) = "none" THEN lastEdge[r.stem] ELSE Edge(r.stem, procs)
    BY <1>2, <2>1
  <2>3. r.stem \in running' <=> e = "open"
    BY <1>1, <2>1, <2>2 DEF Served, Edge
  <2>4. CASE Fires(r, procs)
    <3>1. PICK w \in Workers : Busy' = {w} /\ wk'[w] = Spawned(r, procs)
      BY <2>4, ScanHires
    <3>2. Edge(r.stem, procs) # "none" /\ e = Edge(r.stem, procs)
      BY <2>2, <2>4 DEF Fires
    <3>3. /\ wk'[w].at = "spawned" /\ wk'[w].stem = r.stem /\ wk'[w].edge = e
      BY <3>1, <3>2 DEF Spawned, Free
    <3>4. Underway(w, r, e)'
      BY <3>3 DEF Underway
    <3>5. Served(r)'
      BY <2>3, <3>1, <3>2, <3>3, <3>4 DEF Served
    <3>. QED BY <1>1, <1>3, <1>5, <3>5 DEF AppliedInv
  <2>5. CASE ~Fires(r, procs)
    <3>1. Busy' = {}
      BY <2>5, ScanHires
    <3>2. Edge(r.stem, procs) = "none" \/ Action(r, e) = "none"
      BY <1>5, <2>2, <2>5 DEF Fires, Watched
    <3>3. ASSUME e # "none", Action(r, e) # "none" PROVE InForce(r, e)'
      <4>1. Edge(r.stem, procs) = "none" /\ e = lastEdge[r.stem] /\ InForce(r, e)
        BY <2>1, <2>2, <3>2, <3>3 DEF Served
      <4>2. FixMade(r, e)'
        <5>1. ASSUME e = "close", Stems = {r.stem} PROVE procs = {}
          BY <1>1, <2>3, <5>1
        <5>. QED BY <1>1, <4>1, <5>1 DEF FixMade, InForce
      <4>3. ModeSet(r, e)' /\ LevelSet(r, e)' /\ TpSet(r, e)'
        BY <1>1, <4>1, LeftAlone DEF InForce
      <4>4. OffsetsSet(r, e)'
        BY <1>1, <4>1 DEF InForce, OffsetsSet, OffsetSet
      <4>. QED BY <4>2, <4>3, <4>4 DEF InForce
    <3>4. Served(r)'
      BY <2>3, <3>1, <3>3 DEF Served, Action
    <3>. QED BY <1>1, <1>3, <1>5, <3>4 DEF AppliedInv
  <2>. QED BY <2>4, <2>5
<1>. QED BY <1>4, <1>5

-----------------------------------------------------------------------------
(* The theorems.                                                           *)

Applied == EngineInv /\ \E r \in RuleType : AppliedInv(r)

LEMMA AppliedInit == ASSUME Undisturbed, EngineInit PROVE \E r \in RuleType : AppliedInv(r)
<1>1. PICK r \in RuleType : store = <<r>>
  BY DEF EngineInit, Undisturbed
<1>2. Busy = {}
  BY DEF EngineInit, Busy, Free
<1>3. lastEdge \in [Stems -> Edges \cup {"none"}] /\ saves = 0
  BY DEF EngineInit
<1>4. Watched(r) => Served(r)
  <2>1. Watched(r) => lastEdge[r.stem] = "none" /\ running = {}
    BY DEF Watched, RuleType, EngineInit
  <2>. QED BY <1>2, <2>1 DEF Served
<1>. QED BY <1>1, <1>2, <1>3, <1>4 DEF AppliedInv

LEMMA AppliedNext ==
    ASSUME Undisturbed, Applied, [EngineNext]_allVars
    PROVE  \E r \in RuleType : AppliedInv(r)'
<1>1. PICK r \in RuleType : AppliedInv(r)
  BY DEF Applied
<1>. EngineInv
  BY DEF Applied
<1>2. CASE \E s \in Stems : ProgramStarts(s) \/ ProgramExits(s)
  BY <1>1, <1>2, FlipApplied DEF ProgramStarts, ProgramExits
<1>3. CASE \E list \in RuleLists : SaveRules(list)
  BY <1>1, <1>3 DEF SaveRules, Undisturbed, AppliedInv
<1>4. CASE Scan \/ ScanNoRules
  <2>1. ~ScanNoRules
    BY <1>1 DEF ScanNoRules, AppliedInv
  <2>. QED BY <1>1, <1>4, <2>1, ScanApplied
<1>5. ASSUME NEW w \in Workers, WorkerStep(w) PROVE AppliedInv(r)'
  <2>1. ~SecondPpm(w)
    <3>1. wk[w].at # "wait2"
      BY <1>1, TheWorker DEF Underway
    <3>. QED BY <3>1 DEF SecondPpm, StartPpm
  <2>. QED BY <1>1, <1>5, <2>1, BeginApplied, StartModeApplied, ModeDoneApplied,
              FirstPpmApplied, PpmDoneApplied, SetTouchpadApplied, SetOffsetApplied, FixGpuApplied,
              FinishApplied DEF WorkerStep
<1>6. CASE \E t \in Threads : CoreStep(t)
  BY <1>1, <1>6, CoreStepApplied
<1>7. CASE EcSettle /\ UNCHANGED engine
  BY <1>1, <1>7, EcSettleApplied
<1>8. CASE \E t \in Threads \ Workers, j \in Jobs : Call(t, j) /\ UNCHANGED engine
  BY <1>8 DEF Undisturbed
<1>9. CASE UNCHANGED allVars
  BY <1>1, <1>9, FlipApplied DEF allVars, engine, devices
<1>. QED BY <1>2, <1>3, <1>4, <1>5, <1>6, <1>7, <1>8, <1>9 DEF EngineNext

\* Undisturbed, what the rule asks for at the last edge is in force once its
\* worker has ended.
THEOREM RuleIsApplied ==
    ASSUME Undisturbed
    PROVE  EngineSpec => []Applied
<1>1. EngineInit => Applied
  BY EngineInitInv, AppliedInit DEF Applied
<1>2. Applied /\ [EngineNext]_allVars => Applied'
  BY AppliedNext, EngineNextPreserves DEF Applied
<1>. QED BY <1>1, <1>2, PTL DEF EngineSpec

LEMMA DueInForce ==
    ASSUME Applied, Quiet, NEW r \in Due
    PROVE  InForce(r, lastEdge[r.stem])
<1>1. PICK q \in RuleType : AppliedInv(q)
  BY DEF Applied
<1>2. q = r /\ Watched(r)
  BY <1>1 DEF Due, Watching, Watched, AppliedInv
<1>. QED BY <1>1, <1>2 DEF AppliedInv, Served, Quiet, Due

\* The mode and level of the last edge are in force ...
THEOREM LastEdgeApplied ==
    ASSUME Undisturbed
    PROVE  EngineSpec => []LastEdgeInForce
<1>1. Applied => LastEdgeInForce
  BY DueInForce DEF LastEdgeInForce, InForce, ModeSet, LevelSet, Levelled, Action
<1>. QED BY <1>1, RuleIsApplied, PTL

\* ... so is its touchpad action ...
THEOREM TouchpadApplied ==
    ASSUME Undisturbed
    PROVE  EngineSpec => []TouchpadFollows
<1>1. Applied => TouchpadFollows
  BY DueInForce DEF TouchpadFollows, InForce, TpSet
<1>. QED BY <1>1, RuleIsApplied, PTL

\* ... and the clock offsets of a running program ...
THEOREM OffsetsApplied ==
    ASSUME Undisturbed
    PROVE  EngineSpec => []OffsetsOfRunning
<1>1. Applied => OffsetsOfRunning
  BY DueInForce DEF OffsetsOfRunning, InForce, OffsetsSet, OffsetSet
<1>. QED BY <1>1, RuleIsApplied, PTL

\* ... and no pinned clocks are left behind, if no other program pins them.
THEOREM FixApplied ==
    ASSUME Undisturbed, NEW s, Stems = {s}
    PROVE  EngineSpec => []FixedOnExit
<1>1. Applied => FixedOnExit
  <2>. SUFFICES ASSUME Applied, Quiet, NEW r \in Due, r.fix, lastEdge[r.stem] = "close"
                PROVE  ~pinned
    BY DEF FixedOnExit
  <2>1. FixMade(r, "close")
    BY DueInForce DEF InForce
  <2>2. r \in RuleType /\ r.stem # NoStem
    <3>1. store \in Seq(RuleType)
      BY RulesAreRules DEF Applied, EngineInv, EngineTypes
    <3>. QED BY <3>1 DEF Due, Watching
  <2>3. r.stem = s
    BY <2>2 DEF RuleType
  <2>. QED BY <2>1, <2>3 DEF FixMade
<1>. QED BY <1>1, RuleIsApplied, PTL
=============================================================================
