------------------------- MODULE HardwareCore_proofs -------------------------
(* Proofs about HardwareCore, for any set of callers and any requests.     *)
EXTENDS HardwareCore, TLAPS

-----------------------------------------------------------------------------
(* Facts about the operators.                                              *)

\* A level in range survives being cut to a byte, a byte being 0..255.
LEMMA ByteOfLevel ==
    ASSUME NEW l \in EcLevels
    PROVE  Byte(l) = l
BY DEF EcLevels, Byte

\* Every request the service can receive is a well-formed call.
LEMMA JobsTyped == Jobs \subseteq JobType
<1>. SUFFICES ASSUME NEW j \in Jobs PROVE j \in JobType
  OBVIOUS
<1>1. j = [op |-> j.op, mode |-> j.mode, hasPpm |-> j.hasPpm, level |-> j.level]
  BY DEF Jobs
<1>2. j.op \in Ops
  BY DEF Jobs, Ops
<1>3. j.mode \in Int
  <2>1. j.mode \in ReqModes \cup {Beast} \cup EcModes
    BY DEF Jobs
  <2>2. EcModes \subseteq Int /\ Beast \in Int
    BY DEF EcModes, Beast
  <2>. QED BY <2>1, <2>2, RequestsAreInts
<1>4. j.hasPpm \in BOOLEAN
  BY DEF Jobs
<1>5. j.level \in Int
  <2>1. j.level \in ReqLevels \cup {0}
    BY DEF Jobs
  <2>2. 0 \in Int
    OBVIOUS
  <2>. QED BY <2>1, <2>2, RequestsAreInts, Zenon
<1>. QED BY <1>1, <1>2, <1>3, <1>4, <1>5 DEF JobType

\* Told only ever adds one of the facts.
LEMMA ToldTyped ==
    ASSUME TypeOK, NEW t \in Threads, NEW f \in Facts, NEW ok, Told(t, f, ok)
    PROVE  claims' \in [Threads -> SUBSET Facts]
BY DEF TypeOK, Told

\* A mode command leaves the EC in a mode it has, whatever its outcome.
LEMMA ModeInvokeTyped ==
    ASSUME TypeOK, NEW t \in Threads, NEW f \in Facts, NEW b, NEW o,
           ModeInvoke(t, f, b, o)
    PROVE  /\ mode' \in EcModes
           /\ ppm' = ppm
           /\ settling' \in BOOLEAN
           /\ took' \in [Threads -> SUBSET Facts]
BY DEF TypeOK, ModeInvoke, SwitchTo, ec

\* A PPM command leaves the EC with a level it has, whatever its outcome.
LEMMA PpmInvokeTyped ==
    ASSUME TypeOK, NEW t \in Threads, NEW l, NEW o, PpmInvoke(t, l, o)
    PROVE  /\ mode' = mode /\ settling' = settling
           /\ ppm' \in EcLevels \cup {Default}
           /\ took' \in [Threads -> SUBSET Facts]
           /\ drift' \subseteq Causes
BY DEF TypeOK, PpmInvoke, PpmWritable, NoteLevel, ec, Facts, Causes

LEMMA LabelsGoto ==
    ASSUME TypeOK, NEW t \in Threads, NEW label \in Labels, Goto(t, label)
    PROVE  pc' \in [Threads -> Labels]
BY DEF TypeOK, Goto

-----------------------------------------------------------------------------
(* The mirror: one lemma per group of steps.                               *)

\* Storing changes only with pc: a thread that moves between labels other than
\* "store" leaves it alone, one that enters or leaves adds or removes itself.
LEMMA StoringGoto ==
    ASSUME TypeOK, NEW t \in Threads, NEW label \in Labels, Goto(t, label)
    PROVE  Storing' = IF label = "store" THEN Storing \cup {t} ELSE Storing \ {t}
BY DEF TypeOK, Goto, Storing

\* A step that moves a thread between labels other than "store" and touches
\* neither the level in force, the mirror, the calls nor the drift.
LEMMA QuietStep ==
    ASSUME MirrorInv, NEW t \in Threads, NEW label \in Labels \ {"store"},
           Goto(t, label), pc[t] # "store", UNCHANGED <<ppm, mirror, drift>>,
           \A u \in Threads \ {t} : job'[u] = job[u]
    PROVE  StoredLevelsInRange' /\ NoDriftMeansExact'
<1>1. Storing' = Storing /\ t \notin Storing
  BY StoringGoto DEF MirrorInv, Storing
<1>2. \A u \in Storing : job'[u].level = job[u].level
  BY <1>1 DEF Storing
<1>3. StoredLevelsInRange'
  BY <1>1, <1>2 DEF MirrorInv, StoredLevelsInRange
<1>4. NoDriftMeansExact'
  BY <1>1, <1>2 DEF MirrorInv, NoDriftMeansExact
<1>. QED BY <1>3, <1>4

\* A PPM command keeps the mirror explained: a level that reaches the EC leaves
\* a cause of drift behind, or is the only one on its way to the mirror.
LEMMA WriteStep ==
    ASSUME MirrorInv, NEW t \in Threads, NEW onFailure \in Labels \ {"store"},
           pc[t] \in {"direct", "retry"}, WritePpm(t, onFailure)
    PROVE  StoredLevelsInRange' /\ NoDriftMeansExact'
<1>. DEFINE l == job[t].level
<1>1. PICK o \in Outcomes :
        /\ PpmInvoke(t, l, o)
        /\ Goto(t, IF Succeeded(o) THEN AfterWrite(l) ELSE onFailure)
        /\ UNCHANGED <<unsettled, mirror, job>>
  BY DEF WritePpm
<1>2. t \notin Storing
  BY DEF Storing
<1>3. CASE o = "taken" /\ l \in EcLevels
  <2>1. ppm' = l
    BY <1>1, <1>3, ByteOfLevel DEF PpmInvoke
  <2>2. Storing' = Storing \cup {t}
    <3>1. Goto(t, "store")
      BY <1>1, <1>3 DEF Succeeded, AfterWrite
    <3>. QED BY <3>1, StoringGoto DEF MirrorInv, Labels
  <2>3. drift' = IF Storing # {} THEN drift \cup {"overlap"} ELSE {}
    BY <1>1, <1>3 DEF PpmInvoke, NoteLevel
  <2>4. StoredLevelsInRange'
    BY <1>1, <1>3, <2>2 DEF MirrorInv, StoredLevelsInRange
  <2>5. NoDriftMeansExact'
    <3>1. ASSUME drift' = {} PROVE Storing' = {t}
      BY <2>2, <2>3, <3>1
    <3>. QED BY <1>1, <2>1, <3>1 DEF NoDriftMeansExact
  <2>. QED BY <2>4, <2>5
<1>4. CASE ~(o = "taken" /\ l \in EcLevels)
  <2>1. Storing' = Storing
    <3>1. PICK label \in Labels \ {"store"} : Goto(t, label)
      BY <1>1, <1>4 DEF Succeeded, AfterWrite, Labels
    <3>. QED BY <3>1, <1>2, StoringGoto DEF MirrorInv
  <2>2. StoredLevelsInRange'
    BY <1>1, <2>1 DEF MirrorInv, StoredLevelsInRange
  <2>3. drift' # {} \/ UNCHANGED <<ppm, drift>>
    BY <1>1, <1>4 DEF PpmInvoke, NoteLevel, ec, Outcomes
  <2>4. NoDriftMeansExact'
    BY <1>1, <2>1, <2>3 DEF MirrorInv, NoDriftMeansExact
  <2>. QED BY <2>2, <2>4
<1>. QED BY <1>3, <1>4

\* The store itself: the level stored is the one in force, if there is no drift.
LEMMA StoreStep ==
    ASSUME MirrorInv, NEW t \in Threads, StoreMirror(t)
    PROVE  mirror' \in EcLevels /\ StoredLevelsInRange' /\ NoDriftMeansExact'
<1>1. t \in Storing /\ mirror' = job[t].level
  BY DEF StoreMirror, Storing
<1>2. Storing' = Storing \ {t}
  BY StoringGoto DEF MirrorInv, StoreMirror, Labels
<1>3. mirror' \in EcLevels
  BY <1>1 DEF MirrorInv, StoredLevelsInRange
<1>4. StoredLevelsInRange'
  BY <1>2 DEF MirrorInv, StoredLevelsInRange, StoreMirror
<1>5. NoDriftMeansExact'
  <2>1. ASSUME drift' = {} PROVE Storing' = {} /\ mirror' = ppm'
    <3>1. drift = {} /\ ppm' = ppm
      BY <2>1 DEF StoreMirror
    <3>2. Storing = {t} /\ job[t].level = ppm
      BY <1>1, <3>1 DEF MirrorInv, NoDriftMeansExact
    <3>. QED BY <1>1, <1>2, <3>1, <3>2
  <2>. QED BY <2>1 DEF NoDriftMeansExact
<1>. QED BY <1>3, <1>4, <1>5

-----------------------------------------------------------------------------
(* The steps of the system.                                                *)

LEMMA InitInv == Init => MirrorInv /\ ReplyHonest
<1>. SUFFICES ASSUME Init PROVE MirrorInv /\ ReplyHonest
  OBVIOUS
<1>1. TypeOK
  <2>1. NoJob \in JobType
    BY DEF NoJob, JobType, Ops
  <2>. QED BY <2>1 DEF Init, TypeOK, Labels
<1>2. Storing = {}
  BY DEF Init, Storing
<1>3. StoredLevelsInRange /\ NoDriftMeansExact
  BY <1>2 DEF Init, StoredLevelsInRange, NoDriftMeansExact
<1>4. ReplyHonest
  BY DEF Init, ReplyHonest
<1>. QED BY <1>1, <1>3, <1>4 DEF MirrorInv

LEMMA SettlePreserves ==
    ASSUME MirrorInv, EcSettle
    PROVE  MirrorInv'
<1>1. Storing' = Storing
  BY DEF EcSettle, Storing
<1>2. TypeOK'
  BY DEF MirrorInv, TypeOK, EcSettle, Causes
<1>3. StoredLevelsInRange'
  BY <1>1 DEF MirrorInv, StoredLevelsInRange, EcSettle
<1>4. NoDriftMeansExact'
  <2>1. ASSUME drift' = {} PROVE drift = {} /\ ppm' = ppm
    BY <2>1 DEF EcSettle
  <2>. QED BY <1>1, <2>1 DEF MirrorInv, NoDriftMeansExact, EcSettle
<1>. QED BY <1>2, <1>3, <1>4 DEF MirrorInv

LEMMA CallPreserves ==
    ASSUME MirrorInv, NEW t \in Threads, NEW j \in Jobs, Call(t, j)
    PROVE  MirrorInv'
<1>1. FirstLabel(j) \in Labels \ {"store"}
  BY DEF FirstLabel, Labels
<1>2. TypeOK'
  <2>1. pc' \in [Threads -> Labels]
    BY <1>1, LabelsGoto DEF MirrorInv, Call
  <2>2. job' \in [Threads -> JobType]
    BY JobsTyped DEF MirrorInv, TypeOK, Call
  <2>. QED BY <2>1, <2>2 DEF MirrorInv, TypeOK, Call
<1>3. StoredLevelsInRange' /\ NoDriftMeansExact'
  <2>1. \A u \in Threads \ {t} : job'[u] = job[u]
    BY DEF MirrorInv, TypeOK, Call
  <2>. QED BY <1>1, <2>1, QuietStep DEF Call
<1>. QED BY <1>2, <1>3 DEF MirrorInv

LEMMA StepPreserves ==
    ASSUME MirrorInv, NEW t \in Threads, Step(t)
    PROVE  MirrorInv'
<1>. USE DEF MirrorInv
<1>1. CASE SetMode(t)
  <2>1. PICK o \in Outcomes :
          /\ ModeInvoke(t, "target", Byte(job[t].mode), o)
          /\ Told(t, "target", Succeeded(o))
          /\ Goto(t, AfterTarget(job[t], Succeeded(o)))
    BY <1>1 DEF SetMode
  <2>2. AfterTarget(job[t], Succeeded(o)) \in Labels \ {"store"}
    BY DEF AfterTarget, Labels
  <2>3. "target" \in Facts
    BY DEF Facts
  <2>4. TypeOK'
    <3>1. /\ mode' \in EcModes /\ ppm' = ppm /\ settling' \in BOOLEAN
          /\ took' \in [Threads -> SUBSET Facts]
      BY <2>1, <2>3, ModeInvokeTyped
    <3>2. claims' \in [Threads -> SUBSET Facts] /\ pc' \in [Threads -> Labels]
      BY <2>1, <2>2, <2>3, ToldTyped, LabelsGoto
    <3>. QED BY <1>1, <3>1, <3>2 DEF TypeOK, SetMode
  <2>5. UNCHANGED <<ppm, mirror, job, drift>>
    BY <1>1, <2>1, <2>3, ModeInvokeTyped DEF SetMode
  <2>. QED BY <1>1, <2>1, <2>2, <2>4, <2>5, QuietStep DEF SetMode
<1>2. CASE FallBack(t)
  <2>1. PICK o \in Outcomes :
          /\ ModeInvoke(t, "beast", Beast, o)
          /\ Told(t, "beast", Succeeded(o))
          /\ Goto(t, IF Succeeded(o) /\ job[t].hasPpm THEN "direct" ELSE "done")
    BY <1>2 DEF FallBack
  <2>. DEFINE next == IF Succeeded(o) /\ job[t].hasPpm THEN "direct" ELSE "done"
  <2>2. next \in Labels \ {"store"}
    BY DEF Labels
  <2>3. "beast" \in Facts
    BY DEF Facts
  <2>4. TypeOK'
    <3>1. /\ mode' \in EcModes /\ ppm' = ppm /\ settling' \in BOOLEAN
          /\ took' \in [Threads -> SUBSET Facts]
      BY <2>1, <2>3, ModeInvokeTyped
    <3>2. claims' \in [Threads -> SUBSET Facts] /\ pc' \in [Threads -> Labels]
      BY <2>1, <2>2, <2>3, ToldTyped, LabelsGoto
    <3>. QED BY <1>2, <3>1, <3>2 DEF TypeOK, FallBack
  <2>5. UNCHANGED <<ppm, mirror, job, drift>>
    BY <1>2, <2>1, <2>3, ModeInvokeTyped DEF FallBack
  <2>. QED BY <1>2, <2>1, <2>2, <2>4, <2>5, QuietStep DEF FallBack
<1>3. CASE SwitchToBeast(t)
  <2>1. PICK o \in Outcomes :
          /\ ModeInvoke(t, "beast", Beast, o)
          /\ Goto(t, IF Succeeded(o) THEN "sleep" ELSE "done")
          /\ IF Succeeded(o) THEN FallAsleep(t, 300) ELSE UNCHANGED unsettled
    BY <1>3 DEF SwitchToBeast
  <2>. DEFINE next == IF Succeeded(o) THEN "sleep" ELSE "done"
  <2>2. next \in Labels \ {"store"}
    BY DEF Labels
  <2>3. "beast" \in Facts
    BY DEF Facts
  <2>4. TypeOK'
    <3>1. /\ mode' \in EcModes /\ ppm' = ppm /\ settling' \in BOOLEAN
          /\ took' \in [Threads -> SUBSET Facts]
      BY <2>1, <2>3, ModeInvokeTyped
    <3>2. pc' \in [Threads -> Labels] /\ unsettled' \subseteq Threads
      BY <2>1, <2>2, LabelsGoto DEF TypeOK, FallAsleep
    <3>. QED BY <1>3, <3>1, <3>2 DEF TypeOK, SwitchToBeast
  <2>5. UNCHANGED <<ppm, mirror, job, drift>>
    BY <1>3, <2>1, <2>3, ModeInvokeTyped DEF SwitchToBeast
  <2>. QED BY <1>3, <2>1, <2>2, <2>4, <2>5, QuietStep DEF SwitchToBeast
<1>4. CASE \E f \in {"switch", "done"} :
             pc[t] \in {"direct", "retry"} /\ WritePpm(t, f)
  <2>1. PICK f \in {"switch", "done"} :
          pc[t] \in {"direct", "retry"} /\ WritePpm(t, f)
    BY <1>4
  <2>2. f \in Labels \ {"store"}
    BY DEF Labels
  <2>3. PICK o \in Outcomes :
          /\ PpmInvoke(t, job[t].level, o)
          /\ Told(t, "level", Succeeded(o))
          /\ Goto(t, IF Succeeded(o) THEN AfterWrite(job[t].level) ELSE f)
    BY <2>1 DEF WritePpm
  <2>. DEFINE next == IF Succeeded(o) THEN AfterWrite(job[t].level) ELSE f
  <2>4. next \in Labels
    BY <2>2 DEF Labels, AfterWrite
  <2>5. TypeOK'
    <3>1. /\ mode' = mode /\ settling' = settling
          /\ ppm' \in EcLevels \cup {Default}
          /\ took' \in [Threads -> SUBSET Facts] /\ drift' \subseteq Causes
      BY <2>3, PpmInvokeTyped
    <3>2. claims' \in [Threads -> SUBSET Facts] /\ pc' \in [Threads -> Labels]
      <4>1. "level" \in Facts
        BY DEF Facts
      <4>. QED BY <2>3, <2>4, <4>1, ToldTyped, LabelsGoto
    <3>. QED BY <2>1, <3>1, <3>2 DEF TypeOK, WritePpm
  <2>. QED BY <2>1, <2>2, <2>5, WriteStep
<1>5. CASE WakeUp(t)
  <2>1. TypeOK'
    BY <1>5, LabelsGoto DEF TypeOK, WakeUp, Labels
  <2>. QED BY <1>5, <2>1, QuietStep DEF WakeUp, Labels
<1>6. CASE StoreMirror(t)
  <2>1. mirror' \in EcLevels /\ StoredLevelsInRange' /\ NoDriftMeansExact'
    BY <1>6, StoreStep
  <2>2. pc' \in [Threads -> Labels]
    BY <1>6, LabelsGoto DEF StoreMirror, Labels
  <2>. QED BY <1>6, <2>1, <2>2 DEF TypeOK, StoreMirror
<1>7. CASE Return(t)
  <2>1. TypeOK'
    <3>1. NoJob \in JobType
      BY DEF NoJob, JobType, Ops
    <3>2. pc' \in [Threads -> Labels]
      BY <1>7, LabelsGoto DEF Return, Leave, Labels
    <3>. QED BY <1>7, <3>1, <3>2 DEF TypeOK, Return, Leave
  <2>2. \A u \in Threads \ {t} : job'[u] = job[u]
    BY <1>7 DEF TypeOK, Return, Leave
  <2>. QED BY <1>7, <2>1, <2>2, QuietStep DEF Return, Leave, Labels
<1>. QED BY <1>1, <1>2, <1>3, <1>4, <1>5, <1>6, <1>7
         DEF Step, DirectWrite, RetryWrite

\* A step of nobody changes nothing the invariants speak of.
LEMMA StutterPreserves ==
    ASSUME MirrorInv, UNCHANGED vars
    PROVE  MirrorInv'
BY DEF MirrorInv, TypeOK, StoredLevelsInRange, NoDriftMeansExact, Storing, vars

LEMMA NextPreserves == MirrorInv /\ [Next]_vars => MirrorInv'
<1>. SUFFICES ASSUME MirrorInv, [Next]_vars PROVE MirrorInv'
  OBVIOUS
<1>1. CASE EcSettle
  BY <1>1, SettlePreserves
<1>2. ASSUME NEW t \in Threads, Step(t) PROVE MirrorInv'
  BY <1>2, StepPreserves
<1>3. ASSUME NEW t \in Threads, NEW j \in Jobs, Call(t, j) PROVE MirrorInv'
  BY <1>3, CallPreserves
<1>4. CASE UNCHANGED vars
  BY <1>4, StutterPreserves
<1>. QED BY <1>1, <1>2, <1>3, <1>4 DEF Next

\* A call is told of nothing the EC did not take from it: the steps that add a
\* claim do so on the answer of the command that adds the same fact to took.
LEMMA ReplyHonestPreserved ==
    ASSUME TypeOK, ReplyHonest, [Next]_vars
    PROVE  ReplyHonest'
<1>1. ASSUME NEW t \in Threads, NEW f, NEW o \in Outcomes, Told(t, f, Succeeded(o)),
             \/ took' = [took EXCEPT ![t] = @ \cup {f}]
             \/ o # "taken" /\ took' = took
      PROVE  ReplyHonest'
  BY <1>1 DEF TypeOK, ReplyHonest, Told, Succeeded
<1>2. ASSUME NEW t \in Threads, SetMode(t) PROVE ReplyHonest'
  BY <1>1, <1>2 DEF SetMode, ModeInvoke, SwitchTo
<1>3. ASSUME NEW t \in Threads, FallBack(t) PROVE ReplyHonest'
  BY <1>1, <1>3 DEF FallBack, ModeInvoke, SwitchTo
<1>4. ASSUME NEW t \in Threads, NEW next, WritePpm(t, next) PROVE ReplyHonest'
  BY <1>1, <1>4 DEF WritePpm, PpmInvoke
<1>5. ASSUME NEW t \in Threads, SwitchToBeast(t) PROVE ReplyHonest'
  BY <1>5 DEF TypeOK, ReplyHonest, SwitchToBeast, ModeInvoke, SwitchTo
<1>6. ASSUME NEW t \in Threads, Return(t) PROVE ReplyHonest'
  BY <1>6 DEF TypeOK, ReplyHonest, Return, Leave
<1>7. ASSUME UNCHANGED <<claims, took>> PROVE ReplyHonest'
  BY <1>7 DEF ReplyHonest
<1>. QED BY <1>2, <1>3, <1>4, <1>5, <1>6, <1>7
         DEF Next, Step, DirectWrite, RetryWrite, WakeUp, StoreMirror, Call,
             EcSettle, vars

-----------------------------------------------------------------------------
(* Theorems.                                                               *)

\* The variables keep their types: the EC in a mode and at a level it has, and
\* g_lastPpm never at a level outside 0..4 although callers may send one.
THEOREM TypeCorrect == Spec => []TypeOK
<1>1. Init => MirrorInv
  BY InitInv
<1>2. MirrorInv => TypeOK
  BY DEF MirrorInv
<1>. QED BY <1>1, <1>2, NextPreserves, PTL DEF Spec

\* g_lastPpm equals the level in force whenever no store is outstanding and
\* none of the four causes of drift has struck since the last clean write, for
\* any number of concurrent callers.
THEOREM MirrorIsExplained == Spec => []MirrorExplained
<1>1. Init => MirrorInv
  BY InitInv
<1>2. MirrorInv => MirrorExplained
  BY DEF MirrorInv, NoDriftMeansExact, MirrorExplained
<1>. QED BY <1>1, <1>2, NextPreserves, PTL DEF Spec

\* No reply claims more than the EC took from its call.
THEOREM RepliesAreHonest == Spec => []ReplyHonest
<1>1. Init => ReplyHonest
  BY InitInv
<1>2. TypeOK /\ ReplyHonest /\ [Next]_vars => ReplyHonest'
  BY ReplyHonestPreserved
<1>. QED BY <1>1, <1>2, TypeCorrect, PTL DEF Spec

\* A profile that was told its non-beast target is set has nothing left to do.
TargetDone(t) ==
    /\ pc[t] \in {"idle", "mode"} => claims[t] = {}
    /\ /\ job[t].op = "profile" /\ job[t].mode # Beast /\ "target" \in claims[t]
       => pc[t] = "done"

LEMMA TargetDonePreserved ==
    ASSUME TypeOK, \A t \in Threads : TargetDone(t), [Next]_vars
    PROVE  \A t \in Threads : TargetDone(t)'
<1>1. ASSUME NEW t \in Threads, TargetDone(t)',
             pc' = [pc EXCEPT ![t] = pc'[t]], job' = [job EXCEPT ![t] = job'[t]],
             claims' = [claims EXCEPT ![t] = claims'[t]]
      PROVE  \A u \in Threads : TargetDone(u)'
  BY <1>1 DEF TypeOK, TargetDone
<1>2. ASSUME NEW t \in Threads, SetMode(t) PROVE \A u \in Threads : TargetDone(u)'
  <2>1. TargetDone(t)'
    BY <1>2 DEF TypeOK, TargetDone, SetMode, Told, Goto, AfterTarget, Facts
  <2>. QED BY <1>1, <1>2, <2>1 DEF TypeOK, SetMode, Told, Goto
<1>3. ASSUME NEW t \in Threads, FallBack(t) PROVE \A u \in Threads : TargetDone(u)'
  <2>1. TargetDone(t)'
    BY <1>3 DEF TypeOK, TargetDone, FallBack, Told, Goto
  <2>. QED BY <1>1, <1>3, <2>1 DEF TypeOK, FallBack, Told, Goto
<1>4. ASSUME NEW t \in Threads, NEW f \in {"switch", "done"},
             pc[t] \in {"direct", "retry"}, WritePpm(t, f)
      PROVE  \A u \in Threads : TargetDone(u)'
  <2>1. TargetDone(t)'
    BY <1>4 DEF TypeOK, TargetDone, WritePpm, AfterWrite, Told, Goto
  <2>. QED BY <1>1, <1>4, <2>1 DEF TypeOK, WritePpm, Told, Goto
<1>5. ASSUME NEW t \in Threads, SwitchToBeast(t) PROVE \A u \in Threads : TargetDone(u)'
  <2>1. TargetDone(t)'
    BY <1>5 DEF TypeOK, TargetDone, SwitchToBeast, Goto
  <2>. QED BY <1>1, <1>5, <2>1 DEF TypeOK, SwitchToBeast, Goto
<1>6. ASSUME NEW t \in Threads, WakeUp(t) \/ StoreMirror(t) \/ Return(t)
      PROVE  \A u \in Threads : TargetDone(u)'
  <2>1. TargetDone(t)'
    BY <1>6 DEF TypeOK, TargetDone, WakeUp, StoreMirror, Return, Leave, Goto
  <2>. QED BY <1>1, <1>6, <2>1 DEF TypeOK, WakeUp, StoreMirror, Return, Leave, Goto
<1>7. ASSUME NEW t \in Threads, NEW j \in Jobs, Call(t, j)
      PROVE  \A u \in Threads : TargetDone(u)'
  <2>1. TargetDone(t)'
    BY <1>7 DEF TypeOK, TargetDone, Call, FirstLabel, Goto
  <2>. QED BY <1>1, <1>7, <2>1 DEF TypeOK, Call, Goto
<1>8. ASSUME UNCHANGED <<pc, job, claims>> PROVE \A u \in Threads : TargetDone(u)'
  BY <1>8 DEF TargetDone
<1>. QED BY <1>2, <1>3, <1>4, <1>5, <1>6, <1>7, <1>8
         DEF Next, Step, DirectWrite, RetryWrite, EcSettle, vars

\* A profile whose target - not beast - is confirmed writes nothing more: it can
\* not reach hc_set_ppm's automatic switch to beast.
THEOREM TargetStays == Spec => TargetIsKept
<1>. DEFINE Inv == TypeOK /\ \A t \in Threads : TargetDone(t)
            Kept == \A t \in Threads :
                      /\ pc[t] # pc'[t] /\ pc[t] # "idle"
                      /\ job[t].op = "profile" /\ job[t].mode # Beast
                      /\ "target" \in claims[t]
                      => UNCHANGED <<ec, mirror>>
<1>1. Init => \A t \in Threads : TargetDone(t)
  BY DEF Init, TargetDone
<1>2. Inv /\ [Next]_vars => (\A t \in Threads : TargetDone(t))'
  BY TargetDonePreserved
<1>3. Inv /\ [Next]_vars => [Kept]_vars
  <2>. SUFFICES ASSUME Inv, Next, NEW t \in Threads, pc[t] # pc'[t], pc[t] = "done"
                PROVE  UNCHANGED <<ec, mirror>>
    BY DEF TargetDone
  <2>1. ASSUME NEW u \in Threads, Step(u) PROVE u = t
    BY <2>1 DEF Step, SetMode, FallBack, DirectWrite, RetryWrite, WritePpm,
                SwitchToBeast, WakeUp, StoreMirror, Return, Leave, Goto, TypeOK
  <2>2. ASSUME NEW u \in Threads, NEW j \in Jobs, Call(u, j) PROVE FALSE
    BY <2>2 DEF Call, Goto, TypeOK
  <2>3. Step(t)
    BY <2>1, <2>2 DEF Next, EcSettle
  <2>4. Return(t)
    BY <2>3 DEF Step, SetMode, FallBack, DirectWrite, RetryWrite, SwitchToBeast,
                WakeUp, StoreMirror
  <2>. QED BY <2>4 DEF Return, Leave, ec
<1>. QED BY <1>1, <1>2, <1>3, TypeCorrect, PTL DEF Spec, TargetIsKept
=============================================================================
