---------------------------- MODULE HardwareCore ----------------------------
(***************************************************************************)
(* The performance-mode and PPM path of the service: hc_set_perf_mode and  *)
(* hc_set_ppm of the core DLL, HardwareSetPpm with its g_lastPpm mirror    *)
(* and HardwareApplyProfile, called concurrently by pipe workers, menu     *)
(* jobs and trigger workers.                                               *)
(*                                                                         *)
(* The core serialises single WMI commands (Invoke holds g_mutex for one   *)
(* command and its retry), not whole operations: hc_set_ppm takes the lock *)
(* up to three times and sleeps in between, and the mirror is stored after *)
(* the last release.  Each step below is therefore one Invoke, one sleep   *)
(* or one store.                                                           *)
(*                                                                         *)
(* The embedded controller (EC) is external.  What the code says of it is  *)
(* modelled: PPM is writable only in beast mode, a mode is applied         *)
(* asynchronously and brings its own default PPM, and a level can not be   *)
(* read back.                                                              *)
(***************************************************************************)
EXTENDS Integers, FiniteSets

CONSTANTS Threads,    \* the concurrent callers
          ReqModes,   \* mode numbers a SetPerfMode request may carry
          ReqLevels,  \* level numbers a PPM request may carry
          SettleMs,   \* how long the EC takes to apply a mode
          Faulty      \* may a WMI call get lost or the EC refuse a command?

ASSUME RequestsAreInts == ReqModes \subseteq Int /\ ReqLevels \subseteq Int
ASSUME SettleIsNat     == SettleMs \in Nat
ASSUME FaultyIsBool    == Faulty \in BOOLEAN

Beast    == 3                \* kBeastPerfMode
EcModes  == {0, 1, 3}        \* smart, high, beast
EcLevels == 0..4
Default  == -1               \* the level a mode brings along; g_lastPpm's "unknown"
Ops      == {"perf", "ppm", "profile"}
JobType  == [op: Ops, mode: Int, hasPpm: BOOLEAN, level: Int]
NoJob    == [op |-> "perf", mode |-> 0, hasPpm |-> FALSE, level |-> 0]

\* Commands carry one byte: (uint8_t)(x & 0xFF).
Byte(x) == x % 256

\* The calls the service can receive.  SetPerfMode and SetPpm take any int32
\* off the wire; a profile id is one of three names, its level is any int32.
Jobs ==
    [op: {"perf"}, mode: ReqModes, hasPpm: {FALSE}, level: {0}] \cup
    [op: {"ppm"}, mode: {Beast}, hasPpm: {TRUE}, level: ReqLevels] \cup
    [op: {"profile"}, mode: EcModes, hasPpm: BOOLEAN, level: ReqLevels]

VARIABLES
    mode,       \* EC: the mode last accepted
    ppm,        \* EC: the level in force, Default when the mode chose it
    settling,   \* EC: a mode change is accepted and not applied yet
    unsettled,  \* sleeping threads whose sleep outlasts that change
    mirror,     \* g_lastPpm
    pc,         \* where each thread stands in its call
    job,        \* the call each thread makes
    claims,     \* what the call has been told it achieved
    took,       \* history: what the EC really accepted from the call
    drift       \* history: why mirror may differ from ppm

ec   == <<mode, ppm, settling>>
vars == <<mode, ppm, settling, unsettled, mirror, pc, job, claims, took, drift>>

Labels == {"idle", "mode", "fallback", "direct", "switch", "sleep", "retry",
           "store", "done"}
Facts  == {"target", "beast", "level"}
Causes == {"overlap", "range", "lost", "eaten"}

TypeOK ==
    /\ mode \in EcModes
    /\ ppm \in EcLevels \cup {Default}
    /\ settling \in BOOLEAN
    /\ unsettled \subseteq Threads
    /\ mirror \in EcLevels \cup {Default}
    /\ pc \in [Threads -> Labels]
    /\ job \in [Threads -> JobType]
    /\ claims \in [Threads -> SUBSET Facts]
    /\ took \in [Threads -> SUBSET Facts]
    /\ drift \subseteq Causes

Init ==
    /\ mode \in EcModes
    /\ ppm = Default
    /\ settling = FALSE
    /\ unsettled = {}
    /\ mirror = Default
    /\ pc = [t \in Threads |-> "idle"]
    /\ job = [t \in Threads |-> NoJob]
    /\ claims = [t \in Threads |-> {}]
    /\ took = [t \in Threads |-> {}]
    /\ drift = {}

-----------------------------------------------------------------------------
(* The EC, and one Invoke of it.                                           *)

\* A thread about to store the level it was told is in force.
Storing == {t \in Threads : pc[t] = "store"}

\* The EC accepts a mode from thread t; a change is applied later (EcSettle).
SwitchTo(t, fact, b) ==
    /\ mode' = b
    /\ settling' = (settling \/ b # mode)
    /\ took' = [took EXCEPT ![t] = @ \cup {fact}]
    /\ UNCHANGED ppm

\* The outcomes of one Invoke of the mode command: the EC took it and said so,
\* it refused, or both attempts failed - before or after the EC had acted.
ModeInvoke(t, fact, b, outcome) ==
    \/ outcome = "taken" /\ b \in EcModes /\ SwitchTo(t, fact, b)
    \/ outcome = "refused" /\ (Faulty \/ b \notin EcModes) /\ UNCHANGED <<ec, took>>
    \/ outcome = "lost" /\ Faulty /\ UNCHANGED <<ec, took>>
    \/ outcome = "lost" /\ Faulty /\ b \in EcModes /\ SwitchTo(t, fact, b)

PpmWritable(b) == mode = Beast /\ b \in EcLevels

\* History: a level reached the EC.  A clean one - in range, reported to its
\* caller, with no other store outstanding - ends an earlier drift.
NoteLevel(l, outcome) ==
    drift' = CASE outcome = "lost"   -> drift \cup {"lost"}
               [] l \notin EcLevels  -> drift \cup {"range"}
               [] Storing # {}       -> drift \cup {"overlap"}
               [] OTHER              -> {}

PpmInvoke(t, l, outcome) ==
    \/ /\ outcome = "taken" \/ (outcome = "lost" /\ Faulty)
       /\ PpmWritable(Byte(l))
       /\ ppm' = Byte(l)
       /\ took' = [took EXCEPT ![t] = @ \cup {"level"}]
       /\ NoteLevel(l, outcome)
       /\ UNCHANGED <<mode, settling>>
    \/ /\ outcome = "refused" /\ (Faulty \/ ~PpmWritable(Byte(l)))
       /\ UNCHANGED <<ec, took, drift>>
    \/ outcome = "lost" /\ Faulty /\ UNCHANGED <<ec, took, drift>>

Outcomes == {"taken", "refused", "lost"}

\* The EC applies the accepted mode, and with it the mode's default level.
EcSettle ==
    /\ settling
    /\ settling' = FALSE
    /\ ppm' = Default
    /\ unsettled' = {}
    /\ drift' = IF ppm = Default THEN drift ELSE drift \cup {"eaten"}
    /\ UNCHANGED <<mode, mirror, pc, job, claims, took>>

-----------------------------------------------------------------------------
(* The steps of a call.                                                    *)

Goto(t, label) == pc' = [pc EXCEPT ![t] = label]

\* Mutant: any answer counts as success, o[0] is not looked at.
SucceededOnAnyAnswer(outcome) == outcome # "lost"

\* The operation succeeded if the first byte of an answer that came back is 0.
Succeeded(outcome) == outcome = "taken"

\* The call is told of a success and remembers it for its reply.
Told(t, fact, ok) == claims' = [claims EXCEPT ![t] = IF ok THEN @ \cup {fact} ELSE @]

FirstLabel(j) == IF j.op = "ppm" THEN "direct" ELSE "mode"

\* A request, menu job or trigger worker enters the hardware layer.
Call(t, j) ==
    /\ pc[t] = "idle"
    /\ job' = [job EXCEPT ![t] = j]
    /\ Goto(t, FirstLabel(j))
    /\ UNCHANGED <<mode, ppm, settling, unsettled, mirror, claims, took, drift>>

\* Mutant: the level is written whatever the target is.
AfterTargetAlwaysPpm(j, ok) ==
    IF j.op = "perf" THEN "done"
    ELSE IF ok THEN (IF j.hasPpm THEN "direct" ELSE "done")
    ELSE (IF j.mode # Beast THEN "fallback" ELSE "done")

\* Where HardwareApplyProfile goes once the target mode is (not) set: a level
\* is written only in beast, a refused target falls back to beast.
AfterTarget(j, ok) ==
    IF j.op = "perf" THEN "done"
    ELSE IF ok THEN (IF j.hasPpm /\ j.mode = Beast THEN "direct" ELSE "done")
    ELSE (IF j.mode # Beast THEN "fallback" ELSE "done")

\* HardwareSetPerfMode(mode): the whole of a "perf" call, the first step of a
\* profile.
SetMode(t) ==
    /\ pc[t] = "mode"
    /\ \E outcome \in Outcomes :
        /\ ModeInvoke(t, "target", Byte(job[t].mode), outcome)
        /\ Told(t, "target", Succeeded(outcome))
        /\ Goto(t, AfterTarget(job[t], Succeeded(outcome)))
    /\ UNCHANGED <<unsettled, mirror, job, drift>>

\* HardwareApplyProfile's second chance: beast instead of the target.
FallBack(t) ==
    /\ pc[t] = "fallback"
    /\ \E outcome \in Outcomes :
        /\ ModeInvoke(t, "beast", Beast, outcome)
        /\ Told(t, "beast", Succeeded(outcome))
        /\ Goto(t, IF Succeeded(outcome) /\ job[t].hasPpm THEN "direct" ELSE "done")
    /\ UNCHANGED <<unsettled, mirror, job, drift>>

\* Mutant: the range of the level is not looked at.
AfterWriteStoreAll(l) == "store"

\* HardwareSetPpm after a successful write: a level in range is stored.
AfterWrite(l) == IF l \in EcLevels THEN "store" ELSE "done"

\* A PPM command of hc_set_ppm; on failure hc_set_ppm continues at onFailure.
WritePpm(t, onFailure) ==
    /\ \E outcome \in Outcomes :
        /\ PpmInvoke(t, job[t].level, outcome)
        /\ Told(t, "level", Succeeded(outcome))
        /\ Goto(t, IF Succeeded(outcome) THEN AfterWrite(job[t].level) ELSE onFailure)
    /\ UNCHANGED <<unsettled, mirror, job>>

DirectWrite(t) == pc[t] = "direct" /\ WritePpm(t, "switch")

\* Mutant: the level is stored without a success.
RetryStoresAnyway(t) == pc[t] = "retry" /\ WritePpm(t, AfterWrite(job[t].level))

RetryWrite(t)  == pc[t] = "retry" /\ WritePpm(t, "done")

\* Sleep(ms): a sleep that outlasts the settling time ends after EcSettle.
FallAsleep(t, ms) ==
    unsettled' = IF settling' /\ SettleMs <= ms THEN unsettled \cup {t} ELSE unsettled

\* hc_set_ppm: the direct write failed, so switch to beast, then Sleep(300).
SwitchToBeast(t) ==
    /\ pc[t] = "switch"
    /\ \E outcome \in Outcomes :
        /\ ModeInvoke(t, "beast", Beast, outcome)
        /\ Goto(t, IF Succeeded(outcome) THEN "sleep" ELSE "done")
        /\ IF Succeeded(outcome) THEN FallAsleep(t, 300) ELSE UNCHANGED unsettled
    /\ UNCHANGED <<mirror, job, claims, drift>>

\* The sleep ends.
WakeUp(t) ==
    /\ pc[t] = "sleep"
    /\ t \notin unsettled
    /\ Goto(t, "retry")
    /\ UNCHANGED <<mode, ppm, settling, unsettled, mirror, job, claims, took, drift>>

\* g_lastPpm.store, after hc_set_ppm has returned and every lock is released.
StoreMirror(t) ==
    /\ pc[t] = "store"
    /\ mirror' = job[t].level
    /\ Goto(t, "done")
    /\ UNCHANGED <<mode, ppm, settling, unsettled, job, claims, took, drift>>

\* The call returns to its caller and its locals are gone.
Leave(t) ==
    /\ Goto(t, "idle")
    /\ job' = [job EXCEPT ![t] = NoJob]
    /\ claims' = [claims EXCEPT ![t] = {}]
    /\ took' = [took EXCEPT ![t] = {}]
    /\ UNCHANGED <<mode, ppm, settling, mirror, drift>>

Return(t) == pc[t] = "done" /\ Leave(t) /\ UNCHANGED unsettled

Step(t) ==
    \/ SetMode(t) \/ FallBack(t) \/ DirectWrite(t) \/ SwitchToBeast(t)
    \/ WakeUp(t) \/ RetryWrite(t) \/ StoreMirror(t) \/ Return(t)

Next ==
    \/ EcSettle
    \/ \E t \in Threads : Step(t) \/ \E j \in Jobs : Call(t, j)

Spec == Init /\ [][Next]_vars

-----------------------------------------------------------------------------
(* Properties.                                                             *)

\* The mirror is exact, and when it is not there is a named reason: once
\* nobody is between an accepted write and its store, g_lastPpm equals the
\* level in force unless two SetPpm calls overlapped, a level outside 0..4 was
\* sent, a write whose reply was lost did reach the EC, or a mode change
\* replaced the level since the last clean write.
MirrorExplained == drift = {} /\ Storing = {} => mirror = ppm

\* What a reply claims, the EC really took from this very call: "switched",
\* "PPM = n" or "fell back to beast" is never reported on the strength of a
\* lost command, a refusal or an earlier step.
ReplyHonest == \A t \in Threads : claims[t] \subseteq took[t]

\* hc_set_ppm switches to beast by itself, so a profile must not reach it once
\* another target is confirmed: from then on the call leaves the EC alone.
TargetIsKept ==
    [][\A t \in Threads :
         /\ pc[t] # pc'[t] /\ pc[t] # "idle"
         /\ job[t].op = "profile" /\ job[t].mode # Beast
         /\ "target" \in claims[t]
         => UNCHANGED <<ec, mirror>>]_vars

\* The inductive strengthening of MirrorExplained: while there is no drift at
\* most one thread is about to store, and it stores the level in force.
StoredLevelsInRange == \A t \in Storing : job[t].level \in EcLevels
NoDriftMeansExact ==
    drift = {} => \/ Storing = {} /\ mirror = ppm
                  \/ \E t \in Threads : Storing = {t} /\ job[t].level = ppm
MirrorInv == TypeOK /\ StoredLevelsInRange /\ NoDriftMeansExact

\* hardware.cpp:44-46 holds a plain atomic to be enough for the mirror because
\* writers are serialised by the core's lock: overlapping calls alone (nothing
\* lost, out of range or replaced by a mode) then leave the mirror right.
PlainAtomicSuffices == drift \subseteq {"overlap"} /\ Storing = {} => mirror = ppm
=============================================================================
