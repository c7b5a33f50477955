------------------------- MODULE ServiceLife_proofs -------------------------
(* Proofs about ServiceLife, for any number of menu jobs, UI processes and   *)
(* modes.                                                                   *)
EXTENDS ServiceLife, FiniteSetTheorems, TLAPS

-----------------------------------------------------------------------------
(* The inductive invariant, part by part.                                  *)

ProcStates == {"none", "starting", "alive", "leaving", "dead"}
Ops        == Choices \cup {"none", "show", "final quit"}

LifeTypes ==
    /\ phase \in {"loop", "menu", "stop scan", "stop listener", "quit ui", "quitting",
                  "destroyed", "gone"}
    /\ pc \in [Users -> Labels]
    /\ op \in [Users -> Ops]
    /\ fresh \in [Users -> Uis \cup {NoUi}] /\ child \in Uis \cup {NoUi}
    /\ open \subseteq Uis
    /\ proc \in [Uis -> ProcStates]
    /\ menu \in Modes \cup {-1} /\ mode \in Modes /\ stale \subseteq Users
    /\ quitMsg \in {"none", "posted", "eaten"}
    /\ helper \in [Helpers -> {"running", "dead"}]
    /\ twice \subseteq Uis /\ shared \subseteq Uis /\ launched \subseteq Uis

\* The teardown passes a helper thread only when it is dead.
HelperInv ==
    /\ phase \notin {"loop", "menu", "stop scan"} => helper["scan"] = "dead"
    /\ phase \notin {"loop", "menu", "stop scan", "stop listener"}
         => helper["listener"] = "dead"

OneUi == \A p, q \in Alive : p = q

\* Handles are those of processes that were started.
LaunchInv ==
    /\ child \in launched \cup {NoUi}
    /\ \A t \in Users : fresh[t] \in launched \cup {NoUi}
    /\ \A p \in launched : proc[p] # "none"

\* No handle, or one two threads have worked on.
Excused(h) == h \in shared \cup {NoUi}

\* What thread t may rely on: the handle it has come for is as it found it, or
\* one that another thread has had a hand in.
Sound(t) ==
    /\ pc[t] = "install" => fresh[t] # NoUi /\ fresh[t] \in open \cup shared
    /\ pc[t] \in {"launch", "install"} => Excused(child)
    /\ pc[t] \in {"close", "release"} => Excused(child) \/ (child \in open /\ proc[child] = "dead")
    /\ pc[t] \in {"clear", "forget"} => Excused(child) \/ (child \notin open /\ proc[child] = "dead")

\* Thread t has launched p and is about to install its handle.
Holds(t, p) == pc[t] = "install" /\ fresh[t] = p

HandleInv ==
    /\ twice \subseteq shared
    /\ \A h \in Shared : Excused(h)
    /\ \A t \in Users : Sound(t)
    \* an open handle is child_ or about to be, and child_ is open or about to go
    /\ \A p \in open \ shared : p = child \/ \E t \in Users : Holds(t, p)
    /\ \/ Excused(child) \/ child \in open
       \/ \E t \in Users : pc[t] \in {"clear", "forget"}
    \* a UI that lives on is the one there is a handle on
    /\ \A p \in launched \ shared :
          proc[p] = "dead" \/ p = child \/ \E t \in Users : Holds(t, p)
    /\ Over => Excused(child)

\* The final quit runs through, and the main thread does nothing after it.
EndInv ==
    /\ phase = "quitting" /\ pc[Main] # "idle" =>
         /\ op[Main] = "final quit"
         /\ pc[Main] \in {"broadcast", "wait", "release", "forget"}
    /\ phase \in {"destroyed", "gone"} => pc[Main] = "idle"

\* An enabled PPM level goes with beast mode, or its picker counts as stale.
MenuInv ==
    /\ phase = "menu" /\ menu = Beast /\ Main \notin stale => mode = Beast
    /\ \A j \in Jobs : pc[j] = "write" /\ op[j] = "ppm" /\ j \notin stale => mode = Beast

LifeInv == LifeTypes /\ HelperInv /\ OneUi /\ LaunchInv /\ HandleInv /\ EndInv /\ MenuInv

AtWork == {"launch", "install", "close", "clear", "wait", "release", "forget"}

LEMMA NoUiIsNoUi == NoUi \notin Uis
BY DEF NoUi, Uis

-----------------------------------------------------------------------------
(* Threads in the coordinator.                                             *)

\* Its steps move one thread on and leave the others where they are; a thread that
\* only looks at child_ changes nothing; and what changes is child_, the handle the
\* thread holds, and what they stand for.
LEMMA CoordinatorTurns ==
    ASSUME LifeTypes, NEW t \in Users, CoordinatorStep(t)
    PROVE  /\ pc[t] \in AtWork \cup {"check", "broadcast"}
           /\ pc'[t] \in Labels \ {"write"} /\ pc' = [pc EXCEPT ![t] = pc'[t]]
           /\ op'[t] \in {op[t], "show", "none"} /\ op' = [op EXCEPT ![t] = op'[t]]
           /\ \A u \in Users \ {t} : fresh'[u] = fresh[u]
<1>. USE DEF LifeTypes, Labels, AtWork, Move
<1>1. CASE CheckNone(t)
  BY <1>1 DEF CheckNone, NotRunning
<1>2. CASE CheckRunning(t) \/ CheckDead(t) \/ CloseDead(t)
  BY <1>2 DEF CheckRunning, CheckDead, CloseDead
<1>3. CASE ClearDead(t)
  BY <1>3 DEF ClearDead, NotRunning
<1>4. CASE Launch(t)
  <2>1. Move(t, "launch", "install") \/ Move(t, "launch", "idle")
    BY <1>4, Zenon DEF Launch
  <2>2. \A u \in Users \ {t} : fresh'[u] = fresh[u]
    BY <1>4 DEF Launch
  <2>. QED BY <2>1, <2>2
<1>5. CASE Install(t)
  BY <1>5 DEF Install
<1>6. CASE Broadcast(t) \/ WaitAnswered(t) \/ WaitTimesOut(t)
  BY <1>6 DEF Broadcast, WaitAnswered, WaitTimesOut
<1>7. CASE Release(t) \/ Forget(t)
  BY <1>7 DEF Release, Forget
<1>. QED BY <1>1, <1>2, <1>3, <1>4, <1>5, <1>6, <1>7 DEF CoordinatorStep

LEMMA CoordinatorChanges ==
    ASSUME LifeTypes, NEW t \in Users, CoordinatorStep(t)
    PROVE  /\ pc[t] \in {"check", "broadcast"}
                => UNCHANGED <<fresh, child, open, proc, twice, launched>>
           /\ child' \in {child, NoUi} \/ (pc[t] = "install" /\ child' = fresh[t])
           /\ \/ fresh'[t] \in {fresh[t], NoUi} /\ launched' = launched /\ open' \subseteq open
              \/ /\ pc'[t] = "install" /\ fresh'[t] \in Uis
                 /\ launched' = launched \cup {fresh'[t]} /\ open' = open \cup {fresh'[t]}
           /\ open \subseteq open' \cup {child}
           /\ twice' \subseteq twice \cup ({child} \ {NoUi})
           /\ pc'[t] = "install" => fresh'[t] \in Uis
<1>. USE DEF LifeTypes, Move
<1>1. CASE CheckNone(t) \/ CheckRunning(t) \/ CheckDead(t)
  BY <1>1 DEF CheckNone, NotRunning, CheckRunning, CheckDead
<1>2. CASE CloseDead(t) \/ ClearDead(t)
  BY <1>2 DEF CloseDead, ClearDead, NotRunning, CloseHandle
<1>3. CASE Launch(t)
  BY <1>3 DEF Launch
<1>4. CASE Install(t)
  BY <1>4 DEF Install, CloseHandle
<1>5. CASE Broadcast(t) \/ WaitAnswered(t) \/ WaitTimesOut(t)
  BY <1>5 DEF Broadcast, WaitAnswered, WaitTimesOut
<1>6. CASE Release(t) \/ Forget(t)
  BY <1>6 DEF Release, Forget, CloseHandle, NoChild
<1>. QED BY <1>1, <1>2, <1>3, <1>4, <1>5, <1>6 DEF CoordinatorStep

LEMMA OthersStay ==
    ASSUME LifeTypes, NEW t \in Users, CoordinatorStep(t), NEW u \in Users \ {t}
    PROVE  pc'[u] = pc[u] /\ op'[u] = op[u] /\ fresh'[u] = fresh[u]
<1>1. /\ pc' = [pc EXCEPT ![t] = pc'[t]] /\ op' = [op EXCEPT ![t] = op'[t]]
      /\ fresh'[u] = fresh[u]
  BY CoordinatorTurns
<1>. QED BY <1>1 DEF LifeTypes

\* A step of the coordinator as a step of the system: what it works on beside
\* others goes on record.
CoordinatorActs(t) ==
    /\ CoordinatorStep(t)
    /\ UNCHANGED <<phase, tray, quitMsg, helper>>
    /\ shared' = shared \cup (Shared' \ {NoUi})

LEMMA CoordinatorTypes ==
    ASSUME LifeTypes, NEW t \in Users, CoordinatorActs(t)
    PROVE  LifeTypes'
<1>0. CoordinatorStep(t)
  BY DEF CoordinatorActs
<1>1. pc' \in [Users -> Labels] /\ op' \in [Users -> Ops]
  <2>1. pc'[t] \in Labels /\ op'[t] \in Ops
    BY <1>0, CoordinatorTurns DEF LifeTypes, Ops
  <2>2. pc' = [pc EXCEPT ![t] = pc'[t]] /\ op' = [op EXCEPT ![t] = op'[t]]
    BY <1>0, CoordinatorTurns
  <2>. QED BY <2>1, <2>2 DEF LifeTypes
<1>2. fresh' \in [Users -> Uis \cup {NoUi}]
  <2>1. \/ fresh' = fresh
        \/ \E p \in Uis \cup {NoUi} : fresh' = [fresh EXCEPT ![t] = p]
    BY <1>0
       DEF CoordinatorStep, CheckNone, CheckRunning, CheckDead, CloseDead, ClearDead,
           Launch, Install, Broadcast, WaitAnswered, WaitTimesOut, Release, Forget
  <2>. QED BY <2>1 DEF LifeTypes
<1>3. child' \in Uis \cup {NoUi} /\ open' \subseteq Uis /\ launched' \subseteq Uis
  <2>1. child' \in {child, NoUi, fresh[t]} /\ fresh'[t] \in Uis \cup {NoUi}
    BY <1>0, <1>2, CoordinatorChanges
  <2>2. open' \subseteq open \cup ({fresh'[t]} \cap Uis)
        /\ launched' \subseteq launched \cup ({fresh'[t]} \cap Uis)
    BY <1>0, CoordinatorChanges
  <2>. QED BY <2>1, <2>2 DEF LifeTypes
<1>4. proc' \in [Uis -> ProcStates]
  BY <1>0
     DEF LifeTypes, ProcStates, CoordinatorStep, CheckNone, CheckRunning, CheckDead, CloseDead,
         ClearDead, Launch, Install, Broadcast, WaitAnswered, WaitTimesOut, Release, Forget,
         Killed
<1>5. twice' \subseteq Uis
  BY <1>0, CoordinatorChanges DEF LifeTypes
<1>6. shared' \subseteq Uis
  <2>1. Shared' \subseteq Uis \cup {NoUi}
    BY <1>2, <1>3 DEF Shared
  <2>. QED BY <2>1 DEF CoordinatorActs, LifeTypes
<1>. QED BY <1>1, <1>2, <1>3, <1>4, <1>5, <1>6 DEF LifeTypes, tray, CoordinatorActs

\* Started processes keep running or die; a dead one stays dead.
LEMMA CoordinatorProcesses ==
    ASSUME LifeTypes, LaunchInv, OneUi, NEW t \in Users, CoordinatorStep(t)
    PROVE  OneUi' /\ LaunchInv' /\ \A p \in Uis : proc[p] = "dead" => proc'[p] = "dead"
<1>. child \in launched \cup {NoUi} /\ \A p \in launched : proc[p] # "none"
  BY DEF LaunchInv
<1>1. CASE Launch(t)
  <2>1. CASE UNCHANGED <<proc, fresh, open, launched>>
    BY <1>1, <2>1 DEF Launch, LaunchInv, OneUi, Alive
  <2>2. CASE ~UNCHANGED <<proc, fresh, open, launched>>
    <3>1. PICK p \in Uis :
            /\ proc[p] = "none" /\ proc' = [proc EXCEPT ![p] = "starting"]
            /\ fresh' = [fresh EXCEPT ![t] = p] /\ launched' = launched \cup {p}
      BY <1>1, <2>2 DEF Launch
    <3>2. \A q \in Uis : q # p => proc'[q] = proc[q]
      BY <3>1 DEF LifeTypes
    <3>3. proc'[p] = "starting" /\ child' = child
      BY <1>1, <3>1 DEF LifeTypes, Launch
    <3>4. \A u \in Users : fresh'[u] \in {fresh[u], p}
      BY <3>1 DEF LifeTypes
    <3>5. LaunchInv'
      BY <3>1, <3>2, <3>3, <3>4 DEF LaunchInv, LifeTypes
    <3>6. OneUi'
      BY <3>2, <3>3 DEF OneUi, Alive
    <3>. QED BY <3>1, <3>2, <3>5, <3>6
  <2>. QED BY <2>1, <2>2
<1>2. CASE WaitTimesOut(t)
  <2>1. UNCHANGED <<child, fresh, launched>> /\ \A p \in Uis : proc'[p] \in {proc[p], "dead"}
    BY <1>2 DEF WaitTimesOut, Killed, LifeTypes
  <2>. QED BY <2>1 DEF LifeTypes, LaunchInv, OneUi, Alive
<1>3. CASE ~Launch(t) /\ ~WaitTimesOut(t)
  <2>1. /\ UNCHANGED <<proc, launched>>
        /\ \A u \in Users : fresh'[u] \in {fresh[u], NoUi}
        /\ child' \in {child, NoUi, fresh[t]}
    BY <1>3
       DEF CoordinatorStep, CheckNone, CheckRunning, CheckDead, CloseDead, ClearDead,
           NotRunning, Install, Broadcast, WaitAnswered, Release, Forget, NoChild, LifeTypes
  <2>. QED BY <2>1 DEF LaunchInv, OneUi, Alive
<1>. QED BY <1>1, <1>2, <1>3

\* A thread at work beside another one: all handles in play are on record.
LEMMA CrowdKeeps ==
    ASSUME LifeTypes, LaunchInv, OneUi, HandleInv, NEW t \in Users, CoordinatorActs(t),
           NEW u \in Working, u # t, LifeTypes', Over' => Excused(child)'
    PROVE  HandleInv'
<1>0. CoordinatorStep(t) /\ shared \subseteq shared' /\ u \in Working' /\ u \in Users
      /\ \A h \in Shared' : Excused(h)'
  <2>1. CoordinatorStep(t) /\ shared' = shared \cup (Shared' \ {NoUi})
    BY DEF CoordinatorActs
  <2>2. pc'[u] = pc[u] /\ u \in Users
    BY <2>1, OthersStay DEF Working
  <2>. QED BY <2>1, <2>2 DEF Working, Excused
<1>1. \A v \in Users \ {t} : pc'[v] = pc[v] /\ fresh'[v] = fresh[v]
  BY <1>0, OthersStay
<1>2. \A p \in Uis : proc[p] = "dead" => proc'[p] = "dead"
  BY <1>0, CoordinatorProcesses
<1>3. CASE t \in Working \/ t \in Working'
  <2>1. t \in Working => Excused(child) /\ \A v \in Users : Excused(fresh[v])
    BY DEF HandleInv, Shared
  <2>2. t \in Working' => Excused(child)' /\ \A v \in Users : Excused(fresh[v])'
    BY <1>0 DEF Shared, Excused
  <2>3. t \notin Working => UNCHANGED <<fresh, child, open, proc, twice, launched>>
    BY <1>0, CoordinatorTurns, CoordinatorChanges DEF Working, AtWork
  <2>4. \A h : Excused(h) => Excused(h)'
    BY <1>0 DEF Excused
  <2>5. Excused(child)' /\ (\A v \in Users : Excused(fresh[v])')
    <3>1. CASE t \in Working'
      BY <3>1, <2>2
    <3>2. CASE t \notin Working'
      <4>1. pc'[t] # "install"
        BY <3>2 DEF Working
      <4>2. child' \in {child, NoUi, fresh[t]} /\ fresh'[t] \in {fresh[t], NoUi}
        BY <1>0, <4>1, CoordinatorChanges
      <4>. QED BY <1>1, <1>3, <2>1, <2>4, <3>2, <4>2 DEF Excused
    <3>. QED BY <3>1, <3>2
  <2>7. child \in shared' \cup {NoUi}
    BY <1>3, <2>1, <2>3, <2>4, <2>5 DEF Excused
  <2>8. \A v \in Users : fresh[v] \in shared' \cup {NoUi}
    BY <1>3, <2>1, <2>3, <2>4, <2>5 DEF Excused
  <2>9. twice' \subseteq shared'
    BY <1>0, <2>7, CoordinatorChanges DEF HandleInv
  <2>10. open' \subseteq shared'
    <3>1. \A p \in open \ shared : p = child \/ \E v \in Users : fresh[v] = p
      BY DEF HandleInv, Holds
    <3>2. open \subseteq shared'
      <4>1. NoUi \notin open
        BY NoUiIsNoUi DEF LifeTypes
      <4>. QED BY <1>0, <2>7, <2>8, <3>1, <4>1
    <3>3. open' \subseteq open \cup ({fresh'[t]} \cap Uis)
      BY <1>0, CoordinatorChanges
    <3>. QED BY <2>5, <3>2, <3>3, NoUiIsNoUi DEF Excused
  <2>11. \A v \in Users : Sound(v)'
    <3>. SUFFICES ASSUME NEW v \in Users PROVE Sound(v)'
      OBVIOUS
    <3>1. pc'[v] = "install" => fresh'[v] # NoUi
      <4>1. CASE v = t
        BY <1>0, <4>1, NoUiIsNoUi, CoordinatorChanges
      <4>2. CASE v # t
        BY <1>1, <4>2 DEF HandleInv, Sound
      <4>. QED BY <4>1, <4>2
    <3>. QED BY <2>5, <3>1 DEF Sound, Excused
  <2>12. \A p \in launched' \ shared' : proc'[p] = "dead"
    <3>. SUFFICES ASSUME NEW p \in launched', p \notin shared' PROVE proc'[p] = "dead"
      OBVIOUS
    <3>1. launched' \subseteq launched \cup {fresh'[t]} /\ p # NoUi
      BY <1>0, NoUiIsNoUi, CoordinatorChanges DEF LifeTypes
    <3>2. p \in launched \ shared /\ p \in Uis
      BY <1>0, <2>5, <3>1 DEF Excused, LifeTypes
    <3>3. p # child /\ \A v \in Users : fresh[v] # p
      BY <2>7, <2>8, <3>1
    <3>4. proc[p] = "dead"
      BY <3>2, <3>3 DEF HandleInv, Holds
    <3>. QED BY <1>2, <3>2, <3>4
  <2>. QED BY <1>0, <2>5, <2>9, <2>10, <2>11, <2>12 DEF HandleInv
<1>4. CASE t \notin Working /\ t \notin Working'
  <2>1. UNCHANGED <<fresh, child, open, proc, twice, launched>>
    BY <1>0, <1>4, CoordinatorTurns, CoordinatorChanges DEF Working, AtWork
  <2>2. pc[t] \notin AtWork /\ pc'[t] \notin AtWork
    BY <1>4 DEF Working, AtWork
  <2>3. \A v \in Users : Sound(v)'
    BY <1>0, <1>1, <2>1, <2>2 DEF HandleInv, Sound, Excused, AtWork
  <2>4. \A p : \A v \in Users : Holds(v, p) => Holds(v, p)'
    BY <1>1, <2>1, <2>2 DEF Holds, AtWork
  <2>5. \A v \in Users : pc[v] \in {"clear", "forget"} => pc'[v] \in {"clear", "forget"}
    BY <1>1, <2>2 DEF AtWork
  <2>. QED BY <1>0, <2>1, <2>3, <2>4, <2>5 DEF HandleInv, Excused
<1>. QED BY <1>3, <1>4

\* What a thread that is alone at work knows of the handles.
OneKnows(t) ==
    /\ Sound(t)
    /\ \A p \in open \ shared : p = child \/ Holds(t, p)
    /\ Excused(child) \/ child \in open \/ pc[t] \in {"clear", "forget"}
    /\ \A p \in launched \ shared : proc[p] = "dead" \/ p = child \/ Holds(t, p)

\* It comes to close the handle only when the process is dead.
LEMMA FoundDead ==
    ASSUME LifeTypes, LaunchInv, NEW t, OneKnows(t), ~PollRunning,
           pc[t] \notin {"clear", "forget"}
    PROVE  Excused(child) \/ (child \in open /\ proc[child] = "dead")
BY DEF OneKnows, PollRunning, Running, LifeTypes, ProcStates, LaunchInv, Excused

LEMMA AloneSteps ==
    ASSUME LifeTypes, LaunchInv, NEW t \in Users, CoordinatorStep(t), OneKnows(t),
           shared \subseteq shared', NoUi \notin shared'
    PROVE  OneKnows(t)' /\ twice' \subseteq twice \cup shared
<1>. USE DEF LifeTypes, Move, Holds
<1>0. NoUi \notin Uis /\ \A h : Excused(h) => Excused(h)'
  BY NoUiIsNoUi DEF Excused
<1>1. CASE CheckNone(t)
  BY <1>0, <1>1 DEF CheckNone, NotRunning, OneKnows, Sound, Excused
<1>2. CASE CheckRunning(t)
  BY <1>0, <1>2 DEF CheckRunning, OneKnows, Sound, Excused
<1>3. CASE CheckDead(t)
  <2>1. Excused(child) \/ (child \in open /\ proc[child] = "dead")
    BY <1>3, FoundDead DEF CheckDead
  <2>. QED BY <1>0, <1>3, <2>1 DEF CheckDead, OneKnows, Sound, Excused
<1>4. CASE CloseDead(t) \/ Release(t)
  <2>1. Excused(child) \/ (child \in open /\ proc[child] = "dead")
    BY <1>4 DEF CloseDead, Release, OneKnows, Sound
  <2>2. /\ open' = open \ {child} /\ twice' = twice \cup ({child} \ (open \cup {NoUi}))
        /\ pc[t] \in {"close", "release"} /\ pc'[t] \in {"clear", "forget"}
        /\ UNCHANGED <<child, proc, fresh, launched>>
    BY <1>4 DEF CloseDead, Release, CloseHandle
  <2>3. Sound(t)'
    BY <1>0, <2>1, <2>2 DEF Sound, Excused
  <2>4. \A p \in open' \ shared' : p = child'
    BY <2>2 DEF OneKnows
  <2>. QED BY <1>0, <2>1, <2>2, <2>3, <2>4 DEF OneKnows, Excused
<1>5. CASE ClearDead(t) \/ Forget(t)
  <2>1. Excused(child) \/ (child \notin open /\ proc[child] = "dead")
    BY <1>5 DEF ClearDead, Forget, OneKnows, Sound
  <2>2. /\ child' = NoUi /\ UNCHANGED <<open, twice, proc, fresh, launched>>
        /\ pc[t] \in {"clear", "forget"} /\ pc'[t] \notin {"install", "close", "release"}
    BY <1>5 DEF ClearDead, NotRunning, Forget, NoChild
  <2>3. Sound(t)'
    BY <2>2 DEF Sound, Excused
  <2>. QED BY <1>0, <2>1, <2>2, <2>3 DEF OneKnows, Excused
<1>6. CASE Launch(t)
  <2>1. Excused(child) /\ UNCHANGED <<child, twice>> /\ pc[t] = "launch"
    BY <1>6 DEF Launch, OneKnows, Sound
  <2>2. CASE pc'[t] = "install"
    <3>1. PICK p \in Uis : /\ proc' = [proc EXCEPT ![p] = "starting"] /\ proc[p] = "none"
                           /\ fresh' = [fresh EXCEPT ![t] = p] /\ open' = open \cup {p}
                           /\ launched' = launched \cup {p}
      BY <1>6, <2>2 DEF Launch
    <3>2. fresh'[t] = p /\ p # NoUi /\ \A q \in Uis : q # p => proc'[q] = proc[q]
      BY <1>0, <3>1
    <3>3. Sound(t)'
      BY <1>0, <2>1, <2>2, <3>1, <3>2 DEF Sound, Excused
    <3>4. \A q \in launched' \ shared' : q = p \/ proc'[q] = "dead" \/ q = child'
      BY <2>1, <3>1, <3>2 DEF OneKnows
    <3>. QED BY <1>0, <2>1, <2>2, <3>1, <3>2, <3>3, <3>4 DEF OneKnows, Excused
  <2>3. CASE pc'[t] # "install"
    <3>1. pc'[t] = "idle" /\ UNCHANGED <<open, proc, fresh, launched>>
      BY <1>6, <2>3 DEF Launch
    <3>. QED BY <1>0, <2>1, <3>1 DEF OneKnows, Sound, Excused
  <2>. QED BY <2>2, <2>3
<1>7. CASE Install(t)
  <2>1. Excused(child) /\ fresh[t] # NoUi /\ fresh[t] \in open \cup shared
    BY <1>7 DEF Install, OneKnows, Sound
  <2>2. /\ open' = open \ {child} /\ twice' = twice \cup ({child} \ (open \cup {NoUi}))
        /\ child' = fresh[t] /\ pc[t] = "install" /\ pc'[t] = "idle"
        /\ UNCHANGED <<proc, launched>>
    BY <1>7 DEF Install, CloseHandle
  <2>3. Excused(child)' \/ child' \in open'
    BY <1>0, <2>1, <2>2 DEF Excused
  <2>4. Sound(t)'
    BY <2>2 DEF Sound
  <2>5. \A p \in open' \ shared' : p = child'
    BY <2>2 DEF OneKnows
  <2>6. \A p \in launched' \ shared' : proc'[p] = "dead" \/ p = child'
    BY <1>0, <2>1, <2>2 DEF OneKnows, Excused
  <2>. QED BY <2>1, <2>2, <2>3, <2>4, <2>5, <2>6 DEF OneKnows, Excused
<1>8. CASE Broadcast(t) \/ WaitAnswered(t)
  <2>1. /\ pc'[t] # "wait" => Excused(child) \/ (child \in open /\ proc[child] = "dead")
        /\ UNCHANGED <<fresh, child, open, proc, twice, launched>>
        /\ pc[t] \in {"broadcast", "wait"} /\ pc'[t] \in {"wait", "release"}
    BY <1>8, FoundDead DEF Broadcast, WaitAnswered
  <2>. QED BY <1>0, <2>1 DEF OneKnows, Sound, Excused
<1>9. CASE WaitTimesOut(t)
  <2>1. /\ UNCHANGED <<fresh, child, open, twice, launched>>
        /\ proc' = IF child \in open THEN Killed(child) ELSE proc
        /\ pc[t] = "wait" /\ pc'[t] = "release"
    BY <1>9 DEF WaitTimesOut
  <2>2. /\ \A p \in Uis : proc[p] = "dead" => proc'[p] = "dead"
        /\ Excused(child) \/ (child \in open /\ proc'[child] = "dead")
    BY <2>1 DEF Killed, OneKnows
  <2>. QED BY <1>0, <2>1, <2>2 DEF OneKnows, Sound, Excused
<1>. QED BY <1>1, <1>2, <1>3, <1>4, <1>5, <1>6, <1>7, <1>8, <1>9 DEF CoordinatorStep

LEMMA AloneKeeps ==
    ASSUME LifeTypes, LaunchInv, HandleInv, NEW t \in Users, CoordinatorActs(t),
           Working \subseteq {t}, LifeTypes', Over' => Excused(child)'
    PROVE  HandleInv'
<1>0. /\ CoordinatorStep(t) /\ shared \subseteq shared' /\ NoUi \notin shared'
      /\ \A h \in Shared' : Excused(h)'
  BY NoUiIsNoUi DEF CoordinatorActs, Excused, LifeTypes
<1>1. \A v \in Users \ {t} : /\ pc[v] \notin AtWork
                             /\ pc'[v] \notin AtWork
  <2>1. \A v \in Users \ {t} : pc'[v] = pc[v]
    BY <1>0, OthersStay
  <2>. QED BY <2>1 DEF Working, AtWork
<1>2. /\ \A v \in Users \ {t} : pc[v] \notin {"install", "clear", "forget"}
      /\ \A v \in Users \ {t} : Sound(v)'
  BY <1>1 DEF AtWork, Sound
<1>3. OneKnows(t)
  <2>1. \A p : (\E v \in Users : Holds(v, p)) => Holds(t, p)
    BY <1>2 DEF Holds
  <2>2. (\E v \in Users : pc[v] \in {"clear", "forget"}) => pc[t] \in {"clear", "forget"}
    BY <1>2
  <2>. QED BY <2>1, <2>2 DEF HandleInv, OneKnows
<1>4. OneKnows(t)' /\ twice' \subseteq twice \cup shared
  BY <1>0, <1>3, AloneSteps
<1>5. twice' \subseteq shared' /\ \A v \in Users : Sound(v)'
  BY <1>0, <1>2, <1>4 DEF HandleInv, OneKnows
<1>. QED BY <1>0, <1>4, <1>5 DEF HandleInv, OneKnows

LEMMA CoordinatorKeeps ==
    ASSUME LifeInv, NEW t \in Users, CoordinatorActs(t)
    PROVE  LifeInv'
<1>. LifeTypes /\ HelperInv /\ OneUi /\ LaunchInv /\ HandleInv /\ EndInv /\ MenuInv
  BY DEF LifeInv
<1>. Main \in Users /\ CoordinatorStep(t) /\ UNCHANGED <<phase, tray, quitMsg, helper>>
  BY DEF Users, CoordinatorActs
<1>1. LifeTypes' /\ OneUi' /\ LaunchInv'
  BY CoordinatorTypes, CoordinatorProcesses
<1>2. HelperInv'
  BY DEF HelperInv
<1>3. /\ pc[t] \in AtWork \cup {"check", "broadcast"} /\ pc'[t] # "write"
      /\ \A u \in Users \ {t} : pc'[u] = pc[u] /\ op'[u] = op[u]
  BY CoordinatorTurns, OthersStay
<1>4. MenuInv'
  BY <1>3 DEF MenuInv, tray, Users
\* the main thread takes the steps of the final quit, to the end
<1>5. ASSUME t = Main, phase = "quitting"
      PROVE  \/ op'[Main] = "final quit" /\ pc'[Main] \in {"wait", "release", "forget"}
             \/ pc'[Main] = "idle" /\ child' = NoUi
  <2>1. op[t] = "final quit" /\ pc[t] \in {"broadcast", "wait", "release", "forget"}
    BY <1>3, <1>5 DEF EndInv, AtWork
  <2>2. Broadcast(t) \/ WaitAnswered(t) \/ WaitTimesOut(t) \/ Release(t) \/ Forget(t)
    BY <2>1 DEF CoordinatorStep, CheckNone, CheckRunning, CheckDead, CloseDead, ClearDead,
                Launch, Install, Move
  <2>. QED BY <1>5, <2>1, <2>2
           DEF Broadcast, WaitAnswered, WaitTimesOut, Release, Forget, Move, NoChild, LifeTypes
<1>6. phase \in {"destroyed", "gone"} => t # Main
  BY <1>3 DEF EndInv, AtWork
<1>7. EndInv'
  BY <1>3, <1>5, <1>6 DEF EndInv
<1>8. Over' => Excused(child)'
  <2>. SUFFICES ASSUME Over' PROVE Excused(child)'
    OBVIOUS
  <2>0. shared \subseteq shared' /\ \A h \in Shared' : Excused(h)'
    BY DEF CoordinatorActs, Excused
  <2>1. CASE t = Main
    <3>1. phase = "quitting"
      BY <1>6, <2>1 DEF Over
    <3>. QED BY <1>5, <2>1, <3>1 DEF Over, Excused
  <2>2. CASE t # Main
    <3>1. Over /\ Excused(child)
      BY <1>3, <2>2 DEF Over, HandleInv
    <3>2. pc[t] = "install" => Excused(fresh[t])
      BY <3>1 DEF HandleInv, Shared, Working
    <3>3. child' \in {child, NoUi} \/ (pc[t] = "install" /\ child' = fresh[t])
      BY CoordinatorChanges
    <3>. QED BY <2>0, <3>1, <3>2, <3>3 DEF Excused
  <2>. QED BY <2>1, <2>2
<1>9. HandleInv'
  <2>1. CASE Working \subseteq {t}
    BY <1>1, <1>8, <2>1, AloneKeeps
  <2>2. ASSUME NEW u \in Working, u # t PROVE HandleInv'
    BY <1>1, <1>8, <2>2, CrowdKeeps
  <2>. QED BY <2>1, <2>2
<1>. QED BY <1>1, <1>2, <1>4, <1>7, <1>9 DEF LifeInv

-----------------------------------------------------------------------------
(* The other actions.                                                      *)

\* Steps that leave the threads at work and their handles alone; UI processes may
\* come and go.
LEMMA AwayKeepsHandles ==
    ASSUME LifeTypes, HandleInv,
           UNCHANGED <<fresh, child, open, twice, shared, launched>>,
           \A p \in Uis : proc[p] = "dead" => proc'[p] = "dead",
           \A t \in Users : pc'[t] = pc[t] \/ (pc[t] \notin AtWork /\ pc'[t] \notin AtWork),
           Over' => Over
    PROVE  HandleInv'
<1>1. Working' = Working
  BY DEF Working, AtWork
<1>2. /\ \A h \in Shared' : Excused(h)'
      /\ \A h : Excused(h) <=> Excused(h)'
  BY <1>1 DEF HandleInv, Shared, Excused
<1>3. \A t \in Users : Sound(t)'
  BY DEF HandleInv, Sound, Excused, AtWork, LifeTypes
<1>4. \A p : \A t \in Users : Holds(t, p) <=> Holds(t, p)'
  BY DEF Holds, AtWork
<1>5. \A t \in Users : pc[t] \in {"clear", "forget"} => pc'[t] \in {"clear", "forget"}
  BY DEF AtWork
<1>6. \A p \in launched' \ shared' :
        proc'[p] = "dead" \/ p = child' \/ \E t \in Users : Holds(t, p)'
  BY <1>4 DEF HandleInv, LifeTypes
<1>. QED BY <1>2, <1>3, <1>4, <1>5, <1>6 DEF HandleInv

LEMMA AwayKeeps ==
    ASSUME LifeTypes, OneUi, LaunchInv, HandleInv,
           UNCHANGED <<fresh, child, open, proc, twice, shared, launched>>,
           \A t \in Users : pc'[t] = pc[t] \/ (pc[t] \notin AtWork /\ pc'[t] \notin AtWork),
           Over' => Over
    PROVE  OneUi' /\ LaunchInv' /\ HandleInv'
<1>1. OneUi' /\ LaunchInv'
  BY DEF OneUi, Alive, LaunchInv
<1>. QED BY <1>1, AwayKeepsHandles

\* UI processes come and go by themselves; a dead one stays dead.
LEMMA ProcessesKeep ==
    ASSUME LifeInv, UserStartsUi \/ \E p \in Uis : UiStarts(p) \/ UiLeaves(p) \/ UiEnds(p)
    PROVE  LifeInv'
<1>. LifeTypes /\ HelperInv /\ OneUi /\ LaunchInv /\ HandleInv /\ EndInv /\ MenuInv
  BY DEF LifeInv
<1>1. UNCHANGED <<phase, pc, op, fresh, child, open, twice, shared, launched, tray,
                  quitMsg, helper>>
  BY DEF UserStartsUi, UiStarts, UiLeaves, UiEnds
<1>2. PICK p \in Uis :
        \/ proc[p] = "none" /\ proc' = [proc EXCEPT ![p] = "starting"]
        \/ /\ proc[p] = "starting"
           /\ proc' = [proc EXCEPT ![p] = IF Alive = {} THEN "alive" ELSE "dead"]
        \/ proc[p] = "alive" /\ proc' = [proc EXCEPT ![p] = "leaving"]
        \/ proc[p] \in {"alive", "leaving"} /\ proc' = [proc EXCEPT ![p] = "dead"]
  BY DEF UserStartsUi, UiStarts, UiLeaves, UiEnds
<1>3. LifeTypes' /\ HelperInv' /\ EndInv' /\ MenuInv'
  <2>1. proc' \in [Uis -> ProcStates]
    BY <1>2 DEF LifeTypes, ProcStates
  <2>2. LifeTypes'
    BY <1>1, <2>1 DEF LifeTypes, tray
  <2>. QED BY <1>1, <2>2 DEF HelperInv, EndInv, MenuInv, tray
<1>4. \A q \in Uis : /\ proc[q] = "dead" => proc'[q] = "dead"
                     /\ proc[q] # "none" => proc'[q] # "none"
                     /\ proc'[q] = "alive" => proc[q] = "alive" \/ (q = p /\ Alive = {})
  BY <1>2 DEF LifeTypes
<1>5. OneUi'
  BY <1>4 DEF OneUi, Alive
<1>6. LaunchInv'
  BY <1>1, <1>4 DEF LaunchInv, LifeTypes
<1>7. HandleInv'
  BY <1>1, <1>4, AwayKeepsHandles DEF Over
<1>. QED BY <1>3, <1>5, <1>6, <1>7 DEF LifeInv

\* A thread enters the coordinator.
LEMMA BeginKeeps ==
    ASSUME LifeTypes, OneUi, LaunchInv, HandleInv,
           NEW t \in Users, NEW o \in Ops,
           NEW l \in {"check", "broadcast"}, Begin(t, o, l), pc[t] = "idle", Over' => Over
    PROVE  /\ OneUi' /\ LaunchInv' /\ HandleInv'
           /\ pc' \in [Users -> Labels] /\ op' \in [Users -> Ops]
<1>1. UNCHANGED <<fresh, child, open, proc, twice, shared, launched>>
  BY DEF Begin
<1>2. pc' \in [Users -> Labels] /\ op' \in [Users -> Ops]
  BY DEF Begin, LifeTypes, Labels
<1>3. \A u \in Users : pc'[u] = pc[u] \/ (pc[u] \notin AtWork /\ pc'[u] \notin AtWork)
  BY DEF Begin, LifeTypes, AtWork
<1>. QED BY <1>1, <1>2, <1>3, AwayKeeps

LEMMA LeftClickKeeps ==
    ASSUME LifeInv, LeftClick
    PROVE  LifeInv'
<1>. LifeTypes /\ HelperInv /\ OneUi /\ LaunchInv /\ HandleInv /\ EndInv /\ MenuInv
  BY DEF LifeInv
<1>1. /\ Main \in Users /\ Begin(Main, "show", "check") /\ pc[Main] = "idle" /\ phase = "loop"
      /\ UNCHANGED <<phase, tray, quitMsg, helper>>
  BY DEF LeftClick, Users
<1>2. /\ OneUi' /\ LaunchInv' /\ HandleInv'
      /\ pc' \in [Users -> Labels]
      /\ op' \in [Users -> Ops]
  BY <1>1, BeginKeeps DEF Over, Ops
<1>3. LifeTypes' /\ HelperInv' /\ EndInv'
  BY <1>1, <1>2 DEF LifeTypes, Begin, tray, HelperInv, EndInv
<1>4. MenuInv'
  BY <1>1, MainIsNoJob DEF MenuInv, Begin, tray, LifeTypes, Users
<1>. QED BY <1>2, <1>3, <1>4 DEF LifeInv

LEMMA ChooseKeeps ==
    ASSUME LifeInv, NEW j \in Jobs, NEW o \in Choices, Choose(j, o)
    PROVE  LifeInv'
<1>. LifeTypes /\ HelperInv /\ OneUi /\ LaunchInv /\ HandleInv /\ EndInv /\ MenuInv
  BY DEF LifeInv
<1>0. /\ j \in Users /\ Main \in Users /\ j # Main /\ pc[j] = "idle" /\ Enabled(o)
      /\ phase = "menu" /\ phase' = "loop" /\ menu' = -1
      /\ stale' = {IF t = Main THEN j ELSE t : t \in stale}
      /\ UNCHANGED <<mode, quitMsg, helper>>
  BY MainIsNoJob DEF Choose, Users
<1>1. /\ OneUi' /\ LaunchInv' /\ HandleInv'
      /\ pc' \in [Users -> Labels]
      /\ op' \in [Users -> Ops]
      /\ UNCHANGED <<fresh, child, open, proc, twice, shared, launched>>
  <2>1. CASE o \in {"toggle", "quit"}
    <3>1. Begin(j, o, First(o)) /\ First(o) \in {"check", "broadcast"}
      BY <2>1 DEF Choose, First
    <3>2. UNCHANGED <<fresh, child, open, proc, twice, shared, launched>>
      BY <3>1 DEF Begin
    <3>. QED BY <1>0, <3>1, <3>2, BeginKeeps DEF Over, Ops, Begin
  <2>2. CASE o \notin {"toggle", "quit"}
    <3>1. /\ pc' = [pc EXCEPT ![j] = "write"] /\ op' = [op EXCEPT ![j] = o]
          /\ UNCHANGED <<fresh, child, open, proc, twice, shared, launched>>
      BY <2>2 DEF Choose, First, Choices
    <3>2. \A t \in Users : pc'[t] = pc[t] \/ (pc[t] \notin AtWork /\ pc'[t] \notin AtWork)
      BY <1>0, <3>1 DEF AtWork, LifeTypes
    <3>3. OneUi' /\ LaunchInv' /\ HandleInv'
      BY <1>0, <3>1, <3>2, AwayKeeps DEF Over
    <3>. QED BY <3>1, <3>3 DEF LifeTypes, Labels, Ops
  <2>. QED BY <2>1, <2>2
<1>2. LifeTypes' /\ HelperInv' /\ EndInv'
  BY <1>0, <1>1 DEF LifeTypes, HelperInv, EndInv
<1>3. MenuInv'
  <2>1. \A k \in Jobs : k \notin stale' => k \notin stale
    BY <1>0, MainIsNoJob
  <2>2. j \notin stale' => Main \notin stale
    BY <1>0
  <2>3. /\ \A k \in Jobs \ {j} : pc'[k] = pc[k] /\ op'[k] = op[k]
        /\ pc'[j] = "write" /\ op'[j] = "ppm" => o = "ppm"
    BY DEF Choose, Begin, LifeTypes, Users, First
  <2>. QED BY <1>0, <2>1, <2>2, <2>3 DEF MenuInv, Enabled
<1>. QED BY <1>1, <1>2, <1>3 DEF LifeInv

LEMMA MenuKeeps ==
    ASSUME LifeInv, OpenMenu \/ Dismiss \/ OthersSetMode \/ MenuEatsQuit
    PROVE  LifeInv'
<1>. LifeTypes /\ HelperInv /\ OneUi /\ LaunchInv /\ HandleInv /\ EndInv /\ MenuInv
  BY DEF LifeInv
<1>1. /\ UNCHANGED <<pc, op, fresh, child, open, proc, twice, shared, launched, helper>>
      /\ quitMsg' \in {quitMsg, "eaten"}
      /\ phase' = phase \/ (phase \in {"loop", "menu"} /\ phase' \in {"loop", "menu"})
  BY DEF OpenMenu, Dismiss, OthersSetMode, MenuEatsQuit, coordinator
<1>2. OneUi' /\ LaunchInv' /\ HandleInv'
  BY <1>1, AwayKeeps DEF Over
<1>3. HelperInv' /\ EndInv'
  BY <1>1 DEF HelperInv, EndInv
<1>4. CASE OpenMenu
  <2>1. menu' \in {mode, -1} /\ mode' = mode /\ stale' = stale /\ phase' = "menu"
    BY <1>4 DEF OpenMenu
  <2>2. LifeTypes'
    BY <1>1, <2>1 DEF LifeTypes
  <2>3. MenuInv'
    BY <1>1, <2>1, BeastIsMode DEF MenuInv
  <2>. QED BY <1>2, <1>3, <2>2, <2>3 DEF LifeInv
<1>5. CASE Dismiss
  <2>1. menu' = -1 /\ mode' = mode /\ stale' = stale \ {Main} /\ phase' = "loop"
    BY <1>5 DEF Dismiss
  <2>2. LifeTypes'
    BY <1>1, <2>1 DEF LifeTypes
  <2>3. MenuInv'
    BY <1>1, <2>1, MainIsNoJob DEF MenuInv
  <2>. QED BY <1>2, <1>3, <2>2, <2>3 DEF LifeInv
<1>6. CASE OthersSetMode
  <2>1. mode' \in Modes /\ stale' = Outdated(mode') /\ menu' = menu /\ phase' = phase
    BY <1>6 DEF OthersSetMode
  <2>2. LifeTypes'
    BY <1>1, <2>1 DEF LifeTypes, Outdated, Pickers, Users
  <2>3. MenuInv'
    BY <1>1, <2>1 DEF MenuInv, Outdated, Pickers
  <2>. QED BY <1>2, <1>3, <2>2, <2>3 DEF LifeInv
<1>7. CASE MenuEatsQuit
  BY <1>1, <1>2, <1>3, <1>7 DEF MenuEatsQuit, tray, LifeTypes, MenuInv, LifeInv
<1>. QED BY <1>4, <1>5, <1>6, <1>7

\* A job that carries out its choice: any change of mode is noted for the others.
LEMMA JobKeeps ==
    ASSUME LifeInv, NEW j \in Jobs, JobWrites(j) \/ PostQuit(j)
    PROVE  LifeInv'
<1>. LifeTypes /\ HelperInv /\ OneUi /\ LaunchInv /\ HandleInv /\ EndInv /\ MenuInv
  BY DEF LifeInv
<1>. j \in Users
  BY DEF Users
<1>1. /\ UNCHANGED <<phase, fresh, child, open, proc, twice, shared, launched, menu, helper>>
      /\ pc[j] \in {"write", "posting"} /\ pc' = [pc EXCEPT ![j] = "idle"]
      /\ op' = [op EXCEPT ![j] = "none"]
  BY DEF JobWrites, PostQuit, Move, tray
<1>2. \A t \in Users : pc'[t] = pc[t] \/ (pc[t] \notin AtWork /\ pc'[t] \notin AtWork)
  BY <1>1 DEF LifeTypes, AtWork
<1>3. OneUi' /\ LaunchInv' /\ HandleInv'
  <2>1. Over' => Over
    BY <1>1, MainIsNoJob DEF Over, LifeTypes, Users
  <2>. QED BY <1>1, <1>2, <2>1, AwayKeeps
<1>4. mode' \in Modes /\ stale' \subseteq Users /\ quitMsg' \in {"none", "posted", "eaten"}
  BY BeastIsMode DEF JobWrites, PostQuit, tray, Outdated, Pickers, LifeTypes, Users
<1>5. LifeTypes' /\ HelperInv'
  <2>1. pc' \in [Users -> Labels] /\ op' \in [Users -> Ops]
    BY <1>1 DEF LifeTypes, Labels, Ops
  <2>. QED BY <1>1, <1>4, <2>1 DEF LifeTypes, HelperInv
<1>6. EndInv'
  <2>1. pc'[Main] = pc[Main] /\ op'[Main] = op[Main]
    BY <1>1, MainIsNoJob DEF LifeTypes, Users
  <2>. QED BY <1>1, <2>1 DEF EndInv
<1>7. MenuInv'
  <2>1. CASE PostQuit(j)
    <3>1. \A k \in Jobs : pc'[k] = "write" => pc[k] = "write" /\ op'[k] = op[k]
      BY <1>1 DEF LifeTypes, Users
    <3>. QED BY <1>1, <2>1, <3>1 DEF MenuInv, PostQuit, tray
  <2>2. CASE JobWrites(j)
    <3>1. stale' = Outdated(mode') \ {j}
      BY <2>2 DEF JobWrites
    <3>2. \A k \in Jobs : pc'[k] = "write" => k # j /\ pc[k] = "write" /\ op'[k] = op[k]
      BY <1>1 DEF LifeTypes, Users
    <3>. QED BY <1>1, <3>1, <3>2, MainIsNoJob DEF MenuInv, Outdated, Pickers
  <2>. QED BY <2>1, <2>2
<1>. QED BY <1>3, <1>5, <1>6, <1>7 DEF LifeInv

LEMMA HelpersKeep ==
    ASSUME LifeInv, LeaveLoop \/ StopScan \/ StopListener \/ \E h \in Helpers : HelperEnds(h)
    PROVE  LifeInv'
<1>. LifeTypes /\ HelperInv /\ OneUi /\ LaunchInv /\ HandleInv /\ EndInv /\ MenuInv
  BY DEF LifeInv
<1>1. /\ UNCHANGED <<pc, op, fresh, child, open, proc, twice, shared, launched, menu,
                    mode, stale, quitMsg>>
      /\ phase' = phase \/ phase' \in {"stop scan", "stop listener", "quit ui"}
  BY DEF LeaveLoop, StopScan, StopListener, StopHelper, HelperEnds, coordinator, tray
<1>2. OneUi' /\ LaunchInv' /\ HandleInv'
  BY <1>1, AwayKeeps DEF Over
<1>3. EndInv' /\ MenuInv'
  BY <1>1 DEF EndInv, MenuInv
<1>4. HelperInv' /\ helper' \in [Helpers -> {"running", "dead"}]
  <2>1. helper \in [Helpers -> {"running", "dead"}] /\ Helpers = {"scan", "listener"}
    BY DEF LifeTypes, Helpers
  <2>2. CASE LeaveLoop
    BY <2>1, <2>2 DEF LeaveLoop, HelperInv
  <2>3. CASE StopScan \/ StopListener
    BY <2>1, <2>3 DEF StopScan, StopListener, StopHelper, Terminated, HelperInv
  <2>4. CASE \E h \in Helpers : HelperEnds(h)
    BY <2>1, <2>4 DEF HelperEnds, HelperInv
  <2>. QED BY <2>2, <2>3, <2>4
<1>5. LifeTypes'
  BY <1>1, <1>4 DEF LifeTypes
<1>. QED BY <1>2, <1>3, <1>4, <1>5 DEF LifeInv

LEMMA FinalQuitKeeps ==
    ASSUME LifeInv, BeginFinalQuit
    PROVE  LifeInv'
<1>. LifeTypes /\ HelperInv /\ OneUi /\ LaunchInv /\ HandleInv /\ EndInv /\ MenuInv
  BY DEF LifeInv
<1>1. /\ Main \in Users /\ Begin(Main, "final quit", "broadcast") /\ pc[Main] = "idle"
      /\ phase = "quit ui" /\ phase' = "quitting" /\ UNCHANGED <<tray, quitMsg, helper>>
  BY DEF BeginFinalQuit, Users
<1>2. /\ OneUi' /\ LaunchInv' /\ HandleInv'
      /\ pc' \in [Users -> Labels]
      /\ op' \in [Users -> Ops]
  <2>1. ~Over'
    BY <1>1 DEF Over, Begin, LifeTypes
  <2>. QED BY <1>1, <2>1, BeginKeeps DEF Ops
<1>3. LifeTypes' /\ HelperInv'
  BY <1>1, <1>2 DEF LifeTypes, Begin, tray, HelperInv
<1>4. EndInv'
  BY <1>1, <1>2 DEF EndInv, Begin, LifeTypes
<1>5. MenuInv'
  BY <1>1, MainIsNoJob DEF MenuInv, Begin, tray, LifeTypes, Users
<1>. QED BY <1>2, <1>3, <1>4, <1>5 DEF LifeInv

\* The destructors close what the final quit has left: nothing, or what a job has put
\* there since.
LEMMA DestroyKeeps ==
    ASSUME LifeInv, Destroy
    PROVE  LifeInv'
<1>. LifeTypes /\ HelperInv /\ OneUi /\ LaunchInv /\ HandleInv /\ EndInv /\ MenuInv
  BY DEF LifeInv
<1>1. /\ phase = "quitting" /\ pc[Main] = "idle" /\ phase' = "destroyed"
      /\ CloseHandle(child) /\ child' = NoUi
      /\ UNCHANGED <<pc, op, fresh, proc, shared, launched, menu, mode, stale, quitMsg, helper>>
  BY DEF Destroy, tray
<1>2. LifeTypes' /\ HelperInv' /\ MenuInv' /\ OneUi' /\ LaunchInv'
  <2>1. LifeTypes'
    BY <1>1 DEF LifeTypes, CloseHandle
  <2>2. HelperInv' /\ MenuInv'
    BY <1>1 DEF HelperInv, MenuInv
  <2>3. OneUi' /\ LaunchInv'
    BY <1>1 DEF OneUi, Alive, LaunchInv
  <2>. QED BY <2>1, <2>2, <2>3
<1>3. EndInv'
  BY <1>1 DEF EndInv
<1>4. HandleInv'
  <2>1. Over /\ Excused(child) /\ Working' = Working
    BY <1>1 DEF Over, HandleInv, Working
  <2>2. /\ \A h \in Shared' : Excused(h)'
        /\ \A t \in Users : pc[t] = "install" => Excused(fresh[t])
    BY <1>1, <2>1 DEF HandleInv, Shared, Excused, Working
  <2>3. twice' \subseteq shared'
    BY <1>1, <2>1 DEF CloseHandle, HandleInv, Excused
  <2>4. \A t \in Users : Sound(t)'
    BY <1>1, <2>2 DEF HandleInv, Sound, Excused
  <2>5. open' \ shared' \subseteq open \ shared /\ child \notin launched \ shared
        /\ child \notin open' \ shared'
    BY <1>1, <2>1, NoUiIsNoUi DEF CloseHandle, Excused, LifeTypes
  <2>6. \A p : \A t \in Users : Holds(t, p) => Holds(t, p)'
    BY <1>1 DEF Holds
  <2>. QED BY <1>1, <2>2, <2>3, <2>4, <2>5, <2>6 DEF HandleInv, Excused
<1>. QED BY <1>2, <1>3, <1>4 DEF LifeInv

LEMMA ExitKeeps ==
    ASSUME LifeInv, Exit
    PROVE  LifeInv'
<1>. LifeTypes /\ HelperInv /\ OneUi /\ LaunchInv /\ HandleInv /\ EndInv /\ MenuInv
  BY DEF LifeInv
<1>1. /\ phase = "destroyed" /\ phase' = "gone" /\ open' = {}
      /\ pc' = [t \in Users |-> "idle"] /\ op' = [t \in Users |-> "none"]
      /\ UNCHANGED <<fresh, child, proc, twice, shared, launched, menu, mode, stale,
                     quitMsg, helper>>
  BY DEF Exit, tray
<1>2. LifeTypes' /\ HelperInv' /\ OneUi' /\ LaunchInv'
  <2>1. LifeTypes'
    BY <1>1 DEF LifeTypes, Labels, Ops
  <2>2. OneUi' /\ HelperInv' /\ LaunchInv'
    BY <1>1 DEF OneUi, Alive, HelperInv, LaunchInv
  <2>. QED BY <2>1, <2>2
<1>3. MenuInv' /\ EndInv'
  BY <1>1 DEF MenuInv, EndInv, Users
<1>4. HandleInv'
  <2>1. Over /\ Excused(child)
    BY <1>1 DEF Over, EndInv, HandleInv
  <2>2. \A p : \A t \in Users : Holds(t, p) => Excused(p)
    BY <2>1 DEF HandleInv, Shared, Working, Holds
  <2>3. \A p \in launched \ shared : proc[p] = "dead"
    BY <2>1, <2>2, NoUiIsNoUi DEF HandleInv, Excused, LifeTypes
  <2>4. Working' = {} /\ \A t \in Users : Sound(t)'
    BY <1>1 DEF Working, Sound
  <2>5. Shared' = {}
    BY <2>4 DEF Shared
  <2>. QED BY <1>1, <2>1, <2>3, <2>4, <2>5 DEF HandleInv, Excused
<1>. QED BY <1>2, <1>3, <1>4 DEF LifeInv

LEMMA LifeInitInv == LifeInit => LifeInv
<1>. SUFFICES ASSUME LifeInit PROVE LifeInv
  OBVIOUS
<1>. USE DEF LifeInit
<1>1. LifeTypes
  BY DEF LifeTypes, Labels, Helpers, Ops, ProcStates
<1>3. OneUi /\ LaunchInv /\ HelperInv
  BY DEF OneUi, Alive, LaunchInv, HelperInv
<1>4. HandleInv /\ EndInv
  BY DEF HandleInv, EndInv, Shared, Working, Excused, Sound, Over
<1>5. MenuInv
  BY DEF MenuInv, Users
<1>. QED BY <1>1, <1>3, <1>4, <1>5 DEF LifeInv

LEMMA LifeInvariant == LifeSpec => []LifeInv
<1>1. LifeInv /\ [LifeNext]_lifeVars => LifeInv'
  <2>. SUFFICES ASSUME LifeInv, [LifeNext]_lifeVars PROVE LifeInv'
    OBVIOUS
  <2>1. ASSUME NEW t \in Users, ThreadStep(t) PROVE LifeInv'
    BY <2>1, CoordinatorKeeps, JobKeeps DEF ThreadStep, CoordinatorActs
  <2>2. CASE Teardown
    BY <2>2, HelpersKeep, FinalQuitKeeps, DestroyKeeps, ExitKeeps DEF Teardown
  <2>3. CASE UNCHANGED lifeVars
    <3>1. UNCHANGED <<phase, pc, op, fresh, child, open, proc, twice, shared, launched, menu,
                      mode, stale, quitMsg, helper>>
      BY <2>3 DEF lifeVars, coordinator, tray
    <3>2. OneUi' /\ LaunchInv' /\ HandleInv'
      BY <3>1, AwayKeeps DEF LifeInv, Over
    <3>3. LifeTypes'
      BY <3>1 DEF LifeInv, LifeTypes
    <3>4. HelperInv' /\ EndInv' /\ MenuInv'
      BY <3>1 DEF LifeInv, HelperInv, EndInv, MenuInv
    <3>. QED BY <3>2, <3>3, <3>4 DEF LifeInv
  <2>. QED BY <2>1, <2>2, <2>3, LeftClickKeeps, MenuKeeps, ChooseKeeps, ProcessesKeep, HelpersKeep
           DEF LifeNext
<1>. QED BY <1>1, LifeInitInv, PTL DEF LifeSpec

-----------------------------------------------------------------------------
(* The results.                                                            *)

\* Types; at most one UI stays, and no helper outlives what it uses.
THEOREM LifeTypeCorrect == LifeSpec => []LifeTypeOK
<1>1. LifeInv => LifeTypeOK
  <2>. SUFFICES ASSUME LifeInv PROVE LifeTypeOK
    OBVIOUS
  <2>1. Cardinality(Alive) \in Nat /\ Cardinality(Alive) <= 1
    <3>1. CASE Alive = {}
      BY <3>1, FS_EmptySet
    <3>2. ASSUME NEW p \in Alive PROVE Cardinality(Alive) = 1
      <4>1. Alive = {p}
        BY DEF LifeInv, OneUi
      <4>. QED BY <4>1, FS_Singleton
    <3>. QED BY <3>1, <3>2
  <2>2. phase \in {"destroyed", "gone"} => \A h \in Helpers : helper[h] = "dead"
    BY DEF LifeInv, HelperInv, Helpers
  <2>3. LifeTypes
    BY DEF LifeInv
  <2>. QED BY <2>1, <2>2, <2>3 DEF LifeTypes, Ops, ProcStates, LifeTypeOK
<1>. QED BY <1>1, LifeInvariant, PTL

\* Every process handle is closed exactly once and none but child_ stays open, those
\* excepted that two threads worked on at once, or a job after the final quit.
THEOREM HandlesAreBalanced == LifeSpec => []HandlesBalanced
<1>1. LifeInv => HandlesBalanced
  <2>. SUFFICES ASSUME LifeInv PROVE HandlesBalanced
    OBVIOUS
  <2>1. twice \subseteq shared
    BY DEF LifeInv, HandleInv
  <2>2. ASSUME Working = {} PROVE open \ shared = {child} \ (shared \cup {NoUi})
    <3>1. \A t \in Users : pc[t] \notin {"install", "clear", "forget"}
      BY <2>2 DEF Working
    <3>2. \A p \in open \ shared : p = child
      BY <3>1 DEF LifeInv, HandleInv, Holds
    <3>3. Excused(child) \/ child \in open
      BY <3>1 DEF LifeInv, HandleInv
    <3>4. NoUi \notin open
      BY NoUiIsNoUi DEF LifeInv, LifeTypes
    <3>. QED BY <3>2, <3>3, <3>4 DEF Excused
  <2>. QED BY <2>1, <2>2 DEF HandlesBalanced
<1>. QED BY <1>1, LifeInvariant, PTL

\* No UI that the service has launched outlives it, but for those whose handle two
\* threads worked on at once, or a job after the final quit.
THEOREM NoUiStays == LifeSpec => []NoUiLeftBehind
<1>1. LifeInv => NoUiLeftBehind
  <2>. SUFFICES ASSUME LifeInv, phase \in {"destroyed", "gone"}, NEW p \in launched \ shared
                PROVE  proc[p] = "dead"
    BY DEF NoUiLeftBehind
  <2>1. Over /\ Excused(child) /\ p # NoUi
    BY NoUiIsNoUi DEF LifeInv, EndInv, HandleInv, Over, LifeTypes
  <2>2. ASSUME NEW t \in Users, Holds(t, p) PROVE FALSE
    BY <2>1, <2>2 DEF LifeInv, HandleInv, Shared, Working, Holds, Excused
  <2>. QED BY <2>1, <2>2 DEF LifeInv, HandleInv, Excused
<1>. QED BY <1>1, LifeInvariant, PTL

\* Only a menu that has gone stale lets a PPM level change the mode.
THEOREM PpmKeepsMode == LifeSpec => MenuPpmKeepsMode
<1>1. ASSUME LifeInv, [LifeNext]_lifeVars, NEW j \in Jobs, pc[j] = "write", op[j] = "ppm",
             pc'[j] = "idle", mode' # mode, phase' # "gone"
      PROVE  j \in stale
  <2>1. LifeTypes /\ MenuInv /\ j \in Users
    BY <1>1 DEF LifeInv, Users
  <2>2. JobWrites(j)
    <3>1. ASSUME NEW t \in Users, CoordinatorStep(t), UNCHANGED tray PROVE FALSE
      BY <1>1, <3>1 DEF tray
    <3>2. ASSUME NEW k \in Jobs, JobWrites(k) PROVE k = j
      BY <1>1, <2>1, <3>2 DEF JobWrites, Move, LifeTypes, Users
    <3>3. ASSUME NEW k \in Jobs, PostQuit(k) PROVE FALSE
      BY <1>1, <3>3 DEF PostQuit, tray
    <3>4. ~OthersSetMode
      BY <1>1 DEF OthersSetMode, coordinator
    <3>5. ~Teardown
      BY <1>1 DEF Teardown, LeaveLoop, StopScan, StopListener, StopHelper, BeginFinalQuit,
                  Destroy, Exit, tray
    <3>6. ~LeftClick /\ ~OpenMenu /\ ~Dismiss /\ ~MenuEatsQuit /\ ~UserStartsUi
      BY <1>1 DEF LeftClick, OpenMenu, Dismiss, MenuEatsQuit, UserStartsUi, tray
    <3>7. ASSUME NEW k \in Jobs, NEW o \in Choices, Choose(k, o) PROVE FALSE
      BY <1>1, <3>7 DEF Choose
    <3>8. ASSUME NEW p, UiStarts(p) \/ UiLeaves(p) \/ UiEnds(p) PROVE FALSE
      BY <1>1, <3>8 DEF UiStarts, UiLeaves, UiEnds, tray
    <3>9. ASSUME NEW h, HelperEnds(h) PROVE FALSE
      BY <1>1, <3>9 DEF HelperEnds, tray
    <3>10. ~UNCHANGED lifeVars
      BY <1>1 DEF lifeVars, tray
    <3>. QED BY <1>1, <3>1, <3>2, <3>3, <3>4, <3>5, <3>6, <3>7, <3>8, <3>9, <3>10
             DEF LifeNext, ThreadStep
  <2>3. mode' \in {mode, Beast}
    BY <1>1, <2>2 DEF JobWrites
  <2>. QED BY <1>1, <2>1, <2>3 DEF MenuInv
<1>2. LifeInv /\ [LifeNext]_lifeVars =>
        \A j \in Jobs :
          (pc[j] = "write" /\ op[j] = "ppm" /\ pc'[j] = "idle" /\ mode' # mode
             /\ phase' # "gone") => j \in stale
  BY <1>1
<1>. QED BY <1>2, LifeInvariant, PTL DEF LifeSpec, MenuPpmKeepsMode
=============================================================================
