---------------------------- MODULE ServiceLife -----------------------------
(***************************************************************************)
(* The service process from its message loop to its end: the tray menu and *)
(* the jobs it starts, the UI coordinator with its handle child_ on the UI *)
(* process it launched, and the teardown of wWinMain.                      *)
(*                                                                         *)
(* Clicks on the icon run on the main thread, menu choices on a thread     *)
(* each, and all of them use the coordinator without a lock: every read of *)
(* child_ between two system calls is a step of its own.                   *)
(*                                                                         *)
(* External: UI processes (only one stays; a further one brings it to the  *)
(* front and leaves; users start them too), and the modal loop of an open  *)
(* menu, which may or may not keep a WM_QUIT posted to its thread.         *)
(***************************************************************************)
EXTENDS Integers, FiniteSets

CONSTANTS
    Jobs,       \* bound: menu jobs, threads of their own
    Main,       \* the main thread
    MaxUi,      \* bound: UI processes ever started
    Modes, Beast

ASSUME MainIsNoJob   == Main \notin Jobs
ASSUME UiBound       == MaxUi \in Nat
ASSUME BeastIsMode   == Beast \in Modes /\ Modes \subseteq Nat

Users   == Jobs \cup {Main}      \* threads that use the coordinator
Uis     == 1..MaxUi              \* UI processes, and the handles on them
NoUi    == 0
Helpers == {"scan", "listener"}  \* the threads main stops and joins

VARIABLES
    phase,     \* where wWinMain stands
    pc, op,    \* where each thread stands, and in which operation
    fresh,     \* the handle a thread got from CreateProcess
    child,     \* child_
    open,      \* process handles that are open
    proc,      \* the UI processes
    menu,      \* the mode the open menu was built on
    mode,      \* the mode of the hardware
    quitMsg,   \* WM_QUIT: "none", "posted", "eaten"
    helper,    \* the scan thread and the listener: "running", "dead"
    twice,     \* history: handles that were closed again
    shared,    \* history: handles two threads worked on at once (see Shared)
    launched,  \* history: UI processes the service has started
    stale      \* history: pickers whose menu shows a mode that has changed since

coordinator == <<pc, op, fresh, child, open, proc, twice, shared, launched>>
tray == <<menu, mode, stale>>
lifeVars == <<phase, coordinator, tray, quitMsg, helper>>

LifeInit ==
    /\ phase = "loop"
    /\ pc = [t \in Users |-> "idle"] /\ op = [t \in Users |-> "none"]
    /\ fresh = [t \in Users |-> NoUi]
    /\ child = NoUi /\ open = {}
    /\ proc = [p \in Uis |-> "none"]
    /\ menu = -1 /\ mode \in Modes /\ stale = {}
    /\ quitMsg = "none"
    /\ helper = [h \in Helpers |-> "running"]
    /\ twice = {} /\ shared = {} /\ launched = {}

-----------------------------------------------------------------------------
(* The coordinator.                                                        *)

\* The processes a UI can be in: it takes the mutex of the single instance when it
\* comes up, and still runs for a while when it has released it.
Alive   == {p \in Uis : proc[p] = "alive"}
Running == {p \in Uis : proc[p] \in {"starting", "alive", "leaving"}}

\* Threads that have looked at child_ and are yet to do what follows from it.
Working == {t \in Users : pc[t] \in {"launch", "install", "close", "clear",
                                     "wait", "release", "forget"}}

\* The final quit of the teardown is over.
Over == phase \in {"quitting", "destroyed", "gone"} /\ pc[Main] = "idle"

\* The handles under work while two threads work at once, or a job after the
\* final quit.
Shared == IF \/ \E t, u \in Working : t # u
             \/ Over /\ Working # {}
          THEN {child} \cup {fresh[t] : t \in Users} ELSE {}

\* Thread t begins operation o at label l.
Begin(t, o, l) ==
    /\ pc' = [pc EXCEPT ![t] = l]
    /\ op' = [op EXCEPT ![t] = o]
    /\ UNCHANGED <<fresh, child, open, proc, twice, shared, launched>>

\* Thread t is at label `from`, and goes on to `to`.
Move(t, from, to) ==
    /\ pc[t] = from
    /\ pc' = [pc EXCEPT ![t] = to]
    /\ op' = IF to = "idle" THEN [op EXCEPT ![t] = "none"] ELSE op

CloseHandle(h) ==
    /\ open' = open \ {h}
    /\ twice' = twice \cup ({h} \ (open \cup {NoUi}))

\* pollRunning: a closed handle counts as not running.
PollRunning == child \in open \cap Running

\* isRunning says no: toggle calls show, which asks again, and show launches.
NotRunning(t) ==
    /\ pc' = [pc EXCEPT ![t] = IF op[t] = "toggle" THEN "check" ELSE "launch"]
    /\ op' = [op EXCEPT ![t] = "show"]

\* isRunning: no child, a running one, or one to close.
CheckNone(t) ==
    /\ pc[t] = "check" /\ child = NoUi
    /\ NotRunning(t)
    /\ UNCHANGED <<fresh, child, open, proc, twice, launched>>

\* broadcast: Show and Hide change no process, here or in quit Quit asks a UI for
\* what it may do at any time.
CheckRunning(t) ==
    /\ child # NoUi /\ PollRunning
    /\ Move(t, "check", "idle")
    /\ UNCHANGED <<fresh, child, open, proc, twice, launched>>

CheckDead(t) ==
    /\ child # NoUi /\ ~PollRunning
    /\ Move(t, "check", "close")
    /\ UNCHANGED <<fresh, child, open, proc, twice, launched>>

CloseDead(t) ==
    /\ Move(t, "close", "clear")
    /\ CloseHandle(child)
    /\ UNCHANGED <<fresh, child, proc, launched>>

ClearDead(t) ==
    /\ pc[t] = "clear"
    /\ child' = NoUi
    /\ NotRunning(t)
    /\ UNCHANGED <<fresh, open, proc, twice, launched>>

\* show: CreateProcess, which may fail, and then the new handle in place of the
\* old.
Launch(t) ==
    /\ \/ \E p \in Uis :
            /\ proc[p] = "none" /\ \A q \in 1..(p - 1) : proc[q] # "none"
            /\ proc' = [proc EXCEPT ![p] = "starting"]
            /\ fresh' = [fresh EXCEPT ![t] = p]
            /\ open' = open \cup {p}
            /\ launched' = launched \cup {p}
            /\ Move(t, "launch", "install")
       \/ Move(t, "launch", "idle") /\ UNCHANGED <<proc, fresh, open, launched>>
    /\ UNCHANGED <<child, twice>>

Install(t) ==
    /\ Move(t, "install", "idle")
    /\ CloseHandle(child)
    /\ child' = fresh[t]
    /\ fresh' = [fresh EXCEPT ![t] = NoUi]
    /\ UNCHANGED <<proc, launched>>

\* quit: broadcast, ...
Broadcast(t) ==
    /\ Move(t, "broadcast", IF PollRunning THEN "wait" ELSE "release")
    /\ UNCHANGED <<fresh, child, open, proc, twice, launched>>

\* ... two seconds of grace for a child that is running, ...
WaitAnswered(t) ==
    /\ ~PollRunning
    /\ Move(t, "wait", "release")
    /\ UNCHANGED <<fresh, child, open, proc, twice, launched>>

\* Mutants: the process is left alone; no limit to the wait.
Spared(p) == proc
WaitsForever(t) == WaitAnswered(t)

\* TerminateProcess after 2 s.
Killed(p) == [proc EXCEPT ![p] = "dead"]

WaitTimesOut(t) ==
    /\ Move(t, "wait", "release")
    /\ proc' = IF child \in open THEN Killed(child) ELSE proc
    /\ UNCHANGED <<fresh, child, open, twice, launched>>

\* ... and the handle is closed ...
Release(t) ==
    /\ Move(t, "release", "forget")
    /\ CloseHandle(child)
    /\ UNCHANGED <<fresh, child, proc, launched>>

\* Mutant: child_ is not cleared.
KeptChild == child

\* ... and forgotten.
NoChild == NoUi
Forget(t) ==
    /\ Move(t, "forget", IF op[t] = "quit" THEN "posting" ELSE "idle")
    /\ child' = NoChild
    /\ UNCHANGED <<fresh, open, proc, twice, launched>>

CoordinatorStep(t) ==
    \/ CheckNone(t) \/ CheckRunning(t) \/ CheckDead(t) \/ CloseDead(t) \/ ClearDead(t)
    \/ Launch(t) \/ Install(t)
    \/ Broadcast(t) \/ WaitAnswered(t) \/ WaitTimesOut(t) \/ Release(t) \/ Forget(t)

-----------------------------------------------------------------------------
(* UI processes.                                                           *)

\* A UI the user starts; the service has no handle on it.
UserStartsUi ==
    /\ \E p \in Uis : /\ proc[p] = "none" /\ \A q \in 1..(p - 1) : proc[q] # "none"
                      /\ proc' = [proc EXCEPT ![p] = "starting"]
    /\ UNCHANGED <<phase, pc, op, fresh, child, open, twice, shared, launched,
                   tray, quitMsg, helper>>

\* Mutant: no single-instance check.
EveryUiStays(p) ==
    /\ proc[p] = "starting"
    /\ proc' = [proc EXCEPT ![p] = "alive"]
    /\ UNCHANGED <<phase, pc, op, fresh, child, open, twice, shared, launched,
                   tray, quitMsg, helper>>

\* OnLaunched: the first one stays, any other leaves.
UiStarts(p) ==
    /\ proc[p] = "starting"
    /\ proc' = [proc EXCEPT ![p] = IF Alive = {} THEN "alive" ELSE "dead"]
    /\ UNCHANGED <<phase, pc, op, fresh, child, open, twice, shared, launched,
                   tray, quitMsg, helper>>

\* Told to, or closed by its user: OnWindowClosed releases the mutex ...
UiLeaves(p) ==
    /\ proc[p] = "alive"
    /\ proc' = [proc EXCEPT ![p] = "leaving"]
    /\ UNCHANGED <<phase, pc, op, fresh, child, open, twice, shared, launched,
                   tray, quitMsg, helper>>

\* ... before the process ends; or it crashes.
UiEnds(p) ==
    /\ proc[p] \in {"alive", "leaving"}
    /\ proc' = [proc EXCEPT ![p] = "dead"]
    /\ UNCHANGED <<phase, pc, op, fresh, child, open, twice, shared, launched,
                   tray, quitMsg, helper>>

-----------------------------------------------------------------------------
(* The tray: main thread and menu jobs.                                    *)

\* onLeft; nothing while a menu is open.
LeftClick ==
    /\ phase = "loop" /\ pc[Main] = "idle"
    /\ Begin(Main, "show", "check")
    /\ UNCHANGED <<phase, tray, quitMsg, helper>>

\* ShowTrayMenu up to TrackPopupMenu: the menu is built on the mode of now, or
\* on -1 when it cannot be read.
OpenMenu ==
    /\ phase = "loop" /\ pc[Main] = "idle"
    /\ phase' = "menu"
    /\ menu' \in {mode, -1}
    /\ UNCHANGED <<coordinator, mode, stale, quitMsg, helper>>

\* Mutant: every entry is enabled.
AllEnabled(o) == TRUE

\* The PPM entries are disabled unless the menu shows beast mode.
Enabled(o)    == o = "ppm" => menu = Beast
Choices == {"toggle", "quit", "perf", "ppm"}
First(o) == CASE o = "toggle" -> "check" [] o = "quit" -> "broadcast" [] OTHER -> "write"

Choose(j, o) ==
    /\ phase = "menu" /\ pc[j] = "idle" /\ Enabled(o)
    /\ phase' = "loop"
    /\ menu' = -1
    /\ IF o \in {"toggle", "quit"}
       THEN Begin(j, o, First(o))
       ELSE /\ pc' = [pc EXCEPT ![j] = First(o)]
            /\ op' = [op EXCEPT ![j] = o]
            /\ UNCHANGED <<fresh, child, open, proc, twice, shared, launched>>
    /\ stale' = {IF t = Main THEN j ELSE t : t \in stale}
    /\ UNCHANGED <<mode, quitMsg, helper>>

\* The menu is dismissed, or the job's thread cannot be created.
Dismiss ==
    /\ phase = "menu"
    /\ phase' = "loop"
    /\ menu' = -1
    /\ stale' = stale \ {Main}
    /\ UNCHANGED <<coordinator, mode, quitMsg, helper>>

\* Whoever still has a menu choice to carry out has chosen on an older mode.
Pickers == {j \in Jobs : pc[j] = "write"} \cup (IF phase = "menu" THEN {Main} ELSE {})
Outdated(m) == IF m = mode THEN stale ELSE stale \cup Pickers

\* The job's hardware call; a PPM level brings beast mode with it.
JobWrites(j) ==
    /\ Move(j, "write", "idle")
    /\ mode' \in IF op[j] = "ppm" THEN {mode, Beast} ELSE Modes
    /\ stale' = Outdated(mode') \ {j}
    /\ UNCHANGED <<phase, fresh, child, open, proc, twice, shared, launched,
                   menu, quitMsg, helper>>

\* PostThreadMessage(WM_QUIT) after the coordinator's quit.
PostQuit(j) ==
    /\ Move(j, "posting", "idle")
    /\ quitMsg' = "posted"
    /\ UNCHANGED <<phase, fresh, child, open, proc, twice, shared, launched,
                   tray, helper>>

\* The loop of a menu, open already or opened by a click that was queued before
\* the message, takes it and does not post it again.
MenuEatsQuit ==
    /\ phase = "menu" /\ quitMsg = "posted"
    /\ quitMsg' = "eaten"
    /\ UNCHANGED <<phase, coordinator, tray, helper>>

OthersSetMode ==
    /\ mode' \in Modes
    /\ stale' = Outdated(mode')
    /\ UNCHANGED <<phase, coordinator, menu, quitMsg, helper>>

-----------------------------------------------------------------------------
(* The end of wWinMain.                                                    *)

LeaveLoop ==
    /\ phase = "loop" /\ pc[Main] = "idle" /\ quitMsg = "posted"
    /\ phase' = "stop scan"
    /\ UNCHANGED <<coordinator, tray, quitMsg, helper>>

\* A thread sees its stop flag and ends.
HelperEnds(h) ==
    /\ phase \notin {"loop", "menu", "gone"}
    /\ h = "scan" \/ phase # "stop scan"
    /\ helper[h] = "running"
    /\ helper' = [helper EXCEPT ![h] = "dead"]
    /\ UNCHANGED <<phase, coordinator, tray, quitMsg>>

\* engine.stop() and server.stop(): join with a timeout, then TerminateThread.
Terminated(h)  == [helper EXCEPT ![h] = "dead"]
StopHelper(h, from, to) ==
    /\ phase = from
    /\ phase' = to
    /\ helper' = Terminated(h)
    /\ UNCHANGED <<coordinator, tray, quitMsg>>
StopScan     == StopHelper("scan", "stop scan", "stop listener")
StopListener == StopHelper("listener", "stop listener", "quit ui")

\* ui.quit() on the main thread.
BeginFinalQuit ==
    /\ phase = "quit ui" /\ pc[Main] = "idle"
    /\ phase' = "quitting"
    /\ Begin(Main, "final quit", "broadcast")
    /\ UNCHANGED <<tray, quitMsg, helper>>

\* HardwareShutdown, then the destructors; ~UiCoordinator closes child_.
Destroy ==
    /\ phase = "quitting" /\ pc[Main] = "idle"
    /\ phase' = "destroyed"
    /\ CloseHandle(child)
    /\ child' = NoUi
    /\ UNCHANGED <<pc, op, fresh, proc, shared, launched, tray, quitMsg, helper>>

\* The process ends, and with it the jobs that were still under way.
Exit ==
    /\ phase = "destroyed"
    /\ phase' = "gone"
    /\ open' = {}
    /\ pc' = [t \in Users |-> "idle"] /\ op' = [t \in Users |-> "none"]
    /\ UNCHANGED <<fresh, child, proc, twice, shared, launched, tray,
                   quitMsg, helper>>

-----------------------------------------------------------------------------
ThreadStep(t) ==
    \/ /\ phase # "gone"
       /\ CoordinatorStep(t)
       /\ UNCHANGED <<phase, tray, quitMsg, helper>>
       /\ shared' = shared \cup (Shared' \ {NoUi})
    \/ t \in Jobs /\ (JobWrites(t) \/ PostQuit(t))

Teardown == LeaveLoop \/ StopScan \/ StopListener \/ BeginFinalQuit \/ Destroy \/ Exit

LifeNext ==
    \/ \E t \in Users : ThreadStep(t)
    \/ Teardown
    \/ LeftClick \/ OpenMenu \/ Dismiss \/ MenuEatsQuit
    \/ \E j \in Jobs, o \in Choices : Choose(j, o)
    \/ OthersSetMode /\ phase # "gone"
    \/ UserStartsUi
    \/ \E p \in Uis : UiStarts(p) \/ UiLeaves(p) \/ UiEnds(p)
    \/ \E h \in Helpers : HelperEnds(h)

LifeSpec == LifeInit /\ [][LifeNext]_lifeVars

\* Threads go on, started processes come up, and a menu is closed some day; no
\* user, no UI process and no helper thread is asked to cooperate.
FairLifeSpec ==
    /\ LifeSpec
    /\ \A t \in Users : WF_lifeVars(ThreadStep(t))
    /\ WF_lifeVars(Dismiss)
    /\ SF_lifeVars(Teardown)
    /\ \A p \in Uis : WF_lifeVars(UiStarts(p))

-----------------------------------------------------------------------------
(* Properties.                                                             *)

Labels == {"idle", "check", "launch", "install", "close", "clear", "broadcast", "wait",
           "release", "forget", "posting", "write"}

\* Type invariant.
LifeTypeOK ==
    /\ phase \in {"loop", "menu", "stop scan", "stop listener", "quit ui", "quitting",
                  "destroyed", "gone"}
    /\ pc \in [Users -> Labels]
    /\ op \in [Users -> Choices \cup {"none", "show", "final quit"}]
    /\ fresh \in [Users -> Uis \cup {NoUi}] /\ child \in Uis \cup {NoUi}
    /\ open \subseteq Uis
    /\ proc \in [Uis -> {"none", "starting", "alive", "leaving", "dead"}]
    /\ Cardinality(Alive) <= 1
    /\ menu \in Modes \cup {-1} /\ mode \in Modes /\ stale \subseteq Users
    /\ quitMsg \in {"none", "posted", "eaten"}
    /\ helper \in [Helpers -> {"running", "dead"}]
    \* what the threads use is destroyed only after them
    /\ phase \in {"destroyed", "gone"} => \A h \in Helpers : helper[h] = "dead"
    /\ twice \subseteq Uis /\ shared \subseteq Uis /\ launched \subseteq Uis

\* The handle of every process launched is closed exactly once, and none but child_
\* stays open while no thread is at work on it - through UI processes that die at
\* any moment, launches that fail, and a quit from the menu followed by the quit
\* and the destructor of the teardown.  The coordinator has no lock: handles that
\* two threads worked on at once, or a job after the final quit, are excepted, and
\* no others, however the coordinator was left.
HandlesBalanced ==
    /\ twice \subseteq shared
    /\ Working = {} => open \ shared = {child} \ (shared \cup {NoUi})

\* When the service is gone, no UI it has launched is left behind, not even one
\* that ignores the Quit message - except a UI whose handle two threads worked on
\* at once (two launches beside each other leave one without a handle), or a job
\* after the final quit.
NoUiLeftBehind ==
    phase \in {"destroyed", "gone"} => \A p \in launched \ shared : proc[p] = "dead"

\* A PPM level chosen in the menu takes the machine out of another mode only if
\* the mode has changed since the menu was built (ShowTrayMenu disables the
\* levels; hc_set_ppm would switch to beast).
MenuPpmKeepsMode ==
    [][\A j \in Jobs :
         (pc[j] = "write" /\ op[j] = "ppm" /\ pc'[j] = "idle" /\ mode' # mode /\ phase' # "gone")
            => j \in stale]_lifeVars

\* After "quit" has been chosen the process ends - past a UI that ignores it,
\* threads that have to be terminated, and menus opened meanwhile - unless an
\* open menu has swallowed the WM_QUIT.
Quitting == \E j \in Jobs : op[j] = "quit" /\ pc[j] # "idle"
ServiceExits == Quitting ~> (phase = "gone" \/ quitMsg = "eaten")
=============================================================================
