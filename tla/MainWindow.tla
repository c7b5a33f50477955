----------------------------- MODULE MainWindow -----------------------------
(***************************************************************************)
(* The main window of the UI against the service: the PPM slider with its  *)
(* debounce and its writes in flight, the snapshot poll with refreshes     *)
(* folded into it, the mode tiles that move before the service has         *)
(* answered, and the poll interval taken from the service's settings.      *)
(*                                                                         *)
(* The window's code runs on one thread and is cut at every await; its     *)
(* requests run on pool threads and pipe workers, each on a connection of  *)
(* its own, so that they execute and answer in any order.  A snapshot is   *)
(* not atomic: the service reads the mode first and g_lastPpm last.        *)
(* The service's calls are HardwareCore's, seen from outside: one step     *)
(* that is carried out, in part or not at all, and whose answer may be     *)
(* lost.                                                                   *)
(***************************************************************************)
EXTENDS Integers

CONSTANTS
    Modes, Levels,    \* the modes of the tiles, the levels of the slider
    StartLevel,       \* where the slider starts (MainWindow.xaml:166)
    Beast,            \* PpmModes.BeastPerfMode
    Slots,            \* bound: PPM writes in flight
    FileSeconds,      \* numbers a settings file or request may carry
    IntMax,           \* the largest int
    MaxMoves,         \* bound: actions of the user
    MaxOthers,        \* bound: changes made by triggers, menu and settings
    MaxFailures       \* bound: requests that fail

ASSUME BeastIsMode    == Beast \in Modes /\ Modes \subseteq Nat
ASSUME LevelsAreNat   == Levels \subseteq Nat /\ StartLevel \in Levels
ASSUME SecondsAreInts == FileSeconds \subseteq Int /\ IntMax \in Nat \ {0}
ASSUME SlotsAreNat    == Slots \subseteq Nat

VARIABLES
    mode, lastPpm, seconds,             \* the service: mode, g_lastPpm, tempPollSeconds_
    slider, dragging, debounce,         \* PpmSlider, a pointer held on it, _ppmDebounce
    writes,                             \* _ppmWritePending: the writes it counts
    poll, refreshQueued,                \* the poll under way, _refreshQueued
    lastAppliedMode, tile, ppmOpen,     \* what the window shows
    busy,                               \* _busy: the profile request under way
    interval,                           \* _pollIntervalSeconds
    posted,                             \* a StateChanged message is on its way
    owed,     \* history: a refresh was asked for and no reading has begun since
    choice,   \* history: the level the user chose last, or Unknown
    why,      \* history: what has come between that choice and the service
    moves, others, failures             \* counters of the bounds

service == <<mode, lastPpm, seconds>>
input   == <<slider, dragging, debounce, writes>>
view    == <<lastAppliedMode, tile, ppmOpen>>
polling == <<poll, refreshQueued>>
notes   == <<owed, choice, why>>
bounds  == <<moves, others, failures>>
windowVars == <<service, input, view, polling, busy, interval, posted, notes, bounds>>

Unknown == -1
Free    == [stage |-> "free", level |-> 0]
\* A poll's "early" is history: it read the mode before a tile was clicked, or
\* before the service had dealt with the click.
NoPoll  == [stage |-> "none", mode |-> Unknown, ppm |-> Unknown, early |-> FALSE]
NewPoll == [NoPoll EXCEPT !.stage = "settings"]
Idle    == [stage |-> "free", mode |-> Beast, level |-> 0]

AtLeast1(n) == IF n < 1 THEN 1 ELSE n
\* (int) of a long long.
ToInt(n) == ((n + IntMax + 1) % (2 * (IntMax + 1))) - (IntMax + 1)
\* SettingsStore::load clamps and then cuts; FromWireSettings cuts, and update
\* clamps.
LoadSeconds(n)   == ToInt(AtLeast1(n))
UpdateSeconds(n) == AtLeast1(ToInt(n))

WindowInit ==
    /\ mode \in Modes /\ lastPpm = Unknown
    /\ seconds \in {LoadSeconds(n) : n \in FileSeconds}
    /\ slider = StartLevel /\ dragging = FALSE /\ debounce = FALSE
    /\ writes = [w \in Slots |-> Free]
    /\ poll = NewPoll /\ refreshQueued = FALSE
    /\ lastAppliedMode = Unknown /\ tile = Unknown /\ ppmOpen = FALSE
    /\ busy = Idle
    /\ interval = 3
    /\ posted = FALSE
    /\ owed = TRUE /\ choice = Unknown /\ why = {}
    /\ moves = 0 /\ others = 0 /\ failures = 0

Because(causes) == IF choice = Unknown THEN {} ELSE why \cup causes

NoWrites == \A w \in Slots : writes[w] = Free
Fails    == failures < MaxFailures /\ failures' = failures + 1
Works    == UNCHANGED failures

-----------------------------------------------------------------------------
(* RefreshSnapshotAsync.                                                   *)

\* A poll under way takes the wish along; otherwise one begins.
Refresh ==
    IF poll = NoPoll THEN poll' = NewPoll /\ UNCHANGED refreshQueued
                     ELSE refreshQueued' = TRUE /\ UNCHANGED poll

\* The finally block.
EndPollForgets ==
    /\ poll' = NoPoll
    /\ refreshQueued' = FALSE
    /\ busy' = IF busy.stage = "refreshing" THEN Idle ELSE busy
EndPoll ==
    /\ poll' = IF refreshQueued THEN NewPoll ELSE NoPoll
    /\ refreshQueued' = FALSE
    /\ busy' = IF busy.stage = "refreshing" THEN Idle ELSE busy

PollTick ==
    /\ Refresh
    /\ UNCHANGED <<service, input, view, busy, interval, posted, notes, bounds>>

\* Mutant: what the service says is taken as it is.
RawInterval(n) == n

\* SyncPollIntervalAsync; a failure leaves the interval alone.
ClampedInterval(n) == AtLeast1(n)
SyncInterval ==
    /\ poll.stage = "settings"
    /\ poll' = [poll EXCEPT !.stage = "mode"]
    /\ \/ Works /\ interval' = ClampedInterval(seconds)
       \/ Fails /\ UNCHANGED interval
    /\ UNCHANGED <<service, input, view, refreshQueued, busy, posted, notes, moves, others>>

\* HardwareGetSnapshot: the first reading ...
ReadMode ==
    /\ poll.stage = "mode"
    /\ \/ Works /\ poll' = [poll EXCEPT !.stage = "ppm", !.mode = mode,
                                      !.early = (busy.stage = "sent")]
       \/ Fails /\ poll' = [poll EXCEPT !.stage = "ppm"]
    /\ owed' = FALSE
    /\ UNCHANGED <<service, input, view, refreshQueued, busy, interval, posted,
                   choice, why, moves, others>>

\* ... and the last.
ReadPpm ==
    /\ poll.stage = "ppm"
    /\ poll' = [poll EXCEPT !.stage = "reply", !.ppm = lastPpm]
    /\ UNCHANGED <<service, input, view, refreshQueued, busy, interval, posted, notes, bounds>>

\* No snapshot comes back, at whatever point.
PollFails ==
    /\ poll.stage \in {"mode", "ppm", "reply"}
    /\ Fails
    /\ EndPoll
    /\ owed' = (owed /\ refreshQueued)
    /\ UNCHANGED <<service, input, view, interval, posted, choice, why, moves, others>>

\* ApplyPerfModeToUi.
ShowMode(m) ==
    IF m < 0 \/ m = lastAppliedMode THEN UNCHANGED view
    ELSE /\ lastAppliedMode' = m
         /\ tile' = m
         /\ ppmOpen' = (m = Beast)

AdoptableWhileChoosing == poll.ppm \in Levels /\ poll.mode = Beast /\ NoWrites
Adoptable == poll.ppm \in Levels /\ poll.mode = Beast /\ NoWrites /\ ~debounce

PollArrives ==
    /\ poll.stage = "reply"
    /\ ShowMode(poll.mode)
    /\ IF Adoptable
       THEN /\ slider' = poll.ppm
            /\ why' = IF dragging /\ slider # poll.ppm THEN Because({"dragging"}) ELSE why
       ELSE UNCHANGED <<slider, why>>
    /\ EndPoll
    /\ UNCHANGED <<service, dragging, debounce, writes, interval, posted,
                   owed, choice, bounds>>

-----------------------------------------------------------------------------
(* The slider.                                                             *)

UserActs == moves < MaxMoves /\ busy = Idle /\ moves' = moves + 1

Choose(l) == slider' = l /\ choice' = l /\ why' = {}

\* The pointer drags the slider; polls go on meanwhile.
Drag(l) ==
    /\ UserActs
    /\ Choose(l)
    /\ dragging' = TRUE
    /\ UNCHANGED <<service, debounce, writes, view, polling, busy, interval, posted,
                   owed, others, failures>>

\* OnPpmPointerReleased: the 250 ms start over.
Release ==
    /\ dragging
    /\ dragging' = FALSE
    /\ debounce' = TRUE
    /\ UNCHANGED <<service, slider, writes, view, polling, busy, interval, posted, notes, bounds>>

\* OnPpmClick.
ClickPpm(l) ==
    /\ UserActs /\ ~dragging
    /\ Choose(l)
    /\ debounce' = TRUE
    /\ UNCHANGED <<service, dragging, writes, view, polling, busy, interval, posted,
                   owed, others, failures>>

\* OnPpmDebounceTick, and ApplyPpmFromSliderAsync up to its await.
DebounceTick(w) ==
    /\ debounce
    /\ writes[w] = Free /\ \A v \in Slots : writes[v] = Free => w <= v
    /\ debounce' = FALSE
    /\ writes' = [writes EXCEPT ![w] = [stage |-> "sent", level |-> slider]]
    /\ why' = IF NoWrites THEN why ELSE Because({"overlap"})
    /\ UNCHANGED <<service, slider, dragging, view, polling, busy, interval, posted,
                   owed, choice, bounds>>

\* The service carries the write out, switching to beast if it has to.  A write
\* that fails may have switched already, and one that did not may seem to fail.
ExecuteWrite(w) ==
    /\ writes[w].stage = "sent"
    /\ \/ /\ Works
          /\ mode' = Beast /\ lastPpm' = writes[w].level
          /\ writes' = [writes EXCEPT ![w].stage = "done"]
          /\ UNCHANGED why
       \/ /\ Fails
          /\ mode' \in {mode, Beast}
          /\ lastPpm' = lastPpm \/ (mode' = Beast /\ lastPpm' = writes[w].level)
          /\ writes' = [writes EXCEPT ![w].stage = "failed"]
          /\ why' = Because({"failed"})
    /\ UNCHANGED <<seconds, slider, dragging, debounce, view, polling, busy, interval,
                   posted, owed, choice, moves, others>>

\* The rest of ApplyPpmFromSliderAsync: the finally block runs either way.
AfterFailureKeeps(w) == IF writes[w].stage = "failed" THEN writes[w] ELSE Free
AfterWrite(w)        == Free
WriteReturns(w) ==
    /\ writes[w].stage \in {"done", "failed"}
    /\ writes' = [writes EXCEPT ![w] = AfterWrite(w)]
    /\ Refresh
    /\ UNCHANGED <<service, slider, dragging, debounce, view, busy, interval, posted,
                   notes, bounds>>

-----------------------------------------------------------------------------
(* The mode tiles.                                                         *)

\* OnModeClick: the window shows the new mode at once.
ClickMode(m) ==
    /\ UserActs /\ ~dragging
    /\ tile' = m
    /\ ppmOpen' = (m = Beast)
    /\ busy' = [stage |-> "sent", mode |-> m, level |-> slider]
    /\ poll' = [poll EXCEPT !.early = poll.mode # Unknown]
    /\ UNCHANGED <<service, input, lastAppliedMode, refreshQueued, interval, posted,
                   owed, choice, why, others, failures>>

\* What the service has set, and what the window is told of it.
Applied(m, withLevel, end) ==
    /\ mode' = m
    /\ busy' = [busy EXCEPT !.stage = end]
    /\ IF withLevel THEN lastPpm' = busy.level /\ why' = Because({"tile"})
                    ELSE UNCHANGED <<lastPpm, why>>

\* HardwareApplyProfile: the mode and, for beast, the level.  It succeeds as well
\* without the level, and with beast in place of a mode that is refused (a level
\* is only asked for with beast); only if neither mode is taken it fails.  The
\* answer may get lost, whatever was done.
ExecuteProfile ==
    /\ busy.stage = "sent"
    /\ \/ Works /\ Applied(busy.mode, busy.mode = Beast, "done")
       \/ Fails /\ \/ Applied(mode, FALSE, "failed")
                   \/ \E m \in {busy.mode, Beast} : Applied(m, FALSE, "done")
                   \/ \E m \in {busy.mode, Beast} :
                        Applied(m, m = Beast /\ m = busy.mode, "failed")
    /\ UNCHANGED <<seconds, input, view, polling, interval, posted, owed, choice,
                   moves, others>>

\* RunBusyAsync ends: after a success not before the refresh it awaits.
ProfileReturns ==
    /\ busy.stage \in {"done", "failed"}
    /\ IF busy.stage = "failed"
       THEN busy' = Idle /\ UNCHANGED polling
       ELSE /\ Refresh
            /\ busy' = IF poll = NoPoll THEN [busy EXCEPT !.stage = "refreshing"] ELSE Idle
    /\ UNCHANGED <<service, input, view, interval, posted, notes, bounds>>

-----------------------------------------------------------------------------
(* Everybody else.                                                         *)

\* A trigger (which posts StateChanged), a menu job (which does not) or a
\* second client changes mode and level.
OthersChange ==
    /\ others < MaxOthers
    /\ others' = others + 1
    /\ mode' \in Modes
    /\ lastPpm' \in Levels \cup {lastPpm}
    /\ posted' \in {posted, TRUE}
    /\ why' = Because({"other"})
    /\ UNCHANGED <<seconds, input, view, polling, busy, interval, owed, choice,
                   moves, failures>>

\* PipeServer's SetSettings.
SetSettings ==
    /\ others < MaxOthers
    /\ others' = others + 1
    /\ \E n \in FileSeconds : seconds' = UpdateSeconds(n)
    /\ UNCHANGED <<mode, lastPpm, input, view, polling, busy, interval, posted, notes,
                   moves, failures>>

\* RefreshNow; IsServiceRunning may fail, and then nothing is refreshed.
StateChanged ==
    /\ posted
    /\ posted' = FALSE
    /\ \/ Works /\ Refresh /\ owed' = TRUE
       \/ Fails /\ UNCHANGED <<polling, owed>>
    /\ UNCHANGED <<service, input, view, busy, interval, choice, why, moves, others>>

-----------------------------------------------------------------------------
PollStep == SyncInterval \/ ReadMode \/ ReadPpm \/ PollArrives
WriteStep(w) == DebounceTick(w) \/ ExecuteWrite(w) \/ WriteReturns(w)
ClickStep == ExecuteProfile \/ ProfileReturns

WindowNext ==
    \/ PollTick \/ PollStep \/ PollFails \/ StateChanged
    \/ \E w \in Slots : WriteStep(w)
    \/ ClickStep
    \/ Release
    \/ \E l \in Levels : Drag(l) \/ ClickPpm(l)
    \/ \E m \in Modes : ClickMode(m)
    \/ OthersChange \/ SetSettings

WindowSpec == WindowInit /\ [][WindowNext]_windowVars

\* Requests end (SendSync's connect has a timeout, and a failure is a result),
\* timers fire.  Nothing is asked of the user.
FairWindowSpec ==
    /\ WindowSpec
    /\ WF_windowVars(PollTick) /\ WF_windowVars(PollStep)
    /\ WF_windowVars(\E w \in Slots : WriteStep(w))
    /\ WF_windowVars(ClickStep)

-----------------------------------------------------------------------------
(* Properties.                                                             *)

\* Type invariant.
WindowTypeOK ==
    /\ mode \in Modes /\ lastPpm \in Levels \cup {Unknown} /\ seconds \in Int
    /\ slider \in Levels /\ dragging \in BOOLEAN /\ debounce \in BOOLEAN
    /\ writes \in [Slots -> [stage: {"free", "sent", "done", "failed"}, level: Nat]]
    /\ poll \in [stage: {"none", "settings", "mode", "ppm", "reply"},
                 mode: Modes \cup {Unknown}, ppm: Levels \cup {Unknown}, early: BOOLEAN]
    /\ refreshQueued \in BOOLEAN
    /\ lastAppliedMode \in Modes \cup {Unknown} /\ tile \in Modes \cup {Unknown}
    /\ ppmOpen \in BOOLEAN
    /\ busy \in [stage: {"free", "sent", "done", "failed", "refreshing"},
                 mode: Modes, level: Nat]
    \* a number beyond int in the settings file reaches the window as zero or
    \* less; the poll timer must not get it
    /\ interval \in Nat \ {0}
    /\ posted \in BOOLEAN
    /\ owed \in BOOLEAN
    /\ choice \in Levels \cup {Unknown}
    /\ why \subseteq {"overlap", "failed", "dragging", "tile", "other"}

\* A refresh that was asked for is followed by a reading of the hardware that
\* begins afterwards: one that arrives in the middle of a poll is not forgotten
\* when that poll ends, whatever way it ends (RefreshSnapshotAsync).
NoRefreshForgotten == owed => poll.stage \in {"settings", "mode"} \/ refreshQueued

\* The level the user chose is the level in force once no write is under way -
\* or two writes overlapped and executed in either order, one failed, somebody
\* else (or a mode tile) wrote, or a poll moved the slider under the pointer.
ChoiceStands ==
    (choice # Unknown /\ ~dragging /\ ~debounce /\ NoWrites) => lastPpm = choice \/ why # {}

\* When nobody changes anything any more, the window catches up: the mode it
\* names is the service's, and in beast mode the slider shows the level the
\* service reports - whatever requests have failed before.
WindowCatchesUp ==
    <>[](lastAppliedMode = mode /\ (mode = Beast /\ lastPpm # Unknown => slider = lastPpm))

\* "if a value has not changed, the visual tree is not touched"
\* (MainWindow.xaml.cs:48): a poll that brings a mode leaves its tile
\* highlighted, unless a click was still undecided when the mode was read.
TilesFollowPolls ==
    [][(poll.stage = "reply" /\ poll.mode # Unknown /\ ~poll.early /\ poll'.stage # "reply"
        /\ failures' = failures) => tile' = poll.mode]_windowVars
=============================================================================
