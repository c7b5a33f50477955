-------------------------- MODULE MainWindow_proofs --------------------------
(* Proofs about MainWindow, for any modes and levels, any number of writes   *)
(* in flight, and any number a settings file may carry.                      *)
EXTENDS MainWindow, TLAPS

-----------------------------------------------------------------------------
(* The inductive invariant, part by part.                                  *)

NumberTypes ==
    /\ mode \in Modes /\ lastPpm \in Levels \cup {Unknown} /\ seconds \in Int
    /\ slider \in Levels /\ choice \in Levels \cup {Unknown}
    /\ lastAppliedMode \in Modes \cup {Unknown} /\ tile \in Modes \cup {Unknown}
    /\ interval \in Nat \ {0}
    /\ why \subseteq {"overlap", "failed", "dragging", "tile", "other"}

WriteType == [stage: {"free", "sent", "done", "failed"}, level: Nat]
PollType  == [stage: {"none", "settings", "mode", "ppm", "reply"},
              mode: Modes \cup {Unknown}, ppm: Levels \cup {Unknown}, early: BOOLEAN]
BusyType  == [stage: {"free", "sent", "done", "failed", "refreshing"},
              mode: Modes, level: Nat]

RecordTypes == writes \in [Slots -> WriteType] /\ poll \in PollType /\ busy \in BusyType

FlagTypes ==
    /\ dragging \in BOOLEAN /\ debounce \in BOOLEAN /\ refreshQueued \in BOOLEAN
    /\ ppmOpen \in BOOLEAN /\ posted \in BOOLEAN /\ owed \in BOOLEAN

\* What is sent to the service is a level of the slider.
SentInv ==
    /\ \A w \in Slots : writes[w].stage = "sent" => writes[w].level \in Levels
    /\ busy.stage = "sent" => busy.level \in Levels

\* As long as nothing has come between: the choice is still in the slider, to be
\* sent, or it is all there is to carry out, or it is in force.
ChoiceInv ==
    choice # Unknown /\ why = {} =>
        IF dragging \/ debounce
          THEN slider = choice
          ELSE /\ \A w \in Slots : writes[w].stage = "sent" => writes[w].level = choice
               /\ lastPpm = choice \/ \E w \in Slots : writes[w].stage = "sent"

WindowInv == /\ NumberTypes /\ RecordTypes /\ FlagTypes /\ SentInv
             /\ NoRefreshForgotten /\ ChoiceInv

-----------------------------------------------------------------------------
(* Facts about the operators.                                              *)

\* What a number of the settings becomes is an int, and at least 1 second is
\* what the poll timer gets, whatever the service says.
LEMMA SecondsAreInt ==
    ASSUME NEW n \in Int
    PROVE  /\ LoadSeconds(n) \in Int /\ UpdateSeconds(n) \in Int
           /\ ClampedInterval(n) \in Nat \ {0}
<1>1. \A k \in Int : AtLeast1(k) \in Nat \ {0}
  BY DEF AtLeast1
<1>2. \A k \in Int : ToInt(k) \in Int
  <2>. SUFFICES ASSUME NEW k \in Int PROVE ToInt(k) \in Int
    OBVIOUS
  <2>1. IntMax \in Nat
    BY SecondsAreInts
  <2>. DEFINE a == k + IntMax + 1
              b == 2 * (IntMax + 1)
  <2>2. a \in Int /\ b \in Nat /\ b > 0
    BY <2>1
  <2>. HIDE DEF a, b
  <2>3. a % b \in Int
    BY <2>2
  <2>. QED BY <2>1, <2>3 DEF ToInt, a, b
<1>. QED BY <1>1, <1>2 DEF LoadSeconds, UpdateSeconds, ClampedInterval

LEMMA RecordFacts ==
    /\ Free \in WriteType /\ NoPoll \in PollType /\ NewPoll \in PollType /\ Idle \in BusyType
    /\ Free.stage = "free" /\ NewPoll.stage = "settings" /\ NoPoll.stage = "none"
BY BeastIsMode DEF Free, NoPoll, NewPoll, Idle, WriteType, PollType, BusyType

\* A refresh puts a poll in motion or takes a note; either answers what is owed.
LEMMA RefreshFacts ==
    ASSUME poll \in PollType, refreshQueued \in BOOLEAN, Refresh
    PROVE  /\ poll' \in PollType /\ refreshQueued' \in BOOLEAN
           /\ poll'.stage = "settings" \/ refreshQueued'
<1>1. CASE poll = NoPoll
  BY <1>1, RecordFacts, Zenon DEF Refresh
<1>2. CASE poll # NoPoll
  BY <1>2, Zenon DEF Refresh
<1>. QED BY <1>1, <1>2

LEMMA EndPollFacts ==
    ASSUME RecordTypes, EndPoll
    PROVE  /\ poll' \in PollType /\ busy' \in BusyType /\ refreshQueued' = FALSE
           /\ refreshQueued => poll'.stage = "settings"
BY RecordFacts DEF RecordTypes, EndPoll

LEMMA BecauseFacts ==
    ASSUME NumberTypes, NEW c \in {"overlap", "failed", "dragging", "tile", "other"}
    PROVE  /\ Because({c}) \subseteq {"overlap", "failed", "dragging", "tile", "other"}
           /\ choice # Unknown => Because({c}) # {}
BY DEF NumberTypes, Because

-----------------------------------------------------------------------------
(* What a step does to each part.                                          *)

LEMMA NumbersKept ==
    ASSUME WindowInv, [WindowNext]_windowVars
    PROVE  NumberTypes'
<1>. NumberTypes /\ RecordTypes /\ SentInv
  BY DEF WindowInv
<1>. USE BeastIsMode, LevelsAreNat DEF NumberTypes
<1>1. CASE SyncInterval
  BY <1>1, SecondsAreInt DEF SyncInterval, service, input, view, notes
<1>2. CASE PollArrives
  <2>1. poll.mode \in Modes \cup {Unknown}
    BY DEF RecordTypes, PollType
  <2>2. lastAppliedMode' \in Modes \cup {Unknown} /\ tile' \in Modes \cup {Unknown}
    BY <1>2, <2>1 DEF PollArrives, ShowMode, view, Unknown
  <2>3. slider' \in Levels
    BY <1>2 DEF PollArrives, Adoptable
  <2>4. why' \subseteq {"overlap", "failed", "dragging", "tile", "other"}
    BY <1>2, BecauseFacts DEF PollArrives
  <2>. QED BY <1>2, <2>2, <2>3, <2>4 DEF PollArrives, service
<1>3. ASSUME NEW l \in Levels, Drag(l) \/ ClickPpm(l) PROVE NumberTypes'
  BY <1>3 DEF Drag, ClickPpm, Choose, service, view
<1>4. ASSUME NEW w \in Slots, DebounceTick(w) PROVE NumberTypes'
  BY <1>4, BecauseFacts DEF DebounceTick, service, view
<1>5. ASSUME NEW w \in Slots, ExecuteWrite(w) PROVE NumberTypes'
  <2>1. lastPpm' \in Levels \cup {Unknown} /\ mode' \in Modes
    BY <1>5 DEF ExecuteWrite, SentInv
  <2>2. why' \subseteq {"overlap", "failed", "dragging", "tile", "other"}
    BY <1>5, BecauseFacts DEF ExecuteWrite
  <2>. QED BY <1>5, <2>1, <2>2 DEF ExecuteWrite, view
<1>6. ASSUME NEW m \in Modes, ClickMode(m) PROVE NumberTypes'
  BY <1>6 DEF ClickMode, service, input
<1>7. CASE ExecuteProfile
  <2>1. lastPpm' \in Levels \cup {Unknown} /\ mode' \in Modes
    BY <1>7 DEF ExecuteProfile, Applied, SentInv, RecordTypes, BusyType
  <2>2. why' \subseteq {"overlap", "failed", "dragging", "tile", "other"}
    BY <1>7, BecauseFacts DEF ExecuteProfile, Applied
  <2>. QED BY <1>7, <2>1, <2>2 DEF ExecuteProfile, input, view
<1>8. CASE OthersChange
  BY <1>8, BecauseFacts DEF OthersChange, input, view
<1>9. CASE SetSettings
  BY <1>9, SecondsAreInts, SecondsAreInt DEF SetSettings, input, view, notes
<1>10. ASSUME UNCHANGED <<service, slider, view, interval, choice, why>> PROVE NumberTypes'
  BY <1>10 DEF service, view
<1>11. CASE PollTick \/ ReadMode \/ ReadPpm \/ PollFails \/ StateChanged \/ ProfileReturns
            \/ Release \/ UNCHANGED windowVars
  BY <1>10, <1>11 DEF PollTick, ReadMode, ReadPpm, PollFails, StateChanged, ProfileReturns,
                      Release, windowVars, input, notes
<1>12. ASSUME NEW w \in Slots, WriteReturns(w) PROVE NumberTypes'
  BY <1>10, <1>12 DEF WriteReturns, notes
<1>. QED BY <1>1, <1>2, <1>3, <1>4, <1>5, <1>6, <1>7, <1>8, <1>9, <1>11, <1>12
         DEF WindowNext, PollStep, WriteStep, ClickStep

LEMMA RecordsKept ==
    ASSUME WindowInv, [WindowNext]_windowVars
    PROVE  RecordTypes' /\ SentInv'
<1>. NumberTypes /\ RecordTypes /\ SentInv /\ refreshQueued \in BOOLEAN
  BY DEF WindowInv, FlagTypes
<1>. USE BeastIsMode, LevelsAreNat DEF RecordTypes
<1>1. CASE SyncInterval \/ ReadMode \/ ReadPpm
  <2>1. poll' \in PollType
    <3>1. CASE SyncInterval
      BY <3>1 DEF SyncInterval, PollType
    <3>2. CASE ReadMode
      <4>1. /\ mode \in Modes \cup {Unknown} /\ (busy.stage = "sent") \in BOOLEAN
            /\ poll \in PollType
        BY DEF NumberTypes
      <4>2. \/ poll' = [poll EXCEPT !.stage = "ppm", !.mode = mode,
                                   !.early = (busy.stage = "sent")]
            \/ poll' = [poll EXCEPT !.stage = "ppm"]
        BY <3>2 DEF ReadMode
      <4>. QED BY <4>1, <4>2 DEF PollType
    <3>3. CASE ReadPpm
      BY <3>3 DEF ReadPpm, PollType, NumberTypes
    <3>. QED BY <1>1, <3>1, <3>2, <3>3
  <2>2. UNCHANGED <<writes, busy>>
    BY <1>1 DEF SyncInterval, ReadMode, ReadPpm, input
  <2>. QED BY <2>1, <2>2 DEF SentInv
<1>2. ASSUME EndPoll, UNCHANGED writes PROVE RecordTypes' /\ SentInv'
  <2>1. poll' \in PollType /\ busy' \in BusyType
    BY <1>2, EndPollFacts
  <2>2. busy'.stage = "sent" => busy' = busy
    BY <1>2 DEF EndPoll, Idle
  <2>. QED BY <1>2, <2>1, <2>2 DEF SentInv
<1>3. CASE PollArrives \/ PollFails
  BY <1>2, <1>3 DEF PollArrives, PollFails, input
<1>4. ASSUME Refresh, UNCHANGED <<writes, busy>> PROVE RecordTypes' /\ SentInv'
  BY <1>4, RefreshFacts DEF SentInv
<1>5. ASSUME UNCHANGED <<writes, busy, poll>> PROVE RecordTypes' /\ SentInv'
  BY <1>5 DEF SentInv
<1>6. CASE PollTick
  BY <1>4, <1>6 DEF PollTick, input
<1>7. CASE StateChanged
  BY <1>4, <1>5, <1>7 DEF StateChanged, input, polling
<1>8. ASSUME NEW l \in Levels, Drag(l) \/ ClickPpm(l) PROVE RecordTypes' /\ SentInv'
  BY <1>5, <1>8 DEF Drag, ClickPpm, polling
<1>9. ASSUME NEW w \in Slots, DebounceTick(w) PROVE RecordTypes' /\ SentInv'
  <2>1. writes' \in [Slots -> WriteType]
    BY <1>9 DEF DebounceTick, WriteType, NumberTypes
  <2>2. \A v \in Slots : writes'[v].stage = "sent" => writes'[v].level \in Levels
    BY <1>9 DEF DebounceTick, SentInv, NumberTypes
  <2>. QED BY <1>9, <2>1, <2>2 DEF DebounceTick, SentInv, polling
<1>10. ASSUME NEW w \in Slots, ExecuteWrite(w) PROVE RecordTypes' /\ SentInv'
  <2>1. PICK s \in {"done", "failed"} : writes' = [writes EXCEPT ![w].stage = s]
    BY <1>10 DEF ExecuteWrite
  <2>2. writes' \in [Slots -> WriteType]
    BY <2>1 DEF WriteType
  <2>3. \A v \in Slots : writes'[v].stage = "sent" => writes'[v] = writes[v]
    BY <2>1 DEF WriteType
  <2>. QED BY <1>10, <2>2, <2>3 DEF ExecuteWrite, SentInv, polling
<1>11. ASSUME NEW w \in Slots, WriteReturns(w) PROVE RecordTypes' /\ SentInv'
  <2>1. writes' \in [Slots -> WriteType]
    BY <1>11, RecordFacts DEF WriteReturns, AfterWrite
  <2>2. \A v \in Slots : writes'[v].stage = "sent" => writes'[v] = writes[v]
    BY <1>11, RecordFacts DEF WriteReturns, AfterWrite
  <2>3. poll' \in PollType /\ busy' = busy
    BY <1>11, RefreshFacts DEF WriteReturns
  <2>. QED BY <2>1, <2>2, <2>3 DEF SentInv
<1>12. ASSUME NEW m \in Modes, ClickMode(m) PROVE RecordTypes' /\ SentInv'
  <2>1. poll' \in PollType /\ busy' \in BusyType /\ busy'.level \in Levels
    BY <1>12 DEF ClickMode, PollType, BusyType, NumberTypes
  <2>. QED BY <1>12, <2>1 DEF ClickMode, input, SentInv
<1>13. CASE ExecuteProfile
  <2>1. PICK s \in {"done", "failed"} : busy' = [busy EXCEPT !.stage = s]
    BY <1>13 DEF ExecuteProfile, Applied
  <2>2. busy' \in BusyType /\ busy'.stage # "sent"
    BY <2>1 DEF BusyType
  <2>. QED BY <1>13, <2>2 DEF ExecuteProfile, input, polling, SentInv
<1>14. CASE ProfileReturns
  <2>1. poll' \in PollType
    BY <1>14, RefreshFacts DEF ProfileReturns, polling
  <2>2. busy' \in BusyType /\ busy'.stage # "sent"
    BY <1>14, RecordFacts DEF ProfileReturns, BusyType, Idle
  <2>. QED BY <1>14, <2>1, <2>2 DEF ProfileReturns, input, SentInv
<1>15. CASE Release \/ OthersChange \/ SetSettings \/ UNCHANGED windowVars
  BY <1>5, <1>15 DEF Release, OthersChange, SetSettings, windowVars, input, polling
<1>. QED BY <1>1, <1>3, <1>6, <1>7, <1>8, <1>9, <1>10, <1>11, <1>12, <1>13, <1>14, <1>15
         DEF WindowNext, PollStep, WriteStep, ClickStep

LEMMA FlagsKept ==
    ASSUME WindowInv, [WindowNext]_windowVars
    PROVE  FlagTypes'
<1>. FlagTypes /\ poll \in PollType /\ RecordTypes
  BY DEF WindowInv, RecordTypes
<1>. USE DEF FlagTypes
<1>1. dragging' \in BOOLEAN
  <2>1. dragging' = TRUE \/ dragging' = FALSE \/ dragging' = dragging
    BY DEF WindowNext, PollStep, WriteStep, ClickStep, PollTick, SyncInterval, ReadMode,
           ReadPpm, PollFails, PollArrives, Drag, Release, ClickPpm, DebounceTick,
           ExecuteWrite, WriteReturns, ClickMode, ExecuteProfile, ProfileReturns,
           OthersChange, SetSettings, StateChanged, input, windowVars
  <2>. QED BY <2>1, Zenon
<1>2. debounce' \in BOOLEAN
  <2>1. debounce' = TRUE \/ debounce' = FALSE \/ debounce' = debounce
    BY DEF WindowNext, PollStep, WriteStep, ClickStep, PollTick, SyncInterval, ReadMode,
           ReadPpm, PollFails, PollArrives, Drag, Release, ClickPpm, DebounceTick,
           ExecuteWrite, WriteReturns, ClickMode, ExecuteProfile, ProfileReturns,
           OthersChange, SetSettings, StateChanged, input, windowVars
  <2>. QED BY <2>1, Zenon
<1>3. refreshQueued' \in BOOLEAN
  <2>1. Refresh \/ refreshQueued' = FALSE \/ refreshQueued' = refreshQueued
    BY DEF WindowNext, PollStep, WriteStep, ClickStep, PollTick, SyncInterval, ReadMode,
           ReadPpm, PollFails, PollArrives, EndPoll, Drag, Release, ClickPpm, DebounceTick,
           ExecuteWrite, WriteReturns, ClickMode, ExecuteProfile, ProfileReturns,
           OthersChange, SetSettings, StateChanged, polling, windowVars
  <2>. QED BY <2>1, RefreshFacts, Zenon
<1>4. ppmOpen' \in BOOLEAN
  <2>1. (\E m : ppmOpen' = (m = Beast)) \/ ppmOpen' = ppmOpen
    BY DEF WindowNext, PollStep, WriteStep, ClickStep, PollTick, SyncInterval, ReadMode,
           ReadPpm, PollFails, PollArrives, ShowMode, Drag, Release, ClickPpm, DebounceTick,
           ExecuteWrite, WriteReturns, ClickMode, ExecuteProfile, ProfileReturns,
           OthersChange, SetSettings, StateChanged, view, windowVars
  <2>. QED BY <2>1, Zenon
<1>5. posted' \in BOOLEAN
  <2>1. posted' = TRUE \/ posted' = FALSE \/ posted' = posted
    BY DEF WindowNext, PollStep, WriteStep, ClickStep, PollTick, SyncInterval, ReadMode,
           ReadPpm, PollFails, PollArrives, Drag, Release, ClickPpm, DebounceTick,
           ExecuteWrite, WriteReturns, ClickMode, ExecuteProfile, ProfileReturns,
           OthersChange, SetSettings, StateChanged, windowVars
  <2>. QED BY <2>1, Zenon
<1>6. owed' \in BOOLEAN
  <2>1. owed' = TRUE \/ owed' = FALSE \/ owed' = owed \/ owed' = (owed /\ refreshQueued)
    BY DEF WindowNext, PollStep, WriteStep, ClickStep, PollTick, SyncInterval, ReadMode,
           ReadPpm, PollFails, PollArrives, Drag, Release, ClickPpm, DebounceTick,
           ExecuteWrite, WriteReturns, ClickMode, ExecuteProfile, ProfileReturns,
           OthersChange, SetSettings, StateChanged, notes, windowVars
  <2>. QED BY <2>1, Zenon
<1>. QED BY <1>1, <1>2, <1>3, <1>4, <1>5, <1>6

\* A poll begins anew when it ends with a refresh queued, and a reading that has
\* begun settles what was owed before it.
LEMMA RefreshKept ==
    ASSUME WindowInv, [WindowNext]_windowVars
    PROVE  NoRefreshForgotten'
<1>. RecordTypes /\ poll \in PollType /\ refreshQueued \in BOOLEAN /\ NoRefreshForgotten
  BY DEF WindowInv, RecordTypes, FlagTypes
<1>. USE DEF NoRefreshForgotten
<1>1. CASE Refresh
  BY <1>1, RefreshFacts
<1>2. CASE ReadMode
  BY <1>2, Zenon DEF ReadMode
<1>3. CASE PollFails
  <2>1. owed' = (owed /\ refreshQueued) /\ (refreshQueued => poll'.stage = "settings")
    BY <1>3, EndPollFacts DEF PollFails
  <2>. QED BY <2>1, Zenon
<1>4. CASE PollArrives
  <2>1. owed' = owed /\ poll.stage = "reply" /\ (refreshQueued => poll'.stage = "settings")
    BY <1>4, EndPollFacts DEF PollArrives
  <2>. QED BY <2>1
<1>5. CASE SyncInterval \/ ReadPpm \/ \E m \in Modes : ClickMode(m)
  <2>1. UNCHANGED <<owed, refreshQueued>>
    BY <1>5 DEF SyncInterval, ReadPpm, ClickMode, notes
  <2>2. poll.stage \in {"settings", "mode"} => poll'.stage \in {"settings", "mode"}
    BY <1>5 DEF SyncInterval, ReadPpm, ClickMode, PollType
  <2>. QED BY <2>1, <2>2
<1>6. CASE UNCHANGED <<owed, poll, refreshQueued>>
  BY <1>6
<1>7. ASSUME NEW l \in Levels, Drag(l) \/ ClickPpm(l)
      PROVE  UNCHANGED <<owed, poll, refreshQueued>>
  BY <1>7 DEF Drag, ClickPpm, polling
<1>8. ASSUME NEW w \in Slots, WriteStep(w)
      PROVE  Refresh \/ UNCHANGED <<owed, poll, refreshQueued>>
  BY <1>8 DEF WriteStep, DebounceTick, ExecuteWrite, WriteReturns, polling
<1>9. ASSUME \/ PollTick \/ StateChanged \/ ClickStep \/ Release \/ OthersChange
             \/ SetSettings \/ UNCHANGED windowVars
      PROVE  Refresh \/ UNCHANGED <<owed, poll, refreshQueued>>
  BY <1>9 DEF PollTick, StateChanged, ClickStep, ExecuteProfile, ProfileReturns, Release,
              OthersChange, SetSettings, polling, notes, windowVars
<1>. QED BY <1>1, <1>2, <1>3, <1>4, <1>5, <1>6, <1>7, <1>8, <1>9 DEF WindowNext, PollStep

\* The choice goes from the slider to a write and from there to the service, or
\* what came between is in why.
LEMMA ChoiceKept ==
    ASSUME WindowInv, [WindowNext]_windowVars
    PROVE  ChoiceInv'
<1>. NumberTypes /\ RecordTypes /\ ChoiceInv /\ dragging \in BOOLEAN /\ debounce \in BOOLEAN
  BY DEF WindowInv, FlagTypes
<1>1. ASSUME UNCHANGED <<choice, dragging, debounce, slider, lastPpm, writes>>,
             why' = why \/ \E c \in {"overlap", "failed", "dragging", "tile", "other"} :
                             why' = Because({c})
      PROVE  ChoiceInv'
  BY <1>1, BecauseFacts DEF ChoiceInv
<1>2. ASSUME NEW l \in Levels, Drag(l) \/ ClickPpm(l) PROVE ChoiceInv'
  BY <1>2 DEF Drag, ClickPpm, Choose, ChoiceInv
<1>3. CASE Release
  BY <1>3 DEF Release, service, notes, ChoiceInv
<1>4. ASSUME NEW w \in Slots, DebounceTick(w) PROVE ChoiceInv'
  <2>. SUFFICES ASSUME choice # Unknown, why' = {}
                PROVE  /\ slider' = choice'
                       /\ \A v \in Slots : writes'[v].stage = "sent" => writes'[v].level = choice'
                       /\ \E v \in Slots : writes'[v].stage = "sent"
    BY <1>4 DEF DebounceTick, ChoiceInv
  <2>1. NoWrites /\ why = {}
    BY <1>4, BecauseFacts DEF DebounceTick
  <2>2. slider = choice /\ slider' = slider /\ choice' = choice
    BY <1>4, <2>1 DEF DebounceTick, ChoiceInv
  <2>3. writes'[w] = [stage |-> "sent", level |-> slider]
    BY <1>4 DEF DebounceTick, RecordTypes
  <2>4. \A v \in Slots \ {w} : writes'[v].stage = "free"
    BY <1>4, <2>1, RecordFacts DEF DebounceTick, RecordTypes, NoWrites
  <2>. QED BY <2>2, <2>3, <2>4
<1>5. ASSUME NEW w \in Slots, ExecuteWrite(w) PROVE ChoiceInv'
  <2>. SUFFICES ASSUME choice # Unknown, why' = {} PROVE ChoiceInv'
    BY <1>5 DEF ExecuteWrite, ChoiceInv
  <2>1. /\ lastPpm' = writes[w].level /\ writes' = [writes EXCEPT ![w].stage = "done"]
        /\ UNCHANGED <<choice, why, dragging, debounce, slider>> /\ writes[w].stage = "sent"
    BY <1>5, BecauseFacts DEF ExecuteWrite
  <2>2. \A v \in Slots : writes'[v].stage = "sent" => writes'[v] = writes[v]
    BY <2>1 DEF RecordTypes, WriteType
  <2>. QED BY <2>1, <2>2 DEF ChoiceInv
<1>6. ASSUME NEW w \in Slots, WriteReturns(w) PROVE ChoiceInv'
  <2>1. UNCHANGED <<choice, why, dragging, debounce, slider, lastPpm>>
    BY <1>6 DEF WriteReturns, notes, service
  <2>2. \A v \in Slots : writes'[v].stage = "sent" <=> writes[v].stage = "sent"
    BY <1>6, RecordFacts DEF WriteReturns, AfterWrite, RecordTypes
  <2>3. \A v \in Slots : writes'[v].stage = "sent" => writes'[v] = writes[v]
    BY <1>6, RecordFacts DEF WriteReturns, AfterWrite, RecordTypes
  <2>. QED BY <2>1, <2>2, <2>3 DEF ChoiceInv
<1>7. CASE PollArrives
  <2>1. UNCHANGED <<choice, dragging, debounce, lastPpm, writes>>
    BY <1>7 DEF PollArrives, service
  <2>2. CASE slider' = slider
    <3>1. why' = why \/ why' = Because({"dragging"})
      BY <1>7 DEF PollArrives
    <3>. QED BY <1>1, <2>1, <2>2, <3>1
  <2>3. CASE slider' # slider
    <3>1. /\ Adoptable /\ slider' = poll.ppm
          /\ why' = IF dragging /\ slider # poll.ppm THEN Because({"dragging"}) ELSE why
      BY <1>7, <2>3 DEF PollArrives
    <3>2. ~debounce
      BY <3>1 DEF Adoptable
    <3>3. CASE dragging
      <4>1. why' = Because({"dragging"})
        BY <2>3, <3>1, <3>3
      <4>. QED BY <2>1, <4>1, BecauseFacts DEF ChoiceInv
    <3>4. CASE ~dragging
      BY <2>1, <3>1, <3>2, <3>4 DEF ChoiceInv
    <3>. QED BY <3>3, <3>4
  <2>. QED BY <2>2, <2>3
<1>8. CASE ExecuteProfile
  <2>1. CASE UNCHANGED <<lastPpm, why>>
    BY <1>1, <1>8, <2>1 DEF ExecuteProfile, input
  <2>2. CASE why' = Because({"tile"})
    BY <1>8, <2>2, BecauseFacts DEF ExecuteProfile, ChoiceInv
  <2>. QED BY <1>8, <2>1, <2>2 DEF ExecuteProfile, Applied
<1>9. CASE OthersChange
  BY <1>9, BecauseFacts DEF OthersChange, ChoiceInv
<1>10. ASSUME NEW m \in Modes, ClickMode(m) PROVE ChoiceInv'
  BY <1>1, <1>10 DEF ClickMode, service, input
<1>11. CASE PollTick \/ SyncInterval \/ ReadMode \/ ReadPpm \/ PollFails
  BY <1>1, <1>11 DEF PollTick, SyncInterval, ReadMode, ReadPpm, PollFails, service, input, notes
<1>12. CASE ProfileReturns \/ SetSettings \/ StateChanged \/ UNCHANGED windowVars
  BY <1>1, <1>12 DEF ProfileReturns, SetSettings, StateChanged, service, input, notes, windowVars
<1>. QED BY <1>2, <1>3, <1>4, <1>5, <1>6, <1>7, <1>8, <1>9, <1>10, <1>11, <1>12
         DEF WindowNext, PollStep, WriteStep, ClickStep

LEMMA WindowInitInv == WindowInit => WindowInv
<1>. SUFFICES ASSUME WindowInit PROVE WindowInv
  OBVIOUS
<1>1. NumberTypes
  BY SecondsAreInts, SecondsAreInt, LevelsAreNat DEF WindowInit, NumberTypes
<1>2. RecordTypes /\ SentInv
  BY RecordFacts DEF WindowInit, RecordTypes, SentInv, Idle
<1>3. FlagTypes
  BY DEF WindowInit, FlagTypes
<1>4. NoRefreshForgotten /\ ChoiceInv
  BY RecordFacts DEF WindowInit, NoRefreshForgotten, ChoiceInv
<1>. QED BY <1>1, <1>2, <1>3, <1>4 DEF WindowInv

LEMMA WindowInvariant == WindowSpec => []WindowInv
<1>1. WindowInv /\ [WindowNext]_windowVars => WindowInv'
  BY NumbersKept, RecordsKept, FlagsKept, RefreshKept, ChoiceKept DEF WindowInv
<1>. QED BY <1>1, WindowInitInv, PTL DEF WindowSpec

-----------------------------------------------------------------------------
(* Theorems.                                                               *)

\* Every variable keeps its type.  What matters: only levels of the slider are
\* sent to the service, and the poll timer never gets less than a second,
\* whatever number the settings file held and the 32-bit cut has made of it.
THEOREM WindowTypeCorrect == WindowSpec => []WindowTypeOK
<1>1. WindowInv => WindowTypeOK
  <2>. SUFFICES ASSUME WindowInv PROVE WindowTypeOK
    OBVIOUS
  <2>1. NumberTypes /\ RecordTypes /\ FlagTypes
    BY DEF WindowInv
  <2>. QED BY <2>1 DEF NumberTypes, RecordTypes, FlagTypes, WindowTypeOK, WriteType, PollType,
                       BusyType
<1>. QED BY <1>1, WindowInvariant, PTL

\* A refresh asked for is followed by a reading of the hardware that begins
\* afterwards, through any number of polls, failures and other refreshes.
THEOREM RefreshesAreKept == WindowSpec => []NoRefreshForgotten
<1>1. WindowInv => NoRefreshForgotten
  BY DEF WindowInv
<1>. QED BY <1>1, WindowInvariant, PTL

\* The level chosen last is in force once no write is under way, unless one of
\* five named things has come between, for any number of writes in flight.
THEOREM ChoiceIsExplained == WindowSpec => []ChoiceStands
<1>1. WindowInv => ChoiceStands
  <2>. SUFFICES ASSUME WindowInv, choice # Unknown, ~dragging, ~debounce, NoWrites, why = {}
                PROVE  lastPpm = choice
    BY DEF ChoiceStands
  <2>1. \A w \in Slots : writes[w].stage = "free"
    BY RecordFacts DEF NoWrites
  <2>. QED BY <2>1 DEF WindowInv, ChoiceInv
<1>. QED BY <1>1, WindowInvariant, PTL
=============================================================================
