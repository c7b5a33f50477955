-------------------------- MODULE MCTriggerEngine --------------------------
(* Instances of TriggerEngine for TLC: one program and a few rules that     *)
(* between them use every action.                                          *)
EXTENDS TriggerEngine, TLC

Symmetric == Permutations(Workers)

NoOffset   == [d \in Domains |-> 0]
CoreOffset == [NoOffset EXCEPT !["core"] = 300]

\* Full use: beast with a level while the program runs, smart afterwards.
Game == [stem |-> "game", enabled |-> TRUE, open |-> "beast", close |-> "smart",
         ppm |-> 2, openTp |-> "tp_off", closeTp |-> "tp_on", oc |-> NoOffset,
         fix |-> TRUE]

Movie      == [Game EXCEPT !.open = "high", !.openTp = "none", !.closeTp = "none"]
Level      == [Movie EXCEPT !.open = "beast", !.fix = FALSE]
BadLevel   == [Game EXCEPT !.ppm = 7, !.close = "high", !.fix = FALSE]
Disabled   == [Game EXCEPT !.enabled = FALSE, !.oc = CoreOffset]
NoPath     == [Game EXCEPT !.stem = NoStem]
Overclock  == [Game EXCEPT !.oc = CoreOffset]
OpenOnly   == [Game EXCEPT !.close = "none"]
TouchOnly  == [Movie EXCEPT !.openTp = "tp_off", !.open = "smart", !.fix = FALSE,
                          !.oc = CoreOffset]

AllLevels == EcLevels
AllModes  == EcModes

SomeLists   == {<<Level>>, <<TouchOnly, Disabled>>, <<>>}
SingleRules == {<<Game>>, <<Movie>>, <<BadLevel>>, <<Disabled>>, <<NoPath>>, <<Overclock>>,
                <<OpenOnly>>}
GameOnly    == {<<Game>>}
=============================================================================
