-------------------------- MODULE MCSettingsEditor --------------------------
(* Instances of SettingsEditor for TLC.                                    *)
EXTENDS SettingsEditor, TLC

Symmetric == Permutations(Writers)

Game  == [path |-> "game", fields |-> "off", empty |-> FALSE, unknown |-> FALSE]
Newer == [Game EXCEPT !.unknown = TRUE]
Bare  == [path |-> "tool", fields |-> "off", empty |-> TRUE, unknown |-> FALSE]

Foreign   == {<<>>, <<Junk, Newer>>}
SomeFiles == {NoFile, Torn, <<Newer, Junk>>, <<Game, Bare>>}
=============================================================================
