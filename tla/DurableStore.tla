---------------------------- MODULE DurableStore ----------------------------
(***************************************************************************)
(* What a store of this service promises its users: it serves one value,   *)
(* replaces it as a whole, and what survives a crash is a value it served, *)
(* written as a whole.  TriggerStore implements it with a lock, a          *)
(* temporary file and a rename.                                            *)
(***************************************************************************)
CONSTANTS Values,   \* what the store may serve
          Empty     \* what it serves when nothing readable was saved

VARIABLES up,       \* is the service running?
          value,    \* what it serves while it is
          saved     \* what the next start finds

dvars == <<up, value, saved>>

DurableInit == up = FALSE /\ value = Empty /\ saved \in Values

\* Replacing and saving are two steps; a crash may come between them.
Replace    == up /\ value' \in Values /\ UNCHANGED <<up, saved>>
Persist    == up /\ saved' = value /\ UNCHANGED <<up, value>>
Crash      == up /\ up' = FALSE /\ value' = Empty /\ UNCHANGED saved
Start      == ~up /\ up' = TRUE /\ value' \in {saved, Empty} /\ UNCHANGED saved

DurableNext == Replace \/ Persist \/ Crash \/ Start

DurableSpec == DurableInit /\ [][DurableNext]_dvars
=============================================================================
