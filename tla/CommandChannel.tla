--------------------------- MODULE CommandChannel ---------------------------
(***************************************************************************)
(* What Invoke promises its callers: HONOR WMI commands run one caller at  *)
(* a time, a call runs its command at most twice, and it answers success   *)
(* only for a command that did run.  HardwareCore takes this for granted   *)
(* when it makes an Invoke one step; WmiConnection implements it.          *)
(***************************************************************************)
EXTENDS Integers

CONSTANTS Threads, NoOne

VARIABLES asking,  \* callers waiting for their turn
          turn,    \* the caller whose command is being run, or NoOne
          runs,    \* how often the hardware has run that command
          reply    \* what each caller was answered last

vars == <<asking, turn, runs, reply>>

Init ==
    /\ asking = {}
    /\ turn = NoOne
    /\ runs = 0
    /\ reply = [t \in Threads |-> "none"]

Ask(t) ==
    /\ t \notin asking \cup {turn}
    /\ asking' = asking \cup {t}
    /\ reply' = [reply EXCEPT ![t] = "none"]
    /\ UNCHANGED <<turn, runs>>

Take(t) ==
    /\ turn = NoOne
    /\ t \in asking
    /\ asking' = asking \ {t}
    /\ turn' = t
    /\ runs' = 0
    /\ UNCHANGED reply

\* The command reaches the hardware, and the answer may get lost on its way.
Run ==
    /\ turn # NoOne
    /\ runs < 2
    /\ runs' = runs + 1
    /\ UNCHANGED <<asking, turn, reply>>

\* The last run may be the step that answers.
Answer(r) ==
    /\ turn # NoOne
    /\ runs' \in {runs, runs + 1}
    /\ runs' <= 2
    /\ r = "ok" => runs' >= 1
    /\ reply' = [reply EXCEPT ![turn] = r]
    /\ turn' = NoOne
    /\ UNCHANGED asking

\* A caller turns to other things.
Forget(t) ==
    /\ t \notin asking \cup {turn}
    /\ reply' = [reply EXCEPT ![t] = "none"]
    /\ UNCHANGED <<asking, turn, runs>>

Next ==
    \/ \E t \in Threads : Ask(t) \/ Take(t) \/ Forget(t)
    \/ Run
    \/ \E r \in {"ok", "failed"} : Answer(r)

Spec == Init /\ [][Next]_vars
=============================================================================
