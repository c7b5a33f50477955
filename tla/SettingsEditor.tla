--------------------------- MODULE SettingsEditor ---------------------------
(***************************************************************************)
(* The settings window editing the rules of the service: the list          *)
(* _triggers it has loaded once, and the saves it starts after each edit   *)
(* without waiting for the one before.  A save is given the list object    *)
(* that _triggers names (LoadAsync puts another there), connects on a      *)
(* thread of the pool, encodes that object as it is by then, and its own   *)
(* connection is served by its own worker - in any order, as the store's   *)
(* mutex falls.                                                            *)
(* The store is TriggerStore, its writers the workers of the saves.        *)
(*                                                                         *)
(* External: the user, and other clients of the pipe.                      *)
(***************************************************************************)
EXTENDS TriggerStore

CONSTANTS NewFields,  \* the other fields of a rule just added
          ForeignLists, \* what another client may save
          MaxEdits,   \* bound: edits
          MaxForeign  \* bound: saves by other clients

ASSUME BoundsAreNat    == MaxEdits \in Nat /\ MaxForeign \in Nat
ASSUME NewFieldsInside == NewFields \in Fields
ASSUME ForeignAreArrays == ForeignLists \subseteq Arrays

VARIABLES
    rules,    \* the list object in _triggers
    first,    \* the object the window began with, once LoadAsync has replaced it
    early,    \* saves not yet sent that were given an object before it was loaded
    view,     \* LoadAsync: "loading", "fetched", "open"
    fetched,  \* the reply to GetTriggers
    call,     \* the saves: "idle", "connecting", "sent"
    content,  \* the list a save has encoded
    loaded,   \* LoadAsync has put the service's list into _triggers
    adrift,   \* history: something came between the window's list and the service's
    deleted,  \* history: paths the user has deleted from the window's list
    edits, foreign   \* counters of the bounds

calls  == <<call, early, content>>
window == <<rules, first, view, fetched, calls, loaded, deleted, edits>>
evars  == <<svars, window, adrift, foreign>>

EditorInit ==
    /\ StoreInit
    /\ rules = <<>> /\ first = <<>> /\ view = "loading" /\ fetched = <<>>
    /\ call = [w \in Writers |-> "idle"] /\ content = [w \in Writers |-> <<>>]
    /\ early = {}
    \* the window has seen nothing of the service's list yet
    /\ loaded = FALSE /\ adrift = TRUE /\ deleted = {}
    /\ edits = 0 /\ foreign = 0

PathsOf(list) == {list[i].path : i \in DOMAIN list}
Sent    == {w \in Writers : call[w] = "sent"}
Pending == {w \in Writers : call[w] # "idle"}

-----------------------------------------------------------------------------
(* LoadAsync.                                                              *)

\* GetTriggers: asDtos under the store's mutex, without the unknown fields (an
\* action left empty shows as "none", which replace makes of it).
Fetch ==
    /\ view = "loading" /\ LockFree
    /\ view' = "fetched"
    /\ fetched' = FromWire(mem)
    /\ UNCHANGED <<svars, rules, first, calls, loaded, adrift, deleted, edits, foreign>>

\* No service, no answer: the window goes on with the empty list.
FetchFails ==
    /\ view = "loading"
    /\ view' = "open"
    /\ UNCHANGED <<svars, rules, first, fetched, calls, loaded, adrift, deleted, edits,
                   foreign>>

\* What was fetched takes the place of the list the window began with.
Loaded ==
    /\ view = "fetched"
    /\ view' = "open"
    /\ rules' = fetched /\ first' = rules /\ fetched' = <<>>
    /\ loaded' = TRUE /\ deleted' = {}
    /\ adrift' = (~up \/ FromWire(mem) # fetched \/ Sent # {})
    /\ UNCHANGED <<svars, calls, edits, foreign>>

-----------------------------------------------------------------------------
(* Edits, each followed by SaveTriggersAsync.                              *)

\* Mutant: no second save while one is on its way.
SaveUnlessSaving(w) ==
    /\ call' = IF Pending = {} THEN [call EXCEPT ![w] = "connecting"] ELSE call
    /\ early' = IF loaded \/ Pending # {} THEN early ELSE early \cup {w}

\* The save is given the list object that _triggers names now.
StartSave(w) ==
    /\ call' = [call EXCEPT ![w] = "connecting"]
    /\ early' = IF loaded THEN early ELSE early \cup {w}

Edit(w, list) ==
    /\ edits < MaxEdits /\ edits' = edits + 1
    /\ call[w] = "idle" /\ at[w] = "idle"
    /\ rules' = list
    /\ StartSave(w)
    /\ UNCHANGED <<svars, first, view, fetched, content, loaded, adrift, foreign>>

\* Mutant: the other rules are forgotten.
OnlyCommitted(p, f) ==
    LET i == CHOOSE k \in DOMAIN rules : rules[k].path = p
    IN  <<[rules[i] EXCEPT !.fields = f]>>

\* CommitEdit: the edited rule in place of every rule of its path.
Committed(p, f) ==
    LET i == CHOOSE k \in DOMAIN rules : rules[k].path = p
    IN  [k \in DOMAIN rules |->
            IF rules[k].path = p THEN [rules[i] EXCEPT !.fields = f] ELSE rules[k]]

EditRule(w, p, f) ==
    /\ p \in PathsOf(rules)
    /\ Edit(w, Committed(p, f))
    /\ UNCHANGED deleted

\* OnAddProgramClick, which does not wait for LoadAsync either.
AddRule(w, p) ==
    /\ p \notin PathsOf(rules)
    /\ Edit(w, Append(rules, [path |-> p, fields |-> NewFields,
                              empty |-> FALSE, unknown |-> FALSE]))
    /\ UNCHANGED deleted

DeleteRule(w, p) ==
    /\ p \in PathsOf(rules)
    /\ Edit(w, Kept(rules, {i \in DOMAIN rules : rules[i].path # p}))
    /\ deleted' = deleted \cup {p}

-----------------------------------------------------------------------------
(* Saves.                                                                  *)

\* The object a save was given, as it is now: the one that was replaced changes
\* no more.
ListOf(w) == IF loaded /\ w \in early THEN first ELSE rules

\* Connected: the list is encoded and sent.
Send(w) ==
    /\ call[w] = "connecting" /\ up
    /\ call' = [call EXCEPT ![w] = "sent"]
    /\ content' = [content EXCEPT ![w] = ListOf(w)]
    /\ early' = early \ {w}
    /\ adrift' = (adrift \/ Sent # {} \/ ListOf(w) # rules)
    /\ UNCHANGED <<svars, rules, first, view, fetched, loaded, deleted, edits, foreign>>

\* The connection times out, or the list changes while it is encoded, which
\* ends the save with an exception nobody sees.
CallFails(w) ==
    /\ call[w] = "connecting"
    /\ call' = [call EXCEPT ![w] = "idle"]
    /\ early' = early \ {w}
    /\ adrift' = TRUE
    /\ UNCHANGED <<svars, rules, first, view, fetched, content, loaded, deleted, edits,
                   foreign>>

\* A worker serves the request.  A save of the window's present list, with no
\* other under way, sets right whatever went wrong before.
Serve(w) ==
    /\ call[w] = "sent"
    /\ Replace(w, content[w])
    /\ call' = [call EXCEPT ![w] = "idle"]
    /\ content' = [content EXCEPT ![w] = <<>>]
    /\ adrift' = (adrift /\ ~(content[w] = rules /\ Sent = {w}))
    /\ UNCHANGED <<rules, first, early, view, fetched, loaded, deleted, edits, foreign>>

\* Another client of the pipe saves a list of its own.
ForeignSave(w) ==
    /\ foreign < MaxForeign /\ foreign' = foreign + 1
    /\ call[w] = "idle"
    /\ \E list \in ForeignLists : Replace(w, list)
    /\ adrift' = TRUE
    /\ UNCHANGED window

-----------------------------------------------------------------------------
(* The service under the saves.                                            *)

\* The worker's part in writing the file, and a failure of it.
StoreStep(w) == (Save(w) \/ GiveUp(w)) /\ UNCHANGED <<window, adrift, foreign>>

\* A crash takes requests with it, and lists that never reached the file.
ServiceCrash ==
    /\ Crash
    /\ call' = [w \in Writers |-> IF w \in Sent THEN "idle" ELSE call[w]]
    /\ content' = [w \in Writers |-> <<>>]
    /\ adrift' = (adrift \/ trouble \/ Sent # {} \/ \E w \in Writers : at[w] # "idle")
    /\ UNCHANGED <<rules, first, early, view, fetched, loaded, deleted, edits, foreign>>

ServiceStart ==
    /\ Start
    /\ adrift' = (adrift \/ mem' # FromDisk(disk))
    /\ UNCHANGED <<window, foreign>>

EditorNext ==
    \/ Fetch \/ FetchFails \/ Loaded
    \/ ServiceCrash \/ ServiceStart
    \/ \E w \in Writers :
        \/ StoreStep(w) \/ Send(w) \/ CallFails(w) \/ Serve(w) \/ ForeignSave(w)
        \/ \E p \in Paths, f \in Fields : EditRule(w, p, f)
        \/ \E p \in Paths : AddRule(w, p) \/ DeleteRule(w, p)

EditorSpec == EditorInit /\ [][EditorNext]_evars

-----------------------------------------------------------------------------
(* Properties.                                                             *)

\* Every edit lands: when no save is under way, the service's list is the
\* window's, although saves encode whatever their list is by then and overtake
\* each other - unless one failed, two were sent at once, one carried the list
\* from before loading, or another client or a crash intervened; and the next
\* save of the present list that goes through alone repairs all of these.
EditsLand ==
    up /\ ~adrift /\ Pending = {} => FromWire(mem) = rules

\* Only the user removes rules: while the window's list and the service's have
\* not come apart, a rule the service holds disappears only if the user deleted
\* it.  They are apart before the window has loaded (or saved over) the
\* service's list: the first save of a window that could not load, and one that
\* was begun before loading ended, do replace all rules (SettingsWindow.xaml.cs:65).
OnlyUserRemoves ==
    [][up /\ up' /\ ~adrift /\ ~adrift'
         => PathsOf(mem) \ PathsOf(mem') \subseteq deleted]_evars
=============================================================================
