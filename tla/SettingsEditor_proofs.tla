------------------------ MODULE SettingsEditor_proofs ------------------------
(* Proofs about SettingsEditor, for any number of saves and any edits.     *)
EXTENDS SettingsEditor, TriggerStore_proofs

-----------------------------------------------------------------------------
(* The editor does to the store what the store's own specification allows, *)
(* so the store's theorems hold under it.                                  *)

CallStates == {"idle", "connecting", "sent"}

EditorTypeOK ==
    /\ rules \in Seq(Clean) /\ first \in Seq(Clean) /\ fetched \in Seq(Clean)
    /\ call \in [Writers -> CallStates]
    /\ content \in [Writers -> Seq(Clean)]
    /\ early \subseteq {w \in Writers : call[w] = "connecting"}
    /\ ~up => Sent = {}

LEMMA CleanArrays == Seq(Clean) \subseteq Arrays /\ <<>> \in Seq(Clean)
BY CleanAreRules DEF Clean

\* Every step of the editor is a step of the store or leaves it alone.
LEMMA EditorStepsStore ==
    ASSUME EditorTypeOK, [EditorNext]_evars
    PROVE  [StoreNext]_svars
<1>1. CASE Fetch \/ FetchFails \/ Loaded \/ UNCHANGED evars
  BY <1>1 DEF Fetch, FetchFails, Loaded, evars
<1>2. CASE ServiceCrash \/ ServiceStart
  BY <1>2 DEF ServiceCrash, ServiceStart, StoreNext
<1>3. ASSUME NEW w \in Writers, StoreStep(w) PROVE StoreNext
  BY <1>3 DEF StoreStep, StoreNext
<1>4. ASSUME NEW w \in Writers, Send(w) \/ CallFails(w) PROVE UNCHANGED svars
  BY <1>4 DEF Send, CallFails
<1>5. ASSUME NEW w \in Writers, Serve(w) PROVE StoreNext
  <2>1. content[w] \in Arrays
    BY CleanArrays DEF EditorTypeOK
  <2>. QED BY <1>5, <2>1 DEF Serve, StoreNext
<1>6. ASSUME NEW w \in Writers, ForeignSave(w) PROVE StoreNext
  BY <1>6, ForeignAreArrays DEF ForeignSave, StoreNext
<1>7. ASSUME NEW w \in Writers, NEW p, NEW f,
             EditRule(w, p, f) \/ AddRule(w, p) \/ DeleteRule(w, p)
      PROVE  UNCHANGED svars
  BY <1>7 DEF EditRule, AddRule, DeleteRule, Edit
<1>. QED BY <1>1, <1>2, <1>3, <1>4, <1>5, <1>6, <1>7 DEF EditorNext

-----------------------------------------------------------------------------
(* The three edits.                                                        *)

\* The rules of one list whose program another has no rule for.
Lost(from, to) == PathsOf(from) \ PathsOf(to)

LEMMA CleanRule ==
    ASSUME NEW r \in Clean, NEW f \in Fields
    PROVE  [r EXCEPT !.fields = f] \in Clean /\ [r EXCEPT !.fields = f].path = r.path
BY DEF Clean, Rules

LEMMA CleanPaths ==
    ASSUME NEW list \in Seq(Clean), NEW k \in DOMAIN list
    PROVE  list[k] \in Clean /\ list[k].path \in PathsOf(list)
BY DEF PathsOf

\* Committing an edit replaces rules by rules of the same program.
LEMMA CommittedIsClean ==
    ASSUME rules \in Seq(Clean), NEW f \in Fields, NEW p \in PathsOf(rules)
    PROVE  Committed(p, f) \in Seq(Clean) /\ Lost(rules, Committed(p, f)) = {}
<1>. DEFINE i == CHOOSE k \in DOMAIN rules : rules[k].path = p
            new == [rules[i] EXCEPT !.fields = f]
<1>1. i \in DOMAIN rules /\ rules[i].path = p
  BY DEF PathsOf
<1>2. new \in Clean /\ new.path = p
  BY <1>1, CleanPaths, CleanRule
<1>. HIDE DEF i
<1>3. Committed(p, f) = [k \in DOMAIN rules |-> IF rules[k].path = p THEN new ELSE rules[k]]
  BY DEF Committed, i
<1>. HIDE DEF new
<1>4. DOMAIN rules = 1..Len(rules) /\ Len(rules) \in Nat
  OBVIOUS
<1>5. Committed(p, f) \in Seq(Clean)
  BY <1>2, <1>3, <1>4
<1>6. \A k \in DOMAIN rules : Committed(p, f)[k].path = rules[k].path
  BY <1>2, <1>3
<1>. QED BY <1>3, <1>5, <1>6 DEF Lost, PathsOf

\* Adding a rule keeps the others.
LEMMA AddedIsClean ==
    ASSUME rules \in Seq(Clean), NEW p \in Paths
    PROVE  LET r == [path |-> p, fields |-> NewFields, empty |-> FALSE, unknown |-> FALSE]
           IN  /\ Append(rules, r) \in Seq(Clean)
               /\ Lost(rules, Append(rules, r)) = {}
<1>. DEFINE r == [path |-> p, fields |-> NewFields, empty |-> FALSE, unknown |-> FALSE]
<1>1. r \in Clean
  BY NewFieldsInside DEF Clean, Rules
<1>. HIDE DEF r
<1>2. /\ Append(rules, r) \in Seq(Clean)
      /\ \A k \in DOMAIN rules : /\ k \in DOMAIN Append(rules, r)
                                 /\ Append(rules, r)[k] = rules[k]
  BY <1>1
<1>3. Lost(rules, Append(rules, r)) = {}
  BY <1>2 DEF Lost, PathsOf
<1>. QED BY <1>2, <1>3 DEF r

\* Deleting a program's rules keeps those of all others.
LEMMA DeletedIsClean ==
    ASSUME rules \in Seq(Clean), NEW p
    PROVE  LET list == Kept(rules, {i \in DOMAIN rules : rules[i].path # p})
           IN  list \in Seq(Clean) /\ Lost(rules, list) \subseteq {p}
<1>. DEFINE places == {i \in DOMAIN rules : rules[i].path # p}
            list == Kept(rules, places)
<1>1. list \in Seq(Clean) /\ Range(list) = {rules[i] : i \in places}
  BY KeptProperties
<1>2. \A i \in DOMAIN rules : rules[i].path # p => rules[i] \in Range(list)
  BY <1>1
<1>. HIDE DEF list
<1>3. \A i \in DOMAIN rules : rules[i].path # p => \E k \in DOMAIN list : list[k] = rules[i]
  BY <1>2 DEF Range
<1>4. Lost(rules, list) \subseteq {p}
  BY <1>3 DEF Lost, PathsOf
<1>. QED BY <1>1, <1>4 DEF list

\* A clean list served to the service is served as it is.
LEMMA ServedPaths ==
    ASSUME NEW list \in Seq(Rules)
    PROVE  PathsOf(FromWire(list)) = PathsOf(list)
<1>1. \A i \in DOMAIN list : FromWire(list)[i].path = list[i].path
  <2>. SUFFICES ASSUME NEW i \in DOMAIN list PROVE FromWire(list)[i].path = list[i].path
    OBVIOUS
  <2>1. list[i] \in Rules /\ list[i] # Junk
    BY JunkIsNoRule
  <2>. QED BY <2>1 DEF FromWire, Normal, Rules
<1>. QED BY <1>1 DEF PathsOf, FromWire

-----------------------------------------------------------------------------
(* The inductive invariant.  While nothing has come between the window's   *)
(* list and the service's, at most one save is on its way to the store, and *)
(* what the service serves, the save carries and the window shows differ   *)
(* by deletions of the user only; unless an edit still waits for its       *)
(* connection, the last of them in flight or served is the window's list.  *)

\* What the service serves, or would after a start.
Serving == IF up THEN mem ELSE FromDisk(disk)

\* A save that will encode the window's present list.
Carries(w) == call[w] = "connecting" /\ ~(loaded /\ w \in early)

Following ==
    ~adrift =>
        /\ \A v, w \in Sent : v = w
        /\ Lost(Serving, rules) \subseteq deleted
        /\ \A w \in Sent : /\ Lost(Serving, content[w]) \subseteq deleted
                           /\ Lost(content[w], rules) \subseteq deleted
        /\ \/ \E w \in Writers : Carries(w)
           \/ \E w \in Sent : content[w] = rules
           \/ Sent = {} /\ FromWire(Serving) = rules

EditorInv == StoreInv /\ EditorTypeOK /\ Following

LEMMA EditorInitInv == EditorInit => EditorInv
<1>. SUFFICES ASSUME EditorInit PROVE EditorInv
  OBVIOUS
<1>1. StoreInv
  BY StoreInitInv DEF EditorInit
<1>2. EditorTypeOK
  BY CleanArrays DEF EditorInit, EditorTypeOK, CallStates, Sent
<1>3. Following
  BY DEF EditorInit, Following
<1>. QED BY <1>1, <1>2, <1>3 DEF EditorInv

\* Loading the list: what was fetched is shown, and compared with what is served.
LEMMA LoadingFollows ==
    ASSUME EditorInv, Fetch \/ FetchFails \/ Loaded
    PROVE  EditorTypeOK' /\ Following'
<1>1. CASE Fetch
  <2>1. FromWire(mem) \in Seq(Clean)
    BY WireIsClean, CleanAreRules DEF EditorInv, StoreInv, StoreTypeOK
  <2>. QED BY <1>1, <2>1
           DEF Fetch, EditorInv, EditorTypeOK, Following, Carries, Sent, Serving,
               svars, calls
<1>2. CASE FetchFails
  BY <1>2 DEF FetchFails, EditorInv, EditorTypeOK, Following, Carries, Sent, Serving,
              svars, calls
<1>3. CASE Loaded
  <2>1. EditorTypeOK'
    BY <1>3, CleanArrays DEF Loaded, EditorInv, EditorTypeOK, Sent, svars, calls
  <2>2. ASSUME ~adrift' PROVE Following'
    <3>1. up /\ FromWire(mem) = rules' /\ Sent = {} /\ mem \in Seq(Rules)
      BY <1>3, <2>2 DEF Loaded, EditorInv, StoreInv, StoreTypeOK
    <3>2. Sent' = {} /\ Serving' = mem
      BY <1>3, <3>1 DEF Loaded, Sent, Serving, svars, calls
    <3>3. Lost(mem, rules') = {}
      BY <3>1, ServedPaths DEF Lost
    <3>. QED BY <3>1, <3>2, <3>3 DEF Following, Lost, PathsOf
  <2>. QED BY <2>1, <2>2 DEF Following
<1>. QED BY <1>1, <1>2, <1>3

\* An edit that keeps the rules the user did not delete.
LEMMA EditFollows ==
    ASSUME EditorInv, NEW w \in Writers, NEW list \in Seq(Clean), Edit(w, list),
           deleted \subseteq deleted', Lost(rules, list) \subseteq deleted'
    PROVE  EditorTypeOK' /\ Following'
<1>1. Sent' = Sent /\ Carries(w)' /\ Serving' = Serving
  <2>1. call'[w] = "connecting" /\ Sent' = Sent /\ Serving' = Serving
    BY DEF EditorInv, EditorTypeOK, Edit, StartSave, Sent, Serving, svars
  <2>2. loaded' => w \notin early'
    BY DEF EditorInv, EditorTypeOK, Edit, StartSave
  <2>. QED BY <2>1, <2>2 DEF Carries
<1>2. EditorTypeOK'
  BY <1>1 DEF EditorInv, EditorTypeOK, Edit, StartSave, CallStates, svars
<1>3. \A from : Lost(from, rules) \subseteq deleted => Lost(from, list) \subseteq deleted'
  BY DEF Lost
<1>4. Following'
  BY <1>1, <1>3 DEF EditorInv, Following, Edit
<1>. QED BY <1>2, <1>4

LEMMA EditsFollow ==
    ASSUME EditorInv, NEW w \in Writers, NEW p \in Paths, NEW f \in Fields,
           EditRule(w, p, f) \/ AddRule(w, p) \/ DeleteRule(w, p)
    PROVE  EditorTypeOK' /\ Following'
<1>. rules \in Seq(Clean)
  BY DEF EditorInv, EditorTypeOK
<1>1. CASE EditRule(w, p, f)
  BY <1>1, CommittedIsClean, EditFollows DEF EditRule
<1>2. CASE AddRule(w, p)
  BY <1>2, AddedIsClean, EditFollows DEF AddRule
<1>3. CASE DeleteRule(w, p)
  BY <1>3, DeletedIsClean, EditFollows DEF DeleteRule
<1>. QED BY <1>1, <1>2, <1>3

\* A save that is connected, and one that fails.
LEMMA SendFollows ==
    ASSUME EditorInv, NEW w \in Writers, Send(w) \/ CallFails(w)
    PROVE  EditorTypeOK' /\ Following'
<1>1. CASE Send(w)
  <2>1. Sent' = Sent \cup {w} /\ up /\ content'[w] = ListOf(w) /\ Serving' = Serving
    BY <1>1 DEF Send, Sent, Serving, svars, EditorInv, EditorTypeOK
  <2>2. EditorTypeOK'
    BY <1>1, <2>1 DEF Send, ListOf, EditorInv, EditorTypeOK, CallStates, svars
  <2>3. ASSUME ~adrift' PROVE Following'
    <3>1. /\ Sent' = {w} /\ content'[w] = rules /\ ~adrift
          /\ UNCHANGED <<rules, deleted>>
      BY <1>1, <2>1, <2>3 DEF Send
    <3>. QED BY <2>1, <3>1 DEF EditorInv, Following, Lost
  <2>. QED BY <2>2, <2>3 DEF Following
<1>2. CASE CallFails(w)
  <2>1. Sent' = Sent
    BY <1>2 DEF CallFails, Sent, EditorInv, EditorTypeOK
  <2>. QED BY <1>2, <2>1
           DEF CallFails, EditorInv, EditorTypeOK, CallStates, Following, svars
<1>. QED BY <1>1, <1>2

\* A save that is served: the service's list becomes the one it carries.
LEMMA ServeFollows ==
    ASSUME EditorInv, NEW w \in Writers, Serve(w)
    PROVE  EditorTypeOK' /\ Following'
<1>1. content[w] \in Seq(Clean) /\ w \in Sent /\ Sent' = Sent \ {w}
  BY DEF EditorInv, EditorTypeOK, Serve, Sent
<1>2. up /\ up' /\ mem' = content[w] /\ Serving' = content[w]
  BY <1>1, CleanIsFixed DEF Serve, Replace, LockFree, Serving
<1>3. EditorTypeOK'
  BY <1>1, <1>2, CleanArrays DEF Serve, EditorInv, EditorTypeOK, CallStates
<1>4. ASSUME ~adrift' PROVE Following'
  <2>. UNCHANGED <<rules, deleted, loaded, early>>
    BY DEF Serve
  <2>1. CASE adrift
    <3>1. content[w] = rules /\ Sent' = {}
      BY <1>1, <1>4, <2>1 DEF Serve
    <3>2. FromWire(rules) = rules
      BY <1>1, <3>1, CleanIsFixed
    <3>. QED BY <1>2, <3>1, <3>2 DEF Following, Lost
  <2>2. CASE ~adrift
    <3>1. Sent = {w} /\ Sent' = {}
      BY <1>1, <2>2 DEF EditorInv, Following
    <3>2. Lost(content[w], rules) \subseteq deleted
      BY <1>1, <2>2 DEF EditorInv, Following
    <3>3. \/ \E v \in Writers : Carries(v)'
          \/ FromWire(content[w]) = rules
      <4>1. CASE \E v \in Writers : Carries(v)
        BY <4>1 DEF Serve, Carries, EditorInv, EditorTypeOK
      <4>2. CASE content[w] = rules
        BY <1>1, <4>2, CleanIsFixed
      <4>. QED BY <2>2, <3>1, <4>1, <4>2 DEF EditorInv, Following
    <3>. QED BY <1>2, <3>1, <3>2, <3>3 DEF Following
  <2>. QED BY <2>1, <2>2
<1>. QED BY <1>3, <1>4 DEF Following

\* The service under the saves: files, failures, other clients.
LEMMA StoreFollows ==
    ASSUME EditorInv, NEW w \in Writers, StoreStep(w) \/ ForeignSave(w)
    PROVE  EditorTypeOK' /\ Following'
<1>1. /\ UNCHANGED <<rules, first, early, fetched, call, content, loaded, deleted>>
      /\ Sent' = Sent
  BY DEF StoreStep, ForeignSave, window, calls, Sent
<1>2. up /\ up'
  BY DEF StoreStep, ForeignSave, Save, CreateTmp, WriteTmp, Rename, GiveUp, Replace,
         LockFree, EditorInv, StoreInv, StoreTypeOK
<1>3. EditorTypeOK'
  BY <1>1, <1>2 DEF EditorInv, EditorTypeOK
<1>4. CASE StoreStep(w)
  <2>1. UNCHANGED <<mem, adrift>>
    BY <1>4 DEF StoreStep, Save, CreateTmp, WriteTmp, Rename, GiveUp
  <2>2. Serving' = Serving
    BY <1>2, <2>1 DEF Serving
  <2>. QED BY <1>1, <1>3, <2>1, <2>2 DEF EditorInv, Following, Carries
<1>5. CASE ForeignSave(w)
  BY <1>3, <1>5 DEF ForeignSave, Following
<1>. QED BY <1>4, <1>5

\* A crash loses nothing but what adrift counts, and a start serves what is there.
LEMMA LifeFollows ==
    ASSUME EditorInv, ServiceCrash \/ ServiceStart
    PROVE  EditorTypeOK' /\ Following'
<1>1. CASE ServiceCrash
  <2>1. /\ Sent' = {} /\ ~up' /\ up
        /\ UNCHANGED <<rules, first, early, fetched, loaded, deleted, disk>>
    BY <1>1 DEF ServiceCrash, Crash, Sent
  <2>2. EditorTypeOK'
    <3>1. /\ call' \in [Writers -> CallStates]
          /\ \A w \in Writers : call[w] = "connecting" => call'[w] = "connecting"
      BY <1>1 DEF ServiceCrash, Sent, EditorInv, EditorTypeOK, CallStates
    <3>2. content' \in [Writers -> Seq(Clean)]
      BY <1>1, CleanArrays DEF ServiceCrash
    <3>. QED BY <2>1, <3>1, <3>2 DEF EditorInv, EditorTypeOK
  <2>3. ASSUME ~adrift' PROVE Following'
    <3>1. ~adrift /\ ~trouble /\ Sent = {} /\ \A w \in Writers : at[w] = "idle"
      BY <1>1, <2>3 DEF ServiceCrash
    <3>2. Serving' = mem /\ Serving = mem
      BY <2>1, <3>1 DEF EditorInv, StoreInv, NothingToLose, Serving
    <3>3. \A w \in Writers : call'[w] = call[w]
      BY <1>1, <3>1 DEF ServiceCrash
    <3>. QED BY <2>1, <2>3, <3>1, <3>2, <3>3 DEF EditorInv, Following, Carries
  <2>. QED BY <2>2, <2>3 DEF Following
<1>2. CASE ServiceStart
  <2>1. /\ UNCHANGED <<rules, first, early, fetched, call, content, loaded, deleted, disk>>
        /\ Sent' = Sent /\ ~up /\ up'
    BY <1>2 DEF ServiceStart, Start, window, calls, Sent
  <2>2. EditorTypeOK'
    BY <2>1 DEF EditorInv, EditorTypeOK
  <2>3. ASSUME ~adrift' PROVE Following'
    <3>1. ~adrift /\ Serving' = Serving
      BY <1>2, <2>1, <2>3 DEF ServiceStart, Serving
    <3>. QED BY <2>1, <3>1 DEF EditorInv, Following, Carries
  <2>. QED BY <2>2, <2>3 DEF Following
<1>. QED BY <1>1, <1>2

LEMMA EditorStepPreserves == EditorInv /\ [EditorNext]_evars => EditorInv'
<1>. SUFFICES ASSUME EditorInv, [EditorNext]_evars PROVE EditorInv'
  OBVIOUS
<1>1. StoreInv'
  BY EditorStepsStore, StoreStepPreserves DEF EditorInv
<1>2. ASSUME UNCHANGED evars PROVE EditorTypeOK' /\ Following'
  BY <1>2 DEF EditorInv, EditorTypeOK, Following, Carries, Sent, Serving, evars, window,
              calls, svars
<1>3. EditorTypeOK' /\ Following'
  <2>1. ASSUME NEW w \in Writers, NEW p \in Paths, AddRule(w, p) \/ DeleteRule(w, p)
        PROVE  EditorTypeOK' /\ Following'
    BY <2>1, NewFieldsInside, EditsFollow
  <2>. QED BY <1>2, <2>1, LoadingFollows, EditsFollow, SendFollows, ServeFollows,
              StoreFollows, LifeFollows DEF EditorNext
<1>. QED BY <1>1, <1>3 DEF EditorInv

LEMMA EditorInvariant == EditorSpec => []EditorInv
BY EditorInitInv, EditorStepPreserves, PTL DEF EditorSpec

-----------------------------------------------------------------------------
(* The results.                                                            *)

\* The window and the other clients use the store as its specification says: the
\* store's theorems hold under it.
THEOREM EditorUsesStore == EditorSpec => StoreSpec
<1>1. EditorInit => StoreInit
  BY DEF EditorInit
<1>2. EditorInv /\ [EditorNext]_evars => [StoreNext]_svars
  BY EditorStepsStore DEF EditorInv
<1>. QED BY <1>1, <1>2, EditorInvariant, PTL DEF EditorSpec, StoreSpec

\* With no save under way the service serves the window's list, however many
\* saves overtook each other, unless something the history names came between.
THEOREM EveryEditLands == EditorSpec => []EditsLand
<1>1. EditorInv => EditsLand
  <2>1. Pending = {} => Sent = {} /\ \A w \in Writers : ~Carries(w)
    BY DEF Pending, Sent, Carries
  <2>. QED BY <2>1 DEF EditorInv, Following, EditsLand, Serving
<1>. QED BY <1>1, EditorInvariant, PTL

\* While the window follows the service, a rule the service holds disappears only
\* if the user deleted it.
THEOREM OnlyTheUserRemoves == EditorSpec => OnlyUserRemoves
<1>. DEFINE Kept_ == up /\ up' /\ ~adrift /\ ~adrift'
                       => PathsOf(mem) \ PathsOf(mem') \subseteq deleted
<1>1. EditorInv /\ [EditorNext]_evars => [Kept_]_evars
  <2>. SUFFICES ASSUME EditorInv, EditorNext, up, up', ~adrift, ~adrift'
                PROVE  Lost(mem, mem') \subseteq deleted
    BY DEF Lost
  <2>1. ASSUME mem' = mem PROVE Lost(mem, mem') \subseteq deleted
    BY <2>1 DEF Lost
  <2>2. ASSUME NEW w \in Writers, Serve(w) PROVE Lost(mem, mem') \subseteq deleted
    <3>1. w \in Sent /\ content[w] \in Seq(Clean) /\ mem' = FromWire(content[w])
      BY <2>2 DEF Serve, Replace, Sent, EditorInv, EditorTypeOK
    <3>2. mem' = content[w]
      BY <3>1, CleanIsFixed
    <3>. QED BY <3>1, <3>2 DEF EditorInv, Following, Serving
  <2>3. ASSUME ~\E w \in Writers : Serve(w) \/ ForeignSave(w) PROVE mem' = mem
    BY <2>3 DEF EditorNext, Fetch, FetchFails, Loaded, ServiceCrash, Crash, ServiceStart,
                Start, StoreStep, Save, CreateTmp, WriteTmp, Rename, GiveUp, Send,
                CallFails, EditRule, AddRule, DeleteRule, Edit, svars
  <2>4. \A w \in Writers : ~ForeignSave(w)
    BY DEF ForeignSave
  <2>. QED BY <2>1, <2>2, <2>3, <2>4
<1>. QED BY <1>1, EditorInvariant, PTL DEF EditorSpec, OnlyUserRemoves
=============================================================================
