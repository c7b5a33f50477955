------------------------- MODULE TriggerStore_proofs -------------------------
(* Proofs about TriggerStore, for any number of workers and any requests.  *)
EXTENDS TriggerStore, FiniteSetTheorems, FunctionTheorems, TLAPS

-----------------------------------------------------------------------------
(* Facts about the operators.                                              *)

\* Keeping every place of a list keeps the list.
LEMMA KeptAll ==
    ASSUME NEW S, NEW list \in Seq(S)
    PROVE  Kept(list, DOMAIN list) = list
<1>. DEFINE n == Len(list)
            rank(i) == Cardinality({j \in 1..n : j <= i})
<1>1. n \in Nat /\ DOMAIN list = 1..n
  OBVIOUS
<1>2. Cardinality(1..n) = n
  BY <1>1, FS_Interval, SMTT(30)
<1>3. ASSUME NEW i \in 1..n PROVE rank(i) = i
  <2>1. {j \in 1..n : j <= i} = 1..i
    BY <1>1
  <2>2. Cardinality(1..i) = i
    BY FS_Interval
  <2>. QED BY <2>1, <2>2
<1>. HIDE DEF rank
<1>4. ASSUME NEW k \in 1..n PROVE (CHOOSE i \in 1..n : rank(i) = k) = k
  BY <1>3
<1>5. Kept(list, 1..n) = [k \in 1..n |-> list[CHOOSE i \in 1..n : rank(i) = k]]
  BY <1>2 DEF Kept, rank
<1>6. Kept(list, 1..n) = [k \in 1..n |-> list[k]]
  BY <1>4, <1>5
<1>. QED BY <1>1, <1>6

\* What is kept is what stands at the places, nothing else and nothing less: the
\* places are numbered one to one by their rank.
LEMMA KeptProperties ==
    ASSUME NEW S, NEW list \in Seq(S), NEW places \in SUBSET DOMAIN list
    PROVE  /\ Kept(list, places) \in Seq(S)
           /\ Range(Kept(list, places)) = {list[i] : i \in places}
<1>. DEFINE n == Cardinality(places)
            upTo(i) == {j \in places : j <= i}
            rank(i) == Cardinality(upTo(i))
            numbers == [i \in places |-> rank(i)]
            place(k) == CHOOSE i \in places : rank(i) = k
<1>1. IsFiniteSet(places) /\ n \in Nat /\ places \subseteq Nat
  <2>1. places \subseteq 1..Len(list) /\ Len(list) \in Nat
    OBVIOUS
  <2>2. IsFiniteSet(1..Len(list))
    BY <2>1, FS_Interval
  <2>. QED BY <2>1, <2>2, FS_Subset, FS_CardinalityType
<1>2. ASSUME NEW i \in places
      PROVE  IsFiniteSet(upTo(i)) /\ rank(i) \in 1..n
  <2>1. IsFiniteSet(upTo(i)) /\ rank(i) \in Nat /\ rank(i) <= n
    BY <1>1, FS_Subset, FS_CardinalityType
  <2>2. rank(i) # 0
    <3>1. upTo(i) # {}
      BY <1>1
    <3>. QED BY <2>1, <3>1, FS_EmptySet
  <2>. HIDE DEF upTo
  <2>. QED BY <2>1, <2>2, <1>1
<1>3. ASSUME NEW i \in places, NEW j \in places, i < j PROVE rank(i) # rank(j)
  <2>1. upTo(i) \in SUBSET upTo(j) /\ j \in upTo(j) \ upTo(i)
    BY <1>1, <1>3
  <2>. QED BY <1>2, <2>1, FS_Subset
<1>. HIDE DEF rank
<1>4. numbers \in Injection(places, 1..n)
  <2>1. numbers \in [places -> 1..n]
    BY <1>2
  <2>2. \A i, j \in places : numbers[i] = numbers[j] => i = j
    BY <1>1, <1>3
  <2>. QED BY <2>1, <2>2, Fun_IsInj
<1>5. numbers \in Surjection(places, 1..n)
  BY <1>1, <1>4, FS_Injection, FS_Interval
<1>6. ASSUME NEW k \in 1..n PROVE place(k) \in places /\ rank(place(k)) = k
  <2>1. \E i \in places : numbers[i] = k
    BY <1>5 DEF Surjection
  <2>. QED BY <2>1
<1>7. ASSUME NEW i \in places PROVE place(rank(i)) = i
  BY <1>1, <1>2, <1>3, <1>6
<1>. HIDE DEF place
<1>8. Kept(list, places) = [k \in 1..n |-> list[place(k)]]
  BY DEF Kept, place, rank
<1>9. Kept(list, places) \in Seq(S)
  BY <1>1, <1>6, <1>8
<1>10. Range(Kept(list, places)) = {list[place(k)] : k \in 1..n}
  BY <1>8 DEF Range
<1>. QED BY <1>2, <1>6, <1>7, <1>9, <1>10

Clean == {r \in Rules : ~r.empty /\ ~r.unknown}

\* What is read off the wire is a rule with its actions spelled out and no
\* unknown fields, place for place ...
LEMMA WireIsClean ==
    ASSUME NEW list \in Arrays
    PROVE  FromWire(list) \in Seq(Clean)
<1>1. ASSUME NEW i \in DOMAIN list PROVE FromWire(list)[i] \in Clean
  <2>1. list[i] \in Rules \cup {Junk}
    BY DEF Arrays
  <2>2. DefaultRule \in Clean
    BY DEF DefaultRule, Clean, Rules
  <2>3. ASSUME list[i] \in Rules
        PROVE  [Normal(list[i]) EXCEPT !.unknown = FALSE] \in Clean
    BY <2>3 DEF Normal, Clean, Rules
  <2>. QED BY <2>1, <2>2, <2>3 DEF FromWire
<1>2. DOMAIN list = 1..Len(list) /\ Len(list) \in Nat
  BY DEF Arrays
<1>. QED BY <1>1, <1>2 DEF FromWire

\* ... and reading it again changes nothing.
LEMMA CleanIsFixed ==
    ASSUME NEW list \in Seq(Clean)
    PROVE  list \in Arrays /\ FromWire(list) = list
<1>1. list \in Seq(Rules) /\ list \in Arrays
  BY DEF Clean, Arrays
<1>2. ASSUME NEW i \in DOMAIN list PROVE FromWire(list)[i] = list[i]
  <2>1. list[i] \in Rules /\ ~list[i].empty /\ ~list[i].unknown /\ list[i] # Junk
    BY JunkIsNoRule DEF Clean
  <2>. QED BY <2>1 DEF FromWire, Rules, Normal
<1>. QED BY <1>1, <1>2 DEF FromWire

LEMMA CleanAreRules ==
    /\ Seq(Clean) \subseteq Seq(Rules) /\ Seq(Rules) \subseteq Arrays
    /\ <<>> \in Seq(Rules)
BY DEF Clean, Arrays

\* A list of rules that a save wrote is read back as it is.
LEMMA ReadBack ==
    ASSUME NEW l \in Seq(Rules)
    PROVE  FromDisk(l) = l
<1>1. l \notin {NoFile, Torn}
  BY CleanAreRules, NoArraysInThese
<1>2. {i \in DOMAIN l : l[i] # Junk} = DOMAIN l
  <2>1. \A i \in DOMAIN l : l[i] \in Rules
    OBVIOUS
  <2>. QED BY <2>1, JunkIsNoRule
<1>. QED BY <1>1, <1>2, KeptAll DEF FromDisk

\* Whatever the file holds, a start serves rules.
LEMMA DiskReads ==
    ASSUME NEW file \in {NoFile, Torn} \cup Arrays
    PROVE  FromDisk(file) \in Seq(Rules)
<1>1. CASE file \in {NoFile, Torn}
  BY <1>1 DEF FromDisk
<1>2. CASE file \notin {NoFile, Torn}
  <2>. DEFINE places == {i \in DOMAIN file : file[i] # Junk}
  <2>1. file \in Seq(Rules \cup {Junk}) /\ FromDisk(file) = Kept(file, places)
    BY <1>2 DEF FromDisk, Arrays
  <2>2. /\ Kept(file, places) \in Seq(Rules \cup {Junk})
        /\ Range(Kept(file, places)) = {file[i] : i \in places}
    BY <2>1, KeptProperties
  <2>3. \A i \in places : file[i] \in Rules
    BY <2>1
  <2>4. Range(Kept(file, places)) \subseteq Rules
    BY <2>2, <2>3
  <2>. HIDE DEF places
  <2>5. \A k \in DOMAIN Kept(file, places) : Kept(file, places)[k] \in Rules
    BY <2>4 DEF Range
  <2>. QED BY <2>1, <2>2, <2>5
<1>. QED BY <1>1, <1>2

-----------------------------------------------------------------------------
(* The inductive invariant: what the temporary holds when it is about to   *)
(* be renamed makes the rename a save.                                     *)

FilesInv ==
    \A w \in Writers : at[w] = "rename" => tmp = text[w]

StoreInv == StoreTypeOK /\ FilesInv /\ NothingToLose

LEMMA StoreInitInv == StoreInit => StoreInv
BY FilesAreArrays, CleanAreRules
   DEF StoreInit, StoreInv, StoreTypeOK, FilesInv, NothingToLose, Labels

\* The service starts or dies.
LEMMA LifePreserves ==
    ASSUME StoreInv, Start \/ Crash
    PROVE  StoreInv'
<1>1. CASE Start
  <2>1. mem' \in Seq(Rules)
    BY <1>1, DiskReads, CleanAreRules DEF Start, StoreInv, StoreTypeOK
  <2>. QED BY <1>1, <2>1 DEF StoreInv, StoreTypeOK, FilesInv, NothingToLose, Start
<1>2. CASE Crash
  <2>. QED BY <1>2, CleanAreRules
           DEF StoreInv, StoreTypeOK, FilesInv, NothingToLose, Crash, Labels
<1>. QED BY <1>1, <1>2

\* A worker takes the lock: no other is between its change and its rename.
LEMMA ReplacePreserves ==
    ASSUME StoreInv, NEW w \in Writers, NEW list \in Arrays, Replace(w, list)
    PROVE  StoreInv'
<1>1. mem' \in Seq(Rules)
  BY WireIsClean, CleanAreRules DEF Replace
<1>2. at[w] = "idle" /\ at'[w] = "create" /\ text'[w] = mem'
  BY DEF StoreInv, StoreTypeOK, Replace, To
<1>3. \A v \in Writers \ {w} : at'[v] = "idle"
  BY DEF StoreInv, StoreTypeOK, Replace, LockFree, To
<1>4. StoreTypeOK'
  BY <1>1, <1>2, <1>3 DEF StoreInv, StoreTypeOK, Replace, LockFree, To, Labels
<1>5. FilesInv'
  BY <1>1, <1>2, <1>3 DEF StoreInv, FilesInv, Replace
<1>6. NothingToLose'
  BY <1>2 DEF NothingToLose
<1>. QED BY <1>4, <1>5, <1>6 DEF StoreInv

\* The steps of a worker on the file, and a failure of one of them.
LEMMA SavePreserves ==
    ASSUME StoreInv, NEW w \in Writers, Save(w) \/ GiveUp(w)
    PROVE  StoreInv'
<1>1. /\ at[w] # "idle" /\ text[w] = mem /\ mem \in Seq(Rules) /\ up
      /\ \A v \in Writers \ {w} : at[v] = "idle"
  BY DEF StoreInv, StoreTypeOK, Save, CreateTmp, WriteTmp, Rename, GiveUp
<1>2. CASE CreateTmp(w) \/ WriteTmp(w)
  <2>1. StoreTypeOK'
    BY <1>1, <1>2 DEF StoreInv, StoreTypeOK, CreateTmp, WriteTmp, To, Labels
  <2>2. FilesInv'
    BY <1>1, <1>2 DEF StoreInv, StoreTypeOK, FilesInv, CreateTmp, WriteTmp, To
  <2>3. at'[w] # "idle"
    BY <1>2 DEF StoreInv, StoreTypeOK, CreateTmp, WriteTmp, To
  <2>. QED BY <2>1, <2>2, <2>3 DEF StoreInv, NothingToLose
<1>3. CASE Rename(w)
  <2>1. disk' = mem
    BY <1>1, <1>3 DEF StoreInv, FilesInv, Rename
  <2>2. StoreTypeOK'
    BY <1>1, <1>3, <2>1, CleanAreRules
       DEF StoreInv, StoreTypeOK, Rename, Done, To, Labels
  <2>3. FilesInv'
    BY <1>1, <1>3, <2>1 DEF StoreInv, StoreTypeOK, FilesInv, Rename, Done, To
  <2>4. NothingToLose'
    BY <1>1, <1>3, <2>1, ReadBack DEF NothingToLose, Rename
  <2>. QED BY <2>2, <2>3, <2>4 DEF StoreInv
<1>4. CASE GiveUp(w)
  <2>1. StoreTypeOK'
    BY <1>1, <1>4 DEF StoreInv, StoreTypeOK, GiveUp, Done, To, Labels
  <2>2. FilesInv'
    BY <1>1, <1>4 DEF StoreInv, StoreTypeOK, FilesInv, GiveUp, Done, To
  <2>. QED BY <1>4, <2>1, <2>2 DEF StoreInv, NothingToLose, GiveUp
<1>. QED BY <1>2, <1>3, <1>4 DEF Save

LEMMA StoreStepPreserves == StoreInv /\ [StoreNext]_svars => StoreInv'
<1>1. ASSUME StoreInv, UNCHANGED svars PROVE StoreInv'
  BY <1>1 DEF StoreInv, StoreTypeOK, FilesInv, NothingToLose, svars
<1>. QED BY <1>1, LifePreserves, ReplacePreserves, SavePreserves DEF StoreNext

LEMMA StoreInvariant == StoreSpec => []StoreInv
BY StoreInitInv, StoreStepPreserves, PTL DEF StoreSpec

-----------------------------------------------------------------------------
(* The results.                                                            *)

\* One worker at a time is between changing the list and writing it, and what it
\* writes is the list being served.
THEOREM StoreTypeCorrect == StoreSpec => []StoreTypeOK
<1>1. StoreInv => StoreTypeOK
  BY DEF StoreInv
<1>. QED BY StoreInvariant, <1>1, PTL

\* With nobody saving and no failed file operation since the last completed
\* save, a restart serves the list that is being served.
THEOREM NothingIsLost == StoreSpec => []NothingToLose
<1>1. StoreInv => NothingToLose
  BY DEF StoreInv
<1>. QED BY StoreInvariant, <1>1, PTL

\* The store implements DurableStore: what the next start finds changes only as
\* a whole, to the list being served, whatever fails or dies in between.
THEOREM StoreIsDurable == StoreSpec => DurableSpec
<1>1. StoreInit => Durable!DurableInit
  <2>1. ASSUME StoreInit PROVE FromDisk(disk) \in Seq(Rules)
    BY <2>1, FilesAreArrays, DiskReads DEF StoreInit
  <2>. QED BY <2>1 DEF StoreInit, Durable!DurableInit
<1>2. StoreInv /\ [StoreNext]_svars => [Durable!DurableNext]_Durable!dvars
  <2>. SUFFICES ASSUME StoreInv, [StoreNext]_svars
                PROVE  [Durable!DurableNext]_Durable!dvars
    OBVIOUS
  <2>1. CASE Start
    BY <2>1 DEF Start, Durable!DurableNext, Durable!Start
  <2>2. CASE Crash
    BY <2>2 DEF Crash, Durable!DurableNext, Durable!Crash
  <2>3. ASSUME NEW w \in Writers, NEW list \in Arrays, Replace(w, list)
        PROVE  Durable!DurableNext
    <3>1. up /\ UNCHANGED <<up, disk>> /\ mem' \in Seq(Rules)
      BY <2>3, WireIsClean, CleanAreRules DEF Replace, LockFree
    <3>. QED BY <3>1 DEF Durable!DurableNext, Durable!Replace
  <2>4. ASSUME NEW w \in Writers, Rename(w) PROVE Durable!DurableNext
    <3>1. at[w] = "rename" /\ text[w] = mem /\ tmp = text[w] /\ mem \in Seq(Rules) /\ up
      BY <2>4 DEF StoreInv, StoreTypeOK, FilesInv, Rename
    <3>2. FromDisk(disk') = mem /\ UNCHANGED <<up, mem>>
      BY <2>4, <3>1, ReadBack DEF Rename
    <3>. QED BY <3>1, <3>2 DEF Durable!DurableNext, Durable!Persist
  <2>5. ASSUME NEW w \in Writers, CreateTmp(w) \/ WriteTmp(w) \/ GiveUp(w)
        PROVE  UNCHANGED <<up, mem, disk>>
    BY <2>5 DEF CreateTmp, WriteTmp, GiveUp
  <2>6. ASSUME UNCHANGED <<up, mem, disk>> PROVE UNCHANGED Durable!dvars
    BY <2>6 DEF Durable!dvars
  <2>. QED BY <2>1, <2>2, <2>3, <2>4, <2>5, <2>6 DEF StoreNext, Save, svars
<1>. QED BY <1>1, <1>2, StoreInvariant, PTL DEF StoreSpec, DurableSpec, Durable!DurableSpec
=============================================================================
