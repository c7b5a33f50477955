---------------------------- MODULE TriggerStore ----------------------------
(***************************************************************************)
(* The rule store of the service: TriggerStore with its triggers.json,     *)
(* read once at start and rewritten by every SaveTriggers request.  Pipe   *)
(* workers call replace concurrently; the store's mutex is held from the   *)
(* change of the list in memory to the end of the file write.  The file is *)
(* written to a temporary and renamed over the old one (WriteFileU8).  The *)
(* service may be killed between any two steps.                            *)
(*                                                                         *)
(* A rule is reduced to what load and replace tell apart: its path, its    *)
(* other fields as one value, whether its actions are spelled out or       *)
(* empty, and whether its JSON object has fields this build does not know. *)
(***************************************************************************)
EXTENDS Selection, SequencesExt

CONSTANTS Writers,    \* the pipe workers that save rules
          Paths, Fields, \* what a rule's path and its other fields may be
          FirstFiles, \* what triggers.json may hold before the first start
          Junk,       \* an array element that is not an object
          NoFile, Torn, \* no file; a file that does not parse
          MaxCrashes  \* bound: how often the service dies

Rules == [path : Paths \cup {""}, fields : Fields \cup {"default"},
          empty : BOOLEAN, unknown : BOOLEAN]

\* What a SaveTriggers request, or a file that parses, may carry.
Arrays == Seq(Rules \cup {Junk})

ASSUME CrashesAreNat    == MaxCrashes \in Nat
ASSUME JunkIsNoRule     == Junk \notin Rules
ASSUME NoArraysInThese  == NoFile \notin Arrays /\ Torn \notin Arrays
ASSUME FilesAreArrays   == FirstFiles \subseteq {NoFile, Torn} \cup Arrays

VARIABLES
    up,       \* the service runs
    mem,      \* triggers_
    disk,     \* triggers.json
    tmp,      \* triggers.json.tmp
    at,       \* where each worker is in replace
    text,     \* the list each worker has encoded for the file
    trouble,  \* history: a file operation failed since the last completed save
    crashes

svars == <<up, mem, disk, tmp, at, text, trouble, crashes>>

Labels == {"idle", "create", "write", "rename"}

\* An empty action is stored as "none".
Normal(r) == [r EXCEPT !.empty = FALSE]

\* What a rule read off the wire becomes: its unknown fields are not part of
\* the DTO (hasRaw stays false), an element that is no object is a default rule.
DefaultRule == [path |-> "", fields |-> "default", empty |-> FALSE, unknown |-> FALSE]

FromWire(list) ==
    [i \in DOMAIN list |->
        IF list[i] = Junk THEN DefaultRule
        ELSE [Normal(list[i]) EXCEPT !.unknown = FALSE]]

\* What load makes of the file: nothing if it is missing, unreadable or not an
\* array; otherwise its objects, with their unknown fields kept in raw.
FromDisk(file) ==
    IF file \in {NoFile, Torn} THEN <<>>
    ELSE Kept(file, {i \in DOMAIN file : file[i] # Junk})

StoreInit ==
    /\ up = FALSE
    /\ mem = <<>>
    /\ disk \in FirstFiles
    /\ tmp = NoFile
    /\ at = [w \in Writers |-> "idle"]
    /\ text = [w \in Writers |-> <<>>]
    /\ trouble = FALSE
    /\ crashes = 0

\* Mutant: the lock covers the list in memory only.
LockFreeDuringWrite == up

\* mu_ is free: no worker is between the change in memory and the end of the
\* file write.
LockFree == up /\ \A w \in Writers : at[w] = "idle"

To(w, label) == at' = [at EXCEPT ![w] = label]

\* replace returns, and with it the lock.
Done(w) == To(w, "idle") /\ text' = [text EXCEPT ![w] = <<>>]

\* The service starts: TriggerStore's constructor loads the file.  A file that
\* can not be opened or read counts as no rules.
Start ==
    /\ ~up /\ up' = TRUE
    /\ \/ mem' = FromDisk(disk) /\ trouble' = FALSE
       \/ mem' = <<>> /\ trouble' = TRUE
    /\ UNCHANGED <<disk, tmp, at, text, crashes>>

\* replace takes the lock, changes the list and encodes it; the file follows.
Replace(w, list) ==
    /\ LockFree /\ at[w] = "idle"
    /\ mem' = FromWire(list)
    /\ text' = [text EXCEPT ![w] = mem']
    /\ To(w, "create")
    /\ UNCHANGED <<up, disk, tmp, trouble, crashes>>

\* A file operation fails: the temporary is deleted, replace returns, and the
\* request is answered as saved all the same.
GiveUp(w) ==
    /\ at[w] # "idle"
    /\ tmp' = IF at[w] = "create" THEN tmp ELSE NoFile
    /\ trouble' = TRUE
    /\ Done(w)
    /\ UNCHANGED <<up, mem, disk, crashes>>

\* Mutant: the file itself is truncated and rewritten.
CreateInPlace(w) ==
    /\ at[w] = "create"
    /\ disk' = Torn
    /\ To(w, "write")
    /\ UNCHANGED <<up, mem, tmp, text, trouble, crashes>>

\* WriteFileU8: the temporary is created empty over an older one ...
CreateTmp(w) ==
    /\ at[w] = "create"
    /\ tmp' = Torn
    /\ To(w, "write")
    /\ UNCHANGED <<up, mem, disk, text, trouble, crashes>>

\* ... the encoded list is written and flushed ...
WriteTmp(w) ==
    /\ at[w] = "write"
    /\ tmp' = text[w]
    /\ To(w, "rename")
    /\ UNCHANGED <<up, mem, disk, text, trouble, crashes>>

\* ... and it replaces the file in one step.
Rename(w) ==
    /\ at[w] = "rename"
    /\ disk' = tmp /\ tmp' = NoFile
    /\ trouble' = FALSE
    /\ Done(w)
    /\ UNCHANGED <<up, mem, crashes>>

\* The process dies: memory is gone, files stay as they are - flushed or not, as
\* the machine goes on.
Crash ==
    /\ up /\ crashes < MaxCrashes
    /\ up' = FALSE
    /\ mem' = <<>>
    /\ at' = [w \in Writers |-> "idle"]
    /\ text' = [w \in Writers |-> <<>>]
    /\ crashes' = crashes + 1
    /\ UNCHANGED <<disk, tmp, trouble>>

Save(w) == CreateTmp(w) \/ WriteTmp(w) \/ Rename(w)

StoreNext ==
    \/ Start \/ Crash
    \/ \E w \in Writers :
        Save(w) \/ GiveUp(w) \/ \E list \in Arrays : Replace(w, list)

StoreSpec == StoreInit /\ [][StoreNext]_svars

-----------------------------------------------------------------------------
(* Properties.                                                             *)

StoreTypeOK ==
    /\ up \in BOOLEAN
    /\ mem \in Seq(Rules)
    /\ disk \in {NoFile, Torn} \cup Arrays
    /\ tmp \in {NoFile, Torn} \cup Seq(Rules)
    /\ at \in [Writers -> Labels]
    /\ text \in [Writers -> Seq(Rules)]
    /\ ~up => \A w \in Writers : at[w] = "idle"
    \* the list is saved under the lock that protects it
    /\ \A v, w \in Writers : at[v] # "idle" /\ at[w] # "idle" => v = w
    /\ \A w \in Writers : at[w] # "idle" => text[w] = mem

\* The store implements DurableStore: what the next start would find changes
\* only as a whole, to the list being served, however saves, failures and
\* crashes interleave (stores.cpp:69, "temp+replace for crash safety").
Durable == INSTANCE DurableStore WITH
             Values <- Seq(Rules), Empty <- <<>>, value <- mem, saved <- FromDisk(disk)
DurableSpec == Durable!DurableSpec

\* Nobody saving means nothing to lose: a restart would serve the same list,
\* unless a file operation has failed since the last save that went through.
\* A later save repairs what an earlier failure left behind.
NothingToLose ==
    up /\ ~trouble /\ (\A w \in Writers : at[w] = "idle") => FromDisk(disk) = mem
=============================================================================
