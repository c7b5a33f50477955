---------------------------- MODULE TriggerEngine ----------------------------
(***************************************************************************)
(* Program linkage: the scan thread compares the running programs with     *)
(* those of the previous scan and starts a worker thread per rule and edge *)
(* (TriggerEngine::scanOnce); a worker applies every enabled rule of that  *)
(* program (TriggerEngine::RunTrigger) through the hardware layer, which   *)
(* is module HardwareCore: a worker's SetPerfMode and SetPpm are calls of  *)
(* that module and interleave with those of every other caller.            *)
(*                                                                         *)
(* Programs starting and exiting and rules being saved are the             *)
(* environment.  The 3 s scan period is not timed: a scan may find workers *)
(* of earlier scans still busy (a GPU fix holds the hardware lock for up   *)
(* to 10 s) unless PromptWorkers says they are done by then.               *)
(***************************************************************************)
EXTENDS HardwareCore, Selection, Functions

CONSTANTS Workers,        \* the worker threads that can exist at a time
          Stems,          \* lower-cased exe names without extension
          RuleLists,      \* contents the rule store may have
          PromptWorkers,  \* are all workers done when the next scan starts?
          MaxFlips,       \* bound: programs starting or exiting, or seeming to
          MaxSaves        \* bound: rule lists saved

ASSUME WorkersAreThreads == Workers \subseteq Threads
ASSUME PromptIsBool      == PromptWorkers \in BOOLEAN
ASSUME BoundsAreNat      == MaxFlips \in Nat /\ MaxSaves \in Nat

NoStem  == ""                       \* a path without a file name
Domains == {"core", "mem"}          \* GPU clock domains with an offset
Edges   == {"open", "close"}

RuleType == [stem: Stems \cup {NoStem}, enabled: BOOLEAN, open: STRING, close: STRING,
             ppm: Int, openTp: STRING, closeTp: STRING, oc: [Domains -> Int],
             fix: BOOLEAN]

ASSUME RulesAreRules == RuleLists \subseteq Seq(RuleType)

\* What a rule asks of the hardware layer is among the requests it may get.
ASSUME RulesAreRequests == EcModes \subseteq ReqModes /\ EcLevels \subseteq ReqLevels

\* ProfileMode: the ids that name a mode, "none" and anything else do not.
ProfileMode == [id \in {"smart", "high", "beast"} |->
                  CASE id = "smart" -> 0 [] id = "high" -> 1 [] id = "beast" -> Beast]

VARIABLES
    store,      \* TriggerStore: the rules, in order
    procs,      \* the programs running
    running,    \* running_: the programs the last scan saw
    wk,         \* the workers: what each serves and how far it is
    touchpad,   \* device: touchpad on?
    oc,         \* device: the GPU clock offsets in force
    pinned,     \* device: a program left the GPU clocks pinned
    lastEdge,   \* history: the edge last seen of each program
    silent,     \* history: workers that changed something the UI was not told of
    flips, saves

devices == <<touchpad, oc, pinned>>
engine  == <<store, procs, running, wk, touchpad, oc, pinned, lastEdge,
             silent, flips, saves>>
allVars == <<vars, engine>>

Stages == {"free", "spawned", "rule", "mode", "wait1", "ppm1", "wait2", "ppm2",
           "touchpad", "core", "mem", "fix"}
Free   == [at |-> "free", stem |-> NoStem, edge |-> "open", todo |-> <<>>,
           changed |-> FALSE]

\* A worker that is not free, by what it serves.
Busy     == {w \in Workers : wk[w].at # "free"}
Rule(w)  == Head(wk[w].todo)
Opens(w) == wk[w].edge = "open"

EngineInit ==
    /\ Init
    /\ store \in RuleLists
    /\ procs \in SUBSET Stems
    /\ running = {}
    /\ wk = [w \in Workers |-> Free]
    /\ touchpad = TRUE
    /\ oc = [d \in Domains |-> 0]
    /\ pinned = FALSE
    /\ lastEdge = [s \in Stems |-> "none"]
    /\ silent = {}
    /\ flips = 0 /\ saves = 0

-----------------------------------------------------------------------------
(* The environment.                                                        *)

\* A program starts or exits.
ProgramStarts(s) ==
    /\ s \notin procs /\ flips < MaxFlips
    /\ procs' = procs \cup {s}
    /\ flips' = flips + 1
    /\ UNCHANGED <<vars, store, running, wk, devices, lastEdge, silent, saves>>

ProgramExits(s) ==
    /\ s \in procs /\ flips < MaxFlips
    /\ procs' = procs \ {s}
    /\ flips' = flips + 1
    /\ UNCHANGED <<vars, store, running, wk, devices, lastEdge, silent, saves>>

\* TriggerStore::replace, by a pipe worker.
SaveRules(list) ==
    /\ list # store /\ saves < MaxSaves
    /\ store' = list
    /\ saves' = saves + 1
    /\ UNCHANGED <<vars, procs, running, wk, devices, lastEdge, silent, flips>>

-----------------------------------------------------------------------------
(* scanOnce.                                                               *)

Action(r, edge) == IF edge = "open" THEN r.open ELSE r.close

\* The edge of a program, in a scan that sees the programs in seen.
Edge(s, seen) ==
    IF s \in seen \ running THEN "open"
    ELSE IF s \in running \ seen THEN "close" ELSE "none"

\* Does a rule get a worker?  Only if its mode action for the edge is not "none".
Fires(r, seen) ==
    /\ r.enabled /\ r.stem # NoStem
    /\ Edge(r.stem, seen) # "none"
    /\ Action(r, Edge(r.stem, seen)) # "none"

Spawned(r, seen) ==
    [Free EXCEPT !.at = "spawned", !.stem = r.stem, !.edge = Edge(r.stem, seen)]

\* What a scan may see: the list of processes may end early, or be empty, when
\* Process32FirstW or Process32NextW fails, which nothing tells from its end.  A
\* program so missed seems to exit and to start again, and counts as two flips.
Sights == IF Faulty /\ flips + 2 <= MaxFlips THEN SUBSET procs ELSE {procs}

\* One scan with rules in the store: each rule that fires gets a worker, unless
\* its thread can not be created, and the programs seen become running_.
\* A scan that gets no snapshot changes nothing.
Scan ==
    /\ store # <<>>
    /\ PromptWorkers => Busy = {}
    /\ \E seen \in Sights :
        LET hit == {i \in DOMAIN store : Fires(store[i], seen)}
        IN  /\ \E made \in SUBSET hit : \E f \in Injection(made, Workers \ Busy) :
                /\ Faulty \/ made = hit
                /\ wk' = [w \in Workers |->
                            IF \E i \in made : f[i] = w
                              THEN Spawned(store[CHOOSE i \in made : f[i] = w], seen)
                              ELSE wk[w]]
            /\ lastEdge' = [s \in Stems |->
                              IF Edge(s, seen) = "none" THEN lastEdge[s] ELSE Edge(s, seen)]
            /\ running' = seen
            /\ flips' = IF seen = procs THEN flips ELSE flips + 2
    \* a program that runs may have pinned the GPU clocks
    /\ pinned' = (pinned \/ procs # {})
    /\ UNCHANGED <<vars, store, procs, touchpad, oc, silent, saves>>

\* With no rules a scan forgets what was running and looks at no process.
ScanNoRules ==
    /\ store = <<>>
    /\ PromptWorkers => Busy = {}
    /\ running # {}
    /\ running' = {}
    /\ UNCHANGED <<vars, store, procs, wk, devices, lastEdge, silent, flips, saves>>

-----------------------------------------------------------------------------
(* RunTrigger.                                                             *)

\* Mutant: a worker does not wait for what it started.
StageNotAwaited(w, at) == UNCHANGED wk

Stage(w, at) == wk' = [wk EXCEPT ![w].at = at]

\* History: worker w changed something (b) and has not said so yet.
NoteSilent(w, b) == silent' = IF b THEN silent \cup {w} ELSE silent

\* A worker copies the rules of its program from the store as it is by now.
Begin(w) ==
    /\ wk[w].at = "spawned"
    /\ LET mine == {i \in DOMAIN store : store[i].enabled /\ store[i].stem = wk[w].stem}
       IN  wk' = [wk EXCEPT ![w].at = "rule", ![w].todo = Kept(store, mine)]
    /\ UNCHANGED <<vars, store, procs, running, devices, lastEdge, silent,
                   flips, saves>>

\* Next rule: its mode first, if the action names one.
StartMode(w) ==
    /\ wk[w].at = "rule" /\ wk[w].todo # <<>>
    /\ LET id == Action(Rule(w), wk[w].edge)
       IN  IF id \in DOMAIN ProfileMode
             THEN /\ Call(w, [op |-> "perf", mode |-> ProfileMode[id],
                              hasPpm |-> FALSE, level |-> 0])
                  /\ Stage(w, "mode")
             ELSE Stage(w, "touchpad") /\ UNCHANGED vars
    /\ UNCHANGED <<store, procs, running, devices, lastEdge, silent, flips,
                   saves>>

\* PPM goes with a mode that is beast and was set, on an open edge, in range.
WantsPpm(w) == Opens(w) /\ Action(Rule(w), "open") = "beast" /\ Rule(w).ppm \in EcLevels

\* Mutant: no settle delay after the mode.
AfterModeNoDelay(w) == UNCHANGED unsettled

\* Sleep(600) before the level is written.
AfterMode(w) == IF WantsPpm(w) THEN FallAsleep(w, 600) ELSE UNCHANGED unsettled

\* Mutant: the last outcome wins.
NowChangedLast(w, ok) == ok

\* stateChanged = stateChanged || ok
NowChanged(w, ok) == wk[w].changed \/ ok

\* Mutant: the worker does not wait for the hardware layer.
GaveUp(w) == pc[w] # "idle"

\* The hardware layer's answer is there.
Answered(w) == pc[w] = "done"

\* SetPerfMode is back.
ModeDone(w) ==
    /\ wk[w].at = "mode" /\ Answered(w)
    /\ Leave(w)
    /\ LET ok == "target" \in claims[w]
       IN  /\ IF ok THEN AfterMode(w) ELSE UNCHANGED unsettled
           /\ wk' = [wk EXCEPT ![w].at = IF ok /\ WantsPpm(w) THEN "wait1" ELSE "touchpad",
                               ![w].changed = NowChanged(w, ok)]
           /\ NoteSilent(w, ok)
    /\ UNCHANGED <<store, procs, running, devices, lastEdge, flips, saves>>

\* A sleep is over: HardwareSetPpm of the rule's level.
StartPpm(w, from, to) ==
    /\ wk[w].at = from /\ w \notin unsettled
    /\ Call(w, [op |-> "ppm", mode |-> Beast, hasPpm |-> TRUE, level |-> Rule(w).ppm])
    /\ Stage(w, to)
    /\ UNCHANGED <<store, procs, running, devices, lastEdge, silent, flips,
                   saves>>

FirstPpm(w)  == StartPpm(w, "wait1", "ppm1")
SecondPpm(w) == StartPpm(w, "wait2", "ppm2")

\* Mutant: the level is tried until it is taken.
TriesForever(w, ok) == ~ok

\* A level that was not taken is tried once more.
TriesAgain(w, ok) == ~ok /\ wk[w].at = "ppm1"

\* SetPpm is back; a failure of the first is tried again after Sleep(400).
PpmDone(w) ==
    /\ wk[w].at \in {"ppm1", "ppm2"} /\ Answered(w)
    /\ Leave(w)
    /\ LET ok    == "level" \in claims[w]
           again == TriesAgain(w, ok)
       IN  /\ IF again THEN FallAsleep(w, 400) ELSE UNCHANGED unsettled
           /\ wk' = [wk EXCEPT ![w].at = IF again THEN "wait2" ELSE "touchpad",
                               ![w].changed = NowChanged(w, ok)]
           /\ NoteSilent(w, ok)
    /\ UNCHANGED <<store, procs, running, devices, lastEdge, flips, saves>>

\* Mutant: a close edge repeats the open action.
TpActionOpen(w) == Rule(w).openTp

TpAction(w) == IF Opens(w) THEN Rule(w).openTp ELSE Rule(w).closeTp

\* Mutant: an offset is written when the program has exited.
OffsetDueOnClose(w, d) == ~Opens(w) /\ Rule(w).oc[d] # 0

\* Only an offset that is not zero is written, and a close edge has none.
OffsetDue(w, d) == Opens(w) /\ Rule(w).oc[d] # 0

\* The call a rule comes to after its touchpad action; the fix is its last.
AfterCore(w)     == IF OffsetDue(w, "mem") THEN "mem" ELSE "fix"
AfterTouchpad(w) == IF OffsetDue(w, "core") THEN "core" ELSE AfterCore(w)

\* HardwareSetTouchpad, one Invoke, if the rule's action asks for it.
SetTouchpad(w) ==
    /\ wk[w].at = "touchpad"
    /\ LET id == TpAction(w)
       IN  \E ok \in BOOLEAN, did \in BOOLEAN :
            /\ IF id \in {"tp_on", "tp_off"}
                 THEN (ok => did) /\ (~Faulty => ok)
                 ELSE ~ok /\ ~did
            /\ touchpad' = IF did THEN id = "tp_on" ELSE touchpad
            /\ wk' = [wk EXCEPT ![w].at = AfterTouchpad(w),
                               ![w].changed = NowChanged(w, ok)]
            /\ NoteSilent(w, ok)
    /\ UNCHANGED <<vars, store, procs, running, oc, pinned, lastEdge, flips,
                   saves>>

\* HardwareOcApply for a clock domain, core before mem.  NVAPI may fail.
SetOffset(w, d) ==
    /\ wk[w].at = d
    /\ \E ok \in BOOLEAN :
        /\ Faulty \/ ok
        /\ oc' = IF ok THEN [oc EXCEPT ![d] = Rule(w).oc[d]] ELSE oc
    /\ Stage(w, IF d = "core" THEN AfterCore(w) ELSE "fix")
    /\ UNCHANGED <<vars, store, procs, running, touchpad, pinned, lastEdge, silent,
                   flips, saves>>

\* Mutant: the fix runs when the program starts.
FixDueOnOpen(w) == Opens(w) /\ Rule(w).fix

FixDue(w) == ~Opens(w) /\ Rule(w).fix

\* HardwareGpuFix, the end of a rule, on a close edge if the rule asks for it.
FixGpu(w) ==
    /\ wk[w].at = "fix"
    /\ \E fixed \in BOOLEAN :
        /\ fixed => FixDue(w)
        /\ ~Faulty /\ FixDue(w) => fixed
        /\ pinned' = (pinned /\ ~fixed)
    /\ wk' = [wk EXCEPT ![w].at = "rule", ![w].todo = Tail(@)]
    /\ UNCHANGED <<vars, store, procs, running, touchpad, oc, lastEdge, silent,
                   flips, saves>>

\* All rules are done: the UI is told if anything changed, and the thread ends.
Finish(w) ==
    /\ wk[w].at = "rule" /\ wk[w].todo = <<>>
    /\ wk' = [wk EXCEPT ![w] = Free]
    /\ silent' = IF wk[w].changed THEN silent \ {w} ELSE silent
    /\ UNCHANGED <<vars, store, procs, running, devices, lastEdge, flips, saves>>

WorkerStep(w) ==
    \/ Begin(w) \/ StartMode(w) \/ ModeDone(w) \/ FirstPpm(w) \/ SecondPpm(w)
    \/ PpmDone(w) \/ SetTouchpad(w) \/ (\E d \in Domains : SetOffset(w, d))
    \/ FixGpu(w) \/ Finish(w)

\* A step inside the hardware layer; a worker's return is its own action.
CoreStep(t) == Step(t) /\ (t \in Workers => ~Return(t)) /\ UNCHANGED engine

EngineNext ==
    \/ \E s \in Stems : ProgramStarts(s) \/ ProgramExits(s)
    \/ \E list \in RuleLists : SaveRules(list)
    \/ Scan \/ ScanNoRules
    \/ \E w \in Workers : WorkerStep(w)
    \/ \E t \in Threads : CoreStep(t)
    \/ EcSettle /\ UNCHANGED engine
    \/ \E t \in Threads \ Workers, j \in Jobs : Call(t, j) /\ UNCHANGED engine

EngineSpec == EngineInit /\ [][EngineNext]_allVars

\* The engine's loop scans every 3 s and never dies; Windows runs every thread.
FairEngineSpec ==
    /\ EngineSpec
    /\ WF_allVars(Scan) /\ WF_allVars(ScanNoRules)
    /\ WF_allVars(EcSettle /\ UNCHANGED engine)
    /\ \A w \in Workers : WF_allVars(WorkerStep(w))
    /\ \A t \in Threads : WF_allVars(CoreStep(t))

-----------------------------------------------------------------------------
(* Properties.                                                             *)

\* Type invariant.
TriggerTypeOK ==
    /\ TypeOK
    /\ store \in RuleLists
    /\ procs \subseteq Stems /\ running \subseteq Stems
    /\ \A w \in Workers :
         /\ wk[w].at \in Stages /\ wk[w].edge \in Edges
         /\ wk[w].stem \in Stems \cup {NoStem}
         /\ wk[w].changed \in BOOLEAN
         \* the hardware layer is busy with a worker's call exactly while it waits
         /\ (wk[w].at \in {"mode", "ppm1", "ppm2"}) <=> (pc[w] # "idle")
         \* a rule is at hand in the middle of a rule
         /\ wk[w].at \notin {"free", "spawned", "rule"} => wk[w].todo # <<>>
    /\ touchpad \in BOOLEAN /\ pinned \in BOOLEAN
    /\ silent \subseteq Workers

\* The workers use the hardware layer as HardwareCore says its callers do, so
\* what holds of every caller there holds here.  Only the sleeps inside
\* hc_set_ppm are that module's; a worker's own settle delays are not.
Core == INSTANCE HardwareCore WITH unsettled <- {t \in unsettled : pc[t] = "sleep"}
CoreSpec == Core!Spec

\* No confirmed change of mode, level or touchpad is kept from the UI: a worker
\* that made one, for whichever of its rules, has announced it when it ends.
ChangesAnnounced == \A w \in silent : wk[w].at # "free"

\* Every edge seen so far is served: no program changed since the last scan and
\* no worker is left.
Quiet == Busy = {} /\ running = procs /\ store # <<>>

Watching == {store[i] : i \in {j \in DOMAIN store : store[j].enabled /\ store[j].stem # NoStem}}

\* The rules of programs with an action at the last edge: an edge whose mode
\* action is "none" starts no worker, and no other part of the rule applies.
Due == {r \in Watching : lastEdge[r.stem] # "none" /\ Action(r, lastEdge[r.stem]) # "none"}

\* The mode and level of the last edge are what the machine ends up with: the
\* open mode and level of a running program, the close mode of one that has
\* exited - although opening takes long enough to overlap with the exit.
LastEdgeInForce ==
    Quiet => \A r \in Due :
        LET id == Action(r, lastEdge[r.stem])
        IN  id \in DOMAIN ProfileMode
            => /\ mode = ProfileMode[id]
               /\ lastEdge[r.stem] = "open" /\ id = "beast" /\ r.ppm \in EcLevels
                  => ppm = r.ppm /\ mirror = r.ppm

\* The touchpad action of the last edge is in force, whichever modes the machine
\* went through to get there.
TouchpadFollows ==
    Quiet => \A r \in Due :
        LET id == IF lastEdge[r.stem] = "open" THEN r.openTp ELSE r.closeTp
        IN  id \in {"tp_on", "tp_off"} => touchpad = (id = "tp_on")

\* A program with GpuFixOnExit leaves no pinned clocks behind.
FixedOnExit ==
    Quiet => \A r \in Due : r.fix /\ lastEdge[r.stem] = "close" => ~pinned

\* The clock offsets of a program that runs are in force, whichever offsets the
\* runs before it have left behind (a close edge resets none).
OffsetsOfRunning ==
    Quiet => \A r \in Due : \A d \in Domains :
        lastEdge[r.stem] = "open" /\ r.oc[d] # 0 => oc[d] = r.oc[d]

\* The engine catches up: once programs stop changing, every edge is scanned and
\* every worker ends, through refusals, lost commands and failed retries.
EngineCatchesUp == <>[](Busy = {} /\ (store # <<>> => running = procs))
=============================================================================
