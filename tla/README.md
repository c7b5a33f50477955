# honor-helper: TLA+ models, model checking and proofs

This directory is a verification project for the honor-helper repository: a Windows
service that owns the hardware of a HONOR laptop, the core DLL it calls, and a WinUI
client that talks to the service over a named pipe. The modules describe what the code
under `src/` does where several threads, processes or failures meet; TLC checks
them on small instances and TLAPS proves the main results for all instances.

`PROJECT.json` maps every definition to the source lines it stands for, lists the runs,
the mutants that show each property can fail, the hazards, the findings and the theorems.

## 1. Inventory

```
 UI process                      service process                          core DLL
 MainWindow ----\                /- listener -> worker per connection -\
 SettingsWindow --ServiceClient==     (PipeServer, dispatch)            \   hc_* (g_mutex)
 MessageWindow <--broadcasts---- |- scan thread -> worker per edge -----+-> Invoke -> WMI -> EC
                                 |     (TriggerEngine)                   /   NVAPI, nvidia-smi
                                 \- tray pump -> menu job threads ------/
                                    stores: triggers.json, settings.json
```

| component | state | operations | what makes it correct |
|---|---|---|---|
| core DLL (`core/honor_core.cpp`) | `g_wmi`, `g_instancePath`, `g_cimv2`, `g_log`, OC binding, all under `g_mutex` | one-command calls through `Invoke` (repeated once after dropping the connection); `hc_set_ppm` = write, switch to beast, sleep, write; GPU statistics, fix, offsets | success is reported only for what the EC confirmed; a dead connection is rebuilt; the lock is never taken twice |
| hardware layer (`hardware.cpp`) | `g_lastPpm`, the mirror of a level that can not be read back | `HardwareSetPpm`, `HardwareApplyProfile`, snapshots | mirror = level in force; a profile does not end in a mode nobody asked for |
| trigger engine (`trigger_engine.cpp`) | `running_`, `stop_` | `scanOnce` every 3 s, one worker thread per rule and edge | each start and exit of a program is answered once; the last edge wins; changes are announced |
| stores (`stores.cpp`) | list or number in memory, a JSON file | `load`, `replace`/`update`, `WriteFileU8` | what survives a crash is a whole list that was served; nothing is lost silently |
| pipe server (`pipe_server.cpp`) | `stop_`, one listening instance, detached workers | accept, read a frame, `dispatch`, reply, close; `stop` | nobody is kept out, no reply is cut off, stop ends |
| protocol, JSON (`protocol.h`, `json.cpp`) | none | encoding, decoding, clamps | total on any input |
| tray, menu (`tray.cpp`, `main.cpp`) | window, icon | menu shown from a mode read once, commands run in job threads | a command acts on the state the user saw |
| UI coordinator (`ui_coordinator.cpp`) | `child_`, `childPid_` | show, toggle, quit | at most one UI; a handle has one owner |
| life cycle (`main.cpp`) | single-instance mutex | start and stop of all of the above | nothing is used after it is gone |
| UI (`ui/*.cs`) | slider, pending writes, poll flags; a copy of rules and settings | poll, debounced writes, save on every edit | the UI shows and saves the newest state |

Interactions: the UI makes one connection per request; every request runs in a thread
of its own and calls the hardware layer or a store directly. Menu jobs and trigger
workers call the hardware layer too. The only lock on the way to the hardware is the
core's `g_mutex`, held for one command. The service tells the UI of changes by
broadcast window messages, and the UI then polls a snapshot.

Hard parts: operations of several locked commands that interleave (PPM, profiles,
triggers); an EC that applies a mode some time after accepting it; replies that are lost
after the command was executed; worker threads nobody joins or orders; a stop that has to
wake a thread blocked in the kernel; crashes during a file write; UI replies that
arrive after newer user input.

## 2. Plan

| order | module | models | abstraction it meets | proofs |
|---|---|---|---|---|
| 1 | `HardwareCore` | core and hardware layer: mode, PPM, mirror, concurrent callers | - | `HardwareCore_proofs` |
| 2 | `TriggerEngine` (composes 1) | scanning, workers, their use of the hardware layer | implements `HardwareCore` | `TriggerEngine_proofs` |
| 3 | `TriggerStore` | rule store: lock, temporary file, rename, crashes | implements `DurableStore` | `TriggerStore_proofs` |
| 4 | `SettingsEditor` (composes 3) | settings window: loading, edits, overlapping saves over the store | implements `TriggerStore`, and `DurableStore` through it | `SettingsEditor_proofs` |
| 5 | `PipeServer` | listener, connection workers, stop | - | `PipeServer_proofs` |
| 6 | `WmiConnection` | `g_mutex`, cached connections and path, `Invoke`'s retry | implements `CommandChannel` | in `GpuCalls_proofs` |
| 7 | `GpuCalls` (composes 6) | clock fix and its log, statistics, overclock binding, handlers | implements `CommandChannel` through 6 | `GpuCalls_proofs` |
| 8 | `MainWindow` | polls, folded refreshes, slider, tiles, poll interval | - | `MainWindow_proofs` |
| 9 | `ServiceLife` | tray, menu jobs, UI coordinator, UI processes, teardown | - | `ServiceLife_proofs` |

`Selection` holds the one list operator that engine, store and window share, `Kept`.

All of these are written, checked and proved about. Section 7 says what is proved and
what stays with TLC.

## 3. Modules and how they correspond to the code

**HardwareCore.** `mode`, `ppm`, `settling` are the EC (external: modelled from what
`hc_set_ppm`, `HardwareApplyProfile` and `RunTrigger` say and rely on - PPM is writable in
beast only, a mode is accepted first and applied later (`EcSettle`) and then brings its
own level, a level can not be read back; setting the mode that is already in force brings
no new default). `mirror` is `g_lastPpm`. `pc[t]` says which
command, sleep or store thread `t` does next; one action is one `Invoke` (the lock is
held for it and released after), one `Sleep` or one store. `Call` enters with any request
the pipe admits: `SetPerfMode` and `SetPpm` take an arbitrary int32, cut to a byte by
`Byte`. `ModeInvoke` and `PpmInvoke` have the outcomes an `Invoke` can have: taken,
refused (first byte not 0), lost - and lost means that either attempt may have reached
the EC. `claims[t]` is what the call was told (its reply), `took[t]` and `drift` are
history: what the EC really accepted, and why the mirror may be wrong.

A sleep is not timed. `SettleMs` is the time the EC takes to apply a mode, and a sleep
of at least that long ends after `EcSettle` (`FallAsleep`, `WakeUp`): 300 ms in
`hc_set_ppm`, 600 and 400 ms in the engine. That the EC is that fast is what the code
assumes; the runs give it 300 and 400 ms.

**TriggerEngine** extends it with `store_` (`store`), the processes (`procs`),
`running_`, and one record per worker thread: where it is in `RunTrigger`, the edge it
serves, the rules it still has to apply, `stateChanged`. `Scan` is the whole of
`scanOnce` with a non-empty list, `ScanNoRules` with an empty one. A worker's call of
the hardware layer is a `Call` of `HardwareCore` and runs through that module's actions,
interleaved with everybody else. Setting the touchpad is one locked call of the core and
one step, and so are each of the two offsets (`SetOffset`) and the GPU fix (`FixGpu`), which
are locked separately. A scan may miss programs (`Sights`): `Process32FirstW` and
`Process32NextW` failing can not be told from the end of the list. A program so missed seems
to exit and to start again, and counts as two of `MaxFlips`. `CoreSpec` is the refinement: hidden
behind the mapping of `unsettled`, the engine is a set of callers `HardwareCore` allows,
so the proved invariants hold in it.

**TriggerStore** has memory, file and temporary file, and each writer's position in
`replace` and `WriteFileU8`: create, write, rename. Every file operation may fail; the
process may die between any two steps. A crash is the death of the process: the machine goes
on, and what was written is found whether it was flushed or not - so that the ignored result
of `FlushFileBuffers` makes no difference. A rule is reduced to its path, its other fields as
one value, whether its actions are empty strings (made "none" by `replace`) and whether
it has fields this build does not know (kept by `load`, dropped by `replace`). `Rules` are
all rules over the constants `Paths` and `Fields`, and a request or a file that parses
is any sequence of them and of `Junk`, the elements that are no objects (`Arrays`).
**DurableStore** is what its users may rely on: one value is served,
replaced as a whole, and a restart finds a value that was served. It permits a start to
serve the empty value, because `load` treats an unreadable file as no rules.

**SettingsEditor** puts the settings window on top. `rules` is `_triggers`, replaced once by
`Loaded` and changed by `EditRule`, `AddRule`, `DeleteRule` - which the window offers
before the list has come. Each edit starts a save (`StartSave`), gives it the list object that
`_triggers` names then, and waits for nothing: it connects on a pool thread, encodes that
object as it is by then (`Send`), and a pipe worker of its own serves it (`Serve` is `TriggerStore`'s `Replace`). Saves of other clients,
calls that fail without anybody noticing and crashes come in between; `adrift` is the
history of such causes. Edits change the object in place, but `Loaded` puts another into
`_triggers`: `first` is the object the window began with, and `early` the saves that were
given it and have not encoded it yet (`ListOf`).

**WmiConnection** is `Invoke` taken apart: the lock, `WmiService` (`Connect`), the
enumeration of the instance (`Find`), the command (`Exec`), and `AttemptFailed`, which
drops connection and path and starts over once. Connections carry the generation of the
WMI service they were made to, a path the connection it was found over; a service restart
leaves them dead. `Cpu` and `Query` are `hc_get_cpu_freq_mhz` with `g_cimv2`, which nothing
but `hc_shutdown` drops. **CommandChannel** is what `Invoke` promises: callers one at a
time, at most two runs of the command, success only after a run - which is what
`HardwareCore` takes for granted when it makes an `Invoke` one step.

**GpuCalls** adds the callers of the same lock that have nothing to do with WMI: the
clock fix (clear the log, dynamic pstates, `nvidia-smi` for up to 10 s under the lock),
then `hc_last_log` and a copy of its text after the lock is free; the overclock
binding probed once, its error text fetched by a further call; the statistics, which
take no lock. A copy made while a fix rewrites the log may give anything. `dll` counts the loads of
`nvapi64.dll`. Every way out that has a `FreeLibrary` of its own is an outcome of its own: a fix
that sets the pstates of a GPU or not (`PstateSet`, `PstateNotSet`), statistics read
in-process or not (`UsagesRead`, `UsagesNotRead`), a probe that fails at one of
`ProbeExits`. An offset is taken, refused by NVAPI (the handler then asks for
the reason, and is told there is none), or not available.

**MainWindow** runs on one thread cut at every `await`. A poll goes through the
settings request, the first (mode) and the last (`g_lastPpm`) of the snapshot's readings and
the reply; `Refresh` begins one or sets `_refreshQueued`; `EndPoll` is its `finally`. The slider
has the pointer, the 250 ms debounce and the writes that `_ppmWritePending` counts, each of
which the service carries out some time between its start and its return. `ClickMode`
shows the new tile before the service has been asked. The service's calls are those of
`HardwareCore` seen from outside, one step each: done; refused, which may leave beast
mode behind; for a profile, done without its level or with beast in its place; or done with
the answer lost (`ExecuteWrite`, `ExecuteProfile`). `choice` and `why` are history:
the level the user chose last, and what has come between. `IntMax` is a small `int`: the
numbers in `FileSeconds` overflow it as a large number in the file overflows the real one.

**ServiceLife** has the main thread's phase (message loop, open menu, teardown), a thread per
menu job, and the coordinator's operations cut at every system call, because none of its
users takes a lock. `child` is `child_`, `open` the process handles not yet closed, `proc` the
UI processes: the first one that comes up stays, a further one leaves, and any of them
may die at any time. A UI that closes releases its mutex first and ends later (`UiLeaves`,
`UiEnds`), so that the next may come up in between. `Working` are the threads that have looked
at `child_` and are yet to act on it. While two threads are, or a job is after the final
quit, the handles they have to do with are noted in `shared`, and those closed again in
`twice`. A menu, whether it was open or is opened by a click queued earlier, may eat the
WM_QUIT (`MenuEatsQuit`). Menu choices carry the mode the menu was built on. The teardown
stops and joins, or terminates, the scan thread and the listener, quits the UI and destroys
the coordinator; `Exit` ends whatever still runs.

**PipeServer** has the listener's position in `listenerLoop`, who is on its instance, and
per client what it sent, where its worker is and whether an unread reply is in the pipe.
Clients stall, vanish, send part of a frame or a bad length, give up connecting.
`FlushFileBuffers` is the guard of `CloseConnection`. `stop()` sets the flag, connects
once, waits, and kills the listener if it is stuck (`Kill` stands for the 3 s limit: it
is enabled only when the listener can not move by itself). `TerminateThread` closes no handle:
the instance stays, and whoever is or gets on it waits there. `Exit` is the return of
`wWinMain` some time after `stop()`: it takes the detached workers with it, wherever they are,
and every pipe.

## 4. Runs

| run | question | bounds |
|---|---|---|
| `hardware_core` | `TypeOK`, `MirrorExplained`, `ReplyHonest`, `TargetIsKept` under losses and refusals | 2 callers, modes 1 and 259 (beast after the cut), levels 0 and 257 (1 after the cut): a valid and an invalid request of each kind |
| `trigger_engine` | `TriggerTypeOK`, `ChangesAnnounced`, `CoreSpec`, `EngineCatchesUp` under faults and unlimited delays | 2 workers, 1 program, 2 flips, 1 save; a rule with a level, a list of two rules of which one is disabled, and the empty list |
| `trigger_applied` | `LastEdgeInForce`, `TouchpadFollows`, `FixedOnExit`, `OffsetsOfRunning` when workers end before the next scan and the EC does not fail | 5 flips, single rules of seven kinds |
| `trigger_store` | `StoreTypeOK`, `DurableSpec`, `NothingToLose`, `EditsLand`, `OnlyUserRemoves` | 2 savers, 2 programs, 3 edits, 1 save by another client, 4 first files, 1 crash |
| `pipe_server` | `PipeTypeOK`, `NoReplyLost`, `EveryoneGetsIn`, `EveryRequestAnswered`, `StopReturns` | 2 clients, all client misbehaviour, failing creation, fairness |
| `core_calls` | `CoreTypeOK`, `PathBelongsToConnection`, `RecoversInOneCall`, `CpuFailsOnlyWhenStale`, `ChannelSpec`, `LibraryBalanced`, `FixAnswerIsOwn`, `OcAnswersAgree`, `LockComesBack` | 2 threads, 2 generations of the service, 2 names of the instance; `Mixes` |
| `main_window` | `WindowTypeOK`, `NoRefreshForgotten`, `ChoiceStands`, `WindowCatchesUp` | 2 modes, 2 levels, 2 writes in flight, 2 user actions, 1 change by others, 1 failing request |
| `service_life` | `LifeTypeOK`, `HandlesBalanced`, `NoUiLeftBehind`, `MenuPpmKeepsMode`, `ServiceExits` | main thread and 1 job thread (used again and again), 2 UI processes, 1 mode change by others |
| violations | `hardware_mirror_race`, `trigger_slow_open`, `pipe_server_stop`, `ui_stale_tile` | section 6 |

Why the bounds are enough. Two threads: every property of the hardware layer relates
one call and "some other call", and the code has no state that counts callers; the
theorems drop the bound. `MaxFlips = 2` has a start and an exit pending at once, 5 has
two complete uses of a program. `MaxSaves = 1` edits the list between a scan and the
worker that reads it. Two savers can overtake each other, three edits leave one behind
both; the list they save is a result of the first. `MaxCrashes = 1` crashes a save at any
step; `FirstFiles` are the files an earlier life may have left. Two clients are one that
misbehaves and one that suffers. Two generations of the WMI service make a connection
stale, two names make a path stale. Two user actions are a choice and a correction, or a level and a tile.
`MaxUi = 2` has a UI that replaces another or meets one. A second job thread meets the
first only in ways in which a job meets the main thread; with two the instance has over
ten million states. `service_life` has 600,000 states, `trigger_engine` nearly 400,000.

`Mixes` says which calls and which outside changes one behaviour of `core_calls` combines:
WMI calls with a restarting service, and GPU calls plus the CPU query with a changing
driver. What the two halves share is the lock, and the CPU query takes part in both.

Deadlock checking is off where a bounded environment ends: no more
programs, clients or crashes - and, in the service, nobody has to make a call. It is on in
`core_calls`, `main_window` and `ui_stale_tile`, where calls or polls go on for ever.

`PromptWorkers` (in `trigger_applied`) says that workers end before the next scan, 3 s
later. That is usual - a worker sleeps at most about 1.6 s per rule - but not
guaranteed: the core lock is held up to 10 s by a GPU fix. `trigger_slow_open` shows what
happens without it. In `trigger_engine` it is off.

Several properties have the form "holds, or one of these causes has come between"
(`MirrorExplained`, `ChoiceStands`, `EditsLand`, `HandlesBalanced`). The causes are history
variables, each set by the actions that are that cause and, in `EditsLand` and `ChoiceStands`,
reset when the code makes things right again. `HandlesBalanced` and `NoUiLeftBehind` except
single handles, those in `shared`, and keep their claim for all others.
`EveryRequestAnswered` excepts the end of the process, `ServiceExits` an eaten WM_QUIT.

## 5. Fairness

* Every thread that can run, runs: weak fairness of the steps of each thread, of the scan
  and of the EC. Windows schedules all of them at normal priority; the scan loop has a
  timed wait and catches everything it throws.
* Nobody is obliged to make calls, start programs, connect, click or crash.
* `PipeServer`: creating a pipe does not fail for ever (strong fairness of its success:
  the loop retries every 250 ms); a client that tries connects when an instance is free,
  unless it gives up, and a client whose reply has arrived reads it - `ServiceClient`
  does nothing else. A client that has merely connected owes nothing, and stalls. Workers go
  on while the process lives, also after `stop()`; they are not assumed to be waited for, and
  `Exit` may come at any time after it.
* `FairCoreSpec`: weak fairness of each thread's step inside the core. COM calls return,
  possibly with an error; `nvidia-smi` is given 10 s.
* `FairWindowSpec`: the timers fire, and requests end (`SendSync` limits connecting, and a
  failure is a result). Nothing is asked of the user, who may drag the slider for ever.
* `FairLifeSpec`: threads go on, a started UI comes up, an open menu is closed some day. The
  teardown is strongly fair: a WM_QUIT posted to the main thread stays in its queue, so a
  user who opens one menu after the other can not put it off for ever. Neither the UI
  nor the scan thread nor the listener has to react to anything.

## 6. What the runs found

Checked violations (findings in `PROJECT.json`):

* `hardware.cpp:44-46` holds a plain atomic to be enough for the mirror. Two overlapping
  `SetPpm` calls store in the other order than they wrote, and the mirror stays wrong.
* An open worker that is delayed past its program's exit leaves the machine in the open
  mode: nothing orders the workers of one program.
* A stop whose poke comes before the listener's next instance kills the listener after 3 s.
* A mode tile that was clicked and refused stays highlighted: the poll that brings the
  unchanged mode leaves the window alone.

Known behaviours, seen while modelling; the properties name them as exceptions or the
models contain them, and no run is kept for them.

Triggers:

* `GpuCoreMhz` and `GpuMemMhz` are documented to return to zero on exit
  (`ProgramTriggers.cs:28`); a zero is never written (`trigger_engine.cpp:215`), so
  `OffsetsOfRunning` speaks of running programs only.
* `GpuFixOnExit`, the touchpad actions and the offsets of a rule are skipped on an edge
  whose mode action is "none" (`trigger_engine.cpp:151`, against `ProgramTriggers.cs:34`).
* Emptying the rule list and filling it again fires open actions for a program that never
  stopped. So does a list of processes that could not be read to its end, after close actions
  for programs that run. Two enabled rules of one program start two workers that each apply
  both. A worker thread that can not be created loses its edge.
* A profile's level, written right after the mode change, is eaten by the mode's default
  (`MirrorExplained` names this cause "eaten").

Stores and settings window:

* Saving rules through the pipe drops unknown fields (`stores.cpp:310`), which
  `stores.h:4-5` and `pipe_smoke.cpp:4` say are kept. `DurableSpec` and `EditsLand` compare
  lists as the wire carries them.
* A failed file write is answered as saved.
* A window that could not load the rules starts from an empty list; the first rule added
  is then saved over all of them (`SettingsWindow.xaml.cs:65`). A rule added while the window
  still loads does the same, even if its save goes out after loading: it was given the list
  object of before (`SettingsWindow.xaml.cs:563`), while the window shows the one loaded. Both
  last until the next save of the present list goes through alone; `EditsLand` and
  `OnlyUserRemoves` name them as exceptions.
* Saves sent at the same time are stored in any order, and the older may win until the
  next edit.

Core:

* `ConnectNamespace` takes an extra reference before it detaches its smart pointer
  (`honor_core.cpp:103`), so that each reconnection leaks one.
* A GPU fix that ran `nvidia-smi` in vain is reported with `clockResetOk` true: the answer is
  derived from the "-rgc" in the log (`pipe_server.cpp:346`), which is there whenever the
  program was started. `FixAnswerIsOwn` says "was run".
* Two overlapping fixes share the log; the answer of the first may tell of the second.
* A failed NVAPI probe is final; a dead `g_cimv2` is too, until the service restarts.

Tray and life cycle:

* Two threads at work in the coordinator at once - a click and a menu job, or a job and the
  teardown - can close a handle twice or lose one, and leave the UI that goes with it behind.
  `HandlesBalanced` and `NoUiLeftBehind` except the handles two threads had in hand.
* The coordinator knows the UI it has launched only: one the user started is not
  hidden by "toggle" but met by a second one that leaves again.
* A WM_QUIT that meets an open menu may be eaten by the menu's modal loop, also a menu that
  is opened by a click queued before the message.

Main window:

* A poll that arrives while the pointer holds the slider moves it.
* A touchpad switch whose request failed stays disabled: the snapshot taken afterwards brings
  the unchanged state, and `UpdateTouchpadUI` returns before it enables the switch
  (`MainWindow.xaml.cs:605`; read, not modelled).

Pipe server: a client connecting just before stop is drained unanswered. A client on the
instance of a listener that was terminated waits until the process ends. A request a worker
still holds when `wWinMain` returns is cut off.

## 7. Proofs

`HardwareCore_proofs` proves, for any set of callers, any requests in int32 (any
integers), any settling time, with and without faults:

* `TypeCorrect`: `Spec => []TypeOK` - in particular the mirror stays in -1..4.
* `MirrorIsExplained`: `Spec => []MirrorExplained`. `MirrorExplained` alone is not
  inductive: it says nothing while a thread stands between its write and its store.
  `MirrorInv` adds that levels about to be stored are in range, and that without drift
  either nobody is about to store and the mirror is exact, or exactly one thread is and
  its level is the one in force. The proof has one step per action; the interesting ones
  are a write while another store is outstanding (drift becomes "overlap"), a store, and
  `EcSettle` (drift becomes "eaten" unless the level was the default anyway).
* `RepliesAreHonest`: `Spec => []ReplyHonest`. Inductive together with `TypeOK`: a claim
  and the EC's acceptance are made by the same step.
* `TargetStays`: `Spec => TargetIsKept`. The invariant under it: a call whose target other
  than beast is confirmed is at "done" (or has left).

Assumptions: the named `ASSUME`s of `HardwareCore` (requests are integers, `SettleMs` is a
natural number, `Faulty` a Boolean).

`TriggerEngine_proofs` proves, for any programs, rule lists, workers and other callers, with
and without faults, with prompt and with late workers:

* `TriggerTypeCorrect`: `EngineSpec => []TriggerTypeOK`, which ties each worker's stage to
  the hardware layer: it is at work for a worker exactly while the worker waits for it.
* `AllIsAnnounced`: `EngineSpec => []ChangesAnnounced`.
* `EngineUsesCore`: `EngineSpec => CoreSpec`. A worker's start of a command is
  `HardwareCore`'s `Call`, its taking of the answer is `Return`, a step inside the layer is
  the same step, everything else is a stutter. The mapping keeps of `unsettled` only the
  threads inside `hc_set_ppm`'s sleep (`Asleep`), as the pauses of a worker are none of the
  core's.
* `MirrorUnderTriggers`: `MirrorExplained` and `ReplyHonest` with workers among the callers.

The inductive invariant `EngineInv` is `MirrorInv` and `ReplyHonest` of the layer below and

* `WorkerInv`: stage and `pc` agree; in the middle of a rule there is a rule; and whoever is
  on the way to a PPM write has a level in 0..4, without which the call would not be
  one of `Jobs`;
* `SleepInv`: only threads in `hc_set_ppm`'s sleep and workers in a pause are in `unsettled`.
  Without it a thread could enter `hc_set_ppm`'s sleep already marked, and the mapped
  `SwitchToBeast` would mark it when the core does not;
* `SilentInv`: a worker that owes the UI a message has `changed` set, which `Finish` reads.

What rules leave behind is proved under a hypothesis about the constants, `Undisturbed`: a
single rule (any one) that is not edited, only workers call the hardware layer, no command
is lost, no scan comes while a worker is busy, and the EC applies a mode within 600 ms, which
is what `RunTrigger` waits for before it writes a level. Programs come and go at any time, any
number of times. Without it the properties are false: `trigger_slow_open` drops prompt workers
only, a `SetPpm` of the pipe or a second rule may set another level, and a lost command is
tried twice at most.

* `LastEdgeApplied` (`LastEdgeInForce`), `TouchpadApplied` (`TouchpadFollows`), `OffsetsApplied`
  (`OffsetsOfRunning`): `EngineSpec =>` always that, for every rule with an action at the last
  edge. `FixApplied` (`FixedOnExit`) takes one program: others pin the clocks again.

`AppliedInv` is what makes them inductive: at most one worker exists, it serves the last edge,
and `Underway` says what each place of it has done already - above all that after the pause
the EC has settled and so keeps the level that is written, and that a call of the hardware
layer that comes back was taken. Hence `SetPpm` is never tried a second time.

Assumptions: those of `HardwareCore`; workers are threads (`WorkersAreThreads`), the store
holds lists of rules (`RulesAreRules`), and what a rule may ask for is among the requests the
layer may get (`RulesAreRequests`).

`PipeServer_proofs` proves, for any number of clients, with and without failing creation:

* `PipeTypeCorrect`: `PipeSpec => []PipeTypeOK`, which holds the ownership of pipe handles:
  the listener's instance is never a connection that has a worker.
* `NoReplyIsLost`: `PipeSpec => []NoReplyLost`.

Both follow from `PipeInv`, which adds `InStep` for every client: how far the client is
(trying, connected, answered, cut off, gone) agrees with how far its worker is. Without it
`NoReplyLost` is not inductive - a closing worker has to know that a client which is still
connected has its reply in front of it, hence that `buffered` belongs to flushing workers
only and that a client cut off never had a whole request. Assumption: the poke and the
empty instance are not clients (`PokeIsNoClient`).

`TriggerStore_proofs` proves, for any writers, paths, fields, first files and number of
crashes:

* `StoreTypeCorrect`: `StoreSpec => []StoreTypeOK`.
* `NothingIsLost`: `StoreSpec => []NothingToLose`.
* `StoreIsDurable`: `StoreSpec => DurableSpec`. `Replace`, the rename, a start and a crash are
  steps of `DurableStore`; creating and writing the temporary file and giving up are stutters.

`StoreInv` is `StoreTypeOK` (the text the holder of the store's lock writes is the list that
is served), `FilesInv` (before the rename the temporary file holds that text in full) and
`NothingToLose`. That makes a rename put the served list in place as a whole. `Kept` (module
`Selection`) stands for the loops that select rules from a list - `load` drops what is no
object, `RunTrigger` takes the rules of its program, the window deletes one: by place rather
than as a `SelectSeq`, which is recursive and could not be proved about.

`SettingsEditor_proofs` proves, for any edits, saves in flight and other clients:

* `EditorUsesStore`: `EditorSpec => StoreSpec`: all theorems about the store hold below
  the window.
* `EveryEditLands`: `EditorSpec => []EditsLand`. Not inductive by itself: `Following` says
  where the newest list is, unless `adrift` has noted a cause - a call that was given the
  present list is still to encode it (`Carries`), or the one call that has been sent carries it,
  or nothing is sent and it is the list served - and that the served list, the one sent and
  the window's differ by deleted paths only.
* `OnlyTheUserRemoves`: `EditorSpec => OnlyUserRemoves`; the paths the window's list lacks of
  the service's are those the user deleted since the two agreed. There is no condition that
  the window has loaded: a window that has not is apart from the service by `adrift`, and a
  save of the list from before loading makes it so again.

Assumptions of both: `Junk` is no rule, the absent and the torn file are no lists, the first
files are one of these or a list, other clients send lists, edits stay inside
`Fields` (`JunkIsNoRule`, `NoArraysInThese`, `FilesAreArrays`, `ForeignAreArrays`,
`NewFieldsInside`).

`GpuCalls_proofs` proves of the whole core, for any finite set of threads, any
mix of calls, any number of service generations, driver changes and instance names:

* `CoreTypeCorrect` (`CoreTypeOK`), `PathOfItsConnection` (`PathBelongsToConnection`),
  `LibraryIsBalanced` (`LibraryBalanced`), `FixAnswersOwn` (`FixAnswerIsOwn`), `OcAnswers`
  (`OcAnswersAgree`);
* the action properties `CommandsRecover` (`RecoversInOneCall`) and
  `OnlyStaleReadingsFail` (`CpuFailsOnlyWhenStale`);
* `CommandsAreChannelled`: `CoreCallsSpec => ChannelSpec`, the step that lets `HardwareCore`
  make an `Invoke` one step.

`CoreInv` has a part for the calls and the lock (`LockInv`: `pc` is inside the lock for its
owner and for nobody else, and belongs to the call made), one for the connections (`WmiInv`:
a connection is never newer than the service; in calm weather the second attempt has a live
connection and the right path - hence one retry is enough), and one for the GPU calls
(`FixInv`: what the log holds of the fix that wrote it last; `OcInv`: what each enquirer
has been told against the binding). The cardinality in `LibraryBalanced` needs
`ThreadsAreFinite`; further assumptions `MixesAreMixes`, `NoOneIsNoThread`.

`MainWindow_proofs` proves, for any modes and levels, any number of writes in flight, any
`int` and any numbers in the settings:

* `WindowTypeCorrect`: `WindowSpec => []WindowTypeOK`, with the poll interval at least 1
  after the wrap-around of the cut.
* `RefreshesAreKept`: `WindowSpec => []NoRefreshForgotten`, inductive with the types.
* `ChoiceIsExplained`: `WindowSpec => []ChoiceStands`. `ChoiceInv` follows the choice on its
  way as long as nothing has come between: in the slider while the pointer or the debounce
  holds it; then in every write not yet carried out, with at least one such write; then in
  `g_lastPpm`. `SentInv` (only levels are sent) is what types `lastPpm`.

Assumptions: `BeastIsMode`, `LevelsAreNat`, `SecondsAreInts`.

`ServiceLife_proofs` proves, for any number of menu jobs and UI processes:

* `LifeTypeCorrect` (`LifeTypeOK`: at most one UI stays; helper threads are gone before the
  objects they use), `HandlesAreBalanced` (`HandlesBalanced`), `NoUiStays` (`NoUiLeftBehind`),
  `PpmKeepsMode` (`MenuPpmKeepsMode`).

`LifeInv` says handle by handle what a thread may rely on (`HandleInv`, `LaunchInv`): at each
place of its code the handle it has come for is as it found it, or is one of `shared`
(`Sound`); every open handle outside `shared` is `child_` or about to be installed (`Holds`),
and every UI that lives on is one of these. It is inductive although the coordinator has no
lock because a second thread at work puts what both can touch into `shared` in that very step
(`CrowdKeeps`), while a thread alone finds `child_` as it left it (`AloneKeeps`). The rest is
what the teardown has achieved at each phase (`EndInv`, `HelperInv`), and that a job which writes a PPM level
comes from a menu on which it was enabled or is marked `stale` (`MenuInv`). Assumptions:
`MainIsNoJob`, `UiBound`, `BeastIsMode`.

TLC checked every inductive invariant on small instances before it was proved, except the
existence of a type for the lists in `EngineTypes`, which it can not evaluate.

Only model-checked is everything temporal under fairness: `EngineCatchesUp`, `EveryoneGetsIn`,
`EveryRequestAnswered`, `StopReturns`, `LockComesBack`, `WindowCatchesUp`,
`ServiceExits`. Liveness is out of the proof system's reach.

## 8. Not modelled

* Text handling of the JSON parser and encoder and of paths: sequential, over strings. What
  decoding does to a rule list and to the poll interval is in `TriggerStore` and `MainWindow`.
* The readings of a snapshot besides mode and mirror, the decoding of their bytes, the
  charge limit and the touchpad switch of the window: single commands without state of
  their own, each with the shape of `WmiConnection`'s command.
* What comes before the message loop: the single-instance mutex, `--install`,
  construction of the objects. Nothing runs concurrently yet.
* What detached workers do during the teardown: nobody joins them, and a request or an
  edge in flight goes on using the stores and the hardware until the process ends.
  `PipeServer` has the end of the process cut off its workers; in what state that leaves the
  hardware is not modelled.
* Power loss: a crash is the death of the process (section 3, TriggerStore).
* Windows, icons, colours and layout; the display refresh rate (two Win32 calls);
  autostart (three registry calls); the service manager (processes and registry); security
  descriptors; logging; build scripts.
* Time is abstracted as described in section 3: no property is about how long something
  takes.
