# TLA+ models of motyga-cli

motyga-cli is a coding agent: a Rust workspace (`src/motyga-rs`) whose *core* crate runs
sessions ("threads") that talk to a model and execute tools, whose *app server* serves
clients over JSON-RPC, and around which user interfaces, SDKs and services are built. This
directory holds models of the concurrent parts of core, of the app server and of its storage, what
TLC checks about them and what TLAPS proves. `PROJECT.json` lists, per definition, the source lines it
stands for.

## 1. The system

### Parts, state, operations, interactions

| part | state | operations | who calls it, what is hard |
|---|---|---|---|
| **Turn lifecycle** (`core/src/tasks`, `core/src/state/turn.rs`, `core/src/session/{mod,inject,input_queue,handlers}.rs`) | `Session.active_turn` (a turn state and its task), per-turn pending input, mail phase and approval waiters, the session mailbox, the history | `spawn_task`, `start_task`, `on_task_finished`, `abort_all_tasks`, `abort_turn_if_active`, `steer_input`, `inject_no_new_turn`, `try_start_turn_if_idle`, `maybe_start_turn_for_pending_work` | the submission loop, the task of each turn, app-server requests, extensions and the guardian share the slot. Every operation awaits between locks. |
| **Submission loop** (`core/src/session/handlers.rs`) | none of its own; takes ops one at a time | one handler per `Op` | starts, steers, aborts; leaves on shutdown |
| **Regular turn** (`core/src/session/turn.rs`, `core/src/tasks/{regular,compact}.rs`) | the run's local variables | sampling loop, drain of pending input, hooks, compaction | races steering and cancellation |
| **Request dispatch** (`app-server/src/{request_serialization,connection_rpc_gate,message_processor}.rs`, `lib.rs`) | a map of queues, drain tasks, a gate per connection | enqueue, drain, gate entry, close, shutdown | requests of all connections interleave; a drain task ends while a request arrives |
| **Agent registry** (`core/src/agent/registry.rs`, `agent/control/{spawn,…}.rs`) | a count of slots, a tree of paths, a pool of nicknames | reserve, prepare, commit, drop, release | concurrent spawns, resumes and shutdowns; failures between steps |
| **Execution limiter, residency** (`agent/control/{execution,residency}.rs`) | counters, an LRU list of loaded threads | check, guard, reserve, unload | check-then-act at a limit |
| **Thread state and status, outgoing messages** (`app-server/src/{thread_state,thread_status,outgoing_message}.rs`) | listeners and their generations, subscriptions, pending callbacks | subscribe, attach, unload, resolve, cancel, replay | stale generations; a connection that closes with a request open |
| **Rollout recorder** (`rollout/src/recorder.rs`, `thread-store/src/local`) | a queue of commands, pending items, a file handle, the session meta not written yet | record, persist, flush, shutdown, resume; metadata updates of unloaded threads | a failed write is retried after reopening the file; the process may end in the middle of a line |
| **Rollout compression** (`rollout/src/compression.rs`) | the plain file, its compressed sibling, temporary files, a run marker | compress a cold rollout; materialize it for an appender | every system call of a worker, an appender and a second worker interleaves; a crash leaves both files |
| **Memories database** (`state/src/runtime/memories.rs`) | a job row and an output row per thread, one global job row | claim, succeed, fail, heartbeat, select, prune, pollute, delete, clear | leases that end under a live worker, lists read before they are used, deletions in several databases |
| **Memories pipeline** (`memories/write`, `git-utils/src/baseline.rs`) | the memories directory and its git baseline | extract per thread; consolidate with an agent; `memory/reset` | any number of processes run it; only the rows coordinate them; crash between baseline and row |
| **Unified exec** (`core/src/unified_exec`) | a store of processes, buffers of output | open, write, poll, prune | output that arrives after the exit |
| **Readiness flag** (`utils/readiness`) | a set of tokens, a ready flag | subscribe, mark, wait | subscription racing `mark_ready` |

`PROJECT.json` names the remaining parts (tools, context manager, MCP, exec server, state
database, login, sandboxing, user interface, SDKs …) and why each is not modelled: mostly
I/O, pure text processing, or adapters of external services.

The parts meet as follows. A client's request enters the app server's processor loop, is
dispatched in the order of its serialization key, and its handler submits an `Op` to a
session's channel or calls a method of the session directly (`turn/steer`). The submission
loop executes one `Op` at a time and starts a tokio task for each turn. Tool calls of a turn
may spawn agents through the registry; agents send mail to each other, which is an `Op` of the
receiving session. Each session appends its history to a rollout, through the recorder; a
background worker compresses rollouts that have been silent for a week, and whoever appends
to a compressed one first restores it. The start of every root session also runs the memories
pipeline, which reads the rollouts of idle threads and consolidates what it extracted.

### What must hold

* *Turns*: a started turn ends in exactly one terminal event (`TurnComplete` or
  `TurnAborted`); after it the turn is silent; two live tasks never run at once; a task is
  never overwritten in the slot; input is recorded once and never silently lost; mail that
  asks for a turn gets one.
* *Requests*: handlers of a key exclude each other as their access says and take effect in
  dispatch order; no request is queued without a drain task; a drained connection is quiet;
  a hung handler delays its own key only.
* *Agents*: slots are neither leaked nor given back twice; the limit holds; a path has one
  owner; nicknames are distinct.
* *Rollouts*: what a barrier has acknowledged can be read, after any number of retries, crashes,
  compressions and materializations; items keep their order and are not repeated; no step on
  the files shortens what readers see.
* *Memories*: the memory of a thread is the one of its latest extraction; a deleted thread gets
  none back; neither the baseline nor the selection claims a memory no agent has seen; a
  deleted thread, and one that stays polluted, is forgotten; an idle thread is extracted.

The hazards behind these (which line, what could go wrong, which property would notice) are
the list `hazards` of `PROJECT.json`.

## 2. Modules

One action stands for the code between two awaits that can suspend, that is for what the
runtime executes without giving another task the chance to run *on the same lock*. Where the
code takes a lock, changes the state and awaits again, this is one step; where it takes two
locks one after the other, these are two. Payloads (prompts, mails, events) are model values.

### `TurnLifecycle` — one session

| variables | code |
|---|---|
| `activeState`, `activeTask` | `Session.active_turn: Mutex<Option<ActiveTurn>>`: its `turn_state` (by number, each `ActiveTurn::default()` is a new one) and its `task` |
| `pendingInput`, `phase`, `waiters` | `TurnState.pending_input`, its mailbox delivery phase, its pending approvals |
| `mailbox`, `history` | `InputQueue.mailbox_pending_mails`, the recorded conversation |
| `pc`, `kind`, `cancelled`, `local`, `finishing` | the spawned future of each turn: where it is suspended, its task kind, cancellation token, local variables, and the turn state `on_task_finished` holds |
| `call` | where each caller of session methods is: the submission loop, an extension, the guardian |
| `started`, `ended`, `rejected`, `discarded`, `overwritten` | observations only |

The actions follow the functions: `UserInput…`, `Compact`, `Interrupt`, `Shutdown`,
`InterAgentCommunication`, `NotifyApproval` are ops of the submission loop; `SteerInput`,
`InjectNoNewTurn`, `OfferIdleWork`, `AbortTurnIfActive` come from other tasks; `PendingCheck`
and `Reserve` are `maybe_start_turn_for_pending_work`; `Start…` is `start_task`;
`Abort…` is `abort_all_tasks` with `handle_task_abort`; `Idle…` is `try_start_turn_if_idle`;
the task's own steps are `RegularTask::run` with `run_turn` (`TaskBegin` … `OuterLoop`) and
`on_task_finished` (`Finish…`).

The end of a task is two steps: it looks at its cancellation token (`FinishCheck`) and then
waits for the lock of the slot (`FinishTake`); an abort may come between them.
`get_pending_input` is two steps as well, because the mailbox has a lock of its own.
Steps that are larger than the code's: `TakeAndCancel` takes the turn and cancels its token at
once; a task that looks at its token between the two in the code does what a task that looked
before both does in the model. `IdleRecheck` stands for two looks at the mailbox, of which the
later decides. `HasPendingInput` reads the queue and the mailbox at once; only the reader
drains them, so that the two reads of the code have the outcome of one at the time of the first
or of the second. `InjectNoNewTurn` finds no turn and records the items in one step, where the code
awaits in between (`inject.rs:148`-`159`): a turn that begins meanwhile only comes before or after the
items in the history, whose order no property speaks of. A run also ends with `Err(TurnAborted)`
where its token is not cancelled (`turn.rs:157`, `359`, `418`); it then reaches `on_task_finished` as
any other end of a run does, and is not a step of its own. A task aborted by `handle.abort()` stops
at once: that a single poll outlasts the 100 ms of the graceful abort is not modelled.

### `TurnSlot` — what the lifecycle promises

The ownership protocol of the slot with everything else removed and one caller: it installs a
task; whoever takes the task out, the task itself or the caller that aborts it, owes the turn
its terminal event. The set of turns is arbitrary. `TurnLifecycle` implements it as long as
the submission loop alone starts and aborts turns: `ImplementsTurnSlot` instantiates `TurnSlot`
with a refinement mapping (every run point becomes `"running"`, `fin_lock` becomes `"checked"`,
a victim that is only being cleared becomes nobody) and is a property of the run `TurnLive`.
With a second caller the protocol breaks: `FindingTwoEnds`, section 5.

### `RequestDispatch` — the app server's dispatcher

`queues` and `present` are the `HashMap` of deques; `drainer[d]` and `batch[d]` are the drain
task that the request `d` spawned when it found its key absent, and the batch it joins;
`accepting` and `conn` are the connection's gate and the cleanup after it closed; `server` is
the processor loop. `arrival` and `clock` record the dispatch order for the properties. A
handler's body is one step or, for requests in `Hung`, never returns. The cleanup closes the gate a
second time (`ConnectionRpcGate::shutdown`) before it waits; the drain timeout may fire at any
time while a handler runs.

### `AgentRegistry` — agents of a session

`total` is the atomic counter, `tree` the map of agents by path (or by a key of its own for an
agent without one), `used`, `gen` the nickname pool and its reset count, `loaded` and `stored`
the thread manager's table and the rollouts on disk (external to the registry). A call is at
`idle`, `looked`, `reserved`, `prepared`, `created` or `done`; failing or being cancelled at an
await is `DropReservation`. `CreateThread` is `spawn_thread_with_source`, shared by spawns and resumes: a
resume that finds its thread running gets that thread and goes on to commit. `lost` counts slots
whose entry was replaced, see section 5.
The lock of the tree and the decrement that follows it are one step: apart they could only
make `reserve_spawn_slot` refuse more often, and `ReserveSlotFails` may always happen.

### `RolloutFiles` and `RolloutRecorder` — one rollout

`RolloutFiles` is the disk: `plain` and `zst` are the two files, a sequence of lines and
beginnings of lines; `handle` says whether an opener's file still has its name; `mat` and `job`
are the program counters of `materialize_rollout_for_append_blocking` and
`compress_rollout_if_cold_blocking`, one step per system call; `job[c].same` is what
`same_file_state` will find, so that lengths and times are not modelled (a write always changes
them: the file it is compared with was last written a week before). `GiveUp` and `EndJob`, an
error or the end of the process, are possible at every step. `raced` observes that the plain file
was removed while an appender had it open, was about to open it, or had written since it was
compared: from then on the properties about reading promise nothing, see `FindingUnlinked`.

`RolloutRecorder` extends it with `RolloutWriterState` (`rec`), the command channel (`queue`) and
the metadata update of an unloaded thread, the second opener. A barrier carries the items sent
before it, and `acked` collects what was answered Ok. `Recover` is the one retry of
`write_pending_with_recovery`; `WriteTears`, `CrashInWrite` and, for the metadata update, `UpdateTears`
leave the beginning of a line.
`Create`, `Resume` and `Crash` make a sequence of processes that load the same thread. Every
item is a command of its own; the code's batches only save commands.

### `MemoryStore` and `Memories` — the memories pipeline

`MemoryStore` has one operator per transaction of `memories.rs` on the rows `jobs[t]`,
`outputs[t]`, `global` and on the memory columns of `threads[t]`. Time is a flag per deadline
(lease valid, backoff running, cooldown running), and the passing of time is an action that ends
one. A worker stands for its ownership token: it never holds two claims of a job. Watermarks are
the versions of a thread. The watermarks and the retry counter of the global job decide nothing
in the code and are left out.

A row of `threads` is read and written by others. Pollution is three steps, deletion three, and
`reconcile_rollout` two: `ReconcileReads` takes mode and modification time from the rollout file (a
searched listing, a rename and thread goals do this), `ReconcileWrites` puts them into the row. The
file does not record pollution, so that the row is `enabled` again; the version may have been
overtaken since it was read; and a row that was deleted in between is inserted again, with its
memory rows purged. The upsert and the update of the mode that follows it are one step: between
the two the row has the read version and its old mode, which is a state before or after another
write of one of them. Setting the mode by hand, and the mode `disabled` it may set, are not
modelled. An update of the git information copies `polluted` into the rollout, which only makes
a later reconciliation change nothing.

`Eligible`, the scan for candidates, asks for a row and its mode. The age window, the idle cutoff, the
limit of the scan, archived threads and the exclusion of the thread that starts
(`memories.rs:168`-`234`) are left out: the model claims and selects more often, and `Extracted` is
about threads that pass all of these while they wait. The selection likewise has no top N and no
`max_unused_days`.

`Memories` is `start_memories_startup_task` for a set of workers: `Scan` (all candidates before
the first claim), `Claim` once per thread, `LoadRollout` and `Extract…` in any order, then
`StartPhase2` … `Succeed`. The directory is the snapshot of each thread synced into it
(`synced`), whether an agent has changed anything else (`edited`), and the baseline's snapshots
(`baseline`). The reset of the baseline is two steps, since `remove_git_metadata` comes before
the commit; when the index cannot be written after it the new baseline stays and the job has
failed (`IndexFails`). A summary that cannot be pruned stays in the directory (`PruneFails`), and
the agent sees it. The whole input selection is read in one step, although the code
makes two passes over pages; a row that changes between them is skipped, as one that changed
before both may be.

`memory/reset` is `ResetRows` and then `clear_memory_root_contents`, which removes one entry after the
other in the order of the directory: `ClearGit`, `ClearSnapshot` and `ClearNotes` in any order, and
`ResetEnds` at any point, because an error or the end of the process leaves what was not removed.

`digested` and `overrun` are observations: the snapshots an agent has consolidated since the last
reset, and whether somebody who changed the directory was not alone in it. That is so if a
worker changed it without owning the lock or during a reset, if a reset removed an entry while a
job was running, or if a reset ended and left files. In the last case the next session makes
a baseline of the leftovers, which the agents that start after the reset have not seen; this is
what the code does, and `BaselineDigested` and `SelectedDigested` promise nothing from then on.

### Proof modules

`TurnSlot_proofs`, `RequestDispatch_proofs`, `AgentRegistry_proofs`, `RolloutFiles_proofs`,
`RolloutRecorder_proofs` (which extends the one before it), `Memories_proofs`,
`TurnLifecycle_proofs` and `TurnLoop_proofs` (which extends it); section 4.

## 3. Runs

| run | question | instance | properties |
|---|---|---|---|
| `TurnLoop` | the loop alone starts turns; user input, a steer, mail that triggers a turn, compaction, interrupt and shutdown race the task | 3 turns, one item of each kind, one interrupt, compaction, shutdown; 1.8 million states | `TypeOK`, `NoInputLost`, `WaiterOutlivesWait`, `NoTaskOverwritten` |
| `TurnRaces` | an extension reserves the idle session, an item is injected, and the guardian aborts from its own task and then starts pending work: three callers | 2 turns, one item of each; 4.1 million states | `RecordedOnce`, `RefusedNotRecorded`, `SilentAfterTerminalEvent` |
| `TurnLive` | does every started turn end, is every input settled; does the lifecycle implement `TurnSlot` | 3 turns, one interrupt, compaction, shutdown, fair | `StartedTurnEnds`, `InputSettles`, `ImplementsTurnSlot` |
| `TurnSlot` | the protocol by itself | 4 turns, symmetric | `TypeOK`, `OneTerminalEvent`, `SilentAfterTerminalEvent`, `FinishTakesOwnTask`, `OneRunningTask` |
| `RequestDispatch` | a write and two reads of a key and an unkeyed request that hangs, two connections, shutdown | 4 requests, fair; half a million states | `TypeOK`, `ExclusiveRunsAlone`, `DispatchOrder`, `OneDrainer`, `QuietAfterDrain`, `RequestsSettle` |
| `AgentRegistry` | two spawns of the same path, two resumes, two shutdowns at a limit of two | 2 spawned, 1 stored agent | `TypeOK`, `SlotsAccountedFor`, `LimitKept`, `PathsExclusive`, `NicknamesDistinct`, `OnlyPathlessReplaced` |
| `Rollout` | recorder, metadata update and two compression workers on one rollout; errors and crashes | 2 items, 2 sessions, 1 fault that the retry may meet again; 3.8 million states | `TypeOK`, `AckedReadable`, `RecordedInOrder`, `AcceptedKept`, `SiblingIsOlder`, `HistoryKept` |
| `Memories` | two sessions run the pipeline while the thread is written, polluted, reconciled, deleted and the memories are reset | 1 thread with 2 versions, 2 workers, 1 fault, 1 request; 3.4 million states | `TypeOK`, `OutputIsLatest`, `BaselineDigested`, `SelectedDigested` |
| `MemoryLive` | do two requests undo each other: pollution or deletion against reconciliation or reset; is what must be forgotten forgotten, is every version extracted | 1 thread with 2 versions, 1 worker that starts again and again, 2 retries, 1 fault, 2 requests, fair; 1.1 million states | `DeletedLeavesNoMemory`, `Forgotten`, `Extracted` |
| `FindingTwoEnds`, `FindingUnlinked`, `FindingTwoConsolidations` | section 5 | | violated |

That a turn of `TurnLifecycle` ends once, that a finish takes its own task and that one task
runs at a time, with the loop as the only caller, is not checked again there: it follows from
`ImplementsTurnSlot` and the theorems about `TurnSlot` (section 4 proves the first that way).

Deadlock is checked only where sessions keep starting (the runs of `Memories`). Elsewhere clients
may stop submitting, and a session, a server, a registry or a rollout without work is at rest.

### Bounds

* `MaxTurns` is at least the number of items that can start a turn plus `MaxCompacts`, and
  `MaxStates` leaves room for every `ActiveTurn` these allocate, so neither bound stops a
  behaviour half-way; in particular the liveness properties are not made true or false by
  them. Three turns are enough for a late finish of one turn to meet the abort and the start
  of the next two, which is the deepest race the slot has.
* `MaxSteps` bounds the follow-up samplings, hook continuations and failed compactions of a
  turn. One is enough for input to arrive before, during and after a sampling request. The
  model's service cannot make a turn go on for ever; the code has no such bound, so
  `StartedTurnEnds` assumes that the model eventually stops asking for tools.
* `MaxInterrupts`, `MaxCompacts`, `MaxShutdowns`: one each lets every pair race.
* In `RequestDispatch` a request is sent once; four requests hold the shapes write–read–read,
  read–write–read and read–read–write of a deque and one request beside it. The
  request that hangs there has no key; `RequestsSettle` also holds for a write and a read of one
  key beside a request of another that hangs (`Requests = {write1, read2, other}`,
  `Hung = {other}`; 64 thousand states).
* In `Rollout`, two items and the meta let a fault hit the first, the middle and the last write of
  a barrier; one fault is an error, a torn line or a crash in a write, while a crash between
  writes costs nothing, and neither does a retry that fails as well, so that a barrier can be
  answered with an error and a later one must make up for it. Two sessions make one resume, so that a file can be written, compressed,
  materialized and written again. `MaxQueue` is one: a command waits while one is worked on.
  Its `VIEW` takes for one state those that differ only in
  persist or flush once the file is no longer deferred, where they do the same, or, after
  `raced`, in what was promised, of which no invariant then speaks. One worker with two faults
  (2.6 million states) satisfies the same properties.
* In `Memories`, stalls, crashes and failures share `MaxFaults`, and pollutions, reconciliations,
  deletions and resets share `MaxRequests`. One of each lets every fault meet every request; two
  requests meet in `MemoryLive`. One thread is enough for all properties, which speak of
  one thread at a time. Model failures (`ExtractFails`) are not counted but limited by the
  retries. The run `Memories` uses a `VIEW`: states that differ only in what nothing reads before it is
  written again (the owner of a row that is not running or whose owner has given it up, the
  version of a rollout that is being deleted, mode and version of a row that is gone, edits where
  there is no baseline, `digested` after `overrun`) have the same successors and satisfy the same
  invariants. `MemoryLive` leaves out the history variables `digested` and `overrun` as well
  (`PipelineView`): no action, no fairness condition and none of its properties reads them.
* In `AgentRegistry` the one nickname `n` makes the pool run out at the second spawn.

### Fairness

`TurnLifecycle!Fairness`: the runtime polls every task and every caller whose next step is
possible (weak fairness of `TaskStep(t)` and `CallStep(p)`); and the client answers an
approval it is asked for (`NotifyApproval`), without which a turn may wait for its user for
ever. Nothing is assumed about clients otherwise: no input, interrupt or mail has to come.
`RequestDispatch!Fairness`: drain tasks, handlers and cleanup tasks are polled while the
server is up; once the processor task has ended the process may exit, and nothing is promised.
A hung handler is exempt by construction (`HandlerReturns` is never enabled for it).
`Memories!Fairness`: root sessions keep being started (`Start`) and are not rate limited every
time (`SF` of `Scan`); a pipeline that neither fails nor crashes takes its next step, a model
request and an agent end with some outcome, a reset that has cleared the rows ends (with whatever
it has removed by then), and deadlines pass. Nothing is assumed of threads being written, polluted,
reconciled or deleted. Without
sessions that start, nothing in the code would take over a claim: the pipeline has no timer.

## 4. Proofs

For any set of turns (assuming only `NoTurn \notin Turns`), `TurnSlot_proofs` proves `TypeOK`,
`OneTerminalEvent`, `SilentAfterTerminalEvent`, `FinishTakesOwnTask`, `OneRunningTask` and
`EventsOnlyGrow` (no step takes back a terminal event). None of the safety properties is
inductive: that a turn gets one event depends on who holds it. The inductive invariant
`OwnerInv` says that a turn has at most one owner:

* `SlotInv`: the task in the slot is running, uncancelled and has no event yet; an uncancelled
  running task *is* the one in the slot; and the slot is empty while the caller aborts;
* `TaskInv`: a cancelled task that still runs is the one the caller waits for, and a turn that
  finishes on its own was never cancelled;
* `VictimInv`: what the caller aborts is cancelled and has no event yet;
* `StartInv`: a turn about to be started has no task.

That a finish takes its own task or none follows from the first two: if the task that passed the
token check is still uncancelled it is in the slot, and if it has been cancelled since, the
caller is waiting for it and has started nothing else. The second half is what a second caller
takes away.

`TurnLifecycle_proofs` is about a session with any callers, turns, turn states and items
(`BoundsAssumption` only says that the bounds are numbers, `KindsAssumption` that an injected item
is not also somebody's input): it proves `TypeOK`,
`SilentAfterTerminalEvent`, `RecordedOnce` and `RefusedNotRecorded`. Two inductive invariants carry
them. `BaseInv` says what is held between two steps of a call or of a task:

* `CallsSound`: a call that will start a turn has a turn without a task, no other one has
  (`StartsDiffer`); one that aborts has a task that began and its turn state, and the task has
  ended when the call is about to send the event;
* `TasksSound`: a turn without a task was never cancelled and has no event; a task in
  `on_task_finished` holds the turn state it took;
* `SlotSound`: the task in the slot has begun and is not cancelled.

`ItemInv` is about items. It lists the places an item can be in (`Places`: the mailbox, the history,
the queue of a turn state, the input of a run and what it took, the input and the items of a
call) and says that no item is twice in one place or in two (`Apart`), and that what they hold was
submitted and not refused. Every action then is one of four kinds, each with a lemma:
places lose items (`ItemsDrop`), an item is submitted into a place (`ItemsNew`), what a place holds
moves as a whole or by its first item to another, which may lose what it held (`ItemsMove`), or
the input of a call is refused (`RejectItems`). `RecordedOnce` reads this off the history.

`TurnLoop_proofs` assumes `LoopAlone`: no guardian interrupts reviews (`~Guardian`) and no extension
offers work (`IdleItems = {}`), so that the submission loop is the only caller that starts or
aborts turns. This is the session of the runs `TurnLoop` and `TurnLive`; without it the results
are false, as `FindingTwoEnds` shows. It proves `NoTaskOverwritten`,
`WaiterKeptUntilCancel` (a waiting task has its waiter until its turn is cancelled), that
`TurnLifecycle` implements `TurnSlot` (`ImplementsTurnSlot`), and from that and the theorem of
`TurnSlot_proofs`, instantiated with the refinement mapping, `OneTerminalEvent`. `LoopInv` adds to
`BaseInv`:

* `OthersIdle`: the other callers never leave "idle";
* `LoopOwnsSlot`: the slot is empty while the loop aborts, and holds no task while it starts one;
* `WorkInSlot`: an uncancelled task before `on_task_finished`'s take is the one in the slot, and
  a cancelled one is the one whose end the loop awaits;
* `WaitersKept`: the waiter of an uncancelled task is in the turn state of the slot.

The action property `WaiterOutlivesWait` needs no more than this: only an answer and `clear_pending`
remove a waiter, and by `WorkInSlot` no task waits when the loop has come as far as clearing.

Two more results are read off `LoopInv`. `FinishTakesOwn`: a task about to take the slot in
`on_task_finished` finds its own task or none, and `OneTaskWorks`: two uncancelled tasks never work
at once. The first is the step that goes wrong in `FindingTwoEnds`, so that the theorem says which
callers the code, which compares no identifiers there, depends on.

The simulation maps a task's points to the ones of `TurnSlot` (`SlotPoint`, lemma `PointIs`): the steps
of a run and the steps of a call between taking and emitting change nothing there.

Under the same assumption it proves `NoInputLost`. That invariant is a union over queues, turn states
that are still held (`Alive`), runs and calls, so a step can break it in two ways: it drops
the variable of somebody who holds input, or the last holder lets go of a turn state with input
in it. `KeepInv` adds to `LoopInv` what excludes both:

* `RunHands` and `LoopHands`: at which points a run and the loop hold input, items and a turn state
  at all, so that a run that ends, and a call that returns, drop nothing;
* `Fresh`, `OwnState`, `ExtendsSlot`: the turn state in the slot of a running task, or of one being
  started, is not one that `on_task_finished` still holds, and is the one `start_task` extends;
* `FinisherHolds`: a turn state in the slot without a task belongs to `on_task_finished`, so that
  `abort_all_tasks`, which drops it from the slot uncleared, is not its last holder;
* `DrainedStays`: what `on_task_finished` has emptied gets no input any more, so that nothing is in it
  when the slot is cleared (an injected item may be: `inject_no_new_turn` asks for a turn state
  and not for a task, and `NoInputLost` is not about injected items).

The lemma `NothingLost` splits the union once; every action then shows that what each kind of
place held is somewhere after the step.

For any requests, keys and connections (`RequestAssumption`), `RequestDispatch_proofs` proves
`TypeOK`, `ExclusiveRunsAlone`, `DispatchOrder`, `OneDrainer` and `QuietAfterDrain`. The
invariant has two halves. `QInv` ties the queues together: a deque holds exactly the queued
requests of its key (`QueueHolds`) in the order of arrival (`QueueSorted`, `Arrivals`), a key
has one drain task iff it is in the map (`OneDrainer`, `DrainerSound`), every request taken
from a queue and not finished is in that task's batch (`BatchCovers`), a batch is one
exclusive request or only shared reads (`BatchAccess`), and what was taken arrived before what
is queued (`TakenBefore`). `GInv` is about the gates: a connection that is not open, or a
server that has begun to drain, has its gate closed (`GatesClosed`). Exclusion follows because
two running requests of a key are in the batch of the same drain task; order because the batch
is a prefix of a sorted deque and the next is taken after the whole batch has finished.

For any agents, paths, nicknames and limit (`RegistryAssumption`), `AgentRegistry_proofs` proves
`TypeOK`, `SlotsAccountedFor`, `LimitKept`, `PathsExclusive`, `NicknamesDistinct` and the action
property `OnlyPathlessReplaced`. `RegistryInv` adds to these: an agent is only registered under
its own key (`KeysMatch`); a call that has begun works on an agent, a spawn on its own
(`TargetsKnown`); what has a rollout or is about to be created has a nickname (`Named`), which is
among the used ones unless the pool was reset since (`NamesUsed`); and `total <= MaxThreads`, from which `LimitKept` follows
with `SlotsAccountedFor`. The proof that a slot is counted once uses the cardinality theorems of
`FiniteSetTheorems`: every step adds or removes one call or one key, or swaps one for the other.

For any appenders and any number of workers (`FilesAssumption`), `RolloutFiles_proofs` proves
`SiblingIsOlder` and `HistoryKept` of `FilesSpec`, in which openers append whatever they like.
The two properties are about states in which a copy has just been given its name; whether it may
be depends on what happened since it was made. `FilesInv` therefore follows every copy:

* `Present`: a file that is not there has no content, and a handle that is linked has a file;
* `Epochs`: jobs that run together have all been overtaken by a change of the plain file or none
  has, and all have while it is missing or an opener restores it;
* `Copies`, while not `raced`: the temporary file of a job is a prefix of what readers see, the
  plain file itself if the job has not been overtaken; such a job, once it has renamed its
  copy, finds it in the compressed file, and it is the only one;
* `Guarded`, while not `raced`: who is about to remove one of the files, or to create the plain
  one, can rely on the other (the opener that links its copy has a copy of the compressed file;
  it removes that only when the plain one is there, and creates an empty one only when
  neither is).

`RolloutRecorder_proofs` first proves `RecorderAppends`, `Spec => FilesSpec`: each action of the
recorder and of the metadata update is, on the disk's variables, a step of the file protocol, an
append, or a stutter. `SiblingIsOlder` and `HistoryKept` follow. `AckedReadable`,
`RecordedInOrder` and `AcceptedKept` are proved for any numbers of items, sessions, faults and
commands in the channel (`RecorderAssumption`), with `RecInv`:

* `LineUp`: pending items, the command at hand and the commands in the channel are in the
  order of recording, and a barrier covers only what was sent before it;
* `Suffix`: the items still owed are exactly the last ones recorded;
* `Behind`: whatever file or copy one looks at, its items are in order and all come before
  the owed ones, so that writing the next owed item keeps them in order in every file that may
  become the visible one;
* `OnDisk`, while not `raced`: what was accepted and is no longer owed, the meta line of a file
  that is not deferred, and what was acknowledged is in the visible file;
* `Quiescent` and `OrphansRaced`: between sessions nothing is owed, and a file loses its name
  only by the race that `raced` observes.

`Behind` is what a retry needs: the writer drops an item from `pending` after its line is written
and before the next one, so that an attempt that fails in the middle begins again after
the last whole line.

`FlushKeepsItsWord` is the other side of `FindingUnlinked`: while `~raced` and no error or crash has
hit a write (`faults = 0`), everything `flush`, `persist` and `shutdown` were answered Ok for can be read,
without the exception `AckedReadable` makes for a line glued to a torn one. It adds
`AllWhole` to `RecInv`: no file or copy holds the beginning of a line before the first fault.
`UncompressedFlush` removes the other proviso where no worker compresses (`Compressors = {}`).

For any threads, workers, retries, versions, faults and requests (`StoreAssumption`, `PipelineAssumption`),
`Memories_proofs` proves `TypeOK`, `OutputIsLatest`, `DeletedLeavesNoMemory`, `BaselineDigested`
and `SelectedDigested`. `StoreInv` is about the rows: a running extraction is ahead of the last
success (`RunningAhead`), a worker holds claims only in phase 1 (`HeldInPhase1`), and a row that a worker
both holds and owns carries the version it has seen, and of a deleted thread it has not loaded
the rollout (`ClaimMatches`). So a result that the token check lets through is newer than the
row it replaces, and a deleted thread gets none, although a reconciliation may write its row again.
`DirInv` is about the directory, while `~overrun`:

* `MissingSafe`: outside a reset, a directory without a baseline holds only digested snapshots,
  since a consolidation removes the baseline only after an agent has completed, and a reset
  leaves nothing;
* `OwnerSees`: the holder of the lock finds its inputs in the directory from the sync on, and all that
  is there, what could not be pruned included, is digested once its agent is done;
* `ResetQuiet`: while a reset clears the directory nothing is selected and no holder of the lock has
  come as far as changing it, so that the end of the reset may forget what was digested.

`BaselineDigested` and `SelectedDigested` follow, since the holder writes both from what its agent
saw.

`LockExcludes` is the other side of `FindingTwoConsolidations`: with `~Stalls` (no live worker
outlives its lease) and `[][~ResetRows]_vars` (nobody resets the memories) at most one worker is in
phase 2, through crashes, failed jobs, leases that end after their holder, and the claims of other
workers. So these two are the only ways to a second consolidation. The invariant is that whoever is in
phase 2 owns the running row and its lease is valid (`LockHeld`): a claim is refused while it is
(`LockStays`), and only a claim enters phase 2 (`EntersWithLock`). `LockHonoured` draws the
consequence that the directory is never changed without the lock, so that `BaselineDigested` and
`SelectedDigested` hold without their proviso.

The parts of each inductive invariant were invariants of the runs above before they were
proved.

Only model-checked: liveness (`StartedTurnEnds`, `InputSettles`, `RequestsSettle`, `Forgotten`,
`Extracted`), which needs fairness and `ENABLED`. Every invariant of a passing run is stated by a theorem.

## 5. Where the code and what it says differ

Each has a run that shows the shortest behaviour.

* **`FindingTwoEnds`.** A finishing task looks at its cancellation token and then waits for the
  slot. If the guardian takes and cancels the turn in between, and the submission loop, which
  finds the slot empty, starts the next turn, the finishing task takes the *next* turn's task
  out of the slot, because `on_task_finished` does not compare identifiers. The first turn gets
  both a `TurnComplete` and a `TurnAborted`, the second loses its place. The window is short (a
  lock that is contended, or a thread that is descheduled), which is why no test meets it.
  `app-server/README.md:1353`: "Each turn emits `turn/started` when it begins running and ends
  with `turn/completed` (final `turn` status)."
* **`FindingUnlinked`.** The worker compares length and time of the plain file and removes it by
  name (`rollout/src/compression.rs:651`). A recorder of a thread that stays loaded and silent
  for a week keeps the file open; what it writes and flushes afterwards is in a file without a
  name. `rollout/src/recorder.rs:912`: "Flush all queued writes and wait until they are committed
  by the writer task."; `thread-store/src/local/live_writer.rs:127`: "Wait for the local writer so
  SQLite never gets ahead of JSONL for accepted live appends."
* **`FindingTwoConsolidations`.** The global lock of phase 2 is a row of the jobs table.
  `memory/reset` deletes it without taking it; the next session inserts and claims a new one
  while the first consolidation still works on the directory (until its next heartbeat, and
  there is none before its agent runs). `memories/README.md:85`: "claims a single global phase-2
  lock before touching the memories root (so only one consolidation inspects or mutates the
  workspace at a time)". A holder that stalls for longer than its lease has the same effect.

Not claimed as findings, but visible in the models:

* `inject_no_new_turn` puts items into whatever turn is in the slot. A turn whose
  `on_task_finished` has taken its pending input stays there until the end of the clean-up;
  what is injected then is dropped with the turn's state.
* The guardian's abort continues with `maybe_start_turn_for_pending_work` in its own task. If
  the submission loop is between its `abort_all_tasks` and its `start_task`, both install a
  task, against `debug_assert!(turn.task.is_none())` (`core/src/tasks/mod.rs:357`, `370`), and in
  a release build the first of the two turns gets no terminal event. `NoTaskOverwritten` is
  claimed where the loop alone starts turns.
* Mail that asks for a turn and arrives while a turn is finishing is refused by the pending-work
  scheduler; the finish does not look at the mailbox again, so that the idle session keeps the
  mail until the next submission.
* A line that is acknowledged after a torn one is glued to it and skipped by readers; the writer
  adds no line break. `AckedReadable` admits exactly this line.
* Items queued behind a shutdown command are dropped with the queue.
* Between the check for the plain file and the open that creates it, the worker may remove the
  file; the new empty one then hides the compressed history. `HistoryKept` excludes it through
  `raced`.
* A turn whose task has left the slot finishes (hooks, storage, `TurnComplete`) while the next
  turn may already run; `OneRunningTask` is therefore about tasks in `run`.
* `reconcile_rollout` sets a polluted thread back to `enabled`, because pollution is only in the row: a
  memory that was forgotten may be extracted and consolidated again. `Forgotten` speaks of threads that
  stay polluted.
* A `memory/reset` that stops in the middle may have removed `.git` and left snapshots; the next
  session makes a baseline of them, and no diff shows them again.
* With a second starter (the extension), `abort_all_tasks` of the loop can drop a reserved
  turn together with what was just queued for it. `NoInputLost` is claimed where the loop
  alone starts turns.
* A thread that the app server unloads keeps its registry entry. When an agent without a path
  is resumed, its entry is replaced by one with a second slot; the first slot is never
  released. The same happens when the resume finds the thread running. `SlotsAccountedFor` counts these in `lost`, so that it says exactly how many.

## 6. Not modelled

Token accounting, metrics and the content of events in the lifecycle (rollout persistence is a
module of its own and not composed with it);
review and undo tasks (they start and end as a compaction does); plan mode except as a
reason to refuse idle work; realtime and configuration ops, which do not touch the slot.
Initialization and notifications of the app server. Spawns of version 2 of the agent tools,
which take a slot without a limit, and agents that are no thread spawns. The execution limiter and
residency, which limit those. The listing of rollouts, the walk of the compression worker over
the directories and its cleaning of temporary files; archiving. Usage counts and ranking of
memories, extension resources, and the contents of the memories directory beyond the
snapshots. Everything with status
`not_modelled` in `PROJECT.json`.

## 7. Plan

Done, in this order: `TurnLifecycle` (the behaviour everything else depends on), `TurnSlot`
with its proofs and the refinement, `RequestDispatch` with its proofs, `AgentRegistry`,
`RolloutFiles` and `RolloutRecorder`, `MemoryStore` and `Memories`.

Then the theorems about `AgentRegistry`, `RolloutFiles`, `RolloutRecorder` and `Memories`, and
that the recorder implements `FilesSpec`; and those about `TurnLifecycle`: types, silence and items
for any callers, and the ownership invariant, the step simulation of `TurnSlot` and what follows
from it where the loop alone starts turns, `NoInputLost` included. Last, for each of the three
findings, the theorem that says under which condition the property does hold.

Next, modules: the execution limiter and residency beside `AgentRegistry`; listener generations
and outgoing requests of the app server; the process store of unified exec; the readiness flag.
