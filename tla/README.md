# Verification of the team runtime

TLA+ models of the parts of oh-my-codex in which several processes share files
on disk, the runs that check them with TLC, and theorems about them that TLAPS
has proved. Paths below are those of the repository with a leading `src/`:
`src/src/team/...` is `src/team/...` of the product, `src/crates/...` its Rust
crates.

1. [The system](#1-the-system)
2. [Plan](#2-plan)
3. [Modules and code](#3-modules-and-code)
4. [Runs](#4-runs)
5. [Fairness](#5-fairness)
6. [Proofs](#6-proofs)
7. [Where the code and its documents disagree](#7-where-the-code-and-its-documents-disagree)
8. [What is not modelled](#8-what-is-not-modelled)

## 1. The system

oh-my-codex starts teams of coding agents. A *leader* process and several
*worker* processes (each in a tmux pane, or as a child process in prompt mode)
cooperate through JSON files in `.omx/state/team/<team>/`. There is no server:
every process runs the same library code against the same files, and every
process may be killed at any time. What keeps the files consistent is a set of
directory locks, versions, leases, a generation counter and a journal. A Rust
command, `omx-runtime`, holds a second copy of dispatch and mailbox state,
written one command per process.

### Components

For each part that keeps shared state: the state, the operations, and what
makes it correct.

| component | state | operations | correct when |
|---|---|---|---|
| Task store (`team/state/tasks.ts`, `team/state.ts`) | `tasks/task-N.json`: status, owner, claim (token, lease), version, dependencies; `next_task_id`; the event log | createTask, claimTask, transitionTaskStatus, releaseTaskClaim, reclaimExpiredTaskClaim, updateTask | an unexpired lease excludes everybody else; finished tasks stay finished; ids are never reused; events tell the truth; no claim lasts for ever |
| Configuration and manifest (`team/state.ts`) | `config.json`, `manifest.v2.json`: workers, generation, next id and worker index | readTeamConfig, saveTeamConfig, migration | a stale copy cannot undo a newer membership; both files agree |
| Membership journal (`team/state.ts`) | `.membership-task-transaction.json`: old and new bytes of every file | commit, finalize, recover; writeConfig | a change of many files is seen whole or not at all, whatever fails or dies |
| Team locks (`team/state/locks.ts`) | one directory per lock, with `owner` and `lease` files | withTeamLock, withScalingLock; locks of claims, mailboxes, dispatch | one inside at a time; a dead owner is got rid of |
| Assignment (`team/runtime.ts`, assignTask) | none of its own | claim for a worker, rewrite the delegation plan, deliver, release on failure | a failure in the middle leaves no claim for ever |
| Scaling (`team/scaling.ts`) | configuration, tasks, panes | scaleUp, scaleDown, rollback | no task belongs to a removed worker; one worker stays; a rollback drops nobody else's change |
| Phase (`team/phase-controller.ts`, `team/orchestrator.ts`) | `phase.json`: phase, fix attempts, terminal epoch | polls, shutdown, the transport-failure hook | a finished team ends; nothing starts after the end; fixes are bounded |
| Monitor (`team/runtime.ts`, monitorTeam; `team/state/monitor.ts`) | `monitor-snapshot.json` | one poll: reclaim, derive events, phase, snapshot | a completion is reported once |
| Dispatch (`team/state/dispatch.ts`, `scripts/notify-hook/team-dispatch.ts`) | `dispatch/requests.json` or the engine's `dispatch.json`; a lease directory per request | enqueue with dedupe, notified, delivered, failed; a hook claims, types, records, releases | a status goes forward only; one process types a request at a time; attempts are bounded; every request is settled |
| Mailbox (`team/state/mailbox.ts`, `team/mcp-comm.ts`, `team/api-interop.ts`) | `mailbox/<worker>.json` or the engine's `mailbox.json` | send, notified, delivered; queue a wake, settle it with the last acknowledgement | a message with a wake is acknowledged in the end; wakes are coalesced; a wake is settled for mail that was acknowledged |
| Runtime engine (`crates/omx-runtime-core`, `crates/omx-runtime`) | snapshot, event log, mailbox, dispatch, ledger of ids | one command per process: load, replay, apply, persist | a command happens at once or not at all; what was acknowledged survives; an id is accepted once |
| Workflow and mode state (`src/state`, `src/modes`) | one state file per mode, `skill-active-state.json` | start, transition, clear | exclusive workflows do not overlap |

Other parts (transport, start and shutdown of panes, policies, notifications,
hooks, CLI, HUD, MCP front ends, ...) are listed in `PROJECT.json`, each with
the reason why it is not modelled, or not yet.

### Interaction

```
   workers         leader (assignTask, scale, shutdown)     polling processes, hook
      |                        |                                    |
      |  claim, transition,    | claim, release,                    | reclaim; infer and
      |  release               | membership change                  | write the phase
      v                        v                                    |
   +----------------------------------------------------+           |
   | membership barrier (DirLock): recover the journal, |           |
   | then run one operation                             |           |
   |   task files, config.json, manifest, events        |           |
   |   (TeamTasks, MembershipTransaction)               |           v
   +----------------------------------------------------+     phase.json, snapshot
            createTask and shutdown read phase.json  ------>  (TeamPhase), no lock

   sender, leader's poll           hook processes                worker
      |  store, queue a wake          |  claim, type, record         |  list, acknowledge,
      |  wait, type themselves        |                              |  settle the wakes
      v                               v                              v
   +-----------------------------+  +----------------------------------------------+
   | mailbox (MailboxWake)       |  | requests.json or dispatch.json (TeamDispatch)|
   +-----------------------------+  +----------------------------------------------+
      |   each mark is one command:       |
      v                                   v
   omx-runtime exec: lock, load, apply, persist the files (RuntimeEngine)
```

* All operations on tasks enter the *membership barrier*, one directory lock per
  team, and first run recovery on the journal they find. Inside, there is at
  most one operation, but its process may die between any two writes.
* Configurations are loaded outside the barrier and saved inside, under a test
  of the generation.
* Messages go from process to process through two stores, the mailbox and the
  list of dispatch requests. Both exist as files of the team, changed under a lock
  of their own, and as files of the engine, which any command rewrites. The list
  is held locked only while it is read and written; the typing into a pane, which
  takes seconds, happens in between, under a lease on the request.
* The phase file and the monitor's snapshot are read and written by polls and by
  the hook without any lock; createTask and shutdown read or write the phase
  file inside the barrier.

### What is hard

Leases that end while their worker works; a claim, a reclaim, an assignment and
a scale-down of the same task; death between two writes; writes that fail, or
that take effect and still report an error; a recovery that fails itself; locks
of dead processes, found by several survivors at once; decisions taken on a file
that has changed since; a wake that is typed, acknowledged, settled and queued again
by four processes at once; a request typed by one process and marked by another; a
file cut short by a kill, read by the next process. `PROJECT.json` lists these hazards line by line, with the
properties that cover them, or with a note that says why none does.

## 2. Plan

The order is that of importance: first the data nobody may lose, then the locks
that protect it, then what is computed from it, then the message paths.

| | module | about | state |
|---|---|---|---|
| 1 | `TeamTasks`, abstract `TaskLifecycle` | task store, configuration, assignment, scale-down | done, proved |
| 2 | `MembershipTransaction`, abstract `AtomicMembership` | the journal | done, proved |
| 3 | `DirLock` and on it `GuardedUpdates`, abstract `SerialUpdates` | the lock behind the barrier, and the reading and writing it guards | done, proved until a removal is late |
| 4 | `TeamPhase` | the phase file and its unlocked writers | done, safety proved |
| 5 | `RuntimeEngine` on `DispatchLog`, abstract `AtomicRuntime` | the engine's log, the files of a command, kills between and inside writes | done, proved |
| 6 | `MailboxWake` | a message from send to acknowledgement, with its wakes | done, safety proved |
| 7 | `TeamDispatch` | the queue of requests, its leases, retries and the engine's view of it | done, safety proved |
| 8 | `MailboxStores` | the engine's mailbox and the worker's file, message by message: copies under one id, marks in one store only | planned |
| 9 | `TeamMonitor` | snapshot and derived events between polls and transitions: a completion reported twice, lost marks; composed with the events of `TeamTasks` | planned |
| 10 | `TeamScaling` | the panes and the cleanup debt of a scale-up that is rolled back, the guard that keeps one worker; its membership changes are in `TeamTasks` | planned |
| 11 | `WorkflowState` | overlap rules and transitions of modes | planned |

Theorems worth proving next: the invariants of modules 8 to 10 as they are written.

All modules are written to be proved about: constants with named assumptions,
one action per operation or step, invariants made of named parts, no recursive
operators.

## 3. Modules and code

Operators marked "Bug form" in a module are mutations of the definition that
follows them, used only to see that a property fails when the code is wrong.
`PROJECT.json`, "map", gives the lines of every other definition.

### TeamTasks

One variable per file or group of files: `tasks`, `config`, `events`,
`snapshot`; `closed` stands for "the phase is terminal or an epoch has begun"
(what `TeamPhase` is about); `cfgView` is the configuration object of a leader
that loaded it earlier, `ahead` says that a save of it failed after its generation was
raised, and `overwritten` that such an object was saved all the same later; `held` is what each worker was told it holds; `op` is the
operation that has released control inside the barrier between two of its writes.

| action | code |
|---|---|
| `CreateTask`, `AdvanceNextTaskId` | `createTask`, the task file first, the counter second |
| `ClaimTask` (answer received or not) | `claimTask` |
| `TransitionTask`, `RefuseCompletion`, `AppendTaskEvent`, `ReadSnapshot`, `SaveSnapshot` | `transitionTaskStatus` |
| `ReleaseTaskClaim`, `ReclaimExpiredTaskClaim`, `UpdateTask` | the functions of the same names |
| `AssignTask`, `AssignPrepare`, `AssignDelivered`, `AssignFailed` | `assignTask` in `runtime.ts` |
| `LoadConfig`, `SaveTeamConfig`, `SaveTeamConfigFails` | a load outside the barrier, `saveTeamConfig` with its generation test, and one whose write fails: the files are rolled back, the generation of the caller's object stays raised |
| `ScaleUp` | `scaleUp`, which keeps the barrier through its saves, completed or rolled back |
| `ScaleDown` | the transaction of `scaleDown`; its file-by-file form is `MembershipTransaction` |
| `PhaseTurns`, `Tick`, `Crash` | other processes, time, death inside the barrier |

`Open` stands for the two statuses in which a task waits, `pending` and `blocked`: a claim
is granted from either and a release, a reclaim or a scale-down always leads to `pending`.
A claim token is a number drawn in order (`randomUUID` never repeats), times are
ticks, delegation plans and evidence texts are the booleans `evidence` ("the task
asks for it") and `proof` ("the result has it"). That the barrier excludes is
assumed here, because `op` is a single variable; `GuardedUpdates` is about that.

`TaskLifecycle` says what the store promises without files, versions and leases.
`ImplementsLifecycle` is the refinement: a task is absent, open, held, completed
or failed, and its grant is the token of its claim.

### MembershipTransaction

A file holds the number of the transaction that wrote it. `journal` is the
journal file, `op` the operation inside the barrier with the files it has still
to write. `promised` is history: what callers were told.

The variants are those of the callers: `forward` and `retain` (scaling, with
`recoverToNewOnFailure`, without and with `retainJournalOnSuccess`), `backward`
(`mutateShutdownConfig`), `save` (`writeConfig`). Each durable write or removal is
a step with three outcomes: done, failed, or *late*, done and still reported as
an error, which is what a rename followed by a failing fsync of the directory
is. All three are possible in every variant.

One case is bad: the `backward` variant has removed its journal, the removal reports an
error, and the catch block restores the old files with no journal left (`Orphaned`). When
that rollback stops half way nobody goes on with it; the history `stranded` says so, until
the next transaction is acknowledged.

`AtomicMembership` has one variable for what readers find. `Visible` maps to it:
the files as the next entrant will leave them after recovery. An orphaned rollback is
visible file by file, which the abstract specification allows while `bare` holds.

### DirLock

`dir` is the lock directory as found by its path: owner, whether there is a lease
file, and its age. `pc` is where each caller is in `withTeamLock`. Processes know
the directory by path only, so a write or a removal hits whatever is there. Ages
and pauses are ticks: a holder takes a step, such as its heartbeat, at least every
`Pause` ticks, and `2 * Pause <= StaleAfter`: the heartbeat runs three times in
`lockStaleMs`, so one of them may be late. A crash may leave a directory that was
being removed with one file of two, or none. The history `late` says that somebody has
removed, having found it stale earlier, a directory that is not stale any more: the answer
of `isStaleLock` is used after an await.

### GuardedUpdates

What the lock is for. `GuardedUpdates` extends `DirLock`: who is inside reads a file of
the team (`Read`), adds a change and writes the whole file back (`Write`), as often as it
likes, and forgets what it read when it leaves or dies; `stored` is what the files
contain, `done` the changes whose write has returned. `createTask` is the pattern: it
reads `config.json` and writes it back with the next id. The lease is refreshed by a timer of its own,
so reads and writes do not refresh it.

`SerialUpdates` says what operations take for granted of each other, and what
`TeamTasks` and `MembershipTransaction` build in by having one `op`: one is
under way, and it writes on top of all that was written before.
`ImplementsSerial` is the refinement, with `busy <- Busy`, whoever is inside. It ends with
the first late removal, after which the abstract specification promises nothing
(`AnythingGoes`).

### TeamPhase

`tasks` keeps what the monitor's counts tell apart of each task. A poll is three
steps (`List`, `ReadPhase`, `WritePhase`), since nothing keeps others out between
them; `Reconcile` is `reconcilePhaseStateForMonitor` with the path search of
`buildTransitionPath` reduced to its result. Creation and shutdown hold the
barrier (`holder`) from their guard to their write. A polling process leaves its loop at a
terminal phase, or when all workers are dead while the listing has work left or the phase
is `team-fix` (`MayLeaveLoop`), and a signal may stop it anywhere (`StopPolling`). The governance is the default
one, which lets an unforced shutdown go ahead only without open tasks.

### RuntimeEngine

`DispatchLog` has the pure part: what a log of events replays to and which commands
the state accepts. A log is a set of events, because each event of a request occurs at
most once in it and repeated marks of a message have no effect.

The files are `ledger`, `events`, `mailbox`, `view` (`dispatch.json`) and the
snapshot, on which no request or message depends. `state` says of each whether it is
absent, torn or whole. A process takes the mutation lock, loads and applies its command
in one step (`Begin`: nothing is written before), then writes the files in the order of
`Writes`, each first truncated (`Truncate`) and then filled (`Write`); the ledger is
renamed into place and never torn. `Reply` is the caller's confirmation, `Kill` the
bridge's timeout or any other death. `Loaded` and `Loadable` are
`RuntimeEngine::load`: what it requires of the files, and the mailbox taken from
`mailbox.json` if it can be read, from the log otherwise.

| action | code |
|---|---|
| `Begin` | `run` of `main.rs` up to `persist`: lock, `load`, `process`, `compact` |
| `Truncate`, `Write` | `persist` and `write_compatibility_view`, file by file |
| `Reply`, `Kill` | the printed event; the end of the process by a signal |

`AtomicRuntime` is the promise: a log, the mailbox as a caller finds it, all events applied,
all events acknowledged. A command on a request is one step. One on a message is one step
in the log, but the mailbox has a file of its own, which may lag behind when the command is
killed between the two: what nobody was told of may show or not, and may still change; what
was acknowledged shows, and nothing shows that was not applied (`Shows`). The mapping is
`log <- kept`, the log as last written (a command takes effect when `events.json` is whole
again), and `mail <- Mail`, what the next `load` would take for the mailbox. `MCRuntimeEngine` adds the symmetry of
processes and request ids (its run has no liveness property).

### MailboxWake

One worker and its pane. `mail` and `wake` are the two stores; `pc` and `req` are where
the sender and the leader's poll are with each message and for which request they
wait; `hook` is the request that a hook has typed and not yet marked, `typed` a wake in
the pane that has not been read; `worker` and `active` are the steps of the worker's
acknowledgement. Each call of a store is one step, since its lock or the engine's makes
it one. Typing and the marks after it are steps of their own. `hidden` is what the engine has of a
wake that failed without its knowledge: `transitionDispatchRequest` writes the view only,
and every command (`Command`) shows the wake again as the engine has it. `back` is history:
the wakes that came back so.

| action | code |
|---|---|
| `Send`, `Enqueue` | `queueDirectMailboxMessage`: `sendDirectMessage`, then `enqueueDispatchRequest` with its dedupe of wakes |
| `Notice` | `deliverPendingMailboxMessages` of a poll: messages without notification, one after the other |
| `Receipt`, `GiveUp`, `FallbackTypes`, `FallbackMarks`, `FallbackFails` | `finalizeHookPreferredMailboxDispatch` after `waitForDispatchReceipt` |
| `RefusedMarks`, `RefusedFails` | the same after a receipt that says failed: the message is marked, then the request is failed once more |
| `Refuse` | `transitionDispatchRequest` to failed, with and without the engine's knowledge |
| `HookTypes`, `HookMarks`, `HookFails` | `drainPendingTeamDispatch` seen from one worker; its processes are `TeamDispatch` |
| `MarkDelivered`, `ListActive`, `CheckMailbox`, `Settle` | `mailbox-mark-delivered` with `markLatestMailboxDispatchDelivered` |
| `OtherCommand` | a command about other mail: the view is rendered |
| `Look`, `Nothing` | the worker, external: it reads a wake and works until its mailbox lists nothing undelivered |

The worker is the strongest one the instructions in its inbox ask for. The trigger text
of all wakes of a worker is the same, as are pane and intent, so any live wake is a
duplicate of the next. The two marks at the end of a fallback, of the message and of the
request, are one step: no reader of the first reads the second.

A message can be marked as notified by the receipt of a wake that is older than itself, since
an equivalent live wake is reused. `TypedMeansSeen`, `MarkedMeansTold` and `FreshDelivered`
say when that is sound: a wake that was typed is not overlooked, and a message with a wake
of its own is not marked before the worker was told of it. The last has an exception that
the code really has: whoever waits for a wake that failed untold and came back as notified
takes its message for told.

### TeamDispatch

`list` is the list that everybody reads: `requests.json`, or the view of the engine when
`bridge` holds; `engine` is what the engine's log says. A hook reads and leases requests
in the dispatch lock (`Claim`, `ClaimWrite`), types each without the lock (`Inject`), then
reads the list again in the lock and records the outcome if the request is still pending
(`Reread`, `Run`, `FinalWrite`), and gives the lease back (`ReleaseRead`,
`ReleaseRemove`). Senders and workers add and mark requests meanwhile (`Enqueue`,
`Marks`, `Transition`). A `Marks` is a command of the engine and renders the whole list
again; a `Transition` writes the list without telling the engine, and so does an `Enqueue`
whose command cannot be run: at the next rendering that request is gone. A request for
the leader that names no pane is put off (`Deferred`) until the configuration names one
(`RecordPane`), for ever if it never does. An `Inject` may end as failed although the keys
were sent: `Ends` counts them in `typed` in any case. When a command renders a request other
than it was, its attempts are gone, and the count of `typed` starts again (`Rendered`).

`lost` counts, per request, the events after which what its owner typed may be on no
record: a kill, a lock timeout, a lease taken over from a slow owner. `late` is, per hook,
what it still works on without the lease, because another took it over or removed it. The
lock of a killed process is taken to be free at once; how a lock goes stale is `DirLock`'s
subject. Cooldowns between requests with equal text are left out: the requests of the model
differ.

### Proof and model modules

`TeamTasksProofs`, `MembershipTransactionProofs`, `DirLockProofs`,
`GuardedUpdatesProofs`, `TeamPhaseProofs`, `RuntimeEngineProofs`, `MailboxWakeProofs` and
`TeamDispatchProofs` extend the component's module and `TLAPS`. `GuardedUpdatesProofs`
takes the theorems of `DirLockProofs` along.
`MCTeamTasks` gives TLC its sets of workers, owners, first statuses and dependencies and the
swap of the two workers, `MCRuntimeEngine`
its symmetry; the other modules need no definitions beyond their `.cfg` files.

## 4. Runs

| run | checks | distinct states |
|---|---|---|
| `tasks_claims` (`TeamTasks_claims.cfg`) | `LeaseHolderOwnsTask`, `ClaimedByMember`, `GenerationFixesMembership`, `EventsSound`, `TerminalIsFinal`, `NamesNeverReturn`, `ImplementsLifecycle` | 1,864,344 |
| `tasks_ids` (`TeamTasks_ids.cfg`) | `TypeOK`, `TasksNeverReplaced`, `ClaimsEnd` | 386,524 |
| `txn_atomic` (`MembershipTransaction.cfg`) | `TypeOK`, `NeverTorn`, `CommittedStays`, `NeverStepsBack`, `ImplementsAtomic` | 164,757 |
| `lock_updates` (`GuardedUpdates.cfg`) | `ExclusionUnlessLate`, `LateNeedsDeath`, `NothingLostUnlessLate`, `ImplementsSerial`, `DeadLockRecovered` | 14,960 |
| `phase_ends` (`TeamPhase.cfg`) | `TypeOK`, `GateHolds`, `DoneEnds` | 113,373 |
| `engine_crash` (`RuntimeEngine_crash.cfg`) | `TypeOK`, `AcknowledgedKept`, `OneOutcome`, `ReplyIsVisible`, `RefinesAtomic` | 1,543,898 |
| `wake_delivery` (`MailboxWake_delivery.cfg`) | `TypeOK`, `SettledMeansDelivered`, `TypedMeansSeen`, `MarkedMeansTold`, `FreshDelivered` | 342,969 |
| `dispatch_queue` (`TeamDispatch_queue.cfg`) | `TypeOK`, `OneTyper`, `AttemptsBounded`, `Forward`, `Settles` | 763,887 |
| `phase_epoch`, `lock_late`, `wake_acknowledged`, `dispatch_failed` | one property each, violated: section 7 | |

Bounds and why they are enough:

* `tasks_claims`: one task, since leases, tokens and ownership are per task and
  tokens are the only thing tasks share (that they do not mix for more tasks is
  proved); two workers, so that one can contend, be removed or keep working while
  the other takes over, taken up to a swap of their names (the run has no liveness
  property); a lease of one tick and a clock up to 2, so that one lease can end and a
  second begin and end (within a tick, any number of operations happen); 2 tokens; 2
  generations beyond the first, so that a save that fails, a scale-down and a later save
  of the same object can follow each other; plain edits up to version 2 (an assignment's
  rewrite of the delegation plan is not bounded by it). A task is created pending or
  blocked, for anybody or nobody.
* `tasks_ids`: two task ids, because an id can only collide with an earlier one;
  one worker; one configuration save, which may be stale or fail; dependencies none or on
  task 1; one claim, and a clock up to 1, so that it can end.
* `txn_atomic`: two task files beside configuration and manifest, so that a
  transaction may contain some and leave others; 4 transactions or task writes;
  all variants, and late errors of every write and removal in each.
* `lock_updates`: three callers, of which two may die at any step, so that two survivors
  meet the directory of a dead one, and one survivor those of two; stale after 4 ticks,
  pauses up to 2: one heartbeat late is tolerated and a second one would not be; two
  changes, so that one by a caller can be lost by another's. The run checks for deadlock:
  one survivor remains.
* `phase_ends`: two tasks, so that one can be created or finished while the other
  is judged; one polling process beside shutdowns and the hook; one fix attempt,
  so that the limit is reached, passed and reset.
* `engine_crash`: two processes, since the lock makes the rest wait; two requests and
  one message, so that a record can be removed or compacted while another stays and
  the ledger has an id more than the log; two kills, the second possibly in the process
  that loads what the first one left.
* `wake_delivery`: two messages, so that one arrives while the other is acknowledged;
  four wakes, enough that no step waits for a fifth; one attempt to type that fails, by
  the hook or by a fallback, with the engine's knowledge or without; one send under way
  at a time, beside the leader's poll, which is a second actor with the same steps. With
  two sends at a time (7.3 million distinct states, four minutes) the safety
  properties hold as well. `wake_acknowledged` has two sends and needs no failure.
* `dispatch_queue`: two hook processes, so that one can take a lease over; two requests in
  the list and one in the engine; the first is for the leader, so that it is put off
  beside the other; two attempts instead of three, which differ only in how often the same
  step repeats; each request may lose its owner or its record once.

Deadlock is not checked (`CHECK_DEADLOCK FALSE`) in the other runs, in which the bounds or
the system may stop everything: clock and tokens used up, transactions used up, all
polling processes exited, all mail acknowledged, all requests settled.

## 5. Fairness

* `TeamTasks`: weak fairness of `Tick` (time passes); weak fairness of "the
  operation inside the barrier goes on or its process dies", since it either
  awaits file I/O or is gone. Nothing is assumed of workers or of the monitor. The sweep of
  expired claims is part of `monitorTeam`, and no process has to go on calling it:
  `pollLoop` returns at a terminal phase and when the workers are dead. So `ClaimsEnd` has as
  its condition that somebody does (`Monitored`: strong fairness of
  `ReclaimExpiredTaskClaim` for each task, since an attempt may lose the barrier to others
  now and then). Without it a claim may stay for ever.
* `DirLock`: weak fairness of each live caller's own steps, which includes that a
  callback ends, and of `Tick`. No fairness of crashes and heartbeats.
* `TeamPhase`: weak fairness of the steps of each process that polls. `pollLoop` of
  `runtime-cli.ts` polls every few seconds. It may leave its loop, also in a phase that is
  no end, or be stopped by a signal; `DoneEnds` promises nothing to a team that nobody polls
  any more (`NobodyPolls`). Nothing is assumed of workers, shutdowns or the hook.
* `RuntimeEngine` has no liveness property.
* `MailboxWake`: weak fairness of `GoOn` as a whole: as long as a send that has begun, the
  leader's poll, a hook or the worker can take a step, one of them does. Nothing is
  assumed of which one, nobody has to send, and nothing has to fail. A leader that stops
  polling is not in the model.
* `TeamDispatch`: weak fairness of the hooks as a whole. The notify hook runs at every
  turn of an agent and drains the queue; which of its processes goes on is left open, and
  any may be killed. `Settles` has two conditions of its own: the leader's pane is recorded in
  the end, if the request is for a leader without one, and renderings by the engine do not
  take its attempts away again and again.

## 6. Proofs

Each proof module shows `Init => IInv`, that every step keeps `IInv`, and the
theorems from it. The bounds of the runs are constants there with any value.

**TeamTasksProofs**, no assumption beyond those on the constants. `IInv` is
`TypeOK`, `ViewInv`, `ClaimInv` and `EventInv`. The checked invariants are not
inductive alone: `HeldSound` says a token belongs to one claim of one worker that
was once in the team, without which a fresh grant could coincide with an old one
or a returning name inherit claims; `AssignSound` says what an assignment inside
the barrier relies on until it has delivered; `ReportSound` says nothing has been
reported about a task whose event is about to be appended; `ViewSound` that a
loaded configuration is not newer than the stored one. Theorems: `TypeCorrect`,
`LeaseExclusion`, `ClaimsConsistent`, `GenerationsFaithful`, `EventsFaithful`,
`FinishedForEver`, `NeverReplaced`, `NamesUsedOnce`, and `Refinement`: every step of the store maps
to a step or a stutter of `TaskLifecycle`.

**MembershipTransactionProofs**, no assumption but those on the constants. `IInv` adds to
the types what the journal knows: with no journal the files are as promised (`QuietSound`);
with one, it holds what the files were, no older than promised, and only its files may differ
(`JournalSound`); whoever is inside works on that journal (`OpSound`) and the files he is
done with hold what he writes (`ProgressSound`). `Orphaned`, the rollback that has lost its
journal, is part of it. `Whole` adds that configuration and manifest are of one transaction;
it holds as long as no orphaned rollback has stopped half way (`WholeUnless`). Theorems:
`TypeCorrect`, `Untorn` (`NeverTorn`), `NothingLost` (`CommittedStays`), `NoStepBack` and
`Refinement`, whose cases are what a step may do to what readers find: nothing, install a
transaction, complete one, take one back, or, orphaned, file by file.

**DirLockProofs**, any number of callers, any of which may die. `SafeInv` says that who is
inside is the only one that takes steps on the directory but for those who have judged an
older one stale (`Alone`), that his directory is no older than his own pauses (`Fresh`), and
that nobody has his directory taken away while he writes into it (`NoAbort`). The argument is
one about time: pauses are less than the age at which others find a directory stale, so a
directory found stale has outlived its maker. A removal that is late is what breaks it, and
by the invariant `late \/ SafeInv` the only thing that does. `LiveInv`: as long as nobody
died a directory has a live maker, and nobody finds it stale. Theorems: `TypeCorrect`;
`ExcludesUnlessLate`, exclusion and the holder's hold on his lock until a removal is late;
`LateOnlyAfterDeath`; and from both `ExclusiveUntilDeath`. After a death with two survivors
exclusion is false: that is the run `lock_late`.

**GuardedUpdatesProofs**, from the same invariant: what somebody inside has read is what is
stored (`ViewCurrent`), so no update is lost until a removal is late
(`NoLostUpdateUnlessLate`), and none until somebody died (`NoLostUpdateUntilDeath`), and the
updates are done one after the other (`UpdatesAreSerial`, the refinement of
`SerialUpdates`). This is what the other modules assume of the barrier.

**TeamPhaseProofs**, no assumption but that the limit is a number. Reconciliation keeps the attempts within the
limit, and the gate of a shutdown still holds when it writes, because task
creation needs the same barrier. Theorems: `TypeCorrect`, `GateIsCurrent`, and
`EpochHoldsUnless` about the property that `phase_epoch` violates: it holds of every
behaviour in which a poll writes no phase with an epoch other than the file's
(`PollsCurrent`) and the hook fails no team within its epoch (`HookOutside`); the
violation has no other cause. Its invariant, `EpochInv`: while the file has an
epoch, nobody in the barrier is creating a task.

**RuntimeEngineProofs**, no assumption but that `NoProcess` is no process. A command takes
effect with the write of `events.json`. `Inv` says: only the holder of the lock is under
way (`OneAtATime`); the log on disk is the log as last written unless it is torn
(`LogOnDisk`); every id ever queued is in the ledger, an applied event of a request stays
as long as its request, an applied event of a message stays (`History`); `mailbox.json`
shows nothing that was not applied and everything that was acknowledged (`MailOnDisk`); and, for
the process that is writing, which files already hold what it has in memory (`Writing`).
`Writing` depends on the order of the files, ledger before log before mailbox; the
mutants of `Writes` show what goes wrong with another. Theorems: `TypeCorrect`,
`AcknowledgedSafe`, `VisibleWhenTold`, `Refinement`, and `OneOutcomeSafe`. The last is
proved of the abstract specification (`AtomicOneOutcome`, with `Books`: the log and the
history of a request agree as long as the request is in the log) and inherited
through the refinement, kills and torn files included.

**MailboxWakeProofs**, no assumption but that the bounds are numbers. `Inv` adds to the
checked invariants who may act on what: an actor is busy only with a message that is in the
mailbox (`MailSound`); and the wakes that the worker is about to settle were queued, and once
it has found nothing undelivered, queued for messages that are delivered (`ActiveSound`).
The last one is why the order in `markLatestMailboxDispatchDelivered` matters: the live
wakes are listed first, so one queued after the mailbox was read is not among them.
For what is typed a second invariant, `ToldInv`, is needed. It speaks of the wakes as the
engine has them (`Engine`), since that is what comes back. Wakes are used in order, and those
before a used one are settled unless they came back (`InOrder`), so a live wake stands for
its message and for all before. Of each of these the worker was told, or has acknowledged it,
once the wake is in the hands of a hook or marked as typed (`TypedTold`), or was typed by an
actor (`FallbackTold`); and whoever waits for a wake that is settled meanwhile has had its
message told (`SettledTold`). What a step may do to wakes, messages, hook and actors is
stated once (`WakeStep`, `TellStep`, `HookStep`, `ActorStep`), and the invariant follows from
these four; `TellStep` rests on the worker going back to its work only when nothing is
undelivered. Theorems: `TypeCorrect`, `SettledSafe`, `NotOverlooked` (`TypedMeansSeen`) and
`MarkedOnlyIfTold` (`MarkedMeansTold`, with its exception).

**TeamDispatchProofs**, under `HookAssumption`: the processes are finitely many. `Inv` adds
that a process has claims exactly while it is at work (`Busy`); that without the bridge the
copy of the process with the lock is the list, and a verdict is written on a request still
pending in it (`FreshCopy`); that without the bridge only requests that were queued are in
the list (`Queued`); that a process works on a request under its lease or has it in `late`
(`Kept`); and that the processes at a request other than the one with its lease are at most
the losses of that request (`RivalsLost`). `OneTyper` follows from `Kept`, with the bridge
as without. For `AttemptsBounded` a second invariant, `Accounts`, keeps the books
without the bridge: what was typed of a pending request is recorded as an attempt, still to be
recorded (`InFlight`), or paid for by a loss, where a loss that brought a rival in does not
pay for a typing as well; once the request is settled, what was typed and those who may still
type it (`Ahead`) are within the limit. Theorems: `TypeCorrect`, `OneTyperSafe`,
`GoesForward`, `AttemptsSafe` (`AttemptsBounded` without the bridge; the run checks it with
the bridge too), and `FailedStaysUnless` about the property that `dispatch_failed` violates:
with the bridge it holds of every behaviour in which the engine is told of each failure
(`FailuresTold`) and every command can be run (`CommandsRun`). Both are
needed; TLC finds a violation without either. The invariant of that proof, `EngineInv`, says
of a failed request that it is over (`Over`) in the engine, in the list and in every copy of
it, or about to be written as failed by the hook that has the lock.

Only model-checked: `ClaimsEnd`, `DeadLockRecovered`, `DoneEnds`, `FreshDelivered` and
`Settles`, which are liveness properties under fairness and out of the prover's reach, and
`AttemptsBounded` with the bridge.

## 7. Where the code and its documents disagree

Each is a run that TLC must find violated; `PROJECT.json`, "findings", quotes both
sides.

* `phase_epoch`: a poll that read the phase file before a shutdown and writes it
  after the shutdown erases the terminal epoch; tasks are accepted again. By
  `EpochHoldsUnless` only such a poll, or the hook that fails the team within its
  epoch, can do it.
* `lock_late`: after a process died with a lock, two survivors find it stale; the slower one
  removes the directory that the faster one has just made, and both are inside. By
  `LateOnlyAfterDeath` and `ExcludesUnlessLate` nothing else lets two in.
* `wake_acknowledged`: a send stores the message and queues its wake afterwards. A worker
  that is awake for an earlier message may acknowledge the new one in between; the wake
  queued afterwards finds a worker with nothing to acknowledge and stays notified for ever.
  Later wakes are taken for its duplicates, and a message coalesced into such a wake is marked
  as notified although nothing is typed for it. `MarkedMeansTold` and `FreshDelivered`
  therefore speak of messages with a wake of their own. If the stale wake fails after all, in
  the fallback of its own sender, a poll that had listed the message before it was marked queues
  a wake for it; when that one fails too nobody takes the message up again (two failures,
  which is why `FreshDelivered` speaks of messages still to be notified or whose wake was
  typed).
* `dispatch_failed`: `transitionDispatchRequest` records a failure in the engine's view but
  not in the engine; the next command of anybody renders the request pending again and a
  hook notifies it. A hook whose own command cannot be run leads to the same, and the
  theorem `FailedStaysUnless` shows that these are the only two ways. For a mailbox the same
  failure has another consequence: a wake that was notified, failed untold and came back as
  notified is taken for a live one by the next message, which is then marked although the
  worker was not told of it. That is the exception in `MarkedMeansTold`, and TLC shows it when
  the exception is dropped.

Further observations without a run:

* When the removal of the journal takes effect and its fsync fails, the rollback of
  `mutateShutdownConfig` (`src/src/team/state.ts:1085`) restores old bytes with no journal
  left; a second error, or a death, leaves configuration and manifest of different
  transactions. TLC shows it when `~stranded` is dropped from `NeverTorn`; by `Untorn` nothing
  else tears them.
* `saveTeamConfig` raises the generation of the caller's object before the write
  (`src/src/team/state.ts:2828`). When the write fails the files are rolled back and the
  object is not, so a later save of it passes the generation test although the membership
  has changed meanwhile, and can bring a removed worker back. `NamesNeverReturn`,
  `ClaimedByMember` and `LeaseHolderOwnsTask` have this, `overwritten`, as their one exception. Whether a caller uses
  its object again after the error is up to the caller; the model lets it.
* A sealed journal that cannot be removed (`src/src/team/state.ts:1064`) makes the next
  entrant complete a change whose caller got an error.
* `transitionTaskStatus` (`src/src/team/state/tasks.ts:264`) marks a task as reported in the
  monitor's snapshot also when the completion was refused and no event was appended.
* A kill in the middle of the write of `events.json` leaves a directory that `load` refuses
  from then on; every command fails until somebody removes the files. No acknowledged
  command is lost silently (`AcknowledgedKept` speaks of loadable states).
* The engine's records have no attempt count: when its view is rendered, unconfirmed
  attempts start again from zero, so `AttemptsBounded` counts between two renderings, `Settles`
  excludes that it happens for ever, and `Forward` is stated for the list in
  `requests.json`.
* A request for the leader that names no pane stays pending as long as the configuration has
  none (`src/src/scripts/notify-hook/team-dispatch.ts:1194`); nothing fails it.
* A team failed by the fix limit is reopened by the next poll of another process although
  no task has changed. From `team-verify` no path leads back to `team-exec`: a task created
  during verification is worked on while the phase stays `team-verify` (`DoneEnds` holds all
  the same).

## 8. What is not modelled

* Contents: task descriptions, results, inbox texts, pane output, worktrees, git.
  Their effect on control is a boolean or a choice between success and failure.
* Migration of version 1 files, corrupt JSON, and hand-made edits of the files.
* The 5 s limit of a waiter for a lock: a waiter that gives up changes nothing.
* Task claim locks inside the barrier: they are redundant there while the barrier
  excludes. Mailbox and dispatch locks are held for the time of a file access and are
  taken to exclude.
* `scaleUp` beyond its membership changes: panes, cleanup debt, the guard that keeps one
  worker (planned as `TeamScaling`). Derived events of the monitor are planned as
  `TeamMonitor`.
* Mailboxes in two stores: `mailbox.ts` falls back from the engine to the worker's file
  message by message. `MailboxWake` has one store; the fallbacks are planned as
  `MailboxStores`.
* `omx-runtime init` writes an empty state without the mutation lock; it is taken to run
  once, before the first command. The engine's commands on authority and replay cursor.
* Cooldowns, requests beyond `maxPerTick`, dispatch kinds other than wakes in `MailboxWake`.
* The phases before `team-exec` and the list of past transitions in `phase.json`,
  which no guard reads.
* Panes, transports, notifications, hooks other than the phase write, HUD, CLI, MCP
  front ends, installation: I/O or text, with no protocol of their own on shared
  state, or left for a later stage as `PROJECT.json` says.
