# Clawee: a TLA+ development

Clawee runs Codex for its users: a local **daemon** (TypeScript) turns prompts
into *runs* of Codex processes, keeps their history in SQLite and serves web,
desktop and command-line clients; a **gateway** and a **collector** (Go) serve
accounts, skills, files and knowledge to enterprise users. This directory
models the parts of both whose behaviour depends on the order of things: in the
daemon, *which run executes when, in which process, and what everybody is told
about it*, and the enterprise session; on the server, the broker between gateway
and collectors and the move of shared files between storages. TLC checks the
models and TLAPS proves their central invariants.

Paths below are relative to `src/client/apps/daemon/src` unless they begin with
`client/` or `server/` (then relative to `src/`).

## 1. Inventory

### 1.1 The components of the daemon's core

| Component | State | Operations | What is hard | What makes it correct |
|---|---|---|---|---|
| **Run manager** `runs/manager.ts` | in SQLite: the rows and events of runs. In memory: `threadQueues`, `persistentRunQueue`, `runningThreadRun`, `runningPersistentRunIds`, `activeRuns`, `closing` | `startRun`, `cancelRun`, `steer`, sign-out, `close`, recovery at start-up; internally `startExistingRun`, the two `startNext…`, `handleAppServerResult/Error`, `finalizeRun` | functions that call each other re-entrantly inside one callback; everything else interleaves at every `await`; two queues per thread; a slot is freed one `await` before the run is final; retry with a new Codex thread; restart between a `done` event and its row | one active run per thread, capacity, no run lost or doubled, no missed wake-up, FIFO per thread, cancels reach the process, `done` once and equal to the row, every run ends |
| **Slot pool** `runs/persistent-app-server-executor-*.ts` (first part) | slots, the threads each has run, which is busy | `canStart`, `start` (select or create a slot) | asked in one callback, used in a later microtask | a Codex thread is never in two processes |
| **Slot executor** (same file, second part) and **host** `codex/app-server-host-*.ts` | the kept host and its configuration, `busy`, `staleReason`, `idleInvalidationWork`, `closing` | `start`, `cancel`, `invalidate`, `close`, the `finally` of a result | `start`, `invalidate` and `close` each await the end of a process while the others proceed; spawn failures; a process that dies at any moment | one process per slot, none after `close`, no turn in a process with an old configuration |
| **Approvals** `approvals/manager.ts`, with the host's `respondToServerRequest` and the run manager's `onApprovalRequest` | rows; in memory a timer and a promise per pending request | `request`, `approve`, `reject`, `cancelRun`, expiry, recovery | three awaits between Codex's question and the answer; users, timers, cancels, failures, restarts and the next turn meanwhile | one decision, told once and only to the turn that asked, nothing pending for ever |
| **Scheduler** `scheduler/service.ts`, `coordinator.ts`, `repository.ts` | schedule rows (`enabled`, `next_run_at`, `pending_trigger`, policy); two timers | `start`, `stop`, due pass, queue pass, `runNow`, create, update, delete | two timers re-set from many places; edits between queueing and polling; one trigger failing in a pass; crash between two statements | armed while something is to run; quiet when stopped or deleted; no piling up of runs; due schedules and queued triggers are served |

How they interact: the scheduler, the HTTP API and the agents call `startRun`;
the run manager asks the pool `canStart`, and in a later microtask `start`; the
pool delegates to a slot, the slot to a host; the host calls back for
notifications, for approvals and with the result; the end of a run wakes the
queue of its thread, the queue of persistent runs and, through polling, the
scheduler. All of this is one thread of JavaScript: atomic between awaits,
interleaved at them. SQLite calls are synchronous, so a row is written in the
same step as the memory around it, and a crash may separate any two writes.

### 1.2 The session and the server

| Component | State | Operations | What is hard | What makes it correct |
|---|---|---|---|---|
| **Enterprise session** `enterprise/session-manager-*.ts`, with the credential file | the snapshot clients see, the token in memory and in the file, the generation, the queue of changes to the file, a DingTalk sign-in that waits | sign-in by password, registration, QR code, DingTalk; refresh, identity, sign-out, `invalidateUnauthorized`, use of the token, `close` | every operation awaits the gateway and the file several times, and any other may begin meanwhile; file accesses hang and fail; a superseded sign-in must undo its write | late answers change nothing; sign-out wins; no token stays valid with nobody holding it; clients do not see "checking" for ever |
| **Collector pull broker and workers** `server/internal/collectorpull`, `collector/taskworker` | tasks, a queue and a channel per collector, completed tasks; a worker's task and attempt | `Submit`, `Pull`, `Complete`, timeouts; pull, execute, post with retries | long polls that break, answers lost after a claim, posts repeated or late, collectors that restart | no wake-up is lost, no place leaks, a worker is told the truth about its result |
| **Shared files and storage migration** `server/internal/sharedfiles` | rows of files, migrations, items with leases and cleanup tasks in PostgreSQL; objects in two storages | replace a file; create, cancel, retry a migration; claim, copy, complete, fail an item; sweep | no transaction spans rows and objects; leases lapse while their holder works on; storages, transactions and gateways fail between two steps | the object of every file exists and is the latest; what no row names is tracked; a completed migration is complete |

The session and the runs do not share state; the managers of MCP servers,
skills, drive and knowledge spend its token and end it with a 401. The broker
carries questions of the gateway's tools to the collectors; shared files are
used by the daemon's drive manager through the gateway. Neither of these two
shares state with another modelled part, so they are checked on their own.

### 1.3 The other parts

`PROJECT.json` lists every part with its status and the reason. Request
validation, event normalisation, configuration files, attachments, memory,
notifications and the user interfaces are sequential or pure I/O; so is the
one-actor migration of a Codex home. Most of the gateway's services keep their
concurrency inside single PostgreSQL transactions. Section 6 says what this
leaves open.

## 2. Modules

| Module | Models | Composition |
|---|---|---|
| `ExecutorPool` | the pool's functions, as operators on a pool value | extended by `RunManager` |
| `RunManager` | the run manager, over the pool | extends `ExecutorPool`, refines `RunLifecycle` |
| `RunLifecycle` | the promise to API clients: queued, running, one final status; a thread at a time; at most `MaxConcurrency` pooled runs | abstract specification |
| `MCRunManager` | symmetry for TLC | extends `RunManager` |
| `RunManagerProofs` | proofs | extends `RunManager` |
| `AppServerSlot`, `AppServerSlotProofs` | one slot and the processes it owns | the pool is the environment that starts runs on it |
| `Approvals`, `ApprovalsProofs` | requests from Codex to the user and back | runs are reduced to the phases that matter to approvals |
| `Scheduler`, `MCScheduler`, `SchedulerProofs` | the scheduler | the run manager is reduced to counts of unfinished runs per thread |
| `AppServerHost`, `AppServerHostProofs` | one Codex process and the host object that speaks with it, over many jobs | refines `TurnHost`; Codex is external |
| `TurnHost` | what a host promises to the slot that owns it | abstract specification |
| `EnterpriseSession`, `MCEnterpriseSession`, `EnterpriseSessionProofs` | the enterprise session and its credential file | the gateway and the user are external; the MC module bounds the kinds of operations that TLC explores |
| `CollectorPull`, `MCCollectorPull`, `CollectorPullProofs` | the pull broker, its HTTP handlers and the collectors' workers | symmetry in the MC module |
| `StorageMigration`, `MCStorageMigration`, `StorageMigrationProofs` | uploads, migration workers and the sweeper over rows and objects | symmetry in the MC module |

Each abstraction of a neighbour is backed by the neighbour's own module: the
pool starts a slot only when it is not busy (`ExecutorPool!CanStart`); a run
that starts ends (`RunManager!EveryRunEnds`), which is the fairness of
`Scheduler!RunEnds`; a slot takes its host for what `TurnHost` says, which
`AppServerHost` implements (`ImplementsTurnHost`); a canceled job settles
(`AppServerHost!CancelSettles`) and a host that is to end goes
(`AppServerHost!HostGoes`), which is the fairness `AppServerSlot` asks of a
process that was told to end.

### 2.1 RunManager

*Steps.* One action is one synchronous stretch. Inside a stretch functions call
one another (`cancelRun` → `startNextPersistentRuns` → `startExistingRun` →
`completeThreadRun` → `startNextQueuedThreadRun` → …); those are actions chained
by an explicit call stack `calls`, and while it is not empty its top is the only
step of the daemon. This keeps the code's order exactly, lets `Restart` fall
between any two calls, and makes each function one definition. `Idle` is the
moment between two callbacks: the stack is empty and no microtask is waiting.

*State.* `row` is the row (public status, internal status, queue state), `log`
the events that decide what a client shows (`canceling`, and `done` with its
status), `phase` where the promise chain of a run is: `preparing` (injection),
`turn`, `releasing` (the slot is still busy), `reporting` (the slot is free, the
handler has not finished), `finalizing`; `stuck` is a handler that rejected and
will never finalise. `runningThreadRun`, `runningPersistentRunIds`, `queues` and
`closing` are the manager's own variables.

| Code | Action |
|---|---|
| `startRun` | `StartRun` (admit or queue, with the interrupting mode) |
| `startExistingRun` | `Launch`, `FailBeforeSpawn` |
| `startNextPersistentRuns`, `startNextQueuedThreadRun` | actions of the same names |
| `prepareRunInjection().then(startAppServerAttempt)` | `StartPersistentAttempt`, `StartDirectAttempt` |
| the process's result | `EndTurn`, then `HandleResult` or `Rotate` |
| `finalizeRun` | `PublishDone`, `FinishRun` |
| `cancelRun` | `CancelActiveRun`, `CancelQueuedRun`, `PublishQueuedCancel` |
| steer | `SteerRun` |
| sign-out, `close` | `SignOut`, `Close`, both through `CancelAll` |
| a new daemon, `recoverOrphanedRuns` | `Restart`, `RecoverOrphan`, `RecoverEvents` |

Runs created by schedules use a process of their own and only the thread queue;
runs of users share the pool. This is why a thread has two queues and why order
is only promised within one origin. `AppServer = FALSE` (the older exec
transport) makes every run take the path that `origin = "schedule"` takes here;
it has no run of its own but is covered by the proofs.

### 2.2 AppServerSlot

Actions are the stretches between awaits of `start`, `prepareExecution`,
`invalidate`, `close`, `clearHost` and of a result's `finally`. A host is
numbered by the run that created it. `outdated` is a history variable: hosts
older than the last `invalidate`. A process may die in any state.

### 2.3 Approvals

`task` follows `respondToServerRequest` and `onApprovalRequest` of one request:
announcing its event, awaiting the decision, reporting the decision, answered.
`Transition` is the function `transition`, applied to a set because `cancelRun`
applies it to every pending request of a run. `phase` is the run as approvals
see it: the host executes one job at a time, but the next run may start on it
while the last one is still being finalised. A restart resolves promises with
nobody to hear them, cancels pending rows and recovers unfinished runs as
failed.

### 2.4 Scheduler

A pass of the service is synchronous; it is cut into steps (`SkipMisfire`,
`ProcessDue`, `ProcessPending`, `Record`, `EndPass`) only so that a crash can
fall between two statements, and while a pass is under way nothing but its next
step or a restart is enabled. `ProcessDueThrows` is a cron expression whose next
time cannot be computed any more: the schedule is left as it was, still due, and
the rest of the pass and the timer go on. Time is qualitative: `next_run_at` is in the
future, due, or so late that it is a misfire; `Tick` moves it. `HasNext`,
`ListDue` and `ListPending` are the repository's queries. `resumed` is a history
variable of the known gap described in section 5.

### 2.5 AppServerHost

A job goes through the stages of the code (`acquiring`, the writable request
gate, `thread_starting` and its callback, `mcp_refreshing`, `mcp_waiting`,
`turn_start_written`, `turn_active`, `interrupting`, settled), one request to
Codex after the other. `frames` is what Codex has sent and the host has not
handled, in order; a notification awaits the run manager's callback
(`delivering`), and while it does everything else but the next frame goes on.
`pending` are the requests whose promise the host still holds. Codex answers,
runs turns, completes other turns too, and dies.

| Code | Action |
|---|---|
| `run`, `cancel`, `close` | `Run`, `Cancel`, `Close` |
| `executeJob` between its awaits | `Acquired`, `GatePassed`, `ThreadStarted`, `ServersAwaited`, `CallbackFails` |
| answers | `Initialized`, `ThreadKnown`, `Refreshed`, `TurnAnswered`, `InterruptAnswered`, and their refusals |
| notifications | `Notify`, `Notified`, `NotifyFails`, `FrameIgnored` |
| `failHost`, timers, pipes; the `close` event | `HostFails`, `WriteFails`, `Killed`; `Closed` |

Assumed of Codex: it answers `turn/start` before it sends notifications of the
turn (otherwise the inactivity timeout, `manager.ts:2743`, ends the run). The
write of a request and its callback are one step, since the callback comes
before any answer; the timers of the host are one action, `HostFails`; whether
MCP servers are still starting is a choice.

### 2.6 EnterpriseSession

An operation (`op`) carries its generation, the token it got and where it is:
reading the file, waiting for the gateway, waiting its turn to change the file
(`chain` is `credentialMutation`), writing, undoing, deleting, revoking. `io` is
the order in which the file serves its accesses; readers share one access
(`SharedRead`) and each has its own time-out (`ReadTimeout`). A file left by
another version may hold what cannot be decoded (`Damaged`): the read then
queues a deletion of the section behind the accesses that came meanwhile
(`DecodeFails`, `SharedDrop`), its failure is heard by nobody, and the read
throws once it is over (`DropDone`). `Callback`, `PendingEnds` and `BeginPoll`
are the DingTalk sign-in that waits for the browser. `settled`, `revoked`,
`cleared` and `broken` are history; `revoked` are the tokens the gateway was
asked to end. `SignOutStands` says what a sign-out is worth against everything
that was under way: the session stays signed out, the file is empty once the
queue of changes is, and a token that a request still brought into memory has
been given back. The text of snapshots (account, reason) is left out, as are the
gateway's origin filter (`api/server.ts:322`) and restarts of the daemon: the
file outlives one, and a fresh session starts from what `Init` allows.

### 2.7 CollectorPull

The broker's mutex makes `Submit`, `Claim`, `Park`, `cancel`, `Complete` and the
channel's close single steps. A pull request is `ready` until it looked at the
queue, `parked` on the channel it took there, `woken` when the channel was
closed, `sent` when its answer is on the way; the worker at its other end may
have gone. `posts` is a set of result requests on their way: one is handled
late, lost, or after its worker has posted again. `Complete` has the code's
three cases (`Complete`, `CompleteAgain`, `CompleteRefused`).
`cleanupCompletedLocked` runs only when nothing of the task is under way, in
place of its ten minutes. The broker is memory of the server: a server restart
loses it and its callers together. `Claim` leaves out the return for a failing
`randomID`, which cannot be taken: `crypto/rand.Read` returns no error since Go
1.24, and the server's `go.mod` asks for 1.25.

### 2.8 StorageMigration

Rows and objects are apart: `object` is the key a row names, `stored` the
objects that exist. A worker (`doing`, `job`) claims an item, copies, completes
or fails it and drops what is not needed; its lease is the item's
`attempt_count`. An upload puts an object, replaces the row, drops the old one
or its own. A sweeper claims and finishes a cleanup task. `deleteOrEnqueue` has
the code's three outcomes: deleted, recorded, lost sight of. `latest`, `leaked`
are history; `leaked` collects exactly what a stop, a put reported as failed and
a task that could not be written lose. `SweeperCrash` stands as well for a
database that refuses to record a deletion: the object is gone and its task
still runs. The status "open" stands for pending and running, "none" for a
cleanup task that succeeded, one key for profile, key and revision; the unique
index on open migrations is a guard (`NoneOpen`). The creation of a file is a
replacement without an old object and is not modelled; activation of a profile
is a choice of each upload; revision conflicts are the choice `ReplaceFails`.
`LostCommits` says whether a commit that took place can be reported as failed.

## 3. Runs

The cfgs give constants their values and replace no definition; four MC modules add
symmetry and `MCEnterpriseSession` a constraint.

| Run | Instance | What it shows |
|---|---|---|
| `RunManagerPool` | 3 threads, 2 slots, 3 runs of both origins, cancel and steer, failures before the spawn and in preparation; 1.1 million states | exclusion, ownership; memory and rows agree; no wake-up is missed; `done` and row agree; cancels reach the process |
| `RunManagerRestart` | 2 threads, 1 slot, 3 runs, cancel, close and sign-out, missing Codex threads and failed turns, a restart anywhere; 0.7 million states | refinement of `RunLifecycle`; one `done`; FIFO |
| `RunManagerLiveness` | 2 threads, 1 slot, 3 runs, both origins and modes, missing threads | every submitted run ends |
| `AppServerSlot` | 4 runs of 2 configurations, cancel, invalidate, close, every failure | one process, no turn in an outdated process; outdated processes end, `close` returns |
| `AppServerHost` | 2 jobs with 2 manifests, cancel, close, every failure; 0.16 million states | no turn left behind a settled job; a job ends as its own turn did; its turn has its manifest; refinement of `TurnHost`; canceled jobs settle, hosts that are to end go |
| `Approvals` | 2 requests, 2 runs, 1 restart; 0.4 million states | told what the row says, in the turn that asked; pending exactly while armed; every request ends |
| `Scheduler` | 2 schedules, 1 user run, 1 restart, 1 expression that throws | timers armed, queued triggers polled, runs start alone |
| `SchedulerLiveness` | 1 schedule, 2 user runs, 1 restart, 1 expression that throws | due schedules are handled, queued triggers are served |
| `EnterpriseSession` | 3 operations of any kind, or 4 sign-ins, sign-outs and requests of managers (the constraint `Explored`), 2 tokens, a file that hangs and fails, or holds what cannot be decoded (then with sign-ins, refreshes, sign-outs and requests only); 1.5 million states | no token leaks, signing out stands, "checking" is answered, late answers are silent |
| `CollectorPull` | 3 calls, 1 collector with 2 workers, 2 pull requests, 2 places, 2 attempts of a post; 1.3 million states | no wake-up lost, no place leaks, workers are told the truth |
| `StorageMigration` | 1 file, 1 migration, 1 upload, 2 workers, 1 sweeper, 2 attempts of an item, 3 claims, 1 sweep of a task; 1.8 million states | rows have objects, content is never stale, everything is tracked, a completed migration is complete |
| `LostCommit` | the same with `LostCommits` | section 5 |

**Bounds, and why they are enough.** Three runs are the fewest with one active,
one waiting and one arriving in between, in one thread or in several; two slots
the fewest where a choice of slot can be wrong; three threads the fewest where a
slot owns two of them and another one is free. `ThreadFifo` holds with one slot
and is checked and proved there; with more, `FifoUnlessEnding` proves that the
order is broken only in the way that section 5 describes. One restart suffices
for whatever depends on one recovery; two sessions overlap nowhere. Four runs on
a slot give: one that leaves a host, one that replaces it, one that meets the
replacement's end, one after. Two requests suffice because requests interact
only through their run. Two jobs are one that leaves frames, a manifest or a turn
behind and one that meets them. Three operations of the session are one that is
superseded, one that supersedes it and one that profits; two tokens are two
sign-ins. `SignOutStands` needs a fourth: a read that is under way before a
sign-in writes its token, the sign-in, a sign-out that shares that read and finds
no file, and a request that reads the file between the write and its undoing.
The constraint admits a fourth operation of the three kinds this takes. Three
calls at two places are one more than fits; two workers and two pulls can be
woken for one task. Two workers can hold one item's lease one after
the other, and three claims leave the second one worker to come after both;
files interact only through the status of their migration, so one file has every
race of rows and objects. The proved properties do not depend on any bound.

**Deadlock.** Submissions are bounded and an idle daemon does nothing, so
`RunManager`, `AppServerSlot`, `AppServerHost` and `Approvals` do stop; so do the
session, whose operations are numbered, and a storage migration whose item has
used its claims: `CHECK_DEADLOCK FALSE`. The scheduler always has a step (users
may always edit a schedule or stop the service), and so has a collector, which
always pulls: both are checked for deadlock.

**Fairness.**
- `RunManager`: `WF(CallStep)`, a synchronous stretch runs to its end.
  `SF(TaskStep(r))`: the event loop serves every callback that is ready, and a
  turn ends because the runners have spawn, inactivity and total timeouts. It
  is strong because `Idle` is false again and again while other callbacks run.
- `AppServerSlot`: preparation settles, a turn ends or its timeout fails the
  host, a process told to end is killed after a grace period, the steps of
  `close` go on. Nothing obliges a process to exit that was not told to.
- `AppServerHost`: the event loop runs what is ready and callbacks settle
  (`WF(HostStep)`); Codex answers requests and ends a turn it was told to stop,
  but need not end any other; a process that was told to end is killed. No timer
  need ever fire.
- `Approvals`: resolved promises continue, timers fire. No user ever has to
  decide and no turn has to end.
- `Scheduler`: a pass goes on; runs end; a timer that is set fires. Strong for
  the timers: every pass clears the timers and sets them again, the poll to a
  full interval and the due timer to at most `MAX_TIMER_DELAY`.
- `EnterpriseSession`, `CollectorPull` and `StorageMigration` state safety only:
  nothing in the code obliges a hanging file, a gateway or a storage to answer.
  What liveness asks of the session is stated as an invariant,
  `CheckingIsAnswered`: an operation is under way that will publish.

**Mutants.** Every property of every passing run has a mutant: a changed form of
one of the model's definitions, the way a slip in that code would look (a dropped
guard, a missing reset, a swapped order), written next to the definition it
replaces, under which TLC finds the property violated.

## 4. Proofs

| Module | Theorems | Inductive invariant |
|---|---|---|
| `RunManagerProofs` | `Typed`, `Placement`, `Exclusive`, `Capacity`, `Owned` | `PlacementInv`: active runs hold their thread and, if pooled, their place; queues hold runs for their key; a start that is pending on the call stack is on its top only and finds thread and place free. `OwnerInv`: no two slots own a thread |
| | `Recorded`, `MemoryAndRows`, `Announced`, `OneDone`, `DoneIsRow`, `DoneMatches` | `RecordInv`: in every state, also in the middle of a stretch, each row says where its run is (queue, task, pending call or recovery). `DoneInv`: a `done` event is justified by the row or by the call or recovery that is about to write it |
| | `CancelsTold`, `CancelsReach` | `ToldInv`: a run that is canceling in its turn was told, unless it replaced its Codex thread, which only a missing thread makes it do |
| | `Implements` | every step under `RecordInv` and `DoneInv` is a step of `RunLifecycle` or a stutter |
| | `SlotsAndRuns`, `Wakes`, `NoneMissed` | `SlotsInv`: a busy slot belongs to a pooled run of a thread it owns, and that run keeps it until its result is handled. `WakeInv`: when a run could start and waits, the call that will start it is on the stack, or a pooled run is ending |
| | `FifoUnlessEnding`, `Fifo` | `OrderInv`: `WakeInv`, and a queue holds the runs of a thread in the order of submission, interrupting ones aside |
| `AppServerSlotProofs` | `SlotInvariant`, `SlotHasOneProcess`, `SlotClosed`, `SlotCancels`, `SlotUpToDate` | `SlotInv`: every process that may live is kept by the slot, by the run's chain, by an idle invalidation or by `close`, and at most one of them keeps one; a kept outdated host is marked and its slot busy |
| `ApprovalsProofs` | `ApprovalsInvariant`, `PendingArmed`, `AnswersMatch`, `FailedIsClean`, `Decided`, `Told` | `ApprovalsInv`: a promise is resolved with what its row says, a reported request is decided, a row exists only for a request asked in a turn, and the handled failure of a run leaves none pending |
| `AppServerHostProofs` | `HostInvariant`, `NoTurnIsLeft`, `JobsEndAsTheirTurns`, `ManifestsAreOwn`, `HostImplementsTurnHost` | `HostInv`: Codex is asked for the turn and the reload of a job once, at a stage that comes once, so that an answer or an end that comes late can be told from one that is awaited; every step of the host is one of six kinds (`HostKind`), each a step of `TurnHost` or a stutter, and the invariant is proved once per kind |
| `EnterpriseSessionProofs` | `SessionInvariant`, `TokensDoNotLeak`, `WaitingIsCurrent`, `CheckingEnds`, `LateAnswersAreSilent`, `SignOutWins` | `SessionInv`: what each stage of an operation holds, the queue of changes and the file's accesses without repetition, who is at the head of which, and that a token is stored, being revoked or carried by one operation |
| `CollectorPullProofs` | `PullInvariant`, `WakeupsAreNotLost`, `PlacesDoNotLeak`, `WorkersAreToldTheTruth` | `PullInv`: queues without repetition hold the pending tasks, a claimed task is carried by one pull or one worker or was lost with its call still waiting, and what posts, results and workers know of a task agrees |
| `StorageMigrationProofs` | `StorageInvariant`, `RowsHaveObjects`, `ContentIsNeverStale`, `EverythingIsTracked` | `StorageInv`: an object goes one way, from *coming* (a row may come to name it) to *named* to *doomed* (somebody will delete it), and the three kinds are apart; each action takes one of three abstract steps (`Keeps`, `Dooms`, `Names`), and `ApartStep` is proved once for those |
| | `Accounted`, `CompletedMigrations` | `CompletionInv`: `StorageInv`, and a migration has items and tasks only once it was created (`Opened`), a completed one has final items only and owes no deletion of a source (`Decided`), a source is never put again (`Snapshots`), the source of an item that succeeded is gone, tracked, leaked or in the hands of its worker (`Followed`), and of that worker alone (`SoleDoom`) |
| `SchedulerProofs` | `SchedulerInvariant`, `TimerIsArmed`, `QueueIsPolled`, `Quiet`, `StartedAlone`, `PausedStays` | `SchedulerInv`: a pass looks only at enabled schedules, since nothing edits one meanwhile; timers are armed and quiet as the properties say |

They hold for every value of the constants under the named assumptions of the
modules (`RunManagerAssumption`, `MaxConcurrencyAssumption`,
`AppServerSlotAssumption`, `AppServerHostAssumption`, `ApprovalsAssumption`,
`SchedulerAssumption`, `EnterpriseSessionAssumption`, and in `CollectorPull` and
`StorageMigration` `TaskAssumption`, `WorkerAssumption`, `BoundAssumption`,
`CommitAssumption`, `NoObjectAssumption`, `NoMigrationAssumption`): bounds are
naturals, the options are those the model knows, the pool has a slot, and the
markers are not among the things they are told apart from. TLC evaluates them in every run. The theorems of
`StorageMigrationProofs` also assume `~LostCommits` in their statements, which is
what the finding of section 5 is about. Three theorems of `RunManagerProofs` carry
a hypothesis, for what the code does otherwise is described in section 5:
`DoneMatches` is about a daemon that has not been restarted (`DoneIsRow`, which
has no hypothesis, names the one status a restart leaves: orphaned),
`CancelsReach` about a Codex that loses no thread (`"resumeMissing" \notin
Failures`), and `Fifo` about one slot or the exec transport.

Why the strengthening is needed. `ThreadExclusive` is not inductive: that
`Launch` may activate a run follows only from what the caller checked before it
pushed the call, so `PlacementInv` carries the check across the stack
(`StartOnlyOnTop`, `StartsAreFree`), and freeing a thread or a place must be
shown to concern only its holder (`ThreadsHeld`, `PlacesHeld`). `OneProcess` is
not inductive because a new host is created when a *promise* of the old one's
end is fulfilled: `AppServerSlotProofs!Accounted` and `OneKeeper` say who holds
that promise.

`MemoryMatchesRows` speaks of the moments between callbacks, but rows and memory
part for a while in each stretch and after each restart. `RecordInv` says what
bridges the gap: a run that is neither queued nor a task is on the call stack,
or is an orphan that the recovery, which runs before anything else
(`RecoveryFirst`, `RecoveryAlone`), has yet to reach. `AtMostOneDone` needs more
than the log: that whoever is about to publish finds no `done` of a run that is
still to be canceled or recovered (`CancelsPending`, `RecoveriesPending`,
`DoneJustified`). Of `NoMissedWakeUp` the stack is the whole difficulty: when a
thread or a place is freed nothing has started yet, so `Woken` names the call
that will do it and `WakeStep` shows that no call returns before its waiting run
has started, was refused by `canStart`, or has another call to wait for. It rests
on the pool: a waiting run may start when its slot is free, so a slot that is
busy must belong to a run whose end calls `startNextPersistentRuns`, also when
that run has replaced its Codex thread and must get its own slot back
(`Reseated`). From the same invariant follows the order within a thread: who is
passed could have started and was not called, so a pooled run is ending.

`RowHasObject` needs the most: no action checks that an object it deletes is not
named. It follows from the order of things alone (put, then write the row, then
delete), so the invariant must say for every process what it is about to do with
an object, and `Unused` keeps the keys of future attempts apart.
`EverythingIsTracked` then only needs to say that what a process stops to hold
is named, recorded or leaked. A migration is completed by a look at its items and
its tasks, while workers may still be at the sources of items that succeeded; for
`CompletedIsComplete`, `Followed` traces each such source to its worker, to a task
of the same migration or to a loss, and needs that nobody else deletes that source
(`SoleDoom`), whose task could be another migration's. `NoTokenLeaks` needs the
operation that carries each token to be unique, `SignOutStands` that everything which can still
write the file after a sign-out is followed by its undoing in the same queue, and
`ToldTheTruth` that a post is about an attempt that its worker made.

Besides the inductive invariants, eleven theorems state properties that no run
checks, since they follow from the same invariants: `RunManagerProofs!Typed`,
`Capacity`, `DoneIsRow` and `FifoUnlessEnding`, `SchedulerProofs!Quiet` and
`PausedStays`, `ApprovalsProofs!FailedIsClean` and `Decided`,
`EnterpriseSessionProofs!WaitingIsCurrent`, and in `AppServerSlotProofs`
`SlotClosed` (no process after `close`) and `SlotCancels`.
Types are part of each inductive invariant.

Only model-checked: everything under fairness (`EveryRunEnds`,
`OutdatedHostGoes`, `CloseEnds`, `CancelSettles`, `HostGoes`,
`EveryRequestEnds`, `DueIsHandled`, `PendingIsServed`), which is outside what
TLAPS proves. Every invariant and every action property of the passing runs, and
both refinements, are proved. No module uses a RECURSIVE operator.

## 5. Where the code and its documentation disagree

**The finding: `LostCommit`** (`server/internal/sharedfiles/postgres_store.go:461`).
`replaceFile` commits with the context of the request, and `upload` deletes the
new object on any error it returns (`service.go:382-385`); the migration worker
does the same with its copy. When the context is cancelled or the connection is
lost after PostgreSQL committed and before the answer is read, the error is
reported although the row names the new object, and the compensation deletes it.
The design document (`docs/v1/P2-共享网盘阿里云OSS存储方案设计.md:770`) states
that an uploaded file exists where its row says. `StorageMigration`, with
`LostCommits = FALSE`, and the proofs show that this is the only way.

Met on the way, and reproducible with definitions that are kept beside the
models (add the definition to the named cfg with the named values):

1. **`RunManager!NeverRefused`** (`runs/manager.ts:2120`; `MaxConcurrency = 2`,
   `MaxRuns = 4`). The loop that fills free slots asks `canStart` for a second
   run before the first has taken its slot in the next microtask. Two waiting
   runs whose threads belong to one slot are both started; the second fails with
   "executor is busy". The user guide
   (`client/docs/clawee-user-guide-and-troubleshooting.md:23`) says that waiting
   runs start when a place is free.
2. **`RunManager!ThreadFifo`** (`runs/manager.ts:381`; `MaxConcurrency = 2`,
   `MaxRuns = 4`). Between the release of a slot and the end of `finalizeRun`, a
   new submission finds its thread idle and a slot free and passes a run of the
   same thread that waits for a slot (`client/docs/runtime-api-for-ui-v1.md:1129`:
   FIFO per thread). `FifoUnlessEnding` proves that this is the only way: apart
   from a steer, whoever is passed waits while a pooled run is between the end of
   its turn and its `finalizeRun`.
3. **`RunManager!CancelReachesProcess`** (`runs/manager.ts:1278`; with
   `"resumeMissing"` in `Failures`). A cancel accepted while `thread/resume` of a
   missing Codex thread is failing is not passed to the process of the second
   attempt (`client/docs/runtime-api-for-ui-v1.md:202`). The second attempt is the
   only one that is not told (`CancelsTold`): where no thread is missing the
   property holds (`RunManagerPool`, `CancelsReach`).
4. **`Scheduler!PollArmed`** (`api/server.ts:675`). Enabling a schedule whose
   trigger was queued while it was paused refreshes only the due timer; the
   trigger waits for some later event. `PollArmedUnlessResumed`, which leaves out
   exactly these schedules, holds and is proved.
5. **`Approvals!CanceledLeavesNone`** (`runs/manager.ts:1449`). A request that
   Codex makes after a cancel and before it hears of its interrupt outlives the
   canceled run as pending until its time to live ends
   (`client/docs/runtime-api-for-ui-v1.md:1143`). `FailedLeavesNone`, the same
   for failed processes, holds and is proved.
6. **`AppServerHost!LateAnswerIsHarmless`**
   (`codex/app-server-host-2026-07-28.ts`, `AnswerIsFatal` in the map). A refused
   interrupt whose answer comes after its job has settled fails the job that runs
   then. A unit test (`persistent-app-server-executor-2026-07-28.test.ts:523`)
   says that the host stays reusable.
7. **`EnterpriseSession!DeletesOnlyItsOwn`**
   (`enterprise/session-manager-2026-07-30.ts`). A late refusal of an old token
   can delete the token of a newer sign-in. The MCP manager guards its own
   requests against this; six other managers call `invalidateUnauthorized`
   without that check.

Observed, and part of no run:
- An `invalidate` that meets a busy slot can leave `staleReason` set for a later
  host that is up to date
  (`persistent-app-server-executor-2026-07-28.ts:441`): one needless restart of
  Codex, and no turn in an outdated process.
- Across origins a thread has no order: a schedule's run and a user's run wait
  in different queues. The documents promise none.
- A restart between the `done` event and the row of a run recovers it as failed
  although clients saw it succeed. `DoneMatchesRow` is therefore checked without
  restarts, and `DoneIsRow` proves that with them only runs marked orphaned
  differ; `AtMostOneDone` and the refinement are checked and proved with them.
- A schedule whose next time can never be computed stays due, so that the timer
  is set for it again at once, for ever, with a failed operation in the log each
  time (`scheduler/service.ts:203`). `DueIsHandled` assumes that it fails at most
  `MaxFailures` times.
- A crash between `startRun` and `recordRun` of the scheduler runs a queued
  trigger twice; one between the update of `next_run_at` and `startRun` loses
  it, in line with the rule that missed triggers are skipped.
- Session: a refresh that overlaps the write of a superseded sign-in can adopt
  the token that the sign-in then deletes and revokes; a manager's request in the
  same moment leaves that token in memory after a sign-out, where it serves
  nobody (`SignOutStands` says that it was given back to the gateway); a sign-in
  while the credential file hangs stays "checking"; a stop between a write and its undoing
  leaves the superseded token in the file; a sign-in that fails leaves an older
  credential in the file while the session says signed out; the deletion of a
  stored value that cannot be decoded
  (`enterprise/credential-store-2026-07-30.ts:44`) is queued behind a write that
  came meanwhile and removes the new sign-in's token from the file: the session
  stays signed in until the next start of the daemon.
- Host: notifications of the previous thread are delivered to a job that does
  not know its thread yet.
- Broker: a result that is accepted in the moment in which `Submit` takes its
  timeout is lost although its worker was told "accepted"; a claim whose answer
  is lost keeps its place until its call times out.
- Shared files: an item succeeds before its source is deleted, while the design
  (section 10.2, lines 533-535) has the reverse order, so a stop in between
  loses track of the source (`:829`); a put that is reported as failed but
  stored is tracked nowhere; a copy's cleanup task enqueued after completion
  leaves its migration completed; retrying a running or cancelled migration that
  has only exhausted cleanup tasks sets `completed_with_cleanup_pending` though
  items are open, which are then never claimed; a retry of failed items revives a
  cancelled migration (`:558`); a cleanup task whose sweeper stops in its tenth
  attempt stays running for ever (a claim needs `attempt_count < 10`, a retry
  `failed`), so that its migration never completes (`:592`); a reader that read
  the row before a move gets `storage_unavailable`; `UpdateStorageProfile` can
  change the bucket of a profile without references while an upload to it is
  under way.

## 6. Not modelled

Left out of the modelled components: standalone runs without a thread, failing
log files, `startExistingRun` throwing half-way on an I/O error (run manager);
`ensureBindings`, `reconcileLastRunStatuses` and the operation log (scheduler);
`detach`, which nothing calls, listeners, and runs with full access, whose
requests are accepted without an approval (approvals); restarts and snapshot
texts (session); creation of files, spaces and members, listings, administration
of storage profiles and the audit (shared files). SQLite and PostgreSQL are
assumed to execute their statements and transactions; time is an order of
events, not a duration.

Left out entirely, with reasons in `PROJECT.json`: the run log writer (a chain
of appends with a byte budget), the event stream of the API (its replay and
subscription run without an await between them), the migration of a Codex home
(one actor, and file operations whose durability the code does not describe),
the managers of the enterprise resources (each a client of one request at a
time), and everything that is user interface, request validation, row mapping,
configuration or a schema.

The models map a small share of the repository, which has some 137 thousand
lines of implementation. Most of them are user interfaces, HTTP clients,
schemas, row mapping and administration pages, where there is no behaviour to
check beyond what a type or a unit test says; a model of them would repeat the
code. The daemon's and the server's code that
decides something over several steps is what is here.
