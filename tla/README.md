# A TLA+ model of Automaker

Automaker runs coding agents on the features of a Kanban board. Its server
(`apps/server`) keeps each feature as a JSON file in the project, starts agents
on features, one after another or several at once, lets users stop, resume,
follow up and approve plans, and recovers after a restart; the board in the
browser (`apps/ui`) decides what is started when auto mode is on. The server runs
in one Node process: no two lines run at the same time, but a function gives way
at every `await`, and whatever it knew before may be wrong when it goes on. That
is where the hard behaviour of this program is, and what the modules here are
about: the order of continuations of several runs, requests, timers, events and
file operations, and crashes between them.

All paths below are relative to `src/`; `auto-mode-service.ts` is
`apps/server/src/services/auto-mode-service.ts`.

## Reading and running

| File | What it is |
| --- | --- |
| `AutoMode.tla` | the registry of running features and the life of a run |
| `PlanApproval.tla` | the approval of generated plans |
| `AutoLoop.tla` | the server's loop that picks features, its concurrency limit and failure tracking |
| `BoardAutoMode.tla` | auto mode as the board drives it, over requests and events |
| `DependencyResolver.tla` | the ordering of features by dependency and priority |
| `JsonFile.tla`, `SharedRecord.tla` | the atomic JSON writer with recovery; the abstract record it implements |
| `BacklogApply.tla` | the application of a backlog plan to the features on disk |
| `PipelineConfig.tla` | the pipeline steps of projects and the dialog that edits them |
| `AgentSession.tla` | a chat session with its queue of prompts |
| `FileLock.tla` | the lock of memory files and its users |
| `IssueValidation.tla` | the slots of issue validations |
| `DevServer.tla` | the development servers of worktrees and their ports |
| `MC*.tla`, `*.cfg` | the instances that TLC checks |
| `*Proofs.tla` | theorems, checked by TLAPS |
| `PROJECT.json` | components, runs, mutants, source map, hazards, findings, theorems |

`tlc -config AutoModeSafety.cfg MCAutoMode` checks a run, `tlapm
AutoModeProofs.tla` checks the proofs of a module. Each module holds, next to the
definitions they mutate, the *mutants* of its properties: plausible bugs in the
code (a dropped check, a missing reset, an off-by-one), at least one for each
property that a run checks, under which TLC finds that property violated. They are
not part of any specification; they show that the property depends on the code.

## The system and its parts

Components that are modelled, with the state they keep, what changes it, what is
hard, and what has to hold:

**Auto mode, registry and run lifecycle** (`auto-mode-service.ts`). State:
`runningFeatures`, a map from feature id to the run that works on it; on disk
the status of each feature and whether it has an `agent-output.md`; the steps of
the project's pipeline. Operations: `executeFeature`, `resumeFeature` with
`resumePipelineFeature` and `resumeFromPipelineStep`, `followUpFeature`,
`stopFeature`, `resumeInterruptedFeatures`, and from outside the moves and
deletions of features and steps. Hard: stops that outpace the run they stop,
checks separated from the registration they protect by awaits, cleanup by
feature id, a crash anywhere. Correct means: an entry belongs to a run that will
clean up, no two runs work on a feature, nothing stays `in_progress` for ever.

**Auto mode, plan approval** (`auto-mode-service.ts`). State: `pendingApprovals`,
a map from feature id to the promise of a run that waits; a 30-minute timer per
promise; `planSpec.status` on disk. Operations: the planning stream of
`runAgent` with its revision loop, `waitForPlanApproval`, `resolvePlanApproval`
with its recovery after a restart, `cancelPlanApproval`. Hard: a timer keyed by
feature, not by registration; a file write between looking up a promise and
resolving it; several versions of a plan. Correct means: what is shown as
pending can be answered, answers reach what they were given for, waits end.

**Auto mode loop and failure tracking** (`auto-mode-service.ts`). State:
`autoLoopRunning`, `pausedDueToFailures`, `consecutiveFailures`, and of each
activation of `runAutoLoop` where it is and what it has read. Operations:
`startAutoLoop`, `stopAutoLoop`, a turn of the loop, `loadPendingFeatures`,
`trackFailureAndCheckPause`, `recordSuccess`. Hard: a loop that sleeps through a
stop and a new start, statuses read file by file while they change, a capacity
check before an await. Correct means: the limit is kept, a stop stops,
dependencies come first, the loop does not idle.

**The board's auto mode** (`apps/ui/src/components/views/board-view.tsx` and its
hooks). `startAutoLoop` and `stopAutoLoop` are called by tests only: in the product
an effect of the board starts features. State: `runningTasks` of the store,
`pendingFeaturesRef`, the statuses that the store shows. Operations: the check
every three seconds, `handleStartImplementation`, the handlers of the server's
events, reloads, which also ask for the resumption of interrupted features. Hard:
nobody but the board sees to the limit of concurrency, requests and events cross,
a reload shows an old status, the effect is cleaned up in the middle of a check.
Correct means: the limit is kept, no slot is lost, everything is done, once.

**Dependency resolver** (`libs/dependency-resolver/src/resolver.ts`). Pure:
Kahn's algorithm with a priority queue, a depth first search for cycles. Hard:
cycles with features hanging on them, dependencies on oneself and on features
that are gone. Correct means: nothing is lost, dependencies come first, urgency
decides otherwise, cycles are reported.

**JSON files** (`libs/utils/src/atomic-writer.ts`, used by
`services/feature-loader.ts` and `auto-mode-service.ts`). State: a file, its
rotated backups, temp files named by millisecond. Operations: `atomicWriteJson`,
`rotateBackups`, `readJsonWithRecovery`, and the read-modify-write around them.
Hard: crashes halfway, failing writes, concurrent writers and recoveries.
Correct means: readers find a whole document, updates that were acknowledged
stay, backups are there to recover from.

**Backlog plan application** (`apps/server/src/routes/backlog-plan/routes/apply.ts`).
State: features and dependencies on disk, and what the handler loaded of them at its
start. Operations: four passes that delete, add and update features and then
link them. Hard: each pass writes what was true when the features were loaded; users
edit meanwhile. Correct means: no dependency is left on a feature that was deleted.

**Pipeline service** (`apps/server/src/services/pipeline-service.ts`, and the
dialog `pipeline-settings-dialog.tsx`). State: `pipeline.json` of each project, and
the array of the default configuration. Operations: add, update, delete, reorder,
and saving a whole configuration. Hard: no lock, a default array that is handed out
itself, orders that are sorted in some places and not in others. Correct means: steps
stay and keep their order.

**Agent chat sessions** (`apps/server/src/services/agent-service.ts`). State per
session: `isRunning`, `abortController`, `promptQueue`. Operations: `sendMessage`,
`stopExecution`, `clearSession`, `addToQueue` and the other calls of the queue,
`processNextInQueue`. Hard: the flag is checked before awaits and set after them, a
stop frees the session while its run goes on, a run takes the controller that the
session has by then. Correct means: one run at a time, which can be stopped, and a
queue that drains.

**Project memory and its file lock** (`libs/utils/src/memory-loader.ts`). State: a
map from file to the promise of its holder. Operations: `withFileLock`,
`incrementUsageStat`, `appendLearning`. Hard: those who wait wake together. Correct
means: one holder, no lost update, everybody gets in.

**Issue validation** (`apps/server/src/routes/github/routes/`,
`lib/validation-storage.ts`). State: the slot of each issue, timers, the stored
result. Operations: claim, timeout, stop, hourly cleanup, store, mark as viewed,
delete. Hard: slots are cleared by issue, not by holder; providers that do not notice
an abort. Correct means: one validation of an issue at a time, slots become free.

**Dev servers** (`apps/server/src/services/dev-server-service.ts`). State: a server
per worktree, the ports in use. Operations: start, with its search for a port, stop,
the exit of a process. Hard: several awaits between the first look at the table and
the entry, processes that end at any moment, cleanup by worktree and port. Correct
means: one server per worktree, a port of its own, nothing reserved for nobody.

How they interact: the board and other HTTP clients call `executeFeature` and the other
operations of auto mode; the server answers by events, after which the board reloads.
A run waits in `pendingApprovals`, which `stopFeature` empties in the same step in
which it removes the entry from `runningFeatures`; it looks up the steps of its
project in `pipeline.json`. The server's loop, where it is used, consults the
resolver. Statuses and plan states are written through the JSON writer, whose
read-modify-write has no lock; so are the dependencies that a backlog plan changes.
Chat sessions, validations and dev servers share nothing with auto mode but the
event bus; memory files are updated by runs and sessions alike.

Components that are not modelled (the reasons are in `PROJECT.json` as well):

| Component | State and operations | Why not |
| --- | --- | --- |
| Throttled file system | a limiter and retries after EMFILE | planned; in the models an I/O that ends or fails |
| Notifications, event history, hooks, settings | JSON files behind read-modify-write | the question is that of `JsonFile` and `PipelineConfig` |
| Event bus and WebSockets | a set of callbacks | a synchronous fan-out; what matters is the order of events, which `BoardAutoMode` has |
| Terminals, worktrees, sandboxes | PTYs, git, an external service | I/O; for a run they are failures of its own |
| Model providers | the agents | a choice of outputs, errors and ends |
| Authentication | sessions and keys | security is not a subject here |
| Ideation, spec generation, suggestions | prompts and parsing of model output | text, around slots claimed and cleared as in `IssueValidation` |
| Usage and CLI integrations | command line tools | I/O and parsing |
| The rest of the user interface | React components | views of state that lives in the server |

## Modules and code

An action is one continuation: the code from an `await` that has returned to the
next `await` that lets others in. `pc` (of a run, request, caller or loop) names
the await. Consecutive awaits that touch nothing the properties see (settings,
prompts, events) are one. `PROJECT.json` maps every definition to its lines.

### AutoMode

`registry` is `runningFeatures`. A run has its `pc`, feature, `kind` (which of
the three registering calls made its entry), the pipeline steps still `todo`, and
`aborted`, its abort signal. `status`, `context`, `pipeline` are the disk, and
survive `Crash`; `resumer` is the loop of `resumeInterruptedFeatures`; `left` is a
history variable, the features that something is known to have left unfinished.

- `ExecuteFeature` is check and registration in one step, as in the code.
  `CheckContext` is the hand-over of lines 532-541, where the entry is removed
  and `resumeFeature` entered. `Load`, `Mark`, `AgentDone`, `StartStep`,
  `StepDone`, `Succeed` go on from await to await; `AgentAborts`,
  `AgentFails`, `Fail` are the ways into the catch block and the block itself. An error
  is taken for an abort by its name or by the word in its message
  (`libs/utils/src/error-handler.ts:20`), stop or no stop, and then the status stays as
  it is (`abortErrors`). `MayThrow` says at which awaits. `Cleanup` is the finally: it
  deletes by feature id.
- `SetStatus` is `updateFeatureStatus`, which swallows its failures (2336): with
  `lostWrites` the status may stay as it was. `Settle` is the last status of a run.
  `MoveFeature` is a PUT of the board, of any status: cards are dropped on columns,
  and a feature is marked `in_progress` before its run is asked for
  (`use-board-actions.ts:503-514`).
- `Leave` keeps `left`: abort-like ends, failed follow-ups, lost last statuses, moves,
  the mark that restarts a pipeline and crashes add to it, and a status at rest
  takes a feature out.
- `LoadForResume` loads the feature and, for a pipeline status, the pipeline as
  `detectPipelineStatus` does; the steps it found are used later even if they
  have been deleted since. `ResumePipeline` registers without looking, as
  `resumeFromPipelineStep` does, and so does `StartFollowUp`.
- Left out: worktrees, models, sandboxes (their failures are `AgentFails`),
  `verifyFeature`, `commitFeature` and `analyzeProject`, which change neither
  the registry nor a status. The read-modify-write of a status is one step here;
  `JsonFile` has what is behind it.

### PlanApproval

About one feature, since entries of different features never meet. A
registration is a pair of run and plan version; `pending` is what the map has.
A run's `promise` is the state of the promise of its current version. A request
remembers the registration it found (`reg`) while it writes the `planSpec`.
`Settle` is `wrappedResolve`/`wrappedReject`, with the clearing of the timer.
The content of plans, task parsing and task execution are left out. A recovered
run starts with a continuation prompt and goes straight to `implementing`.

### JsonFile and SharedRecord

A document is the set of the updates it contains, `Torn` a half-written one.
`Write` is two steps for the observer (torn, then whole); renames are atomic.
`place` says where the file that a writer has open is by now: two writes of one
millisecond share a temp file, and one may rename it under the other.
`SharedRecord` is what callers think the file is, a `value` that updates are applied
to one at a time, as long as it is `intact`; after a `FallBack` nothing is promised.
`JsonFile!Record` maps `value` to `main` and `intact` to `~recovered`.

What may go wrong is `Faults`: the server may `crash`; a read may fail although the file
is whole (`readFails`: `ReadMain`, `ReadTemp`, `ReadBackup`), and as in the code every
failing read goes into the recovery; a write or a rename may fail (`writeFails`); so may
what the code ignores the failure of (`ignoredFails`: the steps of a rotation, copies,
unlinks, the rename of a recovery); and others may `corrupt` the file between
writes. Two history variables follow the recoveries: `recovered`, that one has returned a
document it found elsewhere, and `undone`, the acknowledged updates that this document, or
the file after it, was without. The image handling and the creation and deletion of
features are left out.

### DependencyResolver

Variables are the local variables of `resolveDependencies` and `detectCycles`;
`calls` is the recursion of `dfs`, which the code leaves by returns that do not
pop `recursionStack` once a cycle has been found. `queue` is a set together with
`pushed`, the time of a push: the code's array is sorted by a stable sort after
each turn, so its head is the least by priority and then by the time of its push
(ties by position, `Before`). `Needs`, what a feature depends on directly or through
others, is what every set closed under dependencies has; no recursion is involved. The roots of the search are taken in array order; the dependencies of a feature
in any order, which covers the order they are listed in.

### AutoLoop

Several activations of `runAutoLoop` share `running`. `Turn` is the head of the
loop with its capacity check, `Read` one file of `loadPendingFeatures`, `Pick` the
choice and the registration, in one step and without a second look at `running`.
Of a run there is what the loop can see: `entry`, `phase`, the status it writes,
and `resuming`, the executions that gave up their entry to resume (the hand-over
above). The window of 60 seconds is a choice: any part of the recorded failures
may have expired. `late` and `finished` are history variables. `stopFeature` and
pipelines are left to `AutoMode`; the execution-state file is left out, as it is
written but never read (`loadExecutionState` has no caller); feature directories
that cannot be read, and the await of `saveExecutionState` inside
`startAutoLoop`, are left out.

### BoardAutoMode

The board (`on`, `shown`, `tasks`, `pending`, the checks and loads under way) and the
server as the board sees it: for each feature at most one `run`, its status on `disk`,
whether there is agent output (`context`), what `resumeInterruptedFeatures` has still
to resume, and the `events` that are sent and have not arrived.

- `CheckFeatures` is the check up to its first await, with the first feature shown in
  progress; `PersistStatus` and `RunFeature` are the server's side of the two requests,
  `StatusPersisted` and `RunAnswered` the board's. `StartNext` goes on to the next
  feature of the list, unless the effect has been cleaned up (`Toggle`).
- `FeatureStart`, `StepStarted`, `FeatureEnd` are the handlers of events; the latter two
  reload. A reload (`GetAll`, `SetFeatures`, `ResumeInterrupted`) overwrites what is
  shown, and asks the server to resume what is in progress with output.
- `BeginRun`, `MarkInProgress`, `BeginStep`, `AgentEnds`, `EndRun` are `AutoMode`'s
  executions with everything but their status and events left out.
- `overlooked` is a history variable: the runs that were entered (`Enlist`) while the end
  of an earlier run of the feature was still on its way to the board, or by a resumption.
- `condition` chooses what may happen. Without `late`, answers arrive before what is
  sent after them, and a run does not end in the middle of a resumption.
- Left out: starts and stops by hand, features of other worktrees, dependencies (the
  check leaves out what is blocked), the verification of features, and the sync
  with the server when the page is opened.

### BacklogApply

Of features there are their dependencies: `deps` on disk, `listed` as they were loaded,
`known` as `featureMap` has them, which follows some changes and not others. A change is
chosen when its turn comes (`DeleteChange`, `AddChange`, `UpdateChange`, `LinkChange`),
and the dependencies it sets, adds or removes are any ids (`WrittenDeps`): the plan is the
output of a language model, and nobody looks whether what it names is a feature. `named` is
a history variable, the dependencies that the plan has written for each feature. `UserEdits`
is a PUT of the board. Titles, descriptions and what else a change sets are left out, as is
the failure of a write.

### PipelineConfig

A step is its id and its `order`. An edit (`ReadConfig`, one of `AddStep`, `DeleteStep`,
`UpdateStep`, `ReorderSteps`, then `Serialize` and `WriteConfig`) holds the array it has
read; one that found no file has `shared` set, and works on `defaultSteps`, the array of
`DEFAULT_PIPELINE_CONFIG` that the process has once. Sorting and filtering an array are
both `Listed`: the elements at some of its positions, in the order of a relation. The dialog is an edit from its
GET to its save; a dialog that is reopened without a reload, and one that is opened
while another save is under way, are two edits that overlap. Temp files of one
millisecond are `JsonFile`'s subject; `getNextStatus` has no caller.

### AgentSession

One session, its messages sent once, directly or by the queue. `Enter` is `sendMessage`
up to its first await, `LookedUp` what follows the lookups of model and images, `Claim`
the setting of the flag and the creation of the controller. `BeginStream` hands over the
controller that the session has by then: `signal` says whose that was. `Saved` and
`Fails` are the ends; only the first schedules `Dispatch`. The conversation, its
file and the list of sessions are left out.

### FileLock

`lock` is the promise in the map, known by its caller. `Acquire` is the call up to
its first await. `Release` is the `finally`: it deletes whatever entry there is and
resolves the promise, after which all who waited for it go on, one after another but
before any file operation ends, each installing its own promise; the last one's stays.
The users are modelled to their reads and writes: `file` is the set of the calls whose
update it has. File operations succeed.

### IssueValidation

`slot` is `validationStatusMap`, `timer` the pending timeouts, `cut` the aborted
validations, `old` those of more than an hour. `QueryEnds` is any end of the query, with a
result to store or without; `ClearStatus` is the `finally`, which clears by issue.
`ReadForView` and `WriteViewed` are the two halves of `markValidationViewed`. The server's
restart, at which the map is empty, is the initial state.

### DevServer

A start goes from the first look at `runningServers` (`StartDevServer`) through the file
checks and the search for a port (`FilesChecked`, `Probe`, `PortProbed`) to its
reservation, the process (`Spawn`) and, half a second later, the entry (`Started`).
`ProcessEnds` may come at any moment after `Spawn`; the killing of whatever listens on
a port is one of its causes. `StopDevServer` forgets the server at once, and its process
lives until it ends. Output, events and the reading of `package.json` are left out, except
that it may fail.

## What is checked

| Run | Instance | Shows | States |
| --- | --- | --- | --- |
| `automode_safety` | 1 feature, 3 runs, 1 pipeline step, every operation, crashes, errors that look like aborts, lost status writes | the registry neither leaks nor dangles nor shows a stopped run (`EntryOwned`); nothing but what `left` records leaves a feature in progress without a run (`NoOrphan`) | 3.8 M |
| `automode_quiet` | *exclusive*: 1 feature, 3 runs, no stop, follow-up or pipeline, everything else; *progress*: 2 features, 2 runs, 1 step, executions, resumes and the deletion of the step, but no crash, move or deletion; fairness | at most one run works on a feature (`AtMostOneRun`); entries are released and the resumer finishes its list (`ProgressNothingStuck`) | 301 k |
| `automode_stop_restart` | 1 feature, 3 runs; execute and stop | *violated*: `NoDuplicateExecution` | |
| `approval_safety` | 2 runs, 2 requests, 2 versions, everything | what is pending waits, no timer outlives its promise (`ApprovalsConsistent`), approvals are for the shown plan (`ApprovedAsShown`) | 1.1 M |
| `approval_eternal` | 2 runs, stops, no answers; fairness | *violated*: `NoEternalWait` | |
| `auto_loop` | 2 features, with and without a dependency, 2 loops, limit 1, threshold 2; or approvals without stops, with answers written before the next plan is saved; fairness | `CapacityBound`, `StopsWhenFailing`, `DependenciesDone`, `LoopsEnd`, `WorkIsTakenUp`; every wait for an approval ends (`TimelyWaitsEnd`) | 597 k |
| `board` | 2 features, limits 1 and 2, 2 checks, 2 loads, 1 failure; each condition by itself; fairness | the limit, for all runs that the board does not overlook (`WithinLimit`), no slot is lost (`PendingCleared`), all is done (`EverythingDone`) | 257 k |
| `resolver` | every graph of 3 features with one missing id, 2 priorities | `DependenciesFirst`, `MostUrgentFirst`, what is left over is what cycles block and each is reported (`LeftOverExplained`), `Terminates` | 1.1 M |
| `json` | *serial*: 1 updater at a time beside a reader, 2 updates, 1 backup, 2 stamps that may be equal, all faults but damage from outside; *concurrent*: 2 callers, 2 updates, 1 backup, 2 stamps, all faults, stamps differ; *damaged*: 1 caller, 4 updates, 3 backups, damage from outside; *backlog*: 3 features, 1 new one, 3 changes that name any ids, 2 dependencies at first, 1 if the user edits; *pipeline*: 2 projects, 2 edits, 2 old steps | whole documents and the refinement of `SharedRecord` until a recovery (`MainComplete`, `ImplementsRecord`), acknowledged updates but for those that a recovery takes back (`NoUpdateLost`); `ConcurrentWritesKeepWhole`; `DamagedBackupsTrail`; `OneDeletionClean`; `StepsStay`, `DeletionKeepsOrder` | 1.8 M |
| `pipeline_default` | 2 projects, 2 edits one after the other | *violated*: `EmptyWithoutFile` | |
| `services` | a session of 3 messages and 7 kinds of traffic; 4 callers, up to 3 at once; 3 validations of an issue; 3 starts of servers, 2 worktrees, 2 ports; fairness | `RunningOwned`, `OneAtATime`, `QueueDrains`; `PairExclusive`, `WaitersEnter`; `SlotHeld`, `SlotFreed`; `ServersAccounted`, `OneServerEach` | 287 k |
| `file_lock` | 3 callers at once | *violated*: `Exclusive` | |

Runs that check several modules or several uses of one (`automode_quiet`, `auto_loop`,
`json`, `services`) choose one for each behaviour in a variable that never changes; the
others stay in their initial state. The `TypeOK` of every module
is a theorem; those of `PlanApproval`, `DependencyResolver` and `AutoLoop` are in no run.

**Why these bounds.** What goes wrong in the registry goes wrong between runs of
one feature: one that winds down, its successor, and a third; hence 3 runs and
one feature, and two features where one could be confused with the other or has
to wait for it in the list of the resumer. One pipeline step is enough for every
branch of the resume (present, deleted, none left). An approval needs an old registration, a
new one and a request that holds each; two versions are needed for an answer to
be late. Two callers are enough to interleave recovery, rotation and writing, and two updates
to lose one. One backup is the least that can be rotated away under a recovery; of the
damaged file there are more updates than backups, so that the last one falls out.
`MaxStamp` bounds the number of writes where stamps must differ; it is the number of
updates, or one more where a write that failed is to be made again.
Three features and a missing id have every shape of cycle that the search treats
differently: a self loop, a two-cycle, a three-cycle, features hanging on them
from either side. Two loops are the least that overlap, a limit of 1 the
tightest, a threshold of 2 the least that is not every failure. On the board
two features have one that runs and one that waits for its slot; two reloads and two
checks (one of them cleaned up) overlap; the conditions are checked one at a time, since
one failure or switch is enough to tell what it costs. A plan of three changes can delete,
link and link again; two edits are the least that share a default or an array, an order of
1 the least that puts a step in front of another. Three messages are one that runs, one
that is queued and one that comes in between; a third caller of the lock is the one
that shows that two wake together; three validations are one that was stopped, its
successor and one let in by the first's cleanup. Three starts on two ports meet the
end of the ports, two of them in one worktree. Where there is a theorem, it holds for all
values.

**Symmetry** is used for runs and requests in `automode_safety` and `approval_safety`,
and for the callers and updates of a file in `json`: the modules compare them only for
equality, and these runs check safety only.

**Deadlock.** `resolver`, `json`, `services`, `board`, `file_lock` and `pipeline_default`
are checked without the check for deadlock: the function returns, and the updates,
changes, messages, starts and features of the instance are used up. All other runs
check it.

**Fairness.** `AutoMode`: weak fairness of each run's continuations, as the event
loop drops none, and the assumption that agents' streams end; strong fairness
of the resumer's turns, since in the model a turn needs a free element of
`Run`, which users' runs may take again and again, and in the code it needs
nothing. `PlanApproval`: weak fairness of continuations, file writes and timers;
streams need not end, users need not answer. `AutoLoop`: weak fairness of each
loop's turns and reads (sleeps end, files are read); nothing is assumed of agents
and users. `BoardAutoMode`: the interval fires, requests are answered, events arrive, and
runs go on to their end. `AgentSession`: scheduled callbacks run, files are read and
written, and streams end. `FileLock`: file operations end. `IssueValidation`: timers fire,
the hourly cleanup runs, time passes and files are written; a provider ends what was
aborted, unless it is deaf, and is otherwise assumed to do nothing.
`DependencyResolver`: the function runs. `JsonFile`, `BacklogApply`, `PipelineConfig`
and `DevServer` have safety properties only.

## What the code does not keep

Four runs show disagreements with what the repository says of itself:

1. `automode_stop_restart`: `stopFeature` removes the entry at once "to allow
   resume", the stopped run winds down, and its `finally` (838) deletes the entry
   by feature id, by then that of its successor. A third run is let in beside the
   second. The test "should prevent duplicate feature execution" expects the
   opposite.
2. `approval_eternal`: a run that is stopped while its plan is being saved still
   registers its approval; a second run registers over it. The first run's timer
   (1909) finds the second's registration, deletes it and rejects its own promise;
   the second's timer then finds nothing and rejects nothing. That run waits for
   ever, against the comment "Times out after 30 minutes to prevent indefinite
   memory retention".
3. `file_lock`: of three callers of `withFileLock`, two wait for the promise of the first.
   Both wake when it is resolved, neither looks again, and both are inside, against
   "In-memory locks to prevent race conditions when updating files"; their updates of the
   usage counters overwrite each other.
4. `pipeline_default`: a project without `pipeline.json` gets
   `DEFAULT_PIPELINE_CONFIG` itself, and `addStep` pushes into its array. From then on every
   project without a file has that step, against "empty steps array if no config
   exists".

What the checked properties are stated around, and the history variables record:

- A feature stays `in_progress`, with no run on it, after an error that speaks of an abort
  (`error-handler.ts:20-22`, `auto-mode-service.ts:781-791`), after a last status whose write
  failed and was swallowed (2336) or was overwritten by another writer of the file, after the
  board's mark when its request for a run fails, after a restart of a pipeline that
  `executeFeature` refuses, after a follow-up that fails, and after a crash until
  the board asks for a resumption. `NoOrphan` says that nothing else does this.
- A read of an intact `feature.json` that fails, for want of file handles or permissions,
  is treated as damage (`atomic-writer.ts:286`): the recovery puts an old temp file (315) or
  a backup (344) over the good file, and updates that were acknowledged are lost, with one
  update at a time. It may also tear the file, if the server crashes during the copy.
  `MainComplete`, `NoUpdateLost` and `ImplementsRecord` say that nothing but a recovery
  does.

Stated in the modules, not part of a run, and refuted by TLC when listed in a
configuration:

- `AutoMode!StopSticks`: a run that hands over to `resumeFeature` (539) is not
  registered for a while; one that was stopped before the hand-over starts again
  with a fresh abort signal.
- `AutoMode!ResumesOnlyInterrupted`: the list of `resumeInterruptedFeatures` is made
  once, and a feature that was finished meanwhile is run again.
- `PlanApproval!StoppedNeverWaits`: a stop during the saving of a plan cancels nothing.
- `PlanApproval!ApprovalImplemented`: the recovery marks the plan approved and swallows
  the "already running" of the start in the background (2001).
- `AutoLoop!LimitKept`: the hand-over frees the entry while the loop looks for more, and
  overlapping loops each pass the check; it holds with one loop, no contexts and no
  manual runs. `AutoLoop!NoStarvation`: the first ready feature is taken up again each
  time.
- `BoardAutoMode!NothingRunsAgain`, under every condition: a reload that was answered
  before the status of a feature was stored shows it in the backlog, and it is started
  again after its end. `BoardAutoMode!LimitKept`, "Maximum number of concurrent agent tasks"
  (app-store.ts:658), under every condition: the end of a run that is still on its way takes
  its successor, which was entered since, out of the count, and a resumed run is not in it
  until its start arrives. What `WithinLimit` says is that nothing else goes wrong with the
  count. The properties that are checked name the conditions under which
  they hold, and fail under the others: `WithinLimit` with switches of auto
  mode (which forget what is pending); `PendingCleared` and `EverythingDone` with late answers; `EverythingDone` also with
  failures and switches.
- `DependencyResolver!AllReportsAreCycles`: after the first cycle, `recursionStack` and
  `currentPath` are left as they are, and a later report may be no cycle (dependencies
  `<<{1}, {1}, {1}>>`).
- `JsonFile!TempIsNewest`: the recovery prefers any temp file, also one that a crash
  left behind long ago, to the newest backup.
- `JsonFile!NoUpdateLost` with `Serial = FALSE`: two concurrent updates lose one.
  `JsonFile!MainComplete` with `Distinct = FALSE` and `Serial = FALSE`: two writes of
  one millisecond share a temp file, and a torn one is renamed. `RestoreBackup` may
  copy a backup that a rotation has replaced by a torn one since it was read; it is
  therefore not among the steps of `WritesKeepWhole`.
- `BacklogApply!NoDangling`: the dependencies of a change are written as they are (93, 113,
  132-138), also those on features that are deleted or never were, although the features are
  loaded "for dependency validation" (43). The second deletion of a plan writes back the
  dependencies of a feature as they were loaded, with one on the feature deleted first; so
  does a link to a feature that depended on a deleted one. `BacklogApply!DeletionsDone`: a feature whose
  dependent has been deleted before it is not deleted, since the update of the dependent
  throws.
- `PipelineConfig!DeletionAlwaysKeepsOrder`: a deletion numbers the steps as the array
  stands, which after an update of an order is not as they run. `StepsStay` fails with edits
  that overlap, which lose one another, and with files that cannot be read, which are
  taken for missing and overwritten.
- `AgentSession!StopEnds`, `AgentSession!Stoppable`: a run that is stopped while it reads its
  context gets no controller, or that of the message sent after the stop, and goes on.
  `OneAtATime` fails with messages that have something to be looked up, with stops and
  with clears.
- `IssueValidation!ClearsOwn`: the `finally` of a stopped validation clears the slot of its
  successor. `IssueValidation!NewestResultStays`: marking a result as viewed writes the old
  one over a new one.
- `DevServer!EntryKept`: the second of two overlapping starts of a worktree replaces the
  first, whose process goes on unlisted; the late exit of a stopped server removes the
  entry of its successor. `OneServerEach` fails with either.

Differences between documents and code met on the way: the resolver's README calls
missing dependencies satisfied, `areDependenciesSatisfied` (resolver.ts:203) does not, and
`getBlockingDependencies` does; it also says that priority defaults to the lowest, which
is 2 in the code, and names functions that do not exist (`hasCycle`).
`updateFeaturePlanSpec` compares the content with itself after assigning it (2378-2382),
so it never counts a version up.

## What is proved

The theorems listed in `PROJECT.json`, for every value of the constants under the named
assumptions of the modules, with no further axiom. Every invariant and every action
property that a passing run checks is one of them. Each goes by an inductive invariant
whose parts are named in the proof module; TLC has checked those of the larger proofs
before they were proved.

- **AutoModeProofs.** `TypeCorrect`. `EntriesOwned`: `EntryOwned` says of each entry that
  it is a run's of that feature, that the run was not stopped and that its cleanup is
  still to come, and is inductive with the types (`EntryInv`): a stop removes the entry of
  exactly the run that it marks, and an ending run removes whatever entry its feature has.
  `OverwritesUnchecked`, an action property, from the same invariant.
  `MutualExclusion`: if no stop, follow-up or pipeline step is there (`Undisturbed`), then
  every registered run has its feature's entry (`RegisteredHasEntry`), so two runs of one
  feature are one. The assumption is needed: finding 1 is what happens without it.
  `NeverOrphaned`, for all operations and faults: a feature in progress that is not in `left`
  has a run at one of the awaits between its mark and its last status (`Attended`). A run
  leaves these awaits only by a last status, by an end that `Leave` records or by a crash,
  and every mark that is not made by such a run is recorded as well; no other action touches
  either side.
- **PlanApprovalProofs.** `TypeCorrect`; `ApprovalsStayConsistent`: that what is pending
  waits and that timers are of open promises is inductive only together (`WaitInv`): a timer
  that outlived its wait could remove the registration
  of another. `ApprovalsAreForTheShownPlan` follows from the types and the effect of
  `Settle`: it touches only an open promise of that very version.
- **JsonFileProofs.** `TypeCorrect`, under all faults. Three theorems speak of what holds
  but for recoveries, through crashes and failing reads, writes, renames and copies.
  `WritesAreAtomic`: `MainComplete` if stamps differ or updates do not overlap and outsiders
  leave the file alone (no `"corrupt"`), from `FileInv`, which says what each caller's temp
  file holds while it is open. `FileImplementsRecord`: with `Serial` and no `"corrupt"` the
  file refines `SharedRecord`, the rename being where the update happens; `RecordInv` adds
  that until a recovery a writer's document is the file's with its own update.
  `SerialUpdatesStay`, with `Serial` and whatever else may go wrong: the file, if it is
  whole, and the document that an updater is about to write lack only acknowledged updates
  that are in `undone` (`UndoneInv`, `Carries`). The other two are for files that outsiders
  damage. `RenamesKeepWhole`: with stamps that differ and any faults,
  only a whole temp file is ever renamed (`TempInv`: no two callers hold one temp file, and
  one that is about to be renamed is not torn). `BackupsAlwaysTrail`: with one
  caller, two backups or more, no crash, no read that fails and no failure that the code
  ignores, the last backup lacks one
  completed update at most, and none once the file is damaged; in the middle of a rotation
  the last backup is the second (`TrailInv`).
- **HandlersProofs**, about `BacklogApply`, `PipelineConfig` and the copies of `JsonFile` in
  `MCJsonFile`. `OneDeletionStaysClean` from `OneDeletion`, whatever ids the plan names:
  until the deletion the board is as it was loaded, after it what the handler knows of a
  feature is stale by a dependency on the deleted feature at most, or by ones that the plan
  has written itself (`named`), and links come last. `StepsAlwaysStay` and
  `DeletionOrderKept` from `PInv`: an edit's array has what its write must leave, and is
  tidy (each order the position) unless somebody sets orders; the lemmas before it say what
  sorting, filtering, numbering and reordering make of an array of any length.
  `ConcurrentRenamesKeepWhole` and `DamagedBackupsAlwaysTrail` are the two theorems of
  `JsonFileProofs`, instantiated for the copies; `UsageTypeCorrect` is about the whole composition.
- **DependencyResolverProofs.** `TypeCorrect`; `OrderRespectsDependencies`, from
  `KahnInv`: `inDegree` counts the known dependencies not yet ordered, the queue holds
  exactly the unordered features whose count is zero, and what is left over is blocked.
  `LeftOverBlocked`: every feature left over waits for one that is left over too.
  `UrgentAlwaysFirst`: whatever could have been taken instead of a feature is not more
  urgent (`Urgent`), and nothing is ordered twice (`Unique`). `LeftOverAlwaysExplained`: in a
  finite set of features that all wait for others of the set, one that leads to a smallest
  part of it is led back to (`SmallestSet`, by the well-foundedness of strict inclusion,
  which needs no induction over data); and the search
  finds a cycle. Until it does, the path follows dependencies and what has been left again
  depends on finished features only, no set of which is without a first (`SearchInv`).
- **AutoLoopProofs.** `TypeCorrect`; `ConcurrencyIsBounded` by counting (lemma `Counts`
  says how a step changes the two sets that are counted, `ByLoop` and `Loading`);
  `StopIsEffective` (`FewLateStarts`, which no run checks); `FailuresStopTheLoop`;
  `DependenciesComeFirst` from the invariant `Known`, that what
  is verified on disk, or was read as verified, has been finished: statuses only
  become stale in the safe direction.
- **BoardServicesProofs**, the four services.
  Sessions: `FlagAlwaysOwned`: `RunningOwned` is
  inductive with the types under all traffic, since a run leaves `Running` only in a
  `Reset`, and a stop or a clear takes the flag back. `OneRunAtATime`: without stops, clears
  and lookups every run under way is the controller's (`RunsClaimed`).
  Locks: `PairAlwaysExclusive`, for any number of calls of
  which at most two are under way: `Paired` says that who is inside has the entry, that who
  waits, waits for that one, and that whoever increments has read all there is; with no more
  than two inside (`Crowded`, by counting) only one is woken.
  Validations: `SlotAlwaysHeld`, from `Held`, which
  adds that without deaf providers nothing grows old, so that the cleanup finds nothing.
  Servers: `ServersAlwaysAccounted`, from `Accounted`: a listed server is alive since it is
  listed under its own worktree, where the end of its process finds it. `OneServerAlways`,
  from `OneByOne`: one start is under way, the port it found is still free, and no two
  starts hold one port. `ServicesTypeCorrect` is about all four together.
- **BoardServicesProofs**, the board. `LimitKeptAsSeen`, for any number of features, checks and
  reloads: each run that is not overlooked is a task, or pending, or its request is just
  being answered, and no end that would take it out of the count is on its way (`Counted`);
  and these runs, with what the check under way has still to ask for, fit into the
  limit (`Fits`).

Only model-checked: all liveness (`ProgressNothingStuck`, `TimelyWaitsEnd`,
`LoopsEnd`, `WorkIsTakenUp`, `Terminates`, `QueueDrains`, `WaitersEnter`, `SlotFreed`,
`PendingCleared`, `EverythingDone`), which the prover does not reach. The four runs that
show violations are counterexamples and have nothing to prove.


## Plan

Done: the twelve modules above, in the order in which they matter, and the theorems for
everything but liveness. What is left, in order:

1. Proofs: the steps that liveness needs and that are safety: that a run under way is never
   without a next step (`AutoMode`), that a caller who waits has one to wait for
   (`FileLock`), that a pending feature has a run whose events are to come
   (`BoardAutoMode`).
2. The rest of the resolver: `getAncestors`, `wouldCreateCircularDependency` and
   `getBlockingDependencies` as operators, compared with reachability.
3. `Throttle` (`secure-fs.ts`): the limiter and its retries.
4. Starts and stops by hand on the board, beside its auto mode; and the deletion of a
   pipeline step under a feature in one, with `PipelineConfig` and `AutoMode` composed.
