# Vykor / openharness-ts: a TLA+ model of the agent daemon

The repository is a TypeScript monorepo for a coding agent: a daemon
(`packages/server`) owns durable sessions and their runs, an embedded agent
framework (`packages/agent-runtime`, `packages/core`) executes them against a
model and tools, and a CLI, desktop and web front ends, chat channels and
scheduled tasks talk to the daemon over HTTP and SSE. Nearly all of its
difficulty is in the daemon: many callers act on one session while a run is in
flight, every `await` lets the others in, and what a caller was told has to agree
with what the run did.

This directory models that concurrency core in TLA+, checks it with TLC and
proves the main invariants with TLAPS.

    tlc  -workers 2 -config RunLane.cfg MCRunLane.tla      # any run below
    tlapm RunLaneProofs.tla                                # any proof module

## 1. Inventory

Paths are relative to `src/packages/server/src` unless they start with
`packages/`.

### Execution of a session

| component | state it keeps | operations | correct when |
|---|---|---|---|
| **Run lane**, `runtime/run-coordinator.ts` | per session an active task, a queue of tasks, per task: abort signal, handle, pending steers, unsettled steer requests, control chain | enqueue, steer, promoteQueuedRun, interrupt, interruptRun, interruptQueuedRun; reactions: chain of steers, settling of a finished task, restoring a refused promotion | one task runs at a time; no task is lost or duplicated; every steer is settled, once and truthfully; an interrupted queue never starts |
| **Framework run**, `packages/agent-runtime/src/framework-agent-run.ts`, `packages/core/src/engine/query-engine.ts` | accepting flag, steered inputs, receipts | steer, takeSteeredInputs, closeSteering, interrupt, terminal rejection of what was not taken | an input is accepted durably before its receipt resolves; at the end no receipt is open |
| **Run executor**, `application/session/session-run-executor.ts`, `run-stall-watchdog.ts` | durable run status, watchdog | acquire agent, submit, register handle, settle the run, post-run maintenance | work returns whatever the run did; the durable status is terminal |
| **Agent pool**, `application/agent/agent-pool.ts` | warm agent per session, closing and stale flags | acquire, warm, close, invalidate | one live agent per session, loaded from what is in the store, not closed under a run by others than its user |
| **Permission broker**, `permissions/*` | durable requests, waiters | ask, reply, expire | each request resolves once, the waiter hears what was stored |
| **Child agents**, `packages/agent-runtime/src/child-agent.ts` | a record per child, its agent, lease and runs | spawn, send, suspend, close; abort of the parent's run | a child that is closed stays closed and leaves nothing behind; children end with an aborted parent |
| **Workflow runner**, `packages/coordinator/src/workflow/*`, `packages/tools/src/agent/workflow/*`, `application/session/workflow-recovery.ts` | results, running and ready tasks of a plan, its snapshot in the store, a stop reason | run, retry, time out, cancel, resume, recover | a task starts when it is due, once; writers of the same files do not meet; the stored outcome is what happened; the workflow ends |

### Admission, control and shutdown

| component | state it keeps | operations | correct when |
|---|---|---|---|
| **Operation gate**, `application/control/daemon-operation-gate.ts` | phase, shared leases, barriers, drain waiters | enter, tryEnterBarrier, release, beginShutdown, markClosed | leases and barriers exclude each other; shutdown waits for both |
| **Daemon control**, `application/control/daemon-control-service.ts`, `application/daemon-application.ts` | ready state, close promise | global and cwd maintenance, shutdown, close | maintenance meets no run; after shutdown nothing runs |
| **Session operation runner**, `application/session/session-operation-runner.ts` | one promise chain per session | run | commands of a session work one after the other, each is answered |
| **Run admission / run control**, `run-admission-service.ts`, `run-control-service.ts`, `session-run-engine.ts` | durable inputs and runs, pending admissions | admitPrompt, recoverRejectedSteer, terminalizeUndeliveredSteer, interrupt*, promoteQueuedRun, stopAndDrain | a durable input gets exactly one owning run |
| **Goals**, `session-goal-service.ts` | goal revisions, continuations, wait timers | settleRun, observeExternalWait, cancel | at most one continuation per finished run; none outside the gate |
| **Archive, delete, compact, rewind**, `session-command-service.ts`, `session-maintenance-service.ts` | barriers, closing sessions | | the session is idle while its history is rewritten |
| **Scheduled tasks**, `daemon/scheduled-task-service.ts`, `application/schedule/scheduled-task-executor.ts` | timers, active executions, requests that wait for them; tasks and execution records in the store | create, update, remove, trigger, a timer, execute, shutdown, restart | an occurrence runs once; an active task is never forgotten; nothing unwanted starts; callers are answered |
| **Startup recovery**, `application/recovery/*` | | interrupt active runs, terminalise unowned inputs, expire permissions | nothing stays pending after a crash |
| **Projection**, `application/agent/daemon-agent-event-projector.ts`, `projection-settlement-recovery.ts` | durable sessions, runs and tasks of children, pending settlements | apply, reconcile, settle, recover | no event overtakes a settlement; a child that is gone is gone in the store too |

### Around the daemon

Channels (`packages/channels`, `daemon/channel-runtime-service.ts`), client state
(`packages/client`), terminals, file locks (`packages/services/src/autodream`,
`packages/swarm`), MCP, the store (`packages/services`) and the front ends. They
use the core above and are listed in `PROJECT.json` with the reason why they are
not modelled yet.

### How the parts interact

    HTTP route --> SessionOperationRunner --(shared lease)--> OperationGate <--(barriers)-- maintenance, archive
                        |                                          ^  waits for leases
                        v                                          |
                   RunAdmission / RunControl             DaemonControlService.shutdown
                        |  enqueue, steer, promote, interrupt      |  stopAndDrain
                        v                                          v
                   SessionRunCoordinator (lane) <------------------+
                        |  work(signal, registerHandle)      goal timers --> enqueue (no lease)
                        v
                   SessionRunExecutor --> AgentPool --> FrameworkAgentRun
                                                          |  permission? --> PermissionBroker --> a person

The code is one JavaScript process. What interleaves is *tasks* of the event loop
(an HTTP request, a timer, an event of the provider) and, between two of them, the
*promise reactions* that the first one made due. Nothing is preempted, yet every
`await` is a point where all others may act. What is hard:

* a steer resolves through three promises (receipt, request, delivery) in the
  order in which their reactions run, and an interrupt, a terminal run or a
  failed acceptance may come in between;
* a promoted task is out of the queue while its input is being steered, and
  must come back if that fails, into a lane that may have moved on;
* an interrupt has to settle what is open without un-settling what is done;
* leases, barriers, runs and shutdown wait for one another;
* timers and crash recovery act without the caller who started the work.

## 2. Plan

| step | module | status |
|---|---|---|
| 1 | `RunLane`: the lane and the steering half of a framework run | done |
| 2 | `OperationGate`: leases, barriers, shutdown, goal timers | done |
| 3 | `SessionCommands`: command lane, permissions and shutdown composed; refines `OperationGate` | done |
| 4 | `AgentPool`: warm agents, closing and stale entries, everyone who uses them | done |
| 5 | proofs about 1, 2 and 4: `OperationGateProofs`, `RunLaneProofs`, `AgentPoolProofs` | done |
| 6 | `PromptLife`: durable inputs, runs and permission requests of a session, archive, crashes and startup recovery | done |
| 7 | `ChildTree`: the children of an agent, composed with the projection of their events and its settlements | done |
| 8 | `SessionCommandsProofs`: `SteersWorkAlone` and the refinement of `OperationGate` | done |
| 9 | `WorkflowRun`: the scheduler of a plan, its snapshots, cancellation, crashes and resumption | done |
| 10 | proofs about 6: `PromptLifeProofs` | done |
| 11 | `ScheduledTasks` and `ScheduledTasksProofs`: timers, overlapping requests, missed occurrences, crashes | done |
| 12 | proofs about 9: `WorkflowRunProofs` | done |
| 13 | proofs about 7: `ChildTreeProofs` | done |
| 14 | the lane with serialised commands: `QueueOrder`, `SteeredOnce`, `StoppedNeverStart`, in `RunLaneProofs` | done |
| 15 | `SessionGoals`: revisions, budgets, waits | next |
| 16 | channel bridge, client reducer, file locks | as far as the budget goes |

The abstract specification stated so far is `OperationGate`, which
`SessionCommands` refines, checked and proved. `PromptLife`, `ChildTree` and
`ScheduledTasks` state what they promise about the store ("a prompt reaches the model
once", "a child that is gone is recorded", "a record is open as long as its
execution") as invariants over memory and store together, because what the code
promises there is a relation between the two that a crash may break and recovery
must restore.

## 3. The modules

### RunLane

One session lane. An input owns at most one run, so inputs name tasks, steer
requests and replacement runs alike.

| variable | code |
|---|---|
| `active`, `queue` | `lane.active`, `lane.queue` |
| `phase[i]` | where the task of `i` is: `unborn`; `queued`; `promoted` (spliced out by `promoteQueuedRun`); `starting` (work called, no handle), `live` (handle registered), `settling` and `recovering` (after work has returned); `resolved`, `rejected` |
| `home[i]` | `queuedIndex`, kept by the reaction of a promotion |
| `aborted` | tasks whose `AbortController` has fired |
| `pend` | `pendingSteers`; from `recovering` on the list `recoverUndeliveredSteers` walks through |
| `chain`, `head`, `broken` | requests flushed into `controlChain`, how far the first of them has got (`idle`, `steered` into the framework run, `taken` by a turn boundary, `refused`), whether a link has thrown |
| `fw` | the framework run of the active task: `none`, `open`, `closed` for input, `over` |
| `result[i]` | the delivery promise of the steer or promotion of `i` |
| `accepted` | inputs with a durable `input.accepted` event |
| `born`, `stopped` | history for two properties |

*Atomicity.* A synchronous piece of code between two awaits is one action. A
promise reaction is an action of its own; `Reacting` holds while one is due, and
tasks of the event loop (commands, framework steps, the return of work) wait for
`~Reacting`. The order among due reactions is left open where the code does not
fix it by counting microtasks: in particular the reaction of a promotion and the
finally block of the task it was steered into run in either order. Goal
continuations enqueue outside the command lane, from a reaction that comes
several microtasks after the task has resolved and so after any restore that its
settling made due; that is why `Enqueue` waits for `~Reacting` as well.

*`Serialized`.* `SessionOperationRunner` holds the lane of the session until a
steer or a promotion has been delivered. `Serialized = TRUE` gives the
coordinator that environment, `FALSE` lets commands overlap freely. What the
coordinator guarantees by itself is proved for both (the run has `TRUE`). `SteeredOnce`
and `StoppedNeverStart` need the discipline, and so does `QueueOrder` once there are
four inputs: of two promotions in flight that an interrupt refuses together, the later
task may be put back before the earlier one, because each remembers an index into the
queue as it was. All three are proved from `Serialized`, and the discipline itself is
`SessionCommands!SteersWorkAlone`, which is proved too. One path is outside the
discipline: when the settlement of a goal throws, its `catch` cancels the goal's runs
(`session-goal-service.ts:393`) beside whatever command is at work. What the lane
guarantees with `Serialized = FALSE` covers that; the three properties do not, and in
`PromptLife` a goal's cancellation acts between the steps of a command.

*What is abstracted.* Run ids, messages, reasons and traces; the model's turn,
reduced to closing for input, taking a steered input, ending; an input is
promoted again only when the chain no longer holds its earlier request (they
would have the same name). `AcceptFails` stands for a projection that fails
before the `input.accepted` event is durable. `WorkThrows` is the path where
work itself rejects (a store error), which cannot happen while its framework run
is still open because the executor awaits it.

### OperationGate

`DaemonOperationGate` with three kinds of users: operations that hold a shared
lease and may start a run (`RunStarts`), maintenance that holds a barrier, and
`DaemonControlService.shutdown`. `busy` is the idle predicate of the callers.
`Covers` and `BarriersConflict` are the code's two conflict functions.
`GoalWaitEnds` is the timer of `SessionGoalService.observeExternalWait`, the one
path to a run without a lease; `timed` remembers the sessions that have such work,
so that what the gate promises can be stated beside it, and `GoalWaits = {}` turns
the timers off. `CollectedRunsEnd`: the runs shutdown waits for have ended while
one that a timer queued behind them goes on.

### SessionCommands

One session between the routes and its lane: `SessionOperationRunner.run` (line,
readiness, lease, work, release), what a prompt, a steer (also a promotion) and an
interrupt do to the lane, a run that may stop at a permission request, and
`close` / `shutdown` to the end. Goal timers do not go through the command lane and
are not in this module: `NothingStartsAfterStop` speaks of commands. What a timer may
still start is in `OperationGate` (`ClosedMeansIdle`) and `PromptLife` (`QuietAtRest`).
The lane is kept as coarse as the questions
asked here allow: an active run, a number of queued ones, whether it has been
aborted. `Gate == INSTANCE OperationGate WITH ...` maps a command with a lease to
a shared lease and an active run to a busy session; `ImplementsGate` says that
every step here is a step of the gate or a stutter.

### AgentPool

The pool entry of one session and its users. A generation is an entry with its
agent; `closing`, `stale` and `agent[g]` are the entry's `state`, `stale` and the
agent's `lifecycleState`. `at[c]` says how far a caller has come: the executor
(`holds` between `acquireSession` and `submitMessage`, `works`, `after`,
`settles`), readers, an edit of the latest prompt, maintenance, archive. Callers
that a settled promise resumes go on before anything else (`Due`). `acquire` is
four actions, one for each way through it; `Close` is the synchronous half of
`close`, `AgentClosed` and `LoadFails` settle its promise. When a generation is
released, those who wait for it are marked at once and its id is free again, so
the model needs no bound on how often agents come and go.

`Maintain` stands for everything that replaces durable state under a barrier and
closes the agent in the same synchronous piece of code (rewind, configuration of
the session, plugins, settings). `ReplacePrompt` shows what the order of an edit
does: the agent is closed first, awaited, and the transcript replaced later.
`early` and `dropped` are history. Live children of an agent, `closeAll` at
shutdown and the compaction of an agent's own history are not modelled.

### PromptLife

What the daemon writes about the prompts of one session, beside what it holds in
memory only, and what is left when it dies in between. An input owns at most one
run, so a run is named by its input.

| variable | code |
|---|---|
| `session` | `session.status`: open, closing, archived |
| `delivery[i]`, `status[i]` | the durable input and the run it owns; `completed` and `failed` are one value, `finished` |
| `bound[i]`, `promo[i]` | the run whose transcript holds the input (`input.accepted`), `metadata.promotion` of a promoted run |
| `request`, `allowed` | the permission request that is pending, or the last of the active run; an approval for the whole session |
| `boot`, `stops` | the steps of `StartupRecoveryService.run`, at work (`up`), from `stopAndDrain` to the end of `closeWork` (`stopping`), the store closed (`stopped`); how often the daemon has stopped |
| `collected` | the runs that `stopAndDrain` waits for: those it found in the lane |
| `active`, `stage`, `aborted`, `queued` | the lane and how far the active run is |
| `call` | the steer or promotion in flight, or the archive, with the delivery it waits for |
| `taking` | an input between the turn boundary and the store |
| `told`, `given` | what the waiting tool was told; how often an input went to the model (history) |

Every action is one synchronous piece or one transaction of the store; a crash may
come between any two. `RunLane` has the order of the queue and the promises of a
steer; here the queue is a set and the fate of a delivery is one variable. The
session has at most one command in flight (`Command`), which is what
`SessionCommands!SteersWorkAlone` checks; an archive holds its barrier instead.
`ContinueGoal` and `CancelGoal` come from settlements and timers and act between
the steps of a command, and while the daemon closes too: nothing ever clears
`RunAdmissionService.accepting`. So `Stopped` waits for the `collected` runs only, and
whatever a goal has put into the lane since is cut off when the store is closed.
`QuietAtRest` says how far that goes: an archived session has no open run; a daemon that
has been closed leaves none open but goal runs that came after the collection, and a
pending permission request belongs to one of those. `ComesToRest` adds that the next
start ends them. A request is followed only while its run lives.

Three consequences of the code show up. A steer is stored before its skill is put
into words, outside every `try`; when that throws (`MaterializeFails`), the stored
input belongs to no run until the caller retries it or the daemon starts again, and
in a session that is archived before, for ever. `QuietAtRest` therefore speaks of
runs and requests, not of inputs. A goal's cancellation may
reject a delivery whose input has been taken by a turn boundary already: the
caller is told "rejected" and the acceptance still comes; `terminalizeUndeliveredSteer`
looks whether the input has been bound before it gives it a terminal run, and
`OneExecution` holds. And an input accepted by a run that is already aborted is
in its transcript without having been acted on, which is the exception that
`PromotionsSettle` names. `resumeRun`, failures of the store and the replacement
of a prompt (`AgentPool`) are not modelled.

### ChildTree

The children of one root agent. The framework half is `AgentChildManager`: `rec`
is the state of a child's record, `act[c]` says where each asynchronous procedure
of the child stands (spawn, a follow-up input, suspension, its run, the close and
clean-up), `agent` and `lease` are its agent and environment lease, `active` the
budget. The daemon half is `DaemonAgentEventProjector` and its settlements: `step`
is where the projector is with the event at the head of the bus, `known` its map of
children, `bound` those of whom it has seen a run (`ChildProjectionState.runId`),
`db` the durable session, task, runs and attempts, `pending` the stored
settlements. `bus` joins the two: `AgentEventBus` delivers one event at a time and
the procedure that has emitted it waits for the answer, so `Answer` makes the teller
go on in the same step.

A projection that fails leaves a prefix of its writes. A fault is counted when the
store, an environment or a new agent fails; a settlement that fails right after
the projection it belongs to is the same fault and is not counted again. `Restart`
loses everything but `db` and `pending`, recovers the settlements with what it
finds in the store, and interrupts what is still open.

What the model made explicit about the code, and the properties take into account:

* while a settlement is pending, an event that arrives behind it is refused and no
  settlement is stored for it; its child may be gone while the store still shows it
  running, until the next start (`unheard`, the exception of `GoneIsRecorded`);
* a `child.resumed` or `child.suspended` that cannot be projected is compensated in
  the context it carries, which is the parent's: the parent's live run is made failed;
* the settlement of a `child.closed` whose task was never created cannot be
  recovered by a later incarnation, and the root's events stay refused behind it;
* a host may send an input while spawn still waits for the agent; whichever begins a
  run second gets an error, and if that is spawn it closes the child;
* the startup recovery of a failed child event makes the parent's run terminal and
  leaves its attempt running, although `docs/daemon-application-architecture.md:478`
  wants none open: `GoneIsRecorded` promises closed attempts without a restart only;
* a child that is closed as failed and of whom no run has been seen gets one
  (`StartsUp`): it is created and ended in one transaction, so it is never open, and
  binding it makes the child's task active before the projection ends it. The task may
  have ended before, by the settlement of a refused `run.started`. It is then active once
  more, for the moment or until the settlement is tried again; `NoOvertake` allows this
  to the pending settlement itself, and since the child is `bound` afterwards it happens
  once.

Left out: the order in which a spawn and an input that wait for the same new agent go
on (here the spawn goes first; in the code the input's `child.resumed` may be ahead of
the spawn's `run.started`, `child-agent.ts:541-552`), steering a child, permission and streamed events, nested children,
failures of `Agent.close` and of a lease's release, `maxTotalChildren` and
`maxDepth`, the map of live children used for routing, and the settlement that is
kept in memory when the store has no table for it.

### WorkflowRun

One persistent workflow, from the start of its scheduler to the verdict in the
store.

| variable | code |
|---|---|
| `plan` | failure policy, limit of tasks at a time, and who hosts it: the daemon, or a standalone agent |
| `run` | the locals of `runWorkflow` (results, `runningTasks`, ready queue, fail-fast), the attempt each task is at, and its `ActiveWorkflowRun`: `stop` is "asked" after a `JobCancel`, "aborted" when the run that started the workflow was interrupted; `heeds` says whether it listens to that run |
| `worker[t, a]` | the worker agent of an attempt: spawning, alive, ended |
| `stored` | the snapshot: status, results, and the worker known of each running task |
| `cancel[c]` | a call of `cancelPersistentWorkflow`: the snapshot it has loaded, the workers left to stop |
| `up`, `crashes` | the process |

A worker ends as completed or failed, or as killed: with an interrupted run, by a
`JobCancel` of its own task, or with the agent that has started it. `Stoppable` bounds
for which tasks the last two are considered: one in the run, any set in the proofs.

*Atomicity.* Between two awaits the scheduler runs to the end: a result, what
follows from it under the failure policy and the start of everything that fits
now are one step (`OnFinished`). Both loops of that step, what a failure skips and what
is started, are one pass along the order of execution (`Sweep`). The snapshots of such a step are written one
after the other, synchronously; only the last is seen unless the process dies
between them (`CrashInFinish`). After a crash the daemon closes what it finds
running, a standalone agent resumes it.

What the model made explicit:

* a hard timeout settles the attempt and leaves its worker alive, so two attempts
  of a task, or two tasks that write the same files, can be at work together;
  `WritersOverlapOnlyAfterTimeout` says that nothing else makes them;
* a `JobCancel` loads the snapshot and awaits before it asks the scheduler to stop;
  results and even a verdict stored meanwhile are overwritten by what it makes of
  the older snapshot, those of another cancellation included. `StoredOnlyGrows` allows
  that and nothing else;
* the loop over the attempts of a task does not ask whether the workflow is to stop,
  so a cancelled workflow may spawn a worker that nobody stops (`CancelRetries`).

Left out: budgets (the tool's runner reports no usage, so none is ever exhausted),
validation and reconciliation of the plan, a second scheduler for a workflow that
has a live one (its claim fails, and `emitSnapshot` swallows the error), cancellation
by another process, and a save that fails: `emitSnapshot` swallows every error of
`store.save` (`workflow/runner.ts:50-68`), so the scheduler goes on with a snapshot that
is out of date, while in the model each save succeeds.

### ScheduledTasks

`ScheduledTaskService`, with as much of its executor, of the chat session that
tasks may report to, and of the daemon's life as it depends on.

| variable | code |
|---|---|
| `policy` | the settings of a task: overlap, missed runs, stop policy (reduced to two limits), where it runs |
| `db[t]`, `row[t]` | the task (`status`, `nextRunAt`, `runCount`, the end of its rule; `detached` is `paused` without a chat) and whether the record of its latest execution is open |
| `now` | the clock |
| `app` | `readyState`, with the service's own `shuttingDown` as `stopped` and a dead process as `down` |
| `timer[t]` | `timers`: the occurrence it is armed for |
| `active[t]`, `waiters[t]` | the entry of `active` with the request it executes and how far it is; the requests that await it |
| `chat` | whose run the chat session is at |
| `call[c]` | a call of `trigger` and who waits for it: a person, the agent of the chat, the agent of a task |
| `began`, `crashes` | history for a property; how often the process has died |

*Atomicity.* `startRun` runs to its first await in one step. `Settles` is the end
of `executeRun`, the `finally` block of `startRun` that arms the timer, and the
requests that have waited: the first of them finds nobody active and the others
find the first, before any other event. `CrashInSettle` is a crash inside it, between the
two writes to the store. `Restart` is the constructor of the service, which runs in the
constructor of the application, before startup recovery.

*What is abstracted.* Time is counted in occurrences: a rule has one at every tick, a
task of a single instant at one. The longest delay of `setTimeout` is left out, because a
timer that wakes before its occurrence arms itself again.

What the model made explicit:

* deleting a session pauses the tasks that report to it in the store
  (`conversation-transactions.ts:739`), and the service hears nothing of it
  (`ChatDeleted`): the timer of such a task stays armed for an occurrence that is not in
  the store any more. `ServiceConsistent` says that this is the only way to have a timer
  without an active task, and `UnwantedNeverStarts` that it starts nothing, because the
  callback reads the task again. A task without its chat can be changed only together
  with a new one, which installs it anew;
* an agent may trigger the task it is executing, or one that reports to its own chat:
  with overlap `queue` it waits for itself, and only the deadline of its tool ends
  that (`ToolTimesOut`, without which `Progress` fails);
* the record of an execution ends before `finishTask` stores the next occurrence; a
  crash in between repeats the occurrence if missed runs are made up, the exception
  of `OccurrencesRunOnce`;
* a missed run is armed at once, while startup recovery is still at work; its prompt
  is then refused and the run counts as executed (`MissedRuns`).

Left out: worktrees, the arithmetic of recurrence rules, `expiresAt`, and failures of
the store.

## 4. Runs

`AgentPool` is checked for deadlock. The other runs are not: inputs, leases,
commands, children and crashes are finite, and when all have been used the system
is at rest.

| run | checks | bounds | distinct states |
|---|---|---|---|
| `RunLane` | `LaneConsistent`, `VerdictIsTrue`, `QueueOrder`, `SteeredOnce`, `StoppedNeverStart`, `LaneSettles` | 3 inputs, serialised, fair | 53 584 |
| `OperationGate` | `LeasesExclude`, `BarrierKeepsIdle`, `ClosedMeansIdle` | 3 sessions, 2 directories, 3 leases, 2 goal timers | 35 833 |
| `SessionCommands` | `SteersWorkAlone`, `NothingStartsAfterStop`, `CommandsAnswered`, `ImplementsGate` | 3 commands of any kind | 14 424 |
| `AgentPool` | `OneGeneration`, `RunKeepsAgent`, `StaleGoesWithRun`, `CallersAnswered`, no deadlock | 3 generations, 2 readers with a lease and 1 without | 4 253 |
| `PromptLife` | `RunsAreOwned`, `OneExecution`, `PromotionsSettle`, `RequestsAreAwaited`, `QuietAtRest`, `ComesToRest` | 2 prompts and a goal's continuation, 2 stops or crashes | 786 219 |
| `ChildTree` | `TypeOK`, `GoneLeavesNothing`, `GoneIsRecorded`, `CloseIsFinal`, `NoOvertake`, `CloseEnds`, `AbortReachesChildren` | 2 children one after the other, 1 follow-up input, 2 faults, 1 crash | 709 838 |
| `WorkflowRun` | `TypeOK`, `WritersOverlapOnlyAfterTimeout`, `StartsAreDue`, `OutcomesEarned`, `StoredOnlyGrows`, `RunEnds` | 4 tasks, one with 2 attempts and a hard timeout and one whose worker others may stop, each failure policy, 1 cancellation, 1 crash | 388 207 |
| `ScheduledTasks` | `ServiceConsistent`, `OccurrencesRunOnce`, `UnwantedNeverStarts`, `Progress` | 2 tasks, 1 call at a time, 2 ticks, 1 crash | 257 716 |

Every safety property of these runs is also a theorem (section 5). The type invariants
of `RunLane`, `OperationGate`, `SessionCommands`, `AgentPool`, `PromptLife` and
`ScheduledTasks` are proved and not part of a run, as is what `RunLane` guarantees
when commands overlap.

Four runs are expected to find a violation; each shows a place where the code
and the repository's documentation disagree (`findings` in `PROJECT.json`):

* `GoalWaitBarrier`: the timer of a waiting goal starts a run under a maintenance
  barrier;
* `EditHistory`: while an edit closes the agent, a reader that waits for the same
  close creates the next one from the transcript the edit is about to replace, and
  the edited prompt runs with the replaced message in its history;
* `CancelRetries`: after a `JobCancel` has stopped the scheduler, an attempt that
  fails or is stopped is retried with a new worker;
* `MissedRuns`: a missed run that is to be made up after recovery is started before
  recovery has finished, refused, and not due any more.

*Why the bounds are enough.* With three inputs one is active, one is queued or
promoted and one is steered, so every pair of things that can meet in a lane
meets; a reordering needs one queued task and one that comes back from a promotion.
Three sessions in two
directories give barriers that are equal, nested and disjoint; three leases give
a barrier attempt against two holders. Three commands give one at work, one that waits,
and one behind it. Of generations there is never more than one, the others would
only be needed if that failed; three readers let two meet one close while a third
holds a lease. Two prompts and a continuation give an active run, a call that is
being delivered and one in the queue; the second stop can hit the recovery of the
first. One place in the budget makes the second child wait for the first to be gone,
so what one leaves behind, a pending settlement above all, meets the events of the other;
two faults make a projection fail and its later reconciliation too, or two settlements
be pending, or a child fail to start and its end fail to be projected;
after a crash both children can still be met as records of the store. Four tasks
give a workflow a chain, a join, two that may start at once and two that write the
same files; one of them can be retried or given up while any other runs. Its one
cancellation meets every point of that; the safety properties are proved for any number
of them, that the workflow ends is checked for one. Of the
two scheduled tasks one follows a rule, queues and makes up missed runs in the chat,
the other has a single instant, skips and runs apart; the one call may be a person's
or either agent's and can be made again when it has been answered; two ticks give an
occurrence that is missed and one that follows, and the crash may hit both. History
variables and model values make no other case differ; no run uses symmetry.

*Fairness.* `RunLane`: due promise reactions run (weak fairness: nothing but a
reaction can overtake them). A run registers its handle, ends and returns although
commands keep making reactions due (strong fairness: the event loop does not
starve a callback). That a framework run ends at all is an assumption about the model
provider, tools and permissions, which the stall watchdog enforces in part.
`AgentPool`: agents load and close or fail to (their I/O is bounded by the
clients they use), a run takes its steps and ends, archive continues.
`SessionCommands`: each command takes its steps, a
run that waits for nobody ends; `AttendedSpec` adds that somebody answers
permission requests, which `FairSpec` does not assume. `PromptLife`: a delivery,
the active run, recovery, archive and shutdown go on, a daemon that is gone is started
again, requests are answered (all weak); a run
ends although it could ask and take input again and again (strong fairness:
`maxTurns` and the stall watchdog). `ChildTree`: one weak fairness, "the event loop
goes on": while an event can be delivered, a promise can settle or a child's run can
end, one of these happens. Nobody is obliged to spawn, send, suspend, close, abort or
crash. `WorkflowRun`: spawns return, workers end, reactions run, a cancellation that
has loaded its snapshot goes on (all weak); no timer has to fire, and nobody has to
start, cancel, restart or resume. `ScheduledTasks`: timers fire, a prompt is admitted
or refused, the lane reaches a run that waits, a tool has its deadline, recovery and
shutdown go on (all weak); a scheduled run or a turn of the chat ends although it may
call `trigger` again and again (strong fairness: `maxTurns` allows so many calls). That
takes for granted that a permission request of such a run is answered or expires:
nothing else ends a run that waits for one. Time
need not pass and nobody has to create, edit or trigger.

## 5. Proofs

All of them hold for every set of inputs, commands, sessions, directories, leases,
generations, cancellations and tasks, for every finite set of children, and for every
bound on ticks, stops, faults and crashes. Every safety property that a passing run
checks, invariant or action property, is one of the theorems.

* **OperationGateProofs.** `IdleInv` is inductive: `TypeOK`, `LeasesExclude`,
  `StopsWithoutLeases`, `BarrierKeepsIdle` and `DrainCoversBusy` (while shutdown
  waits for interrupted runs, every busy session is one of them or has work that a
  goal timer started). Two lemmas
  relate the code's conflict functions: barriers that cover a common session
  conflict, and only those. `WithoutGoalWaits` assumes `GoalWaits = {}` and proves
  two sentences of the documentation: `MaintenanceIsExclusive`, which the run
  `GoalWaitBarrier` refutes, and `ShutdownLeavesNoRun`, which fails for the same
  reason. The goal timers are the only way round the gate.
* **RunLaneProofs.** First what appending, `Tail`, removal at an index and insertion at
  an index do to the range, the distinctness and the positions of a sequence. `LaneInv`
  is inductive. `OneRunAtATime` alone is not: the finally block starts `Head(queue)`, so
  the queue must hold queued tasks only, each once (`TasksAccounted`); tasks come back
  from a promotion, so a promoted task must be outside the queue; an open request must
  be found by `rejectSteers`, so requests in `chain` and `pend` are pairwise distinct
  and a task without handle has no chain (`ChainHeld`). `LaneConsistent`, the run's
  invariant, is three of its parts. On top of it, for each input: what its request's
  verdict, its position in `chain` or `pend`, its acceptance and the phase of its own
  task may be together (`OwnerOK`), and that only tasks that exist are aborted
  (`AbortedBorn`). From it follow `WaitingNotAborted` and `VerdictIsTrue`.
  The last part assumes `Serialized`. `OrderInv`: the queue is in order, whoever stands
  behind the place a promoted task has been taken from may follow that task, and one
  task at most is promoted (`QueueOrder`); therefore an interrupt finds no second task
  outside the queue (`StoppedNeverStart`). `BooksOpen`: every request in `chain` or
  `pend` is still unsettled, so none is rejected whose input is about to be accepted
  (`SteeredOnce`).
* **SessionCommandsProofs.** `CommandInv` is inductive. Its type invariant is not by
  itself: that the number of queued runs stays in range needs the lane, in which at
  most one steer is open (`LaneInv`). `DrainInv` relates shutdown to the leases that
  are left; `NothingStartsAfterStop` follows from it. `UsesGate` proves the refinement: every
  step maps to a step of `OperationGate` or a stutter (`GateStep`), under the same
  mapping that the run checks.
* **AgentPoolProofs.** `PoolInv` (types, the entry is the one generation that
  exists, `closing` agrees with the agent's state, a working agent is not idle) is
  inductive by itself. `ArchivedHasNoAgent` needs what archive may rely on while it
  waits (`ArchiveInv`), `OutdatedIsClosing` what an edit may (`EditInv`).
  `WithoutReaders`: if nobody but the run acquires an agent, the sentence that
  `EditHistory` refutes holds. `StaleGoesWithRun`, about the step in which a run leaves
  the executor, needs that callers whose turn it is stand before an entry without a
  mark (`DueUnmarked`): otherwise the run could be gone before its entry is looked at.
* **PromptLifeProofs.** Layers, each inductive given those before. `Shape`: who may
  be where in memory, and that nothing of it outlives the process. `Asking`: the
  pending request is the one the tool of the active run waits for
  (`RequestsAreAwaited`). `Holding`: what the store says of a run agrees with what the
  lane, the call in flight and recovery have in hand (`RunsAreOwned`). `Unspent`:
  whatever can still go to the model has not been there, with what a retry, a cancelled
  goal or recovery may find (`OneExecution`). `Resting` and `Settling` carry
  what archive and shutdown, and a promotion, may rely on while they wait
  (`QuietAtRest`, `PromotionsSettle`): an archive that nothing is open, shutdown only
  that what is open and not one of the `collected` runs is a goal's.
* **ScheduledTasksProofs.** `IInv` is inductive: the types, `ServiceConsistent`, that
  nothing is left without a process or an execution to wait for (`Rest`), and an order
  (`InTurn`): what has been executed comes before what waits, that before what the
  timer is armed for, and all of it has passed, so that a next occurrence computed from
  the present comes after. `OccurrencesRunOnce` is what the order gives for a step;
  `UnwantedNeverStarts` follows for timers from `ServiceConsistent` and from the look the
  callback takes at the task, for a request that has waited from its own check.

* **WorkflowRunProofs.** `IInv` is inductive: `SchedulerInv` says what the scheduler's
  locals are between two awaits (`Sane`: a task is ready, running or settled, and what
  runs has no conflict; `Lawful`: what is ready is due and what has been skipped had to
  be, unless a stop was asked for; `Complete`), `WorkerInv` that a worker that its task
  has left behind belongs to a task with a hard timeout, `StoreInv` that the snapshot
  is what the live scheduler last wrote, `CancelInv` what may have happened to the store
  since a cancellation read it. The scheduler's step is a composition of operators;
  each has a lemma that it keeps `Stage` and only `Proceeds` from one state to the next.
  Both of its loops are `Sweep`, a recursive function. Induction is replaced here by a
  least counterexample (`LeastNumber`, from the well-foundedness of `<` on numbers):
  `SweepIsDefined` gives the function its equation, `SweepInduction` shows that a set of
  sets which every addition stays in holds the result.
* **ChildTreeProofs.** `IInv` is inductive. `ManagerInv` is about the framework:
  which procedures of a child may be under way together and in which order its record
  closes (`ChildInv`), how many runs are still to come (`Credit`, which bounds the
  number of runs), and that each event on the bus has a teller that waits for its answer
  and is told once (`QueueInv`). `StepInv` and `PendingInv` tie the projector to the
  head of the bus and to one pending settlement. `RecordInv` relates the two halves:
  what the store knows of a child is what it should be, or will be when the event that
  is `Owed` a settlement has it; an event that has been settled as far as it went and is
  settled again is settled (`SettledAgain`, and `PartlyIs` for a close, whose second
  attempt may find the child `bound` and its task active). A restart is a recovery of the pending
  settlements that opens nothing (`RecoveredIs`) and an interruption of what is open
  (`RestartedIs`). `CloseIsFinal` and `NoOvertake` are read off from the steps, the latter
  with what one settlement that stops early may write (`PartlyIs`), `GoneLeavesNothing`
  and `GoneIsRecorded` from the invariant.

The proofs assume nothing but the named constant assumptions of the modules
(`NoRunAssumption`, `SerializedAssumption`, `CwdAssumption`, `GoalAssumption`,
`NoGenAssumption`, `ReaderAssumption`, `NoneAssumption`, `GoalsAssumption`,
`StopsAssumption`, `PolicyAssumption`, `CallAssumption`, `TimeAssumption`,
`NameAssumption`, `OrderAssumption`, `ConflictsAssumption`, `RetryAssumption`,
`PlansAssumption`, `CrashesAssumption`, `ChildrenAssumption`, `BoundsAssumption`), and what a theorem's own ASSUME states.

`WaitingNotAborted`, `StopsWithoutLeases`, `OutdatedIsClosing` and
`ArchivedHasNoAgent` are proved and therefore not part of a run.

Only model-checked: liveness, because fairness and `ENABLED` are outside the prover's
reach: `LaneSettles`, `CommandsAnswered`, `CallersAnswered`, `ComesToRest`, `CloseEnds`,
`AbortReachesChildren`, `RunEnds` and `Progress`. And what is false: the four runs that
find a violation. That a bound on crashes, ticks, faults or stops is large enough is no
question for the safety properties, which are proved for every value of it.

## 6. Not modelled

`PROJECT.json` lists every component with the reason. The largest gaps are the
engine itself (a turn of the model, its tools, compaction of the history: their
effect on the daemon is that a run goes on, asks, takes input and ends), the
executor's stall watchdog (the assumption that a run ends), the revisions and
budgets of goals, channels and the state of the clients. The front ends, command
line and desktop, are presentation. A command of a session is modelled to the point
where the store or the lane has changed; validation of its input, events for
observers and their wording are left out. Hazards that no property covers yet are in
`PROJECT.json` with a note.
