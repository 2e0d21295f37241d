---------------------------- MODULE WorkflowRun ----------------------------
(***************************************************************************)
(* One persistent workflow: the scheduler of packages/coordinator that     *)
(* starts the tasks of a plan when their dependencies allow it, the        *)
(* attempts of a task and the worker agent of each, the snapshot it keeps  *)
(* in the store, and those who cancel it.  The process may die at any      *)
(* moment; the daemon then closes what it finds running, a standalone      *)
(* agent resumes it from the snapshot.                                     *)
(*                                                                         *)
(* What a worker does is not modelled, only that it is being spawned, is   *)
(* alive and ends.  Budgets are left out: the runner that the tool makes   *)
(* reports no usage, so no limit is ever reached.  One process runs one    *)
(* scheduler for the workflow (a resume of a workflow that still has one   *)
(* is not modelled).                                                       *)
(***************************************************************************)
EXTENDS Integers, FiniteSets, Sequences

CONSTANTS
    Tasks,
    Order,       \* plan.executionOrder: the tasks, dependencies first
    Deps,        \* plan.dependencyMap
    Conflicts,   \* pairs of tasks whose non-isolated write scopes overlap
    Timed,       \* tasks with a hard timeout for each attempt
    Attempts,    \* retry.maxAttempts of each task
    RetryOn,     \* retry.retryOn of each task
    Plans,       \* the plans to check: failure policy, limit and host
    Stoppable,   \* tasks whose worker others may stop: a JobCancel of the
                 \* task, the end of the agent that started it (bound)
    Cancels,     \* the cancellations that may be asked for
    MaxCrashes   \* how often the process dies (bound)

Policies == {"skip-dependents", "fail-fast", "continue"}

ASSUME OrderAssumption ==
    /\ Order \in Seq(Tasks)
    /\ \A t \in Tasks : \E i \in 1..Len(Order) :
           /\ Order[i] = t
           /\ Deps[t] \subseteq {Order[j] : j \in 1..(i - 1)}
ASSUME ConflictsAssumption ==
    \A t, u \in Tasks : <<t, u>> \in Conflicts => <<u, t>> \in Conflicts
ASSUME RetryAssumption ==
    /\ Attempts \in [Tasks -> Nat \ {0}]
    /\ RetryOn \in [Tasks -> SUBSET {"failed", "killed"}]
ASSUME PlansAssumption ==
    Plans \subseteq [policy : Policies, limit : Nat \ {0},
                     host : {"daemon", "standalone"}]
ASSUME CrashesAssumption == MaxCrashes \in Nat

VARIABLES
    plan,        \* the plan of this workflow
    up,          \* the process lives
    stored,      \* the snapshot in the repository
    run,         \* the scheduler: runWorkflow's locals and its ActiveWorkflowRun
    worker,      \* per task and attempt: the worker agent
    cancel,      \* the calls of cancelPersistentWorkflow
    crashes      \* how often the process has died

vars == <<plan, up, stored, run, worker, cancel, crashes>>

Idle    == -1    \* a task that is not in runningTasks
Unknown == 0     \* one that is, its worker not reported; otherwise its attempt
Ended   == {"completed", "failed", "killed"}
Results == {"none", "skipped"} \cup Ended
Slots   == UNION {{<<t, a>> : a \in 1..Attempts[t]} : t \in Tasks}

NoResults == [t \in Tasks |-> "none"]
NobodyOn  == [t \in Tasks |-> Idle]
NoWorkers == [s \in Slots |-> "none"]
NoRun     == [st |-> "idle", results |-> NoResults, known |-> NobodyOn,
              ready |-> {}, attempt |-> [t \in Tasks |-> 0],
              failFast |-> FALSE, stop |-> "no", heeds |-> FALSE]
NoStored  == [status |-> "absent", results |-> NoResults, known |-> NobodyOn]
NoCancel  == [at |-> "idle", snap |-> NoStored, todo |-> {}]

-----------------------------------------------------------------------------
(* The scheduler, on a state S of its locals: those of runWorkflow, the      *)
(* attempt each runWorkflowTask is at, and the ActiveWorkflowRun: stop says   *)
(* that it has been asked to, or that the run which started the workflow was  *)
(* interrupted as well; heeds that it listens to that run.                    *)

Locals == [st : {"idle", "going", "settled", "over"}, results : [Tasks -> Results],
           known : [Tasks -> Int], ready : SUBSET Tasks, attempt : [Tasks -> Nat],
           failFast : BOOLEAN, stop : {"no", "asked", "aborted"}, heeds : BOOLEAN]

Unstarted(S) == {t \in Tasks : S.results[t] = "none" /\ S.known[t] = Idle}
Active(S)    == {t \in Tasks : S.known[t] # Idle}

Satisfied(S, t) ==
    \A d \in Deps[t] : IF plan.policy = "continue" THEN S.results[d] # "none"
                                                   ELSE S.results[d] = "completed"

\* Mutant: a skipped task stays in the ready queue.
SkipLeavesReady(S, ts) ==
    [S EXCEPT !.results = [t \in Tasks |-> IF t \in ts THEN "skipped" ELSE @[t]]]

Skip(S, ts) ==
    [S EXCEPT !.results = [t \in Tasks |-> IF t \in ts THEN "skipped" ELSE @[t]],
              !.ready = @ \ ts]

\* One pass along the order: the tasks collected among the first i of it, when
\* takes says which can be added to what has been collected.
Sweep(collected, takes) ==
    LET sweep[i \in 0..Len(Order)] ==
            IF i = 0 THEN collected
            ELSE LET ts == sweep[i - 1]
                 IN  IF Order[i] \in takes[ts] THEN ts \cup {Order[i]} ELSE ts
    IN  sweep

\* Mutant: only those that depend directly on the failed task are skipped.
DirectDependents(S, from) == {t \in Unstarted(S) : Deps[t] \cap from # {}}

\* Mutant: everybody else is skipped.
AllOthers(S, from) == Unstarted(S)

\* What skipTask reaches from the dependents of a set of tasks.
Downstream(S, from) ==
    Sweep(from, [ts \in SUBSET Tasks |->
                    {t \in Unstarted(S) : Deps[t] \cap ts # {}}])[Len(Order)] \ from

AfterFailure(failed) == [S \in Locals |->
    CASE plan.policy = "fail-fast" ->
             [Skip(S, Unstarted(S)) EXCEPT !.failFast = TRUE]
      [] plan.policy = "skip-dependents" -> Skip(S, Downstream(S, failed))
      [] plan.policy = "continue" -> S]

Start(S, ts) ==
    [S EXCEPT !.ready   = @ \ ts,
              !.known   = [t \in Tasks |-> IF t \in ts THEN Unknown ELSE @[t]],
              !.attempt = [t \in Tasks |-> IF t \in ts THEN 1 ELSE @[t]]]

\* Mutant: write scopes are not compared.
FitsAnyScope(S, ts, t) ==
    /\ t \in S.ready
    /\ Cardinality(Active(S) \cup ts) < plan.limit

\* findNextRunnableReadyIndex, when ts have been started in the same pass.
Fits(S, ts, t) ==
    /\ t \in S.ready
    /\ Cardinality(Active(S) \cup ts) < plan.limit
    /\ \A u \in Active(S) \cup ts : <<t, u>> \notin Conflicts

\* The loop of scheduleMore.  A task that is passed over for a conflict stays
\* in conflict while others start, so one pass in the order of execution
\* does what the loop's search from the front does.
Chosen(S) ==
    Sweep({}, [ts \in SUBSET Tasks |-> {t \in S.ready : Fits(S, ts, t)}])[Len(Order)]

ScheduleMore[S \in Locals] ==
    IF S.failFast THEN S
    ELSE IF S.stop # "no" THEN Skip(S, Unstarted(S))
    ELSE Start(S, Chosen(S))

MaybeResolve[S \in Locals] ==
    IF \A t \in Tasks : S.results[t] # "none" THEN [S EXCEPT !.st = "settled"] ELSE S

\* The result of t, before anything follows from it.
WithResult(S, t, status) == [S EXCEPT !.results[t] = status, !.known[t] = Idle]

PushDependents(t) == [S \in Locals |->
    IF S.failFast THEN S
    ELSE [S EXCEPT !.ready = @ \cup {d \in Unstarted(S) : t \in Deps[d] /\ Satisfied(S, d)}]]

OnFinished(S, t, status) ==
    LET told == WithResult(S, t, status)
        after == IF status = "completed" THEN told ELSE AfterFailure({t})[told]
    IN  MaybeResolve[ScheduleMore[PushDependents(t)[after]]]

\* Mutant: a resumed workflow starts from the beginning.
ResumedAfresh(results) ==
    LET bare == [NoRun EXCEPT !.st = "going"]
    IN  ScheduleMore[[bare EXCEPT !.ready = {t \in Tasks : Deps[t] = {}}]]

\* createInitialReadyQueue and propagateInitialFailures.
Resumed(results) ==
    LET bare == [NoRun EXCEPT !.st = "going", !.results = results]
        S == [bare EXCEPT !.ready = {t \in Unstarted(bare) : Satisfied(bare, t)}]
        failed == {t \in Tasks : results[t] \notin {"none", "completed"}}
    IN  MaybeResolve[ScheduleMore[IF failed = {} THEN S ELSE AfterFailure(failed)[S]]]

-----------------------------------------------------------------------------
(* The snapshot, and the workers that a step of the scheduler begins.      *)

Going(S) == [status |-> "running", results |-> S.results, known |-> S.known]

\* Mutant: a stopped workflow is still written.
SaveAlways(S, snapshot) == stored' = snapshot

\* onSnapshot writes nothing once a stop has been requested.
Save(S, snapshot) == stored' = IF S.stop = "no" THEN snapshot ELSE stored

\* The attempts that S is at and the scheduler is not yet.
Begun(S) == {s \in Slots : S.attempt[s[1]] = s[2] /\ run.attempt[s[1]] # s[2]}

Becomes(S) ==
    /\ run' = S
    /\ worker' = [s \in Slots |-> IF s \in Begun(run') THEN "spawning" ELSE worker[s]]
    /\ Save(run', Going(run'))

\* What cancelPersistentWorkflow makes of a snapshot.
Cancelled(snap) ==
    [status  |-> "cancelled",
     results |-> [t \in Tasks |->
                    IF snap.results[t] # "none" THEN snap.results[t]
                    ELSE IF snap.known[t] # Idle THEN "killed" ELSE "skipped"],
     known   |-> NobodyOn]

-----------------------------------------------------------------------------
Init ==
    /\ plan \in Plans
    /\ up = TRUE
    /\ stored = NoStored
    /\ run = NoRun
    /\ worker = NoWorkers
    /\ cancel = [c \in Cancels |-> NoCancel]
    /\ crashes = 0

\* runPersistentWorkflow, up to the first await; the tool lets it run detached.
Starts ==
    /\ up /\ stored.status = "absent"
    /\ Becomes([Resumed(NoResults) EXCEPT !.heeds = TRUE])
    /\ UNCHANGED <<plan, up, cancel, crashes>>

\* resumePersistentWorkflow in a new process: the workers of the snapshot are
\* gone, so waiting for one fails and a replacement is spawned.
Resumes ==
    /\ up /\ plan.host = "standalone"
    /\ run.st = "idle" /\ stored.status = "running"
    /\ Becomes(Resumed(stored.results))
    /\ UNCHANGED <<plan, up, cancel, crashes>>

\* reportProgress with the worker's metadata, also by an attempt that has
\* been given up while the task goes on.
Report(t, a) ==
    IF run.known[t] = Idle THEN UNCHANGED <<run, stored>>
    ELSE /\ run' = [run EXCEPT !.known[t] = a]
         /\ Save(run', Going(run'))

\* No worker comes to life under an interrupted run.
SpawnSucceeds(t, a) ==
    /\ up /\ worker[<<t, a>>] = "spawning" /\ run.stop # "aborted"
    /\ worker' = [worker EXCEPT ![<<t, a>>] = "alive"]
    /\ Report(t, a)
    /\ UNCHANGED <<plan, up, cancel, crashes>>

SpawnFails(t, a) ==
    /\ up /\ worker[<<t, a>>] = "spawning"
    /\ worker' = [worker EXCEPT ![<<t, a>>] = "failed"]
    /\ UNCHANGED <<plan, up, stored, run, cancel, crashes>>

\* The worker ends.  "failed" is also the end of one that the wait of the
\* runner (options.timeoutMs) has given up and stopped; it is "killed" when it
\* is stopped otherwise or its run is interrupted.
WorkerEnds(t, a, status) ==
    /\ up /\ worker[<<t, a>>] = "alive"
    /\ status = "killed" => run.stop = "aborted" \/ t \in Stoppable
    /\ worker' = [worker EXCEPT ![<<t, a>>] = status]
    /\ Report(t, a)
    /\ UNCHANGED <<plan, up, cancel, crashes>>

Retries(t, status) == status \in RetryOn[t] /\ run.attempt[t] < Attempts[t]

\* The end of one turn of runWorkflowTask's loop.  The loop does not ask
\* whether the workflow is to stop.
AttemptSettles(t, status) ==
    Becomes(IF Retries(t, status) THEN [run EXCEPT !.attempt[t] = @ + 1]
                                  ELSE OnFinished(run, t, status))

AttemptReturns(t) ==
    /\ up /\ run.known[t] # Idle
    /\ worker[<<t, run.attempt[t]>>] \in Ended
    /\ AttemptSettles(t, worker[<<t, run.attempt[t]>>])
    /\ UNCHANGED <<plan, up, cancel, crashes>>

\* runRunnerAttempt's timer wins the race; the worker is left as it is.
AttemptTimesOut(t) ==
    /\ up /\ run.known[t] # Idle /\ t \in Timed
    /\ AttemptSettles(t, "failed")
    /\ UNCHANGED <<plan, up, cancel, crashes>>

\* All tasks have a result: runWorkflow goes on behind its promise.
Concludes ==
    /\ up /\ run.st = "settled"
    /\ run' = [run EXCEPT !.st = "over"]
    /\ Save(run, [Going(run) EXCEPT !.status =
                    IF \A t \in Tasks : run.results[t] = "completed"
                    THEN "completed" ELSE "failed"])
    /\ UNCHANGED <<plan, up, worker, cancel, crashes>>

-----------------------------------------------------------------------------
(* Cancellation.                                                           *)

\* JobCancel resolves the job, and an await lies before the cancellation.
CancelLoads(c) ==
    /\ up /\ cancel[c].at = "idle" /\ stored.status = "running"
    /\ cancel' = [cancel EXCEPT ![c] = [NoCancel EXCEPT !.at = "loaded", !.snap = stored]]
    /\ UNCHANGED <<plan, up, stored, run, worker, crashes>>

\* requestActiveWorkflowStop; the workers to stop are those of the snapshot.
\* Without any the verdict is stored at once.
CancelBegins(c, snap, why) ==
    LET todo == {s \in Slots : snap.known[s[1]] = s[2]}
    IN  /\ up
        /\ run' = [run EXCEPT !.stop =
                IF run.st \in {"going", "settled"} /\ @ = "no" THEN why ELSE @]
        /\ cancel' = [cancel EXCEPT ![c] = [snap |-> snap, todo |-> todo,
                         at |-> IF todo = {} THEN "done" ELSE "stopping"]]
        /\ stored' = IF todo = {} THEN Cancelled(snap) ELSE stored
        /\ UNCHANGED <<plan, up, worker, crashes>>

JobCancelBegins(c) ==
    cancel[c].at = "loaded" /\ CancelBegins(c, cancel[c].snap, "asked")

\* The run that started the workflow is interrupted while it goes on: load
\* and stop in one step.
InterruptBegins(c) ==
    /\ run.heeds /\ run.st \in {"going", "settled"}
    /\ cancel[c].at = "idle" /\ stored.status = "running"
    /\ CancelBegins(c, stored, "aborted")

\* await options.stopTask(...): a stop that fails is noted and passed over.
CancelStopsWorker(c, s, stops) ==
    /\ up /\ cancel[c].at = "stopping" /\ s \in cancel[c].todo
    /\ cancel' = [cancel EXCEPT ![c].todo = @ \ {s}]
    /\ worker' = IF stops /\ worker[s] = "alive"
                 THEN [worker EXCEPT ![s] = "killed"] ELSE worker
    /\ UNCHANGED <<plan, up, stored, run, crashes>>

CancelStores(c) ==
    /\ up /\ cancel[c].at = "stopping" /\ cancel[c].todo = {}
    /\ stored' = Cancelled(cancel[c].snap)
    /\ cancel' = [cancel EXCEPT ![c].at = "done"]
    /\ UNCHANGED <<plan, up, run, worker, crashes>>

-----------------------------------------------------------------------------
(* The process dies and comes back.                                        *)

Dies ==
    /\ up /\ crashes < MaxCrashes
    /\ up' = FALSE
    /\ crashes' = crashes + 1
    /\ run' = NoRun
    /\ worker' = NoWorkers
    /\ cancel' = [c \in Cancels |->
                    IF cancel[c].at = "idle" THEN NoCancel
                                             ELSE [NoCancel EXCEPT !.at = "done"]]
    /\ UNCHANGED plan

\* The workers named in the snapshot are gone; to stop or await one fails and
\* is passed over.
Orphaned(snap) ==
    [snap EXCEPT !.known = [t \in Tasks |-> IF @[t] = Idle THEN Idle ELSE Unknown]]

Crash == Dies /\ stored' = Orphaned(stored)

\* It dies in onFinished, between the first snapshot and those that follow.
CrashInFinish(t, status) ==
    /\ run.known[t] # Idle
    /\ \/ worker[<<t, run.attempt[t]>>] = status
       \/ t \in Timed /\ status = "failed"
    /\ status \in Ended /\ ~Retries(t, status)
    /\ Dies
    /\ stored' = Orphaned(IF run.stop = "no" THEN Going(WithResult(run, t, status)) ELSE stored)

\* recoverInterruptedWorkflows in the daemon, before it is ready.
Restart ==
    /\ ~up
    /\ up' = TRUE
    /\ stored' = IF plan.host = "daemon" /\ stored.status = "running"
                 THEN Cancelled(stored) ELSE stored
    /\ UNCHANGED <<plan, run, worker, cancel, crashes>>

-----------------------------------------------------------------------------
Attempt(t) == AttemptReturns(t) \/ AttemptTimesOut(t)
Spawn(s)   == SpawnSucceeds(s[1], s[2]) \/ SpawnFails(s[1], s[2])
Worker(s)  == \E status \in Ended : WorkerEnds(s[1], s[2], status)
Cancel(c)  ==
    \/ JobCancelBegins(c)
    \/ \E s \in Slots, stops \in BOOLEAN : CancelStopsWorker(c, s, stops)
    \/ CancelStores(c)

Next ==
    \/ Starts \/ Resumes \/ Concludes \/ Crash \/ Restart
    \/ \E s \in Slots : Spawn(s) \/ Worker(s)
    \/ \E t \in Tasks : Attempt(t) \/ \E status \in Ended : CrashInFinish(t, status)
    \/ \E c \in Cancels : CancelLoads(c) \/ InterruptBegins(c) \/ Cancel(c)

Spec == Init /\ [][Next]_vars

\* What the process owes itself: reactions, stops that return, workers that
\* end.  Nobody has to start, cancel, restart or resume anything.
Fairness ==
    /\ WF_vars(Concludes)
    /\ \A s \in Slots : WF_vars(Spawn(s)) /\ WF_vars(Worker(s))
    /\ \A t \in Tasks : WF_vars(AttemptReturns(t))
    /\ \A c \in Cancels : WF_vars(Cancel(c))

FairSpec == Spec /\ Fairness

-----------------------------------------------------------------------------
(* Properties.                                                             *)

\* Every variable has its type; a task of the scheduler has an attempt while
\* it runs, and none is both running and settled.
TypeOK ==
    /\ plan \in Plans /\ up \in BOOLEAN /\ crashes \in 0..MaxCrashes
    /\ stored.status \in {"absent", "running", "completed", "failed", "cancelled"}
    /\ stored.results \in [Tasks -> Results]
    /\ run \in Locals
    /\ run.ready \subseteq Unstarted(run)
    /\ worker \in [Slots -> {"none", "spawning", "alive"} \cup Ended]
    /\ \A c \in Cancels : cancel[c].at \in {"idle", "loaded", "stopping", "done"}
    /\ \A t \in Active(run) :
           /\ run.results[t] = "none"
           /\ run.known[t] \in 0..run.attempt[t]
           /\ run.attempt[t] \in 1..Attempts[t]

Busy == {s \in Slots : worker[s] \in {"spawning", "alive"}}

\* An attempt whose task no longer waits for its worker.
GivenUp(s) == run.known[s[1]] = Idle \/ run.attempt[s[1]] # s[2]

\* Two workers that may write the same files, or two of one task, are at
\* work together only when a hard timeout has given up one of them.
WritersOverlapOnlyAfterTimeout ==
    \A s, r \in Busy :
        s # r /\ (s[1] = r[1] \/ <<s[1], r[1]>> \in Conflicts) =>
            \E q \in {s, r} : GivenUp(q) /\ q[1] \in Timed

\* A task starts only when it is due and still wanted: what it depends on is
\* done (settled, under "continue"), no cancellation has begun, and the store
\* knows no result of it, be it from before a crash.
StartsWhenDue ==
    \A t \in Tasks : worker[<<t, 1>>] = "none" /\ worker'[<<t, 1>>] # "none" =>
        /\ run.stop = "no"
        /\ stored.results[t] = "none"
        /\ \A d \in Deps[t] : (run').results[d] \in
              IF plan.policy = "continue" THEN Results \ {"none"} ELSE {"completed"}

StartsAreDue == [][StartsWhenDue]_vars

\* A task is skipped only for a failure the policy lets reach it.
SkipsEarned(res) ==
    \A t \in Tasks : res[t] = "skipped" =>
        CASE plan.policy = "continue" -> FALSE
          [] plan.policy = "fail-fast" -> \E u \in Tasks : res[u] \in {"failed", "killed"}
          [] plan.policy = "skip-dependents" ->
               \E d \in Deps[t] : res[d] \in {"failed", "killed", "skipped"}

\* What the store says of a workflow that nobody has cancelled follows from
\* what its tasks did: a task is skipped only for a failure the policy lets
\* reach it, and a workflow is over when all its tasks are, completed when
\* they are.
OutcomesEarned ==
    stored.status \in {"running", "completed", "failed"} =>
        LET res == stored.results
        IN  /\ SkipsEarned(res)
            /\ stored.status # "running" =>
                 /\ \A t \in Tasks : res[t] # "none"
                 /\ stored.status = "completed" <=> \A t \in Tasks : res[t] = "completed"

\* A job cancellation that works on a snapshot in which v is not yet known.
LateCancel(Seen(_)) ==
    \E c \in Cancels : cancel[c].at \in {"loaded", "stopping"} /\ ~Seen(cancel[c].snap)

\* A result that is stored stays what it is, over crashes, recovery and
\* resumption, and so does the verdict on the workflow; only a cancellation
\* that had loaded the snapshot before can overwrite either, or a second one
\* what the first has made of the results.
StoredStays ==
    /\ \A t \in Tasks : stored.results[t] # "none" =>
          LET Seen(snap) == snap.results[t] # "none"
          IN  \/ stored'.results[t] = stored.results[t]
              \/ LateCancel(Seen)
              \/ stored.status = "cancelled" /\ stored'.status = "cancelled"
    /\ stored.status \in {"completed", "failed", "cancelled"} =>
          LET Seen(snap) == snap.status # "running"
          IN  stored'.status = stored.status \/ LateCancel(Seen)

StoredOnlyGrows == [][StoredStays]_vars

\* A workflow that the living process attends to gets its verdict: the
\* scheduler is never left with tasks that neither run nor become ready, and
\* a cancellation that has silenced it speaks in its place.
RunEnds ==
    (stored.status = "running" /\ up /\ (plan.host = "daemon" \/ run.st # "idle"))
        ~> (stored.status # "running" \/ ~up)

\* docs/jobs-protocol.md: JobCancel makes the scheduler stop handing out work
\* before it stops the workers.  So no worker is spawned after that, be it for
\* a further attempt of a task whose worker has failed or was stopped.
StopDispatchesNothing ==
    [][run.stop = "asked" => \A s \in Slots : worker[s] = "none" => worker'[s] = "none"]_vars

=============================================================================
