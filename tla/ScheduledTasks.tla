--------------------------- MODULE ScheduledTasks ---------------------------
(***************************************************************************)
(* ScheduledTaskService: the timers of scheduled tasks, the executions they *)
(* or a caller start, what the store says of both, and the life of the      *)
(* daemon around them: startup recovery, shutdown, crashes.                 *)
(*                                                                         *)
(* Time is a clock that ticks when something comes due: a rule has an        *)
(* occurrence at every tick, a task of a single instant at one.  setTimeout's *)
(* longest delay is left out: a timer that wakes before its occurrence arms  *)
(* itself again.                                                           *)
(***************************************************************************)
EXTENDS Integers, Sequences

CONSTANTS
    Tasks,
    Policies,    \* the settings to check: what each task is like
    Calls,       \* calls of trigger: the run route and ScheduleRunNow
    NoCall,      \* the timer calls startRun for nobody
    MaxTime,     \* how often the clock ticks, at most (bound)
    MaxCrashes   \* how often the daemon dies (bound)

\* stopPolicy is reduced to two of its limits; maxRuns = 0 is no limit.
Policy == [once : BOOLEAN, overlap : {"skip", "queue"}, missed : {"skip", "run_once"},
           maxRuns : Nat, untilSuccess : BOOLEAN, inChat : BOOLEAN]

ASSUME PolicyAssumption == Policies \subseteq [Tasks -> Policy]
ASSUME CallAssumption == NoCall \notin Calls
ASSUME TimeAssumption == MaxTime \in Nat \ {0} /\ MaxCrashes \in Nat
ASSUME NameAssumption == Tasks \cap {"person", "chat", "free"} = {}

VARIABLES
    policy,      \* the settings of the tasks
    db,          \* scheduled_task: status, nextRunAt, runCount, recurrence
    row,         \* scheduled_run: is the record of the latest execution open?
    now,         \* the time
    app,         \* readyState, with shuttingDown as "stopped"
    timer,       \* timers: the occurrence a timer is armed for, 0 for none
    active,      \* active: the execution and its request, how far it is
    waiters,     \* requests that wait for that execution (overlap "queue")
    chat,        \* the chat session that tasks report to: whose run is active
    call,        \* the calls of trigger and who waits for them
    began,       \* history: the last occurrence that has been started
    crashes

store == <<db, row, began>>
service == <<timer, active, waiters, chat, call>>
vars == <<policy, store, now, app, service, crashes>>

\* "detached": paused, and sessionId is NULL although the task reports to a chat.
TaskRecord == [status : {"absent", "active", "paused", "completed", "detached"},
               next : Nat, runs : Nat, last : Nat]
Requests == [cause : {"scheduled", "manual"}, occ : Nat, call : Calls \cup {NoCall}]
Nobody == [stage |-> "none"]
NoTask == [status |-> "absent", next |-> 0, runs |-> 0, last |-> 0]
Execution(q) == [stage |-> "preparing", for |-> q]

Due(t) == db[t].status = "active" /\ db[t].next \in 1..now

-----------------------------------------------------------------------------
(* computeNextScheduledTime after the present, and what depends on it.      *)

HasNext(d) == now < d.last
After(d) == [d EXCEPT !.next = now + 1]
Completed(d) == [d EXCEPT !.status = "completed", !.next = 0]

\* Mutant: the next occurrence stays the one that has been executed.
FinishKeepsNext(t, d, succeeded) == d

\* Runs are counted as far as maxRuns asks.
FinishTask(t, d, succeeded) ==
    LET p == policy[t]
        counted == [d EXCEPT !.runs = IF @ < p.maxRuns THEN @ + 1 ELSE @]
        complete == \/ p.once
                    \/ p.untilSuccess /\ succeeded
                    \/ p.maxRuns # 0 /\ counted.runs = p.maxRuns
                    \/ ~HasNext(d)
    IN  IF d.status # "active" THEN [counted EXCEPT !.next = 0]
        ELSE IF complete THEN Completed(counted) ELSE After(counted)

\* Mutant: a timer is armed beside an execution.
InstallBeside(d, busy) == IF d.status = "active" /\ app # "stopped" THEN d.next ELSE 0

Install(d, busy) ==
    IF d.status = "active" /\ app # "stopped" /\ ~busy THEN d.next ELSE 0

-----------------------------------------------------------------------------
(* startRun and the end of an execution.                                   *)

Waiting(calls, c, by) == [calls EXCEPT ![c] = [at |-> "waiting", by |-> by]]

\* Those in done hear the result; the run r, if it called, is over.
Answered(calls, done, r) ==
    [c \in Calls |-> [at |-> IF c \in done THEN "idle" ELSE calls[c].at,
                      by |-> IF c \in done \/ calls[c].by = r THEN "person" ELSE calls[c].by]]

Begin(t, q) ==
    /\ active' = [active EXCEPT ![t] = Execution(q)]
    /\ row' = [row EXCEPT ![t] = "running"]
    /\ began' = IF q.occ = 0 THEN began ELSE [began EXCEPT ![t] = q.occ]

\* No execution is active: createRun and executeRun up to its first await.
StartsAtOnce(t, q, calls) ==
    /\ active[t] = Nobody
    /\ Begin(t, q)
    /\ call' = calls
    /\ UNCHANGED waiters

WaitsForEnd(t, q, calls) ==
    /\ active[t] # Nobody /\ policy[t].overlap = "queue"
    /\ waiters' = [waiters EXCEPT ![t] = Append(@, q)]
    /\ call' = calls
    /\ UNCHANGED <<active, row, began>>

\* skipRun: a record of its own, which nothing else refers to.
IsSkipped(t, q, calls) ==
    /\ active[t] # Nobody /\ policy[t].overlap = "skip"
    /\ call' = Answered(calls, {q.call}, NoCall)
    /\ UNCHANGED <<active, row, began, waiters>>

StartRun(t, q, calls) ==
    StartsAtOnce(t, q, calls) \/ WaitsForEnd(t, q, calls) \/ IsSkipped(t, q, calls)

\* Mutant: a request that has waited is not checked again.
GoesOnAnyway(d) == TRUE

\* May a request that has waited start?
GoesOn(d) == app # "stopped" /\ d.status = "active"

CallsOf(W) == {W[i].call : i \in DOMAIN W}

\* The end of executeRun with all that follows before another event: startRun's
\* finally block, which arms the timer, and then the requests that have waited,
\* the first of which finds nobody active and the others the first.
Settles(t, succeeded) ==
    LET d == FinishTask(t, db[t], succeeded)
        W == waiters[t]
        own == {active[t].for.call}
    IN  /\ db' = [db EXCEPT ![t] = d]
        /\ timer' = [timer EXCEPT ![t] = Install(d, FALSE)]
        /\ chat' = IF chat = t THEN "free" ELSE chat
        /\ IF W # <<>> /\ GoesOn(d)
           THEN /\ Begin(t, Head(W))
                /\ waiters' = [waiters EXCEPT ![t] = Tail(W)]
                /\ call' = Answered(call, own, t)
           ELSE /\ active' = [active EXCEPT ![t] = Nobody]
                /\ row' = [row EXCEPT ![t] = "ended"]
                /\ waiters' = [waiters EXCEPT ![t] = <<>>]
                /\ call' = Answered(call, own \cup CallsOf(W), t)
                /\ UNCHANGED began
        /\ UNCHANGED <<policy, now, app, crashes>>

-----------------------------------------------------------------------------
Init ==
    /\ policy \in Policies
    /\ db = [t \in Tasks |-> NoTask]
    /\ row = [t \in Tasks |-> "none"]
    /\ now = 0
    /\ app = "ready"
    /\ timer = [t \in Tasks |-> 0]
    /\ active = [t \in Tasks |-> Nobody]
    /\ waiters = [t \in Tasks |-> <<>>]
    /\ chat = "free"
    /\ call = [c \in Calls |-> [at |-> "idle", by |-> "person"]]
    /\ began = [t \in Tasks |-> 0]
    /\ crashes = 0

\* Whether or not somebody is there.
TimePasses ==
    /\ now < MaxTime
    /\ now' = now + 1
    /\ UNCHANGED <<policy, store, app, service, crashes>>

-----------------------------------------------------------------------------
(* What a person or an agent does with tasks; routes and tools are there    *)
(* once the daemon is ready.                                               *)

\* The store gets d, and the timer follows.
Changes(t, d) ==
    /\ app = "ready"
    /\ db' = [db EXCEPT ![t] = d]
    /\ timer' = [timer EXCEPT ![t] = Install(d, active[t] # Nobody)]
    /\ UNCHANGED <<policy, row, began, now, app, active, waiters, chat, call, crashes>>

\* An instant of its own for a task of one occurrence, else its rule goes on.
Scheduled(t, d) == After([d EXCEPT !.last = IF policy[t].once THEN now + 1 ELSE MaxTime,
                                   !.status = "active"])

CreateTask(t) ==
    /\ db[t].status = "absent" /\ now < MaxTime
    /\ Changes(t, Scheduled(t, db[t]))

Exists(t) == db[t].status # "absent"

\* updateTask with a recurrence or with the status "active": computed anew.
Reschedules(t) ==
    /\ Exists(t) /\ now < MaxTime
    /\ Changes(t, Scheduled(t, db[t]))

\* updateTask with the status "paused"; "completed" does the same.  A task that
\* has lost its chat can be changed if it is given another.
PausesTask(t) ==
    /\ Exists(t)
    /\ Changes(t, [db[t] EXCEPT !.status = "paused", !.next = 0])

Attached(d) == IF d.status = "detached" THEN [d EXCEPT !.status = "paused"] ELSE d

\* updateTask with a name or a prompt: nextRunAt stays, the timer is set again.
EditsTask(t) == Exists(t) /\ Changes(t, Attached(db[t]))

RemovesTask(t) ==
    /\ Exists(t) /\ active[t] = Nobody
    /\ Changes(t, NoTask)

Detached(t) ==
    IF policy[t].inChat /\ Exists(t) THEN [db[t] EXCEPT !.status = "detached", !.next = 0]
                                    ELSE db[t]

\* deleteSessionTree, the chat's runs being over: its tasks are paused in the
\* store.  The service hears nothing of it: what timers it has stay armed.
ChatDeleted ==
    /\ app \in {"ready", "stopped"} /\ chat = "free"
    /\ \A t \in Tasks : policy[t].inChat => active[t].stage \in {"none", "preparing"}
    /\ db' = [t \in Tasks |-> Detached(t)]
    /\ UNCHANGED <<policy, row, began, now, app, service, crashes>>

\* Who may call: a person, the agent of the chat, the agent of a task.
Callers == {"person"} \cup {r \in {"chat"} : chat = "chat"}
                      \cup {r \in Tasks : active[r].stage = "running"}

\* trigger does not ask for the status of the task.
Trigger(c, t, by) ==
    /\ app = "ready" /\ Exists(t)
    /\ call[c].at = "idle" /\ by \in Callers
    /\ StartRun(t, [cause |-> "manual", occ |-> 0, call |-> c], Waiting(call, c, by))
    /\ UNCHANGED <<policy, db, now, app, timer, chat, crashes>>

\* Mutant: the tool has no deadline.
NeverTimesOut(c) == FALSE /\ UNCHANGED vars

\* executeToolWithTimeout: the agent goes on with an error.  The request it
\* made does not hear of it.
ToolTimesOut(c) ==
    /\ app # "down" /\ call[c].at = "waiting" /\ call[c].by # "person"
    /\ call' = [call EXCEPT ![c].by = "person"]
    /\ UNCHANGED <<policy, store, now, app, timer, active, waiters, chat, crashes>>

-----------------------------------------------------------------------------
(* Executions.                                                             *)

\* setTimeout's callback.  A timer that no longer fits its task is set again.
TimerFires(t) ==
    /\ app # "down" /\ timer[t] \in 1..now
    /\ IF db[t].status = "active" /\ db[t].next = timer[t]
       THEN /\ timer' = [timer EXCEPT ![t] = 0]
            /\ StartRun(t, [cause |-> "scheduled", occ |-> db[t].next, call |-> NoCall], call)
       ELSE /\ timer' = [timer EXCEPT ![t] = Install(db[t], active[t] # Nobody)]
            /\ UNCHANGED <<active, row, began, waiters, call>>
    /\ UNCHANGED <<policy, db, now, app, chat, crashes>>

\* ScheduledTaskExecutor: the daemon is ready, so a session takes the prompt.
Admitted(t) ==
    /\ app = "ready" /\ active[t].stage = "preparing" /\ db[t].status # "detached"
    /\ active' = [active EXCEPT ![t].stage = IF policy[t].inChat THEN "queued" ELSE "running"]
    /\ UNCHANGED <<policy, store, now, app, timer, waiters, chat, call, crashes>>

\* It does not: there is no chat, no worktree, or the daemon is not ready.
Refused(t) == app # "down" /\ active[t].stage = "preparing" /\ Settles(t, FALSE)

\* The chat's lane reaches the run.
RunBegins(t) ==
    /\ app # "down" /\ active[t].stage = "queued" /\ chat = "free"
    /\ active' = [active EXCEPT ![t].stage = "running"]
    /\ chat' = t
    /\ UNCHANGED <<policy, store, now, app, timer, waiters, call, crashes>>

\* A run r that waits for a call of its own cannot end.
Blocked(r) == \E c \in Calls : call[c].at = "waiting" /\ call[c].by = r

\* The executor, and with it this service, hears of the end of the run before
\* the chat has a next turn.
RunEnds(t) ==
    /\ app # "down" /\ active[t].stage = "running" /\ ~Blocked(t)
    /\ \E succeeded \in BOOLEAN : Settles(t, succeeded)

\* Somebody interrupts the run, or cancels it in the queue.
RunInterrupted(t) ==
    /\ app # "down" /\ active[t].stage \in {"queued", "running"}
    /\ Settles(t, FALSE)

\* Somebody talks to the agent of the chat; scheduled prompts in its queue go first.
ChatBegins ==
    /\ app = "ready" /\ chat = "free"
    /\ \A t \in Tasks : active[t].stage # "queued"
    /\ chat' = "chat"
    /\ UNCHANGED <<policy, store, now, app, timer, active, waiters, call, crashes>>

ChatEnds ==
    /\ app # "down" /\ chat = "chat" /\ ~Blocked("chat")
    /\ chat' = "free"
    /\ UNCHANGED <<policy, store, now, app, timer, active, waiters, call, crashes>>

-----------------------------------------------------------------------------
(* The daemon.                                                             *)

StopsTimers == timer' = [t \in Tasks |-> 0]

\* close: nothing may be admitted any more; ScheduledTaskService.shutdown comes
\* when startup recovery has finished.
Closes ==
    /\ app \in {"starting", "ready"}
    /\ \/ app = "ready" /\ app' = "stopped" /\ StopsTimers
       \/ app = "starting" /\ app' = "closing" /\ UNCHANGED timer
    /\ UNCHANGED <<policy, store, now, active, waiters, chat, call, crashes>>

RecoveryEnds ==
    /\ \/ app = "starting" /\ app' = "ready" /\ UNCHANGED timer
       \/ app = "closing" /\ app' = "stopped" /\ StopsTimers
    /\ UNCHANGED <<policy, store, now, active, waiters, chat, call, crashes>>

\* The process is gone, with all that it had in memory.
ProcessEnds ==
    /\ app' = "down"
    /\ StopsTimers
    /\ active' = [t \in Tasks |-> Nobody]
    /\ waiters' = [t \in Tasks |-> <<>>]
    /\ chat' = "free"
    /\ call' = [c \in Calls |-> [at |-> "idle", by |-> "person"]]
    /\ UNCHANGED <<policy, db, now, began>>

\* All executions have settled: the rest of close, which interrupts what is
\* left of other runs.
Terminates ==
    /\ app = "stopped" /\ \A t \in Tasks : active[t] = Nobody
    /\ ProcessEnds
    /\ UNCHANGED <<row, crashes>>

Dies ==
    /\ app # "down" /\ crashes < MaxCrashes
    /\ crashes' = crashes + 1
    /\ ProcessEnds

Crash == Dies /\ UNCHANGED row

\* It dies in executeRun, between the end of the record and finishTask.
CrashInSettle(t) ==
    /\ active[t] # Nobody
    /\ Dies
    /\ row' = [row EXCEPT ![t] = "ended"]

\* Mutant: what was running when the daemon died is left as it is.
LeavesRows == row

\* interruptActiveRuns.
InterruptedRows == [t \in Tasks |-> IF row[t] = "running" THEN "ended" ELSE row[t]]

Missed(t) == Due(t) /\ policy[t].missed = "run_once"

\* A missed run is set to the present, which is the last occurrence to have passed.
Restored(t) ==
    IF db[t].status # "active" THEN db[t]
    ELSE IF Missed(t) THEN [db[t] EXCEPT !.next = now]
    ELSE IF HasNext(db[t]) THEN After(db[t]) ELSE Completed(db[t])

\* The constructor of the service, in the constructor of the application.
Restart ==
    /\ app = "down"
    /\ app' = "starting"
    /\ row' = InterruptedRows
    /\ db' = [t \in Tasks |-> Restored(t)]
    /\ timer' = [t \in Tasks |-> Install(Restored(t), FALSE)]
    /\ UNCHANGED <<policy, began, now, active, waiters, chat, call, crashes>>

-----------------------------------------------------------------------------
User(t) ==
    \/ CreateTask(t) \/ Reschedules(t) \/ PausesTask(t) \/ EditsTask(t) \/ RemovesTask(t)
    \/ \E c \in Calls, by \in Callers : Trigger(c, t, by)

Executes(t) ==
    TimerFires(t) \/ Admitted(t) \/ Refused(t) \/ RunBegins(t) \/ RunEnds(t) \/ RunInterrupted(t)

Daemon == Closes \/ RecoveryEnds \/ Terminates \/ Crash \/ Restart

Next ==
    \/ TimePasses
    \/ \E t \in Tasks : User(t) \/ Executes(t) \/ CrashInSettle(t)
    \/ \E c \in Calls : ToolTimesOut(c)
    \/ ChatBegins \/ ChatEnds \/ ChatDeleted \/ Daemon

Spec == Init /\ [][Next]_vars

\* Timers fire, recovery and shutdown go on, and the lane of the chat reaches
\* the run that waits in it.  What keeps an agent at work is the calls it makes,
\* of which maxTurns allows so many: it ends although it may call again and again.
Fairness ==
    /\ \A t \in Tasks : /\ WF_vars(TimerFires(t))
                        /\ WF_vars(Admitted(t) \/ Refused(t))
                        /\ WF_vars(RunBegins(t)) /\ SF_vars(RunEnds(t))
    /\ \A c \in Calls : WF_vars(ToolTimesOut(c))
    /\ SF_vars(ChatEnds) /\ WF_vars(RecoveryEnds) /\ WF_vars(Terminates)

FairSpec == Spec /\ Fairness

-----------------------------------------------------------------------------
(* Properties.                                                             *)

Stages == {"preparing", "queued", "running"}

\* Every variable has its type.
TypeOK ==
    /\ policy \in Policies
    /\ db \in [Tasks -> TaskRecord]
    /\ row \in [Tasks -> {"none", "running", "ended"}]
    /\ now \in 0..MaxTime
    /\ app \in {"down", "starting", "ready", "closing", "stopped"}
    /\ timer \in [Tasks -> Nat]
    /\ active \in [Tasks -> {Nobody} \cup [stage : Stages, for : Requests]]
    /\ waiters \in [Tasks -> Seq(Requests)]
    /\ chat \in {"free", "chat"} \cup Tasks
    /\ call \in [Calls -> [at : {"idle", "waiting"}, by : {"person", "chat"} \cup Tasks]]
    /\ began \in [Tasks -> Nat]
    /\ crashes \in 0..MaxCrashes

\* A task that is active is never forgotten: it has a next occurrence, and
\* either the timer for it is armed or an execution is there whose end will
\* arm it.  A timer that is armed is one for the next occurrence, unless the
\* task has lost its chat: the store says so and the service does not know.
ActiveTasksArmed ==
    app \in {"starting", "ready", "closing"} =>
        \A t \in Tasks :
            /\ db[t].status = "active" =>
                  db[t].next # 0 /\ (timer[t] # 0 \/ active[t] # Nobody)
            /\ timer[t] # 0 => \/ db[t].status = "active" /\ db[t].next = timer[t]
                               \/ db[t].status = "detached"

\* The record of an execution is open as long as it goes on and no longer,
\* whatever happened to the daemon in between.
RecordsFollowRuns ==
    app # "down" => \A t \in Tasks : row[t] = "running" <=> active[t] # Nobody

ServiceConsistent == ActiveTasksArmed /\ RecordsFollowRuns

\* An execution of t starts in this step.
Started(t) == active'[t].stage = "preparing" /\ active[t] # active'[t]

\* An occurrence is executed once, and in its turn, with timers that are armed
\* again, edits and queued requests around it; a crash may repeat it where
\* missed runs are made up.
OccurrencesRunOnce ==
    [][\A t \in Tasks :
          LET q == active'[t].for
          IN  Started(t) /\ q.cause = "scheduled" =>
              \/ q.occ > began[t]
              \/ q.occ = began[t] /\ policy[t].missed = "run_once" /\ crashes > 0]_vars

\* Nothing starts by itself for a task that has been paused, completed or
\* removed, or has lost its chat while its timer is armed, nor during shutdown;
\* a request that has waited counts as such,
\* whoever made it.
UnwantedNeverStarts ==
    [][\A t \in Tasks :
          LET q == active'[t].for
          IN  Started(t) /\ (q.cause = "scheduled" \/ active[t] # Nobody) =>
              db'[t].status = "active" /\ app # "stopped"]_vars

\* Whoever triggers a task hears what became of it, even the agent that
\* triggers the task it is executing or one that reports to its own chat,
\* where the run waits for the caller and the caller for the run.
CallsAnswered == \A c \in Calls : call[c].at = "waiting" ~> call[c].at = "idle"

\* A task that is due is executed or skipped: it does not stay due while
\* the daemon is there.
DueTasksMoveOn ==
    \A t \in Tasks : Due(t) /\ app = "ready" ~> ~Due(t) \/ app # "ready"

Progress == CallsAnswered /\ DueTasksMoveOn

\* docs/scheduled-tasks-flow.md: a missed run can be made up after recovery.
\* So a run that is due stays due until recovery has finished.
MissedRunsMadeUp ==
    [][app = "starting" /\ app' # "down" =>
          \A t \in Tasks : Missed(t) => Due(t)']_vars

=============================================================================
