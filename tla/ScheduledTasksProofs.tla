------------------------ MODULE ScheduledTasksProofs ------------------------
(***************************************************************************)
(* Proofs about ScheduledTasks for any number of tasks, settings, calls,   *)
(* ticks and crashes.                                                      *)
(*                                                                         *)
(* That an occurrence is executed once rests on an order: what has been    *)
(* executed comes before what waits, that before what a timer is armed     *)
(* for, and all of it has passed, so that a next occurrence computed from  *)
(* the present comes after.  InTurn says so.                               *)
(***************************************************************************)
EXTENDS ScheduledTasks, TLAPS

\* Without a process, and without an execution to wait for, nothing is left.
Rest ==
    /\ app = "down" => \A t \in Tasks : active[t] = Nobody
    /\ app \in {"stopped", "down"} => \A t \in Tasks : timer[t] = 0
    /\ \A t \in Tasks : active[t] = Nobody => waiters[t] = <<>>

\* May t begin with the occurrence n?
Lawful(t, n) ==
    \/ n > began[t]
    \/ n = began[t] /\ policy[t].missed = "run_once" /\ crashes > 0

\* The i-th request that waits for t is one of the past, and in turn.
InLine(t, i) ==
    LET q == waiters[t][i]
    IN  /\ q.occ <= now
        /\ q.occ # 0 <=> q.cause = "scheduled"
        /\ q.occ # 0 => /\ Lawful(t, q.occ)
                        /\ timer[t] # 0 => q.occ < timer[t]

\* What has been executed, what waits, what the timer is armed for: in this order.
Turn(t) ==
    /\ began[t] <= now
    /\ \A i \in DOMAIN waiters[t] : InLine(t, i)
    /\ \A i, j \in DOMAIN waiters[t] :
          i < j /\ waiters[t][i].occ # 0 /\ waiters[t][j].occ # 0 =>
              waiters[t][i].occ < waiters[t][j].occ
    /\ timer[t] # 0 => Lawful(t, timer[t])
    /\ crashes = 0 /\ db[t].status = "active" /\ active[t] = Nobody =>
          db[t].next > began[t]

InTurn == \A t \in Tasks : Turn(t)

IInv == TypeOK /\ ServiceConsistent /\ Rest /\ InTurn

-----------------------------------------------------------------------------
(* What the operators return.                                              *)

LEMMA TimeType ==
    ASSUME TypeOK
    PROVE  /\ now \in Nat /\ now + 1 \in Nat /\ MaxTime \in Nat /\ now <= MaxTime
           /\ crashes \in Nat /\ MaxCrashes \in Nat
  BY TimeAssumption DEF TypeOK

LEMMA FinishTaskType ==
    ASSUME TypeOK, NEW t \in Tasks, NEW d \in TaskRecord, NEW ok \in BOOLEAN
    PROVE  /\ FinishTask(t, d, ok) \in TaskRecord
           /\ FinishTask(t, d, ok).status = "active" =>
                 FinishTask(t, d, ok).next = now + 1
           /\ d.status # "active" => FinishTask(t, d, ok).status # "active"
<1>1. policy[t].maxRuns \in Nat
  BY PolicyAssumption DEF TypeOK, Policy
<1> DEFINE c == [d EXCEPT !.runs = IF @ < policy[t].maxRuns THEN @ + 1 ELSE @]
<1>2. c \in TaskRecord /\ c.status = d.status
  BY <1>1 DEF TaskRecord
<1> HIDE DEF c
<1>3. [c EXCEPT !.next = 0] \in TaskRecord /\ [c EXCEPT !.next = 0].status = d.status
  BY <1>2 DEF TaskRecord
<1>4. Completed(c) \in TaskRecord /\ Completed(c).status = "completed"
  BY <1>2 DEF TaskRecord, Completed
<1>5. /\ After(c) \in TaskRecord
      /\ After(c).status = d.status /\ After(c).next = now + 1
  BY <1>2, TimeType DEF TaskRecord, After
<1> QED
  BY <1>2, <1>3, <1>4, <1>5 DEF FinishTask, c

LEMMA ScheduledType ==
    ASSUME TypeOK, NEW t \in Tasks, NEW d \in TaskRecord
    PROVE  /\ Scheduled(t, d) \in TaskRecord
           /\ Scheduled(t, d).status = "active" /\ Scheduled(t, d).next = now + 1
<1> DEFINE e == [d EXCEPT !.last = IF policy[t].once THEN now + 1 ELSE MaxTime,
                          !.status = "active"]
<1>1. e \in TaskRecord /\ e.status = "active"
  BY TimeType DEF TaskRecord
<1> HIDE DEF e
<1>2. After(e) \in TaskRecord /\ After(e).status = e.status /\ After(e).next = now + 1
  BY <1>1, TimeType DEF After, TaskRecord
<1> QED
  BY <1>1, <1>2 DEF Scheduled, e

LEMMA RestoredType ==
    ASSUME TypeOK, NEW t \in Tasks
    PROVE  /\ Restored(t) \in TaskRecord
           /\ Restored(t).status = "active" =>
                 /\ db[t].status = "active"
                 /\ \/ Restored(t).next = now + 1
                    \/ Restored(t).next = now /\ db[t].next \in 1..now
                       /\ policy[t].missed = "run_once"
<1>1. db[t] \in TaskRecord
  BY DEF TypeOK
<1>2. [db[t] EXCEPT !.next = now] \in TaskRecord /\ [db[t] EXCEPT !.next = now].next = now
  BY <1>1, TimeType DEF TaskRecord
<1>3. Completed(db[t]) \in TaskRecord /\ Completed(db[t]).status = "completed"
  BY <1>1 DEF TaskRecord, Completed
<1>4. After(db[t]) \in TaskRecord /\ After(db[t]).next = now + 1
  BY <1>1, TimeType DEF TaskRecord, After
<1>5. Missed(t) => db[t].next \in 1..now /\ policy[t].missed = "run_once"
  BY DEF Missed, Due
<1> QED
  BY <1>1, <1>2, <1>3, <1>4, <1>5 DEF Restored

\* A task that is active has its chat, and keeps it.
LEMMA ChatOfTaskType ==
    ASSUME TypeOK, NEW t \in Tasks
    PROVE  /\ Attached(db[t]) \in TaskRecord
           /\ Attached(db[t]).status = "active" => Attached(db[t]) = db[t]
           /\ Detached(t) \in TaskRecord
           /\ Detached(t) = db[t] \/ Detached(t).status = "detached"
<1>1. db[t] \in TaskRecord
  BY DEF TypeOK
<1>2. /\ [db[t] EXCEPT !.status = "paused"] \in TaskRecord
      /\ [db[t] EXCEPT !.status = "paused"].status = "paused"
  BY <1>1 DEF TaskRecord
<1>3. /\ [db[t] EXCEPT !.status = "detached", !.next = 0] \in TaskRecord
      /\ [db[t] EXCEPT !.status = "detached", !.next = 0].status = "detached"
  BY <1>1 DEF TaskRecord
<1> QED
  BY <1>1, <1>2, <1>3 DEF Attached, Detached

LEMMA InstallType ==
    ASSUME NEW d \in TaskRecord, NEW busy \in BOOLEAN
    PROVE  /\ Install(d, busy) \in Nat
           /\ Install(d, busy) # 0 =>
                 d.status = "active" /\ Install(d, busy) = d.next /\ app # "stopped" /\ ~busy
           /\ d.status = "active" /\ app # "stopped" /\ ~busy => Install(d, busy) = d.next
  BY DEF Install, TaskRecord


-----------------------------------------------------------------------------
(* Type correctness.                                                       *)

CallTable == [Calls -> [at : {"idle", "waiting"}, by : {"person", "chat"} \cup Tasks]]

LEMMA AnsweredType ==
    ASSUME NEW calls \in CallTable, NEW done, NEW r
    PROVE  Answered(calls, done, r) \in CallTable
  BY DEF Answered, CallTable

LEMMA BeginType ==
    ASSUME TypeOK, NEW t \in Tasks, NEW q \in Requests, Begin(t, q)
    PROVE  /\ active' \in [Tasks -> {Nobody} \cup [stage : Stages, for : Requests]]
           /\ row' \in [Tasks -> {"none", "running", "ended"}]
           /\ began' \in [Tasks -> Nat]
  BY DEF TypeOK, Begin, Execution, Stages, Requests

LEMMA StartRunType ==
    ASSUME TypeOK, NEW t \in Tasks, NEW q \in Requests, NEW calls \in CallTable,
           StartRun(t, q, calls)
    PROVE  /\ active' \in [Tasks -> {Nobody} \cup [stage : Stages, for : Requests]]
           /\ row' \in [Tasks -> {"none", "running", "ended"}]
           /\ began' \in [Tasks -> Nat]
           /\ waiters' \in [Tasks -> Seq(Requests)]
           /\ call' \in CallTable
<1>1. CASE StartsAtOnce(t, q, calls)
  BY <1>1, BeginType DEF StartsAtOnce, TypeOK
<1>2. CASE WaitsForEnd(t, q, calls)
  BY <1>2 DEF WaitsForEnd, TypeOK
<1>3. CASE IsSkipped(t, q, calls)
  BY <1>3, AnsweredType DEF IsSkipped, TypeOK
<1> QED
  BY <1>1, <1>2, <1>3 DEF StartRun

LEMMA SettlesType ==
    ASSUME TypeOK, NEW t \in Tasks, NEW ok \in BOOLEAN, Settles(t, ok)
    PROVE  TypeOK'
<1> DEFINE d == FinishTask(t, db[t], ok)
<1>1. db[t] \in TaskRecord /\ call \in CallTable
  BY DEF TypeOK, CallTable
<1>2. d \in TaskRecord /\ Install(d, FALSE) \in Nat
  BY <1>1, FinishTaskType, InstallType
<1>3. CASE waiters[t] # <<>> /\ GoesOn(d)
  <2>1. waiters[t] \in Seq(Requests) /\ waiters[t] # <<>>
    BY <1>3 DEF TypeOK
  <2>2. Head(waiters[t]) \in Requests /\ Tail(waiters[t]) \in Seq(Requests)
    BY <2>1
  <2>3. /\ Begin(t, Head(waiters[t]))
        /\ waiters' = [waiters EXCEPT ![t] = Tail(waiters[t])]
        /\ call' = Answered(call, {active[t].for.call}, t)
    BY <1>3 DEF Settles
  <2>4. call' \in CallTable
    BY <1>1, <2>3, AnsweredType
  <2> HIDE DEF d
  <2> QED
    BY <1>2, <2>2, <2>3, <2>4, BeginType DEF TypeOK, Settles, CallTable, d
<1>4. CASE ~(waiters[t] # <<>> /\ GoesOn(d))
  <2>1. /\ active' = [active EXCEPT ![t] = Nobody]
        /\ row' = [row EXCEPT ![t] = "ended"]
        /\ waiters' = [waiters EXCEPT ![t] = <<>>]
        /\ began' = began
    BY <1>4 DEF Settles
  <2>2. call' \in CallTable
    BY <1>1, <1>4, AnsweredType DEF Settles
  <2>3. <<>> \in Seq(Requests)
    OBVIOUS
  <2>4. /\ db' = [db EXCEPT ![t] = d]
        /\ timer' = [timer EXCEPT ![t] = Install(d, FALSE)]
        /\ chat' = IF chat = t THEN "free" ELSE chat
        /\ UNCHANGED <<policy, now, app, crashes>>
    BY DEF Settles
  <2> HIDE DEF d
  <2> QED
    BY <1>2, <2>1, <2>2, <2>3, <2>4 DEF TypeOK, CallTable
<1> QED
  BY <1>3, <1>4

LEMMA ChangesType ==
    ASSUME TypeOK, NEW t \in Tasks, NEW d \in TaskRecord, Changes(t, d)
    PROVE  TypeOK'
  BY InstallType DEF TypeOK, Changes

LEMMA ProcessEndsType ==
    ASSUME TypeOK, ProcessEnds, UNCHANGED row \/ row' \in [Tasks -> {"none", "running", "ended"}],
           crashes' \in 0..MaxCrashes
    PROVE  TypeOK'
  BY DEF TypeOK, ProcessEnds, StopsTimers


LEMMA InitType == Init => TypeOK
<1> SUFFICES ASSUME Init PROVE TypeOK
  OBVIOUS
<1>1. NoTask \in TaskRecord
  BY DEF NoTask, TaskRecord
<1>2. <<>> \in Seq(Requests)
  OBVIOUS
<1> QED
  BY <1>1, <1>2, TimeAssumption DEF Init, TypeOK

LEMMA NextType == TypeOK /\ [Next]_vars => TypeOK'
<1> SUFFICES ASSUME TypeOK, [Next]_vars PROVE TypeOK'
  OBVIOUS
<1>r. \A t \in Tasks : db[t] \in TaskRecord
  BY DEF TypeOK
<1>c. call \in CallTable
  BY DEF TypeOK, CallTable
<1>s. ASSUME NEW t \in Tasks, active[t].stage \in Stages, NEW s \in Stages
      PROVE  [active[t] EXCEPT !.stage = s] \in [stage : Stages, for : Requests]
  <2>1. active[t] \in {Nobody} \cup [stage : Stages, for : Requests]
    BY DEF TypeOK
  <2>2. active[t] # Nobody
    BY <1>s DEF Nobody, Stages
  <2>3. active[t] \in [stage : Stages, for : Requests]
    BY <2>1, <2>2
  <2> QED
    BY <2>3
<1>1. CASE TimePasses
  BY <1>1, TimeType DEF TimePasses, TypeOK, store, service
<1>2. ASSUME NEW t \in Tasks, CreateTask(t) PROVE TypeOK'
  BY <1>2, <1>r, ScheduledType, ChangesType DEF CreateTask
<1>3. ASSUME NEW t \in Tasks, Reschedules(t) PROVE TypeOK'
  BY <1>3, <1>r, ScheduledType, ChangesType DEF Reschedules
<1>4. ASSUME NEW t \in Tasks, PausesTask(t) PROVE TypeOK'
  <2>1. [db[t] EXCEPT !.status = "paused", !.next = 0] \in TaskRecord
    BY <1>r DEF TaskRecord
  <2> QED
    BY <1>4, <2>1, ChangesType DEF PausesTask
<1>5. ASSUME NEW t \in Tasks, EditsTask(t) PROVE TypeOK'
  BY <1>5, ChatOfTaskType, ChangesType DEF EditsTask
<1>6. ASSUME NEW t \in Tasks, RemovesTask(t) PROVE TypeOK'
  <2>1. NoTask \in TaskRecord
    BY DEF NoTask, TaskRecord
  <2> QED
    BY <1>6, <2>1, ChangesType DEF RemovesTask
<1>7. ASSUME NEW t \in Tasks, NEW c \in Calls, NEW by \in Callers, Trigger(c, t, by)
      PROVE  TypeOK'
  <2>1. by \in {"person", "chat"} \cup Tasks
    BY DEF Callers
  <2>2. Waiting(call, c, by) \in CallTable
    BY <1>c, <2>1 DEF Waiting, CallTable
  <2>3. [cause |-> "manual", occ |-> 0, call |-> c] \in Requests
    BY DEF Requests
  <2> QED
    BY <1>7, <2>2, <2>3, StartRunType DEF Trigger, TypeOK, CallTable
<1>8. ASSUME NEW t \in Tasks, TimerFires(t) PROVE TypeOK'
  <2>1. CASE db[t].status = "active" /\ db[t].next = timer[t]
    <3>1. [cause |-> "scheduled", occ |-> db[t].next, call |-> NoCall] \in Requests
      BY <1>r DEF Requests, TaskRecord
    <3>2. /\ StartRun(t, [cause |-> "scheduled", occ |-> db[t].next, call |-> NoCall], call)
          /\ timer' = [timer EXCEPT ![t] = 0]
          /\ UNCHANGED <<policy, db, now, app, chat, crashes>>
      BY <1>8, <2>1 DEF TimerFires
    <3>3. call' \in CallTable
      BY <1>c, <3>1, <3>2, StartRunType
    <3> QED
      BY <1>c, <3>1, <3>2, <3>3, StartRunType DEF TypeOK, CallTable
  <2>2. CASE ~(db[t].status = "active" /\ db[t].next = timer[t])
    <3>1. /\ timer' = [timer EXCEPT ![t] = Install(db[t], active[t] # Nobody)]
          /\ UNCHANGED <<active, row, began, waiters, call, policy, db, now, app, chat, crashes>>
      BY <1>8, <2>2 DEF TimerFires
    <3>2. Install(db[t], active[t] # Nobody) \in Nat
      BY <1>r, InstallType
    <3> QED
      BY <3>1, <3>2 DEF TypeOK
  <2> QED
    BY <2>1, <2>2
<1>9. ASSUME NEW t \in Tasks, Admitted(t) PROVE TypeOK'
  <2>1. PICK s \in Stages : active' = [active EXCEPT ![t] = [@ EXCEPT !.stage = s]]
    BY <1>9 DEF Admitted, Stages
  <2>2. [active[t] EXCEPT !.stage = s] \in [stage : Stages, for : Requests]
    BY <1>9, <1>s DEF Admitted, Stages
  <2> QED
    BY <1>9, <2>1, <2>2 DEF Admitted, TypeOK, store
<1>10. ASSUME NEW t \in Tasks, Refused(t) PROVE TypeOK'
  BY <1>10, SettlesType DEF Refused
<1>11. ASSUME NEW t \in Tasks, RunBegins(t) PROVE TypeOK'
  <2>1. [active[t] EXCEPT !.stage = "running"] \in [stage : Stages, for : Requests]
    BY <1>11, <1>s DEF RunBegins, Stages
  <2> QED
    BY <1>11, <2>1 DEF RunBegins, TypeOK, store
<1>12. ASSUME NEW t \in Tasks, RunEnds(t) PROVE TypeOK'
  BY <1>12, SettlesType DEF RunEnds
<1>13. ASSUME NEW t \in Tasks, RunInterrupted(t) PROVE TypeOK'
  BY <1>13, SettlesType DEF RunInterrupted
<1>14. ASSUME NEW t \in Tasks, CrashInSettle(t) PROVE TypeOK'
  <2>1. row' \in [Tasks -> {"none", "running", "ended"}]
    BY <1>14 DEF CrashInSettle, TypeOK
  <2> QED
    BY <1>14, <2>1, ProcessEndsType, TimeType DEF CrashInSettle, Dies
<1>15. ASSUME NEW c \in Calls, ToolTimesOut(c) PROVE TypeOK'
  BY <1>15 DEF ToolTimesOut, TypeOK, store
<1>16. CASE ChatBegins \/ ChatEnds
  BY <1>16 DEF ChatBegins, ChatEnds, TypeOK, store
<1>17. CASE Closes \/ RecoveryEnds
  BY <1>17 DEF Closes, RecoveryEnds, StopsTimers, TypeOK, store
<1>18. CASE Terminates
  BY <1>18, ProcessEndsType DEF Terminates, TypeOK
<1>19. CASE Crash
  BY <1>19, ProcessEndsType, TimeType DEF Crash, Dies, TypeOK
<1>20. CASE Restart
  BY <1>20, RestoredType, InstallType DEF Restart, InterruptedRows, TypeOK
<1>21. CASE ChatDeleted
  BY <1>21, ChatOfTaskType DEF ChatDeleted, service, TypeOK
<1>22. CASE UNCHANGED vars
  BY <1>22 DEF vars, store, service, TypeOK
<1> QED
  BY <1>1, <1>2, <1>3, <1>4, <1>5, <1>6, <1>7, <1>8, <1>9, <1>10, <1>11, <1>12, <1>13,
     <1>14, <1>15, <1>16, <1>17, <1>18, <1>19, <1>20, <1>21, <1>22
  DEF Next, User, Executes, Daemon


-----------------------------------------------------------------------------
(* What the procedures do to the task they work on, and to no other.       *)

LEMMA ExecutionIsSomebody == \A q : Execution(q) # Nobody /\ Execution(q).stage = "preparing"
                                    /\ Execution(q).for = q
  BY DEF Execution, Nobody

LEMMA BeginEffect ==
    ASSUME TypeOK, NEW t \in Tasks, NEW q \in Requests, Begin(t, q)
    PROVE  /\ active'[t] = Execution(q) /\ row'[t] = "running"
           /\ began'[t] = IF q.occ = 0 THEN began[t] ELSE q.occ
           /\ \A u \in Tasks \ {t} :
                 active'[u] = active[u] /\ row'[u] = row[u] /\ began'[u] = began[u]
  BY DEF TypeOK, Begin

LEMMA StartRunEffect ==
    ASSUME TypeOK, NEW t \in Tasks, NEW q \in Requests, NEW calls, StartRun(t, q, calls)
    PROVE  /\ \/ /\ active[t] = Nobody /\ active'[t] = Execution(q)
                 /\ row'[t] = "running" /\ waiters'[t] = waiters[t]
                 /\ began'[t] = IF q.occ = 0 THEN began[t] ELSE q.occ
              \/ /\ active[t] # Nobody /\ active'[t] = active[t]
                 /\ row'[t] = row[t] /\ began'[t] = began[t]
                 /\ waiters'[t] \in {waiters[t], Append(waiters[t], q)}
           /\ \A u \in Tasks \ {t} : /\ active'[u] = active[u] /\ row'[u] = row[u]
                                     /\ began'[u] = began[u] /\ waiters'[u] = waiters[u]
<1>1. CASE StartsAtOnce(t, q, calls)
  BY <1>1, BeginEffect DEF StartsAtOnce
<1>2. CASE WaitsForEnd(t, q, calls)
  BY <1>2 DEF WaitsForEnd, TypeOK
<1>3. CASE IsSkipped(t, q, calls)
  BY <1>3 DEF IsSkipped
<1> QED
  BY <1>1, <1>2, <1>3 DEF StartRun

\* The execution of t is over and the first request that waited goes on.
HandsOver(t) ==
    /\ waiters[t] # <<>> /\ Head(waiters[t]) \in Requests
    /\ db'[t].status = "active" /\ app # "stopped"
    /\ active'[t] = Execution(Head(waiters[t])) /\ row'[t] = "running"
    /\ waiters'[t] = Tail(waiters[t])
    /\ began'[t] = IF Head(waiters[t]).occ = 0 THEN began[t] ELSE Head(waiters[t]).occ

\* It is over and nobody goes on.
LaysDown(t) ==
    /\ active'[t] = Nobody /\ row'[t] = "ended"
    /\ waiters'[t] = <<>> /\ began'[t] = began[t]

Settled(t) ==
    /\ HandsOver(t) \/ LaysDown(t)
    /\ db'[t] \in TaskRecord
    /\ db'[t].status = "active" => db[t].status = "active" /\ db'[t].next = now + 1
    /\ timer'[t] = Install(db'[t], FALSE)
    /\ \A u \in Tasks \ {t} : /\ active'[u] = active[u] /\ row'[u] = row[u]
                              /\ began'[u] = began[u] /\ waiters'[u] = waiters[u]
                              /\ db'[u] = db[u] /\ timer'[u] = timer[u]
    /\ UNCHANGED <<policy, now, app, crashes>>

LEMMA SettlesEffect ==
    ASSUME TypeOK, NEW t \in Tasks, NEW ok \in BOOLEAN, Settles(t, ok)
    PROVE  Settled(t)
<1> DEFINE d == FinishTask(t, db[t], ok)
<1>1. db[t] \in TaskRecord
  BY DEF TypeOK
<1>2. /\ d \in TaskRecord
      /\ d.status = "active" => db[t].status = "active" /\ d.next = now + 1
  BY <1>1, FinishTaskType
<1>3. /\ db' = [db EXCEPT ![t] = d]
      /\ timer' = [timer EXCEPT ![t] = Install(d, FALSE)]
      /\ UNCHANGED <<policy, now, app, crashes>>
  BY DEF Settles
<1>4. /\ db'[t] = d /\ timer'[t] = Install(d, FALSE)
      /\ \A u \in Tasks \ {t} : db'[u] = db[u] /\ timer'[u] = timer[u]
  BY <1>3 DEF TypeOK
<1>5. CASE waiters[t] # <<>> /\ GoesOn(d)
  <2>1. waiters[t] \in Seq(Requests) /\ Head(waiters[t]) \in Requests
    BY <1>5 DEF TypeOK
  <2>2. /\ Begin(t, Head(waiters[t]))
        /\ waiters' = [waiters EXCEPT ![t] = Tail(waiters[t])]
        /\ d.status = "active" /\ app # "stopped"
    BY <1>5 DEF Settles, GoesOn
  <2>3. /\ waiters'[t] = Tail(waiters[t])
        /\ \A u \in Tasks \ {t} : waiters'[u] = waiters[u]
    BY <2>2 DEF TypeOK
  <2> HIDE DEF d
  <2> QED
    BY <1>2, <1>3, <1>4, <1>5, <2>1, <2>2, <2>3, BeginEffect DEF Settled, HandsOver
<1>6. CASE ~(waiters[t] # <<>> /\ GoesOn(d))
  <2>1. /\ active' = [active EXCEPT ![t] = Nobody]
        /\ row' = [row EXCEPT ![t] = "ended"]
        /\ waiters' = [waiters EXCEPT ![t] = <<>>]
        /\ began' = began
    BY <1>6 DEF Settles
  <2> HIDE DEF d
  <2> QED
    BY <1>2, <1>3, <1>4, <2>1 DEF TypeOK, Settled, LaysDown
<1> QED
  BY <1>5, <1>6

LEMMA ChangesEffect ==
    ASSUME TypeOK, NEW t \in Tasks, NEW d \in TaskRecord, Changes(t, d)
    PROVE  /\ app = "ready"
           /\ db'[t] = d /\ timer'[t] = Install(d, active[t] # Nobody)
           /\ \A u \in Tasks \ {t} : db'[u] = db[u] /\ timer'[u] = timer[u]
           /\ UNCHANGED <<policy, row, began, now, app, active, waiters, crashes>>
  BY DEF Changes, TypeOK

LEMMA ProcessEndsEffect ==
    ASSUME ProcessEnds
    PROVE  /\ app' = "down"
           /\ \A t \in Tasks : active'[t] = Nobody /\ timer'[t] = 0 /\ waiters'[t] = <<>>
           /\ UNCHANGED <<policy, db, now, began>>
  BY DEF ProcessEnds, StopsTimers


-----------------------------------------------------------------------------
(* Timers, executions and their records.                                   *)

Consistent == ServiceConsistent /\ Rest

LEMMA SettlesConsistent ==
    ASSUME TypeOK, Consistent, NEW t \in Tasks, NEW ok \in BOOLEAN, Settles(t, ok),
           app # "down"
    PROVE  Consistent'
<1>s. Settled(t)
  BY SettlesEffect
<1>1. \A q : Execution(q) # Nobody
  BY ExecutionIsSomebody
<1>2. /\ db'[t] \in TaskRecord
      /\ timer'[t] = Install(db'[t], FALSE)
      /\ db'[t].status = "active" => db'[t].next = now + 1
      /\ now + 1 # 0
      /\ app' = app
  BY <1>s, TimeType DEF Settled
<1>3. /\ timer'[t] # 0 => db'[t].status = "active" /\ timer'[t] = db'[t].next /\ app # "stopped"
      /\ db'[t].status = "active" /\ app # "stopped" => timer'[t] = db'[t].next
  BY <1>2, InstallType
<1>4. ActiveTasksArmed'
  BY <1>s, <1>2, <1>3 DEF Settled, Consistent, ServiceConsistent, ActiveTasksArmed
<1>5. RecordsFollowRuns'
  BY <1>s, <1>1, <1>2
  DEF Settled, HandsOver, LaysDown, Consistent, ServiceConsistent, RecordsFollowRuns
<1>6. Rest'
  <2>1. app' = "stopped" => \A u \in Tasks : timer'[u] = 0
    BY <1>s, <1>2, <1>3 DEF Settled, Consistent, Rest
  <2>2. ASSUME NEW u \in Tasks, active'[u] = Nobody PROVE waiters'[u] = <<>>
    BY <1>s, <1>1, <2>2 DEF Settled, HandsOver, LaysDown, Consistent, Rest
  <2> QED
    BY <1>2, <2>1, <2>2 DEF Rest
<1> QED
  BY <1>4, <1>5, <1>6 DEF Consistent, ServiceConsistent

LEMMA ChangesConsistent ==
    ASSUME TypeOK, Consistent, NEW t \in Tasks, NEW d \in TaskRecord, Changes(t, d),
           d.status = "active" => d.next # 0
    PROVE  Consistent'
<1> USE DEF Consistent, ServiceConsistent, Rest
<1>1. /\ timer'[t] # 0 => d.status = "active" /\ timer'[t] = d.next /\ active[t] = Nobody
      /\ d.status = "active" /\ active[t] = Nobody => timer'[t] = d.next
      /\ app = "ready"
  BY ChangesEffect, InstallType
<1>2. ActiveTasksArmed'
  BY <1>1, ChangesEffect DEF ActiveTasksArmed
<1>3. RecordsFollowRuns' /\ Rest'
  BY <1>1, ChangesEffect DEF RecordsFollowRuns
<1> QED
  BY <1>2, <1>3

LEMMA NextConsistent ==
    TypeOK /\ TypeOK' /\ Consistent /\ [Next]_vars => Consistent'
<1> SUFFICES ASSUME TypeOK, TypeOK', Consistent, [Next]_vars PROVE Consistent'
  OBVIOUS
<1>r. \A t \in Tasks : db[t] \in TaskRecord
  BY DEF TypeOK
<1>n. now + 1 # 0
  BY TimeType
<1>e. \A q : Execution(q) # Nobody
  BY ExecutionIsSomebody
<1> USE DEF Consistent, ServiceConsistent, ActiveTasksArmed, RecordsFollowRuns, Rest
<1>1. CASE TimePasses
  BY <1>1 DEF TimePasses, store, service
<1>2. ASSUME NEW t \in Tasks, CreateTask(t) PROVE Consistent'
  BY <1>2, <1>r, <1>n, ScheduledType, ChangesConsistent DEF CreateTask
<1>3. ASSUME NEW t \in Tasks, Reschedules(t) PROVE Consistent'
  BY <1>3, <1>r, <1>n, ScheduledType, ChangesConsistent DEF Reschedules
<1>4. ASSUME NEW t \in Tasks, PausesTask(t) PROVE Consistent'
  <2>1. /\ [db[t] EXCEPT !.status = "paused", !.next = 0] \in TaskRecord
        /\ [db[t] EXCEPT !.status = "paused", !.next = 0].status = "paused"
    BY <1>r DEF TaskRecord
  <2> QED
    BY <1>4, <2>1, ChangesConsistent DEF PausesTask
<1>5. ASSUME NEW t \in Tasks, EditsTask(t) PROVE Consistent'
  BY <1>5, ChatOfTaskType, ChangesConsistent DEF EditsTask, Changes
<1>6. ASSUME NEW t \in Tasks, RemovesTask(t) PROVE Consistent'
  <2>1. NoTask \in TaskRecord /\ NoTask.status = "absent"
    BY DEF NoTask, TaskRecord
  <2> QED
    BY <1>6, <2>1, ChangesConsistent DEF RemovesTask
<1>7. ASSUME NEW t \in Tasks, NEW c \in Calls, NEW by \in Callers, Trigger(c, t, by)
      PROVE  Consistent'
  <2>1. [cause |-> "manual", occ |-> 0, call |-> c] \in Requests
    BY DEF Requests
  <2>2. /\ StartRun(t, [cause |-> "manual", occ |-> 0, call |-> c], Waiting(call, c, by))
        /\ app = "ready" /\ UNCHANGED <<db, app, timer>>
    BY <1>7 DEF Trigger
  <2> QED
    BY <1>e, <2>1, <2>2, StartRunEffect
<1>8. ASSUME NEW t \in Tasks, TimerFires(t) PROVE Consistent'
  <2>1. CASE db[t].status = "active" /\ db[t].next = timer[t]
    <3>1. [cause |-> "scheduled", occ |-> db[t].next, call |-> NoCall] \in Requests
      BY <1>r DEF Requests, TaskRecord
    <3>2. /\ StartRun(t, [cause |-> "scheduled", occ |-> db[t].next, call |-> NoCall], call)
          /\ timer'[t] = 0 /\ \A u \in Tasks \ {t} : timer'[u] = timer[u]
          /\ app # "down" /\ UNCHANGED <<db, app>>
      BY <1>8, <2>1 DEF TimerFires, TypeOK
    <3> QED
      BY <1>e, <3>1, <3>2, StartRunEffect
  <2>2. CASE ~(db[t].status = "active" /\ db[t].next = timer[t])
    <3>1. /\ timer[t] # 0 /\ app # "down" /\ UNCHANGED <<active, row, waiters, db, app>>
          /\ timer'[t] = Install(db[t], active[t] # Nobody)
          /\ \A u \in Tasks \ {t} : timer'[u] = timer[u]
      BY <1>8, <2>2 DEF TimerFires, TypeOK
    <3>2. timer'[t] # 0 => db[t].status = "active" /\ timer'[t] = db[t].next /\ app # "stopped"
      BY <1>r, <3>1, InstallType
    <3>3. db[t].status = "active" => app \notin {"starting", "ready", "closing"}
      BY <2>2, <3>1
    <3> QED
      BY <3>1, <3>2, <3>3
  <2> QED
    BY <2>1, <2>2
<1>9. ASSUME NEW t \in Tasks, Admitted(t) \/ RunBegins(t) PROVE Consistent'
  <2>1. PICK s \in {"queued", "running"} : active' = [active EXCEPT ![t].stage = s]
    BY <1>9 DEF Admitted, RunBegins
  <2>2. active[t] # Nobody /\ active'[t] # Nobody
    BY <1>9, <2>1 DEF Admitted, RunBegins, TypeOK, Nobody
  <2> QED
    BY <1>9, <2>1, <2>2 DEF Admitted, RunBegins, TypeOK, store
<1>10. ASSUME NEW t \in Tasks, Refused(t) \/ RunEnds(t) \/ RunInterrupted(t) PROVE Consistent'
  BY <1>10, SettlesConsistent DEF Refused, RunEnds, RunInterrupted
<1>11. ASSUME NEW t \in Tasks, CrashInSettle(t) PROVE Consistent'
  BY <1>11, ProcessEndsEffect DEF CrashInSettle, Dies
<1>12. ASSUME NEW c \in Calls, ToolTimesOut(c) PROVE Consistent'
  BY <1>12 DEF ToolTimesOut, store
<1>13. CASE ChatBegins \/ ChatEnds
  BY <1>13 DEF ChatBegins, ChatEnds, store
<1>14. CASE Closes \/ RecoveryEnds
  BY <1>14 DEF Closes, RecoveryEnds, StopsTimers, store
<1>15. CASE Terminates \/ Crash
  BY <1>15, ProcessEndsEffect DEF Terminates, Crash, Dies
<1>16. CASE Restart
  <2>1. /\ app = "down" /\ app' = "starting"
        /\ \A t \in Tasks : /\ db'[t] = Restored(t) /\ timer'[t] = Install(Restored(t), FALSE)
                            /\ row'[t] # "running"
        /\ UNCHANGED <<active, waiters>>
    BY <1>16 DEF Restart, InterruptedRows
  <2>2. \A t \in Tasks : Restored(t).status = "active" => Restored(t).next # 0
    BY <1>n, RestoredType, TimeType
  <2>3. \A t \in Tasks :
           /\ timer'[t] # 0 => Restored(t).status = "active" /\ timer'[t] = Restored(t).next
           /\ Restored(t).status = "active" => timer'[t] = Restored(t).next
    <3> TAKE t \in Tasks
    <3>1. Restored(t) \in TaskRecord /\ app # "stopped"
      BY <2>1, RestoredType
    <3> QED
      BY <2>1, <3>1, InstallType
  <2> QED
    BY <2>1, <2>2, <2>3
<1>17. CASE ChatDeleted
  <2>1. /\ \A t \in Tasks : db'[t] = db[t] \/ db'[t].status = "detached"
        /\ UNCHANGED <<row, app, timer, active, waiters>>
    BY <1>17, ChatOfTaskType DEF ChatDeleted, service
  <2> QED
    BY <2>1
<1>18. CASE UNCHANGED vars
  BY <1>18 DEF vars, store, service
<1> QED
  BY <1>1, <1>2, <1>3, <1>4, <1>5, <1>6, <1>7, <1>8, <1>9, <1>10, <1>11, <1>12, <1>13,
     <1>14, <1>15, <1>16, <1>17, <1>18
  DEF Next, User, Executes, Daemon


-----------------------------------------------------------------------------
(* Occurrences in their order.                                             *)

LEMMA WaiterType ==
    ASSUME TypeOK, NEW t \in Tasks
    PROVE  /\ waiters[t] \in Seq(Requests)
           /\ \A i \in DOMAIN waiters[t] :
                 waiters[t][i] \in Requests /\ waiters[t][i].occ \in Nat
<1>1. waiters[t] \in Seq(Requests)
  BY DEF TypeOK
<1>2. \A i \in DOMAIN waiters[t] : waiters[t][i] \in Requests
  BY <1>1
<1>3. \A q \in Requests : q.occ \in Nat
  BY DEF Requests
<1> QED
  BY <1>1, <1>2, <1>3

\* Steps that leave the task alone, or forget who waits for it.
LEMMA TurnKept ==
    ASSUME TypeOK, TypeOK', NEW t \in Tasks, Turn(t),
           policy' = policy, began'[t] = began[t], now <= now', crashes <= crashes',
           waiters'[t] \in {waiters[t], <<>>},
           timer'[t] \in {0, timer[t]},
           crashes' = 0 /\ db'[t].status = "active" /\ active'[t] = Nobody =>
               db'[t].next > began[t]
    PROVE  Turn(t)'
<1>1. \A n : Lawful(t, n) => Lawful(t, n)'
  BY TimeType DEF Lawful, TypeOK
<1>2. now \in Nat /\ now' \in Nat /\ began[t] \in Nat
  BY TimeType DEF TypeOK
<1>3. CASE waiters'[t] = <<>>
  BY <1>1, <1>2, <1>3 DEF Turn
<1>4. CASE waiters'[t] = waiters[t]
  <2>1. \A i \in DOMAIN waiters[t] : waiters[t][i].occ \in Nat
    BY WaiterType
  <2>2. \A i \in DOMAIN waiters'[t] : InLine(t, i)'
    BY <1>1, <1>2, <1>4, <2>1 DEF Turn, InLine
  <2> QED
    BY <1>1, <1>2, <1>4, <2>2 DEF Turn
<1> QED
  BY <1>3, <1>4

\* A request of a person, or that of the timer.
LEMMA TurnStarts ==
    ASSUME TypeOK, TypeOK', Rest, NEW t \in Tasks, Turn(t), NEW q \in Requests, NEW calls,
           StartRun(t, q, calls),
           q.occ # 0 <=> q.cause = "scheduled",
           q.occ # 0 => q.occ = timer[t] /\ q.occ <= now /\ timer'[t] = 0,
           timer'[t] \in {0, timer[t]},
           UNCHANGED <<policy, now, crashes>>
    PROVE  Turn(t)'
<1>1. active'[t] # Nobody
  BY StartRunEffect, ExecutionIsSomebody
<1>2. q.occ \in Nat /\ began[t] \in Nat /\ now \in Nat /\ waiters[t] \in Seq(Requests)
  BY TimeType DEF TypeOK, Requests
<1>3. CASE active[t] = Nobody
  <2>1. waiters[t] = <<>> /\ waiters'[t] = <<>>
        /\ began'[t] = IF q.occ = 0 THEN began[t] ELSE q.occ
    BY <1>3, StartRunEffect DEF Rest
  <2> QED
    BY <1>1, <1>2, <2>1 DEF Turn, Lawful
<1>4. CASE active[t] # Nobody /\ waiters'[t] = waiters[t]
  <2>1. began'[t] = began[t]
    BY <1>4, StartRunEffect
  <2> QED
    BY <1>1, <1>4, <2>1, TurnKept, TimeType
<1>5. CASE active[t] # Nobody /\ waiters'[t] = Append(waiters[t], q)
  <2>1. began'[t] = began[t]
    BY <1>5, StartRunEffect
  <2> DEFINE n == Len(waiters[t])
  <2>2. /\ n \in Nat /\ DOMAIN waiters[t] = 1..n /\ DOMAIN waiters'[t] = 1..(n + 1)
        /\ \A i \in 1..n : waiters'[t][i] = waiters[t][i]
        /\ waiters'[t][n + 1] = q
    BY <1>2, <1>5
  <2>3. \A m : Lawful(t, m)' <=> Lawful(t, m)
    BY <2>1 DEF Lawful
  <2>4. \A i \in 1..n : waiters[t][i].occ \in Nat /\ InLine(t, i)
    BY <2>2, WaiterType DEF Turn
  <2>5. q.occ # 0 => Lawful(t, q.occ)
    BY DEF Turn
  <2> HIDE DEF n
  <2>7. ASSUME NEW i \in 1..(n + 1), NEW j \in 1..(n + 1), i < j,
               waiters'[t][i].occ # 0, waiters'[t][j].occ # 0
        PROVE  waiters'[t][i].occ < waiters'[t][j].occ
    <3>1. i \in 1..n
      BY <2>2, <2>7
    <3>2. CASE j \in 1..n
      BY <2>2, <2>7, <3>1, <3>2 DEF Turn
    <3>3. CASE j = n + 1
      BY <2>2, <2>4, <2>7, <3>1, <3>3 DEF InLine
    <3> QED
      BY <2>2, <3>2, <3>3
  <2>8. ASSUME NEW i \in 1..(n + 1) PROVE InLine(t, i)'
    <3>1. CASE i \in 1..n
      BY <1>2, <2>2, <2>3, <2>4, <3>1 DEF InLine
    <3>2. CASE i = n + 1
      BY <1>2, <2>2, <2>3, <2>5, <3>2 DEF InLine
    <3> QED
      BY <2>2, <3>1, <3>2
  <2> QED
    BY <1>1, <2>1, <2>2, <2>3, <2>7, <2>8 DEF Turn
<1> QED
  BY <1>3, <1>4, <1>5, StartRunEffect

LEMMA TurnSettles ==
    ASSUME TypeOK, TypeOK', NEW t \in Tasks, Turn(t), NEW ok \in BOOLEAN, Settles(t, ok)
    PROVE  Turn(t)'
<1>1. Settled(t)
  BY SettlesEffect
<1>2. /\ timer'[t] # 0 => timer'[t] = now + 1
      /\ UNCHANGED <<policy, now, crashes>>
  BY <1>1, InstallType DEF Settled
<1>3. began[t] \in Nat /\ now \in Nat /\ waiters[t] \in Seq(Requests)
  BY TimeType DEF TypeOK
<1>4. CASE LaysDown(t)
  <2>1. began'[t] = began[t] /\ waiters'[t] = <<>>
    BY <1>4 DEF LaysDown
  <2>2. db'[t].status = "active" => db'[t].next = now + 1
    BY <1>1 DEF Settled
  <2>3. began[t] <= now
    BY DEF Turn
  <2> QED
    BY <1>2, <1>3, <2>1, <2>2, <2>3 DEF Turn, Lawful
<1>5. CASE HandsOver(t)
  <2> DEFINE n == Len(waiters[t])
             W(i) == waiters[t][i]
  <2>1. /\ n \in Nat /\ DOMAIN waiters[t] = 1..n /\ n # 0
        /\ DOMAIN waiters'[t] = 1..(n - 1)
        /\ \A i \in 1..(n - 1) : waiters'[t][i] = W(i + 1)
        /\ Head(waiters[t]) = W(1)
    BY <1>3, <1>5 DEF HandsOver
  <2>2. \A i \in 1..n : /\ W(i).occ \in Nat /\ W(i).occ <= now
                        /\ W(i).occ # 0 <=> W(i).cause = "scheduled"
                        /\ W(i).occ # 0 => Lawful(t, W(i).occ)
    <3>1. \A i \in 1..n : InLine(t, i) /\ waiters[t][i].occ \in Nat
      BY <2>1, WaiterType DEF Turn
    <3> QED
      BY <3>1 DEF InLine
  <2>3. \A i, j \in 1..n : i < j /\ W(i).occ # 0 /\ W(j).occ # 0 => W(i).occ < W(j).occ
    BY <2>1 DEF Turn
  <2>4. began'[t] = IF W(1).occ = 0 THEN began[t] ELSE W(1).occ
    BY <1>5, <2>1 DEF HandsOver
  <2>5. began'[t] <= now'
    BY <1>2, <1>3, <2>1, <2>2, <2>4 DEF Turn
  <2>6. active'[t] # Nobody
    BY <1>5, ExecutionIsSomebody DEF HandsOver
  <2> HIDE DEF n, W
  <2>7. ASSUME NEW i \in 1..(n - 1) PROVE InLine(t, i)'
    <3>1. i + 1 \in 1..n /\ 1 \in 1..n /\ 1 < i + 1
      BY <2>1
    <3>2. W(i + 1).occ # 0 =>
            \/ W(i + 1).occ > began'[t]
            \/ W(i + 1).occ = began'[t] /\ policy'[t].missed = "run_once" /\ crashes' > 0
      <4>1. CASE W(1).occ = 0
        BY <1>2, <2>2, <2>4, <3>1, <4>1 DEF Lawful
      <4>2. CASE W(1).occ # 0
        BY <2>2, <2>3, <2>4, <3>1, <4>2 DEF Lawful
      <4> QED
        BY <4>1, <4>2
    <3>3. waiters'[t][i] = W(i + 1)
      BY <2>1
    <3>4. W(i + 1).occ \in Nat /\ W(i + 1).occ <= now
          /\ (W(i + 1).occ # 0 <=> W(i + 1).cause = "scheduled")
      BY <2>2, <3>1
    <3> QED
      BY <1>2, <1>3, <3>2, <3>3, <3>4 DEF InLine, Lawful
  <2>8. ASSUME NEW i \in 1..(n - 1), NEW j \in 1..(n - 1), i < j,
               waiters'[t][i].occ # 0, waiters'[t][j].occ # 0
        PROVE  waiters'[t][i].occ < waiters'[t][j].occ
    <3>1. i + 1 \in 1..n /\ j + 1 \in 1..n /\ i + 1 < j + 1
      BY <2>1, <2>8
    <3> QED
      BY <2>1, <2>3, <2>8, <3>1
  <2>9. timer'[t] # 0 => timer'[t] > began'[t]
    BY <1>2, <1>3, <2>1, <2>2, <2>4, <2>5
  <2>10. \A i \in DOMAIN waiters'[t] : InLine(t, i)'
    BY <2>1, <2>7
  <2> QED
    BY <2>1, <2>5, <2>6, <2>8, <2>9, <2>10 DEF Turn, Lawful
<1> QED
  BY <1>1, <1>4, <1>5 DEF Settled


LEMMA TurnChanges ==
    ASSUME TypeOK, TypeOK', Consistent, NEW t \in Tasks, Turn(t), NEW d \in TaskRecord,
           Changes(t, d),
           d.status = "active" => d.next = now + 1 \/ d = db[t]
    PROVE  Turn(t)'
<1>1. /\ app = "ready" /\ db'[t] = d /\ timer'[t] = Install(d, active[t] # Nobody)
      /\ UNCHANGED <<policy, began, now, active, waiters, crashes>>
  BY ChangesEffect
<1>2. /\ timer'[t] # 0 => d.status = "active" /\ timer'[t] = d.next /\ active[t] = Nobody
      /\ d.status = "active" /\ active[t] = Nobody => timer'[t] = d.next
  BY <1>1, InstallType
<1>3. began[t] \in Nat /\ now \in Nat /\ began[t] <= now
  BY TimeType DEF TypeOK, Turn
<1>4. CASE timer'[t] # 0 /\ d.next = now + 1
  <2>1. \A i \in DOMAIN waiters[t] : InLine(t, i) /\ waiters[t][i].occ \in Nat
    BY WaiterType DEF Turn
  <2>2. ASSUME NEW i \in DOMAIN waiters'[t] PROVE InLine(t, i)'
    BY <1>1, <1>2, <1>3, <1>4, <2>1 DEF InLine, Lawful
  <2> QED
    BY <1>1, <1>2, <1>3, <1>4, <2>2 DEF Turn, Lawful
<1>5. CASE timer'[t] # 0 /\ d = db[t]
  <2>1. timer'[t] = timer[t]
    BY <1>1, <1>2, <1>5 DEF Consistent, ServiceConsistent, ActiveTasksArmed
  <2>2. crashes = 0 /\ db'[t].status = "active" /\ active'[t] = Nobody => db'[t].next > began[t]
    BY <1>1, <1>5 DEF Turn
  <2> QED
    BY <1>1, <2>1, <2>2, TurnKept, TimeType
<1>6. CASE timer'[t] = 0
  <2>1. crashes = 0 /\ db'[t].status = "active" /\ active'[t] = Nobody => db'[t].next > began[t]
    BY <1>1, <1>3 DEF Turn
  <2> QED
    BY <1>1, <1>6, <2>1, TurnKept, TimeType
<1> QED
  BY <1>2, <1>4, <1>5, <1>6

LEMMA NextInTurn ==
    TypeOK /\ TypeOK' /\ Consistent /\ InTurn /\ [Next]_vars => InTurn'
<1> SUFFICES ASSUME TypeOK, TypeOK', Consistent, InTurn, [Next]_vars, NEW u \in Tasks
             PROVE  Turn(u)'
  BY DEF InTurn
<1>r. \A t \in Tasks : db[t] \in TaskRecord
  BY DEF TypeOK
<1>u. Turn(u) /\ began[u] \in Nat /\ now \in Nat /\ crashes \in Nat /\ Rest
  BY TimeType DEF TypeOK, InTurn, Consistent
<1>k. ASSUME policy' = policy, began'[u] = began[u], now <= now', crashes <= crashes',
             waiters'[u] = waiters[u], timer'[u] = timer[u] \/ timer'[u] = 0,
             db'[u] = db[u], active'[u] = Nobody => active[u] = Nobody
      PROVE  Turn(u)'
  <2>1. crashes' = 0 /\ db'[u].status = "active" /\ active'[u] = Nobody =>
            db'[u].next > began[u]
    BY <1>u, <1>k, TimeType DEF Turn, TypeOK
  <2> QED
    BY <1>u, <1>k, <2>1, TurnKept
<1>g. ASSUME NEW t \in Tasks, NEW d \in TaskRecord, Changes(t, d),
             d.status = "active" => d.next = now + 1 \/ d = db[t]
      PROVE  Turn(u)'
  <2>1. CASE u = t
    BY <1>u, <1>g, <2>1, TurnChanges
  <2>2. CASE u # t
    BY <1>k, <1>u, <1>g, <2>2, ChangesEffect
  <2> QED
    BY <2>1, <2>2
<1>s. ASSUME NEW t \in Tasks, NEW ok \in BOOLEAN, Settles(t, ok) PROVE Turn(u)'
  <2>1. CASE u = t
    BY <1>u, <1>s, <2>1, TurnSettles
  <2>2. CASE u # t
    <3>1. Settled(t)
      BY <1>s, SettlesEffect
    <3>2. /\ active'[u] = active[u] /\ began'[u] = began[u] /\ waiters'[u] = waiters[u]
          /\ db'[u] = db[u] /\ timer'[u] = timer[u]
          /\ UNCHANGED <<policy, now, crashes>>
      BY <2>2, <3>1 DEF Settled
    <3> QED
      BY <1>k, <1>u, <3>2
  <2> QED
    BY <2>1, <2>2
<1>d. ASSUME ProcessEnds, crashes' > 0 \/ \A t \in Tasks : active[t] = Nobody,
             crashes <= crashes'
      PROVE  Turn(u)'
  <2>1. /\ timer'[u] = 0 /\ waiters'[u] = <<>>
        /\ UNCHANGED <<policy, db, now, began>>
    BY <1>d, ProcessEndsEffect
  <2>2. crashes' = 0 /\ db'[u].status = "active" /\ active'[u] = Nobody =>
            db'[u].next > began[u]
    BY <1>u, <1>d, <2>1, TimeType DEF Turn, TypeOK
  <2> QED
    BY <1>u, <1>d, <2>1, <2>2, TurnKept
<1>1. CASE TimePasses
  BY <1>1, <1>k, <1>u DEF TimePasses, store, service
<1>2. ASSUME NEW t \in Tasks, CreateTask(t) \/ Reschedules(t) PROVE Turn(u)'
  BY <1>2, <1>g, <1>r, ScheduledType DEF CreateTask, Reschedules
<1>3. ASSUME NEW t \in Tasks, PausesTask(t) PROVE Turn(u)'
  <2>1. /\ [db[t] EXCEPT !.status = "paused", !.next = 0] \in TaskRecord
        /\ [db[t] EXCEPT !.status = "paused", !.next = 0].status = "paused"
    BY <1>r DEF TaskRecord
  <2> QED
    BY <1>3, <1>g, <2>1 DEF PausesTask
<1>4. ASSUME NEW t \in Tasks, EditsTask(t) PROVE Turn(u)'
  BY <1>4, <1>g, ChatOfTaskType DEF EditsTask
<1>5. ASSUME NEW t \in Tasks, RemovesTask(t) PROVE Turn(u)'
  <2>1. NoTask \in TaskRecord /\ NoTask.status = "absent"
    BY DEF NoTask, TaskRecord
  <2> QED
    BY <1>5, <1>g, <2>1 DEF RemovesTask
<1>6. ASSUME NEW t \in Tasks, NEW c \in Calls, NEW by \in Callers, Trigger(c, t, by)
      PROVE  Turn(u)'
  <2> DEFINE q == [cause |-> "manual", occ |-> 0, call |-> c]
  <2>1. q \in Requests /\ q.occ = 0 /\ q.cause # "scheduled"
    BY DEF Requests
  <2>2. /\ StartRun(t, q, Waiting(call, c, by))
        /\ UNCHANGED <<policy, db, now, timer, crashes>>
    BY <1>6 DEF Trigger
  <2> HIDE DEF q
  <2>3. CASE u = t
    BY <1>u, <2>1, <2>2, <2>3, TurnStarts
  <2>4. CASE u # t
    BY <1>k, <1>u, <2>1, <2>2, <2>4, StartRunEffect
  <2> QED
    BY <2>3, <2>4
<1>7. ASSUME NEW t \in Tasks, TimerFires(t) PROVE Turn(u)'
  <2>1. CASE db[t].status = "active" /\ db[t].next = timer[t]
    <3> DEFINE q == [cause |-> "scheduled", occ |-> db[t].next, call |-> NoCall]
    <3>1. q \in Requests /\ q.occ = timer[t] /\ q.occ # 0 /\ q.occ <= now /\ q.cause = "scheduled"
      BY <1>7, <1>r, <1>u, <2>1 DEF TimerFires, Requests, TaskRecord
    <3>2. /\ StartRun(t, q, call)
          /\ timer'[t] = 0 /\ \A v \in Tasks \ {t} : timer'[v] = timer[v]
          /\ UNCHANGED <<policy, db, now, crashes>>
      BY <1>7, <2>1 DEF TimerFires, TypeOK
    <3> HIDE DEF q
    <3>3. CASE u = t
      BY <1>u, <3>1, <3>2, <3>3, TurnStarts
    <3>4. CASE u # t
      BY <1>k, <1>u, <3>1, <3>2, <3>4, StartRunEffect
    <3> QED
      BY <3>3, <3>4
  <2>2. CASE ~(db[t].status = "active" /\ db[t].next = timer[t])
    <3>1. /\ timer[t] # 0 /\ app # "down"
          /\ timer'[t] = Install(db[t], active[t] # Nobody)
          /\ \A v \in Tasks \ {t} : timer'[v] = timer[v]
          /\ UNCHANGED <<active, began, waiters, policy, db, now, crashes>>
      BY <1>7, <2>2 DEF TimerFires, TypeOK
    <3>2. app = "stopped" \/ db[t].status # "active"
      BY <2>2, <3>1 DEF Consistent, ServiceConsistent, ActiveTasksArmed, TypeOK
    <3>3. timer'[t] = 0
      BY <1>r, <3>1, <3>2, InstallType
    <3> QED
      BY <1>k, <1>u, <3>1, <3>3
  <2> QED
    BY <2>1, <2>2
<1>8. ASSUME NEW t \in Tasks, Admitted(t) \/ RunBegins(t) PROVE Turn(u)'
  <2>1. PICK s \in {"queued", "running"} : active' = [active EXCEPT ![t].stage = s]
    BY <1>8 DEF Admitted, RunBegins
  <2>2. active'[u] = Nobody => active[u] = Nobody
    BY <1>8, <2>1 DEF Admitted, RunBegins, TypeOK, Nobody
  <2> QED
    BY <1>8, <1>k, <1>u, <2>2 DEF Admitted, RunBegins, store
<1>9. ASSUME NEW t \in Tasks, Refused(t) \/ RunEnds(t) \/ RunInterrupted(t) PROVE Turn(u)'
  BY <1>9, <1>s DEF Refused, RunEnds, RunInterrupted
<1>10. CASE Crash \/ \E t \in Tasks : CrashInSettle(t)
  BY <1>10, <1>d, <1>u DEF Crash, CrashInSettle, Dies
<1>11. CASE Terminates
  BY <1>11, <1>d, <1>u DEF Terminates
<1>12. ASSUME NEW c \in Calls, ToolTimesOut(c) PROVE Turn(u)'
  BY <1>12, <1>k, <1>u DEF ToolTimesOut, store
<1>13. CASE ChatBegins \/ ChatEnds
  BY <1>13, <1>k, <1>u DEF ChatBegins, ChatEnds, store
<1>14. CASE Closes \/ RecoveryEnds
  BY <1>14, <1>k, <1>u DEF Closes, RecoveryEnds, StopsTimers, store
<1>15. CASE Restart
  <2>1. /\ db'[u] = Restored(u) /\ timer'[u] = Install(Restored(u), FALSE)
        /\ waiters[u] = <<>> /\ active[u] = Nobody
        /\ UNCHANGED <<policy, began, now, waiters, crashes>>
    BY <1>15, <1>u DEF Restart, Rest
  <2>2. timer'[u] # 0 => Restored(u).status = "active" /\ timer'[u] = Restored(u).next
    BY <2>1, RestoredType, InstallType
  <2>3. Restored(u).status = "active" =>
            \/ Restored(u).next > began[u]
            \/ /\ Restored(u).next = began[u] /\ policy[u].missed = "run_once"
               /\ crashes > 0
    BY <1>u, <1>r, <2>1, RestoredType DEF Turn, TaskRecord
  <2>4. crashes = 0 /\ Restored(u).status = "active" => Restored(u).next > began[u]
    BY <1>u, <2>3
  <2> QED
    <3>1. waiters'[u] = <<>> /\ began'[u] = began[u] /\ began[u] <= now /\ now' = now
      BY <1>u, <2>1 DEF Turn
    <3>2. (timer[u] # 0 => Lawful(u, timer[u]))'
      BY <2>1, <2>2, <2>3 DEF Lawful
    <3>3. (crashes = 0 /\ db[u].status = "active" /\ active[u] = Nobody =>
              db[u].next > began[u])'
      BY <2>1, <2>4
    <3> QED
      BY <3>1, <3>2, <3>3 DEF Turn
<1>16. CASE ChatDeleted
  <2>1. /\ db'[u] = db[u] \/ db'[u].status = "detached"
        /\ UNCHANGED <<policy, began, now, timer, active, waiters, crashes>>
    BY <1>16, ChatOfTaskType DEF ChatDeleted, service
  <2>2. crashes' = 0 /\ db'[u].status = "active" /\ active'[u] = Nobody =>
            db'[u].next > began[u]
    BY <1>u, <2>1 DEF Turn
  <2> QED
    BY <1>u, <2>1, <2>2, TurnKept
<1>17. CASE UNCHANGED vars
  BY <1>17, <1>k, <1>u DEF vars, store, service
<1> QED
  BY <1>1, <1>2, <1>3, <1>4, <1>5, <1>6, <1>7, <1>8, <1>9, <1>10, <1>11, <1>12, <1>13,
     <1>14, <1>15, <1>16, <1>17
  DEF Next, User, Executes, Daemon


-----------------------------------------------------------------------------
(* Theorems.                                                               *)

LEMMA InitIInv == Init => IInv
<1> SUFFICES ASSUME Init PROVE IInv
  OBVIOUS
<1>1. TypeOK
  BY InitType
<1>2. Consistent
  BY TimeAssumption
  DEF Init, Consistent, ServiceConsistent, ActiveTasksArmed, RecordsFollowRuns, Rest, NoTask
<1>3. InTurn
  <2> SUFFICES ASSUME NEW t \in Tasks PROVE Turn(t)
    BY DEF InTurn
  <2>1. /\ began[t] = 0 /\ now = 0 /\ timer[t] = 0 /\ waiters[t] = <<>>
        /\ db[t].status = "absent"
    BY DEF Init, NoTask
  <2>2. \A i \in DOMAIN waiters[t] : InLine(t, i)
    BY <2>1
  <2> QED
    BY <2>1, <2>2 DEF Turn
<1> QED
  BY <1>1, <1>2, <1>3 DEF IInv, Consistent

LEMMA NextIInv == IInv /\ [Next]_vars => IInv'
  BY NextType, NextConsistent, NextInTurn DEF IInv, Consistent

\* What holds whenever an execution of t starts.
StartIsLawful(t) ==
    LET q == active'[t].for
    IN  /\ q.cause = "scheduled" => Lawful(t, q.occ)
        /\ q.cause = "scheduled" \/ active[t] # Nobody =>
               db'[t].status = "active" /\ app # "stopped"

LEMMA StartsAreLawful ==
    ASSUME IInv, [Next]_vars, NEW u \in Tasks, Started(u)
    PROVE  StartIsLawful(u)
<1> USE DEF IInv, Started
<1>r. \A t \in Tasks : db[t] \in TaskRecord
  BY DEF TypeOK
<1>e. \A q : Execution(q).for = q
  BY ExecutionIsSomebody
<1>1. ASSUME NEW t \in Tasks, NEW c \in Calls, NEW by \in Callers, Trigger(c, t, by)
      PROVE  StartIsLawful(u)
  <2> DEFINE q == [cause |-> "manual", occ |-> 0, call |-> c]
  <2>1. q \in Requests /\ q.cause # "scheduled"
    BY DEF Requests
  <2>2. StartRun(t, q, Waiting(call, c, by))
    BY <1>1 DEF Trigger
  <2> HIDE DEF q
  <2>3. u = t /\ active[t] = Nobody /\ active'[t] = Execution(q)
    BY <2>1, <2>2, StartRunEffect
  <2> QED
    BY <1>e, <2>1, <2>3 DEF StartIsLawful
<1>2. ASSUME NEW t \in Tasks, TimerFires(t) PROVE StartIsLawful(u)
  <2>1. /\ db[t].status = "active" /\ db[t].next = timer[t] /\ timer[t] \in 1..now
        /\ app # "stopped"
    BY <1>2 DEF TimerFires, Rest, TypeOK
  <2> DEFINE q == [cause |-> "scheduled", occ |-> db[t].next, call |-> NoCall]
  <2>2. q \in Requests /\ q.occ = timer[t]
    BY <1>r, <2>1 DEF Requests, TaskRecord
  <2>3. StartRun(t, q, call) /\ UNCHANGED db
    BY <1>2, <2>1 DEF TimerFires
  <2>4. timer[t] # 0 /\ Lawful(t, timer[t])
    BY <2>1, TimeType DEF InTurn, Turn
  <2> HIDE DEF q
  <2>5. u = t /\ active'[t] = Execution(q)
    BY <2>2, <2>3, StartRunEffect
  <2> QED
    BY <1>e, <2>1, <2>2, <2>3, <2>4, <2>5 DEF StartIsLawful
<1>3. ASSUME NEW t \in Tasks, Refused(t) \/ RunEnds(t) \/ RunInterrupted(t)
      PROVE  StartIsLawful(u)
  <2>1. Settled(t)
    BY <1>3, SettlesEffect DEF Refused, RunEnds, RunInterrupted
  <2>2. u = t
    BY <2>1 DEF Settled
  <2>3. ~LaysDown(t)
    BY <2>2 DEF LaysDown, Nobody
  <2>4. HandsOver(t)
    BY <2>1, <2>3 DEF Settled
  <2>5. 1 \in DOMAIN waiters[t] /\ Head(waiters[t]) = waiters[t][1]
    BY <2>4, WaiterType DEF HandsOver
  <2>6. InLine(t, 1)
    BY <2>5 DEF InTurn, Turn
  <2> QED
    BY <1>e, <2>2, <2>4, <2>5, <2>6 DEF StartIsLawful, HandsOver, InLine
<1>4. ASSUME NEW t \in Tasks, Admitted(t) \/ RunBegins(t) PROVE FALSE
  <2>1. PICK s \in {"queued", "running"} : active' = [active EXCEPT ![t].stage = s]
    BY <1>4 DEF Admitted, RunBegins
  <2>2. active[t] \in [stage : Stages, for : Requests]
    BY <1>4 DEF Admitted, RunBegins, TypeOK, Nobody
  <2> QED
    BY <2>1, <2>2 DEF TypeOK
<1>5. CASE Crash \/ Terminates \/ \E t \in Tasks : CrashInSettle(t)
  BY <1>5, ProcessEndsEffect DEF Crash, CrashInSettle, Dies, Terminates, Nobody
<1>6. CASE UNCHANGED active
  BY <1>6
<1>7. ASSUME NEW t \in Tasks, \/ CreateTask(t) \/ Reschedules(t) \/ PausesTask(t)
                              \/ EditsTask(t) \/ RemovesTask(t)
      PROVE  UNCHANGED active
  BY <1>7 DEF CreateTask, Reschedules, PausesTask, EditsTask, RemovesTask, Changes
<1>8. ASSUME \/ TimePasses \/ ChatBegins \/ ChatEnds \/ ChatDeleted \/ Closes \/ RecoveryEnds \/ Restart
             \/ \E c \in Calls : ToolTimesOut(c)
             \/ UNCHANGED vars
      PROVE  UNCHANGED active
  BY <1>8
  DEF TimePasses, ChatBegins, ChatEnds, ChatDeleted, Closes, RecoveryEnds, Restart,
      ToolTimesOut, vars, service
<1> QED
  BY <1>1, <1>2, <1>3, <1>4, <1>5, <1>6, <1>7, <1>8 DEF Next, User, Executes, Daemon

\* Every variable has its type.
THEOREM TypeCorrect == Spec => []TypeOK
<1>1. IInv => TypeOK
  BY DEF IInv
<1> QED
  BY InitIInv, NextIInv, <1>1, PTL DEF Spec

\* install and executeRun: an active task is never forgotten, a timer is one
\* for the next occurrence unless the deletion of its chat has paused the task
\* behind the service's back, and a record is open as long as its execution
\* goes on, over edits, overlapping requests, shutdown and crashes.
THEOREM NoTaskForgotten == Spec => []ServiceConsistent
<1>1. IInv => ServiceConsistent
  BY DEF IInv
<1> QED
  BY InitIInv, NextIInv, <1>1, PTL DEF Spec

\* startRun: an occurrence is executed once and in its turn; a crash may
\* repeat it where missed runs are made up.
THEOREM EachOccurrenceOnce == Spec => OccurrencesRunOnce
<1>1. IInv /\ [Next]_vars =>
          [\A t \in Tasks :
              LET q == active'[t].for
              IN  Started(t) /\ q.cause = "scheduled" =>
                  \/ q.occ > began[t]
                  \/ q.occ = began[t] /\ policy[t].missed = "run_once" /\ crashes > 0]_vars
  BY StartsAreLawful DEF StartIsLawful, Lawful
<1> QED
  BY InitIInv, NextIInv, <1>1, PTL DEF Spec, OccurrencesRunOnce

\* startRun: nothing starts by itself for a task that is not active, nor
\* during shutdown, whether the timer asked for it or a request has waited.
THEOREM NothingUnwanted == Spec => UnwantedNeverStarts
<1>1. IInv /\ [Next]_vars =>
          [\A t \in Tasks :
              LET q == active'[t].for
              IN  Started(t) /\ (q.cause = "scheduled" \/ active[t] # Nobody) =>
                  db'[t].status = "active" /\ app # "stopped"]_vars
  BY StartsAreLawful DEF StartIsLawful
<1> QED
  BY InitIInv, NextIInv, <1>1, PTL DEF Spec, UnwantedNeverStarts

=============================================================================
