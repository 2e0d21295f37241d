---------------------------- MODULE OperationGate ----------------------------
(***************************************************************************)
(* DaemonOperationGate (daemon-operation-gate.ts) and the three kinds of   *)
(* user it has: operations that hold a shared lease and may start a run,   *)
(* maintenance that holds a session, cwd or global barrier, and            *)
(* DaemonControlService.shutdown.  A session is busy while its run lane or *)
(* its pooled agent has work.  A goal that waits for an external job       *)
(* starts its next run from a timer of SessionGoalService, which takes no  *)
(* lease.                                                                  *)
(***************************************************************************)
EXTENDS Integers, FiniteSets

CONSTANTS
    Sessions,
    Cwds,
    CwdOf,       \* the working directory of each session
    Tokens,      \* leases that can be held at the same time (bound)
    GoalWaits    \* sessions with a goal that waits for an external job

ASSUME CwdAssumption == CwdOf \in [Sessions -> Cwds]
ASSUME GoalAssumption == GoalWaits \subseteq Sessions

\* DaemonOperationBarrier.
Barriers == [kind : {"global"}]
            \cup [kind : {"cwd"}, cwd : Cwds]
            \cup [kind : {"session"}, session : Sessions]

\* Records of the maps "shared" and "barriers".  idle is the predicate that
\* tryEnterBarrier was called with: archive and delete pass () => true.
SharedRecords  == [token : Tokens, session : Sessions]
BarrierRecords == [token : Tokens, on : Barriers, idle : BOOLEAN]

VARIABLES
    phase,       \* open, closing, closed
    shared,      \* the shared leases held
    barriers,    \* the barriers held
    shutdown,    \* how far DaemonControlService.shutdown has come
    draining,    \* sessions whose runs stopAndDrain has interrupted and awaits
    busy,        \* sessions whose lane or agent has work
    waiting,     \* sessions whose goal timer has still to fire
    timed        \* sessions with work that a goal timer has started (history)

vars == <<phase, shared, barriers, shutdown, draining, busy, waiting, timed>>

-----------------------------------------------------------------------------
\* conflictsWithScope: the barrier covers the session.
Covers(b, s) ==
    \/ b.kind = "global"
    \/ b.kind = "cwd" /\ b.cwd = CwdOf[s]
    \/ b.kind = "session" /\ b.session = s

\* Mutant: a session barrier and a cwd barrier are not compared.
BarriersConflictSameKind(a, b) ==
    \/ a.kind = "global" \/ b.kind = "global"
    \/ a.kind = "cwd" /\ b.kind = "cwd" /\ a.cwd = b.cwd
    \/ a.kind = "session" /\ b.kind = "session" /\ a.session = b.session

\* barriersConflict.
BarriersConflict(a, b) ==
    \/ a.kind = "global" \/ b.kind = "global"
    \/ a.kind = "cwd" /\ b.kind = "cwd" /\ a.cwd = b.cwd
    \/ a.kind = "session" /\ b.kind = "session" /\ a.session = b.session
    \/ a.kind = "cwd" /\ b.kind = "session" /\ a.cwd = CwdOf[b.session]
    \/ a.kind = "session" /\ b.kind = "cwd" /\ b.cwd = CwdOf[a.session]

Held(t) == t \in {r.token : r \in shared} \cup {r.token : r \in barriers}

\* The idle check of the callers (hasWork and hasActiveWork of every covered
\* session).
IdleUnder(b) == \A s \in Sessions : Covers(b, s) => s \notin busy

Init ==
    /\ phase = "open"
    /\ shared = {}
    /\ barriers = {}
    /\ shutdown = "none"
    /\ draining = {}
    /\ busy = {}
    /\ waiting = GoalWaits
    /\ timed = {}

-----------------------------------------------------------------------------
\* enter.
Enter(t, s) ==
    /\ phase = "open"
    /\ \A r \in barriers : ~Covers(r.on, s)
    /\ ~Held(t)
    /\ shared' = shared \cup {[token |-> t, session |-> s]}
    /\ UNCHANGED <<phase, barriers, shutdown, draining, busy, waiting, timed>>

\* Mutant: the idle check is not made where the barrier is installed.
TryEnterBarrierNoIdle(t, b, idle) ==
    /\ phase = "open"
    /\ idle \/ b.kind = "session"
    /\ \A r \in shared : ~Covers(b, r.session)
    /\ \A r \in barriers : ~BarriersConflict(b, r.on)
    /\ ~Held(t)
    /\ barriers' = barriers \cup {[token |-> t, on |-> b, idle |-> idle]}
    /\ UNCHANGED <<phase, shared, shutdown, draining, busy, waiting, timed>>

\* tryEnterBarrier.  Only session barriers are asked for without idle check.
TryEnterBarrier(t, b, idle) ==
    /\ phase = "open"
    /\ idle \/ b.kind = "session"
    /\ \A r \in shared : ~Covers(b, r.session)
    /\ \A r \in barriers : ~BarriersConflict(b, r.on)
    /\ idle => IdleUnder(b)
    /\ ~Held(t)
    /\ barriers' = barriers \cup {[token |-> t, on |-> b, idle |-> idle]}
    /\ UNCHANGED <<phase, shared, shutdown, draining, busy, waiting, timed>>

\* resolveDrainWaiters, called by release: the last lease lets a waiting
\* shutdown go on.
Wake ==
    shutdown' = IF shutdown = "waiting" /\ shared' = {} /\ barriers' = {}
                THEN "drained" ELSE shutdown

\* release of a shared lease or of a barrier.
Release(t) ==
    /\ Held(t)
    /\ shared' = {r \in shared : r.token # t}
    /\ barriers' = {r \in barriers : r.token # t}
    /\ Wake
    /\ UNCHANGED <<phase, draining, busy, waiting, timed>>

-----------------------------------------------------------------------------
\* A prompt, resume or queued command dispatches a run under its lease, and
\* the run outlives the lease.
RunStarts(r) ==
    /\ busy' = busy \cup {r.session}
    /\ UNCHANGED <<phase, shared, barriers, shutdown, draining, waiting, timed>>

\* The lane and the agent of a session fall idle.
RunEnds(s) ==
    /\ s \in busy
    /\ busy' = busy \ {s}
    /\ draining' = draining \ {s}
    /\ timed' = timed \ {s}
    /\ UNCHANGED <<phase, shared, barriers, shutdown, waiting>>

\* The runs that shutdown waits for end, one that a timer has put behind them
\* goes on.
CollectedRunsEnd(s) ==
    /\ s \in draining /\ s \in timed
    /\ draining' = draining \ {s}
    /\ UNCHANGED <<phase, shared, barriers, shutdown, busy, waiting, timed>>

\* observeExternalWait: the external job has ended, the timer persists and
\* dispatches a continuation.  RunAdmissionService.stop has no caller, so
\* dispatchPersistedRun refuses at no time.
GoalWaitEnds(s) ==
    /\ s \in waiting
    /\ waiting' = waiting \ {s}
    /\ busy' = busy \cup {s}
    /\ timed' = timed \cup {s}
    /\ UNCHANGED <<phase, shared, barriers, shutdown, draining>>

-----------------------------------------------------------------------------
\* beginShutdown.  DaemonApplication.close calls shutdown once.
BeginShutdown ==
    /\ shutdown = "none"
    /\ phase' = "closing"
    /\ shutdown' = IF shared = {} /\ barriers = {} THEN "drained" ELSE "waiting"
    /\ UNCHANGED <<shared, barriers, draining, busy, waiting, timed>>

\* stopAndDrain interrupts every lane and collects the runs it waits for.
StopRuns ==
    /\ shutdown = "drained"
    /\ shutdown' = "stopping"
    /\ draining' = busy
    /\ UNCHANGED <<phase, shared, barriers, busy, waiting, timed>>

\* Mutant: shutdown does not wait for the interrupted runs.
MarkClosedEarly ==
    /\ shutdown = "stopping"
    /\ shutdown' = "done"
    /\ phase' = "closed"
    /\ UNCHANGED <<shared, barriers, draining, busy, waiting, timed>>

\* waitForRuns has returned; the agents are closed and the gate with them.
MarkClosed ==
    /\ shutdown = "stopping"
    /\ draining = {}
    /\ shutdown' = "done"
    /\ phase' = "closed"
    /\ UNCHANGED <<shared, barriers, draining, busy, waiting, timed>>

-----------------------------------------------------------------------------
Next ==
    \/ \E t \in Tokens, s \in Sessions : Enter(t, s)
    \/ \E t \in Tokens, b \in Barriers, idle \in BOOLEAN : TryEnterBarrier(t, b, idle)
    \/ \E t \in Tokens : Release(t)
    \/ \E r \in shared : RunStarts(r)
    \/ \E s \in Sessions : RunEnds(s) \/ CollectedRunsEnd(s) \/ GoalWaitEnds(s)
    \/ BeginShutdown
    \/ StopRuns
    \/ MarkClosed

Spec == Init /\ [][Next]_vars

-----------------------------------------------------------------------------
\* Every variable has its type, and shutdown and the gate's phase agree.
TypeOK ==
    /\ phase \in {"open", "closing", "closed"}
    /\ shared \subseteq SharedRecords
    /\ barriers \subseteq BarrierRecords
    /\ shutdown \in {"none", "waiting", "drained", "stopping", "done"}
    /\ draining \subseteq Sessions
    /\ busy \subseteq Sessions
    /\ waiting \subseteq GoalWaits
    /\ timed \subseteq busy
    /\ phase = "open" <=> shutdown = "none"
    /\ phase = "closed" <=> shutdown = "done"

\* The exclusion the gate is there for: no operation runs in a session under
\* somebody's barrier, and no session lies under two barriers.
LeasesExclude ==
    /\ \A r \in shared, b \in barriers : ~Covers(b.on, r.session)
    /\ \A a, b \in barriers : \A s \in Sessions :
           Covers(a.on, s) /\ Covers(b.on, s) => a = b

\* A barrier that was granted on an idle check keeps its sessions idle for as
\* long as it is held: maintenance meets no run but one that a goal timer has
\* started under it.
BarrierKeepsIdle ==
    \A b \in barriers, s \in Sessions :
        b.idle /\ Covers(b.on, s) /\ s \in busy => s \in timed

\* Runs are interrupted only after the last lease is gone, and no lease is
\* granted from then on.
StopsWithoutLeases ==
    shutdown \in {"drained", "stopping", "done"} => shared = {} /\ barriers = {}

\* Once the gate is closed no session has work but what goal timers start.
ClosedMeansIdle == phase = "closed" => busy \subseteq timed

\* daemon-application-architecture.md: maintenance holds an exclusive barrier,
\* and prompt and resume pass through shared admission.
MaintenanceIsExclusive == \A b \in barriers : b.idle => IdleUnder(b.on)

\* agent-lifecycle-contract.md, D7: a normal shutdown leaves no running run.
ShutdownLeavesNoRun == phase = "closed" => busy = {}

=============================================================================
