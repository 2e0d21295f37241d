-------------------------- MODULE OperationGateProofs --------------------------
(***************************************************************************)
(* Proofs about OperationGate for every set of sessions, directories and   *)
(* lease tokens.                                                           *)
(*                                                                         *)
(* Four results build on each other: leases and barriers exclude each      *)
(* other, shutdown waits for all of them, so only a shared lease or a goal *)
(* timer lets a run start, and so maintenance and a finished shutdown find *)
(* no run but one that a timer has started.                                *)
(***************************************************************************)
EXTENDS OperationGate, TLAPS

\* barriersConflict is complete: two barriers that cover a common session
\* are in conflict, whichever of the three kinds they have.
LEMMA CommonSessionConflicts ==
    ASSUME NEW a \in Barriers, NEW b \in Barriers, NEW s \in Sessions,
           Covers(a, s), Covers(b, s)
    PROVE  BarriersConflict(a, b)
  BY DEF Barriers, Covers, BarriersConflict

\* barriersConflict asks for no more than it must: as long as every directory
\* has a session, barriers that are in conflict cover a common session.
LEMMA ConflictNeedsCommonSession ==
    ASSUME NEW a \in Barriers, NEW b \in Barriers, BarriersConflict(a, b),
           Sessions # {}, \A c \in Cwds : \E s \in Sessions : CwdOf[s] = c
    PROVE  \E s \in Sessions : Covers(a, s) /\ Covers(b, s)
  BY DEF Barriers, Covers, BarriersConflict

-----------------------------------------------------------------------------
LEMMA InitTypeOK == Init => TypeOK
  BY DEF Init, TypeOK

LEMMA NextTypeOK == TypeOK /\ [Next]_vars => TypeOK'
<1> SUFFICES ASSUME TypeOK, [Next]_vars PROVE TypeOK'
  OBVIOUS
<1> USE GoalAssumption DEF TypeOK
<1>1. ASSUME NEW t \in Tokens, NEW s \in Sessions, Enter(t, s) PROVE TypeOK'
  BY <1>1 DEF Enter, SharedRecords
<1>2. ASSUME NEW t \in Tokens, NEW b \in Barriers, NEW idle \in BOOLEAN,
             TryEnterBarrier(t, b, idle)
      PROVE TypeOK'
  BY <1>2 DEF TryEnterBarrier, BarrierRecords
<1>3. ASSUME NEW t \in Tokens, Release(t) PROVE TypeOK'
  BY <1>3 DEF Release, Wake
<1>4. ASSUME NEW r \in shared, RunStarts(r) PROVE TypeOK'
  BY <1>4 DEF RunStarts, SharedRecords
<1>5. ASSUME NEW s \in Sessions, RunEnds(s) PROVE TypeOK'
  BY <1>5 DEF RunEnds
<1>6. ASSUME NEW s \in Sessions, GoalWaitEnds(s) PROVE TypeOK'
  BY <1>6 DEF GoalWaitEnds
<1>11. ASSUME NEW s \in Sessions, CollectedRunsEnd(s) PROVE TypeOK'
  BY <1>11 DEF CollectedRunsEnd
<1>7. CASE BeginShutdown
  BY <1>7 DEF BeginShutdown
<1>8. CASE StopRuns
  BY <1>8 DEF StopRuns
<1>9. CASE MarkClosed
  BY <1>9 DEF MarkClosed
<1>10. CASE UNCHANGED vars
  BY <1>10 DEF vars
<1> QED
  BY <1>1, <1>2, <1>3, <1>4, <1>5, <1>6, <1>7, <1>8, <1>9, <1>10,
     <1>11 DEF Next

\* The gate, its lease tables and the shutdown keep their types, and the
\* gate's phase follows the shutdown.
THEOREM TypeCorrect == Spec => []TypeOK
<1>1. Init => TypeOK
  BY InitTypeOK
<1>2. TypeOK /\ [Next]_vars => TypeOK'
  BY NextTypeOK
<1> QED
  BY <1>1, <1>2, PTL DEF Spec

-----------------------------------------------------------------------------
(* Exclusion.  LeasesExclude is inductive with the types of the records.    *)

\* A lease or barrier that is asked for is compared with all that are held.
LEMMA NextLeasesExclude == TypeOK /\ LeasesExclude /\ [Next]_vars => LeasesExclude'
<1> SUFFICES ASSUME TypeOK, LeasesExclude, [Next]_vars PROVE LeasesExclude'
  OBVIOUS
<1> USE DEF LeasesExclude
<1>1. ASSUME NEW t \in Tokens, NEW s \in Sessions, Enter(t, s)
      PROVE LeasesExclude'
  BY <1>1 DEF Enter, Covers
<1>2. ASSUME NEW t \in Tokens, NEW b \in Barriers, NEW idle \in BOOLEAN,
             TryEnterBarrier(t, b, idle)
      PROVE LeasesExclude'
  <2> DEFINE new == [token |-> t, on |-> b, idle |-> idle]
  <2>1. barriers' = barriers \cup {new} /\ shared' = shared
    BY <1>2 DEF TryEnterBarrier
  <2>2. \A r \in shared : ~Covers(b, r.session)
    BY <1>2 DEF TryEnterBarrier
  <2>3. \A r \in barriers, s \in Sessions : ~(Covers(b, s) /\ Covers(r.on, s))
    <3> SUFFICES ASSUME NEW r \in barriers, NEW s \in Sessions,
                        Covers(b, s), Covers(r.on, s)
                 PROVE FALSE
      OBVIOUS
    <3>1. r.on \in Barriers
      BY DEF TypeOK, BarrierRecords
    <3>2. BarriersConflict(b, r.on)
      BY <3>1, CommonSessionConflicts
    <3> QED
      BY <1>2, <3>2 DEF TryEnterBarrier
  <2>4. new.on = b
    OBVIOUS
  <2>5. \A r \in shared', c \in barriers' : ~Covers(c.on, r.session)
    BY <2>1, <2>2, <2>4
  <2>6. \A x, y \in barriers' : \A s \in Sessions :
            Covers(x.on, s) /\ Covers(y.on, s) => x = y
    BY <2>1, <2>3, <2>4
  <2> QED
    BY <2>5, <2>6 DEF Covers
<1>3. ASSUME NEW t \in Tokens, Release(t) PROVE LeasesExclude'
  BY <1>3 DEF Release, Covers
<1>4. ASSUME UNCHANGED <<shared, barriers>> PROVE LeasesExclude'
  BY <1>4 DEF Covers
<1> QED
  BY <1>1, <1>2, <1>3, <1>4
     DEF Next, RunStarts, RunEnds, CollectedRunsEnd, GoalWaitEnds,
         BeginShutdown, StopRuns, MarkClosed, vars

\* No operation runs in a session under somebody else's barrier, and no
\* session lies under two barriers.
THEOREM GateExclusion == Spec => []LeasesExclude
<1>1. Init => TypeOK /\ LeasesExclude
  BY InitTypeOK DEF Init, LeasesExclude
<1>2. TypeOK /\ LeasesExclude /\ [Next]_vars => (TypeOK /\ LeasesExclude)'
  BY NextTypeOK, NextLeasesExclude
<1> QED
  BY <1>1, <1>2, PTL DEF Spec

-----------------------------------------------------------------------------
(* The order of a shutdown.  Inductive with the part of TypeOK that ties    *)
(* the phase to the shutdown: a gate that is not open grants nothing.       *)

LEMMA NextStopsWithoutLeases ==
    TypeOK /\ StopsWithoutLeases /\ [Next]_vars => StopsWithoutLeases'
<1> SUFFICES ASSUME TypeOK, StopsWithoutLeases, [Next]_vars
             PROVE StopsWithoutLeases'
  OBVIOUS
<1> USE DEF StopsWithoutLeases
<1>1. ASSUME NEW t \in Tokens, NEW s \in Sessions, Enter(t, s)
      PROVE StopsWithoutLeases'
  BY <1>1 DEF Enter, TypeOK
<1>2. ASSUME NEW t \in Tokens, NEW b \in Barriers, NEW idle \in BOOLEAN,
             TryEnterBarrier(t, b, idle)
      PROVE StopsWithoutLeases'
  BY <1>2 DEF TryEnterBarrier, TypeOK
<1>3. ASSUME NEW t \in Tokens, Release(t) PROVE StopsWithoutLeases'
  BY <1>3 DEF Release, Wake
<1>4. CASE BeginShutdown
  BY <1>4 DEF BeginShutdown
<1>5. CASE StopRuns
  BY <1>5 DEF StopRuns
<1>6. CASE MarkClosed
  BY <1>6 DEF MarkClosed
<1>7. ASSUME UNCHANGED <<shared, barriers, shutdown>> PROVE StopsWithoutLeases'
  BY <1>7
<1> QED
  BY <1>1, <1>2, <1>3, <1>4, <1>5, <1>6, <1>7
     DEF Next, RunStarts, RunEnds, CollectedRunsEnd, GoalWaitEnds, vars

\* Shutdown interrupts the runs only when the last lease is gone, and no
\* lease or barrier is granted from then on.
THEOREM ShutdownOrder == Spec => []StopsWithoutLeases
<1>1. Init => TypeOK /\ StopsWithoutLeases
  BY InitTypeOK DEF Init, StopsWithoutLeases
<1>2. TypeOK /\ StopsWithoutLeases /\ [Next]_vars
         => (TypeOK /\ StopsWithoutLeases)'
  BY NextTypeOK, NextStopsWithoutLeases
<1> QED
  BY <1>1, <1>2, PTL DEF Spec

-----------------------------------------------------------------------------
(* Idleness.                                                               *)

\* The runs that shutdown has collected and those of goal timers are all
\* there are, and when it ends only the latter are left.
DrainCoversBusy ==
    /\ shutdown = "stopping" => busy \subseteq draining \cup timed
    /\ shutdown = "done" => busy \subseteq timed

\* BarrierKeepsIdle and ClosedMeansIdle together with what they rest on.
IdleInv ==
    /\ TypeOK
    /\ LeasesExclude
    /\ StopsWithoutLeases
    /\ BarrierKeepsIdle
    /\ DrainCoversBusy

LEMMA InitIdleInv == Init => IdleInv
  BY InitTypeOK DEF Init, IdleInv, LeasesExclude, StopsWithoutLeases,
     BarrierKeepsIdle, DrainCoversBusy

\* Only a shared lease lets a run start that is not a goal timer's, and
\* neither a granted barrier nor a shutdown that has drained leaves one in
\* its way.
LEMMA NextIdleInv == IdleInv /\ [Next]_vars => IdleInv'
<1> SUFFICES ASSUME IdleInv, [Next]_vars PROVE IdleInv'
  OBVIOUS
<1>1. TypeOK' /\ LeasesExclude' /\ StopsWithoutLeases'
  BY NextTypeOK, NextLeasesExclude, NextStopsWithoutLeases DEF IdleInv
<1> SUFFICES BarrierKeepsIdle' /\ DrainCoversBusy'
  BY <1>1 DEF IdleInv
<1> USE DEF IdleInv, BarrierKeepsIdle, DrainCoversBusy
<1>2. ASSUME NEW t \in Tokens, NEW s \in Sessions, Enter(t, s)
      PROVE BarrierKeepsIdle' /\ DrainCoversBusy'
  BY <1>2 DEF Enter, Covers
<1>3. ASSUME NEW t \in Tokens, NEW b \in Barriers, NEW idle \in BOOLEAN,
             TryEnterBarrier(t, b, idle)
      PROVE BarrierKeepsIdle' /\ DrainCoversBusy'
  <2> DEFINE new == [token |-> t, on |-> b, idle |-> idle]
  <2>1. /\ barriers' = barriers \cup {new}
        /\ UNCHANGED <<busy, draining, shutdown, timed>>
        /\ idle => \A s \in Sessions : Covers(b, s) => s \notin busy
    BY <1>3 DEF TryEnterBarrier, IdleUnder
  <2>2. new.on = b /\ new.idle = idle
    OBVIOUS
  <2>3. \A c \in barriers', s \in Sessions :
            c.idle /\ Covers(c.on, s) /\ s \in busy' => s \in timed'
    BY <2>1, <2>2
  <2> QED
    BY <2>1, <2>3 DEF Covers
<1>4. ASSUME NEW t \in Tokens, Release(t)
      PROVE BarrierKeepsIdle' /\ DrainCoversBusy'
  BY <1>4 DEF Release, Wake, Covers
<1>5. ASSUME NEW r \in shared, RunStarts(r)
      PROVE BarrierKeepsIdle' /\ DrainCoversBusy'
  <2>1. /\ UNCHANGED <<barriers, shutdown, timed>>
        /\ busy' = busy \cup {r.session}
    BY <1>5 DEF RunStarts
  <2>2. \A b \in barriers : ~Covers(b.on, r.session)
    BY DEF LeasesExclude
  <2>3. shutdown \notin {"stopping", "done"}
    BY DEF StopsWithoutLeases
  <2> QED
    BY <2>1, <2>2, <2>3 DEF Covers
<1>6. ASSUME NEW s \in Sessions, RunEnds(s)
      PROVE BarrierKeepsIdle' /\ DrainCoversBusy'
  BY <1>6 DEF RunEnds, Covers
<1>7. ASSUME NEW s \in Sessions, CollectedRunsEnd(s)
      PROVE BarrierKeepsIdle' /\ DrainCoversBusy'
  BY <1>7 DEF CollectedRunsEnd, Covers
<1>8. ASSUME NEW s \in Sessions, GoalWaitEnds(s)
      PROVE BarrierKeepsIdle' /\ DrainCoversBusy'
  BY <1>8 DEF GoalWaitEnds, Covers
<1>9. CASE BeginShutdown
  BY <1>9 DEF BeginShutdown, Covers
<1>10. CASE StopRuns
  BY <1>10 DEF StopRuns, Covers
<1>11. CASE MarkClosed
  BY <1>11 DEF MarkClosed, Covers
<1>12. CASE UNCHANGED vars
  BY <1>12 DEF vars, Covers
<1> QED
  BY <1>2, <1>3, <1>4, <1>5, <1>6, <1>7, <1>8, <1>9, <1>10, <1>11, <1>12
     DEF Next

\* A barrier that was granted on an idle check keeps its sessions idle for as
\* long as it is held, but for runs that goal timers start under it.
THEOREM MaintenanceMeetsNoRun == Spec => []BarrierKeepsIdle
<1>1. Init => IdleInv
  BY InitIdleInv
<1>2. IdleInv /\ [Next]_vars => IdleInv'
  BY NextIdleInv
<1>3. IdleInv => BarrierKeepsIdle
  BY DEF IdleInv
<1> QED
  BY <1>1, <1>2, <1>3, PTL DEF Spec

\* Once the gate is closed no session has work but what goal timers start.
THEOREM ClosedDaemonIsIdle == Spec => []ClosedMeansIdle
<1>1. Init => IdleInv
  BY InitIdleInv
<1>2. IdleInv /\ [Next]_vars => IdleInv'
  BY NextIdleInv
<1>3. IdleInv => ClosedMeansIdle
  BY DEF IdleInv, ClosedMeansIdle, DrainCoversBusy, TypeOK
<1> QED
  BY <1>1, <1>2, <1>3, PTL DEF Spec

\* Without goals that wait for a job there is no such run: what the
\* documentation says of barriers and of shutdown holds for these daemons.
THEOREM WithoutGoalWaits ==
    ASSUME GoalWaits = {}
    PROVE  Spec => [](MaintenanceIsExclusive /\ ShutdownLeavesNoRun)
<1> DEFINE NoTimer == waiting = {} /\ timed = {}
<1>1. Init => IdleInv /\ NoTimer
  BY InitIdleInv DEF Init
<1>2. IdleInv /\ NoTimer /\ [Next]_vars => (IdleInv /\ NoTimer)'
  <2> SUFFICES ASSUME IdleInv, NoTimer, [Next]_vars PROVE NoTimer'
    BY NextIdleInv
  <2> QED
    BY DEF Next, Enter, TryEnterBarrier, Release, RunStarts, RunEnds,
       CollectedRunsEnd, GoalWaitEnds, BeginShutdown, StopRuns, MarkClosed, vars
<1>3. IdleInv /\ NoTimer => MaintenanceIsExclusive /\ ShutdownLeavesNoRun
  BY DEF IdleInv, TypeOK, BarrierKeepsIdle, DrainCoversBusy,
     MaintenanceIsExclusive, ShutdownLeavesNoRun, IdleUnder
<1> QED
  BY <1>1, <1>2, <1>3, PTL DEF Spec

=============================================================================
