--------------------------- MODULE AgentPoolProofs ---------------------------
(***************************************************************************)
(* Proofs about AgentPool for any number of generations and readers.       *)
(*                                                                         *)
(* PoolInv ties the entry to the one generation that exists and to the     *)
(* state of its agent.  On top of it three conjuncts each say what one     *)
(* service may rely on while it waits: the run that works, the archive and *)
(* the edit that close the agent.                                          *)
(***************************************************************************)
EXTENDS AgentPool, TLAPS

\* The entry is a generation that exists.
EntryLive == entry # NoGen => entry \in Live

\* entry.state and the state of its agent agree.
ClosingAgents ==
    \A g \in Gens : /\ g \in closing => agent[g] \in {"loading", "closing"}
                    /\ agent[g] = "closing" => g \in closing

\* What the executor has in hand exists, and is not idle while it works.
ExecutorHolds ==
    /\ at["run"] \in {"holds", "works"} => gen["run"] \in Live
    /\ at["run"] = "works" => agent[gen["run"]] \in {"running", "closing"}

PoolInv == TypeOK /\ OneGeneration /\ EntryLive /\ ClosingAgents /\ ExecutorHolds

\* Archive closes the agent of a session that is closing and has no run.
ArchiveInv ==
    /\ at["archive"] # "out" => status = "closing"
    /\ at["archive"] \in {"closes", "closed"} => at["run"] = "out"
    /\ at["archive"] = "closed" => entry = NoGen

\* An edit that has closed the agent finds none but those created meanwhile.
EditInv ==
    /\ at["edit"] = "closes" => entry \in closing /\ gen["edit"] = entry
    /\ at["edit"] = "closed" => Live \subseteq early

IInv ==
    /\ PoolInv
    /\ ArchiveInv
    /\ EditInv
    /\ OutdatedIsClosing
    /\ ArchivedHasNoAgent
    /\ RunKeepsAgent

-----------------------------------------------------------------------------
LEMMA ServicesAreCallers == Services \subseteq Callers
  BY DEF Callers

LEMMA InitIInv == Init => IInv
  BY NoGenAssumption, ServicesAreCallers
  DEF Init, IInv, PoolInv, TypeOK, OneGeneration, EntryLive, ClosingAgents,
      ExecutorHolds, ArchiveInv, EditInv, OutdatedIsClosing, ArchivedHasNoAgent,
      RunKeepsAgent, Live, Stages, Services

\* Whatever step is taken, entry, agents and flags stay in agreement.
LEMMA NextPoolInv == PoolInv /\ [Next]_vars => PoolInv'
<1> SUFFICES ASSUME PoolInv, [Next]_vars PROVE PoolInv'
  OBVIOUS
<1> USE NoGenAssumption, ServicesAreCallers
    DEF PoolInv, TypeOK, OneGeneration, EntryLive, ClosingAgents, ExecutorHolds,
        Live, Stages, Services
<1>1. ASSUME NEW c \in Callers, AcquireRefused(c) PROVE PoolInv'
  BY <1>1 DEF AcquireRefused, Moves
<1>2. ASSUME NEW c \in Callers, AcquireShared(c) PROVE PoolInv'
  BY <1>2 DEF AcquireShared, Moves, Busy
<1>3. ASSUME NEW c \in Callers, AcquireAfterClose(c) PROVE PoolInv'
  BY <1>3 DEF AcquireAfterClose, Moves, Busy, Shut
<1>4. ASSUME NEW c \in Callers, NEW g \in Gens, AcquireNew(c, g) PROVE PoolInv'
  BY <1>4 DEF AcquireNew, Moves, Vacant
<1>5. ASSUME NEW c \in Callers, Concludes(c) PROVE PoolInv'
  BY <1>5 DEF Concludes, Moves
<1>6. ASSUME NEW g \in Gens, Loaded(g) PROVE PoolInv'
  BY <1>6 DEF Loaded
<1>7. ASSUME NEW g \in Gens, LoadFails(g) PROVE PoolInv'
  BY <1>7 DEF LoadFails, Release, Forget, AfterRelease
<1>8. ASSUME NEW g \in Gens, NEW ok \in BOOLEAN, AgentClosed(g, ok) PROVE PoolInv'
  BY <1>8 DEF AgentClosed, Release, Forget, AfterRelease
<1>9. CASE Submit
  BY <1>9 DEF Submit
<1>10. CASE RunEnds
  BY <1>10 DEF RunEnds, Moves
<1>11. CASE RunFails
  BY <1>11 DEF RunFails, Close, Moves, Shut
<1>12. CASE RoundOff
  BY <1>12 DEF RoundOff, Close, Moves, Shut
<1>13. CASE Invalidate
  BY <1>13 DEF Invalidate, Shut
<1>14. CASE CloseRuntime
  BY <1>14 DEF CloseRuntime, Shut
<1>15. CASE BeginEdit
  BY <1>15 DEF BeginEdit, Close, Moves, Shut
<1>16. CASE ReplacePrompt
  BY <1>16 DEF ReplacePrompt, Moves
<1>17. CASE Maintain
  BY <1>17 DEF Maintain, Close, Moves, Shut
<1>18. CASE BeginArchive
  BY <1>18 DEF BeginArchive, Moves
<1>19. CASE ArchiveCloses
  BY <1>19 DEF ArchiveCloses, Close, Moves, Shut
<1>20. CASE UNCHANGED vars
  BY <1>20 DEF vars
<1> QED
  BY <1>1, <1>2, <1>3, <1>4, <1>5, <1>6, <1>7, <1>8, <1>9, <1>10, <1>11, <1>12,
     <1>13, <1>14, <1>15, <1>16, <1>17, <1>18, <1>19, <1>20
  DEF Next, Acquire, LoadStep, CloseStep, RunStep

-----------------------------------------------------------------------------
\* The steps that start to close the agent are the only ones that a run at
\* work could lose it by.
LEMMA NextRunKeepsAgent ==
    PoolInv /\ PoolInv' /\ ArchiveInv /\ RunKeepsAgent /\ [Next]_vars => RunKeepsAgent'
<1> SUFFICES ASSUME PoolInv, PoolInv', ArchiveInv, RunKeepsAgent, [Next]_vars,
                    at'["run"] = "works", gen'["run"] \in closing'
             PROVE  status' # "open" \/ gen'["run"] \in dropped'
  BY DEF RunKeepsAgent
<1> DEFINE Goal == status' # "open" \/ gen'["run"] \in dropped'
<1> USE NoGenAssumption, ServicesAreCallers
    DEF PoolInv, TypeOK, OneGeneration, EntryLive, ClosingAgents, ExecutorHolds,
        Live, Stages, Services, ArchiveInv, RunKeepsAgent
<1>1. ASSUME NEW c \in Callers, AcquireRefused(c) PROVE Goal
  BY <1>1 DEF AcquireRefused, Moves
<1>2. ASSUME NEW c \in Callers, AcquireShared(c) PROVE Goal
  BY <1>2 DEF AcquireShared, Moves, Busy
<1>3. ASSUME NEW c \in Callers, AcquireAfterClose(c) PROVE Goal
  BY <1>3 DEF AcquireAfterClose, Moves, Busy, Shut
<1>4. ASSUME NEW c \in Callers, NEW g \in Gens, AcquireNew(c, g) PROVE Goal
  BY <1>4 DEF AcquireNew, Moves, Vacant
<1>5. ASSUME NEW c \in Callers, Concludes(c) PROVE Goal
  BY <1>5 DEF Concludes, Moves
<1>6. ASSUME NEW g \in Gens, Loaded(g) PROVE Goal
  BY <1>6 DEF Loaded
<1>7. ASSUME NEW g \in Gens, LoadFails(g) PROVE Goal
  BY <1>7 DEF LoadFails, Release, Forget, AfterRelease
<1>8. ASSUME NEW g \in Gens, NEW ok \in BOOLEAN, AgentClosed(g, ok) PROVE Goal
  BY <1>8 DEF AgentClosed, Release, Forget, AfterRelease
<1>9. CASE Submit
  BY <1>9 DEF Submit
<1>10. CASE RunEnds
  BY <1>10 DEF RunEnds, Moves
<1>11. CASE RunFails
  BY <1>11 DEF RunFails, Close, Moves, Shut
<1>12. CASE RoundOff
  BY <1>12 DEF RoundOff, Close, Moves, Shut
<1>13. CASE Invalidate
  BY <1>13 DEF Invalidate, Shut, Busy
<1>14. CASE CloseRuntime
  BY <1>14 DEF CloseRuntime, Shut
<1>15. CASE BeginEdit
  BY <1>15 DEF BeginEdit, Close, Moves, Shut
<1>16. CASE ReplacePrompt
  BY <1>16 DEF ReplacePrompt, Moves
<1>17. CASE Maintain
  BY <1>17 DEF Maintain, SessionIdle, Close, Moves, Shut
<1>18. CASE BeginArchive
  BY <1>18 DEF BeginArchive, Moves
<1>19. CASE ArchiveCloses
  BY <1>19 DEF ArchiveCloses, Close, Moves, Shut
<1>20. CASE UNCHANGED vars
  BY <1>20 DEF vars
<1> QED
  BY <1>1, <1>2, <1>3, <1>4, <1>5, <1>6, <1>7, <1>8, <1>9, <1>10, <1>11, <1>12,
     <1>13, <1>14, <1>15, <1>16, <1>17, <1>18, <1>19, <1>20
  DEF Next, Acquire, LoadStep, CloseStep, RunStep

\* Nothing creates an agent or starts a run once archive closes the agent.
LEMMA NextArchiveInv ==
    PoolInv /\ ArchiveInv /\ ArchivedHasNoAgent /\ [Next]_vars
        => ArchiveInv' /\ ArchivedHasNoAgent'
<1> SUFFICES ASSUME PoolInv, ArchiveInv, ArchivedHasNoAgent, [Next]_vars
             PROVE  ArchiveInv' /\ ArchivedHasNoAgent'
  OBVIOUS
<1> DEFINE Goal == ArchiveInv' /\ ArchivedHasNoAgent'
<1> USE NoGenAssumption, ServicesAreCallers, ReaderAssumption
    DEF PoolInv, TypeOK, OneGeneration, EntryLive, ClosingAgents, ExecutorHolds,
        Live, Stages, Services, ArchiveInv, ArchivedHasNoAgent
<1>1. ASSUME NEW c \in Callers, AcquireRefused(c) PROVE Goal
  BY <1>1 DEF AcquireRefused, Moves, Asking, MayStart, Barrier
<1>2. ASSUME NEW c \in Callers, AcquireShared(c) PROVE Goal
  BY <1>2 DEF AcquireShared, Moves, Busy, Asking, MayStart, Barrier
<1>3. ASSUME NEW c \in Callers, AcquireAfterClose(c) PROVE Goal
  BY <1>3 DEF AcquireAfterClose, Moves, Busy, Shut, Asking, MayStart, Barrier
<1>4. ASSUME NEW c \in Callers, NEW g \in Gens, AcquireNew(c, g) PROVE Goal
  BY <1>4 DEF AcquireNew, Moves, Vacant, Asking, MayStart, Barrier
<1>5. ASSUME NEW c \in Callers, Concludes(c) PROVE Goal
  BY <1>5 DEF Concludes, Moves
<1>6. ASSUME NEW g \in Gens, Loaded(g) PROVE Goal
  BY <1>6 DEF Loaded
<1>7. ASSUME NEW g \in Gens, LoadFails(g) PROVE Goal
  BY <1>7 DEF LoadFails, Release, Forget, AfterRelease
<1>8. ASSUME NEW g \in Gens, NEW ok \in BOOLEAN, AgentClosed(g, ok) PROVE Goal
  BY <1>8 DEF AgentClosed, Release, Forget, AfterRelease
<1>9. CASE Submit
  BY <1>9 DEF Submit
<1>10. CASE RunEnds
  BY <1>10 DEF RunEnds, Moves
<1>11. CASE RunFails
  BY <1>11 DEF RunFails, Close, Moves, Shut
<1>12. CASE RoundOff
  BY <1>12 DEF RoundOff, Close, Moves, Shut
<1>13. CASE Invalidate
  BY <1>13 DEF Invalidate, Shut, Busy
<1>14. CASE CloseRuntime
  BY <1>14 DEF CloseRuntime, Shut
<1>15. CASE BeginEdit
  BY <1>15 DEF BeginEdit, Close, Moves, Shut
<1>16. CASE ReplacePrompt
  BY <1>16 DEF ReplacePrompt, Moves
<1>17. CASE Maintain
  BY <1>17 DEF Maintain, Close, Moves, Shut
<1>18. CASE BeginArchive
  BY <1>18 DEF BeginArchive, Moves
<1>19. CASE ArchiveCloses
  BY <1>19 DEF ArchiveCloses, Close, Moves, Shut
<1>20. CASE UNCHANGED vars
  BY <1>20 DEF vars
<1> QED
  BY <1>1, <1>2, <1>3, <1>4, <1>5, <1>6, <1>7, <1>8, <1>9, <1>10, <1>11, <1>12,
     <1>13, <1>14, <1>15, <1>16, <1>17, <1>18, <1>19, <1>20
  DEF Next, Acquire, LoadStep, CloseStep, RunStep

\* While an edit waits for the close, the entry is the one it waits for; any
\* later one was created meanwhile.
LEMMA NextEditInv ==
    PoolInv /\ EditInv /\ OutdatedIsClosing /\ [Next]_vars
        => EditInv' /\ OutdatedIsClosing'
<1> SUFFICES ASSUME PoolInv, EditInv, OutdatedIsClosing, [Next]_vars
             PROVE  EditInv' /\ OutdatedIsClosing'
  OBVIOUS
<1> DEFINE Goal == EditInv' /\ OutdatedIsClosing'
<1> USE NoGenAssumption, ServicesAreCallers, ReaderAssumption
    DEF PoolInv, TypeOK, OneGeneration, EntryLive, ClosingAgents, ExecutorHolds,
        Live, Stages, Services, EditInv, OutdatedIsClosing
<1>1. ASSUME NEW c \in Callers, AcquireRefused(c) PROVE Goal
  BY <1>1 DEF AcquireRefused, Moves, Asking, MayStart, Barrier
<1>2. ASSUME NEW c \in Callers, AcquireShared(c) PROVE Goal
  BY <1>2 DEF AcquireShared, Moves, Busy, Asking, MayStart, Barrier
<1>3. ASSUME NEW c \in Callers, AcquireAfterClose(c) PROVE Goal
  BY <1>3 DEF AcquireAfterClose, Moves, Busy, Shut, Asking, MayStart, Barrier
<1>4. ASSUME NEW c \in Callers, NEW g \in Gens, AcquireNew(c, g) PROVE Goal
  BY <1>4 DEF AcquireNew, Moves, Vacant, Asking, MayStart, Barrier
<1>5. ASSUME NEW c \in Callers, Concludes(c) PROVE Goal
  BY <1>5 DEF Concludes, Moves
<1>6. ASSUME NEW g \in Gens, Loaded(g) PROVE Goal
  BY <1>6 DEF Loaded
<1>7. ASSUME NEW g \in Gens, LoadFails(g) PROVE Goal
  BY <1>7 DEF LoadFails, Release, Forget, AfterRelease
<1>8. ASSUME NEW g \in Gens, NEW ok \in BOOLEAN, AgentClosed(g, ok) PROVE Goal
  BY <1>8 DEF AgentClosed, Release, Forget, AfterRelease
<1>9. CASE Submit
  BY <1>9 DEF Submit
<1>10. CASE RunEnds
  BY <1>10 DEF RunEnds, Moves
<1>11. CASE RunFails
  BY <1>11 DEF RunFails, Close, Moves, Shut
<1>12. CASE RoundOff
  BY <1>12 DEF RoundOff, Close, Moves, Shut
<1>13. CASE Invalidate
  BY <1>13 DEF Invalidate, Shut, Busy
<1>14. CASE CloseRuntime
  BY <1>14 DEF CloseRuntime, Shut
<1>15. CASE BeginEdit
  BY <1>15 DEF BeginEdit, Close, Moves, Shut
<1>16. CASE ReplacePrompt
  BY <1>16 DEF ReplacePrompt, Moves
<1>17. CASE Maintain
  BY <1>17 DEF Maintain, Close, Moves, Shut
<1>18. CASE BeginArchive
  BY <1>18 DEF BeginArchive, Moves
<1>19. CASE ArchiveCloses
  BY <1>19 DEF ArchiveCloses, Close, Moves, Shut
<1>20. CASE UNCHANGED vars
  BY <1>20 DEF vars
<1> QED
  BY <1>1, <1>2, <1>3, <1>4, <1>5, <1>6, <1>7, <1>8, <1>9, <1>10, <1>11, <1>12,
     <1>13, <1>14, <1>15, <1>16, <1>17, <1>18, <1>19, <1>20
  DEF Next, Acquire, LoadStep, CloseStep, RunStep

LEMMA NextIInv == IInv /\ [Next]_vars => IInv'
  BY NextPoolInv, NextRunKeepsAgent, NextArchiveInv, NextEditInv DEF IInv

LEMMA Invariance == Spec => []IInv
<1>1. Init => IInv
  BY InitIInv
<1>2. IInv /\ [Next]_vars => IInv'
  BY NextIInv
<1> QED
  BY <1>1, <1>2, PTL DEF Spec

-----------------------------------------------------------------------------
\* Entries, agents, callers and flags keep their types, and no flag outlives its
\* generation.
THEOREM TypeCorrect == Spec => []TypeOK
<1>1. IInv => TypeOK
  BY DEF IInv, PoolInv
<1> QED
  BY <1>1, Invariance, PTL

\* The pool never has two generations of a session, nor one that it has lost
\* track of (D6).
THEOREM OneAgent == Spec => []OneGeneration
<1>1. IInv => OneGeneration
  BY DEF IInv, PoolInv
<1> QED
  BY <1>1, Invariance, PTL

\* Maintenance under a barrier never leaves an agent behind that was loaded from
\* what it has replaced; an edit can only if somebody acquires meanwhile.
THEOREM ReplacedStateTakesAgent == Spec => []OutdatedIsClosing
<1>1. IInv => OutdatedIsClosing
  BY DEF IInv
<1> QED
  BY <1>1, Invariance, PTL

\* A session that has been archived has no agent and no run.
THEOREM ArchiveIsFinal == Spec => []ArchivedHasNoAgent
<1>1. IInv => ArchivedHasNoAgent
  BY DEF IInv
<1> QED
  BY <1>1, Invariance, PTL

\* A run at work loses its agent to archive and to the user only.
THEOREM WorkIsNotInterrupted == Spec => []RunKeepsAgent
<1>1. IInv => RunKeepsAgent
  BY DEF IInv
<1> QED
  BY <1>1, Invariance, PTL

-----------------------------------------------------------------------------
(* The readers are the only ones that can bring an edit to that.            *)

LoneRun ==
    /\ early = {}
    /\ at["edit"] # "out" => at["run"] = "out"
    /\ RunsOnStoredTranscript

LEMMA NextLoneRun ==
    ASSUME Readers = {}
    PROVE  IInv /\ LoneRun /\ [Next]_vars => LoneRun'
<1> SUFFICES ASSUME IInv, LoneRun, [Next]_vars PROVE LoneRun'
  OBVIOUS
<1> DEFINE Goal == LoneRun'
<1> USE NoGenAssumption, ServicesAreCallers
    DEF IInv, PoolInv, TypeOK, OneGeneration, EntryLive, ClosingAgents, ExecutorHolds,
        Live, Stages, Services, OutdatedIsClosing, LoneRun, RunsOnStoredTranscript
<1>1. ASSUME NEW c \in Callers, AcquireRefused(c) PROVE Goal
  BY <1>1 DEF AcquireRefused, Moves, Asking, MayStart, Barrier
<1>2. ASSUME NEW c \in Callers, AcquireShared(c) PROVE Goal
  BY <1>2 DEF AcquireShared, Moves, Busy, Asking, MayStart, Barrier
<1>3. ASSUME NEW c \in Callers, AcquireAfterClose(c) PROVE Goal
  BY <1>3 DEF AcquireAfterClose, Moves, Busy, Shut, Asking, MayStart, Barrier
<1>4. ASSUME NEW c \in Callers, NEW g \in Gens, AcquireNew(c, g) PROVE Goal
  BY <1>4 DEF AcquireNew, Moves, Vacant, Asking, MayStart, Barrier
<1>5. ASSUME NEW c \in Callers, Concludes(c) PROVE Goal
  BY <1>5 DEF Concludes, Moves
<1>6. ASSUME NEW g \in Gens, Loaded(g) PROVE Goal
  BY <1>6 DEF Loaded
<1>7. ASSUME NEW g \in Gens, LoadFails(g) PROVE Goal
  BY <1>7 DEF LoadFails, Release, Forget, AfterRelease
<1>8. ASSUME NEW g \in Gens, NEW ok \in BOOLEAN, AgentClosed(g, ok) PROVE Goal
  BY <1>8 DEF AgentClosed, Release, Forget, AfterRelease
<1>9. CASE Submit
  BY <1>9 DEF Submit
<1>10. CASE RunEnds
  BY <1>10 DEF RunEnds, Moves
<1>11. CASE RunFails
  BY <1>11 DEF RunFails, Close, Moves, Shut
<1>12. CASE RoundOff
  BY <1>12 DEF RoundOff, Close, Moves, Shut
<1>13. CASE Invalidate
  BY <1>13 DEF Invalidate, Shut, Busy
<1>14. CASE CloseRuntime
  BY <1>14 DEF CloseRuntime, Shut
<1>15. CASE BeginEdit
  BY <1>15 DEF BeginEdit, Close, Moves, Shut
<1>16. CASE ReplacePrompt
  BY <1>16 DEF ReplacePrompt, Moves
<1>17. CASE Maintain
  BY <1>17 DEF Maintain, SessionIdle, Close, Moves, Shut
<1>18. CASE BeginArchive
  BY <1>18 DEF BeginArchive, Moves
<1>19. CASE ArchiveCloses
  BY <1>19 DEF ArchiveCloses, Close, Moves, Shut
<1>20. CASE UNCHANGED vars
  BY <1>20 DEF vars
<1> QED
  BY <1>1, <1>2, <1>3, <1>4, <1>5, <1>6, <1>7, <1>8, <1>9, <1>10, <1>11, <1>12,
     <1>13, <1>14, <1>15, <1>16, <1>17, <1>18, <1>19, <1>20
  DEF Next, Acquire, LoadStep, CloseStep, RunStep

\* If nobody acquires an agent but the run, no edit leaves a run on a
\* transcript that has been replaced: the run EditHistory needs its reader.
THEOREM WithoutReaders ==
    ASSUME Readers = {}
    PROVE  Spec => []RunsOnStoredTranscript
<1>1. Init => LoneRun
  BY ServicesAreCallers DEF Init, LoneRun, RunsOnStoredTranscript, Services
<1>2. IInv /\ LoneRun /\ [Next]_vars => LoneRun'
  BY NextLoneRun
<1>3. LoneRun => RunsOnStoredTranscript
  BY DEF LoneRun
<1> QED
  BY <1>1, <1>2, <1>3, Invariance, PTL DEF Spec

-----------------------------------------------------------------------------
(* Settings that change during a run.                                      *)

\* Callers whose turn it is stand before an entry that settings have not
\* marked: a close takes the mark with the entry.
DueUnmarked == Due => entry \notin stale

LEMMA NextDueUnmarked ==
    ASSUME PoolInv, PoolInv', DueUnmarked, [Next]_vars
    PROVE  DueUnmarked'
<1> USE NoGenAssumption, ServicesAreCallers
    DEF PoolInv, TypeOK, OneGeneration, Live, Services, DueUnmarked, Due
<1>1. ASSUME NEW c \in Callers, AcquireRefused(c) PROVE DueUnmarked'
  BY <1>1 DEF AcquireRefused, Moves, Asking, MayStart
<1>2. ASSUME NEW c \in Callers, AcquireShared(c) PROVE DueUnmarked'
  BY <1>2 DEF AcquireShared, Moves
<1>3. ASSUME NEW c \in Callers, AcquireAfterClose(c) PROVE DueUnmarked'
  BY <1>3 DEF AcquireAfterClose, Moves, Shut
<1>4. ASSUME NEW c \in Callers, NEW g \in Gens, AcquireNew(c, g) PROVE DueUnmarked'
  BY <1>4 DEF AcquireNew, Moves, Vacant
<1>5. ASSUME NEW c \in Callers, Concludes(c) PROVE DueUnmarked'
  BY <1>5 DEF Concludes, Moves
<1>6. ASSUME NEW g \in Gens, Loaded(g) PROVE DueUnmarked'
  BY <1>6 DEF Loaded
<1>7. ASSUME NEW g \in Gens, LoadFails(g) PROVE DueUnmarked'
  BY <1>7 DEF LoadFails, Release, Forget, AfterRelease
<1>8. ASSUME NEW g \in Gens, NEW ok \in BOOLEAN, AgentClosed(g, ok) PROVE DueUnmarked'
  BY <1>8 DEF AgentClosed, Release, Forget, AfterRelease
<1>9. CASE Submit
  BY <1>9 DEF Submit
<1>10. CASE RunEnds
  BY <1>10 DEF RunEnds, Moves
<1>11. CASE RunFails
  BY <1>11 DEF RunFails, Close, Moves, Shut
<1>12. CASE RoundOff
  BY <1>12 DEF RoundOff, Busy, Close, Moves, Shut
<1>13. CASE Invalidate
  BY <1>13 DEF Invalidate, Shut
<1>14. CASE CloseRuntime
  BY <1>14 DEF CloseRuntime, Shut
<1>15. CASE BeginEdit
  BY <1>15 DEF BeginEdit, Close, Moves, Shut
<1>16. CASE ReplacePrompt
  BY <1>16 DEF ReplacePrompt, Moves
<1>17. CASE Maintain
  BY <1>17 DEF Maintain, Close, Moves, Shut
<1>18. CASE BeginArchive
  BY <1>18 DEF BeginArchive, Moves
<1>19. CASE ArchiveCloses
  BY <1>19 DEF ArchiveCloses, Close, Moves, Shut
<1>20. CASE UNCHANGED vars
  BY <1>20 DEF vars
<1> QED
  BY <1>1, <1>2, <1>3, <1>4, <1>5, <1>6, <1>7, <1>8, <1>9, <1>10, <1>11, <1>12,
     <1>13, <1>14, <1>15, <1>16, <1>17, <1>18, <1>19, <1>20
  DEF Next, Acquire, LoadStep, CloseStep, RunStep

\* A run leaves by its last step, by a close that takes the entry with it, or
\* without having had an agent.
LEMMA RunLeavesNoneStale ==
    ASSUME PoolInv, DueUnmarked, [Next]_vars,
           at["run"] # "out", at'["run"] = "out", entry' \in stale'
    PROVE  entry' \in closing' \/ agent'[entry'] # "idle"
<1> DEFINE Goal == entry' \in closing' \/ agent'[entry'] # "idle"
<1> USE NoGenAssumption, ServicesAreCallers
    DEF PoolInv, TypeOK, OneGeneration, Live, Services, DueUnmarked, Due
<1>1. ASSUME NEW c \in Callers, AcquireRefused(c) PROVE Goal
  BY <1>1 DEF AcquireRefused, Moves, Asking, MayStart
<1>2. ASSUME NEW c \in Callers, AcquireShared(c) PROVE Goal
  BY <1>2 DEF AcquireShared, Moves
<1>3. ASSUME NEW c \in Callers, AcquireAfterClose(c) PROVE Goal
  BY <1>3 DEF AcquireAfterClose, Moves, Shut
<1>4. ASSUME NEW c \in Callers, NEW g \in Gens, AcquireNew(c, g) PROVE Goal
  BY <1>4 DEF AcquireNew, Moves, Vacant
<1>5. ASSUME NEW c \in Callers, Concludes(c) PROVE Goal
  BY <1>5 DEF Concludes, Moves
<1>6. ASSUME NEW g \in Gens, Loaded(g) PROVE Goal
  BY <1>6 DEF Loaded
<1>7. ASSUME NEW g \in Gens, LoadFails(g) PROVE Goal
  BY <1>7 DEF LoadFails, Release, Forget, AfterRelease
<1>8. ASSUME NEW g \in Gens, NEW ok \in BOOLEAN, AgentClosed(g, ok) PROVE Goal
  BY <1>8 DEF AgentClosed, Release, Forget, AfterRelease
<1>9. CASE Submit
  BY <1>9 DEF Submit
<1>10. CASE RunEnds
  BY <1>10 DEF RunEnds, Moves
<1>11. CASE RunFails
  BY <1>11 DEF RunFails, Close, Moves, Shut
<1>12. CASE RoundOff
  BY <1>12 DEF RoundOff, Busy, Close, Moves, Shut
<1>13. CASE Invalidate
  BY <1>13 DEF Invalidate, Shut
<1>14. CASE CloseRuntime
  BY <1>14 DEF CloseRuntime, Shut
<1>15. CASE BeginEdit
  BY <1>15 DEF BeginEdit, Close, Moves, Shut
<1>16. CASE ReplacePrompt
  BY <1>16 DEF ReplacePrompt, Moves
<1>17. CASE Maintain
  BY <1>17 DEF Maintain, Close, Moves, Shut
<1>18. CASE BeginArchive
  BY <1>18 DEF BeginArchive, Moves
<1>19. CASE ArchiveCloses
  BY <1>19 DEF ArchiveCloses, Close, Moves, Shut
<1>20. CASE UNCHANGED vars
  BY <1>20 DEF vars
<1> QED
  BY <1>1, <1>2, <1>3, <1>4, <1>5, <1>6, <1>7, <1>8, <1>9, <1>10, <1>11, <1>12,
     <1>13, <1>14, <1>15, <1>16, <1>17, <1>18, <1>19, <1>20
  DEF Next, Acquire, LoadStep, CloseStep, RunStep

\* When a run leaves the executor, no idle agent with settings that changed
\* during the run stays behind: whichever way the run ends, its last step looks
\* at the mark or closes the agent.
THEOREM StaleLeavesWithRun == Spec => StaleGoesWithRun
<1>1. Init => DueUnmarked
  BY ServicesAreCallers DEF Init, DueUnmarked, Due
<1>2. IInv /\ IInv' /\ DueUnmarked /\ [Next]_vars => DueUnmarked'
  BY NextDueUnmarked DEF IInv
<1>3. ASSUME IInv, DueUnmarked, [Next]_vars
      PROVE  [at["run"] # "out" /\ at'["run"] = "out" /\ entry' \in stale' =>
                  entry' \in closing' \/ agent'[entry'] # "idle"]_vars
  BY <1>3, RunLeavesNoneStale DEF IInv
<1> QED
  BY <1>1, <1>2, <1>3, Invariance, PTL DEF Spec, StaleGoesWithRun

=============================================================================
