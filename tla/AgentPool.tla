------------------------------ MODULE AgentPool ------------------------------
(***************************************************************************)
(* AgentPool (agent-pool.ts) for one session, with everyone who uses it:   *)
(* the run executor (session-run-executor.ts), readers of an agent (MCP    *)
(* status, usage, warm-up), the edit of the latest prompt, maintenance     *)
(* under a barrier that replaces durable state, archive, the soft          *)
(* invalidation of a settings change, and the close of a runtime by hand.  *)
(*                                                                         *)
(* A generation is one pool entry and its agent; ids of released           *)
(* generations are used again.  A piece of code between two awaits is one  *)
(* action; those who wait for a promise that has settled go on before      *)
(* anything else happens (Due).                                            *)
(***************************************************************************)
EXTENDS Integers, FiniteSets

CONSTANTS
    Gens,        \* names for generations (bound)
    NoGen,
    Readers,     \* callers that acquire an agent to look at it
    Leased       \* those that hold a shared lease while they do; the live
                 \* assembly of context usage holds none

Services == {"run", "edit", "maint", "archive"}
Callers  == Services \cup Readers

ASSUME NoGenAssumption == NoGen \notin Gens
ASSUME ReaderAssumption == Leased \subseteq Readers /\ Readers \cap Services = {}

VARIABLES
    entry,       \* the entry of the session in the map "agents"
    agent,       \* the agent of a generation, by its lifecycleState
    closing,     \* generations whose entry.state is "closing"
    stale,       \* generations whose entry is marked stale
    outdated,    \* loaded from durable state that has been replaced since
    at,          \* how far each caller has come
    gen,         \* the generation it waits for or has in hand
    status,      \* the durable status of the session
    early,       \* created while an edit was closing the agent (history)
    dropped      \* closed by hand (history)

vars == <<entry, agent, closing, stale, outdated, at, gen, status, early, dropped>>

Stages == {"out",
           "loads",      \* awaits entry.promise
           "waits",      \* awaits closePromise, to acquire again
           "again",      \* due: closePromise has resolved
           "holds",      \* the executor has the agent, and has not submitted
           "lost",       \* the same, and the agent has been closed
           "works",      \* submitMessage has been called
           "after",      \* the run has ended well, its maintenance follows
           "settles",    \* awaits the close at the end of a run
           "drains",     \* archive: awaits the interrupted run
           "closes",     \* edit, maintenance, archive: awaits the close
           "closed"}     \* due: that close has resolved

-----------------------------------------------------------------------------
Due == \E c \in Callers : at[c] \in {"again", "closed"}

Live == {g \in Gens : agent[g] # "none"}

\* entryHasActiveWork.  Live children of an agent are not modelled.
Busy(g) == g \in closing \/ agent[g] # "idle"

Barrier == at["maint"] # "out" \/ at["archive"] # "out"

\* No operation with a shared lease is under way.
NoLease == at["edit"] = "out" /\ \A r \in Leased : at[r] = "out"

\* A run is dispatched by the lane of the session, one at a time, and a
\* command of the session was admitted for it.
MayStart(c) ==
    /\ at[c] = "out"
    /\ ~Due
    /\ c = "run" => at["edit"] = "out" /\ ~Barrier
    /\ c \in Leased => ~Barrier

Moves(c, stage, g) ==
    /\ at' = [at EXCEPT ![c] = stage]
    /\ gen' = [gen EXCEPT ![c] = g]

\* The synchronous half of close: an agent that is there starts to close, one
\* that is being created will when it is.
Shut(g) ==
    /\ closing' = closing \cup {g}
    /\ agent' = [agent EXCEPT ![g] = IF @ = "loading" THEN @ ELSE "closing"]

\* close(sessionId), awaited by c.
Close(c, waiting, done) ==
    \/ /\ entry = NoGen
       /\ Moves(c, done, NoGen)
       /\ UNCHANGED <<agent, closing>>
    \/ /\ entry # NoGen
       /\ Moves(c, waiting, entry)
       /\ Shut(entry)

Init ==
    /\ entry = NoGen
    /\ agent = [g \in Gens |-> "none"]
    /\ closing = {} /\ stale = {} /\ outdated = {}
    /\ at = [c \in Callers |-> "out"]
    /\ gen = [c \in Callers |-> NoGen]
    /\ status = "open"
    /\ early = {} /\ dropped = {}

-----------------------------------------------------------------------------
Asking(c) == c \in Readers \cup {"run"} /\ (MayStart(c) \/ at[c] = "again")

\* acquire: a session that is closing or archived gets no agent.
AcquireRefused(c) ==
    /\ Asking(c)
    /\ status # "open"
    /\ Moves(c, "out", NoGen)
    /\ UNCHANGED <<entry, agent, closing, stale, outdated, status, early, dropped>>

\* acquire: the entry is active, and is not dropped for being stale.
AcquireShared(c) ==
    /\ Asking(c)
    /\ status = "open"
    /\ entry # NoGen /\ entry \notin closing
    /\ entry \in stale => Busy(entry)
    /\ IF agent[entry] = "loading" THEN Moves(c, "loads", entry)
       ELSE IF c = "run" THEN Moves(c, "holds", entry) ELSE Moves(c, "out", NoGen)
    /\ UNCHANGED <<entry, agent, closing, stale, outdated, status, early, dropped>>

\* acquire: the entry is idle and stale, or is closing already.
AcquireAfterClose(c) ==
    /\ Asking(c)
    /\ status = "open"
    /\ entry # NoGen
    /\ \/ entry \in closing /\ UNCHANGED <<agent, closing>>
       \/ entry \notin closing /\ entry \in stale /\ ~Busy(entry) /\ Shut(entry)
    /\ Moves(c, "waits", entry)
    /\ UNCHANGED <<entry, stale, outdated, status, early, dropped>>

\* Mutant: a closing entry does not prevent a replacement.
VacantOrClosing == status = "open" /\ (entry = NoGen \/ entry \in closing)

\* The state a session must have for an agent to be created.
Vacant == status = "open" /\ entry = NoGen

\* acquire, create: the durable session and its transcript are read at once.
AcquireNew(c, g) ==
    /\ Asking(c)
    /\ Vacant
    /\ agent[g] = "none" /\ \A d \in Callers : gen[d] # g
    /\ entry' = g
    /\ agent' = [agent EXCEPT ![g] = "loading"]
    /\ early' = IF at["edit"] # "out" THEN early \cup {g} ELSE early
    /\ Moves(c, "loads", g)
    /\ UNCHANGED <<closing, stale, outdated, status, dropped>>

-----------------------------------------------------------------------------
\* Generation g leaves the pool: the flags of its entry go with it.
Forget(g) ==
    /\ entry' = IF entry = g THEN NoGen ELSE entry
    /\ agent' = [agent EXCEPT ![g] = "none"]
    /\ closing' = closing \ {g}
    /\ stale' = stale \ {g}
    /\ outdated' = outdated \ {g}
    /\ early' = early \ {g}
    /\ dropped' = dropped \ {g}

\* What becomes of a caller that waits for, or holds, a generation when it is
\* gone; ok tells whether agent.close has succeeded.
AfterRelease(c, ok) ==
    CASE at[c] = "waits"  -> IF ok THEN "again" ELSE "out"
      [] at[c] = "closes" -> IF ok THEN "closed" ELSE "out"
      [] at[c] = "holds"  -> "lost"
      [] at[c] \in {"loads", "settles"} -> "out"
      [] OTHER -> at[c]

Release(g, ok) ==
    /\ Forget(g)
    /\ at' = [c \in Callers |-> IF gen[c] = g THEN AfterRelease(c, ok) ELSE at[c]]
    /\ gen' = [c \in Callers |-> IF gen[c] = g THEN NoGen ELSE gen[c]]
    /\ UNCHANGED status

\* loadAgent has returned.  A close that came meanwhile goes on at once.
Loaded(g) ==
    /\ agent[g] = "loading" /\ ~Due
    /\ agent' = [agent EXCEPT ![g] = IF g \in closing THEN "closing" ELSE "idle"]
    /\ at' = [c \in Callers |-> IF gen[c] = g /\ at[c] = "loads"
                                THEN IF c = "run" THEN "holds" ELSE "out"
                                ELSE at[c]]
    /\ gen' = [c \in Callers |-> IF gen[c] = g /\ at[c] = "loads" /\ c # "run"
                                 THEN NoGen ELSE gen[c]]
    /\ UNCHANGED <<entry, closing, stale, outdated, status, early, dropped>>

\* loadAgent has thrown: the entry is deleted, a close has nothing to do.
LoadFails(g) ==
    /\ agent[g] = "loading" /\ ~Due
    /\ Release(g, TRUE)

\* Mutant: the close of an agent waits for the executor, not for its run.
AgentClosedAfterExecutor(g, ok) ==
    /\ agent[g] = "closing" /\ ~Due
    /\ gen["run"] # g
    /\ Release(g, ok)

\* agent.close has returned or thrown; it waits for the run it interrupts.
AgentClosed(g, ok) ==
    /\ agent[g] = "closing" /\ ~Due
    /\ ~(gen["run"] = g /\ at["run"] = "works")
    /\ Release(g, ok)

-----------------------------------------------------------------------------
\* submitMessage: assertIdle lets it pass.
Submit ==
    /\ at["run"] = "holds" /\ ~Due
    /\ agent[gen["run"]] = "idle"
    /\ agent' = [agent EXCEPT ![gen["run"]] = "running"]
    /\ at' = [at EXCEPT !["run"] = "works"]
    /\ UNCHANGED <<entry, closing, stale, outdated, gen, status, early, dropped>>

\* The result of the run has resolved.
RunEnds ==
    /\ at["run"] = "works" /\ ~Due
    /\ agent' = [agent EXCEPT ![gen["run"]] = IF @ = "running" THEN "idle" ELSE @]
    /\ Moves("run", "after", NoGen)
    /\ UNCHANGED <<entry, closing, stale, outdated, status, early, dropped>>

\* The catch block of the executor: preparation or submission has failed, the
\* run has failed or was interrupted, or its maintenance has failed.
RunFails ==
    /\ at["run"] \in {"holds", "lost", "works", "after"} /\ ~Due
    /\ Close("run", "settles", "out")
    /\ UNCHANGED <<entry, stale, outdated, status, early, dropped>>

\* Mutant: the executor leaves a stale agent in the pool.
RoundOffStaleKept ==
    /\ at["run"] = "after" /\ ~Due
    /\ Moves("run", "out", NoGen)
    /\ UNCHANGED <<entry, agent, closing, stale, outdated, status, early, dropped>>

\* closeIfStale, the last step of a run that went well.
RoundOff ==
    /\ at["run"] = "after" /\ ~Due
    /\ IF entry \in stale /\ ~Busy(entry)
       THEN Close("run", "settles", "out")
       ELSE Moves("run", "out", NoGen) /\ UNCHANGED <<agent, closing>>
    /\ UNCHANGED <<entry, stale, outdated, status, early, dropped>>

-----------------------------------------------------------------------------
\* Mutant: a generation counts as idle however its agent is.
InvalidateWorking ==
    /\ ~Due
    /\ entry # NoGen /\ entry \notin closing
    /\ Shut(entry)
    /\ UNCHANGED <<entry, stale, outdated, at, gen, status, early, dropped>>

\* invalidateWarmAgents.  A settings change calls it without a barrier when
\* none was to be had.
Invalidate ==
    /\ ~Due
    /\ entry # NoGen
    /\ \/ Busy(entry) /\ stale' = stale \cup {entry} /\ UNCHANGED <<agent, closing>>
       \/ ~Busy(entry) /\ Shut(entry) /\ UNCHANGED stale
    /\ UNCHANGED <<entry, outdated, at, gen, status, early, dropped>>

\* closeRuntime, a request of the user.
CloseRuntime ==
    /\ ~Due
    /\ entry # NoGen
    /\ Shut(entry)
    /\ dropped' = dropped \cup {entry}
    /\ UNCHANGED <<entry, stale, outdated, at, gen, status, early>>

\* editLatestPrompt, a command of the session: the agent is closed first,
\* then the transcript replaced.
BeginEdit ==
    /\ at["edit"] = "out" /\ ~Due
    /\ ~Barrier
    /\ at["run"] = "out"
    /\ Close("edit", "closes", "closed")
    /\ UNCHANGED <<entry, stale, outdated, status, early, dropped>>

\* replaceLatestPrompt.
ReplacePrompt ==
    /\ at["edit"] = "closed"
    /\ outdated' = outdated \cup Live
    /\ Moves("edit", "out", NoGen)
    /\ UNCHANGED <<entry, agent, closing, stale, status, early, dropped>>

\* The idle check of a session, cwd or global barrier.
SessionIdle == at["run"] = "out" /\ (entry # NoGen => ~Busy(entry))

\* rewind, a change of the session's configuration, plugins or settings: under
\* a barrier durable state is replaced, and the agent closed in one go.
Maintain ==
    /\ at["maint"] = "out" /\ ~Due
    /\ ~Barrier /\ NoLease
    /\ SessionIdle
    /\ outdated' = outdated \cup Live
    /\ Close("maint", "closes", "closed")
    /\ UNCHANGED <<entry, stale, status, early, dropped>>

\* beginArchive and interruptSession, under a barrier without idle check.
BeginArchive ==
    /\ at["archive"] = "out" /\ ~Due
    /\ ~Barrier /\ NoLease
    /\ status # "archived"
    /\ status' = "closing"
    /\ Moves("archive", "drains", NoGen)
    /\ UNCHANGED <<entry, agent, closing, stale, outdated, early, dropped>>

\* waitForRuns has returned: closeAgent.
ArchiveCloses ==
    /\ at["archive"] = "drains" /\ ~Due
    /\ at["run"] = "out"
    /\ Close("archive", "closes", "closed")
    /\ UNCHANGED <<entry, stale, outdated, status, early, dropped>>

\* The close has resolved: archiveSession, and the barrier of either is
\* released.
Concludes(c) ==
    /\ c \in {"maint", "archive"}
    /\ at[c] = "closed"
    /\ status' = IF c = "archive" THEN "archived" ELSE status
    /\ Moves(c, "out", NoGen)
    /\ UNCHANGED <<entry, agent, closing, stale, outdated, early, dropped>>

-----------------------------------------------------------------------------
Acquire(c) ==
    \/ AcquireRefused(c)
    \/ AcquireShared(c)
    \/ AcquireAfterClose(c)
    \/ \E g \in Gens : AcquireNew(c, g)

LoadStep(g) == Loaded(g) \/ LoadFails(g)
CloseStep(g) == \E ok \in BOOLEAN : AgentClosed(g, ok)
RunStep == Submit \/ RunEnds \/ RunFails \/ RoundOff

Next ==
    \/ \E c \in Callers : Acquire(c) \/ Concludes(c)
    \/ \E g \in Gens : LoadStep(g) \/ CloseStep(g)
    \/ RunStep
    \/ Invalidate
    \/ CloseRuntime
    \/ BeginEdit
    \/ ReplacePrompt
    \/ Maintain
    \/ BeginArchive
    \/ ArchiveCloses

Spec == Init /\ [][Next]_vars

\* Reactions run, agents are created and closed or fail to be, a run takes its
\* steps and ends, archive takes its next step.
Fairness ==
    /\ \A c \in Callers : WF_vars((at[c] = "again" /\ Acquire(c)) \/ Concludes(c))
    /\ WF_vars(ReplacePrompt)
    /\ \A g \in Gens : SF_vars(LoadStep(g)) /\ SF_vars(CloseStep(g))
    /\ SF_vars(RunStep)
    /\ SF_vars(ArchiveCloses)

FairSpec == Spec /\ Fairness

-----------------------------------------------------------------------------
\* Every variable has its type; flags belong to generations that exist.
TypeOK ==
    /\ entry \in Gens \cup {NoGen}
    /\ agent \in [Gens -> {"none", "loading", "idle", "running", "closing"}]
    /\ closing \subseteq Live /\ stale \subseteq Live /\ outdated \subseteq Live
    /\ early \subseteq Live /\ dropped \subseteq closing
    /\ at \in [Callers -> Stages]
    /\ gen \in [Callers -> Gens \cup {NoGen}]
    /\ status \in {"open", "closing", "archived"}

\* At most one generation of a session exists, and the pool knows it, so that
\* whoever closes the session's agent closes the only one (D6).
OneGeneration == \A g \in Live : entry = g

\* Durable state that is replaced under a barrier takes the agent with it: an
\* agent that was loaded from what has been replaced is being closed, unless
\* it was created while an edit closed its predecessor.
OutdatedIsClosing == outdated \subseteq closing \cup early

\* An archived session has neither agent nor run.
ArchivedHasNoAgent == status = "archived" => entry = NoGen /\ at["run"] = "out"

\* A run at work loses its agent to archive and to the user, never to a change
\* of settings, to a reader, to maintenance or to an edit.
RunKeepsAgent ==
    at["run"] = "works" /\ gen["run"] \in closing =>
        status # "open" \/ gen["run"] \in dropped

\* The run during which settings have changed leaves no idle agent with the
\* old ones behind.
StaleGoesWithRun ==
    [][at["run"] # "out" /\ at'["run"] = "out" /\ entry' \in stale' =>
           entry' \in closing' \/ agent'[entry'] # "idle"]_vars

\* Whoever waits for an agent, or for one to close, is answered.
CallersAnswered ==
    \A c \in Callers :
        at[c] \in {"loads", "waits", "again", "settles", "drains", "closes", "closed"}
            ~> at[c] \in {"out", "holds"}

\* daemon-agent.ts: the agent that the pool hands out has been given the
\* transcript that is in the store.
RunsOnStoredTranscript == at["run"] = "works" => gen["run"] \notin outdated

=============================================================================
