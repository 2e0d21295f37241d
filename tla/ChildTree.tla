------------------------------ MODULE ChildTree ------------------------------
(***************************************************************************)
(* The children of one root agent, in the framework and in the daemon.     *)
(*                                                                         *)
(* The framework side is AgentChildManager (agent-runtime/child-agent.ts): *)
(* a record per child, spawned by the root's run, given follow-up inputs,  *)
(* suspended when idle and closed from anywhere at any time.  Every change *)
(* is told to the daemon by an event on the root's bus, and the teller     *)
(* waits for the answer.  The daemon side is DaemonAgentEventProjector: it *)
(* applies the events one at a time to the durable store; when an event of *)
(* a child cannot be applied, a settlement is stored, tried at once, tried *)
(* again before the next event, and once more when the daemon starts.      *)
(*                                                                         *)
(* Steering a child, permission and streaming events, nested children and  *)
(* failures of Agent.close and of a lease's release are left out.          *)
(***************************************************************************)
EXTENDS Naturals, Sequences, FiniteSets

CONSTANTS
    Children,       \* child ids: each is spawned at most once
    Root,           \* the root session, whose runs spawn the children
    MaxActive,      \* the budget's maxActiveChildren
    MaxSends,       \* bound: follow-up inputs, over all children
    MaxFaults,      \* bound: failures of the store, an environment or a new agent
    MaxRestarts     \* bound: crashes of the daemon

ASSUME ChildrenAssumption == Root \notin Children /\ IsFiniteSet(Children)
ASSUME BoundsAssumption ==
    {MaxActive, MaxSends, MaxFaults, MaxRestarts} \subseteq Nat

VARIABLES
    rec,        \* ChildRecord.state; "none" before, "gone" after its time in `records`
    act,        \* where each asynchronous procedure of a child stands
    agent,      \* the child's VykorAgent
    lease,      \* its environment lease
    active,     \* children holding a place of the budget
    ran,        \* runs of the child so far
    sends,      \* follow-up inputs sent so far
    gen,        \* incarnation of the daemon, also the id of the root's run in it
    rootRun,    \* that run
    bus,        \* AgentEventBus.delivery: events not yet answered, in order
    step,       \* what the projector does with the head of the bus
    known,      \* DaemonAgentEventProjector.children
    bound,      \* those of them whose state has a runId
    db,         \* the durable session, task, open runs and open attempts
    pending,    \* projection_settlement rows that are not resolved
    unheard,    \* children an event of whom was dropped, with no settlement for it
    faults      \* failures so far

manager == <<rec, act, agent, lease, active, ran, sends>>
projector == <<step, known, bound, db, pending, unheard>>
vars == <<manager, gen, rootRun, bus, projector, faults>>

-----------------------------------------------------------------------------
Runs == 1 .. (MaxSends + 1)
Gens == 1 .. (MaxRestarts + 1)
Kinds == {"created", "resumed", "suspended", "closed", "started", "ended"}
Acts == {"spawn", "send", "suspend", "run", "close"}

(* An event carries its child and its context: the session and the run it   *)
(* belongs to.  emitChild gives child.* events the context of the parent.   *)
(* child.closed carries the child's result: that it failed is "failed".      *)
Event == [c : Children \cup {Root}, kind : Kinds,
          of : Children \cup {Root}, run : Runs \cup Gens, failed : BOOLEAN]

ChildEvent(c, kind) ==
    [c |-> c, kind |-> kind, of |-> Root, run |-> gen, failed |-> FALSE]
ClosedEvent(c, failed) == [ChildEvent(c, "closed") EXCEPT !.failed = failed]
RunEvent(c, kind, n) ==
    [c |-> c, kind |-> kind, of |-> c, run |-> n, failed |-> FALSE]

Blank == [session |-> "none", task |-> "none", runs |-> {}, attempts |-> {},
          closed |-> 0]

(* "closed" counts the durable agent.child.closed events of a child: one at  *)
(* most, over the retries of the projection and the recovery after a crash.  *)
TypeOK ==
    /\ rec \in [Children -> {"none", "starting", "idle", "running", "suspended",
                             "closing", "closed", "gone"}]
    /\ act \in [Children ->
         [spawn : {"off", "acquiring", "telling", "creating", "starting",
                   "failing", "done"},
          send : {"off", "waiting", "creating", "telling", "starting"},
          suspend : {"off", "closing", "telling"},
          run : {"off", "starting", "live", "ending"},
          close : {"off", "interrupting", "cleaning", "silent", "telling", "done"}]]
    /\ agent \in [Children -> {"none", "creating", "open", "closing"}]
    /\ lease \in [Children -> {"none", "held", "released"}]
    /\ active \subseteq Children
    /\ ran \in [Children -> Runs \cup {0}]
    /\ sends \in 0 .. MaxSends
    /\ gen \in Gens
    /\ rootRun \in {"live", "over", "aborted", "stopped"}
    /\ bus \in Seq(Event)
    /\ step \in {"idle", "failed", "settling"}
    /\ known \subseteq Children
    /\ bound \subseteq Children
    /\ db \in [Children \cup {Root} ->
         [session : {"none", "open", "archived"}, task : {"none", "running", "ended"},
          runs : SUBSET (Runs \cup Gens), attempts : SUBSET (Runs \cup Gens),
          closed : 0 .. 1]]
    /\ pending \subseteq [e : Event, gen : Gens]
    /\ unheard \subseteq Children
    /\ faults \in 0 .. MaxFaults

Init ==
    /\ rec = [c \in Children |-> "none"]
    /\ act = [c \in Children |-> [a \in Acts |-> "off"]]
    /\ agent = [c \in Children |-> "none"]
    /\ lease = [c \in Children |-> "none"]
    /\ active = {}
    /\ ran = [c \in Children |-> 0]
    /\ sends = 0
    /\ gen = 1
    /\ rootRun = "live"
    /\ bus = << >>
    /\ step = "idle"
    /\ known = {}
    /\ bound = {}
    /\ db = [k \in Children \cup {Root} |->
               IF k = Root
               THEN [Blank EXCEPT !.session = "open", !.runs = {1}, !.attempts = {1}]
               ELSE Blank]
    /\ pending = {}
    /\ unheard = {}
    /\ faults = 0

-----------------------------------------------------------------------------
(* Child manager: helpers over one child's record.                          *)

Unavailable(c) == rec[c] \in {"closing", "closed", "gone"}

Fault == faults < MaxFaults /\ faults' = faults + 1
At(c, a, pc) == [act EXCEPT ![c][a] = pc]
Emit(e) == bus' = Append(bus, e)

(* closeRecord: the work is done once, whoever asks, and the first caller    *)
(* decides whether child.closed is emitted.  "f" is act changed so far.      *)
Cleaned(f, c, emit) ==
    [f EXCEPT
        ![c].close = IF @ \in {"off", "interrupting"}
                     THEN IF emit THEN "cleaning" ELSE "silent"
                     ELSE @,
        ![c].spawn = IF @ = "failing" /\ f[c].close = "done" THEN "off" ELSE @]
CleanedRec(c) ==
    IF act[c].close \in {"off", "interrupting"} THEN [rec EXCEPT ![c] = "closed"] ELSE rec

(* ensureAgent gives up: it closes the agent unless the clean-up will.       *)
GivenUp(c) ==
    IF agent[c] = "open" /\ act[c].close \in {"off", "interrupting"}
    THEN [agent EXCEPT ![c] = "closing"]
    ELSE agent

(* beginRun, once the agent is there: submitMessage starts and emits behind  *)
(* the events in q; "a" is the procedure that waits for run.started.         *)
BeginRun(c, a, q) ==
    /\ act' = [act EXCEPT ![c].run = "starting", ![c][a] = "starting"]
    /\ rec' = [rec EXCEPT ![c] = "running"]
    /\ ran' = [ran EXCEPT ![c] = @ + 1]
    /\ bus' = Append(q, RunEvent(c, "started", ran[c] + 1))

SpawnFails(c, emit) ==
    /\ act' = Cleaned(At(c, "spawn", "failing"), c, emit)
    /\ rec' = CleanedRec(c)

-----------------------------------------------------------------------------
(* spawn                                                                    *)

Spawn(c) ==
    /\ rec[c] = "none" /\ act[c].spawn = "off"
    /\ rootRun = "live"
    /\ Cardinality(active) < MaxActive
    /\ active' = active \cup {c}
    /\ act' = At(c, "spawn", "acquiring")
    /\ UNCHANGED <<rec, agent, lease, ran, sends, gen, rootRun, bus, projector, faults>>

(* A failed acquisition is announced too, with an empty lease.              *)
SpawnAcquires(c) ==
    /\ act[c].spawn = "acquiring"
    /\ \/ lease' = [lease EXCEPT ![c] = "held"] /\ UNCHANGED faults
       \/ lease' = lease /\ Fault
    /\ rec' = [rec EXCEPT ![c] = "starting"]
    /\ act' = At(c, "spawn", "telling")
    /\ Emit(ChildEvent(c, "created"))
    /\ UNCHANGED <<agent, active, ran, sends, gen, rootRun, projector>>

(* Spawn hears of child.created.                                            *)
SpawnAnnounced(c, ok) ==
    /\ IF ok /\ lease[c] # "none" /\ ~Unavailable(c)
       THEN /\ act' = At(c, "spawn", "creating")
            /\ agent' = [agent EXCEPT ![c] = IF @ = "none" THEN "creating" ELSE @]
            /\ UNCHANGED rec
       ELSE /\ SpawnFails(c, ok)
            /\ UNCHANGED agent
    /\ bus' = Tail(bus)
    /\ UNCHANGED <<lease, active, ran, sends>>

(* createAgent settles, for every ensureAgent that shares it.               *)
AgentCreated(c) ==
    /\ agent[c] = "creating"
    /\ agent' = [agent EXCEPT ![c] = "open"]
    /\ UNCHANGED <<rec, act, lease, active, ran, sends, gen, rootRun, bus, projector, faults>>

AgentNotCreated(c) ==
    /\ agent[c] = "creating"
    /\ Fault
    /\ agent' = [agent EXCEPT ![c] = "none"]
    /\ act' = LET sent == IF act[c].send = "creating" THEN At(c, "send", "off") ELSE act
              IN IF act[c].spawn = "creating"
                 THEN Cleaned([sent EXCEPT ![c].spawn = "failing"], c, TRUE)
                 ELSE sent
    /\ rec' = IF act[c].spawn = "creating" THEN CleanedRec(c) ELSE rec
    /\ UNCHANGED <<lease, active, ran, sends, gen, rootRun, bus, projector>>

(* Mutant: the signal of the root's run is not looked at again.              *)
SpawnHasAgentDeaf(c) ==
    /\ act[c].spawn = "creating" /\ agent[c] # "creating"
    /\ IF ~Unavailable(c) /\ act[c].run = "off"
       THEN /\ BeginRun(c, "spawn", bus)
            /\ UNCHANGED agent
       ELSE /\ SpawnFails(c, TRUE)
            /\ agent' = IF Unavailable(c) THEN GivenUp(c) ELSE agent
            /\ UNCHANGED <<ran, bus>>
    /\ UNCHANGED <<lease, active, sends, gen, rootRun, projector, faults>>

(* The new agent is taken into use.  The child may have been closed          *)
(* meanwhile, a follow-up input may have begun a run first (submitMessage    *)
(* then refuses), and the root's run may be aborted before the child listens *)
(* to its signal.                                                            *)
SpawnHasAgent(c) ==
    /\ act[c].spawn = "creating" /\ agent[c] # "creating"
    /\ \/ /\ ~Unavailable(c) /\ rootRun = "live" /\ act[c].run = "off"
          /\ BeginRun(c, "spawn", bus)
          /\ UNCHANGED agent
       \/ /\ ~Unavailable(c) /\ rootRun # "live"
          /\ act' = [act EXCEPT ![c].spawn = "failing", ![c].close = "interrupting"]
          /\ rec' = [rec EXCEPT ![c] = "closing"]
          /\ UNCHANGED <<agent, ran, bus>>
       \/ /\ Unavailable(c) \/ (rootRun = "live" /\ act[c].run # "off")
          /\ SpawnFails(c, TRUE)
          /\ agent' = IF Unavailable(c) THEN GivenUp(c) ELSE agent
          /\ UNCHANGED <<ran, bus>>
    /\ UNCHANGED <<lease, active, sends, gen, rootRun, projector, faults>>

-----------------------------------------------------------------------------
(* Follow-up inputs: sendToRecord, one at a time per child (startChain).     *)

Send(c) ==
    /\ rec[c] # "none" /\ ~Unavailable(c)
    /\ act[c].send = "off" /\ sends < MaxSends
    /\ sends' = sends + 1
    /\ act' = At(c, "send", "waiting")
    /\ UNCHANGED <<rec, agent, lease, active, ran, gen, rootRun, bus, projector, faults>>

(* The previous run is over; ensureAgent waits for a suspension under way.   *)
SendTurn(c) ==
    /\ act[c].send = "waiting"
    /\ act[c].run = "off" /\ (act[c].suspend = "off" \/ Unavailable(c))
    /\ \/ /\ Unavailable(c)
          /\ act' = At(c, "send", "off")
          /\ UNCHANGED <<rec, ran, bus, agent>>
       \/ /\ ~Unavailable(c) /\ agent[c] = "open"
          /\ BeginRun(c, "send", bus)
          /\ UNCHANGED agent
       \/ /\ ~Unavailable(c) /\ agent[c] \in {"none", "creating"}
          /\ act' = At(c, "send", "creating")
          /\ agent' = [agent EXCEPT ![c] = "creating"]
          /\ UNCHANGED <<rec, ran, bus>>
    /\ UNCHANGED <<lease, active, sends, gen, rootRun, projector, faults>>

(* A spawn that waits for the same agent is taken to go on first: that the   *)
(* input's child.resumed can be ahead of its run.started is left out.        *)
SendHasAgent(c) ==
    /\ act[c].send = "creating" /\ agent[c] # "creating"
    /\ act[c].spawn \notin {"telling", "creating"}
    /\ \/ /\ Unavailable(c)
          /\ act' = At(c, "send", "off")
          /\ agent' = GivenUp(c)
          /\ UNCHANGED <<rec, bus>>
       \/ /\ ~Unavailable(c)
          /\ rec' = [rec EXCEPT ![c] = "idle"]
          /\ act' = At(c, "send", "telling")
          /\ Emit(ChildEvent(c, "resumed"))
          /\ UNCHANGED agent
    /\ UNCHANGED <<lease, active, ran, sends, gen, rootRun, projector, faults>>

(* The input hears of child.resumed.                                         *)
SendResumed(c, ok) ==
    /\ IF ok /\ ~Unavailable(c) /\ act[c].run = "off"
       THEN /\ BeginRun(c, "send", Tail(bus))
            /\ UNCHANGED agent
       ELSE /\ act' = At(c, "send", "off")
            /\ agent' = IF ok /\ ~Unavailable(c) THEN agent ELSE GivenUp(c)
            /\ bus' = Tail(bus)
            /\ UNCHANGED <<rec, ran>>
    /\ UNCHANGED <<lease, active, sends>>

-----------------------------------------------------------------------------
(* The child's runs.  A run whose event is refused dies without another one. *)

(* Mutant: a run that settles makes the child idle whatever has happened.    *)
AfterRunBlind(c) == [rec EXCEPT ![c] = "idle"]

AfterRun(c) == IF Unavailable(c) THEN rec ELSE [rec EXCEPT ![c] = "idle"]

(* The run, and who began it, hear of run.started.                           *)
RunStarted(c, ok) ==
    /\ LET heard == [act EXCEPT ![c].run = IF ok THEN "live" ELSE "off",
                                ![c].send = IF @ = "starting" THEN "off" ELSE @]
           spawned == act[c].spawn = "starting"
       IN IF spawned /\ ~ok
          THEN /\ act' = Cleaned([heard EXCEPT ![c].spawn = "failing"], c, TRUE)
               /\ rec' = CleanedRec(c)
          ELSE /\ act' = IF spawned THEN [heard EXCEPT ![c].spawn = "done"] ELSE heard
               /\ rec' = IF ok THEN rec ELSE AfterRun(c)
    /\ bus' = Tail(bus)
    /\ UNCHANGED <<agent, lease, active, ran, sends>>

RunEnds(c) ==
    /\ act[c].run = "live"
    /\ act' = At(c, "run", "ending")
    /\ Emit(RunEvent(c, "ended", ran[c]))
    /\ UNCHANGED <<rec, agent, lease, active, ran, sends, gen, rootRun, projector, faults>>

RunSettled(c) ==
    /\ act' = At(c, "run", "off")
    /\ rec' = AfterRun(c)
    /\ bus' = Tail(bus)
    /\ UNCHANGED <<agent, lease, active, ran, sends>>

-----------------------------------------------------------------------------
(* Suspension: the idle timer, which ensureAgent clears.                     *)

Suspend(c) ==
    /\ rec[c] = "idle" /\ agent[c] = "open" /\ ran[c] > 0
    /\ act[c].run = "off" /\ act[c].suspend = "off"
    /\ act[c].spawn = "done" /\ act[c].send \in {"off", "waiting"}
    /\ act' = At(c, "suspend", "closing")
    /\ agent' = [agent EXCEPT ![c] = "closing"]
    /\ UNCHANGED <<rec, lease, active, ran, sends, gen, rootRun, bus, projector, faults>>

SuspendTells(c) ==
    /\ act[c].suspend = "closing" /\ agent[c] = "none"
    /\ IF Unavailable(c)
       THEN /\ act' = At(c, "suspend", "off")
            /\ UNCHANGED <<rec, bus>>
       ELSE /\ act' = At(c, "suspend", "telling")
            /\ rec' = [rec EXCEPT ![c] = "suspended"]
            /\ Emit(ChildEvent(c, "suspended"))
    /\ UNCHANGED <<agent, lease, active, ran, sends, gen, rootRun, projector, faults>>

(* A suspension that could not be told closes the child in the background;   *)
(* an input that waits for it fails.                                         *)
Suspended(c, ok) ==
    /\ IF ok \/ Unavailable(c)
       THEN /\ act' = At(c, "suspend", "off")
            /\ UNCHANGED rec
       ELSE /\ act' = Cleaned([act EXCEPT ![c].suspend = "off", ![c].send = "off"], c, TRUE)
            /\ rec' = CleanedRec(c)
    /\ bus' = Tail(bus)
    /\ UNCHANGED <<agent, lease, active, ran, sends>>

(* Mutant: the agent waits for the clean-up of the record that closes it.    *)
AgentClosedAfterRecord(c) ==
    /\ agent[c] = "closing" /\ act[c].run = "off"
    /\ act[c].close \notin {"cleaning", "silent"}
    /\ agent' = [agent EXCEPT ![c] = "none"]
    /\ UNCHANGED <<rec, act, lease, active, ran, sends, gen, rootRun, bus, projector, faults>>

(* Agent.close waits for the run it interrupts.                              *)
AgentClosed(c) ==
    /\ agent[c] = "closing" /\ act[c].run = "off"
    /\ agent' = [agent EXCEPT ![c] = "none"]
    /\ UNCHANGED <<rec, act, lease, active, ran, sends, gen, rootRun, bus, projector, faults>>

-----------------------------------------------------------------------------
(* close: asked by the host, a tool, the root's closeAll or an aborted run.  *)

CanClose(c) == rec[c] # "none" /\ ~Unavailable(c)
ClosedBy(S) ==
    /\ act' = [c \in Children |->
                 IF c \in S THEN [act[c] EXCEPT !.close = "interrupting"] ELSE act[c]]
    /\ rec' = [c \in Children |-> IF c \in S THEN "closing" ELSE rec[c]]

Close(c) ==
    /\ CanClose(c)
    /\ ClosedBy({c})
    /\ UNCHANGED <<agent, lease, active, ran, sends, gen, rootRun, bus, projector, faults>>

CloseInterrupted(c) ==
    /\ act[c].close = "interrupting" /\ act[c].run = "off"
    /\ act' = Cleaned(act, c, TRUE)
    /\ rec' = CleanedRec(c)
    /\ UNCHANGED <<agent, lease, active, ran, sends, gen, rootRun, bus, projector, faults>>

(* closeRecordWork, past the suspension and the creation it waits for.       *)
CleanAgent(c) ==
    /\ act[c].close \in {"cleaning", "silent"}
    /\ act[c].suspend = "off" /\ agent[c] = "open"
    /\ agent' = [agent EXCEPT ![c] = "closing"]
    /\ UNCHANGED <<rec, act, lease, active, ran, sends, gen, rootRun, bus, projector, faults>>

(* deleteRecord; nothing of the record is left but the inputs that wait.     *)
Deleted(c) ==
    /\ act' = [act EXCEPT ![c].close = "done",
                          ![c].spawn = IF @ \in {"failing", "done"} THEN "off" ELSE @]
    /\ rec' = [rec EXCEPT ![c] = "gone"]
    /\ ran' = [ran EXCEPT ![c] = 0]
    /\ active' = active \ {c}

(* Mutant: the clean-up does not wait for a creation under way.              *)
CleanReleaseNow(c) ==
    /\ act[c].close \in {"cleaning", "silent"}
    /\ act[c].suspend = "off" /\ agent[c] \in {"none", "creating"}
    /\ lease' = [lease EXCEPT ![c] = "none"]
    /\ Deleted(c)
    /\ UNCHANGED <<agent, sends, gen, rootRun, bus, projector, faults>>

(* The result that is told: the one of the child's last run, which may have  *)
(* failed, or the error of its failed start, or else "stopped".              *)
CleanRelease(c) ==
    /\ act[c].close \in {"cleaning", "silent"}
    /\ act[c].suspend = "off" /\ agent[c] = "none"
    /\ IF act[c].close = "cleaning"
       THEN /\ lease' = [lease EXCEPT ![c] = IF @ = "held" THEN "released" ELSE @]
            /\ act' = At(c, "close", "telling")
            /\ \E failed \in BOOLEAN :
                  /\ failed => act[c].spawn = "failing" \/ ran[c] > 0
                  /\ Emit(ClosedEvent(c, failed))
            /\ UNCHANGED <<rec, ran, active>>
       ELSE /\ lease' = [lease EXCEPT ![c] = "none"]
            /\ Deleted(c)
            /\ UNCHANGED bus
    /\ UNCHANGED <<agent, sends, gen, rootRun, projector, faults>>

(* Applied or refused, the record goes.                                      *)
CloseTold(c) ==
    /\ Deleted(c)
    /\ lease' = [lease EXCEPT ![c] = "none"]
    /\ bus' = Tail(bus)
    /\ UNCHANGED <<agent, sends>>

-----------------------------------------------------------------------------
(* The root's run.  It waits for the spawns it asked for unless it is        *)
(* aborted; the abort closes the children that listen to its signal.         *)

RootAborts ==
    /\ rootRun = "live"
    /\ rootRun' = "aborted"
    /\ ClosedBy({c \in Children : CanClose(c) /\ act[c].spawn \in {"starting", "done"}})
    /\ UNCHANGED <<agent, lease, active, ran, sends, gen, bus, projector, faults>>

RootRunEnds ==
    /\ \/ rootRun = "aborted" /\ rootRun' = "stopped"
       \/ /\ rootRun = "live" /\ rootRun' = "over"
          /\ \A c \in Children : act[c].spawn \in {"off", "done"}
    /\ Emit(RunEvent(Root, "ended", gen))
    /\ UNCHANGED <<manager, gen, projector, faults>>

-----------------------------------------------------------------------------
(* The projector: what each event writes.  A failed projection leaves the    *)
(* first k writes; Last is all of them.                                      *)

Last == 2
Short == 0 .. (Last - 1)

OpenRun(d, k, n) ==
    [d EXCEPT ![k].runs = @ \cup {n}, ![k].attempts = @ \cup {n}]
CloseRun(d, k, n) ==
    [d EXCEPT ![k].runs = @ \ {n}, ![k].attempts = @ \ {n}]
EndTask(d, c) == [d EXCEPT ![c].task = IF @ = "running" THEN "ended" ELSE @]

(* A child that is closed as failed and has no run is given one that has     *)
(* failed: it is created and ended in one transaction, so it is never open.  *)
(* bindChildExecutionRun makes the task active for it before it is ended.    *)
StartsUp(e) == e.kind = "closed" /\ e.failed /\ e.c \in known \ bound
StartedUp(e, d) == IF StartsUp(e) THEN [d EXCEPT ![e.c].task = "running"] ELSE d

After(k, n, d, e) == IF k >= n THEN e ELSE d
OfChild(e) == e.c # Root

(* Mutant: agent.child.closed is appended again by every retry.              *)
ProjectedAgain(e, k, d) ==
    IF e.kind = "closed"
    THEN LET ended == IF e.c \in known THEN EndTask(StartedUp(e, d), e.c) ELSE d
         IN [ended EXCEPT ![e.c].closed = @ + 1]
    ELSE d

(* project: projectChildCreated, projectChildClosed (the failed start, the   *)
(* task, then the durable event, appended once), startRun with bindChildTaskRun, finishRun. *)
Projected(e, k, d) ==
    LET first == CASE e.kind = "created" -> [d EXCEPT ![e.c].session = "open"]
                   [] e.kind = "closed" ->
                        IF e.c \in known THEN EndTask(StartedUp(e, d), e.c) ELSE d
                   [] e.kind = "started" -> OpenRun(d, e.of, e.run)
                   [] e.kind = "ended" -> CloseRun(d, e.of, e.run)
                   [] OTHER -> d
        done == After(k, 1, d, first)
        isKnown == e.c \in known
        second == CASE e.kind = "created" -> [done EXCEPT ![e.c].task = "running"]
                    [] e.kind = "closed" ->
                         [done EXCEPT ![e.c].closed = IF @ = 0 THEN 1 ELSE @]
                    [] e.kind = "started" /\ isKnown -> [done EXCEPT ![e.c].task = "running"]
                    [] e.kind = "ended" /\ OfChild(e) /\ isKnown -> EndTask(done, e.c)
                    [] OTHER -> done
    IN After(k, Last, done, second)

KnownAfter(e) ==
    CASE e.kind = "created" -> known \cup {e.c}
      [] e.kind = "closed" -> known \ {e.c}
      [] OTHER -> known

(* The first k writes bind the child's state to a run.                       *)
BoundAfter(e, k) ==
    IF k >= 1 /\ (StartsUp(e) \/ (e.kind = "started" /\ e.c \in known))
    THEN bound \cup {e.c}
    ELSE bound

(* Mutant: the child's task is ended, the run of the event's context is not. *)
CompensatedTaskOnly(e, k, d) ==
    LET ended == IF e.kind = "created" \/ e.c \in known THEN EndTask(d, e.c) ELSE d
    IN After(k, 1, d, ended)

(* compensateChildCreationFailure; compensateChildProjectionFailure, which   *)
(* ends the run of the event's context and the child's task.                 *)
Compensated(e, k, d) ==
    LET first == IF e.kind = "created" THEN EndTask(d, e.c)
                 ELSE IF e.run \in d[e.of].runs THEN CloseRun(d, e.of, e.run) ELSE d
        done == After(k, 1, d, first)
        second == IF e.kind = "created"
                  THEN [done EXCEPT ![e.c].session = IF @ = "none" THEN @ ELSE "archived"]
                  ELSE IF e.c \in known THEN EndTask(done, e.c) ELSE done
    IN After(k, Last, done, second)

Settled(e, k, d) == IF e.kind = "closed" THEN Projected(e, k, d) ELSE Compensated(e, k, d)
KnownSettled(e) ==
    IF e.kind \in {"created", "closed"} THEN known \ {e.c} ELSE known

(* A settlement that stops early: for a child that starts up its task may be *)
(* left active, and it does not start up again.                              *)
SettledPartly(e) ==
    \/ \E k \in Short :
          /\ db' = Settled(e, k, db)
          /\ bound' = IF e.kind = "closed" THEN BoundAfter(e, k) ELSE bound
    \/ /\ StartsUp(e)
       /\ db' = StartedUp(e, db)
       /\ bound' = bound \cup {e.c}

(* recoverProjectionSettlements, for settlements of an earlier incarnation:  *)
(* it has the durable state only, and ends a run but not its attempts.       *)
Recovered(E, d) ==
    LET Has(k, kind) == \E e \in E : e.c = k /\ e.kind = kind
        Failed(k) == {e.run : e \in {f \in E : f.kind # "closed" /\ f.of = k}}
    IN [k \in Children \cup {Root} |->
          [d[k] EXCEPT
             !.runs = @ \ Failed(k),
             !.task = IF Has(k, "closed") \/ (@ = "running" /\ \E e \in E : e.c = k)
                      THEN "ended" ELSE @,
             !.closed = IF @ = 0 /\ Has(k, "closed") THEN 1 ELSE @,
             !.session = IF @ # "none" /\ Has(k, "created") THEN "archived" ELSE @]]

Recoverable(s) == s.e.kind = "closed" => db[s.e.c].task # "none"

-----------------------------------------------------------------------------
(* The projector: apply, one event at a time.                                *)

(* The head of the bus is applied or refused, and its teller goes on.        *)
Answer(ok) ==
    /\ step' = "idle"
    /\ LET c == Head(bus).c
           kind == Head(bus).kind
       IN CASE c = Root -> bus' = Tail(bus) /\ UNCHANGED manager
            [] kind = "created" -> SpawnAnnounced(c, ok)
            [] kind = "resumed" -> SendResumed(c, ok)
            [] kind = "suspended" -> Suspended(c, ok)
            [] kind = "closed" -> CloseTold(c)
            [] kind = "started" -> RunStarted(c, ok)
            [] OTHER -> RunSettled(c)

(* reconcileDurableSettlements, before an event is looked at.  If one        *)
(* settlement stays, the event is refused, and nothing remembers it.         *)
Reconcile ==
    /\ bus # << >> /\ step = "idle" /\ pending # {}
    /\ \E s \in pending :
         IF s.gen = gen
         THEN /\ db' = Settled(s.e, Last, db)
              /\ known' = KnownSettled(s.e)
              /\ bound' = bound \cap known'
              /\ pending' = pending \ {s}
         ELSE /\ Recoverable(s)
              /\ db' = Recovered({s.e}, db)
              /\ pending' = pending \ {s}
              /\ UNCHANGED <<known, bound>>
    /\ UNCHANGED <<manager, gen, rootRun, bus, step, unheard, faults>>

NotReconciled ==
    /\ bus # << >> /\ step = "idle"
    /\ \E s \in pending :
         IF s.gen = gen
         THEN SettledPartly(s.e) /\ Fault
         ELSE /\ UNCHANGED <<db, bound>>
              /\ IF Recoverable(s) THEN Fault ELSE UNCHANGED faults
    /\ Answer(FALSE)
    /\ unheard' = unheard \cup ({Head(bus).c} \ {Root})
    /\ UNCHANGED <<gen, rootRun, known, pending>>

(* A run that is terminal is not finished again: updateRun refuses.          *)
Applies(e) == e.kind = "ended" => e.run \in db[e.of].runs

(* Mutant: the next event is applied although a settlement is pending.       *)
ProjectOvertakes ==
    /\ bus # << >> /\ step = "idle"
    /\ Applies(Head(bus))
    /\ db' = Projected(Head(bus), Last, db)
    /\ known' = KnownAfter(Head(bus))
    /\ bound' = BoundAfter(Head(bus), Last) \cap known'
    /\ Answer(TRUE)
    /\ UNCHANGED <<gen, rootRun, pending, unheard, faults>>

Project ==
    /\ bus # << >> /\ step = "idle" /\ pending = {}
    /\ Applies(Head(bus))
    /\ db' = Projected(Head(bus), Last, db)
    /\ known' = KnownAfter(Head(bus))
    /\ bound' = BoundAfter(Head(bus), Last) \cap known'
    /\ Answer(TRUE)
    /\ UNCHANGED <<gen, rootRun, pending, unheard, faults>>

ProjectFails ==
    /\ bus # << >> /\ step = "idle" /\ pending = {}
    /\ LET e == Head(bus) IN
         /\ IF Applies(e)
            THEN /\ Fault
                 /\ IF e.kind = "closed" THEN SettledPartly(e)
                    ELSE \E k \in Short :
                            /\ db' = Projected(e, k, db)
                            /\ bound' = BoundAfter(e, k)
            ELSE UNCHANGED <<db, bound, faults>>
         /\ IF OfChild(e) THEN step' = "failed" /\ UNCHANGED <<bus, manager>>
            ELSE Answer(FALSE)
    /\ UNCHANGED <<gen, rootRun, known, pending, unheard>>

(* persistAndSettle: the settlement is stored, then tried once.  What made   *)
(* the projection fail may last: that is not counted as another failure.     *)
Persist ==
    /\ step = "failed"
    /\ pending' = pending \cup {[e |-> Head(bus), gen |-> gen]}
    /\ step' = "settling"
    /\ UNCHANGED <<manager, gen, rootRun, bus, known, bound, db, unheard, faults>>

PersistFails ==
    /\ step = "failed"
    /\ Fault
    /\ Answer(FALSE)
    /\ unheard' = unheard \cup {Head(bus).c}
    /\ UNCHANGED <<gen, rootRun, known, bound, db, pending>>

Settle ==
    /\ step = "settling"
    /\ LET e == Head(bus) IN
         /\ db' = Settled(e, Last, db)
         /\ known' = KnownSettled(e)
         /\ bound' = bound \cap known'
         /\ pending' = pending \ {[e |-> e, gen |-> gen]}
         /\ Answer(e.kind = "closed")
    /\ UNCHANGED <<gen, rootRun, unheard, faults>>

SettleFails ==
    /\ step = "settling"
    /\ SettledPartly(Head(bus))
    /\ Answer(FALSE)
    /\ UNCHANGED <<gen, rootRun, known, pending, unheard, faults>>

-----------------------------------------------------------------------------
(* The daemon dies and starts again: the settlements are recovered, then the *)
(* runs that are still open are interrupted with their attempts, then the    *)
(* tasks; a new root agent begins a run of its own.                          *)

Interrupted(d) ==
    [k \in DOMAIN d |->
        [d[k] EXCEPT !.runs = {}, !.attempts = @ \ d[k].runs,
                     !.task = IF @ = "running" THEN "ended" ELSE @]]

Restart ==
    /\ gen <= MaxRestarts
    /\ gen' = gen + 1
    /\ \E left \in SUBSET pending :
         /\ \A s \in pending \ left : Recoverable(s)
         /\ faults' = faults + Cardinality({s \in left : Recoverable(s)})
         /\ faults' <= MaxFaults
         /\ pending' = left
         /\ LET repaired == Recovered({s.e : s \in pending \ left}, db)
            IN db' = OpenRun(Interrupted(repaired), Root, gen + 1)
    /\ rec' = [c \in Children |-> IF rec[c] = "none" THEN "none" ELSE "gone"]
    /\ act' = [c \in Children |->
                 [a \in Acts |-> IF a = "close" /\ rec[c] # "none" THEN "done" ELSE "off"]]
    /\ ran' = [c \in Children |-> 0]
    /\ agent' = [c \in Children |-> "none"]
    /\ lease' = [c \in Children |-> "none"]
    /\ active' = {}
    /\ rootRun' = "live"
    /\ bus' = << >> /\ step' = "idle"
    /\ known' = {} /\ bound' = {} /\ unheard' = {}
    /\ UNCHANGED sends

-----------------------------------------------------------------------------
Deliver == Reconcile \/ NotReconciled \/ Project \/ ProjectFails
           \/ Persist \/ PersistFails \/ Settle \/ SettleFails

Goes(c) == SpawnAcquires(c) \/ AgentCreated(c) \/ AgentNotCreated(c) \/ SpawnHasAgent(c)
           \/ SendTurn(c) \/ SendHasAgent(c) \/ RunEnds(c)
           \/ SuspendTells(c) \/ AgentClosed(c)
           \/ CloseInterrupted(c) \/ CleanAgent(c) \/ CleanRelease(c)

Next == \/ \E c \in Children : Spawn(c) \/ Send(c) \/ Suspend(c) \/ Close(c) \/ Goes(c)
        \/ Deliver \/ RootAborts \/ RootRunEnds \/ Restart

(* Nobody need spawn, send, close, suspend, abort or crash.  The event loop  *)
(* goes on: as long as an event can be delivered, a promise can settle or a  *)
(* run can end, one of them does.                                            *)
Fairness == WF_vars(Deliver \/ \E c \in Children : Goes(c))

Spec == Init /\ [][Next]_vars
FairSpec == Spec /\ Fairness

-----------------------------------------------------------------------------
(* The framework's part.                                                     *)

(* The environment of a child is given back only when nothing works in it;   *)
(* closeRecordWork waits for a suspension and a creation under way.  A child *)
(* whose record is deleted, by whatever mixture of a failed start, a close,  *)
(* a suspension and an input under way, leaves no agent, no run, no          *)
(* suspension under way, no lease and no place of the budget.                *)
GoneLeavesNothing ==
    \A c \in Children :
        /\ lease[c] = "released" => agent[c] = "none" /\ act[c].run = "off"
        /\ rec[c] = "gone" =>
              /\ agent[c] = "none" /\ lease[c] = "none" /\ c \notin active
              /\ act[c].run = "off" /\ act[c].suspend = "off"

(* Once a close has begun no procedure that was waiting (a creation, a       *)
(* resume, a settled run, a follow-up input) makes the child work again.     *)
CloseIsFinal ==
    [][\A c \in Children : Unavailable(c) =>
          /\ rec'[c] \in {"closing", "closed", "gone"}
          /\ ran'[c] <= ran[c]]_vars

(* A child that is being closed is gone in the end: the close never waits    *)
(* for a suspension, a creation or an answer that waits for the close.       *)
CloseEnds ==
    (\E c \in Children : rec[c] \in {"closing", "closed"})
        ~> (\A c \in Children : rec[c] \notin {"closing", "closed"})

(* When the root's run is aborted every child it has ends, those it was      *)
(* still spawning included.                                                  *)
AbortReachesChildren ==
    rootRun = "aborted" ~>
        \A c \in Children : act[c].spawn # "acquiring" /\ rec[c] \in {"none", "gone"}

-----------------------------------------------------------------------------
(* The daemon's part.                                                        *)

(* While a settlement stays pending the events behind it do not overtake it: *)
(* no other child's durable state moves, and its own child neither gets an   *)
(* open run nor a task that is active again.  The one thing that makes an    *)
(* ended task active is the settlement itself, which records a failed start, *)
(* and it does so at most once.                                              *)
NoOvertake ==
    [][\A s \in pending \cap pending' : gen' = gen =>
          /\ \A c \in Children \ {s.e.c} : db'[c] = db[c]
          /\ db'[s.e.c].runs \subseteq db[s.e.c].runs
          /\ db[s.e.c].task = "ended" =>
                db'[s.e.c].task = "ended" \/ (StartsUp(s.e) /\ s.e.c \in bound')]_vars

(* When a child is gone and its last event is applied or settled, the store  *)
(* shows it so: its task is terminal, none of its runs and attempts is open, *)
(* and the projector has forgotten it.  The exceptions are a child an event  *)
(* of whom was dropped without a settlement, which stays open until a        *)
(* restart, and the attempt of a run that recovery after a crash has ended.  *)
GoneIsRecorded ==
    \A c \in Children :
        rec[c] = "gone" /\ c \notin unheard /\ (\A s \in pending : s.e.c # c) =>
            /\ db[c].task # "running" /\ db[c].runs = {}
            /\ db[c].attempts = {} \/ gen > 1
            /\ c \notin known
=============================================================================
