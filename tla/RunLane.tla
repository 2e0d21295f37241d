------------------------------- MODULE RunLane -------------------------------
(***************************************************************************)
(* The run lane of one session: SessionRunCoordinator (run-coordinator.ts) *)
(* together with the half of a framework run that receives steered input   *)
(* (framework-agent-run.ts).                                               *)
(*                                                                         *)
(* An input owns at most one run, so a run is named by its input: the task *)
(* of input i, the steer request that carries i into the active run, and   *)
(* the replacement run that is created when that steer is refused are all  *)
(* called i.                                                               *)
(*                                                                         *)
(* JavaScript runs promise reactions (microtasks) before the next timer,   *)
(* HTTP request or provider event (macrotask).  A reaction is a step of    *)
(* its own here; Reacting says that one is due, and every macrotask waits  *)
(* for ~Reacting.                                                          *)
(***************************************************************************)
EXTENDS Integers, Sequences, Functions, FiniteSets

CONSTANTS
    Inputs,      \* durable inputs of the session
    NoRun,       \* stands for lane.active being undefined
    Serialized   \* TRUE: SessionOperationRunner admits one command at a time

ASSUME NoRunAssumption == NoRun \notin Inputs
ASSUME SerializedAssumption == Serialized \in BOOLEAN

VARIABLES
    active,      \* lane.active
    queue,       \* lane.queue
    phase,       \* the task of each input
    home,        \* the queue index a promoted task is put back at (else 0)
    aborted,     \* tasks whose AbortController has fired
    pend,        \* pendingSteers of the active task (and its list of undelivered ones)
    chain,       \* requests flushed into the active task's controlChain
    broken,      \* a link of controlChain has thrown
    head,        \* what became of the request at the head of chain
    fw,          \* the framework run of the active task
    result,      \* the delivery promise of each steer request
    accepted,    \* inputs with a durable input.accepted event of a steer
    born,        \* inputs in the order their tasks were created (history)
    stopped      \* tasks that waited when the session was interrupted (history)

taskVars  == <<active, queue, phase, home, aborted, born>>
steerVars == <<pend, chain, broken, head>>
vars == <<active, queue, phase, home, aborted, pend, chain, broken, head,
          fw, result, accepted, born, stopped>>

Waiting   == {"queued", "promoted"}
Running   == {"starting", "live", "settling", "recovering"}
Ended     == {"resolved", "rejected"}
Phases    == {"unborn"} \cup Waiting \cup Running \cup Ended
Results   == {"none", "open", "delivered", "replaced", "rejected"}

-----------------------------------------------------------------------------
(* Promise reactions that are due.                                         *)

\* Mutant: a request is forgotten once it has been flushed.
SteerRequestsFlushedForgotten == {i \in Range(pend) : result[i] = "open"}

\* task.steerRequests: the requests of the active task still to be settled.
SteerRequests == {i \in Range(chain \o pend) : result[i] = "open"}

\* Promoted tasks whose delivery promise is settled: the then/catch of
\* promoteQueuedRun has still to run.
PromotionsToSettle == {i \in Inputs : phase[i] = "promoted" /\ result[i] # "open"}

\* controlChain has a link that does not wait for the framework.
ChainMoves == chain # <<>> /\ ~broken /\ head \in {"idle", "refused"}

\* startTask is between the return of work and its finally block.
TaskSettles == active # NoRun /\ phase[active] \in {"settling", "recovering"}

Reacting == PromotionsToSettle # {} \/ ChainMoves \/ TaskSettles

\* Mutant: the session layer does not serialise its commands.
CommandUnserialised == ~Reacting

\* A command of the session layer.  SessionOperationRunner.run holds the lane
\* of the session until the steer or promotion before it has been delivered.
Command == ~Reacting /\ (Serialized => \A i \in Inputs : result[i] # "open")

Accepting == active # NoRun /\ phase[active] \in {"starting", "live"}

-----------------------------------------------------------------------------
Init ==
    /\ active = NoRun
    /\ queue = <<>>
    /\ phase = [i \in Inputs |-> "unborn"]
    /\ home = [i \in Inputs |-> 0]
    /\ aborted = {}
    /\ pend = <<>>
    /\ chain = <<>>
    /\ broken = FALSE
    /\ head = "idle"
    /\ fw = "none"
    /\ result = [i \in Inputs |-> "none"]
    /\ accepted = {}
    /\ born = <<>>
    /\ stopped = {}

\* rejectSteers and the settling of one request: a promise settles once.
Settle(S, verdict) ==
    result' = [i \in Inputs |->
                 IF i \in S /\ result[i] = "open" THEN verdict ELSE result[i]]

\* createTask, and the branch of enqueue on lane.active.
AddTask(i) ==
    /\ born' = Append(born, i)
    /\ IF active = NoRun
       THEN /\ active' = i
            /\ phase' = [phase EXCEPT ![i] = "starting"]
            /\ UNCHANGED queue
       ELSE /\ queue' = Append(queue, i)
            /\ phase' = [phase EXCEPT ![i] = "queued"]
            /\ UNCHANGED active

\* pendingSteers.push and flushSteers, which needs a handle.
PushRequest(i) ==
    /\ result' = [result EXCEPT ![i] = "open"]
    /\ IF phase[active] = "live"
       THEN chain' = Append(chain, i) /\ UNCHANGED pend
       ELSE pend' = Append(pend, i) /\ UNCHANGED chain

\* Mutant: the finally block leaves the queued tasks where they are.
FinishActiveQueueForgotten(verdict) ==
    /\ phase' = [phase EXCEPT ![active] = verdict]
    /\ active' = NoRun
    /\ pend' = <<>> /\ chain' = <<>> /\ broken' = FALSE
    /\ head' = "idle" /\ fw' = "none"
    /\ UNCHANGED queue

\* The finally block of startTask: the next queued task starts, or the lane
\* is deleted.  A started task has an empty control chain and no handle.
FinishActive(verdict) ==
    /\ phase' = [i \in Inputs |->
                   CASE i = active -> verdict
                     [] queue # <<>> /\ i = Head(queue) -> "starting"
                     [] OTHER -> phase[i]]
    /\ active' = IF queue = <<>> THEN NoRun ELSE Head(queue)
    /\ queue' = IF queue = <<>> THEN <<>> ELSE Tail(queue)
    /\ pend' = <<>>
    /\ chain' = <<>>
    /\ broken' = FALSE
    /\ head' = "idle"
    /\ fw' = "none"

-----------------------------------------------------------------------------
(* Commands.                                                               *)

\* enqueue.  Goal continuations call it outside SessionOperationRunner, so
\* only a due reaction holds it back.  A steer that finds no accepting run
\* (merged: false) is enqueued the same way by RunAdmissionService.
Enqueue(i) ==
    /\ ~Reacting
    /\ phase[i] = "unborn" /\ result[i] = "none"
    /\ AddTask(i)
    /\ UNCHANGED <<home, aborted, steerVars, fw, result, accepted, stopped>>

\* steer, merged.
Steer(i) ==
    /\ Command
    /\ Accepting
    /\ phase[i] = "unborn" /\ result[i] = "none"
    /\ PushRequest(i)
    /\ UNCHANGED <<taskVars, broken, head, fw, accepted, stopped>>

\* promoteQueuedRun: the task leaves the queue while its input is steered.
\* A request is known by its input, so a task is not promoted again while
\* controlChain still holds its rejected request.
Promote(k) ==
    /\ Command
    /\ Accepting
    /\ k \in 1..Len(queue)
    /\ LET i == queue[k] IN
       /\ i \notin Range(chain)
       /\ queue' = SubSeq(queue, 1, k - 1) \o SubSeq(queue, k + 1, Len(queue))
       /\ phase' = [phase EXCEPT ![i] = "promoted"]
       /\ home' = [home EXCEPT ![i] = k - 1]
       /\ PushRequest(i)
    /\ UNCHANGED <<active, aborted, born, broken, head, fw, accepted, stopped>>

\* What interrupt and interruptRun do to the active task: its requests are
\* rejected, its signal is aborted, its handle is told to stop.  A request
\* that has been flushed stays in controlChain.
AbortActive ==
    /\ Settle(SteerRequests, "rejected")
    /\ pend' = <<>>
    /\ UNCHANGED <<chain, broken, head, fw, accepted>>

\* interrupt: the session stops, queued tasks first.
Interrupt ==
    /\ Command
    /\ active # NoRun
    /\ phase' = [i \in Inputs |->
                   IF i \in Range(queue) THEN "rejected" ELSE phase[i]]
    /\ queue' = <<>>
    /\ aborted' = aborted \cup Range(queue) \cup {active}
    /\ stopped' = stopped \cup {i \in Inputs : phase[i] \in Waiting}
    /\ AbortActive
    /\ UNCHANGED <<active, home, born>>

\* interruptRun on the active run.
InterruptRun ==
    /\ Command
    /\ active # NoRun
    /\ aborted' = aborted \cup {active}
    /\ AbortActive
    /\ UNCHANGED <<active, queue, phase, home, born, stopped>>

\* interruptQueuedRun, and interruptRun on a queued run.
InterruptQueuedRun(k) ==
    /\ Command
    /\ k \in 1..Len(queue)
    /\ queue' = SubSeq(queue, 1, k - 1) \o SubSeq(queue, k + 1, Len(queue))
    /\ phase' = [phase EXCEPT ![queue[k]] = "rejected"]
    /\ aborted' = aborted \cup {queue[k]}
    /\ UNCHANGED <<active, home, born, steerVars, fw, result, accepted, stopped>>

-----------------------------------------------------------------------------
(* The work of the active task and its framework run.                      *)

\* registerHandle on a live signal flushes what was steered before.  On an
\* aborted signal it stops the handle and throws, and the task stays
\* "starting" until its work ends.
RegisterHandle ==
    /\ ~Reacting
    /\ active # NoRun /\ phase[active] = "starting"
    /\ active \notin aborted
    /\ phase' = [phase EXCEPT ![active] = "live"]
    /\ fw' = "open"
    /\ chain' = pend
    /\ pend' = <<>>
    /\ UNCHANGED <<active, queue, home, aborted, broken, head, result,
                   accepted, born, stopped>>

\* closeSteering, and takeSteeredInputs with closeIfEmpty.
CloseSteering ==
    /\ ~Reacting
    /\ fw = "open"
    /\ fw' = "closed"
    /\ UNCHANGED <<taskVars, steerVars, result, accepted, stopped>>

\* takeSteeredInputs removes one steered input and starts to emit it.
TakeSteered ==
    /\ ~Reacting
    /\ head = "steered"
    /\ head' = "taken"
    /\ UNCHANGED <<taskVars, pend, chain, broken, fw, result, accepted, stopped>>

\* input.accepted is projected; the receipt and the request resolve behind it.
AcceptSteered ==
    /\ ~Reacting
    /\ head = "taken"
    /\ accepted' = accepted \cup {Head(chain)}
    /\ Settle({Head(chain)}, "delivered")
    /\ chain' = Tail(chain)
    /\ head' = "idle"
    /\ UNCHANGED <<taskVars, pend, broken, fw, stopped>>

\* The projection of input.accepted fails: the receipt is rejected as not
\* accepting and the framework run ends with the delivery error.
AcceptFails ==
    /\ ~Reacting
    /\ head = "taken"
    /\ head' = "refused"
    /\ fw' = "over"
    /\ UNCHANGED <<taskVars, pend, chain, broken, result, accepted, stopped>>

\* The framework run completes, fails or is interrupted: rejectPendingSteers.
FrameworkEnds ==
    /\ ~Reacting
    /\ fw \in {"open", "closed"}
    /\ head # "taken"
    /\ fw' = "over"
    /\ head' = IF head = "steered" THEN "refused" ELSE head
    /\ UNCHANGED <<taskVars, pend, chain, broken, result, accepted, stopped>>

\* work returns, as SessionRunExecutor.execute does whatever the run's
\* outcome: the task stops accepting steers.
WorkReturns ==
    /\ ~Reacting
    /\ active # NoRun
    /\ \/ phase[active] = "starting"
       \/ phase[active] = "live" /\ fw = "over"
    /\ phase' = [phase EXCEPT ![active] = "settling"]
    /\ UNCHANGED <<active, queue, home, aborted, born, steerVars, fw, result,
                   accepted, stopped>>

\* work throws (a store error of prepareRunExecution or of the executor's own
\* catch): every request is rejected and the task fails.
WorkThrows ==
    /\ ~Reacting
    /\ active # NoRun
    /\ \/ phase[active] = "starting"
       \/ phase[active] = "live" /\ fw = "over"
    /\ Settle(SteerRequests, "rejected")
    /\ FinishActive("rejected")
    /\ UNCHANGED <<home, aborted, accepted, born, stopped>>

-----------------------------------------------------------------------------
(* controlChain: flushSteers handles one request after the other.          *)

ChainRuns(state) == chain # <<>> /\ ~broken /\ head = state

\* handle.steer: refused at once unless the framework run accepts input.
SendSteer ==
    /\ ChainRuns("idle")
    /\ head' = IF fw = "open" THEN "steered" ELSE "refused"
    /\ UNCHANGED <<taskVars, pend, chain, broken, fw, result, accepted, stopped>>

\* A refusal on an aborted task rejects the request and breaks the chain.
RefusedAfterAbort ==
    /\ ChainRuns("refused")
    /\ active \in aborted
    /\ Settle({Head(chain)}, "rejected")
    /\ chain' = Tail(chain)
    /\ broken' = TRUE
    /\ head' = "idle"
    /\ UNCHANGED <<taskVars, pend, fw, accepted, stopped>>

\* Mutant: the loop continues without rejecting the request.
RefusedPromotionUnsettled ==
    /\ ChainRuns("refused")
    /\ active \notin aborted
    /\ phase[Head(chain)] = "promoted"
    /\ chain' = Tail(chain)
    /\ head' = "idle"
    /\ UNCHANGED <<taskVars, pend, broken, fw, result, accepted, stopped>>

\* A promotion asks for no replacement (recoverRejected is false).
RefusedPromotion ==
    /\ ChainRuns("refused")
    /\ active \notin aborted
    /\ phase[Head(chain)] = "promoted"
    /\ Settle({Head(chain)}, "rejected")
    /\ chain' = Tail(chain)
    /\ head' = "idle"
    /\ UNCHANGED <<taskVars, pend, broken, fw, accepted, stopped>>

\* onSteerRejected creates and enqueues a replacement run for the input.
RefusedThenReplaced ==
    /\ ChainRuns("refused")
    /\ active \notin aborted
    /\ phase[Head(chain)] = "unborn"
    /\ AddTask(Head(chain))
    /\ Settle({Head(chain)}, "replaced")
    /\ chain' = Tail(chain)
    /\ head' = "idle"
    /\ UNCHANGED <<home, aborted, pend, broken, fw, accepted, stopped>>

\* onSteerRejected throws: the request is rejected and the chain's catch
\* aborts the task.
ReplacementFails ==
    /\ ChainRuns("refused")
    /\ active \notin aborted
    /\ phase[Head(chain)] = "unborn"
    /\ Settle({Head(chain)}, "rejected")
    /\ chain' = Tail(chain)
    /\ broken' = TRUE
    /\ head' = "idle"
    /\ aborted' = aborted \cup {active}
    /\ UNCHANGED <<active, queue, phase, home, born, pend, fw, accepted, stopped>>

-----------------------------------------------------------------------------
(* The rest of startTask once work has returned.                           *)

Settles(ph) == active # NoRun /\ phase[active] = ph

\* await task.controlChain rejects.
ChainFailed ==
    /\ Settles("settling") /\ broken
    /\ Settle(SteerRequests, "rejected")
    /\ FinishActive("rejected")
    /\ UNCHANGED <<home, aborted, accepted, born, stopped>>

\* recoverUndeliveredSteers on an aborted signal rejects them all.
RejectUndelivered ==
    /\ Settles("settling") /\ ~broken /\ chain = <<>>
    /\ active \in aborted
    /\ Settle(SteerRequests, "rejected")
    /\ pend' = <<>>
    /\ phase' = [phase EXCEPT ![active] = "recovering"]
    /\ UNCHANGED <<active, queue, home, aborted, born, chain, broken, head, fw,
                   accepted, stopped>>

\* recoverUndeliveredSteers on a live signal walks through the list.
RecoverUndelivered ==
    /\ Settles("settling") /\ ~broken /\ chain = <<>>
    /\ active \notin aborted
    /\ phase' = [phase EXCEPT ![active] = "recovering"]
    /\ UNCHANGED <<active, queue, home, aborted, born, steerVars, fw, result,
                   accepted, stopped>>

RejectRecovered ==
    /\ Settles("recovering") /\ pend # <<>>
    /\ phase[Head(pend)] = "promoted"
    /\ Settle({Head(pend)}, "rejected")
    /\ pend' = Tail(pend)
    /\ UNCHANGED <<taskVars, chain, broken, head, fw, accepted, stopped>>

ReplaceRecovered ==
    /\ Settles("recovering") /\ pend # <<>>
    /\ phase[Head(pend)] = "unborn"
    /\ AddTask(Head(pend))
    /\ Settle({Head(pend)}, "replaced")
    /\ pend' = Tail(pend)
    /\ UNCHANGED <<home, aborted, chain, broken, head, fw, accepted, stopped>>

\* The replacement cannot be created: startTask's catch rejects the rest.
RecoveryFails ==
    /\ Settles("recovering") /\ pend # <<>>
    /\ phase[Head(pend)] = "unborn"
    /\ Settle(SteerRequests, "rejected")
    /\ FinishActive("rejected")
    /\ UNCHANGED <<home, aborted, accepted, born, stopped>>

\* task.resolve and the finally block.
Finish ==
    /\ Settles("recovering") /\ pend = <<>>
    /\ FinishActive("resolved")
    /\ UNCHANGED <<home, aborted, result, accepted, born, stopped>>

-----------------------------------------------------------------------------
(* The reactions of promoteQueuedRun to its delivery promise.  They may run *)
(* before or after the finally block of the task they were steered into.   *)

\* Mutant: the task is put at the front of the queue.
PutBackFirst(i) ==
    IF active = NoRun
    THEN /\ active' = i
         /\ phase' = [phase EXCEPT ![i] = "starting"]
         /\ UNCHANGED queue
    ELSE /\ queue' = <<i>> \o queue
         /\ phase' = [phase EXCEPT ![i] = "queued"]
         /\ UNCHANGED active

\* restoreQueuedTask: back to its index, or straight into a lane that has
\* emptied meanwhile (startTask).
PutBack(i) ==
    IF active = NoRun
    THEN /\ active' = i
         /\ phase' = [phase EXCEPT ![i] = "starting"]
         /\ UNCHANGED queue
    ELSE /\ LET at == IF home[i] <= Len(queue) THEN home[i] ELSE Len(queue)
            IN queue' = SubSeq(queue, 1, at) \o <<i>>
                          \o SubSeq(queue, at + 1, Len(queue))
         /\ phase' = [phase EXCEPT ![i] = "queued"]
         /\ UNCHANGED active

\* Mutant: the task is put back although its input was delivered.
PromotionDeliveredPutBack(i) ==
    /\ phase[i] = "promoted" /\ result[i] = "delivered"
    /\ PutBack(i)
    /\ home' = [home EXCEPT ![i] = 0]
    /\ UNCHANGED <<aborted, born, steerVars, fw, result, accepted, stopped>>

\* rejectQueuedTask: the promoted task never runs.
PromotionDelivered(i) ==
    /\ phase[i] = "promoted" /\ result[i] = "delivered"
    /\ phase' = [phase EXCEPT ![i] = "rejected"]
    /\ aborted' = aborted \cup {i}
    /\ home' = [home EXCEPT ![i] = 0]
    /\ UNCHANGED <<active, queue, born, steerVars, fw, result, accepted,
                   stopped>>

PromotionRejected(i) ==
    /\ phase[i] = "promoted" /\ result[i] = "rejected"
    /\ PutBack(i)
    /\ home' = [home EXCEPT ![i] = 0]
    /\ UNCHANGED <<aborted, born, steerVars, fw, result, accepted, stopped>>

-----------------------------------------------------------------------------
FrameworkStep == TakeSteered \/ AcceptSteered \/ AcceptFails \/ FrameworkEnds

ChainStep ==
    \/ SendSteer
    \/ RefusedAfterAbort
    \/ RefusedPromotion
    \/ RefusedThenReplaced
    \/ ReplacementFails

SettleStep ==
    \/ ChainFailed
    \/ RejectUndelivered
    \/ RecoverUndelivered
    \/ RejectRecovered
    \/ ReplaceRecovered
    \/ RecoveryFails
    \/ Finish

Reaction(i) == PromotionDelivered(i) \/ PromotionRejected(i)

WorkEnds == WorkReturns \/ WorkThrows

Next ==
    \/ \E i \in Inputs : Enqueue(i) \/ Steer(i) \/ Reaction(i)
    \/ \E k \in 1..Len(queue) : Promote(k) \/ InterruptQueuedRun(k)
    \/ Interrupt
    \/ InterruptRun
    \/ RegisterHandle
    \/ CloseSteering
    \/ FrameworkStep
    \/ WorkEnds
    \/ ChainStep
    \/ SettleStep

Spec == Init /\ [][Next]_vars

(* The microtask queue is always drained, and the event loop does not      *)
(* starve a callback: a run that is due to register, to end or to return   *)
(* does so although commands keep arriving (strong fairness, for commands  *)
(* make reactions due).  That a framework run ends is an assumption about  *)
(* the model, the tools and the person who answers a permission request.   *)
Fairness ==
    /\ WF_vars(ChainStep)
    /\ WF_vars(SettleStep)
    /\ WF_vars(\E i \in Inputs : Reaction(i))
    /\ SF_vars(AcceptSteered \/ AcceptFails)
    /\ SF_vars(FrameworkEnds)
    /\ SF_vars(RegisterHandle \/ WorkEnds)

FairSpec == Spec /\ Fairness

-----------------------------------------------------------------------------
(* Properties.                                                             *)

\* Every variable has its type.
TypeOK ==
    /\ active \in Inputs \cup {NoRun}
    /\ queue \in Seq(Inputs)
    /\ phase \in [Inputs -> Phases]
    /\ home \in [Inputs -> Nat]
    /\ aborted \subseteq Inputs
    /\ pend \in Seq(Inputs)
    /\ chain \in Seq(Inputs)
    /\ broken \in BOOLEAN
    /\ head \in {"idle", "steered", "taken", "refused"}
    /\ fw \in {"none", "open", "closed", "over"}
    /\ result \in [Inputs -> Results]
    /\ accepted \subseteq Inputs
    /\ born \in Seq(Inputs)
    /\ stopped \subseteq Inputs

\* A session runs one task at a time, also when a refused promotion starts
\* its task in a lane that startTask's finally block has just emptied.
OneRunAtATime == \A i \in Inputs : phase[i] \in Running <=> i = active

\* No task is lost or listed twice: the queue holds exactly the tasks that
\* are queued, each once, and only behind an active task.
TasksAccounted ==
    /\ \A i \in Inputs : phase[i] = "queued" <=> i \in Range(queue)
    /\ \A j, k \in 1..Len(queue) : queue[j] = queue[k] => j = k
    /\ queue # <<>> => active # NoRun

\* An unsettled steer or promotion is still held by the active task, so a
\* task that ends, whatever its work did, leaves no caller waiting, and a
\* promoted task in limbo always has a reaction to come.
OpenRequestsHeld ==
    \A i \in Inputs : result[i] = "open" =>
        /\ active # NoRun
        /\ i \in Range(chain \o pend)

\* The lane's books agree with each other: one run at a time, no task lost or
\* listed twice, no caller whose request nobody holds any more.
LaneConsistent == OneRunAtATime /\ TasksAccounted /\ OpenRequestsHeld

\* startTask's test of the signal never bites: no task is aborted while it
\* waits, and none that may still be restored is.
WaitingNotAborted == \A i \in aborted : phase[i] \notin Waiting

\* A settled request tells the truth about who owns the input: delivered
\* means that the active run accepted it and its own task will not run,
\* replaced that it has a run of its own and was not accepted as well.
VerdictIsTrue ==
    \A i \in Inputs :
        /\ result[i] = "delivered" =>
               i \in accepted /\ phase[i] \in {"unborn", "promoted", "rejected"}
        /\ result[i] = "replaced" => i \notin accepted /\ phase[i] # "unborn"

\* A task never waits behind a younger one, unless it was put back there
\* by a refused promotion.
QueueOrder ==
    \A j, k \in 1..Len(queue) : j < k =>
        \/ result[queue[k]] = "rejected"
        \/ \E m, n \in 1..Len(born) :
               m < n /\ born[m] = queue[j] /\ born[n] = queue[k]

\* With commands admitted one at a time: an input that the active run has
\* accepted is neither reported as refused nor run a second time.
SteeredOnce ==
    \A i \in accepted :
        /\ result[i] = "delivered"
        /\ phase[i] \in {"unborn", "promoted", "rejected"}

\* With commands admitted one at a time: a task that waited when the session
\* was interrupted has ended and never starts.
StoppedNeverStart == \A i \in stopped : phase[i] = "rejected"

\* Every task that was enqueued ends, and every steer and promotion is
\* settled, whether the run takes it, closes, fails, is interrupted or never
\* registers a handle.
LaneSettles == \A i \in Inputs :
    /\ phase[i] \in Waiting \cup Running ~> phase[i] \in Ended
    /\ result[i] = "open" ~> result[i] # "open"

=============================================================================
