----------------------------- MODULE PromptLife -----------------------------
(***************************************************************************)
(* The life of the prompts of one session: what RunAdmissionService,       *)
(* RunControlService, SessionRunEngine, the event projector and the        *)
(* permission broker write into the store while a run lane, a call that    *)
(* waits for a delivery and a tool that waits for a person are only in     *)
(* memory; the daemon may stop between any two writes, and                 *)
(* StartupRecoveryService then repairs what it finds.                      *)
(*                                                                         *)
(* An input owns at most one run, so a run is named by its input.  The     *)
(* lane is the abstraction of RunLane's: the order of the queue and the    *)
(* control chain of a steer are that module's matter, and a queue is a     *)
(* set here.  A session has at most one call in flight                     *)
(* (SessionOperationRunner); what a goal does to its runs comes from       *)
(* settlements and timers outside that line.                               *)
(***************************************************************************)
EXTENDS Integers, FiniteSets

CONSTANTS
    Inputs,      \* prompts: ids of durable inputs
    Goals,       \* the ones that SessionGoalService writes
    None,        \* no input, no run
    MaxStops     \* how often the daemon stops or crashes (bound)

ASSUME GoalsAssumption == Goals \subseteq Inputs
ASSUME NoneAssumption == None \notin Inputs
ASSUME StopsAssumption == MaxStops \in Nat

VARIABLES
    session,     \* status of the session record: open, closing, archived
    delivery,    \* inputs: how each was admitted
    status,      \* runs: status of the run that each input owns
    bound,       \* messages: the run whose transcript took the input as a steer
    promo,       \* metadata.promotion of a run: the run it was promoted into
    request,     \* the permission request that is pending, or the active run's last
    allowed,     \* one has been answered for the whole session
    boot,        \* the daemon: down, at a step of its recovery, up, stopping
    stops,       \* how often it has stopped
    collected,   \* the runs that stopAndDrain waits for
    active,      \* lane.active
    stage,       \* what the active run is doing
    aborted,     \* its signal has fired
    queued,      \* lane.queue
    call,        \* the steer, promotion or archive in flight
    taking,      \* the input whose input.accepted is on its way to the store
    told,        \* what the permission broker told the active run's tool
    given        \* how often an input's content went to the model (history)

asked   == <<request, allowed>>
durable == <<session, delivery, status, bound, promo, asked>>
daemon  == <<boot, stops, collected>>
lane    == <<active, stage, aborted, queued>>
vars    == <<durable, daemon, lane, call, taking, told, given>>

Open     == {"pending", "running"}
Terminal == {"finished", "interrupted"}  \* completed and failed are not told apart
Stages   == {"idle", "starting", "live", "ending"}
Recovery == {"runs", "inputs", "permissions", "sessions"}
NoRequest == [of |-> None, is |-> "none"]
NoCall   == [of |-> None, at |-> "free", to |-> None]

IsSteer(i)     == delivery[i] = "steer"
IsPromotion(i) == delivery[i] = "queue"
Owned(i)       == status[i] # "none" \/ bound[i] # None

TypeOK ==
    /\ session \in {"open", "closing", "archived"}
    /\ delivery \in [Inputs -> {"none", "queue", "steer"}]
    /\ status \in [Inputs -> {"none"} \cup Open \cup Terminal]
    /\ bound \in [Inputs -> Inputs \cup {None}]
    /\ promo \in [Inputs -> Inputs \cup {None}]
    /\ request \in [of : Inputs \cup {None},
                   is : {"none", "pending", "approved", "denied", "expired"}]
    /\ allowed \in BOOLEAN
    /\ boot \in {"down", "up", "stopping", "stopped"} \cup Recovery
    /\ stops \in 0..MaxStops
    /\ collected \subseteq Inputs
    /\ active \in Inputs \cup {None}
    /\ stage \in Stages
    /\ aborted \in BOOLEAN
    /\ queued \subseteq Inputs
    /\ call \in [of : Inputs \cup {None}, to : Inputs \cup {None},
                 at : {"free", "archiving", "materializing", "open", "accepted", "rejected"}]
    /\ taking \in Inputs \cup {None}
    /\ told \in {"none", "waiting", "approved", "denied", "expired"}
    /\ given \in [Inputs -> Nat]

Init ==
    /\ session = "open"
    /\ delivery = [i \in Inputs |-> "none"]
    /\ status = [i \in Inputs |-> "none"]
    /\ bound = [i \in Inputs |-> None]
    /\ promo = [i \in Inputs |-> None]
    /\ request = NoRequest
    /\ allowed = FALSE
    /\ boot = "up"
    /\ stops = 0
    /\ collected = {}
    /\ active = None /\ stage = "idle" /\ aborted = FALSE /\ queued = {}
    /\ call = NoCall
    /\ taking = None
    /\ told = "none"
    /\ given = [i \in Inputs |-> 0]

-----------------------------------------------------------------------------
(* Steps that several handlers share.                                      *)

\* A decided request is followed as long as its run.
ForgetDecided ==
    /\ request' = IF request.is = "pending" THEN request ELSE NoRequest
    /\ UNCHANGED allowed

\* The daemon is open, or is closing and its store still open: what a goal does
\* asks for no more.
AtWork == boot \in {"up", "stopping"}

\* SessionOperationRunner has no other command of the session at work.
Command == boot = "up" /\ session = "open" /\ call = NoCall

\* SessionRunEngine.enqueueRun: into the lane, or to work at once.
Enqueue(i) ==
    IF active = None
    THEN active' = i /\ stage' = "starting" /\ aborted' = FALSE /\ UNCHANGED queued
    ELSE queued' = queued \cup {i} /\ UNCHANGED <<active, stage, aborted>>

\* createRun with the input's id, and its way into the lane.
CreateAndEnqueue(i) ==
    /\ status' = [status EXCEPT ![i] = "pending"]
    /\ Enqueue(i)

\* rejectSteers: the call that waits for a delivery is told no.
RejectCall == IF call.at = "open" THEN [call EXCEPT !.at = "rejected"] ELSE call

\* The queued runs S leave the lane and are marked in the store.
InterruptQueue(S) ==
    /\ queued' = queued \ S
    /\ status' = [i \in Inputs |-> IF i \in S THEN "interrupted" ELSE status[i]]

\* interruptSession: the lane first, then one transaction for the queue.
InterruptLane ==
    /\ InterruptQueue(queued)
    /\ aborted' = (active # None)
    /\ call' = RejectCall
    /\ UNCHANGED <<active, stage>>

-----------------------------------------------------------------------------
(* Admission (RunAdmissionService).                                        *)

\* cancelGoalRuns(queuedOnly): while its goal is active, a person's prompt
\* goes before the continuations that wait.
Yielding == {{}, queued \cap Goals}

\* A person's input gets its run.
AdmitRun(i) ==
    \E Y \in Yielding :
      /\ status' = [j \in Inputs |-> IF j = i THEN "pending"
                                     ELSE IF j \in Y THEN "interrupted" ELSE status[j]]
      /\ IF active = None
         THEN active' = i /\ stage' = "starting" /\ aborted' = FALSE /\ UNCHANGED queued
         ELSE queued' = (queued \ Y) \cup {i} /\ UNCHANGED <<active, stage, aborted>>

\* admitPrompt, delivery "queue": the input and its run are one transaction,
\* the lane comes after it.
AdmitPrompt(i) ==
    /\ Command
    /\ i \notin Goals /\ delivery[i] = "none"
    /\ delivery' = [delivery EXCEPT ![i] = "queue"]
    /\ AdmitRun(i)
    /\ UNCHANGED <<session, bound, promo, asked, daemon, call, taking, told, given>>

\* admitPrompt, delivery "steer": the input is stored alone.  An input with a
\* skill is put into words first, behind an await.
AdmitSteer(i) ==
    /\ Command
    /\ i \notin Goals /\ delivery[i] = "none"
    /\ delivery' = [delivery EXCEPT ![i] = "steer"]
    /\ call' = [of |-> i, at |-> "materializing", to |-> None]
    /\ \E Y \in Yielding : InterruptQueue(Y)
    /\ UNCHANGED <<session, bound, promo, asked, daemon, active, stage, aborted,
                   taking, told, given>>

\* runtimeQueue.steer: merged into the active run while its work goes on; no
\* active run, and the input gets a run of its own.
SteerOrRun ==
    /\ call.at = "materializing" /\ IsSteer(call.of)
    /\ IF active # None
       THEN /\ call' = [call EXCEPT !.at = "open"]
            /\ UNCHANGED <<status, lane>>
       ELSE /\ CreateAndEnqueue(call.of)
            /\ call' = NoCall
    /\ UNCHANGED <<session, delivery, bound, promo, asked, daemon, taking, told, given>>

\* materializeSteerInput throws, outside every try: the caller learns of it,
\* the stored input is left as it is.
MaterializeFails ==
    /\ call.at = "materializing"
    /\ call' = NoCall
    /\ UNCHANGED <<durable, daemon, lane, taking, told, given>>

\* Mutant: only a run of the input's own is looked for.
RetryPromptOwnRunOnly(i) ==
    /\ Command
    /\ i \notin Goals /\ delivery[i] # "none" /\ status[i] = "none"
    /\ AdmitRun(i)
    /\ UNCHANGED <<session, delivery, bound, promo, asked, daemon, call, taking, told,
                   given>>

\* admitPrompt with a known id: a run is made for an input that has none (the
\* call changes nothing if findRunByInput knows one).
RetryPrompt(i) ==
    /\ Command
    /\ i \notin Goals /\ delivery[i] # "none" /\ ~Owned(i)
    /\ AdmitRun(i)
    /\ UNCHANGED <<session, delivery, bound, promo, asked, daemon, call, taking,
                   told, given>>

\* settleGoalRun and observeExternalWait: persistGoalRun and
\* dispatchPersistedRun, outside the line of the session's commands, and
\* while the daemon closes too: nothing ever clears `accepting`.
ContinueGoal(i) ==
    /\ AtWork /\ session = "open"
    /\ i \in Goals /\ delivery[i] = "none"
    /\ delivery' = [delivery EXCEPT ![i] = "queue"]
    /\ CreateAndEnqueue(i)
    /\ UNCHANGED <<session, bound, promo, asked, daemon, call, taking, told, given>>

-----------------------------------------------------------------------------
(* Run control (RunControlService).                                        *)

\* promoteQueuedRun up to its await.
BeginPromotion(i) ==
    /\ Command
    /\ IsPromotion(i) /\ status[i] = "pending"
    /\ active # None /\ status[active] \in Open
    /\ call' = [of |-> i, at |-> "materializing", to |-> active]
    /\ UNCHANGED <<durable, daemon, lane, taking, told, given>>

\* runtime.promoteQueuedRun: the run leaves the queue while its input is
\* steered, unless the lane has moved on (409).
Promote ==
    /\ call.at = "materializing" /\ IsPromotion(call.of)
    /\ IF active = call.to /\ call.of \in queued
       THEN queued' = queued \ {call.of} /\ call' = [call EXCEPT !.at = "open"]
       ELSE call' = NoCall /\ UNCHANGED queued
    /\ UNCHANGED <<durable, daemon, active, stage, aborted, taking, told, given>>

\* interruptSession.
InterruptSession ==
    /\ Command
    /\ active # None
    /\ InterruptLane
    /\ UNCHANGED <<session, delivery, bound, promo, asked, daemon, taking, told, given>>

\* interruptRun on a queued run, interruptQueuedRun, cancelQueuedPrompt.
InterruptQueuedRun(i) ==
    /\ Command
    /\ i \in queued /\ status[i] \in Open
    /\ InterruptQueue({i})
    /\ UNCHANGED <<session, delivery, bound, promo, asked, daemon, active, stage,
                   aborted, call, taking, told, given>>

\* interruptRun on the active run.
InterruptActive ==
    /\ Command
    /\ active # None /\ status[active] \in Open
    /\ aborted' = TRUE
    /\ UNCHANGED <<durable, daemon, active, stage, queued, call, taking, told, given>>

\* cancelGoalRuns, from a settlement or a timer: every open run of the goal
\* is interrupted in the lane; one that is not active is marked in the store
\* too, wherever it is.  A person's run is the goal's while it serves it.
CancelGoal ==
    /\ AtWork
    /\ \E mine \in {{}, {active} \ {None}} :
       LET runs == {i \in Goals \cup mine : status[i] \in Open}
       IN /\ runs # {}
          /\ queued' = queued \ runs
          /\ status' = [i \in Inputs |-> IF i \in runs \ {active} THEN "interrupted"
                                                                  ELSE status[i]]
          /\ IF active \in runs
             THEN /\ aborted' = TRUE
                  /\ call' = RejectCall
             ELSE UNCHANGED <<aborted, call>>
    /\ UNCHANGED <<session, delivery, bound, promo, asked, daemon, active, stage,
                   taking, told, given>>

-----------------------------------------------------------------------------
(* The active run: SessionRunExecutor.execute, and the events that the     *)
(* projector writes.                                                       *)

HasUserWork ==
    \/ \E i \in Inputs \ Goals : status[i] \in Open
    \/ call.of \in Inputs \ Goals /\ IsSteer(call.of)

\* prepareRunExecution lets the run pass, and run.started is projected
\* (startRun throws on a terminal run).  A continuation yields to a person.
StartRun ==
    /\ stage = "starting" /\ ~aborted
    /\ status[active] = "pending"
    /\ active \in Goals => ~HasUserWork
    /\ stage' = "live"
    /\ status' = [status EXCEPT ![active] = "running"]
    /\ given' = [given EXCEPT ![active] = @ + 1]
    /\ UNCHANGED <<session, delivery, bound, promo, asked, daemon, active, aborted,
                   queued, call, taking, told>>

\* The run ends before it starts: interrupted by a person or for its goal's
\* sake, or the executor could not start it.  A terminal run is left alone.
NeverStarts ==
    /\ stage = "starting"
    /\ stage' = "ending"
    /\ IF status[active] \in Terminal
       THEN UNCHANGED status
       ELSE \E s \in IF aborted THEN {"interrupted"} ELSE Terminal :
              status' = [status EXCEPT ![active] = s]
    /\ UNCHANGED <<session, delivery, bound, promo, asked, daemon, active, aborted,
                   queued, call, taking, told, given>>

\* A turn boundary takes the steered input and emits input.accepted.
TakeSteered ==
    /\ stage = "live" /\ told # "waiting"
    /\ call.at = "open" /\ taking = None
    /\ taking' = call.of
    /\ UNCHANGED <<durable, daemon, lane, call, told, given>>

\* projectInput: a promoted prompt must still own a pending run.
Projectable == IsPromotion(taking) => status[taking] = "pending"

\* input.accepted is projected into the transcript of the active run, the
\* model gets the input unless the run is aborted, and the delivery resolves
\* if it still can.
AcceptSteered ==
    /\ taking # None /\ Projectable
    /\ bound' = [bound EXCEPT ![taking] = active]
    /\ given' = [given EXCEPT ![taking] = IF aborted THEN @ ELSE @ + 1]
    /\ call' = IF call.of = taking /\ call.at = "open" THEN [call EXCEPT !.at = "accepted"]
                                                       ELSE call
    /\ taking' = None
    /\ UNCHANGED <<session, delivery, status, promo, asked, daemon, lane, told>>

\* projectInput throws: the delivery error ends the active run.
AcceptConflicts ==
    /\ taking # None /\ ~Projectable
    /\ taking' = None
    /\ stage' = "ending"
    /\ status' = [status EXCEPT ![active] = IF aborted THEN "interrupted" ELSE "finished"]
    /\ told' = "none"
    /\ ForgetDecided
    /\ UNCHANGED <<session, delivery, bound, promo, daemon, active, aborted, queued,
                   call, given>>

\* The framework run ends: completed, failed, stopped by a person or by the
\* stall watchdog.  postRunMaintenance may follow.
RunEnds ==
    /\ stage = "live" /\ taking = None /\ told # "waiting"
    /\ \E s \in IF aborted THEN {"interrupted"} ELSE Terminal :
         status' = [status EXCEPT ![active] = s]
    /\ stage' = "ending"
    /\ told' = "none"
    /\ ForgetDecided
    /\ UNCHANGED <<session, delivery, bound, promo, daemon, active, aborted, queued,
                   call, taking, given>>

\* The finally block of startTask: a queued run is next.
Finish ==
    /\ stage = "ending" /\ call.at # "open"
    /\ aborted' = FALSE
    /\ \/ \E i \in queued : active' = i /\ stage' = "starting" /\ queued' = queued \ {i}
       \/ queued = {} /\ active' = None /\ stage' = "idle" /\ UNCHANGED queued
    /\ UNCHANGED <<durable, daemon, call, taking, told, given>>

-----------------------------------------------------------------------------
(* What becomes of the call that waits for a delivery.                     *)

\* The framework run takes no more input.  A steer gets a run of its own
\* (recoverRejectedSteer), a promotion is told no.
Refuse ==
    /\ call.at = "open" /\ taking # call.of /\ ~aborted
    /\ stage \in {"live", "ending"}
    /\ IF IsSteer(call.of)
       THEN CreateAndEnqueue(call.of) /\ call' = NoCall
       ELSE call' = RejectCall /\ UNCHANGED <<status, lane>>
    /\ UNCHANGED <<session, delivery, bound, promo, asked, daemon, taking, told, given>>

\* A steer that met an aborted run.
RefuseAborted ==
    /\ call.at = "open" /\ taking # call.of /\ aborted
    /\ call' = RejectCall
    /\ UNCHANGED <<durable, daemon, lane, taking, told, given>>

\* terminalizeUndeliveredSteer: the input gets a terminal run, unless it has
\* one or was taken after all.
TerminalizeUndeliveredSteer ==
    /\ call.at = "rejected" /\ IsSteer(call.of)
    /\ status' = IF Owned(call.of) THEN status
                 ELSE [status EXCEPT ![call.of] = "interrupted"]
    /\ call' = NoCall
    /\ UNCHANGED <<session, delivery, bound, promo, asked, daemon, lane, taking, told,
                   given>>

\* restoreQueuedTask.
PutBack ==
    /\ call.at = "rejected" /\ IsPromotion(call.of)
    /\ Enqueue(call.of)
    /\ call' = NoCall
    /\ UNCHANGED <<durable, daemon, taking, told, given>>

SteerDelivered ==
    /\ call.at = "accepted" /\ IsSteer(call.of)
    /\ call' = NoCall
    /\ UNCHANGED <<durable, daemon, lane, taking, told, given>>

\* Mutant: the promoted run keeps its status.
PromotedUnmarked ==
    /\ call.at = "accepted" /\ IsPromotion(call.of)
    /\ call' = NoCall
    /\ UNCHANGED <<durable, daemon, lane, taking, told, given>>

\* The end of promoteQueuedRun: the queued run is marked interrupted, with
\* the run that its prompt went into.
PromotionDelivered ==
    /\ call.at = "accepted" /\ IsPromotion(call.of)
    /\ status' = [status EXCEPT ![call.of] = "interrupted"]
    /\ promo' = [promo EXCEPT ![call.of] = call.to]
    /\ call' = NoCall
    /\ UNCHANGED <<session, delivery, bound, asked, daemon, lane, taking, told, given>>

-----------------------------------------------------------------------------
(* Permission requests (StorePermissionBroker, PermissionController).      *)

\* ask: the request is stored.  One for a tool that the session has been
\* allowed before is answered at once, one of an aborted run expires, and
\* for any other the tool waits.
Ask ==
    /\ stage = "live" /\ taking = None /\ told # "waiting"
    /\ \/ allowed /\ told' = "approved"
       \/ aborted /\ told' = "expired"
       \/ ~aborted /\ told' = "waiting"
    /\ request' = [of |-> active, is |-> IF told' = "waiting" THEN "pending" ELSE told']
    /\ UNCHANGED <<session, delivery, status, bound, promo, allowed, daemon, lane,
                   call, taking, given>>

Answers == {"once", "session", "denied"}
Meaning(d) == IF d = "denied" THEN "denied" ELSE "approved"

\* Mutant: an answer is stored whatever became of the request.
ReplyLate(d) ==
    /\ AtWork /\ request.is \in {"pending", "expired"}
    /\ request' = [request EXCEPT !.is = Meaning(d)]
    /\ allowed' = (allowed \/ d = "session")
    /\ told' = IF told = "waiting" THEN Meaning(d) ELSE told
    /\ UNCHANGED <<session, delivery, status, bound, promo, daemon, lane, call,
                   taking, given>>

\* reply: a request that is no longer pending cannot be answered; the tool
\* that waits is told.
Reply(d) ==
    /\ AtWork /\ request.is = "pending"
    /\ request' = [request EXCEPT !.is = Meaning(d)]
    /\ allowed' = (allowed \/ d = "session")
    /\ told' = IF told = "waiting" THEN Meaning(d) ELSE told
    /\ UNCHANGED <<session, delivery, status, bound, promo, daemon, lane, call,
                   taking, given>>

\* The abort of the run reaches PermissionController.wait: expire, unless
\* the request has been answered.
ExpireRequest ==
    /\ stage = "live" /\ aborted /\ told = "waiting"
    /\ request' = IF request.is = "pending" THEN [request EXCEPT !.is = "expired"] ELSE request
    /\ told' = "expired"
    /\ UNCHANGED <<session, delivery, status, bound, promo, allowed, daemon, lane,
                   call, taking, given>>

-----------------------------------------------------------------------------
(* Archive, shutdown, crash and recovery.                                  *)

\* archiveSessionTree under its barrier: the session closes and its lane is
\* interrupted,
BeginArchive ==
    /\ boot = "up" /\ session # "archived" /\ call = NoCall
    /\ session' = "closing"
    /\ InterruptQueue(queued)
    /\ aborted' = (active # None)
    /\ call' = [NoCall EXCEPT !.at = "archiving"]
    /\ UNCHANGED <<active, stage>>
    /\ UNCHANGED <<delivery, bound, promo, asked, daemon, taking, told, given>>

\* and once its runs are over it is archived.
FinishArchive ==
    /\ call.at = "archiving"
    /\ active = None /\ queued = {}
    /\ session' = "archived"
    /\ call' = NoCall
    /\ UNCHANGED <<delivery, status, bound, promo, asked, daemon, lane, taking, told,
                   given>>

\* stopAndDrain, behind every lease and barrier: no call is in flight.  What
\* it interrupts is what it will wait for.
Stop ==
    /\ boot = "up" /\ call = NoCall
    /\ stops < MaxStops
    /\ boot' = "stopping"
    /\ stops' = stops + 1
    /\ collected' = queued \cup ({active} \ {None})
    /\ InterruptLane
    /\ UNCHANGED <<session, delivery, bound, promo, asked, taking, told, given>>

\* What is only in memory goes with the process.
MemoryGoes ==
    /\ active' = None /\ stage' = "idle" /\ aborted' = FALSE /\ queued' = {}
    /\ call' = NoCall /\ taking' = None /\ told' = "none"
    /\ ForgetDecided
    /\ UNCHANGED <<session, delivery, status, bound, promo, given>>

\* Mutant: the daemon closes its store without waiting for the runs.
StoppedUndrained ==
    /\ boot = "stopping"
    /\ boot' = "stopped"
    /\ MemoryGoes
    /\ UNCHANGED <<stops, collected>>

\* The runs it waits for are over; the rest of closeWork closes the store, on
\* whatever a goal has put into the lane since.
Stopped ==
    /\ boot = "stopping"
    /\ collected \cap (queued \cup {active}) = {}
    /\ boot' = "stopped"
    /\ MemoryGoes
    /\ UNCHANGED <<stops, collected>>

\* The process dies, at work or in the middle of its recovery.
Crash ==
    /\ boot \notin {"down", "stopped"}
    /\ stops < MaxStops
    /\ stops' = stops + 1
    /\ boot' = "down"
    /\ collected' = {}
    /\ MemoryGoes

\* A step of StartupRecoveryService.run, a transaction of its own.
Recover(step, next) ==
    /\ boot = step
    /\ boot' = next
    /\ UNCHANGED <<delivery, bound, promo, stops, collected, lane, call, taking, told, given>>

StartDaemon ==
    /\ boot \in {"down", "stopped"}
    /\ boot' = "runs"
    /\ collected' = {}
    /\ UNCHANGED <<durable, stops, lane, call, taking, told, given>>

\* Mutant: only the runs that had started are interrupted.
InterruptActiveRunsStarted ==
    /\ Recover("runs", "inputs")
    /\ status' = [i \in Inputs |-> IF status[i] = "running" THEN "interrupted" ELSE status[i]]
    /\ UNCHANGED <<session, asked>>

\* interruptActiveRuns.
InterruptActiveRuns ==
    /\ Recover("runs", "inputs")
    /\ status' = [i \in Inputs |-> IF status[i] \in Open THEN "interrupted" ELSE status[i]]
    /\ UNCHANGED <<session, asked>>

\* terminalizeUnownedInputs, of a session that is neither closing nor
\* archived.
TerminalizeUnownedInputs ==
    /\ Recover("inputs", "permissions")
    /\ status' = [i \in Inputs |->
         IF session = "open" /\ delivery[i] # "none" /\ ~Owned(i)
         THEN "interrupted" ELSE status[i]]
    /\ UNCHANGED <<session, asked>>

\* expirePending: what was pending expires, and no run is left to follow it.
ExpirePendingPermissions ==
    /\ Recover("permissions", "sessions")
    /\ request' = NoRequest
    /\ UNCHANGED <<session, status, allowed>>

\* Mutant: a session whose archive was cut short stays closing.
FinalizeSkipped ==
    /\ Recover("sessions", "up")
    /\ UNCHANGED <<session, status, asked>>

\* finalizeClosingSessions.
FinalizeClosingSessions ==
    /\ Recover("sessions", "up")
    /\ session' = IF session = "closing" /\ \A i \in Inputs : status[i] \notin Open
                  THEN "archived" ELSE session
    /\ UNCHANGED <<status, asked>>

-----------------------------------------------------------------------------
Admission ==
    \/ \E i \in Inputs : AdmitPrompt(i) \/ AdmitSteer(i) \/ RetryPrompt(i) \/ ContinueGoal(i)
    \/ MaterializeFails

Control ==
    \/ \E i \in Inputs : BeginPromotion(i) \/ InterruptQueuedRun(i)
    \/ InterruptSession \/ InterruptActive \/ CancelGoal

\* The call in flight goes on.
Delivery ==
    \/ SteerOrRun \/ Promote
    \/ Refuse \/ RefuseAborted \/ TerminalizeUndeliveredSteer \/ PutBack
    \/ SteerDelivered \/ PromotionDelivered

\* The active run goes on.
Execution ==
    \/ StartRun \/ NeverStarts
    \/ TakeSteered \/ AcceptSteered \/ AcceptConflicts
    \/ ExpireRequest \/ RunEnds \/ Finish

Answer == \E d \in Answers : Reply(d)

Boot ==
    \/ StartDaemon
    \/ InterruptActiveRuns \/ TerminalizeUnownedInputs \/ ExpirePendingPermissions
    \/ FinalizeClosingSessions

Next ==
    \/ Admission \/ Control \/ Delivery \/ Execution
    \/ Ask \/ Answer
    \/ BeginArchive \/ FinishArchive \/ Stop \/ Stopped
    \/ Crash \/ Boot

Spec == Init /\ [][Next]_vars

\* The event loop runs what is due; a model call, a tool and a delivery come
\* to an end (timeouts, stall watchdog), and so do the turns of a run
\* (maxTurns); the daemon is started again and archive and shutdown go on;
\* whoever is asked answers.
FairSpec ==
    /\ Spec
    /\ WF_vars(Delivery) /\ WF_vars(Execution) /\ SF_vars(RunEnds) /\ WF_vars(Boot)
    /\ WF_vars(FinishArchive) /\ WF_vars(Stopped)
    /\ WF_vars(Answer)

-----------------------------------------------------------------------------
(* What holds.                                                             *)

\* The run is out of the queue while its promotion is decided.
Promoting(i) == i = call.of /\ IsPromotion(i) /\ call.at \in {"open", "accepted", "rejected"}

\* Store and lane agree on every run while the daemon is at work: a run that
\* the store calls pending waits in the queue, starts, or is being promoted;
\* the running one is the active one; and nothing waits that the store calls
\* terminal, but a continuation whose goal was cancelled under a promotion.
RunsAreOwned ==
    AtWork =>
      /\ \A i \in Inputs : status[i] = "pending" =>
           i \in queued \/ Promoting(i) \/ (i = active /\ stage = "starting")
      /\ \A i \in Inputs : status[i] = "running" <=> (i = active /\ stage = "live")
      /\ \A i \in queued : status[i] # "pending" => i \in Goals /\ status[i] = "interrupted"

\* A prompt reaches the model at most once, whatever retries, promotions,
\* refusals, interrupts, restarts and late acceptances do.
OneExecution == \A i \in Inputs : given[i] <= 1

\* A queued prompt that has gone into another run no longer waits for its
\* own, after a crash neither, unless that run was aborted before it could
\* act on it; and the run named by its promotion is the one whose transcript
\* holds it.
PromotionsSettle ==
    \A i \in Inputs :
      /\ promo[i] # None => bound[i] = promo[i]
      /\ (boot = "up" /\ IsPromotion(i) /\ bound[i] # None /\ call.of # i)
            => \/ status[i] = "interrupted"
               \/ status[bound[i]] = "interrupted"
               \/ bound[i] = active /\ aborted

\* The stored permission requests are what the tools wait for: one is pending
\* exactly while the active run's tool waits, and the tool has been told what
\* the store says, even when an abort and an answer meet.
RequestsAreAwaited ==
    AtWork =>
      /\ request.is = "pending" <=> told = "waiting"
      /\ told # "none" => request.of = active /\ stage = "live"
      /\ told \in {"approved", "denied", "expired"} => request.is = told

\* An archived session has no open run.  A clean stop leaves open only what a
\* goal has dispatched behind the back of stopAndDrain, for the next start to
\* interrupt: of the runs it collected, and of what people asked for, every
\* one is over.  And no permission request is pending but one of a run that
\* is left so.
LeftOpen == {i \in Inputs : status[i] \in Open}
QuietAtRest ==
    /\ boot = "up" /\ session = "archived" => LeftOpen = {}
    /\ boot = "stopped" => LeftOpen \subseteq Goals \ collected
    /\ boot = "stopped" \/ (boot = "up" /\ session = "archived") =>
         (request.is = "pending" => request.of \in LeftOpen)

\* Every run that was created ends and every archive that was begun is
\* finished, across restarts too: with no more prompts than Inputs, the
\* session comes to rest.
AtRest == session # "closing" /\ LeftOpen = {}
ComesToRest == ~AtRest ~> AtRest

=============================================================================
