--------------------------- MODULE SessionCommands ---------------------------
(***************************************************************************)
(* The commands of one session between the HTTP routes and its run lane:   *)
(* SessionOperationRunner lines them up and holds a shared lease for the   *)
(* one that works, SessionInteractionService enqueues, steers and          *)
(* interrupts, a run may stop at a permission request until a person       *)
(* answers, and DaemonApplication.close shuts everything down.             *)
(*                                                                         *)
(* The run lane appears as RunLane leaves it: an active run, a number of   *)
(* queued ones, and the one steer that can be open.                        *)
(***************************************************************************)
EXTENDS Integers, Sequences, Functions, FiniteSets

CONSTANTS
    Commands,    \* commands that clients send (bound)
    Session,     \* the session
    Cwd          \* its working directory

Kinds == {"prompt", "steer", "interrupt"}

VARIABLES
    kind,        \* what each command asks for
    line,        \* SessionOperationRunner.lanes: commands in order of arrival
    stage,       \* how far each command has come
    run,         \* the active run: none, running, or asking for permission
    aborted,     \* its signal has fired
    queued,      \* runs behind it
    ready,       \* DaemonApplication.readyState = "ready"
    shutdown     \* how far DaemonControlService.shutdown has come

runVars == <<run, aborted, queued>>
vars == <<kind, line, stage, run, aborted, queued, ready, shutdown>>

\* unsent, in the line, holding its lease, waiting for the delivery of its
\* steer, about to release, answered.
Stages == {"unsent", "lined", "working", "delivering", "leaving", "done"}

HoldsLease(c) == stage[c] \in {"working", "delivering", "leaving"}
Leases == {c \in Commands : HoldsLease(c)}

Init ==
    /\ kind = [c \in Commands |-> "prompt"]
    /\ line = <<>>
    /\ stage = [c \in Commands |-> "unsent"]
    /\ run = "none"
    /\ aborted = FALSE
    /\ queued = 0
    /\ ready = TRUE
    /\ shutdown = "none"

-----------------------------------------------------------------------------
(* The operation runner.                                                   *)

\* run: the command takes its place behind the ones before it.
Send(c, k) ==
    /\ stage[c] = "unsent"
    /\ kind' = [kind EXCEPT ![c] = k]
    /\ line' = Append(line, c)
    /\ stage' = [stage EXCEPT ![c] = "lined"]
    /\ UNCHANGED <<runVars, ready, shutdown>>

\* Mutant: a command does not wait for the one before it.
BeginOutOfTurn(c) ==
    /\ stage[c] = "lined"
    /\ ready /\ shutdown = "none"
    /\ stage' = [stage EXCEPT ![c] = "working"]
    /\ UNCHANGED <<kind, line, runVars, ready, shutdown>>

\* The command's turn: it enters the gate.
Begin(c) ==
    /\ line # <<>> /\ c = Head(line) /\ stage[c] = "lined"
    /\ ready /\ shutdown = "none"
    /\ stage' = [stage EXCEPT ![c] = "working"]
    /\ UNCHANGED <<kind, line, runVars, ready, shutdown>>

\* assertReady or the gate refuses.
Refuse(c) ==
    /\ line # <<>> /\ c = Head(line) /\ stage[c] = "lined"
    /\ ~ready \/ shutdown # "none"
    /\ line' = Tail(line)
    /\ stage' = [stage EXCEPT ![c] = "done"]
    /\ UNCHANGED <<kind, runVars, ready, shutdown>>

\* Mutant: the last lease does not wake the shutdown.
WakeForgotten == UNCHANGED shutdown

\* resolveDrainWaiters: the last lease lets a waiting shutdown go on.
Wake ==
    shutdown' = IF shutdown = "waiting" /\ \A c \in Commands :
                       stage'[c] \notin {"working", "delivering", "leaving"}
                THEN "drained" ELSE shutdown

\* Mutant: the lease is released but not the lane.
LeaveLaneKept(c) ==
    /\ stage[c] = "leaving"
    /\ stage' = [stage EXCEPT ![c] = "done"]
    /\ Wake
    /\ UNCHANGED <<kind, line, runVars, ready>>

\* The lease is released, then the lane.
Leave(c) ==
    /\ stage[c] = "leaving"
    /\ line' = Tail(line)
    /\ stage' = [stage EXCEPT ![c] = "done"]
    /\ Wake
    /\ UNCHANGED <<kind, runVars, ready>>

-----------------------------------------------------------------------------
(* What a command does.                                                    *)

AddRun ==
    IF run = "none" THEN run' = "running" /\ UNCHANGED queued
                    ELSE queued' = queued + 1 /\ UNCHANGED run

\* admitPrompt with delivery "queue", or "steer" without an active run.
DoPrompt(c) ==
    /\ stage[c] = "working"
    /\ \/ kind[c] = "prompt"
       \/ kind[c] = "steer" /\ run = "none"
    /\ AddRun
    /\ stage' = [stage EXCEPT ![c] = "leaving"]
    /\ UNCHANGED <<kind, line, aborted, ready, shutdown>>

\* admitPrompt with delivery "steer", and promoteQueuedRun: the command
\* awaits the delivery under its lease.
DoSteer(c) ==
    /\ stage[c] = "working"
    /\ kind[c] = "steer" /\ run # "none"
    /\ stage' = [stage EXCEPT ![c] = "delivering"]
    /\ UNCHANGED <<kind, line, runVars, ready, shutdown>>

\* Open steers of the run are rejected.
RejectSteers == [c \in Commands |->
    IF stage[c] = "delivering" THEN "leaving" ELSE stage[c]]

\* interruptSession: the lane is interrupted, its queued runs with it.
DoInterrupt(c) ==
    /\ stage[c] = "working"
    /\ kind[c] = "interrupt"
    /\ aborted' = (run # "none")
    /\ queued' = 0
    /\ stage' = [RejectSteers EXCEPT ![c] = "leaving"]
    /\ UNCHANGED <<kind, line, run, ready, shutdown>>

-----------------------------------------------------------------------------
(* The active run.                                                         *)

\* PermissionBroker.ask.
Ask ==
    /\ run = "running" /\ ~aborted
    /\ run' = "asking"
    /\ UNCHANGED <<kind, line, stage, aborted, queued, ready, shutdown>>

\* PermissionBroker.reply: a person answers.
Reply ==
    /\ run = "asking" /\ ~aborted
    /\ run' = "running"
    /\ UNCHANGED <<kind, line, stage, aborted, queued, ready, shutdown>>

\* PermissionController.wait: the abort of the run expires the request.
Expire ==
    /\ run = "asking" /\ aborted
    /\ run' = "running"
    /\ UNCHANGED <<kind, line, stage, aborted, queued, ready, shutdown>>

\* A turn boundary takes one steered input.
Deliver(c) ==
    /\ run = "running" /\ stage[c] = "delivering"
    /\ stage' = [stage EXCEPT ![c] = "leaving"]
    /\ UNCHANGED <<kind, line, runVars, ready, shutdown>>

\* The run ends.  A steer that it has not taken is rejected if the run was
\* aborted, and otherwise gets a run of its own behind the queue.
RunEnds ==
    /\ run = "running"
    /\ LET replaced == IF aborted THEN 0
                       ELSE Cardinality({c \in Commands : stage[c] = "delivering"})
           next == queued + replaced
       IN /\ run' = IF next > 0 THEN "running" ELSE "none"
          /\ queued' = IF next > 0 THEN next - 1 ELSE 0
    /\ stage' = RejectSteers
    /\ aborted' = FALSE
    /\ UNCHANGED <<kind, line, ready, shutdown>>

-----------------------------------------------------------------------------
(* DaemonApplication.close and DaemonControlService.shutdown.              *)

Close ==
    /\ ready
    /\ ready' = FALSE
    /\ UNCHANGED <<kind, line, stage, runVars, shutdown>>

\* Mutant: shutdown does not wait for the leases.
BeginShutdownNoWait ==
    /\ ~ready /\ shutdown = "none"
    /\ shutdown' = "drained"
    /\ UNCHANGED <<kind, line, stage, runVars, ready>>

\* beginShutdown.
BeginShutdown ==
    /\ ~ready /\ shutdown = "none"
    /\ shutdown' = IF Leases = {} THEN "drained" ELSE "waiting"
    /\ UNCHANGED <<kind, line, stage, runVars, ready>>

\* Mutant: stopAndDrain leaves the queued runs alone.
StopRunsKeepingQueue ==
    /\ shutdown = "drained"
    /\ shutdown' = "stopping"
    /\ aborted' = (run # "none")
    /\ stage' = RejectSteers
    /\ UNCHANGED <<kind, line, run, queued, ready>>

\* stopAndDrain interrupts the lane.
StopRuns ==
    /\ shutdown = "drained"
    /\ shutdown' = "stopping"
    /\ aborted' = (run # "none")
    /\ queued' = 0
    /\ stage' = RejectSteers
    /\ UNCHANGED <<kind, line, run, ready>>

MarkClosed ==
    /\ shutdown = "stopping" /\ run = "none"
    /\ shutdown' = "done"
    /\ UNCHANGED <<kind, line, stage, runVars, ready>>

-----------------------------------------------------------------------------
CommandStep(c) ==
    Begin(c) \/ Refuse(c) \/ DoPrompt(c) \/ DoSteer(c) \/ DoInterrupt(c) \/ Leave(c)

Next ==
    \/ \E c \in Commands, k \in Kinds : Send(c, k)
    \/ \E c \in Commands : CommandStep(c) \/ Deliver(c)
    \/ Ask \/ Reply \/ Expire \/ RunEnds
    \/ Close \/ BeginShutdown \/ StopRuns \/ MarkClosed

Spec == Init /\ [][Next]_vars

(* The daemon's own steps are fair.  A run that is not waiting for anybody *)
(* ends although it may ask again and again (strong fairness).             *)
DaemonFairness ==
    /\ \A c \in Commands : WF_vars(CommandStep(c))
    /\ SF_vars(RunEnds)
    /\ WF_vars(Expire)
    /\ WF_vars(BeginShutdown \/ StopRuns \/ MarkClosed)

FairSpec == Spec /\ DaemonFairness

\* Nobody has to answer a permission request; here somebody does.
AttendedSpec == FairSpec /\ WF_vars(Reply)

-----------------------------------------------------------------------------
\* Every variable has its type.
TypeOK ==
    /\ kind \in [Commands -> Kinds]
    /\ line \in Seq(Commands)
    /\ stage \in [Commands -> Stages]
    /\ run \in {"none", "running", "asking"}
    /\ aborted \in BOOLEAN
    /\ queued \in Nat
    /\ ready \in BOOLEAN
    /\ shutdown \in {"none", "waiting", "drained", "stopping", "done"}

\* The discipline RunLane's Serialized stands for: while a steer waits for
\* its delivery no other command of the session works.
SteersWorkAlone ==
    \A c, d \in Commands : stage[c] = "delivering" /\ HoldsLease(d) => c = d

\* stopAndDrain meets no open steer, and from then on no run starts: what is
\* active has been aborted and nothing is queued behind it.
NothingStartsAfterStop ==
    shutdown \in {"stopping", "done"} =>
        /\ queued = 0
        /\ run # "none" => aborted
        /\ Leases = {}

\* Every command is answered, and a daemon that closes gets closed: neither
\* waits for ever for a lane, a lease, a barrier, a run or the other.
CommandsAnswered ==
    /\ \A c \in Commands : stage[c] = "lined" ~> stage[c] = "done"
    /\ ~ready ~> shutdown = "done"

-----------------------------------------------------------------------------
(* The commands use the gate as OperationGate describes it: the lease of a *)
(* command is a shared lease of the session, the lane keeps it busy.       *)
busy == IF run = "none" THEN {} ELSE {Session}

Gate == INSTANCE OperationGate WITH
    Sessions  <- {Session},
    Cwds      <- {Cwd},
    CwdOf     <- [s \in {Session} |-> Cwd],
    Tokens    <- Commands,
    GoalWaits <- {},
    phase     <- IF shutdown = "none" THEN "open"
                 ELSE IF shutdown = "done" THEN "closed" ELSE "closing",
    shared    <- {[token |-> c, session |-> Session] : c \in Leases},
    barriers  <- {},
    draining  <- IF shutdown = "stopping" THEN busy ELSE {},
    waiting   <- {},
    timed     <- {}

ImplementsGate == Gate!Spec

=============================================================================
