--------------------------- MODULE PromptLifeProofs ---------------------------
(***************************************************************************)
(* Proofs about PromptLife for any number of prompts, goals and stops.     *)
(*                                                                         *)
(* Shape says who may be where: what the lane, the call in flight and the  *)
(* tool of the active run have in hand, and that none of it outlives the   *)
(* process.  On top of it each property has an invariant of its own, which *)
(* is inductive given those before: Asking, Holding, Unspent, Resting and  *)
(* Settling.                                                               *)
(***************************************************************************)
EXTENDS PromptLife, TLAPS

InFlight == {"materializing", "open", "accepted", "rejected"}

\* The lane: what is active is not queued, and an idle lane is empty.
LaneShape ==
    /\ active = None <=> stage = "idle"
    /\ active = None => queued = {} /\ ~aborted
    /\ active \notin queued
    /\ taking # None \/ told # "none" => stage = "live"

\* The call in flight: a promoted run is neither queued nor active.
CallShape ==
    /\ call.at \in InFlight => call.of \in Inputs /\ delivery[call.of] # "none"
    /\ call.at \notin InFlight => call.of = None
    /\ call.at \in InFlight /\ IsPromotion(call.of) => call.to \in Inputs
    /\ call.at \in {"open", "accepted", "rejected"} /\ IsPromotion(call.of) =>
           call.of \notin queued /\ call.of # active

\* What is only in memory goes with the process, and shutdown waits for calls.
NothingOutlives ==
    /\ boot # "up" => call = NoCall
    /\ ~AtWork => active = None /\ taking = None /\ told = "none"

\* A run has an input, and what is in the lane is a run.
RunsHaveInputs ==
    /\ \A i \in Inputs : delivery[i] = "none" => status[i] = "none" /\ bound[i] = None
    /\ \A i \in Inputs : i \in queued \/ i = active => status[i] # "none"
    /\ taking # None => delivery[taking] # "none"
    /\ call.at \in InFlight => (IsSteer(call.of) <=> status[call.of] = "none")

Shape == TypeOK /\ LaneShape /\ CallShape /\ NothingOutlives /\ RunsHaveInputs

-----------------------------------------------------------------------------
Statuses == {"none", "pending", "running", "finished", "interrupted"}

LEMMA StatusType == TypeOK => status \in [Inputs -> Statuses]
  BY DEF TypeOK, Open, Terminal, Statuses

LEMMA EnqueueType ==
    ASSUME TypeOK, NEW i \in Inputs, Enqueue(i)
    PROVE  /\ active' \in Inputs \cup {None} /\ stage' \in Stages /\ aborted' \in BOOLEAN
           /\ queued' \subseteq Inputs
<1>1. CASE active = None
  <2>1. active' = i /\ stage' = "starting" /\ aborted' = FALSE /\ queued' = queued
    BY <1>1 DEF Enqueue
  <2> QED
    BY <2>1 DEF TypeOK, Stages
<1>2. CASE active # None
  BY <1>2 DEF TypeOK, Enqueue
<1> QED
  BY <1>1, <1>2

LEMMA AdmitRunType ==
    ASSUME TypeOK, NEW i \in Inputs, AdmitRun(i)
    PROVE  /\ active' \in Inputs \cup {None} /\ stage' \in Stages /\ aborted' \in BOOLEAN
           /\ queued' \subseteq Inputs
           /\ status' \in [Inputs -> Statuses]
<1>1. status \in [Inputs -> Statuses]
  BY StatusType
<1>2. PICK Y \in Yielding :
        /\ status' = [j \in Inputs |-> IF j = i THEN "pending"
                                       ELSE IF j \in Y THEN "interrupted" ELSE status[j]]
        /\ IF active = None
           THEN active' = i /\ stage' = "starting" /\ aborted' = FALSE /\ UNCHANGED queued
           ELSE queued' = (queued \ Y) \cup {i} /\ UNCHANGED <<active, stage, aborted>>
  BY DEF AdmitRun
<1>3. status' \in [Inputs -> Statuses]
  BY <1>1, <1>2 DEF Statuses
<1>4. CASE active = None
  BY <1>2, <1>3, <1>4 DEF TypeOK, Stages
<1>5. CASE active # None
  BY <1>2, <1>3, <1>5 DEF TypeOK
<1> QED
  BY <1>4, <1>5

LEMMA CreateAndEnqueueType ==
    ASSUME TypeOK, NEW i \in Inputs, CreateAndEnqueue(i)
    PROVE  /\ active' \in Inputs \cup {None} /\ stage' \in Stages /\ aborted' \in BOOLEAN
           /\ queued' \subseteq Inputs
           /\ status' \in [Inputs -> Statuses]
<1>1. status \in [Inputs -> Statuses]
  BY StatusType
<1> QED
  BY <1>1, EnqueueType DEF CreateAndEnqueue, Statuses

LEMMA InitShape == Init => Shape
<1> SUFFICES ASSUME Init PROVE Shape
  OBVIOUS
<1>1. TypeOK
  <2>1. 0 \in 0..MaxStops
    BY StopsAssumption
  <2>2. NoCall.of = None /\ NoCall.to = None /\ NoCall.at = "free"
    BY DEF NoCall
  <2> QED
    BY <2>1 DEF Init, TypeOK, NoCall, NoRequest, Stages
<1>2. LaneShape /\ CallShape /\ NothingOutlives
  BY NoneAssumption DEF Init, LaneShape, CallShape, NothingOutlives, AtWork, InFlight, NoCall
<1>3. RunsHaveInputs
  BY NoneAssumption DEF Init, RunsHaveInputs, InFlight, NoCall
<1> QED
  BY <1>1, <1>2, <1>3 DEF Shape

\* Whatever step is taken, everything stays in its place.
LEMMA NextShape == Shape /\ [Next]_vars => Shape'
<1> SUFFICES ASSUME Shape, [Next]_vars PROVE Shape'
  OBVIOUS
<1> USE NoneAssumption, StopsAssumption, GoalsAssumption
    DEF Shape, TypeOK, LaneShape, CallShape, NothingOutlives, RunsHaveInputs, AtWork, InFlight,
        NoCall, NoRequest, Stages, Open, Terminal, Recovery, durable, daemon, asked, lane, IsSteer,
        IsPromotion, Owned
<1>1. ASSUME NEW i \in Inputs, AdmitPrompt(i) PROVE Shape'
  <2>1. TypeOK'
    BY <1>1, AdmitRunType DEF AdmitPrompt, Statuses
  <2>2. LaneShape'
    BY <1>1 DEF AdmitPrompt, AdmitRun, Yielding, Command
  <2>3. CallShape'
    BY <1>1 DEF AdmitPrompt, AdmitRun, Yielding, Command
  <2>4. NothingOutlives'
    BY <1>1 DEF AdmitPrompt, AdmitRun, Yielding, Command
  <2>5. RunsHaveInputs'
    BY <1>1 DEF AdmitPrompt, AdmitRun, Yielding, Command
  <2> QED
    BY <2>1, <2>2, <2>3, <2>4, <2>5
<1>2. ASSUME NEW i \in Inputs, AdmitSteer(i) PROVE Shape'
  BY <1>2 DEF AdmitSteer, Yielding, InterruptQueue, Command
<1>3. ASSUME NEW i \in Inputs, RetryPrompt(i) PROVE Shape'
  <2>1. TypeOK'
    BY <1>3, AdmitRunType DEF RetryPrompt, Statuses
  <2>2. LaneShape'
    BY <1>3 DEF RetryPrompt, AdmitRun, Yielding, Command
  <2>3. CallShape'
    BY <1>3 DEF RetryPrompt, AdmitRun, Yielding, Command
  <2>4. NothingOutlives'
    BY <1>3 DEF RetryPrompt, AdmitRun, Yielding, Command
  <2>5. RunsHaveInputs'
    BY <1>3 DEF RetryPrompt, AdmitRun, Yielding, Command
  <2> QED
    BY <2>1, <2>2, <2>3, <2>4, <2>5
<1>4. ASSUME NEW i \in Inputs, ContinueGoal(i) PROVE Shape'
  <2>1. TypeOK'
    BY <1>4, CreateAndEnqueueType DEF ContinueGoal, Statuses
  <2>2. LaneShape'
    BY <1>4 DEF ContinueGoal, CreateAndEnqueue, Enqueue
  <2>3. CallShape'
    BY <1>4 DEF ContinueGoal, CreateAndEnqueue, Enqueue
  <2>4. NothingOutlives'
    BY <1>4 DEF ContinueGoal, CreateAndEnqueue, Enqueue
  <2>5. RunsHaveInputs'
    BY <1>4 DEF ContinueGoal, CreateAndEnqueue, Enqueue
  <2> QED
    BY <2>1, <2>2, <2>3, <2>4, <2>5
<1>5. CASE MaterializeFails
  BY <1>5 DEF MaterializeFails
<1>6. ASSUME NEW i \in Inputs, BeginPromotion(i) PROVE Shape'
  BY <1>6 DEF BeginPromotion, Command
<1>7. ASSUME NEW i \in Inputs, InterruptQueuedRun(i) PROVE Shape'
  BY <1>7 DEF InterruptQueuedRun, InterruptQueue, Command
<1>8. CASE InterruptSession
  BY <1>8 DEF InterruptSession, InterruptLane, InterruptQueue, RejectCall, Command
<1>9. CASE InterruptActive
  BY <1>9 DEF InterruptActive, Command
<1>10. CASE CancelGoal
  <2>1. TypeOK'
    <3>1. PICK mine \in {{}, {active} \ {None}} :
            LET runs == {i \in Goals \cup mine : status[i] \in Open}
            IN  /\ queued' = queued \ runs
                /\ status' = [i \in Inputs |-> IF i \in runs \ {active} THEN "interrupted"
                                                                       ELSE status[i]]
                /\ IF active \in runs THEN aborted' = TRUE /\ call' = RejectCall
                                      ELSE UNCHANGED <<aborted, call>>
      BY <1>10 DEF CancelGoal
    <3>2. status' \in [Inputs -> Statuses]
      BY <3>1, StatusType DEF Statuses
    <3>3. aborted' \in BOOLEAN /\ call' \in {call, RejectCall} /\ queued' \subseteq Inputs
      BY <3>1
    <3>4. RejectCall \in [of : Inputs \cup {None}, to : Inputs \cup {None},
                          at : {"free", "archiving", "materializing", "open", "accepted",
                                "rejected"}]
      BY DEF RejectCall
    <3> QED
      BY <1>10, <3>2, <3>3, <3>4 DEF CancelGoal, Statuses
  <2>2. LaneShape'
    BY <1>10 DEF CancelGoal, RejectCall
  <2>3. CallShape'
    BY <1>10 DEF CancelGoal, RejectCall
  <2>4. NothingOutlives'
    BY <1>10 DEF CancelGoal, RejectCall
  <2>5. RunsHaveInputs'
    BY <1>10 DEF CancelGoal, RejectCall
  <2> QED
    BY <2>1, <2>2, <2>3, <2>4, <2>5
<1>11. CASE SteerOrRun
  <2>1. TypeOK'
    <3>1. CASE active # None
      BY <1>11, <3>1 DEF SteerOrRun
    <3>2. CASE active = None
      BY <1>11, <3>2, CreateAndEnqueueType DEF SteerOrRun, Statuses
    <3> QED
      BY <3>1, <3>2
  <2>2. LaneShape'
    BY <1>11 DEF SteerOrRun, CreateAndEnqueue, Enqueue
  <2>3. CallShape'
    BY <1>11 DEF SteerOrRun, CreateAndEnqueue, Enqueue
  <2>4. NothingOutlives'
    BY <1>11 DEF SteerOrRun, CreateAndEnqueue, Enqueue
  <2>5. RunsHaveInputs'
    BY <1>11 DEF SteerOrRun, CreateAndEnqueue, Enqueue
  <2> QED
    BY <2>1, <2>2, <2>3, <2>4, <2>5
<1>12. CASE Promote
  BY <1>12 DEF Promote
<1>13. CASE Refuse
  BY <1>13 DEF Refuse, CreateAndEnqueue, Enqueue, RejectCall
<1>14. CASE RefuseAborted
  BY <1>14 DEF RefuseAborted, RejectCall
<1>15. CASE TerminalizeUndeliveredSteer
  BY <1>15 DEF TerminalizeUndeliveredSteer
<1>16. CASE PutBack
  <2>1. TypeOK'
    BY <1>16, EnqueueType DEF PutBack
  <2>2. LaneShape'
    BY <1>16 DEF PutBack, Enqueue
  <2>3. CallShape'
    BY <1>16 DEF PutBack, Enqueue
  <2>4. NothingOutlives'
    BY <1>16 DEF PutBack, Enqueue
  <2>5. RunsHaveInputs'
    BY <1>16 DEF PutBack, Enqueue
  <2> QED
    BY <2>1, <2>2, <2>3, <2>4, <2>5
<1>17. CASE SteerDelivered
  BY <1>17 DEF SteerDelivered
<1>18. CASE PromotionDelivered
  BY <1>18 DEF PromotionDelivered
<1>19. CASE StartRun
  BY <1>19 DEF StartRun, HasUserWork
<1>20. CASE NeverStarts
  BY <1>20 DEF NeverStarts
<1>21. CASE TakeSteered
  BY <1>21 DEF TakeSteered
<1>22. CASE AcceptSteered
  <2>1. TypeOK'
    <3>1. bound' \in [Inputs -> Inputs \cup {None}]
      BY <1>22 DEF AcceptSteered
    <3>2. given' \in [Inputs -> Nat]
      <4>1. given[taking] + 1 \in Nat /\ given[taking] \in Nat
        BY <1>22 DEF AcceptSteered
      <4> QED
        BY <1>22, <4>1 DEF AcceptSteered
    <3>3. call' \in [of : Inputs \cup {None}, to : Inputs \cup {None},
                     at : {"free", "archiving", "materializing", "open", "accepted",
                           "rejected"}]
      BY <1>22 DEF AcceptSteered
    <3> QED
      BY <1>22, <3>1, <3>2, <3>3 DEF AcceptSteered
  <2>2. LaneShape'
    BY <1>22 DEF AcceptSteered, Projectable
  <2>3. CallShape'
    BY <1>22 DEF AcceptSteered, Projectable
  <2>4. NothingOutlives'
    BY <1>22 DEF AcceptSteered, Projectable
  <2>5. RunsHaveInputs'
    BY <1>22 DEF AcceptSteered, Projectable
  <2> QED
    BY <2>1, <2>2, <2>3, <2>4, <2>5
<1>23. CASE AcceptConflicts
  BY <1>23 DEF AcceptConflicts, ForgetDecided, Projectable
<1>24. CASE ExpireRequest
  BY <1>24 DEF ExpireRequest
<1>25. CASE RunEnds
  BY <1>25 DEF RunEnds, ForgetDecided
<1>26. CASE Finish
  <2>1. TypeOK'
    <3>1. /\ active' \in Inputs \cup {None} /\ stage' \in Stages
          /\ aborted' \in BOOLEAN /\ queued' \subseteq Inputs
      BY <1>26 DEF Finish
    <3> QED
      BY <1>26, <3>1 DEF Finish
  <2>2. LaneShape'
    BY <1>26 DEF Finish
  <2>3. CallShape'
    BY <1>26 DEF Finish
  <2>4. NothingOutlives'
    BY <1>26 DEF Finish
  <2>5. RunsHaveInputs'
    BY <1>26 DEF Finish
  <2> QED
    BY <2>1, <2>2, <2>3, <2>4, <2>5
<1>27. CASE Ask
  BY <1>27 DEF Ask
<1>28. ASSUME NEW d \in Answers, Reply(d) PROVE Shape'
  BY <1>28 DEF Reply, Meaning, Answers
<1>29. CASE BeginArchive
  BY <1>29 DEF BeginArchive, InterruptQueue
<1>30. CASE FinishArchive
  BY <1>30 DEF FinishArchive
<1>31. CASE Stop
  BY <1>31 DEF Stop, InterruptLane, InterruptQueue, RejectCall
<1>32. CASE Stopped
  <2>1. TypeOK'
    <3>1. request' \in {request, NoRequest} /\ allowed' \in BOOLEAN
      BY <1>32 DEF Stopped, MemoryGoes, ForgetDecided
    <3>2. /\ active' \in Inputs \cup {None} /\ stage' \in Stages
          /\ aborted' \in BOOLEAN /\ queued' \subseteq Inputs
          /\ boot' = "stopped" /\ call' = NoCall /\ taking' = None /\ told' = "none"
      BY <1>32 DEF Stopped, MemoryGoes
    <3> QED
      BY <1>32, <3>1, <3>2 DEF Stopped, MemoryGoes
  <2>2. LaneShape' /\ CallShape'
    BY <1>32 DEF Stopped, MemoryGoes
  <2>3. NothingOutlives' /\ RunsHaveInputs'
    BY <1>32 DEF Stopped, MemoryGoes
  <2> QED
    BY <2>1, <2>2, <2>3
<1>33. CASE Crash
  <2>1. TypeOK'
    <3>1. stops' \in 0..MaxStops
      BY <1>33 DEF Crash
    <3>2. request' \in {request, NoRequest} /\ allowed' \in BOOLEAN
      BY <1>33 DEF Crash, MemoryGoes, ForgetDecided
    <3>3. /\ active' \in Inputs \cup {None} /\ stage' \in Stages
          /\ aborted' \in BOOLEAN /\ queued' \subseteq Inputs
          /\ boot' = "down" /\ call' = NoCall /\ taking' = None /\ told' = "none"
      BY <1>33 DEF Crash, MemoryGoes
    <3> QED
      BY <1>33, <3>1, <3>2, <3>3 DEF Crash, MemoryGoes
  <2>2. LaneShape'
    BY <1>33 DEF Crash, MemoryGoes, ForgetDecided
  <2>3. CallShape'
    BY <1>33 DEF Crash, MemoryGoes, ForgetDecided
  <2>4. NothingOutlives'
    BY <1>33 DEF Crash, MemoryGoes, ForgetDecided
  <2>5. RunsHaveInputs'
    BY <1>33 DEF Crash, MemoryGoes, ForgetDecided
  <2> QED
    BY <2>1, <2>2, <2>3, <2>4, <2>5
<1>34. CASE StartDaemon
  BY <1>34 DEF StartDaemon
<1>35. CASE InterruptActiveRuns
  BY <1>35 DEF InterruptActiveRuns, Recover
<1>36. CASE TerminalizeUnownedInputs
  BY <1>36 DEF TerminalizeUnownedInputs, Recover
<1>37. CASE ExpirePendingPermissions
  BY <1>37 DEF ExpirePendingPermissions, Recover
<1>38. CASE FinalizeClosingSessions
  BY <1>38 DEF FinalizeClosingSessions, Recover
<1>39. CASE UNCHANGED vars
  BY <1>39 DEF vars, durable, daemon, asked, lane
<1> QED
  BY <1>1, <1>2, <1>3, <1>4, <1>5, <1>6, <1>7, <1>8, <1>9, <1>10, <1>11, <1>12,
     <1>13, <1>14, <1>15, <1>16, <1>17, <1>18, <1>19, <1>20, <1>21, <1>22, <1>23,
     <1>24, <1>25, <1>26, <1>27, <1>28, <1>29, <1>30, <1>31, <1>32, <1>33, <1>34,
     <1>35, <1>36, <1>37, <1>38, <1>39
  DEF Next, Admission, Control, Delivery, Execution, Answer, Boot

\* Every variable of PromptLife keeps its type, whatever is admitted, promoted,
\* cancelled, interrupted or recovered, and in whatever order.
THEOREM TypeCorrect == Spec => []TypeOK
<1>1. Shape /\ [Next]_vars => Shape'
  BY NextShape
<1>2. Shape => TypeOK
  BY DEF Shape
<1> QED
  BY <1>1, <1>2, InitShape, PTL DEF Spec

LEMMA ShapeHolds == Spec => []Shape
  BY InitShape, NextShape, PTL DEF Spec

-----------------------------------------------------------------------------
(* The stored permission requests and the tool that waits for them.        *)

\* A tool that waits keeps its run from taking input, and recovery has let the
\* requests expire before the daemon is up.
Asking ==
    /\ RequestsAreAwaited
    /\ ~(taking # None /\ told = "waiting")
    /\ boot = "sessions" => request.is # "pending"

LEMMA NextAsking == Shape /\ Asking /\ [Next]_vars => Asking'
<1> SUFFICES ASSUME Shape, Asking, [Next]_vars PROVE Asking'
  OBVIOUS
<1> USE NoneAssumption
    DEF Shape, TypeOK, LaneShape, NothingOutlives, Asking, RequestsAreAwaited, AtWork, NoCall,
        NoRequest, Stages, Recovery, durable, daemon, asked, lane
<1>1. ASSUME NEW i \in Inputs, AdmitPrompt(i) PROVE Asking'
  BY <1>1 DEF AdmitPrompt, AdmitRun, Yielding, Command
<1>2. ASSUME NEW i \in Inputs, AdmitSteer(i) PROVE Asking'
  BY <1>2 DEF AdmitSteer, Yielding, InterruptQueue, Command
<1>3. ASSUME NEW i \in Inputs, RetryPrompt(i) PROVE Asking'
  BY <1>3 DEF RetryPrompt, AdmitRun, Yielding, Command
<1>4. ASSUME NEW i \in Inputs, ContinueGoal(i) PROVE Asking'
  BY <1>4 DEF ContinueGoal, CreateAndEnqueue, Enqueue
<1>5. CASE MaterializeFails
  BY <1>5 DEF MaterializeFails
<1>6. ASSUME NEW i \in Inputs, BeginPromotion(i) PROVE Asking'
  BY <1>6 DEF BeginPromotion, Command
<1>7. ASSUME NEW i \in Inputs, InterruptQueuedRun(i) PROVE Asking'
  BY <1>7 DEF InterruptQueuedRun, InterruptQueue, Command
<1>8. CASE InterruptSession
  BY <1>8 DEF InterruptSession, InterruptLane, InterruptQueue, RejectCall, Command
<1>9. CASE InterruptActive
  BY <1>9 DEF InterruptActive, Command
<1>10. CASE CancelGoal
  BY <1>10 DEF CancelGoal, RejectCall
<1>11. CASE SteerOrRun
  BY <1>11 DEF SteerOrRun, CreateAndEnqueue, Enqueue
<1>12. CASE Promote
  BY <1>12 DEF Promote
<1>13. CASE Refuse
  BY <1>13 DEF Refuse, CreateAndEnqueue, Enqueue, RejectCall
<1>14. CASE RefuseAborted
  BY <1>14 DEF RefuseAborted, RejectCall
<1>15. CASE TerminalizeUndeliveredSteer
  BY <1>15 DEF TerminalizeUndeliveredSteer
<1>16. CASE PutBack
  BY <1>16 DEF PutBack, Enqueue
<1>17. CASE SteerDelivered
  BY <1>17 DEF SteerDelivered
<1>18. CASE PromotionDelivered
  BY <1>18 DEF PromotionDelivered
<1>19. CASE StartRun
  BY <1>19 DEF StartRun, HasUserWork
<1>20. CASE NeverStarts
  BY <1>20 DEF NeverStarts
<1>21. CASE TakeSteered
  BY <1>21 DEF TakeSteered
<1>22. CASE AcceptSteered
  BY <1>22 DEF AcceptSteered, Projectable
<1>23. CASE AcceptConflicts
  BY <1>23 DEF AcceptConflicts, ForgetDecided, Projectable
<1>24. CASE ExpireRequest
  BY <1>24 DEF ExpireRequest
<1>25. CASE RunEnds
  BY <1>25 DEF RunEnds, ForgetDecided
<1>26. CASE Finish
  BY <1>26 DEF Finish
<1>27. CASE Ask
  BY <1>27 DEF Ask
<1>28. ASSUME NEW d \in Answers, Reply(d) PROVE Asking'
  BY <1>28 DEF Reply, Meaning, Answers
<1>29. CASE BeginArchive
  BY <1>29 DEF BeginArchive, InterruptQueue
<1>30. CASE FinishArchive
  BY <1>30 DEF FinishArchive
<1>31. CASE Stop
  BY <1>31 DEF Stop, InterruptLane, InterruptQueue, RejectCall
<1>32. CASE Stopped
  BY <1>32 DEF Stopped, MemoryGoes, ForgetDecided
<1>33. CASE Crash
  BY <1>33 DEF Crash, MemoryGoes, ForgetDecided
<1>34. CASE StartDaemon
  BY <1>34 DEF StartDaemon
<1>35. CASE InterruptActiveRuns
  BY <1>35 DEF InterruptActiveRuns, Recover
<1>36. CASE TerminalizeUnownedInputs
  BY <1>36 DEF TerminalizeUnownedInputs, Recover
<1>37. CASE ExpirePendingPermissions
  BY <1>37 DEF ExpirePendingPermissions, Recover
<1>38. CASE FinalizeClosingSessions
  BY <1>38 DEF FinalizeClosingSessions, Recover
<1>39. CASE UNCHANGED vars
  BY <1>39 DEF vars, durable, daemon, asked, lane
<1> QED
  BY <1>1, <1>2, <1>3, <1>4, <1>5, <1>6, <1>7, <1>8, <1>9, <1>10, <1>11, <1>12,
     <1>13, <1>14, <1>15, <1>16, <1>17, <1>18, <1>19, <1>20, <1>21, <1>22, <1>23,
     <1>24, <1>25, <1>26, <1>27, <1>28, <1>29, <1>30, <1>31, <1>32, <1>33, <1>34,
     <1>35, <1>36, <1>37, <1>38, <1>39
  DEF Next, Admission, Control, Delivery, Execution, Answer, Boot

\* While the daemon is at work, a permission request is pending exactly while
\* the tool of the active run waits for it, and the tool is told what the store
\* says, even when the abort of its run and the answer meet.
THEOREM RequestsMatchTools == Spec => []RequestsAreAwaited
<1>1. Init => Asking
  BY NoneAssumption DEF Init, Asking, RequestsAreAwaited, NoRequest
<1>2. Asking => RequestsAreAwaited
  BY DEF Asking
<1> QED
  BY <1>1, <1>2, NextAsking, ShapeHolds, PTL DEF Spec

-----------------------------------------------------------------------------
(* The runs of the store and the runs in the lane.                         *)

\* A promoted run is still to be started, unless its goal has been cancelled,
\* and recovery leaves no open run behind its first step.
Holding ==
    /\ RunsAreOwned
    /\ boot \in {"inputs", "permissions", "sessions"} => \A i \in Inputs : status[i] \notin Open
    /\ \A i \in Inputs : Promoting(i) =>
           status[i] = "pending" \/ (i \in Goals /\ status[i] = "interrupted")

LEMMA NextHolding == Shape /\ Holding /\ [Next]_vars => Holding'
<1> SUFFICES ASSUME Shape, Holding, [Next]_vars PROVE Holding'
  OBVIOUS
<1> USE NoneAssumption, GoalsAssumption
    DEF Shape, TypeOK, LaneShape, CallShape, NothingOutlives, RunsHaveInputs, Holding,
        RunsAreOwned, Promoting, AtWork, InFlight, NoCall, Stages, Open, Terminal, Recovery,
        durable, daemon, asked, lane, IsSteer, IsPromotion, Owned
<1>1. ASSUME NEW i \in Inputs, AdmitPrompt(i) PROVE Holding'
  BY <1>1 DEF AdmitPrompt, AdmitRun, Yielding, Command
<1>2. ASSUME NEW i \in Inputs, AdmitSteer(i) PROVE Holding'
  BY <1>2 DEF AdmitSteer, Yielding, InterruptQueue, Command
<1>3. ASSUME NEW i \in Inputs, RetryPrompt(i) PROVE Holding'
  BY <1>3 DEF RetryPrompt, AdmitRun, Yielding, Command
<1>4. ASSUME NEW i \in Inputs, ContinueGoal(i) PROVE Holding'
  BY <1>4 DEF ContinueGoal, CreateAndEnqueue, Enqueue
<1>5. CASE MaterializeFails
  BY <1>5 DEF MaterializeFails
<1>6. ASSUME NEW i \in Inputs, BeginPromotion(i) PROVE Holding'
  BY <1>6 DEF BeginPromotion, Command
<1>7. ASSUME NEW i \in Inputs, InterruptQueuedRun(i) PROVE Holding'
  BY <1>7 DEF InterruptQueuedRun, InterruptQueue, Command
<1>8. CASE InterruptSession
  BY <1>8 DEF InterruptSession, InterruptLane, InterruptQueue, RejectCall, Command
<1>9. CASE InterruptActive
  BY <1>9 DEF InterruptActive, Command
<1>10. CASE CancelGoal
  BY <1>10 DEF CancelGoal, RejectCall
<1>11. CASE SteerOrRun
  BY <1>11 DEF SteerOrRun, CreateAndEnqueue, Enqueue
<1>12. CASE Promote
  BY <1>12 DEF Promote
<1>13. CASE Refuse
  BY <1>13 DEF Refuse, CreateAndEnqueue, Enqueue, RejectCall
<1>14. CASE RefuseAborted
  BY <1>14 DEF RefuseAborted, RejectCall
<1>15. CASE TerminalizeUndeliveredSteer
  BY <1>15 DEF TerminalizeUndeliveredSteer
<1>16. CASE PutBack
  BY <1>16 DEF PutBack, Enqueue
<1>17. CASE SteerDelivered
  BY <1>17 DEF SteerDelivered
<1>18. CASE PromotionDelivered
  BY <1>18 DEF PromotionDelivered
<1>19. CASE StartRun
  BY <1>19 DEF StartRun, HasUserWork
<1>20. CASE NeverStarts
  BY <1>20 DEF NeverStarts
<1>21. CASE TakeSteered
  BY <1>21 DEF TakeSteered
<1>22. CASE AcceptSteered
  BY <1>22 DEF AcceptSteered, Projectable
<1>23. CASE AcceptConflicts
  BY <1>23 DEF AcceptConflicts, ForgetDecided, Projectable
<1>24. CASE ExpireRequest
  BY <1>24 DEF ExpireRequest
<1>25. CASE RunEnds
  BY <1>25 DEF RunEnds, ForgetDecided
<1>26. CASE Finish
  BY <1>26 DEF Finish
<1>27. CASE Ask
  BY <1>27 DEF Ask
<1>28. ASSUME NEW d \in Answers, Reply(d) PROVE Holding'
  BY <1>28 DEF Reply, Meaning, Answers
<1>29. CASE BeginArchive
  BY <1>29 DEF BeginArchive, InterruptQueue
<1>30. CASE FinishArchive
  BY <1>30 DEF FinishArchive
<1>31. CASE Stop
  BY <1>31 DEF Stop, InterruptLane, InterruptQueue, RejectCall
<1>32. CASE Stopped
  BY <1>32 DEF Stopped, MemoryGoes, ForgetDecided
<1>33. CASE Crash
  BY <1>33 DEF Crash, MemoryGoes, ForgetDecided
<1>34. CASE StartDaemon
  BY <1>34 DEF StartDaemon
<1>35. CASE InterruptActiveRuns
  BY <1>35 DEF InterruptActiveRuns, Recover
<1>36. CASE TerminalizeUnownedInputs
  BY <1>36 DEF TerminalizeUnownedInputs, Recover
<1>37. CASE ExpirePendingPermissions
  BY <1>37 DEF ExpirePendingPermissions, Recover
<1>38. CASE FinalizeClosingSessions
  BY <1>38 DEF FinalizeClosingSessions, Recover
<1>39. CASE UNCHANGED vars
  BY <1>39 DEF vars, durable, daemon, asked, lane
<1> QED
  BY <1>1, <1>2, <1>3, <1>4, <1>5, <1>6, <1>7, <1>8, <1>9, <1>10, <1>11, <1>12,
     <1>13, <1>14, <1>15, <1>16, <1>17, <1>18, <1>19, <1>20, <1>21, <1>22, <1>23,
     <1>24, <1>25, <1>26, <1>27, <1>28, <1>29, <1>30, <1>31, <1>32, <1>33, <1>34,
     <1>35, <1>36, <1>37, <1>38, <1>39
  DEF Next, Admission, Control, Delivery, Execution, Answer, Boot

\* Store and lane agree on every run while the daemon is at work: a pending run
\* waits in the queue, starts or is being promoted, the running one is the
\* active one, and the queue holds nothing that is over but a continuation
\* whose goal was cancelled under its promotion.
THEOREM StoreAndLaneAgree == Spec => []RunsAreOwned
<1>1. Init => Holding
  BY NoneAssumption DEF Init, Holding, RunsAreOwned, Promoting, NoCall
<1>2. Holding => RunsAreOwned
  BY DEF Holding
<1> QED
  BY <1>1, <1>2, NextHolding, ShapeHolds, PTL DEF Spec

-----------------------------------------------------------------------------
(* No prompt is given to the model twice.                                  *)

\* What a prompt that the model has had can still be: a run that has started,
\* part of another run, or promoted and not marked yet.
Spent(i) ==
    \/ status[i] \notin {"none", "pending"}
    \/ status[i] = "none" /\ bound[i] # None
    \/ status[i] = "pending" /\ (~AtWork \/ (call.of = i /\ call.at = "accepted"))

\* Whatever can still go to the model has not been there, and an input that is
\* on its way to the store without a call that waits for it belongs to an
\* aborted run.
Unspent ==
    /\ OneExecution
    /\ \A i \in Inputs : given[i] # 0 => delivery[i] # "none" /\ Spent(i)
    /\ \A i \in queued : given[i] = 0
    /\ call.at \in {"open", "rejected"} /\ IsPromotion(call.of) => given[call.of] = 0
    /\ taking # None => given[taking] = 0
    /\ taking # None /\ (call.of # taking \/ call.at # "open") => aborted
    /\ call.at = "materializing" /\ IsSteer(call.of) => taking # call.of
    /\ call.at \in {"materializing", "open"} /\ IsSteer(call.of) => bound[call.of] = None

LEMMA NextUnspent == Shape /\ Holding /\ Unspent /\ [Next]_vars => Unspent'
<1> SUFFICES ASSUME Shape, Holding, Unspent, [Next]_vars PROVE Unspent'
  OBVIOUS
<1> USE NoneAssumption, GoalsAssumption
    DEF Shape, TypeOK, LaneShape, CallShape, NothingOutlives, RunsHaveInputs, Holding,
        RunsAreOwned, Promoting, Unspent, Spent, OneExecution, AtWork, InFlight, NoCall, Stages,
        Open, Terminal, Recovery, durable, daemon, asked, lane, IsSteer, IsPromotion, Owned
<1>1. ASSUME NEW i \in Inputs, AdmitPrompt(i) PROVE Unspent'
  BY <1>1 DEF AdmitPrompt, AdmitRun, Yielding, Command
<1>2. ASSUME NEW i \in Inputs, AdmitSteer(i) PROVE Unspent'
  BY <1>2 DEF AdmitSteer, Yielding, InterruptQueue, Command
<1>3. ASSUME NEW i \in Inputs, RetryPrompt(i) PROVE Unspent'
  BY <1>3 DEF RetryPrompt, AdmitRun, Yielding, Command
<1>4. ASSUME NEW i \in Inputs, ContinueGoal(i) PROVE Unspent'
  BY <1>4 DEF ContinueGoal, CreateAndEnqueue, Enqueue
<1>5. CASE MaterializeFails
  BY <1>5 DEF MaterializeFails
<1>6. ASSUME NEW i \in Inputs, BeginPromotion(i) PROVE Unspent'
  BY <1>6 DEF BeginPromotion, Command
<1>7. ASSUME NEW i \in Inputs, InterruptQueuedRun(i) PROVE Unspent'
  BY <1>7 DEF InterruptQueuedRun, InterruptQueue, Command
<1>8. CASE InterruptSession
  BY <1>8 DEF InterruptSession, InterruptLane, InterruptQueue, RejectCall, Command
<1>9. CASE InterruptActive
  BY <1>9 DEF InterruptActive, Command
<1>10. CASE CancelGoal
  BY <1>10 DEF CancelGoal, RejectCall
<1>11. CASE SteerOrRun
  BY <1>11 DEF SteerOrRun, CreateAndEnqueue, Enqueue
<1>12. CASE Promote
  BY <1>12 DEF Promote
<1>13. CASE Refuse
  BY <1>13 DEF Refuse, CreateAndEnqueue, Enqueue, RejectCall
<1>14. CASE RefuseAborted
  BY <1>14 DEF RefuseAborted, RejectCall
<1>15. CASE TerminalizeUndeliveredSteer
  BY <1>15 DEF TerminalizeUndeliveredSteer
<1>16. CASE PutBack
  BY <1>16 DEF PutBack, Enqueue
<1>17. CASE SteerDelivered
  BY <1>17 DEF SteerDelivered
<1>18. CASE PromotionDelivered
  BY <1>18 DEF PromotionDelivered
<1>19. CASE StartRun
  BY <1>19 DEF StartRun, HasUserWork
<1>20. CASE NeverStarts
  BY <1>20 DEF NeverStarts
<1>21. CASE TakeSteered
  BY <1>21 DEF TakeSteered
<1>22. CASE AcceptSteered
  <2>1. CASE aborted
    <3>1. given' = given
      BY <1>22, <2>1 DEF AcceptSteered
    <3>2. \A i \in Inputs : given[i] # 0 => i # taking
      BY <1>22 DEF AcceptSteered
    <3>3. \A i \in Inputs : given'[i] # 0 => delivery'[i] # "none" /\ Spent(i)'
      BY <1>22, <3>1, <3>2 DEF AcceptSteered
    <3>4. /\ call'.of = call.of /\ (call'.at = call.at \/ call'.at = "accepted")
          /\ call'.at \in {"materializing", "open"} => call' = call
      BY <1>22 DEF AcceptSteered
    <3>5. call.at \in {"materializing", "open"} /\ IsSteer(call.of) /\ call.of = taking =>
            call'.at = "accepted"
      BY <1>22 DEF AcceptSteered
    <3> QED
      BY <1>22, <2>1, <3>1, <3>3, <3>4, <3>5 DEF AcceptSteered
  <2>2. CASE ~aborted
    <3>1. call.of = taking /\ call.at = "open" /\ taking \in Inputs /\ call'.at = "accepted"
          /\ call'.of = taking
      BY <1>22, <2>2 DEF AcceptSteered
    <3>2. /\ given' = [given EXCEPT ![taking] = given[taking] + 1]
          /\ given[taking] = 0
      BY <1>22, <2>2 DEF AcceptSteered
    <3>3. given'[taking] = 1 /\ \A i \in Inputs \ {taking} : given'[i] = given[i]
      BY <3>1, <3>2
    <3>4. OneExecution'
      BY <3>3
    <3>5. \A i \in Inputs : given'[i] # 0 => delivery'[i] # "none" /\ Spent(i)'
      <4>1. ASSUME NEW i \in Inputs, i = taking
            PROVE  delivery'[i] # "none" /\ Spent(i)'
        BY <1>22, <2>2, <3>1, <4>1 DEF AcceptSteered, Projectable
      <4>2. ASSUME NEW i \in Inputs \ {taking}, given[i] # 0
            PROVE  delivery'[i] # "none" /\ Spent(i)'
        BY <1>22, <3>1, <4>2 DEF AcceptSteered
      <4> QED
        BY <3>3, <4>1, <4>2
    <3>6. taking \notin queued
      BY <3>1, <1>22 DEF AcceptSteered
    <3> QED
      BY <1>22, <3>1, <3>3, <3>4, <3>5, <3>6 DEF AcceptSteered
  <2> QED
    BY <2>1, <2>2
<1>23. CASE AcceptConflicts
  BY <1>23 DEF AcceptConflicts, ForgetDecided, Projectable
<1>24. CASE ExpireRequest
  BY <1>24 DEF ExpireRequest
<1>25. CASE RunEnds
  BY <1>25 DEF RunEnds, ForgetDecided
<1>26. CASE Finish
  BY <1>26 DEF Finish
<1>27. CASE Ask
  BY <1>27 DEF Ask
<1>28. ASSUME NEW d \in Answers, Reply(d) PROVE Unspent'
  BY <1>28 DEF Reply, Meaning, Answers
<1>29. CASE BeginArchive
  BY <1>29 DEF BeginArchive, InterruptQueue
<1>30. CASE FinishArchive
  BY <1>30 DEF FinishArchive
<1>31. CASE Stop
  BY <1>31 DEF Stop, InterruptLane, InterruptQueue, RejectCall
<1>32. CASE Stopped
  BY <1>32 DEF Stopped, MemoryGoes, ForgetDecided
<1>33. CASE Crash
  BY <1>33 DEF Crash, MemoryGoes, ForgetDecided
<1>34. CASE StartDaemon
  BY <1>34 DEF StartDaemon
<1>35. CASE InterruptActiveRuns
  BY <1>35 DEF InterruptActiveRuns, Recover
<1>36. CASE TerminalizeUnownedInputs
  BY <1>36 DEF TerminalizeUnownedInputs, Recover
<1>37. CASE ExpirePendingPermissions
  BY <1>37 DEF ExpirePendingPermissions, Recover
<1>38. CASE FinalizeClosingSessions
  BY <1>38 DEF FinalizeClosingSessions, Recover
<1>39. CASE UNCHANGED vars
  BY <1>39 DEF vars, durable, daemon, asked, lane
<1> QED
  BY <1>1, <1>2, <1>3, <1>4, <1>5, <1>6, <1>7, <1>8, <1>9, <1>10, <1>11, <1>12,
     <1>13, <1>14, <1>15, <1>16, <1>17, <1>18, <1>19, <1>20, <1>21, <1>22, <1>23,
     <1>24, <1>25, <1>26, <1>27, <1>28, <1>29, <1>30, <1>31, <1>32, <1>33, <1>34,
     <1>35, <1>36, <1>37, <1>38, <1>39
  DEF Next, Admission, Control, Delivery, Execution, Answer, Boot

\* A prompt reaches the model at most once, whatever retries, promotions,
\* refusals, interrupts, restarts and late acceptances do.
THEOREM GivenOnce == Spec => []OneExecution
<1>1. Init => Holding
  BY NoneAssumption DEF Init, Holding, RunsAreOwned, Promoting, NoCall
<1>2. Init => Unspent
  BY NoneAssumption DEF Init, Unspent, OneExecution, NoCall
<1>3. Unspent => OneExecution
  BY DEF Unspent
<1> QED
  BY <1>1, <1>2, <1>3, NextHolding, NextUnspent, ShapeHolds, PTL DEF Spec

-----------------------------------------------------------------------------
(* A clean stop and an archive leave nothing open.                         *)

\* In an archived session the lane is empty and no call is in flight, so nothing
\* opens a run.  While the daemon closes, what is in the lane was collected, or
\* is a goal's: with the store and the lane in agreement that is what a clean
\* stop can leave open.
Resting ==
    /\ session = "archived" =>
         /\ active = None /\ queued = {} /\ call = NoCall
         /\ request.is # "pending"
         /\ \A i \in Inputs : status[i] \notin Open
    /\ boot = "stopping" =>
         \A i \in Inputs : i \in queued \/ i = active => i \in collected \cup Goals
    /\ boot = "stopped" =>
         /\ \A i \in Inputs : status[i] \in Open => i \in Goals \ collected
         /\ request.is = "pending" => request.of \in Inputs /\ status[request.of] \in Open

LEMMA NextResting == Shape /\ Asking /\ Holding /\ Resting /\ [Next]_vars => Resting'
<1> SUFFICES ASSUME Shape, Asking, Holding, Resting, [Next]_vars PROVE Resting'
  OBVIOUS
<1> USE NoneAssumption, GoalsAssumption
    DEF Shape, TypeOK, LaneShape, CallShape, NothingOutlives, RunsHaveInputs, Asking,
        RequestsAreAwaited, Holding, RunsAreOwned, Promoting, Resting, AtWork, InFlight, NoCall,
        NoRequest, Stages, Open, Terminal, Recovery, durable, daemon, asked, lane, IsSteer, IsPromotion,
        Owned
<1>1. ASSUME NEW i \in Inputs, AdmitPrompt(i) PROVE Resting'
  BY <1>1 DEF AdmitPrompt, AdmitRun, Yielding, Command
<1>2. ASSUME NEW i \in Inputs, AdmitSteer(i) PROVE Resting'
  BY <1>2 DEF AdmitSteer, Yielding, InterruptQueue, Command
<1>3. ASSUME NEW i \in Inputs, RetryPrompt(i) PROVE Resting'
  BY <1>3 DEF RetryPrompt, AdmitRun, Yielding, Command
<1>4. ASSUME NEW i \in Inputs, ContinueGoal(i) PROVE Resting'
  BY <1>4 DEF ContinueGoal, CreateAndEnqueue, Enqueue
<1>5. CASE MaterializeFails
  BY <1>5 DEF MaterializeFails
<1>6. ASSUME NEW i \in Inputs, BeginPromotion(i) PROVE Resting'
  BY <1>6 DEF BeginPromotion, Command
<1>7. ASSUME NEW i \in Inputs, InterruptQueuedRun(i) PROVE Resting'
  BY <1>7 DEF InterruptQueuedRun, InterruptQueue, Command
<1>8. CASE InterruptSession
  BY <1>8 DEF InterruptSession, InterruptLane, InterruptQueue, RejectCall, Command
<1>9. CASE InterruptActive
  BY <1>9 DEF InterruptActive, Command
<1>10. CASE CancelGoal
  BY <1>10 DEF CancelGoal, RejectCall
<1>11. CASE SteerOrRun
  BY <1>11 DEF SteerOrRun, CreateAndEnqueue, Enqueue
<1>12. CASE Promote
  BY <1>12 DEF Promote
<1>13. CASE Refuse
  BY <1>13 DEF Refuse, CreateAndEnqueue, Enqueue, RejectCall
<1>14. CASE RefuseAborted
  BY <1>14 DEF RefuseAborted, RejectCall
<1>15. CASE TerminalizeUndeliveredSteer
  BY <1>15 DEF TerminalizeUndeliveredSteer
<1>16. CASE PutBack
  BY <1>16 DEF PutBack, Enqueue
<1>17. CASE SteerDelivered
  BY <1>17 DEF SteerDelivered
<1>18. CASE PromotionDelivered
  BY <1>18 DEF PromotionDelivered
<1>19. CASE StartRun
  BY <1>19 DEF StartRun, HasUserWork
<1>20. CASE NeverStarts
  BY <1>20 DEF NeverStarts
<1>21. CASE TakeSteered
  BY <1>21 DEF TakeSteered
<1>22. CASE AcceptSteered
  BY <1>22 DEF AcceptSteered, Projectable
<1>23. CASE AcceptConflicts
  BY <1>23 DEF AcceptConflicts, ForgetDecided, Projectable
<1>24. CASE ExpireRequest
  BY <1>24 DEF ExpireRequest
<1>25. CASE RunEnds
  BY <1>25 DEF RunEnds, ForgetDecided
<1>26. CASE Finish
  BY <1>26 DEF Finish
<1>27. CASE Ask
  BY <1>27 DEF Ask
<1>28. ASSUME NEW d \in Answers, Reply(d) PROVE Resting'
  BY <1>28 DEF Reply, Meaning, Answers
<1>29. CASE BeginArchive
  BY <1>29 DEF BeginArchive, InterruptQueue
<1>30. CASE FinishArchive
  BY <1>30 DEF FinishArchive
<1>31. CASE Stop
  BY <1>31 DEF Stop, InterruptLane, InterruptQueue, RejectCall
<1>32. CASE Stopped
  BY <1>32 DEF Stopped, MemoryGoes, ForgetDecided
<1>33. CASE Crash
  BY <1>33 DEF Crash, MemoryGoes, ForgetDecided
<1>34. CASE StartDaemon
  BY <1>34 DEF StartDaemon
<1>35. CASE InterruptActiveRuns
  BY <1>35 DEF InterruptActiveRuns, Recover
<1>36. CASE TerminalizeUnownedInputs
  BY <1>36 DEF TerminalizeUnownedInputs, Recover
<1>37. CASE ExpirePendingPermissions
  BY <1>37 DEF ExpirePendingPermissions, Recover
<1>38. CASE FinalizeClosingSessions
  BY <1>38 DEF FinalizeClosingSessions, Recover
<1>39. CASE UNCHANGED vars
  BY <1>39 DEF vars, durable, daemon, asked, lane
<1> QED
  BY <1>1, <1>2, <1>3, <1>4, <1>5, <1>6, <1>7, <1>8, <1>9, <1>10, <1>11, <1>12,
     <1>13, <1>14, <1>15, <1>16, <1>17, <1>18, <1>19, <1>20, <1>21, <1>22, <1>23,
     <1>24, <1>25, <1>26, <1>27, <1>28, <1>29, <1>30, <1>31, <1>32, <1>33, <1>34,
     <1>35, <1>36, <1>37, <1>38, <1>39
  DEF Next, Admission, Control, Delivery, Execution, Answer, Boot

\* An archived session has no open run, and a clean stop leaves open only what a
\* goal has dispatched behind the back of stopAndDrain: every run that was
\* collected, and every one that a person asked for, is over.  No permission
\* request is pending but one of a run that is left so.
THEOREM RestIsQuiet == Spec => []QuietAtRest
<1>1. Init => Holding
  BY NoneAssumption DEF Init, Holding, RunsAreOwned, Promoting, NoCall
<1>2. Init => Asking
  BY NoneAssumption DEF Init, Asking, RequestsAreAwaited, NoRequest
<1>3. Init => Resting
  BY DEF Init, Resting
<1>4. Resting => QuietAtRest
  BY DEF Resting, QuietAtRest, LeftOpen
<1> QED
  BY <1>1, <1>2, <1>3, <1>4, NextAsking, NextHolding, NextResting, ShapeHolds, PTL DEF Spec

-----------------------------------------------------------------------------
(* Queued prompts that have gone into another run.                         *)

\* Where such a prompt can be: one of the two runs is marked interrupted, or
\* will be, because the run that took it is aborted, because the promotion is
\* about to mark it, or because recovery is to interrupt what was open.
Settles(i) ==
    \/ status[i] = "interrupted" \/ status[bound[i]] = "interrupted"
    \/ AtWork /\ bound[i] = active /\ stage = "live" /\ aborted
    \/ call.of = i /\ call.at = "accepted"
    \/ boot \in {"down", "stopped", "runs"} /\ (status[i] = "pending" \/ status[bound[i]] = "running")

\* The promotion in flight names the active run until it is accepted, and the
\* run that holds its prompt from then on.
Settling ==
    /\ \A i \in Inputs : IsPromotion(i) /\ bound[i] # None => Settles(i)
    /\ \A i \in Inputs : promo[i] # None =>
           bound[i] = promo[i] /\ status[i] = "interrupted" /\ taking # i /\ call.of # i
    /\ call.at = "open" /\ IsPromotion(call.of) => call.to = active
    /\ call.at = "accepted" =>
           taking = None /\ (IsPromotion(call.of) => bound[call.of] = call.to)

LEMMA NextSettling == Shape /\ Holding /\ Unspent /\ Settling /\ [Next]_vars => Settling'
<1> SUFFICES ASSUME Shape, Holding, Unspent, Settling, [Next]_vars PROVE Settling'
  OBVIOUS
<1> USE NoneAssumption, GoalsAssumption
    DEF Shape, TypeOK, LaneShape, CallShape, NothingOutlives, RunsHaveInputs, Holding,
        RunsAreOwned, Promoting, Unspent, Settling, Settles, AtWork, InFlight, NoCall, Stages,
        Open, Terminal, Recovery, durable, daemon, asked, lane, IsSteer, IsPromotion, Owned
<1>1. ASSUME NEW i \in Inputs, AdmitPrompt(i) PROVE Settling'
  BY <1>1 DEF AdmitPrompt, AdmitRun, Yielding, Command
<1>2. ASSUME NEW i \in Inputs, AdmitSteer(i) PROVE Settling'
  BY <1>2 DEF AdmitSteer, Yielding, InterruptQueue, Command
<1>3. ASSUME NEW i \in Inputs, RetryPrompt(i) PROVE Settling'
  BY <1>3 DEF RetryPrompt, AdmitRun, Yielding, Command
<1>4. ASSUME NEW i \in Inputs, ContinueGoal(i) PROVE Settling'
  BY <1>4 DEF ContinueGoal, CreateAndEnqueue, Enqueue
<1>5. CASE MaterializeFails
  BY <1>5 DEF MaterializeFails
<1>6. ASSUME NEW i \in Inputs, BeginPromotion(i) PROVE Settling'
  BY <1>6 DEF BeginPromotion, Command
<1>7. ASSUME NEW i \in Inputs, InterruptQueuedRun(i) PROVE Settling'
  BY <1>7 DEF InterruptQueuedRun, InterruptQueue, Command
<1>8. CASE InterruptSession
  BY <1>8 DEF InterruptSession, InterruptLane, InterruptQueue, RejectCall, Command
<1>9. CASE InterruptActive
  BY <1>9 DEF InterruptActive, Command
<1>10. CASE CancelGoal
  BY <1>10 DEF CancelGoal, RejectCall
<1>11. CASE SteerOrRun
  BY <1>11 DEF SteerOrRun, CreateAndEnqueue, Enqueue
<1>12. CASE Promote
  BY <1>12 DEF Promote
<1>13. CASE Refuse
  BY <1>13 DEF Refuse, CreateAndEnqueue, Enqueue, RejectCall
<1>14. CASE RefuseAborted
  BY <1>14 DEF RefuseAborted, RejectCall
<1>15. CASE TerminalizeUndeliveredSteer
  BY <1>15 DEF TerminalizeUndeliveredSteer
<1>16. CASE PutBack
  BY <1>16 DEF PutBack, Enqueue
<1>17. CASE SteerDelivered
  BY <1>17 DEF SteerDelivered
<1>18. CASE PromotionDelivered
  BY <1>18 DEF PromotionDelivered
<1>19. CASE StartRun
  BY <1>19 DEF StartRun, HasUserWork
<1>20. CASE NeverStarts
  BY <1>20 DEF NeverStarts
<1>21. CASE TakeSteered
  BY <1>21 DEF TakeSteered
<1>22. CASE AcceptSteered
  BY <1>22 DEF AcceptSteered, Projectable
<1>23. CASE AcceptConflicts
  BY <1>23 DEF AcceptConflicts, ForgetDecided, Projectable
<1>24. CASE ExpireRequest
  BY <1>24 DEF ExpireRequest
<1>25. CASE RunEnds
  BY <1>25 DEF RunEnds, ForgetDecided
<1>26. CASE Finish
  BY <1>26 DEF Finish
<1>27. CASE Ask
  BY <1>27 DEF Ask
<1>28. ASSUME NEW d \in Answers, Reply(d) PROVE Settling'
  BY <1>28 DEF Reply, Meaning, Answers
<1>29. CASE BeginArchive
  BY <1>29 DEF BeginArchive, InterruptQueue
<1>30. CASE FinishArchive
  BY <1>30 DEF FinishArchive
<1>31. CASE Stop
  BY <1>31 DEF Stop, InterruptLane, InterruptQueue, RejectCall
<1>32. CASE Stopped
  BY <1>32 DEF Stopped, MemoryGoes, ForgetDecided
<1>33. CASE Crash
  BY <1>33 DEF Crash, MemoryGoes, ForgetDecided
<1>34. CASE StartDaemon
  BY <1>34 DEF StartDaemon
<1>35. CASE InterruptActiveRuns
  BY <1>35 DEF InterruptActiveRuns, Recover
<1>36. CASE TerminalizeUnownedInputs
  BY <1>36 DEF TerminalizeUnownedInputs, Recover
<1>37. CASE ExpirePendingPermissions
  BY <1>37 DEF ExpirePendingPermissions, Recover
<1>38. CASE FinalizeClosingSessions
  BY <1>38 DEF FinalizeClosingSessions, Recover
<1>39. CASE UNCHANGED vars
  BY <1>39 DEF vars, durable, daemon, asked, lane
<1> QED
  BY <1>1, <1>2, <1>3, <1>4, <1>5, <1>6, <1>7, <1>8, <1>9, <1>10, <1>11, <1>12,
     <1>13, <1>14, <1>15, <1>16, <1>17, <1>18, <1>19, <1>20, <1>21, <1>22, <1>23,
     <1>24, <1>25, <1>26, <1>27, <1>28, <1>29, <1>30, <1>31, <1>32, <1>33, <1>34,
     <1>35, <1>36, <1>37, <1>38, <1>39
  DEF Next, Admission, Control, Delivery, Execution, Answer, Boot

\* A queued prompt that has gone into another run no longer waits for its own,
\* after a crash neither, unless that run was aborted before it could act on
\* it, and its promotion names the run whose transcript holds it.
THEOREM PromotedOnce == Spec => []PromotionsSettle
<1>1. Init => Holding
  BY NoneAssumption DEF Init, Holding, RunsAreOwned, Promoting, NoCall
<1>2. Init => Unspent
  BY NoneAssumption DEF Init, Unspent, OneExecution, NoCall
<1>3. Init => Settling
  BY NoneAssumption DEF Init, Settling, NoCall
<1>4. Shape /\ Settling => PromotionsSettle
  BY DEF Shape, NothingOutlives, Settling, Settles, PromotionsSettle
<1> QED
  BY <1>1, <1>2, <1>3, <1>4, NextHolding, NextUnspent, NextSettling, ShapeHolds, PTL DEF Spec

=============================================================================
