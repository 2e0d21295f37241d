----------------------- MODULE SessionCommandsProofs -----------------------
(***************************************************************************)
(* For any set of commands: the command lane lets one command work at a    *)
(* time, so a steer that awaits its delivery works alone; nothing starts   *)
(* once shutdown has stopped the runs; and every step of the commands is a *)
(* step of the operation gate or leaves it as it is.                       *)
(***************************************************************************)
EXTENDS SessionCommands, FiniteSetTheorems, SequenceTheorems, TLAPS

-----------------------------------------------------------------------------
(* Sequences without repetition: what a command that joins the line or     *)
(* leaves it does to its range.                                            *)

Distinct(s) == \A j, k \in 1..Len(s) : s[j] = s[k] => j = k

\* Membership in the range of a sequence, by position.
LEMMA InRange ==
    ASSUME NEW S, NEW s \in Seq(S)
    PROVE  /\ Range(s) \subseteq S
           /\ \A k \in 1..Len(s) : s[k] \in Range(s)
           /\ \A e \in Range(s) : \E k \in 1..Len(s) : s[k] = e
           /\ Range(s) = {} <=> s = <<>>
  BY RangeEquality, RangeOfSeq, EmptySeq, LenProperties

\* Append adds its element and nothing else.
LEMMA AppendLemma ==
    ASSUME NEW S, NEW s \in Seq(S), NEW e \in S
    PROVE  /\ Append(s, e) \in Seq(S)
           /\ Append(s, e) # <<>>
           /\ Range(Append(s, e)) = Range(s) \cup {e}
           /\ Distinct(s) /\ e \notin Range(s) => Distinct(Append(s, e))
<1> DEFINE t == Append(s, e)
<1>1. /\ t \in Seq(S) /\ t # <<>> /\ Len(t) = Len(s) + 1 /\ t[Len(s) + 1] = e
      /\ \A i \in 1..Len(s) : t[i] = s[i]
      /\ Len(s) \in Nat
  BY AppendProperties, LenProperties
<1> HIDE DEF t
<1>2. Range(t) = {t[i] : i \in 1..Len(t)} /\ Range(s) = {s[i] : i \in 1..Len(s)}
  BY <1>1, RangeEquality
<1>3. Range(t) = Range(s) \cup {e}
  BY <1>1, <1>2
<1>4. ASSUME Distinct(s), e \notin Range(s) PROVE Distinct(t)
  BY <1>1, <1>2, <1>4 DEF Distinct
<1> QED
  BY <1>1, <1>3, <1>4 DEF t

\* Tail drops the head and nothing else.
LEMMA TailLemma ==
    ASSUME NEW S, NEW s \in Seq(S), s # <<>>
    PROVE  /\ Head(s) \in S
           /\ Tail(s) \in Seq(S)
           /\ Range(s) = Range(Tail(s)) \cup {Head(s)}
           /\ Distinct(s) => Distinct(Tail(s)) /\ Head(s) \notin Range(Tail(s))
<1> DEFINE t == Tail(s)
<1>1. /\ t \in Seq(S) /\ Len(t) = Len(s) - 1 /\ Head(s) = s[1] /\ Head(s) \in S
      /\ \A i \in 1..Len(t) : t[i] = s[i + 1]
      /\ Len(s) \in Nat /\ Len(s) > 0
  BY HeadTailProperties, LenProperties, EmptySeq
<1> HIDE DEF t
<1>2. Range(t) = {t[i] : i \in 1..Len(t)} /\ Range(s) = {s[i] : i \in 1..Len(s)}
  BY <1>1, RangeEquality
<1>3. Range(s) \subseteq Range(t) \cup {Head(s)}
  <2> SUFFICES ASSUME NEW i \in 1..Len(s), i # 1 PROVE s[i] \in Range(t)
    BY <1>1, <1>2
  <2>1. i - 1 \in 1..Len(t) /\ t[i - 1] = s[i]
    BY <1>1
  <2> QED
    BY <2>1, <1>2
<1>4. Range(t) \cup {Head(s)} \subseteq Range(s)
  BY <1>1, <1>2
<1>5. ASSUME Distinct(s) PROVE Distinct(t) /\ Head(s) \notin Range(t)
  BY <1>1, <1>2, <1>5 DEF Distinct
<1> QED
  BY <1>1, <1>3, <1>4, <1>5 DEF t

-----------------------------------------------------------------------------
(* The invariant.                                                          *)

InLine == {"lined", "working", "delivering", "leaving"}

\* The lane: who is in the line, and that only the first may hold a lease.
LaneInv ==
    /\ Distinct(line)
    /\ \A c \in Commands : stage[c] \in InLine <=> c \in Range(line)
    /\ \A c \in Leases : line # <<>> /\ c = Head(line)

\* Shutdown goes on when the last lease is gone, and none is granted then.
DrainInv ==
    /\ shutdown \in {"drained", "stopping", "done"} => Leases = {}
    /\ shutdown # "none" => ~ready
    /\ shutdown \in {"stopping", "done"} => queued = 0 /\ (run # "none" => aborted)

CommandInv == TypeOK /\ LaneInv /\ DrainInv

LEMMA RejectedStage ==
    ASSUME TypeOK
    PROVE  /\ RejectSteers \in [Commands -> Stages]
           /\ \A c \in Commands :
                 /\ RejectSteers[c] \in InLine <=> stage[c] \in InLine
                 /\ RejectSteers[c] \in {"working", "delivering", "leaving"} <=> HoldsLease(c)
  BY DEF TypeOK, RejectSteers, Stages, InLine, HoldsLease

LEMMA InitCommandInv == Init => CommandInv
<1> SUFFICES ASSUME Init PROVE CommandInv
  OBVIOUS
<1>1. <<>> \in Seq(Commands) /\ Len(<<>>) = 0 /\ Range(<<>>) = {}
  BY EmptySeq, InRange
<1>2. TypeOK
  BY <1>1 DEF Init, TypeOK, Kinds, Stages
<1>3. LaneInv
  BY <1>1 DEF Init, LaneInv, Distinct, InLine, Leases, HoldsLease
<1>4. DrainInv
  BY DEF Init, DrainInv
<1> QED
  BY <1>2, <1>3, <1>4 DEF CommandInv

\* The open steers of the lane: at most the one of the first command.
LEMMA OneOpenSteer ==
    ASSUME TypeOK, LaneInv
    PROVE  Cardinality({c \in Commands : stage[c] = "delivering"}) \in Nat
<1> DEFINE open == {c \in Commands : stage[c] = "delivering"}
<1>1. open \subseteq {Head(line)}
  BY DEF LaneInv, Leases, HoldsLease
<1>2. IsFiniteSet(open)
  BY <1>1, FS_Singleton, FS_Subset
<1> QED
  BY <1>2, FS_CardinalityType

\* A step that changes neither the line nor who is in it or holds a lease.
LEMMA SameLane ==
    ASSUME LaneInv, line' = line,
           \A c \in Commands : stage'[c] \in InLine <=> stage[c] \in InLine,
           Leases' \subseteq Leases
    PROVE  LaneInv'
  BY DEF LaneInv

LEMMA FirstLeaves ==
    ASSUME TypeOK, LaneInv, NEW c \in Commands, line # <<>>, c = Head(line),
           line' = Tail(line), stage' = [stage EXCEPT ![c] = "done"]
    PROVE  line' \in Seq(Commands) /\ LaneInv'
<1>1. /\ Tail(line) \in Seq(Commands)
      /\ Range(line) = Range(Tail(line)) \cup {c}
      /\ Distinct(Tail(line)) /\ c \notin Range(Tail(line))
  BY TailLemma DEF TypeOK, LaneInv
<1>2. \A d \in Commands : stage'[d] \in InLine <=> d \in Range(line')
  BY <1>1 DEF LaneInv, InLine, TypeOK
<1>3. Leases' = {}
  BY DEF LaneInv, Leases, HoldsLease, TypeOK
<1>4. Distinct(line')
  BY <1>1
<1> QED
  BY <1>1, <1>2, <1>3, <1>4 DEF LaneInv

-----------------------------------------------------------------------------
LEMMA CommandSteps ==
    ASSUME CommandInv,
           NEW c \in Commands, NEW k \in Kinds,
           Send(c, k) \/ CommandStep(c) \/ Deliver(c)
    PROVE  CommandInv'
<1> USE DEF CommandInv
<1>1. CASE Send(c, k)
  <2>1. c \notin Range(line) /\ c \notin Leases
    BY <1>1 DEF Send, LaneInv, InLine, Leases, HoldsLease
  <2>2. /\ line' \in Seq(Commands) /\ line' # <<>> /\ Distinct(line')
        /\ Range(line') = Range(line) \cup {c}
    BY <1>1, <2>1, AppendLemma DEF Send, TypeOK, LaneInv
  <2>3. line # <<>> => Head(line') = Head(line)
    BY <1>1 DEF Send, TypeOK
  <2>4. TypeOK'
    BY <1>1, <2>2 DEF TypeOK, Send, runVars, Stages
  <2>5. Leases' = Leases
    BY <1>1, <2>1 DEF Send, Leases, HoldsLease, TypeOK
  <2>6. \A d \in Commands : stage'[d] \in InLine <=> d \in Range(line')
    BY <1>1, <2>2 DEF Send, LaneInv, InLine, TypeOK
  <2>7. LaneInv'
    BY <2>2, <2>3, <2>5, <2>6 DEF LaneInv
  <2>8. DrainInv'
    BY <1>1, <2>5 DEF Send, DrainInv, runVars
  <2> QED
    BY <2>4, <2>7, <2>8
<1>2. CASE Begin(c)
  <2>1. TypeOK'
    BY <1>2 DEF TypeOK, Begin, runVars, Stages
  <2>2. Leases = {}
    BY <1>2 DEF Begin, LaneInv, Leases, HoldsLease
  <2>3. Leases' = {c}
    BY <1>2, <2>2 DEF Begin, Leases, HoldsLease, TypeOK
  <2>4. \A d \in Commands : stage'[d] \in InLine <=> stage[d] \in InLine
    BY <1>2 DEF Begin, TypeOK, InLine
  <2>5. LaneInv'
    BY <1>2, <2>3, <2>4 DEF Begin, LaneInv
  <2>6. DrainInv'
    BY <1>2 DEF Begin, DrainInv, runVars
  <2> QED
    BY <2>1, <2>5, <2>6
<1>3. CASE Refuse(c)
  <2>1. line' \in Seq(Commands) /\ LaneInv'
    BY <1>3, FirstLeaves DEF Refuse
  <2>2. TypeOK'
    BY <1>3, <2>1 DEF TypeOK, Refuse, runVars, Stages
  <2>3. Leases' \subseteq Leases
    BY <1>3 DEF Refuse, Leases, HoldsLease, TypeOK
  <2>4. DrainInv'
    BY <1>3, <2>3 DEF Refuse, DrainInv, runVars
  <2> QED
    BY <2>1, <2>2, <2>4
<1>4. CASE Leave(c)
  <2>1. c = Head(line) /\ line # <<>>
    BY <1>4 DEF Leave, LaneInv, Leases, HoldsLease
  <2>2. line' \in Seq(Commands) /\ LaneInv'
    BY <1>4, <2>1, FirstLeaves DEF Leave
  <2>3. TypeOK'
    BY <1>4, <2>2 DEF TypeOK, Leave, Wake, runVars, Stages
  <2>4. Leases' \subseteq Leases
    BY <1>4 DEF Leave, Leases, HoldsLease, TypeOK
  <2>5. shutdown' # shutdown => shutdown = "waiting" /\ shutdown' = "drained" /\ Leases' = {}
    BY <1>4 DEF Leave, Wake, Leases, HoldsLease
  <2>6. DrainInv'
    BY <1>4, <2>4, <2>5 DEF Leave, DrainInv, runVars
  <2> QED
    BY <2>2, <2>3, <2>6
<1>5. ASSUME stage[c] = "working" \/ stage[c] = "delivering",
             stage' = [stage EXCEPT ![c] = "leaving"] \/ stage' = [stage EXCEPT ![c] = "delivering"],
             line' = line
      PROVE  LaneInv' /\ Leases' = Leases
  <2>1. Leases' = Leases
    BY <1>5 DEF Leases, HoldsLease, TypeOK
  <2>2. \A d \in Commands : stage'[d] \in InLine <=> stage[d] \in InLine
    BY <1>5 DEF TypeOK, InLine
  <2> QED
    BY <1>5, <2>1, <2>2, SameLane
<1>6. CASE DoPrompt(c)
  <2>1. LaneInv' /\ Leases' = Leases
    BY <1>5, <1>6 DEF DoPrompt
  <2>2. TypeOK'
    BY <1>6 DEF TypeOK, DoPrompt, AddRun, Stages
  <2>3. c \in Leases
    BY <1>6 DEF DoPrompt, Leases, HoldsLease
  <2>4. DrainInv'
    BY <1>6, <2>1, <2>3 DEF DrainInv, DoPrompt
  <2> QED
    BY <2>1, <2>2, <2>4
<1>7. CASE DoSteer(c) \/ Deliver(c)
  <2>1. LaneInv' /\ Leases' = Leases
    BY <1>5, <1>7 DEF DoSteer, Deliver
  <2>2. TypeOK'
    BY <1>7 DEF TypeOK, DoSteer, Deliver, runVars, Stages
  <2>3. DrainInv'
    BY <1>7, <2>1 DEF DrainInv, DoSteer, Deliver, runVars
  <2> QED
    BY <2>1, <2>2, <2>3
<1>8. CASE DoInterrupt(c)
  <2>1. TypeOK'
    BY <1>8, RejectedStage DEF TypeOK, DoInterrupt, Stages
  <2>2. /\ Leases' = Leases
        /\ \A d \in Commands : stage'[d] \in InLine <=> stage[d] \in InLine
    BY <1>8, RejectedStage DEF DoInterrupt, Leases, HoldsLease, InLine
  <2>3. LaneInv'
    BY <1>8, <2>2, SameLane DEF DoInterrupt
  <2>4. DrainInv'
    BY <1>8, <2>2 DEF DrainInv, DoInterrupt
  <2> QED
    BY <2>1, <2>3, <2>4
<1> QED
  BY <1>1, <1>2, <1>3, <1>4, <1>6, <1>7, <1>8 DEF CommandStep

\* The steps of the run and of shutdown leave the line and the leases alone.
LEMMA LaneUntouched ==
    ASSUME CommandInv, line' = line, stage' = stage \/ stage' = RejectSteers
    PROVE  LaneInv' /\ Leases' = Leases /\ stage' \in [Commands -> Stages]
<1>1. /\ Leases' = Leases
      /\ \A d \in Commands : stage'[d] \in InLine <=> stage[d] \in InLine
      /\ stage' \in [Commands -> Stages]
  BY RejectedStage DEF CommandInv, TypeOK, Leases, HoldsLease
<1> QED
  BY <1>1, SameLane DEF CommandInv

LEMMA RunSteps ==
    ASSUME CommandInv, Ask \/ Reply \/ Expire \/ RunEnds
    PROVE  CommandInv'
<1>1. LaneInv' /\ Leases' = Leases /\ stage' \in [Commands -> Stages]
  BY LaneUntouched DEF Ask, Reply, Expire, RunEnds
<1>2. CASE Ask \/ Reply \/ Expire
  <2>1. TypeOK'
    BY <1>1, <1>2 DEF CommandInv, TypeOK, Ask, Reply, Expire
  <2>2. DrainInv'
    BY <1>1, <1>2 DEF CommandInv, DrainInv, Ask, Reply, Expire
  <2> QED
    BY <1>1, <2>1, <2>2 DEF CommandInv
<1>3. CASE RunEnds
  <2> DEFINE replaced == IF aborted THEN 0
                         ELSE Cardinality({c \in Commands : stage[c] = "delivering"})
             next == queued + replaced
  <2>0. Cardinality({c \in Commands : stage[c] = "delivering"}) \in Nat
    BY OneOpenSteer DEF CommandInv
  <2>1. replaced \in Nat /\ next \in Nat
    <3>1. replaced \in Nat
      BY <2>0
    <3> QED
      BY <3>1 DEF CommandInv, TypeOK
  <2>2. /\ run' = IF next > 0 THEN "running" ELSE "none"
        /\ queued' = IF next > 0 THEN next - 1 ELSE 0
        /\ aborted' = FALSE
        /\ UNCHANGED <<kind, line, ready, shutdown>>
    BY <1>3 DEF RunEnds
  <2>3. TypeOK'
    <3>1. run' \in {"none", "running", "asking"} /\ queued' \in Nat
      BY <2>1, <2>2
    <3>2. aborted' \in BOOLEAN
      BY <2>2
    <3> QED
      BY <1>1, <2>2, <3>1, <3>2 DEF CommandInv, TypeOK
  <2>4. shutdown \in {"stopping", "done"} => next = 0
    BY <1>3, <2>1 DEF CommandInv, DrainInv, RunEnds
  <2>5. DrainInv'
    BY <1>1, <2>1, <2>2, <2>4 DEF CommandInv, DrainInv
  <2> QED
    BY <1>1, <2>3, <2>5 DEF CommandInv
<1> QED
  BY <1>2, <1>3

LEMMA ShutdownSteps ==
    ASSUME CommandInv, Close \/ BeginShutdown \/ StopRuns \/ MarkClosed
    PROVE  CommandInv'
<1>1. LaneInv' /\ Leases' = Leases /\ stage' \in [Commands -> Stages]
  BY LaneUntouched DEF Close, BeginShutdown, StopRuns, MarkClosed
<1>2. CASE Close
  <2>1. TypeOK'
    BY <1>1, <1>2 DEF CommandInv, TypeOK, Close, runVars
  <2>2. DrainInv'
    BY <1>1, <1>2 DEF CommandInv, DrainInv, Close, runVars
  <2> QED
    BY <1>1, <2>1, <2>2 DEF CommandInv
<1>3. CASE BeginShutdown
  <2>1. TypeOK'
    BY <1>1, <1>3 DEF CommandInv, TypeOK, BeginShutdown, runVars
  <2>2. DrainInv'
    BY <1>1, <1>3 DEF CommandInv, DrainInv, BeginShutdown, runVars
  <2> QED
    BY <1>1, <2>1, <2>2 DEF CommandInv
<1>4. CASE StopRuns
  <2>1. aborted' = (run # "none") /\ run' = run
    BY <1>4 DEF StopRuns
  <2>2. aborted' \in BOOLEAN /\ (run' # "none" => aborted')
    BY <2>1
  <2>3. TypeOK'
    BY <1>1, <1>4, <2>2 DEF CommandInv, TypeOK, StopRuns
  <2>4. DrainInv'
    BY <1>1, <1>4, <2>2 DEF CommandInv, DrainInv, StopRuns
  <2> QED
    BY <1>1, <2>3, <2>4 DEF CommandInv
<1>5. CASE MarkClosed
  <2>1. TypeOK'
    BY <1>1, <1>5 DEF CommandInv, TypeOK, MarkClosed, runVars
  <2>2. DrainInv'
    BY <1>1, <1>5 DEF CommandInv, DrainInv, MarkClosed, runVars
  <2> QED
    BY <1>1, <2>1, <2>2 DEF CommandInv
<1> QED
  BY <1>2, <1>3, <1>4, <1>5

LEMMA NextCommandInv == CommandInv /\ [Next]_vars => CommandInv'
<1> SUFFICES ASSUME CommandInv, [Next]_vars PROVE CommandInv'
  OBVIOUS
<1>1. CASE \E c \in Commands, k \in Kinds : Send(c, k)
  BY <1>1, CommandSteps
<1>2. CASE \E c \in Commands : CommandStep(c) \/ Deliver(c)
  BY <1>2, CommandSteps, "prompt" \in Kinds DEF Kinds
<1>3. CASE Ask \/ Reply \/ Expire \/ RunEnds
  BY <1>3, RunSteps
<1>4. CASE Close \/ BeginShutdown \/ StopRuns \/ MarkClosed
  BY <1>4, ShutdownSteps
<1>5. CASE UNCHANGED vars
  <2>1. TypeOK' /\ Leases' = Leases
    BY <1>5 DEF vars, runVars, CommandInv, TypeOK, Leases, HoldsLease
  <2>2. LaneInv' /\ DrainInv'
    BY <1>5, <2>1 DEF vars, runVars, CommandInv, LaneInv, DrainInv
  <2> QED
    BY <2>1, <2>2 DEF CommandInv
<1> QED
  BY <1>1, <1>2, <1>3, <1>4, <1>5 DEF Next

LEMMA CommandInvariant == Spec => []CommandInv
  BY InitCommandInv, NextCommandInv, PTL DEF Spec

\* Every variable keeps its type.  That the number of queued runs does needs
\* the lane: a run that ends is followed by at most one refused steer.
THEOREM TypeCorrect == Spec => []TypeOK
  BY CommandInvariant, PTL DEF CommandInv

\* While a steer waits for its delivery no other command of the session works,
\* whatever is sent, interrupted or shut down: what RunLane's Serialized assumes.
THEOREM SteerWorksAlone == Spec => []SteersWorkAlone
<1>1. LaneInv => SteersWorkAlone
  BY DEF LaneInv, SteersWorkAlone, Leases, HoldsLease
<1> QED
  BY <1>1, CommandInvariant, PTL DEF CommandInv

\* Once shutdown has stopped the runs, nothing is queued, what is active has
\* been aborted and no command works: no run starts any more.
THEOREM StoppedForGood == Spec => []NothingStartsAfterStop
<1>1. DrainInv => NothingStartsAfterStop
  BY DEF DrainInv, NothingStartsAfterStop
<1> QED
  BY <1>1, CommandInvariant, PTL DEF CommandInv

-----------------------------------------------------------------------------
(* The refinement: what each step is to the gate.                          *)

Record(c) == [token |-> c, session |-> Session]
Records(cs) == {Record(c) : c \in cs}

LEMMA RecordsOf ==
    ASSUME NEW cs, NEW c
    PROVE  /\ Records(cs) = {[token |-> d, session |-> Session] : d \in cs}
           /\ c \in cs <=> c \in {r.token : r \in Records(cs)}
           /\ Records(cs \ {c}) = {r \in Records(cs) : r.token # c}
           /\ Records(cs) = {} <=> cs = {}
<1>1. \A d : Record(d).token = d
  BY DEF Record
<1>2. /\ Records(cs) = {[token |-> d, session |-> Session] : d \in cs}
      /\ Records(cs) = {} <=> cs = {}
  BY DEF Records, Record
<1>3. c \in cs <=> c \in {r.token : r \in Records(cs)}
  BY <1>1 DEF Records
<1>4. Records(cs \ {c}) = {r \in Records(cs) : r.token # c}
  BY <1>1 DEF Records
<1> QED
  BY <1>2, <1>3, <1>4

LEMMA GateInit == Init => Gate!Init
  BY DEF Init, Gate!Init, busy, Leases, HoldsLease

\* A step that changes neither leases nor whether there is a run nor shutdown.
LEMMA GateStutters ==
    ASSUME Leases' = Leases, (run' = "none") <=> (run = "none"), shutdown' = shutdown
    PROVE  UNCHANGED Gate!vars
  BY DEF Gate!vars, busy

LEMMA GateEnters ==
    ASSUME CommandInv, NEW c \in Commands, Begin(c)
    PROVE  Gate!Enter(c, Session)
<1>1. c \notin Leases /\ Leases' = Leases \cup {c}
  BY DEF Begin, Leases, HoldsLease, CommandInv, TypeOK
<1>2. ~Gate!Held(c)
  BY <1>1 DEF Gate!Held
<1>3. UNCHANGED <<run, shutdown>>
  BY DEF Begin, runVars
<1>4. shutdown = "none"
  BY DEF Begin
<1> QED
  BY <1>1, <1>2, <1>3, <1>4 DEF Gate!Enter, busy

LEMMA GateReleases ==
    ASSUME CommandInv, NEW c \in Commands, Leave(c)
    PROVE  Gate!Release(c)
<1>1. c \in Leases /\ Leases' = Leases \ {c}
  BY DEF Leave, Leases, HoldsLease, CommandInv, TypeOK
<1>2. Gate!Held(c)
  BY <1>1, RecordsOf DEF Gate!Held
<1>3. shutdown' = IF shutdown = "waiting" /\ Leases' = {} THEN "drained" ELSE shutdown
  BY DEF Leave, Wake, Leases, HoldsLease
<1>4. run' = run
  BY DEF Leave, runVars
<1>5. Gate!Wake
  BY <1>3, RecordsOf DEF Gate!Wake
<1>6. Records(Leases)' = {r \in Records(Leases) : r.token # c}
  BY <1>1, RecordsOf DEF Records
<1>7. /\ Records(Leases) = {[token |-> d, session |-> Session] : d \in Leases}
      /\ Records(Leases)' = {[token |-> d, session |-> Session] : d \in Leases}'
  BY DEF Records, Record
<1>8. /\ (shutdown = "none") <=> (shutdown' = "none")
      /\ (shutdown = "stopping") <=> (shutdown' = "stopping")
      /\ (shutdown = "done") <=> (shutdown' = "done")
  BY <1>3
<1> QED
  BY <1>2, <1>4, <1>5, <1>6, <1>7, <1>8 DEF Gate!Release, busy

\* A prompt, or a steer without a run to take it, starts one under its lease.
LEMMA GateRunStarts ==
    ASSUME CommandInv, NEW c \in Commands, DoPrompt(c), run = "none"
    PROVE  Gate!Next
<1>1. Leases' = Leases /\ c \in Leases
  BY DEF DoPrompt, Leases, HoldsLease, CommandInv, TypeOK
<1>2. run' = "running" /\ shutdown' = shutdown
  BY DEF DoPrompt, AddRun
<1>3. Record(c) \in {[token |-> d, session |-> Session] : d \in Leases}
  BY <1>1 DEF Record
<1>4. shutdown # "stopping"
  BY <1>1 DEF CommandInv, DrainInv
<1>5. Gate!RunStarts(Record(c))
  BY <1>1, <1>2, <1>4 DEF Gate!RunStarts, Record, busy
<1> QED
  BY <1>3, <1>5 DEF Gate!Next

\* The lane falls idle.
LEMMA GateRunEnds ==
    ASSUME CommandInv, RunEnds, run' = "none"
    PROVE  Gate!RunEnds(Session)
<1>1. Leases' = Leases
  BY LaneUntouched DEF RunEnds
<1>2. run # "none" /\ shutdown' = shutdown
  BY DEF RunEnds
<1> QED
  BY <1>1, <1>2 DEF Gate!RunEnds, busy

LEMMA GateShutdown ==
    ASSUME CommandInv
    PROVE  /\ BeginShutdown => Gate!BeginShutdown
           /\ StopRuns => Gate!StopRuns
           /\ MarkClosed => Gate!MarkClosed
<1>1. CASE BeginShutdown
  <2>1. Leases' = Leases /\ run' = run
    BY <1>1, LaneUntouched DEF BeginShutdown, runVars
  <2>2. Leases = {} <=> {[token |-> d, session |-> Session] : d \in Leases} = {}
    BY RecordsOf
  <2>3. Gate!BeginShutdown
    BY <1>1, <2>1, <2>2 DEF BeginShutdown, Gate!BeginShutdown, busy
  <2> QED
    BY <1>1, <2>3 DEF BeginShutdown, StopRuns, MarkClosed
<1>2. CASE StopRuns
  <2>1. Leases' = Leases /\ run' = run
    BY <1>2, LaneUntouched DEF StopRuns
  <2>2. Gate!StopRuns
    BY <1>2, <2>1 DEF StopRuns, Gate!StopRuns, busy
  <2> QED
    BY <1>2, <2>2 DEF BeginShutdown, StopRuns, MarkClosed
<1>3. CASE MarkClosed
  <2>1. Leases' = Leases /\ run' = run
    BY <1>3, LaneUntouched DEF MarkClosed, runVars
  <2>2. Gate!MarkClosed
    BY <1>3, <2>1 DEF MarkClosed, Gate!MarkClosed, busy
  <2> QED
    BY <1>3, <2>2 DEF BeginShutdown, StopRuns, MarkClosed
<1> QED
  BY <1>1, <1>2, <1>3

LEMMA GateStep == CommandInv /\ [Next]_vars => [Gate!Next]_Gate!vars
<1> SUFFICES ASSUME CommandInv, [Next]_vars PROVE [Gate!Next]_Gate!vars
  OBVIOUS
<1>1. ASSUME NEW c \in Commands, NEW k \in Kinds, Send(c, k)
      PROVE  UNCHANGED Gate!vars
  <2>1. Leases' = Leases
    BY <1>1 DEF Send, Leases, HoldsLease, CommandInv, TypeOK
  <2> QED
    BY <1>1, <2>1, GateStutters DEF Send, runVars
<1>2. ASSUME NEW c \in Commands, CommandStep(c) \/ Deliver(c)
      PROVE  [Gate!Next]_Gate!vars
  <2>1. CASE Begin(c)
    BY <2>1, GateEnters DEF Gate!Next
  <2>2. CASE Leave(c)
    BY <2>2, GateReleases DEF Gate!Next
  <2>3. CASE DoPrompt(c)
    <3>1. CASE run = "none"
      BY <2>3, <3>1, GateRunStarts
    <3>2. CASE run # "none"
      <4>1. Leases' = Leases
        BY <2>3 DEF DoPrompt, Leases, HoldsLease, CommandInv, TypeOK
      <4> QED
        BY <2>3, <3>2, <4>1, GateStutters DEF DoPrompt, AddRun
    <3> QED
      BY <3>1, <3>2
  <2>4. CASE Refuse(c) \/ DoSteer(c) \/ Deliver(c)
    <3>1. Leases' = Leases
      BY <2>4 DEF Refuse, DoSteer, Deliver, Leases, HoldsLease, CommandInv, TypeOK
    <3> QED
      BY <2>4, <3>1, GateStutters DEF Refuse, DoSteer, Deliver, runVars
  <2>5. CASE DoInterrupt(c)
    <3>1. Leases' = Leases
      BY <2>5, RejectedStage DEF DoInterrupt, Leases, HoldsLease, CommandInv
    <3> QED
      BY <2>5, <3>1, GateStutters DEF DoInterrupt
  <2> QED
    BY <1>2, <2>1, <2>2, <2>3, <2>4, <2>5 DEF CommandStep
<1>3. CASE Ask \/ Reply \/ Expire \/ Close
  <2>1. Leases' = Leases
    BY <1>3, LaneUntouched DEF Ask, Reply, Expire, Close
  <2> QED
    BY <1>3, <2>1, GateStutters DEF Ask, Reply, Expire, Close, runVars
<1>4. CASE RunEnds
  <2>1. CASE run' = "none"
    BY <1>4, <2>1, GateRunEnds, Session \in {Session} DEF Gate!Next
  <2>2. CASE run' # "none"
    <3>1. Leases' = Leases
      BY <1>4, LaneUntouched DEF RunEnds
    <3> QED
      BY <1>4, <2>2, <3>1, GateStutters DEF RunEnds
  <2> QED
    BY <2>1, <2>2
<1>5. CASE BeginShutdown \/ StopRuns \/ MarkClosed
  BY <1>5, GateShutdown DEF Gate!Next
<1>6. CASE UNCHANGED vars
  BY <1>6, GateStutters DEF vars, runVars, Leases, HoldsLease
<1> QED
  BY <1>1, <1>2, <1>3, <1>4, <1>5, <1>6 DEF Next

\* The command lane uses the gate as OperationGate allows: every command enters
\* it before it works, starts runs under its lease only, leaves it afterwards,
\* and shutdown takes its steps in the gate's order.
THEOREM UsesGate == Spec => ImplementsGate
<1>1. Gate!Spec <=> Gate!Init /\ [][Gate!Next]_Gate!vars
  BY DEF Gate!Spec
<1> QED
  BY <1>1, GateInit, GateStep, CommandInvariant, PTL DEF Spec, ImplementsGate

=============================================================================
