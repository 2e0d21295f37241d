----------------------------- MODULE RunLaneProofs -----------------------------
(***************************************************************************)
(* Proofs about RunLane for every set of inputs, with and without          *)
(* serialised commands.                                                    *)
(*                                                                         *)
(* First what the edits of a queue leave in it.  Then LaneInv, which is    *)
(* inductive: the lane keeps its tasks (LaneOK), and the active task its   *)
(* steer requests (RequestsOK).  On it rests that what the lane tells the  *)
(* callers of steer and promoteQueuedRun is true, and that no task is      *)
(* aborted while it waits.  Last what needs serialised commands: the order *)
(* of the queue, what an interrupt stops, and what a steer delivers.       *)
(***************************************************************************)
EXTENDS RunLane, SequenceTheorems, TLAPS

-----------------------------------------------------------------------------
(* Sequences without repetition, and the four ways in which a lane edits   *)
(* its queue and its list of steer requests: append, drop the first, take  *)
(* one out, put one in.  Each lemma says what the edit leaves in the range *)
(* of the sequence and that it repeats nothing.                            *)

Distinct(s) == \A j, k \in 1..Len(s) : s[j] = s[k] => j = k

Without(s, k) == SubSeq(s, 1, k - 1) \o SubSeq(s, k + 1, Len(s))

With(s, at, e) == SubSeq(s, 1, at) \o <<e>> \o SubSeq(s, at + 1, Len(s))

\* Membership in the range of a sequence, by position.
LEMMA InRange ==
    ASSUME NEW S, NEW s \in Seq(S)
    PROVE  /\ Range(s) \subseteq S
           /\ \A k \in 1..Len(s) : s[k] \in Range(s)
           /\ \A e \in Range(s) : \E k \in 1..Len(s) : s[k] = e
           /\ Range(s) = {} <=> s = <<>>
  BY RangeEquality, RangeOfSeq, EmptySeq, LenProperties

\* Append adds its element and nothing else.
LEMMA AppendLemma ==
    ASSUME NEW S, NEW s \in Seq(S), NEW e \in S
    PROVE  /\ Append(s, e) \in Seq(S)
           /\ Append(s, e) # <<>>
           /\ Range(Append(s, e)) = Range(s) \cup {e}
           /\ Distinct(s) /\ e \notin Range(s) => Distinct(Append(s, e))
<1> DEFINE t == Append(s, e)
<1>1. /\ t \in Seq(S) /\ t # <<>> /\ Len(t) = Len(s) + 1 /\ t[Len(s) + 1] = e
      /\ \A i \in 1..Len(s) : t[i] = s[i]
      /\ Len(s) \in Nat
  BY AppendProperties, LenProperties
<1> HIDE DEF t
<1>2. Range(t) = {t[i] : i \in 1..Len(t)} /\ Range(s) = {s[i] : i \in 1..Len(s)}
  BY <1>1, RangeEquality
<1>3. Range(t) = Range(s) \cup {e}
  BY <1>1, <1>2
<1>4. ASSUME Distinct(s), e \notin Range(s) PROVE Distinct(t)
  BY <1>1, <1>2, <1>4 DEF Distinct
<1> QED
  BY <1>1, <1>3, <1>4 DEF t

\* Tail drops the head and nothing else.
LEMMA TailLemma ==
    ASSUME NEW S, NEW s \in Seq(S), s # <<>>
    PROVE  /\ Head(s) \in S
           /\ Tail(s) \in Seq(S)
           /\ Range(s) = Range(Tail(s)) \cup {Head(s)}
           /\ Distinct(s) => Distinct(Tail(s)) /\ Head(s) \notin Range(Tail(s))
<1> DEFINE t == Tail(s)
<1>1. /\ t \in Seq(S) /\ Len(t) = Len(s) - 1 /\ Head(s) = s[1] /\ Head(s) \in S
      /\ \A i \in 1..Len(t) : t[i] = s[i + 1]
      /\ Len(s) \in Nat /\ Len(s) > 0
  BY HeadTailProperties, LenProperties, EmptySeq
<1> HIDE DEF t
<1>2. Range(t) = {t[i] : i \in 1..Len(t)} /\ Range(s) = {s[i] : i \in 1..Len(s)}
  BY <1>1, RangeEquality
<1>3. Range(s) \subseteq Range(t) \cup {Head(s)}
  <2> SUFFICES ASSUME NEW i \in 1..Len(s), i # 1 PROVE s[i] \in Range(t)
    BY <1>1, <1>2
  <2>1. i - 1 \in 1..Len(t) /\ t[i - 1] = s[i]
    BY <1>1
  <2> QED
    BY <2>1, <1>2
<1>4. Range(t) \cup {Head(s)} \subseteq Range(s)
  BY <1>1, <1>2
<1>5. ASSUME Distinct(s) PROVE Distinct(t) /\ Head(s) \notin Range(t)
  BY <1>1, <1>2, <1>5 DEF Distinct
<1> QED
  BY <1>1, <1>3, <1>4, <1>5 DEF t

\* Taking position k out of a sequence removes what stands there.
LEMMA WithoutLemma ==
    ASSUME NEW S, NEW s \in Seq(S), NEW k \in 1..Len(s)
    PROVE  /\ Without(s, k) \in Seq(S) /\ Len(Without(s, k)) = Len(s) - 1
           /\ \A i \in 1..Len(Without(s, k)) :
                 Without(s, k)[i] = IF i < k THEN s[i] ELSE s[i + 1]
           /\ Range(s) = Range(Without(s, k)) \cup {s[k]}
           /\ Distinct(s) => Distinct(Without(s, k)) /\ s[k] \notin Range(Without(s, k))
<1> DEFINE t == Without(s, k)
           a == SubSeq(s, 1, k - 1)
           b == SubSeq(s, k + 1, Len(s))
<1>0. Len(s) \in Nat /\ \A i \in 1..Len(s) : s[i] \in S
  BY LenProperties, ElementOfSeq
<1>1. /\ a \in Seq(S) /\ Len(a) = k - 1
      /\ \A i \in 1..k - 1 : a[i] = s[i]
  BY <1>0, SubSeqProperties
<1>2. /\ b \in Seq(S) /\ Len(b) = Len(s) - k
      /\ \A i \in 1..Len(s) - k : b[i] = s[i + k]
  BY <1>0, SubSeqProperties
<1> HIDE DEF a, b
<1>3. t = a \o b
  BY DEF Without, a, b
<1>4. /\ t \in Seq(S) /\ Len(t) = Len(s) - 1
      /\ \A i \in 1..Len(t) : t[i] = IF i <= k - 1 THEN a[i] ELSE b[i - (k - 1)]
  <2>1. /\ a \o b \in Seq(S)
        /\ Len(a \o b) = Len(a) + Len(b)
        /\ \A i \in 1..Len(a) + Len(b) :
               (a \o b)[i] = IF i <= Len(a) THEN a[i] ELSE b[i - Len(a)]
    BY <1>1, <1>2, ConcatProperties
  <2> HIDE DEF t
  <2>2. Len(a) + Len(b) = Len(s) - 1
    BY <1>0, <1>1, <1>2
  <2> QED
    BY <2>1, <2>2, <1>1, <1>3
<1> HIDE DEF t
<1>5. \A i \in 1..Len(t) : t[i] = IF i < k THEN s[i] ELSE s[i + 1]
  <2> SUFFICES ASSUME NEW i \in 1..Len(t)
               PROVE t[i] = IF i < k THEN s[i] ELSE s[i + 1]
    OBVIOUS
  <2>1. CASE i < k
    BY <2>1, <1>0, <1>1, <1>4
  <2>2. CASE i >= k
    <3>1. i - (k - 1) \in 1..Len(s) - k /\ i - (k - 1) + k = i + 1
      BY <2>2, <1>0, <1>4
    <3> QED
      BY <3>1, <2>2, <1>0, <1>2, <1>4
  <2> QED
    BY <2>1, <2>2, <1>0, <1>4
<1>6. Range(t) = {t[i] : i \in 1..Len(t)} /\ Range(s) = {s[i] : i \in 1..Len(s)}
  BY <1>4, RangeEquality
<1>7. Range(t) \cup {s[k]} \subseteq Range(s)
  BY <1>0, <1>4, <1>5, <1>6
<1>8. Range(s) \subseteq Range(t) \cup {s[k]}
  <2> SUFFICES ASSUME NEW i \in 1..Len(s), i # k PROVE s[i] \in Range(t)
    BY <1>6
  <2>1. CASE i < k
    <3>1. i \in 1..Len(t) /\ t[i] = s[i]
      BY <2>1, <1>0, <1>4, <1>5
    <3> QED
      BY <3>1, <1>6
  <2>2. CASE i > k
    <3>1. i - 1 \in 1..Len(t) /\ t[i - 1] = s[i]
      BY <2>2, <1>0, <1>4, <1>5
    <3> QED
      BY <3>1, <1>6
  <2> QED
    BY <2>1, <2>2, <1>0
<1>9. ASSUME Distinct(s) PROVE Distinct(t)
  <2> SUFFICES ASSUME NEW i \in 1..Len(t), NEW j \in 1..Len(t), t[i] = t[j]
               PROVE i = j
    BY DEF Distinct
  <2> DEFINE p == IF i < k THEN i ELSE i + 1
             q == IF j < k THEN j ELSE j + 1
  <2>1. p \in 1..Len(s) /\ q \in 1..Len(s) /\ s[p] = t[i] /\ s[q] = t[j]
    BY <1>0, <1>4, <1>5
  <2>2. p = q
    BY <2>1, <1>9 DEF Distinct
  <2> QED
    BY <2>2, <1>0, <1>4
<1>10. ASSUME Distinct(s) PROVE s[k] \notin Range(t)
  <2> SUFFICES ASSUME NEW i \in 1..Len(t), t[i] = s[k] PROVE FALSE
    BY <1>6
  <2> DEFINE p == IF i < k THEN i ELSE i + 1
  <2>1. p \in 1..Len(s) /\ s[p] = s[k] /\ p # k
    BY <1>0, <1>4, <1>5
  <2> QED
    BY <2>1, <1>10 DEF Distinct
<1> QED
  BY <1>4, <1>5, <1>7, <1>8, <1>9, <1>10 DEF t

\* Putting e behind position "at" adds it and nothing else.
LEMMA WithLemma ==
    ASSUME NEW S, NEW s \in Seq(S), NEW at \in 0..Len(s), NEW e \in S
    PROVE  /\ With(s, at, e) \in Seq(S) /\ Len(With(s, at, e)) = Len(s) + 1
           /\ \A i \in 1..Len(With(s, at, e)) :
                 With(s, at, e)[i] = IF i <= at THEN s[i]
                                     ELSE IF i = at + 1 THEN e ELSE s[i - 1]
           /\ With(s, at, e) # <<>>
           /\ Range(With(s, at, e)) = Range(s) \cup {e}
           /\ Distinct(s) /\ e \notin Range(s) => Distinct(With(s, at, e))
<1> DEFINE t == With(s, at, e)
           a == SubSeq(s, 1, at)
           b == SubSeq(s, at + 1, Len(s))
<1>0. Len(s) \in Nat /\ \A i \in 1..Len(s) : s[i] \in S
  BY LenProperties, ElementOfSeq
<1>1. a \in Seq(S) /\ Len(a) = at /\ \A i \in 1..at : a[i] = s[i]
  BY <1>0, SubSeqProperties
<1>2. /\ b \in Seq(S) /\ Len(b) = Len(s) - at
      /\ \A i \in 1..Len(s) - at : b[i] = s[i + at]
  BY <1>0, SubSeqProperties
<1>3. <<e>> \in Seq(S) /\ Len(<<e>>) = 1 /\ <<e>>[1] = e
  OBVIOUS
<1> HIDE DEF a, b
<1> DEFINE c == a \o <<e>>
<1>4. /\ c \in Seq(S) /\ Len(c) = at + 1
      /\ \A i \in 1..at + 1 : c[i] = IF i <= at THEN a[i] ELSE <<e>>[i - at]
  BY <1>1, <1>3, ConcatProperties
<1>5. \A i \in 1..at + 1 : c[i] = IF i <= at THEN s[i] ELSE e
  BY <1>1, <1>3, <1>4
<1> HIDE DEF c
<1>6. t = c \o b
  BY DEF With, a, b, c
<1>7. /\ t \in Seq(S) /\ Len(t) = Len(s) + 1
      /\ \A i \in 1..Len(t) : t[i] = IF i <= at + 1 THEN c[i] ELSE b[i - (at + 1)]
  <2>1. /\ c \o b \in Seq(S)
        /\ Len(c \o b) = Len(c) + Len(b)
        /\ \A i \in 1..Len(c) + Len(b) :
               (c \o b)[i] = IF i <= Len(c) THEN c[i] ELSE b[i - Len(c)]
    BY <1>2, <1>4, ConcatProperties
  <2> HIDE DEF t
  <2>2. Len(c) + Len(b) = Len(s) + 1
    BY <1>0, <1>2, <1>4
  <2> QED
    BY <2>1, <2>2, <1>4, <1>6
<1> HIDE DEF t
<1>8. \A i \in 1..Len(t) : t[i] = IF i <= at THEN s[i]
                                  ELSE IF i = at + 1 THEN e ELSE s[i - 1]
  <2> SUFFICES ASSUME NEW i \in 1..Len(t)
               PROVE t[i] = IF i <= at THEN s[i]
                            ELSE IF i = at + 1 THEN e ELSE s[i - 1]
    OBVIOUS
  <2>1. CASE i <= at + 1
    BY <2>1, <1>0, <1>5, <1>7
  <2>2. CASE i > at + 1
    <3>1. i - (at + 1) \in 1..Len(s) - at /\ i - (at + 1) + at = i - 1
      BY <2>2, <1>0, <1>7
    <3> QED
      BY <3>1, <2>2, <1>0, <1>2, <1>7
  <2> QED
    BY <2>1, <2>2, <1>0, <1>7
<1>9. Range(t) = {t[i] : i \in 1..Len(t)} /\ Range(s) = {s[i] : i \in 1..Len(s)}
  BY <1>7, RangeEquality
<1>10. Range(t) \subseteq Range(s) \cup {e}
  <2>1. ASSUME NEW i \in 1..Len(t) PROVE t[i] \in Range(s) \cup {e}
    <3>1. CASE i <= at
      <4>1. i \in 1..Len(s) /\ t[i] = s[i]
        BY <3>1, <1>0, <1>7, <1>8
      <4> QED
        BY <4>1, <1>9
    <3>2. CASE i = at + 1
      BY <3>2, <1>0, <1>8
    <3>3. CASE i > at + 1
      <4>1. i - 1 \in 1..Len(s) /\ t[i] = s[i - 1]
        BY <3>3, <1>0, <1>7, <1>8
      <4> QED
        BY <4>1, <1>9
    <3> QED
      BY <3>1, <3>2, <3>3, <1>0, <1>7
  <2> QED
    BY <2>1, <1>9
<1>11. e \in Range(t)
  <2>1. at + 1 \in 1..Len(t) /\ t[at + 1] = e
    BY <1>0, <1>7, <1>8
  <2> QED
    BY <2>1, <1>9
<1>12. Range(s) \subseteq Range(t)
  <2> SUFFICES ASSUME NEW i \in 1..Len(s) PROVE s[i] \in Range(t)
    BY <1>9
  <2>1. CASE i <= at
    <3>1. i \in 1..Len(t) /\ t[i] = s[i]
      BY <2>1, <1>0, <1>7, <1>8
    <3> QED
      BY <3>1, <1>9
  <2>2. CASE i > at
    <3>1. i + 1 \in 1..Len(t) /\ t[i + 1] = s[i]
      BY <2>2, <1>0, <1>7, <1>8
    <3> QED
      BY <3>1, <1>9
  <2> QED
    BY <2>1, <2>2, <1>0
<1>13. t # <<>>
  BY <1>0, <1>7
<1>14. ASSUME Distinct(s), e \notin Range(s) PROVE Distinct(t)
  <2> SUFFICES ASSUME NEW i \in 1..Len(t), NEW j \in 1..Len(t), t[i] = t[j],
                      i # j
               PROVE FALSE
    BY DEF Distinct
  <2> DEFINE p == IF i <= at THEN i ELSE i - 1
             q == IF j <= at THEN j ELSE j - 1
  <2>1. i # at + 1 => p \in 1..Len(s) /\ s[p] = t[i]
    BY <1>0, <1>7, <1>8
  <2>2. j # at + 1 => q \in 1..Len(s) /\ s[q] = t[j]
    BY <1>0, <1>7, <1>8
  <2>3. t[at + 1] = e
    BY <1>0, <1>7, <1>8
  <2> HIDE DEF p, q
  <2>4. i # at + 1 /\ j # at + 1
    BY <2>1, <2>2, <2>3, <1>9, <1>14
  <2> USE DEF p, q
  <2>5. p # q
    BY <2>4, <1>0, <1>7
  <2> HIDE DEF p, q
  <2> QED
    BY <2>1, <2>2, <2>4, <2>5, <1>14 DEF Distinct
<1> QED
  BY <1>7, <1>8, <1>10, <1>11, <1>12, <1>13, <1>14 DEF t

-----------------------------------------------------------------------------
(* The lane and the requests of its active task.                           *)

\* The tasks of the lane: their types, and the first two safety properties.
LaneOK ==
    /\ active \in Inputs \cup {NoRun}
    /\ queue \in Seq(Inputs)
    /\ phase \in [Inputs -> Phases]
    /\ OneRunAtATime
    /\ TasksAccounted

\* A request stands at the head of the chain while the framework has it, and
\* the control chain is empty before the handle registers and after the chain
\* has been awaited.
ChainHeld ==
    /\ head # "idle" => chain # <<>>
    /\ active = NoRun => chain = <<>> /\ pend = <<>>
    /\ \A i \in Inputs : phase[i] \in {"starting", "recovering"} => chain = <<>>

\* The requests of the active task.
RequestsOK ==
    /\ pend \in Seq(Inputs)
    /\ chain \in Seq(Inputs)
    /\ head \in {"idle", "steered", "taken", "refused"}
    /\ result \in [Inputs -> Results]
    /\ ChainHeld
    /\ OpenRequestsHeld

\* Variables whose types need no more than the two above.
RestOK ==
    /\ home \in [Inputs -> Nat]
    /\ aborted \subseteq Inputs
    /\ broken \in BOOLEAN
    /\ fw \in {"none", "open", "closed", "over"}
    /\ accepted \subseteq Inputs
    /\ born \in Seq(Inputs)
    /\ stopped \subseteq Inputs

LaneInv == LaneOK /\ RequestsOK /\ RestOK

-----------------------------------------------------------------------------
(* How the operations of the lane change its tasks.                        *)

\* The queue is empty while nothing is active.
LEMMA EmptyWithoutActive ==
    ASSUME LaneOK, active = NoRun
    PROVE  queue = <<>> /\ \A i \in Inputs : phase[i] \notin Running
  BY NoRunAssumption DEF LaneOK, TasksAccounted, OneRunAtATime

LEMMA TasksDistinct == TasksAccounted => Distinct(queue)
  BY DEF TasksAccounted, Distinct

\* enqueue keeps the tasks, for an input that has none yet.
LEMMA AddTaskKeeps ==
    ASSUME LaneOK, NEW i \in Inputs, phase[i] = "unborn", AddTask(i)
    PROVE  LaneOK'
<1> USE DEF Phases, Waiting, Running, Ended
<1>1. CASE active = NoRun
  <2>1. /\ queue = <<>> /\ queue' = queue
        /\ active' = i
        /\ phase' = [phase EXCEPT ![i] = "starting"]
        /\ \A j \in Inputs : phase[j] \notin Running
    BY <1>1, EmptyWithoutActive DEF AddTask
  <2>2. OneRunAtATime'
    BY <2>1 DEF OneRunAtATime, LaneOK
  <2>3. TasksAccounted'
    BY <2>1, NoRunAssumption DEF TasksAccounted, LaneOK
  <2> QED
    BY <2>1, <2>2, <2>3 DEF LaneOK
<1>2. CASE active # NoRun
  <2>1. /\ queue' = Append(queue, i)
        /\ active' = active
        /\ phase' = [phase EXCEPT ![i] = "queued"]
    BY <1>2 DEF AddTask
  <2>2. i \notin Range(queue)
    BY DEF LaneOK, TasksAccounted
  <2>3. /\ queue' \in Seq(Inputs)
        /\ Range(queue') = Range(queue) \cup {i}
        /\ Distinct(queue')
    BY <2>1, <2>2, AppendLemma, TasksDistinct DEF LaneOK
  <2>4. OneRunAtATime'
    BY <2>1 DEF OneRunAtATime, LaneOK
  <2>5. TasksAccounted'
    BY <1>2, <2>1, <2>3 DEF TasksAccounted, LaneOK, Distinct
  <2> QED
    BY <2>1, <2>3, <2>4, <2>5 DEF LaneOK
<1> QED
  BY <1>1, <1>2

\* Promotion and the interrupt of a queued run take one task out.
LEMMA TakeOutKeeps ==
    ASSUME LaneOK, NEW k \in 1..Len(queue), NEW ph \in {"promoted", "rejected"},
           queue' = Without(queue, k),
           phase' = [phase EXCEPT ![queue[k]] = ph],
           UNCHANGED active
    PROVE  LaneOK'
<1> USE DEF Phases, Waiting, Running, Ended
<1>1. /\ queue' \in Seq(Inputs)
      /\ Range(queue) = Range(queue') \cup {queue[k]}
      /\ Distinct(queue') /\ queue[k] \notin Range(queue')
  BY WithoutLemma, TasksDistinct DEF LaneOK
<1>2. queue[k] \in Inputs /\ queue[k] \in Range(queue) /\ queue # <<>>
  BY InRange, EmptySeq DEF LaneOK
<1>3. phase[queue[k]] = "queued"
  BY <1>2 DEF LaneOK, TasksAccounted
<1>4. OneRunAtATime'
  BY <1>2, <1>3 DEF OneRunAtATime, LaneOK
<1>5. TasksAccounted'
  BY <1>1, <1>2, <1>3 DEF TasksAccounted, LaneOK, Distinct
<1> QED
  BY <1>1, <1>2, <1>4, <1>5 DEF LaneOK

\* The finally block of startTask hands the lane to the next task.
LEMMA FinishKeeps ==
    ASSUME LaneOK, active # NoRun, NEW verdict \in Ended, FinishActive(verdict)
    PROVE  LaneOK'
<1> USE DEF Phases, Waiting, Running, Ended
<1>0. active \in Inputs /\ phase[active] \in Running
  BY DEF LaneOK, OneRunAtATime
<1>1. CASE queue = <<>>
  <2>1. /\ queue' = <<>> /\ active' = NoRun
        /\ phase' = [i \in Inputs |-> IF i = active THEN verdict ELSE phase[i]]
    BY <1>1, <1>0 DEF FinishActive, LaneOK
  <2>2. OneRunAtATime'
    BY <2>1, <1>0, NoRunAssumption DEF OneRunAtATime, LaneOK
  <2>3. TasksAccounted'
    BY <2>1, <1>0, <1>1 DEF TasksAccounted, LaneOK
  <2> QED
    BY <2>1, <2>2, <2>3, <1>1 DEF LaneOK
<1>2. CASE queue # <<>>
  <2> DEFINE h == Head(queue)
  <2>1. /\ h \in Inputs
        /\ Tail(queue) \in Seq(Inputs)
        /\ Range(queue) = Range(Tail(queue)) \cup {h}
        /\ Distinct(Tail(queue)) /\ h \notin Range(Tail(queue))
    BY <1>2, TailLemma, TasksDistinct DEF LaneOK
  <2>2. phase[h] = "queued"
    BY <2>1 DEF LaneOK, TasksAccounted
  <2>3. /\ queue' = Tail(queue) /\ active' = h
        /\ phase' = [i \in Inputs |-> IF i = active THEN verdict
                                      ELSE IF i = h THEN "starting" ELSE phase[i]]
    <3>1. \A i \in Inputs : phase'[i] = IF i = active THEN verdict
                                        ELSE IF i = h THEN "starting" ELSE phase[i]
      <4> SUFFICES ASSUME NEW i \in Inputs
                   PROVE phase'[i] = IF i = active THEN verdict
                                     ELSE IF i = h THEN "starting" ELSE phase[i]
        OBVIOUS
      <4>0. phase'[i] = CASE i = active -> verdict
                          [] queue # <<>> /\ i = Head(queue) -> "starting"
                          [] OTHER -> phase[i]
        BY DEF FinishActive
      <4>1. CASE i = active
        BY <4>0, <4>1, <2>2, <1>0
      <4>2. CASE i # active /\ i = h
        BY <4>0, <4>2, <1>2
      <4>3. CASE i # active /\ i # h
        BY <4>0, <4>3
      <4> QED
        BY <4>1, <4>2, <4>3
    <3>2. phase' = [i \in Inputs |-> phase'[i]]
      BY DEF FinishActive
    <3> QED
      BY <3>1, <3>2, <1>2 DEF FinishActive
  <2> HIDE DEF h
  <2>4. phase' \in [Inputs -> Phases]
    BY <2>3 DEF LaneOK
  <2>5. OneRunAtATime'
    BY <2>1, <2>2, <2>3, <1>0 DEF OneRunAtATime, LaneOK
  <2>6. TasksAccounted'
    <3>1. active' # NoRun
      BY <2>1, <2>3, NoRunAssumption
    <3>2. \A i \in Inputs : phase'[i] = "queued" <=> i \in Range(queue')
      BY <2>1, <2>2, <2>3, <1>0 DEF LaneOK, TasksAccounted
    <3> QED
      BY <2>1, <2>3, <3>1, <3>2 DEF TasksAccounted, Distinct
  <2> QED
    BY <2>1, <2>3, <2>4, <2>5, <2>6 DEF LaneOK
<1> QED
  BY <1>1, <1>2

\* restoreQueuedTask brings a promoted task back into the lane.
LEMMA PutBackKeeps ==
    ASSUME LaneOK, home \in [Inputs -> Nat],
           NEW i \in Inputs, phase[i] = "promoted", PutBack(i)
    PROVE  LaneOK'
<1> USE DEF Phases, Waiting, Running, Ended
<1>1. CASE active = NoRun
  <2>1. /\ queue = <<>> /\ queue' = queue
        /\ active' = i
        /\ phase' = [phase EXCEPT ![i] = "starting"]
        /\ \A j \in Inputs : phase[j] \notin Running
    BY <1>1, EmptyWithoutActive DEF PutBack
  <2>2. OneRunAtATime'
    BY <2>1 DEF OneRunAtATime, LaneOK
  <2>3. TasksAccounted'
    BY <2>1, NoRunAssumption DEF TasksAccounted, LaneOK
  <2> QED
    BY <2>1, <2>2, <2>3 DEF LaneOK
<1>2. CASE active # NoRun
  <2> DEFINE at == IF home[i] <= Len(queue) THEN home[i] ELSE Len(queue)
  <2>1. /\ queue' = With(queue, at, i)
        /\ active' = active
        /\ phase' = [phase EXCEPT ![i] = "queued"]
    BY <1>2 DEF PutBack, With
  <2>2. at \in 0..Len(queue)
    BY LenProperties DEF LaneOK
  <2>3. i \notin Range(queue)
    BY DEF LaneOK, TasksAccounted
  <2> HIDE DEF at
  <2>4. /\ queue' \in Seq(Inputs)
        /\ Range(queue') = Range(queue) \cup {i}
        /\ Distinct(queue')
    <3>1. queue \in Seq(Inputs) /\ Distinct(queue)
      BY TasksDistinct DEF LaneOK
    <3>2. /\ With(queue, at, i) \in Seq(Inputs)
          /\ Range(With(queue, at, i)) = Range(queue) \cup {i}
          /\ Distinct(With(queue, at, i))
      BY <3>1, <2>2, <2>3, WithLemma
    <3> QED
      BY <3>2, <2>1
  <2>5. OneRunAtATime'
    BY <2>1 DEF OneRunAtATime, LaneOK
  <2>6. TasksAccounted'
    BY <1>2, <2>1, <2>4 DEF TasksAccounted, LaneOK, Distinct
  <2> QED
    BY <2>1, <2>4, <2>5, <2>6 DEF LaneOK
<1> QED
  BY <1>1, <1>2

\* The active task goes on to another phase in which it runs.
LEMMA MoveOnKeeps ==
    ASSUME LaneOK, active # NoRun, NEW ph \in Running,
           phase' = [phase EXCEPT ![active] = ph],
           UNCHANGED <<active, queue>>
    PROVE  LaneOK'
<1> USE DEF Phases, Waiting, Running, Ended
<1>1. active \in Inputs /\ phase[active] \in Running
  BY DEF LaneOK, OneRunAtATime
<1>2. OneRunAtATime' /\ TasksAccounted'
  BY <1>1 DEF LaneOK, OneRunAtATime, TasksAccounted
<1> QED
  BY <1>1, <1>2 DEF LaneOK

\* A promoted task whose input was delivered ends where it is.
LEMMA DropPromotedKeeps ==
    ASSUME LaneOK, NEW i \in Inputs, phase[i] = "promoted",
           phase' = [phase EXCEPT ![i] = "rejected"],
           UNCHANGED <<active, queue>>
    PROVE  LaneOK'
<1> USE DEF Phases, Waiting, Running, Ended
<1>1. OneRunAtATime' /\ TasksAccounted'
  BY DEF LaneOK, OneRunAtATime, TasksAccounted
<1> QED
  BY <1>1 DEF LaneOK

\* interrupt empties the queue.
LEMMA InterruptKeeps ==
    ASSUME LaneOK, Interrupt
    PROVE  LaneOK'
<1> USE DEF Phases, Waiting, Running, Ended
<1>1. /\ phase' = [i \in Inputs |->
                     IF i \in Range(queue) THEN "rejected" ELSE phase[i]]
      /\ queue' = <<>> /\ active' = active
  BY DEF Interrupt
<1>2. Range(queue') = {} /\ queue' \in Seq(Inputs) /\ Len(queue') = 0
  BY <1>1, InRange, EmptySeq
<1>3. OneRunAtATime'
  BY <1>1 DEF LaneOK, OneRunAtATime, TasksAccounted
<1>4. TasksAccounted'
  BY <1>1, <1>2 DEF LaneOK, TasksAccounted
<1> QED
  BY <1>1, <1>2, <1>3, <1>4 DEF LaneOK

-----------------------------------------------------------------------------
(* Every step keeps the tasks.                                             *)

LEMMA LaneSame ==
    ASSUME LaneOK, UNCHANGED <<active, queue, phase>>
    PROVE  LaneOK'
  BY DEF LaneOK, OneRunAtATime, TasksAccounted

LEMMA CommandsKeepLane ==
    ASSUME LaneOK,
           \/ \E i \in Inputs : Enqueue(i) \/ Steer(i)
           \/ \E k \in 1..Len(queue) : Promote(k) \/ InterruptQueuedRun(k)
           \/ Interrupt
           \/ InterruptRun
    PROVE  LaneOK'
<1>1. ASSUME NEW i \in Inputs, Enqueue(i) PROVE LaneOK'
  BY <1>1, AddTaskKeeps DEF Enqueue
<1>2. ASSUME NEW i \in Inputs, Steer(i) PROVE LaneOK'
  BY <1>2, LaneSame DEF Steer, taskVars
<1>3. ASSUME NEW k \in 1..Len(queue), Promote(k) PROVE LaneOK'
  <2>1. /\ queue' = Without(queue, k)
        /\ phase' = [phase EXCEPT ![queue[k]] = "promoted"]
        /\ UNCHANGED active
    BY <1>3 DEF Promote, Without
  <2> QED
    BY <2>1, TakeOutKeeps
<1>4. ASSUME NEW k \in 1..Len(queue), InterruptQueuedRun(k) PROVE LaneOK'
  <2>1. /\ queue' = Without(queue, k)
        /\ phase' = [phase EXCEPT ![queue[k]] = "rejected"]
        /\ UNCHANGED active
    BY <1>4 DEF InterruptQueuedRun, Without
  <2> QED
    BY <2>1, TakeOutKeeps
<1>5. CASE Interrupt
  BY <1>5, InterruptKeeps
<1>6. CASE InterruptRun
  BY <1>6, LaneSame DEF InterruptRun
<1> QED
  BY <1>1, <1>2, <1>3, <1>4, <1>5, <1>6

LEMMA FrameworkKeepsLane ==
    ASSUME LaneOK, RegisterHandle \/ CloseSteering \/ FrameworkStep \/ WorkEnds
    PROVE  LaneOK'
<1>1. CASE RegisterHandle
  BY <1>1, MoveOnKeeps DEF RegisterHandle, Running
<1>2. CASE CloseSteering
  BY <1>2, LaneSame DEF CloseSteering, taskVars
<1>3. CASE FrameworkStep
  BY <1>3, LaneSame DEF FrameworkStep, TakeSteered, AcceptSteered, AcceptFails,
     FrameworkEnds, taskVars
<1>4. CASE WorkReturns
  BY <1>4, MoveOnKeeps DEF WorkReturns, Running
<1>5. CASE WorkThrows
  BY <1>5, FinishKeeps DEF WorkThrows, Ended
<1> QED
  BY <1>1, <1>2, <1>3, <1>4, <1>5 DEF WorkEnds

LEMMA ReactionsKeepLane ==
    ASSUME LaneOK, RequestsOK, RestOK,
           \/ \E i \in Inputs : Reaction(i)
           \/ ChainStep
           \/ SettleStep
    PROVE  LaneOK'
<1>0. /\ chain # <<>> => Head(chain) \in Inputs
      /\ pend # <<>> => Head(pend) \in Inputs
  BY TailLemma DEF RequestsOK
<1>1. ASSUME NEW i \in Inputs, PromotionDelivered(i) PROVE LaneOK'
  BY <1>1, DropPromotedKeeps DEF PromotionDelivered
<1>2. ASSUME NEW i \in Inputs, PromotionRejected(i) PROVE LaneOK'
  BY <1>2, PutBackKeeps DEF PromotionRejected, RestOK
<1>3. CASE SendSteer \/ RefusedAfterAbort \/ RefusedPromotion
  BY <1>3, LaneSame DEF SendSteer, RefusedAfterAbort, RefusedPromotion, taskVars
<1>4. CASE RefusedThenReplaced
  BY <1>4, <1>0, AddTaskKeeps DEF RefusedThenReplaced, ChainRuns
<1>5. CASE ReplacementFails
  BY <1>5, LaneSame DEF ReplacementFails
<1>6. CASE ChainFailed
  BY <1>6, FinishKeeps DEF ChainFailed, Settles, Ended
<1>7. CASE RejectUndelivered
  BY <1>7, MoveOnKeeps DEF RejectUndelivered, Settles, Running
<1>8. CASE RecoverUndelivered
  BY <1>8, MoveOnKeeps DEF RecoverUndelivered, Settles, Running
<1>9. CASE RejectRecovered
  BY <1>9, LaneSame DEF RejectRecovered, taskVars
<1>10. CASE ReplaceRecovered
  BY <1>10, <1>0, AddTaskKeeps DEF ReplaceRecovered
<1>11. CASE RecoveryFails
  BY <1>11, FinishKeeps DEF RecoveryFails, Settles, Ended
<1>12. CASE Finish
  BY <1>12, FinishKeeps DEF Finish, Settles, Ended
<1> QED
  BY <1>1, <1>2, <1>3, <1>4, <1>5, <1>6, <1>7, <1>8, <1>9, <1>10, <1>11, <1>12
     DEF Reaction, ChainStep, SettleStep

LEMMA NextLaneOK ==
    ASSUME LaneInv, [Next]_vars
    PROVE  LaneOK'
<1>1. CASE UNCHANGED vars
  BY <1>1, LaneSame DEF vars, LaneInv
<1>2. CASE Next
  BY <1>2, CommandsKeepLane, FrameworkKeepsLane, ReactionsKeepLane DEF Next, LaneInv
<1> QED
  BY <1>1, <1>2

-----------------------------------------------------------------------------
(* How the operations of the lane change the requests of its active task.  *)

Early == {"starting", "recovering"}

\* No task comes to be starting or recovering while the chain holds a request.
NoneEarlier == \A i \in Inputs : phase'[i] \in Early => phase[i] \in Early \/ chain = <<>>

LEMMA SettleLemma ==
    ASSUME result \in [Inputs -> Results], NEW S,
           NEW v \in {"delivered", "replaced", "rejected"}, Settle(S, v)
    PROVE  /\ result' \in [Inputs -> Results]
           /\ \A i \in Inputs : result'[i] = "open" <=> result[i] = "open" /\ i \notin S
  BY DEF Settle, Results

\* Rejecting task.steerRequests leaves no request open.
LEMMA SettleAllLemma ==
    ASSUME RequestsOK, Settle(SteerRequests, "rejected")
    PROVE  /\ result' \in [Inputs -> Results]
           /\ \A i \in Inputs : result'[i] # "open"
<1>1. \A i \in Inputs : result[i] = "open" => i \in SteerRequests
  BY DEF RequestsOK, OpenRequestsHeld, SteerRequests
<1>2. /\ result' \in [Inputs -> Results]
      /\ \A i \in Inputs : result'[i] = "open" <=> result[i] = "open" /\ i \notin SteerRequests
  BY SettleLemma DEF RequestsOK
<1> QED
  BY <1>1, <1>2

\* The requests of a task are those of its chain and those of its list.
LEMMA RequestRange ==
    \A c, p \in Seq(Inputs) : Range(c \o p) = Range(c) \cup Range(p)
  BY RangeConcatenation

\* The same requests under an active task.
LEMMA SameRequests ==
    ASSUME RequestsOK, UNCHANGED <<pend, chain, result>>,
           head' = head \/ (chain # <<>> /\ head' \in {"steered", "taken", "refused"}),
           active # NoRun => active' # NoRun,
           NoneEarlier
    PROVE  RequestsOK'
  BY DEF RequestsOK, ChainHeld, OpenRequestsHeld, NoneEarlier, Early

\* No request is open and pend is empty.
LEMMA NoOpenRequests ==
    ASSUME RequestsOK, result' \in [Inputs -> Results],
           \A i \in Inputs : result'[i] # "open",
           pend' = <<>>, UNCHANGED <<chain, head>>,
           active # NoRun => active' # NoRun,
           NoneEarlier
    PROVE  RequestsOK'
  BY EmptySeq DEF RequestsOK, ChainHeld, OpenRequestsHeld, NoneEarlier, Early

\* The task ends, and its bookkeeping with it.
LEMMA FinishRequests ==
    ASSUME NEW v, FinishActive(v), result' \in [Inputs -> Results],
           \A i \in Inputs : result'[i] # "open"
    PROVE  RequestsOK'
  BY EmptySeq DEF FinishActive, RequestsOK, ChainHeld, OpenRequestsHeld

\* steer and promoteQueuedRun add a request to an accepting task.
LEMMA PushKeeps ==
    ASSUME LaneOK, RequestsOK, Accepting, NEW i \in Inputs, PushRequest(i),
           UNCHANGED <<active, head>>,
           \A j \in Inputs : phase'[j] \in Early => phase[j] \in Early
    PROVE  RequestsOK'
<1>0. /\ active # NoRun /\ active \in Inputs
      /\ \A j \in Inputs : phase[j] \in Running <=> j = active
  BY DEF Accepting, LaneOK, OneRunAtATime
<1>1. /\ result' = [result EXCEPT ![i] = "open"]
      /\ result' \in [Inputs -> Results]
  BY DEF PushRequest, RequestsOK, Results
<1>2. CASE phase[active] = "live"
  <2>1. chain' = Append(chain, i) /\ pend' = pend
    BY <1>2 DEF PushRequest
  <2>2. /\ chain' \in Seq(Inputs) /\ chain' # <<>>
        /\ Range(chain') = Range(chain) \cup {i}
    BY <2>1, AppendLemma DEF RequestsOK
  <2>3. chain \in Seq(Inputs) /\ pend \in Seq(Inputs)
    BY DEF RequestsOK
  <2>4. Range(chain \o pend) = Range(chain) \cup Range(pend)
    BY <2>3, RequestRange
  <2>5. Range(chain' \o pend') = Range(chain') \cup Range(pend')
    BY <2>1, <2>2, <2>3, RequestRange
  <2>6. OpenRequestsHeld'
    BY <2>1, <2>2, <2>4, <2>5, <1>0, <1>1 DEF RequestsOK, OpenRequestsHeld
  <2>7. \A j \in Inputs : phase[j] \notin Early
    BY <1>0, <1>2 DEF Early, Running
  <2>8. ChainHeld'
    BY <2>2, <2>7, <1>0 DEF ChainHeld, Early
  <2> QED
    BY <1>1, <2>1, <2>2, <2>6, <2>8 DEF RequestsOK
<1>3. CASE phase[active] # "live"
  <2>1. pend' = Append(pend, i) /\ chain' = chain
    BY <1>3 DEF PushRequest
  <2>2. pend' \in Seq(Inputs) /\ Range(pend') = Range(pend) \cup {i}
    BY <2>1, AppendLemma DEF RequestsOK
  <2>3. chain \in Seq(Inputs) /\ pend \in Seq(Inputs)
    BY DEF RequestsOK
  <2>4. Range(chain \o pend) = Range(chain) \cup Range(pend)
    BY <2>3, RequestRange
  <2>5. Range(chain' \o pend') = Range(chain') \cup Range(pend')
    BY <2>1, <2>2, <2>3, RequestRange
  <2>6. OpenRequestsHeld'
    BY <2>1, <2>2, <2>4, <2>5, <1>0, <1>1 DEF RequestsOK, OpenRequestsHeld
  <2>7. ChainHeld'
    BY <2>1, <1>0 DEF RequestsOK, ChainHeld, Early
  <2> QED
    BY <1>1, <2>1, <2>2, <2>6, <2>7 DEF RequestsOK
<1> QED
  BY <1>2, <1>3

\* The request at the head of the chain is settled and leaves it.
LEMMA PopChainKeeps ==
    ASSUME RequestsOK, chain # <<>>,
           NEW v \in {"delivered", "replaced", "rejected"},
           Settle({Head(chain)}, v), chain' = Tail(chain), head' = "idle",
           UNCHANGED <<pend, active>>, NoneEarlier
    PROVE  RequestsOK'
<1>1. /\ chain' \in Seq(Inputs)
      /\ Range(chain) = Range(chain') \cup {Head(chain)}
  BY TailLemma DEF RequestsOK
<1>2. /\ result' \in [Inputs -> Results]
      /\ \A i \in Inputs : result'[i] = "open" => result[i] = "open" /\ i # Head(chain)
  BY SettleLemma DEF RequestsOK
<1>3. chain \in Seq(Inputs) /\ pend \in Seq(Inputs)
  BY DEF RequestsOK
<1>4. Range(chain \o pend) = Range(chain) \cup Range(pend)
  BY <1>3, RequestRange
<1>5. Range(chain' \o pend') = Range(chain') \cup Range(pend')
  BY <1>1, <1>3, RequestRange
<1>6. OpenRequestsHeld'
  BY <1>1, <1>2, <1>4, <1>5 DEF RequestsOK, OpenRequestsHeld
<1>7. ChainHeld'
  BY DEF RequestsOK, ChainHeld, NoneEarlier, Early
<1> QED
  BY <1>1, <1>2, <1>6, <1>7 DEF RequestsOK

\* recoverUndeliveredSteers settles the first of its list.
LEMMA PopPendKeeps ==
    ASSUME RequestsOK, pend # <<>>,
           NEW v \in {"replaced", "rejected"},
           Settle({Head(pend)}, v), pend' = Tail(pend),
           UNCHANGED <<chain, head, active>>, NoneEarlier
    PROVE  RequestsOK'
<1>1. /\ pend' \in Seq(Inputs)
      /\ Range(pend) = Range(pend') \cup {Head(pend)}
  BY TailLemma DEF RequestsOK
<1>2. /\ result' \in [Inputs -> Results]
      /\ \A i \in Inputs : result'[i] = "open" => result[i] = "open" /\ i # Head(pend)
  BY SettleLemma DEF RequestsOK
<1>3. chain \in Seq(Inputs) /\ pend \in Seq(Inputs)
  BY DEF RequestsOK
<1>4. Range(chain \o pend) = Range(chain) \cup Range(pend)
  BY <1>3, RequestRange
<1>5. Range(chain' \o pend') = Range(chain') \cup Range(pend')
  BY <1>1, <1>3, RequestRange
<1>6. OpenRequestsHeld'
  BY <1>1, <1>2, <1>4, <1>5 DEF RequestsOK, OpenRequestsHeld
<1>7. ChainHeld'
  BY DEF RequestsOK, ChainHeld, NoneEarlier, Early
<1> QED
  BY <1>1, <1>2, <1>6, <1>7 DEF RequestsOK

-----------------------------------------------------------------------------
(* Every step keeps the requests.                                          *)

\* A task that is added behind an active one, or to a lane without any.
LEMMA AddedNotEarlier ==
    ASSUME LaneOK, RequestsOK, NEW i \in Inputs, AddTask(i)
    PROVE  NoneEarlier /\ active' # NoRun
  BY NoRunAssumption
     DEF LaneOK, RequestsOK, ChainHeld, AddTask, NoneEarlier, Early

LEMMA RestoredNotEarlier ==
    ASSUME LaneOK, RequestsOK, NEW i \in Inputs, PutBack(i)
    PROVE  NoneEarlier /\ active' # NoRun
  BY NoRunAssumption
     DEF LaneOK, RequestsOK, ChainHeld, PutBack, NoneEarlier, Early

LEMMA CommandsKeepRequests ==
    ASSUME LaneOK, RequestsOK,
           \/ \E i \in Inputs : Enqueue(i) \/ Steer(i)
           \/ \E k \in 1..Len(queue) : Promote(k) \/ InterruptQueuedRun(k)
           \/ Interrupt
           \/ InterruptRun
    PROVE  RequestsOK'
<1> USE DEF Early
<1>1. ASSUME NEW i \in Inputs, Enqueue(i) PROVE RequestsOK'
  BY <1>1, AddedNotEarlier, SameRequests DEF Enqueue, steerVars
<1>2. ASSUME NEW i \in Inputs, Steer(i) PROVE RequestsOK'
  BY <1>2, PushKeeps DEF Steer, taskVars
<1>3. ASSUME NEW k \in 1..Len(queue), Promote(k) PROVE RequestsOK'
  <2>1. queue[k] \in Inputs
    BY ElementOfSeq DEF LaneOK
  <2>2. \A j \in Inputs : phase'[j] \in Early => phase[j] \in Early
    BY <1>3, <2>1 DEF Promote, LaneOK
  <2> QED
    BY <1>3, <2>1, <2>2, PushKeeps DEF Promote
<1>4. ASSUME NEW k \in 1..Len(queue), InterruptQueuedRun(k) PROVE RequestsOK'
  <2>1. NoneEarlier
    BY <1>4 DEF InterruptQueuedRun, NoneEarlier, LaneOK
  <2> QED
    BY <1>4, <2>1, SameRequests DEF InterruptQueuedRun, steerVars
<1>5. CASE Interrupt
  <2>1. NoneEarlier
    BY <1>5 DEF Interrupt, NoneEarlier
  <2> QED
    BY <1>5, <2>1, SettleAllLemma, NoOpenRequests DEF Interrupt, AbortActive
<1>6. CASE InterruptRun
  <2>1. NoneEarlier
    BY <1>6 DEF InterruptRun, NoneEarlier
  <2> QED
    BY <1>6, <2>1, SettleAllLemma, NoOpenRequests DEF InterruptRun, AbortActive
<1> QED
  BY <1>1, <1>2, <1>3, <1>4, <1>5, <1>6

LEMMA FrameworkKeepsRequests ==
    ASSUME LaneOK, RequestsOK,
           RegisterHandle \/ CloseSteering \/ FrameworkStep \/ WorkEnds
    PROVE  RequestsOK'
<1> USE DEF Early
<1>1. CASE RegisterHandle
  <2>1. /\ active \in Inputs /\ phase[active] = "starting"
        /\ active' = active /\ active # NoRun
        /\ phase' = [phase EXCEPT ![active] = "live"]
        /\ chain' = pend /\ pend' = <<>> /\ head' = head /\ result' = result
    BY <1>1 DEF RegisterHandle, LaneOK
  <2>2. chain = <<>> /\ head = "idle"
    BY <2>1 DEF RequestsOK, ChainHeld
  <2>3. Range(chain' \o pend') = Range(chain \o pend)
    BY <2>1, <2>2, ConcatEmptySeq DEF RequestsOK
  <2>4. OpenRequestsHeld'
    BY <2>1, <2>3 DEF RequestsOK, OpenRequestsHeld
  <2>5. \A j \in Inputs : phase'[j] \notin Early
    BY <2>1 DEF LaneOK, OneRunAtATime, Running
  <2> QED
    BY <2>1, <2>2, <2>4, <2>5, EmptySeq DEF RequestsOK, ChainHeld
<1>2. CASE CloseSteering
  <2>1. NoneEarlier
    BY <1>2 DEF CloseSteering, taskVars, NoneEarlier
  <2> QED
    BY <1>2, <2>1, SameRequests DEF CloseSteering, taskVars, steerVars
<1>3. CASE TakeSteered
  <2>1. NoneEarlier /\ chain # <<>>
    BY <1>3 DEF TakeSteered, taskVars, NoneEarlier, RequestsOK, ChainHeld
  <2> QED
    BY <1>3, <2>1, SameRequests DEF TakeSteered, taskVars
<1>4. CASE AcceptSteered
  <2>1. NoneEarlier /\ chain # <<>>
    BY <1>4 DEF AcceptSteered, taskVars, NoneEarlier, RequestsOK, ChainHeld
  <2> QED
    BY <1>4, <2>1, PopChainKeeps DEF AcceptSteered, taskVars
<1>5. CASE AcceptFails
  <2>1. NoneEarlier /\ chain # <<>>
    BY <1>5 DEF AcceptFails, taskVars, NoneEarlier, RequestsOK, ChainHeld
  <2> QED
    BY <1>5, <2>1, SameRequests DEF AcceptFails, taskVars
<1>6. CASE FrameworkEnds
  <2>1. NoneEarlier /\ (head = "steered" => chain # <<>>)
    BY <1>6 DEF FrameworkEnds, taskVars, NoneEarlier, RequestsOK, ChainHeld
  <2> QED
    BY <1>6, <2>1, SameRequests DEF FrameworkEnds, taskVars
<1>7. CASE WorkReturns
  <2>1. NoneEarlier
    BY <1>7 DEF WorkReturns, NoneEarlier, LaneOK
  <2> QED
    BY <1>7, <2>1, SameRequests DEF WorkReturns, steerVars
<1>8. CASE WorkThrows
  BY <1>8, SettleAllLemma, FinishRequests DEF WorkThrows
<1> QED
  BY <1>1, <1>2, <1>3, <1>4, <1>5, <1>6, <1>7, <1>8 DEF FrameworkStep, WorkEnds

LEMMA ReactionsKeepRequests ==
    ASSUME LaneOK, RequestsOK,
           \/ \E i \in Inputs : Reaction(i)
           \/ ChainStep
           \/ SettleStep
    PROVE  RequestsOK'
<1> USE DEF Early
<1>0. /\ chain # <<>> => Head(chain) \in Inputs /\ active # NoRun
      /\ pend # <<>> => Head(pend) \in Inputs /\ active # NoRun
  BY TailLemma DEF RequestsOK, ChainHeld
<1>1. ASSUME NEW i \in Inputs, PromotionDelivered(i) PROVE RequestsOK'
  <2>1. NoneEarlier
    BY <1>1 DEF PromotionDelivered, NoneEarlier, LaneOK
  <2> QED
    BY <1>1, <2>1, SameRequests DEF PromotionDelivered, steerVars
<1>2. ASSUME NEW i \in Inputs, PromotionRejected(i) PROVE RequestsOK'
  BY <1>2, RestoredNotEarlier, SameRequests DEF PromotionRejected, steerVars
<1>3. CASE SendSteer
  <2>1. NoneEarlier
    BY <1>3 DEF SendSteer, taskVars, NoneEarlier
  <2> QED
    BY <1>3, <2>1, SameRequests DEF SendSteer, ChainRuns, taskVars
<1>4. CASE RefusedAfterAbort
  <2>1. NoneEarlier
    BY <1>4 DEF RefusedAfterAbort, taskVars, NoneEarlier
  <2> QED
    BY <1>4, <2>1, PopChainKeeps DEF RefusedAfterAbort, ChainRuns, taskVars
<1>5. CASE RefusedPromotion
  <2>1. NoneEarlier
    BY <1>5 DEF RefusedPromotion, taskVars, NoneEarlier
  <2> QED
    BY <1>5, <2>1, PopChainKeeps DEF RefusedPromotion, ChainRuns, taskVars
<1>6. CASE RefusedThenReplaced
  <2>1. chain # <<>> /\ AddTask(Head(chain))
    BY <1>6 DEF RefusedThenReplaced, ChainRuns
  <2>2. NoneEarlier /\ active' = active
    BY <2>1, <1>0, AddedNotEarlier DEF AddTask
  <2> QED
    BY <1>6, <2>1, <2>2, PopChainKeeps DEF RefusedThenReplaced
<1>7. CASE ReplacementFails
  <2>1. NoneEarlier
    BY <1>7 DEF ReplacementFails, NoneEarlier
  <2> QED
    BY <1>7, <2>1, PopChainKeeps DEF ReplacementFails, ChainRuns
<1>8. CASE ChainFailed
  BY <1>8, SettleAllLemma, FinishRequests DEF ChainFailed
<1>9. CASE RejectUndelivered
  <2>1. NoneEarlier
    BY <1>9 DEF RejectUndelivered, NoneEarlier
  <2> QED
    BY <1>9, <2>1, SettleAllLemma, NoOpenRequests DEF RejectUndelivered
<1>10. CASE RecoverUndelivered
  <2>1. NoneEarlier
    BY <1>10 DEF RecoverUndelivered, NoneEarlier
  <2> QED
    BY <1>10, <2>1, SameRequests DEF RecoverUndelivered, steerVars
<1>11. CASE RejectRecovered
  <2>1. NoneEarlier
    BY <1>11 DEF RejectRecovered, taskVars, NoneEarlier
  <2> QED
    BY <1>11, <2>1, PopPendKeeps DEF RejectRecovered, taskVars
<1>12. CASE ReplaceRecovered
  <2>1. pend # <<>> /\ AddTask(Head(pend))
    BY <1>12 DEF ReplaceRecovered
  <2>2. NoneEarlier /\ active' = active
    BY <2>1, <1>0, AddedNotEarlier DEF AddTask
  <2> QED
    BY <1>12, <2>1, <2>2, PopPendKeeps DEF ReplaceRecovered
<1>13. CASE RecoveryFails
  BY <1>13, SettleAllLemma, FinishRequests DEF RecoveryFails
<1>14. CASE Finish
  <2>1. chain = <<>> /\ pend = <<>> /\ result' = result
    BY <1>14 DEF Finish, Settles, LaneOK, RequestsOK, ChainHeld
  <2>2. Range(chain \o pend) = {}
    BY <2>1, ConcatEmptySeq, InRange DEF RequestsOK
  <2>3. \A i \in Inputs : result'[i] # "open"
    BY <2>1, <2>2 DEF RequestsOK, OpenRequestsHeld
  <2> QED
    BY <1>14, <2>1, <2>3, FinishRequests DEF Finish, RequestsOK
<1> QED
  BY <1>1, <1>2, <1>3, <1>4, <1>5, <1>6, <1>7, <1>8, <1>9, <1>10, <1>11, <1>12,
     <1>13, <1>14
     DEF Reaction, ChainStep, SettleStep

LEMMA NextRequestsOK ==
    ASSUME LaneInv, [Next]_vars
    PROVE  RequestsOK'
<1>1. CASE UNCHANGED vars
  BY <1>1 DEF vars, LaneInv, RequestsOK, ChainHeld, OpenRequestsHeld
<1>2. CASE Next
  BY <1>2, CommandsKeepRequests, FrameworkKeepsRequests, ReactionsKeepRequests
     DEF Next, LaneInv
<1> QED
  BY <1>1, <1>2

-----------------------------------------------------------------------------
(* The remaining variables.                                                *)

LEMMA NextRestOK ==
    ASSUME LaneInv, [Next]_vars
    PROVE  RestOK'
<1> USE DEF LaneInv, RestOK
<1>0. /\ chain # <<>> => Head(chain) \in Inputs
      /\ pend # <<>> => Head(pend) \in Inputs
      /\ head # "idle" => chain # <<>>
  BY TailLemma DEF RequestsOK, ChainHeld
<1>1. ASSUME NEW i \in Inputs, AddTask(i) PROVE born' \in Seq(Inputs)
  BY <1>1, AppendLemma DEF AddTask
<1>2. ASSUME NEW i \in Inputs, Enqueue(i) \/ Steer(i) \/ Reaction(i) PROVE RestOK'
  <2>1. CASE Enqueue(i)
    BY <2>1, <1>1 DEF Enqueue, steerVars
  <2>2. CASE Steer(i)
    BY <2>2 DEF Steer, taskVars
  <2>3. CASE PromotionDelivered(i)
    BY <2>3 DEF PromotionDelivered, steerVars
  <2>4. CASE PromotionRejected(i)
    BY <2>4 DEF PromotionRejected, steerVars
  <2> QED
    BY <1>2, <2>1, <2>2, <2>3, <2>4 DEF Reaction
<1>3. ASSUME NEW k \in 1..Len(queue), Promote(k) \/ InterruptQueuedRun(k) PROVE RestOK'
  <2>1. k - 1 \in Nat /\ queue[k] \in Inputs
    BY LenProperties, ElementOfSeq DEF LaneOK
  <2>2. CASE Promote(k)
    BY <2>1, <2>2 DEF Promote
  <2>3. CASE InterruptQueuedRun(k)
    BY <2>1, <2>3 DEF InterruptQueuedRun, steerVars
  <2> QED
    BY <1>3, <2>2, <2>3
<1>4. CASE Interrupt \/ InterruptRun
  <2>1. active # NoRun => active \in Inputs
    BY DEF LaneOK
  <2>2. Range(queue) \subseteq Inputs
    BY InRange DEF LaneOK
  <2>3. CASE Interrupt
    BY <2>1, <2>2, <2>3 DEF Interrupt, AbortActive
  <2>4. CASE InterruptRun
    BY <2>1, <2>4 DEF InterruptRun, AbortActive
  <2> QED
    BY <1>4, <2>3, <2>4
<1>5. CASE RegisterHandle \/ CloseSteering \/ WorkEnds
  BY <1>5 DEF RegisterHandle, CloseSteering, WorkEnds, WorkReturns, WorkThrows,
     FinishActive, taskVars, steerVars
<1>6. CASE FrameworkStep
  <2>1. CASE AcceptSteered
    BY <2>1, <1>0 DEF AcceptSteered, taskVars
  <2>2. CASE TakeSteered \/ AcceptFails \/ FrameworkEnds
    BY <2>2 DEF TakeSteered, AcceptFails, FrameworkEnds, taskVars
  <2> QED
    BY <1>6, <2>1, <2>2 DEF FrameworkStep
<1>7. CASE ChainStep
  <2>1. CASE RefusedThenReplaced
    BY <2>1, <1>0, <1>1 DEF RefusedThenReplaced, ChainRuns
  <2>2. CASE ReplacementFails
    <3>1. active \in Inputs
      BY <2>2 DEF ReplacementFails, ChainRuns, LaneOK, RequestsOK, ChainHeld
    <3> QED
      BY <2>2, <3>1 DEF ReplacementFails
  <2>3. CASE SendSteer \/ RefusedAfterAbort \/ RefusedPromotion
    BY <2>3 DEF SendSteer, RefusedAfterAbort, RefusedPromotion, taskVars
  <2> QED
    BY <1>7, <2>1, <2>2, <2>3 DEF ChainStep
<1>8. CASE SettleStep
  <2>1. CASE ReplaceRecovered
    BY <2>1, <1>0, <1>1 DEF ReplaceRecovered
  <2>2. CASE ChainFailed \/ RecoveryFails \/ Finish
    BY <2>2 DEF ChainFailed, RecoveryFails, Finish, FinishActive
  <2>3. CASE RejectUndelivered \/ RecoverUndelivered \/ RejectRecovered
    BY <2>3 DEF RejectUndelivered, RecoverUndelivered, RejectRecovered, taskVars,
       steerVars
  <2> QED
    BY <1>8, <2>1, <2>2, <2>3 DEF SettleStep
<1>9. CASE UNCHANGED vars
  BY <1>9 DEF vars
<1> QED
  BY <1>2, <1>3, <1>4, <1>5, <1>6, <1>7, <1>8, <1>9 DEF Next

-----------------------------------------------------------------------------
LEMMA InitLaneInv == Init => LaneInv
<1> SUFFICES ASSUME Init PROVE LaneInv
  OBVIOUS
<1>1. <<>> \in Seq(Inputs) /\ Len(<<>>) = 0 /\ Range(<<>>) = {}
  BY EmptySeq, InRange
<1>2. LaneOK
  BY <1>1, NoRunAssumption
     DEF Init, LaneOK, OneRunAtATime, TasksAccounted, Phases, Running
<1>3. RequestsOK
  BY <1>1 DEF Init, RequestsOK, ChainHeld, OpenRequestsHeld, Results
<1>4. RestOK
  BY <1>1 DEF Init, RestOK
<1> QED
  BY <1>2, <1>3, <1>4 DEF LaneInv

LEMMA NextLaneInv == LaneInv /\ [Next]_vars => LaneInv'
  BY NextLaneOK, NextRequestsOK, NextRestOK DEF LaneInv

LEMMA LaneInvariant == Spec => []LaneInv
  BY InitLaneInv, NextLaneInv, PTL DEF Spec

\* Every variable keeps its type; in particular no step reads the head of an
\* empty chain or of an empty list.
THEOREM TypeCorrect == Spec => []TypeOK
<1>1. LaneInv => TypeOK
  BY DEF LaneInv, LaneOK, RequestsOK, RestOK, TypeOK
<1> QED
  BY <1>1, LaneInvariant, PTL

\* However many tasks are enqueued, promoted, put back, replaced or interrupted,
\* a session runs one at a time, none is lost or listed twice, and whoever waits
\* for a steer or a promotion waits for something the active task still holds.
THEOREM NothingForgotten == Spec => []LaneConsistent
<1>1. LaneInv => OneRunAtATime /\ TasksAccounted
  BY DEF LaneInv, LaneOK
<1>2. LaneInv => OpenRequestsHeld
  BY DEF LaneInv, RequestsOK
<1>3. LaneInv => LaneConsistent
  BY <1>1, <1>2 DEF LaneConsistent
<1> QED
  BY <1>3, LaneInvariant, PTL

-----------------------------------------------------------------------------
(* Aborts.                                                                 *)

\* An abort reaches a task that runs or ends, never an input without a task.
AbortedBorn == \A i \in aborted : phase[i] \in Running \cup Ended

LEMMA AddTaskAborted ==
    ASSUME LaneInv, AbortedBorn, NEW i \in Inputs, phase[i] = "unborn",
           AddTask(i), UNCHANGED aborted
    PROVE  AbortedBorn'
  BY DEF LaneInv, LaneOK, RestOK, AbortedBorn, AddTask, Running, Ended

LEMMA FinishAborted ==
    ASSUME LaneInv, AbortedBorn, active # NoRun, NEW verdict \in Ended,
           FinishActive(verdict), UNCHANGED aborted
    PROVE  AbortedBorn'
<1> SUFFICES ASSUME NEW i \in aborted PROVE phase'[i] \in Running \cup Ended
  BY DEF AbortedBorn
<1>1. i \in Inputs /\ phase[i] \in Running \cup Ended
  BY DEF LaneInv, RestOK, AbortedBorn
<1>2. phase'[i] = CASE i = active -> verdict
                    [] queue # <<>> /\ i = Head(queue) -> "starting"
                    [] OTHER -> phase[i]
  BY <1>1 DEF FinishActive
<1>3. CASE i = active
  <2>1. queue # <<>> => phase[Head(queue)] = "queued"
    BY TailLemma DEF LaneInv, LaneOK, TasksAccounted
  <2>2. phase[active] # "queued"
    BY <1>1, <1>3 DEF Running, Ended
  <2> QED
    BY <1>2, <1>3, <2>1, <2>2
<1>4. CASE i # active /\ queue # <<>> /\ i = Head(queue)
  BY <1>2, <1>4 DEF Running
<1>5. CASE i # active /\ ~(queue # <<>> /\ i = Head(queue))
  BY <1>1, <1>2, <1>5
<1> QED
  BY <1>3, <1>4, <1>5

LEMMA NextAbortedBorn ==
    ASSUME LaneInv, AbortedBorn, [Next]_vars
    PROVE  AbortedBorn'
<1> USE DEF Running, Ended
<1>0. /\ chain # <<>> => Head(chain) \in Inputs
      /\ pend # <<>> => Head(pend) \in Inputs
  BY TailLemma DEF LaneInv, RequestsOK
<1>1. /\ aborted \subseteq Inputs /\ phase \in [Inputs -> Phases]
      /\ \A i \in Inputs : phase[i] \in Running <=> i = active
      /\ active # NoRun => active \in Inputs
  BY DEF LaneInv, LaneOK, RestOK, OneRunAtATime
<1>2. ASSUME NEW i \in Inputs, Enqueue(i) \/ Steer(i) \/ Reaction(i)
      PROVE AbortedBorn'
  <2>1. CASE Enqueue(i)
    BY <2>1, AddTaskAborted DEF Enqueue
  <2>2. CASE Steer(i)
    BY <2>2 DEF Steer, taskVars, AbortedBorn
  <2>3. CASE PromotionDelivered(i)
    BY <2>3, <1>1 DEF PromotionDelivered, AbortedBorn
  <2>4. CASE PromotionRejected(i)
    <3>1. i \notin aborted
      BY <2>4 DEF PromotionRejected, AbortedBorn
    <3>2. \A j \in aborted : phase'[j] = phase[j]
      BY <2>4, <3>1, <1>1 DEF PromotionRejected, PutBack
    <3> QED
      BY <2>4, <3>2 DEF PromotionRejected, AbortedBorn
  <2> QED
    BY <1>2, <2>1, <2>2, <2>3, <2>4 DEF Reaction
<1>3. ASSUME NEW k \in 1..Len(queue), Promote(k) \/ InterruptQueuedRun(k)
      PROVE AbortedBorn'
  <2>1. queue[k] \in Inputs /\ phase[queue[k]] = "queued"
    BY InRange DEF LaneInv, LaneOK, TasksAccounted
  <2>2. queue[k] \notin aborted
    BY <2>1 DEF AbortedBorn
  <2>3. CASE Promote(k)
    BY <2>1, <2>2, <2>3, <1>1 DEF Promote, AbortedBorn
  <2>4. CASE InterruptQueuedRun(k)
    BY <2>1, <2>4, <1>1 DEF InterruptQueuedRun, AbortedBorn
  <2> QED
    BY <1>3, <2>3, <2>4
<1>4. CASE Interrupt
  <2>1. Range(queue) \subseteq Inputs
    BY InRange DEF LaneInv, LaneOK
  <2> QED
    BY <1>4, <2>1, <1>1 DEF Interrupt, AbortedBorn
<1>5. CASE InterruptRun
  BY <1>5, <1>1 DEF InterruptRun, AbortedBorn
<1>6. CASE RegisterHandle \/ CloseSteering
  BY <1>6, <1>1 DEF RegisterHandle, CloseSteering, taskVars, AbortedBorn
<1>7. CASE FrameworkStep
  BY <1>7 DEF FrameworkStep, TakeSteered, AcceptSteered, AcceptFails,
     FrameworkEnds, taskVars, AbortedBorn
<1>8. CASE WorkEnds
  <2>1. CASE WorkReturns
    BY <2>1, <1>1 DEF WorkReturns, AbortedBorn
  <2>2. CASE WorkThrows
    BY <2>2, FinishAborted DEF WorkThrows
  <2> QED
    BY <1>8, <2>1, <2>2 DEF WorkEnds
<1>9. CASE ChainStep
  <2>1. CASE RefusedThenReplaced
    BY <2>1, <1>0, AddTaskAborted DEF RefusedThenReplaced, ChainRuns
  <2>2. CASE ReplacementFails
    BY <2>2, <1>1 DEF ReplacementFails, ChainRuns, AbortedBorn, LaneInv, RequestsOK,
       ChainHeld
  <2>3. CASE SendSteer \/ RefusedAfterAbort \/ RefusedPromotion
    BY <2>3 DEF SendSteer, RefusedAfterAbort, RefusedPromotion, taskVars, AbortedBorn
  <2> QED
    BY <1>9, <2>1, <2>2, <2>3 DEF ChainStep
<1>10. CASE SettleStep
  <2>1. CASE ReplaceRecovered
    BY <2>1, <1>0, AddTaskAborted DEF ReplaceRecovered
  <2>2. CASE ChainFailed \/ RecoveryFails \/ Finish
    BY <2>2, FinishAborted DEF ChainFailed, RecoveryFails, Finish, Settles
  <2>3. CASE RejectUndelivered \/ RecoverUndelivered
    BY <2>3, <1>1 DEF RejectUndelivered, RecoverUndelivered, AbortedBorn
  <2>4. CASE RejectRecovered
    BY <2>4 DEF RejectRecovered, taskVars, AbortedBorn
  <2> QED
    BY <1>10, <2>1, <2>2, <2>3, <2>4 DEF SettleStep
<1>11. CASE UNCHANGED vars
  BY <1>11 DEF vars, AbortedBorn
<1> QED
  BY <1>2, <1>3, <1>4, <1>5, <1>6, <1>7, <1>8, <1>9, <1>10, <1>11 DEF Next

\* No task is aborted while it waits in the queue or in a promotion, so the
\* test of the signal at the top of startTask never has to reject one.
THEOREM WaitingTasksLive == Spec => []WaitingNotAborted
<1>1. Init => AbortedBorn
  BY DEF Init, AbortedBorn
<1>2. LaneInv /\ AbortedBorn /\ [Next]_vars => AbortedBorn'
  BY NextAbortedBorn
<1>3. AbortedBorn => WaitingNotAborted
  BY DEF AbortedBorn, WaitingNotAborted, Running, Ended, Waiting
<1> QED
  BY <1>1, <1>2, <1>3, LaneInvariant, PTL DEF Spec

-----------------------------------------------------------------------------
(* Verdicts.                                                               *)

\* No request stands twice in the books of the active task.
RequestsOnce ==
    /\ Distinct(chain)
    /\ Distinct(pend)
    /\ Range(chain) \cap Range(pend) = {}

\* What an input's verdict, acceptance and task allow each other to be.
\* A request that was flushed stays in the chain after an interrupt has
\* rejected it, so the chain may hold rejected requests; the list may not.
OwnerOK(i) ==
    /\ i \in Range(pend) => result[i] = "open"
    /\ i \in Range(chain) => result[i] \in {"open", "rejected"}
    /\ result[i] = "open" => phase[i] \in {"unborn", "promoted"}
    /\ result[i] = "none" => i \notin accepted
    /\ phase[i] = "unborn" /\ result[i] = "open" => i \notin accepted
    /\ result[i] = "delivered" =>
           i \in accepted /\ phase[i] \in {"unborn", "promoted", "rejected"}
    /\ result[i] = "replaced" => i \notin accepted /\ phase[i] # "unborn"

VerdictInv == RequestsOnce /\ \A i \in Inputs : OwnerOK(i)

\* Nothing about requests changes, and tasks move on only where no request
\* stands in the way.
LEMMA SameVerdicts ==
    ASSUME LaneInv, VerdictInv, UNCHANGED <<pend, chain, result, accepted>>,
           \A i \in Inputs :
               \/ phase'[i] = phase[i]
               \/ phase[i] = "unborn" /\ result[i] = "none" /\ phase'[i] # "unborn"
               \/ phase[i] \in {"queued"} \cup Running /\ phase'[i] # "unborn"
               \/ phase[i] = "promoted" /\ result[i] = "rejected" /\ phase'[i] # "unborn"
               \/ phase[i] = "promoted" /\ phase'[i] = "rejected" /\ result[i] # "open"
    PROVE  VerdictInv'
<1>1. RequestsOnce'
  BY DEF VerdictInv, RequestsOnce, Distinct
<1>2. ASSUME NEW i \in Inputs PROVE OwnerOK(i)'
  BY DEF VerdictInv, OwnerOK, Running
<1> QED
  BY <1>1, <1>2 DEF VerdictInv

\* Every open request is rejected; the chain stays, the list is emptied.
LEMMA RejectAllVerdicts ==
    ASSUME LaneInv, VerdictInv, Settle(SteerRequests, "rejected"),
           pend' = <<>>, chain' = chain \/ chain' = <<>>, UNCHANGED accepted,
           \A i \in Inputs :
               \/ phase'[i] = phase[i]
               \/ phase[i] \in {"queued"} \cup Running /\ phase'[i] # "unborn"
    PROVE  VerdictInv'
<1>1. Range(<<>>) = {} /\ Distinct(<<>>)
  BY EmptySeq, InRange DEF Distinct
<1>2. RequestsOnce'
  BY <1>1 DEF VerdictInv, RequestsOnce, Distinct
<1>3. ASSUME NEW i \in Inputs PROVE OwnerOK(i)'
  <2>1. /\ OwnerOK(i)
        /\ result[i] = "open" => result'[i] = "rejected"
        /\ result[i] # "open" => result'[i] = result[i]
    BY SettleAllLemma
       DEF VerdictInv, LaneInv, RequestsOK, OpenRequestsHeld, Settle, SteerRequests
  <2>2. Range(pend') = {} /\ Range(chain') \subseteq Range(chain)
    BY <1>1
  <2> QED
    BY <2>1, <2>2 DEF OwnerOK, Running
<1> QED
  BY <1>2, <1>3 DEF VerdictInv

\* The task ends with its books empty.
LEMMA FinishVerdicts ==
    ASSUME LaneInv, VerdictInv, active # NoRun,
           NEW verdict \in Ended, FinishActive(verdict), UNCHANGED accepted,
           Settle(SteerRequests, "rejected") \/ result' = result
    PROVE  VerdictInv'
<1>1. /\ Range(<<>>) = {} /\ Distinct(<<>>)
      /\ chain' = <<>> /\ pend' = <<>>
  BY EmptySeq, InRange DEF Distinct, FinishActive
<1>2. RequestsOnce'
  BY <1>1 DEF RequestsOnce
<1>3. active \in Inputs /\ phase[active] \in Running
  BY DEF LaneInv, LaneOK, OneRunAtATime
<1>4. queue # <<>> => Head(queue) \in Inputs /\ phase[Head(queue)] = "queued"
  BY TailLemma DEF LaneInv, LaneOK, TasksAccounted
<1>5. ASSUME NEW i \in Inputs PROVE OwnerOK(i)'
  <2>1. phase'[i] = CASE i = active -> verdict
                      [] queue # <<>> /\ i = Head(queue) -> "starting"
                      [] OTHER -> phase[i]
    BY DEF FinishActive
  <2>2. \/ phase'[i] = phase[i]
        \/ phase[i] \in {"queued"} \cup Running /\ phase'[i] # "unborn"
    <3>1. CASE i = active
      <4>1. phase'[i] = verdict
        BY <2>1, <3>1, <1>3, <1>4 DEF Running
      <4> QED
        BY <4>1, <3>1, <1>3 DEF Ended
    <3>2. CASE i # active /\ queue # <<>> /\ i = Head(queue)
      BY <2>1, <3>2, <1>4
    <3>3. CASE i # active /\ ~(queue # <<>> /\ i = Head(queue))
      BY <2>1, <3>3
    <3> QED
      BY <3>1, <3>2, <3>3
  <2>3. /\ OwnerOK(i)
        /\ result[i] = "open" => result'[i] \in {"open", "rejected"}
        /\ result[i] # "open" => result'[i] = result[i]
    BY DEF VerdictInv, LaneInv, RequestsOK, Settle
  <2> QED
    BY <1>1, <2>2, <2>3 DEF OwnerOK, Running
<1> QED
  BY <1>2, <1>5 DEF VerdictInv

\* steer and promoteQueuedRun push an input that the books do not name.
LEMMA PushVerdicts ==
    ASSUME LaneInv, VerdictInv, NEW i \in Inputs, PushRequest(i),
           i \notin Range(chain) \cup Range(pend), UNCHANGED accepted,
           \/ phase'[i] = "promoted"
           \/ phase'[i] = "unborn" /\ i \notin accepted,
           \A j \in Inputs : j # i => phase'[j] = phase[j]
    PROVE  VerdictInv'
<1>0. chain \in Seq(Inputs) /\ pend \in Seq(Inputs) /\ result \in [Inputs -> Results]
  BY DEF LaneInv, RequestsOK
<1>1. Distinct(chain) /\ Distinct(pend) /\ Range(chain) \cap Range(pend) = {}
  BY DEF VerdictInv, RequestsOnce
<1>2. /\ RequestsOnce'
      /\ Range(chain') \subseteq Range(chain) \cup {i}
      /\ Range(pend') \subseteq Range(pend) \cup {i}
  <2>1. CASE phase[active] = "live"
    <3>1. chain' = Append(chain, i) /\ pend' = pend
      BY <2>1 DEF PushRequest
    <3>2. Range(chain') = Range(chain) \cup {i} /\ Distinct(chain')
      BY <3>1, <1>0, <1>1, AppendLemma
    <3>3. Distinct(pend') /\ Range(pend') = Range(pend)
      BY <3>1, <1>1
    <3> QED
      BY <3>2, <3>3, <1>1 DEF RequestsOnce
  <2>2. CASE phase[active] # "live"
    <3>1. pend' = Append(pend, i) /\ chain' = chain
      BY <2>2 DEF PushRequest
    <3>2. Range(pend') = Range(pend) \cup {i} /\ Distinct(pend')
      BY <3>1, <1>0, <1>1, AppendLemma
    <3>3. Distinct(chain') /\ Range(chain') = Range(chain)
      BY <3>1, <1>1
    <3> QED
      BY <3>2, <3>3, <1>1 DEF RequestsOnce
  <2> QED
    BY <2>1, <2>2
<1>3. ASSUME NEW j \in Inputs PROVE OwnerOK(j)'
  <2>1. /\ OwnerOK(j)
        /\ result'[j] = IF j = i THEN "open" ELSE result[j]
    BY <1>0 DEF VerdictInv, PushRequest
  <2> QED
    BY <2>1, <1>2 DEF OwnerOK
<1> QED
  BY <1>2, <1>3 DEF VerdictInv

\* One request h is settled and leaves the books.
LEMMA SettledVerdicts ==
    ASSUME LaneInv, VerdictInv, NEW h \in Inputs,
           NEW v \in {"delivered", "replaced", "rejected"}, Settle({h}, v),
           RequestsOnce', result[h] \in {"open", "rejected"},
           Range(chain') \subseteq Range(chain) \ {h},
           Range(pend') \subseteq Range(pend) \ {h},
           \/ v = "delivered" /\ accepted' = accepted \cup {h} /\ phase'[h] = phase[h]
           \/ v = "rejected" /\ accepted' = accepted /\ phase'[h] = phase[h]
           \/ /\ v = "replaced" /\ accepted' = accepted
              /\ phase[h] = "unborn" /\ phase'[h] # "unborn",
           \A j \in Inputs : j # h => phase'[j] = phase[j]
    PROVE  VerdictInv'
<1>1. ASSUME NEW j \in Inputs, j # h PROVE OwnerOK(j)'
  <2>1. OwnerOK(j) /\ result'[j] = result[j]
    BY <1>1 DEF VerdictInv, Settle
  <2> QED
    BY <1>1, <2>1 DEF OwnerOK
<1>2. OwnerOK(h)'
  <2>1. OwnerOK(h) /\ result'[h] = IF result[h] = "open" THEN v ELSE result[h]
    BY DEF VerdictInv, Settle
  <2> QED
    BY <2>1 DEF OwnerOK
<1> QED
  BY <1>1, <1>2 DEF VerdictInv

LEMMA PopChainVerdicts ==
    ASSUME LaneInv, VerdictInv, chain # <<>>,
           NEW v \in {"delivered", "replaced", "rejected"},
           Settle({Head(chain)}, v), chain' = Tail(chain), UNCHANGED pend,
           \/ /\ v = "delivered" /\ accepted' = accepted \cup {Head(chain)}
              /\ phase'[Head(chain)] = phase[Head(chain)]
           \/ /\ v = "rejected" /\ accepted' = accepted
              /\ phase'[Head(chain)] = phase[Head(chain)]
           \/ /\ v = "replaced" /\ accepted' = accepted
              /\ phase[Head(chain)] = "unborn" /\ phase'[Head(chain)] # "unborn",
           \A j \in Inputs : j # Head(chain) => phase'[j] = phase[j]
    PROVE  VerdictInv'
<1>0. chain \in Seq(Inputs) /\ Distinct(chain)
  BY DEF LaneInv, RequestsOK, VerdictInv, RequestsOnce
<1>1. /\ Head(chain) \in Inputs
      /\ Range(chain) = Range(chain') \cup {Head(chain)}
      /\ Distinct(chain') /\ Head(chain) \notin Range(chain')
  BY <1>0, TailLemma
<1>2. RequestsOnce'
  BY <1>1 DEF VerdictInv, RequestsOnce, Distinct
<1>3. Range(pend') \subseteq Range(pend) \ {Head(chain)}
  BY <1>1 DEF VerdictInv, RequestsOnce
<1>4. result[Head(chain)] \in {"open", "rejected"}
  BY <1>1 DEF VerdictInv, OwnerOK
<1> QED
  BY <1>1, <1>2, <1>3, <1>4, SettledVerdicts

LEMMA PopPendVerdicts ==
    ASSUME LaneInv, VerdictInv, pend # <<>>,
           NEW v \in {"replaced", "rejected"},
           Settle({Head(pend)}, v), pend' = Tail(pend), UNCHANGED <<chain, accepted>>,
           \/ v = "rejected" /\ phase'[Head(pend)] = phase[Head(pend)]
           \/ /\ v = "replaced"
              /\ phase[Head(pend)] = "unborn" /\ phase'[Head(pend)] # "unborn",
           \A j \in Inputs : j # Head(pend) => phase'[j] = phase[j]
    PROVE  VerdictInv'
<1>0. pend \in Seq(Inputs) /\ Distinct(pend)
  BY DEF LaneInv, RequestsOK, VerdictInv, RequestsOnce
<1>1. /\ Head(pend) \in Inputs
      /\ Range(pend) = Range(pend') \cup {Head(pend)}
      /\ Distinct(pend') /\ Head(pend) \notin Range(pend')
  BY <1>0, TailLemma
<1>2. RequestsOnce'
  BY <1>1 DEF VerdictInv, RequestsOnce, Distinct
<1>3. Range(chain') \subseteq Range(chain) \ {Head(pend)}
  BY <1>1 DEF VerdictInv, RequestsOnce
<1>4. result[Head(pend)] \in {"open", "rejected"}
  BY <1>1 DEF VerdictInv, OwnerOK
<1> QED
  BY <1>1, <1>2, <1>3, <1>4, SettledVerdicts

\* A task is added for an input that had none.
LEMMA AddTaskPhases ==
    ASSUME LaneInv, NEW i \in Inputs, AddTask(i)
    PROVE  /\ phase'[i] \in {"starting", "queued"}
           /\ \A j \in Inputs : j # i => phase'[j] = phase[j]
  BY DEF LaneInv, LaneOK, AddTask

-----------------------------------------------------------------------------
LEMMA CommandsKeepVerdicts ==
    ASSUME LaneInv, VerdictInv,
           \/ \E i \in Inputs : Enqueue(i) \/ Steer(i)
           \/ \E k \in 1..Len(queue) : Promote(k) \/ InterruptQueuedRun(k)
           \/ Interrupt
           \/ InterruptRun
    PROVE  VerdictInv'
<1>0. phase \in [Inputs -> Phases] /\ \A i \in Inputs : OwnerOK(i)
  BY DEF LaneInv, LaneOK, VerdictInv
<1>1. ASSUME NEW i \in Inputs, Enqueue(i) PROVE VerdictInv'
  <2>1. \A j \in Inputs : j # i => phase'[j] = phase[j]
    BY <1>1, AddTaskPhases DEF Enqueue
  <2>2. phase[i] = "unborn" /\ result[i] = "none" /\ phase'[i] # "unborn"
    BY <1>1, AddTaskPhases DEF Enqueue
  <2> QED
    BY <1>1, <2>1, <2>2, SameVerdicts DEF Enqueue, steerVars
<1>2. ASSUME NEW i \in Inputs, Steer(i) PROVE VerdictInv'
  <2>1. i \notin Range(chain) \cup Range(pend) /\ i \notin accepted
    BY <1>2, <1>0 DEF Steer, OwnerOK
  <2> QED
    BY <1>2, <2>1, PushVerdicts DEF Steer, taskVars
<1>3. ASSUME NEW k \in 1..Len(queue), Promote(k) PROVE VerdictInv'
  <2> DEFINE i == queue[k]
  <2>1. i \in Inputs /\ phase[i] = "queued"
    BY InRange DEF LaneInv, LaneOK, TasksAccounted
  <2>2. /\ i \notin Range(chain) \cup Range(pend)
        /\ PushRequest(i) /\ UNCHANGED accepted
        /\ phase' = [phase EXCEPT ![i] = "promoted"]
    BY <1>3, <2>1, <1>0 DEF Promote, OwnerOK
  <2> HIDE DEF i
  <2> QED
    BY <2>1, <2>2, <1>0, PushVerdicts
<1>4. ASSUME NEW k \in 1..Len(queue), InterruptQueuedRun(k) PROVE VerdictInv'
  <2>1. queue[k] \in Inputs /\ phase[queue[k]] = "queued"
    BY InRange DEF LaneInv, LaneOK, TasksAccounted
  <2> QED
    BY <1>4, <2>1, <1>0, SameVerdicts DEF InterruptQueuedRun, steerVars
<1>5. CASE Interrupt
  <2>1. \A i \in Inputs : i \in Range(queue) => phase[i] = "queued"
    BY DEF LaneInv, LaneOK, TasksAccounted
  <2>2. \A i \in Inputs :
            \/ phase'[i] = phase[i]
            \/ phase[i] = "queued" /\ phase'[i] # "unborn"
    BY <1>5, <2>1 DEF Interrupt
  <2> QED
    BY <1>5, <2>2, RejectAllVerdicts DEF Interrupt, AbortActive
<1>6. CASE InterruptRun
  BY <1>6, RejectAllVerdicts DEF InterruptRun, AbortActive
<1> QED
  BY <1>1, <1>2, <1>3, <1>4, <1>5, <1>6

LEMMA FrameworkKeepsVerdicts ==
    ASSUME LaneInv, VerdictInv,
           RegisterHandle \/ CloseSteering \/ FrameworkStep \/ WorkEnds
    PROVE  VerdictInv'
<1>0. /\ phase \in [Inputs -> Phases]
      /\ active # NoRun => active \in Inputs /\ phase[active] \in Running
      /\ head # "idle" => chain # <<>>
  BY DEF LaneInv, LaneOK, OneRunAtATime, RequestsOK, ChainHeld
<1>1. CASE RegisterHandle
  <2>1. /\ chain' = pend /\ pend' = <<>>
        /\ phase' = [phase EXCEPT ![active] = "live"]
        /\ UNCHANGED <<result, accepted>>
        /\ active \in Inputs /\ phase[active] = "starting"
    BY <1>1, <1>0 DEF RegisterHandle
  <2>2. Range(<<>>) = {} /\ Distinct(<<>>)
    BY EmptySeq, InRange DEF Distinct
  <2>3. RequestsOnce'
    BY <2>1, <2>2 DEF VerdictInv, RequestsOnce, Distinct
  <2>4. ASSUME NEW i \in Inputs PROVE OwnerOK(i)'
    <3>1. OwnerOK(i)
      BY DEF VerdictInv
    <3>2. /\ Range(chain') = Range(pend) /\ Range(pend') = {}
          /\ phase'[i] = IF i = active THEN "live" ELSE phase[i]
      BY <2>1, <2>2, <1>0
    <3> QED
      BY <3>1, <3>2, <2>1 DEF OwnerOK
  <2> QED
    BY <2>3, <2>4 DEF VerdictInv
<1>2. CASE CloseSteering
  BY <1>2, SameVerdicts DEF CloseSteering, taskVars, steerVars
<1>3. CASE AcceptSteered
  <2>1. chain # <<>> /\ phase' = phase
    BY <1>3, <1>0 DEF AcceptSteered, taskVars
  <2> QED
    BY <1>3, <2>1, PopChainVerdicts DEF AcceptSteered
<1>4. CASE TakeSteered \/ AcceptFails \/ FrameworkEnds
  BY <1>4, SameVerdicts DEF TakeSteered, AcceptFails, FrameworkEnds, taskVars
<1>5. CASE WorkReturns
  BY <1>5, <1>0, SameVerdicts DEF WorkReturns, steerVars
<1>6. CASE WorkThrows
  BY <1>6, FinishVerdicts DEF WorkThrows, Ended
<1> QED
  BY <1>1, <1>2, <1>3, <1>4, <1>5, <1>6 DEF FrameworkStep, WorkEnds

LEMMA ReactionsKeepVerdicts ==
    ASSUME LaneInv, VerdictInv,
           \/ \E i \in Inputs : Reaction(i)
           \/ ChainStep
           \/ SettleStep
    PROVE  VerdictInv'
<1>0. /\ phase \in [Inputs -> Phases]
      /\ active # NoRun => active \in Inputs /\ phase[active] \in Running
      /\ chain # <<>> => Head(chain) \in Inputs
      /\ pend # <<>> => Head(pend) \in Inputs
  BY TailLemma DEF LaneInv, LaneOK, OneRunAtATime, RequestsOK
<1>1. ASSUME NEW i \in Inputs, PromotionDelivered(i) PROVE VerdictInv'
  BY <1>1, <1>0, SameVerdicts DEF PromotionDelivered, steerVars
<1>2. ASSUME NEW i \in Inputs, PromotionRejected(i) PROVE VerdictInv'
  <2>1. /\ phase[i] = "promoted" /\ result[i] = "rejected" /\ phase'[i] # "unborn"
        /\ \A j \in Inputs : j # i => phase'[j] = phase[j]
    BY <1>2, <1>0 DEF PromotionRejected, PutBack
  <2> QED
    BY <1>2, <2>1, SameVerdicts DEF PromotionRejected, steerVars
<1>3. CASE SendSteer
  BY <1>3, SameVerdicts DEF SendSteer, taskVars
<1>4. CASE RefusedAfterAbort
  BY <1>4, PopChainVerdicts DEF RefusedAfterAbort, ChainRuns, taskVars
<1>5. CASE RefusedPromotion
  BY <1>5, PopChainVerdicts DEF RefusedPromotion, ChainRuns, taskVars
<1>6. CASE RefusedThenReplaced
  <2>1. chain # <<>> /\ phase[Head(chain)] = "unborn" /\ AddTask(Head(chain))
    BY <1>6 DEF RefusedThenReplaced, ChainRuns
  <2>2. /\ phase'[Head(chain)] # "unborn"
        /\ \A j \in Inputs : j # Head(chain) => phase'[j] = phase[j]
    BY <2>1, <1>0, AddTaskPhases
  <2> QED
    BY <1>6, <2>1, <2>2, PopChainVerdicts DEF RefusedThenReplaced
<1>7. CASE ReplacementFails
  BY <1>7, PopChainVerdicts DEF ReplacementFails, ChainRuns
<1>8. CASE ChainFailed
  BY <1>8, FinishVerdicts DEF ChainFailed, Settles, Ended
<1>9. CASE RejectUndelivered
  BY <1>9, <1>0, RejectAllVerdicts DEF RejectUndelivered, Settles
<1>10. CASE RecoverUndelivered
  BY <1>10, <1>0, SameVerdicts DEF RecoverUndelivered, Settles, steerVars
<1>11. CASE RejectRecovered
  BY <1>11, PopPendVerdicts DEF RejectRecovered, taskVars
<1>12. CASE ReplaceRecovered
  <2>1. pend # <<>> /\ phase[Head(pend)] = "unborn" /\ AddTask(Head(pend))
    BY <1>12 DEF ReplaceRecovered
  <2>2. /\ phase'[Head(pend)] # "unborn"
        /\ \A j \in Inputs : j # Head(pend) => phase'[j] = phase[j]
    BY <2>1, <1>0, AddTaskPhases
  <2> QED
    BY <1>12, <2>1, <2>2, PopPendVerdicts DEF ReplaceRecovered
<1>13. CASE RecoveryFails
  BY <1>13, FinishVerdicts DEF RecoveryFails, Settles, Ended
<1>14. CASE Finish
  BY <1>14, FinishVerdicts DEF Finish, Settles, Ended
<1> QED
  BY <1>1, <1>2, <1>3, <1>4, <1>5, <1>6, <1>7, <1>8, <1>9, <1>10, <1>11, <1>12,
     <1>13, <1>14
     DEF Reaction, ChainStep, SettleStep

LEMMA NextVerdictInv == LaneInv /\ VerdictInv /\ [Next]_vars => VerdictInv'
<1> SUFFICES ASSUME LaneInv, VerdictInv, [Next]_vars PROVE VerdictInv'
  OBVIOUS
<1>1. CASE UNCHANGED vars
  BY <1>1, SameVerdicts DEF vars
<1>2. CASE Next
  BY <1>2, CommandsKeepVerdicts, FrameworkKeepsVerdicts, ReactionsKeepVerdicts DEF Next
<1> QED
  BY <1>1, <1>2

LEMMA VerdictInvariant == Spec => []VerdictInv
<1>1. Init => VerdictInv
  <2>1. Range(<<>>) = {} /\ Distinct(<<>>)
    BY EmptySeq, InRange DEF Distinct
  <2> QED
    BY <2>1 DEF Init, VerdictInv, RequestsOnce, OwnerOK
<1> QED
  BY <1>1, NextVerdictInv, LaneInvariant, PTL DEF Spec

\* A caller that is told "delivered" has its input accepted by the active run
\* and its own task never runs; one that is told "replaced" has a run of its
\* own and the input was not accepted as well.
THEOREM VerdictsTrue == Spec => []VerdictIsTrue
<1>1. VerdictInv => VerdictIsTrue
  BY DEF VerdictInv, OwnerOK, VerdictIsTrue
<1> QED
  BY <1>1, VerdictInvariant, PTL

-----------------------------------------------------------------------------
(* Commands admitted one at a time.                                        *)

\* x got its task before y did.
Before(x, y) ==
    \E m, n \in 1..Len(born) : m < n /\ born[m] = x /\ born[n] = y

\* y may stand behind x.
MayFollow(x, y) == result[y] = "rejected" \/ Before(x, y)

\* The queue is in order, and whoever stands behind the place of a promoted
\* task may stand behind that task.
OrderInv ==
    /\ \A i \in Inputs : phase[i] # "unborn" => i \in Range(born)
    /\ \A j, k \in 1..Len(queue) : j < k => MayFollow(queue[j], queue[k])
    /\ \A i \in Inputs : phase[i] = "promoted" =>
           \A k \in 1..Len(queue) : k > home[i] => MayFollow(i, queue[k])
    /\ \A i, j \in Inputs : phase[i] = "promoted" /\ phase[j] = "promoted" => i = j

\* Every request in the books is open: no interrupt finds one there.
BooksOpen == \A i \in Inputs : i \in Range(chain) \cup Range(pend) => result[i] = "open"

\* What is born stays born, and who may follow a task may follow it later on.
LEMMA StillFollows ==
    ASSUME NEW x \in Inputs, NEW y \in Inputs, MayFollow(x, y), born \in Seq(Inputs),
           born' = born \/ \E e \in Inputs : born' = Append(born, e),
           result[y] = "rejected" => result'[y] = "rejected"
    PROVE  MayFollow(x, y)'
<1>1. Len(born) \in Nat /\ Len(born') \in Nat /\ Len(born) <= Len(born')
      /\ \A n \in 1..Len(born) : born'[n] = born[n]
  BY AppendProperties, LenProperties
<1>2. ASSUME Before(x, y) PROVE Before(x, y)'
  <2>1. PICK m \in 1..Len(born), n \in 1..Len(born) : m < n /\ born[m] = x /\ born[n] = y
    BY <1>2 DEF Before
  <2>2. m \in 1..Len(born') /\ n \in 1..Len(born') /\ born'[m] = x /\ born'[n] = y
    BY <1>1, <2>1
  <2> QED
    BY <2>1, <2>2 DEF Before
<1> QED
  BY <1>2 DEF MayFollow

\* A new task stands behind every other one.
LEMMA NewFollows ==
    ASSUME born \in Seq(Inputs), NEW x \in Range(born), NEW e \in Inputs,
           born' = Append(born, e)
    PROVE  MayFollow(x, e)'
<1>1. PICK m \in 1..Len(born) : born[m] = x
  BY InRange
<1>2. /\ Len(born) \in Nat /\ Len(born') = Len(born) + 1 /\ born'[Len(born) + 1] = e
      /\ born'[m] = x
  BY <1>1, AppendProperties, LenProperties
<1>3. m \in 1..Len(born') /\ Len(born) + 1 \in 1..Len(born') /\ m < Len(born) + 1
  BY <1>1, <1>2
<1>4. Before(x, e)'
  BY <1>2, <1>3 DEF Before
<1> QED
  BY <1>4 DEF MayFollow

\* The queue loses tasks and keeps the order of the others.
Thinned(old, new) ==
    \A j, k \in 1..Len(new) : j < k \/ j = k =>
        \E m, n \in 1..Len(old) :
            /\ new[j] = old[m] /\ new[k] = old[n]
            /\ j <= m /\ k <= n /\ (j < k => m < n)

LEMMA SameThinned ==
    ASSUME NEW s \in Seq(Inputs)
    PROVE  Thinned(s, s)
  BY LenProperties DEF Thinned

LEMMA TailThinned ==
    ASSUME NEW s \in Seq(Inputs), s # <<>>
    PROVE  Thinned(s, Tail(s))
<1>1. /\ Len(s) \in Nat /\ Tail(s) \in Seq(Inputs) /\ Len(Tail(s)) = Len(s) - 1
      /\ \A i \in 1..Len(Tail(s)) : Tail(s)[i] = s[i + 1]
  BY HeadTailProperties, LenProperties, EmptySeq
<1> DEFINE t == Tail(s)
<1> HIDE DEF t
<1>2. ASSUME NEW j \in 1..Len(t), NEW k \in 1..Len(t), j < k \/ j = k
      PROVE  \E m, n \in 1..Len(s) :
                /\ t[j] = s[m] /\ t[k] = s[n]
                /\ j <= m /\ k <= n /\ (j < k => m < n)
  <2>1. /\ j + 1 \in 1..Len(s) /\ k + 1 \in 1..Len(s) /\ t[j] = s[j + 1] /\ t[k] = s[k + 1]
        /\ j <= j + 1 /\ k <= k + 1 /\ (j < k => j + 1 < k + 1)
    BY <1>1 DEF t
  <2> QED
    BY <2>1
<1> QED
  BY <1>2 DEF Thinned, t

LEMMA WithoutThinned ==
    ASSUME NEW s \in Seq(Inputs), NEW p \in 1..Len(s)
    PROVE  Thinned(s, Without(s, p))
<1> DEFINE t == Without(s, p)
<1>1. /\ Len(s) \in Nat /\ Len(t) = Len(s) - 1
      /\ \A i \in 1..Len(t) : t[i] = IF i < p THEN s[i] ELSE s[i + 1]
  BY WithoutLemma, LenProperties
<1> HIDE DEF t
<1>2. ASSUME NEW j \in 1..Len(t), NEW k \in 1..Len(t), j < k \/ j = k
      PROVE  \E m, n \in 1..Len(s) :
                /\ t[j] = s[m] /\ t[k] = s[n]
                /\ j <= m /\ k <= n /\ (j < k => m < n)
  <2>1. PICK m : m = IF j < p THEN j ELSE j + 1
    OBVIOUS
  <2>2. PICK n : n = IF k < p THEN k ELSE k + 1
    OBVIOUS
  <2>3. /\ m \in 1..Len(s) /\ n \in 1..Len(s) /\ t[j] = s[m] /\ t[k] = s[n]
        /\ j <= m /\ k <= n /\ (j < k => m < n)
    BY <1>1, <1>2, <2>1, <2>2
  <2> QED
    BY <2>3
<1> QED
  BY <1>2 DEF Thinned, t

\* A step that creates and restores no task.
LEMMA ThinnedOrder ==
    ASSUME LaneInv, OrderInv, Thinned(queue, queue'), born' = born,
           \A i \in Inputs : phase'[i] # "unborn" => phase[i] # "unborn",
           \A i \in Inputs : phase'[i] = "promoted" => phase[i] = "promoted" /\ home'[i] = home[i],
           \A i \in Range(queue) : result[i] = "rejected" => result'[i] = "rejected"
    PROVE  OrderInv'
<1>1. /\ queue \in Seq(Inputs) /\ born \in Seq(Inputs) /\ home \in [Inputs -> Nat]
      /\ \A n \in 1..Len(queue) : queue[n] \in Inputs /\ queue[n] \in Range(queue)
      /\ Len(queue) \in Nat
  BY InRange, LenProperties DEF LaneInv, LaneOK, RestOK
<1>2. ASSUME NEW j \in 1..Len(queue'), NEW k \in 1..Len(queue'), j < k
      PROVE  MayFollow(queue[j], queue[k])'
  <2>1. PICK m \in 1..Len(queue), n \in 1..Len(queue) :
          queue'[j] = queue[m] /\ queue'[k] = queue[n] /\ m < n
    BY <1>2 DEF Thinned
  <2>2. PICK x \in Inputs, y \in Inputs : x = queue[m] /\ y = queue[n]
    BY <1>1
  <2>3. MayFollow(x, y)
    BY <2>1, <2>2 DEF OrderInv
  <2>4. MayFollow(x, y)'
    BY <1>1, <2>2, <2>3, StillFollows
  <2> QED
    BY <2>1, <2>2, <2>4 DEF MayFollow, Before
<1>3. ASSUME NEW i \in Inputs, phase'[i] = "promoted", NEW k \in 1..Len(queue'), k > home'[i]
      PROVE  MayFollow(i, queue[k])'
  <2>1. PICK n \in 1..Len(queue) : queue'[k] = queue[n] /\ k <= n
    BY <1>3 DEF Thinned
  <2>2. PICK y \in Inputs : y = queue[n]
    BY <1>1
  <2>3. phase[i] = "promoted" /\ home'[i] = home[i] /\ home[i] \in Nat
    BY <1>1, <1>3
  <2>4. n > home[i]
    BY <1>1, <1>3, <2>1, <2>3
  <2>5. MayFollow(i, y)
    BY <2>2, <2>3, <2>4 DEF OrderInv
  <2>6. MayFollow(i, y)'
    BY <1>1, <2>2, <2>5, StillFollows
  <2> QED
    BY <2>1, <2>2, <2>6 DEF MayFollow, Before
<1>4. \A i \in Inputs : phase'[i] # "unborn" => i \in Range(born')
  BY DEF OrderInv
<1>5. \A i, j \in Inputs : phase'[i] = "promoted" /\ phase'[j] = "promoted" => i = j
  BY DEF OrderInv
<1> QED
  BY <1>2, <1>3, <1>4, <1>5 DEF OrderInv

\* Tasks change places with none: those of a step outside the queue.
LEMMA SameOrder ==
    ASSUME LaneInv, OrderInv, UNCHANGED <<queue, born>>,
           \A i \in Inputs : phase'[i] # "unborn" => phase[i] # "unborn",
           \A i \in Inputs : phase'[i] = "promoted" => phase[i] = "promoted" /\ home'[i] = home[i],
           \A i \in Inputs : result[i] = "rejected" => result'[i] = "rejected"
    PROVE  OrderInv'
<1>1. queue \in Seq(Inputs) /\ Range(queue) \subseteq Inputs
  BY InRange DEF LaneInv, LaneOK
<1>2. Thinned(queue, queue')
  BY <1>1, SameThinned
<1> QED
  BY <1>1, <1>2, ThinnedOrder

LEMMA AddTaskOrder ==
    ASSUME LaneInv, OrderInv, NEW e \in Inputs, phase[e] = "unborn", AddTask(e), home' = home,
           \A i \in Inputs : result[i] = "rejected" => result'[i] = "rejected"
    PROVE  OrderInv'
<1>1. /\ queue \in Seq(Inputs) /\ born \in Seq(Inputs) /\ home \in [Inputs -> Nat]
      /\ \A n \in 1..Len(queue) : queue[n] \in Inputs /\ queue[n] \in Range(queue)
      /\ Len(queue) \in Nat /\ phase \in [Inputs -> Phases]
      /\ \A i \in Inputs : phase[i] = "queued" <=> i \in Range(queue)
  BY InRange, LenProperties DEF LaneInv, LaneOK, RestOK, TasksAccounted
<1>2. born' = Append(born, e) /\ Range(born') = Range(born) \cup {e}
  BY <1>1, AppendLemma DEF AddTask
<1>3. /\ phase'[e] \in {"starting", "queued"}
      /\ \A j \in Inputs : j # e => phase'[j] = phase[j]
  BY AddTaskPhases
<1>4. \/ queue' = queue
      \/ queue' = Append(queue, e)
  BY DEF AddTask
<1>5. /\ \A n \in 1..Len(queue) : queue'[n] = queue[n]
      /\ \A n \in 1..Len(queue') :
            \/ n \in 1..Len(queue)
            \/ n = Len(queue) + 1 /\ queue'[n] = e
      /\ Len(queue') \in {Len(queue), Len(queue) + 1}
  <2>1. CASE queue' = queue
    BY <2>1
  <2>2. CASE queue' = Append(queue, e)
    <3>1. /\ Len(queue') = Len(queue) + 1 /\ queue'[Len(queue) + 1] = e
          /\ \A n \in 1..Len(queue) : queue'[n] = queue[n]
      BY <1>1, <2>2, AppendProperties
    <3> QED
      BY <1>1, <3>1
  <2> QED
    BY <1>4, <2>1, <2>2
<1>6. \A i \in Inputs : phase[i] # "unborn" => i \in Range(born)
  BY DEF OrderInv
<1>7. ASSUME NEW x \in Inputs, phase[x] # "unborn", NEW k \in 1..Len(queue'),
             k \in 1..Len(queue) => MayFollow(x, queue[k])
      PROVE  MayFollow(x, queue[k])'
  <2>1. CASE k \in 1..Len(queue)
    <3>1. PICK y \in Inputs : y = queue[k]
      BY <1>1, <2>1
    <3>2. MayFollow(x, y)'
      BY <1>1, <1>2, <1>7, <2>1, <3>1, StillFollows
    <3> QED
      BY <1>5, <2>1, <3>1, <3>2 DEF MayFollow, Before
  <2>2. CASE k \notin 1..Len(queue)
    <3>1. queue'[k] = e
      BY <1>5, <2>2
    <3>2. MayFollow(x, e)'
      BY <1>1, <1>2, <1>6, <1>7, NewFollows
    <3> QED
      BY <3>1, <3>2 DEF MayFollow, Before
  <2> QED
    BY <2>1, <2>2
<1>8. ASSUME NEW j \in 1..Len(queue'), NEW k \in 1..Len(queue'), j < k
      PROVE  MayFollow(queue[j], queue[k])'
  <2>1. j \in 1..Len(queue)
    BY <1>1, <1>5, <1>8
  <2>2. PICK x \in Inputs : x = queue[j] /\ phase[x] = "queued"
    BY <1>1, <2>1
  <2>3. k \in 1..Len(queue) => MayFollow(x, queue[k])
    BY <1>8, <2>1, <2>2 DEF OrderInv
  <2>4. MayFollow(x, queue[k])'
    BY <1>7, <2>2, <2>3
  <2> QED
    BY <1>5, <2>1, <2>2, <2>4 DEF MayFollow, Before
<1>9. ASSUME NEW i \in Inputs, phase'[i] = "promoted", NEW k \in 1..Len(queue'), k > home'[i]
      PROVE  MayFollow(i, queue[k])'
  <2>1. phase[i] = "promoted"
    BY <1>3, <1>9
  <2>2. k \in 1..Len(queue) => MayFollow(i, queue[k])
    BY <1>9, <2>1 DEF OrderInv
  <2> QED
    BY <1>7, <2>1, <2>2
<1>10. \A i \in Inputs : phase'[i] # "unborn" => i \in Range(born')
  BY <1>2, <1>3, <1>6
<1>11. \A i, j \in Inputs : phase'[i] = "promoted" /\ phase'[j] = "promoted" => i = j
  BY <1>3 DEF OrderInv
<1> QED
  BY <1>8, <1>9, <1>10, <1>11 DEF OrderInv

LEMMA FinishOrder ==
    ASSUME LaneInv, OrderInv, active # NoRun, NEW verdict \in Ended, FinishActive(verdict),
           UNCHANGED <<born, home>>,
           \A i \in Inputs : result[i] = "rejected" => result'[i] = "rejected"
    PROVE  OrderInv'
<1>1. /\ queue \in Seq(Inputs) /\ Range(queue) \subseteq Inputs
      /\ active \in Inputs /\ phase[active] \in Running
      /\ queue # <<>> => Head(queue) \in Inputs /\ phase[Head(queue)] = "queued"
  BY InRange, TailLemma DEF LaneInv, LaneOK, OneRunAtATime, TasksAccounted
<1>2. Thinned(queue, queue')
  BY <1>1, SameThinned, TailThinned DEF FinishActive
<1>3. ASSUME NEW i \in Inputs
      PROVE  \/ phase'[i] = phase[i]
             \/ phase[i] # "unborn" /\ phase'[i] # "promoted"
  <2>1. phase'[i] = CASE i = active -> verdict
                      [] queue # <<>> /\ i = Head(queue) -> "starting"
                      [] OTHER -> phase[i]
    BY DEF FinishActive
  <2>2. CASE i = active
    <3>1. active # Head(queue) \/ queue = <<>>
      BY <1>1 DEF Running
    <3>2. phase'[i] = verdict
      BY <2>1, <2>2, <3>1
    <3> QED
      BY <1>1, <2>2, <3>2 DEF Running, Ended
  <2>3. CASE i # active
    BY <1>1, <2>1, <2>3
  <2> QED
    BY <2>2, <2>3
<1> QED
  BY <1>1, <1>2, <1>3, ThinnedOrder

\* A promoted task leaves its place, and none other is promoted.
LEMMA PromoteOrder ==
    ASSUME LaneInv, OrderInv, \A j \in Inputs : phase[j] # "promoted",
           NEW p \in 1..Len(queue), NEW i, i = queue[p],
           queue' = Without(queue, p), phase' = [phase EXCEPT ![i] = "promoted"],
           home' = [home EXCEPT ![i] = p - 1], born' = born,
           \A j \in Inputs : result[j] = "rejected" /\ j # i => result'[j] = "rejected"
    PROVE  OrderInv'
<1>1. /\ queue \in Seq(Inputs) /\ born \in Seq(Inputs) /\ home \in [Inputs -> Nat]
      /\ \A n \in 1..Len(queue) : queue[n] \in Inputs
      /\ Len(queue) \in Nat /\ phase \in [Inputs -> Phases] /\ i \in Inputs
      /\ Distinct(queue)
      /\ \A j \in Inputs : phase[j] = "queued" <=> j \in Range(queue)
      /\ i \in Range(queue)
  BY InRange, LenProperties, TasksDistinct DEF LaneInv, LaneOK, RestOK, TasksAccounted
<1>2. /\ Len(queue') = Len(queue) - 1
      /\ \A n \in 1..Len(queue') : queue'[n] = IF n < p THEN queue[n] ELSE queue[n + 1]
  <2>1. PICK q \in Seq(Inputs) : q = queue
    BY <1>1
  <2>2. PICK t : t = Without(q, p)
    OBVIOUS
  <2>3. p \in 1..Len(q)
    BY <2>1
  <2>4. /\ Len(Without(q, p)) = Len(q) - 1
        /\ \A n \in 1..Len(Without(q, p)) :
              Without(q, p)[n] = IF n < p THEN q[n] ELSE q[n + 1]
    BY <2>3, WithoutLemma
  <2>5. queue' = t
    BY <2>1, <2>2
  <2> QED
    BY <2>1, <2>2, <2>4, <2>5
<1>3. ASSUME NEW x \in Inputs, NEW k \in 1..Len(queue'), NEW n \in 1..Len(queue),
             n # p, queue'[k] = queue[n], MayFollow(x, queue[n])
      PROVE  MayFollow(x, queue[k])'
  <2>1. PICK y \in Inputs : y = queue[n] /\ y # i
    BY <1>1, <1>3 DEF Distinct
  <2>2. MayFollow(x, y)'
    BY <1>1, <1>3, <2>1, StillFollows
  <2> QED
    BY <1>3, <2>1, <2>2 DEF MayFollow, Before
<1>4. ASSUME NEW j \in 1..Len(queue'), NEW k \in 1..Len(queue'), j < k
      PROVE  MayFollow(queue[j], queue[k])'
  <2>1. PICK m \in 1..Len(queue), n \in 1..Len(queue) :
          queue'[j] = queue[m] /\ queue'[k] = queue[n] /\ m < n /\ n # p
    <3>1. PICK m : m = IF j < p THEN j ELSE j + 1
      OBVIOUS
    <3>2. PICK n : n = IF k < p THEN k ELSE k + 1
      OBVIOUS
    <3>3. PICK u, v : u = Len(queue) /\ v = Len(queue') /\ v = u - 1 /\ u \in Nat
      BY <1>1, <1>2
    <3>4. j \in 1..v /\ k \in 1..v /\ j < k /\ p \in 1..u
      BY <1>4, <3>3
    <3>5. m \in 1..u /\ n \in 1..u /\ m < n /\ n # p
      BY <3>1, <3>2, <3>3, <3>4
    <3>6. queue'[j] = queue[m] /\ queue'[k] = queue[n]
      BY <1>2, <3>1, <3>2
    <3> QED
      BY <3>3, <3>5, <3>6
  <2>2. PICK x \in Inputs : x = queue[m]
    BY <1>1
  <2>3. MayFollow(x, queue[n])
    BY <2>1, <2>2 DEF OrderInv
  <2>4. MayFollow(x, queue[k])'
    BY <1>3, <2>1, <2>3
  <2> QED
    BY <2>1, <2>2, <2>4 DEF MayFollow, Before
<1>5. ASSUME NEW j \in Inputs, phase'[j] = "promoted", NEW k \in 1..Len(queue'), k > home'[j]
      PROVE  MayFollow(j, queue[k])'
  <2>1. j = i /\ home'[j] = p - 1
    BY <1>1, <1>5
  <2>2. k + 1 \in 1..Len(queue) /\ p < k + 1 /\ queue'[k] = queue[k + 1]
    BY <1>1, <1>2, <1>5, <2>1
  <2>3. MayFollow(i, queue[k + 1])
    BY <2>2 DEF OrderInv
  <2> QED
    BY <1>1, <1>3, <2>1, <2>2, <2>3
<1>6. \A j \in Inputs : phase'[j] # "unborn" => j \in Range(born')
  BY <1>1 DEF OrderInv
<1>7. \A j, k \in Inputs : phase'[j] = "promoted" /\ phase'[k] = "promoted" => j = k
  BY <1>1
<1> QED
  BY <1>4, <1>5, <1>6, <1>7 DEF OrderInv

\* It comes back: whoever it stands behind, it has been refused, and whoever
\* stands behind it may.
LEMMA PutBackOrder ==
    ASSUME LaneInv, OrderInv, NEW i \in Inputs, phase[i] = "promoted", result[i] = "rejected",
           PutBack(i), home' = [home EXCEPT ![i] = 0], UNCHANGED <<born, result>>
    PROVE  OrderInv'
<1>1. /\ queue \in Seq(Inputs) /\ born \in Seq(Inputs) /\ home \in [Inputs -> Nat]
      /\ \A n \in 1..Len(queue) : queue[n] \in Inputs
      /\ Len(queue) \in Nat /\ phase \in [Inputs -> Phases]
  BY InRange, LenProperties DEF LaneInv, LaneOK, RestOK
<1>2. /\ phase'[i] \in {"starting", "queued"}
      /\ \A j \in Inputs : j # i => phase'[j] = phase[j]
  BY <1>1 DEF PutBack
<1>3. \A j \in Inputs : phase'[j] # "promoted"
  BY <1>2 DEF OrderInv
<1>4. \A j \in Inputs : phase'[j] # "unborn" => j \in Range(born')
  BY <1>2 DEF OrderInv
<1>5. CASE active = NoRun
  <2>1. queue' = queue
    BY <1>5 DEF PutBack
  <2>2. \A j, k \in 1..Len(queue') : j < k => MayFollow(queue[j], queue[k])'
    BY <2>1 DEF OrderInv, MayFollow, Before
  <2> QED
    BY <1>3, <1>4, <2>2 DEF OrderInv
<1>6. CASE active # NoRun
  <2>1. PICK at : at = IF home[i] <= Len(queue) THEN home[i] ELSE Len(queue)
    OBVIOUS
  <2>2. queue' = With(queue, at, i) /\ at \in 0..Len(queue)
    <3>1. at \in 0..Len(queue)
      BY <1>1, <2>1
    <3>2. queue' = With(queue, at, i)
      BY <1>6, <2>1 DEF PutBack, With
    <3> QED
      BY <3>1, <3>2
  <2>3. /\ Len(queue') = Len(queue) + 1
        /\ \A n \in 1..Len(queue') : queue'[n] = IF n <= at THEN queue[n]
                                                 ELSE IF n = at + 1 THEN i ELSE queue[n - 1]
    <3>1. PICK q \in Seq(Inputs) : q = queue
      BY <1>1
    <3>2. PICK t : t = With(q, at, i)
      OBVIOUS
    <3>3. at \in 0..Len(q)
      BY <2>2, <3>1
    <3>4. /\ Len(With(q, at, i)) = Len(q) + 1
          /\ \A n \in 1..Len(With(q, at, i)) :
                With(q, at, i)[n] = IF n <= at THEN q[n]
                                    ELSE IF n = at + 1 THEN i ELSE q[n - 1]
      BY <3>3, WithLemma
    <3>5. queue' = t
      BY <2>2, <3>1, <3>2
    <3> QED
      BY <3>1, <3>2, <3>4, <3>5
  <2>4. ASSUME NEW j \in 1..Len(queue'), NEW k \in 1..Len(queue'), j < k
        PROVE  MayFollow(queue[j], queue[k])'
    <3>1. CASE k = at + 1
      <4>1. queue'[k] = i
        BY <1>1, <2>2, <2>3, <3>1
      <4> QED
        BY <4>1 DEF MayFollow
    <3>2. CASE k # at + 1
      <4>1. PICK u : u = Len(queue) /\ u \in Nat /\ Len(queue') = u + 1
        BY <1>1, <2>3
      <4>2. PICK n : n = IF k <= at THEN k ELSE k - 1
        OBVIOUS
      <4>3. j \in 1..u + 1 /\ k \in 1..u + 1 /\ j < k /\ at \in 0..u
        BY <2>2, <2>4, <4>1
      <4>4. n \in 1..u /\ (j = at + 1 => n > at /\ n = k - 1)
        BY <3>2, <4>1, <4>2, <4>3
      <4>5. queue'[k] = queue[n]
        BY <2>3, <2>4, <3>2, <4>2
      <4>6. PICK y \in Inputs : y = queue[n]
        BY <1>1, <4>1, <4>4
      <4>7. PICK x \in Inputs : queue'[j] = x /\ MayFollow(x, y)
        <5>1. CASE j = at + 1
          <6>1. queue'[j] = i
            BY <2>2, <2>3, <2>4, <4>1, <5>1
          <6>2. n > home[i]
            <7>1. home[i] \in Nat
              BY <1>1
            <7> QED
              BY <2>1, <4>1, <4>4, <5>1, <7>1
          <6>3. MayFollow(i, queue[n])
            BY <4>1, <4>4, <6>2 DEF OrderInv
          <6> QED
            BY <4>6, <6>1, <6>3
        <5>2. CASE j # at + 1
          <6>1. PICK m : m = IF j <= at THEN j ELSE j - 1
            OBVIOUS
          <6>2. m \in 1..u /\ m < n
            BY <3>2, <4>1, <4>2, <4>3, <5>2, <6>1
          <6>3. queue'[j] = queue[m]
            BY <2>3, <2>4, <5>2, <6>1
          <6>4. MayFollow(queue[m], queue[n])
            BY <4>1, <4>4, <6>2 DEF OrderInv
          <6> QED
            BY <1>1, <4>1, <4>6, <6>2, <6>3, <6>4
        <5> QED
          BY <5>1, <5>2
      <4>8. MayFollow(x, y)'
        BY <4>7 DEF MayFollow, Before
      <4> QED
        BY <4>5, <4>6, <4>7, <4>8 DEF MayFollow, Before
    <3> QED
      BY <3>1, <3>2
  <2> QED
    BY <1>3, <1>4, <2>4 DEF OrderInv
<1> QED
  BY <1>5, <1>6

\* A command finds no request open and no task promoted.
LEMMA CommandAlone ==
    ASSUME Serialized, Command
    PROVE  \A i \in Inputs : result[i] # "open" /\ phase[i] # "promoted"
  BY DEF Command, Reacting, PromotionsToSettle

\* A promise settles once.
LEMMA SettledOnce ==
    ASSUME NEW S, NEW v, Settle(S, v)
    PROVE  \A i \in Inputs : result[i] # "open" => result'[i] = result[i]
  BY DEF Settle

-----------------------------------------------------------------------------
(* Every step keeps the order.                                             *)

LEMMA CommandsKeepOrder ==
    ASSUME Serialized, LaneInv, OrderInv,
           \/ \E i \in Inputs : Enqueue(i) \/ Steer(i)
           \/ \E k \in 1..Len(queue) : Promote(k) \/ InterruptQueuedRun(k)
           \/ Interrupt
           \/ InterruptRun
    PROVE  OrderInv'
<1>0. /\ phase \in [Inputs -> Phases] /\ result \in [Inputs -> Results]
      /\ queue \in Seq(Inputs)
      /\ \A k \in 1..Len(queue) : queue[k] \in Inputs /\ phase[queue[k]] = "queued"
  BY InRange DEF LaneInv, LaneOK, RequestsOK, TasksAccounted
<1>1. ASSUME NEW i \in Inputs, Enqueue(i) PROVE OrderInv'
  BY <1>1, AddTaskOrder DEF Enqueue
<1>2. ASSUME NEW i \in Inputs, Steer(i) PROVE OrderInv'
  <2>1. /\ UNCHANGED taskVars /\ result[i] = "none"
        /\ result' = [result EXCEPT ![i] = "open"]
    BY <1>2 DEF Steer, PushRequest
  <2>2. \A j \in Inputs : result[j] = "rejected" => result'[j] = "rejected"
    BY <1>0, <2>1
  <2> QED
    BY <2>1, <2>2, SameOrder DEF taskVars
<1>3. ASSUME NEW k \in 1..Len(queue), Promote(k) PROVE OrderInv'
  <2>1. PICK i : i = queue[k]
    OBVIOUS
  <2>2. /\ queue' = Without(queue, k) /\ phase' = [phase EXCEPT ![i] = "promoted"]
        /\ home' = [home EXCEPT ![i] = k - 1] /\ born' = born
        /\ result' = [result EXCEPT ![i] = "open"]
    BY <1>3, <2>1 DEF Promote, PushRequest, Without
  <2>3. \A j \in Inputs : phase[j] # "promoted"
    BY <1>3, CommandAlone DEF Promote
  <2>4. \A j \in Inputs : result[j] = "rejected" /\ j # i => result'[j] = "rejected"
    BY <1>0, <2>2
  <2> QED
    BY <2>1, <2>2, <2>3, <2>4, PromoteOrder
<1>4. ASSUME NEW k \in 1..Len(queue), InterruptQueuedRun(k) PROVE OrderInv'
  <2>1. /\ queue' = Without(queue, k) /\ phase' = [phase EXCEPT ![queue[k]] = "rejected"]
        /\ UNCHANGED <<home, born, result>>
    BY <1>4 DEF InterruptQueuedRun, Without
  <2>2. Thinned(queue, queue')
    BY <1>0, <2>1, WithoutThinned
  <2>3. ASSUME NEW j \in Inputs
        PROVE  /\ phase'[j] # "unborn" => phase[j] # "unborn"
               /\ phase'[j] = "promoted" => phase[j] = "promoted"
    BY <1>0, <2>1
  <2> QED
    BY <2>1, <2>2, <2>3, ThinnedOrder
<1>5. CASE Interrupt
  <2>1. /\ queue' = <<>>
        /\ phase' = [j \in Inputs |-> IF j \in Range(queue) THEN "rejected" ELSE phase[j]]
        /\ UNCHANGED <<home, born>> /\ Settle(SteerRequests, "rejected")
    BY <1>5 DEF Interrupt, AbortActive
  <2>2. Thinned(queue, queue')
    BY <2>1, EmptySeq DEF Thinned
  <2>3. ASSUME NEW j \in Inputs
        PROVE  /\ phase'[j] # "unborn" => phase[j] # "unborn"
               /\ phase'[j] = "promoted" => phase[j] = "promoted"
    BY <2>1 DEF LaneInv, LaneOK, TasksAccounted
  <2>4. \A j \in Range(queue) : result[j] = "rejected" => result'[j] = "rejected"
    BY <1>0, <2>1, SettledOnce, InRange
  <2> QED
    BY <2>1, <2>2, <2>3, <2>4, ThinnedOrder
<1>6. CASE InterruptRun
  <2>1. UNCHANGED <<queue, phase, home, born>> /\ Settle(SteerRequests, "rejected")
    BY <1>6 DEF InterruptRun, AbortActive
  <2> QED
    BY <2>1, SettledOnce, SameOrder
<1> QED
  BY <1>1, <1>2, <1>3, <1>4, <1>5, <1>6

LEMMA FrameworkKeepsOrder ==
    ASSUME LaneInv, OrderInv, RegisterHandle \/ CloseSteering \/ FrameworkStep \/ WorkEnds
    PROVE  OrderInv'
<1>0. phase \in [Inputs -> Phases]
  BY DEF LaneInv, LaneOK
<1>1. CASE RegisterHandle
  <2>1. /\ UNCHANGED <<queue, home, born, result>>
        /\ phase' = [phase EXCEPT ![active] = "live"] /\ phase[active] = "starting"
    BY <1>1 DEF RegisterHandle
  <2> QED
    BY <1>0, <2>1, SameOrder
<1>2. CASE CloseSteering \/ TakeSteered \/ AcceptFails \/ FrameworkEnds
  BY <1>2, SameOrder DEF CloseSteering, TakeSteered, AcceptFails, FrameworkEnds, taskVars
<1>3. CASE AcceptSteered
  BY <1>3, SameOrder, SettledOnce DEF AcceptSteered, taskVars
<1>4. CASE WorkReturns
  <2>1. /\ UNCHANGED <<queue, home, born, result>>
        /\ phase' = [phase EXCEPT ![active] = "settling"] /\ phase[active] # "unborn"
    BY <1>4 DEF WorkReturns
  <2> QED
    BY <1>0, <2>1, SameOrder
<1>5. CASE WorkThrows
  BY <1>5, FinishOrder, SettledOnce DEF WorkThrows, Ended
<1> QED
  BY <1>1, <1>2, <1>3, <1>4, <1>5 DEF FrameworkStep, WorkEnds

LEMMA ReactionsKeepOrder ==
    ASSUME LaneInv, OrderInv,
           \/ \E i \in Inputs : Reaction(i)
           \/ ChainStep
           \/ SettleStep
    PROVE  OrderInv'
<1>0. /\ phase \in [Inputs -> Phases] /\ home \in [Inputs -> Nat]
      /\ chain # <<>> => Head(chain) \in Inputs
      /\ pend # <<>> => Head(pend) \in Inputs
  BY TailLemma DEF LaneInv, LaneOK, RestOK, RequestsOK
<1>1. ASSUME NEW i \in Inputs, PromotionDelivered(i) PROVE OrderInv'
  <2>1. /\ UNCHANGED <<queue, born, result>> /\ phase[i] = "promoted"
        /\ phase' = [phase EXCEPT ![i] = "rejected"]
        /\ home' = [home EXCEPT ![i] = 0]
    BY <1>1 DEF PromotionDelivered
  <2>2. \A j \in Inputs : /\ phase'[j] # "unborn" => phase[j] # "unborn"
                          /\ phase'[j] = "promoted" => phase[j] = "promoted" /\ home'[j] = home[j]
    BY <1>0, <2>1
  <2> QED
    BY <2>1, <2>2, SameOrder
<1>2. ASSUME NEW i \in Inputs, PromotionRejected(i) PROVE OrderInv'
  BY <1>2, PutBackOrder DEF PromotionRejected
<1>3. CASE SendSteer
  BY <1>3, SameOrder DEF SendSteer, taskVars
<1>4. CASE RefusedAfterAbort \/ RefusedPromotion \/ RejectRecovered
  BY <1>4, SameOrder, SettledOnce DEF RefusedAfterAbort, RefusedPromotion, RejectRecovered, taskVars
<1>5. CASE RefusedThenReplaced
  <2>1. /\ chain # <<>> /\ phase[Head(chain)] = "unborn" /\ AddTask(Head(chain))
        /\ home' = home /\ Settle({Head(chain)}, "replaced")
    BY <1>5 DEF RefusedThenReplaced, ChainRuns
  <2> QED
    BY <1>0, <2>1, SettledOnce, AddTaskOrder
<1>6. CASE ReplacementFails
  BY <1>6, SameOrder, SettledOnce DEF ReplacementFails
<1>7. CASE ChainFailed
  BY <1>7, FinishOrder, SettledOnce DEF ChainFailed, Settles, Ended
<1>8. CASE RejectUndelivered \/ RecoverUndelivered
  <2>1. /\ UNCHANGED <<queue, home, born>> /\ phase[active] = "settling"
        /\ phase' = [phase EXCEPT ![active] = "recovering"]
        /\ result' = result \/ Settle(SteerRequests, "rejected")
    BY <1>8 DEF RejectUndelivered, RecoverUndelivered, Settles, steerVars
  <2>2. \A j \in Inputs : /\ phase'[j] # "unborn" => phase[j] # "unborn"
                          /\ phase'[j] = "promoted" => phase[j] = "promoted"
    BY <1>0, <2>1
  <2> QED
    BY <2>1, <2>2, SameOrder, SettledOnce
<1>9. CASE ReplaceRecovered
  <2>1. /\ pend # <<>> /\ phase[Head(pend)] = "unborn" /\ AddTask(Head(pend))
        /\ home' = home /\ Settle({Head(pend)}, "replaced")
    BY <1>9 DEF ReplaceRecovered
  <2> QED
    BY <1>0, <2>1, SettledOnce, AddTaskOrder
<1>10. CASE RecoveryFails
  BY <1>10, FinishOrder, SettledOnce DEF RecoveryFails, Settles, Ended
<1>11. CASE Finish
  BY <1>11, FinishOrder DEF Finish, Settles, Ended
<1> QED
  BY <1>1, <1>2, <1>3, <1>4, <1>5, <1>6, <1>7, <1>8, <1>9, <1>10, <1>11
     DEF Reaction, ChainStep, SettleStep

LEMMA NextOrder ==
    ASSUME Serialized, LaneInv, OrderInv, [Next]_vars
    PROVE  OrderInv'
<1>1. CASE UNCHANGED vars
  BY <1>1, SameOrder DEF vars
<1>2. CASE Next
  BY <1>2, CommandsKeepOrder, FrameworkKeepsOrder, ReactionsKeepOrder DEF Next
<1> QED
  BY <1>1, <1>2

\* With commands admitted one at a time, whoever stands behind another task in
\* the queue got its task later or has been put back by a refused promotion:
\* promoting, refusing, restoring and interrupting tasks never lets an older
\* one be overtaken.  Two promotions at once could pass each other, which is
\* why the hypothesis is needed: the place a task is put back at is an index
\* into the queue as it was.
THEOREM OrderKept ==
    ASSUME Serialized
    PROVE  Spec => []QueueOrder
<1>1. Init => OrderInv
  <2>1. Len(<<>>) = 0
    BY EmptySeq
  <2> QED
    BY <2>1 DEF Init, OrderInv
<1>2. LaneInv /\ OrderInv /\ [Next]_vars => OrderInv'
  BY NextOrder
<1>3. OrderInv => QueueOrder
  BY DEF OrderInv, QueueOrder, MayFollow, Before
<1> QED
  BY <1>1, <1>2, <1>3, LaneInvariant, PTL DEF Spec

-----------------------------------------------------------------------------
(* Delivered and stopped for good.                                         *)

\* No reaction, end or restart brings a rejected task back.
LEMMA RejectedIsFinal ==
    ASSUME LaneInv, [Next]_vars
    PROVE  \A i \in Inputs : phase[i] = "rejected" => phase'[i] = "rejected"
<1> SUFFICES ASSUME NEW i \in Inputs, phase[i] = "rejected" PROVE phase'[i] = "rejected"
  OBVIOUS
<1> USE DEF Running
<1>0. /\ phase \in [Inputs -> Phases]
      /\ active # NoRun => active \in Inputs /\ phase[active] \in Running
      /\ \A k \in 1..Len(queue) : queue[k] \in Inputs /\ phase[queue[k]] = "queued"
      /\ \A j \in Range(queue) : j \in Inputs /\ phase[j] = "queued"
      /\ queue # <<>> => Head(queue) \in Inputs /\ phase[Head(queue)] = "queued"
  BY InRange, TailLemma DEF LaneInv, LaneOK, OneRunAtATime, TasksAccounted
<1>1. ASSUME NEW j \in Inputs, phase[j] = "unborn", AddTask(j) PROVE phase'[i] = "rejected"
  BY <1>1, AddTaskPhases
<1>2. ASSUME active # NoRun, NEW verdict \in Ended, FinishActive(verdict)
      PROVE  phase'[i] = "rejected"
  <2>1. phase'[i] = CASE i = active -> verdict
                      [] queue # <<>> /\ i = Head(queue) -> "starting"
                      [] OTHER -> phase[i]
    BY <1>2 DEF FinishActive
  <2>2. i # active /\ ~(queue # <<>> /\ i = Head(queue))
    BY <1>0, <1>2
  <2> QED
    BY <2>1, <2>2
<1>3. /\ chain # <<>> => Head(chain) \in Inputs
      /\ pend # <<>> => Head(pend) \in Inputs
  BY TailLemma DEF LaneInv, RequestsOK
<1>4. ASSUME NEW j \in Inputs, Enqueue(j) \/ Steer(j) \/ Reaction(j)
      PROVE  phase'[i] = "rejected"
  <2>1. CASE Enqueue(j)
    BY <1>1, <2>1 DEF Enqueue
  <2>2. CASE Steer(j)
    BY <2>2 DEF Steer, taskVars
  <2>3. CASE PromotionDelivered(j) \/ PromotionRejected(j)
    BY <1>0, <2>3 DEF PromotionDelivered, PromotionRejected, PutBack
  <2> QED
    BY <1>4, <2>1, <2>2, <2>3 DEF Reaction
<1>5. ASSUME NEW k \in 1..Len(queue), Promote(k) \/ InterruptQueuedRun(k)
      PROVE  phase'[i] = "rejected"
  <2>1. CASE Promote(k)
    BY <1>0, <2>1 DEF Promote
  <2>2. CASE InterruptQueuedRun(k)
    BY <1>0, <2>2 DEF InterruptQueuedRun
  <2> QED
    BY <1>5, <2>1, <2>2
<1>6. CASE Interrupt \/ InterruptRun
  BY <1>6 DEF Interrupt, InterruptRun
<1>7. CASE RegisterHandle \/ CloseSteering \/ FrameworkStep
  BY <1>0, <1>7 DEF RegisterHandle, CloseSteering, FrameworkStep, TakeSteered, AcceptSteered,
     AcceptFails, FrameworkEnds, taskVars
<1>8. CASE WorkEnds
  <2>1. CASE WorkReturns
    BY <1>0, <2>1 DEF WorkReturns
  <2>2. CASE WorkThrows
    BY <1>2, <2>2 DEF WorkThrows, Ended
  <2> QED
    BY <1>8, <2>1, <2>2 DEF WorkEnds
<1>9. CASE ChainStep
  <2>1. CASE RefusedThenReplaced
    BY <1>1, <1>3, <2>1 DEF RefusedThenReplaced, ChainRuns
  <2>2. CASE SendSteer \/ RefusedAfterAbort \/ RefusedPromotion \/ ReplacementFails
    BY <2>2 DEF SendSteer, RefusedAfterAbort, RefusedPromotion, ReplacementFails, taskVars
  <2> QED
    BY <1>9, <2>1, <2>2 DEF ChainStep
<1>10. CASE SettleStep
  <2>1. CASE ReplaceRecovered
    BY <1>1, <1>3, <2>1 DEF ReplaceRecovered
  <2>2. CASE ChainFailed \/ RecoveryFails \/ Finish
    BY <1>2, <2>2 DEF ChainFailed, RecoveryFails, Finish, Settles, Ended
  <2>3. CASE RejectUndelivered \/ RecoverUndelivered
    BY <1>0, <2>3 DEF RejectUndelivered, RecoverUndelivered, Settles
  <2>4. CASE RejectRecovered
    BY <2>4 DEF RejectRecovered, taskVars
  <2> QED
    BY <1>10, <2>1, <2>2, <2>3, <2>4 DEF SettleStep
<1>11. CASE UNCHANGED vars
  BY <1>11 DEF vars
<1> QED
  BY <1>4, <1>5, <1>6, <1>7, <1>8, <1>9, <1>10, <1>11 DEF Next

\* With commands admitted one at a time, a task that waited when the session was
\* interrupted never starts: none was out of the queue for a promotion that
\* could be refused later.
THEOREM InterruptedForGood ==
    ASSUME Serialized
    PROVE  Spec => []StoppedNeverStart
<1>1. Init => StoppedNeverStart
  BY DEF Init, StoppedNeverStart
<1>2. ASSUME LaneInv, StoppedNeverStart, [Next]_vars PROVE StoppedNeverStart'
  <2>1. \A i \in Inputs : phase[i] = "rejected" => phase'[i] = "rejected"
    BY <1>2, RejectedIsFinal
  <2>2. stopped \subseteq Inputs
    BY <1>2 DEF LaneInv, RestOK
  <2>3. CASE Interrupt
    <3>1. /\ stopped' = stopped \cup {i \in Inputs : phase[i] \in Waiting}
          /\ phase' = [i \in Inputs |-> IF i \in Range(queue) THEN "rejected" ELSE phase[i]]
      BY <2>3 DEF Interrupt
    <3>2. \A i \in Inputs : phase[i] \in Waiting => i \in Range(queue)
      BY <1>2, <2>3, CommandAlone DEF Interrupt, Waiting, LaneInv, LaneOK, TasksAccounted
    <3> QED
      BY <1>2, <2>1, <2>2, <3>1, <3>2 DEF StoppedNeverStart
  <2>4. CASE stopped' = stopped
    BY <1>2, <2>1, <2>2, <2>4 DEF StoppedNeverStart
  <2>5. Interrupt \/ stopped' = stopped
    BY <1>2
       DEF Next, vars, Enqueue, Steer, Reaction, PromotionDelivered, PromotionRejected, Promote,
           InterruptQueuedRun, InterruptRun, RegisterHandle, CloseSteering, FrameworkStep,
           TakeSteered, AcceptSteered, AcceptFails, FrameworkEnds, WorkEnds, WorkReturns,
           WorkThrows, ChainStep, SendSteer, RefusedAfterAbort, RefusedPromotion,
           RefusedThenReplaced, ReplacementFails, SettleStep, ChainFailed, RejectUndelivered,
           RecoverUndelivered, RejectRecovered, ReplaceRecovered, RecoveryFails, Finish
  <2> QED
    BY <2>3, <2>4, <2>5
<1> QED
  BY <1>1, <1>2, LaneInvariant, PTL DEF Spec

\* A request is open while the active task's books hold it: with commands
\* admitted one at a time, no interrupt finds one there.
LEMMA PoppedBooks ==
    ASSUME LaneInv, VerdictInv, BooksOpen, NEW h \in Inputs, NEW v, Settle({h}, v),
           Range(chain') \subseteq Range(chain) \ {h},
           Range(pend') \subseteq Range(pend) \ {h}
    PROVE  BooksOpen'
  BY DEF BooksOpen, Settle

LEMMA PopChainBooks ==
    ASSUME LaneInv, VerdictInv, BooksOpen, chain # <<>>, NEW v,
           Settle({Head(chain)}, v), chain' = Tail(chain), pend' = pend
    PROVE  BooksOpen'
<1>1. /\ Head(chain) \in Inputs
      /\ Range(chain) = Range(chain') \cup {Head(chain)}
      /\ Head(chain) \notin Range(chain')
      /\ Head(chain) \notin Range(pend)
  BY TailLemma DEF LaneInv, RequestsOK, VerdictInv, RequestsOnce
<1> QED
  BY <1>1, PoppedBooks

LEMMA PopPendBooks ==
    ASSUME LaneInv, VerdictInv, BooksOpen, pend # <<>>, NEW v,
           Settle({Head(pend)}, v), pend' = Tail(pend), chain' = chain
    PROVE  BooksOpen'
<1>1. /\ Head(pend) \in Inputs
      /\ Range(pend) = Range(pend') \cup {Head(pend)}
      /\ Head(pend) \notin Range(pend')
      /\ Head(pend) \notin Range(chain)
  BY TailLemma DEF LaneInv, RequestsOK, VerdictInv, RequestsOnce
<1> QED
  BY <1>1, PoppedBooks

\* The books lose requests, and no promise settles.
LEMMA SameBooks ==
    ASSUME BooksOpen, result' = result,
           Range(chain') \cup Range(pend') \subseteq Range(chain) \cup Range(pend)
    PROVE  BooksOpen'
  BY DEF BooksOpen

LEMMA EmptyBooks ==
    ASSUME chain' = <<>>, pend' = <<>>
    PROVE  BooksOpen'
<1>1. Range(<<>>) = {}
  BY EmptySeq, InRange
<1> QED
  BY <1>1 DEF BooksOpen

LEMMA PushBooks ==
    ASSUME LaneInv, BooksOpen, NEW i \in Inputs, PushRequest(i)
    PROVE  BooksOpen'
<1>1. /\ chain \in Seq(Inputs) /\ pend \in Seq(Inputs) /\ result \in [Inputs -> Results]
  BY DEF LaneInv, RequestsOK
<1>2. Range(chain') \cup Range(pend') \subseteq Range(chain) \cup Range(pend) \cup {i}
  <2>1. CASE chain' = Append(chain, i) /\ pend' = pend
    BY <1>1, <2>1, AppendLemma
  <2>2. CASE pend' = Append(pend, i) /\ chain' = chain
    BY <1>1, <2>2, AppendLemma
  <2> QED
    BY <2>1, <2>2 DEF PushRequest
<1>3. \A j \in Inputs : result'[j] = IF j = i THEN "open" ELSE result[j]
  BY <1>1 DEF PushRequest
<1> QED
  BY <1>2, <1>3 DEF BooksOpen

LEMMA NextBooksOpen ==
    ASSUME Serialized, LaneInv, VerdictInv, BooksOpen, [Next]_vars
    PROVE  BooksOpen'
<1>0. /\ \A k \in 1..Len(queue) : queue[k] \in Inputs
      /\ Range(chain) \subseteq Inputs /\ Range(pend) \subseteq Inputs
      /\ Range(<<>>) = {}
  BY InRange, EmptySeq DEF LaneInv, LaneOK, RequestsOK
<1>1. ASSUME NEW i \in Inputs, Enqueue(i) \/ Steer(i) \/ Reaction(i) PROVE BooksOpen'
  <2>1. CASE Enqueue(i)
    BY <2>1, SameBooks DEF Enqueue, steerVars
  <2>2. CASE Steer(i)
    BY <2>2, PushBooks DEF Steer
  <2>3. CASE PromotionDelivered(i) \/ PromotionRejected(i)
    BY <2>3, SameBooks DEF PromotionDelivered, PromotionRejected, steerVars
  <2> QED
    BY <1>1, <2>1, <2>2, <2>3 DEF Reaction
<1>2. ASSUME NEW k \in 1..Len(queue), Promote(k) \/ InterruptQueuedRun(k) PROVE BooksOpen'
  <2>1. CASE Promote(k)
    BY <1>0, <2>1, PushBooks DEF Promote
  <2>2. CASE InterruptQueuedRun(k)
    BY <2>2, SameBooks DEF InterruptQueuedRun, steerVars
  <2> QED
    BY <1>2, <2>1, <2>2
<1>3. CASE Interrupt \/ InterruptRun
  <2>1. Command /\ chain' = chain /\ pend' = <<>>
    BY <1>3 DEF Interrupt, InterruptRun, AbortActive
  <2>2. \A i \in Inputs : i \notin Range(chain)
    BY <2>1, CommandAlone DEF BooksOpen
  <2> QED
    BY <1>0, <2>1, <2>2 DEF BooksOpen
<1>4. CASE RegisterHandle
  BY <1>0, <1>4, SameBooks DEF RegisterHandle
<1>5. CASE CloseSteering \/ TakeSteered \/ AcceptFails \/ FrameworkEnds \/ WorkReturns
  BY <1>5, SameBooks DEF CloseSteering, TakeSteered, AcceptFails, FrameworkEnds, WorkReturns,
     steerVars
<1>6. CASE AcceptSteered
  <2>1. chain # <<>>
    BY <1>6 DEF AcceptSteered, LaneInv, RequestsOK, ChainHeld
  <2> QED
    BY <1>6, <2>1, PopChainBooks DEF AcceptSteered
<1>7. CASE WorkThrows \/ ChainFailed \/ RecoveryFails \/ Finish
  BY <1>7, EmptyBooks DEF WorkThrows, ChainFailed, RecoveryFails, Finish, FinishActive
<1>8. CASE SendSteer \/ RecoverUndelivered
  BY <1>8, SameBooks DEF SendSteer, RecoverUndelivered, steerVars
<1>9. CASE RefusedAfterAbort \/ RefusedPromotion \/ RefusedThenReplaced \/ ReplacementFails
  BY <1>9, PopChainBooks DEF RefusedAfterAbort, RefusedPromotion, RefusedThenReplaced,
     ReplacementFails, ChainRuns
<1>10. CASE RejectUndelivered
  BY <1>10, EmptyBooks DEF RejectUndelivered
<1>11. CASE RejectRecovered \/ ReplaceRecovered
  BY <1>11, PopPendBooks DEF RejectRecovered, ReplaceRecovered
<1>12. CASE UNCHANGED vars
  BY <1>12, SameBooks DEF vars
<1> QED
  BY <1>1, <1>2, <1>3, <1>4, <1>5, <1>6, <1>7, <1>8, <1>9, <1>10, <1>11, <1>12
     DEF Next, FrameworkStep, WorkEnds, ChainStep, SettleStep

\* What was delivered stays so.
LEMMA DeliveredStays ==
    ASSUME LaneInv, VerdictInv, [Next]_vars
    PROVE  \A i \in Inputs : result[i] = "delivered" => result'[i] = "delivered"
<1> SUFFICES ASSUME NEW i \in Inputs, result[i] = "delivered" PROVE result'[i] = "delivered"
  OBVIOUS
<1>0. /\ result \in [Inputs -> Results]
      /\ \A k \in 1..Len(queue) : queue[k] \in Inputs /\ phase[queue[k]] = "queued"
      /\ phase[i] # "queued"
  BY InRange DEF LaneInv, LaneOK, RequestsOK, TasksAccounted, VerdictInv, OwnerOK
<1>1. ASSUME NEW j \in Inputs, Steer(j) PROVE result'[i] = "delivered"
  BY <1>0, <1>1 DEF Steer, PushRequest
<1>2. ASSUME NEW k \in 1..Len(queue), Promote(k) PROVE result'[i] = "delivered"
  BY <1>0, <1>2 DEF Promote, PushRequest
<1>3. ASSUME NEW S, NEW v, Settle(S, v) PROVE result'[i] = "delivered"
  BY <1>3, SettledOnce
<1>4. CASE Interrupt \/ InterruptRun \/ AcceptSteered \/ WorkThrows \/ RefusedAfterAbort
           \/ RefusedPromotion \/ RefusedThenReplaced \/ ReplacementFails \/ ChainFailed
           \/ RejectUndelivered \/ RejectRecovered \/ ReplaceRecovered \/ RecoveryFails
  BY <1>3, <1>4 DEF Interrupt, InterruptRun, AbortActive, AcceptSteered, WorkThrows,
     RefusedAfterAbort, RefusedPromotion, RefusedThenReplaced, ReplacementFails, ChainFailed,
     RejectUndelivered, RejectRecovered, ReplaceRecovered, RecoveryFails
<1>5. \/ result' = result
      \/ \E j \in Inputs : Steer(j)
      \/ \E k \in 1..Len(queue) : Promote(k)
      \/ Interrupt \/ InterruptRun \/ AcceptSteered \/ WorkThrows \/ RefusedAfterAbort
           \/ RefusedPromotion \/ RefusedThenReplaced \/ ReplacementFails \/ ChainFailed
           \/ RejectUndelivered \/ RejectRecovered \/ ReplaceRecovered \/ RecoveryFails
  BY DEF Next, vars, Enqueue, Reaction, PromotionDelivered, PromotionRejected,
         InterruptQueuedRun, RegisterHandle, CloseSteering, FrameworkStep, TakeSteered,
         AcceptFails, FrameworkEnds, WorkEnds, WorkReturns, ChainStep, SendSteer,
         SettleStep, RecoverUndelivered, Finish
<1> QED
  BY <1>1, <1>2, <1>4, <1>5

\* With commands admitted one at a time, an input that the active run has
\* accepted is reported as delivered, and is not run a second time.
THEOREM DeliveredOnce ==
    ASSUME Serialized
    PROVE  Spec => []SteeredOnce
<1>1. Init => BooksOpen /\ SteeredOnce
  <2>1. Range(<<>>) = {}
    BY EmptySeq, InRange
  <2> QED
    BY <2>1 DEF Init, BooksOpen, SteeredOnce
<1>2. ASSUME LaneInv, VerdictInv, BooksOpen, SteeredOnce, [Next]_vars
      PROVE  (BooksOpen /\ SteeredOnce)'
  <2>1. BooksOpen'
    BY <1>2, NextBooksOpen
  <2>2. LaneInv' /\ VerdictInv'
    BY <1>2, NextLaneInv, NextVerdictInv
  <2>3. \A i \in accepted' : result'[i] = "delivered"
    <3>1. \A i \in accepted : i \in Inputs /\ result[i] = "delivered"
      BY <1>2 DEF SteeredOnce, LaneInv, RestOK
    <3>2. \A i \in accepted : result'[i] = "delivered"
      BY <1>2, <3>1, DeliveredStays
    <3>3. CASE AcceptSteered
      <4>1. chain # <<>>
        BY <1>2, <3>3 DEF AcceptSteered, LaneInv, RequestsOK, ChainHeld
      <4>2. Head(chain) \in Inputs /\ Head(chain) \in Range(chain)
        BY <1>2, <4>1, TailLemma DEF LaneInv, RequestsOK
      <4>3. result[Head(chain)] = "open"
        BY <1>2, <4>2 DEF BooksOpen
      <4>4. result'[Head(chain)] = "delivered"
        BY <3>3, <4>2, <4>3 DEF AcceptSteered, Settle
      <4> QED
        BY <3>2, <3>3, <4>4 DEF AcceptSteered
    <3>4. AcceptSteered \/ accepted' = accepted
      BY <1>2
         DEF Next, vars, Enqueue, Steer, Reaction, PromotionDelivered, PromotionRejected, Promote,
             InterruptQueuedRun, Interrupt, InterruptRun, AbortActive, RegisterHandle,
             CloseSteering, FrameworkStep, TakeSteered, AcceptFails, FrameworkEnds, WorkEnds,
             WorkReturns, WorkThrows, ChainStep, SendSteer, RefusedAfterAbort, RefusedPromotion,
             RefusedThenReplaced, ReplacementFails, SettleStep, ChainFailed, RejectUndelivered,
             RecoverUndelivered, RejectRecovered, ReplaceRecovered, RecoveryFails, Finish
    <3> QED
      BY <3>2, <3>3, <3>4
  <2>4. \A i \in accepted' : i \in Inputs
    BY <2>2 DEF LaneInv, RestOK
  <2> QED
    BY <2>1, <2>2, <2>3, <2>4 DEF SteeredOnce, VerdictInv, OwnerOK
<1> QED
  BY <1>1, <1>2, LaneInvariant, VerdictInvariant, PTL DEF Spec

=============================================================================
