--------------------------- MODULE ChildTreeProofs ---------------------------
(***************************************************************************)
(* Proofs about ChildTree for any number of children, inputs, failures and *)
(* restarts.                                                               *)
(***************************************************************************)
EXTENDS ChildTree, FiniteSetTheorems, SequenceTheorems, TLAPS

-----------------------------------------------------------------------------
(* The invariant.  Typed is TypeOK without the bounds that need an argument  *)
(* of their own: how often a child runs.                                     *)

ActRecords ==
    [spawn : {"off", "acquiring", "telling", "creating", "starting", "failing", "done"},
     send : {"off", "waiting", "creating", "telling", "starting"},
     suspend : {"off", "closing", "telling"},
     run : {"off", "starting", "live", "ending"},
     close : {"off", "interrupting", "cleaning", "silent", "telling", "done"}]

ManagerTyped ==
    /\ rec \in [Children -> {"none", "starting", "idle", "running", "suspended",
                             "closing", "closed", "gone"}]
    /\ act \in [Children -> ActRecords]
    /\ agent \in [Children -> {"none", "creating", "open", "closing"}]
    /\ lease \in [Children -> {"none", "held", "released"}]
    /\ active \subseteq Children
    /\ ran \in [Children -> Nat]
    /\ sends \in 0 .. MaxSends

\* A run of c that a spawn or an input under way may still begin.
Credit(c) ==
    (IF act[c].spawn \in {"acquiring", "telling", "creating"} THEN 1 ELSE 0)
    + (IF act[c].send \in {"waiting", "creating", "telling"} THEN 1 ELSE 0)

\* The record of a child goes the way of its clean-up.
ClosesInOrder(c) ==
    /\ rec[c] = "closing" <=> act[c].close = "interrupting"
    /\ rec[c] = "closed" <=> act[c].close \in {"cleaning", "silent", "telling"}
    /\ rec[c] = "gone" <=> act[c].close = "done"
    /\ rec[c] \in {"none", "starting", "idle", "running", "suspended"} <=> act[c].close = "off"

\* What is under way together, for one child.
ChildInv(c) ==
    /\ ClosesInOrder(c)
    /\ rec[c] = "none" => /\ act[c].spawn \in {"off", "acquiring"} /\ act[c].send = "off"
                          /\ act[c].suspend = "off" /\ act[c].run = "off"
                          /\ agent[c] = "none" /\ lease[c] = "none" /\ ran[c] = 0
    /\ act[c].spawn = "acquiring" => rec[c] = "none"
    /\ act[c].spawn = "telling" => act[c].run = "off" /\ act[c].suspend = "off"
                                   /\ act[c].send # "starting"
                                   /\ (agent[c] # "none" => act[c].send = "creating")
    /\ act[c].send = "telling" => act[c].spawn \notin {"acquiring", "telling", "creating"}
    /\ ~Unavailable(c) =>
          /\ act[c].spawn = "creating" => agent[c] \in {"creating", "open"}
          /\ act[c].send = "creating" => agent[c] \in {"creating", "open"}
          /\ act[c].send = "telling" => agent[c] = "open"
          /\ act[c].suspend # "off" => act[c].send \in {"off", "waiting"} /\ act[c].spawn = "done"
    /\ act[c].run # "off" => agent[c] \in {"open", "closing"} /\ ran[c] > 0
    /\ act[c].close \in {"telling", "done"} => agent[c] = "none" /\ act[c].suspend = "off"
                                               /\ lease[c] # "held"
    /\ act[c].close = "silent" => act[c].run = "off" /\ act[c].suspend = "off"
                                  /\ act[c].send # "telling"
    /\ act[c].close = "done" => lease[c] = "none" /\ c \notin active
    /\ lease[c] = "released" => act[c].close = "telling"
    /\ ran[c] + Credit(c) <= sends + 1

\* The teller of an event waits for its answer.
Told(e) ==
    /\ e.of = IF e.kind \in {"started", "ended"} THEN e.c ELSE Root
    /\ CASE e.kind = "created"   -> act[e.c].spawn = "telling"
         [] e.kind = "resumed"   -> act[e.c].send = "telling"
         [] e.kind = "suspended" -> act[e.c].suspend = "telling"
         [] e.kind = "closed"    -> act[e.c].close = "telling"
         [] e.kind = "started"   -> act[e.c].run = "starting" /\ e.run = ran[e.c]
         [] e.kind = "ended"     -> act[e.c].run = "ending" /\ e.run = ran[e.c]
    /\ act[e.c].close \notin {"silent", "done"}

\* The events in q, none of them told twice; nothing of a child is told behind
\* its end; and those of the root.
QueueInv(q) ==
    /\ q \in Seq(Event)
    /\ \A i \in 1 .. Len(q) : q[i].c = Root => q[i].of = Root /\ q[i].kind = "ended"
    /\ \A i \in 1 .. Len(q) : q[i].c # Root => Told(q[i])
    /\ \A i, j \in 1 .. Len(q) : i < j /\ q[i].c = q[j].c /\ q[i].c # Root =>
          q[i].kind # q[j].kind /\ q[i].kind # "closed"

StepInv ==
    /\ step \in {"idle", "failed", "settling"}
    /\ step # "idle" => bus # << >> /\ Head(bus).c # Root
    /\ step = "failed" => pending = {}
    /\ step = "settling" => pending = {[e |-> Head(bus), gen |-> gen]}

\* The context of an event of a child.
InContext(e) ==
    e.c \in Children /\ e.of = IF e.kind \in {"started", "ended"} THEN e.c ELSE Root

\* At most one settlement is pending: none is stored while another one is.
PendingInv ==
    /\ pending \subseteq [e : Event, gen : Gens]
    /\ \A s, r \in pending : s = r
    /\ \A s \in pending : InContext(s.e) /\ s.gen <= gen

Sessions == Children \cup {Root}
Durable ==
    [session : {"none", "open", "archived"}, task : {"none", "running", "ended"},
     runs : SUBSET (Runs \cup Gens), attempts : SUBSET (Runs \cup Gens), closed : 0 .. 1]
Stores == [Sessions -> Durable]

StoreTyped ==
    /\ gen \in Gens
    /\ rootRun \in {"live", "over", "aborted", "stopped"}
    /\ known \subseteq Children
    /\ bound \subseteq Children
    /\ db \in Stores
    /\ unheard \subseteq Children
    /\ faults \in 0 .. MaxFaults

\* What the store and the projector, d and k, know of a child.
Recorded(c, d, k) ==
    /\ d[c].runs \subseteq (IF act[c].run \in {"live", "ending"} THEN {ran[c]} ELSE {})
    /\ gen = 1 => d[c].attempts \subseteq d[c].runs
    /\ d[c].task = "running" => c \in k
    /\ c \in k => rec[c] \notin {"none", "gone"} /\ act[c].close # "silent"

\* The event that failed and is to be settled.
Owed == IF step = "failed" THEN {Head(bus)} ELSE {s.e : s \in {r \in pending : r.gen = gen}}

\* It is what it should be, or will be when the event is settled.
RecordInv ==
    \A c \in Children \ unheard :
        /\ (\A e \in Owed : e.c # c) => Recorded(c, db, known)
        /\ \A e \in Owed : e.c = c => Recorded(c, Settled(e, Last, db), KnownSettled(e))

ManagerInv == ManagerTyped /\ (\A c \in Children : ChildInv(c)) /\ QueueInv(bus)

IInv == ManagerInv /\ StoreTyped /\ StepInv /\ PendingInv /\ RecordInv

-----------------------------------------------------------------------------
(* Steps of one child.                                                     *)

Same(d) ==
    /\ rec'[d] = rec[d] /\ act'[d] = act[d] /\ agent'[d] = agent[d]
    /\ lease'[d] = lease[d] /\ ran'[d] = ran[d] /\ (d \in active' <=> d \in active)

LEMMA OtherChild ==
    ASSUME NEW d \in Children, ChildInv(d), ManagerTyped, ManagerTyped', Same(d), sends <= sends'
    PROVE  ChildInv(d)'
<1>1. ran[d] + Credit(d) <= sends + 1 /\ Credit(d) \in Nat /\ Credit(d)' = Credit(d)
  BY DEF ChildInv, Same, Credit
<1>2. ran'[d] + Credit(d)' <= sends' + 1
  <2>1. ran[d] \in Nat /\ sends \in Nat /\ sends' \in Nat /\ ran'[d] = ran[d]
    BY DEF ManagerTyped, Same
  <2> QED
    BY <1>1, <2>1
<1> QED
  BY <1>2 DEF ChildInv, Same, ClosesInOrder, Unavailable

LEMMA QueueMember ==
    ASSUME NEW q \in Seq(Event), NEW i \in 1 .. Len(q)
    PROVE  q[i] \in Event
  OBVIOUS

\* Who waits for the answer to an event of another child still does.
LEMMA OthersTold ==
    ASSUME NEW e \in Event, Same(e.c), Told(e)
    PROVE  Told(e)'
  BY DEF Told, Same

\* Those who wait for the answer to an event of c in q still do.
Waited(q, c) == \A e \in Event : e.c = c /\ Told(e) /\ (\E i \in 1 .. Len(q) : q[i] = e) => Told(e)'

LEMMA KeptQueue ==
    ASSUME NEW c \in Children, \A d \in Children \ {c} : Same(d),
           NEW q, QueueInv(q), Waited(q, c)
    PROVE  \A i \in 1 .. Len(q) : q[i].c # Root => Told(q[i])'
<1> SUFFICES ASSUME NEW i \in 1 .. Len(q), q[i].c # Root PROVE Told(q[i])'
  OBVIOUS
<1>1. PICK e \in Event : e = q[i]
  BY QueueMember DEF QueueInv
<1>2. Told(e) /\ e.c \in Children
  BY <1>1 DEF QueueInv, Event
<1>3. Told(e)'
  BY <1>1, <1>2, OthersTold DEF Waited
<1> QED
  BY <1>1, <1>3

LEMMA KeptManager ==
    ASSUME ManagerInv, ManagerTyped', NEW c \in Children, \A d \in Children \ {c} : Same(d),
           sends <= sends', ChildInv(c)', NEW q, QueueInv(q), Waited(q, c), bus' = q
    PROVE  ManagerInv'
<1>1. \A d \in Children : ChildInv(d)'
  BY OtherChild DEF ManagerInv
<1>2. QueueInv(bus)'
  BY KeptQueue DEF QueueInv
<1> QED
  BY <1>1, <1>2 DEF ManagerInv

LEMMA AppendedManager ==
    ASSUME ManagerInv, ManagerTyped', NEW c \in Children, \A d \in Children \ {c} : Same(d),
           sends <= sends', ChildInv(c)', NEW q, QueueInv(q), Waited(q, c),
           NEW e \in Event, bus' = Append(q, e), e.c = c, Told(e)',
           \A i \in 1 .. Len(q) : q[i].c = c => q[i].kind \notin {e.kind, "closed"}
    PROVE  ManagerInv'
<1>1. \A d \in Children : ChildInv(d)'
  BY OtherChild DEF ManagerInv
<1>2. \A i \in 1 .. Len(q) : q[i].c # Root => Told(q[i])'
  BY KeptQueue
<1>3. /\ bus' \in Seq(Event) /\ Len(bus') = Len(q) + 1 /\ Len(q) \in Nat
      /\ \A i \in 1 .. Len(q) : bus'[i] = q[i]
      /\ bus'[Len(q) + 1] = e
  BY DEF QueueInv
<1>4. ASSUME NEW i \in 1 .. Len(bus'), bus'[i].c # Root PROVE Told(bus[i])'
  <2>1. CASE i \in 1 .. Len(q)
    <3>1. bus'[i] = q[i]
      BY <1>3, <2>1
    <3>2. Told(q[i])'
      BY <1>2, <1>4, <2>1, <3>1
    <3> QED
      BY <3>1, <3>2 DEF Told
  <2>2. CASE i = Len(q) + 1
    <3>1. bus'[i] = e
      BY <1>3, <2>2
    <3> QED
      BY <3>1 DEF Told
  <2> QED
    BY <1>3, <2>1, <2>2
<1>5. ASSUME NEW i \in 1 .. Len(bus'), NEW j \in 1 .. Len(bus'), i < j,
             bus'[i].c = bus'[j].c, bus'[i].c # Root
      PROVE  bus'[i].kind # bus'[j].kind /\ bus'[i].kind # "closed"
  <2>1. i \in 1 .. Len(q) /\ bus'[i] = q[i]
    BY <1>3, <1>5
  <2>2. CASE j \in 1 .. Len(q)
    <3>1. bus'[j] = q[j]
      BY <1>3, <2>2
    <3> QED
      BY <1>5, <2>1, <2>2, <3>1 DEF QueueInv
  <2>3. CASE j = Len(q) + 1
    BY <1>3, <1>5, <2>1, <2>3
  <2> QED
    BY <1>3, <2>2, <2>3
<1>6. \A i \in 1 .. Len(bus') : bus'[i].c = Root => bus'[i].of = Root /\ bus'[i].kind = "ended"
  BY <1>3, ChildrenAssumption DEF QueueInv
<1>7. QueueInv(bus)'
  BY <1>3, <1>4, <1>5, <1>6, Zenon DEF QueueInv
<1> QED
  BY <1>1, <1>7 DEF ManagerInv

\* What a step that answers no event leaves alone: a run that the store may know
\* goes on, and a child that is there is not deleted in silence.
Undisturbed(d) ==
    /\ act[d].run \in {"live", "ending"} =>
          act'[d].run \in {"live", "ending"} /\ ran'[d] = ran[d]
    /\ rec[d] \notin {"none", "gone"} /\ act[d].close # "silent" =>
          rec'[d] \notin {"none", "gone"} /\ act'[d].close # "silent"

\* A close is final.
Final(d) == Unavailable(d) => rec'[d] \in {"closing", "closed", "gone"} /\ ran'[d] <= ran[d]

ManagerStep == ManagerInv' /\ \A d \in Children : Undisturbed(d) /\ Final(d)

LEMMA OthersUndisturbed ==
    ASSUME ManagerTyped, NEW d \in Children, Same(d)
    PROVE  Undisturbed(d) /\ Final(d)
  BY DEF Same, Undisturbed, Final, Unavailable, ManagerTyped

\* A step of c and its events: what has to be shown of it.
LEMMA ChildStep ==
    ASSUME ManagerInv, NEW c \in Children, ManagerTyped', \A d \in Children \ {c} : Same(d),
           sends <= sends', ChildInv(c)', Undisturbed(c), Final(c),
           Waited(bus, c), bus' = bus
    PROVE  ManagerStep
  BY KeptManager, OthersUndisturbed DEF ManagerStep, ManagerInv

LEMMA ChildEmits ==
    ASSUME ManagerInv, NEW c \in Children, ManagerTyped', \A d \in Children \ {c} : Same(d),
           sends <= sends', ChildInv(c)', Undisturbed(c), Final(c), Waited(bus, c),
           NEW e \in Event, bus' = Append(bus, e), e.c = c, Told(e)',
           \A f \in Event : f.c = c /\ Told(f) => f.kind \notin {e.kind, "closed"}
    PROVE  ManagerStep
<1>1. ASSUME NEW i \in 1 .. Len(bus), bus[i].c = c
      PROVE  bus[i].kind \notin {e.kind, "closed"}
  <2>1. PICK f \in Event : f = bus[i]
    BY QueueMember DEF ManagerInv, QueueInv
  <2>2. Told(f)
    BY <1>1, <2>1, ChildrenAssumption DEF ManagerInv, QueueInv
  <2> QED
    BY <1>1, <2>1, <2>2
<1> QED
  BY <1>1, AppendedManager, OthersUndisturbed DEF ManagerStep, ManagerInv

LEMMA EventsTyped ==
    ASSUME gen \in Gens, NEW c \in Children, NEW kind \in Kinds
    PROVE  /\ ChildEvent(c, kind) \in Event
           /\ \A n \in Runs : RunEvent(c, kind, n) \in Event
  BY DEF ChildEvent, RunEvent, Event

LEMMA ClosedTyped ==
    ASSUME gen \in Gens, NEW c \in Children, NEW failed \in BOOLEAN
    PROVE  /\ ClosedEvent(c, failed) \in Event
           /\ ClosedEvent(c, failed).c = c /\ ClosedEvent(c, failed).kind = "closed"
           /\ ClosedEvent(c, failed).of = Root
<1>1. ClosedEvent(c, failed) =
        [c |-> c, kind |-> "closed", of |-> Root, run |-> gen, failed |-> failed]
  BY DEF ClosedEvent, ChildEvent
<1> QED
  BY <1>1 DEF Event, Kinds

\* How the procedures of c stand after a step, those of the others unchanged.
ActIs(c, spawn, send, suspend, run, close) ==
    /\ act' \in [Children -> ActRecords]
    /\ \A d \in Children \ {c} : act'[d] = act[d]
    /\ act'[c].spawn = spawn /\ act'[c].send = send /\ act'[c].suspend = suspend
    /\ act'[c].run = run /\ act'[c].close = close

LEMMA AtSpawn ==
    ASSUME ManagerTyped, NEW c \in Children,
           NEW pc \in {"off", "acquiring", "telling", "creating", "starting", "failing", "done"},
           act' = At(c, "spawn", pc)
    PROVE  ActIs(c, pc, act[c].send, act[c].suspend, act[c].run, act[c].close)
<1>1. act \in [Children -> ActRecords]
  BY DEF ManagerTyped
<1> QED
  BY <1>1 DEF At, ActIs, ActRecords

LEMMA AtSend ==
    ASSUME ManagerTyped, NEW c \in Children, NEW pc \in {"off", "waiting", "creating", "telling", "starting"},
           act' = At(c, "send", pc)
    PROVE  ActIs(c, act[c].spawn, pc, act[c].suspend, act[c].run, act[c].close)
<1>1. act \in [Children -> ActRecords]
  BY DEF ManagerTyped
<1> QED
  BY <1>1 DEF At, ActIs, ActRecords

LEMMA AtSuspend ==
    ASSUME ManagerTyped, NEW c \in Children, NEW pc \in {"off", "closing", "telling"},
           act' = At(c, "suspend", pc)
    PROVE  ActIs(c, act[c].spawn, act[c].send, pc, act[c].run, act[c].close)
<1>1. act \in [Children -> ActRecords]
  BY DEF ManagerTyped
<1> QED
  BY <1>1 DEF At, ActIs, ActRecords

LEMMA AtRun ==
    ASSUME ManagerTyped, NEW c \in Children, NEW pc \in {"off", "starting", "live", "ending"},
           act' = At(c, "run", pc)
    PROVE  ActIs(c, act[c].spawn, act[c].send, act[c].suspend, pc, act[c].close)
<1>1. act \in [Children -> ActRecords]
  BY DEF ManagerTyped
<1> QED
  BY <1>1 DEF At, ActIs, ActRecords

LEMMA AtClose ==
    ASSUME ManagerTyped, NEW c \in Children, NEW pc \in {"off", "interrupting", "cleaning", "silent", "telling", "done"},
           act' = At(c, "close", pc)
    PROVE  ActIs(c, act[c].spawn, act[c].send, act[c].suspend, act[c].run, pc)
<1>1. act \in [Children -> ActRecords]
  BY DEF ManagerTyped
<1> QED
  BY <1>1 DEF At, ActIs, ActRecords

LEMMA SpawnTyped ==
    ASSUME NEW f \in [Children -> ActRecords], NEW c \in Children,
           NEW pc \in {"off", "acquiring", "telling", "creating", "starting", "failing", "done"}
    PROVE  [f EXCEPT ![c].spawn = pc] \in [Children -> ActRecords]
  BY DEF ActRecords

LEMMA CloseTyped ==
    ASSUME NEW f \in [Children -> ActRecords], NEW c \in Children,
           NEW pc \in {"off", "interrupting", "cleaning", "silent", "telling", "done"}
    PROVE  [f EXCEPT ![c].close = pc] \in [Children -> ActRecords]
  BY DEF ActRecords

LEMMA CleanedIs ==
    ASSUME NEW f \in [Children -> ActRecords], NEW c \in Children, NEW emit \in BOOLEAN,
           \A d \in Children \ {c} : f[d] = act[d], act' = Cleaned(f, c, emit)
    PROVE  ActIs(c, IF f[c].spawn = "failing" /\ f[c].close = "done" THEN "off" ELSE f[c].spawn,
                 f[c].send, f[c].suspend, f[c].run,
                 IF f[c].close \in {"off", "interrupting"}
                 THEN IF emit THEN "cleaning" ELSE "silent"
                 ELSE f[c].close)
<1> DEFINE r == [spawn |-> IF f[c].spawn = "failing" /\ f[c].close = "done" THEN "off" ELSE f[c].spawn,
                 send |-> f[c].send, suspend |-> f[c].suspend, run |-> f[c].run,
                 close |-> IF f[c].close \in {"off", "interrupting"}
                           THEN IF emit THEN "cleaning" ELSE "silent"
                           ELSE f[c].close]
<1>1. r \in ActRecords
  BY DEF ActRecords
<1>2. act' \in [Children -> ActRecords]
  <2>1. act' = [[f EXCEPT ![c].close = r.close] EXCEPT ![c].spawn = r.spawn]
    BY DEF Cleaned, ActRecords
  <2>2. PICK k \in {"off", "interrupting", "cleaning", "silent", "telling", "done"} : k = r.close
    BY <1>1 DEF ActRecords
  <2>3. PICK s \in {"off", "acquiring", "telling", "creating", "starting", "failing", "done"} :
          s = r.spawn
    BY <1>1 DEF ActRecords
  <2> HIDE DEF r
  <2> DEFINE h == [f EXCEPT ![c].close = k]
  <2>4. h \in [Children -> ActRecords]
    BY DEF ActRecords
  <2>5. act' = [h EXCEPT ![c].spawn = s]
    BY <2>1, <2>2, <2>3
  <2> HIDE DEF h
  <2>6. [h EXCEPT ![c].spawn = s] \in [Children -> ActRecords]
    BY <2>4, SpawnTyped
  <2> QED
    BY <2>5, <2>6
<1>3. /\ act'[c].spawn = r.spawn /\ act'[c].close = r.close
      /\ act'[c].send = f[c].send /\ act'[c].suspend = f[c].suspend /\ act'[c].run = f[c].run
  BY DEF Cleaned, ActRecords
<1>4. \A d \in Children \ {c} : act'[d] = act[d]
  BY DEF Cleaned
<1> QED
  BY <1>2, <1>3, <1>4 DEF ActIs

LEMMA SpawnFailsIs ==
    ASSUME ManagerTyped, NEW c \in Children, NEW emit \in BOOLEAN, SpawnFails(c, emit)
    PROVE  /\ ActIs(c, IF act[c].close = "done" THEN "off" ELSE "failing",
                    act[c].send, act[c].suspend, act[c].run,
                    IF act[c].close \in {"off", "interrupting"}
                    THEN IF emit THEN "cleaning" ELSE "silent"
                    ELSE act[c].close)
           /\ rec' = CleanedRec(c)
<1> DEFINE f == At(c, "spawn", "failing")
<1>1. /\ f \in [Children -> ActRecords] /\ \A d \in Children \ {c} : f[d] = act[d]
      /\ f[c].spawn = "failing" /\ f[c].send = act[c].send /\ f[c].suspend = act[c].suspend
      /\ f[c].run = act[c].run /\ f[c].close = act[c].close
  <2>1. act \in [Children -> ActRecords]
    BY DEF ManagerTyped
  <2> QED
    BY <2>1 DEF At, ActRecords
<1>2. act' = Cleaned(f, c, emit)
  BY DEF SpawnFails
<1> HIDE DEF f
<1> QED
  BY <1>1, <1>2, CleanedIs DEF SpawnFails

\* A run of c has begun; its record and its agent are closed; it is deleted.
RecTyped ==
    rec' \in [Children -> {"none", "starting", "idle", "running", "suspended",
                           "closing", "closed", "gone"}]

Begun(c, q) ==
    /\ RecTyped /\ ran' \in [Children -> Nat]
    /\ rec'[c] = "running" /\ ran'[c] = ran[c] + 1
    /\ \A d \in Children \ {c} : rec'[d] = rec[d] /\ ran'[d] = ran[d]
    /\ bus' = Append(q, RunEvent(c, "started", ran[c] + 1))

RecClosed(c) ==
    /\ RecTyped
    /\ \A d \in Children \ {c} : rec'[d] = rec[d]
    /\ act[c].close \in {"off", "interrupting"} => rec'[c] = "closed"
    /\ act[c].close \notin {"off", "interrupting"} => rec'[c] = rec[c]

AgentGivenUp(c) ==
    /\ agent' \in [Children -> {"none", "creating", "open", "closing"}]
    /\ \A d \in Children \ {c} : agent'[d] = agent[d]
    /\ agent[c] = "open" /\ act[c].close \in {"off", "interrupting"} => agent'[c] = "closing"
    /\ ~(agent[c] = "open" /\ act[c].close \in {"off", "interrupting"}) => agent'[c] = agent[c]

Gone(c) ==
    /\ ActIs(c, IF act[c].spawn \in {"failing", "done"} THEN "off" ELSE act[c].spawn,
             act[c].send, act[c].suspend, act[c].run, "done")
    /\ RecTyped /\ ran' \in [Children -> Nat]
    /\ rec'[c] = "gone" /\ ran'[c] = 0 /\ active' = active \ {c}
    /\ \A d \in Children \ {c} : rec'[d] = rec[d] /\ ran'[d] = ran[d]

LEMMA BegunIs ==
    ASSUME ManagerTyped, NEW c \in Children, NEW q, NEW a, BeginRun(c, a, q)
    PROVE  Begun(c, q)
<1>1. /\ rec' = [rec EXCEPT ![c] = "running"]
      /\ ran' = [ran EXCEPT ![c] = @ + 1]
      /\ bus' = Append(q, RunEvent(c, "started", ran[c] + 1))
  BY DEF BeginRun
<1> QED
  BY <1>1 DEF ManagerTyped, Begun, RecTyped

LEMMA BeginSpawnIs ==
    ASSUME ManagerTyped, NEW c \in Children, NEW q, BeginRun(c, "spawn", q)
    PROVE  ActIs(c, "starting", act[c].send, act[c].suspend, "starting", act[c].close)
<1> DEFINE f == [act EXCEPT ![c].run = "starting"]
<1>1. act' = [f EXCEPT ![c].spawn = "starting"]
  BY DEF BeginRun
<1>2. act \in [Children -> ActRecords]
  BY DEF ManagerTyped
<1>3. /\ f \in [Children -> ActRecords] /\ \A d \in Children \ {c} : f[d] = act[d]
      /\ f[c].run = "starting" /\ f[c].spawn = act[c].spawn /\ f[c].send = act[c].send
      /\ f[c].suspend = act[c].suspend /\ f[c].close = act[c].close
  BY <1>2 DEF ActRecords
<1> HIDE DEF f
<1> QED
  BY <1>1, <1>3 DEF ActIs, ActRecords

LEMMA BeginSendIs ==
    ASSUME ManagerTyped, NEW c \in Children, NEW q, BeginRun(c, "send", q)
    PROVE  ActIs(c, act[c].spawn, "starting", act[c].suspend, "starting", act[c].close)
<1> DEFINE f == [act EXCEPT ![c].run = "starting"]
<1>1. act' = [f EXCEPT ![c].send = "starting"]
  BY DEF BeginRun
<1>2. act \in [Children -> ActRecords]
  BY DEF ManagerTyped
<1>3. /\ f \in [Children -> ActRecords] /\ \A d \in Children \ {c} : f[d] = act[d]
      /\ f[c].run = "starting" /\ f[c].spawn = act[c].spawn /\ f[c].send = act[c].send
      /\ f[c].suspend = act[c].suspend /\ f[c].close = act[c].close
  BY <1>2 DEF ActRecords
<1> HIDE DEF f
<1> QED
  BY <1>1, <1>3 DEF ActIs, ActRecords

LEMMA InterruptedIs ==
    ASSUME ManagerTyped, NEW c \in Children,
           act' = [act EXCEPT ![c].spawn = "failing", ![c].close = "interrupting"]
    PROVE  ActIs(c, "failing", act[c].send, act[c].suspend, act[c].run, "interrupting")
<1> DEFINE f == [act EXCEPT ![c].spawn = "failing"]
<1>1. act' = [f EXCEPT ![c].close = "interrupting"]
  OBVIOUS
<1>2. act \in [Children -> ActRecords]
  BY DEF ManagerTyped
<1>3. /\ f \in [Children -> ActRecords] /\ \A d \in Children \ {c} : f[d] = act[d]
      /\ f[c].run = act[c].run /\ f[c].spawn = "failing" /\ f[c].send = act[c].send
      /\ f[c].suspend = act[c].suspend /\ f[c].close = act[c].close
  BY <1>2 DEF ActRecords
<1> HIDE DEF f
<1>4. act' \in [Children -> ActRecords]
  <2>1. [f EXCEPT ![c].close = "interrupting"] \in [Children -> ActRecords]
    BY <1>3, CloseTyped
  <2> QED
    BY <1>1, <2>1
<1>5. \A d \in Children \ {c} : act'[d] = act[d]
  BY <1>1, <1>3
<1>6. /\ act'[c].spawn = "failing" /\ act'[c].send = act[c].send /\ act'[c].suspend = act[c].suspend
      /\ act'[c].run = act[c].run /\ act'[c].close = "interrupting"
  BY <1>1, <1>3 DEF ActRecords
<1> QED
  BY <1>4, <1>5, <1>6 DEF ActIs

LEMMA CleanedRecIs ==
    ASSUME ManagerTyped, NEW c \in Children, rec' = CleanedRec(c)
    PROVE  RecClosed(c)
  BY DEF CleanedRec, ManagerTyped, RecClosed, RecTyped

LEMMA GivenUpIs ==
    ASSUME ManagerTyped, NEW c \in Children, agent' = GivenUp(c)
    PROVE  AgentGivenUp(c)
  BY DEF GivenUp, ManagerTyped, AgentGivenUp

LEMMA DeletedIs ==
    ASSUME ManagerTyped, NEW c \in Children, Deleted(c)
    PROVE  Gone(c)
<1>1. act \in [Children -> ActRecords]
  BY DEF ManagerTyped
<1>2. ActIs(c, IF act[c].spawn \in {"failing", "done"} THEN "off" ELSE act[c].spawn,
            act[c].send, act[c].suspend, act[c].run, "done")
  BY <1>1 DEF Deleted, ActIs, ActRecords
<1>3. rec' = [rec EXCEPT ![c] = "gone"] /\ ran' = [ran EXCEPT ![c] = 0] /\ active' = active \ {c}
  BY DEF Deleted
<1> QED
  BY <1>2, <1>3 DEF ManagerTyped, Gone, RecTyped

\* The procedures of c that wait for an answer still do, but for an event of
\* that kind.
Steady(c, kind) ==
    /\ act[c].spawn = "telling" /\ kind # "created" => act'[c].spawn = "telling"
    /\ act[c].send = "telling" /\ kind # "resumed" => act'[c].send = "telling"
    /\ act[c].suspend = "telling" /\ kind # "suspended" => act'[c].suspend = "telling"
    /\ act[c].close = "telling" /\ kind # "closed" => act'[c].close = "telling"
    /\ act[c].run = "starting" /\ kind # "started" =>
          act'[c].run = "starting" /\ ran'[c] = ran[c]
    /\ act[c].run = "ending" /\ kind # "ended" => act'[c].run = "ending" /\ ran'[c] = ran[c]
    /\ act[c].close \notin {"silent", "done"} => act'[c].close \notin {"silent", "done"}

LEMMA WaitedWhenSteady ==
    ASSUME NEW c \in Children, NEW kind, Steady(c, kind), NEW q,
           \A i \in 1 .. Len(q) : q[i].c = c => q[i].kind # kind
    PROVE  Waited(q, c)
<1> SUFFICES ASSUME NEW e \in Event, e.c = c, Told(e), e.kind # kind PROVE Told(e)'
  BY DEF Waited
<1>1. e.kind \in Kinds
  BY DEF Event
<1> QED
  BY <1>1 DEF Told, Steady, Kinds

LEMMA WaitedBus ==
    ASSUME ManagerInv, NEW c \in Children, Steady(c, "none")
    PROVE  Waited(bus, c)
<1>1. ASSUME NEW i \in 1 .. Len(bus) PROVE bus[i].kind # "none"
  <2>1. bus[i] \in Event
    BY QueueMember DEF ManagerInv, QueueInv
  <2> QED
    BY <2>1 DEF Event, Kinds
<1> QED
  BY <1>1, WaitedWhenSteady

LEMMA RanBound ==
    ASSUME ManagerTyped, NEW c \in Children, ChildInv(c)
    PROVE  /\ ran[c] <= sends + 1 /\ ran[c] + Credit(c) <= sends + 1
           /\ ran[c] \in Nat /\ sends \in Nat /\ sends <= MaxSends /\ MaxSends \in Nat
           /\ ran[c] > 0 => ran[c] \in Runs
           /\ Credit(c) > 0 => ran[c] + 1 \in Runs
<1>1. ran[c] \in Nat /\ sends \in Nat /\ sends <= MaxSends /\ MaxSends \in Nat
  BY BoundsAssumption DEF ManagerTyped
<1>2. ran[c] + Credit(c) <= sends + 1 /\ Credit(c) \in Nat
  BY DEF ChildInv, Credit
<1> QED
  BY <1>1, <1>2 DEF Runs

LEMMA SpawnOK ==
    ASSUME ManagerInv, NEW c \in Children, Spawn(c)
    PROVE  ManagerStep
<1>1. ManagerTyped /\ ChildInv(c)
  BY DEF ManagerInv
<1>2. ActIs(c, "acquiring", act[c].send, act[c].suspend, act[c].run, act[c].close)
  BY <1>1, AtSpawn DEF Spawn
<1>3. ManagerTyped' /\ \A d \in Children \ {c} : Same(d)
  BY <1>1, <1>2 DEF Spawn, ManagerTyped, Same, ActIs
<1>4. ran'[c] + Credit(c)' <= sends' + 1
  BY <1>1, <1>2 DEF Spawn, ChildInv, Credit, ManagerTyped, ActIs
<1>5. ChildInv(c)'
  BY <1>1, <1>2, <1>4 DEF Spawn, ChildInv, ClosesInOrder, Unavailable, ManagerTyped, ActIs
<1>6. Undisturbed(c) /\ Final(c)
  BY <1>1, <1>2 DEF Spawn, Undisturbed, Final, Unavailable, ChildInv, ClosesInOrder, ManagerTyped, ActIs
<1>7. Steady(c, "none")
  BY <1>1, <1>2 DEF Spawn, Steady, ActIs, Unavailable, ChildInv, ClosesInOrder
<1>8. sends <= sends'
  BY <1>1, RanBound DEF Spawn
<1>9. bus' = bus
  BY DEF Spawn
<1> QED
  BY <1>3, <1>5, <1>6, <1>7, <1>8, <1>9, WaitedBus, ChildStep

LEMMA SpawnAcquiresOK ==
    ASSUME ManagerInv, gen \in Gens, NEW c \in Children, SpawnAcquires(c)
    PROVE  ManagerStep
<1>1. ManagerTyped /\ ChildInv(c)
  BY DEF ManagerInv
<1>2. ActIs(c, "telling", act[c].send, act[c].suspend, act[c].run, act[c].close)
  BY <1>1, AtSpawn DEF SpawnAcquires
<1>3. ManagerTyped' /\ \A d \in Children \ {c} : Same(d)
  BY <1>1, <1>2 DEF SpawnAcquires, ManagerTyped, Same, ActIs
<1>4. ran'[c] + Credit(c)' <= sends' + 1
  BY <1>1, <1>2 DEF SpawnAcquires, ChildInv, Credit, ManagerTyped, ActIs
<1>5. ChildInv(c)'
  BY <1>1, <1>2, <1>4 DEF SpawnAcquires, ChildInv, ClosesInOrder, Unavailable, ManagerTyped, ActIs
<1>6. Undisturbed(c) /\ Final(c)
  BY <1>1, <1>2 DEF SpawnAcquires, Undisturbed, Final, Unavailable, ChildInv, ClosesInOrder, ManagerTyped, ActIs
<1>7. Steady(c, "none")
  BY <1>1, <1>2 DEF SpawnAcquires, Steady, ActIs, Unavailable, ChildInv, ClosesInOrder
<1>8. sends <= sends'
  BY <1>1, RanBound DEF SpawnAcquires
<1>9. PICK e \in Event : e = ChildEvent(c, "created") /\ e.c = c /\ e.kind = "created" /\ bus' = Append(bus, e)
  BY <1>1, RanBound, EventsTyped DEF ChildEvent, RunEvent, Kinds, SpawnAcquires, Emit, ChildInv
<1>10. Told(e)'
  BY <1>1, <1>2, <1>9 DEF Told, ChildEvent, RunEvent, ChildInv, ClosesInOrder, ActIs, Unavailable, SpawnAcquires
<1>11. \A f \in Event : f.c = c /\ Told(f) => f.kind \notin {e.kind, "closed"}
  BY <1>1, <1>9 DEF Told, ChildInv, ClosesInOrder, Unavailable, SpawnAcquires
<1>12. Waited(bus, c)
  BY <1>7, WaitedBus
<1> QED
  BY <1>3, <1>5, <1>6, <1>8, <1>9, <1>10, <1>11, <1>12, ChildEmits

LEMMA AgentCreatedOK ==
    ASSUME ManagerInv, NEW c \in Children, AgentCreated(c)
    PROVE  ManagerStep
<1>1. ManagerTyped /\ ChildInv(c)
  BY DEF ManagerInv
<1>2. ActIs(c, act[c].spawn, act[c].send, act[c].suspend, act[c].run, act[c].close)
  BY <1>1 DEF AgentCreated, ActIs, ManagerTyped
<1>3. ManagerTyped' /\ \A d \in Children \ {c} : Same(d)
  BY <1>1, <1>2 DEF AgentCreated, ManagerTyped, Same, ActIs
<1>4. ran'[c] + Credit(c)' <= sends' + 1
  BY <1>1, <1>2 DEF AgentCreated, ChildInv, Credit, ManagerTyped, ActIs
<1>5. ChildInv(c)'
  BY <1>1, <1>2, <1>4 DEF AgentCreated, ChildInv, ClosesInOrder, Unavailable, ManagerTyped, ActIs
<1>6. Undisturbed(c) /\ Final(c)
  BY <1>1, <1>2 DEF AgentCreated, Undisturbed, Final, Unavailable, ChildInv, ClosesInOrder, ManagerTyped, ActIs
<1>7. Steady(c, "none")
  BY <1>1, <1>2 DEF AgentCreated, Steady, ActIs, Unavailable, ChildInv, ClosesInOrder
<1>8. sends <= sends'
  BY <1>1, RanBound DEF AgentCreated
<1>9. bus' = bus
  BY DEF AgentCreated
<1> QED
  BY <1>3, <1>5, <1>6, <1>7, <1>8, <1>9, WaitedBus, ChildStep

LEMMA SendOK ==
    ASSUME ManagerInv, NEW c \in Children, Send(c)
    PROVE  ManagerStep
<1>1. ManagerTyped /\ ChildInv(c)
  BY DEF ManagerInv
<1>2. ActIs(c, act[c].spawn, "waiting", act[c].suspend, act[c].run, act[c].close)
  BY <1>1, AtSend DEF Send
<1>3. ManagerTyped' /\ \A d \in Children \ {c} : Same(d)
  BY <1>1, <1>2, RanBound DEF Send, ManagerTyped, Same, ActIs
<1>4. ran'[c] + Credit(c)' <= sends' + 1
  BY <1>1, <1>2 DEF Send, ChildInv, Credit, ManagerTyped, ActIs
<1>5. ChildInv(c)'
  BY <1>1, <1>2, <1>4 DEF Send, ChildInv, ClosesInOrder, Unavailable, ManagerTyped, ActIs
<1>6. Undisturbed(c) /\ Final(c)
  BY <1>1, <1>2 DEF Send, Undisturbed, Final, Unavailable, ChildInv, ClosesInOrder, ManagerTyped, ActIs
<1>7. Steady(c, "none")
  BY <1>1, <1>2 DEF Send, Steady, ActIs, Unavailable, ChildInv, ClosesInOrder
<1>8. sends <= sends'
  BY <1>1, RanBound DEF Send
<1>9. bus' = bus
  BY DEF Send
<1> QED
  BY <1>3, <1>5, <1>6, <1>7, <1>8, <1>9, WaitedBus, ChildStep

LEMMA RunEndsOK ==
    ASSUME ManagerInv, gen \in Gens, NEW c \in Children, RunEnds(c)
    PROVE  ManagerStep
<1>1. ManagerTyped /\ ChildInv(c)
  BY DEF ManagerInv
<1>2. ActIs(c, act[c].spawn, act[c].send, act[c].suspend, "ending", act[c].close)
  BY <1>1, AtRun DEF RunEnds
<1>3. ManagerTyped' /\ \A d \in Children \ {c} : Same(d)
  BY <1>1, <1>2 DEF RunEnds, ManagerTyped, Same, ActIs
<1>4. ran'[c] + Credit(c)' <= sends' + 1
  BY <1>1, <1>2 DEF RunEnds, ChildInv, Credit, ManagerTyped, ActIs
<1>5. ChildInv(c)'
  BY <1>1, <1>2, <1>4 DEF RunEnds, ChildInv, ClosesInOrder, Unavailable, ManagerTyped, ActIs
<1>6. Undisturbed(c) /\ Final(c)
  BY <1>1, <1>2 DEF RunEnds, Undisturbed, Final, Unavailable, ChildInv, ClosesInOrder, ManagerTyped, ActIs
<1>7. Steady(c, "none")
  BY <1>1, <1>2 DEF RunEnds, Steady, ActIs, Unavailable, ChildInv, ClosesInOrder
<1>8. sends <= sends'
  BY <1>1, RanBound DEF RunEnds
<1>9. PICK e \in Event : e = RunEvent(c, "ended", ran[c]) /\ e.c = c /\ e.kind = "ended" /\ bus' = Append(bus, e)
  BY <1>1, RanBound, EventsTyped DEF ChildEvent, RunEvent, Kinds, RunEnds, Emit, ChildInv
<1>10. Told(e)'
  BY <1>1, <1>2, <1>9 DEF Told, ChildEvent, RunEvent, ChildInv, ClosesInOrder, ActIs, Unavailable, RunEnds
<1>11. \A f \in Event : f.c = c /\ Told(f) => f.kind \notin {e.kind, "closed"}
  BY <1>1, <1>9 DEF Told, ChildInv, ClosesInOrder, Unavailable, RunEnds
<1>12. Waited(bus, c)
  BY <1>7, WaitedBus
<1> QED
  BY <1>3, <1>5, <1>6, <1>8, <1>9, <1>10, <1>11, <1>12, ChildEmits

LEMMA SuspendOK ==
    ASSUME ManagerInv, NEW c \in Children, Suspend(c)
    PROVE  ManagerStep
<1>1. ManagerTyped /\ ChildInv(c)
  BY DEF ManagerInv
<1>2. ActIs(c, act[c].spawn, act[c].send, "closing", act[c].run, act[c].close)
  BY <1>1, AtSuspend DEF Suspend
<1>3. ManagerTyped' /\ \A d \in Children \ {c} : Same(d)
  BY <1>1, <1>2 DEF Suspend, ManagerTyped, Same, ActIs
<1>4. ran'[c] + Credit(c)' <= sends' + 1
  BY <1>1, <1>2 DEF Suspend, ChildInv, Credit, ManagerTyped, ActIs
<1>5. ChildInv(c)'
  BY <1>1, <1>2, <1>4 DEF Suspend, ChildInv, ClosesInOrder, Unavailable, ManagerTyped, ActIs
<1>6. Undisturbed(c) /\ Final(c)
  BY <1>1, <1>2 DEF Suspend, Undisturbed, Final, Unavailable, ChildInv, ClosesInOrder, ManagerTyped, ActIs
<1>7. Steady(c, "none")
  BY <1>1, <1>2 DEF Suspend, Steady, ActIs, Unavailable, ChildInv, ClosesInOrder
<1>8. sends <= sends'
  BY <1>1, RanBound DEF Suspend
<1>9. bus' = bus
  BY DEF Suspend
<1> QED
  BY <1>3, <1>5, <1>6, <1>7, <1>8, <1>9, WaitedBus, ChildStep

LEMMA AgentClosedOK ==
    ASSUME ManagerInv, NEW c \in Children, AgentClosed(c)
    PROVE  ManagerStep
<1>1. ManagerTyped /\ ChildInv(c)
  BY DEF ManagerInv
<1>2. ActIs(c, act[c].spawn, act[c].send, act[c].suspend, act[c].run, act[c].close)
  BY <1>1 DEF AgentClosed, ActIs, ManagerTyped
<1>3. ManagerTyped' /\ \A d \in Children \ {c} : Same(d)
  BY <1>1, <1>2 DEF AgentClosed, ManagerTyped, Same, ActIs
<1>4. ran'[c] + Credit(c)' <= sends' + 1
  BY <1>1, <1>2 DEF AgentClosed, ChildInv, Credit, ManagerTyped, ActIs
<1>5. ChildInv(c)'
  BY <1>1, <1>2, <1>4 DEF AgentClosed, ChildInv, ClosesInOrder, Unavailable, ManagerTyped, ActIs
<1>6. Undisturbed(c) /\ Final(c)
  BY <1>1, <1>2 DEF AgentClosed, Undisturbed, Final, Unavailable, ChildInv, ClosesInOrder, ManagerTyped, ActIs
<1>7. Steady(c, "none")
  BY <1>1, <1>2 DEF AgentClosed, Steady, ActIs, Unavailable, ChildInv, ClosesInOrder
<1>8. sends <= sends'
  BY <1>1, RanBound DEF AgentClosed
<1>9. bus' = bus
  BY DEF AgentClosed
<1> QED
  BY <1>3, <1>5, <1>6, <1>7, <1>8, <1>9, WaitedBus, ChildStep

LEMMA CleanAgentOK ==
    ASSUME ManagerInv, NEW c \in Children, CleanAgent(c)
    PROVE  ManagerStep
<1>1. ManagerTyped /\ ChildInv(c)
  BY DEF ManagerInv
<1>2. ActIs(c, act[c].spawn, act[c].send, act[c].suspend, act[c].run, act[c].close)
  BY <1>1 DEF CleanAgent, ActIs, ManagerTyped
<1>3. ManagerTyped' /\ \A d \in Children \ {c} : Same(d)
  BY <1>1, <1>2 DEF CleanAgent, ManagerTyped, Same, ActIs
<1>4. ran'[c] + Credit(c)' <= sends' + 1
  BY <1>1, <1>2 DEF CleanAgent, ChildInv, Credit, ManagerTyped, ActIs
<1>5. ChildInv(c)'
  BY <1>1, <1>2, <1>4 DEF CleanAgent, ChildInv, ClosesInOrder, Unavailable, ManagerTyped, ActIs
<1>6. Undisturbed(c) /\ Final(c)
  BY <1>1, <1>2 DEF CleanAgent, Undisturbed, Final, Unavailable, ChildInv, ClosesInOrder, ManagerTyped, ActIs
<1>7. Steady(c, "none")
  BY <1>1, <1>2 DEF CleanAgent, Steady, ActIs, Unavailable, ChildInv, ClosesInOrder
<1>8. sends <= sends'
  BY <1>1, RanBound DEF CleanAgent
<1>9. bus' = bus
  BY DEF CleanAgent
<1> QED
  BY <1>3, <1>5, <1>6, <1>7, <1>8, <1>9, WaitedBus, ChildStep

LEMMA SpawnHasAgentOK ==
    ASSUME ManagerInv, gen \in Gens, NEW c \in Children, SpawnHasAgent(c)
    PROVE  ManagerStep
<1>1. ManagerTyped /\ ChildInv(c)
  BY DEF ManagerInv
<1>2. act[c].spawn = "creating" /\ agent[c] # "creating" /\ UNCHANGED <<lease, active, sends>>
  BY DEF SpawnHasAgent
<1>3. ASSUME ~Unavailable(c),
          act[c].run = "off",
          BeginRun(c, "spawn", bus),
          UNCHANGED agent
     PROVE  ManagerStep
  <2>1. Begun(c, bus)
    BY <1>1, <1>3, BegunIs
  <2>1b. ran[c] + 1 \in Runs
    BY <1>1, <1>2, <1>2, <1>3, <2>1, RanBound DEF Credit
  <2>2. ActIs(c, "starting", act[c].send, act[c].suspend, "starting", act[c].close)
    BY <1>1, <1>3, BeginSpawnIs
  <2>3. ManagerTyped' /\ \A d \in Children \ {c} : Same(d)
    BY <1>1, <2>2, <1>2, <1>3, <2>1, <2>1b DEF ManagerTyped, Same, ActIs, Credit, Begun, RecTyped
  <2>4. ran'[c] + Credit(c)' <= sends' + 1
    BY <1>1, <2>2, <1>2, <1>3, <2>1, <2>1b DEF ChildInv, Credit, ManagerTyped, ActIs, Credit, Begun, RecTyped
  <2>5. ChildInv(c)'
    BY <1>1, <2>2, <2>4, <1>2, <1>3, <2>1, <2>1b DEF ChildInv, ClosesInOrder, Unavailable, ManagerTyped, ActIs, Credit, Begun, RecTyped
  <2>6. Undisturbed(c) /\ Final(c)
    BY <1>1, <2>2, <1>2, <1>3, <2>1, <2>1b DEF Undisturbed, Final, Unavailable, ChildInv, ClosesInOrder, ManagerTyped, ActIs, Credit, Begun, RecTyped
  <2>7. Steady(c, "none")
    BY <1>1, <2>2, <1>2, <1>3, <2>1, <2>1b DEF Steady, ActIs, Unavailable, ChildInv, ClosesInOrder, Credit, Begun, RecTyped
  <2>8. sends <= sends'
    BY <1>1, RanBound, <1>2, <1>3, <2>1, <2>1b
  <2>9. PICK e \in Event : e = RunEvent(c, "started", ran[c] + 1) /\ e.c = c /\ e.kind = "started" /\ bus' = Append(bus, e)
    BY <1>1, RanBound, EventsTyped, <1>2, <1>3, <2>1, <2>1b DEF ChildEvent, RunEvent, Kinds, Emit, ChildInv, Credit, Begun, RecTyped
  <2>10. Told(e)'
    BY <1>1, <2>2, <2>9, <1>2, <1>3, <2>1, <2>1b DEF Told, ChildEvent, RunEvent, ChildInv, ClosesInOrder, ActIs, Unavailable, Credit, Begun, RecTyped
  <2>11. \A f \in Event : f.c = c /\ Told(f) => f.kind \notin {e.kind, "closed"}
    BY <1>1, <2>9, <1>2, <1>3, <2>1, <2>1b DEF Told, ChildInv, ClosesInOrder, Unavailable, Credit, Begun, RecTyped
  <2>12. Waited(bus, c)
    BY <2>7, WaitedBus
  <2> QED
    BY <2>3, <2>5, <2>6, <2>8, <2>9, <2>10, <2>11, <2>12, ChildEmits
<1>4. ASSUME ~Unavailable(c),
          rec' = [rec EXCEPT ![c] = "closing"],
          act' = [act EXCEPT ![c].spawn = "failing", ![c].close = "interrupting"],
          UNCHANGED <<agent, ran, bus>>
     PROVE  ManagerStep
  <2>2. ActIs(c, "failing", act[c].send, act[c].suspend, act[c].run, "interrupting")
    BY <1>1, <1>4, InterruptedIs
  <2>3. ManagerTyped' /\ \A d \in Children \ {c} : Same(d)
    BY <1>1, <2>2, <1>2, <1>4 DEF ManagerTyped, Same, ActIs
  <2>4. ran'[c] + Credit(c)' <= sends' + 1
    BY <1>1, <2>2, <1>2, <1>4 DEF ChildInv, Credit, ManagerTyped, ActIs
  <2>5. ChildInv(c)'
    BY <1>1, <2>2, <2>4, <1>2, <1>4 DEF ChildInv, ClosesInOrder, Unavailable, ManagerTyped, ActIs
  <2>6. Undisturbed(c) /\ Final(c)
    BY <1>1, <2>2, <1>2, <1>4 DEF Undisturbed, Final, Unavailable, ChildInv, ClosesInOrder, ManagerTyped, ActIs
  <2>7. Steady(c, "none")
    BY <1>1, <2>2, <1>2, <1>4 DEF Steady, ActIs, Unavailable, ChildInv, ClosesInOrder
  <2>8. sends <= sends'
    BY <1>1, RanBound, <1>2, <1>4
  <2>9. bus' = bus
    BY <1>2, <1>4
  <2> QED
    BY <2>3, <2>5, <2>6, <2>7, <2>8, <2>9, WaitedBus, ChildStep
<1>5. ASSUME SpawnFails(c, TRUE),
          Unavailable(c) \/ act[c].run # "off",
          agent' = IF Unavailable(c) THEN GivenUp(c) ELSE agent,
          UNCHANGED <<ran, bus>>
     PROVE  ManagerStep
  <2>1. RecClosed(c) /\ (Unavailable(c) => AgentGivenUp(c))
    BY <1>1, <1>5, CleanedRecIs, GivenUpIs DEF SpawnFails
  <2>2. ActIs(c, IF act[c].close = "done" THEN "off" ELSE "failing", act[c].send, act[c].suspend, act[c].run,
              IF act[c].close \in {"off", "interrupting"} THEN "cleaning" ELSE act[c].close)
    BY <1>1, <1>5, SpawnFailsIs
  <2>3. ManagerTyped' /\ \A d \in Children \ {c} : Same(d)
    BY <1>1, <2>2, <1>2, <1>5, <2>1 DEF ManagerTyped, Same, ActIs, RecClosed, RecTyped, AgentGivenUp, Unavailable
  <2>4. ran'[c] + Credit(c)' <= sends' + 1
    BY <1>1, <2>2, <1>2, <1>5, <2>1 DEF ChildInv, Credit, ManagerTyped, ActIs, RecClosed, RecTyped, AgentGivenUp, Unavailable
  <2>5. ChildInv(c)'
    BY <1>1, <2>2, <2>4, <1>2, <1>5, <2>1 DEF ChildInv, ClosesInOrder, Unavailable, ManagerTyped, ActIs, RecClosed, RecTyped, AgentGivenUp, Unavailable
  <2>6. Undisturbed(c) /\ Final(c)
    BY <1>1, <2>2, <1>2, <1>5, <2>1 DEF Undisturbed, Final, Unavailable, ChildInv, ClosesInOrder, ManagerTyped, ActIs, RecClosed, RecTyped, AgentGivenUp, Unavailable
  <2>7. Steady(c, "none")
    BY <1>1, <2>2, <1>2, <1>5, <2>1 DEF Steady, ActIs, Unavailable, ChildInv, ClosesInOrder, RecClosed, RecTyped, AgentGivenUp, Unavailable
  <2>8. sends <= sends'
    BY <1>1, RanBound, <1>2, <1>5, <2>1
  <2>9. bus' = bus
    BY <1>2, <1>5, <2>1
  <2> QED
    BY <2>3, <2>5, <2>6, <2>7, <2>8, <2>9, WaitedBus, ChildStep
<1> QED
  BY <1>3, <1>4, <1>5 DEF SpawnHasAgent

LEMMA SendTurnOK ==
    ASSUME ManagerInv, gen \in Gens, NEW c \in Children, SendTurn(c)
    PROVE  ManagerStep
<1>1. ManagerTyped /\ ChildInv(c)
  BY DEF ManagerInv
<1>2. act[c].send = "waiting" /\ act[c].run = "off" /\ (act[c].suspend = "off" \/ Unavailable(c)) /\ UNCHANGED <<lease, active, sends>>
  BY DEF SendTurn
<1>3. ASSUME Unavailable(c),
          act' = At(c, "send", "off"),
          UNCHANGED <<rec, ran, bus, agent>>
     PROVE  ManagerStep
  <2>2. ActIs(c, act[c].spawn, "off", act[c].suspend, act[c].run, act[c].close)
    BY <1>1, <1>3, AtSend
  <2>3. ManagerTyped' /\ \A d \in Children \ {c} : Same(d)
    BY <1>1, <2>2, <1>2, <1>3 DEF ManagerTyped, Same, ActIs
  <2>4. ran'[c] + Credit(c)' <= sends' + 1
    BY <1>1, <2>2, <1>2, <1>3 DEF ChildInv, Credit, ManagerTyped, ActIs
  <2>5. ChildInv(c)'
    BY <1>1, <2>2, <2>4, <1>2, <1>3 DEF ChildInv, ClosesInOrder, Unavailable, ManagerTyped, ActIs
  <2>6. Undisturbed(c) /\ Final(c)
    BY <1>1, <2>2, <1>2, <1>3 DEF Undisturbed, Final, Unavailable, ChildInv, ClosesInOrder, ManagerTyped, ActIs
  <2>7. Steady(c, "none")
    BY <1>1, <2>2, <1>2, <1>3 DEF Steady, ActIs, Unavailable, ChildInv, ClosesInOrder
  <2>8. sends <= sends'
    BY <1>1, RanBound, <1>2, <1>3
  <2>9. bus' = bus
    BY <1>2, <1>3
  <2> QED
    BY <2>3, <2>5, <2>6, <2>7, <2>8, <2>9, WaitedBus, ChildStep
<1>4. ASSUME ~Unavailable(c),
          agent[c] = "open",
          BeginRun(c, "send", bus),
          UNCHANGED agent
     PROVE  ManagerStep
  <2>1. Begun(c, bus)
    BY <1>1, <1>4, BegunIs
  <2>1b. ran[c] + 1 \in Runs
    BY <1>1, <1>2, <1>2, <1>4, <2>1, RanBound DEF Credit
  <2>2. ActIs(c, act[c].spawn, "starting", act[c].suspend, "starting", act[c].close)
    BY <1>1, <1>4, BeginSendIs
  <2>3. ManagerTyped' /\ \A d \in Children \ {c} : Same(d)
    BY <1>1, <2>2, <1>2, <1>4, <2>1, <2>1b DEF ManagerTyped, Same, ActIs, Credit, Begun, RecTyped
  <2>4. ran'[c] + Credit(c)' <= sends' + 1
    BY <1>1, <2>2, <1>2, <1>4, <2>1, <2>1b DEF ChildInv, Credit, ManagerTyped, ActIs, Credit, Begun, RecTyped
  <2>5. ChildInv(c)'
    BY <1>1, <2>2, <2>4, <1>2, <1>4, <2>1, <2>1b DEF ChildInv, ClosesInOrder, Unavailable, ManagerTyped, ActIs, Credit, Begun, RecTyped
  <2>6. Undisturbed(c) /\ Final(c)
    BY <1>1, <2>2, <1>2, <1>4, <2>1, <2>1b DEF Undisturbed, Final, Unavailable, ChildInv, ClosesInOrder, ManagerTyped, ActIs, Credit, Begun, RecTyped
  <2>7. Steady(c, "none")
    BY <1>1, <2>2, <1>2, <1>4, <2>1, <2>1b DEF Steady, ActIs, Unavailable, ChildInv, ClosesInOrder, Credit, Begun, RecTyped
  <2>8. sends <= sends'
    BY <1>1, RanBound, <1>2, <1>4, <2>1, <2>1b
  <2>9. PICK e \in Event : e = RunEvent(c, "started", ran[c] + 1) /\ e.c = c /\ e.kind = "started" /\ bus' = Append(bus, e)
    BY <1>1, RanBound, EventsTyped, <1>2, <1>4, <2>1, <2>1b DEF ChildEvent, RunEvent, Kinds, Emit, ChildInv, Credit, Begun, RecTyped
  <2>10. Told(e)'
    BY <1>1, <2>2, <2>9, <1>2, <1>4, <2>1, <2>1b DEF Told, ChildEvent, RunEvent, ChildInv, ClosesInOrder, ActIs, Unavailable, Credit, Begun, RecTyped
  <2>11. \A f \in Event : f.c = c /\ Told(f) => f.kind \notin {e.kind, "closed"}
    BY <1>1, <2>9, <1>2, <1>4, <2>1, <2>1b DEF Told, ChildInv, ClosesInOrder, Unavailable, Credit, Begun, RecTyped
  <2>12. Waited(bus, c)
    BY <2>7, WaitedBus
  <2> QED
    BY <2>3, <2>5, <2>6, <2>8, <2>9, <2>10, <2>11, <2>12, ChildEmits
<1>5. ASSUME ~Unavailable(c),
          agent[c] \in {"none", "creating"},
          act' = At(c, "send", "creating"),
          agent' = [agent EXCEPT ![c] = "creating"],
          UNCHANGED <<rec, ran, bus>>
     PROVE  ManagerStep
  <2>2. ActIs(c, act[c].spawn, "creating", act[c].suspend, act[c].run, act[c].close)
    BY <1>1, <1>5, AtSend
  <2>3. ManagerTyped' /\ \A d \in Children \ {c} : Same(d)
    BY <1>1, <2>2, <1>2, <1>5 DEF ManagerTyped, Same, ActIs
  <2>4. ran'[c] + Credit(c)' <= sends' + 1
    BY <1>1, <2>2, <1>2, <1>5 DEF ChildInv, Credit, ManagerTyped, ActIs
  <2>5. ChildInv(c)'
    BY <1>1, <2>2, <2>4, <1>2, <1>5 DEF ChildInv, ClosesInOrder, Unavailable, ManagerTyped, ActIs
  <2>6. Undisturbed(c) /\ Final(c)
    BY <1>1, <2>2, <1>2, <1>5 DEF Undisturbed, Final, Unavailable, ChildInv, ClosesInOrder, ManagerTyped, ActIs
  <2>7. Steady(c, "none")
    BY <1>1, <2>2, <1>2, <1>5 DEF Steady, ActIs, Unavailable, ChildInv, ClosesInOrder
  <2>8. sends <= sends'
    BY <1>1, RanBound, <1>2, <1>5
  <2>9. bus' = bus
    BY <1>2, <1>5
  <2> QED
    BY <2>3, <2>5, <2>6, <2>7, <2>8, <2>9, WaitedBus, ChildStep
<1> QED
  BY <1>3, <1>4, <1>5 DEF SendTurn

LEMMA SendHasAgentOK ==
    ASSUME ManagerInv, gen \in Gens, NEW c \in Children, SendHasAgent(c)
    PROVE  ManagerStep
<1>1. ManagerTyped /\ ChildInv(c)
  BY DEF ManagerInv
<1>2. act[c].send = "creating" /\ agent[c] # "creating" /\ act[c].spawn \notin {"telling", "creating"} /\ UNCHANGED <<lease, active, ran, sends>>
  BY DEF SendHasAgent
<1>3. ASSUME Unavailable(c),
          act' = At(c, "send", "off"),
          agent' = GivenUp(c),
          UNCHANGED <<rec, bus>>
     PROVE  ManagerStep
  <2>1. AgentGivenUp(c)
    BY <1>1, <1>3, GivenUpIs
  <2>2. ActIs(c, act[c].spawn, "off", act[c].suspend, act[c].run, act[c].close)
    BY <1>1, <1>3, AtSend
  <2>3. ManagerTyped' /\ \A d \in Children \ {c} : Same(d)
    BY <1>1, <2>2, <1>2, <1>3, <2>1 DEF ManagerTyped, Same, ActIs, AgentGivenUp
  <2>4. ran'[c] + Credit(c)' <= sends' + 1
    BY <1>1, <2>2, <1>2, <1>3, <2>1 DEF ChildInv, Credit, ManagerTyped, ActIs, AgentGivenUp
  <2>5. ChildInv(c)'
    BY <1>1, <2>2, <2>4, <1>2, <1>3, <2>1 DEF ChildInv, ClosesInOrder, Unavailable, ManagerTyped, ActIs, AgentGivenUp
  <2>6. Undisturbed(c) /\ Final(c)
    BY <1>1, <2>2, <1>2, <1>3, <2>1 DEF Undisturbed, Final, Unavailable, ChildInv, ClosesInOrder, ManagerTyped, ActIs, AgentGivenUp
  <2>7. Steady(c, "none")
    BY <1>1, <2>2, <1>2, <1>3, <2>1 DEF Steady, ActIs, Unavailable, ChildInv, ClosesInOrder, AgentGivenUp
  <2>8. sends <= sends'
    BY <1>1, RanBound, <1>2, <1>3, <2>1
  <2>9. bus' = bus
    BY <1>2, <1>3, <2>1
  <2> QED
    BY <2>3, <2>5, <2>6, <2>7, <2>8, <2>9, WaitedBus, ChildStep
<1>4. ASSUME ~Unavailable(c),
          rec' = [rec EXCEPT ![c] = "idle"],
          act' = At(c, "send", "telling"),
          Emit(ChildEvent(c, "resumed")),
          UNCHANGED agent
     PROVE  ManagerStep
  <2>2. ActIs(c, act[c].spawn, "telling", act[c].suspend, act[c].run, act[c].close)
    BY <1>1, <1>4, AtSend
  <2>3. ManagerTyped' /\ \A d \in Children \ {c} : Same(d)
    BY <1>1, <2>2, <1>2, <1>4 DEF ManagerTyped, Same, ActIs
  <2>4. ran'[c] + Credit(c)' <= sends' + 1
    BY <1>1, <2>2, <1>2, <1>4 DEF ChildInv, Credit, ManagerTyped, ActIs
  <2>5. ChildInv(c)'
    BY <1>1, <2>2, <2>4, <1>2, <1>4 DEF ChildInv, ClosesInOrder, Unavailable, ManagerTyped, ActIs
  <2>6. Undisturbed(c) /\ Final(c)
    BY <1>1, <2>2, <1>2, <1>4 DEF Undisturbed, Final, Unavailable, ChildInv, ClosesInOrder, ManagerTyped, ActIs
  <2>7. Steady(c, "none")
    BY <1>1, <2>2, <1>2, <1>4 DEF Steady, ActIs, Unavailable, ChildInv, ClosesInOrder
  <2>8. sends <= sends'
    BY <1>1, RanBound, <1>2, <1>4
  <2>9. PICK e \in Event : e = ChildEvent(c, "resumed") /\ e.c = c /\ e.kind = "resumed" /\ bus' = Append(bus, e)
    BY <1>1, RanBound, EventsTyped, <1>2, <1>4 DEF ChildEvent, RunEvent, Kinds, Emit, ChildInv
  <2>10. Told(e)'
    BY <1>1, <2>2, <2>9, <1>2, <1>4 DEF Told, ChildEvent, RunEvent, ChildInv, ClosesInOrder, ActIs, Unavailable
  <2>11. \A f \in Event : f.c = c /\ Told(f) => f.kind \notin {e.kind, "closed"}
    BY <1>1, <2>9, <1>2, <1>4 DEF Told, ChildInv, ClosesInOrder, Unavailable
  <2>12. Waited(bus, c)
    BY <2>7, WaitedBus
  <2> QED
    BY <2>3, <2>5, <2>6, <2>8, <2>9, <2>10, <2>11, <2>12, ChildEmits
<1> QED
  BY <1>3, <1>4 DEF SendHasAgent

LEMMA SuspendTellsOK ==
    ASSUME ManagerInv, gen \in Gens, NEW c \in Children, SuspendTells(c)
    PROVE  ManagerStep
<1>1. ManagerTyped /\ ChildInv(c)
  BY DEF ManagerInv
<1>2. act[c].suspend = "closing" /\ agent[c] = "none" /\ UNCHANGED <<agent, lease, active, ran, sends>>
  BY DEF SuspendTells
<1>3. ASSUME Unavailable(c),
          act' = At(c, "suspend", "off"),
          UNCHANGED <<rec, bus>>
     PROVE  ManagerStep
  <2>2. ActIs(c, act[c].spawn, act[c].send, "off", act[c].run, act[c].close)
    BY <1>1, <1>3, AtSuspend
  <2>3. ManagerTyped' /\ \A d \in Children \ {c} : Same(d)
    BY <1>1, <2>2, <1>2, <1>3 DEF ManagerTyped, Same, ActIs
  <2>4. ran'[c] + Credit(c)' <= sends' + 1
    BY <1>1, <2>2, <1>2, <1>3 DEF ChildInv, Credit, ManagerTyped, ActIs
  <2>5. ChildInv(c)'
    BY <1>1, <2>2, <2>4, <1>2, <1>3 DEF ChildInv, ClosesInOrder, Unavailable, ManagerTyped, ActIs
  <2>6. Undisturbed(c) /\ Final(c)
    BY <1>1, <2>2, <1>2, <1>3 DEF Undisturbed, Final, Unavailable, ChildInv, ClosesInOrder, ManagerTyped, ActIs
  <2>7. Steady(c, "none")
    BY <1>1, <2>2, <1>2, <1>3 DEF Steady, ActIs, Unavailable, ChildInv, ClosesInOrder
  <2>8. sends <= sends'
    BY <1>1, RanBound, <1>2, <1>3
  <2>9. bus' = bus
    BY <1>2, <1>3
  <2> QED
    BY <2>3, <2>5, <2>6, <2>7, <2>8, <2>9, WaitedBus, ChildStep
<1>4. ASSUME ~Unavailable(c),
          rec' = [rec EXCEPT ![c] = "suspended"],
          act' = At(c, "suspend", "telling"),
          Emit(ChildEvent(c, "suspended"))
     PROVE  ManagerStep
  <2>2. ActIs(c, act[c].spawn, act[c].send, "telling", act[c].run, act[c].close)
    BY <1>1, <1>4, AtSuspend
  <2>3. ManagerTyped' /\ \A d \in Children \ {c} : Same(d)
    BY <1>1, <2>2, <1>2, <1>4 DEF ManagerTyped, Same, ActIs
  <2>4. ran'[c] + Credit(c)' <= sends' + 1
    BY <1>1, <2>2, <1>2, <1>4 DEF ChildInv, Credit, ManagerTyped, ActIs
  <2>5. ChildInv(c)'
    BY <1>1, <2>2, <2>4, <1>2, <1>4 DEF ChildInv, ClosesInOrder, Unavailable, ManagerTyped, ActIs
  <2>6. Undisturbed(c) /\ Final(c)
    BY <1>1, <2>2, <1>2, <1>4 DEF Undisturbed, Final, Unavailable, ChildInv, ClosesInOrder, ManagerTyped, ActIs
  <2>7. Steady(c, "none")
    BY <1>1, <2>2, <1>2, <1>4 DEF Steady, ActIs, Unavailable, ChildInv, ClosesInOrder
  <2>8. sends <= sends'
    BY <1>1, RanBound, <1>2, <1>4
  <2>9. PICK e \in Event : e = ChildEvent(c, "suspended") /\ e.c = c /\ e.kind = "suspended" /\ bus' = Append(bus, e)
    BY <1>1, RanBound, EventsTyped, <1>2, <1>4 DEF ChildEvent, RunEvent, Kinds, Emit, ChildInv
  <2>10. Told(e)'
    BY <1>1, <2>2, <2>9, <1>2, <1>4 DEF Told, ChildEvent, RunEvent, ChildInv, ClosesInOrder, ActIs, Unavailable
  <2>11. \A f \in Event : f.c = c /\ Told(f) => f.kind \notin {e.kind, "closed"}
    BY <1>1, <2>9, <1>2, <1>4 DEF Told, ChildInv, ClosesInOrder, Unavailable
  <2>12. Waited(bus, c)
    BY <2>7, WaitedBus
  <2> QED
    BY <2>3, <2>5, <2>6, <2>8, <2>9, <2>10, <2>11, <2>12, ChildEmits
<1> QED
  BY <1>3, <1>4 DEF SuspendTells

LEMMA CloseInterruptedOK ==
    ASSUME ManagerInv, NEW c \in Children, CloseInterrupted(c)
    PROVE  ManagerStep
<1>1. ManagerTyped /\ ChildInv(c)
  BY DEF ManagerInv
<1>1a. RecClosed(c) /\ rec[c] = "closing" /\ rec'[c] = "closed"
  BY <1>1, CleanedRecIs DEF CloseInterrupted, RecClosed, ChildInv, ClosesInOrder
<1>2. ActIs(c, act[c].spawn, act[c].send, act[c].suspend, act[c].run, "cleaning")
  BY <1>1, CleanedIs DEF CloseInterrupted, ManagerTyped, ActIs
<1>3. ManagerTyped' /\ \A d \in Children \ {c} : Same(d)
  BY <1>1, <1>2, <1>1a DEF CloseInterrupted, ManagerTyped, Same, ActIs, RecClosed, RecTyped
<1>4. ran'[c] + Credit(c)' <= sends' + 1
  BY <1>1, <1>2, <1>1a DEF CloseInterrupted, ChildInv, Credit, ManagerTyped, ActIs, RecClosed, RecTyped
<1>5. ChildInv(c)'
  BY <1>1, <1>2, <1>4, <1>1a DEF CloseInterrupted, ChildInv, ClosesInOrder, Unavailable, ManagerTyped, ActIs, RecClosed, RecTyped
<1>6. Undisturbed(c) /\ Final(c)
  <2>1. act[c].run = "off" /\ ran' = ran /\ ran[c] \in Nat
    BY <1>1 DEF CloseInterrupted, ManagerTyped
  <2> QED
    BY <1>1a, <1>2, <2>1 DEF Undisturbed, Final, Unavailable, ActIs
<1>7. Steady(c, "none")
  BY <1>1, <1>2, <1>1a DEF CloseInterrupted, Steady, ActIs, Unavailable, ChildInv, ClosesInOrder, RecClosed, RecTyped
<1>8. sends <= sends'
  BY <1>1, RanBound, <1>1a DEF CloseInterrupted
<1>9. bus' = bus
  BY <1>1a DEF CloseInterrupted
<1> QED
  BY <1>3, <1>5, <1>6, <1>7, <1>8, <1>9, WaitedBus, ChildStep

LEMMA CleanReleaseOK ==
    ASSUME ManagerInv, gen \in Gens, NEW c \in Children, CleanRelease(c)
    PROVE  ManagerStep
<1>1. ManagerTyped /\ ChildInv(c)
  BY DEF ManagerInv
<1>2. act[c].suspend = "off" /\ agent[c] = "none" /\ UNCHANGED <<agent, sends>>
  BY DEF CleanRelease
<1>3. ASSUME act[c].close = "cleaning",
          lease' = [lease EXCEPT ![c] = IF @ = "held" THEN "released" ELSE @],
          act' = At(c, "close", "telling"),
          NEW failed \in BOOLEAN, Emit(ClosedEvent(c, failed)),
          UNCHANGED <<rec, ran, active>>
     PROVE  ManagerStep
  <2>2. ActIs(c, act[c].spawn, act[c].send, act[c].suspend, act[c].run, "telling")
    BY <1>1, <1>3, AtClose
  <2>3. ManagerTyped' /\ \A d \in Children \ {c} : Same(d)
    BY <1>1, <2>2, <1>2, <1>3 DEF ManagerTyped, Same, ActIs
  <2>4. ran'[c] + Credit(c)' <= sends' + 1
    BY <1>1, <2>2, <1>2, <1>3 DEF ChildInv, Credit, ManagerTyped, ActIs
  <2>5. ChildInv(c)'
    BY <1>1, <2>2, <2>4, <1>2, <1>3 DEF ChildInv, ClosesInOrder, Unavailable, ManagerTyped, ActIs
  <2>6. Undisturbed(c) /\ Final(c)
    BY <1>1, <2>2, <1>2, <1>3 DEF Undisturbed, Final, Unavailable, ChildInv, ClosesInOrder, ManagerTyped, ActIs
  <2>7. Steady(c, "none")
    BY <1>1, <2>2, <1>2, <1>3 DEF Steady, ActIs, Unavailable, ChildInv, ClosesInOrder
  <2>8. sends <= sends'
    BY <1>1, RanBound, <1>2, <1>3
  <2>9. PICK e \in Event : e.of = Root /\ e.c = c /\ e.kind = "closed" /\ bus' = Append(bus, e)
    BY <1>3, ClosedTyped DEF Emit
  <2>10. Told(e)'
    BY <1>1, <2>2, <2>9, <1>2, <1>3 DEF Told, ChildEvent, RunEvent, ChildInv, ClosesInOrder, ActIs, Unavailable
  <2>11. \A f \in Event : f.c = c /\ Told(f) => f.kind \notin {e.kind, "closed"}
    BY <1>1, <2>9, <1>2, <1>3 DEF Told, ChildInv, ClosesInOrder, Unavailable
  <2>12. Waited(bus, c)
    BY <2>7, WaitedBus
  <2> QED
    BY <2>3, <2>5, <2>6, <2>8, <2>9, <2>10, <2>11, <2>12, ChildEmits
<1>4. ASSUME act[c].close = "silent",
          lease' = [lease EXCEPT ![c] = "none"],
          Deleted(c),
          UNCHANGED bus
     PROVE  ManagerStep
  <2>1. Gone(c)
    BY <1>1, <1>4, DeletedIs
  <2>2. ActIs(c, IF act[c].spawn \in {"failing", "done"} THEN "off" ELSE act[c].spawn, act[c].send, act[c].suspend, act[c].run, "done")
    BY <2>1 DEF Gone
  <2>3. ManagerTyped' /\ \A d \in Children \ {c} : Same(d)
    BY <1>1, <2>2, <1>2, <1>4, <2>1 DEF ManagerTyped, Same, ActIs, Gone, RecTyped
  <2>4. ran'[c] + Credit(c)' <= sends' + 1
    BY <1>1, <2>2, <1>2, <1>4, <2>1 DEF ChildInv, Credit, ManagerTyped, ActIs, Gone, RecTyped
  <2>5. ChildInv(c)'
    BY <1>1, <2>2, <2>4, <1>2, <1>4, <2>1 DEF ChildInv, ClosesInOrder, Unavailable, ManagerTyped, ActIs, Gone, RecTyped
  <2>6. Undisturbed(c) /\ Final(c)
    BY <1>1, <2>2, <1>2, <1>4, <2>1 DEF Undisturbed, Final, Unavailable, ChildInv, ClosesInOrder, ManagerTyped, ActIs, Gone, RecTyped
  <2>7. Steady(c, "none")
    BY <1>1, <2>2, <1>2, <1>4, <2>1 DEF Steady, ActIs, Unavailable, ChildInv, ClosesInOrder, Gone, RecTyped
  <2>8. sends <= sends'
    BY <1>1, RanBound, <1>2, <1>4, <2>1
  <2>9. bus' = bus
    BY <1>2, <1>4, <2>1
  <2> QED
    BY <2>3, <2>5, <2>6, <2>7, <2>8, <2>9, WaitedBus, ChildStep
<1> QED
  BY <1>3, <1>4 DEF CleanRelease

LEMMA NotCreatedIs ==
    ASSUME ManagerTyped, NEW c \in Children, AgentNotCreated(c)
    PROVE  /\ act[c].spawn = "creating" =>
                /\ ActIs(c, IF act[c].close = "done" THEN "off" ELSE "failing",
                         IF act[c].send = "creating" THEN "off" ELSE act[c].send,
                         act[c].suspend, act[c].run,
                         IF act[c].close \in {"off", "interrupting"} THEN "cleaning"
                         ELSE act[c].close)
                /\ RecClosed(c)
           /\ act[c].spawn # "creating" =>
                /\ ActIs(c, act[c].spawn, IF act[c].send = "creating" THEN "off" ELSE act[c].send,
                         act[c].suspend, act[c].run, act[c].close)
                /\ rec' = rec
<1> DEFINE sent == IF act[c].send = "creating" THEN At(c, "send", "off") ELSE act
<1>1. /\ sent \in [Children -> ActRecords] /\ \A d \in Children \ {c} : sent[d] = act[d]
      /\ sent[c].spawn = act[c].spawn /\ sent[c].suspend = act[c].suspend
      /\ sent[c].run = act[c].run /\ sent[c].close = act[c].close
      /\ sent[c].send = IF act[c].send = "creating" THEN "off" ELSE act[c].send
  <2>1. act \in [Children -> ActRecords]
    BY DEF ManagerTyped
  <2> QED
    BY <2>1 DEF At, ActRecords
<1>2. act' = IF act[c].spawn = "creating"
             THEN Cleaned([sent EXCEPT ![c].spawn = "failing"], c, TRUE)
             ELSE sent
  BY DEF AgentNotCreated
<1>3. rec' = IF act[c].spawn = "creating" THEN CleanedRec(c) ELSE rec
  BY DEF AgentNotCreated
<1> HIDE DEF sent
<1>4. CASE act[c].spawn = "creating"
  <2> DEFINE f == [sent EXCEPT ![c].spawn = "failing"]
  <2>1. /\ f \in [Children -> ActRecords] /\ \A d \in Children \ {c} : f[d] = act[d]
        /\ f[c].spawn = "failing" /\ f[c].suspend = act[c].suspend
        /\ f[c].run = act[c].run /\ f[c].close = act[c].close
        /\ f[c].send = IF act[c].send = "creating" THEN "off" ELSE act[c].send
    BY <1>1 DEF ActRecords
  <2>2. act' = Cleaned(f, c, TRUE)
    BY <1>2, <1>4
  <2> HIDE DEF f
  <2>3. ActIs(c, IF f[c].spawn = "failing" /\ f[c].close = "done" THEN "off" ELSE f[c].spawn,
              f[c].send, f[c].suspend, f[c].run,
              IF f[c].close \in {"off", "interrupting"} THEN "cleaning" ELSE f[c].close)
    BY <2>1, <2>2, CleanedIs
  <2>4. RecClosed(c)
    BY <1>3, <1>4, CleanedRecIs
  <2> QED
    BY <1>4, <2>1, <2>3, <2>4
<1>5. CASE act[c].spawn # "creating"
  BY <1>1, <1>2, <1>3, <1>5 DEF ActIs
<1> QED
  BY <1>4, <1>5

LEMMA AgentNotCreatedOK ==
    ASSUME ManagerInv, NEW c \in Children, AgentNotCreated(c)
    PROVE  ManagerStep
<1>1. ManagerTyped /\ ChildInv(c)
  BY DEF ManagerInv
<1>2. agent[c] = "creating" /\ agent' = [agent EXCEPT ![c] = "none"] /\ UNCHANGED <<lease, active, ran, sends, bus>>
  BY DEF AgentNotCreated
<1>3. ASSUME act[c].spawn = "creating",
          act[c].close # "done",
          ActIs(c, "failing",
                IF act[c].send = "creating" THEN "off" ELSE act[c].send,
                act[c].suspend, act[c].run,
                IF act[c].close \in {"off", "interrupting"} THEN "cleaning" ELSE act[c].close),
          RecClosed(c)
     PROVE  ManagerStep
  <2>2. ActIs(c, "failing", IF act[c].send = "creating" THEN "off" ELSE act[c].send,
              act[c].suspend, act[c].run,
              IF act[c].close \in {"off", "interrupting"} THEN "cleaning" ELSE act[c].close)
    BY <1>3
  <2>3. ManagerTyped' /\ \A d \in Children \ {c} : Same(d)
    BY <1>1, <2>2, <1>2, <1>3 DEF ManagerTyped, Same, ActIs, RecClosed, RecTyped
  <2>4. ran'[c] + Credit(c)' <= sends' + 1
    BY <1>1, <2>2, <1>2, <1>3 DEF ChildInv, Credit, ManagerTyped, ActIs, RecClosed, RecTyped
  <2>5. ChildInv(c)'
    BY <1>1, <2>2, <2>4, <1>2, <1>3 DEF ChildInv, ClosesInOrder, Unavailable, ManagerTyped, ActIs, RecClosed, RecTyped
  <2>6. Undisturbed(c) /\ Final(c)
    BY <1>1, <2>2, <1>2, <1>3 DEF Undisturbed, Final, Unavailable, ChildInv, ClosesInOrder, ManagerTyped, ActIs, RecClosed, RecTyped
  <2>7. Steady(c, "none")
    BY <1>1, <2>2, <1>2, <1>3 DEF Steady, ActIs, Unavailable, ChildInv, ClosesInOrder, RecClosed, RecTyped
  <2>8. sends <= sends'
    BY <1>1, RanBound, <1>2, <1>3
  <2>9. bus' = bus
    BY <1>2, <1>3
  <2> QED
    BY <2>3, <2>5, <2>6, <2>7, <2>8, <2>9, WaitedBus, ChildStep
<1>4. ASSUME act[c].spawn # "creating",
          ActIs(c, act[c].spawn, IF act[c].send = "creating" THEN "off" ELSE act[c].send,
                act[c].suspend, act[c].run, act[c].close),
          rec' = rec
     PROVE  ManagerStep
  <2>2. ActIs(c, act[c].spawn, IF act[c].send = "creating" THEN "off" ELSE act[c].send,
              act[c].suspend, act[c].run, act[c].close)
    BY <1>4
  <2>3. ManagerTyped' /\ \A d \in Children \ {c} : Same(d)
    BY <1>1, <2>2, <1>2, <1>4 DEF ManagerTyped, Same, ActIs
  <2>4. ran'[c] + Credit(c)' <= sends' + 1
    BY <1>1, <2>2, <1>2, <1>4 DEF ChildInv, Credit, ManagerTyped, ActIs
  <2>5. ChildInv(c)'
    BY <1>1, <2>2, <2>4, <1>2, <1>4 DEF ChildInv, ClosesInOrder, Unavailable, ManagerTyped, ActIs
  <2>6. Undisturbed(c) /\ Final(c)
    BY <1>1, <2>2, <1>2, <1>4 DEF Undisturbed, Final, Unavailable, ChildInv, ClosesInOrder, ManagerTyped, ActIs
  <2>7. Steady(c, "none")
    BY <1>1, <2>2, <1>2, <1>4 DEF Steady, ActIs, Unavailable, ChildInv, ClosesInOrder
  <2>8. sends <= sends'
    BY <1>1, RanBound, <1>2, <1>4
  <2>9. bus' = bus
    BY <1>2, <1>4
  <2> QED
    BY <2>3, <2>5, <2>6, <2>7, <2>8, <2>9, WaitedBus, ChildStep
<1>5. act[c].close # "done"
  BY <1>1, <1>2 DEF ChildInv
<1> QED
  BY <1>1, <1>3, <1>4, <1>5, NotCreatedIs

\* Children that are closed from outside.
LEMMA ClosedByOK ==
    ASSUME ManagerInv, NEW S \in SUBSET {d \in Children : CanClose(d)}, ClosedBy(S),
           UNCHANGED <<agent, lease, active, ran, sends, bus>>
    PROVE  ManagerStep
<1>1. ManagerTyped /\ (\A d \in Children : ChildInv(d)) /\ QueueInv(bus)
  BY DEF ManagerInv
<1>2. /\ act' \in [Children -> ActRecords] /\ RecTyped
      /\ \A d \in Children \ S : act'[d] = act[d] /\ rec'[d] = rec[d]
      /\ \A d \in S : /\ act'[d].spawn = act[d].spawn /\ act'[d].send = act[d].send
                      /\ act'[d].suspend = act[d].suspend /\ act'[d].run = act[d].run
                      /\ act'[d].close = "interrupting" /\ rec'[d] = "closing"
  <2>1. act \in [Children -> ActRecords]
    BY <1>1 DEF ManagerTyped
  <2>2. \A d \in Children : [act[d] EXCEPT !.close = "interrupting"] \in ActRecords
    BY <2>1 DEF ActRecords
  <2>3. act' \in [Children -> ActRecords]
    BY <2>1, <2>2 DEF ClosedBy
  <2>4. /\ \A d \in Children \ S : act'[d] = act[d]
        /\ \A d \in S : act'[d] = [act[d] EXCEPT !.close = "interrupting"]
    BY DEF ClosedBy
  <2>5. /\ \A d \in Children \ S : rec'[d] = rec[d]
        /\ \A d \in S : rec'[d] = "closing"
    BY DEF ClosedBy
  <2>6. RecTyped
    BY <1>1 DEF ClosedBy, RecTyped, ManagerTyped
  <2>7. \A d \in S : act[d] \in ActRecords
    BY <2>1
  <2>8. ASSUME NEW d \in S
        PROVE  /\ act'[d].spawn = act[d].spawn /\ act'[d].send = act[d].send
               /\ act'[d].suspend = act[d].suspend /\ act'[d].run = act[d].run
               /\ act'[d].close = "interrupting"
    <3>1. PICK r \in ActRecords : r = act[d]
      BY <2>7
    <3>2. act'[d] = [r EXCEPT !.close = "interrupting"]
      BY <2>4, <3>1
    <3> QED
      BY <3>1, <3>2 DEF ActRecords
  <2> QED
    BY <2>3, <2>4, <2>5, <2>6, <2>8
<1>3. ManagerTyped'
  BY <1>1, <1>2 DEF ManagerTyped, RecTyped
<1>4. ASSUME NEW d \in S
      PROVE  /\ ChildInv(d)' /\ Undisturbed(d) /\ Final(d)
             /\ \A e \in Event : e.c = d /\ Told(e) => Told(e)'
  <2>1. rec[d] \notin {"none", "closing", "closed", "gone"} /\ ChildInv(d) /\ d \in Children
    BY <1>1 DEF CanClose, Unavailable
  <2>2. /\ act'[d].spawn = act[d].spawn /\ act'[d].send = act[d].send
        /\ act'[d].suspend = act[d].suspend /\ act'[d].run = act[d].run
        /\ act'[d].close = "interrupting" /\ rec'[d] = "closing"
    BY <1>2
  <2>3. act[d].close = "off"
    BY <1>1, <2>1 DEF ChildInv, ClosesInOrder, ManagerTyped
  <2>4. ran'[d] + Credit(d)' <= sends' + 1
    BY <2>1, <2>2 DEF ChildInv, Credit
  <2>5. ChildInv(d)'
    BY <2>1, <2>2, <2>3, <2>4 DEF ChildInv, ClosesInOrder, Unavailable
  <2>6. Undisturbed(d) /\ Final(d)
    BY <2>1, <2>2, <2>3 DEF Undisturbed, Final, Unavailable
  <2>7. \A e \in Event : e.c = d /\ Told(e) => Told(e)'
    <3>1. SUFFICES ASSUME NEW e \in Event, e.c = d, Told(e) PROVE Told(e)'
      OBVIOUS
    <3> QED
      BY <2>2, <2>3, <3>1 DEF Told
  <2> QED
    BY <2>5, <2>6, <2>7
<1>5. \A d \in Children \ S : Same(d)
  BY <1>2 DEF Same
<1>6. \A d \in Children : ChildInv(d)' /\ Undisturbed(d) /\ Final(d)
  <2>1. \A d \in Children \ S : ChildInv(d)' /\ Undisturbed(d) /\ Final(d)
    <3>1. sends <= sends'
      BY <1>1 DEF ManagerTyped
    <3> QED
      BY <1>1, <1>3, <1>5, <3>1, OtherChild, OthersUndisturbed
  <2> QED
    BY <1>4, <2>1
<1>7. QueueInv(bus)'
  <2>1. ASSUME NEW i \in 1 .. Len(bus), bus[i].c # Root PROVE Told(bus[i])'
    <3>1. PICK e \in Event : e = bus[i]
      BY <1>1, QueueMember DEF QueueInv
    <3>2. Told(e) /\ e.c \in Children
      BY <1>1, <2>1, <3>1 DEF QueueInv, Event
    <3>3. Told(e)'
      BY <1>4, <1>5, <3>2, OthersTold
    <3> QED
      BY <3>1, <3>3 DEF Told
  <2> QED
    BY <1>1, <2>1 DEF QueueInv
<1> QED
  BY <1>3, <1>6, <1>7 DEF ManagerStep, ManagerInv

LEMMA CloseOK ==
    ASSUME ManagerInv, NEW c \in Children, Close(c)
    PROVE  ManagerStep
  BY ClosedByOK DEF Close

LEMMA RootAbortsOK ==
    ASSUME ManagerInv, RootAborts
    PROVE  ManagerStep
<1> DEFINE S == {c \in Children : CanClose(c) /\ act[c].spawn \in {"starting", "done"}}
<1>1. S \in SUBSET {d \in Children : CanClose(d)} /\ ClosedBy(S)
  BY DEF RootAborts
<1>2. UNCHANGED <<agent, lease, active, ran, sends, bus>>
  BY DEF RootAborts
<1> HIDE DEF S
<1> QED
  BY <1>1, <1>2, ClosedByOK

\* The children do not move; q is what the bus holds.
LEMMA QuietManager ==
    ASSUME ManagerInv, UNCHANGED manager, NEW q, QueueInv(q), bus' = q
    PROVE  ManagerStep
<1>1. ManagerTyped /\ (\A d \in Children : ChildInv(d))
  BY DEF ManagerInv
<1>2. (\A d \in Children : Same(d)) /\ sends <= sends'
  BY <1>1 DEF manager, Same, ManagerTyped
<1>3. ManagerTyped'
  BY <1>1 DEF manager, ManagerTyped
<1>4. \A d \in Children : ChildInv(d)' /\ Undisturbed(d) /\ Final(d)
  BY <1>1, <1>2, <1>3, OtherChild, OthersUndisturbed
<1>5. ASSUME NEW i \in 1 .. Len(q), q[i].c # Root PROVE Told(q[i])'
  <2>1. PICK e \in Event : e = q[i]
    BY QueueMember DEF QueueInv
  <2>2. Told(e) /\ e.c \in Children
    BY <1>5, <2>1 DEF QueueInv, Event
  <2>3. Told(e)'
    BY <1>2, <2>2, OthersTold
  <2> QED
    BY <2>1, <2>3
<1>6. QueueInv(bus)'
  BY <1>5 DEF QueueInv
<1> QED
  BY <1>3, <1>4, <1>6 DEF ManagerStep, ManagerInv

LEMMA RootQueue ==
    ASSUME NEW q, QueueInv(q), NEW e \in Event, e.c = Root, e.of = Root, e.kind = "ended"
    PROVE  QueueInv(Append(q, e))
<1> DEFINE r == Append(q, e)
<1>1. /\ r \in Seq(Event) /\ Len(r) = Len(q) + 1 /\ Len(q) \in Nat
      /\ \A i \in 1 .. Len(q) : r[i] = q[i]
      /\ r[Len(q) + 1] = e
  BY DEF QueueInv
<1> HIDE DEF r
<1>2. \A i \in 1 .. Len(r) : r[i].c # Root => i \in 1 .. Len(q)
  BY <1>1
<1>3. \A i \in 1 .. Len(r) : r[i].c # Root => Told(r[i])
  BY <1>1, <1>2 DEF QueueInv
<1>4. \A i, j \in 1 .. Len(r) : i < j /\ r[i].c = r[j].c /\ r[i].c # Root =>
          r[i].kind # r[j].kind /\ r[i].kind # "closed"
  BY <1>1, <1>2 DEF QueueInv
<1>5. \A i \in 1 .. Len(r) : r[i].c = Root => r[i].of = Root /\ r[i].kind = "ended"
  BY <1>1 DEF QueueInv
<1>6. QueueInv(r)
  BY <1>1, <1>3, <1>4, <1>5 DEF QueueInv
<1> QED
  BY <1>6 DEF r

LEMMA RootRunEndsOK ==
    ASSUME ManagerInv, gen \in Gens, RootRunEnds
    PROVE  ManagerStep
<1>1. PICK e \in Event : e = RunEvent(Root, "ended", gen)
  BY DEF RunEvent, Event, Kinds
<1>2. e.c = Root /\ e.of = Root /\ e.kind = "ended"
  BY <1>1 DEF RunEvent
<1>3. QueueInv(Append(bus, e))
  BY <1>2, RootQueue DEF ManagerInv
<1>4. UNCHANGED manager /\ bus' = Append(bus, e)
  BY <1>1 DEF RootRunEnds, Emit
<1> QED
  BY <1>3, <1>4, QuietManager

-----------------------------------------------------------------------------
(* Answers.                                                                *)

LEMMA TailOf ==
    ASSUME NEW q, QueueInv(q), q # << >>
    PROVE  /\ Head(q) \in Event /\ (Head(q).c # Root => Told(Head(q)))
           /\ (Head(q).c = Root => Head(q).of = Root /\ Head(q).kind = "ended")
           /\ QueueInv(Tail(q))
           /\ \A i \in 1 .. Len(Tail(q)) : Tail(q)[i].c = Head(q).c /\ Head(q).c # Root =>
                 Tail(q)[i].kind # Head(q).kind /\ Head(q).kind # "closed"
<1>1. /\ q \in Seq(Event) /\ Len(q) \in Nat /\ Len(q) > 0
      /\ Head(q) = q[1] /\ Head(q) \in Event
      /\ Tail(q) \in Seq(Event) /\ Len(Tail(q)) = Len(q) - 1
      /\ \A i \in 1 .. Len(Tail(q)) : Tail(q)[i] = q[i + 1]
  BY DEF QueueInv
<1>2. (Head(q).c # Root => Told(Head(q))) /\ (Head(q).c = Root => Head(q).of = Root /\ Head(q).kind = "ended")
  BY <1>1 DEF QueueInv
<1> DEFINE t == Tail(q)
<1>3. /\ t \in Seq(Event)
      /\ \A i \in 1 .. Len(t) : t[i] = q[i + 1] /\ i + 1 \in 1 .. Len(q)
  BY <1>1
<1> HIDE DEF t
<1>4. \A i \in 1 .. Len(t) : t[i].c # Root => Told(t[i])
  BY <1>3 DEF QueueInv
<1>5. \A i, j \in 1 .. Len(t) : i < j /\ t[i].c = t[j].c /\ t[i].c # Root =>
          t[i].kind # t[j].kind /\ t[i].kind # "closed"
  <2> SUFFICES ASSUME NEW i \in 1 .. Len(t), NEW j \in 1 .. Len(t), i < j,
                      t[i].c = t[j].c, t[i].c # Root
               PROVE  t[i].kind # t[j].kind /\ t[i].kind # "closed"
    OBVIOUS
  <2>1. i + 1 \in 1 .. Len(q) /\ j + 1 \in 1 .. Len(q) /\ i + 1 < j + 1
    BY <1>3
  <2> QED
    BY <1>3, <2>1 DEF QueueInv
<1>6. QueueInv(t)
  <2>1. \A i \in 1 .. Len(t) : t[i].c = Root => t[i].of = Root /\ t[i].kind = "ended"
    BY <1>3 DEF QueueInv
  <2> QED
    BY <1>3, <1>4, <1>5, <2>1 DEF QueueInv
<1>7. \A i \in 1 .. Len(t) : t[i].c = Head(q).c /\ Head(q).c # Root =>
          t[i].kind # Head(q).kind /\ Head(q).kind # "closed"
  <2> SUFFICES ASSUME NEW i \in 1 .. Len(t), t[i].c = Head(q).c, Head(q).c # Root
               PROVE  t[i].kind # Head(q).kind /\ Head(q).kind # "closed"
    OBVIOUS
  <2>1. 1 \in 1 .. Len(q) /\ i + 1 \in 1 .. Len(q) /\ 1 < i + 1 /\ t[i] = q[i + 1]
    BY <1>1, <1>3
  <2> QED
    BY <1>1, <2>1 DEF QueueInv
<1> QED
  BY <1>1, <1>2, <1>6, <1>7 DEF t

\* What the answer to an event of that kind does to its child c.
Answered(c, kind, ok) ==
    /\ act[c].run \in {"live", "ending"} /\ kind # "ended" =>
          act'[c].run \in {"live", "ending"} /\ ran'[c] = ran[c]
    /\ kind = "started" /\ ok => act'[c].run = "live" /\ ran'[c] = ran[c]
    /\ kind # "closed" /\ (kind = "created" => ok) =>
          rec'[c] \notin {"none", "gone"} /\ act'[c].close # "silent"

AnswerStep(c, kind, ok) ==
    /\ ManagerInv'
    /\ \A d \in Children : Final(d)
    /\ \A d \in Children \ {c} : Undisturbed(d)
    /\ Answered(c, kind, ok)

LEMMA AnswerKept ==
    ASSUME ManagerInv, bus # << >>, NEW c \in Children, ManagerTyped',
           \A d \in Children \ {c} : Same(d), sends <= sends', ChildInv(c)', Final(c),
           NEW kind, NEW ok, Answered(c, kind, ok), Waited(Tail(bus), c), bus' = Tail(bus)
    PROVE  AnswerStep(c, kind, ok)
<1>1. QueueInv(Tail(bus)) /\ ManagerTyped
  BY TailOf DEF ManagerInv
<1>2. ManagerInv'
  BY <1>1, KeptManager
<1> QED
  BY <1>1, <1>2, OthersUndisturbed DEF AnswerStep

\* The event that is answered, and those of its child behind it.
LEMMA HeadTold ==
    ASSUME ManagerInv, bus # << >>, NEW c \in Children, Head(bus).c = c
    PROVE  /\ ManagerTyped /\ ChildInv(c) /\ Told(Head(bus)) /\ Head(bus) \in Event
           /\ \A kind : Steady(c, kind) /\ kind = Head(bus).kind => Waited(Tail(bus), c)
           /\ (\A f \in Event : f.c = c /\ Told(f) => f.kind = Head(bus).kind)
                 => Waited(Tail(bus), c)
           /\ Head(bus).kind = "closed" => Waited(Tail(bus), c)
<1>1. ManagerTyped /\ ChildInv(c) /\ QueueInv(bus) /\ c # Root
  BY ChildrenAssumption DEF ManagerInv
<1>2. /\ Head(bus) \in Event /\ Told(Head(bus))
      /\ \A i \in 1 .. Len(Tail(bus)) : Tail(bus)[i].c = c =>
            Tail(bus)[i].kind # Head(bus).kind /\ Head(bus).kind # "closed"
  BY <1>1, TailOf
<1>3. ASSUME NEW kind, Steady(c, kind), kind = Head(bus).kind
      PROVE  Waited(Tail(bus), c)
  BY <1>2, <1>3, WaitedWhenSteady
<1>4. ASSUME \A f \in Event : f.c = c /\ Told(f) => f.kind = Head(bus).kind
      PROVE  Waited(Tail(bus), c)
  BY <1>2, <1>4 DEF Waited
<1>5. ASSUME Head(bus).kind = "closed"
      PROVE  Waited(Tail(bus), c)
  BY <1>2, <1>5 DEF Waited
<1> QED
  BY <1>1, <1>2, <1>3, <1>4, <1>5

LEMMA SpawnAnnouncedOK ==
    ASSUME ManagerInv, bus # << >>, NEW c \in Children, Head(bus).c = c, NEW ok \in BOOLEAN,
           Head(bus).kind = "created", SpawnAnnounced(c, ok)
    PROVE  AnswerStep(c, "created", ok)
<1>1. ManagerTyped /\ ChildInv(c) /\ Told(Head(bus))
  BY HeadTold
<1>2. act[c].spawn = "telling" /\ act[c].close \notin {"silent", "done"}
  BY <1>1 DEF Told
<1>3. ASSUME ok,
          ~Unavailable(c),
          act' = At(c, "spawn", "creating"),
          agent' = [agent EXCEPT ![c] = IF @ = "none" THEN "creating" ELSE @],
          rec' = rec,
          bus' = Tail(bus),
          UNCHANGED <<lease, active, ran, sends>>
     PROVE  AnswerStep(c, "created", ok)
  <2>2. ActIs(c, "creating", act[c].send, act[c].suspend, act[c].run, act[c].close)
    BY <1>1, <1>3, AtSpawn
  <2>3. ManagerTyped' /\ \A d \in Children \ {c} : Same(d)
    BY <1>1, <2>2, <1>2, <1>3 DEF ManagerTyped, Same, ActIs
  <2>4. ran'[c] + Credit(c)' <= sends' + 1
    BY <1>1, <2>2, <1>2, <1>3 DEF ChildInv, Credit, ManagerTyped, ActIs
  <2>5. ChildInv(c)'
    BY <1>1, <2>2, <2>4, <1>2, <1>3 DEF ChildInv, ClosesInOrder, Unavailable, ManagerTyped, ActIs
  <2>6. Final(c) /\ Answered(c, "created", ok)
    BY <1>1, <2>2, <1>2, <1>3 DEF Answered, Final, Unavailable, ChildInv, ClosesInOrder, ManagerTyped, ActIs
  <2>7. Waited(Tail(bus), c)
    <3>1. Steady(c, "created")
      BY <1>1, <2>2, <1>2, <1>3 DEF Steady, ActIs, Unavailable, ChildInv, ClosesInOrder
    <3> QED
      BY <3>1, HeadTold
  <2>8. sends <= sends' /\ bus' = Tail(bus)
    BY <1>1, RanBound, <1>2, <1>3
  <2> QED
    BY <2>3, <2>5, <2>6, <2>7, <2>8, AnswerKept
<1>4. ASSUME SpawnFails(c, ok),
          agent' = agent,
          bus' = Tail(bus),
          UNCHANGED <<lease, active, ran, sends>>
     PROVE  AnswerStep(c, "created", ok)
  <2>1. RecClosed(c)
    BY <1>1, <1>4, CleanedRecIs DEF SpawnFails
  <2>2. ActIs(c, "failing", act[c].send, act[c].suspend, act[c].run,
              IF act[c].close \in {"off", "interrupting"}
              THEN IF ok THEN "cleaning" ELSE "silent"
              ELSE act[c].close)
    BY <1>1, <1>2, <1>4, SpawnFailsIs
  <2>3. ManagerTyped' /\ \A d \in Children \ {c} : Same(d)
    BY <1>1, <2>2, <1>2, <1>4, <2>1 DEF ManagerTyped, Same, ActIs, RecClosed, RecTyped
  <2>4. ran'[c] + Credit(c)' <= sends' + 1
    BY <1>1, <2>2, <1>2, <1>4, <2>1 DEF ChildInv, Credit, ManagerTyped, ActIs, RecClosed, RecTyped
  <2>5. ChildInv(c)'
    BY <1>1, <2>2, <2>4, <1>2, <1>4, <2>1 DEF ChildInv, ClosesInOrder, Unavailable, ManagerTyped, ActIs, RecClosed, RecTyped
  <2>6. Final(c) /\ Answered(c, "created", ok)
    BY <1>1, <2>2, <1>2, <1>4, <2>1 DEF Answered, Final, Unavailable, ChildInv, ClosesInOrder, ManagerTyped, ActIs, RecClosed, RecTyped
  <2>7. Waited(Tail(bus), c)
    <3>1. CASE act[c].close \in {"off", "interrupting"}
      <4>1. \A f \in Event : f.c = c /\ Told(f) => f.kind = "created"
        BY <1>1, <1>2, <3>1 DEF Told, ChildInv, Event, Kinds
      <4> QED
        BY <4>1, HeadTold
    <3>2. CASE act[c].close \notin {"off", "interrupting"}
      <4>1. Steady(c, "created")
        BY <1>1, <1>2, <1>4, <2>2, <3>2 DEF Steady, ActIs
      <4> QED
        BY <4>1, HeadTold
    <3> QED
      BY <3>1, <3>2
  <2>8. sends <= sends' /\ bus' = Tail(bus)
    BY <1>1, RanBound, <1>2, <1>4, <2>1
  <2> QED
    BY <2>3, <2>5, <2>6, <2>7, <2>8, AnswerKept
<1> QED
  BY <1>3, <1>4 DEF SpawnAnnounced

LEMMA SuspendedOK ==
    ASSUME ManagerInv, bus # << >>, NEW c \in Children, Head(bus).c = c, NEW ok \in BOOLEAN,
           Head(bus).kind = "suspended", Suspended(c, ok)
    PROVE  AnswerStep(c, "suspended", ok)
<1>1. ManagerTyped /\ ChildInv(c) /\ Told(Head(bus))
  BY HeadTold
<1>2. act[c].suspend = "telling" /\ act[c].close \notin {"silent", "done"}
  BY <1>1 DEF Told
<1>3. ASSUME ok \/ Unavailable(c),
          act' = At(c, "suspend", "off"),
          rec' = rec,
          bus' = Tail(bus),
          UNCHANGED <<agent, lease, active, ran, sends>>
     PROVE  AnswerStep(c, "suspended", ok)
  <2>2. ActIs(c, act[c].spawn, act[c].send, "off", act[c].run, act[c].close)
    BY <1>1, <1>3, AtSuspend
  <2>3. ManagerTyped' /\ \A d \in Children \ {c} : Same(d)
    BY <1>1, <2>2, <1>2, <1>3 DEF ManagerTyped, Same, ActIs
  <2>4. ran'[c] + Credit(c)' <= sends' + 1
    BY <1>1, <2>2, <1>2, <1>3 DEF ChildInv, Credit, ManagerTyped, ActIs
  <2>5. ChildInv(c)'
    BY <1>1, <2>2, <2>4, <1>2, <1>3 DEF ChildInv, ClosesInOrder, Unavailable, ManagerTyped, ActIs
  <2>6. Final(c) /\ Answered(c, "suspended", ok)
    BY <1>1, <2>2, <1>2, <1>3 DEF Answered, Final, Unavailable, ChildInv, ClosesInOrder, ManagerTyped, ActIs
  <2>7. Waited(Tail(bus), c)
    <3>1. Steady(c, "suspended")
      BY <1>1, <2>2, <1>2, <1>3 DEF Steady, ActIs, Unavailable, ChildInv, ClosesInOrder
    <3> QED
      BY <3>1, HeadTold
  <2>8. sends <= sends' /\ bus' = Tail(bus)
    BY <1>1, RanBound, <1>2, <1>3
  <2> QED
    BY <2>3, <2>5, <2>6, <2>7, <2>8, AnswerKept
<1>4. ASSUME ~Unavailable(c),
          ActIs(c, act[c].spawn, "off", "off", act[c].run, "cleaning"),
          RecClosed(c),
          bus' = Tail(bus),
          UNCHANGED <<agent, lease, active, ran, sends>>
     PROVE  AnswerStep(c, "suspended", ok)
  <2>2. ActIs(c, act[c].spawn, "off", "off", act[c].run, "cleaning")
    BY <1>4
  <2>3. ManagerTyped' /\ \A d \in Children \ {c} : Same(d)
    BY <1>1, <2>2, <1>2, <1>4 DEF ManagerTyped, Same, ActIs, RecClosed, RecTyped
  <2>4. ran'[c] + Credit(c)' <= sends' + 1
    BY <1>1, <2>2, <1>2, <1>4 DEF ChildInv, Credit, ManagerTyped, ActIs, RecClosed, RecTyped
  <2>5. ChildInv(c)'
    BY <1>1, <2>2, <2>4, <1>2, <1>4 DEF ChildInv, ClosesInOrder, Unavailable, ManagerTyped, ActIs, RecClosed, RecTyped
  <2>6. Final(c) /\ Answered(c, "suspended", ok)
    BY <1>1, <2>2, <1>2, <1>4 DEF Answered, Final, Unavailable, ChildInv, ClosesInOrder, ManagerTyped, ActIs, RecClosed, RecTyped
  <2>7. Waited(Tail(bus), c)
    <3>1. Steady(c, "suspended")
      BY <1>1, <2>2, <1>2, <1>4 DEF Steady, ActIs, Unavailable, ChildInv, ClosesInOrder, RecClosed, RecTyped
    <3> QED
      BY <3>1, HeadTold
  <2>8. sends <= sends' /\ bus' = Tail(bus)
    BY <1>1, RanBound, <1>2, <1>4
  <2> QED
    BY <2>3, <2>5, <2>6, <2>7, <2>8, AnswerKept
<1>5. ASSUME ~(ok \/ Unavailable(c))
      PROVE  ActIs(c, act[c].spawn, "off", "off", act[c].run, "cleaning") /\ RecClosed(c)
  <2> DEFINE h == [act EXCEPT ![c].suspend = "off"]
             f == [h EXCEPT ![c].send = "off"]
  <2>1. act' = Cleaned(f, c, TRUE) /\ rec' = CleanedRec(c)
    BY <1>5 DEF Suspended
  <2>2. act \in [Children -> ActRecords] /\ act[c].close = "off"
    BY <1>1, <1>5 DEF ManagerTyped, ChildInv, ClosesInOrder, Unavailable
  <2>3. /\ f \in [Children -> ActRecords] /\ \A d \in Children \ {c} : f[d] = act[d]
        /\ f[c].spawn = act[c].spawn /\ f[c].suspend = "off" /\ f[c].send = "off"
        /\ f[c].run = act[c].run /\ f[c].close = act[c].close
    <3>1. /\ h \in [Children -> ActRecords] /\ \A d \in Children \ {c} : h[d] = act[d]
          /\ h[c].spawn = act[c].spawn /\ h[c].suspend = "off" /\ h[c].send = act[c].send
          /\ h[c].run = act[c].run /\ h[c].close = act[c].close
      BY <2>2 DEF ActRecords
    <3> HIDE DEF h
    <3> QED
      BY <3>1 DEF ActRecords
  <2> HIDE DEF f
  <2>4. ActIs(c, IF f[c].spawn = "failing" /\ f[c].close = "done" THEN "off" ELSE f[c].spawn,
              f[c].send, f[c].suspend, f[c].run,
              IF f[c].close \in {"off", "interrupting"} THEN "cleaning" ELSE f[c].close)
    BY <2>1, <2>3, CleanedIs
  <2>5. RecClosed(c)
    BY <1>1, <2>1, CleanedRecIs
  <2> QED
    BY <2>2, <2>3, <2>4, <2>5
<1> QED
  BY <1>3, <1>4, <1>5 DEF Suspended

LEMMA CloseToldOK ==
    ASSUME ManagerInv, bus # << >>, NEW c \in Children, Head(bus).c = c, NEW ok \in BOOLEAN,
           Head(bus).kind = "closed", CloseTold(c)
    PROVE  AnswerStep(c, "closed", ok)
<1>1. ManagerTyped /\ ChildInv(c) /\ Told(Head(bus))
  BY HeadTold
<1>2. act[c].close = "telling" /\ act[c].close \notin {"silent", "done"}
  BY <1>1 DEF Told
<1>3. Gone(c)
  BY <1>1, DeletedIs DEF CloseTold
<1>4. ActIs(c, IF act[c].spawn \in {"failing", "done"} THEN "off" ELSE act[c].spawn, act[c].send, act[c].suspend, act[c].run, "done")
  BY <1>3 DEF Gone
<1>5. ManagerTyped' /\ \A d \in Children \ {c} : Same(d)
  BY <1>1, <1>4, <1>2, <1>3 DEF CloseTold, ManagerTyped, Same, ActIs, Gone, RecTyped
<1>6. ran'[c] + Credit(c)' <= sends' + 1
  BY <1>1, <1>4, <1>2, <1>3 DEF CloseTold, ChildInv, Credit, ManagerTyped, ActIs, Gone, RecTyped
<1>7. ChildInv(c)'
  BY <1>1, <1>4, <1>6, <1>2, <1>3 DEF CloseTold, ChildInv, ClosesInOrder, Unavailable, ManagerTyped, ActIs, Gone, RecTyped
<1>8. Final(c) /\ Answered(c, "closed", ok)
  BY <1>1, <1>4, <1>2, <1>3 DEF CloseTold, Answered, Final, Unavailable, ChildInv, ClosesInOrder, ManagerTyped, ActIs, Gone, RecTyped
<1>9. Waited(Tail(bus), c)
  BY HeadTold
<1>10. sends <= sends' /\ bus' = Tail(bus)
  BY <1>1, RanBound, <1>2, <1>3 DEF CloseTold
<1> QED
  BY <1>5, <1>7, <1>8, <1>9, <1>10, AnswerKept

\* The record of a child whose run is over.
RecSettled(c) ==
    /\ RecTyped
    /\ \A d \in Children \ {c} : rec'[d] = rec[d]
    /\ Unavailable(c) => rec'[c] = rec[c]
    /\ ~Unavailable(c) => rec'[c] = "idle"

LEMMA RunSettledOK ==
    ASSUME ManagerInv, bus # << >>, NEW c \in Children, Head(bus).c = c, NEW ok \in BOOLEAN,
           Head(bus).kind = "ended", RunSettled(c)
    PROVE  AnswerStep(c, "ended", ok)
<1>1. ManagerTyped /\ ChildInv(c) /\ Told(Head(bus))
  BY HeadTold
<1>2. act[c].run = "ending" /\ act[c].close \notin {"silent", "done"}
  BY <1>1 DEF Told
<1>3. RecSettled(c)
  BY <1>1 DEF RunSettled, AfterRun, RecSettled, RecTyped, ManagerTyped
<1>4. ActIs(c, act[c].spawn, act[c].send, act[c].suspend, "off", act[c].close)
  BY <1>1, AtRun DEF RunSettled
<1>5. ManagerTyped' /\ \A d \in Children \ {c} : Same(d)
  BY <1>1, <1>4, <1>2, <1>3 DEF RunSettled, ManagerTyped, Same, ActIs, RecSettled, RecTyped
<1>6. ran'[c] + Credit(c)' <= sends' + 1
  BY <1>1, <1>4, <1>2, <1>3 DEF RunSettled, ChildInv, Credit, ManagerTyped, ActIs, RecSettled, RecTyped
<1>7. ChildInv(c)'
  BY <1>1, <1>4, <1>6, <1>2, <1>3 DEF RunSettled, ChildInv, ClosesInOrder, Unavailable, ManagerTyped, ActIs, RecSettled, RecTyped
<1>8. Final(c) /\ Answered(c, "ended", ok)
  BY <1>1, <1>4, <1>2, <1>3 DEF RunSettled, Answered, Final, Unavailable, ChildInv, ClosesInOrder, ManagerTyped, ActIs, RecSettled, RecTyped
<1>9. Waited(Tail(bus), c)
  <2>1. Steady(c, "ended")
    BY <1>1, <1>4, <1>2, <1>3 DEF RunSettled, Steady, ActIs, Unavailable, ChildInv, ClosesInOrder, RecSettled, RecTyped
  <2> QED
    BY <2>1, HeadTold
<1>10. sends <= sends' /\ bus' = Tail(bus)
  BY <1>1, RanBound, <1>2, <1>3 DEF RunSettled
<1> QED
  BY <1>5, <1>7, <1>8, <1>9, <1>10, AnswerKept

LEMMA BegunBehind ==
    ASSUME ManagerInv, NEW c \in Children, bus # << >>, Head(bus).c = c,
           Head(bus).kind = "resumed", SendResumed(c, TRUE), ~Unavailable(c), act[c].run = "off"
    PROVE  AnswerStep(c, "resumed", TRUE)
<1>1. ManagerTyped /\ ChildInv(c) /\ Told(Head(bus)) /\ QueueInv(Tail(bus))
  BY HeadTold, TailOf DEF ManagerInv
<1>2. act[c].send = "telling" /\ act[c].close \notin {"silent", "done"}
  BY <1>1 DEF Told
<1>3. BeginRun(c, "send", Tail(bus)) /\ UNCHANGED <<agent, lease, active, sends>>
  BY DEF SendResumed
<1>4. Begun(c, Tail(bus))
  BY <1>1, <1>3, BegunIs
<1>5. ActIs(c, act[c].spawn, "starting", act[c].suspend, "starting", act[c].close)
  BY <1>1, <1>3, BeginSendIs
<1>6. ran[c] + 1 \in Runs
  BY <1>1, <1>2, RanBound DEF Credit
<1>7. ManagerTyped' /\ \A d \in Children \ {c} : Same(d)
  BY <1>1, <1>3, <1>4, <1>5 DEF ManagerTyped, Same, ActIs, Begun, RecTyped
<1>8. ran'[c] + Credit(c)' <= sends' + 1
  BY <1>1, <1>2, <1>3, <1>4, <1>5 DEF ChildInv, Credit, ManagerTyped, ActIs, Begun
<1>9. ChildInv(c)'
  BY <1>1, <1>2, <1>3, <1>4, <1>5, <1>8 DEF ChildInv, ClosesInOrder, Unavailable, ManagerTyped,
     ActIs, Begun
<1>10. Final(c) /\ Answered(c, "resumed", TRUE)
  BY <1>1, <1>2, <1>4, <1>5 DEF Answered, Final, ActIs, Begun, Unavailable, ChildInv, ClosesInOrder
<1>11. Waited(Tail(bus), c)
  <2>1. Steady(c, "resumed")
    BY <1>1, <1>2, <1>5 DEF Steady, ActIs
  <2> QED
    BY <2>1, HeadTold
<1>12. sends <= sends'
  BY <1>1, <1>3, RanBound
<1>13. PICK e \in Event : e = RunEvent(c, "started", ran[c] + 1)
  BY <1>6 DEF RunEvent, Event, Kinds
<1>14. e.c = c /\ e.kind = "started" /\ e.of = c /\ e.run = ran[c] + 1 /\ bus' = Append(Tail(bus), e)
  BY <1>4, <1>13 DEF RunEvent, Begun
<1>15. Told(e)'
  BY <1>2, <1>4, <1>5, <1>14 DEF Told, ActIs, Begun
<1>16. \A i \in 1 .. Len(Tail(bus)) : Tail(bus)[i].c = c => Tail(bus)[i].kind \notin {e.kind, "closed"}
  <2> SUFFICES ASSUME NEW i \in 1 .. Len(Tail(bus)), Tail(bus)[i].c = c
               PROVE  Tail(bus)[i].kind \notin {"started", "closed"}
    BY <1>14
  <2>1. PICK f \in Event : f = Tail(bus)[i]
    BY <1>1, QueueMember DEF QueueInv
  <2>2. Told(f) /\ f.c = c
    BY <1>1, <2>1, ChildrenAssumption DEF QueueInv
  <2>3. f.kind \notin {"started", "closed"}
    BY <1>1, <2>2 DEF Told, Unavailable, ChildInv, ClosesInOrder
  <2> QED
    BY <2>1, <2>3
<1>17. ManagerInv'
  BY <1>1, <1>7, <1>9, <1>11, <1>12, <1>14, <1>15, <1>16, AppendedManager
<1>18. \A d \in Children \ {c} : Undisturbed(d) /\ Final(d)
  BY <1>1, <1>7, OthersUndisturbed
<1> QED
  BY <1>10, <1>17, <1>18 DEF AnswerStep

LEMMA SendResumedOK ==
    ASSUME ManagerInv, bus # << >>, NEW c \in Children, Head(bus).c = c, NEW ok \in BOOLEAN,
           Head(bus).kind = "resumed", SendResumed(c, ok)
    PROVE  AnswerStep(c, "resumed", ok)
<1>1. ManagerTyped /\ ChildInv(c) /\ Told(Head(bus))
  BY HeadTold
<1>2. act[c].send = "telling" /\ act[c].close \notin {"silent", "done"}
  BY <1>1 DEF Told
<1>3. ASSUME ok,
          ~Unavailable(c),
          act[c].run = "off"
     PROVE  AnswerStep(c, "resumed", ok)
  BY <1>3, BegunBehind
<1>4. ASSUME act' = At(c, "send", "off"),
          rec' = rec,
          bus' = Tail(bus),
          ok /\ ~Unavailable(c) => agent' = agent,
          ~(ok /\ ~Unavailable(c)) => agent' = GivenUp(c),
          UNCHANGED <<lease, active, ran, sends>>
     PROVE  AnswerStep(c, "resumed", ok)
  <2>1. ~(ok /\ ~Unavailable(c)) => AgentGivenUp(c)
    BY <1>1, <1>4, GivenUpIs
  <2>2. ActIs(c, act[c].spawn, "off", act[c].suspend, act[c].run, act[c].close)
    BY <1>1, <1>4, AtSend
  <2>3. ManagerTyped' /\ \A d \in Children \ {c} : Same(d)
    BY <1>1, <2>2, <1>2, <1>4, <2>1 DEF ManagerTyped, Same, ActIs, AgentGivenUp
  <2>4. ran'[c] + Credit(c)' <= sends' + 1
    BY <1>1, <2>2, <1>2, <1>4, <2>1 DEF ChildInv, Credit, ManagerTyped, ActIs, AgentGivenUp
  <2>5. ChildInv(c)'
    BY <1>1, <2>2, <2>4, <1>2, <1>4, <2>1 DEF ChildInv, ClosesInOrder, Unavailable, ManagerTyped, ActIs, AgentGivenUp
  <2>6. Final(c) /\ Answered(c, "resumed", ok)
    BY <1>1, <2>2, <1>2, <1>4, <2>1 DEF Answered, Final, Unavailable, ChildInv, ClosesInOrder, ManagerTyped, ActIs, AgentGivenUp
  <2>7. Waited(Tail(bus), c)
    <3>1. Steady(c, "resumed")
      BY <1>1, <2>2, <1>2, <1>4, <2>1 DEF Steady, ActIs, Unavailable, ChildInv, ClosesInOrder, AgentGivenUp
    <3> QED
      BY <3>1, HeadTold
  <2>8. sends <= sends' /\ bus' = Tail(bus)
    BY <1>1, RanBound, <1>2, <1>4, <2>1
  <2> QED
    BY <2>3, <2>5, <2>6, <2>7, <2>8, AnswerKept
<1> QED
  BY <1>3, <1>4 DEF SendResumed

LEMMA StartedIs ==
    ASSUME ManagerTyped, NEW c \in Children, NEW ok \in BOOLEAN, RunStarted(c, ok)
    PROVE  /\ act[c].spawn = "starting" /\ ~ok =>
                /\ ActIs(c, IF act[c].close = "done" THEN "off" ELSE "failing",
                         IF act[c].send = "starting" THEN "off" ELSE act[c].send,
                         act[c].suspend, "off",
                         IF act[c].close \in {"off", "interrupting"} THEN "cleaning"
                         ELSE act[c].close)
                /\ RecClosed(c)
           /\ ~(act[c].spawn = "starting" /\ ~ok) =>
                /\ ActIs(c, IF act[c].spawn = "starting" THEN "done" ELSE act[c].spawn,
                         IF act[c].send = "starting" THEN "off" ELSE act[c].send,
                         act[c].suspend, IF ok THEN "live" ELSE "off", act[c].close)
                /\ rec' = IF ok THEN rec ELSE AfterRun(c)
<1> DEFINE h == [act EXCEPT ![c].run = IF ok THEN "live" ELSE "off"]
           heard == [h EXCEPT ![c].send = IF @ = "starting" THEN "off" ELSE @]
           told == [act EXCEPT ![c].run = IF ok THEN "live" ELSE "off",
                               ![c].send = IF @ = "starting" THEN "off" ELSE @]
<1>1. /\ heard \in [Children -> ActRecords] /\ \A d \in Children \ {c} : heard[d] = act[d]
      /\ heard[c].spawn = act[c].spawn /\ heard[c].suspend = act[c].suspend
      /\ heard[c].close = act[c].close
      /\ heard[c].send = IF act[c].send = "starting" THEN "off" ELSE act[c].send
      /\ heard[c].run = IF ok THEN "live" ELSE "off"
  <2>1. act \in [Children -> ActRecords]
    BY DEF ManagerTyped
  <2>2. /\ h \in [Children -> ActRecords] /\ \A d \in Children \ {c} : h[d] = act[d]
        /\ h[c].spawn = act[c].spawn /\ h[c].suspend = act[c].suspend
        /\ h[c].close = act[c].close /\ h[c].send = act[c].send
        /\ h[c].run = IF ok THEN "live" ELSE "off"
    BY <2>1 DEF ActRecords
  <2> HIDE DEF h
  <2> QED
    BY <2>2 DEF ActRecords
<1>a. /\ act[c].spawn = "starting" /\ ~ok =>
            /\ act' = Cleaned([told EXCEPT ![c].spawn = "failing"], c, TRUE)
            /\ rec' = CleanedRec(c)
      /\ ~(act[c].spawn = "starting" /\ ~ok) =>
            /\ act' = IF act[c].spawn = "starting" THEN [told EXCEPT ![c].spawn = "done"] ELSE told
            /\ rec' = IF ok THEN rec ELSE AfterRun(c)
  BY DEF RunStarted
<1>b. told = heard
  OBVIOUS
<1> HIDE DEF told, heard
<1>2. /\ act[c].spawn = "starting" /\ ~ok =>
            /\ act' = Cleaned([heard EXCEPT ![c].spawn = "failing"], c, TRUE)
            /\ rec' = CleanedRec(c)
      /\ ~(act[c].spawn = "starting" /\ ~ok) =>
            /\ act' = IF act[c].spawn = "starting" THEN [heard EXCEPT ![c].spawn = "done"] ELSE heard
            /\ rec' = IF ok THEN rec ELSE AfterRun(c)
  BY <1>a, <1>b
<1>3. CASE act[c].spawn = "starting" /\ ~ok
  <2> DEFINE f == [heard EXCEPT ![c].spawn = "failing"]
  <2>1. /\ f \in [Children -> ActRecords] /\ \A d \in Children \ {c} : f[d] = act[d]
        /\ f[c].spawn = "failing" /\ f[c].suspend = act[c].suspend
        /\ f[c].run = "off" /\ f[c].close = act[c].close
        /\ f[c].send = IF act[c].send = "starting" THEN "off" ELSE act[c].send
    BY <1>1, <1>3 DEF ActRecords
  <2>2. act' = Cleaned(f, c, TRUE)
    BY <1>2, <1>3
  <2> HIDE DEF f
  <2>3. ActIs(c, IF f[c].spawn = "failing" /\ f[c].close = "done" THEN "off" ELSE f[c].spawn,
              f[c].send, f[c].suspend, f[c].run,
              IF f[c].close \in {"off", "interrupting"} THEN "cleaning" ELSE f[c].close)
    BY <2>1, <2>2, CleanedIs
  <2>4. RecClosed(c)
    BY <1>2, <1>3, CleanedRecIs
  <2> QED
    BY <1>3, <2>1, <2>3, <2>4
<1>4. CASE act[c].spawn = "starting" /\ ok
  <2>1. act' = [heard EXCEPT ![c].spawn = "done"] /\ rec' = rec
    BY <1>2, <1>4
  <2>2. act' \in [Children -> ActRecords]
    <3>1. [heard EXCEPT ![c].spawn = "done"] \in [Children -> ActRecords]
      BY <1>1, SpawnTyped
    <3> QED
      BY <2>1, <3>1
  <2>3. ActIs(c, "done", IF act[c].send = "starting" THEN "off" ELSE act[c].send,
              act[c].suspend, "live", act[c].close)
    BY <1>1, <1>4, <2>1, <2>2 DEF ActIs, ActRecords
  <2> QED
    BY <1>4, <2>1, <2>3
<1>5. CASE act[c].spawn # "starting"
  BY <1>1, <1>2, <1>5 DEF ActIs
<1> QED
  BY <1>3, <1>4, <1>5

LEMMA RunStartedOK ==
    ASSUME ManagerInv, bus # << >>, NEW c \in Children, Head(bus).c = c, NEW ok \in BOOLEAN,
           Head(bus).kind = "started", RunStarted(c, ok)
    PROVE  AnswerStep(c, "started", ok)
<1>1. ManagerTyped /\ ChildInv(c) /\ Told(Head(bus))
  BY HeadTold
<1>2. act[c].run = "starting" /\ act[c].close \notin {"silent", "done"}
  BY <1>1 DEF Told
<1>3. ASSUME ~ok,
          ActIs(c, "failing", IF act[c].send = "starting" THEN "off" ELSE act[c].send,
                act[c].suspend, "off",
                IF act[c].close \in {"off", "interrupting"} THEN "cleaning" ELSE act[c].close),
          RecClosed(c),
          bus' = Tail(bus),
          UNCHANGED <<agent, lease, active, ran, sends>>
     PROVE  AnswerStep(c, "started", ok)
  <2>2. ActIs(c, "failing", IF act[c].send = "starting" THEN "off" ELSE act[c].send,
                act[c].suspend, "off",
                IF act[c].close \in {"off", "interrupting"} THEN "cleaning" ELSE act[c].close)
    BY <1>3
  <2>3. ManagerTyped' /\ \A d \in Children \ {c} : Same(d)
    BY <1>1, <2>2, <1>2, <1>3 DEF ManagerTyped, Same, ActIs, RecClosed, RecTyped
  <2>4. ran'[c] + Credit(c)' <= sends' + 1
    BY <1>1, <2>2, <1>2, <1>3 DEF ChildInv, Credit, ManagerTyped, ActIs, RecClosed, RecTyped
  <2>5. ChildInv(c)'
    BY <1>1, <2>2, <2>4, <1>2, <1>3 DEF ChildInv, ClosesInOrder, Unavailable, ManagerTyped, ActIs, RecClosed, RecTyped
  <2>6. Final(c) /\ Answered(c, "started", ok)
    BY <1>1, <2>2, <1>2, <1>3 DEF Answered, Final, Unavailable, ChildInv, ClosesInOrder, ManagerTyped, ActIs, RecClosed, RecTyped
  <2>7. Waited(Tail(bus), c)
    <3>1. Steady(c, "started")
      BY <1>1, <2>2, <1>2, <1>3 DEF Steady, ActIs, Unavailable, ChildInv, ClosesInOrder, RecClosed, RecTyped
    <3> QED
      BY <3>1, HeadTold
  <2>8. sends <= sends' /\ bus' = Tail(bus)
    BY <1>1, RanBound, <1>2, <1>3
  <2> QED
    BY <2>3, <2>5, <2>6, <2>7, <2>8, AnswerKept
<1>4. ASSUME ActIs(c, IF act[c].spawn = "starting" THEN "done" ELSE act[c].spawn, IF act[c].send = "starting" THEN "off" ELSE act[c].send,
                act[c].suspend, IF ok THEN "live" ELSE "off", act[c].close),
          ok => rec' = rec,
          ~ok => RecSettled(c),
          bus' = Tail(bus),
          UNCHANGED <<agent, lease, active, ran, sends>>
     PROVE  AnswerStep(c, "started", ok)
  <2>2. ActIs(c, IF act[c].spawn = "starting" THEN "done" ELSE act[c].spawn, IF act[c].send = "starting" THEN "off" ELSE act[c].send,
                act[c].suspend, IF ok THEN "live" ELSE "off", act[c].close)
    BY <1>4
  <2>3. ManagerTyped' /\ \A d \in Children \ {c} : Same(d)
    BY <1>1, <2>2, <1>2, <1>4 DEF ManagerTyped, Same, ActIs, RecSettled, RecTyped
  <2>4. ran'[c] + Credit(c)' <= sends' + 1
    BY <1>1, <2>2, <1>2, <1>4 DEF ChildInv, Credit, ManagerTyped, ActIs, RecSettled, RecTyped
  <2>5. ChildInv(c)'
    BY <1>1, <2>2, <2>4, <1>2, <1>4 DEF ChildInv, ClosesInOrder, Unavailable, ManagerTyped, ActIs, RecSettled, RecTyped
  <2>6. Final(c) /\ Answered(c, "started", ok)
    BY <1>1, <2>2, <1>2, <1>4 DEF Answered, Final, Unavailable, ChildInv, ClosesInOrder, ManagerTyped, ActIs, RecSettled, RecTyped
  <2>7. Waited(Tail(bus), c)
    <3>1. Steady(c, "started")
      BY <1>1, <2>2, <1>2, <1>4 DEF Steady, ActIs, Unavailable, ChildInv, ClosesInOrder, RecSettled, RecTyped
    <3> QED
      BY <3>1, HeadTold
  <2>8. sends <= sends' /\ bus' = Tail(bus)
    BY <1>1, RanBound, <1>2, <1>4
  <2> QED
    BY <2>3, <2>5, <2>6, <2>7, <2>8, AnswerKept
<1>5. bus' = Tail(bus) /\ UNCHANGED <<agent, lease, active, ran, sends>>
  BY DEF RunStarted
<1>6. rec' = AfterRun(c) => RecSettled(c)
  BY <1>1 DEF AfterRun, RecSettled, RecTyped, ManagerTyped
<1>7. CASE act[c].spawn = "starting" /\ ~ok
  BY <1>1, <1>2, <1>3, <1>5, <1>7, StartedIs
<1>8. CASE ~(act[c].spawn = "starting" /\ ~ok)
  BY <1>1, <1>4, <1>5, <1>6, <1>8, StartedIs
<1> QED
  BY <1>7, <1>8

LEMMA RootAnswered ==
    ASSUME ManagerInv, bus # << >>, Head(bus).c = Root, NEW ok, Answer(ok)
    PROVE  ManagerStep
<1>1. QueueInv(Tail(bus)) /\ Head(bus).kind = "ended"
  BY TailOf DEF ManagerInv
<1>2. UNCHANGED manager /\ bus' = Tail(bus)
  BY <1>1 DEF Answer
<1> QED
  BY <1>1, <1>2, QuietManager

LEMMA ChildAnswered ==
    ASSUME ManagerInv, bus # << >>, NEW c \in Children, Head(bus).c = c, NEW ok \in BOOLEAN, Answer(ok)
    PROVE  AnswerStep(c, Head(bus).kind, ok)
<1>1. Head(bus).kind \in Kinds /\ c # Root
  BY HeadTold, ChildrenAssumption DEF Event
<1>2. CASE Head(bus).kind = "created"
  BY <1>1, <1>2, SpawnAnnouncedOK DEF Answer
<1>3. CASE Head(bus).kind = "resumed"
  BY <1>1, <1>3, SendResumedOK DEF Answer
<1>4. CASE Head(bus).kind = "suspended"
  BY <1>1, <1>4, SuspendedOK DEF Answer
<1>5. CASE Head(bus).kind = "closed"
  BY <1>1, <1>5, CloseToldOK DEF Answer
<1>6. CASE Head(bus).kind = "started"
  BY <1>1, <1>6, RunStartedOK DEF Answer
<1>7. CASE Head(bus).kind = "ended"
  BY <1>1, <1>7, RunSettledOK DEF Answer
<1> QED
  BY <1>1, <1>2, <1>3, <1>4, <1>5, <1>6, <1>7 DEF Kinds

\* Whatever the answer, a close is final and who waits for another event waits.
LEMMA AnswerOK ==
    ASSUME ManagerInv, bus # << >>, NEW ok \in BOOLEAN, Answer(ok)
    PROVE  /\ ManagerInv' /\ (\A d \in Children : Final(d))
           /\ \A d \in Children : d # Head(bus).c => Undisturbed(d)
<1>1. Head(bus).c \in Children \cup {Root}
  BY TailOf DEF ManagerInv, Event
<1>2. CASE Head(bus).c = Root
  BY <1>2, RootAnswered DEF ManagerStep
<1>3. CASE Head(bus).c \in Children
  BY <1>3, ChildAnswered DEF AnswerStep
<1> QED
  BY <1>1, <1>2, <1>3

-----------------------------------------------------------------------------
(* The store: what an event, and its settlement, write.                    *)

Shape(d, c, runs, attempts, task) ==
    d[c].runs = runs /\ d[c].attempts = attempts /\ d[c].task = task

LEMMA EndTaskIs ==
    ASSUME NEW d \in Stores, NEW c \in Children
    PROVE  /\ EndTask(d, c) \in Stores
           /\ \A j \in Sessions \ {c} : EndTask(d, c)[j] = d[j]
           /\ Shape(EndTask(d, c), c, d[c].runs, d[c].attempts,
                    IF d[c].task = "running" THEN "ended" ELSE d[c].task)
  BY DEF EndTask, Stores, Durable, Shape, Sessions

LEMMA OpenRunIs ==
    ASSUME NEW d \in Stores, NEW k \in Sessions, NEW n \in Runs \cup Gens
    PROVE  /\ OpenRun(d, k, n) \in Stores
           /\ \A j \in Sessions \ {k} : OpenRun(d, k, n)[j] = d[j]
           /\ Shape(OpenRun(d, k, n), k, d[k].runs \cup {n}, d[k].attempts \cup {n}, d[k].task)
<1> DEFINE h == [d EXCEPT ![k].runs = @ \cup {n}]
<1>1. /\ h \in Stores /\ \A j \in Sessions \ {k} : h[j] = d[j]
      /\ Shape(h, k, d[k].runs \cup {n}, d[k].attempts, d[k].task)
  BY DEF Stores, Durable, Shape
<1>2. OpenRun(d, k, n) = [h EXCEPT ![k].attempts = @ \cup {n}]
  BY DEF OpenRun
<1> HIDE DEF h
<1>3. /\ [h EXCEPT ![k].attempts = @ \cup {n}] \in Stores
      /\ \A j \in Sessions \ {k} : [h EXCEPT ![k].attempts = @ \cup {n}][j] = h[j]
      /\ Shape([h EXCEPT ![k].attempts = @ \cup {n}], k, h[k].runs, h[k].attempts \cup {n}, h[k].task)
  BY <1>1 DEF Stores, Durable, Shape
<1> QED
  BY <1>1, <1>2, <1>3 DEF Shape

LEMMA CloseRunIs ==
    ASSUME NEW d \in Stores, NEW k \in Sessions, NEW n
    PROVE  /\ CloseRun(d, k, n) \in Stores
           /\ \A j \in Sessions \ {k} : CloseRun(d, k, n)[j] = d[j]
           /\ Shape(CloseRun(d, k, n), k, d[k].runs \ {n}, d[k].attempts \ {n}, d[k].task)
<1> DEFINE h == [d EXCEPT ![k].runs = @ \ {n}]
<1>1. /\ h \in Stores /\ \A j \in Sessions \ {k} : h[j] = d[j]
      /\ Shape(h, k, d[k].runs \ {n}, d[k].attempts, d[k].task)
  BY DEF Stores, Durable, Shape
<1>2. CloseRun(d, k, n) = [h EXCEPT ![k].attempts = @ \ {n}]
  BY DEF CloseRun
<1> HIDE DEF h
<1>3. /\ [h EXCEPT ![k].attempts = @ \ {n}] \in Stores
      /\ \A j \in Sessions \ {k} : [h EXCEPT ![k].attempts = @ \ {n}][j] = h[j]
      /\ Shape([h EXCEPT ![k].attempts = @ \ {n}], k, h[k].runs, h[k].attempts \ {n}, h[k].task)
  BY <1>1 DEF Stores, Durable, Shape
<1> QED
  BY <1>1, <1>2, <1>3 DEF Shape

LEMMA WriteSession ==
    ASSUME NEW d \in Stores, NEW c \in Children, NEW v \in {"none", "open", "archived"}
    PROVE  /\ [d EXCEPT ![c].session = v] \in Stores
           /\ \A j \in Sessions \ {c} : [d EXCEPT ![c].session = v][j] = d[j]
           /\ Shape([d EXCEPT ![c].session = v], c, d[c].runs, d[c].attempts, d[c].task)
  BY DEF Stores, Durable, Shape, Sessions

LEMMA WriteClosed ==
    ASSUME NEW d \in Stores, NEW c \in Children, NEW n \in 0 .. 1
    PROVE  /\ [d EXCEPT ![c].closed = n] \in Stores
           /\ \A j \in Sessions \ {c} : [d EXCEPT ![c].closed = n][j] = d[j]
           /\ Shape([d EXCEPT ![c].closed = n], c, d[c].runs, d[c].attempts, d[c].task)
  BY DEF Stores, Durable, Shape, Sessions

LEMMA WriteTask ==
    ASSUME NEW d \in Stores, NEW c \in Children, NEW t \in {"none", "running", "ended"}
    PROVE  /\ [d EXCEPT ![c].task = t] \in Stores
           /\ \A j \in Sessions \ {c} : [d EXCEPT ![c].task = t][j] = d[j]
           /\ Shape([d EXCEPT ![c].task = t], c, d[c].runs, d[c].attempts, t)
  BY DEF Stores, Durable, Shape, Sessions

LEMMA EventParts ==
    ASSUME NEW e \in Event
    PROVE  e.kind \in Kinds /\ e.run \in Runs \cup Gens /\ e.of \in Sessions /\ e.c \in Sessions
  BY DEF Event, Sessions

LEMMA ProjectedCreated ==
    ASSUME NEW d \in Stores, NEW e \in Event, InContext(e), e.kind = "created", NEW k \in 0 .. 2
    PROVE  /\ Projected(e, k, d) \in Stores
           /\ \A j \in Children \ {e.c} : Projected(e, k, d)[j] = d[j]
           /\ Shape(Projected(e, k, d), e.c, d[e.c].runs, d[e.c].attempts,
                    IF k = 2 THEN "running" ELSE d[e.c].task)
<1>0. PICK c \in Children : c = e.c
  BY DEF InContext
<1> DEFINE f == [d EXCEPT ![c].session = "open"]
           g == [f EXCEPT ![c].task = "running"]
<1>1. /\ k = 2 => Projected(e, k, d) = g
      /\ k = 1 => Projected(e, k, d) = f
      /\ k = 0 => Projected(e, k, d) = d
  <2>1. Projected(e, k, d) = After(k, 2, After(k, 1, d, f),
                                  [After(k, 1, d, f) EXCEPT ![c].task = "running"])
    BY <1>0, Zenon DEF Projected, Last
  <2> HIDE DEF f
  <2>2. k = 0 => After(k, 1, d, f) = d
    BY DEF After
  <2>3. k # 0 => After(k, 1, d, f) = f
    BY DEF After
  <2>4. k = 2 => Projected(e, k, d) = [After(k, 1, d, f) EXCEPT ![c].task = "running"]
    BY <2>1 DEF After
  <2>5. k # 2 => Projected(e, k, d) = After(k, 1, d, f)
    BY <2>1 DEF After
  <2>6. CASE k = 2
    <3>1. k # 0 /\ k # 1 /\ Projected(e, k, d) = [After(k, 1, d, f) EXCEPT ![c].task = "running"]
          /\ After(k, 1, d, f) = f
      BY <2>3, <2>4, <2>6
    <3> QED
      BY <3>1, Zenon
  <2> QED
    BY <2>2, <2>3, <2>5, <2>6
<1>2. /\ f \in Stores /\ \A j \in Sessions \ {c} : f[j] = d[j]
      /\ Shape(f, c, d[c].runs, d[c].attempts, d[c].task)
  BY WriteSession
<1> HIDE DEF f
<1>3. /\ g \in Stores /\ \A j \in Sessions \ {c} : g[j] = f[j]
      /\ Shape(g, c, f[c].runs, f[c].attempts, "running")
  BY <1>2, WriteTask
<1> HIDE DEF g
<1>4. CASE k = 2
  BY <1>0, <1>1, <1>2, <1>3, <1>4 DEF Shape, Sessions
<1>5. CASE k = 1
  BY <1>0, <1>1, <1>2, <1>5 DEF Shape, Sessions
<1>6. CASE k = 0
  BY <1>0, <1>1, <1>6 DEF Shape, Sessions
<1> QED
  BY <1>4, <1>5, <1>6

\* What child.closed does for its child: the child starts up, or is known, or
\* is neither.
Way(e) == IF StartsUp(e) THEN "startup" ELSE IF e.c \in known THEN "known" ELSE "unknown"
Ways == {"startup", "known", "unknown"}

\* What it writes depends on nothing else of the projector.
Woken(d, c) == [d EXCEPT ![c].task = "running"]
EndedAs(w, d, c) ==
    IF w = "startup" THEN EndTask(Woken(d, c), c)
    ELSE IF w = "known" THEN EndTask(d, c) ELSE d
Noted(d, c) == [d EXCEPT ![c].closed = IF @ = 0 THEN 1 ELSE @]
ClosedAs(w, c, k, d) ==
    IF k = 2 THEN Noted(EndedAs(w, d, c), c) ELSE IF k = 1 THEN EndedAs(w, d, c) ELSE d
ClosedTask(w, k, task) ==
    IF k # 0 /\ (w = "startup" \/ (w = "known" /\ task = "running")) THEN "ended" ELSE task

LEMMA WokenIs ==
    ASSUME NEW d \in Stores, NEW c \in Children
    PROVE  /\ Woken(d, c) \in Stores /\ \A j \in Sessions \ {c} : Woken(d, c)[j] = d[j]
           /\ Shape(Woken(d, c), c, d[c].runs, d[c].attempts, "running")
  BY WriteTask DEF Woken

LEMMA EndedAsIs ==
    ASSUME NEW d \in Stores, NEW c \in Children, NEW w \in Ways
    PROVE  /\ EndedAs(w, d, c) \in Stores
           /\ \A j \in Sessions \ {c} : EndedAs(w, d, c)[j] = d[j]
           /\ Shape(EndedAs(w, d, c), c, d[c].runs, d[c].attempts, ClosedTask(w, 1, d[c].task))
<1>1. CASE w = "startup"
  <2> DEFINE b == Woken(d, c)
  <2>1. /\ b \in Stores /\ \A j \in Sessions \ {c} : b[j] = d[j]
        /\ Shape(b, c, d[c].runs, d[c].attempts, "running")
    BY WokenIs
  <2>2. EndedAs(w, d, c) = EndTask(b, c)
    BY <1>1 DEF EndedAs
  <2> HIDE DEF b
  <2>3. /\ EndTask(b, c) \in Stores /\ \A j \in Sessions \ {c} : EndTask(b, c)[j] = b[j]
        /\ Shape(EndTask(b, c), c, b[c].runs, b[c].attempts,
                 IF b[c].task = "running" THEN "ended" ELSE b[c].task)
    BY <2>1, EndTaskIs
  <2>4. ClosedTask(w, 1, d[c].task) = "ended"
    BY <1>1 DEF ClosedTask
  <2> QED
    BY <2>1, <2>2, <2>3, <2>4 DEF Shape
<1>2. CASE w = "known"
  <2>1. EndedAs(w, d, c) = EndTask(d, c)
        /\ ClosedTask(w, 1, d[c].task) = IF d[c].task = "running" THEN "ended" ELSE d[c].task
    BY <1>2 DEF EndedAs, ClosedTask
  <2> QED
    BY <2>1, EndTaskIs
<1>3. CASE w = "unknown"
  BY <1>3 DEF EndedAs, ClosedTask, Shape
<1> QED
  BY <1>1, <1>2, <1>3 DEF Ways

LEMMA ClosedAsIs ==
    ASSUME NEW d \in Stores, NEW c \in Children, NEW k \in 0 .. 2, NEW w \in Ways
    PROVE  /\ ClosedAs(w, c, k, d) \in Stores
           /\ \A j \in Sessions \ {c} : ClosedAs(w, c, k, d)[j] = d[j]
           /\ Shape(ClosedAs(w, c, k, d), c, d[c].runs, d[c].attempts,
                    ClosedTask(w, k, d[c].task))
<1> DEFINE f == EndedAs(w, d, c)
           g == Noted(f, c)
<1>1. /\ k = 2 => ClosedAs(w, c, k, d) = g
      /\ k = 1 => ClosedAs(w, c, k, d) = f
      /\ k = 0 => ClosedAs(w, c, k, d) = d
  BY DEF ClosedAs
<1>2. /\ f \in Stores /\ \A j \in Sessions \ {c} : f[j] = d[j]
      /\ Shape(f, c, d[c].runs, d[c].attempts, ClosedTask(w, 1, d[c].task))
  BY EndedAsIs
<1>3. /\ k # 0 => ClosedTask(w, k, d[c].task) = ClosedTask(w, 1, d[c].task)
      /\ k = 0 => ClosedTask(w, k, d[c].task) = d[c].task
  BY DEF ClosedTask
<1> HIDE DEF f
<1>4. /\ g \in Stores /\ \A j \in Sessions \ {c} : g[j] = f[j]
      /\ Shape(g, c, f[c].runs, f[c].attempts, f[c].task)
  <2>1. PICK n \in 0 .. 1 : n = IF f[c].closed = 0 THEN 1 ELSE f[c].closed
    BY <1>2 DEF Stores, Durable, Sessions
  <2>2. g = [f EXCEPT ![c].closed = n]
    BY <2>1 DEF Noted
  <2>3. /\ [f EXCEPT ![c].closed = n] \in Stores
        /\ \A j \in Sessions \ {c} : [f EXCEPT ![c].closed = n][j] = f[j]
        /\ Shape([f EXCEPT ![c].closed = n], c, f[c].runs, f[c].attempts, f[c].task)
    BY <1>2, WriteClosed
  <2> QED
    BY <2>2, <2>3
<1> HIDE DEF g
<1>5. CASE k = 2
  BY <1>1, <1>2, <1>3, <1>4, <1>5 DEF Shape
<1>6. CASE k = 1
  BY <1>1, <1>2, <1>3, <1>6 DEF Shape
<1>7. CASE k = 0
  BY <1>1, <1>3, <1>7 DEF Shape
<1> QED
  BY <1>5, <1>6, <1>7

LEMMA WayIs ==
    ASSUME NEW e \in Event, e.kind = "closed"
    PROVE  /\ Way(e) \in Ways
           /\ Way(e) = "startup" <=> StartsUp(e)
           /\ Way(e) = "unknown" <=> e.c \notin known
           /\ Way(e)' \in Ways
           /\ Way(e)' = "unknown" <=> e.c \notin known'
  BY DEF Way, Ways, StartsUp

\* It does so before and after a step.
LEMMA ClosedFrame ==
    ASSUME NEW d, NEW e, e.kind = "closed", NEW k \in 0 .. 2
    PROVE  /\ Projected(e, k, d) = ClosedAs(Way(e), e.c, k, d)
           /\ Projected(e, k, d)' = ClosedAs(Way(e)', e.c, k, d)
<1> DEFINE f == IF e.c \in known THEN EndTask(StartedUp(e, d), e.c) ELSE d
           g == [f EXCEPT ![e.c].closed = IF @ = 0 THEN 1 ELSE @]
<1>1. /\ k = 2 => Projected(e, k, d) = g
      /\ k = 1 => Projected(e, k, d) = f
      /\ k = 0 => Projected(e, k, d) = d
  BY DEF Projected, After, Last
<1>2. /\ k = 2 => Projected(e, k, d)' = g'
      /\ k = 1 => Projected(e, k, d)' = f'
      /\ k = 0 => Projected(e, k, d)' = d
  BY DEF Projected, After, Last
<1>3. f = EndedAs(Way(e), d, e.c)
  BY DEF EndedAs, Woken, Way, StartedUp, StartsUp
<1>4. f' = EndedAs(Way(e)', d, e.c)
  BY DEF EndedAs, Woken, Way, StartedUp, StartsUp
<1>5. g = Noted(f, e.c) /\ g' = Noted(f', e.c)
  BY DEF Noted
<1> HIDE DEF f, g
<1> QED
  BY <1>1, <1>2, <1>3, <1>4, <1>5 DEF ClosedAs

LEMMA ProjectedClosed ==
    ASSUME NEW d \in Stores, NEW e \in Event, InContext(e), e.kind = "closed", NEW k \in 0 .. 2
    PROVE  /\ Projected(e, k, d) \in Stores
           /\ \A j \in Children \ {e.c} : Projected(e, k, d)[j] = d[j]
           /\ Shape(Projected(e, k, d), e.c, d[e.c].runs, d[e.c].attempts,
                    IF k # 0 /\ (StartsUp(e) \/ (e.c \in known /\ d[e.c].task = "running"))
                    THEN "ended" ELSE d[e.c].task)
<1>1. PICK c \in Children : c = e.c
  BY DEF InContext
<1>2. PICK w \in Ways : w = Way(e)
  BY WayIs
<1>3. Projected(e, k, d) = ClosedAs(w, c, k, d)
  BY <1>1, <1>2, ClosedFrame
<1>4. /\ ClosedAs(w, c, k, d) \in Stores
      /\ \A j \in Sessions \ {c} : ClosedAs(w, c, k, d)[j] = d[j]
      /\ Shape(ClosedAs(w, c, k, d), c, d[c].runs, d[c].attempts, ClosedTask(w, k, d[c].task))
  BY ClosedAsIs
<1>5. ClosedTask(w, k, d[c].task) =
        IF k # 0 /\ (StartsUp(e) \/ (e.c \in known /\ d[c].task = "running"))
        THEN "ended" ELSE d[c].task
  BY <1>2, WayIs DEF ClosedTask, Way, StartsUp
<1> QED
  BY <1>1, <1>3, <1>4, <1>5 DEF Sessions

LEMMA ProjectedStarted ==
    ASSUME NEW d \in Stores, NEW e \in Event, InContext(e), e.kind = "started", NEW k \in 0 .. 2
    PROVE  /\ Projected(e, k, d) \in Stores
           /\ \A j \in Children \ {e.c} : Projected(e, k, d)[j] = d[j]
           /\ Shape(Projected(e, k, d), e.c,
                    IF k # 0 THEN d[e.c].runs \cup {e.run} ELSE d[e.c].runs,
                    IF k # 0 THEN d[e.c].attempts \cup {e.run} ELSE d[e.c].attempts,
                    IF k = 2 /\ e.c \in known THEN "running" ELSE d[e.c].task)
<1>0. PICK c \in Children : c = e.c
  BY DEF InContext
<1> DEFINE f == OpenRun(d, c, e.run)
           g == [f EXCEPT ![c].task = "running"]
<1>1. /\ k = 2 => Projected(e, k, d) = IF c \in known THEN g ELSE f
      /\ k = 1 => Projected(e, k, d) = f
      /\ k = 0 => Projected(e, k, d) = d
  BY <1>0 DEF Projected, After, Last, InContext
<1>2. /\ f \in Stores /\ \A j \in Sessions \ {c} : f[j] = d[j]
      /\ Shape(f, c, d[c].runs \cup {e.run}, d[c].attempts \cup {e.run}, d[c].task)
  <2>1. c \in Sessions /\ e.run \in Runs \cup Gens
    BY EventParts DEF Sessions
  <2> QED
    BY <2>1, OpenRunIs
<1> HIDE DEF f
<1>3. /\ g \in Stores /\ \A j \in Sessions \ {c} : g[j] = f[j]
      /\ Shape(g, c, f[c].runs, f[c].attempts, "running")
  BY <1>2, WriteTask
<1> HIDE DEF g
<1>4. CASE k = 2
  BY <1>0, <1>1, <1>2, <1>3, <1>4 DEF Shape, Sessions
<1>5. CASE k = 1
  BY <1>0, <1>1, <1>2, <1>5 DEF Shape, Sessions
<1>6. CASE k = 0
  BY <1>0, <1>1, <1>6 DEF Shape, Sessions
<1> QED
  BY <1>4, <1>5, <1>6

LEMMA ProjectedEnded ==
    ASSUME NEW d \in Stores, NEW e \in Event, InContext(e), e.kind = "ended", NEW k \in 0 .. 2
    PROVE  /\ Projected(e, k, d) \in Stores
           /\ \A j \in Children \ {e.c} : Projected(e, k, d)[j] = d[j]
           /\ Shape(Projected(e, k, d), e.c,
                    IF k # 0 THEN d[e.c].runs \ {e.run} ELSE d[e.c].runs,
                    IF k # 0 THEN d[e.c].attempts \ {e.run} ELSE d[e.c].attempts,
                    IF k = 2 /\ e.c \in known /\ d[e.c].task = "running" THEN "ended"
                    ELSE d[e.c].task)
<1>0. PICK c \in Children : c = e.c
  BY DEF InContext
<1> DEFINE f == CloseRun(d, c, e.run)
           g == EndTask(f, c)
<1>1. /\ k = 2 => Projected(e, k, d) = IF c \in known THEN g ELSE f
      /\ k = 1 => Projected(e, k, d) = f
      /\ k = 0 => Projected(e, k, d) = d
  BY <1>0, ChildrenAssumption DEF Projected, After, Last, InContext, OfChild
<1>2. /\ f \in Stores /\ \A j \in Sessions \ {c} : f[j] = d[j]
      /\ Shape(f, c, d[c].runs \ {e.run}, d[c].attempts \ {e.run}, d[c].task)
  <2>1. c \in Sessions
    BY DEF Sessions
  <2> QED
    BY <2>1, CloseRunIs
<1> HIDE DEF f
<1>3. /\ g \in Stores /\ \A j \in Sessions \ {c} : g[j] = f[j]
      /\ Shape(g, c, f[c].runs, f[c].attempts,
               IF f[c].task = "running" THEN "ended" ELSE f[c].task)
  BY <1>2, EndTaskIs
<1> HIDE DEF g
<1>4. CASE k = 2
  BY <1>0, <1>1, <1>2, <1>3, <1>4 DEF Shape, Sessions
<1>5. CASE k = 1
  BY <1>0, <1>1, <1>2, <1>5 DEF Shape, Sessions
<1>6. CASE k = 0
  BY <1>0, <1>1, <1>6 DEF Shape, Sessions
<1> QED
  BY <1>4, <1>5, <1>6

LEMMA ProjectedQuiet ==
    ASSUME NEW d \in Stores, NEW e \in Event, e.kind \in {"resumed", "suspended"}, NEW k \in 0 .. 2
    PROVE  Projected(e, k, d) = d
  BY DEF Projected, After, Last

LEMMA ProjectedRoot ==
    ASSUME NEW d \in Stores, NEW e \in Event, e.c = Root, e.of = Root, e.kind = "ended", NEW k \in 0 .. 2
    PROVE  /\ Projected(e, k, d) \in Stores
           /\ \A j \in Children : Projected(e, k, d)[j] = d[j]
<1> DEFINE f == CloseRun(d, Root, e.run)
<1>1. Projected(e, k, d) = IF k # 0 THEN f ELSE d
  BY DEF Projected, After, Last, OfChild
<1>2. Root \in Sessions
  BY DEF Sessions
<1>3. f \in Stores /\ \A j \in Sessions \ {Root} : f[j] = d[j]
  BY <1>2, CloseRunIs
<1> HIDE DEF f
<1> QED
  BY <1>1, <1>3, ChildrenAssumption DEF Sessions

\* A settlement: the task ends; a run of the child's own is closed.
Settles(e, k) ==
    IF e.kind \in {"created", "closed"}
    THEN k # 0 /\ (e.kind = "closed" => e.c \in known)
    ELSE k = 2 /\ e.c \in known
OwnRun(e) == e.kind \in {"started", "ended"}
EndsTask(e, k, t) == Settles(e, k) /\ (t = "running" \/ StartsUp(e))

LEMMA SettledIs ==
    ASSUME NEW d \in Stores, NEW e \in Event, InContext(e), NEW k \in 0 .. 2
    PROVE  /\ Settled(e, k, d) \in Stores
           /\ \A j \in Children \ {e.c} : Settled(e, k, d)[j] = d[j]
           /\ Shape(Settled(e, k, d), e.c,
                    IF OwnRun(e) /\ k # 0 THEN d[e.c].runs \ {e.run} ELSE d[e.c].runs,
                    IF OwnRun(e) /\ k # 0 /\ e.run \in d[e.c].runs
                    THEN d[e.c].attempts \ {e.run} ELSE d[e.c].attempts,
                    IF EndsTask(e, k, d[e.c].task) THEN "ended" ELSE d[e.c].task)
<1>0. PICK c \in Children : c = e.c
  BY DEF InContext
<1>1. CASE e.kind = "closed"
  BY <1>0, <1>1, ProjectedClosed DEF Settled, OwnRun, Settles, EndsTask, StartsUp, Shape
<1>2. CASE e.kind = "created"
  <2> DEFINE f == EndTask(d, c)
             g == [f EXCEPT ![c].session = IF @ = "none" THEN @ ELSE "archived"]
  <2>1. Settled(e, k, d) = IF k = 2 THEN g ELSE IF k = 1 THEN f ELSE d
    BY <1>0, <1>2 DEF Settled, Compensated, After, Last
  <2>2. /\ f \in Stores /\ \A j \in Sessions \ {c} : f[j] = d[j]
        /\ Shape(f, c, d[c].runs, d[c].attempts,
                 IF d[c].task = "running" THEN "ended" ELSE d[c].task)
    BY EndTaskIs
  <2> HIDE DEF f
  <2>3. /\ g \in Stores /\ \A j \in Sessions \ {c} : g[j] = f[j]
        /\ Shape(g, c, f[c].runs, f[c].attempts, f[c].task)
    <3>1. CASE f[c].session = "none"
      <4>1. g = [f EXCEPT ![c].session = "none"]
        BY <3>1
      <4>2. /\ [f EXCEPT ![c].session = "none"] \in Stores
            /\ \A j \in Sessions \ {c} : [f EXCEPT ![c].session = "none"][j] = f[j]
            /\ Shape([f EXCEPT ![c].session = "none"], c, f[c].runs, f[c].attempts, f[c].task)
        BY <2>2, WriteSession
      <4> QED
        BY <4>1, <4>2
    <3>2. CASE f[c].session # "none"
      <4>1. g = [f EXCEPT ![c].session = "archived"]
        BY <3>2
      <4>2. /\ [f EXCEPT ![c].session = "archived"] \in Stores
            /\ \A j \in Sessions \ {c} : [f EXCEPT ![c].session = "archived"][j] = f[j]
            /\ Shape([f EXCEPT ![c].session = "archived"], c, f[c].runs, f[c].attempts, f[c].task)
        BY <2>2, WriteSession
      <4> QED
        BY <4>1, <4>2
    <3> QED
      BY <3>1, <3>2
  <2> HIDE DEF g
  <2> QED
    BY <1>0, <1>2, <2>1, <2>2, <2>3 DEF Shape, Sessions, OwnRun, Settles, EndsTask, StartsUp
<1>3. CASE e.kind \notin {"created", "closed"}
  <2> DEFINE f == IF e.run \in d[e.of].runs THEN CloseRun(d, e.of, e.run) ELSE d
             g == IF c \in known THEN EndTask(f, c) ELSE f
  <2>1. Settled(e, k, d) = IF k = 2 THEN g ELSE IF k = 1 THEN f ELSE d
    BY <1>0, <1>3 DEF Settled, Compensated, After, Last
  <2>2. /\ f \in Stores /\ \A j \in Children \ {c} : f[j] = d[j]
        /\ Shape(f, c,
                 IF OwnRun(e) THEN d[c].runs \ {e.run} ELSE d[c].runs,
                 IF OwnRun(e) /\ e.run \in d[c].runs
                 THEN d[c].attempts \ {e.run} ELSE d[c].attempts, d[c].task)
    <3>1. /\ CloseRun(d, e.of, e.run) \in Stores
          /\ \A j \in Sessions \ {e.of} : CloseRun(d, e.of, e.run)[j] = d[j]
          /\ Shape(CloseRun(d, e.of, e.run), e.of, d[e.of].runs \ {e.run}, d[e.of].attempts \ {e.run},
                   d[e.of].task)
      BY EventParts, CloseRunIs
    <3>2. (OwnRun(e) => e.of = c) /\ (~OwnRun(e) => e.of = Root) /\ c # Root /\ c \in Children
      BY <1>0, ChildrenAssumption DEF InContext, OwnRun
    <3>3. CASE OwnRun(e)
      BY <3>1, <3>2, <3>3 DEF Shape, Sessions
    <3>4. CASE ~OwnRun(e)
      BY <3>1, <3>2, <3>4, ChildrenAssumption DEF Shape, Sessions
    <3> QED
      BY <3>3, <3>4
  <2> HIDE DEF f
  <2>3. /\ g \in Stores /\ \A j \in Children \ {c} : g[j] = f[j]
        /\ Shape(g, c, f[c].runs, f[c].attempts,
                 IF c \in known /\ f[c].task = "running" THEN "ended" ELSE f[c].task)
    BY <2>2, EndTaskIs DEF Shape, Sessions
  <2> HIDE DEF g
  <2> QED
    BY <1>0, <1>3, <2>1, <2>2, <2>3 DEF Shape, Settles, EndsTask, StartsUp
<1> QED
  BY <1>1, <1>2, <1>3

-----------------------------------------------------------------------------
(* What is recorded of a child, from step to step.                         *)

LEMMA KeepsRecord ==
    ASSUME NEW c \in Children, Undisturbed(c), gen' = gen, NEW d, NEW k, Recorded(c, d, k),
           NEW d2, NEW k2, d2[c] = d[c], c \in k2 <=> c \in k
    PROVE  Recorded(c, d2, k2)'
  BY DEF Recorded, Undisturbed

LEMMA KeepsStoredRecord ==
    ASSUME NEW c \in Children, Undisturbed(c), gen' = gen, Recorded(c, db, known),
           db'[c] = db[c], c \in known' <=> c \in known
    PROVE  Recorded(c, db, known)'
<1>1. PICK d : d = db
  OBVIOUS
<1>2. PICK k : k = known
  OBVIOUS
<1>3. PICK d2 : d2 = db'
  OBVIOUS
<1>4. PICK k2 : k2 = known'
  OBVIOUS
<1>5. Recorded(c, d, k)
  BY <1>1, <1>2
<1>6. Recorded(c, d2, k2)'
  BY <1>1, <1>2, <1>3, <1>4, <1>5, KeepsRecord
<1> QED
  BY <1>3, <1>4, <1>6 DEF Recorded

LEMMA SettledFrame ==
    ASSUME known' = known, NEW e, bound' = bound \/ e.kind # "closed", NEW k, NEW d
    PROVE  Settled(e, k, d)' = Settled(e, k, d) /\ KnownSettled(e)' = KnownSettled(e)
<1>1. CASE e.kind = "closed"
  BY <1>1 DEF Settled, Projected, KnownSettled, EndTask, StartedUp, StartsUp, After, Last
<1>2. CASE e.kind # "closed"
  BY <1>2 DEF Settled, Compensated, KnownSettled, EndTask, CloseRun, After, Last
<1> QED
  BY <1>1, <1>2

LEMMA SettledLast ==
    ASSUME NEW d \in Stores, NEW e \in Event, InContext(e)
    PROVE  Shape(Settled(e, 2, d), e.c,
                 IF OwnRun(e) THEN d[e.c].runs \ {e.run} ELSE d[e.c].runs,
                 IF OwnRun(e) /\ e.run \in d[e.c].runs
                 THEN d[e.c].attempts \ {e.run} ELSE d[e.c].attempts,
                 IF EndsTask(e, 2, d[e.c].task) THEN "ended" ELSE d[e.c].task)
<1> DEFINE s == Settled(e, 2, d)
<1>1. Shape(s, e.c,
            IF OwnRun(e) /\ 2 # 0 THEN d[e.c].runs \ {e.run} ELSE d[e.c].runs,
            IF OwnRun(e) /\ 2 # 0 /\ e.run \in d[e.c].runs
            THEN d[e.c].attempts \ {e.run} ELSE d[e.c].attempts,
            IF EndsTask(e, 2, d[e.c].task) THEN "ended" ELSE d[e.c].task)
  <2>1. 2 \in 0 .. 2
    OBVIOUS
  <2> QED
    BY <2>1, SettledIs
<1> HIDE DEF s
<1>2. 2 # 0
  OBVIOUS
<1>3. Shape(s, e.c,
            IF OwnRun(e) THEN d[e.c].runs \ {e.run} ELSE d[e.c].runs,
            IF OwnRun(e) /\ e.run \in d[e.c].runs
            THEN d[e.c].attempts \ {e.run} ELSE d[e.c].attempts,
            IF EndsTask(e, 2, d[e.c].task) THEN "ended" ELSE d[e.c].task)
  BY <1>1, <1>2 DEF Shape
<1> QED
  BY <1>3 DEF s

\* Settled as far as it went, and settled again, the event is settled.
LEMMA SettledAgain ==
    ASSUME NEW d \in Stores, NEW e \in Event, InContext(e), NEW k \in Short
    PROVE  /\ Settled(e, k, d) \in Stores
           /\ Shape(Settled(e, Last, Settled(e, k, d)), e.c, Settled(e, Last, d)[e.c].runs,
                    Settled(e, Last, d)[e.c].attempts, Settled(e, Last, d)[e.c].task)
<1>1. k \in 0 .. 2 /\ Last = 2 /\ k \in {0, 1}
  BY DEF Short, Last
<1>2. PICK c \in Children : c = e.c
  BY DEF InContext
<1>3. PICK s \in Stores :
        /\ s = Settled(e, k, d)
        /\ s[c].runs = IF OwnRun(e) /\ k # 0 THEN d[c].runs \ {e.run} ELSE d[c].runs
        /\ s[c].attempts = IF OwnRun(e) /\ k # 0 /\ e.run \in d[c].runs
                           THEN d[c].attempts \ {e.run} ELSE d[c].attempts
        /\ s[c].task = IF EndsTask(e, k, d[c].task) THEN "ended" ELSE d[c].task
  <2> DEFINE s == Settled(e, k, d)
  <2>1. s \in Stores
    BY <1>1, SettledIs
  <2>2. Shape(s, e.c,
              IF OwnRun(e) /\ k # 0 THEN d[e.c].runs \ {e.run} ELSE d[e.c].runs,
              IF OwnRun(e) /\ k # 0 /\ e.run \in d[e.c].runs
              THEN d[e.c].attempts \ {e.run} ELSE d[e.c].attempts,
              IF EndsTask(e, k, d[e.c].task) THEN "ended" ELSE d[e.c].task)
    BY <1>1, SettledIs
  <2> HIDE DEF s
  <2> QED
    BY <1>2, <2>1, <2>2 DEF Shape, s
<1>4. Shape(Settled(e, 2, s), c,
            IF OwnRun(e) THEN s[c].runs \ {e.run} ELSE s[c].runs,
            IF OwnRun(e) /\ e.run \in s[c].runs THEN s[c].attempts \ {e.run} ELSE s[c].attempts,
            IF EndsTask(e, 2, s[c].task) THEN "ended" ELSE s[c].task)
  BY <1>1, <1>2, SettledLast
<1>5. Shape(Settled(e, 2, d), c,
            IF OwnRun(e) THEN d[c].runs \ {e.run} ELSE d[c].runs,
            IF OwnRun(e) /\ e.run \in d[c].runs THEN d[c].attempts \ {e.run} ELSE d[c].attempts,
            IF EndsTask(e, 2, d[c].task) THEN "ended" ELSE d[c].task)
  BY <1>1, <1>2, SettledLast
<1>6. Settles(e, k) => Settles(e, 2)
  BY <1>1 DEF Settles
<1>7. Settled(e, 2, s)[c].runs = Settled(e, 2, d)[c].runs
  BY <1>3, <1>4, <1>5 DEF Shape
<1>8. Settled(e, 2, s)[c].attempts = Settled(e, 2, d)[c].attempts
  <2>1. CASE ~OwnRun(e) \/ k = 0
    BY <1>3, <1>4, <1>5, <2>1 DEF Shape
  <2>2. CASE OwnRun(e) /\ k # 0 /\ e.run \in d[c].runs
    BY <1>3, <1>4, <1>5, <2>2 DEF Shape
  <2>3. CASE OwnRun(e) /\ k # 0 /\ e.run \notin d[c].runs
    BY <1>3, <1>4, <1>5, <2>3 DEF Shape
  <2> QED
    BY <2>1, <2>2, <2>3
<1>9. Settled(e, 2, s)[c].task = Settled(e, 2, d)[c].task
  BY <1>3, <1>4, <1>5, <1>6 DEF Shape, EndsTask
<1> QED
  BY <1>1, <1>2, <1>3, <1>7, <1>8, <1>9 DEF Shape

\* Where the child stands whose event is the head of the bus.
LEMMA HeadStands ==
    ASSUME ManagerInv, bus # << >>, NEW c \in Children, Head(bus).c = c, NEW e, e = Head(bus)
    PROVE  /\ e \in Event /\ e.c = c /\ InContext(e) /\ e.kind \in Kinds
           /\ rec[c] \notin {"none", "gone"} /\ act[c].close # "silent"
           /\ e.kind \in {"created", "closed"} => act[c].run = "off"
           /\ e.kind = "started" => act[c].run = "starting" /\ e.run = ran[c]
           /\ e.kind = "ended" => act[c].run = "ending" /\ e.run = ran[c]
<1>1. ManagerTyped /\ ChildInv(c) /\ Told(e) /\ e \in Event /\ e.c = c /\ e.kind \in Kinds
  BY HeadTold, EventParts
<1>2. InContext(e)
  BY <1>1 DEF InContext, Told
<1>3. act[c].close \notin {"silent", "done"}
  BY <1>1 DEF Told
<1>4. rec[c] \notin {"none", "gone"}
  BY <1>1, <1>3 DEF Told, ChildInv, ClosesInOrder, Kinds
<1>5. /\ e.kind \in {"created", "closed"} => act[c].run = "off"
      /\ e.kind = "started" => act[c].run = "starting" /\ e.run = ran[c]
      /\ e.kind = "ended" => act[c].run = "ending" /\ e.run = ran[c]
  BY <1>1 DEF Told, ChildInv
<1> QED
  BY <1>1, <1>2, <1>3, <1>4, <1>5

\* An event of which the first writes failed is settled to what it should be.
LEMMA FailedIsSettled ==
    ASSUME ManagerInv, bus # << >>, NEW c \in Children, Head(bus).c = c, NEW e, e = Head(bus),
           NEW d \in Stores, known \subseteq Children, Recorded(c, d, known),
           NEW k \in Short, NEW s, s = Projected(e, k, d)
    PROVE  s \in Stores /\ Recorded(c, Settled(e, 2, s), KnownSettled(e))
<1>1. /\ e \in Event /\ e.c = c /\ InContext(e) /\ e.kind \in Kinds
      /\ rec[c] \notin {"none", "gone"} /\ act[c].close # "silent"
      /\ e.kind \in {"created", "closed"} => act[c].run = "off"
      /\ e.kind = "started" => act[c].run = "starting" /\ e.run = ran[c]
      /\ e.kind = "ended" => act[c].run = "ending" /\ e.run = ran[c]
  BY HeadStands
<1>2. k \in 0 .. 2 /\ k # 2
  BY DEF Short, Last
<1>3. /\ d[c].runs \subseteq (IF act[c].run \in {"live", "ending"} THEN {ran[c]} ELSE {})
      /\ gen = 1 => d[c].attempts \subseteq d[c].runs
      /\ d[c].task = "running" => c \in known
  BY DEF Recorded
<1>4. ASSUME s \in Stores
      PROVE  Shape(Settled(e, 2, s), c,
                   IF OwnRun(e) THEN s[c].runs \ {e.run} ELSE s[c].runs,
                   IF OwnRun(e) /\ e.run \in s[c].runs THEN s[c].attempts \ {e.run}
                   ELSE s[c].attempts,
                   IF EndsTask(e, 2, s[c].task) THEN "ended" ELSE s[c].task)
  BY <1>1, <1>4, SettledLast
<1> DEFINE Q == Settled(e, 2, s)
<1>5. CASE e.kind = "created"
  <2>a. s \in Stores /\ Shape(s, e.c, d[e.c].runs, d[e.c].attempts, IF k = 2 THEN "running" ELSE d[e.c].task)
    BY <1>1, <1>2, <1>5, ProjectedCreated
  <2>1. s \in Stores /\ Shape(s, c, d[c].runs, d[c].attempts, IF k = 2 THEN "running" ELSE d[c].task)
    BY <1>1, <2>a
  <2>2. ~OwnRun(e) /\ Settles(e, 2)
    BY <1>5 DEF OwnRun, Settles
  <2>3. Q[c].runs = d[c].runs /\ Q[c].attempts = d[c].attempts /\ Q[c].task # "running"
    BY <1>4, <2>1, <2>2 DEF Shape, EndsTask
  <2>4. KnownSettled(e) = known \ {c}
    BY <1>1, <1>5 DEF KnownSettled
  <2> HIDE DEF Q
  <2>5. Recorded(c, Q, KnownSettled(e))
    BY <1>1, <1>3, <1>5, <2>3, <2>4 DEF Recorded
  <2> QED
    BY <2>1, <2>5 DEF Q
<1>6. CASE e.kind = "closed"
  <2>a. s \in Stores /\ Shape(s, e.c, d[e.c].runs, d[e.c].attempts,
                              IF k # 0 /\ (StartsUp(e) \/ (e.c \in known /\ d[e.c].task = "running"))
                              THEN "ended" ELSE d[e.c].task)
    BY <1>1, <1>2, <1>6, ProjectedClosed
  <2>1. s \in Stores /\ Shape(s, c, d[c].runs, d[c].attempts,
                              IF k # 0 /\ (StartsUp(e) \/ (c \in known /\ d[c].task = "running"))
                              THEN "ended" ELSE d[c].task)
    BY <1>1, <2>a
  <2>2. ~OwnRun(e) /\ (Settles(e, 2) <=> c \in known)
    BY <1>1, <1>6 DEF OwnRun, Settles
  <2>3. Q[c].runs = d[c].runs /\ Q[c].attempts = d[c].attempts /\ Q[c].task # "running"
    BY <1>3, <1>4, <2>1, <2>2 DEF Shape, EndsTask
  <2>4. KnownSettled(e) = known \ {c}
    BY <1>1, <1>6 DEF KnownSettled
  <2> HIDE DEF Q
  <2>5. Recorded(c, Q, KnownSettled(e))
    BY <1>1, <1>3, <1>6, <2>3, <2>4 DEF Recorded
  <2> QED
    BY <2>1, <2>5 DEF Q
<1>7. CASE e.kind \in {"resumed", "suspended"}
  <2>1. s = d
    BY <1>1, <1>2, <1>7, ProjectedQuiet
  <2>2. ~OwnRun(e) /\ (Settles(e, 2) <=> c \in known)
    BY <1>1, <1>7 DEF OwnRun, Settles
  <2>3. Q[c].runs = d[c].runs /\ Q[c].attempts = d[c].attempts /\ Q[c].task # "running"
    BY <1>3, <1>4, <2>1, <2>2 DEF Shape, EndsTask
  <2>4. KnownSettled(e) = known
    BY <1>1, <1>7 DEF KnownSettled
  <2> HIDE DEF Q
  <2>5. Recorded(c, Q, KnownSettled(e))
    BY <1>1, <1>3, <2>3, <2>4 DEF Recorded
  <2> QED
    BY <2>1, <2>5 DEF Q
<1>8. CASE e.kind = "started"
  <2>a. s \in Stores /\ Shape(s, e.c,
                    IF k # 0 THEN d[e.c].runs \cup {e.run} ELSE d[e.c].runs,
                    IF k # 0 THEN d[e.c].attempts \cup {e.run} ELSE d[e.c].attempts,
                    IF k = 2 /\ e.c \in known THEN "running" ELSE d[e.c].task)
    BY <1>1, <1>2, <1>8, ProjectedStarted
  <2>1. s \in Stores /\ Shape(s, c,
                    IF k # 0 THEN d[c].runs \cup {e.run} ELSE d[c].runs,
                    IF k # 0 THEN d[c].attempts \cup {e.run} ELSE d[c].attempts,
                    IF k = 2 /\ c \in known THEN "running" ELSE d[c].task)
    BY <1>1, <2>a
  <2>2. OwnRun(e) /\ (Settles(e, 2) <=> c \in known)
    BY <1>1, <1>8 DEF OwnRun, Settles
  <2>3. d[c].runs = {} /\ (gen = 1 => d[c].attempts = {})
    BY <1>1, <1>3, <1>8
  <2>4. Q[c].runs = {} /\ Q[c].task # "running"
    BY <1>2, <1>3, <1>4, <2>1, <2>2, <2>3 DEF Shape, EndsTask
  <2>5. gen = 1 => Q[c].attempts = {}
    <3>1. CASE k = 0
      BY <1>4, <2>1, <2>2, <2>3, <3>1 DEF Shape
    <3>2. CASE k # 0
      BY <1>4, <2>1, <2>2, <2>3, <3>2 DEF Shape
    <3> QED
      BY <3>1, <3>2
  <2>6. KnownSettled(e) = known
    BY <1>1, <1>8 DEF KnownSettled
  <2> HIDE DEF Q
  <2>7. Recorded(c, Q, KnownSettled(e))
    BY <1>1, <2>4, <2>5, <2>6 DEF Recorded
  <2> QED
    BY <2>1, <2>7 DEF Q
<1>9. CASE e.kind = "ended"
  <2>a. s \in Stores /\ Shape(s, e.c,
                    IF k # 0 THEN d[e.c].runs \ {e.run} ELSE d[e.c].runs,
                    IF k # 0 THEN d[e.c].attempts \ {e.run} ELSE d[e.c].attempts,
                    IF k = 2 /\ e.c \in known /\ d[e.c].task = "running" THEN "ended" ELSE d[e.c].task)
    BY <1>1, <1>2, <1>9, ProjectedEnded
  <2>1. s \in Stores /\ Shape(s, c,
                    IF k # 0 THEN d[c].runs \ {e.run} ELSE d[c].runs,
                    IF k # 0 THEN d[c].attempts \ {e.run} ELSE d[c].attempts,
                    IF k = 2 /\ c \in known /\ d[c].task = "running" THEN "ended" ELSE d[c].task)
    BY <1>1, <2>a
  <2>2. OwnRun(e) /\ (Settles(e, 2) <=> c \in known)
    BY <1>1, <1>9 DEF OwnRun, Settles
  <2>3. d[c].runs \subseteq {e.run} /\ (gen = 1 => d[c].attempts \subseteq d[c].runs)
    BY <1>1, <1>3, <1>9
  <2>4. Q[c].runs = {} /\ Q[c].task # "running"
    BY <1>2, <1>3, <1>4, <2>1, <2>2, <2>3 DEF Shape, EndsTask
  <2>5. gen = 1 => Q[c].attempts = {}
    <3>1. CASE k = 0
      BY <1>4, <2>1, <2>2, <2>3, <3>1 DEF Shape
    <3>2. CASE k # 0
      BY <1>4, <2>1, <2>2, <2>3, <3>2 DEF Shape
    <3> QED
      BY <3>1, <3>2
  <2>6. KnownSettled(e) = known
    BY <1>1, <1>9 DEF KnownSettled
  <2> HIDE DEF Q
  <2>7. Recorded(c, Q, KnownSettled(e))
    BY <1>1, <2>4, <2>5, <2>6 DEF Recorded
  <2> QED
    BY <2>1, <2>7 DEF Q
<1> QED
  BY <1>1, <1>5, <1>6, <1>7, <1>8, <1>9 DEF Kinds

\* An event that is applied is recorded of its child.
LEMMA AppliedIsRecorded ==
    ASSUME ManagerInv, bus # << >>, NEW c \in Children, Head(bus).c = c, NEW e, e = Head(bus),
           AnswerStep(c, e.kind, TRUE), gen' = gen,
           NEW d \in Stores, known \subseteq Children, Recorded(c, d, known),
           NEW s, s = Projected(e, 2, d), NEW k, k = KnownAfter(e)
    PROVE  s \in Stores /\ Recorded(c, s, k)'
<1>1. /\ e \in Event /\ e.c = c /\ InContext(e) /\ e.kind \in Kinds
      /\ rec[c] \notin {"none", "gone"} /\ act[c].close # "silent"
      /\ e.kind \in {"created", "closed"} => act[c].run = "off"
      /\ e.kind = "started" => act[c].run = "starting" /\ e.run = ran[c]
      /\ e.kind = "ended" => act[c].run = "ending" /\ e.run = ran[c]
  BY HeadStands
<1>2. 2 \in 0 .. 2 /\ 2 # 0
  OBVIOUS
<1>3. /\ d[c].runs \subseteq (IF act[c].run \in {"live", "ending"} THEN {ran[c]} ELSE {})
      /\ gen = 1 => d[c].attempts \subseteq d[c].runs
      /\ d[c].task = "running" => c \in known
      /\ c \in known => rec[c] \notin {"none", "gone"} /\ act[c].close # "silent"
  BY DEF Recorded
<1>4. /\ act[c].run \in {"live", "ending"} /\ e.kind # "ended" =>
            act'[c].run \in {"live", "ending"} /\ ran'[c] = ran[c]
      /\ e.kind = "started" => act'[c].run = "live" /\ ran'[c] = ran[c]
      /\ e.kind # "closed" => rec'[c] \notin {"none", "gone"} /\ act'[c].close # "silent"
  BY DEF AnswerStep, Answered
<1>5. CASE e.kind = "created"
  <2>a. s \in Stores /\ Shape(s, e.c, d[e.c].runs, d[e.c].attempts, "running")
    BY <1>1, <1>2, <1>5, ProjectedCreated
  <2>1. s \in Stores /\ Shape(s, c, d[c].runs, d[c].attempts, "running")
    BY <1>1, <2>a
  <2>2. c \in k
    BY <1>1, <1>5 DEF KnownAfter
  <2> QED
    BY <1>1, <1>3, <1>4, <1>5, <2>1, <2>2 DEF Recorded, Shape
<1>6. CASE e.kind = "closed"
  <2>a. s \in Stores /\ Shape(s, e.c, d[e.c].runs, d[e.c].attempts,
                              IF 2 # 0 /\ (StartsUp(e) \/ (e.c \in known /\ d[e.c].task = "running"))
                              THEN "ended" ELSE d[e.c].task)
    BY <1>1, <1>2, <1>6, ProjectedClosed
  <2>1. s \in Stores /\ Shape(s, c, d[c].runs, d[c].attempts,
                              IF 2 # 0 /\ (StartsUp(e) \/ (c \in known /\ d[c].task = "running"))
                              THEN "ended" ELSE d[c].task)
    BY <1>1, <2>a
  <2>2. c \notin k
    BY <1>1, <1>6 DEF KnownAfter
  <2> QED
    BY <1>1, <1>3, <1>4, <1>6, <2>1, <2>2 DEF Recorded, Shape
<1>7. CASE e.kind \in {"resumed", "suspended"}
  <2>1. s = d /\ k = known
    BY <1>1, <1>2, <1>7, ProjectedQuiet DEF KnownAfter
  <2> QED
    BY <1>1, <1>3, <1>4, <1>7, <2>1 DEF Recorded
<1>8. CASE e.kind = "started"
  <2>a. s \in Stores /\ Shape(s, e.c,
                    IF 2 # 0 THEN d[e.c].runs \cup {e.run} ELSE d[e.c].runs,
                    IF 2 # 0 THEN d[e.c].attempts \cup {e.run} ELSE d[e.c].attempts,
                    IF 2 = 2 /\ e.c \in known THEN "running" ELSE d[e.c].task)
    BY <1>1, <1>2, <1>8, ProjectedStarted
  <2>1. s \in Stores /\ Shape(s, c,
                    IF 2 # 0 THEN d[c].runs \cup {e.run} ELSE d[c].runs,
                    IF 2 # 0 THEN d[c].attempts \cup {e.run} ELSE d[c].attempts,
                    IF 2 = 2 /\ c \in known THEN "running" ELSE d[c].task)
    BY <1>1, <2>a
  <2>2. k = known
    BY <1>1, <1>8 DEF KnownAfter
  <2>3. d[c].runs = {} /\ (gen = 1 => d[c].attempts = {}) /\ act'[c].run = "live" /\ ran'[c] = e.run
    BY <1>1, <1>3, <1>4, <1>8
  <2>4. s[c].runs = {ran'[c]} /\ (gen = 1 => s[c].attempts = {ran'[c]})
        /\ (s[c].task = "running" => c \in known)
    BY <1>3, <2>1, <2>3 DEF Shape
  <2> QED
    BY <1>1, <1>3, <1>4, <1>8, <2>1, <2>2, <2>3, <2>4 DEF Recorded
<1>9. CASE e.kind = "ended"
  <2>a. s \in Stores /\ Shape(s, e.c,
                    IF 2 # 0 THEN d[e.c].runs \ {e.run} ELSE d[e.c].runs,
                    IF 2 # 0 THEN d[e.c].attempts \ {e.run} ELSE d[e.c].attempts,
                    IF 2 = 2 /\ e.c \in known /\ d[e.c].task = "running" THEN "ended" ELSE d[e.c].task)
    BY <1>1, <1>2, <1>9, ProjectedEnded
  <2>1. s \in Stores /\ Shape(s, c,
                    IF 2 # 0 THEN d[c].runs \ {e.run} ELSE d[c].runs,
                    IF 2 # 0 THEN d[c].attempts \ {e.run} ELSE d[c].attempts,
                    IF 2 = 2 /\ c \in known /\ d[c].task = "running" THEN "ended" ELSE d[c].task)
    BY <1>1, <2>a
  <2>2. k = known
    BY <1>1, <1>9 DEF KnownAfter
  <2>3. d[c].runs \subseteq {e.run} /\ (gen = 1 => d[c].attempts \subseteq d[c].runs)
    BY <1>1, <1>3, <1>9
  <2>4. s[c].runs = {} /\ (gen = 1 => s[c].attempts = {}) /\ s[c].task # "running"
    BY <1>3, <2>1, <2>3 DEF Shape
  <2> QED
    BY <1>1, <1>3, <1>4, <1>9, <2>1, <2>2, <2>4 DEF Recorded
<1> QED
  BY <1>1, <1>5, <1>6, <1>7, <1>8, <1>9 DEF Kinds

\* A settlement is the record of its child when the event is answered, applied
\* as a closed one is or refused.
LEMMA SettledIsRecorded ==
    ASSUME ManagerInv, bus # << >>, NEW c \in Children, Head(bus).c = c, NEW e, e = Head(bus),
           NEW ok \in BOOLEAN, AnswerStep(c, e.kind, ok), gen' = gen,
           NEW d \in Stores, NEW s, s = Settled(e, 2, d), NEW k, k = KnownSettled(e),
           Recorded(c, s, k)
    PROVE  Recorded(c, s, k)'
<1>1. /\ e \in Event /\ e.c = c /\ InContext(e) /\ e.kind \in Kinds
      /\ e.kind \in {"created", "closed"} => act[c].run = "off"
      /\ e.kind = "ended" => act[c].run = "ending" /\ e.run = ran[c]
  BY HeadStands
<1>2. /\ s[c].runs \subseteq (IF act[c].run \in {"live", "ending"} THEN {ran[c]} ELSE {})
      /\ gen = 1 => s[c].attempts \subseteq s[c].runs
      /\ s[c].task = "running" => c \in k
      /\ c \in k => rec[c] \notin {"none", "gone"} /\ act[c].close # "silent"
  BY DEF Recorded
<1>3. /\ act[c].run \in {"live", "ending"} /\ e.kind # "ended" =>
            act'[c].run \in {"live", "ending"} /\ ran'[c] = ran[c]
      /\ e.kind # "closed" /\ (e.kind = "created" => ok) =>
            rec'[c] \notin {"none", "gone"} /\ act'[c].close # "silent"
  BY DEF AnswerStep, Answered
<1>4. c \in k => e.kind \notin {"created", "closed"}
  BY <1>1 DEF KnownSettled
<1>5. e.kind = "ended" => s[c].runs = {}
  <2>1. SUFFICES ASSUME e.kind = "ended" PROVE s[c].runs = {}
    OBVIOUS
  <2>2. Shape(s, c,
              IF OwnRun(e) THEN d[c].runs \ {e.run} ELSE d[c].runs,
              IF OwnRun(e) /\ e.run \in d[c].runs THEN d[c].attempts \ {e.run} ELSE d[c].attempts,
              IF EndsTask(e, 2, d[c].task) THEN "ended" ELSE d[c].task)
    BY <1>1, SettledLast
  <2>3. e.run \notin s[c].runs
    BY <2>1, <2>2 DEF Shape, OwnRun
  <2> QED
    BY <1>1, <1>2, <2>1, <2>3
<1>6. s[c].runs \subseteq (IF act'[c].run \in {"live", "ending"} THEN {ran'[c]} ELSE {})
  BY <1>1, <1>2, <1>3, <1>5
<1> QED
  BY <1>2, <1>3, <1>4, <1>6 DEF Recorded

-----------------------------------------------------------------------------
(* Steps of the manager: nothing is answered.                              *)

\* The rest of the state.
Framed ==
    /\ gen' = gen /\ UNCHANGED projector
    /\ rootRun' \in {"live", "over", "aborted", "stopped"} /\ faults' \in 0 .. MaxFaults
    /\ bus' = bus \/ \E e : bus' = Append(bus, e)

LEMMA AppendHead ==
    ASSUME NEW q \in Seq(Event), q # << >>, NEW e
    PROVE  Append(q, e) # << >> /\ Head(Append(q, e)) = Head(q)
<1> DEFINE S == Event \cup {e}
<1>1. q \in Seq(S)
  OBVIOUS
<1>2. e \in S
  OBVIOUS
<1> HIDE DEF S
<1> QED
  BY <1>1, <1>2

LEMMA Faulty ==
    ASSUME StoreTyped
    PROVE  Fault => faults' \in 0 .. MaxFaults
<1>1. MaxFaults \in Nat /\ faults \in 0 .. MaxFaults
  BY BoundsAssumption DEF StoreTyped
<1> QED
  BY <1>1 DEF Fault

LEMMA ChildActs ==
    ASSUME ManagerInv, StoreTyped, NEW c \in Children,
           Spawn(c) \/ Send(c) \/ Suspend(c) \/ Close(c) \/ Goes(c)
    PROVE  ManagerStep /\ Framed
<1>1. gen \in Gens /\ rootRun \in {"live", "over", "aborted", "stopped"} /\ faults \in 0 .. MaxFaults
  BY DEF StoreTyped
<1>2. CASE Spawn(c)
  BY <1>1, <1>2, SpawnOK DEF Spawn, Framed
<1>3. CASE Send(c)
  BY <1>1, <1>3, SendOK DEF Send, Framed
<1>4. CASE Suspend(c)
  BY <1>1, <1>4, SuspendOK DEF Suspend, Framed
<1>5. CASE Close(c)
  BY <1>1, <1>5, CloseOK DEF Close, Framed
<1>6. CASE SpawnAcquires(c)
  <2>1. faults' \in 0 .. MaxFaults
    BY <1>1, <1>6, Faulty DEF SpawnAcquires
  <2> QED
    BY <1>1, <1>6, <2>1, SpawnAcquiresOK DEF SpawnAcquires, Framed, Emit
<1>7. CASE AgentCreated(c)
  BY <1>1, <1>7, AgentCreatedOK DEF AgentCreated, Framed
<1>8. CASE AgentNotCreated(c)
  <2>1. faults' \in 0 .. MaxFaults
    BY <1>1, <1>8, Faulty DEF AgentNotCreated
  <2> QED
    BY <1>1, <1>8, <2>1, AgentNotCreatedOK DEF AgentNotCreated, Framed
<1>9. CASE SpawnHasAgent(c)
  BY <1>1, <1>9, SpawnHasAgentOK DEF SpawnHasAgent, Framed, BeginRun
<1>10. CASE SendTurn(c)
  BY <1>1, <1>10, SendTurnOK DEF SendTurn, Framed, BeginRun
<1>11. CASE SendHasAgent(c)
  BY <1>1, <1>11, SendHasAgentOK DEF SendHasAgent, Framed, Emit
<1>12. CASE RunEnds(c)
  BY <1>1, <1>12, RunEndsOK DEF RunEnds, Framed, Emit
<1>13. CASE SuspendTells(c)
  BY <1>1, <1>13, SuspendTellsOK DEF SuspendTells, Framed, Emit
<1>14. CASE AgentClosed(c)
  BY <1>1, <1>14, AgentClosedOK DEF AgentClosed, Framed
<1>15. CASE CloseInterrupted(c)
  BY <1>1, <1>15, CloseInterruptedOK DEF CloseInterrupted, Framed
<1>16. CASE CleanAgent(c)
  BY <1>1, <1>16, CleanAgentOK DEF CleanAgent, Framed
<1>17. CASE CleanRelease(c)
  BY <1>1, <1>17, CleanReleaseOK DEF CleanRelease, Framed, Emit
<1> QED
  BY <1>2, <1>3, <1>4, <1>5, <1>6, <1>7, <1>8, <1>9, <1>10, <1>11, <1>12, <1>13, <1>14, <1>15, <1>16, <1>17 DEF Goes

LEMMA RootActs ==
    ASSUME ManagerInv, StoreTyped, RootAborts \/ RootRunEnds
    PROVE  ManagerStep /\ Framed
<1>1. gen \in Gens /\ faults \in 0 .. MaxFaults
  BY DEF StoreTyped
<1>2. CASE RootAborts
  BY <1>1, <1>2, RootAbortsOK DEF RootAborts, Framed
<1>3. CASE RootRunEnds
  BY <1>1, <1>3, RootRunEndsOK DEF RootRunEnds, Framed, Emit
<1> QED
  BY <1>2, <1>3

LEMMA ManagerSteps ==
    ASSUME IInv, ManagerStep, Framed
    PROVE  IInv'
<1>1. ManagerInv /\ StoreTyped /\ StepInv /\ PendingInv /\ RecordInv
  BY DEF IInv
<1>2. ManagerInv' /\ gen' = gen /\ \A d \in Children : Undisturbed(d)
  BY DEF ManagerStep, Framed
<1>3. /\ step' = step /\ known' = known /\ bound' = bound /\ db' = db /\ pending' = pending /\ unheard' = unheard
  BY DEF Framed, projector
<1>4. StoreTyped'
  BY <1>1, <1>2, <1>3 DEF StoreTyped, Framed
<1>5. bus # << >> => bus' # << >> /\ Head(bus') = Head(bus)
  BY <1>1, AppendHead DEF Framed, ManagerInv, QueueInv
<1>6. StepInv'
  BY <1>1, <1>2, <1>3, <1>5 DEF StepInv
<1>7. PendingInv'
  BY <1>1, <1>2, <1>3 DEF PendingInv
<1>8. Owed' = Owed
  BY <1>1, <1>2, <1>3, <1>5 DEF Owed, StepInv
<1>9. RecordInv'
  <2>1. ASSUME NEW c \in Children \ unheard, \A e \in Owed : e.c # c
        PROVE  Recorded(c, db, known)'
    BY <1>1, <1>2, <1>3, <2>1, KeepsStoredRecord DEF RecordInv
  <2>2. ASSUME NEW c \in Children \ unheard, NEW e \in Owed, e.c = c
        PROVE  Recorded(c, Settled(e, Last, db), KnownSettled(e))'
    <3>1. PICK d : d = db
      OBVIOUS
    <3>2. PICK s : s = Settled(e, Last, d)
      OBVIOUS
    <3>3. PICK k : k = KnownSettled(e)
      OBVIOUS
    <3>4. Recorded(c, s, k)
      BY <1>1, <2>2, <3>1, <3>2, <3>3 DEF RecordInv
    <3>5. Recorded(c, s, k)'
      BY <1>2, <3>4, KeepsRecord
    <3>6. db' = d /\ Settled(e, Last, d)' = s /\ KnownSettled(e)' = k
      BY <1>3, <3>1, <3>2, <3>3, SettledFrame
    <3> QED
      BY <3>5, <3>6
  <2> QED
    BY <1>3, <1>8, <2>1, <2>2 DEF RecordInv
<1> QED
  BY <1>2, <1>4, <1>6, <1>7, <1>9 DEF IInv

-----------------------------------------------------------------------------
(* Steps of the projector.                                                 *)

LEMMA ProjectedIs ==
    ASSUME NEW d \in Stores, NEW e \in Event, InContext(e), NEW k \in 0 .. 2
    PROVE  /\ Projected(e, k, d) \in Stores
           /\ \A j \in Children \ {e.c} : Projected(e, k, d)[j] = d[j]
<1>1. e.kind \in Kinds
  BY EventParts
<1>2. CASE e.kind = "created"
  BY <1>2, ProjectedCreated
<1>3. CASE e.kind = "closed"
  BY <1>3, ProjectedClosed
<1>4. CASE e.kind = "started"
  BY <1>4, ProjectedStarted
<1>5. CASE e.kind = "ended"
  BY <1>5, ProjectedEnded
<1>6. CASE e.kind \in {"resumed", "suspended"}
  BY <1>6, ProjectedQuiet
<1> QED
  BY <1>1, <1>2, <1>3, <1>4, <1>5, <1>6 DEF Kinds

LEMMA NothingProjected ==
    ASSUME NEW e, NEW d
    PROVE  Projected(e, 0, d) = d
  BY DEF Projected, After, Last

\* What recovery leaves of a child: no run is opened, no task becomes active.
LEMMA RecoveredIs ==
    ASSUME NEW d \in Stores, NEW E
    PROVE  /\ Recovered(E, d) \in Stores
           /\ \A c \in Children :
                 /\ Recovered(E, d)[c].runs \subseteq d[c].runs
                 /\ Recovered(E, d)[c].attempts = d[c].attempts
                 /\ Recovered(E, d)[c].task = "running" => d[c].task = "running"
<1> DEFINE Has(k, kind) == \E e \in E : e.c = k /\ e.kind = kind
           Failed(k) == {e.run : e \in {f \in E : f.kind # "closed" /\ f.of = k}}
           r(k) == [d[k] EXCEPT
             !.runs = @ \ Failed(k),
             !.task = IF Has(k, "closed") \/ (@ = "running" /\ \E e \in E : e.c = k)
                      THEN "ended" ELSE @,
             !.closed = IF @ = 0 /\ Has(k, "closed") THEN 1 ELSE @,
             !.session = IF @ # "none" /\ Has(k, "created") THEN "archived" ELSE @]
<1>1. Recovered(E, d) = [k \in Sessions |-> r(k)]
  BY DEF Recovered, Sessions
<1>2. ASSUME NEW k \in Sessions
      PROVE  /\ r(k) \in Durable /\ r(k).runs \subseteq d[k].runs
             /\ r(k).attempts = d[k].attempts
             /\ r(k).task = "running" => d[k].task = "running"
  <2>1. d[k] \in Durable
    BY DEF Stores
  <2>2. PICK F : F = Failed(k)
    OBVIOUS
  <2>3. PICK t : t = IF Has(k, "closed") \/ (d[k].task = "running" /\ \E e \in E : e.c = k)
                     THEN "ended" ELSE d[k].task
    OBVIOUS
  <2>4. PICK n : n = IF d[k].closed = 0 /\ Has(k, "closed") THEN 1 ELSE d[k].closed
    OBVIOUS
  <2>5. PICK s : s = IF d[k].session # "none" /\ Has(k, "created") THEN "archived"
                     ELSE d[k].session
    OBVIOUS
  <2>6. r(k) = [d[k] EXCEPT !.runs = @ \ F, !.task = t, !.closed = n, !.session = s]
    BY <2>2, <2>3, <2>4, <2>5
  <2>7. /\ t \in {"none", "running", "ended"} /\ n \in 0 .. 1
        /\ s \in {"none", "open", "archived"} /\ (t = "running" => d[k].task = "running")
    BY <2>1, <2>3, <2>4, <2>5 DEF Durable
  <2>8. PICK y : y = r(k)
    OBVIOUS
  <2>9. PICK x \in Durable : x = d[k]
    BY <2>1
  <2>10. y = [x EXCEPT !.runs = @ \ F, !.task = t, !.closed = n, !.session = s]
    BY <2>6, <2>8, <2>9
  <2>11. y \in Durable /\ y.runs \subseteq x.runs /\ y.attempts = x.attempts /\ y.task = t
    BY <2>7, <2>10 DEF Durable
  <2> HIDE DEF r
  <2> QED
    BY <2>7, <2>8, <2>9, <2>11
<1> HIDE DEF r
<1> QED
  BY <1>1, <1>2 DEF Stores, Sessions

\* Only runs, attempts and an active task matter to the record of a child.
NoMore(d2, d, c) ==
    /\ d2[c].runs = d[c].runs /\ d2[c].attempts = d[c].attempts
    /\ d2[c].task = "running" => d[c].task = "running"

LEMMA NoMoreRecorded ==
    ASSUME NEW c \in Children, NEW d, NEW k, NEW d2, NoMore(d2, d, c)
    PROVE  /\ Recorded(c, d, k) => Recorded(c, d2, k)
           /\ Recorded(c, d, k)' => Recorded(c, d2, k)'
  BY DEF Recorded, NoMore

\* A settlement that stops early, whether or not the child starts up: what is
\* left of it leads where it would have led.
LEMMA PartlyIs ==
    ASSUME NEW e \in Event, InContext(e), bound \subseteq Children,
           known' = known, SettledPartly(e),
           NEW b \in Stores, b = db, NEW f, f = db'
    PROVE  /\ f \in Stores /\ bound' \subseteq Children
           /\ \A j \in Children \ {e.c} : f[j] = b[j]
           /\ f[e.c].runs \subseteq b[e.c].runs
           /\ b[e.c].task = "ended" => f[e.c].task = "ended" \/ (StartsUp(e) /\ e.c \in bound')
           /\ NoMore(Settled(e, 2, f)', Settled(e, 2, b), e.c)
           /\ KnownSettled(e)' = KnownSettled(e)
<1>1. PICK c \in Children : c = e.c
  BY DEF InContext
<1>2. /\ Woken(b, c) \in Stores /\ \A j \in Sessions \ {c} : Woken(b, c)[j] = b[j]
      /\ Shape(Woken(b, c), c, b[c].runs, b[c].attempts, "running")
  BY WokenIs
<1>3. KnownSettled(e)' = KnownSettled(e)
  BY DEF KnownSettled
<1>4. \A k \in Short : k \in 0 .. 2
  BY DEF Short, Last
<1>5. CASE e.kind # "closed"
  <2>1. bound' = bound /\ \E k \in Short : f = Settled(e, k, b)
    BY <1>5 DEF SettledPartly, StartsUp, BoundAfter
  <2>2. PICK k \in Short : f = Settled(e, k, b)
    BY <2>1
  <2>k. k \in 0 .. 2 /\ Last = 2
    BY <1>4 DEF Last
  <2>3. /\ Settled(e, k, b) \in Stores
        /\ \A j \in Children \ {e.c} : Settled(e, k, b)[j] = b[j]
        /\ Shape(Settled(e, k, b), e.c,
                 IF OwnRun(e) /\ k # 0 THEN b[e.c].runs \ {e.run} ELSE b[e.c].runs,
                 IF OwnRun(e) /\ k # 0 /\ e.run \in b[e.c].runs
                 THEN b[e.c].attempts \ {e.run} ELSE b[e.c].attempts,
                 IF EndsTask(e, k, b[e.c].task) THEN "ended" ELSE b[e.c].task)
    BY <2>k, SettledIs
  <2>4. Shape(Settled(e, 2, Settled(e, k, b)), e.c, Settled(e, 2, b)[e.c].runs,
              Settled(e, 2, b)[e.c].attempts, Settled(e, 2, b)[e.c].task)
    BY <2>k, SettledAgain
  <2>5. Settled(e, 2, f)' = Settled(e, 2, f)
    BY <1>5, SettledFrame
  <2>6. NoMore(Settled(e, 2, f)', Settled(e, 2, b), e.c)
    BY <2>2, <2>4, <2>5 DEF Shape, NoMore
  <2>7. f[e.c].runs \subseteq b[e.c].runs /\ (b[e.c].task = "ended" => f[e.c].task = "ended")
    BY <2>2, <2>3 DEF Shape
  <2> QED
    BY <1>3, <2>1, <2>2, <2>3, <2>6, <2>7
<1>6. CASE e.kind = "closed"
  <2>1. PICK w \in Ways : w = Way(e)
    BY <1>6, WayIs
  <2>2. PICK v \in Ways : v = Way(e)'
    BY <1>6, WayIs
  <2>3. (v = "unknown" <=> w = "unknown") /\ (w = "startup" <=> StartsUp(e))
    BY <1>6, <2>1, <2>2, WayIs
  <2>4. /\ bound' \subseteq Children
        /\ \/ \E k \in 0 .. 2 : f = ClosedAs(w, c, k, b)
           \/ w = "startup" /\ c \in bound' /\ f = Woken(b, c)
    <3>0. \/ \E k \in Short : db' = Settled(e, k, db) /\ bound' = BoundAfter(e, k)
          \/ StartsUp(e) /\ db' = StartedUp(e, db) /\ bound' = bound \cup {e.c}
      BY <1>6 DEF SettledPartly
    <3>1. CASE \E k \in Short : db' = Settled(e, k, db) /\ bound' = BoundAfter(e, k)
      <4>1. PICK k \in Short : db' = Settled(e, k, db) /\ bound' = BoundAfter(e, k)
        BY <3>1
      <4>2. f = ClosedAs(w, c, k, b)
        BY <1>1, <1>4, <1>6, <2>1, <4>1, ClosedFrame DEF Settled
      <4>3. bound' \subseteq Children
        BY <1>1, <4>1 DEF BoundAfter
      <4> QED
        BY <1>4, <4>2, <4>3
    <3>2. CASE StartsUp(e) /\ db' = StartedUp(e, db) /\ bound' = bound \cup {e.c}
      BY <1>1, <2>3, <3>2 DEF StartedUp, Woken
    <3> QED
      BY <3>0, <3>1, <3>2
  <2>5. /\ f \in Stores /\ \A j \in Sessions \ {c} : f[j] = b[j]
        /\ f[c].runs = b[c].runs /\ f[c].attempts = b[c].attempts
        /\ b[c].task = "ended" => f[c].task = "ended" \/ (w = "startup" /\ c \in bound')
        /\ w = "unknown" => f[c].task = b[c].task
    <3>1. CASE \E k \in 0 .. 2 : f = ClosedAs(w, c, k, b)
      <4>1. PICK k \in 0 .. 2 : f = ClosedAs(w, c, k, b)
        BY <3>1
      <4>2. /\ ClosedAs(w, c, k, b) \in Stores
            /\ \A j \in Sessions \ {c} : ClosedAs(w, c, k, b)[j] = b[j]
            /\ Shape(ClosedAs(w, c, k, b), c, b[c].runs, b[c].attempts,
                     ClosedTask(w, k, b[c].task))
        BY ClosedAsIs
      <4>3. /\ b[c].task = "ended" => ClosedTask(w, k, b[c].task) = "ended"
            /\ w = "unknown" => ClosedTask(w, k, b[c].task) = b[c].task
        BY DEF ClosedTask
      <4> QED
        BY <4>1, <4>2, <4>3 DEF Shape
    <3>2. CASE w = "startup" /\ c \in bound' /\ f = Woken(b, c)
      BY <1>2, <3>2 DEF Shape
    <3> QED
      BY <2>4, <3>1, <3>2
  <2>6. PICK s : s = Settled(e, 2, f)'
    OBVIOUS
  <2>7. PICK q : q = Settled(e, 2, b)
    OBVIOUS
  <2>8. s = ClosedAs(v, c, 2, f) /\ q = ClosedAs(w, c, 2, b)
    BY <1>1, <1>6, <2>1, <2>2, <2>6, <2>7, ClosedFrame DEF Settled
  <2>9. Shape(ClosedAs(v, c, 2, f), c, f[c].runs, f[c].attempts, ClosedTask(v, 2, f[c].task))
    BY <2>5, ClosedAsIs
  <2>10. Shape(ClosedAs(w, c, 2, b), c, b[c].runs, b[c].attempts, ClosedTask(w, 2, b[c].task))
    BY ClosedAsIs
  <2>11. ClosedTask(v, 2, f[c].task) = "running" => ClosedTask(w, 2, b[c].task) = "running"
    BY <2>3, <2>5 DEF ClosedTask, Ways
  <2>12. NoMore(s, q, c)
    BY <2>5, <2>8, <2>9, <2>10, <2>11 DEF Shape, NoMore
  <2> QED
    BY <1>1, <1>3, <2>3, <2>4, <2>5, <2>6, <2>7, <2>12 DEF Sessions
<1> QED
  BY <1>5, <1>6

\* The record of a child becomes what is stored of it.
LEMMA BecomesRecorded ==
    ASSUME NEW c \in Children, NEW d, NEW k, d = db', k = known', Recorded(c, d, k)'
    PROVE  Recorded(c, db, known)'
  BY DEF Recorded

LEMMA ReconcileOK ==
    ASSUME IInv, Reconcile
    PROVE  IInv' /\ \A d \in Children : Final(d)
<1>1. ManagerInv /\ StoreTyped /\ StepInv /\ PendingInv /\ RecordInv
  BY DEF IInv
<1>2. QueueInv(bus) /\ bus' = bus /\ UNCHANGED manager
  BY <1>1 DEF ManagerInv, Reconcile
<1>3. ManagerStep
  BY <1>1, <1>2, QuietManager
<1>4. ManagerInv' /\ \A d \in Children : Undisturbed(d) /\ Final(d)
  BY <1>3 DEF ManagerStep
<1>5. PICK s \in pending :
        /\ IF s.gen = gen
           THEN /\ db' = Settled(s.e, Last, db)
                /\ known' = KnownSettled(s.e)
                /\ bound' = bound \cap known'
           ELSE /\ db' = Recovered({s.e}, db)
                /\ known' = known /\ bound' = bound
        /\ pending' = pending \ {s}
  BY DEF Reconcile
<1>6. /\ step = "idle" /\ step' = step /\ gen' = gen /\ rootRun' = rootRun
      /\ unheard' = unheard /\ faults' = faults
  BY DEF Reconcile
<1>7. /\ s.e \in Event /\ s.gen \in Gens /\ InContext(s.e) /\ s.gen <= gen
      /\ pending = {s} /\ pending' = {}
  BY <1>1, <1>5 DEF PendingInv
<1>8. db \in Stores /\ gen \in Gens /\ known \subseteq Children /\ bound \subseteq Children
  BY <1>1 DEF StoreTyped
<1>9. /\ db' \in Stores /\ known' \subseteq Children /\ bound' \subseteq Children
  <2>1. Last \in 0 .. 2
    BY DEF Last
  <2>2. Settled(s.e, Last, db) \in Stores
    BY <1>7, <1>8, <2>1, SettledIs
  <2>3. Recovered({s.e}, db) \in Stores
    BY <1>8, RecoveredIs
  <2> QED
    BY <1>5, <1>8, <2>2, <2>3 DEF KnownSettled
<1>10. StoreTyped' /\ StepInv' /\ PendingInv'
  BY <1>1, <1>6, <1>7, <1>9 DEF StoreTyped, StepInv, PendingInv
<1>11. Owed' = {}
  BY <1>6, <1>7 DEF Owed
<1>12. ASSUME s.gen = gen PROVE RecordInv'
  <2>1. Owed = {s.e}
    BY <1>6, <1>7, <1>12 DEF Owed
  <2>2. ASSUME NEW c \in Children \ unheard', s.e.c = c
        PROVE  Recorded(c, db, known)'
    <3>1. PICK d : d = db'
      OBVIOUS
    <3>2. PICK k : k = known'
      OBVIOUS
    <3>3. Recorded(c, d, k)
      BY <1>1, <1>5, <1>6, <1>12, <2>1, <2>2, <3>1, <3>2 DEF RecordInv
    <3>4. Recorded(c, d, k)'
      BY <1>4, <1>6, <3>3, KeepsRecord
    <3> QED
      BY <3>1, <3>2, <3>4, BecomesRecorded
  <2>3. ASSUME NEW c \in Children \ unheard', s.e.c # c
        PROVE  Recorded(c, db, known)'
    <3>1. Recorded(c, db, known)
      BY <1>1, <1>6, <2>1, <2>3 DEF RecordInv
    <3>2. db'[c] = db[c]
      <4>1. Last \in 0 .. 2
        BY DEF Last
      <4>2. \A j \in Children \ {s.e.c} : Settled(s.e, Last, db)[j] = db[j]
        BY <1>7, <1>8, <4>1, SettledIs
      <4> QED
        BY <1>5, <1>7, <1>8, <1>12, <2>3, <4>2
    <3>3. c \in known' <=> c \in known
      BY <1>5, <1>12, <2>3 DEF KnownSettled
    <3> QED
      BY <1>4, <1>6, <3>1, <3>2, <3>3, KeepsStoredRecord
  <2> QED
    BY <1>11, <2>2, <2>3 DEF RecordInv
<1>13. ASSUME s.gen # gen PROVE RecordInv'
  <2>1. Owed = {} /\ gen > 1
    BY <1>6, <1>7, <1>8, <1>13, BoundsAssumption DEF Owed, Gens
  <2>2. ASSUME NEW c \in Children \ unheard'
        PROVE  Recorded(c, db, known)'
    <3>1. Recorded(c, db, known)
      BY <1>1, <1>6, <2>1, <2>2 DEF RecordInv
    <3>2. PICK d : d = db'
      OBVIOUS
    <3>3. /\ d[c].runs \subseteq db[c].runs
          /\ d[c].task = "running" => db[c].task = "running"
      BY <1>5, <1>8, <1>13, <3>2, RecoveredIs
    <3>4. PICK k : k = known
      OBVIOUS
    <3>5. Recorded(c, d, k)
      BY <2>1, <3>1, <3>3, <3>4 DEF Recorded
    <3>6. Recorded(c, d, k)'
      BY <1>4, <1>6, <3>5, KeepsRecord
    <3> QED
      BY <1>5, <1>13, <3>2, <3>4, <3>6, BecomesRecorded
  <2> QED
    BY <1>11, <2>2 DEF RecordInv
<1> QED
  BY <1>4, <1>10, <1>12, <1>13 DEF IInv

\* The event is refused, and nobody remembers it.
LEMMA NotReconciledOK ==
    ASSUME IInv, NotReconciled
    PROVE  IInv' /\ \A d \in Children : Final(d)
<1>1. ManagerInv /\ StoreTyped /\ StepInv /\ PendingInv /\ RecordInv
  BY DEF IInv
<1>2. bus # << >> /\ QueueInv(bus) /\ step = "idle" /\ Answer(FALSE)
  BY <1>1 DEF ManagerInv, NotReconciled
<1>3. Head(bus).c \in Children \cup {Root}
  BY <1>2, TailOf DEF Event
<1>4. /\ ManagerInv' /\ (\A d \in Children : Final(d))
      /\ \A d \in Children : d # Head(bus).c => Undisturbed(d)
  BY <1>1, <1>2, AnswerOK
<1>5. PICK s \in pending :
        IF s.gen = gen
        THEN SettledPartly(s.e) /\ Fault
        ELSE /\ db' = db /\ bound' = bound
             /\ IF Recoverable(s) THEN Fault ELSE faults' = faults
  BY DEF NotReconciled
<1>6. /\ step' = "idle" /\ gen' = gen /\ rootRun' = rootRun /\ known' = known
      /\ pending' = pending /\ unheard' = unheard \cup ({Head(bus).c} \ {Root})
  BY DEF NotReconciled, Answer
<1>7. /\ s.e \in Event /\ s.gen \in Gens /\ InContext(s.e) /\ s.gen <= gen
      /\ pending = {s}
  BY <1>1, <1>5 DEF PendingInv
<1>8. /\ db \in Stores /\ gen \in Gens /\ known \subseteq Children
      /\ unheard \subseteq Children /\ unheard' \subseteq Children /\ bound \subseteq Children
  BY <1>1, <1>3, <1>6 DEF StoreTyped
<1>9. db' \in Stores /\ bound' \subseteq Children
  <2>1. CASE s.gen = gen
    <3>1. PICK f : f = db'
      OBVIOUS
    <3>2. f \in Stores /\ bound' \subseteq Children
      BY <1>5, <1>6, <1>7, <1>8, <2>1, <3>1, PartlyIs
    <3> QED
      BY <3>1, <3>2
  <2> QED
    BY <1>5, <1>8, <2>1
<1>10. faults' \in 0 .. MaxFaults
  BY <1>1, <1>5, Faulty DEF StoreTyped
<1>11. StoreTyped' /\ StepInv' /\ PendingInv'
  BY <1>1, <1>6, <1>8, <1>9, <1>10 DEF StoreTyped, StepInv, PendingInv
<1>12. Owed' = Owed
  BY <1>2, <1>6 DEF Owed
<1>13. \A c \in Children \ unheard' : Undisturbed(c) /\ c \notin unheard
  BY <1>3, <1>4, <1>6, ChildrenAssumption
<1>14. ASSUME s.gen = gen PROVE RecordInv'
  <2>1. Owed = {s.e}
    BY <1>2, <1>7, <1>14 DEF Owed
  <2>2. PICK b \in Stores : b = db
    BY <1>8
  <2>f. PICK f : f = db'
    OBVIOUS
  <2>p. /\ \A j \in Children \ {s.e.c} : f[j] = b[j]
        /\ NoMore(Settled(s.e, 2, f)', Settled(s.e, 2, b), s.e.c)
        /\ KnownSettled(s.e)' = KnownSettled(s.e)
    BY <1>5, <1>6, <1>7, <1>8, <1>14, <2>2, <2>f, PartlyIs
  <2>3. ASSUME NEW c \in Children \ unheard', s.e.c # c
        PROVE  Recorded(c, db, known)'
    <3>1. Recorded(c, db, known)
      BY <1>1, <1>13, <2>1, <2>3 DEF RecordInv
    <3>2. db'[c] = db[c]
      BY <2>2, <2>3, <2>f, <2>p
    <3> QED
      BY <1>6, <1>13, <3>1, <3>2, KeepsStoredRecord
  <2>4. ASSUME NEW c \in Children \ unheard', s.e.c = c
        PROVE  Recorded(c, Settled(s.e, Last, db), KnownSettled(s.e))'
    <3>1. PICK d : d = Settled(s.e, 2, b)
      OBVIOUS
    <3>2. PICK h : h = KnownSettled(s.e)
      OBVIOUS
    <3>3. Recorded(c, d, h)
      BY <1>1, <1>13, <2>1, <2>2, <2>4, <3>1, <3>2 DEF RecordInv, Last
    <3>5. PICK d2 : d2 = Settled(s.e, 2, f)'
      OBVIOUS
    <3>6. NoMore(d2, d, c)
      BY <2>4, <2>p, <3>1, <3>5
    <3>7. Recorded(c, d2, h)
      BY <3>3, <3>6, NoMoreRecorded
    <3>8. Recorded(c, d2, h)'
      BY <1>6, <1>13, <3>7, KeepsRecord
    <3>9. KnownSettled(s.e)' = h /\ Settled(s.e, 2, f)' = d2
      BY <2>p, <3>2, <3>5
    <3> QED
      BY <2>f, <3>8, <3>9 DEF Recorded, Last
  <2> QED
    BY <1>12, <2>1, <2>3, <2>4 DEF RecordInv
<1>15. ASSUME s.gen # gen PROVE RecordInv'
  <2>1. Owed = {}
    BY <1>2, <1>7, <1>15 DEF Owed
  <2>2. ASSUME NEW c \in Children \ unheard'
        PROVE  Recorded(c, db, known)'
    <3>1. Recorded(c, db, known)
      BY <1>1, <1>13, <2>1, <2>2 DEF RecordInv
    <3>2. db' = db
      BY <1>5, <1>15
    <3> QED
      BY <1>6, <1>13, <3>1, <3>2, KeepsStoredRecord
  <2> QED
    BY <1>12, <2>1, <2>2 DEF RecordInv
<1> QED
  BY <1>4, <1>11, <1>14, <1>15 DEF IInv

\* Applied: a child's record is what the event makes of it.
LEMMA ProjectOK ==
    ASSUME IInv, Project
    PROVE  IInv' /\ \A d \in Children : Final(d)
<1>1. ManagerInv /\ StoreTyped /\ StepInv /\ PendingInv /\ RecordInv
  BY DEF IInv
<1>2. bus # << >> /\ QueueInv(bus) /\ step = "idle" /\ pending = {} /\ Answer(TRUE)
  BY <1>1 DEF ManagerInv, Project
<1>3. PICK e \in Event : e = Head(bus) /\ (e.c = Root => e.of = Root /\ e.kind = "ended")
  BY <1>2, TailOf
<1>4. /\ ManagerInv' /\ (\A d \in Children : Final(d))
      /\ \A d \in Children : d # e.c => Undisturbed(d)
  BY <1>1, <1>2, <1>3, AnswerOK
<1>5. /\ step' = "idle" /\ gen' = gen /\ rootRun' = rootRun /\ known' = KnownAfter(e)
      /\ pending' = pending /\ unheard' = unheard /\ faults' = faults
      /\ db' = Projected(e, 2, db) /\ bound' \subseteq known'
  BY <1>3 DEF Project, Answer, Last
<1>6. /\ db \in Stores /\ gen \in Gens /\ known \subseteq Children
  BY <1>1 DEF StoreTyped
<1>7. e.c \in Children => InContext(e) /\ AnswerStep(e.c, e.kind, TRUE)
  <2> SUFFICES ASSUME e.c \in Children
               PROVE  InContext(e) /\ AnswerStep(e.c, e.kind, TRUE)
    OBVIOUS
  <2>1. PICK c \in Children : c = e.c
    OBVIOUS
  <2>2. InContext(e)
    BY <1>1, <1>2, <1>3, <2>1, HeadStands
  <2>3. AnswerStep(c, e.kind, TRUE)
    BY <1>1, <1>2, <1>3, <2>1, ChildAnswered
  <2> QED
    BY <2>1, <2>2, <2>3
<1>8. e.c \in Children \cup {Root} /\ Root \notin Children
  BY ChildrenAssumption DEF Event
<1>9. db' \in Stores /\ \A j \in Children : j # e.c => db'[j] = db[j]
  <2>1. 2 \in 0 .. 2
    OBVIOUS
  <2>2. CASE e.c = Root
    <3>1. PICK b \in Stores : b = db
      BY <1>6
    <3>2. Projected(e, 2, b) \in Stores /\ \A j \in Children : Projected(e, 2, b)[j] = b[j]
      BY <1>3, <2>1, <2>2, ProjectedRoot
    <3> QED
      BY <1>5, <3>1, <3>2
  <2>3. CASE e.c \in Children
    <3>1. PICK b \in Stores : b = db
      BY <1>6
    <3>2. /\ Projected(e, 2, b) \in Stores
          /\ \A j \in Children \ {e.c} : Projected(e, 2, b)[j] = b[j]
      BY <1>7, <2>1, <2>3, ProjectedIs
    <3> QED
      BY <1>5, <3>1, <3>2
  <2> QED
    BY <1>8, <2>2, <2>3
<1>10. known' \subseteq Children /\ \A j \in Children : j # e.c => (j \in known' <=> j \in known)
  BY <1>3, <1>5, <1>6, <1>8 DEF KnownAfter
<1>11. StoreTyped' /\ StepInv' /\ PendingInv'
  BY <1>1, <1>5, <1>6, <1>9, <1>10 DEF StoreTyped, StepInv, PendingInv
<1>12. Owed = {} /\ Owed' = {}
  BY <1>2, <1>5 DEF Owed
<1>13. ASSUME NEW c \in Children \ unheard'
       PROVE  Recorded(c, db, known)'
  <2>1. Recorded(c, db, known)
    BY <1>1, <1>5, <1>12, <1>13 DEF RecordInv
  <2>2. CASE e.c # c
    BY <1>4, <1>5, <1>9, <1>10, <2>1, <2>2, KeepsStoredRecord
  <2>3. CASE e.c = c
    <3>1. PICK b \in Stores : b = db
      BY <1>6
    <3>2. PICK d : d = db'
      OBVIOUS
    <3>3. PICK k : k = known'
      OBVIOUS
    <3>4. Recorded(c, b, known) /\ d = Projected(e, 2, b) /\ k = KnownAfter(e)
      BY <1>5, <2>1, <3>1, <3>2, <3>3
    <3>5. AnswerStep(c, e.kind, TRUE) /\ Head(bus).c = c /\ c \in Children
      BY <1>3, <1>7, <2>3
    <3>6. Recorded(c, d, k)'
      BY <1>1, <1>2, <1>3, <1>5, <1>6, <3>4, <3>5, AppliedIsRecorded
    <3> QED
      BY <3>2, <3>3, <3>6, BecomesRecorded
  <2> QED
    BY <2>2, <2>3
<1>14. RecordInv'
  BY <1>12, <1>13 DEF RecordInv
<1> QED
  BY <1>4, <1>11, <1>14 DEF IInv

\* Not applied: refused at once when it is the root's, to be settled else.
LEMMA ProjectFailsOK ==
    ASSUME IInv, ProjectFails
    PROVE  IInv' /\ \A d \in Children : Final(d)
<1>1. ManagerInv /\ StoreTyped /\ StepInv /\ PendingInv /\ RecordInv
  BY DEF IInv
<1>2. bus # << >> /\ QueueInv(bus) /\ step = "idle" /\ pending = {}
  BY <1>1 DEF ManagerInv, ProjectFails
<1>3. PICK e \in Event : e = Head(bus) /\ (e.c = Root => e.of = Root /\ e.kind = "ended")
  BY <1>2, TailOf
<1>4. e.c \in Children \cup {Root} /\ Root \notin Children
  BY ChildrenAssumption DEF Event
<1>5. /\ gen' = gen /\ rootRun' = rootRun /\ known' = known
      /\ pending' = pending /\ unheard' = unheard
      /\ IF e.c # Root THEN step' = "failed" /\ UNCHANGED <<bus, manager>> ELSE Answer(FALSE)
  BY <1>3 DEF ProjectFails, OfChild
<1>6. /\ db \in Stores /\ gen \in Gens /\ known \subseteq Children /\ bound \subseteq Children
  BY <1>1 DEF StoreTyped
<1>7. /\ e.kind = "closed" => SettledPartly(e)
      /\ e.kind # "closed" => \E k \in Short : db' = Projected(e, k, db)
      /\ bound' \subseteq bound \cup ({e.c} \cap Children)
  <2>0. 0 \in Short /\ Projected(e, 0, db) = db
    BY NothingProjected DEF Short, Last
  <2>1. CASE Applies(e) /\ e.kind = "closed"
    BY <1>3, <1>4, <2>1 DEF ProjectFails, SettledPartly, BoundAfter
  <2>2. CASE Applies(e) /\ e.kind # "closed"
    <3>1. \E k \in Short : db' = Projected(e, k, db) /\ bound' = BoundAfter(e, k)
      BY <1>3, <2>2 DEF ProjectFails
    <3> QED
      BY <1>4, <1>6, <2>2, <3>1 DEF BoundAfter, StartsUp
  <2>3. CASE ~Applies(e)
    <3>1. db' = db /\ bound' = bound /\ e.kind = "ended"
      BY <1>3, <2>3 DEF ProjectFails, Applies
    <3> QED
      BY <2>0, <3>1
  <2> QED
    BY <2>1, <2>2, <2>3
<1>8. faults' \in 0 .. MaxFaults
  <2>1. Fault \/ faults' = faults
    BY <1>3 DEF ProjectFails
  <2> QED
    BY <1>1, <2>1, Faulty DEF StoreTyped
<1>9. bound' \subseteq Children /\ Short \subseteq 0 .. 2
  BY <1>6, <1>7 DEF Short, Last
<1>10. CASE e.c = Root
  <2>1. Answer(FALSE)
    BY <1>5, <1>10
  <2>2. ManagerInv' /\ \A d \in Children : Final(d) /\ Undisturbed(d)
    BY <1>1, <1>2, <1>3, <1>4, <1>10, <2>1, AnswerOK
  <2>3. db' \in Stores /\ \A j \in Children : db'[j] = db[j]
    <3>1. PICK b \in Stores : b = db
      BY <1>6
    <3>2. PICK k \in Short : db' = Projected(e, k, b)
      BY <1>3, <1>7, <1>10, <3>1
    <3>3. Projected(e, k, b) \in Stores /\ \A j \in Children : Projected(e, k, b)[j] = b[j]
      BY <1>3, <1>9, <1>10, ProjectedRoot
    <3> QED
      BY <3>1, <3>2, <3>3
  <2>4. step' = "idle"
    BY <2>1 DEF Answer
  <2>5. StoreTyped' /\ StepInv' /\ PendingInv'
    BY <1>1, <1>5, <1>6, <1>8, <1>9, <2>3, <2>4 DEF StoreTyped, StepInv, PendingInv
  <2>6. Owed = {} /\ Owed' = {}
    BY <1>2, <1>5, <2>4 DEF Owed
  <2>7. ASSUME NEW c \in Children \ unheard'
        PROVE  Recorded(c, db, known)'
    BY <1>1, <1>5, <2>2, <2>3, <2>6, <2>7, KeepsStoredRecord DEF RecordInv
  <2>8. RecordInv'
    BY <2>6, <2>7 DEF RecordInv
  <2> QED
    BY <2>2, <2>5, <2>8 DEF IInv
<1>11. CASE e.c \in Children
  <2>1. step' = "failed" /\ bus' = bus /\ UNCHANGED manager
    BY <1>4, <1>5, <1>11
  <2>2. ManagerStep
    BY <1>1, <1>2, <2>1, QuietManager
  <2>3. ManagerInv' /\ \A d \in Children : Final(d) /\ Undisturbed(d)
    BY <2>2 DEF ManagerStep
  <2>4. InContext(e)
    BY <1>1, <1>2, <1>3, <1>11, HeadStands
  <2>5. db' \in Stores /\ \A j \in Children \ {e.c} : db'[j] = db[j]
    <3>1. PICK b \in Stores : b = db
      BY <1>6
    <3>2. CASE e.kind = "closed"
      <4>1. PICK f : f = db'
        OBVIOUS
      <4>2. f \in Stores /\ \A j \in Children \ {e.c} : f[j] = b[j]
        BY <1>5, <1>6, <1>7, <2>4, <3>1, <3>2, <4>1, PartlyIs
      <4> QED
        BY <3>1, <4>1, <4>2
    <3>3. CASE e.kind # "closed"
      <4>1. PICK k \in Short : db' = Projected(e, k, b)
        BY <1>7, <3>1, <3>3
      <4>2. Projected(e, k, b) \in Stores /\ \A j \in Children \ {e.c} : Projected(e, k, b)[j] = b[j]
        BY <1>9, <2>4, ProjectedIs
      <4> QED
        BY <3>1, <4>1, <4>2
    <3> QED
      BY <3>2, <3>3
  <2>6. StoreTyped' /\ StepInv' /\ PendingInv'
    BY <1>1, <1>2, <1>3, <1>4, <1>5, <1>6, <1>8, <1>9, <1>11, <2>1, <2>5 DEF StoreTyped, StepInv, PendingInv
  <2>7. Owed = {} /\ Owed' = {e}
    BY <1>2, <1>3, <2>1 DEF Owed
  <2>8. ASSUME NEW c \in Children \ unheard', e.c # c
        PROVE  Recorded(c, db, known)'
    BY <1>1, <1>5, <2>3, <2>5, <2>7, <2>8, KeepsStoredRecord DEF RecordInv
  <2>9. ASSUME NEW c \in Children \ unheard', e.c = c
        PROVE  Recorded(c, Settled(e, Last, db), KnownSettled(e))'
    <3>1. PICK b \in Stores : b = db
      BY <1>6
    <3>2. PICK s : s = db'
      OBVIOUS
    <3>3. PICK d : d = Settled(e, 2, s)'
      OBVIOUS
    <3>4. PICK h : h = KnownSettled(e)
      OBVIOUS
    <3>5. Recorded(c, b, known)
      BY <1>1, <1>5, <2>7, <2>9, <3>1 DEF RecordInv
    <3>6. Head(bus).c = c
      BY <1>3, <2>9
    <3>7. Recorded(c, d, h) /\ KnownSettled(e)' = h
      <4>1. CASE e.kind # "closed"
        <5>1. PICK k \in Short : s = Projected(e, k, b)
          BY <1>7, <3>1, <3>2, <4>1
        <5>2. Recorded(c, Settled(e, 2, s), KnownSettled(e))
          BY <1>1, <1>2, <1>3, <1>6, <3>5, <3>6, <5>1, FailedIsSettled
        <5>3. Settled(e, 2, s)' = Settled(e, 2, s) /\ KnownSettled(e)' = KnownSettled(e)
          BY <1>5, <4>1, SettledFrame
        <5> QED
          BY <3>3, <3>4, <5>2, <5>3
      <4>2. CASE e.kind = "closed"
        <5>1. 0 \in Short /\ b = Projected(e, 0, b)
          BY NothingProjected DEF Short, Last
        <5>2. PICK q : q = Settled(e, 2, b)
          OBVIOUS
        <5>3. Recorded(c, q, h)
          BY <1>1, <1>2, <1>3, <1>6, <3>4, <3>5, <3>6, <5>1, <5>2, FailedIsSettled
        <5>4. NoMore(d, q, c) /\ KnownSettled(e)' = h
          BY <1>5, <1>6, <1>7, <2>4, <2>9, <3>1, <3>2, <3>3, <3>4, <4>2, <5>2, PartlyIs
        <5> QED
          BY <5>3, <5>4, NoMoreRecorded
      <4> QED
        BY <4>1, <4>2
    <3>8. Recorded(c, d, h)'
      BY <1>5, <2>3, <3>7, KeepsRecord
    <3>9. Settled(e, 2, s)' = d /\ KnownSettled(e)' = h
      BY <3>3, <3>7
    <3> QED
      BY <3>2, <3>8, <3>9 DEF Recorded, Last
  <2>10. RecordInv'
    BY <2>7, <2>8, <2>9 DEF RecordInv
  <2> QED
    BY <2>3, <2>6, <2>10 DEF IInv
<1> QED
  BY <1>4, <1>10, <1>11

\* The settlement is stored, and the event is still owed.
LEMMA PersistOK ==
    ASSUME IInv, Persist
    PROVE  IInv' /\ \A d \in Children : Final(d)
<1>1. ManagerInv /\ StoreTyped /\ StepInv /\ PendingInv /\ RecordInv
  BY DEF IInv
<1>2. /\ step = "failed" /\ bus # << >> /\ QueueInv(bus) /\ Head(bus).c # Root /\ pending = {}
  BY <1>1 DEF ManagerInv, Persist, StepInv
<1>3. PICK e \in Event : e = Head(bus) /\ e.c \in Children
  BY <1>2, TailOf DEF Event
<1>4. /\ UNCHANGED manager /\ bus' = bus /\ gen' = gen /\ rootRun' = rootRun /\ known' = known
      /\ bound' = bound /\ db' = db /\ unheard' = unheard /\ faults' = faults /\ step' = "settling"
      /\ pending' = {[e |-> e, gen |-> gen]}
  BY <1>2, <1>3 DEF Persist
<1>5. ManagerStep
  BY <1>1, <1>2, <1>4, QuietManager
<1>6. ManagerInv' /\ \A d \in Children : Undisturbed(d) /\ Final(d)
  BY <1>5 DEF ManagerStep
<1>7. gen \in Gens /\ gen \in Nat
  BY <1>1 DEF StoreTyped, Gens
<1>8. InContext(e)
  BY <1>1, <1>2, <1>3, HeadStands
<1>9. PendingInv'
  <2>1. [e |-> e, gen |-> gen] \in [e : Event, gen : Gens]
    BY <1>7
  <2>2. InContext([e |-> e, gen |-> gen].e) /\ [e |-> e, gen |-> gen].gen <= gen
    BY <1>7, <1>8
  <2> QED
    BY <1>4, <2>1, <2>2 DEF PendingInv, InContext
<1>10. StoreTyped' /\ StepInv'
  BY <1>1, <1>2, <1>3, <1>4 DEF StoreTyped, StepInv
<1>11. Owed = {e} /\ Owed' = {e}
  <2>1. PICK r : r = [e |-> e, gen |-> gen]
    OBVIOUS
  <2>2. r.e = e /\ r.gen = gen /\ pending' = {r} /\ step' = "settling" /\ gen' = gen
    BY <1>4, <2>1
  <2>3. Owed' = {e}
    BY <2>2 DEF Owed
  <2> QED
    BY <1>2, <1>3, <2>3 DEF Owed
<1>12. ASSUME NEW c \in Children \ unheard', e.c # c
       PROVE  Recorded(c, db, known)'
  BY <1>1, <1>4, <1>6, <1>11, <1>12, KeepsStoredRecord DEF RecordInv
<1>13. ASSUME NEW c \in Children \ unheard', e.c = c
       PROVE  Recorded(c, Settled(e, Last, db), KnownSettled(e))'
  <2>1. PICK b : b = db
    OBVIOUS
  <2>2. PICK d : d = Settled(e, Last, b)
    OBVIOUS
  <2>3. PICK h : h = KnownSettled(e)
    OBVIOUS
  <2>4. Recorded(c, d, h)
    BY <1>1, <1>4, <1>11, <1>13, <2>1, <2>2, <2>3 DEF RecordInv
  <2>5. Recorded(c, d, h)'
    BY <1>4, <1>6, <2>4, KeepsRecord
  <2>6. db' = b /\ Settled(e, Last, b)' = d /\ KnownSettled(e)' = h
    BY <1>4, <2>1, <2>2, <2>3, SettledFrame
  <2> QED
    BY <2>5, <2>6 DEF Recorded
<1>14. RecordInv'
  BY <1>11, <1>12, <1>13 DEF RecordInv
<1> QED
  BY <1>6, <1>9, <1>10, <1>14 DEF IInv

\* Not even the settlement is stored: the child is one nobody remembers.
LEMMA PersistFailsOK ==
    ASSUME IInv, PersistFails
    PROVE  IInv' /\ \A d \in Children : Final(d)
<1>1. ManagerInv /\ StoreTyped /\ StepInv /\ PendingInv /\ RecordInv
  BY DEF IInv
<1>2. /\ step = "failed" /\ bus # << >> /\ QueueInv(bus) /\ Head(bus).c # Root /\ pending = {}
      /\ Answer(FALSE)
  BY <1>1 DEF ManagerInv, PersistFails, StepInv
<1>3. PICK e \in Event : e = Head(bus) /\ e.c \in Children
  BY <1>2, TailOf DEF Event
<1>4. /\ gen' = gen /\ rootRun' = rootRun /\ known' = known /\ bound' = bound /\ db' = db /\ pending' = {}
      /\ unheard' = unheard \cup {e.c} /\ step' = "idle"
  BY <1>2, <1>3 DEF PersistFails, Answer
<1>5. /\ ManagerInv' /\ (\A d \in Children : Final(d))
      /\ \A d \in Children : d # e.c => Undisturbed(d)
  BY <1>1, <1>2, <1>3, AnswerOK
<1>6. faults' \in 0 .. MaxFaults
  BY <1>1, Faulty DEF PersistFails
<1>7. StoreTyped' /\ StepInv' /\ PendingInv'
  BY <1>1, <1>3, <1>4, <1>6 DEF StoreTyped, StepInv, PendingInv
<1>8. Owed = {e} /\ Owed' = {}
  BY <1>2, <1>3, <1>4 DEF Owed
<1>9. ASSUME NEW c \in Children \ unheard'
      PROVE  Recorded(c, db, known)'
  <2>1. c # e.c /\ c \notin unheard
    BY <1>4, <1>9
  <2>2. Recorded(c, db, known)
    BY <1>1, <1>8, <2>1 DEF RecordInv
  <2> QED
    BY <1>4, <1>5, <2>1, <2>2, KeepsStoredRecord
<1>10. RecordInv'
  BY <1>8, <1>9 DEF RecordInv
<1> QED
  BY <1>5, <1>7, <1>10 DEF IInv

LEMMA SettleOK ==
    ASSUME IInv, Settle
    PROVE  IInv' /\ \A d \in Children : Final(d)
<1>1. ManagerInv /\ StoreTyped /\ StepInv /\ PendingInv /\ RecordInv
  BY DEF IInv
<1>2. /\ step = "settling" /\ bus # << >> /\ QueueInv(bus) /\ Head(bus).c # Root
      /\ pending = {[e |-> Head(bus), gen |-> gen]}
  BY <1>1 DEF ManagerInv, Settle, StepInv
<1>3. PICK e \in Event : e = Head(bus) /\ e.c \in Children
  BY <1>2, TailOf DEF Event
<1>4. PICK c \in Children : c = e.c /\ Head(bus).c = c
  BY <1>3
<1>5. PICK ok \in BOOLEAN : ok = (e.kind = "closed")
  OBVIOUS
<1>6. Answer(ok)
  BY <1>3, <1>5 DEF Settle
<1>7. /\ ManagerInv' /\ (\A d \in Children : Final(d))
      /\ \A d \in Children : d # c => Undisturbed(d)
  BY <1>1, <1>2, <1>4, <1>6, AnswerOK
<1>8. /\ gen' = gen /\ rootRun' = rootRun /\ unheard' = unheard /\ faults' = faults
      /\ known' = KnownSettled(e) /\ bound' = bound \cap known' /\ db' = Settled(e, 2, db)
      /\ pending' = {} /\ step' = "idle"
  <2>1. step' = "idle"
    BY <1>6 DEF Answer
  <2> QED
    BY <1>2, <1>3, <2>1 DEF Settle, Last
<1>9. PICK b \in Stores : b = db
  BY <1>1 DEF StoreTyped
<1>10. InContext(e)
  BY <1>1, <1>2, <1>3, <1>4, HeadStands
<1>11. 2 \in 0 .. 2
  OBVIOUS
<1>12. Settled(e, 2, b) \in Stores /\ \A j \in Children \ {e.c} : Settled(e, 2, b)[j] = b[j]
  BY <1>10, <1>11, SettledIs
<1>13. StoreTyped' /\ StepInv' /\ PendingInv'
  BY <1>1, <1>8, <1>9, <1>12 DEF StoreTyped, StepInv, PendingInv, KnownSettled
<1>14. Owed = {e} /\ Owed' = {}
  <2>1. PICK r : r = [e |-> e, gen |-> gen]
    OBVIOUS
  <2>2. r.e = e /\ r.gen = gen /\ pending = {r}
    BY <1>2, <1>3, <2>1
  <2>3. Owed = {e}
    BY <1>2, <2>2 DEF Owed
  <2> QED
    BY <1>8, <2>3 DEF Owed
<1>15. ASSUME NEW d \in Children \ unheard'
       PROVE  Recorded(d, db, known)'
  <2>1. CASE d # c
    <3>1. Recorded(d, db, known)
      BY <1>1, <1>4, <1>8, <1>14, <1>15, <2>1 DEF RecordInv
    <3>2. db'[d] = db[d] /\ (d \in known' <=> d \in known)
      BY <1>4, <1>8, <1>9, <1>12, <2>1 DEF KnownSettled
    <3> QED
      BY <1>7, <1>8, <2>1, <3>1, <3>2, KeepsStoredRecord
  <2>2. CASE d = c
    <3>1. PICK s : s = Settled(e, 2, b)
      OBVIOUS
    <3>2. PICK h : h = KnownSettled(e)
      OBVIOUS
    <3>3. Recorded(c, s, h)
      BY <1>1, <1>4, <1>8, <1>9, <1>14, <1>15, <2>2, <3>1, <3>2 DEF RecordInv, Last
    <3>4. AnswerStep(c, e.kind, ok)
      BY <1>1, <1>2, <1>3, <1>4, <1>6, ChildAnswered
    <3>5. Recorded(c, s, h)'
      BY <1>1, <1>2, <1>3, <1>4, <1>8, <3>1, <3>2, <3>3, <3>4, SettledIsRecorded
    <3>6. s = db' /\ h = known'
      BY <1>8, <1>9, <3>1, <3>2
    <3>7. Recorded(c, db, known)'
      BY <3>5, <3>6, BecomesRecorded
    <3> QED
      BY <2>2, <3>7
  <2> QED
    BY <2>1, <2>2
<1>16. RecordInv'
  BY <1>14, <1>15 DEF RecordInv
<1> QED
  BY <1>7, <1>13, <1>16 DEF IInv

\* Settled as far as it went: the event is refused and stays owed.
LEMMA SettleFailsOK ==
    ASSUME IInv, SettleFails
    PROVE  IInv' /\ \A d \in Children : Final(d)
<1>1. ManagerInv /\ StoreTyped /\ StepInv /\ PendingInv /\ RecordInv
  BY DEF IInv
<1>2. /\ step = "settling" /\ bus # << >> /\ QueueInv(bus) /\ Head(bus).c # Root
      /\ pending = {[e |-> Head(bus), gen |-> gen]} /\ Answer(FALSE)
  BY <1>1 DEF ManagerInv, SettleFails, StepInv
<1>3. PICK e \in Event : e = Head(bus) /\ e.c \in Children
  BY <1>2, TailOf DEF Event
<1>4. PICK c \in Children : c = e.c /\ Head(bus).c = c
  BY <1>3
<1>5. /\ ManagerInv' /\ (\A d \in Children : Final(d))
      /\ \A d \in Children : d # c => Undisturbed(d)
  BY <1>1, <1>2, <1>4, AnswerOK
<1>6. SettledPartly(e)
  BY <1>3 DEF SettleFails
<1>7. /\ gen' = gen /\ rootRun' = rootRun /\ unheard' = unheard /\ faults' = faults
      /\ known' = known /\ pending' = pending /\ step' = "idle"
  BY <1>2 DEF SettleFails, Answer
<1>8. PICK b \in Stores : b = db
  BY <1>1 DEF StoreTyped
<1>9. InContext(e)
  BY <1>1, <1>2, <1>3, <1>4, HeadStands
<1>10. PICK f : f = db'
  OBVIOUS
<1>11. /\ f \in Stores /\ bound' \subseteq Children /\ \A j \in Children \ {e.c} : f[j] = b[j]
       /\ NoMore(Settled(e, 2, f)', Settled(e, 2, b), e.c)
       /\ KnownSettled(e)' = KnownSettled(e)
  <2>1. db \in Stores /\ bound \subseteq Children
    BY <1>1 DEF StoreTyped
  <2> QED
    BY <1>6, <1>7, <1>8, <1>9, <1>10, <2>1, PartlyIs
<1>12. db' = f
  BY <1>10
<1>13. StoreTyped' /\ StepInv' /\ PendingInv'
  BY <1>1, <1>7, <1>11, <1>12 DEF StoreTyped, StepInv, PendingInv
<1>14. Owed = {e} /\ Owed' = {e}
  <2>1. PICK r : r = [e |-> e, gen |-> gen]
    OBVIOUS
  <2>2. r.e = e /\ r.gen = gen /\ pending = {r} /\ pending' = {r}
    BY <1>2, <1>3, <1>7, <2>1
  <2>3. Owed = {e}
    BY <1>2, <2>2 DEF Owed
  <2>4. Owed' = {e}
    BY <1>7, <2>2 DEF Owed
  <2> QED
    BY <2>3, <2>4
<1>15. ASSUME NEW d \in Children \ unheard', e.c # d
       PROVE  Recorded(d, db, known)'
  <2>1. Recorded(d, db, known)
    BY <1>1, <1>7, <1>14, <1>15 DEF RecordInv
  <2>2. db'[d] = db[d]
    BY <1>8, <1>11, <1>12, <1>15
  <2> QED
    BY <1>4, <1>5, <1>7, <1>15, <2>1, <2>2, KeepsStoredRecord
<1>16. ASSUME NEW d \in Children \ unheard', e.c = d
       PROVE  Recorded(d, Settled(e, Last, db), KnownSettled(e))'
  <2>1. PICK s : s = Settled(e, 2, b)
    OBVIOUS
  <2>2. PICK h : h = KnownSettled(e)
    OBVIOUS
  <2>3. PICK s2 : s2 = Settled(e, 2, f)'
    OBVIOUS
  <2>4. Recorded(c, s, h)
    BY <1>1, <1>4, <1>7, <1>8, <1>14, <1>16, <2>1, <2>2 DEF RecordInv, Last
  <2>5. NoMore(s2, s, c)
    BY <1>4, <1>11, <2>1, <2>3
  <2>7. AnswerStep(c, e.kind, FALSE)
    BY <1>1, <1>2, <1>3, <1>4, ChildAnswered
  <2>6. Recorded(c, s, h)'
    BY <1>1, <1>2, <1>3, <1>4, <1>7, <2>1, <2>2, <2>4, <2>7, SettledIsRecorded
  <2>8. Recorded(c, s2, h)'
    BY <2>5, <2>6, NoMoreRecorded
  <2>9. db' = f /\ Settled(e, 2, f)' = s2 /\ KnownSettled(e)' = h
    BY <1>11, <1>12, <2>2, <2>3
  <2> QED
    BY <1>4, <1>16, <2>8, <2>9 DEF Recorded, Last
<1>17. RecordInv'
  BY <1>14, <1>15, <1>16 DEF RecordInv
<1> QED
  BY <1>5, <1>13, <1>17 DEF IInv

-----------------------------------------------------------------------------
(* The first start, and the later ones.                                    *)

\* Once the open runs are interrupted nothing of a child is open.
LEMMA RestartedIs ==
    ASSUME NEW d \in Stores, NEW n \in Gens
    PROVE  /\ OpenRun(Interrupted(d), Root, n) \in Stores
           /\ \A c \in Children :
                 /\ OpenRun(Interrupted(d), Root, n)[c].runs = {}
                 /\ OpenRun(Interrupted(d), Root, n)[c].task # "running"
<1>1. PICK f : f = Interrupted(d)
  OBVIOUS
<1>2. /\ f \in Stores
      /\ \A c \in Sessions : f[c].runs = {} /\ f[c].task # "running"
  <2>1. DOMAIN d = Sessions
    BY DEF Stores
  <2>2. ASSUME NEW c \in Sessions
        PROVE  /\ [d[c] EXCEPT !.runs = {}, !.attempts = @ \ d[c].runs,
                               !.task = IF @ = "running" THEN "ended" ELSE @] \in Durable
               /\ [d[c] EXCEPT !.runs = {}, !.attempts = @ \ d[c].runs,
                               !.task = IF @ = "running" THEN "ended" ELSE @].runs = {}
               /\ [d[c] EXCEPT !.runs = {}, !.attempts = @ \ d[c].runs,
                               !.task = IF @ = "running" THEN "ended" ELSE @].task # "running"
    <3>1. d[c] \in Durable
      BY DEF Stores
    <3> QED
      BY <3>1 DEF Durable
  <2> QED
    BY <1>1, <2>1, <2>2 DEF Interrupted, Stores
<1>3. Root \in Sessions /\ n \in Runs \cup Gens
  BY DEF Sessions
<1>4. /\ OpenRun(f, Root, n) \in Stores
      /\ \A j \in Sessions \ {Root} : OpenRun(f, Root, n)[j] = f[j]
  BY <1>2, <1>3, OpenRunIs
<1>5. \A c \in Children : c \in Sessions \ {Root}
  BY ChildrenAssumption DEF Sessions
<1> QED
  BY <1>1, <1>2, <1>4, <1>5

\* No procedure of a child is under way; it is gone, or was never there.
LEMMA AllOff ==
    ASSUME NEW f, f = [c \in Children |->
                         [a \in Acts |-> IF a = "close" /\ rec[c] # "none" THEN "done" ELSE "off"]]
    PROVE  /\ f \in [Children -> ActRecords]
           /\ \A c \in Children :
                 /\ f[c].spawn = "off" /\ f[c].send = "off" /\ f[c].suspend = "off"
                 /\ f[c].run = "off"
                 /\ f[c].close = IF rec[c] = "none" THEN "off" ELSE "done"
  BY DEF ActRecords, Acts

LEMMA ManagerRestarted ==
    ASSUME ManagerTyped, Restart
    PROVE  ManagerInv'
<1>1. /\ rec' = [c \in Children |-> IF rec[c] = "none" THEN "none" ELSE "gone"]
      /\ act' = [c \in Children |->
                 [a \in Acts |-> IF a = "close" /\ rec[c] # "none" THEN "done" ELSE "off"]]
      /\ ran' = [c \in Children |-> 0] /\ agent' = [c \in Children |-> "none"]
      /\ lease' = [c \in Children |-> "none"] /\ active' = {} /\ bus' = << >>
      /\ sends' = sends
  BY DEF Restart
<1>2. /\ act' \in [Children -> ActRecords]
      /\ \A c \in Children :
            /\ act'[c].spawn = "off" /\ act'[c].send = "off" /\ act'[c].suspend = "off"
            /\ act'[c].run = "off"
            /\ act'[c].close = IF rec[c] = "none" THEN "off" ELSE "done"
  BY <1>1, AllOff
<1>3. ManagerTyped'
  BY <1>1, <1>2 DEF ManagerTyped
<1>4. ASSUME NEW c \in Children PROVE ChildInv(c)'
  <2>1. sends \in Nat
    BY DEF ManagerTyped
  <2>2. /\ rec'[c] = IF rec[c] = "none" THEN "none" ELSE "gone"
        /\ agent'[c] = "none" /\ lease'[c] = "none" /\ c \notin active' /\ ran'[c] = 0
    BY <1>1
  <2>3. Credit(c)' = 0
    BY <1>2 DEF Credit
  <2>4. ran'[c] + Credit(c)' <= sends' + 1
    BY <1>1, <2>1, <2>2, <2>3
  <2>5. ClosesInOrder(c)'
    BY <1>2, <2>2 DEF ClosesInOrder
  <2> QED
    BY <1>2, <2>2, <2>4, <2>5 DEF ChildInv, Unavailable
<1>5. QueueInv(bus)'
  BY <1>1 DEF QueueInv
<1> QED
  BY <1>3, <1>4, <1>5 DEF ManagerInv

LEMMA RestartOK ==
    ASSUME IInv, Restart
    PROVE  IInv' /\ \A d \in Children : Final(d)
<1>1. ManagerInv /\ ManagerTyped /\ StoreTyped /\ StepInv /\ PendingInv /\ RecordInv
  BY DEF IInv, ManagerInv
<1>2. ManagerInv'
  BY <1>1, ManagerRestarted
<1>3. PICK left \in SUBSET pending :
        /\ faults' = faults + Cardinality({s \in left : Recoverable(s)})
        /\ faults' <= MaxFaults
        /\ pending' = left
        /\ LET repaired == Recovered({s.e : s \in pending \ left}, db)
           IN db' = OpenRun(Interrupted(repaired), Root, gen + 1)
  BY DEF Restart
<1>4. /\ gen <= MaxRestarts /\ gen' = gen + 1 /\ rootRun' = "live" /\ step' = "idle"
      /\ known' = {} /\ bound' = {} /\ unheard' = {}
  BY DEF Restart
<1>5. gen \in Nat /\ gen >= 1 /\ gen' \in Gens /\ gen' > 1 /\ MaxFaults \in Nat /\ faults \in Nat
  BY <1>1, <1>4, BoundsAssumption DEF StoreTyped, Gens
<1>6. db' \in Stores /\ \A c \in Children : db'[c].runs = {} /\ db'[c].task # "running"
  <2>1. PICK b \in Stores : b = db
    BY <1>1 DEF StoreTyped
  <2>2. PICK r \in Stores : r = Recovered({s.e : s \in pending \ left}, b)
    BY RecoveredIs
  <2>3. PICK n \in Gens : n = gen + 1
    BY <1>4, <1>5
  <2>4. db' = OpenRun(Interrupted(r), Root, n)
    BY <1>3, <2>1, <2>2, <2>3
  <2> QED
    BY <2>4, RestartedIs
<1>7. faults' \in 0 .. MaxFaults
  <2> DEFINE S == {s \in left : Recoverable(s)}
  <2>1. S = {} \/ \E s \in pending : S = {s}
    BY <1>1 DEF PendingInv
  <2>2. IsFiniteSet(S)
    BY <2>1, FS_EmptySet, FS_Singleton
  <2>3. Cardinality(S) \in Nat
    BY <2>2, FS_CardinalityType
  <2>4. faults' = faults + Cardinality(S) /\ faults' <= MaxFaults
    BY <1>3
  <2> HIDE DEF S
  <2> QED
    BY <1>5, <2>3, <2>4
<1>8. StoreTyped' /\ StepInv'
  BY <1>4, <1>5, <1>6, <1>7 DEF StoreTyped, StepInv
<1>9. PendingInv'
  <2>1. \A s \in pending : s \in [e : Event, gen : Gens] /\ InContext(s.e) /\ s.gen <= gen
    BY <1>1 DEF PendingInv
  <2>2. \A s \in pending : s.gen \in Nat /\ s.gen <= gen'
    BY <1>4, <1>5, <2>1 DEF Gens
  <2> QED
    BY <1>1, <1>3, <2>1, <2>2 DEF PendingInv, InContext
<1>10. Owed' = {}
  <2>1. \A s \in pending : s.gen # gen'
    <3> SUFFICES ASSUME NEW s \in pending PROVE s.gen # gen'
      OBVIOUS
    <3>1. s.gen \in Gens /\ s.gen <= gen
      BY <1>1 DEF PendingInv
    <3> QED
      BY <1>4, <1>5, <3>1 DEF Gens
  <2> QED
    BY <1>3, <1>4, <2>1 DEF Owed
<1>11. RecordInv'
  <2>1. ASSUME NEW c \in Children PROVE Recorded(c, db, known)'
    BY <1>4, <1>5, <1>6 DEF Recorded
  <2> QED
    BY <1>10, <2>1 DEF RecordInv
<1>12. ASSUME NEW c \in Children PROVE Final(c)
  <2>1. Unavailable(c) => rec'[c] = "gone" /\ ran'[c] = 0 /\ ran[c] \in Nat
    BY <1>1 DEF Unavailable, Restart, ManagerTyped
  <2> QED
    BY <2>1 DEF Final
<1> QED
  BY <1>2, <1>8, <1>9, <1>11, <1>12 DEF IInv

LEMMA InitOK ==
    ASSUME Init
    PROVE  IInv
<1>1. act = [c \in Children |-> [a \in Acts |-> "off"]]
  BY DEF Init
<1>2. /\ act \in [Children -> ActRecords]
      /\ \A c \in Children :
            /\ act[c].spawn = "off" /\ act[c].send = "off" /\ act[c].suspend = "off"
            /\ act[c].run = "off" /\ act[c].close = "off"
  BY <1>1 DEF ActRecords, Acts
<1>3. {MaxSends, MaxFaults, MaxRestarts} \subseteq Nat
  BY BoundsAssumption
<1>4. ManagerTyped
  BY <1>2, <1>3 DEF Init, ManagerTyped
<1>5. ASSUME NEW c \in Children PROVE ChildInv(c)
  <2>1. /\ rec[c] = "none" /\ agent[c] = "none" /\ lease[c] = "none" /\ ran[c] = 0 /\ sends = 0
    BY DEF Init
  <2>2. Credit(c) = 0
    BY <1>2 DEF Credit
  <2>3. ran[c] + Credit(c) <= sends + 1
    BY <2>1, <2>2
  <2> QED
    BY <1>2, <2>1, <2>3 DEF ChildInv, ClosesInOrder, Unavailable
<1>6. QueueInv(bus)
  BY DEF Init, QueueInv
<1>7. gen \in Gens /\ 1 \in Runs \cup Gens
  BY <1>3 DEF Init, Gens
<1>8. /\ db \in Stores
      /\ \A c \in Children : db[c].runs = {} /\ db[c].attempts = {} /\ db[c].task = "none"
  <2>1. /\ Blank \in Durable
        /\ [Blank EXCEPT !.session = "open", !.runs = {1}, !.attempts = {1}] \in Durable
    <3>1. {1} \in SUBSET (Runs \cup Gens) /\ {} \in SUBSET (Runs \cup Gens)
      BY <1>7
    <3>2. PICK x \in Durable : x = Blank
      <4>1. Blank.runs \in SUBSET (Runs \cup Gens) /\ 0 \in 0 .. 1
        BY DEF Blank
      <4>2. PICK R : R = SUBSET (Runs \cup Gens)
        OBVIOUS
      <4>3. {} \in R
        BY <4>2
      <4>4. Blank \in [session : {"none", "open", "archived"}, task : {"none", "running", "ended"},
                       runs : R, attempts : R, closed : 0 .. 1]
        BY <4>1, <4>3 DEF Blank
      <4> QED
        BY <4>2, <4>4 DEF Durable
    <3>3. [x EXCEPT !.session = "open", !.runs = {1}, !.attempts = {1}] \in Durable
      BY <3>1, <3>2 DEF Durable
    <3> QED
      BY <3>2, <3>3
  <2>2. Root \notin Children
    BY ChildrenAssumption
  <2> QED
    BY <2>1, <2>2 DEF Init, Blank, Stores, Sessions
<1>9. StoreTyped /\ StepInv /\ PendingInv
  BY <1>3, <1>7, <1>8 DEF Init, StoreTyped, StepInv, PendingInv
<1>10. Owed = {}
  BY DEF Init, Owed
<1>11. ASSUME NEW c \in Children PROVE Recorded(c, db, known)
  BY <1>8 DEF Init, Recorded
<1>12. RecordInv
  BY <1>10, <1>11 DEF RecordInv
<1> QED
  BY <1>4, <1>5, <1>6, <1>9, <1>12 DEF IInv, ManagerInv

-----------------------------------------------------------------------------
(* The theorems.                                                           *)

\* A step of the children or of the root's run.
LEMMA ActsOK ==
    ASSUME IInv,
           RootAborts \/ RootRunEnds
           \/ \E c \in Children : Spawn(c) \/ Send(c) \/ Suspend(c) \/ Close(c) \/ Goes(c)
    PROVE  IInv' /\ (\A d \in Children : Final(d)) /\ Framed
<1>1. ManagerInv /\ StoreTyped
  BY DEF IInv
<1>2. ManagerStep /\ Framed
  <2>1. CASE RootAborts \/ RootRunEnds
    BY <1>1, <2>1, RootActs
  <2>2. ASSUME NEW c \in Children, Spawn(c) \/ Send(c) \/ Suspend(c) \/ Close(c) \/ Goes(c)
        PROVE  ManagerStep /\ Framed
    BY <1>1, <2>2, ChildActs
  <2> QED
    BY <2>1, <2>2
<1> QED
  BY <1>2, ManagerSteps DEF ManagerStep

LEMMA NextOK ==
    ASSUME IInv, [Next]_vars
    PROVE  IInv' /\ [\A d \in Children : Final(d)]_vars
<1>1. CASE RootAborts \/ RootRunEnds
           \/ \E c \in Children : Spawn(c) \/ Send(c) \/ Suspend(c) \/ Close(c) \/ Goes(c)
  BY <1>1, ActsOK
<1>2. CASE Deliver
  BY <1>2, ReconcileOK, NotReconciledOK, ProjectOK, ProjectFailsOK, PersistOK, PersistFailsOK,
     SettleOK, SettleFailsOK DEF Deliver
<1>3. CASE Restart
  BY <1>3, RestartOK
<1>4. CASE UNCHANGED vars
  <2>1. IInv /\ UNCHANGED manager /\ UNCHANGED projector /\ gen' = gen /\ rootRun' = rootRun
        /\ bus' = bus /\ faults' = faults
    BY <1>4 DEF vars
  <2>2. ManagerInv /\ QueueInv(bus) /\ gen \in Gens /\ StoreTyped
    BY <2>1 DEF IInv, ManagerInv, StoreTyped
  <2>3. ManagerStep
    BY <2>1, <2>2, QuietManager
  <2>4. Framed
    BY <2>1, <2>2 DEF Framed, StoreTyped
  <2>5. IInv'
    BY <2>3, <2>4, ManagerSteps
  <2> QED
    BY <1>4, <2>5
<1> QED
  BY <1>1, <1>2, <1>3, <1>4 DEF Next

\* The inductive invariant holds throughout.
THEOREM Invariant == Spec => []IInv
<1>1. Init => IInv
  BY InitOK
<1>2. IInv /\ [Next]_vars => IInv'
  BY NextOK
<1> QED
  BY <1>1, <1>2, PTL DEF Spec

\* Every variable keeps its type, for any number of children, inputs, failures
\* and restarts: a child runs at most once for its spawn and once for each input
\* that was sent, and at most one agent.child.closed of it is stored.
THEOREM TypeCorrect == Spec => []TypeOK
<1>1. IInv => TypeOK
  <2> SUFFICES ASSUME IInv PROVE TypeOK
    OBVIOUS
  <2>1. ManagerTyped /\ (\A c \in Children : ChildInv(c)) /\ QueueInv(bus) /\ StoreTyped
        /\ StepInv /\ PendingInv
    BY DEF IInv, ManagerInv
  <2>2. \A c \in Children : ran[c] \in Runs \cup {0}
    <3> SUFFICES ASSUME NEW c \in Children PROVE ran[c] \in Runs \cup {0}
      OBVIOUS
    <3>1. ran[c] \in Nat /\ (ran[c] > 0 => ran[c] \in Runs)
      BY <2>1, RanBound
    <3> QED
      BY <3>1
  <2>3. ran \in [Children -> Runs \cup {0}]
    BY <2>1, <2>2 DEF ManagerTyped
  <2>4. act \in [Children -> ActRecords] /\ db \in Stores
    BY <2>1 DEF ManagerTyped, StoreTyped
  <2> QED
    BY <2>1, <2>3, <2>4
    DEF TypeOK, ManagerTyped, ActRecords, StoreTyped, Stores, Durable, Sessions, QueueInv, StepInv,
        PendingInv
<1> QED
  BY <1>1, Invariant, PTL

\* However a failed start, a close, a suspension and an input under way meet,
\* the environment of a child is given back only when nothing works in it, and a
\* child whose record is deleted leaves nothing behind.
THEOREM NothingIsLeft == Spec => []GoneLeavesNothing
<1>1. IInv => GoneLeavesNothing
  <2> SUFFICES ASSUME IInv, NEW c \in Children
               PROVE  /\ lease[c] = "released" => agent[c] = "none" /\ act[c].run = "off"
                      /\ rec[c] = "gone" =>
                            /\ agent[c] = "none" /\ lease[c] = "none" /\ c \notin active
                            /\ act[c].run = "off" /\ act[c].suspend = "off"
    BY DEF GoneLeavesNothing
  <2>1. ChildInv(c)
    BY DEF IInv, ManagerInv
  <2> QED
    BY <2>1 DEF ChildInv, ClosesInOrder
<1> QED
  BY <1>1, Invariant, PTL

\* A child whose close has begun never works again: no creation, resume, settled
\* run or follow-up input that was waiting brings it back.
THEOREM ClosedForGood == Spec => CloseIsFinal
<1> DEFINE A == \A c \in Children : Unavailable(c) =>
                   /\ rec'[c] \in {"closing", "closed", "gone"}
                   /\ ran'[c] <= ran[c]
<1>1. IInv /\ [Next]_vars => [A]_vars
  BY NextOK DEF Final
<1>2. Spec => [][A]_vars
  BY <1>1, Invariant, PTL DEF Spec
<1> QED
  BY <1>2 DEF CloseIsFinal

\* While a settlement stays pending no event behind it reaches the store.
THEOREM SettlementsComeFirst == Spec => NoOvertake
<1> DEFINE B(s) == /\ \A c \in Children \ {s.e.c} : db'[c] = db[c]
                   /\ db'[s.e.c].runs \subseteq db[s.e.c].runs
                   /\ db[s.e.c].task = "ended" =>
                         db'[s.e.c].task = "ended" \/ (StartsUp(s.e) /\ s.e.c \in bound')
           A == \A s \in pending \cap pending' : gen' = gen => B(s)
<1>1. ASSUME IInv, [Next]_vars, NEW s \in pending \cap pending', gen' = gen
      PROVE  B(s)
  <2>1. StoreTyped /\ StepInv /\ PendingInv
    BY <1>1 DEF IInv
  <2>2. s.e \in Event /\ InContext(s.e) /\ pending = {s} /\ gen \in Nat /\ db \in Stores
        /\ bound \subseteq Children
    BY <1>1, <2>1 DEF PendingInv, StoreTyped, Gens
  <2>3. ASSUME SettledPartly(s.e), known' = known PROVE B(s)
    <3>1. PICK b \in Stores : b = db
      BY <2>2
    <3>2. PICK f : f = db'
      OBVIOUS
    <3>4. /\ \A c \in Children \ {s.e.c} : f[c] = b[c]
          /\ f[s.e.c].runs \subseteq b[s.e.c].runs
          /\ b[s.e.c].task = "ended" =>
                f[s.e.c].task = "ended" \/ (StartsUp(s.e) /\ s.e.c \in bound')
      BY <2>2, <2>3, <3>1, <3>2, PartlyIs
    <3> QED
      BY <3>1, <3>2, <3>4
  <2>4. ASSUME db' = db PROVE B(s)
    BY <2>4
  <2> HIDE DEF B
  <2>5. CASE RootAborts \/ RootRunEnds
             \/ \E c \in Children : Spawn(c) \/ Send(c) \/ Suspend(c) \/ Close(c) \/ Goes(c)
    BY <1>1, <2>4, <2>5, ActsOK DEF Framed, projector
  <2>6. CASE UNCHANGED vars
    BY <2>4, <2>6 DEF vars, projector
  <2>7. CASE Restart
    BY <1>1, <2>2, <2>7 DEF Restart
  <2>8. CASE Reconcile
    <3>1. PICK r \in pending : pending' = pending \ {r}
      BY <2>8 DEF Reconcile
    <3> QED
      BY <1>1, <2>2, <3>1
  <2>9. CASE NotReconciled
    <3>1. PICK r \in pending : SettledPartly(r.e) \/ db' = db
      BY <2>9 DEF NotReconciled
    <3>2. known' = known
      BY <2>9 DEF NotReconciled
    <3> QED
      BY <2>2, <2>3, <2>4, <3>1, <3>2
  <2>10. CASE Project \/ ProjectFails
    BY <2>2, <2>10 DEF Project, ProjectFails
  <2>11. CASE Persist \/ PersistFails
    BY <2>4, <2>11 DEF Persist, PersistFails
  <2>12. CASE Settle \/ SettleFails
    <3>1. step = "settling"
      BY <2>12 DEF Settle, SettleFails
    <3>2. s = [e |-> Head(bus), gen |-> gen] /\ s.e = Head(bus)
      BY <2>1, <2>2, <3>1 DEF StepInv
    <3>3. CASE Settle
      BY <1>1, <3>2, <3>3 DEF Settle
    <3>4. CASE SettleFails
      BY <2>3, <3>2, <3>4 DEF SettleFails
    <3> QED
      BY <2>12, <3>3, <3>4
  <2> QED
    BY <1>1, <2>5, <2>6, <2>7, <2>8, <2>9, <2>10, <2>11, <2>12 DEF Next, Deliver
<1>2. IInv /\ [Next]_vars => [A]_vars
  BY <1>1
<1>3. Spec => [][A]_vars
  <2> HIDE DEF A
  <2> QED
    BY <1>2, Invariant, PTL DEF Spec
<1> QED
  BY <1>3 DEF NoOvertake

\* A child that is gone, and of whom no event was dropped or is still to be
\* settled, is gone in the store too.
THEOREM GoneInTheStore == Spec => []GoneIsRecorded
<1>1. IInv => GoneIsRecorded
  <2> SUFFICES ASSUME IInv, NEW c \in Children, rec[c] = "gone", c \notin unheard,
                      \A s \in pending : s.e.c # c
               PROVE  /\ db[c].task # "running" /\ db[c].runs = {}
                      /\ db[c].attempts = {} \/ gen > 1
                      /\ c \notin known
    BY DEF GoneIsRecorded
  <2>1. ManagerInv /\ ChildInv(c) /\ StepInv /\ StoreTyped
    BY DEF IInv, ManagerInv
  <2>2. act[c].close = "done" /\ act[c].run = "off"
    BY <2>1 DEF ChildInv, ClosesInOrder
  <2>3. step = "failed" => Head(bus).c # c
    <3> SUFFICES ASSUME step = "failed", Head(bus).c = c PROVE FALSE
      OBVIOUS
    <3>1. bus # << >>
      BY <2>1 DEF StepInv
    <3>2. Told(Head(bus))
      BY <2>1, <3>1, HeadTold
    <3> QED
      BY <2>2, <3>2 DEF Told
  <2>4. \A e \in Owed : e.c # c
    BY <2>3 DEF Owed
  <2>5. Recorded(c, db, known)
    BY <2>4 DEF IInv, RecordInv
  <2>6. gen = 1 \/ gen > 1
    BY <2>1 DEF StoreTyped, Gens
  <2> QED
    BY <2>2, <2>5, <2>6 DEF Recorded
<1> QED
  BY <1>1, Invariant, PTL

==============================================================================
