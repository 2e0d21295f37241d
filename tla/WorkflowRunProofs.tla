-------------------------- MODULE WorkflowRunProofs --------------------------
(***************************************************************************)
(* Proofs about WorkflowRun for every plan that satisfies the assumptions, *)
(* any number of cancellations and any number of crashes.                  *)
(***************************************************************************)
EXTENDS WorkflowRun, WellFoundedInduction, TLAPS

-----------------------------------------------------------------------------
(* The pass along the order.                                               *)

\* A set of numbers has a least one: induction, for sets.
LEMMA LeastNumber ==
    ASSUME NEW N, N \subseteq Nat, N # {}
    PROVE  \E n \in N : \A m \in N : n <= m
<1> DEFINE R == {p \in Nat \X Nat : p[1] < p[2]}
<1>1. IsWellFoundedOn(R, Nat)
  BY NatLessThanWellFounded DEF OpToRel
<1>2. PICK n \in N : \A m \in N : <<m, n>> \notin R
  <2> HIDE DEF R
  <2> QED
    BY <1>1, WFMin
<1>3. ASSUME NEW m \in N PROVE n <= m
  <2>1. <<m, n>> \notin R /\ <<m, n>> \in Nat \X Nat
    BY <1>2
  <2>2. ~(m < n)
    BY <2>1
  <2> QED
    BY <2>2
<1> QED
  BY <1>3

LEMMA OrderIsSequence ==
    /\ Len(Order) \in Nat
    /\ \A i \in 1..Len(Order) : Order[i] \in Tasks
  BY OrderAssumption

\* What a pass makes of the i-th task.
Swept(i, ts, takes) == IF Order[i] \in takes[ts] THEN ts \cup {Order[i]} ELSE ts

\* The recursive definition of the pass defines it.
LEMMA SweepIsDefined ==
    ASSUME NEW collected, NEW takes
    PROVE  Sweep(collected, takes) =
             [i \in 0..Len(Order) |-> IF i = 0 THEN collected
                ELSE Swept(i, Sweep(collected, takes)[i - 1], takes)]
<1> DEFINE Defined(n) ==
             \E g : g = [i \in 0..n |-> IF i = 0 THEN collected
                                       ELSE Swept(i, g[i - 1], takes)]
           Bad == {n \in Nat : ~Defined(n)}
<1>1. Bad = {}
  <2> SUFFICES ASSUME Bad # {} PROVE FALSE
    OBVIOUS
  <2>1. PICK n \in Bad : \A m \in Bad : n <= m
    BY LeastNumber
  <2>2. Defined(0)
    <3>1. [i \in 0..0 |-> collected] =
            [i \in 0..0 |-> IF i = 0 THEN collected
                           ELSE Swept(i, [j \in 0..0 |-> collected][i - 1], takes)]
      OBVIOUS
    <3> QED
      BY <3>1
  <2>3. n \in Nat /\ n # 0
    BY <2>1, <2>2
  <2>4. Defined(n - 1)
    <3> HIDE DEF Defined
    <3>1. n - 1 \in Nat /\ ~(n <= n - 1)
      BY <2>3
    <3> QED
      BY <2>1, <3>1
  <2>5. PICK g : g = [i \in 0..(n - 1) |-> IF i = 0 THEN collected
                                          ELSE Swept(i, g[i - 1], takes)]
    BY <2>4
  <2> DEFINE h == [i \in 0..n |-> IF i < n THEN g[i] ELSE Swept(n, g[n - 1], takes)]
  <2>6. h = [i \in 0..n |-> IF i = 0 THEN collected ELSE Swept(i, h[i - 1], takes)]
    <3> SUFFICES ASSUME NEW i \in 0..n
                 PROVE  h[i] = IF i = 0 THEN collected ELSE Swept(i, h[i - 1], takes)
      OBVIOUS
    <3>1. CASE i < n
      BY <3>1, <2>3, <2>5
    <3>2. CASE i = n
      BY <3>2, <2>3
    <3> QED
      BY <3>1, <3>2, <2>3
  <2>7. Defined(n)
    <3> HIDE DEF h
    <3> QED
      BY <2>6
  <2> QED
    BY <2>1, <2>7
<1>2. Defined(Len(Order))
  BY <1>1, OrderIsSequence
<1> QED
  BY <1>2 DEF Sweep, Swept

\* What holds of the tasks collected so far, and is kept by each that is added,
\* holds in the end.
LEMMA SweepInduction ==
    ASSUME NEW collected, NEW takes, NEW Good, collected \in Good,
           \A ts \in Good, t \in Tasks : t \in takes[ts] => ts \cup {t} \in Good
    PROVE  Sweep(collected, takes)[Len(Order)] \in Good
<1> DEFINE sweep == Sweep(collected, takes)
           Bad == {n \in 0..Len(Order) : sweep[n] \notin Good}
<1>1. \A i \in 0..Len(Order) : sweep[i] = IF i = 0 THEN collected
                                          ELSE Swept(i, sweep[i - 1], takes)
  BY SweepIsDefined
<1>2. Bad = {}
  <2> HIDE DEF sweep
  <2> SUFFICES ASSUME Bad # {} PROVE FALSE
    OBVIOUS
  <2>1. PICK n \in Bad : \A m \in Bad : n <= m
    <3>1. Bad \subseteq Nat
      BY OrderIsSequence
    <3> HIDE DEF Bad
    <3> QED
      BY <3>1, LeastNumber
  <2>2. n \in 1..Len(Order)
    <3>1. sweep[0] = collected
      BY <1>1, OrderIsSequence
    <3> QED
      BY <2>1, <3>1, OrderIsSequence
  <2>3. sweep[n - 1] \in Good
    BY <2>1, <2>2, OrderIsSequence
  <2>4. sweep[n] = Swept(n, sweep[n - 1], takes)
    BY <1>1, <2>2
  <2> QED
    BY <2>1, <2>2, <2>3, <2>4, OrderIsSequence DEF Swept
<1> QED
  BY <1>2, OrderIsSequence

-----------------------------------------------------------------------------
(* The invariant.                                                          *)

\* What a state of the scheduler is, whatever has been decided so far.
Sane(S) ==
    /\ S \in Locals
    /\ S.ready \subseteq Unstarted(S)
    /\ \A t \in Active(S) : /\ S.results[t] = "none"
                           /\ S.known[t] \in 0..S.attempt[t]
                           /\ S.attempt[t] \in 1..Attempts[t]
    /\ \A t \in Unstarted(S) : S.attempt[t] = 0
    /\ \A t, u \in Active(S) : t # u => <<t, u>> \notin Conflicts

\* Nobody has asked it to stop, and it has skipped and queued what it should.
Lawful(S) ==
    S.stop = "no" => SkipsEarned(S.results) /\ \A t \in S.ready : Satisfied(S, t)

\* It has settled when all its tasks have a result.
Complete(S) == S.st \in {"settled", "over"} => \A t \in Tasks : S.results[t] # "none"

SchedulerInv == Sane(run) /\ Lawful(run) /\ Complete(run)

\* No worker is ahead of its task, and one that has been left behind is one
\* of a task with a hard timeout.
WorkerInv ==
    /\ worker \in [Slots -> {"none", "spawning", "alive"} \cup Ended]
    /\ \A s \in Slots : worker[s] # "none" => s[2] <= run.attempt[s[1]]
    /\ \A s \in Busy : GivenUp(s) => s[1] \in Timed

Snapshot == [status : {"absent", "running", "completed", "failed", "cancelled"},
             results : [Tasks -> Results], known : [Tasks -> Int]]

\* The workers of the snapshot are not known, or gone.
NoWorkersIn(snap) == \A t \in Tasks : snap.known[t] \in {Idle, Unknown}

\* The store, those who work on what they have read of it, and what a process
\* begins with.
StoreInv ==
    /\ stored \in Snapshot
    /\ stored.status = "absent" => stored.results = NoResults /\ run.st = "idle"
    /\ run.st \in {"going", "settled"} /\ run.stop = "no" =>
          /\ stored = Going(run)
          /\ \A c \in Cancels : cancel[c].at # "stopping"
    /\ ~up => run.st = "idle"
    /\ run.st = "idle" => /\ run = NoRun
                          /\ worker = NoWorkers
                          /\ NoWorkersIn(stored)

\* A cancellation has read what was stored, unless another has overwritten it.
CancelInv ==
    /\ cancel \in [Cancels -> [at : {"idle", "loaded", "stopping", "done"},
                               snap : Snapshot, todo : SUBSET Slots]]
    /\ \A c \in Cancels :
          cancel[c].at \in {"loaded", "stopping"} =>
              LET snap == cancel[c].snap
              IN  /\ snap.status = "running"
                  /\ \/ stored.status = "cancelled"
                     \/ \A t \in Tasks : snap.results[t] # "none" =>
                                             stored.results[t] = snap.results[t]
                  /\ run.st = "idle" => cancel[c].at = "loaded" /\ NoWorkersIn(snap)

IInv == /\ plan \in Plans /\ up \in BOOLEAN /\ crashes \in 0..MaxCrashes
        /\ SchedulerInv /\ WorkerInv /\ StoreInv /\ CancelInv /\ OutcomesEarned

-----------------------------------------------------------------------------
(* What the scheduler does between two awaits, step by step.               *)

\* The scheduler goes on, in order.
Stage(S) == Sane(S) /\ Lawful(S) /\ S.st = "going"

KeepsTask(S, R, t) == R.known[t] = S.known[t] /\ R.attempt[t] = S.attempt[t]

StartsTask(S, R, t) ==
    /\ t \in Unstarted(S)
    /\ R.known[t] = Unknown /\ R.attempt[t] = 1
    /\ R.stop = "no" /\ Satisfied(R, t)

\* From S to R no result is changed, and a task is kept or started as it should.
Proceeds(S, R) ==
    /\ R.stop = S.stop /\ R.heeds = S.heeds
    /\ \A t \in Tasks : S.results[t] # "none" => R.results[t] = S.results[t]
    /\ \A t \in Tasks : KeepsTask(S, R, t) \/ StartsTask(S, R, t)

LEMMA SatisfiedGrows ==
    ASSUME NEW S \in Locals, NEW R \in Locals, NEW t \in Tasks, Deps[t] \subseteq Tasks,
           \A u \in Tasks : S.results[u] # "none" => R.results[u] = S.results[u],
           Satisfied(S, t)
    PROVE  Satisfied(R, t)
  BY DEF Satisfied, Locals

LEMMA DepsAreTasks == \A t \in Tasks : Deps[t] \subseteq Tasks
<1> SUFFICES ASSUME NEW t \in Tasks, NEW d \in Deps[t] PROVE d \in Tasks
  OBVIOUS
<1>1. PICK i \in 1..Len(Order) : Deps[t] \subseteq {Order[j] : j \in 1..(i - 1)}
  BY OrderAssumption
<1>2. PICK j \in 1..(i - 1) : d = Order[j]
  BY <1>1
<1>3. j \in 1..Len(Order)
  BY OrderIsSequence
<1> QED
  BY <1>2, <1>3, OrderIsSequence

LEMMA ProceedsTransitive ==
    ASSUME NEW S \in Locals, NEW R \in Locals, NEW Q \in Locals,
           Proceeds(S, R), Proceeds(R, Q)
    PROVE  Proceeds(S, Q)
<1>1. \A t \in Tasks : S.results[t] # "none" => Q.results[t] = S.results[t]
  BY DEF Proceeds
<1>2. ASSUME NEW t \in Tasks PROVE KeepsTask(S, Q, t) \/ StartsTask(S, Q, t)
  <2>1. CASE KeepsTask(S, R, t) /\ KeepsTask(R, Q, t)
    BY <2>1 DEF KeepsTask
  <2>2. CASE KeepsTask(S, R, t) /\ StartsTask(R, Q, t)
    BY <2>2 DEF KeepsTask, StartsTask, Unstarted, Proceeds
  <2>3. CASE StartsTask(S, R, t) /\ KeepsTask(R, Q, t)
    BY <2>3, SatisfiedGrows, DepsAreTasks DEF KeepsTask, StartsTask, Proceeds
  <2>4. CASE StartsTask(S, R, t) /\ StartsTask(R, Q, t)
    BY <2>4 DEF StartsTask, Unstarted, Unknown, Idle
  <2> QED
    BY <2>1, <2>2, <2>3, <2>4 DEF Proceeds
<1> QED
  BY <1>1, <1>2 DEF Proceeds

LEMMA SkipOK ==
    ASSUME NEW S, Stage(S), NEW ts \in SUBSET Unstarted(S),
           S.stop = "no" => SkipsEarned(Skip(S, ts).results)
    PROVE  Stage(Skip(S, ts)) /\ Proceeds(S, Skip(S, ts))
<1> DEFINE R == Skip(S, ts)
<1>1. S \in Locals /\ R \in Locals
  <2>1. S \in Locals
    BY DEF Stage, Sane
  <2>2. [t \in Tasks |-> IF t \in ts THEN "skipped" ELSE S.results[t]] \in [Tasks -> Results]
    BY <2>1 DEF Locals, Results
  <2>3. S.ready \ ts \in SUBSET Tasks
    BY <2>1 DEF Locals
  <2> QED
    BY <2>1, <2>2, <2>3 DEF Skip, Locals
<1>2. /\ R.st = S.st /\ R.stop = S.stop /\ R.heeds = S.heeds
      /\ R.known = S.known /\ R.attempt = S.attempt /\ R.ready = S.ready \ ts
      /\ \A t \in Tasks : R.results[t] = IF t \in ts THEN "skipped" ELSE S.results[t]
  BY <1>1 DEF Skip, Locals
<1> HIDE DEF R
<1>3. Unstarted(R) = Unstarted(S) \ ts /\ Active(R) = Active(S)
  BY <1>2 DEF Unstarted, Active
<1>4. \A t \in Tasks : S.results[t] # "none" => R.results[t] = S.results[t]
  BY <1>2 DEF Unstarted
<1>5. Proceeds(S, R)
  BY <1>2, <1>4 DEF Proceeds, KeepsTask
<1>6. Sane(R)
  BY <1>1, <1>2, <1>3 DEF Stage, Sane, Active, Unstarted
<1>7. Lawful(R)
  <2> SUFFICES ASSUME R.stop = "no" PROVE SkipsEarned(R.results) /\ \A t \in R.ready : Satisfied(R, t)
    BY DEF Lawful
  <2>1. \A t \in S.ready : t \in Tasks /\ Satisfied(S, t)
    BY <1>2 DEF Stage, Lawful, Sane, Locals
  <2>2. \A t \in R.ready : Satisfied(R, t)
    BY <1>1, <1>2, <1>4, <2>1, SatisfiedGrows, DepsAreTasks
  <2> QED
    BY <1>2, <2>2 DEF R
<1> QED
  BY <1>2, <1>5, <1>6, <1>7 DEF Stage, R

LEMMA StartOK ==
    ASSUME NEW S, Stage(S), S.stop = "no", NEW ts \in SUBSET S.ready,
           \A t \in ts, u \in ts \cup Active(S) : t # u => <<t, u>> \notin Conflicts
    PROVE  Stage(Start(S, ts)) /\ Proceeds(S, Start(S, ts))
<1> DEFINE R == Start(S, ts)
<1>1. S \in Locals /\ R \in Locals
  <2>1. S \in Locals
    BY DEF Stage, Sane
  <2>2. [t \in Tasks |-> IF t \in ts THEN Unknown ELSE S.known[t]] \in [Tasks -> Int]
    BY <2>1 DEF Locals, Unknown
  <2>3. [t \in Tasks |-> IF t \in ts THEN 1 ELSE S.attempt[t]] \in [Tasks -> Nat]
    BY <2>1 DEF Locals
  <2>4. S.ready \ ts \in SUBSET Tasks
    BY <2>1 DEF Locals
  <2> QED
    BY <2>1, <2>2, <2>3, <2>4 DEF Start, Locals
<1>2. /\ R.st = S.st /\ R.stop = S.stop /\ R.heeds = S.heeds
      /\ R.results = S.results /\ R.ready = S.ready \ ts
      /\ \A t \in Tasks : /\ R.known[t] = IF t \in ts THEN Unknown ELSE S.known[t]
                          /\ R.attempt[t] = IF t \in ts THEN 1 ELSE S.attempt[t]
  BY <1>1 DEF Start, Locals
<1>3. ts \subseteq Unstarted(S) /\ ts \subseteq Tasks
  BY DEF Stage, Sane, Unstarted
<1> HIDE DEF R
<1>4. Unstarted(R) = Unstarted(S) \ ts /\ Active(R) = Active(S) \cup ts
  BY <1>2, <1>3 DEF Unstarted, Active, Unknown, Idle
<1>5. \A t \in S.ready : Satisfied(R, t)
  BY <1>2 DEF Stage, Lawful, Satisfied
<1>6. Proceeds(S, R)
  BY <1>2, <1>3, <1>5 DEF Proceeds, KeepsTask, StartsTask
<1>7. Sane(R)
  <2>1. R.ready \subseteq Unstarted(R)
    BY <1>2, <1>4 DEF Stage, Sane
  <2>2. ASSUME NEW t \in Active(R)
        PROVE  /\ R.results[t] = "none" /\ R.known[t] \in 0..R.attempt[t]
               /\ R.attempt[t] \in 1..Attempts[t]
    <3>1. CASE t \in ts
      <4>1. Attempts[t] \in Nat \ {0} /\ t \in Tasks
        BY <1>3, <3>1, RetryAssumption
      <4> QED
        BY <1>2, <1>3, <3>1, <4>1 DEF Unstarted, Unknown
    <3>2. CASE t \notin ts
      BY <1>2, <1>4, <3>2 DEF Stage, Sane, Active
    <3> QED
      BY <3>1, <3>2
  <2>3. \A t \in Unstarted(R) : R.attempt[t] = 0
    BY <1>2, <1>4 DEF Stage, Sane, Unstarted
  <2>4. ASSUME NEW t \in Active(R), NEW u \in Active(R), t # u
        PROVE  <<t, u>> \notin Conflicts
    BY <1>3, <1>4, <2>4, ConflictsAssumption DEF Stage, Sane, Active
  <2> QED
    BY <1>1, <2>1, <2>2, <2>3, <2>4 DEF Sane
<1>8. Lawful(R)
  BY <1>2, <1>5 DEF Stage, Lawful
<1> QED
  BY <1>2, <1>6, <1>7, <1>8 DEF Stage, R

LEMMA FailFastOK ==
    ASSUME NEW S, Stage(S)
    PROVE  LET R == [S EXCEPT !.failFast = TRUE] IN Stage(R) /\ Proceeds(S, R)
<1> DEFINE R == [S EXCEPT !.failFast = TRUE]
<1>1. S \in Locals /\ R \in Locals
  BY DEF Stage, Sane, Locals
<1>2. /\ R.st = S.st /\ R.stop = S.stop /\ R.heeds = S.heeds /\ R.results = S.results
      /\ R.known = S.known /\ R.attempt = S.attempt /\ R.ready = S.ready
  BY <1>1 DEF Locals
<1> HIDE DEF R
<1>3. Unstarted(R) = Unstarted(S) /\ Active(R) = Active(S)
  BY <1>2 DEF Unstarted, Active
<1>4. Sane(R)
  BY <1>1, <1>2, <1>3 DEF Stage, Sane
<1>5. Lawful(R)
  BY <1>2 DEF Stage, Lawful, Satisfied
<1>6. Proceeds(S, R)
  BY <1>2 DEF Proceeds, KeepsTask
<1> QED
  BY <1>2, <1>4, <1>5, <1>6 DEF Stage, R

\* Every task that is skipped after a failure depends on one that has failed or
\* is skipped with it.
LEMMA DownstreamDepends ==
    ASSUME NEW S \in Locals, NEW failed \in SUBSET Tasks
    PROVE  /\ Downstream(S, failed) \subseteq Unstarted(S)
           /\ \A t \in Downstream(S, failed) :
                 \E d \in Deps[t] : d \in failed \cup Downstream(S, failed)
<1> DEFINE takes == [ts \in SUBSET Tasks |-> {t \in Unstarted(S) : Deps[t] \cap ts # {}}]
           Good == {ts \in SUBSET Tasks :
                      /\ failed \subseteq ts
                      /\ \A t \in ts \ failed : t \in Unstarted(S) /\ Deps[t] \cap ts # {}}
           last == Sweep(failed, takes)[Len(Order)]
<1>1. failed \in Good
  OBVIOUS
<1>2. ASSUME NEW ts \in Good, NEW t \in Tasks, t \in takes[ts]
      PROVE  ts \cup {t} \in Good
  <2>1. t \in Unstarted(S) /\ Deps[t] \cap ts # {}
    BY <1>2
  <2> QED
    BY <2>1
<1>3. last \in Good
  <2> HIDE DEF Good, takes
  <2> QED
    BY <1>1, <1>2, SweepInduction
<1>4. Downstream(S, failed) = last \ failed
  BY DEF Downstream
<1> HIDE DEF last
<1> QED
  BY <1>3, <1>4

LEMMA AfterFailureOK ==
    ASSUME NEW S, Stage(S), plan \in Plans, NEW failed \in SUBSET Tasks, failed # {},
           \A t \in failed : S.results[t] \in {"failed", "killed", "skipped"},
           plan.policy = "fail-fast" =>
               \E t \in Tasks : S.results[t] \in {"failed", "killed"}
    PROVE  Stage(AfterFailure(failed)[S]) /\ Proceeds(S, AfterFailure(failed)[S])
<1>1. S \in Locals
  BY DEF Stage, Sane
<1>2. CASE plan.policy = "fail-fast"
  <2> DEFINE R == Skip(S, Unstarted(S))
  <2>1. Unstarted(S) \in SUBSET Unstarted(S)
    OBVIOUS
  <2>2. \A t \in Tasks : S.results[t] # "none" => R.results[t] = S.results[t]
    BY <1>1 DEF Skip, Locals, Unstarted
  <2>3. SkipsEarned(R.results)
    BY <1>2, <2>2 DEF SkipsEarned
  <2>4. Stage(R) /\ Proceeds(S, R)
    BY <2>1, <2>3, SkipOK
  <2> HIDE DEF R
  <2>5. R \in Locals /\ [R EXCEPT !.failFast = TRUE] \in Locals
    BY <2>4 DEF Stage, Sane, Locals
  <2>6. Stage([R EXCEPT !.failFast = TRUE]) /\ Proceeds(S, [R EXCEPT !.failFast = TRUE])
    BY <1>1, <2>4, <2>5, FailFastOK, ProceedsTransitive
  <2>7. AfterFailure(failed)[S] = [R EXCEPT !.failFast = TRUE]
    BY <1>1, <1>2 DEF AfterFailure, R
  <2> QED
    BY <2>6, <2>7
<1>3. CASE plan.policy = "skip-dependents"
  <2> DEFINE ts == Downstream(S, failed)
             R == Skip(S, ts)
  <2>1. /\ ts \subseteq Unstarted(S)
        /\ \A t \in ts : \E d \in Deps[t] : d \in failed \cup ts
    BY <1>1, DownstreamDepends
  <2> HIDE DEF ts
  <2>2. \A t \in Tasks : R.results[t] = IF t \in ts THEN "skipped" ELSE S.results[t]
    BY <1>1 DEF Skip, Locals
  <2>3. \A t \in Tasks : S.results[t] # "none" => R.results[t] = S.results[t]
    BY <2>1, <2>2 DEF Unstarted
  <2>4. \A t \in failed \cup ts : R.results[t] \in {"failed", "killed", "skipped"}
    BY <2>1, <2>2, <2>3 DEF Unstarted
  <2>5. ASSUME S.stop = "no" PROVE SkipsEarned(R.results)
    <3> SUFFICES ASSUME NEW t \in Tasks, R.results[t] = "skipped"
                 PROVE  \E d \in Deps[t] : R.results[d] \in {"failed", "killed", "skipped"}
      BY <1>3 DEF SkipsEarned
    <3>1. CASE t \in ts
      BY <2>1, <2>4, <3>1
    <3>2. CASE t \notin ts
      <4>1. S.results[t] = "skipped"
        BY <2>2, <3>2
      <4>2. PICK d \in Deps[t] : S.results[d] \in {"failed", "killed", "skipped"}
        BY <1>3, <2>5, <4>1 DEF Stage, Lawful, SkipsEarned
      <4>3. d \in Tasks
        BY DepsAreTasks
      <4> QED
        BY <2>3, <4>2, <4>3
    <3> QED
      BY <3>1, <3>2
  <2>6. AfterFailure(failed)[S] = R
    BY <1>1, <1>3 DEF AfterFailure, ts
  <2> QED
    BY <2>1, <2>5, <2>6, SkipOK
<1>4. CASE plan.policy = "continue"
  <2>1. AfterFailure(failed)[S] = S
    BY <1>1, <1>4 DEF AfterFailure
  <2> QED
    BY <2>1 DEF Proceeds, KeepsTask
<1> QED
  BY <1>2, <1>3, <1>4, PlansAssumption DEF Policies

LEMMA ReadyOK ==
    ASSUME NEW S, Stage(S), NEW ts \in SUBSET Unstarted(S), \A t \in ts : Satisfied(S, t)
    PROVE  LET R == [S EXCEPT !.ready = @ \cup ts] IN Stage(R) /\ Proceeds(S, R)
<1> DEFINE R == [S EXCEPT !.ready = @ \cup ts]
<1>1. S \in Locals /\ R \in Locals
  BY DEF Stage, Sane, Locals, Unstarted
<1>2. /\ R.st = S.st /\ R.stop = S.stop /\ R.heeds = S.heeds /\ R.results = S.results
      /\ R.known = S.known /\ R.attempt = S.attempt /\ R.ready = S.ready \cup ts
  BY <1>1 DEF Locals
<1> HIDE DEF R
<1>3. Unstarted(R) = Unstarted(S) /\ Active(R) = Active(S)
  BY <1>2 DEF Unstarted, Active
<1>4. Sane(R)
  BY <1>1, <1>2, <1>3 DEF Stage, Sane
<1>5. Lawful(R)
  BY <1>2 DEF Stage, Lawful, Satisfied
<1>6. Proceeds(S, R)
  BY <1>2 DEF Proceeds, KeepsTask
<1> QED
  BY <1>2, <1>4, <1>5, <1>6 DEF Stage, R

LEMMA PushDependentsOK ==
    ASSUME NEW S, Stage(S), NEW t \in Tasks
    PROVE  Stage(PushDependents(t)[S]) /\ Proceeds(S, PushDependents(t)[S])
<1> DEFINE ts == {d \in Unstarted(S) : t \in Deps[d] /\ Satisfied(S, d)}
<1>1. S \in Locals
  BY DEF Stage, Sane
<1>2. PushDependents(t)[S] = IF S.failFast THEN S ELSE [S EXCEPT !.ready = @ \cup ts]
  BY <1>1 DEF PushDependents
<1>3. CASE S.failFast
  BY <1>2, <1>3 DEF Proceeds, KeepsTask
<1>4. CASE ~S.failFast
  <2>1. ts \in SUBSET Unstarted(S) /\ \A d \in ts : Satisfied(S, d)
    OBVIOUS
  <2> HIDE DEF ts
  <2> QED
    BY <1>2, <1>4, <2>1, ReadyOK
<1> QED
  BY <1>3, <1>4

\* Those that scheduleMore chooses conflict with no task that runs and not with
\* one another.
LEMMA ChosenFit ==
    ASSUME NEW S, Stage(S)
    PROVE  /\ Chosen(S) \subseteq S.ready
           /\ \A t \in Chosen(S), u \in Chosen(S) \cup Active(S) :
                 t # u => <<t, u>> \notin Conflicts
<1> DEFINE takes == [ts \in SUBSET Tasks |-> {t \in S.ready : Fits(S, ts, t)}]
           Good == {ts \in SUBSET S.ready :
                      \A t \in ts, u \in ts \cup Active(S) : t # u => <<t, u>> \notin Conflicts}
<1>1. S.ready \subseteq Tasks
  BY DEF Stage, Sane, Locals
<1>2. {} \in Good
  OBVIOUS
<1>3. ASSUME NEW ts \in Good, NEW t \in Tasks, t \in takes[ts]
      PROVE  ts \cup {t} \in Good
  <2>1. ts \in SUBSET Tasks
    BY <1>1
  <2>2. t \in S.ready /\ Fits(S, ts, t)
    BY <1>3, <2>1
  <2>3. \A u \in Active(S) \cup ts : <<t, u>> \notin Conflicts
    BY <2>2 DEF Fits
  <2>4. \A u \in ts : <<u, t>> \notin Conflicts
    BY <2>1, <2>3, ConflictsAssumption
  <2> QED
    BY <2>2, <2>3, <2>4
<1>4. Chosen(S) \in Good
  <2> HIDE DEF Good, takes
  <2>1. Sweep({}, takes)[Len(Order)] \in Good
    BY <1>2, <1>3, SweepInduction
  <2> QED
    BY <2>1 DEF Chosen, takes
<1> QED
  BY <1>4

LEMMA ScheduleMoreOK ==
    ASSUME NEW S, Stage(S)
    PROVE  Stage(ScheduleMore[S]) /\ Proceeds(S, ScheduleMore[S])
<1>1. ScheduleMore[S] = IF S.failFast THEN S
                        ELSE IF S.stop # "no" THEN Skip(S, Unstarted(S))
                        ELSE Start(S, Chosen(S))
  BY DEF ScheduleMore, Stage, Sane
<1>2. CASE S.failFast
  BY <1>1, <1>2 DEF Proceeds, KeepsTask
<1>3. CASE ~S.failFast /\ S.stop # "no"
  BY <1>1, <1>3, SkipOK
<1>4. CASE ~S.failFast /\ S.stop = "no"
  BY <1>1, <1>4, ChosenFit, StartOK
<1> QED
  BY <1>2, <1>3, <1>4

\* What one step of the scheduler leaves behind.
Resolved(S) ==
    Sane(S) /\ Lawful(S) /\ Complete(S) /\ S.st \in {"going", "settled"}

LEMMA MaybeResolveOK ==
    ASSUME NEW S, Stage(S)
    PROVE  Resolved(MaybeResolve[S]) /\ Proceeds(S, MaybeResolve[S])
<1> DEFINE R == [S EXCEPT !.st = "settled"]
<1>1. S \in Locals /\ R \in Locals
  BY DEF Stage, Sane, Locals
<1>2. MaybeResolve[S] = IF \A t \in Tasks : S.results[t] # "none" THEN R ELSE S
  BY <1>1 DEF MaybeResolve
<1>3. /\ R.st = "settled" /\ R.stop = S.stop /\ R.heeds = S.heeds
      /\ R.results = S.results /\ R.known = S.known /\ R.attempt = S.attempt
      /\ R.ready = S.ready
  BY <1>1 DEF Locals
<1> HIDE DEF R
<1>4. Unstarted(R) = Unstarted(S) /\ Active(R) = Active(S)
  BY <1>3 DEF Unstarted, Active
<1>5. Sane(R) /\ Lawful(R) /\ Proceeds(S, R)
  BY <1>1, <1>3, <1>4 DEF Stage, Sane, Lawful, Satisfied, Proceeds, KeepsTask
<1>6. Resolved(S) /\ Proceeds(S, S)
  BY DEF Stage, Resolved, Complete, Proceeds, KeepsTask
<1>7. ASSUME \A t \in Tasks : S.results[t] # "none" PROVE Resolved(R)
  BY <1>3, <1>5, <1>7 DEF Resolved, Complete
<1> QED
  BY <1>2, <1>5, <1>6, <1>7

\* A task that ends is told to the others.
LEMMA WithResultOK ==
    ASSUME NEW S, Stage(S), plan \in Plans, NEW t \in Active(S), NEW status \in Ended
    PROVE  LET told == WithResult(S, t, status)
           IN  /\ Stage(told) /\ told.stop = S.stop /\ told.attempt = S.attempt
               /\ \A u \in Tasks : /\ told.results[u] = IF u = t THEN status ELSE S.results[u]
                                   /\ told.known[u] = IF u = t THEN Idle ELSE S.known[u]
<1> DEFINE told == WithResult(S, t, status)
<1>1. S \in Locals /\ t \in Tasks
  BY DEF Stage, Sane, Active
<1>2. told \in Locals
  <2>1. [S.results EXCEPT ![t] = status] \in [Tasks -> Results]
    BY <1>1 DEF Locals, Results
  <2>2. [S.known EXCEPT ![t] = Idle] \in [Tasks -> Int]
    BY <1>1 DEF Locals, Idle
  <2> QED
    BY <1>1, <2>1, <2>2 DEF WithResult, Locals
<1>3. /\ told.st = S.st /\ told.stop = S.stop /\ told.heeds = S.heeds
      /\ told.ready = S.ready /\ told.attempt = S.attempt
      /\ told.results = [S.results EXCEPT ![t] = status]
      /\ told.known = [S.known EXCEPT ![t] = Idle]
  BY <1>1 DEF WithResult, Locals
<1> HIDE DEF told
<1>4. \A u \in Tasks : /\ told.results[u] = IF u = t THEN status ELSE S.results[u]
                       /\ told.known[u] = IF u = t THEN Idle ELSE S.known[u]
  BY <1>1, <1>3 DEF Locals
<1>5. Unstarted(told) = Unstarted(S) /\ Active(told) = Active(S) \ {t}
  BY <1>4 DEF Unstarted, Active, Ended
<1>6. Sane(told)
  <2>1. told.ready \subseteq Unstarted(told) /\ \A u \in Unstarted(told) : told.attempt[u] = 0
    BY <1>3, <1>5 DEF Stage, Sane
  <2>2. \A u \in Active(told) : /\ told.results[u] = "none"
                                /\ told.known[u] \in 0..told.attempt[u]
                                /\ told.attempt[u] \in 1..Attempts[u]
    BY <1>3, <1>4, <1>5 DEF Stage, Sane, Active
  <2>3. \A u, v \in Active(told) : u # v => <<u, v>> \notin Conflicts
    BY <1>5 DEF Stage, Sane
  <2> QED
    BY <1>2, <2>1, <2>2, <2>3 DEF Sane
<1>7. \A u \in Tasks : S.results[u] # "none" => told.results[u] = S.results[u]
  BY <1>4 DEF Stage, Sane
<1>8. ASSUME told.stop = "no" PROVE \A u \in told.ready : Satisfied(told, u)
  <2>1. \A u \in S.ready : u \in Tasks /\ Satisfied(S, u)
    BY <1>1, <1>3, <1>8 DEF Stage, Lawful, Locals
  <2> QED
    BY <1>1, <1>2, <1>3, <1>7, <2>1, SatisfiedGrows, DepsAreTasks
<1>9. ASSUME told.stop = "no" PROVE SkipsEarned(told.results)
  <2> SUFFICES ASSUME NEW u \in Tasks, told.results[u] = "skipped"
               PROVE  CASE plan.policy = "continue" -> FALSE
                        [] plan.policy = "fail-fast" ->
                             \E v \in Tasks : told.results[v] \in {"failed", "killed"}
                        [] plan.policy = "skip-dependents" ->
                             \E d \in Deps[u] : told.results[d] \in {"failed", "killed", "skipped"}
    BY DEF SkipsEarned
  <2>1. S.results[u] = "skipped"
    BY <1>4 DEF Ended
  <2>2. SkipsEarned(S.results)
    BY <1>3, <1>9 DEF Stage, Lawful
  <2>3. plan.policy \in Policies
    BY PlansAssumption
  <2>4. CASE plan.policy = "continue"
    BY <2>1, <2>2, <2>4 DEF SkipsEarned
  <2>5. CASE plan.policy = "fail-fast"
    BY <1>7, <2>1, <2>2, <2>5 DEF SkipsEarned
  <2>6. CASE plan.policy = "skip-dependents"
    <3>1. PICK d \in Deps[u] : S.results[d] \in {"failed", "killed", "skipped"}
      BY <2>1, <2>2, <2>6 DEF SkipsEarned
    <3>2. d \in Tasks
      BY DepsAreTasks
    <3>3. told.results[d] \in {"failed", "killed", "skipped"}
      BY <1>7, <3>1, <3>2
    <3> QED
      BY <2>6, <3>3
  <2> QED
    BY <2>3, <2>4, <2>5, <2>6 DEF Policies
<1> QED
  BY <1>3, <1>4, <1>6, <1>8, <1>9 DEF Stage, Lawful, told

LEMMA OnFinishedOK ==
    ASSUME NEW S, Stage(S), plan \in Plans, NEW t \in Active(S), NEW status \in Ended
    PROVE  /\ Resolved(OnFinished(S, t, status))
           /\ Proceeds(WithResult(S, t, status), OnFinished(S, t, status))
<1> DEFINE told  == WithResult(S, t, status)
           after == IF status = "completed" THEN told ELSE AfterFailure({t})[told]
           R     == PushDependents(t)[after]
           Q     == ScheduleMore[R]
<1>1. t \in Tasks /\ S \in Locals
  BY DEF Active, Stage, Sane
<1>2. Stage(told) /\ told.results[t] = status
  BY <1>1, WithResultOK
<1> HIDE DEF told
<1>3. Stage(after) /\ Proceeds(told, after)
  <2>1. CASE status = "completed"
    BY <1>2, <2>1 DEF Proceeds, KeepsTask
  <2>2. CASE status # "completed"
    <3>1. {t} \in SUBSET Tasks /\ {t} # {} /\ told.results[t] \in {"failed", "killed"}
      BY <1>1, <1>2, <2>2 DEF Ended
    <3>2. Stage(AfterFailure({t})[told]) /\ Proceeds(told, AfterFailure({t})[told])
      BY <1>1, <1>2, <3>1, AfterFailureOK
    <3> QED
      BY <2>2, <3>2
  <2> QED
    BY <2>1, <2>2
<1> HIDE DEF after
<1>4. Stage(R) /\ Proceeds(after, R)
  BY <1>1, <1>3, PushDependentsOK
<1> HIDE DEF R
<1>5. Stage(Q) /\ Proceeds(R, Q)
  BY <1>4, ScheduleMoreOK
<1> HIDE DEF Q
<1>6. Resolved(MaybeResolve[Q]) /\ Proceeds(Q, MaybeResolve[Q])
  BY <1>5, MaybeResolveOK
<1>7. /\ told \in Locals /\ after \in Locals /\ R \in Locals /\ Q \in Locals
      /\ MaybeResolve[Q] \in Locals
  BY <1>2, <1>3, <1>4, <1>5, <1>6 DEF Stage, Resolved, Sane
<1>8. Proceeds(told, Q)
  BY <1>3, <1>4, <1>5, <1>7, ProceedsTransitive
<1>9. Proceeds(told, MaybeResolve[Q])
  BY <1>6, <1>7, <1>8, ProceedsTransitive
<1> QED
  BY <1>6, <1>9 DEF OnFinished, told, after, R, Q

\* What a scheduler begins with.
Bare(results) == [NoRun EXCEPT !.st = "going", !.results = results]

LEMMA ResumedOK ==
    ASSUME NEW results \in [Tasks -> Results], plan \in Plans, SkipsEarned(results)
    PROVE  Resolved(Resumed(results)) /\ Proceeds(Bare(results), Resumed(results))
<1> DEFINE bare == Bare(results)
           S == [bare EXCEPT !.ready = {t \in Unstarted(bare) : Satisfied(bare, t)}]
           S2 == [bare EXCEPT !.ready = @ \cup {t \in Unstarted(bare) : Satisfied(bare, t)}]
           failed == {t \in Tasks : results[t] \notin {"none", "completed"}}
           R == IF failed = {} THEN S ELSE AfterFailure(failed)[S]
           Q == ScheduleMore[R]
<1>1. /\ bare \in Locals /\ bare.st = "going" /\ bare.results = results
      /\ bare.ready = {} /\ bare.stop = "no"
      /\ \A t \in Tasks : bare.known[t] = Idle /\ bare.attempt[t] = 0
  <2>1. NoRun \in Locals
    BY DEF NoRun, Locals, NoResults, NobodyOn, Results, Idle
  <2> QED
    BY <2>1 DEF Bare, NoRun, NobodyOn, Locals
<1>2. Stage(bare)
  BY <1>1 DEF Stage, Sane, Lawful, Active, Unstarted
<1> HIDE DEF bare
<1>3. S = S2
  BY <1>1 DEF Locals
<1>4. Stage(S) /\ Proceeds(bare, S)
  BY <1>2, <1>3, ReadyOK
<1>5. S.results = results
  BY <1>1 DEF Locals
<1> HIDE DEF S
<1>6. Stage(R) /\ Proceeds(S, R)
  <2>1. CASE failed = {}
    BY <1>4, <2>1 DEF Proceeds, KeepsTask
  <2>2. CASE failed # {}
    <3>1. \A t \in failed : S.results[t] \in {"failed", "killed", "skipped"}
      BY <1>5 DEF Results, Ended
    <3>2. ASSUME plan.policy = "fail-fast"
          PROVE  \E t \in Tasks : S.results[t] \in {"failed", "killed"}
      <4>1. PICK t \in Tasks : S.results[t] \in {"failed", "killed", "skipped"}
        BY <2>2, <3>1
      <4>2. CASE S.results[t] = "skipped"
        BY <1>5, <3>2, <4>2 DEF SkipsEarned
      <4> QED
        BY <4>1, <4>2
    <3>3. Stage(AfterFailure(failed)[S]) /\ Proceeds(S, AfterFailure(failed)[S])
      <4>1. failed \in SUBSET Tasks
        OBVIOUS
      <4> HIDE DEF failed
      <4> QED
        BY <1>4, <2>2, <3>1, <3>2, <4>1, AfterFailureOK
    <3> QED
      BY <2>2, <3>3
  <2> QED
    BY <2>1, <2>2
<1> HIDE DEF R
<1>7. Stage(Q) /\ Proceeds(R, Q)
  BY <1>6, ScheduleMoreOK
<1> HIDE DEF Q
<1>8. Resolved(MaybeResolve[Q]) /\ Proceeds(Q, MaybeResolve[Q])
  BY <1>7, MaybeResolveOK
<1>9. S \in Locals /\ R \in Locals /\ Q \in Locals /\ MaybeResolve[Q] \in Locals
  BY <1>4, <1>6, <1>7, <1>8 DEF Stage, Resolved, Sane
<1>10. Proceeds(bare, Q)
  BY <1>1, <1>4, <1>6, <1>7, <1>9, ProceedsTransitive
<1>11. Proceeds(bare, MaybeResolve[Q])
  BY <1>1, <1>8, <1>9, <1>10, ProceedsTransitive
<1> QED
  BY <1>8, <1>11 DEF Resumed, bare, Bare, S, R, Q

-----------------------------------------------------------------------------
(* The steps.                                                              *)

LEMMA SlotsArePairs ==
    /\ \A s \in Slots : /\ s = <<s[1], s[2]>> /\ s[1] \in Tasks
                        /\ s[2] \in 1..Attempts[s[1]] /\ s[2] \in Nat \ {0}
    /\ \A t \in Tasks : \A a \in 1..Attempts[t] : <<t, a>> \in Slots
<1>1. \A t \in Tasks : Attempts[t] \in Nat
  BY RetryAssumption
<1>2. ASSUME NEW s \in Slots
      PROVE  /\ s = <<s[1], s[2]>> /\ s[1] \in Tasks
             /\ s[2] \in 1..Attempts[s[1]] /\ s[2] \in Nat \ {0}
  <2>1. PICK t \in Tasks : s \in {<<t, a>> : a \in 1..Attempts[t]}
    BY DEF Slots
  <2>2. PICK a \in 1..Attempts[t] : s = <<t, a>>
    BY <2>1
  <2> QED
    BY <1>1, <2>2
<1> QED
  BY <1>2 DEF Slots

\* A task that runs has a scheduler that goes on.
LEMMA ActiveGoes ==
    ASSUME IInv, Active(run) # {}
    PROVE  Stage(run)
<1>1. PICK t \in Active(run) : run.results[t] = "none" /\ t \in Tasks
  BY DEF IInv, SchedulerInv, Sane, Active
<1>2. run.st \notin {"settled", "over"}
  BY <1>1 DEF IInv, SchedulerInv, Complete
<1>3. run.st # "idle"
  BY <1>1 DEF IInv, StoreInv, NoRun, NobodyOn, Active
<1> QED
  BY <1>2, <1>3 DEF IInv, SchedulerInv, Sane, Locals, Stage

\* A scheduler that begins, or takes a step and is not asked to stop, writes
\* what it knows, which is no less than what is stored.
RunStep ==
    /\ up /\ UNCHANGED <<plan, up, cancel, crashes>>
    /\ Resolved(run')
    /\ Save(run', Going(run'))
    /\ \/ run.st = "going" /\ (run').stop = run.stop
       \/ run.st = "idle" /\ (run').stop = "no" /\ stored.status \in {"absent", "running"}
    /\ (run').stop = "no" =>
          \A t \in Tasks : stored.results[t] # "none" => (run').results[t] = stored.results[t]

LEMMA RunStepOK ==
    ASSUME IInv, RunStep
    PROVE  SchedulerInv' /\ StoreInv' /\ CancelInv' /\ OutcomesEarned'
<1> USE DEF RunStep
<1>1. SchedulerInv'
  BY DEF Resolved, SchedulerInv, Sane, Lawful, Complete, SkipsEarned, Satisfied,
         Unstarted, Active
<1>2. CASE (run').stop = "no"
  <2>1. stored' = Going(run')
    BY <1>2 DEF Save
  <2>2. run' \in Locals /\ SkipsEarned((run').results) /\ (run').st \in {"going", "settled"}
    BY <1>2 DEF Resolved, Sane, Lawful
  <2>3. stored'.status = "running" /\ stored'.results = (run').results /\ stored' \in Snapshot
    BY <2>1, <2>2 DEF Going, Snapshot, Locals
  <2>4. stored.status # "cancelled" /\ \A c \in Cancels : cancel[c].at # "stopping"
    BY <1>2 DEF IInv, StoreInv, CancelInv, Going
  <2>5. StoreInv'
    BY <2>1, <2>2, <2>3, <2>4 DEF StoreInv
  <2>6. OutcomesEarned'
    BY <2>2, <2>3 DEF OutcomesEarned, SkipsEarned
  <2>7. CancelInv'
    <3> SUFFICES ASSUME NEW c \in Cancels, cancel[c].at \in {"loaded", "stopping"}
                 PROVE  \A t \in Tasks : cancel[c].snap.results[t] # "none" =>
                                            stored'.results[t] = cancel[c].snap.results[t]
      BY <2>2 DEF IInv, CancelInv
    <3> QED
      BY <1>2, <2>3, <2>4 DEF IInv, CancelInv
  <2> QED
    BY <1>1, <2>5, <2>6, <2>7
<1>3. CASE (run').stop # "no"
  <2>1. stored' = stored
    BY <1>3 DEF Save
  <2>2. run.st = "going" /\ (run').st \in {"going", "settled"}
    BY <1>3 DEF Resolved
  <2>3. StoreInv'
    BY <1>3, <2>1, <2>2 DEF IInv, StoreInv
  <2>4. CancelInv'
    BY <2>1, <2>2 DEF IInv, CancelInv
  <2>5. OutcomesEarned'
    BY <2>1 DEF IInv, OutcomesEarned, SkipsEarned
  <2> QED
    BY <1>1, <2>3, <2>4, <2>5
<1> QED
  BY <1>2, <1>3

\* How an attempt of t may come to its end: its worker is not at work, or may be
\* given up.
Leaves(t) ==
    /\ run.known[t] # Idle
    /\ worker[<<t, run.attempt[t]>>] \in {"spawning", "alive"} => t \in Timed

\* What becomes of t and its attempt.
Follows(R, t) ==
    \/ R.attempt[t] = run.attempt[t] /\ (R.known[t] = Idle <=> run.known[t] = Idle)
    \/ Leaves(t) /\ R.attempt[t] = run.attempt[t] /\ R.known[t] = Idle
    \/ Leaves(t) /\ R.attempt[t] = run.attempt[t] + 1 /\ R.known[t] # Idle
    \/ /\ run.attempt[t] = 0 /\ run.known[t] = Idle /\ R.attempt[t] = 1 /\ R.known[t] # Idle
       /\ R.stop = "no" /\ Satisfied(R, t) /\ stored.results[t] = "none"

LEMMA BecomesOK ==
    ASSUME IInv, NEW R \in Locals, Becomes(R), \A t \in Tasks : Follows(R, t)
    PROVE  WorkerInv'
<1>1. run' = R /\ \A t \in Tasks : R.attempt[t] \in Nat /\ run.attempt[t] \in Nat
  BY DEF IInv, SchedulerInv, Sane, Locals, Becomes
<1>2. /\ worker' \in [Slots -> {"none", "spawning", "alive"} \cup Ended]
      /\ \A s \in Slots : worker'[s] = IF s \in Begun(R) THEN "spawning" ELSE worker[s]
  BY <1>1 DEF Becomes, IInv, WorkerInv
<1>3. \A t \in Tasks : run.attempt[t] <= R.attempt[t]
  BY <1>1 DEF Follows
<1>4. ASSUME NEW s \in Slots, worker'[s] # "none" PROVE s[2] <= R.attempt[s[1]]
  <2>1. s[1] \in Tasks /\ s[2] \in Nat
    BY SlotsArePairs
  <2>2. CASE s \in Begun(R)
    BY <2>1, <2>2, <1>1 DEF Begun
  <2>3. CASE s \notin Begun(R)
    <3>1. s[2] <= run.attempt[s[1]]
      BY <1>2, <1>4, <2>3 DEF IInv, WorkerInv
    <3> QED
      BY <1>1, <1>3, <2>1, <3>1
  <2> QED
    BY <2>2, <2>3
<1>5. ASSUME NEW s \in Slots, worker'[s] \in {"spawning", "alive"},
             R.known[s[1]] = Idle \/ R.attempt[s[1]] # s[2]
      PROVE  s[1] \in Timed
  <2>1. s[1] \in Tasks /\ s[2] \in Nat /\ s = <<s[1], s[2]>>
    BY SlotsArePairs
  <2>2. s \notin Begun(R)
    BY <1>1, <1>5, <2>1 DEF Begun, Follows
  <2>3. s \in Busy /\ worker[s] \in {"spawning", "alive"}
    BY <1>2, <1>5, <2>2 DEF Busy
  <2>4. CASE GivenUp(s)
    BY <2>3, <2>4 DEF IInv, WorkerInv
  <2>5. CASE ~GivenUp(s)
    <3>1. run.known[s[1]] # Idle /\ run.attempt[s[1]] = s[2]
      BY <2>5 DEF GivenUp
    <3>2. Leaves(s[1])
      BY <1>1, <1>5, <2>1, <3>1 DEF Follows
    <3> QED
      BY <2>1, <2>3, <3>1, <3>2 DEF Leaves
  <2> QED
    BY <2>4, <2>5
<1> QED
  BY <1>1, <1>2, <1>4, <1>5 DEF WorkerInv, Busy, GivenUp

\* What is proved of every step.
StepOK == IInv' /\ StartsWhenDue /\ StoredStays

LEMMA RunStepStays ==
    ASSUME IInv, RunStep
    PROVE  StoredStays
<1>1. CASE (run').stop = "no"
  <2>1. stored' = Going(run')
    BY <1>1 DEF RunStep, Save
  <2>2. stored'.results = (run').results
    BY <2>1 DEF Going
  <2>3. stored.status \in {"absent", "running"}
    <3>1. CASE run.st = "going" /\ run.stop = "no"
      BY <3>1 DEF IInv, StoreInv, Going
    <3> QED
      BY <1>1, <3>1 DEF RunStep
  <2> QED
    BY <1>1, <2>2, <2>3 DEF RunStep, StoredStays
<1>2. CASE (run').stop # "no"
  BY <1>2 DEF RunStep, Save, StoredStays
<1> QED
  BY <1>1, <1>2

LEMMA SchedulerStepOK ==
    ASSUME IInv, NEW R, Becomes(R), RunStep, \A t \in Tasks : Follows(R, t)
    PROVE  StepOK
<1>1. run' = R /\ R \in Locals
  BY DEF Becomes, RunStep, Resolved, Sane
<1>2. IInv'
  <2>1. WorkerInv'
    BY <1>1, BecomesOK
  <2>2. plan' \in Plans /\ up' \in BOOLEAN /\ crashes' \in 0..MaxCrashes
    BY DEF IInv, RunStep
  <2> QED
    BY <2>1, <2>2, RunStepOK DEF IInv
<1>3. StartsWhenDue
  <2> SUFFICES ASSUME NEW t \in Tasks, worker[<<t, 1>>] = "none", worker'[<<t, 1>>] # "none"
               PROVE  /\ run.stop = "no"
                      /\ stored.results[t] = "none"
                      /\ \A d \in Deps[t] : R.results[d] \in
                            IF plan.policy = "continue" THEN Results \ {"none"}
                                                        ELSE {"completed"}
    BY <1>1 DEF StartsWhenDue
  <2>1. <<t, 1>> \in Slots
    BY SlotsArePairs, RetryAssumption
  <2>2. <<t, 1>> \in Begun(R)
    BY <1>1, <2>1 DEF Becomes
  <2>3. R.attempt[t] = 1 /\ run.attempt[t] # 1
    BY <2>2 DEF Begun
  <2>4. ~Leaves(t) \/ run.attempt[t] \in Nat \ {0}
    <3>1. Leaves(t) => t \in Active(run)
      BY DEF Leaves, Active
    <3>2. Attempts[t] \in Nat
      BY RetryAssumption
    <3> QED
      BY <3>1, <3>2 DEF IInv, SchedulerInv, Sane
  <2>5. R.stop = "no" /\ Satisfied(R, t) /\ stored.results[t] = "none"
    BY <2>3, <2>4 DEF Follows
  <2>6. run.stop = "no"
    BY <1>1, <2>5 DEF RunStep, IInv, StoreInv, NoRun
  <2>7. \A d \in Deps[t] : R.results[d] \in Results
    BY <1>1, DepsAreTasks DEF Locals
  <2> QED
    BY <2>5, <2>6, <2>7 DEF Satisfied
<1> QED
  BY <1>2, <1>3, RunStepStays DEF StepOK

LEMMA ResumedStepOK ==
    ASSUME IInv, NEW heeds \in BOOLEAN, up, run.st = "idle",
           stored.status \in {"absent", "running"}, SkipsEarned(stored.results),
           Becomes([Resumed(stored.results) EXCEPT !.heeds = heeds]),
           UNCHANGED <<plan, up, cancel, crashes>>
    PROVE  StepOK
<1> DEFINE results == stored.results
           Q == Resumed(results)
           R == [Q EXCEPT !.heeds = heeds]
<1>1. results \in [Tasks -> Results] /\ plan \in Plans
  BY DEF IInv, StoreInv, Snapshot
<1>2. Resolved(Q) /\ Proceeds(Bare(results), Q)
  BY <1>1, ResumedOK
<1> HIDE DEF Q
<1>3. /\ R \in Locals /\ R.st = Q.st /\ R.results = Q.results /\ R.known = Q.known
      /\ R.ready = Q.ready /\ R.attempt = Q.attempt /\ R.stop = Q.stop
  BY <1>2 DEF Resolved, Sane, Locals
<1>4. run' = R /\ Save(run', Going(run'))
  BY DEF Becomes, Q
<1> HIDE DEF R
<1>5. Unstarted(R) = Unstarted(Q) /\ Active(R) = Active(Q)
  BY <1>3 DEF Unstarted, Active
<1>6. Resolved(R)
  BY <1>2, <1>3, <1>5 DEF Resolved, Sane, Lawful, Complete, Satisfied
<1>7. /\ \A t \in Tasks : Bare(results).known[t] = Idle /\ Bare(results).attempt[t] = 0
      /\ Bare(results).results = results /\ Bare(results).stop = "no"
  BY DEF Bare, NoRun, NobodyOn
<1>8. run = NoRun
  BY DEF IInv, StoreInv
<1>9. \A t \in Tasks : run.known[t] = Idle /\ run.attempt[t] = 0
  BY <1>8 DEF NoRun, NobodyOn
<1>10. RunStep
  BY <1>2, <1>3, <1>4, <1>6, <1>7 DEF RunStep, Proceeds
<1>11. ASSUME NEW t \in Tasks PROVE Follows(R, t)
  <2>1. CASE KeepsTask(Bare(results), Q, t)
    BY <1>3, <1>7, <1>9, <2>1 DEF KeepsTask, Follows
  <2>2. CASE StartsTask(Bare(results), Q, t)
    <3>1. Q.known[t] = Unknown /\ Q.attempt[t] = 1 /\ Q.stop = "no" /\ Satisfied(Q, t)
          /\ results[t] = "none"
      BY <1>7, <2>2 DEF StartsTask, Unstarted
    <3> QED
      BY <1>3, <1>9, <3>1 DEF Follows, Satisfied, Unknown, Idle
  <2> QED
    BY <1>2, <2>1, <2>2 DEF Proceeds
<1> QED
  BY <1>10, <1>11, SchedulerStepOK DEF Q, R

LEMMA StartsOK == ASSUME IInv, Starts PROVE StepOK
<1>1. stored.results = NoResults /\ run.st = "idle"
  BY DEF Starts, IInv, StoreInv
<1>2. SkipsEarned(stored.results)
  BY <1>1 DEF SkipsEarned, NoResults
<1> QED
  BY <1>1, <1>2, ResumedStepOK DEF Starts

LEMMA ResumesOK == ASSUME IInv, Resumes PROVE StepOK
<1> DEFINE results == stored.results
           Q == Resumed(results)
<1>1. SkipsEarned(results)
  BY DEF Resumes, IInv, OutcomesEarned
<1>2. results \in [Tasks -> Results] /\ plan \in Plans
  BY DEF IInv, StoreInv, Snapshot
<1>3. Q \in Locals /\ Q.heeds = FALSE
  <2>1. Resolved(Q) /\ Proceeds(Bare(results), Q)
    BY <1>1, <1>2, ResumedOK
  <2> QED
    BY <2>1 DEF Resolved, Sane, Proceeds, Bare, NoRun
<1>4. Q = [Q EXCEPT !.heeds = FALSE]
  BY <1>3 DEF Locals
<1>5. Becomes([Q EXCEPT !.heeds = FALSE])
  BY <1>4 DEF Resumes
<1> QED
  BY <1>1, <1>5, ResumedStepOK DEF Resumes

LEMMA AttemptSettlesOK ==
    ASSUME IInv, up, NEW t \in Tasks, Leaves(t), NEW status \in Ended,
           AttemptSettles(t, status), UNCHANGED <<plan, up, cancel, crashes>>
    PROVE  StepOK
<1>1. t \in Active(run) /\ Stage(run) /\ plan \in Plans
  <2>1. t \in Active(run)
    BY DEF Leaves, Active
  <2> QED
    BY <2>1, ActiveGoes DEF IInv
<1>2. run.stop = "no" => stored.results = run.results
  BY <1>1 DEF Stage, IInv, StoreInv, Going
<1>3. CASE Retries(t, status)
  <2> DEFINE R == [run EXCEPT !.attempt[t] = @ + 1]
  <2>1. run \in Locals /\ R \in Locals
    <3>1. run \in Locals
      BY <1>1 DEF Stage, Sane
    <3>2. [run.attempt EXCEPT ![t] = @ + 1] \in [Tasks -> Nat]
      BY <3>1 DEF Locals
    <3> QED
      BY <3>1, <3>2 DEF Locals
  <2>2. /\ R.st = run.st /\ R.stop = run.stop /\ R.results = run.results
        /\ R.known = run.known /\ R.ready = run.ready
        /\ \A u \in Tasks : R.attempt[u] = IF u = t THEN run.attempt[t] + 1 ELSE run.attempt[u]
    BY <2>1 DEF Locals
  <2> HIDE DEF R
  <2>3. Unstarted(R) = Unstarted(run) /\ Active(R) = Active(run)
    BY <2>2 DEF Unstarted, Active
  <2>4. Sane(R)
    <3>1. ASSUME NEW u \in Active(R)
          PROVE  /\ R.results[u] = "none" /\ R.known[u] \in 0..R.attempt[u]
                 /\ R.attempt[u] \in 1..Attempts[u]
      <4>1. u \in Tasks /\ Attempts[u] \in Nat /\ run.attempt[u] \in Nat
        BY <2>1, RetryAssumption DEF Active, Locals
      <4>2. /\ run.results[u] = "none" /\ run.known[u] \in 0..run.attempt[u]
            /\ run.attempt[u] \in 1..Attempts[u]
        BY <1>1, <2>3 DEF Stage, Sane
      <4>3. u = t => run.attempt[u] < Attempts[u]
        BY <1>3 DEF Retries
      <4> QED
        BY <2>2, <4>1, <4>2, <4>3
    <3>2. \A u \in Unstarted(R) : R.attempt[u] = 0
      BY <1>1, <2>2, <2>3 DEF Stage, Sane, Unstarted, Active
    <3> QED
      BY <1>1, <2>1, <2>2, <2>3, <3>1, <3>2 DEF Stage, Sane
  <2>5. Resolved(R)
    BY <1>1, <2>2, <2>4 DEF Stage, Resolved, Lawful, Complete, Satisfied
  <2>6. Becomes(R)
    BY <1>3 DEF AttemptSettles, R
  <2>7. RunStep
    BY <1>1, <1>2, <2>2, <2>5, <2>6 DEF RunStep, Becomes, Stage
  <2>8. \A u \in Tasks : Follows(R, u)
    BY <2>2 DEF Follows, Leaves
  <2> QED
    BY <2>6, <2>7, <2>8, SchedulerStepOK
<1>4. CASE ~Retries(t, status)
  <2> DEFINE told == WithResult(run, t, status)
             R == OnFinished(run, t, status)
  <2>1. Resolved(R) /\ Proceeds(told, R)
    BY <1>1, OnFinishedOK
  <2>2. /\ Stage(told) /\ told.stop = run.stop /\ told.attempt = run.attempt
        /\ \A u \in Tasks : /\ told.results[u] = IF u = t THEN status ELSE run.results[u]
                            /\ told.known[u] = IF u = t THEN Idle ELSE run.known[u]
    BY <1>1, WithResultOK
  <2>3. Becomes(R)
    BY <1>4 DEF AttemptSettles
  <2> HIDE DEF told, R
  <2>4. ASSUME NEW u \in Tasks, run.results[u] # "none"
        PROVE  R.results[u] = run.results[u]
    <3>1. run.results[t] = "none"
      BY <1>1 DEF Stage, Sane
    <3>2. told.results[u] = run.results[u]
      BY <2>2, <2>4, <3>1
    <3> QED
      BY <2>1, <2>4, <3>2 DEF Proceeds
  <2>5. RunStep
    BY <1>1, <1>2, <2>1, <2>2, <2>3, <2>4 DEF RunStep, Becomes, Stage, Proceeds
  <2>6. ASSUME NEW u \in Tasks PROVE Follows(R, u)
    <3>1. CASE KeepsTask(told, R, u)
      BY <2>2, <3>1 DEF KeepsTask, Follows
    <3>2. CASE StartsTask(told, R, u)
      <4>1. told.results[u] = "none" /\ told.known[u] = Idle /\ told.attempt[u] = 0
        BY <2>2, <3>2 DEF StartsTask, Stage, Sane, Unstarted
      <4>2. u # t
        BY <2>2, <4>1 DEF Ended
      <4>3. run.results[u] = "none" /\ run.known[u] = Idle /\ run.attempt[u] = 0
        BY <2>2, <4>1, <4>2
      <4>4. R.stop = "no" /\ stored.results[u] = "none"
        BY <1>2, <2>1, <2>2, <3>2, <4>3 DEF StartsTask, Proceeds
      <4> QED
        BY <3>2, <4>3, <4>4 DEF StartsTask, Follows, Unknown, Idle
    <3> QED
      BY <2>1, <3>1, <3>2 DEF Proceeds
  <2> QED
    BY <2>3, <2>5, <2>6, SchedulerStepOK
<1> QED
  BY <1>3, <1>4

LEMMA AttemptOK == ASSUME IInv, NEW t \in Tasks, Attempt(t) PROVE StepOK
<1>1. ASSUME AttemptReturns(t) PROVE StepOK
  <2>1. worker[<<t, run.attempt[t]>>] \in Ended
    BY <1>1 DEF AttemptReturns
  <2>2. Leaves(t)
    BY <1>1, <2>1 DEF AttemptReturns, Leaves, Ended
  <2> QED
    BY <1>1, <2>1, <2>2, AttemptSettlesOK DEF AttemptReturns
<1>2. ASSUME AttemptTimesOut(t) PROVE StepOK
  <2>1. Leaves(t) /\ "failed" \in Ended
    BY <1>2 DEF AttemptTimesOut, Leaves, Ended
  <2> QED
    BY <1>2, <2>1, AttemptSettlesOK DEF AttemptTimesOut
<1> QED
  BY <1>1, <1>2 DEF Attempt

\* A worker that is there has an attempt of its task.
LEMMA WorkerStepOK ==
    ASSUME IInv, up, NEW s \in Slots, worker[s] \in {"spawning", "alive"},
           NEW status \in {"alive"} \cup Ended,
           worker' = [worker EXCEPT ![s] = status],
           UNCHANGED <<plan, up, cancel, crashes>>,
           Report(s[1], s[2]) \/ UNCHANGED <<run, stored>>
    PROVE  StepOK
<1>1. s = <<s[1], s[2]>> /\ s[1] \in Tasks /\ s[2] \in Nat \ {0} /\ s[2] <= run.attempt[s[1]]
  BY SlotsArePairs DEF IInv, WorkerInv
<1>2. /\ worker' \in [Slots -> {"none", "spawning", "alive"} \cup Ended]
      /\ \A r \in Slots : worker'[r] = IF r = s THEN status ELSE worker[r]
  BY DEF IInv, WorkerInv
<1>3. StartsWhenDue
  BY <1>1, <1>2, SlotsArePairs, RetryAssumption DEF StartsWhenDue
<1>4. ASSUME run' \in Locals, \A t \in Tasks : /\ (run').attempt[t] = run.attempt[t]
                                               /\ (run').known[t] = Idle <=> run.known[t] = Idle
      PROVE  WorkerInv'
  <2>1. \A r \in Slots : r[1] \in Tasks
    BY SlotsArePairs
  <2>2. \A r \in Slots : worker'[r] # "none" => r[2] <= (run').attempt[r[1]]
    BY <1>1, <1>2, <1>4, <2>1 DEF IInv, WorkerInv
  <2>3. \A r \in Busy' : r \in Busy
    BY <1>2 DEF Busy
  <2>4. \A r \in Slots : GivenUp(r)' => GivenUp(r)
    BY <1>4, <2>1 DEF GivenUp
  <2> QED
    BY <1>2, <2>2, <2>3, <2>4 DEF IInv, WorkerInv, Busy
<1>5. CASE UNCHANGED <<run, stored>>
  <2>1. WorkerInv'
    BY <1>4, <1>5 DEF IInv, SchedulerInv, Sane
  <2>2. SchedulerInv'
    BY <1>5 DEF IInv, SchedulerInv, Sane, Lawful, Complete, SkipsEarned, Satisfied, Unstarted, Active
  <2>3. run.st # "idle"
    BY DEF IInv, StoreInv, NoWorkers
  <2>4. StoreInv' /\ CancelInv'
    BY <1>5, <2>3 DEF IInv, StoreInv, CancelInv
  <2>5. OutcomesEarned' /\ StoredStays
    BY <1>5 DEF IInv, OutcomesEarned, SkipsEarned, StoredStays
  <2> QED
    BY <1>3, <2>1, <2>2, <2>4, <2>5 DEF StepOK, IInv
<1>6. CASE run.known[s[1]] # Idle /\ run' = [run EXCEPT !.known[s[1]] = s[2]]
            /\ Save(run', Going(run'))
  <2> DEFINE R == [run EXCEPT !.known[s[1]] = s[2]]
  <2>1. Stage(run)
    BY <1>1, <1>6, ActiveGoes DEF Active
  <2>2. run \in Locals /\ R \in Locals
    <3>1. run \in Locals
      BY <2>1 DEF Stage, Sane
    <3>2. [run.known EXCEPT ![s[1]] = s[2]] \in [Tasks -> Int]
      BY <1>1, <3>1 DEF Locals
    <3> QED
      BY <3>1, <3>2 DEF Locals
  <2>3. /\ R.st = run.st /\ R.stop = run.stop /\ R.results = run.results
        /\ R.attempt = run.attempt /\ R.ready = run.ready
        /\ \A t \in Tasks : R.known[t] = IF t = s[1] THEN s[2] ELSE run.known[t]
    BY <2>2 DEF Locals
  <2>4. run' = R
    BY <1>6
  <2> HIDE DEF R
  <2>5. \A t \in Tasks : R.known[t] = Idle <=> run.known[t] = Idle
    BY <1>1, <1>6, <2>3 DEF Idle
  <2>6. Unstarted(R) = Unstarted(run) /\ Active(R) = Active(run)
    BY <2>3, <2>5 DEF Unstarted, Active
  <2>7. Sane(R)
    <3>1. ASSUME NEW u \in Active(R)
          PROVE  /\ R.results[u] = "none" /\ R.known[u] \in 0..R.attempt[u]
                 /\ R.attempt[u] \in 1..Attempts[u]
      <4>1. u \in Tasks /\ Attempts[u] \in Nat /\ run.attempt[u] \in Nat
        BY <2>2, RetryAssumption DEF Active, Locals
      <4>2. /\ run.results[u] = "none" /\ run.known[u] \in 0..run.attempt[u]
            /\ run.attempt[u] \in 1..Attempts[u]
        BY <2>1, <2>6 DEF Stage, Sane
      <4> QED
        BY <1>1, <2>3, <4>1, <4>2
    <3> QED
      BY <2>1, <2>2, <2>3, <2>6, <3>1 DEF Stage, Sane
  <2>8. Resolved(R)
    BY <2>1, <2>3, <2>7 DEF Stage, Resolved, Lawful, Complete, Satisfied
  <2>9. run.stop = "no" => stored.results = run.results
    BY <2>1 DEF Stage, IInv, StoreInv, Going
  <2>10. RunStep
    BY <1>6, <2>1, <2>3, <2>4, <2>8, <2>9 DEF RunStep, Stage
  <2>11. WorkerInv'
    BY <1>4, <2>2, <2>3, <2>4, <2>5
  <2> QED
    BY <1>3, <2>10, <2>11, RunStepOK, RunStepStays DEF StepOK, IInv
<1> QED
  BY <1>5, <1>6 DEF Report

LEMMA SpawnOrWorkerOK == ASSUME IInv, NEW s \in Slots, Spawn(s) \/ Worker(s) PROVE StepOK
<1>1. s = <<s[1], s[2]>>
  BY SlotsArePairs
<1>2. ASSUME SpawnSucceeds(s[1], s[2]) PROVE StepOK
  BY <1>1, <1>2, WorkerStepOK DEF SpawnSucceeds
<1>3. ASSUME SpawnFails(s[1], s[2]) PROVE StepOK
  BY <1>1, <1>3, WorkerStepOK DEF SpawnFails, Ended
<1>4. ASSUME NEW status \in Ended, WorkerEnds(s[1], s[2], status) PROVE StepOK
  BY <1>1, <1>4, WorkerStepOK DEF WorkerEnds
<1> QED
  BY <1>2, <1>3, <1>4 DEF Spawn, Worker

LEMMA ConcludesOK == ASSUME IInv, Concludes PROVE StepOK
<1> USE DEF Concludes
<1> DEFINE R == [run EXCEPT !.st = "over"]
           verdict == IF \A t \in Tasks : run.results[t] = "completed"
                      THEN "completed" ELSE "failed"
           snap == [Going(run) EXCEPT !.status = verdict]
<1>1. run \in Locals /\ R \in Locals
  BY DEF IInv, SchedulerInv, Sane, Locals
<1>2. /\ R.st = "over" /\ R.stop = run.stop /\ R.results = run.results
      /\ R.known = run.known /\ R.attempt = run.attempt /\ R.ready = run.ready
  BY <1>1 DEF Locals
<1>3. run' = R /\ stored' = IF run.stop = "no" THEN snap ELSE stored
  BY DEF Save
<1> HIDE DEF R
<1>4. Unstarted(R) = Unstarted(run) /\ Active(R) = Active(run)
  BY <1>2 DEF Unstarted, Active
<1>5. SchedulerInv'
  <2>1. Sane(R) /\ Lawful(R) /\ Complete(R)
    BY <1>1, <1>2, <1>4 DEF IInv, SchedulerInv, Sane, Lawful, Complete, Satisfied
  <2> QED
    BY <1>3, <2>1 DEF SchedulerInv, Sane, Lawful, Complete, SkipsEarned, Satisfied,
                      Unstarted, Active
<1>6. WorkerInv'
  BY <1>2, <1>3 DEF IInv, WorkerInv, Busy, GivenUp
<1>7. run.stop = "no" => stored = Going(run)
  BY DEF IInv, StoreInv
<1>8. snap.status \in {"completed", "failed"} /\ snap.results = run.results /\ snap \in Snapshot
  BY <1>1 DEF Going, Snapshot, Locals
<1>9. StoreInv'
  BY <1>2, <1>3, <1>8 DEF IInv, StoreInv
<1>10. CancelInv'
  <2>1. stored'.results = stored.results
    BY <1>3, <1>7, <1>8 DEF Going
  <2>2. stored.status = "cancelled" => stored' = stored
    BY <1>3, <1>7 DEF Going
  <2>3. cancel' = cancel /\ run.st # "idle" /\ (run').st = "over"
    BY <1>2, <1>3
  <2> HIDE DEF snap
  <2> QED
    BY <2>1, <2>2, <2>3 DEF IInv, CancelInv
<1>11. OutcomesEarned'
  <2>1. CASE run.stop = "no"
    <3>1. SkipsEarned(run.results) /\ \A t \in Tasks : run.results[t] # "none"
      BY <2>1 DEF IInv, SchedulerInv, Lawful, Complete
    <3>2. stored' = snap /\ (snap.status = "completed" <=>
                               \A t \in Tasks : run.results[t] = "completed")
      BY <1>3, <2>1 DEF Going
    <3> HIDE DEF snap
    <3> QED
      BY <1>8, <3>1, <3>2 DEF OutcomesEarned, SkipsEarned
  <2>2. CASE run.stop # "no"
    BY <1>3, <2>2 DEF IInv, OutcomesEarned, SkipsEarned
  <2> QED
    BY <2>1, <2>2
<1>12. StoredStays
  <2>1. \/ stored' = stored
        \/ stored'.results = stored.results /\ stored.status = "running"
    BY <1>3, <1>7, <1>8 DEF Going
  <2> QED
    BY <2>1 DEF StoredStays
<1> QED
  BY <1>5, <1>6, <1>9, <1>10, <1>11, <1>12 DEF StepOK, IInv, StartsWhenDue

LEMMA CancelledIs ==
    ASSUME NEW snap \in Snapshot
    PROVE  /\ Cancelled(snap) \in Snapshot /\ NoWorkersIn(Cancelled(snap))
           /\ Cancelled(snap).status = "cancelled"
           /\ \A t \in Tasks : snap.results[t] # "none" =>
                                  Cancelled(snap).results[t] = snap.results[t]
  BY DEF Cancelled, Snapshot, NoWorkersIn, NobodyOn, Results, Ended, Idle

LEMMA UnchangedScheduler ==
    ASSUME IInv, UNCHANGED <<plan, run>>
    PROVE  SchedulerInv'
  BY DEF IInv, SchedulerInv, Sane, Lawful, Complete, SkipsEarned, Satisfied, Unstarted, Active

\* A cancellation that has read an older snapshot may store it.
LEMMA LateCancelStays ==
    ASSUME IInv, NEW c \in Cancels, cancel[c].at \in {"loaded", "stopping"},
           stored' = Cancelled(cancel[c].snap) \/ stored' = stored
    PROVE  StoredStays
<1> DEFINE snap == cancel[c].snap
<1>1. /\ snap \in Snapshot /\ snap.status = "running"
      /\ \/ stored.status = "cancelled"
         \/ \A t \in Tasks : snap.results[t] # "none" => stored.results[t] = snap.results[t]
  BY DEF IInv, CancelInv
<1>2. CASE stored' = stored
  BY <1>2 DEF StoredStays
<1>3. CASE stored' = Cancelled(snap)
  <2>1. /\ stored'.status = "cancelled"
        /\ \A t \in Tasks : snap.results[t] # "none" => stored'.results[t] = snap.results[t]
    BY <1>1, <1>3, CancelledIs
  <2> QED
    BY <1>1, <2>1 DEF StoredStays, LateCancel
<1> QED
  BY <1>2, <1>3

LEMMA CancelLoadsOK == ASSUME IInv, NEW c \in Cancels, CancelLoads(c) PROVE StepOK
<1> USE DEF CancelLoads
<1>1. SchedulerInv'
  BY UnchangedScheduler
<1>2. WorkerInv'
  BY DEF IInv, WorkerInv, Busy, GivenUp
<1>3. /\ \A e \in Cancels : e # c => cancel'[e] = cancel[e]
      /\ cancel'[c].at = "loaded" /\ cancel'[c].snap = stored
  BY DEF IInv, CancelInv, NoCancel
<1>4. stored \in Snapshot /\ stored' = stored
  BY DEF IInv, StoreInv
<1>5. CancelInv'
  <2>1. cancel' \in [Cancels -> [at : {"idle", "loaded", "stopping", "done"},
                                 snap : Snapshot, todo : SUBSET Slots]]
    BY <1>4 DEF IInv, CancelInv, NoCancel
  <2> QED
    BY <1>3, <1>4, <2>1 DEF IInv, CancelInv, StoreInv, NoWorkersIn
<1>6. StoreInv'
  BY <1>3 DEF IInv, StoreInv, NoWorkersIn
<1>7. OutcomesEarned' /\ StoredStays /\ StartsWhenDue
  BY DEF IInv, OutcomesEarned, SkipsEarned, StoredStays, StartsWhenDue
<1> QED
  BY <1>1, <1>2, <1>5, <1>6, <1>7 DEF StepOK, IInv

LEMMA CancelBeginsOK ==
    ASSUME IInv, NEW c \in Cancels, NEW snap, NEW why \in {"asked", "aborted"},
           CancelBegins(c, snap, why),
           \/ cancel[c].at = "loaded" /\ snap = cancel[c].snap
           \/ snap = stored /\ stored.status = "running" /\ run.st # "idle"
    PROVE  StepOK
<1> DEFINE todo == {s \in Slots : snap.known[s[1]] = s[2]}
           R == [run EXCEPT !.stop = IF run.st \in {"going", "settled"} /\ @ = "no" THEN why ELSE @]
<1>1. run \in Locals /\ R \in Locals
  BY DEF IInv, SchedulerInv, Sane, Locals
<1>2. /\ R.st = run.st /\ R.results = run.results /\ R.attempt = run.attempt
      /\ R.known = run.known /\ R.ready = run.ready
      /\ R.stop = IF run.st \in {"going", "settled"} /\ run.stop = "no" THEN why ELSE run.stop
  BY <1>1 DEF Locals
<1>3. run.st = "idle" => R = run
  BY <1>1 DEF Locals
<1>4. run' = R /\ plan' = plan
  BY DEF CancelBegins
<1> HIDE DEF R
<1>5. Unstarted(R) = Unstarted(run) /\ Active(R) = Active(run)
  BY <1>2 DEF Unstarted, Active
<1>6. SchedulerInv'
  <2>1. Sane(R) /\ Lawful(R) /\ Complete(R)
    BY <1>1, <1>2, <1>5 DEF IInv, SchedulerInv, Sane, Lawful, Complete, Satisfied
  <2> QED
    BY <1>4, <2>1 DEF SchedulerInv, Sane, Lawful, Complete, SkipsEarned, Satisfied,
                      Unstarted, Active
<1>7. WorkerInv'
  BY <1>2, <1>4 DEF CancelBegins, IInv, WorkerInv, Busy, GivenUp
<1>8. /\ snap \in Snapshot /\ snap.status = "running"
      /\ \/ stored.status = "cancelled"
         \/ \A t \in Tasks : snap.results[t] # "none" => stored.results[t] = snap.results[t]
  BY DEF IInv, CancelInv, StoreInv
<1>9. run.st = "idle" => todo = {}
  <2>1. run.st = "idle" => NoWorkersIn(snap)
    BY DEF IInv, CancelInv
  <2> QED
    BY <2>1, SlotsArePairs DEF NoWorkersIn, Idle, Unknown
<1>10. /\ cancel' \in [Cancels -> [at : {"idle", "loaded", "stopping", "done"},
                                   snap : Snapshot, todo : SUBSET Slots]]
       /\ \A e \in Cancels : e # c => cancel'[e] = cancel[e]
       /\ cancel'[c].snap = snap /\ cancel'[c].at = IF todo = {} THEN "done" ELSE "stopping"
  <2>1. todo \in SUBSET Slots
    OBVIOUS
  <2> HIDE DEF todo
  <2>2. cancel' = [cancel EXCEPT ![c] = [snap |-> snap, todo |-> todo,
                                         at |-> IF todo = {} THEN "done" ELSE "stopping"]]
    BY DEF CancelBegins, todo
  <2> QED
    BY <1>8, <2>1, <2>2 DEF IInv, CancelInv
<1>11. stored' = IF todo = {} THEN Cancelled(snap) ELSE stored
  BY DEF CancelBegins
<1> HIDE DEF todo
<1>12. /\ stored' \in Snapshot
       /\ stored' # stored => stored'.status = "cancelled" /\ NoWorkersIn(stored')
  BY <1>8, <1>11, CancelledIs DEF IInv, StoreInv
<1>13. CancelInv'
  <2> SUFFICES ASSUME NEW e \in Cancels, cancel'[e].at \in {"loaded", "stopping"}
               PROVE  /\ cancel'[e].snap.status = "running"
                      /\ \/ stored'.status = "cancelled"
                         \/ \A t \in Tasks : cancel'[e].snap.results[t] # "none" =>
                               stored'.results[t] = cancel'[e].snap.results[t]
                      /\ run.st = "idle" => cancel'[e].at = "loaded" /\ NoWorkersIn(cancel'[e].snap)
    BY <1>2, <1>4, <1>10 DEF CancelInv, NoWorkersIn
  <2>1. CASE e = c
    BY <1>8, <1>9, <1>10, <1>11, <2>1
  <2>2. CASE e # c
    BY <1>10, <1>12, <2>2 DEF IInv, CancelInv
  <2> QED
    BY <2>1, <2>2
<1>14. StoreInv'
  <2>1. (run').st \in {"going", "settled"} => (run').stop # "no"
    BY <1>2, <1>4
  <2>2. stored'.status = "absent" => stored' = stored
    BY <1>12
  <2>3. worker' = worker /\ up' = up
    BY DEF CancelBegins
  <2>4. run.st = "idle" => NoWorkersIn(stored')
    BY <1>12 DEF IInv, StoreInv
  <2> QED
    BY <1>2, <1>3, <1>4, <1>12, <2>1, <2>2, <2>3, <2>4 DEF IInv, StoreInv, NoWorkersIn
<1>15. OutcomesEarned'
  <2>1. stored'.status = "cancelled" \/ stored' = stored
    BY <1>12
  <2> QED
    BY <1>4, <2>1 DEF IInv, OutcomesEarned, SkipsEarned
<1>16. StoredStays
  <2>1. CASE cancel[c].at = "loaded" /\ snap = cancel[c].snap
    BY <1>11, <2>1, LateCancelStays
  <2>2. CASE snap = stored /\ stored.status = "running"
    BY <1>8, <1>11, <2>2, CancelledIs DEF StoredStays
  <2> QED
    BY <2>1, <2>2
<1> QED
  BY <1>6, <1>7, <1>13, <1>14, <1>15, <1>16 DEF StepOK, IInv, CancelBegins, StartsWhenDue

LEMMA CancelStopsWorkerOK ==
    ASSUME IInv, NEW c \in Cancels, NEW s \in Slots, NEW stops \in BOOLEAN,
           CancelStopsWorker(c, s, stops)
    PROVE  StepOK
<1> USE DEF CancelStopsWorker
<1>1. SchedulerInv'
  BY UnchangedScheduler
<1>2. /\ worker' \in [Slots -> {"none", "spawning", "alive"} \cup Ended]
      /\ \A r \in Slots : \/ worker'[r] = worker[r]
                          \/ worker'[r] = "killed" /\ worker[r] = "alive"
  BY DEF IInv, WorkerInv, Ended
<1>3. WorkerInv'
  BY <1>2 DEF IInv, WorkerInv, Busy, GivenUp
<1>4. /\ cancel' \in [Cancels -> [at : {"idle", "loaded", "stopping", "done"},
                                  snap : Snapshot, todo : SUBSET Slots]]
      /\ \A e \in Cancels : cancel'[e].at = cancel[e].at /\ cancel'[e].snap = cancel[e].snap
  BY DEF IInv, CancelInv
<1>5. run.st # "idle"
  BY DEF IInv, CancelInv
<1>6. CancelInv' /\ StoreInv'
  BY <1>4, <1>5 DEF IInv, CancelInv, StoreInv
<1>7. OutcomesEarned' /\ StoredStays
  BY DEF IInv, OutcomesEarned, SkipsEarned, StoredStays
<1>8. StartsWhenDue
  BY <1>2, SlotsArePairs, RetryAssumption DEF StartsWhenDue
<1> QED
  BY <1>1, <1>3, <1>6, <1>7, <1>8 DEF StepOK, IInv

LEMMA CancelStoresOK == ASSUME IInv, NEW c \in Cancels, CancelStores(c) PROVE StepOK
<1> USE DEF CancelStores
<1>1. SchedulerInv'
  BY UnchangedScheduler
<1>2. WorkerInv'
  BY DEF IInv, WorkerInv, Busy, GivenUp
<1>3. /\ cancel' \in [Cancels -> [at : {"idle", "loaded", "stopping", "done"},
                                  snap : Snapshot, todo : SUBSET Slots]]
      /\ \A e \in Cancels : cancel'[e] = cancel[e] \/ cancel'[e].at = "done"
  BY DEF IInv, CancelInv
<1>4. run.st # "idle" /\ ~(run.st \in {"going", "settled"} /\ run.stop = "no")
  BY DEF IInv, CancelInv, StoreInv
<1>5. stored' \in Snapshot /\ stored'.status = "cancelled"
  BY CancelledIs DEF IInv, CancelInv
<1>6. CancelInv' /\ StoreInv'
  BY <1>3, <1>4, <1>5 DEF IInv, CancelInv, StoreInv
<1>7. OutcomesEarned'
  BY <1>5 DEF OutcomesEarned
<1>8. StoredStays
  BY LateCancelStays
<1> QED
  BY <1>1, <1>2, <1>6, <1>7, <1>8 DEF StepOK, IInv, StartsWhenDue

LEMMA DiesOK ==
    ASSUME IInv, Dies, NEW snap \in Snapshot, stored' = Orphaned(snap),
           snap.status = "absent" => snap.results = NoResults,
           snap.status \in {"running", "completed", "failed"} => SkipsEarned(snap.results),
           snap.status \in {"completed", "failed"} => snap = stored,
           stored.status \in {"absent", "running"} \/ snap = stored,
           \A t \in Tasks : stored.results[t] # "none" => snap.results[t] = stored.results[t]
    PROVE  StepOK
<1> USE DEF Dies
<1>1. SchedulerInv'
  BY DEF SchedulerInv, Sane, Lawful, Complete, SkipsEarned, Satisfied, Unstarted, Active,
         NoRun, NoResults, NobodyOn, Locals, Results, Idle
<1>2. WorkerInv'
  BY SlotsArePairs DEF WorkerInv, Busy, GivenUp, NoWorkers
<1>3. stored' \in Snapshot /\ NoWorkersIn(stored') /\ stored'.status = snap.status
      /\ stored'.results = snap.results
  BY DEF Orphaned, Snapshot, NoWorkersIn, Idle, Unknown
<1>4. StoreInv'
  BY <1>3 DEF StoreInv, NoRun, NoWorkersIn
<1>5. CancelInv'
  <2>1. NoStored \in Snapshot
    BY DEF NoStored, Snapshot, NoResults, NobodyOn, Results, Idle
  <2>2. /\ cancel' \in [Cancels -> [at : {"idle", "loaded", "stopping", "done"},
                                    snap : Snapshot, todo : SUBSET Slots]]
        /\ \A c \in Cancels : cancel'[c].at \in {"idle", "done"}
    BY <2>1 DEF NoCancel
  <2> QED
    BY <2>2 DEF CancelInv
<1>6. OutcomesEarned'
  <2>1. snap.status \in {"completed", "failed"} =>
          /\ \A t \in Tasks : snap.results[t] # "none"
          /\ snap.status = "completed" <=> \A t \in Tasks : snap.results[t] = "completed"
    BY DEF IInv, OutcomesEarned
  <2> QED
    BY <1>3, <2>1 DEF OutcomesEarned, SkipsEarned
<1>7. StoredStays
  BY <1>3 DEF StoredStays
<1>8. StartsWhenDue
  BY SlotsArePairs, RetryAssumption DEF StartsWhenDue, NoWorkers
<1>9. plan' \in Plans /\ up' \in BOOLEAN /\ crashes' \in 0..MaxCrashes
  <2>1. plan \in Plans /\ crashes \in 0..MaxCrashes
    BY DEF IInv
  <2>2. plan' = plan /\ up' = FALSE /\ crashes' = crashes + 1 /\ crashes < MaxCrashes
    OBVIOUS
  <2>3. crashes' \in 0..MaxCrashes
    BY <2>1, <2>2, CrashesAssumption
  <2> QED
    BY <2>1, <2>2, <2>3
<1> QED
  BY <1>1, <1>2, <1>4, <1>5, <1>6, <1>7, <1>8, <1>9 DEF StepOK, IInv

LEMMA CrashOK == ASSUME IInv, Crash PROVE StepOK
  BY DiesOK DEF Crash, IInv, StoreInv, OutcomesEarned

LEMMA CrashInFinishOK ==
    ASSUME IInv, NEW t \in Tasks, NEW status \in Ended, CrashInFinish(t, status)
    PROVE  StepOK
<1> DEFINE told == WithResult(run, t, status)
           snap == IF run.stop = "no" THEN Going(told) ELSE stored
<1>1. Dies /\ stored' = Orphaned(snap) /\ t \in Active(run)
  BY DEF CrashInFinish, Active
<1>2. Stage(run) /\ plan \in Plans
  BY <1>1, ActiveGoes DEF IInv
<1>3. /\ Stage(told) /\ told.stop = run.stop
      /\ \A u \in Tasks : told.results[u] = IF u = t THEN status ELSE run.results[u]
  BY <1>1, <1>2, WithResultOK
<1> HIDE DEF told
<1>4. CASE run.stop = "no"
  <2>1. snap.status = "running" /\ snap.results = told.results /\ snap \in Snapshot
    BY <1>3, <1>4 DEF Going, Snapshot, Stage, Sane, Locals
  <2>2. SkipsEarned(snap.results)
    BY <1>3, <1>4, <2>1 DEF Stage, Lawful
  <2>3. stored.status = "running" /\ stored.results = run.results
    BY <1>2, <1>4 DEF Stage, IInv, StoreInv, Going
  <2>4. run.results[t] = "none"
    BY <1>1, <1>2 DEF Stage, Sane
  <2> HIDE DEF snap
  <2>5. \A u \in Tasks : stored.results[u] # "none" => snap.results[u] = stored.results[u]
    BY <1>3, <2>1, <2>3, <2>4
  <2> QED
    BY <1>1, <2>1, <2>2, <2>3, <2>5, DiesOK
<1>5. CASE run.stop # "no"
  <2>1. snap = stored
    BY <1>5
  <2> HIDE DEF snap
  <2> QED
    BY <1>1, <2>1, DiesOK DEF IInv, StoreInv, OutcomesEarned
<1> QED
  BY <1>4, <1>5

LEMMA RestartOK == ASSUME IInv, Restart PROVE StepOK
<1> USE DEF Restart
<1>1. SchedulerInv'
  BY UnchangedScheduler
<1>2. WorkerInv'
  BY DEF IInv, WorkerInv, Busy, GivenUp
<1>3. run.st = "idle"
  BY DEF IInv, StoreInv
<1>4. /\ stored' \in Snapshot /\ NoWorkersIn(stored')
      /\ stored' = stored \/ (stored'.status = "cancelled" /\ stored.status = "running")
      /\ \A t \in Tasks : stored.results[t] # "none" => stored'.results[t] = stored.results[t]
  BY <1>3, CancelledIs DEF IInv, StoreInv
<1>5. StoreInv'
  BY <1>3, <1>4 DEF IInv, StoreInv, NoWorkersIn
<1>6. CancelInv'
  BY <1>3, <1>4 DEF IInv, CancelInv, NoWorkersIn
<1>7. OutcomesEarned'
  BY <1>4 DEF IInv, OutcomesEarned, SkipsEarned
<1>8. StoredStays
  BY <1>4 DEF StoredStays
<1> QED
  BY <1>1, <1>2, <1>5, <1>6, <1>7, <1>8 DEF StepOK, IInv, StartsWhenDue

LEMMA InitOK == Init => IInv
<1> SUFFICES ASSUME Init PROVE IInv
  OBVIOUS
<1> USE DEF Init
<1>1. SchedulerInv
  BY DEF SchedulerInv, Sane, Lawful, Complete, SkipsEarned, Satisfied, Unstarted, Active,
         NoRun, NoResults, NobodyOn, Locals, Results, Idle
<1>2. WorkerInv
  BY SlotsArePairs DEF WorkerInv, Busy, GivenUp, NoWorkers
<1>3. NoStored \in Snapshot /\ NoWorkersIn(NoStored)
  BY DEF NoStored, Snapshot, NoResults, NobodyOn, Results, Idle, NoWorkersIn
<1>4. StoreInv
  BY <1>3 DEF StoreInv, NoRun, NoStored
<1>5. CancelInv
  BY <1>3 DEF CancelInv, NoCancel
<1>6. OutcomesEarned
  BY DEF OutcomesEarned, NoStored
<1> QED
  BY <1>1, <1>2, <1>4, <1>5, <1>6, CrashesAssumption DEF IInv

LEMMA NextOK == ASSUME IInv, [Next]_vars PROVE StepOK
<1>1. CASE UNCHANGED vars
  <2> USE <1>1 DEF vars
  <2>1. SchedulerInv'
    BY UnchangedScheduler
  <2>2. WorkerInv' /\ StoreInv' /\ CancelInv' /\ OutcomesEarned'
    BY DEF IInv, WorkerInv, Busy, GivenUp, StoreInv, CancelInv, OutcomesEarned, SkipsEarned,
           NoWorkersIn
  <2> QED
    BY <2>1, <2>2 DEF StepOK, IInv, StartsWhenDue, StoredStays
<1>2. CASE Starts
  BY <1>2, StartsOK
<1>3. CASE Resumes
  BY <1>3, ResumesOK
<1>4. CASE Concludes
  BY <1>4, ConcludesOK
<1>5. CASE Crash
  BY <1>5, CrashOK
<1>6. CASE Restart
  BY <1>6, RestartOK
<1>7. ASSUME NEW s \in Slots, Spawn(s) \/ Worker(s) PROVE StepOK
  BY <1>7, SpawnOrWorkerOK
<1>8. ASSUME NEW t \in Tasks, Attempt(t) PROVE StepOK
  BY <1>8, AttemptOK
<1>9. ASSUME NEW t \in Tasks, NEW status \in Ended, CrashInFinish(t, status) PROVE StepOK
  BY <1>9, CrashInFinishOK
<1>10. ASSUME NEW c \in Cancels, CancelLoads(c) PROVE StepOK
  BY <1>10, CancelLoadsOK
<1>11. ASSUME NEW c \in Cancels, InterruptBegins(c) PROVE StepOK
  BY <1>11, CancelBeginsOK DEF InterruptBegins
<1>12. ASSUME NEW c \in Cancels, Cancel(c) PROVE StepOK
  <2>1. CASE JobCancelBegins(c)
    BY <2>1, CancelBeginsOK DEF JobCancelBegins
  <2>2. ASSUME NEW s \in Slots, NEW stops \in BOOLEAN, CancelStopsWorker(c, s, stops)
        PROVE  StepOK
    BY <2>2, CancelStopsWorkerOK
  <2>3. CASE CancelStores(c)
    BY <2>3, CancelStoresOK
  <2> QED
    BY <1>12, <2>1, <2>2, <2>3 DEF Cancel
<1> QED
  BY <1>1, <1>2, <1>3, <1>4, <1>5, <1>6, <1>7, <1>8, <1>9, <1>10, <1>11, <1>12 DEF Next

-----------------------------------------------------------------------------
(* The theorems.                                                           *)

LEMMA Invariance == Spec => []IInv
<1>1. IInv /\ [Next]_vars => IInv'
  BY NextOK DEF StepOK
<1> QED
  BY <1>1, InitOK, PTL DEF Spec

\* Every variable has its type; a task of the scheduler has an attempt while it
\* runs, and none is both running and settled.
THEOREM TypeCorrect == Spec => []TypeOK
<1>1. IInv => TypeOK
  <2> SUFFICES ASSUME IInv PROVE TypeOK
    OBVIOUS
  <2>1. /\ stored.status \in {"absent", "running", "completed", "failed", "cancelled"}
        /\ stored.results \in [Tasks -> Results]
    BY DEF IInv, StoreInv, Snapshot
  <2>2. run \in Locals /\ run.ready \subseteq Unstarted(run)
        /\ \A t \in Active(run) : /\ run.results[t] = "none"
                                  /\ run.known[t] \in 0..run.attempt[t]
                                  /\ run.attempt[t] \in 1..Attempts[t]
    BY DEF IInv, SchedulerInv, Sane
  <2>3. \A c \in Cancels : cancel[c].at \in {"idle", "loaded", "stopping", "done"}
    BY DEF IInv, CancelInv
  <2> QED
    BY <2>1, <2>2, <2>3 DEF TypeOK, IInv, WorkerInv
<1> QED
  BY <1>1, Invariance, PTL

\* Workers that may write the same files, or two of one task, are at work
\* together only when a hard timeout has given one of them up.
THEOREM WritersKeptApart == Spec => []WritersOverlapOnlyAfterTimeout
<1>1. IInv => WritersOverlapOnlyAfterTimeout
  <2> SUFFICES ASSUME IInv, NEW s \in Busy, NEW r \in Busy, s # r,
                      s[1] = r[1] \/ <<s[1], r[1]>> \in Conflicts,
                      ~(GivenUp(s) /\ s[1] \in Timed), ~(GivenUp(r) /\ r[1] \in Timed)
               PROVE  FALSE
    BY DEF WritersOverlapOnlyAfterTimeout
  <2>1. /\ s = <<s[1], s[2]>> /\ r = <<r[1], r[2]>> /\ s[1] \in Tasks /\ r[1] \in Tasks
    BY SlotsArePairs DEF Busy
  <2>2. ~GivenUp(s) /\ ~GivenUp(r)
    BY DEF IInv, WorkerInv
  <2>3. /\ s[1] \in Active(run) /\ r[1] \in Active(run)
        /\ run.attempt[s[1]] = s[2] /\ run.attempt[r[1]] = r[2]
    BY <2>1, <2>2 DEF GivenUp, Active
  <2>4. s[1] # r[1]
    BY <2>1, <2>3
  <2> QED
    BY <2>3, <2>4 DEF IInv, SchedulerInv, Sane
<1> QED
  BY <1>1, Invariance, PTL

\* What the store says of a workflow that nobody has cancelled follows from what
\* its tasks did.
THEOREM OutcomesAreEarned == Spec => []OutcomesEarned
<1>1. IInv => OutcomesEarned
  BY DEF IInv
<1> QED
  BY <1>1, Invariance, PTL

\* A task starts only when what it depends on is done, no cancellation has begun
\* and the store knows no result of it.
THEOREM TasksStartWhenDue == Spec => StartsAreDue
<1>1. IInv /\ [Next]_vars => [StartsWhenDue]_vars
  BY NextOK DEF StepOK
<1> QED
  BY <1>1, Invariance, PTL DEF Spec, StartsAreDue

\* A result and a verdict, once stored, stay over crashes, recovery and
\* resumption; only a cancellation that began earlier overwrites them.
THEOREM StoredResultsStay == Spec => StoredOnlyGrows
<1>1. IInv /\ [Next]_vars => [StoredStays]_vars
  BY NextOK DEF StepOK
<1> QED
  BY <1>1, Invariance, PTL DEF Spec, StoredOnlyGrows

=============================================================================
