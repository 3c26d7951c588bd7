--------------------------- MODULE CollectorPullProofs ---------------------------
(***************************************************************************)
(* No wake-up is lost, no place leaks, and what a worker hears of its      *)
(* result is true, for every number of calls, collectors, workers, pulls,  *)
(* places and attempts.                                                    *)
(*                                                                         *)
(* The argument follows a task from hand to hand.  Before it is claimed    *)
(* nobody has it; then one pull carries it, and nobody else; then workers  *)
(* hold it and post its result; and whoever has it, the task is claimed,   *)
(* completed or given up.  The queue of a collector holds its pending      *)
(* tasks once each, so a pull that finds none leaves none behind.          *)
(***************************************************************************)
EXTENDS CollectorPull, SequenceTheorems, WellFoundedInduction, TLAPS

Once(q) == \A i, j \in 1..Len(q) : q[i] = q[j] => i = j

-----------------------------------------------------------------------------
(* Queues without repetitions.                                             *)

\* What is left of a queue when the element at i is taken out.
LEMMA RemoveAtIs ==
  ASSUME NEW S, NEW q \in Seq(S), NEW i \in 1..Len(q), Once(q)
  PROVE  /\ RemoveAt(q, i) \in Seq(S) /\ Once(RemoveAt(q, i))
         /\ \A t : Contains(RemoveAt(q, i), t) <=> Contains(q, t) /\ t # q[i]
<1> DEFINE a == SubSeq(q, 1, i - 1)
           b == SubSeq(q, i + 1, Len(q))
           r == a \o b
<1>1. /\ a \in Seq(S) /\ Len(a) = i - 1
      /\ \A k \in 1..Len(a) : a[k] = q[k]
  BY SubSeqProperties
<1>2. /\ b \in Seq(S) /\ Len(b) = Len(q) - i
      /\ \A k \in 1..Len(b) : b[k] = q[i + k]
  BY SubSeqProperties
<1>3. /\ r \in Seq(S) /\ Len(r) = Len(q) - 1
      /\ \A k \in 1..Len(r) : r[k] = IF k < i THEN q[k] ELSE q[k + 1]
  <2> HIDE DEF a, b
  <2>1. /\ a \o b \in Seq(S) /\ Len(a \o b) = Len(a) + Len(b)
        /\ \A k \in 1..Len(a) + Len(b) : (a \o b)[k] = IF k <= Len(a) THEN a[k] ELSE b[k - Len(a)]
    BY <1>1, <1>2, ConcatProperties
  <2> QED
    BY <1>1, <1>2, <2>1
<1>4. r = RemoveAt(q, i)
  BY DEF RemoveAt
<1> HIDE DEF r
<1>5. Once(r)
  BY <1>3 DEF Once
<1>6. ASSUME NEW t, Contains(r, t) PROVE Contains(q, t) /\ t # q[i]
  BY <1>3, <1>6 DEF Contains, Once
<1>7. ASSUME NEW t, Contains(q, t), t # q[i] PROVE Contains(r, t)
  <2>1. PICK k \in 1..Len(q) : q[k] = t
    BY <1>7 DEF Contains
  <2>2. CASE k < i
    BY <1>3, <2>1, <2>2 DEF Contains
  <2>3. CASE k > i
    <3>1. k - 1 \in 1..Len(r) /\ r[k - 1] = t
      BY <1>3, <2>1, <2>3
    <3> QED
      BY <3>1 DEF Contains
  <2> QED
    BY <1>7, <2>1, <2>2, <2>3
<1> QED
  BY <1>3, <1>4, <1>5, <1>6, <1>7

\* What follows the element at i.
LEMMA RestIs ==
  ASSUME NEW S, NEW q \in Seq(S), NEW i \in 1..Len(q), Once(q)
  PROVE  /\ SubSeq(q, i + 1, Len(q)) \in Seq(S) /\ Once(SubSeq(q, i + 1, Len(q)))
         /\ \A t : Contains(SubSeq(q, i + 1, Len(q)), t) <=> \E k \in i + 1..Len(q) : q[k] = t
<1> DEFINE b == SubSeq(q, i + 1, Len(q))
<1>1. /\ b \in Seq(S) /\ Len(b) = Len(q) - i
      /\ \A k \in 1..Len(b) : b[k] = q[i + k]
  BY SubSeqProperties
<1> HIDE DEF b
<1>2. Once(b)
  BY <1>1 DEF Once
<1>3. ASSUME NEW t, Contains(b, t) PROVE \E k \in i + 1..Len(q) : q[k] = t
  <2>1. PICK k \in 1..Len(b) : b[k] = t
    BY <1>3 DEF Contains
  <2>2. i + k \in i + 1..Len(q) /\ q[i + k] = t
    BY <1>1, <2>1
  <2> QED
    BY <2>2
<1>4. ASSUME NEW t, NEW k \in i + 1..Len(q), q[k] = t PROVE Contains(b, t)
  <2>1. k - i \in 1..Len(b) /\ b[k - i] = t
    BY <1>1, <1>4
  <2> QED
    BY <2>1 DEF Contains
<1> QED
  BY <1>1, <1>2, <1>3, <1>4 DEF b

\* A set of numbers that is not empty has a least element.
LEMMA MinIsIn ==
  ASSUME NEW I \in SUBSET Nat, I # {}
  PROVE  Min(I) \in I
<1> DEFINE Less == {ss \in Nat \X Nat : ss[1] < ss[2]}
<1>1. OpToRel(<, Nat) = Less
  BY DEF OpToRel
<1>2. PICK x \in I : \A y \in I : <<y, x>> \notin Less
  BY <1>1, WFMin, NatLessThanWellFounded
<1>3. ASSUME NEW y \in I PROVE x <= y
  <2>1. <<y, x>> \in Less <=> <<y, x>> \in Nat \X Nat /\ <<y, x>>[1] < <<y, x>>[2]
    OBVIOUS
  <2>2. <<y, x>> \in Less <=> y < x
    BY <2>1
  <2>3. ~(y < x)
    BY <1>2, <2>2
  <2> QED
    BY <2>3
<1> QED
  BY <1>3 DEF Min

LEMMA RemoveFirstIs ==
  ASSUME NEW S, NEW q \in Seq(S), NEW e, Once(q)
  PROVE  /\ RemoveFirst(q, e) \in Seq(S) /\ Once(RemoveFirst(q, e))
         /\ \A t : Contains(RemoveFirst(q, e), t) <=> Contains(q, t) /\ t # e
<1>1. CASE \E i \in 1..Len(q) : q[i] = e
  <2> DEFINE I == {i \in 1..Len(q) : q[i] = e}
  <2>1. Min(I) \in I
    <3>1. I \in SUBSET Nat /\ I # {}
      BY <1>1
    <3> QED
      BY <3>1, MinIsIn
  <2>2. RemoveFirst(q, e) = RemoveAt(q, Min(I))
    BY <1>1 DEF RemoveFirst, SelectInSeq
  <2> HIDE DEF I
  <2>3. Min(I) \in 1..Len(q) /\ q[Min(I)] = e
    BY <2>1 DEF I
  <2> QED
    BY <2>2, <2>3, RemoveAtIs
<1>2. CASE ~ \E i \in 1..Len(q) : q[i] = e
  BY <1>2 DEF RemoveFirst, Contains
<1> QED
  BY <1>1, <1>2

-----------------------------------------------------------------------------
(* The invariant.                                                          *)

USE BoundAssumption, TaskAssumption, WorkerAssumption

\* Where a task can be, besides the broker.
Carried(t) == \E p \in Pulls : carries[p] = t
Kept(t) == \E w \in Workers : held[w] = t
Posted(t) == \E m \in posts : m.task = t

\* Nobody has a task that was not claimed.
Unclaimed == \A t \in Tasks : caller[t] = "new" \/ tasks[t] = "pending" =>
                ~Carried(t) /\ ~Kept(t) /\ ~Posted(t) /\ t \notin completed /\ t \notin result

\* Nobody else has a task that an answer carries.
Carry == /\ \A t \in Tasks : Carried(t) => ~Kept(t) /\ ~Posted(t) /\ t \notin completed
         /\ \A p, q \in Pulls : carries[p] = carries[q] /\ carries[p] # NoTask => p = q

\* Whoever has a task has one the broker knows, unless its call gave up.
Known == \A t \in Tasks : Carried(t) \/ Kept(t) \/ Posted(t) =>
            tasks[t] = "claimed" \/ t \in completed \/ caller[t] = "gone"

\* The call of a completed task returned its result, or finds it.
Results == \A t \in completed : caller[t] = "answered" \/ t \in result

\* Answers carry tasks and workers work on tasks.
Tasked == /\ \A p \in Pulls : phase[p] = "sent" => carries[p] \in Tasks
          /\ \A w \in Workers : step[w] \in {"asking", "telling"} => held[w] \in Tasks

Queues == \A c \in Collectors : Once(pending[c])

PullInv == /\ TypeOK /\ Queues /\ PlacesHaveCallers /\ NoLostWakeup
           /\ Unclaimed /\ Carry /\ Known /\ Results /\ Tasked /\ ToldTheTruth

\* What follows from the hands alone.
Hands == Carry /\ Tasked

LEMMA HandsFrame ==
  ASSUME Hands, UNCHANGED <<carries, held, posts, step>>,
         \A p \in Pulls : phase'[p] = "sent" => phase[p] = "sent",
         \A t \in Tasks : Carried(t) /\ t \in completed' => t \in completed
  PROVE  Hands' /\ \A t : Carried(t)' = Carried(t) /\ Kept(t)' = Kept(t) /\ Posted(t)' = Posted(t)
<1>1. \A t : Carried(t)' = Carried(t) /\ Kept(t)' = Kept(t) /\ Posted(t)' = Posted(t)
  BY DEF Carried, Kept, Posted
<1> QED
  BY <1>1 DEF Hands, Carry, Tasked

\* The call of a task: it enters the queue.
LEMMA SubmitStep ==
  ASSUME PullInv, NEW t \in Tasks, Submit(t)
  PROVE  PullInv'
<1>1. /\ TypeOK /\ Queues /\ PlacesHaveCallers /\ NoLostWakeup
      /\ Unclaimed /\ Carry /\ Known /\ Results /\ Tasked /\ ToldTheTruth
  BY DEF PullInv
<1> DEFINE c == aimed[t]
<1>2. c \in Collectors /\ pending[c] \in Seq(Tasks)
  BY <1>1 DEF TypeOK
<1>3. /\ \A u \in Tasks : tasks'[u] = IF u = t THEN "pending" ELSE tasks[u]
      /\ \A u \in Tasks : caller'[u] = IF u = t THEN "waiting" ELSE caller[u]
      /\ \A d \in Collectors : pending'[d] = IF d = c THEN Append(pending[c], t) ELSE pending[d]
      /\ \A p \in Pulls : phase'[p] =
            IF phase[p] = "parked" /\ source[p] = c THEN "woken" ELSE phase[p]
  BY <1>1, <1>2 DEF Submit, signalLocked, TypeOK
<1>4. UNCHANGED <<aimed, completed, result, source, client, carries, workers, posts, told>>
  BY DEF Submit
<1>5. /\ caller[t] = "new" /\ tasks[t] = "none" /\ t \notin result /\ t \notin completed
      /\ ~Carried(t) /\ ~Kept(t) /\ ~Posted(t)
  <2>1. caller[t] = "new"
    BY DEF Submit
  <2>2. tasks[t] = "none"
    BY <1>1, <2>1 DEF PlacesHaveCallers
  <2> QED
    BY <1>1, <2>1, <2>2 DEF Unclaimed
<1>6. Append(pending[c], t) \in Seq(Tasks) /\ ~Contains(pending[c], t)
  BY <1>1, <1>2, <1>5, AppendProperties DEF PlacesHaveCallers
<1>7. TypeOK'
  <2>1. pending' \in [Collectors -> Seq(Tasks)]
    BY <1>1, <1>2, <1>6 DEF Submit, TypeOK
  <2>2. tasks' \in [Tasks -> {"none", "pending", "claimed"}]
    BY <1>1 DEF Submit, TypeOK
  <2>3. caller' \in [Tasks -> {"new", "waiting", "leaving", "busy", "gone", "answered"}]
    BY <1>1 DEF Submit, TypeOK
  <2>4. phase' \in [Pulls -> {"free", "ready", "parked", "woken", "sent"}]
    BY <1>1 DEF Submit, signalLocked, TypeOK
  <2> QED
    BY <1>1, <1>4, <2>1, <2>2, <2>3, <2>4 DEF TypeOK, workers
<1>8. Once(Append(pending[c], t)) /\ \A u : Contains(Append(pending[c], t), u) <=>
                                          Contains(pending[c], u) \/ u = t
  <2> DEFINE q == pending[c]
             r == Append(q, t)
  <2>1. /\ Len(q) \in Nat /\ Len(r) = Len(q) + 1
        /\ \A i \in 1..Len(q) : r[i] = q[i]
        /\ r[Len(q) + 1] = t
    BY <1>2, AppendProperties
  <2>2. \A i \in 1..Len(r) : i \in 1..Len(q) \/ i = Len(q) + 1
    BY <2>1
  <2>3. \A i \in 1..Len(q) : q[i] # t
    BY <1>6 DEF Contains
  <2>4. \A i, j \in 1..Len(q) : q[i] = q[j] => i = j
    BY <1>1, <1>2 DEF Queues, Once
  <2> HIDE DEF q, r
  <2>5. Once(r)
    BY <2>1, <2>2, <2>3, <2>4 DEF Once
  <2>6. \A u : Contains(r, u) <=> Contains(q, u) \/ u = t
    <3>1. ASSUME NEW u, Contains(r, u) PROVE Contains(q, u) \/ u = t
      BY <2>1, <2>2, <3>1 DEF Contains
    <3>2. ASSUME NEW u, Contains(q, u) PROVE Contains(r, u)
      BY <2>1, <3>2 DEF Contains
    <3>3. Contains(r, t)
      BY <2>1 DEF Contains
    <3> QED
      BY <3>1, <3>2, <3>3
  <2> QED
    BY <2>5, <2>6 DEF q, r
<1>9. Queues'
  BY <1>1, <1>3, <1>8 DEF Queues
<1>10. PlacesHaveCallers'
  BY <1>1, <1>2, <1>3, <1>4, <1>5, <1>8 DEF PlacesHaveCallers
<1>11. NoLostWakeup'
  BY <1>1, <1>3, <1>4 DEF NoLostWakeup
<1>12. Hands' /\ \A u : Carried(u)' = Carried(u) /\ Kept(u)' = Kept(u) /\ Posted(u)' = Posted(u)
  <2>1. \A p \in Pulls : phase'[p] = "sent" => phase[p] = "sent"
    BY <1>3
  <2> QED
    BY <1>1, <1>4, <2>1, HandsFrame DEF Hands, workers
<1>13. Unclaimed'
  BY <1>1, <1>3, <1>4, <1>5, <1>12 DEF Unclaimed
<1>14. Known'
  BY <1>1, <1>3, <1>4, <1>5, <1>12 DEF Known
<1>15. Results'
  BY <1>1, <1>3, <1>4, <1>5 DEF Results, TypeOK
<1>16. ToldTheTruth'
  BY <1>1, <1>3, <1>4, <1>5 DEF ToldTheTruth
<1> QED
  BY <1>7, <1>9, <1>10, <1>11, <1>12, <1>13, <1>14, <1>15, <1>16 DEF PullInv, Hands

\* The call returns, gives up or finds the collector busy.
LEMMA CallerStep ==
  ASSUME PullInv, NEW t \in Tasks, SubmitBusy(t) \/ Return(t) \/ GiveUp(t)
  PROVE  PullInv'
<1>1. /\ TypeOK /\ Queues /\ PlacesHaveCallers /\ NoLostWakeup
      /\ Unclaimed /\ Carry /\ Known /\ Results /\ Tasked /\ ToldTheTruth
  BY DEF PullInv
<1>2. UNCHANGED <<tasks, aimed, pending, completed, polls, workers, posts, told>>
  BY DEF SubmitBusy, Return, GiveUp, broker
<1>3. PICK d \in {"busy", "answered", "leaving"} :
        /\ caller' = [caller EXCEPT ![t] = d]
        /\ \/ d = "busy" /\ caller[t] = "new" /\ result' = result
           \/ d = "answered" /\ caller[t] = "waiting" /\ t \in result /\ result' = result \ {t}
           \/ d = "leaving" /\ caller[t] = "waiting" /\ result' = result
  BY DEF SubmitBusy, Return, GiveUp, broker
<1>4. \A u \in Tasks : caller'[u] = IF u = t THEN d ELSE caller[u]
  BY <1>1, <1>3 DEF TypeOK
<1>5. \A u \in Tasks : u # t => (u \in result' <=> u \in result)
  BY <1>3
<1>6. TypeOK'
  BY <1>1, <1>2, <1>3 DEF TypeOK, polls, workers
<1>7. Queues' /\ NoLostWakeup'
  BY <1>1, <1>2 DEF Queues, NoLostWakeup, polls
<1>8. PlacesHaveCallers'
  <2>1. \A u \in Tasks : tasks[u] # "none" =>
           caller'[u] \in {"waiting", "leaving"} /\ u \notin result'
    BY <1>1, <1>3, <1>4, <1>5 DEF PlacesHaveCallers
  <2> QED
    BY <1>1, <1>2, <2>1 DEF PlacesHaveCallers
<1>9. Hands' /\ \A u : Carried(u)' = Carried(u) /\ Kept(u)' = Kept(u) /\ Posted(u)' = Posted(u)
  BY <1>1, <1>2, HandsFrame DEF Hands, workers, polls
<1>10. Unclaimed'
  <2>1. \A u \in Tasks : caller'[u] = "new" => caller[u] = "new"
    BY <1>3, <1>4
  <2>2. \A u \in Tasks : u \in result' => u \in result
    BY <1>3
  <2> QED
    BY <1>1, <1>2, <1>9, <2>1, <2>2 DEF Unclaimed
<1>11. Known'
  <2>1. \A u \in Tasks : caller[u] = "gone" => caller'[u] = "gone"
    BY <1>3, <1>4
  <2> QED
    BY <1>1, <1>2, <1>9, <2>1 DEF Known
<1>12. Results'
  <2>1. \A u \in Tasks : caller[u] = "answered" \/ u \in result =>
                          caller'[u] = "answered" \/ u \in result'
    BY <1>3, <1>4, <1>5
  <2> QED
    BY <1>1, <1>2, <2>1 DEF Results, TypeOK
<1>13. ToldTheTruth'
  <2>1. \A u \in Tasks : /\ caller[u] = "answered" \/ u \in result =>
                               caller'[u] = "answered" \/ u \in result'
                         /\ caller[u] = "gone" => caller'[u] = "gone"
    BY <1>3, <1>4, <1>5
  <2> QED
    BY <1>1, <1>2, <2>1 DEF ToldTheTruth
<1> QED
  BY <1>6, <1>7, <1>8, <1>9, <1>10, <1>11, <1>12, <1>13 DEF PullInv, Hands

\* A task is given up, whoever has it.
LEMMA CancelStep ==
  ASSUME PullInv, NEW t \in Tasks, cancel(t)
  PROVE  PullInv'
<1>1. /\ TypeOK /\ Queues /\ PlacesHaveCallers /\ NoLostWakeup
      /\ Unclaimed /\ Carry /\ Known /\ Results /\ Tasked /\ ToldTheTruth
  BY DEF PullInv
<1>2. UNCHANGED <<aimed, completed, result, polls, workers, posts, told>>
  BY DEF cancel
<1>3. /\ caller[t] = "leaving"
      /\ \A u \in Tasks : caller'[u] = IF u = t THEN "gone" ELSE caller[u]
      /\ \A u \in Tasks : tasks'[u] = IF u = t THEN "none" ELSE tasks[u]
  BY <1>1 DEF cancel, TypeOK
<1>4. /\ aimed[t] \in Collectors /\ pending[aimed[t]] \in Seq(Tasks)
      /\ Once(pending[aimed[t]])
  BY <1>1 DEF TypeOK, Queues
<1>5. /\ RemoveFirst(pending[aimed[t]], t) \in Seq(Tasks)
      /\ Once(RemoveFirst(pending[aimed[t]], t))
      /\ \A u : Contains(RemoveFirst(pending[aimed[t]], t), u) <=>
                  Contains(pending[aimed[t]], u) /\ u # t
  BY <1>4, RemoveFirstIs
<1>6. \A c \in Collectors :
        pending'[c] = IF tasks[t] = "pending" /\ c = aimed[t]
                      THEN RemoveFirst(pending[aimed[t]], t) ELSE pending[c]
  BY <1>1 DEF cancel, TypeOK
<1>7. TypeOK'
  <2>1. pending' \in [Collectors -> Seq(Tasks)]
    BY <1>1, <1>5 DEF cancel, TypeOK
  <2>2. /\ tasks' \in [Tasks -> {"none", "pending", "claimed"}]
        /\ caller' \in [Tasks -> {"new", "waiting", "leaving", "busy", "gone", "answered"}]
    BY <1>1 DEF cancel, TypeOK
  <2> QED
    BY <1>1, <1>2, <2>1, <2>2 DEF TypeOK, polls, workers
<1>8. Queues'
  BY <1>1, <1>5, <1>6 DEF Queues
<1>9. NoLostWakeup'
  BY <1>1, <1>2, <1>3 DEF NoLostWakeup, polls
<1>10. PlacesHaveCallers'
  <2>1. ASSUME NEW u \in Tasks, NEW c \in Collectors
        PROVE  Contains(pending'[c], u) <=> tasks'[u] = "pending" /\ aimed[u] = c
    <3>1. Contains(pending[c], u) <=> tasks[u] = "pending" /\ aimed[u] = c
      BY <1>1 DEF PlacesHaveCallers
    <3>2. CASE tasks[t] = "pending" /\ c = aimed[t]
      BY <1>3, <1>5, <1>6, <3>1, <3>2
    <3>3. CASE ~(tasks[t] = "pending" /\ c = aimed[t])
      BY <1>3, <1>6, <3>1, <3>3
    <3> QED
      BY <3>2, <3>3
  <2> QED
    BY <1>1, <1>2, <1>3, <2>1 DEF PlacesHaveCallers
<1>11. Hands' /\ \A u : Carried(u)' = Carried(u) /\ Kept(u)' = Kept(u) /\ Posted(u)' = Posted(u)
  BY <1>1, <1>2, HandsFrame DEF Hands, workers, polls
<1>12. Unclaimed'
  BY <1>1, <1>2, <1>3, <1>11 DEF Unclaimed
<1>13. Known'
  BY <1>1, <1>2, <1>3, <1>11 DEF Known
<1>14. Results'
  BY <1>1, <1>2, <1>3 DEF Results, TypeOK
<1>15. ToldTheTruth'
  BY <1>1, <1>2, <1>3 DEF ToldTheTruth
<1> QED
  BY <1>7, <1>8, <1>9, <1>10, <1>11, <1>12, <1>13, <1>14, <1>15 DEF PullInv, Hands

\* The broker forgets a result that nobody posts again.
LEMMA CleanupStep ==
  ASSUME PullInv, NEW t \in Tasks, cleanupCompletedLocked(t)
  PROVE  PullInv'
<1>1. /\ TypeOK /\ Queues /\ PlacesHaveCallers /\ NoLostWakeup
      /\ Unclaimed /\ Carry /\ Known /\ Results /\ Tasked /\ ToldTheTruth
  BY DEF PullInv
<1>2. UNCHANGED <<tasks, aimed, pending, result, caller, polls, workers, posts, told>>
  BY DEF cleanupCompletedLocked
<1>3. t \in completed /\ completed' = completed \ {t} /\ ~Kept(t) /\ ~Posted(t)
  BY DEF cleanupCompletedLocked, Kept, Posted
<1>4. ~Carried(t)
  BY <1>1, <1>3 DEF Carry
<1>5. Hands' /\ \A u : Carried(u)' = Carried(u) /\ Kept(u)' = Kept(u) /\ Posted(u)' = Posted(u)
  BY <1>1, <1>2, <1>3, HandsFrame DEF Hands, workers, polls
<1>6. TypeOK'
  BY <1>1, <1>2, <1>3 DEF TypeOK, polls, workers
<1>7. Queues' /\ NoLostWakeup' /\ PlacesHaveCallers' /\ ToldTheTruth'
  BY <1>1, <1>2 DEF Queues, NoLostWakeup, PlacesHaveCallers, ToldTheTruth, polls
<1>8. Unclaimed' /\ Results'
  BY <1>1, <1>2, <1>3, <1>5 DEF Unclaimed, Results
<1>9. Known'
  BY <1>1, <1>2, <1>3, <1>4, <1>5 DEF Known
<1> QED
  BY <1>5, <1>6, <1>7, <1>8, <1>9 DEF PullInv, Hands

\* A pull takes the first task of its collector's queue.
LEMMA ClaimStep ==
  ASSUME PullInv, NEW p \in Pulls, Claim(p)
  PROVE  PullInv'
<1>1. /\ TypeOK /\ Queues /\ PlacesHaveCallers /\ NoLostWakeup
      /\ Unclaimed /\ Carry /\ Known /\ Results /\ Tasked /\ ToldTheTruth
  BY DEF PullInv
<1> DEFINE c == source[p]
           q == pending[c]
<1>2. c \in Collectors /\ q \in Seq(Tasks) /\ Once(q) /\ Len(q) \in Nat
  BY <1>1 DEF TypeOK, Queues
<1>3. PICK i \in 1..Len(q) :
        /\ NonePending(SubSeq(q, 1, i - 1)) /\ tasks[q[i]] = "pending"
        /\ tasks' = [tasks EXCEPT ![q[i]] = "claimed"]
        /\ pending' = [pending EXCEPT ![c] = SubSeq(q, i + 1, Len(q))]
        /\ carries' = [carries EXCEPT ![p] = q[i]]
  BY DEF Claim
<1> DEFINE t == q[i]
           rest == SubSeq(q, i + 1, Len(q))
<1>4. t \in Tasks /\ tasks[t] = "pending" /\ aimed[t] = c
  <2>1. t \in Tasks /\ Contains(q, t)
    BY <1>2 DEF Contains
  <2> QED
    BY <1>1, <1>2, <2>1 DEF PlacesHaveCallers
<1>5. i = 1
  <2>1. SUFFICES ASSUME i > 1 PROVE FALSE
    OBVIOUS
  <2>2. Len(SubSeq(q, 1, i - 1)) = i - 1 /\ SubSeq(q, 1, i - 1)[1] = q[1]
    BY <1>2, <2>1, SubSeqProperties
  <2>3. tasks[q[1]] # "pending"
    BY <1>3, <2>1, <2>2 DEF NonePending
  <2>4. q[1] \in Tasks /\ Contains(q, q[1])
    BY <1>2, <2>1 DEF Contains
  <2> QED
    BY <1>1, <1>2, <2>3, <2>4 DEF PlacesHaveCallers
<1>6. /\ rest \in Seq(Tasks) /\ Once(rest)
      /\ \A u : Contains(rest, u) <=> Contains(q, u) /\ u # t
  <2>1. /\ rest \in Seq(Tasks) /\ Once(rest)
        /\ \A u : Contains(rest, u) <=> \E k \in i + 1..Len(q) : q[k] = u
    BY <1>2, RestIs
  <2>2. \A u : (\E k \in i + 1..Len(q) : q[k] = u) <=> Contains(q, u) /\ u # t
    BY <1>2, <1>5 DEF Contains, Once
  <2> QED
    BY <2>1, <2>2
<1> HIDE DEF t, rest
<1>7. /\ \A u \in Tasks : tasks'[u] = IF u = t THEN "claimed" ELSE tasks[u]
      /\ \A d \in Collectors : pending'[d] = IF d = c THEN rest ELSE pending[d]
      /\ \A r \in Pulls : carries'[r] = IF r = p THEN t ELSE carries[r]
      /\ \A r \in Pulls : phase'[r] = IF r = p THEN "sent" ELSE phase[r]
  BY <1>1, <1>2, <1>3, <1>4 DEF Claim, TypeOK, t, rest
<1>8. UNCHANGED <<aimed, completed, result, caller, source, client, workers, posts, told>>
  BY DEF Claim
<1>9. TypeOK'
  <2>1. /\ tasks' = [tasks EXCEPT ![t] = "claimed"] /\ pending' = [pending EXCEPT ![c] = rest]
        /\ carries' = [carries EXCEPT ![p] = t] /\ phase' = [phase EXCEPT ![p] = "sent"]
    BY <1>3 DEF Claim, t, rest
  <2>2. /\ tasks' \in [Tasks -> {"none", "pending", "claimed"}]
        /\ pending' \in [Collectors -> Seq(Tasks)]
        /\ carries' \in [Pulls -> Tasks \cup {NoTask}]
        /\ phase' \in [Pulls -> {"free", "ready", "parked", "woken", "sent"}]
    BY <1>1, <1>4, <1>6, <2>1 DEF TypeOK
  <2> QED
    BY <1>1, <1>8, <2>2 DEF TypeOK, workers
<1>10. Queues'
  BY <1>1, <1>6, <1>7 DEF Queues
<1>11. NoLostWakeup'
  BY <1>1, <1>7, <1>8 DEF NoLostWakeup
<1>12. PlacesHaveCallers'
  <2>1. ASSUME NEW u \in Tasks, NEW d \in Collectors
        PROVE  Contains(pending'[d], u) <=> tasks'[u] = "pending" /\ aimed[u] = d
    <3>1. Contains(pending[d], u) <=> tasks[u] = "pending" /\ aimed[u] = d
      BY <1>1 DEF PlacesHaveCallers
    <3>2. CASE d = c
      BY <1>6, <1>7, <3>1, <3>2
    <3>3. CASE d # c
      BY <1>4, <1>7, <3>1, <3>3
    <3> QED
      BY <3>2, <3>3
  <2>2. \A u \in Tasks : tasks'[u] # "none" => caller[u] \in {"waiting", "leaving"} /\ u \notin result
    BY <1>1, <1>4, <1>7 DEF PlacesHaveCallers
  <2> QED
    BY <1>8, <2>1, <2>2 DEF PlacesHaveCallers
<1>13. /\ \A u : Carried(u)' => Carried(u) \/ u = t
       /\ \A u : Kept(u)' = Kept(u) /\ Posted(u)' = Posted(u)
  BY <1>7, <1>8 DEF Carried, Kept, Posted, workers
<1>14. ~Carried(t) /\ ~Kept(t) /\ ~Posted(t) /\ t \notin completed /\ t # NoTask
  BY <1>1, <1>4 DEF Unclaimed
<1>15. Carry'
  <2>1. \A u \in Tasks : Carried(u)' => ~Kept(u)' /\ ~Posted(u)' /\ u \notin completed'
    BY <1>1, <1>8, <1>13, <1>14 DEF Carry
  <2>2. \A r, s \in Pulls : carries'[r] = carries'[s] /\ carries'[r] # NoTask => r = s
    BY <1>1, <1>7, <1>14 DEF Carry, Carried
  <2> QED
    BY <2>1, <2>2 DEF Carry
<1>16. Tasked'
  BY <1>1, <1>4, <1>7, <1>8 DEF Tasked, workers
<1>17. Unclaimed'
  <2>1. caller[t] # "new"
    BY <1>1, <1>4 DEF PlacesHaveCallers
  <2> QED
    BY <1>1, <1>7, <1>8, <1>13, <2>1 DEF Unclaimed
<1>18. Known'
  BY <1>1, <1>7, <1>8, <1>13 DEF Known
<1>19. Results' /\ ToldTheTruth'
  BY <1>1, <1>8 DEF Results, ToldTheTruth
<1> QED
  BY <1>9, <1>10, <1>11, <1>12, <1>15, <1>16, <1>17, <1>18, <1>19 DEF PullInv

\* A pull that finds nothing to take leaves nothing behind.
LEMMA ParkStep ==
  ASSUME PullInv, NEW p \in Pulls, Park(p)
  PROVE  PullInv'
<1>1. /\ TypeOK /\ Queues /\ PlacesHaveCallers /\ NoLostWakeup
      /\ Unclaimed /\ Carry /\ Known /\ Results /\ Tasked /\ ToldTheTruth
  BY DEF PullInv
<1> DEFINE c == source[p]
<1>2. c \in Collectors
  BY <1>1 DEF TypeOK
<1>3. /\ \A d \in Collectors : pending'[d] = IF d = c THEN <<>> ELSE pending[d]
      /\ \A r \in Pulls : phase'[r] = IF r = p THEN "parked" ELSE phase[r]
  BY <1>1, <1>2 DEF Park, TypeOK
<1>4. UNCHANGED <<tasks, aimed, completed, result, caller, source, client, carries, workers,
                  posts, told>>
  BY DEF Park
<1>5. \A t \in Tasks : ~(tasks[t] = "pending" /\ aimed[t] = c)
  <2>1. \A i \in 1..Len(pending[c]) : tasks[pending[c][i]] # "pending"
    BY DEF Park, NonePending
  <2>2. \A t \in Tasks : Contains(pending[c], t) => tasks[t] # "pending"
    BY <2>1 DEF Contains
  <2> QED
    BY <1>1, <1>2, <2>2 DEF PlacesHaveCallers
<1>6. Once(<<>>) /\ \A u : ~Contains(<<>>, u)
  BY DEF Once, Contains
<1>7. TypeOK'
  <2>1. pending' \in [Collectors -> Seq(Tasks)]
    BY <1>1 DEF Park, TypeOK
  <2>2. phase' \in [Pulls -> {"free", "ready", "parked", "woken", "sent"}]
    BY <1>1 DEF Park, TypeOK
  <2> QED
    BY <1>1, <1>4, <2>1, <2>2 DEF TypeOK, workers
<1>8. Queues'
  BY <1>1, <1>3, <1>6 DEF Queues
<1>9. NoLostWakeup'
  BY <1>1, <1>3, <1>4, <1>5 DEF NoLostWakeup
<1>10. PlacesHaveCallers'
  <2>1. ASSUME NEW u \in Tasks, NEW d \in Collectors
        PROVE  Contains(pending'[d], u) <=> tasks[u] = "pending" /\ aimed[u] = d
    BY <1>1, <1>3, <1>5, <1>6 DEF PlacesHaveCallers
  <2> QED
    BY <1>1, <1>4, <2>1 DEF PlacesHaveCallers
<1>11. Hands' /\ \A u : Carried(u)' = Carried(u) /\ Kept(u)' = Kept(u) /\ Posted(u)' = Posted(u)
  <2>1. \A r \in Pulls : phase'[r] = "sent" => phase[r] = "sent"
    BY <1>3
  <2> QED
    BY <1>1, <1>4, <2>1, HandsFrame DEF Hands, workers
<1>12. Unclaimed' /\ Known'
  BY <1>1, <1>4, <1>11 DEF Unclaimed, Known
<1>13. Results' /\ ToldTheTruth'
  BY <1>1, <1>4 DEF Results, ToldTheTruth
<1> QED
  BY <1>7, <1>8, <1>9, <1>10, <1>11, <1>12, <1>13 DEF PullInv, Hands

\* A step outside the broker, which gives nobody a task that nobody had.
LEMMA BrokerFrame ==
  ASSUME PullInv, UNCHANGED <<broker, caller, told>>, TypeOK', Carry', Tasked',
         \A p \in Pulls : phase'[p] = "parked" => phase[p] = "parked" /\ source'[p] = source[p],
         \A t \in Tasks : Carried(t)' \/ Kept(t)' \/ Posted(t)' => Carried(t) \/ Kept(t) \/ Posted(t)
  PROVE  PullInv'
<1>1. Queues' /\ PlacesHaveCallers' /\ NoLostWakeup' /\ Results' /\ ToldTheTruth'
  BY DEF PullInv, Queues, PlacesHaveCallers, NoLostWakeup, Results, ToldTheTruth, broker
<1>2. Unclaimed' /\ Known'
  BY DEF PullInv, Unclaimed, Known, broker
<1> QED
  BY <1>1, <1>2 DEF PullInv

\* An answer to a pull, empty or with a task, reaches its worker or nobody.
LEMMA PollStep ==
  ASSUME PullInv, NEW p \in Pulls, PollEnds(p) \/ Deliver(p)
  PROVE  PullInv'
<1>1. TypeOK /\ Carry /\ Tasked
  BY DEF PullInv
<1>2. PICK s \in {"idle", "asking"}, t \in Tasks \cup {NoTask} :
        /\ Wake(p, s, t) /\ Free(p)
        /\ t = NoTask \/ t = carries[p]
        /\ s = "asking" => t \in Tasks
  <2>1. CASE PollEnds(p)
    BY <2>1 DEF PollEnds
  <2>2. CASE Deliver(p)
    BY <1>1, <2>2 DEF Deliver, Tasked
  <2> QED
    BY <2>1, <2>2
<1>3. UNCHANGED <<broker, caller, attempt, posts, told>>
  BY DEF PollEnds, Deliver
<1>4. /\ UNCHANGED source
      /\ \A r \in Pulls : phase'[r] = IF r = p THEN "free" ELSE phase[r]
      /\ \A r \in Pulls : carries'[r] = IF r = p THEN NoTask ELSE carries[r]
  BY <1>1, <1>2 DEF Free, TypeOK
<1>5. \A w \in Workers : /\ held'[w] = held[w] \/ held'[w] = t
                         /\ step'[w] \in {"asking", "telling"} => held'[w] \in Tasks
  BY <1>1, <1>2 DEF Wake, TypeOK, Tasked
<1>6. TypeOK'
  <2>1. /\ phase' \in [Pulls -> {"free", "ready", "parked", "woken", "sent"}]
        /\ client' \in [Pulls -> Workers \cup {NoWorker}]
        /\ carries' \in [Pulls -> Tasks \cup {NoTask}]
    BY <1>1, <1>2 DEF Free, TypeOK
  <2>2. /\ step' \in [Workers -> {"idle", "pulling", "asking", "telling"}]
        /\ held' \in [Workers -> Tasks \cup {NoTask}]
    <3>1. CASE client[p] = NoWorker
      BY <1>1, <1>2, <3>1 DEF Wake, TypeOK
    <3>2. CASE client[p] # NoWorker
      <4>1. /\ step' = [step EXCEPT ![client[p]] = s]
            /\ held' = [held EXCEPT ![client[p]] = t]
        BY <1>2, <3>2 DEF Wake
      <4>2. /\ step \in [Workers -> {"idle", "pulling", "asking", "telling"}]
            /\ held \in [Workers -> Tasks \cup {NoTask}]
        BY <1>1 DEF TypeOK
      <4> QED
        BY <1>2, <4>1, <4>2
    <3> QED
      BY <3>1, <3>2
  <2> QED
    BY <1>1, <1>3, <1>4, <2>1, <2>2 DEF TypeOK, broker
<1>7. \A u \in Tasks : /\ Carried(u)' => Carried(u) /\ u # carries[p]
                       /\ Kept(u)' => Kept(u) \/ u = carries[p]
                       /\ Posted(u)' = Posted(u)
  <2>1. ASSUME NEW u \in Tasks, Carried(u)' PROVE Carried(u) /\ u # carries[p]
    <3>1. PICK r \in Pulls : carries'[r] = u
      BY <2>1 DEF Carried
    <3>2. r # p /\ carries[r] = u
      BY <1>4, <3>1
    <3> QED
      BY <1>1, <3>2 DEF Carried, Carry
  <2> QED
    BY <1>2, <1>3, <1>5, <2>1 DEF Kept, Posted
<1>8. \A u \in Tasks : u = carries[p] => Carried(u)
  BY DEF Carried
<1>9. Carry'
  BY <1>1, <1>3, <1>4, <1>7 DEF Carry, broker
<1>10. Tasked'
  BY <1>1, <1>4, <1>5 DEF Tasked
<1>11. \A r \in Pulls : phase'[r] = "parked" => phase[r] = "parked" /\ source'[r] = source[r]
  BY <1>4
<1> QED
  BY <1>3, <1>6, <1>7, <1>8, <1>9, <1>10, <1>11, BrokerFrame

\* A worker pulls, fails to, works, or posts a result again.
LEMMA WorkerStep ==
  ASSUME PullInv, NEW w \in Workers, Pull(w) \/ PullFails(w) \/ Execute(w)
  PROVE  PullInv'
<1>1. TypeOK /\ Carry /\ Tasked
  BY DEF PullInv
<1>2. UNCHANGED <<broker, caller, carries, held, told>>
  BY DEF Pull, PullFails, Execute, polls
<1>3. \A r \in Pulls : /\ phase'[r] = "parked" => phase[r] = "parked" /\ source'[r] = source[r]
                       /\ phase'[r] = "sent" => phase[r] = "sent"
  BY <1>1 DEF Pull, PullFails, Execute, TypeOK, polls
<1>4. /\ \A v \in Workers : step'[v] \in {"asking", "telling"} => step[v] \in {"asking", "telling"}
      /\ \A u \in Tasks : Posted(u)' => Posted(u) \/ Kept(u)
  BY <1>1 DEF Pull, PullFails, Execute, TypeOK, Posted, Kept
<1>5. TypeOK'
  <2>1. CASE Pull(w)
    <3>1. CollectorOf(w) \in Collectors
      BY DEF Workers, CollectorOf
    <3>2. PICK p \in Pulls : /\ phase' = [phase EXCEPT ![p] = "ready"]
                             /\ source' = [source EXCEPT ![p] = CollectorOf(w)]
                             /\ client' = [client EXCEPT ![p] = w]
      BY <2>1 DEF Pull
    <3>3. /\ phase' \in [Pulls -> {"free", "ready", "parked", "woken", "sent"}]
          /\ source' \in [Pulls -> Collectors]
          /\ client' \in [Pulls -> Workers \cup {NoWorker}]
      BY <1>1, <3>1, <3>2 DEF TypeOK
    <3>4. step' \in [Workers -> {"idle", "pulling", "asking", "telling"}]
      BY <1>1, <2>1 DEF Pull, TypeOK
    <3> QED
      BY <1>1, <1>2, <2>1, <3>3, <3>4 DEF Pull, TypeOK, broker
  <2>2. CASE PullFails(w)
    BY <1>1, <1>2, <2>2 DEF PullFails, TypeOK, broker
  <2>3. CASE Execute(w)
    <3>1. [task |-> held[w], attempt |-> 1] \in Post
      BY <1>1, <2>3 DEF Execute, Tasked, Post
    <3>2. /\ posts' \subseteq Post
          /\ attempt' \in [Workers -> 0..MaxAttempts]
          /\ step' \in [Workers -> {"idle", "pulling", "asking", "telling"}]
      BY <1>1, <2>3, <3>1 DEF Execute, TypeOK
    <3> QED
      BY <1>1, <1>2, <2>3, <3>2 DEF Execute, TypeOK, broker, polls
  <2> QED
    BY <2>1, <2>2, <2>3
<1>6. \A u : Carried(u)' = Carried(u) /\ Kept(u)' = Kept(u)
  BY <1>2 DEF Carried, Kept
<1>7. Carry'
  BY <1>1, <1>2, <1>4, <1>6 DEF Carry, broker
<1>8. Tasked'
  BY <1>1, <1>2, <1>3, <1>4 DEF Tasked
<1>9. \A u \in Tasks : Carried(u)' \/ Kept(u)' \/ Posted(u)' => Carried(u) \/ Kept(u) \/ Posted(u)
  BY <1>4, <1>6
<1> QED
  BY <1>2, <1>3, <1>5, <1>7, <1>8, <1>9, BrokerFrame

\* A collector that starts again has no task.
LEMMA RestartStep ==
  ASSUME PullInv, NEW c \in Collectors, CollectorRestarts(c)
  PROVE  PullInv'
<1>1. TypeOK /\ Carry /\ Tasked
  BY DEF PullInv
<1>2. UNCHANGED <<broker, caller, phase, source, carries, posts, told>>
  BY DEF CollectorRestarts
<1>3. \A v \in Workers : \/ step'[v] = "idle" /\ held'[v] = NoTask
                         \/ step'[v] = step[v] /\ held'[v] = held[v]
  BY DEF CollectorRestarts
<1>4. TypeOK'
  BY <1>1 DEF CollectorRestarts, TypeOK, broker
<1>5. \A u \in Tasks : Carried(u)' = Carried(u) /\ (Kept(u)' => Kept(u)) /\ Posted(u)' = Posted(u)
  BY <1>2, <1>3 DEF Carried, Kept, Posted
<1>6. Carry'
  BY <1>1, <1>2, <1>5 DEF Carry, broker
<1>7. Tasked'
  BY <1>1, <1>2, <1>3 DEF Tasked
<1> QED
  BY <1>2, <1>4, <1>5, <1>6, <1>7, BrokerFrame

\* A worker posts again, or is through with its task.
LEMMA TellFailsStep ==
  ASSUME PullInv, NEW w \in Workers, TellFails(w)
  PROVE  PullInv'
<1>1. TypeOK /\ Carry /\ Tasked
  BY DEF PullInv
<1>2. UNCHANGED <<broker, caller, polls>> /\ step[w] = "telling" /\ held[w] \in Tasks
  BY <1>1 DEF TellFails, Tasked
<1>3. CASE /\ attempt[w] < MaxAttempts
           /\ attempt' = [attempt EXCEPT ![w] = @ + 1]
           /\ posts' = posts \cup {[task |-> held[w], attempt |-> attempt[w] + 1]}
           /\ UNCHANGED <<step, held, told>>
  <2>1. attempt[w] + 1 \in 1..MaxAttempts
    BY <1>1, <1>3 DEF TypeOK
  <2>2. posts' \subseteq Post /\ attempt' \in [Workers -> 0..MaxAttempts]
    BY <1>1, <1>2, <1>3, <2>1 DEF TypeOK, Post
  <2>3. TypeOK'
    BY <1>1, <1>2, <1>3, <2>2 DEF TypeOK, broker, polls
  <2>4. \A u \in Tasks : /\ Carried(u)' = Carried(u) /\ Kept(u)' = Kept(u)
                         /\ Posted(u)' => Posted(u) \/ Kept(u)
    BY <1>2, <1>3 DEF Carried, Kept, Posted, polls
  <2>5. Carry' /\ Tasked'
    BY <1>1, <1>2, <1>3, <2>4 DEF Carry, Tasked, broker, polls
  <2> QED
    BY <1>2, <1>3, <2>3, <2>4, <2>5, BrokerFrame DEF polls
<1>4. CASE Finish(w, "nothing") /\ UNCHANGED posts
  <2>1. TypeOK'
    BY <1>1, <1>2, <1>4 DEF Finish, TypeOK, broker, polls
  <2>2. \A v \in Workers : \/ step'[v] = "idle" /\ held'[v] = NoTask
                           \/ step'[v] = step[v] /\ held'[v] = held[v]
    BY <1>1, <1>4 DEF Finish, TypeOK
  <2>3. \A u \in Tasks : /\ Carried(u)' = Carried(u) /\ (Kept(u)' => Kept(u))
                         /\ Posted(u)' = Posted(u)
    BY <1>2, <1>4, <2>2 DEF Carried, Kept, Posted, polls
  <2>4. Carry' /\ Tasked'
    BY <1>1, <1>2, <2>2, <2>3 DEF Carry, Tasked, broker, polls
  <2>5. Queues' /\ PlacesHaveCallers' /\ NoLostWakeup' /\ Results'
    BY <1>2 DEF PullInv, Queues, PlacesHaveCallers, NoLostWakeup, Results, broker, polls
  <2>6. Unclaimed' /\ Known'
    BY <1>2, <2>3 DEF PullInv, Unclaimed, Known, broker
  <2>7. ToldTheTruth'
    <3>1. \A u \in Tasks : told'[u] = told[u] \/ told'[u] = "nothing"
      BY <1>1, <1>4 DEF Finish, TypeOK
    <3> QED
      BY <1>2, <3>1 DEF PullInv, ToldTheTruth, broker
  <2> QED
    BY <2>1, <2>4, <2>5, <2>6, <2>7 DEF PullInv
<1> QED
  BY <1>3, <1>4 DEF TellFails

\* The answer to a post: a worker hears it, or nobody.
LEMMA AnswerIs ==
  ASSUME PullInv, NEW m \in posts, NEW a \in {"nothing", "accepted", "refused"}, Answer(m, a),
         posts' = posts \ {m}, UNCHANGED polls
  PROVE  /\ m.task \in Tasks
         /\ told' \in [Tasks -> {"nothing", "accepted", "refused"}]
         /\ \A u \in Tasks : told'[u] = told[u] \/ (u = m.task /\ told'[u] = a)
         /\ step' \in [Workers -> {"idle", "pulling", "asking", "telling"}]
         /\ held' \in [Workers -> Tasks \cup {NoTask}]
         /\ attempt' \in [Workers -> 0..MaxAttempts]
         /\ posts' \subseteq Post
         /\ Tasked'
         /\ \A u \in Tasks : /\ Carried(u)' = Carried(u)
                             /\ (Kept(u)' => Kept(u)) /\ (Posted(u)' => Posted(u))
<1>1. TypeOK /\ Tasked
  BY DEF PullInv
<1>2. m.task \in Tasks /\ posts' \subseteq Post
  BY <1>1 DEF TypeOK, Post
<1>3. CASE UNCHANGED <<workers, told>>
  BY <1>1, <1>2, <1>3 DEF TypeOK, Tasked, Carried, Kept, Posted, workers, polls
<1>4. ASSUME NEW w \in Waiting(m), Finish(w, a)
      PROVE  /\ told' \in [Tasks -> {"nothing", "accepted", "refused"}]
             /\ \A u \in Tasks : told'[u] = told[u] \/ (u = m.task /\ told'[u] = a)
             /\ step' \in [Workers -> {"idle", "pulling", "asking", "telling"}]
             /\ held' \in [Workers -> Tasks \cup {NoTask}]
             /\ attempt' \in [Workers -> 0..MaxAttempts]
             /\ \A v \in Workers : \/ step'[v] = "idle" /\ held'[v] = NoTask
                                   \/ step'[v] = step[v] /\ held'[v] = held[v]
  <2>1. w \in Workers /\ held[w] = m.task
    BY DEF Waiting
  <2> QED
    BY <1>1, <1>2, <1>4, <2>1 DEF Finish, TypeOK
<1>5. CASE \E w \in Waiting(m) : Finish(w, a)
  <2>1. \A v \in Workers : \/ step'[v] = "idle" /\ held'[v] = NoTask
                           \/ step'[v] = step[v] /\ held'[v] = held[v]
    BY <1>4, <1>5
  <2>2. Tasked'
    BY <1>1, <2>1 DEF Tasked, polls
  <2>3. \A u \in Tasks : /\ Carried(u)' = Carried(u)
                         /\ (Kept(u)' => Kept(u)) /\ (Posted(u)' => Posted(u))
    BY <2>1 DEF Carried, Kept, Posted, polls
  <2> QED
    BY <1>2, <1>4, <1>5, <2>2, <2>3
<1> QED
  BY <1>3, <1>5 DEF Answer

\* A result that is accepted again, refused or lost.
LEMMA ReplyStep ==
  ASSUME PullInv, NEW m \in posts, CompleteAgain(m) \/ CompleteRefused(m) \/ PostLost(m)
  PROVE  PullInv'
<1>1. TypeOK /\ Carry
  BY DEF PullInv
<1>2. UNCHANGED <<broker, caller, polls>> /\ posts' = posts \ {m}
  BY DEF CompleteAgain, CompleteRefused, PostLost
<1>3. PICK a \in {"nothing", "accepted", "refused"} :
        /\ Answer(m, a)
        /\ a = "accepted" => m.task \in completed
        /\ a = "refused" => m.task \notin completed /\ tasks[m.task] # "claimed"
  BY DEF CompleteAgain, CompleteRefused, PostLost
<1>4. /\ m.task \in Tasks
      /\ told' \in [Tasks -> {"nothing", "accepted", "refused"}]
      /\ \A u \in Tasks : told'[u] = told[u] \/ (u = m.task /\ told'[u] = a)
      /\ step' \in [Workers -> {"idle", "pulling", "asking", "telling"}]
      /\ held' \in [Workers -> Tasks \cup {NoTask}]
      /\ attempt' \in [Workers -> 0..MaxAttempts]
      /\ posts' \subseteq Post
      /\ Tasked'
      /\ \A u \in Tasks : /\ Carried(u)' = Carried(u)
                          /\ (Kept(u)' => Kept(u)) /\ (Posted(u)' => Posted(u))
  BY <1>2, <1>3, AnswerIs
<1>5. TypeOK'
  BY <1>1, <1>2, <1>4 DEF TypeOK, broker, polls
<1>6. Carry'
  BY <1>1, <1>2, <1>4 DEF Carry, broker, polls
<1>7. Queues' /\ PlacesHaveCallers' /\ NoLostWakeup' /\ Results'
  BY <1>2 DEF PullInv, Queues, PlacesHaveCallers, NoLostWakeup, Results, broker, polls
<1>8. Unclaimed' /\ Known'
  BY <1>2, <1>4 DEF PullInv, Unclaimed, Known, broker
<1>9. ToldTheTruth'
  <2>1. Posted(m.task)
    BY DEF Posted
  <2>2. a = "refused" => caller[m.task] = "gone"
    BY <1>3, <1>4, <2>1 DEF PullInv, Known
  <2>3. a = "accepted" => caller[m.task] = "answered" \/ m.task \in result
    BY <1>3 DEF PullInv, Results
  <2> QED
    BY <1>2, <1>4, <2>2, <2>3 DEF PullInv, ToldTheTruth, broker
<1> QED
  BY <1>4, <1>5, <1>6, <1>7, <1>8, <1>9 DEF PullInv

\* A claimed task is completed: its result waits for its call.
LEMMA CompleteStep ==
  ASSUME PullInv, NEW m \in posts, Complete(m)
  PROVE  PullInv'
<1>1. /\ TypeOK /\ Queues /\ PlacesHaveCallers /\ NoLostWakeup
      /\ Unclaimed /\ Carry /\ Known /\ Results /\ Tasked /\ ToldTheTruth
  BY DEF PullInv
<1> DEFINE t == m.task
<1>2. /\ UNCHANGED <<aimed, pending, caller, polls>> /\ posts' = posts \ {m}
      /\ Answer(m, "accepted") /\ tasks[t] = "claimed"
      /\ result' = result \cup {t} /\ completed' = completed \cup {t}
  BY DEF Complete
<1>3. /\ t \in Tasks
      /\ told' \in [Tasks -> {"nothing", "accepted", "refused"}]
      /\ \A u \in Tasks : told'[u] = told[u] \/ (u = t /\ told'[u] = "accepted")
      /\ step' \in [Workers -> {"idle", "pulling", "asking", "telling"}]
      /\ held' \in [Workers -> Tasks \cup {NoTask}]
      /\ attempt' \in [Workers -> 0..MaxAttempts]
      /\ posts' \subseteq Post
      /\ Tasked'
      /\ \A u \in Tasks : /\ Carried(u)' = Carried(u)
                          /\ (Kept(u)' => Kept(u)) /\ (Posted(u)' => Posted(u))
  BY <1>2, AnswerIs
<1>4. Posted(t)
  BY DEF Posted
<1> HIDE DEF t
<1>5. \A u \in Tasks : tasks'[u] = IF u = t THEN "none" ELSE tasks[u]
  BY <1>1 DEF Complete, TypeOK, t
<1>6. caller[t] \in {"waiting", "leaving"} /\ ~Carried(t)
  BY <1>1, <1>2, <1>3, <1>4 DEF PlacesHaveCallers, Carry
<1>7. TypeOK'
  <2>1. tasks' \in [Tasks -> {"none", "pending", "claimed"}]
    BY <1>1 DEF Complete, TypeOK
  <2> QED
    BY <1>1, <1>2, <1>3, <2>1 DEF TypeOK, polls
<1>8. Queues'
  BY <1>1, <1>2 DEF Queues
<1>9. NoLostWakeup'
  BY <1>1, <1>2, <1>5 DEF NoLostWakeup, polls
<1>10. PlacesHaveCallers'
  BY <1>1, <1>2, <1>5 DEF PlacesHaveCallers
<1>11. Carry'
  BY <1>1, <1>2, <1>3, <1>6 DEF Carry, polls
<1>12. Unclaimed'
  BY <1>1, <1>2, <1>3, <1>5, <1>6 DEF Unclaimed
<1>13. Known'
  BY <1>1, <1>2, <1>3, <1>5 DEF Known
<1>14. Results'
  BY <1>1, <1>2 DEF Results
<1>15. ToldTheTruth'
  BY <1>1, <1>2, <1>3 DEF ToldTheTruth
<1> QED
  BY <1>3, <1>7, <1>8, <1>9, <1>10, <1>11, <1>12, <1>13, <1>14, <1>15 DEF PullInv

-----------------------------------------------------------------------------
(* What the invariant shows.                                               *)

LEMMA InitInv == Init => PullInv
<1> SUFFICES ASSUME Init PROVE PullInv
  OBVIOUS
<1>1. TypeOK
  BY DEF Init, TypeOK
<1>2. \A c \in Collectors : pending[c] = <<>>
  BY DEF Init
<1>3. Once(<<>>) /\ \A u : ~Contains(<<>>, u)
  BY DEF Once, Contains
<1>4. Queues /\ PlacesHaveCallers /\ NoLostWakeup
  BY <1>2, <1>3 DEF Init, Queues, PlacesHaveCallers, NoLostWakeup
<1>5. \A t \in Tasks : ~Carried(t) /\ ~Kept(t) /\ ~Posted(t)
  BY DEF Init, Carried, Kept, Posted
<1>6. Unclaimed /\ Carry /\ Known
  BY <1>5 DEF Init, Unclaimed, Carry, Known
<1>7. Results /\ Tasked /\ ToldTheTruth
  BY DEF Init, Results, Tasked, ToldTheTruth
<1> QED
  BY <1>1, <1>4, <1>6, <1>7 DEF PullInv

LEMMA NextStep == PullInv /\ [Next]_vars => PullInv'
<1> SUFFICES ASSUME PullInv, [Next]_vars PROVE PullInv'
  OBVIOUS
<1>1. CASE UNCHANGED vars
  <2>1. UNCHANGED <<broker, caller, told, polls, workers, posts>>
    BY <1>1 DEF vars
  <2>2. TypeOK'
    BY <2>1 DEF PullInv, TypeOK, broker, polls, workers
  <2>3. \A t : Carried(t)' = Carried(t) /\ Kept(t)' = Kept(t) /\ Posted(t)' = Posted(t)
    BY <2>1 DEF Carried, Kept, Posted, polls, workers
  <2>4. Carry' /\ Tasked'
    BY <2>1, <2>3 DEF PullInv, Carry, Tasked, broker, polls, workers
  <2>5. \A p \in Pulls : phase'[p] = "parked" => phase[p] = "parked" /\ source'[p] = source[p]
    BY <2>1 DEF polls
  <2> QED
    BY <2>1, <2>2, <2>3, <2>4, <2>5, BrokerFrame
<1>2. ASSUME NEW t \in Tasks, \/ Submit(t) \/ SubmitBusy(t) \/ Return(t) \/ GiveUp(t)
                             \/ cancel(t) \/ cleanupCompletedLocked(t)
      PROVE  PullInv'
  BY <1>2, SubmitStep, CallerStep, CancelStep, CleanupStep
<1>3. ASSUME NEW p \in Pulls, Handler(p) \/ PollEnds(p) \/ Deliver(p)
      PROVE  PullInv'
  BY <1>3, ClaimStep, ParkStep, PollStep DEF Handler
<1>4. ASSUME NEW w \in Workers, Pull(w) \/ PullFails(w) \/ Execute(w) \/ TellFails(w)
      PROVE  PullInv'
  BY <1>4, WorkerStep, TellFailsStep
<1>5. ASSUME NEW m \in posts, Reply(m)
      PROVE  PullInv'
  BY <1>5, CompleteStep, ReplyStep DEF Reply
<1>6. ASSUME NEW c \in Collectors, CollectorRestarts(c)
      PROVE  PullInv'
  BY <1>6, RestartStep
<1> QED
  BY <1>1, <1>2, <1>3, <1>4, <1>5, <1>6 DEF Next

\* In every state a task is in one hand only until its worker has it, and the
\* queues hold the pending tasks.
THEOREM PullInvariant == Spec => []PullInv
<1> QED
  BY InitInv, NextStep, PTL DEF Spec

\* A pull that sleeps has nothing to take: no submission is missed between the
\* look at the queue and the wait on the channel.
THEOREM WakeupsAreNotLost == Spec => []NoLostWakeup
<1>1. PullInv => NoLostWakeup
  BY DEF PullInv
<1> QED
  BY <1>1, PullInvariant, PTL

\* No lost answer, late result or timeout leaves a place of a collector taken.
THEOREM PlacesDoNotLeak == Spec => []PlacesHaveCallers
<1>1. PullInv => PlacesHaveCallers
  BY DEF PullInv
<1> QED
  BY <1>1, PullInvariant, PTL

\* A worker whose result is accepted or refused was told what became of it,
\* however often it posted.
THEOREM WorkersAreToldTheTruth == Spec => []ToldTheTruth
<1>1. PullInv => ToldTheTruth
  BY DEF PullInv
<1> QED
  BY <1>1, PullInvariant, PTL
=============================================================================
