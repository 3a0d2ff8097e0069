------------------------- MODULE CommandQueueProofs -------------------------
(***************************************************************************)
(* Type correctness of CommandQueue and the invariants its callers rely    *)
(* on, for every number of entries, lanes, waiters and resets.             *)
(*                                                                         *)
(* The invariants are stated over the pieces of state a handler hands to   *)
(* `Drain', so that one lemma (DrainPreserves) covers every handler that   *)
(* ends in a pump.                                                         *)
(***************************************************************************)
EXTENDS CommandQueue, FiniteSetTheorems, WellFoundedInduction, SequenceTheorems,
        TLAPS

Promises == {"none", "pending", "settled", "cleared", "refused"}
Races == {"none", "open", "finished", "timedOut"}

\* Every queued entry sits once in the queue of its own lane, undispatched and
\* unsettled, and every such entry is queued.
QueueOK(q, p, r) ==
  /\ \A l \in Lane : \A i \in 1 .. Len(q[l]) :
       /\ LaneOf[q[l][i]] = l
       /\ p[q[l][i]] = "pending"
       /\ r[q[l][i]] = "none"
       /\ \A j \in 1 .. Len(q[l]) : q[l][i] = q[l][j] => i = j
  /\ \A e \in Entry : p[e] = "pending" /\ r[e] = "none" =>
       \E i \in 1 .. Len(q[LaneOf[e]]) : q[LaneOf[e]][i] = e
  /\ \A e \in Entry : /\ p[e] = "none" => r[e] = "none"
                      /\ r[e] = "open" => p[e] = "pending"

\* SlotAccounting over the pieces.
SlotsOK(a, g, p, r, tg) ==
  \A l \in Lane : \A e \in Entry :
    e \in a[l] <=> /\ LaneOf[e] = l
                   /\ p[e] = "pending" /\ r[e] # "none"
                   /\ tg[e] = g[l]

\* A session lane has one slot, and at most one task in it.
SessionOK(a, m) ==
  \A l \in SessionLane : m[l] = 1 /\ Cardinality(a[l]) <= 1

\* WorkConserving over the pieces, for the lanes of S.
WorkOK(S, q, a, m) ==
  \A l \in S : q[l] # <<>> => Cardinality(a[l]) >= m[l]

\* A task was dispatched in a generation its lane has already reached.
GenerationOK(g, tg) ==
  \A e \in Entry : tg[e] <= g[LaneOf[e]]

IInv ==
  /\ TypeOK
  /\ QueueOK(queue, promise, race)
  /\ SlotsOK(active, generation, promise, race, taskGeneration)
  /\ SessionOK(active, maxConcurrent)
  /\ WorkOK(Lane, queue, active, maxConcurrent)
  /\ GenerationOK(generation, taskGeneration)

USE LaneAssumption, EntryAssumption, BoundAssumption

-----------------------------------------------------------------------------
(* Lemmas about the queue operators.                                       *)

\* Sets of entries are finite and have a natural number of elements.
LEMMA EntrySets ==
  ASSUME NEW a \in SUBSET Entry
  PROVE  IsFiniteSet(a) /\ Cardinality(a) \in Nat
  BY FS_Subset, FS_CardinalityType

\* The loop of pump starts between none and all of the queued entries.
LEMMA StartableBounds ==
  ASSUME NEW q \in Seq(Entry), NEW a \in SUBSET Entry, NEW m \in Nat
  PROVE  /\ Startable(q, a, m) \in 0 .. Len(q)
         /\ Startable(q, a, m) < Len(q) =>
              Cardinality(a) + Startable(q, a, m) >= m
         /\ Startable(q, a, m) > 0 =>
              Cardinality(a) + Startable(q, a, m) <= m
  BY EntrySets DEF Startable

\* What stays in the queue is its tail, in the same order.
LEMMA WaitingProperties ==
  ASSUME NEW q \in Seq(Entry), NEW a \in SUBSET Entry, NEW m \in Nat
  PROVE  /\ Waiting(q, a, m) \in Seq(Entry)
         /\ Len(Waiting(q, a, m)) = Len(q) - Startable(q, a, m)
         /\ \A i \in 1 .. Len(q) - Startable(q, a, m) :
              Waiting(q, a, m)[i] = q[i + Startable(q, a, m)]
<1> DEFINE n == Startable(q, a, m)
<1>1. n \in 0 .. Len(q)
  BY StartableBounds
<1>2. Waiting(q, a, m) = SubSeq(q, n + 1, Len(q))
  BY DEF Waiting
<1> HIDE DEF n
<1>3. n + 1 \in 1 .. Len(q) + 1 /\ Len(q) \in n .. Len(q)
  BY <1>1
<1>4. /\ SubSeq(q, n + 1, Len(q)) \in Seq(Entry)
      /\ Len(SubSeq(q, n + 1, Len(q))) = Len(q) - n
      /\ \A i \in 1 .. Len(q) - n : SubSeq(q, n + 1, Len(q))[i] = q[i + n]
  BY <1>1, <1>3, SubSeqProperties
<1>. QED
  BY <1>2, <1>4 DEF n

\* Dispatching as many entries as there are free slots fills the lane: the
\* tasks started are new, so none is counted twice.
LEMMA DispatchCount ==
  ASSUME NEW q \in Seq(Entry), NEW a \in SUBSET Entry, NEW m \in Nat,
         \A i, j \in 1 .. Len(q) : q[i] = q[j] => i = j,
         \A i \in 1 .. Len(q) : q[i] \notin a
  PROVE  /\ Dispatched(q, a, m) \in SUBSET Entry
         /\ Cardinality(a \union Dispatched(q, a, m))
              = Cardinality(a) + Startable(q, a, m)
<1> DEFINE n == Startable(q, a, m)
           D == Dispatched(q, a, m)
<1>0. n \in 0 .. Len(q)
  BY StartableBounds
<1>2a. D = {q[i] : i \in 1 .. n}
  BY DEF Dispatched
<1> HIDE DEF n, D
<1>1. n \in Nat /\ n <= Len(q) /\ Len(q) \in Nat
  BY <1>0
<1>2. D = {q[i] : i \in 1 .. n} /\ D \in SUBSET Entry
  BY <1>1, <1>2a
<1> DEFINE f == [i \in 1 .. n |-> q[i]]
<1>3. f \in Bijection(1 .. n, D)
  <2>1. f \in [1 .. n -> D]
    BY <1>2
  <2>2. \A i, j \in 1 .. n : f[i] = f[j] => i = j
    BY <1>1
  <2>3. \A d \in D : \E i \in 1 .. n : f[i] = d
    BY <1>2
  <2>. QED
    BY <2>1, <2>2, <2>3 DEF Bijection, Injection, Surjection, IsInjective
<1>4. Cardinality(D) = n
  BY <1>1, <1>3, FS_CountingElements DEF ExistsBijection
<1>5. a \intersect D = {}
  BY <1>1, <1>2
<1>6. Cardinality(a \union D) = Cardinality(a) + Cardinality(D) - Cardinality(a \intersect D)
  BY <1>2, EntrySets, FS_Union
<1>7. Cardinality(a \intersect D) = 0
  BY <1>5, FS_EmptySet
<1>. QED
  BY <1>2, <1>4, <1>6, <1>7, <1>1, EntrySets DEF n, D

\* A non-empty set of natural numbers has a least element.
LEMMA LeastElement ==
  ASSUME NEW T \in SUBSET Nat, T # {}
  PROVE  \E x \in T : \A y \in T : x <= y
<1> DEFINE R == {ss \in Nat \X Nat : ss[1] < ss[2]}
<1>1. IsWellFoundedOn(R, Nat)
  BY NatLessThanWellFounded DEF OpToRel
<1>. HIDE DEF R
<1>2. \E x \in T : \A y \in T : ~ (<<y, x>> \in R)
  BY <1>1, WFMin
<1>3. \A x, y \in Nat : y < x => <<y, x>> \in R
  BY DEF R
<1>4. \A x, y \in Nat : <<y, x>> \notin R => x <= y
  BY <1>3
<1>. QED
  BY <1>2, <1>4

\* r is q with e put in front of the first entry that stays behind it, or last.
InsertedAt(r, q, e, n, k) ==
  /\ r[k] = e
  /\ \A i \in 1 .. k - 1 : r[i] = q[i]
  /\ \A i \in k + 1 .. Len(q) + 1 : r[i] = q[i - 1]
  /\ \A i \in 1 .. k - 1 : ~StaysBehind(q[i], PriorityOf[e], n)
  /\ k <= Len(q) => StaysBehind(q[k], PriorityOf[e], n)

\* enqueueLaneEntry finds the entry its one place and shifts the rest.
LEMMA InsertShape ==
  ASSUME NEW q \in Seq(Entry), NEW e \in Entry, NEW n \in Nat
  PROVE  /\ Insert(q, e, n) \in Seq(Entry)
         /\ Len(Insert(q, e, n)) = Len(q) + 1
         /\ \E k \in 1 .. Len(q) + 1 : InsertedAt(Insert(q, e, n), q, e, n, k)
<1> DEFINE behind == {i \in 1 .. Len(q) : StaysBehind(q[i], PriorityOf[e], n)}
<1>0. Len(q) \in Nat /\ \A i \in 1 .. Len(q) : q[i] \in Entry
  OBVIOUS
<1>1. CASE behind = {}
  <2>1. Insert(q, e, n) = Append(q, e)
    BY <1>1 DEF Insert
  <2>2. /\ Append(q, e) \in Seq(Entry)
        /\ Len(Append(q, e)) = Len(q) + 1
        /\ Append(q, e)[Len(q) + 1] = e
        /\ \A i \in 1 .. Len(q) : Append(q, e)[i] = q[i]
    BY AppendProperties
  <2>3. \A i \in 1 .. Len(q) : ~StaysBehind(q[i], PriorityOf[e], n)
    BY <1>1
  <2>4. Len(q) + 1 \in 1 .. Len(q) + 1 /\ ~(Len(q) + 1 <= Len(q))
    BY <1>0
  <2>. QED
    BY <2>1, <2>2, <2>3, <2>4, <1>0 DEF InsertedAt
<1>2. CASE behind # {}
  <2> DEFINE at == CHOOSE i \in behind : \A j \in behind : i <= j
  <2>1. at \in behind /\ \A j \in behind : at <= j
    <3>1. \E i \in behind : \A j \in behind : i <= j
      <4>1. behind \subseteq Nat /\ behind # {}
        BY <1>2, <1>0
      <4>. HIDE DEF behind
      <4>. QED
        BY <4>1, LeastElement
    <3>. QED
      BY <3>1
  <2>2. Insert(q, e, n)
          = SubSeq(q, 1, at - 1) \o <<e>> \o SubSeq(q, at, Len(q))
    BY <1>2 DEF Insert
  <2>3. at \in 1 .. Len(q)
    BY <2>1
  <2>11. StaysBehind(q[at], PriorityOf[e], n)
    BY <2>1
  <2>12. \A i \in 1 .. at - 1 : ~StaysBehind(q[i], PriorityOf[e], n)
    <3>. SUFFICES ASSUME NEW i \in 1 .. at - 1,
                         StaysBehind(q[i], PriorityOf[e], n)
                  PROVE  FALSE
      OBVIOUS
    <3>. HIDE DEF at
    <3>1. i \in 1 .. Len(q) /\ i \in Nat /\ ~(at <= i)
      BY <1>0, <2>3
    <3>2. i \in behind
      BY <3>1
    <3>. QED
      BY <2>1, <3>1, <3>2
  <2>. HIDE DEF at
  <2>4. /\ SubSeq(q, 1, at - 1) \in Seq(Entry)
        /\ Len(SubSeq(q, 1, at - 1)) = at - 1
        /\ \A i \in 1 .. at - 1 : SubSeq(q, 1, at - 1)[i] = q[i]
    <3>1. \A i \in 1 .. at - 1 : q[i] \in Entry
      BY <1>0, <2>3
    <3>. QED
      BY <1>0, <2>3, <3>1, SubSeqProperties
  <2>5. /\ SubSeq(q, at, Len(q)) \in Seq(Entry)
        /\ Len(SubSeq(q, at, Len(q))) = Len(q) - at + 1
        /\ \A i \in 1 .. Len(q) - at + 1 : SubSeq(q, at, Len(q))[i] = q[at + i - 1]
    <3>1. \A i \in at .. Len(q) : q[i] \in Entry
      BY <1>0, <2>3
    <3>. QED
      BY <1>0, <2>3, <3>1, SubSeqProperties
  <2> DEFINE front == SubSeq(q, 1, at - 1)
             back == SubSeq(q, at, Len(q))
             most == front \o <<e>>
  <2>6. <<e>> \in Seq(Entry) /\ Len(<<e>>) = 1 /\ <<e>>[1] = e
    OBVIOUS
  <2>. HIDE DEF front, back
  <2>7. /\ most \in Seq(Entry)
        /\ Len(most) = at
        /\ \A i \in 1 .. at - 1 : most[i] = q[i]
        /\ most[at] = e
    <3>0. at - 1 \in Nat /\ at - 1 + 1 = at
      BY <2>3
    <3>1. /\ most \in Seq(Entry)
          /\ Len(most) = Len(front) + Len(<<e>>)
          /\ \A i \in 1 .. Len(front) + Len(<<e>>) :
               most[i] = IF i <= Len(front) THEN front[i] ELSE <<e>>[i - Len(front)]
      BY <2>4, <2>6, ConcatProperties DEF front
    <3>. HIDE DEF most
    <3>. QED
      BY <3>0, <3>1, <2>3, <2>4, <2>6 DEF front
  <2>. HIDE DEF most
  <2>8. /\ most \o back \in Seq(Entry)
        /\ Len(most \o back) = Len(most) + Len(back)
        /\ \A i \in 1 .. Len(most) + Len(back) :
             (most \o back)[i] = IF i <= Len(most) THEN most[i] ELSE back[i - Len(most)]
    BY <2>5, <2>7, ConcatProperties DEF back
  <2>9. Insert(q, e, n) = most \o back
    BY <2>2 DEF most, front, back
  <2>10. \A i \in at + 1 .. Len(q) + 1 : (most \o back)[i] = q[i - 1]
    <3>. SUFFICES ASSUME NEW i \in at + 1 .. Len(q) + 1
                  PROVE  (most \o back)[i] = q[i - 1]
      OBVIOUS
    <3>1. i - at \in 1 .. Len(q) - at + 1 /\ i \in 1 .. Len(q) + 1 /\ i > at
      BY <1>0, <2>3
    <3>2. (most \o back)[i] = back[i - at]
      BY <3>1, <2>8, <2>7, <2>5, <1>0, <2>3 DEF back
    <3>. QED
      BY <3>1, <3>2, <2>5, <1>0, <2>3 DEF back
  <2>. QED
    <3>1. /\ Insert(q, e, n) \in Seq(Entry)
          /\ Len(Insert(q, e, n)) = Len(q) + 1
      BY <2>3, <2>5, <2>7, <2>8, <2>9, <1>0 DEF back
    <3>2. \A i \in 1 .. at : Insert(q, e, n)[i] = most[i]
      BY <2>3, <2>5, <2>7, <2>8, <2>9, <1>0 DEF back
    <3>3. \A i \in at + 1 .. Len(q) + 1 : Insert(q, e, n)[i] = q[i - 1]
      BY <2>9, <2>10
    <3>4. at \in 1 .. Len(q) + 1 /\ Insert(q, e, n)[at] = e
      BY <3>2, <2>3, <2>7, <1>0
    <3>5. \A i \in 1 .. at - 1 : Insert(q, e, n)[i] = q[i]
      BY <3>2, <2>3, <2>7
    <3>. QED
      BY <3>1, <3>3, <3>4, <3>5, <2>11, <2>12 DEF InsertedAt
<1>. QED
  BY <1>1, <1>2

\* Inserting an entry that was not queued keeps the entries distinct and
\* queues exactly one more.
LEMMA InsertProperties ==
  ASSUME NEW q \in Seq(Entry), NEW e \in Entry, NEW n \in Nat,
         \A i, j \in 1 .. Len(q) : q[i] = q[j] => i = j,
         \A i \in 1 .. Len(q) : q[i] # e
  PROVE  /\ Insert(q, e, n) \in Seq(Entry)
         /\ \A i, j \in 1 .. Len(Insert(q, e, n)) :
              Insert(q, e, n)[i] = Insert(q, e, n)[j] => i = j
         /\ \A i \in 1 .. Len(Insert(q, e, n)) :
              \/ Insert(q, e, n)[i] = e
              \/ \E j \in 1 .. Len(q) : Insert(q, e, n)[i] = q[j]
         /\ \E i \in 1 .. Len(Insert(q, e, n)) : Insert(q, e, n)[i] = e
         /\ \A j \in 1 .. Len(q) :
              \E i \in 1 .. Len(Insert(q, e, n)) : Insert(q, e, n)[i] = q[j]
<1> DEFINE r == Insert(q, e, n)
<1>0. Len(q) \in Nat
  OBVIOUS
<1>1. r \in Seq(Entry) /\ Len(r) = Len(q) + 1 /\ Len(q) \in Nat
  BY <1>0, InsertShape
<1>2. PICK k \in 1 .. Len(q) + 1 :
        /\ r[k] = e
        /\ \A i \in 1 .. k - 1 : r[i] = q[i]
        /\ \A i \in k + 1 .. Len(q) + 1 : r[i] = q[i - 1]
  <2>1. PICK k \in 1 .. Len(q) + 1 : InsertedAt(Insert(q, e, n), q, e, n, k)
    BY InsertShape
  <2>. QED
    BY <2>1 DEF InsertedAt
<1>. HIDE DEF r
<1> DEFINE old(i) == IF i < k THEN i ELSE i - 1
<1>3. \A i \in 1 .. Len(r) : i # k =>
        old(i) \in 1 .. Len(q) /\ r[i] = q[old(i)]
  BY <1>1, <1>2
<1>4. \A i, j \in 1 .. Len(r) : i # k /\ j # k /\ old(i) = old(j) => i = j
  BY <1>1, <1>2
<1>5. \A j \in 1 .. Len(q) : \E i \in 1 .. Len(r) : i # k /\ old(i) = j
  <2>. SUFFICES ASSUME NEW j \in 1 .. Len(q)
                PROVE  \E i \in 1 .. Len(r) : i # k /\ old(i) = j
    OBVIOUS
  <2>1. CASE j < k
    BY <2>1, <1>1, <1>2
  <2>2. CASE ~(j < k)
    <3>1. j + 1 \in 1 .. Len(r) /\ j + 1 # k /\ old(j + 1) = j
      BY <2>2, <1>1, <1>2
    <3>. QED
      BY <3>1
  <2>. QED
    BY <2>1, <2>2
<1>. HIDE DEF old
<1>6. \A i, j \in 1 .. Len(r) : r[i] = r[j] => i = j
  <2>. SUFFICES ASSUME NEW i \in 1 .. Len(r), NEW j \in 1 .. Len(r), r[i] = r[j]
                PROVE  i = j
    OBVIOUS
  <2>1. CASE i # k /\ j # k
    <3>1. q[old(i)] = q[old(j)] /\ old(i) \in 1 .. Len(q) /\ old(j) \in 1 .. Len(q)
      BY <2>1, <1>3
    <3>2. old(i) = old(j)
      BY <3>1
    <3>. QED
      BY <3>2, <2>1, <1>4
  <2>2. CASE i = k /\ j # k
    BY <2>2, <1>2, <1>3
  <2>3. CASE i # k /\ j = k
    BY <2>3, <1>2, <1>3
  <2>. QED
    BY <2>1, <2>2, <2>3
<1>7. \A i \in 1 .. Len(r) :
        r[i] = e \/ \E j \in 1 .. Len(q) : r[i] = q[j]
  BY <1>2, <1>3
<1>8. \E i \in 1 .. Len(r) : r[i] = e
  BY <1>1, <1>2
<1>9. \A j \in 1 .. Len(q) : \E i \in 1 .. Len(r) : r[i] = q[j]
  BY <1>3, <1>5
<1>. QED
  BY <1>1, <1>6, <1>7, <1>8, <1>9 DEF r

\* The pump splits a queue of distinct entries, none of them active, into the
\* tasks it starts and the queue it leaves; it leaves a queue only when the
\* lane is full, and starts a task only within the limit.
LEMMA PumpSplits ==
  ASSUME NEW q \in Seq(Entry), NEW a \in SUBSET Entry, NEW m \in Nat,
         \A i, j \in 1 .. Len(q) : q[i] = q[j] => i = j,
         \A i \in 1 .. Len(q) : q[i] \notin a
  PROVE  LET W == Waiting(q, a, m)
             D == Dispatched(q, a, m)
         IN  /\ W \in Seq(Entry)
             /\ D \in SUBSET Entry
             /\ \A i \in 1 .. Len(W) : \E k \in 1 .. Len(q) : W[i] = q[k] /\ q[k] \notin D
             /\ \A i, j \in 1 .. Len(W) : W[i] = W[j] => i = j
             /\ \A k \in 1 .. Len(q) : q[k] \notin D =>
                  \E i \in 1 .. Len(W) : W[i] = q[k]
             /\ \A d \in D : \E k \in 1 .. Len(q) : d = q[k]
             /\ W # <<>> => Cardinality(a \union D) >= m
             /\ D # {} => Cardinality(a \union D) <= m
<1> DEFINE W == Waiting(q, a, m)
           D == Dispatched(q, a, m)
<1> DEFINE n == Startable(q, a, m)
<1>1. /\ n \in Nat /\ n <= Len(q) /\ Len(q) \in Nat
      /\ n < Len(q) => Cardinality(a) + n >= m
      /\ n > 0 => Cardinality(a) + n <= m
  <2>1. Len(q) \in Nat
    OBVIOUS
  <2>2. n \in 0 .. Len(q)
    BY StartableBounds
  <2>3. /\ n < Len(q) => Cardinality(a) + n >= m
        /\ n > 0 => Cardinality(a) + n <= m
    BY StartableBounds
  <2>. HIDE DEF n
  <2>. QED
    BY <2>1, <2>2, <2>3
<1>2. /\ W \in Seq(Entry)
      /\ Len(W) = Len(q) - n
      /\ \A i \in 1 .. Len(q) - n : W[i] = q[i + n]
  BY WaitingProperties
<1>3. D \in SUBSET Entry /\ Cardinality(a \union D) = Cardinality(a) + n
  BY DispatchCount
<1>4. D = {q[i] : i \in 1 .. n}
  BY DEF Dispatched
<1>. HIDE DEF n, W, D
<1>5. \A k \in 1 .. Len(q) : q[k] \in D <=> k <= n
  <2>. SUFFICES ASSUME NEW k \in 1 .. Len(q)
                PROVE  q[k] \in D <=> k <= n
    OBVIOUS
  <2>1. k <= n => k \in 1 .. n
    BY <1>1
  <2>2. ASSUME NEW i \in 1 .. n, q[k] = q[i]
        PROVE  k <= n
    <3>1. i \in 1 .. Len(q) /\ i <= n
      BY <1>1
    <3>. QED
      BY <2>2, <3>1
  <2>. QED
    BY <2>1, <2>2, <1>4
<1>6. ASSUME NEW i \in 1 .. Len(W)
      PROVE  i + n \in 1 .. Len(q) /\ W[i] = q[i + n] /\ ~(i + n <= n)
  BY <1>1, <1>2
<1>7. ASSUME NEW i \in 1 .. Len(W), NEW j \in 1 .. Len(W), W[i] = W[j]
      PROVE  i = j
  <2>1. i + n = j + n
    BY <1>6, <1>7
  <2>. QED
    BY <2>1, <1>1
<1>8. ASSUME NEW k \in 1 .. Len(q), q[k] \notin D
      PROVE  \E i \in 1 .. Len(W) : W[i] = q[k]
  <2>1. ~(k <= n)
    BY <1>5, <1>8
  <2>2. k - n \in 1 .. Len(W) /\ k - n + n = k
    BY <2>1, <1>1, <1>2
  <2>. QED
    BY <2>2, <1>6
<1>9. \A d \in D : \E k \in 1 .. Len(q) : d = q[k]
  <2>1. \A i \in 1 .. n : i \in 1 .. Len(q)
    BY <1>1
  <2>. QED
    BY <2>1, <1>4
<1>10. W # <<>> => n < Len(q)
  BY <1>1, <1>2
<1>11. D # {} => n > 0
  BY <1>1, <1>4
<1>12. \A i \in 1 .. Len(W) : \E k \in 1 .. Len(q) : W[i] = q[k] /\ q[k] \notin D
  BY <1>5, <1>6
<1>. QED
  BY <1>1, <1>2, <1>3, <1>7, <1>8, <1>9, <1>10, <1>11, <1>12 DEF W, D

-----------------------------------------------------------------------------
(* The pump.                                                               *)

\* Every handler that ends in drainLane restores the invariants, whatever
\* lanes S it pumps, if the state it hands to the pump satisfies them except
\* for free slots in the lanes it is about to pump.
LEMMA DrainPreserves ==
  ASSUME TypeOK,
         NEW S \in SUBSET Lane,
         NEW q \in [Lane -> Seq(Entry)],
         NEW a \in [Lane -> SUBSET Entry],
         NEW m \in [Lane -> 0 .. MaxConcurrency],
         NEW g \in [Lane -> 0 .. MaxGeneration],
         NEW p \in [Entry -> Promises],
         QueueOK(q, p, race),
         SlotsOK(a, g, p, race, taskGeneration),
         SessionOK(a, m),
         WorkOK(Lane \ S, q, a, m),
         GenerationOK(g, taskGeneration),
         Drain(S, q, a, m, g)
  PROVE  /\ queue' \in [Lane -> Seq(Entry)]
         /\ active' \in [Lane -> SUBSET Entry]
         /\ race' \in [Entry -> Races]
         /\ body' \in [Entry -> {"none", "running", "ended"}]
         /\ taskGeneration' \in [Entry -> 0 .. MaxGeneration]
         /\ QueueOK(queue', p, race')
         /\ SlotsOK(active', g, p, race', taskGeneration')
         /\ SessionOK(active', m)
         /\ WorkOK(Lane, queue', active', m)
         /\ GenerationOK(g, taskGeneration')
<1> DEFINE W == [l \in Lane |->
                   IF l \in S THEN Waiting(q[l], a[l], m[l]) ELSE q[l]]
           D == [l \in Lane |->
                   IF l \in S THEN Dispatched(q[l], a[l], m[l]) ELSE {}]
<1>1. \A l \in Lane : /\ q[l] \in Seq(Entry) /\ a[l] \in SUBSET Entry
                      /\ m[l] \in Nat /\ g[l] \in 0 .. MaxGeneration
  OBVIOUS
<1>2. \A l \in Lane : \A i \in 1 .. Len(q[l]) :
        /\ q[l][i] \in Entry
        /\ LaneOf[q[l][i]] = l /\ p[q[l][i]] = "pending" /\ race[q[l][i]] = "none"
        /\ q[l][i] \notin a[l]
        /\ \A j \in 1 .. Len(q[l]) : q[l][i] = q[l][j] => i = j
  <2>1. \A l \in Lane : \A i \in 1 .. Len(q[l]) : q[l][i] \in Entry
    BY <1>1
  <2>. QED
    BY <2>1 DEF QueueOK, SlotsOK
<1>3. \A l \in Lane :
        /\ W[l] \in Seq(Entry)
        /\ D[l] \in SUBSET Entry
        /\ \A i \in 1 .. Len(W[l]) :
             \E k \in 1 .. Len(q[l]) : W[l][i] = q[l][k] /\ q[l][k] \notin D[l]
        /\ \A i, j \in 1 .. Len(W[l]) : W[l][i] = W[l][j] => i = j
        /\ \A k \in 1 .. Len(q[l]) : q[l][k] \notin D[l] =>
             \E i \in 1 .. Len(W[l]) : W[l][i] = q[l][k]
        /\ \A d \in D[l] : \E k \in 1 .. Len(q[l]) : d = q[l][k]
        /\ l \in S /\ W[l] # <<>> => Cardinality(a[l] \union D[l]) >= m[l]
        /\ D[l] # {} => Cardinality(a[l] \union D[l]) <= m[l]
        /\ l \notin S => W[l] = q[l] /\ D[l] = {}
  <2>. SUFFICES ASSUME NEW l \in Lane
                PROVE
        /\ W[l] \in Seq(Entry)
        /\ D[l] \in SUBSET Entry
        /\ \A i \in 1 .. Len(W[l]) :
             \E k \in 1 .. Len(q[l]) : W[l][i] = q[l][k] /\ q[l][k] \notin D[l]
        /\ \A i, j \in 1 .. Len(W[l]) : W[l][i] = W[l][j] => i = j
        /\ \A k \in 1 .. Len(q[l]) : q[l][k] \notin D[l] =>
             \E i \in 1 .. Len(W[l]) : W[l][i] = q[l][k]
        /\ \A d \in D[l] : \E k \in 1 .. Len(q[l]) : d = q[l][k]
        /\ l \in S /\ W[l] # <<>> => Cardinality(a[l] \union D[l]) >= m[l]
        /\ D[l] # {} => Cardinality(a[l] \union D[l]) <= m[l]
        /\ l \notin S => W[l] = q[l] /\ D[l] = {}
    OBVIOUS
  <2>1. CASE l \in S
    <3>1. W[l] = Waiting(q[l], a[l], m[l]) /\ D[l] = Dispatched(q[l], a[l], m[l])
      BY <2>1
    <3>2. /\ q[l] \in Seq(Entry) /\ a[l] \in SUBSET Entry /\ m[l] \in Nat
          /\ \A i, j \in 1 .. Len(q[l]) : q[l][i] = q[l][j] => i = j
          /\ \A i \in 1 .. Len(q[l]) : q[l][i] \notin a[l]
      BY <1>1, <1>2
    <3>. HIDE DEF W, D
    <3>3. LET w == Waiting(q[l], a[l], m[l])
              d == Dispatched(q[l], a[l], m[l])
          IN  /\ w \in Seq(Entry)
              /\ d \in SUBSET Entry
              /\ \A i \in 1 .. Len(w) :
                   \E k \in 1 .. Len(q[l]) : w[i] = q[l][k] /\ q[l][k] \notin d
              /\ \A i, j \in 1 .. Len(w) : w[i] = w[j] => i = j
              /\ \A k \in 1 .. Len(q[l]) : q[l][k] \notin d =>
                   \E i \in 1 .. Len(w) : w[i] = q[l][k]
              /\ \A x \in d : \E k \in 1 .. Len(q[l]) : x = q[l][k]
              /\ w # <<>> => Cardinality(a[l] \union d) >= m[l]
              /\ d # {} => Cardinality(a[l] \union d) <= m[l]
      BY <3>2, PumpSplits
    <3>4. /\ W[l] \in Seq(Entry) /\ D[l] \in SUBSET Entry
          /\ \A i, j \in 1 .. Len(W[l]) : W[l][i] = W[l][j] => i = j
      BY <3>1, <3>3
    <3>5. /\ \A i \in 1 .. Len(W[l]) :
               \E k \in 1 .. Len(q[l]) : W[l][i] = q[l][k] /\ q[l][k] \notin D[l]
          /\ \A k \in 1 .. Len(q[l]) : q[l][k] \notin D[l] =>
               \E i \in 1 .. Len(W[l]) : W[l][i] = q[l][k]
      BY <3>1, <3>3
    <3>6. /\ \A d \in D[l] : \E k \in 1 .. Len(q[l]) : d = q[l][k]
          /\ l \in S /\ W[l] # <<>> => Cardinality(a[l] \union D[l]) >= m[l]
          /\ D[l] # {} => Cardinality(a[l] \union D[l]) <= m[l]
          /\ l \notin S => W[l] = q[l] /\ D[l] = {}
      BY <2>1, <3>1, <3>3
    <3>. QED
      BY <3>4, <3>5, <3>6
  <2>2. CASE l \notin S
    <3>1. W[l] = q[l] /\ D[l] = {}
      BY <2>2
    <3>2. q[l] \in Seq(Entry) /\ \A i, j \in 1 .. Len(q[l]) : q[l][i] = q[l][j] => i = j
      BY <1>1, <1>2
    <3>. HIDE DEF W, D
    <3>3. /\ W[l] \in Seq(Entry) /\ D[l] \in SUBSET Entry
          /\ \A i, j \in 1 .. Len(W[l]) : W[l][i] = W[l][j] => i = j
      BY <3>1, <3>2
    <3>4. /\ \A i \in 1 .. Len(W[l]) :
               \E k \in 1 .. Len(q[l]) : W[l][i] = q[l][k] /\ q[l][k] \notin D[l]
          /\ \A k \in 1 .. Len(q[l]) : q[l][k] \notin D[l] =>
               \E i \in 1 .. Len(W[l]) : W[l][i] = q[l][k]
      BY <3>1
    <3>5. /\ \A d \in D[l] : \E k \in 1 .. Len(q[l]) : d = q[l][k]
          /\ l \in S /\ W[l] # <<>> => Cardinality(a[l] \union D[l]) >= m[l]
          /\ D[l] # {} => Cardinality(a[l] \union D[l]) <= m[l]
          /\ l \notin S => W[l] = q[l] /\ D[l] = {}
      BY <2>2, <3>1
    <3>. QED
      BY <3>3, <3>4, <3>5
  <2>. QED
    BY <2>1, <2>2
<1>4. /\ queue' = W
      /\ active' = [l \in Lane |-> a[l] \union D[l]]
      /\ \A e \in Entry : LaneOf[e] \in Lane
  BY DEF Drain
<1>5. /\ race' = [e \in Entry |-> IF e \in D[LaneOf[e]] THEN "open" ELSE race[e]]
      /\ body' = [e \in Entry |->
                    IF e \in D[LaneOf[e]] THEN "running" ELSE body[e]]
      /\ taskGeneration' = [e \in Entry |->
           IF e \in D[LaneOf[e]] THEN g[LaneOf[e]] ELSE taskGeneration[e]]
  BY <1>4 DEF Drain
<1>6. W \in [Lane -> Seq(Entry)]
  BY <1>3
<1>. HIDE DEF W, D
<1>7. \A l \in Lane : \A e \in D[l] :
        e \in Entry /\ LaneOf[e] = l /\ p[e] = "pending" /\ race[e] = "none"
  <2>. SUFFICES ASSUME NEW l \in Lane, NEW e \in D[l]
                PROVE  /\ e \in Entry /\ LaneOf[e] = l
                       /\ p[e] = "pending" /\ race[e] = "none"
    OBVIOUS
  <2>1. PICK k \in 1 .. Len(q[l]) : e = q[l][k]
    BY <1>3
  <2>. QED
    BY <2>1, <1>2
<1>8. /\ race \in [Entry -> Races]
      /\ body \in [Entry -> {"none", "running", "ended"}]
      /\ taskGeneration \in [Entry -> 0 .. MaxGeneration]
  BY DEF TypeOK, Races
<1>9. /\ queue' \in [Lane -> Seq(Entry)]
      /\ active' \in [Lane -> SUBSET Entry]
      /\ race' \in [Entry -> Races]
      /\ body' \in [Entry -> {"none", "running", "ended"}]
      /\ taskGeneration' \in [Entry -> 0 .. MaxGeneration]
  <2>1. active' \in [Lane -> SUBSET Entry]
    BY <1>1, <1>3, <1>4
  <2>2. race' \in [Entry -> Races]
    BY <1>5, <1>8 DEF Races
  <2>3. body' \in [Entry -> {"none", "running", "ended"}]
    BY <1>5, <1>8
  <2>4. taskGeneration' \in [Entry -> 0 .. MaxGeneration]
    BY <1>1, <1>4, <1>5, <1>8
  <2>. QED
    BY <1>4, <1>6, <2>1, <2>2, <2>3, <2>4
<1>10. QueueOK(queue', p, race')
  <2>1. ASSUME NEW l \in Lane, NEW i \in 1 .. Len(W[l])
        PROVE  /\ LaneOf[W[l][i]] = l
               /\ p[W[l][i]] = "pending"
               /\ race'[W[l][i]] = "none"
               /\ \A j \in 1 .. Len(W[l]) : W[l][i] = W[l][j] => i = j
    <3>1. PICK k \in 1 .. Len(q[l]) : W[l][i] = q[l][k] /\ q[l][k] \notin D[l]
      BY <1>3
    <3>2. /\ q[l][k] \in Entry /\ LaneOf[q[l][k]] = l
          /\ p[q[l][k]] = "pending" /\ race[q[l][k]] = "none"
      BY <1>2
    <3>3. race'[q[l][k]] = "none"
      BY <3>1, <3>2, <1>5
    <3>4. \A j \in 1 .. Len(W[l]) : W[l][i] = W[l][j] => i = j
      BY <1>3
    <3>. QED
      BY <3>1, <3>2, <3>3, <3>4
  <2>2. ASSUME NEW e \in Entry, p[e] = "pending", race'[e] = "none"
        PROVE  \E i \in 1 .. Len(W[LaneOf[e]]) : W[LaneOf[e]][i] = e
    <3>1. LaneOf[e] \in Lane /\ race[e] = "none" /\ e \notin D[LaneOf[e]]
      BY <2>2, <1>4, <1>5
    <3>2. PICK l \in Lane : l = LaneOf[e]
      BY <3>1
    <3>3. PICK k \in 1 .. Len(q[l]) : q[l][k] = e
      BY <2>2, <3>1, <3>2 DEF QueueOK
    <3>4. q[l][k] \notin D[l]
      BY <3>1, <3>2, <3>3
    <3>5. \E i \in 1 .. Len(W[l]) : W[l][i] = q[l][k]
      BY <3>4, <1>3
    <3>. QED
      BY <3>2, <3>3, <3>5
  <2>3. ASSUME NEW e \in Entry, p[e] = "none"
        PROVE  race'[e] = "none"
    <3>1. race[e] = "none"
      BY <2>3 DEF QueueOK
    <3>2. e \notin D[LaneOf[e]]
      BY <2>3, <1>4, <1>7
    <3>. QED
      BY <3>1, <3>2, <1>5
  <2>4. ASSUME NEW e \in Entry, race'[e] = "open"
        PROVE  p[e] = "pending"
    <3>1. CASE e \in D[LaneOf[e]]
      BY <3>1, <1>4, <1>7
    <3>2. CASE e \notin D[LaneOf[e]]
      BY <2>4, <3>2, <1>5 DEF QueueOK
    <3>. QED
      BY <3>1, <3>2
  <2>5. /\ \A l \in Lane : \A i \in 1 .. Len(W[l]) :
             /\ LaneOf[W[l][i]] = l
             /\ p[W[l][i]] = "pending"
             /\ race'[W[l][i]] = "none"
             /\ \A j \in 1 .. Len(W[l]) : W[l][i] = W[l][j] => i = j
        /\ \A e \in Entry : p[e] = "pending" /\ race'[e] = "none" =>
             \E i \in 1 .. Len(W[LaneOf[e]]) : W[LaneOf[e]][i] = e
    BY <2>1, <2>2
  <2>6. \A e \in Entry : /\ p[e] = "none" => race'[e] = "none"
                         /\ race'[e] = "open" => p[e] = "pending"
    BY <2>3, <2>4
  <2>. QED
    BY <1>4, <2>5, <2>6 DEF QueueOK
<1>11. SlotsOK(active', g, p, race', taskGeneration')
  <2>. SUFFICES ASSUME NEW l \in Lane, NEW e \in Entry
                PROVE  e \in active'[l] <=>
                         /\ LaneOf[e] = l
                         /\ p[e] = "pending" /\ race'[e] # "none"
                         /\ taskGeneration'[e] = g[l]
    BY DEF SlotsOK
  <2>1. e \in active'[l] <=> e \in a[l] \/ e \in D[l]
    BY <1>4
  <2>2. e \in a[l] <=> /\ LaneOf[e] = l
                       /\ p[e] = "pending" /\ race[e] # "none"
                       /\ taskGeneration[e] = g[l]
    BY DEF SlotsOK
  <2>3. CASE e \in D[LaneOf[e]]
    <3>1. p[e] = "pending" /\ race[e] = "none"
      BY <2>3, <1>4, <1>7
    <3>2. race'[e] = "open" /\ taskGeneration'[e] = g[LaneOf[e]]
      BY <2>3, <1>5
    <3>3. e \in D[l] <=> LaneOf[e] = l
      BY <2>3, <1>7
    <3>. QED
      BY <2>1, <2>2, <3>1, <3>2, <3>3
  <2>4. CASE e \notin D[LaneOf[e]]
    <3>1. race'[e] = race[e] /\ taskGeneration'[e] = taskGeneration[e]
      BY <2>4, <1>5
    <3>2. e \notin D[l]
      BY <2>4, <1>7
    <3>. QED
      BY <2>1, <2>2, <3>1, <3>2
  <2>. QED
    BY <2>3, <2>4
<1>12. SessionOK(active', m)
  <2>. SUFFICES ASSUME NEW l \in SessionLane
                PROVE  m[l] = 1 /\ Cardinality(active'[l]) <= 1
    BY DEF SessionOK
  <2>1. l \in Lane /\ m[l] = 1 /\ Cardinality(a[l]) <= 1
    BY DEF SessionOK
  <2>2. active'[l] = a[l] \union D[l]
    BY <2>1, <1>4
  <2>3. CASE D[l] = {}
    BY <2>1, <2>2, <2>3
  <2>4. CASE D[l] # {}
    BY <2>1, <2>2, <2>4, <1>3
  <2>. QED
    BY <2>3, <2>4
<1>13. WorkOK(Lane, queue', active', m)
  <2>. SUFFICES ASSUME NEW l \in Lane, queue'[l] # <<>>
                PROVE  Cardinality(active'[l]) >= m[l]
    BY DEF WorkOK
  <2>1. active'[l] = a[l] \union D[l] /\ W[l] # <<>>
    BY <1>4
  <2>2. CASE l \in S
    BY <2>1, <2>2, <1>3
  <2>3. CASE l \notin S
    <3>0. W[l] = q[l] /\ D[l] = {}
      BY <2>3, <1>3
    <3>1. q[l] # <<>> /\ active'[l] = a[l]
      BY <2>1, <3>0
    <3>. QED
      BY <2>3, <3>1 DEF WorkOK
  <2>. QED
    BY <2>2, <2>3
<1>14. GenerationOK(g, taskGeneration')
  <2>. SUFFICES ASSUME NEW e \in Entry
                PROVE  taskGeneration'[e] <= g[LaneOf[e]]
    BY DEF GenerationOK
  <2>1. g[LaneOf[e]] \in Nat /\ taskGeneration[e] <= g[LaneOf[e]]
    BY <1>1, <1>4 DEF GenerationOK
  <2>. QED
    BY <2>1, <1>5
<1>. QED
  BY <1>9, <1>10, <1>11, <1>12, <1>13, <1>14

-----------------------------------------------------------------------------
(* The inductive invariant.                                                *)

\* Before the first call every lane is empty and has one free slot.
LEMMA InitIInv == Init => IInv
<1>. SUFFICES ASSUME Init PROVE IInv
  OBVIOUS
<1>1. TypeOK
  BY DEF Init, TypeOK
<1>2. QueueOK(queue, promise, race)
  BY DEF Init, QueueOK
<1>3. SlotsOK(active, generation, promise, race, taskGeneration)
  BY DEF Init, SlotsOK
<1>4. SessionOK(active, maxConcurrent)
  BY FS_EmptySet DEF Init, SessionOK
<1>5. WorkOK(Lane, queue, active, maxConcurrent)
  BY DEF Init, WorkOK
<1>6. GenerationOK(generation, taskGeneration)
  BY DEF Init, GenerationOK
<1>. QED
  BY <1>1, <1>2, <1>3, <1>4, <1>5, <1>6 DEF IInv

\* A race that is decided was open and an open one held its slot, so the
\* queues and the slots only see whether a task was dispatched.
LEMMA RaceDecided ==
  ASSUME IInv, NEW r \in [Entry -> Races],
         \A e \in Entry : /\ r[e] = "none" <=> race[e] = "none"
                          /\ r[e] = "open" => race[e] = "open"
  PROVE  /\ QueueOK(queue, promise, r)
         /\ SlotsOK(active, generation, promise, r, taskGeneration)
<1>1. \A l \in Lane : \A i \in 1 .. Len(queue[l]) : queue[l][i] \in Entry
  BY DEF IInv, TypeOK
<1>2. QueueOK(queue, promise, r)
  BY <1>1 DEF IInv, QueueOK
<1>3. SlotsOK(active, generation, promise, r, taskGeneration)
  BY DEF IInv, SlotsOK
<1>. QED
  BY <1>2, <1>3

\* The queues as an enqueue of e hands them to the pump.
QueuesWith(e) == [queue EXCEPT ![LaneOf[e]] = Insert(@, e, nextSequence)]

\* An enqueue puts an entry nobody has seen into its lane, once.
LEMMA EnqueueAdds ==
  ASSUME IInv, NEW e \in Entry, Enqueue(e)
  PROVE  /\ QueuesWith(e) \in [Lane -> Seq(Entry)]
         /\ \A k \in Lane : k # LaneOf[e] => QueuesWith(e)[k] = queue[k]
         /\ promise' \in [Entry -> Promises]
         /\ promise[e] = "none" /\ race[e] = "none"
         /\ promise'[e] = "pending"
         /\ \A f \in Entry : f # e => promise'[f] = promise[f]
         /\ QueueOK(QueuesWith(e), promise', race)
<1> DEFINE q == [queue EXCEPT ![LaneOf[e]] = Insert(@, e, nextSequence)]
<1>1. TypeOK /\ LaneOf[e] \in Lane /\ promise[e] = "none" /\ race[e] = "none"
  BY DEF IInv, Enqueue, QueueOK
<1>2. PICK l \in Lane : l = LaneOf[e]
  BY <1>1
<1>3. /\ queue[l] \in Seq(Entry) /\ nextSequence \in Nat
      /\ \A k \in Lane : queue[k] \in Seq(Entry)
  BY <1>1 DEF TypeOK
<1>4. \A k \in Lane : \A i \in 1 .. Len(queue[k]) :
        /\ queue[k][i] \in Entry /\ queue[k][i] # e
        /\ LaneOf[queue[k][i]] = k
        /\ promise[queue[k][i]] = "pending" /\ race[queue[k][i]] = "none"
        /\ \A j \in 1 .. Len(queue[k]) : queue[k][i] = queue[k][j] => i = j
  BY <1>1, <1>3 DEF IInv, QueueOK
<1>5. /\ q[l] = Insert(queue[l], e, nextSequence)
      /\ \A k \in Lane : k # l => q[k] = queue[k]
  BY <1>1, <1>2 DEF TypeOK
<1>6. /\ q[l] \in Seq(Entry)
      /\ \A i, j \in 1 .. Len(q[l]) : q[l][i] = q[l][j] => i = j
      /\ \A i \in 1 .. Len(q[l]) :
           q[l][i] = e \/ \E j \in 1 .. Len(queue[l]) : q[l][i] = queue[l][j]
      /\ \E i \in 1 .. Len(q[l]) : q[l][i] = e
      /\ \A j \in 1 .. Len(queue[l]) :
           \E i \in 1 .. Len(q[l]) : q[l][i] = queue[l][j]
  <2>1. /\ \A i, j \in 1 .. Len(queue[l]) : queue[l][i] = queue[l][j] => i = j
        /\ \A i \in 1 .. Len(queue[l]) : queue[l][i] # e
    BY <1>4
  <2>2. LET n == Insert(queue[l], e, nextSequence)
        IN  /\ n \in Seq(Entry)
            /\ \A i, j \in 1 .. Len(n) : n[i] = n[j] => i = j
            /\ \A i \in 1 .. Len(n) :
                 n[i] = e \/ \E j \in 1 .. Len(queue[l]) : n[i] = queue[l][j]
            /\ \E i \in 1 .. Len(n) : n[i] = e
            /\ \A j \in 1 .. Len(queue[l]) :
                 \E i \in 1 .. Len(n) : n[i] = queue[l][j]
    BY <2>1, <1>3, InsertProperties
  <2>. HIDE DEF q
  <2>. QED
    BY <2>2, <1>5
<1>7. q \in [Lane -> Seq(Entry)]
  BY <1>1, <1>2, <1>5, <1>6 DEF TypeOK
<1>8. promise' = [promise EXCEPT ![e] = "pending"]
  BY DEF Enqueue
<1>. HIDE DEF q
<1>9. /\ promise' \in [Entry -> Promises]
      /\ promise'[e] = "pending"
      /\ \A f \in Entry : f # e => promise'[f] = promise[f]
  BY <1>1, <1>8 DEF TypeOK, Promises
<1>10. QueueOK(q, promise', race)
  <2>1. ASSUME NEW k \in Lane, NEW i \in 1 .. Len(q[k])
        PROVE  /\ LaneOf[q[k][i]] = k
               /\ promise'[q[k][i]] = "pending"
               /\ race[q[k][i]] = "none"
               /\ \A j \in 1 .. Len(q[k]) : q[k][i] = q[k][j] => i = j
    <3>1. CASE k # l
      BY <3>1, <2>1, <1>4, <1>5, <1>9
    <3>2. CASE k = l
      <4>1. CASE q[l][i] = e
        BY <4>1, <3>2, <1>1, <1>2, <1>6, <1>9
      <4>2. CASE \E j \in 1 .. Len(queue[l]) : q[l][i] = queue[l][j]
        <5>1. PICK j \in 1 .. Len(queue[l]) : q[l][i] = queue[l][j]
          BY <4>2
        <5>2. /\ LaneOf[q[l][i]] = l
              /\ promise'[q[l][i]] = "pending" /\ race[q[l][i]] = "none"
          BY <5>1, <1>4, <1>9
        <5>. QED
          BY <5>2, <3>2, <1>6
      <4>. QED
        BY <4>1, <4>2, <3>2, <1>6
    <3>. QED
      BY <3>1, <3>2
  <2>2. ASSUME NEW f \in Entry, promise'[f] = "pending", race[f] = "none"
        PROVE  \E i \in 1 .. Len(q[LaneOf[f]]) : q[LaneOf[f]][i] = f
    <3>1. CASE f = e
      BY <3>1, <1>2, <1>6
    <3>2. CASE f # e
      <4>1. PICK k \in Lane : k = LaneOf[f]
        OBVIOUS
      <4>2. PICK j \in 1 .. Len(queue[k]) : queue[k][j] = f
        BY <2>2, <3>2, <4>1, <1>9 DEF IInv, QueueOK
      <4>3. CASE k = l
        BY <4>1, <4>2, <4>3, <1>6
      <4>4. CASE k # l
        BY <4>1, <4>2, <4>4, <1>5
      <4>. QED
        BY <4>3, <4>4
    <3>. QED
      BY <3>1, <3>2
  <2>3. \A f \in Entry : /\ promise'[f] = "none" => race[f] = "none"
                         /\ race[f] = "open" => promise'[f] = "pending"
    BY <1>1, <1>9 DEF IInv, QueueOK
  <2>. QED
    BY <2>1, <2>2, <2>3 DEF QueueOK
<1>. QED
  BY <1>1, <1>2, <1>5, <1>7, <1>9, <1>10 DEF q, QueuesWith

\* Then it pumps that lane.
LEMMA EnqueueStep ==
  ASSUME IInv, NEW e \in Entry, Enqueue(e)
  PROVE  IInv'
<1> DEFINE q == QueuesWith(e)
<1>1. TypeOK /\ LaneOf[e] \in Lane
  BY DEF IInv
<1>2. PICK l \in Lane : l = LaneOf[e]
  BY <1>1
<1>5. /\ q \in [Lane -> Seq(Entry)]
      /\ \A k \in Lane : k # l => q[k] = queue[k]
  BY <1>2, EnqueueAdds
<1>6. promise[e] = "none" /\ race[e] = "none"
  BY EnqueueAdds
<1>9. /\ promise' \in [Entry -> Promises]
      /\ promise'[e] = "pending"
      /\ \A f \in Entry : f # e => promise'[f] = promise[f]
  BY EnqueueAdds
<1>10. QueueOK(q, promise', race)
  BY EnqueueAdds
<1>8. /\ sequence' = [sequence EXCEPT ![e] = nextSequence]
      /\ nextSequence' = nextSequence + 1
      /\ Drain({l}, q, active, maxConcurrent, generation)
      /\ UNCHANGED <<laneVars, admission, waitState, waitTasks>>
  BY <1>2 DEF Enqueue, QueuesWith
<1>. HIDE DEF q
<1>11. SlotsOK(active, generation, promise', race, taskGeneration)
  BY <1>6, <1>9 DEF IInv, SlotsOK
<1>12. WorkOK(Lane \ {l}, q, active, maxConcurrent)
  BY <1>5 DEF IInv, WorkOK
<1>13. /\ active \in [Lane -> SUBSET Entry]
       /\ maxConcurrent \in [Lane -> 0 .. MaxConcurrency]
       /\ generation \in [Lane -> 0 .. MaxGeneration]
       /\ SessionOK(active, maxConcurrent)
       /\ GenerationOK(generation, taskGeneration)
  BY DEF IInv, TypeOK
<1>14. /\ queue' \in [Lane -> Seq(Entry)]
       /\ active' \in [Lane -> SUBSET Entry]
       /\ race' \in [Entry -> Races]
       /\ body' \in [Entry -> {"none", "running", "ended"}]
       /\ taskGeneration' \in [Entry -> 0 .. MaxGeneration]
       /\ QueueOK(queue', promise', race')
       /\ SlotsOK(active', generation, promise', race', taskGeneration')
       /\ SessionOK(active', maxConcurrent)
       /\ WorkOK(Lane, queue', active', maxConcurrent)
       /\ GenerationOK(generation, taskGeneration')
  BY <1>1, <1>5, <1>8, <1>9, <1>10, <1>11, <1>12, <1>13, DrainPreserves
<1>15. generation' = generation /\ maxConcurrent' = maxConcurrent
  BY <1>8 DEF laneVars
<1>16. TypeOK'
  <2>1. /\ sequence' \in [Entry -> Nat] /\ nextSequence' \in Nat \ {0}
        /\ admission' \in {"open", "fenced", "draining"}
        /\ waitState' \in [Waiter -> {"none", "waiting", "drained", "timedOut"}]
        /\ waitTasks' \in [Waiter -> SUBSET Entry]
    BY <1>1, <1>8 DEF TypeOK
  <2>. QED
    BY <2>1, <1>9, <1>13, <1>14, <1>15 DEF TypeOK, Promises, Races
<1>. QED
  BY <1>14, <1>15, <1>16 DEF IInv

\* A completion frees the slot of its own generation and pumps, or, when the
\* lane was reset since, only settles its caller.
LEMMA CompleteStep ==
  ASSUME IInv, NEW e \in Entry, Complete(e)
  PROVE  IInv'
<1>1. /\ TypeOK /\ promise[e] = "pending"
      /\ race[e] # "none" /\ race[e] # "open"
      /\ promise' = [promise EXCEPT ![e] = "settled"]
      /\ UNCHANGED <<laneVars, entryVars, admission, waitTasks>>
  BY DEF IInv, Complete
<1>2. PICK l \in Lane : l = LaneOf[e]
  OBVIOUS
<1>3. /\ promise' \in [Entry -> Promises]
      /\ promise'[e] = "settled"
      /\ \A f \in Entry : f # e => promise'[f] = promise[f]
  BY <1>1 DEF TypeOK, Promises
<1>4. \A k \in Lane : \A i \in 1 .. Len(queue[k]) :
        queue[k][i] \in Entry /\ race[queue[k][i]] = "none"
  <2>1. \A k \in Lane : queue[k] \in Seq(Entry)
    BY <1>1 DEF TypeOK
  <2>. QED
    BY <2>1 DEF IInv, QueueOK
<1>5. QueueOK(queue, promise', race)
  BY <1>1, <1>3, <1>4 DEF IInv, QueueOK
<1>6. generation' = generation /\ maxConcurrent' = maxConcurrent
  BY <1>1 DEF laneVars
<1>7. CASE taskGeneration[e] = generation[l]
  <2> DEFINE a == [active EXCEPT ![l] = @ \ {e}]
  <2>1. Drain({l}, queue, a, maxConcurrent, generation) /\ Notify
    BY <1>2, <1>7 DEF Complete
  <2>2. /\ a \in [Lane -> SUBSET Entry]
        /\ a[l] = active[l] \ {e}
        /\ \A k \in Lane : k # l => a[k] = active[k]
    BY <1>1 DEF TypeOK
  <2>. HIDE DEF a
  <2>3. SlotsOK(a, generation, promise', race, taskGeneration)
    <3>. SUFFICES ASSUME NEW k \in Lane, NEW f \in Entry
                  PROVE  f \in a[k] <=>
                           /\ LaneOf[f] = k
                           /\ promise'[f] = "pending" /\ race[f] # "none"
                           /\ taskGeneration[f] = generation[k]
      BY DEF SlotsOK
    <3>1. f \in active[k] <=> /\ LaneOf[f] = k
                              /\ promise[f] = "pending" /\ race[f] # "none"
                              /\ taskGeneration[f] = generation[k]
      BY DEF IInv, SlotsOK
    <3>2. CASE f = e
      BY <3>1, <3>2, <1>2, <1>3, <2>2
    <3>3. CASE f # e
      BY <3>1, <3>3, <1>3, <2>2
    <3>. QED
      BY <3>2, <3>3
  <2>4. SessionOK(a, maxConcurrent)
    <3>. SUFFICES ASSUME NEW k \in SessionLane
                  PROVE  maxConcurrent[k] = 1 /\ Cardinality(a[k]) <= 1
      BY DEF SessionOK
    <3>1. k \in Lane /\ maxConcurrent[k] = 1 /\ Cardinality(active[k]) <= 1
      BY DEF IInv, SessionOK
    <3>2. active[k] \in SUBSET Entry /\ a[k] \subseteq active[k]
      BY <1>1, <2>2, <3>1 DEF TypeOK
    <3>3. /\ IsFiniteSet(active[k])
          /\ Cardinality(a[k]) <= Cardinality(active[k])
      BY <3>2, EntrySets, FS_Subset
    <3>4. Cardinality(a[k]) \in Nat /\ Cardinality(active[k]) \in Nat
      BY <3>2, EntrySets
    <3>. QED
      BY <3>1, <3>3, <3>4
  <2>5. WorkOK(Lane \ {l}, queue, a, maxConcurrent)
    BY <2>2 DEF IInv, WorkOK
  <2>6. /\ queue \in [Lane -> Seq(Entry)]
        /\ maxConcurrent \in [Lane -> 0 .. MaxConcurrency]
        /\ generation \in [Lane -> 0 .. MaxGeneration]
        /\ GenerationOK(generation, taskGeneration)
    BY DEF IInv, TypeOK
  <2>7. /\ queue' \in [Lane -> Seq(Entry)]
        /\ active' \in [Lane -> SUBSET Entry]
        /\ race' \in [Entry -> Races]
        /\ body' \in [Entry -> {"none", "running", "ended"}]
        /\ taskGeneration' \in [Entry -> 0 .. MaxGeneration]
        /\ QueueOK(queue', promise', race')
        /\ SlotsOK(active', generation, promise', race', taskGeneration')
        /\ SessionOK(active', maxConcurrent)
        /\ WorkOK(Lane, queue', active', maxConcurrent)
        /\ GenerationOK(generation, taskGeneration')
    <3>1. TypeOK /\ {l} \in SUBSET Lane
          /\ Drain({l}, queue, a, maxConcurrent, generation)
          /\ promise' \in [Entry -> Promises] /\ a \in [Lane -> SUBSET Entry]
      BY <1>1, <1>3, <2>1, <2>2
    <3>. QED
      BY <3>1, <1>5, <2>3, <2>4, <2>5, <2>6, DrainPreserves
  <2>8. TypeOK'
    BY <1>1, <1>3, <2>1, <2>7
       DEF TypeOK, laneVars, entryVars, Promises, Races, Notify
  <2>. QED
    BY <1>6, <2>7, <2>8 DEF IInv
<1>8. CASE taskGeneration[e] # generation[l]
  <2>1. UNCHANGED <<queue, active, race, body, taskGeneration, waitState>>
    BY <1>2, <1>8 DEF Complete
  <2>2. SlotsOK(active, generation, promise', race, taskGeneration)
    BY <1>2, <1>3, <1>8 DEF IInv, SlotsOK
  <2>3. TypeOK'
    BY <1>1, <1>3, <2>1 DEF TypeOK, laneVars, entryVars, Promises
  <2>. QED
    BY <1>5, <1>6, <2>1, <2>2, <2>3 DEF IInv
<1>. QED
  BY <1>7, <1>8

\* A new limit is pumped at once unless it suspends the lane, and then a queue
\* may wait beside no slot at all.
LEMMA SetConcurrencyStep ==
  ASSUME IInv, NEW l \in Lane, NEW requested \in -1 .. MaxConcurrency,
         SetCommandLaneConcurrency(l, requested)
  PROVE  IInv'
<1> DEFINE least == IF l \in ProbeLane THEN 1 ELSE 0
           n == IF requested < least THEN least ELSE requested
           m == [maxConcurrent EXCEPT ![l] = n]
           S == IF n > 0 THEN {l} ELSE {}
<1>1. /\ TypeOK /\ l \notin SessionLane
      /\ maxConcurrent' = m
      /\ Drain(S, queue, active, m, generation)
      /\ UNCHANGED <<generation, entryVars, promise, admission, waitState,
                     waitTasks>>
  BY DEF IInv, SetCommandLaneConcurrency
<1>2. n \in 0 .. MaxConcurrency
  OBVIOUS
<1>3. S \in SUBSET Lane /\ (n > 0 => l \in S)
  OBVIOUS
<1>. HIDE DEF n, S
<1>4. /\ m \in [Lane -> 0 .. MaxConcurrency]
      /\ m[l] = n
      /\ \A k \in Lane : k # l => m[k] = maxConcurrent[k]
  BY <1>1, <1>2 DEF TypeOK
<1>. HIDE DEF m
<1>5. SessionOK(active, m)
  BY <1>1, <1>4 DEF IInv, SessionOK
<1>6. WorkOK(Lane \ S, queue, active, m)
  <2>. SUFFICES ASSUME NEW k \in Lane \ S, queue[k] # <<>>
                PROVE  Cardinality(active[k]) >= m[k]
    BY DEF WorkOK
  <2>1. CASE k = l
    <3>1. m[k] = 0
      BY <1>2, <1>3, <1>4, <2>1
    <3>2. Cardinality(active[k]) \in Nat
      BY <1>1, EntrySets DEF TypeOK
    <3>. QED
      BY <3>1, <3>2
  <2>2. CASE k # l
    BY <1>4, <2>2 DEF IInv, WorkOK
  <2>. QED
    BY <2>1, <2>2
<1>7. /\ queue \in [Lane -> Seq(Entry)]
      /\ active \in [Lane -> SUBSET Entry]
      /\ generation \in [Lane -> 0 .. MaxGeneration]
      /\ promise \in [Entry -> Promises]
      /\ QueueOK(queue, promise, race)
      /\ SlotsOK(active, generation, promise, race, taskGeneration)
      /\ GenerationOK(generation, taskGeneration)
  BY DEF IInv, TypeOK, Promises
<1>8. /\ queue' \in [Lane -> Seq(Entry)]
      /\ active' \in [Lane -> SUBSET Entry]
      /\ race' \in [Entry -> Races]
      /\ body' \in [Entry -> {"none", "running", "ended"}]
      /\ taskGeneration' \in [Entry -> 0 .. MaxGeneration]
      /\ QueueOK(queue', promise, race')
      /\ SlotsOK(active', generation, promise, race', taskGeneration')
      /\ SessionOK(active', m)
      /\ WorkOK(Lane, queue', active', m)
      /\ GenerationOK(generation, taskGeneration')
  BY <1>1, <1>3, <1>4, <1>5, <1>6, <1>7, DrainPreserves
<1>9. TypeOK'
  BY <1>1, <1>4, <1>8 DEF TypeOK, entryVars, Promises, Races
<1>. QED
  BY <1>1, <1>8, <1>9 DEF IInv

\* clearCommandLane rejects exactly the callers it removes from the queue.
LEMMA ClearStep ==
  ASSUME IInv, NEW l \in Lane, ClearCommandLane(l)
  PROVE  IInv'
<1> DEFINE cleared == Range(queue[l])
<1>1. /\ TypeOK
      /\ queue' = [queue EXCEPT ![l] = <<>>]
      /\ promise' = [e \in Entry |->
                       IF e \in cleared THEN "cleared" ELSE promise[e]]
      /\ UNCHANGED <<active, laneVars, entryVars, taskGeneration, race, body,
                     admission, waitState, waitTasks>>
  BY DEF IInv, ClearCommandLane
<1>2. \A k \in Lane : \A i \in 1 .. Len(queue[k]) :
        /\ queue[k][i] \in Entry /\ LaneOf[queue[k][i]] = k
        /\ promise[queue[k][i]] = "pending" /\ race[queue[k][i]] = "none"
        /\ \A j \in 1 .. Len(queue[k]) : queue[k][i] = queue[k][j] => i = j
  <2>1. \A k \in Lane : queue[k] \in Seq(Entry)
    BY <1>1 DEF TypeOK
  <2>2. \A k \in Lane : \A i \in 1 .. Len(queue[k]) : queue[k][i] \in Entry
    BY <2>1
  <2>. QED
    BY <2>2 DEF IInv, QueueOK
<1>3. \A e \in Entry : e \in cleared <=>
        \E i \in 1 .. Len(queue[l]) : queue[l][i] = e
  <2>1. queue[l] \in Seq(Entry)
    BY <1>1 DEF TypeOK
  <2>. QED
    BY <2>1 DEF Range
<1>. HIDE DEF cleared
<1>4. \A e \in Entry : e \in cleared =>
        LaneOf[e] = l /\ promise[e] = "pending" /\ race[e] = "none"
  BY <1>2, <1>3
<1>5. /\ queue' \in [Lane -> Seq(Entry)]
      /\ queue'[l] = <<>>
      /\ \A k \in Lane : k # l => queue'[k] = queue[k]
  BY <1>1 DEF TypeOK
<1>6. QueueOK(queue', promise', race)
  <2>1. ASSUME NEW k \in Lane, NEW i \in 1 .. Len(queue'[k])
        PROVE  /\ LaneOf[queue'[k][i]] = k
               /\ promise'[queue'[k][i]] = "pending"
               /\ race[queue'[k][i]] = "none"
               /\ \A j \in 1 .. Len(queue'[k]) :
                    queue'[k][i] = queue'[k][j] => i = j
    <3>1. k # l /\ queue'[k] = queue[k]
      BY <2>1, <1>5
    <3>2. /\ queue[k][i] \in Entry /\ LaneOf[queue[k][i]] = k
          /\ promise[queue[k][i]] = "pending" /\ race[queue[k][i]] = "none"
          /\ \A j \in 1 .. Len(queue[k]) : queue[k][i] = queue[k][j] => i = j
      BY <2>1, <3>1, <1>2
    <3>3. queue[k][i] \notin cleared
      BY <3>1, <3>2, <1>4
    <3>4. promise'[queue[k][i]] = "pending"
      BY <3>2, <3>3, <1>1
    <3>. QED
      BY <3>1, <3>2, <3>4
  <2>2. ASSUME NEW e \in Entry, promise'[e] = "pending", race[e] = "none"
        PROVE  \E i \in 1 .. Len(queue'[LaneOf[e]]) : queue'[LaneOf[e]][i] = e
    <3>1. promise[e] = "pending" /\ e \notin cleared
      BY <2>2, <1>1
    <3>2. PICK k \in Lane : k = LaneOf[e]
      OBVIOUS
    <3>3. \E i \in 1 .. Len(queue[k]) : queue[k][i] = e
      BY <2>2, <3>1, <3>2 DEF IInv, QueueOK
    <3>4. k # l
      BY <3>1, <3>3, <1>3
    <3>. QED
      BY <3>2, <3>3, <3>4, <1>5
  <2>3. \A e \in Entry : /\ promise'[e] = "none" => race[e] = "none"
                         /\ race[e] = "open" => promise'[e] = "pending"
    BY <1>1, <1>4 DEF IInv, QueueOK
  <2>. QED
    BY <2>1, <2>2, <2>3 DEF QueueOK
<1>7. SlotsOK(active, generation, promise', race, taskGeneration)
  BY <1>1, <1>4 DEF IInv, SlotsOK
<1>8. WorkOK(Lane, queue', active, maxConcurrent)
  BY <1>5 DEF IInv, WorkOK
<1>9. TypeOK'
  BY <1>1, <1>5 DEF TypeOK, laneVars, entryVars
<1>. QED
  BY <1>1, <1>6, <1>7, <1>8, <1>9 DEF IInv, laneVars

\* A reset of the lanes of S opens a generation none of their tasks belongs
\* to, frees every slot and pumps.
LEMMA ResetStep ==
  ASSUME IInv, NEW S \in SUBSET Lane, NEW g \in [Lane -> 0 .. MaxGeneration],
         NEW a \in [Lane -> SUBSET Entry],
         \A l \in Lane : IF l \in S
                         THEN g[l] = generation[l] + 1 /\ a[l] = {}
                         ELSE g[l] = generation[l] /\ a[l] = active[l],
         generation' = g,
         Drain(S, queue, a, maxConcurrent, g),
         waitState' \in [Waiter -> {"none", "waiting", "drained", "timedOut"}],
         admission' \in {"open", "fenced", "draining"},
         UNCHANGED <<maxConcurrent, entryVars, promise, waitTasks>>
  PROVE  IInv'
<1>1. TypeOK
  BY DEF IInv
<1>2. SlotsOK(a, g, promise, race, taskGeneration)
  <2>. SUFFICES ASSUME NEW l \in Lane, NEW e \in Entry
                PROVE  e \in a[l] <=> /\ LaneOf[e] = l
                                     /\ promise[e] = "pending"
                                     /\ race[e] # "none"
                                     /\ taskGeneration[e] = g[l]
    BY DEF SlotsOK
  <2>1. CASE l \in S
    <3>1. g[l] = generation[l] + 1 /\ a[l] = {}
      BY <2>1
    <3>2. /\ generation[l] \in Nat /\ taskGeneration[e] \in Nat
          /\ LaneOf[e] = l => taskGeneration[e] <= generation[l]
      BY <1>1 DEF TypeOK, IInv, GenerationOK
    <3>. QED
      BY <3>1, <3>2
  <2>2. CASE l \notin S
    BY <2>2 DEF IInv, SlotsOK
  <2>. QED
    BY <2>1, <2>2
<1>3. SessionOK(a, maxConcurrent)
  <2>. SUFFICES ASSUME NEW l \in SessionLane
                PROVE  maxConcurrent[l] = 1 /\ Cardinality(a[l]) <= 1
    BY DEF SessionOK
  <2>1. l \in Lane /\ maxConcurrent[l] = 1 /\ Cardinality(active[l]) <= 1
    BY DEF IInv, SessionOK
  <2>2. Cardinality({}) = 0
    BY FS_EmptySet
  <2>3. CASE l \in S
    <3>1. a[l] = {}
      BY <2>1, <2>3
    <3>2. Cardinality(a[l]) = 0
      BY <2>2, <3>1
    <3>. QED
      BY <2>1, <3>2
  <2>4. CASE l \notin S
    <3>1. a[l] = active[l]
      BY <2>1, <2>4
    <3>. QED
      BY <2>1, <3>1
  <2>. QED
    BY <2>3, <2>4
<1>4. WorkOK(Lane \ S, queue, a, maxConcurrent)
  BY DEF IInv, WorkOK
<1>5. GenerationOK(g, taskGeneration)
  <2>. SUFFICES ASSUME NEW e \in Entry
                PROVE  taskGeneration[e] <= g[LaneOf[e]]
    BY DEF GenerationOK
  <2>1. /\ generation[LaneOf[e]] \in Nat /\ taskGeneration[e] \in Nat
        /\ taskGeneration[e] <= generation[LaneOf[e]]
    BY <1>1 DEF TypeOK, IInv, GenerationOK
  <2>2. g[LaneOf[e]] \in {generation[LaneOf[e]], generation[LaneOf[e]] + 1}
    OBVIOUS
  <2>. QED
    BY <2>1, <2>2
<1>6. /\ queue \in [Lane -> Seq(Entry)]
      /\ maxConcurrent \in [Lane -> 0 .. MaxConcurrency]
      /\ promise \in [Entry -> Promises]
      /\ QueueOK(queue, promise, race)
  BY <1>1 DEF IInv, TypeOK, Promises
<1>7. /\ queue' \in [Lane -> Seq(Entry)]
      /\ active' \in [Lane -> SUBSET Entry]
      /\ race' \in [Entry -> Races]
      /\ body' \in [Entry -> {"none", "running", "ended"}]
      /\ taskGeneration' \in [Entry -> 0 .. MaxGeneration]
      /\ QueueOK(queue', promise, race')
      /\ SlotsOK(active', g, promise, race', taskGeneration')
      /\ SessionOK(active', maxConcurrent)
      /\ WorkOK(Lane, queue', active', maxConcurrent)
      /\ GenerationOK(g, taskGeneration')
  BY <1>1, <1>2, <1>3, <1>4, <1>5, <1>6, DrainPreserves
<1>8. TypeOK'
  BY <1>1, <1>7 DEF TypeOK, entryVars, Promises, Races
<1>. QED
  BY <1>7, <1>8 DEF IInv

\* A decided race and the end of a body change neither queues nor slots.
LEMMA RaceStep ==
  ASSUME IInv, NEW e \in Entry, BodyEnds(e) \/ Timeout(e)
  PROVE  IInv'
<1>1. TypeOK
  BY DEF IInv
<1>2. /\ race' \in [Entry -> Races]
      /\ \A f \in Entry : /\ race'[f] = "none" <=> race[f] = "none"
                          /\ race'[f] = "open" => race[f] = "open"
      /\ body' \in [Entry -> {"none", "running", "ended"}]
  BY <1>1 DEF BodyEnds, Timeout, TypeOK, Races
<1>3. UNCHANGED <<queue, active, laneVars, entryVars, taskGeneration, promise,
                  admission, waitState, waitTasks>>
  BY DEF BodyEnds, Timeout
<1>4. /\ QueueOK(queue, promise, race')
      /\ SlotsOK(active, generation, promise, race', taskGeneration)
  BY <1>2, RaceDecided
<1>5. TypeOK'
  BY <1>1, <1>2, <1>3 DEF TypeOK, laneVars, entryVars, Races
<1>. QED
  BY <1>3, <1>4, <1>5 DEF IInv, laneVars

\* A refused caller was never queued.
LEMMA RefuseStep ==
  ASSUME IInv, NEW e \in Entry, RefuseEnqueue(e)
  PROVE  IInv'
<1>1. /\ TypeOK /\ promise[e] = "none" /\ race[e] = "none"
      /\ promise' = [promise EXCEPT ![e] = "refused"]
      /\ UNCHANGED <<queue, active, laneVars, entryVars, taskGeneration, race,
                     body, admission, waitState, waitTasks>>
  BY DEF IInv, QueueOK, RefuseEnqueue
<1>2. /\ promise' \in [Entry -> Promises]
      /\ promise'[e] = "refused"
      /\ \A f \in Entry : f # e => promise'[f] = promise[f]
  BY <1>1 DEF TypeOK, Promises
<1>3. \A l \in Lane : queue[l] \in Seq(Entry)
  BY <1>1 DEF TypeOK
<1>4. \A l \in Lane : \A i \in 1 .. Len(queue[l]) :
        queue[l][i] \in Entry /\ queue[l][i] # e
  <2>1. \A l \in Lane : \A i \in 1 .. Len(queue[l]) : queue[l][i] \in Entry
    BY <1>3
  <2>. QED
    BY <2>1, <1>1 DEF IInv, QueueOK
<1>5. QueueOK(queue, promise', race)
  BY <1>1, <1>2, <1>4 DEF IInv, QueueOK
<1>6. SlotsOK(active, generation, promise', race, taskGeneration)
  BY <1>1, <1>2 DEF IInv, SlotsOK
<1>7. TypeOK'
  BY <1>1, <1>2 DEF TypeOK, laneVars, entryVars, Promises
<1>. QED
  BY <1>1, <1>5, <1>6, <1>7 DEF IInv, laneVars

\* Every step of the queue preserves the invariant.
LEMMA NextIInv == IInv /\ [Next]_vars => IInv'
<1>. SUFFICES ASSUME IInv, [Next]_vars PROVE IInv'
  OBVIOUS
<1>0. TypeOK
  BY DEF IInv
<1>1. CASE \E e \in Entry : RefuseEnqueue(e)
  BY <1>1, RefuseStep
<1>2. CASE \E e \in Entry : Enqueue(e)
  BY <1>2, EnqueueStep
<1>3. CASE \E e \in Entry : BodyEnds(e) \/ Timeout(e)
  BY <1>3, RaceStep
<1>4. CASE \E e \in Entry : Complete(e)
  BY <1>4, CompleteStep
<1>5. CASE \E l \in Lane : \E n \in -1 .. MaxConcurrency :
             SetCommandLaneConcurrency(l, n)
  BY <1>5, SetConcurrencyStep
<1>6. CASE \E l \in Lane : ClearCommandLane(l)
  BY <1>6, ClearStep
<1>7. ASSUME NEW l \in Lane, ResetCommandLane(l)
      PROVE  IInv'
  <2> DEFINE g == [generation EXCEPT ![l] = @ + 1]
             a == [active EXCEPT ![l] = {}]
  <2>1. /\ generation[l] < MaxGeneration /\ generation' = g
        /\ Drain({l}, queue, a, maxConcurrent, g)
        /\ Notify
        /\ UNCHANGED <<maxConcurrent, entryVars, promise, admission, waitTasks>>
    BY <1>7 DEF ResetCommandLane
  <2>2. g \in [Lane -> 0 .. MaxGeneration] /\ a \in [Lane -> SUBSET Entry]
    BY <1>0, <2>1 DEF TypeOK
  <2>3. \A k \in Lane : IF k \in {l}
                        THEN g[k] = generation[k] + 1 /\ a[k] = {}
                        ELSE g[k] = generation[k] /\ a[k] = active[k]
    BY <1>0 DEF TypeOK
  <2>4. /\ waitState' \in [Waiter -> {"none", "waiting", "drained", "timedOut"}]
        /\ admission' \in {"open", "fenced", "draining"}
    BY <1>0, <2>1 DEF TypeOK, Notify
  <2>. HIDE DEF g, a
  <2>5. {l} \in SUBSET Lane
    OBVIOUS
  <2>6. UNCHANGED <<maxConcurrent, entryVars, promise, waitTasks>>
    BY <2>1
  <2>. QED
    BY <2>1, <2>2, <2>3, <2>4, <2>5, <2>6, ResetStep
<1>8. CASE ResetAllLanes
  <2> DEFINE g == [l \in Lane |-> generation[l] + 1]
             a == [l \in Lane |-> {}]
  <2>1. /\ \A l \in Lane : generation[l] < MaxGeneration
        /\ generation' = g /\ admission' = "open"
        /\ Drain(Lane, queue, a, maxConcurrent, g)
        /\ Notify
        /\ UNCHANGED <<maxConcurrent, entryVars, promise, waitTasks>>
    BY <1>8 DEF ResetAllLanes
  <2>2. g \in [Lane -> 0 .. MaxGeneration] /\ a \in [Lane -> SUBSET Entry]
    BY <1>0, <2>1 DEF TypeOK
  <2>3. \A k \in Lane : IF k \in Lane
                        THEN g[k] = generation[k] + 1 /\ a[k] = {}
                        ELSE g[k] = generation[k] /\ a[k] = active[k]
    OBVIOUS
  <2>4. /\ waitState' \in [Waiter -> {"none", "waiting", "drained", "timedOut"}]
        /\ admission' \in {"open", "fenced", "draining"}
    BY <1>0, <2>1 DEF TypeOK, Notify
  <2>. HIDE DEF g, a
  <2>5. Lane \in SUBSET Lane
    OBVIOUS
  <2>. QED
    BY <2>1, <2>2, <2>3, <2>4, <2>5, ResetStep
<1>9. CASE \/ \E w \in Waiter : WaitForActiveTasks(w) \/ WaiterTimeout(w)
           \/ ChangeAdmission
           \/ UNCHANGED vars
  <2>1. UNCHANGED <<queue, active, laneVars, entryVars, taskGeneration, race,
                    body, promise>>
    BY <1>9 DEF WaitForActiveTasks, WaiterTimeout, ChangeAdmission, vars,
                laneVars, entryVars
  <2>2. TypeOK'
    <3>1. CASE \E w \in Waiter : WaitForActiveTasks(w)
      BY <1>0, <2>1, <3>1 DEF TypeOK, WaitForActiveTasks, laneVars, entryVars
    <3>2. CASE \E w \in Waiter : WaiterTimeout(w)
      BY <1>0, <2>1, <3>2 DEF TypeOK, WaiterTimeout, laneVars, entryVars
    <3>3. CASE ChangeAdmission
      BY <1>0, <2>1, <3>3 DEF TypeOK, ChangeAdmission, laneVars, entryVars
    <3>4. CASE UNCHANGED vars
      BY <1>0, <3>4 DEF TypeOK, vars
    <3>. QED
      BY <1>9, <3>1, <3>2, <3>3, <3>4
  <2>. QED
    BY <2>1, <2>2 DEF IInv, laneVars
<1>. QED
  BY <1>1, <1>2, <1>3, <1>4, <1>5, <1>6, <1>7, <1>8, <1>9 DEF Next

\* The inductive invariant holds in every state of every behaviour.
THEOREM Invariance == Spec => []IInv
  BY InitIInv, NextIInv, PTL DEF Spec

-----------------------------------------------------------------------------
(* The order of a lane.                                                    *)

\* e goes before f: a higher priority, or the same and an earlier call.
Ahead(e, f, s) ==
  \/ PriorityOf[e] > PriorityOf[f]
  \/ PriorityOf[e] = PriorityOf[f] /\ s[e] < s[f]

\* NoOvertaking over the pieces, and the order of the queues it rests on.
OrderOK(q, s, p, r) ==
  /\ \A l \in Lane : \A i, j \in 1 .. Len(q[l]) :
       i < j => Ahead(q[l][i], q[l][j], s)
  /\ \A e, f \in Entry :
       (/\ LaneOf[e] = LaneOf[f]
        /\ p[e] = "pending" /\ r[e] = "none"
        /\ s[e] < s[f] /\ PriorityOf[e] >= PriorityOf[f])
       => r[f] = "none"

\* Numbers are drawn in the order of the calls.
OrderInv ==
  /\ OrderOK(queue, sequence, promise, race)
  /\ \A e \in Entry : sequence[e] < nextSequence

\* A call gets a larger number than any entry of the queue, so it goes behind
\* those of its priority and the queue stays in order.
LEMMA InsertKeepsOrder ==
  ASSUME NEW q \in Seq(Entry), NEW e \in Entry, NEW n \in Nat,
         sequence \in [Entry -> Nat],
         NEW s \in [Entry -> Nat],
         s[e] = n, \A f \in Entry : f # e => s[f] = sequence[f],
         \A i \in 1 .. Len(q) : q[i] # e /\ sequence[q[i]] < n,
         \A i, j \in 1 .. Len(q) : i < j => Ahead(q[i], q[j], sequence)
  PROVE  \A i, j \in 1 .. Len(Insert(q, e, n)) :
           i < j => Ahead(Insert(q, e, n)[i], Insert(q, e, n)[j], s)
<1> DEFINE r == Insert(q, e, n)
<1>0. Len(q) \in Nat /\ \A i \in 1 .. Len(q) : q[i] \in Entry
  OBVIOUS
<1>1. Len(r) = Len(q) + 1
  BY InsertShape
<1>2. PICK k \in 1 .. Len(q) + 1 : InsertedAt(r, q, e, n, k)
  BY InsertShape
<1>. HIDE DEF r
<1>a. /\ r[k] = e
      /\ \A i \in 1 .. k - 1 : r[i] = q[i]
      /\ \A i \in k + 1 .. Len(q) + 1 : r[i] = q[i - 1]
  BY <1>2 DEF InsertedAt
<1>b. /\ \A i \in 1 .. k - 1 : ~StaysBehind(q[i], PriorityOf[e], n)
      /\ k <= Len(q) => StaysBehind(q[k], PriorityOf[e], n)
  BY <1>2 DEF InsertedAt
<1>3. PriorityOf[e] \in Int /\ \A i \in 1 .. Len(q) : PriorityOf[q[i]] \in Int
  BY <1>0
<1>4. \A i \in 1 .. Len(q) :
        s[q[i]] = sequence[q[i]] /\ sequence[q[i]] \in Nat /\ s[q[i]] < n
  BY <1>0
<1>5. \A i \in 1 .. k - 1 : PriorityOf[q[i]] >= PriorityOf[e]
  <2>. SUFFICES ASSUME NEW i \in 1 .. k - 1
                PROVE  PriorityOf[q[i]] >= PriorityOf[e]
    OBVIOUS
  <2>1. i \in 1 .. Len(q)
    BY <1>0
  <2>2. ~(PriorityOf[q[i]] < PriorityOf[e])
    BY <1>b DEF StaysBehind
  <2>. QED
    BY <2>1, <2>2, <1>3
<1>6. \A j \in k .. Len(q) : PriorityOf[q[j]] < PriorityOf[e]
  <2>. SUFFICES ASSUME NEW j \in k .. Len(q)
                PROVE  PriorityOf[q[j]] < PriorityOf[e]
    OBVIOUS
  <2>1. k \in 1 .. Len(q) /\ j \in 1 .. Len(q) /\ j >= k
    BY <1>0
  <2>2. PriorityOf[q[k]] < PriorityOf[e]
    BY <2>1, <1>b, <1>3, <1>4 DEF StaysBehind
  <2>3. CASE j = k
    BY <2>2, <2>3
  <2>4. CASE j # k
    <3>1. Ahead(q[k], q[j], sequence)
      BY <2>1, <2>4
    <3>. QED
      BY <3>1, <2>1, <2>2, <1>3 DEF Ahead
  <2>. QED
    BY <2>3, <2>4
<1>7. SUFFICES ASSUME NEW i \in 1 .. Len(r), NEW j \in 1 .. Len(r), i < j
               PROVE  Ahead(r[i], r[j], s)
  BY DEF r
<1>c. /\ k \in Nat /\ 1 <= k /\ k <= Len(q) + 1
      /\ i \in Nat /\ 1 <= i /\ i <= Len(q) + 1
      /\ j \in Nat /\ 1 <= j /\ j <= Len(q) + 1
  BY <1>0, <1>1
<1>d. \A x, y, m \in Nat :
        /\ 1 <= x /\ x < y /\ y <= m + 1 => x \in 1 .. y - 1 /\ x \in 1 .. m
        /\ 1 <= y /\ y < x /\ x <= m + 1 =>
             x \in y + 1 .. m + 1 /\ x - 1 \in y .. m /\ x - 1 \in 1 .. m
  OBVIOUS
<1>8. CASE i < k /\ j < k
  <2>1. /\ i \in 1 .. k - 1 /\ j \in 1 .. k - 1
        /\ i \in 1 .. Len(q) /\ j \in 1 .. Len(q)
    BY <1>0, <1>c, <1>d, <1>8
  <2>2. r[i] = q[i] /\ r[j] = q[j]
    BY <2>1, <1>a
  <2>3. Ahead(q[i], q[j], sequence)
    BY <1>7, <2>1
  <2>. QED
    BY <2>1, <2>2, <2>3, <1>4 DEF Ahead
<1>9. CASE i < k /\ j = k
  <2>a. i \in 1 .. k - 1 /\ i \in 1 .. Len(q)
    BY <1>0, <1>c, <1>d, <1>9
  <2>1. i \in 1 .. k - 1 /\ i \in 1 .. Len(q) /\ r[i] = q[i] /\ r[j] = e
    BY <2>a, <1>a, <1>9
  <2>2. PriorityOf[q[i]] >= PriorityOf[e] /\ s[q[i]] < s[e]
    BY <2>1, <1>4, <1>5
  <2>. QED
    BY <2>1, <2>2, <1>3 DEF Ahead
<1>10. CASE i < k /\ j > k
  <2>a. /\ i \in 1 .. k - 1 /\ j \in k + 1 .. Len(q) + 1
        /\ i \in 1 .. Len(q) /\ j - 1 \in k .. Len(q) /\ j - 1 \in 1 .. Len(q)
    BY <1>0, <1>c, <1>d, <1>10
  <2>1. /\ r[i] = q[i] /\ r[j] = q[j - 1]
        /\ i \in 1 .. k - 1 /\ j - 1 \in k .. Len(q)
        /\ i \in 1 .. Len(q) /\ j - 1 \in 1 .. Len(q)
    BY <2>a, <1>a
  <2>2. /\ PriorityOf[q[i]] >= PriorityOf[e]
        /\ PriorityOf[q[j - 1]] < PriorityOf[e]
    BY <2>1, <1>5, <1>6
  <2>3. /\ PriorityOf[q[i]] \in Int /\ PriorityOf[q[j - 1]] \in Int
        /\ PriorityOf[e] \in Int
    BY <2>1, <1>3
  <2>4. PriorityOf[q[i]] > PriorityOf[q[j - 1]]
    <3>1. \A x, y, z \in Int : x >= y /\ z < y => x > z
      OBVIOUS
    <3>. QED
      BY <2>2, <2>3, <3>1
  <2>. QED
    BY <2>1, <2>4 DEF Ahead
<1>11. CASE i = k
  <2>1. r[i] = e /\ j > k
    BY <1>a, <1>7, <1>11
  <2>2. j \in k + 1 .. Len(q) + 1 /\ j - 1 \in k .. Len(q)
    BY <2>1, <1>0, <1>c, <1>d
  <2>3. r[j] = q[j - 1]
    BY <2>2, <1>a
  <2>. QED
    BY <2>1, <2>2, <2>3, <1>6 DEF Ahead
<1>12. CASE i > k
  <2>1. j > k
    BY <1>c, <1>7, <1>12
  <2>2. /\ i \in k + 1 .. Len(q) + 1 /\ i - 1 \in 1 .. Len(q)
        /\ j \in k + 1 .. Len(q) + 1 /\ j - 1 \in 1 .. Len(q)
    BY <2>1, <1>0, <1>c, <1>d, <1>12
  <2>3. r[i] = q[i - 1] /\ r[j] = q[j - 1]
    BY <2>2, <1>a
  <2>4. i - 1 < j - 1
    BY <1>c, <1>7
  <2>5. Ahead(q[i - 1], q[j - 1], sequence)
    BY <2>2, <2>4
  <2>. QED
    BY <2>2, <2>3, <2>5, <1>4 DEF Ahead
<1>. QED
  BY <1>c, <1>8, <1>9, <1>10, <1>11, <1>12

\* The pump starts a prefix of an ordered queue, so whatever it starts was
\* ahead of whatever it leaves.
LEMMA DrainKeepsOrder ==
  ASSUME race \in [Entry -> Races],
         NEW S \in SUBSET Lane,
         NEW q \in [Lane -> Seq(Entry)],
         NEW a \in [Lane -> SUBSET Entry],
         NEW m \in [Lane -> 0 .. MaxConcurrency],
         NEW g, NEW p,
         NEW s \in [Entry -> Nat],
         QueueOK(q, p, race),
         OrderOK(q, s, p, race),
         Drain(S, q, a, m, g)
  PROVE  OrderOK(queue', s, p, race')
<1> DEFINE n(l) == IF l \in S THEN Startable(q[l], a[l], m[l]) ELSE 0
           D(l) == IF l \in S THEN Dispatched(q[l], a[l], m[l]) ELSE {}
<1>1. ASSUME NEW l \in Lane
      PROVE  /\ q[l] \in Seq(Entry) /\ Len(q[l]) \in Nat
             /\ n(l) \in 0 .. Len(q[l])
             /\ D(l) = {q[l][i] : i \in 1 .. n(l)}
             /\ Len(queue'[l]) = Len(q[l]) - n(l)
             /\ \A i \in 1 .. Len(q[l]) - n(l) : queue'[l][i] = q[l][i + n(l)]
  <2>1. /\ q[l] \in Seq(Entry) /\ Len(q[l]) \in Nat
        /\ a[l] \in SUBSET Entry /\ m[l] \in Nat
    OBVIOUS
  <2>2. queue'[l] = IF l \in S THEN Waiting(q[l], a[l], m[l]) ELSE q[l]
    BY DEF Drain
  <2>3. CASE l \in S
    <3>1. /\ Startable(q[l], a[l], m[l]) \in 0 .. Len(q[l])
          /\ Len(Waiting(q[l], a[l], m[l]))
               = Len(q[l]) - Startable(q[l], a[l], m[l])
          /\ \A i \in 1 .. Len(q[l]) - Startable(q[l], a[l], m[l]) :
               Waiting(q[l], a[l], m[l])[i] = q[l][i + Startable(q[l], a[l], m[l])]
      BY <2>1, StartableBounds, WaitingProperties
    <3>2. n(l) = Startable(q[l], a[l], m[l])
      BY <2>3
    <3>3. D(l) = {q[l][i] : i \in 1 .. n(l)}
      BY <2>3 DEF Dispatched
    <3>4. queue'[l] = Waiting(q[l], a[l], m[l])
      BY <2>2, <2>3
    <3>. HIDE DEF n, D
    <3>. QED
      BY <2>1, <3>1, <3>2, <3>3, <3>4
  <2>4. CASE l \notin S
    <3>1. n(l) = 0 /\ D(l) = {} /\ queue'[l] = q[l]
      BY <2>2, <2>4
    <3>. HIDE DEF n, D
    <3>. QED
      BY <2>1, <3>1
  <2>. QED
    BY <2>3, <2>4
<1>2. \A e \in Entry : race'[e] = IF e \in D(LaneOf[e]) THEN "open" ELSE race[e]
  BY DEF Drain
<1>. HIDE DEF n, D
<1>3. ASSUME NEW l \in Lane, NEW i \in 1 .. Len(queue'[l]),
             NEW j \in 1 .. Len(queue'[l]), i < j
      PROVE  Ahead(queue'[l][i], queue'[l][j], s)
  <2>1. /\ i + n(l) \in 1 .. Len(q[l]) /\ j + n(l) \in 1 .. Len(q[l])
        /\ i + n(l) < j + n(l)
        /\ queue'[l][i] = q[l][i + n(l)] /\ queue'[l][j] = q[l][j + n(l)]
    <3>1. /\ Len(q[l]) \in Nat /\ n(l) \in 0 .. Len(q[l])
          /\ Len(queue'[l]) = Len(q[l]) - n(l)
      BY <1>1
    <3>2. i \in 1 .. Len(q[l]) - n(l) /\ j \in 1 .. Len(q[l]) - n(l)
      BY <3>1
    <3>3. queue'[l][i] = q[l][i + n(l)] /\ queue'[l][j] = q[l][j + n(l)]
      BY <3>2, <1>1
    <3>4. PICK d \in Nat : d = n(l)
      BY <3>1
    <3>5. PICK len \in Nat : len = Len(q[l])
      BY <3>1
    <3>6. /\ i \in 1 .. len - d /\ j \in 1 .. len - d /\ i < j
      BY <3>2, <3>4, <3>5, <1>3
    <3>7. /\ i + d \in 1 .. len /\ j + d \in 1 .. len
          /\ i + d < j + d
      BY <3>6
    <3>. QED
      BY <3>3, <3>4, <3>5, <3>7
  <2>. QED
    BY <2>1 DEF OrderOK
<1>4. ASSUME NEW e \in Entry, NEW f \in Entry, LaneOf[e] = LaneOf[f],
             p[e] = "pending", race'[e] = "none",
             s[e] < s[f], PriorityOf[e] >= PriorityOf[f]
      PROVE  race'[f] = "none"
  <2>1. PICK l \in Lane : l = LaneOf[e] /\ l = LaneOf[f]
    BY <1>4
  <2>2. race[e] = "none" /\ e \notin D(l)
    BY <1>2, <1>4, <2>1
  <2>3. race[f] = "none"
    BY <1>4, <2>2 DEF OrderOK
  <2>4. f \notin D(l)
    <3>. SUFFICES ASSUME f \in D(l) PROVE FALSE
      OBVIOUS
    <3>1. PICK i \in 1 .. n(l) : f = q[l][i]
      BY <1>1
    <3>2. PICK j \in 1 .. Len(q[l]) : q[l][j] = e
      <4>1. p[e] = "pending" /\ race[e] = "none"
        BY <1>4, <2>2
      <4>2. \E j \in 1 .. Len(q[LaneOf[e]]) : q[LaneOf[e]][j] = e
        BY <4>1 DEF QueueOK
      <4>. QED
        BY <4>2, <2>1
    <3>3. ~(j \in 1 .. n(l))
      BY <1>1, <2>2, <3>2
    <3>4. i \in 1 .. Len(q[l]) /\ i < j
      <4>1. Len(q[l]) \in Nat /\ n(l) \in 0 .. Len(q[l])
        BY <1>1
      <4>. QED
        BY <4>1, <3>3
    <3>5. Ahead(f, e, s)
      BY <3>1, <3>2, <3>4 DEF OrderOK
    <3>6. /\ PriorityOf[e] \in Int /\ PriorityOf[f] \in Int
          /\ s[e] \in Nat /\ s[f] \in Nat
      OBVIOUS
    <3>7. s[e] < s[f] /\ PriorityOf[e] >= PriorityOf[f]
      BY <1>4
    <3>8. \A x, y \in Int : x >= y => ~(y > x)
      OBVIOUS
    <3>9. PriorityOf[f] = PriorityOf[e] /\ s[f] < s[e]
      BY <3>5, <3>6, <3>7, <3>8 DEF Ahead
    <3>. QED
      BY <3>6, <3>7, <3>9
  <2>. QED
    BY <1>2, <2>1, <2>3, <2>4
<1>. QED
  BY <1>3, <1>4 DEF OrderOK

\* The pump adds to the active tasks it is handed, and within the limit.
LEMMA DrainAdmits ==
  ASSUME IInv,
         NEW S \in SUBSET Lane,
         NEW q \in [Lane -> Seq(Entry)],
         NEW a \in [Lane -> SUBSET Entry],
         NEW m \in [Lane -> 0 .. MaxConcurrency],
         NEW g, NEW p,
         \A l \in Lane : a[l] \subseteq active[l],
         QueueOK(q, p, race),
         Drain(S, q, a, m, g)
  PROVE  \A l \in Lane : \/ active'[l] \subseteq active[l]
                         \/ Cardinality(active'[l]) <= m[l]
<1>. SUFFICES ASSUME NEW l \in Lane
              PROVE  \/ active'[l] \subseteq active[l]
                     \/ Cardinality(active'[l]) <= m[l]
  OBVIOUS
<1> DEFINE D == Dispatched(q[l], a[l], m[l])
<1>1. /\ q[l] \in Seq(Entry) /\ a[l] \in SUBSET Entry /\ m[l] \in Nat
      /\ a[l] \subseteq active[l]
  OBVIOUS
<1>2. active'[l] = a[l] \union (IF l \in S THEN D ELSE {})
  BY DEF Drain
<1>3. /\ \A i, j \in 1 .. Len(q[l]) : q[l][i] = q[l][j] => i = j
      /\ \A i \in 1 .. Len(q[l]) : q[l][i] \notin a[l]
  <2>1. \A i \in 1 .. Len(q[l]) : q[l][i] \in Entry /\ race[q[l][i]] = "none"
    BY <1>1 DEF QueueOK
  <2>2. \A e \in Entry : e \in active[l] => race[e] # "none"
    BY DEF IInv, SlotsOK
  <2>3. \A i, j \in 1 .. Len(q[l]) : q[l][i] = q[l][j] => i = j
    BY DEF QueueOK
  <2>. QED
    BY <1>1, <2>1, <2>2, <2>3
<1>4. D # {} => Cardinality(a[l] \union D) <= m[l]
  BY <1>1, <1>3, PumpSplits
<1>. HIDE DEF D
<1>5. CASE l \in S /\ D # {}
  BY <1>2, <1>4, <1>5
<1>6. CASE ~(l \in S /\ D # {})
  <2>1. active'[l] = a[l]
    BY <1>2, <1>6
  <2>. QED
    BY <1>1, <2>1
<1>. QED
  BY <1>5, <1>6

\* A handler that ends in a pump hands it queues in order, of entries nobody
\* has dispatched, and at most the tasks that were active.
Pumps ==
  \E S \in SUBSET Lane, q \in [Lane -> Seq(Entry)],
     a \in [Lane -> SUBSET Entry] :
    /\ \A l \in Lane : a[l] \subseteq active[l]
    /\ QueueOK(q, promise', race)
    /\ OrderOK(q, sequence', promise', race)
    /\ Drain(S, q, a, maxConcurrent', generation')

\* Every other handler starts nothing and keeps the order.
Rests ==
  /\ active' = active
  /\ OrderOK(queue', sequence', promise', race')

\* The pump starts waiting entries in the generation of their lane, and
\* within the limit.
LEMMA PumpStarts ==
  ASSUME IInv, IInv', Pumps
  PROVE  /\ \A e \in Entry :
              \/ race'[e] = race[e] /\ taskGeneration'[e] = taskGeneration[e]
              \/ /\ race[e] = "none" /\ race'[e] = "open"
                 /\ taskGeneration'[e] = generation'[LaneOf[e]]
         /\ \A l \in Lane : \/ active'[l] \subseteq active[l]
                            \/ Cardinality(active'[l]) <= maxConcurrent'[l]
<1>1. PICK S \in SUBSET Lane, q \in [Lane -> Seq(Entry)],
           a \in [Lane -> SUBSET Entry] :
        /\ \A l \in Lane : a[l] \subseteq active[l]
        /\ QueueOK(q, promise', race)
        /\ Drain(S, q, a, maxConcurrent', generation')
  BY DEF Pumps
<1>2. maxConcurrent' \in [Lane -> 0 .. MaxConcurrency]
  BY DEF IInv, TypeOK
<1>3. ASSUME NEW e \in Entry
      PROVE  \/ race'[e] = race[e] /\ taskGeneration'[e] = taskGeneration[e]
             \/ /\ race[e] = "none" /\ race'[e] = "open"
                /\ taskGeneration'[e] = generation'[LaneOf[e]]
  <2>1. PICK l \in Lane : l = LaneOf[e]
    OBVIOUS
  <2> DEFINE D == Dispatched(q[l], a[l], maxConcurrent'[l])
  <2>2. /\ race'[e] = IF e \in IF l \in S THEN D ELSE {} THEN "open" ELSE race[e]
        /\ taskGeneration'[e] = IF e \in IF l \in S THEN D ELSE {}
                                THEN generation'[l] ELSE taskGeneration[e]
    BY <1>1, <2>1 DEF Drain
  <2>3. e \in D => race[e] = "none"
    <3>1. \A i \in 1 .. Startable(q[l], a[l], maxConcurrent'[l]) :
            race[q[l][i]] = "none"
      <4>1. q[l] \in Seq(Entry) /\ a[l] \in SUBSET Entry /\ maxConcurrent'[l] \in Nat
        BY <1>2
      <4>2. Startable(q[l], a[l], maxConcurrent'[l]) \in 0 .. Len(q[l])
        BY <4>1, StartableBounds
      <4>3. Len(q[l]) \in Nat
        BY <4>1
      <4>4. \A i \in 1 .. Len(q[l]) : race[q[l][i]] = "none"
        BY <1>1 DEF QueueOK
      <4>. HIDE DEF D
      <4>. QED
        BY <4>2, <4>3, <4>4
    <3>. QED
      BY <3>1 DEF Dispatched
  <2>. HIDE DEF D
  <2>. QED
    BY <2>1, <2>2, <2>3
<1>4. \A l \in Lane : \/ active'[l] \subseteq active[l]
                     \/ Cardinality(active'[l]) <= maxConcurrent'[l]
  BY <1>1, <1>2, DrainAdmits
<1>. QED
  BY <1>3, <1>4

\* A settled or decided entry is no longer one that could be overtaken.
LEMMA OrderWeakens ==
  ASSUME NEW p, NEW r,
         OrderInv,
         \A e \in Entry : /\ p[e] = "pending" => promise[e] = "pending"
                          /\ r[e] = "none" <=> race[e] = "none"
  PROVE  OrderOK(queue, sequence, p, r)
  BY DEF OrderInv, OrderOK

\* An enqueue hands the pump a lane in order.
LEMMA EnqueuePumps ==
  ASSUME IInv, OrderInv, NEW e \in Entry, Enqueue(e)
  PROVE  Pumps /\ \A f \in Entry : sequence'[f] < nextSequence'
<1> DEFINE q == QueuesWith(e)
<1>1. TypeOK
  BY DEF IInv
<1>2. PICK l \in Lane : l = LaneOf[e]
  OBVIOUS
<1>3. /\ sequence' = [sequence EXCEPT ![e] = nextSequence]
      /\ nextSequence' = nextSequence + 1
      /\ Drain({l}, q, active, maxConcurrent, generation)
      /\ maxConcurrent' = maxConcurrent
      /\ generation' = generation
  BY <1>2 DEF Enqueue, QueuesWith, laneVars
<1>4. /\ q \in [Lane -> Seq(Entry)]
      /\ \A k \in Lane : k # l => q[k] = queue[k]
      /\ \A f \in Entry : f # e => promise'[f] = promise[f]
      /\ promise[e] = "none" /\ race[e] = "none"
      /\ QueueOK(q, promise', race)
  BY <1>2, EnqueueAdds
<1>5. q[l] = Insert(queue[l], e, nextSequence)
  BY <1>1, <1>2 DEF QueuesWith, TypeOK
<1>. HIDE DEF q
<1>6. /\ sequence \in [Entry -> Nat] /\ nextSequence \in Nat
      /\ sequence' \in [Entry -> Nat]
      /\ sequence'[e] = nextSequence
      /\ \A f \in Entry : f # e => sequence'[f] = sequence[f]
      /\ \A f \in Entry : sequence[f] < nextSequence
  BY <1>1, <1>3 DEF TypeOK, OrderInv
<1>7. \A k \in Lane : \A i \in 1 .. Len(queue[k]) :
        queue[k][i] \in Entry /\ queue[k][i] # e
  <2>1. \A k \in Lane : queue[k] \in Seq(Entry)
    BY <1>1 DEF TypeOK
  <2>2. \A k \in Lane : \A i \in 1 .. Len(queue[k]) : queue[k][i] \in Entry
    BY <2>1
  <2>3. \A k \in Lane : \A i \in 1 .. Len(queue[k]) :
          promise[queue[k][i]] = "pending"
    BY DEF IInv, QueueOK
  <2>. QED
    BY <2>2, <2>3, <1>4
<1>8. ASSUME NEW k \in Lane
      PROVE  \A i, j \in 1 .. Len(q[k]) : i < j => Ahead(q[k][i], q[k][j], sequence')
  <2>1. \A i, j \in 1 .. Len(queue[k]) :
          i < j => Ahead(queue[k][i], queue[k][j], sequence)
    BY DEF OrderInv, OrderOK
  <2>2. CASE k = l
    <3>1. queue[l] \in Seq(Entry)
      BY <1>1 DEF TypeOK
    <3>2. \A i \in 1 .. Len(queue[l]) :
            queue[l][i] # e /\ sequence[queue[l][i]] < nextSequence
      BY <1>6, <1>7
    <3>. QED
      BY <2>1, <2>2, <3>1, <3>2, <1>5, <1>6, InsertKeepsOrder
  <2>3. CASE k # l
    <3>1. q[k] = queue[k]
      BY <1>4, <2>3
    <3>2. \A i \in 1 .. Len(queue[k]) :
            sequence'[queue[k][i]] = sequence[queue[k][i]]
      BY <1>6, <1>7
    <3>. QED
      BY <2>1, <3>1, <3>2 DEF Ahead
  <2>. QED
    BY <2>2, <2>3
<1>9. ASSUME NEW f \in Entry, NEW h \in Entry, LaneOf[f] = LaneOf[h],
             promise'[f] = "pending", race[f] = "none",
             sequence'[f] < sequence'[h], PriorityOf[f] >= PriorityOf[h]
      PROVE  race[h] = "none"
  <2>1. CASE h = e
    BY <2>1, <1>4
  <2>2. CASE f = e /\ h # e
    <3>1. /\ sequence'[f] = nextSequence /\ sequence'[h] = sequence[h]
          /\ sequence[h] < nextSequence /\ sequence[h] \in Nat
      BY <2>2, <1>6
    <3>2. sequence'[f] < sequence'[h]
      BY <1>9
    <3>. QED
      BY <3>1, <3>2, <1>6
  <2>3. CASE f # e /\ h # e
    BY <2>3, <1>4, <1>6, <1>9 DEF OrderInv, OrderOK
  <2>. QED
    BY <2>1, <2>2, <2>3
<1>10. OrderOK(q, sequence', promise', race)
  BY <1>8, <1>9 DEF OrderOK
<1>11. Pumps
  <2>1. /\ {l} \in SUBSET Lane
        /\ active \in [Lane -> SUBSET Entry]
        /\ \A k \in Lane : active[k] \subseteq active[k]
        /\ Drain({l}, q, active, maxConcurrent', generation')
    BY <1>1, <1>3 DEF TypeOK
  <2>. QED
    BY <2>1, <1>4, <1>10 DEF Pumps
<1>12. \A f \in Entry : sequence'[f] < nextSequence'
  <2>1. \A f \in Entry : sequence'[f] \in Nat /\ sequence'[f] <= nextSequence
    BY <1>6
  <2>. QED
    BY <2>1, <1>3, <1>6
<1>. QED
  BY <1>11, <1>12

\* A completion or a reset hands over the queues as they are.
LEMMA QueuesPumped ==
  ASSUME IInv, OrderInv,
         NEW S \in SUBSET Lane, NEW a \in [Lane -> SUBSET Entry],
         \A l \in Lane : a[l] \subseteq active[l],
         \A e \in Entry : \/ promise'[e] = promise[e]
                          \/ race[e] # "none" /\ race[e] # "open" /\ promise'[e] = "settled",
         sequence' = sequence,
         Drain(S, queue, a, maxConcurrent', generation')
  PROVE  Pumps
<1>1. queue \in [Lane -> Seq(Entry)]
  BY DEF IInv, TypeOK
<1>2. \A l \in Lane : \A i \in 1 .. Len(queue[l]) : queue[l][i] \in Entry
  BY <1>1
<1>4. \A e \in Entry :
        /\ promise'[e] = "pending" => promise[e] = "pending"
        /\ promise'[e] = "none" => promise[e] = "none"
        /\ race[e] \in {"none", "open"} => promise'[e] = promise[e]
  OBVIOUS
<1>3. QueueOK(queue, promise', race)
  <2>1. \A l \in Lane : \A i \in 1 .. Len(queue[l]) :
          /\ LaneOf[queue[l][i]] = l
          /\ promise'[queue[l][i]] = "pending"
          /\ race[queue[l][i]] = "none"
          /\ \A j \in 1 .. Len(queue[l]) : queue[l][i] = queue[l][j] => i = j
    BY <1>2, <1>4 DEF IInv, QueueOK
  <2>2. \A e \in Entry : promise'[e] = "pending" /\ race[e] = "none" =>
          \E i \in 1 .. Len(queue[LaneOf[e]]) : queue[LaneOf[e]][i] = e
    BY <1>4 DEF IInv, QueueOK
  <2>3. \A e \in Entry : /\ promise'[e] = "none" => race[e] = "none"
                         /\ race[e] = "open" => promise'[e] = "pending"
    BY <1>4 DEF IInv, QueueOK
  <2>. QED
    BY <2>1, <2>2, <2>3 DEF QueueOK
<1>5. OrderOK(queue, sequence', promise', race)
  BY <1>4, OrderWeakens
<1>. QED
  BY <1>1, <1>3, <1>5 DEF Pumps

\* A completion of the lane's generation hands over the slot it frees.
LEMMA CompletePumps ==
  ASSUME IInv, OrderInv, NEW e \in Entry, Complete(e),
         taskGeneration[e] = generation[LaneOf[e]]
  PROVE  Pumps /\ Notify
<1> DEFINE a == [active EXCEPT ![LaneOf[e]] = @ \ {e}]
<1>1. TypeOK
  BY DEF IInv
<1>2. /\ race[e] # "none" /\ race[e] # "open"
      /\ promise' = [promise EXCEPT ![e] = "settled"]
      /\ UNCHANGED <<laneVars, entryVars>>
  BY DEF Complete
<1>3. \A f \in Entry :
        \/ promise'[f] = promise[f]
        \/ race[f] # "none" /\ race[f] # "open" /\ promise'[f] = "settled"
  BY <1>1, <1>2 DEF TypeOK
<1>4. Drain({LaneOf[e]}, queue, a, maxConcurrent', generation') /\ Notify
  BY <1>2 DEF Complete, laneVars
<1>5. /\ a \in [Lane -> SUBSET Entry]
      /\ \A k \in Lane : a[k] \subseteq active[k]
  BY <1>1 DEF TypeOK
<1>6. {LaneOf[e]} \in SUBSET Lane /\ sequence' = sequence
  BY <1>2 DEF entryVars
<1>. HIDE DEF a
<1>. QED
  BY <1>3, <1>4, <1>5, <1>6, QueuesPumped

\* A new limit hands over the slots as they are.
LEMMA SetConcurrencyPumps ==
  ASSUME IInv, OrderInv, NEW l \in Lane, NEW n \in -1 .. MaxConcurrency,
         SetCommandLaneConcurrency(l, n)
  PROVE  Pumps
<1>1. PICK S \in SUBSET Lane :
        Drain(S, queue, active, maxConcurrent', generation')
  <2>1. \E k \in Int : Drain(IF k > 0 THEN {l} ELSE {}, queue, active,
                             maxConcurrent', generation')
    BY DEF SetCommandLaneConcurrency
  <2>. QED
    BY <2>1
<1>2. /\ promise' = promise /\ sequence' = sequence
      /\ active \in [Lane -> SUBSET Entry]
  BY DEF IInv, SetCommandLaneConcurrency, entryVars, TypeOK
<1>. QED
  BY <1>1, <1>2, QueuesPumped

\* A reset hands over the empty slots of its lane.
LEMMA ResetPumps ==
  ASSUME IInv, OrderInv, NEW l \in Lane, ResetCommandLane(l)
  PROVE  Pumps
<1> DEFINE a == [active EXCEPT ![l] = {}]
<1>1. /\ Drain({l}, queue, a, maxConcurrent', generation')
      /\ sequence' = sequence /\ promise' = promise
  BY DEF ResetCommandLane, entryVars
<1>2. /\ a \in [Lane -> SUBSET Entry]
      /\ \A k \in Lane : a[k] \subseteq active[k]
      /\ {l} \in SUBSET Lane
  BY DEF IInv, TypeOK
<1>. HIDE DEF a
<1>. QED
  BY <1>1, <1>2, QueuesPumped

\* A restart hands over empty slots in every lane.
LEMMA ResetAllPumps ==
  ASSUME IInv, OrderInv, ResetAllLanes
  PROVE  Pumps
<1> DEFINE a == [l \in Lane |-> {}]
<1>1. /\ Drain(Lane, queue, a, maxConcurrent', generation')
      /\ sequence' = sequence /\ promise' = promise
  BY DEF ResetAllLanes, entryVars
<1>2. /\ a \in [Lane -> SUBSET Entry]
      /\ \A k \in Lane : a[k] \subseteq active[k]
      /\ Lane \in SUBSET Lane
  OBVIOUS
<1>. HIDE DEF a
<1>. QED
  BY <1>1, <1>2, QueuesPumped

\* What one step may do to the queues and the slots.
LEMMA NextPumps ==
  ASSUME IInv, OrderInv, [Next]_vars
  PROVE  /\ Pumps \/ Rests
         /\ \A e \in Entry : sequence'[e] < nextSequence'
<1>0. TypeOK /\ \A e \in Entry : sequence[e] < nextSequence
  BY DEF IInv, OrderInv
<1>1. CASE \E e \in Entry : Enqueue(e)
  BY <1>1, EnqueuePumps
<1>2. CASE \E e \in Entry : RefuseEnqueue(e)
  <2>1. UNCHANGED <<queue, active, entryVars, race>>
    BY <1>2 DEF RefuseEnqueue
  <2>2. \A e \in Entry : promise'[e] = "pending" => promise[e] = "pending"
    BY <1>0, <1>2 DEF RefuseEnqueue, TypeOK
  <2>3. OrderOK(queue, sequence, promise', race)
    BY <2>2, OrderWeakens
  <2>. QED
    BY <1>0, <2>1, <2>3 DEF Rests, entryVars
<1>3. CASE \E e \in Entry : BodyEnds(e) \/ Timeout(e)
  <2>1. UNCHANGED <<queue, active, entryVars, promise>>
    BY <1>3 DEF BodyEnds, Timeout
  <2>2. \A e \in Entry : race'[e] = "none" <=> race[e] = "none"
    BY <1>0, <1>3 DEF BodyEnds, Timeout, TypeOK
  <2>3. OrderOK(queue, sequence, promise, race')
    BY <2>2, OrderWeakens
  <2>. QED
    BY <1>0, <2>1, <2>3 DEF Rests, entryVars
<1>4. ASSUME NEW e \in Entry, Complete(e)
      PROVE  Pumps \/ Rests
  <2>1. CASE taskGeneration[e] = generation[LaneOf[e]]
    BY <1>4, <2>1, CompletePumps
  <2>2. CASE taskGeneration[e] # generation[LaneOf[e]]
    <3>1. /\ UNCHANGED <<queue, active, race, sequence>>
          /\ promise' = [promise EXCEPT ![e] = "settled"]
      BY <1>4, <2>2 DEF Complete, entryVars
    <3>2. \A f \in Entry : promise'[f] = "pending" => promise[f] = "pending"
      BY <1>0, <3>1 DEF TypeOK
    <3>3. OrderOK(queue, sequence, promise', race)
      BY <3>2, OrderWeakens
    <3>. QED
      BY <3>1, <3>3 DEF Rests
  <2>. QED
    BY <2>1, <2>2
<1>5. ASSUME NEW l \in Lane, NEW n \in -1 .. MaxConcurrency,
             SetCommandLaneConcurrency(l, n)
      PROVE  Pumps
  BY <1>5, SetConcurrencyPumps
<1>6. ASSUME NEW l \in Lane, ClearCommandLane(l)
      PROVE  Rests
  <2>1. /\ queue' = [queue EXCEPT ![l] = <<>>]
        /\ promise' = [e \in Entry |->
             IF e \in Range(queue[l]) THEN "cleared" ELSE promise[e]]
        /\ UNCHANGED <<active, sequence, race>>
    BY <1>6 DEF ClearCommandLane, entryVars
  <2>2. \A e \in Entry : promise'[e] = "pending" => promise[e] = "pending"
    BY <2>1
  <2>3. OrderOK(queue, sequence, promise', race)
    BY <2>2, OrderWeakens
  <2>4. \A k \in Lane : queue'[k] = queue[k] \/ queue'[k] = <<>>
    BY <1>0, <2>1 DEF TypeOK
  <2>5. \A k \in Lane : \A i, j \in 1 .. Len(queue'[k]) :
          i < j => Ahead(queue'[k][i], queue'[k][j], sequence)
    BY <2>3, <2>4 DEF OrderOK
  <2>6. OrderOK(queue', sequence, promise', race)
    BY <2>3, <2>5 DEF OrderOK
  <2>. QED
    BY <2>1, <2>6 DEF Rests
<1>7. ASSUME NEW l \in Lane, ResetCommandLane(l)
      PROVE  Pumps
  BY <1>7, ResetPumps
<1>8. ASSUME ResetAllLanes
      PROVE  Pumps
  BY <1>8, ResetAllPumps
<1>9. CASE \/ \E w \in Waiter : WaitForActiveTasks(w) \/ WaiterTimeout(w)
           \/ ChangeAdmission
           \/ UNCHANGED vars
  <2>1. UNCHANGED <<queue, active, entryVars, race, promise>>
    BY <1>9 DEF WaitForActiveTasks, WaiterTimeout, ChangeAdmission, vars, entryVars
  <2>. QED
    BY <1>0, <2>1 DEF OrderInv, Rests, entryVars
<1>10. ASSUME ~(\E e \in Entry : Enqueue(e))
       PROVE  UNCHANGED entryVars
  BY <1>10 DEF Next, RefuseEnqueue, BodyEnds, Timeout, Complete,
               SetCommandLaneConcurrency, ClearCommandLane, ResetCommandLane,
               ResetAllLanes, WaitForActiveTasks, WaiterTimeout,
               ChangeAdmission, vars, entryVars
<1>11. ASSUME ~(\E e \in Entry : Enqueue(e))
       PROVE  \A e \in Entry : sequence'[e] < nextSequence'
  BY <1>0, <1>10, <1>11 DEF entryVars
<1>. QED
  BY <1>1, <1>2, <1>3, <1>4, <1>5, <1>6, <1>7, <1>8, <1>9, <1>11 DEF Next

\* Every step keeps the queues in order.
LEMMA NextOrderInv == IInv /\ OrderInv /\ [Next]_vars => OrderInv'
<1>. SUFFICES ASSUME IInv, OrderInv, [Next]_vars PROVE OrderInv'
  OBVIOUS
<1>1. IInv'
  BY NextIInv
<1>2. \A e \in Entry : sequence'[e] < nextSequence'
  BY NextPumps
<1>3. CASE Pumps
  <2>1. PICK S \in SUBSET Lane, q \in [Lane -> Seq(Entry)],
             a \in [Lane -> SUBSET Entry] :
          /\ QueueOK(q, promise', race)
          /\ OrderOK(q, sequence', promise', race)
          /\ Drain(S, q, a, maxConcurrent', generation')
    BY <1>3 DEF Pumps
  <2>2. /\ race \in [Entry -> Races]
        /\ maxConcurrent' \in [Lane -> 0 .. MaxConcurrency]
        /\ sequence' \in [Entry -> Nat]
    BY <1>1 DEF IInv, TypeOK, Races
  <2>3. OrderOK(queue', sequence', promise', race')
    BY <2>1, <2>2, DrainKeepsOrder
  <2>. QED
    BY <1>2, <2>3 DEF OrderInv
<1>4. CASE Rests
  BY <1>2, <1>4 DEF Rests, OrderInv
<1>. QED
  BY <1>3, <1>4, NextPumps

-----------------------------------------------------------------------------
(* What the callers of the queue rely on.                                  *)

\* The lane state always has its type: in particular a limit is never
\* negative, whatever number the configuration holds.
THEOREM TypeCorrect == Spec => []TypeOK
<1>1. IInv => TypeOK
  BY DEF IInv
<1>. QED
  BY <1>1, Invariance, PTL

\* The slots of a lane are held by exactly the dispatched, unsettled tasks of
\* its current generation, for any number of tasks, timeouts and resets.
THEOREM SlotsAreAccounted == Spec => []SlotAccounting
<1>1. IInv => SlotAccounting
  <2>. SUFFICES ASSUME IInv, NEW l \in Lane
                PROVE  active[l] = {e \in Entry : LaneOf[e] = l /\ Running(e)
                                       /\ taskGeneration[e] = generation[l]}
    BY DEF SlotAccounting
  <2>1. active[l] \in SUBSET Entry
    BY DEF IInv, TypeOK
  <2>2. \A e \in Entry :
          e \in active[l] <=> /\ LaneOf[e] = l
                              /\ promise[e] = "pending" /\ race[e] # "none"
                              /\ taskGeneration[e] = generation[l]
    BY DEF IInv, SlotsOK
  <2>. QED
    BY <2>1, <2>2 DEF Running
<1>. QED
  BY <1>1, Invariance, PTL

\* No entry waits in a lane that has a free slot.
THEOREM QueueIsWorkConserving == Spec => []WorkConserving
<1>1. IInv => WorkConserving
  BY DEF IInv, WorkOK, WorkConserving
<1>. QED
  BY <1>1, Invariance, PTL

\* Every unsettled caller is held by one queue place or one dispatched task,
\* so no caller is forgotten and none is started twice.
THEOREM PromisesHaveOwners == Spec => []PromiseHasOwner
<1>1. IInv => PromiseHasOwner
  <2>. SUFFICES ASSUME IInv, NEW e \in Entry
                PROVE  LET places == {i \in 1 .. Len(queue[LaneOf[e]]) :
                                        queue[LaneOf[e]][i] = e}
                       IN  IF promise[e] = "pending" /\ race[e] = "none"
                           THEN \E i \in places : places = {i}
                           ELSE places = {}
    BY DEF PromiseHasOwner
  <2>1. PICK l \in Lane : l = LaneOf[e]
    OBVIOUS
  <2>2. \A i \in 1 .. Len(queue[l]) :
          /\ promise[queue[l][i]] = "pending" /\ race[queue[l][i]] = "none"
          /\ \A j \in 1 .. Len(queue[l]) : queue[l][i] = queue[l][j] => i = j
    BY DEF IInv, QueueOK
  <2> DEFINE places == {i \in 1 .. Len(queue[l]) : queue[l][i] = e}
  <2>3. CASE promise[e] = "pending" /\ race[e] = "none"
    <3>1. PICK i \in 1 .. Len(queue[l]) : queue[l][i] = e
      BY <2>1, <2>3 DEF IInv, QueueOK
    <3>2. places = {i}
      BY <3>1, <2>2
    <3>. QED
      BY <2>1, <2>3, <3>1, <3>2
  <2>4. CASE ~(promise[e] = "pending" /\ race[e] = "none")
    <3>1. places = {}
      BY <2>2, <2>4
    <3>. QED
      BY <2>1, <2>4, <3>1
  <2>. QED
    BY <2>3, <2>4
<1>. QED
  BY <1>1, Invariance, PTL

\* A session lane never runs two tasks it still owns: the one that holds its
\* slot is the only one that neither timed out nor lost its lane to a reset.
THEOREM SessionRunsAreSerial == Spec => []OneOwnedRunPerSession
<1>1. IInv => OneOwnedRunPerSession
  <2>. SUFFICES ASSUME IInv, NEW l \in SessionLane,
                       NEW e \in Entry, NEW f \in Entry,
                       LaneOf[e] = l, LaneOf[f] = l,
                       race[e] = "open", race[f] = "open",
                       taskGeneration[e] = generation[l],
                       taskGeneration[f] = generation[l]
                PROVE  e = f
    BY DEF OneOwnedRunPerSession
  <2>1. e \in active[l] /\ f \in active[l]
    <3>1. promise[e] = "pending" /\ promise[f] = "pending"
      BY DEF IInv, QueueOK
    <3>. QED
      BY <3>1 DEF IInv, SlotsOK
  <2>2. active[l] \in SUBSET Entry /\ Cardinality(active[l]) <= 1
    BY DEF IInv, TypeOK, SessionOK
  <2>3. IsFiniteSet(active[l]) /\ Cardinality(active[l]) \in Nat
    BY <2>2, EntrySets
  <2>4. /\ IsFiniteSet(active[l] \ {e})
        /\ Cardinality(active[l] \ {e}) \in Nat
        /\ Cardinality(active[l] \ {e}) = Cardinality(active[l]) - 1
    BY <2>1, <2>2, <2>3, EntrySets, FS_RemoveElement
  <2>5. active[l] \ {e} = {}
    <3>1. Cardinality(active[l] \ {e}) = 0
      BY <2>2, <2>3, <2>4
    <3>. QED
      BY <2>4, <3>1, FS_EmptySet
  <2>. QED
    BY <2>1, <2>5
<1>. QED
  BY <1>1, Invariance, PTL

\* The pump frees no slot.
LEMMA DrainAdds ==
  ASSUME NEW S \in SUBSET Lane,
         NEW q, NEW a \in [Lane -> SUBSET Entry], NEW m, NEW g,
         Drain(S, q, a, m, g)
  PROVE  \A l \in Lane : a[l] \subseteq active'[l]
  BY DEF Drain

\* A waiter that notifyActiveTaskWaiters leaves asleep has a task to wait for,
\* whatever the handler did to the slots.
LEMMA NotifyKeepsWaiters ==
  ASSUME TypeOK, Notify, waitTasks' = waitTasks
  PROVE  WaiterHasActiveTask'
  BY DEF TypeOK, Notify, WaiterHasActiveTask

\* A handler that frees no slot owes the waiters nothing.
LEMMA GrowthKeepsWaiters ==
  ASSUME WaiterHasActiveTask,
         \A l \in Lane : active[l] \subseteq active'[l],
         waitTasks' = waitTasks,
         \A w \in Waiter : waitState'[w] = "waiting" => waitState[w] = "waiting"
  PROVE  WaiterHasActiveTask'
  BY DEF WaiterHasActiveTask

\* Every step that frees the slots of a waiter's tasks wakes it.
LEMMA NextKeepsWaiters ==
  ASSUME TypeOK, WaiterHasActiveTask, [Next]_vars
  PROVE  WaiterHasActiveTask'
<1>1. ASSUME NEW w \in Waiter, WaitForActiveTasks(w)
      PROVE  WaiterHasActiveTask'
  <2> DEFINE captured == UNION {active[l] : l \in Lane}
  <2>1. /\ waitTasks' = [waitTasks EXCEPT ![w] = captured]
        /\ waitState' = [waitState EXCEPT ![w] =
             IF captured = {} THEN "drained" ELSE "waiting"]
        /\ active' = active
    BY <1>1 DEF WaitForActiveTasks
  <2>2. /\ waitState'[w] = "waiting" => captured # {}
        /\ waitTasks'[w] = captured
        /\ \A v \in Waiter : v # w =>
             waitState'[v] = waitState[v] /\ waitTasks'[v] = waitTasks[v]
    BY <2>1 DEF TypeOK
  <2>3. captured # {} => \E l \in Lane : captured \cap active[l] # {}
    OBVIOUS
  <2>. HIDE DEF captured
  <2>. QED
    BY <2>1, <2>2, <2>3 DEF WaiterHasActiveTask
<1>2. CASE \/ \E e \in Entry : RefuseEnqueue(e) \/ BodyEnds(e) \/ Timeout(e)
           \/ \E l \in Lane : ClearCommandLane(l)
           \/ ChangeAdmission
           \/ UNCHANGED vars
  <2>1. UNCHANGED <<active, waitState, waitTasks>>
    BY <1>2 DEF RefuseEnqueue, BodyEnds, Timeout, ClearCommandLane,
                ChangeAdmission, vars
  <2>. QED
    BY <2>1 DEF WaiterHasActiveTask
<1>3. CASE \E w \in Waiter : WaiterTimeout(w)
  <2>1. /\ UNCHANGED <<active, waitTasks>>
        /\ \A w \in Waiter : waitState'[w] = "waiting" => waitState[w] = "waiting"
    BY <1>3 DEF WaiterTimeout, TypeOK
  <2>. QED
    BY <2>1, GrowthKeepsWaiters
<1>4. CASE \E e \in Entry : Enqueue(e)
  <2>1. PICK e \in Entry : Enqueue(e)
    BY <1>4
  <2>2. PICK l \in Lane : l = LaneOf[e]
    OBVIOUS
  <2>3. /\ \E q : Drain({l}, q, active, maxConcurrent, generation)
        /\ UNCHANGED <<waitState, waitTasks>>
        /\ active \in [Lane -> SUBSET Entry] /\ {l} \in SUBSET Lane
    BY <2>1, <2>2 DEF Enqueue, TypeOK
  <2>. QED
    BY <2>3, DrainAdds, GrowthKeepsWaiters
<1>5. ASSUME NEW l \in Lane, NEW n \in -1 .. MaxConcurrency,
             SetCommandLaneConcurrency(l, n)
      PROVE  WaiterHasActiveTask'
  <2>1. PICK S \in SUBSET Lane :
          Drain(S, queue, active, maxConcurrent', generation)
    <3>1. \E k \in Int : Drain(IF k > 0 THEN {l} ELSE {}, queue, active,
                               maxConcurrent', generation)
      BY <1>5 DEF SetCommandLaneConcurrency
    <3>. QED
      BY <3>1
  <2>2. /\ UNCHANGED <<waitState, waitTasks>>
        /\ active \in [Lane -> SUBSET Entry]
    BY <1>5 DEF SetCommandLaneConcurrency, TypeOK
  <2>. QED
    BY <2>1, <2>2, DrainAdds, GrowthKeepsWaiters
<1>6. ASSUME NEW e \in Entry, Complete(e)
      PROVE  WaiterHasActiveTask'
  <2>1. /\ Notify \/ UNCHANGED <<active, waitState>>
        /\ waitTasks' = waitTasks
    BY <1>6 DEF Complete
  <2>2. CASE Notify
    BY <2>1, <2>2, NotifyKeepsWaiters
  <2>3. CASE UNCHANGED <<active, waitState>>
    BY <2>1, <2>3 DEF WaiterHasActiveTask
  <2>. QED
    BY <2>1, <2>2, <2>3
<1>7. CASE (\E l \in Lane : ResetCommandLane(l)) \/ ResetAllLanes
  <2>1. Notify /\ waitTasks' = waitTasks
    BY <1>7 DEF ResetCommandLane, ResetAllLanes
  <2>. QED
    BY <2>1, NotifyKeepsWaiters
<1>. QED
  BY <1>1, <1>2, <1>3, <1>4, <1>5, <1>6, <1>7 DEF Next

\* A drain that has not been told its tasks are over still has one that holds
\* a slot: no completion, timeout or reset frees the last of them silently.
THEOREM WaitersAreNotForgotten == Spec => []WaiterHasActiveTask
<1>1. Init => WaiterHasActiveTask
  BY DEF Init, WaiterHasActiveTask
<1>. QED
  BY <1>1, NextKeepsWaiters, TypeCorrect, PTL DEF Spec

\* Before the first call there is nothing to order.
LEMMA InitOrderInv == Init => OrderInv
<1>. SUFFICES ASSUME Init PROVE OrderInv
  OBVIOUS
<1>1. \A l \in Lane : \A i, j \in 1 .. Len(queue[l]) :
        i < j => Ahead(queue[l][i], queue[l][j], sequence)
  BY DEF Init
<1>. QED
  BY <1>1 DEF Init, OrderInv, OrderOK

\* No entry runs ahead of an earlier entry of its lane that has at least its
\* priority and still waits, for any number of calls, limits and resets.
THEOREM EntriesNeverOvertake == Spec => []NoOvertaking
<1>1. Spec => []OrderInv
  BY InitIInv, InitOrderInv, NextIInv, NextOrderInv, PTL DEF Spec
<1>2. OrderInv => NoOvertaking
  BY DEF OrderInv, OrderOK, NoOvertaking
<1>. QED
  BY <1>1, <1>2, PTL

\* A step that starts tasks leaves the lane within its limit.
THEOREM LimitsAreKept == Spec => NoOverAdmission
<1>1. IInv /\ OrderInv /\ [Next]_vars =>
        [\A l \in Lane :
           active'[l] \subseteq active[l]
             \/ Cardinality(active'[l]) <= maxConcurrent'[l]]_vars
  <2>. SUFFICES ASSUME IInv, OrderInv, [Next]_vars 
                PROVE  \A l \in Lane :
                         active'[l] \subseteq active[l]
                           \/ Cardinality(active'[l]) <= maxConcurrent'[l]
    OBVIOUS
  <2>1. CASE Pumps
    BY <2>1, NextIInv, PumpStarts
  <2>2. CASE Rests
    BY <2>2 DEF Rests
  <2>. QED
    BY <2>1, <2>2, NextPumps
<1>. QED
  BY <1>1, InitIInv, InitOrderInv, NextIInv, NextOrderInv, PTL
     DEF Spec, NoOverAdmission

-----------------------------------------------------------------------------
(* The lanes implement LaneExecutor.                                       *)

Statuses == {"new", "waiting", "running", "abandoned", "over"}

\* Where a call stands, read off its promise, its race and its generation.
LEMMA StatusIs ==
  ASSUME NEW p, NEW r, NEW tg, NEW g
  PROVE  /\ StatusOf(p, r, tg, g) \in [Entry -> Statuses]
         /\ \A e \in Entry :
              LET s == StatusOf(p, r, tg, g)[e]
              IN  /\ s = "new" <=> p[e] = "none"
                  /\ s = "waiting" <=> p[e] = "pending" /\ r[e] = "none"
                  /\ s = "running" <=> /\ p[e] = "pending" /\ r[e] # "none"
                                       /\ tg[e] = g[LaneOf[e]]
                  /\ s = "abandoned" <=> /\ p[e] = "pending" /\ r[e] # "none"
                                         /\ tg[e] # g[LaneOf[e]]
                  /\ s = "over" <=> p[e] \notin {"none", "pending"}
  BY DEF StatusOf, Statuses

\* Where the calls stand.
Status == StatusOf(promise, race, taskGeneration, generation)

\* The tasks a waiter sleeps for.
Awaited == [w \in Waiter |-> IF waitState[w] = "waiting" THEN waitTasks[w] ELSE {}]

\* A waiter is woken exactly when the last of its tasks has left its slot.
WaitersFollow ==
  \A w \in Waiter :
    Awaited'[w] = IF \A l \in Lane : Awaited[w] \cap active'[l] = {}
                  THEN {} ELSE Awaited[w]

\* The executor counts as the queue does.
LEMMA SameCardinality == \A S : Executor!Cardinality(S) = Cardinality(S)
BY DEF Executor!Cardinality, Cardinality

\* Executor!StartAfter over the pieces: from the calls s and the sleepers v to
\* t and w, under the limits m, for calls that arrived in the order n.
Starts(s, t, m, n, v, w) ==
  \E D \in SUBSET {e \in Entry : s[e] = "waiting"} :
    /\ t = [e \in Entry |-> IF e \in D THEN "running" ELSE s[e]]
    /\ \A d \in D : Cardinality(Executor!Held(s, D, LaneOf[d])) <= m[LaneOf[d]]
    /\ \A e \in Entry \ D : s[e] = "waiting" =>
         /\ Cardinality(Executor!Held(s, D, LaneOf[e])) >= m[LaneOf[e]]
         /\ \A d \in D : ~(/\ LaneOf[e] = LaneOf[d]
                            /\ n[e] < n[d]
                            /\ PriorityOf[e] >= PriorityOf[d])
    /\ w = [x \in Waiter |-> IF v[x] \cap Executor!Running(t) = {}
                              THEN {} ELSE v[x]]

\* An event and the pump that goes with it: the tasks the pump started are the
\* ones whose race it opened.
LEMMA EventStarts ==
  ASSUME IInv, IInv', OrderInv', NEW s,
         s = StatusOf(promise', race, taskGeneration, generation'),
         Pumps,
         WaitersFollow
  PROVE  Starts(s, Status', maxConcurrent', sequence', Awaited, Awaited')
<1> DEFINE D == {e \in Entry : race[e] = "none" /\ race'[e] # "none"}
<1>0. /\ \A e \in Entry :
           \/ race'[e] = race[e] /\ taskGeneration'[e] = taskGeneration[e]
           \/ /\ race[e] = "none" /\ race'[e] = "open"
              /\ taskGeneration'[e] = generation'[LaneOf[e]]
      /\ \A l \in Lane : \/ active'[l] \subseteq active[l]
                         \/ Cardinality(active'[l]) <= maxConcurrent'[l]
  BY PumpStarts
<1>1. \A e \in Entry :
        /\ s[e] = "waiting" <=> promise'[e] = "pending" /\ race[e] = "none"
        /\ s[e] = "running" <=> /\ promise'[e] = "pending" /\ race[e] # "none"
                                /\ taskGeneration[e] = generation'[LaneOf[e]]
  BY StatusIs
<1>2. \A e \in Entry :
        e \in D => /\ race[e] = "none" /\ race'[e] = "open"
                   /\ taskGeneration'[e] = generation'[LaneOf[e]]
                   /\ promise'[e] = "pending"
  BY <1>0 DEF IInv, QueueOK
<1>3. \A e \in Entry :
        e \notin D => race'[e] = race[e] /\ taskGeneration'[e] = taskGeneration[e]
  BY <1>0
<1>4. D \in SUBSET {e \in Entry : s[e] = "waiting"}
  BY <1>1, <1>2
<1>. HIDE DEF D
<1>5. \A l \in Lane : Executor!Held(s, D, l) = active'[l]
  <2>. SUFFICES ASSUME NEW l \in Lane
                PROVE  Executor!Held(s, D, l) = active'[l]
    OBVIOUS
  <2>1. active'[l] \in SUBSET Entry
    BY DEF IInv, TypeOK
  <2>2. \A e \in Entry : e \in active'[l] <=>
          /\ LaneOf[e] = l /\ promise'[e] = "pending" /\ race'[e] # "none"
          /\ taskGeneration'[e] = generation'[l]
    BY DEF IInv, SlotsOK
  <2>3. \A e \in Entry : e \in active'[l] <=>
          LaneOf[e] = l /\ (s[e] = "running" \/ e \in D)
    BY <2>2, <1>1, <1>2, <1>3
  <2>. QED
    BY <2>1, <2>3 DEF Executor!Held
<1>6. ASSUME NEW d \in D
      PROVE  Cardinality(Executor!Held(s, D, LaneOf[d])) <= maxConcurrent'[LaneOf[d]]
  <2>1. PICK l \in Lane : l = LaneOf[d] /\ d \in Entry
    BY <1>4
  <2>2. d \in active'[l] /\ d \notin active[l]
    <3>1. d \notin active[l]
      BY <2>1, <1>2 DEF IInv, SlotsOK
    <3>2. d \in Executor!Held(s, D, l)
      BY <2>1 DEF Executor!Held
    <3>. QED
      BY <3>1, <3>2, <1>5
  <2>3. Cardinality(active'[l]) <= maxConcurrent'[l]
    BY <1>0, <2>2
  <2>. QED
    BY <2>1, <2>3, <1>5
<1>7. ASSUME NEW e \in Entry \ D, s[e] = "waiting"
      PROVE  /\ Cardinality(Executor!Held(s, D, LaneOf[e])) >= maxConcurrent'[LaneOf[e]]
             /\ \A d \in D : ~(/\ LaneOf[e] = LaneOf[d]
                            /\ sequence'[e] < sequence'[d]
                            /\ PriorityOf[e] >= PriorityOf[d])
  <2>1. promise'[e] = "pending" /\ race'[e] = "none"
    BY <1>1, <1>3, <1>7
  <2>2. PICK l \in Lane : l = LaneOf[e]
    OBVIOUS
  <2>3. Cardinality(active'[l]) >= maxConcurrent'[l]
    <3>1. \E i \in 1 .. Len(queue'[l]) : queue'[l][i] = e
      BY <2>1, <2>2 DEF IInv, QueueOK
    <3>2. queue'[l] # <<>>
      BY <3>1
    <3>. QED
      BY <3>2 DEF IInv, WorkOK
  <2>4. ASSUME NEW d \in D, LaneOf[e] = LaneOf[d],
               sequence'[e] < sequence'[d], PriorityOf[e] >= PriorityOf[d]
        PROVE  FALSE
    <3>1. d \in Entry /\ race'[d] = "open"
      BY <1>2, <1>4
    <3>2. race'[d] = "none"
      BY <2>1, <2>4, <3>1 DEF OrderInv, OrderOK
    <3>. QED
      BY <3>1, <3>2
  <2>. QED
    BY <2>2, <2>3, <2>4, <1>5
<1>8. StatusOf(promise', race', taskGeneration', generation')
        = [e \in Entry |-> IF e \in D THEN "running" ELSE s[e]]
  <2> DEFINE after == StatusOf(promise', race', taskGeneration', generation')
  <2>1. after \in [Entry -> Statuses] /\ s \in [Entry -> Statuses]
    BY StatusIs
  <2>2. \A e \in Entry : e \in D => after[e] = "running"
    BY <1>2, StatusIs
  <2>3. \A e \in Entry : e \notin D => after[e] = s[e]
    BY <1>3 DEF StatusOf
  <2>. HIDE DEF after
  <2>4. after = [e \in Entry |-> IF e \in D THEN "running" ELSE s[e]]
    BY <2>1, <2>2, <2>3
  <2>. QED
    BY <2>4 DEF after
<1>9. Awaited' = [w \in Waiter |->
        IF Awaited[w] \cap
             Executor!Running(StatusOf(promise', race', taskGeneration', generation')) = {}
        THEN {} ELSE Awaited[w]]
  <2>1. Executor!Running(StatusOf(promise', race', taskGeneration', generation'))
          = UNION {active'[l] : l \in Lane}
    <3>1. \A e \in Entry :
            StatusOf(promise', race', taskGeneration', generation')[e] = "running"
              <=> e \in active'[LaneOf[e]]
      BY StatusIs DEF IInv, SlotsOK
    <3>2. \A l \in Lane : \A e \in active'[l] : e \in Entry /\ LaneOf[e] = l
      BY DEF IInv, TypeOK, SlotsOK
    <3>. QED
      BY <3>1, <3>2 DEF Executor!Running
  <2>2. \A w \in Waiter :
          (\A l \in Lane : Awaited[w] \cap active'[l] = {})
            <=> Awaited[w] \cap UNION {active'[l] : l \in Lane} = {}
    OBVIOUS
  <2>. QED
    BY <2>1, <2>2 DEF WaitersFollow, Awaited
<1>. QED
  <2>. SUFFICES
         \E B \in SUBSET {e \in Entry : s[e] = "waiting"} :
           /\ Status' = [e \in Entry |-> IF e \in B THEN "running" ELSE s[e]]
           /\ \A d \in B : Cardinality(Executor!Held(s, B, LaneOf[d])) <= maxConcurrent'[LaneOf[d]]
           /\ \A e \in Entry \ B : s[e] = "waiting" =>
                /\ Cardinality(Executor!Held(s, B, LaneOf[e])) >= maxConcurrent'[LaneOf[e]]
                /\ \A d \in B : ~(/\ LaneOf[e] = LaneOf[d]
                                   /\ sequence'[e] < sequence'[d]
                                   /\ PriorityOf[e] >= PriorityOf[d])
           /\ Awaited' = [w \in Waiter |->
                IF Awaited[w] \cap Executor!Running(Status') = {}
                THEN {} ELSE Awaited[w]]
    BY DEF Starts
  <2>. WITNESS D \in SUBSET {e \in Entry : s[e] = "waiting"}
  <2>. QED
    BY <1>6, <1>7, <1>8, <1>9 DEF Status

\* A handler that calls notifyActiveTaskWaiters wakes whom it should.
LEMMA NotifyFollows ==
  ASSUME TypeOK, Notify, waitTasks' = waitTasks
  PROVE  WaitersFollow
  BY DEF TypeOK, Notify, WaitersFollow, Awaited

\* A handler that does not call it has nobody to wake.
LEMMA SleepFollows ==
  ASSUME WaiterHasActiveTask', UNCHANGED <<waitState, waitTasks>>
  PROVE  WaitersFollow
<1>. SUFFICES ASSUME NEW w \in Waiter
              PROVE  Awaited'[w] = IF \A l \in Lane : Awaited[w] \cap active'[l] = {}
                                   THEN {} ELSE Awaited[w]
  BY DEF WaitersFollow
<1>1. Awaited'[w] = Awaited[w]
  BY DEF Awaited
<1>2. CASE waitState[w] = "waiting"
  BY <1>1, <1>2 DEF WaiterHasActiveTask, Awaited
<1>3. CASE waitState[w] # "waiting"
  BY <1>1, <1>3 DEF Awaited
<1>. QED
  BY <1>2, <1>3

\* An enqueue submits a call.
LEMMA EnqueueSubmits ==
  ASSUME IInv, IInv', OrderInv, OrderInv', WaiterHasActiveTask',
         NEW e \in Entry, Enqueue(e)
  PROVE  Executor!Submit(e)
<1> DEFINE s == [Status EXCEPT ![e] = "waiting"]
<1>1. /\ TypeOK
      /\ promise[e] = "none" /\ race[e] = "none"
      /\ promise' = [promise EXCEPT ![e] = "pending"]
      /\ sequence' = [sequence EXCEPT ![e] = nextSequence]
      /\ UNCHANGED <<maxConcurrent, generation, waitState, waitTasks>>
  BY DEF IInv, QueueOK, Enqueue, laneVars
<1>2. s = StatusOf(promise', race, taskGeneration, generation')
  BY <1>1 DEF TypeOK, Status, StatusOf
<1>3. Status[e] = "new"
  BY <1>1, StatusIs DEF Status
<1>4. /\ sequence' = [sequence EXCEPT ![e] = sequence'[e]]
      /\ \A f \in Entry : sequence[f] < sequence'[e]
  BY <1>1 DEF TypeOK, OrderInv
<1>. HIDE DEF s
<1>5. Starts(s, Status', maxConcurrent', sequence', Awaited, Awaited')
  <2>1. Pumps
    BY EnqueuePumps
  <2>2. WaitersFollow
    BY <1>1, SleepFollows
  <2>. QED
    BY <1>2, <2>1, <2>2, EventStarts
<1>6. Executor!StartAfter(s)
  BY <1>5, SameCardinality
     DEF Executor!StartAfter, Executor!GoesBefore, Starts, Status, Awaited
<1>. QED
  BY <1>1, <1>3, <1>4, <1>6 DEF Executor!Submit, Status, s

\* A refused call is over at once.
LEMMA RefuseRefuses ==
  ASSUME IInv, NEW e \in Entry, RefuseEnqueue(e)
  PROVE  Executor!Refuse(e)
<1>1. /\ TypeOK
      /\ promise[e] = "none"
      /\ promise' = [promise EXCEPT ![e] = "refused"]
      /\ UNCHANGED <<race, taskGeneration, generation, sequence, maxConcurrent,
                     waitState, waitTasks>>
  BY DEF IInv, RefuseEnqueue, laneVars, entryVars
<1>2. StatusOf(promise', race', taskGeneration', generation')
        = [Status EXCEPT ![e] = "over"]
  BY <1>1 DEF TypeOK, Status, StatusOf
<1>3. Status[e] = "new"
  BY <1>1, StatusIs DEF Status
<1>. QED
  BY <1>1, <1>2, <1>3 DEF Executor!Refuse, Status

\* A completion in the lane's generation finishes a running call.
LEMMA CompleteFinishes ==
  ASSUME IInv, IInv', OrderInv, OrderInv', NEW e \in Entry, Complete(e),
         taskGeneration[e] = generation[LaneOf[e]]
  PROVE  Executor!Finish(e)
<1> DEFINE s == [Status EXCEPT ![e] = "over"]
<1>1. /\ TypeOK
      /\ promise[e] = "pending" /\ race[e] # "none"
      /\ promise' = [promise EXCEPT ![e] = "settled"]
      /\ UNCHANGED <<maxConcurrent, generation, sequence, waitTasks>>
  BY DEF IInv, Complete, laneVars, entryVars
<1>2. s = StatusOf(promise', race, taskGeneration, generation')
  BY <1>1 DEF TypeOK, Status, StatusOf
<1>3. Status[e] = "running"
  BY <1>1, StatusIs DEF Status
<1>. HIDE DEF s
<1>4. Starts(s, Status', maxConcurrent', sequence', Awaited, Awaited')
  <2>1. Pumps /\ Notify
    BY CompletePumps
  <2>2. WaitersFollow
    BY <1>1, <2>1, NotifyFollows
  <2>. QED
    BY <1>2, <2>1, <2>2, EventStarts
<1>5. Executor!StartAfter(s)
  BY <1>4, SameCardinality
     DEF Executor!StartAfter, Executor!GoesBefore, Starts, Status, Awaited
<1>. QED
  BY <1>1, <1>3, <1>5 DEF Executor!Finish, Status, s

\* A completion from before a reset only settles an abandoned call.
LEMMA StaleCompleteFinishes ==
  ASSUME IInv, NEW e \in Entry, Complete(e),
         taskGeneration[e] # generation[LaneOf[e]]
  PROVE  Executor!FinishAbandoned(e)
<1>1. /\ TypeOK
      /\ promise[e] = "pending" /\ race[e] # "none"
      /\ promise' = [promise EXCEPT ![e] = "settled"]
      /\ UNCHANGED <<race, taskGeneration, generation, sequence, maxConcurrent,
                     waitState, waitTasks>>
  BY DEF IInv, Complete, laneVars, entryVars
<1>2. StatusOf(promise', race', taskGeneration', generation')
        = [Status EXCEPT ![e] = "over"]
  BY <1>1 DEF TypeOK, Status, StatusOf
<1>3. Status[e] = "abandoned"
  BY <1>1, StatusIs DEF Status
<1>. QED
  BY <1>1, <1>2, <1>3 DEF Executor!FinishAbandoned, Status

\* The settlement of a body and its timeout race, seen by nobody but the task.
LEMMA RaceIsHidden ==
  ASSUME IInv, NEW e \in Entry, BodyEnds(e) \/ Timeout(e)
  PROVE  UNCHANGED Executor!vars
<1>1. /\ UNCHANGED <<promise, taskGeneration, generation, sequence,
                     maxConcurrent, waitState, waitTasks>>
      /\ \A f \in Entry : race'[f] = "none" <=> race[f] = "none"
  BY DEF IInv, TypeOK, BodyEnds, Timeout, laneVars, entryVars
<1>2. StatusOf(promise', race', taskGeneration', generation') = Status
  BY <1>1 DEF Status, StatusOf
<1>. QED
  BY <1>1, <1>2 DEF Executor!vars, Status

\* A new limit, with the pump.
LEMMA SetConcurrencySetsLimit ==
  ASSUME IInv, IInv', OrderInv, OrderInv', WaiterHasActiveTask',
         NEW l \in Lane, NEW n \in -1 .. MaxConcurrency,
         SetCommandLaneConcurrency(l, n)
  PROVE  Executor!SetLimit(l)
<1> DEFINE s == Status
<1>1. /\ l \notin SessionLane
      /\ UNCHANGED <<promise, generation, sequence, waitState, waitTasks>>
      /\ \E k : maxConcurrent' = [maxConcurrent EXCEPT ![l] = k]
  BY DEF SetCommandLaneConcurrency, entryVars
<1>2. /\ maxConcurrent' = [maxConcurrent EXCEPT ![l] = maxConcurrent'[l]]
      /\ maxConcurrent'[l] \in Nat
  BY <1>1 DEF IInv, TypeOK
<1>3. s = StatusOf(promise', race, taskGeneration, generation')
  BY <1>1 DEF Status
<1>. HIDE DEF s
<1>4. Starts(s, Status', maxConcurrent', sequence', Awaited, Awaited')
  <2>1. Pumps
    BY SetConcurrencyPumps
  <2>2. WaitersFollow
    BY <1>1, SleepFollows
  <2>. QED
    BY <1>3, <2>1, <2>2, EventStarts
<1>5. Executor!StartAfter(s)
  BY <1>4, SameCardinality
     DEF Executor!StartAfter, Executor!GoesBefore, Starts, Status, Awaited
<1>. QED
  BY <1>1, <1>2, <1>5 DEF Executor!SetLimit, Status, s

\* A cleared lane rejects exactly its waiting calls.
LEMMA ClearClears ==
  ASSUME IInv, NEW l \in Lane, ClearCommandLane(l)
  PROVE  Executor!Clear(l)
<1> DEFINE t == StatusOf(promise', race', taskGeneration', generation')
<1>1. /\ promise' = [e \in Entry |->
           IF e \in Range(queue[l]) THEN "cleared" ELSE promise[e]]
      /\ UNCHANGED <<race, taskGeneration, generation, sequence, maxConcurrent,
                     waitState, waitTasks>>
  BY DEF ClearCommandLane, laneVars, entryVars
<1>2. queue[l] \in Seq(Entry)
  BY DEF IInv, TypeOK
<1>3. \A e \in Entry : e \in Range(queue[l]) <=>
        promise[e] = "pending" /\ race[e] = "none" /\ LaneOf[e] = l
  <2>1. Range(queue[l]) = {queue[l][i] : i \in 1 .. Len(queue[l])}
    BY <1>2 DEF Range
  <2>2. \A i \in 1 .. Len(queue[l]) :
          /\ LaneOf[queue[l][i]] = l
          /\ promise[queue[l][i]] = "pending" /\ race[queue[l][i]] = "none"
    BY DEF IInv, QueueOK
  <2>3. \A e \in Entry :
          promise[e] = "pending" /\ race[e] = "none" /\ LaneOf[e] = l =>
            \E i \in 1 .. Len(queue[l]) : queue[l][i] = e
    BY DEF IInv, QueueOK
  <2>. QED
    BY <2>1, <2>2, <2>3
<1>4. t = [e \in Entry |-> IF Status[e] = "waiting" /\ LaneOf[e] = l
                           THEN "over" ELSE Status[e]]
  <2>1. t \in [Entry -> Statuses] /\ Status \in [Entry -> Statuses]
    BY StatusIs DEF Status
  <2>2. ASSUME NEW e \in Entry, e \in Range(queue[l])
        PROVE  t[e] = "over" /\ Status[e] = "waiting" /\ LaneOf[e] = l
    BY <2>2, <1>1, <1>3 DEF Status, StatusOf
  <2>3. ASSUME NEW e \in Entry, e \notin Range(queue[l])
        PROVE  t[e] = Status[e] /\ ~(Status[e] = "waiting" /\ LaneOf[e] = l)
    <3>1. t[e] = Status[e]
      BY <2>3, <1>1 DEF Status, StatusOf
    <3>2. Status[e] = "waiting" => promise[e] = "pending" /\ race[e] = "none"
      BY StatusIs DEF Status
    <3>. QED
      BY <2>3, <3>1, <3>2, <1>3
  <2>. HIDE DEF t
  <2>. QED
    BY <2>1, <2>2, <2>3
<1>. QED
  BY <1>1, <1>4 DEF Executor!Clear, Status

\* A new generation of the lanes of S abandons what runs there: what was
\* dispatched before is of an older generation.
LEMMA GenerationAbandons ==
  ASSUME IInv, NEW S \in SUBSET Lane,
         NEW g,
         \A l \in Lane : g[l] = IF l \in S THEN generation[l] + 1 ELSE generation[l]
  PROVE  StatusOf(promise, race, taskGeneration, g)
           = [e \in Entry |-> IF Status[e] = "running" /\ LaneOf[e] \in S
                              THEN "abandoned" ELSE Status[e]]
<1> DEFINE t == StatusOf(promise, race, taskGeneration, g)
<1>1. t \in [Entry -> Statuses] /\ Status \in [Entry -> Statuses]
  BY StatusIs DEF Status
<1>2. ASSUME NEW e \in Entry
      PROVE  t[e] = IF Status[e] = "running" /\ LaneOf[e] \in S
                    THEN "abandoned" ELSE Status[e]
  <2>1. PICK l \in Lane : l = LaneOf[e]
    OBVIOUS
  <2>2. l \in S => taskGeneration[e] # generation[l] + 1
    <3>1. taskGeneration[e] \in Nat /\ generation[l] \in Nat
      BY DEF IInv, TypeOK
    <3>2. taskGeneration[e] <= generation[l]
      BY <2>1 DEF IInv, GenerationOK
    <3>. QED
      BY <3>1, <3>2
  <2>3. l \in S => g[l] = generation[l] + 1
    OBVIOUS
  <2>4. l \notin S => g[l] = generation[l]
    OBVIOUS
  <2>5. CASE l \in S
    BY <2>1, <2>2, <2>3, <2>5 DEF Status, StatusOf
  <2>6. CASE l \notin S
    BY <2>1, <2>4, <2>6 DEF Status, StatusOf
  <2>. QED
    BY <2>5, <2>6
<1>. HIDE DEF t
<1>3. t = [e \in Entry |-> IF Status[e] = "running" /\ LaneOf[e] \in S
                           THEN "abandoned" ELSE Status[e]]
  BY <1>1, <1>2
<1>. QED
  BY <1>3 DEF t

\* A reset of the lanes of S, with the pump and the wake-ups.
LEMMA GenerationResets ==
  ASSUME IInv, IInv', OrderInv', Pumps, Notify, NEW S \in SUBSET Lane,
         \A l \in Lane : generation'[l] = IF l \in S THEN generation[l] + 1
                                                    ELSE generation[l],
         UNCHANGED <<promise, maxConcurrent, sequence, waitTasks>>
  PROVE  Executor!Reset(S)
<1> DEFINE s == [e \in Entry |-> IF Status[e] = "running" /\ LaneOf[e] \in S
                                 THEN "abandoned" ELSE Status[e]]
<1>1. s = StatusOf(promise', race, taskGeneration, generation')
  BY GenerationAbandons
<1>. HIDE DEF s
<1>2. WaitersFollow
  BY NotifyFollows DEF IInv
<1>3. Starts(s, Status', maxConcurrent', sequence', Awaited, Awaited')
  BY <1>1, <1>2, EventStarts
<1>4. Executor!StartAfter(s)
  BY <1>3, SameCardinality
     DEF Executor!StartAfter, Executor!GoesBefore, Starts, Status, Awaited
<1>. QED
  BY <1>4 DEF Executor!Reset, Status, s

\* One lane is reset.
LEMMA ResetResets ==
  ASSUME IInv, IInv', OrderInv, OrderInv', NEW l \in Lane, ResetCommandLane(l)
  PROVE  Executor!Reset({l})
<1>1. /\ Notify
      /\ generation' = [generation EXCEPT ![l] = @ + 1]
      /\ UNCHANGED <<promise, maxConcurrent, sequence, waitTasks>>
  BY DEF ResetCommandLane, entryVars
<1>2. \A k \in Lane : generation'[k] = IF k \in {l} THEN generation[k] + 1
                                                   ELSE generation[k]
  BY <1>1 DEF IInv, TypeOK
<1>3. Pumps /\ {l} \in SUBSET Lane
  BY ResetPumps
<1>. QED
  BY <1>1, <1>2, <1>3, GenerationResets

\* Every lane is reset.
LEMMA ResetAllResets ==
  ASSUME IInv, IInv', OrderInv, OrderInv', ResetAllLanes
  PROVE  Executor!Reset(Lane)
<1>1. /\ Notify
      /\ generation' = [l \in Lane |-> generation[l] + 1]
      /\ UNCHANGED <<promise, maxConcurrent, sequence, waitTasks>>
  BY DEF ResetAllLanes, entryVars
<1>2. \A k \in Lane : generation'[k] = IF k \in Lane THEN generation[k] + 1
                                                    ELSE generation[k]
  BY <1>1
<1>3. Pumps /\ Lane \in SUBSET Lane
  BY ResetAllPumps
<1>. QED
  BY <1>1, <1>2, <1>3, GenerationResets

\* A drain falls asleep for the calls that run, or does not sleep at all.
LEMMA WaitSleeps ==
  ASSUME IInv, NEW w \in Waiter, WaitForActiveTasks(w)
  PROVE  Executor!Sleep(w)
<1> DEFINE captured == UNION {active[l] : l \in Lane}
<1>1. /\ waitState[w] = "none"
      /\ waitTasks' = [waitTasks EXCEPT ![w] = captured]
      /\ waitState' = [waitState EXCEPT ![w] =
           IF captured = {} THEN "drained" ELSE "waiting"]
      /\ UNCHANGED <<promise, race, taskGeneration, generation, sequence,
                     maxConcurrent>>
  BY DEF WaitForActiveTasks, laneVars, entryVars
<1>2. Executor!Running(Status) = captured
  <2>1. \A e \in Entry : Status[e] = "running" <=> e \in active[LaneOf[e]]
    BY StatusIs DEF Status, IInv, SlotsOK
  <2>2. \A l \in Lane : \A e \in active[l] : e \in Entry /\ LaneOf[e] = l
    BY DEF IInv, TypeOK, SlotsOK
  <2>. QED
    BY <2>1, <2>2 DEF Executor!Running
<1>. HIDE DEF captured
<1>3. Awaited' = [Awaited EXCEPT ![w] = captured]
  BY <1>1 DEF IInv, TypeOK, Awaited
<1>4. Awaited[w] = {}
  BY <1>1 DEF Awaited
<1>5. StatusOf(promise', race', taskGeneration', generation') = Status
  BY <1>1 DEF Status
<1>. QED
  BY <1>1, <1>2, <1>3, <1>4, <1>5 DEF Executor!Sleep, Status, Awaited

\* A drain gives up.
LEMMA WaitGivesUp ==
  ASSUME IInv, NEW w \in Waiter, WaiterTimeout(w)
  PROVE  Executor!GiveUp(w)
<1>1. /\ waitState' = [waitState EXCEPT ![w] = "timedOut"]
      /\ UNCHANGED <<promise, race, taskGeneration, generation, sequence,
                     maxConcurrent, waitTasks>>
  BY DEF WaiterTimeout, laneVars, entryVars
<1>2. Awaited' = [Awaited EXCEPT ![w] = {}]
  BY <1>1 DEF IInv, TypeOK, Awaited
<1>. QED
  BY <1>1, <1>2 DEF Executor!GiveUp, Awaited

\* A closed or reopened admission, and a step of nobody.
LEMMA AdmissionIsHidden ==
  ASSUME ChangeAdmission \/ UNCHANGED vars
  PROVE  UNCHANGED Executor!vars
  BY DEF ChangeAdmission, vars, laneVars, entryVars, Executor!vars

\* Every step of the queue is a step of the executor, or none.
LEMMA NextExecutes ==
  ASSUME IInv, IInv', OrderInv, OrderInv', WaiterHasActiveTask', [Next]_vars
  PROVE  [Executor!Next]_(Executor!vars)
<1>1. ASSUME NEW e \in Entry,
             \/ RefuseEnqueue(e) \/ Enqueue(e) \/ BodyEnds(e) \/ Timeout(e)
             \/ Complete(e)
      PROVE  [Executor!Next]_(Executor!vars)
  <2>1. CASE Enqueue(e)
    BY <2>1, EnqueueSubmits DEF Executor!Next
  <2>2. CASE RefuseEnqueue(e)
    BY <2>2, RefuseRefuses DEF Executor!Next
  <2>3. CASE BodyEnds(e) \/ Timeout(e)
    BY <2>3, RaceIsHidden
  <2>4. CASE Complete(e) /\ taskGeneration[e] = generation[LaneOf[e]]
    BY <2>4, CompleteFinishes DEF Executor!Next
  <2>5. CASE Complete(e) /\ taskGeneration[e] # generation[LaneOf[e]]
    BY <2>5, StaleCompleteFinishes DEF Executor!Next
  <2>. QED
    BY <1>1, <2>1, <2>2, <2>3, <2>4, <2>5
<1>2. ASSUME NEW l \in Lane, NEW n \in -1 .. MaxConcurrency,
             SetCommandLaneConcurrency(l, n)
      PROVE  [Executor!Next]_(Executor!vars)
  BY <1>2, SetConcurrencySetsLimit DEF Executor!Next
<1>3. ASSUME NEW l \in Lane, ClearCommandLane(l) \/ ResetCommandLane(l)
      PROVE  [Executor!Next]_(Executor!vars)
  <2>1. {l} \in SUBSET Lane
    OBVIOUS
  <2>2. CASE ClearCommandLane(l)
    BY <2>2, ClearClears DEF Executor!Next
  <2>3. CASE ResetCommandLane(l)
    BY <2>1, <2>3, ResetResets DEF Executor!Next
  <2>. QED
    BY <1>3, <2>2, <2>3
<1>4. CASE ResetAllLanes
  <2>1. Executor!Reset(Lane) /\ Lane \in SUBSET Lane
    BY <1>4, ResetAllResets
  <2>. QED
    BY <2>1 DEF Executor!Next
<1>5. ASSUME NEW w \in Waiter, WaitForActiveTasks(w) \/ WaiterTimeout(w)
      PROVE  [Executor!Next]_(Executor!vars)
  BY <1>5, WaitSleeps, WaitGivesUp DEF Executor!Next
<1>6. CASE ChangeAdmission \/ UNCHANGED vars
  BY <1>6, AdmissionIsHidden
<1>. QED
  BY <1>1, <1>2, <1>3, <1>4, <1>5, <1>6 DEF Next

\* Before the first call the lanes are an executor before its first call.
LEMMA InitExecutes == Init => Executor!Init
<1>. SUFFICES ASSUME Init PROVE Executor!Init
  OBVIOUS
<1>1. Status = [e \in Entry |-> "new"]
  BY DEF Init, Status, StatusOf
<1>2. Awaited = [w \in Waiter |-> {}]
  BY DEF Init, Awaited
<1>. QED
  BY <1>1, <1>2 DEF Init, Executor!Init, Status, Awaited

\* The lanes implement LaneExecutor, for any number of calls, lanes, waiters
\* and resets: whatever a handler does to the queues, it leaves each lane full
\* or with nothing to start, in order and within its limit, and wakes exactly
\* those whose last call is gone.
THEOREM LanesImplementExecutor == Spec => LanesAreExecutors
<1>1. IInv /\ IInv' /\ OrderInv /\ OrderInv' /\ WaiterHasActiveTask' /\ [Next]_vars
        => [Executor!Next]_(Executor!vars)
  BY NextExecutes
<1>2. Spec => []OrderInv
  BY InitIInv, InitOrderInv, NextIInv, NextOrderInv, PTL DEF Spec
<1>. QED
  BY <1>1, <1>2, Invariance, WaitersAreNotForgotten, InitExecutes, PTL
     DEF Spec, LanesAreExecutors, Executor!Spec

=============================================================================
