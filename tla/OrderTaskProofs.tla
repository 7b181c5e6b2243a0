--------------------------- MODULE OrderTaskProofs ---------------------------
(***************************************************************************)
(* Proofs about OrderTask for every bound on orders, time and environments.*)
(***************************************************************************)
EXTENDS OrderTask, FiniteSetTheorems, SequenceTheorems, WellFoundedInduction, TLAPS

\* A set of natural numbers that is not empty has a least element.
LEMMA LeastNatural ==
    ASSUME NEW S \in SUBSET Nat, S # {}
    PROVE  \E n \in S : \A m \in S : n <= m
<1>1. PICK n \in S : \A m \in S : ~(<<m, n>> \in OpToRel(<, Nat))
  BY Zenon, NatLessThanWellFounded, WFMin
<1>2. ASSUME NEW m \in S, m < n
      PROVE  <<m, n>> \in OpToRel(<, Nat)
  BY Zenon, <1>2 DEF OpToRel
<1>3. \A m \in S : ~(m < n) /\ m \in Nat /\ n \in Nat
  BY Zenon, <1>1, <1>2
<1> QED
  BY <1>3

\* What Min and Max of the inputs of Collect, Evict and Tick are.
LEMMA MinOfTwo ==
    ASSUME NEW a \in Int, NEW b \in Int
    PROVE  Min({a, b}) = IF a <= b THEN a ELSE b
  BY DEF Min

\* The least of three numbers.
LEMMA MinOfThree ==
    ASSUME NEW a \in Int, NEW b \in Int, NEW c \in Int
    PROVE  /\ Min({a, b, c}) \in {a, b, c}
           /\ Min({a, b, c}) <= a /\ Min({a, b, c}) <= b /\ Min({a, b, c}) <= c
<1>1. \E x \in {a, b, c} : \A y \in {a, b, c} : x <= y
  OBVIOUS
<1>2. /\ Min({a, b, c}) \in {a, b, c}
      /\ \A y \in {a, b, c} : Min({a, b, c}) <= y
  BY Zenon, <1>1 DEF Min
<1> QED
  BY Zenon, <1>2

\* The orders one batch adds are as many as were due.
LEMMA IntervalSize ==
    ASSUME NEW m \in Nat, NEW n \in Nat
    PROVE  IsFiniteSet((m + 1)..(m + n)) /\ Cardinality((m + 1)..(m + n)) = n
<1> DEFINE x == m + 1
           y == m + n
<1>1. x \in Int /\ y \in Int
  OBVIOUS
<1>2. (IF x > y THEN 0 ELSE y - x + 1) = n
  OBVIOUS
<1> HIDE DEF x, y
<1>3. IsFiniteSet(x..y) /\ Cardinality(x..y) = IF x > y THEN 0 ELSE y - x + 1
  BY Zenon, <1>1, FS_Interval
<1>4. IsFiniteSet(x..y) /\ Cardinality(x..y) = n
  BY Zenon, <1>2, <1>3
<1> QED
  BY Zenon, <1>4 DEF x, y

-----------------------------------------------------------------------------
(* The inductive invariant, clause by clause. *)

Entry == [order : Nat, deadline : Nat]
QueuedOrders == {queue[i].order : i \in DOMAIN queue}

\* The stamps the three loops have taken are in the past.
Clocks ==
    /\ pending \in [Waiting -> 0..MaxTime]
    /\ sentAt <= now
    /\ dnow \in 0..MaxTime /\ dnow <= now
    /\ queue \in Seq(Entry)

\* The writer that leaves the wait for room starts a batch below the cap: nobody else
\* adds to the map.
HasRoom == wpc = "pace" => Cardinality(Waiting) < env.maxInflight

\* The watchdog ends after the drain deadline with the map empty.  The writer can then
\* start one more batch, if it was past the check of should_stop_sending.
LastBatch ==
    dpc = "done" =>
        /\ now >= DrainEnd
        /\ Cardinality(Waiting) <= env.batchMax
        /\ \A o \in Waiting : pending[o] >= DrainEnd
        /\ wpc \in {"room", "recheck", "park", "pace"} => Waiting = {}

\* The batch being written is a run of orders that the expiry queue does not know yet,
\* and once its write has returned those still unanswered have the refined stamp.
Batched ==
    /\ wpc \in {"write", "push"} =>
          /\ \E a, b \in 1..offered : a <= b /\ batch = a..b
          /\ batch \cap (QueuedOrders \cup due) = {}
    /\ wpc = "push" => \A o \in batch \cap Waiting : pending[o] = sentAt

\* The expiry queue is sorted, and its deadlines are those of the orders' stamps.
Deadlines ==
    /\ \A i, j \in DOMAIN queue : i <= j => queue[i].deadline <= queue[j].deadline
    /\ \A i \in DOMAIN queue :
          /\ queue[i].deadline <= now + env.timeout
          /\ wpc = "push" => queue[i].deadline <= sentAt + env.timeout
          /\ queue[i].order \in Waiting => pending[queue[i].order] + env.timeout <= queue[i].deadline

\* What the watchdog popped had its deadline when it looked at the clock.
PoppedIsDue ==
    dpc = "evict" /\ ~LastTick(dnow) =>
        \A o \in due \cap Waiting : pending[o] + env.timeout <= dnow

IInv ==
    /\ TypeOK /\ Clocks /\ Accounted
    /\ HasRoom /\ LastBatch /\ Batched /\ Deadlines /\ PoppedIsDue

\* What the environment's numbers are.
LEMMA EnvFacts ==
    ASSUME TypeOK
    PROVE  /\ env.maxInflight \in Nat \ {0} /\ env.batchMax \in Nat \ {0}
           /\ env.interval \in Nat /\ env.taskEnd \in Nat /\ env.timeout \in Nat
           /\ DrainEnd \in Nat /\ DrainEnd < MaxTime /\ env.taskEnd <= DrainEnd
           /\ MaxTime \in Nat /\ MaxOrders \in Nat
           /\ offered \in Nat /\ now \in Nat /\ sentAt \in Nat
  BY BoundsKnown DEF TypeOK, DrainEnd

\* The pending map is finite.
LEMMA WaitingFinite ==
    ASSUME TypeOK
    PROVE  IsFiniteSet(Waiting) /\ Cardinality(Waiting) \in Nat
<1>1. offered \in Int /\ Waiting \in SUBSET (1..offered)
  BY EnvFacts DEF TypeOK
<1>2. IsFiniteSet(1..offered)
  BY <1>1, FS_Interval
<1> QED
  BY Zenon, <1>1, <1>2, FS_Subset, FS_CardinalityType

\* The entries of the expiry queue.
LEMMA QueueFacts ==
    ASSUME Clocks
    PROVE  /\ Len(queue) \in Nat /\ DOMAIN queue = 1..Len(queue)
           /\ \A i \in DOMAIN queue :
                 queue[i] \in Entry /\ queue[i].order \in Nat /\ queue[i].deadline \in Nat
<1>1. /\ Len(queue) \in Nat /\ DOMAIN queue = 1..Len(queue)
      /\ \A i \in DOMAIN queue : queue[i] \in Entry
  BY Zenon, LenProperties, ElementOfSeq DEF Clocks
<1> QED
  BY Zenon, <1>1 DEF Entry

\* The steps that move a loop and touch neither the clock nor an order.
Control ==
    \/ WriterTop \/ AwaitRoom \/ Recheck \/ Parked \/ Abandon
    \/ ReaderExits \/ Wake \/ Cancel \/ UNCHANGED vars

\* They leave the map, the queue, the batch and the popped orders alone.
LEMMA ControlFrame ==
    ASSUME Control
    PROVE  /\ UNCHANGED <<env, now, batch, sentAt, offered, nextSend, pending, queue, gauge,
                          dnow, due, acked, expired, unsent>>
           /\ wpc' # wpc => wpc' \notin {"write", "push"}
           /\ dpc' # dpc => dpc' = "look"
<1> USE DEF writerVars, watchdogVars
<1>1. CASE WriterTop BY Zenon, <1>1 DEF WriterTop
<1>2. CASE AwaitRoom BY Zenon, <1>2 DEF AwaitRoom
<1>3. CASE Recheck BY Zenon, <1>3 DEF Recheck
<1>4. CASE Parked BY Zenon, <1>4 DEF Parked
<1>5. CASE Abandon BY Zenon, <1>5 DEF Abandon
<1>6. CASE ReaderExits BY Zenon, <1>6 DEF ReaderExits
<1>7. CASE Wake BY Zenon, <1>7 DEF Wake
<1>8. CASE Cancel BY Zenon, <1>8 DEF Cancel
<1>9. CASE UNCHANGED vars BY Zenon, <1>9 DEF vars
<1> QED BY Zenon, <1>1, <1>2, <1>3, <1>4, <1>5, <1>6, <1>7, <1>8, <1>9 DEF Control

\* A step of a loop's control preserves the invariant.  Past the drain deadline the
\* writer does not get from the top of its loop to another batch.
LEMMA ControlIInv ==
    ASSUME IInv, Control
    PROVE  IInv'
<1>1. UNCHANGED <<env, now, batch, sentAt, offered, nextSend, pending, queue, gauge,
                  dnow, due, acked, expired, unsent>>
  BY Zenon, ControlFrame
<1>2. Waiting' = Waiting /\ DrainEnd' = DrainEnd
  BY Zenon, <1>1 DEF Waiting, DrainEnd
<1>3. /\ wpc' # wpc => wpc' \notin {"write", "push"}
      /\ dpc' # dpc => dpc' = "look"
  BY Zenon, ControlFrame
<1>4. TypeOK'
  <2> USE DEF IInv, TypeOK, writerVars, watchdogVars
  <2>1. CASE WriterTop BY Zenon, <1>1, <1>2, <2>1 DEF WriterTop
  <2>2. CASE AwaitRoom BY Zenon, <1>1, <1>2, <2>2 DEF AwaitRoom
  <2>3. CASE Recheck BY Zenon, <1>1, <1>2, <2>3 DEF Recheck
  <2>4. CASE Parked BY Zenon, <1>1, <1>2, <2>4 DEF Parked
  <2>5. CASE Abandon BY Zenon, <1>1, <1>2, <2>5 DEF Abandon
  <2>6. CASE ReaderExits BY Zenon, <1>1, <1>2, <2>6 DEF ReaderExits
  <2>7. CASE Wake BY Zenon, <1>1, <1>2, <2>7 DEF Wake
  <2>8. CASE Cancel BY Zenon, <1>1, <1>2, <2>8 DEF Cancel
  <2>9. CASE UNCHANGED vars BY Zenon, <1>1, <1>2, <2>9 DEF vars
  <2> QED BY Zenon, <2>1, <2>2, <2>3, <2>4, <2>5, <2>6, <2>7, <2>8, <2>9 DEF Control
<1>5. Clocks'
  BY Zenon, <1>1, <1>2 DEF IInv, Clocks
<1>6. HasRoom'
  <2>1. wpc' = "pace" => wpc = "pace" \/ ~Full
    BY Zenon
    DEF Control, WriterTop, AwaitRoom, Recheck, Parked, Abandon, ReaderExits, Wake, Cancel,
           vars, writerVars
  <2>2. Cardinality(Waiting) \in Nat /\ env.maxInflight \in Nat
    BY Zenon, WaitingFinite, EnvFacts DEF IInv
  <2> QED BY <1>1, <1>2, <2>1, <2>2 DEF IInv, HasRoom, Full
<1>7. LastBatch'
  <2>1. dpc' = "done" => dpc = "done"
    BY Zenon, <1>3
  <2>2. ASSUME dpc = "done", wpc' \in {"room", "recheck", "park", "pace"}
        PROVE  wpc \in {"room", "recheck", "park", "pace"}
    <3>1. should_stop_sending
      BY <2>2, EnvFacts DEF should_stop_sending, IInv, LastBatch
    <3> QED
      BY Zenon, <2>2, <3>1
      DEF Control, WriterTop, AwaitRoom, Recheck, Parked, Abandon, ReaderExits,
         Wake, Cancel, vars, writerVars
  <2> QED BY Zenon, <1>1, <1>2, <2>1, <2>2 DEF IInv, LastBatch
<1>8. Accounted'
  <2>1. Done' => dpc' = "done"
    BY Zenon DEF Done
  <2> QED BY Zenon, <1>1, <1>2, <1>7, <2>1 DEF IInv, Accounted, LastBatch
<1>9. Batched'
  BY Zenon, <1>1, <1>2, <1>3 DEF IInv, Batched, QueuedOrders
<1>10. Deadlines'
  BY Zenon, <1>1, <1>2, <1>3 DEF IInv, Deadlines
<1>11. PoppedIsDue'
  BY Zenon, <1>1, <1>2, <1>3 DEF IInv, PoppedIsDue, LastTick
<1> QED
  BY Zenon, <1>4, <1>5, <1>6, <1>7, <1>8, <1>9, <1>10, <1>11 DEF IInv

\* Time passes.
LEMMA TickIInv ==
    ASSUME IInv, Tick
    PROVE  IInv'
<1>1. UNCHANGED <<env, cancelled, wpc, batch, sentAt, offered, nextSend, pending, queue, permit,
                  gauge, rpc, dpc, dnow, due, wake, acked, expired, unsent>>
  BY Zenon DEF Tick, writerVars, watchdogVars
<1>2. Waiting' = Waiting /\ DrainEnd' = DrainEnd
  BY Zenon, <1>1 DEF Waiting, DrainEnd
<1>3. now' \in 0..MaxTime /\ now <= now'
  <2>1. now' = IF now + 1 <= MaxTime THEN now + 1 ELSE MaxTime
    BY EnvFacts, MinOfTwo DEF Tick, IInv
  <2> QED BY <2>1, EnvFacts DEF IInv, TypeOK
<1>4. TypeOK'
  BY Zenon, <1>1, <1>2, <1>3 DEF IInv, TypeOK
<1>5. Clocks'
  BY <1>1, <1>2, <1>3, EnvFacts DEF IInv, TypeOK, Clocks
<1>6. HasRoom' /\ Batched' /\ PoppedIsDue'
  BY Zenon, <1>1, <1>2 DEF IInv, HasRoom, Batched, QueuedOrders, PoppedIsDue, LastTick
<1>7. LastBatch'
  BY <1>1, <1>2, <1>3, EnvFacts DEF IInv, LastBatch
<1>8. Accounted'
  BY Zenon, <1>1, <1>2 DEF IInv, Accounted, Done
<1>9. Deadlines'
  <2>1. \A i \in DOMAIN queue : queue[i].deadline \in Nat
    BY Zenon, QueueFacts DEF IInv
  <2>2. \A i \in DOMAIN queue : queue[i].deadline <= now' + env.timeout
    BY <2>1, <1>3, EnvFacts DEF IInv, Deadlines
  <2> QED BY Zenon, <1>1, <1>2, <2>2 DEF IInv, Deadlines
<1> QED
  BY Zenon, <1>4, <1>5, <1>6, <1>7, <1>8, <1>9 DEF IInv

\* Taking the orders R out of the pending map.
LEMMA Removal ==
    ASSUME IInv, NEW R, pending' = Without(R)
    PROVE  /\ Waiting' = Waiting \ R
           /\ pending' \in [Waiting' -> 0..MaxTime]
           /\ \A o \in Waiting' : pending'[o] = pending[o]
           /\ IsFiniteSet(Waiting')
           /\ Cardinality(R \cap Waiting) \in Nat
           /\ Cardinality(Waiting') \in Nat
           /\ Cardinality(Waiting') = Cardinality(Waiting) - Cardinality(R \cap Waiting)
           /\ Cardinality(Waiting') <= Cardinality(Waiting)
<1>1. pending' = [o \in Waiting \ R |-> pending[o]]
  BY Zenon DEF Without, Restrict
<1>2. Waiting' = Waiting \ R
  BY Zenon, <1>1 DEF Waiting
<1>3. /\ pending' \in [Waiting' -> 0..MaxTime]
      /\ \A o \in Waiting' : pending'[o] = pending[o]
  BY Zenon, <1>1, <1>2 DEF IInv, Clocks
<1>4. IsFiniteSet(Waiting) /\ Cardinality(Waiting) \in Nat
  BY Zenon, WaitingFinite DEF IInv
<1>5. /\ IsFiniteSet(Waiting')
      /\ Cardinality(Waiting') = Cardinality(Waiting) - Cardinality(Waiting \cap R)
  BY Zenon, <1>2, <1>4, FS_Difference
<1>6. IsFiniteSet(R \cap Waiting) /\ R \cap Waiting = Waiting \cap R
  BY Zenon, <1>4, FS_Intersection
<1>7. Cardinality(R \cap Waiting) \in Nat /\ Cardinality(Waiting') \in Nat
  BY Zenon, <1>5, <1>6, FS_CardinalityType
<1> QED
  BY <1>2, <1>3, <1>4, <1>5, <1>6, <1>7

\* What is left to show of a step that takes the orders R out of the map, counts them
\* out of the gauge and records them.
LEMMA RemovalIInv ==
    ASSUME IInv, NEW R, pending' = Without(R),
           gauge' = gauge - Cardinality(R \cap Waiting),
           \/ acked' = acked \cup (R \cap Waiting) /\ UNCHANGED <<expired, unsent>>
           \/ expired' = expired \cup (R \cap Waiting) /\ UNCHANGED <<acked, unsent>>
           \/ unsent' = unsent \cup (R \cap Waiting) /\ UNCHANGED <<acked, expired>>,
           UNCHANGED <<env, now, cancelled, sentAt, offered, nextSend, queue>>,
           permit' \in BOOLEAN,
           rpc' \in {"read", "done"},
           UNCHANGED <<wpc, batch>> \/ (wpc' = "done" /\ batch' = {}),
           \/ UNCHANGED <<dpc, dnow, due>>
           \/ /\ due' = {} /\ dnow' = 0
              /\ dpc' = "sleep" \/ (dpc' = "done" /\ now >= DrainEnd /\ Waiting \subseteq R)
    PROVE  IInv'
<1>r. /\ Waiting' = Waiting \ R
      /\ pending' \in [Waiting' -> 0..MaxTime]
      /\ \A o \in Waiting' : pending'[o] = pending[o]
      /\ Cardinality(R \cap Waiting) \in Nat
      /\ Cardinality(Waiting) \in Nat
      /\ Cardinality(Waiting') \in Nat
      /\ Cardinality(Waiting') = Cardinality(Waiting) - Cardinality(R \cap Waiting)
      /\ Cardinality(Waiting') <= Cardinality(Waiting)
  BY Zenon, Removal, WaitingFinite DEF IInv
<1>e. /\ env.maxInflight \in Nat \ {0} /\ env.batchMax \in Nat \ {0} /\ env.timeout \in Nat
      /\ DrainEnd \in Nat /\ DrainEnd' = DrainEnd /\ now \in Nat /\ MaxTime \in Nat
  BY Zenon, EnvFacts DEF IInv, DrainEnd
<1>1. TypeOK'
  BY Zenon, <1>r DEF IInv, TypeOK, Accounted
<1>2. Clocks'
  BY <1>r, <1>e DEF IInv, Clocks, TypeOK
<1>3. HasRoom'
  BY <1>r, <1>e DEF IInv, HasRoom
<1>4. LastBatch'
  <2>1. CASE UNCHANGED <<dpc, dnow, due>>
    BY <2>1, <1>r, <1>e DEF IInv, LastBatch
  <2>2. CASE dpc' = "sleep"
    BY Zenon, <2>2 DEF LastBatch
  <2>3. CASE dpc' = "done" /\ now >= DrainEnd /\ Waiting \subseteq R
    <3>1. Waiting' = {} /\ Cardinality(Waiting') = 0
      BY Zenon, <2>3, <1>r, FS_EmptySet
    <3> QED BY <2>3, <3>1, <1>e DEF LastBatch
  <2> QED BY Zenon, <2>1, <2>2, <2>3
<1>5. Accounted'
  <2>1. /\ (acked \cap expired = {} /\ acked \cap unsent = {} /\ expired \cap unsent = {})'
        /\ (Waiting \cap (acked \cup expired \cup unsent) = {})'
        /\ (1..offered = Waiting \cup acked \cup expired \cup unsent)'
    BY Zenon, <1>r DEF IInv, Accounted
  <2>2. gauge' = Cardinality(Waiting') /\ gauge' < env'.maxInflight + env'.batchMax
    BY <1>r, <1>e DEF IInv, Accounted
  <2>3. Done' => dpc' = "done"
    BY Zenon DEF Done
  <2> QED BY Zenon, <2>1, <2>2, <2>3, <1>4 DEF Accounted, LastBatch
<1>6. Batched'
  BY <1>r DEF IInv, Batched, QueuedOrders
<1>7. Deadlines'
  BY Zenon, <1>r DEF IInv, Deadlines
<1>8. PoppedIsDue'
  BY Zenon, <1>r, <1>e DEF IInv, PoppedIsDue, LastTick
<1> QED
  BY Zenon, <1>1, <1>2, <1>3, <1>4, <1>5, <1>6, <1>7, <1>8 DEF IInv

\* The first answer for an order.
LEMMA AnswerIInv ==
    ASSUME IInv, NEW o \in Orders, Answer(o)
    PROVE  IInv'
<1>1. /\ o \in Waiting /\ {o} \cap Waiting = {o}
      /\ pending' = Without({o}) /\ gauge' = gauge - 1
      /\ acked' = acked \cup {o} /\ permit' = TRUE
      /\ UNCHANGED <<env, now, cancelled, wpc, batch, sentAt, offered, nextSend, queue, rpc,
                     dpc, dnow, due, expired, unsent>>
  BY Zenon DEF Answer, writerVars, watchdogVars
<1>2. gauge' = gauge - Cardinality({o} \cap Waiting)
  BY Zenon, <1>1, FS_Singleton
<1> QED
  BY Zenon, <1>1, <1>2, RemovalIInv DEF IInv, TypeOK

\* The batch withdrawn after a write error.
LEMMA WriteFailsIInv ==
    ASSUME IInv, WriteFails
    PROVE  IInv'
<1>1. /\ pending' = Without(batch) /\ gauge' = gauge - Cardinality(batch \cap Waiting)
      /\ unsent' = unsent \cup (batch \cap Waiting)
      /\ wpc' = "done" /\ batch' = {}
      /\ UNCHANGED <<env, now, cancelled, sentAt, offered, nextSend, queue, permit, rpc,
                     dpc, dnow, due, acked, expired>>
  BY Zenon DEF WriteFails, watchdogVars
<1> QED
  BY Zenon, <1>1, RemovalIInv DEF IInv, TypeOK

\* The watchdog's second lock.
LEMMA EvictIInv ==
    ASSUME IInv, Evict
    PROVE  IInv'
<1>1. /\ pending' = Without(Evicted) /\ gauge' = gauge - Cardinality(Evicted)
      /\ expired' = expired \cup Evicted
      /\ permit' = (permit \/ Evicted # {})
      /\ due' = {} /\ dnow' = 0
      /\ dpc' = IF LastTick(dnow) THEN "done" ELSE "sleep"
      /\ UNCHANGED <<env, now, cancelled, wpc, batch, sentAt, offered, nextSend, queue, rpc,
                     acked, unsent>>
  BY Zenon DEF Evict, writerVars
<1>2. Evicted \cap Waiting = Evicted
  BY Zenon DEF Evicted
<1>3. LastTick(dnow) => now >= DrainEnd /\ Waiting \subseteq Evicted
  BY EnvFacts DEF LastTick, Evicted, IInv, Clocks
<1> QED
  BY Zenon, <1>1, <1>2, <1>3, RemovalIInv DEF IInv, TypeOK

\* How many orders Collect takes from the generator.
LEMMA DueCountFacts ==
    ASSUME TypeOK
    PROVE  /\ DueCount \in Nat /\ DueCount <= env.batchMax
           /\ DueCount <= MaxOrders - offered
           /\ DueCount * env.interval \in Nat
<1> DEFINE c == IF MaxRate THEN env.batchMax
                ELSE IF nextSend > now THEN 0 ELSE (now - nextSend) \div env.interval + 1
<1>1. /\ env.batchMax \in Nat /\ env.interval \in Nat /\ MaxOrders - offered \in Nat
      /\ now \in Nat /\ nextSend \in Nat
  BY EnvFacts DEF TypeOK
<1>2. c \in Nat
  <2>1. CASE MaxRate
    BY Zenon, <2>1, <1>1
  <2>2. CASE ~MaxRate /\ nextSend > now
    BY Zenon, <2>2
  <2>3. CASE ~MaxRate /\ ~(nextSend > now)
    <3>1. env.interval \in Nat \ {0} /\ now - nextSend \in Nat
      BY <2>3, <1>1 DEF MaxRate
    <3>2. \A a \in Nat, b \in Nat \ {0} : a \div b \in Nat
      OBVIOUS
    <3> QED BY <2>3, <3>1, <3>2
  <2> QED BY Zenon, <2>1, <2>2, <2>3
<1> DEFINE a == env.batchMax
           b == MaxOrders - offered
<1>3. a \in Int /\ b \in Int /\ c \in Int
  BY <1>1, <1>2
<1>4. DueCount = Min({a, b, c})
  BY Zenon DEF DueCount
<1> HIDE DEF a, b, c
<1>5. Min({a, b, c}) \in {a, b, c} /\ Min({a, b, c}) <= a /\ Min({a, b, c}) <= b
  BY Zenon, <1>3, MinOfThree
<1>6. DueCount \in Nat /\ DueCount <= a /\ DueCount <= b
  BY Zenon, <1>1, <1>2, <1>4, <1>5 DEF a, b
<1>7. \A x, y \in Nat : x * y \in Nat
  OBVIOUS
<1> QED
  BY Zenon, <1>1, <1>6, <1>7 DEF a, b

\* A new batch enters the map.
LEMMA CollectIInv ==
    ASSUME IInv, Collect
    PROVE  IInv'
<1> DEFINE D == DueCount
           new == (offered + 1)..(offered + D)
<1>d. D \in Nat /\ D <= env.batchMax /\ D <= MaxOrders - offered /\ D * env.interval \in Nat
  BY Zenon, DueCountFacts DEF IInv
<1>e. /\ env.maxInflight \in Nat \ {0} /\ env.batchMax \in Nat \ {0} /\ env.timeout \in Nat
      /\ offered \in Nat /\ now \in Nat /\ MaxTime \in Nat /\ MaxOrders \in Nat /\ DrainEnd \in Nat
  BY Zenon, EnvFacts DEF IInv
<1>1. /\ wpc = "pace"
      /\ offered' = offered + D /\ nextSend' = nextSend + D * env.interval
      /\ pending' = [o \in new \cup Waiting |-> IF o \in new THEN now ELSE pending[o]]
      /\ gauge' = gauge + D /\ batch' = new
      /\ wpc' = IF new = {} THEN "top" ELSE "write"
      /\ UNCHANGED <<env, now, cancelled, sentAt, queue, permit, rpc, dpc, dnow, due, acked,
                     expired, unsent>>
  BY Zenon DEF Collect, watchdogVars
<1> HIDE DEF D
<1>2. DrainEnd' = DrainEnd
  BY Zenon, <1>1 DEF DrainEnd
<1>3. Waiting' = new \cup Waiting /\ new \cap (1..offered) = {} /\ new \subseteq 1..offered'
      /\ 1..offered' = (1..offered) \cup new
  <2>1. Waiting' = new \cup Waiting
    BY Zenon, <1>1 DEF Waiting
  <2> QED BY <2>1, <1>1, <1>d, <1>e
<1>4. \A o \in Waiting' : pending'[o] = IF o \in new THEN now ELSE pending[o]
  BY Zenon, <1>1, <1>3
<1>5. /\ IsFiniteSet(new) /\ Cardinality(new) = D
      /\ IsFiniteSet(Waiting) /\ Cardinality(Waiting) \in Nat
  <2>1. IsFiniteSet(new) /\ Cardinality(new) = D
    BY Zenon, <1>d, <1>e, IntervalSize
  <2> QED BY Zenon, <2>1, WaitingFinite DEF IInv
<1>6. Waiting \subseteq 1..offered /\ Waiting \cap new = {}
  BY Zenon, <1>3 DEF IInv, TypeOK
<1>7. Cardinality(Waiting') = Cardinality(Waiting) + D
  <2>1. Cardinality(Waiting') = Cardinality(new) + Cardinality(Waiting) - Cardinality(new \cap Waiting)
    BY Zenon, <1>3, <1>5, FS_Union
  <2>2. Cardinality(new \cap Waiting) = 0
    <3>1. new \cap Waiting = {} /\ Cardinality({}) = 0
      BY Zenon, <1>6, FS_EmptySet
    <3> QED BY ONLY <3>1, Zenon
  <2> QED BY <2>1, <2>2, <1>5, <1>d
<1>8. new # {} => offered + 1 \in 1..offered' /\ offered' \in 1..offered' /\ offered + 1 <= offered'
  <2>1. D = 0 => new = {}
    BY <1>e
  <2>2. D # 0 => offered + 1 <= offered'
    BY <1>1, <1>d, <1>e
  <2> QED BY <2>1, <2>2, <1>1, <1>d, <1>e
<1>9. new = (offered + 1)..offered'
  BY Zenon, <1>1
<1> HIDE DEF new
<1>10. TypeOK'
  <2>1. offered' \in 0..MaxOrders /\ nextSend' \in Nat /\ gauge' \in Nat
    BY <1>1, <1>d, <1>e DEF IInv, TypeOK
  <2>2. wpc' \in {"top", "write"}
    BY Zenon, <1>1
  <2>3. 1..offered \subseteq 1..offered'
    BY Zenon, <1>3
  <2> QED BY Zenon, <1>1, <1>3, <2>1, <2>2, <2>3 DEF IInv, TypeOK
<1>11. Clocks'
  <2>1. pending' = [o \in Waiting' |-> IF o \in new THEN now ELSE pending[o]]
    BY Zenon, <1>1, <1>3
  <2>2. \A o \in Waiting' : (IF o \in new THEN now ELSE pending[o]) \in 0..MaxTime
    BY Zenon, <1>3 DEF IInv, TypeOK, Clocks
  <2> QED BY Zenon, <2>1, <2>2, <1>1 DEF IInv, Clocks
<1>12. HasRoom'
  BY Zenon, <1>1 DEF HasRoom
<1>13. LastBatch'
  <2> SUFFICES ASSUME dpc = "done"
               PROVE  /\ now >= DrainEnd /\ Cardinality(Waiting') <= env.batchMax
                      /\ \A o \in Waiting' : pending'[o] >= DrainEnd
    BY Zenon, <1>1, <1>2 DEF LastBatch
  <2>1. Waiting = {} /\ now >= DrainEnd
    BY Zenon, <1>1 DEF IInv, LastBatch
  <2>2. Cardinality(Waiting) = 0
    BY Zenon, <2>1, FS_EmptySet
  <2> QED BY <2>1, <2>2, <1>3, <1>4, <1>7, <1>d, <1>e
<1>14. Accounted'
  <2>1. /\ (Waiting \cap (acked \cup expired \cup unsent) = {})'
        /\ (1..offered = Waiting \cup acked \cup expired \cup unsent)'
    BY Zenon, <1>1, <1>3 DEF IInv, Accounted, TypeOK
  <2>2. gauge' = Cardinality(Waiting') /\ gauge' < env.maxInflight + env.batchMax
    BY <1>1, <1>5, <1>7, <1>d, <1>e DEF IInv, Accounted, HasRoom
  <2>3. ~Done'
    BY Zenon, <1>1 DEF Done
  <2> QED BY Zenon, <1>1, <2>1, <2>2, <2>3 DEF IInv, Accounted
<1>15. Batched'
  <2>1. QueuedOrders' = QueuedOrders /\ QueuedOrders \cup due \subseteq 1..offered
    BY Zenon, <1>1 DEF IInv, TypeOK, QueuedOrders
  <2> QED BY Zenon, <1>1, <1>3, <1>8, <1>9, <2>1 DEF Batched
<1>16. Deadlines'
  BY Zenon, <1>1, <1>3, <1>4 DEF IInv, Deadlines, TypeOK
<1>17. PoppedIsDue'
  BY Zenon, <1>1, <1>2, <1>3, <1>4 DEF IInv, PoppedIsDue, TypeOK, LastTick
<1> QED
  BY Zenon, <1>10, <1>11, <1>12, <1>13, <1>14, <1>15, <1>16, <1>17 DEF IInv

\* The write returned: the stamps of the batch are refined.
LEMMA WriteOkIInv ==
    ASSUME IInv, WriteOk
    PROVE  IInv'
<1>e. env.timeout \in Nat /\ now \in Nat /\ MaxTime \in Nat /\ DrainEnd \in Nat
  BY Zenon, EnvFacts DEF IInv
<1>1. /\ wpc = "write" /\ wpc' = "push" /\ sentAt' = now
      /\ pending' = [o \in Waiting |-> IF o \in batch THEN now ELSE pending[o]]
      /\ UNCHANGED <<env, now, cancelled, batch, offered, nextSend, queue, permit, gauge, rpc,
                     dpc, dnow, due, acked, expired, unsent>>
  BY Zenon DEF WriteOk, watchdogVars
<1>2. DrainEnd' = DrainEnd /\ Waiting' = Waiting /\ QueuedOrders' = QueuedOrders
  BY Zenon, <1>1 DEF DrainEnd, Waiting, QueuedOrders
<1>3. \A o \in Waiting : pending'[o] = IF o \in batch THEN now ELSE pending[o]
  BY Zenon, <1>1
<1>4. TypeOK'
  BY Zenon, <1>1, <1>2 DEF IInv, TypeOK
<1>5. Clocks'
  <2>1. pending' \in [Waiting -> 0..MaxTime]
    BY Zenon, <1>1 DEF IInv, TypeOK, Clocks
  <2> QED BY <2>1, <1>1, <1>2, <1>e DEF IInv, Clocks
<1>6. HasRoom' /\ Accounted'
  BY Zenon, <1>1, <1>2 DEF IInv, HasRoom, Accounted, Done
<1>7. LastBatch'
  BY Zenon, <1>1, <1>2, <1>3 DEF IInv, LastBatch
<1>8. Batched'
  BY Zenon, <1>1, <1>2, <1>3 DEF IInv, Batched
<1>9. \A i \in DOMAIN queue : queue[i].order \notin batch
  BY Zenon, <1>1 DEF IInv, Batched, QueuedOrders
<1>10. Deadlines'
  BY Zenon, <1>1, <1>2, <1>3, <1>9 DEF IInv, Deadlines
<1>11. PoppedIsDue'
  BY Zenon, <1>1, <1>2, <1>3 DEF IInv, PoppedIsDue, Batched, LastTick
<1> QED
  BY Zenon, <1>4, <1>5, <1>6, <1>7, <1>8, <1>10, <1>11 DEF IInv

\* A run of orders starts with its least and has as many as lie between its ends.
LEMMA RunOfOrders ==
    ASSUME NEW a \in Nat, NEW b \in Nat, a <= b
    PROVE  Min(a..b) = a /\ Cardinality(a..b) = b - a + 1
<1>1. a \in a..b /\ \A y \in a..b : a <= y
  OBVIOUS
<1>2. Min(a..b) \in a..b /\ \A y \in a..b : Min(a..b) <= y
  BY Zenon, <1>1 DEF Min
<1>3. Cardinality(a..b) = b - a + 1
  BY FS_Interval
<1> QED
  BY <1>1, <1>2, <1>3

\* The expiry queue learns of the batch: deadlines never decrease along it, because the
\* write that returned last has the latest stamp.
LEMMA PushExpiryIInv ==
    ASSUME IInv, PushExpiry
    PROVE  IInv'
<1>e. /\ env.timeout \in Nat /\ now \in Nat /\ sentAt \in Nat /\ DrainEnd \in Nat
      /\ offered \in Nat /\ sentAt <= now /\ MaxTime \in Nat
  BY Zenon, EnvFacts DEF IInv, Clocks
<1>1. /\ wpc = "push" /\ wpc' = "top" /\ batch' = {} /\ sentAt' = 0
      /\ UNCHANGED <<env, now, cancelled, offered, nextSend, pending, permit, gauge, rpc,
                     dpc, dnow, due, acked, expired, unsent>>
  BY Zenon DEF PushExpiry, watchdogVars
<1>q. queue' = queue \o Entries(sentAt + env.timeout)
  BY Zenon DEF PushExpiry
<1>2. DrainEnd' = DrainEnd /\ Waiting' = Waiting
  BY Zenon, <1>1 DEF DrainEnd, Waiting
<1>3. PICK a, b \in 1..offered : a <= b /\ batch = a..b
  BY Zenon, <1>1 DEF IInv, Batched
<1> DEFINE es == Entries(sentAt + env.timeout)
           n == b - a + 1
<1>4. es = [i \in 1..n |-> [order |-> a + i - 1, deadline |-> sentAt + env.timeout]]
  <2>1. Min(batch) = a /\ Cardinality(batch) = n
    BY <1>3, <1>e, RunOfOrders
  <2> QED BY Zenon, <2>1 DEF Entries
<1>5. n \in Nat /\ \A i \in 1..n : a + i - 1 \in batch /\ a + i - 1 \in Nat
  BY <1>3, <1>e
<1> HIDE DEF es, n
<1>6. es \in Seq(Entry) /\ Len(es) = n
  <2>1. \A i \in 1..n : [order |-> a + i - 1, deadline |-> sentAt + env.timeout] \in Entry
    BY <1>5, <1>e DEF Entry
  <2>2. es \in [1..n -> Entry]
    BY Zenon, <1>4, <2>1
  <2> QED BY <1>5, <2>2
<1>7. \A i \in 1..n : es[i].order \in batch /\ es[i].deadline = sentAt + env.timeout
  BY Zenon, <1>4, <1>5
<1>8. queue \in Seq(Entry) /\ Len(queue) \in Nat /\ DOMAIN queue = 1..Len(queue)
  BY Zenon, QueueFacts DEF IInv, Clocks
<1>9. /\ queue' \in Seq(Entry) /\ DOMAIN queue' = 1..(Len(queue) + n)
      /\ \A i \in 1..(Len(queue) + n) :
            queue'[i] = IF i <= Len(queue) THEN queue[i] ELSE es[i - Len(queue)]
  <2>1. queue' = queue \o es
    BY Zenon, <1>q DEF es
  <2>2. /\ queue \o es \in Seq(Entry)
        /\ Len(queue \o es) = Len(queue) + Len(es)
        /\ \A i \in 1..(Len(queue) + Len(es)) :
              (queue \o es)[i] = IF i <= Len(queue) THEN queue[i] ELSE es[i - Len(queue)]
    BY ONLY <1>6, <1>8, ConcatProperties, Zenon
  <2>3. DOMAIN (queue \o es) = 1..Len(queue \o es)
    BY Zenon, <2>2, LenProperties
  <2> QED BY Zenon, <2>1, <2>2, <2>3, <1>5, <1>6, <1>8
<1>10. \A i \in DOMAIN queue' :
          \/ i \in DOMAIN queue /\ queue'[i] = queue[i]
          \/ /\ i > Len(queue)
             /\ queue'[i].order \in batch /\ queue'[i].deadline = sentAt + env.timeout
  <2> SUFFICES ASSUME NEW i \in DOMAIN queue', i > Len(queue)
               PROVE  /\ queue'[i].order \in batch /\ queue'[i].deadline = sentAt + env.timeout
    BY <1>8, <1>9
  <2>1. i - Len(queue) \in 1..n /\ queue'[i] = es[i - Len(queue)]
    BY <1>5, <1>8, <1>9
  <2> QED BY Zenon, <2>1, <1>7
<1>11. TypeOK'
  <2>1. \A i \in DOMAIN queue' : queue'[i].order \in 1..offered
    BY Zenon, <1>10 DEF IInv, TypeOK
  <2> QED BY <1>1, <1>2, <1>e, <2>1 DEF IInv, TypeOK
<1>12. Clocks'
  BY <1>1, <1>2, <1>9, <1>e DEF IInv, Clocks
<1>13. HasRoom' /\ Accounted' /\ LastBatch' /\ Batched'
  BY Zenon, <1>1, <1>2 DEF IInv, HasRoom, Accounted, LastBatch, Batched, Done
<1>14. Deadlines'
  <2>1. \A i \in DOMAIN queue' : /\ queue'[i].deadline <= now + env.timeout
                                 /\ i \in DOMAIN queue => queue'[i] = queue[i]
                                 /\ queue'[i].deadline <= sentAt + env.timeout
    BY <1>1, <1>8, <1>10, <1>e DEF IInv, Deadlines
  <2>2. \A i \in DOMAIN queue' :
           queue'[i].order \in Waiting => pending[queue'[i].order] + env.timeout <= queue'[i].deadline
    <3> SUFFICES ASSUME NEW i \in DOMAIN queue', queue'[i].order \in Waiting
                 PROVE  pending[queue'[i].order] + env.timeout <= queue'[i].deadline
      BY Zenon
    <3>1. CASE i \in DOMAIN queue /\ queue'[i] = queue[i]
      BY Zenon, <3>1 DEF IInv, Deadlines
    <3>2. CASE queue'[i].order \in batch /\ queue'[i].deadline = sentAt + env.timeout
      BY <3>2, <1>1, <1>e DEF IInv, Batched
    <3> QED BY Zenon, <3>1, <3>2, <1>10
  <2>3. ASSUME NEW i \in DOMAIN queue', NEW j \in DOMAIN queue', i <= j
        PROVE  queue'[i].deadline <= queue'[j].deadline
    <3>1. CASE j \in DOMAIN queue
      <4>1. i \in DOMAIN queue
        BY <1>8, <1>9, <2>3, <3>1
      <4> QED BY Zenon, <4>1, <3>1, <2>1, <2>3 DEF IInv, Deadlines
    <3>2. CASE j \notin DOMAIN queue
      BY Zenon, <3>2, <2>1, <1>10
    <3> QED BY Zenon, <3>1, <3>2
  <2> QED BY Zenon, <1>1, <1>2, <2>1, <2>2, <2>3 DEF Deadlines
<1>15. PoppedIsDue'
  BY Zenon, <1>1, <1>2 DEF IInv, PoppedIsDue, LastTick
<1> QED
  BY Zenon, <1>11, <1>12, <1>13, <1>14, <1>15 DEF IInv

\* Popping from the front takes the longest prefix of entries that are due.
LEMMA DueLengthFacts ==
    ASSUME Clocks, NEW t \in Nat
    PROVE  /\ DueLength(t) \in 0..Len(queue)
           /\ \A i \in 1..DueLength(t) : IsDue(queue[i], t)
           /\ DueLength(t) < Len(queue) => ~IsDue(queue[DueLength(t) + 1], t)
<1> DEFINE due_(i) == IsDue(queue[i], t)
           N == Len(queue)
           S == {0} \cup {n \in 1..N : \A i \in 1..n : due_(i)}
           B == {n \in 1..N : ~due_(n)}
<1>1. DueLength(t) = Max(S)
  BY Zenon DEF DueLength
<1>2. N \in Nat
  BY Zenon, QueueFacts
<1> HIDE DEF due_, N
<1>3. \E x \in S : \A y \in S : x >= y
  <2>1. CASE B = {}
    <3>1. N \in S
      BY <2>1, <1>2
    <3>2. \A y \in S : N >= y
      BY <1>2
    <3> QED BY Zenon, <3>1, <3>2
  <2>2. CASE B # {}
    <3>1. PICK n \in B : \A m \in B : n <= m
      <4>1. B \in SUBSET Nat
        BY <1>2
      <4> QED BY Zenon, <2>2, <4>1, LeastNatural
    <3>2. n - 1 \in S
      BY <1>2, <3>1
    <3>3. ASSUME NEW y \in S
          PROVE  n - 1 >= y
      BY <1>2, <3>1
    <3> QED BY Zenon, <3>2, <3>3
  <2> QED BY Zenon, <2>1, <2>2
<1>4. DueLength(t) \in S /\ \A y \in S : DueLength(t) >= y
  <2>1. Max(S) \in S /\ \A y \in S : Max(S) >= y
    BY Zenon, <1>3 DEF Max
  <2> QED BY Zenon, <1>1, <2>1
<1>5. DueLength(t) \in 0..N /\ \A i \in 1..DueLength(t) : due_(i)
  BY <1>2, <1>4
<1>6. ASSUME DueLength(t) < N, due_(DueLength(t) + 1)
      PROVE  FALSE
  <2>1. \A i \in 1..(DueLength(t) + 1) : i \in 1..DueLength(t) \/ i = DueLength(t) + 1
    BY <1>2, <1>5
  <2>2. DueLength(t) + 1 \in S
    BY <1>2, <1>5, <1>6, <2>1
  <2> QED BY <1>2, <1>4, <1>5, <2>2
<1> QED
  BY Zenon, <1>5, <1>6 DEF due_, N

\* What a look of the watchdog takes and leaves: the entries that stay are a suffix, in
\* order, and none of them is due.
LEMMA LookFacts ==
    ASSUME IInv, Look
    PROVE  /\ queue' \in Seq(Entry)
           /\ \A i \in DOMAIN queue' :
                 /\ i + DueLength(now) \in DOMAIN queue
                 /\ queue'[i] = queue[i + DueLength(now)]
                 /\ queue'[i].deadline > now
           /\ \A o \in due' : \E i \in DOMAIN queue : queue[i].order = o /\ IsDue(queue[i], now)
<1> DEFINE L == DueLength(now)
           N == Len(queue)
<1>1. now \in Nat /\ Clocks
  BY Zenon, EnvFacts DEF IInv
<1>2. /\ N \in Nat /\ DOMAIN queue = 1..N
      /\ \A i \in DOMAIN queue : queue[i] \in Entry /\ queue[i].deadline \in Nat
  BY Zenon, <1>1, QueueFacts
<1>3. /\ L \in 0..N
      /\ \A i \in 1..L : IsDue(queue[i], now)
      /\ L < N => ~IsDue(queue[L + 1], now)
  BY Zenon, <1>1, DueLengthFacts
<1>4. queue' = SubSeq(queue, L + 1, N) /\ due' = {queue[i].order : i \in 1..L}
  BY Zenon DEF Look
<1> HIDE DEF L, N
<1>5. /\ SubSeq(queue, L + 1, N) \in Seq(Entry)
      /\ Len(SubSeq(queue, L + 1, N)) = N - L
      /\ \A i \in 1..(N - L) : SubSeq(queue, L + 1, N)[i] = queue[i + L]
  <2> DEFINE m == L + 1
  <2>1. m \in Int /\ N \in Int /\ \A i \in m..N : queue[i] \in Entry
    BY <1>2, <1>3
  <2>2. N - m + 1 = N - L /\ (IF m <= N THEN N - m + 1 ELSE 0) = N - L
    BY <1>2, <1>3
  <2>3. \A i \in 1..(N - L) : m + i - 1 = i + L
    BY <1>2, <1>3
  <2> HIDE DEF m
  <2>4. /\ SubSeq(queue, m, N) \in Seq(Entry)
        /\ Len(SubSeq(queue, m, N)) = IF m <= N THEN N - m + 1 ELSE 0
        /\ \A i \in 1..(N - m + 1) : SubSeq(queue, m, N)[i] = queue[m + i - 1]
    BY ONLY <2>1, SubSeqProperties
  <2>5. /\ SubSeq(queue, m, N) \in Seq(Entry)
        /\ Len(SubSeq(queue, m, N)) = N - L
        /\ \A i \in 1..(N - L) : SubSeq(queue, m, N)[i] = queue[i + L]
    BY ONLY <2>2, <2>3, <2>4, Zenon
  <2> QED BY Zenon, <2>5 DEF m
<1>6. queue' \in Seq(Entry) /\ DOMAIN queue' = 1..(N - L)
  <2>1. queue' \in Seq(Entry) /\ Len(queue') = N - L
    BY Zenon, <1>4, <1>5
  <2> QED BY Zenon, <2>1, LenProperties
<1>7. ASSUME NEW i \in DOMAIN queue'
      PROVE  i + L \in DOMAIN queue /\ queue'[i] = queue[i + L] /\ queue'[i].deadline > now
  <2>1. i + L \in 1..N /\ L + 1 \in 1..N /\ L + 1 <= i + L /\ L < N
    BY <1>2, <1>3, <1>6
  <2>2. queue'[i] = queue[i + L]
    BY Zenon, <1>4, <1>5, <1>6
  <2>3. queue[L + 1].deadline <= queue[i + L].deadline
    BY Zenon, <1>2, <2>1 DEF IInv, Deadlines
  <2>4. queue[L + 1].deadline > now
    BY <1>1, <1>2, <1>3, <2>1 DEF IsDue
  <2> QED BY <1>1, <1>2, <2>1, <2>2, <2>3, <2>4
<1>8. \A o \in due' : \E i \in DOMAIN queue : queue[i].order = o /\ IsDue(queue[i], now)
  BY <1>2, <1>3, <1>4
<1> QED
  BY Zenon, <1>6, <1>7, <1>8 DEF L

\* The watchdog looks at the clock and pops what is due.
LEMMA LookIInv ==
    ASSUME IInv, Look
    PROVE  IInv'
<1>1. /\ dpc = "look" /\ dpc' = "evict" /\ dnow' = now
      /\ UNCHANGED <<env, now, cancelled, wpc, batch, sentAt, offered, nextSend, pending, permit,
                     gauge, rpc, acked, expired, unsent>>
  BY Zenon DEF Look, writerVars
<1>2. DrainEnd' = DrainEnd /\ Waiting' = Waiting
  BY Zenon, <1>1 DEF DrainEnd, Waiting
<1> DEFINE L == DueLength(now)
<1>3. /\ queue' \in Seq(Entry)
      /\ \A i \in DOMAIN queue' : i + L \in DOMAIN queue /\ queue'[i] = queue[i + L]
      /\ \A o \in due' : \E i \in DOMAIN queue : queue[i].order = o /\ IsDue(queue[i], now)
  BY Zenon, LookFacts
<1>e. /\ env.timeout \in Nat /\ now \in Nat
      /\ DOMAIN queue \subseteq Nat /\ DOMAIN queue' \subseteq Nat /\ L \in Nat
      /\ \A i \in DOMAIN queue : queue[i].deadline \in Nat
  <2>1. DOMAIN queue' = 1..Len(queue') /\ Len(queue') \in Nat
    BY Zenon, <1>3, LenProperties
  <2>2. L \in 0..Len(queue) /\ now \in Nat /\ env.timeout \in Nat
    BY Zenon, EnvFacts, DueLengthFacts DEF IInv
  <2> QED BY <2>1, <2>2, QueueFacts DEF IInv
<1> HIDE DEF L
<1>4. QueuedOrders' \subseteq QueuedOrders /\ due' \subseteq QueuedOrders
  BY <1>3 DEF QueuedOrders
<1>5. TypeOK'
  <2>1. (\A i \in DOMAIN queue' : queue'[i].order \in 1..offered) /\ due' \subseteq 1..offered
    BY Zenon, <1>3 DEF IInv, TypeOK
  <2> QED BY Zenon, <1>1, <1>2, <2>1 DEF IInv, TypeOK
<1>6. Clocks'
  BY <1>1, <1>2, <1>3, <1>e DEF IInv, Clocks, TypeOK
<1>7. HasRoom' /\ Accounted' /\ LastBatch'
  BY Zenon, <1>1, <1>2 DEF IInv, HasRoom, Accounted, LastBatch, Done
<1>8. Batched'
  BY Zenon, <1>1, <1>2, <1>4 DEF IInv, Batched
<1>9. Deadlines'
  <2>1. ASSUME NEW i \in DOMAIN queue', NEW j \in DOMAIN queue', i <= j
        PROVE  queue'[i].deadline <= queue'[j].deadline
    <3>1. i + L <= j + L
      BY <1>e, <2>1
    <3> QED BY Zenon, <3>1, <1>3 DEF IInv, Deadlines
  <2>2. \A i \in DOMAIN queue' :
          /\ queue'[i].deadline <= now + env.timeout
          /\ wpc = "push" => queue'[i].deadline <= sentAt + env.timeout
          /\ queue'[i].order \in Waiting => pending[queue'[i].order] + env.timeout <= queue'[i].deadline
    BY Zenon, <1>3 DEF IInv, Deadlines
  <2> QED BY Zenon, <1>1, <1>2, <2>1, <2>2 DEF Deadlines
<1>10. PoppedIsDue'
  <2> SUFFICES ASSUME ~LastTick(now), NEW o \in due' \cap Waiting
               PROVE  pending[o] + env.timeout <= now
    BY Zenon, <1>1, <1>2 DEF PoppedIsDue, LastTick
  <2>1. PICK i \in DOMAIN queue : queue[i].order = o /\ queue[i].deadline <= now
    BY Zenon, <1>3 DEF IsDue
  <2>2. pending[o] \in Nat /\ pending[o] + env.timeout <= queue[i].deadline
    BY <2>1 DEF IInv, Deadlines, Clocks
  <2> QED BY <2>1, <2>2, <1>e
<1> QED
  BY Zenon, <1>5, <1>6, <1>7, <1>8, <1>9, <1>10 DEF IInv

-----------------------------------------------------------------------------
(* The theorems. *)

\* The invariant holds initially.
LEMMA InitIInv ==
    ASSUME Init
    PROVE  IInv
<1>1. /\ pending = <<>> /\ queue = <<>> /\ offered = 0 /\ Waiting = {} /\ QueuedOrders = {}
  BY DEF Init, Waiting, QueuedOrders
<1>2. Cardinality(Waiting) = 0 /\ env.maxInflight \in Nat \ {0} /\ env.batchMax \in Nat \ {0}
      /\ MaxTime \in Nat /\ MaxOrders \in Nat
  BY Zenon, <1>1, FS_EmptySet, BoundsKnown DEF Init
<1>3. pending \in [Waiting -> 0..MaxTime] /\ queue \in Seq(Entry) /\ DOMAIN queue = {}
  BY <1>1
<1>4. TypeOK /\ Clocks
  <2>1. \A i \in DOMAIN queue : queue[i].order \in 1..offered
    BY Zenon, <1>3
  <2>2. cancelled \in BOOLEAN /\ permit \in BOOLEAN
    BY Zenon DEF Init
  <2>3. Clocks
    BY <1>2, <1>3 DEF Init, Clocks
  <2>4. TypeOK
    BY <1>1, <1>2, <2>1, <2>2 DEF Init, TypeOK
  <2> QED BY Zenon, <2>3, <2>4
<1>5. Accounted /\ HasRoom /\ LastBatch /\ Batched /\ PoppedIsDue
  BY <1>1, <1>2 DEF Init, Accounted, HasRoom, LastBatch, Batched, PoppedIsDue, Done
<1>6. Deadlines
  BY Zenon, <1>3 DEF Deadlines
<1> QED
  BY Zenon, <1>4, <1>5, <1>6 DEF IInv

\* Every step of the three loops, of the clock and of shutdown keeps the invariant.
LEMMA NextIInv ==
    ASSUME IInv, [Next]_vars
    PROVE  IInv'
<1>1. CASE Control
  BY Zenon, <1>1, ControlIInv
<1>2. CASE Collect
  BY Zenon, <1>2, CollectIInv
<1>3. CASE WriteOk
  BY Zenon, <1>3, WriteOkIInv
<1>4. CASE PushExpiry
  BY Zenon, <1>4, PushExpiryIInv
<1>5. CASE WriteFails
  BY Zenon, <1>5, WriteFailsIInv
<1>6. CASE \E o \in Orders : Answer(o)
  BY Zenon, <1>6, AnswerIInv
<1>7. CASE Look
  BY Zenon, <1>7, LookIInv
<1>8. CASE Evict
  BY Zenon, <1>8, EvictIInv
<1>9. CASE Tick
  BY Zenon, <1>9, TickIInv
<1> QED
  BY Zenon, <1>1, <1>2, <1>3, <1>4, <1>5, <1>6, <1>7, <1>8, <1>9
  DEF Next, Writer, Reader, Watchdog, Control, Returned

\* The inductive invariant of one bot task.
THEOREM Invariance == Spec => []IInv
<1>1. Init => IInv
  BY Zenon, InitIInv
<1>2. IInv /\ [Next]_vars => IInv'
  BY Zenon, NextIInv
<1> QED
  BY <1>1, <1>2, PTL DEF Spec

\* Whatever the cap, the batch size, the schedule and the timeout, every order of a task
\* has one verdict, the inflight gauge counts the pending map, the map overshoots its cap
\* by less than a batch, and a task that returned leaves at most one late batch behind.
THEOREM OrdersAccounted == Spec => []Accounted
<1>1. IInv => Accounted
  BY Zenon DEF IInv
<1> QED
  BY <1>1, Invariance, PTL

\* The stamp that a timed out order was judged by had passed its timeout when the
\* watchdog removed it, unless the run was over.
LEMMA EvictOnTime ==
    ASSUME IInv, Evict, NEW o \in expired' \ expired
    PROVE  LastTick(now) \/ now >= pending[o] + env.timeout
<1>1. dpc = "evict" /\ o \in Evicted
  BY Zenon DEF Evict
<1>e. dnow \in Nat /\ now \in Nat /\ dnow <= now /\ DrainEnd \in Nat /\ env.timeout \in Nat
  BY EnvFacts DEF IInv, Clocks
<1>2. CASE LastTick(dnow)
  BY <1>2, <1>e DEF LastTick
<1>3. CASE ~LastTick(dnow)
  <2>1. o \in due \cap Waiting
    BY Zenon, <1>1, <1>3 DEF Evicted
  <2>2. pending[o] \in Nat /\ pending[o] + env.timeout <= dnow
    BY <1>1, <1>3, <2>1 DEF IInv, PoppedIsDue, Clocks
  <2> QED BY <2>2, <1>e
<1> QED
  BY Zenon, <1>2, <1>3

\* Only the watchdog's eviction reports timeouts.
LEMMA OnlyEvictExpires ==
    ASSUME [Next]_vars, expired' # expired
    PROVE  Evict
<1> USE DEF writerVars, watchdogVars
<1>1. ASSUME Writer PROVE FALSE
  BY Zenon, <1>1 DEF Writer, WriterTop, AwaitRoom, Recheck, Parked, Collect, Abandon, WriteOk,
              PushExpiry, WriteFails
<1>2. ASSUME Reader PROVE FALSE
  BY Zenon, <1>2 DEF Reader, Answer, ReaderExits
<1>3. ASSUME Look \/ Wake \/ Tick \/ Cancel \/ Returned \/ UNCHANGED vars PROVE FALSE
  BY Zenon, <1>3 DEF Look, Wake, Tick, Cancel, Returned, vars
<1> QED
  BY Zenon, <1>1, <1>2, <1>3 DEF Next, Watchdog

\* A pass over the front of the expiry queue misses no deadline, and no order is timed
\* out before RESPONSE_TIMEOUT_NS has passed since its write returned, whatever the
\* interleaving of writes, answers and stalls.
THEOREM NoTimeoutLateOrEarly == Spec => TimeoutsOnTime
<1> DEFINE Step ==
      /\ Look => \A i \in DOMAIN queue' : queue'[i].deadline > now
      /\ \A o \in expired' \ expired : LastTick(now) \/ now >= pending[o] + env.timeout
<1>1. IInv /\ [Next]_vars => [Step]_vars
  BY Zenon, LookFacts, EvictOnTime, OnlyEvictExpires
<1> HIDE DEF Step
<1>2. Spec => [][Step]_vars
  BY <1>1, Invariance, PTL DEF Spec
<1> QED
  BY Zenon, <1>2 DEF TimeoutsOnTime, Step
=============================================================================
