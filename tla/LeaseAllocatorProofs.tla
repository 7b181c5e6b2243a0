------------------------ MODULE LeaseAllocatorProofs ------------------------
(***************************************************************************)
(* Proofs about LeaseAllocator for every set of indices, every set of      *)
(* sessions and every set of counts.                                       *)
(***************************************************************************)
EXTENDS LeaseAllocator, FiniteSetTheorems, SequenceTheorems, TLAPS

\* A queue whose waiters are distinct sessions.
Distinct(q) == \A i, j \in DOMAIN q : q[i].session = q[j].session => i = j

\* The arguments serveQueueLocked is called with: a partition of the indices
\* into the pool f and the leases l, and a queue of sessions that have neither
\* a lease nor a grant.
Servable(f, l, q, g) ==
    /\ f \subseteq Partitions
    /\ l \in [Sessions -> SUBSET Partitions]
    /\ q \in Seq(Waiter)
    /\ g \in [Sessions -> SUBSET Partitions]
    /\ \A s, t \in Sessions : s # t => l[s] \cap l[t] = {}
    /\ \A s \in Sessions : l[s] \cap f = {}
    /\ f \cup UNION {l[s] : s \in Sessions} = Partitions
    /\ Distinct(q)
    /\ \A i \in DOMAIN q : l[q[i].session] = {} /\ g[q[i].session] = {}

\* What it leaves of one session's state.
Served(s, q) ==
    /\ InQueue(q, s)
    /\ leasedBy'[s] # {}
    /\ grant'[s] = leasedBy'[s]
    /\ ~InQueue(queue', s)
Kept(s, l, q, g) ==
    /\ leasedBy'[s] = l[s]
    /\ grant'[s] = g[s]
    /\ InQueue(queue', s) <=> InQueue(q, s)

\* A lease of a positive number of indices is not empty.
LEMMA TakesNonEmpty ==
    ASSUME NEW f \in SUBSET Partitions, NEW n \in Nat \ {0}, NEW P \in Takes(f, n)
    PROVE  P # {} /\ P \subseteq f
  BY FS_EmptySet DEF Takes

\* The suffix of a queue that serveQueueLocked leaves.
LEMMA SuffixOf ==
    ASSUME NEW q \in Seq(Waiter), NEW k \in 0..Len(q)
    PROVE  /\ SubSeq(q, k + 1, Len(q)) \in Seq(Waiter)
           /\ Len(SubSeq(q, k + 1, Len(q))) = Len(q) - k
           /\ \A i \in 1..(Len(q) - k) : SubSeq(q, k + 1, Len(q))[i] = q[k + i]
<1>1. k + 1 \in 1..(Len(q) + 1) /\ Len(q) \in Nat
  BY LenProperties
<1>2. \A i \in (k+1)..Len(q) : q[i] \in Waiter
  BY <1>1, ElementOfSeq
<1> DEFINE r == SubSeq(q, k + 1, Len(q))
<1>3. /\ r \in Seq(Waiter)
      /\ Len(r) = IF k + 1 <= Len(q) THEN Len(q) - (k + 1) + 1 ELSE 0
      /\ \A i \in 1..(Len(q) - (k + 1) + 1) : r[i] = q[k + 1 + i - 1]
  BY <1>1, <1>2, SubSeqProperties
<1> HIDE DEF r
<1>4. Len(r) = Len(q) - k /\ \A i \in 1..(Len(q) - k) : r[i] = q[k + i]
  BY <1>1, <1>3
<1> QED
  BY <1>3, <1>4 DEF r

\* The queue without its i-th waiter, as the ctx.Done branch builds it.
LEMMA WithoutProperties ==
    ASSUME NEW q \in Seq(Waiter), NEW i \in 1..Len(q)
    PROVE  /\ Without(q, i) \in Seq(Waiter)
           /\ Len(Without(q, i)) = Len(q) - 1
           /\ \A j \in 1..(Len(q) - 1) :
                 Without(q, i)[j] = IF j < i THEN q[j] ELSE q[j + 1]
<1> DEFINE a == SubSeq(q, 1, i - 1)
           b == SubSeq(q, i + 1, Len(q))
           n == Len(q)
<1>1. n \in Nat /\ i \in Nat /\ 1 <= i /\ i <= n
  BY LenProperties
<1>2. \A j \in 1..n : q[j] \in Waiter
  BY ElementOfSeq
<1>3. a \in Seq(Waiter) /\ Len(a) = i - 1 /\ \A j \in 1..(i - 1) : a[j] = q[j]
  <2>1. /\ a \in Seq(Waiter)
        /\ Len(a) = IF 1 <= i - 1 THEN (i - 1) - 1 + 1 ELSE 0
        /\ \A j \in 1..((i - 1) - 1 + 1) : a[j] = q[1 + j - 1]
    BY <1>1, <1>2, SubSeqProperties
  <2> QED BY <2>1, <1>1
<1>4. b \in Seq(Waiter) /\ Len(b) = n - i /\ \A j \in 1..(n - i) : b[j] = q[i + j]
  BY <1>1, SuffixOf
<1> HIDE DEF a, b, n
<1>5. /\ a \o b \in Seq(Waiter)
      /\ Len(a \o b) = (i - 1) + (n - i)
      /\ \A j \in 1..((i - 1) + (n - i)) :
            (a \o b)[j] = IF j <= i - 1 THEN a[j] ELSE b[j - (i - 1)]
  <2>1. /\ a \o b \in Seq(Waiter)
        /\ Len(a \o b) = Len(a) + Len(b)
        /\ \A j \in 1..(Len(a) + Len(b)) :
              (a \o b)[j] = IF j <= Len(a) THEN a[j] ELSE b[j - Len(a)]
    BY <1>3, <1>4, ConcatProperties
  <2>2. Len(a) = i - 1 /\ Len(b) = n - i
    BY <1>3, <1>4
  <2> QED BY ONLY <2>1, <2>2
<1> DEFINE r == a \o b
<1> HIDE DEF r
<1>6. r \in Seq(Waiter) /\ Len(r) = n - 1
  BY <1>1, <1>5 DEF r
<1>7. ASSUME NEW j \in 1..(n - 1)
      PROVE  r[j] = IF j < i THEN q[j] ELSE q[j + 1]
  <2>1. j \in 1..((i - 1) + (n - i))
    BY <1>1
  <2>2. r[j] = IF j <= i - 1 THEN a[j] ELSE b[j - (i - 1)]
    BY <2>1, <1>5 DEF r
  <2>3. CASE j < i
    BY <2>2, <2>3, <1>1, <1>3
  <2>4. CASE ~(j < i)
    <3>1. j - (i - 1) \in 1..(n - i) /\ ~(j <= i - 1) /\ i + (j - (i - 1)) = j + 1
      BY <2>4, <1>1
    <3>2. b[j - (i - 1)] = q[j + 1]
      BY <3>1, <1>4
    <3> QED BY <2>2, <2>4, <3>1, <3>2
  <2> QED BY <2>3, <2>4
<1>8. Without(q, i) = r
  BY DEF Without, r, a, b
<1> QED
  BY <1>6, <1>7, <1>8 DEF n

\* serveQueueLocked keeps the pool and the leases a partition of the indices,
\* gives a session either a fresh non-empty lease with the same grant or
\* nothing, and stops only at a head that does not fit.
LEMMA ServeQueueLemma ==
    ASSUME NEW f, NEW l, NEW q, NEW g, Servable(f, l, q, g), ServeQueue(f, l, q, g)
    PROVE  /\ free' \subseteq f
           /\ leasedBy' \in [Sessions -> SUBSET Partitions]
           /\ grant' \in [Sessions -> SUBSET Partitions]
           /\ queue' \in Seq(Waiter)
           /\ Exclusive'
           /\ Conserved'
           /\ Distinct(queue')
           /\ \A s \in Sessions : Served(s, q) \/ Kept(s, l, q, g)
           /\ NoIdleCapacity'
<1> USE DEF Servable
<1>0. PICK k \in 0..Len(q) :
        \E parts \in [1..k -> SUBSET f] : ServeFirst(k, parts, f, l, q, g)
  BY DEF ServeQueue
<1>1. PICK parts \in [1..k -> SUBSET f] : ServeFirst(k, parts, f, l, q, g)
  BY <1>0
<1> DEFINE taken == UNION {parts[i] : i \in 1..k}
           At(s) == CHOOSE i \in 1..k : q[i].session = s
           InPrefix(s) == \E i \in 1..k : q[i].session = s
<1>2. /\ \A i \in 1..k : parts[i] \in Takes(f, q[i].count)
      /\ \A i, j \in 1..k : i # j => parts[i] \cap parts[j] = {}
      /\ k < Len(q) => Cardinality(f \ taken) < q[k + 1].count
      /\ free' = f \ taken
      /\ leasedBy' = [s \in Sessions |-> IF InPrefix(s) THEN parts[At(s)] ELSE l[s]]
      /\ grant' = [s \in Sessions |-> IF InPrefix(s) THEN parts[At(s)] ELSE g[s]]
      /\ queue' = SubSeq(q, k + 1, Len(q))
  BY <1>1 DEF ServeFirst
<1>3. Len(q) \in Nat /\ DOMAIN q = 1..Len(q) /\ k \in Nat /\ k <= Len(q)
  BY LenProperties
<1>4. \A i \in 1..Len(q) : q[i] \in Waiter /\ q[i].session \in Sessions /\ q[i].count \in Nat \ {0}
  <2>1. \A i \in 1..Len(q) : q[i] \in Waiter
    BY ElementOfSeq
  <2> QED BY <2>1 DEF Waiter
<1>5. \A i \in 1..k : parts[i] # {} /\ parts[i] \subseteq f
  <2> SUFFICES ASSUME NEW i \in 1..k PROVE parts[i] # {} /\ parts[i] \subseteq f
    OBVIOUS
  <2>1. i \in 1..Len(q) /\ f \in SUBSET Partitions
    BY <1>3
  <2>2. q[i].count \in Nat \ {0} /\ parts[i] \in Takes(f, q[i].count)
    BY <2>1, <1>2, <1>4
  <2> QED BY ONLY <2>1, <2>2, TakesNonEmpty, Zenon
<1>6. ASSUME NEW s \in Sessions, InPrefix(s)
      PROVE  /\ At(s) \in 1..k
             /\ q[At(s)].session = s
             /\ \A i \in 1..Len(q) : q[i].session = s => i = At(s)
             /\ l[s] = {}
  <2>1. At(s) \in 1..k /\ q[At(s)].session = s
    BY <1>6
  <2>2. At(s) \in 1..Len(q)
    BY <2>1, <1>3
  <2> QED BY <2>1, <2>2, <1>3 DEF Distinct
<1>7. /\ queue' \in Seq(Waiter)
      /\ Len(queue') = Len(q) - k
      /\ \A i \in 1..(Len(q) - k) : queue'[i] = q[k + i]
      /\ DOMAIN queue' = 1..(Len(q) - k)
  <2>1. /\ queue' \in Seq(Waiter)
        /\ Len(queue') = Len(q) - k
        /\ \A i \in 1..(Len(q) - k) : queue'[i] = q[k + i]
    BY <1>2, SuffixOf
  <2> QED BY <2>1, LenProperties
<1> HIDE DEF taken, At, InPrefix
<1>8. /\ leasedBy' \in [Sessions -> SUBSET Partitions]
      /\ grant' \in [Sessions -> SUBSET Partitions]
  BY <1>2, <1>5, <1>6
<1>9. Exclusive'
  <2>1. ASSUME NEW s \in Sessions, NEW t \in Sessions, s # t
        PROVE  leasedBy'[s] \cap leasedBy'[t] = {}
    <3>1. CASE InPrefix(s) /\ InPrefix(t)
      <4>1. At(s) # At(t)
        BY <3>1, <2>1, <1>6
      <4> QED BY <4>1, <3>1, <1>2, <1>6
    <3>2. CASE InPrefix(s) /\ ~InPrefix(t)
      BY <3>2, <1>2, <1>5, <1>6
    <3>3. CASE ~InPrefix(s) /\ InPrefix(t)
      BY <3>3, <1>2, <1>5, <1>6
    <3>4. CASE ~InPrefix(s) /\ ~InPrefix(t)
      BY <3>4, <2>1, <1>2
    <3> QED BY <3>1, <3>2, <3>3, <3>4
  <2>2. ASSUME NEW s \in Sessions
        PROVE  leasedBy'[s] \cap free' = {}
    <3>1. CASE InPrefix(s)
      BY <3>1, <1>2, <1>6 DEF taken
    <3>2. CASE ~InPrefix(s)
      BY <3>2, <1>2
    <3> QED BY <3>1, <3>2
  <2> QED BY <2>1, <2>2 DEF Exclusive
<1>10. Conserved'
  <2>1. ASSUME NEW p \in Partitions, p \notin free'
        PROVE  \E s \in Sessions : p \in leasedBy'[s]
    <3>1. CASE p \in taken
      <4>1. PICK i \in 1..k : p \in parts[i]
        BY <3>1 DEF taken
      <4>2. q[i].session \in Sessions /\ InPrefix(q[i].session)
        BY <1>3, <1>4 DEF InPrefix
      <4>3. At(q[i].session) = i
        BY <4>2, <1>3, <1>6
      <4> QED BY <4>1, <4>2, <4>3, <1>2
    <3>2. CASE p \notin taken
      <4>1. PICK s \in Sessions : p \in l[s]
        BY <3>2, <2>1, <1>2
      <4>2. ~InPrefix(s)
        BY <4>1, <1>6
      <4> QED BY <4>1, <4>2, <1>2
    <3> QED BY <3>1, <3>2
  <2>2. free' \subseteq Partitions
    BY <1>2
  <2> QED BY <2>1, <2>2, <1>8 DEF Conserved
<1>11. Distinct(queue')
  <2> SUFFICES ASSUME NEW i \in DOMAIN queue', NEW j \in DOMAIN queue',
                      queue'[i].session = queue'[j].session
               PROVE  i = j
    BY DEF Distinct
  <2>1. i \in 1..(Len(q) - k) /\ j \in 1..(Len(q) - k)
    BY <1>7
  <2>2. k + i \in 1..Len(q) /\ k + j \in 1..Len(q)
    BY <2>1, <1>3
  <2>3. q[k + i].session = q[k + j].session
    BY <2>1, <1>7
  <2>4. k + i = k + j
    BY <2>2, <2>3, <1>3 DEF Distinct
  <2> QED BY <2>1, <2>4, <1>3
<1>12. ASSUME NEW s \in Sessions
       PROVE  Served(s, q) \/ Kept(s, l, q, g)
  <2>1. InQueue(queue', s) <=> \E i \in (k + 1)..Len(q) : q[i].session = s
    <3>1. ASSUME NEW i \in 1..(Len(q) - k), queue'[i].session = s
          PROVE  \E j \in (k + 1)..Len(q) : q[j].session = s
      <4>1. k + i \in (k + 1)..Len(q) /\ q[k + i].session = s
        BY <3>1, <1>3, <1>7
      <4> QED BY <4>1
    <3>2. ASSUME NEW j \in (k + 1)..Len(q), q[j].session = s
          PROVE  \E i \in 1..(Len(q) - k) : queue'[i].session = s
      <4>1. j - k \in 1..(Len(q) - k) /\ k + (j - k) = j
        BY <1>3
      <4>2. queue'[j - k].session = s
        BY <4>1, <3>2, <1>7
      <4> QED BY <4>1, <4>2
    <3> QED BY <3>1, <3>2, <1>7 DEF InQueue
  <2>2. InQueue(q, s) <=> InPrefix(s) \/ \E i \in (k + 1)..Len(q) : q[i].session = s
    BY <1>3 DEF InQueue, InPrefix
  <2>3. CASE InPrefix(s)
    <3>1. ~\E i \in (k + 1)..Len(q) : q[i].session = s
      BY <2>3, <1>3, <1>6
    <3>2. leasedBy'[s] # {} /\ grant'[s] = leasedBy'[s]
      BY <2>3, <1>2, <1>5, <1>6
    <3> QED BY <2>1, <2>2, <2>3, <3>1, <3>2 DEF Served
  <2>4. CASE ~InPrefix(s)
    BY <2>1, <2>2, <2>4, <1>2 DEF Kept
  <2> QED BY <2>3, <2>4
<1>13. NoIdleCapacity'
  <2> SUFFICES ASSUME queue' # <<>>
               PROVE  Cardinality(free') < Head(queue').count
    BY DEF NoIdleCapacity
  <2>1. Len(q) - k # 0 /\ Head(queue') = queue'[1]
    BY <1>7, EmptySeq, HeadTailProperties
  <2>2. 1 \in 1..(Len(q) - k) /\ k < Len(q)
    BY <2>1, <1>3
  <2> QED BY <2>1, <2>2, <1>2, <1>7
<1> QED
  BY <1>2, <1>7, <1>8, <1>9, <1>10, <1>11, <1>12, <1>13
-----------------------------------------------------------------------------
(***************************************************************************)
(* The inductive invariant.  Exclusive and Conserved are not inductive by  *)
(* themselves: UndoGrant frees what the channel holds, so the channel must *)
(* hold what is recorded, and serveQueueLocked overwrites a lease, so a    *)
(* queued session must have none; GrantMatchesLease says both.             *)
(***************************************************************************)
IInv ==
    /\ TypeOK
    /\ Exclusive
    /\ Conserved
    /\ GrantMatchesLease
    /\ NoIdleCapacity

\* A waiter that Acquire appended and nobody served yet: its session waits,
\* and has neither a lease nor a grant.
LEMMA QueuedHasNothing ==
    ASSUME TypeOK, GrantMatchesLease
    PROVE  /\ Distinct(queue)
           /\ \A i \in DOMAIN queue :
                /\ queue[i].session \in Sessions
                /\ call[queue[i].session] = "waiting"
                /\ leasedBy[queue[i].session] = {}
                /\ grant[queue[i].session] = {}
<1>1. \A i \in DOMAIN queue : queue[i].session \in Sessions
  <2>1. \A i \in DOMAIN queue : queue[i] \in Waiter
    BY ElementOfSeq, LenProperties DEF TypeOK
  <2> QED BY <2>1 DEF Waiter
<1>2. \A i \in DOMAIN queue : InQueue(queue, queue[i].session)
  BY DEF InQueue
<1> QED
  BY <1>1, <1>2 DEF GrantMatchesLease, Distinct

\* What is left to show of a step that ran serveQueueLocked after clearing
\* session s.
LEMMA AfterServe ==
    ASSUME IInv, NEW s \in Sessions, NEW f, NEW l, NEW q, NEW g,
           Servable(f, l, q, g), ServeQueue(f, l, q, g),
           l[s] = {}, g[s] = {}, ~InQueue(q, s),
           call' = [call EXCEPT ![s] = "idle"],
           \A t \in Sessions \ {s} :
                /\ l[t] = leasedBy[t]
                /\ g[t] = grant[t]
                /\ InQueue(q, t) <=> InQueue(queue, t)
    PROVE  IInv'
<1>1. /\ free' \subseteq f
      /\ leasedBy' \in [Sessions -> SUBSET Partitions]
      /\ grant' \in [Sessions -> SUBSET Partitions]
      /\ queue' \in Seq(Waiter)
      /\ Exclusive' /\ Conserved' /\ Distinct(queue') /\ NoIdleCapacity'
  BY ServeQueueLemma
<1>2. \A t \in Sessions : Served(t, q) \/ Kept(t, l, q, g)
  BY ServeQueueLemma
<1>3. TypeOK'
  BY <1>1 DEF IInv, TypeOK, CallStates, Servable
<1>4. GrantMatchesLease'
  <2>1. ASSUME NEW t \in Sessions
        PROVE  /\ call'[t] = "idle" => leasedBy'[t] = {} /\ grant'[t] = {}
               /\ call'[t] = "held" => leasedBy'[t] # {} /\ grant'[t] = {}
               /\ call'[t] = "undoing" => leasedBy'[t] # {} /\ grant'[t] = leasedBy'[t]
               /\ call'[t] = "waiting" => grant'[t] = leasedBy'[t]
               /\ InQueue(queue', t) <=> (call'[t] = "waiting" /\ grant'[t] = {})
    <3>1. CASE t = s
      <4>1. Kept(s, l, q, g)
        BY <1>2 DEF Served
      <4>2. call'[s] = "idle"
        BY DEF IInv, TypeOK
      <4> QED BY <3>1, <4>1, <4>2 DEF Kept
    <3>2. CASE t # s
      <4>1. call'[t] = call[t] /\ l[t] = leasedBy[t] /\ g[t] = grant[t]
        BY <3>2 DEF IInv, TypeOK
      <4>2. InQueue(q, t) <=> (call[t] = "waiting" /\ grant[t] = {})
        BY <3>2 DEF IInv, GrantMatchesLease
      <4>3. CASE Served(t, q)
        BY <4>1, <4>2, <4>3 DEF Served
      <4>4. CASE Kept(t, l, q, g)
        BY <4>1, <4>2, <4>4 DEF Kept, IInv, GrantMatchesLease
      <4> QED BY <1>2, <4>3, <4>4
    <3> QED BY <3>1, <3>2
  <2> QED BY <2>1, <1>1 DEF GrantMatchesLease, Distinct
<1> QED
  BY <1>1, <1>3, <1>4 DEF IInv
\* NewLeaseAllocator establishes the inductive invariant.
LEMMA InitIInv == Init => IInv
  BY EmptySeq DEF Init, IInv, TypeOK, Exclusive, Conserved, GrantMatchesLease,
     NoIdleCapacity, InQueue, CallStates

\* The ctx.Done branch: the queue without the cancelled waiter can be served.
LEMMA CancelServable ==
    ASSUME IInv, NEW i \in DOMAIN queue
    PROVE  /\ Servable(free, leasedBy, Without(queue, i), grant)
           /\ ~InQueue(Without(queue, i), queue[i].session)
           /\ \A t \in Sessions \ {queue[i].session} :
                InQueue(Without(queue, i), t) <=> InQueue(queue, t)
<1> USE DEF IInv
<1>q. /\ Distinct(queue)
      /\ \A j \in DOMAIN queue :
           leasedBy[queue[j].session] = {} /\ grant[queue[j].session] = {}
  BY QueuedHasNothing
<1> DEFINE q == Without(queue, i)
<1>2. /\ Len(queue) \in Nat
      /\ DOMAIN queue = 1..Len(queue)
      /\ q \in Seq(Waiter)
      /\ DOMAIN q = 1..(Len(queue) - 1)
      /\ \A j \in 1..(Len(queue) - 1) : q[j] = IF j < i THEN queue[j] ELSE queue[j + 1]
  <2>1. Len(queue) \in Nat /\ DOMAIN queue = 1..Len(queue) /\ queue \in Seq(Waiter)
    BY LenProperties DEF TypeOK
  <2>2. /\ q \in Seq(Waiter) /\ Len(q) = Len(queue) - 1
        /\ \A j \in 1..(Len(queue) - 1) : q[j] = IF j < i THEN queue[j] ELSE queue[j + 1]
    BY <2>1, WithoutProperties
  <2> QED BY <2>1, <2>2, LenProperties
<1> HIDE DEF q
<1>3. ASSUME NEW j \in DOMAIN q
      PROVE  \E m \in 1..Len(queue) : m # i /\ m = (IF j < i THEN j ELSE j + 1) /\ q[j] = queue[m]
  <2>1. CASE j < i
    BY <2>1, <1>2
  <2>2. CASE ~(j < i)
    BY <2>2, <1>2
  <2> QED BY <2>1, <2>2
<1>4. ASSUME NEW m \in 1..Len(queue), m # i
      PROVE  \E j \in DOMAIN q : q[j] = queue[m]
  <2>1. CASE m < i
    BY <2>1, <1>2
  <2>2. CASE ~(m < i)
    <3>1. m - 1 \in 1..(Len(queue) - 1) /\ ~(m - 1 < i) /\ (m - 1) + 1 = m
      BY <2>2, <1>2, <1>4
    <3>2. q[m - 1] = queue[m]
      BY <3>1, <1>2
    <3> QED BY <3>1, <3>2, <1>2
  <2> QED BY <2>1, <2>2
<1>5. Servable(free, leasedBy, q, grant)
  <2>1. Distinct(q)
    <3> SUFFICES ASSUME NEW a \in DOMAIN q, NEW b \in DOMAIN q, q[a].session = q[b].session
                 PROVE  a = b
      BY DEF Distinct
    <3>1. a \in Int /\ b \in Int /\ i \in Int
      BY <1>2
    <3>2. (IF a < i THEN a ELSE a + 1) = (IF b < i THEN b ELSE b + 1)
      BY <1>2, <1>3, <1>q DEF Distinct
    <3> QED BY <3>1, <3>2
  <2>2. \A a \in DOMAIN q : leasedBy[q[a].session] = {} /\ grant[q[a].session] = {}
    BY <1>2, <1>3, <1>q
  <2> QED BY <2>1, <2>2, <1>2 DEF Servable, TypeOK, Exclusive, Conserved
<1>6. ~InQueue(q, queue[i].session)
  BY <1>2, <1>3, <1>q DEF InQueue, Distinct
<1>7. ASSUME NEW t \in Sessions \ {queue[i].session}
      PROVE  InQueue(q, t) <=> InQueue(queue, t)
  <2>1. ASSUME NEW j \in DOMAIN q, q[j].session = t
        PROVE  \E m \in DOMAIN queue : queue[m].session = t
    BY <2>1, <1>2, <1>3
  <2>2. ASSUME NEW m \in DOMAIN queue, queue[m].session = t
        PROVE  \E j \in DOMAIN q : q[j].session = t
    <3>1. m # i /\ m \in 1..Len(queue)
      BY <2>2, <1>2
    <3>2. PICK j \in DOMAIN q : q[j] = queue[m]
      BY <3>1, <1>4
    <3> QED BY <2>2, <3>2
  <2> QED BY <2>1, <2>2 DEF InQueue
<1> QED
  BY <1>5, <1>6, <1>7 DEF q

\* The undo of a grant and Release: the pool refilled with what s had can be
\* served.
LEMMA ReturnServable ==
    ASSUME IInv, NEW s \in Sessions, ~InQueue(queue, s)
    PROVE  /\ Servable(free \cup leasedBy[s], [leasedBy EXCEPT ![s] = {}], queue,
                       [grant EXCEPT ![s] = {}])
           /\ grant[s] = {} => [grant EXCEPT ![s] = {}] = grant
  BY QueuedHasNothing DEF IInv, Servable, TypeOK, Exclusive, Conserved

\* Every critical section of Acquire and Release preserves it.
LEMMA NextIInv == IInv /\ [Next]_vars => IInv'
<1> SUFFICES ASSUME IInv, [Next]_vars PROVE IInv'
  OBVIOUS
<1> USE DEF IInv
<1>q. /\ Distinct(queue)
      /\ \A i \in DOMAIN queue :
           /\ queue[i].session \in Sessions
           /\ call[queue[i].session] = "waiting"
           /\ leasedBy[queue[i].session] = {}
           /\ grant[queue[i].session] = {}
  BY QueuedHasNothing
<1>1. ASSUME NEW s \in Sessions, NEW n \in Counts, AcquireFast(s, n)
      PROVE  IInv'
  <2>1. n \in Nat \ {0} /\ leasedBy[s] = {}
    BY <1>1, CountsInt DEF AcquireFast, AcquireErrors
  <2>2. PICK P \in Takes(free, n) : free' = free \ P /\ leasedBy' = [leasedBy EXCEPT ![s] = P]
    BY <1>1 DEF AcquireFast
  <2>3. P # {} /\ P \subseteq free
    BY <2>1, TakesNonEmpty DEF TypeOK
  <2>4. /\ call[s] = "idle" /\ queue = <<>>
        /\ call' = [call EXCEPT ![s] = "held"]
        /\ queue' = queue /\ grant' = grant
    BY <1>1 DEF AcquireFast
  <2>5. TypeOK'
    BY <2>2, <2>3, <2>4 DEF TypeOK, CallStates
  <2>6. Exclusive'
    BY <2>1, <2>2, <2>3 DEF Exclusive, TypeOK
  <2>7. Conserved'
    <3>1. ASSUME NEW p \in Partitions, p \notin free'
          PROVE  \E t \in Sessions : p \in leasedBy'[t]
      <4>1. CASE p \in P
        BY <4>1, <2>2 DEF TypeOK
      <4>2. CASE p \notin P
        <5>1. PICK t \in Sessions : p \in leasedBy[t]
          BY <4>2, <3>1, <2>2 DEF Conserved
        <5>2. t # s
          BY <5>1, <2>1
        <5> QED BY <5>1, <5>2, <2>2 DEF TypeOK
      <4> QED BY <4>1, <4>2
    <3> QED BY <3>1, <2>5 DEF Conserved, TypeOK
  <2>8. GrantMatchesLease'
    BY <2>2, <2>3, <2>4 DEF GrantMatchesLease, TypeOK, InQueue
  <2>9. NoIdleCapacity'
    BY <2>4 DEF NoIdleCapacity
  <2> QED BY <2>5, <2>6, <2>7, <2>8, <2>9
<1>2. ASSUME NEW s \in Sessions, NEW n \in Counts, AcquireEnqueue(s, n)
      PROVE  IInv'
  <2> DEFINE w == [session |-> s, count |-> n]
  <2>1. /\ n \in Nat \ {0}
        /\ call[s] = "idle"
        /\ ~(queue = <<>> /\ Cardinality(free) >= n)
        /\ queue' = Append(queue, w)
        /\ call' = [call EXCEPT ![s] = "waiting"]
        /\ free' = free /\ leasedBy' = leasedBy /\ grant' = grant
    BY <1>2, CountsInt DEF AcquireEnqueue, AcquireErrors
  <2>2. w \in Waiter
    BY <2>1 DEF Waiter
  <2> HIDE DEF w
  <2>3. /\ queue' \in Seq(Waiter)
        /\ Len(queue) \in Nat
        /\ DOMAIN queue = 1..Len(queue)
        /\ DOMAIN queue' = 1..(Len(queue) + 1)
        /\ \A i \in 1..Len(queue) : queue'[i] = queue[i]
        /\ queue'[Len(queue) + 1] = w
    <3>1. /\ Append(queue, w) \in Seq(Waiter)
          /\ Len(Append(queue, w)) = Len(queue) + 1
          /\ \A i \in 1..Len(queue) : Append(queue, w)[i] = queue[i]
          /\ Append(queue, w)[Len(queue) + 1] = w
      BY <2>2, AppendProperties DEF TypeOK
    <3>2. DOMAIN Append(queue, w) = 1..(Len(queue) + 1)
      BY <3>1, LenProperties
    <3> QED BY <2>1, <3>1, <3>2, LenProperties DEF TypeOK
  <2>4. TypeOK'
    BY <2>1, <2>3 DEF TypeOK, CallStates
  <2>5. Exclusive' /\ Conserved'
    BY <2>1 DEF Exclusive, Conserved
  <2>6. w.session = s /\ w.count = n
    BY DEF w
  <2>7. \A t \in Sessions : InQueue(queue', t) <=> (InQueue(queue, t) \/ t = s)
    <3>1. ASSUME NEW t \in Sessions, InQueue(queue, t) PROVE InQueue(queue', t)
      BY <3>1, <2>3 DEF InQueue
    <3>2. InQueue(queue', s)
      BY <2>3, <2>6 DEF InQueue
    <3>3. ASSUME NEW t \in Sessions, InQueue(queue', t) PROVE InQueue(queue, t) \/ t = s
      <4>1. PICK i \in 1..(Len(queue) + 1) : queue'[i].session = t
        BY <3>3, <2>3 DEF InQueue
      <4>2. CASE i = Len(queue) + 1
        BY <4>1, <4>2, <2>3, <2>6
      <4>3. CASE i # Len(queue) + 1
        <5>1. i \in 1..Len(queue)
          BY <4>3, <2>3
        <5> QED BY <5>1, <4>1, <2>3 DEF InQueue
      <4> QED BY <4>2, <4>3
    <3> QED BY <3>1, <3>2, <3>3
  <2>8. Distinct(queue')
    <3> SUFFICES ASSUME NEW i \in 1..(Len(queue) + 1), NEW j \in 1..(Len(queue) + 1),
                        queue'[i].session = queue'[j].session
                 PROVE  i = j
      BY <2>3 DEF Distinct
    <3>1. \A m \in 1..Len(queue) : queue[m].session # s
      BY <1>q, <2>1, <2>3
    <3>2. i \in 1..Len(queue) \/ i = Len(queue) + 1
      BY <2>3
    <3>3. j \in 1..Len(queue) \/ j = Len(queue) + 1
      BY <2>3
    <3> QED BY <3>1, <3>2, <3>3, <2>3, <2>6, <1>q DEF Distinct
  <2>9. GrantMatchesLease'
    <3>1. ASSUME NEW t \in Sessions
          PROVE  /\ call'[t] = "idle" => leasedBy'[t] = {} /\ grant'[t] = {}
                 /\ call'[t] = "held" => leasedBy'[t] # {} /\ grant'[t] = {}
                 /\ call'[t] = "undoing" => leasedBy'[t] # {} /\ grant'[t] = leasedBy'[t]
                 /\ call'[t] = "waiting" => grant'[t] = leasedBy'[t]
                 /\ InQueue(queue', t) <=> (call'[t] = "waiting" /\ grant'[t] = {})
      <4>1. CASE t = s
        BY <4>1, <2>1, <2>7 DEF GrantMatchesLease, TypeOK
      <4>2. CASE t # s
        <5>1. call'[t] = call[t]
          BY <4>2, <2>1 DEF TypeOK
        <5> QED BY <4>2, <5>1, <2>1, <2>7 DEF GrantMatchesLease
      <4> QED BY <4>1, <4>2
    <3> QED BY <3>1, <2>8 DEF GrantMatchesLease, Distinct
  <2>10. NoIdleCapacity'
    <3>1. Cardinality(free) \in Nat
      BY PartitionsFinite, FS_Subset, FS_CardinalityType DEF TypeOK
    <3>2. Head(queue') = queue'[1]
      BY <2>3
    <3>3. CASE queue = <<>>
      <4>1. Len(queue) = 0
        BY <3>3
      <4>2. queue'[1] = w
        BY <4>1, <2>3
      <4> QED BY <3>1, <3>2, <3>3, <4>2, <2>1, <2>6 DEF NoIdleCapacity
    <3>4. CASE queue # <<>>
      <4>1. Len(queue) # 0 /\ Head(queue) = queue[1]
        BY <3>4, EmptySeq, HeadTailProperties DEF TypeOK
      <4>2. queue'[1] = queue[1]
        BY <4>1, <2>3
      <4> QED BY <3>2, <3>4, <4>1, <4>2, <2>1 DEF NoIdleCapacity
    <3> QED BY <3>3, <3>4
  <2> QED BY <2>4, <2>5, <2>9, <2>10
<1>3. ASSUME NEW s \in Sessions, ReceiveGrant(s)
      PROVE  IInv'
  <2>1. /\ call[s] = "waiting" /\ grant[s] # {} /\ leasedBy[s] # {}
        /\ grant' = [grant EXCEPT ![s] = {}]
        /\ call' = [call EXCEPT ![s] = "held"]
        /\ free' = free /\ leasedBy' = leasedBy /\ queue' = queue
    BY <1>3 DEF ReceiveGrant, GrantMatchesLease
  <2>2. TypeOK'
    BY <2>1 DEF TypeOK, CallStates
  <2>3. Exclusive' /\ Conserved' /\ NoIdleCapacity'
    BY <2>1 DEF Exclusive, Conserved, NoIdleCapacity
  <2>4. GrantMatchesLease'
    BY <2>1 DEF GrantMatchesLease, TypeOK, InQueue
  <2> QED BY <2>2, <2>3, <2>4
<1>4. ASSUME NEW s \in Sessions, CancelQueued(s)
      PROVE  IInv'
  <2>1. PICK i \in DOMAIN queue :
          /\ queue[i].session = s
          /\ ServeQueue(free, leasedBy, Without(queue, i), grant)
    BY <1>4 DEF CancelQueued
  <2> DEFINE q == Without(queue, i)
  <2>2. /\ Servable(free, leasedBy, q, grant)
        /\ ~InQueue(q, s)
        /\ \A t \in Sessions \ {s} : InQueue(q, t) <=> InQueue(queue, t)
    BY <2>1, CancelServable
  <2>3. leasedBy[s] = {} /\ grant[s] = {}
    BY <2>1, <1>q
  <2>4. ServeQueue(free, leasedBy, q, grant) /\ call' = [call EXCEPT ![s] = "idle"]
    BY <2>1, <1>4 DEF CancelQueued
  <2> HIDE DEF IInv, q
  <2> QED BY <2>2, <2>3, <2>4, AfterServe
<1>5. ASSUME NEW s \in Sessions, CancelGranted(s)
      PROVE  IInv'
  <2>1. /\ call[s] = "waiting" /\ ~InQueue(queue, s)
        /\ call' = [call EXCEPT ![s] = "undoing"]
        /\ free' = free /\ leasedBy' = leasedBy /\ queue' = queue /\ grant' = grant
    BY <1>5 DEF CancelGranted
  <2>2. TypeOK'
    BY <2>1 DEF TypeOK, CallStates
  <2>3. Exclusive' /\ Conserved' /\ NoIdleCapacity'
    BY <2>1 DEF Exclusive, Conserved, NoIdleCapacity
  <2>4. GrantMatchesLease'
    BY <2>1 DEF GrantMatchesLease, TypeOK, InQueue
  <2> QED BY <2>2, <2>3, <2>4
<1>6. ASSUME NEW s \in Sessions, UndoGrant(s)
      PROVE  IInv'
  <2> DEFINE f == free \cup grant[s]
             l == [leasedBy EXCEPT ![s] = {}]
             g == [grant EXCEPT ![s] = {}]
  <2>1. /\ call[s] = "undoing" /\ ServeQueue(f, l, queue, g)
        /\ call' = [call EXCEPT ![s] = "idle"]
        /\ grant[s] = leasedBy[s] /\ ~InQueue(queue, s)
    BY <1>6 DEF UndoGrant, GrantMatchesLease
  <2>2. Servable(f, l, queue, g)
    BY <2>1, ReturnServable
  <2>3. /\ l[s] = {} /\ g[s] = {}
        /\ \A t \in Sessions \ {s} : l[t] = leasedBy[t] /\ g[t] = grant[t]
    BY DEF TypeOK
  <2> HIDE DEF f, l, g, IInv
  <2> QED BY <2>1, <2>2, <2>3, AfterServe
<1>7. ASSUME NEW s \in Sessions, Release(s)
      PROVE  IInv'
  <2> DEFINE f == free \cup leasedBy[s]
             l == [leasedBy EXCEPT ![s] = {}]
  <2>1. /\ call[s] = "held" /\ ServeQueue(f, l, queue, grant)
        /\ call' = [call EXCEPT ![s] = "idle"]
        /\ grant[s] = {} /\ ~InQueue(queue, s)
    BY <1>7 DEF Release, GrantMatchesLease
  <2>2. Servable(f, l, queue, grant)
    BY <2>1, ReturnServable
  <2>3. l[s] = {} /\ \A t \in Sessions \ {s} : l[t] = leasedBy[t]
    BY DEF TypeOK
  <2> HIDE DEF f, l, IInv
  <2> QED BY <2>1, <2>2, <2>3, AfterServe
<1>8. CASE UNCHANGED vars
  BY <1>8 DEF vars, TypeOK, Exclusive, Conserved, GrantMatchesLease, NoIdleCapacity, InQueue
<1> HIDE DEF IInv
<1> QED
  BY <1>1, <1>2, <1>3, <1>4, <1>5, <1>6, <1>7, <1>8 DEF Next

\* Every reachable state of the allocator satisfies the inductive invariant.
THEOREM Invariance == Spec => []IInv
  BY InitIInv, NextIInv, PTL DEF Spec
\* The bookkeeping is well typed after any history of Acquire, cancellation
\* and Release.
THEOREM TypeCorrect == Spec => []TypeOK
  BY Invariance, PTL DEF IInv

\* No index is leased twice or leased and free, for any number of sessions
\* and indices.
THEOREM LeasesExclusive == Spec => []Exclusive
  BY Invariance, PTL DEF IInv

\* No index is ever lost.
THEOREM LeasesConserved == Spec => []Conserved
  BY Invariance, PTL DEF IInv

\* What is in a waiter's channel is what leasedBy records for it, and a
\* waiter is queued exactly while it has no grant.
THEOREM GrantsMatchLeases == Spec => []GrantMatchesLease
  BY Invariance, PTL DEF IInv

\* The head of the queue never fits the pool once the mutex is released:
\* no wakeup is lost.
THEOREM NoCapacityIdles == Spec => []NoIdleCapacity
  BY Invariance, PTL DEF IInv

-----------------------------------------------------------------------------
(***************************************************************************)
(* The allocator implements ExclusiveLease.                                *)
(***************************************************************************)

\* A step of Acquire, of its ctx.Done branch or of Release that clears at most
\* the sessions in R and leaves every other lease alone is a step of the
\* abstract lease.
LEMMA StepRefines ==
    ASSUME IInv', NEW R \in {{}} \cup {{s} : s \in Sessions},
           \A t \in Sessions : t \notin R /\ leasedBy[t] # {} => leasedBy'[t] = leasedBy[t]
    PROVE  Lease!Step
<1> DEFINE kept == [s \in Sessions |-> IF s \in R THEN {} ELSE leasedBy[s]]
<1>1. leasedBy' \in [Sessions -> SUBSET Partitions]
  BY DEF IInv, TypeOK
<1>2. \A t \in Sessions : kept[t] # {} => leasedBy'[t] = kept[t]
  OBVIOUS
<1>3. \A s, t \in Sessions : s # t => leasedBy'[s] \cap leasedBy'[t] = {}
  BY DEF IInv, Exclusive
<1>4. \A t \in Sessions : kept[t] = {} => leasedBy'[t] \subseteq Lease!Unowned(kept)
  <2> SUFFICES ASSUME NEW t \in Sessions, kept[t] = {}, NEW p \in leasedBy'[t],
                      NEW u \in Sessions, p \in kept[u]
               PROVE  FALSE
    BY <1>1 DEF Lease!Unowned
  <2>1. u # t /\ leasedBy'[u] = kept[u]
    BY <1>2
  <2> QED BY <2>1, <1>3
<1>5. free' = Lease!Unowned(leasedBy')
  BY DEF IInv, TypeOK, Exclusive, Conserved, Lease!Unowned
<1> QED
  BY <1>1, <1>2, <1>3, <1>4, <1>5 DEF Lease!Step

\* serveQueueLocked gives leases only to sessions that had none.
LEMMA ServeKeepsLeases ==
    ASSUME NEW f, NEW l, NEW q, NEW g, Servable(f, l, q, g), ServeQueue(f, l, q, g)
    PROVE  \A t \in Sessions : l[t] # {} => leasedBy'[t] = l[t]
<1> SUFFICES ASSUME NEW t \in Sessions, l[t] # {} PROVE leasedBy'[t] = l[t]
  OBVIOUS
<1>1. Served(t, q) \/ Kept(t, l, q, g)
  BY ServeQueueLemma
<1>2. ~InQueue(q, t)
  BY DEF Servable, InQueue
<1> QED
  BY <1>1, <1>2 DEF Served, Kept
\* Every step of the allocator is a step of the abstract lease or leaves the
\* leases and the pool alone.
LEMMA NextRefines == IInv /\ IInv' /\ [Next]_vars => [Lease!Step]_<<leasedBy, free>>
<1> SUFFICES ASSUME IInv, IInv', [Next]_vars PROVE [Lease!Step]_<<leasedBy, free>>
  OBVIOUS
<1> DEFINE KeepsAllBut(R) ==
      \A t \in Sessions : t \notin R /\ leasedBy[t] # {} => leasedBy'[t] = leasedBy[t]
<1>1. ASSUME NEW s \in Sessions, NEW n \in Counts, AcquireFast(s, n)
      PROVE  Lease!Step
  <2>1. KeepsAllBut({})
    BY <1>1 DEF AcquireFast, AcquireErrors, IInv, TypeOK
  <2> QED BY <2>1, StepRefines
<1>2. ASSUME NEW s \in Sessions, CancelQueued(s)
      PROVE  Lease!Step
  <2>1. PICK i \in DOMAIN queue :
          /\ queue[i].session = s
          /\ ServeQueue(free, leasedBy, Without(queue, i), grant)
    BY <1>2 DEF CancelQueued
  <2>2. Servable(free, leasedBy, Without(queue, i), grant)
    BY CancelServable
  <2>3. KeepsAllBut({})
    BY <2>1, <2>2, ServeKeepsLeases
  <2> QED BY <2>3, StepRefines
<1>3. ASSUME NEW s \in Sessions, UndoGrant(s)
      PROVE  Lease!Step
  <2> DEFINE f == free \cup leasedBy[s]
             l == [leasedBy EXCEPT ![s] = {}]
             g == [grant EXCEPT ![s] = {}]
  <2>1. grant[s] = leasedBy[s] /\ ~InQueue(queue, s)
    BY <1>3 DEF UndoGrant, IInv, GrantMatchesLease
  <2>2. ServeQueue(f, l, queue, g) /\ Servable(f, l, queue, g)
    BY <1>3, <2>1, ReturnServable DEF UndoGrant
  <2>3. \A t \in Sessions \ {s} : l[t] = leasedBy[t]
    BY DEF IInv, TypeOK
  <2> HIDE DEF f, l, g
  <2>4. KeepsAllBut({s})
    BY <2>2, <2>3, ServeKeepsLeases
  <2> QED BY <2>4, StepRefines
<1>4. ASSUME NEW s \in Sessions, Release(s)
      PROVE  Lease!Step
  <2> DEFINE f == free \cup leasedBy[s]
             l == [leasedBy EXCEPT ![s] = {}]
  <2>1. grant[s] = {} /\ ~InQueue(queue, s)
    BY <1>4 DEF Release, IInv, GrantMatchesLease
  <2>2. ServeQueue(f, l, queue, grant) /\ Servable(f, l, queue, grant)
    BY <1>4, <2>1, ReturnServable DEF Release
  <2>3. \A t \in Sessions \ {s} : l[t] = leasedBy[t]
    BY DEF IInv, TypeOK
  <2> HIDE DEF f, l
  <2>4. KeepsAllBut({s})
    BY <2>2, <2>3, ServeKeepsLeases
  <2> QED BY <2>4, StepRefines
<1>5. ASSUME NEW s \in Sessions,
             \/ \E n \in Counts : AcquireEnqueue(s, n)
             \/ ReceiveGrant(s)
             \/ CancelGranted(s)
      PROVE  leasedBy' = leasedBy /\ free' = free
  BY <1>5 DEF AcquireEnqueue, ReceiveGrant, CancelGranted
<1>6. CASE UNCHANGED vars
  BY <1>6 DEF vars
<1> HIDE DEF KeepsAllBut
<1> QED
  BY <1>1, <1>2, <1>3, <1>4, <1>5, <1>6 DEF Next

\* The allocator of lease.go implements the exclusive lease the controller
\* relies on: an index has one owner from grant to release, no lease changes
\* under its holder, and what nobody holds can be given.
THEOREM Refinement == Spec => ImplementsExclusiveLease
<1>1. Init => Lease!Init
  BY DEF Init, Lease!Init
<1> QED
  BY <1>1, Invariance, NextRefines, PTL DEF Spec, ImplementsExclusiveLease, Lease!Spec

-----------------------------------------------------------------------------
(***************************************************************************)
(* First come, first served.                                               *)
(***************************************************************************)

\* s obtains nothing past a waiter of q that stays queued.
InTurn(s, q) ==
    \A i \in DOMAIN q :
        \/ q[i].session = s
        \/ \E j \in 1..(i - 1) : q[j].session = s
        \/ ~InQueue(queue', q[i].session)

\* serveQueueLocked grants a prefix of the queue: who gets a lease has nobody
\* before them that is left waiting.
LEMMA ServeInTurn ==
    ASSUME NEW f, NEW l, NEW q, NEW g, Servable(f, l, q, g), ServeQueue(f, l, q, g),
           NEW s \in Sessions, l[s] = {}, leasedBy'[s] # {}
    PROVE  InTurn(s, q)
<1> USE DEF Servable
<1>1. PICK k \in 0..Len(q) :
        \E parts \in [1..k -> SUBSET f] : ServeFirst(k, parts, f, l, q, g)
  BY DEF ServeQueue
<1>2. PICK parts \in [1..k -> SUBSET f] : ServeFirst(k, parts, f, l, q, g)
  BY <1>1
<1>3. \E m \in 1..k : q[m].session = s
  BY <1>2 DEF ServeFirst
<1>4. PICK m \in 1..k : q[m].session = s
  BY <1>3
<1>5. Len(q) \in Nat /\ DOMAIN q = 1..Len(q) /\ k \in Nat /\ k <= Len(q)
  BY LenProperties
<1>6. /\ DOMAIN queue' = 1..(Len(q) - k)
      /\ \A i \in 1..(Len(q) - k) : queue'[i] = q[k + i]
  <2>1. queue' = SubSeq(q, k + 1, Len(q))
    BY <1>2 DEF ServeFirst
  <2>2. /\ queue' \in Seq(Waiter)
        /\ Len(queue') = Len(q) - k
        /\ \A i \in 1..(Len(q) - k) : queue'[i] = q[k + i]
    BY <2>1, SuffixOf
  <2> QED BY <2>2, LenProperties
<1>7. ASSUME NEW i \in 1..k
      PROVE  ~InQueue(queue', q[i].session)
  <2> SUFFICES ASSUME NEW n \in 1..(Len(q) - k), queue'[n].session = q[i].session
               PROVE  FALSE
    BY <1>6 DEF InQueue
  <2>1. k + n \in DOMAIN q /\ i \in DOMAIN q /\ k + n # i
    BY <1>5
  <2>2. q[k + n].session = q[i].session
    BY <1>6
  <2> QED BY <2>1, <2>2 DEF Distinct
<1> SUFFICES ASSUME NEW i \in DOMAIN q, i > k
             PROVE  \E j \in 1..(i - 1) : q[j].session = s
  BY <1>5, <1>7 DEF InTurn
<1>8. m \in 1..(i - 1)
  BY <1>5
<1> QED
  BY <1>4, <1>8

\* Every critical section of Acquire and Release hands out leases in turn.
LEMMA NextInTurn ==
    ASSUME IInv, [Next]_vars, NEW s \in Sessions, leasedBy[s] = {}, leasedBy'[s] # {}
    PROVE  InTurn(s, queue)
<1>1. ASSUME NEW t \in Sessions, NEW n \in Counts, AcquireFast(t, n)
      PROVE  InTurn(s, queue)
  BY <1>1 DEF AcquireFast, InTurn
<1>2. ASSUME NEW t \in Sessions, CancelQueued(t)
      PROVE  InTurn(s, queue)
  <2>1. PICK c \in DOMAIN queue :
          /\ queue[c].session = t
          /\ ServeQueue(free, leasedBy, Without(queue, c), grant)
    BY <1>2 DEF CancelQueued
  <2> DEFINE q == Without(queue, c)
  <2>2. Servable(free, leasedBy, q, grant) /\ ~InQueue(q, t)
    BY <2>1, CancelServable
  <2>3. InTurn(s, q)
    BY <2>1, <2>2, ServeInTurn
  <2>4. t \in Sessions => ~InQueue(queue', t)
    <3>1. Served(t, q) \/ Kept(t, leasedBy, q, grant)
      BY <2>1, <2>2, ServeQueueLemma
    <3> QED BY <3>1, <2>2 DEF Served, Kept
  <2>5. /\ Len(queue) \in Nat /\ DOMAIN queue = 1..Len(queue)
        /\ DOMAIN q = 1..(Len(queue) - 1)
        /\ \A j \in 1..(Len(queue) - 1) : q[j] = IF j < c THEN queue[j] ELSE queue[j + 1]
    <3>1. queue \in Seq(Waiter) /\ Len(queue) \in Nat /\ DOMAIN queue = 1..Len(queue)
      BY LenProperties DEF IInv, TypeOK
    <3>2. /\ q \in Seq(Waiter) /\ Len(q) = Len(queue) - 1
          /\ \A j \in 1..(Len(queue) - 1) : q[j] = IF j < c THEN queue[j] ELSE queue[j + 1]
      BY <3>1, WithoutProperties
    <3> QED BY <3>1, <3>2, LenProperties
  <2> HIDE DEF q
  <2> SUFFICES ASSUME NEW i \in DOMAIN queue, i # c,
                      queue[i].session # s, InQueue(queue', queue[i].session)
               PROVE  \E j \in 1..(i - 1) : queue[j].session = s
    BY <2>1, <2>4 DEF InTurn
  <2> DEFINE n == IF i < c THEN i ELSE i - 1
  <2>6. n \in DOMAIN q /\ q[n] = queue[i] /\ n \in Int /\ i \in Int /\ n <= i
    <3>1. CASE i < c
      BY <3>1, <2>5
    <3>2. CASE ~(i < c)
      <4>1. i - 1 \in 1..(Len(queue) - 1) /\ ~(i - 1 < c) /\ (i - 1) + 1 = i
        BY <3>2, <2>5
      <4> QED BY <3>2, <4>1, <2>5
    <3> QED BY <3>1, <3>2
  <2>7. PICK j \in 1..(n - 1) : q[j].session = s
    BY <2>3, <2>6 DEF InTurn
  <2>8. CASE j < c
    BY <2>5, <2>6, <2>7, <2>8
  <2>9. CASE ~(j < c)
    <3>1. j \in 1..(Len(queue) - 1) /\ ~(i < c)
      BY <2>5, <2>6, <2>9
    <3>2. q[j] = queue[j + 1] /\ j + 1 \in 1..(i - 1)
      BY <3>1, <2>5, <2>6, <2>9
    <3> QED BY <3>2, <2>7
  <2> QED BY <2>8, <2>9
<1>3. ASSUME NEW t \in Sessions, UndoGrant(t)
      PROVE  InTurn(s, queue)
  <2>1. grant[t] = leasedBy[t] /\ leasedBy[t] # {} /\ ~InQueue(queue, t)
    BY <1>3 DEF UndoGrant, IInv, GrantMatchesLease
  <2> DEFINE f == free \cup leasedBy[t]
             l == [leasedBy EXCEPT ![t] = {}]
             g == [grant EXCEPT ![t] = {}]
  <2>2. ServeQueue(f, l, queue, g) /\ Servable(f, l, queue, g)
    BY <1>3, <2>1, ReturnServable DEF UndoGrant
  <2>3. l[s] = {}
    BY <2>1 DEF IInv, TypeOK
  <2> HIDE DEF f, l, g
  <2> QED BY <2>2, <2>3, ServeInTurn
<1>4. ASSUME NEW t \in Sessions, Release(t)
      PROVE  InTurn(s, queue)
  <2>1. grant[t] = {} /\ leasedBy[t] # {} /\ ~InQueue(queue, t)
    BY <1>4 DEF Release, IInv, GrantMatchesLease
  <2> DEFINE f == free \cup leasedBy[t]
             l == [leasedBy EXCEPT ![t] = {}]
  <2>2. ServeQueue(f, l, queue, grant) /\ Servable(f, l, queue, grant)
    BY <1>4, <2>1, ReturnServable DEF Release
  <2>3. l[s] = {}
    BY <2>1 DEF IInv, TypeOK
  <2> HIDE DEF f, l
  <2> QED BY <2>2, <2>3, ServeInTurn
<1>5. leasedBy' # leasedBy
  OBVIOUS
<1>6. ASSUME NEW t \in Sessions,
             \/ \E n \in Counts : AcquireEnqueue(t, n)
             \/ ReceiveGrant(t)
             \/ CancelGranted(t)
      PROVE  leasedBy' = leasedBy
  BY <1>6 DEF AcquireEnqueue, ReceiveGrant, CancelGranted
<1>7. CASE UNCHANGED vars
  BY <1>5, <1>7 DEF vars
<1> QED
  BY <1>1, <1>2, <1>3, <1>4, <1>5, <1>6, <1>7 DEF Next

\* Nobody obtains indices while somebody stays queued ahead of them, whether by
\* Acquire's fast path, after a cancellation, an undone grant or a Release.
THEOREM LeasesInTurn == Spec => NoOvertaking
<1> DEFINE Step ==
      \A s \in Sessions : (leasedBy[s] = {} /\ leasedBy'[s] # {}) =>
          \A i \in DOMAIN queue :
              \/ queue[i].session = s
              \/ \E j \in 1..(i - 1) : queue[j].session = s
              \/ ~InQueue(queue', queue[i].session)
<1>1. IInv /\ [Next]_vars => [Step]_vars
  BY NextInTurn DEF InTurn
<1> HIDE DEF Step
<1>2. Spec => [][Step]_vars
  BY <1>1, Invariance, PTL DEF Spec
<1> QED
  BY <1>2 DEF NoOvertaking, Step
=============================================================================
