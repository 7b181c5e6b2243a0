--------------------------- MODULE LeaseAllocator ---------------------------
(***************************************************************************)
(* services/bot-fleet-controller/internal/controller/lease.go              *)
(*                                                                         *)
(* The in-memory allocator that hands out exclusive indices (partitions of *)
(* workload.assignments, or order bands) to sessions.  Every critical      *)
(* section of the mutex `mu' is one action; Acquire is two or three of     *)
(* them, because it parks on a channel and on ctx.Done with the mutex      *)
(* released.                                                               *)
(***************************************************************************)
EXTENDS Integers, Sequences, FiniteSets

CONSTANTS
    Partitions,     \* the indices [0, total) the allocator owns
    Sessions,       \* session ids that may call Acquire
    Counts          \* the counts callers ask for (may hold 0 or > total)

ASSUME PartitionsFinite == IsFiniteSet(Partitions)
ASSUME CountsInt == Counts \subseteq Int

VARIABLES
    free,           \* a.free
    leasedBy,       \* a.leasedBy; {} stands for a missing key
    queue,          \* a.queue, the blocked Acquires in FIFO order
    grant,          \* what the session's buffered channel w.grant holds; {} is empty
    call            \* where the session's Acquire is

vars == <<free, leasedBy, queue, grant, call>>

Total == Cardinality(Partitions)

(***************************************************************************)
(* "idle": no Acquire and no lease.  "waiting": parked in the select.      *)
(* "undoing": took the ctx.Done branch, found itself gone from the queue   *)
(* and has dropped the mutex to receive the grant it must give back.       *)
(* "held": Acquire returned the lease to its caller.                       *)
(***************************************************************************)
CallStates == {"idle", "waiting", "undoing", "held"}

Waiter == [session : Sessions, count : Nat \ {0}]

\* append(a.queue[:i], a.queue[i+1:]...)
Without(q, i) == SubSeq(q, 1, i - 1) \o SubSeq(q, i + 1, Len(q))

InQueue(q, s) == \E i \in DOMAIN q : q[i].session = s

TypeOK ==
    /\ free \subseteq Partitions
    /\ leasedBy \in [Sessions -> SUBSET Partitions]
    /\ queue \in Seq(Waiter)
    /\ grant \in [Sessions -> SUBSET Partitions]
    /\ call \in [Sessions -> CallStates]

Init ==
    /\ free = Partitions
    /\ leasedBy = [s \in Sessions |-> {}]
    /\ queue = <<>>
    /\ grant = [s \in Sessions |-> {}]
    /\ call = [s \in Sessions |-> "idle"]

(***************************************************************************)
(* takeLocked: which of the free indices are taken is Go's map iteration   *)
(* order, hence any subset of the right size.                              *)
(***************************************************************************)
Takes(pool, n) == {P \in SUBSET pool : Cardinality(P) = n}

\* Mutant: the broadcast wakeup the comment on leaseWaiter describes, where any
\* one waiter that fits may skim the pool.
ServeQueue_Skims(f, l, q, g) ==
    LET fits == {i \in DOMAIN q : q[i].count <= Cardinality(f)}
    IN \/ /\ fits = {}
          /\ free' = f /\ leasedBy' = l /\ grant' = g /\ queue' = q
       \/ \E i \in fits : \E P \in Takes(f, q[i].count) :
            /\ free' = f \ P
            /\ leasedBy' = [l EXCEPT ![q[i].session] = P]
            /\ grant' = [g EXCEPT ![q[i].session] = P]
            /\ queue' = Without(q, i)

(***************************************************************************)
(* serveQueueLocked, from free pool f, leases l and queue q: a prefix of   *)
(* the queue is granted, one waiter after the other, and the loop stops    *)
(* only at the end of the queue or at a head that does not fit.            *)
(***************************************************************************)
ServeFirst(k, parts, f, l, q, g) ==
    LET taken == UNION {parts[i] : i \in 1..k}
        Given(old) == [s \in Sessions |->
            IF \E i \in 1..k : q[i].session = s
            THEN parts[CHOOSE i \in 1..k : q[i].session = s]
            ELSE old[s]]
    IN /\ \A i \in 1..k : parts[i] \in Takes(f, q[i].count)
       /\ \A i, j \in 1..k : i # j => parts[i] \cap parts[j] = {}
       /\ k < Len(q) => Cardinality(f \ taken) < q[k + 1].count
       /\ free' = f \ taken
       /\ leasedBy' = Given(l)
       /\ grant' = Given(g)
       /\ queue' = SubSeq(q, k + 1, Len(q))

ServeQueue(f, l, q, g) ==
    \E k \in 0..Len(q) : \E parts \in [1..k -> SUBSET f] : ServeFirst(k, parts, f, l, q, g)

\* Acquire's checks that return an error before anything is touched.
AcquireErrors(s, n) == n <= 0 \/ n > Total \/ leasedBy[s] # {}

\* Mutant: a new arrival does not look at the queue.
AcquireFast_Overtakes(s, n) ==
    /\ call[s] = "idle"
    /\ ~AcquireErrors(s, n)
    /\ Cardinality(free) >= n
    /\ \E P \in Takes(free, n) :
        /\ free' = free \ P
        /\ leasedBy' = [leasedBy EXCEPT ![s] = P]
    /\ call' = [call EXCEPT ![s] = "held"]
    /\ UNCHANGED <<queue, grant>>

\* Acquire, fast path: only when nobody is queued.
AcquireFast(s, n) ==
    /\ call[s] = "idle"
    /\ ~AcquireErrors(s, n)
    /\ queue = <<>>
    /\ Cardinality(free) >= n
    /\ \E P \in Takes(free, n) :
        /\ free' = free \ P
        /\ leasedBy' = [leasedBy EXCEPT ![s] = P]
    /\ call' = [call EXCEPT ![s] = "held"]
    /\ UNCHANGED <<queue, grant>>

\* Acquire, slow path: append a waiter and park.
AcquireEnqueue(s, n) ==
    /\ call[s] = "idle"
    /\ ~AcquireErrors(s, n)
    /\ ~(queue = <<>> /\ Cardinality(free) >= n)
    /\ queue' = Append(queue, [session |-> s, count |-> n])
    /\ call' = [call EXCEPT ![s] = "waiting"]
    /\ UNCHANGED <<free, leasedBy, grant>>

\* The select takes the grant branch.
ReceiveGrant(s) ==
    /\ call[s] = "waiting"
    /\ grant[s] # {}
    /\ grant' = [grant EXCEPT ![s] = {}]
    /\ call' = [call EXCEPT ![s] = "held"]
    /\ UNCHANGED <<free, leasedBy, queue>>

\* Mutant: removing a waiter does not serve the one behind it.
CancelQueued_NoServe(s) ==
    /\ call[s] = "waiting"
    /\ \E i \in DOMAIN queue :
        /\ queue[i].session = s
        /\ queue' = Without(queue, i)
    /\ call' = [call EXCEPT ![s] = "idle"]
    /\ UNCHANGED <<free, leasedBy, grant>>

\* The select takes the ctx.Done branch and the waiter is still queued.
CancelQueued(s) ==
    /\ call[s] = "waiting"
    /\ \E i \in DOMAIN queue :
        /\ queue[i].session = s
        /\ ServeQueue(free, leasedBy, Without(queue, i), grant)
    /\ call' = [call EXCEPT ![s] = "idle"]

\* The select takes the ctx.Done branch although a grant was delivered.
CancelGranted(s) ==
    /\ call[s] = "waiting"
    /\ ~InQueue(queue, s)
    /\ call' = [call EXCEPT ![s] = "undoing"]
    /\ UNCHANGED <<free, leasedBy, queue, grant>>

\* Mutant: the undo drops the lease and forgets to refill the free pool.
UndoGrant_Leaks(s) ==
    /\ call[s] = "undoing"
    /\ grant[s] # {}
    /\ ServeQueue(free, [leasedBy EXCEPT ![s] = {}], queue,
                  [grant EXCEPT ![s] = {}])
    /\ call' = [call EXCEPT ![s] = "idle"]

\* ... receives it with the mutex dropped, takes the mutex again, gives it back.
UndoGrant(s) ==
    /\ call[s] = "undoing"
    /\ grant[s] # {}
    /\ ServeQueue(free \cup grant[s], [leasedBy EXCEPT ![s] = {}], queue,
                  [grant EXCEPT ![s] = {}])
    /\ call' = [call EXCEPT ![s] = "idle"]

\* Release by the session that Acquire returned to.
Release(s) ==
    /\ call[s] = "held"
    /\ ServeQueue(free \cup leasedBy[s], [leasedBy EXCEPT ![s] = {}], queue, grant)
    /\ call' = [call EXCEPT ![s] = "idle"]

Next ==
    \E s \in Sessions :
        \/ \E n \in Counts : AcquireFast(s, n) \/ AcquireEnqueue(s, n)
        \/ ReceiveGrant(s)
        \/ CancelQueued(s)
        \/ CancelGranted(s)
        \/ UndoGrant(s)
        \/ Release(s)

Spec == Init /\ [][Next]_vars

(***************************************************************************)
(* Fairness: a parked select with a ready channel runs, a goroutine that   *)
(* undoes a grant runs, and a session that holds a lease ends (every stage *)
(* of runSession is bounded by a deadline) and runs its deferred Release.  *)
(* Acquire and cancellation are the environment's choice.                  *)
(***************************************************************************)
FairSpec ==
    /\ Spec
    /\ \A s \in Sessions :
        /\ WF_vars(ReceiveGrant(s))
        /\ WF_vars(UndoGrant(s))
        /\ WF_vars(Release(s))

-----------------------------------------------------------------------------
(* Properties *)

\* No index is leased to two sessions, and none is both leased and free: two
\* sessions' worker specs never collide on a partition (lease.go's promise).
Exclusive ==
    /\ \A s, t \in Sessions : s # t => leasedBy[s] \cap leasedBy[t] = {}
    /\ \A s \in Sessions : leasedBy[s] \cap free = {}

\* Nothing is lost: every index is free or leased, through grants, undone
\* grants, cancellations and releases.
Conserved == free \cup UNION {leasedBy[s] : s \in Sessions} = Partitions

\* The bookkeeping of a parked Acquire: a lease is recorded for exactly the
\* sessions that hold one or have one in their channel, the channel holds
\* what is recorded (so the undo path frees neither more nor less), and a
\* waiter is queued exactly while it has no grant, and queued only once.
GrantMatchesLease ==
    /\ \A s \in Sessions :
        /\ call[s] = "idle" => leasedBy[s] = {} /\ grant[s] = {}
        /\ call[s] = "held" => leasedBy[s] # {} /\ grant[s] = {}
        /\ call[s] = "undoing" => leasedBy[s] # {} /\ grant[s] = leasedBy[s]
        /\ call[s] = "waiting" => grant[s] = leasedBy[s]
        /\ InQueue(queue, s) <=> (call[s] = "waiting" /\ grant[s] = {})
    /\ \A i, j \in DOMAIN queue : queue[i].session = queue[j].session => i = j

\* No lost wakeup: whoever changes the pool or the queue leaves no head
\* waiter that would fit.  This is what each of the three calls of
\* serveQueueLocked is for.
NoIdleCapacity == queue # <<>> => Cardinality(free) < Head(queue).count

\* FIFO: nobody obtains indices while somebody stays queued ahead of them,
\* neither by the fast path nor by a smaller request skimming the pool.
NoOvertaking ==
    [][\A s \in Sessions :
        (leasedBy[s] = {} /\ leasedBy'[s] # {}) =>
            \A i \in DOMAIN queue :
                \/ queue[i].session = s
                \/ \E j \in 1..(i - 1) : queue[j].session = s
                \/ ~InQueue(queue', queue[i].session)]_vars

\* No starvation: a parked Acquire does not stay parked for ever, however
\* many smaller requests keep arriving, even if its context never ends.
WaiterServed == \A s \in Sessions : (call[s] = "waiting") ~> (call[s] # "waiting")

\* The allocator implements an exclusive lease: with its queue, channels and
\* cancellation hidden, every step is a step of ExclusiveLease, so that no index
\* is lost when a grant races a cancellation.
Lease == INSTANCE ExclusiveLease WITH owns <- leasedBy, pool <- free
ImplementsExclusiveLease == Lease!Spec
=============================================================================
