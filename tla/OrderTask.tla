------------------------------ MODULE OrderTask ------------------------------
(***************************************************************************)
(* One bot task of services/bot-fleet (worker.rs): the three loops that    *)
(* run_fix_task and run_readwrite_task spawn over one connection, and the  *)
(* pending map, expiry queue and Notify they share.                        *)
(*                                                                         *)
(* The writer offers orders on schedule and waits while too many are       *)
(* unanswered; the reader matches answers; the watchdog times orders out.  *)
(* fix_write_loop and rw_write_loop have the same control, and so have the *)
(* three read loops; each lock scope is one action.  An event handed to    *)
(* the telemetry sink is recorded in the step that takes the order out of  *)
(* the map: no other loop can see the order in between.                    *)
(***************************************************************************)
EXTENDS Integers, Sequences, SequencesExt, FiniteSets, FiniteSetsExt, Functions, TLC

CONSTANTS
    MaxOrders,      \* bound on what the generator yields
    MaxTime,        \* bound on the clock
    Environments    \* what a behaviour may meet, one of these records:
                    \*   maxInflight, batchMax: Config
                    \*   interval: pacer interval, 0 for max rate
                    \*   taskEnd, timeout: task_end_ns, RESPONSE_TIMEOUT_NS
                    \*   tick: WATCHDOG_TICK
                    \*   faults: which of "cancel", "write", "read", "stall" may happen

ASSUME BoundsKnown ==
    /\ MaxOrders \in Nat /\ MaxTime \in Nat
    /\ \A e \in Environments :
          /\ e.maxInflight \in Nat \ {0} /\ e.batchMax \in Nat \ {0}
          /\ e.interval \in Nat /\ e.tick \in Nat \ {0}
          /\ e.taskEnd \in Nat /\ e.timeout \in Nat /\ e.taskEnd + e.timeout < MaxTime
          /\ e.faults \subseteq {"cancel", "write", "read", "stall"}

VARIABLES
    env,
    now,
    cancelled,      \* the CancelToken
    wpc, batch,     \* the writer and the orders of its current write
    sentAt,         \* when that write returned
    offered,        \* number of orders the generator has made; they are 1..offered
    nextSend,       \* next_send_ns
    pending,        \* PendingMap: order -> its send_ts_ns
    queue,          \* ExpiryQueue
    permit,         \* the permit Notify stores for one waiter
    gauge,          \* metrics inflight
    rpc,            \* the reader
    dpc, dnow, due, \* the watchdog: state, its last look at the clock, popped orders
    wake,           \* when its sleep ends
    acked, expired, \* orders recorded with timed_out false and true
    unsent          \* orders withdrawn after a write error

writerVars == <<wpc, batch, sentAt, offered, nextSend>>
watchdogVars == <<dpc, dnow, due, wake>>
vars == <<env, now, cancelled, writerVars, pending, queue, permit, gauge, rpc,
          watchdogVars, acked, expired, unsent>>

Orders == 1..MaxOrders
Waiting == DOMAIN pending
MaxRate == env.interval = 0
DrainEnd == env.taskEnd + env.timeout
LastTick(t) == t >= DrainEnd
Done == wpc = "done" /\ rpc = "done" /\ dpc = "done"

TypeOK ==
    /\ env \in Environments
    /\ now \in 0..MaxTime /\ cancelled \in BOOLEAN
    /\ wpc \in {"top", "room", "recheck", "park", "pace", "write", "push", "done"}
    /\ sentAt \in 0..MaxTime /\ offered \in 0..MaxOrders /\ nextSend \in Nat
    /\ Waiting \subseteq 1..offered /\ batch \subseteq 1..offered /\ due \subseteq 1..offered
    /\ \A i \in DOMAIN queue : queue[i].order \in 1..offered
    /\ permit \in BOOLEAN /\ gauge \in Nat
    /\ rpc \in {"read", "done"} /\ dpc \in {"look", "evict", "sleep", "done"}
    /\ acked \cup expired \cup unsent \subseteq 1..offered

Init ==
    /\ env \in Environments
    /\ now = 0 /\ cancelled = FALSE
    /\ wpc = "top" /\ batch = {} /\ sentAt = 0 /\ offered = 0 /\ nextSend = 0
    /\ pending = <<>> /\ queue = <<>> /\ permit = FALSE /\ gauge = 0
    /\ rpc = "read"
    /\ dpc = "look" /\ dnow = 0 /\ due = {} /\ wake = 0
    /\ acked = {} /\ expired = {} /\ unsent = {}

Without(orders) == Restrict(pending, Waiting \ orders)

should_stop_sending == cancelled \/ now >= env.taskEnd

-----------------------------------------------------------------------------
(* The writer *)

WriterTop ==
    /\ wpc = "top"
    /\ wpc' = IF should_stop_sending THEN "done" ELSE "room"
    /\ UNCHANGED <<env, now, cancelled, batch, sentAt, offered, nextSend, pending, queue, permit,
                   gauge, rpc, watchdogVars, acked, expired, unsent>>

Full == Cardinality(Waiting) >= env.maxInflight

\* The while loop's condition: room ends it without another look at the clock.
AwaitRoom ==
    /\ wpc = "room"
    /\ wpc' = IF ~Full THEN "pace" ELSE IF should_stop_sending THEN "done" ELSE "recheck"
    /\ UNCHANGED <<env, now, cancelled, batch, sentAt, offered, nextSend, pending, queue,
                   permit, gauge, rpc, watchdogVars, acked, expired, unsent>>

\* notified() exists by now, and the map is looked at once more before the select.
Recheck ==
    /\ wpc = "recheck"
    /\ wpc' = IF Full THEN "park" ELSE "pace"
    /\ UNCHANGED <<env, now, cancelled, batch, sentAt, offered, nextSend, pending, queue,
                   permit, gauge, rpc, watchdogVars, acked, expired, unsent>>

\* notified() resolves once a permit is there, also one stored earlier.
Parked ==
    /\ wpc = "park"
    /\ \/ permit /\ wpc' = "room" /\ permit' = FALSE
       \/ cancelled /\ wpc' = "done" /\ UNCHANGED permit
    /\ UNCHANGED <<env, now, cancelled, batch, sentAt, offered, nextSend, pending, queue,
                   gauge, rpc, watchdogVars, acked, expired, unsent>>

\* How many orders are due, up to batch_max and what the generator has left.
DueCount ==
    Min({env.batchMax, MaxOrders - offered,
         IF MaxRate THEN env.batchMax
         ELSE IF nextSend > now THEN 0 ELSE (now - nextSend) \div env.interval + 1})

\* Sleep until the next order is due, collect all that are, insert them with the
\* provisional stamp and start the write.  Nothing due is the loop's continue.
Collect ==
    /\ wpc = "pace"
    /\ MaxRate \/ nextSend <= now
    /\ LET new == (offered + 1)..(offered + DueCount) IN
       /\ offered' = offered + DueCount
       /\ nextSend' = nextSend + DueCount * env.interval
       /\ pending' = [o \in new \cup Waiting |-> IF o \in new THEN now ELSE pending[o]]
       /\ gauge' = gauge + DueCount
       /\ batch' = new
       /\ wpc' = IF new = {} THEN "top" ELSE "write"
    /\ UNCHANGED <<env, now, cancelled, sentAt, queue, permit, rpc, watchdogVars, acked, expired,
                   unsent>>

\* cancelled() while pacing or while the write blocks, and the drain deadline while it
\* blocks: the batch stays in the map.
Abandon ==
    /\ \/ wpc \in {"pace", "write"} /\ cancelled
       \/ wpc = "write" /\ now >= DrainEnd
    /\ wpc' = "done"
    /\ UNCHANGED <<env, now, cancelled, batch, sentAt, offered, nextSend, pending, queue, permit,
                   gauge, rpc, watchdogVars, acked, expired, unsent>>

\* write_all returned: the stamp of everything still pending is refined.
WriteOk ==
    /\ wpc = "write"
    /\ sentAt' = now
    /\ pending' = [o \in Waiting |-> IF o \in batch THEN now ELSE pending[o]]
    /\ wpc' = "push"
    /\ UNCHANGED <<env, now, cancelled, batch, offered, nextSend, queue, permit, gauge, rpc,
                   watchdogVars, acked, expired, unsent>>

Entries(deadline) ==
    [i \in 1..Cardinality(batch) |-> [order |-> Min(batch) + i - 1, deadline |-> deadline]]

\* The second lock after a write: one entry per order, answered meanwhile or not.
PushExpiry ==
    /\ wpc = "push"
    /\ queue' = queue \o Entries(sentAt + env.timeout)
    /\ batch' = {} /\ sentAt' = 0 /\ wpc' = "top"
    /\ UNCHANGED <<env, now, cancelled, offered, nextSend, pending, permit, gauge, rpc, watchdogVars, acked, expired, unsent>>

\* remove_batch_from_pending: what is still there of the batch leaves without an event.
WriteFails ==
    /\ wpc = "write" /\ "write" \in env.faults
    /\ pending' = Without(batch)
    /\ unsent' = unsent \cup (batch \cap Waiting)
    /\ gauge' = gauge - Cardinality(batch \cap Waiting)
    /\ wpc' = "done" /\ batch' = {}
    /\ UNCHANGED <<env, now, cancelled, sentAt, offered, nextSend, queue, permit, rpc,
                   watchdogVars, acked, expired>>

Writer ==
    \/ WriterTop \/ AwaitRoom \/ Recheck \/ Parked \/ Collect
    \/ Abandon \/ WriteOk \/ PushExpiry \/ WriteFails

-----------------------------------------------------------------------------
(* The reader *)

\* A response names an order: the first one for it takes it out of the map, later ones
\* find nothing.  The peer may answer before the batch's write has returned.
Answer(o) ==
    /\ rpc = "read" /\ o \in Waiting
    /\ acked' = acked \cup {o}
    /\ pending' = Without({o})
    /\ gauge' = gauge - 1 /\ permit' = TRUE
    /\ UNCHANGED <<env, now, cancelled, writerVars, queue, rpc, watchdogVars, expired,
                   unsent>>

\* The drain deadline, the end of the stream, or a read error.
ReaderExits ==
    /\ rpc = "read" /\ (now >= DrainEnd \/ "read" \in env.faults)
    /\ rpc' = "done"
    /\ UNCHANGED <<env, now, cancelled, writerVars, pending, queue, permit, gauge,
                   watchdogVars, acked, expired, unsent>>

Reader == (\E o \in Orders : Answer(o)) \/ ReaderExits

-----------------------------------------------------------------------------
(* The watchdog *)

\* Mutant: an entry due exactly now waits for the next tick.
IsDue_Strict(e, t) == LastTick(t) \/ e.deadline < t

IsDue(e, t) == LastTick(t) \/ e.deadline <= t

\* pop_due_expirations: from the front, up to the first entry that is not due.
DueLength(t) ==
    Max({0} \cup {n \in 1..Len(queue) : \A i \in 1..n : IsDue(queue[i], t)})

Look ==
    /\ dpc = "look"
    /\ dnow' = now
    /\ due' = {queue[i].order : i \in 1..DueLength(now)}
    /\ queue' = SubSeq(queue, DueLength(now) + 1, Len(queue))
    /\ dpc' = "evict"
    /\ UNCHANGED <<env, now, cancelled, writerVars, pending, permit, gauge, rpc, wake,
                   acked, expired, unsent>>

\* Mutant: the last tick only takes what the queue knows of.
Evicted_QueueOnly == due \cap Waiting

\* What the popped entries, or on the last tick the whole map, still hold.
Evicted == IF LastTick(dnow) THEN Waiting ELSE due \cap Waiting

\* Mutant: nobody is told that the map shrank.
Evict_NoNotify ==
    /\ dpc = "evict"
    /\ pending' = Without(Evicted)
    /\ expired' = expired \cup Evicted
    /\ gauge' = gauge - Cardinality(Evicted)
    /\ due' = {} /\ dnow' = 0
    /\ dpc' = IF LastTick(dnow) THEN "done" ELSE "sleep"
    /\ wake' = Min({now + env.tick, MaxTime})
    /\ UNCHANGED <<env, now, cancelled, writerVars, queue, permit, rpc, acked, unsent>>

Evict ==
    /\ dpc = "evict"
    /\ pending' = Without(Evicted)
    /\ expired' = expired \cup Evicted
    /\ gauge' = gauge - Cardinality(Evicted)
    /\ permit' = (permit \/ Evicted # {})
    /\ due' = {} /\ dnow' = 0
    /\ dpc' = IF LastTick(dnow) THEN "done" ELSE "sleep"
    /\ wake' = Min({now + env.tick, MaxTime})
    /\ UNCHANGED <<env, now, cancelled, writerVars, queue, rpc, acked, unsent>>

Wake ==
    /\ dpc = "sleep" /\ now >= wake
    /\ dpc' = "look" /\ wake' = 0
    /\ UNCHANGED <<env, now, cancelled, writerVars, pending, queue, permit, gauge, rpc,
                   dnow, due, acked, expired, unsent>>

Watchdog == Look \/ Evict \/ Wake

-----------------------------------------------------------------------------
(* Time and shutdown *)

\* Without stalls no loop is kept from a step it can take: time passes only while the
\* writer waits for a permit, for its schedule or for the peer, and the watchdog sleeps.
Idle ==
    /\ dpc = "done" \/ (dpc = "sleep" /\ now < wake)
    /\ \/ wpc = "done"
       \/ wpc = "park" /\ ~permit /\ ~cancelled
       \/ wpc = "pace" /\ ~MaxRate /\ nextSend > now /\ ~cancelled
       \/ wpc = "write" /\ ~cancelled /\ now < DrainEnd

\* The clock stands at MaxTime, after every deadline of the task.
Tick ==
    /\ "stall" \in env.faults \/ Idle
    /\ now' = Min({now + 1, MaxTime})
    /\ UNCHANGED <<env, cancelled, writerVars, pending, queue, permit, gauge, rpc,
                   watchdogVars, acked, expired, unsent>>

\* SIGTERM or SIGINT.
Cancel ==
    /\ "cancel" \in env.faults /\ ~cancelled
    /\ cancelled' = TRUE
    /\ UNCHANGED <<env, now, writerVars, pending, queue, permit, gauge, rpc, watchdogVars,
                   acked, expired, unsent>>

\* The JoinSet is empty: run_fix_task returns.
Returned == Done /\ UNCHANGED vars

Next ==
    \/ Writer \/ Reader \/ Watchdog \/ Tick \/ Cancel \/ Returned

\* The runtime polls every loop that can go on, and time passes.
Fairness ==
    /\ WF_vars(WriterTop \/ AwaitRoom \/ Recheck \/ Parked \/ Collect \/ Abandon \/ PushExpiry)
    /\ WF_vars(ReaderExits) /\ WF_vars(Watchdog) /\ WF_vars(Tick)

Spec == Init /\ [][Next]_vars
FairSpec == Spec /\ Fairness

-----------------------------------------------------------------------------
(* Properties *)

\* Every order has at most one verdict: an answer that races the timeout, or a batch
\* withdrawn after its write failed, is recorded once (the map entry is the token all
\* three loops compete for).  The inflight gauge counts the map, also when part of a
\* failing batch was answered during the write (remove_batch_from_pending's count).  A
\* batch starts below the in-flight cap, so the map overshoots by less than one batch.
\* When the three loops have returned, whatever is left in the map was put there after
\* the drain deadline, in one batch: all else is answered, timed out or withdrawn.
Accounted ==
    /\ acked \cap expired = {} /\ acked \cap unsent = {} /\ expired \cap unsent = {}
    /\ Waiting \cap (acked \cup expired \cup unsent) = {}
    /\ 1..offered = Waiting \cup acked \cup expired \cup unsent
    /\ gauge = Cardinality(Waiting)
    /\ gauge < env.maxInflight + env.batchMax
    /\ Done => /\ Cardinality(Waiting) <= env.batchMax
               /\ \A o \in Waiting : pending[o] >= DrainEnd

\* Timeouts come neither late nor early.  Popping only the front of the queue misses
\* nothing: a pass of the watchdog leaves no entry whose deadline has come, however
\* writes, answers and stalls interleaved; and an order is reported timed out only when
\* it has waited RESPONSE_TIMEOUT_NS since its write returned, or the run is over.
TimeoutsOnTime ==
    [][/\ Look => \A i \in DOMAIN queue' : queue'[i].deadline > now
       /\ \A o \in expired' \ expired : LastTick(now) \/ now >= pending[o] + env.timeout]_vars

\* The task ends: no wakeup of the parked writer is lost, and a peer that never reads
\* does not hold the writer past the drain deadline.
TaskEnds == <>Done
=============================================================================
