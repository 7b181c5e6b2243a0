----------------------------- MODULE OrderStream -----------------------------
(***************************************************************************)
(* services/correctness-validator/internal/source: how a finished session  *)
(* is read back from the partitions of orders.sent and orders.acked.       *)
(* stream.go merges the partitions by event time, joins each order with    *)
(* its acks inside a window and hands the joined orders to reorder.go,     *)
(* which puts them into replay order with bounded memory; the invariants   *)
(* validator grades them as they come out.                                 *)
(*                                                                         *)
(* What the bots and the capture wrote (external) is chosen by Sends and   *)
(* Opens: what happened to each order, and the batches of each partition.  *)
(* A bot reports an order once it was answered or timed out, the capture   *)
(* reports a response when it passes by, and a producer may repeat an ack  *)
(* batch.                                                                  *)
(***************************************************************************)
EXTENDS Invariants, FiniteSets

CONSTANTS
    Environments,       \* the sessions considered, see OrdersOf
    JoinWindow,         \* DefaultJoinWindowNS
    ReorderWindow,      \* DefaultReorderWindow, VALIDATOR_REORDER_WINDOW
    BotTimeout,
    GapTaintPercent     \* DefaultCaptureGapTaintRate

VARIABLES
    env,        \* the environment of this session
    orders,     \* what happened to each order on the wire
    streams,    \* one per partition: its topic and the batches still to be read
    s,          \* the state of StreamSession and of what it feeds
    failed,     \* a partition reader has failed
    done

streamVars == <<env, orders, streams, s, failed, done>>

-----------------------------------------------------------------------------
(* External: orders on the wire.  Order i is sent at time i + 1 on the next      *)
(* sequence number of its flow.  It reaches the contestant after one of          *)
(* env.lags, is answered after the delays of one of env.answers, and the         *)
(* capture's clock is behind the bot's by env.skew.                              *)

OrderOn(flow, lag, answer, captured) ==
    LET i == Len(orders) + 1
        t3 == i + 1 + lag - env.skew
        nth == Len(SelectSeq(orders, LAMBDA o : o.flow = flow))
    IN  [id |-> i, flow |-> flow, seq |-> (env.seq + nth) % SeqSpace, send |-> i + 1, t3 |-> t3,
         t7 |-> [k \in DOMAIN answer |-> t3 + answer[k]], captured |-> captured]

\* The bot's view: whether it gave up, and when it reported the order.
TimedOut(o) == o.t7 = <<>> \/ o.t7[1] + env.skew - o.send > BotTimeout
ReportedAt(o) == IF TimedOut(o) THEN o.send + BotTimeout ELSE o.t7[1] + env.skew

InPart(o, part) == o.flow % env.parts = part
SentEvents(part) ==
    SetToSortSeq({[id |-> o.id, ts |-> o.send, timedOut |-> TimedOut(o), at |-> ReportedAt(o)] :
                    o \in {x \in Range(orders) : InPart(x, part)}},
                 LAMBDA a, b : a.at < b.at \/ (a.at = b.at /\ a.id < b.id))
AckEvents(part) ==
    SetToSortSeq(UNION {{[id |-> o.id, ts |-> o.t3, at |-> o.t7[k], flow |-> o.flow, seq |-> o.seq] :
                           k \in DOMAIN o.t7} :
                    o \in {x \in Range(orders) : x.captured /\ InPart(x, part)}},
                 LAMBDA a, b : a.at < b.at \/ (a.at = b.at /\ a.id < b.id))

Batches(isAck, events) ==
    [k \in 1..((Len(events) + env.batch - 1) \div env.batch) |->
        LET last == IF k * env.batch < Len(events) THEN k * env.batch ELSE Len(events)
            b == SubSeq(events, (k - 1) * env.batch + 1, last)
        IN  [isAck |-> isAck, ts |-> b[1].ts, events |-> b]]
\* A producer that retries writes a batch twice.
Repeated(batches, k) ==
    IF k \in DOMAIN batches THEN SubSeq(batches, 1, k) \o SubSeq(batches, k, Len(batches)) ELSE batches

Partitions(repeat) ==
    [i \in 1..(2 * env.parts) |->
        IF i <= env.parts THEN Batches(FALSE, SentEvents(i - 1))
        ELSE Repeated(Batches(TRUE, AckEvents(i - env.parts - 1)), repeat)]

-----------------------------------------------------------------------------
(* reorder.go and replay/order.go *)

Less(a, b) ==
    \/ a.eff < b.eff
    \/ a.eff = b.eff /\ a.flow < b.flow
    \/ a.eff = b.eff /\ a.flow = b.flow /\ seqLess(a.seq, b.seq)

\* EffectiveT3: an order is not delivered before one that precedes it on its connection.
EffectiveT3(o, buf, carry) ==
    LET times == {x.t3 : x \in {y \in Range(buf) : y.flow = o.flow /\ seqLE(y.seq, o.seq)}}
                 \cup (IF o.flow \in DOMAIN carry THEN {carry[o.flow]} ELSE {})
    IN  CHOOSE t \in times : \A u \in times : u <= t
promote(buf, carry) == [i \in DOMAIN buf |-> [buf[i] EXCEPT !.eff = EffectiveT3(buf[i], buf, carry)]]

\* replay.Order: the order of the whole session.
ReplayOrder(os) == StableSort(promote(os, <<>>), Less)

emit(w, o) ==
    [w EXCEPT !.carry = IF o.flow \notin DOMAIN @ \/ o.eff > @[o.flow] THEN (o.flow :> o.eff) @@ @ ELSE @,
              !.replayed = Append(@, o),
              !.inv = InvApply(@, o)]

release(w, n) ==
    LET sorted == StableSort(promote(w.buf, w.carry), Less)
    IN  [FoldLeft(emit, w, SubSeq(sorted, 1, n)) EXCEPT !.buf = SubSeq(sorted, n + 1, Len(sorted))]

\* Mutant: a full buffer is released whole.
Push_ReleasesAll(w, o) ==
    LET full == [w EXCEPT !.buf = Append(@, o)]
    IN  IF Len(full.buf) >= 2 * ReorderWindow THEN release(full, Len(full.buf)) ELSE full
Push(w, o) ==
    LET full == [w EXCEPT !.buf = Append(@, o)]
    IN  IF Len(full.buf) >= 2 * ReorderWindow THEN release(full, ReorderWindow) ELSE full
Flush(w) == release(w, Len(w.buf))

-----------------------------------------------------------------------------
(* The join *)

NewPending == [hasSent |-> FALSE, sendTS |-> 0, timedOut |-> FALSE, acks |-> <<>>, t3 |-> 0]

outcome(po) ==
    CASE ~po.hasSent -> "unsent"
      [] po.hasSent /\ po.acks # <<>> -> "matched"
      [] po.hasSent /\ po.acks = <<>> /\ po.timedOut -> "lost"
      [] OTHER -> "gap"

\* Acks are told apart by their kind and T7.
addAck(po, a) ==
    IF \E i \in DOMAIN po.acks : po.acks[i].at = a.at THEN po
    ELSE [po EXCEPT !.acks = Append(@, a), !.t3 = IF @ = 0 THEN a.ts ELSE @]
addSent(po, e) == [po EXCEPT !.hasSent = TRUE, !.sendTS = e.ts, !.timedOut = e.timedOut]

Joined(w, b) ==
    LET join(x, e) ==
          LET po == IF e.id \in DOMAIN x.pending THEN x.pending[e.id] ELSE NewPending
          IN  [x EXCEPT !.pending = (e.id :> IF b.isAck THEN addAck(po, e) ELSE addSent(po, e)) @@ @,
                        !.fifo = IF e.id \in DOMAIN x.pending THEN @ ELSE Append(@, e.id)]
    IN  FoldLeft(join, w, b.events)

\* pipeline.AssembleOrder: flow, sequence number and arrival are those of the first ack.
AssembleOrder(id, po) ==
    LET first == po.acks[1]
    IN  [id |-> id, flow |-> first.flow, seq |-> first.seq, t3 |-> first.ts, eff |-> 0,
         qty |-> Len(orders[id].t7),
         responses |-> [i \in DOMAIN po.acks |-> [t7 |-> po.acks[i].at, qty |-> 1]]]

Judge(w, id) ==
    LET po == w.pending[id]
        x == [w EXCEPT !.judged = Append(@, [id |-> id, outcome |-> outcome(po)]),
                       !.pending = Restrict(@, DOMAIN @ \ {id}),
                       !.fifo = Tail(@)]
    IN  CASE outcome(po) = "matched" -> Push(x, AssembleOrder(id, po))
          [] outcome(po) = "lost" -> [x EXCEPT !.inv = InvAddLost(@, id)]
          [] outcome(po) = "gap" -> [x EXCEPT !.inv = InvAddCaptureGap(@)]
          [] outcome(po) = "unsent" -> [x EXCEPT !.inv = InvAddUnmatched(@, Len(po.acks))]

RefTime(po) == IF po.sendTS # 0 THEN po.sendTS ELSE po.t3

\* Mutant: an order is judged as soon as anything of it is seen.
emitReady_NoWindow(w, watermark, flushAll) == FoldLeft(Judge, w, w.fifo)
\* The oldest entries, up to the first one whose acks may still be on their way.
emitReady(w, watermark, flushAll) ==
    LET recent == {i \in DOMAIN w.fifo : RefTime(w.pending[w.fifo[i]]) + JoinWindow > watermark}
        cut == IF flushAll \/ recent = {} THEN Len(w.fifo)
               ELSE (CHOOSE i \in recent : \A j \in recent : i <= j) - 1
    IN  FoldLeft(Judge, w, SubSeq(w.fifo, 1, cut))

-----------------------------------------------------------------------------
(* StreamSession *)

NewSession ==
    [pending |-> <<>>, fifo |-> <<>>, judged |-> <<>>, buf |-> <<>>, carry |-> <<>>,
     replayed |-> <<>>, inv |-> NewInvariantsValidator]

StreamInit ==
    /\ env \in Environments
    /\ orders = <<>> /\ streams = <<>>
    /\ s = NewSession /\ failed = FALSE /\ done = FALSE

\* The session on the wire.
Sends ==
    /\ Len(orders) < env.orders
    /\ \E flow \in env.flows, lag \in env.lags, answer \in env.answers, captured \in env.captured :
          /\ answer = <<>> => captured
          /\ orders' = Append(orders, OrderOn(flow, lag, answer, captured))
    /\ UNCHANGED <<env, streams, s, failed, done>>

\* The session is over and its partitions are opened.
Opens ==
    /\ Len(orders) = env.orders /\ streams = <<>>
    /\ \E repeat \in env.repeats : streams' = Partitions(repeat)
    /\ UNCHANGED <<env, orders, s, failed, done>>

Live == {i \in DOMAIN streams : streams[i] # <<>>}
Head_(i) == Head(streams[i])
\* The live stream with the earliest head, the first of them on a tie.
Earliest == CHOOSE i \in Live : \A j \in Live :
    Head_(i).ts < Head_(j).ts \/ (Head_(i).ts = Head_(j).ts /\ i <= j)

MergeStep ==
    /\ ~done /\ Live # {}
    /\ LET b == Head_(Earliest)
       IN  s' = emitReady(Joined(s, b), b.ts, FALSE)
    /\ streams' = [streams EXCEPT ![Earliest] = Tail(@)]
    /\ UNCHANGED <<env, orders, failed, done>>

\* A reader that fails closes its channel; the merge goes on with what the others have.
ReaderFails(i) ==
    /\ env.fails /\ ~failed /\ ~done /\ i \in Live
    /\ streams' = [streams EXCEPT ![i] = <<>>]
    /\ failed' = TRUE
    /\ UNCHANGED <<env, orders, s, done>>

\* All partitions are read: what is left is judged and released.  A failure is returned
\* only now.
Drain ==
    /\ ~done /\ streams # <<>> /\ Live = {}
    /\ LET w == Flush(emitReady(s, 0, TRUE))
       IN  s' = [w EXCEPT !.inv = IF failed THEN @ ELSE InvFinish(@, GapTaintPercent)]
    /\ done' = TRUE
    /\ UNCHANGED <<env, orders, streams, failed>>

Terminated == done /\ UNCHANGED streamVars
StreamNext == Sends \/ Opens \/ MergeStep \/ Drain \/ Terminated \/ \E i \in DOMAIN streams : ReaderFails(i)

-----------------------------------------------------------------------------
Graded == done /\ ~failed
Ids == DOMAIN orders

TypeOK ==
    /\ DOMAIN s.pending \subseteq Ids /\ Range(s.fifo) = DOMAIN s.pending
    /\ Len(s.buf) < 2 * ReorderWindow /\ Len(s.inv.buf) < 2 * T7Window
    /\ failed \in BOOLEAN /\ done \in BOOLEAN

OutcomesOf(id) ==
    {i \in DOMAIN s.judged : s.judged[i].id = id /\ s.judged[i].outcome # "unsent"}
\* The responses are recorded within the join window of the request, on the clocks of
\* the bot and of the capture, and the bot reported the order within it.
Prompt(o) ==
    /\ \A k \in DOMAIN o.t7 : o.t7[k] < o.send + JoinWindow
    /\ ReportedAt(o) < o.t3 + JoinWindow
Witnessed(o) == IF o.captured /\ o.t7 # <<>> THEN "matched" ELSE IF TimedOut(o) THEN "lost" ELSE "gap"

(***************************************************************************)
(* The merge and the join lose and invent nothing: every order that was    *)
(* sent is judged exactly once, and an order whose records fall within the *)
(* join window is judged by what happened to it, with all its responses    *)
(* and, though producers repeat batches, with none of them twice.          *)
(***************************************************************************)
JoinComplete ==
    Graded =>
        /\ \A id \in Ids : Cardinality(OutcomesOf(id)) = 1
        /\ \A id \in Ids : Prompt(orders[id]) =>
             \A i \in DOMAIN s.judged : s.judged[i].id = id => s.judged[i].outcome = Witnessed(orders[id])
        /\ \A i \in DOMAIN s.replayed : Prompt(orders[s.replayed[i].id]) =>
             {r.t7 : r \in Range(s.replayed[i].responses)} = Range(orders[s.replayed[i].id].t7)
        /\ s.inv.overfilled = {}

\* The orders as they were pushed into the reorderer.
Pushed == SelectSeq([i \in DOMAIN s.judged |-> s.judged[i]], LAMBDA j : j.outcome = "matched")
PlaceIn(seq, id) == CHOOSE i \in DOMAIN seq : seq[i].id = id
Displaced(id, order) ==
    LET from == PlaceIn(Pushed, id)
        to == PlaceIn(order, id)
    IN  IF from > to THEN from - to ELSE to - from

(***************************************************************************)
(* Bounded memory, and head-of-line promotion cut into windows, do not     *)
(* change the order in which the session is replayed, provided no order    *)
(* is pushed more than `window` places from its place and none before its  *)
(* predecessor on the same connection.                                     *)
(***************************************************************************)
ReplayedInOrder ==
    Graded =>
        LET whole == ReplayOrder(s.replayed)
        IN  /\ \A i \in DOMAIN whole : Displaced(whole[i].id, whole) <= ReorderWindow
            /\ \A i, j \in DOMAIN whole :
                 i < j /\ whole[i].flow = whole[j].flow =>
                    PlaceIn(Pushed, whole[i].id) < PlaceIn(Pushed, whole[j].id)
            => s.replayed = whole

MinT7(o) == LET t == {r.t7 : r \in Range(o.responses)} IN CHOOSE x \in t : \A y \in t : x <= y
Processing == StableSort(s.replayed, LAMBDA a, b : MinT7(a) < MinT7(b))
FlowBefore(p, i) == {j \in 1..(i - 1) : p[j].flow = p[i].flow}
OvertakenBy(p, i) == {p[j].t3 - p[i].t3 : j \in {k \in 1..(i - 1) : p[k].flow # p[i].flow /\ p[k].t3 > p[i].t3}}
\* Within a factor of two below the sample of this rank.
Brackets(estimate, samples, permille) ==
    LET exact == StableSort(samples, <)[1 + (permille * (Len(samples) - 1)) \div 1000]
    IN  estimate <= exact /\ exact < 2 * estimate
MaxOf(S) == CHOOSE x \in S : \A y \in S : y <= x

(***************************************************************************)
(* Constant state suffices: unless a record came too late for the window,  *)
(* the orders flagged and the inversions counted are those that the whole  *)
(* session, in the order the contestant processed it, contains, and the    *)
(* histogram's percentiles are within a factor of two.  A late record is   *)
(* counted, and what leaves the window is always in order.                 *)
(***************************************************************************)
FlagsExact ==
    Graded =>
        LET p == Processing
            e == s.inv.emitted
            inverted == {i \in DOMAIN p : OvertakenBy(p, i) # {}}
            jitter == [k \in 1..Cardinality(inverted) |-> MaxOf(OvertakenBy(p, SetToSortSeq(inverted, <)[k]))]
        IN  /\ Len(e) + s.inv.late = s.inv.applied
            /\ \A i, j \in DOMAIN e : i < j => e[i].minT7 <= e[j].minT7
            /\ s.inv.late = 0 =>
                 /\ [i \in DOMAIN e |-> e[i].id] = [i \in DOMAIN p |-> p[i].id]
                 /\ s.inv.fifo = {p[i].id : i \in {k \in DOMAIN p : FlowBefore(p, k) # {} /\
                                                    seqLE(p[k].seq, p[MaxOf(FlowBefore(p, k))].seq)}}
                 /\ s.inv.cross = {p[i].id : i \in {k \in inverted : MaxOf(OvertakenBy(p, k)) > CrossFlowWindow}}
                 /\ s.inv.jitter.count = Cardinality(inverted)
                 /\ inverted # {} => /\ s.inv.jitter.max = MaxOf(Range(jitter))
                                    /\ Brackets(s.inv.p50, jitter, 500)
                                    /\ Brackets(s.inv.p99, jitter, 990)
=============================================================================
