----------------------------- MODULE FullReplay -----------------------------
(***************************************************************************)
(* services/correctness-validator/internal/validate/stream.go and          *)
(* validate.go: the full-replay grader of the first wave.  Every order the *)
(* contestant answered is applied to the reference book in replay order    *)
(* and is scored once it has left the book, by comparing the fills the     *)
(* contestant reported for it with the ones the book gave it.              *)
(*                                                                         *)
(* v is the StreamValidator.  The orders of a session are 1, 2, ... in     *)
(* replay order.  What the contestant reported for an order is read when   *)
(* the order is scored, and is chosen there, unless the contestant is the  *)
(* sample engine of CorrectEngine.tla, which reads the orders in the order *)
(* of the replay and answers each as it reads it.                          *)
(***************************************************************************)
EXTENDS OrderBook, FiniteSets

CONSTANTS
    Environments,       \* the sessions considered, see EnvOK
    ShortedCapacity,    \* shortedCapacity
    GapTaintPercent,    \* DefaultCaptureGapTaintRate, in percent
    TieToleranceNs

VARIABLES
    env,        \* the session under way
    v,          \* the validator
    orders,     \* the orders applied so far
    given,      \* all the reference has ever filled, by order
    said,       \* the fills reported for the orders scored so far, as a set of pairs
    sample,     \* the sample engine: its book and its answers
    place,      \* the place in its queue an order got when it arrived, if it got one
    done        \* Finish has returned

vars == <<env, v, orders, given, said, sample, place, done>>

Engine == INSTANCE CorrectEngine

\* script   for each order of the session, the kinds and sides it may have
\* prices, qtys, smps, flows, delays   what orders are made of; delays: EffectiveT3 since
\*          the order before
\* reports  "true": the contestant reports what the reference did; "any": it may report anything;
\*          "sample": it is the sample engine
\* fills    ... in so many fills an order
\* apart    orders the validator hears of outside the replay: answers that never came,
\*          answers the capture lost, fills for orders never sent
EnvOK(e) ==
    /\ \A i \in DOMAIN e.script :
          e.script[i] \subseteq {"limit", "market", "cancel", "replace"} \X Sides
    /\ e.prices \subseteq Prices
    /\ e.qtys \subseteq Nat \ {0}
    /\ e.reports \in {"true", "any", "sample"}
    /\ e.apart \in Nat /\ e.fills \in Nat

NoFills == [qty |-> 0, prices |-> {}]
Ids == DOMAIN orders

\* The examples a report retains of every type of violation are all of them here.
Report ==
    [scoredOrders |-> 0, dirty |-> {}, flags |-> <<>>, lost |-> 0, phantoms |-> 0,
     totalFills |-> 0, tainted |-> FALSE]
NewStreamValidator ==
    [engine |-> NewEngine, pending |-> <<>>, ref |-> <<>>, shorted |-> <<>>, gaps |-> 0] @@ Report

-----------------------------------------------------------------------------
(* Reports *)

MarkDirty(w, id) == [w EXCEPT !.dirty = @ \cup {id}]
\* Every violation goes through add.
add(w, type, id, victim) ==
    [MarkDirty(w, id) EXCEPT !.flags = Append(@, [type |-> type, id |-> id, victim |-> victim])]
flagJump(w, id, victim) ==
    add(w, IF Repriced(w.engine, id) THEN "cancel_replace_loss" ELSE "time", id, victim)

\* The score as a fraction, numerator first.
CorrectnessScore(w) ==
    LET dirty == Cardinality(w.dirty)
    IN  CASE w.scoredOrders = 0 -> <<1, 1>>
          [] w.scoredOrders > 0 /\ dirty > w.scoredOrders -> <<0, w.scoredOrders>>
          [] OTHER -> <<w.scoredOrders - dirty, w.scoredOrders>>

Apart(a, b) == IF a > b THEN a - b ELSE b - a
CrossFlowTie(a, b) == a.flow # b.flow /\ Apart(a.t, b.t) < TieToleranceNs

\* The ring of orders the contestant left short, the oldest giving way.
push(w, o, short) ==
    IF ~short \/ ~HasSeq(w.engine, o.id) THEN w
    ELSE [w EXCEPT !.shorted = Append(IF Len(@) < ShortedCapacity THEN @ ELSE Tail(@),
                                      [o |-> o, seq |-> SeqOfOrder(w.engine, o.id)])]

\* Those with priority over o at this price: still queued, or gone and left short.
JumpedOver(w, o, price) ==
    LET queued == {[o |-> w.pending[id], seq |-> SeqOfOrder(w.engine, id)] :
                     id \in {x \in DOMAIN w.pending : HasSeq(w.engine, x)}}
    IN  {x \in queued \cup Range(w.shorted) :
            /\ HasSeq(w.engine, o.id)
            /\ x.o.id # o.id /\ x.o.side = o.side /\ x.o.price = price
            /\ x.seq < SeqOfOrder(w.engine, o.id)
            /\ ~CrossFlowTie(o, x.o)}
First(s) == CHOOSE x \in s : \A y \in s : x.seq <= y.seq

selfMatchedAgainstBook(w, o, price) ==
    RestingSMPMatch(w.engine, oppositeSide(o.side), price, o.smp)

\* The rule a wrong fill broke, the most specific first.
classifyUnexplained(w, o, price) ==
    CASE selfMatchedAgainstBook(w, o, price) -> add(w, "self_trade", o.id, o.id)
      [] ~selfMatchedAgainstBook(w, o, price) /\ JumpedOver(w, o, price) # {} ->
            flagJump(w, o.id, First(JumpedOver(w, o, price)).o.id)
      [] OTHER -> add(w, "price", o.id, o.id)

\* One reported fill; a.cum is what the contestant has claimed for the order so far.
scoreFill(a, o, r, fill) ==
    LET cum == a.cum + fill.qty
        w == [a.w EXCEPT !.totalFills = @ + 1]
    IN  [cum |-> cum,
         w |-> IF cum > o.qty THEN add(w, "overfill", o.id, o.id)
               ELSE IF fill.price \notin r.prices \/ cum > r.qty
               THEN classifyUnexplained(w, o, fill.price)
               ELSE w]

scoreOrder(w, o, r, fills) ==
    LET a == FoldLeft(LAMBDA x, f : scoreFill(x, o, r, f), [cum |-> 0, w |-> w], fills)
        short == a.cum < r.qty
    IN  push(IF short THEN add(a.w, "missed_fill", o.id, o.id) ELSE a.w, o, short)

RefOf(w, id) == IF id \in DOMAIN w.ref THEN w.ref[id] ELSE NoFills

finalize(w, id, reports) ==
    IF id \notin DOMAIN w.pending THEN w
    ELSE LET gone == [w EXCEPT !.pending = Restrict(@, DOMAIN @ \ {id}),
                               !.ref = Restrict(@, DOMAIN @ \ {id})]
             scored == scoreOrder(gone, w.pending[id], RefOf(w, id), reports[id])
         IN  [scored EXCEPT !.engine = Forget(@, id)]

-----------------------------------------------------------------------------
(* The session *)

AddFill(ref, f) ==
    LET old == IF f.id \in DOMAIN ref THEN ref[f.id] ELSE NoFills
    IN  (f.id :> [qty |-> old.qty + f.qty, prices |-> old.prices \cup {f.price}]) @@ ref

\* The validator once the book has dealt with o and is e, and the orders that thereby
\* left the book, in the order in which they are scored.
Processed(o, e) ==
    [v EXCEPT !.scoredOrders = @ + 1,
              !.pending = (o.id :> o) @@ @,
              !.engine = Drained(e),
              !.ref = FoldLeft(AddFill, @, e.fills)]
\* Mutant: the order that arrived is scored at once even when it rests.
Leaving_Resting(o, e) == e.evicted \o <<o.id>>
Leaving(o, e) == e.evicted \o (IF IsResting(e, o.id) THEN <<>> ELSE <<o.id>>)

\* What the contestant may have reported for an order the reference filled as r says.
Reports(id, r) ==
    LET fills == [price : env.prices, qty : env.qtys]
    IN  CASE env.reports = "any" -> UNION {[1..n -> fills] : n \in 0..env.fills}
          [] env.reports = "sample" -> {sample'.answers[id]}
          [] env.reports = "true" /\ r.qty = 0 -> {<<>>}
          [] env.reports = "true" /\ r.qty > 0 ->
                {<<[price |-> CHOOSE p \in r.prices : TRUE, qty |-> r.qty]>>}

Silent == [book |-> Engine!newBook, answers |-> <<>>]
\* The sample engine reads o and answers it.
Answers(o) ==
    \E x \in {Engine!handle(sample.book, o)} :
        sample' = [book |-> x.book, answers |-> (o.id :> x.answer) @@ sample.answers]

Finalized(w, ids, reports) == FoldLeft(LAMBDA x, id : finalize(x, id, reports), w, ids)

Apply(o) ==
    \E e \in {Process(v.engine, o)} :
        LET w == Processed(o, e)
            ids == Leaving(o, e)
        IN  /\ orders' = Append(orders, o)
            /\ IF env.reports = "sample" THEN Answers(o) ELSE UNCHANGED sample
            /\ given' = FoldLeft(AddFill, given, e.fills)
            /\ place' = Restrict(e.seqOf, {o.id} \cap DOMAIN e.seqOf) @@ place
            /\ \E reports \in [Range(ids) -> UNION {Reports(id, RefOf(w, id)) : id \in Range(ids)}] :
                  /\ \A id \in Range(ids) : reports[id] \in Reports(id, RefOf(w, id))
                  /\ v' = Finalized(w, ids, reports)
                  /\ said' = reports @@ said
            /\ UNCHANGED <<env, done>>

\* What is still in the book, and what a replace renamed, is scored in replay order.
Finish ==
    LET ids == SetToSortSeq(DOMAIN v.pending, <)
        tainted == 100 * v.gaps > GapTaintPercent * (v.scoredOrders + v.gaps)
    IN  /\ ~done /\ Len(orders) = Len(env.script)
        /\ done' = TRUE /\ UNCHANGED sample
        /\ \E reports \in [Range(ids) -> UNION {Reports(id, RefOf(v, id)) : id \in Range(ids)}] :
              /\ \A id \in Range(ids) : reports[id] \in Reports(id, RefOf(v, id))
              /\ v' = [Finalized(v, ids, reports) EXCEPT !.tainted = tainted]
              /\ said' = reports @@ said
        /\ UNCHANGED <<env, orders, given, place>>

Outside == v.lost + v.gaps + v.phantoms < env.apart /\ ~done

\* An order the contestant never answered; it has no place in the replay.
AddLost ==
    /\ Outside
    /\ v' = [add(v, "lost_order", -1 - v.lost, 0) EXCEPT !.scoredOrders = @ + 1, !.lost = @ + 1]
    /\ UNCHANGED <<env, orders, given, said, sample, place, done>>
\* An order whose answer the capture lost.
AddCaptureGap ==
    /\ Outside
    /\ v' = [v EXCEPT !.gaps = @ + 1]
    /\ UNCHANGED <<env, orders, given, said, sample, place, done>>
\* A fill for an order that was never sent.
AddPhantom ==
    /\ Outside
    /\ v' = [v EXCEPT !.phantoms = @ + 1]
    /\ UNCHANGED <<env, orders, given, said, sample, place, done>>
-----------------------------------------------------------------------------
(* The orders the bots send (external: services/bot-fleet/src/content.rs).  A    *)
(* cancel or replace names an order of the same bot not named before; a replace   *)
(* asks for a price, or halves the quantity.                                     *)

LastT == IF orders = <<>> THEN 0 ELSE orders[Len(orders)].t
NewOrder(kind, side, price, qty, smp, flow, t, orig) ==
    [id |-> Len(orders) + 1, kind |-> kind, side |-> side, price |-> price, qty |-> qty,
     smp |-> smp, flow |-> flow, t |-> t, orig |-> orig]
Targets(flow) == {o \in Range(orders) : /\ o.kind \in {"limit", "replace"} /\ o.flow = flow
                                        /\ \A x \in Range(orders) : x.orig # o.id}
HalfOf(qty) == IF qty = 1 THEN 1 ELSE qty \div 2

NextOrders ==
    UNION {
        LET here(kind, side, price, qty, smp, orig) == NewOrder(kind, side, price, qty, smp, flow, t, orig)
        IN  {here("limit", s, p, q, smp, 0) :
               s \in Sides, p \in env.prices, q \in env.qtys, smp \in env.smps}
            \cup {here("market", s, CHOOSE p \in Prices : TRUE, q, smp, 0) :
               s \in Sides, q \in env.qtys, smp \in env.smps}
            \cup {here("cancel", o.side, o.price, o.qty, o.smp, o.id) : o \in Targets(flow)}
            \cup {here("replace", o.side, p, o.qty, o.smp, o.id) : p \in env.prices, o \in Targets(flow)}
            \cup {here("replace", o.side, o.price, HalfOf(o.qty), o.smp, o.id) : o \in Targets(flow)}
        : flow \in env.flows, t \in {LastT + d : d \in env.delays}}

ApplyNext ==
    /\ ~done /\ Len(orders) < Len(env.script)
    /\ \E o \in {x \in NextOrders : <<x.kind, x.side>> \in env.script[x.id]} : Apply(o)

Init ==
    /\ env \in Environments
    /\ v = NewStreamValidator
    /\ orders = <<>> /\ given = <<>> /\ said = <<>> /\ place = <<>> /\ done = FALSE
    /\ sample = Silent

Terminated == done /\ UNCHANGED vars
Next == ApplyNext \/ Finish \/ AddLost \/ AddCaptureGap \/ AddPhantom \/ Terminated
Spec == Init /\ [][Next]_vars

-----------------------------------------------------------------------------
TypeOK ==
    /\ EnvOK(env)
    /\ DOMAIN v.pending \subseteq Ids
    /\ DOMAIN v.ref \subseteq DOMAIN v.pending
    /\ Len(v.shorted) <= ShortedCapacity
    /\ v.scoredOrders = Len(orders) + v.lost
    /\ done \in BOOLEAN

(***************************************************************************)
(* The verdict on an order is the one the whole session supports, although *)
(* it is given as soon as the order leaves the book: the order is clean    *)
(* exactly when the contestant reported all the reference ever filled it   *)
(* with, and only at prices it was filled at.  Every order of the session  *)
(* is scored exactly once by the end, and the score is the share of clean  *)
(* orders among those sent and answered or never answered, so that the     *)
(* guard against a negative score is never needed.                         *)
(***************************************************************************)
Total(fills) == FoldLeft(LAMBDA a, f : a + f.qty, 0, fills)
GivenTo(id) == IF id \in DOMAIN given THEN given[id] ELSE NoFills
Truthful(id) ==
    /\ Total(said[id]) = GivenTo(id).qty
    /\ \A i \in DOMAIN said[id] : said[id][i].price \in GivenTo(id).prices
VerdictExact ==
    /\ DOMAIN said = Ids \ DOMAIN v.pending
    /\ done => DOMAIN said = Ids
    /\ \A id \in DOMAIN said : id \notin v.dirty <=> Truthful(id)
    /\ done => CorrectnessScore(v) = <<Cardinality({id \in Ids : Truthful(id)}), Len(orders) + v.lost>>

(***************************************************************************)
(* Price-time priority is upheld.  The reference gives every aggressor     *)
(* exactly what price-time priority with self-match prevention owes it,    *)
(* and leaves the book in that order: whatever was parked, skipped,        *)
(* renamed or queued again before.  And an order is charged with jumping   *)
(* the queue only over an order of its own side at the disputed price that *)
(* had the better place in the queue and that the contestant had not       *)
(* served: it was waiting until this step, or it was left short.           *)
(***************************************************************************)
NewFlags == {v'.flags[i] : i \in DOMAIN v'.flags \ DOMAIN v.flags}
Jumped(o, x) ==
    /\ x.side = o.side /\ ~CrossFlowTie(o, x)
    /\ \E r \in Range(said'[o.id]) : r.price = x.price
    /\ place[x.id] < place[o.id]
    /\ x.id \in DOMAIN said => Total(said[x.id]) < GivenTo(x.id).qty
PriceTimePriority ==
    [][/\ orders' # orders =>
            LET o == orders'[Len(orders')]
                e == Process(v.engine, o)
            IN  /\ o.kind \in {"limit", "market"} =>
                     /\ Range(e.trades) = PriorityTrades(v.engine, o)
                     /\ Resting(e) = PriorityBook(v.engine, o)
                /\ QueuesInOrder(e)
       /\ \A f \in NewFlags :
            f.type \in {"time", "cancel_replace_loss"} => Jumped(orders[f.id], orders[f.victim])]_vars

(***************************************************************************)
(* The sample engine mirrors the reference, as its header says: where no   *)
(* order carries a self-match-prevention id, the two books, which match by *)
(* different loops, hold the same orders with the same quantities in the   *)
(* same queues after every request.  Hence the engine is never charged     *)
(* with a fill it reported, only with fills it did not report, and not for *)
(* an order that never rested and met no order of its own bot.             *)
(***************************************************************************)
Queue(book, s, p) == [i \in DOMAIN book[s][p] |-> [id |-> book[s][p][i].id, remaining |-> book[s][p][i].remaining]]
MetOnlyOthers(o) == \A x \in Range(orders) : x.id < o.id => x.flow # o.flow
MirrorsReference ==
    env.reports = "sample" =>
        /\ \A s \in Sides, p \in Prices : Queue(sample.book, s, p) = Queue(v.engine.levels, s, p)
        /\ \A f \in Range(v.flags) :
              /\ f.type = "missed_fill"
              /\ f.id \in DOMAIN place \/ ~MetOnlyOthers(orders[f.id])
=============================================================================
