----------------------------- MODULE OrderBook -----------------------------
(***************************************************************************)
(* services/correctness-validator/internal/book/book.go: the reference     *)
(* matching engine.  An engine is a record; Process maps an engine and an  *)
(* order to the engine after it.  The two trees of price levels are one    *)
(* function from side and price to a queue, empty where the tree has no    *)
(* level; index is the set of orders in the queues.                        *)
(***************************************************************************)
EXTENDS Integers, SequencesExt

CONSTANTS
    Prices,     \* a range of integers
    NoSMP       \* the self-match-prevention id of an order that has none

Sides == {"buy", "sell"}
oppositeSide(s) == IF s = "buy" THEN "sell" ELSE "buy"
LeastOf(a, b) == IF a < b THEN a ELSE b

NewEngine ==
    [levels |-> [s \in Sides |-> [p \in Prices |-> <<>>]],
     seq |-> 0, seqOf |-> <<>>, repriced |-> {},
     fills |-> <<>>, trades |-> <<>>, evicted |-> <<>>]

Resting(e) == UNION {Range(e.levels[s][p]) : s \in Sides, p \in Prices}
IsResting(e, id) == \E r \in Resting(e) : r.id = id
RestingOrder(e, id) == CHOOSE r \in Resting(e) : r.id = id

SeqOfOrder(e, id) == e.seqOf[id]
HasSeq(e, id) == id \in DOMAIN e.seqOf
Repriced(e, id) == id \in e.repriced

SameSMP(o, maker) == o.smp # NoSMP /\ maker.smp = o.smp
allSameSMP(orders, smp) ==
    /\ smp # NoSMP /\ orders # <<>>
    /\ \A i \in DOMAIN orders : orders[i].smp = smp
RestingSMPMatch(e, side, price, smp) ==
    smp # NoSMP /\ \E i \in DOMAIN e.levels[side][price] : e.levels[side][price][i].smp = smp

crosses(side, price, restingPrice) ==
    IF side = "buy" THEN restingPrice <= price ELSE restingPrice >= price

Better(side, p, q) == IF side = "sell" THEN p < q ELSE p > q
\* The prices of a side in the order the tree of that side yields them.
BestFirst(side) == SetToSortSeq(Prices, LAMBDA p, q : Better(side, p, q))

-----------------------------------------------------------------------------
(* matchAndRest *)

\* One turn of the inner loop: m holds what the aggressor still wants, the makers
\* passed over by self-match prevention and the makers that stay in the level.
MatchMaker(o, m, maker) ==
    LET traded == LeastOf(m.remaining, maker.remaining)
        left == [maker EXCEPT !.remaining = @ - traded]
    IN  IF m.remaining = 0
        THEN [m EXCEPT !.stay = Append(@, maker)]
        ELSE IF SameSMP(o, maker)
        THEN [m EXCEPT !.skipped = Append(@, maker)]
        ELSE [m EXCEPT
                !.remaining = @ - traded,
                !.stay = IF left.remaining = 0 THEN @ ELSE Append(@, left),
                !.evicted = IF left.remaining = 0 THEN Append(@, maker.id) ELSE @,
                !.trades = Append(@, [maker |-> maker.id, taker |-> o.id,
                                      price |-> maker.price, qty |-> traded])]

\* Mutant: makers that were passed over rejoin the queue at its end.
Requeue_AtBack(skipped, stay) == stay \o skipped
\* Makers that were passed over return to the front of their queue.
Requeue(skipped, stay) == skipped \o stay

\* A level of nothing but the aggressor's own orders is parked while the aggressor
\* goes on to the next one; any other level that is not used up stops it.
LeaveLevel(o, m, price) ==
    LET queue == Requeue(m.skipped, m.stay)
        own == allSameSMP(queue, o.smp)
    IN  [m EXCEPT !.levels[price] = IF own THEN <<>> ELSE queue,
                  !.parked = IF own THEN (price :> queue) @@ @ ELSE @,
                  !.done = queue # <<>> /\ ~own]

\* One turn of the outer loop.
MatchLevel(o, m, price) ==
    LET level == m.levels[price]
        reached == o.kind = "limit" => crosses(o.side, o.price, price)
    IN  CASE m.done \/ level = <<>> -> m
          [] ~m.done /\ level # <<>> /\ (m.remaining = 0 \/ ~reached) -> [m EXCEPT !.done = TRUE]
          [] OTHER -> LeaveLevel(o, FoldLeft(LAMBDA acc, maker : MatchMaker(o, acc, maker),
                                             [m EXCEPT !.skipped = <<>>, !.stay = <<>>], level), price)

insert(e, o, remaining) ==
    [e EXCEPT
        !.seq = @ + 1,
        !.seqOf = (o.id :> e.seq + 1) @@ @,
        !.levels[o.side][o.price] =
            Append(@, [id |-> o.id, side |-> o.side, price |-> o.price, remaining |-> remaining,
                       seq |-> e.seq + 1, smp |-> o.smp])]

\* Both parties of a trade get a fill.
FillsOf(trades) ==
    FoldLeft(LAMBDA acc, t : acc \o <<[id |-> t.taker, price |-> t.price, qty |-> t.qty],
                                      [id |-> t.maker, price |-> t.price, qty |-> t.qty]>>,
             <<>>, trades)

\* Levels parked during the match go back into the tree.
Restore(levels, parked) == parked @@ levels

\* What is left of a limit order after the match m rests.
Rest(e, o, m) ==
    LET matched == [e EXCEPT !.levels[oppositeSide(o.side)] = Restore(m.levels, m.parked),
                             !.trades = @ \o m.trades,
                             !.fills = @ \o FillsOf(m.trades),
                             !.evicted = @ \o m.evicted]
    IN  IF o.kind = "limit" /\ m.remaining > 0 THEN insert(matched, o, m.remaining) ELSE matched

matchAndRest(e, o) ==
    LET opp == oppositeSide(o.side)
    IN  Rest(e, o, FoldLeft(LAMBDA acc, p : MatchLevel(o, acc, p),
                            [remaining |-> o.qty, levels |-> e.levels[opp], parked |-> <<>>,
                             skipped |-> <<>>, stay |-> <<>>, done |-> FALSE,
                             trades |-> <<>>, evicted |-> <<>>],
                            BestFirst(opp)))

-----------------------------------------------------------------------------
(* Cancel and replace *)

remove(e, id) ==
    IF ~IsResting(e, id) THEN e
    ELSE LET r == RestingOrder(e, id)
         IN  [e EXCEPT !.levels[r.side][r.price] = SelectSeq(@, LAMBDA x : x.id # id),
                       !.evicted = Append(@, id)]

\* An unchanged price and no more quantity keep the place in the queue and take
\* the new id; anything else queues again under the identity of the original.
replace(e, o) ==
    LET r == RestingOrder(e, o.orig)
        renamed == [x \in (DOMAIN e.seqOf \ {o.orig}) \cup {o.id} |->
                      IF x = o.id THEN e.seqOf[o.orig] ELSE e.seqOf[x]]
    IN  IF ~IsResting(e, o.orig) THEN e
        ELSE IF o.price = r.price /\ o.qty <= r.remaining
        THEN [e EXCEPT
                !.levels[r.side][r.price] =
                    [i \in DOMAIN @ |-> IF @[i].id = o.orig
                                        THEN [@[i] EXCEPT !.id = o.id, !.remaining = o.qty]
                                        ELSE @[i]],
                !.seqOf = renamed]
        ELSE insert([remove(e, o.orig) EXCEPT
                        !.repriced = IF o.price # r.price THEN @ \cup {o.id} ELSE @],
                    [o EXCEPT !.smp = r.smp], o.qty)

Process(e, o) ==
    CASE o.kind \in {"limit", "market"} -> matchAndRest(e, o)
      [] o.kind = "cancel" -> remove(e, o.orig)
      [] o.kind = "replace" -> replace(e, o)

\* What the validator takes out of the engine after an order.
Drained(e) == [e EXCEPT !.fills = <<>>, !.trades = <<>>, !.evicted = <<>>]
Forget(e, id) ==
    [e EXCEPT !.seqOf = Restrict(@, DOMAIN @ \ {id}), !.repriced = @ \ {id}]

-----------------------------------------------------------------------------
(* Price-time priority, said without queues or loops. *)

Eligible(e, o) ==
    {r \in Resting(e) : /\ r.side = oppositeSide(o.side)
                        /\ o.kind = "limit" => crosses(o.side, o.price, r.price)
                        /\ ~SameSMP(o, r)}
Ahead(e, o, r) ==
    {x \in Eligible(e, o) : Better(r.side, x.price, r.price) \/ (x.price = r.price /\ x.seq < r.seq)}

\* What each maker gives up: all it has until the aggressor is served.
Owed(e, o, r) ==
    LET before == MapThenSumSet(LAMBDA x : x.remaining, Ahead(e, o, r))
    IN  IF r \notin Eligible(e, o) \/ before >= o.qty THEN 0
        ELSE LeastOf(r.remaining, o.qty - before)

PriorityTrades(e, o) ==
    {[maker |-> r.id, taker |-> o.id, price |-> r.price, qty |-> Owed(e, o, r)] :
        r \in {x \in Resting(e) : Owed(e, o, x) > 0}}
PriorityBook(e, o) ==
    LET left == o.qty - MapThenSumSet(LAMBDA r : Owed(e, o, r), Resting(e))
    IN  {[r EXCEPT !.remaining = @ - Owed(e, o, r)] :
            r \in {x \in Resting(e) : Owed(e, o, x) < x.remaining}}
        \cup {[id |-> o.id, side |-> o.side, price |-> o.price, remaining |-> left,
               seq |-> e.seq + 1, smp |-> o.smp] : x \in IF o.kind = "limit" /\ left > 0 THEN {0} ELSE {}}

\* The queue of every level is in order of arrival.
QueuesInOrder(e) ==
    \A s \in Sides, p \in Prices : \A i, j \in DOMAIN e.levels[s][p] :
        i < j => e.levels[s][p][i].seq < e.levels[s][p][j].seq
=============================================================================
