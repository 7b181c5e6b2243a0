---------------------------- MODULE CorrectEngine ----------------------------
(***************************************************************************)
(* deploy-local/correct-engine/src/main.go: the sample contestant, a       *)
(* matching engine that mirrors the validator's reference book.  It holds  *)
(* one map of queues a side and answers every request in the order it      *)
(* reads them, under one mutex; handle maps the book and a request to the  *)
(* book and the response.  idx is the set of orders in the queues, and the *)
(* participant of an order is the bot, hence the connection, it came from. *)
(***************************************************************************)
EXTENDS Integers, FiniteSets, SequencesExt

CONSTANT Prices

opposite(s) == IF s = "buy" THEN "sell" ELSE "buy"
newBook == [s \in {"buy", "sell"} |-> [p \in Prices |-> <<>>]]

Indexed(b) == UNION {Range(b[s][p]) : s \in {"buy", "sell"}, p \in Prices}
Find(b, id) == {x \in Indexed(b) : x.id = id}

\* The prices a request can trade at, and the best of them.
Open(b, o) ==
    {p \in Prices : /\ b[opposite(o.side)][p] # <<>>
                    /\ o.kind = "limit" => IF o.side = "buy" THEN p <= o.price ELSE p >= o.price}
bestOppositePrice(b, o) ==
    CHOOSE p \in Open(b, o) :
        \A q \in Open(b, o) : IF o.side = "buy" THEN p <= q ELSE p >= q

\* The aggressor meets the first maker of the best price; m is the match so far.  A maker
\* of the same participant gives up its quantity too, but this is not reported.
Trade(m, o, price) ==
    LET queue == m.book[opposite(o.side)][price]
        maker == Head(queue)
        traded == IF maker.remaining < m.remaining THEN maker.remaining ELSE m.remaining
        reported == maker.participant # o.flow
    IN  [m EXCEPT
            !.remaining = @ - traded,
            !.book[opposite(o.side)][price] =
                IF traded = maker.remaining THEN Tail(queue)
                ELSE [queue EXCEPT ![1].remaining = @ - traded],
            !.qty = IF reported THEN @ + traded ELSE @,
            !.price = IF reported /\ m.qty = 0 THEN price ELSE @]

\* Mutant: the newest maker of a level is served first.
match_Lifo(b, o) ==
    FoldLeft(LAMBDA m, i : IF m.remaining = 0 \/ Open(m.book, o) = {} THEN m
                           ELSE LET p == bestOppositePrice(m.book, o)
                                    turned == [m EXCEPT !.book[opposite(o.side)][p] = Reverse(@)]
                                IN  [Trade(turned, o, p) EXCEPT !.book[opposite(o.side)][p] = Reverse(@)],
             [book |-> b, remaining |-> o.qty, qty |-> 0, price |-> 0],
             [i \in 1..Cardinality(Indexed(b)) |-> i])
\* Every turn uses up a maker or the aggressor, hence the number of turns.
match(b, o) ==
    FoldLeft(LAMBDA m, i : IF m.remaining = 0 \/ Open(m.book, o) = {} THEN m
                           ELSE Trade(m, o, bestOppositePrice(m.book, o)),
             [book |-> b, remaining |-> o.qty, qty |-> 0, price |-> 0],
             [i \in 1..Cardinality(Indexed(b)) |-> i])

Enqueue(b, o, qty) ==
    [b EXCEPT ![o.side][o.price] =
        Append(@, [id |-> o.id, remaining |-> qty, participant |-> o.flow])]
Rested(m, o) ==
    IF o.kind = "limit" /\ m.remaining > 0 THEN Enqueue(m.book, o, m.remaining) ELSE m.book

remove(b, id) ==
    [s \in DOMAIN b |-> [p \in Prices |-> SelectSeq(b[s][p], LAMBDA x : x.id # id)]]

replace(b, o) ==
    LET at == {p \in Prices : \E s \in DOMAIN b : \E x \in Range(b[s][p]) : x.id = o.orig}
    IN  CASE Find(b, o.orig) = {} -> b
          [] o.price \in at /\ \A x \in Find(b, o.orig) : o.qty <= x.remaining ->
                [s \in DOMAIN b |-> [p \in Prices |->
                    [i \in DOMAIN b[s][p] |->
                        IF b[s][p][i].id = o.orig
                        THEN [b[s][p][i] EXCEPT !.id = o.id, !.participant = o.flow,
                                                   !.remaining = o.qty]
                        ELSE b[s][p][i]]]]
          [] OTHER -> Enqueue(remove(b, o.orig), o, o.qty)

\* An acknowledgement carries no fill; a fill carries all that was taken from others, at
\* the price of the first of them.
Answer(m) == IF m.qty > 0 THEN <<[price |-> m.price, qty |-> m.qty]>> ELSE <<>>

handle(b, o) ==
    CASE o.kind = "cancel" -> [book |-> remove(b, o.orig), answer |-> <<>>]
      [] o.kind = "replace" -> [book |-> replace(b, o), answer |-> <<>>]
      [] OTHER -> LET m == match(b, o) IN [book |-> Rested(m, o), answer |-> Answer(m)]
=============================================================================
