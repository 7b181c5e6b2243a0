---------------------------- MODULE MCValidator ----------------------------
(* Sessions of two to five orders for the two graders. *)
EXTENDS Validator

CONSTANTS s1, f1, f2

Assigned(forced, seen, targets) == [mode |-> forced, seen |-> seen, targets |-> targets]
MCAssignments ==
    {Assigned("auto", TRUE, <<0, 0>>), Assigned("auto", TRUE, <<0, 50>>),
     Assigned("auto", FALSE, <<0, 0>>), Assigned("full", TRUE, <<50>>), Assigned("invariants", TRUE, <<0>>)}

-----------------------------------------------------------------------------
(* Full replay *)

Replay(script, qtys, smps, flows, reports, fills, apart) ==
    [script |-> script, prices |-> Prices, qtys |-> qtys, smps |-> smps, flows |-> flows,
     delays |-> IF Cardinality(flows) = 1 THEN {0} ELSE {0, 1},
     reports |-> reports, fills |-> fills, apart |-> apart]

MCPrices == 1..2

Sell == {<<"limit", "sell">>}
Buy == {<<"limit", "buy">>}
Take(side) == {<<"limit", side>>, <<"market", side>>}
Amend == {"cancel", "replace"} \X {"buy", "sell"}

\* Three resting orders and one that takes from them, or two and two, some of one owner.
Selling == Replay(<<Sell, Sell, Sell, Take("buy")>>, 1..2, {NoSMP, s1}, {f1}, "true", 0, 0)
Buying == Replay(<<Buy, Buy, Take("sell"), Take("sell")>>, 1..2, {NoSMP, s1}, {f1}, "true", 0, 0)
\* Orders that are cancelled and replaced before, between and after matches.
Amending == Replay(<<Sell, Sell \cup Buy, Amend, Buy \cup Amend, Buy>>, 1..2, {NoSMP}, {f1}, "true", 0, 0)
\* A contestant that reports whatever it likes.
Lying == Replay(<<Sell, Sell, Buy \cup Amend, Buy>>, {1}, {NoSMP}, {f1}, "any", 1, 0)
Splitting == Replay(<<Sell, Buy>>, 1..2, {NoSMP}, {f1}, "any", 2, 0)
Partial == Replay(<<Sell, Sell, Buy \cup Amend>>, 1..2, {NoSMP}, {f1}, "any", 1, 0)
Tied == Replay(<<Sell, Sell, Buy>>, {1}, {NoSMP}, {f1, f2}, "any", 1, 0)
Owners == Replay(<<Sell, Sell, Buy, Buy>>, {1}, {NoSMP, s1}, {f1}, "any", 1, 0)
\* Orders that never reach the replay.
Missing == Replay(<<Sell, Buy>>, {1}, {NoSMP}, {f1}, "any", 1, 3)

\* The sample engine against two bots.
Sampling(script) == [Replay(script, 1..2, {NoSMP}, {f1, f2}, "sample", 0, 0) EXCEPT !.delays = {0}]
Sampled == {Sampling(<<Sell, Sell, Sell, Take("buy")>>), Sampling(<<Buy, Buy \cup Sell, Take("sell"), Sell>>),
            Sampling(<<Sell, Sell, Amend, Buy \cup Amend, Buy>>)}

MCReplayEnvironments ==
    {Selling, Buying, Amending, Lying, Splitting, Partial, Tied, Owners, Missing} \cup Sampled

-----------------------------------------------------------------------------
(* Invariants *)

Streamed(n, flows, lags, answers, captured, parts, batch, repeats, seq, skew, fails) ==
    [orders |-> n, flows |-> flows, lags |-> lags, answers |-> answers, captured |-> captured,
     parts |-> parts, batch |-> batch, repeats |-> repeats, seq |-> seq, skew |-> skew, fails |-> fails]

\* Orders answered once, late or not at all, answers the capture lost; the bot's and
\* the capture's clocks apart.
Fates(skew, batch) ==
    Streamed(3, {1}, {0}, {<<>>, <<0>>, <<2>>, <<6>>}, BOOLEAN, 1, batch, {0, 1}, 0, skew, FALSE)
\* Orders with several responses, batches repeated, two partitions a topic.
Fills == Streamed(3, {1, 2}, {0, 2}, {<<0>>, <<0, 1>>, <<1, 3>>}, {TRUE}, 2, 2, {0, 1, 2}, 0, 0, FALSE)
\* Retransmissions and a contestant that reorders, on three connections whose sequence
\* numbers wrap.
Reordering == Streamed(4, {1, 2}, {0, 1, 3}, {<<0>>, <<3>>}, {TRUE}, 1, 1, {0}, SeqSpace - 2, 0, FALSE)
Priority == Streamed(4, {1, 2, 3}, {0}, {<<0>>, <<2>>, <<3>>}, {TRUE}, 1, 1, {0}, 0, 0, FALSE)
Failing == Streamed(2, {1, 2}, {0}, {<<0>>, <<2>>}, {TRUE}, 2, 1, {0}, 0, 0, TRUE)

MCEnvironments == {Fates(0, 1), Fates(1, 2), Fates(-1, 1), Fills, Reordering, Priority, Failing}
=============================================================================
