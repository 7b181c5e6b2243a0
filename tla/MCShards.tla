------------------------------ MODULE MCShards ------------------------------
(* Small instances of Shards: one or two pods of two workloads each, two partitions. *)
EXTENDS Shards, TLC

CONSTANTS s1, s2, p1, p2, w1, w2

Env(l, w, g, f, n) == [leases |-> l, pods |-> w, gate |-> g, faults |-> f, maxFaults |-> n]

\* Side by side, one after the other on a common partition, and one session alone.
Apart == (s1 :> <<p1>>) @@ (s2 :> <<p2>>)
InTurn == (s1 :> <<p1, p2>>) @@ (s2 :> <<p2>>)
Wide == s1 :> <<p1, p2>>

MCShards == {Env(Apart, {w1}, TRUE, {}, 0), Env(Apart, {w1, w2}, TRUE, {}, 0),
             Env(Wide, {w1, w2}, TRUE, {"crash", "probe"}, 1), Env(Wide, {w1}, FALSE, {"rebalance"}, 1),
             Env(Wide, {w1}, TRUE, {"scale"}, 1),
             Env(InTurn, {w1}, FALSE, {"panic", "prepare", "commit", "barrier", "late"}, 1)}
=============================================================================
