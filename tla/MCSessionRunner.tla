-------------------------- MODULE MCSessionRunner --------------------------
(* Small instances of SessionRunner: two dispatch slots and bands. *)
EXTENDS SessionRunner, TLC

CONSTANTS s1, s2, s3, p1, p2, p3, b1, b2

MCPartition1 == {p1}
MCPartitions2 == {p1, p2}
MCPartitions3 == {p1, p2, p3}
MCBands == {b1, b2}
MCJobs == 1..3
MCSessions2 == {s1, s2}
MCSessions3 == {s1, s2, s3}

Env(w, f, r, d) ==
    [workers |-> w, faults |-> f, requests |-> r, disruptions |-> d]

\* s1 needs every partition and s2 one, and processes die and stop.
Restarts == Env((s1 :> 3) @@ (s2 :> 1), {"crash", "shutdown", "commit", "orchestrator", "panic"}, 2, 1)
\* One session, taken down twice.
Twice == Env((s1 :> 1), {"crash", "shutdown", "commit", "orchestrator", "panic"}, 1, 2)
\* Requests come again without a restart; s2 asks for more partitions than there are.
Redelivery == Env((s1 :> 1) @@ (s2 :> 4), {"commit", "rebalance", "duplicate", "db"}, 2, 1)
\* Partitions enough for three sessions, but only two bands.
Contention == Env((s1 :> 1) @@ (s2 :> 1) @@ (s3 :> 1), {}, 3, 0)

\* A session that left a slot behind runs again.
LeftSlot == Env((s1 :> 1), {"crash", "db", "orchestrator", "duplicate"}, 2, 1)

MCSafety == {Restarts, Twice, Redelivery, Contention, LeftSlot}
MCLiveness == {Env((s1 :> 1) @@ (s2 :> 1), {"shutdown", "commit", "panic"}, 2, 1)}

MCSymmetry3 == Permutations(MCPartitions3) \cup Permutations(MCBands)
=============================================================================
