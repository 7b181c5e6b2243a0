-------------------------- MODULE MCLeaseAllocator --------------------------
(* A small instance of LeaseAllocator. *)
EXTENDS LeaseAllocator

CONSTANTS p1, p2, p3, s1, s2, s3, s4

\* With four sessions one release can serve two waiters while a third stays.
MCPartitions == {p1, p2, p3}
MCSessions == {s1, s2, s3, s4}
\* 0 and 4 are refused; 1 to 3 leave room for skimming and overtaking.
MCCounts == 0..4
=============================================================================
