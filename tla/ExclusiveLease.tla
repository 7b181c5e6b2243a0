--------------------------- MODULE ExclusiveLease ---------------------------
(***************************************************************************)
(* What the controller needs of a lease allocator, without queue, channels *)
(* or cancellation: every index has at most one owner; one step may take   *)
(* back everything one session owns and may give unowned indices to        *)
(* sessions that own none; nobody's lease ever changes under them, and     *)
(* what nobody owns is always there to be given.                           *)
(***************************************************************************)
CONSTANTS Partitions, Sessions

VARIABLES
    owns,       \* owns[s]: the indices s owns
    pool        \* the indices that can be given

Unowned(o) == Partitions \ UNION {o[s] : s \in Sessions}

Init == owns = [s \in Sessions |-> {}] /\ pool = Partitions

\* Some set R of at most one session gives its indices back, then any
\* sessions that own nothing receive pairwise disjoint unowned indices.
Step ==
    \E R \in {{}} \cup {{s} : s \in Sessions} :
        LET kept == [s \in Sessions |-> IF s \in R THEN {} ELSE owns[s]]
        IN /\ owns' \in [Sessions -> SUBSET Partitions]
           /\ \A s \in Sessions : kept[s] # {} => owns'[s] = kept[s]
           /\ \A s \in Sessions : kept[s] = {} => owns'[s] \subseteq Unowned(kept)
           /\ \A s, t \in Sessions : s # t => owns'[s] \cap owns'[t] = {}
           /\ pool' = Unowned(owns')

Spec == Init /\ [][Step]_<<owns, pool>>
=============================================================================
