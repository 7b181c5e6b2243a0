----------------------------- MODULE Invariants -----------------------------
(***************************************************************************)
(* services/correctness-validator/internal/validate/invariants.go: the     *)
(* grader of the load waves.  It needs no book: orders pass a bounded      *)
(* window that puts them in the order the contestant processed them in,    *)
(* and each is checked as it leaves the window against a constant amount   *)
(* of state.  A validator is a record; Apply maps a validator and an order *)
(* [id, flow, seq, t3, qty, responses] to the validator after it, where a  *)
(* response is [t7, qty].                                                  *)
(***************************************************************************)
EXTENDS Integers, SequencesExt

CONSTANTS
    Flows,
    SeqSpace,           \* 2^32: TCP sequence numbers wrap
    T7Window,           \* VALIDATOR_T7_REORDER_WINDOW
    CrossFlowWindow,    \* CROSS_FLOW_WINDOW_US
    T7AnomalyCap,       \* VALIDATOR_T7_ANOMALY_CAP_MS
    JitterBits,         \* 64: the buckets of the histogram
    LateTaintPercent    \* VALIDATOR_LATE_TAINT_RATE

ASSUME WindowsAssumption ==
    /\ T7Window \in Nat \ {0}
    /\ SeqSpace \in Nat /\ SeqSpace > 2

\* int32(a-b) < 0
seqLess(a, b) == (a - b) % SeqSpace >= SeqSpace \div 2
seqLE(a, b) == a = b \/ seqLess(a, b)

-----------------------------------------------------------------------------
(* The histogram of inversion magnitudes: one counter per power of two *)

Len64(ns) == CHOOSE k \in 0..JitterBits : ns < 2^k /\ (k > 0 => ns >= 2^(k - 1))
NoJitter == [buckets |-> [i \in 0..JitterBits |-> 0], count |-> 0, max |-> 0]
record(h, ns) ==
    [h EXCEPT !.buckets[Len64(ns)] = @ + 1, !.count = @ + 1, !.max = IF ns > @ THEN ns ELSE @]

\* The lower bound of the bucket that holds the sample of rank p * (count - 1).
percentileNs(h, permille) ==
    LET rank == (permille * (h.count - 1)) \div 1000
        upTo(i) == MapThenSumSet(LAMBDA j : h.buckets[j], 0..i)
        first == CHOOSE i \in 0..JitterBits : upTo(i) > rank /\ \A j \in 0..(i - 1) : upTo(j) <= rank
    IN  IF h.count = 0 \/ first = 0 THEN 0 ELSE 2^(first - 1)

NoMax == [set |-> FALSE, t3 |-> 0, flow |-> 0]

NewInvariantsValidator ==
    [buf |-> <<>>, started |-> FALSE, watermark |-> 0,
     lastSeq |-> <<>>, max1 |-> NoMax, max2 |-> NoMax, jitter |-> NoJitter,
     emitted |-> <<>>, late |-> 0, anomalies |-> 0, applied |-> 0,
     fifo |-> {}, cross |-> {}, overfilled |-> {}, lost |-> <<>>, gaps |-> 0, phantoms |-> 0,
     scoredOrders |-> 0, p50 |-> 0, p99 |-> 0, tainted |-> FALSE]

-----------------------------------------------------------------------------
(* The checks on an order that leaves the window *)

\* A was processed after B although it arrived first; only a gap beyond the window counts.
IsInversion(t3A, t3B) == t3A < t3B
CrossFlowViolation(t3A, t3B) == IsInversion(t3A, t3B) /\ t3B - t3A > CrossFlowWindow

\* Mutant: one running maximum, whatever flow it is of.
Candidate_OneMax(v, rec) == v.max1
\* The latest arrival among the orders of other flows processed so far.
Candidate(v, rec) == IF v.max1.set /\ rec.flow = v.max1.flow THEN v.max2 ELSE v.max1

Tracked(v, rec) ==
    LET here == [set |-> TRUE, t3 |-> rec.t3, flow |-> rec.flow]
    IN  IF ~v.max1.set \/ rec.t3 > v.max1.t3
        THEN [v EXCEPT !.max1 = here,
                       !.max2 = IF /\ v.max1.set /\ v.max1.flow # rec.flow
                                   /\ ~v.max2.set \/ v.max1.t3 > v.max2.t3
                                THEN v.max1 ELSE @]
        ELSE [v EXCEPT !.max2 = IF /\ rec.flow # v.max1.flow
                                   /\ ~v.max2.set \/ rec.t3 > v.max2.t3
                                THEN here ELSE @]

onEmit(v, rec) ==
    LET cand == Candidate(v, rec)
        outOfOrder == rec.flow \in DOMAIN v.lastSeq /\ seqLE(rec.seq, v.lastSeq[rec.flow])
    IN  [Tracked(v, rec) EXCEPT
            !.emitted = Append(@, rec),
            !.fifo = IF outOfOrder THEN @ \cup {rec.id} ELSE @,
            !.lastSeq = (rec.flow :> rec.seq) @@ @,
            !.jitter = IF cand.set /\ IsInversion(rec.t3, cand.t3) THEN record(@, cand.t3 - rec.t3) ELSE @,
            !.cross = IF cand.set /\ CrossFlowViolation(rec.t3, cand.t3) THEN @ \cup {rec.id} ELSE @]

-----------------------------------------------------------------------------
(* The window that orders by the first response *)

\* sort.SliceStable
StableSort(s, Less(_, _)) ==
    LET before(i, j) == Less(s[i], s[j]) \/ (~Less(s[j], s[i]) /\ i < j)
        at == SetToSortSeq(DOMAIN s, before)
    IN  [i \in DOMAIN s |-> s[at[i]]]

SortInvRecs(buf) == StableSort(buf, LAMBDA a, b : a.minT7 < b.minT7)

Pass(v, rec) ==
    onEmit([v EXCEPT !.watermark = IF rec.minT7 > @ \/ ~v.started THEN rec.minT7 ELSE @,
                     !.started = TRUE], rec)

ReleaseT7(v, n) ==
    LET sorted == SortInvRecs(v.buf)
    IN  [FoldLeft(Pass, v, SubSeq(sorted, 1, n)) EXCEPT !.buf = SubSeq(sorted, n + 1, Len(sorted))]

\* A record whose place has already been released is only counted.
PushT7(v, rec) ==
    IF v.started /\ rec.minT7 < v.watermark THEN [v EXCEPT !.late = @ + 1]
    ELSE LET w == [v EXCEPT !.buf = Append(@, rec)]
         IN  IF Len(w.buf) >= 2 * T7Window THEN ReleaseT7(w, T7Window) ELSE w

-----------------------------------------------------------------------------
Sane(o, r) == r.t7 >= o.t3 /\ r.t7 - o.t3 <= T7AnomalyCap
QtyOf(responses) == FoldLeft(LAMBDA a, r : a + r.qty, 0, responses)

InvApply(v, o) ==
    LET sane == {o.responses[i].t7 : i \in {j \in DOMAIN o.responses : Sane(o, o.responses[j])}}
        w == [v EXCEPT
                !.overfilled = IF QtyOf(o.responses) > o.qty THEN @ \cup {o.id} ELSE @,
                !.anomalies = @ + Len(SelectSeq(o.responses, LAMBDA r : ~Sane(o, r)))]
    IN  IF sane = {} THEN [w EXCEPT !.lost = Append(@, o.id)]
        ELSE PushT7([w EXCEPT !.applied = @ + 1],
                    [id |-> o.id, flow |-> o.flow, seq |-> o.seq, t3 |-> o.t3,
                     minT7 |-> CHOOSE t \in sane : \A u \in sane : t <= u])

InvAddLost(v, id) == [v EXCEPT !.lost = Append(@, id)]
InvAddCaptureGap(v) == [v EXCEPT !.gaps = @ + 1]
InvAddUnmatched(v, n) == [v EXCEPT !.phantoms = @ + n]

InvFinish(v, gapTaintPercent) ==
    LET w == ReleaseT7(v, Len(v.buf))
        scored == w.applied + Len(w.lost)
    IN  [w EXCEPT
            !.scoredOrders = scored,
            !.p50 = percentileNs(w.jitter, 500), !.p99 = percentileNs(w.jitter, 990),
            !.tainted = \/ 100 * (w.late + w.anomalies) > LateTaintPercent * w.applied /\ w.applied > 0
                        \/ 100 * w.gaps > gapTaintPercent * (scored + w.gaps)]
=============================================================================
