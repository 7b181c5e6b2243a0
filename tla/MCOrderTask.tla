----------------------------- MODULE MCOrderTask -----------------------------
(* Small instances of OrderTask. *)
EXTENDS OrderTask

Env(inflight, batches, pace, end, wait, period, f) ==
    [maxInflight |-> inflight, batchMax |-> batches, interval |-> pace, taskEnd |-> end,
     timeout |-> wait, tick |-> period, faults |-> f]

\* Any loop may be held up; paced with a shutdown, at max rate with a failing connection.
Paced == Env(2, 2, 1, 2, 2, 1, {"stall", "cancel"})
MaxRated == Env(2, 2, 0, 1, 2, 1, {"stall", "write", "read"})

MCTask == {Paced, MaxRated}
=============================================================================
