----------------------------- MODULE Telemetry -----------------------------
(***************************************************************************)
(* From orders to metrics (services/telemetry-ingester).  The bots report  *)
(* every order on orders.sent when it is answered or given up; the capture *)
(* publishes orders.acked.  Replicas of the ingester share the partitions  *)
(* of both topics, an order's records being on the same partition of each. *)
(* Each replica joins the two streams into one window per wave, and its    *)
(* flush writes the active windows to metrics_partial.  The rollup merges  *)
(* the partial rows of all replicas into the metrics table, which scoring  *)
(* reads.                                                                  *)
(*                                                                         *)
(* One session.  A tick is a second.  A histogram counts, per order, the   *)
(* samples recorded for it; of the four histograms of a window the model   *)
(* keeps service time and response time, the other two being written and   *)
(* merged in the same way.  The copy of a snapshot in Redis, which feeds   *)
(* the live view and is not read here, is left out.                        *)
(***************************************************************************)
EXTENDS Capture

CONSTANTS Timeout,      \* RESPONSE_TIMEOUT of the bots
          FirstIdle,    \* FIRST_RESP_IDLE_NS
          TimedOutIdle, \* TIMED_OUT_IDLE_NS
          WindowIdle,   \* WINDOW_IDLE_NS
          WaveLength,   \* DEFAULT_WAVE_NS
          RollupLag,    \* ROLLUP_LAG_NS
          Lookback      \* how far back a starting rollup begins

ASSUME TelemetryConstants ==
    {Timeout, FirstIdle, TimedOutIdle, WindowIdle, WaveLength, RollupLag, Lookback} \subseteq Nat \ {0}

VARIABLES sent,      \* the records of orders.sent
          agg,       \* per replica, the Aggregator, its positions and unwritten rows
          partial,   \* the rows of metrics_partial
          metrics,   \* the rows of metrics by <<wave, second>>
          watermark, \* the rollup's watermark
          log,       \* history: the records ingested
          missed     \* history: a row landed, or was left, behind the watermark

telemetryVars == <<sent, agg, partial, metrics, watermark, log, missed>>
vars == <<captureVars, telemetryVars>>

Orders == {Stream("request")[k].order : k \in DOMAIN Stream("request")}
Due(o) == env.due["request"][SegmentOf("request", <<RequestOf(o), 1>>)]
Mine(r, records) == {n \in DOMAIN records : env.owner[records[n].order] = r}
Larger(a, b) == IF a > b THEN a ELSE b

NoSamples == [o \in Orders |-> 0]
Sample(h, o) == [h EXCEPT ![o] = @ + 1]
Sum(h) == [o \in Orders |-> MapThenSumSet(LAMBDA s : h[s][o], DOMAIN h)]

----------------------------------------------------------------------------
(* aggregate.rs                                                            *)

NewAggregator == [windows |-> <<>>, start |-> <<>>, known |-> FALSE, seen |-> <<>>, given |-> <<>>]

NewWindow(t) ==
    [svc |-> NoSamples, rt |-> NoSamples, offered |-> 0, responded |-> 0, rejected |-> 0,
     timedOut |-> 0, fills |-> 0, last |-> t]

Put(f, k, v) == [x \in DOMAIN f \cup {k} |-> IF x = k THEN v ELSE f[x]]
Fresh(times, idle) == Restrict(times, {k \in DOMAIN times : now - times[k] < idle})

\* session_start after wave_of has looked at time t, and the wave of t.
StartAt(a, t) == IF a.start = <<>> \/ t < a.start[1] THEN <<t>> ELSE a.start
WaveOf(a, t) == (t - StartAt(a, t)[1]) \div WaveLength

WindowAt(a, w, t) == IF w \in DOMAIN a.windows THEN a.windows[w] ELSE NewWindow(t)

\* Every report carries the barrier's epoch, tick 0, which fixes the session's start.
observe_sent(a, e) ==
    LET b == [a EXCEPT !.start = <<0>>]
        w == WaveOf(b, e.t0)
        old == WindowAt(b, w, e.t0)
        new == [old EXCEPT !.offered = @ + 1, !.timedOut = @ + (IF e.timedOut THEN 1 ELSE 0),
                           !.rt = IF ~e.timedOut /\ e.r9 > e.t0 THEN Sample(@, e.order) ELSE @,
                           !.last = Larger(@, e.t0)]
        mark == IF e.order \in DOMAIN b.given THEN Larger(b.given[e.order], e.t0) ELSE e.t0
    IN [b EXCEPT !.windows = Put(@, w, new),
                 !.given = IF e.timedOut THEN Put(@, e.order, mark) ELSE @]

\* Mutant: the answers of an order the bot gave up are sampled.
observe_acked_KeepsGivenUp(a, e) ==
    LET w == WaveOf(a, e.t3)
        old == WindowAt(a, w, e.t7)
        first == e.order \notin DOMAIN a.seen
        new == [old EXCEPT !.svc = IF first THEN Sample(@, e.order) ELSE @,
                           !.responded = @ + (IF first THEN 1 ELSE 0), !.last = Larger(@, e.t7)]
    IN [a EXCEPT !.known = TRUE, !.start = StartAt(a, e.t3), !.windows = Put(@, w, new),
                 !.seen = Put(@, e.order, IF first THEN e.t7 ELSE Larger(@[e.order], e.t7))]

observe_acked(a, e) ==
    LET kind == Stream("response")[e.msg].kind
        w == WaveOf(a, e.t3)
        old == WindowAt(a, w, e.t7)
        first == e.order \notin DOMAIN a.seen
        new == [old EXCEPT !.svc = IF first THEN Sample(@, e.order) ELSE @,
                           !.responded = @ + (IF first THEN 1 ELSE 0),
                           !.rejected = @ + (IF first /\ kind = "reject" THEN 1 ELSE 0),
                           !.fills = @ + (IF kind = "fill" THEN 1 ELSE 0),
                           !.last = Larger(@, e.t7)]
    IN IF e.order \in DOMAIN a.given
       THEN [a EXCEPT !.known = TRUE, !.given[e.order] = Larger(@, e.t7)]
       ELSE [a EXCEPT !.known = TRUE, !.start = StartAt(a, e.t3), !.windows = Put(@, w, new),
                      !.seen = Put(@, e.order, IF first THEN e.t7 ELSE Larger(@[e.order], e.t7))]

IntervalActive(w) == w.offered > 0 \/ w.responded > 0 \/ w.fills > 0

\* The rows snapshot returns: active windows of a known contestant with an answer.
SnapshotRows(r, a) ==
    {[time |-> now, shard |-> r, wave |-> w, svc |-> a.windows[w].svc, rt |-> a.windows[w].rt,
      offered |-> a.windows[w].offered, errors |-> a.windows[w].timedOut + a.windows[w].rejected] :
        w \in {x \in DOMAIN a.windows : /\ IntervalActive(a.windows[x]) /\ a.known
                                        /\ a.windows[x].svc # NoSamples}}

\* What snapshot leaves: interval counters start again, whatever is idle goes.
AfterSnapshot(a) ==
    LET reset == [w \in DOMAIN a.windows |-> [a.windows[w] EXCEPT
                     !.offered = 0, !.responded = 0, !.rejected = 0, !.timedOut = 0, !.fills = 0]]
        windows == Restrict(reset, {w \in DOMAIN reset : now - reset[w].last < WindowIdle})
    IN [a EXCEPT !.windows = windows,
                 !.start = IF windows = <<>> THEN <<>> ELSE @,
                 !.known = @ /\ windows # <<>>,
                 !.seen = Fresh(@, FirstIdle),
                 !.given = Fresh(@, TimedOutIdle)]

----------------------------------------------------------------------------
(* rollup.rs                                                               *)

RowsOf(w) == {p \in partial : p.wave = w}
Buckets(w) == {p.time : p \in RowsOf(w)}
Shards(w) == {p.shard : p \in RowsOf(w)}

\* The samples of one second of one shard; all of them when they did not grow.
shard_delta(cur, prev) ==
    IF \A o \in Orders : cur[o] >= prev[o] THEN [o \in Orders |-> cur[o] - prev[o]] ELSE cur

\* A shard's histogram carried forward to second b, from its latest row so far.
CarriedTo(w, s, b, field) ==
    LET upTo == {p \in RowsOf(w) : p.shard = s /\ p.time <= b}
    IN IF upTo = {} THEN NoSamples
       ELSE (CHOOSE p \in upTo : \A q \in upTo : q.time <= p.time)[field]

\* roll_wave_buckets, for one second of a wave.
MergedRow(w, b) ==
    LET before == {c \in Buckets(w) : c < b}
        prev == IF before = {} THEN -1 ELSE Max(before)
        rows == {p \in RowsOf(w) : p.time = b}
    IN [svc |-> Sum([s \in Shards(w) |-> CarriedTo(w, s, b, "svc")]),
        rt |-> Sum([s \in Shards(w) |-> CarriedTo(w, s, b, "rt")]),
        delta |-> Sum([s \in Shards(w) |-> shard_delta(CarriedTo(w, s, b, "svc"), CarriedTo(w, s, prev, "svc"))]),
        offered |-> MapThenSumSet(LAMBDA p : p.offered, rows),
        errors |-> MapThenSumSet(LAMBDA p : p.errors, rows)]

----------------------------------------------------------------------------

Init ==
    /\ CaptureInit
    /\ sent = <<>>
    /\ agg = [r \in env.replicas |-> [a |-> NewAggregator, sent |-> 0, acked |-> 0, flushed |-> 0, unwritten |-> {}]]
    /\ partial = {}
    /\ metrics = <<>>
    /\ watermark = -Lookback
    /\ log = <<>>
    /\ missed = FALSE

\* A record still to be ingested, and a replica that is not waiting for its flush.
Unread(r) == {n \in Mine(r, sent) : n > agg[r].sent} # {} \/ {n \in Mine(r, acked) : n > agg[r].acked} # {}
Free(r) == agg[r].unwritten = {}

Reported(o) == \E n \in DOMAIN sent : sent[n].order = o

\* Time passes.  In a session that is measured, segments pass in the second they
\* are due, a bot reports an order by its timeout, and a replica flushes every
\* second unless it waits for a write; it keeps up with the topics except where
\* the environment lets it lag.
Tick ==
    /\ now < env.until
    /\ env.replicas # {} =>
          /\ \A d \in Directions : \A i \in Segments(d) : env.due[d][i] <= now => i \in passed[d]
          /\ \A o \in Orders : Due(o) + Timeout <= now => Reported(o)
    /\ \A r \in env.replicas : Free(r) => agg[r].flushed = now /\ ("lag" \in env.faults \/ ~Unread(r))
    /\ now' = now + 1
    /\ UNCHANGED <<env, passed, re, inflight, acked, faults, taken, framed, telemetryVars>>

CaptureSteps == CaptureStep /\ UNCHANGED telemetryVars

\* A bot reports an order: answered once an answer has passed, or given up after
\* the timeout, which an answer still on its way does not prevent.
Report(o) ==
    /\ env.replicas # {}
    /\ ~Reported(o)
    /\ SegmentOf("request", <<RequestOf(o), 1>>) \in passed["request"]
    /\ \E timedOut \in BOOLEAN :
          /\ IF timedOut THEN now >= Due(o) + Timeout
             ELSE \E k \in DOMAIN Stream("response") :
                     Stream("response")[k].order = o /\ SegmentOf("response", <<k, 1>>) \in passed["response"]
          /\ sent' = Append(sent, [order |-> o, t0 |-> Due(o), r9 |-> now, timedOut |-> timedOut])
    /\ UNCHANGED <<captureVars, agg, partial, metrics, watermark, log, missed>>

\* A replica takes the next record of its partitions from either topic.
IngestSent(r) ==
    LET unread == {n \in Mine(r, sent) : n > agg[r].sent}
        e == sent[Min(unread)]
    IN /\ Free(r) /\ unread # {}
       /\ agg' = [agg EXCEPT ![r].a = observe_sent(@, e), ![r].sent = Min(unread)]
       /\ log' = Append(log, [order |-> e.order, at |-> now, t |-> e.t0, acked |-> FALSE, timedOut |-> e.timedOut])
       /\ UNCHANGED <<captureVars, sent, partial, metrics, watermark, missed>>

IngestAcked(r) ==
    LET unread == {n \in Mine(r, acked) : n > agg[r].acked}
        e == acked[Min(unread)]
    IN /\ Free(r) /\ unread # {}
       /\ agg' = [agg EXCEPT ![r].a = observe_acked(@, e), ![r].acked = Min(unread)]
       /\ log' = Append(log, [order |-> e.order, at |-> now, t |-> e.t7, acked |-> TRUE, timedOut |-> FALSE])
       /\ UNCHANGED <<captureVars, sent, partial, metrics, watermark, missed>>

\* Rows arrive in metrics_partial.
Land(rows) ==
    /\ partial' = partial \cup rows
    /\ missed' = (missed \/ \E p \in rows : p.time <= watermark)

\* The snapshot ticker, once a second: the rows are written, or written late while
\* the replica waits, or the write fails after some of them and the rest is dropped.
Flush(r) ==
    LET rows == SnapshotRows(r, agg[r].a)
        after == [agg[r] EXCEPT !.a = AfterSnapshot(@), !.flushed = now]
    IN /\ Free(r) /\ agg[r].flushed < now
       /\ \/ Land(rows) /\ agg' = [agg EXCEPT ![r] = after] /\ UNCHANGED faults
          \/ /\ Fault("slow") /\ rows # {}
             /\ agg' = [agg EXCEPT ![r] = [after EXCEPT !.unwritten = rows]]
             /\ faults' = faults + 1 /\ UNCHANGED <<partial, missed>>
          \/ /\ Fault("write") /\ \E some \in SUBSET rows : some # rows /\ Land(some)
             /\ agg' = [agg EXCEPT ![r] = after] /\ faults' = faults + 1
       /\ UNCHANGED <<env, now, passed, re, inflight, acked, taken, framed, sent, metrics, watermark, log>>

\* The late write completes.
Written(r) ==
    /\ ~Free(r)
    /\ Land(agg[r].unwritten)
    /\ agg' = [agg EXCEPT ![r].unwritten = {}]
    /\ UNCHANGED <<captureVars, sent, metrics, watermark, log>>

\* A replica's container restarts under the same shard name: its windows are
\* gone, and the records since the last offsets it committed come again.
Restart(r) ==
    /\ Fault("restart")
    /\ \E s \in 0 .. agg[r].sent, k \in 0 .. agg[r].acked :
          agg' = [agg EXCEPT ![r] = [a |-> NewAggregator, sent |-> s, acked |-> k, flushed |-> now, unwritten |-> {}]]
    /\ faults' = faults + 1
    /\ UNCHANGED <<env, now, passed, re, inflight, acked, taken, framed, sent, partial, metrics, watermark, log, missed>>

\* The metrics rows the rollup computes for a set of waves.
RowKeys(waves) == UNION {{<<w, b>> : b \in Buckets(w)} : w \in waves}
Upserted(keys) ==
    [k \in DOMAIN metrics \cup keys |-> IF k \in keys THEN MergedRow(k[1], k[2]) ELSE metrics[k]]

\* Mutant: the watermark advances although the window failed.
Roll_AdvancesOnError ==
    LET sealed == now - RollupLag
        touched == {p.wave : p \in {q \in partial : watermark < q.time /\ q.time <= sealed}}
    IN /\ env.replicas # {} /\ sealed > watermark
       /\ \/ metrics' = Upserted(RowKeys(touched)) /\ UNCHANGED faults
          \/ Fault("roll") /\ touched # {} /\ UNCHANGED metrics /\ faults' = faults + 1
       /\ watermark' = sealed
       /\ UNCHANGED <<env, now, passed, re, inflight, acked, taken, framed, sent, agg, partial, log, missed>>

\* The rollup's tick: every wave with a row in the sealed seconds is merged again
\* from its whole history.  A failure part way leaves the watermark where it is.
Roll ==
    LET sealed == now - RollupLag
        touched == {p.wave : p \in {q \in partial : watermark < q.time /\ q.time <= sealed}}
    IN /\ env.replicas # {} /\ sealed > watermark
       /\ \/ metrics' = Upserted(RowKeys(touched)) /\ watermark' = sealed /\ UNCHANGED faults
          \/ /\ Fault("roll") /\ \E some \in SUBSET RowKeys(touched) : some # RowKeys(touched) /\ metrics' = Upserted(some)
             /\ faults' = faults + 1 /\ UNCHANGED watermark
       /\ UNCHANGED <<env, now, passed, re, inflight, acked, taken, framed, sent, agg, partial, log, missed>>

\* The rollup restarts some way back from now.
RollupRestart ==
    /\ Fault("rerun")
    /\ watermark' = now - Lookback
    /\ missed' = (missed \/ \E p \in partial : watermark < p.time /\ p.time <= now - Lookback)
    /\ faults' = faults + 1
    /\ UNCHANGED <<env, now, passed, re, inflight, acked, taken, framed, sent, agg, partial, metrics, log>>

Next ==
    \/ Tick \/ CaptureSteps \/ Roll \/ RollupRestart
    \/ \E o \in Orders : Report(o)
    \/ \E r \in env.replicas : IngestSent(r) \/ IngestAcked(r) \/ Flush(r) \/ Written(r) \/ Restart(r)

Spec == Init /\ [][Next]_vars

----------------------------------------------------------------------------
(* What the metrics promise.                                               *)

MetricWaves == {k[1] : k \in DOMAIN metrics}
LastRow(w) == metrics[<<w, Max({k[2] : k \in {j \in DOMAIN metrics : j[1] = w}})>>]
Samples(o) == MapThenSumSet(LAMBDA w : LastRow(w).svc[o], MetricWaves)

Answers(o) == {n \in DOMAIN log : log[n].acked /\ log[n].order = o}
GivenUp(o) == {n \in DOMAIN log : log[n].timedOut /\ log[n].order = o}

\* An answer ingested so late that what the replica knew of the order may have
\* been evicted: its first answer, or the mark that the bot gave it up.
Overdue(o) ==
    \E n \in Answers(o) :
        LET marks == {m \in GivenUp(o) : m < n}
            since == IF marks = {} THEN 1 ELSE Min(marks)
            known == {m \in Answers(o) \cup marks : since <= m /\ m < n}
        IN /\ known # {}
           /\ log[n].at - Max({log[m].t : m \in known}) >= (IF marks = {} THEN FirstIdle ELSE TimedOutIdle)

\* An order is measured at most once: its first answer gives the only service
\* time sample the metrics hold for it, however its answers, the bot's report,
\* flushes, evictions, failed writes and rollups interleave, and an order whose
\* giving up was ingested before any answer gives none (observe_acked,
\* FirstResponseTracker, timed_out_orders, roll_wave_buckets).  The exception is
\* an answer ingested after the trackers' idle times.  A restarted replica
\* forgets the orders given up, and may count an order again in another wave.
SampledOnce ==
    \A o \in Orders : ~Overdue(o) =>
        /\ \A w \in MetricWaves : LastRow(w).svc[o] <= 1
        /\ "restart" \notin env.faults =>
              /\ Samples(o) <= 1
              /\ (GivenUp(o) # {} /\ \A n \in Answers(o), m \in GivenUp(o) : m < n) => Samples(o) = 0

\* The rollup has seen every row, and none landed behind its watermark.
CaughtUp == ~missed /\ \A p \in partial : p.time <= watermark

\* The replicas have nothing left to ingest or to write.
Settled == \A r \in env.replicas :
               /\ ~Unread(r) /\ Free(r)
               /\ \A w \in DOMAIN agg[r].a.windows : ~IntervalActive(agg[r].a.windows[w])

\* Once the rollup has caught up, the metrics are what the replicas wrote: a row
\* for every second of every wave, the counts of the partial rows added up once,
\* each service time sample in the slice of exactly one second, and, when nothing
\* failed on the way, exactly one sample for every order answered and not given
\* up (flush, roll_window, roll_wave_buckets, the watermark of run).  A failed or
\* late write, a failed or restarted rollup and any order of the replicas' rows
\* change nothing in the end.
RolledUp ==
    CaughtUp =>
        /\ DOMAIN metrics = RowKeys({p.wave : p \in partial})
        /\ MapThenSumSet(LAMBDA k : metrics[k].offered, DOMAIN metrics)
              = MapThenSumSet(LAMBDA p : p.offered, partial)
        /\ {"restart", "lag"} \cap env.faults = {} =>
              \A w \in MetricWaves, o \in Orders :
                  MapThenSumSet(LAMBDA k : metrics[k].delta[o], {k \in DOMAIN metrics : k[1] = w})
                      = LastRow(w).svc[o]
        /\ Settled /\ {"restart", "write"} \cap env.faults = {} =>
              \A o \in Orders :
                  (Answers(o) # {} /\ GivenUp(o) = {} /\ ~Overdue(o)) => Samples(o) = 1
============================================================================
