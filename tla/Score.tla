------------------------------- MODULE Score -------------------------------
(***************************************************************************)
(* score-computer/internal/score/score.go: a run group's result from its   *)
(* sessions, and the order of results.                                     *)
(*                                                                         *)
(* A ratio is a pair <<numerator, denominator>>; thresholds are in         *)
(* thousandths; time is in seconds.  A session is a record                 *)
(*   [scenario, tasks, valid, total, sent, matched, jitter, rows]          *)
(* and a row of its metrics [wave, p99, tps, err], tps a ratio.            *)
(***************************************************************************)
EXTENDS LoadPlan

CONSTANTS
    DefaultScoring, \* [dq, maxErr, maxP99, wave, minCoverage]: the defaults of score.go
    MaxWaves,       \* DefaultMaxScheduledWaves
    MaxU64          \* the largest uint64

Ratio(a, b) == IF b = 0 THEN <<0, 1>> ELSE <<Min({a, b}), b>>
Below(r, thousandths) == r[1] * 1000 < thousandths * r[2]
Less(r, q) == r[1] * q[2] < q[1] * r[2]

\* A value that is not positive (or a ratio over one) is replaced by its default.
WithDefaults(c) ==
    LET d == DefaultScoring
    IN  [dq |-> IF c.dq \in 1..1000 THEN c.dq ELSE d.dq,
         maxErr |-> IF c.maxErr > 0 THEN c.maxErr ELSE d.maxErr,
         maxP99 |-> IF c.maxP99 > 0 THEN c.maxP99 ELSE d.maxP99,
         wave |-> IF c.wave > 0 THEN c.wave ELSE d.wave,
         minCoverage |-> IF c.minCoverage \in 1..1000 THEN c.minCoverage ELSE d.minCoverage]
-----------------------------------------------------------------------------
(* The rate a schedule of tasks offers in each wave. *)

saturatingAdd(a, b) == IF MaxU64 - a < b THEN MaxU64 ELSE a + b

overlapNS(aStart, aEnd, bStart, bEnd) ==
    Max({0, Min({aEnd, bEnd}) - Max({aStart, bStart})})

\* The rates times the seconds they overlap the wave; an uncapped task has no rate.
Offered(tasks, wave, waveDuration) ==
    LET start == wave * waveDuration
        Part(t) == t.rps * overlapNS(start, saturatingAdd(start, waveDuration),
                                     t.start, saturatingAdd(t.start, t.duration))
    IN  Total([i \in DOMAIN tasks |-> Part(tasks[i])])

\* math.Round of a quotient.
Round(a, b) == (2 * a + b) \div (2 * b)

\* The waves in which something is offered, in order, and how much.
WaveSchedule(tasks, waveDuration) ==
    LET maxEnd == Max({0} \cup {saturatingAdd(t.start, t.duration) : t \in ToSet(tasks)})
        waves == Min({CeilDiv(maxEnd, waveDuration), MaxWaves})
        all == [i \in 1..waves |-> [wave |-> i - 1, sum |-> Offered(tasks, i - 1, waveDuration)]]
        some == SelectSeq(all, LAMBDA w : w.sum > 0)
    IN  [i \in DOMAIN some |-> [wave |-> some[i].wave, offered |-> Round(some[i].sum, waveDuration)]]
-----------------------------------------------------------------------------
(* What was measured. *)

\* store.go's loadMetrics: one row per wave of the seconds the ingester wrote.
loadMetrics(points) ==
    LET Of(w) == SelectSeq(points, LAMBDA p : p.wave = w)
        Row(w) == [wave |-> w,
                   p99 |-> Max({p.p99 : p \in ToSet(Of(w))}),
                   tps |-> <<Total([i \in DOMAIN Of(w) |-> Of(w)[i].tps]), Len(Of(w))>>,
                   err |-> Max({p.err : p \in ToSet(Of(w))})]
        waves == SetToSortSeq({p.wave : p \in ToSet(points)}, LAMBDA x, y : x < y)
    IN  [i \in DOMAIN waves |-> Row(waves[i])]

medianU64(samples) == SortSeq(samples, LAMBDA x, y : x < y)[(Len(samples) \div 2) + 1]

\* By wave: the worst second, the median second and the worst error rate.
summarizeMetrics(rows) ==
    LET Of(w) == SelectSeq(rows, LAMBDA r : r.wave = w)
    IN  [w \in {r.wave : r \in ToSet(rows)} |->
            [maxP99 |-> Max({r.p99 : r \in ToSet(Of(w))}),
             stableP99 |-> medianU64([i \in DOMAIN Of(w) |-> Of(w)[i].p99]),
             maxErr |-> Max({r.err : r \in ToSet(Of(w))})]]

\* From the worst wave to the first back within a tenth of the first wave's latency.
spikeRecoveryNS(sessions, waveDuration) ==
    LET spikes == SelectSeq(sessions, LAMBDA s : s.scenario = "spike")
        sum == summarizeMetrics(spikes[1].rows)
        waves == DOMAIN sum
        baseline == sum[Min(waves)].maxP99
        threshold == (baseline * 11) \div 10
        peak == Max({sum[w].maxP99 : w \in waves})
        peakWave == Min({w \in waves : sum[w].maxP99 = peak})
        back == {w \in waves : w > peakWave /\ sum[w].maxP99 <= threshold}
    IN  CASE spikes = <<>> -> 0
          [] spikes[1].rows = <<>> -> 0
          [] baseline = 0 \/ peak <= threshold -> 0
          [] back # {} -> (Min(back) - peakWave) * waveDuration
          [] OTHER -> (Max(waves) - peakWave + 1) * waveDuration
-----------------------------------------------------------------------------
(* The result. *)

\* Pass-1 sessions alone.
aggregateCorrectness(sessions) ==
    LET pass1 == SelectSeq(sessions, LAMBDA s : s.scenario = "correctness")
        Sum(F(_)) == Total([i \in DOMAIN pass1 |-> F(pass1[i])])
    IN  Ratio(Sum(LAMBDA s : s.valid), Sum(LAMBDA s : s.total))

\* The worst of each percentile.
aggregateJitter(sessions) ==
    [k \in UNION {DOMAIN s.jitter : s \in ToSet(sessions)} |->
        Max({0} \cup {s.jitter[k] : s \in ToSet(sessions)})]

\* One turn of the loop over the schedule; the first wave that fails ends it.
JudgeWave(acc, w, metrics, cfg) ==
    LET m == metrics[w.wave]
        reason == CASE w.wave \notin DOMAIN metrics -> "missing_metrics"
                    [] m.maxErr > cfg.maxErr -> "error_rate"
                    [] m.stableP99 > cfg.maxP99 -> "p99_latency"
                    [] OTHER -> "passed"
    IN  CASE acc.done \/ w.wave = 0 -> acc
          [] reason = "passed" -> [acc EXCEPT !.peak = w.offered, !.p99 = m.stableP99,
                                              !.waves = Append(@, reason)]
          [] OTHER -> [acc EXCEPT !.done = TRUE, !.waves = Append(@, reason)]

JudgeRamp(ramp, cfg) ==
    LET metrics == summarizeMetrics(ramp.rows)
        uncapped == ramp.tasks # <<>> /\ \A t \in ToSet(ramp.tasks) : t.rps = 0
        best == {r.tps : r \in ToSet(ramp.rows)}
        top == CHOOSE t \in best : \A u \in best : ~Less(t, u)
        none == [peak |-> 0, p99 |-> 0, waves |-> <<>>, done |-> FALSE]
    IN  IF uncapped
        THEN [none EXCEPT !.peak = IF best = {} THEN 0 ELSE Round(top[1], top[2])]
        ELSE FoldLeft(LAMBDA acc, w : JudgeWave(acc, w, metrics, cfg), none,
                      WaveSchedule(ramp.tasks, cfg.wave))

\* "" when the group is ranked.
Disqualification(sessions, cfg) ==
    CASE Below(aggregateCorrectness(sessions), cfg.dq) -> "correctness_below_threshold"
      [] \E s \in ToSet(sessions) : s.total > 0 /\ Below(Ratio(s.valid, s.total), cfg.dq)
            -> "session_correctness_below_threshold"
      [] OTHER -> ""

\* err is "missing ramp session" for a group without one that is not disqualified.
Compute(group, sessions, config) ==
    LET cfg == WithDefaults(config)
        code == Disqualification(sessions, cfg)
        ramps == SelectSeq(sessions, LAMBDA s : s.scenario = "ramp")
        judged == IF ramps = <<>> THEN [peak |-> 0, p99 |-> 0, waves |-> <<>>, done |-> FALSE]
                                  ELSE JudgeRamp(Last(ramps), cfg)
    IN  [err |-> ramps = <<>> /\ code = "",
         group |-> group, peak |-> judged.peak, p99 |-> judged.p99, waves |-> judged.waves,
         recovery |-> IF ramps = <<>> THEN 0 ELSE spikeRecoveryNS(sessions, cfg.wave),
         correctness |-> aggregateCorrectness(sessions),
         dq |-> code # "", code |-> code, jitter |-> aggregateJitter(sessions),
         incomplete |-> \E s \in ToSet(sessions) :
                            s.sent > 0 /\ Below(Ratio(s.matched, s.sent), cfg.minCoverage)]

\* SortResults: whether it puts a before b.
SortResults(a, b) ==
    CASE a.dq # b.dq -> b.dq
      [] a.peak # b.peak -> a.peak > b.peak
      [] a.p99 # b.p99 -> a.p99 < b.p99
      [] a.recovery # b.recovery -> a.recovery < b.recovery
      [] Less(b.correctness, a.correctness) -> TRUE
      [] Less(a.correctness, b.correctness) -> FALSE
      [] OTHER -> a.group < b.group
=============================================================================
