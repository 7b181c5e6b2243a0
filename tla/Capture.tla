------------------------------ MODULE Capture ------------------------------
(***************************************************************************)
(* The packet capture of one contestant's pod (services/ebpf-latency).     *)
(* Kernel hooks copy the TCP segments of both directions of the bot's      *)
(* connection, stamped with the time they pass, into a ring buffer.  User  *)
(* space drains the ring, puts each direction's byte stream together       *)
(* again, frames messages out of it, pairs every response with its request *)
(* and publishes orders.acked records carrying the request's time t3 and   *)
(* the response's time t7.  Records leave the ring in the order they       *)
(* entered it, so a record is processed in the step that captures it.      *)
(*                                                                         *)
(* A byte is a unit <<k, i>>: the i-th unit of the k-th message of its     *)
(* direction.  Unit 1 is the header, which gives the message's length, and *)
(* the order's id is in unit 2 (in unit 1 when that is the only one).      *)
(* Sequence numbers are taken modulo SeqSpace, and time passes in ticks.   *)
(***************************************************************************)
EXTENDS Integers, Sequences, FiniteSets, SequencesExt, FiniteSetsExt

CONSTANTS Environments, \* the traffic and the faults of one behaviour
          SeqSpace,     \* 2^32 in the code
          MaxHold,      \* MAX_HOLD_SEGMENTS
          StallLimit,   \* GAP_SKIP_AFTER_STALLED_PUSHES
          MaxBuffered,  \* MAX_BUFFERED
          IdleTime,     \* DEFAULT_IDLE_NS
          MaxInflight   \* MAX_INFLIGHT

ASSUME CaptureConstants ==
    /\ SeqSpace \in Nat /\ SeqSpace % 2 = 0 /\ SeqSpace > 0
    /\ {MaxHold, StallLimit, MaxBuffered, IdleTime, MaxInflight} \subseteq Nat \ {0}

VARIABLES env,      \* the environment: see MCMeasure for its fields
          now,      \* the clock of the node
          passed,   \* per direction, the segments that have passed the hook
          re,       \* per direction, the Reassembler of the flow
          inflight, \* the Matcher's requests by order
          acked,    \* the records of orders.acked
          faults,   \* how many faults have happened
          taken,    \* history: the records pushed, per direction, in order
          framed    \* history: the messages framed, per direction, in order

captureVars == <<env, now, passed, re, inflight, acked, faults, taken, framed>>

Directions == {"request", "response"}

Fault(f) == f \in env.faults /\ faults < env.maxFaults

----------------------------------------------------------------------------
(* The traffic: streams of messages cut into segments.                     *)

\* The traffic of a connection: per direction its messages, the lengths of the
\* segments they are cut into, where each segment starts (in units from 0) and
\* the units it holds.
Traffic(stream, cuts) ==
    LET units(d) == FlattenSeq([k \in DOMAIN stream[d] |-> [i \in 1 .. stream[d][k].len |-> <<k, i>>]])
        offset(d, i) == FoldLeft(+, 0, SubSeq(cuts[d], 1, i - 1))
    IN [stream |-> stream,
        offset |-> [d \in Directions |-> [i \in DOMAIN cuts[d] |-> offset(d, i)]],
        segment |-> [d \in Directions |-> [i \in DOMAIN cuts[d] |->
                        SubSeq(units(d), offset(d, i) + 1, offset(d, i) + cuts[d][i])]]]

Stream(d) == env.stream[d]

Segments(d) == DOMAIN env.segment[d]

Units(d) == FlattenSeq(env.segment[d])

TcpSeq(d, offset) == (env.isn[d] + offset) % SeqSpace

\* The offset of a message's first unit.
MessageOffset(d, k) == (CHOOSE n \in DOMAIN Units(d) : Units(d)[n] = <<k, 1>>) - 1

\* The contestant answers a request once TCP has delivered it whole.
Causal(d, i) ==
    d = "response" =>
        \A n \in DOMAIN env.segment[d][i], j \in Segments("request") :
            (\E u \in Range(env.segment["request"][j]) :
                 Stream("request")[u[1]].order = Stream(d)[env.segment[d][i][n][1]].order)
            => 1 .. j \subseteq passed["request"]

----------------------------------------------------------------------------
(* reassembly.rs: one direction's byte stream.  A buffered unit carries    *)
(* the time and the sequence number its mark gives it.                     *)

NewReassembler ==
    [initialized |-> FALSE, next |-> 0, buf |-> <<>>, hold |-> <<>>, last |-> 0, stalled |-> 0]

\* The signed distance from b to a, as (a - b) as i32.
SeqDiff(a, b) ==
    LET x == (a - b) % SeqSpace IN IF x < SeqSpace \div 2 THEN x ELSE x - SeqSpace

\* Mutant: the bytes drained from the hold are marked with the latest time.
append_contiguous_LatestTime(r, ts, data) ==
    [r EXCEPT !.buf = @ \o [i \in DOMAIN data |-> [unit |-> data[i], ts |-> r.last, seq |-> (r.next + i - 1) % SeqSpace]],
              !.next = (@ + Len(data)) % SeqSpace]

append_contiguous(r, ts, data) ==
    [r EXCEPT !.buf = @ \o [i \in DOMAIN data |->
                               [unit |-> data[i], ts |-> ts, seq |-> (r.next + i - 1) % SeqSpace]],
              !.next = (@ + Len(data)) % SeqSpace]

Held(r, s) == r.hold[s].data

HoldEnd(r, s) == (s + Len(Held(r, s))) % SeqSpace

\* One round of drain_hold's loop: the first held segment that covers the next byte.
DrainOne(r) ==
    LET ready == {s \in DOMAIN r.hold :
                     SeqDiff(s, r.next) <= 0 /\ SeqDiff(r.next, HoldEnd(r, s)) < 0}
        s == Min(ready)
        skip == (r.next - s) % SeqSpace
        rest == [x \in DOMAIN r.hold \ {s} |-> r.hold[x]]
    IN IF ready = {} THEN r
       ELSE append_contiguous([r EXCEPT !.hold = rest], r.hold[s].ts,
                              SubSeq(Held(r, s), skip + 1, Len(Held(r, s))))

\* What is held and was passed by is dropped.
Retain(r) ==
    [r EXCEPT !.hold = [s \in {s \in DOMAIN r.hold : SeqDiff(HoldEnd(r, s), r.next) >= 0} |-> r.hold[s]]]

drain_hold(r) ==
    Retain(FoldLeft(LAMBDA x, n : DrainOne(x), r, [n \in 1 .. Cardinality(DOMAIN r.hold) |-> n]))

\* Mutant: the hold is cleared and the stream stays behind the hole.
skip_gap_ClearsHold(r) == [r EXCEPT !.hold = <<>>]

\* The hole ahead is written off: on to the held segment with the smallest number.
skip_gap(r) ==
    IF DOMAIN r.hold = {} THEN r
    ELSE drain_hold([r EXCEPT !.next = Min(DOMAIN r.hold), !.stalled = 0])

Hold(r, s, ts, data) ==
    [r EXCEPT !.hold = [x \in DOMAIN r.hold \cup {s} |->
                           IF x = s THEN [ts |-> ts, data |-> data] ELSE r.hold[x]]]

\* push up to its progress check.
Insert(r, s, ts, data) ==
    LET gap == SeqDiff(s, r.next)
        held == Hold(r, s, ts, data)
    IN CASE gap = 0 -> drain_hold(append_contiguous(r, ts, data))
         [] gap < 0 -> IF -gap >= Len(data) THEN r
                       ELSE drain_hold(append_contiguous(r, ts, SubSeq(data, 1 - gap, Len(data))))
         [] gap > 0 -> IF Cardinality(DOMAIN held.hold) > MaxHold THEN skip_gap(held) ELSE held

\* The forward progress check.
Progress(before, r) ==
    IF r.next # before.next \/ DOMAIN r.hold = {} THEN [r EXCEPT !.stalled = 0]
    ELSE IF r.stalled + 1 >= StallLimit THEN skip_gap([r EXCEPT !.stalled = @ + 1])
    ELSE [r EXCEPT !.stalled = @ + 1]

Bounded(r) == IF Len(r.buf) > MaxBuffered THEN [r EXCEPT !.buf = <<>>, !.hold = <<>>] ELSE r

push(r, s, ts, data) ==
    LET w == [r EXCEPT !.last = IF ts > @ THEN ts ELSE @]
    IN IF ~r.initialized
       THEN drain_hold(append_contiguous([w EXCEPT !.initialized = TRUE, !.next = s], ts, data))
       ELSE Bounded(Progress(w, Insert(w, s, ts, data)))

reset_for_truncation(r) == [r EXCEPT !.initialized = FALSE, !.buf = <<>>, !.hold = <<>>]

----------------------------------------------------------------------------
(* parse.rs and pipeline.rs: framing.  A message is as long as its header  *)
(* says, whatever follows the header; of several ids the last one counts.  *)

IsHeader(u) == u.unit[2] = 1

\* The message a framed run of units is taken for: its order, "none" when no id is in it.
Message(d, us) ==
    LET ids == {n \in DOMAIN us : us[n].unit[2] = (IF Stream(d)[us[n].unit[1]].len = 1 THEN 1 ELSE 2)}
        id == us[Max(ids)].unit
    IN [order |-> IF ids = {} THEN "none" ELSE Stream(d)[id[1]].order,
        msg |-> us[1].unit[1],
        whole |-> \A n \in DOMAIN us : us[n].unit = <<us[1].unit[1], n>>,
        ts |-> us[1].ts, seq |-> us[1].seq]

\* One round of process's framing loop over x = [buf, out].
FrameOne(d, x) ==
    LET heads == {n \in DOMAIN x.buf : IsHeader(x.buf[n])}
        total == Stream(d)[x.buf[1].unit[1]].len
    IN CASE x.buf = <<>> -> x
         [] x.buf # <<>> /\ 1 \notin heads ->
              [x EXCEPT !.buf = IF heads = {} THEN <<>> ELSE SubSeq(@, Min(heads), Len(@))]
         [] x.buf # <<>> /\ 1 \in heads /\ Len(x.buf) < total -> x
         [] OTHER -> [buf |-> SubSeq(x.buf, total + 1, Len(x.buf)),
                      out |-> Append(x.out, Message(d, SubSeq(x.buf, 1, total)))]

FrameAll(d, buf) ==
    FoldLeft(LAMBDA x, n : FrameOne(d, x), [buf |-> buf, out |-> <<>>], [n \in 1 .. Len(buf) |-> n])

----------------------------------------------------------------------------
(* matcher.rs: requests in flight and the responses that match them.       *)

\* The victim of evict_oldest; the map's own order decides a tie.
Oldest(m) ==
    CHOOSE k \in DOMAIN m : \A j \in DOMAIN m :
        m[k].last < m[j].last \/ (m[k].last = m[j].last /\ env.hash[k] <= env.hash[j])

on_request(m, p) ==
    LET full == Cardinality(DOMAIN m) >= MaxInflight
        kept == IF full THEN DOMAIN m \ {Oldest(m)} ELSE DOMAIN m
    IN CASE p.order = "none" -> m
         [] p.order \in DOMAIN m ->
              [m EXCEPT ![p.order].last = IF p.ts > @ THEN p.ts ELSE @]
         [] OTHER -> [k \in kept \cup {p.order} |->
                        IF k = p.order THEN [t3 |-> p.ts, last |-> p.ts, seq |-> p.seq, whole |-> p.whole]
                        ELSE m[k]]

\* x = [inflight, events]: a response that matches no request is dropped.
on_response(x, p) ==
    IF p.order \notin DOMAIN x.inflight THEN x
    ELSE LET r == x.inflight[p.order] IN
         [inflight |-> [x.inflight EXCEPT ![p.order].last = IF p.ts > @ THEN p.ts ELSE @],
          events |-> Append(x.events, [order |-> p.order, t3 |-> r.t3, t7 |-> p.ts, seq |-> r.seq,
                                       msg |-> p.msg, whole |-> r.whole /\ p.whole])]

\* x = [re, inflight, events, taken, framed]; c is a capture record; f what is framed once
\* it is pushed.
Matched(x, c, pushed, f) ==
    LET d == c.dir
        m == FoldLeft(LAMBDA y, p : IF d = "request" THEN [y EXCEPT !.inflight = on_request(@, p)]
                                    ELSE on_response(y, p),
                      [inflight |-> x.inflight, events |-> x.events], f.out)
    IN [re |-> [x.re EXCEPT ![d] = [pushed EXCEPT !.buf = f.buf]],
        inflight |-> m.inflight, events |-> m.events,
        taken |-> [x.taken EXCEPT ![d] = Append(@, [seg |-> c.seg, ts |-> c.ts])],
        framed |-> [x.framed EXCEPT ![d] = @ \o f.out]]

Framed(x, c, pushed) == Matched(x, c, pushed, FrameAll(c.dir, pushed.buf))

process(x, c) ==
    LET d == c.dir
    IN IF c.truncated THEN [x EXCEPT !.re[d] = reset_for_truncation(@)]
       ELSE Framed(x, c, push(x.re[d], TcpSeq(d, env.offset[d][c.seg]), c.ts, env.segment[d][c.seg]))

----------------------------------------------------------------------------

CaptureInit ==
    /\ env \in Environments
    /\ now = 0
    /\ passed = [d \in Directions |-> {}]
    /\ re = [d \in Directions |-> NewReassembler]
    /\ inflight = <<>>
    /\ acked = <<>>
    /\ faults = 0
    /\ taken = [d \in Directions |-> <<>>]
    /\ framed = [d \in Directions |-> <<>>]

\* drain_ringbuf and flush: the record of segment i is processed and the events
\* it completes are enqueued; those of a partition, which the order decides, are
\* dropped when the producer's queue is full.
Captured(d, i, truncated) ==
    \E x \in {process([re |-> re, inflight |-> inflight, events |-> <<>>, taken |-> taken, framed |-> framed],
                      [dir |-> d, seg |-> i, ts |-> now, truncated |-> truncated])} :
       /\ re' = x.re /\ inflight' = x.inflight /\ taken' = x.taken /\ framed' = x.framed
       /\ \/ acked' = acked \o x.events
          \/ /\ "drop" \in env.faults
             /\ \E lost \in SUBSET {e.order : e \in Range(x.events)} :
                   acked' = acked \o SelectSeq(x.events, LAMBDA e : e.order \notin lost)

\* The kernel hooks: segment i, once it is due, passes and is recorded.  Segments may overtake
\* each other; the ring may have no room for one, and one longer than the
\* capture's cap is recorded cut short.
Pass(d, i) ==
    /\ i \notin passed[d] /\ Causal(d, i)
    /\ now >= env.due[d][i]
    /\ LET inOrder == 1 .. i - 1 \subseteq passed[d] IN
       \/ inOrder /\ Captured(d, i, FALSE) /\ UNCHANGED faults
       \/ ~inOrder /\ Fault("swap") /\ Captured(d, i, FALSE) /\ faults' = faults + 1
       \/ inOrder /\ Fault("lose") /\ UNCHANGED <<re, inflight, acked, taken, framed>> /\ faults' = faults + 1
       \/ inOrder /\ Fault("truncate") /\ Captured(d, i, TRUE) /\ faults' = faults + 1
    /\ passed' = [passed EXCEPT ![d] = @ \cup {i}]
    /\ UNCHANGED <<env, now>>

\* A segment is sent again and recorded again.
Repeat(d, i) ==
    /\ i \in passed[d] /\ Fault("repeat")
    /\ Captured(d, i, FALSE)
    /\ faults' = faults + 1
    /\ UNCHANGED <<env, now, passed>>

\* The evict ticker: idle requests are forgotten and idle flows start afresh.
EvictIdle ==
    LET keep == {o \in DOMAIN inflight : now - inflight[o].last < IdleTime}
        idle == {d \in Directions : re[d] # NewReassembler /\ now - re[d].last >= IdleTime}
    IN /\ keep # DOMAIN inflight \/ idle # {}
       /\ inflight' = [o \in keep |-> inflight[o]]
       /\ re' = [d \in Directions |-> IF d \in idle THEN NewReassembler ELSE re[d]]
       /\ UNCHANGED <<env, now, passed, acked, faults, taken, framed>>

CaptureStep ==
    \/ \E d \in Directions : \E i \in Segments(d) : Pass(d, i) \/ Repeat(d, i)
    \/ EvictIdle

----------------------------------------------------------------------------
(* What the capture promises.                                              *)

\* The records pushed for a segment.
Pushes(d, i) == {n \in DOMAIN taken[d] : taken[d][n].seg = i}

SegmentOf(d, u) == CHOOSE i \in Segments(d) : u \in Range(env.segment[d][i])

\* t is a time the first unit of a message was recorded, and the first such time
\* unless the segment came again while an earlier one was missing: a held segment
\* is replaced by its repetition, time and all.
SeenAt(d, k, t) ==
    LET i == SegmentOf(d, <<k, 1>>)
        first == Min(Pushes(d, i))
    IN \E n \in Pushes(d, i) :
          /\ taken[d][n].ts = t
          /\ n = first \/ \E j \in 1 .. i - 1 : \A m \in Pushes(d, j) : m > first

RequestOf(o) == CHOOSE k \in DOMAIN Stream("request") : Stream("request")[k].order = o

\* A flow whose reassembler starts afresh takes a repeated segment for new data.
Restarts == "truncate" \in env.faults \/ env.until >= IdleTime

\* A published record of a message framed from its own bytes names the order it
\* answers, carries the times the first bytes of request and response were first
\* recorded and the request's sequence number, and is published once: whatever
\* is reordered, repeated, lost, truncated, held back or wraps around (push,
\* drain_hold, timestamp_at, seq_at, on_response).  Only a flow that both starts
\* afresh and repeats segments may publish an answer twice.
TimesExact ==
    ~(Restarts /\ "repeat" \in env.faults) =>
        \A n \in DOMAIN acked :
            LET e == acked[n] IN
            e.whole =>
                /\ Stream("response")[e.msg].order = e.order
                /\ SeenAt("request", RequestOf(e.order), e.t3)
                /\ SeenAt("response", e.msg, e.t7)
                /\ e.seq = TcpSeq("request", MessageOffset("request", RequestOf(e.order)))
                /\ \A m \in DOMAIN acked : acked[m].msg = e.msg /\ acked[m].whole => m = n

\* Every segment of the direction holds whole messages.
Aligned(d) ==
    \A i \in Segments(d) :
        LET us == env.segment[d][i] IN us[1][2] = 1 /\ us[Len(us)][2] = Stream(d)[us[Len(us)][1]].len

\* The pushes made while segment i was missing and a later one had been seen.
Overtaken(d, i) ==
    {n \in DOMAIN taken[d] : /\ \A m \in Pushes(d, i) : n < m
                             /\ \E m \in 1 .. n : taken[d][m].seg > i}

\* A segment that was recorded, within the reordering push waits for.
InTime(d, i) ==
    /\ Pushes(d, i) # {}
    /\ Cardinality(Overtaken(d, i)) < StallLimit
    /\ taken[d][1].seg <= i

StillHeld(d, i) == TcpSeq(d, env.offset[d][i]) \in DOMAIN re[d].hold

\* The conditions under which a hole costs only itself: the sequence numbers of
\* the flow do not wrap, the stream buffer is not overrun, the flow does not
\* start afresh, and segments hold whole messages.
Steady(d) ==
    /\ ~Restarts /\ Aligned(d)
    /\ env.isn[d] + Len(Units(d)) < SeqSpace /\ Len(Units(d)) <= MaxBuffered

\* Only a hole is lost: every message in a segment that was recorded in time is
\* framed exactly once, however many segments before it are missing, unless its
\* segment still waits in the hold (push, skip_gap, drain_hold).  And when
\* nothing was lost or dropped, every answer framed has been published.
OnlyHolesLost ==
    /\ \A d \in Directions : Steady(d) =>
          \A k \in DOMAIN Stream(d) :
              LET i == SegmentOf(d, <<k, 1>>) IN
              InTime(d, i) /\ ~StillHeld(d, i) =>
                  Cardinality({n \in DOMAIN framed[d] : framed[d][n].msg = k /\ framed[d][n].whole}) = 1
    /\ (\A d \in Directions : Steady(d)) /\ env.faults \subseteq {"swap", "repeat"}
          /\ (\A i \in Segments("request") : Pushes("request", i) # {} => InTime("request", i))
          /\ Cardinality(DOMAIN Stream("request")) <= MaxInflight
       => \A n \in DOMAIN framed["response"] :
              \E m \in DOMAIN acked : acked[m].msg = framed["response"][n].msg
============================================================================
