----------------------------- MODULE MCMeasure -----------------------------
(***************************************************************************)
(* Connections of two to five messages a direction, and sessions of one or *)
(* two orders.  The fields of an environment:                              *)
(*   stream, offset, segment  see Traffic;                                 *)
(*   isn       the first sequence number of each direction;                *)
(*   due       when each segment passes, at the earliest;                  *)
(*   hash      the order of the matcher's map;                             *)
(*   faults    what may go wrong: "lose", "swap", "repeat", "truncate" a   *)
(*             segment, "drop" events, "slow" or failed "write" of rows,   *)
(*             failed "roll" or "rerun" of the rollup, "restart" of a      *)
(*             replica, all at most maxFaults times; and "lag";            *)
(*   until     when the clock stops;                                       *)
(*   replicas  the ingesters, none when only the capture is looked at;     *)
(*   owner     the replica that reads an order's partition.                *)
(***************************************************************************)
EXTENDS Telemetry

Msg(o, n) == [order |-> o, len |-> n, kind |-> "ack"]
Fill(o) == [order |-> o, len |-> 1, kind |-> "fill"]
One(n) == [i \in 1 .. n |-> 1]

\* A connection that is captured but not measured: all its segments are due at once.
Wire == [isn |-> [request |-> 0, response |-> 0], hash |-> [a |-> 1, b |-> 2, c |-> 3, d |-> 4, e |-> 5],
         maxFaults |-> 2, until |-> 1, due |-> [d \in Directions |-> [i \in 1 .. 5 |-> 0]],
         replicas |-> {}, owner |-> <<>>]

\* Messages that straddle segments, with sequence numbers that wrap or not.
Split == {Traffic([request |-> <<Msg("a", 3), Msg("b", 3), Msg("c", 2)>>, response |-> <<Msg("b", 2)>>],
                  [request |-> <<2, 2, 2, 2>>, response |-> <<2>>])
              @@ [faults |-> {"lose", "swap", "repeat"}, isn |-> [request |-> n, response |-> 0]] @@ Wire : n \in {0, 13}}

\* Whole messages to a segment.
Whole == Traffic([request |-> <<Msg("a", 1), Msg("b", 1), Msg("c", 1), Msg("d", 1)>>, response |-> <<Msg("b", 1), Msg("d", 1)>>],
                 [request |-> One(4), response |-> One(2)])
             @@ [faults |-> {"lose", "swap", "repeat"}] @@ Wire

\* Nothing is lost on the way to the producer's queue, which drops batches; or
\* segments are recorded cut short.
Dropped == Traffic([request |-> <<Msg("a", 2), Msg("b", 1)>>, response |-> <<Msg("a", 1), Msg("b", 2)>>],
                   [request |-> <<2, 1>>, response |-> One(3)]) @@ [faults |-> {"drop", "swap"}] @@ Wire
Truncated == Traffic([request |-> <<Msg("a", 2), Msg("b", 2), Msg("c", 1)>>, response |-> <<Msg("a", 1), Msg("c", 1)>>],
                     [request |-> <<1, 2, 1, 1>>, response |-> One(2)]) @@ [faults |-> {"truncate", "swap"}] @@ Wire

\* More requests in flight than the matcher keeps.
Crowded == Traffic([request |-> <<Msg("a", 1), Msg("b", 1), Msg("c", 1), Msg("d", 1), Msg("e", 1)>>,
                    response |-> <<Msg("a", 1), Msg("e", 1)>>],
                   [request |-> <<2, 1, 2>>, response |-> One(2)]) @@ [faults |-> {}] @@ Wire

Session(req, resp, dueReq, dueResp) ==
    Traffic([request |-> req, response |-> resp], [request |-> One(Len(req)), response |-> One(Len(resp))])
        @@ [due |-> [request |-> dueReq, response |-> dueResp]]

\* A replica that lags behind one order's acknowledgement, fill and report.
Lagging == {Session(<<Msg("a", 1)>>, <<Msg("a", 1), Fill("a")>>, <<0>>, due)
                @@ [faults |-> {"lag"}, maxFaults |-> 0, until |-> 4, replicas |-> {"r1"}, owner |-> [a |-> "r1"]] @@ Wire :
                due \in {<<0, 1>>, <<2, 2>>}}

\* Two orders of two waves; writes and rollups fail.
Failing == Session(<<Msg("a", 1), Msg("b", 1)>>, <<Msg("a", 1), Msg("b", 1)>>, <<0, 2>>, <<1, 2>>)
               @@ [faults |-> {"write", "roll"}, maxFaults |-> 1, until |-> 4, replicas |-> {"r1"},
                   owner |-> [a |-> "r1", b |-> "r1"]] @@ Wire

\* Two replicas share a wave; a write lands late, the rollup restarts.
Shared == Session(<<Msg("a", 1), Msg("b", 1)>>, <<Msg("a", 1), Msg("b", 1)>>, <<0, 0>>, <<0, 1>>)
              @@ [faults |-> {"slow", "rerun"}, maxFaults |-> 1, until |-> 3, replicas |-> {"r1", "r2"},
                  owner |-> [a |-> "r1", b |-> "r2"]] @@ Wire

\* A replica restarts and ingests again what it had not committed.
Restarted == Session(<<Msg("a", 1)>>, <<Msg("a", 1), Fill("a")>>, <<0>>, <<0, 1>>)
                 @@ [faults |-> {"restart"}, maxFaults |-> 1, until |-> 4, replicas |-> {"r1"}, owner |-> [a |-> "r1"]] @@ Wire

MCEnv == Split \cup Lagging \cup {Whole, Dropped, Truncated, Crowded, Failing, Shared, Restarted}
============================================================================
