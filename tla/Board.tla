------------------------------- MODULE Board -------------------------------
(***************************************************************************)
(* leaderboard-api/internal/read (store.go, cache.go): the ranking of the  *)
(* scores table, and a page of it.                                         *)
(*                                                                         *)
(* A row of scores is a record                                             *)
(*   [group, team, scenarios, peak, p99, recovery, correctness, dq, at,    *)
(*    rank]                                                                *)
(* whose rank is set by Ranked.  A query has a sort field and an order, a  *)
(* limit, a cursor, a scenario and a team ("" for any).  A cursor is the   *)
(* offset it encodes; 0 is the empty one.                                  *)
(***************************************************************************)
EXTENDS Score

CONSTANTS
    MaxLeaderboardRows, DefaultLeaderboardRows, MaxLeaderboardOffset

Asc(column) == <<column, FALSE>>
Desc(column) == <<column, TRUE>>

\* Whether a has less in a column.
LessIn(a, b, column) ==
    CASE column = "dq" -> ~a.dq /\ b.dq
      [] column = "correctness" -> Less(a.correctness, b.correctness)
      [] OTHER -> a[column] < b[column]

Ahead(a, b, key) == IF key[2] THEN LessIn(b, a, key[1]) ELSE LessIn(a, b, key[1])

\* ORDER BY: the first key in which the rows differ decides.
OrderBy(keys, a, b) ==
    \E i \in DOMAIN keys :
        /\ Ahead(a, b, keys[i])
        /\ \A j \in 1..(i - 1) : ~Ahead(a, b, keys[j]) /\ ~Ahead(b, a, keys[j])

rankedOrder ==
    <<Asc("dq"), Desc("peak"), Asc("p99"), Asc("recovery"), Desc("correctness"), Asc("group")>>

\* Each row with its ROW_NUMBER.
Ranked(scores) ==
    {[r EXCEPT !.rank = 1 + Cardinality({o \in scores : OrderBy(rankedOrder, o, r)})] : r \in scores}

\* A sort field: its column, whether it descends by default, what breaks ties.
SortSpec(field) ==
    CASE field = "peak_tps" ->
            <<"peak", TRUE, <<Asc("p99"), Asc("recovery"), Desc("correctness"), Asc("group")>>>>
      [] field = "p99" ->
            <<"p99", FALSE, <<Desc("peak"), Asc("recovery"), Desc("correctness"), Asc("group")>>>>
      [] field = "spike_recovery" ->
            <<"recovery", FALSE, <<Desc("peak"), Asc("p99"), Desc("correctness"), Asc("group")>>>>
      [] field = "correctness" ->
            <<"correctness", TRUE, <<Desc("peak"), Asc("p99"), Asc("recovery"), Asc("group")>>>>
      [] field = "team_name" -> <<"team", FALSE, <<Asc("rank"), Asc("group")>>>>
      [] field = "computed_at" -> <<"at", TRUE, <<Asc("rank"), Asc("group")>>>>
      [] OTHER -> <<"rank", FALSE, <<Asc("group")>>>>

leaderboardOrderBy(field, order) ==
    LET spec == SortSpec(field)
        desc == IF order \in {"asc", "desc"} THEN order = "desc" ELSE spec[2]
    IN  <<Asc("dq"), <<spec[1], desc>>>> \o spec[3]

Limit(q) == IF q.limit \in 1..MaxLeaderboardRows THEN q.limit ELSE DefaultLeaderboardRows

\* The rows the WHERE clause keeps.
Matching(scores, q) ==
    {r \in Ranked(scores) : /\ q.team \in {0, r.team}
                            /\ q.scenario = "" \/ q.scenario \in r.scenarios}

\* Mutant: the next page starts after the extra row that was fetched.
Leaderboard_Extra(scores, q) ==
    LET all == SetToSortSeq(Matching(scores, q),
                            LAMBDA a, b : OrderBy(leaderboardOrderBy(q.sort, q.order), a, b))
        end == q.cursor + Limit(q)
    IN  [ok |-> q.cursor <= MaxLeaderboardOffset,
         groups |-> {all[i].group : i \in (q.cursor + 1)..Min({end, Len(all)})},
         next |-> IF Len(all) > end THEN end + 1 ELSE 0]

\* A page: its groups, and the cursor of the next one if a row is left.
Leaderboard(scores, q) ==
    LET all == SetToSortSeq(Matching(scores, q),
                            LAMBDA a, b : OrderBy(leaderboardOrderBy(q.sort, q.order), a, b))
        end == q.cursor + Limit(q)
    IN  [ok |-> q.cursor <= MaxLeaderboardOffset,
         groups |-> {all[i].group : i \in (q.cursor + 1)..Min({end, Len(all)})},
         next |-> IF Len(all) > end THEN end ELSE 0]

\* Only first pages of the whole board in rank order are cached.
cacheableLeaderboard(q) ==
    /\ q.cursor = 0 /\ q.team = 0
    /\ q.sort \in {"", "rank"} /\ q.order \in {"", "asc"}

leaderboardCacheKey(q) == <<Limit(q), IF q.scenario = "" THEN "all" ELSE q.scenario>>
=============================================================================
