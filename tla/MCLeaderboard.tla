--------------------------- MODULE MCLeaderboard ---------------------------
(* Instances of the way from finished sessions to the leaderboard's viewers. *)
EXTENDS Leaderboard, TLC

CONSTANTS s1, s2, g1, v1, v2, w1, w2, c1

Env(validator, consumer, worker, viewer, group, pass, status, spec, fault, max) ==
    [validators |-> validator, consumers |-> consumer, workers |-> worker, viewers |-> viewer,
     groupOf |-> group, pass1 |-> pass, statuses |-> status, specs |-> spec,
     faults |-> fault, maxFaults |-> max]

Together == s1 :> g1 @@ s2 :> g1
Single == s1 :> g1
Completed(s) == <<s, "completed">>
Both == <<Completed(s1), Completed(s2)>>

MCEnvironments == {
    \* one group of two sessions, scored by two workers across a restart
    Env({v1}, Consumers, {w1, w2}, {}, Together, {}, Both, <<>>, {"scorerCrash"}, 1),
    \* statements, drains and writes that fail, all along the way
    Env({v1}, Consumers, {w1}, {}, Single, {}, <<Completed(s1)>>, <<>>,
        {"db", "drain", "publish", "timeout"}, 2),
    \* grading alone: a pass-1 session, restarts, timeouts and lost commits
    Env({v1}, {}, {}, {}, Together, {s1}, <<Completed(s1), <<s2, "running">>, Completed(s2)>>, <<s1, s2>>,
        {"validatorCrash", "timeout", "commit"}, 3),
    \* grading alone: a partition that moves while its owner is at work
    Env({v1, v2}, {}, {}, {}, Single, {s1}, <<Completed(s1)>>, <<s1>>,
        {"rebalance", "timeout", "commit"}, 2),
    \* a session that failed is never graded
    Env({v1}, Consumers, {w1}, {}, Together, {}, <<Completed(s1), <<s2, "failed">>>>, <<>>, {"commit"}, 1),
    \* a viewer
    Env({v1}, Consumers, {w1}, {c1}, Single, {}, <<Completed(s1)>>, <<>>, {"apiCrash", "leave", "snapshot"}, 1)
}

=============================================================================
