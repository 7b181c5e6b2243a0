----------------------------- MODULE MCSandbox -----------------------------
(* Small instances of Sandbox: one session, or up to three in a row on one slot id. *)
EXTENDS Sandbox

Env(image, f, n) ==
    [runs |-> Cardinality(DOMAIN image), image |-> image, faults |-> f, maxFaults |-> n]

\* One session whose calls fail, time out or meet a restart of either side.
Once == Env(<<"a">>, AllFaults, 2)
\* The session is requested again, under errors and calls left running.
Again == Env(<<"a", "a">>, {"api", "timeout"}, 2)
\* The session is requested again; every API call is answered.
Measured == Env(<<"a", "a">>, {"timeout"}, 1)
\* The second request names another image.
Rebuilt == Env(<<"a", "b">>, {"api"}, 1)

\* The third request names the first image again.
Restored == Env(<<"a", "b", "a">>, {"api"}, 2)

MCEnvironments == {Once, Again, Measured, Rebuilt, Restored}
=============================================================================
