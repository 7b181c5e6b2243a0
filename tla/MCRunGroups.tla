---------------------------- MODULE MCRunGroups ----------------------------
(* Small instances of RunGroups: up to two clicks on one submission. *)
EXTENDS RunGroups

CONSTANTS g1, g2

Env(c, n, f, max) == [clicks |-> c, n |-> n, faults |-> f, maxFaults |-> max]

\* Three scenarios are the fewest that can be claimed out of order.
ThreeScenarios == Env({g1}, 3, {"ctlCrash"}, 2)
ControllerRestart == Env({g1, g2}, 2, {"ctlCrash"}, 1)
ApiErrors == Env({g1, g2}, 2, {"db", "commit", "publishFirst", "publishNext"}, 1)
ApiRestarts == Env({g1, g2}, 2, {"publishFirst", "apiCrash"}, 1)
\* A publish reported failed that was not, or a lost commit, then a restart: the run is
\* driven twice.
TwoFaults == Env({g1}, 2, {"publishNext", "commit", "apiCrash"}, 2)

MCGroups == {ThreeScenarios, ControllerRestart, ApiErrors, ApiRestarts, TwoFaults}
=============================================================================
