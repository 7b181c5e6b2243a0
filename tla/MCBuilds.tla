------------------------------ MODULE MCBuilds ------------------------------
(* Small instances of Builds: one or two uploads, one or two build workers. *)
EXTENDS Builds, TLC

CONSTANTS r1, r2, w1, w2, alice, bob

Env(artifact, contestant, refused, worker, ecr, f, max) ==
    [artifact |-> artifact, contestant |-> contestant, refused |-> refused,
     spawners |-> worker, ecr |-> ecr, faults |-> f, maxFaults |-> max]

One == r1 :> "a"
Alice == r1 :> alice
Calm == {"crash", "rebalance", "commit", "publish"}

MCEnvironments == {
    \* one artifact, uploaded twice at once by one contestant and by two
    Env(r1 :> "a" @@ r2 :> "a", r1 :> alice @@ r2 :> alice, {}, {w1}, FALSE, {"db", "minio"}, 1),
    Env(r1 :> "a" @@ r2 :> "a", r1 :> alice @@ r2 :> bob, {}, {w1}, FALSE, {"publish", "apiCrash"}, 1),
    \* two artifacts, one of them refused
    Env(r1 :> "a" @@ r2 :> "b", r1 :> alice @@ r2 :> bob, {"b"}, {w1}, FALSE, {"crash"}, 1),
    \* one build that is repeated, with two registries and with one
    Env(One, Alice, {}, {w1, w2}, FALSE, Calm, 3),
    Env(One, Alice, {}, {w1, w2}, TRUE, Calm, 2),
    \* whatever may fail
    Env(One, Alice, {}, {w1, w2}, FALSE, {"crash", "rebalance", "job", "k8s", "registry", "minio"}, 2),
    Env(One, Alice, {}, {w1}, FALSE, {"shutdown", "ttl", "crash", "commit"}, 3),
    Env(One, Alice, {}, {w1}, FALSE, {"db", "shutdown", "job"}, 2)
}
=============================================================================
