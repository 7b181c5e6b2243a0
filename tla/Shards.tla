------------------------------- MODULE Shards -------------------------------
(***************************************************************************)
(* How the shards of a session reach the bot fleet and start together.     *)
(*                                                                         *)
(* services/bot-fleet worker.rs (run, InFlight, complete_workload,         *)
(* run_workload) and kafka.rs (wait_for_barrier), one consumer group over  *)
(* workload.assignments; services/bot-fleet-controller runner.go from the  *)
(* capacity gate (capacity.go) to the barrier, with StartBotReady,         *)
(* DispatchReady and awaitReady.  A session holds its leased partitions    *)
(* from before the gate until it ends (SessionRunner, LeaseAllocator).     *)
(***************************************************************************)
EXTENDS Integers, Sequences, FiniteSets, FiniteSetsExt, Functions

CONSTANTS
    Pods, Partitions, Sessions,
    Cap,            \* MAX_CONCURRENT_WORKLOADS
    Environments    \* what a behaviour may meet, one of these records:
                    \*   leases: session -> its leased partitions, shard by shard
                    \*   pods: the pods that are up at first
                    \*   gate: whether sessions wait for the fleet (CapacityWaitTimeout > 0)
                    \*   faults: which of AllFaults may happen
                    \*   maxFaults: bound on how many do

AllFaults == {"crash", "rebalance", "scale", "panic", "prepare", "commit", "barrier", "late",
              "probe"}

ASSUME FleetKnown ==
    /\ Cap \in Nat \ {0} /\ IsFiniteSet(Pods)
    /\ \A e \in Environments :
          /\ DOMAIN e.leases \subseteq Sessions
          /\ \A s \in DOMAIN e.leases :
                e.leases[s] \in Seq(Partitions) /\ e.leases[s] # <<>> /\ IsInjective(e.leases[s])
          /\ e.pods \subseteq Pods /\ e.pods # {}
          /\ e.gate \in BOOLEAN /\ e.faults \subseteq AllFaults /\ e.maxFaults \in Nat

VARIABLES
    env,
    sess,           \* the controller's session: idle / gate / publish / await / run / done / failed
    ready,          \* bot.ready: signals not yet read, <<session, worker_index, pod>>
    chan, got,      \* readyCh and ReadyReceived
    barriers,       \* the barrier topic
    specs,          \* workload.assignments: partition -> sequence of <<session, worker_index>>
    pos, com,       \* read position and committed offset of the group, per partition
    owner,          \* the group's assignment
    fly,            \* InFlight with its tasks: pod -> partition -> workload
    group,          \* committed offset of the barrier groups
    up,
    faults,
    readied,        \* history: shards that published a ready signal
    fired,          \* history: shards that received their barrier
    handled,        \* history: specs run to their end or skipped as stale
    letGo,          \* history: specs left uncommitted: not admitted, or their task panicked
    again           \* history: shards admitted after they had already reported ready

ctlVars == <<sess, chan, got>>
kafkaVars == <<specs, pos, com, owner>>
history == <<readied, fired, handled, letGo, again>>
vars == <<env, ctlVars, ready, barriers, kafkaVars, fly, group, up, faults, history>>

Active == DOMAIN env.leases
Shards(s) == DOMAIN env.leases[s]
Slots == 0..(Cap - 1)
Busy(w) == DOMAIN fly[w]

TypeOK ==
    /\ env \in Environments
    /\ sess \in [Active -> {"idle", "gate", "publish", "await", "run", "done", "failed"}]
    /\ \A s \in Active : got[s] \subseteq Shards(s) /\ Len(chan[s]) <= 2 * Len(env.leases[s]) + 1
    /\ \A p \in Partitions : com[p] \in 0..Len(specs[p]) /\ pos[p] \in 0..Len(specs[p])
    /\ owner \in [Partitions -> Pods]
    /\ \A w \in Pods :
          /\ Busy(w) \subseteq Partitions /\ Cardinality(Busy(w)) <= Cap
          /\ \A p \in Busy(w) : fly[w][p].pc \in {"prepare", "wait", "fire", "over", "panicked"}
    /\ group \in [Pods -> [Slots -> 0..Len(barriers)]]
    /\ faults \in 0..env.maxFaults

\* What partition.assignment.strategy roundrobin can yield: member ids are random, the
\* shares differ by at most one.
Assignments(members) ==
    {a \in [Partitions -> members] : \A v, w \in members :
        Cardinality({p \in Partitions : a[p] = v}) <= Cardinality({p \in Partitions : a[p] = w}) + 1}

Init ==
    /\ env \in Environments
    /\ sess = [s \in Active |-> "idle"]
    /\ ready = {} /\ chan = [s \in Active |-> <<>>] /\ got = [s \in Active |-> {}]
    /\ barriers = <<>>
    /\ specs = [p \in Partitions |-> <<>>]
    /\ pos = [p \in Partitions |-> 0] /\ com = [p \in Partitions |-> 0]
    /\ up = [w \in Pods |-> w \in env.pods]
    /\ owner \in Assignments(env.pods)
    /\ fly = [w \in Pods |-> <<>>]
    /\ group = [w \in Pods |-> [k \in Slots |-> 0]]
    /\ faults = 0
    /\ readied = {} /\ fired = {} /\ handled = {} /\ letGo = {} /\ again = {}

Fault(kind) == kind \in env.faults /\ faults < env.maxFaults /\ faults' = faults + 1
NoFault == faults' = faults

-----------------------------------------------------------------------------
(* The controller *)

Ended(s) == sess[s] \in {"done", "failed"}

\* The session gets its partitions once no other session holds one of them.
Lease(s) ==
    /\ sess[s] = "idle"
    /\ \A t \in Active \ {s} : sess[t] \in {"gate", "publish", "await", "run"} =>
          Range(env.leases[s]) \cap Range(env.leases[t]) = {}
    /\ sess' = [sess EXCEPT ![s] = "gate"]
    /\ UNCHANGED <<env, ready, chan, got, barriers, kafkaVars, fly, group, up, faults, history>>

\* GroupCapacityProbe: the members of the consumer group.
Members == Cardinality({w \in Pods : up[w]})

\* A single shard is not gated.
Gated(s) == env.gate /\ Len(env.leases[s]) > 1

\* awaitCapacity: the session goes on with one member per shard; it fails when there are
\* too few until the wait is over, or the probe fails so long.
AwaitCapacity(s) ==
    /\ sess[s] = "gate"
    /\ \/ /\ NoFault /\ (Gated(s) => Members >= Len(env.leases[s]))
          /\ sess' = [sess EXCEPT ![s] = "publish"]
       \/ /\ Gated(s)
          /\ (NoFault /\ Members < Len(env.leases[s])) \/ Fault("probe")
          /\ sess' = [sess EXCEPT ![s] = "failed"]
    /\ UNCHANGED <<env, ready, chan, got, barriers, kafkaVars, fly, group, up, history>>

\* PublishWorkloadSpec: spec i goes to leases[i].
Publish(s) ==
    /\ sess[s] = "publish"
    /\ sess' = [sess EXCEPT ![s] = "await"]
    /\ specs' = [p \in Partitions |->
                   IF p \in Range(env.leases[s])
                   THEN Append(specs[p], <<s, CHOOSE i \in Shards(s) : env.leases[s][i] = p>>)
                   ELSE specs[p]]
    /\ UNCHANGED <<env, ready, chan, got, barriers, pos, com, owner, fly, group, up, faults, history>>

\* StartBotReady and DispatchReady: an unknown session or a full channel drops the
\* signal, and the message is committed all the same.
DispatchReady(m) ==
    /\ m \in ready
    /\ ready' = ready \ {m}
    /\ chan' = IF sess[m[1]] \in {"await", "run"} /\ Len(chan[m[1]]) < 2 * Len(env.leases[m[1]]) + 1
               THEN [chan EXCEPT ![m[1]] = Append(@, m[2])] ELSE chan
    /\ UNCHANGED <<env, sess, got, barriers, kafkaVars, fly, group, up, faults, history>>

AwaitReady(s) ==
    /\ sess[s] = "await" /\ chan[s] # <<>>
    /\ got' = [got EXCEPT ![s] = @ \cup {Head(chan[s])}]
    /\ chan' = [chan EXCEPT ![s] = Tail(@)]
    /\ UNCHANGED <<env, sess, ready, barriers, kafkaVars, fly, group, up, faults, history>>

\* Mutant: signals are counted, whichever shard they come from.
FannedIn_CountsSignals(s) == Cardinality(got[s]) + Len(chan[s]) >= Len(env.leases[s])

FannedIn(s) == Cardinality(got[s]) >= Len(env.leases[s])

\* PublishBarrier; an error fails the session, and may have reached the broker.
PublishBarrier(s) ==
    /\ sess[s] = "await" /\ FannedIn(s)
    /\ \/ /\ NoFault
          /\ barriers' = Append(barriers, s)
          /\ sess' = [sess EXCEPT ![s] = "run"]
       \/ /\ Fault("barrier")
          /\ barriers' \in {barriers, Append(barriers, s)}
          /\ sess' = [sess EXCEPT ![s] = "failed"]
    /\ UNCHANGED <<env, ready, chan, got, kafkaVars, fly, group, up, history>>

\* Shard i of s may still report: its spec is to be read, is being prepared, or its
\* signal is on the way.
StillComing(s, i) ==
    LET p == env.leases[s][i] IN
    \/ \E n \in (pos[p] + 1)..Len(specs[p]) : specs[p][n] = <<s, i>>
    \/ \E w \in Pods : p \in Busy(w) /\ fly[w][p].spec = <<s, i>> /\ fly[w][p].pc = "prepare"
    \/ \E m \in ready : m[1] = s /\ m[2] = i
    \/ i \in Range(chan[s])

\* ReadyDeadline: 30 s.  A shard that will report is in time unless the fleet is "late".
ReadyDeadline(s) ==
    /\ sess[s] = "await" /\ ~FannedIn(s)
    /\ \/ NoFault /\ \E i \in Shards(s) \ got[s] : ~StillComing(s, i)
       \/ Fault("late")
    /\ sess' = [sess EXCEPT ![s] = "failed"]
    /\ UNCHANGED <<env, ready, chan, got, barriers, kafkaVars, fly, group, up, history>>

RunEnds(s) ==
    /\ sess[s] = "run"
    /\ sess' = [sess EXCEPT ![s] = "done"]
    /\ UNCHANGED <<env, ready, chan, got, barriers, kafkaVars, fly, group, up, faults, history>>

-----------------------------------------------------------------------------
(* A worker: the consume loop *)

NextSpec(p) == specs[p][pos[p] + 1]

\* recv_message on an owned partition, polled only below the cap.
Receives(w, p) ==
    /\ up[w] /\ owner[p] = w /\ Cardinality(Busy(w)) < Cap
    /\ pos[p] < Len(specs[p])
    /\ pos' = [pos EXCEPT ![p] = @ + 1]

\* is_spec_stale: 300 s old.  Only a session that is over can be that old, and what ran
\* on the partition before it has gone by then (BARRIER_WAIT is 120 s, the drain 5 s).
SkipStale(w, p) ==
    /\ Receives(w, p) /\ Ended(NextSpec(p)[1]) /\ p \notin Busy(w)
    /\ com' = [com EXCEPT ![p] = pos[p] + 1]
    /\ handled' = handled \cup {<<p, pos[p] + 1>>}
    /\ UNCHANGED <<env, ctlVars, ready, barriers, specs, owner, fly, group, up, faults, readied,
                   fired, letGo, again>>

\* The lowest slot no running workload has.
FreeSlot(w) == Min(Slots \ {fly[w][q].slot : q \in Busy(w)})

\* InFlight::try_admit: what w runs with the next spec of p added.
Admitted(w, p) ==
    [q \in Busy(w) \cup {p} |->
        IF q = p THEN [slot |-> FreeSlot(w), spec |-> NextSpec(p), off |-> pos[p] + 1, pc |-> "prepare"]
        ELSE fly[w][q]]

\* Mutant: the offset is committed when the workload is admitted.
Admit_Commits(w, p) ==
    /\ Receives(w, p) /\ p \notin Busy(w)
    /\ fly' = [fly EXCEPT ![w] = Admitted(w, p)]
    /\ com' = [com EXCEPT ![p] = pos[p] + 1]
    /\ UNCHANGED <<env, ctlVars, ready, barriers, specs, owner, group, up, faults, history>>

Admit(w, p) ==
    /\ Receives(w, p) /\ p \notin Busy(w)
    /\ fly' = [fly EXCEPT ![w] = Admitted(w, p)]
    /\ again' = again \cup ({NextSpec(p)} \cap readied)
    /\ UNCHANGED <<env, ctlVars, ready, barriers, specs, com, owner, group, up, faults, readied,
                   fired, handled, letGo>>

\* PartitionBusy: left uncommitted.
Reject(w, p) ==
    /\ Receives(w, p) /\ p \in Busy(w)
    /\ letGo' = letGo \cup {<<p, pos[p] + 1>>}
    /\ UNCHANGED <<env, ctlVars, ready, barriers, specs, com, owner, fly, group, up, faults,
                   readied, fired, handled, again>>

Goto(w, p, pc) == fly' = [fly EXCEPT ![w][p].pc = pc]
At(w, p, pc) == p \in Busy(w) /\ fly[w][p].pc = pc

\* Mutant: a panicked task's partition is never released.
Complete_PanicKeeps(w, p) ==
    /\ At(w, p, "over")
    /\ fly' = [fly EXCEPT ![w] = Restrict(@, Busy(w) \ {p})]
    /\ handled' = handled \cup {<<p, fly[w][p].off>>}
    /\ com' = IF owner[p] = w THEN [com EXCEPT ![p] = fly[w][p].off] ELSE com
    /\ NoFault
    /\ UNCHANGED <<env, ctlVars, ready, barriers, specs, pos, owner, group, up, readied, fired,
                   letGo, again>>

\* complete_workload: commit the workload's own offset (refused after the partition has
\* moved to another member), then release the partition; a panicked task only releases.
Complete(w, p) ==
    /\ At(w, p, "over") \/ At(w, p, "panicked")
    /\ fly' = [fly EXCEPT ![w] = Restrict(@, Busy(w) \ {p})]
    /\ IF fly[w][p].pc = "panicked"
       THEN NoFault /\ letGo' = letGo \cup {<<p, fly[w][p].off>>} /\ UNCHANGED <<com, handled>>
       ELSE /\ handled' = handled \cup {<<p, fly[w][p].off>>} /\ UNCHANGED letGo
            /\ \/ NoFault /\ com' = IF owner[p] = w THEN [com EXCEPT ![p] = fly[w][p].off] ELSE com
               \/ Fault("commit") /\ UNCHANGED com
    /\ UNCHANGED <<env, ctlVars, ready, barriers, specs, pos, owner, group, up, readied, fired, again>>

-----------------------------------------------------------------------------
(* A worker: run_workload *)

\* validate_spec, connect_tasks and the ready signal; any error ends the workload.
\* Connections that fail are dropped, not reported.
Prepare(w, p) ==
    /\ At(w, p, "prepare")
    /\ LET shard == fly[w][p].spec IN
       \/ /\ NoFault
          /\ ready' = ready \cup {<<shard[1], shard[2], w>>}
          /\ readied' = readied \cup {shard}
          /\ Goto(w, p, "wait")
       \/ /\ Fault("prepare")
          /\ Goto(w, p, "over")
          /\ UNCHANGED <<ready, readied>>
    /\ UNCHANGED <<env, ctlVars, barriers, kafkaVars, group, up, fired, handled, letGo, again>>

\* barrier_group: one per concurrency slot of the pod.
BarrierGroup(w, p) == fly[w][p].slot

\* Offsets of the barriers this workload's group has not read that name its session.
MyBarriers(w, p) ==
    {n \in DOMAIN barriers : n > group[w][BarrierGroup(w, p)] /\ barriers[n] = fly[w][p].spec[1]}

\* wait_for_barrier: everything read on the way is committed to the group.
WaitForBarrier(w, p) ==
    /\ At(w, p, "wait") /\ MyBarriers(w, p) # {}
    /\ group' = [group EXCEPT ![w][BarrierGroup(w, p)] = Min(MyBarriers(w, p))]
    /\ fired' = fired \cup {fly[w][p].spec}
    /\ Goto(w, p, "fire")
    /\ UNCHANGED <<env, ctlVars, ready, barriers, kafkaVars, up, faults, readied, handled, letGo, again>>

\* BARRIER_WAIT (120 s) is longer than the controller's ReadyDeadline: it runs out on a
\* session that has been decided.
BarrierTimeout(w, p) ==
    /\ At(w, p, "wait") /\ MyBarriers(w, p) = {}
    /\ sess[fly[w][p].spec[1]] # "await"
    /\ group' = [group EXCEPT ![w][BarrierGroup(w, p)] = Len(barriers)]
    /\ Goto(w, p, "over")
    /\ UNCHANGED <<env, ctlVars, ready, barriers, kafkaVars, up, faults, history>>

\* fire_workload and the telemetry's close.
FireEnds(w, p) ==
    /\ At(w, p, "fire")
    /\ Goto(w, p, "over")
    /\ UNCHANGED <<env, ctlVars, ready, barriers, kafkaVars, group, up, faults, history>>

Panic(w, p) ==
    /\ At(w, p, "prepare") \/ At(w, p, "wait") \/ At(w, p, "fire")
    /\ Fault("panic")
    /\ Goto(w, p, "panicked")
    /\ UNCHANGED <<env, ctlVars, ready, barriers, kafkaVars, group, up, history>>

-----------------------------------------------------------------------------
(* The consumer group *)

\* Every partition is revoked and assigned anew; reading resumes at the committed
\* offset, also behind a workload that is still running.
Reassign ==
    /\ owner' \in Assignments({w \in Pods : up'[w]})
    /\ pos' = com

\* DemandedWorkers, and the consumer lag of workload.assignments: what KEDA scales on.
Demanded == UNION {{s} \X Shards(s) : s \in {t \in Active : ~Ended(t)}}
Lag == UNION {{p} \X ((com[p] + 1)..Len(specs[p])) : p \in Partitions}

\* A pod joins (by itself, or KEDA scales up), or a member is late with a poll.
Rebalance ==
    /\ \/ Fault("rebalance") /\ UNCHANGED up
       \/ /\ \/ Fault("rebalance")
             \/ Fault("scale") /\ (Members < Cardinality(Demanded) \/ Members < Cardinality(Lag))
          /\ \E w \in Pods : ~up[w] /\ up' = [up EXCEPT ![w] = TRUE]
    /\ Reassign
    /\ UNCHANGED <<env, ctlVars, ready, barriers, specs, com, fly, group, history>>

\* A pod dies with what it was running; the others take over its partitions.
Crash(w) ==
    /\ up[w] /\ (\E v \in Pods \ {w} : up[v])
    /\ Fault("crash")
    /\ up' = [up EXCEPT ![w] = FALSE] /\ Reassign
    /\ fly' = [fly EXCEPT ![w] = <<>>]
    /\ UNCHANGED <<env, ctlVars, ready, barriers, specs, com, group, history>>

Controller(s) ==
    \/ Lease(s) \/ AwaitCapacity(s) \/ Publish(s) \/ AwaitReady(s)
    \/ PublishBarrier(s) \/ ReadyDeadline(s) \/ RunEnds(s)

\* The select! arm of the consume loop, and the spawned task.
Consume(w, p) == SkipStale(w, p) \/ Admit(w, p) \/ Reject(w, p) \/ Complete(w, p)
Workload(w, p) ==
    Prepare(w, p) \/ WaitForBarrier(w, p) \/ BarrierTimeout(w, p) \/ FireEnds(w, p) \/ Panic(w, p)

\* The loop's select! waits: nothing to receive, or no room for it.
Poll(w) ==
    /\ up[w]
    /\ \/ Cardinality(Busy(w)) = Cap
       \/ \A p \in Partitions : owner[p] = w => pos[p] = Len(specs[p])
    /\ UNCHANGED vars

Next ==
    \/ \E s \in Active : Controller(s)
    \/ \E m \in ready : DispatchReady(m)
    \/ \E w \in Pods, p \in Partitions : Consume(w, p) \/ Workload(w, p)
    \/ Rebalance
    \/ \E w \in Pods : Crash(w) \/ Poll(w)

\* Consumers poll, timers expire and tasks are scheduled.
Fairness ==
    /\ \A s \in Sessions : WF_vars(s \in Active /\ Controller(s))
    /\ WF_vars(\E m \in ready : DispatchReady(m))
    /\ \A w \in Pods, p \in Partitions :
          /\ WF_vars(SkipStale(w, p) \/ Admit(w, p) \/ Reject(w, p))
          /\ WF_vars(Complete(w, p)) /\ WF_vars(Workload(w, p))

Spec == Init /\ [][Next]_vars
FairSpec == Spec /\ Fairness

-----------------------------------------------------------------------------
(* Properties *)

\* No session starts short: a barrier goes out only when every one of the leased shards
\* has reported ready, however often one of them reports (awaitReady's map by index),
\* and a shard fires only on its own session's barrier.  Nor does it start with a shard
\* doubled: while nothing but the fleet's growth disturbs it, a session that has the fleet
\* to itself and waits for it (awaitCapacity) has no shard run twice.
StartTogether ==
    /\ \A n \in DOMAIN barriers : \A i \in Shards(barriers[n]) : <<barriers[n], i>> \in readied
    /\ \A shard \in fired : shard[1] \in Range(barriers)
    /\ env.gate /\ env.faults \subseteq {"scale"} /\ (\A s, t \in Active : s = t) => again = {}

\* The committed offset never covers a spec that is still to be run: what lies below it
\* was run to its end, was stale, or was let go (complete_workload commits last).
CommitCoversHandled ==
    \A p \in Partitions : \A n \in 1..com[p] : <<p, n>> \in handled \cup letGo

\* No faults, and no two sessions on one partition.
Undisturbed ==
    /\ env.faults = {}
    /\ \A s, t \in Active : s # t => Range(env.leases[s]) \cap Range(env.leases[t]) = {}

\* Every session is decided, whatever its workers do, and no workload keeps its
\* partition for ever: it ends, times out on the barrier, or panics, and each of them
\* releases the partition (complete_workload).  In an undisturbed fleet every session
\* runs and each of its shards receives the barrier, also when one pod runs several of
\* them at once (barrier_group by slot).
Settles ==
    /\ <>[]((\A s \in Active : Ended(s)) /\ (\A w \in Pods : Busy(w) = {}))
    /\ Undisturbed =>
        <>(\A s \in Active : sess[s] = "done" /\ \A i \in Shards(s) : <<s, i>> \in fired)
=============================================================================
