---------------------------- MODULE SessionRunner ----------------------------
(***************************************************************************)
(* services/bot-fleet-controller: the benchmark.requested loop of          *)
(* consumer.go, the session goroutines of runner.go, the session table of  *)
(* session.go, the startup sweep of recovery.go and the shutdown sequence  *)
(* of main.go, composed with the partition allocator of lease.go           *)
(* (LeaseAllocator).  Kafka, Postgres and the sandbox orchestrator appear  *)
(* as the controller uses them.                                            *)
(*                                                                         *)
(* The band allocator is a second lease.go allocator that is always asked  *)
(* for one index.  ResourcesOwned shows that its Acquire never parks, so   *)
(* its state is bandOf and its slow path is left out.  Of a run's status   *)
(* only open / completed / failed is kept: the precheck, the recovery      *)
(* sweep and UpdateRunStatus tell no others apart.  The ready fan-in is a  *)
(* stage that succeeds or fails here.                                      *)
(***************************************************************************)
EXTENDS Integers, Sequences, FiniteSets, Functions

CONSTANTS
    Sessions,       \* session ids
    Partitions,     \* partitions of workload.assignments
    Bands,          \* order bands, one per unit of MAX_CONCURRENT_SESSIONS (main.go)
    Jobs,           \* ids for dispatch goroutines
    NoSession, NoBand,
    Environments    \* what a behaviour may meet, one of these records:
                    \*   workers: computeWorkerCountForLoad of every session requested
                    \*   faults: which of AllFaults may happen
                    \*   requests: bound on the messages of benchmark.requested
                    \*   disruptions: bound on Crash, Shutdown and Rebalance together

AllFaults == {"crash", "shutdown", "commit", "rebalance", "duplicate",
              "publish", "orchestrator", "db", "panic"}

ASSUME EnvironmentsKnown ==
    \A e \in Environments :
        /\ e.workers \in [DOMAIN e.workers -> Nat] /\ DOMAIN e.workers \subseteq Sessions
        /\ e.faults \subseteq AllFaults
        /\ e.requests \in Nat /\ e.disruptions \in Nat
ASSUME NullsApart == NoSession \notin Sessions /\ NoBand \notin Bands
\* There is no bound on goroutines; the semaphore keeps them as few as the bands.
ASSUME JobsEnough ==
    IsFiniteSet(Bands) /\ IsFiniteSet(Jobs) /\ Cardinality(Bands) <= Cardinality(Jobs)

VARIABLES
    env,                                    \* the environment of this behaviour
    requests, position, committed,          \* one partition of benchmark.requested
    runStatus, statusTopic,                 \* runs.status; benchmark.status.updated by key
    slot,                                   \* the band of the session's sandbox slot
    proc, loop, sem, job, tracked, bandOf,  \* the controller process
    free, leasedBy, queue, grant, call,     \* its partition allocator
    toRecover,                              \* what is left of the startup sweep
    specs, disruptions                      \* publications of specs; disruptions so far

leaseVars == <<free, leasedBy, queue, grant, call>>
kafkaVars == <<requests, position, committed>>
volatile == <<loop, sem, job, tracked, bandOf, leaseVars>>
vars == <<env, kafkaVars, runStatus, statusTopic, slot, proc, volatile, toRecover, specs, disruptions>>

Leases == INSTANCE LeaseAllocator WITH Counts <- UNION {Range(e.workers) : e \in Environments}

MaxConcurrent == Cardinality(Bands)

\* The stages of Run, in order; the last five are its deferred calls.
Driving == {"publish", "fanin", "barrier", "firing"}
HoldsSlot == {"deploy"} \cup Driving \cup {"deleteSlot"}
HoldsBand == {"create"} \cup HoldsSlot \cup {"releaseBand"}
HoldsParts == {"band"} \cup HoldsBand \cup {"releaseParts"}
IsTracked == {"lease", "parked"} \cup HoldsParts \cup {"drop"}
Stages == {"idle", "precheck", "add", "exit"} \cup IsTracked

Idle == [pc |-> "idle", session |-> NoSession, panicked |-> FALSE]
Alive == proc \in {"up", "stopping"}

TypeOK ==
    /\ env \in Environments
    /\ requests \in Seq(Sessions)
    /\ committed \in 0..Len(requests) /\ position \in committed..Len(requests)
    /\ runStatus \in [Sessions -> {"none", "open", "completed", "failed"}]
    /\ statusTopic \in [Sessions -> Seq({"completed", "failed"})]
    /\ slot \in [Sessions -> Bands \cup {NoBand}]
    /\ proc \in {"up", "stopping", "down", "recovering"}
    /\ loop \in [pc : {"fetch", "acquire", "commit", "start", "stopped"},
                 session : Sessions \cup {NoSession}]
    /\ sem \in 0..MaxConcurrent
    /\ job \in [Jobs -> [pc : Stages, session : Sessions \cup {NoSession}, panicked : BOOLEAN]]
    /\ tracked \subseteq Sessions
    /\ bandOf \in [Sessions -> Bands \cup {NoBand}]
    /\ toRecover \subseteq Sessions
    /\ specs \in [Sessions -> Nat]
    /\ disruptions \in 0..env.disruptions

FreshProcess ==
    /\ loop = [pc |-> "fetch", session |-> NoSession]
    /\ sem = 0
    /\ job = [j \in Jobs |-> Idle]
    /\ tracked = {}
    /\ bandOf = [s \in Sessions |-> NoBand]
    /\ Leases!Init

Init ==
    /\ env \in Environments
    /\ requests = <<>> /\ position = 0 /\ committed = 0
    /\ runStatus = [s \in Sessions |-> "none"]
    /\ statusTopic = [s \in Sessions |-> <<>>]
    /\ slot = [s \in Sessions |-> NoBand]
    /\ proc = "up"
    /\ FreshProcess
    /\ toRecover = {}
    /\ specs = [s \in Sessions |-> 0]
    /\ disruptions = 0

-----------------------------------------------------------------------------
(* The surroundings: submission-api and the broker. *)

\* A run row exists and its benchmark.requested is written; a publish that was
\* reported failed although it was written makes submission-api write it again.
Request(s) ==
    /\ s \in DOMAIN env.workers /\ Len(requests) < env.requests
    /\ runStatus[s] = "none" \/ "duplicate" \in env.faults
    /\ requests' = Append(requests, s)
    /\ runStatus' = [runStatus EXCEPT ![s] = IF @ = "none" THEN "open" ELSE @]
    /\ UNCHANGED <<env, position, committed, statusTopic, slot, proc, volatile, toRecover,
                   specs, disruptions>>

\* submission-api's status consumer: UpdateRunStatus never leaves a terminal status.
ApplyStatus(s) ==
    /\ statusTopic[s] # <<>>
    /\ runStatus' = [runStatus EXCEPT ![s] = IF @ = "open" THEN Head(statusTopic[s]) ELSE @]
    /\ statusTopic' = [statusTopic EXCEPT ![s] = Tail(@)]
    /\ UNCHANGED <<env, kafkaVars, slot, proc, volatile, toRecover, specs, disruptions>>

\* The group generation ends and the reader resumes from the committed offset.
Rebalance ==
    /\ "rebalance" \in env.faults /\ disruptions < env.disruptions
    /\ Alive /\ loop.pc = "fetch" /\ position # committed
    /\ position' = committed
    /\ disruptions' = disruptions + 1
    /\ UNCHANGED <<env, requests, committed, runStatus, statusTopic, slot, proc, volatile,
                   toRecover, specs>>

-----------------------------------------------------------------------------
(* StartBenchmarkRequested *)

\* FetchMessage; publishQueued's "queued" is dropped by the status consumer.
Fetch ==
    /\ Alive /\ loop.pc = "fetch"
    /\ position < Len(requests)
    /\ loop' = [pc |-> "acquire", session |-> requests[position + 1]]
    /\ position' = position + 1
    /\ UNCHANGED <<env, requests, committed, runStatus, statusTopic, slot, proc, sem, job, tracked,
                   bandOf, leaseVars, toRecover, specs, disruptions>>

\* The dispatch semaphore is taken before the commit.
AcquireDispatchSlot ==
    /\ Alive /\ loop.pc = "acquire"
    /\ sem < MaxConcurrent
    /\ sem' = sem + 1
    /\ loop' = [loop EXCEPT !.pc = "commit"]
    /\ UNCHANGED <<env, kafkaVars, runStatus, statusTopic, slot, proc, job, tracked, bandOf,
                   leaseVars, toRecover, specs, disruptions>>

\* CommitMessages; an error is only logged.
Commit ==
    /\ Alive /\ loop.pc = "commit"
    /\ \/ proc = "up" /\ committed' = position
       \/ (proc = "stopping" \/ "commit" \in env.faults) /\ committed' = committed
    /\ loop' = [loop EXCEPT !.pc = "start"]
    /\ UNCHANGED <<env, requests, position, runStatus, statusTopic, slot, proc, sem, job, tracked,
                   bandOf, leaseVars, toRecover, specs, disruptions>>

\* startSession: the goroutine inherits the loop's dispatch slot.
StartSession ==
    /\ Alive /\ loop.pc = "start"
    /\ LET j == CHOOSE i \in Jobs : job[i] = Idle
       IN job' = [job EXCEPT ![j] = [Idle EXCEPT !.pc = "precheck", !.session = loop.session]]
    /\ loop' = [pc |-> "fetch", session |-> NoSession]
    /\ UNCHANGED <<env, kafkaVars, runStatus, statusTopic, slot, proc, sem, tracked, bandOf,
                   leaseVars, toRecover, specs, disruptions>>

\* ctx.Done in FetchMessage or in acquireDispatchSlot.
LoopStops ==
    /\ proc = "stopping" /\ loop.pc \in {"fetch", "acquire"}
    /\ loop' = [loop EXCEPT !.pc = "stopped"]
    /\ UNCHANGED <<env, kafkaVars, runStatus, statusTopic, slot, proc, sem, job, tracked, bandOf,
                   leaseVars, toRecover, specs, disruptions>>

-----------------------------------------------------------------------------
(* Run and runSession: one action per call that can block or fail. *)

Goto(j, pc) == job' = [job EXCEPT ![j].pc = pc]

\* PublishStatus of a terminal status; an error is only logged.
PublishStatus(s, status, errors) ==
    \/ statusTopic' = [statusTopic EXCEPT ![s] = Append(@, status)]
    \/ errors /\ statusTopic' = statusTopic

\* fail and publishFailure publish on a detached context.
Fail(s) == PublishStatus(s, "failed", "publish" \in env.faults)

\* A store or orchestrator call under the session's context returns an error.
Errs(kind) == proc = "stopping" \/ kind \in env.faults

\* RunStatus, then LoadScenario.
Precheck(j) ==
    LET s == job[j].session
    IN /\ job[j].pc = "precheck"
       /\ \/ Errs("db") /\ Fail(s) /\ Goto(j, "exit")
          \/ /\ runStatus[s] \in {"completed", "failed"}
             /\ Goto(j, "exit") /\ statusTopic' = statusTopic
          \/ /\ runStatus[s] \notin {"completed", "failed"}
             /\ Goto(j, "add") /\ statusTopic' = statusTopic
       /\ UNCHANGED <<slot, sem, tracked, bandOf, leaseVars, specs>>

\* sessions.Add
Add(j) ==
    LET s == job[j].session
    IN /\ job[j].pc = "add"
       /\ tracked' = tracked \cup {s}
       /\ Goto(j, IF s \in tracked THEN "exit" ELSE "lease")
       /\ UNCHANGED <<statusTopic, slot, sem, bandOf, leaseVars, specs>>

\* leases.Acquire up to its select.
AcquirePartitions(j) ==
    LET s == job[j].session
        n == env.workers[s]
    IN /\ job[j].pc = "lease"
       /\ \/ /\ Leases!AcquireErrors(s, n)
             /\ Fail(s) /\ Goto(j, "drop")
             /\ UNCHANGED leaseVars
          \/ Leases!AcquireFast(s, n) /\ Goto(j, "band") /\ statusTopic' = statusTopic
          \/ Leases!AcquireEnqueue(s, n) /\ Goto(j, "parked") /\ statusTopic' = statusTopic
       /\ UNCHANGED <<slot, sem, tracked, bandOf, specs>>

\* ... its select: the grant, or leaseCtx ends by LEASE_ACQUIRE_TIMEOUT or shutdown.
LeaseWait(j) ==
    LET s == job[j].session
    IN /\ job[j].pc = "parked"
       /\ \/ Leases!ReceiveGrant(s) /\ Goto(j, "band") /\ statusTopic' = statusTopic
          \/ Leases!CancelQueued(s) /\ Fail(s) /\ Goto(j, "drop")
          \/ Leases!CancelGranted(s) /\ UNCHANGED <<job, statusTopic>>
          \/ Leases!UndoGrant(s) /\ Fail(s) /\ Goto(j, "drop")
       /\ UNCHANGED <<slot, sem, tracked, bandOf, specs>>

FreeBands == Bands \ {bandOf[s] : s \in Sessions}

\* bandLeases.Acquire(leaseCtx, id, 1), fast path.
AcquireBand(j) ==
    /\ job[j].pc = "band"
    /\ \E b \in FreeBands : bandOf' = [bandOf EXCEPT ![job[j].session] = b]
    /\ Goto(j, "create")
    /\ UNCHANGED <<statusTopic, slot, sem, tracked, leaseVars, specs>>

\* GetSubmission and orch.CreateSlot.  The orchestrator returns an existing slot as
\* it is; an error leaves it created or not, and nobody deletes it.
CreateSlot(j) ==
    LET s == job[j].session
        created == [slot EXCEPT ![s] = IF @ = NoBand THEN bandOf[s] ELSE @]
    IN /\ job[j].pc = "create"
       /\ \/ slot' = created /\ Goto(j, "deploy") /\ statusTopic' = statusTopic
          \/ Errs("orchestrator") /\ slot' \in {slot, created} /\ Fail(s) /\ Goto(j, "releaseBand")
          \/ Errs("db") /\ slot' = slot /\ Fail(s) /\ Goto(j, "releaseBand")
       /\ UNCHANGED <<sem, tracked, bandOf, leaseVars, specs>>

\* Mutant: a failing stage returns past the band's deferred release.
StageFails_KeepsBand(j) ==
    /\ job[j].pc \in {"deploy", "fanin", "barrier"} \/ (job[j].pc = "firing" /\ proc = "stopping")
    /\ Fail(job[j].session)
    /\ Goto(j, "releaseParts")
    /\ UNCHANGED <<slot, sem, tracked, bandOf, leaseVars, specs>>

\* WaitForReady, awaitCapacity, awaitReady or PublishBarrier fails, or the context
\* ends while the bots fire.
StageFails(j) ==
    /\ job[j].pc \in {"deploy", "fanin", "barrier"} \/ (job[j].pc = "firing" /\ proc = "stopping")
    /\ Fail(job[j].session)
    /\ Goto(j, "deleteSlot")
    /\ UNCHANGED <<slot, sem, tracked, bandOf, leaseVars, specs>>

\* ... or succeeds.
StageSucceeds(j) ==
    /\ job[j].pc \in {"deploy", "fanin", "barrier"}
    /\ Goto(j, CASE job[j].pc = "deploy" -> "publish"
                 [] job[j].pc = "fanin" -> "barrier"
                 [] job[j].pc = "barrier" -> "firing")
    /\ UNCHANGED <<statusTopic, slot, sem, tracked, bandOf, leaseVars, specs>>

\* PublishWorkloadSpec; a write reported failed may have reached the broker.
PublishSpecs(j) ==
    LET s == job[j].session
    IN /\ job[j].pc = "publish"
       /\ specs' = [specs EXCEPT ![s] = @ + 1]
       /\ \/ Goto(j, "fanin") /\ statusTopic' = statusTopic
          \/ Errs("publish") /\ Fail(s) /\ Goto(j, "deleteSlot")
       /\ UNCHANGED <<slot, sem, tracked, bandOf, leaseVars>>

\* The timer fires and "completed" is published on the session's own context.
Complete(j) ==
    /\ job[j].pc = "firing"
    /\ PublishStatus(job[j].session, "completed", Errs("publish"))
    /\ Goto(j, "deleteSlot")
    /\ UNCHANGED <<slot, sem, tracked, bandOf, leaseVars, specs>>

\* A panic inside runSession unwinds its defers.
Panic(j) ==
    /\ "panic" \in env.faults
    /\ job[j].pc \in {"create", "deploy"} \cup Driving
    /\ job' = [job EXCEPT ![j].panicked = TRUE,
                          ![j].pc = IF @ = "create" THEN "releaseBand" ELSE "deleteSlot"]
    /\ UNCHANGED <<statusTopic, slot, sem, tracked, bandOf, leaseVars, specs>>

\* releaseSlot: DeleteSlot on a detached context; an error is only logged.
DeleteSlot(j) ==
    /\ job[j].pc = "deleteSlot"
    /\ \/ slot' = [slot EXCEPT ![job[j].session] = NoBand]
       \/ "orchestrator" \in env.faults /\ slot' = slot
    /\ Goto(j, "releaseBand")
    /\ UNCHANGED <<statusTopic, sem, tracked, bandOf, leaseVars, specs>>

\* defer bandLeases.Release
ReleaseBand(j) ==
    /\ job[j].pc = "releaseBand"
    /\ bandOf' = [bandOf EXCEPT ![job[j].session] = NoBand]
    /\ Goto(j, "releaseParts")
    /\ UNCHANGED <<statusTopic, slot, sem, tracked, leaseVars, specs>>

\* defer leases.Release
ReleaseParts(j) ==
    /\ job[j].pc = "releaseParts"
    /\ Leases!Release(job[j].session)
    /\ Goto(j, "drop")
    /\ UNCHANGED <<statusTopic, slot, sem, tracked, bandOf, specs>>

\* defer sessions.Drop
Drop(j) ==
    /\ job[j].pc = "drop"
    /\ tracked' = tracked \ {job[j].session}
    /\ Goto(j, "exit")
    /\ UNCHANGED <<statusTopic, slot, sem, bandOf, leaseVars, specs>>

\* Run's panic backstop, then dispatch's deferred <-c.sem.
Exit(j) ==
    /\ job[j].pc = "exit"
    /\ IF job[j].panicked THEN Fail(job[j].session) ELSE statusTopic' = statusTopic
    /\ sem' = sem - 1
    /\ job' = [job EXCEPT ![j] = Idle]
    /\ UNCHANGED <<slot, tracked, bandOf, leaseVars, specs>>

\* One step of a session goroutine.
JobStep(j) ==
    /\ Alive
    /\ \/ Precheck(j) \/ Add(j) \/ AcquirePartitions(j) \/ LeaseWait(j) \/ AcquireBand(j)
       \/ CreateSlot(j) \/ StageFails(j) \/ StageSucceeds(j) \/ PublishSpecs(j) \/ Complete(j)
       \/ DeleteSlot(j) \/ ReleaseBand(j) \/ ReleaseParts(j) \/ Drop(j) \/ Exit(j)
    /\ UNCHANGED <<env, kafkaVars, runStatus, proc, loop, toRecover, disruptions>>

JobPanics(j) ==
    /\ Alive /\ Panic(j)
    /\ UNCHANGED <<env, kafkaVars, runStatus, proc, loop, toRecover, disruptions>>

-----------------------------------------------------------------------------
(* The process: SIGTERM, exit, crash, startup. *)

\* SIGTERM cancels the context every session inherits.
Shutdown ==
    /\ "shutdown" \in env.faults /\ disruptions < env.disruptions
    /\ proc = "up"
    /\ proc' = "stopping"
    /\ disruptions' = disruptions + 1
    /\ UNCHANGED <<env, kafkaVars, runStatus, statusTopic, slot, volatile, toRecover, specs>>

\* What dies with the process.
Dies ==
    /\ proc' = "down"
    /\ loop' = [pc |-> "fetch", session |-> NoSession]
    /\ sem' = 0
    /\ job' = [j \in Jobs |-> Idle]
    /\ tracked' = {}
    /\ bandOf' = [s \in Sessions |-> NoBand]
    /\ free' = Partitions
    /\ leasedBy' = [s \in Sessions |-> {}]
    /\ queue' = <<>>
    /\ grant' = [s \in Sessions |-> {}]
    /\ call' = [s \in Sessions |-> "idle"]
    /\ toRecover' = {}
    /\ UNCHANGED <<env, kafkaVars, runStatus, statusTopic, slot, specs>>

\* main returns: WaitSessions saw every goroutine end, or gave up after 15 s.
ProcessExits == proc = "stopping" /\ Dies /\ UNCHANGED disruptions

Crash ==
    /\ "crash" \in env.faults /\ disruptions < env.disruptions
    /\ proc \in {"up", "recovering"}
    /\ Dies
    /\ disruptions' = disruptions + 1

\* Mutant: the process starts without the sweep.
Restart_NoSweep ==
    /\ proc = "down"
    /\ proc' = "recovering"
    /\ toRecover' = {}
    /\ UNCHANGED <<env, kafkaVars, runStatus, statusTopic, slot, volatile, specs, disruptions>>

\* RecoverInFlightRuns: ListInFlightRuns.
Restart ==
    /\ proc = "down"
    /\ proc' = "recovering"
    /\ toRecover' = {s \in Sessions : runStatus[s] = "open"}
    /\ UNCHANGED <<env, kafkaVars, runStatus, statusTopic, slot, volatile, specs, disruptions>>

\* Mutant: the sweep only publishes and leaves the row to the status consumer.
RecoverRun_OnlyPublishes(s) ==
    /\ proc = "recovering" /\ s \in toRecover
    /\ toRecover' = toRecover \ {s}
    /\ Fail(s)
    /\ UNCHANGED <<env, kafkaVars, runStatus, slot, proc, volatile, specs, disruptions>>

\* ... one listed run: MarkRunFailed, then PublishStatus; a run whose mark fails is
\* skipped.
RecoverRun(s) ==
    /\ proc = "recovering" /\ s \in toRecover
    /\ toRecover' = toRecover \ {s}
    /\ \/ /\ runStatus' = [runStatus EXCEPT ![s] = IF @ = "open" THEN "failed" ELSE @]
          /\ Fail(s)
       \/ "db" \in env.faults /\ UNCHANGED <<runStatus, statusTopic>>
    /\ UNCHANGED <<env, kafkaVars, slot, proc, volatile, specs, disruptions>>

\* The consumers start, from the committed offset.
StartConsumers ==
    /\ proc = "recovering" /\ toRecover = {}
    /\ proc' = "up"
    /\ position' = committed
    /\ UNCHANGED <<env, requests, committed, runStatus, statusTopic, slot, volatile, toRecover,
                   specs, disruptions>>

-----------------------------------------------------------------------------
LoopStep == Fetch \/ AcquireDispatchSlot \/ Commit \/ StartSession \/ LoopStops

Recovery == Restart \/ (\E s \in Sessions : RecoverRun(s)) \/ StartConsumers

Next ==
    \/ \E s \in Sessions : Request(s) \/ ApplyStatus(s)
    \/ Rebalance
    \/ LoopStep
    \/ \E j \in Jobs : JobStep(j) \/ JobPanics(j)
    \/ Shutdown \/ ProcessExits \/ Crash
    \/ Recovery

Spec == Init /\ [][Next]_vars

(***************************************************************************)
(* Fairness: the fetch loop runs; every stage of a session ends, because   *)
(* each one is bounded by a deadline; a stopping process exits (15 s) and  *)
(* Kubernetes starts it again; the status consumer runs.  Requests,        *)
(* crashes, shutdowns, rebalances and panics are never forced.             *)
(***************************************************************************)
FairSpec ==
    /\ Spec
    /\ WF_vars(LoopStep)
    /\ \A j \in Jobs : WF_vars(JobStep(j))
    /\ \A s \in Sessions : WF_vars(ApplyStatus(s))
    /\ WF_vars(ProcessExits)
    /\ WF_vars(Recovery)

-----------------------------------------------------------------------------
(* Properties *)

JobsIn(s, stages) == {j \in Jobs : job[j].session = s /\ job[j].pc \in stages}

\* The sweep's writes succeed and a request comes again only after a restart.
SweptBeforeRedelivery == env.faults \cap {"rebalance", "duplicate", "db"} = {}

\* No slot outlives its session, or no session that left one behind runs again:
\* CreateSlot returns the slot a session has, and with it the band of its first run.
SlotsFresh ==
    SweptBeforeRedelivery \/ env.faults \cap {"crash", "shutdown", "orchestrator"} = {}

\* Every resource has exactly one owner, on every path through Run: a session is in
\* the session table exactly while one goroutine is between Add and Drop, it holds
\* its partitions and its band exactly in the stages between their acquisition and
\* their deferred release, and a dispatch slot is held by every live goroutine.
\* (Two goroutines of one session never get past Add, so the allocator's "already
\* holds a lease" error is unreachable.)  Bands are leased 1:1 with
\* MAX_CONCURRENT_SESSIONS (main.go), so a session that has its partitions finds a free
\* band at once and nobody sits half-admitted on partitions; the load reaches the
\* sandbox on the band the session leases, and no two sessions are driven on one band,
\* even when earlier slots were leaked by failed deletes, unless a session whose own
\* slot was leaked runs again.
ResourcesOwned ==
    Alive =>
        /\ \A s \in Sessions :
            /\ Cardinality(JobsIn(s, IsTracked)) = IF s \in tracked THEN 1 ELSE 0
            /\ call[s] = "held" <=> JobsIn(s, HoldsParts) # {}
            /\ call[s] \in {"waiting", "undoing"} <=> JobsIn(s, {"parked"}) # {}
            /\ bandOf[s] # NoBand <=> JobsIn(s, HoldsBand) # {}
        /\ sem = Cardinality({j \in Jobs : job[j] # Idle})
                 + (IF loop.pc \in {"commit", "start"} THEN 1 ELSE 0)
        /\ \A j \in Jobs : job[j].pc = "band" => FreeBands # {}
        /\ SlotsFresh =>
            /\ \A j \in Jobs :
                job[j].pc \in Driving => slot[job[j].session] = bandOf[job[j].session]
            /\ \A i, j \in Jobs :
                (i # j /\ job[i].pc \in Driving /\ job[j].pc \in Driving) =>
                    slot[job[i].session] # slot[job[j].session]

\* No session's workload is published twice by processes that crash or stop: the
\* recovery sweep runs before the consumers and the precheck reads what it wrote, so a
\* request whose commit was lost is skipped after a restart.  And no load is driven for
\* a run already recorded completed or failed: a terminal status is published only
\* after the bots stopped, and the sweep marks runs while no session goroutine exists.
DrivenOnce ==
    SweptBeforeRedelivery => \A s \in Sessions :
        /\ specs[s] <= 1
        /\ runStatus[s] \in {"completed", "failed"} => JobsIn(s, Driving) = {}

\* Every requested run reaches a terminal status, through crashes, shutdowns, panics
\* and lost commits: either its session publishes one or the next startup sweeps it.
RunTerminates == \A s \in Sessions : runStatus[s] = "open" ~> runStatus[s] # "open"
=============================================================================
