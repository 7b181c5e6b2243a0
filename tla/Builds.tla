------------------------------- MODULE Builds -------------------------------
(***************************************************************************)
(* From an upload to an image that can be benchmarked.                     *)
(*                                                                         *)
(* services/submission-api: Submit (handler/submit.go) with the rows of    *)
(* submissions and the object store.  services/build-worker: the consumer  *)
(* of submission.build.requested (consumer/kafka.go), Spawner.Run          *)
(* (k8s/spawner.go) and the status ranks of store/postgres.go.  The        *)
(* cluster runs the jobs.  An upload that fails validation changes nothing *)
(* and is left out; a submission id is the request that made it.  Every    *)
(* row has an owner, so claimOrResolveOwner only reads.  The statuses      *)
(* scanned and sbom_ready have one rank and are one here; the copy of each *)
(* status on submission.status.updated is read by nobody under src/.       *)
(***************************************************************************)
EXTENDS Integers, Sequences, Functions

CONSTANTS
    Requests,       \* uploads, and the submission ids they would create
    Spawners,       \* build-worker processes
    None,
    Environments    \* what a behaviour may meet, one of these records:
                    \*   artifact: upload -> its sha256
                    \*   contestant: upload -> who sends it
                    \*   refused: the artifacts that fail the zip-slip check or have no Dockerfile
                    \*   spawners: the processes of the consumer group
                    \*   ecr: one registry (REGISTRY_PROVIDER) instead of two
                    \*   faults: which of AllFaults may happen
                    \*   maxFaults: bound on how many do

AllFaults == {"db", "minio", "publish", "apiCrash", "commit", "crash", "rebalance", "shutdown",
              "job", "k8s", "registry", "ttl"}

ASSUME EnvironmentsKnown ==
    \A e \in Environments :
        /\ DOMAIN e.artifact \subseteq Requests /\ DOMAIN e.contestant = DOMAIN e.artifact
        /\ e.spawners \subseteq Spawners /\ e.spawners # {}
        /\ e.faults \subseteq AllFaults /\ e.maxFaults \in Nat

VARIABLES
    env, faults,
    upc,            \* Submit, one per request: find / upload / insert / resolve / publish / done
    answer,         \* the submission id the caller was told
    artifacts,      \* object store: the ids with an artifact.zip
    status,         \* submissions.status, "none" without a row
    imageRef,       \* the ids with an image_ref
    topic,          \* submission.build.requested
    reader, pos, com,   \* the group's reader, its position, the committed offset
    wpc, msg,       \* Spawner.Run of each process, and the message it is at
    waits,          \* phase 2: the wait for each report, running / ok / failed
    stopping,       \* the processes whose context is cancelled
    job,            \* jobs in the cluster, by kind and id
    staged,         \* how often an image of the id was pushed to staging
    produced,       \* which of them is in the production registry
    report          \* of which of them there is a scan and an sbom

uploadVars == <<upc, answer, artifacts>>
kafkaVars == <<topic, reader, pos, com>>
runVars == <<wpc, msg, waits>>
clusterVars == <<job, staged, produced, report>>
vars == <<env, faults, uploadVars, status, imageRef, kafkaVars, runVars, stopping, clusterVars>>

Uploads == DOMAIN env.artifact
Reports == {"scan", "sbom"}
Kinds == {"build"} \cup Reports
Statuses == {"uploaded", "building", "scanned", "ready", "failed"}
Places == {"fetch", "precheck", "begin", "create", "build", "scan", "sbom", "vet", "mark",
           "promote", "record", "ready", "failing", "commit"}

TypeOK ==
    /\ env \in Environments /\ faults \in 0..env.maxFaults
    /\ upc \in [Requests -> {"find", "upload", "insert", "resolve", "publish", "done"}]
    /\ answer \in [Requests -> Requests \cup {None}]
    /\ artifacts \subseteq Requests /\ imageRef \subseteq Requests
    /\ status \in [Requests -> Statuses \cup {"none"}]
    /\ topic \in Seq(Requests)
    /\ reader \in env.spawners /\ pos \in 0..Len(topic) /\ com \in 0..Len(topic)
    /\ wpc \in [Spawners -> Places]
    /\ \A w \in Spawners : msg[w] \in 0..Len(topic)
    /\ waits \in [Spawners -> [Reports -> {"running", "ok", "failed"}]]
    /\ stopping \subseteq Spawners
    /\ job \in [Kinds -> [Requests -> {"none", "running", "complete", "failed"}]]
    /\ staged \in [Requests -> Nat]
    /\ \A r \in Requests : produced[r] \in 0..staged[r] /\ \A k \in Reports : report[k][r] \in 0..staged[r]

Init ==
    /\ env \in Environments /\ faults = 0
    /\ upc = [r \in Requests |-> IF r \in Uploads THEN "find" ELSE "done"]
    /\ answer = [r \in Requests |-> None]
    /\ artifacts = {} /\ imageRef = {} /\ status = [r \in Requests |-> "none"]
    /\ topic = <<>> /\ reader \in env.spawners /\ pos = 0 /\ com = 0
    /\ wpc = [w \in Spawners |-> "fetch"] /\ msg = [w \in Spawners |-> 0]
    /\ waits = [w \in Spawners |-> [k \in Reports |-> "running"]]
    /\ stopping = {}
    /\ job = [k \in Kinds |-> [r \in Requests |-> "none"]]
    /\ staged = [r \in Requests |-> 0] /\ produced = [r \in Requests |-> 0]
    /\ report = [k \in Reports |-> [r \in Requests |-> 0]]

Fault(kind) == kind \in env.faults /\ faults < env.maxFaults /\ faults' = faults + 1
NoFault == faults' = faults

-----------------------------------------------------------------------------
(* Submit *)

UGoto(r, pc) == upc' = [upc EXCEPT ![r] = pc]
Tells(r, id) == UGoto(r, "done") /\ answer' = [answer EXCEPT ![r] = id]

\* The rows with this artifact: at most one, sha256 is UNIQUE.
SameArtifact(r) == {q \in Uploads : status[q] # "none" /\ env.artifact[q] = env.artifact[r]}

\* FindBySHA256 and GetByID: a known artifact is answered with the submission it has.
Find(r) ==
    /\ upc[r] = "find"
    /\ \/ NoFault /\ SameArtifact(r) = {} /\ UGoto(r, "upload") /\ UNCHANGED answer
       \/ NoFault /\ \E q \in SameArtifact(r) : Tells(r, q)
       \/ Fault("db") /\ Tells(r, None)
    /\ UNCHANGED <<env, artifacts, status, imageRef, kafkaVars, runVars, stopping, clusterVars>>

Upload(r) ==
    /\ upc[r] = "upload"
    /\ \/ NoFault /\ artifacts' = artifacts \cup {r} /\ UGoto(r, "insert") /\ UNCHANGED answer
       \/ Fault("minio") /\ Tells(r, None) /\ UNCHANGED artifacts
    /\ UNCHANGED <<env, status, imageRef, kafkaVars, runVars, stopping, clusterVars>>

\* Mutant: sha256 is not UNIQUE.
Insert_NotUnique(r) ==
    /\ upc[r] = "insert" /\ NoFault
    /\ status' = [status EXCEPT ![r] = "uploaded"]
    /\ UGoto(r, "publish")
    /\ UNCHANGED <<env, answer, artifacts, imageRef, kafkaVars, runVars, stopping, clusterVars>>

\* The row, refused with a unique violation when an upload of the same artifact was first;
\* an error may also hide that it was written.
Insert(r) ==
    /\ upc[r] = "insert"
    /\ \/ /\ NoFault /\ SameArtifact(r) = {}
          /\ status' = [status EXCEPT ![r] = "uploaded"]
          /\ UGoto(r, "publish") /\ UNCHANGED answer
       \/ NoFault /\ SameArtifact(r) # {} /\ UGoto(r, "resolve") /\ UNCHANGED <<answer, status>>
       \/ /\ Fault("db") /\ Tells(r, None)
          /\ \/ UNCHANGED status
             \/ SameArtifact(r) = {} /\ status' = [status EXCEPT ![r] = "uploaded"]
    /\ UNCHANGED <<env, artifacts, imageRef, kafkaVars, runVars, stopping, clusterVars>>

\* 409, with the id for its owner; if only GetByID fails, with the id for anyone.
Resolve(r) ==
    /\ upc[r] = "resolve"
    /\ \/ /\ NoFault
          /\ \E q \in SameArtifact(r) : Tells(r, IF env.contestant[q] = env.contestant[r] THEN q ELSE None)
       \/ Fault("db") /\ \E q \in SameArtifact(r) \cup {None} : Tells(r, q)
    /\ UNCHANGED <<env, artifacts, status, imageRef, kafkaVars, runVars, stopping, clusterVars>>

\* PublishBuildRequested: a failure is logged and the submission accepted all the same; the
\* writer's retries may also have left the message once or twice.
Publish(r) ==
    /\ upc[r] = "publish" /\ Tells(r, r)
    /\ \/ NoFault /\ topic' = Append(topic, r)
       \/ Fault("publish") /\ topic' \in {topic, topic \o <<r>>, topic \o <<r, r>>}
    /\ UNCHANGED <<env, artifacts, status, imageRef, reader, pos, com, runVars, stopping, clusterVars>>

ApiCrash ==
    /\ Fault("apiCrash") /\ \E r \in Uploads : upc[r] # "done"
    /\ upc' = [r \in Requests |-> "done"]
    /\ UNCHANGED <<env, answer, artifacts, status, imageRef, kafkaVars, runVars, stopping, clusterVars>>

Submit(r) == Find(r) \/ Upload(r) \/ Insert(r) \/ Resolve(r) \/ Publish(r)

-----------------------------------------------------------------------------
(* Spawner.Run *)

Goto(w, pc) == wpc' = [wpc EXCEPT ![w] = pc]
At(w, pc) == wpc[w] = pc
Id(w) == topic[msg[w]]

\* Between the statements of Run nothing but wpc and, where stated, one more thing changes.
Elsewhere == UNCHANGED <<env, uploadVars, kafkaVars, msg, stopping>>

\* Every call is made with the context of the process, which a shutdown cancels.
Errs(w, kinds) == (w \in stopping /\ NoFault) \/ \E k \in kinds : Fault(k)
Works(w) == w \notin stopping /\ NoFault

\* Mutant: the offset is committed when the message is read.
Fetch_Commits(w) ==
    /\ At(w, "fetch") /\ reader = w /\ pos < Len(topic) /\ w \notin stopping
    /\ pos' = pos + 1 /\ com' = pos + 1 /\ msg' = [msg EXCEPT ![w] = pos + 1]
    /\ Goto(w, "precheck") /\ NoFault
    /\ UNCHANGED <<env, uploadVars, status, imageRef, topic, reader, waits, stopping, clusterVars>>

Fetch(w) ==
    /\ At(w, "fetch") /\ reader = w /\ pos < Len(topic) /\ w \notin stopping
    /\ pos' = pos + 1 /\ msg' = [msg EXCEPT ![w] = pos + 1]
    /\ Goto(w, "precheck") /\ NoFault
    /\ UNCHANGED <<env, uploadVars, status, imageRef, topic, reader, com, waits, stopping, clusterVars>>

\* The download, CheckZipSlip and dockerfile.Generate.
Precheck(w) ==
    /\ At(w, "precheck")
    /\ \/ Works(w) /\ Goto(w, IF env.artifact[Id(w)] \in env.refused THEN "failing" ELSE "begin")
       \/ Errs(w, {"minio"}) /\ Goto(w, "failing")
    /\ Elsewhere /\ UNCHANGED <<status, imageRef, waits, clusterVars>>

Rank(s) ==
    CASE s = "uploaded" -> 0 [] s = "building" -> 1 [] s = "scanned" -> 2 [] s = "ready" -> 3 [] s = "failed" -> 4

\* Mutant: a status is written whatever the row holds.
Accepts_Any(old, new) == TRUE

\* The WHERE clause of UpdateStatus.
Accepts(old, new) == old = new \/ (old # "failed" /\ Rank(new) >= Rank(old))

\* setStatus: with a context of its own, and an error is only logged.
SetStatus(w, new) ==
    \/ /\ NoFault
       /\ status' = IF Accepts(status[Id(w)], new) THEN [status EXCEPT ![Id(w)] = new] ELSE status
    \/ Fault("db") /\ UNCHANGED status

Marks(w, at, new, next) ==
    /\ At(w, at) /\ SetStatus(w, new) /\ Goto(w, next)
    /\ Elsewhere /\ UNCHANGED <<imageRef, waits, clusterVars>>

\* createJob: a job that exists already is adopted, in whatever state it is.
CreateJob(k, id) == job' = IF job[k][id] = "none" THEN [job EXCEPT ![k][id] = "running"] ELSE job

\* Repository, registry secret and job; each has one error path, all of them alike.  The
\* job may exist although the call reports an error.
Creates(w, at, k, kinds, next) ==
    /\ At(w, at)
    /\ \/ Works(w) /\ CreateJob(k, Id(w)) /\ Goto(w, next)
       \/ Errs(w, kinds) /\ Goto(w, "failing") /\ (UNCHANGED job \/ CreateJob(k, Id(w)))
    /\ Elsewhere /\ UNCHANGED <<status, imageRef, waits, staged, produced, report>>

\* waitForJob: what the poll sees, or no end to it: the job is gone, or the API does not answer.
WaitOk(w, k) == Works(w) /\ job[k][Id(w)] = "complete"
WaitErrs(w, k) ==
    \/ Works(w) /\ job[k][Id(w)] \in {"failed", "none"}
    \/ Errs(w, {"k8s"})

WaitBuild(w) ==
    /\ At(w, "build")
    /\ \/ WaitOk(w, "build") /\ Goto(w, "scan")
       \/ WaitErrs(w, "build") /\ Goto(w, "failing")
    /\ Elsewhere /\ UNCHANGED <<status, imageRef, waits, clusterVars>>

WaitReport(w, k) ==
    /\ At(w, "vet") /\ waits[w][k] = "running"
    /\ \/ WaitOk(w, k) /\ waits' = [waits EXCEPT ![w][k] = "ok"]
       \/ WaitErrs(w, k) /\ waits' = [waits EXCEPT ![w][k] = "failed"]
    /\ Elsewhere /\ UNCHANGED <<wpc, status, imageRef, clusterVars>>

\* Mutant: the first report that arrives decides.
Phase2Outcome_First(w) ==
    IF \E k \in Reports : waits[w][k] = "ok" THEN "mark" ELSE "failing"

\* phase2Outcome: both, or the first error.
Phase2Outcome(w) ==
    IF \E k \in Reports : waits[w][k] = "failed" THEN "failing" ELSE "mark"

JoinReports(w) ==
    /\ At(w, "vet") /\ \A k \in Reports : waits[w][k] # "running"
    /\ Goto(w, Phase2Outcome(w)) /\ NoFault
    /\ waits' = [waits EXCEPT ![w] = [k \in Reports |-> "running"]]
    /\ Elsewhere /\ UNCHANGED <<status, imageRef, clusterVars>>

Copies(id) == produced' = [produced EXCEPT ![id] = staged[id]]

\* ensureRepository and crane.Copy, which may report an error although the image is there;
\* with one registry the staged image is the production image.
Promote(w) ==
    /\ At(w, "promote")
    /\ \/ env.ecr /\ NoFault /\ Goto(w, "record") /\ UNCHANGED produced
       \/ ~env.ecr /\ Works(w) /\ Goto(w, "record") /\ Copies(Id(w))
       \/ ~env.ecr /\ Errs(w, {"registry"}) /\ Goto(w, "failing") /\ (UNCHANGED produced \/ Copies(Id(w)))
    /\ Elsewhere /\ UNCHANGED <<status, imageRef, waits, job, staged, report>>

\* UpdateImageRef.
Record(w) ==
    /\ At(w, "record")
    /\ \/ Works(w) /\ imageRef' = imageRef \cup {Id(w)} /\ Goto(w, "ready")
       \/ Errs(w, {"db"}) /\ Goto(w, "failing") /\ UNCHANGED imageRef
    /\ Elsewhere /\ UNCHANGED <<status, waits, clusterVars>>

\* commitMessage, with a context of its own; a process that lost the partition commits nothing.
\* A cancelled context then ends the loop.
Commit(w) ==
    /\ At(w, "commit") /\ msg' = [msg EXCEPT ![w] = 0] /\ Goto(w, "fetch")
    /\ \/ NoFault /\ com' = IF reader = w THEN msg[w] ELSE com
       \/ Fault("commit") /\ UNCHANGED com
    /\ UNCHANGED <<env, uploadVars, status, imageRef, topic, reader, pos, waits, stopping, clusterVars>>

Run(w) ==
    \/ Precheck(w)
    \/ Marks(w, "begin", "building", "create")
    \/ Creates(w, "create", "build", {"k8s", "registry"}, "build")
    \/ WaitBuild(w)
    \/ Creates(w, "scan", "scan", {"k8s"}, "sbom")
    \/ Creates(w, "sbom", "sbom", {"k8s"}, "vet")
    \/ \E k \in Reports : WaitReport(w, k)
    \/ JoinReports(w)
    \/ Marks(w, "mark", "scanned", "promote")
    \/ Promote(w)
    \/ Record(w)
    \/ Marks(w, "ready", "ready", "commit")
    \/ Marks(w, "failing", "failed", "commit")

-----------------------------------------------------------------------------
(* Processes and cluster *)

\* SIGTERM; a process that then leaves the loop, or is killed, starts again.
Shutdown(w) ==
    /\ w \in env.spawners \ stopping /\ Fault("shutdown")
    /\ stopping' = stopping \cup {w}
    /\ UNCHANGED <<env, uploadVars, status, imageRef, kafkaVars, runVars, clusterVars>>

Restarts(w) ==
    /\ Goto(w, "fetch") /\ msg' = [msg EXCEPT ![w] = 0]
    /\ waits' = [waits EXCEPT ![w] = [k \in Reports |-> "running"]]
    /\ stopping' = stopping \ {w}
    /\ pos' = IF reader = w THEN com ELSE pos
    /\ UNCHANGED <<env, uploadVars, status, imageRef, topic, reader, com, clusterVars>>

Stops(w) == At(w, "fetch") /\ w \in stopping /\ NoFault /\ Restarts(w)
Crash(w) == w \in env.spawners /\ Fault("crash") /\ Restarts(w)

\* The partition moves, also while its reader is at work on a message.
Rebalance(w) ==
    /\ w \in env.spawners \ {reader} /\ Fault("rebalance")
    /\ reader' = w /\ pos' = com
    /\ UNCHANGED <<env, uploadVars, status, imageRef, topic, com, runVars, stopping, clusterVars>>

\* A job ends by itself or at activeDeadlineSeconds; backoffLimit is 0.
JobEnds(k, r) ==
    /\ job[k][r] = "running"
    /\ \/ /\ NoFault /\ job' = [job EXCEPT ![k][r] = "complete"]
          /\ IF k = "build"
             THEN /\ staged' = [staged EXCEPT ![r] = @ + 1]
                  /\ produced' = IF env.ecr THEN [produced EXCEPT ![r] = staged[r] + 1] ELSE produced
                  /\ UNCHANGED report
             ELSE report' = [report EXCEPT ![k][r] = staged[r]] /\ UNCHANGED <<staged, produced>>
       \/ Fault("job") /\ job' = [job EXCEPT ![k][r] = "failed"] /\ UNCHANGED <<staged, produced, report>>
    /\ UNCHANGED <<env, uploadVars, status, imageRef, kafkaVars, runVars, stopping>>

\* ttlSecondsAfterFinished: sooner or later a job that has ended is removed.
JobExpires(k, r) ==
    /\ job[k][r] \in {"complete", "failed"} /\ Fault("ttl")
    /\ job' = [job EXCEPT ![k][r] = "none"]
    /\ UNCHANGED <<env, uploadVars, status, imageRef, kafkaVars, runVars, stopping, staged, produced, report>>

Next ==
    \/ \E r \in Uploads : Submit(r)
    \/ ApiCrash
    \/ \E w \in Spawners : Fetch(w) \/ Run(w) \/ Commit(w) \/ Shutdown(w) \/ Stops(w) \/ Crash(w) \/ Rebalance(w)
    \/ \E k \in Kinds, r \in Requests : JobEnds(k, r) \/ JobExpires(k, r)

\* Handlers and spawners run, jobs have a deadline, and a stopped process is started again.
Fairness ==
    /\ \A r \in Requests : WF_vars(r \in Uploads /\ Submit(r))
    /\ \A w \in Spawners : WF_vars(w \in env.spawners /\ (Fetch(w) \/ Run(w) \/ Commit(w) \/ Stops(w)))
    /\ \A k \in Kinds, r \in Requests : WF_vars(JobEnds(k, r))

Spec == Init /\ [][Next]_vars /\ Fairness

-----------------------------------------------------------------------------
(* Properties *)

\* Uploads of one artifact that race each other become one submission: one row, whose
\* artifact is stored, which alone is requested to be built, and everyone who is told an
\* id is told that row's (FindBySHA256 before, the UNIQUE sha256 after the upload).
OneSubmission ==
    /\ \A q, r \in Uploads :
        (q # r /\ env.artifact[q] = env.artifact[r]) => status[q] = "none" \/ status[r] = "none"
    /\ \A r \in Uploads : answer[r] # None =>
        /\ env.artifact[answer[r]] = env.artifact[r]
        /\ status[answer[r]] # "none" /\ answer[r] \in artifacts
    /\ \A i \in DOMAIN topic : status[topic[i]] # "none"

\* A submission that is ready has its image recorded, and the image in production has
\* been scanned and has an sbom, whatever was redelivered or adopted on the way, while
\* jobs outlast the attempt that created them.
ReadyIsVetted ==
    "ttl" \notin env.faults => \A r \in Uploads : status[r] = "ready" =>
        /\ r \in imageRef /\ produced[r] > 0
        /\ \A k \in Reports : report[k][r] = produced[r]

\* A ready submission stays ready when its request is handled again, after a crash, a
\* lost commit, by a second process or for a second message: the jobs are adopted and
\* the ranks keep the statuses of the repetition out.
ReadySurvives ==
    [][env.faults \subseteq {"crash", "rebalance", "commit", "publish"} =>
        \A r \in Uploads : status[r] = "ready" => status'[r] = "ready"]_vars

\* Every requested build is decided, ready or failed, unless the database loses the
\* status: through crashes, shutdowns, rebalances and jobs that fail or vanish.
BuildDecided ==
    \A r \in Requests :
        ("db" \notin env.faults /\ r \in Range(topic)) ~> (status[r] \in {"ready", "failed"})
=============================================================================
