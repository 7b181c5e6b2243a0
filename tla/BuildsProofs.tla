---------------------------- MODULE BuildsProofs ----------------------------
(***************************************************************************)
(* Proofs about Builds, for any uploads, artifacts, build workers and      *)
(* faults: uploads of one artifact become one submission, a submission     *)
(* that is ready has a scanned image in production, and it stays ready     *)
(* when its request is handled again.                                      *)
(*                                                                         *)
(* The last two need to know where every process is: which jobs of its     *)
(* submission have ended when Spawner.Run is at a given statement (AtWork), *)
(* and that a job is created once, so that the one image there is the one  *)
(* that was scanned (Cluster).                                             *)
(***************************************************************************)
EXTENDS Builds, TLAPS

\* TypeOK with the domains of the functions it only bounds.
Types ==
    /\ TypeOK
    /\ topic \in Seq(Uploads) /\ msg \in [Spawners -> Nat]
    /\ produced \in [Requests -> Nat] /\ report \in [Reports -> [Requests -> Nat]]

\* A row is written after the artifact it names, and its request after the row.
Uploading ==
    \A r \in Requests :
        /\ status[r] # "none" => r \in Uploads /\ r \in artifacts
        /\ upc[r] = "insert" => r \in artifacts
        /\ upc[r] = "publish" => status[r] # "none"

\* Past the fetch, a process has a message.
Fetched == \A w \in Spawners : wpc[w] # "fetch" => msg[w] \in 1..Len(topic)

\* While jobs outlast the attempt that created them, every submission has one image at
\* most, the reports are of that one, and a ready submission is vetted.
Cluster(r) ==
    /\ staged[r] = IF job["build"][r] = "complete" THEN 1 ELSE 0
    /\ env.ecr => produced[r] = staged[r]
    /\ \A k \in Reports :
        /\ job[k][r] # "none" => job["build"][r] = "complete"
        /\ job[k][r] = "complete" => report[k][r] = 1
    /\ status[r] = "ready" =>
        /\ r \in imageRef /\ produced[r] = 1
        /\ \A k \in Reports : job[k][r] = "complete"

\* ... and the statement a process is at tells what there is of its submission.
AtWork(w) ==
    /\ wpc[w] = "build" => job["build"][Id(w)] # "none"
    /\ wpc[w] \in {"scan", "sbom", "vet", "mark", "promote", "record", "ready"} =>
        job["build"][Id(w)] = "complete"
    /\ wpc[w] \in {"sbom", "vet"} => job["scan"][Id(w)] # "none"
    /\ wpc[w] = "vet" => job["sbom"][Id(w)] # "none"
    /\ \A k \in Reports :
        /\ wpc[w] # "vet" => waits[w][k] = "running"
        /\ waits[w][k] = "ok" => job[k][Id(w)] = "complete"
        /\ wpc[w] \in {"mark", "promote", "record", "ready"} => job[k][Id(w)] = "complete"
    /\ wpc[w] \in {"record", "ready"} => produced[Id(w)] = 1
    /\ wpc[w] = "ready" => Id(w) \in imageRef

Vetted == "ttl" \notin env.faults => (\A r \in Requests : Cluster(r)) /\ (\A w \in Spawners : AtWork(w))

\* Where only deliveries are repeated, nothing fails but an artifact that is refused, and
\* that one is never ready.
OnlyRepeated == env.faults \subseteq {"crash", "rebalance", "commit", "publish"}

Refused(r) == env.artifact[r] \in env.refused

Repeated ==
    OnlyRepeated =>
        /\ stopping = {}
        /\ \A k \in Kinds, r \in Requests : job[k][r] # "failed"
        /\ \A r \in Requests : status[r] = "ready" => ~Refused(r)
        /\ \A w \in Spawners :
            /\ \A k \in Reports : waits[w][k] # "failed"
            /\ wpc[w] = "failing" => Refused(Id(w))
            /\ wpc[w] \notin {"fetch", "precheck", "failing", "commit"} => ~Refused(Id(w))

IInv == Types /\ Uploading /\ OneSubmission /\ Fetched /\ Vetted /\ Repeated

-----------------------------------------------------------------------------
(* Facts the steps share *)

\* What the proofs use of sequences.
LEMMA SeqLen ==
    ASSUME NEW S, NEW q \in Seq(S)
    PROVE  Len(q) \in Nat /\ DOMAIN q = 1..Len(q) /\ q \in [1..Len(q) -> S]
  OBVIOUS

\* An element of a sequence is an element of its set.
LEMMA SeqElement ==
    ASSUME NEW S, NEW q \in Seq(S), NEW i \in 1..Len(q)
    PROVE  q[i] \in S
  OBVIOUS

\* The empty sequence.
LEMMA SeqEmpty ==
    ASSUME NEW S
    PROVE  << >> \in Seq(S) /\ Len(<< >>) = 0 /\ \A q \in Seq(S) : q # << >> => Len(q) \in Nat \ {0}
  OBVIOUS

\* What Append leaves and adds.
LEMMA SeqAppend ==
    ASSUME NEW S, NEW q \in Seq(S), NEW x \in S
    PROVE  /\ Append(q, x) \in Seq(S) /\ Append(q, x) # << >>
           /\ Len(Append(q, x)) = Len(q) + 1 /\ Append(q, x)[Len(q) + 1] = x
           /\ \A i \in 1..Len(q) : Append(q, x)[i] = q[i]
  OBVIOUS

\* What concatenation leaves and adds.
LEMMA SeqConcat ==
    ASSUME NEW S, NEW p \in Seq(S), NEW q \in Seq(S)
    PROVE  /\ p \o q \in Seq(S) /\ Len(p \o q) = Len(p) + Len(q)
           /\ \A i \in 1..Len(p) + Len(q) : (p \o q)[i] = IF i <= Len(p) THEN p[i] ELSE q[i - Len(p)]
  OBVIOUS

\* A fault taken is counted and within bounds.
LEMMA FaultCount ==
    ASSUME Types, env' = env, NoFault \/ \E k \in AllFaults : Fault(k)
    PROVE  faults' \in 0..env.maxFaults
<1>1. faults \in 0..env.maxFaults /\ env.maxFaults \in Nat
  BY Zenon, EnvironmentsKnown DEF Types, TypeOK
<1> QED
  BY <1>1 DEF NoFault, Fault

\* The build topic holds uploads.
LEMMA UploadFacts ==
    ASSUME Types
    PROVE  /\ Uploads \subseteq Requests /\ env.spawners \subseteq Spawners
           /\ topic \in Seq(Uploads) /\ Len(topic) \in Nat /\ DOMAIN topic = 1..Len(topic)
           /\ \A i \in 1..Len(topic) : topic[i] \in Uploads /\ topic[i] \in Requests
  BY Zenon, EnvironmentsKnown, SeqLen, SeqElement DEF Types, TypeOK, Uploads

\* The message a spawner has in hand is of an upload.
LEMMA IdFacts ==
    ASSUME Types, Fetched, NEW w \in Spawners, wpc[w] # "fetch"
    PROVE  Id(w) \in Uploads /\ Id(w) \in Requests /\ msg[w] \in 1..Len(topic)
  BY Zenon, UploadFacts DEF Fetched, Id

\* A step that writes no row and takes none away keeps what is known of the uploads.
LEMMA RowsKept ==
    ASSUME Uploading, OneSubmission, env' = env, UNCHANGED uploadVars, topic' = topic,
           Types, \A r \in Requests : status'[r] = "none" <=> status[r] = "none"
    PROVE  Uploading' /\ OneSubmission'
<1>1. Uploads' = Uploads /\ UNCHANGED <<upc, answer, artifacts>>
  BY Zenon DEF Uploads, uploadVars
<1>2. Uploading'
  BY Zenon, <1>1 DEF Uploading
<1>3. \A r \in Uploads : answer[r] # None => answer[r] \in Requests
  BY Zenon, UploadFacts DEF Types, TypeOK
<1>4. OneSubmission'
  <2>1. \A q, r \in Uploads :
          (q # r /\ env.artifact[q] = env.artifact[r]) => status'[q] = "none" \/ status'[r] = "none"
    BY Zenon, UploadFacts DEF OneSubmission
  <2>2. \A r \in Uploads : answer[r] # None =>
          /\ env.artifact[answer[r]] = env.artifact[r]
          /\ status'[answer[r]] # "none" /\ answer[r] \in artifacts
    BY Zenon, <1>3 DEF OneSubmission
  <2>3. \A i \in DOMAIN topic : status'[topic[i]] # "none"
    BY Zenon, UploadFacts DEF OneSubmission
  <2> QED BY Zenon, <1>1, <2>1, <2>2, <2>3 DEF OneSubmission
<1> QED
  BY Zenon, <1>2, <1>4

\* What holds of a process holds while it stands still and jobs and images only advance.
LEMMA StaysAtWork ==
    ASSUME NEW u, AtWork(u), wpc'[u] = wpc[u], waits'[u] = waits[u], Id(u)' = Id(u),
           Id(u) \in Requests \/ wpc[u] = "fetch",
           \A k \in Kinds, r \in Requests :
              /\ job[k][r] = "complete" => job'[k][r] = "complete"
              /\ job[k][r] # "none" => job'[k][r] # "none",
           \A r \in Requests : produced[r] = 1 => produced'[r] = 1,
           imageRef \subseteq imageRef'
    PROVE  AtWork(u)'
<1>1. CASE wpc[u] = "fetch"
  BY Zenon, <1>1 DEF AtWork, Kinds, Reports
<1>2. CASE Id(u) \in Requests
  BY <1>2 DEF AtWork, Kinds, Reports
<1> QED
  BY Zenon, <1>1, <1>2

-----------------------------------------------------------------------------
(* Submit *)

\* Publishing to a topic keeps the messages it holds.
LEMMA TopicGrows ==
    ASSUME Types, NEW r \in Uploads,
           topic' \in {topic, Append(topic, r), topic \o <<r>>, topic \o <<r, r>>}
    PROVE  /\ topic' \in Seq(Uploads) /\ Len(topic) <= Len(topic')
           /\ Len(topic') \in Nat /\ DOMAIN topic' = 1..Len(topic')
           /\ \A i \in 1..Len(topic) : topic'[i] = topic[i]
           /\ \A i \in 1..Len(topic') : i > Len(topic) => topic'[i] = r
<1>1. topic \in Seq(Uploads)
  BY Zenon DEF Types
<1>2. CASE topic' = topic
  BY <1>1, <1>2
<1>3. CASE topic' = Append(topic, r)
  BY <1>1, <1>3, SeqAppend
<1>4. CASE topic' = topic \o <<r>>
  BY <1>1, <1>4
<1>5. CASE topic' = topic \o <<r, r>>
  <2> DEFINE two == <<r, r>>
  <2>1. two \in Seq(Uploads) /\ Len(two) = 2 /\ \A i \in 1..2 : two[i] = r
    OBVIOUS
  <2>2. topic' = topic \o two
    BY Zenon, <1>5
  <2> HIDE DEF two
  <2> QED BY <1>1, <2>1, <2>2, SeqConcat
<1> QED
  BY Zenon, <1>2, <1>3, <1>4, <1>5

\* A handler leaves the build workers and the cluster where they are.
LEMMA WorkUndisturbed ==
    ASSUME Types, Fetched, Vetted, Repeated, env' = env,
           UNCHANGED <<imageRef, runVars, stopping, clusterVars>>,
           Len(topic) <= Len(topic'), Len(topic') \in Nat,
           \A i \in 1..Len(topic) : topic'[i] = topic[i],
           \A r \in Requests : status'[r] = "ready" => status[r] = "ready"
    PROVE  Fetched' /\ Vetted' /\ Repeated'
<1>1. UNCHANGED <<wpc, msg, waits, job, staged, produced, report, imageRef, stopping>>
  BY Zenon DEF runVars, clusterVars
<1>2. \A w \in Spawners : wpc[w] # "fetch" => Id(w)' = Id(w) /\ Id(w) \in Requests
  BY Zenon, <1>1, IdFacts DEF Id
<1>3. Fetched'
  BY <1>1, UploadFacts DEF Fetched
<1>4. Vetted'
  <2> SUFFICES ASSUME "ttl" \notin env.faults
               PROVE  (\A r \in Requests : Cluster(r)') /\ (\A w \in Spawners : AtWork(w)')
    BY Zenon DEF Vetted
  <2>1. \A r \in Requests : Cluster(r)'
    BY Zenon, <1>1 DEF Vetted, Cluster
  <2>2. ASSUME NEW w \in Spawners PROVE AtWork(w)'
    <3>1. AtWork(w)
      BY Zenon DEF Vetted
    <3>2. CASE wpc[w] = "fetch"
      BY Zenon, <1>1, <3>1, <3>2 DEF AtWork
    <3>3. CASE wpc[w] # "fetch"
      BY Zenon, <1>1, <1>2, <3>1, <3>3 DEF AtWork
    <3> QED BY Zenon, <3>2, <3>3
  <2> QED BY Zenon, <2>1, <2>2
<1>5. Repeated'
  BY <1>1, <1>2 DEF Repeated, OnlyRepeated, Refused
<1> QED
  BY Zenon, <1>3, <1>4, <1>5

\* The types a submit handler keeps.
LEMMA SubmitTypes ==
    ASSUME Types, NEW r \in Uploads, Submit(r)
    PROVE  /\ Types' /\ env' = env
           /\ UNCHANGED <<imageRef, runVars, stopping, clusterVars>>
           /\ topic' = topic \/ topic' \in {Append(topic, r), topic \o <<r>>, topic \o <<r, r>>}
           /\ Uploads' = Uploads
<1>1. /\ env' = env /\ UNCHANGED <<imageRef, runVars, stopping, clusterVars, reader, pos, com>>
      /\ topic' = topic \/ topic' \in {Append(topic, r), topic \o <<r>>, topic \o <<r, r>>}
      /\ NoFault \/ \E k \in AllFaults : Fault(k)
  BY Zenon DEF Submit, Find, Upload, Insert, Resolve, Publish, kafkaVars, AllFaults
<1>2. faults' \in 0..env.maxFaults
  BY Zenon, <1>1, FaultCount
<1>3. topic' \in Seq(Uploads) /\ Len(topic) <= Len(topic') /\ Len(topic') \in Nat /\ Len(topic) \in Nat
  BY Zenon, <1>1, TopicGrows, UploadFacts
<1>4. Uploads' = Uploads /\ Uploads \subseteq Requests
  BY Zenon, <1>1, UploadFacts DEF Uploads
<1>5. \A q \in SameArtifact(r) : q \in Requests
  BY Zenon, <1>4 DEF SameArtifact
<1>6. /\ upc' \in [Requests -> {"find", "upload", "insert", "resolve", "publish", "done"}]
      /\ artifacts' \subseteq Requests
  BY Zenon, <1>4 DEF Submit, Find, Upload, Insert, Resolve, Publish, UGoto, Tells, Types, TypeOK
<1>7. answer' \in [Requests -> Requests \cup {None}]
  BY <1>4, <1>5 DEF Submit, Find, Upload, Insert, Resolve, Publish, UGoto, Tells, Types, TypeOK
<1>8. status' \in [Requests -> Statuses \cup {"none"}]
  BY Zenon, <1>4 DEF Submit, Find, Upload, Insert, Resolve, Publish, Types, TypeOK, Statuses
<1>9. topic' \in Seq(Requests)
  BY <1>3, <1>4
<1>10. UNCHANGED <<wpc, msg, waits, job, staged, produced, report>>
  BY Zenon, <1>1 DEF runVars, clusterVars
<1>11. /\ pos' \in 0..Len(topic') /\ com' \in 0..Len(topic')
       /\ \A w \in Spawners : msg'[w] \in 0..Len(topic')
  BY <1>1, <1>3, <1>10 DEF Types, TypeOK
<1>12. TypeOK'
  BY Zenon, <1>1, <1>2, <1>6, <1>7, <1>8, <1>9, <1>10, <1>11 DEF Types, TypeOK
<1> QED
  BY Zenon, <1>1, <1>3, <1>4, <1>10, <1>12 DEF Types

\* Looking up the artifact and resolving a conflict keep the invariant.
LEMMA FindStep ==
    ASSUME IInv, NEW r \in Uploads, Find(r) \/ Resolve(r)
    PROVE  IInv'
<1>1. /\ Types' /\ env' = env /\ Uploads' = Uploads /\ Uploads \subseteq Requests
      /\ UNCHANGED <<imageRef, runVars, stopping, clusterVars>>
  BY Zenon, SubmitTypes, UploadFacts DEF IInv, Submit
<1>2. UNCHANGED <<status, topic, artifacts>>
  BY Zenon DEF Find, Resolve, kafkaVars
<1>3. Fetched' /\ Vetted' /\ Repeated'
  BY <1>1, <1>2, WorkUndisturbed, UploadFacts DEF IInv
<1>4. /\ upc'[r] \in {"upload", "done"} /\ \A q \in Requests : q # r => upc'[q] = upc[q]
      /\ answer'[r] \in {answer[r], None} \cup SameArtifact(r)
      /\ \A q \in Requests : q # r => answer'[q] = answer[q]
  BY Zenon, <1>1 DEF Find, Resolve, UGoto, Tells, IInv, Types, TypeOK
<1>5. Uploading'
  BY Zenon, <1>1, <1>2, <1>4 DEF IInv, Uploading
<1>6. \A q \in SameArtifact(r) :
        env.artifact[q] = env.artifact[r] /\ status[q] # "none" /\ q \in artifacts
  BY Zenon, <1>1 DEF SameArtifact, IInv, Uploading
<1>7. OneSubmission'
  BY <1>1, <1>2, <1>4, <1>6 DEF IInv, OneSubmission
<1> QED
  BY Zenon, <1>1, <1>3, <1>5, <1>7 DEF IInv

\* Storing the artifact keeps the invariant.
LEMMA UploadStep ==
    ASSUME IInv, NEW r \in Uploads, Upload(r)
    PROVE  IInv'
<1>1. /\ Types' /\ env' = env /\ Uploads' = Uploads /\ Uploads \subseteq Requests
      /\ UNCHANGED <<imageRef, runVars, stopping, clusterVars>>
  BY Zenon, SubmitTypes, UploadFacts DEF IInv, Submit
<1>2. UNCHANGED <<status, topic>>
  BY Zenon DEF Upload, kafkaVars
<1>3. Fetched' /\ Vetted' /\ Repeated'
  BY <1>1, <1>2, WorkUndisturbed, UploadFacts DEF IInv
<1>4. /\ artifacts \subseteq artifacts'
      /\ upc'[r] = "done" \/ (upc'[r] = "insert" /\ r \in artifacts')
      /\ \A q \in Requests : q # r => upc'[q] = upc[q]
      /\ answer'[r] \in {answer[r], None} /\ \A q \in Requests : q # r => answer'[q] = answer[q]
  BY Zenon, <1>1 DEF Upload, UGoto, Tells, IInv, Types, TypeOK
<1>5. Uploading'
  BY Zenon, <1>1, <1>2, <1>4 DEF IInv, Uploading
<1>6. OneSubmission'
  BY <1>1, <1>2, <1>4 DEF IInv, OneSubmission
<1> QED
  BY Zenon, <1>1, <1>3, <1>5, <1>6 DEF IInv

\* The row is written only where no upload of the same artifact has one.
LEMMA InsertStep ==
    ASSUME IInv, NEW r \in Uploads, Insert(r)
    PROVE  IInv'
<1>1. /\ Types' /\ env' = env /\ Uploads' = Uploads /\ Uploads \subseteq Requests
      /\ UNCHANGED <<imageRef, runVars, stopping, clusterVars>>
  BY Zenon, SubmitTypes, UploadFacts DEF IInv, Submit
<1>2. UNCHANGED <<topic, artifacts>> /\ upc[r] = "insert"
  BY Zenon DEF Insert, kafkaVars
<1>3. /\ \A q \in Requests : q # r => status'[q] = status[q] /\ upc'[q] = upc[q] /\ answer'[q] = answer[q]
      /\ answer'[r] \in {answer[r], None}
      /\ \/ status'[r] = status[r]
         \/ status'[r] = "uploaded" /\ SameArtifact(r) = {}
      /\ upc'[r] \in {"done", "resolve"} \/ (upc'[r] = "publish" /\ status'[r] = "uploaded")
  <2> DEFINE Only == SameArtifact(r) = {}
  <2>1. \/ Only /\ status' = [status EXCEPT ![r] = "uploaded"] /\ UGoto(r, "publish") /\ UNCHANGED answer
        \/ UGoto(r, "resolve") /\ UNCHANGED <<answer, status>>
        \/ Tells(r, None) /\ UNCHANGED status
        \/ Tells(r, None) /\ Only /\ status' = [status EXCEPT ![r] = "uploaded"]
    BY Zenon DEF Insert
  <2>2. r \in DOMAIN upc /\ r \in DOMAIN status /\ r \in DOMAIN answer /\ r \in Requests
        /\ DOMAIN upc = Requests /\ DOMAIN status = Requests /\ DOMAIN answer = Requests
    BY Zenon, <1>1 DEF IInv, Types, TypeOK
  <2>3. Only => SameArtifact(r) = {}
    BY Zenon
  <2> HIDE DEF Only
  <2>4. \/ status'[r] = status[r]
        \/ status'[r] = "uploaded" /\ Only
    BY Zenon, <2>1, <2>2
  <2> QED BY Zenon, <2>1, <2>2, <2>3, <2>4 DEF UGoto, Tells
<1>4. Fetched' /\ Vetted' /\ Repeated'
  <2>1. \A q \in Requests : status'[q] = "ready" => status[q] = "ready"
    BY Zenon, <1>3
  <2> QED BY <1>1, <1>2, <2>1, WorkUndisturbed, UploadFacts DEF IInv
<1>5. Uploading'
  BY Zenon, <1>1, <1>2, <1>3 DEF IInv, Uploading
<1>6. \A q \in Requests : status[q] # "none" => status'[q] # "none"
  BY Zenon, <1>3
<1>7. status'[r] # status[r] => \A q \in Uploads : env.artifact[q] = env.artifact[r] => status[q] = "none"
  BY Zenon, <1>3 DEF SameArtifact
<1>8. \A p, q \in Uploads :
        (p # q /\ env.artifact[p] = env.artifact[q]) => status'[p] = "none" \/ status'[q] = "none"
  BY <1>1, <1>3, <1>7 DEF IInv, OneSubmission
<1>9. \A q \in Uploads : answer'[q] # None =>
        /\ env.artifact[answer'[q]] = env.artifact[q]
        /\ status'[answer'[q]] # "none" /\ answer'[q] \in artifacts
  <2> TAKE q \in Uploads
  <2>1. answer'[q] \in {answer[q], None} /\ (answer[q] # None => answer[q] \in Requests)
    BY Zenon, <1>1, <1>3 DEF IInv, Types, TypeOK
  <2> QED BY Zenon, <1>6, <2>1 DEF IInv, OneSubmission
<1>10. \A i \in DOMAIN topic : status'[topic[i]] # "none"
  BY Zenon, <1>6, UploadFacts DEF IInv, OneSubmission
<1>11. OneSubmission'
  BY Zenon, <1>1, <1>2, <1>8, <1>9, <1>10 DEF OneSubmission
<1> QED
  BY Zenon, <1>1, <1>4, <1>5, <1>11 DEF IInv

\* Publishing build.requests keeps the invariant.
LEMMA PublishStep ==
    ASSUME IInv, NEW r \in Uploads, Publish(r)
    PROVE  IInv'
<1>1. /\ Types' /\ env' = env /\ Uploads' = Uploads /\ Uploads \subseteq Requests
      /\ UNCHANGED <<imageRef, runVars, stopping, clusterVars>>
      /\ topic' \in {topic, Append(topic, r), topic \o <<r>>, topic \o <<r, r>>}
  BY Zenon, SubmitTypes, UploadFacts DEF IInv, Submit
<1>2. UNCHANGED <<status, artifacts>> /\ upc[r] = "publish"
  BY Zenon DEF Publish
<1>3. /\ Len(topic) <= Len(topic') /\ Len(topic') \in Nat /\ DOMAIN topic' = 1..Len(topic')
      /\ \A i \in 1..Len(topic) : topic'[i] = topic[i]
      /\ \A i \in 1..Len(topic') : i > Len(topic) => topic'[i] = r
  BY Zenon, <1>1, TopicGrows DEF IInv
<1>4. Fetched' /\ Vetted' /\ Repeated'
  BY Zenon, <1>1, <1>2, <1>3, WorkUndisturbed DEF IInv
<1>5. /\ upc'[r] = "done" /\ \A q \in Requests : q # r => upc'[q] = upc[q] /\ answer'[q] = answer[q]
      /\ answer'[r] = r /\ status[r] # "none" /\ r \in artifacts
  BY Zenon, <1>1, <1>2 DEF Publish, UGoto, Tells, IInv, Types, TypeOK, Uploading
<1>6. Uploading'
  BY Zenon, <1>1, <1>2, <1>5 DEF IInv, Uploading
<1>7. \A i \in 1..Len(topic') : status[topic'[i]] # "none"
  <2> TAKE i \in 1..Len(topic')
  <2>1. CASE i > Len(topic)
    BY Zenon, <1>3, <1>5, <2>1
  <2>2. CASE ~(i > Len(topic))
    <3>1. i \in 1..Len(topic) /\ i \in DOMAIN topic
      BY <2>2, UploadFacts DEF IInv
    <3> QED BY Zenon, <1>3, <3>1 DEF IInv, OneSubmission
  <2> QED BY Zenon, <2>1, <2>2
<1>8. \A q \in Uploads : answer'[q] # None =>
        /\ env.artifact[answer'[q]] = env.artifact[q]
        /\ status[answer'[q]] # "none" /\ answer'[q] \in artifacts
  BY Zenon, <1>1, <1>5 DEF IInv, OneSubmission
<1>9. \A i \in DOMAIN topic' : status[topic'[i]] # "none"
  BY Zenon, <1>3, <1>7
<1>10. OneSubmission'
  BY Zenon, <1>1, <1>2, <1>8, <1>9 DEF IInv, OneSubmission
<1> QED
  BY Zenon, <1>1, <1>4, <1>6, <1>10 DEF IInv

\* A restart of submission-api keeps the invariant.
LEMMA ApiCrashStep ==
    ASSUME IInv, ApiCrash
    PROVE  IInv'
<1>1. /\ env' = env /\ UNCHANGED <<answer, artifacts, status, imageRef, kafkaVars, runVars, stopping, clusterVars>>
      /\ upc' = [r \in Requests |-> "done"] /\ Uploads' = Uploads
  BY Zenon DEF ApiCrash, Uploads
<1>2. faults' \in 0..env.maxFaults
  BY Zenon, <1>1, FaultCount DEF IInv, ApiCrash, AllFaults
<1>3. Types'
  BY Zenon, <1>1, <1>2 DEF IInv, Types, TypeOK, kafkaVars, runVars, clusterVars
<1>4. topic' = topic
  BY Zenon, <1>1 DEF kafkaVars
<1>5. Fetched' /\ Vetted' /\ Repeated'
  BY <1>1, <1>4, WorkUndisturbed, UploadFacts DEF IInv
<1>6. Uploading' /\ OneSubmission'
  BY Zenon, <1>1, <1>4 DEF IInv, Uploading, OneSubmission
<1> QED
  BY Zenon, <1>3, <1>5, <1>6 DEF IInv

-----------------------------------------------------------------------------
(* Spawner.Run *)

\* What every statement of Run does and leaves alone: jobs and images advance, rows stay,
\* and the other processes stand still.
Advances(w) ==
    /\ Elsewhere /\ UNCHANGED <<staged, report>>
    /\ NoFault \/ \E k \in AllFaults : Fault(k)
    /\ wpc[w] # "fetch"
    /\ wpc' \in [Spawners -> Places] /\ waits' \in [Spawners -> [Reports -> {"running", "ok", "failed"}]]
    /\ status' \in [Requests -> Statuses \cup {"none"}]
    /\ imageRef \subseteq imageRef' /\ imageRef' \subseteq Requests
    /\ job' \in [Kinds -> [Requests -> {"none", "running", "complete", "failed"}]]
    /\ produced' \in [Requests -> Nat]
    /\ \A u \in Spawners : u # w => wpc'[u] = wpc[u] /\ waits'[u] = waits[u]
    /\ \A r \in Requests :
        /\ status'[r] = "none" <=> status[r] = "none"
        /\ produced'[r] <= staged[r]
        /\ "ttl" \notin env.faults /\ produced[r] = 1 => produced'[r] = 1
    /\ \A k \in Kinds, r \in Requests :
        /\ job[k][r] = "complete" => job'[k][r] = "complete"
        /\ job[k][r] # "none" => job'[k][r] # "none"

\* ... which leaves to each statement what is its own.
LEMMA AdvancesKeeps ==
    ASSUME IInv, NEW w \in Spawners, Advances(w),
           "ttl" \notin env.faults => (\A r \in Requests : Cluster(r)') /\ AtWork(w)',
           OnlyRepeated =>
              /\ \A k \in Kinds, r \in Requests : job'[k][r] # "failed"
              /\ \A r \in Requests : status'[r] = "ready" => ~Refused(r)
              /\ \A k \in Reports : waits'[w][k] # "failed"
              /\ wpc'[w] = "failing" => Refused(Id(w))
              /\ wpc'[w] \notin {"fetch", "precheck", "failing", "commit"} => ~Refused(Id(w))
    PROVE  IInv'
<1>1. /\ env' = env /\ UNCHANGED <<uploadVars, upc, answer, artifacts, topic, reader, pos, com, msg, stopping, staged, report>>
      /\ Uploads' = Uploads
  BY Zenon DEF Advances, Elsewhere, uploadVars, kafkaVars, Uploads
<1>2. faults' \in 0..env.maxFaults
  BY Zenon, <1>1, FaultCount DEF IInv, Advances
<1>3. \A r \in Requests : produced'[r] \in 0..staged[r]
  BY DEF Advances, IInv, Types, TypeOK
<1>4. TypeOK'
  BY Zenon, <1>1, <1>2, <1>3 DEF IInv, Types, TypeOK, Advances
<1>5. Types'
  BY Zenon, <1>1, <1>4 DEF IInv, Types, Advances
<1>6. Uploading' /\ OneSubmission'
  BY Zenon, <1>1, RowsKept DEF IInv, Advances
<1>7. Fetched'
  BY Zenon, <1>1 DEF IInv, Fetched, Advances
<1>8. \A u \in Spawners : Id(u)' = Id(u) /\ (wpc[u] # "fetch" => Id(u) \in Requests)
  BY Zenon, <1>1, IdFacts DEF IInv, Id
<1>9. Vetted'
  <2> SUFFICES ASSUME "ttl" \notin env.faults
               PROVE  \A u \in Spawners : AtWork(u)'
    BY Zenon, <1>1 DEF Vetted
  <2> TAKE u \in Spawners
  <2>1. CASE u = w
    BY Zenon, <2>1
  <2>2. CASE u # w
    <3>1. AtWork(u) /\ wpc'[u] = wpc[u] /\ waits'[u] = waits[u]
      BY Zenon, <2>2 DEF IInv, Vetted, Advances
    <3> QED BY Zenon, <1>8, <3>1, StaysAtWork DEF Advances
  <2> QED BY Zenon, <2>1, <2>2
<1>10. Repeated'
  <2> SUFFICES ASSUME OnlyRepeated
               PROVE  Repeated'
    BY Zenon, <1>1 DEF Repeated, OnlyRepeated
  <2>1. \A r : Refused(r)' = Refused(r)
    BY Zenon, <1>1 DEF Refused
  <2>2. \A u \in Spawners : u # w =>
          /\ \A k \in Reports : waits'[u][k] # "failed"
          /\ wpc'[u] = "failing" => Refused(Id(u))
          /\ wpc'[u] \notin {"fetch", "precheck", "failing", "commit"} => ~Refused(Id(u))
    BY DEF IInv, Repeated, Advances
  <2> QED BY Zenon, <1>1, <1>8, <2>1, <2>2 DEF IInv, Repeated
<1> QED
  BY Zenon, <1>5, <1>6, <1>7, <1>9, <1>10 DEF IInv

\* A statement that only moves on, or counts a wait.
LEMMA MovesAdvance ==
    ASSUME IInv, NEW w \in Spawners, wpc[w] # "fetch", Elsewhere, UNCHANGED <<status, imageRef, clusterVars>>,
           NoFault \/ \E k \in AllFaults : Fault(k),
           wpc' \in [Spawners -> Places], waits' \in [Spawners -> [Reports -> {"running", "ok", "failed"}]],
           \A u \in Spawners : u # w => wpc'[u] = wpc[u] /\ waits'[u] = waits[u]
    PROVE  /\ Advances(w) /\ Id(w)' = Id(w) /\ Id(w) \in Requests /\ env' = env
           /\ "ttl" \notin env.faults => \A r \in Requests : Cluster(r)'
           /\ OnlyRepeated =>
              /\ \A k \in Kinds, r \in Requests : job'[k][r] # "failed"
              /\ \A r \in Requests : status'[r] = "ready" => ~Refused(r)
              /\ stopping = {}
<1>1. UNCHANGED <<env, job, staged, produced, report, topic, msg>>
  BY Zenon DEF clusterVars, Elsewhere, kafkaVars
<1>2. \A r \in Requests : produced[r] <= staged[r]
  BY DEF IInv, Types, TypeOK
<1>3. Advances(w)
  BY Zenon, <1>1, <1>2 DEF IInv, Types, TypeOK, Advances
<1>4. Id(w)' = Id(w) /\ Id(w) \in Requests
  BY Zenon, <1>1, IdFacts DEF IInv, Id
<1>5. "ttl" \notin env.faults => \A r \in Requests : Cluster(r)'
  BY Zenon, <1>1 DEF IInv, Vetted, Cluster
<1> QED
  BY Zenon, <1>1, <1>3, <1>4, <1>5 DEF IInv, Repeated

\* Where only deliveries are repeated, no call of Run errs.
LEMMA NothingErrs ==
    ASSUME IInv, OnlyRepeated, NEW w \in Spawners, NEW kinds,
           kinds \subseteq {"minio", "k8s", "registry", "db"}
    PROVE  ~Errs(w, kinds)
  BY Zenon DEF IInv, Repeated, OnlyRepeated, Errs, Fault

\* An error of a build is one fault, or none.
LEMMA ErrsCounts ==
    ASSUME NEW w, NEW kinds, kinds \subseteq {"minio", "k8s", "registry", "db"},
           Errs(w, kinds) \/ Works(w)
    PROVE  NoFault \/ \E k \in AllFaults : Fault(k)
  BY Zenon DEF Errs, Works, AllFaults

\* A change of a worker's place.
LEMMA GotoFacts ==
    ASSUME IInv, NEW w \in Spawners, NEW pc \in Places, Goto(w, pc)
    PROVE  /\ wpc' \in [Spawners -> Places] /\ wpc'[w] = pc
           /\ \A u \in Spawners : u # w => wpc'[u] = wpc[u]
  BY Zenon DEF IInv, Types, TypeOK, Goto

\* The check of the submission's status keeps the invariant.
LEMMA PrecheckStep ==
    ASSUME IInv, NEW w \in Spawners, Precheck(w)
    PROVE  IInv'
<1>1. PICK pc \in {"failing", "begin"} : Goto(w, pc)
  BY Zenon DEF Precheck
<1>2. /\ wpc[w] = "precheck" /\ Elsewhere /\ UNCHANGED <<status, imageRef, waits, clusterVars>>
      /\ Works(w) \/ Errs(w, {"minio"})
  BY Zenon DEF Precheck, At
<1>3. NoFault \/ \E k \in AllFaults : Fault(k)
  BY Zenon, <1>2, ErrsCounts
<1>4. wpc' \in [Spawners -> Places] /\ wpc'[w] = pc /\ \A u \in Spawners : u # w => wpc'[u] = wpc[u]
  BY Zenon, <1>1, GotoFacts DEF Places
<1>5. waits \in [Spawners -> [Reports -> {"running", "ok", "failed"}]]
  BY Zenon DEF IInv, Types, TypeOK
<1>6. /\ Advances(w) /\ Id(w)' = Id(w) /\ Id(w) \in Requests /\ env' = env
      /\ "ttl" \notin env.faults => \A r \in Requests : Cluster(r)'
      /\ OnlyRepeated =>
         /\ \A k \in Kinds, r \in Requests : job'[k][r] # "failed"
         /\ \A r \in Requests : status'[r] = "ready" => ~Refused(r)
  BY Zenon, <1>2, <1>3, <1>4, <1>5, MovesAdvance
<1>7. "ttl" \notin env.faults => AtWork(w)'
  <2>1. UNCHANGED <<waits, job, produced, imageRef>>
    BY Zenon, <1>2 DEF clusterVars
  <2> QED BY <1>2, <1>4, <1>6, <2>1 DEF IInv, Vetted, AtWork
<1>8. OnlyRepeated => /\ \A k \in Reports : waits'[w][k] # "failed"
                      /\ wpc'[w] = "failing" => Refused(Id(w))
                      /\ wpc'[w] = "begin" => ~Refused(Id(w))
  <2> SUFFICES ASSUME OnlyRepeated PROVE /\ \A k \in Reports : waits[w][k] # "failed"
                                         /\ wpc'[w] = "failing" <=> Refused(Id(w))
    BY Zenon, <1>1, <1>2, <1>4
  <2>1. ~Errs(w, {"minio"})
    BY Zenon, NothingErrs
  <2>2. Goto(w, IF Refused(Id(w)) THEN "failing" ELSE "begin")
    BY Zenon, <2>1 DEF Precheck, Refused
  <2>3. wpc'[w] = IF Refused(Id(w)) THEN "failing" ELSE "begin"
    BY Zenon, <2>2, GotoFacts DEF Places
  <2> QED BY Zenon, <2>3 DEF IInv, Repeated
<1> QED
  BY Zenon, <1>1, <1>4, <1>6, <1>7, <1>8, AdvancesKeeps

\* Waiting for the build job keeps the invariant.
LEMMA WaitBuildStep ==
    ASSUME IInv, NEW w \in Spawners, WaitBuild(w)
    PROVE  IInv'
<1>1. /\ wpc[w] = "build" /\ Elsewhere /\ UNCHANGED <<status, imageRef, waits, clusterVars>>
      /\ \/ WaitOk(w, "build") /\ Goto(w, "scan")
         \/ WaitErrs(w, "build") /\ Goto(w, "failing")
  BY Zenon DEF WaitBuild, At
<1>2. NoFault \/ \E k \in AllFaults : Fault(k)
  BY Zenon, <1>1, ErrsCounts DEF WaitOk, WaitErrs
<1>3. /\ wpc' \in [Spawners -> Places] /\ \A u \in Spawners : u # w => wpc'[u] = wpc[u]
      /\ wpc'[w] \in {"scan", "failing"} /\ (wpc'[w] = "scan" => job["build"][Id(w)] = "complete")
      /\ wpc'[w] = "failing" => WaitErrs(w, "build")
  BY Zenon, <1>1, GotoFacts DEF Places, WaitOk
<1>4. waits \in [Spawners -> [Reports -> {"running", "ok", "failed"}]]
  BY Zenon DEF IInv, Types, TypeOK
<1>5. /\ Advances(w) /\ Id(w)' = Id(w) /\ Id(w) \in Requests /\ env' = env
      /\ "ttl" \notin env.faults => \A r \in Requests : Cluster(r)'
      /\ OnlyRepeated =>
         /\ \A k \in Kinds, r \in Requests : job'[k][r] # "failed"
         /\ \A r \in Requests : status'[r] = "ready" => ~Refused(r)
  BY Zenon, <1>1, <1>2, <1>3, <1>4, MovesAdvance
<1>6. UNCHANGED <<waits, job, produced, imageRef>>
  BY Zenon, <1>1 DEF clusterVars
<1>7. "ttl" \notin env.faults => AtWork(w)'
  BY <1>1, <1>3, <1>5, <1>6 DEF IInv, Vetted, AtWork
<1>8. OnlyRepeated => /\ \A k \in Reports : waits'[w][k] # "failed"
                      /\ wpc'[w] # "failing" /\ ~Refused(Id(w))
  <2> SUFFICES ASSUME OnlyRepeated PROVE wpc'[w] # "failing"
    BY Zenon, <1>1, <1>6 DEF IInv, Repeated
  <2>1. ~Errs(w, {"k8s"})
    BY Zenon, NothingErrs
  <2>2. job["build"][Id(w)] \notin {"failed", "none"}
    <3>1. "ttl" \notin env.faults
      BY Zenon DEF OnlyRepeated
    <3> QED BY <1>1, <1>5, <3>1 DEF IInv, Repeated, Vetted, AtWork, Kinds
  <2> QED BY Zenon, <1>3, <2>1, <2>2 DEF WaitErrs
<1> QED
  BY Zenon, <1>3, <1>5, <1>7, <1>8, AdvancesKeeps

\* Waiting for the reports keeps the invariant.
LEMMA WaitReportStep ==
    ASSUME IInv, NEW w \in Spawners, NEW k \in Reports, WaitReport(w, k)
    PROVE  IInv'
<1>1. /\ wpc[w] = "vet" /\ Elsewhere /\ UNCHANGED <<status, imageRef, wpc, clusterVars>>
      /\ \/ WaitOk(w, k) /\ waits' = [waits EXCEPT ![w][k] = "ok"]
         \/ WaitErrs(w, k) /\ waits' = [waits EXCEPT ![w][k] = "failed"]
  BY Zenon DEF WaitReport, At
<1>2. NoFault \/ \E f \in AllFaults : Fault(f)
  BY Zenon, <1>1, ErrsCounts DEF WaitOk, WaitErrs
<1>3. /\ waits' \in [Spawners -> [Reports -> {"running", "ok", "failed"}]]
      /\ \A u \in Spawners : u # w => waits'[u] = waits[u]
      /\ \A j \in Reports : j # k => waits'[w][j] = waits[w][j]
      /\ \/ WaitOk(w, k) /\ waits'[w][k] = "ok"
         \/ WaitErrs(w, k) /\ waits'[w][k] = "failed"
  <2>1. PICK v \in {"ok", "failed"} :
          /\ waits' = [waits EXCEPT ![w][k] = v]
          /\ v = "ok" => WaitOk(w, k)
          /\ v = "failed" => WaitErrs(w, k)
    BY Zenon, <1>1
  <2>2. waits \in [Spawners -> [Reports -> {"running", "ok", "failed"}]]
    BY Zenon DEF IInv, Types, TypeOK
  <2>3. waits' \in [Spawners -> [Reports -> {"running", "ok", "failed"}]] /\ waits'[w][k] = v
    BY Zenon, <2>1, <2>2
  <2> QED BY Zenon, <2>1, <2>2, <2>3
<1>4. wpc \in [Spawners -> Places]
  BY Zenon DEF IInv, Types, TypeOK
<1>5. /\ Advances(w) /\ Id(w)' = Id(w) /\ Id(w) \in Requests /\ env' = env
      /\ "ttl" \notin env.faults => \A r \in Requests : Cluster(r)'
      /\ OnlyRepeated =>
         /\ \A f \in Kinds, r \in Requests : job'[f][r] # "failed"
         /\ \A r \in Requests : status'[r] = "ready" => ~Refused(r)
  BY Zenon, <1>1, <1>2, <1>3, <1>4, MovesAdvance
<1>6. UNCHANGED <<job, produced, imageRef>>
  BY Zenon, <1>1 DEF clusterVars
<1>7. "ttl" \notin env.faults => AtWork(w)'
  <2> SUFFICES ASSUME "ttl" \notin env.faults PROVE AtWork(w)'
    BY Zenon
  <2>1. AtWork(w)
    BY Zenon DEF IInv, Vetted
  <2>2. \A j \in Reports : waits'[w][j] = "ok" => job[j][Id(w)] = "complete"
    BY Zenon, <1>3, <2>1 DEF AtWork, WaitOk
  <2> QED BY Zenon, <1>1, <1>5, <1>6, <2>1, <2>2 DEF AtWork
<1>8. OnlyRepeated => /\ \A j \in Reports : waits'[w][j] # "failed"
                      /\ ~Refused(Id(w))
  <2> SUFFICES ASSUME OnlyRepeated PROVE waits'[w][k] # "failed"
    BY <1>1, <1>3 DEF IInv, Repeated
  <2>1. ~Errs(w, {"k8s"})
    BY Zenon, NothingErrs
  <2>2. job[k][Id(w)] \notin {"failed", "none"}
    <3>1. "ttl" \notin env.faults
      BY Zenon DEF OnlyRepeated
    <3> QED BY <1>1, <1>5, <3>1 DEF IInv, Repeated, Vetted, AtWork, Kinds, Reports
  <2> QED BY Zenon, <1>3, <2>1, <2>2 DEF WaitErrs
<1> QED
  BY Zenon, <1>1, <1>5, <1>7, <1>8, AdvancesKeeps

\* Joining the reports keeps the invariant.
LEMMA JoinReportsStep ==
    ASSUME IInv, NEW w \in Spawners, JoinReports(w)
    PROVE  IInv'
<1>1. /\ wpc[w] = "vet" /\ Elsewhere /\ UNCHANGED <<status, imageRef, clusterVars>> /\ NoFault
      /\ Goto(w, Phase2Outcome(w)) /\ \A k \in Reports : waits[w][k] # "running"
      /\ waits' = [waits EXCEPT ![w] = [k \in Reports |-> "running"]]
  BY Zenon DEF JoinReports, At
<1>2. /\ Phase2Outcome(w) \in {"failing", "mark"}
      /\ Phase2Outcome(w) = "mark" => \A k \in Reports : waits[w][k] = "ok"
      /\ (\A k \in Reports : waits[w][k] # "failed") => Phase2Outcome(w) = "mark"
  BY Zenon, <1>1 DEF Phase2Outcome, IInv, Types, TypeOK
<1>3. /\ wpc' \in [Spawners -> Places] /\ \A u \in Spawners : u # w => wpc'[u] = wpc[u]
      /\ wpc'[w] = Phase2Outcome(w)
  BY Zenon, <1>1, <1>2, GotoFacts DEF Places
<1>4. /\ waits' \in [Spawners -> [Reports -> {"running", "ok", "failed"}]]
      /\ \A u \in Spawners : u # w => waits'[u] = waits[u]
      /\ \A k \in Reports : waits'[w][k] = "running"
  BY Zenon, <1>1 DEF IInv, Types, TypeOK
<1>5. /\ Advances(w) /\ Id(w)' = Id(w) /\ Id(w) \in Requests /\ env' = env
      /\ "ttl" \notin env.faults => \A r \in Requests : Cluster(r)'
      /\ OnlyRepeated =>
         /\ \A f \in Kinds, r \in Requests : job'[f][r] # "failed"
         /\ \A r \in Requests : status'[r] = "ready" => ~Refused(r)
  BY <1>1, <1>3, <1>4, MovesAdvance
<1>6. UNCHANGED <<job, produced, imageRef>>
  BY Zenon, <1>1 DEF clusterVars
<1>7. "ttl" \notin env.faults => AtWork(w)'
  BY <1>1, <1>2, <1>3, <1>4, <1>5, <1>6 DEF IInv, Vetted, AtWork
<1>8. OnlyRepeated => /\ \A k \in Reports : waits'[w][k] # "failed"
                      /\ wpc'[w] = "mark" /\ ~Refused(Id(w))
  BY Zenon, <1>1, <1>2, <1>3, <1>4 DEF IInv, Repeated
<1> QED
  BY Zenon, <1>3, <1>5, <1>7, <1>8, AdvancesKeeps

\* What SetStatus writes.
LEMMA StatusFacts ==
    ASSUME IInv, NEW w \in Spawners, wpc[w] # "fetch", NEW new \in {"building", "scanned", "ready", "failed"},
           SetStatus(w, new)
    PROVE  /\ status' \in [Requests -> Statuses \cup {"none"}]
           /\ \A r \in Requests : r # Id(w) => status'[r] = status[r]
           /\ status'[Id(w)] = new \/ status'[Id(w)] = status[Id(w)]
           /\ status[Id(w)] = "ready" /\ new # "failed" => status'[Id(w)] = "ready"
           /\ \A r \in Requests : status'[r] = "none" <=> status[r] = "none"
           /\ NoFault \/ \E k \in AllFaults : Fault(k)
<1>1. Id(w) \in Requests /\ status[Id(w)] # "none"
  <2>1. Id(w) \in Requests /\ msg[w] \in DOMAIN topic
    BY Zenon, IdFacts, UploadFacts DEF IInv
  <2> QED BY Zenon, <2>1 DEF IInv, OneSubmission, Id
<1>2. status \in [Requests -> Statuses \cup {"none"}]
  BY Zenon DEF IInv, Types, TypeOK
<1>3. \/ status' = status
      \/ status' = [status EXCEPT ![Id(w)] = new] /\ Accepts(status[Id(w)], new)
  BY Zenon DEF SetStatus
<1>4. status[Id(w)] = "ready" /\ new # "failed" /\ Accepts(status[Id(w)], new) => new = "ready"
  BY DEF Accepts, Rank
<1>5. NoFault \/ \E k \in AllFaults : Fault(k)
  BY Zenon DEF SetStatus, AllFaults
<1> QED
  BY Zenon, <1>1, <1>2, <1>3, <1>4, <1>5 DEF Statuses

\* setStatus between two statements: the rank keeps a ready row from anything but a
\* failure.
LEMMA MarksStep ==
    ASSUME IInv, NEW w \in Spawners,
           \/ Marks(w, "begin", "building", "create")
           \/ Marks(w, "mark", "scanned", "promote")
           \/ Marks(w, "ready", "ready", "commit")
           \/ Marks(w, "failing", "failed", "commit")
    PROVE  IInv'
<1>1. PICK at \in Places, new \in {"building", "scanned", "ready", "failed"}, next \in Places :
        /\ Marks(w, at, new, next)
        /\ <<at, new, next>> \in {<<"begin", "building", "create">>, <<"mark", "scanned", "promote">>,
                                  <<"ready", "ready", "commit">>, <<"failing", "failed", "commit">>}
  BY Zenon DEF Places
<1>2. /\ wpc[w] = at /\ SetStatus(w, new) /\ Goto(w, next) /\ wpc[w] # "fetch"
      /\ Elsewhere /\ UNCHANGED <<imageRef, waits, clusterVars>>
  BY Zenon, <1>1 DEF Marks, At
<1>3. /\ status' \in [Requests -> Statuses \cup {"none"}]
      /\ \A r \in Requests : r # Id(w) => status'[r] = status[r]
      /\ status'[Id(w)] = new \/ status'[Id(w)] = status[Id(w)]
      /\ \A r \in Requests : status'[r] = "none" <=> status[r] = "none"
      /\ NoFault \/ \E k \in AllFaults : Fault(k)
  BY Zenon, <1>2, StatusFacts
<1>4. /\ wpc' \in [Spawners -> Places] /\ \A u \in Spawners : u # w => wpc'[u] = wpc[u]
      /\ wpc'[w] = next
  BY Zenon, <1>2, GotoFacts
<1>5. UNCHANGED <<env, job, staged, produced, report, waits, imageRef>> /\ Id(w)' = Id(w) /\ Id(w) \in Requests
  BY Zenon, <1>2, IdFacts DEF IInv, clusterVars, Elsewhere, kafkaVars, Id
<1>6. Advances(w)
  <2>1. \A r \in Requests : produced[r] <= staged[r]
    BY DEF IInv, Types, TypeOK
  <2> QED BY Zenon, <1>2, <1>3, <1>4, <1>5, <2>1 DEF IInv, Types, TypeOK, Advances
<1>7. "ttl" \notin env.faults => (\A r \in Requests : Cluster(r)') /\ AtWork(w)'
  <2> SUFFICES ASSUME "ttl" \notin env.faults
               PROVE  (\A r \in Requests : Cluster(r)') /\ AtWork(w)'
    BY Zenon
  <2>1. AtWork(w) /\ \A r \in Requests : Cluster(r)
    BY Zenon DEF IInv, Vetted
  <2>2. new = "ready" => Id(w) \in imageRef /\ produced[Id(w)] = 1 /\ \A k \in Reports : job[k][Id(w)] = "complete"
    BY Zenon, <1>1, <1>2, <2>1 DEF AtWork
  <2>3. \A r \in Requests : status'[r] = "ready" =>
          r \in imageRef /\ produced[r] = 1 /\ \A k \in Reports : job[k][r] = "complete"
    BY <1>3, <2>1, <2>2 DEF Cluster
  <2>4. \A r \in Requests : Cluster(r)'
    BY Zenon, <1>5, <2>1, <2>3 DEF Cluster
  <2>5. AtWork(w)'
    BY Zenon, <1>1, <1>2, <1>4, <1>5, <2>1 DEF AtWork
  <2> QED BY Zenon, <2>4, <2>5
<1>8. OnlyRepeated =>
         /\ \A k \in Kinds, r \in Requests : job'[k][r] # "failed"
         /\ \A r \in Requests : status'[r] = "ready" => ~Refused(r)
         /\ \A k \in Reports : waits'[w][k] # "failed"
         /\ wpc'[w] # "failing"
         /\ wpc'[w] # "commit" => ~Refused(Id(w))
  <2> SUFFICES ASSUME OnlyRepeated
               PROVE  /\ \A r \in Requests : status'[r] = "ready" => ~Refused(r)
                      /\ next # "commit" => ~Refused(Id(w))
    BY Zenon, <1>1, <1>4, <1>5 DEF IInv, Repeated
  <2>1. new # "failed" => ~Refused(Id(w))
    BY Zenon, <1>1, <1>2 DEF IInv, Repeated
  <2>2. \A r \in Requests : status[r] = "ready" => ~Refused(r)
    BY Zenon DEF IInv, Repeated
  <2> QED BY Zenon, <1>1, <1>3, <2>1, <2>2
<1> QED
  BY Zenon, <1>4, <1>6, <1>7, <1>8, AdvancesKeeps

\* What CreateJob changes.
LEMMA JobFacts ==
    ASSUME IInv, NEW k \in Kinds, NEW id \in Requests, job' = job \/ CreateJob(k, id)
    PROVE  /\ job' \in [Kinds -> [Requests -> {"none", "running", "complete", "failed"}]]
           /\ \A j \in Kinds, r \in Requests :
                \/ job'[j][r] = job[j][r]
                \/ j = k /\ r = id /\ job[j][r] = "none" /\ job'[j][r] = "running"
           /\ CreateJob(k, id) => job'[k][id] # "none"
<1>1. job \in [Kinds -> [Requests -> {"none", "running", "complete", "failed"}]]
  BY Zenon DEF IInv, Types, TypeOK
<1>2. CASE job' = job /\ ~CreateJob(k, id)
  BY Zenon, <1>1, <1>2
<1>3. CASE CreateJob(k, id) /\ job[k][id] = "none"
  <2>1. job' = [job EXCEPT ![k][id] = "running"]
    BY Zenon, <1>3 DEF CreateJob
  <2>2. job'[k][id] = "running"
    BY Zenon, <1>1, <2>1
  <2> QED BY Zenon, <1>1, <1>3, <2>1, <2>2
<1>4. CASE CreateJob(k, id) /\ job[k][id] # "none"
  BY Zenon, <1>1, <1>4 DEF CreateJob
<1> QED
  BY Zenon, <1>2, <1>3, <1>4

\* createJob for the build, the scan or the sbom: the reports come after the image.
LEMMA CreatesStep ==
    ASSUME IInv, NEW w \in Spawners,
           \/ Creates(w, "create", "build", {"k8s", "registry"}, "build")
           \/ Creates(w, "scan", "scan", {"k8s"}, "sbom")
           \/ Creates(w, "sbom", "sbom", {"k8s"}, "vet")
    PROVE  IInv'
<1>1. PICK at \in Places, k \in Kinds, kinds \in {{"k8s", "registry"}, {"k8s"}}, next \in Places :
        /\ Creates(w, at, k, kinds, next)
        /\ <<at, k, next>> \in {<<"create", "build", "build">>, <<"scan", "scan", "sbom">>,
                                <<"sbom", "sbom", "vet">>}
  BY Zenon DEF Places, Kinds, Reports
<1>2. /\ wpc[w] = at /\ wpc[w] # "fetch"
      /\ Elsewhere /\ UNCHANGED <<status, imageRef, waits, staged, produced, report>>
      /\ \/ Works(w) /\ CreateJob(k, Id(w)) /\ Goto(w, next)
         \/ Errs(w, kinds) /\ Goto(w, "failing") /\ (job' = job \/ CreateJob(k, Id(w)))
  BY Zenon, <1>1 DEF Creates, At
<1>3. NoFault \/ \E f \in AllFaults : Fault(f)
  BY Zenon, <1>1, <1>2, ErrsCounts
<1>4. env' = env /\ Id(w)' = Id(w) /\ Id(w) \in Requests
  BY Zenon, <1>2, IdFacts DEF IInv, Elsewhere, kafkaVars, Id
<1>5. /\ job' \in [Kinds -> [Requests -> {"none", "running", "complete", "failed"}]]
      /\ \A j \in Kinds, r \in Requests :
           \/ job'[j][r] = job[j][r]
           \/ j = k /\ r = Id(w) /\ job[j][r] = "none" /\ job'[j][r] = "running"
      /\ CreateJob(k, Id(w)) => job'[k][Id(w)] # "none"
  BY <1>2, <1>4, JobFacts
<1>6. /\ wpc' \in [Spawners -> Places] /\ \A u \in Spawners : u # w => wpc'[u] = wpc[u]
      /\ \/ wpc'[w] = next /\ job'[k][Id(w)] # "none"
         \/ wpc'[w] = "failing" /\ Errs(w, kinds)
  <2>1. "failing" \in Places
    BY Zenon DEF Places
  <2> QED BY Zenon, <1>2, <1>5, <2>1, GotoFacts
<1>7. Advances(w)
  <2>1. \A r \in Requests : produced[r] <= staged[r]
    BY DEF IInv, Types, TypeOK
  <2>2. \A j \in Kinds, r \in Requests :
          /\ job[j][r] = "complete" => job'[j][r] = "complete"
          /\ job[j][r] # "none" => job'[j][r] # "none"
    BY Zenon, <1>5
  <2> QED BY Zenon, <1>2, <1>3, <1>5, <1>6, <2>1, <2>2 DEF IInv, Types, TypeOK, Advances
<1>8. "ttl" \notin env.faults => (\A r \in Requests : Cluster(r)') /\ AtWork(w)'
  <2> SUFFICES ASSUME "ttl" \notin env.faults
               PROVE  (\A r \in Requests : Cluster(r)') /\ AtWork(w)'
    BY Zenon
  <2>1. AtWork(w) /\ \A r \in Requests : Cluster(r)
    BY Zenon DEF IInv, Vetted
  <2>2. \A j \in Kinds, r \in Requests :
          /\ job'[j][r] = "complete" <=> job[j][r] = "complete"
          /\ job[j][r] # "none" => job'[j][r] # "none"
    BY Zenon, <1>5
  <2>3. \A r \in Requests : \A j \in Reports : job'[j][r] # "none" => job["build"][r] = "complete"
    BY <1>1, <1>2, <1>5, <2>1 DEF Cluster, AtWork, Kinds, Reports
  <2>4. ASSUME NEW r \in Requests PROVE Cluster(r)'
    <3>1. Cluster(r) /\ UNCHANGED <<env, staged, produced, report, status, imageRef>>
      BY Zenon, <1>2, <1>4, <2>1
    <3>2. job'["build"][r] = "complete" <=> job["build"][r] = "complete"
      BY Zenon, <2>2 DEF Kinds
    <3>3. \A j \in Reports :
            /\ job'[j][r] = "complete" <=> job[j][r] = "complete"
            /\ job'[j][r] # "none" => job["build"][r] = "complete"
      BY Zenon, <2>2, <2>3 DEF Kinds
    <3> QED BY Zenon, <3>1, <3>2, <3>3 DEF Cluster
  <2>5. AtWork(w)'
    BY <1>1, <1>2, <1>4, <1>6, <2>1, <2>2 DEF AtWork, Kinds, Reports
  <2> QED BY Zenon, <2>4, <2>5
<1>9. OnlyRepeated =>
         /\ \A j \in Kinds, r \in Requests : job'[j][r] # "failed"
         /\ \A r \in Requests : status'[r] = "ready" => ~Refused(r)
         /\ \A j \in Reports : waits'[w][j] # "failed"
         /\ wpc'[w] # "failing" /\ ~Refused(Id(w))
  <2> SUFFICES ASSUME OnlyRepeated
               PROVE  /\ \A j \in Kinds, r \in Requests : job'[j][r] # "failed"
                      /\ wpc'[w] # "failing" /\ ~Refused(Id(w))
    BY Zenon, <1>2 DEF IInv, Repeated
  <2>1. \A j \in Kinds, r \in Requests : job'[j][r] # "failed"
    BY <1>5 DEF IInv, Repeated
  <2>2. ~Errs(w, kinds)
    BY Zenon, <1>1, NothingErrs
  <2>3. ~Refused(Id(w))
    BY Zenon, <1>1, <1>2 DEF IInv, Repeated
  <2> QED BY Zenon, <1>1, <1>6, <2>1, <2>2, <2>3
<1> QED
  BY Zenon, <1>6, <1>7, <1>8, <1>9, AdvancesKeeps

\* crane.Copy: the one image there is, and it was scanned.
LEMMA PromoteStep ==
    ASSUME IInv, NEW w \in Spawners, Promote(w)
    PROVE  IInv'
<1>1. /\ wpc[w] = "promote" /\ Elsewhere /\ UNCHANGED <<status, imageRef, waits, job, staged, report>>
      /\ \/ env.ecr /\ NoFault /\ Goto(w, "record") /\ UNCHANGED produced
         \/ Works(w) /\ Goto(w, "record") /\ Copies(Id(w))
         \/ Errs(w, {"registry"}) /\ Goto(w, "failing") /\ (UNCHANGED produced \/ Copies(Id(w)))
  BY Zenon DEF Promote, At
<1>2. NoFault \/ \E f \in AllFaults : Fault(f)
  BY Zenon, <1>1, ErrsCounts
<1>3. env' = env /\ Id(w)' = Id(w) /\ Id(w) \in Requests
  BY Zenon, <1>1, IdFacts DEF IInv, Elsewhere, kafkaVars, Id
<1>4. /\ produced \in [Requests -> Nat] /\ staged \in [Requests -> Nat]
      /\ \A r \in Requests : produced[r] \in 0..staged[r]
  BY Zenon DEF IInv, Types, TypeOK
<1>5. /\ produced' \in [Requests -> Nat]
      /\ \A r \in Requests : r # Id(w) => produced'[r] = produced[r]
      /\ produced'[Id(w)] \in {produced[Id(w)], staged[Id(w)]}
  BY Zenon, <1>1, <1>3, <1>4 DEF Copies
<1>6. /\ wpc' \in [Spawners -> Places] /\ \A u \in Spawners : u # w => wpc'[u] = wpc[u]
      /\ \/ wpc'[w] = "record" /\ ((env.ecr /\ produced' = produced) \/ Copies(Id(w)))
         \/ wpc'[w] = "failing" /\ Errs(w, {"registry"})
  BY Zenon, <1>1, GotoFacts DEF Places
<1>7. \A r \in Requests : produced'[r] <= staged[r]
  BY <1>4, <1>5
<1>8. "ttl" \notin env.faults => (\A r \in Requests : Cluster(r)') /\ AtWork(w)'
  <2> SUFFICES ASSUME "ttl" \notin env.faults
               PROVE  (\A r \in Requests : Cluster(r)') /\ AtWork(w)'
    BY Zenon
  <2>1. AtWork(w) /\ \A r \in Requests : Cluster(r)
    BY Zenon DEF IInv, Vetted
  <2>2. staged[Id(w)] = 1
    BY Zenon, <1>1, <1>3, <2>1 DEF Cluster, AtWork
  <2>3. produced'[Id(w)] \in {produced[Id(w)], 1}
    BY Zenon, <1>5, <2>2
  <2>4. \A r \in Requests : Cluster(r)'
    BY Zenon, <1>1, <1>3, <1>5, <2>1, <2>2, <2>3 DEF Cluster
  <2>5. wpc'[w] = "record" => produced'[Id(w)] = 1
    <3>1. env.ecr => produced[Id(w)] = 1
      BY Zenon, <1>3, <2>1, <2>2 DEF Cluster
    <3>2. Copies(Id(w)) => produced'[Id(w)] = 1
      BY Zenon, <1>3, <1>4, <2>2 DEF Copies
    <3> QED BY <1>6, <3>1, <3>2
  <2>6. AtWork(w)'
    BY Zenon, <1>1, <1>3, <1>6, <2>1, <2>5 DEF AtWork
  <2> QED BY Zenon, <2>4, <2>6
<1>9. "ttl" \notin env.faults => \A r \in Requests : produced[r] = 1 => produced'[r] = 1
  <2> SUFFICES ASSUME "ttl" \notin env.faults PROVE staged[Id(w)] = 1
    BY Zenon, <1>5
  <2>1. Cluster(Id(w)) /\ AtWork(w)
    BY Zenon, <1>3 DEF IInv, Vetted
  <2> QED BY Zenon, <1>1, <2>1 DEF Cluster, AtWork
<1>10. Advances(w)
  BY Zenon, <1>1, <1>2, <1>5, <1>6, <1>7, <1>9 DEF IInv, Types, TypeOK, Advances
<1>11. OnlyRepeated =>
         /\ \A j \in Kinds, r \in Requests : job'[j][r] # "failed"
         /\ \A r \in Requests : status'[r] = "ready" => ~Refused(r)
         /\ \A j \in Reports : waits'[w][j] # "failed"
         /\ wpc'[w] # "failing" /\ ~Refused(Id(w))
  <2> SUFFICES ASSUME OnlyRepeated PROVE wpc'[w] # "failing"
    BY Zenon, <1>1 DEF IInv, Repeated
  <2>1. ~Errs(w, {"registry"})
    BY Zenon, NothingErrs
  <2> QED BY Zenon, <1>6, <2>1
<1> QED
  BY Zenon, <1>6, <1>8, <1>10, <1>11, AdvancesKeeps

\* UpdateImageRef keeps the invariant.
LEMMA RecordStep ==
    ASSUME IInv, NEW w \in Spawners, Record(w)
    PROVE  IInv'
<1>1. /\ wpc[w] = "record" /\ Elsewhere /\ UNCHANGED <<status, waits, clusterVars>>
      /\ \/ imageRef' = imageRef \cup {Id(w)} /\ Goto(w, "ready")
         \/ Errs(w, {"db"}) /\ Goto(w, "failing") /\ UNCHANGED imageRef
      /\ Works(w) \/ Errs(w, {"db"})
  BY Zenon DEF Record, At
<1>2. NoFault \/ \E f \in AllFaults : Fault(f)
  BY Zenon, <1>1, ErrsCounts
<1>3. /\ env' = env /\ Id(w)' = Id(w) /\ Id(w) \in Requests
      /\ UNCHANGED <<job, staged, produced, report>>
  BY Zenon, <1>1, IdFacts DEF IInv, Elsewhere, kafkaVars, Id, clusterVars
<1>4. /\ wpc' \in [Spawners -> Places] /\ \A u \in Spawners : u # w => wpc'[u] = wpc[u]
      /\ \/ wpc'[w] = "ready" /\ Id(w) \in imageRef'
         \/ wpc'[w] = "failing" /\ Errs(w, {"db"})
  BY Zenon, <1>1, GotoFacts DEF Places
<1>5. imageRef \subseteq imageRef' /\ imageRef' \subseteq Requests
  BY Zenon, <1>1, <1>3 DEF IInv, Types, TypeOK
<1>6. Advances(w)
  <2>1. \A r \in Requests : produced[r] <= staged[r]
    BY DEF IInv, Types, TypeOK
  <2> QED BY Zenon, <1>1, <1>2, <1>3, <1>4, <1>5, <2>1 DEF IInv, Types, TypeOK, Advances
<1>7. "ttl" \notin env.faults => (\A r \in Requests : Cluster(r)') /\ AtWork(w)'
  <2> SUFFICES ASSUME "ttl" \notin env.faults
               PROVE  (\A r \in Requests : Cluster(r)') /\ AtWork(w)'
    BY Zenon
  <2>1. AtWork(w) /\ \A r \in Requests : Cluster(r)
    BY Zenon DEF IInv, Vetted
  <2>2. \A r \in Requests : Cluster(r)'
    BY Zenon, <1>1, <1>3, <1>5, <2>1 DEF Cluster
  <2>3. AtWork(w)'
    BY Zenon, <1>1, <1>3, <1>4, <2>1 DEF AtWork
  <2> QED BY Zenon, <2>2, <2>3
<1>8. OnlyRepeated =>
         /\ \A j \in Kinds, r \in Requests : job'[j][r] # "failed"
         /\ \A r \in Requests : status'[r] = "ready" => ~Refused(r)
         /\ \A j \in Reports : waits'[w][j] # "failed"
         /\ wpc'[w] # "failing" /\ ~Refused(Id(w))
  <2> SUFFICES ASSUME OnlyRepeated PROVE wpc'[w] # "failing"
    BY Zenon, <1>1, <1>3 DEF IInv, Repeated
  <2>1. ~Errs(w, {"db"})
    BY Zenon, NothingErrs
  <2> QED BY Zenon, <1>4, <2>1
<1> QED
  BY Zenon, <1>4, <1>6, <1>7, <1>8, AdvancesKeeps

\* Every step of a build keeps the invariant.
LEMMA RunStep ==
    ASSUME IInv, NEW w \in Spawners, Run(w)
    PROVE  IInv'
  BY Zenon, PrecheckStep, MarksStep, CreatesStep, WaitBuildStep, WaitReportStep, JoinReportsStep,
     PromoteStep, RecordStep DEF Run

-----------------------------------------------------------------------------
(* Processes and cluster *)

\* A process that fetches, commits, stops or starts again, or the group that rebalances.
LEMMA ProcessMoves ==
    ASSUME IInv, NEW w \in Spawners,
           UNCHANGED <<env, uploadVars, status, imageRef, topic, clusterVars>>,
           NoFault \/ \E k \in AllFaults : Fault(k),
           reader' \in env.spawners, pos' \in 0..Len(topic), com' \in 0..Len(topic),
           wpc' \in [Spawners -> Places], msg' \in [Spawners -> Nat], msg'[w] \in 0..Len(topic),
           waits' \in [Spawners -> [Reports -> {"running", "ok", "failed"}]],
           stopping' \subseteq Spawners, OnlyRepeated => stopping' = {},
           \A u \in Spawners : u # w => wpc'[u] = wpc[u] /\ waits'[u] = waits[u] /\ msg'[u] = msg[u],
           \/ wpc'[w] = wpc[w] /\ waits'[w] = waits[w] /\ msg'[w] = msg[w]
           \/ /\ wpc'[w] = "fetch" \/ (wpc'[w] = "precheck" /\ msg'[w] \in 1..Len(topic))
              /\ "ttl" \notin env.faults => \A k \in Reports : waits'[w][k] = "running"
    PROVE  IInv'
<1>1. UNCHANGED <<upc, answer, artifacts, job, staged, produced, report>> /\ Uploads' = Uploads
  BY Zenon DEF uploadVars, clusterVars, Uploads
<1>2. faults' \in 0..env.maxFaults
  BY Zenon, FaultCount DEF IInv
<1>3. \A u \in Spawners : msg'[u] \in 0..Len(topic)
  BY Zenon DEF IInv, Types, TypeOK
<1>4. TypeOK'
  BY Zenon, <1>1, <1>2, <1>3 DEF IInv, Types, TypeOK
<1>5. Types'
  BY Zenon, <1>1, <1>4 DEF IInv, Types
<1>6. Uploading' /\ OneSubmission'
  BY Zenon, <1>1, RowsKept DEF IInv
<1>7. Fetched'
  BY Zenon DEF IInv, Fetched
<1> DEFINE Still(u) == wpc'[u] = wpc[u] /\ waits'[u] = waits[u] /\ Id(u)' = Id(u)
           Anew(u) ==
              /\ wpc'[u] \in {"fetch", "precheck"}
              /\ "ttl" \notin env.faults => \A k \in Reports : waits'[u][k] = "running"
<1>8. \A u \in Spawners : Still(u) \/ Anew(u)
  <2>1. \A u \in Spawners : u # w => Still(u)
    BY Zenon DEF Id
  <2>2. Still(w) \/ Anew(w)
    BY Zenon DEF Id
  <2> QED BY Zenon, <2>1, <2>2
<1>9. \A u \in Spawners : wpc[u] # "fetch" => Id(u) \in Requests
  BY Zenon, IdFacts DEF IInv
<1>10. Vetted'
  <2> SUFFICES ASSUME "ttl" \notin env.faults
               PROVE  (\A r \in Requests : Cluster(r)') /\ \A u \in Spawners : AtWork(u)'
    BY Zenon DEF Vetted
  <2>1. \A r \in Requests : Cluster(r)'
    BY Zenon, <1>1 DEF IInv, Vetted, Cluster
  <2>2. ASSUME NEW u \in Spawners PROVE AtWork(u)'
    <3>1. CASE Still(u)
      <4>1. AtWork(u)
        BY Zenon DEF IInv, Vetted
      <4> QED BY Zenon, <1>1, <1>9, <3>1, <4>1, StaysAtWork
    <3>2. CASE Anew(u)
      BY Zenon, <3>2 DEF AtWork
    <3> QED BY Zenon, <1>8, <3>1, <3>2
  <2> QED BY Zenon, <2>1, <2>2
<1>11. Repeated'
  <2> SUFFICES ASSUME OnlyRepeated
               PROVE  Repeated'
    BY Zenon DEF Repeated, OnlyRepeated
  <2>1. \A r : Refused(r)' = Refused(r)
    BY Zenon DEF Refused
  <2>2. ASSUME NEW u \in Spawners
        PROVE  /\ \A k \in Reports : waits'[u][k] # "failed"
               /\ wpc'[u] = "failing" => Refused(Id(u)')
               /\ wpc'[u] \notin {"fetch", "precheck", "failing", "commit"} => ~Refused(Id(u)')
    <3>1. CASE Still(u)
      BY <3>1 DEF IInv, Repeated
    <3>2. CASE Anew(u)
      BY Zenon, <3>2 DEF OnlyRepeated
    <3> QED BY Zenon, <1>8, <3>1, <3>2
  <2> QED BY Zenon, <1>1, <2>1, <2>2 DEF IInv, Repeated
<1> QED
  BY Zenon, <1>5, <1>6, <1>7, <1>10, <1>11 DEF IInv

\* Fetch, commit, shutdown, crash and rebalance of a spawner keep the invariant.
LEMMA ProcessStep ==
    ASSUME IInv, NEW w \in Spawners,
           Fetch(w) \/ Commit(w) \/ Shutdown(w) \/ Stops(w) \/ Crash(w) \/ Rebalance(w)
    PROVE  IInv'
<1>1. /\ reader \in env.spawners /\ pos \in 0..Len(topic) /\ com \in 0..Len(topic)
      /\ wpc \in [Spawners -> Places] /\ msg \in [Spawners -> Nat] /\ stopping \subseteq Spawners
      /\ waits \in [Spawners -> [Reports -> {"running", "ok", "failed"}]]
      /\ \A u \in Spawners : msg[u] \in 0..Len(topic)
      /\ Len(topic) \in Nat /\ env.spawners \subseteq Spawners
      /\ OnlyRepeated => stopping = {}
      /\ "fetch" \in Places /\ "precheck" \in Places
  BY Zenon, UploadFacts DEF IInv, Types, TypeOK, Repeated, Places
<1>2. CASE Fetch(w)
  <2>1. /\ UNCHANGED <<env, uploadVars, status, imageRef, topic, clusterVars, reader, com, waits, stopping>>
        /\ NoFault /\ wpc[w] = "fetch" /\ pos < Len(topic) /\ pos' = pos + 1
        /\ msg' = [msg EXCEPT ![w] = pos + 1] /\ wpc' = [wpc EXCEPT ![w] = "precheck"]
    BY Zenon, <1>2 DEF Fetch, Goto, At
  <2>2. pos' \in 0..Len(topic) /\ pos + 1 \in 1..Len(topic) /\ pos + 1 \in Nat
    BY <1>1, <2>1
  <2>3. /\ wpc' \in [Spawners -> Places] /\ msg' \in [Spawners -> Nat]
        /\ msg'[w] \in 0..Len(topic) /\ msg'[w] \in 1..Len(topic) /\ wpc'[w] = "precheck"
        /\ \A u \in Spawners : u # w => wpc'[u] = wpc[u] /\ msg'[u] = msg[u]
    BY Zenon, <1>1, <2>1, <2>2
  <2>4. "ttl" \notin env.faults => \A k \in Reports : waits[w][k] = "running"
    BY <2>1 DEF IInv, Vetted, AtWork
  <2>5. \/ wpc'[w] = wpc[w] /\ waits'[w] = waits[w] /\ msg'[w] = msg[w]
        \/ /\ wpc'[w] = "fetch" \/ (wpc'[w] = "precheck" /\ msg'[w] \in 1..Len(topic))
           /\ "ttl" \notin env.faults => \A k \in Reports : waits'[w][k] = "running"
    BY Zenon, <2>1, <2>3, <2>4
  <2>6. \A u \in Spawners : u # w => wpc'[u] = wpc[u] /\ waits'[u] = waits[u] /\ msg'[u] = msg[u]
    BY Zenon, <2>1, <2>3
  <2>7. /\ reader' \in env.spawners /\ com' \in 0..Len(topic) /\ stopping' \subseteq Spawners
        /\ waits' \in [Spawners -> [Reports -> {"running", "ok", "failed"}]]
        /\ OnlyRepeated => stopping' = {}
    BY Zenon, <1>1, <2>1
  <2>8. UNCHANGED <<env, uploadVars, status, imageRef, topic, clusterVars>> /\ NoFault
    BY Zenon, <2>1
  <2>9. wpc' \in [Spawners -> Places] /\ msg' \in [Spawners -> Nat] /\ msg'[w] \in 0..Len(topic)
    BY Zenon, <2>3
  <2> QED BY <2>2, <2>5, <2>6, <2>7, <2>8, <2>9, ProcessMoves, Zenon
<1>3. CASE Commit(w)
  <2>1. /\ UNCHANGED <<env, uploadVars, status, imageRef, topic, clusterVars, reader, pos, waits, stopping>>
        /\ wpc[w] = "commit" /\ com' \in {msg[w], com}
        /\ msg' = [msg EXCEPT ![w] = 0] /\ wpc' = [wpc EXCEPT ![w] = "fetch"]
        /\ NoFault \/ \E k \in AllFaults : Fault(k)
    BY Zenon, <1>3 DEF Commit, Goto, At, AllFaults
  <2>2. /\ wpc' \in [Spawners -> Places] /\ msg' \in [Spawners -> Nat] /\ com' \in 0..Len(topic)
        /\ msg'[w] \in 0..Len(topic) /\ wpc'[w] = "fetch"
        /\ \A u \in Spawners : u # w => wpc'[u] = wpc[u] /\ msg'[u] = msg[u]
    BY <1>1, <2>1
  <2>3. "ttl" \notin env.faults => \A k \in Reports : waits[w][k] = "running"
    BY <2>1 DEF IInv, Vetted, AtWork
  <2> QED BY <1>1, <2>1, <2>2, <2>3, ProcessMoves
<1>4. CASE Stops(w) \/ Crash(w)
  <2>1. /\ UNCHANGED <<env, uploadVars, status, imageRef, topic, clusterVars, reader, com>>
        /\ stopping' = stopping \ {w} /\ pos' \in {com, pos}
        /\ msg' = [msg EXCEPT ![w] = 0] /\ wpc' = [wpc EXCEPT ![w] = "fetch"]
        /\ waits' = [waits EXCEPT ![w] = [k \in Reports |-> "running"]]
        /\ NoFault \/ \E k \in AllFaults : Fault(k)
    BY Zenon, <1>4 DEF Stops, Crash, Restarts, Goto, AllFaults
  <2>2. /\ wpc' \in [Spawners -> Places] /\ msg' \in [Spawners -> Nat] /\ pos' \in 0..Len(topic)
        /\ msg'[w] \in 0..Len(topic) /\ wpc'[w] = "fetch"
        /\ \A u \in Spawners : u # w => wpc'[u] = wpc[u] /\ msg'[u] = msg[u]
    BY <1>1, <2>1
  <2>3. /\ waits' \in [Spawners -> [Reports -> {"running", "ok", "failed"}]]
        /\ \A k \in Reports : waits'[w][k] = "running"
        /\ \A u \in Spawners : u # w => waits'[u] = waits[u]
    BY Zenon, <1>1, <2>1
  <2>4. stopping' \subseteq Spawners /\ (OnlyRepeated => stopping' = {})
    BY Zenon, <1>1, <2>1
  <2> QED BY Zenon, <1>1, <2>1, <2>2, <2>3, <2>4, ProcessMoves
<1>5. CASE Shutdown(w)
  <2>1. /\ UNCHANGED <<env, uploadVars, status, imageRef, topic, clusterVars, reader, com, pos, wpc, msg, waits>>
        /\ stopping' = stopping \cup {w} /\ Fault("shutdown") /\ "shutdown" \in AllFaults
    BY Zenon, <1>5 DEF Shutdown, AllFaults, kafkaVars, runVars
  <2>2. ~OnlyRepeated /\ stopping' \subseteq Spawners
    BY Zenon, <1>1, <2>1 DEF OnlyRepeated, Fault
  <2> QED BY Zenon, <1>1, <2>1, <2>2, ProcessMoves
<1>6. CASE Rebalance(w)
  <2>1. /\ UNCHANGED <<env, uploadVars, status, imageRef, topic, clusterVars, com, wpc, msg, waits, stopping>>
        /\ reader' = w /\ w \in env.spawners /\ pos' = com /\ Fault("rebalance") /\ "rebalance" \in AllFaults
    BY Zenon, <1>6 DEF Rebalance, AllFaults, runVars
  <2> QED BY Zenon, <1>1, <2>1, ProcessMoves
<1> QED
  BY Zenon, <1>2, <1>3, <1>4, <1>5, <1>6

\* The cluster leaves rows, messages and processes alone.
LEMMA ClusterMoves ==
    ASSUME IInv, UNCHANGED <<env, uploadVars, status, imageRef, kafkaVars, runVars, stopping>>,
           NoFault \/ \E k \in AllFaults : Fault(k), Types',
           "ttl" \notin env.faults =>
              /\ \A r \in Requests : Cluster(r)'
              /\ \A k \in Kinds, r \in Requests :
                  /\ job[k][r] = "complete" => job'[k][r] = "complete"
                  /\ job[k][r] # "none" => job'[k][r] # "none"
              /\ \A r \in Requests : produced[r] = 1 => produced'[r] = 1,
           OnlyRepeated => \A k \in Kinds, r \in Requests : job'[k][r] # "failed"
    PROVE  IInv'
<1>1. UNCHANGED <<upc, answer, artifacts, topic, wpc, msg, waits>> /\ Uploads' = Uploads
  BY Zenon DEF uploadVars, kafkaVars, runVars, Uploads
<1>2. Uploading' /\ OneSubmission' /\ Fetched'
  BY Zenon, <1>1, RowsKept DEF IInv, Fetched
<1>3. \A u \in Spawners : Id(u)' = Id(u) /\ (wpc[u] # "fetch" => Id(u) \in Requests)
  BY Zenon, <1>1, IdFacts DEF IInv, Id
<1>4. Vetted'
  <2> SUFFICES ASSUME "ttl" \notin env.faults
               PROVE  \A u \in Spawners : AtWork(u)'
    BY Zenon DEF Vetted
  <2> TAKE u \in Spawners
  <2>1. AtWork(u)
    BY Zenon DEF IInv, Vetted
  <2> QED BY Zenon, <1>1, <1>3, <2>1, StaysAtWork
<1>5. Repeated'
  BY Zenon, <1>1, <1>3 DEF IInv, Repeated, OnlyRepeated, Refused
<1> QED
  BY Zenon, <1>2, <1>4, <1>5 DEF IInv

\* One image is pushed for each build job, and a report is of the image that is there.
LEMMA JobEndsStep ==
    ASSUME IInv, NEW k \in Kinds, NEW r \in Requests, JobEnds(k, r)
    PROVE  IInv'
<1>1. /\ job \in [Kinds -> [Requests -> {"none", "running", "complete", "failed"}]]
      /\ staged \in [Requests -> Nat] /\ produced \in [Requests -> Nat]
      /\ report \in [Reports -> [Requests -> Nat]]
      /\ \A q \in Requests : produced[q] <= staged[q] /\ \A j \in Reports : report[j][q] <= staged[q]
  BY DEF IInv, Types, TypeOK
<1>2. PICK end \in {"complete", "failed"} :
        /\ job[k][r] = "running" /\ job' = [job EXCEPT ![k][r] = end]
        /\ end = "failed" => Fault("job") /\ UNCHANGED <<staged, produced, report>>
        /\ end = "complete" /\ k = "build" =>
             /\ staged' = [staged EXCEPT ![r] = staged[r] + 1]
             /\ produced' = IF env.ecr THEN [produced EXCEPT ![r] = staged[r] + 1] ELSE produced
             /\ UNCHANGED report
        /\ end = "complete" /\ k # "build" =>
             report' = [report EXCEPT ![k][r] = staged[r]] /\ UNCHANGED <<staged, produced>>
  BY Zenon DEF JobEnds
<1>3. /\ UNCHANGED <<env, uploadVars, status, imageRef, kafkaVars, runVars, stopping>>
      /\ NoFault \/ \E f \in AllFaults : Fault(f)
  BY Zenon DEF JobEnds, AllFaults
<1>4. /\ job' \in [Kinds -> [Requests -> {"none", "running", "complete", "failed"}]]
      /\ job'[k][r] = end /\ \A j \in Kinds, q \in Requests : j # k \/ q # r => job'[j][q] = job[j][q]
  BY Zenon, <1>1, <1>2
<1>5. /\ staged' \in [Requests -> Nat] /\ produced' \in [Requests -> Nat]
      /\ \A q \in Requests : q # r => staged'[q] = staged[q] /\ produced'[q] = produced[q]
      /\ staged'[r] = IF k = "build" /\ end = "complete" THEN staged[r] + 1 ELSE staged[r]
      /\ produced'[r] = IF env.ecr /\ k = "build" /\ end = "complete" THEN staged[r] + 1 ELSE produced[r]
  <2>1. CASE end = "failed"
    BY Zenon, <1>1, <1>2, <2>1
  <2>2. CASE end = "complete" /\ k = "build" /\ env.ecr
    BY <1>1, <1>2, <2>2
  <2>3. CASE end = "complete" /\ k = "build" /\ ~env.ecr
    BY <1>1, <1>2, <2>3
  <2>4. CASE end = "complete" /\ k # "build"
    BY Zenon, <1>1, <1>2, <2>4
  <2> QED BY Zenon, <2>1, <2>2, <2>3, <2>4
<1>6. /\ report' \in [Reports -> [Requests -> Nat]]
      /\ \A j \in Reports, q \in Requests :
           report'[j][q] = IF j = k /\ q = r /\ end = "complete" THEN staged[r] ELSE report[j][q]
  <2>1. CASE end = "failed" \/ k = "build"
    BY Zenon, <1>1, <1>2, <2>1 DEF Reports
  <2>2. CASE end = "complete" /\ k # "build"
    <3>1. k \in Reports /\ report' = [report EXCEPT ![k][r] = staged[r]] /\ staged[r] \in Nat
      BY Zenon, <1>1, <1>2, <2>2 DEF Kinds
    <3> QED BY Zenon, <1>1, <2>2, <3>1
  <2> QED BY Zenon, <2>1, <2>2
<1>7. \A q \in Requests : produced'[q] \in 0..staged'[q] /\ \A j \in Reports : report'[j][q] \in 0..staged'[q]
  <2> TAKE q \in Requests
  <2>1. staged[q] <= staged'[q] /\ staged'[q] \in Nat /\ staged[q] \in Nat
    BY <1>1, <1>5
  <2>2. produced'[q] \in 0..staged'[q]
    BY <1>1, <1>5
  <2>3. ASSUME NEW j \in Reports PROVE report'[j][q] \in 0..staged'[q]
    <3>1. report[j][q] \in Nat /\ report[j][q] <= staged[q]
      BY Zenon, <1>1
    <3> QED BY <1>6, <2>1, <3>1
  <2> QED BY Zenon, <2>2, <2>3
<1>8. Types'
  <2>1. UNCHANGED <<upc, answer, artifacts, topic, reader, pos, com, wpc, msg, waits>> /\ Uploads' = Uploads
    BY Zenon, <1>3 DEF uploadVars, kafkaVars, runVars, Uploads
  <2>2. faults' \in 0..env.maxFaults
    BY Zenon, <1>3, FaultCount DEF IInv
  <2>3. TypeOK'
    BY Zenon, <1>3, <1>4, <1>5, <1>7, <2>1, <2>2 DEF IInv, Types, TypeOK
  <2> QED BY Zenon, <1>5, <1>6, <2>1, <2>3 DEF IInv, Types
<1>9. ASSUME "ttl" \notin env.faults
      PROVE  /\ \A q \in Requests : Cluster(q)'
             /\ \A j \in Kinds, q \in Requests :
                 /\ job[j][q] = "complete" => job'[j][q] = "complete"
                 /\ job[j][q] # "none" => job'[j][q] # "none"
             /\ \A q \in Requests : produced[q] = 1 => produced'[q] = 1
  <2>1. \A q \in Requests : Cluster(q)
    BY Zenon, <1>9 DEF IInv, Vetted
  <2>2. \A j \in Kinds, q \in Requests :
          /\ job[j][q] = "complete" => job'[j][q] = "complete"
          /\ job[j][q] # "none" => job'[j][q] # "none"
    BY Zenon, <1>2, <1>4
  <2>3. k = "build" => staged[r] = 0 /\ produced[r] = 0
    BY <1>1, <1>2, <2>1 DEF Cluster
  <2>4. \A q \in Requests : staged'[q] = IF job'["build"][q] = "complete" THEN 1 ELSE 0
    <3> TAKE q \in Requests
    <3>1. Cluster(q) /\ staged[q] \in Nat /\ "build" \in Kinds
      BY Zenon, <1>1, <2>1 DEF Kinds
    <3>2. CASE q = r /\ k = "build"
      BY <1>2, <1>4, <1>5, <2>3, <3>1, <3>2 DEF Cluster
    <3>3. CASE q # r \/ k # "build"
      BY Zenon, <1>4, <1>5, <3>1, <3>3 DEF Cluster
    <3> QED BY Zenon, <3>2, <3>3
  <2>5. \A q \in Requests : env.ecr => produced'[q] = staged'[q]
    BY <1>1, <1>5, <2>1 DEF Cluster
  <2>6. \A q \in Requests : produced[q] = 1 => produced'[q] = 1
    BY <1>5, <2>3
  <2>7. \A q \in Requests : \A j \in Reports :
          /\ job'[j][q] # "none" => job'["build"][q] = "complete"
          /\ job'[j][q] = "complete" => report'[j][q] = 1
    <3> TAKE q \in Requests
    <3> TAKE j \in Reports
    <3>1. Cluster(q) /\ j \in Kinds /\ "build" \in Kinds /\ j # "build"
      BY Zenon, <2>1 DEF Kinds, Reports
    <3>2. job'[j][q] # "none" => job[j][q] # "none" /\ job["build"][q] = "complete"
      BY Zenon, <1>2, <1>4, <3>1 DEF Cluster
    <3>3. CASE j = k /\ q = r
      BY Zenon, <1>2, <1>4, <1>6, <2>2, <3>1, <3>2, <3>3 DEF Cluster
    <3>4. CASE ~(j = k /\ q = r)
      <4>1. job'[j][q] = job[j][q] /\ report'[j][q] = report[j][q]
        BY Zenon, <1>4, <1>6, <3>1, <3>4
      <4> QED BY Zenon, <2>2, <3>1, <3>2, <4>1 DEF Cluster
    <3> QED BY Zenon, <3>3, <3>4
  <2>8. \A q \in Requests : status[q] = "ready" =>
          /\ q \in imageRef /\ produced'[q] = 1
          /\ \A j \in Reports : job'[j][q] = "complete"
    BY Zenon, <2>1, <2>2, <2>6 DEF Cluster, Kinds
  <2>9. \A q \in Requests : Cluster(q)'
    BY Zenon, <1>3, <2>4, <2>5, <2>7, <2>8 DEF Cluster
  <2> QED BY Zenon, <2>2, <2>6, <2>9
<1>10. OnlyRepeated => \A j \in Kinds, q \in Requests : job'[j][q] # "failed"
  BY <1>2, <1>4 DEF IInv, Repeated, OnlyRepeated, Fault
<1> QED
  BY Zenon, <1>3, <1>8, <1>9, <1>10, ClusterMoves

\* The expiry of a finished job keeps the invariant.
LEMMA JobExpiresStep ==
    ASSUME IInv, NEW k \in Kinds, NEW r \in Requests, JobExpires(k, r)
    PROVE  IInv'
<1>1. /\ job' = [job EXCEPT ![k][r] = "none"] /\ Fault("ttl") /\ "ttl" \in AllFaults
      /\ UNCHANGED <<env, uploadVars, status, imageRef, kafkaVars, runVars, stopping, staged, produced, report>>
  BY Zenon DEF JobExpires, AllFaults
<1>2. "ttl" \in env.faults /\ ~OnlyRepeated
  BY Zenon, <1>1 DEF Fault, OnlyRepeated
<1>3. job' \in [Kinds -> [Requests -> {"none", "running", "complete", "failed"}]]
  BY Zenon, <1>1 DEF IInv, Types, TypeOK
<1>4. Types'
  <2>1. UNCHANGED <<upc, answer, artifacts, topic, reader, pos, com, wpc, msg, waits>> /\ Uploads' = Uploads
    BY Zenon, <1>1 DEF uploadVars, kafkaVars, runVars, Uploads
  <2>2. faults' \in 0..env.maxFaults
    BY Zenon, <1>1, FaultCount DEF IInv
  <2>3. TypeOK'
    BY Zenon, <1>1, <1>3, <2>1, <2>2 DEF IInv, Types, TypeOK
  <2> QED BY Zenon, <1>1, <2>1, <2>3 DEF IInv, Types
<1> QED
  BY Zenon, <1>1, <1>2, <1>4, ClusterMoves

-----------------------------------------------------------------------------
(* The theorems *)

\* The invariant holds initially.
LEMMA InitIInv ==
    ASSUME Init
    PROVE  IInv
<1>1. env \in Environments /\ env.spawners \subseteq Spawners /\ env.maxFaults \in Nat /\ faults \in 0..env.maxFaults
  BY EnvironmentsKnown DEF Init
<1>2. topic = <<>> /\ topic \in Seq(Uploads) /\ topic \in Seq(Requests) /\ Len(topic) = 0 /\ DOMAIN topic = {}
  BY SeqEmpty DEF Init
<1>3. /\ upc \in [Requests -> {"find", "upload", "insert", "resolve", "publish", "done"}]
      /\ answer \in [Requests -> Requests \cup {None}]
      /\ artifacts \subseteq Requests /\ imageRef \subseteq Requests
      /\ status \in [Requests -> Statuses \cup {"none"}]
      /\ reader \in env.spawners /\ pos \in 0..Len(topic) /\ com \in 0..Len(topic)
  BY <1>2 DEF Init
<1>4. /\ wpc \in [Spawners -> Places] /\ msg \in [Spawners -> Nat]
      /\ \A w \in Spawners : msg[w] \in 0..Len(topic)
      /\ waits \in [Spawners -> [Reports -> {"running", "ok", "failed"}]]
      /\ stopping \subseteq Spawners
  BY <1>2 DEF Init, Places
<1>5. /\ job \in [Kinds -> [Requests -> {"none", "running", "complete", "failed"}]]
      /\ staged \in [Requests -> Nat] /\ produced \in [Requests -> Nat]
      /\ report \in [Reports -> [Requests -> Nat]]
      /\ \A r \in Requests : produced[r] \in 0..staged[r] /\ \A k \in Reports : report[k][r] \in 0..staged[r]
  BY DEF Init
<1>6. Types
  BY Zenon, <1>1, <1>2, <1>3, <1>4, <1>5 DEF Types, TypeOK
<1>7. Uploading /\ Fetched
  BY Zenon DEF Init, Uploading, Fetched
<1>8. OneSubmission
  BY Zenon, <1>2, UploadFacts, <1>6 DEF Init, OneSubmission
<1>9. Vetted
  BY Zenon DEF Init, Vetted, Cluster, AtWork, Kinds, Reports
<1>10. Repeated
  BY Zenon DEF Init, Repeated
<1> QED
  BY Zenon, <1>6, <1>7, <1>8, <1>9, <1>10 DEF IInv

\* Every step keeps the invariant.
LEMMA NextIInv ==
    ASSUME IInv, [Next]_vars
    PROVE  IInv'
<1>1. CASE \E r \in Uploads : Submit(r)
  BY Zenon, <1>1, FindStep, UploadStep, InsertStep, PublishStep DEF Submit
<1>2. CASE ApiCrash
  BY Zenon, <1>2, ApiCrashStep
<1>3. CASE \E w \in Spawners : Run(w)
  BY Zenon, <1>3, RunStep
<1>4. CASE \E w \in Spawners : Fetch(w) \/ Commit(w) \/ Shutdown(w) \/ Stops(w) \/ Crash(w) \/ Rebalance(w)
  BY Zenon, <1>4, ProcessStep
<1>5. CASE \E k \in Kinds, r \in Requests : JobEnds(k, r) \/ JobExpires(k, r)
  BY Zenon, <1>5, JobEndsStep, JobExpiresStep
<1>6. CASE UNCHANGED vars
  <2>1. UNCHANGED <<env, faults, upc, answer, artifacts, status, imageRef, topic, reader, pos, com,
                    wpc, msg, waits, stopping, job, staged, produced, report>>
        /\ UNCHANGED <<uploadVars, runVars, clusterVars>>
    BY Zenon, <1>6 DEF vars, uploadVars, kafkaVars, runVars, clusterVars
  <2>2. Uploads' = Uploads
    BY Zenon, <2>1 DEF Uploads
  <2>3. Types'
    BY Zenon, <2>1, <2>2 DEF IInv, Types, TypeOK
  <2>4. Uploading' /\ OneSubmission'
    BY Zenon, <2>1, RowsKept DEF IInv
  <2>5. Fetched' /\ Vetted' /\ Repeated'
    BY <2>1, WorkUndisturbed, UploadFacts DEF IInv
  <2> QED BY Zenon, <2>3, <2>4, <2>5 DEF IInv
<1> QED
  BY Zenon, <1>1, <1>2, <1>3, <1>4, <1>5, <1>6 DEF Next

\* The inductive invariant of uploads, build workers and jobs together.
THEOREM Invariance == Spec => []IInv
<1>1. Init => IInv
  BY Zenon, InitIInv
<1>2. IInv /\ [Next]_vars => IInv'
  BY Zenon, NextIInv
<1> QED
  BY <1>1, <1>2, PTL DEF Spec

\* However many uploads of one artifact race each other, and whatever fails, they become
\* one submission (Submit, with the UNIQUE sha256).
THEOREM UploadsBecomeOne == Spec => []OneSubmission
<1>1. IInv => OneSubmission
  BY Zenon DEF IInv
<1> QED
  BY <1>1, Invariance, PTL

\* With any number of build workers, redeliveries and faults, the image of a ready
\* submission was scanned and has an sbom, while jobs outlast the attempt that created
\* them (Spawner.Run and createJob).
THEOREM ReadyWasScanned == Spec => []ReadyIsVetted
<1>1. IInv => ReadyIsVetted
  <2> SUFFICES ASSUME IInv, "ttl" \notin env.faults, NEW r \in Uploads, status[r] = "ready"
               PROVE  /\ r \in imageRef /\ produced[r] > 0
                      /\ \A k \in Reports : report[k][r] = produced[r]
    BY Zenon DEF ReadyIsVetted
  <2>1. r \in Requests
    BY Zenon, UploadFacts DEF IInv
  <2> QED BY <2>1 DEF IInv, Vetted, Cluster
<1> QED
  BY <1>1, Invariance, PTL

\* A ready submission stays ready, however often its request is handled again (the ranks
\* of UpdateStatus, and the jobs that createJob adopts).
THEOREM ReadyForGood == Spec => ReadySurvives
<1> DEFINE Step == OnlyRepeated => \A r \in Uploads : status[r] = "ready" => status'[r] = "ready"
<1>1. IInv /\ [Next]_vars => [Step]_vars
  <2> SUFFICES ASSUME IInv, Next, OnlyRepeated, NEW r \in Uploads, status[r] = "ready"
               PROVE  status'[r] = "ready"
    BY Zenon
  <2>1. r \in Requests /\ status \in [Requests -> Statuses \cup {"none"}]
    BY Zenon, UploadFacts DEF IInv, Types, TypeOK
  <2>2. CASE \E q \in Uploads : Submit(q)
    <3>1. PICK q \in Uploads : Submit(q)
      BY Zenon, <2>2
    <3>2. CASE UNCHANGED status
      BY Zenon, <3>2
    <3>3. CASE status' = [status EXCEPT ![q] = "uploaded"] /\ SameArtifact(q) = {}
      <4>1. q # r
        BY Zenon, <3>3 DEF SameArtifact
      <4> QED BY Zenon, <2>1, <3>3, <4>1
    <3> QED BY Zenon, <3>1, <3>2, <3>3 DEF Submit, Find, Upload, Insert, Resolve, Publish
  <2>3. CASE \E w \in Spawners : Run(w)
    <3>1. PICK w \in Spawners : Run(w)
      BY Zenon, <2>3
    <3>2. CASE UNCHANGED status
      BY Zenon, <3>2
    <3>3. CASE \E at \in {"begin", "mark", "ready"}, new \in {"building", "scanned", "ready"}, next \in Places :
                  Marks(w, at, new, next)
      <4>1. PICK new \in {"building", "scanned", "ready"} : SetStatus(w, new) /\ wpc[w] # "fetch"
        BY Zenon, <3>3 DEF Marks, At
      <4> QED BY Zenon, <2>1, <4>1, StatusFacts
    <3>4. CASE Marks(w, "failing", "failed", "commit")
      <4>1. SetStatus(w, "failed") /\ wpc[w] = "failing"
        BY Zenon, <3>4 DEF Marks, At
      <4>2. Id(w) # r
        BY Zenon, <2>1, <4>1 DEF IInv, Repeated
      <4> QED BY Zenon, <2>1, <4>1, <4>2, StatusFacts
    <3> QED BY Zenon, <3>1, <3>2, <3>3, <3>4
            DEF Run, Precheck, Creates, WaitBuild, WaitReport, JoinReports, Promote, Record, Places
  <2>4. CASE /\ ~\E q \in Uploads : Submit(q)
             /\ ~\E w \in Spawners : Run(w)
    BY Zenon, <2>4
    DEF Next, ApiCrash, Fetch, Commit, Shutdown, Stops, Crash, Restarts, Rebalance, JobEnds,
       JobExpires
  <2> QED BY Zenon, <2>2, <2>3, <2>4
<1>2. ReadySurvives <=> [][Step]_vars
  BY Zenon DEF ReadySurvives, OnlyRepeated
<1> HIDE DEF Step
<1> QED
  BY <1>1, <1>2, Invariance, PTL DEF Spec
=============================================================================
