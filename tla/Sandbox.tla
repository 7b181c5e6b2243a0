------------------------------- MODULE Sandbox -------------------------------
(***************************************************************************)
(* services/sandbox-orchestrator: the three slot handlers, the slot map of *)
(* store/slot.go, the Kubernetes manager of k8s/slot.go and the rebuild of *)
(* the map at startup, called by the HTTP client of the bot-fleet          *)
(* controller (internal/orchestrator/client.go) as runSession calls it.    *)
(*                                                                         *)
(* Everything here is keyed by slot id and no step looks at two slots, so  *)
(* the module follows one slot.  A handler is a goroutine that stops       *)
(* between any two accesses to the map or to the API server; a client that *)
(* gives up leaves its handler running, until an API call of it fails      *)
(* because its request context is cancelled.                 Capture is   *)
(* enabled.  Of a pod's ports only this is kept: the readiness probe       *)
(* answers for the first, dialAllPorts for the others.                     *)
(***************************************************************************)
EXTENDS Naturals, FiniteSets

CONSTANTS
    Environments    \* what a behaviour may meet, one of these records:
                    \*   runs: sessions started on the slot id, 1..n, one after the other
                    \*   image: the image of each
                    \*   faults: which of AllFaults may happen
                    \*   maxFaults: how many do

AllFaults == {"api", "timeout", "crash", "controller"}

ASSUME EnvironmentsKnown ==
    \A e \in Environments :
        /\ e.runs \in Nat \ {0} /\ DOMAIN e.image = 1..e.runs
        /\ e.faults \subseteq AllFaults /\ e.maxFaults \in Nat

NoEntry == [image |-> "none"]
NoPod == [uid |-> 0]
NoJob == [uid |-> 0, band |-> 0]

VARIABLES
    env, faults,        \* the environment of this behaviour; faults so far
    orch,               \* whether the orchestrator runs
    entry,              \* SlotStore.slots[slot]
    pod, svc, capture,  \* the algo pod, its Service and its capture Job
    nextUid,
    call,               \* the handler goroutines, by run and purpose
    client,             \* runSession and the client it calls
    gone                \* history: a DELETE that no POST raced was answered

cluster == <<pod, svc, capture, nextUid>>
vars == <<env, faults, orch, entry, cluster, call, client, gone>>

Runs == 1..env.runs
Calls == Runs \X {"work", "release"}
Idle == [op |-> "none", pc |-> "idle"]
NoAnswer == Idle

\* The partition band run r leased, stamped on pod and capture.
BandOf(r) == r

States == {"creating", "ready", "failed", "terminating", ""}
Answers == States \cup {"notfound", "error", "ok"}

InFlight(c) == call[c].op # "none" /\ call[c].pc # "answered"
Posting == {c \in Calls : InFlight(c) /\ call[c].op = "POST"}
Clean == pod = NoPod /\ ~svc /\ capture = NoJob
Quiet == \A c \in Calls : ~InFlight(c)

\* A slot of the map whose pod runs is what the map says, and has its Service.
Live == pod # NoPod /\ ~pod.deleting
Truthful == entry # NoEntry /\ Live => svc /\ pod.image = entry.image

TypeOK ==
    /\ env \in Environments /\ faults \in 0..env.maxFaults
    /\ orch \in {"up", "down"}
    /\ entry = NoEntry \/ entry.state \in States
    /\ pod = NoPod \/ (pod.uid \in 1..nextUid - 1 /\ pod.phase \in {"pending", "primary", "ready", "failed"})
    /\ svc \in BOOLEAN /\ gone \in BOOLEAN
    /\ capture.uid \in 0..nextUid - 1
    /\ \A c \in Calls : call[c].pc = "answered" => call[c].answer \in Answers
    /\ \A r \in Runs :
          client[r].pc \in {"start", "create", "poll", "get", "drive", "release", "delete", "done"}

Init ==
    /\ env \in Environments /\ faults = 0
    /\ orch = "up"
    /\ entry = NoEntry
    /\ pod = NoPod /\ svc = FALSE /\ capture = NoJob /\ nextUid = 1
    /\ call = [c \in Calls |-> Idle]
    /\ client = [r \in Runs |-> [pc |-> "start", sound |-> FALSE, clean |-> FALSE]]
    /\ gone = FALSE

Fault(kind) ==
    /\ kind \in env.faults /\ faults < env.maxFaults
    /\ faults' = faults + 1

-----------------------------------------------------------------------------
(* The cluster: kubelet and controllers, as slot.go relies on them. *)

\* podSpec: RestartPolicyNever, the order band stamped as an annotation.
podSpec(c) ==
    [uid |-> nextUid, image |-> env.image[c[1]], band |-> BandOf(c[1]),
     phase |-> "pending", deleting |-> FALSE]

\* The algo starts, binds its first port, then the others, or dies.
PodRuns ==
    /\ pod # NoPod /\ pod.phase # "failed"
    /\ \E phase \in CASE pod.phase = "pending" -> {"primary", "failed"}
                      [] pod.phase = "primary" -> {"ready", "failed"}
                      [] pod.phase = "ready" -> {"failed"} :
           pod' = [pod EXCEPT !.phase = phase]
    /\ UNCHANGED <<env, faults, orch, entry, svc, capture, nextUid, call, client, gone>>

\* A pod under deletion disappears when its grace period is over.
PodGone ==
    /\ pod # NoPod /\ pod.deleting
    /\ pod' = NoPod
    /\ UNCHANGED <<env, faults, orch, entry, svc, capture, nextUid, call, client, gone>>

\* The garbage collector removes a Job whose owner, by UID, no longer exists.
GarbageCollect ==
    /\ capture # NoJob /\ capture.uid # 0 /\ capture.uid # pod.uid
    /\ capture' = NoJob
    /\ UNCHANGED <<env, faults, orch, entry, pod, svc, nextUid, call, client, gone>>

deriveState(p) ==
    CASE p.deleting -> "terminating"
      [] ~p.deleting /\ p.phase = "failed" -> "failed"
      [] ~p.deleting /\ p.phase \in {"primary", "ready"} -> "ready"
      [] ~p.deleting /\ p.phase = "pending" -> "creating"

-----------------------------------------------------------------------------
(* The handlers.  Every one is entered at its first access to the map. *)

Goto(c, pc) == call' = [call EXCEPT ![c].pc = pc]

Answered(c, a) ==
    [op |-> call[c].op, pc |-> "answered", answer |-> a, abandoned |-> call[c].abandoned]

\* A handler nobody waits for leaves nothing behind when it is done.
Answer(c, a) ==
    call' = [call EXCEPT ![c] = IF call[c].abandoned THEN Idle ELSE Answered(c, a)]

At(c, op, pc) == InFlight(c) /\ call[c].op = op /\ call[c].pc = pc

\* CreateSlot: an entry with the same image makes the request a refresh.
PostLookup(c) ==
    /\ At(c, "POST", "lookup")
    /\ call' = [call EXCEPT
          ![c].entry = entry,
          ![c].fresh = entry = NoEntry \/ entry.image # env.image[c[1]],
          ![c].pc = IF entry = NoEntry \/ entry.image # env.image[c[1]]
                    THEN "getPod" ELSE "refresh"]
    /\ UNCHANGED <<env, faults, orch, entry, cluster, client, gone>>

\* Mutant: an existing pod is taken for a complete slot.
Matched_PodIsSlot(c, p) ==
    IF p.image = env.image[c[1]] THEN Goto(c, "refresh") ELSE Answer(c, "error")
\* What Manager.CreateSlot does with the pod ensurePod found or made.
Matched(c, p) ==
    IF p.image = env.image[c[1]] THEN Goto(c, "getSvc") ELSE Answer(c, "error")

EnsurePodGet(c) ==
    /\ At(c, "POST", "getPod")
    /\ IF pod = NoPod THEN Goto(c, "createPod") ELSE Matched(c, pod)
    /\ UNCHANGED <<env, faults, orch, entry, cluster, client, gone>>

PodCreated(c) ==
    /\ pod = NoPod
    /\ pod' = podSpec(c) /\ nextUid' = nextUid + 1
    /\ UNCHANGED <<svc, capture>>

\* AlreadyExists sends the handler back to the pod that won the race.
EnsurePodCreate(c) ==
    /\ At(c, "POST", "createPod")
    /\ \/ PodCreated(c) /\ Goto(c, "getSvc")
       \/ pod # NoPod /\ Goto(c, "regetPod") /\ UNCHANGED cluster
    /\ UNCHANGED <<env, faults, orch, entry, client, gone>>

EnsurePodAgain(c) ==
    /\ At(c, "POST", "regetPod")
    /\ IF pod = NoPod THEN Answer(c, "error") ELSE Matched(c, pod)
    /\ UNCHANGED <<env, faults, orch, entry, cluster, client, gone>>

CreateSlotGetService(c) ==
    /\ At(c, "POST", "getSvc")
    /\ Goto(c, IF svc THEN "refresh" ELSE "createSvc")
    /\ UNCHANGED <<env, faults, orch, entry, cluster, client, gone>>

CreateSlotCreateService(c) ==
    /\ At(c, "POST", "createSvc")
    /\ svc' = TRUE
    /\ Goto(c, "refresh")
    /\ UNCHANGED <<env, faults, orch, entry, pod, capture, nextUid, client, gone>>

\* GetSlot answers for slots of the map only.
GetLookup(c) ==
    /\ At(c, "GET", "lookup")
    /\ IF entry = NoEntry
       THEN Answer(c, "notfound")
       ELSE call' = [call EXCEPT ![c].entry = entry, ![c].pc = "refresh"]
    /\ UNCHANGED <<env, faults, orch, entry, cluster, client, gone>>

-----------------------------------------------------------------------------
(* Manager.Refresh, and what each handler does with its result. *)

\* Refresh found no pod: a fresh slot is stored with the empty state, an
\* idempotent create answers the copy it holds, GetSlot forgets the slot.
NotFound(c) ==
    CASE call[c].op = "POST" /\ call[c].fresh ->
            call' = [call EXCEPT ![c].pc = "put", ![c].state = ""] /\ UNCHANGED entry
      [] call[c].op = "POST" /\ ~call[c].fresh ->
            Answer(c, call[c].entry.state) /\ UNCHANGED entry
      [] call[c].op = "GET" ->
            Answer(c, "notfound") /\ entry' = NoEntry

Refresh(c) ==
    /\ InFlight(c) /\ call[c].pc = "refresh"
    /\ \/ pod = NoPod /\ NotFound(c)
       \/ /\ pod # NoPod
          /\ LET dialed == pod.phase = "ready"
                 up == deriveState(pod) = "ready"
             IN  call' = [call EXCEPT
                    ![c].pc = IF up /\ dialed THEN "capGet" ELSE "put",
                    ![c].state = IF up /\ ~dialed THEN "creating" ELSE deriveState(pod),
                    ![c].pod = IF up /\ dialed THEN pod ELSE NoPod]
          /\ UNCHANGED entry
    /\ UNCHANGED <<env, faults, orch, cluster, client, gone>>

EnsureCaptureGet(c) ==
    /\ InFlight(c) /\ call[c].pc = "capGet"
    /\ call' = [call EXCEPT ![c].pc = IF capture = NoJob THEN "capCreate" ELSE "put",
                            ![c].pod = IF capture = NoJob THEN @ ELSE NoPod]
    /\ UNCHANGED <<env, faults, orch, entry, cluster, client, gone>>

\* Mutant: the Job names no owner.
captureJobSpec_NoOwner(p) == [uid |-> 0, band |-> p.band]
\* The Job is owned by the pod the handler read, and captures that pod's band.
captureJobSpec(p) == [uid |-> p.uid, band |-> p.band]

CaptureCreated(c) ==
    /\ capture' = IF capture = NoJob THEN captureJobSpec(call[c].pod) ELSE capture
    /\ UNCHANGED <<pod, svc, nextUid>>

EnsureCaptureCreate(c) ==
    /\ InFlight(c) /\ call[c].pc = "capCreate"
    /\ CaptureCreated(c)
    /\ call' = [call EXCEPT ![c].pc = "put", ![c].pod = NoPod]
    /\ UNCHANGED <<env, faults, orch, entry, client, gone>>

\* slots.Put of the copy with the refreshed state, then the answer.
PutSlot(c) ==
    /\ InFlight(c) /\ call[c].pc = "put"
    /\ entry' = [image |-> IF call[c].op = "POST" THEN env.image[c[1]] ELSE call[c].entry.image,
                 state |-> call[c].state]
    /\ Answer(c, call[c].state)
    /\ UNCHANGED <<env, faults, orch, cluster, client, gone>>

-----------------------------------------------------------------------------
(* DeleteSlot *)

\* slots.Get and slots.Put are two critical sections.
DeleteLookup(c) ==
    /\ At(c, "DELETE", "lookup")
    /\ call' = [call EXCEPT ![c].entry = entry,
                            ![c].pc = IF entry = NoEntry THEN "delPod" ELSE "mark"]
    /\ UNCHANGED <<env, faults, orch, entry, cluster, client, gone>>

DeleteMark(c) ==
    /\ At(c, "DELETE", "mark")
    /\ entry' = [call[c].entry EXCEPT !.state = "terminating"]
    /\ Goto(c, "delPod")
    /\ UNCHANGED <<env, faults, orch, cluster, client, gone>>

\* A pod keeps running for its grace period, or is gone at once if it never ran.
PodDeleted ==
    /\ IF pod = NoPod THEN UNCHANGED pod ELSE pod' = [pod EXCEPT !.deleting = TRUE]
    /\ UNCHANGED <<svc, capture, nextUid>>
SvcDeleted == svc' = FALSE /\ UNCHANGED <<pod, capture, nextUid>>
CaptureDeleted == capture' = NoJob /\ UNCHANGED <<pod, svc, nextUid>>

DeletePod(c) ==
    /\ At(c, "DELETE", "delPod")
    /\ PodDeleted
    /\ Goto(c, "delSvc")
    /\ UNCHANGED <<env, faults, orch, entry, client, gone>>

DeleteService(c) ==
    /\ At(c, "DELETE", "delSvc")
    /\ SvcDeleted
    /\ Goto(c, "delCap")
    /\ UNCHANGED <<env, faults, orch, entry, client, gone>>

DeleteCapture(c) ==
    /\ At(c, "DELETE", "delCap")
    /\ CaptureDeleted
    /\ Goto(c, "forget")
    /\ UNCHANGED <<env, faults, orch, entry, client, gone>>

Forget(c) ==
    /\ At(c, "DELETE", "forget")
    /\ entry' = NoEntry
    /\ gone' = call[c].quiet
    /\ Answer(c, "ok")
    /\ UNCHANGED <<env, faults, orch, cluster, client>>

-----------------------------------------------------------------------------
(* Errors *)

\* An API call fails, by itself or because the request context is cancelled;
\* a write may have reached the server all the same.
Effect(c) ==
    CASE call[c].pc = "createPod" /\ pod = NoPod -> PodCreated(c)
      [] call[c].pc = "createSvc" -> svc' = TRUE /\ UNCHANGED <<pod, capture, nextUid>>
      [] call[c].pc = "capCreate" -> CaptureCreated(c)
      [] call[c].pc = "delPod" -> PodDeleted
      [] call[c].pc = "delSvc" -> SvcDeleted
      [] call[c].pc = "delCap" -> CaptureDeleted
      [] OTHER -> UNCHANGED cluster

\* Capture is best effort: ensureCapture's error is logged and the state stands.
\* The state of a slot just created is whatever Refresh returned with its error.
ApiError(c) ==
    /\ InFlight(c) /\ call[c].pc \notin {"lookup", "mark", "put", "forget"}
    /\ \/ call[c].abandoned /\ UNCHANGED faults
       \/ ~call[c].abandoned /\ Fault("api")
    /\ UNCHANGED cluster \/ Effect(c)
    /\ CASE call[c].pc \in {"capGet", "capCreate"} ->
               call' = [call EXCEPT ![c].pc = "put", ![c].pod = NoPod]
         [] call[c].pc = "refresh" /\ call[c].op = "POST" /\ call[c].fresh ->
               call' = [call EXCEPT ![c].pc = "put", ![c].state = ""]
         [] OTHER -> Answer(c, "error")
    /\ UNCHANGED <<env, orch, entry, client, gone>>

\* The process dies with its map and its handlers; clients see a broken connection.
Crash ==
    /\ orch = "up" /\ Fault("crash")
    /\ orch' = "down"
    /\ entry' = NoEntry
    /\ call' = [c \in Calls |->
                  IF ~InFlight(c) THEN call[c]
                  ELSE IF call[c].abandoned THEN Idle ELSE Answered(c, "error")]
    /\ UNCHANGED <<env, cluster, client, gone>>

\* ListExisting: the map is rebuilt from the pods; orphan capture Jobs are
\* reaped, or left with a warning.
ListExisting ==
    /\ orch = "down"
    /\ orch' = "up"
    /\ entry' = IF pod = NoPod THEN NoEntry ELSE [image |-> pod.image, state |-> deriveState(pod)]
    /\ capture' \in IF pod = NoPod THEN {NoJob, capture} ELSE {capture}
    /\ UNCHANGED <<env, faults, pod, svc, nextUid, call, client, gone>>

-----------------------------------------------------------------------------
(* orchestrator/client.go under runSession *)

Request(r, op) ==
    [op |-> op, pc |-> "lookup", entry |-> NoEntry, pod |-> NoPod, fresh |-> FALSE, state |-> "",
     abandoned |-> FALSE, quiet |-> op = "DELETE" /\ Posting = {}]

\* A POST ends the quiet of every DELETE under way.
Issue(r, kind, op) ==
    LET disturbed == [c \in Calls |->
            IF op = "POST" /\ InFlight(c) THEN [call[c] EXCEPT !.quiet = FALSE] ELSE call[c]]
    IN  IF orch = "up"
        THEN call' = [disturbed EXCEPT ![<<r, kind>>] = Request(r, op)]
        ELSE call' = [disturbed EXCEPT ![<<r, kind>>] =
                        [op |-> op, pc |-> "answered", answer |-> "error", abandoned |-> FALSE]]

\* The slot id of a session is requested again only when its earlier run is over.
CreateSlot(r) ==
    /\ client[r].pc = "start"
    /\ r > 1 => client[r - 1].pc = "done"
    /\ Issue(r, "work", "POST")
    /\ client' = [client EXCEPT ![r] =
          [pc |-> "create", sound |-> Quiet /\ Truthful,
           clean |-> Quiet /\ Clean /\ entry = NoEntry]]
    /\ gone' = FALSE
    /\ UNCHANGED <<env, faults, orch, entry, cluster>>

\* doSlot: not found and errors end the session before its deferred release.
CreateSlotReturns(r) ==
    /\ client[r].pc = "create" /\ call[<<r, "work">>].pc = "answered"
    /\ client' = [client EXCEPT ![r].pc =
          IF call[<<r, "work">>].answer \in States THEN "poll" ELSE "done"]
    /\ call' = [call EXCEPT ![<<r, "work">>] = NoAnswer]
    /\ UNCHANGED <<env, faults, orch, entry, cluster, gone>>

\* WaitForReady polls, or finds its deadline over.
WaitForReady(r) ==
    /\ client[r].pc = "poll"
    /\ \/ Issue(r, "work", "GET") /\ client' = [client EXCEPT ![r].pc = "get"]
       \/ client' = [client EXCEPT ![r].pc = "release"] /\ UNCHANGED call
    /\ UNCHANGED <<env, faults, orch, entry, cluster, gone>>

GetSlotReturns(r) ==
    /\ client[r].pc = "get" /\ call[<<r, "work">>].pc = "answered"
    /\ LET a == call[<<r, "work">>].answer
       IN  client' = [client EXCEPT ![r].pc =
                CASE a = "ready" -> "drive"
                  [] a \in {"creating", "terminating", ""} -> "poll"
                  [] a \in {"failed", "notfound", "error"} -> "release"]
    /\ call' = [call EXCEPT ![<<r, "work">>] = NoAnswer]
    /\ UNCHANGED <<env, faults, orch, entry, cluster, gone>>

DriveEnds(r) ==
    /\ client[r].pc = "drive"
    /\ client' = [client EXCEPT ![r].pc = "release"]
    /\ UNCHANGED <<env, faults, orch, entry, cluster, call, gone>>

\* The deferred releaseSlot.
ReleaseSlot(r) ==
    /\ client[r].pc = "release"
    /\ Issue(r, "release", "DELETE")
    /\ client' = [client EXCEPT ![r].pc = "delete"]
    /\ UNCHANGED <<env, faults, orch, entry, cluster, gone>>

\* An error is logged and the slot is left.
DeleteSlotReturns(r) ==
    /\ client[r].pc = "delete" /\ call[<<r, "release">>].pc = "answered"
    /\ client' = [client EXCEPT ![r].pc = "done"]
    /\ call' = [call EXCEPT ![<<r, "release">>] = NoAnswer]
    /\ UNCHANGED <<env, faults, orch, entry, cluster, gone>>

Abandon(r) ==
    call' = [c \in Calls |->
               IF c[1] # r \/ call[c].op = "none" THEN call[c]
               ELSE IF InFlight(c) THEN [call[c] EXCEPT !.abandoned = TRUE] ELSE Idle]

\* The HTTP timeout of the client, or the deadline of WaitForReady or releaseSlot.
ClientTimeout(r) ==
    /\ client[r].pc \in {"create", "get", "delete"} /\ Fault("timeout")
    /\ Abandon(r)
    /\ client' = [client EXCEPT ![r].pc = IF @ = "get" THEN "release" ELSE "done"]
    /\ UNCHANGED <<env, orch, entry, cluster, gone>>

\* The controller process dies; its recovery sweep releases no slot.
ControllerCrash(r) ==
    /\ client[r].pc \notin {"start", "done"} /\ Fault("controller")
    /\ Abandon(r)
    /\ client' = [client EXCEPT ![r].pc = "done"]
    /\ UNCHANGED <<env, orch, entry, cluster, gone>>

-----------------------------------------------------------------------------

Handler(c) ==
    \/ PostLookup(c) \/ EnsurePodGet(c) \/ EnsurePodCreate(c) \/ EnsurePodAgain(c)
    \/ CreateSlotGetService(c) \/ CreateSlotCreateService(c)
    \/ GetLookup(c)
    \/ Refresh(c) \/ EnsureCaptureGet(c) \/ EnsureCaptureCreate(c) \/ PutSlot(c)
    \/ DeleteLookup(c) \/ DeleteMark(c) \/ DeletePod(c) \/ DeleteService(c)
    \/ DeleteCapture(c) \/ Forget(c)

Client(r) ==
    \/ CreateSlot(r) \/ CreateSlotReturns(r)
    \/ WaitForReady(r) \/ GetSlotReturns(r) \/ DriveEnds(r)
    \/ ReleaseSlot(r) \/ DeleteSlotReturns(r)

Next ==
    \/ PodRuns \/ PodGone \/ GarbageCollect
    \/ \E c \in Calls : Handler(c) \/ ApiError(c)
    \/ \E r \in Runs : Client(r) \/ ClientTimeout(r) \/ ControllerCrash(r)
    \/ Crash \/ ListExisting

\* The kubelet ends what is deleted and the garbage collector collects.  The
\* algo, the clients, the handlers and the network owe nothing.
Fairness == WF_vars(PodGone) /\ WF_vars(GarbageCollect)

Spec == Init /\ [][Next]_vars /\ Fairness

-----------------------------------------------------------------------------
(* Properties *)

\* Released slots leave nothing behind: when DELETE /slots/{id} is answered
\* and no POST for the slot ran beside it or came after it, pod, Service and
\* capture Job are all gone in the end, even if a GET whose client gave up is
\* still in Refresh and creates the Job again behind DeleteSlot's back.
ReleasedIsGone == gone ~> (Clean \/ ~gone)

\* A session that is told its slot is ready has the pod of its own image behind a
\* Service for as long as it drives load, whatever an earlier session on the slot id
\* left behind half created, provided that when it asked no earlier handler was still
\* running and the map was truthful, and that the orchestrator is not restarted.  The
\* map can lie: a DELETE that fails half way keeps its entry, under which a request
\* for another image, or a create whose client gave up, makes a pod of its own.  If
\* moreover the slot was clean when the session asked for it and the API server
\* answers, the load is measured: the capture Job belongs to the pod that is driven
\* and writes to the band the session leased.
DrivenIsServed ==
    \A r \in Runs : client[r].pc = "drive" =>
        /\ client[r].sound /\ "crash" \notin env.faults =>
            svc /\ Live /\ pod.image = env.image[r]
        /\ client[r].clean /\ "api" \notin env.faults =>
            capture.uid = pod.uid /\ capture.band = BandOf(r)
=============================================================================
