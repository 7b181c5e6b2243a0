---------------------------- MODULE SandboxProofs ----------------------------
(***************************************************************************)
(* DrivenIsServed for any number of sessions on the slot id, any images    *)
(* and any number of faults of any kind.                                   *)
(*                                                                         *)
(* A session that found no handler running has the slot to itself until it *)
(* stops driving: earlier sessions are over, later ones have not begun, so *)
(* its own POST or GET is the only handler there is and no DELETE runs.    *)
(* What the slot lacks at each program point of that handler is then the   *)
(* invariant: nothing once the handler has passed the Service.             *)
(***************************************************************************)
EXTENDS Sandbox, TLAPS

Fields == {"op", "pc", "entry", "pod", "fresh", "state", "abandoned", "quiet"}
Phases == {"pending", "primary", "ready", "failed"}

\* The program points of a handler.
Refreshes == {"refresh", "capGet", "capCreate", "put"}
Points(op) ==
    CASE op = "POST" -> {"lookup", "getPod", "createPod", "regetPod", "getSvc", "createSvc"} \cup Refreshes
      [] op = "GET" -> {"lookup"} \cup Refreshes
      [] OTHER -> {"lookup", "mark", "delPod", "delSvc", "delCap", "forget"}

CallShape(c) ==
    /\ DOMAIN call[c] = Fields
    /\ call[c].state \in States /\ call[c].pc \in Points(call[c].op)

PodShape ==
    pod # NoPod =>
        /\ DOMAIN pod = {"uid", "image", "band", "phase", "deleting"}
        /\ pod.phase \in Phases /\ pod.deleting \in BOOLEAN

\* What the steps need to know of the shape of the state.
Shape ==
    /\ env \in Environments
    /\ "crash" \notin env.faults => orch = "up"
    /\ PodShape
    /\ DOMAIN call = Calls
    /\ \A c \in Calls : InFlight(c) => CallShape(c)
    /\ DOMAIN client = Runs
    /\ \A r \in Runs : /\ DOMAIN client[r] = {"pc", "sound", "clean"}
                       /\ client[r].clean => client[r].sound

\* A session starts when the earlier ones are over.
Order == \A q, r \in Runs : q < r /\ client[r].pc # "start" => client[q].pc = "done"

\* The session has not asked for its slot's release.
Holds(r) == client[r].pc \in {"create", "poll", "get", "drive"} /\ client[r].sound

Work(r) == <<r, "work">>

\* The only handler is the one the session waits for.
Own(r) ==
    /\ \A c \in Calls : InFlight(c) => c = Work(r)
    /\ InFlight(Work(r)) => ~call[Work(r)].abandoned
    /\ client[r].pc = "create" => call[Work(r)].op = "POST"
    /\ client[r].pc = "get" => call[Work(r)].op = "GET"
    /\ client[r].pc \in {"poll", "drive"} => ~InFlight(Work(r))

\* A running pod of the slot is the session's, behind its Service.
Complete(r) == Live => svc /\ pod.image = env.image[r]

\* How far the session's own POST has got.
Posted(r, points) == client[r].pc = "create" /\ InFlight(Work(r)) /\ call[Work(r)].pc \in points

\* Its GET found the slot ready, or the session was told so.
Ready(r) ==
    \/ client[r].pc = "drive"
    \/ /\ client[r].pc = "get"
       /\ \/ InFlight(Work(r)) /\ call[Work(r)].pc = "put" /\ call[Work(r)].state = "ready"
          \/ call[Work(r)].pc = "answered" /\ call[Work(r)].answer = "ready"

\* The handler holds a copy of the pod.
Copied(r) == InFlight(Work(r)) /\ call[Work(r)].pc \in {"capGet", "capCreate"}

\* What a session may be told.
Told(r) ==
    client[r].pc = "get" /\ call[Work(r)].pc = "answered" =>
        call[Work(r)].answer \in States \cup {"notfound", "error"}

Served(r) ==
    /\ Posted(r, {"lookup"}) => Truthful
    /\ Posted(r, {"getSvc", "createSvc"}) /\ Live => pod.image = env.image[r]
    /\ Posted(r, {"refresh", "capGet", "capCreate", "put"}) => Complete(r)
    /\ client[r].pc = "create" /\ call[Work(r)].pc = "answered" /\ call[Work(r)].answer \in States => Complete(r)
    /\ client[r].pc \in {"poll", "get", "drive"} => Complete(r)

\* The capture Job, if there is one, is of the running pod and of the session's band.
Recorded(r) == capture.uid = pod.uid /\ capture.band = r

Captured(r) ==
    /\ pod # NoPod => Live /\ pod.band = r
    /\ capture # NoJob => Live /\ Recorded(r)
    /\ Copied(r) => call[Work(r)].pod.uid = pod.uid /\ call[Work(r)].pod.band = r
    /\ Ready(r) => Recorded(r)

\* What the session is owed at the point it has reached.
Kept(r) ==
    /\ Copied(r) \/ Ready(r) => Live
    /\ "crash" \notin env.faults => Served(r)
    /\ client[r].clean /\ "api" \notin env.faults => Captured(r)

Undisturbed == \A r \in Runs : Holds(r) => Own(r) /\ Told(r) /\ Kept(r)

IInv == Shape /\ Order /\ Undisturbed

-----------------------------------------------------------------------------
(* Handlers *)

\* A handler goes on, or ends: nobody sees the end of an abandoned one.
Moves(c) ==
    /\ DOMAIN call' = Calls
    /\ \A d \in Calls : d # c => call'[d] = call[d]
    /\ \/ /\ DOMAIN call'[c] = Fields /\ call'[c].op = call[c].op /\ call'[c].pc \in Points(call[c].op)
          /\ call'[c].abandoned = call[c].abandoned /\ call'[c].state \in States
       \/ call[c].abandoned /\ call'[c].op = "none"
       \/ /\ ~call[c].abandoned /\ call'[c].op = call[c].op /\ call'[c].pc = "answered"
          /\ call[c].op = "GET" => call'[c].answer \in States \cup {"notfound", "error"}

\* No handler is at an answer.
LEMMA PointsNames ==
    /\ \A op : "answered" \notin Points(op)
    /\ Points("POST") = {"lookup", "getPod", "createPod", "regetPod", "getSvc", "createSvc"} \cup Refreshes
    /\ Points("GET") = {"lookup"} \cup Refreshes
    /\ Points("DELETE") = {"lookup", "mark", "delPod", "delSvc", "delCap", "forget"}
  BY DEF Points, Refreshes

\* What Goto does.
LEMMA GotoMoves ==
    ASSUME Shape, NEW c \in Calls, InFlight(c), NEW pc \in Points(call[c].op), Goto(c, pc)
    PROVE  /\ Moves(c) /\ call'[c].pc = pc
           /\ call'[c].pod = call[c].pod /\ call'[c].state = call[c].state
  BY Zenon DEF Shape, Goto, Moves, Fields, CallShape

\* What Answer does.
LEMMA AnswerMoves ==
    ASSUME Shape, NEW c \in Calls, InFlight(c), NEW a, Answer(c, a),
           call[c].op = "GET" => a \in States \cup {"notfound", "error"}
    PROVE  /\ Moves(c)
           /\ ~call[c].abandoned =>
                 call'[c].pc = "answered" /\ call'[c].answer = a /\ call'[c].op = call[c].op
<1>1. /\ DOMAIN call' = Calls
      /\ \A d \in Calls : d # c => call'[d] = call[d]
      /\ call'[c] = IF call[c].abandoned THEN Idle ELSE Answered(c, a)
  BY Zenon DEF Shape, Answer
<1>2. CASE call[c].abandoned
  <2>1. call'[c].op = "none"
    BY <1>1, <1>2 DEF Idle
  <2> QED BY Zenon, <1>1, <1>2, <2>1 DEF Moves
<1>3. CASE ~call[c].abandoned
  <2>1. call'[c].pc = "answered" /\ call'[c].answer = a /\ call'[c].op = call[c].op
    BY <1>1, <1>3 DEF Answered
  <2> QED BY Zenon, <1>1, <1>3, <2>1 DEF Moves
<1> QED
  BY Zenon, <1>2, <1>3

\* A handler's step disturbs nobody but the session that waits for it.
LEMMA MovesKeep ==
    ASSUME IInv, NEW c \in Calls, InFlight(c), Moves(c),
           UNCHANGED <<env, client>>,
           "crash" \notin env.faults => orch' = "up",
           PodShape',
           \A r \in Runs : Holds(r) /\ Own(r) /\ c = Work(r) => Kept(r)'
    PROVE  IInv'
<1> USE DEF IInv
<1>1. Runs' = Runs /\ Calls' = Calls
  BY Zenon DEF Runs, Calls
<1>2. \A d \in Calls : InFlight(d)' => InFlight(d) /\ CallShape(d)'
  <2> SUFFICES ASSUME NEW d \in Calls, InFlight(d)'
               PROVE  InFlight(d) /\ CallShape(d)'
    BY Zenon
  <2>1. CASE d # c
    BY Zenon, <2>1 DEF Moves, Shape, InFlight, CallShape
  <2>2. CASE d = c
    BY Zenon, <2>2 DEF Moves, InFlight, CallShape
  <2> QED BY Zenon, <2>1, <2>2
<1>3. Shape'
  BY Zenon, <1>1, <1>2 DEF Shape, Moves
<1>4. Order'
  BY Zenon, <1>1 DEF Order
<1>5. Undisturbed'
  <2> SUFFICES ASSUME NEW r \in Runs, Holds(r)'
               PROVE  (Own(r) /\ Told(r) /\ Kept(r))'
    BY Zenon, <1>1 DEF Undisturbed
  <2>1. Holds(r) /\ Own(r) /\ Told(r) /\ c = Work(r)
    BY Zenon DEF Holds, Undisturbed, Own
  <2>2. ~call[c].abandoned
    BY Zenon, <2>1 DEF Own
  <2>3. call'[c].op = call[c].op /\ (InFlight(c)' => ~call'[c].abandoned)
    BY Zenon, <2>2 DEF Moves, InFlight
  <2>4. Own(r)'
    BY Zenon, <1>1, <1>2, <2>1, <2>3 DEF Own
  <2>5. Told(r)'
    <3>1. SUFFICES ASSUME client[r].pc = "get", call'[c].pc = "answered"
                   PROVE  call'[c].answer \in States \cup {"notfound", "error"}
      BY Zenon, <2>1 DEF Told
    <3>2. call[c].op = "GET"
      BY Zenon, <2>1, <3>1 DEF Own
    <3> QED BY Zenon, <2>2, <3>1, <3>2, PointsNames DEF Moves, InFlight
  <2> QED BY Zenon, <2>1, <2>4, <2>5
<1> QED
  BY Zenon, <1>3, <1>4, <1>5

\* The handler of a session that has the slot is its POST or its GET.
LEMMA Mine ==
    ASSUME IInv, NEW r \in Runs, Holds(r), InFlight(Work(r))
    PROVE  /\ Own(r) /\ Kept(r)
           /\ ~call[Work(r)].abandoned
           /\ call[Work(r)].op = "POST" <=> client[r].pc = "create"
           /\ call[Work(r)].op = "GET" <=> client[r].pc = "get"
           /\ call[Work(r)].op # "DELETE"
<1>1. Own(r) /\ Kept(r)
  BY Zenon DEF IInv, Undisturbed
<1>2. client[r].pc \in {"create", "get"}
  BY Zenon, <1>1 DEF Own, Holds
<1>3. ~call[Work(r)].abandoned
  BY Zenon, <1>1 DEF Own
<1>4. CASE client[r].pc = "create"
  BY Zenon, <1>1, <1>3, <1>4 DEF Own
<1>5. CASE client[r].pc = "get"
  BY Zenon, <1>1, <1>3, <1>5 DEF Own
<1> QED
  BY Zenon, <1>2, <1>4, <1>5

\* The map's lookup of CreateSlot.
LEMMA PostLookupStep ==
    ASSUME IInv, NEW c \in Calls, PostLookup(c)
    PROVE  IInv'
<1>1. /\ InFlight(c) /\ call[c].op = "POST" /\ call[c].pc = "lookup"
      /\ UNCHANGED <<env, client, orch, entry, pod, svc, capture>>
  BY Zenon DEF PostLookup, At, cluster
<1>2. Moves(c) /\ call'[c].pc = IF entry = NoEntry \/ entry.image # env.image[c[1]] THEN "getPod" ELSE "refresh"
  <2> DEFINE pc == IF entry = NoEntry \/ entry.image # env.image[c[1]] THEN "getPod" ELSE "refresh"
             x == [[call[c] EXCEPT !.entry = entry] EXCEPT
                      !.fresh = entry = NoEntry \/ entry.image # env.image[c[1]]]
  <2>1. call' = [call EXCEPT ![c] = [x EXCEPT !.pc = pc]]
    BY Zenon DEF PostLookup
  <2>2. pc \in Points(call[c].op)
    BY Zenon, <1>1, PointsNames DEF Refreshes
  <2> QED BY Zenon, <1>1, <2>1, <2>2 DEF IInv, Shape, Fields, Moves, CallShape
<1>3. ASSUME NEW r \in Runs, Holds(r), Own(r), c = Work(r)
      PROVE  Kept(r)'
  <2>1. client[r].pc = "create" /\ Kept(r) /\ c[1] = r
    BY <1>1, <1>3, Mine DEF Work
  <2>2. Posted(r, {"lookup"})
    BY Zenon, <1>1, <1>3, <2>1 DEF Posted
  <2>3. ~Copied(r)' /\ ~Ready(r)'
    BY Zenon, <1>1, <1>2, <1>3, <2>1 DEF Copied, Ready
  <2>4. ASSUME "crash" \notin env.faults PROVE Served(r)'
    <3>1. Truthful
      BY Zenon, <2>1, <2>2, <2>4 DEF Kept, Served
    <3> QED BY Zenon, <1>1, <1>2, <1>3, <2>1, <3>1 DEF Served, Posted, Complete, Truthful, Live
  <2>5. Captured(r) => Captured(r)'
    BY Zenon, <1>1, <2>3 DEF Captured, Live, Recorded
  <2> QED BY Zenon, <1>1, <2>1, <2>3, <2>4, <2>5 DEF Kept
<1> QED
  BY Zenon, <1>1, <1>2, <1>3, MovesKeep DEF IInv, Shape, PodShape

\* A step of a POST that only reads the cluster, on the way to the Service.
LEMMA PostReads ==
    ASSUME IInv, NEW c \in Calls, InFlight(c), call[c].op = "POST", Moves(c),
           UNCHANGED <<env, client, orch, entry, pod, svc, capture>>,
           ~call[c].abandoned =>
              \/ call'[c].pc \in {"createPod", "regetPod", "getSvc", "createSvc", "refresh"}
              \/ call'[c].pc = "answered" /\ call'[c].answer = "error",
           \A r \in Runs : Holds(r) /\ c = Work(r) /\ "crash" \notin env.faults =>
              /\ call'[c].pc \in {"getSvc", "createSvc"} /\ Live => pod.image = env.image[r]
              /\ call'[c].pc = "refresh" => Complete(r)
    PROVE  IInv'
<1>1. ASSUME NEW r \in Runs, Holds(r), Own(r), c = Work(r)
      PROVE  Kept(r)'
  <2>1. client[r].pc = "create" /\ Kept(r) /\ ~call[c].abandoned
    BY Zenon, <1>1, Mine
  <2>2. ~Copied(r)' /\ ~Ready(r)'
    BY Zenon, <1>1, <2>1 DEF Copied, Ready
  <2>3. ASSUME "crash" \notin env.faults PROVE Served(r)'
    <3>1. "error" \notin States
      BY Zenon DEF States
    <3>2. /\ call'[c].pc \in {"getSvc", "createSvc"} /\ Live => pod.image = env.image[r]
          /\ call'[c].pc = "refresh" => Complete(r)
      BY Zenon, <1>1, <2>3
    <3>3. Live' = Live /\ Complete(r)' = Complete(r)
      BY Zenon DEF Live, Complete
    <3>4. ~Posted(r, {"lookup"})'
      BY Zenon, <1>1, <2>1 DEF Posted
    <3>5. /\ Posted(r, {"getSvc", "createSvc"})' => call'[c].pc \in {"getSvc", "createSvc"}
          /\ Posted(r, {"refresh", "capGet", "capCreate", "put"})' => call'[c].pc = "refresh"
      BY Zenon, <1>1, <2>1 DEF Posted, InFlight
    <3> QED BY Zenon, <1>1, <2>1, <3>1, <3>2, <3>3, <3>4, <3>5 DEF Served
  <2>4. Captured(r) => Captured(r)'
    BY Zenon, <2>2 DEF Captured, Live, Recorded
  <2> QED BY Zenon, <2>1, <2>2, <2>3, <2>4 DEF Kept
<1> QED
  BY Zenon, <1>1, MovesKeep DEF IInv, Shape, PodShape

\* CreateSlot goes on with a pod of its own image only.
LEMMA MatchedStep ==
    ASSUME IInv, NEW c \in Calls, InFlight(c), call[c].op = "POST", pod # NoPod, Matched(c, pod),
           UNCHANGED <<env, client, orch, entry, pod, svc, capture>>
    PROVE  IInv'
<1>1. CASE pod.image = env.image[c[1]] /\ Goto(c, "getSvc")
  <2>1. Moves(c) /\ call'[c].pc = "getSvc"
    BY Zenon, <1>1, GotoMoves, PointsNames DEF IInv
  <2>2. \A r \in Runs : c = Work(r) => c[1] = r
    BY DEF Work
  <2> QED BY Zenon, <1>1, <2>1, <2>2, PostReads
<1>2. CASE Answer(c, "error")
  <2>1. Moves(c) /\ (~call[c].abandoned => call'[c].pc = "answered" /\ call'[c].answer = "error")
    BY Zenon, <1>2, AnswerMoves DEF IInv
  <2>2. \A r \in Runs : Holds(r) /\ c = Work(r) => ~call[c].abandoned
    BY Zenon, Mine
  <2> QED BY Zenon, <2>1, <2>2, PostReads
<1> QED
  BY Zenon, <1>1, <1>2 DEF Matched

\* ensurePod reads the pod.
LEMMA EnsurePodGetStep ==
    ASSUME IInv, NEW c \in Calls, EnsurePodGet(c)
    PROVE  IInv'
<1>1. /\ InFlight(c) /\ call[c].op = "POST"
      /\ UNCHANGED <<env, client, orch, entry, pod, svc, capture>>
      /\ IF pod = NoPod THEN Goto(c, "createPod") ELSE Matched(c, pod)
  BY Zenon DEF EnsurePodGet, At, cluster
<1>2. CASE Goto(c, "createPod")
  <2>1. Moves(c) /\ call'[c].pc = "createPod"
    BY Zenon, <1>1, <1>2, GotoMoves, PointsNames DEF IInv
  <2> QED BY Zenon, <1>1, <2>1, PostReads
<1> QED
  BY Zenon, <1>1, <1>2, MatchedStep

\* ensurePod reads the pod that won the race.
LEMMA EnsurePodAgainStep ==
    ASSUME IInv, NEW c \in Calls, EnsurePodAgain(c)
    PROVE  IInv'
<1>1. /\ InFlight(c) /\ call[c].op = "POST"
      /\ UNCHANGED <<env, client, orch, entry, pod, svc, capture>>
      /\ IF pod = NoPod THEN Answer(c, "error") ELSE Matched(c, pod)
  BY Zenon DEF EnsurePodAgain, At, cluster
<1>2. CASE Answer(c, "error")
  <2>1. Moves(c) /\ (~call[c].abandoned => call'[c].pc = "answered" /\ call'[c].answer = "error")
    BY Zenon, <1>1, <1>2, AnswerMoves DEF IInv
  <2>2. \A r \in Runs : Holds(r) /\ c = Work(r) => ~call[c].abandoned
    BY Zenon, <1>1, Mine
  <2> QED BY Zenon, <1>1, <2>1, <2>2, PostReads
<1> QED
  BY Zenon, <1>1, <1>2, MatchedStep

\* CreateSlot looks for the Service.
LEMMA CreateSlotGetServiceStep ==
    ASSUME IInv, NEW c \in Calls, CreateSlotGetService(c)
    PROVE  IInv'
<1>1. /\ InFlight(c) /\ call[c].op = "POST" /\ call[c].pc = "getSvc"
      /\ UNCHANGED <<env, client, orch, entry, pod, svc, capture>>
      /\ Goto(c, IF svc THEN "refresh" ELSE "createSvc")
  BY Zenon DEF CreateSlotGetService, At, cluster
<1>2. Moves(c) /\ call'[c].pc = IF svc THEN "refresh" ELSE "createSvc"
  <2>1. (IF svc THEN "refresh" ELSE "createSvc") \in Points(call[c].op)
    BY Zenon, <1>1, PointsNames DEF Refreshes
  <2> QED BY Zenon, <1>1, <2>1, GotoMoves DEF IInv
<1>3. ASSUME NEW r \in Runs, Holds(r), c = Work(r), "crash" \notin env.faults
      PROVE  Live => pod.image = env.image[r]
  <2>1. client[r].pc = "create" /\ Kept(r)
    BY Zenon, <1>1, <1>3, Mine
  <2>2. Posted(r, {"getSvc", "createSvc"})
    BY Zenon, <1>1, <1>3, <2>1 DEF Posted
  <2> QED BY Zenon, <1>3, <2>1, <2>2 DEF Kept, Served
<1> QED
  BY Zenon, <1>1, <1>2, <1>3, PostReads DEF Complete

\* The shape and the fields of a pod just made.
LEMMA PodMade ==
    ASSUME NEW c, PodCreated(c)
    PROVE  /\ pod = NoPod /\ UNCHANGED <<svc, capture>>
           /\ DOMAIN pod' = {"uid", "image", "band", "phase", "deleting"}
           /\ pod'.phase = "pending" /\ pod'.phase \in Phases
           /\ ~pod'.deleting /\ pod'.deleting \in BOOLEAN
           /\ pod'.image = env.image[c[1]] /\ pod'.band = c[1] /\ pod' # NoPod
<1>1. pod' = podSpec(c) /\ pod = NoPod /\ UNCHANGED <<svc, capture>>
  BY Zenon DEF PodCreated
<1>2. /\ DOMAIN podSpec(c) = {"uid", "image", "band", "phase", "deleting"}
      /\ podSpec(c).phase = "pending" /\ podSpec(c).deleting = FALSE
      /\ podSpec(c).image = env.image[c[1]] /\ podSpec(c).band = c[1]
  BY Zenon DEF podSpec, BandOf
<1>3. DOMAIN NoPod = {"uid"} /\ "image" \notin {"uid"}
  BY Zenon DEF NoPod
<1> QED
  BY Zenon, <1>1, <1>2, <1>3 DEF Phases

\* ensurePod creates the pod, or finds that another did.
LEMMA EnsurePodCreateStep ==
    ASSUME IInv, NEW c \in Calls, EnsurePodCreate(c)
    PROVE  IInv'
<1>1. /\ InFlight(c) /\ call[c].op = "POST" /\ UNCHANGED <<env, client, orch, entry>>
      /\ {"getSvc", "regetPod"} \subseteq Points(call[c].op)
  BY Zenon, PointsNames DEF EnsurePodCreate, At
<1>2. CASE PodCreated(c) /\ Goto(c, "getSvc")
  <2>1. Moves(c) /\ call'[c].pc = "getSvc"
    BY Zenon, <1>1, <1>2, GotoMoves DEF IInv
  <2>2. ASSUME NEW r \in Runs, Holds(r), Own(r), c = Work(r)
        PROVE  Kept(r)'
    <3>1. client[r].pc = "create" /\ Kept(r) /\ c[1] = r
      BY Zenon, <1>1, <2>2, Mine DEF Work
    <3>2. ~Copied(r)' /\ ~Ready(r)'
      BY Zenon, <1>1, <2>1, <2>2, <3>1 DEF Copied, Ready
    <3>3. Served(r)'
      BY Zenon, <1>1, <1>2, <2>1, <2>2, <3>1, PodMade DEF Served, Posted, InFlight
    <3>4. Captured(r) => Captured(r)'
      BY Zenon, <1>2, <3>1, <3>2, PodMade DEF Captured, Live
    <3> QED BY Zenon, <1>1, <3>1, <3>2, <3>3, <3>4 DEF Kept
  <2> QED BY Zenon, <1>1, <1>2, <2>1, <2>2, PodMade, MovesKeep DEF IInv, Shape, PodShape
<1>3. CASE Goto(c, "regetPod") /\ UNCHANGED cluster
  <2>1. Moves(c) /\ call'[c].pc = "regetPod"
    BY Zenon, <1>1, <1>3, GotoMoves DEF IInv
  <2> QED BY Zenon, <1>1, <1>3, <2>1, PostReads DEF cluster
<1> QED
  BY Zenon, <1>2, <1>3 DEF EnsurePodCreate

\* CreateSlot creates the Service.
LEMMA CreateSlotCreateServiceStep ==
    ASSUME IInv, NEW c \in Calls, CreateSlotCreateService(c)
    PROVE  IInv'
<1>1. /\ InFlight(c) /\ call[c].op = "POST" /\ call[c].pc = "createSvc"
      /\ UNCHANGED <<env, client, orch, entry, pod, capture>> /\ svc'
      /\ "refresh" \in Points(call[c].op) /\ Goto(c, "refresh")
  BY Zenon, PointsNames DEF CreateSlotCreateService, At, Refreshes
<1>2. Moves(c) /\ call'[c].pc = "refresh"
  BY Zenon, <1>1, GotoMoves DEF IInv
<1>3. ASSUME NEW r \in Runs, Holds(r), Own(r), c = Work(r)
      PROVE  Kept(r)'
  <2>1. client[r].pc = "create" /\ Kept(r)
    BY Zenon, <1>1, <1>3, Mine
  <2>2. ~Copied(r)' /\ ~Ready(r)'
    BY Zenon, <1>1, <1>2, <1>3, <2>1 DEF Copied, Ready
  <2>3. Posted(r, {"getSvc", "createSvc"})
    BY Zenon, <1>1, <1>3, <2>1 DEF Posted
  <2>4. Served(r) => Served(r)'
    BY Zenon, <1>1, <1>2, <1>3, <2>1, <2>3 DEF Served, Posted, Complete, Live
  <2>5. Captured(r) => Captured(r)'
    BY Zenon, <1>1, <2>2 DEF Captured, Live, Recorded
  <2> QED BY Zenon, <1>1, <2>1, <2>2, <2>4, <2>5 DEF Kept
<1> QED
  BY Zenon, <1>1, <1>2, <1>3, MovesKeep DEF IInv, Shape, PodShape

\* A handler ends with an answer.
LEMMA AnswerStep ==
    ASSUME IInv, NEW c \in Calls, InFlight(c), NEW a, Answer(c, a),
           UNCHANGED <<env, client, orch, pod, svc, capture>>,
           call[c].op = "GET" => /\ a \in States \cup {"notfound", "error"}
                                 /\ a = "ready" => call[c].pc = "put" /\ call[c].state = "ready",
           call[c].op = "POST" /\ a \in States => call[c].pc \in Refreshes
    PROVE  IInv'
<1>1. Moves(c)
  BY Zenon, AnswerMoves DEF IInv
<1>2. ASSUME NEW r \in Runs, Holds(r), Own(r), c = Work(r)
      PROVE  Kept(r)'
  <2>1. /\ Kept(r) /\ ~call[c].abandoned
        /\ call[c].op = "POST" <=> client[r].pc = "create"
        /\ call[c].op = "GET" <=> client[r].pc = "get"
    BY Zenon, <1>2, Mine
  <2>2. call'[c].pc = "answered" /\ call'[c].answer = a
    BY Zenon, <2>1, AnswerMoves DEF IInv
  <2>3. client[r].pc # "drive" /\ ~InFlight(c)'
    BY Zenon, <1>2, <2>2 DEF Own, InFlight
  <2>4. ~Copied(r)' /\ (Ready(r)' => Ready(r))
    BY Zenon, <1>2, <2>1, <2>2, <2>3 DEF Copied, Ready
  <2>5. Live' = Live /\ Complete(r)' = Complete(r) /\ Recorded(r)' = Recorded(r)
    BY Zenon DEF Live, Complete, Recorded
  <2>6. \A points : ~Posted(r, points)'
    BY Zenon, <1>2, <2>3 DEF Posted
  <2>7. client[r].pc = "create" /\ a \in States => Posted(r, {"refresh", "capGet", "capCreate", "put"})
    BY Zenon, <1>2, <2>1 DEF Posted, Refreshes
  <2>8. Served(r) => Served(r)'
    BY Zenon, <1>2, <2>2, <2>5, <2>6, <2>7 DEF Served
  <2>9. Captured(r) => Captured(r)'
    BY Zenon, <2>4, <2>5 DEF Captured
  <2> QED BY Zenon, <2>1, <2>4, <2>5, <2>8, <2>9 DEF Kept
<1> QED
  BY Zenon, <1>1, <1>2, MovesKeep DEF IInv, Shape, PodShape

\* Answers that end a session or a poll.
LEMMA Refusals == "error" \notin States /\ "notfound" \notin States /\ "error" # "ready" /\ "notfound" # "ready"
  BY Zenon DEF States

\* GetSlot looks the slot up.
LEMMA GetLookupStep ==
    ASSUME IInv, NEW c \in Calls, GetLookup(c)
    PROVE  IInv'
<1>1. /\ InFlight(c) /\ call[c].op = "GET" /\ UNCHANGED <<env, client, orch, pod, svc, capture>>
      /\ "refresh" \in Points(call[c].op)
  BY Zenon, PointsNames DEF GetLookup, At, cluster, Refreshes
<1>2. CASE Answer(c, "notfound")
  BY Zenon, <1>1, <1>2, Refusals, AnswerStep
<1>3. CASE call' = [call EXCEPT ![c].entry = entry, ![c].pc = "refresh"]
  <2>1. call' = [call EXCEPT ![c] = [[call[c] EXCEPT !.entry = entry] EXCEPT !.pc = "refresh"]]
    BY Zenon, <1>3
  <2>2. Moves(c) /\ call'[c].pc = "refresh"
    BY Zenon, <1>1, <2>1 DEF IInv, Shape, Fields, Moves, CallShape
  <2>3. ASSUME NEW r \in Runs, Holds(r), Own(r), c = Work(r)
        PROVE  Kept(r)'
    <3>1. client[r].pc = "get" /\ Kept(r)
      BY Zenon, <1>1, <2>3, Mine
    <3>2. ~Copied(r)' /\ ~Ready(r)'
      BY Zenon, <1>1, <2>2, <2>3, <3>1 DEF Copied, Ready
    <3>3. Served(r) => Served(r)'
      BY Zenon, <1>1, <3>1 DEF Served, Posted, Complete, Live
    <3>4. Captured(r) => Captured(r)'
      BY Zenon, <1>1, <3>2 DEF Captured, Live, Recorded
    <3> QED BY Zenon, <1>1, <3>1, <3>2, <3>3, <3>4 DEF Kept
  <2> QED BY Zenon, <1>1, <2>2, <2>3, MovesKeep DEF IInv, Shape, PodShape
<1> QED
  BY Zenon, <1>2, <1>3 DEF GetLookup

\* The slot's state is written and answered.
LEMMA PutSlotStep ==
    ASSUME IInv, NEW c \in Calls, PutSlot(c)
    PROVE  IInv'
<1>1. /\ InFlight(c) /\ call[c].pc = "put" /\ Answer(c, call[c].state)
      /\ UNCHANGED <<env, client, orch, pod, svc, capture>>
  BY Zenon DEF PutSlot, cluster
<1>2. call[c].state \in States /\ call[c].pc \in Refreshes
  BY Zenon, <1>1 DEF IInv, Shape, Refreshes, CallShape
<1> QED
  BY Zenon, <1>1, <1>2, AnswerStep

\* A handler goes on inside Refresh, behind the Service.
LEMMA RefreshMoves ==
    ASSUME IInv, NEW c \in Calls, InFlight(c), Moves(c),
           call[c].pc \in Refreshes, call'[c].pc \in {"capGet", "capCreate", "put"},
           UNCHANGED <<env, client, orch, pod, svc>>,
           \A r \in Runs : Holds(r) /\ c = Work(r) =>
              /\ call'[c].pc \in {"capGet", "capCreate"} \/ call'[c].state = "ready" => Live
              /\ client[r].clean /\ "api" \notin env.faults =>
                    /\ capture' # NoJob => Live /\ Recorded(r)'
                    /\ call'[c].pc \in {"capGet", "capCreate"} => call'[c].pod.uid = pod.uid /\ call'[c].pod.band = r
                    /\ call'[c].pc = "put" /\ call'[c].state = "ready" => Recorded(r)'
    PROVE  IInv'
<1>1. ASSUME NEW r \in Runs, Holds(r), Own(r), c = Work(r)
      PROVE  Kept(r)'
  <2>1. /\ Kept(r) /\ client[r].pc # "drive"
        /\ call[c].op = "POST" <=> client[r].pc = "create"
    BY Zenon, <1>1, Mine DEF Own
  <2>2. /\ Copied(r)' => call'[c].pc \in {"capGet", "capCreate"}
        /\ Ready(r)' => call'[c].pc = "put" /\ call'[c].state = "ready"
    BY Zenon, <1>1, <2>1 DEF Copied, Ready
  <2>3. Live' = Live /\ Complete(r)' = Complete(r)
    BY Zenon DEF Live, Complete
  <2>4. Served(r) => Served(r)'
    <3>1. ~Posted(r, {"lookup"})' /\ ~Posted(r, {"getSvc", "createSvc"})' /\ call'[c].pc # "answered"
      BY Zenon, <1>1 DEF Posted
    <3>2. client[r].pc = "create" => Posted(r, {"refresh", "capGet", "capCreate", "put"})
      BY Zenon, <1>1 DEF Posted, Refreshes
    <3>3. Served(r) => Complete(r)
      BY Zenon, <1>1, <3>2 DEF Served, Holds
    <3> QED BY Zenon, <1>1, <2>3, <3>1, <3>3 DEF Served
  <2>5. client[r].clean /\ "api" \notin env.faults /\ Captured(r) => Captured(r)'
    BY Zenon, <1>1, <2>2, <2>3 DEF Captured
  <2> QED BY Zenon, <1>1, <2>1, <2>2, <2>3, <2>4, <2>5 DEF Kept
<1> QED
  BY Zenon, <1>1, MovesKeep DEF IInv, Shape, PodShape

\* A pod is ready only while it is not under deletion.
LEMMA DerivedReady ==
    ASSUME Shape, pod # NoPod
    PROVE  /\ deriveState(pod) \in States
           /\ deriveState(pod) = "ready" => Live
  BY Zenon DEF Shape, deriveState, Live, Phases, States, PodShape

\* Refresh finds no pod.
LEMMA NotFoundStep ==
    ASSUME IInv, NEW c \in Calls, InFlight(c), call[c].pc = "refresh", pod = NoPod, NotFound(c),
           UNCHANGED <<env, faults, orch, cluster, client, gone>>
    PROVE  IInv'
<1>1. /\ call[c].op \in {"POST", "GET"} /\ call[c].pc \in Refreshes
      /\ UNCHANGED <<env, client, orch, pod, svc, capture>>
  BY Zenon DEF IInv, Shape, Points, Refreshes, cluster, CallShape
<1>2. CASE call[c].op = "POST" /\ call[c].fresh
  <2>1. call' = [call EXCEPT ![c] = [[call[c] EXCEPT !.pc = "put"] EXCEPT !.state = ""]]
    BY Zenon, <1>2 DEF NotFound
  <2>2. "put" \in Points(call[c].op) /\ "" \in States
    BY Zenon, <1>2, PointsNames DEF Refreshes, States
  <2>3. Moves(c) /\ call'[c].pc = "put" /\ call'[c].state = ""
    BY Zenon, <2>1, <2>2 DEF IInv, Shape, Fields, Moves, CallShape
  <2>4. ASSUME NEW r \in Runs, Holds(r), c = Work(r), client[r].clean, "api" \notin env.faults
        PROVE  capture' # NoJob => Live /\ Recorded(r)'
    BY Zenon, <1>1, <2>4, Mine DEF Kept, Captured, Recorded
  <2> QED BY Zenon, <1>1, <2>3, <2>4, RefreshMoves
<1>3. CASE call[c].op = "POST" /\ ~call[c].fresh
  <2>1. Answer(c, call[c].entry.state)
    BY Zenon, <1>3 DEF NotFound
  <2> QED BY Zenon, <1>1, <1>3, <2>1, AnswerStep
<1>4. CASE call[c].op = "GET"
  <2>1. Answer(c, "notfound")
    BY Zenon, <1>4 DEF NotFound
  <2> QED BY Zenon, <1>1, <1>4, <2>1, Refusals, AnswerStep
<1> QED
  BY Zenon, <1>1, <1>2, <1>3, <1>4

\* Manager.Refresh reads the pod and dials its ports.
LEMMA RefreshStep ==
    ASSUME IInv, NEW c \in Calls, Refresh(c)
    PROVE  IInv'
<1>1. InFlight(c) /\ call[c].pc = "refresh" /\ UNCHANGED <<env, faults, orch, cluster, client, gone>>
  BY Zenon DEF Refresh
<1>2. CASE pod = NoPod
  BY Zenon, <1>1, <1>2, NotFoundStep DEF Refresh
<1>3. CASE pod # NoPod
  <2> DEFINE dialed == pod.phase = "ready"
             up == deriveState(pod) = "ready"
             pc == IF up /\ dialed THEN "capGet" ELSE "put"
             state == IF up /\ ~dialed THEN "creating" ELSE deriveState(pod)
             copy == IF up /\ dialed THEN pod ELSE NoPod
  <2>1. call' = [call EXCEPT ![c] =
                   [[[call[c] EXCEPT !.pc = pc] EXCEPT !.state = state] EXCEPT !.pod = copy]]
    BY Zenon, <1>3 DEF Refresh
  <2>2. call[c].pc \in Points(call[c].op) /\ call[c].pc \in Refreshes
    BY Zenon, <1>1 DEF IInv, Shape, Refreshes, CallShape
  <2>3. pc \in Points(call[c].op)
    BY Zenon, <1>1, <2>2 DEF Points, Refreshes
  <2>4. state \in States
    BY Zenon, <1>3, DerivedReady DEF IInv, States
  <2>5. pc = "capGet" => state = "ready" /\ copy = pod
    BY Zenon
  <2>6. state = "ready" => pc = "capGet" /\ Live
    BY Zenon, <1>3, DerivedReady DEF IInv
  <2> HIDE DEF pc, state, copy
  <2>7. Moves(c) /\ call'[c].pc = pc /\ call'[c].state = state /\ call'[c].pod = copy
    BY Zenon, <1>1, <2>1, <2>3, <2>4 DEF IInv, Shape, Fields, Moves, CallShape
  <2>8. pc \in {"capGet", "put"}
    BY Zenon DEF pc
  <2>9. UNCHANGED <<env, client, orch, pod, svc, capture>>
    BY Zenon, <1>1 DEF cluster
  <2>10. ASSUME NEW r \in Runs, Holds(r), c = Work(r), client[r].clean, "api" \notin env.faults
         PROVE  /\ capture' # NoJob => Live /\ Recorded(r)'
                /\ pod.band = r
    BY Zenon, <1>1, <1>3, <2>9, <2>10, Mine DEF Kept, Captured, Recorded
  <2> QED BY Zenon, <1>1, <2>2, <2>5, <2>6, <2>7, <2>8, <2>9, <2>10, RefreshMoves
<1> QED
  BY Zenon, <1>2, <1>3

\* The handler with a copy of the pod: the pod is still there.
LEMMA CopyFacts ==
    ASSUME IInv, NEW r \in Runs, Holds(r), InFlight(Work(r)),
           call[Work(r)].pc \in {"capGet", "capCreate"}
    PROVE  /\ Live
           /\ client[r].clean /\ "api" \notin env.faults =>
                 /\ capture # NoJob => Recorded(r)
                 /\ call[Work(r)].pod.uid = pod.uid /\ call[Work(r)].pod.band = r
<1>1. Kept(r) /\ Copied(r)
  BY Zenon, Mine DEF Copied
<1> QED
  BY Zenon, <1>1 DEF Kept, Captured

\* ensureCapture looks for the Job.
LEMMA EnsureCaptureGetStep ==
    ASSUME IInv, NEW c \in Calls, EnsureCaptureGet(c)
    PROVE  IInv'
<1> DEFINE pc == IF capture = NoJob THEN "capCreate" ELSE "put"
           copy == IF capture = NoJob THEN call[c].pod ELSE NoPod
<1>1. /\ InFlight(c) /\ call[c].pc = "capGet" /\ UNCHANGED <<env, client, orch, pod, svc, capture>>
      /\ call' = [call EXCEPT ![c] = [[call[c] EXCEPT !.pc = pc] EXCEPT !.pod = copy]]
  BY Zenon DEF EnsureCaptureGet, cluster
<1>2. call[c].pc \in Points(call[c].op) /\ call[c].pc \in Refreshes
  BY Zenon, <1>1 DEF IInv, Shape, Refreshes, CallShape
<1>3. pc \in Points(call[c].op)
  BY Zenon, <1>1, <1>2 DEF Points, Refreshes
<1>4. /\ capture = NoJob => pc = "capCreate" /\ copy = call[c].pod
      /\ capture # NoJob => pc = "put"
  BY Zenon
<1> HIDE DEF pc, copy
<1>5. Moves(c) /\ call'[c].pc = pc /\ call'[c].pod = copy
  BY Zenon, <1>1, <1>3 DEF IInv, Shape, Fields, Moves, CallShape
<1>6. ASSUME NEW r \in Runs, Holds(r), c = Work(r)
      PROVE  /\ Live
             /\ client[r].clean /\ "api" \notin env.faults =>
                   /\ capture # NoJob => Recorded(r)'
                   /\ call[c].pod.uid = pod.uid /\ call[c].pod.band = r
  BY Zenon, <1>1, <1>6, CopyFacts DEF Recorded
<1> QED
  BY Zenon, <1>1, <1>2, <1>4, <1>5, <1>6, RefreshMoves

\* The capture Job is of the copied pod, or was there before.
LEMMA CaptureMade ==
    ASSUME IInv, NEW c, CaptureCreated(c), NEW r \in Runs, Holds(r), InFlight(Work(r)), c = Work(r),
           call[Work(r)].pc = "capCreate", client[r].clean, "api" \notin env.faults
    PROVE  Recorded(r)'
<1>1. /\ capture # NoJob => Recorded(r)
      /\ call[c].pod.uid = pod.uid /\ call[c].pod.band = r
  BY Zenon, CopyFacts
<1>2. /\ captureJobSpec(call[c].pod).uid = call[c].pod.uid
      /\ captureJobSpec(call[c].pod).band = call[c].pod.band
  BY Zenon DEF captureJobSpec
<1>3. /\ capture' = IF capture = NoJob THEN captureJobSpec(call[c].pod) ELSE capture
      /\ pod' = pod
  BY Zenon DEF CaptureCreated
<1> QED
  BY Zenon, <1>1, <1>2, <1>3 DEF Recorded

\* ensureCapture creates the Job.
LEMMA EnsureCaptureCreateStep ==
    ASSUME IInv, NEW c \in Calls, EnsureCaptureCreate(c)
    PROVE  IInv'
<1>1. /\ InFlight(c) /\ call[c].pc = "capCreate" /\ UNCHANGED <<env, client, orch, pod, svc>>
      /\ call' = [call EXCEPT ![c] = [[call[c] EXCEPT !.pc = "put"] EXCEPT !.pod = NoPod]]
      /\ CaptureCreated(c)
  BY Zenon DEF EnsureCaptureCreate, CaptureCreated
<1>2. call[c].pc \in Points(call[c].op) /\ call[c].pc \in Refreshes
  BY Zenon, <1>1 DEF IInv, Shape, Refreshes, CallShape
<1>3. "put" \in Points(call[c].op)
  BY Zenon, <1>1, <1>2 DEF Points, Refreshes
<1>4. Moves(c) /\ call'[c].pc = "put"
  BY Zenon, <1>1, <1>3 DEF IInv, Shape, Fields, Moves, CallShape
<1> QED
  BY Zenon, <1>1, <1>2, <1>4, CopyFacts, CaptureMade, RefreshMoves

-----------------------------------------------------------------------------
(* Deletions and errors *)

\* While a DELETE runs no session has the slot to itself.
LEMMA DeleteMoves ==
    ASSUME IInv, NEW c \in Calls, InFlight(c), call[c].op = "DELETE", Moves(c),
           UNCHANGED <<env, client, orch>>,
           PodShape'
    PROVE  IInv'
  BY Zenon, Mine, MovesKeep DEF IInv, Shape

\* DeleteSlot reads the entry.
LEMMA DeleteLookupStep ==
    ASSUME IInv, NEW c \in Calls, DeleteLookup(c)
    PROVE  IInv'
<1> DEFINE pc == IF entry = NoEntry THEN "delPod" ELSE "mark"
<1>1. /\ InFlight(c) /\ call[c].op = "DELETE" /\ UNCHANGED <<env, client, orch, pod>>
      /\ call' = [call EXCEPT ![c] = [[call[c] EXCEPT !.entry = entry] EXCEPT !.pc = pc]]
  BY Zenon DEF DeleteLookup, At, cluster
<1>2. pc \in Points(call[c].op)
  BY Zenon, <1>1, PointsNames
<1> HIDE DEF pc
<1>3. Moves(c)
  BY Zenon, <1>1, <1>2 DEF IInv, Shape, Fields, Moves, CallShape
<1> QED
  BY Zenon, <1>1, <1>3, DeleteMoves DEF IInv, Shape, PodShape

\* The pod under deletion keeps its shape.
LEMMA PodDeletedShape ==
    ASSUME Shape, PodDeleted
    PROVE  /\ UNCHANGED <<svc, capture>>
           /\ PodShape'
  BY Zenon DEF Shape, PodDeleted, PodShape

\* A DELETE goes on to its next point.
LEMMA DeleteGoesOn ==
    ASSUME IInv, NEW c \in Calls, InFlight(c), call[c].op = "DELETE",
           NEW pc \in Points("DELETE"), Goto(c, pc), UNCHANGED <<env, client, orch>>,
           UNCHANGED pod \/ PodDeleted
    PROVE  IInv'
<1>1. Moves(c)
  BY Zenon, GotoMoves DEF IInv
<1> QED
  BY Zenon, <1>1, PodDeletedShape, DeleteMoves DEF IInv, Shape, PodShape

\* The steps of DeleteSlot after its lookup.
LEMMA DeleteSteps ==
    ASSUME IInv, NEW c \in Calls,
           DeleteMark(c) \/ DeletePod(c) \/ DeleteService(c) \/ DeleteCapture(c) \/ Forget(c)
    PROVE  IInv'
<1>1. {"delPod", "delSvc", "delCap", "forget"} \subseteq Points("DELETE")
  BY Zenon, PointsNames
<1>2. CASE DeleteMark(c)
  BY Zenon, <1>1, <1>2, DeleteGoesOn DEF DeleteMark, At, cluster
<1>3. CASE DeletePod(c)
  BY Zenon, <1>1, <1>3, DeleteGoesOn DEF DeletePod, At
<1>4. CASE DeleteService(c)
  BY Zenon, <1>1, <1>4, DeleteGoesOn DEF DeleteService, At, SvcDeleted
<1>5. CASE DeleteCapture(c)
  BY Zenon, <1>1, <1>5, DeleteGoesOn DEF DeleteCapture, At, CaptureDeleted
<1>6. CASE Forget(c)
  <2>1. /\ InFlight(c) /\ call[c].op = "DELETE" /\ UNCHANGED <<env, client, orch, pod>>
        /\ Answer(c, "ok")
    BY Zenon, <1>6 DEF Forget, At, cluster
  <2>2. Moves(c)
    BY Zenon, <2>1, AnswerMoves DEF IInv
  <2> QED BY Zenon, <2>1, <2>2, DeleteMoves DEF IInv, Shape, PodShape
<1> QED
  BY Zenon, <1>2, <1>3, <1>4, <1>5, <1>6

\* What a failing API call may have done: a GET, and a POST behind the Service,
\* leave pod and Service alone.
LEMMA EffectFacts ==
    ASSUME IInv, NEW c \in Calls, InFlight(c), UNCHANGED cluster \/ Effect(c)
    PROVE  /\ PodShape'
           /\ call[c].op = "GET" \/ call[c].pc \in Refreshes => UNCHANGED <<pod, svc>>
<1>1. Shape /\ call[c].pc \in Points(call[c].op)
  BY Zenon DEF IInv, Shape, CallShape
<1>2. CASE UNCHANGED cluster
  BY Zenon, <1>1, <1>2 DEF Shape, cluster, PodShape
<1>3. CASE Effect(c)
  <2>1. call[c].op = "GET" \/ call[c].pc \in Refreshes =>
          call[c].pc \notin {"createPod", "createSvc", "delPod", "delSvc", "delCap"}
    BY Zenon, <1>1, PointsNames DEF Refreshes
  <2>2. CASE call[c].pc = "createPod" /\ pod = NoPod
    BY Zenon, <1>3, <2>1, <2>2, PodMade DEF Effect, PodShape
  <2>3. CASE call[c].pc = "createSvc"
    BY Zenon, <1>1, <1>3, <2>1, <2>3 DEF Effect, Shape, PodShape
  <2>4. CASE call[c].pc = "capCreate"
    BY Zenon, <1>1, <1>3, <2>4 DEF Effect, Shape, CaptureCreated, PodShape
  <2>5. CASE call[c].pc = "delPod"
    BY Zenon, <1>1, <1>3, <2>1, <2>5, PodDeletedShape DEF Effect
  <2>6. CASE call[c].pc = "delSvc"
    BY Zenon, <1>1, <1>3, <2>1, <2>6 DEF Effect, Shape, SvcDeleted, PodShape
  <2>7. CASE call[c].pc = "delCap"
    BY Zenon, <1>1, <1>3, <2>1, <2>7 DEF Effect, Shape, CaptureDeleted, PodShape
  <2>8. CASE ~(call[c].pc = "createPod" /\ pod = NoPod)
             /\ call[c].pc \notin {"createSvc", "capCreate", "delPod", "delSvc", "delCap"}
    BY Zenon, <1>1, <1>3, <2>8 DEF Effect, Shape, cluster, PodShape
  <2> QED BY Zenon, <2>2, <2>3, <2>4, <2>5, <2>6, <2>7, <2>8
<1> QED
  BY Zenon, <1>2, <1>3

\* An API call fails, with or without its effect.
LEMMA ApiErrorStep ==
    ASSUME IInv, NEW c \in Calls, ApiError(c)
    PROVE  IInv'
<1>1. /\ InFlight(c) /\ UNCHANGED <<env, client, orch>> /\ (UNCHANGED cluster \/ Effect(c))
      /\ ~call[c].abandoned => "api" \in env.faults
  BY Zenon DEF ApiError, Fault
<1>2. \A r \in Runs : Holds(r) /\ c = Work(r) => ~call[c].abandoned /\ "api" \in env.faults
  BY Zenon, <1>1, Mine
<1>3. call[c].pc \in Points(call[c].op)
  BY Zenon, <1>1 DEF IInv, Shape, CallShape
<1>4. CASE call[c].pc \in {"capGet", "capCreate"}
  <2>1. call' = [call EXCEPT ![c] = [[call[c] EXCEPT !.pc = "put"] EXCEPT !.pod = NoPod]]
    BY Zenon, <1>4 DEF ApiError
  <2>2. call[c].pc \in Refreshes
    BY Zenon, <1>4 DEF Refreshes
  <2>3. "put" \in Points(call[c].op)
    BY Zenon, <1>3, <1>4 DEF Points, Refreshes
  <2>4. Moves(c) /\ call'[c].pc = "put"
    BY Zenon, <1>1, <2>1, <2>3 DEF IInv, Shape, Fields, Moves, CallShape
  <2>5. UNCHANGED <<pod, svc>>
    BY Zenon, <1>1, <2>2, EffectFacts
  <2> QED BY Zenon, <1>1, <1>2, <1>4, <2>2, <2>4, <2>5, CopyFacts, RefreshMoves
<1>5. CASE call[c].pc = "refresh" /\ call[c].op = "POST" /\ call[c].fresh
  <2>1. call' = [call EXCEPT ![c] = [[call[c] EXCEPT !.pc = "put"] EXCEPT !.state = ""]]
    BY Zenon, <1>5 DEF ApiError
  <2>2. call[c].pc \in Refreshes
    BY Zenon, <1>5 DEF Refreshes
  <2>3. "put" \in Points(call[c].op) /\ "" \in States
    BY Zenon, <1>5, PointsNames DEF Refreshes, States
  <2>4. Moves(c) /\ call'[c].pc = "put" /\ call'[c].state = ""
    BY Zenon, <1>1, <2>1, <2>3 DEF IInv, Shape, Fields, Moves, CallShape
  <2>5. UNCHANGED <<pod, svc>>
    BY Zenon, <1>1, <2>2, EffectFacts
  <2> QED BY Zenon, <1>1, <1>2, <2>2, <2>4, <2>5, RefreshMoves
<1>6. CASE Answer(c, "error")
  <2>1. Moves(c) /\ (~call[c].abandoned => call'[c].pc = "answered" /\ call'[c].answer = "error")
    BY Zenon, <1>1, <1>6, AnswerMoves DEF IInv
  <2>2. ASSUME NEW r \in Runs, Holds(r), Own(r), c = Work(r)
        PROVE  Kept(r)'
    <3>1. /\ Kept(r) /\ client[r].pc # "drive"
          /\ call[c].op = "GET" <=> client[r].pc = "get"
      BY Zenon, <1>1, <2>2, Mine DEF Own
    <3>2. call'[c].pc = "answered" /\ call'[c].answer = "error" /\ "api" \in env.faults
      BY Zenon, <1>2, <2>1, <2>2
    <3>3. ~Copied(r)' /\ ~Ready(r)' /\ \A points : ~Posted(r, points)'
      BY Zenon, <1>1, <2>2, <3>1, <3>2 DEF Copied, Ready, Posted, InFlight
    <3>4. client[r].pc # "poll" /\ (client[r].pc = "get" => UNCHANGED <<pod, svc>>)
      BY Zenon, <1>1, <2>2, <3>1, EffectFacts DEF Own
    <3>5. Served(r) => Served(r)'
      BY Zenon, <1>1, <2>2, <3>1, <3>2, <3>3, <3>4, Refusals DEF Served, Complete, Live
    <3> QED BY Zenon, <1>1, <3>1, <3>2, <3>3, <3>5 DEF Kept
  <2> QED BY Zenon, <1>1, <2>1, <2>2, EffectFacts, MovesKeep DEF IInv, Shape
<1> QED
  BY Zenon, <1>4, <1>5, <1>6 DEF ApiError

\* Every step of a handler.
LEMMA HandlerStep ==
    ASSUME IInv, NEW c \in Calls, Handler(c)
    PROVE  IInv'
  BY Zenon, PostLookupStep, EnsurePodGetStep, EnsurePodCreateStep, EnsurePodAgainStep,
     CreateSlotGetServiceStep, CreateSlotCreateServiceStep, GetLookupStep, RefreshStep,
     EnsureCaptureGetStep, EnsureCaptureCreateStep, PutSlotStep, DeleteLookupStep, DeleteSteps
     DEF Handler

-----------------------------------------------------------------------------
(* The cluster and the orchestrator *)

\* Steps that leave handlers and clients alone.
LEMMA ClusterMoves ==
    ASSUME IInv, UNCHANGED <<env, call, client, svc>>,
           "crash" \notin env.faults => UNCHANGED <<orch, entry>>,
           PodShape',
           Live' <=> Live, Live => pod'.image = pod.image,
           \A r \in Runs : Kept(r) /\ Captured(r) => Captured(r)'
    PROVE  IInv'
<1> USE DEF IInv
<1>1. Runs' = Runs /\ Calls' = Calls /\ \A c : InFlight(c)' = InFlight(c)
  BY Zenon DEF Runs, Calls, InFlight
<1>2. Shape'
  BY Zenon, <1>1 DEF Shape, CallShape
<1>3. Order'
  BY Zenon, <1>1 DEF Order
<1>4. ASSUME NEW r \in Runs, Holds(r)'
      PROVE  (Own(r) /\ Told(r) /\ Kept(r))'
  <2>1. Holds(r) /\ Own(r) /\ Told(r) /\ Kept(r)
    BY Zenon, <1>4 DEF Holds, Undisturbed
  <2>2. Own(r)' /\ Told(r)'
    BY Zenon, <1>1, <2>1 DEF Own, Told
  <2>3. Copied(r)' = Copied(r) /\ Ready(r)' = Ready(r) /\ \A points : Posted(r, points)' = Posted(r, points)
    BY Zenon, <1>1 DEF Copied, Ready, Posted
  <2>4. "crash" \notin env.faults /\ Served(r) => Served(r)'
    BY Zenon, <2>3 DEF Served, Complete, Truthful, Live
  <2> QED BY Zenon, <2>1, <2>2, <2>3, <2>4 DEF Kept
<1> QED
  BY Zenon, <1>1, <1>2, <1>3, <1>4 DEF Undisturbed

\* The pod's containers start, bind and die.
LEMMA PodRunsStep ==
    ASSUME IInv, PodRuns
    PROVE  IInv'
<1>1. pod # NoPod /\ UNCHANGED <<env, orch, call, client, entry, svc, capture>>
  BY Zenon DEF PodRuns
<1>2. /\ DOMAIN pod = {"uid", "image", "band", "phase", "deleting"}
      /\ pod.phase \in Phases /\ pod.deleting \in BOOLEAN
  BY Zenon, <1>1 DEF IInv, Shape, PodShape
<1>3. PICK phase \in Phases : pod' = [pod EXCEPT !.phase = phase]
  <2>1. pod.phase \in {"pending", "primary", "ready"}
    BY Zenon, <1>2 DEF PodRuns, Phases
  <2>2. (CASE pod.phase = "pending" -> {"primary", "failed"}
           [] pod.phase = "primary" -> {"ready", "failed"}
           [] pod.phase = "ready" -> {"failed"}) \subseteq Phases
    BY Zenon, <2>1 DEF Phases
  <2> QED BY Zenon, <2>2 DEF PodRuns
<1>4. /\ DOMAIN pod' = {"uid", "image", "band", "phase", "deleting"}
      /\ pod'.phase \in Phases /\ pod'.deleting = pod.deleting
      /\ pod'.image = pod.image /\ pod'.uid = pod.uid /\ pod'.band = pod.band
  BY Zenon, <1>2, <1>3
<1>5. pod' # NoPod
  <2>1. DOMAIN NoPod = {"uid"} /\ "image" \notin {"uid"}
    BY Zenon DEF NoPod
  <2> QED BY Zenon, <1>4, <2>1
<1>6. Live' = Live
  BY Zenon, <1>1, <1>4, <1>5 DEF Live
<1>7. ASSUME NEW r \in Runs, Captured(r)
      PROVE  Captured(r)'
  <2>1. Copied(r)' = Copied(r) /\ Ready(r)' = Ready(r) /\ Recorded(r)' = Recorded(r)
    BY Zenon, <1>1, <1>4 DEF Copied, Ready, Recorded, InFlight
  <2> QED BY Zenon, <1>1, <1>4, <1>6, <1>7, <2>1 DEF Captured
<1> QED
  BY Zenon, <1>1, <1>2, <1>4, <1>6, <1>7, ClusterMoves DEF PodShape

\* A pod under deletion goes.
LEMMA PodGoneStep ==
    ASSUME IInv, PodGone
    PROVE  IInv'
<1>1. /\ pod # NoPod /\ pod.deleting /\ pod' = NoPod
      /\ UNCHANGED <<env, orch, call, client, entry, svc, capture>>
  BY Zenon DEF PodGone
<1>2. ~Live /\ ~Live'
  BY Zenon, <1>1 DEF Live
<1>3. \A r \in Runs : ~Captured(r)
  BY Zenon, <1>1, <1>2 DEF Captured
<1> QED
  BY Zenon, <1>1, <1>2, <1>3, ClusterMoves DEF PodShape

\* The garbage collector takes no Job of a running pod.
LEMMA GarbageCollectStep ==
    ASSUME IInv, GarbageCollect
    PROVE  IInv'
<1>1. /\ capture # NoJob /\ capture.uid # pod.uid
      /\ UNCHANGED <<env, orch, call, client, entry, pod, svc>>
  BY Zenon DEF GarbageCollect
<1>2. Live' = Live /\ pod'.image = pod.image
  BY Zenon, <1>1 DEF Live
<1>3. \A r \in Runs : ~Captured(r)
  BY Zenon, <1>1 DEF Captured, Recorded
<1> QED
  BY Zenon, <1>1, <1>2, <1>3, ClusterMoves DEF IInv, Shape, PodShape

\* The map is rebuilt from the pods.
LEMMA ListExistingStep ==
    ASSUME IInv, ListExisting
    PROVE  IInv'
<1>1. /\ orch = "down" /\ UNCHANGED <<env, call, client, pod, svc>>
      /\ capture' = capture \/ (pod = NoPod /\ capture' = NoJob)
  BY Zenon DEF ListExisting
<1>2. "crash" \in env.faults
  BY Zenon, <1>1 DEF IInv, Shape
<1>3. Live' = Live /\ pod'.image = pod.image
  BY Zenon, <1>1 DEF Live
<1>4. ASSUME NEW r \in Runs, Kept(r), Captured(r)
      PROVE  Captured(r)'
  <2>1. Copied(r)' = Copied(r) /\ Ready(r)' = Ready(r)
    BY Zenon, <1>1 DEF Copied, Ready, InFlight
  <2>2. Live => capture' = capture
    BY Zenon, <1>1 DEF Live
  <2>3. Ready(r) => Live
    BY Zenon, <1>4 DEF Kept
  <2> QED BY Zenon, <1>1, <1>3, <1>4, <2>1, <2>2, <2>3 DEF Captured, Recorded
<1> QED
  BY Zenon, <1>1, <1>2, <1>3, <1>4, ClusterMoves DEF IInv, Shape, PodShape

\* The orchestrator dies with its handlers.
LEMMA CrashStep ==
    ASSUME IInv, Crash
    PROVE  IInv'
<1>1. /\ "crash" \in env.faults /\ UNCHANGED <<env, client, pod, svc, capture>>
      /\ call' = [c \in Calls |->
                    IF ~InFlight(c) THEN call[c]
                    ELSE IF call[c].abandoned THEN Idle ELSE Answered(c, "error")]
  BY Zenon DEF Crash, Fault, cluster
<1>2. Runs' = Runs /\ Calls' = Calls /\ DOMAIN call' = Calls
  BY Zenon, <1>1 DEF Runs, Calls
<1>3. ASSUME NEW c \in Calls
      PROVE  /\ ~InFlight(c)'
             /\ ~InFlight(c) => call'[c] = call[c]
             /\ InFlight(c) /\ ~call[c].abandoned =>
                  call'[c].op = call[c].op /\ call'[c].pc = "answered" /\ call'[c].answer = "error"
  <2>1. Idle.op = "none"
    BY Zenon DEF Idle
  <2>2. /\ Answered(c, "error").op = call[c].op /\ Answered(c, "error").pc = "answered"
        /\ Answered(c, "error").answer = "error"
    BY Zenon DEF Answered
  <2>3. call'[c] = IF ~InFlight(c) THEN call[c]
                   ELSE IF call[c].abandoned THEN Idle ELSE Answered(c, "error")
    BY Zenon, <1>1
  <2>4. CASE ~InFlight(c)
    <3>1. call'[c] = call[c]
      BY Zenon, <2>3, <2>4
    <3> QED BY Zenon, <2>4, <3>1 DEF InFlight
  <2>5. CASE InFlight(c) /\ call[c].abandoned
    <3>1. call'[c] = Idle
      BY Zenon, <2>3, <2>5
    <3> QED BY Zenon, <2>1, <2>5, <3>1 DEF InFlight
  <2>6. CASE InFlight(c) /\ ~call[c].abandoned
    <3>1. call'[c] = Answered(c, "error")
      BY Zenon, <2>3, <2>6
    <3> QED BY Zenon, <2>2, <2>6, <3>1 DEF InFlight
  <2> QED BY Zenon, <2>4, <2>5, <2>6
<1>4. Shape'
  BY Zenon, <1>1, <1>2, <1>3 DEF IInv, Shape, PodShape
<1>5. Order'
  BY Zenon, <1>1, <1>2 DEF IInv, Order
<1>6. ASSUME NEW r \in Runs, Holds(r)'
      PROVE  (Own(r) /\ Told(r) /\ Kept(r))'
  <2>1. Holds(r) /\ Own(r) /\ Told(r) /\ Kept(r)
    BY Zenon, <1>1, <1>6 DEF Holds, IInv, Undisturbed
  <2>2. Work(r) \in Calls
    BY Zenon DEF Work, Calls
  <2>3. call'[Work(r)].op = call[Work(r)].op
    BY Zenon, <1>3, <2>1, <2>2 DEF Own
  <2>4. Own(r)'
    BY Zenon, <1>1, <1>2, <1>3, <2>1, <2>2, <2>3 DEF Own
  <2>5. Told(r)'
    BY Zenon, <1>1, <1>3, <2>1, <2>2 DEF Told, Own
  <2>6. ~Copied(r)' /\ (Ready(r)' => Ready(r))
    BY Zenon, <1>1, <1>3, <2>1, <2>2, Refusals DEF Copied, Ready, Own
  <2>7. Live' = Live /\ Recorded(r)' = Recorded(r)
    BY Zenon, <1>1 DEF Live, Recorded
  <2>8. Captured(r) => Captured(r)'
    BY Zenon, <1>1, <2>6, <2>7 DEF Captured
  <2> QED BY Zenon, <1>1, <2>1, <2>4, <2>5, <2>6, <2>7, <2>8 DEF Kept
<1> QED
  BY Zenon, <1>2, <1>4, <1>5, <1>6 DEF IInv, Undisturbed

-----------------------------------------------------------------------------
(* The sessions *)

\* Run numbers are integers.
LEMMA RunsNumbered ==
    ASSUME IInv
    PROVE  /\ \A r \in Runs : r \in Nat /\ r >= 1
           /\ \A r \in Runs : r > 1 => r - 1 \in Runs
<1>1. env.runs \in Nat
  BY Zenon, EnvironmentsKnown DEF IInv, Shape
<1> QED
  BY ONLY <1>1 DEF Runs

\* At most one session is under way.
LEMMA OneAtATime ==
    ASSUME IInv, NEW r \in Runs, NEW s \in Runs,
           client[r].pc \notin {"start", "done"}, client[s].pc \notin {"start", "done"}
    PROVE  r = s
<1>1. ~(r < s) /\ ~(s < r)
  BY Zenon DEF IInv, Order
<1>2. r \in Nat /\ s \in Nat
  BY Zenon, RunsNumbered
<1> QED
  BY ONLY <1>1, <1>2

\* When a session starts the others are over or have not started.
LEMMA ItsTurn ==
    ASSUME IInv, NEW s \in Runs, client[s].pc = "start", s > 1 => client[s - 1].pc = "done",
           NEW r \in Runs
    PROVE  /\ r < s => client[r].pc = "done"
           /\ s < r => client[r].pc = "start"
<1>1. s < r => client[r].pc = "start"
  BY Zenon DEF IInv, Order
<1>2. ASSUME r < s PROVE client[r].pc = "done"
  <2>1. r \in Nat /\ s \in Nat /\ r >= 1 /\ (s > 1 => s - 1 \in Runs)
    BY Zenon, RunsNumbered
  <2>2. s > 1 /\ (r = s - 1 \/ r < s - 1)
    BY ONLY <1>2, <2>1
  <2> QED BY Zenon, <2>1, <2>2 DEF IInv, Order
<1> QED
  BY Zenon, <1>1, <1>2

\* A session's step concerns no other session.
LEMMA SessionMoves ==
    ASSUME IInv, NEW s \in Runs, NEW y, client' = [client EXCEPT ![s] = y],
           DOMAIN y = {"pc", "sound", "clean"}, y.clean => y.sound,
           \/ client[s].pc \notin {"start", "done"}
           \/ client[s].pc = "start" /\ (s > 1 => client[s - 1].pc = "done"),
           UNCHANGED <<env, orch, pod>>,
           DOMAIN call' = Calls,
           \A c \in Calls : InFlight(c)' => CallShape(c)',
           Holds(s)' => (Own(s) /\ Told(s) /\ Kept(s))'
    PROVE  IInv'
<1>1. Runs' = Runs /\ Calls' = Calls
  BY Zenon DEF Runs, Calls
<1>2. /\ DOMAIN client' = Runs /\ client'[s] = y
      /\ \A r \in Runs : r # s => client'[r] = client[r]
  BY Zenon DEF IInv, Shape
<1>3. Shape'
  BY Zenon, <1>1, <1>2 DEF IInv, Shape, PodShape
<1>4. Order'
  <2> SUFFICES ASSUME NEW q \in Runs, NEW r \in Runs, q < r, client'[r].pc # "start"
               PROVE  client'[q].pc = "done"
    BY Zenon, <1>1 DEF Order
  <2>1. CASE q = s
    <3>1. q # r
      BY ONLY q < r, RunsNumbered, IInv, q \in Runs, r \in Runs
    <3>2. client[r].pc # "start"
      BY Zenon, <1>2, <2>1, <3>1
    <3>3. client[s].pc = "done"
      BY Zenon, <2>1, <3>2 DEF IInv, Order
    <3> QED BY Zenon, <3>3
  <2>2. CASE q # s /\ r = s
    <3>1. client[q].pc = "done"
      BY Zenon, <2>2, ItsTurn DEF IInv, Order
    <3> QED BY Zenon, <1>2, <2>2, <3>1
  <2>3. CASE q # s /\ r # s
    BY Zenon, <1>2, <2>3 DEF IInv, Order
  <2> QED BY Zenon, <2>1, <2>2, <2>3
<1>5. ASSUME NEW r \in Runs, Holds(r)', r # s
      PROVE  FALSE
  <2>1. client[r].pc \notin {"start", "done"}
    BY Zenon, <1>2, <1>5 DEF Holds
  <2>2. CASE client[s].pc \notin {"start", "done"}
    BY Zenon, <1>5, <2>1, <2>2, OneAtATime
  <2>3. CASE client[s].pc = "start" /\ (s > 1 => client[s - 1].pc = "done")
    <3>1. ~(r < s) /\ ~(s < r)
      BY Zenon, <2>1, <2>3, ItsTurn
    <3>2. r \in Nat /\ s \in Nat
      BY Zenon, RunsNumbered
    <3> QED BY ONLY <1>5, <3>1, <3>2
  <2> QED BY Zenon, <2>2, <2>3
<1>6. Undisturbed'
  BY Zenon, <1>1, <1>5 DEF Undisturbed
<1> QED
  BY Zenon, <1>3, <1>4, <1>6 DEF IInv

\* What a request adds to the handlers.
LEMMA IssueFacts ==
    ASSUME IInv, NEW s \in Runs, NEW kind \in {"work", "release"}, NEW op \in {"POST", "GET", "DELETE"},
           Issue(s, kind, op)
    PROVE  /\ DOMAIN call' = Calls
           /\ call'[<<s, kind>>].op = op
           /\ IF orch = "up"
              THEN /\ call'[<<s, kind>>].pc = "lookup" /\ ~call'[<<s, kind>>].abandoned
              ELSE call'[<<s, kind>>].pc = "answered" /\ call'[<<s, kind>>].answer = "error"
           /\ \A c \in Calls : c # <<s, kind>> /\ InFlight(c)' => InFlight(c)
           /\ \A c \in Calls : InFlight(c)' => CallShape(c)'
<1> DEFINE w == <<s, kind>>
           refused == [op |-> op, pc |-> "answered", answer |-> "error", abandoned |-> FALSE]
           made == IF orch = "up" THEN Request(s, op) ELSE refused
           disturbed == [c \in Calls |->
               IF op = "POST" /\ InFlight(c) THEN [call[c] EXCEPT !.quiet = FALSE] ELSE call[c]]
<1>1. w \in Calls
  BY Zenon DEF Calls
<1>2. call' = [disturbed EXCEPT ![w] = made]
  BY Zenon DEF Issue
<1>3. /\ DOMAIN call' = Calls /\ call'[w] = made
      /\ \A c \in Calls : c # w => call'[c] = disturbed[c]
  BY Zenon, <1>1, <1>2
<1>4. ASSUME NEW c \in Calls, c # w, InFlight(c)'
      PROVE  InFlight(c) /\ CallShape(c)'
  <2>1. CASE op = "POST" /\ InFlight(c)
    <3>1. call'[c] = [call[c] EXCEPT !.quiet = FALSE]
      BY Zenon, <1>3, <1>4, <2>1
    <3> QED BY Zenon, <2>1, <3>1 DEF IInv, Shape, Fields, CallShape, PodShape
  <2>2. CASE ~(op = "POST" /\ InFlight(c))
    <3>1. call'[c] = call[c]
      BY Zenon, <1>3, <1>4, <2>2
    <3> QED BY Zenon, <1>4, <3>1 DEF IInv, Shape, InFlight, CallShape
  <2> QED BY Zenon, <2>1, <2>2
<1>5. /\ Request(s, op).op = op /\ Request(s, op).pc = "lookup" /\ Request(s, op).abandoned = FALSE
      /\ Request(s, op).state = "" /\ DOMAIN Request(s, op) = Fields
  BY Zenon DEF Request, Fields
<1>6. refused.op = op /\ refused.pc = "answered" /\ refused.answer = "error"
  BY Zenon
<1>7. "lookup" \in Points(op) /\ "" \in States
  BY Zenon, PointsNames DEF States
<1> HIDE DEF w, refused, disturbed
<1>8. CASE orch = "up"
  <2>1. call'[w] = Request(s, op)
    BY Zenon, <1>3, <1>8
  <2> QED BY Zenon, <1>3, <1>4, <1>5, <1>7, <1>8, <2>1 DEF w, CallShape
<1>9. CASE orch # "up"
  <2>1. call'[w] = refused
    BY Zenon, <1>3, <1>9
  <2>2. ~InFlight(w)'
    BY Zenon, <1>6, <2>1 DEF InFlight
  <2> QED BY Zenon, <1>3, <1>4, <1>6, <1>9, <2>1, <2>2 DEF w
<1> QED
  BY Zenon, <1>8, <1>9

\* A session asks for its slot.
LEMMA CreateSlotStep ==
    ASSUME IInv, NEW s \in Runs, CreateSlot(s)
    PROVE  IInv'
<1> DEFINE y == [pc |-> "create", sound |-> Quiet /\ Truthful, clean |-> Quiet /\ Clean /\ entry = NoEntry]
<1>1. /\ client[s].pc = "start" /\ (s > 1 => client[s - 1].pc = "done")
      /\ Issue(s, "work", "POST") /\ client' = [client EXCEPT ![s] = y]
      /\ UNCHANGED <<env, orch, entry, pod, svc, capture>>
  BY Zenon DEF CreateSlot, cluster
<1>2. /\ DOMAIN y = {"pc", "sound", "clean"} /\ y.pc = "create"
      /\ y.sound = (Quiet /\ Truthful) /\ y.clean = (Quiet /\ Clean /\ entry = NoEntry)
  BY Zenon
<1>3. y.clean => y.sound
  BY Zenon, <1>2 DEF Truthful
<1> HIDE DEF y
<1>4. client'[s] = y
  BY Zenon, <1>1 DEF IInv, Shape
<1>5. ASSUME Holds(s)'
      PROVE  (Own(s) /\ Told(s) /\ Kept(s))'
  <2>1. Quiet /\ Truthful
    BY Zenon, <1>2, <1>4, <1>5 DEF Holds
  <2>2. /\ \A c \in Calls : InFlight(c)' => c = Work(s)
        /\ call'[Work(s)].op = "POST"
        /\ IF orch = "up"
           THEN /\ call'[Work(s)].pc = "lookup" /\ ~call'[Work(s)].abandoned
           ELSE call'[Work(s)].pc = "answered" /\ call'[Work(s)].answer = "error"
    BY Zenon, <1>1, <2>1, IssueFacts DEF Work, Quiet
  <2>3. Own(s)' /\ Told(s)'
    <3>1. Calls' = Calls
      BY Zenon, <1>1 DEF Calls, Runs
    <3>2. InFlight(Work(s))' => ~call'[Work(s)].abandoned
      BY Zenon, <2>2 DEF InFlight
    <3> QED BY Zenon, <1>2, <1>4, <2>2, <3>1, <3>2 DEF Own, Told
  <2>4. ~Copied(s)' /\ ~Ready(s)'
    BY Zenon, <1>2, <1>4, <2>2 DEF Copied, Ready
  <2>5. Served(s)'
    <3>1. Truthful'
      BY Zenon, <1>1, <2>1 DEF Truthful, Live
    <3> QED BY Zenon, <1>2, <1>4, <2>2, <3>1, Refusals DEF Served, Posted
  <2>6. client'[s].clean => Captured(s)'
    BY Zenon, <1>1, <1>2, <1>4, <2>4 DEF Captured, Clean
  <2> QED BY Zenon, <2>3, <2>4, <2>5, <2>6 DEF Kept
<1> QED
  BY Zenon, <1>1, <1>2, <1>3, <1>5, IssueFacts, SessionMoves

\* A session goes on to its next point.
LEMMA SessionGoes ==
    ASSUME IInv, NEW s \in Runs, client[s].pc \notin {"start", "done"},
           NEW v, client' = [client EXCEPT ![s].pc = v],
           UNCHANGED <<env, orch, pod>>,
           DOMAIN call' = Calls,
           \A c \in Calls : InFlight(c)' => CallShape(c)',
           v \in {"create", "poll", "get", "drive"} /\ Holds(s)' => (Own(s) /\ Told(s) /\ Kept(s))'
    PROVE  IInv'
<1> DEFINE y == [client[s] EXCEPT !.pc = v]
<1>1. DOMAIN client = Runs /\ DOMAIN client[s] = {"pc", "sound", "clean"} /\ (client[s].clean => client[s].sound)
  BY Zenon DEF IInv, Shape
<1>2. client' = [client EXCEPT ![s] = y] /\ client'[s] = y
  BY Zenon, <1>1
<1>3. DOMAIN y = {"pc", "sound", "clean"} /\ (y.clean => y.sound) /\ y.pc = v
  BY Zenon, <1>1
<1> HIDE DEF y
<1>4. Holds(s)' => v \in {"create", "poll", "get", "drive"}
  BY Zenon, <1>2, <1>3 DEF Holds
<1> QED
  BY Zenon, <1>2, <1>3, <1>4, SessionMoves

\* The session after its step.
LEMMA SessionNow ==
    ASSUME IInv, NEW s \in Runs, NEW v, client' = [client EXCEPT ![s].pc = v]
    PROVE  client'[s].pc = v /\ client'[s].sound = client[s].sound /\ client'[s].clean = client[s].clean
  BY Zenon DEF IInv, Shape

\* Forgetting an answered call leaves the handlers as they were.
LEMMA AnswerTaken ==
    ASSUME IInv, NEW w \in Calls, call' = [call EXCEPT ![w] = NoAnswer]
    PROVE  /\ DOMAIN call' = Calls /\ ~InFlight(w)' /\ call'[w].pc = "idle"
           /\ \A c \in Calls : InFlight(c)' => InFlight(c)
           /\ \A c \in Calls : InFlight(c)' => CallShape(c)'
<1>1. Idle.op = "none" /\ Idle.pc = "idle"
  BY Zenon DEF Idle
<1>2. /\ DOMAIN call' = Calls /\ call'[w] = Idle
      /\ \A c \in Calls : c # w => call'[c] = call[c]
  BY Zenon DEF IInv, Shape, NoAnswer
<1>3. ~InFlight(w)' /\ call'[w].pc = "idle"
  BY Zenon, <1>1, <1>2 DEF InFlight
<1>4. ASSUME NEW c \in Calls, InFlight(c)'
      PROVE  InFlight(c) /\ CallShape(c)'
  <2>1. call'[c] = call[c]
    BY Zenon, <1>2, <1>3, <1>4
  <2> QED BY Zenon, <1>4, <2>1 DEF IInv, Shape, InFlight, CallShape
<1> QED
  BY Zenon, <1>2, <1>3, <1>4

\* A session without a handler, past its create: poll or drive.
LEMMA Settles ==
    ASSUME IInv, NEW s \in Runs, NEW v \in {"poll", "drive"}, client' = [client EXCEPT ![s].pc = v],
           UNCHANGED <<env, entry, pod, svc, capture>>,
           \A c \in Calls : ~InFlight(c)',
           "crash" \notin env.faults => Complete(s),
           v = "drive" => Live,
           client[s].clean /\ "api" \notin env.faults =>
              /\ pod # NoPod => Live /\ pod.band = s
              /\ capture # NoJob => Live /\ Recorded(s)
              /\ v = "drive" => Recorded(s)
    PROVE  (Own(s) /\ Told(s) /\ Kept(s))'
<1>1. client'[s].pc = v /\ client'[s].clean = client[s].clean
  BY Zenon, SessionNow
<1>2. Calls' = Calls /\ Work(s) \in Calls
  BY Zenon DEF Calls, Runs, Work
<1>3. Own(s)' /\ Told(s)'
  BY Zenon, <1>1, <1>2 DEF Own, Told
<1>4. ~Copied(s)' /\ (Ready(s)' => v = "drive")
  BY Zenon, <1>1, <1>2 DEF Copied, Ready
<1>5. (Live' <=> Live) /\ (Complete(s)' <=> Complete(s)) /\ (Recorded(s)' <=> Recorded(s))
  BY Zenon DEF Live, Complete, Recorded
<1>6. "crash" \notin env.faults => Served(s)'
  BY Zenon, <1>1, <1>2, <1>5 DEF Served, Posted
<1>7. client[s].clean /\ "api" \notin env.faults => Captured(s)'
  BY Zenon, <1>4, <1>5 DEF Captured
<1> QED
  BY Zenon, <1>1, <1>3, <1>4, <1>5, <1>6, <1>7 DEF Kept

\* A session that holds the slot without a handler of its own after this step.
LEMMA HandlersOver ==
    ASSUME IInv, NEW s \in Runs, Holds(s), call' = [call EXCEPT ![Work(s)] = NoAnswer], UNCHANGED env
    PROVE  \A c \in Calls : ~InFlight(c)'
<1>1. Work(s) \in Calls
  BY Zenon DEF Work, Calls
<1>2. Own(s)
  BY Zenon DEF IInv, Undisturbed
<1> QED
  BY Zenon, <1>1, <1>2, AnswerTaken DEF Own

\* What a session that is told the outcome of its POST or GET knows of the slot.
LEMMA AnswerTells ==
    ASSUME IInv, NEW s \in Runs, Holds(s), call[Work(s)].pc = "answered",
           \/ client[s].pc = "create" /\ call[Work(s)].answer \in States
           \/ client[s].pc = "get"
    PROVE  /\ "crash" \notin env.faults => Complete(s)
           /\ client[s].pc = "get" /\ call[Work(s)].answer = "ready" => Live
           /\ client[s].clean /\ "api" \notin env.faults =>
                 /\ pod # NoPod => Live /\ pod.band = s
                 /\ capture # NoJob => Live /\ Recorded(s)
                 /\ client[s].pc = "get" /\ call[Work(s)].answer = "ready" => Recorded(s)
<1>1. Kept(s)
  BY Zenon DEF IInv, Undisturbed
<1>2. client[s].pc = "get" /\ call[Work(s)].answer = "ready" => Ready(s)
  BY Zenon DEF Ready
<1>3. "crash" \notin env.faults => Complete(s)
  BY Zenon, <1>1 DEF Kept, Served
<1> QED
  BY Zenon, <1>1, <1>2, <1>3 DEF Kept, Captured

\* CreateSlot returns.
LEMMA CreateSlotReturnsStep ==
    ASSUME IInv, NEW s \in Runs, CreateSlotReturns(s)
    PROVE  IInv'
<1> DEFINE v == IF call[Work(s)].answer \in States THEN "poll" ELSE "done"
<1>1. /\ client[s].pc = "create" /\ call[Work(s)].pc = "answered"
      /\ client' = [client EXCEPT ![s].pc = v]
      /\ call' = [call EXCEPT ![Work(s)] = NoAnswer]
      /\ UNCHANGED <<env, orch, entry, pod, svc, capture>>
  BY Zenon DEF CreateSlotReturns, Work, cluster
<1>2. Work(s) \in Calls
  BY Zenon DEF Work, Calls
<1>3. (v = "poll" /\ call[Work(s)].answer \in States) \/ v = "done"
  BY Zenon
<1> HIDE DEF v
<1>4. ASSUME v \in {"create", "poll", "get", "drive"}, Holds(s)'
      PROVE  (Own(s) /\ Told(s) /\ Kept(s))'
  <2>1. v = "poll" /\ call[Work(s)].answer \in States
    BY Zenon, <1>3, <1>4
  <2>2. Holds(s)
    BY Zenon, <1>1, <1>4, SessionNow DEF Holds
  <2>3. \A c \in Calls : ~InFlight(c)'
    BY Zenon, <1>1, <2>2, HandlersOver
  <2> QED BY Zenon, <1>1, <2>1, <2>2, <2>3, AnswerTells, Settles
<1> QED
  BY Zenon, <1>1, <1>2, <1>4, AnswerTaken, SessionGoes

\* A poll of WaitForReady returns.
LEMMA GetSlotReturnsStep ==
    ASSUME IInv, NEW s \in Runs, GetSlotReturns(s)
    PROVE  IInv'
<1> DEFINE a == call[Work(s)].answer
           v == CASE a = "ready" -> "drive"
                  [] a \in {"creating", "terminating", ""} -> "poll"
                  [] a \in {"failed", "notfound", "error"} -> "release"
<1>1. /\ client[s].pc = "get" /\ call[Work(s)].pc = "answered"
      /\ client' = [client EXCEPT ![s].pc = v]
      /\ call' = [call EXCEPT ![Work(s)] = NoAnswer]
      /\ UNCHANGED <<env, orch, entry, pod, svc, capture>>
  BY Zenon DEF GetSlotReturns, Work, cluster
<1>2. Work(s) \in Calls
  BY Zenon DEF Work, Calls
<1>3. a \in States \cup {"notfound", "error"} =>
         (v = "drive" /\ a = "ready") \/ v = "poll" \/ v = "release"
  BY Zenon DEF States
<1> HIDE DEF v
<1>4. ASSUME v \in {"create", "poll", "get", "drive"}, Holds(s)'
      PROVE  (Own(s) /\ Told(s) /\ Kept(s))'
  <2>1. Holds(s)
    BY Zenon, <1>1, <1>4, SessionNow DEF Holds
  <2>2. a \in States \cup {"notfound", "error"}
    BY Zenon, <1>1, <2>1 DEF IInv, Undisturbed, Told
  <2>3. (v = "drive" /\ a = "ready") \/ v = "poll"
    BY Zenon, <1>3, <1>4, <2>2
  <2>4. \A c \in Calls : ~InFlight(c)'
    BY Zenon, <1>1, <2>1, HandlersOver
  <2> QED BY Zenon, <1>1, <2>1, <2>3, <2>4, AnswerTells, Settles
<1> QED
  BY Zenon, <1>1, <1>2, <1>4, AnswerTaken, SessionGoes

\* A step that changes no handler.
LEMMA CallsKept ==
    ASSUME IInv, UNCHANGED call
    PROVE  /\ DOMAIN call' = Calls
           /\ \A c \in Calls : InFlight(c)' => CallShape(c)'
  BY Zenon DEF IInv, Shape, InFlight, CallShape

\* WaitForReady polls, or gives up.
LEMMA WaitForReadyStep ==
    ASSUME IInv, NEW s \in Runs, WaitForReady(s)
    PROVE  IInv'
<1>1. client[s].pc = "poll" /\ UNCHANGED <<env, orch, entry, pod, svc, capture>>
  BY Zenon DEF WaitForReady, cluster
<1>2. CASE Issue(s, "work", "GET") /\ client' = [client EXCEPT ![s].pc = "get"]
  <2>1. ASSUME Holds(s)'
        PROVE  (Own(s) /\ Told(s) /\ Kept(s))'
    <3>1. /\ Holds(s) /\ client'[s].pc = "get" /\ client'[s].clean = client[s].clean
      BY Zenon, <1>1, <1>2, <2>1, SessionNow DEF Holds
    <3>2. Own(s) /\ Kept(s)
      BY Zenon, <3>1 DEF IInv, Undisturbed
    <3>3. /\ \A c \in Calls : InFlight(c)' => c = Work(s)
          /\ call'[Work(s)].op = "GET"
          /\ IF orch = "up"
             THEN /\ call'[Work(s)].pc = "lookup" /\ ~call'[Work(s)].abandoned
             ELSE call'[Work(s)].pc = "answered" /\ call'[Work(s)].answer = "error"
      BY Zenon, <1>2, <3>2, IssueFacts DEF Work, Own
    <3>4. Own(s)'
      <4>1. Calls' = Calls
        BY Zenon, <1>1 DEF Calls, Runs
      <4>2. InFlight(Work(s))' => ~call'[Work(s)].abandoned
        BY Zenon, <3>3 DEF InFlight
      <4> QED BY Zenon, <3>1, <3>3, <4>1, <4>2 DEF Own
    <3>5. Told(s)'
      BY Zenon, <3>3 DEF Told
    <3>6. ~Copied(s)' /\ ~Ready(s)'
      BY Zenon, <3>1, <3>3, Refusals DEF Copied, Ready
    <3>7. Served(s) => Served(s)'
      BY Zenon, <1>1, <3>1 DEF Served, Posted, Complete, Live
    <3>8. Captured(s) => Captured(s)'
      BY Zenon, <1>1, <3>6 DEF Captured, Live, Recorded
    <3> QED BY Zenon, <1>1, <3>1, <3>2, <3>4, <3>5, <3>6, <3>7, <3>8 DEF Kept
  <2> QED BY Zenon, <1>1, <1>2, <2>1, IssueFacts, SessionGoes
<1>3. CASE client' = [client EXCEPT ![s].pc = "release"] /\ UNCHANGED call
  BY Zenon, <1>1, <1>3, CallsKept, SessionGoes
<1> QED
  BY Zenon, <1>2, <1>3 DEF WaitForReady

\* The load is over.
LEMMA DriveEndsStep ==
    ASSUME IInv, NEW s \in Runs, DriveEnds(s)
    PROVE  IInv'
<1>1. /\ client[s].pc = "drive" /\ UNCHANGED <<env, orch, pod, call>>
      /\ client' = [client EXCEPT ![s].pc = "release"]
  BY Zenon DEF DriveEnds, cluster
<1> QED
  BY Zenon, <1>1, CallsKept, SessionGoes

\* The session asks for its slot's release.
LEMMA ReleaseSlotStep ==
    ASSUME IInv, NEW s \in Runs, ReleaseSlot(s)
    PROVE  IInv'
<1>1. /\ client[s].pc = "release" /\ UNCHANGED <<env, orch, pod>>
      /\ Issue(s, "release", "DELETE") /\ client' = [client EXCEPT ![s].pc = "delete"]
  BY Zenon DEF ReleaseSlot, cluster
<1> QED
  BY Zenon, <1>1, IssueFacts, SessionGoes

\* The release is answered.
LEMMA DeleteSlotReturnsStep ==
    ASSUME IInv, NEW s \in Runs, DeleteSlotReturns(s)
    PROVE  IInv'
<1>1. /\ client[s].pc = "delete" /\ UNCHANGED <<env, orch, pod>>
      /\ call' = [call EXCEPT ![<<s, "release">>] = NoAnswer]
      /\ client' = [client EXCEPT ![s].pc = "done"]
  BY Zenon DEF DeleteSlotReturns, cluster
<1>2. <<s, "release">> \in Calls
  BY Zenon DEF Calls
<1> QED
  BY Zenon, <1>1, <1>2, AnswerTaken, SessionGoes

\* A client that gives up leaves its handlers in the shape they had.
LEMMA AbandonFacts ==
    ASSUME IInv, NEW s, Abandon(s)
    PROVE  /\ DOMAIN call' = Calls
           /\ \A c \in Calls : InFlight(c)' => CallShape(c)'
<1>1. Idle.op = "none"
  BY Zenon DEF Idle
<1>2. DOMAIN call' = Calls
  BY Zenon DEF Abandon
<1>3. ASSUME NEW c \in Calls, InFlight(c)'
      PROVE  CallShape(c)'
  <2>1. call'[c] = IF c[1] # s \/ call[c].op = "none" THEN call[c]
                   ELSE IF InFlight(c) THEN [call[c] EXCEPT !.abandoned = TRUE] ELSE Idle
    BY Zenon DEF Abandon
  <2>2. CASE call'[c] = call[c]
    BY Zenon, <1>3, <2>2 DEF IInv, Shape, InFlight, CallShape
  <2>3. CASE InFlight(c) /\ call'[c] = [call[c] EXCEPT !.abandoned = TRUE]
    BY Zenon, <2>3 DEF IInv, Shape, Fields, CallShape
  <2>4. CASE call'[c] = Idle
    BY Zenon, <1>1, <1>3, <2>4 DEF InFlight
  <2> QED BY Zenon, <2>1, <2>2, <2>3, <2>4
<1> QED
  BY Zenon, <1>2, <1>3

\* A client gives up, or the controller dies.
LEMMA GiveUpSteps ==
    ASSUME IInv, NEW s \in Runs, ClientTimeout(s) \/ ControllerCrash(s)
    PROVE  IInv'
<1>1. CASE ClientTimeout(s)
  <2> DEFINE v == IF client[s].pc = "get" THEN "release" ELSE "done"
  <2>1. /\ client[s].pc \in {"create", "get", "delete"} /\ Abandon(s) /\ UNCHANGED <<env, orch, pod>>
        /\ client' = [client EXCEPT ![s].pc = v]
    BY Zenon, <1>1 DEF ClientTimeout, cluster, IInv, Shape
  <2>2. v \notin {"create", "poll", "get", "drive"}
    BY Zenon
  <2> HIDE DEF v
  <2> QED BY Zenon, <2>1, <2>2, AbandonFacts, SessionGoes
<1>2. CASE ControllerCrash(s)
  <2>1. /\ client[s].pc \notin {"start", "done"} /\ Abandon(s) /\ UNCHANGED <<env, orch, pod>>
        /\ client' = [client EXCEPT ![s].pc = "done"]
    BY Zenon, <1>2 DEF ControllerCrash, cluster
  <2> QED BY Zenon, <2>1, AbandonFacts, SessionGoes
<1> QED
  BY Zenon, <1>1, <1>2

-----------------------------------------------------------------------------
(* The theorem *)

\* The invariant holds at first.
LEMMA InitIInv == Init => IInv
<1> SUFFICES ASSUME Init PROVE IInv
  BY Zenon
<1>1. Idle.op = "none"
  BY Zenon DEF Idle
<1>2. \A c \in Calls : call[c] = Idle
  BY Zenon DEF Init
<1>3. \A c \in Calls : ~InFlight(c)
  BY Zenon, <1>1, <1>2 DEF InFlight
<1>4. \A r \in Runs : /\ client[r] = [pc |-> "start", sound |-> FALSE, clean |-> FALSE]
                      /\ client[r].pc = "start" /\ ~client[r].clean
                      /\ DOMAIN client[r] = {"pc", "sound", "clean"}
  BY Zenon DEF Init
<1>5. Shape
  BY Zenon, <1>3, <1>4 DEF Init, Shape, PodShape
<1> QED
  BY Zenon, <1>4, <1>5 DEF IInv, Order, Undisturbed, Holds

\* Every step keeps the invariant.
LEMMA NextIInv == IInv /\ [Next]_vars => IInv'
<1> SUFFICES ASSUME IInv, [Next]_vars PROVE IInv'
  BY Zenon
<1>1. CASE PodRuns \/ PodGone \/ GarbageCollect
  BY Zenon, <1>1, PodRunsStep, PodGoneStep, GarbageCollectStep
<1>2. ASSUME NEW c \in Calls, Handler(c) \/ ApiError(c) PROVE IInv'
  BY Zenon, <1>2, HandlerStep, ApiErrorStep
<1>3. ASSUME NEW r \in Runs, Client(r) \/ ClientTimeout(r) \/ ControllerCrash(r) PROVE IInv'
  BY Zenon, <1>3, CreateSlotStep, CreateSlotReturnsStep, WaitForReadyStep, GetSlotReturnsStep,
     DriveEndsStep, ReleaseSlotStep, DeleteSlotReturnsStep, GiveUpSteps DEF Client
<1>4. CASE Crash \/ ListExisting
  BY Zenon, <1>4, CrashStep, ListExistingStep
<1>5. CASE UNCHANGED vars
  <2>1. UNCHANGED <<env, orch, call, client, entry, pod, svc, capture>>
    BY Zenon, <1>5 DEF vars, cluster
  <2>2. (Live' <=> Live) /\ pod'.image = pod.image
    BY Zenon, <2>1 DEF Live
  <2>3. ASSUME NEW r \in Runs, Captured(r) PROVE Captured(r)'
    BY Zenon, <2>1, <2>3 DEF Captured, Live, Recorded, Copied, Ready, InFlight
  <2> QED BY Zenon, <2>1, <2>2, <2>3, ClusterMoves DEF IInv, Shape, PodShape
<1> QED
  BY Zenon, <1>1, <1>2, <1>3, <1>4, <1>5 DEF Next

\* A session that drives load has the slot it asked for: for any number of sessions on
\* the slot id, any images and any faults, the pod is of its image and behind a Service
\* if the slot map was truthful and no handler ran when it asked and the orchestrator is
\* not restarted; and the capture Job is of that pod and of its band if the slot was
\* clean and the API server answers, even across a restart of the orchestrator.
THEOREM AlwaysServed == Spec => []DrivenIsServed
<1>1. IInv => DrivenIsServed
  <2> SUFFICES ASSUME IInv, NEW r \in Runs, client[r].pc = "drive"
               PROVE  /\ client[r].sound /\ "crash" \notin env.faults =>
                            svc /\ Live /\ pod.image = env.image[r]
                      /\ client[r].clean /\ "api" \notin env.faults =>
                            capture.uid = pod.uid /\ capture.band = BandOf(r)
    BY Zenon DEF DrivenIsServed
  <2>1. client[r].clean => client[r].sound
    BY Zenon DEF IInv, Shape
  <2>2. client[r].sound => Kept(r)
    BY Zenon DEF IInv, Undisturbed, Holds
  <2>3. Ready(r)
    BY Zenon DEF Ready
  <2> QED BY Zenon, <2>1, <2>2, <2>3 DEF Kept, Served, Complete, Captured, Recorded, BandOf
<1> QED
  BY <1>1, InitIInv, NextIInv, PTL DEF Spec
=============================================================================
