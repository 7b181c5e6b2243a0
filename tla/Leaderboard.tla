---------------------------- MODULE Leaderboard ----------------------------
(***************************************************************************)
(* leaderboard-api's event stream, and the whole way from the end of a     *)
(* session to a viewer: Grading, then Scoring, then this module.           *)
(*                                                                         *)
(* services/leaderboard-api: the update consumer (consumer/consumer.go)    *)
(* and the SSE broker (sse/broker.go), whose snapshot is the scores table. *)
(***************************************************************************)
EXTENDS Scoring

CONSTANTS
    Viewers,        \* SSE connections
    ChannelCap      \* capacity of a connection's channel

\* A live-metrics event is not taken for a group's.
ASSUME BrokerKnown ==
    ChannelCap \in Nat /\ \A e \in Environments : "live" \notin Range(e.groupOf)

VARIABLES
    lpos,           \* the consumer's position in leaderboard.updates
    spc,            \* ServeHTTP: off / snapshot / stream / closing
    registered,     \* Broker.clients
    channel,        \* a connection's channel
    closes,         \* how often it was closed
    seen            \* the groups a viewer was shown

boardVars == <<lpos, spc, registered, channel, closes, seen>>
vars == <<env, faults, gradingVars, scoringVars, boardVars>>

\* env and the fault count are within bounds, as is the state of the three components.
TypeOK ==
    /\ GradingTypeOK /\ ScoringTypeOK
    /\ lpos \in 0..Len(updates)
    /\ spc \in [Viewers -> {"off", "snapshot", "stream", "closing"}]
    /\ registered \subseteq Viewers
    /\ \A c \in Viewers :
          /\ Len(channel[c]) <= ChannelCap /\ Range(channel[c]) \subseteq Groups \cup {"live"}
          /\ closes[c] \in Nat /\ seen[c] \subseteq Groups

BoardInit ==
    /\ lpos = 0 /\ spc = [c \in Viewers |-> "off"] /\ registered = {}
    /\ channel = [c \in Viewers |-> <<>>] /\ closes = [c \in Viewers |-> 0]
    /\ seen = [c \in Viewers |-> {}]

-----------------------------------------------------------------------------

SGoto(c, pc) == spc' = [spc EXCEPT ![c] = pc]

\* The channel is registered before the snapshot is read.
Connect(c) ==
    /\ c \in env.viewers /\ spc[c] = "off"
    /\ registered' = registered \cup {c} /\ closes' = [closes EXCEPT ![c] = 0]
    /\ SGoto(c, "snapshot")
    /\ UNCHANGED <<env, faults, lpos, channel, seen>>

\* The rows of scores; an error ends the request.
Snapshot(c) ==
    /\ spc[c] = "snapshot"
    /\ \/ NoFault /\ SGoto(c, "stream") /\ seen' = [seen EXCEPT ![c] = Scored]
       \/ Fault("snapshot") /\ SGoto(c, "closing") /\ UNCHANGED seen
    /\ UNCHANGED <<env, lpos, registered, channel, closes>>

Full(c) == Len(channel[c]) = ChannelCap

\* Mutant: a message that does not fit is dropped, and the connection kept.
Send_Drops(msg) ==
    /\ channel' = [c \in Viewers |-> IF c \in registered /\ ~Full(c) THEN Append(channel[c], msg)
                                                                     ELSE channel[c]]
    /\ UNCHANGED <<registered, closes>>

\* Broker.send, under its mutex: who cannot take the message is closed and removed.
Send(msg) ==
    /\ registered' = {c \in registered : ~Full(c)}
    /\ closes' = [c \in Viewers |-> IF c \in registered /\ Full(c) THEN closes[c] + 1
                                                                   ELSE closes[c]]
    /\ channel' = [c \in Viewers |-> IF c \in registered /\ ~Full(c) THEN Append(channel[c], msg)
                                                                     ELSE channel[c]]

\* Consumer.Run.
Broadcast ==
    /\ lpos < Len(updates) /\ lpos' = lpos + 1
    /\ Send(updates[lpos + 1])
    /\ UNCHANGED <<env, faults, spc, seen>>

\* The live-metrics poller shares the channels.
BroadcastLive ==
    /\ registered # {}
    /\ Send("live")
    /\ UNCHANGED <<env, faults, lpos, spc, seen>>

\* A closed channel hands out what it holds, then ends the handler.
Deliver(c) ==
    /\ spc[c] = "stream"
    /\ IF channel[c] # <<>>
       THEN /\ seen' = [seen EXCEPT ![c] = @ \cup ({Head(channel[c])} \ {"live"})]
            /\ channel' = [channel EXCEPT ![c] = Tail(@)]
            /\ UNCHANGED spc
       ELSE closes[c] > 0 /\ SGoto(c, "closing") /\ UNCHANGED <<seen, channel>>
    /\ UNCHANGED <<env, faults, lpos, registered, closes>>

\* The request's context is done, or a keepalive cannot be written.
Leave(c) ==
    /\ spc[c] = "stream" /\ Fault("leave")
    /\ SGoto(c, "closing")
    /\ UNCHANGED <<env, lpos, registered, channel, closes, seen>>

\* The deferred function of ServeHTTP.
Unregister(c) ==
    /\ spc[c] = "closing" /\ SGoto(c, "off")
    /\ registered' = registered \ {c}
    /\ closes' = [closes EXCEPT ![c] = IF c \in registered THEN @ + 1 ELSE @]
    /\ channel' = [channel EXCEPT ![c] = <<>>] /\ seen' = [seen EXCEPT ![c] = {}]
    /\ UNCHANGED <<env, faults, lpos>>

\* Nothing is ever committed: a restarted process begins at the end of the topic.
ApiCrash ==
    /\ Fault("apiCrash")
    /\ lpos' = Len(updates)
    /\ spc' = [c \in Viewers |-> "off"] /\ registered' = {}
    /\ channel' = [c \in Viewers |-> <<>>] /\ closes' = [c \in Viewers |-> 0]
    /\ seen' = [c \in Viewers |-> {}]
    /\ UNCHANGED env

BoardNext ==
    \/ \E c \in Viewers : Connect(c) \/ Snapshot(c) \/ Deliver(c) \/ Leave(c) \/ Unregister(c)
    \/ Broadcast \/ BroadcastLive \/ ApiCrash

-----------------------------------------------------------------------------
(* The composition *)

Init == env \in Environments /\ faults = 0 /\ GradingInit /\ ScoringInit /\ BoardInit

Next ==
    \/ GradingNext /\ UNCHANGED <<scoringVars, boardVars>>
    \/ ScoringNext /\ UNCHANGED <<gradingVars, boardVars>>
    \/ BoardNext /\ UNCHANGED <<gradingVars, scoringVars>>

OfGrading(A) == A /\ UNCHANGED <<scoringVars, boardVars>>
OfScoring(A) == A /\ UNCHANGED <<gradingVars, boardVars>>
OfBoard(A) == A /\ UNCHANGED <<gradingVars, scoringVars>>

\* Every goroutine goes on while it can; whether viewers connect is theirs to decide.
Fairness ==
    /\ \A v \in Validators :
          /\ WF_vars(v \in env.validators /\ OfGrading(Validate(v)))
          /\ WF_vars(v \in env.validators /\ OfGrading(LearnBand(v)))
    /\ \A c \in Consumers : WF_vars(c \in env.consumers /\ OfScoring(Trigger(c)))
    /\ WF_vars(OfScoring(PendingRunGroups \/ EnqueuePending))
    /\ \A w \in Workers : WF_vars(w \in env.workers /\ OfScoring(Worker(w)))
    /\ WF_vars(OfBoard(Broadcast))
    /\ \A c \in Viewers : WF_vars(OfBoard(Snapshot(c) \/ Deliver(c) \/ Unregister(c)))

Spec == Init /\ [][Next]_vars /\ Fairness

-----------------------------------------------------------------------------
(* Properties *)

\* A connection that is still registered misses no group: what was broadcast is in its
\* snapshot, was shown, or waits in its channel, whatever was broadcast between its
\* registration and its snapshot, and however slowly it reads (ServeHTTP, send).  Its
\* channel is open: it is closed at most once, by the eviction or by the handler's
\* deferred close, and send never meets a closed one.
NoGap ==
    /\ \A c \in registered : spc[c] = "stream" =>
        \A i \in 1..lpos : updates[i] \in seen[c] \cup Range(channel[c])
    /\ \A c \in Viewers : closes[c] <= 1 /\ (c \in registered /\ spc[c] # "off" => closes[c] = 0)

\* Every completed session gets a verdict, through validation timeouts, restarts,
\* rebalances and lost commits (the offset is committed last), and every group of
\* completed sessions is scored, through restarts of score-computer too: whichever
\* consumer records last finds the group ready, and the start-up scan finds what a
\* restart threw away.
EventuallyScored ==
    (Reliable /\ Completes) =>
        <>(/\ Sessions = {v.session : v \in Range(verdicts)}
           /\ env.consumers = Consumers => Groups = Scored)
=============================================================================
