-------------------------- MODULE LeaderboardProofs --------------------------
(***************************************************************************)
(* Proofs about Grading, Scoring and Leaderboard, composed: for every set  *)
(* of processes, every history of statuses and any number of faults.       *)
(***************************************************************************)
EXTENDS Leaderboard, TLAPS

Verdicts == [session : Sessions, grade : Grades, jitter : BOOLEAN]

\* A validator at work has a message.  The one that publishes its own grade has claimed
\* the row with it, and the one that republishes found a row.
AtWork(v) ==
    /\ vpc[v] # "fetch" => vmsg[v] # 0
    /\ vpc[v] = "publish" => summary[SessionAt(v)] = mode[v]
    /\ vpc[v] = "republish" => summary[SessionAt(v)] \in Modes
    /\ vpc[v] = "fallback" => summary[SessionAt(v)] # "none"

GradingInv ==
    /\ GradingTypeOK /\ verdicts \in Seq(Verdicts)
    /\ \A v \in Validators : AtWork(v)
    /\ AnnouncedIsStored

\* Every session of the group has a verdict in score_progress.
Complete(g) == \A s \in SessionsOf(g) : graded[s] # {}

ConsumerTypes ==
    /\ pos \in [Consumers -> Nat] /\ done \in [Consumers -> Nat]
    /\ \A c \in Consumers : done[c] <= pos[c] /\ pos[c] <= Len(Topic(c))
    /\ cpc \in [Consumers -> {"fetch", "check", "enqueue", "commit"}]
    /\ terminal \subseteq Sessions
    /\ graded \in [Sessions -> SUBSET Range(verdicts)]
    /\ \A s \in Sessions : (\A u, v \in graded[s] : u = v) /\ \A v \in graded[s] : v.session = s

WorkerTypes ==
    /\ ready \in Seq(Groups) /\ Len(ready) <= ReadyCap
    /\ scanned \in BOOLEAN /\ pending \subseteq Groups
    /\ wpc \in [Workers -> {"idle", "load", "save", "mark", "publish"}]
    /\ job \in [Workers -> SUBSET Groups] /\ input \in [Workers -> SUBSET Range(verdicts)]
    /\ scores \in [Groups -> SUBSET Range(verdicts)] /\ marked \subseteq Scored
    /\ updates \in Seq(Groups)

\* A consumer at work has a message; what it is about to enqueue is complete.
Triggers ==
    \A c \in Consumers :
        /\ cpc[c] # "fetch" => pos[c] < Len(Topic(c))
        /\ cpc[c] = "enqueue" => Complete(env.groupOf[MsgSession(c)])

\* A group is enqueued, and a worker works on it, once it is complete; what the worker
\* saves has a verdict of each session.
OnlyComplete ==
    /\ \A g \in Range(ready) \cup pending : Complete(g)
    /\ \A w \in Workers :
          /\ wpc[w] # "idle" => \E g \in Groups : job[w] = {g} /\ Complete(g)
          /\ wpc[w] = "save" => {v.session : v \in input[w]} = SessionsOf(GroupAt(w))

Announcing(w) == wpc[w] \in {"mark", "publish"}

\* A scored group has one announcement: made, in the hands of one worker, or lost.
Latched ==
    /\ Range(updates) \subseteq Scored
    /\ \A w \in Workers : Announcing(w) => GroupAt(w) \in Scored \ Range(updates)
    /\ \A w, x \in Workers :
          Announcing(w) /\ Announcing(x) /\ GroupAt(w) = GroupAt(x) => w = x

ScoringInv ==
    ConsumerTypes /\ WorkerTypes /\ Triggers /\ OnlyComplete /\ Latched /\ ScoredOnce

BoardInv ==
    /\ lpos \in 0..Len(updates)
    /\ spc \in [Viewers -> {"off", "snapshot", "stream", "closing"}]
    /\ registered \subseteq Viewers
    /\ channel \in [Viewers -> Seq(Groups \cup {"live"})]
    /\ \A c \in Viewers : Len(channel[c]) <= ChannelCap
    /\ closes \in [Viewers -> Nat] /\ seen \in [Viewers -> SUBSET Groups]
    /\ \A c \in registered : spc[c] # "off"
    /\ NoGap

IInv == GradingInv /\ ScoringInv /\ BoardInv

-----------------------------------------------------------------------------
(* Grading *)

\* A step neither takes back a claimed row nor deletes one.
Kept ==
    \A s \in Sessions : /\ summary[s] \in Modes => summary'[s] = summary[s]
                        /\ summary[s] # "none" => summary'[s] # "none"

\* What a step adds to scores.correctness.
Announces(x) == verdicts' \in {verdicts, Append(verdicts, x)}

\* What the proofs use of sequences.
LEMMA SeqLen ==
    ASSUME NEW S, NEW q \in Seq(S)
    PROVE  Len(q) \in Nat /\ DOMAIN q = 1..Len(q) /\ q \in [1..Len(q) -> S]
  OBVIOUS

\* An element of a sequence is an element of its set.
LEMMA SeqElement ==
    ASSUME NEW S, NEW q \in Seq(S), NEW i \in 1..Len(q)
    PROVE  q[i] \in S
  OBVIOUS

\* The empty sequence.
LEMMA SeqEmpty ==
    ASSUME NEW S
    PROVE  << >> \in Seq(S) /\ Len(<< >>) = 0 /\ \A q \in Seq(S) : q # << >> => Len(q) \in Nat \ {0}
  OBVIOUS

\* What Append leaves and adds.
LEMMA SeqAppend ==
    ASSUME NEW S, NEW q \in Seq(S), NEW x \in S
    PROVE  /\ Append(q, x) \in Seq(S) /\ Append(q, x) # << >>
           /\ Len(Append(q, x)) = Len(q) + 1 /\ Append(q, x)[Len(q) + 1] = x
           /\ \A i \in 1..Len(q) : Append(q, x)[i] = q[i]
  OBVIOUS

\* What taking the head leaves.
LEMMA SeqHeadTail ==
    ASSUME NEW S, NEW q \in Seq(S), q # << >>
    PROVE  /\ Head(q) \in S /\ Tail(q) \in Seq(S) /\ Len(Tail(q)) = Len(q) - 1
           /\ \A i \in 1..Len(Tail(q)) : Tail(q)[i] = q[i + 1]
  OBVIOUS

\* What the statuses and the specs of an environment are.
LEMMA StreamFacts ==
    ASSUME env \in Environments
    PROVE  /\ env.validators \subseteq Validators /\ env.maxFaults \in Nat
           /\ Len(env.statuses) \in Nat /\ Len(env.specs) \in Nat
           /\ \A i \in 1..Len(env.statuses) : env.statuses[i][1] \in Sessions
           /\ \A i \in 1..Len(env.specs) : env.specs[i] \in Sessions
<1>1. /\ env.validators \subseteq Validators /\ env.maxFaults \in Nat
      /\ env.statuses \in Seq(Sessions \X STRING) /\ env.specs \in Seq(Sessions)
  BY Zenon, StreamsKnown DEF Sessions
<1>2. \A i \in 1..Len(env.statuses) : env.statuses[i] \in Sessions \X STRING
  BY Zenon, <1>1, SeqElement
<1> QED
  BY Zenon, <1>1, <1>2, SeqElement, SeqLen

\* The session a validator works on.
LEMMA SessionAtFacts ==
    ASSUME GradingInv, NEW v \in Validators, vpc[v] # "fetch"
    PROVE  SessionAt(v) \in Sessions /\ vmsg[v] \in 1..Len(env.statuses)
<1>1. vmsg[v] \in 0..Len(env.statuses) /\ vmsg[v] # 0 /\ env \in Environments
  BY Zenon DEF GradingInv, GradingTypeOK, AtWork
<1>2. vmsg[v] \in 1..Len(env.statuses)
  BY <1>1, StreamFacts
<1> QED
  BY Zenon, <1>1, <1>2, StreamFacts DEF SessionAt

\* The fault count stays within its bound.
LEMMA FaultCount ==
    ASSUME GradingTypeOK, NoFault \/ \E kind \in AllFaults : Fault(kind), env' = env
    PROVE  faults' \in 0..env.maxFaults
  BY StreamFacts DEF GradingTypeOK, NoFault, Fault

\* A validator that does not move is where it was.
LEMMA OthersAtWork ==
    ASSUME GradingInv, env' = env, Kept, NEW u \in Validators,
           vpc'[u] = vpc[u], vmsg'[u] = vmsg[u], mode'[u] = mode[u]
    PROVE  AtWork(u)'
<1>1. AtWork(u) /\ mode[u] \in Modes
  BY Zenon DEF GradingInv, GradingTypeOK
<1>2. SessionAt(u)' = SessionAt(u)
  BY Zenon DEF SessionAt
<1>3. CASE vpc[u] = "fetch"
  BY Zenon, <1>3, <1>1 DEF AtWork
<1>4. CASE vpc[u] # "fetch"
  <2>1. SessionAt(u) \in Sessions
    BY Zenon, <1>4, SessionAtFacts
  <2>2. /\ summary[SessionAt(u)] \in Modes => summary'[SessionAt(u)] = summary[SessionAt(u)]
        /\ summary[SessionAt(u)] # "none" => summary'[SessionAt(u)] # "none"
    BY Zenon, <2>1 DEF Kept
  <2> QED BY Zenon, <1>1, <1>2, <2>2 DEF AtWork
<1> QED
  BY Zenon, <1>3, <1>4

\* A verdict that tells what is stored may go out.
LEMMA Announced ==
    ASSUME GradingInv, env' = env, Kept, NEW x \in Verdicts,
           x.grade \in Modes => x.grade = summary[x.session],
           Announces(x)
    PROVE  verdicts' \in Seq(Verdicts) /\ AnnouncedIsStored' /\ Verdicts' = Verdicts
<1>1. verdicts \in Seq(Verdicts) /\ Verdicts' = Verdicts
  BY Zenon DEF GradingInv, Verdicts, Sessions
<1>2. x.session \in Sessions /\ \A i \in DOMAIN verdicts : verdicts[i].session \in Sessions
  BY Zenon DEF GradingInv, GradingTypeOK, Verdicts
<1>3. CASE verdicts' = verdicts
  BY Zenon, <1>1, <1>2, <1>3 DEF GradingInv, AnnouncedIsStored, Kept
<1>4. CASE verdicts' = Append(verdicts, x)
  <2>1. /\ verdicts' \in Seq(Verdicts) /\ DOMAIN verdicts = 1..Len(verdicts)
        /\ Len(verdicts) \in Nat /\ DOMAIN verdicts' = 1..(Len(verdicts) + 1)
        /\ \A i \in 1..Len(verdicts) : verdicts'[i] = verdicts[i]
        /\ verdicts'[Len(verdicts) + 1] = x
    BY <1>1, <1>4, SeqAppend, SeqLen
  <2>2. ASSUME NEW i \in DOMAIN verdicts', verdicts'[i].grade \in Modes
        PROVE  verdicts'[i].grade = summary'[verdicts'[i].session]
    <3>1. CASE i \in 1..Len(verdicts)
      BY <2>1, <2>2, <3>1, <1>2 DEF GradingInv, AnnouncedIsStored, Kept
    <3>2. CASE i = Len(verdicts) + 1
      BY Zenon, <2>1, <2>2, <3>2, <1>2 DEF Kept
    <3> QED BY <2>1, <3>1, <3>2
  <2> QED BY Zenon, <1>1, <2>1, <2>2 DEF AnnouncedIsStored
<1> QED
  BY Zenon, <1>3, <1>4 DEF Announces

VPCs == {"fetch", "settle", "drain", "save", "publish", "timeout", "fallback", "republish", "commit"}

\* What a step of one process must establish for the invariant to hold after it.
Moves(v) ==
    /\ env' = env /\ faults' \in 0..env.maxFaults
    /\ owner' \in Validators /\ rpos' \in 0..Len(env.statuses) /\ com' \in 0..Len(env.statuses)
    /\ vpc' \in [Validators -> VPCs] /\ vmsg' \in [Validators -> 0..Len(env.statuses)]
    /\ mode' \in [Validators -> Modes]
    /\ bpos' \in [Validators -> 0..Len(env.specs)] /\ cache' \in [Validators -> SUBSET Sessions]
    /\ summary' \in [Sessions -> Grades \cup {"none"}] /\ Kept
    /\ \A u \in Validators \ {v} : vpc'[u] = vpc[u] /\ vmsg'[u] = vmsg[u] /\ mode'[u] = mode[u]
    /\ \/ verdicts' = verdicts
       \/ \E x \in Verdicts : Announces(x) /\ (x.grade \in Modes => x.grade = summary[x.session])

\* A move of a validator keeps the invariant.
LEMMA MovesKeeps ==
    ASSUME GradingInv, NEW v \in Validators, Moves(v), AtWork(v)'
    PROVE  GradingInv'
<1>1. env' = env /\ Kept /\ Sessions' = Sessions /\ Verdicts' = Verdicts
  BY Zenon DEF Moves, Sessions, Verdicts
<1>2. \A u \in Validators : AtWork(u)'
  BY Zenon, <1>1, OthersAtWork DEF Moves
<1>3. verdicts' \in Seq(Verdicts) /\ AnnouncedIsStored'
  <2>1. CASE verdicts' = verdicts
    <3>1. \A i \in DOMAIN verdicts : verdicts[i].session \in Sessions
      BY Zenon DEF GradingInv, GradingTypeOK
    <3> QED BY Zenon, <1>1, <2>1, <3>1 DEF GradingInv, AnnouncedIsStored, Kept
  <2>2. CASE \E x \in Verdicts : Announces(x) /\ (x.grade \in Modes => x.grade = summary[x.session])
    BY Zenon, <1>1, <2>2, Announced
  <2> QED BY Zenon, <2>1, <2>2 DEF Moves
<1>4. \A i \in DOMAIN verdicts' : verdicts'[i] \in Verdicts
  BY Zenon, <1>3, SeqElement, SeqLen
<1>5. GradingTypeOK'
  BY Zenon, <1>1, <1>4 DEF Moves, GradingInv, GradingTypeOK, VPCs, Verdicts
<1> QED
  BY Zenon, <1>1, <1>2, <1>3, <1>5 DEF GradingInv

\* The steps of a message: each is a move of one process that leaves it with what its
\* next step relies on.
LEMMA FetchMoves ==
    ASSUME GradingInv, NEW v \in env.validators, FetchStatus(v)
    PROVE  Moves(v) /\ AtWork(v)'
<1> USE DEF VPCs
<1>1. GradingTypeOK /\ v \in Validators /\ Len(env.statuses) \in Nat
  BY Zenon, StreamFacts DEF GradingInv, GradingTypeOK
<1>2. /\ rpos < Len(env.statuses) /\ rpos' = rpos + 1
      /\ UNCHANGED <<env, owner, com, mode, bpos, cache, summary, verdicts>>
  BY Zenon DEF FetchStatus
<1>3. rpos + 1 \in 1..Len(env.statuses) /\ rpos + 1 # 0
  BY <1>1, <1>2 DEF GradingTypeOK
<1>4. faults' \in 0..env.maxFaults
  BY Zenon, <1>1, <1>2, FaultCount DEF FetchStatus, AllFaults
<1>5. \/ \E p \in {"commit", "republish", "settle", "timeout"} :
            /\ vpc' = [vpc EXCEPT ![v] = p] /\ vmsg' = [vmsg EXCEPT ![v] = rpos + 1]
            /\ p = "republish" => summary[env.statuses[rpos + 1][1]] \in Modes
      \/ UNCHANGED <<vpc, vmsg>>
  BY Zenon DEF FetchStatus, VGoto
<1>6. Kept
  BY Zenon, <1>2 DEF Kept
<1>7. CASE UNCHANGED <<vpc, vmsg>>
  <2>1. Moves(v)
    BY <1>1, <1>2, <1>3, <1>4, <1>6, <1>7 DEF Moves, GradingTypeOK
  <2> QED BY Zenon, <1>1, <1>2, <1>6, <1>7, <2>1, OthersAtWork
<1>8. CASE \E p \in {"commit", "republish", "settle", "timeout"} :
             /\ vpc' = [vpc EXCEPT ![v] = p] /\ vmsg' = [vmsg EXCEPT ![v] = rpos + 1]
             /\ p = "republish" => summary[env.statuses[rpos + 1][1]] \in Modes
  <2>1. Moves(v)
    BY <1>1, <1>2, <1>3, <1>4, <1>6, <1>8 DEF Moves, GradingTypeOK
  <2>2. AtWork(v)'
    BY Zenon, <1>1, <1>2, <1>3, <1>8 DEF AtWork, SessionAt, GradingTypeOK
  <2> QED BY Zenon, <2>1, <2>2
<1> QED
  BY Zenon, <1>5, <1>7, <1>8

\* Waiting for the capture to settle is such a move ...
LEMMA SettleMoves ==
    ASSUME GradingInv, NEW v \in env.validators, Settle(v)
    PROVE  Moves(v) /\ AtWork(v)'
<1>1. GradingTypeOK /\ v \in Validators /\ vpc[v] = "settle" /\ vmsg[v] # 0
  BY Zenon, StreamFacts DEF GradingInv, GradingTypeOK, Settle, AtWork
<1>2. Kept
  BY Zenon DEF Settle, Kept
<1>3. /\ vpc' = [vpc EXCEPT ![v] = "drain"]
      /\ \E d \in Modes : mode' = [mode EXCEPT ![v] = d]
      /\ cache' = [cache EXCEPT ![v] = @ \ {SessionAt(v)}]
      /\ UNCHANGED <<env, faults, owner, rpos, com, vmsg, bpos, summary, verdicts>>
  BY Zenon DEF Settle, VGoto, Modes
<1>4. cache' \in [Validators -> SUBSET Sessions]
  BY Zenon, <1>1, <1>3 DEF GradingTypeOK
<1> QED
  BY <1>1, <1>2, <1>3, <1>4 DEF Moves, GradingTypeOK, AtWork, VPCs

\* Where an error leaves a validator.
LEMMA FailsMoves ==
    ASSUME GradingInv, NEW v \in Validators, vpc[v] # "fetch",
           \/ Finish(v)
           \/ VGoto(v, "timeout") /\ UNCHANGED <<vmsg, mode>>
           \/ VGoto(v, "commit") /\ UNCHANGED <<vmsg, mode>>
    PROVE  /\ vpc' \in [Validators -> VPCs] /\ vmsg' \in [Validators -> 0..Len(env.statuses)]
           /\ mode' \in [Validators -> Modes]
           /\ \A u \in Validators \ {v} : vpc'[u] = vpc[u] /\ vmsg'[u] = vmsg[u] /\ mode'[u] = mode[u]
           /\ AtWork(v)'
<1>1. GradingTypeOK /\ vmsg[v] # 0 /\ 0 \in 0..Len(env.statuses)
  BY StreamFacts DEF GradingInv, GradingTypeOK, AtWork
<1>2. CASE Finish(v)
  BY Zenon, <1>1, <1>2 DEF GradingTypeOK, Finish, VGoto, VPCs, Modes, AtWork
<1>3. CASE \E p \in {"timeout", "commit"} : VGoto(v, p) /\ UNCHANGED <<vmsg, mode>>
  BY Zenon, <1>1, <1>3 DEF GradingTypeOK, VGoto, VPCs, AtWork
<1> QED
  BY Zenon, <1>2, <1>3

\* ... so is draining the validation ...
LEMMA DrainMoves ==
    ASSUME GradingInv, NEW v \in env.validators, Drain(v)
    PROVE  Moves(v) /\ AtWork(v)'
<1>1. GradingTypeOK /\ v \in Validators /\ vpc[v] = "drain" /\ vmsg[v] # 0
  BY Zenon, StreamFacts DEF GradingInv, GradingTypeOK, Drain, AtWork
<1>2. UNCHANGED <<env, owner, rpos, com, bpos, cache, summary, verdicts>> /\ Kept
  BY Zenon DEF Drain, Kept
<1>3. faults' \in 0..env.maxFaults
  BY Zenon, <1>1, <1>2, FaultCount DEF Drain, Fails, AllFaults
<1>4. CASE VGoto(v, "save") /\ UNCHANGED <<vmsg, mode>>
  BY Zenon, <1>1, <1>2, <1>3, <1>4 DEF Moves, GradingTypeOK, AtWork, VPCs, VGoto
<1>5. CASE Finish(v) \/ (VGoto(v, "timeout") /\ UNCHANGED <<vmsg, mode>>)
  BY Zenon, <1>1, <1>2, <1>3, <1>5, FailsMoves DEF Moves, GradingTypeOK
<1> QED
  BY Zenon, <1>4, <1>5 DEF Drain, Fails

\* ... saving its verdict ...
LEMMA SaveMoves ==
    ASSUME GradingInv, NEW v \in env.validators, Save(v)
    PROVE  Moves(v) /\ AtWork(v)'
<1> DEFINE s == SessionAt(v)
           written == [summary EXCEPT ![s] = IF Claims(s) THEN mode[v] ELSE @]
<1>1. GradingTypeOK /\ v \in Validators /\ vpc[v] = "save" /\ vmsg[v] # 0 /\ mode[v] \in Modes
  BY Zenon, StreamFacts DEF GradingInv, GradingTypeOK, Save, AtWork
<1>2. s \in Sessions
  BY Zenon, <1>1, SessionAtFacts
<1>3. UNCHANGED <<env, owner, rpos, com, bpos, cache, verdicts>> /\ summary' \in {summary, written}
  BY Zenon DEF Save
<1>4. faults' \in 0..env.maxFaults
  BY Zenon, <1>1, <1>3, FaultCount DEF Save, Fails, AllFaults
<1>5. summary' \in [Sessions -> Grades \cup {"none"}] /\ Kept
  BY Zenon, <1>1, <1>2, <1>3 DEF GradingTypeOK, Grades, Modes, Kept, Claims
<1>6. CASE Claims(s) /\ VGoto(v, "publish") /\ summary' = written /\ UNCHANGED <<vmsg, mode>>
  <2>1. Moves(v)
    BY Zenon, <1>1, <1>3, <1>4, <1>5, <1>6 DEF Moves, GradingTypeOK, VPCs, VGoto
  <2>2. SessionAt(v)' = s /\ summary'[s] = mode'[v] /\ vpc'[v] = "publish" /\ vmsg'[v] # 0
    BY Zenon, <1>1, <1>2, <1>3, <1>6 DEF SessionAt, GradingTypeOK, VGoto
  <2> QED BY Zenon, <2>1, <2>2 DEF AtWork
<1>7. CASE \/ VGoto(v, "commit") /\ UNCHANGED <<vmsg, mode>>
           \/ Finish(v)
           \/ VGoto(v, "timeout") /\ UNCHANGED <<vmsg, mode>>
  BY Zenon, <1>1, <1>3, <1>4, <1>5, <1>7, FailsMoves DEF Moves, GradingTypeOK
<1> QED
  BY Zenon, <1>6, <1>7 DEF Save, Fails

\* ... publishing it ...
LEMMA PublishMoves ==
    ASSUME GradingInv, NEW v \in env.validators, Publish(v)
    PROVE  Moves(v) /\ AtWork(v)'
<1> DEFINE x == Verdict(SessionAt(v), mode[v], mode[v] = "invariants")
<1>1. /\ GradingTypeOK /\ v \in Validators /\ vpc[v] = "publish" /\ vmsg[v] # 0 /\ mode[v] \in Modes
      /\ summary[SessionAt(v)] = mode[v]
  BY Zenon, StreamFacts DEF GradingInv, GradingTypeOK, Publish, AtWork
<1>2. x \in Verdicts /\ x.grade = summary[x.session]
  <2>1. SessionAt(v) \in Sessions /\ mode[v] \in Grades /\ (mode[v] = "invariants") \in BOOLEAN
    BY Zenon, <1>1, SessionAtFacts DEF Grades
  <2> QED BY Zenon, <1>1, <2>1 DEF Verdicts, Verdict
<1>3. /\ UNCHANGED <<env, owner, rpos, com, bpos, cache, summary>> /\ Kept
      /\ verdicts' \in {verdicts, Append(verdicts, x)}
  BY Zenon DEF Publish, Kept
<1>4. faults' \in 0..env.maxFaults
  BY Zenon, <1>1, <1>3, FaultCount DEF Publish, Fails, AllFaults
<1>5. \/ VGoto(v, "commit") /\ UNCHANGED <<vmsg, mode>>
      \/ Finish(v)
      \/ VGoto(v, "timeout") /\ UNCHANGED <<vmsg, mode>>
  BY Zenon DEF Publish, Fails
<1> HIDE DEF x
<1> QED
  BY Zenon, <1>1, <1>2, <1>3, <1>4, <1>5, FailsMoves DEF Moves, GradingTypeOK, Announces

\* ... giving up on a timeout ...
LEMMA TimedOutMoves ==
    ASSUME GradingInv, NEW v \in env.validators, TimedOut(v)
    PROVE  Moves(v) /\ AtWork(v)'
<1> DEFINE s == SessionAt(v)
           written == [summary EXCEPT ![s] = IF @ = "none" THEN "timed_out" ELSE @]
<1>1. GradingTypeOK /\ v \in Validators /\ vpc[v] = "timeout" /\ vmsg[v] # 0
  BY Zenon, StreamFacts DEF GradingInv, GradingTypeOK, TimedOut, AtWork
<1>2. s \in Sessions
  BY Zenon, <1>1, SessionAtFacts
<1>3. UNCHANGED <<env, owner, rpos, com, bpos, cache, verdicts>> /\ summary' \in {summary, written}
  BY Zenon DEF TimedOut
<1>4. faults' \in 0..env.maxFaults
  BY Zenon, <1>1, <1>3, FaultCount DEF TimedOut, AllFaults
<1>5. summary' \in [Sessions -> Grades \cup {"none"}] /\ Kept
  BY Zenon, <1>1, <1>2, <1>3 DEF GradingTypeOK, Grades, Modes, Kept
<1>6. CASE VGoto(v, "fallback") /\ UNCHANGED <<vmsg, mode>> /\ summary' = written
  <2>1. Moves(v)
    BY Zenon, <1>1, <1>3, <1>4, <1>5, <1>6 DEF Moves, GradingTypeOK, VPCs, VGoto
  <2>2. SessionAt(v)' = s /\ summary'[s] # "none" /\ vpc'[v] = "fallback" /\ vmsg'[v] # 0
    BY Zenon, <1>1, <1>2, <1>3, <1>6 DEF SessionAt, GradingTypeOK, VGoto
  <2> QED BY Zenon, <2>1, <2>2 DEF AtWork
<1>7. CASE Finish(v)
  BY Zenon, <1>1, <1>3, <1>4, <1>5, <1>7, FailsMoves DEF Moves, GradingTypeOK
<1> QED
  BY Zenon, <1>6, <1>7 DEF TimedOut

\* ... publishing a stored verdict again ...
LEMMA RepublishMoves ==
    ASSUME GradingInv, NEW v \in env.validators, Republish(v)
    PROVE  Moves(v) /\ AtWork(v)'
<1> DEFINE x == Verdict(SessionAt(v), summary[SessionAt(v)], FALSE)
<1>1. /\ GradingTypeOK /\ v \in Validators /\ vpc[v] \in {"republish", "fallback"}
      /\ summary[SessionAt(v)] # "none"
  BY Zenon, StreamFacts DEF GradingInv, GradingTypeOK, Republish, AtWork, Modes
<1>2. x \in Verdicts /\ x.grade = summary[x.session]
  <2>1. SessionAt(v) \in Sessions
    BY Zenon, <1>1, SessionAtFacts
  <2>2. summary[SessionAt(v)] \in Grades
    BY Zenon, <1>1, <2>1 DEF GradingTypeOK
  <2> QED BY Zenon, <2>1, <2>2 DEF Verdicts, Verdict
<1>3. /\ UNCHANGED <<env, owner, rpos, com, bpos, cache, summary>> /\ Kept
      /\ verdicts' \in {verdicts, Append(verdicts, x)}
  BY Zenon DEF Republish, Kept
<1>4. faults' \in 0..env.maxFaults
  BY Zenon, <1>1, <1>3, FaultCount DEF Republish, AllFaults
<1>5. \/ VGoto(v, "commit") /\ UNCHANGED <<vmsg, mode>>
      \/ Finish(v)
      \/ VGoto(v, "timeout") /\ UNCHANGED <<vmsg, mode>>
  BY Zenon DEF Republish
<1> HIDE DEF x
<1> QED
  BY Zenon, <1>1, <1>2, <1>3, <1>4, <1>5, FailsMoves DEF Moves, GradingTypeOK, Announces

\* ... and committing the offset.
LEMMA CommitStatusMoves ==
    ASSUME GradingInv, NEW v \in env.validators, CommitStatus(v)
    PROVE  Moves(v) /\ AtWork(v)'
<1>1. /\ GradingTypeOK /\ v \in Validators /\ vpc[v] = "commit"
      /\ vmsg[v] \in 0..Len(env.statuses)
  BY Zenon, StreamFacts DEF GradingInv, GradingTypeOK, CommitStatus
<1>2. UNCHANGED <<env, owner, rpos, bpos, cache, summary, verdicts>> /\ Finish(v) /\ Kept
  BY Zenon DEF CommitStatus, Kept
<1>3. com' \in {com, vmsg[v]}
  BY Zenon DEF CommitStatus
<1>4. faults' \in 0..env.maxFaults
  BY Zenon, <1>1, <1>2, FaultCount DEF CommitStatus, AllFaults
<1> QED
  BY Zenon, <1>1, <1>2, <1>3, <1>4, FailsMoves DEF Moves, GradingTypeOK

\* The steps beside the handling of a message.
LEMMA BesidesMoves ==
    ASSUME GradingInv, NEW v \in env.validators,
           LearnBand(v) \/ Rebalance(v) \/ ValidatorCrash(v)
    PROVE  Moves(v) /\ AtWork(v)'
<1>1. GradingTypeOK /\ v \in Validators /\ Len(env.specs) \in Nat /\ Len(env.statuses) \in Nat
  BY Zenon, StreamFacts DEF GradingInv, GradingTypeOK
<1>2. CASE LearnBand(v)
  <2>1. /\ bpos[v] < Len(env.specs)
        /\ cache' = [cache EXCEPT ![v] = @ \cup {env.specs[bpos[v] + 1]}]
        /\ bpos' = [bpos EXCEPT ![v] = @ + 1]
        /\ UNCHANGED <<env, faults, owner, rpos, com, vpc, vmsg, mode, summary, verdicts>>
    BY Zenon, <1>2 DEF LearnBand
  <2>2. bpos[v] + 1 \in 1..Len(env.specs)
    BY <1>1, <2>1 DEF GradingTypeOK
  <2>3. env.specs[bpos[v] + 1] \in Sessions
    BY Zenon, <1>1, <2>2, StreamFacts DEF GradingTypeOK
  <2>4. Kept
    BY Zenon, <2>1 DEF Kept
  <2>5. /\ bpos' \in [Validators -> 0..Len(env.specs)]
        /\ cache' \in [Validators -> SUBSET Sessions]
    BY <1>1, <2>1, <2>2, <2>3 DEF GradingTypeOK
  <2>6. Moves(v)
    BY Zenon, <1>1, <2>1, <2>4, <2>5 DEF Moves, GradingTypeOK, VPCs
  <2> QED BY Zenon, <1>1, <2>1, <2>4, <2>6, OthersAtWork
<1>3. CASE Rebalance(v)
  <2>1. /\ owner' = v /\ rpos' = com /\ Kept
        /\ UNCHANGED <<env, com, vpc, vmsg, mode, bpos, cache, summary, verdicts>>
    BY Zenon, <1>3 DEF Rebalance, Kept
  <2>2. faults' \in 0..env.maxFaults
    BY Zenon, <1>1, <1>3, <2>1, FaultCount DEF Rebalance, AllFaults
  <2>3. Moves(v)
    BY Zenon, <1>1, <2>1, <2>2 DEF Moves, GradingTypeOK, VPCs
  <2> QED BY Zenon, <1>1, <2>1, <2>3, OthersAtWork
<1>4. CASE ValidatorCrash(v)
  <2>1. /\ Finish(v) /\ cache' = [cache EXCEPT ![v] = {}] /\ rpos' \in {com, rpos} /\ Kept
        /\ UNCHANGED <<env, owner, com, bpos, summary, verdicts>>
    BY Zenon, <1>4 DEF ValidatorCrash, Kept
  <2>2. faults' \in 0..env.maxFaults
    BY Zenon, <1>1, <1>4, <2>1, FaultCount DEF ValidatorCrash, AllFaults
  <2>3. cache' \in [Validators -> SUBSET Sessions]
    BY Zenon, <1>1, <2>1 DEF GradingTypeOK
  <2> QED BY <1>1, <2>1, <2>2, <2>3 DEF Moves, GradingTypeOK, VPCs, Modes, Finish, VGoto, AtWork
<1> QED
  BY Zenon, <1>2, <1>3, <1>4

\* A step of Grading keeps its invariant, and adds at most one verdict to the topic.
LEMMA GradingStep ==
    ASSUME GradingInv, GradingNext
    PROVE  /\ GradingInv' /\ env' = env
           /\ verdicts' = verdicts \/ \E x \in Verdicts : verdicts' = Append(verdicts, x)
<1>1. PICK v \in env.validators : Validate(v) \/ LearnBand(v) \/ Rebalance(v) \/ ValidatorCrash(v)
  BY Zenon DEF GradingNext
<1>2. v \in Validators
  BY Zenon, StreamFacts DEF GradingInv, GradingTypeOK
<1>3. Moves(v) /\ AtWork(v)'
  BY Zenon, <1>1, FetchMoves, SettleMoves, DrainMoves, SaveMoves, PublishMoves, TimedOutMoves,
     RepublishMoves, CommitStatusMoves, BesidesMoves DEF Validate
<1>4. GradingInv'
  BY Zenon, <1>2, <1>3, MovesKeeps
<1> QED
  BY Zenon, <1>3, <1>4 DEF Moves, Announces

-----------------------------------------------------------------------------
(* Sequences as sets, and what the environment fixes *)

\* What a send on a channel, or a write to a topic, adds.
LEMMA AppendFacts ==
    ASSUME NEW S, NEW q \in Seq(S), NEW x \in S
    PROVE  /\ Append(q, x) \in Seq(S) /\ Len(Append(q, x)) = Len(q) + 1 /\ Len(q) \in Nat
           /\ \A i \in 1..Len(q) : Append(q, x)[i] = q[i]
           /\ Append(q, x)[Len(q) + 1] = x
           /\ Range(Append(q, x)) = Range(q) \cup {x}
<1>1. /\ Append(q, x) \in Seq(S) /\ Len(Append(q, x)) = Len(q) + 1 /\ Len(q) \in Nat
      /\ \A i \in 1..Len(q) : Append(q, x)[i] = q[i]
      /\ Append(q, x)[Len(q) + 1] = x
  BY SeqAppend, SeqLen
<1>2. DOMAIN q = 1..Len(q) /\ DOMAIN Append(q, x) = 1..(Len(q) + 1)
  BY Zenon, <1>1, SeqLen
<1>3. Range(Append(q, x)) \subseteq Range(q) \cup {x}
  BY <1>1, <1>2 DEF Range
<1>4. Range(q) \cup {x} \subseteq Range(Append(q, x))
  <2>1. Len(q) + 1 \in DOMAIN Append(q, x) /\ 1..Len(q) \subseteq DOMAIN Append(q, x)
    BY <1>1, <1>2
  <2> QED BY Zenon, <1>1, <1>2, <2>1 DEF Range
<1> QED
  BY Zenon, <1>1, <1>3, <1>4

\* What a receive takes.
LEMMA TailFacts ==
    ASSUME NEW S, NEW q \in Seq(S), q # <<>>
    PROVE  /\ Head(q) \in S /\ Tail(q) \in Seq(S) /\ Len(Tail(q)) = Len(q) - 1
           /\ Range(q) = {Head(q)} \cup Range(Tail(q)) /\ Len(q) \in Nat
<1>1. /\ Len(q) \in Nat \ {0} /\ Head(q) \in S /\ Tail(q) \in Seq(S) /\ Len(Tail(q)) = Len(q) - 1
      /\ \A i \in 1..Len(Tail(q)) : Tail(q)[i] = q[i + 1]
      /\ Head(q) = q[1]
  BY SeqHeadTail, SeqEmpty
<1>2. DOMAIN q = 1..Len(q) /\ DOMAIN Tail(q) = 1..(Len(q) - 1)
  BY Zenon, <1>1, SeqLen
<1>3. Range(q) \subseteq {Head(q)} \cup Range(Tail(q))
  <2> SUFFICES ASSUME NEW i \in DOMAIN q, i # 1
               PROVE  q[i] \in Range(Tail(q))
    BY Zenon, <1>1 DEF Range
  <2>1. i - 1 \in DOMAIN Tail(q) /\ Tail(q)[i - 1] = q[i - 1 + 1] /\ i - 1 + 1 = i
    BY <1>1, <1>2
  <2> QED BY Zenon, <2>1 DEF Range
<1>4. {Head(q)} \cup Range(Tail(q)) \subseteq Range(q)
  <2>1. \A i \in DOMAIN Tail(q) : i + 1 \in DOMAIN q /\ Tail(q)[i] = q[i + 1]
    BY <1>1, <1>2
  <2>2. 1 \in DOMAIN q
    BY <1>1, <1>2
  <2> QED BY <1>1, <2>1, <2>2 DEF Range
<1> QED
  BY Zenon, <1>1, <1>3, <1>4

\* What depends on the environment alone.
LEMMA EnvSame ==
    ASSUME env' = env
    PROVE  /\ Sessions' = Sessions /\ Groups' = Groups /\ Verdicts' = Verdicts
           /\ \A g : SessionsOf(g)' = SessionsOf(g)
  BY Zenon DEF Sessions, Groups, Verdicts, SessionsOf

\* A group has sessions.
LEMMA GroupFacts ==
    ASSUME NEW g \in Groups
    PROVE  SessionsOf(g) # {}
  BY Zenon DEF Groups, SessionsOf, Sessions, Range

-----------------------------------------------------------------------------
(* Scoring *)

\* The group of a worker at work.
LEMMA GroupAtFacts ==
    ASSUME OnlyComplete, NEW w \in Workers, wpc[w] # "idle"
    PROVE  GroupAt(w) \in Groups /\ job[w] = {GroupAt(w)} /\ Complete(GroupAt(w))
<1>1. PICK g \in Groups : job[w] = {g} /\ Complete(g)
  BY Zenon DEF OnlyComplete
<1>2. GroupAt(w) = g
  BY Zenon, <1>1 DEF GroupAt
<1> QED
  BY Zenon, <1>1, <1>2

\* The message a consumer works on.
LEMMA MsgFacts ==
    ASSUME GradingInv, ConsumerTypes, NEW c \in Consumers, pos[c] < Len(Topic(c))
    PROVE  /\ MsgSession(c) \in Sessions /\ env.groupOf[MsgSession(c)] \in Groups
           /\ c # "status" => Msg(c) \in Range(verdicts) /\ Msg(c).session = MsgSession(c)
<1>1. env \in Environments /\ verdicts \in Seq(Verdicts) /\ pos[c] \in Nat
  BY Zenon DEF GradingInv, GradingTypeOK, ConsumerTypes
<1>2. CASE c = "status"
  <2>1. Topic(c) = env.statuses /\ Len(env.statuses) \in Nat
    BY Zenon, <1>1, <1>2, StreamFacts DEF Topic
  <2>2. pos[c] + 1 \in 1..Len(env.statuses)
    BY <1>1, <2>1
  <2>3. MsgSession(c) \in Sessions
    BY Zenon, <1>1, <1>2, <2>1, <2>2, StreamFacts DEF MsgSession, Msg
  <2> QED BY Zenon, <1>2, <2>3 DEF Groups, Range, Sessions
<1>3. CASE c # "status"
  <2>1. Topic(c) = verdicts /\ Len(verdicts) \in Nat /\ DOMAIN verdicts = 1..Len(verdicts)
    BY Zenon, <1>1, <1>3, SeqLen DEF Topic
  <2>2. pos[c] + 1 \in DOMAIN verdicts
    BY <1>1, <2>1
  <2>3. Msg(c) = verdicts[pos[c] + 1] /\ Msg(c) \in Verdicts /\ MsgSession(c) = Msg(c).session
    BY Zenon, <1>1, <1>3, <2>1, <2>2, SeqElement DEF Msg, MsgSession
  <2>4. MsgSession(c) \in Sessions /\ Msg(c) \in Range(verdicts)
    BY Zenon, <2>2, <2>3 DEF Verdicts, Range
  <2> QED BY Zenon, <2>3, <2>4 DEF Groups, Range, Sessions
<1> QED
  BY Zenon, <1>2, <1>3

\* No verdict is taken back from score_progress.
StayGraded == \A s \in Sessions : graded[s] # {} => graded'[s] # {}

\* A complete group stays complete.
LEMMA StaysComplete ==
    ASSUME env' = env, StayGraded, NEW g, Complete(g)
    PROVE  Complete(g)'
  BY Zenon, EnvSame DEF StayGraded, Complete, SessionsOf

\* Steps that leave the workers alone.
LEMMA WorkersFrame ==
    ASSUME ScoringInv, env' = env, verdicts' = verdicts, UNCHANGED workerVars, StayGraded,
           ready' \in Seq(Groups), Len(ready') <= ReadyCap,
           scanned' \in BOOLEAN, pending' \subseteq Groups,
           \A g \in Range(ready') \cup pending' : Complete(g)'
    PROVE  WorkerTypes' /\ OnlyComplete' /\ Latched' /\ ScoredOnce'
<1>1. /\ UNCHANGED <<wpc, job, input, scores, marked, updates>>
      /\ Groups' = Groups /\ \A g : SessionsOf(g)' = SessionsOf(g)
  BY Zenon, EnvSame DEF workerVars
<1>2. Scored' = Scored /\ \A w \in Workers : GroupAt(w)' = GroupAt(w) /\ Announcing(w)' = Announcing(w)
  BY Zenon, <1>1 DEF Scored, GroupAt, Announcing
<1>3. WorkerTypes'
  BY Zenon, <1>1, <1>2 DEF ScoringInv, WorkerTypes
<1>4. OnlyComplete'
  <2>1. ASSUME NEW w \in Workers, wpc[w] # "idle"
        PROVE  \E g \in Groups : job[w] = {g} /\ Complete(g)'
    BY Zenon, <2>1, StaysComplete DEF ScoringInv, OnlyComplete
  <2> QED BY Zenon, <1>1, <1>2, <2>1 DEF ScoringInv, OnlyComplete
<1>5. Latched' /\ ScoredOnce'
  BY Zenon, <1>1, <1>2 DEF ScoringInv, Latched, ScoredOnce
<1> QED
  BY Zenon, <1>3, <1>4, <1>5

\* Steps that leave the consumers and score_progress alone.
LEMMA ConsumersFrame ==
    ASSUME ScoringInv, env' = env, verdicts' = verdicts, UNCHANGED progressVars
    PROVE  ConsumerTypes' /\ Triggers' /\ StayGraded /\ \A g : Complete(g) => Complete(g)'
<1>1. UNCHANGED <<pos, done, cpc, terminal, graded>> /\ Sessions' = Sessions
  BY Zenon, EnvSame DEF progressVars
<1>2. StayGraded /\ \A g : Complete(g) => Complete(g)'
  BY Zenon, <1>1, StaysComplete DEF StayGraded
<1>3. \A c \in Consumers : Topic(c)' = Topic(c) /\ MsgSession(c)' = MsgSession(c)
  BY Zenon, <1>1 DEF Topic, MsgSession, Msg
<1> QED
  BY Zenon, <1>1, <1>2, <1>3 DEF ScoringInv, ConsumerTypes, Triggers

\* A verdict that arrives changes nothing that was read before it.
LEMMA ScoringUndisturbed ==
    ASSUME GradingInv, ScoringInv, env' = env, UNCHANGED scoringVars,
           verdicts' = verdicts \/ \E x \in Verdicts : verdicts' = Append(verdicts, x)
    PROVE  ScoringInv'
<1>1. /\ UNCHANGED <<pos, done, cpc, terminal, graded, ready, scanned, pending, wpc, job, input,
                     scores, marked, updates>>
      /\ Groups' = Groups /\ Sessions' = Sessions /\ \A g : SessionsOf(g)' = SessionsOf(g)
  BY Zenon, EnvSame DEF scoringVars
<1>2. /\ Range(verdicts) \subseteq Range(verdicts')
      /\ Len(verdicts) \in Nat /\ Len(verdicts') \in Nat /\ Len(verdicts) <= Len(verdicts')
      /\ \A i \in 1..Len(verdicts) : verdicts'[i] = verdicts[i]
  <2>1. verdicts \in Seq(Verdicts) /\ Len(verdicts) \in Nat
    BY Zenon, SeqLen DEF GradingInv
  <2>2. CASE verdicts' = verdicts
    BY <2>1, <2>2
  <2>3. CASE \E x \in Verdicts : verdicts' = Append(verdicts, x)
    BY <2>1, <2>3, AppendFacts
  <2> QED BY Zenon, <2>2, <2>3
<1>3. /\ Scored' = Scored
      /\ \A w \in Workers : GroupAt(w)' = GroupAt(w) /\ Announcing(w)' = Announcing(w)
      /\ \A g : Complete(g)' = Complete(g)
  BY Zenon, <1>1 DEF Scored, GroupAt, Announcing, Complete
<1>4. \A c \in Consumers :
         /\ Len(Topic(c)) \in Nat /\ Len(Topic(c)) <= Len(Topic(c)')
         /\ pos[c] < Len(Topic(c)) => MsgSession(c)' = MsgSession(c) /\ pos[c] < Len(Topic(c)')
  <2> TAKE c \in Consumers
  <2>1. pos[c] \in Nat /\ Len(env.statuses) \in Nat
    BY Zenon, StreamFacts DEF ScoringInv, ConsumerTypes, GradingInv, GradingTypeOK
  <2>2. CASE c = "status"
    BY <1>1, <2>1, <2>2 DEF Topic, MsgSession, Msg
  <2>3. CASE c # "status"
    <3>1. Topic(c) = verdicts /\ Topic(c)' = verdicts'
      BY Zenon, <2>3 DEF Topic
    <3>2. ASSUME pos[c] < Len(verdicts)
          PROVE  verdicts'[pos[c] + 1] = verdicts[pos[c] + 1] /\ pos[c] < Len(verdicts')
      BY <1>2, <2>1, <3>2
    <3> QED BY Zenon, <1>1, <1>2, <2>3, <3>1, <3>2 DEF MsgSession, Msg
  <2> QED BY Zenon, <2>2, <2>3
<1>5. ConsumerTypes'
  <2>1. \A c \in Consumers : done[c] <= pos[c] /\ pos[c] <= Len(Topic(c)')
    <3> TAKE c \in Consumers
    <3>1. /\ pos[c] \in Nat /\ pos[c] <= Len(Topic(c)) /\ done[c] <= pos[c]
          /\ Len(Topic(c)) \in Nat /\ Len(Topic(c)') \in Nat
      BY Zenon, <1>2, <1>4, StreamFacts
      DEF ScoringInv, ConsumerTypes, Topic, GradingInv, GradingTypeOK
    <3> QED BY <3>1, <1>4
  <2>2. graded \in [Sessions -> SUBSET Range(verdicts')]
    BY Zenon, <1>2 DEF ScoringInv, ConsumerTypes
  <2> QED BY Zenon, <1>1, <2>1, <2>2 DEF ScoringInv, ConsumerTypes
<1>6. WorkerTypes'
  <2>1. input \in [Workers -> SUBSET Range(verdicts')] /\ scores \in [Groups -> SUBSET Range(verdicts')]
    BY Zenon, <1>2 DEF ScoringInv, WorkerTypes
  <2> QED BY Zenon, <1>1, <1>3, <2>1 DEF ScoringInv, WorkerTypes
<1>7. Triggers'
  <2>1. ASSUME NEW c \in Consumers, cpc[c] # "fetch"
        PROVE  pos[c] < Len(Topic(c)') /\ MsgSession(c)' = MsgSession(c)
    BY Zenon, <1>4, <2>1 DEF ScoringInv, Triggers
  <2> QED BY Zenon, <1>1, <1>3, <2>1 DEF ScoringInv, Triggers
<1>8. OnlyComplete'
  BY Zenon, <1>1, <1>3 DEF ScoringInv, OnlyComplete
<1>9. Latched' /\ ScoredOnce'
  BY Zenon, <1>1, <1>3 DEF ScoringInv, Latched, ScoredOnce
<1> QED
  BY Zenon, <1>5, <1>6, <1>7, <1>8, <1>9 DEF ScoringInv

\* One consumer moves: the other one, and what it is about to enqueue, stay.
LEMMA OtherConsumer ==
    ASSUME ScoringInv, env' = env, verdicts' = verdicts, StayGraded,
           NEW d \in Consumers, pos'[d] = pos[d], cpc'[d] = cpc[d]
    PROVE  /\ (cpc[d] # "fetch" => pos[d] < Len(Topic(d)))'
           /\ (cpc[d] = "enqueue" => Complete(env.groupOf[MsgSession(d)]))'
<1>1. Topic(d)' = Topic(d) /\ MsgSession(d)' = MsgSession(d)
  BY Zenon DEF Topic, MsgSession, Msg
<1>2. Complete(env.groupOf[MsgSession(d)]) => Complete(env.groupOf[MsgSession(d)])'
  <2> DEFINE g == env.groupOf[MsgSession(d)]
  <2>1. g' = g
    BY Zenon, <1>1
  <2> HIDE DEF g
  <2>2. Complete(g) => \A s \in SessionsOf(g) : graded'[s] # {}
    BY Zenon DEF Complete, StayGraded, SessionsOf
  <2>3. SessionsOf(g)' = {s \in Sessions : env.groupOf[s] = g}
    BY Zenon, <2>1, EnvSame DEF SessionsOf
  <2>4. Complete(g) => Complete(g)'
    BY Zenon, <2>2, <2>3 DEF Complete, SessionsOf
  <2> QED BY Zenon, <2>4 DEF g
<1> QED
  BY Zenon, <1>1, <1>2 DEF ScoringInv, Triggers

\* RecordStatus and RecordCorrectness; a message that is skipped or done with.
LEMMA TriggerStep ==
    ASSUME GradingInv, ScoringInv, NEW c \in env.consumers, Trigger(c), verdicts' = verdicts
    PROVE  ScoringInv' /\ env' = env /\ faults' \in 0..env.maxFaults
<1>1. c \in Consumers /\ GradingTypeOK
  BY Zenon, ScorerKnown DEF GradingInv, GradingTypeOK
<1>2. env' = env /\ UNCHANGED workerVars /\ UNCHANGED <<scanned, pending>>
  BY Zenon DEF Trigger, Record, ReadyRunGroups, Enqueue, Commit
<1>3. faults' \in 0..env.maxFaults
  <2>1. NoFault \/ \E kind \in AllFaults : Fault(kind)
    BY Zenon DEF Trigger, Record, ReadyRunGroups, Enqueue, Commit, Skip, AllFaults, NoFault
  <2> QED BY Zenon, <1>1, <1>2, <2>1, FaultCount
<1>4. /\ Topic(c)' = Topic(c) /\ pos[c] \in Nat /\ pos[c] <= Len(Topic(c)) /\ Len(Topic(c)) \in Nat
      /\ Sessions' = Sessions /\ \A d \in Consumers : Topic(d)' = Topic(d)
  <2>1. Len(Topic(c)) \in Nat
    BY Zenon, StreamFacts, SeqLen DEF Topic, GradingInv, GradingTypeOK
  <2> QED BY Zenon, <1>1, <1>2, <2>1, EnvSame DEF ScoringInv, ConsumerTypes, Topic
<1>5. pos[c] < Len(Topic(c))
  BY Zenon, <1>1 DEF Trigger, Record, ReadyRunGroups, Enqueue, Commit, ScoringInv, Triggers
<1>6. /\ MsgSession(c) \in Sessions /\ env.groupOf[MsgSession(c)] \in Groups
      /\ c # "status" => Msg(c) \in Range(verdicts) /\ Msg(c).session = MsgSession(c)
  BY Zenon, <1>1, <1>5, MsgFacts DEF ScoringInv
<1> DEFINE Progress ==
      /\ terminal' \subseteq Sessions /\ StayGraded
      /\ graded' \in [Sessions -> SUBSET Range(verdicts)]
      /\ \A s \in Sessions : (\A u, v \in graded'[s] : u = v) /\ \A v \in graded'[s] : v.session = s
<1>7. Progress
  <2>1. CASE UNCHANGED <<terminal, graded>>
    BY Zenon, <2>1 DEF ScoringInv, ConsumerTypes, StayGraded
  <2>2. CASE /\ terminal' = IF c = "status" THEN terminal \cup {MsgSession(c)} ELSE terminal
             /\ graded' = IF c = "status" THEN graded
                          ELSE [graded EXCEPT ![MsgSession(c)] = {Msg(c)}]
    <3>2. CASE c = "status"
      BY Zenon, <1>6, <2>2, <3>2 DEF ScoringInv, ConsumerTypes, StayGraded
    <3>3. CASE c # "status"
      <4> DEFINE M == {Msg(c)}
      <4>1. /\ (\A u, v \in M : u = v) /\ M # {} /\ M \subseteq Range(verdicts)
            /\ \A v \in M : v.session = MsgSession(c)
        BY Zenon, <1>6, <3>3
      <4>2. terminal' = terminal /\ graded' = [graded EXCEPT ![MsgSession(c)] = M]
        BY Zenon, <2>2, <3>3
      <4> HIDE DEF M
      <4>3. \A s \in Sessions : graded'[s] = IF s = MsgSession(c) THEN M ELSE graded[s]
        BY Zenon, <1>6, <4>2 DEF ScoringInv, ConsumerTypes
      <4>4. graded' \in [Sessions -> SUBSET Range(verdicts)]
        BY Zenon, <1>6, <4>1, <4>2 DEF ScoringInv, ConsumerTypes
      <4> QED BY Zenon, <4>1, <4>2, <4>3, <4>4 DEF ScoringInv, ConsumerTypes, StayGraded
    <3> QED BY Zenon, <3>2, <3>3
  <2> QED BY Zenon, <2>1, <2>2 DEF Trigger, Record, ReadyRunGroups, Enqueue, Commit, Skip
<1>8. \/ /\ \E p \in {"fetch", "check", "commit"} : cpc' = [cpc EXCEPT ![c] = p]
         /\ UNCHANGED ready
         /\ cpc'[c] # "fetch" => UNCHANGED pos
         /\ UNCHANGED pos \/ pos' = [pos EXCEPT ![c] = @ + 1]
         /\ UNCHANGED done \/ (pos' = [pos EXCEPT ![c] = @ + 1] /\ done' = [done EXCEPT ![c] = pos[c] + 1])
      \/ /\ cpc' = [cpc EXCEPT ![c] = "enqueue"] /\ UNCHANGED <<pos, done, ready>>
         /\ IsReady(env.groupOf[MsgSession(c)]) /\ UNCHANGED graded
      \/ Enqueue(c)
  <2>1. CASE Record(c)
    BY Zenon, <1>1, <2>1 DEF Record, Skip, CGoto, ScoringInv, ConsumerTypes
  <2>2. CASE ReadyRunGroups(c)
    BY Zenon, <1>1, <2>2 DEF ReadyRunGroups, Skip, CGoto, ScoringInv, ConsumerTypes
  <2>3. CASE Commit(c)
    BY Zenon, <1>1, <2>3 DEF Commit, CGoto, ScoringInv, ConsumerTypes
  <2> QED BY Zenon, <2>1, <2>2, <2>3 DEF Trigger
<1> HIDE DEF Progress
<1>9. CASE /\ \E p \in {"fetch", "check", "commit"} : cpc' = [cpc EXCEPT ![c] = p]
           /\ UNCHANGED ready
           /\ cpc'[c] # "fetch" => UNCHANGED pos
           /\ UNCHANGED pos \/ pos' = [pos EXCEPT ![c] = @ + 1]
           /\ UNCHANGED done \/ (pos' = [pos EXCEPT ![c] = @ + 1] /\ done' = [done EXCEPT ![c] = pos[c] + 1])
  <2>1. ConsumerTypes'
    <3>1. /\ pos' \in [Consumers -> Nat] /\ done' \in [Consumers -> Nat]
          /\ cpc' \in [Consumers -> {"fetch", "check", "enqueue", "commit"}]
      <4>1. pos[c] + 1 \in Nat
        BY <1>4
      <4>2. pos' \in [Consumers -> Nat]
        BY <1>9, <4>1 DEF ScoringInv, ConsumerTypes
      <4>3. done' \in [Consumers -> Nat]
        BY <1>9, <4>1 DEF ScoringInv, ConsumerTypes
      <4>4. cpc' \in [Consumers -> {"fetch", "check", "enqueue", "commit"}]
        BY Zenon, <1>9 DEF ScoringInv, ConsumerTypes
      <4> QED BY Zenon, <4>2, <4>3, <4>4
    <3>2. \A d \in Consumers : d # c => pos'[d] = pos[d] /\ done'[d] = done[d]
      BY <1>9 DEF ScoringInv, ConsumerTypes
    <3>3. done'[c] <= pos'[c] /\ pos'[c] <= Len(Topic(c))
      BY <1>1, <1>4, <1>5, <1>9 DEF ScoringInv, ConsumerTypes
    <3>4. \A d \in Consumers : done'[d] <= pos'[d] /\ pos'[d] <= Len(Topic(d)')
      BY Zenon, <1>4, <3>2, <3>3 DEF ScoringInv, ConsumerTypes
    <3> QED BY Zenon, <1>4, <1>7, <3>1, <3>4 DEF ConsumerTypes, Progress
  <2>2. Triggers'
    <3>1. \A d \in Consumers : d # c => pos'[d] = pos[d] /\ cpc'[d] = cpc[d]
      BY <1>9 DEF ScoringInv, ConsumerTypes
    <3>2. cpc'[c] # "enqueue" /\ (cpc'[c] # "fetch" => pos'[c] < Len(Topic(c)'))
      BY Zenon, <1>1, <1>4, <1>5, <1>9 DEF ScoringInv, ConsumerTypes
    <3> QED BY Zenon, <1>2, <1>7, <3>1, <3>2, OtherConsumer DEF Triggers, Progress
  <2>3. WorkerTypes' /\ OnlyComplete' /\ Latched' /\ ScoredOnce'
    <3>1. \A g \in Range(ready') \cup pending' : Complete(g)'
      BY Zenon, <1>2, <1>7, <1>9, StaysComplete DEF ScoringInv, OnlyComplete, Progress
    <3> QED BY Zenon, <1>2, <1>7, <1>9, <3>1, WorkersFrame DEF ScoringInv, WorkerTypes, Progress
  <2> QED BY Zenon, <1>2, <1>3, <2>1, <2>2, <2>3 DEF ScoringInv
<1>10. CASE /\ cpc' = [cpc EXCEPT ![c] = "enqueue"] /\ UNCHANGED <<pos, done, ready>>
            /\ IsReady(env.groupOf[MsgSession(c)]) /\ UNCHANGED graded
  <2>1. ConsumerTypes'
    BY Zenon, <1>1, <1>4, <1>5, <1>7, <1>10 DEF ScoringInv, ConsumerTypes, Progress
  <2>2. Triggers'
    <3>1. \A d \in Consumers : d # c => pos'[d] = pos[d] /\ cpc'[d] = cpc[d]
      BY Zenon, <1>10 DEF ScoringInv, ConsumerTypes
    <3>2. pos'[c] < Len(Topic(c)') /\ MsgSession(c)' = MsgSession(c)
      BY Zenon, <1>2, <1>4, <1>5, <1>10 DEF MsgSession, Msg, Topic
    <3>3. Complete(env.groupOf[MsgSession(c)])'
      BY Zenon, <1>2, <1>10, <3>2, EnvSame DEF IsReady, Rows, Complete, SessionsOf
    <3> QED BY Zenon, <1>2, <1>7, <3>1, <3>2, <3>3, OtherConsumer DEF Triggers, Progress
  <2>3. WorkerTypes' /\ OnlyComplete' /\ Latched' /\ ScoredOnce'
    <3>1. \A g \in Range(ready') \cup pending' : Complete(g)'
      BY Zenon, <1>2, <1>7, <1>10, StaysComplete DEF ScoringInv, OnlyComplete, Progress
    <3> QED BY Zenon, <1>2, <1>7, <1>10, <3>1, WorkersFrame DEF ScoringInv, WorkerTypes, Progress
  <2> QED BY Zenon, <1>2, <1>3, <2>1, <2>2, <2>3 DEF ScoringInv
<1>11. CASE Enqueue(c)
  <2> DEFINE g == env.groupOf[MsgSession(c)]
  <2>1. /\ cpc[c] = "enqueue" /\ cpc' = [cpc EXCEPT ![c] = "commit"] /\ UNCHANGED <<pos, done>>
        /\ Len(ready) < ReadyCap /\ ready' = Append(ready, g)
    BY Zenon, <1>11 DEF Enqueue, CGoto
  <2>2. Complete(g)
    BY Zenon, <1>1, <2>1 DEF ScoringInv, Triggers
  <2>3. g \in Groups /\ ready \in Seq(Groups)
    BY Zenon, <1>6 DEF ScoringInv, WorkerTypes
  <2> HIDE DEF g
  <2>4. ConsumerTypes'
    BY Zenon, <1>1, <1>4, <1>5, <1>7, <2>1 DEF ScoringInv, ConsumerTypes, Progress
  <2>5. Triggers'
    <3>1. \A d \in Consumers : d # c => pos'[d] = pos[d] /\ cpc'[d] = cpc[d]
      BY Zenon, <2>1 DEF ScoringInv, ConsumerTypes
    <3>2. cpc'[c] = "commit" /\ pos'[c] < Len(Topic(c)')
      BY <1>1, <1>4, <1>5, <2>1 DEF ScoringInv, ConsumerTypes
    <3> QED BY Zenon, <1>2, <1>7, <3>1, <3>2, OtherConsumer DEF Triggers, Progress
  <2>6. /\ ready' \in Seq(Groups) /\ Len(ready') <= ReadyCap
        /\ Range(ready') = Range(ready) \cup {g}
    BY <2>1, <2>3, AppendFacts, ScorerKnown
  <2>7. \A h \in Range(ready') \cup pending' : Complete(h)'
    BY <1>2, <1>7, <2>2, <2>6, StaysComplete DEF ScoringInv, OnlyComplete, Progress
  <2>8. WorkerTypes' /\ OnlyComplete' /\ Latched' /\ ScoredOnce'
    BY Zenon, <1>2, <1>7, <2>6, <2>7, WorkersFrame DEF ScoringInv, WorkerTypes, Progress
  <2> QED BY Zenon, <1>2, <1>3, <2>4, <2>5, <2>8 DEF ScoringInv
<1> QED
  BY Zenon, <1>8, <1>9, <1>10, <1>11

\* The start-up scan.
LEMMA ScanStep ==
    ASSUME GradingInv, ScoringInv, PendingRunGroups \/ EnqueuePending, verdicts' = verdicts
    PROVE  ScoringInv' /\ env' = env /\ faults' \in 0..env.maxFaults
<1>1. env' = env /\ UNCHANGED workerVars /\ UNCHANGED progressVars /\ GradingTypeOK
  BY Zenon DEF PendingRunGroups, EnqueuePending, GradingInv
<1>2. faults' \in 0..env.maxFaults
  <2>1. NoFault \/ \E kind \in AllFaults : Fault(kind)
    BY Zenon DEF PendingRunGroups, EnqueuePending, AllFaults, NoFault
  <2> QED BY Zenon, <1>1, <2>1, FaultCount
<1>3. ConsumerTypes' /\ Triggers' /\ StayGraded /\ \A g : Complete(g) => Complete(g)'
  BY Zenon, <1>1, ConsumersFrame
<1>4. /\ ready' \in Seq(Groups) /\ Len(ready') <= ReadyCap
      /\ scanned' \in BOOLEAN /\ pending' \subseteq Groups
      /\ \A g \in Range(ready') \cup pending' : Complete(g)
  <2>1. CASE PendingRunGroups
    <3>1. ready' = ready /\ scanned' = TRUE
      BY Zenon, <2>1 DEF PendingRunGroups
    <3>2. pending' \subseteq Groups /\ \A g \in pending' : Complete(g)
      BY Zenon, <2>1 DEF PendingRunGroups, IsReady, Rows, Complete
    <3> QED BY Zenon, <3>1, <3>2 DEF ScoringInv, WorkerTypes, OnlyComplete
  <2>2. CASE EnqueuePending
    <3>1. PICK g \in pending : ready' = Append(ready, g) /\ pending' = pending \ {g}
      BY Zenon, <2>2 DEF EnqueuePending
    <3>2. Len(ready) < ReadyCap /\ scanned' = scanned /\ g \in Groups /\ ready \in Seq(Groups)
      BY Zenon, <2>2 DEF EnqueuePending, ScoringInv, WorkerTypes
    <3>3. /\ ready' \in Seq(Groups) /\ Len(ready') <= ReadyCap
          /\ Range(ready') = Range(ready) \cup {g}
      BY <3>1, <3>2, AppendFacts, ScorerKnown
    <3> QED BY Zenon, <3>1, <3>2, <3>3 DEF ScoringInv, WorkerTypes, OnlyComplete
  <2> QED BY Zenon, <2>1, <2>2
<1>5. WorkerTypes' /\ OnlyComplete' /\ Latched' /\ ScoredOnce'
  BY Zenon, <1>1, <1>3, <1>4, WorkersFrame
<1> QED
  BY Zenon, <1>1, <1>2, <1>3, <1>5 DEF ScoringInv

\* What a step of one worker does to the workers and the ready channel.
WMoves(w) ==
    /\ env' = env /\ faults' \in 0..env.maxFaults
    /\ UNCHANGED progressVars /\ UNCHANGED <<scanned, pending>>
    /\ ready' \in Seq(Groups) /\ Len(ready') <= ReadyCap /\ Range(ready') \subseteq Range(ready)
    /\ wpc' \in [Workers -> {"idle", "load", "save", "mark", "publish"}]
    /\ job' \in [Workers -> SUBSET Groups] /\ input' \in [Workers -> SUBSET Range(verdicts)]
    /\ \A x \in Workers \ {w} : wpc'[x] = wpc[x] /\ job'[x] = job[x] /\ input'[x] = input[x]
    /\ wpc'[w] # "idle" => \E g \in Groups : job'[w] = {g} /\ Complete(g)
    /\ wpc'[w] = "save" => {v.session : v \in input'[w]} = SessionsOf(GroupAt(w)')

\* A move of a worker keeps the invariant.
LEMMA WMovesKeeps ==
    ASSUME ScoringInv, NEW w \in Workers, verdicts' = verdicts, WMoves(w),
           scores' \in [Groups -> SUBSET Range(verdicts)], marked' \subseteq Scored',
           updates' \in Seq(Groups), Latched', ScoredOnce'
    PROVE  ScoringInv'
<1>1. ConsumerTypes' /\ Triggers' /\ \A g : Complete(g) => Complete(g)'
  BY Zenon, ConsumersFrame DEF WMoves
<1>2. Groups' = Groups /\ \A g : SessionsOf(g)' = SessionsOf(g)
  BY Zenon, EnvSame DEF WMoves
<1>3. WorkerTypes'
  BY Zenon, <1>2 DEF WMoves, ScoringInv, WorkerTypes
<1>4. OnlyComplete'
  <2>1. \A g \in Range(ready') \cup pending' : Complete(g)'
    BY Zenon, <1>1 DEF WMoves, ScoringInv, OnlyComplete
  <2>2. ASSUME NEW x \in Workers, wpc'[x] # "idle"
        PROVE  \E g \in Groups' : job'[x] = {g} /\ Complete(g)'
    BY Zenon, <1>1, <1>2, <2>2 DEF WMoves, ScoringInv, OnlyComplete
  <2>3. ASSUME NEW x \in Workers, wpc'[x] = "save"
        PROVE  {v.session : v \in input'[x]} = SessionsOf(GroupAt(x))'
    <3>1. CASE x = w
      BY Zenon, <1>2, <2>3, <3>1 DEF WMoves, SessionsOf
    <3>2. CASE x # w
      <4>1. GroupAt(x)' = GroupAt(x) /\ input'[x] = input[x] /\ wpc[x] = "save"
        BY Zenon, <2>3, <3>2 DEF WMoves, GroupAt
      <4>2. {v.session : v \in input[x]} = SessionsOf(GroupAt(x))
        BY Zenon, <4>1 DEF ScoringInv, OnlyComplete
      <4>3. SessionsOf(GroupAt(x))' = SessionsOf(GroupAt(x))
        BY Zenon, <4>1 DEF WMoves, SessionsOf, Sessions
      <4> QED BY Zenon, <4>1, <4>2, <4>3
    <3> QED BY Zenon, <3>1, <3>2
  <2> QED BY Zenon, <2>1, <2>2, <2>3 DEF OnlyComplete
<1> QED
  BY Zenon, <1>1, <1>3, <1>4 DEF ScoringInv

\* A worker that does not begin to announce takes no group's announcement.
LEMMA LatchKept ==
    ASSUME ScoringInv, NEW w \in Workers, WMoves(w), UNCHANGED <<scores, updates>>,
           Announcing(w)' => Announcing(w) /\ job'[w] = job[w]
    PROVE  Latched' /\ ScoredOnce' /\ Scored' = Scored
<1>1. Groups' = Groups /\ \A g : SessionsOf(g)' = SessionsOf(g)
  BY Zenon, EnvSame DEF WMoves
<1>2. Scored' = Scored
  BY Zenon, <1>1 DEF Scored
<1>3. \A x \in Workers : Announcing(x)' => Announcing(x) /\ GroupAt(x)' = GroupAt(x)
  BY Zenon DEF WMoves, Announcing, GroupAt
<1> QED
  BY Zenon, <1>1, <1>2, <1>3 DEF ScoringInv, Latched, ScoredOnce

\* A worker that gives up its group.
LEMMA DropsMoves ==
    ASSUME GradingInv, ScoringInv, NEW w \in Workers, Drops(w), env' = env,
           NoFault \/ \E kind \in AllFaults : Fault(kind),
           UNCHANGED progressVars, UNCHANGED <<ready, scanned, pending>>
    PROVE  WMoves(w) /\ ~Announcing(w)'
<1>1. faults' \in 0..env.maxFaults
  BY Zenon, FaultCount DEF GradingInv
<1>2. /\ wpc' = [wpc EXCEPT ![w] = "idle"] /\ job' = [job EXCEPT ![w] = {}]
      /\ input' = [input EXCEPT ![w] = {}]
  BY Zenon DEF Drops, WGoto
<1>3. /\ wpc' \in [Workers -> {"idle", "load", "save", "mark", "publish"}] /\ wpc'[w] = "idle"
      /\ job' \in [Workers -> SUBSET Groups] /\ input' \in [Workers -> SUBSET Range(verdicts)]
      /\ \A x \in Workers \ {w} : wpc'[x] = wpc[x] /\ job'[x] = job[x] /\ input'[x] = input[x]
  BY Zenon, <1>2 DEF ScoringInv, WorkerTypes
<1> QED
  BY Zenon, <1>1, <1>3 DEF WMoves, ScoringInv, WorkerTypes, Announcing

\* A worker that goes on with its group.
LEMMA KeepsMoves ==
    ASSUME GradingInv, ScoringInv, NEW w \in Workers, wpc[w] # "idle", env' = env, NoFault,
           NEW p \in {"mark", "publish"}, WGoto(w, p), Keeps,
           UNCHANGED progressVars, UNCHANGED <<ready, scanned, pending>>
    PROVE  WMoves(w)
<1>1. faults' \in 0..env.maxFaults
  BY Zenon, FaultCount DEF GradingInv
<1>2. /\ wpc' \in [Workers -> {"idle", "load", "save", "mark", "publish"}] /\ wpc'[w] = p
      /\ \A x \in Workers \ {w} : wpc'[x] = wpc[x]
  BY Zenon DEF ScoringInv, WorkerTypes, WGoto
<1>3. \E g \in Groups : job[w] = {g} /\ Complete(g)
  BY Zenon DEF ScoringInv, OnlyComplete
<1> QED
  BY Zenon, <1>1, <1>2, <1>3 DEF WMoves, ScoringInv, WorkerTypes, Keeps

\* Taking a group from the queue is such a move ...
LEMMA TakeReadyStep ==
    ASSUME GradingInv, ScoringInv, NEW w \in Workers, TakeReady(w), verdicts' = verdicts
    PROVE  ScoringInv' /\ env' = env /\ faults' \in 0..env.maxFaults
<1>1. /\ ready # <<>> /\ ready' = Tail(ready) /\ job' = [job EXCEPT ![w] = {Head(ready)}]
      /\ wpc' = [wpc EXCEPT ![w] = "load"]
      /\ UNCHANGED <<env, faults, scanned, pending, input, scores, marked, updates>>
      /\ UNCHANGED progressVars
  BY Zenon DEF TakeReady, WGoto
<1>2. ready \in Seq(Groups) /\ Len(ready) <= ReadyCap /\ ReadyCap \in Nat
  BY Zenon, ScorerKnown DEF ScoringInv, WorkerTypes
<1>3. /\ Head(ready) \in Groups /\ ready' \in Seq(Groups) /\ Len(ready') <= ReadyCap
      /\ Range(ready') \subseteq Range(ready) /\ Head(ready) \in Range(ready)
  BY <1>1, <1>2, TailFacts
<1>4. Complete(Head(ready))
  BY Zenon, <1>3 DEF ScoringInv, OnlyComplete
<1>5. /\ wpc' \in [Workers -> {"idle", "load", "save", "mark", "publish"}] /\ wpc'[w] = "load"
      /\ job' \in [Workers -> SUBSET Groups] /\ job'[w] = {Head(ready)}
      /\ \A x \in Workers \ {w} : wpc'[x] = wpc[x] /\ job'[x] = job[x]
  BY Zenon, <1>1, <1>3 DEF ScoringInv, WorkerTypes
<1>6. WMoves(w)
  BY Zenon, <1>1, <1>3, <1>4, <1>5 DEF WMoves, ScoringInv, WorkerTypes, GradingInv, GradingTypeOK
<1>7. Latched' /\ ScoredOnce' /\ Scored' = Scored
  BY Zenon, <1>1, <1>5, <1>6, LatchKept DEF Announcing
<1>8. ScoringInv'
  BY Zenon, <1>1, <1>6, <1>7, WMovesKeeps DEF ScoringInv, WorkerTypes
<1> QED
  BY Zenon, <1>6, <1>8 DEF WMoves

\* ... so is loading its rows ...
LEMMA LoadInputStep ==
    ASSUME GradingInv, ScoringInv, NEW w \in Workers, LoadInput(w), verdicts' = verdicts
    PROVE  ScoringInv' /\ env' = env /\ faults' \in 0..env.maxFaults
<1>1. /\ wpc[w] = "load" /\ UNCHANGED progressVars
      /\ UNCHANGED <<env, ready, scanned, pending, scores, marked, updates>>
  BY Zenon DEF LoadInput
<1>2. WMoves(w) /\ ~Announcing(w)'
  <2>1. CASE Fault("db") /\ Drops(w)
    BY Zenon, <1>1, <2>1, DropsMoves DEF AllFaults
  <2> DEFINE g == GroupAt(w)
             all == UNION {graded[s] : s \in SessionsOf(g)}
  <2>2. CASE /\ NoFault /\ WGoto(w, "save") /\ UNCHANGED job
             /\ input' = [input EXCEPT ![w] = all]
    <3>1. g \in Groups /\ job[w] = {g} /\ Complete(g)
      BY Zenon, <1>1, GroupAtFacts DEF ScoringInv
    <3>2. all \subseteq Range(verdicts) /\ {v.session : v \in all} = SessionsOf(g)
      BY <3>1 DEF ScoringInv, ConsumerTypes, Complete, SessionsOf
    <3> HIDE DEF all
    <3>3. /\ wpc' \in [Workers -> {"idle", "load", "save", "mark", "publish"}] /\ wpc'[w] = "save"
          /\ input' \in [Workers -> SUBSET Range(verdicts)] /\ input'[w] = all
          /\ \A x \in Workers \ {w} : wpc'[x] = wpc[x] /\ input'[x] = input[x]
      BY Zenon, <2>2, <3>2 DEF ScoringInv, WorkerTypes, WGoto
    <3>4. GroupAt(w)' = g /\ faults' \in 0..env.maxFaults
      BY Zenon, <1>1, <2>2, FaultCount DEF GroupAt, GradingInv
    <3> HIDE DEF g
    <3> QED
      BY Zenon, <1>1, <2>2, <3>1, <3>2, <3>3, <3>4 DEF WMoves, ScoringInv, WorkerTypes, Announcing
  <2> QED BY Zenon, <2>1, <2>2 DEF LoadInput
<1>3. Latched' /\ ScoredOnce' /\ Scored' = Scored
  BY Zenon, <1>1, <1>2, LatchKept
<1>4. ScoringInv'
  BY Zenon, <1>1, <1>2, <1>3, WMovesKeeps DEF ScoringInv, WorkerTypes
<1> QED
  BY Zenon, <1>2, <1>4 DEF WMoves

\* The latch: of the workers that save a group's score, the one whose INSERT made the row
\* goes on to announce it.
LEMMA SaveScoreStep ==
    ASSUME GradingInv, ScoringInv, NEW w \in Workers, SaveScore(w), verdicts' = verdicts
    PROVE  ScoringInv' /\ env' = env /\ faults' \in 0..env.maxFaults
<1> DEFINE g == GroupAt(w)
           saved == [scores EXCEPT ![g] = IF @ = {} THEN input[w] ELSE @]
<1>1. /\ wpc[w] = "save" /\ UNCHANGED progressVars
      /\ UNCHANGED <<env, ready, scanned, pending, marked, updates>>
      /\ scores' \in {scores, saved}
  BY Zenon DEF SaveScore
<1>2. /\ g \in Groups /\ input[w] \subseteq Range(verdicts) /\ input[w] # {}
      /\ {v.session : v \in input[w]} = SessionsOf(g)
  <2>1. g \in Groups /\ {v.session : v \in input[w]} = SessionsOf(g)
    BY Zenon, <1>1, GroupAtFacts DEF ScoringInv, OnlyComplete
  <2>2. SessionsOf(g) # {} /\ input[w] \subseteq Range(verdicts)
    BY Zenon, <2>1, GroupFacts DEF ScoringInv, WorkerTypes
  <2> QED BY Zenon, <2>1, <2>2
<1>3. Groups' = Groups /\ \A h : SessionsOf(h)' = SessionsOf(h)
  BY Zenon, <1>1, EnvSame
<1>4. /\ scores' \in [Groups -> SUBSET Range(verdicts)]
      /\ Scored \subseteq Scored' /\ (scores' = saved => g \in Scored')
      /\ \A h \in Scored : scores'[h] = scores[h]
      /\ \A h \in Scored' \ Scored : h = g /\ scores'[h] = input[w]
  BY Zenon, <1>1, <1>2, <1>3 DEF ScoringInv, WorkerTypes, Scored
<1>5. ScoredOnce'
  BY Zenon, <1>1, <1>2, <1>3, <1>4 DEF ScoringInv, ScoredOnce
<1>6. marked' \subseteq Scored'
  BY Zenon, <1>1, <1>4 DEF ScoringInv, WorkerTypes
<1>7. CASE Drops(w) /\ (NoFault \/ Fault("db"))
  <2>1. WMoves(w) /\ ~Announcing(w)'
    BY Zenon, <1>1, <1>7, DropsMoves DEF AllFaults
  <2>2. \A x \in Workers : Announcing(x)' => Announcing(x) /\ GroupAt(x)' = GroupAt(x)
    BY Zenon, <2>1 DEF WMoves, Announcing, GroupAt
  <2>3. Latched'
    BY Zenon, <1>1, <1>4, <2>2 DEF ScoringInv, Latched
  <2> QED
    BY Zenon, <1>1, <1>4, <1>5, <1>6, <2>1, <2>3, WMovesKeeps DEF ScoringInv, WorkerTypes, WMoves
<1>8. CASE g \notin Scored /\ NoFault /\ scores' = saved /\ WGoto(w, "mark") /\ Keeps
  <2>1. WMoves(w)
    BY Zenon, <1>1, <1>8, KeepsMoves
  <2>2. /\ \A x \in Workers : GroupAt(x)' = GroupAt(x)
        /\ \A x \in Workers : Announcing(x)' => Announcing(x) \/ x = w
    BY Zenon, <1>8, <2>1 DEF WMoves, Announcing, GroupAt, Keeps
  <2>3. \A x \in Workers : Announcing(x) => GroupAt(x) # g
    BY Zenon, <1>8 DEF ScoringInv, Latched
  <2>4. g \notin Range(updates)
    BY Zenon, <1>8 DEF ScoringInv, Latched
  <2> HIDE DEF g, saved
  <2>5. GroupAt(w) = g
    BY Zenon DEF g
  <2>6. Latched'
    BY <1>1, <1>4, <1>8, <2>2, <2>3, <2>4, <2>5 DEF ScoringInv, Latched
  <2> QED
    BY Zenon, <1>1, <1>4, <1>5, <1>6, <2>1, <2>6, WMovesKeeps DEF ScoringInv, WorkerTypes, WMoves
<1> QED
  BY Zenon, <1>7, <1>8 DEF SaveScore

\* ... marking its score published ...
LEMMA MarkPublishedStep ==
    ASSUME GradingInv, ScoringInv, NEW w \in Workers, MarkPublished(w), verdicts' = verdicts
    PROVE  ScoringInv' /\ env' = env /\ faults' \in 0..env.maxFaults
<1>1. /\ wpc[w] = "mark" /\ UNCHANGED progressVars
      /\ UNCHANGED <<env, ready, scanned, pending, scores, updates>>
      /\ marked' \in {marked, marked \cup job[w]}
  BY Zenon DEF MarkPublished
<1>2. job[w] \subseteq Scored
  <2>1. job[w] = {GroupAt(w)} /\ GroupAt(w) \in Scored
    BY Zenon, <1>1, GroupAtFacts DEF ScoringInv, Latched, Announcing
  <2> QED BY Zenon, <2>1
<1>3. WMoves(w) /\ (Announcing(w)' => Announcing(w) /\ job'[w] = job[w])
  <2>1. CASE Fault("db") /\ Drops(w)
    BY Zenon, <1>1, <2>1, DropsMoves DEF AllFaults
  <2>2. CASE NoFault /\ WGoto(w, "publish") /\ Keeps
    BY Zenon, <1>1, <2>2, KeepsMoves DEF Keeps, Announcing
  <2> QED BY Zenon, <2>1, <2>2 DEF MarkPublished
<1>4. Latched' /\ ScoredOnce' /\ Scored' = Scored
  BY Zenon, <1>1, <1>3, LatchKept
<1>5. marked' \subseteq Scored
  BY Zenon, <1>1, <1>2 DEF ScoringInv, WorkerTypes
<1>6. ScoringInv'
  BY Zenon, <1>1, <1>3, <1>4, <1>5, WMovesKeeps DEF ScoringInv, WorkerTypes
<1> QED
  BY Zenon, <1>3, <1>6 DEF WMoves

\* ... and publishing the update.
LEMMA PublishUpdateStep ==
    ASSUME GradingInv, ScoringInv, NEW w \in Workers, PublishUpdate(w), verdicts' = verdicts
    PROVE  ScoringInv' /\ env' = env /\ faults' \in 0..env.maxFaults
<1> DEFINE g == GroupAt(w)
<1>1. /\ wpc[w] = "publish" /\ UNCHANGED progressVars
      /\ UNCHANGED <<env, ready, scanned, pending, scores, marked>>
      /\ updates' \in {updates, Append(updates, g)}
  BY Zenon DEF PublishUpdate
<1>2. WMoves(w) /\ ~Announcing(w)'
  BY Zenon, <1>1, DropsMoves DEF PublishUpdate, AllFaults
<1>3. /\ g \in Groups /\ g \in Scored /\ g \notin Range(updates) /\ updates \in Seq(Groups)
      /\ \A x \in Workers \ {w} : Announcing(x) => GroupAt(x) # g
  BY Zenon, <1>1, GroupAtFacts DEF ScoringInv, Latched, Announcing, WorkerTypes
<1>4. \A x \in Workers : Announcing(x)' => x # w /\ Announcing(x) /\ GroupAt(x)' = GroupAt(x)
  BY Zenon, <1>2 DEF WMoves, Announcing, GroupAt
<1>5. Groups' = Groups /\ Scored' = Scored /\ \A h : SessionsOf(h)' = SessionsOf(h)
  BY Zenon, <1>1, EnvSame DEF Scored
<1> HIDE DEF g
<1>6. CASE updates' = updates
  <2>1. Latched' /\ ScoredOnce'
    BY Zenon, <1>1, <1>4, <1>5, <1>6 DEF ScoringInv, Latched, ScoredOnce
  <2> QED
    BY Zenon, <1>1, <1>2, <1>3, <1>5, <1>6, <2>1, WMovesKeeps DEF ScoringInv, WorkerTypes, WMoves
<1>7. CASE updates' = Append(updates, g)
  <2>1. /\ updates' \in Seq(Groups) /\ Len(updates) \in Nat
        /\ DOMAIN updates = 1..Len(updates) /\ DOMAIN updates' = 1..(Len(updates) + 1)
        /\ \A i \in 1..Len(updates) : updates'[i] = updates[i]
        /\ updates'[Len(updates) + 1] = g /\ Range(updates') = Range(updates) \cup {g}
    BY <1>3, <1>7, AppendFacts, SeqLen
  <2>2. Latched'
    BY Zenon, <1>1, <1>3, <1>4, <1>5, <2>1 DEF ScoringInv, Latched
  <2>3. ASSUME NEW i \in DOMAIN updates', NEW j \in DOMAIN updates', updates'[i] = updates'[j]
        PROVE  i = j
    <3>1. \A k \in DOMAIN updates : updates[k] # g
      BY Zenon, <1>3 DEF Range
    <3> QED BY <2>1, <2>3, <3>1 DEF ScoringInv, ScoredOnce
  <2>4. ScoredOnce'
    BY Zenon, <1>1, <1>5, <2>3 DEF ScoringInv, ScoredOnce
  <2> QED
    BY Zenon, <1>1, <1>2, <1>5, <2>1, <2>2, <2>4, WMovesKeeps DEF ScoringInv, WorkerTypes, WMoves
<1> QED
  BY Zenon, <1>1, <1>6, <1>7

\* A restart of score-computer keeps the invariant.
LEMMA ScorerCrashStep ==
    ASSUME GradingInv, ScoringInv, ScorerCrash, verdicts' = verdicts
    PROVE  ScoringInv' /\ env' = env /\ faults' \in 0..env.maxFaults
<1>1. /\ pos' = done /\ cpc' = [c \in Consumers |-> "fetch"]
      /\ ready' = <<>> /\ scanned' = FALSE /\ pending' = {}
      /\ wpc' = [w \in Workers |-> "idle"]
      /\ job' = [w \in Workers |-> {}] /\ input' = [w \in Workers |-> {}]
      /\ UNCHANGED <<env, done, terminal, graded, scores, marked, updates>>
  BY Zenon DEF ScorerCrash
<1>2. faults' \in 0..env.maxFaults
  BY Zenon, <1>1, FaultCount DEF ScorerCrash, AllFaults, GradingInv
<1>3. /\ Groups' = Groups /\ Sessions' = Sessions /\ Scored' = Scored
      /\ \A h : SessionsOf(h)' = SessionsOf(h)
      /\ \A c \in Consumers : Topic(c)' = Topic(c) /\ Len(Topic(c)) \in Nat
  <2>1. \A c \in Consumers : Len(Topic(c)) \in Nat
    BY Zenon, StreamFacts, SeqLen DEF Topic, GradingInv, GradingTypeOK
  <2> QED BY Zenon, <1>1, <2>1, EnvSame DEF Scored, Topic
<1>4. ConsumerTypes'
  <2>1. \A c \in Consumers : done[c] <= done[c] /\ done[c] <= Len(Topic(c))
    BY <1>3 DEF ScoringInv, ConsumerTypes
  <2> QED BY Zenon, <1>1, <1>3, <2>1 DEF ScoringInv, ConsumerTypes
<1>5. WorkerTypes'
  <2>1. ready' \in Seq(Groups) /\ Len(ready') = 0
    BY Zenon, <1>1, SeqEmpty
  <2>2. Len(ready') <= ReadyCap
    BY <2>1, ScorerKnown
  <2>3. scanned' \in BOOLEAN
    BY Zenon, <1>1
  <2> QED BY Zenon, <1>1, <1>3, <2>1, <2>2, <2>3 DEF ScoringInv, WorkerTypes
<1>6. Range(ready') = {}
  BY <1>1 DEF Range
<1>7. Triggers' /\ OnlyComplete'
  BY Zenon, <1>1, <1>6 DEF Triggers, OnlyComplete
<1>8. Latched' /\ ScoredOnce'
  BY Zenon, <1>1, <1>3 DEF ScoringInv, Latched, ScoredOnce, Announcing
<1> QED
  BY Zenon, <1>1, <1>2, <1>4, <1>5, <1>7, <1>8 DEF ScoringInv

\* A step of Scoring keeps its invariant.
LEMMA ScoringStep ==
    ASSUME GradingInv, ScoringInv, ScoringNext, verdicts' = verdicts
    PROVE  ScoringInv' /\ env' = env /\ faults' \in 0..env.maxFaults
<1>1. CASE \E c \in env.consumers : Trigger(c)
  BY Zenon, <1>1, TriggerStep
<1>2. CASE PendingRunGroups \/ EnqueuePending
  BY Zenon, <1>2, ScanStep
<1>3. CASE \E w \in env.workers : Worker(w)
  <2>1. env.workers \subseteq Workers
    BY Zenon, ScorerKnown DEF GradingInv, GradingTypeOK
  <2> QED BY Zenon, <1>3, <2>1, TakeReadyStep, LoadInputStep, SaveScoreStep, MarkPublishedStep,
             PublishUpdateStep DEF Worker
<1>4. CASE ScorerCrash
  BY Zenon, <1>4, ScorerCrashStep
<1> QED
  BY Zenon, <1>1, <1>2, <1>3, <1>4 DEF ScoringNext

-----------------------------------------------------------------------------
(* The event stream *)

\* A step of Scoring adds at most one update to the topic.
LEMMA UpdatesGrow ==
    ASSUME GradingInv, ScoringInv, ScoringNext
    PROVE  updates' = updates \/ \E g \in Groups : updates' = Append(updates, g)
<1>1. CASE \E c \in env.consumers : Trigger(c)
  BY Zenon, <1>1 DEF Trigger, Record, ReadyRunGroups, Enqueue, Commit, workerVars
<1>2. CASE PendingRunGroups \/ EnqueuePending \/ ScorerCrash
  BY Zenon, <1>2 DEF PendingRunGroups, EnqueuePending, ScorerCrash, workerVars
<1>3. ASSUME NEW w \in env.workers, Worker(w)
      PROVE  updates' = updates \/ \E g \in Groups : updates' = Append(updates, g)
  <2>1. CASE TakeReady(w) \/ LoadInput(w) \/ SaveScore(w) \/ MarkPublished(w)
    BY Zenon, <2>1 DEF TakeReady, LoadInput, SaveScore, MarkPublished
  <2>2. CASE PublishUpdate(w)
    <3>1. w \in Workers /\ wpc[w] = "publish" /\ updates' \in {updates, Append(updates, GroupAt(w))}
      BY Zenon, <2>2, ScorerKnown DEF PublishUpdate, GradingInv, GradingTypeOK
    <3> QED BY Zenon, <3>1, GroupAtFacts DEF ScoringInv
  <2> QED BY Zenon, <1>3, <2>1, <2>2 DEF Worker
<1> QED
  BY Zenon, <1>1, <1>2, <1>3 DEF ScoringNext

\* An update that arrives changes nothing the broker has read.
LEMMA BoardUndisturbed ==
    ASSUME ScoringInv, BoardInv, env' = env, UNCHANGED boardVars,
           updates' = updates \/ \E g \in Groups : updates' = Append(updates, g)
    PROVE  BoardInv'
<1>1. UNCHANGED <<lpos, spc, registered, channel, closes, seen>> /\ Groups' = Groups
  BY Zenon, EnvSame DEF boardVars
<1>2. /\ Len(updates) \in Nat /\ Len(updates') \in Nat /\ Len(updates) <= Len(updates')
      /\ \A i \in 1..Len(updates) : updates'[i] = updates[i]
  <2>1. updates \in Seq(Groups) /\ Len(updates) \in Nat
    BY Zenon, SeqLen DEF ScoringInv, WorkerTypes
  <2>2. CASE updates' = updates
    BY <2>1, <2>2
  <2>3. CASE \E g \in Groups : updates' = Append(updates, g)
    BY <2>1, <2>3, AppendFacts
  <2> QED BY Zenon, <2>2, <2>3
<1>3. lpos \in 0..Len(updates') /\ \A i \in 1..lpos : updates'[i] = updates[i]
  BY <1>2 DEF BoardInv
<1>4. NoGap'
  BY Zenon, <1>1, <1>3 DEF BoardInv, NoGap
<1> QED
  BY Zenon, <1>1, <1>3, <1>4 DEF BoardInv

\* What Broker.send leaves: who stays registered has the message, who does not fit it is
\* closed once and removed.
LEMMA SendFacts ==
    ASSUME BoardInv, NEW msg \in Groups \cup {"live"}, Send(msg)
    PROVE  /\ registered' \subseteq registered
           /\ channel' \in [Viewers -> Seq(Groups \cup {"live"})]
           /\ \A c \in Viewers : Len(channel'[c]) <= ChannelCap
           /\ \A c \in registered' : Range(channel'[c]) = Range(channel[c]) \cup {msg}
           /\ closes' \in [Viewers -> Nat]
           /\ \A c \in Viewers :
                 closes'[c] = IF c \in registered \ registered' THEN closes[c] + 1 ELSE closes[c]
<1> DEFINE M == Groups \cup {"live"}
<1>1. /\ registered' = {c \in registered : ~Full(c)}
      /\ closes' = [c \in Viewers |-> IF c \in registered /\ Full(c) THEN closes[c] + 1 ELSE closes[c]]
      /\ channel' = [c \in Viewers |-> IF c \in registered /\ ~Full(c) THEN Append(channel[c], msg)
                                                                       ELSE channel[c]]
  BY Zenon DEF Send
<1>2. /\ registered \subseteq Viewers /\ channel \in [Viewers -> Seq(M)] /\ msg \in M
      /\ closes \in [Viewers -> Nat]
  BY Zenon DEF BoardInv
<1> HIDE DEF M
<1>3. \A c \in Viewers :
         /\ Append(channel[c], msg) \in Seq(M) /\ Len(Append(channel[c], msg)) = Len(channel[c]) + 1
         /\ Len(channel[c]) \in Nat
         /\ Range(Append(channel[c], msg)) = Range(channel[c]) \cup {msg}
  BY <1>2, AppendFacts
<1>4. channel' \in [Viewers -> Seq(M)]
  BY Zenon, <1>1, <1>2, <1>3
<1>5. \A c \in Viewers : Len(channel'[c]) <= ChannelCap
  <2> TAKE c \in Viewers
  <2>1. Len(channel[c]) <= ChannelCap /\ ChannelCap \in Nat
    BY Zenon, BrokerKnown DEF BoardInv
  <2>2. CASE c \in registered /\ ~Full(c)
    <3>1. Len(channel'[c]) = Len(channel[c]) + 1 /\ Len(channel[c]) # ChannelCap
      BY Zenon, <1>1, <1>3, <2>2 DEF Full
    <3> QED BY <1>3, <2>1, <3>1
  <2>3. CASE ~(c \in registered /\ ~Full(c))
    BY Zenon, <1>1, <2>1, <2>3
  <2> QED BY Zenon, <2>2, <2>3
<1>6. \A c \in registered' : Range(channel'[c]) = Range(channel[c]) \cup {msg}
  <2> SUFFICES ASSUME NEW c \in registered'
               PROVE  Range(channel'[c]) = Range(channel[c]) \cup {msg}
    BY Zenon
  <2>1. c \in Viewers /\ channel'[c] = Append(channel[c], msg)
    BY Zenon, <1>1, <1>2
  <2> QED BY Zenon, <1>3, <2>1
<1>7. /\ closes' \in [Viewers -> Nat]
      /\ \A c \in Viewers :
            closes'[c] = IF c \in registered \ registered' THEN closes[c] + 1 ELSE closes[c]
  BY <1>1, <1>2
<1> QED
  BY Zenon, <1>1, <1>4, <1>5, <1>6, <1>7 DEF M

\* Consumer.Run and the live-metrics poller.
LEMMA BroadcastStep ==
    ASSUME GradingInv, ScoringInv, BoardInv, Broadcast \/ BroadcastLive,
           UNCHANGED <<gradingVars, scoringVars>>
    PROVE  BoardInv' /\ env' = env /\ faults' = faults
<1>1. /\ UNCHANGED <<env, faults, spc, seen>> /\ updates' = updates /\ Groups' = Groups
      /\ Len(updates) \in Nat /\ updates \in Seq(Groups)
  BY Zenon, EnvSame, SeqLen DEF Broadcast, BroadcastLive, scoringVars, ScoringInv, WorkerTypes
<1>2. PICK msg \in Groups \cup {"live"} :
         /\ Send(msg) /\ lpos' \in 0..Len(updates)
         /\ \A i \in 1..lpos' : i \in 1..lpos \/ updates[i] = msg
  <2>1. CASE Broadcast
    <3>1. lpos < Len(updates) /\ lpos' = lpos + 1 /\ lpos \in Nat
      BY <2>1 DEF Broadcast, BoardInv
    <3>2. lpos + 1 \in 1..Len(updates)
      BY <1>1, <3>1
    <3>3. updates[lpos + 1] \in Groups /\ Send(updates[lpos + 1])
      BY Zenon, <1>1, <2>1, <3>2, SeqElement DEF Broadcast
    <3>4. \A i \in 1..lpos' : i \in 1..lpos \/ i = lpos + 1
      BY <3>1
    <3> QED BY <3>1, <3>2, <3>3, <3>4
  <2>2. CASE BroadcastLive
    BY Zenon, <2>2 DEF BroadcastLive, BoardInv
  <2> QED BY Zenon, <2>1, <2>2
<1>3. /\ registered' \subseteq registered
      /\ channel' \in [Viewers -> Seq(Groups \cup {"live"})]
      /\ \A c \in Viewers : Len(channel'[c]) <= ChannelCap
      /\ \A c \in registered' : Range(channel'[c]) = Range(channel[c]) \cup {msg}
      /\ closes' \in [Viewers -> Nat]
      /\ \A c \in Viewers :
            closes'[c] = IF c \in registered \ registered' THEN closes[c] + 1 ELSE closes[c]
  BY Zenon, <1>2, SendFacts
<1>4. \A c \in Viewers : closes[c] \in Nat /\ closes[c] <= 1 /\ (c \in registered => closes[c] = 0)
  BY Zenon DEF BoardInv, NoGap
<1>5. ASSUME NEW c \in registered', spc'[c] = "stream", NEW i \in 1..lpos'
      PROVE  updates'[i] \in seen'[c] \cup Range(channel'[c])
  <2>1. i \in 1..lpos => updates[i] \in seen[c] \cup Range(channel[c])
    BY Zenon, <1>1, <1>3, <1>5 DEF BoardInv, NoGap
  <2> QED BY Zenon, <1>1, <1>2, <1>3, <2>1
<1>6. \A c \in Viewers : closes'[c] <= 1 /\ (c \in registered' => closes'[c] = 0)
  BY <1>3, <1>4
<1>7. NoGap'
  BY Zenon, <1>5, <1>6 DEF NoGap
<1> QED
  BY Zenon, <1>1, <1>2, <1>3, <1>7 DEF BoardInv

\* ServeHTTP, from the registration of the channel to the deferred close.
LEMMA ServeStep ==
    ASSUME GradingInv, ScoringInv, BoardInv, UNCHANGED <<gradingVars, scoringVars>>,
           NEW c \in Viewers,
           Connect(c) \/ Snapshot(c) \/ Deliver(c) \/ Leave(c) \/ Unregister(c)
    PROVE  BoardInv' /\ env' = env /\ faults' \in 0..env.maxFaults
<1>1. env' = env /\ lpos' = lpos /\ updates' = updates /\ scores' = scores
  BY Zenon DEF scoringVars, Connect, Snapshot, Deliver, Leave, Unregister
<1>2. Groups' = Groups /\ GradingTypeOK /\ faults \in 0..env.maxFaults
  BY Zenon, <1>1, EnvSame DEF GradingInv, GradingTypeOK
<1>3. faults' \in 0..env.maxFaults
  <2>1. NoFault \/ \E kind \in AllFaults : Fault(kind)
    BY Zenon DEF NoFault, AllFaults, Connect, Snapshot, Deliver, Leave, Unregister
  <2> QED BY Zenon, <1>1, <1>2, <2>1, FaultCount
<1>4. CASE Connect(c)
  <2>1. /\ spc[c] = "off" /\ registered' = registered \cup {c}
        /\ closes' = [closes EXCEPT ![c] = 0] /\ spc' = [spc EXCEPT ![c] = "snapshot"]
        /\ UNCHANGED <<channel, seen>>
    BY Zenon, <1>4 DEF Connect, SGoto
  <2>2. NoGap'
    BY <1>1, <2>1 DEF BoardInv, NoGap
  <2> QED BY Zenon, <1>1, <1>2, <1>3, <2>1, <2>2 DEF BoardInv
<1>5. CASE Snapshot(c)
  <2>1. /\ spc[c] = "snapshot" /\ UNCHANGED <<registered, channel, closes>>
        /\ \/ spc' = [spc EXCEPT ![c] = "stream"] /\ seen' = [seen EXCEPT ![c] = Scored]
           \/ spc' = [spc EXCEPT ![c] = "closing"] /\ UNCHANGED seen
    BY Zenon, <1>5 DEF Snapshot, SGoto
  <2>2. Scored \subseteq Groups /\ \A i \in 1..lpos : updates[i] \in Scored
    <3>1. DOMAIN updates = 1..Len(updates) /\ Len(updates) \in Nat
      BY Zenon, SeqLen DEF ScoringInv, WorkerTypes
    <3>2. 1..lpos \subseteq DOMAIN updates
      BY <3>1 DEF BoardInv
    <3> QED BY Zenon, <3>2 DEF Scored, ScoringInv, Latched, Range
  <2>3. NoGap'
    BY Zenon, <1>1, <2>1, <2>2 DEF BoardInv, NoGap
  <2>4. spc' \in [Viewers -> {"off", "snapshot", "stream", "closing"}] /\ seen' \in [Viewers -> SUBSET Groups]
    BY Zenon, <2>1, <2>2 DEF BoardInv
  <2> QED BY Zenon, <1>1, <1>2, <1>3, <2>1, <2>3, <2>4 DEF BoardInv
<1>6. CASE Deliver(c)
  <2>1. CASE channel[c] # <<>>
    <3> DEFINE h == Head(channel[c])
               t == Tail(channel[c])
               new == seen[c] \cup ({h} \ {"live"})
    <3>1. /\ seen' = [seen EXCEPT ![c] = new] /\ channel' = [channel EXCEPT ![c] = t]
          /\ UNCHANGED <<spc, registered, closes>>
      BY Zenon, <1>6, <2>1 DEF Deliver
    <3>2. channel[c] \in Seq(Groups \cup {"live"})
      BY Zenon DEF BoardInv
    <3>3. /\ h \in Groups \cup {"live"} /\ t \in Seq(Groups \cup {"live"})
          /\ Len(t) = Len(channel[c]) - 1 /\ Len(channel[c]) \in Nat
          /\ Range(channel[c]) = {h} \cup Range(t)
      BY Zenon, <2>1, <3>2, TailFacts
    <3>4. Len(t) <= ChannelCap /\ new \subseteq Groups /\ "live" \notin Groups
      BY <1>2, <3>3, BrokerKnown DEF BoardInv, GradingTypeOK, Groups
    <3>5. \A g \in Groups : g \in seen[c] \cup Range(channel[c]) => g \in new \cup Range(t)
      BY Zenon, <3>3, <3>4
    <3> HIDE DEF h, t, new
    <3>6. \A i \in 1..lpos : updates[i] \in Groups
      <4>1. updates \in Seq(Groups) /\ Len(updates) \in Nat
        BY Zenon, SeqLen DEF ScoringInv, WorkerTypes
      <4>2. 1..lpos \subseteq 1..Len(updates)
        BY <4>1 DEF BoardInv
      <4> QED BY Zenon, <4>1, <4>2, SeqElement
    <3>7. NoGap'
      <4>1. ASSUME NEW d \in registered', spc'[d] = "stream", NEW i \in 1..lpos'
            PROVE  updates'[i] \in seen'[d] \cup Range(channel'[d])
        <5>1. updates[i] \in seen[d] \cup Range(channel[d]) /\ d \in Viewers
          BY Zenon, <1>1, <3>1, <4>1 DEF BoardInv, NoGap
        <5>2. CASE d = c
          BY Zenon, <1>1, <3>1, <3>5, <3>6, <5>1, <5>2 DEF BoardInv
        <5>3. CASE d # c
          BY Zenon, <1>1, <3>1, <5>1, <5>3 DEF BoardInv
        <5> QED BY Zenon, <5>2, <5>3
      <4> QED BY Zenon, <3>1, <4>1 DEF BoardInv, NoGap
    <3>8. /\ channel' \in [Viewers -> Seq(Groups \cup {"live"})]
          /\ \A d \in Viewers : Len(channel'[d]) <= ChannelCap
          /\ seen' \in [Viewers -> SUBSET Groups]
      BY Zenon, <3>1, <3>3, <3>4 DEF BoardInv
    <3> QED BY Zenon, <1>1, <1>2, <1>3, <3>1, <3>7, <3>8 DEF BoardInv
  <2>2. CASE channel[c] = <<>>
    <3>1. spc' = [spc EXCEPT ![c] = "closing"] /\ UNCHANGED <<seen, channel, registered, closes>>
      BY Zenon, <1>6, <2>2 DEF Deliver, SGoto
    <3>2. NoGap'
      BY Zenon, <1>1, <3>1, <1>6 DEF BoardInv, NoGap, Deliver
    <3> QED BY Zenon, <1>1, <1>2, <1>3, <3>1, <3>2 DEF BoardInv
  <2> QED BY Zenon, <2>1, <2>2
<1>7. CASE Leave(c)
  <2>1. /\ spc[c] = "stream" /\ spc' = [spc EXCEPT ![c] = "closing"]
        /\ UNCHANGED <<registered, channel, closes, seen>>
    BY Zenon, <1>7 DEF Leave, SGoto
  <2>2. NoGap'
    BY Zenon, <1>1, <2>1 DEF BoardInv, NoGap
  <2> QED BY Zenon, <1>1, <1>2, <1>3, <2>1, <2>2 DEF BoardInv
<1>8. CASE Unregister(c)
  <2>1. /\ spc[c] = "closing" /\ spc' = [spc EXCEPT ![c] = "off"] /\ registered' = registered \ {c}
        /\ closes' = [closes EXCEPT ![c] = IF c \in registered THEN @ + 1 ELSE @]
        /\ channel' = [channel EXCEPT ![c] = <<>>] /\ seen' = [seen EXCEPT ![c] = {}]
    BY Zenon, <1>8 DEF Unregister, SGoto
  <2>2. closes[c] \in Nat /\ closes[c] <= 1 /\ (c \in registered => closes[c] = 0)
    BY Zenon, <2>1 DEF BoardInv, NoGap
  <2>3. closes' \in [Viewers -> Nat] /\ closes'[c] <= 1
    BY <2>1, <2>2 DEF BoardInv
  <2>4. /\ channel' \in [Viewers -> Seq(Groups \cup {"live"})]
        /\ \A d \in Viewers : Len(channel'[d]) <= ChannelCap
    <3>1. <<>> \in Seq(Groups \cup {"live"}) /\ Len(<<>>) <= ChannelCap
      BY SeqEmpty, BrokerKnown
    <3> QED BY Zenon, <2>1, <3>1 DEF BoardInv
  <2>5. NoGap'
    BY Zenon, <1>1, <2>1, <2>3 DEF BoardInv, NoGap
  <2> QED BY Zenon, <1>1, <1>2, <1>3, <2>1, <2>3, <2>4, <2>5 DEF BoardInv
<1> QED
  BY Zenon, <1>4, <1>5, <1>6, <1>7, <1>8, <1>1, <1>3

\* A restart of leaderboard-api keeps the invariant.
LEMMA ApiCrashStep ==
    ASSUME GradingInv, ScoringInv, BoardInv, ApiCrash, UNCHANGED <<gradingVars, scoringVars>>
    PROVE  BoardInv' /\ env' = env /\ faults' \in 0..env.maxFaults
<1>1. /\ lpos' = Len(updates) /\ spc' = [c \in Viewers |-> "off"] /\ registered' = {}
      /\ channel' = [c \in Viewers |-> <<>>] /\ closes' = [c \in Viewers |-> 0]
      /\ seen' = [c \in Viewers |-> {}] /\ env' = env /\ updates' = updates
  BY Zenon DEF ApiCrash, scoringVars
<1>2. faults' \in 0..env.maxFaults
  BY Zenon, <1>1, FaultCount DEF ApiCrash, AllFaults, GradingInv
<1>3. Groups' = Groups /\ Len(updates) \in Nat
  BY Zenon, <1>1, EnvSame, SeqLen DEF ScoringInv, WorkerTypes
<1>4. <<>> \in Seq(Groups \cup {"live"}) /\ Len(<<>>) <= ChannelCap
  BY SeqEmpty, BrokerKnown
<1>5. NoGap'
  BY <1>1 DEF NoGap
<1> QED
  BY <1>1, <1>2, <1>3, <1>4, <1>5 DEF BoardInv

-----------------------------------------------------------------------------
(* The theorems *)

\* The invariant holds initially.
LEMMA InitIInv ==
    ASSUME Init
    PROVE  IInv
<1>1. env \in Environments /\ faults = 0 /\ GradingInit /\ ScoringInit /\ BoardInit
  BY Zenon DEF Init
<1>2. /\ env.validators \subseteq Validators /\ env.maxFaults \in Nat
      /\ Len(env.statuses) \in Nat /\ Len(env.specs) \in Nat
  BY Zenon, <1>1, StreamFacts
<1>3. verdicts = <<>> /\ updates = <<>> /\ ready = <<>>
  BY Zenon, <1>1 DEF GradingInit, ScoringInit
<1>4. /\ verdicts \in Seq(Verdicts) /\ updates \in Seq(Groups) /\ ready \in Seq(Groups)
      /\ Len(verdicts) = 0 /\ Len(updates) = 0 /\ Len(ready) = 0
      /\ DOMAIN verdicts = {} /\ DOMAIN updates = {} /\ DOMAIN ready = {}
  BY <1>3, SeqEmpty
<1>5. GradingInv
  <2>1. GradingTypeOK
    BY <1>1, <1>2, <1>4 DEF GradingInit, GradingTypeOK, Modes, Grades
  <2>2. \A v \in Validators : AtWork(v)
    BY Zenon, <1>1 DEF GradingInit, AtWork
  <2> QED BY Zenon, <1>4, <2>1, <2>2 DEF GradingInv, AnnouncedIsStored
<1>6. ScoringInv
  <2>1. ConsumerTypes
    <3>1. \A c \in Consumers : pos[c] = 0 /\ done[c] = 0 /\ Len(Topic(c)) \in Nat
      BY <1>1, <1>2, <1>4 DEF ScoringInit, Topic
    <3>2. \A s \in Sessions : graded[s] = {}
      BY Zenon, <1>1 DEF ScoringInit
    <3>4. \A c \in Consumers : done[c] <= pos[c] /\ pos[c] <= Len(Topic(c))
      BY <3>1
    <3> QED BY Zenon, <1>1, <3>2, <3>4 DEF ScoringInit, ConsumerTypes
  <2>2. WorkerTypes
    <3>1. Len(ready) <= ReadyCap
      BY <1>4, ScorerKnown
    <3>2. scanned \in BOOLEAN
      BY Zenon, <1>1 DEF ScoringInit
    <3> QED BY Zenon, <1>1, <1>4, <3>1, <3>2 DEF ScoringInit, WorkerTypes
  <2>3. Triggers /\ OnlyComplete /\ Latched
    BY Zenon, <1>1, <1>4 DEF ScoringInit, Triggers, OnlyComplete, Latched, Announcing, Range
  <2>4. ScoredOnce
    BY Zenon, <1>1, <1>4 DEF ScoringInit, ScoredOnce, Scored
  <2> QED BY Zenon, <2>1, <2>2, <2>3, <2>4 DEF ScoringInv
<1>7. BoardInv
  <2>1. <<>> \in Seq(Groups \cup {"live"}) /\ Len(<<>>) <= ChannelCap
    BY SeqEmpty, BrokerKnown
  <2>2. NoGap
    BY <1>1 DEF BoardInit, NoGap
  <2> QED BY <1>1, <1>4, <2>1, <2>2 DEF BoardInit, BoardInv
<1> QED
  BY Zenon, <1>5, <1>6, <1>7 DEF IInv

\* Grading's invariant is about its own variables, and the fault count all share.
LEMMA GradingUndisturbed ==
    ASSUME GradingInv, env' = env, UNCHANGED gradingVars, faults' \in 0..env.maxFaults
    PROVE  GradingInv'
<1>1. /\ UNCHANGED <<owner, rpos, com, vpc, vmsg, mode, bpos, cache, summary, verdicts>>
      /\ Sessions' = Sessions /\ Verdicts' = Verdicts
  BY Zenon, EnvSame DEF gradingVars
<1>2. GradingTypeOK'
  BY Zenon, <1>1 DEF GradingInv, GradingTypeOK
<1>3. \A v \in Validators : AtWork(v)'
  BY Zenon, <1>1 DEF GradingInv, AtWork, SessionAt
<1> QED
  BY Zenon, <1>1, <1>2, <1>3 DEF GradingInv, AnnouncedIsStored

\* Every step keeps the invariant.
LEMMA NextIInv ==
    ASSUME IInv, [Next]_vars
    PROVE  IInv'
<1>1. CASE GradingNext /\ UNCHANGED <<scoringVars, boardVars>>
  <2>1. /\ GradingInv' /\ env' = env
        /\ verdicts' = verdicts \/ \E x \in Verdicts : verdicts' = Append(verdicts, x)
    BY Zenon, <1>1, GradingStep DEF IInv
  <2>2. ScoringInv'
    BY Zenon, <1>1, <2>1, ScoringUndisturbed DEF IInv
  <2>3. updates' = updates
    BY Zenon, <1>1 DEF scoringVars
  <2>4. BoardInv'
    BY Zenon, <1>1, <2>1, <2>3, BoardUndisturbed DEF IInv
  <2> QED BY Zenon, <2>1, <2>2, <2>4 DEF IInv
<1>2. CASE ScoringNext /\ UNCHANGED <<gradingVars, boardVars>>
  <2>1. verdicts' = verdicts
    BY Zenon, <1>2 DEF gradingVars
  <2>2. ScoringInv' /\ env' = env /\ faults' \in 0..env.maxFaults
    BY Zenon, <1>2, <2>1, ScoringStep DEF IInv
  <2>3. GradingInv'
    BY Zenon, <1>2, <2>2, GradingUndisturbed DEF IInv
  <2>4. BoardInv'
    BY Zenon, <1>2, <2>2, UpdatesGrow, BoardUndisturbed DEF IInv
  <2> QED BY Zenon, <2>2, <2>3, <2>4 DEF IInv
<1>3. CASE BoardNext /\ UNCHANGED <<gradingVars, scoringVars>>
  <2>1. BoardInv' /\ env' = env /\ faults' \in 0..env.maxFaults
    <3>1. faults \in 0..env.maxFaults
      BY Zenon DEF IInv, GradingInv, GradingTypeOK
    <3> QED BY Zenon, <1>3, <3>1, BroadcastStep, ServeStep, ApiCrashStep DEF BoardNext, IInv
  <2>2. GradingInv'
    BY Zenon, <1>3, <2>1, GradingUndisturbed DEF IInv
  <2>3. verdicts' = verdicts
    BY Zenon, <1>3 DEF gradingVars
  <2>4. ScoringInv'
    BY Zenon, <1>3, <2>1, <2>3, ScoringUndisturbed DEF IInv
  <2> QED BY Zenon, <2>1, <2>2, <2>4 DEF IInv
<1>4. CASE UNCHANGED vars
  <2>1. /\ env' = env /\ faults' = faults /\ UNCHANGED gradingVars /\ UNCHANGED scoringVars
        /\ UNCHANGED boardVars
    BY Zenon, <1>4 DEF vars
  <2>2. faults \in 0..env.maxFaults /\ verdicts' = verdicts /\ updates' = updates
    BY Zenon, <2>1 DEF IInv, GradingInv, GradingTypeOK, gradingVars, scoringVars
  <2> QED BY Zenon, <2>1, <2>2, GradingUndisturbed, ScoringUndisturbed, BoardUndisturbed DEF IInv
<1> QED
  BY Zenon, <1>1, <1>2, <1>3, <1>4 DEF Next

\* The inductive invariant of grading, scoring and the event stream together.
THEOREM Invariance == Spec => []IInv
<1>1. Init => IInv
  BY Zenon, InitIInv
<1>2. IInv /\ [Next]_vars => IInv'
  BY Zenon, NextIInv
<1> QED
  BY <1>1, <1>2, PTL DEF Spec

\* With any number of validators, redeliveries, rebalances and crashes, no verdict that
\* was announced differs from the row of correctness_summary (Save's claim).
THEOREM VerdictsMatchRows == Spec => []AnnouncedIsStored
<1>1. IInv => AnnouncedIsStored
  BY Zenon DEF IInv, GradingInv
<1> QED
  BY <1>1, Invariance, PTL

\* With any number of sessions, groups, workers and crashes, a score is computed from a
\* verdict of every session of its group, and a group is announced at most once
\* (ReadyRunGroups and SaveScore).
THEOREM GroupsScoredOnce == Spec => []ScoredOnce
<1>1. IInv => ScoredOnce
  BY Zenon DEF IInv, ScoringInv
<1> QED
  BY <1>1, Invariance, PTL

\* For any number of connections and any channel capacity, a registered connection has
\* been shown, or will be handed, every group broadcast so far, and its channel is open
\* (Broker.send and ServeHTTP).
THEOREM ViewersMissNothing == Spec => []NoGap
<1>1. IInv => NoGap
  BY Zenon DEF IInv, BoardInv
<1> QED
  BY <1>1, Invariance, PTL
=============================================================================
