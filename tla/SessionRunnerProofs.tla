------------------------ MODULE SessionRunnerProofs ------------------------
(***************************************************************************)
(* Proofs about SessionRunner, for any sessions, partitions, bands and     *)
(* faults: every resource of the controller has exactly one owner, and no  *)
(* session is driven twice by processes that crash or stop.                *)
(*                                                                         *)
(* Owners is the first claim said of goroutines instead of counts.  Once    *)
(* follows a request from the topic through the fetch loop into a          *)
(* goroutine, and says what may exist of its session on the way; Fresh     *)
(* says of which sessions a sandbox slot can be left over.                 *)
(***************************************************************************)
EXTENDS SessionRunner, FiniteSetTheorems, TLAPS

Has(s, stages) == \E j \in Jobs : job[j].session = s /\ job[j].pc \in stages

Types ==
    /\ TypeOK
    /\ call \in [Sessions -> {"idle", "waiting", "undoing", "held"}]
    /\ \A j \in Jobs : IF job[j].pc = "idle" THEN job[j] = Idle ELSE job[j].session \in Sessions
    /\ IF loop.pc = "fetch" THEN loop.session = NoSession ELSE loop.pc = "stopped" \/ loop.session \in Sessions
    /\ ~Alive => loop.pc = "fetch" /\ \A j \in Jobs : job[j] = Idle

\* What a session owns is told by the stage of its one tracked goroutine.
Owners ==
    /\ \A i, j \in Jobs :
        (job[i].pc \in IsTracked /\ job[j].pc \in IsTracked /\ job[i].session = job[j].session) => i = j
    /\ \A s \in Sessions :
        /\ s \in tracked <=> Has(s, IsTracked)
        /\ call[s] = "held" <=> Has(s, HoldsParts)
        /\ call[s] \in {"waiting", "undoing"} <=> Has(s, {"parked"})
        /\ bandOf[s] # NoBand <=> Has(s, HoldsBand)
    /\ \A s, t \in Sessions : bandOf[s] = bandOf[t] /\ bandOf[s] # NoBand => s = t

Busy == {j \in Jobs : job[j] # Idle}

Slots == sem = Cardinality(Busy) + (IF loop.pc \in {"commit", "start"} THEN 1 ELSE 0)

Terminal(s) == runStatus[s] \in {"completed", "failed"}

\* Nothing was done yet for the session.
Untouched(s) == specs[s] = 0 /\ slot[s] = NoBand /\ statusTopic[s] = <<>>

BeforeSlot == {"precheck", "add", "lease", "parked", "band", "create"}
Deploying == {"deploy", "publish"}
AfterPublish == Driving \ {"publish"}
Ending == {"deleteSlot", "releaseBand", "releaseParts", "drop", "exit"}

\* A session is requested once, and goroutines and the loop have what was read.
Requested ==
    /\ \A i, j \in 1..Len(requests) : requests[i] = requests[j] => i = j
    /\ \A j \in Jobs : job[j].pc # "idle" => \E i \in 1..position : requests[i] = job[j].session
    /\ loop.session \in Sessions => \E i \in 1..position : requests[i] = loop.session

\* An open session is in one place only, ahead of the reader, in the loop or with one
\* goroutine, and was touched only as far as that goroutine got.
Attended(s) ==
    /\ \A i \in position + 1..Len(requests) : requests[i] = s => Untouched(s)
    /\ loop.session = s => Untouched(s) /\ \A j \in Jobs : job[j].session # s
    /\ \A j \in Jobs : job[j].session = s =>
        /\ job[j].pc \in BeforeSlot => Untouched(s)
        /\ job[j].pc \in Deploying => specs[s] = 0 /\ statusTopic[s] = <<>>
        /\ job[j].pc \in AfterPublish => statusTopic[s] = <<>>
        /\ \A i \in Jobs : job[i].session = s => i = j

\* ... and the sweep leaves none open that was touched.
OnceOf(s) ==
    /\ specs[s] <= 1
    /\ runStatus[s] = "none" => Untouched(s) /\ \A i \in 1..Len(requests) : requests[i] # s
    /\ Terminal(s) => ~Has(s, (BeforeSlot \ {"precheck"}) \cup Deploying \cup AfterPublish)
    /\ runStatus[s] = "open" /\ Alive => Attended(s)
    /\ proc = "recovering" =>
        /\ runStatus[s] = "open" /\ s \notin toRecover => Untouched(s)
        /\ s \in toRecover => runStatus[s] # "none"

Once == SweptBeforeRedelivery => Requested /\ \A s \in Sessions : OnceOf(s)

NoLeak == env.faults \cap {"crash", "shutdown", "orchestrator"} = {}

\* While a session deploys or is driven its slot is its band's.
Fresh ==
    /\ SlotsFresh => \A j \in Jobs :
        job[j].pc \in {"deploy"} \cup Driving => slot[job[j].session] = bandOf[job[j].session]
    /\ NoLeak => proc = "up" /\ \A s \in Sessions : slot[s] # NoBand => Has(s, HoldsSlot)

IInv == Types /\ Owners /\ Slots /\ Once /\ Fresh

-----------------------------------------------------------------------------
(* Facts the steps share *)

\* What a step of goroutine j does and leaves alone.
Moves(j, pc) ==
    /\ Alive /\ UNCHANGED <<env, kafkaVars, runStatus, proc, loop, toRecover, disruptions>>
    /\ job[j].pc # "idle" /\ pc \in Stages \ {"idle"}
    /\ job' \in [Jobs -> [pc : Stages, session : Sessions \cup {NoSession}, panicked : BOOLEAN]]
    /\ job'[j].pc = pc /\ job'[j].session = job[j].session
    /\ \A i \in Jobs : i # j => job'[i] = job[i]
    /\ sem' = sem

\* ... and what it may do to the session it runs.
Touches(s) ==
    /\ call' \in [Sessions -> {"idle", "waiting", "undoing", "held"}]
    /\ tracked' \subseteq Sessions
    /\ bandOf' \in [Sessions -> Bands \cup {NoBand}] /\ slot' \in [Sessions -> Bands \cup {NoBand}]
    /\ specs' \in [Sessions -> Nat]
    /\ statusTopic' \in [Sessions -> Seq({"completed", "failed"})]
    /\ \A t \in Sessions : t # s =>
        /\ call'[t] = call[t] /\ (t \in tracked' <=> t \in tracked) /\ bandOf'[t] = bandOf[t]
        /\ slot'[t] = slot[t] /\ specs'[t] = specs[t] /\ statusTopic'[t] = statusTopic[t]

\* What the proofs use of sequences.
LEMMA SeqLen ==
    ASSUME NEW S, NEW q \in Seq(S)
    PROVE  Len(q) \in Nat /\ DOMAIN q = 1..Len(q) /\ q \in [1..Len(q) -> S]
  OBVIOUS

\* An element of a sequence is an element of its set.
LEMMA SeqElement ==
    ASSUME NEW S, NEW q \in Seq(S), NEW i \in 1..Len(q)
    PROVE  q[i] \in S
  OBVIOUS

\* What Append leaves and adds.
LEMMA SeqAppend ==
    ASSUME NEW S, NEW q \in Seq(S), NEW x \in S
    PROVE  /\ Append(q, x) \in Seq(S) /\ Append(q, x) # << >>
           /\ Len(Append(q, x)) = Len(q) + 1 /\ Append(q, x)[Len(q) + 1] = x
           /\ \A i \in 1..Len(q) : Append(q, x)[i] = q[i]
  OBVIOUS

\* What taking the head leaves.
LEMMA SeqHeadTail ==
    ASSUME NEW S, NEW q \in Seq(S), q # << >>
    PROVE  /\ Head(q) \in S /\ Tail(q) \in Seq(S) /\ Len(Tail(q)) = Len(q) - 1
           /\ \A i \in 1..Len(Tail(q)) : Tail(q)[i] = q[i + 1]
  OBVIOUS

\* A busy job has a session.
LEMMA BusySession ==
    ASSUME Types, NEW j \in Jobs, job[j].pc # "idle"
    PROVE  job[j].session \in Sessions /\ job[j] # Idle
  BY NullsApart DEF Types, Idle

\* The types a step of one job keeps.
LEMMA TypesKept ==
    ASSUME Types, NEW j \in Jobs, NEW pc, Moves(j, pc), NEW s \in Sessions, job[j].session = s, Touches(s)
    PROVE  Types'
<1>1. UNCHANGED <<env, requests, position, committed, runStatus, proc, loop, toRecover, disruptions, sem>>
  BY Zenon DEF Moves, kafkaVars
<1>2. TypeOK'
  BY Zenon, <1>1 DEF Types, TypeOK, Moves, Touches
<1>3. \A i \in Jobs : IF job'[i].pc = "idle" THEN job'[i] = Idle ELSE job'[i].session \in Sessions
  <2> TAKE i \in Jobs
  <2>1. CASE i = j
    BY Zenon, <2>1, BusySession DEF Moves
  <2>2. CASE i # j
    BY Zenon, <2>2 DEF Moves, Types
  <2> QED BY Zenon, <2>1, <2>2
<1>4. Alive /\ Alive'
  BY Zenon, <1>1 DEF Moves, Alive
<1> QED
  BY Zenon, <1>1, <1>2, <1>3, <1>4 DEF Types, Touches

\* A goroutine of another session is where it was.
LEMMA HasOther ==
    ASSUME NEW j \in Jobs, NEW s \in Sessions, job[j].session = s, NEW t \in Sessions, t # s,
           job'[j].session \in {s, NoSession},
           \A i \in Jobs : i # j => job'[i] = job[i], NEW stages
    PROVE  Has(t, stages)' <=> Has(t, stages)
  BY Zenon, NullsApart DEF Has

\* A goroutine that is outside some stages before and after does not count there.
LEMMA HasOwn ==
    ASSUME NEW j \in Jobs, \A i \in Jobs : i # j => job'[i] = job[i], NEW stages, NEW s,
           job[j].pc \notin stages, job'[j].pc \notin stages
    PROVE  Has(s, stages)' <=> Has(s, stages)
  BY Zenon DEF Has

\* The tracked goroutine of a session is the only one.
LEMMA HasSole ==
    ASSUME Owners, NEW j \in Jobs, job[j].pc \in IsTracked, NEW s, job[j].session = s,
           NEW stages, stages \subseteq IsTracked
    PROVE  Has(s, stages) <=> job[j].pc \in stages
  BY Zenon DEF Has, Owners

\* The sets of stages are apart.
LEMMA StageSets ==
    /\ HoldsParts \subseteq IsTracked /\ HoldsBand \subseteq HoldsParts /\ HoldsSlot \subseteq HoldsBand
    /\ Driving \subseteq HoldsSlot /\ {"parked"} \subseteq IsTracked /\ IsTracked \subseteq Stages
    /\ "idle" \notin IsTracked /\ "parked" \notin HoldsParts
  BY Zenon DEF IsTracked, HoldsParts, HoldsBand, HoldsSlot, Driving, Stages

\* A step of a tracked goroutine that stays tracked.
LEMMA OwnersInside ==
    ASSUME Types, Owners, NEW j \in Jobs, NEW pc \in IsTracked, Moves(j, pc), job[j].pc \in IsTracked,
           NEW s \in Sessions, job[j].session = s, Touches(s), tracked' = tracked,
           call'[s] = "held" <=> pc \in HoldsParts,
           call'[s] \in {"waiting", "undoing"} <=> pc = "parked",
           bandOf'[s] # NoBand <=> pc \in HoldsBand,
           bandOf'[s] # NoBand => \A t \in Sessions : t # s => bandOf[t] # bandOf'[s]
    PROVE  Owners'
<1>1. \A i \in Jobs : i # j => job'[i] = job[i]
  BY Zenon DEF Moves
<1>2. job'[j].pc = pc /\ job'[j].session = s
  BY Zenon DEF Moves
<1>3. /\ \A i \in Jobs : i # j /\ job[i].pc \in IsTracked => job[i].session # s
      /\ \A h, i \in Jobs :
          (job[h].pc \in IsTracked /\ job[i].pc \in IsTracked /\ job[h].session = job[i].session) => h = i
  BY Zenon DEF Owners
<1>4. \A h, i \in Jobs :
        (job'[h].pc \in IsTracked /\ job'[i].pc \in IsTracked /\ job'[h].session = job'[i].session) => h = i
  BY <1>1, <1>2, <1>3
<1>5. \A stages : stages \subseteq IsTracked => (Has(s, stages)' <=> pc \in stages)
  BY Zenon, <1>1, <1>2, <1>3 DEF Has
<1>6. \A t \in Sessions : t # s => \A stages : Has(t, stages)' <=> Has(t, stages)
  BY Zenon, <1>1, <1>2, HasOther
<1>7. s \in tracked
  BY Zenon DEF Has, Owners
<1>8. ASSUME NEW t \in Sessions
      PROVE  /\ t \in tracked' <=> Has(t, IsTracked)'
             /\ call'[t] = "held" <=> Has(t, HoldsParts)'
             /\ call'[t] \in {"waiting", "undoing"} <=> Has(t, {"parked"})'
             /\ bandOf'[t] # NoBand <=> Has(t, HoldsBand)'
  <2>1. CASE t = s
    <3>1. /\ Has(s, IsTracked)' <=> pc \in IsTracked
          /\ Has(s, HoldsParts)' <=> pc \in HoldsParts
          /\ Has(s, {"parked"})' <=> pc = "parked"
          /\ Has(s, HoldsBand)' <=> pc \in HoldsBand
      BY Zenon, <1>5, StageSets
    <3> QED BY Zenon, <1>7, <2>1, <3>1
  <2>2. CASE t # s
    <3>1. /\ Has(t, IsTracked)' <=> Has(t, IsTracked)
          /\ Has(t, HoldsParts)' <=> Has(t, HoldsParts)
          /\ Has(t, {"parked"})' <=> Has(t, {"parked"})
          /\ Has(t, HoldsBand)' <=> Has(t, HoldsBand)
      BY Zenon, <1>6, <2>2
    <3>2. call'[t] = call[t] /\ (t \in tracked' <=> t \in tracked) /\ bandOf'[t] = bandOf[t]
      BY Zenon, <2>2 DEF Touches
    <3> QED BY Zenon, <3>1, <3>2 DEF Owners
  <2> QED BY Zenon, <2>1, <2>2
<1>9. \A t, u \in Sessions : bandOf'[t] = bandOf'[u] /\ bandOf'[t] # NoBand => t = u
  <2>1. \A t \in Sessions : t # s => bandOf'[t] = bandOf[t]
    BY Zenon DEF Touches
  <2>2. \A t, u \in Sessions : bandOf[t] = bandOf[u] /\ bandOf[t] # NoBand => t = u
    BY Zenon DEF Owners
  <2> QED BY Zenon, <2>1, <2>2
<1> QED
  BY Zenon, <1>4, <1>8, <1>9 DEF Owners

\* A step of a goroutine that is not tracked, and is not tracked by it.
LEMMA OwnersOutside ==
    ASSUME Owners, NEW j \in Jobs, job[j].pc \notin IsTracked, job'[j].pc \notin IsTracked,
           \A i \in Jobs : i # j => job'[i] = job[i], UNCHANGED <<tracked, call, bandOf>>
    PROVE  Owners'
<1>1. \A t, stages : stages \subseteq IsTracked => (Has(t, stages)' <=> Has(t, stages))
  BY Zenon, HasOwn
<1>2. \A t : /\ Has(t, IsTracked)' <=> Has(t, IsTracked)
             /\ Has(t, HoldsParts)' <=> Has(t, HoldsParts)
             /\ Has(t, {"parked"})' <=> Has(t, {"parked"})
             /\ Has(t, HoldsBand)' <=> Has(t, HoldsBand)
  BY Zenon, <1>1, StageSets
<1>3. \A h, i \in Jobs :
        (job'[h].pc \in IsTracked /\ job'[i].pc \in IsTracked /\ job'[h].session = job'[i].session) => h = i
  BY Zenon DEF Owners
<1> QED
  BY Zenon, <1>2, <1>3 DEF Owners

\* sessions.Add of a session that is not in the table.
LEMMA OwnersAdd ==
    ASSUME Types, Owners, NEW j \in Jobs, Moves(j, "lease"), job[j].pc \notin IsTracked,
           NEW s \in Sessions, job[j].session = s, Touches(s), s \notin tracked, s \in tracked',
           UNCHANGED <<call, bandOf>>
    PROVE  Owners'
<1>1. \A i \in Jobs : i # j => job'[i] = job[i]
  BY Zenon DEF Moves
<1>2. job'[j].pc = "lease" /\ job'[j].session = s
  BY Zenon DEF Moves
<1>3. ~Has(s, IsTracked)
  BY Zenon DEF Owners
<1>4. \A h, i \in Jobs :
        (job'[h].pc \in IsTracked /\ job'[i].pc \in IsTracked /\ job'[h].session = job'[i].session) => h = i
  <2>1. \A i \in Jobs : job[i].pc \in IsTracked => job[i].session # s
    BY Zenon, <1>3 DEF Has
  <2> QED BY <1>1, <1>2, <2>1 DEF Owners
<1>5. /\ "lease" \in IsTracked
      /\ \A stages \in {HoldsParts, {"parked"}, HoldsBand} : "lease" \notin stages /\ stages \subseteq IsTracked
  BY Zenon DEF IsTracked, HoldsParts, HoldsBand, HoldsSlot, Driving
<1>6. \A t, stages : stages \in {HoldsParts, {"parked"}, HoldsBand} => (Has(t, stages)' <=> Has(t, stages))
  BY Zenon, <1>1, <1>2, <1>5, HasOwn
<1>7. \A t : /\ Has(t, HoldsParts)' <=> Has(t, HoldsParts)
             /\ Has(t, {"parked"})' <=> Has(t, {"parked"})
             /\ Has(t, HoldsBand)' <=> Has(t, HoldsBand)
  BY Zenon, <1>6
<1>8. \A t \in Sessions : t \in tracked' <=> Has(t, IsTracked)'
  <2>1. Has(s, IsTracked)'
    BY Zenon, <1>2, <1>5 DEF Has
  <2>2. \A t \in Sessions : t # s => (Has(t, IsTracked)' <=> Has(t, IsTracked)) /\ (t \in tracked' <=> t \in tracked)
    BY Zenon, <1>1, <1>2, HasOther DEF Touches
  <2> QED BY Zenon, <2>1, <2>2 DEF Owners
<1> QED
  BY Zenon, <1>4, <1>7, <1>8 DEF Owners

\* sessions.Drop.
LEMMA OwnersDrop ==
    ASSUME Types, Owners, NEW j \in Jobs, Moves(j, "exit"), job[j].pc = "drop",
           NEW s \in Sessions, job[j].session = s, Touches(s), s \notin tracked', UNCHANGED <<call, bandOf>>
    PROVE  Owners'
<1>1. \A i \in Jobs : i # j => job'[i] = job[i]
  BY Zenon DEF Moves
<1>2. job'[j].pc = "exit" /\ job'[j].session = s
  BY Zenon DEF Moves
<1>3. /\ "drop" \in IsTracked /\ "exit" \notin IsTracked
      /\ \A stages \in {HoldsParts, {"parked"}, HoldsBand} : {"drop", "exit"} \cap stages = {}
  BY Zenon DEF IsTracked, HoldsParts, HoldsBand, HoldsSlot, Driving
<1>4. \A i \in Jobs : i # j /\ job[i].pc \in IsTracked => job[i].session # s
  BY Zenon, <1>3 DEF Owners
<1>5. \A h, i \in Jobs :
        (job'[h].pc \in IsTracked /\ job'[i].pc \in IsTracked /\ job'[h].session = job'[i].session) => h = i
  BY <1>1, <1>2, <1>3 DEF Owners
<1>6. \A t, stages : stages \in {HoldsParts, {"parked"}, HoldsBand} => (Has(t, stages)' <=> Has(t, stages))
  BY Zenon, <1>1, <1>2, <1>3, HasOwn
<1>7. \A t : /\ Has(t, HoldsParts)' <=> Has(t, HoldsParts)
             /\ Has(t, {"parked"})' <=> Has(t, {"parked"})
             /\ Has(t, HoldsBand)' <=> Has(t, HoldsBand)
  BY Zenon, <1>6
<1>8. \A t \in Sessions : t \in tracked' <=> Has(t, IsTracked)'
  <2>1. ~Has(s, IsTracked)'
    BY Zenon, <1>1, <1>2, <1>3, <1>4 DEF Has
  <2>2. \A t \in Sessions : t # s => (Has(t, IsTracked)' <=> Has(t, IsTracked)) /\ (t \in tracked' <=> t \in tracked)
    BY Zenon, <1>1, <1>2, HasOther DEF Touches
  <2> QED BY Zenon, <2>1, <2>2 DEF Owners
<1> QED
  BY Zenon, <1>5, <1>7, <1>8 DEF Owners

\* A step that starts and ends no job keeps the count of slots.
LEMMA SlotsKept ==
    ASSUME Types, Slots, NEW j \in Jobs, NEW pc, Moves(j, pc)
    PROVE  Slots'
<1>1. job[j] # Idle /\ job'[j] # Idle
  BY DEF Moves, Idle
<1>2. \A i \in Jobs : job'[i] # Idle <=> job[i] # Idle
  BY Zenon, <1>1 DEF Moves
<1>3. Busy' = Busy
  BY Zenon, <1>2 DEF Busy
<1> QED
  BY Zenon, <1>3 DEF Slots, Moves

\* What a stage may find done and may do, for a session that is driven once.
InOrder(j, s, pc) ==
    /\ pc \in BeforeSlot => job[j].pc \in BeforeSlot /\ UNCHANGED <<specs[s], slot[s], statusTopic[s]>>
    /\ pc \in Deploying => job[j].pc \in BeforeSlot \cup Deploying /\ UNCHANGED <<specs[s], statusTopic[s]>>
    /\ pc \in AfterPublish =>
        job[j].pc \in BeforeSlot \cup Deploying \cup AfterPublish /\ UNCHANGED statusTopic[s]
    /\ Terminal(s) => pc \in Ending \cup {"precheck"}
    /\ specs'[s] <= 1

\* What keeps a session from being run twice.
LEMMA OnceKept ==
    ASSUME Types, Once, NEW j \in Jobs, NEW pc, Moves(j, pc), NEW s \in Sessions, job[j].session = s,
           Touches(s), SweptBeforeRedelivery => InOrder(j, s, pc)
    PROVE  Once'
<1> SUFFICES ASSUME SweptBeforeRedelivery'
             PROVE  Requested' /\ \A t \in Sessions : OnceOf(t)'
  BY Zenon DEF Once
<1>1. /\ UNCHANGED <<env, requests, position, committed, runStatus, proc, loop, toRecover>>
      /\ Alive /\ Alive' /\ proc # "recovering"
  BY Zenon DEF Moves, kafkaVars, Alive
<1>2. InOrder(j, s, pc) /\ Requested /\ \A t \in Sessions : OnceOf(t)
  BY Zenon, <1>1 DEF SweptBeforeRedelivery, Once
<1>3. /\ \A i \in Jobs : i # j => job'[i] = job[i]
      /\ job'[j].pc = pc /\ job'[j].session = s /\ pc # "idle" /\ job[j].pc # "idle"
  BY Zenon DEF Moves
<1>4. \A i \in Jobs : job'[i].session = job[i].session /\ (job'[i].pc # "idle" <=> job[i].pc # "idle")
  BY Zenon, <1>3
<1>5. Requested'
  BY Zenon, <1>1, <1>2, <1>4 DEF Requested
<1>6. PICK k \in 1..position : requests[k] = s
  BY Zenon, <1>2, <1>3 DEF Requested
<1>7. position \in 0..Len(requests) /\ Len(requests) \in Nat /\ k \in 1..Len(requests)
  BY SeqLen DEF Types, TypeOK
<1>8. ASSUME NEW t \in Sessions, t # s
      PROVE  OnceOf(t)'
  <2>1. specs'[t] = specs[t] /\ slot'[t] = slot[t] /\ statusTopic'[t] = statusTopic[t]
    BY Zenon, <1>8 DEF Touches
  <2>2. (Untouched(t)' <=> Untouched(t)) /\ (Terminal(t)' <=> Terminal(t))
    BY Zenon, <1>1, <2>1 DEF Untouched, Terminal
  <2>3. \A stages : Has(t, stages)' <=> Has(t, stages)
    BY Zenon, <1>3, <1>8, HasOther
  <2>4. \A i \in Jobs : job[i].session = t => job'[i] = job[i]
    BY Zenon, <1>3, <1>8
  <2>5. Attended(t) => Attended(t)'
    BY Zenon, <1>1, <1>4, <2>1, <2>2, <2>4 DEF Attended
  <2> QED BY Zenon, <1>1, <1>2, <2>1, <2>2, <2>3, <2>5 DEF OnceOf
<1>9. OnceOf(s)'
  <2>1. runStatus[s] # "none" /\ runStatus'[s] = runStatus[s] /\ proc' # "recovering"
    BY Zenon, <1>1, <1>2, <1>6, <1>7 DEF OnceOf
  <2>2. Terminal(s)' => ~Has(s, (BeforeSlot \ {"precheck"}) \cup Deploying \cup AfterPublish)'
    <3> SUFFICES ASSUME Terminal(s)
                 PROVE  ~Has(s, (BeforeSlot \ {"precheck"}) \cup Deploying \cup AfterPublish)'
      BY Zenon, <1>1 DEF Terminal
    <3>1. ~Has(s, (BeforeSlot \ {"precheck"}) \cup Deploying \cup AfterPublish)
      BY Zenon, <1>2 DEF OnceOf
    <3>2. pc \notin (BeforeSlot \ {"precheck"}) \cup Deploying \cup AfterPublish
      BY Zenon, <1>2 DEF InOrder, Ending, BeforeSlot, Deploying, AfterPublish, Driving
    <3> QED BY Zenon, <1>3, <3>1, <3>2 DEF Has
  <2>3. \A i \in position + 1..Len(requests) : requests[i] # s
    BY <1>2, <1>6, <1>7 DEF Requested
  <2>4. ASSUME runStatus[s] = "open"
        PROVE  Attended(s)'
    <3>1. Attended(s)
      BY Zenon, <1>1, <1>2, <2>4 DEF OnceOf
    <3>2. loop.session # s /\ \A i \in Jobs : job[i].session = s => i = j
      BY Zenon, <3>1 DEF Attended
    <3>3. /\ job[j].pc \in BeforeSlot => specs[s] = 0 /\ slot[s] = NoBand /\ statusTopic[s] = <<>>
          /\ job[j].pc \in Deploying => specs[s] = 0 /\ statusTopic[s] = <<>>
          /\ job[j].pc \in AfterPublish => statusTopic[s] = <<>>
      BY Zenon, <3>1 DEF Attended, Untouched
    <3>4. /\ pc \in BeforeSlot => Untouched(s)'
          /\ pc \in Deploying => specs'[s] = 0 /\ statusTopic'[s] = <<>>
          /\ pc \in AfterPublish => statusTopic'[s] = <<>>
      BY Zenon, <1>2, <3>3 DEF InOrder, Untouched
    <3> QED BY Zenon, <1>1, <1>3, <1>4, <2>3, <3>2, <3>4 DEF Attended
  <2>5. specs'[s] <= 1
    BY Zenon, <1>2 DEF InOrder
  <2> QED BY Zenon, <2>1, <2>2, <2>4, <2>5 DEF OnceOf
<1> QED
  BY Zenon, <1>5, <1>8, <1>9

\* A session that was never touched stays so.
LEMMA FreshKept ==
    ASSUME Types, Owners, Fresh, NEW j \in Jobs, NEW pc, Moves(j, pc), NEW s \in Sessions, job[j].session = s,
           Touches(s),
           job[j].pc \notin IsTracked => slot' = slot /\ bandOf' = bandOf,
           SlotsFresh => (pc \in {"deploy"} \cup Driving => slot'[s] = bandOf'[s]),
           NoLeak /\ slot'[s] # NoBand => pc \in HoldsSlot \/ (slot'[s] = slot[s] /\ job[j].pc \notin HoldsSlot)
    PROVE  Fresh'
<1>1. /\ env' = env /\ proc' = proc /\ (SlotsFresh' <=> SlotsFresh) /\ (NoLeak' <=> NoLeak)
      /\ \A i \in Jobs : i # j => job'[i] = job[i]
      /\ job'[j].pc = pc /\ job'[j].session = s
  BY Zenon DEF Moves, SlotsFresh, SweptBeforeRedelivery, NoLeak
<1>2. ASSUME SlotsFresh, NEW i \in Jobs, job'[i].pc \in {"deploy"} \cup Driving
      PROVE  slot'[job'[i].session] = bandOf'[job'[i].session]
  <2>1. CASE i = j
    BY Zenon, <1>1, <1>2, <2>1
  <2>2. CASE i # j
    <3>1. job'[i] = job[i] /\ job[i].pc \in IsTracked /\ slot[job[i].session] = bandOf[job[i].session]
      BY Zenon, <1>1, <1>2, <2>2, StageSets DEF Fresh, IsTracked, HoldsParts, HoldsBand, HoldsSlot
    <3>2. job[i].session \in Sessions
      BY Zenon, <3>1, BusySession, StageSets
    <3>3. CASE job[i].session = s
      <4>1. job[j].pc \notin IsTracked
        BY Zenon, <2>2, <3>1, <3>3 DEF Owners
      <4> QED BY Zenon, <3>1, <4>1
    <3>4. CASE job[i].session # s
      BY Zenon, <3>1, <3>2, <3>4 DEF Touches
    <3> QED BY Zenon, <3>3, <3>4
  <2> QED BY Zenon, <2>1, <2>2
<1>3. ASSUME NoLeak, NEW t \in Sessions, slot'[t] # NoBand
      PROVE  Has(t, HoldsSlot)'
  <2>1. CASE t # s
    <3>1. slot[t] # NoBand
      BY Zenon, <1>3, <2>1 DEF Touches
    <3> QED BY Zenon, <1>1, <1>3, <2>1, <3>1, HasOther DEF Fresh
  <2>2. CASE t = s /\ pc \in HoldsSlot
    BY Zenon, <1>1, <2>2 DEF Has
  <2>3. CASE t = s /\ pc \notin HoldsSlot
    <3>1. slot[s] # NoBand /\ job[j].pc \notin HoldsSlot
      BY Zenon, <1>3, <2>3
    <3>2. Has(s, HoldsSlot)
      BY Zenon, <1>3, <3>1 DEF Fresh
    <3> QED BY Zenon, <1>1, <2>3, <3>1, <3>2, HasOwn
  <2> QED BY Zenon, <2>1, <2>2, <2>3
<1> QED
  BY Zenon, <1>1, <1>2, <1>3 DEF Fresh

-----------------------------------------------------------------------------
(* Run and runSession *)

\* The variables a goroutine never writes.
Around == Alive /\ UNCHANGED <<env, kafkaVars, runStatus, proc, loop, toRecover, disruptions>>

\* A change of a job's stage.
LEMMA GotoMoves ==
    ASSUME Types, NEW j \in Jobs, Around, job[j].pc # "idle", NEW pc \in Stages \ {"idle"}, Goto(j, pc), sem' = sem
    PROVE  Moves(j, pc)
<1>1. job \in [Jobs -> [pc : Stages, session : Sessions \cup {NoSession}, panicked : BOOLEAN]]
  BY Zenon DEF Types, TypeOK
<1>2. job' = [job EXCEPT ![j] = [job[j] EXCEPT !.pc = pc]]
  BY Zenon DEF Goto
<1>3. [job[j] EXCEPT !.pc = pc] \in [pc : Stages, session : Sessions \cup {NoSession}, panicked : BOOLEAN]
  BY Zenon, <1>1
<1>4. job' \in [Jobs -> [pc : Stages, session : Sessions \cup {NoSession}, panicked : BOOLEAN]]
  BY Zenon, <1>1, <1>2, <1>3
<1>5. /\ job'[j].pc = pc /\ job'[j].session = job[j].session
      /\ \A i \in Jobs : i # j => job'[i] = job[i]
  BY Zenon, <1>1, <1>2
<1> QED
  BY Zenon, <1>4, <1>5 DEF Moves, Around

\* What PublishStatus publishes.
LEMMA StatusFacts ==
    ASSUME Types, NEW s \in Sessions, NEW v \in {"completed", "failed"}, NEW e,
           PublishStatus(s, v, e) \/ statusTopic' = statusTopic
    PROVE  /\ statusTopic' \in [Sessions -> Seq({"completed", "failed"})]
           /\ \A t \in Sessions : t # s => statusTopic'[t] = statusTopic[t]
<1>1. statusTopic \in [Sessions -> Seq({"completed", "failed"})]
  BY Zenon DEF Types, TypeOK
<1>2. Append(statusTopic[s], v) \in Seq({"completed", "failed"})
  BY Zenon, <1>1, SeqAppend
<1>3. \/ statusTopic' = [statusTopic EXCEPT ![s] = Append(statusTopic[s], v)]
      \/ statusTopic' = statusTopic
  BY Zenon DEF PublishStatus
<1> QED
  BY Zenon, <1>1, <1>2, <1>3

\* What Fail publishes.
LEMMA FailFacts ==
    ASSUME Types, NEW s \in Sessions, Fail(s) \/ statusTopic' = statusTopic
    PROVE  /\ statusTopic' \in [Sessions -> Seq({"completed", "failed"})]
           /\ \A t \in Sessions : t # s => statusTopic'[t] = statusTopic[t]
  BY Zenon, StatusFacts DEF Fail

\* A session that is driven once is not terminal while it is in the inner stages.
LEMMA NotTerminal ==
    ASSUME Once, SweptBeforeRedelivery, NEW j \in Jobs, NEW s \in Sessions, job[j].session = s
    PROVE  /\ specs[s] <= 1
           /\ job[j].pc \in (BeforeSlot \ {"precheck"}) \cup Deploying \cup AfterPublish => ~Terminal(s)
  BY Zenon DEF Once, OnceOf, Has

\* The check of the run's status keeps the invariant.
LEMMA PrecheckStep ==
    ASSUME IInv, NEW j \in Jobs, Around, Precheck(j)
    PROVE  IInv'
<1>1. /\ job[j].pc = "precheck" /\ UNCHANGED <<slot, sem, tracked, bandOf, leaseVars, specs>>
      /\ Fail(job[j].session) \/ statusTopic' = statusTopic
  BY Zenon DEF Precheck
<1>2. PICK s \in Sessions : job[j].session = s
  BY Zenon, <1>1, BusySession DEF IInv
<1>3. PICK pc \in {"exit", "add"} : Goto(j, pc) /\ (pc = "add" => ~Terminal(s) /\ statusTopic' = statusTopic)
  BY Zenon, <1>2 DEF Precheck, Terminal
<1>4. Moves(j, pc)
  BY Zenon, <1>1, <1>3, GotoMoves DEF IInv, Stages
<1>5. Touches(s)
  BY Zenon, <1>1, <1>2, FailFacts DEF IInv, Types, TypeOK, Touches, leaseVars
<1>6. /\ job[j].pc \notin IsTracked /\ job'[j].pc \notin IsTracked
      /\ \A i \in Jobs : i # j => job'[i] = job[i]
  BY Zenon, <1>1, <1>4 DEF Moves, IsTracked, HoldsParts, HoldsBand, HoldsSlot, Driving
<1>7. Owners'
  BY Zenon, <1>1, <1>6, OwnersOutside DEF IInv, leaseVars
<1>8. SweptBeforeRedelivery => InOrder(j, s, pc)
  <2> SUFFICES ASSUME SweptBeforeRedelivery PROVE InOrder(j, s, pc)
    BY Zenon
  <2>1. specs[s] <= 1
    BY Zenon, <1>2, NotTerminal DEF IInv
  <2>2. pc \in BeforeSlot => pc = "add"
    BY Zenon DEF BeforeSlot
  <2> QED
    BY Zenon, <1>1, <1>3, <2>1, <2>2
    DEF InOrder, BeforeSlot, Deploying, AfterPublish, Driving, Ending
<1>9. Fresh'
  <2>1. pc \notin {"deploy"} \cup Driving /\ job[j].pc \notin HoldsSlot
    BY Zenon, <1>1 DEF Driving, HoldsSlot
  <2> QED BY Zenon, <1>1, <1>2, <1>4, <1>5, <2>1, FreshKept DEF IInv
<1> QED
  BY Zenon, <1>2, <1>4, <1>5, <1>7, <1>8, <1>9, TypesKept, SlotsKept, OnceKept DEF IInv

\* Tracking the session keeps the invariant.
LEMMA AddStep ==
    ASSUME IInv, NEW j \in Jobs, Around, Add(j)
    PROVE  IInv'
<1>1. /\ job[j].pc = "add" /\ UNCHANGED <<statusTopic, slot, sem, bandOf, leaseVars, specs>>
  BY Zenon DEF Add
<1>2. PICK s \in Sessions : job[j].session = s
  BY Zenon, <1>1, BusySession DEF IInv
<1>3. tracked' = tracked \cup {s} /\ Goto(j, IF s \in tracked THEN "exit" ELSE "lease")
  BY Zenon, <1>2 DEF Add
<1>4. PICK pc \in {"exit", "lease"} : Goto(j, pc) /\ (pc = "exit" <=> s \in tracked)
  BY Zenon, <1>3
<1>5. Moves(j, pc)
  BY Zenon, <1>1, <1>4, GotoMoves DEF IInv, Stages, IsTracked
<1>6. Touches(s)
  BY Zenon, <1>1, <1>3 DEF IInv, Types, TypeOK, Touches, leaseVars
<1>7. /\ job[j].pc \notin IsTracked /\ "exit" \notin IsTracked
      /\ \A i \in Jobs : i # j => job'[i] = job[i]
  BY Zenon, <1>1, <1>5 DEF Moves, IsTracked, HoldsParts, HoldsBand, HoldsSlot, Driving
<1>8. Owners'
  <2>1. CASE pc = "exit"
    <3>1. tracked' = tracked /\ UNCHANGED call /\ job'[j].pc = "exit"
      BY Zenon, <1>1, <1>3, <1>4, <1>5, <2>1 DEF leaseVars, Moves
    <3> QED BY Zenon, <1>1, <1>7, <3>1, OwnersOutside DEF IInv
  <2>2. CASE pc = "lease"
    <3>1. s \notin tracked /\ s \in tracked' /\ UNCHANGED call
      BY Zenon, <1>1, <1>3, <1>4, <2>2 DEF leaseVars
    <3> QED BY Zenon, <1>1, <1>2, <1>5, <1>6, <1>7, <2>2, <3>1, OwnersAdd DEF IInv
  <2> QED BY Zenon, <2>1, <2>2
<1>9. SweptBeforeRedelivery => InOrder(j, s, pc)
  <2> SUFFICES ASSUME SweptBeforeRedelivery PROVE InOrder(j, s, pc)
    BY Zenon
  <2>1. specs[s] <= 1 /\ ~Terminal(s)
    BY Zenon, <1>1, <1>2, NotTerminal DEF IInv, BeforeSlot
  <2> QED BY Zenon, <1>1, <2>1 DEF InOrder, BeforeSlot, Deploying, AfterPublish, Driving, Ending
<1>10. Fresh'
  <2>1. pc \notin {"deploy"} \cup Driving /\ job[j].pc \notin HoldsSlot
    BY Zenon, <1>1 DEF Driving, HoldsSlot
  <2> QED BY Zenon, <1>1, <1>2, <1>5, <1>6, <2>1, FreshKept DEF IInv
<1> QED
  BY Zenon, <1>2, <1>5, <1>6, <1>8, <1>9, <1>10, TypesKept, SlotsKept, OnceKept DEF IInv

\* What the tracked goroutine's stage says of what the session holds.
LEMMA OwnStage ==
    ASSUME Types, Owners, NEW j \in Jobs, job[j].pc \in IsTracked, NEW s \in Sessions, job[j].session = s
    PROVE  /\ s \in tracked
           /\ call[s] = "held" <=> job[j].pc \in HoldsParts
           /\ call[s] \in {"waiting", "undoing"} <=> job[j].pc = "parked"
           /\ bandOf[s] # NoBand <=> job[j].pc \in HoldsBand
           /\ call[s] \in {"idle", "waiting", "undoing", "held"}
<1>1. /\ Has(s, IsTracked) <=> job[j].pc \in IsTracked
      /\ Has(s, HoldsParts) <=> job[j].pc \in HoldsParts
      /\ Has(s, {"parked"}) <=> job[j].pc \in {"parked"}
      /\ Has(s, HoldsBand) <=> job[j].pc \in HoldsBand
  BY Zenon, StageSets, HasSole
<1> QED
  BY Zenon, <1>1 DEF Owners, Types

\* A tracked goroutine's step outside the stages with a slot.
LEMMA TrackedStep ==
    ASSUME IInv, NEW j \in Jobs, job[j].pc \in IsTracked \ HoldsSlot, NEW pc \in IsTracked \ HoldsSlot, Moves(j, pc),
           NEW s \in Sessions, job[j].session = s, Touches(s), UNCHANGED <<tracked, slot, specs>>,
           call'[s] = "held" <=> pc \in HoldsParts,
           call'[s] \in {"waiting", "undoing"} <=> pc = "parked",
           bandOf'[s] # NoBand <=> pc \in HoldsBand,
           bandOf'[s] # NoBand => \A t \in Sessions : t # s => bandOf[t] # bandOf'[s],
           pc \in BeforeSlot => job[j].pc \in BeforeSlot \ {"precheck"} /\ UNCHANGED statusTopic,
           pc \in BeforeSlot \/ pc \in Ending
    PROVE  IInv'
<1>1. Owners'
  BY Zenon, OwnersInside DEF IInv
<1>2. SweptBeforeRedelivery => InOrder(j, s, pc)
  <2> SUFFICES ASSUME SweptBeforeRedelivery PROVE InOrder(j, s, pc)
    BY Zenon
  <2>1. specs[s] <= 1 /\ (pc \in BeforeSlot => ~Terminal(s))
    BY Zenon, NotTerminal DEF IInv
  <2>2. pc \notin Deploying \cup AfterPublish
    BY Zenon DEF Deploying, AfterPublish, Driving, BeforeSlot, Ending
  <2> QED BY Zenon, <2>1, <2>2 DEF InOrder
<1>3. Fresh'
  <2>1. pc \notin {"deploy"} \cup Driving
    BY Zenon DEF HoldsSlot
  <2> QED BY Zenon, <2>1, FreshKept DEF IInv
<1> QED
  BY Zenon, <1>1, <1>2, <1>3, TypesKept, SlotsKept, OnceKept DEF IInv

\* A step of a goroutine with a slot, which keeps it.
LEMMA SlotStep ==
    ASSUME IInv, NEW j \in Jobs, job[j].pc \in {"deploy"} \cup Driving, NEW pc \in HoldsSlot, Moves(j, pc),
           NEW s \in Sessions, job[j].session = s, Touches(s), UNCHANGED <<tracked, call, bandOf, slot>>,
           SweptBeforeRedelivery => InOrder(j, s, pc)
    PROVE  IInv'
<1>1. /\ job[j].pc \in HoldsSlot /\ job[j].pc \in IsTracked /\ job[j].pc \in HoldsParts /\ job[j].pc \in HoldsBand
      /\ pc \in IsTracked /\ pc \in HoldsParts /\ pc \in HoldsBand /\ pc # "parked" /\ job[j].pc # "parked"
  BY Zenon DEF IsTracked, HoldsParts, HoldsBand, HoldsSlot, Driving
<1>2. Owners'
  <2>1. call[s] = "held" /\ call[s] \notin {"waiting", "undoing"} /\ bandOf[s] # NoBand
    BY Zenon, <1>1, OwnStage DEF IInv
  <2>2. \A t \in Sessions : t # s => bandOf[t] # bandOf[s]
    BY Zenon, <2>1 DEF IInv, Owners
  <2> QED BY Zenon, <1>1, <2>1, <2>2, OwnersInside DEF IInv
<1>3. Fresh'
  <2>1. SlotsFresh => slot[s] = bandOf[s]
    BY Zenon DEF IInv, Fresh
  <2> QED BY Zenon, <1>1, <2>1, FreshKept DEF IInv
<1> QED
  BY Zenon, <1>2, <1>3, TypesKept, SlotsKept, OnceKept DEF IInv

\* Asking for partitions keeps the invariant.
LEMMA AcquirePartitionsStep ==
    ASSUME IInv, NEW j \in Jobs, Around, AcquirePartitions(j)
    PROVE  IInv'
<1>1. job[j].pc = "lease" /\ UNCHANGED <<slot, sem, tracked, bandOf, specs>>
  BY Zenon DEF AcquirePartitions
<1>2. PICK s \in Sessions : job[j].session = s
  BY Zenon, <1>1, BusySession DEF IInv
<1>3. /\ job[j].pc \in IsTracked \ HoldsSlot /\ job[j].pc \in BeforeSlot \ {"precheck"}
      /\ job[j].pc \notin HoldsParts /\ job[j].pc \notin HoldsBand
  BY Zenon, <1>1 DEF IsTracked, HoldsParts, HoldsBand, HoldsSlot, Driving, BeforeSlot
<1>4. call[s] = "idle" /\ bandOf[s] = NoBand
  BY Zenon, <1>1, <1>2, <1>3, OwnStage DEF IInv
<1>5. PICK pc \in {"drop", "band", "parked"} :
        /\ Goto(j, pc)
        /\ pc = "drop" => call' = call /\ Fail(s)
        /\ pc = "band" => call' = [call EXCEPT ![s] = "held"] /\ statusTopic' = statusTopic
        /\ pc = "parked" => call' = [call EXCEPT ![s] = "waiting"] /\ statusTopic' = statusTopic
  BY Zenon, <1>2 DEF AcquirePartitions, Leases!AcquireFast, Leases!AcquireEnqueue, leaseVars
<1>6. /\ pc \in IsTracked \ HoldsSlot /\ pc \notin HoldsBand /\ (pc \in HoldsParts <=> pc = "band")
      /\ (pc \in BeforeSlot \/ pc \in Ending) /\ (pc \in BeforeSlot => pc # "drop")
      /\ pc \in Stages \ {"idle"}
  BY Zenon DEF IsTracked, HoldsParts, HoldsBand, HoldsSlot, Driving, BeforeSlot, Ending, Stages
<1>7. Moves(j, pc)
  BY Zenon, <1>1, <1>5, <1>6, GotoMoves DEF IInv
<1>8. call \in [Sessions -> {"idle", "waiting", "undoing", "held"}]
  BY Zenon DEF IInv, Types
<1>9. Touches(s)
  <2>1. /\ statusTopic' \in [Sessions -> Seq({"completed", "failed"})]
        /\ \A t \in Sessions : t # s => statusTopic'[t] = statusTopic[t]
    BY Zenon, <1>5, FailFacts DEF IInv
  <2>2. /\ call' \in [Sessions -> {"idle", "waiting", "undoing", "held"}]
        /\ \A t \in Sessions : t # s => call'[t] = call[t]
    BY Zenon, <1>5, <1>8
  <2> QED BY Zenon, <1>1, <2>1, <2>2 DEF IInv, Types, TypeOK, Touches
<1>10. call'[s] = (CASE pc = "drop" -> "idle" [] pc = "band" -> "held" [] pc = "parked" -> "waiting")
  BY Zenon, <1>4, <1>5, <1>8
<1>11. (call'[s] = "held" <=> pc \in HoldsParts) /\ (call'[s] \in {"waiting", "undoing"} <=> pc = "parked")
  BY Zenon, <1>6, <1>10
<1>12. bandOf'[s] = NoBand
  BY Zenon, <1>1, <1>4
<1>13. pc \in BeforeSlot => UNCHANGED statusTopic
  BY Zenon, <1>5, <1>6
<1> QED
  BY <1>1, <1>2, <1>3, <1>6, <1>7, <1>9, <1>11, <1>12, <1>13, TrackedStep, Zenon

\* Waiting for partitions keeps the invariant.
LEMMA LeaseWaitStep ==
    ASSUME IInv, NEW j \in Jobs, Around, LeaseWait(j)
    PROVE  IInv'
<1>1. job[j].pc = "parked" /\ UNCHANGED <<slot, sem, tracked, bandOf, specs>>
  BY Zenon DEF LeaseWait
<1>2. PICK s \in Sessions : job[j].session = s
  BY Zenon, <1>1, BusySession DEF IInv
<1>3. /\ job[j].pc \in IsTracked \ HoldsSlot /\ job[j].pc \in BeforeSlot \ {"precheck"}
      /\ job[j].pc \notin HoldsParts /\ job[j].pc \notin HoldsBand /\ job[j].pc \in Stages \ {"idle"}
  BY Zenon, <1>1 DEF IsTracked, HoldsParts, HoldsBand, HoldsSlot, Driving, BeforeSlot, Stages
<1>4. bandOf[s] = NoBand
  BY Zenon, <1>1, <1>2, <1>3, OwnStage DEF IInv
<1>5. PICK pc \in {"drop", "band", "parked"} :
        /\ Goto(j, pc) \/ (pc = "parked" /\ job' = job)
        /\ pc = "drop" => call' = [call EXCEPT ![s] = "idle"] /\ Fail(s)
        /\ pc = "band" => call' = [call EXCEPT ![s] = "held"] /\ statusTopic' = statusTopic
        /\ pc = "parked" => call' = [call EXCEPT ![s] = "undoing"] /\ statusTopic' = statusTopic
  BY Zenon, <1>2
  DEF LeaseWait, Leases!ReceiveGrant, Leases!CancelQueued, Leases!CancelGranted, Leases!UndoGrant
<1>6. /\ pc \in IsTracked \ HoldsSlot /\ pc \notin HoldsBand /\ (pc \in HoldsParts <=> pc = "band")
      /\ (pc \in BeforeSlot \/ pc \in Ending) /\ (pc \in BeforeSlot => pc # "drop")
      /\ pc \in Stages \ {"idle"}
  BY Zenon DEF IsTracked, HoldsParts, HoldsBand, HoldsSlot, Driving, BeforeSlot, Ending, Stages
<1>7. Moves(j, pc)
  <2>1. CASE Goto(j, pc)
    BY Zenon, <1>1, <1>6, <2>1, GotoMoves DEF IInv
  <2>2. CASE pc = "parked" /\ job' = job
    BY Zenon, <1>1, <1>6, <2>2 DEF IInv, Types, TypeOK, Moves, Around
  <2> QED BY Zenon, <1>5, <2>1, <2>2
<1>8. call \in [Sessions -> {"idle", "waiting", "undoing", "held"}]
  BY Zenon DEF IInv, Types
<1>9. Touches(s)
  <2>1. /\ statusTopic' \in [Sessions -> Seq({"completed", "failed"})]
        /\ \A t \in Sessions : t # s => statusTopic'[t] = statusTopic[t]
    BY Zenon, <1>5, FailFacts DEF IInv
  <2>2. /\ call' \in [Sessions -> {"idle", "waiting", "undoing", "held"}]
        /\ \A t \in Sessions : t # s => call'[t] = call[t]
    BY Zenon, <1>5, <1>8
  <2> QED BY Zenon, <1>1, <2>1, <2>2 DEF IInv, Types, TypeOK, Touches
<1>10. call'[s] = (CASE pc = "drop" -> "idle" [] pc = "band" -> "held" [] pc = "parked" -> "undoing")
  BY Zenon, <1>5, <1>8
<1>11. (call'[s] = "held" <=> pc \in HoldsParts) /\ (call'[s] \in {"waiting", "undoing"} <=> pc = "parked")
  BY Zenon, <1>6, <1>10
<1>12. bandOf'[s] = NoBand
  BY Zenon, <1>1, <1>4
<1>13. pc \in BeforeSlot => UNCHANGED statusTopic
  BY Zenon, <1>5, <1>6
<1> QED
  BY <1>1, <1>2, <1>3, <1>6, <1>7, <1>9, <1>11, <1>12, <1>13, TrackedStep, Zenon

\* Taking a band keeps the invariant.
LEMMA AcquireBandStep ==
    ASSUME IInv, NEW j \in Jobs, Around, AcquireBand(j)
    PROVE  IInv'
<1>1. job[j].pc = "band" /\ UNCHANGED <<statusTopic, slot, sem, tracked, leaseVars, specs>> /\ Goto(j, "create")
  BY Zenon DEF AcquireBand
<1>2. PICK s \in Sessions : job[j].session = s
  BY Zenon, <1>1, BusySession DEF IInv
<1>3. /\ {"band", "create"} \subseteq IsTracked \ HoldsSlot /\ {"band", "create"} \subseteq BeforeSlot \ {"precheck"}
      /\ "create" \in HoldsBand /\ {"band", "create"} \subseteq HoldsParts /\ "create" \in Stages \ {"idle"}
  BY Zenon DEF IsTracked, HoldsParts, HoldsBand, HoldsSlot, Driving, BeforeSlot, Stages
<1>4. PICK b \in FreeBands : bandOf' = [bandOf EXCEPT ![s] = b]
  BY Zenon, <1>2 DEF AcquireBand
<1>5. b \in Bands /\ b # NoBand /\ \A t \in Sessions : bandOf[t] # b
  BY Zenon, NullsApart DEF FreeBands
<1>6. bandOf \in [Sessions -> Bands \cup {NoBand}]
  BY Zenon DEF IInv, Types, TypeOK
<1>7. /\ bandOf' \in [Sessions -> Bands \cup {NoBand}] /\ bandOf'[s] = b
      /\ \A t \in Sessions : t # s => bandOf'[t] = bandOf[t]
  BY Zenon, <1>4, <1>5, <1>6
<1>8. Moves(j, "create")
  BY Zenon, <1>1, <1>3, GotoMoves DEF IInv
<1>9. call' = call
  BY Zenon, <1>1 DEF leaseVars
<1>10. Touches(s)
  BY Zenon, <1>1, <1>7, <1>9 DEF IInv, Types, TypeOK, Touches
<1>11. call'[s] = "held" /\ call'[s] \notin {"waiting", "undoing"}
  BY Zenon, <1>1, <1>2, <1>3, <1>9, OwnStage DEF IInv
<1>12. bandOf'[s] # NoBand /\ \A t \in Sessions : t # s => bandOf[t] # bandOf'[s]
  BY Zenon, <1>5, <1>7
<1>13. job[j].pc \in IsTracked \ HoldsSlot /\ job[j].pc \in BeforeSlot \ {"precheck"} /\ "create" # "parked"
  BY Zenon, <1>1, <1>3
<1>14. UNCHANGED <<tracked, slot, specs>> /\ UNCHANGED statusTopic
  BY Zenon, <1>1
<1> QED
  BY Zenon, <1>2, <1>3, <1>8, <1>10, <1>11, <1>12, <1>13, <1>14, TrackedStep

\* A session that comes to CreateSlot has no slot.
LEMMA NoSlotYet ==
    ASSUME IInv, SlotsFresh, NEW j \in Jobs, Alive, job[j].pc = "create", NEW s \in Sessions, job[j].session = s
    PROVE  slot[s] = NoBand
<1>1. CASE SweptBeforeRedelivery
  <2>1. Requested /\ OnceOf(s) /\ ~Terminal(s)
    BY Zenon, <1>1, NotTerminal DEF IInv, Once, BeforeSlot
  <2>2. runStatus[s] # "none"
    <3>1. PICK i \in 1..position : requests[i] = s
      BY Zenon, <2>1 DEF Requested
    <3>2. i \in 1..Len(requests)
      BY SeqLen DEF IInv, Types, TypeOK
    <3> QED BY Zenon, <2>1, <3>1, <3>2 DEF OnceOf
  <2>3. runStatus[s] = "open"
    BY Zenon, <2>1, <2>2 DEF Terminal, IInv, Types, TypeOK
  <2>4. Attended(s)
    BY Zenon, <2>1, <2>3 DEF OnceOf
  <2> QED BY Zenon, <2>4 DEF Attended, BeforeSlot, Untouched
<1>2. CASE NoLeak
  <2>1. "create" \in IsTracked /\ "create" \notin HoldsSlot
    BY Zenon DEF IsTracked, HoldsParts, HoldsBand, HoldsSlot, Driving
  <2>2. ~Has(s, HoldsSlot)
    <3>1. HoldsSlot \subseteq IsTracked
      BY Zenon, StageSets
    <3> QED BY Zenon, <2>1, <3>1, HasSole DEF IInv
  <2> QED BY Zenon, <1>2, <2>2 DEF IInv, Fresh
<1> QED
  BY Zenon, <1>1, <1>2 DEF SlotsFresh, NoLeak

\* Creating the sandbox slot keeps the invariant.
LEMMA CreateSlotStep ==
    ASSUME IInv, NEW j \in Jobs, Around, CreateSlot(j)
    PROVE  IInv'
<1>1. job[j].pc = "create" /\ UNCHANGED <<sem, tracked, bandOf, leaseVars, specs>>
  BY Zenon DEF CreateSlot
<1>2. PICK s \in Sessions : job[j].session = s
  BY Zenon, <1>1, BusySession DEF IInv
<1> DEFINE created == [slot EXCEPT ![s] = IF slot[s] = NoBand THEN bandOf[s] ELSE slot[s]]
<1>3. PICK pc \in {"deploy", "releaseBand"} :
        /\ Goto(j, pc) /\ slot' \in {slot, created}
        /\ pc = "deploy" => slot' = created /\ statusTopic' = statusTopic
        /\ pc = "releaseBand" => Fail(s) /\ (slot' = slot \/ Errs("orchestrator"))
  BY Zenon, <1>2 DEF CreateSlot
<1>4. /\ {"create", "deploy", "releaseBand"} \subseteq IsTracked
      /\ {"create", "deploy", "releaseBand"} \subseteq HoldsParts
      /\ {"create", "deploy", "releaseBand"} \subseteq HoldsBand
      /\ "deploy" \in HoldsSlot /\ {"create", "releaseBand"} \cap HoldsSlot = {}
      /\ "create" \in BeforeSlot \ {"precheck"} /\ "deploy" \in Deploying /\ "releaseBand" \in Ending
      /\ pc \in Stages \ {"idle"}
  BY
  DEF IsTracked, HoldsParts, HoldsBand, HoldsSlot, Driving, BeforeSlot, Deploying, Ending, Stages
<1>5. bandOf \in [Sessions -> Bands \cup {NoBand}] /\ slot \in [Sessions -> Bands \cup {NoBand}]
  BY Zenon DEF IInv, Types, TypeOK
<1>6. /\ slot' \in [Sessions -> Bands \cup {NoBand}]
      /\ \A t \in Sessions : t # s => slot'[t] = slot[t]
  BY Zenon, <1>3, <1>5
<1>7. SlotsFresh /\ pc = "deploy" => slot'[s] = bandOf[s]
  BY Zenon, <1>1, <1>2, <1>3, <1>5, NoSlotYet DEF Around
<1>8. Moves(j, pc)
  BY Zenon, <1>1, <1>3, <1>4, GotoMoves DEF IInv
<1>9. call' = call /\ bandOf' = bandOf
  BY Zenon, <1>1 DEF leaseVars
<1>10. Touches(s)
  <2>1. /\ statusTopic' \in [Sessions -> Seq({"completed", "failed"})]
        /\ \A t \in Sessions : t # s => statusTopic'[t] = statusTopic[t]
    BY Zenon, <1>3, FailFacts DEF IInv
  <2> QED BY Zenon, <1>1, <1>6, <1>9, <2>1 DEF IInv, Types, TypeOK, Touches
<1>11. Owners'
  <2>1. call[s] = "held" /\ call[s] \notin {"waiting", "undoing"} /\ bandOf[s] # NoBand
    BY Zenon, <1>1, <1>2, <1>4, OwnStage DEF IInv
  <2>2. \A t \in Sessions : t # s => bandOf[t] # bandOf[s]
    BY Zenon, <2>1 DEF IInv, Owners
  <2>3. job[j].pc \in IsTracked /\ pc \in IsTracked /\ pc \in HoldsParts /\ pc \in HoldsBand /\ pc # "parked"
    BY Zenon, <1>1, <1>4
  <2> QED BY Zenon, <1>1, <1>2, <1>8, <1>9, <1>10, <2>1, <2>2, <2>3, OwnersInside DEF IInv
<1>12. SweptBeforeRedelivery => InOrder(j, s, pc)
  <2> SUFFICES ASSUME SweptBeforeRedelivery PROVE InOrder(j, s, pc)
    BY Zenon
  <2>1. specs[s] <= 1 /\ ~Terminal(s)
    BY Zenon, <1>1, <1>2, <1>4, NotTerminal DEF IInv
  <2>2. pc \notin BeforeSlot \cup AfterPublish /\ (pc \in Deploying => pc = "deploy")
    BY Zenon DEF Deploying, AfterPublish, Driving, BeforeSlot
  <2> QED BY Zenon, <1>1, <1>3, <1>4, <2>1, <2>2 DEF InOrder
<1>13. Fresh'
  <2>1. pc \in {"deploy"} \cup Driving => pc = "deploy"
    BY Zenon DEF Driving
  <2>2. NoLeak /\ slot'[s] # NoBand =>
            pc \in HoldsSlot \/ (slot'[s] = slot[s] /\ job[j].pc \notin HoldsSlot)
    <3> SUFFICES ASSUME NoLeak, pc = "releaseBand"
                 PROVE  slot'[s] = slot[s] /\ job[j].pc \notin HoldsSlot
      BY Zenon, <1>4
    <3>1. ~Errs("orchestrator")
      BY Zenon DEF IInv, Fresh, NoLeak, Errs
    <3> QED BY Zenon, <1>1, <1>3, <1>4, <3>1
  <2>3. job[j].pc \in IsTracked
    BY Zenon, <1>1, <1>4
  <2>4. SlotsFresh => (pc \in {"deploy"} \cup Driving => slot'[s] = bandOf'[s])
    BY Zenon, <1>7, <1>9, <2>1
  <2> QED BY Zenon, <1>2, <1>8, <1>10, <2>2, <2>3, <2>4, FreshKept DEF IInv
<1> QED
  BY Zenon, <1>2, <1>8, <1>10, <1>11, <1>12, <1>13, TypesKept, SlotsKept, OnceKept DEF IInv

\* A stage with a slot goes on, or to the deferred calls.
LEMMA StageStep ==
    ASSUME IInv, NEW j \in Jobs, job[j].pc \in {"deploy"} \cup Driving, NEW pc, Moves(j, pc),
           NEW s \in Sessions, job[j].session = s, UNCHANGED <<slot, tracked, bandOf, leaseVars, specs>>,
           statusTopic' \in [Sessions -> Seq({"completed", "failed"})],
           \A t \in Sessions : t # s => statusTopic'[t] = statusTopic[t],
           \/ pc = "deleteSlot"
           \/ <<job[j].pc, pc>> \in {<<"deploy", "publish">>, <<"fanin", "barrier">>, <<"barrier", "firing">>}
              /\ UNCHANGED statusTopic
    PROVE  IInv'
<1>1. pc \in HoldsSlot
  BY Zenon DEF HoldsSlot, Driving
<1>2. call' = call /\ Touches(s)
  BY Zenon DEF leaseVars, IInv, Types, TypeOK, Touches
<1>3. SweptBeforeRedelivery => InOrder(j, s, pc)
  <2> SUFFICES ASSUME SweptBeforeRedelivery PROVE InOrder(j, s, pc)
    BY Zenon
  <2>1. job[j].pc \in Deploying \cup AfterPublish
    BY Zenon DEF Deploying, AfterPublish, Driving
  <2>2. specs[s] <= 1 /\ ~Terminal(s)
    BY Zenon, <2>1, NotTerminal DEF IInv
  <2>3. CASE pc = "deleteSlot"
    BY Zenon, <2>2, <2>3 DEF InOrder, BeforeSlot, Deploying, AfterPublish, Driving
  <2>4. CASE pc # "deleteSlot"
    BY Zenon, <2>2, <2>4 DEF InOrder, BeforeSlot, Deploying, AfterPublish, Driving
  <2> QED BY Zenon, <2>3, <2>4
<1> QED
  BY Zenon, <1>1, <1>2, <1>3, SlotStep

\* A stage that fails keeps the invariant.
LEMMA StageFailsStep ==
    ASSUME IInv, NEW j \in Jobs, Around, StageFails(j)
    PROVE  IInv'
<1>1. /\ job[j].pc \in {"deploy"} \cup Driving /\ Goto(j, "deleteSlot") /\ Fail(job[j].session)
      /\ UNCHANGED <<slot, sem, tracked, bandOf, leaseVars, specs>>
  BY Zenon DEF StageFails, Driving
<1>2. job[j].pc # "idle" /\ "deleteSlot" \in Stages \ {"idle"}
  BY Zenon, <1>1 DEF Driving, Stages, IsTracked, HoldsParts, HoldsBand, HoldsSlot
<1>3. PICK s \in Sessions : job[j].session = s
  BY Zenon, <1>2, BusySession DEF IInv
<1>4. Moves(j, "deleteSlot")
  BY Zenon, <1>1, <1>2, GotoMoves DEF IInv
<1>5. /\ statusTopic' \in [Sessions -> Seq({"completed", "failed"})]
      /\ \A t \in Sessions : t # s => statusTopic'[t] = statusTopic[t]
  BY Zenon, <1>1, <1>3, FailFacts DEF IInv
<1> QED
  BY Zenon, <1>1, <1>3, <1>4, <1>5, StageStep

\* A stage that succeeds keeps the invariant.
LEMMA StageSucceedsStep ==
    ASSUME IInv, NEW j \in Jobs, Around, StageSucceeds(j)
    PROVE  IInv'
<1>1. /\ job[j].pc \in {"deploy", "fanin", "barrier"}
      /\ UNCHANGED <<statusTopic, slot, sem, tracked, bandOf, leaseVars, specs>>
  BY Zenon DEF StageSucceeds
<1>2. PICK pc \in {"publish", "barrier", "firing"} :
        Goto(j, pc) /\ <<job[j].pc, pc>> \in {<<"deploy", "publish">>, <<"fanin", "barrier">>, <<"barrier", "firing">>}
  BY Zenon DEF StageSucceeds
<1>3. job[j].pc # "idle" /\ pc \in Stages \ {"idle"} /\ job[j].pc \in {"deploy"} \cup Driving
  BY Zenon, <1>1 DEF Driving, Stages, IsTracked, HoldsParts, HoldsBand, HoldsSlot
<1>4. PICK s \in Sessions : job[j].session = s
  BY Zenon, <1>3, BusySession DEF IInv
<1>5. Moves(j, pc)
  BY Zenon, <1>1, <1>2, <1>3, GotoMoves DEF IInv
<1>6. statusTopic' \in [Sessions -> Seq({"completed", "failed"})]
  BY Zenon, <1>1 DEF IInv, Types, TypeOK
<1> QED
  BY Zenon, <1>1, <1>2, <1>3, <1>4, <1>5, <1>6, StageStep

\* The end of a session keeps the invariant.
LEMMA CompleteStep ==
    ASSUME IInv, NEW j \in Jobs, Around, Complete(j)
    PROVE  IInv'
<1>1. /\ job[j].pc \in {"deploy"} \cup Driving /\ Goto(j, "deleteSlot")
      /\ PublishStatus(job[j].session, "completed", Errs("publish"))
      /\ UNCHANGED <<slot, sem, tracked, bandOf, leaseVars, specs>>
  BY Zenon DEF Complete, Driving
<1>2. job[j].pc # "idle" /\ "deleteSlot" \in Stages \ {"idle"}
  BY Zenon, <1>1 DEF Driving, Stages, IsTracked, HoldsParts, HoldsBand, HoldsSlot
<1>3. PICK s \in Sessions : job[j].session = s
  BY Zenon, <1>2, BusySession DEF IInv
<1>4. Moves(j, "deleteSlot")
  BY Zenon, <1>1, <1>2, GotoMoves DEF IInv
<1>5. /\ statusTopic' \in [Sessions -> Seq({"completed", "failed"})]
      /\ \A t \in Sessions : t # s => statusTopic'[t] = statusTopic[t]
  BY Zenon, <1>1, <1>3, StatusFacts DEF IInv
<1> QED
  BY Zenon, <1>1, <1>3, <1>4, <1>5, StageStep

\* Publishing the worker specs keeps the invariant.
LEMMA PublishSpecsStep ==
    ASSUME IInv, NEW j \in Jobs, Around, PublishSpecs(j)
    PROVE  IInv'
<1>1. job[j].pc = "publish" /\ UNCHANGED <<slot, sem, tracked, bandOf, leaseVars>>
  BY Zenon DEF PublishSpecs
<1>2. PICK s \in Sessions : job[j].session = s
  BY Zenon, <1>1, BusySession DEF IInv
<1>3. PICK pc \in {"fanin", "deleteSlot"} :
        /\ Goto(j, pc) /\ (pc = "fanin" => statusTopic' = statusTopic)
        /\ Fail(s) \/ statusTopic' = statusTopic
  BY Zenon, <1>2 DEF PublishSpecs
<1>4. specs' = [specs EXCEPT ![s] = specs[s] + 1]
  BY Zenon, <1>2 DEF PublishSpecs
<1>5. specs \in [Sessions -> Nat]
  BY Zenon DEF IInv, Types, TypeOK
<1>6. specs' \in [Sessions -> Nat] /\ specs'[s] = specs[s] + 1 /\ \A t \in Sessions : t # s => specs'[t] = specs[t]
  BY <1>4, <1>5
<1>7. pc \in Stages \ {"idle"} /\ job[j].pc \in {"deploy"} \cup Driving /\ pc \in HoldsSlot
  BY Zenon, <1>1 DEF Driving, Stages, IsTracked, HoldsParts, HoldsBand, HoldsSlot
<1>8. Moves(j, pc)
  BY Zenon, <1>1, <1>3, <1>7, GotoMoves DEF IInv
<1>9. call' = call /\ Touches(s)
  <2>1. /\ statusTopic' \in [Sessions -> Seq({"completed", "failed"})]
        /\ \A t \in Sessions : t # s => statusTopic'[t] = statusTopic[t]
    BY Zenon, <1>3, FailFacts DEF IInv
  <2> QED BY Zenon, <1>1, <1>6, <2>1 DEF leaseVars, IInv, Types, TypeOK, Touches
<1>10. SweptBeforeRedelivery => InOrder(j, s, pc)
  <2> SUFFICES ASSUME SweptBeforeRedelivery PROVE InOrder(j, s, pc)
    BY Zenon
  <2>1. Requested /\ OnceOf(s) /\ ~Terminal(s)
    BY Zenon, <1>1, <1>2, NotTerminal DEF IInv, Once, Deploying
  <2>2. runStatus[s] # "none"
    <3>1. PICK i \in 1..position : requests[i] = s
      BY Zenon, <1>1, <1>2, <2>1 DEF Requested
    <3>2. i \in 1..Len(requests)
      BY SeqLen DEF IInv, Types, TypeOK
    <3> QED BY Zenon, <2>1, <3>1, <3>2 DEF OnceOf
  <2>3. runStatus[s] = "open"
    BY Zenon, <2>1, <2>2 DEF Terminal, IInv, Types, TypeOK
  <2>4. Attended(s)
    BY Zenon, <2>1, <2>3 DEF OnceOf, Around
  <2>5. specs[s] = 0
    BY Zenon, <1>1, <1>2, <2>4 DEF Attended, Deploying
  <2>6. specs'[s] <= 1 /\ pc \notin BeforeSlot \cup Deploying /\ job[j].pc \in Deploying
    BY <1>1, <1>6, <2>5 DEF BeforeSlot, Deploying
  <2>7. pc \in AfterPublish => pc = "fanin"
    BY Zenon DEF AfterPublish, Driving
  <2> QED BY Zenon, <1>3, <2>1, <2>6, <2>7 DEF InOrder
<1> QED
  BY Zenon, <1>1, <1>2, <1>7, <1>8, <1>9, <1>10, SlotStep

\* A panic keeps the invariant.
LEMMA PanicStep ==
    ASSUME IInv, NEW j \in Jobs, Around, Panic(j)
    PROVE  IInv'
<1>1. /\ job[j].pc \in {"create", "deploy"} \cup Driving
      /\ UNCHANGED <<statusTopic, slot, sem, tracked, bandOf, leaseVars, specs>>
  BY Zenon DEF Panic
<1> DEFINE pc == IF job[j].pc = "create" THEN "releaseBand" ELSE "deleteSlot"
<1>2. job' = [job EXCEPT ![j] = [job[j] EXCEPT !.panicked = TRUE, !.pc = pc]]
  BY Zenon DEF Panic
<1>3. job \in [Jobs -> [pc : Stages, session : Sessions \cup {NoSession}, panicked : BOOLEAN]]
  BY Zenon DEF IInv, Types, TypeOK
<1>4. job[j].pc # "idle" /\ pc \in Stages \ {"idle"}
  BY Zenon, <1>1 DEF Driving, Stages, IsTracked, HoldsParts, HoldsBand, HoldsSlot
<1>5. PICK s \in Sessions : job[j].session = s
  BY Zenon, <1>4, BusySession DEF IInv
<1>6. Moves(j, pc)
  <2>1. [job[j] EXCEPT !.panicked = TRUE, !.pc = pc]
            \in [pc : Stages, session : Sessions \cup {NoSession}, panicked : BOOLEAN]
    BY Zenon, <1>3, <1>4
  <2>2. job' \in [Jobs -> [pc : Stages, session : Sessions \cup {NoSession}, panicked : BOOLEAN]]
    BY Zenon, <1>2, <1>3, <2>1
  <2>3. /\ job'[j].pc = pc /\ job'[j].session = job[j].session
        /\ \A i \in Jobs : i # j => job'[i] = job[i]
    BY Zenon, <1>2, <1>3
  <2> QED BY Zenon, <1>1, <1>4, <2>2, <2>3 DEF Moves, Around
<1>7. statusTopic' \in [Sessions -> Seq({"completed", "failed"})] /\ call' = call
  BY Zenon, <1>1 DEF IInv, Types, TypeOK, leaseVars
<1>8. CASE job[j].pc = "create"
  <2>1. pc = "releaseBand"
    BY Zenon, <1>8
  <2>2. /\ {"create", "releaseBand"} \subseteq IsTracked \ HoldsSlot /\ {"create", "releaseBand"} \subseteq HoldsParts
        /\ {"create", "releaseBand"} \subseteq HoldsBand /\ "releaseBand" \notin BeforeSlot /\ "releaseBand" \in Ending
    BY Zenon DEF IsTracked, HoldsParts, HoldsBand, HoldsSlot, Driving, BeforeSlot, Ending
  <2>3. /\ call'[s] = "held" /\ call'[s] \notin {"waiting", "undoing"} /\ bandOf'[s] # NoBand
        /\ \A t \in Sessions : t # s => bandOf[t] # bandOf'[s]
    <3>1. call[s] = "held" /\ call[s] \notin {"waiting", "undoing"} /\ bandOf[s] # NoBand
      BY Zenon, <1>5, <1>8, <2>2, OwnStage DEF IInv
    <3> QED BY Zenon, <1>1, <1>7, <3>1 DEF IInv, Owners
  <2>4. Touches(s)
    BY Zenon, <1>1, <1>7 DEF IInv, Types, TypeOK, Touches
  <2>5. job[j].pc \in IsTracked \ HoldsSlot
    BY Zenon, <1>8, <2>2
  <2>6. Moves(j, "releaseBand")
    BY Zenon, <1>6, <2>1
  <2> QED BY Zenon, <1>1, <1>5, <2>2, <2>3, <2>4, <2>5, <2>6, TrackedStep
<1>9. CASE job[j].pc # "create"
  <2>1. pc = "deleteSlot" /\ job[j].pc \in {"deploy"} \cup Driving
    BY Zenon, <1>1, <1>9
  <2>2. Moves(j, "deleteSlot")
    BY Zenon, <1>6, <2>1
  <2> QED BY Zenon, <1>1, <1>5, <1>7, <2>1, <2>2, StageStep
<1> QED
  BY Zenon, <1>8, <1>9

\* Deleting the slot keeps the invariant.
LEMMA DeleteSlotStep ==
    ASSUME IInv, NEW j \in Jobs, Around, DeleteSlot(j)
    PROVE  IInv'
<1>1. /\ job[j].pc = "deleteSlot" /\ UNCHANGED <<statusTopic, sem, tracked, bandOf, leaseVars, specs>>
      /\ Goto(j, "releaseBand")
  BY Zenon DEF DeleteSlot
<1>2. PICK s \in Sessions : job[j].session = s
  BY Zenon, <1>1, BusySession DEF IInv
<1>3. slot' = [slot EXCEPT ![s] = NoBand] \/ ("orchestrator" \in env.faults /\ slot' = slot)
  BY Zenon, <1>2 DEF DeleteSlot
<1>4. /\ {"deleteSlot", "releaseBand"} \subseteq IsTracked /\ {"deleteSlot", "releaseBand"} \subseteq HoldsParts
      /\ {"deleteSlot", "releaseBand"} \subseteq HoldsBand /\ "releaseBand" \in Ending
      /\ "releaseBand" \notin BeforeSlot \cup Deploying \cup AfterPublish
      /\ "releaseBand" \notin {"deploy"} \cup Driving /\ "releaseBand" \in Stages \ {"idle"}
  BY
  DEF IsTracked, HoldsParts, HoldsBand, HoldsSlot, Driving, BeforeSlot, Deploying, AfterPublish,
     Ending, Stages
<1>5. slot \in [Sessions -> Bands \cup {NoBand}]
  BY Zenon DEF IInv, Types, TypeOK
<1>6. /\ slot' \in [Sessions -> Bands \cup {NoBand}]
      /\ \A t \in Sessions : t # s => slot'[t] = slot[t]
      /\ "orchestrator" \notin env.faults => slot'[s] = NoBand
  BY Zenon, <1>3, <1>5
<1>7. Moves(j, "releaseBand")
  BY Zenon, <1>1, <1>4, GotoMoves DEF IInv
<1>8. call' = call /\ bandOf' = bandOf
  BY Zenon, <1>1 DEF leaseVars
<1>9. Touches(s)
  BY Zenon, <1>1, <1>6, <1>8 DEF IInv, Types, TypeOK, Touches
<1>10. Owners'
  <2>1. call[s] = "held" /\ call[s] \notin {"waiting", "undoing"} /\ bandOf[s] # NoBand
    BY Zenon, <1>1, <1>2, <1>4, OwnStage DEF IInv
  <2>2. \A t \in Sessions : t # s => bandOf[t] # bandOf[s]
    BY Zenon, <2>1 DEF IInv, Owners
  <2>3. job[j].pc \in IsTracked /\ "releaseBand" \in IsTracked
    BY Zenon, <1>1, <1>4
  <2> QED BY Zenon, <1>1, <1>2, <1>4, <1>7, <1>8, <1>9, <2>1, <2>2, <2>3, OwnersInside DEF IInv
<1>11. SweptBeforeRedelivery => InOrder(j, s, "releaseBand")
  <2> SUFFICES ASSUME SweptBeforeRedelivery PROVE InOrder(j, s, "releaseBand")
    BY Zenon
  <2>1. specs[s] <= 1
    BY Zenon, <1>2, NotTerminal DEF IInv
  <2> QED BY Zenon, <1>1, <1>4, <2>1 DEF InOrder
<1>12. Fresh'
  <2>1. ~(NoLeak /\ slot'[s] # NoBand)
    BY Zenon, <1>6 DEF NoLeak
  <2>2. job[j].pc \in IsTracked
    BY Zenon, <1>1, <1>4
  <2> QED BY Zenon, <1>2, <1>4, <1>7, <1>9, <2>1, <2>2, FreshKept DEF IInv
<1> QED
  BY Zenon, <1>2, <1>7, <1>9, <1>10, <1>11, <1>12, TypesKept, SlotsKept, OnceKept DEF IInv

\* Giving the band back keeps the invariant.
LEMMA ReleaseBandStep ==
    ASSUME IInv, NEW j \in Jobs, Around, ReleaseBand(j)
    PROVE  IInv'
<1>1. /\ job[j].pc = "releaseBand" /\ UNCHANGED <<statusTopic, slot, sem, tracked, leaseVars, specs>>
      /\ Goto(j, "releaseParts")
  BY Zenon DEF ReleaseBand
<1>2. PICK s \in Sessions : job[j].session = s
  BY Zenon, <1>1, BusySession DEF IInv
<1>3. /\ {"releaseBand", "releaseParts"} \subseteq IsTracked \ HoldsSlot
      /\ {"releaseBand", "releaseParts"} \subseteq HoldsParts /\ "releaseParts" \notin HoldsBand
      /\ "releaseParts" \notin BeforeSlot /\ "releaseParts" \in Ending /\ "releaseParts" \in Stages \ {"idle"}
  BY Zenon DEF IsTracked, HoldsParts, HoldsBand, HoldsSlot, Driving, BeforeSlot, Ending, Stages
<1>4. bandOf' = [bandOf EXCEPT ![s] = NoBand]
  BY Zenon, <1>2 DEF ReleaseBand
<1>5. bandOf \in [Sessions -> Bands \cup {NoBand}]
  BY Zenon DEF IInv, Types, TypeOK
<1>6. /\ bandOf' \in [Sessions -> Bands \cup {NoBand}] /\ bandOf'[s] = NoBand
      /\ \A t \in Sessions : t # s => bandOf'[t] = bandOf[t]
  BY Zenon, <1>4, <1>5
<1>7. Moves(j, "releaseParts")
  BY Zenon, <1>1, <1>3, GotoMoves DEF IInv
<1>8. call' = call
  BY Zenon, <1>1 DEF leaseVars
<1>9. Touches(s)
  BY Zenon, <1>1, <1>6, <1>8 DEF IInv, Types, TypeOK, Touches
<1>10. job[j].pc \in IsTracked \ HoldsSlot /\ job[j].pc \in HoldsParts
  BY Zenon, <1>1, <1>3
<1>11. call'[s] = "held" /\ call'[s] \notin {"waiting", "undoing"}
  BY Zenon, <1>2, <1>8, <1>10, OwnStage DEF IInv
<1> QED
  BY Zenon, <1>1, <1>2, <1>3, <1>6, <1>7, <1>9, <1>10, <1>11, TrackedStep

\* Giving the partitions back keeps the invariant.
LEMMA ReleasePartsStep ==
    ASSUME IInv, NEW j \in Jobs, Around, ReleaseParts(j)
    PROVE  IInv'
<1>1. /\ job[j].pc = "releaseParts" /\ UNCHANGED <<statusTopic, slot, sem, tracked, bandOf, specs>>
      /\ Goto(j, "drop")
  BY Zenon DEF ReleaseParts
<1>2. PICK s \in Sessions : job[j].session = s
  BY Zenon, <1>1, BusySession DEF IInv
<1>3. /\ {"releaseParts", "drop"} \subseteq IsTracked \ HoldsSlot /\ "drop" \notin HoldsParts
      /\ "releaseParts" \notin HoldsBand /\ "drop" \notin HoldsBand
      /\ "drop" \notin BeforeSlot /\ "drop" \in Ending /\ "drop" \in Stages \ {"idle"}
  BY Zenon DEF IsTracked, HoldsParts, HoldsBand, HoldsSlot, Driving, BeforeSlot, Ending, Stages
<1>4. call' = [call EXCEPT ![s] = "idle"]
  BY Zenon, <1>2 DEF ReleaseParts, Leases!Release
<1>5. call \in [Sessions -> {"idle", "waiting", "undoing", "held"}]
  BY Zenon DEF IInv, Types
<1>6. /\ call' \in [Sessions -> {"idle", "waiting", "undoing", "held"}] /\ call'[s] = "idle"
      /\ \A t \in Sessions : t # s => call'[t] = call[t]
  BY Zenon, <1>4, <1>5
<1>7. Moves(j, "drop")
  BY Zenon, <1>1, <1>3, GotoMoves DEF IInv
<1>8. Touches(s)
  BY Zenon, <1>1, <1>6 DEF IInv, Types, TypeOK, Touches
<1>9. job[j].pc \in IsTracked \ HoldsSlot
  BY Zenon, <1>1, <1>3
<1>10. bandOf'[s] = NoBand
  BY Zenon, <1>1, <1>2, <1>3, OwnStage DEF IInv
<1>11. call'[s] # "held" /\ call'[s] \notin {"waiting", "undoing"}
  BY Zenon, <1>6
<1> QED
  BY Zenon, <1>1, <1>2, <1>3, <1>7, <1>8, <1>9, <1>10, <1>11, TrackedStep

\* Dropping the session keeps the invariant.
LEMMA DropStep ==
    ASSUME IInv, NEW j \in Jobs, Around, Drop(j)
    PROVE  IInv'
<1>1. /\ job[j].pc = "drop" /\ UNCHANGED <<statusTopic, slot, sem, bandOf, leaseVars, specs>>
      /\ Goto(j, "exit")
  BY Zenon DEF Drop
<1>2. PICK s \in Sessions : job[j].session = s
  BY Zenon, <1>1, BusySession DEF IInv
<1>3. tracked' = tracked \ {s}
  BY Zenon, <1>2 DEF Drop
<1>4. call' = call
  BY Zenon, <1>1 DEF leaseVars
<1>5. "exit" \in Stages \ {"idle"} /\ "drop" \notin HoldsSlot /\ "exit" \notin {"deploy"} \cup Driving
      /\ "exit" \in Ending /\ "exit" \notin BeforeSlot \cup Deploying \cup AfterPublish
  BY
  DEF Stages, IsTracked, HoldsParts, HoldsBand, HoldsSlot, Driving, Ending, BeforeSlot,
     Deploying, AfterPublish
<1>6. Moves(j, "exit")
  BY Zenon, <1>1, <1>5, GotoMoves DEF IInv
<1>7. Touches(s)
  BY Zenon, <1>1, <1>3, <1>4 DEF IInv, Types, TypeOK, Touches
<1>8. Owners'
  BY Zenon, <1>1, <1>2, <1>3, <1>4, <1>6, <1>7, OwnersDrop DEF IInv
<1>9. SweptBeforeRedelivery => InOrder(j, s, "exit")
  <2> SUFFICES ASSUME SweptBeforeRedelivery PROVE InOrder(j, s, "exit")
    BY Zenon
  <2>1. specs[s] <= 1
    BY Zenon, <1>2, NotTerminal DEF IInv
  <2> QED BY Zenon, <1>1, <1>5, <2>1 DEF InOrder
<1>10. Fresh'
  BY Zenon, <1>1, <1>2, <1>5, <1>6, <1>7, FreshKept DEF IInv
<1> QED
  BY Zenon, <1>2, <1>6, <1>7, <1>8, <1>9, <1>10, TypesKept, SlotsKept, OnceKept DEF IInv

-----------------------------------------------------------------------------
(* StartBenchmarkRequested *)

\* A step that leaves the goroutines and what they own.
LEMMA OwnersFreshStill ==
    ASSUME IInv, UNCHANGED <<env, job, tracked, call, bandOf, slot>>, NoLeak => proc' = proc
    PROVE  Owners' /\ Fresh'
<1>1. \A s, stages : Has(s, stages)' <=> Has(s, stages)
  BY Zenon DEF Has
<1>2. (SlotsFresh' <=> SlotsFresh) /\ (NoLeak' <=> NoLeak)
  BY Zenon DEF SlotsFresh, SweptBeforeRedelivery, NoLeak
<1>3. Owners'
  BY Zenon, <1>1 DEF IInv, Owners
<1>4. Fresh'
  BY Zenon, <1>1, <1>2 DEF IInv, Fresh
<1> QED
  BY Zenon, <1>3, <1>4

\* ... and the loop's message, and what was done for any session.
LEMMA OnceStill ==
    ASSUME Once, UNCHANGED <<env, requests, position, runStatus, job, specs, slot, statusTopic, toRecover>>,
           loop'.session = loop.session, Alive' => Alive, proc' = proc \/ proc' # "recovering"
    PROVE  Once'
<1> SUFFICES ASSUME SweptBeforeRedelivery'
             PROVE  Requested' /\ \A t \in Sessions : OnceOf(t)'
  BY Zenon DEF Once
<1>1. Requested /\ \A t \in Sessions : OnceOf(t)
  BY Zenon DEF SweptBeforeRedelivery, Once
<1>2. Requested'
  BY Zenon, <1>1 DEF Requested
<1>3. ASSUME NEW t \in Sessions
      PROVE  OnceOf(t)'
  <2>1. \A stages : Has(t, stages)' <=> Has(t, stages)
    BY Zenon DEF Has
  <2>2. (Untouched(t)' <=> Untouched(t)) /\ (Terminal(t)' <=> Terminal(t))
    BY Zenon DEF Untouched, Terminal
  <2>3. Attended(t) => Attended(t)'
    BY Zenon, <2>2 DEF Attended
  <2> QED BY Zenon, <1>1, <2>1, <2>2, <2>3 DEF OnceOf
<1> QED
  BY Zenon, <1>2, <1>3

\* Fetching a request keeps the invariant.
LEMMA FetchStep ==
    ASSUME IInv, Fetch
    PROVE  IInv'
<1>1. /\ Alive /\ loop.pc = "fetch" /\ position < Len(requests)
      /\ loop' = [pc |-> "acquire", session |-> requests[position + 1]] /\ position' = position + 1
      /\ UNCHANGED <<env, requests, committed, runStatus, statusTopic, slot, proc, sem, job, tracked,
                     bandOf, leaseVars, toRecover, specs, disruptions>>
  BY Zenon DEF Fetch
<1>2. /\ requests \in Seq(Sessions) /\ Len(requests) \in Nat /\ committed \in 0..Len(requests)
      /\ position \in committed..Len(requests)
  BY Zenon, SeqLen DEF IInv, Types, TypeOK
<1>3. requests[position + 1] \in Sessions /\ position + 1 \in 1..Len(requests)
  BY <1>1, <1>2, SeqElement
<1>4. loop'.pc = "acquire" /\ loop'.session = requests[position + 1] /\ loop.session = NoSession
  BY Zenon, <1>1 DEF IInv, Types
<1>5. Types'
  <2>1. call' = call /\ Alive'
    BY Zenon, <1>1 DEF leaseVars, Alive
  <2>2. TypeOK'
    BY <1>1, <1>2, <1>3 DEF IInv, Types, TypeOK
  <2> QED BY Zenon, <1>1, <1>3, <1>4, <2>1, <2>2 DEF IInv, Types
<1>6. Owners' /\ Fresh'
  BY Zenon, <1>1, OwnersFreshStill DEF leaseVars
<1>7. Slots'
  <2>1. Busy' = Busy
    BY Zenon, <1>1 DEF Busy
  <2> QED BY Zenon, <1>1, <1>4, <2>1 DEF IInv, Slots
<1>8. Once'
  <2> SUFFICES ASSUME SweptBeforeRedelivery'
               PROVE  Requested' /\ \A t \in Sessions : OnceOf(t)'
    BY Zenon DEF Once
  <2>1. Requested /\ \A t \in Sessions : OnceOf(t)
    BY Zenon, <1>1 DEF SweptBeforeRedelivery, Once, IInv
  <2>2. Requested'
    <3>1. \A i \in 1..position : i \in 1..position + 1
      BY <1>2
    <3>2. \E i \in 1..position + 1 : requests[i] = requests[position + 1]
      BY <1>2, <1>3
    <3> QED BY Zenon, <1>1, <1>4, <2>1, <3>1, <3>2 DEF Requested
  <2>3. \A j \in Jobs : job[j].pc = "idle" => job[j].session = NoSession
    BY DEF IInv, Types, Idle
  <2>4. \A j \in Jobs : job[j].session # requests[position + 1]
    <3> SUFFICES ASSUME NEW j \in Jobs, job[j].session = requests[position + 1] PROVE FALSE
      BY Zenon
    <3>1. PICK i \in 1..position : requests[i] = job[j].session
      BY Zenon, <1>3, <2>1, <2>3, NullsApart DEF Requested
    <3>2. i \in 1..Len(requests) /\ i # position + 1
      BY <1>2
    <3> QED BY Zenon, <1>3, <2>1, <3>1, <3>2 DEF Requested
  <2>5. ASSUME NEW t \in Sessions
        PROVE  OnceOf(t)'
    <3>1. \A stages : Has(t, stages)' <=> Has(t, stages)
      BY Zenon, <1>1 DEF Has
    <3>2. (Untouched(t)' <=> Untouched(t)) /\ (Terminal(t)' <=> Terminal(t))
      BY Zenon, <1>1 DEF Untouched, Terminal
    <3>3. Attended(t) => Attended(t)'
      <4> SUFFICES ASSUME Attended(t) PROVE Attended(t)'
        BY Zenon
      <4>1. \A i \in (position + 1) + 1..Len(requests) : i \in position + 1..Len(requests)
        BY <1>2
      <4>2. position + 1 \in position + 1..Len(requests)
        BY <1>2, <1>3
      <4>3. loop'.session = t => Untouched(t) /\ \A j \in Jobs : job[j].session # t
        BY Zenon, <1>4, <2>4, <4>2 DEF Attended
      <4> QED BY Zenon, <1>1, <3>2, <4>1, <4>3 DEF Attended
    <3>4. Alive' /\ proc' # "recovering"
      BY Zenon, <1>1 DEF Alive
    <3> QED BY Zenon, <1>1, <2>1, <3>1, <3>2, <3>3, <3>4 DEF OnceOf
  <2> QED BY Zenon, <2>2, <2>5
<1> QED
  BY Zenon, <1>5, <1>6, <1>7, <1>8 DEF IInv

-----------------------------------------------------------------------------
(* The surroundings and the process *)

\* A new request keeps the invariant.
LEMMA RequestStep ==
    ASSUME IInv, NEW s \in Sessions, Request(s)
    PROVE  IInv'
<1>1. /\ runStatus[s] = "none" \/ "duplicate" \in env.faults
      /\ requests' = Append(requests, s)
      /\ runStatus' = [runStatus EXCEPT ![s] = IF runStatus[s] = "none" THEN "open" ELSE runStatus[s]]
      /\ UNCHANGED <<env, position, committed, statusTopic, slot, proc, loop, sem, job, tracked, bandOf, call,
                     toRecover, specs, disruptions>>
  BY Zenon DEF Request, volatile, leaseVars
<1>2. /\ requests \in Seq(Sessions) /\ Len(requests) \in Nat /\ committed \in 0..Len(requests)
      /\ position \in committed..Len(requests)
  BY Zenon, SeqLen DEF IInv, Types, TypeOK
<1>3. /\ requests' \in Seq(Sessions) /\ Len(requests') = Len(requests) + 1 /\ requests'[Len(requests) + 1] = s
      /\ \A i \in 1..Len(requests) : requests'[i] = requests[i]
  BY <1>1, <1>2, SeqAppend
<1>4. runStatus \in [Sessions -> {"none", "open", "completed", "failed"}]
  BY Zenon DEF IInv, Types, TypeOK
<1>5. /\ runStatus' \in [Sessions -> {"none", "open", "completed", "failed"}]
      /\ \A t \in Sessions : t # s => runStatus'[t] = runStatus[t]
      /\ runStatus[s] = "none" => runStatus'[s] = "open"
  BY Zenon, <1>1, <1>4
<1>6. Types'
  <2>1. committed' \in 0..Len(requests') /\ position' \in committed'..Len(requests')
    BY <1>1, <1>2, <1>3
  <2>2. TypeOK'
    BY Zenon, <1>1, <1>3, <1>5, <2>1 DEF IInv, Types, TypeOK
  <2>3. Alive' <=> Alive
    BY Zenon, <1>1 DEF Alive
  <2> QED BY Zenon, <1>1, <2>2, <2>3 DEF IInv, Types
<1>7. Owners' /\ Fresh'
  BY Zenon, <1>1, OwnersFreshStill
<1>8. Slots'
  <2>1. Busy' = Busy
    BY Zenon, <1>1 DEF Busy
  <2> QED BY Zenon, <1>1, <2>1 DEF IInv, Slots
<1>9. Once'
  <2> SUFFICES ASSUME SweptBeforeRedelivery'
               PROVE  Requested' /\ \A t \in Sessions : OnceOf(t)'
    BY Zenon DEF Once
  <2>1. Requested /\ \A t \in Sessions : OnceOf(t)
    BY Zenon, <1>1 DEF SweptBeforeRedelivery, Once, IInv
  <2>2. runStatus[s] = "none"
    BY Zenon, <1>1 DEF SweptBeforeRedelivery
  <2>3. Untouched(s) /\ \A i \in 1..Len(requests) : requests[i] # s
    BY Zenon, <2>1, <2>2 DEF OnceOf
  <2>4. \A i \in 1..position : i \in 1..Len(requests) /\ requests'[i] = requests[i]
    BY <1>2, <1>3
  <2>5. \A i \in 1..Len(requests) + 1 : i \in 1..Len(requests) \/ i = Len(requests) + 1
    BY <1>2
  <2>6. Requested'
    <3>1. \A i, k \in 1..Len(requests') : requests'[i] = requests'[k] => i = k
      BY <1>2, <1>3, <2>1, <2>3, <2>5 DEF Requested
    <3>2. \A j \in Jobs : job'[j].pc # "idle" => \E i \in 1..position' : requests'[i] = job'[j].session
      BY <1>1, <2>1, <2>4 DEF Requested
    <3>3. loop'.session \in Sessions => \E i \in 1..position' : requests'[i] = loop'.session
      BY Zenon, <1>1, <2>1, <2>4 DEF Requested
    <3> QED BY Zenon, <3>1, <3>2, <3>3 DEF Requested
  <2>7. loop.session # s /\ \A j \in Jobs : job[j].session # s
    <3>1. loop.session # s
      BY Zenon, <2>1, <2>3, <2>4 DEF Requested
    <3>2. \A j \in Jobs : job[j].session = s => job[j].pc # "idle"
      BY NullsApart DEF IInv, Types, Idle
    <3> QED BY Zenon, <2>1, <2>3, <2>4, <3>1, <3>2 DEF Requested
  <2>8. ASSUME NEW t \in Sessions
        PROVE  OnceOf(t)'
    <3>1. \A stages : Has(t, stages)' <=> Has(t, stages)
      BY Zenon, <1>1 DEF Has
    <3>2. Untouched(t)' <=> Untouched(t)
      BY Zenon, <1>1 DEF Untouched
    <3>3. Alive' <=> Alive
      BY Zenon, <1>1 DEF Alive
    <3>4. CASE t = s
      <4>1. runStatus'[s] = "open" /\ ~Terminal(s)'
        BY Zenon, <1>5, <2>2 DEF Terminal
      <4>2. Attended(s)'
        BY Zenon, <1>1, <2>3, <2>7, <3>2, <3>4 DEF Attended
      <4> QED BY Zenon, <1>1, <2>1, <2>3, <3>2, <3>4, <4>1, <4>2 DEF OnceOf
    <3>5. CASE t # s
      <4>1. runStatus'[t] = runStatus[t] /\ (Terminal(t)' <=> Terminal(t))
        BY Zenon, <1>5, <3>5 DEF Terminal
      <4>2. \A i \in 1..Len(requests') : requests'[i] = t => i \in 1..Len(requests) /\ requests[i] = t
        BY Zenon, <1>3, <2>5, <3>5
      <4>3. \A i \in position' + 1..Len(requests') :
                i \in 1..Len(requests') /\ (i \in 1..Len(requests) => i \in position + 1..Len(requests))
        BY <1>1, <1>2, <1>3
      <4>4. Attended(t) => Attended(t)'
        BY Zenon, <1>1, <3>2, <4>2, <4>3 DEF Attended
      <4> QED BY Zenon, <1>1, <2>1, <3>1, <3>2, <3>3, <4>1, <4>2, <4>4 DEF OnceOf
    <3> QED BY Zenon, <3>4, <3>5
  <2> QED BY Zenon, <2>6, <2>8
<1> QED
  BY Zenon, <1>6, <1>7, <1>8, <1>9 DEF IInv

\* Applying a status keeps the invariant.
LEMMA ApplyStatusStep ==
    ASSUME IInv, NEW s \in Sessions, ApplyStatus(s)
    PROVE  IInv'
<1>1. /\ statusTopic[s] # <<>> /\ statusTopic' = [statusTopic EXCEPT ![s] = Tail(statusTopic[s])]
      /\ runStatus' = [runStatus EXCEPT ![s] = IF runStatus[s] = "open" THEN Head(statusTopic[s]) ELSE runStatus[s]]
      /\ UNCHANGED <<env, requests, position, committed, slot, proc, loop, sem, job, tracked, bandOf, call,
                     toRecover, specs, disruptions>>
  BY Zenon DEF ApplyStatus, volatile, leaseVars, kafkaVars
<1>2. /\ statusTopic \in [Sessions -> Seq({"completed", "failed"})]
      /\ runStatus \in [Sessions -> {"none", "open", "completed", "failed"}]
  BY Zenon DEF IInv, Types, TypeOK
<1>3. Head(statusTopic[s]) \in {"completed", "failed"} /\ Tail(statusTopic[s]) \in Seq({"completed", "failed"})
  BY Zenon, <1>1, <1>2, SeqHeadTail
<1>4. /\ statusTopic' \in [Sessions -> Seq({"completed", "failed"})]
      /\ runStatus' \in [Sessions -> {"none", "open", "completed", "failed"}]
      /\ \A t \in Sessions : t # s => runStatus'[t] = runStatus[t] /\ statusTopic'[t] = statusTopic[t]
      /\ runStatus[s] = "open" => runStatus'[s] \in {"completed", "failed"}
      /\ runStatus[s] # "open" => runStatus'[s] = runStatus[s]
  BY Zenon, <1>1, <1>2, <1>3
<1>5. Types'
  <2>1. TypeOK'
    BY Zenon, <1>1, <1>4 DEF IInv, Types, TypeOK
  <2>2. Alive' <=> Alive
    BY Zenon, <1>1 DEF Alive
  <2> QED BY Zenon, <1>1, <2>1, <2>2 DEF IInv, Types
<1>6. Owners' /\ Fresh'
  BY Zenon, <1>1, OwnersFreshStill
<1>7. Slots'
  <2>1. Busy' = Busy
    BY Zenon, <1>1 DEF Busy
  <2> QED BY Zenon, <1>1, <2>1 DEF IInv, Slots
<1>8. Once'
  <2> SUFFICES ASSUME SweptBeforeRedelivery'
               PROVE  Requested' /\ \A t \in Sessions : OnceOf(t)'
    BY Zenon DEF Once
  <2>1. Requested /\ \A t \in Sessions : OnceOf(t)
    BY Zenon, <1>1 DEF SweptBeforeRedelivery, Once, IInv
  <2>2. Requested'
    BY Zenon, <1>1, <2>1 DEF Requested
  <2>3. ~Untouched(s)
    BY Zenon, <1>1 DEF Untouched
  <2>4. ASSUME NEW t \in Sessions
        PROVE  OnceOf(t)'
    <3>1. \A stages : Has(t, stages)' <=> Has(t, stages)
      BY Zenon, <1>1 DEF Has
    <3>2. Alive' <=> Alive
      BY Zenon, <1>1 DEF Alive
    <3>3. CASE t = s
      <4>1. runStatus[s] # "none" /\ runStatus'[s] \in {"completed", "failed"}
        BY Zenon, <1>2, <1>4, <2>1, <2>3 DEF OnceOf
      <4>2. ~Has(s, (BeforeSlot \ {"precheck"}) \cup Deploying \cup AfterPublish)
        <5>1. CASE Terminal(s)
          BY Zenon, <2>1, <5>1 DEF OnceOf
        <5>2. CASE runStatus[s] = "open" /\ Alive
          <6>1. Attended(s)
            BY Zenon, <2>1, <5>2 DEF OnceOf
          <6> QED BY Zenon, <1>1, <2>3, <6>1 DEF Attended, Has
        <5>3. CASE ~Alive
          BY <5>3, NullsApart DEF IInv, Types, Has, Idle
        <5> QED BY Zenon, <1>2, <4>1, <5>1, <5>2, <5>3 DEF Terminal
      <4> QED BY Zenon, <1>1, <2>1, <3>1, <3>3, <4>1, <4>2 DEF OnceOf
    <3>4. CASE t # s
      <4>1. statusTopic'[t] = statusTopic[t] /\ runStatus'[t] = runStatus[t]
        BY Zenon, <1>4, <3>4
      <4>2. (Untouched(t)' <=> Untouched(t)) /\ (Terminal(t)' <=> Terminal(t))
        BY Zenon, <1>1, <4>1 DEF Untouched, Terminal
      <4>3. Attended(t) => Attended(t)'
        BY Zenon, <1>1, <4>1, <4>2 DEF Attended
      <4> QED BY Zenon, <1>1, <2>1, <3>1, <3>2, <4>1, <4>2, <4>3 DEF OnceOf
    <3> QED BY Zenon, <3>3, <3>4
  <2> QED BY Zenon, <2>2, <2>4
<1> QED
  BY Zenon, <1>5, <1>6, <1>7, <1>8 DEF IInv

\* A rebalance keeps the invariant.
LEMMA RebalanceStep ==
    ASSUME IInv, Rebalance
    PROVE  IInv'
<1>1. /\ "rebalance" \in env.faults /\ disruptions < env.disruptions /\ position' = committed
      /\ disruptions' = disruptions + 1
      /\ UNCHANGED <<env, requests, committed, runStatus, statusTopic, slot, proc, loop, sem, job, tracked, bandOf,
                     call, toRecover, specs>>
  BY Zenon DEF Rebalance, volatile, leaseVars
<1>2. Types'
  <2>1. /\ Len(requests) \in Nat /\ committed \in 0..Len(requests) /\ env.disruptions \in Nat
        /\ disruptions \in 0..env.disruptions
    BY Zenon, SeqLen, EnvironmentsKnown DEF IInv, Types, TypeOK
  <2>2. position' \in committed'..Len(requests') /\ disruptions' \in 0..env'.disruptions
    BY <1>1, <2>1
  <2>3. TypeOK'
    BY Zenon, <1>1, <2>2 DEF IInv, Types, TypeOK
  <2>4. Alive' <=> Alive
    BY Zenon, <1>1 DEF Alive
  <2> QED BY Zenon, <1>1, <2>3, <2>4 DEF IInv, Types
<1>3. Owners' /\ Fresh'
  BY Zenon, <1>1, OwnersFreshStill
<1>4. Slots'
  <2>1. Busy' = Busy
    BY Zenon, <1>1 DEF Busy
  <2> QED BY Zenon, <1>1, <2>1 DEF IInv, Slots
<1>5. Once'
  BY Zenon, <1>1 DEF Once, SweptBeforeRedelivery
<1> QED
  BY Zenon, <1>2, <1>3, <1>4, <1>5 DEF IInv

\* A shutdown keeps the invariant.
LEMMA ShutdownStep ==
    ASSUME IInv, Shutdown
    PROVE  IInv'
<1>1. /\ "shutdown" \in env.faults /\ disruptions < env.disruptions /\ proc = "up" /\ proc' = "stopping"
      /\ disruptions' = disruptions + 1
      /\ UNCHANGED <<env, requests, position, committed, runStatus, statusTopic, slot, loop, sem, job, tracked, bandOf,
                     call, toRecover, specs>>
  BY Zenon DEF Shutdown, volatile, leaseVars, kafkaVars
<1>2. Types'
  <2>1. env.disruptions \in Nat /\ disruptions \in 0..env.disruptions
    BY Zenon, EnvironmentsKnown DEF IInv, Types, TypeOK
  <2>2. disruptions' \in 0..env'.disruptions
    BY <1>1, <2>1
  <2>3. TypeOK'
    BY Zenon, <1>1, <2>2 DEF IInv, Types, TypeOK
  <2>4. Alive' /\ Alive
    BY Zenon, <1>1 DEF Alive
  <2> QED BY Zenon, <1>1, <2>3, <2>4 DEF IInv, Types
<1>3. Owners' /\ Fresh'
  <2>1. ~NoLeak
    BY Zenon, <1>1 DEF NoLeak
  <2> QED BY Zenon, <1>1, <2>1, OwnersFreshStill
<1>4. Slots'
  <2>1. Busy' = Busy
    BY Zenon, <1>1 DEF Busy
  <2> QED BY Zenon, <1>1, <2>1 DEF IInv, Slots
<1>5. Once'
  <2>1. Alive /\ proc' # "recovering"
    BY Zenon, <1>1 DEF Alive
  <2> QED BY Zenon, <1>1, <2>1, OnceStill DEF IInv
<1> QED
  BY Zenon, <1>2, <1>3, <1>4, <1>5 DEF IInv

\* The steps of the recovery keep the invariant.
LEMMA RecoverySteps ==
    ASSUME IInv, Recovery
    PROVE  IInv'
<1>1. /\ proc \in {"down", "recovering"}
      /\ UNCHANGED <<env, requests, committed, slot, loop, sem, job, tracked, bandOf, call, specs, disruptions>>
  BY Zenon DEF Recovery, Restart, RecoverRun, StartConsumers, volatile, leaseVars, kafkaVars
<1>2. ~Alive /\ loop.session = NoSession /\ loop.pc = "fetch" /\ (\A j \in Jobs : job[j] = Idle) /\ ~NoLeak
  BY Zenon, <1>1 DEF Alive, IInv, Types, Fresh
<1>3. Idle.pc = "idle" /\ Idle.session = NoSession /\ NoSession \notin Sessions
  BY Zenon, NullsApart DEF Idle
<1>4. /\ runStatus \in [Sessions -> {"none", "open", "completed", "failed"}]
      /\ Len(requests) \in Nat /\ committed \in 0..Len(requests) /\ position \in committed..Len(requests)
  BY Zenon, SeqLen DEF IInv, Types, TypeOK
<1>5. Owners' /\ Fresh'
  BY Zenon, <1>1, <1>2, OwnersFreshStill
<1>6. Slots'
  <2>1. Busy' = Busy
    BY Zenon, <1>1 DEF Busy
  <2> QED BY Zenon, <1>1, <2>1 DEF IInv, Slots
<1>7. \A s \in Sessions : \A stages : ~Has(s, stages)'
  BY Zenon, <1>1, <1>2, <1>3 DEF Has
<1>8. CASE Restart
  <2>1. /\ proc' = "recovering" /\ toRecover' = {s \in Sessions : runStatus[s] = "open"}
        /\ UNCHANGED <<position, runStatus, statusTopic>>
    BY Zenon, <1>8 DEF Restart, kafkaVars
  <2>2. Types'
    <3>1. TypeOK'
      BY Zenon, <1>1, <2>1 DEF IInv, Types, TypeOK
    <3> QED BY Zenon, <1>1, <1>2, <3>1 DEF IInv, Types
  <2>3. Once'
    <3> SUFFICES ASSUME SweptBeforeRedelivery'
                 PROVE  Requested' /\ \A t \in Sessions : OnceOf(t)'
      BY Zenon DEF Once
    <3>1. Requested /\ \A t \in Sessions : OnceOf(t)
      BY Zenon, <1>1 DEF SweptBeforeRedelivery, Once, IInv
    <3>2. Requested'
      BY Zenon, <1>1, <2>1, <3>1 DEF Requested
    <3>3. ASSUME NEW t \in Sessions
          PROVE  OnceOf(t)'
      <4>1. Untouched(t)' <=> Untouched(t)
        BY Zenon, <1>1, <2>1 DEF Untouched
      <4>2. ~Alive'
        BY Zenon, <2>1 DEF Alive
      <4> QED BY Zenon, <1>1, <1>7, <2>1, <3>1, <4>1, <4>2 DEF OnceOf
    <3> QED BY Zenon, <3>2, <3>3
  <2> QED BY Zenon, <1>5, <1>6, <2>2, <2>3 DEF IInv
<1>9. ASSUME NEW s \in Sessions, RecoverRun(s)
      PROVE  IInv'
  <2>1. /\ proc = "recovering" /\ s \in toRecover /\ toRecover' = toRecover \ {s} /\ UNCHANGED <<position, proc>>
        /\ Fail(s) \/ statusTopic' = statusTopic
        /\ \/ runStatus' = [runStatus EXCEPT ![s] = IF runStatus[s] = "open" THEN "failed" ELSE runStatus[s]]
           \/ "db" \in env.faults /\ UNCHANGED <<runStatus, statusTopic>>
    BY Zenon, <1>9 DEF RecoverRun, kafkaVars
  <2>2. /\ runStatus' \in [Sessions -> {"none", "open", "completed", "failed"}]
        /\ \A t \in Sessions : t # s => runStatus'[t] = runStatus[t]
        /\ "db" \notin env.faults => runStatus'[s] = IF runStatus[s] = "open" THEN "failed" ELSE runStatus[s]
    BY Zenon, <1>4, <2>1
  <2>3. /\ statusTopic' \in [Sessions -> Seq({"completed", "failed"})]
        /\ \A t \in Sessions : t # s => statusTopic'[t] = statusTopic[t]
    BY Zenon, <2>1, FailFacts DEF IInv
  <2>4. Types'
    <3>1. TypeOK'
      BY Zenon, <1>1, <2>1, <2>2, <2>3 DEF IInv, Types, TypeOK
    <3> QED BY Zenon, <1>1, <1>2, <3>1 DEF IInv, Types
  <2>5. Once'
    <3> SUFFICES ASSUME SweptBeforeRedelivery'
                 PROVE  Requested' /\ \A t \in Sessions : OnceOf(t)'
      BY Zenon DEF Once
    <3>1. Requested /\ \A t \in Sessions : OnceOf(t)
      BY Zenon, <1>1 DEF SweptBeforeRedelivery, Once, IInv
    <3>2. Requested'
      BY Zenon, <1>1, <2>1, <3>1 DEF Requested
    <3>3. "db" \notin env.faults
      BY Zenon, <1>1 DEF SweptBeforeRedelivery
    <3>4. ~Alive'
      BY Zenon, <2>1 DEF Alive
    <3>5. OnceOf(s)'
      <4>1. runStatus[s] # "none"
        BY Zenon, <2>1, <3>1 DEF OnceOf
      <4>2. runStatus'[s] \notin {"none", "open"}
        BY Zenon, <2>2, <3>3, <4>1
      <4> QED BY Zenon, <1>1, <1>7, <3>1, <3>4, <4>2 DEF OnceOf
    <3>6. ASSUME NEW t \in Sessions, t # s
          PROVE  OnceOf(t)'
      <4>1. Untouched(t)' <=> Untouched(t)
        BY Zenon, <1>1, <2>3, <3>6 DEF Untouched
      <4>2. (t \in toRecover' <=> t \in toRecover) /\ runStatus'[t] = runStatus[t]
        BY Zenon, <2>1, <2>2, <3>6
      <4> QED BY Zenon, <1>1, <1>7, <2>1, <3>1, <3>4, <4>1, <4>2 DEF OnceOf
    <3> QED BY Zenon, <3>2, <3>5, <3>6
  <2> QED BY Zenon, <1>5, <1>6, <2>4, <2>5 DEF IInv
<1>10. CASE StartConsumers
  <2>1. /\ proc = "recovering" /\ toRecover = {} /\ proc' = "up" /\ position' = committed
        /\ UNCHANGED <<runStatus, statusTopic, toRecover>>
    BY Zenon, <1>10 DEF StartConsumers
  <2>2. Types'
    <3>1. position' \in committed'..Len(requests')
      BY <1>1, <1>4, <2>1
    <3>2. TypeOK'
      BY Zenon, <1>1, <2>1, <3>1 DEF IInv, Types, TypeOK
    <3>3. Alive'
      BY Zenon, <2>1 DEF Alive
    <3> QED BY Zenon, <1>1, <1>2, <3>2, <3>3 DEF IInv, Types
  <2>3. Once'
    <3> SUFFICES ASSUME SweptBeforeRedelivery'
                 PROVE  Requested' /\ \A t \in Sessions : OnceOf(t)'
      BY Zenon DEF Once
    <3>1. Requested /\ \A t \in Sessions : OnceOf(t)
      BY Zenon, <1>1 DEF SweptBeforeRedelivery, Once, IInv
    <3>2. Requested'
      BY Zenon, <1>1, <1>2, <1>3, <2>1, <3>1 DEF Requested
    <3>3. ASSUME NEW t \in Sessions
          PROVE  OnceOf(t)'
      <4>1. Untouched(t)' <=> Untouched(t)
        BY Zenon, <1>1, <2>1 DEF Untouched
      <4>2. runStatus[t] = "open" => Untouched(t)
        BY Zenon, <2>1, <3>1 DEF OnceOf
      <4>3. runStatus[t] = "open" => Attended(t)'
        BY Zenon, <1>1, <1>2, <1>3, <4>1, <4>2 DEF Attended
      <4> QED BY Zenon, <1>1, <1>7, <2>1, <3>1, <4>1, <4>3 DEF OnceOf
    <3> QED BY Zenon, <3>2, <3>3
  <2> QED BY Zenon, <1>5, <1>6, <2>2, <2>3 DEF IInv
<1> QED
  BY Zenon, <1>8, <1>9, <1>10 DEF Recovery

-----------------------------------------------------------------------------
(* Steps that count the goroutines *)

\* There are finitely many busy jobs.
LEMMA BusyFinite == IsFiniteSet(Busy) /\ Cardinality(Busy) \in Nat
<1>1. Busy \subseteq Jobs
  BY Zenon DEF Busy
<1> QED
  BY Zenon, <1>1, JobsEnough, FS_Subset, FS_CardinalityType

\* The semaphore's size is a number.
LEMMA BandsCounted == MaxConcurrent \in Nat
  BY Zenon, JobsEnough, FS_CardinalityType DEF MaxConcurrent

\* The end of a job keeps the invariant.
LEMMA ExitStep ==
    ASSUME IInv, NEW j \in Jobs, Around, Exit(j)
    PROVE  IInv'
<1>1. /\ job[j].pc = "exit" /\ UNCHANGED <<slot, tracked, bandOf, leaseVars, specs>>
      /\ sem' = sem - 1 /\ job' = [job EXCEPT ![j] = Idle]
  BY Zenon DEF Exit
<1>2. PICK s \in Sessions : job[j].session = s
  BY Zenon, <1>1, BusySession DEF IInv
<1>3. UNCHANGED <<env, requests, position, committed, runStatus, proc, loop, toRecover, disruptions>> /\ Alive /\ Alive'
  BY Zenon DEF Around, kafkaVars, Alive
<1>4. job \in [Jobs -> [pc : Stages, session : Sessions \cup {NoSession}, panicked : BOOLEAN]]
  BY Zenon DEF IInv, Types, TypeOK
<1>5. /\ job'[j] = Idle /\ \A i \in Jobs : i # j => job'[i] = job[i]
      /\ Idle \in [pc : Stages, session : Sessions \cup {NoSession}, panicked : BOOLEAN]
  BY Zenon, <1>1, <1>4 DEF Idle, Stages
<1>6. job' \in [Jobs -> [pc : Stages, session : Sessions \cup {NoSession}, panicked : BOOLEAN]]
  BY Zenon, <1>1, <1>4, <1>5
<1>7. /\ statusTopic' \in [Sessions -> Seq({"completed", "failed"})]
      /\ \A t \in Sessions : t # s => statusTopic'[t] = statusTopic[t]
  BY Zenon, <1>2, FailFacts DEF IInv, Exit
<1>8. Idle.pc = "idle" /\ Idle.session = NoSession /\ NoSession \notin Sessions
  BY Zenon, NullsApart DEF Idle
<1>9. sem = Cardinality(Busy) + (IF loop.pc \in {"commit", "start"} THEN 1 ELSE 0) /\ sem \in 0..MaxConcurrent
  BY Zenon DEF IInv, Slots, Types, TypeOK
<1>10. Busy' = Busy \ {j} /\ j \in Busy
  BY Zenon, <1>1, <1>5, <1>8 DEF Busy
<1>11. Cardinality(Busy') = Cardinality(Busy) - 1 /\ Cardinality(Busy') \in Nat
  BY Zenon, <1>10, BusyFinite, FS_RemoveElement, FS_CardinalityType
<1>12. Slots' /\ sem' \in 0..MaxConcurrent
  BY <1>1, <1>3, <1>9, <1>11, BusyFinite, BandsCounted DEF Slots
<1>13. Types'
  <2>1. TypeOK'
    BY Zenon, <1>1, <1>3, <1>6, <1>7, <1>12 DEF IInv, Types, TypeOK
  <2>2. call' = call
    BY Zenon, <1>1 DEF leaseVars
  <2>3. \A i \in Jobs : IF job'[i].pc = "idle" THEN job'[i] = Idle ELSE job'[i].session \in Sessions
    BY Zenon, <1>5, <1>8 DEF IInv, Types
  <2> QED BY Zenon, <1>3, <2>1, <2>2, <2>3 DEF IInv, Types
<1>14. Owners'
  <2>1. job[j].pc \notin IsTracked /\ job'[j].pc \notin IsTracked /\ UNCHANGED <<tracked, call, bandOf>>
    BY Zenon, <1>1, <1>5, <1>8 DEF IsTracked, HoldsParts, HoldsBand, HoldsSlot, Driving, leaseVars
  <2> QED BY Zenon, <1>5, <2>1, OwnersOutside DEF IInv
<1>15. Once'
  <2> SUFFICES ASSUME SweptBeforeRedelivery'
               PROVE  Requested' /\ \A t \in Sessions : OnceOf(t)'
    BY Zenon DEF Once
  <2>1. Requested /\ \A t \in Sessions : OnceOf(t)
    BY Zenon, <1>3 DEF SweptBeforeRedelivery, Once, IInv
  <2>2. Requested'
    BY <1>3, <1>5, <1>8, <2>1 DEF Requested
  <2>3. PICK k \in 1..position : requests[k] = s
    BY Zenon, <1>1, <1>2, <2>1 DEF Requested
  <2>4. position \in 0..Len(requests) /\ Len(requests) \in Nat /\ k \in 1..Len(requests)
    BY SeqLen DEF IInv, Types, TypeOK
  <2>5. ASSUME NEW t \in Sessions
        PROVE  OnceOf(t)'
    <3>1. Has(t, (BeforeSlot \ {"precheck"}) \cup Deploying \cup AfterPublish)' <=>
              Has(t, (BeforeSlot \ {"precheck"}) \cup Deploying \cup AfterPublish)
      <4>1. {"exit", "idle"} \cap ((BeforeSlot \ {"precheck"}) \cup Deploying \cup AfterPublish) = {}
        BY Zenon DEF BeforeSlot, Deploying, AfterPublish, Driving
      <4> QED BY Zenon, <1>1, <1>5, <1>8, <4>1, HasOwn
    <3>2. t # s => (Untouched(t)' <=> Untouched(t))
      BY Zenon, <1>1, <1>7 DEF Untouched
    <3>3. t = s => runStatus[t] # "none"
      BY Zenon, <2>1, <2>3, <2>4 DEF OnceOf
    <3>4. Attended(t) => Attended(t)'
      <4> SUFFICES ASSUME Attended(t) PROVE Attended(t)'
        BY Zenon
      <4>1. CASE t # s
        <5>1. statusTopic'[t] = statusTopic[t] /\ specs' = specs
          BY Zenon, <1>1, <1>7, <4>1
        <5> QED BY Zenon, <1>3, <1>5, <1>8, <3>2, <4>1, <5>1 DEF Attended
      <4>2. CASE t = s
        <5>1. \A i \in Jobs : job'[i].session # s
          BY Zenon, <1>2, <1>5, <1>8, <4>2 DEF Attended
        <5>2. loop.session # s
          BY Zenon, <1>2, <4>2 DEF Attended
        <5>3. \A i \in position + 1..Len(requests) : requests[i] # s
          BY <2>1, <2>3, <2>4 DEF Requested
        <5> QED BY Zenon, <1>3, <4>2, <5>1, <5>2, <5>3 DEF Attended
      <4> QED BY Zenon, <4>1, <4>2
    <3>5. proc' # "recovering" /\ (Terminal(t)' <=> Terminal(t))
      BY Zenon, <1>3 DEF Terminal, Alive
    <3> QED BY Zenon, <1>1, <1>3, <2>1, <3>1, <3>2, <3>3, <3>4, <3>5 DEF OnceOf
  <2> QED BY Zenon, <2>2, <2>5
<1>16. Fresh'
  <2>1. (SlotsFresh' <=> SlotsFresh) /\ (NoLeak' <=> NoLeak)
    BY Zenon, <1>3 DEF SlotsFresh, SweptBeforeRedelivery, NoLeak
  <2>2. "exit" \notin HoldsSlot /\ "idle" \notin HoldsSlot /\ "idle" \notin {"deploy"} \cup Driving
    BY Zenon DEF HoldsSlot, Driving
  <2>3. \A t : Has(t, HoldsSlot)' <=> Has(t, HoldsSlot)
    BY Zenon, <1>1, <1>5, <1>8, <2>2, HasOwn
  <2> QED BY <1>1, <1>3, <1>5, <1>8, <2>1, <2>2, <2>3 DEF IInv, Fresh
<1> QED
  BY Zenon, <1>12, <1>13, <1>14, <1>15, <1>16 DEF IInv

\* Every step of a job keeps the invariant.
LEMMA JobSteps ==
    ASSUME IInv, NEW j \in Jobs, JobStep(j) \/ JobPanics(j)
    PROVE  IInv'
<1>1. Around
  BY Zenon DEF JobStep, JobPanics, Around
<1>2. \/ Precheck(j) \/ Add(j) \/ AcquirePartitions(j) \/ LeaseWait(j) \/ AcquireBand(j)
      \/ CreateSlot(j) \/ StageFails(j) \/ StageSucceeds(j) \/ PublishSpecs(j) \/ Complete(j)
      \/ DeleteSlot(j) \/ ReleaseBand(j) \/ ReleaseParts(j) \/ Drop(j) \/ Exit(j) \/ Panic(j)
  BY Zenon DEF JobStep, JobPanics
<1> QED
  BY Zenon, <1>1, <1>2, PrecheckStep, AddStep, AcquirePartitionsStep, LeaseWaitStep,
     AcquireBandStep,
     CreateSlotStep,
     StageFailsStep, StageSucceedsStep, PublishSpecsStep, CompleteStep, DeleteSlotStep, ReleaseBandStep,
     ReleasePartsStep, DropStep, ExitStep, PanicStep

\* acquireDispatchSlot, CommitMessages and ctx.Done keep the message.
LEMMA LoopKeepsMessage ==
    ASSUME IInv, AcquireDispatchSlot \/ Commit \/ LoopStops
    PROVE  IInv'
<1>1. /\ Alive /\ Alive' /\ UNCHANGED <<env, requests, position, runStatus, statusTopic, slot, proc, job, tracked,
                                        bandOf, leaseVars, toRecover, specs, disruptions>>
  BY Zenon DEF AcquireDispatchSlot, Commit, LoopStops, Alive, kafkaVars
<1>2. loop \in [pc : {"fetch", "acquire", "commit", "start", "stopped"}, session : Sessions \cup {NoSession}]
  BY Zenon DEF IInv, Types, TypeOK
<1>3. PICK pc \in {"commit", "start", "stopped"} : loop' = [loop EXCEPT !.pc = pc]
  BY Zenon DEF AcquireDispatchSlot, Commit, LoopStops
<1>4. loop'.pc = pc /\ loop'.session = loop.session /\ loop' \in [pc : {"fetch", "acquire", "commit", "start", "stopped"}, session : Sessions \cup {NoSession}]
  BY Zenon, <1>2, <1>3
<1>5. /\ sem' \in 0..MaxConcurrent
      /\ sem' - sem = (IF loop'.pc \in {"commit", "start"} THEN 1 ELSE 0) - (IF loop.pc \in {"commit", "start"} THEN 1 ELSE 0)
      /\ loop'.pc = "stopped" \/ loop.pc \in {"acquire", "commit"}
  <2>1. sem \in 0..MaxConcurrent /\ MaxConcurrent \in Nat
    BY Zenon, BandsCounted DEF IInv, Types, TypeOK
  <2>2. CASE AcquireDispatchSlot
    <3>1. sem' = sem + 1 /\ sem < MaxConcurrent /\ loop.pc = "acquire" /\ loop'.pc = "commit"
      BY Zenon, <1>2, <2>2 DEF AcquireDispatchSlot
    <3> QED BY <2>1, <3>1
  <2>3. CASE Commit
    <3>1. sem' = sem /\ loop.pc = "commit" /\ loop'.pc = "start"
      BY Zenon, <1>2, <2>3 DEF Commit
    <3> QED BY <2>1, <3>1
  <2>4. CASE LoopStops
    <3>1. sem' = sem /\ loop.pc \in {"fetch", "acquire"} /\ loop'.pc = "stopped"
      BY Zenon, <1>2, <2>4 DEF LoopStops
    <3> QED BY <2>1, <3>1
  <2> QED BY Zenon, <2>2, <2>3, <2>4
<1>6. committed' \in 0..Len(requests) /\ position \in committed'..Len(requests)
  <2>1. Len(requests) \in Nat /\ committed \in 0..Len(requests) /\ position \in committed..Len(requests)
    BY Zenon, SeqLen DEF IInv, Types, TypeOK
  <2>2. committed' \in {committed, position}
    BY Zenon DEF AcquireDispatchSlot, Commit, LoopStops, kafkaVars
  <2> QED BY <2>1, <2>2
<1>7. Types'
  <2>1. call' = call
    BY Zenon, <1>1 DEF leaseVars
  <2>2. TypeOK'
    BY Zenon, <1>1, <1>4, <1>5, <1>6 DEF IInv, Types, TypeOK
  <2>3. loop'.pc # "fetch" /\ (loop'.pc = "stopped" \/ loop'.session \in Sessions)
    BY Zenon, <1>3, <1>4, <1>5 DEF IInv, Types
  <2> QED BY Zenon, <1>1, <2>1, <2>2, <2>3 DEF IInv, Types
<1>8. Owners' /\ Fresh'
  BY Zenon, <1>1, OwnersFreshStill DEF leaseVars
<1>9. Slots'
  <2>1. Busy' = Busy
    BY Zenon, <1>1 DEF Busy
  <2>2. sem = Cardinality(Busy) + (IF loop.pc \in {"commit", "start"} THEN 1 ELSE 0) /\ Cardinality(Busy) \in Nat /\ sem' \in Int
    BY <1>5, BusyFinite, BandsCounted DEF IInv, Slots
  <2> QED BY <1>5, <2>1, <2>2 DEF Slots
<1>10. Once'
  BY Zenon, <1>1, <1>4, OnceStill DEF IInv
<1> QED
  BY Zenon, <1>7, <1>8, <1>9, <1>10 DEF IInv

\* A goroutine id is free: the loop holds a dispatch slot that no goroutine has.
LEMMA IdleJob ==
    ASSUME IInv, loop.pc = "start"
    PROVE  \E j \in Jobs : job[j] = Idle
<1> SUFFICES ASSUME \A j \in Jobs : job[j] # Idle PROVE FALSE
  BY Zenon
<1>1. Busy = Jobs
  BY Zenon DEF Busy
<1>2. sem = Cardinality(Jobs) + 1 /\ sem <= Cardinality(Bands)
  BY <1>1, BandsCounted DEF IInv, Slots, Types, TypeOK, MaxConcurrent
<1>3. Cardinality(Jobs) \in Nat /\ Cardinality(Bands) \in Nat /\ Cardinality(Bands) <= Cardinality(Jobs)
  BY Zenon, JobsEnough, FS_CardinalityType
<1> QED
  BY <1>2, <1>3

\* Starting a session keeps the invariant.
LEMMA StartSessionStep ==
    ASSUME IInv, StartSession
    PROVE  IInv'
<1>1. /\ Alive /\ loop.pc = "start" /\ loop' = [pc |-> "fetch", session |-> NoSession]
      /\ UNCHANGED <<env, requests, position, committed, runStatus, statusTopic, slot, proc, sem, tracked, bandOf,
                     leaseVars, toRecover, specs, disruptions>>
  BY Zenon DEF StartSession, kafkaVars
<1>2. PICK s \in Sessions : loop.session = s
  BY Zenon, <1>1 DEF IInv, Types
<1>3. PICK j \in Jobs : /\ job[j] = Idle
                        /\ job' = [job EXCEPT ![j] = [Idle EXCEPT !.pc = "precheck", !.session = s]]
  <2>1. (CHOOSE i \in Jobs : job[i] = Idle) \in Jobs /\ job[CHOOSE i \in Jobs : job[i] = Idle] = Idle
    BY Zenon, <1>1, IdleJob
  <2> QED BY Zenon, <1>2, <2>1 DEF StartSession
<1>4. job \in [Jobs -> [pc : Stages, session : Sessions \cup {NoSession}, panicked : BOOLEAN]]
  BY Zenon DEF IInv, Types, TypeOK
<1> DEFINE new == [Idle EXCEPT !.pc = "precheck", !.session = s]
<1>5. /\ new \in [pc : Stages, session : Sessions \cup {NoSession}, panicked : BOOLEAN]
      /\ new.pc = "precheck" /\ new.session = s
      /\ Idle.pc = "idle" /\ Idle.session = NoSession /\ NoSession # s
  BY Zenon, NullsApart DEF Idle, Stages
<1>6. new # Idle
  BY Zenon, <1>5
<1>7. /\ job'[j] = new /\ \A i \in Jobs : i # j => job'[i] = job[i]
      /\ job' \in [Jobs -> [pc : Stages, session : Sessions \cup {NoSession}, panicked : BOOLEAN]]
  BY Zenon, <1>3, <1>4, <1>5
<1> HIDE DEF new
<1>8. loop'.pc = "fetch" /\ loop'.session = NoSession /\ Alive' /\ call' = call
  BY Zenon, <1>1 DEF Alive, leaseVars
<1>9. Types'
  <2>1. loop' \in [pc : {"fetch", "acquire", "commit", "start", "stopped"}, session : Sessions \cup {NoSession}]
    BY Zenon, <1>1
  <2>2. TypeOK'
    BY Zenon, <1>1, <1>7, <2>1 DEF IInv, Types, TypeOK
  <2>3. \A i \in Jobs : IF job'[i].pc = "idle" THEN job'[i] = Idle ELSE job'[i].session \in Sessions
    BY Zenon, <1>5, <1>7 DEF IInv, Types
  <2> QED BY Zenon, <1>8, <2>2, <2>3 DEF IInv, Types
<1>10. Owners'
  <2>1. job[j].pc \notin IsTracked /\ job'[j].pc \notin IsTracked
    BY Zenon, <1>3, <1>5, <1>7 DEF IsTracked, HoldsParts, HoldsBand, HoldsSlot, Driving
  <2> QED BY Zenon, <1>1, <1>7, <1>8, <2>1, OwnersOutside DEF IInv
<1>11. Slots'
  <2>1. Busy' = Busy \cup {j} /\ j \notin Busy
    BY Zenon, <1>3, <1>6, <1>7 DEF Busy
  <2>2. Cardinality(Busy') = Cardinality(Busy) + 1
    BY Zenon, <2>1, BusyFinite, FS_AddElement
  <2>3. sem = Cardinality(Busy) + 1
    BY Zenon, <1>1 DEF IInv, Slots
  <2> QED BY <1>1, <1>8, <2>2, <2>3, BusyFinite DEF Slots
<1>12. Once'
  <2> SUFFICES ASSUME SweptBeforeRedelivery'
               PROVE  Requested' /\ \A t \in Sessions : OnceOf(t)'
    BY Zenon DEF Once
  <2>1. Requested /\ \A t \in Sessions : OnceOf(t)
    BY Zenon, <1>1 DEF SweptBeforeRedelivery, Once, IInv
  <2>2. PICK k \in 1..position : requests[k] = s
    BY Zenon, <1>2, <2>1 DEF Requested
  <2>3. Requested'
    BY <1>1, <1>5, <1>7, <1>8, <2>1, <2>2, NullsApart DEF Requested
  <2>4. position \in 0..Len(requests) /\ Len(requests) \in Nat /\ k \in 1..Len(requests)
    BY SeqLen DEF IInv, Types, TypeOK
  <2>5. ASSUME NEW t \in Sessions
        PROVE  OnceOf(t)'
    <3>1. Has(t, (BeforeSlot \ {"precheck"}) \cup Deploying \cup AfterPublish)' <=>
              Has(t, (BeforeSlot \ {"precheck"}) \cup Deploying \cup AfterPublish)
      <4>1. {"precheck", "idle"} \cap ((BeforeSlot \ {"precheck"}) \cup Deploying \cup AfterPublish) = {}
        BY Zenon DEF BeforeSlot, Deploying, AfterPublish, Driving
      <4> QED BY Zenon, <1>3, <1>5, <1>7, <4>1, HasOwn
    <3>2. (Untouched(t)' <=> Untouched(t)) /\ (Terminal(t)' <=> Terminal(t))
      BY Zenon, <1>1 DEF Untouched, Terminal
    <3>3. Attended(t) => Attended(t)'
      <4> SUFFICES ASSUME Attended(t) PROVE Attended(t)'
        BY Zenon
      <4>1. CASE t # s
        <5>1. \A i \in Jobs : job'[i].session = t => job'[i] = job[i]
          BY Zenon, <1>5, <1>7, <4>1
        <5> QED BY Zenon, <1>1, <1>8, <3>2, <5>1, NullsApart DEF Attended
      <4>2. CASE t = s
        <5>1. Untouched(s) /\ \A i \in Jobs : job[i].session # s
          BY Zenon, <1>2, <4>2 DEF Attended
        <5>2. \A i \in Jobs : job'[i].session = s => i = j
          BY Zenon, <1>7, <5>1
        <5>3. "precheck" \in BeforeSlot /\ "precheck" \notin Deploying \cup AfterPublish
          BY Zenon DEF BeforeSlot, Deploying, AfterPublish, Driving
        <5> QED BY <1>1, <1>5, <1>7, <1>8, <3>2, <4>2, <5>1, <5>2, <5>3 DEF Attended
      <4> QED BY Zenon, <4>1, <4>2
    <3>4. proc' # "recovering"
      BY Zenon, <1>1 DEF Alive
    <3> QED BY Zenon, <1>1, <2>1, <3>1, <3>2, <3>3, <3>4 DEF OnceOf
  <2> QED BY Zenon, <2>3, <2>5
<1>13. Fresh'
  <2>1. (SlotsFresh' <=> SlotsFresh) /\ (NoLeak' <=> NoLeak)
    BY Zenon, <1>1 DEF SlotsFresh, SweptBeforeRedelivery, NoLeak
  <2>2. "precheck" \notin HoldsSlot /\ "idle" \notin HoldsSlot /\ "precheck" \notin {"deploy"} \cup Driving
    BY Zenon DEF HoldsSlot, Driving
  <2>3. \A t : Has(t, HoldsSlot)' <=> Has(t, HoldsSlot)
    BY Zenon, <1>3, <1>5, <1>7, <2>2, HasOwn
  <2> QED BY <1>1, <1>5, <1>7, <2>1, <2>2, <2>3 DEF IInv, Fresh
<1> QED
  BY Zenon, <1>9, <1>10, <1>11, <1>12, <1>13 DEF IInv

\* A process that dies takes its goroutines, and what they held, with it.
LEMMA DiesStep ==
    ASSUME IInv, ProcessExits \/ Crash
    PROVE  IInv'
<1>1. Dies /\ (proc = "stopping" \/ "crash" \in env.faults)
  BY Zenon DEF ProcessExits, Crash
<1>2. /\ proc' = "down" /\ loop' = [pc |-> "fetch", session |-> NoSession] /\ sem' = 0
      /\ job' = [j \in Jobs |-> Idle] /\ tracked' = {} /\ bandOf' = [s \in Sessions |-> NoBand]
      /\ call' = [s \in Sessions |-> "idle"] /\ toRecover' = {}
      /\ UNCHANGED <<env, requests, position, committed, runStatus, statusTopic, slot, specs>>
  BY Zenon, <1>1 DEF Dies, kafkaVars
<1>3. /\ \A j \in Jobs : job'[j] = Idle
      /\ Idle.pc = "idle" /\ Idle.session = NoSession /\ NoSession \notin Sessions
      /\ ~Alive' /\ loop'.pc = "fetch" /\ loop'.session = NoSession
  BY Zenon, <1>2, NullsApart DEF Idle, Alive
<1>4. Types'
  <2>1. disruptions' \in 0..env'.disruptions
    <3>1. env.disruptions \in Nat /\ disruptions \in 0..env.disruptions
      BY Zenon, EnvironmentsKnown DEF IInv, Types, TypeOK
    <3> QED BY <1>2, <3>1 DEF ProcessExits, Crash
  <2>2. job' \in [Jobs -> [pc : Stages, session : Sessions \cup {NoSession}, panicked : BOOLEAN]]
    BY Zenon, <1>2 DEF Idle, Stages
  <2>3. sem' \in 0..MaxConcurrent
    BY <1>2, BandsCounted
  <2>4. TypeOK'
    BY Zenon, <1>2, <2>1, <2>2, <2>3 DEF IInv, Types, TypeOK
  <2>5. call' \in [Sessions -> {"idle", "waiting", "undoing", "held"}]
    BY Zenon, <1>2
  <2> QED BY Zenon, <1>3, <2>4, <2>5 DEF Types
<1>5. \A s \in Sessions : \A stages : ~Has(s, stages)'
  BY Zenon, <1>3 DEF Has
<1>6. Owners'
  <2>1. "idle" \notin IsTracked
    BY Zenon, StageSets
  <2> QED BY Zenon, <1>2, <1>3, <1>5, <2>1 DEF Owners
<1>7. Slots'
  <2>1. Busy' = {}
    BY Zenon, <1>3 DEF Busy
  <2> QED BY <1>2, <1>3, <2>1, FS_EmptySet DEF Slots
<1>8. Once'
  <2> SUFFICES ASSUME SweptBeforeRedelivery'
               PROVE  Requested' /\ \A t \in Sessions : OnceOf(t)'
    BY Zenon DEF Once
  <2>1. Requested /\ \A t \in Sessions : OnceOf(t)
    BY Zenon, <1>2 DEF SweptBeforeRedelivery, Once, IInv
  <2>2. Requested'
    BY Zenon, <1>2, <1>3, <2>1 DEF Requested
  <2>3. ASSUME NEW t \in Sessions
        PROVE  OnceOf(t)'
    <3>1. Untouched(t)' <=> Untouched(t)
      BY Zenon, <1>2 DEF Untouched
    <3> QED BY Zenon, <1>2, <1>3, <1>5, <2>1, <3>1 DEF OnceOf
  <2> QED BY Zenon, <2>2, <2>3
<1>9. Fresh'
  <2>1. ~NoLeak'
    BY Zenon, <1>1, <1>2 DEF IInv, Fresh, NoLeak
  <2>2. "idle" \notin {"deploy"} \cup Driving
    BY Zenon DEF Driving
  <2> QED BY Zenon, <1>3, <2>1, <2>2 DEF Fresh
<1> QED
  BY Zenon, <1>4, <1>6, <1>7, <1>8, <1>9 DEF IInv

-----------------------------------------------------------------------------
(* The theorems *)

\* The invariant holds initially.
LEMMA InitHolds == Init => IInv
<1> SUFFICES ASSUME Init PROVE IInv
  BY Zenon
<1>1. /\ env \in Environments /\ requests = <<>> /\ position = 0 /\ committed = 0
      /\ runStatus = [s \in Sessions |-> "none"] /\ statusTopic = [s \in Sessions |-> <<>>]
      /\ slot = [s \in Sessions |-> NoBand] /\ proc = "up" /\ toRecover = {}
      /\ specs = [s \in Sessions |-> 0] /\ disruptions = 0
      /\ loop = [pc |-> "fetch", session |-> NoSession] /\ sem = 0 /\ job = [j \in Jobs |-> Idle]
      /\ tracked = {} /\ bandOf = [s \in Sessions |-> NoBand] /\ call = [s \in Sessions |-> "idle"]
  BY Zenon DEF Init, FreshProcess, Leases!Init
<1>2. /\ \A j \in Jobs : job[j] = Idle
      /\ Idle.pc = "idle" /\ Idle.session = NoSession /\ NoSession \notin Sessions
      /\ Alive /\ loop.pc = "fetch" /\ loop.session = NoSession
  BY Zenon, <1>1, NullsApart DEF Idle, Alive
<1>3. Types
  <2>1. requests \in Seq(Sessions) /\ Len(requests) = 0
    BY <1>1
  <2>2. statusTopic \in [Sessions -> Seq({"completed", "failed"})]
    BY <1>1
  <2>3. job \in [Jobs -> [pc : Stages, session : Sessions \cup {NoSession}, panicked : BOOLEAN]]
    BY Zenon, <1>1 DEF Idle, Stages
  <2>4. sem \in 0..MaxConcurrent /\ disruptions \in 0..env.disruptions
    BY <1>1, BandsCounted, EnvironmentsKnown
  <2>5. TypeOK
    BY <1>1, <2>1, <2>2, <2>3, <2>4 DEF TypeOK
  <2>6. call \in [Sessions -> {"idle", "waiting", "undoing", "held"}]
    BY Zenon, <1>1
  <2> QED BY Zenon, <1>2, <2>5, <2>6 DEF Types
<1>4. \A s \in Sessions : \A stages : ~Has(s, stages)
  BY Zenon, <1>2 DEF Has
<1>5. Owners
  <2>1. "idle" \notin IsTracked
    BY Zenon, StageSets
  <2> QED BY Zenon, <1>1, <1>2, <1>4, <2>1 DEF Owners
<1>6. Slots
  <2>1. Busy = {}
    BY Zenon, <1>2 DEF Busy
  <2> QED BY <1>1, <1>2, <2>1, FS_EmptySet DEF Slots
<1>7. Once
  <2>1. Requested
    BY <1>1, <1>2 DEF Requested
  <2>2. \A t \in Sessions : OnceOf(t)
    BY <1>1, <1>4 DEF OnceOf, Untouched
  <2> QED BY Zenon, <2>1, <2>2 DEF Once
<1>8. Fresh
  <2>1. "idle" \notin {"deploy"} \cup Driving
    BY Zenon DEF Driving
  <2> QED BY Zenon, <1>1, <1>2, <2>1 DEF Fresh
<1> QED
  BY Zenon, <1>3, <1>5, <1>6, <1>7, <1>8 DEF IInv

\* Every step keeps the invariant.
LEMMA NextKeeps == IInv /\ [Next]_vars => IInv'
<1> SUFFICES ASSUME IInv, [Next]_vars PROVE IInv'
  BY Zenon
<1>1. CASE Next
  <2>1. ASSUME NEW s \in Sessions, Request(s) \/ ApplyStatus(s) PROVE IInv'
    BY Zenon, <2>1, RequestStep, ApplyStatusStep
  <2>2. CASE LoopStep
    BY Zenon, <2>2, FetchStep, LoopKeepsMessage, StartSessionStep DEF LoopStep
  <2> QED
    BY Zenon, <1>1, <2>1, <2>2, RebalanceStep, JobSteps, ShutdownStep, DiesStep, RecoverySteps
    DEF Next
<1>2. CASE UNCHANGED vars
  <2>1. UNCHANGED <<env, requests, position, committed, runStatus, statusTopic, slot, proc, loop, sem, job, tracked,
                    bandOf, call, toRecover, specs, disruptions>>
    BY Zenon, <1>2 DEF vars, kafkaVars, volatile, leaseVars
  <2>2. Alive' <=> Alive
    BY Zenon, <2>1 DEF Alive
  <2>3. Types'
    BY Zenon, <2>1, <2>2 DEF IInv, Types, TypeOK
  <2>4. Owners' /\ Fresh'
    BY Zenon, <2>1, OwnersFreshStill
  <2>5. Slots'
    <3>1. Busy' = Busy
      BY Zenon, <2>1 DEF Busy
    <3> QED BY Zenon, <2>1, <3>1 DEF IInv, Slots
  <2>6. Once'
    BY Zenon, <2>1, <2>2, OnceStill DEF IInv
  <2> QED BY Zenon, <2>3, <2>4, <2>5, <2>6 DEF IInv
<1> QED
  BY Zenon, <1>1, <1>2

\* The inductive invariant of the runner: goroutines own what the tables say they own,
\* and a request is in one place on its way from the topic to a goroutine.
THEOREM Invariance == Spec => []IInv
  BY InitHolds, NextKeeps, PTL DEF Spec

\* A goroutine that waits for a band is not among those that have one, and they are
\* fewer than the dispatch slots.
LEMMA BandFree ==
    ASSUME IInv, NEW j \in Jobs, job[j].pc = "band"
    PROVE  FreeBands # {}
<1> SUFFICES ASSUME \A b \in Bands : \E s \in Sessions : bandOf[s] = b
             PROVE  FALSE
  BY Zenon DEF FreeBands
<1> DEFINE H == {i \in Jobs : job[i].pc \in HoldsBand}
           f == [i \in H |-> bandOf[job[i].session]]
<1>1. "idle" \notin HoldsBand /\ "band" \notin HoldsBand /\ "band" # "idle" /\ HoldsBand \subseteq IsTracked
  BY Zenon DEF HoldsBand, HoldsSlot, Driving, IsTracked, HoldsParts
<1>2. H \subseteq Busy \ {j} /\ j \in Busy
  BY <1>1 DEF Busy, Idle
<1>3. f \in Surjection(H, Bands)
  <2>1. \A i \in H : bandOf[job[i].session] \in Bands
    <3> TAKE i \in H
    <3>1. job[i].session \in Sessions
      BY Zenon, <1>1, BusySession DEF IInv
    <3>2. bandOf[job[i].session] # NoBand
      BY Zenon, <1>1, <3>1, OwnStage DEF IInv
    <3> QED BY <3>1, <3>2 DEF IInv, Types, TypeOK
  <2>2. \A b \in Bands : \E i \in H : bandOf[job[i].session] = b
    <3> TAKE b \in Bands
    <3>1. PICK s \in Sessions : bandOf[s] = b
      BY Zenon
    <3>2. Has(s, HoldsBand)
      BY Zenon, <3>1, NullsApart DEF IInv, Owners
    <3> QED BY Zenon, <3>1, <3>2 DEF Has
  <2> QED BY Zenon, <2>1, <2>2 DEF Surjection
<1>4. Cardinality(Busy \ {j}) = Cardinality(Busy) - 1 /\ IsFiniteSet(Busy \ {j})
  BY Zenon, <1>2, BusyFinite, FS_RemoveElement
<1>5. IsFiniteSet(H) /\ Cardinality(H) <= Cardinality(Busy) - 1
  BY <1>2, <1>4, FS_Subset
<1>6. Cardinality(Bands) <= Cardinality(H)
  BY Zenon, <1>3, <1>5, FS_Surjection
<1>7. Cardinality(Busy) <= sem /\ sem <= Cardinality(Bands) /\ sem \in Int
  BY BusyFinite, BandsCounted DEF IInv, Slots, Types, TypeOK, MaxConcurrent
<1>8. Cardinality(H) \in Nat /\ Cardinality(Bands) \in Nat /\ Cardinality(Busy) \in Nat
  BY Zenon, <1>5, BusyFinite, JobsEnough, FS_CardinalityType
<1> QED
  BY <1>5, <1>6, <1>7, <1>8

\* The invariant implies that every resource has one owner ...
LEMMA OwnedFollows == IInv => ResourcesOwned
<1> SUFFICES ASSUME IInv, Alive PROVE ResourcesOwned
  BY Zenon DEF ResourcesOwned
<1>1. \A s, stages : JobsIn(s, stages) # {} <=> Has(s, stages)
  BY Zenon DEF JobsIn, Has
<1>2. ASSUME NEW s \in Sessions
      PROVE  Cardinality(JobsIn(s, IsTracked)) = IF s \in tracked THEN 1 ELSE 0
  <2>1. CASE s \in tracked
    <3>1. PICK j \in Jobs : job[j].session = s /\ job[j].pc \in IsTracked
      BY Zenon, <2>1 DEF IInv, Owners, Has
    <3>2. JobsIn(s, IsTracked) = {j}
      BY Zenon, <3>1 DEF IInv, Owners, JobsIn
    <3> QED BY Zenon, <2>1, <3>2, FS_Singleton
  <2>2. CASE s \notin tracked
    <3>1. JobsIn(s, IsTracked) = {}
      BY Zenon, <1>1, <2>2 DEF IInv, Owners
    <3> QED BY Zenon, <2>2, <3>1, FS_EmptySet
  <2> QED BY Zenon, <2>1, <2>2
<1>3. ASSUME NEW s \in Sessions
      PROVE  /\ call[s] = "held" <=> JobsIn(s, HoldsParts) # {}
             /\ call[s] \in {"waiting", "undoing"} <=> JobsIn(s, {"parked"}) # {}
             /\ bandOf[s] # NoBand <=> JobsIn(s, HoldsBand) # {}
  <2>1. /\ call[s] = "held" <=> Has(s, HoldsParts)
        /\ call[s] \in {"waiting", "undoing"} <=> Has(s, {"parked"})
        /\ bandOf[s] # NoBand <=> Has(s, HoldsBand)
    BY Zenon DEF IInv, Owners
  <2> QED BY Zenon, <1>1, <2>1
<1>4. sem = Cardinality({j \in Jobs : job[j] # Idle}) + (IF loop.pc \in {"commit", "start"} THEN 1 ELSE 0)
  BY Zenon DEF IInv, Slots, Busy
<1>5. \A j \in Jobs : job[j].pc = "band" => FreeBands # {}
  BY Zenon, BandFree
<1>6. SlotsFresh => \A j \in Jobs : job[j].pc \in Driving => slot[job[j].session] = bandOf[job[j].session]
  BY Zenon DEF IInv, Fresh
<1>7. ASSUME SlotsFresh, NEW i \in Jobs, NEW j \in Jobs, i # j, job[i].pc \in Driving, job[j].pc \in Driving
      PROVE  slot[job[i].session] # slot[job[j].session]
  <2>1. /\ job[i].pc \in IsTracked /\ job[j].pc \in IsTracked /\ job[i].pc \in HoldsBand /\ job[j].pc \in HoldsBand
        /\ job[i].pc # "idle" /\ job[j].pc # "idle"
    BY Zenon, <1>7, StageSets
  <2>2. job[i].session \in Sessions /\ job[j].session \in Sessions /\ job[i].session # job[j].session
    BY Zenon, <1>7, <2>1, BusySession DEF IInv, Owners
  <2>3. bandOf[job[i].session] # NoBand
    BY Zenon, <2>1, <2>2, OwnStage DEF IInv
  <2>4. bandOf[job[i].session] # bandOf[job[j].session]
    BY Zenon, <2>2, <2>3 DEF IInv, Owners
  <2> QED BY Zenon, <1>6, <1>7, <2>4
<1> QED
  BY Zenon, <1>2, <1>3, <1>4, <1>5, <1>6, <1>7 DEF ResourcesOwned

\* ... and that a session is driven once.
LEMMA DrivenFollows == IInv => DrivenOnce
<1> SUFFICES ASSUME IInv, SweptBeforeRedelivery, NEW s \in Sessions
             PROVE  specs[s] <= 1 /\ (runStatus[s] \in {"completed", "failed"} => JobsIn(s, Driving) = {})
  BY Zenon DEF DrivenOnce
<1>1. OnceOf(s)
  BY Zenon DEF IInv, Once
<1>2. Driving \subseteq Deploying \cup AfterPublish
  BY Zenon DEF Driving, Deploying, AfterPublish
<1>3. Terminal(s) => ~Has(s, (BeforeSlot \ {"precheck"}) \cup Deploying \cup AfterPublish)
  BY Zenon, <1>1 DEF OnceOf
<1>4. Terminal(s) => \A j \in Jobs : ~(job[j].session = s /\ job[j].pc \in Driving)
  BY Zenon, <1>2, <1>3 DEF Has
<1> QED
  BY Zenon, <1>1, <1>4 DEF OnceOf, Terminal, JobsIn

\* Every resource of the controller has exactly one owner on every path through Run:
\* the session table, the partition leases, the bands and the dispatch slots agree with
\* where the goroutines are, a session with its partitions finds a band free, and the
\* sandbox is driven on the band its session leases.
THEOREM EveryResourceOwned == Spec => []ResourcesOwned
<1>1. IInv => ResourcesOwned
  BY Zenon, OwnedFollows
<1> QED
  BY <1>1, Invariance, PTL

\* No session's workload is published twice and no recorded run is driven, whenever the
\* process crashes or stops: the sweep of RecoverInFlightRuns and Run's precheck agree.
THEOREM SessionsDrivenOnce == Spec => []DrivenOnce
<1>1. IInv => DrivenOnce
  BY Zenon, DrivenFollows
<1> QED
  BY <1>1, Invariance, PTL
=============================================================================
