-------------------------- MODULE RunGroupsProofs --------------------------
(***************************************************************************)
(* Proofs about RunGroups, for any number of groups, scenarios and faults: *)
(* scenarios are driven in turn, and the rows come to tell what happened.  *)
(*                                                                         *)
(* A group that no sweep is closing has one run whose turn it is (Turn):   *)
(* those before it have ended, those after it were not touched, and its    *)
(* request is in one place only, from the claim to the message that tells  *)
(* its end.  A sweep breaks that, but by the time the controller starts    *)
(* sessions again every run of the groups it met has ended (Closing).      *)
(***************************************************************************)
EXTENDS RunGroups, TLAPS

Messages == [run : Runs, status : {"active"} \cup Terminal]

Ended(r) == runStatus[r] \in Terminal

\* The sweep has yet to fail this run.
Doomed(r) == sweep.pc = "down" \/ r \in sweep.runs

Closing(g) == \A r \in Runs : r[1] = g => Ended(r) \/ Doomed(r)
Driven(g) == \E r \in Runs : r[1] = g /\ ctl[r] = "running"

Silent(r) == \A n \in 1..Len(log) : log[n].run # r
Fresh(r) == r \notin inbox /\ ctl[r] = "none" /\ Silent(r)

\* A message that is not handled so far that the group's next run was claimed for it.
Pending(n) == n > pos \/ (n = pos /\ cons.pc \in {"update", "claim"})

Types ==
    /\ env \in Environments
    /\ click \in [Groups -> {"idle", "insert", "publish", "done"}]
    /\ groupStatus \in [Groups -> {"absent"} \cup ActiveGroup \cup Terminal]
    /\ \A g \in Groups : click[g] \in {"idle", "insert"} => groupStatus[g] = "absent"
    /\ runStatus \in [Runs -> {"absent", "requested", "queued", "active"} \cup Terminal]
    /\ inbox \subseteq Runs
    /\ ctl \in [Runs -> {"none", "running", "ended"}]
    /\ log \in Seq(Messages)
    /\ pos \in Nat /\ com \in Nat /\ com <= pos /\ pos <= Len(log)

\* The consumer has a message, and a claim made for it is of the same group.
Consuming ==
    /\ cons.pc \in {"fetch", "update", "claim", "publish", "reset", "count", "write", "commit"}
    /\ DOMAIN cons = {"pc", "run", "status", "next", "rollup"}
    /\ cons.pc # "fetch" =>
          /\ com < pos /\ cons.run = log[pos].run /\ cons.status = log[pos].status
    /\ cons.pc \in {"claim", "publish", "reset"} => cons.status \in Terminal /\ Ended(cons.run)
    /\ cons.pc \in {"publish", "reset"} => cons.next \in Runs /\ cons.next[1] = cons.run[1]
    /\ cons.pc = "write" =>
          /\ cons.rollup \in ActiveGroup \cup Terminal
          /\ cons.rollup \in Terminal => \A r \in Runs : r[1] = cons.run[1] => Ended(r)
          /\ cons.rollup = "completed" =>
                \A r \in Runs : r[1] = cons.run[1] => runStatus[r] = "completed"

\* The rows of a group come into being together, and nothing is known of it before.
Absent(g) ==
    /\ click[g] # "publish"
    /\ \A r \in Runs : r[1] = g => runStatus[r] = "absent" /\ Fresh(r) /\ r \notin sweep.runs

Present ==
    \A g \in Groups :
        IF groupStatus[g] = "absent" THEN Absent(g)
        ELSE \A r \in Runs : r[1] = g => runStatus[r] # "absent"

Sweeping ==
    /\ DOMAIN sweep = {"pc", "runs"} /\ sweep.pc \in {"up", "down", "sweeping"}
    /\ sweep.runs \subseteq Runs
    /\ sweep.pc # "sweeping" => sweep.runs = {}
    /\ \A r \in sweep.runs : Closing(r[1])
    /\ \A r \in Runs : ctl[r] = "running" => sweep.pc = "up"
    /\ ControllerStays => sweep.pc = "up"

\* It is the turn of run c in its group.
Turn(c) ==
    /\ \A r \in Runs : r[1] = c[1] /\ r[2] < c[2] => Ended(r) /\ r \notin inbox /\ ctl[r] # "running"
    /\ \A r \in Runs : r[1] = c[1] /\ r[2] > c[2] => runStatus[r] = "requested" /\ Fresh(r)
    /\ \A n \in 1..Len(log) :
          log[n].run[1] = c[1] /\ log[n].status \in Terminal /\ Pending(n) => log[n].run = c
    /\ \A n, m \in 1..Len(log) :
          (log[n].run = c /\ log[m].run = c /\ log[n].status \in Terminal /\ log[m].status \in Terminal) =>
              n = m
    /\ c \in inbox => ctl[c] = "none" /\ Silent(c) /\ ~Ended(c)
    /\ ctl[c] = "running" =>
          ~Ended(c) /\ \A n \in 1..Len(log) : log[n].run = c => log[n].status \notin Terminal
    /\ click[c[1]] = "publish" => c[2] = 1 /\ Fresh(c) /\ ~Ended(c)
    /\ cons.pc \in {"publish", "reset"} /\ cons.next[1] = c[1] => cons.next = c
    /\ cons.pc = "publish" /\ cons.next = c => Fresh(c) /\ ~Ended(c)

Orderly(g) == (Closing(g) /\ ~Driven(g)) \/ \E c \in Runs : c[1] = g /\ Turn(c)

InTurn ==
    "apiCrash" \notin env.faults => \A g \in Groups : groupStatus[g] # "absent" => Orderly(g)

\* The partial unique index, and a row that is closed only when its runs are.
OneOpen ==
    /\ \A g, h \in Groups : groupStatus[g] \in ActiveGroup /\ groupStatus[h] \in ActiveGroup => g = h
    /\ ApiReliable => \A g \in Groups :
          groupStatus[g] = "absent" \/ groupStatus[g] \in ActiveGroup \/ Closing(g)

\* The group's row is what its runs add up to, unless a message of it is still to be handled.
ToRead(g) == \E n \in (pos + 1)..Len(log) : log[n].run[1] = g
InHand(g) == cons.pc \notin {"fetch", "commit"} /\ cons.run[1] = g

Settled ==
    ApiReliable =>
        /\ cons.pc # "reset"
        /\ cons.pc = "write" => cons.rollup = Rollup(cons.run[1]) \/ ToRead(cons.run[1])
        /\ \A g \in Groups :
              /\ groupStatus[g] = "completed" => \A r \in Runs : r[1] = g => runStatus[r] = "completed"
              /\ (groupStatus[g] # "absent" /\ \A r \in Runs : r[1] = g => Ended(r)) =>
                     groupStatus[g] = Rollup(g) \/ ToRead(g) \/ InHand(g)

\* Where requests are not repeated, a session tells one outcome; where none is skipped,
\* the row knows of every outcome that was read.
TellsOnce ==
    \A n, m \in 1..Len(log) :
        (log[n].run = log[m].run /\ log[n].status \in Terminal /\ log[m].status \in Terminal) => n = m
Known ==
    \A n \in 1..pos :
        (n < pos \/ cons.pc # "update") /\ log[n].status \in Terminal => Ended(log[n].run)
Outcomes ==
    ControllerStays =>
        /\ "apiCrash" \notin env.faults => TellsOnce
        /\ "db" \notin env.faults => Known

IInv ==
    /\ Types /\ Consuming /\ Present /\ Sweeping
    /\ InTurn /\ OneOpen /\ Settled /\ Outcomes /\ OutcomeIsFirst

-----------------------------------------------------------------------------
(* Facts the steps share *)

\* What a run, an environment and a message are.
LEMMA RunFacts ==
    ASSUME NEW r \in Runs
    PROVE  r[1] \in Groups /\ r[2] \in 1..N /\ r = <<r[1], r[2]>>
  BY DEF Runs

\* A group and a position make a run ...
LEMMA RunMade ==
    ASSUME NEW g \in Groups, NEW i \in 1..N
    PROVE  <<g, i>> \in Runs
  BY Zenon DEF Runs

\* ... and determine it.
LEMMA SameRun ==
    ASSUME NEW r \in Runs, NEW q \in Runs, r[1] = q[1], r[2] = q[2]
    PROVE  r = q
  BY DEF Runs

\* What an environment fixes.
LEMMA EnvFacts ==
    ASSUME Types
    PROVE  N \in Nat \ {0} /\ env.faults \subseteq AllFaults
  BY Zenon, EnvironmentsKnown DEF Types, N

\* What depends on the environment only.
LEMMA EnvStill ==
    ASSUME env' = env
    PROVE  /\ N' = N /\ Runs' = Runs /\ Messages' = Messages
           /\ ApiReliable' = ApiReliable /\ ControllerStays' = ControllerStays
  BY Zenon DEF N, Runs, Messages, ApiReliable, ControllerStays

\* What a message of the status topic is.
LEMMA Message ==
    ASSUME Types, NEW n \in 1..Len(log)
    PROVE  /\ log[n] \in Messages /\ log[n].run \in Runs /\ log[n].run[1] \in Groups
           /\ log[n].status \in {"active"} \cup Terminal
<1>1. log[n] \in Messages
  BY DEF Types
<1> QED
  BY Zenon, <1>1, RunFacts DEF Messages

\* A message is added to benchmark.status.updated.
LEMMA Told ==
    ASSUME Types, NEW r \in Runs, NEW st \in {"active"} \cup Terminal, Published(r, st)
    PROVE  /\ log' \in Seq(Messages) /\ Len(log') = Len(log) + 1 /\ Len(log) \in Nat
           /\ log'[Len(log) + 1] = [run |-> r, status |-> st]
           /\ \A n \in 1..Len(log) : log'[n] = log[n]
           /\ \A n \in 1..Len(log') : n \in 1..Len(log) \/ n = Len(log) + 1
<1> DEFINE m == [run |-> r, status |-> st]
<1>1. m \in Messages /\ log' = Append(log, m) /\ log \in Seq(Messages)
  BY Zenon DEF Messages, Published, Types
<1> HIDE DEF m
<1>2. /\ log' \in Seq(Messages) /\ Len(log') = Len(log) + 1 /\ Len(log) \in Nat
      /\ log'[Len(log) + 1] = m /\ \A n \in 1..Len(log) : log'[n] = log[n]
  BY <1>1
<1>3. \A n \in 1..Len(log') : n \in 1..Len(log) \/ n = Len(log) + 1
  BY <1>2
<1> QED
  BY Zenon, <1>2, <1>3 DEF m

\* The consumer between two messages.
LEMMA RestingFacts ==
    /\ DOMAIN Resting = {"pc", "run", "status", "next", "rollup"} /\ Resting.pc = "fetch"
  BY Zenon DEF Resting

\* What RecomputeRunGroupStatus derives from the children.
LEMMA RollupFacts ==
    ASSUME NEW g \in Groups
    PROVE  /\ Rollup(g) \in ActiveGroup \cup Terminal
           /\ Rollup(g) \in Terminal <=> \A r \in Runs : r[1] = g => Ended(r)
           /\ Rollup(g) = "completed" <=> \A r \in Runs : r[1] = g => runStatus[r] = "completed"
<1> DEFINE All(S) == \A i \in 1..N : runStatus[<<g, i>>] \in S
<1>1. /\ All({"completed"}) <=> \A r \in Runs : r[1] = g => runStatus[r] = "completed"
      /\ All(Terminal) <=> \A r \in Runs : r[1] = g => Ended(r)
  BY RunFacts, RunMade DEF Ended
<1>2. All({"completed"}) => All(Terminal)
  BY Zenon DEF Terminal
<1>3. Rollup(g) = IF All({"completed"}) THEN "completed" ELSE IF All(Terminal) THEN "failed"
                  ELSE IF All({"requested"}) THEN "requested" ELSE "running"
  BY Zenon DEF Rollup
<1> HIDE DEF All
<1> QED
  BY Zenon, <1>1, <1>2, <1>3 DEF Terminal, ActiveGroup

\* ... depends on the children only.
LEMMA RollupStill ==
    ASSUME env' = env, NEW g \in Groups, \A r \in Runs : r[1] = g => runStatus'[r] = runStatus[r]
    PROVE  Rollup(g)' = Rollup(g)
<1>1. \A i \in 1..N : runStatus'[<<g, i>>] = runStatus[<<g, i>>]
  BY Zenon, RunMade
<1>2. N' = N
  BY Zenon, EnvStill
<1> QED
  BY Zenon, <1>1, <1>2 DEF Rollup

\* Rows that have ended keep their status.
RowsKept == \A r \in Runs : Ended(r) => runStatus'[r] = runStatus[r]

\* A step that has nothing to do with the group.
Spares(g) ==
    /\ \A r \in Runs : r[1] = g =>
          /\ runStatus'[r] = runStatus[r] /\ (r \in inbox' => r \in inbox)
          /\ ctl'[r] \in {ctl[r], "none"}
    /\ \A n \in 1..Len(log') : log'[n].run[1] = g => n \in 1..Len(log) /\ log'[n] = log[n]
    /\ "apiCrash" \notin env.faults => \A n \in 1..Len(log) : Pending(n)' => Pending(n)
    /\ click'[g] = "publish" => click[g] = "publish"
    /\ cons'.pc \in {"publish", "reset"} /\ cons'.next[1] = g => cons' = cons

\* A group that is being closed stays so.
LEMMA ClosingKept ==
    ASSUME env' = env, NEW g, Closing(g), RowsKept,
           \A r \in Runs : r[1] = g /\ Doomed(r) => Doomed(r)' \/ Ended(r)'
    PROVE  Closing(g)'
<1>1. Runs' = Runs
  BY Zenon, EnvStill
<1>2. ASSUME NEW r \in Runs, r[1] = g
      PROVE  Ended(r)' \/ Doomed(r)'
  <2>1. Ended(r) => Ended(r)'
    BY Zenon DEF RowsKept, Ended
  <2> QED BY Zenon, <1>2, <2>1 DEF Closing
<1> QED
  BY Zenon, <1>1, <1>2 DEF Closing

\* What a step must keep for the sweep.
LEMMA SweepingKept ==
    ASSUME Sweeping, env' = env, RowsKept, sweep' = sweep,
           \A r \in Runs : ctl'[r] = "running" => ctl[r] = "running" \/ sweep.pc = "up"
    PROVE  Sweeping'
<1>1. Runs' = Runs /\ ControllerStays' = ControllerStays
  BY Zenon, EnvStill
<1>2. ASSUME NEW r \in sweep.runs
      PROVE  Closing(r[1])'
  <2>1. \A q \in Runs : q[1] = r[1] /\ Doomed(q) => Doomed(q)' \/ Ended(q)'
    BY Zenon DEF Doomed
  <2>2. PICK g : g = r[1]
    BY Zenon
  <2>3. Closing(g)
    BY Zenon, <2>2 DEF Sweeping
  <2>4. Closing(g)'
    BY Zenon, <2>1, <2>2, <2>3, ClosingKept
  <2> QED BY Zenon, <2>2, <2>4
<1> QED
  BY Zenon, <1>1, <1>2 DEF Sweeping

\* A group that is not there stays untouched.
LEMMA AbsentKept ==
    ASSUME Types, env' = env, NEW g \in Groups, Absent(g), Spares(g),
           \A r \in Runs : r[1] = g => r \notin sweep'.runs
    PROVE  Absent(g)'
<1>1. Runs' = Runs
  BY Zenon, EnvStill
<1>2. click'[g] # "publish"
  BY Zenon DEF Absent, Spares
<1>3. ASSUME NEW r \in Runs, r[1] = g
      PROVE  runStatus'[r] = "absent" /\ Fresh(r)' /\ r \notin sweep'.runs
  <2>1. runStatus[r] = "absent" /\ r \notin inbox /\ ctl[r] = "none" /\ Silent(r)
    BY Zenon, <1>3 DEF Absent, Fresh
  <2>2. runStatus'[r] = "absent" /\ r \notin inbox' /\ ctl'[r] = "none"
    BY Zenon, <1>3, <2>1 DEF Spares
  <2>3. Silent(r)'
    BY Zenon, <1>3, <2>1 DEF Spares, Silent
  <2> QED BY Zenon, <1>3, <2>2, <2>3 DEF Fresh
<1> QED
  BY Zenon, <1>1, <1>2, <1>3 DEF Absent

\* A run that was never touched stays so.
LEMMA FreshKept ==
    ASSUME env' = env, NEW r \in Runs, Spares(r[1]), Fresh(r)
    PROVE  Fresh(r)'
<1>1. r \notin inbox' /\ ctl'[r] = "none"
  BY Zenon DEF Fresh, Spares
<1>2. Silent(r)'
  BY Zenon DEF Fresh, Spares, Silent
<1> QED
  BY Zenon, <1>1, <1>2 DEF Fresh

\* A run keeps its turn when its group is spared.
LEMMA TurnKept ==
    ASSUME Types, env' = env, "apiCrash" \notin env.faults, NEW c \in Runs, Turn(c), Spares(c[1])
    PROVE  Turn(c)'
<1>1. Runs' = Runs
  BY Zenon, EnvStill
<1>2. \A r \in Runs : r[1] = c[1] =>
          /\ runStatus'[r] = runStatus[r] /\ (r \in inbox' => r \in inbox)
          /\ (Ended(r)' <=> Ended(r)) /\ (ctl'[r] = "running" => ctl[r] = "running")
          /\ (ctl[r] = "none" => ctl'[r] = "none")
  BY Zenon DEF Spares, Ended
<1>3. \A n \in 1..Len(log') : log'[n].run[1] = c[1] =>
          n \in 1..Len(log) /\ log'[n] = log[n] /\ (Pending(n)' => Pending(n))
  BY Zenon DEF Spares
<1>4. \A r \in Runs : r[1] = c[1] /\ Fresh(r) => Fresh(r)'
  BY Zenon, FreshKept
<1>5. Silent(c) => Silent(c)'
  BY Zenon, <1>3 DEF Silent
<1>6. \A r \in Runs : r[1] = c[1] /\ r[2] < c[2] => Ended(r)' /\ r \notin inbox' /\ ctl'[r] # "running"
  BY Zenon, <1>2 DEF Turn
<1>7. \A r \in Runs : r[1] = c[1] /\ r[2] > c[2] => runStatus'[r] = "requested" /\ Fresh(r)'
  BY Zenon, <1>2, <1>4 DEF Turn
<1>8. \A n \in 1..Len(log') :
          log'[n].run[1] = c[1] /\ log'[n].status \in Terminal /\ Pending(n)' => log'[n].run = c
  BY Zenon, <1>3 DEF Turn
<1>9. \A n, m \in 1..Len(log') :
          (log'[n].run = c /\ log'[m].run = c /\ log'[n].status \in Terminal
             /\ log'[m].status \in Terminal) => n = m
  BY Zenon, <1>3 DEF Turn
<1>10. c \in inbox' => ctl'[c] = "none" /\ Silent(c)' /\ ~Ended(c)'
  BY Zenon, <1>2, <1>5 DEF Turn
<1>11. ctl'[c] = "running" =>
          ~Ended(c)' /\ \A n \in 1..Len(log') : log'[n].run = c => log'[n].status \notin Terminal
  BY Zenon, <1>2, <1>3 DEF Turn
<1>12. click'[c[1]] = "publish" => c[2] = 1 /\ Fresh(c)' /\ ~Ended(c)'
  BY Zenon, <1>2, <1>4 DEF Turn, Spares
<1>13. cons'.pc \in {"publish", "reset"} /\ cons'.next[1] = c[1] => cons'.next = c
  BY Zenon DEF Turn, Spares
<1>14. cons'.pc = "publish" /\ cons'.next = c => Fresh(c)' /\ ~Ended(c)'
  BY Zenon, <1>2, <1>4 DEF Turn, Spares
<1> QED
  BY <1>1, <1>6, <1>7, <1>8, <1>9, <1>10, <1>11, <1>12, <1>13, <1>14, Zenon DEF Turn

\* The log only grows.
Grown == Len(log) <= Len(log') /\ \A n \in 1..Len(log) : log'[n] = log[n]

\* A spared group's runs are driven as before.
LEMMA SparedDriven ==
    ASSUME env' = env, NEW g \in Groups, Spares(g), ~Driven(g)
    PROVE  ~Driven(g)'
<1>1. Runs' = Runs
  BY Zenon, EnvStill
<1> QED
  BY Zenon, <1>1 DEF Driven, Spares

\* A spared group stays orderly.
LEMMA OrderlyKept ==
    ASSUME Types, env' = env, "apiCrash" \notin env.faults, NEW g \in Groups, Orderly(g), Spares(g), RowsKept,
           \A r \in Runs : r[1] = g /\ Doomed(r) => Doomed(r)' \/ Ended(r)'
    PROVE  Orderly(g)'
<1>1. Runs' = Runs
  BY Zenon, EnvStill
<1>2. CASE Closing(g) /\ ~Driven(g)
  BY Zenon, <1>2, ClosingKept, SparedDriven DEF Orderly
<1>3. CASE \E c \in Runs : c[1] = g /\ Turn(c)
  <2>1. PICK c \in Runs : c[1] = g /\ Turn(c)
    BY Zenon, <1>3
  <2>2. Turn(c)'
    BY Zenon, <2>1, TurnKept
  <2> QED BY <1>1, <2>1, <2>2, Zenon DEF Orderly
<1> QED
  BY Zenon, <1>2, <1>3 DEF Orderly

\* A step of which no group is aware.
LEMMA AllSpared ==
    ASSUME Types, Present, Sweeping, InTurn, OneOpen, env' = env,
           UNCHANGED <<groupStatus, sweep>>, \A g \in Groups : Spares(g)
    PROVE  RowsKept /\ Present' /\ Sweeping' /\ InTurn' /\ OneOpen'
<1>1. Runs' = Runs /\ ApiReliable' = ApiReliable
  BY Zenon, EnvStill
<1>2. \A r \in Runs : runStatus'[r] = runStatus[r] /\ ctl'[r] \in {ctl[r], "none"}
  BY Zenon, RunFacts DEF Spares
<1>3. RowsKept
  BY Zenon, <1>2 DEF RowsKept
<1>4. Sweeping'
  BY Zenon, <1>2, <1>3, SweepingKept
<1>5. ASSUME NEW g \in Groups, groupStatus[g] # "absent", Closing(g)
      PROVE  Closing(g)'
  <2>1. \A r \in Runs : r[1] = g /\ Doomed(r) => Doomed(r)' \/ Ended(r)'
    BY Zenon DEF Doomed
  <2> QED BY Zenon, <1>3, <1>5, <2>1, ClosingKept
<1>6. Present'
  <2>1. ASSUME NEW g \in Groups, groupStatus[g] = "absent"
        PROVE  Absent(g)'
    <3>1. Absent(g) /\ \A r \in Runs : r[1] = g => r \notin sweep'.runs
      BY Zenon, <2>1 DEF Present, Absent
    <3> QED BY Zenon, <3>1, AbsentKept
  <2>2. ASSUME NEW g \in Groups, groupStatus[g] # "absent", NEW r \in Runs, r[1] = g
        PROVE  runStatus'[r] # "absent"
    BY Zenon, <1>2, <2>2 DEF Present
  <2> QED BY <1>1, <2>1, <2>2, Zenon DEF Present
<1>7. InTurn'
  <2>1. \A r \in Runs : Doomed(r) => Doomed(r)' \/ Ended(r)'
    BY Zenon DEF Doomed
  <2>2. \A g \in Groups : "apiCrash" \notin env.faults /\ Orderly(g) => Orderly(g)'
    BY Zenon, <1>3, <2>1, OrderlyKept
  <2> QED BY Zenon, <2>2 DEF InTurn
<1>8. OneOpen'
  BY Zenon, <1>1, <1>5 DEF OneOpen
<1> QED
  BY Zenon, <1>3, <1>4, <1>6, <1>7, <1>8

\* A run's row keeps telling its first outcome.
LEMMA FirstKept ==
    ASSUME Types, OutcomeIsFirst, env' = env, Grown, Len(log') \in Nat,
           \A r \in Runs : Ended(r)' => runStatus'[r] = runStatus[r]
    PROVE  OutcomeIsFirst'
<1>1. Runs' = Runs /\ ControllerStays' = ControllerStays /\ Len(log) \in Nat
  BY EnvStill DEF Types
<1>2. SUFFICES ASSUME ControllerStays, ~ {"db", "apiCrash"} \subseteq env.faults, NEW r \in Runs, Ended(r)'
               PROVE  \E k \in 1..Len(log') :
                         /\ log'[k] = [run |-> r, status |-> runStatus'[r]]
                         /\ \A m \in 1..(k - 1) : log'[m].run = r => log'[m].status \notin Terminal
  BY Zenon, <1>1 DEF OutcomeIsFirst, Ended
<1>3. runStatus'[r] = runStatus[r] /\ runStatus[r] \in Terminal
  BY Zenon, <1>2 DEF Ended
<1>4. PICK k \in 1..Len(log) :
          /\ log[k] = [run |-> r, status |-> runStatus[r]]
          /\ \A m \in 1..(k - 1) : log[m].run = r => log[m].status \notin Terminal
  BY Zenon, <1>2, <1>3 DEF OutcomeIsFirst
<1>5. k \in 1..Len(log') /\ log'[k] = log[k] /\ \A m \in 1..(k - 1) : log'[m] = log[m]
  BY <1>1 DEF Grown
<1> QED
  BY Zenon, <1>3, <1>4, <1>5

\* What the consumer knows of a run stays true.
LEMMA KnownKept ==
    ASSUME Types, Known, RowsKept, Grown, pos' = pos, cons.pc # "update" \/ cons'.pc = "update"
    PROVE  Known'
<1>1. ASSUME NEW n \in 1..pos, n < pos \/ cons'.pc # "update", log'[n].status \in Terminal
      PROVE  runStatus'[log'[n].run] \in Terminal
  <2>1. n \in 1..Len(log) /\ log'[n] = log[n]
    BY DEF Types, Grown
  <2>2. PICK r \in Runs : r = log[n].run
    BY Zenon, <2>1, Message
  <2>3. Ended(r)
    BY Zenon, <1>1, <2>1, <2>2 DEF Known
  <2>4. Ended(r)'
    BY Zenon, <2>3 DEF RowsKept, Ended
  <2> QED BY Zenon, <2>1, <2>2, <2>4 DEF Ended
<1> QED
  BY Zenon, <1>1 DEF Known, Ended

\* The consumer does not notice what others do.
LEMMA ConsumerApart ==
    ASSUME Types, Consuming, Settled, Outcomes, env' = env, RowsKept, Grown, Len(log') \in Nat,
           UNCHANGED <<cons, pos, com>>
    PROVE  /\ Consuming'
           /\ UNCHANGED <<groupStatus, runStatus>> => Settled'
           /\ ((ControllerStays /\ "apiCrash" \notin env.faults) => TellsOnce') => Outcomes'
<1>1. Runs' = Runs /\ ApiReliable' = ApiReliable /\ ControllerStays' = ControllerStays /\ Len(log) \in Nat
  BY EnvStill DEF Types
<1>2. cons.pc # "fetch" => pos \in 1..Len(log) /\ cons.run \in Runs /\ log'[pos] = log[pos]
  BY Message DEF Types, Consuming, Grown
<1>3. \A r \in Runs : (Ended(r) => Ended(r)') /\ (runStatus[r] = "completed" => runStatus'[r] = "completed")
  BY Zenon DEF RowsKept, Ended, Terminal
<1>4. cons.pc \in {"claim", "publish", "reset"} => Ended(cons.run)'
  <2>1. SUFFICES ASSUME cons.pc \in {"claim", "publish", "reset"}
                 PROVE  Ended(cons.run)'
    BY Zenon
  <2>2. PICK r \in Runs : r = cons.run
    BY Zenon, <1>2, <2>1
  <2>3. Ended(r)'
    BY Zenon, <1>3, <2>1, <2>2 DEF Consuming
  <2> QED BY Zenon, <2>2, <2>3 DEF Ended
<1>5. Consuming'
  BY Zenon, <1>1, <1>2, <1>3, <1>4 DEF Consuming
<1>6. ASSUME UNCHANGED <<groupStatus, runStatus>>
      PROVE  Settled'
  <2>1. \A g \in Groups : ToRead(g) => ToRead(g)'
    BY <1>1 DEF ToRead, Grown, Types
  <2>2. \A g \in Groups : (InHand(g)' <=> InHand(g)) /\ Rollup(g)' = Rollup(g)
    BY Zenon, <1>6, RollupStill DEF InHand
  <2>3. \A r \in Runs : Ended(r)' <=> Ended(r)
    BY Zenon, <1>6 DEF Ended
  <2>4. ApiReliable /\ cons.pc = "write" => cons.rollup = Rollup(cons.run[1])' \/ ToRead(cons.run[1])'
    <3>1. SUFFICES ASSUME ApiReliable, cons.pc = "write"
                   PROVE  cons.rollup = Rollup(cons.run[1])' \/ ToRead(cons.run[1])'
      BY Zenon
    <3>2. PICK g \in Groups : g = cons.run[1]
      BY Zenon, <1>2, <3>1, RunFacts
    <3>3. cons.rollup = Rollup(g) \/ ToRead(g)
      BY Zenon, <3>1, <3>2 DEF Settled
    <3>4. cons.rollup = Rollup(g)' \/ ToRead(g)'
      BY Zenon, <2>1, <2>2, <3>3
    <3> QED BY Zenon, <3>2, <3>4
  <2> QED BY Zenon, <1>1, <1>6, <2>1, <2>2, <2>3, <2>4 DEF Settled
<1>7. "db" \notin env.faults /\ ControllerStays => Known'
  BY Zenon, KnownKept DEF Outcomes
<1> QED
  BY Zenon, <1>1, <1>5, <1>6, <1>7 DEF Outcomes

\* A step that touches neither the rows, nor the controller, nor what is written to a topic.
LEMMA Quiet ==
    ASSUME IInv, env' = env, UNCHANGED <<dbVars, inbox, ctlVars, log>>,
           \A g \in Groups : click'[g] = "publish" => click[g] = "publish",
           "apiCrash" \notin env.faults => \A n \in 1..Len(log) : Pending(n)' => Pending(n),
           cons'.pc \in {"publish", "reset"} => cons' = cons
    PROVE  RowsKept /\ Grown /\ Present' /\ Sweeping' /\ InTurn' /\ OneOpen' /\ OutcomeIsFirst'
<1>1. \A g \in Groups : Spares(g)
  BY Zenon DEF Spares, dbVars, ctlVars
<1>2. RowsKept /\ Present' /\ Sweeping' /\ InTurn' /\ OneOpen'
  BY Zenon, <1>1, AllSpared DEF IInv, dbVars, ctlVars
<1>3. Grown /\ Len(log') \in Nat
  BY DEF Grown, IInv, Types
<1>4. OutcomeIsFirst'
  BY Zenon, <1>3, FirstKept DEF IInv, dbVars
<1> QED
  BY Zenon, <1>2, <1>3, <1>4

-----------------------------------------------------------------------------
(* StartBenchmark *)

\* A click that joins a group under way keeps the invariant.
LEMMA JoinStep ==
    ASSUME IInv, NEW g \in Groups, click[g] \in {"idle", "insert"},
           click' = [click EXCEPT ![g] = "done"] \/ click' = [click EXCEPT ![g] = "insert"],
           UNCHANGED <<env, dbVars, inbox, ctlVars, logVars, cons>>
    PROVE  IInv'
<1>1. Types'
  BY Zenon, EnvStill DEF IInv, Types, dbVars, ctlVars, logVars
<1>2. /\ \A h \in Groups : click'[h] = "publish" => click[h] = "publish"
      /\ \A n \in 1..Len(log) : Pending(n)' => Pending(n)
  BY Zenon DEF IInv, Types, Pending, logVars
<1>3. RowsKept /\ Grown /\ Present' /\ Sweeping' /\ InTurn' /\ OneOpen' /\ OutcomeIsFirst'
  BY Zenon, <1>2, Quiet DEF logVars
<1>4. Consuming' /\ Settled' /\ Outcomes'
  <2>1. (ControllerStays /\ "apiCrash" \notin env.faults) => TellsOnce'
    BY Zenon DEF IInv, Outcomes, TellsOnce, logVars
  <2> QED BY <1>1, <1>3, <2>1, ConsumerApart DEF IInv, Types, logVars, dbVars
<1> QED
  BY Zenon, <1>1, <1>3, <1>4 DEF IInv

\* Looking for an active group keeps the invariant.
LEMMA FindActiveStep ==
    ASSUME IInv, NEW g \in Groups, FindActive(g)
    PROVE  IInv'
  BY Zenon, JoinStep DEF FindActive

-----------------------------------------------------------------------------
(* The consumer's steps that leave the rows alone *)

\* Fetching a status message keeps the invariant.
LEMMA FetchStep ==
    ASSUME IInv, Fetch
    PROVE  IInv'
<1>1. /\ env' = env /\ UNCHANGED <<click, dbVars, inbox, ctlVars, log, com>> /\ pos' = pos + 1
      /\ cons.pc = "fetch" /\ pos + 1 \in 1..Len(log) /\ Len(log) \in Nat /\ pos \in Nat
  BY DEF Fetch, IInv, Types
<1>2. /\ cons'.pc = "update" /\ cons'.run = log[pos + 1].run /\ cons'.status = log[pos + 1].status
      /\ DOMAIN cons' = {"pc", "run", "status", "next", "rollup"}
  BY Zenon DEF Fetch, Resting
<1>3. Types'
  BY <1>1, EnvStill DEF IInv, Types, dbVars, ctlVars
<1>4. \A n \in 1..Len(log) : Pending(n)' => Pending(n)
  BY <1>1 DEF Pending
<1>5. RowsKept /\ Grown /\ Present' /\ Sweeping' /\ InTurn' /\ OneOpen' /\ OutcomeIsFirst'
  BY Zenon, <1>1, <1>2, <1>4, Quiet
<1>6. Consuming'
  BY <1>1, <1>2 DEF Consuming, IInv, Types
<1>7. Settled'
  <2>1. ASSUME NEW g \in Groups, ToRead(g)
        PROVE  ToRead(g)' \/ InHand(g)'
    <3>1. PICK n \in (pos + 1)..Len(log) : log[n].run[1] = g
      BY Zenon, <2>1 DEF ToRead
    <3>2. CASE n = pos + 1
      BY Zenon, <1>2, <3>1, <3>2 DEF InHand
    <3>3. CASE n # pos + 1
      <4>1. n \in (pos' + 1)..Len(log')
        BY <1>1, <3>3
      <4> QED BY Zenon, <1>1, <3>1, <4>1 DEF ToRead
    <3> QED BY Zenon, <3>2, <3>3
  <2>2. \A g \in Groups : ~InHand(g) /\ Rollup(g)' = Rollup(g)
    BY Zenon, <1>1, RollupStill DEF InHand, dbVars
  <2> QED BY Zenon, <1>1, <1>2, <2>1, <2>2, EnvStill DEF Settled, IInv, dbVars, Ended
<1>8. Outcomes'
  <2>1. TellsOnce => TellsOnce'
    BY Zenon, <1>1 DEF TellsOnce
  <2>2. Known => Known'
    BY <1>1, <1>2 DEF Known, Ended, dbVars
  <2> QED BY Zenon, <1>1, <2>1, <2>2, EnvStill DEF Outcomes, IInv
<1> QED
  BY Zenon, <1>3, <1>5, <1>6, <1>7, <1>8 DEF IInv

\* The message is skipped, without a commit.
LEMMA SkipStep ==
    ASSUME IInv, "db" \in env.faults, cons' = Resting,
           UNCHANGED <<env, click, dbVars, inbox, ctlVars, logVars>>
    PROVE  IInv'
<1>1. Types'
  BY Zenon, EnvStill DEF IInv, Types, dbVars, ctlVars, logVars
<1>2. \A n \in 1..Len(log) : Pending(n)' => Pending(n)
  BY Zenon, RestingFacts DEF Pending, logVars
<1>3. RowsKept /\ Grown /\ Present' /\ Sweeping' /\ InTurn' /\ OneOpen' /\ OutcomeIsFirst'
  BY Zenon, <1>2, Quiet, RestingFacts DEF logVars
<1>4. Consuming'
  BY Zenon, RestingFacts DEF Consuming
<1>5. Settled'
  BY Zenon, EnvStill DEF Settled, ApiReliable
<1>6. Outcomes'
  BY Zenon, EnvStill DEF Outcomes, IInv, TellsOnce, logVars
<1> QED
  BY Zenon, <1>1, <1>3, <1>4, <1>5, <1>6 DEF IInv

\* The counting query keeps the invariant.
LEMMA RecomputeCountStep ==
    ASSUME IInv, RecomputeCount
    PROVE  IInv'
<1>1. /\ env' = env /\ UNCHANGED <<click, dbVars, inbox, ctlVars, log, pos, com>> /\ cons.pc = "count"
      /\ DOMAIN cons = {"pc", "run", "status", "next", "rollup"}
      /\ com < pos /\ cons.run = log[pos].run /\ cons.status = log[pos].status
  BY Zenon DEF RecomputeCount, IInv, Consuming, logVars
<1>2. /\ cons'.run = cons.run /\ cons'.status = cons.status /\ DOMAIN cons' = DOMAIN cons
      /\ \/ cons'.pc = "write" /\ cons'.rollup = Rollup(cons.run[1])
         \/ cons'.pc = "commit" /\ "db" \in env.faults
  BY Zenon, <1>1 DEF RecomputeCount, Fault
<1>3. Types'
  BY Zenon, <1>1, EnvStill DEF IInv, Types, dbVars, ctlVars
<1>4. \A n \in 1..Len(log) : Pending(n)' => Pending(n)
  BY Zenon, <1>1, <1>2 DEF Pending
<1>5. RowsKept /\ Grown /\ Present' /\ Sweeping' /\ InTurn' /\ OneOpen' /\ OutcomeIsFirst'
  BY Zenon, <1>1, <1>2, <1>4, Quiet
<1>6. PICK h \in Groups : h = cons.run[1]
  BY <1>1, Message DEF IInv, Types
<1>7. Runs' = Runs /\ runStatus' = runStatus /\ groupStatus' = groupStatus /\ ApiReliable' = ApiReliable
  BY Zenon, <1>1, EnvStill DEF dbVars
<1>8. \A g \in Groups : Rollup(g)' = Rollup(g)
  BY Zenon, <1>1, <1>7, RollupStill
<1>9. Consuming'
  <2>1. /\ Rollup(h) \in ActiveGroup \cup Terminal
        /\ Rollup(h) \in Terminal <=> \A r \in Runs : r[1] = h => Ended(r)
        /\ Rollup(h) = "completed" <=> \A r \in Runs : r[1] = h => runStatus[r] = "completed"
    BY Zenon, RollupFacts DEF IInv
  <2>2. cons'.pc = "write" => cons'.rollup = Rollup(h) /\ cons'.run[1] = h
    BY Zenon, <1>2, <1>6
  <2> QED BY Zenon, <1>1, <1>2, <1>7, <2>1, <2>2 DEF Consuming, Ended
<1>10. Settled'
  <2>1. \A g \in Groups : (ToRead(g) => ToRead(g)') /\ (ApiReliable /\ InHand(g) => InHand(g)')
    BY Zenon, <1>1, <1>2 DEF ToRead, InHand, ApiReliable
  <2>2. ApiReliable => cons'.pc = "write" /\ cons'.rollup = Rollup(h)' /\ cons'.run[1] = h
    BY Zenon, <1>2, <1>6, <1>8 DEF ApiReliable
  <2> QED BY Zenon, <1>7, <1>8, <2>1, <2>2 DEF Settled, IInv, Ended
<1>11. Outcomes'
  <2>1. TellsOnce => TellsOnce'
    BY Zenon, <1>1 DEF TellsOnce
  <2>2. Known => Known'
    BY Zenon, <1>1, <1>7 DEF Known, Ended
  <2> QED BY Zenon, <1>1, <2>1, <2>2, EnvStill DEF Outcomes, IInv
<1> QED
  BY Zenon, <1>3, <1>5, <1>9, <1>10, <1>11 DEF IInv

\* The message was handled.
LEMMA CommitStep ==
    ASSUME IInv, Commit
    PROVE  IInv'
<1>1. /\ env' = env /\ UNCHANGED <<click, dbVars, inbox, ctlVars, log, pos>> /\ cons.pc = "commit"
      /\ com' \in {com, pos} /\ cons' = Resting
  BY Zenon DEF Commit
<1>2. Types'
  BY <1>1, EnvStill DEF IInv, Types, dbVars, ctlVars
<1>3. \A n \in 1..Len(log) : Pending(n)' => Pending(n)
  BY Zenon, <1>1, RestingFacts DEF Pending
<1>4. RowsKept /\ Grown /\ Present' /\ Sweeping' /\ InTurn' /\ OneOpen' /\ OutcomeIsFirst'
  BY Zenon, <1>1, <1>3, Quiet, RestingFacts
<1>5. Consuming'
  BY Zenon, <1>1, RestingFacts DEF Consuming
<1>6. Runs' = Runs /\ runStatus' = runStatus /\ groupStatus' = groupStatus /\ ApiReliable' = ApiReliable
  BY Zenon, <1>1, EnvStill DEF dbVars
<1>7. Settled'
  <2>1. \A g \in Groups : (ToRead(g) => ToRead(g)') /\ ~InHand(g) /\ Rollup(g)' = Rollup(g)
    BY Zenon, <1>1, <1>6, RollupStill DEF ToRead, InHand
  <2> QED BY Zenon, <1>1, <1>6, <2>1, RestingFacts DEF Settled, IInv, Ended
<1>8. Outcomes'
  <2>1. TellsOnce => TellsOnce'
    BY Zenon, <1>1 DEF TellsOnce
  <2>2. Known => Known'
    BY Zenon, <1>1, <1>6 DEF Known, Ended
  <2> QED BY Zenon, <1>1, <2>1, <2>2, EnvStill DEF Outcomes, IInv
<1> QED
  BY Zenon, <1>2, <1>4, <1>5, <1>7, <1>8 DEF IInv

\* A restart of submission-api keeps the invariant.
LEMMA ApiRestartStep ==
    ASSUME IInv, ApiRestart
    PROVE  IInv'
<1>1. /\ env' = env /\ UNCHANGED <<dbVars, inbox, ctlVars, log, com>> /\ "apiCrash" \in env.faults
      /\ pos' = com /\ cons' = Resting
      /\ click' = [g \in Groups |-> IF click[g] \in {"insert", "publish"} THEN "done" ELSE click[g]]
  BY Zenon DEF ApiRestart, Fault
<1>2. Types'
  BY <1>1, EnvStill DEF IInv, Types, dbVars, ctlVars
<1>3. RowsKept /\ Grown /\ Present' /\ Sweeping' /\ InTurn' /\ OneOpen' /\ OutcomeIsFirst'
  BY Zenon, <1>1, Quiet, RestingFacts
<1>4. Consuming'
  BY Zenon, <1>1, RestingFacts DEF Consuming
<1>5. Settled'
  BY Zenon, <1>1, EnvStill DEF Settled, ApiReliable
<1>6. Outcomes'
  <2>1. ASSUME Known
        PROVE  Known'
    <3>1. \A n \in 1..com : n \in 1..pos /\ (n < pos \/ cons.pc # "update")
      BY DEF IInv, Types, Consuming
    <3> QED BY Zenon, <1>1, <2>1, <3>1 DEF Known, Ended, dbVars
  <2> QED BY Zenon, <1>1, <2>1, EnvStill DEF Outcomes, IInv
<1> QED
  BY Zenon, <1>2, <1>3, <1>4, <1>5, <1>6 DEF IInv

\* Forgetting an ended session keeps the invariant.
LEMMA ReleaseStep ==
    ASSUME IInv, NEW r \in Runs, Release(r)
    PROVE  IInv'
<1>1. /\ env' = env /\ UNCHANGED <<click, dbVars, inbox, sweep, swept, log, pos, com, cons>>
      /\ ctl' = [ctl EXCEPT ![r] = "none"]
  BY Zenon DEF Release, logVars
<1>2. Types'
  BY Zenon, <1>1, EnvStill DEF IInv, Types, dbVars
<1>3. \A g \in Groups : Spares(g)
  BY Zenon, <1>1 DEF Spares, dbVars, IInv, Types, Pending
<1>4. RowsKept /\ Present' /\ Sweeping' /\ InTurn' /\ OneOpen'
  BY Zenon, <1>1, <1>3, AllSpared DEF IInv, dbVars
<1>5. Grown /\ Len(log') \in Nat /\ Len(log) \in Nat
  BY <1>1 DEF Grown, IInv, Types
<1>6. OutcomeIsFirst'
  BY Zenon, <1>1, <1>5, FirstKept DEF IInv, dbVars
<1>7. Consuming' /\ Settled' /\ Outcomes'
  <2>1. (ControllerStays /\ "apiCrash" \notin env.faults) => TellsOnce'
    BY Zenon, <1>1 DEF IInv, Outcomes, TellsOnce
  <2> QED BY Zenon, <1>1, <1>4, <1>5, <2>1, ConsumerApart DEF IInv, dbVars
<1> QED
  BY Zenon, <1>2, <1>4, <1>6, <1>7 DEF IInv

\* A group of which a message tells has its rows.
LEMMA ToldPresent ==
    ASSUME Types, Present, NEW n \in 1..Len(log)
    PROVE  groupStatus[log[n].run[1]] # "absent"
  BY Zenon, Message DEF Present, Absent, Fresh, Silent

\* Writing the group's status keeps the invariant.
LEMMA RecomputeWriteStep ==
    ASSUME IInv, RecomputeWrite
    PROVE  IInv'
<1>1. /\ env' = env /\ UNCHANGED <<click, runStatus, inbox, ctlVars, log, pos, com>> /\ cons.pc = "write"
      /\ DOMAIN cons = {"pc", "run", "status", "next", "rollup"}
      /\ com < pos /\ cons.run = log[pos].run /\ cons.status = log[pos].status
      /\ cons' = [cons EXCEPT !.pc = "commit"] /\ Types /\ pos \in 1..Len(log)
  BY DEF RecomputeWrite, IInv, Consuming, logVars, Types
<1>2. cons'.pc = "commit" /\ cons'.run = cons.run /\ cons'.status = cons.status /\ DOMAIN cons' = DOMAIN cons
  BY Zenon, <1>1
<1>3. PICK h \in Groups : h = cons.run[1]
  BY Zenon, <1>1, Message
<1>4. groupStatus[h] # "absent"
  BY Zenon, <1>1, <1>3, ToldPresent DEF IInv
<1> DEFINE refused == cons.rollup \in ActiveGroup /\ \E k \in Groups \ {h} : groupStatus[k] \in ActiveGroup
<1>5. \/ ~refused /\ groupStatus' = [groupStatus EXCEPT ![h] = cons.rollup]
      \/ groupStatus' = groupStatus /\ (refused \/ "db" \in env.faults)
  BY Zenon, <1>3 DEF RecomputeWrite, Fault
<1>6. cons.rollup \in ActiveGroup \cup Terminal
  BY Zenon, <1>1 DEF IInv, Consuming
<1>7. /\ \A g \in Groups : g # h => groupStatus'[g] = groupStatus[g]
      /\ groupStatus'[h] # "absent" /\ (groupStatus'[h] = groupStatus[h] \/ (~refused /\ groupStatus'[h] = cons.rollup))
  BY <1>1, <1>4, <1>5, <1>6 DEF Types, ActiveGroup, Terminal
<1>8. Runs' = Runs /\ ApiReliable' = ApiReliable
  BY Zenon, <1>1, EnvStill
<1>9. Types'
  <2>1. groupStatus' \in [Groups -> {"absent"} \cup ActiveGroup \cup Terminal]
    BY Zenon, <1>1, <1>5, <1>6 DEF Types
  <2>2. \A g \in Groups : click[g] \in {"idle", "insert"} => groupStatus'[g] = "absent"
    BY Zenon, <1>1, <1>4, <1>7 DEF Types
  <2> QED BY Zenon, <1>1, <2>1, <2>2, EnvStill DEF Types, ctlVars
<1>10. \A g \in Groups : Spares(g)
  BY Zenon, <1>1, <1>2 DEF Spares, ctlVars, Pending
<1>11. RowsKept /\ Grown /\ Len(log) \in Nat /\ sweep' = sweep /\ ctl' = ctl
  BY <1>1 DEF RowsKept, Grown, Types, ctlVars
<1>12. Present'
  <2>1. ASSUME NEW g \in Groups, groupStatus'[g] = "absent"
        PROVE  Absent(g)'
    <3>1. Absent(g) /\ \A r \in Runs : r[1] = g => r \notin sweep'.runs
      BY Zenon, <1>7, <1>11, <2>1 DEF Present, Absent, IInv
    <3> QED BY Zenon, <1>1, <1>10, <3>1, AbsentKept
  <2>2. ASSUME NEW g \in Groups, groupStatus'[g] # "absent", NEW r \in Runs, r[1] = g
        PROVE  runStatus'[r] # "absent"
    BY Zenon, <1>1, <1>4, <1>7, <2>2 DEF Present, IInv
  <2> QED BY <1>8, <2>1, <2>2, Zenon DEF Present
<1>13. Sweeping'
  BY Zenon, <1>1, <1>11, SweepingKept DEF IInv
<1>14. \A r \in Runs : Doomed(r) => Doomed(r)' \/ Ended(r)'
  BY Zenon, <1>11 DEF Doomed
<1>15. InTurn'
  <2>1. \A g \in Groups : "apiCrash" \notin env.faults /\ Orderly(g) => Orderly(g)'
    BY Zenon, <1>1, <1>10, <1>11, <1>14, OrderlyKept
  <2> QED BY Zenon, <1>1, <1>4, <1>7, <2>1 DEF InTurn, IInv
<1>16. OneOpen'
  <2>1. \A g \in Groups : Closing(g) => Closing(g)'
    BY Zenon, <1>1, <1>11, <1>14, ClosingKept
  <2>2. cons.rollup \in Terminal => Closing(h)
    BY Zenon, <1>1, <1>3 DEF IInv, Consuming, Closing
  <2>3. \A g, k \in Groups : groupStatus'[g] \in ActiveGroup /\ groupStatus'[k] \in ActiveGroup => g = k
    BY Zenon, <1>7 DEF IInv, OneOpen
  <2> QED BY Zenon, <1>6, <1>7, <1>8, <2>1, <2>2, <2>3 DEF IInv, OneOpen
<1>17. Consuming'
  BY Zenon, <1>1, <1>2 DEF Consuming
<1>18. Settled'
  <2>1. SUFFICES ASSUME ApiReliable
                 PROVE  Settled'
    BY Zenon, <1>8 DEF Settled
  <2>2. \A g \in Groups : (ToRead(g) => ToRead(g)') /\ (InHand(g) => g = h) /\ Rollup(g)' = Rollup(g)
    BY Zenon, <1>1, <1>3, RollupStill DEF ToRead, InHand
  <2>3. cons.rollup = Rollup(h) \/ ToRead(h)
    BY Zenon, <1>1, <1>3, <2>1 DEF Settled, IInv
  <2>4. \A g \in Groups : groupStatus'[g] = "completed" => \A r \in Runs : r[1] = g => runStatus[r] = "completed"
    BY <1>1, <1>3, <1>7, <2>1 DEF Settled, IInv, Consuming
  <2>5. ASSUME \A r \in Runs : r[1] = h => Ended(r)
        PROVE  groupStatus'[h] = Rollup(h) \/ ToRead(h)
    <3>1. Rollup(h) \in Terminal
      BY Zenon, <1>1, <2>5, RollupFacts
    <3>2. refused => cons.rollup # Rollup(h)
      BY Zenon, <3>1 DEF ActiveGroup, Terminal
    <3>3. refused \/ (groupStatus'[h] = cons.rollup)
      BY Zenon, <1>1, <1>5, <2>1 DEF ApiReliable, Types
    <3> QED BY Zenon, <2>3, <3>2, <3>3
  <2>6. \A g \in Groups : (g # h /\ groupStatus[g] # "absent" /\ \A r \in Runs : r[1] = g => Ended(r)) =>
            groupStatus[g] = Rollup(g) \/ ToRead(g)
    BY Zenon, <2>1, <2>2 DEF Settled, IInv
  <2> HIDE DEF refused
  <2> QED BY <1>1, <1>2, <1>7, <1>8, <2>2, <2>4, <2>5, <2>6 DEF Settled, Ended
<1>19. Outcomes'
  <2>1. TellsOnce => TellsOnce'
    BY Zenon, <1>1 DEF TellsOnce
  <2>2. Known => Known'
    BY Zenon, <1>1 DEF Known, Ended
  <2> QED BY Zenon, <1>1, <2>1, <2>2, EnvStill DEF Outcomes, IInv
<1>20. OutcomeIsFirst'
  BY Zenon, <1>1, <1>11, FirstKept DEF IInv
<1> QED
  BY Zenon, <1>9, <1>12, <1>13, <1>15, <1>16, <1>17, <1>18, <1>19, <1>20 DEF IInv

-----------------------------------------------------------------------------
(* The consumer's steps that write a run's row *)

\* What is known of the message in hand.
LEMMA HandFacts ==
    ASSUME IInv, cons.pc # "fetch"
    PROVE  /\ pos \in 1..Len(log) /\ com < pos /\ Types /\ Len(log) \in Nat
           /\ cons.run = log[pos].run /\ cons.status = log[pos].status
           /\ cons.run \in Runs /\ cons.run[1] \in Groups /\ cons.status \in {"active"} \cup Terminal
           /\ DOMAIN cons = {"pc", "run", "status", "next", "rollup"}
           /\ groupStatus[cons.run[1]] # "absent" /\ ~Silent(cons.run)
<1>1. pos \in 1..Len(log) /\ com < pos /\ cons.run = log[pos].run /\ cons.status = log[pos].status
  BY DEF IInv, Consuming, Types
<1>2. ~Silent(cons.run)
  BY Zenon, <1>1 DEF Silent
<1> QED
  BY <1>1, <1>2, Message, ToldPresent DEF IInv, Consuming, Types

\* A row that is written belongs to a group that is there.
LEMMA PresentRows ==
    ASSUME IInv, env' = env, UNCHANGED <<groupStatus, sweep>>, NEW h \in Groups, groupStatus[h] # "absent",
           \A g \in Groups : g # h => Spares(g), \A r \in Runs : r[1] = h => runStatus'[r] # "absent"
    PROVE  Present'
<1>1. Runs' = Runs
  BY Zenon, EnvStill
<1>2. ASSUME NEW g \in Groups, groupStatus[g] = "absent"
      PROVE  Absent(g)'
  <2>1. Absent(g) /\ g # h /\ \A r \in Runs : r[1] = g => r \notin sweep'.runs
    BY Zenon, <1>2 DEF Present, Absent, IInv
  <2> QED BY Zenon, <2>1, AbsentKept DEF IInv
<1>3. ASSUME NEW g \in Groups, groupStatus[g] # "absent", NEW r \in Runs, r[1] = g
      PROVE  runStatus'[r] # "absent"
  BY Zenon, <1>3 DEF Present, IInv, Spares
<1> QED
  BY <1>1, <1>2, <1>3, Zenon DEF Present

\* A step that moves the turn in one group.
LEMMA InTurnBut ==
    ASSUME IInv, env' = env, UNCHANGED <<groupStatus, sweep>>, RowsKept, NEW h \in Groups,
           \A g \in Groups : g # h => Spares(g),
           ~Driven(h) /\ Closing(h) => ~Driven(h)',
           "apiCrash" \notin env.faults =>
               \A c \in Runs : c[1] = h /\ Turn(c) => \E d \in Runs : d[1] = h /\ Turn(d)'
    PROVE  InTurn' /\ OneOpen'
<1>1. Runs' = Runs /\ ApiReliable' = ApiReliable
  BY Zenon, EnvStill
<1>2. \A r \in Runs : Doomed(r) => Doomed(r)' \/ Ended(r)'
  BY Zenon DEF Doomed
<1>3. \A g \in Groups : Closing(g) => Closing(g)'
  BY Zenon, <1>2, ClosingKept
<1>4. OneOpen'
  BY Zenon, <1>1, <1>3 DEF IInv, OneOpen
<1>5. ASSUME "apiCrash" \notin env.faults, NEW g \in Groups, Orderly(g)
      PROVE  Orderly(g)'
  <2>1. CASE g # h
    BY Zenon, <1>2, <1>5, <2>1, OrderlyKept DEF IInv
  <2>2. CASE g = h
    <3>1. CASE Closing(h) /\ ~Driven(h)
      BY Zenon, <1>3, <2>2, <3>1 DEF Orderly
    <3>2. CASE \E c \in Runs : c[1] = h /\ Turn(c)
      <4>1. \E d \in Runs : d[1] = h /\ Turn(d)'
        BY Zenon, <1>5, <3>2
      <4> QED BY <1>1, <2>2, <4>1, Zenon DEF Orderly
    <3> QED BY Zenon, <1>5, <2>2, <3>1, <3>2 DEF Orderly
  <2> QED BY Zenon, <2>1, <2>2
<1>6. InTurn'
  BY Zenon, <1>5 DEF IInv, InTurn
<1> QED
  BY Zenon, <1>4, <1>6

\* The turn stays where it is when no row of the group but its own is written.
LEMMA TurnStays ==
    ASSUME Types, env' = env, NEW c \in Runs, Turn(c),
           UNCHANGED <<log, pos, inbox, ctl, click>>,
           \A r \in Runs : r[1] = c[1] /\ r # c => runStatus'[r] = runStatus[r],
           c \in inbox \/ ctl[c] = "running" \/ click[c[1]] = "publish" => (Ended(c)' => Ended(c)),
           cons'.pc \notin {"publish", "reset"},
           \A n \in 1..Len(log) : Pending(n)' => Pending(n)
    PROVE  Turn(c)'
<1>1. Runs' = Runs
  BY Zenon, EnvStill
<1>2. \A r \in Runs : (Fresh(r)' <=> Fresh(r)) /\ (Silent(r)' <=> Silent(r))
  BY Zenon DEF Fresh, Silent
<1>3. \A r \in Runs : r[1] = c[1] /\ r[2] < c[2] => Ended(r)' /\ r \notin inbox' /\ ctl'[r] # "running"
  <2>1. \A r \in Runs : r[2] < c[2] => r # c
    BY RunFacts, EnvFacts
  <2> QED BY Zenon, <2>1 DEF Turn, Ended
<1>4. \A r \in Runs : r[1] = c[1] /\ r[2] > c[2] => runStatus'[r] = "requested" /\ Fresh(r)'
  <2>1. \A r \in Runs : r[2] > c[2] => r # c
    BY RunFacts, EnvFacts
  <2> QED BY Zenon, <1>2, <2>1 DEF Turn
<1>5. \A n \in 1..Len(log') :
          log'[n].run[1] = c[1] /\ log'[n].status \in Terminal /\ Pending(n)' => log'[n].run = c
  BY Zenon DEF Turn
<1>6. \A n, m \in 1..Len(log') :
          (log'[n].run = c /\ log'[m].run = c /\ log'[n].status \in Terminal
             /\ log'[m].status \in Terminal) => n = m
  BY Zenon DEF Turn
<1>7. c \in inbox' => ctl'[c] = "none" /\ Silent(c)' /\ ~Ended(c)'
  BY Zenon, <1>2 DEF Turn
<1>8. ctl'[c] = "running" =>
          ~Ended(c)' /\ \A n \in 1..Len(log') : log'[n].run = c => log'[n].status \notin Terminal
  BY Zenon DEF Turn
<1>9. click'[c[1]] = "publish" => c[2] = 1 /\ Fresh(c)' /\ ~Ended(c)'
  BY Zenon, <1>2 DEF Turn
<1> QED
  BY <1>1, <1>3, <1>4, <1>5, <1>6, <1>7, <1>8, <1>9, Zenon DEF Turn

\* Writing a run's status keeps the invariant.
LEMMA UpdateRunStatusStep ==
    ASSUME IInv, UpdateRunStatus
    PROVE  IInv'
<1>1. CASE Fault("db") /\ cons' = Resting /\ UNCHANGED runStatus
  BY Zenon, <1>1, SkipStep DEF UpdateRunStatus, Fault, dbVars
<1>2. SUFFICES ASSUME runStatus' = [runStatus EXCEPT ![cons.run] = IF @ \in Terminal THEN @ ELSE cons.status],
                      cons' = [cons EXCEPT !.pc = IF cons.status \in Terminal THEN "claim" ELSE "count"]
               PROVE  IInv'
  BY Zenon, <1>1 DEF UpdateRunStatus
<1>3. /\ env' = env /\ UNCHANGED <<click, groupStatus, inbox, ctl, sweep, swept, log, pos, com>>
      /\ cons.pc = "update"
  BY Zenon DEF UpdateRunStatus, ctlVars, logVars
<1>4. PICK r \in Runs : r = cons.run
  BY Zenon, <1>3, HandFacts
<1>5. /\ pos \in 1..Len(log) /\ com < pos /\ Types /\ Len(log) \in Nat
      /\ r = log[pos].run /\ cons.status = log[pos].status
      /\ r[1] \in Groups /\ cons.status \in {"active"} \cup Terminal
      /\ DOMAIN cons = {"pc", "run", "status", "next", "rollup"}
      /\ groupStatus[r[1]] # "absent" /\ ~Silent(r)
  BY Zenon, <1>3, <1>4, HandFacts
<1>6. /\ \A q \in Runs : q # r => runStatus'[q] = runStatus[q]
      /\ runStatus'[r] = IF Ended(r) THEN runStatus[r] ELSE cons.status
      /\ runStatus' \in [Runs -> {"absent", "requested", "queued", "active"} \cup Terminal]
  BY Zenon, <1>2, <1>4, <1>5 DEF Types, Ended
<1>7. /\ cons'.pc = (IF cons.status \in Terminal THEN "claim" ELSE "count") /\ cons'.run = r
      /\ cons'.status = cons.status /\ DOMAIN cons' = DOMAIN cons
  BY Zenon, <1>2, <1>4, <1>5
<1>8. Runs' = Runs /\ ApiReliable' = ApiReliable /\ ControllerStays' = ControllerStays
  BY Zenon, <1>3, EnvStill
<1>9. Types'
  BY Zenon, <1>3, <1>5, <1>6, <1>8, EnvStill DEF Types
<1>10. RowsKept /\ Grown
  BY <1>3, <1>5, <1>6 DEF RowsKept, Grown
<1>11. \A n \in 1..Len(log) : Pending(n)' => Pending(n)
  BY Zenon, <1>3, <1>5 DEF Pending
<1>12. \A g \in Groups : g # r[1] => Spares(g)
  BY Zenon, <1>3, <1>6, <1>7, <1>11 DEF Spares
<1>13. Present'
  <2>1. \A q \in Runs : q[1] = r[1] => runStatus'[q] # "absent"
    BY Zenon, <1>5, <1>6 DEF IInv, Present, Terminal
  <2> QED BY Zenon, <1>3, <1>5, <1>12, <2>1, PresentRows
<1>14. Sweeping'
  BY Zenon, <1>3, <1>10, SweepingKept DEF IInv
<1>15. InTurn' /\ OneOpen'
  <2>1. ASSUME NEW c \in Runs, c[1] = r[1], Turn(c)
        PROVE  Turn(c)'
    <3>1. ~Fresh(r)
      BY Zenon, <1>5 DEF Fresh
    <3>2. \A q \in Runs : q[1] = c[1] /\ q # c => runStatus'[q] = runStatus[q]
      <4>1. CASE r = c
        BY Zenon, <1>6, <4>1
      <4>2. CASE r # c
        <5>1. r[2] < c[2]
          BY <2>1, <3>1, <4>2, SameRun, RunFacts, <1>5, EnvFacts DEF Turn
        <5>2. Ended(r)
          BY Zenon, <2>1, <5>1 DEF Turn
        <5> QED BY Zenon, <1>6, <5>2
      <4> QED BY Zenon, <4>1, <4>2
    <3>3. c \in inbox \/ ctl[c] = "running" \/ click[c[1]] = "publish" => (Ended(c)' => Ended(c))
      <4>1. CASE r = c /\ cons.status \in Terminal
        BY Zenon, <1>5, <2>1, <3>1, <4>1 DEF Turn
      <4>2. CASE ~(r = c /\ cons.status \in Terminal)
        BY Zenon, <1>6, <4>2 DEF Ended
      <4> QED BY Zenon, <4>1, <4>2
    <3> QED BY Zenon, <1>3, <1>5, <1>7, <1>11, <2>1, <3>2, <3>3, TurnStays
  <2>2. ~Driven(r[1]) => ~Driven(r[1])'
    <3>1. PICK h : h = r[1]
      BY Zenon
    <3>2. ~Driven(h) => ~Driven(h)'
      BY Zenon, <1>3, <1>8 DEF Driven
    <3> QED BY Zenon, <3>1, <3>2
  <2> QED BY Zenon, <1>3, <1>5, <1>10, <1>12, <2>1, <2>2, InTurnBut
<1>16. Consuming'
  BY Zenon, <1>3, <1>5, <1>6, <1>7, <1>8 DEF Consuming, Ended
<1>17. Settled'
  <2>1. SUFFICES ASSUME ApiReliable
                 PROVE  Settled'
    BY Zenon, <1>8 DEF Settled
  <2>2. \A g \in Groups : g # r[1] =>
            /\ ToRead(g) => ToRead(g)'
            /\ ~InHand(g) /\ Rollup(g)' = Rollup(g)
            /\ \A q \in Runs : q[1] = g => (Ended(q)' <=> Ended(q)) /\ runStatus'[q] = runStatus[q]
    BY Zenon, <1>3, <1>4, <1>6, RollupStill DEF ToRead, InHand, Ended
  <2>3. \A g \in Groups : g = r[1] => InHand(g)'
    BY Zenon, <1>7 DEF InHand
  <2>4. \A g \in Groups : groupStatus[g] = "completed" => \A q \in Runs : q[1] = g => runStatus'[q] = "completed"
    BY Zenon, <2>1, <1>6 DEF Settled, IInv, Ended, Terminal
  <2>5. cons'.pc \in {"claim", "count"}
    BY Zenon, <1>7
  <2>6. \A g \in Groups : (groupStatus'[g] # "absent" /\ \A q \in Runs : q[1] = g => Ended(q)') =>
            groupStatus'[g] = Rollup(g)' \/ ToRead(g)' \/ InHand(g)'
    <3>1. \A g \in Groups : g # r[1] /\ groupStatus[g] # "absent" /\ (\A q \in Runs : q[1] = g => Ended(q)) =>
              groupStatus[g] = Rollup(g) \/ ToRead(g)
      BY Zenon, <2>1, <2>2 DEF Settled, IInv
    <3> QED BY Zenon, <1>3, <2>2, <2>3, <3>1
  <2> QED BY Zenon, <1>3, <1>8, <2>4, <2>5, <2>6 DEF Settled
<1>18. Outcomes'
  <2>1. TellsOnce => TellsOnce'
    BY Zenon, <1>3 DEF TellsOnce
  <2>2. ASSUME Known
        PROVE  Known'
    <3>1. ASSUME NEW n \in 1..pos, log[n].status \in Terminal
          PROVE  runStatus'[log[n].run] \in Terminal
      <4>1. CASE n = pos
        BY Zenon, <1>5, <1>6, <3>1, <4>1 DEF Ended
      <4>2. CASE n # pos
        <5>1. PICK q \in Runs : q = log[n].run
          BY <1>5, Message
        <5>2. Ended(q)
          BY <1>5, <2>2, <3>1, <4>2, <5>1 DEF Known
        <5> QED BY Zenon, <1>10, <5>1, <5>2 DEF RowsKept, Ended
      <4> QED BY Zenon, <4>1, <4>2
    <3> QED BY Zenon, <1>3, <3>1 DEF Known, Ended
  <2> QED BY Zenon, <1>3, <1>8, <2>1, <2>2 DEF Outcomes, IInv
<1>19. OutcomeIsFirst'
  <2>1. CASE Ended(r) \/ cons.status \notin Terminal
    <3>1. \A q \in Runs : Ended(q)' => runStatus'[q] = runStatus[q]
      BY Zenon, <1>6, <2>1 DEF Ended
    <3> QED BY Zenon, <1>3, <1>5, <1>10, <3>1, FirstKept DEF IInv
  <2>2. CASE ~Ended(r) /\ cons.status \in Terminal
    <3>1. SUFFICES ASSUME ControllerStays, ~ {"db", "apiCrash"} \subseteq env.faults, NEW q \in Runs, Ended(q)'
                   PROVE  \E k \in 1..Len(log) :
                             /\ log[k] = [run |-> q, status |-> runStatus'[q]]
                             /\ \A m \in 1..(k - 1) : log[m].run = q => log[m].status \notin Terminal
      BY Zenon, <1>3, <1>8 DEF OutcomeIsFirst, Ended
    <3>2. CASE q # r
      BY <1>6, <3>1, <3>2 DEF OutcomeIsFirst, IInv, Ended
    <3>3. CASE q = r
      <4>1. log[pos] = [run |-> r, status |-> runStatus'[r]]
        BY Zenon, <1>5, <1>6, <2>2, Message DEF Messages
      <4>2. ASSUME NEW m \in 1..(pos - 1), log[m].run = r, log[m].status \in Terminal
            PROVE  FALSE
        <5>1. m \in 1..Len(log) /\ m \in 1..pos /\ m < pos
          BY <1>5
        <5>2. CASE "apiCrash" \notin env.faults
          BY <1>5, <2>2, <3>1, <4>2, <5>1, <5>2 DEF IInv, Outcomes, TellsOnce
        <5>3. CASE "db" \notin env.faults
          BY Zenon, <2>2, <3>1, <4>2, <5>1, <5>3 DEF IInv, Outcomes, Known
        <5> QED BY Zenon, <3>1, <5>2, <5>3
      <4> QED BY Zenon, <1>5, <3>3, <4>1, <4>2
    <3> QED BY Zenon, <3>2, <3>3
  <2> QED BY Zenon, <2>1, <2>2
<1> QED
  BY Zenon, <1>9, <1>13, <1>14, <1>15, <1>16, <1>17, <1>18, <1>19 DEF IInv

\* Taking a claim back keeps the invariant.
LEMMA ResetClaimStep ==
    ASSUME IInv, ResetClaim
    PROVE  IInv'
<1>1. CASE Fault("db") /\ UNCHANGED runStatus
  BY Zenon, <1>1, SkipStep DEF ResetClaim, Fault, dbVars
<1>2. SUFFICES ASSUME runStatus' = [runStatus EXCEPT ![cons.next] = IF @ \in Terminal THEN @ ELSE "requested"]
               PROVE  IInv'
  BY Zenon, <1>1 DEF ResetClaim
<1>3. /\ env' = env /\ UNCHANGED <<click, groupStatus, inbox, ctl, sweep, swept, log, pos, com>>
      /\ cons.pc = "reset" /\ cons' = Resting /\ cons'.pc = "fetch"
  BY Zenon, RestingFacts DEF ResetClaim, ctlVars, logVars
<1>4. PICK r \in Runs : r = cons.next
  BY Zenon, <1>3 DEF IInv, Consuming
<1>5. /\ Types /\ Len(log) \in Nat /\ r[1] = cons.run[1] /\ r[1] \in Groups /\ groupStatus[r[1]] # "absent"
  BY Zenon, <1>3, <1>4, HandFacts DEF IInv, Consuming
<1>6. /\ \A q \in Runs : q # r => runStatus'[q] = runStatus[q]
      /\ runStatus'[r] = IF Ended(r) THEN runStatus[r] ELSE "requested"
      /\ runStatus' \in [Runs -> {"absent", "requested", "queued", "active"} \cup Terminal]
  BY Zenon, <1>2, <1>4, <1>5 DEF Types, Ended
<1>7. \A q \in Runs : (Ended(q)' <=> Ended(q)) /\ (Ended(q) => runStatus'[q] = runStatus[q])
  BY Zenon, <1>6 DEF Ended, Terminal
<1>8. Runs' = Runs /\ ApiReliable' = ApiReliable /\ ControllerStays' = ControllerStays
  BY Zenon, <1>3, EnvStill
<1>9. Types'
  BY Zenon, <1>3, <1>5, <1>6, <1>8, EnvStill DEF Types
<1>10. RowsKept /\ Grown
  BY <1>3, <1>5, <1>7 DEF RowsKept, Grown
<1>11. \A n \in 1..Len(log) : Pending(n)' => Pending(n)
  BY Zenon, <1>3 DEF Pending
<1>12. \A g \in Groups : g # r[1] => Spares(g)
  BY Zenon, <1>3, <1>6, <1>11 DEF Spares
<1>13. Present'
  <2>1. \A q \in Runs : q[1] = r[1] => runStatus'[q] # "absent"
    BY Zenon, <1>5, <1>6 DEF IInv, Present
  <2> QED BY Zenon, <1>3, <1>5, <1>12, <2>1, PresentRows
<1>14. Sweeping'
  BY Zenon, <1>3, <1>10, SweepingKept DEF IInv
<1>15. InTurn' /\ OneOpen'
  <2>1. ASSUME NEW c \in Runs, c[1] = r[1], Turn(c)
        PROVE  Turn(c)'
    <3>1. r = c
      BY Zenon, <1>3, <1>4, <2>1 DEF Turn
    <3> QED BY Zenon, <1>3, <1>5, <1>6, <1>7, <1>11, <2>1, <3>1, TurnStays
  <2>2. ~Driven(r[1]) => ~Driven(r[1])'
    <3>1. PICK h : h = r[1]
      BY Zenon
    <3>2. ~Driven(h) => ~Driven(h)'
      BY Zenon, <1>3, <1>8 DEF Driven
    <3> QED BY Zenon, <3>1, <3>2
  <2> QED BY Zenon, <1>3, <1>5, <1>10, <1>12, <2>1, <2>2, InTurnBut
<1>16. Consuming'
  BY Zenon, <1>3, RestingFacts DEF Consuming
<1>17. Settled'
  BY Zenon, <1>3, <1>8 DEF IInv, Settled
<1>18. Outcomes'
  <2>1. TellsOnce => TellsOnce'
    BY Zenon, <1>3 DEF TellsOnce
  <2>2. Known => Known'
    BY Zenon, <1>3, <1>5, <1>10, KnownKept
  <2> QED BY Zenon, <1>3, <1>8, <2>1, <2>2 DEF Outcomes, IInv
<1>19. OutcomeIsFirst'
  BY Zenon, <1>3, <1>5, <1>7, <1>10, FirstKept DEF IInv
<1> QED
  BY Zenon, <1>9, <1>13, <1>14, <1>15, <1>16, <1>17, <1>18, <1>19 DEF IInv

\* No run of the group is left to claim.
LEMMA NothingLeftStep ==
    ASSUME IInv, cons.pc = "claim", cons' = [cons EXCEPT !.pc = "count"],
           UNCHANGED <<env, click, dbVars, inbox, ctlVars, logVars>>
    PROVE  IInv'
<1>1. /\ pos \in 1..Len(log) /\ com < pos /\ Types
      /\ cons.run = log[pos].run /\ cons.status = log[pos].status
      /\ DOMAIN cons = {"pc", "run", "status", "next", "rollup"}
  BY Zenon, HandFacts
<1>2. cons'.pc = "count" /\ cons'.run = cons.run /\ cons'.status = cons.status /\ DOMAIN cons' = DOMAIN cons
  BY Zenon, <1>1
<1>3. Types'
  BY Zenon, <1>1, EnvStill DEF Types, dbVars, ctlVars, logVars
<1>4. \A n \in 1..Len(log) : Pending(n)' => Pending(n)
  BY Zenon, <1>2 DEF Pending, logVars
<1>5. RowsKept /\ Grown /\ Present' /\ Sweeping' /\ InTurn' /\ OneOpen' /\ OutcomeIsFirst'
  BY Zenon, <1>2, <1>4, Quiet DEF logVars
<1>6. Consuming'
  BY Zenon, <1>1, <1>2 DEF Consuming, logVars
<1>7. Settled'
  <2>1. \A g \in Groups : (ToRead(g) => ToRead(g)') /\ (InHand(g) => InHand(g)') /\ Rollup(g)' = Rollup(g)
    BY Zenon, <1>2, RollupStill DEF ToRead, InHand, logVars, dbVars
  <2> QED BY Zenon, <1>2, <2>1, EnvStill DEF Settled, IInv, Ended, dbVars
<1>8. Outcomes'
  <2>1. TellsOnce => TellsOnce'
    BY Zenon DEF TellsOnce, logVars
  <2>2. Known => Known'
    BY Zenon DEF Known, Ended, dbVars, logVars
  <2> QED BY Zenon, <2>1, <2>2, EnvStill DEF Outcomes, IInv
<1> QED
  BY Zenon, <1>3, <1>5, <1>6, <1>7, <1>8 DEF IInv

\* After the run c has ended and its end was read, it is the turn of the claimed run.
LEMMA NextTurn ==
    ASSUME IInv, env' = env, NEW c \in Runs, Turn(c), NEW d \in Runs, d[1] = c[1],
           cons.pc = "claim", c[1] = cons.run[1], runStatus[d] = "requested",
           \A r \in Runs : r[1] = c[1] /\ runStatus[r] = "requested" => d[2] <= r[2],
           UNCHANGED <<log, pos, inbox, ctl, click>>,
           \A r \in Runs : r # d => runStatus'[r] = runStatus[r],
           runStatus'[d] = "queued", cons'.pc = "publish", cons'.next = d
    PROVE  Turn(d)'
<1>1. Runs' = Runs /\ \A r \in Runs : r[1] \in Groups /\ r[2] \in Nat /\ (r[1] = c[1] /\ r[2] = c[2] => r = c)
  BY EnvStill, RunFacts, EnvFacts, SameRun DEF IInv
<1>2. \A r \in Runs : (Fresh(r)' <=> Fresh(r)) /\ (Silent(r)' <=> Silent(r)) /\ (Ended(r)' <=> Ended(r))
  BY Zenon DEF Fresh, Silent, Ended, Terminal
<1>3. pos \in 1..Len(log) /\ log[pos].run = cons.run /\ log[pos].status \in Terminal /\ Ended(cons.run)
  BY Zenon, HandFacts DEF IInv, Consuming
<1>4. cons.run = c /\ Ended(c) /\ ~Silent(c)
  BY Zenon, <1>3 DEF Turn, Pending, Silent
<1>5. d[2] > c[2] /\ Fresh(d) /\ ~Ended(d)
  <2>1. ~Ended(d)
    BY Zenon DEF Ended, Terminal
  <2>2. ~(d[2] < c[2]) /\ d # c
    BY Zenon, <1>4, <2>1 DEF Turn
  <2>3. d[2] > c[2]
    BY <1>1, <2>2
  <2> QED BY Zenon, <2>1, <2>3 DEF Turn
<1>6. \A r \in Runs : r[1] = d[1] /\ r[2] < d[2] => Ended(r)' /\ r \notin inbox' /\ ctl'[r] # "running"
  <2>1. ASSUME NEW r \in Runs, r[1] = d[1], r[2] < d[2]
        PROVE  Ended(r) /\ r \notin inbox /\ ctl[r] # "running"
    <3>1. CASE r[2] < c[2]
      BY Zenon, <2>1, <3>1 DEF Turn
    <3>2. CASE r[2] > c[2]
      <4>1. runStatus[r] = "requested"
        BY Zenon, <2>1, <3>2 DEF Turn
      <4> QED BY <1>1, <2>1, <4>1
    <3>3. CASE r = c
      BY Zenon, <1>4, <3>3 DEF Turn
    <3> QED BY <1>1, <2>1, <3>1, <3>2, <3>3
  <2> QED BY Zenon, <1>2, <2>1
<1>7. \A r \in Runs : r[1] = d[1] /\ r[2] > d[2] => runStatus'[r] = "requested" /\ Fresh(r)'
  <2>1. \A r \in Runs : r[1] = d[1] /\ r[2] > d[2] => r[2] > c[2] /\ r # d
    BY <1>1, <1>5
  <2> QED BY Zenon, <1>2, <2>1 DEF Turn
<1>8. ASSUME NEW n \in 1..Len(log), log[n].run[1] = c[1], log[n].status \in Terminal, Pending(n)'
      PROVE  FALSE
  <2>1. n > pos
    BY Zenon, <1>8 DEF Pending
  <2>2. log[n].run = c
    BY Zenon, <1>8, <2>1 DEF Turn, Pending
  <2>3. n = pos
    BY Zenon, <1>3, <1>4, <1>8, <2>2 DEF Turn
  <2> QED BY <1>3, <2>1, <2>3
<1>9. Silent(d) /\ d \notin inbox /\ ctl[d] = "none"
  BY Zenon, <1>5 DEF Fresh
<1>10. click[d[1]] # "publish"
  BY Zenon, <1>4 DEF Turn, Fresh
<1>11. \A n \in 1..Len(log') : log'[n].run # d
  BY Zenon, <1>9 DEF Silent
<1> QED
  BY Zenon, <1>1, <1>2, <1>5, <1>6, <1>7, <1>8, <1>9, <1>10, <1>11 DEF Turn

\* Claiming the next run of a group keeps the invariant.
LEMMA ClaimStep ==
    ASSUME IInv, ClaimNextRunInGroup
    PROVE  IInv'
<1>1. /\ env' = env /\ UNCHANGED <<click, groupStatus, inbox, ctl, sweep, swept, log, pos, com>>
      /\ cons.pc = "claim"
  BY Zenon DEF ClaimNextRunInGroup, ctlVars, logVars
<1>2. PICK g \in Groups : g = cons.run[1]
  BY Zenon, <1>1, HandFacts
<1>3. CASE Undispatched(g) = {} /\ cons' = [cons EXCEPT !.pc = "count"] /\ UNCHANGED runStatus
  BY Zenon, <1>1, <1>3, NothingLeftStep DEF dbVars, ctlVars, logVars
<1>4. CASE Fault("db") /\ cons' = Resting /\ UNCHANGED runStatus
  BY Zenon, <1>1, <1>4, SkipStep DEF Fault, dbVars, ctlVars, logVars
<1>5. SUFFICES ASSUME NEW i \in Undispatched(g), \A j \in Undispatched(g) : i <= j,
                      runStatus' = [runStatus EXCEPT ![<<g, i>>] = "queued"],
                      cons' = [cons EXCEPT !.pc = "publish", !.next = <<g, i>>]
               PROVE  IInv'
  BY Zenon, <1>2, <1>3, <1>4 DEF ClaimNextRunInGroup
<1>6. /\ pos \in 1..Len(log) /\ com < pos /\ Types /\ Len(log) \in Nat
      /\ cons.run = log[pos].run /\ cons.status = log[pos].status /\ cons.run \in Runs
      /\ DOMAIN cons = {"pc", "run", "status", "next", "rollup"}
      /\ groupStatus[g] # "absent" /\ cons.status \in Terminal /\ Ended(cons.run)
  BY Zenon, <1>1, <1>2, HandFacts DEF IInv, Consuming
<1>7. PICK r \in Runs : r = <<g, i>>
  BY Zenon, RunMade DEF Undispatched
<1>8. /\ r[1] = g /\ runStatus[r] = "requested"
      /\ \A q \in Runs : q[1] = g /\ runStatus[q] = "requested" => r[2] <= q[2]
  <2>1. \A q \in Runs : q[1] = g /\ runStatus[q] = "requested" => q[2] \in Undispatched(g)
    BY Zenon, RunFacts DEF Undispatched
  <2> QED BY Zenon, <1>5, <1>7, <2>1 DEF Undispatched
<1>9. /\ \A q \in Runs : q # r => runStatus'[q] = runStatus[q]
      /\ runStatus'[r] = "queued"
      /\ runStatus' \in [Runs -> {"absent", "requested", "queued", "active"} \cup Terminal]
  BY Zenon, <1>5, <1>6, <1>7 DEF Types
<1>10. /\ cons'.pc = "publish" /\ cons'.next = r /\ cons'.run = cons.run
       /\ cons'.status = cons.status /\ DOMAIN cons' = DOMAIN cons
  BY Zenon, <1>5, <1>6, <1>7
<1>11. \A q \in Runs : (Ended(q)' <=> Ended(q)) /\ (Ended(q) => runStatus'[q] = runStatus[q])
  BY Zenon, <1>8, <1>9 DEF Ended, Terminal
<1>12. Runs' = Runs /\ ApiReliable' = ApiReliable /\ ControllerStays' = ControllerStays
  BY Zenon, <1>1, EnvStill
<1>13. Types'
  BY Zenon, <1>1, <1>6, <1>9, <1>12, EnvStill DEF Types
<1>14. RowsKept /\ Grown
  BY <1>1, <1>6, <1>11 DEF RowsKept, Grown
<1>15. \A n \in 1..Len(log) : Pending(n)' => Pending(n)
  BY Zenon, <1>1, <1>10 DEF Pending
<1>16. \A h \in Groups : h # g => Spares(h)
  BY Zenon, <1>1, <1>8, <1>9, <1>10, <1>15 DEF Spares
<1>17. Present'
  <2>1. \A q \in Runs : q[1] = g => runStatus'[q] # "absent"
    BY Zenon, <1>6, <1>9 DEF IInv, Present
  <2> QED BY Zenon, <1>1, <1>6, <1>16, <2>1, PresentRows
<1>18. Sweeping'
  BY Zenon, <1>1, <1>14, SweepingKept DEF IInv
<1>19. InTurn' /\ OneOpen'
  <2>1. ASSUME NEW c \in Runs, c[1] = g, Turn(c)
        PROVE  Turn(r)'
    BY <1>1, <1>2, <1>8, <1>9, <1>10, <2>1, NextTurn
  <2>2. ~Driven(g) => ~Driven(g)'
    BY Zenon, <1>1, <1>12 DEF Driven
  <2> QED BY Zenon, <1>1, <1>8, <1>14, <1>16, <2>1, <2>2, InTurnBut
<1>20. Consuming'
  <2>1. runStatus'[cons'.run] \in Terminal
    <3>1. PICK q \in Runs : q = cons.run /\ Ended(q)
      BY Zenon, <1>6
    <3>2. Ended(q)'
      BY Zenon, <1>11, <3>1
    <3> QED BY Zenon, <1>10, <3>1, <3>2 DEF Ended
  <2> QED BY Zenon, <1>1, <1>2, <1>6, <1>8, <1>10, <1>12, <2>1 DEF Consuming, Ended
<1>21. Settled'
  <2>1. SUFFICES ASSUME ApiReliable
                 PROVE  Settled'
    BY Zenon, <1>12 DEF Settled
  <2>2. \A h \in Groups : h # g => (ToRead(h) => ToRead(h)') /\ ~InHand(h) /\ Rollup(h)' = Rollup(h)
    BY Zenon, <1>1, <1>2, <1>8, <1>9, RollupStill DEF ToRead, InHand
  <2>3. InHand(g)'
    BY Zenon, <1>2, <1>10 DEF InHand
  <2>4. \A h \in Groups : groupStatus[h] = "completed" => \A q \in Runs : q[1] = h => runStatus'[q] = "completed"
    BY Zenon, <2>1, <1>8, <1>9 DEF Settled, IInv
  <2>5. \A h \in Groups : (groupStatus'[h] # "absent" /\ \A q \in Runs : q[1] = h => Ended(q)') =>
            groupStatus'[h] = Rollup(h)' \/ ToRead(h)' \/ InHand(h)'
    <3>1. \A h \in Groups : h # g /\ groupStatus[h] # "absent" /\ (\A q \in Runs : q[1] = h => Ended(q)) =>
              groupStatus[h] = Rollup(h) \/ ToRead(h)
      BY Zenon, <2>1, <2>2 DEF Settled, IInv
    <3> QED BY Zenon, <1>1, <1>11, <2>2, <2>3, <3>1
  <2> QED BY Zenon, <1>1, <1>10, <1>12, <2>4, <2>5 DEF Settled
<1>22. Outcomes'
  <2>1. TellsOnce => TellsOnce'
    BY Zenon, <1>1 DEF TellsOnce
  <2>2. Known => Known'
    BY Zenon, <1>1, <1>6, <1>14, KnownKept
  <2> QED BY Zenon, <1>1, <1>12, <2>1, <2>2 DEF Outcomes, IInv
<1>23. OutcomeIsFirst'
  BY Zenon, <1>1, <1>6, <1>11, <1>14, FirstKept DEF IInv
<1> QED
  BY Zenon, <1>13, <1>17, <1>18, <1>19, <1>20, <1>21, <1>22, <1>23 DEF IInv

-----------------------------------------------------------------------------
(* The steps that publish a request *)

\* A claim is not waiting to be published while the first request is.
LEMMA OneRequest ==
    ASSUME IInv, NEW c \in Runs, Turn(c), click[c[1]] = "publish"
    PROVE  ~(cons.pc \in {"publish", "reset"} /\ cons.next[1] = c[1])
<1>1. SUFFICES ASSUME cons.pc \in {"publish", "reset"}, cons.next[1] = c[1]
               PROVE  FALSE
  BY Zenon
<1>2. cons.run \in Runs /\ cons.run[1] = c[1] /\ ~Silent(cons.run)
  BY Zenon, <1>1, HandFacts DEF IInv, Consuming
<1>3. c[2] = 1 /\ Silent(c)
  BY Zenon DEF Turn, Fresh
<1>4. cons.run # c /\ cons.run[2] \in Nat \ {0}
  BY <1>2, <1>3, RunFacts, EnvFacts DEF IInv
<1>5. cons.run[2] > 1
  BY <1>2, <1>3, <1>4, SameRun
<1>6. Fresh(cons.run)
  BY Zenon, <1>2, <1>3, <1>5 DEF Turn
<1> QED
  BY Zenon, <1>2, <1>6 DEF Fresh

\* The request of the run whose turn it is reaches the topic, or does not.
LEMMA RequestStep ==
    ASSUME IInv, env' = env, UNCHANGED <<dbVars, ctlVars, logVars>>,
           NEW c \in Runs, groupStatus[c[1]] # "absent", inbox' \subseteq inbox \cup {c},
           \A h \in Groups : click'[h] = "publish" => click[h] = "publish",
           \A n \in 1..Len(log) : Pending(n)' => Pending(n),
           cons'.pc \in {"publish", "reset"} /\ cons'.next[1] # c[1] => cons' = cons,
           \A d \in Runs : d[1] = c[1] /\ Turn(d) =>
               /\ d = c /\ Fresh(c) /\ ~Ended(c) /\ click'[c[1]] # "publish"
               /\ cons'.pc \in {"publish", "reset"} /\ cons'.next[1] = c[1] =>
                     cons'.pc = "reset" /\ cons'.next = c
    PROVE  RowsKept /\ Grown /\ Present' /\ Sweeping' /\ InTurn' /\ OneOpen' /\ OutcomeIsFirst'
<1>1. /\ UNCHANGED <<groupStatus, runStatus, ctl, sweep, log, pos, com>> /\ c[1] \in Groups /\ Types
      /\ Len(log) \in Nat
  BY RunFacts DEF dbVars, ctlVars, logVars, IInv, Types
<1>2. Runs' = Runs
  BY Zenon, EnvStill
<1>3. RowsKept /\ Grown
  BY <1>1 DEF RowsKept, Grown
<1>4. \A g \in Groups : g # c[1] => Spares(g)
  BY Zenon, <1>1 DEF Spares
<1>5. Present'
  <2>1. \A q \in Runs : q[1] = c[1] => runStatus'[q] # "absent"
    BY Zenon, <1>1 DEF IInv, Present
  <2> QED BY Zenon, <1>1, <1>4, <2>1, PresentRows
<1>6. Sweeping'
  BY Zenon, <1>1, <1>3, SweepingKept DEF IInv
<1>7. InTurn' /\ OneOpen'
  <2>1. ASSUME NEW d \in Runs, d[1] = c[1], Turn(d)
        PROVE  Turn(d)'
    <3>1. /\ d = c /\ Fresh(c) /\ ~Ended(c) /\ click'[c[1]] # "publish"
          /\ cons'.pc \in {"publish", "reset"} /\ cons'.next[1] = c[1] => cons'.pc = "reset" /\ cons'.next = c
      BY Zenon, <2>1
    <3>2. \A r \in Runs : r[2] < c[2] \/ r[2] > c[2] => r # c
      BY RunFacts, EnvFacts, <1>1
    <3>3. \A r \in Runs : r # c => (r \in inbox' => r \in inbox) /\ (Fresh(r) => Fresh(r)')
      BY Zenon, <1>1 DEF Fresh, Silent
    <3>4. \A r \in Runs : (Ended(r)' <=> Ended(r)) /\ (Silent(r)' <=> Silent(r))
      BY Zenon, <1>1 DEF Ended, Silent
    <3>5. \A r \in Runs : r[1] = c[1] /\ r[2] < c[2] => Ended(r)' /\ r \notin inbox' /\ ctl'[r] # "running"
      BY Zenon, <1>1, <2>1, <3>1, <3>2, <3>3, <3>4 DEF Turn
    <3>6. \A r \in Runs : r[1] = c[1] /\ r[2] > c[2] => runStatus'[r] = "requested" /\ Fresh(r)'
      BY Zenon, <1>1, <2>1, <3>1, <3>2, <3>3 DEF Turn
    <3>7. \A n \in 1..Len(log') :
              log'[n].run[1] = c[1] /\ log'[n].status \in Terminal /\ Pending(n)' => log'[n].run = c
      BY Zenon, <1>1, <2>1, <3>1 DEF Turn
    <3>8. ctl'[c] = "none" /\ Silent(c)' /\ ~Ended(c)'
      BY Zenon, <1>1, <3>1, <3>4 DEF Fresh
    <3>9. \A n \in 1..Len(log') : log'[n].run # c
      BY Zenon, <3>8 DEF Silent
    <3>10. cons'.pc # "publish" \/ cons'.next # c
      BY Zenon, <3>1
    <3> QED BY Zenon, <1>2, <3>1, <3>5, <3>6, <3>7, <3>8, <3>9, <3>10 DEF Turn
  <2>2. ~Driven(c[1]) => ~Driven(c[1])'
    <3>1. PICK h : h = c[1]
      BY Zenon
    <3>2. ~Driven(h) => ~Driven(h)'
      BY Zenon, <1>1, <1>2 DEF Driven
    <3> QED BY Zenon, <3>1, <3>2
  <2> QED BY Zenon, <1>1, <1>3, <1>4, <2>1, <2>2, InTurnBut
<1>8. OutcomeIsFirst'
  BY Zenon, <1>1, <1>3, FirstKept DEF IInv
<1> QED
  BY Zenon, <1>3, <1>5, <1>6, <1>7, <1>8

\* A group has a first scenario.
LEMMA FirstRun ==
    ASSUME Types, NEW g \in Groups
    PROVE  \E c \in Runs : c = <<g, 1>>
<1>1. 1 \in 1..N
  BY EnvFacts
<1>2. <<g, 1>> \in Runs
  BY Zenon, <1>1 DEF Runs
<1> QED
  BY Zenon, <1>2

\* Requesting a group's first run keeps the invariant.
LEMMA PublishFirstStep ==
    ASSUME IInv, NEW g \in Groups, PublishFirst(g)
    PROVE  IInv'
<1>1. /\ env' = env /\ UNCHANGED <<dbVars, ctlVars, logVars, cons>> /\ click[g] = "publish" /\ Types
      /\ click' = [click EXCEPT ![g] = "done"] /\ inbox' \subseteq inbox \cup {<<g, 1>>} /\ N \in Nat \ {0}
  BY Zenon, EnvFacts DEF PublishFirst, IInv
<1>2. PICK c \in Runs : c = <<g, 1>>
  BY Zenon, <1>1, FirstRun
<1>3. UNCHANGED <<groupStatus, runStatus, log, pos, com, ctl>> /\ c[1] = g /\ c[2] = 1
  BY Zenon, <1>1, <1>2 DEF dbVars, logVars, ctlVars
<1>4. groupStatus[g] # "absent"
  BY Zenon, <1>1 DEF IInv, Present, Absent
<1>5. Types'
  <2>1. click' \in [Groups -> {"idle", "insert", "publish", "done"}] /\ inbox' \subseteq Runs
    BY Zenon, <1>1, <1>2 DEF Types
  <2>2. \A h \in Groups : click'[h] \in {"idle", "insert"} => groupStatus[h] = "absent"
    BY Zenon, <1>1 DEF Types
  <2> QED BY Zenon, <1>1, <1>3, <2>1, <2>2, EnvStill DEF Types
<1>6. \A n \in 1..Len(log) : Pending(n)' => Pending(n)
  BY Zenon, <1>1, <1>3 DEF Pending
<1>7. ASSUME NEW d \in Runs, d[1] = c[1], Turn(d)
      PROVE  /\ d = c /\ Fresh(c) /\ ~Ended(c) /\ click'[c[1]] # "publish"
             /\ ~(cons.pc \in {"publish", "reset"} /\ cons.next[1] = c[1])
  <2>1. d[2] = 1 /\ Fresh(d) /\ ~Ended(d)
    BY Zenon, <1>1, <1>3, <1>7 DEF Turn
  <2>2. d = c
    BY Zenon, <1>3, <1>7, <2>1, SameRun
  <2>3. click'[g] # "publish"
    BY Zenon, <1>1 DEF Types
  <2> QED BY Zenon, <1>1, <1>3, <1>7, <2>1, <2>2, <2>3, OneRequest
<1>8. \A h \in Groups : click'[h] = "publish" => click[h] = "publish"
  BY Zenon, <1>1 DEF Types
<1>9. RowsKept /\ Grown /\ Present' /\ Sweeping' /\ InTurn' /\ OneOpen' /\ OutcomeIsFirst'
  BY <1>1, <1>2, <1>3, <1>4, <1>6, <1>7, <1>8, RequestStep
<1>10. Consuming' /\ Settled' /\ Outcomes'
  <2>1. (ControllerStays /\ "apiCrash" \notin env.faults) => TellsOnce'
    BY Zenon, <1>3 DEF IInv, Outcomes, TellsOnce
  <2> QED BY <1>1, <1>3, <1>9, <2>1, ConsumerApart DEF IInv, Types
<1> QED
  BY Zenon, <1>5, <1>9, <1>10 DEF IInv

\* Requesting a claimed run keeps the invariant.
LEMMA PublishNextStep ==
    ASSUME IInv, PublishNext
    PROVE  IInv'
<1>1. /\ env' = env /\ UNCHANGED <<click, dbVars, ctlVars, logVars>> /\ cons.pc = "publish"
      /\ inbox' \subseteq inbox \cup {cons.next}
      /\ \/ cons' = [cons EXCEPT !.pc = "count"]
         \/ cons' = [cons EXCEPT !.pc = "reset"] /\ "publishNext" \in env.faults
  BY Zenon DEF PublishNext, Fault
<1>2. /\ pos \in 1..Len(log) /\ com < pos /\ Types /\ Len(log) \in Nat
      /\ cons.run = log[pos].run /\ cons.status = log[pos].status
      /\ DOMAIN cons = {"pc", "run", "status", "next", "rollup"}
      /\ groupStatus[cons.run[1]] # "absent" /\ cons.status \in Terminal /\ Ended(cons.run)
      /\ cons.next \in Runs /\ cons.next[1] = cons.run[1]
  BY Zenon, <1>1, HandFacts DEF IInv, Consuming
<1>3. /\ cons'.pc = "count" \/ (cons'.pc = "reset" /\ "publishNext" \in env.faults)
      /\ cons'.run = cons.run /\ cons'.status = cons.status /\ cons'.next = cons.next
      /\ DOMAIN cons' = DOMAIN cons
  BY Zenon, <1>1, <1>2
<1>4. UNCHANGED <<groupStatus, runStatus, log, pos, com, ctl>>
  BY Zenon, <1>1 DEF dbVars, logVars, ctlVars
<1>5. PICK c \in Runs : c = cons.next
  BY Zenon, <1>2
<1>6. Runs' = Runs /\ ApiReliable' = ApiReliable /\ ControllerStays' = ControllerStays
  BY Zenon, <1>1, EnvStill
<1>7. Types'
  BY Zenon, <1>1, <1>2, <1>4, EnvStill DEF Types
<1>8. \A n \in 1..Len(log) : Pending(n)' => Pending(n)
  BY Zenon, <1>3, <1>4 DEF Pending
<1>9. ASSUME NEW d \in Runs, d[1] = c[1], Turn(d)
      PROVE  /\ d = c /\ Fresh(c) /\ ~Ended(c) /\ click'[c[1]] # "publish"
             /\ cons'.pc \in {"publish", "reset"} /\ cons'.next[1] = c[1] =>
                   cons'.pc = "reset" /\ cons'.next = c
  <2>1. d = c /\ Fresh(c) /\ ~Ended(c)
    BY Zenon, <1>1, <1>5, <1>9 DEF Turn
  <2>2. click[c[1]] # "publish"
    BY Zenon, <1>1, <1>5, <1>9, OneRequest
  <2> QED BY Zenon, <1>1, <1>3, <1>5, <2>1, <2>2
<1>10. RowsKept /\ Grown /\ Present' /\ Sweeping' /\ InTurn' /\ OneOpen' /\ OutcomeIsFirst'
  <2>1. cons'.pc \in {"publish", "reset"} /\ cons'.next[1] # c[1] => cons' = cons
    BY Zenon, <1>3, <1>5
  <2> QED BY <1>1, <1>2, <1>5, <1>8, <1>9, <2>1, RequestStep
<1>11. Consuming'
  BY Zenon, <1>2, <1>3, <1>4, <1>6 DEF Consuming, Ended
<1>12. Settled'
  <2>1. \A g \in Groups : (ToRead(g) => ToRead(g)') /\ (InHand(g) => InHand(g)') /\ Rollup(g)' = Rollup(g)
    BY Zenon, <1>1, <1>3, <1>4, RollupStill DEF ToRead, InHand
  <2> QED BY Zenon, <1>3, <1>4, <1>6, <2>1 DEF Settled, IInv, Ended, ApiReliable
<1>13. Outcomes'
  <2>1. TellsOnce => TellsOnce'
    BY Zenon, <1>4 DEF TellsOnce
  <2>2. Known => Known'
    BY Zenon, <1>1, <1>2, <1>4, <1>10, KnownKept
  <2> QED BY Zenon, <1>1, <1>6, <2>1, <2>2 DEF Outcomes, IInv
<1> QED
  BY Zenon, <1>7, <1>10, <1>11, <1>12, <1>13 DEF IInv

\* A new group: its rows appear, and it is the turn of its first scenario.
LEMMA InsertStep ==
    ASSUME IInv, NEW g \in Groups, Insert(g)
    PROVE  IInv'
<1>1. CASE \E h \in Groups : groupStatus[h] \in ActiveGroup
  BY Zenon, <1>1, JoinStep DEF Insert, dbVars
<1>2. SUFFICES ASSUME \A h \in Groups : groupStatus[h] \notin ActiveGroup
               PROVE  IInv'
  BY Zenon, <1>1
<1>3. /\ env' = env /\ UNCHANGED <<inbox, ctl, sweep, swept, log, pos, com, cons>> /\ click[g] = "insert"
      /\ click' = [click EXCEPT ![g] = "publish"]
      /\ groupStatus' = [groupStatus EXCEPT ![g] = "requested"]
      /\ runStatus' = [r \in Runs |-> IF r[1] # g THEN runStatus[r]
                                      ELSE IF r[2] = 1 THEN "queued" ELSE "requested"]
  BY Zenon, <1>2 DEF Insert, ctlVars, logVars
<1>4. Types /\ Len(log) \in Nat /\ groupStatus[g] = "absent" /\ Absent(g) /\ N \in Nat \ {0}
  BY <1>3, EnvFacts DEF IInv, Types, Present
<1>5. /\ \A h \in Groups : h # g => groupStatus'[h] = groupStatus[h] /\ click'[h] = click[h]
      /\ groupStatus'[g] = "requested" /\ click'[g] = "publish"
  BY Zenon, <1>3, <1>4 DEF Types
<1>6. /\ \A r \in Runs : r[1] # g => runStatus'[r] = runStatus[r]
      /\ \A r \in Runs : r[1] = g => runStatus'[r] \in {"queued", "requested"} /\ runStatus[r] = "absent"
                                     /\ Fresh(r) /\ ~Ended(r) /\ ~Ended(r)'
      /\ \A r \in Runs : r[1] = g /\ r[2] # 1 => runStatus'[r] = "requested"
  BY Zenon, <1>3, <1>4 DEF Absent, Ended, Terminal
<1>7. Runs' = Runs /\ ApiReliable' = ApiReliable /\ ControllerStays' = ControllerStays
  BY Zenon, <1>3, EnvStill
<1>8. Types'
  <2>1. groupStatus' \in [Groups -> {"absent"} \cup ActiveGroup \cup Terminal]
    BY Zenon, <1>3, <1>4 DEF Types, ActiveGroup
  <2>2. runStatus' \in [Runs -> {"absent", "requested", "queued", "active"} \cup Terminal]
    BY Zenon, <1>3, <1>4 DEF Types
  <2>3. click' \in [Groups -> {"idle", "insert", "publish", "done"}]
    BY Zenon, <1>3, <1>4 DEF Types
  <2>4. \A h \in Groups : click'[h] \in {"idle", "insert"} => groupStatus'[h] = "absent"
    BY Zenon, <1>4, <1>5 DEF Types
  <2> QED BY Zenon, <1>3, <1>4, <1>7, <2>1, <2>2, <2>3, <2>4, EnvStill DEF Types
<1>9. RowsKept /\ Grown
  BY <1>3, <1>4, <1>6 DEF RowsKept, Grown
<1>10. \A h \in Groups : h # g => Spares(h)
  <2>1. \A n \in 1..Len(log) : Pending(n)' => Pending(n)
    BY Zenon, <1>3 DEF Pending
  <2> QED BY Zenon, <1>3, <1>5, <1>6, <2>1 DEF Spares
<1>11. Present'
  <2>1. ASSUME NEW h \in Groups, groupStatus'[h] = "absent"
        PROVE  Absent(h)'
    <3>1. h # g /\ Absent(h) /\ \A r \in Runs : r[1] = h => r \notin sweep'.runs
      BY Zenon, <1>3, <1>5, <2>1 DEF Present, Absent, IInv
    <3> QED BY Zenon, <1>3, <1>4, <1>10, <3>1, AbsentKept
  <2>2. ASSUME NEW h \in Groups, groupStatus'[h] # "absent", NEW r \in Runs, r[1] = h
        PROVE  runStatus'[r] # "absent"
    <3>1. CASE h = g
      BY Zenon, <1>6, <2>2, <3>1
    <3>2. CASE h # g
      BY Zenon, <1>5, <1>6, <2>2, <3>2 DEF Present, IInv
    <3> QED BY Zenon, <3>1, <3>2
  <2> QED BY <1>7, <2>1, <2>2, Zenon DEF Present
<1>12. Sweeping'
  BY Zenon, <1>3, <1>9, SweepingKept DEF IInv
<1>13. \A r \in Runs : Doomed(r) => Doomed(r)' \/ Ended(r)'
  BY Zenon, <1>3 DEF Doomed
<1>14. ~(cons.pc \in {"publish", "reset"} /\ cons.next[1] = g) /\ (cons.pc # "fetch" => cons.run[1] # g)
  <2>1. cons.pc # "fetch" => cons.run[1] # g
    BY Zenon, <1>4, HandFacts
  <2> QED BY Zenon, <2>1 DEF IInv, Consuming
<1>15. PICK c \in Runs : c = <<g, 1>>
  BY Zenon, <1>4, FirstRun
<1>16. Turn(c)'
  <2>1. c[1] = g /\ c[2] = 1 /\ \A r \in Runs : r[2] \in Nat \ {0}
    BY <1>4, <1>15, RunFacts
  <2>2. \A r \in Runs : r[1] = g => Fresh(r)' /\ Fresh(r)
    BY Zenon, <1>3, <1>6 DEF Fresh, Silent
  <2>3. \A n \in 1..Len(log) : log[n].run[1] # g /\ log[n].run # c
    <3>1. ASSUME NEW n \in 1..Len(log), log[n].run[1] = g
          PROVE  FALSE
      BY Zenon, <1>4, <2>2, <3>1, Message DEF Fresh, Silent
    <3> QED BY Zenon, <2>1, <3>1
  <2>4. c \notin inbox' /\ ctl'[c] = "none" /\ Fresh(c)' /\ ~Ended(c)'
    BY Zenon, <1>6, <2>1, <2>2 DEF Fresh
  <2>5. \A r \in Runs : ~(r[2] < 1) /\ (r[1] = g /\ r[2] > 1 => runStatus'[r] = "requested" /\ Fresh(r)')
    BY <1>6, <2>1, <2>2
  <2> QED BY Zenon, <1>3, <1>7, <1>14, <2>1, <2>3, <2>4, <2>5 DEF Turn
<1>17. InTurn'
  <2>1. \A h \in Groups : "apiCrash" \notin env.faults /\ h # g /\ Orderly(h) => Orderly(h)'
    BY Zenon, <1>3, <1>4, <1>9, <1>10, <1>13, OrderlyKept
  <2>2. Orderly(g)'
    <3>1. c[1] = g
      BY Zenon, <1>15
    <3> QED BY <1>7, <1>16, <3>1, Zenon DEF Orderly
  <2> QED BY Zenon, <1>3, <1>5, <2>1, <2>2 DEF InTurn, IInv
<1>18. OneOpen'
  <2>1. \A h \in Groups : Closing(h) => Closing(h)'
    BY Zenon, <1>3, <1>9, <1>13, ClosingKept
  <2>2. \A h \in Groups : h # g => groupStatus'[h] \notin ActiveGroup
    BY Zenon, <1>2, <1>5
  <2> QED BY Zenon, <1>5, <1>7, <2>1, <2>2 DEF OneOpen, IInv, ActiveGroup
<1>19. Consuming' /\ Outcomes'
  <2>1. (ControllerStays /\ "apiCrash" \notin env.faults) => TellsOnce'
    BY Zenon, <1>3 DEF IInv, Outcomes, TellsOnce
  <2> QED BY Zenon, <1>3, <1>4, <1>9, <2>1, ConsumerApart DEF IInv
<1>20. Settled'
  <2>1. \A h \in Groups : h # g =>
            /\ (ToRead(h) => ToRead(h)') /\ (InHand(h) => InHand(h)') /\ Rollup(h)' = Rollup(h)
            /\ \A r \in Runs : r[1] = h => (Ended(r)' <=> Ended(r))
    BY Zenon, <1>3, <1>6, RollupStill DEF ToRead, InHand, Ended
  <2>2. c[1] = g /\ ~Ended(c)'
    BY Zenon, <1>6, <1>15
  <2>3. ApiReliable /\ cons.pc = "write" => cons.rollup = Rollup(cons.run[1])' \/ ToRead(cons.run[1])'
    <3>1. SUFFICES ASSUME ApiReliable, cons.pc = "write"
                   PROVE  cons.rollup = Rollup(cons.run[1])' \/ ToRead(cons.run[1])'
      BY Zenon
    <3>2. PICK h \in Groups : h = cons.run[1] /\ h # g
      BY Zenon, <1>14, <3>1, HandFacts
    <3>3. cons.rollup = Rollup(h) \/ ToRead(h)
      BY Zenon, <3>1, <3>2 DEF Settled, IInv
    <3>4. cons.rollup = Rollup(h)' \/ ToRead(h)'
      BY Zenon, <2>1, <3>2, <3>3
    <3> QED BY Zenon, <1>3, <3>2, <3>4
  <2>4. ApiReliable => \A h \in Groups : groupStatus'[h] = "completed" =>
            \A r \in Runs : r[1] = h => runStatus'[r] = "completed"
    BY <1>5, <1>6 DEF Settled, IInv
  <2>5. ApiReliable => \A h \in Groups :
            (groupStatus'[h] # "absent" /\ \A r \in Runs : r[1] = h => Ended(r)') =>
                groupStatus'[h] = Rollup(h)' \/ ToRead(h)' \/ InHand(h)'
    BY Zenon, <1>5, <2>1, <2>2 DEF Settled, IInv
  <2>6. ApiReliable => cons'.pc # "reset"
    BY Zenon, <1>3 DEF Settled, IInv
  <2> QED BY Zenon, <1>3, <1>7, <2>3, <2>4, <2>5, <2>6 DEF Settled
<1>21. OutcomeIsFirst'
  <2>1. \A r \in Runs : Ended(r)' => runStatus'[r] = runStatus[r]
    BY Zenon, <1>6
  <2> QED BY Zenon, <1>3, <1>4, <1>9, <2>1, FirstKept DEF IInv
<1> QED
  BY Zenon, <1>8, <1>11, <1>12, <1>17, <1>18, <1>19, <1>20, <1>21 DEF IInv

-----------------------------------------------------------------------------
(* The controller's sessions *)

\* A session that tells something, in a group that is there.
LEMMA SessionStep ==
    ASSUME IInv, env' = env, UNCHANGED <<click, dbVars, sweep, swept, pos, com, cons>>, sweep.pc = "up",
           NEW r \in Runs, groupStatus[r[1]] # "absent", NEW st \in {"active"} \cup Terminal,
           Published(r, st), inbox' \subseteq inbox, ctl' \in [Runs -> {"none", "running", "ended"}],
           \A q \in Runs : q # r => ctl'[q] = ctl[q],
           Closing(r[1]) => Driven(r[1]),
           "apiCrash" \notin env.faults => \A c \in Runs : c[1] = r[1] /\ Turn(c) => Turn(c)',
           st \in Terminal /\ "apiCrash" \notin env.faults =>
               \A n \in 1..Len(log) : log[n].run = r => log[n].status \notin Terminal
    PROVE  IInv'
<1>1. /\ log' \in Seq(Messages) /\ Len(log') = Len(log) + 1 /\ Len(log) \in Nat
      /\ log'[Len(log) + 1] = [run |-> r, status |-> st]
      /\ \A n \in 1..Len(log) : log'[n] = log[n]
      /\ \A n \in 1..Len(log') : n \in 1..Len(log) \/ n = Len(log) + 1
  BY Zenon, Told DEF IInv
<1>2. UNCHANGED <<groupStatus, runStatus>> /\ Types /\ r[1] \in Groups
  BY Zenon, RunFacts DEF dbVars, IInv
<1>3. Runs' = Runs /\ ControllerStays' = ControllerStays /\ Messages' = Messages
  BY Zenon, EnvStill
<1>4. Types'
  <2>1. pos \in Nat /\ pos <= Len(log) /\ com <= pos
    BY Zenon, <1>2 DEF Types
  <2>2. pos <= Len(log')
    BY ONLY <1>1, <2>1
  <2> QED BY Zenon, <1>1, <1>2, <1>3, <2>1, <2>2 DEF Types
<1>5. RowsKept /\ Grown /\ Len(log') \in Nat
  <2>1. Len(log) <= Len(log') /\ Len(log') \in Nat
    BY ONLY <1>1
  <2> QED BY Zenon, <1>1, <1>2, <2>1 DEF RowsKept, Grown
<1>6. \A n \in 1..Len(log) : Pending(n)' => Pending(n)
  BY Zenon DEF Pending
<1>7. \A g \in Groups : g # r[1] => Spares(g)
  <2>1. log'[Len(log) + 1].run = r
    BY ONLY <1>1
  <2>2. ASSUME NEW g \in Groups, g # r[1], NEW n \in 1..Len(log'), log'[n].run[1] = g
        PROVE  n \in 1..Len(log) /\ log'[n] = log[n]
    BY Zenon, <1>1, <2>1, <2>2
  <2> QED BY Zenon, <1>2, <1>6, <2>2 DEF Spares
<1>8. Present'
  <2>1. \A q \in Runs : q[1] = r[1] => runStatus'[q] # "absent"
    BY Zenon, <1>2 DEF IInv, Present
  <2> QED BY Zenon, <1>2, <1>7, <2>1, PresentRows
<1>9. Sweeping'
  BY Zenon, <1>5, SweepingKept DEF IInv
<1>10. InTurn' /\ OneOpen'
  <2>1. "apiCrash" \notin env.faults =>
            \A c \in Runs : c[1] = r[1] /\ Turn(c) => \E d \in Runs : d[1] = r[1] /\ Turn(d)'
    BY Zenon
  <2> QED BY Zenon, <1>2, <1>5, <1>7, <2>1, InTurnBut
<1>11. Consuming' /\ Settled' /\ Outcomes'
  <2>1. (ControllerStays /\ "apiCrash" \notin env.faults) => TellsOnce'
    <3>1. SUFFICES ASSUME TellsOnce, "apiCrash" \notin env.faults,
                          NEW n \in 1..Len(log'), NEW m \in 1..Len(log'), log'[n].run = log'[m].run,
                          log'[n].status \in Terminal, log'[m].status \in Terminal
                   PROVE  n = m
      BY Zenon DEF IInv, Outcomes, TellsOnce
    <3>2. CASE n \in 1..Len(log) /\ m \in 1..Len(log)
      BY Zenon, <1>1, <3>1, <3>2 DEF TellsOnce
    <3>3. CASE n = Len(log) + 1 /\ m \in 1..Len(log)
      BY <1>1, <3>1, <3>3
    <3>4. CASE m = Len(log) + 1 /\ n \in 1..Len(log)
      BY <1>1, <3>1, <3>4
    <3> QED BY Zenon, <1>1, <3>1, <3>2, <3>3, <3>4
  <2> QED BY Zenon, <1>2, <1>5, <2>1, ConsumerApart DEF IInv
<1>12. OutcomeIsFirst'
  BY Zenon, <1>2, <1>5, FirstKept DEF IInv
<1> QED
  BY Zenon, <1>4, <1>8, <1>9, <1>10, <1>11, <1>12 DEF IInv

\* Taking a request keeps the invariant.
LEMMA DispatchStep ==
    ASSUME IInv, NEW r \in Runs, Dispatch(r)
    PROVE  IInv'
<1>1. /\ env' = env /\ UNCHANGED <<click, dbVars, sweep, swept, pos, com, cons>>
      /\ sweep.pc = "up" /\ r \in inbox /\ inbox' = inbox \ {r}
      /\ UNCHANGED <<groupStatus, runStatus>> /\ Types
  BY Zenon DEF Dispatch, dbVars, IInv
<1>2. CASE UNCHANGED <<ctl, log>>
  <2>1. Types'
    BY Zenon, <1>1, <1>2, EnvStill DEF Types
  <2>2. \A g \in Groups : Spares(g)
    BY Zenon, <1>1, <1>2 DEF Spares, Pending
  <2>3. RowsKept /\ Present' /\ Sweeping' /\ InTurn' /\ OneOpen'
    BY Zenon, <1>1, <2>2, AllSpared DEF IInv
  <2>4. Grown /\ Len(log') \in Nat
    BY <1>1, <1>2 DEF Grown, Types
  <2>5. OutcomeIsFirst'
    BY Zenon, <1>1, <2>4, FirstKept DEF IInv
  <2>6. Consuming' /\ Settled' /\ Outcomes'
    <3>1. (ControllerStays /\ "apiCrash" \notin env.faults) => TellsOnce'
      BY Zenon, <1>2 DEF IInv, Outcomes, TellsOnce
    <3> QED BY Zenon, <1>1, <2>3, <2>4, <3>1, ConsumerApart DEF IInv
  <2> QED BY Zenon, <2>1, <2>3, <2>5, <2>6 DEF IInv
<1>3. CASE ~Ended(r) /\ ctl[r] = "none" /\ ctl' = [ctl EXCEPT ![r] = "running"] /\ Published(r, "active")
  <2>1. r[1] \in Groups /\ groupStatus[r[1]] # "absent"
    BY Zenon, <1>1, RunFacts DEF IInv, Present, Absent, Fresh
  <2>2. ~Closing(r[1])
    BY Zenon, <1>1, <1>3 DEF Closing, Doomed, IInv, Sweeping
  <2>3. /\ ctl' \in [Runs -> {"none", "running", "ended"}] /\ ctl'[r] = "running"
        /\ \A q \in Runs : q # r => ctl'[q] = ctl[q]
    BY Zenon, <1>1, <1>3 DEF Types
  <2>4. /\ Len(log') = Len(log) + 1 /\ Len(log) \in Nat
        /\ log'[Len(log) + 1] = [run |-> r, status |-> "active"]
        /\ \A n \in 1..Len(log) : log'[n] = log[n]
        /\ \A n \in 1..Len(log') : n \in 1..Len(log) \/ n = Len(log) + 1
    BY Zenon, <1>1, <1>3, Told
  <2>5. ASSUME NEW c \in Runs, c[1] = r[1], Turn(c)
        PROVE  Turn(c)'
    <3>1. c = r
      <4>1. ~(r[2] < c[2]) /\ ~(r[2] > c[2])
        BY Zenon, <1>1, <2>5 DEF Turn, Fresh
      <4> QED BY <1>1, <2>5, <4>1, RunFacts, SameRun, EnvFacts
    <3>2. Silent(c) /\ ~Fresh(c)
      BY Zenon, <1>1, <2>5, <3>1 DEF Turn, Fresh
    <3>3. \A n \in 1..Len(log') : log'[n].status \in Terminal => n \in 1..Len(log) /\ log'[n] = log[n]
      BY <2>4 DEF Terminal
    <3>4. \A q \in Runs : q # r => (Fresh(q) => Fresh(q)')
      BY <1>1, <2>3, <2>4 DEF Fresh, Silent
    <3>5. \A q \in Runs : (Ended(q)' <=> Ended(q)) /\ (q[2] < c[2] \/ q[2] > c[2] => q # r)
      BY <1>1, <3>1, RunFacts, EnvFacts DEF Ended
    <3>6. \A q \in Runs : q[1] = c[1] /\ q[2] < c[2] => Ended(q)' /\ q \notin inbox' /\ ctl'[q] # "running"
      BY Zenon, <1>1, <2>3, <2>5, <3>5 DEF Turn
    <3>7. \A q \in Runs : q[1] = c[1] /\ q[2] > c[2] => runStatus'[q] = "requested" /\ Fresh(q)'
      BY Zenon, <1>1, <2>5, <3>4, <3>5 DEF Turn
    <3>8. \A n \in 1..Len(log') :
              log'[n].run[1] = c[1] /\ log'[n].status \in Terminal /\ Pending(n)' => log'[n].run = c
      BY Zenon, <1>1, <2>5, <3>3 DEF Turn, Pending
    <3>9. \A n \in 1..Len(log') : log'[n].run = c => log'[n].status \notin Terminal
      BY Zenon, <3>2, <3>3 DEF Silent
    <3>10. c \notin inbox' /\ ~Ended(c)' /\ click'[c[1]] # "publish"
      BY Zenon, <1>1, <1>3, <2>5, <3>1, <3>2, <3>5 DEF Turn
    <3>11. /\ cons'.pc \in {"publish", "reset"} /\ cons'.next[1] = c[1] => cons'.next = c
           /\ ~(cons'.pc = "publish" /\ cons'.next = c)
      BY Zenon, <1>1, <2>5, <3>2 DEF Turn
    <3>12. Runs' = Runs
      BY Zenon, <1>1, EnvStill
    <3> QED BY Zenon, <3>6, <3>7, <3>8, <3>9, <3>10, <3>11, <3>12 DEF Turn
  <2>6. "active" \notin Terminal
    BY Zenon DEF Terminal
  <2> QED BY Zenon, <1>1, <1>3, <2>1, <2>2, <2>3, <2>5, <2>6, SessionStep
<1> QED
  BY Zenon, <1>1, <1>2, <1>3 DEF Dispatch, Ended, Types

\* Only the run whose turn it is has a session that is driven, and it has told no end.
LEMMA DrivenFacts ==
    ASSUME IInv, NEW r \in Runs, ctl[r] = "running"
    PROVE  /\ sweep.pc = "up" /\ r[1] \in Groups /\ groupStatus[r[1]] # "absent" /\ Driven(r[1])
           /\ "apiCrash" \notin env.faults => Turn(r)
<1>1. sweep.pc = "up" /\ r[1] \in Groups /\ groupStatus[r[1]] # "absent" /\ Driven(r[1])
  BY Zenon, RunFacts DEF IInv, Sweeping, Present, Absent, Fresh, Driven
<1>2. ASSUME "apiCrash" \notin env.faults
      PROVE  Turn(r)
  <2>1. PICK c \in Runs : c[1] = r[1] /\ Turn(c)
    BY Zenon, <1>1, <1>2 DEF IInv, InTurn, Orderly
  <2>2. ~(r[2] < c[2]) /\ ~(r[2] > c[2])
    BY Zenon, <2>1 DEF Turn, Fresh
  <2>3. c = r
    BY <2>1, <2>2, RunFacts, SameRun, EnvFacts DEF IInv
  <2> QED BY Zenon, <2>1, <2>3
<1> QED
  BY Zenon, <1>1, <1>2

\* A session's outcome keeps the invariant.
LEMMA FinishStep ==
    ASSUME IInv, NEW r \in Runs, Finish(r)
    PROVE  IInv'
<1>1. /\ env' = env /\ UNCHANGED <<click, dbVars, inbox, sweep, swept, pos, com, cons>>
      /\ ctl[r] = "running" /\ ctl' = [ctl EXCEPT ![r] = "ended"]
      /\ UNCHANGED <<groupStatus, runStatus>> /\ Types
  BY Zenon DEF Finish, dbVars, IInv
<1>2. PICK st \in Terminal : Published(r, st)
  BY Zenon DEF Finish
<1>3. /\ sweep.pc = "up" /\ r[1] \in Groups /\ groupStatus[r[1]] # "absent" /\ Driven(r[1])
      /\ "apiCrash" \notin env.faults => Turn(r)
  BY Zenon, <1>1, DrivenFacts
<1>4. /\ ctl' \in [Runs -> {"none", "running", "ended"}] /\ ctl'[r] = "ended"
      /\ \A q \in Runs : q # r => ctl'[q] = ctl[q]
  BY Zenon, <1>1 DEF Types
<1>5. /\ Len(log') = Len(log) + 1 /\ Len(log) \in Nat
      /\ log'[Len(log) + 1] = [run |-> r, status |-> st]
      /\ \A n \in 1..Len(log) : log'[n] = log[n]
      /\ \A n \in 1..Len(log') : n \in 1..Len(log) \/ n = Len(log) + 1
  BY Zenon, <1>1, <1>2, Told
<1>6. ASSUME NEW c \in Runs, c[1] = r[1], Turn(c)
      PROVE  Turn(c)'
  <2>1. c = r
    <3>1. ~(r[2] < c[2]) /\ ~(r[2] > c[2])
      BY Zenon, <1>1, <1>6 DEF Turn, Fresh
    <3> QED BY <1>1, <1>6, <3>1, RunFacts, SameRun, EnvFacts
  <2>2. c \notin inbox /\ ~Fresh(c) /\ \A n \in 1..Len(log) : log[n].run = c => log[n].status \notin Terminal
    BY Zenon, <1>1, <1>6, <2>1 DEF Turn, Fresh
  <2>3. \A q \in Runs : q # r => (Fresh(q) => Fresh(q)')
    BY <1>1, <1>4, <1>5 DEF Fresh, Silent
  <2>4. \A q \in Runs : (Ended(q)' <=> Ended(q)) /\ (q[2] < c[2] \/ q[2] > c[2] => q # r)
    BY <1>1, <2>1, RunFacts, EnvFacts DEF Ended
  <2>5. \A q \in Runs : q[1] = c[1] /\ q[2] < c[2] => Ended(q)' /\ q \notin inbox' /\ ctl'[q] # "running"
    BY Zenon, <1>1, <1>4, <1>6, <2>4 DEF Turn
  <2>6. \A q \in Runs : q[1] = c[1] /\ q[2] > c[2] => runStatus'[q] = "requested" /\ Fresh(q)'
    BY Zenon, <1>1, <1>6, <2>3, <2>4 DEF Turn
  <2>7. \A n \in 1..Len(log') :
            log'[n].run[1] = c[1] /\ log'[n].status \in Terminal /\ Pending(n)' => log'[n].run = c
    <3>1. ASSUME NEW n \in 1..Len(log), Pending(n)'
          PROVE  Pending(n)
      BY Zenon, <1>1, <3>1 DEF Pending
    <3>2. ASSUME NEW n \in 1..Len(log), log[n].run[1] = c[1], log[n].status \in Terminal, Pending(n)'
          PROVE  log[n].run = c
      BY Zenon, <1>6, <3>1, <3>2 DEF Turn
    <3>3. log'[Len(log) + 1].run = c
      BY ONLY <1>5, <2>1
    <3> QED BY Zenon, <1>5, <3>2, <3>3
  <2>8. \A n \in 1..Len(log') : log'[n].run = c /\ log'[n].status \in Terminal => n = Len(log) + 1
    BY Zenon, <1>5, <2>2
  <2>9. c \notin inbox' /\ ctl'[c] # "running" /\ click'[c[1]] # "publish"
    BY Zenon, <1>1, <1>4, <1>6, <2>1, <2>2 DEF Turn
  <2>10. /\ cons'.pc \in {"publish", "reset"} /\ cons'.next[1] = c[1] => cons'.next = c
         /\ ~(cons'.pc = "publish" /\ cons'.next = c)
    BY Zenon, <1>1, <1>6, <2>2 DEF Turn
  <2>11. Runs' = Runs
    BY Zenon, <1>1, EnvStill
  <2> QED BY Zenon, <2>5, <2>6, <2>7, <2>8, <2>9, <2>10, <2>11 DEF Turn
<1>7. "apiCrash" \notin env.faults => \A n \in 1..Len(log) : log[n].run = r => log[n].status \notin Terminal
  BY Zenon, <1>1, <1>3 DEF Turn
<1> QED
  BY Zenon, <1>1, <1>2, <1>3, <1>4, <1>6, <1>7, SessionStep

-----------------------------------------------------------------------------
(* The controller's restart *)

\* The controller goes down, lists what was in flight, or comes up.
LEMMA RestartStep ==
    ASSUME IInv, env' = env, UNCHANGED <<click, dbVars, inbox, logVars, cons>>, Sweeping',
           ctl' \in [Runs -> {"none", "running", "ended"}], \A r \in Runs : ctl'[r] \in {ctl[r], "none"},
           \A r \in Runs : r \in sweep'.runs => r \in sweep.runs \/ runStatus[r] # "absent",
           \A r \in Runs : runStatus[r] # "absent" /\ Doomed(r) => Doomed(r)' \/ Ended(r)'
    PROVE  IInv'
<1>1. UNCHANGED <<groupStatus, runStatus, log, pos, com>> /\ Types /\ Len(log) \in Nat
  <2>1. UNCHANGED <<groupStatus, runStatus, log, pos, com>> /\ Types
    BY Zenon DEF dbVars, logVars, IInv
  <2>2. log \in Seq(Messages)
    BY Zenon, <2>1 DEF Types
  <2>3. Len(log) \in Nat
    BY ONLY <2>2
  <2> QED BY Zenon, <2>1, <2>3
<1>2. Runs' = Runs /\ ApiReliable' = ApiReliable
  BY Zenon, EnvStill
<1>3. Types'
  BY Zenon, <1>1, <1>2, EnvStill DEF Types
<1>4. \A g \in Groups : Spares(g)
  BY Zenon, <1>1 DEF Spares, Pending
<1>5. RowsKept /\ Grown /\ Len(log') \in Nat
  BY <1>1 DEF RowsKept, Grown
<1>6. Present'
  <2>1. ASSUME NEW g \in Groups, groupStatus[g] = "absent"
        PROVE  Absent(g)'
    <3>1. Absent(g)
      BY Zenon, <2>1 DEF Present, IInv
    <3>2. \A r \in Runs : r[1] = g => r \notin sweep'.runs
      BY Zenon, <3>1 DEF Absent
    <3> QED BY Zenon, <1>1, <1>4, <3>1, <3>2, AbsentKept
  <2>2. ASSUME NEW g \in Groups, groupStatus[g] # "absent", NEW r \in Runs, r[1] = g
        PROVE  runStatus'[r] # "absent"
    BY Zenon, <1>1, <2>2 DEF Present, IInv
  <2> QED BY <1>1, <1>2, <2>1, <2>2, Zenon DEF Present
<1>7. ASSUME NEW g \in Groups, groupStatus[g] # "absent"
      PROVE  \A r \in Runs : r[1] = g /\ Doomed(r) => Doomed(r)' \/ Ended(r)'
  BY Zenon, <1>7 DEF Present, IInv
<1>8. InTurn'
  <2>1. \A g \in Groups : "apiCrash" \notin env.faults /\ groupStatus[g] # "absent" /\ Orderly(g) => Orderly(g)'
    BY Zenon, <1>1, <1>4, <1>5, <1>7, OrderlyKept
  <2> QED BY Zenon, <1>1, <2>1 DEF InTurn, IInv
<1>9. OneOpen'
  <2>1. \A g \in Groups : groupStatus[g] # "absent" /\ Closing(g) => Closing(g)'
    BY Zenon, <1>5, <1>7, ClosingKept
  <2> QED BY Zenon, <1>1, <1>2, <2>1 DEF OneOpen, IInv
<1>10. Consuming' /\ Settled' /\ Outcomes'
  <2>1. (ControllerStays /\ "apiCrash" \notin env.faults) => TellsOnce'
    BY Zenon, <1>1 DEF IInv, Outcomes, TellsOnce
  <2> QED BY Zenon, <1>1, <1>5, <2>1, ConsumerApart DEF IInv
<1>11. OutcomeIsFirst'
  BY Zenon, <1>1, <1>5, FirstKept DEF IInv
<1> QED
  BY Zenon, <1>3, <1>6, <1>8, <1>9, <1>10, <1>11 DEF IInv

\* A crash of the controller keeps the invariant.
LEMMA CtlCrashStep ==
    ASSUME IInv, CtlCrash
    PROVE  IInv'
<1>1. /\ env' = env /\ UNCHANGED <<click, dbVars, inbox, logVars, cons>> /\ "ctlCrash" \in env.faults
      /\ ctl' = [r \in Runs |-> "none"] /\ sweep' = [pc |-> "down", runs |-> {}]
  BY Zenon DEF CtlCrash, Fault
<1>2. Runs' = Runs /\ ~ControllerStays'
  BY Zenon, <1>1, EnvStill DEF ControllerStays
<1>3. Sweeping'
  BY Zenon, <1>1, <1>2 DEF Sweeping
<1>4. \A r \in Runs : Doomed(r)'
  BY Zenon, <1>1 DEF Doomed
<1> QED
  BY Zenon, <1>1, <1>3, <1>4, RestartStep

\* The sweep's query keeps the invariant.
LEMMA ListInFlightStep ==
    ASSUME IInv, ListInFlightRuns
    PROVE  IInv'
<1>1. /\ env' = env /\ UNCHANGED <<click, dbVars, inbox, ctl, logVars, cons>> /\ sweep.pc = "down"
      /\ sweep' = [pc |-> "sweeping", runs |-> {r \in Runs : runStatus[r] \notin Terminal \cup {"absent"}}]
      /\ runStatus' = runStatus
  BY Zenon DEF ListInFlightRuns, dbVars
<1>2. Runs' = Runs /\ ControllerStays' = ControllerStays
  BY Zenon, <1>1, EnvStill
<1>3. \A r \in Runs : runStatus[r] # "absent" => Doomed(r)' \/ Ended(r)'
  BY Zenon, <1>1 DEF Doomed, Ended
<1>4. \A r \in sweep'.runs : Closing(r[1])'
  <2>1. ASSUME NEW r \in Runs, runStatus[r] # "absent"
        PROVE  Closing(r[1])'
    <3>1. PICK g \in Groups : g = r[1]
      BY Zenon, RunFacts
    <3>2. groupStatus[g] # "absent"
      BY Zenon, <2>1, <3>1 DEF IInv, Present, Absent
    <3>3. \A q \in Runs : q[1] = g => runStatus[q] # "absent"
      BY Zenon, <3>2 DEF IInv, Present
    <3>4. Closing(g)'
      BY Zenon, <1>2, <1>3, <3>3 DEF Closing
    <3> QED BY Zenon, <3>1, <3>4
  <2> QED BY Zenon, <1>1, <2>1
<1>5. Sweeping'
  BY Zenon, <1>1, <1>2, <1>4 DEF Sweeping, IInv
<1> QED
  BY Zenon, <1>1, <1>3, <1>5, RestartStep DEF IInv, Types

\* The end of the sweep keeps the invariant.
LEMMA SweepDoneStep ==
    ASSUME IInv, SweepDone
    PROVE  IInv'
<1>1. /\ env' = env /\ UNCHANGED <<click, dbVars, inbox, ctl, logVars, cons>>
      /\ sweep.pc = "sweeping" /\ sweep.runs = {} /\ sweep' = [sweep EXCEPT !.pc = "up"]
  BY Zenon DEF SweepDone
<1>2. sweep'.pc = "up" /\ sweep'.runs = {} /\ DOMAIN sweep' = {"pc", "runs"}
  BY Zenon, <1>1 DEF IInv, Sweeping
<1>3. Sweeping'
  BY Zenon, <1>2 DEF Sweeping
<1>4. \A r \in Runs : ~Doomed(r)
  BY Zenon, <1>1 DEF Doomed
<1> QED
  BY Zenon, <1>1, <1>2, <1>3, <1>4, RestartStep DEF IInv, Types

\* Failing a run in flight keeps the invariant.
LEMMA RecoverRunStep ==
    ASSUME IInv, NEW r \in Runs, RecoverRun(r)
    PROVE  IInv'
<1>1. /\ env' = env /\ UNCHANGED <<click, inbox, ctl, pos, com, cons>>
      /\ sweep.pc = "sweeping" /\ r \in sweep.runs /\ Published(r, "failed")
      /\ runStatus' = [runStatus EXCEPT ![r] = IF @ \in Terminal THEN @ ELSE "failed"]
      /\ groupStatus' = [groupStatus EXCEPT ![r[1]] =
                            IF @ \in Terminal \/ r[1] \in swept THEN @ ELSE "failed"]
      /\ sweep' = [sweep EXCEPT !.runs = @ \ {r}] /\ Types
  BY Zenon DEF RecoverRun, IInv
<1>2. PICK h \in Groups : h = r[1]
  BY Zenon, RunFacts
<1>3. /\ log' \in Seq(Messages) /\ Len(log') = Len(log) + 1 /\ Len(log) \in Nat
      /\ log'[Len(log) + 1] = [run |-> r, status |-> "failed"]
      /\ \A n \in 1..Len(log) : log'[n] = log[n]
      /\ \A n \in 1..Len(log') : n \in 1..Len(log) \/ n = Len(log) + 1
  <2>1. "failed" \in {"active"} \cup Terminal
    BY Zenon DEF Terminal
  <2> QED BY Zenon, <1>1, <2>1, Told
<1>4. groupStatus[h] # "absent" /\ Closing(h) /\ ~ControllerStays /\ \A q \in Runs : ctl[q] # "running"
  BY Zenon, <1>1, <1>2 DEF IInv, Present, Absent, Sweeping
<1>5. /\ \A q \in Runs : q # r => runStatus'[q] = runStatus[q]
      /\ runStatus'[r] = IF Ended(r) THEN runStatus[r] ELSE "failed"
      /\ runStatus' \in [Runs -> {"absent", "requested", "queued", "active"} \cup Terminal]
  BY Zenon, <1>1 DEF Types, Ended, Terminal
<1>6. Ended(r)' /\ \A q \in Runs : Ended(q) => Ended(q)' /\ runStatus'[q] = runStatus[q]
  BY Zenon, <1>5 DEF Ended, Terminal
<1>7. /\ \A g \in Groups : g # h => groupStatus'[g] = groupStatus[g]
      /\ groupStatus'[h] \in {groupStatus[h], "failed"} /\ groupStatus'[h] # "absent"
      /\ groupStatus' \in [Groups -> {"absent"} \cup ActiveGroup \cup Terminal]
  BY Zenon, <1>1, <1>2, <1>4 DEF Types, Terminal
<1>8. Runs' = Runs /\ ApiReliable' = ApiReliable /\ ~ControllerStays' /\ Messages' = Messages
  BY <1>1, <1>4, EnvStill
<1>9. Types'
  <2>1. \A g \in Groups : click[g] \in {"idle", "insert"} => groupStatus'[g] = "absent"
    BY Zenon, <1>1, <1>4, <1>7 DEF Types
  <2> QED BY <1>1, <1>3, <1>5, <1>7, <1>8, <2>1 DEF Types
<1>10. RowsKept /\ Grown /\ Len(log') \in Nat
  BY <1>3, <1>6 DEF RowsKept, Grown
<1>11. \A g \in Groups : g # h => Spares(g)
  <2>1. ASSUME NEW g \in Groups, g # h, NEW n \in 1..Len(log'), log'[n].run[1] = g
        PROVE  n \in 1..Len(log) /\ log'[n] = log[n]
    BY <1>2, <1>3, <2>1
  <2>2. \A n \in 1..Len(log) : Pending(n)' => Pending(n)
    BY Zenon, <1>1 DEF Pending
  <2> QED BY Zenon, <1>1, <1>2, <1>5, <2>1, <2>2 DEF Spares
<1>12. sweep'.pc = "sweeping" /\ sweep'.runs = sweep.runs \ {r} /\ DOMAIN sweep' = {"pc", "runs"}
  BY Zenon, <1>1 DEF IInv, Sweeping
<1>13. \A q \in Runs : Doomed(q) => Doomed(q)' \/ Ended(q)'
  BY Zenon, <1>1, <1>6, <1>12 DEF Doomed
<1>14. \A g : Closing(g) => Closing(g)'
  BY Zenon, <1>1, <1>10, <1>13, ClosingKept
<1>15. Present'
  <2>1. ASSUME NEW g \in Groups, groupStatus'[g] = "absent"
        PROVE  Absent(g)'
    <3>1. g # h /\ Absent(g) /\ \A q \in Runs : q[1] = g => q \notin sweep'.runs
      BY Zenon, <1>7, <1>12, <2>1 DEF Present, Absent, IInv
    <3> QED BY Zenon, <1>1, <1>11, <3>1, AbsentKept
  <2>2. ASSUME NEW g \in Groups, groupStatus'[g] # "absent", NEW q \in Runs, q[1] = g
        PROVE  runStatus'[q] # "absent"
    <3>1. runStatus[q] # "absent"
      BY Zenon, <1>4, <1>7, <2>2 DEF Present, IInv
    <3> QED BY Zenon, <1>5, <3>1
  <2> QED BY <1>8, <2>1, <2>2, Zenon DEF Present
<1>16. Sweeping'
  <2>1. ASSUME NEW q \in sweep.runs
        PROVE  Closing(q[1])'
    <3>1. PICK g : g = q[1]
      BY Zenon
    <3>2. Closing(g)'
      BY Zenon, <1>14, <3>1 DEF IInv, Sweeping
    <3> QED BY Zenon, <3>1, <3>2
  <2> QED BY Zenon, <1>1, <1>4, <1>8, <1>12, <2>1 DEF Sweeping, IInv
<1>17. InTurn'
  <2>1. Orderly(h)'
    <3>1. ~Driven(h)'
      BY Zenon, <1>1, <1>4, <1>8 DEF Driven
    <3> QED BY Zenon, <1>4, <1>14, <3>1 DEF Orderly
  <2>2. \A g \in Groups : g # h /\ "apiCrash" \notin env.faults /\ Orderly(g) => Orderly(g)'
    BY Zenon, <1>1, <1>10, <1>11, <1>13, OrderlyKept
  <2> QED BY Zenon, <1>1, <1>7, <2>1, <2>2 DEF InTurn, IInv
<1>18. OneOpen'
  <2>1. "failed" \notin ActiveGroup
    BY Zenon DEF ActiveGroup
  <2>2. \A g \in Groups : groupStatus'[g] \in ActiveGroup => groupStatus[g] \in ActiveGroup
    BY Zenon, <1>7, <2>1
  <2> QED BY Zenon, <1>4, <1>7, <1>8, <1>14, <2>2 DEF OneOpen, IInv
<1>19. Consuming' /\ Outcomes'
  BY Zenon, <1>1, <1>4, <1>10, ConsumerApart DEF IInv
<1>20. Settled'
  <2>1. SUFFICES ASSUME ApiReliable
                 PROVE  Settled'
    BY Zenon, <1>8 DEF Settled
  <2>2. ToRead(h)'
    <3>1. Len(log') \in (pos' + 1)..Len(log') /\ log'[Len(log')].run[1] = h
      BY <1>1, <1>2, <1>3 DEF Types
    <3> QED BY Zenon, <3>1 DEF ToRead
  <2>3. \A g \in Groups : g # h =>
            /\ (ToRead(g) => ToRead(g)') /\ (InHand(g) => InHand(g)') /\ Rollup(g)' = Rollup(g)
            /\ \A q \in Runs : q[1] = g => (Ended(q)' <=> Ended(q))
    <3>1. \A q \in Runs : q[1] # h => runStatus'[q] = runStatus[q]
      BY Zenon, <1>2, <1>5
    <3>2. \A g \in Groups : ToRead(g) => ToRead(g)'
      BY <1>1, <1>3 DEF ToRead, Types
    <3> QED BY Zenon, <1>1, <3>1, <3>2, RollupStill DEF InHand, Ended
  <2>4. cons.pc = "write" => cons.rollup = Rollup(cons.run[1])' \/ ToRead(cons.run[1])'
    <3>1. SUFFICES ASSUME cons.pc = "write"
                   PROVE  cons.rollup = Rollup(cons.run[1])' \/ ToRead(cons.run[1])'
      BY Zenon
    <3>2. PICK g \in Groups : g = cons.run[1]
      BY Zenon, <3>1, HandFacts
    <3>3. cons.rollup = Rollup(g) \/ ToRead(g)
      BY Zenon, <2>1, <3>1, <3>2 DEF Settled, IInv
    <3>4. cons.rollup = Rollup(g)' \/ ToRead(g)'
      BY Zenon, <2>2, <2>3, <3>3
    <3> QED BY Zenon, <1>1, <3>2, <3>4
  <2>5. \A g \in Groups : groupStatus'[g] = "completed" => \A q \in Runs : q[1] = g => runStatus'[q] = "completed"
    <3>1. \A g \in Groups : groupStatus'[g] = "completed" => groupStatus[g] = "completed"
      BY Zenon, <1>7
    <3>2. \A g \in Groups : groupStatus[g] = "completed" => \A q \in Runs : q[1] = g => runStatus[q] = "completed"
      BY Zenon, <2>1 DEF Settled, IInv
    <3> QED BY Zenon, <1>6, <3>1, <3>2 DEF Ended, Terminal
  <2>6. \A g \in Groups : (groupStatus'[g] # "absent" /\ \A q \in Runs : q[1] = g => Ended(q)') =>
            groupStatus'[g] = Rollup(g)' \/ ToRead(g)' \/ InHand(g)'
    BY Zenon, <1>7, <2>1, <2>2, <2>3 DEF Settled, IInv
  <2>7. cons'.pc # "reset"
    BY Zenon, <1>1, <2>1 DEF Settled, IInv
  <2> QED BY Zenon, <1>1, <1>8, <2>4, <2>5, <2>6, <2>7 DEF Settled
<1>21. OutcomeIsFirst'
  BY Zenon, <1>8 DEF OutcomeIsFirst
<1> QED
  BY Zenon, <1>9, <1>15, <1>16, <1>17, <1>18, <1>19, <1>20, <1>21 DEF IInv

-----------------------------------------------------------------------------
(* The invariant, and what it says *)

\* The invariant holds initially.
LEMMA InitIInv ==
    ASSUME Init
    PROVE  IInv
<1>1. /\ env \in Environments /\ log = <<>> /\ pos = 0 /\ com = 0 /\ cons = Resting /\ inbox = {}
      /\ click = [g \in Groups |-> "idle"] /\ groupStatus = [g \in Groups |-> "absent"]
      /\ runStatus = [r \in Runs |-> "absent"] /\ ctl = [r \in Runs |-> "none"]
      /\ sweep = [pc |-> "up", runs |-> {}] /\ Len(log) = 0
  BY Zenon DEF Init
<1>2. Types
  BY <1>1 DEF Types
<1>3. Consuming
  BY Zenon, <1>1, RestingFacts DEF Consuming
<1>4. Present
  <2>1. ASSUME NEW r \in Runs
        PROVE  Silent(r)
    BY <1>1 DEF Silent
  <2> QED BY Zenon, <1>1, <2>1 DEF Present, Absent, Fresh
<1>5. Sweeping
  BY Zenon, <1>1 DEF Sweeping
<1>6. InTurn
  BY Zenon, <1>1 DEF InTurn
<1>7. OneOpen
  BY Zenon, <1>1 DEF OneOpen, ActiveGroup
<1>8. Settled
  BY Zenon, <1>1, RestingFacts DEF Settled
<1>9. Outcomes
  BY <1>1 DEF Outcomes, TellsOnce, Known
<1>10. OutcomeIsFirst
  BY Zenon, <1>1 DEF OutcomeIsFirst, Terminal
<1> QED
  BY Zenon, <1>2, <1>3, <1>4, <1>5, <1>6, <1>7, <1>8, <1>9, <1>10 DEF IInv

\* A stuttering step keeps the invariant.
LEMMA StutterIInv ==
    ASSUME IInv, UNCHANGED vars
    PROVE  IInv'
<1>1. /\ env' = env /\ UNCHANGED <<click, dbVars, inbox, logVars, cons>> /\ UNCHANGED <<runStatus, ctl, sweep>>
  BY Zenon DEF vars, dbVars, ctlVars
<1>2. Sweeping' /\ \A r \in Runs : Doomed(r) => Doomed(r)'
  BY Zenon, <1>1, SweepingKept DEF RowsKept, Doomed, IInv
<1> QED
  BY Zenon, <1>1, <1>2, RestartStep DEF IInv, Types

\* Every step keeps the invariant.
LEMMA NextIInv ==
    ASSUME IInv, [Next]_vars
    PROVE  IInv'
<1>1. CASE \E g \in Groups : Click(g)
  BY Zenon, <1>1, FindActiveStep, InsertStep, PublishFirstStep DEF Click
<1>2. CASE Consume
  BY Zenon, <1>2, FetchStep, UpdateRunStatusStep, ClaimStep, PublishNextStep, ResetClaimStep,
     RecomputeCountStep, RecomputeWriteStep, CommitStep DEF Consume
<1>3. CASE ApiRestart
  BY Zenon, <1>3, ApiRestartStep
<1>4. CASE \E r \in Runs : Controller(r)
  BY Zenon, <1>4, DispatchStep, FinishStep, ReleaseStep, RecoverRunStep DEF Controller
<1>5. CASE CtlCrash
  BY Zenon, <1>5, CtlCrashStep
<1>6. CASE ListInFlightRuns
  BY Zenon, <1>6, ListInFlightStep
<1>7. CASE SweepDone
  BY Zenon, <1>7, SweepDoneStep
<1>8. CASE UNCHANGED vars
  BY Zenon, <1>8, StutterIInv
<1> QED
  BY Zenon, <1>1, <1>2, <1>3, <1>4, <1>5, <1>6, <1>7, <1>8 DEF Next

\* The invariant of the run groups holds in every reachable state (handler/benchmark.go,
\* consumer/status.go, RecoverInFlightRuns).
THEOREM Invariance == Spec => []IInv
<1>1. Init => IInv
  BY Zenon, InitIInv
<1>2. IInv /\ [Next]_vars => IInv'
  BY Zenon, NextIInv
<1> QED
  BY <1>1, <1>2, PTL DEF Spec

\* A session is driven only when the earlier scenarios of its group have ended.
LEMMA EarlierEnded ==
    ASSUME IInv, "apiCrash" \notin env.faults, NEW g \in Groups, NEW i \in 1..N, NEW j \in 1..N,
           i < j, ctl[<<g, j>>] = "running"
    PROVE  runStatus[<<g, i>>] \in Terminal
<1>1. PICK r \in Runs : r = <<g, j>>
  BY Zenon, RunMade
<1>2. PICK q \in Runs : q = <<g, i>>
  BY Zenon, RunMade
<1>3. Turn(r)
  BY Zenon, <1>1, DrivenFacts
<1>4. q[1] = r[1] /\ q[2] < r[2]
  BY Zenon, <1>1, <1>2
<1> QED
  BY Zenon, <1>2, <1>3, <1>4 DEF Turn, Ended

\* The group of a session that is driven has the submission's one open row.
LEMMA DrivenIsOpen ==
    ASSUME IInv, ApiReliable, NEW r \in Runs, ctl[r] = "running"
    PROVE  groupStatus[r[1]] \in ActiveGroup
<1>1. sweep.pc = "up" /\ r[1] \in Groups /\ groupStatus[r[1]] # "absent" /\ Turn(r)
  BY Zenon, DrivenFacts DEF ApiReliable
<1>2. ~Ended(r) /\ ~Doomed(r)
  BY Zenon, <1>1 DEF Turn, Doomed, IInv, Sweeping
<1>3. ~Closing(r[1])
  BY Zenon, <1>2 DEF Closing
<1> QED
  BY Zenon, <1>1, <1>3 DEF IInv, OneOpen

\* Load is driven in turn: a session only after the earlier scenarios of its group have
\* ended, and the sessions of one group of the submission at a time (StartBenchmark,
\* ClaimNextRunInGroup and the partial unique index on run_groups).
THEOREM LoadDrivenInTurn == Spec => []DrivenInTurn
<1>1. ASSUME IInv
      PROVE  DrivenInTurn
  <2>1. "apiCrash" \notin env.faults => \A g \in Groups : \A i, j \in 1..N :
            i < j /\ ctl[<<g, j>>] = "running" => runStatus[<<g, i>>] \in Terminal
    BY Zenon, <1>1, EarlierEnded
  <2>2. ASSUME ApiReliable, NEW q \in Runs, NEW r \in Runs, ctl[q] = "running", ctl[r] = "running"
        PROVE  q[1] = r[1]
    <3>1. /\ q[1] \in Groups /\ groupStatus[q[1]] \in ActiveGroup
          /\ r[1] \in Groups /\ groupStatus[r[1]] \in ActiveGroup
      BY Zenon, <1>1, <2>2, DrivenIsOpen, RunFacts
    <3> QED BY Zenon, <1>1, <3>1 DEF IInv, OneOpen
  <2> QED BY Zenon, <2>1, <2>2 DEF DrivenInTurn
<1> QED
  BY <1>1, Invariance, PTL

\* When nothing is on its way, a group's row is what its runs' rows add up to.
LEMMA Agreement ==
    ASSUME IInv, ApiReliable, cons.pc = "fetch", pos = Len(log), sweep.pc = "up",
           NEW g \in Groups, groupStatus[g] # "absent"
    PROVE  /\ groupStatus[g] \in Terminal <=> \A r \in Runs : r[1] = g => Ended(r)
           /\ groupStatus[g] = "completed" <=> \A r \in Runs : r[1] = g => runStatus[r] = "completed"
<1>1. ~ToRead(g) /\ ~InHand(g) /\ \A r \in Runs : ~Doomed(r)
  BY DEF ToRead, InHand, Doomed, IInv, Sweeping, Types
<1>2. /\ Rollup(g) \in Terminal <=> \A r \in Runs : r[1] = g => Ended(r)
      /\ Rollup(g) = "completed" <=> \A r \in Runs : r[1] = g => runStatus[r] = "completed"
  BY Zenon, RollupFacts DEF IInv
<1>3. groupStatus[g] \in Terminal => \A r \in Runs : r[1] = g => Ended(r)
  <2>1. groupStatus[g] \in Terminal => groupStatus[g] \notin ActiveGroup
    BY Zenon DEF Terminal, ActiveGroup
  <2> QED BY Zenon, <1>1, <2>1 DEF IInv, OneOpen, Closing
<1>4. (\A r \in Runs : r[1] = g => Ended(r)) => groupStatus[g] = Rollup(g)
  BY Zenon, <1>1 DEF IInv, Settled
<1>5. groupStatus[g] = "completed" => \A r \in Runs : r[1] = g => runStatus[r] = "completed"
  BY Zenon DEF IInv, Settled
<1>6. (\A r \in Runs : r[1] = g => runStatus[r] = "completed") => \A r \in Runs : r[1] = g => Ended(r)
  BY Zenon DEF Ended, Terminal
<1> QED
  BY Zenon, <1>2, <1>3, <1>4, <1>5, <1>6

\* The rows come to tell what happened: a run's row the first outcome its session
\* published, a group's row what its runs add up to (UpdateRunStatus,
\* RecomputeRunGroupStatus, RecoverInFlightRuns).
THEOREM RowsAreTrue == Spec => []RowsTellOutcome
<1>1. ASSUME IInv
      PROVE  RowsTellOutcome
  <2>1. ASSUME ApiReliable, cons.pc = "fetch", pos = Len(log), sweep.pc = "up",
               NEW g \in {log[k].run[1] : k \in 1..Len(log)}
        PROVE  LET outcomes == {runStatus[<<g, i>>] : i \in 1..N}
               IN /\ groupStatus[g] \in Terminal <=> outcomes \subseteq Terminal
                  /\ groupStatus[g] = "completed" <=> outcomes = {"completed"}
    <3>1. g \in Groups /\ groupStatus[g] # "absent"
      <4>1. PICK k \in 1..Len(log) : g = log[k].run[1]
        BY Zenon
      <4> QED BY Zenon, <1>1, <4>1, Message, ToldPresent DEF IInv
    <3> DEFINE outcomes == {runStatus[<<g, i>>] : i \in 1..N}
    <3>2. /\ groupStatus[g] \in Terminal <=> \A r \in Runs : r[1] = g => Ended(r)
          /\ groupStatus[g] = "completed" <=> \A r \in Runs : r[1] = g => runStatus[r] = "completed"
      BY Zenon, <1>1, <2>1, <3>1, Agreement
    <3>3. \A r \in Runs : r[1] = g => runStatus[r] \in outcomes
      BY Zenon, <3>1, RunFacts
    <3>4. \A x \in outcomes : \E r \in Runs : r[1] = g /\ x = runStatus[r]
      BY Zenon, <3>1, RunMade
    <3>5. outcomes # {}
      <4>1. 1 \in 1..N
        BY <1>1, EnvFacts DEF IInv
      <4> QED BY Zenon, <4>1
    <3> HIDE DEF outcomes
    <3>6. (\A r \in Runs : r[1] = g => Ended(r)) <=> outcomes \subseteq Terminal
      BY Zenon, <3>3, <3>4 DEF Ended
    <3>7. (\A r \in Runs : r[1] = g => runStatus[r] = "completed") <=> outcomes = {"completed"}
      BY Zenon, <3>3, <3>4, <3>5
    <3> QED BY Zenon, <3>1, <3>2, <3>6, <3>7 DEF outcomes
  <2>2. RollupAgrees
    BY Zenon, <2>1 DEF RollupAgrees
  <2> QED BY Zenon, <1>1, <2>2 DEF RowsTellOutcome, IInv
<1> QED
  BY <1>1, Invariance, PTL
=============================================================================
