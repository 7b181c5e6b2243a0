------------------------------ MODULE RunGroups ------------------------------
(***************************************************************************)
(* How one click on "benchmark" becomes a sequence of runs.                *)
(*                                                                         *)
(* services/submission-api: StartBenchmark (handler/benchmark.go), the     *)
(* benchmark.status.updated consumer (consumer/kafka.go) and the run_group *)
(* and run rows of store/postgres.go; the bot-fleet-controller as far as   *)
(* they see it: it takes requests, holds a band while a session lives,     *)
(* publishes statuses, and sweeps open runs when it restarts.  All groups  *)
(* belong to one submission.                                               *)
(*                                                                         *)
(* The status of a run is kept up to what the SQL tells apart: "active"    *)
(* stands for deploying, waiting_ready, barrier_fired and running.         *)
(***************************************************************************)
EXTENDS Integers, Sequences

CONSTANTS
    Groups,         \* run_group ids, one per StartBenchmark request
    NoRun,
    Environments    \* what a behaviour may meet, one of these records:
                    \*   clicks: the groups somebody asks for
                    \*   n: number of scenarios, so of children of a group
                    \*   faults: which of AllFaults may happen
                    \*   maxFaults: bound on how many do

AllFaults == {"ctlCrash", "apiCrash", "publishFirst", "publishNext", "db", "commit"}

ASSUME EnvironmentsKnown ==
    \A e \in Environments :
        /\ e.clicks \subseteq Groups
        /\ e.n \in Nat \ {0} /\ e.faults \subseteq AllFaults /\ e.maxFaults \in Nat

Terminal == {"completed", "failed"}
ActiveGroup == {"requested", "running"}

VARIABLES
    env,            \* the environment of this behaviour
    click,          \* where StartBenchmark is, per group id it would create
    groupStatus,    \* run_groups.status; "absent" before the insert
    runStatus,      \* runs.status
    inbox,          \* benchmark.requested, not yet taken by the controller
    ctl,            \* the controller's session: none / running / ended (still releasing)
    sweep,          \* what is left of RecoverInFlightRuns, with "up" when consuming
    swept,          \* its failedGroups
    log, pos, com,  \* benchmark.status.updated: messages, read position, committed offset
    cons,           \* the status consumer
    faults          \* faults so far

N == env.n
Runs == Groups \X (1..N)
AllRuns == Groups \X UNION {1..e.n : e \in Environments}

dbVars == <<groupStatus, runStatus>>
logVars == <<log, pos, com>>
ctlVars == <<ctl, sweep, swept>>
vars == <<env, click, dbVars, inbox, ctlVars, logVars, cons, faults>>

Resting == [pc |-> "fetch", run |-> NoRun, status |-> "absent", next |-> NoRun, rollup |-> "absent"]

TypeOK ==
    /\ env \in Environments
    /\ click \in [Groups -> {"idle", "insert", "publish", "done"}]
    /\ groupStatus \in [Groups -> {"absent"} \cup ActiveGroup \cup Terminal]
    /\ runStatus \in [Runs -> {"absent", "requested", "queued", "active"} \cup Terminal]
    /\ inbox \subseteq Runs
    /\ ctl \in [Runs -> {"none", "running", "ended"}]
    /\ sweep.pc \in {"up", "down", "sweeping"} /\ sweep.runs \subseteq Runs
    /\ swept \subseteq Groups
    /\ com \in 0..Len(log) /\ pos \in com..Len(log)
    /\ cons.pc \in {"fetch", "update", "claim", "publish", "reset", "count", "write", "commit"}
    /\ faults \in 0..env.maxFaults

Init ==
    /\ env \in Environments
    /\ click = [g \in Groups |-> "idle"]
    /\ groupStatus = [g \in Groups |-> "absent"]
    /\ runStatus = [r \in Runs |-> "absent"]
    /\ inbox = {}
    /\ ctl = [r \in Runs |-> "none"]
    /\ sweep = [pc |-> "up", runs |-> {}] /\ swept = {}
    /\ log = <<>> /\ pos = 0 /\ com = 0
    /\ cons = Resting
    /\ faults = 0

\* A call fails in this step.
Fault(kind) == kind \in env.faults /\ faults < env.maxFaults /\ faults' = faults + 1
NoFault == faults' = faults

-----------------------------------------------------------------------------
(* StartBenchmark *)

\* FindActiveRunGroup: join what is there, or go on with a new group id.
FindActive(g) ==
    /\ g \in env.clicks /\ click[g] = "idle"
    /\ click' = [click EXCEPT ![g] =
          IF \E h \in Groups : groupStatus[h] \in ActiveGroup THEN "done" ELSE "insert"]
    /\ UNCHANGED <<env, dbVars, inbox, ctlVars, logVars, cons, faults>>

\* InsertRunGroupWithChildren: one transaction under the partial unique index; a
\* conflict joins the other group.
Insert(g) ==
    /\ click[g] = "insert"
    /\ IF \E h \in Groups : groupStatus[h] \in ActiveGroup
       THEN /\ click' = [click EXCEPT ![g] = "done"]
            /\ UNCHANGED dbVars
       ELSE /\ click' = [click EXCEPT ![g] = "publish"]
            /\ groupStatus' = [groupStatus EXCEPT ![g] = "requested"]
            /\ runStatus' = [r \in Runs |-> IF r[1] # g THEN runStatus[r]
                                            ELSE IF r[2] = 1 THEN "queued" ELSE "requested"]
    /\ UNCHANGED <<env, inbox, ctlVars, logVars, cons, faults>>

\* PublishBenchmarkRequested for the first scenario; an error answers 500 and leaves
\* the rows.  A write reported failed may have reached the broker.
PublishFirst(g) ==
    /\ click[g] = "publish"
    /\ click' = [click EXCEPT ![g] = "done"]
    /\ \/ inbox' = inbox \cup {<<g, 1>>} /\ NoFault
       \/ Fault("publishFirst") /\ inbox' \in {inbox, inbox \cup {<<g, 1>>}}
    /\ UNCHANGED <<env, dbVars, ctlVars, logVars, cons>>

-----------------------------------------------------------------------------
(* BenchmarkStatusConsumer.Start, one action per call to Postgres or Kafka *)

Fetch ==
    /\ cons.pc = "fetch" /\ pos < Len(log)
    /\ cons' = [Resting EXCEPT !.pc = "update", !.run = log[pos + 1].run,
                               !.status = log[pos + 1].status]
    /\ pos' = pos + 1
    /\ UNCHANGED <<env, click, dbVars, inbox, ctlVars, log, com, faults>>

\* Mutant: only a completed session hands over to the next scenario.
UpdateRunStatus_StopsOnFail ==
    /\ cons.pc = "update"
    /\ runStatus' = [runStatus EXCEPT ![cons.run] = IF @ \in Terminal THEN @ ELSE cons.status]
    /\ cons' = [cons EXCEPT !.pc = IF cons.status = "completed" THEN "claim" ELSE "count"]
    /\ NoFault
    /\ UNCHANGED <<env, click, groupStatus, inbox, ctlVars, logVars>>

\* UpdateRunStatus leaves a terminal row alone; an error skips the message without a
\* commit.
UpdateRunStatus ==
    /\ cons.pc = "update"
    /\ \/ /\ runStatus' = [runStatus EXCEPT ![cons.run] = IF @ \in Terminal THEN @ ELSE cons.status]
          /\ cons' = [cons EXCEPT !.pc = IF cons.status \in Terminal THEN "claim" ELSE "count"]
          /\ NoFault
       \/ Fault("db") /\ cons' = Resting /\ UNCHANGED runStatus
    /\ UNCHANGED <<env, click, groupStatus, inbox, ctlVars, logVars>>

\* The group's undispatched runs, first scenario first.
Undispatched(g) == {i \in 1..N : runStatus[<<g, i>>] = "requested"}

\* Mutant: the claim takes any undispatched run.
ClaimNextRunInGroup_AnyOrder ==
    LET g == cons.run[1]
    IN /\ cons.pc = "claim"
       /\ IF Undispatched(g) = {}
          THEN cons' = [cons EXCEPT !.pc = "count"] /\ UNCHANGED runStatus
          ELSE \E i \in Undispatched(g) :
                 /\ runStatus' = [runStatus EXCEPT ![<<g, i>>] = "queued"]
                 /\ cons' = [cons EXCEPT !.pc = "publish", !.next = <<g, i>>]
       /\ NoFault
       /\ UNCHANGED <<env, click, groupStatus, inbox, ctlVars, logVars>>

\* ClaimNextRunInGroup: the earliest requested run becomes queued.
ClaimNextRunInGroup ==
    LET g == cons.run[1]
    IN /\ cons.pc = "claim"
       /\ \/ /\ Undispatched(g) = {}
             /\ cons' = [cons EXCEPT !.pc = "count"]
             /\ UNCHANGED runStatus /\ NoFault
          \/ \E i \in Undispatched(g) :
                /\ \A j \in Undispatched(g) : i <= j
                /\ runStatus' = [runStatus EXCEPT ![<<g, i>>] = "queued"]
                /\ cons' = [cons EXCEPT !.pc = "publish", !.next = <<g, i>>]
                /\ NoFault
          \/ Fault("db") /\ cons' = Resting /\ UNCHANGED runStatus
       /\ UNCHANGED <<env, click, groupStatus, inbox, ctlVars, logVars>>

\* PublishBenchmarkRequested for the claimed run.
PublishNext ==
    /\ cons.pc = "publish"
    /\ \/ /\ inbox' = inbox \cup {cons.next}
          /\ cons' = [cons EXCEPT !.pc = "count"]
          /\ NoFault
       \/ /\ Fault("publishNext")
          /\ inbox' \in {inbox, inbox \cup {cons.next}}
          /\ cons' = [cons EXCEPT !.pc = "reset"]
    /\ UNCHANGED <<env, click, dbVars, ctlVars, logVars>>

\* ... failed: the claimed run goes back to requested and the message is skipped
\* without a commit.
ResetClaim ==
    /\ cons.pc = "reset"
    /\ \/ /\ runStatus' = [runStatus EXCEPT ![cons.next] = IF @ \in Terminal THEN @ ELSE "requested"]
          /\ NoFault
       \/ Fault("db") /\ UNCHANGED runStatus
    /\ cons' = Resting
    /\ UNCHANGED <<env, click, groupStatus, inbox, ctlVars, logVars>>

\* Mutant: a queued child is not counted, as if it could not exist yet.
Rollup_IgnoresQueued(g) ==
    LET All(S) == \A i \in 1..N : runStatus[<<g, i>>] \in {"active"} \cup Terminal =>
                                  runStatus[<<g, i>>] \in S
    IN IF All({"completed"}) THEN "completed"
       ELSE IF All(Terminal) THEN "failed"
       ELSE IF All({"requested"}) THEN "requested"
       ELSE "running"

\* The status a group derives from its children: a count that equals the total says that
\* all of them have the status counted.
Rollup(g) ==
    LET All(S) == \A i \in 1..N : runStatus[<<g, i>>] \in S
    IN IF All({"completed"}) THEN "completed"
       ELSE IF All(Terminal) THEN "failed"
       ELSE IF All({"requested"}) THEN "requested"
       ELSE "running"

\* RecomputeRunGroupStatus: the counting query ...
RecomputeCount ==
    /\ cons.pc = "count"
    /\ \/ cons' = [cons EXCEPT !.pc = "write", !.rollup = Rollup(cons.run[1])] /\ NoFault
       \/ Fault("db") /\ cons' = [cons EXCEPT !.pc = "commit"]
    /\ UNCHANGED <<env, click, dbVars, inbox, ctlVars, logVars>>

\* ... and the update, which does not look at the present status.  The partial unique
\* index refuses a second active group; the error is only logged.
RecomputeWrite ==
    LET g == cons.run[1]
        Refused == /\ cons.rollup \in ActiveGroup
                   /\ \E h \in Groups \ {g} : groupStatus[h] \in ActiveGroup
    IN /\ cons.pc = "write"
       /\ \/ /\ groupStatus' = IF Refused THEN groupStatus
                                ELSE [groupStatus EXCEPT ![g] = cons.rollup]
             /\ NoFault
          \/ Fault("db") /\ UNCHANGED groupStatus
       /\ cons' = [cons EXCEPT !.pc = "commit"]
       /\ UNCHANGED <<env, click, runStatus, inbox, ctlVars, logVars>>

\* CommitMessages covers every earlier message of the partition, skipped ones included.
Commit ==
    /\ cons.pc = "commit"
    /\ \/ com' = pos /\ NoFault
       \/ Fault("commit") /\ UNCHANGED com
    /\ cons' = Resting
    /\ UNCHANGED <<env, click, dbVars, inbox, ctlVars, log, pos>>

\* submission-api restarts: requests in progress are gone and the reader resumes at
\* the committed offset.
ApiRestart ==
    /\ Fault("apiCrash")
    /\ cons' = Resting
    /\ pos' = com
    /\ click' = [g \in Groups |-> IF click[g] \in {"insert", "publish"} THEN "done" ELSE click[g]]
    /\ UNCHANGED <<env, dbVars, inbox, ctlVars, log, com>>

-----------------------------------------------------------------------------
(* The bot-fleet-controller, as this protocol sees it (SessionRunner has the rest) *)

Published(r, status) == log' = Append(log, [run |-> r, status |-> status])

\* A request starts a session unless the run is terminal or already in the session
\* table.
Dispatch(r) ==
    /\ sweep.pc = "up" /\ r \in inbox
    /\ inbox' = inbox \ {r}
    /\ IF runStatus[r] \in Terminal \/ ctl[r] # "none"
       THEN UNCHANGED <<ctl, log>>
       ELSE ctl' = [ctl EXCEPT ![r] = "running"] /\ Published(r, "active")
    /\ UNCHANGED <<env, click, dbVars, sweep, swept, pos, com, cons, faults>>

\* Run publishes the terminal status; its deferred calls (slot, session, band) are
\* still to come.
Finish(r) ==
    /\ ctl[r] = "running"
    /\ \E status \in Terminal : Published(r, status)
    /\ ctl' = [ctl EXCEPT ![r] = "ended"]
    /\ UNCHANGED <<env, click, dbVars, inbox, sweep, swept, pos, com, cons, faults>>

Release(r) ==
    /\ ctl[r] = "ended"
    /\ ctl' = [ctl EXCEPT ![r] = "none"]
    /\ UNCHANGED <<env, click, dbVars, inbox, sweep, swept, logVars, cons, faults>>

CtlCrash ==
    /\ Fault("ctlCrash")
    /\ ctl' = [r \in Runs |-> "none"]
    /\ sweep' = [pc |-> "down", runs |-> {}] /\ swept' = {}
    /\ UNCHANGED <<env, click, dbVars, inbox, logVars, cons>>

ListInFlightRuns ==
    /\ sweep.pc = "down"
    /\ sweep' = [pc |-> "sweeping",
                 runs |-> {r \in Runs : runStatus[r] \notin Terminal \cup {"absent"}}]
    /\ UNCHANGED <<env, click, dbVars, inbox, ctl, swept, logVars, cons, faults>>

\* One turn of the sweep: the run row, its group's row the first time, the message.
RecoverRun(r) ==
    /\ sweep.pc = "sweeping" /\ r \in sweep.runs
    /\ runStatus' = [runStatus EXCEPT ![r] = IF @ \in Terminal THEN @ ELSE "failed"]
    /\ groupStatus' = [groupStatus EXCEPT ![r[1]] =
                          IF @ \in Terminal \/ r[1] \in swept THEN @ ELSE "failed"]
    /\ Published(r, "failed")
    /\ sweep' = [sweep EXCEPT !.runs = @ \ {r}] /\ swept' = swept \cup {r[1]}
    /\ UNCHANGED <<env, click, inbox, ctl, pos, com, cons, faults>>

SweepDone ==
    /\ sweep.pc = "sweeping" /\ sweep.runs = {}
    /\ sweep' = [sweep EXCEPT !.pc = "up"]
    /\ UNCHANGED <<env, click, dbVars, inbox, ctl, swept, logVars, cons, faults>>

-----------------------------------------------------------------------------
Click(g) == FindActive(g) \/ Insert(g) \/ PublishFirst(g)

Consume ==
    \/ Fetch \/ UpdateRunStatus \/ ClaimNextRunInGroup \/ PublishNext \/ ResetClaim
    \/ RecomputeCount \/ RecomputeWrite \/ Commit

Controller(r) == r \in Runs /\ (Dispatch(r) \/ Finish(r) \/ Release(r) \/ RecoverRun(r))

Next ==
    \/ \E g \in Groups : Click(g)
    \/ Consume \/ ApiRestart
    \/ \E r \in Runs : Controller(r)
    \/ CtlCrash \/ ListInFlightRuns \/ SweepDone

Spec == Init /\ [][Next]_vars

\* The handler of a click and the consumer loop run, sessions end (every wait of Run
\* has a deadline), and a crashed controller is restarted.  Nobody has to click.
Fairness ==
    /\ \A g \in Groups : WF_vars(Insert(g)) /\ WF_vars(PublishFirst(g))
    /\ WF_vars(Consume)
    /\ \A r \in AllRuns : WF_vars(Controller(r))
    /\ WF_vars(ListInFlightRuns) /\ WF_vars(SweepDone)

FairSpec == Spec /\ Fairness

-----------------------------------------------------------------------------
(* Properties *)

ApiReliable == env.faults \subseteq {"ctlCrash"}
ControllerStays == "ctlCrash" \notin env.faults

\* Load is driven in turn ("correctness gate first", handler/benchmark.go:200): a session
\* is only driven when every earlier scenario of its group has ended, unless
\* submission-api restarts in the middle of a message; and at most one group of the
\* submission has a session being driven, though two clicks may both find no active
\* group and the sweep closes a group's row while its runs are still open.
DrivenInTurn ==
    /\ "apiCrash" \notin env.faults => \A g \in Groups : \A i, j \in 1..N :
        i < j /\ ctl[<<g, j>>] = "running" => runStatus[<<g, i>>] \in Terminal
    /\ ApiReliable => \A q, r \in Runs : ctl[q] = "running" /\ ctl[r] = "running" => q[1] = r[1]

\* Once the messages are read and nothing is on its way, a group is closed exactly when
\* all its runs are, and completed exactly when they all completed: the non-atomic read
\* and write of RecomputeRunGroupStatus, the sweep's direct write and a claim made in
\* the middle of a sweep leave no lasting disagreement.
RollupAgrees ==
    (ApiReliable /\ cons.pc = "fetch" /\ pos = Len(log) /\ sweep.pc = "up") =>
        \A g \in {log[k].run[1] : k \in 1..Len(log)} :
            LET outcomes == {runStatus[<<g, i>>] : i \in 1..N}
            IN /\ groupStatus[g] \in Terminal <=> outcomes \subseteq Terminal
               /\ groupStatus[g] = "completed" <=> outcomes = {"completed"}

\* The outcome on a run row is the first one its session published, whatever is
\* redelivered, skipped or restarted in submission-api; but with both, a request is
\* repeated whose first outcome was skipped.
OutcomeIsFirst ==
    ControllerStays /\ ~ {"db", "apiCrash"} \subseteq env.faults =>
      \A r \in Runs : runStatus[r] \in Terminal =>
        \E k \in 1..Len(log) :
            /\ log[k] = [run |-> r, status |-> runStatus[r]]
            /\ \A m \in 1..(k - 1) : log[m].run = r => log[m].status \notin Terminal

\* The rows a user polls end up telling what happened: a run's row by the first outcome
\* its session published, a group's row by its runs (UpdateRunStatus,
\* RecomputeRunGroupStatus and the sweep's direct writes).
RowsTellOutcome == RollupAgrees /\ OutcomeIsFirst

\* A group that was created reaches a terminal status, so the submission can be
\* benchmarked again, also when the controller crashes.
GroupTerminates ==
    \A g \in Groups : (ApiReliable /\ groupStatus[g] \in ActiveGroup) ~> (groupStatus[g] \in Terminal)
=============================================================================
