------------------------------ MODULE Scoring ------------------------------
(***************************************************************************)
(* score-computer: from the statuses and verdicts of a group's sessions to *)
(* its score.                                                              *)
(*                                                                         *)
(* The two trigger consumers (trigger/consumer.go) with score_progress and *)
(* the readiness query (store/store.go), the worker pool                   *)
(* (worker/worker.go) and the start-up scan (main.go), downstream of       *)
(* Grading.  A score is the row's existence and the verdicts it was        *)
(* computed from.                                                          *)
(***************************************************************************)
EXTENDS Grading

CONSTANTS
    Workers,        \* SCORER_CONCURRENCY goroutines
    ReadyCap        \* capacity of the ready channel

Consumers == {"status", "correctness"}

ASSUME ScorerKnown ==
    /\ ReadyCap \in Nat
    /\ \A e \in Environments : e.consumers \subseteq Consumers /\ e.workers \subseteq Workers

VARIABLES
    pos, done,      \* read position and committed offset of each consumer
    cpc,            \* the consumers: fetch / check / enqueue / commit
    terminal,       \* score_progress: sessions with a terminal_status
    graded,         \* score_progress: session -> its last verdict, if any
    ready,          \* the ready channel
    scanned, pending,   \* the start-up goroutine: query done, groups left to enqueue
    wpc, job, input,    \* the workers: idle / load / save / mark / publish; the group
                        \*   and the verdicts loaded for it
    scores,         \* scores: group -> the verdicts its row is computed from, {} without one
    marked,         \* scores: groups with published_at
    updates         \* leaderboard.updates

scoringVars == <<pos, done, cpc, terminal, graded, ready, scanned, pending, wpc, job, input,
                 scores, marked, updates>>

Groups == Range(env.groupOf)
SessionsOf(g) == {s \in Sessions : env.groupOf[s] = g}
Scored == {g \in Groups : scores[g] # {}}

\* What a consumer reads: the statuses, or the verdicts of Grading.
Topic(c) == IF c = "status" THEN env.statuses ELSE verdicts

ScoringTypeOK ==
    /\ \A c \in Consumers : done[c] \in 0..pos[c] /\ pos[c] \in 0..Len(Topic(c))
    /\ cpc \in [Consumers -> {"fetch", "check", "enqueue", "commit"}]
    /\ terminal \subseteq Sessions
    /\ \A s \in Sessions : (\A u, v \in graded[s] : u = v) /\ graded[s] \subseteq Range(verdicts)
    /\ Len(ready) <= ReadyCap /\ Range(ready) \subseteq Groups
    /\ scanned \in BOOLEAN /\ pending \subseteq Groups
    /\ wpc \in [Workers -> {"idle", "load", "save", "mark", "publish"}]
    /\ \A w \in Workers : job[w] \subseteq Groups /\ input[w] \subseteq Range(verdicts)
    /\ marked \subseteq Scored

ScoringInit ==
    /\ pos = [c \in Consumers |-> 0] /\ done = pos /\ cpc = [c \in Consumers |-> "fetch"]
    /\ terminal = {} /\ graded = [s \in Sessions |-> {}]
    /\ ready = <<>> /\ scanned = FALSE /\ pending = {}
    /\ wpc = [w \in Workers |-> "idle"]
    /\ job = [w \in Workers |-> {}] /\ input = [w \in Workers |-> {}]
    /\ scores = [g \in Groups |-> {}] /\ marked = {} /\ updates = <<>>

-----------------------------------------------------------------------------
(* The trigger consumers *)

progressVars == <<pos, done, cpc, terminal, graded>>
workerVars == <<wpc, job, input, scores, marked, updates>>

CGoto(c, pc) == cpc' = [cpc EXCEPT ![c] = pc]
Msg(c) == Topic(c)[pos[c] + 1]
MsgSession(c) == IF c = "status" THEN Msg(c)[1] ELSE Msg(c).session

\* After an error nothing is committed, and the reader goes on with the next message.
Skip(c) ==
    /\ Fault("db")
    /\ pos' = [pos EXCEPT ![c] = @ + 1] /\ CGoto(c, "fetch")
    /\ UNCHANGED <<terminal, graded>>

\* RecordStatus and RecordCorrectness up to the upsert; other statuses are ignored.
Record(c) ==
    /\ cpc[c] = "fetch" /\ pos[c] < Len(Topic(c))
    /\ \/ /\ NoFault
          /\ IF c = "status" /\ Msg(c)[2] \notin {"completed", "failed"}
             THEN CGoto(c, "commit") /\ UNCHANGED <<terminal, graded>>
             ELSE /\ CGoto(c, "check")
                  /\ terminal' = IF c = "status" THEN terminal \cup {MsgSession(c)} ELSE terminal
                  /\ graded' = IF c = "status" THEN graded
                               ELSE [graded EXCEPT ![MsgSession(c)] = {Msg(c)}]
          /\ UNCHANGED pos
       \/ Skip(c)
    /\ UNCHANGED <<env, done, ready, scanned, pending, workerVars>>

\* The rows of score_progress that belong to a group.
Rows(g) == {s \in SessionsOf(g) : s \in terminal \/ graded[s] # {}}

\* The HAVING clause of ReadyRunGroups and PendingRunGroups.  BOOL_AND skips NULLs: a
\* row without a terminal_status does not count, if another row has one.
IsReady(g) ==
    /\ g \notin Scored
    /\ Rows(g) = SessionsOf(g)
    /\ Rows(g) \cap terminal # {}
    /\ \A s \in Rows(g) : graded[s] # {}

ReadyRunGroups(c) ==
    /\ cpc[c] = "check"
    /\ \/ /\ NoFault
          /\ CGoto(c, IF IsReady(env.groupOf[MsgSession(c)]) THEN "enqueue" ELSE "commit")
          /\ UNCHANGED <<pos, terminal, graded>>
       \/ Skip(c)
    /\ UNCHANGED <<env, done, ready, scanned, pending, workerVars>>

Enqueue(c) ==
    /\ cpc[c] = "enqueue" /\ Len(ready) < ReadyCap
    /\ ready' = Append(ready, env.groupOf[MsgSession(c)])
    /\ CGoto(c, "commit")
    /\ UNCHANGED <<env, faults, pos, done, terminal, graded, scanned, pending, workerVars>>

Commit(c) ==
    /\ cpc[c] = "commit"
    /\ pos' = [pos EXCEPT ![c] = @ + 1]
    /\ \/ NoFault /\ done' = [done EXCEPT ![c] = pos[c] + 1]
       \/ Fault("commit") /\ UNCHANGED done
    /\ CGoto(c, "fetch")
    /\ UNCHANGED <<env, terminal, graded, ready, scanned, pending, workerVars>>

Trigger(c) == Record(c) \/ ReadyRunGroups(c) \/ Enqueue(c) \/ Commit(c)

\* Mutant: nothing is looked for at start-up.
PendingRunGroups_None ==
    /\ ~scanned
    /\ NoFault /\ scanned' = TRUE
    /\ UNCHANGED <<env, progressVars, ready, pending, workerVars>>

\* The goroutine of main.go: one query, then one send per group.
PendingRunGroups ==
    /\ ~scanned /\ scanned' = TRUE
    /\ \/ NoFault /\ pending' = {g \in Groups : IsReady(g)}
       \/ Fault("db") /\ pending' = {}
    /\ UNCHANGED <<env, progressVars, ready, workerVars>>

EnqueuePending ==
    /\ Len(ready) < ReadyCap
    /\ \E g \in pending : ready' = Append(ready, g) /\ pending' = pending \ {g}
    /\ UNCHANGED <<env, faults, progressVars, scanned, workerVars>>

-----------------------------------------------------------------------------
(* The workers *)

WGoto(w, pc) == wpc' = [wpc EXCEPT ![w] = pc]
Keeps == UNCHANGED <<job, input>>
Drops(w) ==
    /\ WGoto(w, "idle")
    /\ job' = [job EXCEPT ![w] = {}] /\ input' = [input EXCEPT ![w] = {}]
GroupAt(w) == CHOOSE g \in job[w] : TRUE

TakeReady(w) ==
    /\ wpc[w] = "idle" /\ ready # <<>>
    /\ ready' = Tail(ready) /\ job' = [job EXCEPT ![w] = {Head(ready)}]
    /\ WGoto(w, "load")
    /\ UNCHANGED <<env, faults, progressVars, scanned, pending, input, scores, marked, updates>>

\* LoadInput and Compute; on an error the group is forgotten.
LoadInput(w) ==
    /\ wpc[w] = "load"
    /\ \/ /\ NoFault /\ WGoto(w, "save")
          /\ input' = [input EXCEPT ![w] = UNION {graded[s] : s \in SessionsOf(GroupAt(w))}]
          /\ UNCHANGED job
       \/ Fault("db") /\ Drops(w)
    /\ UNCHANGED <<env, progressVars, ready, scanned, pending, scores, marked, updates>>

\* Mutant: the number of affected rows is not looked at.
SaveScore_NoLatch(w) ==
    /\ wpc[w] = "save"
    /\ NoFault /\ WGoto(w, "mark") /\ Keeps
    /\ scores' = [scores EXCEPT ![GroupAt(w)] = IF @ = {} THEN input[w] ELSE @]
    /\ UNCHANGED <<env, progressVars, ready, scanned, pending, marked, updates>>

\* INSERT ... ON CONFLICT DO NOTHING: only the worker that inserted goes on.  A
\* statement that failed may have been executed.
SaveScore(w) ==
    LET saved == [scores EXCEPT ![GroupAt(w)] = IF @ = {} THEN input[w] ELSE @] IN
    /\ wpc[w] = "save"
    /\ \/ /\ NoFault /\ scores' = saved
          /\ IF GroupAt(w) \in Scored THEN Drops(w) ELSE WGoto(w, "mark") /\ Keeps
       \/ Fault("db") /\ Drops(w) /\ scores' \in {scores, saved}
    /\ UNCHANGED <<env, progressVars, ready, scanned, pending, marked, updates>>

\* RankForRunGroup and MarkPublished.
MarkPublished(w) ==
    /\ wpc[w] = "mark"
    /\ \/ NoFault /\ marked' = marked \cup job[w] /\ WGoto(w, "publish") /\ Keeps
       \/ Fault("db") /\ Drops(w) /\ marked' \in {marked, marked \cup job[w]}
    /\ UNCHANGED <<env, progressVars, ready, scanned, pending, scores, updates>>

\* A write that failed may have arrived.
PublishUpdate(w) ==
    LET out == Append(updates, GroupAt(w)) IN
    /\ wpc[w] = "publish" /\ Drops(w)
    /\ \/ NoFault /\ updates' = out
       \/ Fault("publish") /\ updates' \in {updates, out}
    /\ UNCHANGED <<env, progressVars, ready, scanned, pending, scores, marked>>

Worker(w) == TakeReady(w) \/ LoadInput(w) \/ SaveScore(w) \/ MarkPublished(w) \/ PublishUpdate(w)

\* The process ends and is started again: consumers, workers and the scan together.
ScorerCrash ==
    /\ Fault("scorerCrash")
    /\ pos' = done /\ cpc' = [c \in Consumers |-> "fetch"]
    /\ ready' = <<>> /\ scanned' = FALSE /\ pending' = {}
    /\ wpc' = [w \in Workers |-> "idle"]
    /\ job' = [w \in Workers |-> {}] /\ input' = [w \in Workers |-> {}]
    /\ UNCHANGED <<env, done, terminal, graded, scores, marked, updates>>

ScoringNext ==
    \/ \E c \in env.consumers : Trigger(c)
    \/ PendingRunGroups \/ EnqueuePending
    \/ \E w \in env.workers : Worker(w)
    \/ ScorerCrash

-----------------------------------------------------------------------------
(* Properties *)

\* A group is scored once, from one verdict of each of its sessions: no consumer,
\* redelivery or start-up scan gets it scored while a verdict is missing (the row count
\* and the total_fills clause of ReadyRunGroups); and though both consumers, a
\* redelivery and the scan may enqueue the same group and two workers may score it at
\* once, one update at most goes out (SaveScore's latch).
ScoredOnce ==
    /\ \A g \in Scored : {v.session : v \in scores[g]} = SessionsOf(g)
    /\ \A i, j \in DOMAIN updates : updates[i] = updates[j] => i = j
=============================================================================
