------------------------------- MODULE Grading -------------------------------
(***************************************************************************)
(* correctness-validator: from the terminal status of a session to its     *)
(* correctness verdict.                                                    *)
(*                                                                         *)
(* runStatusConsumer, validateSession, recordValidationTimeout and         *)
(* runWorkloadBandConsumer of services/correctness-validator/main.go, with *)
(* correctness_summary (store/postgres.go) and the BandCache               *)
(* (source/band.go).  Replaying the orders is a single step with a mode    *)
(* and an outcome.  benchmark.status.updated is one partition read by the  *)
(* consumer group of the Validators.                                       *)
(***************************************************************************)
EXTENDS Integers, Sequences, Functions

CONSTANTS
    Validators,     \* correctness-validator processes
    Environments    \* what a behaviour may meet, one of these records:
                    \*   validators, consumers, workers, viewers: the processes, goroutines
                    \*     and SSE connections that take part
                    \*   groupOf: session -> its run group
                    \*   pass1: the sessions whose tasks all have target_rps = 0
                    \*   statuses: benchmark.status.updated, <<session, status>>
                    \*   specs: workload.assignments, the sessions of its messages
                    \*   faults: which of AllFaults may happen
                    \*   maxFaults: bound on how many do

ASSUME StreamsKnown ==
    \A e \in Environments :
        /\ e.validators \subseteq Validators /\ e.maxFaults \in Nat
        /\ e.statuses \in Seq((DOMAIN e.groupOf) \X STRING)
        /\ e.specs \in Seq(DOMAIN e.groupOf)

AllFaults == {"db", "commit", "publish", "drain", "timeout", "rebalance",
              "validatorCrash", "scorerCrash", "snapshot", "apiCrash", "leave"}

VARIABLES
    env,
    faults,         \* how many faults there were
    owner,          \* the validator the status partition is assigned to
    rpos, com,      \* its read position, and the group's committed offset
    vpc,            \* the validators: fetch / settle / drain / save / publish / timeout
                    \*   / fallback / republish / commit
    vmsg,           \* the offset after the message a validator handles
    mode,           \* the mode it grades in
    bpos, cache,    \* runWorkloadBandConsumer: its offset, and the BandCache
    summary,        \* correctness_summary: session -> "none" or the grade of its row
    verdicts        \* scores.correctness

gradingVars == <<owner, rpos, com, vpc, vmsg, mode, bpos, cache, summary, verdicts>>

Sessions == DOMAIN env.groupOf
Modes == {"full", "invariants"}     \* also the grade of a summary row with status scored
Grades == Modes \cup {"timed_out"}
Verdict(s, grade, jitter) == [session |-> s, grade |-> grade, jitter |-> jitter]

GradingTypeOK ==
    /\ env \in Environments /\ faults \in 0..env.maxFaults
    /\ owner \in Validators
    /\ rpos \in 0..Len(env.statuses) /\ com \in 0..Len(env.statuses)
    /\ vpc \in [Validators -> {"fetch", "settle", "drain", "save", "publish",
                               "timeout", "fallback", "republish", "commit"}]
    /\ vmsg \in [Validators -> 0..Len(env.statuses)] /\ mode \in [Validators -> Modes]
    /\ bpos \in [Validators -> 0..Len(env.specs)] /\ cache \in [Validators -> SUBSET Sessions]
    /\ summary \in [Sessions -> Grades \cup {"none"}]
    /\ \A i \in DOMAIN verdicts : verdicts[i] \in [session: Sessions, grade: Grades, jitter: BOOLEAN]

GradingInit ==
    /\ owner \in env.validators
    /\ rpos = 0 /\ com = 0
    /\ vpc = [v \in Validators |-> "fetch"] /\ vmsg = [v \in Validators |-> 0]
    /\ mode = [v \in Validators |-> "invariants"]
    /\ bpos = [v \in Validators |-> 0] /\ cache = [v \in Validators |-> {}]
    /\ summary = [s \in Sessions |-> "none"]
    /\ verdicts = <<>>

Fault(kind) == kind \in env.faults /\ faults < env.maxFaults /\ faults' = faults + 1
NoFault == faults' = faults

SessionAt(v) == env.statuses[vmsg[v]][1]
VGoto(v, pc) == vpc' = [vpc EXCEPT ![v] = pc]

\* Done with a message: the next FetchMessage.
Finish(v) ==
    /\ VGoto(v, "fetch")
    /\ vmsg' = [vmsg EXCEPT ![v] = 0] /\ mode' = [mode EXCEPT ![v] = "invariants"]

\* An error: nothing is committed, and the loop goes on with the next message.
\* kind names the fault; the deadline's error leads to recordValidationTimeout instead.
Fails(v, kinds) ==
    \/ \E kind \in kinds : Fault(kind) /\ Finish(v)
    \/ Fault("timeout") /\ VGoto(v, "timeout") /\ UNCHANGED <<vmsg, mode>>

-----------------------------------------------------------------------------

\* FetchMessage; of a completed session, the summary's status decides the way.
FetchStatus(v) ==
    /\ vpc[v] = "fetch" /\ owner = v /\ rpos < Len(env.statuses)
    /\ rpos' = rpos + 1
    /\ LET ev == env.statuses[rpos + 1] IN
       \/ /\ NoFault
          /\ VGoto(v, IF ev[2] # "completed" THEN "commit"
                      ELSE IF summary[ev[1]] \in Modes THEN "republish" ELSE "settle")
          /\ vmsg' = [vmsg EXCEPT ![v] = rpos + 1]
       \/ ev[2] = "completed" /\ Fault("db") /\ UNCHANGED <<vpc, vmsg>>
       \/ /\ ev[2] = "completed" /\ Fault("timeout") /\ VGoto(v, "timeout")
          /\ vmsg' = [vmsg EXCEPT ![v] = rpos + 1]
    /\ UNCHANGED <<env, owner, com, mode, bpos, cache, summary, verdicts>>

\* After the settle delay: GetAndDelete, sessionMode with VALIDATOR_MODE=auto.
Settle(v) ==
    /\ vpc[v] = "settle"
    /\ mode' = [mode EXCEPT ![v] = IF SessionAt(v) \in cache[v] \cap env.pass1
                                   THEN "full" ELSE "invariants"]
    /\ cache' = [cache EXCEPT ![v] = @ \ {SessionAt(v)}]
    /\ VGoto(v, "drain")
    /\ UNCHANGED <<env, faults, owner, rpos, com, vmsg, bpos, summary, verdicts>>

\* StreamSession and Finish of the validator.
Drain(v) ==
    /\ vpc[v] = "drain"
    /\ \/ NoFault /\ VGoto(v, "save") /\ UNCHANGED <<vmsg, mode>>
       \/ Fails(v, {"drain"})
    /\ UNCHANGED <<env, owner, rpos, com, bpos, cache, summary, verdicts>>

\* The row an INSERT with status scored may write.
Claims(s) == summary[s] \in {"none", "timed_out"}

\* Mutant: a worker that did not claim the row publishes all the same.
Save_PublishesAnyway(v) ==
    /\ vpc[v] = "save"
    /\ NoFault
    /\ summary' = [summary EXCEPT ![SessionAt(v)] = IF Claims(SessionAt(v)) THEN mode[v] ELSE @]
    /\ VGoto(v, "publish")
    /\ UNCHANGED <<env, owner, rpos, com, vmsg, mode, bpos, cache, verdicts>>

\* store.Save of the result: who claims the row publishes.  A statement that failed may
\* have been executed.
Save(v) ==
    LET written == [summary EXCEPT ![SessionAt(v)] = IF Claims(SessionAt(v)) THEN mode[v] ELSE @] IN
    /\ vpc[v] = "save"
    /\ \/ /\ NoFault
          /\ VGoto(v, IF Claims(SessionAt(v)) THEN "publish" ELSE "commit")
          /\ summary' = written /\ UNCHANGED <<vmsg, mode>>
       \/ Fails(v, {"db"}) /\ summary' \in {summary, written}
    /\ UNCHANGED <<env, owner, rpos, com, bpos, cache, verdicts>>

\* Jitter is only measured in invariants mode; a failed write may have arrived.
Publish(v) ==
    LET out == Append(verdicts, Verdict(SessionAt(v), mode[v], mode[v] = "invariants")) IN
    /\ vpc[v] = "publish"
    /\ \/ NoFault /\ VGoto(v, "commit") /\ UNCHANGED <<vmsg, mode>> /\ verdicts' = out
       \/ Fails(v, {"publish"}) /\ verdicts' \in {verdicts, out}
    /\ UNCHANGED <<env, owner, rpos, com, bpos, cache, summary>>

\* recordValidationTimeout: the placeholder where there is no row yet.
TimedOut(v) ==
    /\ vpc[v] = "timeout"
    /\ \/ /\ NoFault /\ VGoto(v, "fallback") /\ UNCHANGED <<vmsg, mode>>
          /\ summary' = [summary EXCEPT ![SessionAt(v)] = IF @ = "none" THEN "timed_out" ELSE @]
       \/ Fault("db") /\ Finish(v) /\ UNCHANGED summary
    /\ UNCHANGED <<env, owner, rpos, com, bpos, cache, verdicts>>

\* LoadScore, which has no jitter columns, and Publish: of a session found scored, or at
\* the end of recordValidationTimeout, whose own errors are not handled again.
Republish(v) ==
    LET out == Append(verdicts, Verdict(SessionAt(v), summary[SessionAt(v)], FALSE)) IN
    /\ vpc[v] \in {"republish", "fallback"}
    /\ \/ NoFault /\ VGoto(v, "commit") /\ UNCHANGED <<vmsg, mode>> /\ verdicts' = out
       \/ Fault("db") /\ Finish(v) /\ UNCHANGED verdicts
       \/ Fault("publish") /\ Finish(v) /\ verdicts' \in {verdicts, out}
       \/ /\ vpc[v] = "republish" /\ Fault("timeout") /\ VGoto(v, "timeout")
          /\ verdicts' \in {verdicts, out} /\ UNCHANGED <<vmsg, mode>>
    /\ UNCHANGED <<env, owner, rpos, com, bpos, cache, summary>>

\* A commit fails for who lost the partition; its error is only logged.
CommitStatus(v) ==
    /\ vpc[v] = "commit" /\ Finish(v)
    /\ \/ NoFault /\ com' = IF owner = v THEN vmsg[v] ELSE com
       \/ Fault("commit") /\ UNCHANGED com
    /\ UNCHANGED <<env, owner, rpos, bpos, cache, summary, verdicts>>

Validate(v) ==
    \/ FetchStatus(v) \/ Settle(v) \/ Drain(v) \/ Save(v) \/ Publish(v)
    \/ TimedOut(v) \/ Republish(v) \/ CommitStatus(v)

\* runWorkloadBandConsumer: every process has a group of its own.
LearnBand(v) ==
    /\ bpos[v] < Len(env.specs)
    /\ cache' = [cache EXCEPT ![v] = @ \cup {env.specs[bpos[v] + 1]}]
    /\ bpos' = [bpos EXCEPT ![v] = @ + 1]
    /\ UNCHANGED <<env, faults, owner, rpos, com, vpc, vmsg, mode, summary, verdicts>>

\* The partition moves to another process while its owner may still be at work.
Rebalance(v) ==
    /\ v # owner /\ Fault("rebalance")
    /\ owner' = v /\ rpos' = com
    /\ UNCHANGED <<env, com, vpc, vmsg, mode, bpos, cache, summary, verdicts>>

\* The container restarts under the same POD_NAME: the band group's offset survives,
\* the BandCache does not.
ValidatorCrash(v) ==
    /\ Fault("validatorCrash")
    /\ Finish(v) /\ cache' = [cache EXCEPT ![v] = {}]
    /\ rpos' = IF owner = v THEN com ELSE rpos
    /\ UNCHANGED <<env, owner, com, bpos, summary, verdicts>>

GradingNext ==
    \E v \in env.validators : Validate(v) \/ LearnBand(v) \/ Rebalance(v) \/ ValidatorCrash(v)

-----------------------------------------------------------------------------
(* Properties *)

\* What is announced is what is stored: when a redelivery grades a session twice, and
\* in different modes, only the grade that claimed the row goes out (Save's claim).
AnnouncedIsStored ==
    \A i \in DOMAIN verdicts :
        verdicts[i].grade \in Modes => verdicts[i].grade = summary[verdicts[i].session]

Completes == \A s \in Sessions : <<s, "completed">> \in Range(env.statuses)

\* No statement, drain or write fails, and a process does not crash when its partition
\* has moved: the worker that finds a row claimed commits in the claimer's place.
Reliable ==
    /\ env.faults \cap {"db", "drain", "publish"} = {}
    /\ ~ {"rebalance", "validatorCrash"} \subseteq env.faults

=============================================================================
