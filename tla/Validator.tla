----------------------------- MODULE Validator -----------------------------
(***************************************************************************)
(* services/correctness-validator/main.go, validateSession: a finished     *)
(* session is streamed from the log once and graded as it streams.  The    *)
(* load waves go to the grader of Invariants.tla, which OrderStream.tla    *)
(* feeds; the correctness wave, whose tasks all run at full speed, goes to *)
(* the reference book of FullReplay.tla, which starts from the orders in   *)
(* the order the source replays them in.                                   *)
(*                                                                         *)
(* The variables of OrderStream are those of a session in invariants mode, *)
(* replay is the session in full mode; the grader that was not chosen does *)
(* not move.                                                               *)
(***************************************************************************)
EXTENDS OrderStream

CONSTANTS
    Assignments,        \* sessions.assigned of the session, see sessionMode
    ReplayEnvironments, \* the Environments of FullReplay
    Prices,
    NoSMP,
    ShortedCapacity,
    TieToleranceNs

VARIABLES mode, replayEnv, v, replayOrders, given, said, sample, place, replayDone

replayVars == <<replayEnv, v, replayOrders, given, said, sample, place, replayDone>>
vars == <<mode, streamVars, replayVars>>

Full == INSTANCE FullReplay
    WITH Environments <- ReplayEnvironments, env <- replayEnv,
         orders <- replayOrders, done <- replayDone

\* All tasks of the session are unpaced.  A session whose assignment was not seen, or was
\* taken by an earlier attempt, has the zero value.
MaxRate(a) == a.seen /\ a.targets # <<>> /\ \A i \in DOMAIN a.targets : a.targets[i] = 0

\* a.mode is VALIDATOR_MODE.
sessionMode(a) ==
    IF a.mode \in {"full", "invariants"} THEN a.mode
    ELSE IF MaxRate(a) THEN "full" ELSE "invariants"

StreamIdle ==
    /\ env = CHOOSE e \in Environments : TRUE
    /\ orders = <<>> /\ streams = <<>> /\ s = NewSession /\ failed = FALSE /\ done = FALSE
ReplayIdle ==
    /\ replayEnv = CHOOSE e \in ReplayEnvironments : TRUE
    /\ v = Full!NewStreamValidator
    /\ replayOrders = <<>> /\ given = <<>> /\ said = <<>> /\ place = <<>> /\ replayDone = FALSE
    /\ sample = Full!Silent

Init ==
    /\ \E a \in Assignments : mode = sessionMode(a)
    /\ \/ mode = "full" /\ Full!Init /\ StreamIdle
       \/ mode = "invariants" /\ StreamInit /\ ReplayIdle

Next ==
    \/ mode = "full" /\ Full!Next /\ UNCHANGED <<mode, streamVars>>
    \/ mode = "invariants" /\ StreamNext /\ UNCHANGED <<mode, replayVars>>
Spec == Init /\ [][Next]_vars

-----------------------------------------------------------------------------
\* FullReplay!VerdictExact: the verdict given when an order leaves the reference book is
\* the one the whole session supports, and every order gets exactly one.
VerdictExact == Full!VerdictExact

\* FullReplay!PriceTimePriority: the reference serves orders in price-time priority, and
\* whoever is charged with jumping the queue did jump it.
PriceTimePriority == Full!PriceTimePriority

\* FullReplay!MirrorsReference: the sample engine's book stays in step with the reference
\* book, and the engine is charged with nothing but fills it did not report.
MirrorsReference == Full!MirrorsReference
=============================================================================
