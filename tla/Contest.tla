------------------------------ MODULE Contest ------------------------------
(***************************************************************************)
(* A contest from its settings to its board.  submission-api seeds the     *)
(* scenarios and takes an archive, the controller deals a scenario's tasks *)
(* to the bots, score-computer turns verdicts and metrics into rows of     *)
(* scores while readers page through them behind leaderboard-api's cache.  *)
(***************************************************************************)
EXTENDS Board, TLC

CONSTANTS Environments, Unset

VARIABLES
    env,        \* the contest considered, described below
    scenarios,  \* the table scenarios: the tasks by name
    seeds,      \* how often submission-api started
    upload,     \* the archive sent and the answer to it
    sessions,   \* the sessions driven, by scenario name
    measured,   \* what a scored group's sessions measured
    scores,     \* the table scores
    cache,      \* the first pages kept
    reader      \* the readers of the board: the query, the groups seen and those due

vars == <<env, scenarios, seeds, upload, sessions, measured, scores, cache, reader>>

Names == {"constant", "spike", "ramp", "correctness"}
NoCfg == [protocol |-> <<>>, language |-> "", type |-> "", target |-> "", port |-> 0]
NoReader == [pc |-> "idle", q |-> <<>>, seen |-> {}, due |-> {}, page |-> <<>>]

\* The fields of env:
\* configs   scenario settings submission-api may be started with, at most starts times
\* keeps     the scenarios SEED_SCENARIOS may name
\* archives  archives that may be sent
\* limits    MAX_TASKS_PER_WORKER and WORKER_RPS_CAPACITY
\* topic     partitions and BandWidth of orders.sent, bands leased, workload partitions
\* team      the team of each run group that may be scored, with scoring's thresholds, from
\*           the metrics in ramps (none: no such session) and spikes and the pass-1 verdicts
\*           in verdicts
\* queries   what each reader may ask for

Init ==
    /\ env \in Environments
    /\ scenarios = <<>> /\ seeds = 0 /\ upload = <<>> /\ sessions = <<>>
    /\ measured = <<>> /\ scores = {} /\ cache = <<>>
    /\ reader = [r \in DOMAIN env.queries |-> NoReader]
-----------------------------------------------------------------------------
(* submission-api *)

\* Settings that do not validate end the process; a row that exists is left alone
\* unless RESEED_SCENARIOS; SEED_SCENARIOS names the rows to seed.
SeedScenarios(c, keep, reseed) ==
    /\ seeds < env.starts /\ seeds' = seeds + 1
    /\ scenarios' = IF ~validate(c) THEN scenarios
                    ELSE [n \in DOMAIN scenarios \cup keep |->
                            IF n \in DOMAIN scenarios /\ ~(reseed /\ n \in keep)
                            THEN scenarios[n] ELSE BuildAll(c)[n]]
    /\ UNCHANGED <<env, upload, sessions, measured, scores, cache, reader>>

Submit(a) ==
    /\ upload = <<>>
    /\ LET answer == ValidateSubmissionZip(a, NoCfg)
       IN  upload' = <<[archive |-> a, err |-> answer.err, cfg |-> answer.cfg]>>
    /\ UNCHANGED <<env, scenarios, seeds, sessions, measured, scores, cache, reader>>

Accepted == upload # <<>> /\ upload[1].err = "none"
-----------------------------------------------------------------------------
(* The controller *)

Leased == UNION {ToSet(sessions[n].leases) : n \in DOMAIN sessions}
Bands == {sessions[n].band : n \in DOMAIN sessions}

\* A spec goes to the partition leased for it, whatever the writer's metadata say.
buildWorkloadMessages(specs, leases) ==
    [i \in DOMAIN leases |-> [partition |-> leases[i], tasks |-> specs[i - 1]]]

\* A scenario without tasks fails the session; the leases are taken before it runs.
Drive(n, limit, band, leases) ==
    LET tasks == scenarios[n]
        decl == upload[1].cfg.protocol
        workers == computeWorkerCountForLoad(Len(tasks), totalTargetRPS(tasks),
                                             limit.maxTasks, limit.capacity)
    IN  /\ Accepted /\ n \in DOMAIN scenarios \ DOMAIN sessions
        /\ tasks # <<>>
        /\ Len(leases) = workers /\ ToSet(leases) \cap Leased = {} /\ band \notin Bands
        /\ sessions' = (n :> [tasks |-> tasks, limit |-> limit, band |-> band, leases |-> leases,
                              ports |-> submissionPorts(decl), targets |-> submissionTargets(decl),
                              messages |-> buildWorkloadMessages(
                                               buildWorkloadSpecs(decl, tasks, workers), leases)])
                       @@ sessions
        /\ UNCHANGED <<env, scenarios, seeds, upload, measured, scores, cache, reader>>
-----------------------------------------------------------------------------
(* score-computer *)

NoJitter == [p50 |-> 0, p99 |-> 0]

\* The rows of a group's sessions, with the tasks the table holds now.
LoadInput(m) ==
    LET Session(n, points, v) ==
            [scenario |-> n, tasks |-> scenarios[n], valid |-> v.valid, total |-> v.total,
             sent |-> v.sent, matched |-> v.matched, jitter |-> NoJitter, rows |-> loadMetrics(points)]
        quiet == [valid |-> 0, total |-> 0, sent |-> 0, matched |-> 0]
    IN  <<Session("correctness", <<>>, m.verdict), Session("spike", m.spike, quiet)>>
        \o [i \in DOMAIN m.ramp |-> Session("ramp", m.ramp[i], quiet)]

\* A group without a ramp that is not disqualified is not scored; a scored one stays as it is.
SaveScore(g, team, m) ==
    /\ g \notin DOMAIN measured /\ DOMAIN scenarios = Names
    /\ measured' = (g :> [m EXCEPT !.tasks = scenarios["ramp"]]) @@ measured
    /\ \E input \in {LoadInput(m)} : \E res \in {Compute(g, input, env.scoring)} :
          scores' = IF res.err THEN scores
                    ELSE scores \cup {[group |-> g, team |-> team,
                             scenarios |-> {s.scenario : s \in ToSet(input)},
                             peak |-> res.peak, p99 |-> res.p99, recovery |-> res.recovery,
                             correctness |-> res.correctness, dq |-> res.dq,
                             at |-> Cardinality(scores) + 1, rank |-> 0]}
    /\ UNCHANGED <<env, scenarios, seeds, upload, sessions, cache, reader>>
-----------------------------------------------------------------------------
(* leaderboard-api and its readers *)

boardUnchanged == UNCHANGED <<env, scenarios, seeds, upload, sessions, measured, scores>>

\* due: the groups the query's first page was taken from, with those that follow it.
Ask(r, q) ==
    /\ reader[r].pc = "idle" /\ DOMAIN measured # {}
    /\ reader' = [reader EXCEPT ![r] = [NoReader EXCEPT !.pc = "get", !.q = q]]
    /\ UNCHANGED cache /\ boardUnchanged

\* The reader goes on with the next cursor, until there is none.
Receive(r, page, due) ==
    reader' = [reader EXCEPT ![r] =
                  [@ EXCEPT !.seen = @ \cup page.groups, !.due = due, !.page = <<>>,
                            !.q.cursor = page.next,
                            !.pc = IF page.next = 0 THEN "done" ELSE "get"]]

\* CachedReader.Leaderboard up to the query.
CacheGet(r) ==
    LET q == reader[r].q
        key == leaderboardCacheKey(q)
    IN  /\ reader[r].pc = "get"
        /\ \/ /\ cacheableLeaderboard(q) /\ key \in DOMAIN cache
              /\ Receive(r, cache[key].page, cache[key].due)
           \/ /\ cacheableLeaderboard(q) => key \notin DOMAIN cache
              /\ reader' = [reader EXCEPT ![r].pc = "query"]
        /\ UNCHANGED cache /\ boardUnchanged

Query(r) ==
    LET q == reader[r].q
        page == Leaderboard(scores, q)
        due == IF q.cursor = 0 THEN {row.group : row \in Matching(scores, q)} ELSE reader[r].due
    IN  /\ reader[r].pc = "query"
        /\ CASE ~page.ok -> reader' = [reader EXCEPT ![r].pc = "failed"]
             [] page.ok /\ cacheableLeaderboard(q) ->
                    reader' = [reader EXCEPT ![r] = [@ EXCEPT !.pc = "set", !.page = page, !.due = due]]
             [] OTHER -> Receive(r, page, due)
        /\ UNCHANGED cache /\ boardUnchanged

\* A page that cannot be kept is returned all the same.
CacheSet(r) ==
    LET q == reader[r].q
        page == reader[r].page
    IN  /\ reader[r].pc = "set"
        /\ Receive(r, page, reader[r].due)
        /\ \/ cache' = (leaderboardCacheKey(q) :> [page |-> page, due |-> reader[r].due]) @@ cache
           \/ UNCHANGED cache
        /\ boardUnchanged

\* The entry's time to live is over.
Expire(key) ==
    /\ key \in DOMAIN cache
    /\ cache' = [k \in DOMAIN cache \ {key} |-> cache[k]]
    /\ UNCHANGED reader /\ boardUnchanged

Measurements ==
    {[ramp |-> p, spike |-> s, verdict |-> v, tasks |-> <<>>] :
        p \in env.ramps, s \in env.spikes, v \in env.verdicts}

Next ==
    \/ \E c \in env.configs, keep \in env.keeps, reseed \in BOOLEAN : SeedScenarios(c, keep, reseed)
    \/ \E a \in env.archives : Submit(a)
    \/ \E n \in DOMAIN scenarios, l \in env.limits, b \in 0..(env.topic.bands - 1),
          k \in 1..env.topic.workload :
            \E leases \in {SetToSortSeq(S, <) : S \in kSubset(k, 1..env.topic.workload)} :
                Drive(n, l, b, leases)
    \/ \E g \in DOMAIN env.team, m \in Measurements : SaveScore(g, env.team[g], m)
    \/ \E r \in DOMAIN env.queries : (\E q \in env.queries[r] : Ask(r, q)) \/ CacheGet(r)
    \/ \E r \in DOMAIN env.queries : Query(r) \/ CacheSet(r)
    \/ \E key \in DOMAIN cache : Expire(key)

Spec == Init /\ [][Next]_vars
-----------------------------------------------------------------------------
(* What a contest promises. *)

Dialled(n) ==
    {sessions[n].targets[x.target] : x \in UNION {ToSet(m.tasks) : m \in ToSet(sessions[n].messages)}}

\* An archive that submission-api accepted is built from the generated Dockerfile alone, every
\* bot task of its sessions dials a port its pod opens, the one its Dockerfile exposes when it
\* speaks one protocol, and the pass-1 task speaks the protocol declared first.
AcceptedIsServed ==
    Accepted =>
        LET cfg == upload[1].cfg
            docker == SelectSeq(withGeneratedDockerfile(upload[1].archive, cfg),
                                LAMBDA f : f.name = "Dockerfile")
        IN  /\ Generate(cfg).ok /\ Len(docker) = 1 /\ docker[1].own
            /\ \A n \in DOMAIN sessions :
                  LET dialled == {t.port : t \in Dialled(n)}
                  IN  /\ dialled \subseteq sessions[n].ports
                      /\ Len(cfg.protocol) = 1 /\ cfg.protocol # <<"ALL">>
                            => dialled = {Generate(cfg).expose}
            /\ "correctness" \in DOMAIN sessions
                  => {t.protocol : t \in Dialled("correctness")} = {ParseProtocols(cfg.protocol)[1]}

\* Every task of a scenario is in one message of its session and under an id of its own, no
\* message has more tasks than a worker takes, none is empty when a worker can take the rate
\* of any task, and no partition carries messages of two sessions.
EveryTaskOnce ==
    \A n \in DOMAIN sessions :
        LET s == sessions[n]
            dealt == FlattenSeq([i \in DOMAIN s.messages |-> s.messages[i].tasks])
        IN  /\ {x.task : x \in ToSet(dealt)} = ToSet(s.tasks)
            /\ Cardinality({x.task.id : x \in ToSet(dealt)}) = Len(dealt)
            /\ \A m \in ToSet(s.messages) :
                  /\ Len(m.tasks) <= s.limit.maxTasks
                  /\ (\A t \in ToSet(s.tasks) : t.rps <= s.limit.capacity) => m.tasks # <<>>
                  /\ \A k \in DOMAIN sessions \ {n} :
                        m.partition \notin {o.partition : o \in ToSet(sessions[k].messages)}

\* The partitions the bots of a session may write orders to.
Written(n) ==
    {BandPartition(sessions[n].band, h, env.topic.partitions, env.topic.width) :
        h \in 0..(env.topic.partitions * env.topic.width)}

\* The partitions a validator reads that knows the band, or does not.
ReadBack(band) ==
    filterPartitions(0..(env.topic.partitions - 1), band, env.topic.partitions, env.topic.width, Unset)

\* A validator reads every partition its session's orders are written to, and none that a
\* session leased into another band writes to, while no more bands are leased than fit.
BandsPrivate ==
    \A n, k \in DOMAIN sessions :
        /\ Written(n) \subseteq ReadBack(sessions[n].band) \cap ReadBack(Unset)
        /\ n # k => Written(n) \cap ReadBack(sessions[k].band) = {}

\* Sessions that run at the same time do not mix: each hands every one of its tasks to
\* exactly one worker, through partitions of its own, and its orders are read back by its
\* own validation only (Submit's sharding and lanes, BandPartition, filterPartitions).
SessionsApart == EveryTaskOnce /\ BandsPrivate

\* a measured no worse than b: as many seconds in b's waves, none slower or with more errors.
NoWorse(a, b) ==
    LET Of(points, w) == SelectSeq(points, LAMBDA p : p.wave = w)
    IN  \A w \in {p.wave : p \in ToSet(b)} :
            /\ Len(Of(a, w)) = Len(Of(b, w))
            /\ \A i \in DOMAIN Of(b, w) : /\ Of(a, w)[i].p99 <= Of(b, w)[i].p99
                                         /\ Of(a, w)[i].err <= Of(b, w)[i].err

\* Whether the ramp ends with the scorer's wave in which its last layer starts.
WholeWaves(tasks) ==
    Max({t.start + t.duration : t \in ToSet(tasks)}) = Max({t.start : t \in ToSet(tasks)}) + env.scoring.wave

\* A group whose engine was no worse than another's in any second of the same ramp, with the
\* same spike and no fewer valid fills, is not ranked below it, unless they tie; and the board
\* ranks as score-computer's SortResults does.
FasterRanksNoLower ==
    \A r, o \in Ranked(scores) :
        LET m == measured[r.group]
            w == measured[o.group]
        IN  /\ SortResults(r, o) <=> r.rank < o.rank
            /\ (/\ r.group # o.group /\ m.ramp # <<>> /\ w.ramp # <<>>
                /\ m.tasks = w.tasks /\ WholeWaves(m.tasks) /\ m.spike = w.spike
                /\ m.verdict.total = w.verdict.total /\ m.verdict.valid >= w.verdict.valid
                /\ NoWorse(m.ramp[1], w.ramp[1]))
               => \/ r.rank < o.rank
                  \/ <<r.peak, r.p99, r.recovery, r.dq>> = <<o.peak, o.p99, o.recovery, o.dq>>

\* A reader who follows the cursors to the end has seen every group that was in the table when
\* the first page was taken from it, though groups are scored meanwhile and the page is cached.
NoneSkipped ==
    \A r \in DOMAIN reader : reader[r].pc = "done" => reader[r].due \subseteq reader[r].seen
=============================================================================
