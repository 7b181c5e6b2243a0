----------------------------- MODULE MCContest -----------------------------
(***************************************************************************)
(* Contests in which one part varies: the archive and the way its load is  *)
(* dealt; what the engines measured; how the board is read.                *)
(***************************************************************************)
EXTENDS Contest

MCRpsPer == [hft |-> 4, retail |-> 2, institutional |-> 1]
MCDefaultScoring == [dq |-> 950, maxErr |-> 10, maxP99 |-> 20, wave |-> 2, minCoverage |-> 900]

Settings == [constantDuration |-> 4, spikeDuration |-> 6, rampDuration |-> 6,
             correctnessDuration |-> 2, constantRPS |-> 12, spikePeakRPS |-> 24,
             rampPeakRPS |-> 36, preWindow |-> 2, burstWindow |-> 2,
             mix |-> [hft |-> 50, retail |-> 30, institutional |-> 20], actions |-> 60]
Short == [Settings EXCEPT !.rampDuration = 4]
Longer == [Settings EXCEPT !.rampDuration = 9, !.constantRPS = 3]
Few == [Settings EXCEPT !.mix = [hft |-> 100, retail |-> 0, institutional |-> 0],
                        !.constantRPS = 4, !.spikePeakRPS = 8, !.rampPeakRPS = 12]
Steep == [Few EXCEPT !.rampPeakRPS = 24]
Uneven == [Few EXCEPT !.rampDuration = 9]
-----------------------------------------------------------------------------
(* Archives *)

Cfg(decl, language, port) ==
    [protocol |-> decl, language |-> language, type |-> BuildType[language],
     target |-> "engine", port |-> port]
File(name) == [name |-> name, readable |-> TRUE, cfg |-> NoCfg, targets |-> {}]
Yaml(cfg) == [File("benchmark.yaml") EXCEPT !.cfg = cfg]
Build(language) == [File(BuildFile[language]) EXCEPT !.targets = {"engine"}]
ZipOf(entries) == [form |-> "zip", entries |-> entries]

Declarations ==
    {<<"FIX">>, <<"REST">>, <<"ALL">>, <<"FIX", "WS">>, <<"WS", "REST">>, <<"FIX", "FIX">>, <<"SMTP">>}
Engine(decl, language, port, more) ==
    ZipOf(<<Yaml(Cfg(decl, language, port)), File("src/main"), Build(language)>> \o more)

GoodCfg == Cfg(<<"FIX">>, "cpp", 0)
Archives ==
    {Engine(d, "cpp", p, <<>>) : d \in Declarations, p \in {0, 80, 8080, 9898}}
    \cup {Engine(<<"REST">>, l, 0, <<File("Dockerfile"), File("doc/notes")>>) : l \in DOMAIN BuildFile}
    \cup {Engine(<<"REST">>, "cpp", 0, <<File(n)>>) : n \in {"benchmark.yml", "Cargo.toml", "src/main"}}
    \cup {Engine(<<"REST">>, "cpp", 0, <<File("Dockerfile"), File("Dockerfile")>>)}
    \cup {ZipOf(<<Yaml(GoodCfg), Build("cpp")>>), ZipOf(<<File("src/main"), Build("cpp")>>),
          ZipOf(<<Yaml(GoodCfg), File("src/main")>>),
          ZipOf(<<Yaml([GoodCfg EXCEPT !.target = "other"]), File("src/main"), Build("cpp")>>),
          ZipOf(<<Yaml([GoodCfg EXCEPT !.type = "make"]), File("src/main"), Build("cpp")>>),
          ZipOf(<<Yaml([GoodCfg EXCEPT !.language = "java"]), File("src/main"), Build("cpp")>>),
          ZipOf(<<[Yaml(GoodCfg) EXCEPT !.readable = FALSE], File("src/main"), Build("cpp")>>)}
    \cup {[form |-> "too_large", entries |-> <<>>]}
-----------------------------------------------------------------------------
(* Measurements *)

Point(wave, p99, err) == [wave |-> wave, p99 |-> p99, tps |-> 10, err |-> err]

\* The first wave has no part in the result; the second has two seconds.
RampOf(a, b, c, e) ==
    <<Point(0, 10, 0), Point(1, a, 0), Point(1, b, 0), Point(2, c, e)>>
Ramps == {<<RampOf(a, b, c, 0)>> : a, b, c \in {10, 20, 30}}
            \cup {<<RampOf(10, 10, 10, 30)>>, <<SubSeq(RampOf(10, 20, 10, 0), 1, 3)>>}
Fast == <<RampOf(10, 10, 10, 0)>>
Slow == <<RampOf(10, 10, 30, 0)>>

SpikeOf(ps) == [i \in DOMAIN ps |-> Point(i - 1, ps[i], 0)]
Verdict(valid) == [valid |-> valid, total |-> 100, sent |-> 10, matched |-> 10]
-----------------------------------------------------------------------------
(* Environments *)

Ask0 == [sort |-> "", order |-> "", limit |-> 1, cursor |-> 0, scenario |-> "", team |-> 0]

Still ==
    [configs |-> {Settings}, keeps |-> {Names}, starts |-> 1, archives |-> {}, limits |-> {},
     topic |-> [partitions |-> 1, width |-> 1, bands |-> 0, workload |-> 0],
     team |-> <<>>, ramps |-> {Fast}, spikes |-> {SpikeOf(<<10>>)}, verdicts |-> {Verdict(100)},
     scoring |-> [MCDefaultScoring EXCEPT !.dq = 0], queries |-> <<>>]

Dealing == [maxTasks |-> 8, capacity |-> 24]
Small == [maxTasks |-> 4, capacity |-> 24]
Wide == [partitions |-> 4, width |-> 2, bands |-> 2, workload |-> 3]

Uploads == [Still EXCEPT !.archives = Archives, !.keeps = {{"correctness", "constant"}},
                         !.limits = {Small}, !.topic = Wide]
Loads == [Still EXCEPT !.archives = {Engine(<<"ALL">>, "go", 0, <<>>), Engine(<<"FIX">>, "rust", 0, <<>>)},
                       !.configs = {Settings, Short, Longer}, !.starts = 2,
                       !.keeps = {Names, {"ramp", "spike"}},
                       !.limits = {Dealing, Small}, !.topic = Wide]
Odd == [Loads EXCEPT !.starts = 1, !.configs = {Settings}, !.keeps = {Names},
                     !.topic = [partitions |-> 7, width |-> 3, bands |-> 2, workload |-> 4]]

Engines == [Still EXCEPT !.team = <<1, 2>>, !.configs = {Few}, !.ramps = Ramps,
                         !.spikes = {SpikeOf(<<10, 30, 10>>)},
                         !.verdicts = {Verdict(100), Verdict(90)}]
Steepened == [Still EXCEPT !.team = <<1, 2>>, !.configs = {Few, Steep, Uneven}, !.starts = 2,
                           !.ramps = {Fast, Slow},
                           !.spikes = {<<>>, SpikeOf(<<10, 30, 20, 11>>), SpikeOf(<<10, 30>>), SpikeOf(<<0, 5>>)}]

Paging == [Still EXCEPT !.team = <<2, 1, 1>>, !.configs = {Few}, !.ramps = {Fast, Slow},
              !.queries = <<{Ask0, [Ask0 EXCEPT !.sort = "p99"]}, {Ask0}>>]
Filtered == [Paging EXCEPT !.team = <<1, 1>>, !.ramps = {Fast, <<>>}, !.verdicts = {Verdict(90)},
              !.queries = <<{Ask0, [Ask0 EXCEPT !.scenario = "ramp"]}, {Ask0, [Ask0 EXCEPT !.limit = 0]}>>]
\* The last cursor is over the bound.
Deep == [Paging EXCEPT !.team = <<1, 1, 1, 1>>, !.ramps = {Fast}, !.queries = <<{Ask0}>>]
Sorting == [Paging EXCEPT !.team = <<2, 1, 2>>, !.verdicts = {Verdict(100), Verdict(90)},
              !.queries = <<{[Ask0 EXCEPT !.sort = s] : s \in {"peak_tps", "p99", "spike_recovery", "correctness"}}
                              \cup {[Ask0 EXCEPT !.sort = s, !.order = "desc"] : s \in {"rank", "team_name"}}
                              \cup {[Ask0 EXCEPT !.sort = "computed_at", !.team = t] : t \in {0, 2}}>>]

MCEnvironments == {Uploads, Loads, Odd, Engines, Steepened, Paging, Filtered, Deep, Sorting}
=============================================================================
