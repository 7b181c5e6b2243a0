------------------------------ MODULE LoadPlan ------------------------------
(***************************************************************************)
(* From an uploaded archive and the scenario settings to the load the bots *)
(* offer: the operators of                                                 *)
(*   submission-api   validator/zip.go, scenarios/builder.go               *)
(*   build-worker     dockerfile/generate.go, pipeline.go (build context)  *)
(*   controller       runner.go, producer.go (shards, targets, placement)  *)
(*   schemas          topics.go (protocols, ports, partition bands)        *)
(*   validator        source/stream.go (partitions of a band)              *)
(* Time is in seconds.  A declaration of protocols is the sequence of its  *)
(* comma-separated elements; an operator that fails returns an error name. *)
(***************************************************************************)
EXTENDS Integers, Sequences, FiniteSets, SequencesExt, FiniteSetsExt

CONSTANTS
    RpsPer,         \* the order rate of one bot of each profile
    WaveCount,      \* rampWaveCount
    Cadence,        \* rampWaveCadence
    Word            \* 2^32: the builder's arithmetic is on uint32

CeilDiv(a, b) == (a + b - 1) \div b
Total(s) == FoldLeft(LAMBDA x, y : x + y, 0, s)
-----------------------------------------------------------------------------
(* Protocols and ports: topics.go. *)

ProtocolNames == {"FIX", "REST", "WS"}

\* The elements in declaration order, <<>> for an invalid declaration.
ParseProtocols(decl) ==
    CASE decl = <<"ALL">> -> <<"FIX", "REST", "WS">>
      [] ToSet(decl) \subseteq ProtocolNames /\ Cardinality(ToSet(decl)) = Len(decl) -> decl
      [] OTHER -> <<>>

PortForProtocol(p) == IF p = "FIX" THEN 9898 ELSE 8080

submissionTargets(decl) ==
    LET parts == IF ParseProtocols(decl) = <<>> THEN <<"unparsed">> ELSE ParseProtocols(decl)
    IN  [i \in DOMAIN parts |-> [protocol |-> parts[i], port |-> PortForProtocol(parts[i])]]

\* Mutant: the pod opens the port of the primary protocol alone.
submissionPorts_Primary(decl) == {submissionTargets(decl)[1].port}

\* The ports the sandbox pod opens, each once.
submissionPorts(decl) == {t.port : t \in ToSet(submissionTargets(decl))}
-----------------------------------------------------------------------------
(* The archive: validator/zip.go.  An entry has a name, whether it can be   *)
(* opened, read within the size limit and decoded, what benchmark.yaml says *)
(* (cfg) and which executables a build file defines (targets).              *)

BenchmarkFiles == {"benchmark.yaml", "benchmark.yml"}
BuildFile == [cpp |-> "CMakeLists.txt", rust |-> "Cargo.toml", go |-> "go.mod"]
BuildType == [cpp |-> "cmake", rust |-> "cargo", go |-> "go"]
Nested == {"src/main", "doc/notes"}
ValidTarget(t) == t \notin {"", "not a name"}

NewScan(nocfg) ==
    [err |-> "none", found |-> FALSE, cfg |-> nocfg, src |-> FALSE,
     build |-> "", targets |-> {}, roots |-> {}]

\* One turn of the loop over the entries; an error ends it.
ScanEntry(a, f) ==
    LET r == [a EXCEPT !.src = @ \/ f.name = "src/main", !.roots = @ \cup ({f.name} \ Nested)]
        Fail(e) == [a EXCEPT !.err = e]
    IN  CASE a.err # "none" -> a
          [] f.name \in Nested -> r
          [] f.name \in a.roots -> Fail("duplicate_root_entry")
          [] f.name \in BenchmarkFiles /\ a.found -> Fail("multiple_benchmark_yaml")
          [] f.name \in Range(BuildFile) /\ a.build # "" -> Fail("multiple_build_files")
          [] f.name \in BenchmarkFiles \cup Range(BuildFile) /\ ~f.readable -> Fail("unreadable")
          [] f.name \in BenchmarkFiles -> [r EXCEPT !.found = TRUE, !.cfg = f.cfg]
          [] f.name \in Range(BuildFile) -> [r EXCEPT !.build = f.name, !.targets = f.targets]
          [] OTHER -> r

validatePortPolicy(decl, port) ==
    \/ Len(ParseProtocols(decl)) > 1
    \/ port = PortForProtocol(ParseProtocols(decl)[1])

\* Zero when the declared port is refused.
normalizePort(cfg) ==
    CASE cfg.port = 0 -> PortForProtocol(ParseProtocols(cfg.protocol)[1])
      [] cfg.port \in 1024..65535 /\ validatePortPolicy(cfg.protocol, cfg.port) -> cfg.port
      [] OTHER -> 0

\* cmakeHasTarget and cargoHasBin are membership in the targets; go.mod names none.
validateBuildTarget(cfg, build, targets) ==
    /\ ValidTarget(cfg.target)
    /\ cfg.type = BuildType[cfg.language]
    /\ build = BuildFile[cfg.language]
    /\ cfg.language # "go" => cfg.target \in targets

\* The accepted configuration with its port, or the error.
ValidateSubmissionZip(archive, nocfg) ==
    LET a == FoldLeft(ScanEntry, NewScan(nocfg), archive.entries)
        Answer(e) == [err |-> e, cfg |-> nocfg]
    IN  CASE archive.form # "zip" -> Answer(archive.form)
          [] a.err # "none" -> Answer(a.err)
          [] ~a.found -> Answer("no_benchmark_yaml")
          [] ~a.src -> Answer("no_src_dir")
          [] ParseProtocols(a.cfg.protocol) = <<>> -> Answer("invalid_protocol")
          [] a.cfg.language \notin DOMAIN BuildFile -> Answer("invalid_language")
          [] a.cfg.target = "" -> Answer("missing_build_target")
          [] normalizePort(a.cfg) = 0 -> Answer("invalid_port")
          [] ~validateBuildTarget(a.cfg, a.build, a.targets) -> Answer("invalid_build")
          [] OTHER -> [err |-> "none", cfg |-> [a.cfg EXCEPT !.port = normalizePort(a.cfg)]]

\* The Dockerfile of the build worker: whether there is one, and what it names.
Generate(cfg) ==
    [ok |-> ValidTarget(cfg.target) /\ cfg.language \in DOMAIN BuildFile,
     expose |-> cfg.port, target |-> cfg.target]

\* The build context: the archive without a Dockerfile at its root, and the generated one.
withGeneratedDockerfile(archive, cfg) ==
    LET kept == SelectSeq(archive.entries, LAMBDA f : f.name # "Dockerfile")
    IN  Append([i \in DOMAIN kept |-> [name |-> kept[i].name, own |-> FALSE]],
               [name |-> "Dockerfile", own |-> TRUE])
-----------------------------------------------------------------------------
(* The scenarios: scenarios/builder.go. *)

Profiles == <<"hft", "retail", "institutional">>

\* c.actions is the largest of the nine action percentages.
validate(c) ==
    /\ \A d \in {c.constantDuration, c.spikeDuration, c.rampDuration, c.correctnessDuration} : d > 0
    /\ 0 \notin {c.constantRPS, c.spikePeakRPS, c.rampPeakRPS}
    /\ c.spikePeakRPS >= c.constantRPS
    /\ c.preWindow + c.burstWindow <= c.spikeDuration
    /\ c.rampDuration > (WaveCount - 1) * Cadence
    /\ (c.mix["hft"] + c.mix["retail"] + c.mix["institutional"]) % Word = 100
    /\ c.actions <= 100

\* The bots of each profile that a budget pays for.
botCountsForBudget(c, totalRPS) ==
    [p \in ToSet(Profiles) |-> (((totalRPS * c.mix[p]) % Word) \div 100) \div RpsPer[p]]

Task(id, rps, start, duration) == [id |-> id, rps |-> rps, start |-> start, duration |-> duration]

\* One task per bot, numbered from startTaskID, profile after profile.
buildLayer(startTaskID, start, duration, bots) ==
    LET rates == FlattenSeq([i \in 1..3 |-> [k \in 1..bots[Profiles[i]] |-> RpsPer[Profiles[i]]]])
    IN  [i \in DOMAIN rates |-> Task(startTaskID + i - 1, rates[i], start, duration)]

buildConstantTasks(c, startTaskID, start, duration, totalRPS) ==
    buildLayer(startTaskID, start, duration, botCountsForBudget(c, totalRPS))

buildSpikeTasks(c) ==
    LET baseline == buildConstantTasks(c, 0, 0, c.spikeDuration, c.constantRPS)
    IN  baseline \o buildLayer(Len(baseline), c.preWindow, c.burstWindow,
                               botCountsForBudget(c, c.spikePeakRPS - c.constantRPS))

\* Mutant: a wave lasts one cadence instead of until the end of the ramp.
buildRampTasks_OneWave(c) ==
    LET Wave(out, w) ==
            out \o buildLayer(Len(out), w * Cadence, Cadence,
                              botCountsForBudget(c, c.rampPeakRPS \div WaveCount))
    IN  FoldLeft(Wave, <<>>, [i \in 1..WaveCount |-> i - 1])

\* Each wave adds a layer that runs to the end; validate leaves none without time.
buildRampTasks(c) ==
    LET Wave(out, w) ==
            IF c.rampDuration - w * Cadence <= 0 THEN out
            ELSE out \o buildLayer(Len(out), w * Cadence, c.rampDuration - w * Cadence,
                                   botCountsForBudget(c, c.rampPeakRPS \div WaveCount))
    IN  FoldLeft(Wave, <<>>, [i \in 1..WaveCount |-> i - 1])

\* A single task at full speed: rate zero.
buildCorrectnessTasks(c) == <<Task(0, 0, 0, c.correctnessDuration)>>

\* The tasks of each scenario; a refused configuration stops the service.
BuildAll(c) ==
    [constant |-> buildConstantTasks(c, 0, 0, c.constantDuration, c.constantRPS),
     spike |-> buildSpikeTasks(c),
     ramp |-> buildRampTasks(c),
     correctness |-> buildCorrectnessTasks(c)]
-----------------------------------------------------------------------------
(* Shards: the controller's runner.go and producer.go. *)

CONSTANT DefaultMaxTasksPerWorker

computeWorkerCount(totalTasks, maxTasks) ==
    IF totalTasks <= 0 THEN 1
    ELSE CeilDiv(totalTasks, IF maxTasks <= 0 THEN DefaultMaxTasksPerWorker ELSE maxTasks)

totalTargetRPS(tasks) == Total([i \in DOMAIN tasks |-> tasks[i].rps])

computeWorkerCountForLoad(totalTasks, totalRPS, maxTasks, capacity) ==
    LET byTasks == computeWorkerCount(totalTasks, maxTasks)
    IN  IF capacity = 0 \/ totalRPS = 0 THEN byTasks
        ELSE Max({CeilDiv(totalRPS, capacity), byTasks})

\* Tasks and targets are both dealt in turn, by the task's place in the scenario.
buildWorkloadSpecs(decl, tasks, workers) ==
    LET n == Len(submissionTargets(decl))
        Shard(w) == SelectSeq([i \in DOMAIN tasks |-> i], LAMBDA i : (i - 1) % workers = w)
        Stamped(i) == [task |-> tasks[i], target |-> ((i - 1) % n) + 1]
    IN  [w \in 0..(workers - 1) |-> [k \in DOMAIN Shard(w) |-> Stamped(Shard(w)[k])]]
-----------------------------------------------------------------------------
(* The partitions of a session's orders: topics.go and source/stream.go.   *)
(* A hash is any number; the writers and the readers clamp the width alike. *)

Width(partitions, width) == Min({Max({width, 1}), partitions})

\* Mutant: the order's hash is taken over all partitions.
BandPartition_Wide(band, hash, partitions, width) ==
    IF partitions <= 1 THEN 0
    ELSE (band * Width(partitions, width) + (hash % partitions)) % partitions

BandPartition(band, hash, partitions, width) ==
    IF partitions <= 1 THEN 0
    ELSE (band * Width(partitions, width) + (hash % Width(partitions, width))) % partitions

bandPartitionSet(band, partitions, width) ==
    IF partitions <= 1 THEN {0}
    ELSE {(band * Width(partitions, width) + i) % partitions : i \in 0..(Width(partitions, width) - 1)}

\* The partitions a validator reads of those the topic has.
filterPartitions(all, band, partitions, width, unset) ==
    IF band = unset THEN all ELSE all \cap bandPartitionSet(band, partitions, width)
=============================================================================
