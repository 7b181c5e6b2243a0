---------------------------- MODULE ShardsProofs ----------------------------
(***************************************************************************)
(* Proofs about Shards, for any fleet, sessions, leases and faults: a      *)
(* barrier goes out only when every shard has reported, a session alone on *)
(* a fleet that only grows has no shard run twice, and the committed       *)
(* offset never passes a spec that is still to be run.                     *)
(*                                                                         *)
(* The last one is not inductive by itself: a worker commits the offset of *)
(* the workload that ends, whatever was read since.  It needs to know that *)
(* the specs below a workload's were dealt with when it was admitted, and  *)
(* those below the read position are, but for the one its owner runs       *)
(* (Covered).                                                              *)
(***************************************************************************)
EXTENDS Shards, FiniteSetTheorems, TLAPS

AllShards == UNION {{s} \X Shards(s) : s \in Active}

\* What a pod runs on partition p is a spec of p.
Flies(w, p) ==
    /\ p \in Partitions
    /\ DOMAIN fly[w][p] = {"slot", "spec", "off", "pc"}
    /\ fly[w][p].off \in 1..Len(specs[p])
    /\ fly[w][p].spec = specs[p][fly[w][p].off]

Types ==
    /\ env \in Environments
    /\ DOMAIN sess = Active
    /\ specs \in [Partitions -> Seq(AllShards)]
    /\ pos \in [Partitions -> Nat] /\ com \in [Partitions -> Nat]
    /\ \A p \in Partitions : pos[p] <= Len(specs[p]) /\ com[p] <= Len(specs[p])
    /\ owner \in [Partitions -> Pods]
    /\ up \in [Pods -> BOOLEAN] /\ (\E w \in Pods : up[w])
    /\ DOMAIN fly = Pods
    /\ \A w \in Pods : fly[w] = [p \in Busy(w) |-> fly[w][p]] /\ \A p \in Busy(w) : Flies(w, p)

\* Whatever the controller counts was reported by a shard, and a shard is in fired for a
\* barrier that went out.
Reported ==
    /\ readied \subseteq AllShards
    /\ \A m \in ready : <<m[1], m[2]>> \in readied
    /\ DOMAIN chan = Active /\ DOMAIN got = Active
    /\ \A s \in Active :
          /\ chan[s] \in Seq(Shards(s)) /\ \A k \in 1..Len(chan[s]) : <<s, chan[s][k]>> \in readied
          /\ \A i \in got[s] : <<s, i>> \in readied
    /\ barriers \in Seq(Active)
    /\ \A n \in 1..Len(barriers) : \A i \in Shards(barriers[n]) : <<barriers[n], i>> \in readied
    /\ \A shard \in fired : \E n \in 1..Len(barriers) : barriers[n] = shard[1]

DealtWith(p, n) == <<p, n>> \in handled \/ <<p, n>> \in letGo

Covered ==
    \A p \in Partitions :
        /\ \A n \in 1..com[p] : DealtWith(p, n)
        /\ \A n \in 1..pos[p] :
              DealtWith(p, n) \/ (p \in Busy(owner[p]) /\ fly[owner[p]][p].off = n)
        /\ \A w \in Pods : p \in Busy(w) => \A n \in 1..(fly[w][p].off - 1) : DealtWith(p, n)

\* A session publishes once, shard i to its i-th partition.
Published ==
    /\ \A p \in Partitions : \A n \in 1..Len(specs[p]) :
          /\ sess[specs[p][n][1]] \in {"await", "run", "done", "failed"}
          /\ env.leases[specs[p][n][1]][specs[p][n][2]] = p
    /\ \A p \in Partitions : \A n, m \in 1..Len(specs[p]) : specs[p][n] = specs[p][m] => n = m

\* A session that has the fleet to itself and waits for it.
Alone == env.gate /\ env.faults \subseteq {"scale"} /\ \A s, t \in Active : s = t

\* ... finds it as large as it needs, so that nothing is read again.
ReadOnce ==
    Alone =>
        /\ \A s \in Active :
              (sess[s] \in {"publish", "await"} \/ \E p \in Partitions : specs[p] # <<>>) =>
                  Members >= Len(env.leases[s])
        /\ \A shard \in readied : \E p \in Partitions : \E n \in 1..pos[p] : specs[p][n] = shard
        /\ \A w \in Pods : \A p \in Busy(w) : fly[w][p].off <= pos[p]
        /\ again = {}

IInv == Types /\ Reported /\ Covered /\ Published /\ ReadOnce
-----------------------------------------------------------------------------
(* Facts the steps share *)

\* What the proofs use of sequences.
LEMMA SeqLen ==
    ASSUME NEW S, NEW q \in Seq(S)
    PROVE  Len(q) \in Nat /\ DOMAIN q = 1..Len(q) /\ q \in [1..Len(q) -> S]
  OBVIOUS

\* An element of a sequence is an element of its set.
LEMMA SeqElement ==
    ASSUME NEW S, NEW q \in Seq(S), NEW i \in 1..Len(q)
    PROVE  q[i] \in S
  OBVIOUS

\* The empty sequence.
LEMMA SeqEmpty ==
    ASSUME NEW S
    PROVE  << >> \in Seq(S) /\ Len(<< >>) = 0 /\ \A q \in Seq(S) : q # << >> => Len(q) \in Nat \ {0}
  OBVIOUS

\* What Append leaves and adds.
LEMMA SeqAppend ==
    ASSUME NEW S, NEW q \in Seq(S), NEW x \in S
    PROVE  /\ Append(q, x) \in Seq(S) /\ Len(Append(q, x)) = Len(q) + 1
           /\ Append(q, x)[Len(q) + 1] = x
           /\ \A i \in 1..Len(q) : Append(q, x)[i] = q[i]
  OBVIOUS

\* What taking the head leaves.
LEMMA SeqHeadTail ==
    ASSUME NEW S, NEW q \in Seq(S), q # << >>
    PROVE  /\ Head(q) \in S /\ Head(q) = q[1] /\ Tail(q) \in Seq(S) /\ Len(Tail(q)) = Len(q) - 1
           /\ \A i \in 1..(Len(q) - 1) : Tail(q)[i] = q[i + 1]
  OBVIOUS

\* What a lease is.
LEMMA LeaseFacts ==
    ASSUME env \in Environments
    PROVE  /\ IsFiniteSet(Pods) /\ env.pods \subseteq Pods /\ env.pods # {}
           /\ \A s \in Active :
                /\ env.leases[s] \in Seq(Partitions) /\ IsInjective(env.leases[s])
                /\ Len(env.leases[s]) \in Nat \ {0} /\ Shards(s) = 1..Len(env.leases[s])
<1>1. /\ IsFiniteSet(Pods) /\ env.pods \subseteq Pods /\ env.pods # {}
      /\ \A s \in Active : env.leases[s] \in Seq(Partitions) /\ env.leases[s] # <<>>
                           /\ IsInjective(env.leases[s])
  BY Zenon, FleetKnown DEF Active
<1> QED
  BY Zenon, <1>1, SeqLen, SeqEmpty DEF Shards

\* What a shard is.
LEMMA ShardFacts ==
    ASSUME NEW shard \in AllShards
    PROVE  shard = <<shard[1], shard[2]>> /\ shard[1] \in Active /\ shard[2] \in Shards(shard[1])
  BY DEF AllShards

\* A spec is one of a session's shards.
LEMMA SpecFacts ==
    ASSUME Types, NEW p \in Partitions
    PROVE  /\ specs[p] \in Seq(AllShards) /\ Len(specs[p]) \in Nat
           /\ pos[p] \in 0..Len(specs[p]) /\ com[p] \in 0..Len(specs[p])
           /\ \A n \in 1..Len(specs[p]) : specs[p][n] \in AllShards
<1>1. specs[p] \in Seq(AllShards) /\ pos[p] \in Nat /\ com[p] \in Nat
      /\ pos[p] <= Len(specs[p]) /\ com[p] <= Len(specs[p])
  BY Zenon DEF Types
<1> QED
  BY <1>1, SeqLen, SeqElement

-----------------------------------------------------------------------------
(* Steps that leave a part alone *)

\* The types depend on the state only.
LEMMA TypesStill ==
    ASSUME Types, UNCHANGED <<env, kafkaVars, fly, up>>, DOMAIN sess' = Active
    PROVE  Types'
  BY DEF Types, kafkaVars, Active, AllShards, Shards, Busy, Flies

\* The steps that leave the pods alone keep every message covered.
LEMMA CoveredStill ==
    ASSUME Covered, UNCHANGED <<kafkaVars, fly, handled, letGo>>
    PROVE  Covered'
  BY Zenon DEF Covered, kafkaVars, Busy, DealtWith

\* Only the session that publishes leaves "publish" for a later state.
LEMMA PublishedStill ==
    ASSUME Types, Published, UNCHANGED <<env, specs>>,
           \A s \in Active : sess[s] \in {"await", "run", "done", "failed"} =>
                sess'[s] \in {"await", "run", "done", "failed"}
    PROVE  Published'
<1>1. \A p \in Partitions : \A n \in 1..Len(specs[p]) : specs[p][n][1] \in Active
  BY Zenon, SpecFacts, ShardFacts
<1> QED
  BY <1>1 DEF Published

\* The steps that leave the reports alone keep them true.
LEMMA ReportedStill ==
    ASSUME Reported, UNCHANGED <<env, ready, chan, got, barriers, readied, fired>>
    PROVE  Reported'
  BY Zenon DEF Reported, AllShards, Active, Shards

\* The steps that leave the workers alone keep the topics read once.
LEMMA ReadOnceStill ==
    ASSUME ReadOnce, UNCHANGED <<env, specs, pos, fly, up, readied, again>>,
           \A s \in Active : sess'[s] \in {"publish", "await"} =>
                sess[s] \in {"publish", "await"} \/ (Alone => Members >= Len(env.leases[s]))
    PROVE  ReadOnce'
  BY Zenon DEF ReadOnce, Alone, Active, Members, Busy
-----------------------------------------------------------------------------
(* The controller *)

\* Leasing partitions keeps the invariant.
LEMMA LeaseKeeps ==
    ASSUME IInv, NEW s \in Active, Lease(s)
    PROVE  IInv'
<1> USE DEF IInv
<1>1. /\ UNCHANGED <<env, ready, chan, got, barriers, kafkaVars, fly, up, history>>
      /\ sess[s] = "idle" /\ sess' = [sess EXCEPT ![s] = "gate"] /\ DOMAIN sess = Active
  BY Zenon DEF Lease, Types
<1>2. /\ DOMAIN sess' = Active
      /\ \A t \in Active : sess'[t] = IF t = s THEN "gate" ELSE sess[t]
  BY Zenon, <1>1
<1>3. Types'
  BY Zenon, <1>1, <1>2, TypesStill
<1>4. Reported'
  BY Zenon, <1>1, ReportedStill DEF history
<1>5. Covered'
  BY Zenon, <1>1, CoveredStill DEF history
<1>6. Published'
  BY Zenon, <1>1, <1>2, PublishedStill DEF kafkaVars
<1>7. ReadOnce'
  BY Zenon, <1>1, <1>2, ReadOnceStill DEF kafkaVars, history
<1> QED
  BY Zenon, <1>3, <1>4, <1>5, <1>6, <1>7

\* A session that is not gated has a single shard, and the fleet is never empty.
LEMMA GateOpen ==
    ASSUME Types, NEW s \in Active, env.gate, Gated(s) => Members >= Len(env.leases[s])
    PROVE  Members >= Len(env.leases[s])
<1>1. Len(env.leases[s]) \in Nat \ {0} /\ IsFiniteSet(Pods)
  BY Zenon, LeaseFacts DEF Types
<1>2. CASE Gated(s)
  BY Zenon, <1>2
<1>3. CASE ~Gated(s)
  <2> DEFINE l == Len(env.leases[s])
  <2>0. l \in Nat \ {0} /\ ~(l > 1)
    BY <1>1, <1>3, Zenon DEF Gated
  <2> HIDE DEF l
  <2>1. l = 1
    BY ONLY <2>0
  <2> DEFINE U == {w \in Pods : up[w]}
  <2>2. IsFiniteSet(U)
    BY Zenon, <1>1, FS_Subset
  <2>3. U # {}
    BY Zenon DEF Types
  <2>4. Cardinality(U) \in Nat /\ Cardinality(U) # 0
    BY Zenon, <2>2, <2>3, FS_CardinalityType, FS_EmptySet
  <2> QED
    BY <2>1, <2>4 DEF Members, l
<1> QED
  BY Zenon, <1>2, <1>3

\* Waiting for capacity keeps the invariant.
LEMMA AwaitCapacityKeeps ==
    ASSUME IInv, NEW s \in Active, AwaitCapacity(s)
    PROVE  IInv'
<1> USE DEF IInv
<1>1. /\ UNCHANGED <<env, ready, chan, got, barriers, kafkaVars, fly, up, history>>
      /\ sess[s] = "gate" /\ DOMAIN sess = Active
  BY Zenon DEF AwaitCapacity, Types
<1>2. PICK x \in {"publish", "failed"} :
        /\ sess' = [sess EXCEPT ![s] = x]
        /\ x = "publish" => (Gated(s) => Members >= Len(env.leases[s]))
  BY Zenon DEF AwaitCapacity
<1>3. DOMAIN sess' = Active /\ \A t \in Active : sess'[t] = IF t = s THEN x ELSE sess[t]
  BY Zenon, <1>1, <1>2
<1>4. Types'
  BY Zenon, <1>1, <1>3, TypesStill
<1>5. Reported'
  BY Zenon, <1>1, ReportedStill DEF history
<1>6. Covered'
  BY Zenon, <1>1, CoveredStill DEF history
<1>7. Published'
  BY Zenon, <1>1, <1>3, PublishedStill DEF kafkaVars
<1>8. x = "publish" => (Alone => Members >= Len(env.leases[s]))
  BY Zenon, <1>2, GateOpen DEF Alone
<1>9. ReadOnce'
  BY Zenon, <1>1, <1>3, <1>8, ReadOnceStill DEF kafkaVars, history
<1> QED
  BY Zenon, <1>4, <1>5, <1>6, <1>7, <1>9

\* The ready deadline and the end of a run keep the invariant.
LEMMA DecidedKeeps ==
    ASSUME IInv, NEW s \in Active, ReadyDeadline(s) \/ RunEnds(s)
    PROVE  IInv'
<1> USE DEF IInv
<1>1. /\ UNCHANGED <<env, ready, chan, got, barriers, kafkaVars, fly, up, history>>
      /\ sess[s] \in {"await", "run"} /\ DOMAIN sess = Active
  BY Zenon DEF ReadyDeadline, RunEnds, Types
<1>2. PICK x \in {"failed", "done"} : sess' = [sess EXCEPT ![s] = x]
  BY Zenon DEF ReadyDeadline, RunEnds
<1>3. DOMAIN sess' = Active /\ \A t \in Active : sess'[t] = IF t = s THEN x ELSE sess[t]
  BY Zenon, <1>1, <1>2
<1>4. Types'
  BY Zenon, <1>1, <1>3, TypesStill
<1>5. Reported'
  BY Zenon, <1>1, ReportedStill DEF history
<1>6. Covered'
  BY Zenon, <1>1, CoveredStill DEF history
<1>7. Published'
  BY Zenon, <1>1, <1>3, PublishedStill DEF kafkaVars
<1>8. ReadOnce'
  BY Zenon, <1>1, <1>3, ReadOnceStill DEF kafkaVars, history
<1> QED
  BY Zenon, <1>4, <1>5, <1>6, <1>7, <1>8
\* Dispatching a ready signal keeps the invariant.
LEMMA DispatchReadyKeeps ==
    ASSUME IInv, NEW m \in ready, DispatchReady(m)
    PROVE  IInv'
<1> USE DEF IInv
<1>1. UNCHANGED <<env, sess, got, barriers, kafkaVars, fly, up, history>> /\ ready' = ready \ {m}
  BY Zenon DEF DispatchReady
<1>2. <<m[1], m[2]>> \in readied /\ m[1] \in Active /\ m[2] \in Shards(m[1])
  BY Zenon, ShardFacts DEF Reported
<1>3. DOMAIN chan' = Active
      /\ \A s \in Active : chan'[s] = chan[s] \/ (s = m[1] /\ chan'[s] = Append(chan[s], m[2]))
  BY Zenon, <1>2 DEF DispatchReady, Reported
<1>4. ASSUME NEW s \in Active
      PROVE  chan'[s] \in Seq(Shards(s)) /\ \A k \in 1..Len(chan'[s]) : <<s, chan'[s][k]>> \in readied
  <2>1. chan[s] \in Seq(Shards(s)) /\ \A k \in 1..Len(chan[s]) : <<s, chan[s][k]>> \in readied
    BY Zenon DEF Reported
  <2>2. CASE chan'[s] = chan[s]
    BY Zenon, <2>1, <2>2
  <2>3. CASE s = m[1] /\ chan'[s] = Append(chan[s], m[2])
    <3>1. Len(chan[s]) \in Nat
      BY Zenon, <2>1, SeqLen
    <3> QED
      BY <1>2, <2>1, <2>3, <3>1, SeqAppend
  <2> QED
    BY Zenon, <1>3, <2>2, <2>3
<1>5. Reported'
  BY Zenon, <1>1, <1>3, <1>4 DEF Reported, history, AllShards, Active, Shards
<1>6. Types'
  BY Zenon, <1>1, TypesStill DEF Types
<1>7. Covered' /\ Published' /\ ReadOnce'
  BY Zenon, <1>1, CoveredStill, PublishedStill, ReadOnceStill DEF kafkaVars, history
<1> QED
  BY Zenon, <1>5, <1>6, <1>7

\* Collecting the ready signals keeps the invariant.
LEMMA AwaitReadyKeeps ==
    ASSUME IInv, NEW s \in Active, AwaitReady(s)
    PROVE  IInv'
<1> USE DEF IInv
<1>1. UNCHANGED <<env, sess, ready, barriers, kafkaVars, fly, up, history>> /\ chan[s] # <<>>
  BY Zenon DEF AwaitReady
<1>2. /\ DOMAIN chan' = Active /\ DOMAIN got' = Active
      /\ \A t \in Active : chan'[t] = IF t = s THEN Tail(chan[s]) ELSE chan[t]
      /\ \A t \in Active : got'[t] = IF t = s THEN got[s] \cup {Head(chan[s])} ELSE got[t]
  BY Zenon DEF AwaitReady, Reported
<1>3. chan[s] \in Seq(Shards(s)) /\ \A k \in 1..Len(chan[s]) : <<s, chan[s][k]>> \in readied
  BY Zenon DEF Reported
<1>4. Len(chan[s]) \in Nat \ {0}
  BY Zenon, <1>1, <1>3, SeqLen, SeqEmpty
<1>5. /\ Tail(chan[s]) \in Seq(Shards(s))
      /\ \A k \in 1..Len(Tail(chan[s])) : <<s, Tail(chan[s])[k]>> \in readied
      /\ <<s, Head(chan[s])>> \in readied
  BY <1>1, <1>3, <1>4, SeqHeadTail
<1>6. \A t \in Active : /\ chan'[t] \in Seq(Shards(t))
                        /\ \A k \in 1..Len(chan'[t]) : <<t, chan'[t][k]>> \in readied
                        /\ \A i \in got'[t] : <<t, i>> \in readied
  <2> SUFFICES ASSUME NEW t \in Active
               PROVE  /\ chan'[t] \in Seq(Shards(t))
                      /\ \A k \in 1..Len(chan'[t]) : <<t, chan'[t][k]>> \in readied
                      /\ \A i \in got'[t] : <<t, i>> \in readied
    BY Zenon
  <2>1. CASE t = s
    <3>1. chan'[t] = Tail(chan[s]) /\ got'[t] = got[s] \cup {Head(chan[s])}
      BY <1>2, <2>1, Zenon
    <3>2. \A i \in got[s] : <<s, i>> \in readied
      BY Zenon DEF Reported
    <3> QED
      BY ONLY <1>5, <2>1, <3>1, <3>2, Zenon
  <2>2. CASE t # s
    BY Zenon, <1>2, <2>2 DEF Reported
  <2> QED
    BY Zenon, <2>1, <2>2
<1>7. Reported'
  <2>1. Active' = Active /\ AllShards' = AllShards /\ \A t : Shards(t)' = Shards(t)
    BY Zenon, <1>1 DEF AllShards, Active, Shards
  <2>2. UNCHANGED <<ready, barriers, readied, fired>>
    BY Zenon, <1>1 DEF history
  <2> QED
    BY Zenon, <1>2, <1>6, <2>1, <2>2 DEF Reported
<1>8. Types'
  BY Zenon, <1>1, TypesStill DEF Types
<1>9. Covered' /\ Published' /\ ReadOnce'
  BY Zenon, <1>1, CoveredStill, PublishedStill, ReadOnceStill DEF kafkaVars, history
<1> QED
  BY Zenon, <1>7, <1>8, <1>9

\* As many reports as shards are the reports of all of them.
LEMMA FannedInIsAll ==
    ASSUME Types, Reported, NEW s \in Active, FannedIn(s)
    PROVE  \A i \in Shards(s) : <<s, i>> \in readied
<1>1. Len(env.leases[s]) \in Nat /\ Shards(s) = 1..Len(env.leases[s])
  BY Zenon, LeaseFacts DEF Types
<1>2. IsFiniteSet(Shards(s)) /\ Cardinality(Shards(s)) = Len(env.leases[s])
  BY <1>1, FS_Interval
<1>3. got[s] \subseteq Shards(s)
  BY Zenon, ShardFacts DEF Reported
<1>4. Cardinality(got[s]) <= Cardinality(Shards(s)) /\ IsFiniteSet(got[s])
  BY Zenon, <1>2, <1>3, FS_Subset
<1>5. Cardinality(got[s]) \in Nat
  BY Zenon, <1>4, FS_CardinalityType
<1>6. Cardinality(Shards(s)) = Cardinality(got[s])
  BY <1>1, <1>2, <1>4, <1>5 DEF FannedIn
<1>7. Shards(s) = got[s]
  BY Zenon, <1>2, <1>3, <1>6, FS_Subset
<1> QED
  BY Zenon, <1>7 DEF Reported

\* Publishing the barrier keeps the invariant.
LEMMA PublishBarrierKeeps ==
    ASSUME IInv, NEW s \in Active, PublishBarrier(s)
    PROVE  IInv'
<1> USE DEF IInv
<1>1. /\ UNCHANGED <<env, ready, chan, got, kafkaVars, fly, up, history>>
      /\ sess[s] = "await" /\ DOMAIN sess = Active
  BY Zenon DEF PublishBarrier, Types
<1>2. PICK x \in {"run", "failed"} : sess' = [sess EXCEPT ![s] = x]
  BY Zenon DEF PublishBarrier
<1>3. DOMAIN sess' = Active /\ \A t \in Active : sess'[t] = IF t = s THEN x ELSE sess[t]
  BY Zenon, <1>1, <1>2
<1>4. barriers' = barriers \/ barriers' = Append(barriers, s)
  BY Zenon DEF PublishBarrier
<1>5. barriers \in Seq(Active) /\ Len(barriers) \in Nat
  BY Zenon, SeqLen DEF Reported
<1>6. /\ barriers' \in Seq(Active)
      /\ \A n \in 1..Len(barriers') :
            (n \in 1..Len(barriers) /\ barriers'[n] = barriers[n]) \/ barriers'[n] = s
      /\ \A n \in 1..Len(barriers) : n \in 1..Len(barriers') /\ barriers'[n] = barriers[n]
  <2>1. CASE barriers' = barriers
    BY Zenon, <1>5, <2>1
  <2>2. CASE barriers' = Append(barriers, s)
    BY <1>5, <2>2, SeqAppend
  <2> QED
    BY Zenon, <1>4, <2>1, <2>2
<1>7. \A n \in 1..Len(barriers') : \A i \in Shards(barriers'[n]) : <<barriers'[n], i>> \in readied
  <2>1. \A i \in Shards(s) : <<s, i>> \in readied
    BY Zenon, FannedInIsAll DEF PublishBarrier
  <2> QED
    BY Zenon, <1>6, <2>1 DEF Reported
<1>8. \A shard \in fired : \E n \in 1..Len(barriers') : barriers'[n] = shard[1]
  BY Zenon, <1>6 DEF Reported
<1>9. Reported'
  BY <1>1, <1>6, <1>7, <1>8 DEF Reported, history, AllShards, Active, Shards
<1>10. Types'
  BY Zenon, <1>1, <1>3, TypesStill
<1>11. Covered' /\ Published' /\ ReadOnce'
  BY Zenon, <1>1, <1>3, CoveredStill, PublishedStill, ReadOnceStill DEF kafkaVars, history
<1> QED
  BY Zenon, <1>9, <1>10, <1>11
\* The topics with the specs of session s added.
LEMMA PublishFacts ==
    ASSUME Types, NEW s \in Active, Publish(s), NEW p \in Partitions
    PROVE  /\ specs'[p] \in Seq(AllShards) /\ Len(specs'[p]) \in Nat /\ Len(specs[p]) <= Len(specs'[p])
           /\ \A n \in 1..Len(specs[p]) : specs'[p][n] = specs[p][n]
           /\ \A n \in 1..Len(specs'[p]) :
                 \/ n \in 1..Len(specs[p])
                 \/ /\ n = Len(specs[p]) + 1
                    /\ specs'[p][n][1] = s /\ env.leases[s][specs'[p][n][2]] = p
<1> DEFINE i == CHOOSE j \in Shards(s) : env.leases[s][j] = p
<1>1. specs[p] \in Seq(AllShards) /\ Len(specs[p]) \in Nat
  BY Zenon, SpecFacts
<1>2. specs'[p] = IF p \in Range(env.leases[s]) THEN Append(specs[p], <<s, i>>) ELSE specs[p]
  BY Zenon DEF Publish
<1>3. CASE p \notin Range(env.leases[s])
  BY <1>1, <1>2, <1>3
<1>4. CASE p \in Range(env.leases[s])
  <2>1. \E j \in Shards(s) : env.leases[s][j] = p
    BY Zenon, <1>4 DEF Range, Shards
  <2>2. i \in Shards(s) /\ env.leases[s][i] = p
    BY Zenon, <2>1
  <2> HIDE DEF i
  <2>3. <<s, i>> \in AllShards
    BY <2>2 DEF AllShards
  <2>4. /\ Append(specs[p], <<s, i>>) \in Seq(AllShards)
        /\ Len(Append(specs[p], <<s, i>>)) = Len(specs[p]) + 1
        /\ Append(specs[p], <<s, i>>)[Len(specs[p]) + 1] = <<s, i>>
        /\ \A n \in 1..Len(specs[p]) : Append(specs[p], <<s, i>>)[n] = specs[p][n]
    BY <1>1, <2>3, SeqAppend
  <2>5. specs'[p] = Append(specs[p], <<s, i>>)
    BY Zenon, <1>2, <1>4
  <2> DEFINE q == specs'[p]
  <2>6. /\ q \in Seq(AllShards) /\ Len(q) = Len(specs[p]) + 1 /\ q[Len(specs[p]) + 1] = <<s, i>>
        /\ \A n \in 1..Len(specs[p]) : q[n] = specs[p][n]
    BY <2>4, <2>5, Zenon
  <2> HIDE DEF q
  <2>7. \A n \in 1..Len(q) : n \in 1..Len(specs[p]) \/ n = Len(specs[p]) + 1
    BY <1>1, <2>6
  <2>8. \A n : n = Len(specs[p]) + 1 => q[n][1] = s /\ env.leases[s][q[n][2]] = p
    BY <2>2, <2>6
  <2>9. Len(q) \in Nat /\ Len(specs[p]) <= Len(q)
    BY <1>1, <2>6
  <2> QED
    BY <2>6, <2>7, <2>8, <2>9, Zenon DEF q
<1> QED
  BY Zenon, <1>3, <1>4

\* Publishing the workload specs keeps the invariant.
LEMMA PublishKeeps ==
    ASSUME IInv, NEW s \in Active, Publish(s)
    PROVE  IInv'
<1> USE DEF IInv
<1>1. /\ UNCHANGED <<env, ready, chan, got, barriers, pos, com, owner, fly, up, history>>
      /\ sess[s] = "publish" /\ DOMAIN sess = Active /\ sess' = [sess EXCEPT ![s] = "await"]
      /\ DOMAIN specs' = Partitions
  BY Zenon DEF Publish, Types
<1>2. DOMAIN sess' = Active /\ \A t \in Active : sess'[t] = IF t = s THEN "await" ELSE sess[t]
  BY Zenon, <1>1
<1>3. Active' = Active /\ AllShards' = AllShards /\ Partitions' = Partitions
  BY Zenon, <1>1 DEF AllShards, Active, Shards
<1>4. Reported'
  BY Zenon, <1>1, ReportedStill DEF history
<1>5. Covered'
  BY Zenon, <1>1 DEF Covered, history, Busy, DealtWith
<1>6. Types'
  <2>1. specs' \in [Partitions -> Seq(AllShards)]
    <3>1. specs' = [p \in Partitions |-> specs'[p]]
      BY DEF Publish
    <3> QED
      BY Zenon, <3>1, PublishFacts
  <2>2. \A p \in Partitions : pos[p] <= Len(specs'[p]) /\ com[p] <= Len(specs'[p])
    BY SpecFacts, PublishFacts
  <2>3. ASSUME NEW w \in Pods, NEW p \in Busy(w)
        PROVE  Flies(w, p)'
    <3>1. Flies(w, p) /\ p \in Partitions
      BY Zenon, <2>3 DEF Types, Flies
    <3>2. /\ Len(specs[p]) \in Nat /\ Len(specs'[p]) \in Nat /\ Len(specs[p]) <= Len(specs'[p])
          /\ \A n \in 1..Len(specs[p]) : specs'[p][n] = specs[p][n]
      BY Zenon, <3>1, SpecFacts, PublishFacts
    <3> QED
      BY <1>1, <3>1, <3>2 DEF Flies
  <2> QED
    BY Zenon, <1>1, <1>2, <1>3, <2>1, <2>2, <2>3 DEF Types, Busy
<1>7. ASSUME NEW p \in Partitions, NEW n \in 1..Len(specs'[p])
      PROVE  /\ sess'[specs'[p][n][1]] \in {"await", "run", "done", "failed"}
             /\ env.leases[specs'[p][n][1]][specs'[p][n][2]] = p
  <2>1. CASE n \in 1..Len(specs[p])
    <3>1. specs'[p][n] = specs[p][n] /\ specs[p][n][1] \in Active
      BY Zenon, <2>1, PublishFacts, SpecFacts, ShardFacts
    <3>2. /\ sess[specs[p][n][1]] \in {"await", "run", "done", "failed"}
          /\ env.leases[specs[p][n][1]][specs[p][n][2]] = p
      BY Zenon, <2>1 DEF Published
    <3> QED
      BY Zenon, <1>2, <3>1, <3>2
  <2>2. CASE n \notin 1..Len(specs[p])
    BY <1>2, <2>2, PublishFacts
  <2> QED
    BY Zenon, <2>1, <2>2
<1>8. ASSUME NEW p \in Partitions, NEW n \in 1..Len(specs'[p]), NEW m \in 1..Len(specs'[p]),
             specs'[p][n] = specs'[p][m]
      PROVE  n = m
  <2>1. ASSUME NEW k \in 1..Len(specs[p])
        PROVE  specs[p][k][1] # s
    BY Zenon, <1>1 DEF Published
  <2>2. CASE n \in 1..Len(specs[p]) /\ m \in 1..Len(specs[p])
    BY <1>8, <2>2, PublishFacts DEF Published
  <2>3. CASE ~(n \in 1..Len(specs[p]) /\ m \in 1..Len(specs[p]))
    <3>1. \A k \in 1..Len(specs'[p]) : IF k \in 1..Len(specs[p]) THEN specs'[p][k][1] # s
                                      ELSE k = Len(specs[p]) + 1 /\ specs'[p][k][1] = s
      BY <2>1, PublishFacts
    <3> QED
      BY Zenon, <1>8, <2>3, <3>1
  <2> QED
    BY Zenon, <2>2, <2>3
<1>9. Published'
  BY <1>1, <1>7, <1>8 DEF Published
<1>10. ReadOnce'
  <2> SUFFICES ASSUME Alone
               PROVE  /\ Members >= Len(env.leases[s])
                      /\ \A shard \in readied : \E p \in Partitions : \E n \in 1..pos[p] : specs'[p][n] = shard
    BY <1>1 DEF ReadOnce, Alone, Active, Members, Busy, history
  <2>1. Members >= Len(env.leases[s])
    BY Zenon, <1>1 DEF ReadOnce
  <2>2. ASSUME NEW shard \in readied
        PROVE  \E p \in Partitions : \E n \in 1..pos[p] : specs'[p][n] = shard
    <3>1. PICK p \in Partitions : \E n \in 1..pos[p] : specs[p][n] = shard
      BY Zenon, <2>2 DEF ReadOnce
    <3>2. PICK n \in 1..pos[p] : specs[p][n] = shard
      BY Zenon, <3>1
    <3>3. n \in 1..Len(specs[p])
      BY SpecFacts
    <3> QED
      BY Zenon, <3>2, <3>3, PublishFacts
  <2> QED
    BY Zenon, <2>1, <2>2
<1> QED
  BY Zenon, <1>4, <1>5, <1>6, <1>9, <1>10
-----------------------------------------------------------------------------
(* run_workload *)

\* The same workloads are running, wherever they are in run_workload.
SameFlights ==
    /\ DOMAIN fly' = Pods
    /\ \A v \in Pods :
          /\ DOMAIN fly'[v] = DOMAIN fly[v] /\ fly'[v] = [q \in DOMAIN fly'[v] |-> fly'[v][q]]
          /\ \A q \in DOMAIN fly[v] :
                /\ DOMAIN fly'[v][q] = DOMAIN fly[v][q]
                /\ fly'[v][q].off = fly[v][q].off /\ fly'[v][q].spec = fly[v][q].spec

\* A task that moves on leaves the same workloads in flight.
LEMMA GotoMoves ==
    ASSUME Types, NEW w \in Pods, NEW p \in Busy(w), NEW pc, Goto(w, p, pc)
    PROVE  SameFlights
<1>1. /\ DOMAIN fly = Pods
      /\ \A v \in Pods : /\ fly[v] = [q \in DOMAIN fly[v] |-> fly[v][q]]
                         /\ \A q \in DOMAIN fly[v] : DOMAIN fly[v][q] = {"slot", "spec", "off", "pc"}
  BY DEF Types, Busy, Flies
<1>2. /\ DOMAIN fly' = Pods
      /\ \A v \in Pods : fly'[v] = IF v = w THEN [fly[w] EXCEPT ![p] = [fly[w][p] EXCEPT !.pc = pc]]
                                            ELSE fly[v]
  BY Zenon, <1>1 DEF Goto
<1>3. ASSUME NEW v \in Pods
      PROVE  /\ DOMAIN fly'[v] = DOMAIN fly[v] /\ fly'[v] = [q \in DOMAIN fly'[v] |-> fly'[v][q]]
             /\ \A q \in DOMAIN fly[v] :
                   /\ DOMAIN fly'[v][q] = DOMAIN fly[v][q]
                   /\ fly'[v][q].off = fly[v][q].off /\ fly'[v][q].spec = fly[v][q].spec
  <2>1. CASE v # w
    BY Zenon, <1>1, <1>2, <2>1
  <2>2. CASE v = w
    <3>1. fly'[w] = [fly[w] EXCEPT ![p] = [fly[w][p] EXCEPT !.pc = pc]]
      BY Zenon, <1>2
    <3>2. DOMAIN fly'[w] = DOMAIN fly[w] /\ fly'[w] = [q \in DOMAIN fly'[w] |-> fly'[w][q]]
      BY Zenon, <3>1
    <3>3. \A q \in DOMAIN fly[w] : fly'[w][q] = IF q = p THEN [fly[w][p] EXCEPT !.pc = pc] ELSE fly[w][q]
      BY Zenon, <3>1
    <3>4. /\ DOMAIN [fly[w][p] EXCEPT !.pc = pc] = DOMAIN fly[w][p]
          /\ [fly[w][p] EXCEPT !.pc = pc].off = fly[w][p].off
          /\ [fly[w][p] EXCEPT !.pc = pc].spec = fly[w][p].spec
      BY Zenon, <1>1 DEF Busy
    <3> QED
      BY <2>2, <3>2, <3>3, <3>4, Zenon
  <2> QED
    BY Zenon, <2>1, <2>2
<1> QED
  BY <1>2, <1>3, Zenon DEF SameFlights

\* The types a task's move keeps.
LEMMA TypesMoved ==
    ASSUME Types, SameFlights, UNCHANGED <<env, sess, kafkaVars, up>>
    PROVE  Types'
<1>1. ASSUME NEW v \in Pods
      PROVE  fly'[v] = [q \in Busy(v)' |-> fly'[v][q]] /\ \A q \in Busy(v)' : Flies(v, q)'
  BY DEF Types, SameFlights, Busy, Flies, kafkaVars
<1> QED
  BY <1>1 DEF Types, SameFlights, kafkaVars, Active, AllShards, Shards

\* A task's move keeps every message covered.
LEMMA CoveredMoved ==
    ASSUME Types, Covered, SameFlights, UNCHANGED <<kafkaVars, handled, letGo>>
    PROVE  Covered'
<1>1. ASSUME NEW p \in Partitions
      PROVE  owner[p] \in Pods
  BY Zenon DEF Types
<1> QED
  BY <1>1 DEF Covered, SameFlights, Busy, DealtWith, kafkaVars

\* A workload that reports is of a spec that was read.
LEMMA ReadOnceMoved ==
    ASSUME Types, ReadOnce, SameFlights, UNCHANGED <<env, sess, kafkaVars, up, again>>,
           \A shard \in readied' :
                shard \in readied \/ \E w \in Pods : \E p \in Busy(w) : shard = fly[w][p].spec
    PROVE  ReadOnce'
<1> SUFFICES ASSUME Alone
             PROVE  /\ \A shard \in readied' : \E p \in Partitions : \E n \in 1..pos[p] : specs[p][n] = shard
                    /\ \A w \in Pods : \A p \in Busy(w)' : fly'[w][p].off <= pos[p]
  BY Zenon DEF ReadOnce, Alone, Active, Members, kafkaVars
<1>1. \A w \in Pods : \A p \in Busy(w)' : fly'[w][p].off <= pos[p]
  BY DEF ReadOnce, SameFlights, Busy
<1>2. ASSUME NEW shard \in readied'
      PROVE  \E p \in Partitions : \E n \in 1..pos[p] : specs[p][n] = shard
  <2>1. CASE shard \in readied
    BY Zenon, <2>1 DEF ReadOnce
  <2>2. ASSUME NEW w \in Pods, NEW p \in Busy(w), shard = fly[w][p].spec
        PROVE  \E q \in Partitions : \E n \in 1..pos[q] : specs[q][n] = shard
    <3>1. Flies(w, p) /\ fly[w][p].off <= pos[p]
      BY Zenon DEF Types, ReadOnce
    <3>2. p \in Partitions /\ fly[w][p].off \in 1..pos[p] /\ specs[p][fly[w][p].off] = shard
      BY <2>2, <3>1, SpecFacts DEF Flies
    <3> QED
      BY Zenon, <3>2
  <2> QED
    BY Zenon, <2>1, <2>2
<1> QED
  BY Zenon, <1>1, <1>2
\* Preparing a shard keeps the invariant.
LEMMA PrepareKeeps ==
    ASSUME IInv, NEW w \in Pods, NEW p \in Partitions, Prepare(w, p)
    PROVE  IInv'
<1> USE DEF IInv
<1> DEFINE shard == fly[w][p].spec
<1>1. /\ p \in Busy(w) /\ UNCHANGED <<env, sess, chan, got, barriers, kafkaVars, up, fired>>
      /\ UNCHANGED <<handled, letGo, again>>
  BY Zenon DEF Prepare, At, ctlVars
<1>2. \E pc : Goto(w, p, pc)
  BY Zenon DEF Prepare
<1>3. SameFlights
  BY Zenon, <1>1, <1>2, GotoMoves
<1>4. \/ ready' = ready /\ readied' = readied
      \/ ready' = ready \cup {<<shard[1], shard[2], w>>} /\ readied' = readied \cup {shard}
  BY Zenon DEF Prepare
<1>5. shard \in AllShards
  BY <1>1, SpecFacts DEF Types, Flies
<1> HIDE DEF shard
<1>6. shard = <<shard[1], shard[2]>>
  BY Zenon, <1>5, ShardFacts
<1>7. readied' \subseteq AllShards /\ readied \subseteq readied'
      /\ \A m \in ready' : <<m[1], m[2]>> \in readied'
  <2>1. CASE ready' = ready /\ readied' = readied
    BY Zenon, <2>1 DEF Reported
  <2>2. CASE ready' = ready \cup {<<shard[1], shard[2], w>>} /\ readied' = readied \cup {shard}
    <3>1. readied \subseteq AllShards /\ \A m \in ready : <<m[1], m[2]>> \in readied
      BY Zenon DEF Reported
    <3>2. <<<<shard[1], shard[2], w>>[1], <<shard[1], shard[2], w>>[2]>> = shard
      BY ONLY Zenon, <1>6
    <3> QED
      BY ONLY <1>5, <2>2, <3>1, <3>2, Zenon
  <2> QED
    BY Zenon, <1>4, <2>1, <2>2
<1>8. Active' = Active /\ AllShards' = AllShards /\ \A t : Shards(t)' = Shards(t)
  BY Zenon, <1>1 DEF AllShards, Active, Shards
<1>9. Reported'
  <2>1. \A s \in Active :
          /\ chan[s] \in Seq(Shards(s)) /\ \A k \in 1..Len(chan[s]) : <<s, chan[s][k]>> \in readied'
          /\ \A i \in got[s] : <<s, i>> \in readied'
    BY Zenon, <1>7 DEF Reported
  <2>2. \A n \in 1..Len(barriers) : \A i \in Shards(barriers[n]) : <<barriers[n], i>> \in readied'
    BY Zenon, <1>7 DEF Reported
  <2> QED
    BY Zenon, <1>1, <1>7, <1>8, <2>1, <2>2 DEF Reported
<1>10. Types' /\ Covered'
  BY Zenon, <1>1, <1>3, TypesMoved, CoveredMoved
<1>11. Published'
  BY Zenon, <1>1, PublishedStill DEF kafkaVars
<1>12. ReadOnce'
  BY Zenon, <1>1, <1>3, <1>4, ReadOnceMoved DEF shard
<1> QED
  BY Zenon, <1>9, <1>10, <1>11, <1>12

\* What a workload does when it has reported.
LEMMA WorkloadKeeps ==
    ASSUME IInv, NEW w \in Pods, NEW p \in Partitions,
           WaitForBarrier(w, p) \/ BarrierTimeout(w, p) \/ FireEnds(w, p) \/ Panic(w, p)
    PROVE  IInv'
<1> USE DEF IInv
<1>1. /\ p \in Busy(w) /\ UNCHANGED <<env, sess, ready, chan, got, barriers, kafkaVars, up, readied>>
      /\ UNCHANGED <<handled, letGo, again>>
  BY Zenon DEF WaitForBarrier, BarrierTimeout, FireEnds, Panic, At, ctlVars, history
<1>2. \E pc : Goto(w, p, pc)
  BY Zenon DEF WaitForBarrier, BarrierTimeout, FireEnds, Panic
<1>3. SameFlights
  BY Zenon, <1>1, <1>2, GotoMoves
<1>4. \A shard \in fired' : \E n \in 1..Len(barriers) : barriers[n] = shard[1]
  <2>1. CASE WaitForBarrier(w, p)
    <3>1. \E n \in DOMAIN barriers : barriers[n] = fly[w][p].spec[1]
      BY Zenon, <2>1 DEF WaitForBarrier, MyBarriers
    <3>2. DOMAIN barriers = 1..Len(barriers)
      BY Zenon, SeqLen DEF Reported
    <3>3. fired' = fired \cup {fly[w][p].spec}
      BY Zenon, <2>1 DEF WaitForBarrier
    <3> QED
      BY Zenon, <3>1, <3>2, <3>3 DEF Reported
  <2>2. CASE ~WaitForBarrier(w, p)
    BY Zenon, <2>2 DEF BarrierTimeout, FireEnds, Panic, history, Reported
  <2> QED
    BY Zenon, <2>1, <2>2
<1>5. Reported'
  BY Zenon, <1>1, <1>4 DEF Reported, AllShards, Active, Shards
<1>6. Types' /\ Covered'
  BY Zenon, <1>1, <1>3, TypesMoved, CoveredMoved
<1>7. Published' /\ ReadOnce'
  BY Zenon, <1>1, <1>3, PublishedStill, ReadOnceMoved DEF kafkaVars
<1> QED
  BY Zenon, <1>5, <1>6, <1>7
-----------------------------------------------------------------------------
(* The consume loop *)

\* What a worker receives.
LEMMA ReceiveFacts ==
    ASSUME Types, NEW w \in Pods, NEW p \in Partitions, Receives(w, p)
    PROVE  /\ owner[p] = w /\ pos[p] \in Nat /\ pos[p] + 1 \in 1..Len(specs[p])
           /\ pos' \in [Partitions -> Nat]
           /\ \A q \in Partitions : pos'[q] = IF q = p THEN pos[p] + 1 ELSE pos[q]
<1>1. pos \in [Partitions -> Nat] /\ pos[p] \in 0..Len(specs[p]) /\ Len(specs[p]) \in Nat
  BY Zenon, SpecFacts DEF Types
<1> QED
  BY <1>1 DEF Receives

\* A spec that is read when its partition is free leaves nothing behind that is to be run.
LEMMA ReadIsDealtWith ==
    ASSUME Types, Covered, NEW w \in Pods, NEW p \in Partitions, owner[p] = w, p \notin Busy(w)
    PROVE  \A n \in 1..pos[p] : DealtWith(p, n)
  BY Zenon DEF Covered

\* Reading on forgets nothing that was read.
LEMMA ReadFurther ==
    ASSUME Types, ReadOnce, Alone, pos' \in [Partitions -> Nat], \A q \in Partitions : pos[q] <= pos'[q]
    PROVE  /\ \A shard \in readied : \E q \in Partitions : \E n \in 1..pos'[q] : specs[q][n] = shard
           /\ \A v \in Pods : \A q \in Busy(v) : fly[v][q].off <= pos'[q]
<1>1. \A q \in Partitions : pos[q] \in Nat /\ pos'[q] \in Nat /\ 1..pos[q] \subseteq 1..pos'[q]
  BY SpecFacts
<1>2. \A v \in Pods : \A q \in Busy(v) : q \in Partitions /\ fly[v][q].off \in Nat
  BY SpecFacts DEF Types, Flies
<1>3. ASSUME NEW shard \in readied
      PROVE  \E q \in Partitions : \E n \in 1..pos'[q] : specs[q][n] = shard
  BY Zenon, <1>1 DEF ReadOnce
<1>4. ASSUME NEW v \in Pods, NEW q \in Busy(v)
      PROVE  fly[v][q].off <= pos'[q]
  <2>1. fly[v][q].off <= pos[q] /\ pos[q] <= pos'[q]
    BY Zenon, <1>2 DEF ReadOnce
  <2> QED
    BY <1>1, <1>2, <2>1
<1> QED
  BY Zenon, <1>3, <1>4

\* Skipping a stale message keeps the invariant.
LEMMA SkipStaleKeeps ==
    ASSUME IInv, NEW w \in Pods, NEW p \in Partitions, SkipStale(w, p)
    PROVE  IInv'
<1> USE DEF IInv
<1>1. /\ UNCHANGED <<env, sess, ready, chan, got, barriers, specs, owner, fly, up, readied, fired>>
      /\ UNCHANGED <<letGo, again>> /\ p \notin Busy(w)
      /\ handled' = handled \cup {<<p, pos[p] + 1>>} /\ com' = [com EXCEPT ![p] = pos[p] + 1]
  BY Zenon DEF SkipStale, ctlVars
<1>2. /\ owner[p] = w /\ pos[p] \in Nat /\ pos[p] + 1 \in 1..Len(specs[p])
      /\ pos' \in [Partitions -> Nat]
      /\ \A q \in Partitions : pos'[q] = IF q = p THEN pos[p] + 1 ELSE pos[q]
  BY Zenon, ReceiveFacts DEF SkipStale
<1>3. /\ com' \in [Partitions -> Nat]
      /\ \A q \in Partitions : com'[q] = IF q = p THEN pos[p] + 1 ELSE com[q]
  BY Zenon, <1>1, <1>2 DEF Types
<1>4. \A q \in Partitions : pos'[q] <= Len(specs[q]) /\ com'[q] <= Len(specs[q])
  <2>1. /\ \A q \in Partitions : pos[q] <= Len(specs[q]) /\ com[q] <= Len(specs[q])
        /\ Len(specs[p]) \in Nat
    BY Zenon, SpecFacts DEF Types
  <2>2. pos[p] + 1 <= Len(specs[p])
    BY ONLY <1>2, <2>1
  <2> QED BY Zenon, <1>2, <1>3, <2>1, <2>2
<1>5. Types'
  BY <1>1, <1>2, <1>3, <1>4 DEF Types, Active, AllShards, Shards, Busy, Flies
<1>6. Reported' /\ Published'
  BY Zenon, <1>1, ReportedStill, PublishedStill
<1>7. Covered'
  <2>1. \A q \in Partitions : \A n : DealtWith(q, n) => DealtWith(q, n)'
    BY Zenon, <1>1 DEF DealtWith
  <2>2. \A n \in 1..(pos[p] + 1) : DealtWith(p, n)'
    <3> SUFFICES ASSUME NEW n \in 1..(pos[p] + 1)
                 PROVE  DealtWith(p, n)'
      BY Zenon
    <3>1. n \in 1..pos[p] \/ n = pos[p] + 1
      BY <1>2
    <3>2. \A k \in 1..pos[p] : DealtWith(p, k)
      BY Zenon, <1>1, <1>2, ReadIsDealtWith
    <3>3. n = pos[p] + 1 => DealtWith(p, n)'
      BY Zenon, <1>1 DEF DealtWith
    <3> QED
      BY Zenon, <2>1, <3>1, <3>2, <3>3
  <2> QED
    BY <1>1, <1>2, <1>3, <2>1, <2>2 DEF Covered, Busy
<1>8. ReadOnce'
  <2>1. \A q \in Partitions : pos[q] <= pos'[q]
    BY <1>2, SpecFacts
  <2>2. Alone' <=> Alone
    BY Zenon, <1>1 DEF Alone, Active
  <2> SUFFICES ASSUME Alone
               PROVE  /\ \A shard \in readied : \E q \in Partitions : \E n \in 1..pos'[q] : specs[q][n] = shard
                      /\ \A v \in Pods : \A q \in Busy(v) : fly[v][q].off <= pos'[q]
    BY Zenon, <1>1, <2>2 DEF ReadOnce, Active, Members, Busy
  <2> QED
    BY Zenon, <1>2, <2>1, ReadFurther
<1> QED
  BY Zenon, <1>5, <1>6, <1>7, <1>8
\* Rejecting a message keeps the invariant.
LEMMA RejectKeeps ==
    ASSUME IInv, NEW w \in Pods, NEW p \in Partitions, Reject(w, p)
    PROVE  IInv'
<1> USE DEF IInv
<1>1. /\ UNCHANGED <<env, sess, ready, chan, got, barriers, specs, com, owner, fly, up, readied, fired>>
      /\ UNCHANGED <<handled, again>> /\ letGo' = letGo \cup {<<p, pos[p] + 1>>}
  BY Zenon DEF Reject, ctlVars
<1>2. /\ pos[p] \in Nat /\ pos[p] + 1 \in 1..Len(specs[p])
      /\ pos' \in [Partitions -> Nat]
      /\ \A q \in Partitions : pos'[q] = IF q = p THEN pos[p] + 1 ELSE pos[q]
  BY Zenon, ReceiveFacts DEF Reject
<1>3. \A q \in Partitions : pos'[q] <= Len(specs[q])
  BY <1>2, SpecFacts
<1>4. Types'
  BY <1>1, <1>2, <1>3 DEF Types, Active, AllShards, Shards, Busy, Flies
<1>5. Reported' /\ Published'
  BY Zenon, <1>1, ReportedStill, PublishedStill
<1>6. Covered'
  <2>1. \A q \in Partitions : \A n : DealtWith(q, n) => DealtWith(q, n)'
    BY Zenon, <1>1 DEF DealtWith
  <2>2. ASSUME NEW n \in 1..(pos[p] + 1), n \notin 1..pos[p]
        PROVE  DealtWith(p, n)'
    BY <1>1, <1>2, <2>2 DEF DealtWith
  <2> QED
    BY <1>1, <1>2, <2>1, <2>2 DEF Covered, Busy
<1>7. ReadOnce'
  <2>1. \A q \in Partitions : pos[q] <= pos'[q]
    BY <1>2, SpecFacts
  <2>2. Alone' <=> Alone
    BY Zenon, <1>1 DEF Alone, Active
  <2> SUFFICES ASSUME Alone
               PROVE  /\ \A shard \in readied : \E q \in Partitions : \E n \in 1..pos'[q] : specs[q][n] = shard
                      /\ \A v \in Pods : \A q \in Busy(v) : fly[v][q].off <= pos'[q]
    BY Zenon, <1>1, <2>2 DEF ReadOnce, Active, Members, Busy
  <2> QED
    BY Zenon, <1>2, <2>1, ReadFurther
<1> QED
  BY Zenon, <1>4, <1>5, <1>6, <1>7

\* Admitting a message keeps the invariant.
LEMMA AdmitKeeps ==
    ASSUME IInv, NEW w \in Pods, NEW p \in Partitions, Admit(w, p)
    PROVE  IInv'
<1> USE DEF IInv
<1>1. /\ UNCHANGED <<env, sess, ready, chan, got, barriers, specs, com, owner, up, readied, fired>>
      /\ UNCHANGED <<handled, letGo>> /\ p \notin Busy(w) /\ again' = again \cup ({NextSpec(p)} \cap readied)
  BY Zenon DEF Admit, ctlVars
<1>2. /\ owner[p] = w /\ pos[p] \in Nat /\ pos[p] + 1 \in 1..Len(specs[p])
      /\ pos' \in [Partitions -> Nat]
      /\ \A q \in Partitions : pos'[q] = IF q = p THEN pos[p] + 1 ELSE pos[q]
  BY Zenon, ReceiveFacts DEF Admit
<1>3. \A q \in Partitions : pos'[q] <= Len(specs[q])
  BY <1>2, SpecFacts
<1>4. DOMAIN fly' = Pods /\ \A v \in Pods : fly'[v] = IF v = w THEN Admitted(w, p) ELSE fly[v]
  BY Zenon DEF Admit, Types
<1>5. /\ DOMAIN Admitted(w, p) = Busy(w) \cup {p}
      /\ Admitted(w, p) = [q \in DOMAIN Admitted(w, p) |-> Admitted(w, p)[q]]
      /\ \A q \in Busy(w) : Admitted(w, p)[q] = fly[w][q]
      /\ DOMAIN Admitted(w, p)[p] = {"slot", "spec", "off", "pc"}
      /\ Admitted(w, p)[p].off = pos[p] + 1 /\ Admitted(w, p)[p].spec = specs[p][pos[p] + 1]
  BY Zenon, <1>1 DEF Admitted, NextSpec
<1>6. /\ \A v \in Pods : Busy(v)' = IF v = w THEN Busy(w) \cup {p} ELSE Busy(v)
      /\ \A v \in Pods : \A q \in Busy(v) : fly'[v][q] = fly[v][q]
      /\ \A v \in Pods : fly'[v] = [q \in Busy(v)' |-> fly'[v][q]]
  <2>1. ASSUME NEW v \in Pods, v # w
        PROVE  Busy(v)' = Busy(v) /\ fly'[v] = fly[v] /\ fly'[v] = [q \in Busy(v)' |-> fly'[v][q]]
    BY Zenon, <1>4, <2>1 DEF Busy, Types
  <2>2. Busy(w)' = Busy(w) \cup {p} /\ fly'[w] = [q \in Busy(w)' |-> fly'[w][q]]
        /\ \A q \in Busy(w) : fly'[w][q] = fly[w][q]
    BY <1>4, <1>5, Zenon DEF Busy
  <2> QED
    BY <2>1, <2>2, Zenon
<1>7. /\ DOMAIN fly'[w][p] = {"slot", "spec", "off", "pc"}
      /\ fly'[w][p].off = pos[p] + 1 /\ fly'[w][p].spec = specs[p][pos[p] + 1]
  BY Zenon, <1>4, <1>5
<1>8. Types'
  <2>1. ASSUME NEW v \in Pods, NEW q \in Busy(v)'
        PROVE  Flies(v, q)'
    <3>1. CASE q \in Busy(v)
      BY <1>1, <1>6, <3>1 DEF Types, Flies
    <3>2. CASE q \notin Busy(v)
      BY <1>1, <1>2, <1>6, <1>7, <3>2 DEF Flies
    <3> QED
      BY Zenon, <3>1, <3>2
  <2> QED
    <3>1. Active' = Active /\ AllShards' = AllShards
      BY Zenon, <1>1 DEF AllShards, Active, Shards
    <3>2. \A v \in Pods : fly'[v] = [q \in Busy(v)' |-> fly'[v][q]] /\ \A q \in Busy(v)' : Flies(v, q)'
      BY <1>6, <2>1, Zenon
    <3>3. DOMAIN fly' = Pods
      BY Zenon, <1>4
    <3> QED
      BY Zenon, <1>1, <1>2, <1>3, <3>1, <3>2, <3>3 DEF Types
<1>9. Reported' /\ Published'
  BY Zenon, <1>1, ReportedStill, PublishedStill
<1>10. Covered'
  <2>1. \A q \in Partitions : \A n : DealtWith(q, n)' <=> DealtWith(q, n)
    BY Zenon, <1>1 DEF DealtWith
  <2>2. \A n \in 1..pos[p] : DealtWith(p, n)
    BY Zenon, <1>1, <1>2, ReadIsDealtWith
  <2>3. ASSUME NEW q \in Partitions, NEW n \in 1..pos'[q]
        PROVE  DealtWith(q, n) \/ (q \in Busy(owner[q])' /\ fly'[owner[q]][q].off = n)
    <3>1. CASE q = p
      <4>1. p \in Busy(w)' /\ fly'[w][p].off = pos[p] + 1
        BY Zenon, <1>6, <1>7
      <4>2. n \in 1..pos[p] \/ n = pos[p] + 1
        BY <1>2, <3>1
      <4> QED
        BY Zenon, <1>1, <1>2, <2>2, <3>1, <4>1, <4>2
    <3>2. CASE q # p
      <4>1. n \in 1..pos[q] /\ owner[q] \in Pods
        BY Zenon, <1>2, <3>2 DEF Types
      <4> QED
        BY <1>1, <1>6, <4>1 DEF Covered
    <3> QED
      BY Zenon, <3>1, <3>2
  <2>4. ASSUME NEW q \in Partitions, NEW v \in Pods, q \in Busy(v)', NEW n \in 1..(fly'[v][q].off - 1)
        PROVE  DealtWith(q, n)
    <3>1. CASE q \in Busy(v)
      BY <1>6, <2>4, <3>1 DEF Covered
    <3>2. CASE q \notin Busy(v)
      <4>1. q = p /\ v = w
        BY Zenon, <1>6, <2>4, <3>2
      <4>2. n \in 1..pos[p]
        BY <1>2, <1>7, <2>4, <4>1
      <4> QED
        BY Zenon, <2>2, <4>1, <4>2
    <3> QED
      BY Zenon, <3>1, <3>2
  <2> QED
    BY Zenon, <1>1, <2>1, <2>3, <2>4 DEF Covered
<1>11. ReadOnce'
  <2>1. \A q \in Partitions : pos[q] <= pos'[q]
    BY <1>2, SpecFacts
  <2>2. Alone' <=> Alone
    BY Zenon, <1>1 DEF Alone, Active
  <2> SUFFICES ASSUME Alone
               PROVE  /\ \A shard \in readied : \E q \in Partitions : \E n \in 1..pos'[q] : specs[q][n] = shard
                      /\ \A v \in Pods : \A q \in Busy(v)' : fly'[v][q].off <= pos'[q]
                      /\ NextSpec(p) \notin readied
    BY Zenon, <1>1, <2>2 DEF ReadOnce, Active, Members
  <2>3. /\ \A shard \in readied : \E q \in Partitions : \E n \in 1..pos'[q] : specs[q][n] = shard
        /\ \A v \in Pods : \A q \in Busy(v) : fly[v][q].off <= pos'[q]
    BY Zenon, <1>2, <2>1, ReadFurther
  <2>4. \A v \in Pods : \A q \in Busy(v)' : fly'[v][q].off <= pos'[q]
    BY <1>2, <1>6, <1>7, <2>3
  <2>5. ASSUME NextSpec(p) \in readied
        PROVE  FALSE
    <3>1. PICK q \in Partitions : \E n \in 1..pos[q] : specs[q][n] = specs[p][pos[p] + 1]
      BY Zenon, <2>5 DEF ReadOnce, NextSpec
    <3>2. PICK n \in 1..pos[q] : specs[q][n] = specs[p][pos[p] + 1]
      BY Zenon, <3>1
    <3>3. n \in 1..Len(specs[q]) /\ pos[q] \in Nat
      BY SpecFacts
    <3>4. q = p
      <4> DEFINE o == pos[p] + 1
      <4>1. o \in 1..Len(specs[p]) /\ specs[q][n] = specs[p][o]
        BY Zenon, <1>2, <3>2
      <4> HIDE DEF o
      <4>2. /\ env.leases[specs[p][o][1]][specs[p][o][2]] = p
            /\ env.leases[specs[q][n][1]][specs[q][n][2]] = q
        BY Zenon, <3>3, <4>1 DEF Published
      <4> QED
        BY ONLY Zenon, <4>1, <4>2
    <3>5. n = pos[p] + 1
      BY Zenon, <1>2, <3>2, <3>3, <3>4 DEF Published
    <3> QED
      BY <3>3, <3>4, <3>5
  <2> QED
    BY Zenon, <2>3, <2>4, <2>5
<1> QED
  BY Zenon, <1>8, <1>9, <1>10, <1>11
\* The end of a shard's load keeps the invariant.
LEMMA CompleteKeeps ==
    ASSUME IInv, NEW w \in Pods, NEW p \in Partitions, Complete(w, p)
    PROVE  IInv'
<1> USE DEF IInv
<1>1. /\ UNCHANGED <<env, sess, ready, chan, got, barriers, specs, pos, owner, up, readied, fired, again>>
      /\ p \in Busy(w) /\ fly' = [fly EXCEPT ![w] = Restrict(@, Busy(w) \ {p})]
  BY Zenon DEF Complete, At, ctlVars
<1>2. PICK o : o = fly[w][p].off
  BY Zenon
<1>3. /\ handled \subseteq handled' /\ letGo \subseteq letGo'
      /\ <<p, o>> \in handled' \/ <<p, o>> \in letGo'
      /\ com' = com \/ (com' = [com EXCEPT ![p] = o] /\ <<p, o>> \in handled')
  BY Zenon, <1>2 DEF Complete
<1>4. p \in Partitions /\ o \in 1..Len(specs[p]) /\ Len(specs[p]) \in Nat
  BY Zenon, <1>1, <1>2, SpecFacts DEF Types, Flies
<1>5. com' \in [Partitions -> Nat] /\ \A q \in Partitions : com'[q] = com[q] \/ (q = p /\ com'[q] = o)
  <2>1. com \in [Partitions -> Nat]
    BY Zenon DEF Types
  <2>2. o \in Nat
    BY ONLY <1>4
  <2> QED BY ONLY <1>3, <1>4, <2>1, <2>2
<1>6. \A q \in Partitions : com'[q] <= Len(specs[q])
  <2>1. o <= Len(specs[p]) /\ \A q \in Partitions : com[q] <= Len(specs[q])
    BY <1>4, SpecFacts
  <2> QED
    BY <1>5, <2>1, Zenon
<1>7. /\ DOMAIN fly' = Pods
      /\ \A v \in Pods : fly'[v] = IF v = w THEN [q \in Busy(w) \ {p} |-> fly[w][q]] ELSE fly[v]
  BY Zenon, <1>1 DEF Types, Restrict
<1>8. /\ \A v \in Pods : Busy(v)' = IF v = w THEN Busy(w) \ {p} ELSE Busy(v)
      /\ \A v \in Pods : \A q \in Busy(v)' : fly'[v][q] = fly[v][q]
      /\ \A v \in Pods : fly'[v] = [q \in Busy(v)' |-> fly'[v][q]]
  <2>1. ASSUME NEW v \in Pods, v # w
        PROVE  Busy(v)' = Busy(v) /\ fly'[v] = fly[v] /\ fly'[v] = [q \in Busy(v)' |-> fly'[v][q]]
    BY Zenon, <1>7, <2>1 DEF Busy, Types
  <2>2. /\ Busy(w)' = Busy(w) \ {p} /\ fly'[w] = [q \in Busy(w)' |-> fly'[w][q]]
        /\ \A q \in Busy(w)' : fly'[w][q] = fly[w][q]
    BY Zenon, <1>7 DEF Busy
  <2> QED
    BY <2>1, <2>2, Zenon
<1>9. Types'
  <2>1. Active' = Active /\ AllShards' = AllShards
    BY Zenon, <1>1 DEF AllShards, Active, Shards
  <2>2. ASSUME NEW v \in Pods, NEW q \in Busy(v)'
        PROVE  Flies(v, q)'
    <3>1. q \in Busy(v) /\ fly'[v][q] = fly[v][q]
      BY Zenon, <1>8
    <3> QED
      BY <1>1, <3>1 DEF Types, Flies
  <2> QED
    BY Zenon, <1>1, <1>5, <1>6, <1>7, <1>8, <2>1, <2>2 DEF Types
<1>10. Reported' /\ Published'
  BY Zenon, <1>1, ReportedStill, PublishedStill
<1>11. Covered'
  <2>1. \A q \in Partitions : \A n : DealtWith(q, n) => DealtWith(q, n)'
    BY Zenon, <1>3 DEF DealtWith
  <2>2. DealtWith(p, o)'
    BY Zenon, <1>3 DEF DealtWith
  <2>3. \A n \in 1..o : DealtWith(p, n)'
    <3>1. \A n \in 1..(o - 1) : DealtWith(p, n)
      BY Zenon, <1>1, <1>2 DEF Covered
    <3>2. \A n \in 1..o : n \in 1..(o - 1) \/ n = o
      BY <1>4
    <3> QED
      BY <2>1, <2>2, <3>1, <3>2, Zenon
  <2>4. ASSUME NEW q \in Partitions, NEW n \in 1..com'[q]
        PROVE  DealtWith(q, n)'
    BY Zenon, <1>5, <2>1, <2>3 DEF Covered
  <2>5. ASSUME NEW q \in Partitions, NEW n \in 1..pos[q]
        PROVE  DealtWith(q, n)' \/ (q \in Busy(owner[q])' /\ fly'[owner[q]][q].off = n)
    <3>1. owner[q] \in Pods
      BY Zenon DEF Types
    <3>2. CASE DealtWith(q, n)
      BY Zenon, <2>1, <3>2
    <3>3. CASE q \in Busy(owner[q]) /\ fly[owner[q]][q].off = n
      <4>1. CASE owner[q] = w /\ q = p
        BY Zenon, <1>2, <2>2, <3>3, <4>1
      <4>2. CASE ~(owner[q] = w /\ q = p)
        <5>1. PICK v \in Pods : v = owner[q]
          BY Zenon, <3>1
        <5>2. q \in Busy(v)' /\ fly'[v][q] = fly[v][q]
          BY <1>8, <3>3, <4>2, <5>1
        <5> QED
          BY Zenon, <1>1, <3>3, <5>1, <5>2
      <4> QED
        BY Zenon, <4>1, <4>2
    <3> QED
      BY Zenon, <3>2, <3>3 DEF Covered
  <2>6. ASSUME NEW q \in Partitions, NEW v \in Pods, q \in Busy(v)', NEW n \in 1..(fly'[v][q].off - 1)
        PROVE  DealtWith(q, n)'
    <3>1. q \in Busy(v) /\ fly'[v][q] = fly[v][q]
      BY Zenon, <1>8, <2>6
    <3> QED
      BY Zenon, <2>1, <3>1 DEF Covered
  <2> QED
    BY Zenon, <1>1, <2>4, <2>5, <2>6 DEF Covered
<1>12. ReadOnce'
  <2>1. Alone' <=> Alone
    BY Zenon, <1>1 DEF Alone, Active
  <2>2. Alone => \A v \in Pods : \A q \in Busy(v)' : fly'[v][q].off <= pos[q]
    BY Zenon, <1>8 DEF ReadOnce
  <2> QED
    BY Zenon, <1>1, <2>1, <2>2 DEF ReadOnce, Active, Members
<1> QED
  BY Zenon, <1>9, <1>10, <1>11, <1>12
-----------------------------------------------------------------------------
(* The consumer group *)

\* A session that is alone demands no more workers than it has shards, and no more of its
\* specs are uncommitted.
LEMMA DemandBounded ==
    ASSUME Types, Published, Alone, NEW s \in Active
    PROVE  /\ Cardinality(Demanded) \in 0..Len(env.leases[s])
           /\ Cardinality(Lag) \in 0..Len(env.leases[s])
<1>1. Len(env.leases[s]) \in Nat /\ Shards(s) = 1..Len(env.leases[s]) /\ Active = {s}
  BY Zenon, LeaseFacts DEF Types, Alone
<1>2. IsFiniteSet(Shards(s)) /\ Cardinality(Shards(s)) = Len(env.leases[s])
  BY <1>1, FS_Interval
<1>3. Cardinality(Demanded) \in Nat /\ Cardinality(Demanded) <= Cardinality(Shards(s))
  <2> DEFINE f == [d \in Demanded |-> d[2]]
  <2>1. \A d \in Demanded : d = <<s, d[2]>> /\ d[2] \in Shards(s)
    BY <1>1 DEF Demanded
  <2>2. f \in Injection(Demanded, Shards(s))
    BY Zenon, <2>1 DEF Injection, IsInjective
  <2> QED
    BY Zenon, <1>2, <2>2, FS_Injection, FS_CardinalityType
<1>4. Cardinality(Lag) \in Nat /\ Cardinality(Lag) <= Cardinality(Shards(s))
  <2> DEFINE f == [o \in Lag |-> specs[o[1]][o[2]][2]]
  <2>1. ASSUME NEW o \in Lag
        PROVE  o = <<o[1], o[2]>> /\ o[1] \in Partitions /\ o[2] \in 1..Len(specs[o[1]])
    BY SpecFacts DEF Lag
  <2>2. ASSUME NEW o \in Lag
        PROVE  specs[o[1]][o[2]] = <<s, specs[o[1]][o[2]][2]>> /\ specs[o[1]][o[2]][2] \in Shards(s)
    BY Zenon, <1>1, <2>1, SpecFacts, ShardFacts
  <2>3. ASSUME NEW o \in Lag, NEW u \in Lag, specs[o[1]][o[2]][2] = specs[u[1]][u[2]][2]
        PROVE  o = u
    <3>1. specs[o[1]][o[2]] = specs[u[1]][u[2]]
      BY Zenon, <2>2, <2>3
    <3>2. /\ env.leases[specs[o[1]][o[2]][1]][specs[o[1]][o[2]][2]] = o[1]
          /\ env.leases[specs[u[1]][u[2]][1]][specs[u[1]][u[2]][2]] = u[1]
      BY Zenon, <2>1 DEF Published
    <3>3. o[1] = u[1]
      BY ONLY Zenon, <3>1, <3>2
    <3>4. o[2] = u[2]
      BY <2>1, <3>1, <3>3 DEF Published
    <3> QED
      BY Zenon, <2>1, <3>3, <3>4
  <2>4. f \in Injection(Lag, Shards(s))
    BY Zenon, <2>2, <2>3 DEF Injection, IsInjective
  <2> QED
    BY Zenon, <1>2, <2>4, FS_Injection, FS_CardinalityType
<1> QED
  BY <1>1, <1>2, <1>3, <1>4

\* Every partition is read from its committed offset again.
LEMMA CoveredAgain ==
    ASSUME Types, Covered, pos' = com, UNCHANGED <<com, handled, letGo>>,
           \A v \in Pods : \A q \in Busy(v)' : q \in Busy(v) /\ fly'[v][q].off = fly[v][q].off
    PROVE  Covered'
<1>1. \A q \in Partitions : \A n : DealtWith(q, n)' <=> DealtWith(q, n)
  BY Zenon DEF DealtWith
<1> QED
  BY <1>1 DEF Covered

\* ... which is where it was, if the session is alone: the fleet grows no more once there
\* is a spec.
LEMMA RebalanceKeeps ==
    ASSUME IInv, Rebalance
    PROVE  IInv'
<1> USE DEF IInv
<1>1. /\ UNCHANGED <<env, sess, ready, chan, got, barriers, specs, com, fly, readied, fired, again>>
      /\ UNCHANGED <<handled, letGo>> /\ pos' = com
  BY Zenon DEF Rebalance, Reassign, ctlVars, history
<1>2. up' \in [Pods -> BOOLEAN] /\ \A w \in Pods : up[w] => up'[w]
  <2>1. up' = up \/ \E w \in Pods : up' = [up EXCEPT ![w] = TRUE]
    BY Zenon DEF Rebalance
  <2> QED
    BY Zenon, <2>1 DEF Types
<1>3. owner' \in [Partitions -> Pods]
  BY Zenon DEF Rebalance, Reassign, Assignments
<1>4. Types'
  <2>1. \E w \in Pods : up'[w]
    BY Zenon, <1>2 DEF Types
  <2> QED
    BY <1>1, <1>2, <1>3, <2>1 DEF Types, Active, AllShards, Shards, Busy, Flies
<1>5. Reported' /\ Published'
  BY Zenon, <1>1, ReportedStill, PublishedStill
<1>6. Covered'
  BY Zenon, <1>1, CoveredAgain DEF Busy
<1>7. Members' \in Nat /\ Members \in Nat /\ Members' >= Members
  <2>1. IsFiniteSet(Pods)
    BY Zenon, LeaseFacts DEF Types
  <2>2. {w \in Pods : up[w]} \subseteq {w \in Pods : up'[w]}
    BY Zenon, <1>2
  <2>3. IsFiniteSet({w \in Pods : up'[w]}) /\ IsFiniteSet({w \in Pods : up[w]})
    BY Zenon, <2>1, FS_Subset
  <2> QED
    BY Zenon, <2>2, <2>3, FS_Subset, FS_CardinalityType DEF Members
<1>8. ReadOnce'
  <2>1. Alone' <=> Alone
    BY Zenon, <1>1 DEF Alone, Active
  <2>2. ASSUME Alone, NEW s \in Active, Members >= Len(env.leases[s])
        PROVE  FALSE
    <3>1. Members < Cardinality(Demanded) \/ Members < Cardinality(Lag)
      BY Zenon, <2>2 DEF Rebalance, Fault, Alone
    <3>2. /\ Cardinality(Demanded) \in 0..Len(env.leases[s])
          /\ Cardinality(Lag) \in 0..Len(env.leases[s]) /\ Len(env.leases[s]) \in Nat
      BY Zenon, <2>2, DemandBounded, LeaseFacts DEF Types
    <3> QED
      BY <1>7, <2>2, <3>1, <3>2
  <2>3. ASSUME Alone, NEW q \in Partitions
        PROVE  specs[q] = <<>> /\ pos'[q] = pos[q]
    <3>1. specs[q] \in Seq(AllShards) /\ Len(specs[q]) \in Nat
          /\ pos[q] \in 0..Len(specs[q]) /\ com[q] \in 0..Len(specs[q])
      BY Zenon, SpecFacts
    <3>2. ASSUME specs[q] # <<>>
          PROVE  FALSE
      <4>1. specs[q][1] \in AllShards
        BY <3>1, <3>2, SeqEmpty, SeqElement
      <4>2. specs[q][1][1] \in Active
        BY Zenon, <4>1, ShardFacts
      <4>3. Members >= Len(env.leases[specs[q][1][1]])
        BY Zenon, <2>3, <3>2, <4>2 DEF ReadOnce
      <4> QED
        BY Zenon, <2>2, <2>3, <4>2, <4>3
    <3>3. Len(specs[q]) = 0
      BY Zenon, <3>2, SeqEmpty
    <3> QED
      BY <1>1, <3>1, <3>2, <3>3
  <2>4. ASSUME Alone, NEW s \in Active
        PROVE  ~(sess[s] \in {"publish", "await"} \/ \E q \in Partitions : specs[q] # <<>>)
    BY Zenon, <2>2, <2>4 DEF ReadOnce
  <2>5. ASSUME Alone, NEW shard \in readied
        PROVE  \E q \in Partitions : \E n \in 1..pos'[q] : specs[q][n] = shard
    BY Zenon, <2>3, <2>5 DEF ReadOnce
  <2>6. ASSUME Alone, NEW v \in Pods, NEW q \in Busy(v)
        PROVE  fly[v][q].off <= pos'[q]
    BY Zenon, <2>3, <2>6 DEF ReadOnce, Types, Flies
  <2> QED
    BY <1>1, <2>1, <2>4, <2>5, <2>6 DEF ReadOnce, Active, Busy
<1> QED
  BY Zenon, <1>4, <1>5, <1>6, <1>8
\* A crash of a pod keeps the invariant.
LEMMA CrashKeeps ==
    ASSUME IInv, NEW w \in Pods, Crash(w)
    PROVE  IInv'
<1> USE DEF IInv
<1>1. /\ UNCHANGED <<env, sess, ready, chan, got, barriers, specs, com, readied, fired, again>>
      /\ UNCHANGED <<handled, letGo>> /\ pos' = com
  BY Zenon DEF Crash, Reassign, ctlVars, history
<1>2. up' \in [Pods -> BOOLEAN] /\ \E v \in Pods : up'[v]
  BY Zenon DEF Crash, Types
<1>3. owner' \in [Partitions -> Pods]
  BY Zenon DEF Crash, Reassign, Assignments
<1>4. DOMAIN fly' = Pods /\ \A v \in Pods : fly'[v] = IF v = w THEN <<>> ELSE fly[v]
  BY Zenon DEF Crash, Types
<1>5. /\ \A v \in Pods : fly'[v] = [q \in Busy(v)' |-> fly'[v][q]]
      /\ \A v \in Pods : \A q \in Busy(v)' : q \in Busy(v) /\ fly'[v][q] = fly[v][q]
  <2>1. ASSUME NEW v \in Pods, v # w
        PROVE  Busy(v)' = Busy(v) /\ fly'[v] = fly[v] /\ fly'[v] = [q \in Busy(v)' |-> fly'[v][q]]
    BY Zenon, <1>4, <2>1 DEF Busy, Types
  <2>2. Busy(w)' = {} /\ fly'[w] = [q \in Busy(w)' |-> fly'[w][q]]
    <3>1. fly'[w] = <<>> /\ DOMAIN <<>> = {}
      BY <1>4
    <3>2. <<>> = [q \in {} |-> <<>>[q]]
      OBVIOUS
    <3> QED
      BY Zenon, <3>1, <3>2 DEF Busy
  <2> QED
    BY Zenon, <2>1, <2>2
<1>6. Types'
  <2>1. Active' = Active /\ AllShards' = AllShards
    BY Zenon, <1>1 DEF AllShards, Active, Shards
  <2>2. \A v \in Pods : \A q \in Busy(v)' : Flies(v, q)'
    BY <1>1, <1>5 DEF Types, Flies
  <2> QED
    BY Zenon, <1>1, <1>2, <1>3, <1>4, <1>5, <2>1, <2>2 DEF Types
<1>7. Reported' /\ Published'
  BY Zenon, <1>1, ReportedStill, PublishedStill
<1>8. Covered'
  BY Zenon, <1>1, <1>5, CoveredAgain
<1>9. ReadOnce'
  <2>1. ~Alone'
    BY <1>1 DEF Crash, Fault, Alone
  <2> QED
    BY Zenon, <2>1 DEF ReadOnce
<1> QED
  BY Zenon, <1>6, <1>7, <1>8, <1>9

-----------------------------------------------------------------------------
(* The theorems *)

\* The invariant holds initially.
LEMMA Initially ==
    ASSUME Init
    PROVE  IInv
<1>1. /\ env \in Environments /\ sess = [s \in Active |-> "idle"]
      /\ ready = {} /\ chan = [s \in Active |-> <<>>] /\ got = [s \in Active |-> {}]
      /\ barriers = <<>> /\ specs = [p \in Partitions |-> <<>>]
      /\ pos = [p \in Partitions |-> 0] /\ com = [p \in Partitions |-> 0]
      /\ up = [w \in Pods |-> w \in env.pods] /\ fly = [w \in Pods |-> <<>>]
      /\ readied = {} /\ fired = {} /\ again = {}
  BY Zenon DEF Init
<1>2. env.pods \subseteq Pods /\ env.pods # {}
  BY Zenon, <1>1, LeaseFacts
<1>3. owner \in [Partitions -> Pods]
  BY Zenon, <1>2 DEF Init, Assignments
<1>4. \A w \in Pods : Busy(w) = {} /\ fly[w] = [p \in Busy(w) |-> fly[w][p]]
  BY <1>1 DEF Busy
<1>5. Types
  <2>1. specs \in [Partitions -> Seq(AllShards)] /\ \A p \in Partitions : Len(specs[p]) = 0
    BY Zenon, <1>1, SeqEmpty
  <2>2. up \in [Pods -> BOOLEAN] /\ \E w \in Pods : up[w]
    <3>1. up = [w \in Pods |-> w \in env.pods]
      BY Zenon, <1>1
    <3>2. up \in [Pods -> BOOLEAN]
      BY ONLY <3>1
    <3>3. \E w \in Pods : up[w]
      BY ONLY <1>2, <3>1, Zenon
    <3> QED
      BY Zenon, <3>2, <3>3
  <2>3. /\ pos \in [Partitions -> Nat] /\ com \in [Partitions -> Nat]
        /\ \A p \in Partitions : pos[p] <= Len(specs[p]) /\ com[p] <= Len(specs[p])
    BY <1>1, <2>1
  <2>4. DOMAIN sess = Active /\ DOMAIN fly = Pods
    BY Zenon, <1>1
  <2> QED
    BY Zenon, <1>1, <1>3, <1>4, <2>1, <2>2, <2>3, <2>4 DEF Types
<1>6. Reported
  BY <1>1, SeqEmpty DEF Reported
<1>7. Covered
  BY <1>1, <1>4 DEF Covered
<1>8. Published
  BY <1>1, SeqEmpty DEF Published
<1>9. ReadOnce
  BY Zenon, <1>1, <1>4 DEF ReadOnce
<1> QED
  BY Zenon, <1>5, <1>6, <1>7, <1>8, <1>9 DEF IInv

\* A stuttering step keeps the invariant.
LEMMA Stutters ==
    ASSUME IInv, UNCHANGED vars
    PROVE  IInv'
<1> USE DEF IInv
<1>1. /\ UNCHANGED <<env, sess, ready, chan, got, barriers, kafkaVars, fly, up, handled, letGo>>
      /\ UNCHANGED <<readied, fired, again>> /\ UNCHANGED <<specs, pos>>
  BY Zenon DEF vars, ctlVars, history, kafkaVars
<1> QED
  BY Zenon, <1>1, TypesStill, ReportedStill, CoveredStill, PublishedStill, ReadOnceStill DEF Types

\* Every step of the controller, the workers and the consumer group keeps what the
\* properties rest on.
THEOREM Invariance == Spec => []IInv
<1>1. Init => IInv
  BY Zenon, Initially
<1>2. IInv /\ [Next]_vars => IInv'
  <2> SUFFICES ASSUME IInv, [Next]_vars
               PROVE  IInv'
    BY Zenon
  <2>1. ASSUME NEW s \in Active, Controller(s)
        PROVE  IInv'
    BY Zenon, <2>1, LeaseKeeps, AwaitCapacityKeeps, PublishKeeps, AwaitReadyKeeps,
       PublishBarrierKeeps,
       DecidedKeeps DEF Controller
  <2>2. ASSUME NEW m \in ready, DispatchReady(m)
        PROVE  IInv'
    BY Zenon, <2>2, DispatchReadyKeeps
  <2>3. ASSUME NEW w \in Pods, NEW p \in Partitions, Consume(w, p)
        PROVE  IInv'
    BY Zenon, <2>3, SkipStaleKeeps, AdmitKeeps, RejectKeeps, CompleteKeeps DEF Consume
  <2>4. ASSUME NEW w \in Pods, NEW p \in Partitions, Workload(w, p)
        PROVE  IInv'
    BY Zenon, <2>4, PrepareKeeps, WorkloadKeeps DEF Workload
  <2>5. CASE Rebalance
    BY Zenon, <2>5, RebalanceKeeps
  <2>6. ASSUME NEW w \in Pods, Crash(w)
        PROVE  IInv'
    BY Zenon, <2>6, CrashKeeps
  <2>7. ASSUME NEW w \in Pods, Poll(w)
        PROVE  IInv'
    BY Zenon, <2>7, Stutters DEF Poll
  <2>8. CASE UNCHANGED vars
    BY Zenon, <2>8, Stutters
  <2> QED
    BY <2>1, <2>2, <2>3, <2>4, <2>5, <2>6, <2>7, <2>8, Zenon DEF Next
<1> QED
  BY <1>1, <1>2, PTL DEF Spec

\* No session starts short of a shard or without its barrier, and none that has a growing
\* fleet to itself has a shard run twice (awaitReady, wait_for_barrier, awaitCapacity).
THEOREM SessionsStartTogether == Spec => []StartTogether
<1>1. IInv => StartTogether
  <2> SUFFICES ASSUME IInv
               PROVE  StartTogether
    BY Zenon
  <2>1. DOMAIN barriers = 1..Len(barriers)
    BY Zenon, SeqLen DEF IInv, Reported
  <2>2. \A n \in DOMAIN barriers : \A i \in Shards(barriers[n]) : <<barriers[n], i>> \in readied
    BY Zenon, <2>1 DEF IInv, Reported
  <2>3. \A shard \in fired : shard[1] \in Range(barriers)
    BY Zenon, <2>1 DEF IInv, Reported, Range
  <2>4. Alone => again = {}
    BY Zenon DEF IInv, ReadOnce
  <2> QED
    BY <2>2, <2>3, <2>4, Zenon DEF StartTogether, Alone
<1> QED
  BY <1>1, Invariance, PTL

\* The committed offset of a partition never passes a spec that is still to be run, through
\* rebalances, crashes, panics and failed commits (complete_workload, SkipStale).
THEOREM NoSpecLost == Spec => []CommitCoversHandled
<1>1. IInv => CommitCoversHandled
  BY Zenon DEF IInv, Covered, CommitCoversHandled, DealtWith
<1> QED
  BY <1>1, Invariance, PTL
=============================================================================
