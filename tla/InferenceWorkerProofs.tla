------------------------ MODULE InferenceWorkerProofs -----------------------
(* What TLAPS proves of InferenceWorker, for every ladder, quarantine and    *)
(* probe interval.                                                           *)
EXTENDS InferenceWorker, WellFoundedInduction, TLAPS

CacheType == [Tier -> [left : 0..ProbeInterval, ok : BOOLEAN]]
BenchType == [Tier -> [faulted : BOOLEAN, fatal : BOOLEAN, left : 0..Quarantine]]

\* A tier that has faulted was active once, so it is not above the baseline.
FaultedBelow == \A t \in Tier : bench[t].faulted => t >= baseline
\* What a probe finds, or is believed to have found, was found.
Believed == \A t \in Tier : Probe(t) \/ cache[t].ok => t \in seen
\* The fallbacks of a request descend, so its attempts stay below its tier.
Descends ==
  /\ pc = "execute" => tries < active
  /\ pc = "fall" => tries < prev /\ prev < active
  /\ pc \in {"recover", "stepdown"} => tries = 0
\* What the client of a stream was sent, by where the request is.
Ordered == \A i, j \in 1..Len(heard) : i < j => heard[i] < heard[j]
Framed ==
  /\ frame # {} => heard # <<>> /\ frame = {LastHeard}
  /\ frame = {} /\ heard # <<>> => LastHeard < prev
Spoken ==
  /\ Ordered
  /\ pc = "execute" => \A i \in 1..Len(heard) : heard[i] < active
  /\ pc = "fall" => \A i \in 1..Len(heard) : heard[i] <= prev
  /\ pc \in {"fall", "idle"} => Framed
\* Before the first execution nobody has said anything; nor has before its end
\* a tier that cannot fault after tokens.
Silence == heard = <<>> /\ frame = {}
Silent ==
  /\ pc \in {"boot", "load", "recover", "stepdown"} => Silence
  /\ ~MidStream /\ pc \in {"execute", "fall"} => Silence
Unstarted ==
  pc = "boot" => active = 0 /\ baseline = 0 /\ reason = 0 /\ \A t \in Tier : ~bench[t].faulted

IInv ==
  /\ TypeOK /\ FaultedBelow /\ HonestlyDegraded /\ Believed
  /\ Descends /\ CpuMeansCpu /\ Spoken /\ Silent /\ Unstarted
  /\ ~MidStream => ResultAgrees

-----------------------------------------------------------------------------
(* The ladder's operators.                                                   *)

\* The constants as the provers need them.
LEMMA Sizes ==
  Len(Ladder) \in Nat \ {0} /\ Tier = 1..Len(Ladder) /\ Quarantine \in Nat /\ ProbeInterval \in Nat
  BY LadderAssumption DEF Tier

\* The loop of select and recoverEligibleTier finds the first such tier.
LEMMA FirstIsLeast ==
  ASSUME NEW S \in SUBSET Tier, S # {}
  PROVE  First(S) \in S /\ \A u \in S : First(S) <= u
<1> DEFINE R == OpToRel(<, Nat)
<1>1. IsWellFoundedOn(R, Nat)
  BY NatLessThanWellFounded
<1>2. ASSUME NEW x \in Nat, NEW y \in Nat, x < y PROVE <<x, y>> \in R
  BY <1>2 DEF OpToRel
<1>3. S \subseteq Nat
  BY Sizes
<1> HIDE DEF R
<1>4. PICK x \in S : \A y \in S : ~ (<<y, x>> \in R)
  BY <1>1, <1>3, WFMin
<1>5. ASSUME NEW y \in S PROVE x <= y
  <2>1. x \in Nat /\ y \in Nat
    BY <1>3
  <2>2. ~(y < x)
    BY <2>1, <1>2, <1>4
  <2> QED BY <2>1, <2>2
<1> QED BY <1>4, <1>5 DEF First

\* Probing tiers keeps the cache well typed, and records what is there.
LEMMA ProbedIsCache ==
  ASSUME NEW c \in CacheType, NEW T
  PROVE  /\ Probed(c, T) \in CacheType
         /\ \A t \in Tier : Probed(c, T)[t].ok => Probe(t) \/ c[t].ok
<1>1. ASSUME NEW t \in Tier
      PROVE  Probed(c, T)[t] = IF t \in T /\ c[t].left = 0 /\ ProbeInterval > 0
                                 THEN [left |-> ProbeInterval, ok |-> Probe(t)] ELSE c[t]
  BY DEF Probed
<1>2. ASSUME NEW t \in Tier PROVE Probe(t) \in BOOLEAN
  BY DEF Probe
<1>3. Probed(c, T) \in CacheType
  BY <1>2, Sizes DEF Probed, CacheType
<1>4. ASSUME NEW t \in Tier, Probed(c, T)[t].ok PROVE Probe(t) \/ c[t].ok
  <2>1. CASE t \in T /\ c[t].left = 0 /\ ProbeInterval > 0
    <3>1. Probed(c, T)[t] = [left |-> ProbeInterval, ok |-> Probe(t)]
      BY <1>1, <2>1
    <3>2. [left |-> ProbeInterval, ok |-> Probe(t)].ok = Probe(t)
      OBVIOUS
    <3> QED BY <1>4, <3>1, <3>2, Zenon
  <2>2. CASE ~(t \in T /\ c[t].left = 0 /\ ProbeInterval > 0)
    BY <1>1, <1>4, <2>2
  <2> QED BY <2>1, <2>2
<1> QED BY <1>3, <1>4

\* A fault benches the active tier, moves only down, and gives a reason
\* exactly when it moves.
LEMMA BenchStep ==
  ASSUME LadderTypeOK, active \in Tier, baseline \in Tier, FaultedBelow, HonestlyDegraded,
         NEW fault, Bench(fault)
  PROVE  /\ active' \in Tier /\ baseline' = baseline /\ reason' \in 0..Len(Ladder)
         /\ bench' \in BenchType /\ seen' \subseteq Tier
         /\ active' >= active
         /\ FaultedBelow' /\ HonestlyDegraded'
<1> DEFINE S == AfterFault(fault)
<1>1. S \in SUBSET Tier
  BY DEF AfterFault, Selectable
<1>2. S # {} => First(S) \in Tier
  BY <1>1, FirstIsLeast
<1>3. Benched(fault) \in BenchType
      /\ \A t \in Tier : t # active => Benched(fault)[t] = bench[t]
  BY Sizes DEF Benched, BenchType, LadderTypeOK
<1>4. /\ bench' = Benched(fault) /\ baseline' = baseline
      /\ active' = IF FallsTo(S) THEN First(S) ELSE active
      /\ reason' = IF FallsTo(S) THEN active
                   ELSE IF S # {} /\ First(S) <= baseline THEN 0 ELSE reason
      /\ seen' = (seen \ {active}) \cup {t \in Tier : Probe(t)}
  BY DEF Bench
<1>5. seen' \subseteq Tier
  BY <1>4 DEF LadderTypeOK
<1> HIDE DEF S
<1>6. /\ active' \in Tier /\ reason' \in 0..Len(Ladder) /\ active' >= active
  BY <1>2, <1>4, Sizes DEF FallsTo, LadderTypeOK
<1>7. FaultedBelow'
  BY <1>3, <1>4, Sizes DEF FaultedBelow, HonestlyDegraded
<1>8. HonestlyDegraded'
  BY <1>2, <1>4, Sizes DEF FallsTo, HonestlyDegraded
<1> QED BY <1>3, <1>4, <1>5, <1>6, <1>7, <1>8

\* A fault also forgets the probe of the tier, so what stays believed of it
\* was seen again.
LEMMA ReportFaultStep ==
  ASSUME LadderTypeOK, active \in Tier, baseline \in Tier, FaultedBelow, HonestlyDegraded, Believed,
         UNCHANGED present, NEW fault, ReportFault(fault)
  PROVE  /\ LadderTypeOK' /\ active' \in Tier /\ baseline' = baseline
         /\ active' >= active
         /\ FaultedBelow' /\ HonestlyDegraded' /\ Believed'
<1>1. Bench(fault)
  BY DEF ReportFault
<1>2. /\ active' \in Tier /\ baseline' = baseline /\ reason' \in 0..Len(Ladder)
      /\ bench' \in BenchType /\ seen' \subseteq Tier
      /\ active' >= active /\ FaultedBelow' /\ HonestlyDegraded'
  BY <1>1, BenchStep
<1>3. Forgotten \in CacheType
      /\ ~Forgotten[active].ok
      /\ \A t \in Tier : t # active => Forgotten[t] = cache[t]
  BY Sizes DEF Forgotten, CacheType, NoProbe, LadderTypeOK
<1>4. cache' \in CacheType /\ \A t \in Tier : cache'[t].ok => Probe(t) \/ Forgotten[t].ok
  BY <1>3, ProbedIsCache DEF ReportFault, SelectProbed
<1>5. seen' = (seen \ {active}) \cup {t \in Tier : Probe(t)}
  BY <1>1 DEF Bench
<1>6. \A t \in Tier : Probe(t)' <=> Probe(t)
  BY DEF Probe
<1>7. Believed'
  BY <1>3, <1>4, <1>5, <1>6 DEF Believed
<1>8. LadderTypeOK'
  <2>1. active' \in 0..Len(Ladder) /\ baseline' \in 0..Len(Ladder)
    BY <1>2, Sizes
  <2>2. reason' \in 0..Len(Ladder) /\ seen' \subseteq Tier
    BY <1>2
  <2>3. bench' \in [Tier -> [faulted : BOOLEAN, fatal : BOOLEAN, left : 0..Quarantine]]
    BY <1>2 DEF BenchType
  <2>4. cache' \in [Tier -> [left : 0..ProbeInterval, ok : BOOLEAN]]
    BY <1>4 DEF CacheType
  <2> QED BY <2>1, <2>2, <2>3, <2>4 DEF LadderTypeOK
<1> QED BY <1>2, <1>7, <1>8

\* A climb is to a tier that has faulted and was found since.
LEMMA RecoverStep ==
  ASSUME LadderTypeOK, active \in Tier, baseline \in Tier, FaultedBelow, HonestlyDegraded, Believed,
         UNCHANGED <<present, seen>>, RecoverEligibleTier
  PROVE  /\ LadderTypeOK' /\ active' \in Tier /\ baseline' = baseline
         /\ active' < active => active' \in seen
         /\ FaultedBelow' /\ HonestlyDegraded' /\ Believed'
<1>1. Eligible \in SUBSET Tier
  BY DEF Eligible
<1>2. ASSUME Eligible # {}
      PROVE  First(Eligible) \in Tier /\ bench[First(Eligible)].faulted /\ First(Eligible) \in seen
  <2>1. First(Eligible) \in Eligible
    BY <1>1, <1>2, FirstIsLeast
  <2> QED BY <2>1 DEF Eligible, Waiting, ProbeTierCached, Believed
<1>3. /\ active' = IF Eligible = {} THEN active ELSE First(Eligible)
      /\ reason' = IF Eligible # {} /\ First(Eligible) <= baseline THEN 0 ELSE reason
      /\ baseline' = baseline /\ bench' = bench
      /\ cache' = Probed(cache, {t \in Tier : Waiting(t) /\ \A u \in Eligible : t <= u})
  BY DEF RecoverEligibleTier
<1>4. cache \in CacheType
  BY DEF LadderTypeOK, CacheType
<1>5. cache' \in CacheType /\ \A t \in Tier : cache'[t].ok => Probe(t) \/ cache[t].ok
  BY <1>3, <1>4, ProbedIsCache
<1>6. active' \in Tier /\ (active' < active => active' \in seen)
  BY <1>2, <1>3, Sizes
<1>7. LadderTypeOK'
  <2>1. active' \in 0..Len(Ladder) /\ baseline' \in 0..Len(Ladder) /\ reason' \in 0..Len(Ladder)
    BY <1>3, <1>6, Sizes DEF LadderTypeOK
  <2>2. bench' \in [Tier -> [faulted : BOOLEAN, fatal : BOOLEAN, left : 0..Quarantine]]
    BY <1>3 DEF LadderTypeOK
  <2>3. cache' \in [Tier -> [left : 0..ProbeInterval, ok : BOOLEAN]]
    BY <1>5 DEF CacheType
  <2>4. seen' \subseteq Tier
    BY DEF LadderTypeOK
  <2> QED BY <2>1, <2>2, <2>3, <2>4 DEF LadderTypeOK
<1>8. FaultedBelow'
  BY <1>3 DEF FaultedBelow
<1>9. HonestlyDegraded'
  BY <1>2, <1>3, Sizes DEF HonestlyDegraded, FaultedBelow, LadderTypeOK
<1>10. \A t \in Tier : Probe(t)' <=> Probe(t)
  BY DEF Probe
<1>11. Believed'
  BY <1>5, <1>10 DEF Believed
<1> QED BY <1>3, <1>6, <1>7, <1>8, <1>9, <1>11

-----------------------------------------------------------------------------
(* What is sent of a stream.                                                 *)

\* An execution below all that were heard adds its tokens after theirs, and
\* its text alone is the result.
LEMMA SaysStep ==
  ASSUME heard \in Seq(Tier), active \in Tier, Ordered, NEW text, Says(text), prev' = active,
         \A i \in 1..Len(heard) : heard[i] < active
  PROVE  /\ heard' \in Seq(Tier) /\ frame' \subseteq Tier
         /\ Ordered' /\ Framed'
         /\ \A i \in 1..Len(heard') : heard'[i] <= active
         /\ Silence => frame' = {heard'[i] : i \in 1..Len(heard')}
<1> USE Sizes
<1>1. CASE text
  <2>1. heard' = Append(heard, active) /\ frame' = {active}
    BY <1>1 DEF Says
  <2>2. /\ heard' \in Seq(Tier) /\ Len(heard') = Len(heard) + 1 /\ heard'[Len(heard')] = active
        /\ \A i \in 1..Len(heard) : heard'[i] = heard[i]
    BY <2>1
  <2>3. Ordered' /\ \A i \in 1..Len(heard') : heard'[i] <= active
    <3>1. \A i \in 1..Len(heard) : heard[i] \in Tier
      OBVIOUS
    <3>2. Len(heard) \in Nat /\ 1..Len(heard') = 1..Len(heard) \cup {Len(heard')}
      BY <2>2
    <3>3. ASSUME NEW i \in 1..Len(heard') PROVE heard'[i] <= active
      <4>1. CASE i = Len(heard')
        BY <2>2, <4>1
      <4>2. CASE i \in 1..Len(heard)
        <5>1. heard'[i] = heard[i] /\ heard[i] < active /\ heard[i] \in Tier
          BY <2>2, <3>1, <4>2
        <5> QED BY <5>1
      <4> QED BY <3>2, <4>1, <4>2
    <3>4. ASSUME NEW i \in 1..Len(heard'), NEW j \in 1..Len(heard'), i < j
          PROVE  heard'[i] < heard'[j]
      <4>1. i \in 1..Len(heard)
        BY <2>2, <3>2, <3>4
      <4>2. CASE j = Len(heard')
        BY <2>2, <4>1, <4>2
      <4>3. CASE j \in 1..Len(heard)
        BY <2>2, <3>4, <4>1, <4>3 DEF Ordered
      <4> QED BY <3>2, <4>2, <4>3
    <3> QED BY <3>3, <3>4 DEF Ordered
  <2>4. heard' # <<>>
    BY <2>2
  <2>5. Silence => frame' = {heard'[i] : i \in 1..Len(heard')}
    <3> SUFFICES ASSUME Silence PROVE frame' = {heard'[i] : i \in 1..Len(heard')}
      OBVIOUS
    <3>1. Len(heard') = 1 /\ heard'[1] = active
      BY <2>2 DEF Silence
    <3> QED BY <2>1, <3>1
  <2> QED BY <2>1, <2>2, <2>3, <2>4, <2>5 DEF Framed, LastHeard
<1>2. CASE ~text
  <2>1. heard' = heard /\ frame' = {}
    BY <1>2 DEF Says
  <2>2. heard # <<>> => Len(heard) \in 1..Len(heard)
    OBVIOUS
  <2>3. Silence => frame' = {heard'[i] : i \in 1..Len(heard')}
    BY <2>1 DEF Silence
  <2>4. Ordered' /\ Framed'
    BY <2>1, <2>2 DEF Ordered, Framed, LastHeard
  <2>5. heard' \in Seq(Tier) /\ frame' \subseteq Tier
    BY <2>1
  <2>6. \A i \in 1..Len(heard) : heard[i] \in Tier
    OBVIOUS
  <2>7. \A i \in 1..Len(heard') : heard'[i] <= active
    BY <2>1, <2>6
  <2> QED BY <2>3, <2>4, <2>5, <2>7
<1> QED BY <1>1, <1>2

\* A step that sends nothing, and goes on to no execution.
LEMMA SpokenKept ==
  ASSUME IInv, UNCHANGED request, active' = active, pc' = pc \/ pc' \in Ended
  PROVE  Spoken' /\ Silent' /\ (~MidStream => ResultAgrees')
BY DEF IInv, request, Spoken, Ordered, Framed, LastHeard, Silent, Silence, ResultAgrees, Ended

\* A step of a request of which nothing was sent so far.
LEMMA SilenceKept ==
  ASSUME Silence'
  PROVE  Spoken' /\ Silent' /\ ResultAgrees'
<1>1. Len(heard') = 0
  BY DEF Silence
<1>2. {heard'[i] : i \in 1..Len(heard')} = {}
  BY <1>1
<1> QED BY <1>1, <1>2 DEF Silence, Spoken, Ordered, Framed, Silent, ResultAgrees

-----------------------------------------------------------------------------
(* The invariant holds at first and is kept by every step.                   *)

LEMMA InitIInv == Init => IInv
<1> SUFFICES ASSUME Init PROVE IInv
  OBVIOUS
<1> USE Sizes DEF Init, LadderInit
<1>1. \A t \in Tier : cache[t].ok = FALSE
  BY DEF NoProbes, NoProbe
<1>2. cache \in [Tier -> [left : 0..ProbeInterval, ok : BOOLEAN]]
  BY DEF NoProbes, NoProbe
<1>3. bench \in [Tier -> [faulted : BOOLEAN, fatal : BOOLEAN, left : 0..Quarantine]]
      /\ \A t \in Tier : bench[t].faulted = FALSE
  OBVIOUS
<1>4. present \subseteq STRING
  BY LadderAssumption DEF Tier
<1>5. TypeOK
  <2>1. LadderTypeOK
    BY <1>2, <1>3 DEF LadderTypeOK
  <2>2. tries \in 0..Attempts /\ prev \in 0..Len(Ladder)
    BY DEF Attempts
  <2>3. heard \in Seq(Tier) /\ frame \subseteq Tier
    OBVIOUS
  <2>4. pc = "boot"
    OBVIOUS
  <2>5. stream \in BOOLEAN /\ armed \in BOOLEAN
    OBVIOUS
  <2> QED BY <2>1, <2>2, <2>3, <2>4, <2>5, <1>4 DEF TypeOK
<1>6. FaultedBelow /\ HonestlyDegraded /\ Believed
  BY <1>1, <1>3 DEF FaultedBelow, HonestlyDegraded, Believed
<1>7. Spoken /\ Silent /\ ResultAgrees
  BY DEF Spoken, Ordered, Silent, Silence, ResultAgrees
<1> QED BY <1>5, <1>6, <1>7 DEF IInv, Descends, CpuMeansCpu, Unstarted

\* What a step that leaves the ladder and its probes alone keeps of them.
LEMMA LadderKept ==
  ASSUME IInv, UNCHANGED <<ladder, present, seen>>
  PROVE  /\ LadderTypeOK' /\ FaultedBelow' /\ HonestlyDegraded' /\ Believed'
         /\ active' = active /\ baseline' = baseline /\ reason' = reason /\ present' = present
  BY DEF IInv, TypeOK, ladder, LadderTypeOK, FaultedBelow, HonestlyDegraded, Believed, Probe

\* Reloading the engine: whatever fails, the cpu tier gets no gpu layers.
LEMMA ReloadStep ==
  ASSUME IInv, ReloadOn
  PROVE  /\ loaded' \in BOOLEAN /\ gpuOk' \in BOOLEAN /\ touched' \in BOOLEAN
         /\ Ladder[active] = "cpu" => ~gpuOk'
  BY DEF IInv, TypeOK, ReloadOn, LoadModel

\* A reload that also refreshes a probe keeps the ladder's part.
LEMMA ProbedKept ==
  ASSUME IInv, NEW T, cache' = Probed(cache, T) \/ cache' = cache,
         UNCHANGED <<active, baseline, reason, bench, present, seen>>
  PROVE  LadderTypeOK' /\ FaultedBelow' /\ HonestlyDegraded' /\ Believed'
<1>1. cache \in CacheType
  BY DEF IInv, TypeOK, LadderTypeOK, CacheType
<1>2. cache' \in CacheType /\ \A t \in Tier : cache'[t].ok => Probe(t) \/ cache[t].ok
  BY <1>1, ProbedIsCache
<1>3. \A t \in Tier : Probe(t)' <=> Probe(t)
  BY DEF Probe
<1>4. Believed'
  BY <1>2, <1>3 DEF IInv, Believed
<1>5. LadderTypeOK'
  <2>1. cache' \in [Tier -> [left : 0..ProbeInterval, ok : BOOLEAN]]
    BY <1>2 DEF CacheType
  <2> QED BY <2>1 DEF IInv, TypeOK, LadderTypeOK
<1> QED BY <1>4, <1>5 DEF IInv, FaultedBelow, HonestlyDegraded

LEMMA NextIInv == IInv /\ [Next]_vars => IInv'
<1> SUFFICES ASSUME IInv, [Next]_vars PROVE IInv'
  OBVIOUS
<1> USE Sizes
<1>0. LadderTypeOK /\ present \subseteq STRING
      /\ (pc \notin {"boot", "exited"} => active \in Tier /\ baseline \in Tier)
      /\ FaultedBelow /\ HonestlyDegraded /\ Believed
  BY DEF IInv, TypeOK
<1>1. CASE Select
  <2> DEFINE S == Selectable(bench, cache)
  <2>1. S \in SUBSET Tier
    BY DEF Selectable
  <2>2. /\ active' \in 0..Len(Ladder) /\ baseline' = active'
        /\ active' = 0 \/ active' \in Tier
    <3>1. CASE S = {}
      BY <1>1, <3>1 DEF Select, SelectFirst
    <3>2. CASE S # {}
      <4>1. First(S) \in Tier
        BY <2>1, <3>2, FirstIsLeast
      <4>2. active' = First(S) /\ baseline' = active'
        BY <1>1, <3>2 DEF Select, SelectFirst
      <4> HIDE DEF S
      <4> QED BY <4>1, <4>2
    <3> QED BY <3>1, <3>2
  <2>3. /\ reason' = reason /\ bench' = bench
        /\ cache' = Probed(cache, Tier) /\ present' = present /\ seen' = seen
        /\ pc' = IF active' = 0 THEN "exited" ELSE "load"
        /\ UNCHANGED <<engine, request, process>> /\ pc = "boot"
    BY <1>1 DEF Select, SelectFirst
  <2>4. cache \in CacheType
    BY <1>0 DEF LadderTypeOK, CacheType
  <2>5. cache' \in CacheType /\ \A t \in Tier : cache'[t].ok => Probe(t) \/ cache[t].ok
    BY <2>3, <2>4, ProbedIsCache
  <2> HIDE DEF S
  <2>6. LadderTypeOK'
    <3>1. cache' \in [Tier -> [left : 0..ProbeInterval, ok : BOOLEAN]]
      BY <2>5 DEF CacheType
    <3>2. active' \in 0..Len(Ladder) /\ baseline' \in 0..Len(Ladder)
      BY <2>2, <2>3
    <3> QED BY <3>1, <3>2, <1>0, <2>3 DEF LadderTypeOK
  <2>7. TypeOK'
    BY <2>2, <2>3, <2>6 DEF IInv, TypeOK, engine, request, process, Ended, Attempts
  <2>8. reason = 0
    BY <2>3 DEF IInv, Unstarted
  <2>9. HonestlyDegraded'
    BY <2>2, <2>3, <2>8 DEF HonestlyDegraded
  <2>10. FaultedBelow'
    BY <2>3 DEF FaultedBelow, IInv, Unstarted
  <2>11. Believed'
    BY <1>0, <2>3, <2>5 DEF Believed, Probe
  <2>12. Silence'
    BY <2>3 DEF IInv, Silent, Silence, request
  <2> QED BY <2>3, <2>7, <2>9, <2>10, <2>11, <2>12, SilenceKept
          DEF IInv, Descends, CpuMeansCpu, Unstarted, request
<1>2. CASE Crash \/ Leave \/ Terminate \/ UNCHANGED vars
  <2>1. /\ UNCHANGED <<ladder, present, seen, engine, request, armed>>
        /\ pc' = pc \/ pc' \in Ended
        /\ reexec' = reexec /\ running' \in {running, FALSE}
    BY <1>2 DEF Crash, Leave, Terminate, vars, process, Ended
  <2>2. pc' \notin {"boot", "exited"} => pc \notin {"boot", "exited"}
    BY <1>2 DEF Crash, Leave, Terminate, vars, process, Ended
  <2>3. /\ LadderTypeOK' /\ FaultedBelow' /\ HonestlyDegraded' /\ Believed'
        /\ active' = active /\ baseline' = baseline /\ reason' = reason /\ present' = present
    BY <2>1, LadderKept
  <2>4. TypeOK'
    BY <2>1, <2>2, <2>3 DEF IInv, TypeOK, engine, request, Ended, Attempts
  <2>5. Spoken' /\ Silent' /\ (~MidStream => ResultAgrees')
    BY <2>1, <2>3, SpokenKept
  <2> QED BY <2>1, <2>3, <2>4, <2>5 DEF IInv, Descends, CpuMeansCpu, Unstarted,
                                       ladder, engine, request, Ended
<1>3. CASE StartEngine
  <2>1. /\ pc = "load" /\ active \in Tier /\ baseline \in Tier /\ Silence
        /\ pc' \in {"idle", "exited"} /\ cache' = NoProbes /\ present' = present
        /\ UNCHANGED <<request, process>>
    BY <1>0, <1>3 DEF StartEngine, IInv, Silent
  <2>2. /\ loaded' \in BOOLEAN /\ gpuOk' \in BOOLEAN /\ touched' \in BOOLEAN
        /\ Ladder[active] # "cuda" => ~gpuOk'
    BY <1>3 DEF StartEngine, LoadModel, IInv, TypeOK
  <2>3. \/ Bench("unavailable") /\ ~gpuOk'
        \/ UNCHANGED <<active, baseline, reason, bench, seen>>
    BY <1>3 DEF StartEngine
  <2>4. /\ active' \in Tier /\ baseline' \in Tier /\ reason' \in 0..Len(Ladder)
        /\ bench' \in BenchType /\ seen' \subseteq Tier
        /\ FaultedBelow' /\ HonestlyDegraded'
    <3>1. CASE Bench("unavailable")
      BY <1>0, <2>1, <3>1, BenchStep
    <3>2. CASE UNCHANGED <<active, baseline, reason, bench, seen>>
      BY <1>0, <2>1, <3>2 DEF LadderTypeOK, BenchType, FaultedBelow, HonestlyDegraded
    <3> QED BY <2>3, <3>1, <3>2
  <2>5. cache' \in [Tier -> [left : 0..ProbeInterval, ok : BOOLEAN]] /\ \A t \in Tier : ~cache'[t].ok
    BY <2>1 DEF NoProbes, NoProbe
  <2>6. \A t \in Tier : Probe(t)' => t \in seen'
    BY <1>0, <2>1, <2>3 DEF Bench, Believed, Probe
  <2>7. Believed'
    BY <2>5, <2>6 DEF Believed
  <2>8. LadderTypeOK'
    <3>1. active' \in 0..Len(Ladder) /\ baseline' \in 0..Len(Ladder)
      BY <2>4
    <3> QED BY <3>1, <2>4, <2>5 DEF LadderTypeOK, BenchType
  <2>9. TypeOK'
    BY <1>0, <2>1, <2>2, <2>4, <2>8 DEF IInv, TypeOK, request, process, Ended, Attempts
  <2>10. CpuMeansCpu'
    BY <2>1, <2>2, <2>3 DEF CpuMeansCpu
  <2>11. Silence'
    BY <2>1 DEF Silence, request
  <2> QED BY <2>1, <2>4, <2>7, <2>9, <2>10, <2>11, SilenceKept DEF IInv, Descends, Unstarted, request
<1>4. CASE Accept
  <2>1. /\ pc = "idle" /\ active \in Tier /\ baseline \in Tier /\ RecoverEligibleTier
        /\ UNCHANGED <<present, seen, engine, process>>
        /\ stream' \in BOOLEAN /\ tries' = 0 /\ prev' = active /\ heard' = <<>> /\ frame' = {}
        /\ pc' = IF active' = active THEN "execute" ELSE "recover"
    BY <1>0, <1>4 DEF Accept
  <2>2. /\ LadderTypeOK' /\ active' \in Tier /\ baseline' = baseline
        /\ FaultedBelow' /\ HonestlyDegraded' /\ Believed'
    BY <1>0, <2>1, RecoverStep
  <2>3. TypeOK'
    BY <1>0, <2>1, <2>2 DEF IInv, TypeOK, engine, process, Attempts
  <2>4. Descends'
    BY <2>1, <2>2 DEF Descends
  <2>5. CpuMeansCpu'
    BY <2>1 DEF IInv, CpuMeansCpu, engine
  <2>6. Silence'
    BY <2>1 DEF Silence
  <2> QED BY <2>1, <2>2, <2>3, <2>4, <2>5, <2>6, SilenceKept DEF IInv, Unstarted
<1>5. CASE Recovered
  <2>1. /\ pc = "recover" /\ pc' = "execute" /\ ReloadOn /\ cache' = Probed(cache, {active})
        /\ UNCHANGED <<active, baseline, reason, bench, present, seen, request, process>>
    BY <1>5 DEF Recovered
  <2>2. LadderTypeOK' /\ FaultedBelow' /\ HonestlyDegraded' /\ Believed'
    BY <2>1, ProbedKept
  <2>3. /\ loaded' \in BOOLEAN /\ gpuOk' \in BOOLEAN /\ touched' \in BOOLEAN
        /\ Ladder[active] = "cpu" => ~gpuOk'
    BY <2>1, ReloadStep
  <2>4. TypeOK'
    BY <1>0, <2>1, <2>2, <2>3 DEF IInv, TypeOK, request, process, Attempts
  <2>5. Silence'
    BY <2>1 DEF IInv, Silent, Silence, request
  <2> QED BY <1>0, <2>1, <2>2, <2>3, <2>4, <2>5, SilenceKept
          DEF IInv, Descends, CpuMeansCpu, Unstarted, request
<1>6. CASE RecoveryFails
  <2>1. /\ pc = "recover" /\ ReloadOn /\ ~loaded' /\ ReportFault("runtime") /\ prev' = active
        /\ pc' = IF active' = active THEN "execute" ELSE "stepdown"
        /\ UNCHANGED <<present, stream, tries, heard, frame, process>>
    BY <1>6 DEF RecoveryFails
  <2>2. /\ LadderTypeOK' /\ active' \in Tier /\ baseline' = baseline
        /\ FaultedBelow' /\ HonestlyDegraded' /\ Believed'
    BY <1>0, <2>1, ReportFaultStep
  <2>3. loaded' \in BOOLEAN /\ gpuOk' \in BOOLEAN /\ touched' \in BOOLEAN
    BY <2>1, ReloadStep
  <2>4. TypeOK'
    BY <1>0, <2>1, <2>2, <2>3 DEF IInv, TypeOK, process, Attempts
  <2>5. Silence'
    BY <2>1 DEF IInv, Silent, Silence
  <2> QED BY <2>1, <2>2, <2>4, <2>5, SilenceKept
          DEF IInv, Descends, CpuMeansCpu, Unstarted
<1>7. CASE StepDown \/ Fall
  <2>1. /\ ChangeTier
        /\ \/ pc = "stepdown" /\ pc' = "execute" /\ tries' = tries /\ frame' = frame
           \/ /\ pc = "fall" /\ tries' = tries + 1
              /\ pc' = IF loaded' /\ tries' < Attempts THEN "execute" ELSE "idle"
              /\ frame' = IF loaded' THEN {} ELSE frame
    BY <1>7 DEF StepDown, Fall
  <2>2. /\ ReloadOn /\ cache' \in {cache, Probed(cache, {active})}
        /\ UNCHANGED <<active, baseline, reason, bench, present, seen, armed, stream, prev, heard>>
        /\ reexec' \in BOOLEAN /\ running' \in BOOLEAN
    BY <2>1 DEF ChangeTier, IInv, TypeOK
  <2>3. LadderTypeOK' /\ FaultedBelow' /\ HonestlyDegraded' /\ Believed'
    BY <2>2, ProbedKept
  <2>4. /\ loaded' \in BOOLEAN /\ gpuOk' \in BOOLEAN /\ touched' \in BOOLEAN
        /\ Ladder[active] = "cpu" => ~gpuOk'
    BY <2>2, ReloadStep
  <2>5. tries' \in 0..Attempts /\ tries' < active
    BY <1>0, <2>1 DEF IInv, TypeOK, Descends, Attempts
  <2>6. TypeOK'
    BY <1>0, <2>1, <2>2, <2>3, <2>4, <2>5 DEF IInv, TypeOK
  <2>7. Spoken' /\ Silent' /\ (~MidStream => ResultAgrees')
    <3>1. CASE Silence
      <4>1. Silence'
        BY <2>1, <2>2, <3>1 DEF Silence
      <4> QED BY <4>1, SilenceKept
    <3>2. CASE ~Silence
      <4>1. pc = "fall" /\ MidStream
        BY <2>1, <3>2 DEF IInv, Silent
      <4>2. heard' = heard /\ heard \in Seq(Tier) /\ prev' = prev /\ active' = active
            /\ prev \in Tier /\ prev < active /\ active \in Tier
            /\ tries < prev
        BY <1>0, <2>2, <4>1 DEF IInv, TypeOK, Descends
      <4>3. Ordered' /\ Framed /\ \A i \in 1..Len(heard') : heard'[i] < active'
        BY <4>1, <4>2 DEF IInv, Spoken, Ordered
      <4>4. pc' = "idle" => ~loaded'
        BY <1>0, <2>1, <4>1, <4>2 DEF IInv, TypeOK, Attempts
      <4>5. pc' \in {"idle", "execute"}
        BY <2>1
      <4>6. ~loaded' => Framed'
        BY <2>1, <4>1, <4>2, <4>3 DEF Framed, LastHeard
      <4> QED BY <4>1, <4>3, <4>4, <4>5, <4>6 DEF Spoken, Silent
    <3> QED BY <3>1, <3>2
  <2> QED BY <2>1, <2>2, <2>3, <2>4, <2>5, <2>6, <2>7
          DEF IInv, Descends, CpuMeansCpu, Unstarted
<1>8. CASE Answer
  <2>1. /\ pc = "execute" /\ pc' = "idle" /\ prev' = active
        /\ UNCHANGED <<ladder, present, seen, engine, stream, tries, process>>
    BY <1>8 DEF Answer
  <2>2. PICK text : Says(text)
    BY <1>8 DEF Answer
  <2>3. /\ LadderTypeOK' /\ FaultedBelow' /\ HonestlyDegraded' /\ Believed'
        /\ active' = active /\ baseline' = baseline /\ reason' = reason /\ present' = present
    BY <2>1, LadderKept
  <2>4. /\ heard' \in Seq(Tier) /\ frame' \subseteq Tier /\ Ordered' /\ Framed'
        /\ Silence => frame' = {heard'[i] : i \in 1..Len(heard')}
    BY <1>0, <2>1, <2>2, SaysStep DEF IInv, TypeOK, Spoken
  <2>5. Spoken' /\ Silent' /\ (~MidStream => ResultAgrees')
    BY <2>1, <2>4 DEF IInv, Spoken, Silent, ResultAgrees
  <2>6. TypeOK'
    BY <1>0, <2>1, <2>3, <2>4 DEF IInv, TypeOK, engine, process, Attempts
  <2> QED BY <2>1, <2>3, <2>5, <2>6
          DEF IInv, Descends, CpuMeansCpu, Unstarted, engine
<1>9. CASE Fault
  <2>1. /\ pc = "execute" /\ prev' = active /\ armed' \in BOOLEAN
        /\ pc' = IF active' = active THEN "idle" ELSE "fall"
        /\ UNCHANGED <<present, engine, stream, tries, running, reexec>>
    BY <1>9 DEF Fault
  <2>2. PICK fault : ReportFault(fault)
    BY <1>9 DEF Fault
  <2>3. /\ LadderTypeOK' /\ active' \in Tier /\ baseline' = baseline /\ active' >= active
        /\ FaultedBelow' /\ HonestlyDegraded' /\ Believed'
    BY <1>0, <2>1, <2>2, ReportFaultStep
  <2>4. PICK text : Says(text) /\ (~MidStream => ~text)
    BY <1>9, Zenon DEF Fault
  <2>5. /\ heard' \in Seq(Tier) /\ frame' \subseteq Tier /\ Ordered' /\ Framed'
        /\ \A i \in 1..Len(heard') : heard'[i] <= active
    BY <1>0, <2>1, <2>4, SaysStep DEF IInv, TypeOK, Spoken
  <2>6. TypeOK'
    BY <1>0, <2>1, <2>3, <2>5 DEF IInv, TypeOK, engine, Attempts
  <2>7. Descends'
    BY <1>0, <2>1, <2>3 DEF IInv, Descends
  <2>8. CpuMeansCpu'
    BY <2>1 DEF IInv, CpuMeansCpu, engine
  <2>9. Spoken' /\ Silent' /\ (~MidStream => ResultAgrees')
    <3>1. Spoken'
      BY <2>1, <2>5 DEF Spoken
    <3>2. CASE MidStream
      BY <2>1, <3>1, <3>2 DEF Silent
    <3>3. CASE ~MidStream
      <4>1. Silence'
        BY <2>1, <2>4, <3>3 DEF IInv, Silent, Silence, Says
      <4> QED BY <4>1, SilenceKept
    <3> QED BY <3>1, <3>2, <3>3
  <2> QED BY <2>1, <2>3, <2>6, <2>7, <2>8, <2>9 DEF IInv, Unstarted
<1>10. CASE Environment
  <2>1. pc' = pc /\ UNCHANGED <<engine, request, process>>
    BY <1>10 DEF Environment
  <2>2. CASE Tick
    <3>1. /\ UNCHANGED <<active, baseline, reason, present, seen>>
          /\ bench' = [t \in Tier |-> [bench[t] EXCEPT !.left = IF @ > 0 THEN @ - 1 ELSE 0]]
          /\ cache' = [t \in Tier |-> IF cache[t].left > 1
                                        THEN [cache[t] EXCEPT !.left = @ - 1] ELSE NoProbe]
      BY <2>2 DEF Tick
    <3>2. bench' \in [Tier -> [faulted : BOOLEAN, fatal : BOOLEAN, left : 0..Quarantine]]
          /\ \A t \in Tier : bench'[t].faulted = bench[t].faulted
      <4>1. ASSUME NEW t \in Tier
            PROVE  /\ bench'[t] = [bench[t] EXCEPT !.left = IF @ > 0 THEN @ - 1 ELSE 0]
                   /\ bench[t] \in [faulted : BOOLEAN, fatal : BOOLEAN, left : 0..Quarantine]
        BY <1>0, <3>1 DEF LadderTypeOK
      <4>2. ASSUME NEW t \in Tier
            PROVE  /\ bench'[t] \in [faulted : BOOLEAN, fatal : BOOLEAN, left : 0..Quarantine]
                   /\ bench'[t].faulted = bench[t].faulted
        <5> DEFINE k == IF bench[t].left > 0 THEN bench[t].left - 1 ELSE 0
        <5>1. bench'[t] = [bench[t] EXCEPT !.left = k]
          BY <4>1, Zenon
        <5>2. bench[t].left \in 0..Quarantine
          BY <4>1
        <5>3. k \in 0..Quarantine
          BY <5>2
        <5> HIDE DEF k
        <5> QED BY <4>1, <5>1, <5>3
      <4> QED BY <3>1, <4>2
    <3>3. cache' \in [Tier -> [left : 0..ProbeInterval, ok : BOOLEAN]]
      <4>1. ASSUME NEW t \in Tier
            PROVE  /\ cache'[t] = IF cache[t].left > 1
                                   THEN [cache[t] EXCEPT !.left = @ - 1] ELSE NoProbe
                   /\ cache[t] \in [left : 0..ProbeInterval, ok : BOOLEAN]
        BY <1>0, <3>1 DEF LadderTypeOK
      <4>2. ASSUME NEW t \in Tier PROVE cache'[t] \in [left : 0..ProbeInterval, ok : BOOLEAN]
        <5>1. cache[t].left \in 0..ProbeInterval
          BY <4>1
        <5>2. CASE cache[t].left > 1
          <6> DEFINE k == cache[t].left - 1
          <6>1. cache'[t] = [cache[t] EXCEPT !.left = k]
            BY <4>1, <5>2, Zenon
          <6>2. k \in 0..ProbeInterval
            BY <5>1, <5>2
          <6> HIDE DEF k
          <6> QED BY <4>1, <6>1, <6>2
        <5>3. CASE ~(cache[t].left > 1)
          <6>1. cache'[t] = [left |-> 0, ok |-> FALSE]
            BY <4>1, <5>3, Zenon DEF NoProbe
          <6> QED BY <6>1
        <5> QED BY <5>2, <5>3
      <4> QED BY <3>1, <4>2
    <3>4. \A t \in Tier : cache'[t].ok => cache[t].ok
      BY <1>0, <3>1, Zenon DEF LadderTypeOK, NoProbe
    <3>5. LadderTypeOK'
      BY <1>0, <3>1, <3>2, <3>3 DEF LadderTypeOK
    <3>6. FaultedBelow' /\ HonestlyDegraded'
      BY <1>0, <3>1, <3>2 DEF FaultedBelow, HonestlyDegraded
    <3>7. Believed'
      BY <1>0, <3>1, <3>4 DEF Believed, Probe
    <3>8. TypeOK'
      BY <2>1, <3>1, <3>5 DEF IInv, TypeOK, engine, request, process, Attempts
    <3>9. Spoken' /\ Silent' /\ (~MidStream => ResultAgrees')
      BY <2>1, <3>1, SpokenKept
    <3> QED BY <2>1, <3>1, <3>2, <3>6, <3>7, <3>8, <3>9
            DEF IInv, Descends, CpuMeansCpu, Unstarted, engine, request
  <2>3. CASE \E name \in Removable : Replug(name)
    <3>1. PICK name \in Removable : Replug(name)
      BY <2>3
    <3>2. /\ present' = IF name \in present THEN present \ {name} ELSE present \cup {name}
          /\ seen' = seen \cup {t \in Tier : Ladder[t] \in present'}
          /\ UNCHANGED <<active, baseline, reason, bench, cache>>
      BY <3>1 DEF Replug, ladder
    <3>3. present' \subseteq STRING /\ seen' \subseteq Tier
      BY <1>0, <3>2, WorkerAssumption DEF LadderTypeOK
    <3>4. LadderTypeOK' /\ FaultedBelow' /\ HonestlyDegraded'
      BY <1>0, <3>2, <3>3 DEF LadderTypeOK, FaultedBelow, HonestlyDegraded
    <3>5. Believed'
      BY <1>0, <3>2 DEF Believed, Probe
    <3>6. TypeOK'
      BY <2>1, <3>2, <3>3, <3>4 DEF IInv, TypeOK, engine, request, process, Attempts
    <3>7. Spoken' /\ Silent' /\ (~MidStream => ResultAgrees')
      BY <2>1, <3>2, SpokenKept
    <3> QED BY <2>1, <3>2, <3>4, <3>5, <3>6, <3>7
            DEF IInv, Descends, CpuMeansCpu, Unstarted, engine, request
  <2> QED BY <1>10, <2>2, <2>3 DEF Environment
<1> QED BY <1>1, <1>2, <1>3, <1>4, <1>5, <1>6, <1>7, <1>8, <1>9, <1>10 DEF Next, Work

-----------------------------------------------------------------------------
(* The theorems.                                                             *)

LEMMA Invariance == Spec => []IInv
  BY InitIInv, NextIInv, PTL DEF Spec

\* Every reachable state of a worker is well typed: a worker that serves has an
\* active tier, also after a fault that leaves it nothing to fall to.
THEOREM TypeCorrect == Spec => []TypeOK
<1>1. IInv => TypeOK
  BY DEF IInv
<1> QED BY <1>1, Invariance, PTL

\* For any ladder, whatever devices appear above the first tier selected:
\* degraded and its reason say what is so.
THEOREM HonestlyDegradedHolds == Spec => []HonestlyDegraded
<1>1. IInv => HonestlyDegraded
  BY DEF IInv
<1> QED BY <1>1, Invariance, PTL

\* Route's loop never runs out of attempts, for a ladder of any length.
THEOREM SettlesAlways == Spec => []Settles
<1>1. IInv => Settles
  <2> SUFFICES ASSUME IInv PROVE Settles
    OBVIOUS
  <2>1. (active \in Tier /\ tries \in Nat) \/ pc \notin {"execute", "fall"}
    BY Sizes DEF IInv, TypeOK, Attempts
  <2>2. pc = "fall" => prev \in Tier
    BY DEF IInv, TypeOK
  <2> QED BY <2>1, <2>2, Sizes DEF IInv, Descends, Settles
<1> QED BY <1>1, Invariance, PTL

\* The cpu tier never has layers on a gpu.
THEOREM CpuMeansCpuHolds == Spec => []CpuMeansCpu
<1>1. IInv => CpuMeansCpu
  BY DEF IInv
<1> QED BY <1>1, Invariance, PTL

\* Also where a backend may fault after tokens: the tiers a client hears
\* descend, and the result of the stream is the text of the last that ran.
THEOREM FrameOfTheLastHolds == Spec => []FrameOfTheLast
<1>1. IInv => FrameOfTheLast
  BY DEF IInv, Spoken, Ordered, Framed, FrameOfTheLast
<1> QED BY <1>1, Invariance, PTL

\* With the engine and the remote tier, which do not, the result of a stream is
\* exactly what its client was sent.
THEOREM ShippedResultAgrees ==
  ASSUME ~MidStream
  PROVE  Spec => []ResultAgrees
<1>1. IInv => ResultAgrees
  BY DEF IInv
<1> QED BY <1>1, Invariance, PTL

\* With any quarantine and any probe interval, a climb is to a tier that was
\* found again after its last fault.
THEOREM ClimbsToTheSeenHolds == Spec => ClimbsToTheSeen
<1>1. IInv /\ [Next]_vars => [active' < active => active' \in seen]_vars
  <2> SUFFICES ASSUME IInv, Next, active' < active PROVE active' \in seen
    BY DEF vars
  <2> USE Sizes
  <2>1. CASE Accept
    BY <2>1, RecoverStep DEF Accept, IInv, TypeOK
  <2>2. ASSUME NEW fault, Bench(fault), active \in Tier, baseline \in Tier PROVE FALSE
    BY <2>2, BenchStep DEF IInv, TypeOK, LadderTypeOK
  <2>3. CASE StartEngine
    BY <2>2, <2>3 DEF StartEngine, IInv, TypeOK, LadderTypeOK
  <2>4. CASE RecoveryFails
    BY <2>2, <2>4 DEF RecoveryFails, ReportFault, IInv, TypeOK
  <2>5. CASE Fault
    BY <2>2, <2>5 DEF Fault, ReportFault, IInv, TypeOK
  <2>6. CASE Select
    <3>1. active = 0
      BY <2>6 DEF Select, IInv, Unstarted
    <3>2. Selectable(bench, cache) \in SUBSET Tier
      BY DEF Selectable
    <3>3. active' = 0 \/ active' \in Tier
      BY <2>6, <3>2, FirstIsLeast DEF Select, SelectFirst
    <3> QED BY <3>1, <3>3
  <2>7. CASE Recovered \/ StepDown \/ Fall \/ Answer \/ Crash \/ Leave \/ Terminate \/ Environment
    <3>1. active \in Nat
      BY DEF IInv, TypeOK, LadderTypeOK
    <3>2. active' = active
      BY <2>7 DEF Recovered, StepDown, Fall, ChangeTier, Answer, Crash, Leave, Terminate,
                  Environment, Tick, Replug, ladder
    <3> QED BY <3>1, <3>2
  <2> QED BY <2>1, <2>3, <2>4, <2>5, <2>6, <2>7 DEF Next, Work
<1> QED BY <1>1, Invariance, PTL DEF Spec, ClimbsToTheSeen
=============================================================================
