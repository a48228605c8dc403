---------------------------- MODULE DeviceLadder ----------------------------
(* The ladder of device tiers of one inference worker (deviceLadder.cpp):    *)
(* which tier is active, which are benched after a fault and until when, and *)
(* how long the answer of a probe is believed.  Time is counted in ticks.    *)
(* InferenceWorker is the process that calls these operations.               *)
EXTENDS Naturals, Sequences

CONSTANTS
  Ladder,         \* the names of the tiers, the preferred one first
  Quarantine,     \* ticks a tier is benched after a fault
  ProbeInterval   \* ticks the answer of a probe is believed, 0: not at all

ASSUME LadderAssumption ==
  /\ Ladder \in Seq(STRING) /\ Len(Ladder) > 0
  /\ \A t, u \in 1..Len(Ladder) : Ladder[t] = Ladder[u] => t = u
  /\ Quarantine \in Nat /\ ProbeInterval \in Nat

VARIABLES
  active,     \* the tier in use, 0 before one is selected
  baseline,   \* the first tier that was selected
  reason,     \* the tier degradedReason names, 0 when it is empty
  bench,      \* tier -> what its faults left
  cache,      \* tier -> the last probe and how long it is believed
  present,    \* the names whose devices a probe would find
  seen        \* history: the tiers found since their last fault

ladder == <<active, baseline, reason, bench, cache>>

Tier == 1..Len(Ladder)
First(S) == CHOOSE t \in S : \A u \in S : t <= u
NoProbe == [left |-> 0, ok |-> FALSE]
NoProbes == [t \in Tier |-> NoProbe]

Probe(t) == Ladder[t] \in present
ProbeTierCached(c, t) == IF c[t].left > 0 THEN c[t].ok ELSE Probe(t)

\* The cache after the tiers in T were probed through it.
Probed(c, T) ==
  [t \in Tier |-> IF t \in T /\ c[t].left = 0 /\ ProbeInterval > 0
                    THEN [left |-> ProbeInterval, ok |-> Probe(t)] ELSE c[t]]

Usable(b, t) == ~b[t].fatal /\ b[t].left = 0
Selectable(b, c) == {t \in Tier : Usable(b, t) /\ ProbeTierCached(c, t)}
\* The usable tiers are probed in order, down to the first that answers.
SelectProbed(b, c) ==
  Probed(c, {t \in Tier : Usable(b, t) /\ \A u \in Selectable(b, c) : t <= u})

LadderInit ==
  /\ active = 0 /\ baseline = 0 /\ reason = 0
  /\ bench = [t \in Tier |-> [faulted |-> FALSE, fatal |-> FALSE, left |-> 0]]
  /\ cache = NoProbes
  /\ seen = Tier

\* The first selection; the line logged after it probes every tier, and so
\* does a selection that finds none.
SelectFirst ==
  /\ active' = IF Selectable(bench, cache) = {} THEN 0 ELSE First(Selectable(bench, cache))
  /\ baseline' = active'
  /\ cache' = Probed(cache, Tier)
  /\ UNCHANGED <<reason, bench>>

-----------------------------------------------------------------------------
(* A fault of the active tier benches it and selects anew.  A selection that *)
(* is not lower is taken back, but what it cleared stays cleared.            *)
Benched(fault) ==
  [bench EXCEPT ![active] = [faulted |-> TRUE,
                             fatal |-> bench[active].fatal \/ fault = "removed",
                             left |-> Quarantine]]
\* Faulty: the last probe is still believed.
Remembered == cache

Forgotten == [cache EXCEPT ![active] = NoProbe]
AfterFault(fault) == Selectable(Benched(fault), Forgotten)
FallsTo(S) == S # {} /\ First(S) > active

\* Faulty: a tier that is back from its quarantine is taken as well.
BenchEither(fault) ==
  LET S == {t \in AfterFault(fault) : t >= baseline} IN
  /\ bench' = Benched(fault)
  /\ active' = IF S # {} THEN First(S) ELSE active
  /\ reason' = IF S = {} THEN reason ELSE IF First(S) > baseline THEN active ELSE 0
  /\ seen' = (seen \ {active}) \cup {t \in Tier : Probe(t)}
  /\ UNCHANGED baseline

Bench(fault) ==
  LET S == AfterFault(fault) IN
  /\ bench' = Benched(fault)
  /\ active' = IF FallsTo(S) THEN First(S) ELSE active
  /\ reason' = IF FallsTo(S) THEN active
               ELSE IF S # {} /\ First(S) <= baseline THEN 0 ELSE reason
  /\ seen' = (seen \ {active}) \cup {t \in Tier : Probe(t)}
  /\ UNCHANGED baseline

ReportFault(fault) ==
  /\ Bench(fault)
  /\ cache' = SelectProbed(Benched(fault), Forgotten)

\* Faulty: a tier that never faulted will do.
WaitingOrNew(t) == t < active /\ Usable(bench, t)

\* The first tier above that has faulted, served its time and answers.
Waiting(t) == t < active /\ bench[t].faulted /\ Usable(bench, t)
Eligible == {t \in Tier : Waiting(t) /\ ProbeTierCached(cache, t)}

RecoverEligibleTier ==
  /\ cache' = Probed(cache, {t \in Tier : Waiting(t) /\ \A u \in Eligible : t <= u})
  /\ active' = IF Eligible = {} THEN active ELSE First(Eligible)
  /\ reason' = IF Eligible # {} /\ First(Eligible) <= baseline THEN 0 ELSE reason
  /\ UNCHANGED <<baseline, bench>>

-----------------------------------------------------------------------------
(* Time, and devices that come and go under the worker.                      *)
Tick ==
  /\ \E t \in Tier : bench[t].left > 0 \/ cache[t].left > 0
  /\ bench' = [t \in Tier |-> [bench[t] EXCEPT !.left = IF @ > 0 THEN @ - 1 ELSE 0]]
  /\ cache' = [t \in Tier |-> IF cache[t].left > 1
                                THEN [cache[t] EXCEPT !.left = @ - 1] ELSE NoProbe]
  /\ UNCHANGED <<active, baseline, reason, present, seen>>

Replug(name) ==
  /\ present' = IF name \in present THEN present \ {name} ELSE present \cup {name}
  /\ seen' = seen \cup {t \in Tier : Ladder[t] \in present'}
  /\ UNCHANGED ladder

LadderTypeOK ==
  /\ active \in 0..Len(Ladder) /\ baseline \in 0..Len(Ladder) /\ reason \in 0..Len(Ladder)
  /\ bench \in [Tier -> [faulted : BOOLEAN, fatal : BOOLEAN, left : 0..Quarantine]]
  /\ cache \in [Tier -> [left : 0..ProbeInterval, ok : BOOLEAN]]
  /\ seen \subseteq Tier
=============================================================================
