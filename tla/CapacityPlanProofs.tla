------------------------- MODULE CapacityPlanProofs -------------------------
(* Theorems about CapacityPlan, for any machine, any configuration and any   *)
(* sequence of starts, demotions and stops.                                  *)
EXTENDS CapacityPlan, FiniteSetTheorems, SequenceTheorems, WellFoundedInduction, TLAPS

-----------------------------------------------------------------------------
(* Arithmetic                                                                *)

LEMMA Quotient ==
  ASSUME NEW a \in Nat, NEW b \in Nat \ {0}
  PROVE  a \div b \in Nat /\ (a \div b) * b <= a
OBVIOUS

LEMMA ProductMonotone ==
  ASSUME NEW a \in Nat, NEW b \in Nat, NEW c \in Nat, a <= b
  PROVE  a * c <= b * c
OBVIOUS

LEMMA Types ==
  /\ \A a, b \in Int : Least(a, b) \in Int /\ Least(a, b) <= a /\ Least(a, b) <= b
  /\ \A a, b \in Nat : Least(a, b) \in Nat
  /\ \A a \in Int : AtLeastZero(a) \in Nat /\ a <= AtLeastZero(a)
  /\ \A a \in Nat : BytesToMb(a) \in Nat /\ BytesToMb(a) * Mb <= a
<1>1. \A a \in Nat : BytesToMb(a) \in Nat /\ BytesToMb(a) * Mb <= a
  BY Quotient, CapacityAssumption DEF BytesToMb
<1>2. QED
  BY <1>1 DEF Least, AtLeastZero

\* The quotient of capacityPlan.cpp, as a number of workers.
LEMMA CapacityBounds ==
  ASSUME NEW freeMb \in Nat, NEW reserve \in Int, NEW budget \in Int, NEW ceiling \in Nat
  PROVE  /\ Capacity(freeMb, reserve, budget, ceiling) \in 0..ceiling
         /\ \A n \in 1..Capacity(freeMb, reserve, budget, ceiling) :
              budget > 0 /\ n * budget + AtLeastZero(reserve) <= freeMb
<1> DEFINE r == AtLeastZero(reserve)
           u == AtLeastZero(freeMb - r)
<1>1. r \in Nat /\ u \in Nat /\ (u > 0 => u = freeMb - r)
  BY DEF AtLeastZero
<1>2. CASE budget <= 0
  BY <1>2 DEF Capacity
<1>3. CASE budget > 0
  <2>1. u \div budget \in Nat /\ (u \div budget) * budget <= u
    BY <1>1, <1>3, Quotient
  <2>2. Capacity(freeMb, reserve, budget, ceiling) = Least(u \div budget, ceiling)
    BY <1>3 DEF Capacity
  <2> DEFINE q == u \div budget
  <2>3. q \in Nat /\ q * budget <= u
    BY <2>1
  <2>4. Capacity(freeMb, reserve, budget, ceiling) = Least(q, ceiling)
    BY <2>2
  <2> HIDE DEF q, r, u
  <2>5. Least(q, ceiling) \in 0..ceiling /\ Least(q, ceiling) <= q
    BY <2>3 DEF Least
  <2>6. ASSUME NEW n \in 1..Least(q, ceiling)
        PROVE  n * budget + r <= freeMb
    <3>1. n \in Nat /\ n <= q /\ n >= 1
      BY <2>3, <2>5
    <3>2. n * budget <= q * budget
      BY <1>3, <2>3, <3>1, ProductMonotone
    <3>3. 1 * budget <= n * budget
      BY <1>3, <3>1, ProductMonotone
    <3> DEFINE m == n * budget
               k == q * budget
    <3>4. m \in Int /\ k \in Int /\ m <= k /\ k <= u /\ budget <= m
      BY <1>3, <2>3, <3>1, <3>2, <3>3
    <3> HIDE DEF m, k
    <3>5. m + r <= freeMb
      BY <1>1, <1>3, <3>4
    <3>6. QED
      BY <3>5 DEF m
  <2>7. QED
    BY <1>3, <2>4, <2>5, <2>6 DEF r
<1>4. QED
  BY <1>2, <1>3

\* What is counted in megabytes holds in bytes.
LEMMA CapacityFits ==
  ASSUME NEW bytes \in Nat, NEW reserve \in Int, NEW budget \in Int, NEW ceiling \in Nat,
         NEW n \in 1..Capacity(BytesToMb(bytes), reserve, budget, ceiling)
  PROVE  budget > 0 /\ Fits(n, budget, reserve, bytes)
<1> DEFINE f == BytesToMb(bytes)
           r == AtLeastZero(reserve)
<1>1. f \in Nat /\ f * Mb <= bytes /\ r \in Nat /\ Mb \in Nat
  BY Types, CapacityAssumption
<1> DEFINE c == Capacity(f, reserve, budget, ceiling)
<1>2. n \in Nat /\ budget > 0 /\ n * budget + r <= f
  <2>1. c \in 0..ceiling /\ \A k \in 1..c : budget > 0 /\ k * budget + r <= f
    BY <1>1, CapacityBounds
  <2>2. n \in 1..c
    OBVIOUS
  <2> HIDE DEF c
  <2>3. QED
    BY <2>1, <2>2
<1> HIDE DEF f, r, c
<1> DEFINE m == n * budget
<1>3. m \in Nat /\ n * budget = m
  BY <1>2
<1> HIDE DEF m
<1>4. m + r \in Nat /\ m + r <= f
  BY <1>1, <1>2, <1>3
<1>5. (m + r) * Mb <= f * Mb
  BY <1>1, <1>4, ProductMonotone
<1>6. m * Mb + r * Mb <= bytes
  <2>1. (m + r) * Mb = m * Mb + r * Mb
    BY <1>1, <1>3
  <2> DEFINE x == (m + r) * Mb
             y == f * Mb
  <2>2. x \in Int /\ y \in Int /\ x <= y /\ y <= bytes
    BY <1>1, <1>3, <1>4, <1>5
  <2> HIDE DEF x, y
  <2>3. x <= bytes
    BY <2>2
  <2>4. QED
    BY <2>1, <2>3 DEF x
<1>7. QED
  BY <1>2, <1>3, <1>6 DEF Fits, r

-----------------------------------------------------------------------------
(* The gpu that is chosen                                                    *)

\* A list of gpus that is not empty has a first one with the most memory.
LEMMA BestIsReported ==
  ASSUME NEW gpus \in Seq([ordinal : Int, free : Nat]), gpus # <<>>
  PROVE  /\ Best(gpus) \in DOMAIN gpus
         /\ \A j \in DOMAIN gpus : gpus[j].free <= gpus[Best(gpus)].free
<1> DEFINE D == 1..Len(gpus)
           Ahead(j, i) == gpus[j].free > gpus[i].free
                            \/ (gpus[j].free = gpus[i].free /\ j < i)
           Above(i) == {j \in D : Ahead(j, i)}
           Ranks == {Above(i) : i \in D}
<1>1. DOMAIN gpus = D /\ 1 \in D /\ D \subseteq Int /\ \A i \in D : gpus[i].free \in Nat
  <2>1. Len(gpus) \in Nat \ {0}
    BY EmptySeq
  <2>2. DOMAIN gpus = D /\ \A i \in D : gpus[i] \in [ordinal : Int, free : Nat]
    BY LenProperties, ElementOfSeq
  <2>3. 1 \in D /\ D \subseteq Int
    BY <2>1
  <2>4. QED
    BY <2>2, <2>3
<1>ahead. \A i, j, k \in D : Ahead(k, j) /\ Ahead(j, i) => Ahead(k, i)
  <2>1. SUFFICES ASSUME NEW i \in D, NEW j \in D, NEW k \in D,
                        Ahead(k, j), Ahead(j, i)
                 PROVE  Ahead(k, i)
    OBVIOUS
  <2>2. /\ i \in Int /\ j \in Int /\ k \in Int
        /\ gpus[i].free \in Int /\ gpus[j].free \in Int /\ gpus[k].free \in Int
    BY <1>1
  <2> DEFINE a == gpus[i].free
             b == gpus[j].free
             c == gpus[k].free
  <2>3. a \in Int /\ b \in Int /\ c \in Int
    BY <2>2
  <2>4. (c > b \/ (c = b /\ k < j)) /\ (b > a \/ (b = a /\ j < i))
    BY <2>1
  <2> HIDE DEF a, b, c, D
  <2>5. c > a \/ (c = a /\ k < i)
    BY <2>2, <2>3, <2>4
  <2>6. QED
    BY <2>5 DEF a, c
<1>self. \A i \in D : ~Ahead(i, i)
  BY <1>1
<1>2. IsFiniteSet(D)
  BY FS_Interval
<1>3. Ranks \subseteq FiniteSubsetsOf(D) /\ Ranks # {}
  <2>1. \A i \in D : Above(i) \subseteq D
    OBVIOUS
  <2>2. \A i \in D : IsFiniteSet(Above(i))
    BY <1>2, <2>1, FS_Subset
  <2>3. QED
    BY <1>1, <2>1, <2>2 DEF FiniteSubsetsOf
<1>4. PICK A \in Ranks : \A B \in Ranks : ~(<<B, A>> \in StrictSubsetOrdering(D))
  BY <1>3, WFMin, FS_StrictSubsetOrderingWellFounded
<1>5. PICK i \in D : A = Above(i)
  BY <1>4
<1>6. Above(i) = {}
  <2>1. SUFFICES ASSUME NEW j \in Above(i) PROVE FALSE
    OBVIOUS
  <2>2. j \in D /\ Above(j) \subseteq Above(i) /\ j \notin Above(j)
    <3>1. j \in D /\ i \in D /\ Ahead(j, i)
      BY <2>1
    <3> HIDE DEF Ahead
    <3>2. QED
      BY <1>self, <1>ahead, <3>1
  <2>3. Above(j) \in Ranks /\ Above(j) \subseteq D /\ Above(i) \subseteq D
    BY <2>2
  <2>4. <<Above(j), Above(i)>> \in StrictSubsetOrdering(D)
    <3>1. Above(i) # Above(j)
      BY <2>1, <2>2
    <3>2. Above(j) \in SUBSET D /\ Above(i) \in SUBSET D
      BY <2>3
    <3> HIDE DEF Above
    <3>3. QED
      BY <2>2, <3>1, <3>2 DEF StrictSubsetOrdering
  <2>5. QED
    BY <1>4, <1>5, <2>3, <2>4
<1>7. \A j \in D : gpus[j].free <= gpus[i].free /\ (gpus[j].free = gpus[i].free => i <= j)
  <2>1. SUFFICES ASSUME NEW j \in D
                 PROVE  gpus[j].free <= gpus[i].free
                          /\ (gpus[j].free = gpus[i].free => i <= j)
    OBVIOUS
  <2>2. ~Ahead(j, i)
    BY <1>6
  <2>3. i \in Int /\ j \in Int /\ gpus[i].free \in Int /\ gpus[j].free \in Int
    BY <1>1
  <2> DEFINE a == gpus[i].free
             b == gpus[j].free
  <2>4. a \in Int /\ b \in Int /\ ~(b > a \/ (b = a /\ j < i))
    BY <2>2, <2>3
  <2> HIDE DEF a, b, D, Above
  <2>5. b <= a /\ (b = a => i <= j)
    BY <2>3, <2>4
  <2>6. QED
    BY <2>5 DEF a, b
<1>8. QED
  BY <1>1, <1>7 DEF Best

-----------------------------------------------------------------------------
(* What a plan promises                                                      *)

SomeReport == Reports \cup {NoReport}
SomeLimits == Limits \cup {NoLimits}

LEMMA Inputs ==
  /\ \A r \in SomeReport :
       /\ r.ram \in Nat
       /\ r.gpus \in Seq([ordinal : Int, free : Nat])
  /\ \A l \in SomeLimits :
       /\ l.maxWorkers \in Int /\ l.gpuReserve \in Int /\ l.workerGpu \in Int
       /\ l.ramReserve \in Int /\ l.workerRam \in Int
       /\ l.maxWorkers \in Count \cup {0}
<1>1. <<>> \in Seq([ordinal : Int, free : Nat])
  BY EmptySeq
<1>2. ASSUME NEW r \in SomeReport
      PROVE  r.ram \in Nat /\ r.gpus \in Seq([ordinal : Int, free : Nat])
  <2>1. CASE r = NoReport
    BY <1>1, <2>1 DEF NoReport
  <2>2. CASE r \in [probeOk : {TRUE}, gpus : Gpus, ram : Ram]
    BY <2>2, CapacityAssumption
  <2>3. CASE r \in [probeOk : {FALSE}, gpus : {<<>>}, ram : Ram]
    BY <1>1, <2>3, CapacityAssumption
  <2>4. QED
    BY <1>2, <2>1, <2>2, <2>3 DEF SomeReport, Reports
<1>3. ASSUME NEW l \in SomeLimits
      PROVE  /\ l.maxWorkers \in Int /\ l.gpuReserve \in Int /\ l.workerGpu \in Int
             /\ l.ramReserve \in Int /\ l.workerRam \in Int
             /\ l.maxWorkers \in Count \cup {0}
  <2>1. CASE l = NoLimits
    BY <2>1 DEF NoLimits
  <2>2. CASE l \in Limits
    BY <2>2, CapacityAssumption DEF Limits
  <2>3. QED
    BY <1>3, <2>1, <2>2 DEF SomeLimits
<1>4. QED
  BY <1>2, <1>3

\* The gpus hold the workers that are planned for them, with one gpu for all.
LEMMA GpuHalf ==
  ASSUME NEW r \in SomeReport, NEW l \in SomeLimits
  PROVE  /\ PlanCapacity(r, l).gpuCapacity \in 0..AtLeastZero(l.maxWorkers)
         /\ PlanCapacity(r, l).gpuIndex \in Nat
         /\ \A n \in 1..PlanCapacity(r, l).gpuCapacity :
              \E i \in DOMAIN r.gpus :
                /\ DeviceOrdinal(r.gpus, i) = PlanCapacity(r, l).gpuIndex
                /\ l.workerGpu > 0
                /\ Fits(n, l.workerGpu, l.gpuReserve, r.gpus[i].free)
<1> DEFINE seen == r.probeOk /\ r.gpus # <<>>
           ceiling == AtLeastZero(l.maxWorkers)
           best == Best(r.gpus)
           g == Capacity(BytesToMb(r.gpus[best].free), l.gpuReserve, l.workerGpu, ceiling)
           p == PlanCapacity(r, l)
<1>1. ceiling \in Nat
  BY Inputs, Types
<1>2. CASE ~seen
  <2>1. p.gpuCapacity = 0 /\ p.gpuIndex = 0
    BY <1>2 DEF PlanCapacity
  <2> HIDE DEF p, ceiling
  <2>2. p.gpuCapacity \in 0..ceiling /\ p.gpuIndex \in Nat /\ 1..p.gpuCapacity = {}
    BY <1>1, <2>1
  <2>3. QED
    BY <2>2 DEF p, ceiling
<1>3. CASE seen
  <2>1. p.gpuCapacity = g /\ p.gpuIndex = DeviceOrdinal(r.gpus, best)
    BY <1>3 DEF PlanCapacity
  <2>2. /\ best \in DOMAIN r.gpus /\ best \in Nat \ {0}
        /\ r.gpus[best].ordinal \in Int /\ r.gpus[best].free \in Nat
    <3>1. r.gpus \in Seq([ordinal : Int, free : Nat])
      BY Inputs
    <3>2. best \in DOMAIN r.gpus
      BY <1>3, <3>1, BestIsReported
    <3>3. DOMAIN r.gpus = 1..Len(r.gpus) /\ Len(r.gpus) \in Nat
      BY <3>1, LenProperties
    <3>4. r.gpus[best] \in [ordinal : Int, free : Nat]
      BY <3>1, <3>2, <3>3, ElementOfSeq
    <3> HIDE DEF best
    <3>5. QED
      BY <3>2, <3>3, <3>4
  <2> HIDE DEF best
  <2>3. DeviceOrdinal(r.gpus, best) \in Nat
    <3> DEFINE o == r.gpus[best].ordinal
    <3>1. DeviceOrdinal(r.gpus, best) = IF o \in 0..1024 THEN o ELSE best - 1
      BY DEF DeviceOrdinal, MaxOrdinal
    <3> HIDE DEF o
    <3>2. QED
      BY <2>2, <3>1
  <2>4. BytesToMb(r.gpus[best].free) \in Nat
    BY <2>2, Types
  <2>5. g \in 0..ceiling
    BY <1>1, <2>4, Inputs, CapacityBounds
  <2>6. \A n \in 1..g : l.workerGpu > 0 /\ Fits(n, l.workerGpu, l.gpuReserve, r.gpus[best].free)
    BY <1>1, <2>2, Inputs, CapacityFits
  <2> HIDE DEF g, ceiling, p
  <2>7. QED
    BY <2>1, <2>2, <2>3, <2>5, <2>6 DEF p, ceiling
<1>4. QED
  BY <1>2, <1>3

\* The host's memory holds the workers that are planned for the cpu, and no
\* more are planned than are configured.
LEMMA CpuHalf ==
  ASSUME NEW r \in SomeReport, NEW l \in SomeLimits
  PROVE  /\ PlanCapacity(r, l).cpuCapacity \in Nat
         /\ PlanCapacity(r, l).gpuCapacity + PlanCapacity(r, l).cpuCapacity
              <= AtLeastZero(l.maxWorkers)
         /\ \A n \in 1..PlanCapacity(r, l).cpuCapacity :
              l.workerRam > 0 /\ Fits(n, l.workerRam, l.ramReserve, r.ram)
<1> DEFINE p == PlanCapacity(r, l)
           ceiling == AtLeastZero(l.maxWorkers)
           left == ceiling - p.gpuCapacity
           c == Capacity(BytesToMb(r.ram), l.ramReserve, l.workerRam, left)
<1>1. ceiling \in Nat /\ p.gpuCapacity \in 0..ceiling /\ BytesToMb(r.ram) \in Nat
  BY Inputs, Types, GpuHalf
<1>2. left \in Nat
  BY <1>1
<1>3. p.cpuCapacity = c
  BY DEF PlanCapacity
<1>4. c \in 0..left
  BY <1>1, <1>2, Inputs, CapacityBounds
<1>5. \A n \in 1..c : l.workerRam > 0 /\ Fits(n, l.workerRam, l.ramReserve, r.ram)
  BY <1>2, Inputs, CapacityFits
<1> HIDE DEF c, p, ceiling
<1>6. p.cpuCapacity \in Nat /\ p.gpuCapacity + p.cpuCapacity <= ceiling
  BY <1>1, <1>3, <1>4
<1>7. QED
  BY <1>3, <1>5, <1>6 DEF p, ceiling

\* How many workers a plan places: at least one where one is configured, and
\* no more than its two halves hold but for that one.
LEMMA Placed ==
  ASSUME NEW p, p.gpuCapacity \in Nat, p.cpuCapacity \in Nat, NEW configured \in Int
  PROVE  /\ PlaceableWorkerCount(p, configured) \in 0..AtLeastZero(configured)
         /\ configured > 0 => PlaceableWorkerCount(p, configured) > 0
         /\ PlaceableWorkerCount(p, configured) > 1 =>
              PlaceableWorkerCount(p, configured) <= p.gpuCapacity + p.cpuCapacity
<1> DEFINE g == p.gpuCapacity
           c == p.cpuCapacity
           n == PlaceableWorkerCount(p, configured)
<1>1. n = IF configured <= 0 THEN 0
          ELSE IF g + c < 1 THEN 1 ELSE IF g + c <= configured THEN g + c ELSE configured
  BY DEF PlaceableWorkerCount, Least
<1>2. g \in Nat /\ c \in Nat
  OBVIOUS
<1> HIDE DEF g, c, n
<1>3. /\ n \in 0..AtLeastZero(configured)
      /\ configured > 0 => n > 0
      /\ n > 1 => n <= g + c
  BY <1>1, <1>2 DEF AtLeastZero
<1>4. QED
  BY <1>3 DEF g, c, n

-----------------------------------------------------------------------------
(* The invariant                                                             *)

Placeable == PlaceableWorkerCount(plan, limits.maxWorkers)

\* The plan is that of this machine and this configuration, and only demotion
\* changes what it assigned; what is published is the number of workers.
IInv ==
  /\ pc \in {"down", "planned", "published", "serving", "up"}
  /\ report \in SomeReport /\ limits \in SomeLimits
  /\ plan = PlanCapacity(report, limits)
  /\ backend \in [0..(Placeable - 1) -> {"cuda", "cpu"}]
  /\ \A w \in Worker : backend[w] = "cuda" => w < plan.gpuCapacity
  /\ DOMAIN env = IF pc = "up" THEN Worker ELSE {}
  /\ file \in Nat \cup {Absent, Torn} /\ fresh \in BOOLEAN
  /\ pc \in {"published", "serving", "up"} /\ fresh /\ file # Torn => file = Placeable
  /\ pool = IF pc \in {"serving", "up"}
            THEN AtLeastZero(ResolveWorkerCount(file, limits.maxWorkers)) ELSE 0

LEMMA PlanFacts ==
  ASSUME IInv
  PROVE  /\ plan.gpuCapacity \in Nat /\ plan.cpuCapacity \in Nat /\ plan.gpuIndex \in Nat
         /\ plan.gpuCapacity + plan.cpuCapacity <= AtLeastZero(limits.maxWorkers)
         /\ limits.maxWorkers \in Int /\ limits.maxWorkers \in Count \cup {0}
         /\ Placeable \in 0..AtLeastZero(limits.maxWorkers)
         /\ limits.maxWorkers > 0 => Placeable > 0
         /\ Placeable > 1 => Placeable <= plan.gpuCapacity + plan.cpuCapacity
         /\ Worker = 0..(Placeable - 1) /\ Cardinality(Worker) = Placeable
<1>1. /\ plan.gpuCapacity \in Nat /\ plan.cpuCapacity \in Nat /\ plan.gpuIndex \in Nat
      /\ plan.gpuCapacity + plan.cpuCapacity <= AtLeastZero(limits.maxWorkers)
      /\ limits.maxWorkers \in Int /\ limits.maxWorkers \in Count \cup {0}
  <2>1. report \in SomeReport /\ limits \in SomeLimits /\ plan = PlanCapacity(report, limits)
    BY DEF IInv
  <2>2. limits.maxWorkers \in Int /\ limits.maxWorkers \in Count \cup {0}
    BY <2>1, Inputs
  <2>3. AtLeastZero(limits.maxWorkers) \in Nat
    BY <2>2, Types
  <2>4. plan.gpuCapacity \in 0..AtLeastZero(limits.maxWorkers) /\ plan.gpuIndex \in Nat
    BY <2>1, GpuHalf
  <2>5. /\ plan.cpuCapacity \in Nat
        /\ plan.gpuCapacity + plan.cpuCapacity <= AtLeastZero(limits.maxWorkers)
    BY <2>1, CpuHalf
  <2>6. plan.gpuCapacity \in Nat
    BY <2>3, <2>4
  <2>7. QED
    BY <2>2, <2>4, <2>5, <2>6
<1>2. /\ Placeable \in 0..AtLeastZero(limits.maxWorkers)
      /\ limits.maxWorkers > 0 => Placeable > 0
      /\ Placeable > 1 => Placeable <= plan.gpuCapacity + plan.cpuCapacity
  BY <1>1, Placed DEF Placeable
<1>3. Worker = 0..(Placeable - 1)
  BY DEF Worker, IInv
<1>4. AtLeastZero(limits.maxWorkers) \in Nat
  BY <1>1, Types
<1> HIDE DEF Placeable
<1>5. Placeable \in Nat
  BY <1>2, <1>4
<1>6. Cardinality(Worker) = Placeable
  <2>1. Cardinality(0..(Placeable - 1)) =
          IF 0 > Placeable - 1 THEN 0 ELSE (Placeable - 1) - 0 + 1
    BY <1>5, FS_Interval
  <2>2. QED
    BY <1>3, <1>5, <2>1
<1>7. QED
  BY <1>1, <1>2, <1>3, <1>6

LEMMA NothingPlanned ==
  /\ NoReport \in SomeReport /\ NoLimits \in SomeLimits
  /\ NoPlan = PlanCapacity(NoReport, NoLimits)
  /\ PlaceableWorkerCount(NoPlan, NoLimits.maxWorkers) = 0
  /\ DOMAIN <<>> = {}
  /\ <<>> \in [0..(0 - 1) -> {"cuda", "cpu"}]
<1>1. NoPlan = PlanCapacity(NoReport, NoLimits)
  <2>1. AtLeastZero(0) = 0 /\ ~NoReport.probeOk
    BY DEF AtLeastZero, NoReport
  <2>2. Capacity(BytesToMb(0), 0, 0, 0 - 0) = 0
    BY DEF Capacity
  <2>3. QED
    BY <2>1, <2>2 DEF PlanCapacity, NoReport, NoLimits, NoPlan
<1>2. PlaceableWorkerCount(NoPlan, NoLimits.maxWorkers) = 0
  BY DEF PlaceableWorkerCount, NoLimits
<1>3. <<>> \in Seq({"cuda", "cpu"}) /\ Len(<<>>) = 0
  BY EmptySeq
<1>4. <<>> \in [1..Len(<<>>) -> {"cuda", "cpu"}] /\ DOMAIN <<>> = 1..Len(<<>>)
  BY <1>3, LenProperties
<1>5. 1..Len(<<>>) = {} /\ 0..(0 - 1) = {}
  BY <1>3
<1>6. QED
  BY <1>1, <1>2, <1>4, <1>5 DEF SomeReport, SomeLimits

LEMMA InitHolds == Init => IInv
<1>1. SUFFICES ASSUME Init PROVE IInv
  OBVIOUS
<1>2. /\ report \in SomeReport /\ limits \in SomeLimits
      /\ plan = PlanCapacity(report, limits)
      /\ backend \in [0..(Placeable - 1) -> {"cuda", "cpu"}]
      /\ Worker = {}
  BY <1>1, NothingPlanned DEF Init, Placeable, Worker
<1>3. DOMAIN env = {}
  BY <1>1, NothingPlanned DEF Init
<1>4. QED
  BY <1>1, <1>2, <1>3 DEF Init, IInv, Absent

LEMMA StepHolds == IInv /\ [Next]_vars => IInv'
<1>1. SUFFICES ASSUME IInv, [Next]_vars PROVE IInv'
  OBVIOUS
<1>2. CASE DiscoverHardware
  <2>1. PICK r \in Reports, l \in Limits :
          /\ report' = r /\ limits' = l
          /\ plan' = PlanCapacity(r, l)
          /\ backend' = AssignWorkers(plan', PlaceableWorkerCount(plan', l.maxWorkers))
    BY <1>2 DEF DiscoverHardware
  <2>2. /\ report' \in SomeReport /\ limits' \in SomeLimits
        /\ plan' = PlanCapacity(report', limits')
    BY <2>1 DEF SomeReport, SomeLimits
  <2>3. backend' = [w \in 0..(Placeable' - 1) |-> IF w < plan'.gpuCapacity THEN "cuda" ELSE "cpu"]
    BY <2>1 DEF AssignWorkers, Placeable
  <2>4. backend' \in [0..(Placeable' - 1) -> {"cuda", "cpu"}]
    BY <2>3
  <2>5. \A w \in Worker' : backend'[w] = "cuda" => w < plan'.gpuCapacity
    BY <2>3 DEF Worker
  <2>6. pc' = "planned" /\ env' = env /\ file' = file /\ fresh' = fresh /\ pool' = pool
          /\ DOMAIN env = {} /\ pool = 0
    BY <1>1, <1>2 DEF DiscoverHardware, IInv
  <2>7. QED
    BY <1>1, <2>2, <2>4, <2>5, <2>6 DEF IInv
<1>3. CASE WriteModelConfig
  <2>1. Placeable' = Placeable /\ Worker' = Worker
    BY <1>3 DEF WriteModelConfig, Placeable, Worker
  <2>2. Cardinality(Worker) = Placeable /\ Placeable \in Nat
    BY <1>1, PlanFacts, Types
  <2>3. /\ file' \in Nat \cup {Absent, Torn} /\ fresh' \in BOOLEAN
        /\ fresh' /\ file' # Torn => file' = Placeable
    BY <1>1, <1>3, <2>2 DEF WriteModelConfig, IInv
  <2>4. /\ pc = "planned" /\ pc' = "published"
        /\ UNCHANGED <<report, limits, plan, backend, env, pool>>
    BY <1>3 DEF WriteModelConfig
  <2>5. QED
    BY <1>1, <2>1, <2>3, <2>4 DEF IInv
<1>4. CASE StartApiServer
  <2>1. Placeable' = Placeable /\ Worker' = Worker
    BY <1>4 DEF StartApiServer, Placeable, Worker
  <2>2. QED
    BY <1>1, <1>4, <2>1 DEF StartApiServer, IInv
<1>5. CASE StartWorkers
  <2>1. Placeable' = Placeable /\ Worker' = Worker
    BY <1>5 DEF StartWorkers, Placeable, Worker
  <2>2. DOMAIN env' = Worker
    BY <1>5 DEF StartWorkers
  <2>3. QED
    BY <1>1, <1>5, <2>1, <2>2 DEF StartWorkers, IInv
<1>6. ASSUME NEW w \in Worker, Reassign(w) PROVE IInv'
  <2>1. Placeable' = Placeable /\ Worker' = Worker
    BY <1>6 DEF Reassign, Placeable, Worker
  <2>2. backend' \in [0..(Placeable - 1) -> {"cuda", "cpu"}]
    BY <1>1, <1>6 DEF Reassign, IInv
  <2>3. \A v \in Worker : backend'[v] = "cuda" => v < plan.gpuCapacity
    BY <1>1, <1>6 DEF Reassign, IInv, Worker
  <2>4. DOMAIN env' = DOMAIN env
    BY <1>6 DEF Reassign
  <2>5. UNCHANGED <<pc, report, limits, plan, file, fresh, pool>>
    BY <1>6 DEF Reassign
  <2>6. QED
    BY <1>1, <2>1, <2>2, <2>3, <2>4, <2>5 DEF IInv
<1>7. CASE Stop
  <2>1. /\ pc' = "down" /\ env' = <<>> /\ backend' = <<>> /\ pool' = 0
        /\ fresh' = FALSE /\ file' = file
        /\ report' = NoReport /\ limits' = NoLimits /\ plan' = NoPlan
    BY <1>7 DEF Stop
  <2>2. /\ report' \in SomeReport /\ limits' \in SomeLimits
        /\ plan' = PlanCapacity(report', limits')
        /\ backend' \in [0..(Placeable' - 1) -> {"cuda", "cpu"}]
        /\ Worker' = {}
    BY <2>1, NothingPlanned DEF Placeable, Worker
  <2>3. DOMAIN env' = {}
    BY <2>1, NothingPlanned
  <2>4. QED
    BY <1>1, <2>1, <2>2, <2>3 DEF IInv
<1>8. CASE UNCHANGED vars
  <2>1. Placeable' = Placeable /\ Worker' = Worker
    BY <1>8 DEF vars, Placeable, Worker
  <2>2. QED
    BY <1>1, <1>8, <2>1 DEF vars, IInv
<1>9. QED
  BY <1>1, <1>2, <1>3, <1>4, <1>5, <1>6, <1>7, <1>8 DEF Next

LEMMA Invariant == Spec => []IInv
<1>1. QED
  BY InitHolds, StepHolds, PTL DEF Spec

-----------------------------------------------------------------------------
(* The theorems                                                              *)

\* The variables have their types, and no more workers are planned than are
\* configured, for every report and every configuration (planCapacity).
THEOREM TypeCorrect == Spec => []TypeOK
<1>1. IInv => TypeOK
  <2>1. SUFFICES ASSUME IInv PROVE TypeOK
    OBVIOUS
  <2>2. backend \in [0..(Cardinality(Worker) - 1) -> {"cuda", "cpu"}]
    BY <2>1, PlanFacts DEF IInv
  <2>3. pool \in Nat
    <3>1. AtLeastZero(ResolveWorkerCount(file, limits.maxWorkers)) \in Nat
      <4>1. file \in Int /\ limits.maxWorkers \in Int
        BY <2>1, PlanFacts DEF IInv, Absent, Torn
      <4>2. ResolveWorkerCount(file, limits.maxWorkers) \in Int
        BY <4>1 DEF ResolveWorkerCount
      <4>3. QED
        BY <4>2, Types
    <3>2. QED
      BY <2>1, <3>1 DEF IInv
  <2>4. QED
    BY <2>1, <2>2, <2>3, PlanFacts DEF IInv, TypeOK, SomeReport, SomeLimits
<1>2. QED
  BY <1>1, Invariant, PTL

\* What is started on a gpu fits into what one gpu has free beyond the
\* reserve, and what is planned for the cpu into the host's memory but for the
\* worker that is started anyway, after any number of demotions
\* (placeableWorkerCount, assignWorkers).
THEOREM WithinBudgetHolds == Spec => []WithinBudget
<1>1. IInv => WithinBudget
  <2>1. SUFFICES ASSUME IInv PROVE WithinBudget
    OBVIOUS
  <2> DEFINE g == plan.gpuCapacity
             n == Placeable
  <2>2. g \in Nat /\ n \in Nat /\ plan.cpuCapacity \in Nat /\ Worker = 0..(n - 1)
          /\ (n > 1 => n <= g + plan.cpuCapacity)
    BY <2>1, PlanFacts, Types
  <2>3. report \in SomeReport /\ limits \in SomeLimits /\ plan = PlanCapacity(report, limits)
    BY <2>1 DEF IInv
  <2>4. ASSUME OnGpu # {}
        PROVE  \E i \in DOMAIN report.gpus :
                 /\ DeviceOrdinal(report.gpus, i) = plan.gpuIndex
                 /\ limits.workerGpu > 0
                 /\ Fits(Cardinality(OnGpu), limits.workerGpu, limits.gpuReserve,
                         report.gpus[i].free)
    <3>1. OnGpu \subseteq 0..(g - 1)
      BY <2>1, <2>2 DEF OnGpu, IInv
    <3>2. IsFiniteSet(0..(g - 1)) /\ Cardinality(0..(g - 1)) <= g
      <4> HIDE DEF g
      <4>1. IsFiniteSet(0..(g - 1))
              /\ Cardinality(0..(g - 1)) = IF 0 > g - 1 THEN 0 ELSE (g - 1) - 0 + 1
        <5>1. g - 1 \in Int
          BY <2>2
        <5>2. QED
          BY <5>1, FS_Interval
      <4>2. QED
        BY <2>2, <4>1
    <3>3. IsFiniteSet(OnGpu) /\ Cardinality(OnGpu) <= Cardinality(0..(g - 1))
      BY <3>1, <3>2, FS_Subset
    <3>4. Cardinality(OnGpu) \in Nat /\ Cardinality(OnGpu) # 0
            /\ Cardinality(0..(g - 1)) \in Nat
      BY <2>4, <3>2, <3>3, FS_CardinalityType, FS_EmptySet
    <3> HIDE DEF g
    <3>5. Cardinality(OnGpu) \in 1..g
      BY <2>2, <3>2, <3>3, <3>4
    <3>6. QED
      BY <2>3, <3>5, GpuHalf DEF g
  <2>5. ASSUME Worker # {0}, PlannedOnCpu # {}
        PROVE  /\ limits.workerRam > 0
               /\ Fits(Cardinality(PlannedOnCpu), limits.workerRam, limits.ramReserve,
                       report.ram)
    <3> HIDE DEF n
    <3>1. PlannedOnCpu = g..(n - 1)
      BY <2>2 DEF PlannedOnCpu
    <3> HIDE DEF g
    <3>2. n > g
      BY <2>2, <2>5, <3>1
    <3>3. n # 1
      BY <2>2, <2>5
    <3>4. Cardinality(PlannedOnCpu) = IF g > n - 1 THEN 0 ELSE (n - 1) - g + 1
      BY <2>2, <3>1, FS_Interval
    <3>5. Cardinality(PlannedOnCpu) \in 1..plan.cpuCapacity
      BY <2>2, <3>2, <3>3, <3>4
    <3>6. QED
      BY <2>3, <3>5, CpuHalf
  <2>6. QED
    BY <2>4, <2>5 DEF WithinBudget
<1>2. QED
  BY <1>1, Invariant, PTL

SaneCounts == \A c \in Count : c <= MaxSaneWorkerCount

\* Where no more than MaxSaneWorkerCount workers can be configured, the pool
\* has an entry for every worker and no other (resolveWorkerCount).
THEOREM PoolIsTheWorkersHolds ==
  SaneCounts => (Spec => []PoolIsTheWorkers)
<1> SUFFICES ASSUME SaneCounts PROVE Spec => []PoolIsTheWorkers
  OBVIOUS
<1>1. ASSUME IInv PROVE PoolIsTheWorkers
  <2> DEFINE most == limits.maxWorkers
             n == Placeable
  <2>1. most \in Int /\ most <= 1024 /\ n \in 0..AtLeastZero(most) /\ (most > 0 => n > 0)
          /\ Cardinality(Worker) = n
    BY <1>1, PlanFacts DEF SaneCounts, MaxSaneWorkerCount
  <2>2. file \in Int
    BY <1>1 DEF IInv, Absent, Torn
  <2>3. /\ pc \in {"serving", "up"} => pool = AtLeastZero(ResolveWorkerCount(file, most))
        /\ pc \in {"serving", "up"} /\ fresh /\ file # Torn => file = n
    BY <1>1 DEF IInv
  <2> HIDE DEF most, n
  <2>4. AtLeastZero(ResolveWorkerCount(file, most)) <= AtLeastZero(most)
    BY <2>1, <2>2 DEF AtLeastZero, ResolveWorkerCount, Least, MaxSaneWorkerCount
  <2>5. AtLeastZero(ResolveWorkerCount(n, most)) = n
    BY <2>1 DEF AtLeastZero, ResolveWorkerCount, Least, MaxSaneWorkerCount
  <2>6. QED
    BY <2>1, <2>3, <2>4, <2>5 DEF PoolIsTheWorkers, most
<1>2. QED
  BY <1>1, Invariant, PTL

-----------------------------------------------------------------------------
(* The plan is the best one                                                  *)

\* The quotient is the greatest such number.
LEMMA QuotientIsGreatest ==
  ASSUME NEW a \in Nat, NEW b \in Nat \ {0}, NEW x \in Nat, x * b <= a
  PROVE  x <= a \div b
<1> DEFINE q == a \div b
<1>1. q \in Nat /\ a < (q + 1) * b
  OBVIOUS
<1>2. SUFFICES ASSUME x > q PROVE FALSE
  BY <1>1
<1> HIDE DEF q
<1>3. q + 1 \in Nat /\ q + 1 <= x
  BY <1>1, <1>2
<1>4. (q + 1) * b <= x * b
  BY <1>3, ProductMonotone
<1> DEFINE y == (q + 1) * b
           z == x * b
<1>5. y \in Int /\ z \in Int /\ a < y /\ y <= z /\ z <= a
  BY <1>1, <1>3, <1>4
<1> HIDE DEF y, z
<1>6. QED
  BY <1>5

\* A number of workers that fits, in bytes, is within the capacity.
LEMMA CapacityIsGreatest ==
  ASSUME NEW bytes \in Nat, NEW reserve \in Int, NEW budget \in Int, NEW ceiling \in Nat,
         NEW n \in 1..ceiling, budget > 0, Fits(n, budget, reserve, bytes)
  PROVE  n <= Capacity(BytesToMb(bytes), reserve, budget, ceiling)
<1> DEFINE r == AtLeastZero(reserve)
           f == BytesToMb(bytes)
           m == n * budget
           u == AtLeastZero(f - r)
<1>1. r \in Nat /\ f \in Nat /\ n \in Nat /\ Mb \in Nat \ {0}
  BY Types, CapacityAssumption
<1>2. m \in Nat
  BY <1>1
<1>3. m * Mb + r * Mb <= bytes
  BY DEF Fits
<1> HIDE DEF r, m
<1>4. (m + r) * Mb <= bytes
  <2>1. (m + r) * Mb = m * Mb + r * Mb
    BY <1>1, <1>2
  <2>2. QED
    BY <1>3, <2>1
<1>5. m + r <= f
  <2>1. m + r \in Nat
    BY <1>1, <1>2
  <2>2. QED
    BY <1>1, <1>4, <2>1, QuotientIsGreatest DEF BytesToMb
<1> HIDE DEF f
<1>6. u \in Nat /\ m <= u
  BY <1>1, <1>2, <1>5 DEF AtLeastZero
<1> HIDE DEF u
<1>7. n <= u \div budget
  BY <1>1, <1>6, QuotientIsGreatest DEF m
<1>8. Capacity(f, reserve, budget, ceiling) = Least(u \div budget, ceiling)
  BY DEF Capacity, u, r
<1> DEFINE q == u \div budget
<1> HIDE DEF q
<1>9. n <= Least(q, ceiling)
  BY <1>7 DEF Least, q
<1>10. QED
  BY <1>8, <1>9 DEF q, f

LEMMA CapacityIsLeast ==
  ASSUME NEW freeMb \in Nat, NEW reserve \in Int, NEW budget \in Int
  PROVE  \E q \in Nat : \A ceiling \in Nat :
           Capacity(freeMb, reserve, budget, ceiling) = Least(q, ceiling)
<1> DEFINE u == AtLeastZero(freeMb - AtLeastZero(reserve))
<1>1. u \in Nat
  BY Types
<1>2. CASE budget <= 0
  <2>1. \A ceiling \in Nat : Capacity(freeMb, reserve, budget, ceiling) = Least(0, ceiling)
    BY <1>2 DEF Capacity, Least
  <2>2. QED
    BY <2>1
<1>3. CASE budget > 0
  <2>1. \A ceiling \in Nat :
          Capacity(freeMb, reserve, budget, ceiling) = Least(u \div budget, ceiling)
    BY <1>3 DEF Capacity
  <2>2. u \div budget \in Nat
    BY <1>1, <1>3, Quotient
  <2>3. QED
    BY <2>1, <2>2
<1>4. QED
  BY <1>2, <1>3

\* A set of numbers from 1 that is known by its greatest.
LEMMA Interval ==
  ASSUME NEW n \in Nat
  PROVE  Cardinality(1..n) = n
<1>1. Cardinality(1..n) = IF 1 > n THEN 0 ELSE n - 1 + 1
  BY FS_Interval
<1>2. QED
  BY <1>1

LEMMA GpuExact == ASSUME IInv PROVE GpuFit = 1..plan.gpuCapacity
<1> DEFINE g == plan.gpuCapacity
           most == limits.maxWorkers
<1>1. /\ report \in SomeReport /\ limits \in SomeLimits
      /\ plan = PlanCapacity(report, limits)
      /\ g \in Nat /\ g \in 0..AtLeastZero(most) /\ most \in Int
      /\ limits.gpuReserve \in Int /\ limits.workerGpu \in Int
      /\ report.gpus \in Seq([ordinal : Int, free : Nat])
  BY PlanFacts, GpuHalf, Inputs DEF IInv
<1>2. ASSUME NEW n \in 1..g PROVE n \in GpuFit
  <2>1. \E i \in DOMAIN report.gpus :
          limits.workerGpu > 0
            /\ Fits(n, limits.workerGpu, limits.gpuReserve, report.gpus[i].free)
    BY <1>1, GpuHalf
  <2>2. n \in 1..most
    <3> HIDE DEF g, most
    <3>1. QED
      BY <1>1 DEF AtLeastZero
  <2>3. QED
    BY <2>1, <2>2 DEF GpuFit
<1>3. ASSUME NEW n \in GpuFit PROVE n \in 1..g
  <2>1. PICK i \in DOMAIN report.gpus :
          limits.workerGpu > 0
            /\ Fits(n, limits.workerGpu, limits.gpuReserve, report.gpus[i].free)
    BY <1>3 DEF GpuFit
  <2>2. n \in 1..most
    BY <1>3 DEF GpuFit
  <2> DEFINE best == Best(report.gpus)
             a == report.gpus[i].free
             b == report.gpus[best].free
             x == n * limits.workerGpu * Mb + AtLeastZero(limits.gpuReserve) * Mb
             ceiling == AtLeastZero(most)
  <2>3. report.gpus # <<>> /\ report.probeOk
    <3>1. DOMAIN <<>> = {}
      BY NothingPlanned
    <3>2. report.gpus # <<>>
      BY <2>1, <3>1
    <3>3. CASE report = NoReport
      BY <3>2, <3>3 DEF NoReport
    <3>4. CASE report \in [probeOk : {FALSE}, gpus : {<<>>}, ram : Ram]
      BY <3>2, <3>4
    <3>5. CASE report \in [probeOk : {TRUE}, gpus : Gpus, ram : Ram]
      BY <3>2, <3>5
    <3>6. QED
      BY <1>1, <3>3, <3>4, <3>5 DEF SomeReport, Reports
  <2>4. best \in DOMAIN report.gpus /\ a <= b
    BY <1>1, <2>1, <2>3, BestIsReported
  <2>5. a \in Nat /\ b \in Nat
    <3>1. DOMAIN report.gpus = 1..Len(report.gpus)
      BY <1>1, LenProperties
    <3>2. report.gpus[i] \in [ordinal : Int, free : Nat]
      BY <1>1, <2>1, <3>1, ElementOfSeq
    <3>3. report.gpus[best] \in [ordinal : Int, free : Nat]
      BY <1>1, <2>4, <3>1, ElementOfSeq
    <3>4. QED
      BY <3>2, <3>3
  <2>6. x <= a
    BY <2>1 DEF Fits
  <2>7. x \in Int
    <3> DEFINE r == AtLeastZero(limits.gpuReserve)
               w == limits.workerGpu
    <3>0. Mb \in Int
      BY CapacityAssumption
    <3>1. r \in Int /\ n \in Int /\ w \in Int
      <4>1. r \in Int
        <5>1. limits.gpuReserve \in Int
          BY <1>1
        <5>2. QED
          BY <5>1 DEF AtLeastZero
      <4>2. n \in Int
        BY <2>2
      <4>3. QED
        BY <1>1, <4>1, <4>2
    <3> HIDE DEF r, w
    <3>2. n * w * Mb + r * Mb \in Int
      <4>1. n * w \in Int
        BY <3>1
      <4>2. (n * w) * Mb \in Int /\ r * Mb \in Int
        BY <3>0, <3>1, <4>1
      <4>3. QED
        BY <4>2
    <3>3. QED
      BY <3>2 DEF r, w
  <2>8. x <= b
    <3> HIDE DEF x, a, b
    <3>1. QED
      BY <2>4, <2>5, <2>6, <2>7
  <2>9. Fits(n, limits.workerGpu, limits.gpuReserve, b)
    BY <2>8 DEF Fits
  <2>10. ceiling \in Nat /\ n \in 1..ceiling
    <3> HIDE DEF most
    <3>1. QED
      BY <1>1, <2>2 DEF AtLeastZero
  <2>11. g = Capacity(BytesToMb(b), limits.gpuReserve, limits.workerGpu, ceiling)
    BY <1>1, <2>3 DEF PlanCapacity
  <2> HIDE DEF b, ceiling, g, most
  <2>12. n <= g
    BY <1>1, <2>1, <2>5, <2>9, <2>10, <2>11, CapacityIsGreatest
  <2>13. QED
    BY <1>1, <2>10, <2>12
<1>4. QED
  BY <1>2, <1>3

LEMMA RamExact ==
  ASSUME IInv
  PROVE  RamFit = 1..Capacity(BytesToMb(report.ram), limits.ramReserve, limits.workerRam,
                              AtLeastZero(limits.maxWorkers))
<1> DEFINE most == limits.maxWorkers
           ceiling == AtLeastZero(most)
           c == Capacity(BytesToMb(report.ram), limits.ramReserve, limits.workerRam, ceiling)
<1>1. /\ most \in Int /\ limits.ramReserve \in Int /\ limits.workerRam \in Int
      /\ report.ram \in Nat /\ ceiling \in Nat /\ BytesToMb(report.ram) \in Nat
  BY Inputs, Types DEF IInv
<1>2. c \in 0..ceiling
  BY <1>1, CapacityBounds
<1>3. 1..most = 1..ceiling
  <2> HIDE DEF most
  <2>1. QED
    BY <1>1 DEF AtLeastZero
<1>4. ASSUME NEW n \in 1..c PROVE n \in RamFit
  <2>1. limits.workerRam > 0 /\ Fits(n, limits.workerRam, limits.ramReserve, report.ram)
    BY <1>1, CapacityFits
  <2> HIDE DEF c, ceiling
  <2>2. n \in 1..ceiling
    BY <1>1, <1>2
  <2>3. QED
    BY <1>3, <2>1, <2>2 DEF RamFit
<1>5. ASSUME NEW n \in RamFit PROVE n \in 1..c
  <2>1. n \in 1..most /\ limits.workerRam > 0
          /\ Fits(n, limits.workerRam, limits.ramReserve, report.ram)
    BY <1>5 DEF RamFit
  <2>2. n \in 1..ceiling
    BY <1>3, <2>1
  <2>3. n <= c
    BY <1>1, <2>1, <2>2, CapacityIsGreatest
  <2> HIDE DEF c, ceiling
  <2>4. QED
    BY <1>1, <1>2, <2>2, <2>3
<1>6. QED
  BY <1>4, <1>5

\* As many workers are planned as fit, counted one by one and in bytes, and
\* never none where one is configured (planCapacity, placeableWorkerCount).
THEOREM PlacesWhatFitsHolds == Spec => []PlacesWhatFits
<1>1. ASSUME IInv PROVE PlacesWhatFits
  <2> DEFINE most == limits.maxWorkers
             ceiling == AtLeastZero(most)
             g == plan.gpuCapacity
             c == plan.cpuCapacity
             f == BytesToMb(report.ram)
  <2>1. /\ most \in Int /\ ceiling \in Nat /\ g \in 0..ceiling /\ f \in Nat
        /\ limits.ramReserve \in Int /\ limits.workerRam \in Int
        /\ plan = PlanCapacity(report, limits)
    BY <1>1, PlanFacts, GpuHalf, Inputs, Types DEF IInv
  <2>2. PICK q \in Nat : \A z \in Nat :
          Capacity(f, limits.ramReserve, limits.workerRam, z) = Least(q, z)
    BY <2>1, CapacityIsLeast
  <2>3. ceiling - g \in Nat /\ Least(q, ceiling) \in Nat
    <3> HIDE DEF ceiling, g
    <3>1. QED
      BY <2>1 DEF Least
  <2>4. c = Least(q, ceiling - g)
    <3>1. c = Capacity(f, limits.ramReserve, limits.workerRam, ceiling - g)
      BY <2>1 DEF PlanCapacity
    <3>2. QED
      BY <2>2, <2>3, <3>1
  <2>5. RamFit = 1..Least(q, ceiling) /\ GpuFit = 1..g
    BY <1>1, <2>1, <2>2, RamExact, GpuExact
  <2>6. Cardinality(RamFit) = Least(q, ceiling) /\ Cardinality(GpuFit) = g
    BY <2>1, <2>3, <2>5, Interval
  <2>7. Cardinality(Worker) =
          IF most <= 0 THEN 0 ELSE IF g + c < 1 THEN 1 ELSE Least(g + c, most)
    BY <1>1, PlanFacts DEF Placeable, PlaceableWorkerCount
  <2> HIDE DEF g, c, most
  <2> DEFINE k == Least(q, ceiling)
  <2>8. Cardinality(Worker) =
          IF most <= 0 THEN 0 ELSE IF g + k = 0 THEN 1 ELSE Least(g + k, most)
    BY <2>1, <2>4, <2>7 DEF Least, AtLeastZero
  <2>9. QED
    BY <2>6, <2>8 DEF PlacesWhatFits, most
<1>2. QED
  BY <1>1, Invariant, PTL

-----------------------------------------------------------------------------
(* The ladder of a worker                                                    *)

\* Induction, on a set of numbers and not on a predicate.
LEMMA FromZeroUp ==
  ASSUME NEW N \in Nat, NEW S, 0 \in S, \A n \in 0..(N - 1) : n \in S => n + 1 \in S
  PROVE  0..N \subseteq S
<1> DEFINE Missing == (0..N) \ S
           Below == {0..n : n \in Missing}
<1>1. SUFFICES ASSUME Missing # {} PROVE FALSE
  OBVIOUS
<1>2. Below # {} /\ Below \subseteq FiniteSubsetsOf(Nat)
  <2>1. ASSUME NEW n \in Missing PROVE 0..n \in FiniteSubsetsOf(Nat)
    BY FS_Interval DEF FiniteSubsetsOf
  <2>2. QED
    BY <1>1, <2>1
<1>3. PICK A \in Below : \A B \in Below : <<B, A>> \notin StrictSubsetOrdering(Nat)
  BY <1>2, WFMin, FS_StrictSubsetOrderingWellFounded
<1>4. PICK n \in Missing : A = 0..n
  BY <1>3
<1>5. n \in 1..N /\ n - 1 \in 0..(N - 1)
  BY <1>4
<1>6. n - 1 \in Missing
  <2>1. (n - 1) + 1 = n /\ n \notin S
    BY <1>4, <1>5
  <2>2. QED
    BY <1>5, <2>1
<1>7. <<0..(n - 1), 0..n>> \in StrictSubsetOrdering(Nat)
  <2>1. 0..(n - 1) \subseteq 0..n /\ n \notin 0..(n - 1) /\ n \in 0..n
    BY <1>5
  <2>2. 0..(n - 1) \in SUBSET Nat /\ 0..n \in SUBSET Nat
    BY <1>5
  <2>3. QED
    BY <2>1, <2>2 DEF StrictSubsetOrdering
<1>8. QED
  BY <1>3, <1>4, <1>6, <1>7

LEMMA AppendedTier ==
  ASSUME NEW Name, NEW s \in Seq(Name), NEW t \in Name
  PROVE  Append(s, t) \in Seq(Name) /\ Tiers(Append(s, t)) = Tiers(s) \cup {t}
<1> DEFINE a == Append(s, t)
<1>1. Len(s) \in Nat /\ DOMAIN s = 1..Len(s)
  BY LenProperties
<1>a. /\ a \in Seq(Name) /\ Len(a) = Len(s) + 1
      /\ \A i \in 1..Len(s) : a[i] = s[i]
      /\ a[Len(s) + 1] = t
  BY AppendProperties
<1>d. DOMAIN a = 1..(Len(s) + 1)
  <2> HIDE DEF a
  <2>1. QED
    BY <1>a, LenProperties
<1>2. 1..(Len(s) + 1) = 1..Len(s) \cup {Len(s) + 1}
  BY <1>1
<1> HIDE DEF a
<1>3. Tiers(a) = Tiers(s) \cup {t}
  <2>1. Tiers(a) = {a[i] : i \in 1..Len(s)} \cup {a[Len(s) + 1]}
    BY <1>d, <1>2 DEF Tiers
  <2>2. Tiers(s) = {a[i] : i \in 1..Len(s)}
    BY <1>1, <1>a DEF Tiers
  <2>3. QED
    BY <1>a, <2>1, <2>2
<1>4. QED
  BY <1>a, <1>3 DEF a

\* The loop keeps the tiers that are not dropped and no other.
LEMMA KeptTiers ==
  ASSUME NEW Name, NEW configured \in Seq(Name), NEW dropped
  PROVE  /\ Kept(configured, dropped) \in Seq(Name)
         /\ Tiers(Kept(configured, dropped)) = Tiers(configured) \ dropped
<1> DEFINE N == Len(configured)
           Turn(f, n) == IF n = 0 THEN <<>>
                         ELSE IF configured[n] \in dropped THEN f[n - 1]
                         ELSE Append(f[n - 1], configured[n])
           Loop(f, m) == f = [n \in 0..m |-> Turn(f, n)]
           kept == CHOOSE f : Loop(f, N)
           Seen(n) == {configured[i] : i \in 1..n} \ dropped
<1>1. N \in Nat /\ DOMAIN configured = 1..N /\ \A n \in 1..N : configured[n] \in Name
  BY LenProperties, ElementOfSeq
<1>2. Loop(kept, N)
  <2> DEFINE S == {m \in 0..N : \E f : Loop(f, m)}
  <2>1. 0 \in S
    <3>1. Loop([n \in 0..0 |-> <<>>], 0)
      BY DEF Loop
    <3> HIDE DEF Loop
    <3>2. QED
      BY <1>1, <3>1
  <2>2. ASSUME NEW m \in 0..(N - 1), m \in S PROVE m + 1 \in S
    <3>1. PICK f : Loop(f, m)
      BY <2>2
    <3> DEFINE g == [n \in 0..(m + 1) |-> IF n <= m THEN f[n] ELSE Turn(f, m + 1)]
    <3>2. ASSUME NEW n \in 0..(m + 1) PROVE g[n] = Turn(g, n)
      <4>1. CASE n = 0
        <5>1. f[0] = Turn(f, 0)
          BY <1>1, <3>1
        <5>2. g[0] = f[0]
          BY <1>1, <4>1
        <5> HIDE DEF g
        <5>3. QED
          BY <4>1, <5>1, <5>2
      <4>2. CASE n \in 1..m
        <5>1. g[n] = f[n] /\ g[n - 1] = f[n - 1] /\ n # 0
          BY <1>1, <4>2
        <5>2. f[n] = Turn(f, n)
          <6>1. n \in 0..m
            BY <4>2
          <6> HIDE DEF Turn
          <6>2. QED
            BY <3>1, <6>1
        <5> HIDE DEF g
        <5>3. QED
          BY <5>1, <5>2
      <4>3. CASE n = m + 1
        <5>1. g[n] = Turn(f, n) /\ g[n - 1] = f[n - 1] /\ n # 0
          BY <1>1, <4>3
        <5> HIDE DEF g
        <5>2. QED
          BY <5>1
      <4>4. QED
        BY <1>1, <4>1, <4>2, <4>3
    <3>3. Loop(g, m + 1)
      <4>1. g = [n \in 0..(m + 1) |-> g[n]]
        OBVIOUS
      <4> HIDE DEF g, Turn
      <4>2. QED
        BY <3>2, <4>1
    <3> HIDE DEF Loop
    <3>4. QED
      BY <1>1, <3>3
  <2> HIDE DEF Loop
  <2>3. 0..N \subseteq S
    <3> HIDE DEF S
    <3>1. QED
      BY <1>1, <2>1, <2>2, FromZeroUp
  <2>4. \E f : Loop(f, N)
    BY <1>1, <2>3
  <2>5. QED
    BY <2>4
<1>3. \A n \in 0..N : kept[n] = Turn(kept, n)
  <2> HIDE DEF Turn, kept
  <2>1. QED
    BY <1>2
<1>4. \A n \in 0..N : kept[n] \in Seq(Name) /\ Tiers(kept[n]) = Seen(n)
  <2> DEFINE Right == {n \in 0..N : kept[n] \in Seq(Name) /\ Tiers(kept[n]) = Seen(n)}
  <2>1. 0 \in Right
    <3>1. kept[0] = <<>>
      <4> HIDE DEF kept
      <4>1. QED
        BY <1>1, <1>3
    <3>2. <<>> \in Seq(Name) /\ Tiers(<<>>) = {} /\ Seen(0) = {}
      BY EmptySeq DEF Tiers
    <3>3. 0 \in 0..N
      BY <1>1
    <3> HIDE DEF kept, Seen
    <3>4. QED
      BY <3>1, <3>2, <3>3, Zenon
  <2>2. ASSUME NEW n \in 0..(N - 1), n \in Right PROVE n + 1 \in Right
    <3> DEFINE k == kept[n]
               t == configured[n + 1]
    <3>1. /\ n + 1 \in 1..N /\ n \in Nat /\ t \in Name
          /\ k \in Seq(Name) /\ Tiers(k) = Seen(n)
      <4> HIDE DEF kept, Seen
      <4>1. n + 1 \in 1..N /\ n \in Nat /\ t \in Name
        BY <1>1
      <4>2. QED
        BY <2>2, <4>1, Zenon
    <3>2. kept[n + 1] = IF t \in dropped THEN k ELSE Append(k, t)
      <4> HIDE DEF kept
      <4>1. n + 1 # 0 /\ (n + 1) - 1 = n /\ n + 1 \in 0..N
        BY <3>1
      <4>2. QED
        BY <1>3, <4>1
    <3>3. Seen(n + 1) = Seen(n) \cup ({t} \ dropped)
      <4>1. 1..(n + 1) = 1..n \cup {n + 1}
        BY <3>1
      <4>2. QED
        BY <4>1
    <3> HIDE DEF kept, Seen, k, t
    <3>4. Append(k, t) \in Seq(Name) /\ Tiers(Append(k, t)) = Tiers(k) \cup {t}
      BY <3>1, AppendedTier
    <3>5. kept[n + 1] \in Seq(Name) /\ Tiers(kept[n + 1]) = Seen(n + 1)
      BY <3>1, <3>2, <3>3, <3>4
    <3>6. QED
      BY <1>1, <3>1, <3>5
  <2>3. 0..N \subseteq Right
    <3> HIDE DEF Right
    <3>1. QED
      BY <1>1, <2>1, <2>2, FromZeroUp
  <2>4. QED
    BY <2>3
<1>5. Kept(configured, dropped) = kept[N]
  BY DEF Kept
<1>6. Tiers(configured) \ dropped = Seen(N)
  BY <1>1 DEF Tiers
<1>7. N \in 0..N
  BY <1>1
<1> HIDE DEF kept, Seen, N
<1>8. QED
  BY <1>4, <1>5, <1>6, <1>7, Zenon

\* Whatever is configured, a worker without a gpu slot does not try cuda and
\* ends on the cpu.
LEMMA LadderEndsOnTheCpu ==
  ASSUME NEW configured \in Ladders, NEW forceCpu \in BOOLEAN
  PROVE  LET tiers == Tiers(LadderFrom(configured, TRUE, forceCpu))
         IN "cuda" \notin tiers /\ "cpu" \in tiers
<1> DEFINE kept == Kept(configured, Dropped(forceCpu))
           Name == STRING \cup {"cpu"}
<1>1. configured \in Seq(Name)
  BY SeqMonotonic, CapacityAssumption
<1> HIDE DEF Name
<1>2. kept \in Seq(Name) /\ Tiers(kept) = Tiers(configured) \ Dropped(forceCpu)
  BY <1>1, KeptTiers
<1>3. "cuda" \in Dropped(forceCpu)
  BY DEF Dropped, LocalAccelerators
<1>4. "cpu" \in Name /\ "cpu" # "cuda"
  BY DEF Name
<1>5. LadderFrom(configured, TRUE, forceCpu) =
        IF "cpu" \in Tiers(kept) THEN kept ELSE Append(kept, "cpu")
  BY DEF LadderFrom
<1> HIDE DEF kept
<1>6. CASE "cpu" \in Tiers(kept)
  BY <1>2, <1>3, <1>5, <1>6
<1>7. CASE "cpu" \notin Tiers(kept)
  <2>1. Tiers(Append(kept, "cpu")) = Tiers(kept) \cup {"cpu"}
    BY <1>2, <1>4, AppendedTier
  <2>2. QED
    BY <1>2, <1>3, <1>4, <1>5, <1>7, <2>1
<1>8. QED
  BY <1>6, <1>7

\* The environment of every process is that of its present assignment.
Equipped ==
  \A w \in DOMAIN env : w \in Worker /\ env[w] = WorkerBackendEnv(backend[w])

LEMMA EquippedStep == IInv /\ IInv' /\ Equipped /\ [Next]_vars => Equipped'
<1> SUFFICES ASSUME IInv, IInv', Equipped, [Next]_vars PROVE Equipped'
  OBVIOUS
<1>1. /\ DOMAIN env = IF pc = "up" THEN Worker ELSE {}
      /\ DOMAIN env' = IF pc' = "up" THEN Worker' ELSE {}
  BY DEF IInv
<1>2. CASE DiscoverHardware \/ WriteModelConfig \/ StartApiServer \/ Stop
  <2>1. pc' # "up"
    BY <1>2 DEF DiscoverHardware, WriteModelConfig, StartApiServer, Stop
  <2>2. QED
    BY <1>1, <2>1 DEF Equipped
<1>3. CASE StartWorkers
  BY <1>3 DEF StartWorkers, Equipped, WorkerBackendEnv, Worker
<1>4. ASSUME NEW w \in Worker, Reassign(w) PROVE Equipped'
  <2>1. /\ DOMAIN env = Worker
        /\ backend' = [backend EXCEPT ![w] = "cpu"] /\ Worker' = Worker
        /\ env' = [env EXCEPT ![w] = WorkerBackendEnv(backend'[w])]
        /\ plan' = plan
    BY <1>1, <1>4 DEF Reassign, Worker
  <2>2. \A b : WorkerBackendEnv(b)' = WorkerBackendEnv(b)
    BY <2>1 DEF WorkerBackendEnv
  <2>3. ASSUME NEW v \in Worker PROVE env'[v] = WorkerBackendEnv(backend'[v])
    <3>1. CASE v = w
      BY <2>1, <3>1
    <3>2. CASE v # w
      BY <2>1, <3>2 DEF Equipped, Worker
    <3>3. QED
      BY <3>1, <3>2
  <2>4. QED
    BY <2>1, <2>3 DEF Equipped, WorkerBackendEnv
<1>5. CASE UNCHANGED vars
  BY <1>5 DEF vars, Equipped, WorkerBackendEnv, Worker
<1>6. QED
  BY <1>2, <1>3, <1>4, <1>5 DEF Next

\* A worker that was planned for the cpu, or was moved to it, sees no gpu and
\* has a ladder that ends on the cpu without cuda, whatever ladder and
\* EDGE_FORCE_CPU it is configured with (ladderFrom, workerBackendEnv).
THEOREM EndsOnTheCpuHolds == Spec => []EndsOnTheCpu
<1>1. Init => Equipped
  BY NothingPlanned DEF Init, Equipped
<1>2. Spec => []Equipped
  BY <1>1, Invariant, EquippedStep, PTL DEF Spec
<1>3. Equipped => EndsOnTheCpu
  <2>1. SUFFICES ASSUME Equipped, NEW w \in DOMAIN env, backend[w] = "cpu"
                 PROVE  /\ env[w].visible = -1
                        /\ \A configured \in Ladders, forceCpu \in BOOLEAN :
                             LET tiers == Tiers(LadderFrom(configured, env[w].backend = "cpu",
                                                           forceCpu))
                             IN "cuda" \notin tiers /\ "cpu" \in tiers
    BY DEF EndsOnTheCpu
  <2>2. env[w].visible = -1 /\ (env[w].backend = "cpu") = TRUE
    BY <2>1 DEF Equipped, WorkerBackendEnv
  <2>3. QED
    BY <2>2, LadderEndsOnTheCpu
<1>4. QED
  BY <1>2, <1>3, PTL
=============================================================================
