---------------------------- MODULE CapacityPlan ----------------------------
(***************************************************************************)
(* How many workers a machine gets and on which device.  The supervisor    *)
(* asks a probe once and plans (capacityPlan.cpp), publishes the count in  *)
(* the model config file, which outlives it, and starts the API server,    *)
(* which sizes its pool by that file (workerCountSource.js), and the       *)
(* workers, each with the device of its assignment in its environment.     *)
(* A worker that lost its gpu is assigned the cpu for good.                *)
(*                                                                         *)
(* Memory is in bytes, budgets in megabytes of Mb bytes.  What the probe   *)
(* finds and what the operator configures is chosen at every start.        *)
(***************************************************************************)
EXTENDS Integers, Sequences, FiniteSets

CONSTANTS
  Gpus,        \* the lists of gpus a probe may report: [ordinal, free], the
               \* ordinal negative where the device's name does not end in one
  Ram,         \* the host memory that may be available, in bytes
  Budget,      \* the budgets and reserves an operator may configure, in MB
  Count,       \* the worker counts an operator may configure
  Mb,          \* bytes of a megabyte
  Ladders      \* the ladders a worker may be configured with

MaxOrdinal == 1024
MaxSaneWorkerCount == 1024

ASSUME CapacityAssumption ==
  /\ Gpus \subseteq Seq([ordinal : Int, free : Nat])
  /\ Ram \subseteq Nat /\ Budget \subseteq Int /\ Count \subseteq Int
  /\ Mb \in Nat \ {0}
  /\ Ladders \subseteq Seq(STRING)

VARIABLES
  pc,        \* how far start came
  report,    \* hardware_
  limits,    \* config_.capacity
  plan,      \* plan_
  backend,   \* assignments_: worker id -> "cuda" or "cpu"
  env,       \* worker id -> the environment of its process
  file,      \* the model config file: absent, torn, or its workerCount
  fresh,     \* history: the file was written by this run
  pool       \* workerCount of the API server's pool

vars == <<pc, report, limits, plan, backend, env, file, fresh, pool>>

Least(a, b) == IF a <= b THEN a ELSE b
AtLeastZero(a) == IF a > 0 THEN a ELSE 0      \* also reserveOrZero
BytesToMb(b) == b \div Mb

-----------------------------------------------------------------------------
(* The plan.                                                                 *)
NoReport == [probeOk |-> FALSE, gpus |-> <<>>, ram |-> 0]
NoLimits ==
  [maxWorkers |-> 0, gpuReserve |-> 0, workerGpu |-> 0, ramReserve |-> 0, workerRam |-> 0]
NoPlan == [gpuCapacity |-> 0, cpuCapacity |-> 0, gpuIndex |-> 0]

\* The first of those with the most memory.
Best(gpus) == CHOOSE i \in DOMAIN gpus :
  \A j \in DOMAIN gpus :
    gpus[j].free <= gpus[i].free /\ (gpus[j].free = gpus[i].free => i <= j)

\* The driver's ordinal; the position in the report where the name has none.
DeviceOrdinal(gpus, i) ==
  IF gpus[i].ordinal \in 0..MaxOrdinal THEN gpus[i].ordinal ELSE i - 1

\* Faulty: what is left over buys a worker too.
RoundsUp(freeMb, reserveMb, budgetMb, ceiling) ==
  LET usable == AtLeastZero(freeMb - AtLeastZero(reserveMb)) IN
  IF budgetMb <= 0 THEN 0
  ELSE Least((usable + budgetMb - 1) \div budgetMb, ceiling)

\* How many budgets fit into what the reserve leaves.
Capacity(freeMb, reserveMb, budgetMb, ceiling) ==
  LET usable == AtLeastZero(freeMb - AtLeastZero(reserveMb)) IN
  IF budgetMb <= 0 THEN 0 ELSE Least(usable \div budgetMb, ceiling)

PlanCapacity(r, l) ==
  LET ceiling == AtLeastZero(l.maxWorkers)
      seen == r.probeOk /\ r.gpus # <<>>
      gpu == IF seen THEN Capacity(BytesToMb(r.gpus[Best(r.gpus)].free),
                                   l.gpuReserve, l.workerGpu, ceiling)
                     ELSE 0
  IN [gpuCapacity |-> gpu,
      cpuCapacity |-> Capacity(BytesToMb(r.ram), l.ramReserve, l.workerRam, ceiling - gpu),
      gpuIndex |-> IF seen THEN DeviceOrdinal(r.gpus, Best(r.gpus)) ELSE 0]

\* Faulty: no worker at all where none fits.
PlaceableOrNone(p, configured) ==
  Least(p.gpuCapacity + p.cpuCapacity, AtLeastZero(configured))

\* The floor is one: a runtime without a worker answers nothing.
PlaceableWorkerCount(p, configured) ==
  IF configured <= 0 THEN 0
  ELSE LET placeable == p.gpuCapacity + p.cpuCapacity IN
       IF placeable < 1 THEN 1 ELSE Least(placeable, configured)

Worker == DOMAIN backend
AssignWorkers(p, n) ==
  [w \in 0..(n - 1) |-> IF w < p.gpuCapacity THEN "cuda" ELSE "cpu"]

-----------------------------------------------------------------------------
(* What the processes make of it.                                            *)
WorkerBackendEnv(b) ==
  [backend |-> b, visible |-> IF b = "cpu" THEN -1 ELSE plan.gpuIndex]

LocalAccelerators ==
  {"cuda", "rocm", "vulkan", "metal", "npu", "ane", "directml", "gpu"}

Dropped(forceCpu) == IF forceCpu THEN LocalAccelerators ELSE {"cuda"}

\* The loop over the tiers: what it kept of the first n.
Kept(configured, dropped) ==
  LET kept[n \in 0..Len(configured)] ==
        IF n = 0 THEN <<>>
        ELSE IF configured[n] \in dropped THEN kept[n - 1]
        ELSE Append(kept[n - 1], configured[n])
  IN kept[Len(configured)]

Tiers(ladder) == {ladder[i] : i \in DOMAIN ladder}

\* Faulty: a ladder is only shortened.
LadderWithoutFloor(configured, noGpuSlot, forceCpu) ==
  IF ~noGpuSlot /\ ~forceCpu THEN configured ELSE Kept(configured, Dropped(forceCpu))

\* The tiers a worker tries, of those that are configured.
LadderFrom(configured, noGpuSlot, forceCpu) ==
  LET kept == Kept(configured, Dropped(forceCpu))
  IN IF ~noGpuSlot /\ ~forceCpu THEN configured
     ELSE IF "cpu" \in Tiers(kept) THEN kept ELSE Append(kept, "cpu")

Absent == -1
Torn == -2

\* Faulty: the published count is believed whatever was configured.
ResolveUnclamped(f, ceiling) ==
  IF ceiling <= 0 THEN ceiling
  ELSE IF f \in 1..MaxSaneWorkerCount THEN f ELSE ceiling

\* Anything but a count that is positive and not above the ceiling is ignored.
ResolveWorkerCount(f, ceiling) ==
  IF ceiling > 0 /\ f \in 1..Least(ceiling, MaxSaneWorkerCount) THEN f ELSE ceiling

-----------------------------------------------------------------------------
Init ==
  /\ pc = "down"
  /\ report = NoReport /\ limits = NoLimits /\ plan = NoPlan
  /\ backend = <<>> /\ env = <<>>
  /\ file = Absent /\ fresh = FALSE
  /\ pool = 0

\* A probe that fails reports no gpu; the memory is read by the supervisor.
Reports ==
  [probeOk : {TRUE}, gpus : Gpus, ram : Ram]
    \cup [probeOk : {FALSE}, gpus : {<<>>}, ram : Ram]
Limits ==
  [maxWorkers : Count, gpuReserve : Budget, workerGpu : Budget,
   ramReserve : Budget, workerRam : Budget]

DiscoverHardware ==
  /\ pc = "down"
  /\ \E r \in Reports, l \in Limits :
       /\ report' = r /\ limits' = l
       /\ plan' = PlanCapacity(r, l)
       /\ backend' = AssignWorkers(plan', PlaceableWorkerCount(plan', l.maxWorkers))
  /\ pc' = "planned"
  /\ UNCHANGED <<env, file, fresh, pool>>

\* A file that cannot be opened stays as it was.
WriteModelConfig ==
  /\ pc = "planned"
  /\ \/ file' = Cardinality(Worker) /\ fresh' = TRUE
     \/ file' = Torn /\ fresh' = TRUE
     \/ UNCHANGED file /\ fresh' = FALSE
  /\ pc' = "published"
  /\ UNCHANGED <<report, limits, plan, backend, env, pool>>

\* A count that is not positive is rejected by the pool: no server comes up.
StartApiServer ==
  /\ pc = "published"
  /\ pool' = AtLeastZero(ResolveWorkerCount(file, limits.maxWorkers))
  /\ pc' = "serving"
  /\ UNCHANGED <<report, limits, plan, backend, env, file, fresh>>

StartWorkers ==
  /\ pc = "serving"
  /\ env' = [w \in Worker |-> WorkerBackendEnv(backend[w])]
  /\ pc' = "up"
  /\ UNCHANGED <<report, limits, plan, backend, file, fresh, pool>>

\* A worker left its gpu: demoteToCpu, and a process with the new environment.
Reassign(w) ==
  /\ pc = "up"
  /\ backend[w] = "cuda"
  /\ backend' = [backend EXCEPT ![w] = "cpu"]
  /\ env' = [env EXCEPT ![w] = WorkerBackendEnv(backend'[w])]
  /\ UNCHANGED <<pc, report, limits, plan, file, fresh, pool>>

\* Only the file stays.
Stop ==
  /\ pc # "down"
  /\ pc' = "down"
  /\ report' = NoReport /\ limits' = NoLimits /\ plan' = NoPlan
  /\ backend' = <<>> /\ env' = <<>> /\ pool' = 0 /\ fresh' = FALSE
  /\ UNCHANGED file

Next ==
  \/ DiscoverHardware \/ WriteModelConfig \/ StartApiServer \/ StartWorkers
  \/ \E w \in Worker : Reassign(w)
  \/ Stop

Spec == Init /\ [][Next]_vars
-----------------------------------------------------------------------------
\* The variables have their types, and the plan stays below the ceiling.
TypeOK ==
  /\ pc \in {"down", "planned", "published", "serving", "up"}
  /\ report \in Reports \cup {NoReport}
  /\ limits \in Limits \cup {NoLimits}
  /\ plan.gpuCapacity \in Nat /\ plan.cpuCapacity \in Nat /\ plan.gpuIndex \in Nat
  /\ plan.gpuCapacity + plan.cpuCapacity <= AtLeastZero(limits.maxWorkers)
  /\ backend \in [0..(Cardinality(Worker) - 1) -> {"cuda", "cpu"}]
  /\ DOMAIN env = IF pc = "up" THEN Worker ELSE {}
  /\ file \in Nat \cup {Absent, Torn} /\ fresh \in BOOLEAN
  /\ pool \in Nat

Fits(n, budgetMb, reserveMb, bytes) ==
  n * budgetMb * Mb + AtLeastZero(reserveMb) * Mb <= bytes
OnGpu == {w \in Worker : backend[w] = "cuda"}
PlannedOnCpu == {w \in Worker : w >= plan.gpuCapacity}

\* The workers that may use the gpu fit into what one gpu had free beyond the
\* reserve, and it is the gpu their environment names; those planned for the
\* cpu fit into the host's memory, but for the one that is started anyway
\* (capacityPlan.cpp:88-183).
WithinBudget ==
  /\ OnGpu # {} =>
       \E i \in DOMAIN report.gpus :
         /\ DeviceOrdinal(report.gpus, i) = plan.gpuIndex
         /\ limits.workerGpu > 0
         /\ Fits(Cardinality(OnGpu), limits.workerGpu, limits.gpuReserve,
                 report.gpus[i].free)
  /\ Worker # {0} /\ PlannedOnCpu # {} =>
       /\ limits.workerRam > 0
       /\ Fits(Cardinality(PlannedOnCpu), limits.workerRam, limits.ramReserve, report.ram)

\* Reference: how many workers fit, counted one by one and in bytes.
GpuFit ==
  {n \in 1..limits.maxWorkers : \E i \in DOMAIN report.gpus :
     limits.workerGpu > 0
       /\ Fits(n, limits.workerGpu, limits.gpuReserve, report.gpus[i].free)}
RamFit ==
  {n \in 1..limits.maxWorkers :
     limits.workerRam > 0 /\ Fits(n, limits.workerRam, limits.ramReserve, report.ram)}

\* As many workers are planned as fit and as are configured, and never none
\* where one is configured (placeableWorkerCount).
PlacesWhatFits ==
  LET fit == Cardinality(GpuFit) + Cardinality(RamFit) IN
  pc # "down" =>
    Cardinality(Worker) = IF limits.maxWorkers <= 0 THEN 0
                          ELSE IF fit = 0 THEN 1 ELSE Least(fit, limits.maxWorkers)

\* Whatever ladder and EDGE_FORCE_CPU a worker is configured with, one that
\* has no gpu slot neither tries cuda nor sees a gpu, and has a cpu tier to
\* end on (ladderFrom, workerBackendEnv).
EndsOnTheCpu ==
  \A w \in DOMAIN env : backend[w] = "cpu" =>
    /\ env[w].visible = -1
    /\ \A configured \in Ladders, forceCpu \in BOOLEAN :
         LET tiers == Tiers(LadderFrom(configured, env[w].backend = "cpu", forceCpu))
         IN "cuda" \notin tiers /\ "cpu" \in tiers

\* The pool has an entry for every worker that is started and no other when
\* this run's file can be read, and never more than are configured, whatever
\* an earlier run left in the file (writeModelConfig, resolveWorkerCount).
PoolIsTheWorkers ==
  pc \in {"serving", "up"} =>
    /\ fresh /\ file # Torn => pool = Cardinality(Worker)
    /\ pool <= AtLeastZero(limits.maxWorkers)
=============================================================================
