# ServeInfer in TLA+

Models of the control logic of ServeInfer, their model-checking runs, and proofs
of the properties that matter most. Each module is translated from the source
files named in its header; `PROJECT.json` maps every definition to its lines.

## The system

A request passes through three schedulers and a process tree:

```
clients, dashboard
   |  HTTP, retried with the same requestId (clients/shared/src/lib/retry.js)
shell app        when a request runs    (backend/shell-app: scheduler, edgeAgentService, server)
   |  HTTP
API server       which worker runs it   (backend/api-server: requestRegistry, ipc.js WorkerPool, routes)
   |  unix socket, one frame per request
inference worker on which device        (backend/inference-worker: worker, backendRouter, deviceLadder)
   |  shared memory
model cache      one copy of the model  (backend/model-cache, backend/ipc/modelReady.h)

supervisor       forks, watches, kills and restarts all of the backend's processes
                 (backend/supervisor), places workers by backend/hardware/capacityPlan.cpp
```

### Components

| Component | State | Operations | Interacts with | Hard behaviour | What makes it correct |
|---|---|---|---|---|---|
| Scheduler (`shell-app/scheduler.js`) | queue, active map, per-client counts, done map, per-job timers | enqueue, cancel, `_schedule`, queue timer, execution timer, settlement, `releaseSlot` | `edgeAgentService` runs the job; abort signal goes down | timer against settlement, slot returned a microtask after the answer, ids used again by retries | caps hold, slots are never lost or returned twice, nobody is lost or overtaken, every job settles |
| EdgeAgentService, shell routes | none but a map of handles | submit, stream, cancel on close | scheduler, API server | a stream that ends without `done`; a client that goes away | every outcome maps to one answer |
| Request registry (`api-server/requestRegistry.js`, `routes/infer.js`) | in-flight and completed maps, orphans, a file | run, lookup, settle, evict, persist | worker pool; the file of an earlier process | duplicate requests, asynchronous file writes, a crash in between | one execution per id, callers share only what is alive, the file follows the map |
| Worker pool (`api-server/ipc.js`) | status, recovery timer and attempts per worker, in-flight requests | runInference, runStreamingInference, cancel, crash and restart notifications, probes | worker sockets, supervisor notifications | late callbacks, lost and reordered notifications, timers against probes | a worker is busy exactly while one request is on it; recovery is never forgotten |
| Supervisor (`supervisor/`) | children, worker pids, health, assignments, circuit breaker, crash log | start, reap, drain heartbeats, kill the silent, reassign to the cpu, restart after a model cache crash, shutdown | every process; worker_crashed and worker_restarted to the API server | deaths at any point, wedged workers, failed forks, its own restart | the tables name the children, none outlives it, a demotion is kept, the breaker holds, the dead return and the hung are killed |
| Worker (`inference-worker/worker.cpp`, `inferEngine.cpp`) | running flag, active device, loaded model, exit code, busy clock | attach, load, serve, tier change, exit 70, heartbeat thread | supervisor, pool, ladder | a reload that settles for the CPU without a word; a change of tier between two requests; a SIGTERM while loading | the tier in use and the device in use agree; a worker that has to leave leaves |
| Device ladder and router (`deviceLadder.cpp`, `backendRouter.cpp`) | tier health, active and baseline tier, probe cache, cooldowns | select, reportFault, recoverEligibleTier, beginSession, route | device backends, remote transport | a fault in the middle of a request, recovery between requests, stale probes | faults descend, climbs lead to what was found again, what is reported as degraded is, a result is the text of one tier |
| Model cache (`model-cache/`) | the shared segment and its header | create, claim, load, publish, cleanup | supervisor and workers by nonce and ready flag | a cache restart next to a segment of the run before | a worker behind the gate serves the whole model, and after a restart the live cache's |
| Capacity planner (`hardware/capacityPlan.cpp`) | none; the model config file carries its result on | planCapacity, assignWorkers, demoteToCpu, writeModelConfig, resolveWorkerCount | supervisor, worker, `workerCountSource.js` | rounding, zero memory, unknown sizes, a file of an earlier plan | as many workers as fit and no more, and a pool of that size |
| Client retry (`clients/shared`) | attempt counter | withRetry, cancel | shell app | a retry of a request that is still running | the same id, at most three attempts |

Dashboard, configuration parsing, the Sarvam transport and the vendored
llama.cpp carry no control logic of the system and are not modelled.

## The modules

| Module | Models | State and actions |
|---|---|---|
| `Scheduler` | `shell-app/scheduler.js` | `queue`, `active`, `perMfeActive`, `done` are the fields of the class; `phase`, `aborted` and `age` are what a job object and its timers hold. One action per callback: `Enqueue`/`Refuse`, `CancelQueued`/`CancelActive`, `QueueTimer`, `ExecTimer`, the promise handlers `Settle`, `Release`, `LateSettle`, and one iteration of the `_schedule` loop (`Start`, `StopLoop`). |
| `AdmissionControl` | what the scheduler promises | stages of a job and its one answer, with no queue, map, timer or id; `Scheduler!ImplementsAdmissionControl` is the refinement. |
| `RequestRegistry` | `api-server/requestRegistry.js` with both routes of `routes/infer.js` | the two maps, the callers and what each awaits, the asynchronous writer of the in-flight file, crash and restart. |
| `IdempotentExecutor` | what the registry promises | for every id at most one execution that runs or is remembered, and what each caller was told; no maps, order, clock or file. `RequestRegistry!ImplementsIdempotence` is the refinement. |
| `WorkerPool` | `WorkerPool` of `api-server/ipc.js` | what the pool believes (`status`, `attempt`, `timers`, `handle`, `probes`) apart from what is so (`proc`, `sock`), the requests and their connections, notifications under way. |
| `WorkerLending` | what the pool promises | a worker is unseen, free, lent or out, a request has a loan and one result; no sockets, timers, probes or notifications. `WorkerPool!ImplementsLending` is the refinement. |
| `Supervisor` | `supervisor.cpp`, `workerLiveness.cpp`, `workerReassignment.cpp` | one thread whose place in `start`, `monitorLoop`, `handleCrash` and `restartWorkersAfterModelCacheRestart` is `pc`; `table`, `workerPid`, `health`, `backend`, `history`, `open` are its fields; `who`, `mode`, `gpu`, `stale` are what the processes are; `log` is the crash log on disk; the environment kills, wedges, stops and loads them. |
| `ProcessGroup` | what the supervisor promises | one place for every process, which is absent, up, or ended in one of three ways; the group is assembled, tended, renewed after a new model cache and disbanded; no pids, tables, heartbeats or counts. `Supervisor!ImplementsGroup` is the refinement. |
| `DeviceLadder` | `deviceLadder.cpp` | `active`, `baseline`, `reason`, `bench` (faults and quarantine) and `cache` (probes) are its fields; `present` is what a probe would find. Operators for `select`, `reportFault`, `recoverEligibleTier`, and actions for time and for devices that come and go. |
| `InferenceWorker` | `worker.cpp`, `backendRouter.cpp`, `inferEngine.cpp`, the backends | extends `DeviceLadder` with the serving thread, its place in `init`, `handleClient` and `route` being `pc`: `Select`, `StartEngine`, `Accept`, the tier-change hook on the way up (`Recovered`, `RecoveryFails`) and down (`StepDown`, `Fall`), `Answer`, `Fault`, `Crash`, `Leave`, `Terminate`. `loaded`, `gpuOk`, `touched` are the engine's. |
| `ModelCache` | `model_cache.cpp`, `modelReady.h`, the gate in `supervisor.cpp`, `attachSharedMemory` and `loadModel` | the two names (`header`, `weightsName`) and the objects behind them (`weights`) outlive their processes; `cpc`, `wpc`, `spc` are the places of cache, workers and supervisor. |
| `CapacityPlan` | `capacityPlan.cpp`, `writeModelConfig`, `workerCountSource.js`, `ladderFrom`, `workerBackendEnv` | the plan and the placement as operators; actions for the start of the supervisor, its API server and workers, a demotion, and a stop that leaves only the file. |
| `MC…` | | instances for TLC |
| `SchedulerProofs`, `RequestRegistryProofs`, `WorkerPoolProofs`, `SupervisorProofs`, `InferenceWorkerProofs`, `ModelCacheProofs`, `CapacityPlanProofs` | | theorems and their proofs |

Definitions introduced by a comment `Faulty:` are plausible bugs of the code.
They are no part of the specifications: a property is kept only if replacing
the definition that follows by the faulty one makes TLC find it violated.

**Atomicity.** JavaScript callbacks run to their end, and the microtasks they
queue run before the next callback. A callback is one action, except where a
microtask of its own can be told apart: giving a slot back is a step after the
answer, and each iteration of the `_schedule` loop is a step that excludes all
others while it runs. The supervisor's thread is cut where it blocks (the wait
for the model, the `waitpid` of each replaced worker) and between the four
phases of its loop, since its children act at any time; handling one death is
otherwise one step. The worker's serving thread is cut where time may pass or
devices may change: at each load of the engine and each execution. The model
cache and the workers that attach to its segment are cut at each system call on
the shared names, since they run at the same time. The writer of the in-flight file takes a snapshot in one
step and publishes it in a later one.

**Time.** Ages and limits are ticks that stop where no comparison can tell them
apart (`Scheduler`, `RequestRegistry`, `DeviceLadder`), or a flag that a limit has passed
(`Supervisor`). A timer may fire at any time after it is due, and a crash leaves
the breaker's window at any time.

## The runs

| Run | Instance | Question | Outcome |
|---|---|---|---|
| `sched_order` | 4 jobs of 3 clients, 3 priorities, 2 slots, 1 per client, queue of 2 | Does it keep its caps and FIFO, lose nobody, leave no slot idle, and refine `AdmissionControl`? | holds |
| `sched_dup` | 4 jobs of one client, two of each id and at the same time; 2 slots, 1 per client, a queue of 2 that fills, fairness | Is the job started the one removed from the queue, does the client's cap hold, does the done map say what the caller was told, does every job settle and give its slot back? | holds |
| `registry` | 2 requests of one id, 1 of another, 1 crash, 1 failed write, fairness | Is an id executed once, shared only while alive, does the file follow, and is it all an `IdempotentExecutor`? | holds |
| `pool` | 1 worker that dies twice, 2 requests, 2 recovery attempts, fairness | Does it implement `WorkerLending`, is recovery never forgotten, is every request answered? | holds |
| `supervisor_safe` | 1 GPU worker, 4 pids, everything that may go wrong, 2 mishaps besides liveness kills, failed forks and stops | Do the tables name the children, do demotion, breaker and notifications hold, and does it implement `ProcessGroup`? | holds |
| `supervisor_live` | 1 worker that dies or wedges, an API server that dies, fairness | Is a dead worker restarted, a wedged or ever-loading one killed? | holds |
| `supervisor_wedged` | a wedged worker and a model cache crash | Is the wedged worker killed? | violated |
| `worker` | ladder cuda, cpu, remote; a quarantine of 1 tick and probes believed for 2; a GPU that comes and goes, one simulated fault, backends that may fault after tokens (`MidStream`), fairness | Do requests settle, is what the worker reports so, whose text does the result of a stream have, does a demoted worker leave? | holds |
| `worker_climb` | the same, but for `MidStream` | Is a worker back on cuda when it says so? | violated |
| `model_cache` | 3 caches killed, stopped or failing at any step, 2 workers, timeouts of the gate, restarts of the supervisor | Is what a worker serves whole and of the live cache? | holds |
| `model_cache_old` | the same | Is the segment of a killed cache left alone? | violated |
| `capacity` | 6 probe reports, 3 amounts of memory, all budgets, reserves and counts from negative to too many, restarts over an old file | Do the workers fit, are as many placed as fit, does the pool match them? | holds |

Type correctness is not a property of a run: it is a theorem of every module
that has proofs. Neither are `SettledIsAnswered`, `BusyIsOneRequest` and
`RenewsWorkers`: the refinements say more than they do, and they stay theorems.

**Bounds.** Instances are chosen so that the case a property is about occurs,
which its mutant shows. Two clients and a third make a job blocked by its own
client's cap stand before one that is not; two requests of an id are enough for
sharing, replay and re-execution after expiry; one worker that dies twice lets a
probe of its first life meet its second. The breaker opens in `supervisor_safe`
although only two mishaps are allowed, because liveness kills come on top;
crashes are not told apart above the threshold of 3. Bounds on the environment
(`MaxCrashes`, `MaxWriteErrors`, `MaxMishaps`) count only what would otherwise
go on for ever. In `sched_dup` timers are due at once: they may fire at any
moment, which is more than the code does, and aging is the subject of
`sched_order`. In `worker` a cached probe outlives a quarantine, so that a stale
answer could matter, and a backend may fault after it has sent tokens, which the
router provides for and the shipped backends never do; a ladder on which nothing can be selected is left to the
proofs. `MaxStarts` of 3 gives a dead run, its successor and a restart. In
`capacity` a megabyte has two bytes, so that fractions of one occur. `Pid` is finite and pids are used again, as in an operating
system. Where a safety property is also proved, no bound is behind it.

**Fairness.** `Scheduler`: the loop iterations, timers, ticks and microtasks
(the event loop runs and timers fire), never that a job's work ends.
`RequestRegistry`: the file operation that was started completes, never that an
inference does. `WorkerPool`: sockets report, timers fire, messages arrive or are
dropped; a worker that is up answers (its wedging is the supervisor's subject).
`Supervisor`: its thread runs, a process that was sent SIGKILL or is stopping
exits, heartbeats are sent and time passes; nothing makes a process finish
loading, which is what `StartEnds` is about. `InferenceWorker`: the serving
thread works (`Work`: loads and executions end one way or another); no request
need come, and no signal. `ModelCache` and `CapacityPlan` promise no progress
that a property is about.

## Divergences found

With a run each:

1. `supervisor_wedged`: after a model cache restart the supervisor waits without
   a limit for each worker; one that is wedged or still loading does not exit on
   SIGTERM, and nothing is reaped or killed any more (comment at
   `supervisor.cpp:656`).
2. `worker_climb`: a climb back to cuda reloads the engine and does not ask
   whether the load settled for the CPU; the worker then serves on the CPU under
   the name cuda, and is not degraded (`docs/13-device-fallback.md:249`).
3. `model_cache_old`: a killed cache leaves its names, and the next one opens the
   same objects and fills them with zeros while workers still map them
   (`docs/11-model-cache.md:312-313`).

Seen while modelling, without a run of their own:

- `active` is keyed by request id and `enqueue` does not look for the id, so a
  second job with an id that is still running hides the first from
  `active.size`, and more than `maxSlots` jobs run (`docs/06-scheduler.md:32`);
  this is why `SlotCapHolds` and `SlotAccountingHolds` assume `RetryWaits`.
- A worker that gets SIGTERM exits with 0, which is neither logged nor restarted
  (`docs/14-crash-recovery.md:246-250`).
- A heartbeat of a dead worker read after its replacement was forked ends the
  replacement's grace (`docs/14-crash-recovery.md:106`).
- The restart of the workers after a model cache crash does not ask the breaker
  (`docs/14-crash-recovery.md:55-56`).
- The supervisor itself starts workers ahead of the gate: one that dies after
  the gate timed out is restarted at once (`docs/11-model-cache.md:342`). The
  worker accepts any ready header, so such a worker may load a segment of a dead
  run; `BehindTheGate` is about the others.
- A GPU worker that is demoted starts on the CPU whatever the memory budget
  (`docs/12-hardware-capacity.md:116-118`); `WithinBudget` counts the workers planned
  for the CPU.
- `EDGE_WORKER_COUNT` has no upper bound (`supervisor/main.cpp:56`), but a count
  above 1024 in the model config file is ignored (`workerCountSource.js:92`), so
  with that many workers the pool has as many entries as are configured, not as
  are placed; `PoolIsTheWorkersHolds` therefore assumes `SaneCounts`.
- "did not settle" (`docs/13-device-fallback.md:250`) cannot be reached: `Settles`.
- `degradedReason` may name a tier that is in use again, when a fault falls
  below a tier and a climb returns to one that is still below the baseline.
- A climb from remote to cpu is a reload like any other; only a change to the
  cpu tier asks for a load without a GPU (`CpuMeansCpu`), a fall from cpu to
  remote reloads with one.
- A streamed generation records no fault, so a decode error on a GPU never
  demotes the worker, and the error text is sent as tokens
  (`inferEngine.cpp:301`, `docs/13-device-fallback.md:191`).
- The stream of two tiers' tokens of `docs/13-device-fallback.md:155-187`
  (`partialthe real answer`, also `docs/10-llama-integration.md:408-413`) cannot
  occur with the shipped backends: the engine records no fault of a streamed
  generation (`inferEngine.cpp:289-316`, an injected fault comes before the first
  token), and the remote tier sends its one token last
  (`inferenceBackend.cpp:188-192`). `fallbackContractTests.cpp:86` shows it with a
  fake backend. The router provides for it, so the `worker` run sets `MidStream`
  and checks `FrameOfTheLast` of the stream the document describes: the client
  has both tiers' tokens, the result only those of the tier that ran last.
  `ShippedResultAgrees` is the theorem for backends that do not.
- At the router's level the next rule, that the result never contradicts the
  tokens when every tier fails (`docs/13-device-fallback.md:189`, comment at
  `backendRouter.cpp:118`), does not hold either: each execution's text replaces
  the one before, so when cuda has streamed tokens and faults, and the cpu tier
  then faults before it says anything, the result is empty though the client
  holds tokens. `FrameOfTheLast` names this as the one case in which they differ;
  the test at `fallbackContractTests.cpp:112` has a ladder of one tier.
- A reload that fails leaves no model; the next execution works on a null
  context (`inferEngine.cpp:184`, action `Crash`).

- A retry with the id of a finished job keeps its old place in the done map, so
  the scan that stops at the first fresh entry leaves older ones behind
  (`scheduler.js:367`, "insertion order is finish order").
- With the shipped aging and queue timeout a waiting low job is timed out long
  before it draws level with a normal one (`README.md:427`).
- At a crash the in-flight file is the last finished write, not the open
  requests (`docs/08-idempotency.md:197`).
- A worker the pool has given up on can come back through `worker_crashed` and
  `worker_restarted` (`ipc.js:378`), and a probe that is out when a crash notice
  arrives leaves a timer armed on a worker that is ready
  (`docs/07-api-server.md:186`).
- A startup grace of 0 means that silence is never fatal, not that it is fatal at
  once (`workerLiveness.cpp:42`, `docs/14-crash-recovery.md:166`).

## The proofs

Every theorem is for all values of the constants that satisfy the named
assumptions: any number of jobs, clients, calls, workers, requests and pids, any
bounds. They are of the form `Spec => []P` or `Spec => [][A]_vars`, by an
inductive invariant and one step per action.

- **Scheduler** (`JobAssumption`, `LimitAssumption`, `RetryAssumption`).
  `TypeCorrect`. `PickedIsSplicedAlways`: jobs of one id agree on client and
  priority, so the first of them wins every tie and is also what `findIndex`
  finds; the invariant is that the queue is in order of age (`QueueInv`).
  `PerMfeCapHolds`: the count per client is exact whatever the ids (`MfeInv`).
  `SlotCapHolds` and `SlotAccountingHolds` need `RetryWaits`, that a retry is
  sent only after its predecessor left the scheduler, and the invariant that
  `active` is then a bijection with the jobs that hold a slot (`SlotInv`).
  `WorkConservingHolds`: the loop stops only where nothing can run, and no other
  step that leaves it stopped frees a slot. `NoOvertakingHolds`: equal priority
  and the order of age make the head of a client's jobs the next one.
  `NeverLostHolds`, under `RetryWaits` again, adds `SettledInv`, that phase and outcome change together and
  a queued job is in the queue. `RecordedAsSettledHolds`: an entry of age 0 among
  the last `DoneMax` survives an eviction that drops a prefix (`EvictKeeps`),
  and `MapSetKeeps` puts it there because the map was within its limit before
  (`DoneInv`). `ImplementsAdmissionControlHolds`: initial states map to initial
  states (`StageFacts`) and each action to one of `AdmissionControl` or to a
  stutter (`PromiseStep`); its bound on the queue is that of the sequence,
  because positions and waiting jobs are in bijection (`WaitingCount`), and its
  slots are those of `active` by `SlotInv`, hence under `RetryWaits`.
- **RequestRegistry.** The invariant adds to the two-map discipline that cached
  results are in order of age (`CacheOrder`), without which the eviction scan
  that stops at the first fresh entry would not be exact (`ScanIsExact`).
  From it `OneExecutionHolds`, `MapsDisjointHolds`, `RunsOnceHolds`,
  `SharesOnlyLiveHolds`, `SettledIsAnsweredHolds`, and for the file
  `FileSettlesHolds` and `StaysOnFileHolds`. `ImplementsIdempotenceHolds` maps an
  id that is open to a running execution and one that is cached and fresh to a
  remembered one; `Found` says that what `run` and `lookup` find is what the
  mapping says, `Becomes` and `Gets` what a step makes of one id and one caller.
- **WorkerPool.** `BusyIsOneRequestHolds` and `RecoveryIsDueHolds`; the
  invariants relate `status` to the requests in flight and `handle` to the
  timers, under any loss and reordering of notifications.
  `ImplementsLendingHolds` rests on the same invariant: `BorrowersAreInFlight`
  makes the one request on a busy worker its borrower, `RefreshLooks` a refresh
  of the statuses a look that changes nothing about a worker that is lent or
  out, and `Breaks` every way of putting a worker out one that takes its request
  along.
- **Supervisor.** `IInv` is `TypeOK`, `Own` (every child is in the table under one
  key, no two under the same, and only workers are on the GPU or on an old
  segment) and `Stages` (what `pc` says of the tables: while the workers are
  replaced those below `next` have no pid, and so on). `Own` is needed because a
  restart that found a second child under its key would break the tables.
  `StartFacts` and `LoseFacts` say once what forking and reaping preserve. From
  it `TracksChildrenAlways`, `NoneOutlivesHolds`, `RenewsWorkersHolds`; with one
  invariant more each, `GpuAsAssignedHolds`, `BreakerHoldsAlways` and
  `NotReportedDeadHolds` (`ToldInv`: an API server that still loads was told of no
  crash, so that a start it does not hear of is of a worker it believes in).
  `ImplementsGroupHolds` reads the place of a key off the one child `Own` gives it
  (`PartIs`); `StartParts`, `LoseParts`, `ModeParts` say what a fork, a reaping and
  a change of mode do to the places, `StartOld` and `LoseOld` to the workers of an
  earlier segment. It needs one invariant more, `Assembled`: that `start` goes on
  only with what it has started, and waits for a cache that it has started.
- **InferenceWorker** (`LadderAssumption`, `WorkerAssumption`; any ladder, any
  quarantine). The invariant has the ladder's part (`FaultedBelow`: what has
  faulted is at or below the baseline; `Believed`: a positive answer in the cache
  is of a tier that was seen since its last fault) and the request's
  (`Descends`: the tries of a request are at most the tiers it left behind).
  From it `HonestlyDegradedHolds`, `SettlesAlways`, `CpuMeansCpuHolds`,
  `ClimbsToTheSeenHolds`, and with what was sent of a stream at each place of its
  request (`Spoken`: whoever was heard is above the tier that is to run)
  `FrameOfTheLastHolds`. `ShippedResultAgrees` assumes `~MidStream`: then nobody
  has said anything before the execution that ends the request (`Silent`).
- **ModelCache** (`ModelCacheAssumption`; any number of workers and caches). The
  invariant follows the one object a live cache has under its name from the
  claim to the end of the copy: once its own header is ready it is whole, and
  nobody but a later cache writes to it. From it `BehindTheGateHolds`,
  `ServesTheCurrentHolds`, `LoadsBehindTheGateHolds`.
- **CapacityPlan** (`CapacityAssumption`; any machine, budgets, reserves and
  counts). `CapacityFits` and `CapacityIsGreatest` say that the quotient, which is
  taken in megabytes, is the greatest number of workers that fits in bytes;
  `BestIsReported` that the gpu that is chosen is one of the report. `IInv` says
  the plan is that of this report and configuration, whatever was demoted since,
  and what the file holds if this run wrote it. From it
  `TypeCorrect`, `WithinBudgetHolds`, `PlacesWhatFitsHolds` and, where no count
  above 1024 can be configured, `PoolIsTheWorkersHolds`. `EndsOnTheCpuHolds` is
  about the loop that copies the tiers a worker may use into its ladder: `Kept`
  is that loop as a function of the tiers looked at so far, and
  `KeptTiers` an induction over them. The induction is on the set of the
  indices for which the claim holds (`FromZeroUp`), since the library's theorem,
  which takes the claim as a parameter, is out of the provers' reach.

**Only model-checked.** The liveness properties, which TLAPS does not prove.
Every safety property that a run checks is also a theorem.

## Not modelled

- Scheduler: the estimate of the wait, notifications, read-only snapshots.
- Registry and routes: validation, headers, the tokens of a stream.
- Pool: the device fields copied from result frames, token forwarding,
  `worker_ready` (nothing sends it).
- Supervisor: the hardware probe child, pid files, a crash log that cannot be
  written, clocks that jump, and a model cache that outlives a killed supervisor
  (it asks for no parent-death signal).
- Worker: parsing of frames, writes to a client that went away, the heartbeat
  thread (its frames are in `Supervisor`; it reads a string the serving thread
  assigns, `worker.cpp:560`), a SIGTERM before `run()` (`Supervisor` has it), the
  npu and ane tiers, whose backends the shipped build does not compile in, and
  `forceCpu` as configured: `ladderFrom` then leaves no local accelerator in the
  ladder (`worker.cpp:85`), so a ladder without one stands for it.
- Engine: decoding, sampling and tokens are outcomes chosen by the environment.
- Model cache: `LoadModel` is the load at the start of a worker. `reloadOn`
  opens the same path again at each change of tier (`inferEngine.cpp:148`), so a
  worker that falls back after a cache restart, before it is itself replaced,
  loads from the object that has the name by then; the composition of this module
  with `InferenceWorker` is in the plan. Also the checksum, which no reader compares; a model file that changes
  its size; the signal between the test of the stop flag and `pause()` is
  modelled (`WaitUntilStopped`), the supervisor's SIGKILL two seconds later ends it.
- Scheduler: the scan of the done map by time to live (`scheduler.js:367`) is in
  the model; that it leaves entries behind is listed above and costs memory only.
- `EdgeAgentService` and the shell's routes: glue without state of its own.
- The components that `PROJECT.json` lists as not modelled, with the reasons
  there.
- llama.cpp. The directory `inference-worker/llama-src` is a vendored copy of
  ggml and llama.cpp and is nearly all of the C and C++ in the repository. Its
  kernels and model graphs are called through a handful of functions
  (`inferEngine.cpp`) whose outcomes `InferenceWorker` chooses. A share of the
  lines of the repository therefore says little about the share of the
  program's own code that is modelled.

## Plan

What is left, in order:

1. Compositions: `Supervisor` with `WorkerPool` (do the notifications it sends
   bring a restarted worker back into the pool), `Scheduler` with
   `RequestRegistry` and the shell's stream handling (is a client's answer the
   execution's; a stream that ends without `done` resolves as a success,
   `edgeAgentService.js:168`), `WorkerPool` with `InferenceWorker` (a cancelled
   stream frees a worker that still decodes, `ipc.js:265`), `ModelCache` with
   `InferenceWorker` (the reload of a worker that outlives its cache).
2. `Supervisor` with `ModelCache`: the supervisor's tables next to the segment's
   names, where each module now has the other's part as a single step.

Abstract specifications left to state: for the ladder, a session that only
descends; for the model cache, one whole copy per generation. The bound of the
supervisor's breaker (`BreakerHolds`) could become part of `ProcessGroup` with a
count of deaths per place.

Runs stay at one per question: a component gets one run for its safety and, when
it promises progress, one with fairness.
