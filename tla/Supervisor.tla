----------------------------- MODULE Supervisor -----------------------------
(***************************************************************************)
(* The supervisor of supervisor.cpp: it forks the model cache, the API     *)
(* server and the workers, and one thread polls for what became of them.   *)
(*                                                                         *)
(* monitorLoop reaps the dead, drains the heartbeats and kills the silent, *)
(* in that order, and pc says where it stands.  Handling a death is one    *)
(* step, except that of the model cache, which blocks: the supervisor then *)
(* waits for the new cache, and for every worker it replaces in turn.      *)
(*                                                                         *)
(* A process is a pid; mode is what it really does and table, workerPid    *)
(* and health are what the supervisor knows of it.  A reaped pid may be    *)
(* given to a later process.  Clocks are abstract: a limit that has passed *)
(* is a flag, and a crash leaves the breaker's window in a step Expire.    *)
(*                                                                         *)
(* What happens to the children is the environment, limited to the kinds   *)
(* of Mishaps; deaths and hangs to MaxMishaps of them.                     *)
(***************************************************************************)
EXTENDS Integers, FiniteSets

CONSTANTS
  WorkerCount,  \* effectiveWorkerCount_, which placeableWorkerCount keeps above 0
  OnGpu,        \* the workers whose planned assignment is cuda
  Checks,       \* the limits of LivenessLimits that are not 0
  Mishaps,      \* what may go wrong
  MaxMishaps,   \* bound: how many deaths, hangs and signals
  MaxRecent,    \* bound: counts of recent crashes are not told apart above it
  Pid,          \* process ids, which are used again
  NoPid         \* an id that is not in workerPidById_

Worker == 0..(WorkerCount - 1)
Cache == -1001              \* kCircuitKeyModelCache
Api == -1002                \* kCircuitKeyApiServer
Key == Worker \cup {Cache, Api}
NoKey == -1
Threshold == 3              \* kCrashThreshold

ASSUME SupervisorAssumption ==
  /\ WorkerCount \in Nat \ {0}
  /\ OnGpu \subseteq Worker
  /\ Checks \subseteq {"grace", "timeout", "stuck"}
  /\ MaxMishaps \in Nat
  /\ MaxRecent \in Nat /\ MaxRecent >= Threshold
  /\ NoPid \notin Pid

VARIABLES
  pc,         \* where monitorLoop, or the handler it calls, stands
  running,    \* running_
  next,       \* the loop variable workerId
  table,      \* processesByPid_, its keys
  workerPid,  \* workerPidById_
  health,     \* workerHealthById_; read only for an id that has a pid
  backend,    \* assignments_
  history,    \* CircuitBreaker::history_, crashes of the last 60 s
  log,        \* the lines of the crash log that are no older
  open,       \* keys whose breaker opened
  who,        \* what a process was forked as
  mode,       \* what it does
  gpu,        \* workers forked with a cuda environment
  stale,      \* workers forked before the present model cache
  ready,      \* the segment carries runNonce_ and its ready flag
  beats,      \* the last heartbeat of a worker id in the socket's backlog
  told,       \* the last notification of a worker the present API server got
  mishaps     \* counted against MaxMishaps

control == <<pc, running, next>>
known == <<table, workerPid, health>>
breaker == <<history, log, open>>
child == <<who, mode, gpu, stale, ready>>
vars == <<control, known, backend, breaker, child, beats, told, mishaps>>

Alive == {"loading", "serving", "wedged", "stopping", "killed"}
Exited == {"clean", "fault", "crash"}   \* status 0, kReassignCpu, any other

\* A heartbeat was recorded since the start; the limit that applies, the grace
\* before the first heartbeat and the timeout after it, has passed; busyMs is
\* above stuckRequestMs.
Health == [beat : BOOLEAN, late : BOOLEAN, stuck : BOOLEAN]
Spawned == [beat |-> FALSE, late |-> FALSE, stuck |-> FALSE]

TypeOK ==
  /\ pc \in {"boot", "bootwait", "bootapi", "bootworkers", "abort", "top", "reap", "drain",
             "check", "wait", "replace", "waitpid", "restart", "stopped"}
  /\ running \in BOOLEAN
  /\ next \in 0..WorkerCount
  /\ table \subseteq Pid
  /\ workerPid \in [Worker -> Pid \cup {NoPid}]
  /\ health \in [Worker -> Health]
  /\ backend \in [Worker -> {"cuda", "cpu"}]
  /\ history \in [Key -> 0..MaxRecent]
  /\ log \in [Key -> 0..MaxRecent]
  /\ open \subseteq Key
  /\ who \in [Pid -> Key \cup {NoKey}]
  /\ mode \in [Pid -> Alive \cup Exited \cup {"none"}]
  /\ gpu \subseteq Pid
  /\ stale \subseteq Pid
  /\ ready \in BOOLEAN
  /\ beats \in [Worker -> {"none", "ok", "stuck"}]
  /\ told \in [Worker -> {"nothing", "worker_crashed", "worker_restarted"}]
  /\ mishaps \in 0..MaxMishaps

Planned == [w \in Worker |-> IF w \in OnGpu THEN "cuda" ELSE "cpu"]

Init ==
  /\ pc = "boot" /\ running = FALSE /\ next = 0
  /\ table = {}
  /\ workerPid = [w \in Worker |-> NoPid]
  /\ health = [w \in Worker |-> Spawned]
  /\ backend = Planned
  /\ history = [k \in Key |-> 0]
  /\ log = [k \in Key |-> 0]
  /\ open = {}
  /\ who = [p \in Pid |-> NoKey]
  /\ mode = [p \in Pid |-> "none"]
  /\ gpu = {} /\ stale = {} /\ ready = FALSE
  /\ beats = [w \in Worker |-> "none"]
  /\ told = [w \in Worker |-> "nothing"]
  /\ mishaps = 0

-----------------------------------------------------------------------------
(* Forking and forgetting *)

Free == {p \in Pid : mode[p] = "none"}
Up(k) == \E p \in Pid : who[p] = k /\ mode[p] \in Alive
ApiListens == \E p \in Pid : who[p] = Api /\ mode[p] = "serving"

Mishap(kind) ==
  /\ kind \in Mishaps /\ mishaps < MaxMishaps
  /\ mishaps' = mishaps + 1

\* forkExec and the bookkeeping of startWorker, startModelCache and
\* startApiServer; the process Gone, if any, was reaped just before.
Start(k, Gone, assigned) ==
  \E q \in Free \cup Gone :
    /\ mode' = [p \in Pid |-> IF p = q THEN "loading" ELSE IF p \in Gone THEN "none" ELSE mode[p]]
    /\ who' = [p \in Pid |-> IF p = q THEN k ELSE IF p \in Gone THEN NoKey ELSE who[p]]
    /\ table' = (table \ Gone) \cup {q}
    /\ workerPid' = [w \in Worker |-> IF w = k THEN q ELSE workerPid[w]]
    /\ health' = [w \in Worker |-> IF w = k THEN Spawned ELSE health[w]]
    /\ gpu' = (gpu \ Gone) \cup {p \in {q} : k \in Worker /\ assigned[k] = "cuda"}
    /\ stale' = IF k = Cache THEN {p \in table : who[p] \in Worker} ELSE stale \ Gone
    /\ ready' = (ready /\ k # Cache)

\* The erasures of handleCrash, with nothing started in the place of p.
Lose(p) ==
  /\ mode' = [mode EXCEPT ![p] = "none"]
  /\ who' = [who EXCEPT ![p] = NoKey]
  /\ table' = table \ {p}
  /\ workerPid' = [w \in Worker |-> IF w = who[p] THEN NoPid ELSE workerPid[w]]
  /\ gpu' = gpu \ {p} /\ stale' = stale \ {p}
  /\ UNCHANGED <<health, ready>>

\* notifyApiServer; a failure is only logged.
Tell(w, what) == IF ApiListens THEN [told EXCEPT ![w] = what] ELSE told

-----------------------------------------------------------------------------
(* start() *)

BootCache ==
  /\ pc = "boot"
  /\ running' = TRUE
  /\ \/ /\ Start(Cache, {}, backend)
        /\ pc' = "bootwait"
     \/ /\ "fork" \in Mishaps
        /\ pc' = "abort"
        /\ UNCHANGED <<known, child>>
  /\ UNCHANGED <<next, backend, breaker, beats, told, mishaps>>

\* waitForModelReady: the header is ready (a stop asked for while it is read is
\* seen by monitorLoop), or the time is up or a stop was asked for.
ModelReady ==
  /\ pc \in {"bootwait", "wait"} /\ ready
  /\ pc' = IF pc = "bootwait" THEN "bootapi" ELSE "replace"
  /\ next' = 0
  /\ UNCHANGED <<running, known, backend, breaker, child, beats, told, mishaps>>

ModelNotReady ==
  /\ pc \in {"bootwait", "wait"}
  /\ pc' = IF pc = "bootwait" THEN "abort" ELSE "reap"
  /\ UNCHANGED <<running, next, known, backend, breaker, child, beats, told, mishaps>>

BootApi ==
  /\ pc = "bootapi"
  /\ \/ /\ Start(Api, {}, backend)
        /\ pc' = "bootworkers"
     \/ /\ "fork" \in Mishaps
        /\ pc' = "abort"
        /\ UNCHANGED <<known, child>>
  /\ UNCHANGED <<running, next, backend, breaker, beats, told, mishaps>>

BootWorker ==
  /\ pc = "bootworkers"
  /\ \/ /\ next = WorkerCount
        /\ pc' = "top"
        /\ UNCHANGED <<next, known, child>>
     \/ /\ next < WorkerCount
        /\ Start(next, {}, backend)
        /\ next' = next + 1
        /\ UNCHANGED pc
     \/ /\ next < WorkerCount /\ "fork" \in Mishaps
        /\ pc' = "abort"
        /\ UNCHANGED <<next, known, child>>
  /\ UNCHANGED <<running, backend, breaker, beats, told, mishaps>>

-----------------------------------------------------------------------------
(* monitorLoop *)

Loop ==
  /\ pc = "top" /\ running
  /\ pc' = "reap"
  /\ UNCHANGED <<running, next, known, backend, breaker, child, beats, told, mishaps>>

\* waitpid finds no dead child.
NoneDead ==
  /\ pc = "reap" /\ \A p \in Pid : mode[p] \notin Exited
  /\ pc' = "drain"
  /\ UNCHANGED <<running, next, known, backend, breaker, child, beats, told, mishaps>>

\* recordHeartbeat of everything queued: a frame names a worker id, no process.
Drain ==
  /\ pc = "drain"
  /\ health' = [w \in Worker |->
                  IF beats[w] = "none" \/ workerPid[w] = NoPid THEN health[w]
                  ELSE [beat |-> TRUE, late |-> FALSE, stuck |-> beats[w] = "stuck"]]
  /\ beats' = [w \in Worker |-> "none"]
  /\ pc' = "check"
  /\ UNCHANGED <<running, next, table, workerPid, backend, breaker, child, told, mishaps>>

\* The limit that applies to a worker.
Limit(w) == IF health[w].beat THEN "timeout" ELSE "grace"

\* Faulty: does not look at busyMs; lets a worker load for ever.
CondemnedBySilence(w) ==
  /\ workerPid[w] # NoPid
  /\ health[w].late /\ Limit(w) \in Checks

CondemnedOnceHeard(w) ==
  /\ workerPid[w] # NoPid /\ health[w].beat
  /\ (health[w].late /\ "timeout" \in Checks) \/ (health[w].stuck /\ "stuck" \in Checks)

\* classifyWorker says neither kHealthy nor kStarting.
Condemned(w) ==
  /\ workerPid[w] # NoPid
  /\ \/ health[w].late /\ Limit(w) \in Checks
     \/ health[w].beat /\ health[w].stuck /\ "stuck" \in Checks

CheckLiveness ==
  /\ pc = "check"
  /\ mode' = [p \in Pid |-> IF mode[p] \in Alive /\ \E w \in Worker : workerPid[w] = p /\ Condemned(w)
                            THEN "killed" ELSE mode[p]]
  /\ health' = [w \in Worker |-> IF Condemned(w) THEN [beat |-> TRUE, late |-> FALSE, stuck |-> FALSE]
                                 ELSE health[w]]
  /\ pc' = "top"
  /\ UNCHANGED <<running, next, table, workerPid, backend, breaker, who, gpu, stale, ready,
                 beats, told, mishaps>>

\* Faulty: no SIGKILL after the two seconds.
ShutdownGently ==
  LET Left == {p \in table : mode[p] = "wedged"} IN
  /\ pc = "abort" \/ (pc = "top" /\ ~running)
  /\ pc' = "stopped" /\ running' = FALSE
  /\ mode' = [p \in Pid |-> IF p \in table \ Left THEN "none" ELSE mode[p]]
  /\ who' = [p \in Pid |-> IF p \in table \ Left THEN NoKey ELSE who[p]]
  /\ table' = Left /\ gpu' = gpu \cap Left /\ stale' = {} /\ ready' = FALSE
  /\ workerPid' = [w \in Worker |-> IF workerPid[w] \in Left THEN workerPid[w] ELSE NoPid]
  /\ beats' = [w \in Worker |-> "none"]
  /\ UNCHANGED <<next, health, backend, breaker, told, mishaps>>

\* shutdownChildren and cleanupSocket, also from the destructor when start()
\* fails: SIGTERM, two seconds, SIGKILL, and every process of the table is reaped.
Shutdown ==
  /\ pc = "abort" \/ (pc = "top" /\ ~running)
  /\ pc' = "stopped" /\ running' = FALSE
  /\ mode' = [p \in Pid |-> IF p \in table THEN "none" ELSE mode[p]]
  /\ who' = [p \in Pid |-> IF p \in table THEN NoKey ELSE who[p]]
  /\ table' = {} /\ gpu' = {} /\ stale' = {} /\ ready' = FALSE
  /\ workerPid' = [w \in Worker |-> NoPid]
  /\ beats' = [w \in Worker |-> "none"]
  /\ UNCHANGED <<next, health, backend, breaker, told, mishaps>>

-----------------------------------------------------------------------------
(* handleCrash *)

Reaps(p) == pc = "reap" /\ mode[p] \in Exited /\ p \in table

\* Status 0 ends it here: no log line, no notification, no restart.
CleanExit(p) ==
  /\ Reaps(p) /\ mode[p] = "clean"
  /\ Lose(p)
  /\ UNCHANGED <<control, backend, breaker, beats, told, mishaps>>

Reassignable(p) ==
  /\ mode[p] = "fault" /\ running
  /\ who[p] \in Worker /\ backend[who[p]] = "cuda"

\* Faulty: starts the replacement before it changes the assignment.
ReassignLate(p) ==
  /\ Reaps(p) /\ Reassignable(p)
  /\ Start(who[p], {p}, backend)
  /\ backend' = [backend EXCEPT ![who[p]] = "cpu"]
  /\ told' = Tell(who[p], "worker_restarted")
  /\ UNCHANGED <<control, breaker, beats, mishaps>>

\* applyWorkerReassignment: worker_crashed, the start, worker_restarted.
Reassign(p) ==
  /\ Reaps(p) /\ Reassignable(p)
  /\ backend' = [backend EXCEPT ![who[p]] = "cpu"]
  /\ Start(who[p], {p}, backend')
  /\ told' = Tell(who[p], "worker_restarted")
  /\ UNCHANGED <<control, breaker, beats, mishaps>>

\* One more in a window.
More(f, k) == [f EXCEPT ![k] = IF @ < MaxRecent THEN @ + 1 ELSE @]

\* Faulty: one crash too many.
OpensLate(k) == More(history, k)[k] > Threshold \/ More(log, k)[k] > Threshold

\* registerCrash or crashLimitOpenFromDisk, which finds the line just written.
Opens(k) == More(history, k)[k] >= Threshold \/ More(log, k)[k] >= Threshold

\* A crash that was not handled as a reassignment: its exit is another, or the
\* replacement could not be forked, which leaves the assignment demoted.
Crashed(p) ==
  /\ Reaps(p) /\ mode[p] # "clean"
  /\ IF Reassignable(p)
       THEN "fork" \in Mishaps /\ backend' = [backend EXCEPT ![who[p]] = "cpu"]
       ELSE UNCHANGED backend
  /\ log' = More(log, who[p])
  /\ UNCHANGED mishaps

\* What the API server knows after a death and after a restart; a new one knows
\* nothing.
ToldOfDeath(k) == IF k \in Worker THEN Tell(k, "worker_crashed") ELSE told

ToldOfStart(k) ==
  IF k \in Worker THEN Tell(k, "worker_restarted")
  ELSE IF k = Api THEN [w \in Worker |-> "nothing"] ELSE told

CrashWhileStopping(p) ==
  /\ ~running
  /\ Crashed(p)
  /\ Lose(p)
  /\ UNCHANGED <<control, history, open, beats, told>>

CrashOpens(p) ==
  /\ running
  /\ Crashed(p)
  /\ Opens(who[p])
  /\ history' = More(history, who[p]) /\ open' = open \cup {who[p]}
  /\ Lose(p)
  /\ told' = ToldOfDeath(who[p])
  /\ UNCHANGED <<control, beats>>

\* Faulty: leaves a worker down when the API server could not be told of its
\* death; restarts it without a word.
CrashRestartsIfTold(p) ==
  /\ running
  /\ Crashed(p)
  /\ ~Opens(who[p])
  /\ history' = More(history, who[p])
  /\ IF who[p] \in Worker /\ ~ApiListens THEN Lose(p) ELSE Start(who[p], {p}, backend')
  /\ told' = ToldOfStart(who[p])
  /\ pc' = IF who[p] = Cache THEN "wait" ELSE pc
  /\ UNCHANGED <<running, next, open, beats>>

CrashRestartsQuietly(p) ==
  /\ running
  /\ Crashed(p)
  /\ ~Opens(who[p])
  /\ history' = More(history, who[p])
  /\ Start(who[p], {p}, backend')
  /\ told' = ToldOfDeath(who[p])
  /\ pc' = IF who[p] = Cache THEN "wait" ELSE pc
  /\ UNCHANGED <<running, next, open, beats>>

\* The process is started again; a model cache is then waited for.
CrashRestarts(p) ==
  /\ running
  /\ Crashed(p)
  /\ ~Opens(who[p])
  /\ history' = More(history, who[p])
  /\ Start(who[p], {p}, backend')
  /\ told' = ToldOfStart(who[p])
  /\ pc' = IF who[p] = Cache THEN "wait" ELSE pc
  /\ UNCHANGED <<running, next, open, beats>>

\* forkExec fails and nothing tries again.
CrashNotRestarted(p) ==
  /\ running /\ "fork" \in Mishaps
  /\ Crashed(p)
  /\ ~Opens(who[p])
  /\ history' = More(history, who[p])
  /\ Lose(p)
  /\ told' = ToldOfDeath(who[p])
  /\ UNCHANGED <<control, open, beats>>

HandleCrash(p) ==
  \/ CleanExit(p) \/ Reassign(p) \/ CrashWhileStopping(p)
  \/ CrashOpens(p) \/ CrashRestarts(p) \/ CrashNotRestarted(p)

-----------------------------------------------------------------------------
(* restartWorkersAfterModelCacheRestart *)

\* Faulty: spares a worker that is still loading.
StopSparing ==
  /\ pc = "replace" /\ next < WorkerCount
  /\ IF workerPid[next] = NoPid \/ mode[workerPid[next]] = "loading"
       THEN next' = next + 1 /\ UNCHANGED <<pc, mode>>
       ELSE /\ mode' = [mode EXCEPT ![workerPid[next]] = IF @ = "serving" THEN "stopping" ELSE @]
            /\ pc' = "waitpid"
            /\ UNCHANGED next
  /\ UNCHANGED <<running, known, backend, breaker, who, gpu, stale, ready, beats, told, mishaps>>

\* SIGTERM.  A serving worker finishes its request and exits; one that has not
\* reached run() loses the signal, since run() sets running_ again; a wedged
\* one never looks at it.
StopNext ==
  /\ pc = "replace" /\ next < WorkerCount
  /\ IF workerPid[next] = NoPid
       THEN next' = next + 1 /\ UNCHANGED <<pc, mode>>
       ELSE /\ mode' = [mode EXCEPT ![workerPid[next]] = IF @ = "serving" THEN "stopping" ELSE @]
            /\ pc' = "waitpid"
            /\ UNCHANGED next
  /\ UNCHANGED <<running, known, backend, breaker, who, gpu, stale, ready, beats, told, mishaps>>

\* Faulty: erases the worker without waiting for it.
WaitpidImpatient ==
  /\ pc = "waitpid"
  /\ table' = table \ {workerPid[next]}
  /\ workerPid' = [workerPid EXCEPT ![next] = NoPid]
  /\ pc' = "replace" /\ next' = next + 1
  /\ UNCHANGED <<running, health, backend, breaker, child, beats, told, mishaps>>

\* waitpid blocks until that worker exits, in whichever way.
WaitpidReturns ==
  /\ pc = "waitpid" /\ mode[workerPid[next]] \in Exited
  /\ Lose(workerPid[next])
  /\ pc' = "replace" /\ next' = next + 1
  /\ UNCHANGED <<running, backend, breaker, beats, told, mishaps>>

AllStopped ==
  /\ pc = "replace" /\ next = WorkerCount
  /\ pc' = "restart" /\ next' = 0
  /\ UNCHANGED <<running, known, backend, breaker, child, beats, told, mishaps>>

\* Every planned worker without a process is started, whatever its breaker says.
StartNext ==
  /\ pc = "restart" /\ next < WorkerCount
  /\ next' = next + 1
  /\ \/ /\ workerPid[next] = NoPid
        /\ Start(next, {}, backend)
        /\ told' = Tell(next, "worker_restarted")
     \/ /\ workerPid[next] # NoPid \/ "fork" \in Mishaps
        /\ UNCHANGED <<known, child, told>>
  /\ UNCHANGED <<pc, running, backend, breaker, beats, mishaps>>

AllStarted ==
  /\ pc = "restart" /\ next = WorkerCount
  /\ pc' = "reap" /\ next' = 0
  /\ UNCHANGED <<running, known, backend, breaker, child, beats, told, mishaps>>

-----------------------------------------------------------------------------
(* The environment *)

\* SIGINT or SIGTERM to the supervisor; later it may be started again, with the
\* crash log of the run before.
RequestStop ==
  /\ "stop" \in Mishaps /\ running
  /\ running' = FALSE
  /\ UNCHANGED <<pc, next, known, backend, breaker, child, beats, told, mishaps>>

StartAgain ==
  /\ pc = "stopped"
  /\ pc' = "boot" /\ next' = 0
  /\ health' = [w \in Worker |-> Spawned]
  /\ backend' = Planned
  /\ history' = [k \in Key |-> 0] /\ open' = {}
  /\ told' = [w \in Worker |-> "nothing"]
  /\ UNCHANGED <<running, table, workerPid, log, child, beats, mishaps>>

\* A worker serves, the API server listens, the model cache publishes its copy.
Load(p) ==
  /\ mode[p] = "loading"
  /\ mode' = [mode EXCEPT ![p] = "serving"]
  /\ ready' = (ready \/ who[p] = Cache)
  /\ UNCHANGED <<control, known, backend, breaker, who, gpu, stale, beats, told, mishaps>>

Dies(p, how) ==
  /\ mode' = [mode EXCEPT ![p] = how]
  /\ UNCHANGED <<control, known, backend, breaker, who, gpu, stale, beats, told>>

\* What a process may do of itself: die, by kind of process; fail on its device;
\* never return from llama_decode; be sent a SIGTERM by somebody else.
Death(p) ==
  /\ mode[p] \in Alive \ {"killed"}
  /\ Mishap(IF who[p] \in Worker THEN "death" ELSE IF who[p] = Cache THEN "cache" ELSE "api")
  /\ Dies(p, "crash")
  /\ UNCHANGED ready

Fault(p) ==
  /\ mode[p] = "serving" /\ who[p] \in Worker
  /\ Mishap("fault")
  /\ Dies(p, "fault")
  /\ UNCHANGED ready

Wedge(p) ==
  /\ mode[p] \in {"serving", "stopping"} /\ who[p] \in Worker
  /\ Mishap("wedge")
  /\ Dies(p, "wedged")
  /\ UNCHANGED ready

Terminate(p) ==
  /\ mode[p] = "serving"
  /\ Mishap("term")
  /\ Dies(p, "stopping")
  /\ UNCHANGED ready

\* A model cache that exits unlinks its segment; one that is killed leaves it.
Exit(p) ==
  /\ \/ mode[p] = "stopping" /\ Dies(p, "clean") /\ ready' = (ready /\ who[p] # Cache)
     \/ mode[p] = "killed" /\ Dies(p, "crash") /\ UNCHANGED ready
  /\ UNCHANGED mishaps

\* The heartbeat thread runs from run() on and reports how long the present
\* request has taken, which for a wedged worker is too long.
Beat(w) ==
  /\ pc # "stopped"
  /\ \E p \in Pid :
       /\ who[p] = w /\ mode[p] \in {"serving", "wedged"}
       /\ beats' = [beats EXCEPT ![w] = IF mode[p] = "wedged" THEN "stuck" ELSE "ok"]
  /\ UNCHANGED <<control, known, backend, breaker, child, told, mishaps>>

\* startupGraceMs since the start, or heartbeatTimeoutMs since the last heartbeat.
LimitPasses(w) ==
  /\ workerPid[w] # NoPid /\ ~health[w].late /\ Limit(w) \in Checks
  /\ health' = [health EXCEPT ![w].late = TRUE]
  /\ UNCHANGED <<control, table, workerPid, backend, breaker, child, beats, told, mishaps>>

\* The oldest crash of a key is more than a minute old.
Expire(k) ==
  /\ log[k] > 0
  /\ log' = [log EXCEPT ![k] = @ - 1]
  /\ history' = [history EXCEPT ![k] = IF @ = log[k] THEN @ - 1 ELSE @]
  /\ UNCHANGED <<control, known, backend, open, child, beats, told, mishaps>>

-----------------------------------------------------------------------------

Boot == BootCache \/ ModelReady \/ ModelNotReady \/ BootApi \/ BootWorker

Monitor ==
  \/ Loop \/ NoneDead \/ Drain \/ CheckLiveness \/ Shutdown
  \/ \E p \in Pid : HandleCrash(p)

Replace == StopNext \/ WaitpidReturns \/ AllStopped \/ StartNext \/ AllStarted

Environment ==
  \/ RequestStop \/ StartAgain
  \/ \E p \in Pid : Load(p) \/ Death(p) \/ Fault(p) \/ Wedge(p) \/ Terminate(p) \/ Exit(p)
  \/ \E w \in Worker : Beat(w) \/ LimitPasses(w)
  \/ \E k \in Key : Expire(k)

Next == Boot \/ Monitor \/ Replace \/ Environment

Spec == Init /\ [][Next]_vars

\* The supervisor's thread runs, a signalled process exits, a live worker's
\* heartbeat thread beats, and time passes.  Nothing makes a process load.
Fairness ==
  /\ WF_vars(Boot) /\ WF_vars(Monitor) /\ WF_vars(Replace)
  /\ \A p \in Pid : WF_vars(Exit(p))
  /\ \A w \in Worker : WF_vars(Beat(w)) /\ WF_vars(LimitPasses(w))

FairSpec == Spec /\ Fairness

-----------------------------------------------------------------------------
(* Properties *)

\* The tables name the children, all of them and no other process: so each
\* worker id has one process, every signal goes to a child that is not reaped
\* yet, and no death goes unseen.
TracksChildren ==
  /\ table = {p \in Pid : mode[p] # "none"}
  /\ \A w \in Worker : {p \in table : who[p] = w} = {workerPid[w]} \ {NoPid}

\* No process outlives the supervisor, however it stops.
NoneOutlives == pc = "stopped" => \A p \in Pid : mode[p] = "none"

\* Once a worker was moved to the cpu, none of its processes holds a cuda
\* environment, whichever path starts it.
GpuAsAssigned == \A p \in gpu : backend[who[p]] = "cuda"

\* A breaker that did not open has let fewer than three crashes of a running
\* process by; an open one keeps the model cache and the API server down.
BreakerHolds ==
  \A k \in Key :
    Up(k) => IF k \in open THEN k \in Worker ELSE history[k] < Threshold

\* No running worker is one that the API server was last told had crashed.
NotReportedDead ==
  \A w \in Worker : Up(w) /\ ApiListens => told[w] # "worker_crashed"

\* When the workers have been replaced after a restart of the model cache, none
\* is left that maps the segment of an earlier one.
RenewsWorkers == [][pc = "restart" /\ pc' = "reap" => stale' = {}]_vars

\* The supervisor implements a group with one place for every process: whatever
\* dies, hangs, cannot be forked or is stopped, a place is filled only when it is
\* empty, by monitorLoop only after handleCrash of its process, and all are
\* emptied by restartWorkersAfterModelCacheRestart before it fills the first.
Phase ==
  IF pc \in {"boot", "bootwait", "bootapi", "bootworkers", "abort"} THEN "boot"
  ELSE IF pc \in {"replace", "waitpid"} THEN "retire"
  ELSE IF pc = "restart" THEN "refill"
  ELSE IF pc = "stopped" THEN "off" ELSE "tend"

Part(k) ==
  IF \A p \in table : who[p] # k THEN "absent"
  ELSE LET m == mode[CHOOSE p \in table : who[p] = k] IN IF m \in Alive THEN "up" ELSE m

Group == INSTANCE ProcessGroup
           WITH phase <- Phase,
                wanted <- (running \/ pc = "boot"),
                part <- [k \in Key |-> Part(k)],
                old <- {w \in Worker : workerPid[w] \in stale},
                device <- backend,
                closed <- open

ImplementsGroup == Group!GSpec

\* A worker that is dead is started again unless its breaker opens, also when
\* the API server is down too.
DeadIsReplaced ==
  \A w \in Worker :
    (pc = "reap" /\ ~Up(w)) ~> (Up(w) \/ w \in open \/ ~running)

\* A worker wedged in a request does not stay so (comment above
\* checkWorkerLiveness).
WedgedIsKilled ==
  \A p \in Pid : mode[p] = "wedged" ~> (mode[p] # "wedged" \/ ~running)

\* No worker loads for ever.
StartEnds ==
  \A p \in Pid :
    (who[p] \in Worker /\ mode[p] = "loading") ~> (mode[p] # "loading" \/ ~running)

=============================================================================
