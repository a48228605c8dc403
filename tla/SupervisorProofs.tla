-------------------------- MODULE SupervisorProofs --------------------------
(***************************************************************************)
(* Proofs about Supervisor, for any number of workers, any assignment of   *)
(* them to devices, any limits and any mishaps, however many.              *)
(***************************************************************************)
EXTENDS Supervisor, TLAPS

WorkerPids == {p \in table : who[p] \in Worker}

\* The children are known, each under one key, and the cuda environments and
\* the mappings of an earlier segment belong to workers.
Own ==
  /\ TracksChildren
  /\ \A p \in table : who[p] \in Key
  /\ \A p, q \in table : who[p] = who[q] => p = q
  /\ gpu \subseteq WorkerPids /\ stale \subseteq WorkerPids

\* What has been started, or stopped, when the loops over the workers run.
Stages ==
  /\ pc \in {"boot", "stopped"} => table = {}
  /\ pc \in {"bootwait", "bootapi"} => \A p \in table : who[p] = Cache
  /\ pc = "bootworkers" => \A p \in table : who[p] \in Worker => who[p] < next
  /\ pc \in {"replace", "waitpid"} => \A w \in Worker : w < next => workerPid[w] = NoPid
  /\ pc = "waitpid" => next \in Worker /\ workerPid[next] \in table
  /\ pc = "restart" => stale = {}
  /\ pc \in {"boot", "bootwait", "bootapi", "bootworkers"} => open = {}

IInv == TypeOK /\ Own /\ Stages

\* The part of the type invariant that starting and reaping touch.
ChildOK ==
  /\ mode \in [Pid -> Alive \cup Exited \cup {"none"}]
  /\ who \in [Pid -> Key \cup {NoKey}]
  /\ table \subseteq Pid /\ gpu \subseteq Pid /\ stale \subseteq Pid
  /\ workerPid \in [Worker -> Pid \cup {NoPid}]
  /\ health \in [Worker -> Health]
  /\ ready \in BOOLEAN

\* q takes the place of the children Gone under key k.
Replaced(k, Gone, b, q) ==
  /\ q \notin table \ Gone
  /\ table' = (table \ Gone) \cup {q}
  /\ who'[q] = k /\ mode'[q] = "loading"
  /\ q \in gpu' => k \in Worker /\ b[k] = "cuda"
  /\ \A p \in table \ Gone : who'[p] = who[p] /\ mode'[p] = mode[p]
  /\ \A p \in gpu' : p # q => p \in gpu \ Gone

-----------------------------------------------------------------------------
(* Helpers *)

LEMMA Keys ==
  /\ Cache \in Key /\ Api \in Key /\ Cache # Api
  /\ Cache \notin Worker /\ Api \notin Worker /\ Worker \subseteq Key
  /\ NoKey \notin Key
  /\ WorkerCount \in Nat /\ Threshold \in 1..MaxRecent /\ MaxRecent \in Nat
BY SupervisorAssumption DEF Key, Worker, Cache, Api, NoKey, Threshold

\* A process started under a key that no child has, but for the one reaped.
LEMMA StartFacts ==
  ASSUME TypeOK, Own, NEW k \in Key, NEW Gone \in SUBSET table, NEW b,
         \A p \in table : who[p] = k <=> p \in Gone,
         Start(k, Gone, b)
  PROVE  /\ Own'
         /\ ChildOK'
         /\ \E q \in Pid : Replaced(k, Gone, b, q)
<1>1. PICK q \in Free \cup Gone :
        /\ mode' = [p \in Pid |-> IF p = q THEN "loading" ELSE IF p \in Gone THEN "none" ELSE mode[p]]
        /\ who' = [p \in Pid |-> IF p = q THEN k ELSE IF p \in Gone THEN NoKey ELSE who[p]]
        /\ table' = (table \ Gone) \cup {q}
        /\ workerPid' = [w \in Worker |-> IF w = k THEN q ELSE workerPid[w]]
        /\ health' = [w \in Worker |-> IF w = k THEN Spawned ELSE health[w]]
        /\ gpu' = (gpu \ Gone) \cup {p \in {q} : k \in Worker /\ b[k] = "cuda"}
        /\ stale' = IF k = Cache THEN {p \in table : who[p] \in Worker} ELSE stale \ Gone
        /\ ready' = (ready /\ k # Cache)
  BY Zenon DEF Start
<1>2. q \in Pid /\ q \notin table \ Gone /\ q # NoPid
  BY SupervisorAssumption DEF Free, TypeOK, Own, TracksChildren
<1>3. /\ mode' \in [Pid -> Alive \cup Exited \cup {"none"}]
      /\ who' \in [Pid -> Key \cup {NoKey}]
      /\ table' \subseteq Pid
      /\ workerPid' \in [Worker -> Pid \cup {NoPid}]
      /\ ready' \in BOOLEAN
  BY <1>1, <1>2 DEF TypeOK, Alive
<1>4. health' \in [Worker -> Health]
  BY <1>1 DEF TypeOK, Health, Spawned
<1>5. gpu' \subseteq Pid /\ stale' \subseteq Pid
  BY <1>1, <1>2 DEF TypeOK
<1>6. \A p \in table \ Gone : p # q /\ p \in Pid /\ who'[p] = who[p] /\ mode'[p] = mode[p]
  BY <1>1, <1>2 DEF TypeOK
<1>7. who'[q] = k /\ mode'[q] = "loading"
  BY <1>1, <1>2
<1>8. table' = {p \in Pid : mode'[p] # "none"}
  <2>1. \A p \in Pid : p \in table <=> mode[p] # "none"
    BY DEF Own, TracksChildren
  <2>2. \A p \in Pid : mode'[p] # "none" <=> p \in table'
    BY <1>1, <2>1, <1>7
  <2> QED BY <2>2, <1>3
<1>9. ASSUME NEW w \in Worker
      PROVE  {p \in table' : who'[p] = w} = {workerPid'[w]} \ {NoPid}
  <2>0. {p \in table : who[p] = w} = {workerPid[w]} \ {NoPid}
    BY DEF Own, TracksChildren
  <2>1. CASE w = k
    <3>1. workerPid'[w] = q
      BY <1>1, <2>1
    <3>2. \A p \in table' : who'[p] = w <=> p = q
      BY <1>1, <1>6, <1>7, <2>1
    <3> QED BY <3>1, <3>2, <1>1, <1>2
  <2>2. CASE w # k
    <3>1. workerPid'[w] = workerPid[w]
      BY <1>1, <2>2
    <3>2. \A p : p \in table' /\ who'[p] = w <=> p \in table /\ who[p] = w
      BY <1>1, <1>6, <1>7, <2>2
    <3> QED BY <3>1, <3>2, <2>0
  <2> QED BY <2>1, <2>2
<1>10. \A p \in table' : who'[p] \in Key
  BY <1>1, <1>6, <1>7 DEF Own
<1>11. \A p, r \in table' : who'[p] = who'[r] => p = r
  BY <1>1, <1>6, <1>7 DEF Own
<1>12. gpu' \subseteq {p \in table' : who'[p] \in Worker}
  BY <1>1, <1>6, <1>7 DEF Own, WorkerPids
<1>13. stale' \subseteq {p \in table' : who'[p] \in Worker}
  <2>1. CASE k = Cache
    BY <2>1, <1>1, <1>6, Keys
  <2>2. CASE k # Cache
    BY <2>2, <1>1, <1>6 DEF Own, WorkerPids
  <2> QED BY <2>1, <2>2
<1>14. Own'
  BY <1>8, <1>9, <1>10, <1>11, <1>12, <1>13 DEF Own, TracksChildren, WorkerPids
<1>15. (q \in gpu' => k \in Worker /\ b[k] = "cuda") /\ \A p \in gpu' : p # q => p \in gpu \ Gone
  <2>1. q \notin gpu \ Gone
    BY <1>2 DEF Own, WorkerPids
  <2> QED BY <1>1, <2>1
<1>16. ChildOK'
  BY <1>3, <1>4, <1>5 DEF ChildOK
<1>17. Replaced(k, Gone, b, q)
  BY <1>1, <1>2, <1>6, <1>7, <1>15 DEF Replaced
<1> QED BY <1>2, <1>14, <1>16, <1>17

\* A child is reaped and forgotten.
LEMMA LoseFacts ==
  ASSUME TypeOK, Own, NEW p \in table, Lose(p)
  PROVE  /\ Own'
         /\ ChildOK'
         /\ table' = table \ {p} /\ gpu' = gpu \ {p} /\ stale' \subseteq stale
         /\ \A r \in table' : who'[r] = who[r] /\ mode'[r] = mode[r]
         /\ \A w \in Worker : workerPid[w] = NoPid => workerPid'[w] = NoPid
         /\ who[p] \in Worker => workerPid'[who[p]] = NoPid
<1>1. p \in Pid /\ mode[p] # "none" /\ p # NoPid
  BY SupervisorAssumption DEF TypeOK, Own, TracksChildren
<1>2. /\ mode' \in [Pid -> Alive \cup Exited \cup {"none"}]
      /\ who' \in [Pid -> Key \cup {NoKey}]
      /\ table' \subseteq Pid /\ gpu' \subseteq Pid /\ stale' \subseteq Pid
      /\ workerPid' \in [Worker -> Pid \cup {NoPid}]
  BY DEF Lose, TypeOK
<1>3. \A r \in Pid : r # p => who'[r] = who[r] /\ mode'[r] = mode[r]
  BY DEF Lose, TypeOK
<1>4. mode'[p] = "none" /\ table' = table \ {p} /\ gpu' = gpu \ {p} /\ stale' = stale \ {p}
  BY <1>1 DEF Lose, TypeOK
<1>5. table' = {r \in Pid : mode'[r] # "none"}
  <2>1. \A r \in Pid : r \in table <=> mode[r] # "none"
    BY DEF Own, TracksChildren
  <2>2. \A r \in Pid : r \in table' <=> mode'[r] # "none"
    BY <1>3, <1>4, <2>1
  <2> QED BY <2>2, <1>2
<1>6. ASSUME NEW w \in Worker
      PROVE  {r \in table' : who'[r] = w} = {workerPid'[w]} \ {NoPid}
  <2>0. {r \in table : who[r] = w} = {workerPid[w]} \ {NoPid}
    BY DEF Own, TracksChildren
  <2>1. workerPid'[w] = IF w = who[p] THEN NoPid ELSE workerPid[w]
    BY DEF Lose
  <2>2. \A r : r \in table' /\ who'[r] = w <=> r \in table /\ who[r] = w /\ r # p
    BY <1>2, <1>3, <1>4 DEF TypeOK
  <2>3. CASE w = who[p]
    <3>1. \A r \in table : who[r] = w => r = p
      BY <2>3 DEF Own
    <3> QED BY <3>1, <2>1, <2>2, <2>3
  <2>4. CASE w # who[p]
    BY <2>0, <2>1, <2>2, <2>4
  <2> QED BY <2>3, <2>4
<1>7. \A r \in table' : r \in table /\ who'[r] = who[r] /\ mode'[r] = mode[r]
  BY <1>2, <1>3, <1>4
<1>8. Own'
  <2>1. (\A r \in table' : who'[r] \in Key) /\ \A r, s \in table' : who'[r] = who'[s] => r = s
    BY <1>7 DEF Own
  <2>2. gpu' \subseteq {r \in table' : who'[r] \in Worker}
    BY <1>3, <1>4, <1>7 DEF Own, WorkerPids
  <2>3. stale' \subseteq {r \in table' : who'[r] \in Worker}
    BY <1>3, <1>4, <1>7 DEF Own, WorkerPids
  <2> QED BY <1>5, <1>6, <2>1, <2>2, <2>3 DEF Own, TracksChildren, WorkerPids
<1>9. /\ \A w \in Worker : workerPid[w] = NoPid => workerPid'[w] = NoPid
      /\ who[p] \in Worker => workerPid'[who[p]] = NoPid
  BY DEF Lose
<1>10. ChildOK'
  BY <1>2 DEF Lose, ChildOK, TypeOK
<1> QED BY <1>4, <1>7, <1>8, <1>9, <1>10

\* A step that starts and reaps nothing.
LEMMA QuietFacts ==
  ASSUME TypeOK, Own, UNCHANGED <<table, workerPid, who, gpu, stale>>,
         mode' \in [Pid -> Alive \cup Exited \cup {"none"}],
         \A p \in Pid : mode'[p] = "none" <=> mode[p] = "none"
  PROVE  Own'
BY DEF Own, TracksChildren, WorkerPids

\* A death is handled for one known child; pc tells of no loop.
LEMMA Reaping ==
  ASSUME TypeOK, Own, NEW p \in Pid, Reaps(p)
  PROVE  /\ p \in table /\ who[p] \in Key
         /\ \A q \in table : who[q] = who[p] <=> q \in {p}
         /\ pc = "reap"
BY DEF Reaps, Own

LEMMA MoreFacts ==
  ASSUME NEW f \in [Key -> 0..MaxRecent], NEW k \in Key
  PROVE  /\ More(f, k) \in [Key -> 0..MaxRecent]
         /\ \A j \in Key : j # k => More(f, k)[j] = f[j]
BY Keys DEF More

-----------------------------------------------------------------------------
(* The inductive invariant *)

LEMMA InitInv == Init => IInv
<1> SUFFICES ASSUME Init PROVE IInv
  OBVIOUS
<1>1. TypeOK
  <2>1. backend \in [Worker -> {"cuda", "cpu"}]
    BY DEF Init, Planned
  <2>2. health \in [Worker -> Health]
    BY DEF Init, Spawned, Health
  <2>3. /\ history \in [Key -> 0..MaxRecent] /\ log \in [Key -> 0..MaxRecent]
        /\ mishaps \in 0..MaxMishaps /\ next \in 0..WorkerCount
    BY Keys, SupervisorAssumption DEF Init
  <2>4. who \in [Pid -> Key \cup {NoKey}] /\ workerPid \in [Worker -> Pid \cup {NoPid}]
    BY DEF Init
  <2> QED BY <2>1, <2>2, <2>3, <2>4 DEF Init, TypeOK
<1>2. Own
  BY SupervisorAssumption DEF Init, Own, TracksChildren, WorkerPids
<1>3. Stages
  BY DEF Init, Stages
<1> QED BY <1>1, <1>2, <1>3 DEF IInv

LEMMA BootInv == IInv /\ Boot => IInv'
<1> SUFFICES ASSUME IInv, Boot PROVE IInv'
  OBVIOUS
<1> USE Keys DEF IInv
<1>1. CASE BootCache
  <2>1. CASE Start(Cache, {}, backend) /\ pc' = "bootwait"
    <3>1. \A p \in table : who[p] = Cache <=> p \in {}
      BY <1>1 DEF BootCache, Stages
    <3>2. Own' /\ ChildOK' /\ \E q \in Pid : Replaced(Cache, {}, backend, q)
      BY <2>1, <3>1, StartFacts
    <3>3. TypeOK'
      BY <1>1, <2>1, <3>2 DEF BootCache, breaker, ChildOK, TypeOK
    <3>4. \A p \in table' : who'[p] = Cache
      BY <1>1, <3>2 DEF BootCache, Stages, Replaced
    <3>5. Stages'
      BY <1>1, <2>1, <3>4 DEF BootCache, breaker, Stages
    <3> QED BY <3>2, <3>3, <3>5
  <2>2. CASE pc' = "abort" /\ UNCHANGED <<known, child>>
    <3>1. Own'
      BY <2>2, QuietFacts DEF known, child, TypeOK
    <3>2. TypeOK'
      BY <1>1, <2>2 DEF BootCache, known, child, breaker, TypeOK
    <3> QED BY <2>2, <3>1, <3>2 DEF Stages
  <2> QED BY <1>1, <2>1, <2>2 DEF BootCache
<1>2. CASE ModelReady \/ ModelNotReady
  <2>1. Own'
    BY <1>2, QuietFacts DEF ModelReady, ModelNotReady, known, child, TypeOK
  <2>2. TypeOK'
    BY <1>2 DEF ModelReady, ModelNotReady, known, child, breaker, TypeOK
  <2>3. Stages'
    BY <1>2 DEF ModelReady, ModelNotReady, known, child, breaker, Stages, Worker
  <2> QED BY <2>1, <2>2, <2>3
<1>3. CASE BootApi
  <2>1. CASE Start(Api, {}, backend) /\ pc' = "bootworkers"
    <3>1. \A p \in table : who[p] = Api <=> p \in {}
      BY <1>3 DEF BootApi, Stages
    <3>2. Own' /\ ChildOK' /\ \E q \in Pid : Replaced(Api, {}, backend, q)
      BY <2>1, <3>1, StartFacts
    <3>3. TypeOK'
      BY <1>3, <2>1, <3>2 DEF BootApi, breaker, ChildOK, TypeOK
    <3>4. \A p \in table' : who'[p] \notin Worker
      BY <1>3, <3>2 DEF BootApi, Stages, Replaced
    <3>5. Stages'
      BY <1>3, <2>1, <3>4 DEF BootApi, breaker, Stages
    <3> QED BY <3>2, <3>3, <3>5
  <2>2. CASE pc' = "abort" /\ UNCHANGED <<known, child>>
    <3>1. Own'
      BY <2>2, QuietFacts DEF known, child, TypeOK
    <3>2. TypeOK'
      BY <1>3, <2>2 DEF BootApi, known, child, breaker, TypeOK
    <3> QED BY <2>2, <3>1, <3>2 DEF Stages
  <2> QED BY <1>3, <2>1, <2>2 DEF BootApi
<1>4. CASE BootWorker
  <2>1. CASE pc' \in {"top", "abort"} /\ UNCHANGED <<next, known, child>>
    <3>1. Own'
      BY <2>1, QuietFacts DEF known, child, TypeOK
    <3>2. TypeOK'
      BY <1>4, <2>1 DEF BootWorker, known, child, breaker, TypeOK
    <3> QED BY <2>1, <3>1, <3>2 DEF Stages
  <2>2. CASE next < WorkerCount /\ Start(next, {}, backend) /\ next' = next + 1 /\ pc' = pc
    <3>1. next \in Worker /\ next' \in 0..WorkerCount
      BY <2>2 DEF TypeOK, Worker
    <3>2. \A p \in table : who[p] = next <=> p \in {}
      BY <1>4, <3>1 DEF BootWorker, Stages, Worker
    <3>3. Own' /\ ChildOK' /\ \E q \in Pid : Replaced(next, {}, backend, q)
      BY <2>2, <3>1, <3>2, StartFacts
    <3>4. TypeOK'
      BY <1>4, <2>2, <3>1, <3>3 DEF BootWorker, breaker, ChildOK, TypeOK
    <3>5. \A p \in table' : who'[p] \in Worker => who'[p] < next'
      <4>1. PICK q \in Pid : /\ table' = table \cup {q} /\ who'[q] = next
                             /\ \A p \in table : who'[p] = who[p]
        BY <3>3 DEF Replaced
      <4>2. \A p \in table : who[p] \in Worker => who[p] < next
        BY <1>4 DEF BootWorker, Stages
      <4> QED BY <4>1, <4>2, <2>2, <3>1 DEF Worker
    <3>6. Stages'
      BY <1>4, <2>2, <3>5 DEF BootWorker, breaker, Stages
    <3> QED BY <3>3, <3>4, <3>6
  <2> QED BY <1>4, <2>1, <2>2 DEF BootWorker
<1> QED BY <1>1, <1>2, <1>3, <1>4 DEF Boot

LEMMA LoopInv == IInv /\ (Loop \/ NoneDead \/ Drain \/ CheckLiveness \/ Shutdown) => IInv'
<1> SUFFICES ASSUME IInv, Loop \/ NoneDead \/ Drain \/ CheckLiveness \/ Shutdown PROVE IInv'
  OBVIOUS
<1> USE Keys DEF IInv
<1>1. CASE Loop \/ NoneDead
  <2>1. Own'
    BY <1>1, QuietFacts DEF Loop, NoneDead, known, child, TypeOK
  <2>2. TypeOK'
    BY <1>1 DEF Loop, NoneDead, known, child, breaker, TypeOK
  <2>3. Stages'
    BY <1>1 DEF Loop, NoneDead, Stages
  <2> QED BY <2>1, <2>2, <2>3
<1>2. CASE Drain
  <2>1. Own'
    BY <1>2, QuietFacts DEF Drain, child, TypeOK
  <2>2. health' \in [Worker -> Health]
    BY <1>2 DEF Drain, TypeOK, Health
  <2>3. TypeOK'
    BY <1>2, <2>2 DEF Drain, child, breaker, TypeOK
  <2>4. Stages'
    BY <1>2 DEF Drain, Stages
  <2> QED BY <2>1, <2>3, <2>4
<1>3. CASE CheckLiveness
  <2>1. mode' \in [Pid -> Alive \cup Exited \cup {"none"}]
    BY <1>3 DEF CheckLiveness, TypeOK, Alive
  <2>2. \A p \in Pid : mode'[p] = "none" <=> mode[p] = "none"
    BY <1>3 DEF CheckLiveness, Alive
  <2>3. Own'
    BY <1>3, <2>1, <2>2, QuietFacts DEF CheckLiveness
  <2>4. health' \in [Worker -> Health]
    BY <1>3 DEF CheckLiveness, TypeOK, Health
  <2>5. TypeOK'
    BY <1>3, <2>1, <2>4 DEF CheckLiveness, breaker, TypeOK
  <2>6. Stages'
    BY <1>3 DEF CheckLiveness, Stages
  <2> QED BY <2>3, <2>5, <2>6
<1>4. CASE Shutdown
  <2>1. \A p \in Pid : mode'[p] = "none"
    BY <1>4 DEF Shutdown, Own, TracksChildren
  <2>2. Own'
    BY <1>4, <2>1 DEF Shutdown, Own, TracksChildren, WorkerPids
  <2>3. /\ mode' \in [Pid -> Alive \cup Exited \cup {"none"}]
        /\ who' \in [Pid -> Key \cup {NoKey}]
        /\ workerPid' \in [Worker -> Pid \cup {NoPid}]
    BY <1>4 DEF Shutdown, TypeOK
  <2>4. TypeOK'
    BY <1>4, <2>3 DEF Shutdown, breaker, TypeOK
  <2>5. Stages'
    BY <1>4 DEF Shutdown, Stages
  <2> QED BY <2>2, <2>4, <2>5
<1> QED BY <1>1, <1>2, <1>3, <1>4

\* What the crash path does before it decides on a restart.
LEMMA CrashedFacts ==
  ASSUME TypeOK, Own, NEW p \in Pid, Crashed(p)
  PROVE  /\ backend' \in [Worker -> {"cuda", "cpu"}]
         /\ log' \in [Key -> 0..MaxRecent]
         /\ mishaps' = mishaps
         /\ \A w \in Worker : w # who[p] => backend'[w] = backend[w]
<1>1. who[p] \in Key
  BY Reaping DEF Crashed
<1> QED BY <1>1, MoreFacts DEF Crashed, TypeOK, Reassignable

LEMMA HandleCrashInv == ASSUME IInv, NEW p \in Pid, HandleCrash(p) PROVE IInv'
<1> USE Keys DEF IInv
<1>1. Reaps(p)
  BY DEF HandleCrash, CleanExit, Reassign, CrashWhileStopping, CrashOpens, CrashRestarts,
         CrashNotRestarted, Crashed
<1>2. /\ p \in table /\ who[p] \in Key /\ pc = "reap" /\ {p} \in SUBSET table
      /\ \A q \in table : who[q] = who[p] <=> q \in {p}
  BY <1>1, Reaping
<1>3. pc' \in {"reap", "wait"} => Stages'
  BY DEF Stages
<1>4. history \in [Key -> 0..MaxRecent] => More(history, who[p]) \in [Key -> 0..MaxRecent]
  BY <1>2, MoreFacts
<1>5. /\ ToldOfDeath(who[p]) \in [Worker -> {"nothing", "worker_crashed", "worker_restarted"}]
      /\ ToldOfStart(who[p]) \in [Worker -> {"nothing", "worker_crashed", "worker_restarted"}]
      /\ Tell(who[p], "worker_restarted") \in [Worker -> {"nothing", "worker_crashed", "worker_restarted"}]
  BY DEF ToldOfDeath, ToldOfStart, Tell, TypeOK
<1>6. CASE CleanExit(p)
  <2>1. Own' /\ ChildOK'
    BY <1>2, <1>6, LoseFacts DEF CleanExit
  <2>2. TypeOK'
    BY <1>6, <2>1 DEF CleanExit, control, breaker, ChildOK, TypeOK
  <2> QED BY <1>2, <1>3, <1>6, <2>1, <2>2 DEF CleanExit, control
<1>7. CASE Reassign(p)
  <2>1. Own' /\ ChildOK'
    BY <1>2, <1>7, StartFacts DEF Reassign
  <2>2. TypeOK'
    BY <1>5, <1>7, <2>1 DEF Reassign, control, breaker, ChildOK, TypeOK
  <2> QED BY <1>2, <1>3, <1>7, <2>1, <2>2 DEF Reassign, control
<1>8. CASE CrashWhileStopping(p)
  <2>1. Own' /\ ChildOK'
    BY <1>2, <1>8, LoseFacts DEF CrashWhileStopping
  <2>2. TypeOK'
    BY <1>8, <2>1, CrashedFacts DEF CrashWhileStopping, control, ChildOK, TypeOK
  <2> QED BY <1>2, <1>3, <1>8, <2>1, <2>2 DEF CrashWhileStopping, control
<1>9. CASE CrashOpens(p)
  <2>1. Own' /\ ChildOK'
    BY <1>2, <1>9, LoseFacts DEF CrashOpens
  <2>2. open' \subseteq Key
    BY <1>2, <1>9 DEF CrashOpens, TypeOK
  <2>3. TypeOK'
    BY <1>4, <1>5, <1>9, <2>1, <2>2, CrashedFacts DEF CrashOpens, control, ChildOK, TypeOK
  <2> QED BY <1>2, <1>3, <1>9, <2>1, <2>3 DEF CrashOpens, control
<1>10. CASE CrashRestarts(p)
  <2>1. Own' /\ ChildOK'
    BY <1>2, <1>10, StartFacts DEF CrashRestarts
  <2>2. pc' \in {"reap", "wait"}
    BY <1>2, <1>10 DEF CrashRestarts
  <2>3. TypeOK'
    BY <1>4, <1>5, <1>10, <2>1, <2>2, CrashedFacts DEF CrashRestarts, ChildOK, TypeOK
  <2> QED BY <1>3, <2>1, <2>2, <2>3
<1>11. CASE CrashNotRestarted(p)
  <2>1. Own' /\ ChildOK'
    BY <1>2, <1>11, LoseFacts DEF CrashNotRestarted
  <2>2. TypeOK'
    BY <1>4, <1>5, <1>11, <2>1, CrashedFacts DEF CrashNotRestarted, control, ChildOK, TypeOK
  <2> QED BY <1>2, <1>3, <1>11, <2>1, <2>2 DEF CrashNotRestarted, control
<1> QED BY <1>6, <1>7, <1>8, <1>9, <1>10, <1>11 DEF HandleCrash

LEMMA ReplaceInv == IInv /\ Replace => IInv'
<1> SUFFICES ASSUME IInv, Replace PROVE IInv'
  OBVIOUS
<1> USE Keys DEF IInv
<1>1. CASE StopNext
  <2>0. next \in Worker /\ workerPid[next] \in Pid \cup {NoPid}
    BY <1>1 DEF StopNext, TypeOK, Worker
  <2>1. /\ mode' \in [Pid -> Alive \cup Exited \cup {"none"}]
        /\ \A p \in Pid : mode'[p] = "none" <=> mode[p] = "none"
    BY <1>1, <2>0 DEF StopNext, TypeOK, Alive
  <2>2. Own'
    BY <1>1, <2>1, QuietFacts DEF StopNext, known
  <2>3. TypeOK'
    BY <1>1, <2>0, <2>1 DEF StopNext, known, breaker, TypeOK, Worker
  <2>4. workerPid[next] # NoPid => workerPid[next] \in table
    BY <2>0 DEF Own, TracksChildren
  <2>5. Stages'
    BY <1>1, <2>0, <2>4 DEF StopNext, known, Stages, Worker
  <2> QED BY <2>2, <2>3, <2>5
<1>2. CASE WaitpidReturns
  <2>0. next \in Worker /\ workerPid[next] \in table
    BY <1>2 DEF WaitpidReturns, Stages
  <2>1. who[workerPid[next]] = next
    BY <2>0, SupervisorAssumption DEF Own, TracksChildren, TypeOK
  <2>2. Own' /\ ChildOK' /\ workerPid'[next] = NoPid
    BY <1>2, <2>0, <2>1, LoseFacts DEF WaitpidReturns
  <2>3. \A w \in Worker : workerPid[w] = NoPid => workerPid'[w] = NoPid
    BY <1>2, <2>0, LoseFacts DEF WaitpidReturns
  <2>4. TypeOK'
    BY <1>2, <2>0, <2>2 DEF WaitpidReturns, breaker, ChildOK, TypeOK, Worker
  <2>5. Stages'
    BY <1>2, <2>0, <2>2, <2>3 DEF WaitpidReturns, Stages, Worker
  <2> QED BY <2>2, <2>4, <2>5
<1>3. CASE AllStopped
  <2>1. Own'
    BY <1>3, QuietFacts DEF AllStopped, known, child, TypeOK
  <2>2. TypeOK'
    BY <1>3 DEF AllStopped, known, child, breaker, TypeOK
  <2>3. \A w \in Worker : workerPid[w] = NoPid
    BY <1>3 DEF AllStopped, Stages, Worker
  <2>4. stale = {}
    BY <2>3 DEF Own, TracksChildren, WorkerPids
  <2>5. Stages'
    BY <1>3, <2>4 DEF AllStopped, child, Stages
  <2> QED BY <2>1, <2>2, <2>5
<1>4. CASE StartNext
  <2>0. next \in Worker /\ next' \in 0..WorkerCount /\ pc = "restart" /\ stale = {}
    BY <1>4 DEF StartNext, TypeOK, Worker, Stages
  <2>1. CASE workerPid[next] = NoPid /\ Start(next, {}, backend) /\ told' = Tell(next, "worker_restarted")
    <3>1. \A p \in table : who[p] = next <=> p \in {}
      BY <2>0, <2>1 DEF Own, TracksChildren
    <3>2. Own' /\ ChildOK'
      BY <2>0, <2>1, <3>1, StartFacts
    <3>3. Tell(next, "worker_restarted") \in [Worker -> {"nothing", "worker_crashed", "worker_restarted"}]
      BY DEF Tell, TypeOK
    <3>4. TypeOK'
      BY <1>4, <2>0, <2>1, <3>2, <3>3 DEF StartNext, breaker, ChildOK, TypeOK
    <3>5. stale' = {}
      BY <2>0, <2>1 DEF Start
    <3>6. Stages'
      BY <1>4, <2>0, <3>5 DEF StartNext, Stages
    <3> QED BY <3>2, <3>4, <3>6
  <2>2. CASE UNCHANGED <<known, child, told>>
    <3>1. Own'
      BY <2>2, QuietFacts DEF known, child, TypeOK
    <3>2. TypeOK'
      BY <1>4, <2>0, <2>2 DEF StartNext, known, child, breaker, TypeOK
    <3>3. Stages'
      BY <1>4, <2>0, <2>2 DEF StartNext, child, Stages
    <3> QED BY <3>1, <3>2, <3>3
  <2> QED BY <1>4, <2>1, <2>2 DEF StartNext
<1>5. CASE AllStarted
  <2>1. Own'
    BY <1>5, QuietFacts DEF AllStarted, known, child, TypeOK
  <2>2. TypeOK'
    BY <1>5 DEF AllStarted, known, child, breaker, TypeOK
  <2>3. Stages'
    BY <1>5 DEF AllStarted, Stages
  <2> QED BY <2>1, <2>2, <2>3
<1> QED BY <1>1, <1>2, <1>3, <1>4, <1>5 DEF Replace

\* A child that only changes what it does is still the same child.
LEMMA ModeFacts ==
  ASSUME TypeOK, NEW p \in Pid, mode[p] # "none",
         NEW m \in (Alive \cup Exited) \ {"none"}, mode' = [mode EXCEPT ![p] = m]
  PROVE  /\ mode' \in [Pid -> Alive \cup Exited \cup {"none"}]
         /\ \A q \in Pid : mode'[q] = "none" <=> mode[q] = "none"
BY DEF TypeOK

LEMMA EnvironmentInv == IInv /\ Environment => IInv'
<1> SUFFICES ASSUME IInv, Environment PROVE IInv'
  OBVIOUS
<1> USE Keys DEF IInv
<1>1. CASE RequestStop
  <2>1. Own'
    BY <1>1, QuietFacts DEF RequestStop, known, child, TypeOK
  <2>2. TypeOK'
    BY <1>1 DEF RequestStop, known, child, breaker, TypeOK
  <2>3. Stages'
    BY <1>1 DEF RequestStop, known, child, breaker, Stages
  <2> QED BY <2>1, <2>2, <2>3
<1>2. CASE StartAgain
  <2>1. Own'
    BY <1>2, QuietFacts DEF StartAgain, child, TypeOK
  <2>2. /\ backend' \in [Worker -> {"cuda", "cpu"}] /\ health' \in [Worker -> Health]
        /\ history' \in [Key -> 0..MaxRecent] /\ next' \in 0..WorkerCount
    BY <1>2 DEF StartAgain, Planned, Spawned, Health
  <2>3. TypeOK'
    BY <1>2, <2>2 DEF StartAgain, child, TypeOK
  <2>4. Stages'
    BY <1>2 DEF StartAgain, Stages
  <2> QED BY <2>1, <2>3, <2>4
<1>3. ASSUME NEW p \in Pid,
             Load(p) \/ Death(p) \/ Fault(p) \/ Wedge(p) \/ Terminate(p) \/ Exit(p)
      PROVE  IInv'
  <2>1. mode[p] # "none"
    BY <1>3 DEF Load, Death, Fault, Wedge, Terminate, Exit, Alive
  <2>2. \E m \in (Alive \cup Exited) \ {"none"} : mode' = [mode EXCEPT ![p] = m]
    BY <1>3 DEF Load, Death, Fault, Wedge, Terminate, Exit, Dies, Alive, Exited
  <2>3. UNCHANGED <<control, known, backend, breaker, who, gpu, stale, beats, told>>
    BY <1>3 DEF Load, Death, Fault, Wedge, Terminate, Exit, Dies
  <2>8. ready' \in BOOLEAN
    BY <1>3 DEF Load, Death, Fault, Wedge, Terminate, Exit, TypeOK
  <2>9. mishaps' = mishaps \/ (mishaps < MaxMishaps /\ mishaps' = mishaps + 1)
    BY <1>3 DEF Load, Death, Fault, Wedge, Terminate, Exit, Mishap
  <2>10. mishaps' \in 0..MaxMishaps
    BY <2>9, SupervisorAssumption DEF TypeOK
  <2>4. /\ mode' \in [Pid -> Alive \cup Exited \cup {"none"}]
        /\ \A q \in Pid : mode'[q] = "none" <=> mode[q] = "none"
    BY <2>1, <2>2, ModeFacts
  <2>5. Own'
    BY <2>3, <2>4, QuietFacts DEF known
  <2>6. TypeOK'
    BY <2>3, <2>4, <2>8, <2>10 DEF control, known, breaker, TypeOK
  <2>7. Stages'
    BY <2>3 DEF control, known, breaker, Stages
  <2> QED BY <2>5, <2>6, <2>7
<1>4. ASSUME NEW w \in Worker, Beat(w) \/ LimitPasses(w) PROVE IInv'
  <2>1. Own'
    BY <1>4, QuietFacts DEF Beat, LimitPasses, known, child, TypeOK
  <2>2. health' \in [Worker -> Health]
    <3>1. CASE Beat(w)
      BY <3>1 DEF Beat, known, TypeOK
    <3>2. CASE LimitPasses(w)
      <4>0. health[w] \in Health
        BY DEF TypeOK
      <4>1. [health[w] EXCEPT !.late = TRUE] \in Health
        BY <4>0 DEF Health
      <4>2. health' = [health EXCEPT ![w] = [health[w] EXCEPT !.late = TRUE]]
        BY <3>2 DEF LimitPasses
      <4> QED BY <4>1, <4>2 DEF TypeOK
    <3> QED BY <1>4, <3>1, <3>2
  <2>3. TypeOK'
    BY <1>4, <2>2 DEF Beat, LimitPasses, control, known, child, breaker, TypeOK
  <2>4. Stages'
    BY <1>4 DEF Beat, LimitPasses, control, known, child, breaker, Stages
  <2> QED BY <2>1, <2>3, <2>4
<1>5. ASSUME NEW k \in Key, Expire(k) PROVE IInv'
  <2>1. Own'
    BY <1>5, QuietFacts DEF Expire, known, child, TypeOK
  <2>2. log' \in [Key -> 0..MaxRecent] /\ history' \in [Key -> 0..MaxRecent]
    BY <1>5 DEF Expire, TypeOK
  <2>3. TypeOK'
    BY <1>5, <2>2 DEF Expire, control, known, child, TypeOK
  <2>4. Stages'
    BY <1>5 DEF Expire, control, known, child, Stages
  <2> QED BY <2>1, <2>3, <2>4
<1> QED BY <1>1, <1>2, <1>3, <1>4, <1>5 DEF Environment

LEMMA StutterInv == IInv /\ UNCHANGED vars => IInv'
BY DEF IInv, vars, control, known, breaker, child, TypeOK, Own, TracksChildren, WorkerPids, Stages,
       Free

LEMMA NextInv == IInv /\ [Next]_vars => IInv'
BY BootInv, LoopInv, HandleCrashInv, ReplaceInv, EnvironmentInv, StutterInv DEF Next, Monitor

LEMMA Invariance == Spec => []IInv
BY InitInv, NextInv, PTL DEF Spec

-----------------------------------------------------------------------------
(* Theorems *)

\* Every reachable state of the supervisor is well typed.
THEOREM TypeCorrect == Spec => []TypeOK
BY Invariance, PTL DEF IInv

\* The supervisor's tables name its children, all of them and no other process,
\* with one process for each worker id, whatever dies and whenever.
THEOREM TracksChildrenAlways == Spec => []TracksChildren
BY Invariance, PTL DEF IInv, Own

\* No child outlives the supervisor, whether it was stopped or could not start.
THEOREM NoneOutlivesHolds == Spec => []NoneOutlives
<1>1. IInv => NoneOutlives
  BY DEF IInv, Own, TracksChildren, Stages, NoneOutlives
<1> QED BY <1>1, Invariance, PTL

\* After a restart of the model cache no worker is left that was forked before.
THEOREM RenewsWorkersHolds == Spec => RenewsWorkers
<1>1. IInv /\ [Next]_vars => (pc = "restart" /\ pc' = "reap" => stale' = {})
  <2> SUFFICES ASSUME IInv, [Next]_vars, pc = "restart", pc' = "reap" PROVE stale' = {}
    OBVIOUS
  <2>1. stale = {}
    BY DEF IInv, Stages
  <2>2. AllStarted
    BY DEF Next, Boot, BootCache, ModelReady, ModelNotReady, BootApi, BootWorker,
           Monitor, Loop, NoneDead, Drain, CheckLiveness, Shutdown, HandleCrash, CleanExit, Reassign,
           CrashWhileStopping, CrashOpens, CrashRestarts, CrashNotRestarted, Crashed, Reaps,
           Replace, StopNext, WaitpidReturns, AllStopped, StartNext,
           Environment, RequestStop, StartAgain, Load, Death, Fault, Wedge, Terminate, Exit, Dies,
           Beat, LimitPasses, Expire, vars, control
  <2> QED BY <2>1, <2>2 DEF AllStarted, child
<1> QED BY <1>1, Invariance, PTL DEF Spec, RenewsWorkers

-----------------------------------------------------------------------------
(* Devices *)

\* A child replaced under one key, when only that key's assignment may change.
LEMMA GpuStart ==
  ASSUME Own, GpuAsAssigned, NEW k \in Key, NEW Gone, NEW q,
         \A p \in table : who[p] = k <=> p \in Gone,
         Replaced(k, Gone, backend', q),
         \A w \in Worker : w # k => backend'[w] = backend[w]
  PROVE  GpuAsAssigned'
<1> SUFFICES ASSUME NEW p \in gpu' PROVE backend'[who'[p]] = "cuda"
  BY DEF GpuAsAssigned
<1>1. CASE p = q
  BY <1>1 DEF Replaced
<1>2. CASE p # q
  <2>1. p \in gpu /\ p \in table \ Gone /\ who[p] \in Worker /\ who[p] # k /\ who'[p] = who[p]
    BY <1>2 DEF Replaced, Own, WorkerPids
  <2> QED BY <2>1 DEF GpuAsAssigned
<1> QED BY <1>1, <1>2

LEMMA GpuLose ==
  ASSUME TypeOK, Own, GpuAsAssigned, NEW p \in table, Lose(p),
         \A w \in Worker : w # who[p] => backend'[w] = backend[w]
  PROVE  GpuAsAssigned'
<1> SUFFICES ASSUME NEW r \in gpu' PROVE backend'[who'[r]] = "cuda"
  BY DEF GpuAsAssigned
<1>1. Own' /\ gpu' = gpu \ {p} /\ \A x \in table' : who'[x] = who[x]
  BY LoseFacts
<1>2. r \in gpu /\ r # p /\ r \in table /\ who[r] \in Worker /\ who'[r] = who[r]
  BY <1>1, LoseFacts DEF Own, WorkerPids
<1>3. who[r] # who[p]
  BY <1>2 DEF Own
<1> QED BY <1>2, <1>3 DEF GpuAsAssigned

\* A worker whose assignment is the cpu has no process with a cuda environment.
LEMMA GpuNext == IInv /\ GpuAsAssigned /\ [Next]_vars => GpuAsAssigned'
<1> SUFFICES ASSUME IInv, GpuAsAssigned, [Next]_vars PROVE GpuAsAssigned'
  OBVIOUS
<1> USE Keys DEF IInv
<1>0. ASSUME UNCHANGED <<gpu, who, backend>> PROVE GpuAsAssigned'
  BY <1>0 DEF GpuAsAssigned
<1>1. CASE Boot
  <2>1. CASE UNCHANGED <<gpu, who, backend>>
    BY <2>1, <1>0
  <2>2. CASE BootCache /\ Start(Cache, {}, backend)
    <3>1. (\A p \in table : who[p] = Cache <=> p \in {}) /\ backend' = backend
      BY <2>2 DEF BootCache, Stages
    <3>2. \E q \in Pid : Replaced(Cache, {}, backend', q)
      BY <2>2, <3>1, StartFacts
    <3> QED BY <3>1, <3>2, GpuStart
  <2>3. CASE BootApi /\ Start(Api, {}, backend)
    <3>1. (\A p \in table : who[p] = Api <=> p \in {}) /\ backend' = backend
      BY <2>3 DEF BootApi, Stages
    <3>2. \E q \in Pid : Replaced(Api, {}, backend', q)
      BY <2>3, <3>1, StartFacts
    <3> QED BY <3>1, <3>2, GpuStart
  <2>4. CASE BootWorker /\ next < WorkerCount /\ Start(next, {}, backend)
    <3>1. next \in Worker /\ backend' = backend
      BY <2>4 DEF BootWorker, TypeOK, Worker
    <3>2. \A p \in table : who[p] = next <=> p \in {}
      <4> SUFFICES ASSUME NEW p \in table, who[p] = next PROVE FALSE
        OBVIOUS
      <4>1. next < next
        BY <2>4, <3>1 DEF BootWorker, Stages
      <4> QED BY <3>1, <4>1 DEF Worker
    <3>3. \E q \in Pid : Replaced(next, {}, backend', q)
      BY <2>4, <3>1, <3>2, StartFacts
    <3> QED BY <3>1, <3>2, <3>3, GpuStart
  <2> QED BY <1>1, <2>1, <2>2, <2>3, <2>4
        DEF Boot, BootCache, ModelReady, ModelNotReady, BootApi, BootWorker, child
<1>2. CASE Loop \/ NoneDead \/ Drain \/ CheckLiveness
  BY <1>0, <1>2 DEF Loop, NoneDead, Drain, CheckLiveness, child
<1>3. CASE Shutdown
  BY <1>3 DEF Shutdown, GpuAsAssigned
<1>4. ASSUME NEW p \in Pid, HandleCrash(p) PROVE GpuAsAssigned'
  <2>1. Reaps(p)
    BY <1>4 DEF HandleCrash, CleanExit, Reassign, CrashWhileStopping, CrashOpens, CrashRestarts,
                CrashNotRestarted, Crashed
  <2>2. /\ p \in table /\ who[p] \in Key /\ {p} \in SUBSET table
        /\ \A q \in table : who[q] = who[p] <=> q \in {p}
    BY <2>1, Reaping
  <2>3. \A w \in Worker : w # who[p] => backend'[w] = backend[w]
    BY <1>4, CrashedFacts
      DEF HandleCrash, CleanExit, Reassign, CrashWhileStopping, CrashOpens, CrashRestarts,
          CrashNotRestarted, TypeOK
  <2>4. CASE Lose(p)
    BY <2>2, <2>3, <2>4, GpuLose
  <2>5. CASE Start(who[p], {p}, backend')
    <3>1. \E q \in Pid : Replaced(who[p], {p}, backend', q)
      BY <2>2, <2>5, StartFacts
    <3> QED BY <2>2, <2>3, <3>1, GpuStart
  <2> QED BY <1>4, <2>4, <2>5
        DEF HandleCrash, CleanExit, Reassign, CrashWhileStopping, CrashOpens, CrashRestarts,
            CrashNotRestarted
<1>5. CASE Replace
  <2>1. CASE StopNext \/ AllStopped \/ AllStarted
    BY <1>0, <2>1 DEF StopNext, AllStopped, AllStarted, child
  <2>2. CASE WaitpidReturns
    BY <2>2, GpuLose DEF WaitpidReturns, Stages
  <2>3. CASE StartNext /\ workerPid[next] = NoPid /\ Start(next, {}, backend)
    <3>1. next \in Worker /\ backend' = backend
      BY <2>3 DEF StartNext, TypeOK, Worker
    <3>2. \A p \in table : who[p] = next <=> p \in {}
      BY <2>3, <3>1 DEF Own, TracksChildren
    <3>3. \E q \in Pid : Replaced(next, {}, backend', q)
      BY <2>3, <3>1, <3>2, StartFacts
    <3> QED BY <3>1, <3>2, <3>3, GpuStart
  <2>4. CASE StartNext /\ UNCHANGED child
    BY <1>0, <2>4 DEF StartNext, child
  <2> QED BY <1>5, <2>1, <2>2, <2>3, <2>4 DEF Replace, StartNext
<1>6. CASE StartAgain
  BY <1>6 DEF StartAgain, GpuAsAssigned, Stages, Own, WorkerPids, child
<1>7. CASE Environment /\ ~StartAgain
  BY <1>0, <1>7 DEF Environment, RequestStop, Load, Death, Fault, Wedge, Terminate, Exit, Dies,
                    Beat, LimitPasses, Expire, child
<1>8. CASE UNCHANGED vars
  BY <1>0, <1>8 DEF vars, child
<1> QED BY <1>1, <1>2, <1>3, <1>4, <1>5, <1>6, <1>7, <1>8 DEF Next, Monitor

\* Whichever path starts a worker, once it was moved to the cpu none of its
\* processes holds a cuda environment.
THEOREM GpuAsAssignedHolds == Spec => []GpuAsAssigned
<1>1. Init => GpuAsAssigned
  BY DEF Init, GpuAsAssigned
<1> QED BY <1>1, GpuNext, Invariance, PTL DEF Spec

-----------------------------------------------------------------------------
(* The breaker *)

\* A key whose breaker did not open has fewer than three recent crashes, and an
\* open one leaves the model cache or the API server without a process.
BreakerInv ==
  /\ \A k \in Key : k \notin open => history[k] < Threshold
  /\ \A k \in open : k \notin Worker => \A p \in table : who[p] # k

LEMMA BreakerStart ==
  ASSUME Own, BreakerInv, NEW k \in Key, NEW Gone, NEW b, NEW q,
         Replaced(k, Gone, b, q), open' = open, k \in open => k \in Worker,
         \A j \in Key : j \notin open => history'[j] < Threshold
  PROVE  BreakerInv'
<1>1. \A p \in table' : p = q \/ (p \in table /\ who'[p] = who[p])
  BY DEF Replaced
<1>2. who'[q] = k
  BY DEF Replaced
<1>3. \A j \in open' : j \notin Worker => \A p \in table' : who'[p] # j
  BY <1>1, <1>2 DEF BreakerInv
<1> QED BY <1>3 DEF BreakerInv

LEMMA BreakerNext == IInv /\ BreakerInv /\ [Next]_vars => BreakerInv'
<1> SUFFICES ASSUME IInv, BreakerInv, [Next]_vars PROVE BreakerInv'
  OBVIOUS
<1> USE Keys DEF IInv
<1>0. ASSUME UNCHANGED <<open, history, table, who>> PROVE BreakerInv'
  BY <1>0 DEF BreakerInv
<1>1. CASE Boot
  <2>0. UNCHANGED <<open, history>>
    BY <1>1 DEF Boot, BootCache, ModelReady, ModelNotReady, BootApi, BootWorker, breaker
  <2>1. CASE UNCHANGED <<table, who>>
    BY <2>0, <2>1, <1>0
  <2>2. CASE ~UNCHANGED <<table, who>>
    <3>1. pc \in {"boot", "bootwait", "bootapi", "bootworkers"}
      BY <1>1, <2>2 DEF Boot, BootCache, ModelReady, ModelNotReady, BootApi, BootWorker, known, child
    <3>2. open = {}
      BY <3>1 DEF Stages
    <3> QED BY <2>0, <3>2 DEF BreakerInv
  <2> QED BY <2>1, <2>2
<1>2. CASE Loop \/ NoneDead \/ Drain \/ CheckLiveness
  BY <1>0, <1>2 DEF Loop, NoneDead, Drain, CheckLiveness, known, child, breaker
<1>3. CASE Shutdown
  BY <1>3 DEF Shutdown, breaker, BreakerInv
<1>4. ASSUME NEW p \in Pid, HandleCrash(p) PROVE BreakerInv'
  <2>1. Reaps(p)
    BY <1>4 DEF HandleCrash, CleanExit, Reassign, CrashWhileStopping, CrashOpens, CrashRestarts,
                CrashNotRestarted, Crashed
  <2>2. /\ p \in table /\ who[p] \in Key /\ {p} \in SUBSET table
        /\ \A q \in table : who[q] = who[p] <=> q \in {p}
    BY <2>1, Reaping
  <2>3. who[p] \in open => who[p] \in Worker
    BY <2>2 DEF BreakerInv
  <2>4. ASSUME Lose(p) PROVE \A r \in table' : r \in table /\ r # p /\ who'[r] = who[r]
    BY <2>2, <2>4, LoseFacts
  <2>5. ASSUME ~Opens(who[p]), history' = More(history, who[p])
        PROVE  \A j \in Key : j \notin open => history'[j] < Threshold
    <3>0. More(history, who[p])[who[p]] \in 0..MaxRecent /\ MaxRecent \in Nat
      BY <2>2, MoreFacts, SupervisorAssumption DEF TypeOK
    <3>1. More(history, who[p])[who[p]] < Threshold
      BY <2>5, <3>0 DEF Opens, Threshold
    <3>2. \A j \in Key : j # who[p] => history'[j] = history[j]
      BY <2>2, <2>5, MoreFacts DEF TypeOK
    <3> QED BY <2>5, <3>1, <3>2 DEF BreakerInv
  <2>6. CASE CleanExit(p) \/ CrashWhileStopping(p)
    BY <2>4, <2>6 DEF CleanExit, CrashWhileStopping, breaker, BreakerInv
  <2>7. CASE Reassign(p)
    <3>1. \E q \in Pid : Replaced(who[p], {p}, backend', q)
      BY <2>2, <2>7, StartFacts DEF Reassign
    <3>2. UNCHANGED <<history, open>>
      BY <2>7 DEF Reassign, breaker
    <3> QED BY <2>2, <2>3, <3>1, <3>2, BreakerStart DEF BreakerInv
  <2>8. CASE CrashOpens(p)
    <3>1. open' = open \cup {who[p]} /\ \A r \in table' : r \in table /\ r # p /\ who'[r] = who[r]
      BY <2>4, <2>8 DEF CrashOpens
    <3>2. \A j \in Key : j # who[p] => history'[j] = history[j]
      BY <2>2, <2>8, MoreFacts DEF CrashOpens, TypeOK
    <3>3. \A j \in open' : j \notin Worker => \A r \in table' : who'[r] # j
      BY <2>2, <3>1 DEF BreakerInv
    <3> QED BY <3>1, <3>2, <3>3 DEF BreakerInv
  <2>9. CASE CrashRestarts(p)
    <3>1. \E q \in Pid : Replaced(who[p], {p}, backend', q)
      BY <2>2, <2>9, StartFacts DEF CrashRestarts
    <3>2. open' = open /\ \A j \in Key : j \notin open => history'[j] < Threshold
      BY <2>5, <2>9 DEF CrashRestarts
    <3> QED BY <2>2, <2>3, <3>1, <3>2, BreakerStart
  <2>10. CASE CrashNotRestarted(p)
    <3>1. open' = open /\ \A j \in Key : j \notin open => history'[j] < Threshold
      BY <2>5, <2>10 DEF CrashNotRestarted
    <3> QED BY <2>4, <2>10, <3>1 DEF CrashNotRestarted, BreakerInv
  <2> QED BY <1>4, <2>6, <2>7, <2>8, <2>9, <2>10 DEF HandleCrash
<1>5. CASE Replace
  <2>0. UNCHANGED <<open, history>>
    BY <1>5 DEF Replace, StopNext, WaitpidReturns, AllStopped, StartNext, AllStarted, breaker
  <2>1. CASE UNCHANGED <<table, who>>
    BY <1>0, <2>0, <2>1
  <2>2. CASE WaitpidReturns
    <3>1. \A r \in table' : r \in table /\ who'[r] = who[r]
      BY <2>2, LoseFacts DEF WaitpidReturns, Stages
    <3> QED BY <2>0, <3>1 DEF BreakerInv
  <2>3. CASE StartNext /\ workerPid[next] = NoPid /\ Start(next, {}, backend)
    <3>1. next \in Worker /\ next \in Key
      BY <2>3 DEF StartNext, TypeOK, Worker
    <3>2. \A p \in table : who[p] = next <=> p \in {}
      BY <2>3, <3>1 DEF Own, TracksChildren
    <3>3. \E q \in Pid : Replaced(next, {}, backend, q)
      BY <2>3, <3>1, <3>2, StartFacts
    <3> QED BY <2>0, <3>1, <3>3, BreakerStart DEF BreakerInv
  <2> QED BY <1>5, <2>1, <2>2, <2>3
        DEF Replace, StopNext, AllStopped, StartNext, AllStarted, known, child
<1>6. CASE StartAgain
  BY <1>6 DEF StartAgain, BreakerInv
<1>7. ASSUME NEW k \in Key, Expire(k) PROVE BreakerInv'
  <2>1. \A j \in Key : history'[j] <= history[j] /\ history[j] \in Int /\ history'[j] \in Int
    BY <1>7 DEF Expire, TypeOK
  <2> QED BY <1>7, <2>1 DEF Expire, known, child, BreakerInv
<1>8. CASE Environment /\ ~StartAgain /\ ~(\E k \in Key : Expire(k))
  BY <1>0, <1>8 DEF Environment, RequestStop, Load, Death, Fault, Wedge, Terminate, Exit, Dies,
                    Beat, LimitPasses, known, child, breaker
<1>9. CASE UNCHANGED vars
  BY <1>0, <1>9 DEF vars, known, child, breaker
<1> QED BY <1>1, <1>2, <1>3, <1>4, <1>5, <1>6, <1>7, <1>8, <1>9 DEF Next, Monitor, Environment

\* A process whose breaker did not open runs with fewer than three recent crashes
\* behind it, and an open breaker keeps the model cache and the API server down.
THEOREM BreakerHoldsAlways == Spec => []BreakerHolds
<1>1. Init => BreakerInv
  BY Keys DEF Init, BreakerInv, Threshold
<1>2. IInv /\ BreakerInv => BreakerHolds
  <2> SUFFICES ASSUME IInv, BreakerInv, NEW k \in Key, Up(k)
               PROVE  IF k \in open THEN k \in Worker ELSE history[k] < Threshold
    BY DEF BreakerHolds
  <2>1. \E p \in table : who[p] = k
    BY DEF Up, IInv, Own, TracksChildren, Alive
  <2> QED BY <2>1 DEF BreakerInv
<1> QED BY <1>1, <1>2, BreakerNext, Invariance, PTL DEF Spec

-----------------------------------------------------------------------------
(* What the API server was told *)

Booting == {"boot", "bootwait", "bootapi", "bootworkers"}

\* A server that still loads was told of no crash, one that listens of none of
\* a worker that runs, and while the supervisor starts nobody was.
ToldInv ==
  /\ \A w \in Worker, p \in table :
       told[w] = "worker_crashed" /\ who[p] = Api =>
         /\ mode[p] # "loading"
         /\ mode[p] = "serving" => \A q \in table : who[q] = w => mode[q] \notin Alive
  /\ pc \in Booting => \A w \in Worker : told[w] # "worker_crashed"

\* Nobody is started or told of anything.
LEMMA ToldQuiet ==
  ASSUME ToldInv, told' = told, pc' \in Booting => pc \in Booting,
         \A p \in table' :
           /\ p \in table /\ who'[p] = who[p]
           /\ mode'[p] \in Alive => mode[p] \in Alive
           /\ mode'[p] = "loading" => mode[p] = "loading"
           /\ mode'[p] = "serving" => mode[p] \in {"loading", "serving"}
  PROVE  ToldInv'
<1>1. ASSUME NEW w \in Worker, NEW p \in table', told'[w] = "worker_crashed", who'[p] = Api
      PROVE  /\ mode'[p] # "loading"
             /\ mode'[p] = "serving" => \A q \in table' : who'[q] = w => mode'[q] \notin Alive
  BY <1>1 DEF ToldInv
<1> QED BY <1>1 DEF ToldInv

LEMMA Listens ==
  ASSUME TypeOK, Own
  PROVE  ApiListens <=> \E p \in table : who[p] = Api /\ mode[p] = "serving"
BY DEF ApiListens, Own, TracksChildren

\* A child is started in the place of Gone, and the API server is told.
LEMMA ToldStart ==
  ASSUME TypeOK, Own, ToldInv, NEW k \in Key, NEW Gone \in SUBSET table, NEW b, NEW q,
         \A p \in table : who[p] = k <=> p \in Gone,
         Replaced(k, Gone, b, q), told' = ToldOfStart(k), pc' \notin Booting
  PROVE  ToldInv'
<1> USE Keys
<1>1. \A p \in table' : p = q \/ (p \in table /\ who'[p] = who[p] /\ mode'[p] = mode[p])
  BY DEF Replaced
<1>2. who'[q] = k
  BY DEF Replaced
<1>3. ASSUME NEW w \in Worker, NEW p \in table', told'[w] = "worker_crashed", who'[p] = Api
      PROVE  /\ mode'[p] # "loading"
             /\ mode'[p] = "serving" => \A r \in table' : who'[r] = w => mode'[r] \notin Alive
  <2>1. k # Api
    BY <1>3 DEF ToldOfStart
  <2>2. p # q /\ p \in table /\ who[p] = Api /\ mode'[p] = mode[p]
    BY <1>1, <1>2, <1>3, <2>1
  <2>3. told[w] = "worker_crashed" /\ (k = w => ~ApiListens)
    BY <1>3, <2>1 DEF ToldOfStart, Tell, TypeOK
  <2>4. mode'[p] # "loading"
    BY <2>2, <2>3 DEF ToldInv
  <2>5. k = w => mode'[p] # "serving"
    BY <2>2, <2>3, Listens
  <2>6. ASSUME k # w, mode'[p] = "serving", NEW r \in table', who'[r] = w
        PROVE  mode'[r] \notin Alive
    <3>1. r \in table /\ who[r] = w /\ mode'[r] = mode[r]
      BY <1>1, <1>2, <2>6
    <3> QED BY <2>2, <2>3, <2>6, <3>1 DEF ToldInv
  <2> QED BY <2>4, <2>5, <2>6
<1> QED BY <1>3 DEF ToldInv

\* A child is forgotten, and the API server is told.
LEMMA ToldLose ==
  ASSUME TypeOK, Own, ToldInv, NEW p \in table, Lose(p),
         told' = ToldOfDeath(who[p]), pc' \notin Booting
  PROVE  ToldInv'
<1> USE Keys
<1>1. \A r \in table' : r \in table /\ r # p /\ who'[r] = who[r] /\ mode'[r] = mode[r]
  BY LoseFacts
<1>2. CASE told' = told
  BY <1>1, <1>2, ToldQuiet
<1>3. CASE told' # told
  <2>1. who[p] \in Worker /\ ApiListens /\ told' = [told EXCEPT ![who[p]] = "worker_crashed"]
    BY <1>3 DEF ToldOfDeath, Tell
  <2>2. PICK a \in table : who[a] = Api /\ mode[a] = "serving"
    BY <2>1, Listens
  <2>3. ASSUME NEW w \in Worker, NEW r \in table', told'[w] = "worker_crashed", who'[r] = Api
        PROVE  /\ mode'[r] # "loading"
               /\ mode'[r] = "serving" => \A s \in table' : who'[s] = w => mode'[s] \notin Alive
    <3>1. r = a /\ mode'[r] = "serving"
      BY <1>1, <2>2, <2>3 DEF Own
    <3>2. CASE w = who[p]
      BY <1>1, <3>1, <3>2 DEF Own
    <3>3. CASE w # who[p]
      <4>1. told[w] = "worker_crashed"
        BY <2>1, <2>3, <3>3 DEF TypeOK
      <4> QED BY <1>1, <2>2, <3>1, <4>1 DEF ToldInv
    <3> QED BY <3>2, <3>3
  <2> QED BY <2>3 DEF ToldInv
<1> QED BY <1>2, <1>3

LEMMA ToldNext == IInv /\ ToldInv /\ [Next]_vars => ToldInv'
<1> SUFFICES ASSUME IInv, ToldInv, [Next]_vars PROVE ToldInv'
  OBVIOUS
<1> USE Keys DEF IInv
<1>0. ASSUME UNCHANGED <<table, who, mode, told>>, pc' \in Booting => pc \in Booting
      PROVE  ToldInv'
  BY <1>0, ToldQuiet
<1>1. CASE Boot
  <2>1. CASE pc \in Booting
    <3>1. told' = told
      BY <1>1 DEF Boot, BootCache, ModelReady, ModelNotReady, BootApi, BootWorker
    <3> QED BY <2>1, <3>1 DEF ToldInv
  <2>2. CASE pc \notin Booting
    BY <1>0, <1>1, <2>2
       DEF Boot, BootCache, ModelReady, ModelNotReady, BootApi, BootWorker, known, child, Booting
  <2> QED BY <2>1, <2>2
<1>2. CASE Loop \/ NoneDead \/ Drain
  BY <1>0, <1>2 DEF Loop, NoneDead, Drain, known, child, Booting
<1>3. CASE CheckLiveness
  <2>1. \A p \in table : mode'[p] = mode[p] \/ (mode[p] \in Alive /\ mode'[p] = "killed")
    BY <1>3 DEF CheckLiveness, TypeOK
  <2> QED BY <1>3, <2>1, ToldQuiet DEF CheckLiveness, Booting
<1>4. CASE Shutdown
  BY <1>4, ToldQuiet DEF Shutdown, Booting
<1>5. ASSUME NEW p \in Pid, HandleCrash(p) PROVE ToldInv'
  <2>1. Reaps(p)
    BY <1>5 DEF HandleCrash, CleanExit, Reassign, CrashWhileStopping, CrashOpens, CrashRestarts,
                CrashNotRestarted, Crashed
  <2>2. /\ p \in table /\ who[p] \in Key /\ {p} \in SUBSET table
        /\ \A q \in table : who[q] = who[p] <=> q \in {p}
        /\ pc = "reap"
    BY <2>1, Reaping
  <2>3. pc' \in {"reap", "wait"}
    BY <1>5, <2>2 DEF HandleCrash, CleanExit, Reassign, CrashWhileStopping, CrashOpens,
                      CrashRestarts, CrashNotRestarted, control
  <2>4. pc' \notin Booting
    BY <2>3 DEF Booting
  <2>5. CASE CleanExit(p) \/ CrashWhileStopping(p)
    <3>1. Lose(p) /\ told' = told
      BY <2>5 DEF CleanExit, CrashWhileStopping
    <3>2. \A r \in table' : r \in table /\ who'[r] = who[r] /\ mode'[r] = mode[r]
      BY <2>2, <3>1, LoseFacts
    <3> QED BY <2>4, <3>1, <3>2, ToldQuiet
  <2>6. CASE Reassign(p)
    <3>1. \E q \in Pid : Replaced(who[p], {p}, backend', q)
      BY <2>2, <2>6, StartFacts DEF Reassign
    <3>2. told' = ToldOfStart(who[p])
      BY <2>6 DEF Reassign, Reassignable, ToldOfStart
    <3> QED BY <2>2, <2>4, <3>1, <3>2, ToldStart
  <2>7. CASE CrashOpens(p) \/ CrashNotRestarted(p)
    BY <2>2, <2>4, <2>7, ToldLose DEF CrashOpens, CrashNotRestarted
  <2>8. CASE CrashRestarts(p)
    <3>1. \E q \in Pid : Replaced(who[p], {p}, backend', q)
      BY <2>2, <2>8, StartFacts DEF CrashRestarts
    <3>2. told' = ToldOfStart(who[p])
      BY <2>8 DEF CrashRestarts
    <3> QED BY <2>2, <2>4, <3>1, <3>2, ToldStart
  <2> QED BY <1>5, <2>5, <2>6, <2>7, <2>8 DEF HandleCrash
<1>6. CASE Replace
  <2>0. pc' \notin Booting
    BY <1>6 DEF Replace, StopNext, WaitpidReturns, AllStopped, StartNext, AllStarted, Booting
  <2>1. CASE UNCHANGED <<table, who, mode, told>>
    BY <1>0, <2>0, <2>1
  <2>2. CASE StopNext
    <3>1. UNCHANGED <<table, who, told>>
      BY <2>2 DEF StopNext, known
    <3>2. \A p \in table : mode'[p] = mode[p] \/ (mode[p] \in Alive /\ mode'[p] = "stopping")
      BY <2>2 DEF StopNext, TypeOK, Alive
    <3> QED BY <2>0, <3>1, <3>2, ToldQuiet
  <2>3. CASE WaitpidReturns
    <3>1. \A r \in table' : r \in table /\ who'[r] = who[r] /\ mode'[r] = mode[r]
      BY <2>3, LoseFacts DEF WaitpidReturns, Stages
    <3> QED BY <2>0, <2>3, <3>1, ToldQuiet DEF WaitpidReturns
  <2>4. CASE StartNext /\ workerPid[next] = NoPid /\ Start(next, {}, backend)
               /\ told' = Tell(next, "worker_restarted")
    <3>1. next \in Worker /\ next \in Key
      BY <2>4 DEF StartNext, TypeOK, Worker
    <3>2. \A p \in table : who[p] = next <=> p \in {}
      BY <2>4, <3>1 DEF Own, TracksChildren
    <3>3. \E q \in Pid : Replaced(next, {}, backend, q)
      BY <2>4, <3>1, <3>2, StartFacts
    <3>4. told' = ToldOfStart(next)
      BY <2>4, <3>1 DEF ToldOfStart
    <3> QED BY <2>0, <3>1, <3>2, <3>3, <3>4, ToldStart
  <2> QED BY <1>6, <2>1, <2>2, <2>3, <2>4
        DEF Replace, AllStopped, StartNext, AllStarted, known, child
<1>7. CASE StartAgain
  BY <1>7 DEF StartAgain, ToldInv
<1>8. ASSUME NEW p \in Pid,
             Load(p) \/ Death(p) \/ Fault(p) \/ Wedge(p) \/ Terminate(p) \/ Exit(p)
      PROVE  ToldInv'
  <2>1. UNCHANGED <<pc, table, who, told>>
    BY <1>8 DEF Load, Death, Fault, Wedge, Terminate, Exit, Dies, control, known
  <2>2. \E m \in (Alive \cup Exited) \ {"none"} :
          /\ mode' = [mode EXCEPT ![p] = m]
          /\ mode[p] \in Alive
          /\ m # "loading" /\ (m = "serving" => mode[p] = "loading")
    BY <1>8 DEF Load, Death, Fault, Wedge, Terminate, Exit, Dies, Alive, Exited
  <2>3. \A r \in table :
          /\ mode'[r] \in Alive => mode[r] \in Alive
          /\ mode'[r] = "loading" => mode[r] = "loading"
          /\ mode'[r] = "serving" => mode[r] \in {"loading", "serving"}
    BY <2>2 DEF TypeOK
  <2> QED BY <2>1, <2>3, ToldQuiet
<1>9. CASE RequestStop \/ (\E w \in Worker : Beat(w) \/ LimitPasses(w)) \/ (\E k \in Key : Expire(k))
  BY <1>0, <1>9 DEF RequestStop, Beat, LimitPasses, Expire, control, known, child
<1>10. CASE UNCHANGED vars
  BY <1>0, <1>10 DEF vars, control, known, child
<1> QED BY <1>1, <1>2, <1>3, <1>4, <1>5, <1>6, <1>7, <1>8, <1>9, <1>10
     DEF Next, Monitor, Environment

\* Whatever fails and in whatever order, no worker runs that the API server that
\* listens was last told had crashed: a start it hears of follows every death it
\* heard of (notifyApiServer).
THEOREM NotReportedDeadHolds == Spec => []NotReportedDead
<1>1. Init => ToldInv
  BY DEF Init, ToldInv
<1>2. IInv /\ ToldInv => NotReportedDead
  <2> SUFFICES ASSUME IInv, ToldInv, NEW w \in Worker, Up(w), ApiListens
               PROVE  told[w] # "worker_crashed"
    BY DEF NotReportedDead
  <2>1. \E q \in table : who[q] = w /\ mode[q] \in Alive
    BY DEF Up, IInv, Own, TracksChildren, Alive
  <2>2. \E p \in table : who[p] = Api /\ mode[p] = "serving"
    BY Listens DEF IInv
  <2> QED BY <2>1, <2>2 DEF ToldInv
<1> QED BY <1>1, <1>2, ToldNext, Invariance, PTL DEF Spec

-----------------------------------------------------------------------------
(* The group *)

Parts == [k \in Key |-> Part(k)]
Old == {w \in Worker : workerPid[w] \in stale}
Condition(m) == IF m \in Alive THEN "up" ELSE m

\* A place is what the child under its key does, and absent when there is none.
PlacesTell ==
  /\ \A p \in table : Part(who[p]) = Condition(mode[p])
  /\ \A k \in Key : (\A p \in table : who[p] # k) => Part(k) = "absent"

LEMMA PartIs == Own => PlacesTell
<1> SUFFICES ASSUME Own, NEW p \in table PROVE Part(who[p]) = Condition(mode[p])
  BY DEF Part, PlacesTell
<1>1. (CHOOSE r \in table : who[r] = who[p]) = p
  BY DEF Own
<1>2. QED
  BY <1>1 DEF Part, Condition

LEMMA PartWillBe == Own' => PlacesTell'
BY PartIs, PTL

LEMMA Conditions ==
  /\ \A m \in Alive : Condition(m) = "up"
  /\ \A m \in Exited : Condition(m) = m /\ m \in Group!Ended
  /\ \A m \in Alive \cup Exited : Condition(m) # "absent"
BY DEF Alive, Exited, Condition, Group!Ended

LEMMA PartAbsent ==
  ASSUME TypeOK, Own
  PROVE  /\ \A p \in table : mode[p] \in Alive \cup Exited /\ Part(who[p]) # "absent"
         /\ \A k \in Key : Part(k) = "absent" <=> \A p \in table : who[p] # k
<1>1. \A p \in table : mode[p] \in Alive \cup Exited
  BY DEF TypeOK, Own, TracksChildren
<1>2. \A p \in table : Part(who[p]) # "absent"
  BY <1>1, PartIs, Conditions DEF PlacesTell
<1>3. QED
  BY <1>1, <1>2, PartIs DEF PlacesTell

\* A process started in an empty place, or in that of the one just reaped.
LEMMA StartParts ==
  ASSUME TypeOK, Own, NEW k \in Key, NEW Gone \in SUBSET table, NEW b,
         \A p \in table : who[p] = k <=> p \in Gone,
         Start(k, Gone, b)
  PROVE  Parts' = [Parts EXCEPT ![k] = "up"]
<1>1. Own' /\ \E q \in Pid : Replaced(k, Gone, b, q)
  BY StartFacts
<1>2. PICK q \in Pid : Replaced(k, Gone, b, q)
  BY <1>1
<1>3. PlacesTell /\ PlacesTell'
  BY <1>1, PartIs, PartWillBe
<1>4. Part(k)' = "up"
  <2>1. q \in table' /\ who'[q] = k /\ mode'[q] = "loading"
    BY <1>2 DEF Replaced
  <2>2. Condition("loading") = "up"
    BY DEF Condition, Alive
  <2>3. QED
    BY <1>3, <2>1, <2>2 DEF PlacesTell
<1>5. ASSUME NEW j \in Key, j # k PROVE Part(j)' = Part(j)
  <2>1. \A p \in table : who[p] = j => p \in table' /\ who'[p] = j /\ mode'[p] = mode[p]
    BY <1>2, <1>5 DEF Replaced
  <2>2. \A p \in table' : who'[p] = j => p \in table /\ who[p] = j
    BY <1>2, <1>5 DEF Replaced
  <2>3. CASE \A p \in table : who[p] # j
    BY <1>3, <2>2, <2>3 DEF PlacesTell
  <2>4. CASE \E p \in table : who[p] = j
    BY <1>3, <2>1, <2>4 DEF PlacesTell
  <2>5. QED
    BY <2>3, <2>4
<1>6. QED
  BY <1>4, <1>5 DEF Parts

\* The place of a child that is reaped and not replaced.
LEMMA LoseParts ==
  ASSUME TypeOK, Own, NEW p \in table, Lose(p)
  PROVE  Parts' = [Parts EXCEPT ![who[p]] = "absent"]
<1>1. /\ Own' /\ table' = table \ {p}
      /\ \A r \in table' : who'[r] = who[r] /\ mode'[r] = mode[r]
  BY LoseFacts
<1>2. PlacesTell /\ PlacesTell' /\ who[p] \in Key
  BY <1>1, PartIs, PartWillBe DEF Own
<1>3. \A r \in table' : who'[r] # who[p]
  BY <1>1 DEF Own
<1>4. ASSUME NEW k \in Key, k = who[p] PROVE Part(k)' = "absent"
  BY <1>2, <1>3, <1>4 DEF PlacesTell
<1>5. ASSUME NEW k \in Key, k # who[p] PROVE Part(k)' = Part(k)
  <2>1. CASE \A r \in table : who[r] # k
    BY <1>1, <1>2, <2>1 DEF PlacesTell
  <2>2. CASE \E r \in table : who[r] = k
    BY <1>1, <1>2, <1>5, <2>2 DEF PlacesTell
  <2>3. QED
    BY <2>1, <2>2
<1>6. QED
  BY <1>4, <1>5 DEF Parts

\* A child that does something else, and the others.
LEMMA ModeParts ==
  ASSUME TypeOK, Own, Own', UNCHANGED <<table, who>>, NEW p \in table, NEW m \in Alive \cup Exited,
         mode' = [mode EXCEPT ![p] = m]
  PROVE  Parts' = [Parts EXCEPT ![who[p]] = Condition(m)]
<1>1. PlacesTell /\ PlacesTell' /\ p \in Pid
  BY PartIs, PartWillBe DEF TypeOK
<1>2. mode'[p] = m /\ \A r \in table : r # p => mode'[r] = mode[r]
  BY <1>1 DEF TypeOK
<1>3. ASSUME NEW k \in Key, k = who[p] PROVE Part(k)' = Condition(m)
  BY <1>1, <1>2, <1>3 DEF PlacesTell
<1>4. ASSUME NEW k \in Key, k # who[p] PROVE Part(k)' = Part(k)
  <2>1. CASE \A r \in table : who[r] # k
    BY <1>1, <2>1 DEF PlacesTell
  <2>2. CASE \E r \in table : who[r] = k
    BY <1>1, <1>2, <1>4, <2>2 DEF PlacesTell
  <2>3. QED
    BY <2>1, <2>2
<1>5. QED
  BY <1>3, <1>4 DEF Parts

\* The children that are alive stay so and the others stay what they are.
LEMMA SameParts ==
  ASSUME Own, Own', UNCHANGED <<table, who>>,
         \A p \in table : Condition(mode'[p]) = Condition(mode[p])
  PROVE  Parts' = Parts
<1>1. PlacesTell /\ PlacesTell'
  BY PartIs, PartWillBe
<1>2. ASSUME NEW k \in Key PROVE Part(k)' = Part(k)
  <2>1. CASE \A r \in table : who[r] # k
    BY <1>1, <2>1 DEF PlacesTell
  <2>2. CASE \E r \in table : who[r] = k
    BY <1>1, <2>2 DEF PlacesTell
  <2>3. QED
    BY <2>1, <2>2
<1>3. QED
  BY <1>2 DEF Parts

LEMMA PidFacts ==
  ASSUME TypeOK, Own
  PROVE  /\ \A w \in Worker : workerPid[w] # NoPid => workerPid[w] \in table /\ who[workerPid[w]] = w
         /\ \A p \in table : who[p] \in Worker => workerPid[who[p]] = p
         /\ NoPid \notin table /\ stale \subseteq WorkerPids
<1>1. \A w \in Worker : {p \in table : who[p] = w} = {workerPid[w]} \ {NoPid}
  BY DEF Own, TracksChildren
<1>2. NoPid \notin table
  BY SupervisorAssumption DEF TypeOK
<1>3. \A w \in Worker, p \in table : who[p] = w => workerPid[w] = p
  BY <1>1
<1>4. \A w \in Worker : workerPid[w] # NoPid => workerPid[w] \in table /\ who[workerPid[w]] = w
  BY <1>1
<1>5. QED
  BY <1>2, <1>3, <1>4 DEF Own

\* The workers that are older than the model cache, after a start and a loss.
LEMMA StartOld ==
  ASSUME TypeOK, Own, NEW k \in Key, NEW Gone \in SUBSET table, NEW b,
         \A p \in table : who[p] = k <=> p \in Gone,
         Start(k, Gone, b)
  PROVE  Old' = IF k = Cache THEN {w \in Worker : Parts[w] # "absent"} ELSE Old \ {k}
<1>1. PICK q \in Free \cup Gone :
        /\ workerPid' = [w \in Worker |-> IF w = k THEN q ELSE workerPid[w]]
        /\ stale' = IF k = Cache THEN {p \in table : who[p] \in Worker} ELSE stale \ Gone
  BY Zenon DEF Start
<1>2. q \notin table \ Gone
  BY DEF Free, TypeOK, Own, TracksChildren
<1>3. CASE k = Cache
  <2>1. \A w \in Worker : workerPid'[w] = workerPid[w]
    BY <1>1, <1>3, Keys
  <2>2. \A w \in Worker : workerPid[w] \in stale' <=> workerPid[w] # NoPid
    BY <1>1, <1>3, PidFacts
  <2>3. \A w \in Worker : workerPid[w] # NoPid <=> Parts[w] # "absent"
    BY PidFacts, PartAbsent, Keys DEF Parts
  <2>4. QED
    BY <1>3, <2>1, <2>2, <2>3 DEF Old
<1>4. CASE k # Cache
  <2>1. ASSUME NEW w \in Worker, w = k PROVE workerPid'[w] \notin stale'
    BY <1>1, <1>2, <1>4, <2>1, PidFacts DEF WorkerPids
  <2>2. ASSUME NEW w \in Worker, w # k PROVE workerPid'[w] \in stale' <=> workerPid[w] \in stale
    BY <1>1, <1>4, <2>2, PidFacts DEF WorkerPids
  <2>3. QED
    BY <1>4, <2>1, <2>2 DEF Old
<1>5. QED
  BY <1>3, <1>4

LEMMA LoseOld ==
  ASSUME TypeOK, Own, NEW p \in table, Lose(p)
  PROVE  Old' = Old \ {who[p]}
<1>1. /\ workerPid' = [w \in Worker |-> IF w = who[p] THEN NoPid ELSE workerPid[w]]
      /\ stale' = stale \ {p}
  BY DEF Lose
<1>2. ASSUME NEW w \in Worker, w = who[p] PROVE workerPid'[w] \notin stale'
  BY <1>1, <1>2, PidFacts DEF WorkerPids
<1>3. ASSUME NEW w \in Worker, w # who[p] PROVE workerPid'[w] \in stale' <=> workerPid[w] \in stale
  BY <1>1, <1>3, PidFacts DEF WorkerPids
<1>4. QED
  BY <1>2, <1>3 DEF Old

\* A step that starts, reaps and signals nothing.
LEMMA QuietParts ==
  ASSUME UNCHANGED <<table, who, mode, workerPid, stale>>
  PROVE  Parts' = Parts /\ Old' = Old
BY DEF Parts, Part, Old

\* What start() has started, and that a cache which is waited for was started.
Assembled ==
  /\ pc = "bootapi" => next = 0
  /\ pc \in {"bootwait", "bootapi", "bootworkers", "wait"} => Parts[Cache] # "absent"
  /\ pc = "bootworkers" => /\ Parts[Api] # "absent"
                           /\ \A w \in Worker : w < next => Parts[w] # "absent"

LEMMA BootGroup ==
  ASSUME IInv, Assembled, Boot
  PROVE  Group!GNext /\ Assembled'
<1> USE Keys DEF IInv
<1> DEFINE Quiet == /\ UNCHANGED <<table, who, mode, workerPid, stale, backend, open>>
                    /\ (running' \/ pc' = "boot") = (running \/ pc = "boot")
<1>1. ASSUME Quiet, Phase' = Phase PROVE Group!GNext
  BY <1>1, QuietParts DEF Parts, Old, Group!GNext, Group!GKeep, Group!gvars
<1>2. CASE BootCache
  <2>1. /\ Phase = "boot" /\ Phase' = "boot" /\ table = {} /\ pc = "boot" /\ running' = TRUE
        /\ UNCHANGED <<backend, open>>
    BY <1>2 DEF BootCache, Phase, Stages, breaker
  <2>2. CASE Start(Cache, {}, backend) /\ pc' = "bootwait"
    <3>1. /\ Parts' = [Parts EXCEPT ![Cache] = "up"]
          /\ Old' = {w \in Worker : Parts[w] # "absent"}
      BY <2>1, <2>2, StartParts, StartOld
    <3>2. \A k \in Key : Parts[k] = "absent"
      BY <2>1, PartAbsent DEF Parts
    <3>3. Old' = {} /\ Old = {}
      BY <2>1, <3>1, <3>2 DEF Old, Own, WorkerPids
    <3>4. Group!GBoot(Cache)
      BY <2>1, <3>1, <3>2, <3>3 DEF Group!GBoot, Parts, Old
    <3>5. Assembled'
      BY <2>2, <3>1 DEF Assembled, Parts
    <3>6. QED
      BY <3>4, <3>5 DEF Group!GNext
  <2>3. CASE pc' = "abort" /\ UNCHANGED <<known, child>>
    BY <1>1, <2>1, <2>3 DEF known, child, Assembled
  <2>4. QED
    BY <1>2, <2>2, <2>3 DEF BootCache
<1>3. CASE (ModelReady /\ pc = "bootwait") \/ ModelNotReady
  <2>1. Quiet /\ Phase' = Phase
    BY <1>3 DEF ModelReady, ModelNotReady, known, child, breaker, Phase
  <2>2. pc' \in {"bootapi", "abort", "reap"} /\ (pc' = "bootapi" => pc = "bootwait")
    BY <1>3 DEF ModelReady, ModelNotReady
  <2>3. pc' = "bootapi" => next' = 0
    BY <1>3, <2>2 DEF ModelReady, ModelNotReady
  <2>4. Assembled'
    BY <2>1, <2>2, <2>3, QuietParts DEF Assembled
  <2>5. QED
    BY <1>1, <2>1, <2>4
<1>4. CASE ModelReady /\ pc = "wait"
  <2>1. Quiet /\ Phase = "tend" /\ Phase' = "retire" /\ pc' = "replace"
    BY <1>4 DEF ModelReady, known, child, breaker, Phase
  <2>2. Parts[Cache] # "absent" /\ Parts' = Parts /\ Old' = Old
    BY <1>4, <2>1, QuietParts DEF Assembled
  <2>3. Group!GRenew
    BY <2>1, <2>2 DEF Group!GRenew, Parts, Old
  <2>4. QED
    BY <2>1, <2>3 DEF Group!GNext, Assembled
<1>5. CASE BootApi
  <2>1. /\ Phase = "boot" /\ Phase' = "boot" /\ pc = "bootapi" /\ running' = running
        /\ UNCHANGED <<backend, open>> /\ Parts[Cache] # "absent"
        /\ pc' # "boot"
    BY <1>5 DEF BootApi, Phase, breaker, Assembled
  <2>2. CASE Start(Api, {}, backend) /\ pc' = "bootworkers"
    <3>0. \A p \in table : who[p] # Api
      BY <2>1 DEF Stages
    <3>1. Parts' = [Parts EXCEPT ![Api] = "up"] /\ Old' = Old \ {Api} /\ Parts[Api] = "absent"
      BY <2>2, <3>0, StartParts, StartOld, PartAbsent DEF Parts
    <3>2. Old' = Old
      BY <3>1 DEF Old
    <3>3. Group!GBoot(Api)
      BY <2>1, <3>1, <3>2 DEF Group!GBoot, Parts, Old
    <3>4. Assembled'
      <4>1. next' = 0
        BY <1>5 DEF BootApi, Assembled
      <4>2. Parts'[Cache] # "absent" /\ Parts'[Api] # "absent"
        BY <2>1, <3>1 DEF Parts
      <4>3. QED
        BY <2>2, <4>1, <4>2 DEF Assembled, Worker
    <3>5. QED
      BY <3>3, <3>4 DEF Group!GNext
  <2>3. CASE pc' = "abort" /\ UNCHANGED <<known, child>>
    BY <1>1, <2>1, <2>3 DEF known, child, Assembled
  <2>4. QED
    BY <1>5, <2>2, <2>3 DEF BootApi
<1>6. CASE BootWorker
  <2>1. /\ Phase = "boot" /\ pc = "bootworkers" /\ running' = running /\ pc' # "boot"
        /\ UNCHANGED <<backend, open>> /\ Parts[Cache] # "absent" /\ Parts[Api] # "absent"
        /\ \A w \in Worker : w < next => Parts[w] # "absent"
    BY <1>6 DEF BootWorker, Phase, breaker, Assembled
  <2>2. CASE next = WorkerCount /\ pc' = "top" /\ UNCHANGED <<known, child>>
    <3>1. \A k \in Key : Parts[k] # "absent"
      BY <2>1, <2>2 DEF Key, Worker
    <3>2. Phase' = "tend" /\ Parts' = Parts /\ Old' = Old
      BY <2>2, QuietParts DEF Phase, known, child
    <3>3. Group!GBooted
      BY <2>1, <3>1, <3>2 DEF Group!GBooted, Parts, Old
    <3>4. QED
      BY <2>2, <3>3 DEF Group!GNext, Assembled
  <2>3. CASE next < WorkerCount /\ Start(next, {}, backend) /\ next' = next + 1 /\ pc' = pc
    <3>1. next \in Worker /\ next \in Key /\ next # Cache
      BY <2>3 DEF TypeOK, Worker
    <3>2. \A p \in table : who[p] # next
      BY <2>1, <3>1 DEF Stages, Worker
    <3>3. Parts' = [Parts EXCEPT ![next] = "up"] /\ Old' = Old \ {next} /\ Parts[next] = "absent"
      BY <2>3, <3>1, <3>2, StartParts, StartOld, PartAbsent DEF Parts
    <3>4. Old' = Old
      BY <3>1, <3>2, <3>3, PidFacts DEF Old, WorkerPids
    <3>5. Phase' = "boot"
      BY <2>1, <2>3 DEF Phase
    <3>6. Group!GBoot(next)
      BY <2>1, <2>3, <3>3, <3>4, <3>5 DEF Group!GBoot, Parts, Old
    <3>7. Assembled'
      <4>1. \A j \in Key : Parts'[j] = IF j = next THEN "up" ELSE Parts[j]
        BY <3>3 DEF Parts
      <4>2. \A w \in Worker : w < next + 1 => w < next \/ w = next
        BY <3>1 DEF Worker
      <4>3. QED
        BY <2>1, <2>3, <4>1, <4>2 DEF Assembled
    <3>8. QED
      BY <3>1, <3>6, <3>7 DEF Group!GNext
  <2>4. CASE pc' = "abort" /\ UNCHANGED <<next, known, child>>
    <3>1. Phase' = "boot"
      BY <2>4 DEF Phase
    <3>2. QED
      BY <1>1, <2>1, <2>4, <3>1 DEF known, child, Assembled
  <2>5. QED
    BY <1>6, <2>2, <2>3, <2>4 DEF BootWorker
<1>7. QED
  BY <1>2, <1>3, <1>4, <1>5, <1>6 DEF Boot, ModelReady

LEMMA LoopGroup ==
  ASSUME IInv, IInv', Assembled, Loop \/ NoneDead \/ Drain \/ CheckLiveness \/ Shutdown
  PROVE  Group!GNext /\ Assembled'
<1> USE DEF IInv
<1>1. CASE Loop \/ NoneDead \/ Drain
  <2>1. /\ UNCHANGED <<running, table, who, mode, workerPid, stale, backend, open>>
        /\ pc \in {"top", "reap", "drain"} /\ pc' \in {"reap", "drain", "check"}
    BY <1>1 DEF Loop, NoneDead, Drain, known, child, breaker
  <2>2. Parts' = Parts /\ Old' = Old
    BY <2>1, QuietParts
  <2>3. Group!GKeep
    BY <2>1, <2>2 DEF Group!GKeep, Group!gvars, Phase, Parts, Old
  <2>4. QED
    BY <2>1, <2>3 DEF Group!GNext, Assembled
<1>2. CASE CheckLiveness
  <2>1. /\ UNCHANGED <<running, table, who, workerPid, stale, backend, open>>
        /\ pc = "check" /\ pc' = "top"
    BY <1>2 DEF CheckLiveness, breaker
  <2>2. \A p \in table : Condition(mode'[p]) = Condition(mode[p])
    <3>1. "killed" \in Alive
      BY DEF Alive
    <3>2. ASSUME NEW p \in Pid
          PROVE  mode'[p] = mode[p] \/ (mode'[p] = "killed" /\ mode[p] \in Alive)
      BY <1>2 DEF CheckLiveness
    <3>3. QED
      BY <3>1, <3>2, Conditions DEF TypeOK
  <2>3. Parts' = Parts /\ Old' = Old
    BY <2>1, <2>2, SameParts DEF Old
  <2>4. Group!GKeep
    BY <2>1, <2>3 DEF Group!GKeep, Group!gvars, Phase, Parts, Old
  <2>5. QED
    BY <2>1, <2>4 DEF Group!GNext, Assembled
<1>3. CASE Shutdown
  <2>1. /\ pc = "abort" \/ (pc = "top" /\ ~running)
        /\ pc' = "stopped" /\ running' = FALSE /\ table' = {} /\ stale' = {}
        /\ UNCHANGED <<backend, open>>
    BY <1>3 DEF Shutdown, breaker
  <2>2. Parts' = [k \in Key |-> "absent"] /\ Old' = {}
    BY <2>1 DEF Parts, Part, Old
  <2>3. Phase' = "off"
    BY <2>1 DEF Phase
  <2>4. CASE pc = "abort"
    <3>1. Phase = "boot"
      BY <2>4 DEF Phase
    <3>2. Group!GDisband
      BY <2>1, <2>2, <2>3, <3>1 DEF Group!GDisband, Parts, Old
    <3>3. QED
      BY <2>1, <3>2 DEF Group!GNext, Assembled
  <2>5. CASE pc = "top" /\ ~running
    <3>1. Phase = "tend"
      BY <2>5 DEF Phase
    <3>2. Group!GDisband
      BY <2>1, <2>2, <2>3, <2>5, <3>1 DEF Group!GDisband, Parts, Old
    <3>3. QED
      BY <2>1, <3>2 DEF Group!GNext, Assembled
  <2>6. QED
    BY <2>1, <2>4, <2>5
<1>4. QED
  BY <1>1, <1>2, <1>3

\* The death that is handled, and the device of the worker afterwards.
LEMMA CrashedGroup ==
  ASSUME IInv, NEW p \in Pid, Reaps(p)
  PROVE  /\ p \in table /\ who[p] \in Key /\ pc = "reap" /\ Phase = "tend"
         /\ \A q \in table : who[q] = who[p] <=> q \in {p}
         /\ Parts[who[p]] = mode[p] /\ mode[p] \in Group!Ended
         /\ CleanExit(p) => backend' = Group!Demoted(who[p])
         /\ Reassign(p) => backend' = Group!Demoted(who[p])
         /\ Crashed(p) => backend' = Group!Demoted(who[p]) /\ mode[p] # "clean"
<1> USE DEF IInv
<1>1. /\ p \in table /\ who[p] \in Key /\ pc = "reap"
      /\ \A q \in table : who[q] = who[p] <=> q \in {p}
  BY Reaping
<1>2. Phase = "tend"
  BY <1>1 DEF Phase
<1>3. Parts[who[p]] = mode[p] /\ mode[p] \in Group!Ended
  <2>1. mode[p] \in Exited
    BY DEF Reaps
  <2>2. QED
    BY <1>1, <2>1, PartIs, Conditions DEF PlacesTell, Parts
<1>4. Group!Demoted(who[p]) =
        IF running /\ who[p] \in Worker /\ mode[p] = "fault"
          THEN [backend EXCEPT ![who[p]] = "cpu"] ELSE backend
  BY <1>1, <1>3 DEF Group!Demoted, Parts
<1>5. who[p] \in Worker /\ backend[who[p]] # "cuda" => backend = [backend EXCEPT ![who[p]] = "cpu"]
  BY DEF TypeOK
<1>6. CleanExit(p) => backend' = Group!Demoted(who[p])
  BY <1>4 DEF CleanExit
<1>7. Reassign(p) => backend' = Group!Demoted(who[p])
  BY <1>4 DEF Reassign, Reassignable
<1>8. Crashed(p) => backend' = Group!Demoted(who[p]) /\ mode[p] # "clean"
  BY <1>4, <1>5 DEF Crashed, Reassignable
<1>9. QED
  BY <1>1, <1>2, <1>3, <1>6, <1>7, <1>8

LEMMA HandleGroup ==
  ASSUME IInv, NEW p \in Pid, HandleCrash(p)
  PROVE  Group!GNext /\ Assembled'
<1> USE DEF IInv
<1>1. Reaps(p)
  BY DEF HandleCrash, CleanExit, Reassign, CrashWhileStopping, CrashOpens, CrashRestarts,
         CrashNotRestarted, Crashed
<1>2. /\ p \in table /\ who[p] \in Key /\ pc = "reap" /\ Phase = "tend"
      /\ \A q \in table : who[q] = who[p] <=> q \in {p}
      /\ Parts[who[p]] = mode[p] /\ mode[p] \in Group!Ended
      /\ CleanExit(p) => backend' = Group!Demoted(who[p])
      /\ Reassign(p) => backend' = Group!Demoted(who[p])
      /\ Crashed(p) => backend' = Group!Demoted(who[p]) /\ mode[p] # "clean"
  BY <1>1, CrashedGroup
<1>3. ASSUME Lose(p), pc' = "reap", running' = running, backend' = Group!Demoted(who[p]),
             \/ open' = open
             \/ running /\ mode[p] # "clean" /\ open' = open \cup {who[p]}
      PROVE  Group!GNext /\ Assembled'
  <2>1. Parts' = [Parts EXCEPT ![who[p]] = "absent"] /\ Old' = Old \ {who[p]}
    BY <1>2, <1>3, LoseParts, LoseOld
  <2>2. Phase' = "tend"
    BY <1>3 DEF Phase
  <2>3. PICK k \in Key : k = who[p]
    BY <1>2
  <2>4. Group!GNext
    <3>1. Group!Demoted(who[p]) = Group!Demoted(k)
      BY <2>3
    <3>2. Group!GBury(k)
      BY <1>2, <1>3, <2>1, <2>2, <2>3, <3>1 DEF Group!GBury, Parts, Old
    <3>3. QED
      BY <3>2 DEF Group!GNext
  <2>5. Assembled'
    BY <1>3 DEF Assembled
  <2>6. QED
    BY <2>4, <2>5
<1>4. ASSUME NEW b, Start(who[p], {p}, b), pc' = "reap" \/ (pc' = "wait" /\ who[p] = Cache),
             running, running' = running, backend' = Group!Demoted(who[p]), open' = open,
             mode[p] # "clean"
      PROVE  Group!GNext /\ Assembled'
  <2>1. /\ Parts' = [Parts EXCEPT ![who[p]] = "up"]
        /\ Old' = IF who[p] = Cache THEN {w \in Worker : Parts[w] # "absent"} ELSE Old \ {who[p]}
    BY <1>2, <1>4, StartParts, StartOld
  <2>2. Phase' = "tend"
    BY <1>4 DEF Phase
  <2>3. {w \in Worker : Parts[w] # "absent"} = {w \in Worker : [k \in Key |-> Part(k)][w] # "absent"}
    BY DEF Parts
  <2>4. mode[p] \in {"fault", "crash"}
    BY <1>2, <1>4 DEF Group!Ended
  <2>5. PICK k \in Key : k = who[p]
    BY <1>2
  <2>6. Parts'[Cache] # "absent" \/ who[p] # Cache
    BY <1>2, <2>1 DEF Parts
  <2>7. Group!GNext
    <3>1. Group!Demoted(who[p]) = Group!Demoted(k)
      BY <2>5
    <3>2. Group!GRestart(k)
      BY <1>2, <1>4, <2>1, <2>2, <2>3, <2>4, <2>5, <3>1 DEF Group!GRestart, Parts, Old
    <3>3. QED
      BY <3>2 DEF Group!GNext
  <2>8. Assembled'
    BY <1>4, <2>6 DEF Assembled
  <2>9. QED
    BY <2>7, <2>8
<1>5. CASE CleanExit(p)
  BY <1>2, <1>3, <1>5 DEF CleanExit, control, breaker
<1>6. CASE Reassign(p)
  <2>1. mode[p] # "clean" /\ running
    BY <1>6 DEF Reassign, Reassignable
  <2>2. Start(who[p], {p}, backend') /\ pc' = "reap" /\ running' = running /\ open' = open
    BY <1>2, <1>6 DEF Reassign, control, breaker
  <2>3. QED
    BY <1>2, <1>4, <1>6, <2>1, <2>2
<1>7. CASE CrashWhileStopping(p) \/ CrashOpens(p) \/ CrashNotRestarted(p)
  BY <1>2, <1>3, <1>7 DEF CrashWhileStopping, CrashOpens, CrashNotRestarted, control
<1>8. CASE CrashRestarts(p)
  <2>1. /\ Crashed(p) /\ Start(who[p], {p}, backend') /\ running /\ running' = running
        /\ open' = open /\ pc' = IF who[p] = Cache THEN "wait" ELSE "reap"
    BY <1>2, <1>8 DEF CrashRestarts
  <2>2. QED
    BY <1>2, <1>4, <2>1
<1>9. QED
  BY <1>5, <1>6, <1>7, <1>8 DEF HandleCrash

LEMMA ReplaceGroup ==
  ASSUME IInv, IInv', Assembled, Replace
  PROVE  Group!GNext /\ Assembled'
<1> USE Keys DEF IInv
<1>1. pc \in {"replace", "waitpid", "restart"} /\ pc' \in {"replace", "waitpid", "restart", "reap"}
  BY DEF Replace, StopNext, WaitpidReturns, AllStopped, StartNext, AllStarted
<1>2. Assembled'
  BY <1>1 DEF Assembled
<1>3. UNCHANGED <<running, backend, open>>
  BY DEF Replace, StopNext, WaitpidReturns, AllStopped, StartNext, AllStarted, breaker
<1>4. (running' \/ pc' = "boot") = (running \/ pc = "boot")
  BY <1>1, <1>3
<1>5. ASSUME Parts' = Parts, Old' = Old, Phase' = Phase PROVE Group!GNext
  BY <1>3, <1>4, <1>5 DEF Group!GNext, Group!GKeep, Group!gvars, Parts, Old
<1>6. CASE StopNext
  <2>1. /\ UNCHANGED <<table, who, workerPid, stale>>
        /\ pc = "replace" /\ pc' \in {"replace", "waitpid"} /\ next \in Worker
    BY <1>6 DEF StopNext, known, TypeOK, Worker
  <2>2. ASSUME NEW p \in table PROVE Condition(mode'[p]) = Condition(mode[p])
    <3>1. mode'[p] = mode[p] \/ (mode[p] = "serving" /\ mode'[p] = "stopping")
      BY <1>6 DEF StopNext, TypeOK
    <3>2. Condition("serving") = Condition("stopping")
      BY DEF Condition, Alive
    <3>3. QED
      BY <3>1, <3>2
  <2>3. Parts' = Parts /\ Old' = Old
    BY <2>1, <2>2, SameParts DEF Old
  <2>4. Phase' = Phase
    BY <2>1 DEF Phase
  <2>5. QED
    BY <1>2, <1>5, <2>3, <2>4
<1>7. CASE WaitpidReturns
  <2>1. PICK w \in Worker : w = next
    BY <1>7 DEF WaitpidReturns, Stages
  <2>2. workerPid[w] \in table /\ mode[workerPid[w]] \in Exited /\ Lose(workerPid[next])
    BY <1>7, <2>1 DEF WaitpidReturns, Stages
  <2>3. PICK p \in table : p = workerPid[w] /\ who[p] = w
    BY <2>2, PidFacts
  <2>4. Lose(p)
    BY <2>1, <2>2, <2>3 DEF Lose
  <2>5. Parts' = [Parts EXCEPT ![w] = "absent"] /\ Old' = Old \ {w}
    BY <2>3, <2>4, LoseParts, LoseOld
  <2>6. Parts[w] \in Group!Ended
    BY <2>2, <2>3, PartIs, Conditions DEF PlacesTell, Parts
  <2>7. Phase = "retire" /\ Phase' = "retire"
    BY <1>7 DEF WaitpidReturns, Phase
  <2>8. Group!GRetire(w)
    BY <1>3, <1>4, <2>5, <2>6, <2>7 DEF Group!GRetire, Parts, Old
  <2>9. QED
    BY <1>2, <2>8 DEF Group!GNext
<1>8. CASE AllStopped
  <2>1. \A w \in Worker : workerPid[w] = NoPid
    BY <1>8 DEF AllStopped, Stages, Worker
  <2>2. \A w \in Worker : Parts[w] = "absent"
    BY <2>1, PidFacts, PartAbsent DEF Parts
  <2>3. Parts' = Parts /\ Old' = Old /\ Phase = "retire" /\ Phase' = "refill"
    BY <1>8, QuietParts DEF AllStopped, known, child, Phase
  <2>4. Group!GRefill
    BY <1>3, <1>4, <2>2, <2>3 DEF Group!GRefill, Parts, Old
  <2>5. QED
    BY <1>2, <2>4 DEF Group!GNext
<1>9. CASE StartNext
  <2>1. Phase = "refill" /\ Phase' = "refill"
    BY <1>9 DEF StartNext, Phase
  <2>2. PICK w \in Worker : w = next
    BY <1>9 DEF StartNext, TypeOK, Worker
  <2>3. CASE workerPid[next] = NoPid /\ Start(next, {}, backend)
    <3>1. w \in Key /\ w # Cache /\ \A p \in table : who[p] # w
      BY <2>2, <2>3, PidFacts DEF TypeOK
    <3>2. Start(w, {}, backend)
      BY <2>2, <2>3
    <3>3. Parts' = [Parts EXCEPT ![w] = "up"] /\ Old' = Old \ {w} /\ Parts[w] = "absent"
      BY <3>1, <3>2, StartParts, StartOld, PartAbsent DEF Parts
    <3>4. Old' = Old
      BY <2>2, <2>3, <3>3, PidFacts DEF Old, WorkerPids
    <3>5. Group!GReplace(w)
      BY <1>3, <1>4, <2>1, <3>3, <3>4 DEF Group!GReplace, Parts, Old
    <3>6. QED
      BY <1>2, <3>5 DEF Group!GNext
  <2>4. CASE UNCHANGED <<known, child>>
    <3>1. Parts' = Parts /\ Old' = Old
      BY <2>4, QuietParts DEF known, child
    <3>2. QED
      BY <1>2, <1>5, <2>1, <3>1
  <2>5. QED
    BY <1>9, <2>3, <2>4 DEF StartNext
<1>10. CASE AllStarted
  <2>1. Parts' = Parts /\ Old' = Old /\ Phase = "refill" /\ Phase' = "tend"
    BY <1>10, QuietParts DEF AllStarted, known, child, Phase
  <2>2. Old = {}
    BY <1>10 DEF AllStarted, Stages, Old
  <2>3. Group!GRenewed
    BY <1>3, <1>4, <2>1, <2>2 DEF Group!GRenewed, Parts, Old
  <2>4. QED
    BY <1>2, <2>3 DEF Group!GNext
<1>11. QED
  BY <1>6, <1>7, <1>8, <1>9, <1>10 DEF Replace

LEMMA EnvironmentGroup ==
  ASSUME IInv, IInv', Assembled, Environment
  PROVE  Group!GNext /\ Assembled'
<1> USE Keys DEF IInv
<1>1. CASE RequestStop
  <2>1. /\ UNCHANGED <<pc, next, backend, open>> /\ running /\ running' = FALSE
        /\ Parts' = Parts /\ Old' = Old /\ Phase' = Phase
    BY <1>1, QuietParts DEF RequestStop, known, child, breaker, Phase
  <2>2. CASE pc = "boot"
    BY <2>1, <2>2 DEF Group!GNext, Group!GKeep, Group!gvars, Parts, Old, Assembled
  <2>3. CASE pc # "boot"
    <3>1. Group!GAsk
      BY <2>1, <2>3 DEF Group!GAsk, Parts, Old
    <3>2. QED
      BY <2>1, <3>1 DEF Group!GNext, Assembled
  <2>4. QED
    BY <2>2, <2>3
<1>2. CASE StartAgain
  <2>1. /\ UNCHANGED <<table, who, mode, workerPid, stale>> /\ pc = "stopped" /\ pc' = "boot"
        /\ backend' = Planned /\ open' = {} /\ table = {}
    BY <1>2 DEF StartAgain, child, Stages
  <2>2. Parts' = Parts /\ Old' = Old /\ Phase = "off" /\ Phase' = "boot"
    BY <2>1, QuietParts DEF Phase
  <2>3. \A k \in Key : Parts[k] = "absent"
    BY <2>1, PartAbsent DEF Parts
  <2>4. Group!GAssemble
    BY <2>1, <2>2, <2>3 DEF Group!GAssemble, Parts, Old
  <2>5. QED
    BY <2>1, <2>4 DEF Group!GNext, Assembled
<1>3. ASSUME NEW p \in Pid,
             Load(p) \/ Death(p) \/ Fault(p) \/ Wedge(p) \/ Terminate(p) \/ Exit(p)
      PROVE  Group!GNext /\ Assembled'
  <2>1. mode[p] \in Alive /\ p \in table
    BY <1>3 DEF Load, Death, Fault, Wedge, Terminate, Exit, Alive, Own, TracksChildren
  <2>2. PICK m \in Alive \cup Exited : mode' = [mode EXCEPT ![p] = m]
    BY <1>3 DEF Load, Death, Fault, Wedge, Terminate, Exit, Dies, Alive, Exited
  <2>3. UNCHANGED <<control, known, backend, breaker, who, gpu, stale, beats, told>>
    BY <1>3 DEF Load, Death, Fault, Wedge, Terminate, Exit, Dies
  <2>4. UNCHANGED <<pc, running, next, backend, open>> /\ Old' = Old /\ Phase' = Phase
    BY <2>3 DEF control, known, breaker, Old, Phase
  <2>5. PICK k \in Key : k = who[p]
    BY <2>1 DEF Own
  <2>6. Parts[k] = "up"
    BY <2>1, <2>5, PartIs, Conditions DEF PlacesTell, Parts
  <2>7. Parts' = [Parts EXCEPT ![k] = Condition(m)]
    BY <2>1, <2>2, <2>3, <2>5, ModeParts DEF known
  <2>8. CASE m \in Alive
    <3>1. Parts' = Parts
      BY <2>6, <2>7, <2>8, Conditions DEF Parts
    <3>2. QED
      BY <2>4, <3>1 DEF Group!GNext, Group!GKeep, Group!gvars, Parts, Old, Assembled
  <2>9. CASE m \in Exited
    <3>1. Parts'[k] \in Group!Ended /\ Parts' = [Parts EXCEPT ![k] = Parts'[k]]
      BY <2>7, <2>9, Conditions DEF Parts
    <3>2. Group!GEnd(k)
      BY <2>4, <2>6, <3>1 DEF Group!GEnd, Parts, Old
    <3>3. \A j \in Key : Parts[j] # "absent" => Parts'[j] # "absent"
      BY <2>7, Conditions DEF Parts
    <3>4. QED
      BY <2>4, <3>2, <3>3 DEF Group!GNext, Assembled
  <2>10. QED
    BY <2>8, <2>9
<1>4. CASE \/ \E w \in Worker : Beat(w) \/ LimitPasses(w)
           \/ \E k \in Key : Expire(k)
  <2>1. /\ UNCHANGED <<pc, running, next, table, who, mode, workerPid, stale, backend, open>>
    BY <1>4 DEF Beat, LimitPasses, Expire, control, known, child, breaker
  <2>2. Parts' = Parts /\ Old' = Old /\ Phase' = Phase
    BY <2>1, QuietParts DEF Phase
  <2>3. QED
    BY <2>1, <2>2 DEF Group!GNext, Group!GKeep, Group!gvars, Parts, Old, Assembled
<1>5. QED
  BY <1>1, <1>2, <1>3, <1>4 DEF Environment

LEMMA GroupStep == IInv /\ Assembled /\ [Next]_vars => [Group!GNext]_(Group!gvars) /\ Assembled'
<1> SUFFICES ASSUME IInv, Assembled, [Next]_vars
             PROVE  [Group!GNext]_(Group!gvars) /\ Assembled'
  OBVIOUS
<1>1. IInv'
  BY NextInv
<1>2. CASE UNCHANGED vars
  <2>1. UNCHANGED <<pc, running, next, table, who, mode, workerPid, stale, backend, open>>
    BY <1>2 DEF vars, control, known, breaker, child
  <2>2. Parts' = Parts /\ Old' = Old /\ Phase' = Phase
    BY <2>1, QuietParts DEF Phase
  <2>3. QED
    BY <2>1, <2>2 DEF Group!gvars, Parts, Old, Assembled
<1>3. QED
  BY <1>1, <1>2, BootGroup, LoopGroup, HandleGroup, ReplaceGroup, EnvironmentGroup DEF Next, Monitor

\* start(), monitorLoop, handleCrash and restartWorkersAfterModelCacheRestart,
\* with whatever happens to the children meanwhile, are steps of a group that has
\* one place for every process.
THEOREM ImplementsGroupHolds == Spec => ImplementsGroup
<1>1. Init => Group!GInit /\ Assembled
  <2> SUFFICES ASSUME Init PROVE Group!GInit /\ Assembled
    OBVIOUS
  <2>1. table = {} /\ stale = {} /\ pc = "boot" /\ backend = Planned /\ open = {}
    BY DEF Init
  <2>2. Parts = [k \in Key |-> "absent"] /\ Old = {} /\ Phase = "boot"
    BY <2>1 DEF Parts, Part, Old, Phase
  <2>3. QED
    BY <2>1, <2>2 DEF Group!GInit, Parts, Old, Assembled
<1>2. QED
  BY <1>1, GroupStep, Invariance, PTL DEF Spec, ImplementsGroup, Group!GSpec

=============================================================================
