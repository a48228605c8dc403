----------------------- MODULE RequestRegistryProofs -----------------------
(***************************************************************************)
(* Proofs about RequestRegistry, for every set of calls and ids, every time *)
(* to live and every number of crashes and failed writes.                  *)
(***************************************************************************)
EXTENDS RequestRegistry, TLAPS

-----------------------------------------------------------------------------
(* The inductive invariant *)

\* The cache is in order of finishing, which the scan of _evictCompleted
\* relies on, and misses no fresh result.
CacheOrder ==
  /\ \A c \in completed : rank[c] <= settled
  /\ \A c, d \in completed : rank[c] = rank[d] => c = d
  /\ \A c, d \in completed : rank[c] < rank[d] => age[c] >= age[d]
  /\ \A c \in Call : exec[c] = "ok" => c \in completed \/ age[c] > Ttl

\* A dead process has no maps and no writer.
DeadIsEmpty == ~up => ~writing /\ completed = {} /\ \A r \in RequestId : inflight[r] = None

\* The writer carries the open requests, or knows that they changed.
WriterKnows ==
  /\ writing /\ ~pending => payload = Open
  /\ ~writing => ~pending
  /\ \A c \in file : exec[c] = "running" /\ writing => c \in payload
  /\ \A c \in file \cup payload : exec[c] # "none"

\* A call that awaits a promise awaits one that was made.
OwnerRan == \A c \in Call : owner[c] # None => exec[owner[c]] # "none"

IInv == /\ TypeOK /\ OneExecution /\ MapsDisjoint /\ CacheOrder /\ DeadIsEmpty
        /\ WriterKnows /\ OwnerRan /\ SettledIsAnswered /\ FileSettles

-----------------------------------------------------------------------------
(* The scan and the cache *)

\* What the scan of _evictCompleted leaves is fresh, and it drops nothing
\* fresh: stopping at the first fresh entry is as good as looking at all.
LEMMA ScanIsExact ==
  ASSUME TypeOK, CacheOrder
  PROVE  Cached = {c \in completed : age[c] <= Ttl}
<1>1. ASSUME NEW c \in completed, age[c] <= Ttl PROVE c \notin Expired
  BY <1>1, BoundAssumption DEF Expired, TypeOK
<1>2. ASSUME NEW c \in completed, age[c] > Ttl PROVE c \in Expired
  <2>1. ASSUME NEW d \in completed, rank[d] <= rank[c] PROVE age[d] > Ttl
    BY <1>2, <2>1, BoundAssumption DEF TypeOK, CacheOrder
  <2> QED BY <2>1 DEF Expired
<1> QED BY <1>1, <1>2, BoundAssumption DEF Cached, TypeOK

\* So evicting keeps the order of the cache.
LEMMA CachedOrder ==
  ASSUME TypeOK, CacheOrder
  PROVE  /\ Cached \subseteq completed
         /\ \A c \in Call : exec[c] = "ok" => c \in Cached \/ age[c] > Ttl
BY ScanIsExact, BoundAssumption DEF CacheOrder, TypeOK

\* The open requests, by their executions.
LEMMA OpenIsRunning ==
  ASSUME TypeOK, OneExecution
  PROVE  Open = {c \in Call : exec[c] = "running"}
BY CallAssumption DEF Open, OneExecution, TypeOK

-----------------------------------------------------------------------------
(* Type correctness *)

LEMMA TypeInit == Init => TypeOK
<1> SUFFICES ASSUME Init PROVE TypeOK
  OBVIOUS
<1>1. 0 \in 0..(Ttl + 1) /\ 0 \in 0..MaxCrashes /\ 0 \in 0..MaxWriteErrors
  BY BoundAssumption
<1>2. QED BY <1>1 DEF Init, TypeOK, Exec, Reply

LEMMA AnswerType ==
  ASSUME TypeOK, NEW c, NEW r \in Reply, NEW gone, Answer(c, r, gone)
  PROVE  reply' \in [Call -> Reply]
BY DEF TypeOK, Answer, Reply

LEMMA PersistType ==
  ASSUME TypeOK, Persist
  PROVE  /\ writing' \in BOOLEAN /\ pending' \in BOOLEAN /\ stale' \in BOOLEAN
         /\ payload' \subseteq Call /\ file' \subseteq Call
         /\ writeErrors' \in 0..MaxWriteErrors
BY DEF TypeOK, Persist, Open

LEMMA FinishType ==
  ASSUME TypeOK, Finish
  PROVE  writing' \in BOOLEAN /\ pending' \in BOOLEAN /\ payload' \subseteq Call
BY DEF TypeOK, Finish, Open

LEMMA TypeStep == TypeOK /\ [Next]_vars => TypeOK'
<1> SUFFICES ASSUME TypeOK, [Next]_vars PROVE TypeOK'
  OBVIOUS
<1> USE CallAssumption, BoundAssumption
<1>1. Cached \subseteq Call /\ Open \subseteq Call
  BY DEF Cached, Open, TypeOK
<1>2. CASE Snapshot
  BY <1>1, <1>2 DEF Snapshot, TypeOK, callers, writer, process
<1>3. CASE Tick
  BY <1>3 DEF Tick, TypeOK, callers, writer, process
<1>4. CASE Publish
  BY <1>4, FinishType DEF Publish, TypeOK, maps, callers, process
<1>5. CASE WriteFails
  <2>1. writeErrors' \in 0..MaxWriteErrors
    BY <1>5 DEF WriteFails, TypeOK
  <2> QED BY <1>5, <2>1, FinishType DEF WriteFails, TypeOK, maps, callers, process
<1>6. CASE Crash
  <2>1. /\ crashes' \in 0..MaxCrashes
        /\ 0 \in 0..(Ttl + 1)
    BY <1>6 DEF Crash, TypeOK
  <2> QED BY <1>6, <2>1 DEF Crash, TypeOK, Exec, Reply
<1>7. CASE Restart
  BY <1>7 DEF Restart, TypeOK, maps, callers
<1>8. ASSUME NEW c \in Call,
             Replay(c) \/ Join(c) \/ Conflict(c) \/ Begin(c) \/ Succeed(c) \/ Fail(c) \/ Disconnect(c)
      PROVE  TypeOK'
  <2>1. CASE Replay(c)
    BY <1>1, <2>1 DEF Replay, CachedFor, TypeOK, Reply, writer, process
  <2>2. CASE Join(c)
    BY <1>1, <2>2 DEF Join, TypeOK, writer, process
  <2>3. CASE Conflict(c)
    BY <1>1, <2>3 DEF Conflict, TypeOK, Reply, writer, process
  <2>4. CASE Begin(c)
    BY <1>1, <2>4, PersistType DEF Begin, TypeOK, Exec, process
  <2>5. CASE Succeed(c)
    <3>1. reply' \in [Call -> Reply]
      BY <2>5, AnswerType DEF Succeed, Reply
    <3>2. 0 \in 0..(Ttl + 1) /\ "ok" \in Exec
      BY DEF Exec
    <3>3. /\ rank' \in [Call -> Nat] /\ settled' \in Nat
          /\ age' \in [Call -> 0..(Ttl + 1)]
      BY <2>5, <3>2 DEF Succeed, TypeOK
    <3>4. /\ inflight' \in [RequestId -> Call \cup {None}]
          /\ completed' \subseteq Call /\ exec' \in [Call -> Exec]
      BY <2>5, <3>2 DEF Succeed, TypeOK
    <3> QED BY <2>5, <3>1, <3>3, <3>4, PersistType DEF Succeed, TypeOK, process
  <2>6. ASSUME NEW gone, Forget(c, gone) PROVE TypeOK'
    <3>1. reply' \in [Call -> Reply]
      BY <2>6, AnswerType DEF Forget, Reply
    <3>2. "failed" \in Exec
      BY DEF Exec
    <3> QED BY <2>6, <3>1, <3>2, PersistType DEF Forget, TypeOK, process
  <2>7. QED BY <1>8, <2>1, <2>2, <2>3, <2>4, <2>5, <2>6 DEF Fail, Disconnect
<1>9. CASE UNCHANGED vars
  BY <1>9 DEF vars, maps, callers, writer, process, TypeOK
<1> QED BY <1>2, <1>3, <1>4, <1>5, <1>6, <1>7, <1>8, <1>9 DEF Next

\* Every reachable state of the registry is well typed.
THEOREM TypeCorrect == Spec => []TypeOK
<1> QED BY TypeInit, TypeStep, PTL DEF Spec

-----------------------------------------------------------------------------
(* The invariant holds at first, and every step keeps it *)

LEMMA InvInit == Init => IInv
<1> SUFFICES ASSUME Init PROVE IInv
  OBVIOUS
<1>1. TypeOK
  BY TypeInit
<1>2. Open = {}
  BY CallAssumption DEF Init, Open
<1>3. OneExecution
  BY CallAssumption DEF Init, OneExecution
<1>4. MapsDisjoint /\ CacheOrder
  BY DEF Init, MapsDisjoint, CacheOrder
<1>5. DeadIsEmpty /\ WriterKnows /\ FileSettles
  BY <1>2 DEF Init, DeadIsEmpty, WriterKnows, FileSettles
<1>6. OwnerRan /\ SettledIsAnswered
  BY DEF Init, OwnerRan, SettledIsAnswered
<1> QED BY <1>1, <1>3, <1>4, <1>5, <1>6 DEF IInv

\* A step that only evicts and answers: nothing starts or settles.
LEMMA EvictKeeps ==
  ASSUME IInv, TypeOK', completed' = Cached,
         UNCHANGED <<up, inflight, rank, settled, age, exec, writer>>
  PROVE  OneExecution' /\ MapsDisjoint' /\ CacheOrder' /\ DeadIsEmpty' /\ WriterKnows' /\ FileSettles'
<1> USE DEF IInv
<1>1. OneExecution' /\ Open' = Open
  BY DEF OneExecution, Open
<1>2. Cached \subseteq completed
  BY CachedOrder
<1>3. MapsDisjoint'
  BY <1>2 DEF MapsDisjoint
<1>4. CacheOrder'
  BY <1>2, CachedOrder DEF CacheOrder
<1>5. DeadIsEmpty'
  BY <1>2 DEF DeadIsEmpty, writer
<1>6. WriterKnows' /\ FileSettles'
  BY <1>1 DEF WriterKnows, FileSettles, writer
<1> QED BY <1>1, <1>3, <1>4, <1>5, <1>6

\* After _persist the writer carries what is open now, or knows it does not.
LEMMA PersistKeeps ==
  ASSUME IInv, TypeOK', OneExecution', Persist, up', 
         \A c \in file : exec'[c] = "running" => exec[c] = "running",
         \A c \in Call : exec[c] # "none" => exec'[c] # "none"
  PROVE  WriterKnows' /\ FileSettles'
<1> USE DEF IInv
<1>1. Open' = {c \in Call : exec'[c] = "running"}
  BY CallAssumption DEF Open, OneExecution, TypeOK
<1>2. CASE writing
  BY <1>2 DEF Persist, WriterKnows, FileSettles, TypeOK
<1>3. CASE ~writing
  BY <1>1, <1>3 DEF Persist, WriterKnows, FileSettles, TypeOK
<1> QED BY <1>2, <1>3

LEMMA InvStep == IInv /\ [Next]_vars => IInv'
<1> SUFFICES ASSUME IInv, [Next]_vars PROVE IInv'
  OBVIOUS
<1> USE CallAssumption, BoundAssumption DEF IInv
<1>1. TypeOK'
  BY TypeStep
<1>2. Cached \subseteq completed
  BY CachedOrder
<1>3. CASE Snapshot
  <2>1. OneExecution' /\ MapsDisjoint' /\ CacheOrder' /\ DeadIsEmpty' /\ WriterKnows' /\ FileSettles'
    BY <1>1, <1>3, EvictKeeps DEF Snapshot, callers, process
  <2>2. OwnerRan' /\ SettledIsAnswered'
    BY <1>3 DEF Snapshot, OwnerRan, SettledIsAnswered, callers
  <2> QED BY <1>1, <2>1, <2>2
<1>4. CASE Tick
  <2> USE <1>4 DEF Tick, callers, writer, process
  <2>1. OneExecution' /\ MapsDisjoint' /\ DeadIsEmpty' /\ OwnerRan' /\ SettledIsAnswered'
    BY DEF OneExecution, MapsDisjoint, DeadIsEmpty, OwnerRan, SettledIsAnswered
  <2>2. CacheOrder'
    BY DEF CacheOrder, TypeOK
  <2>3. WriterKnows' /\ FileSettles'
    BY DEF WriterKnows, FileSettles, Open
  <2> QED BY <1>1, <2>1, <2>2, <2>3
<1>5. ASSUME Publish \/ WriteFails PROVE IInv'
  <2>1. UNCHANGED <<maps, callers, process>> /\ Finish /\ up /\ writing
    BY <1>5 DEF Publish, WriteFails
  <2>2. OneExecution' /\ MapsDisjoint' /\ DeadIsEmpty' /\ OwnerRan' /\ SettledIsAnswered' /\ CacheOrder'
    BY <2>1 DEF maps, callers, process, OneExecution, MapsDisjoint, DeadIsEmpty,
                OwnerRan, SettledIsAnswered, CacheOrder
  <2>3. Open' = Open /\ Open = {c \in Call : exec[c] = "running"}
    BY <2>1, OpenIsRunning DEF Open, maps
  <2>4. WriterKnows' /\ FileSettles'
    BY <1>5, <2>1, <2>3 DEF Publish, WriteFails, Finish, WriterKnows, FileSettles, TypeOK, callers
  <2> QED BY <1>1, <2>2, <2>4
<1>6. CASE Crash
  <2> USE <1>6 DEF Crash
  <2>1. OneExecution' /\ MapsDisjoint' /\ CacheOrder' /\ DeadIsEmpty'
    BY DEF OneExecution, MapsDisjoint, CacheOrder, DeadIsEmpty, TypeOK
  <2>2. WriterKnows' /\ FileSettles'
    <3>1. \A c \in Call : exec[c] # "none" => exec'[c] # "none"
      BY DEF TypeOK
    <3> QED BY <3>1 DEF WriterKnows, FileSettles, TypeOK
  <2>3. OwnerRan' /\ SettledIsAnswered'
    BY DEF OwnerRan, SettledIsAnswered, TypeOK
  <2> QED BY <1>1, <2>1, <2>2, <2>3
<1>7. CASE Restart
  <2> USE <1>7 DEF Restart, maps, callers
  <2>1. OneExecution' /\ MapsDisjoint' /\ CacheOrder' /\ DeadIsEmpty' /\ OwnerRan' /\ SettledIsAnswered'
    BY DEF OneExecution, MapsDisjoint, CacheOrder, DeadIsEmpty, OwnerRan, SettledIsAnswered
  <2>2. \A c \in Call : exec'[c] # "running"
    BY DEF DeadIsEmpty, OneExecution, TypeOK
  <2>3. Open' = {}
    BY DEF DeadIsEmpty, Open
  <2>4. WriterKnows' /\ FileSettles'
    BY <2>2, <2>3 DEF WriterKnows, FileSettles, TypeOK
  <2> QED BY <1>1, <2>1, <2>4
<1>8. ASSUME NEW c \in Call, Replay(c) \/ Join(c) \/ Conflict(c) PROVE IInv'
  <2>1. completed' = Cached /\ UNCHANGED <<up, inflight, rank, settled, age, exec, writer>>
    BY <1>8 DEF Replay, Join, Conflict, process
  <2>2. OneExecution' /\ MapsDisjoint' /\ CacheOrder' /\ DeadIsEmpty' /\ WriterKnows' /\ FileSettles'
    BY <1>1, <2>1, EvictKeeps
  <2>3. OwnerRan' /\ SettledIsAnswered'
    <3>1. CASE Replay(c)
      BY <1>2, <3>1 DEF Replay, CachedFor, OwnerRan, SettledIsAnswered, MapsDisjoint, TypeOK
    <3>2. CASE Join(c)
      BY <3>2 DEF Join, OwnerRan, SettledIsAnswered, OneExecution, TypeOK
    <3>3. CASE Conflict(c)
      BY <3>3 DEF Conflict, Waiting, OwnerRan, SettledIsAnswered, TypeOK
    <3> QED BY <1>8, <3>1, <3>2, <3>3
  <2> QED BY <1>1, <2>2, <2>3
<1>9. ASSUME NEW c \in Call, Begin(c) PROVE IInv'
  <2> USE <1>9 DEF Begin, Waiting
  <2>1. OneExecution'
    BY DEF OneExecution, TypeOK
  <2>2. MapsDisjoint'
    BY <1>2 DEF MapsDisjoint, CachedFor, TypeOK
  <2>3. CacheOrder'
    BY <1>2, CachedOrder DEF CacheOrder, TypeOK
  <2>4. DeadIsEmpty' /\ OwnerRan'
    BY DEF DeadIsEmpty, OwnerRan, TypeOK, process
  <2>5. SettledIsAnswered'
    BY DEF SettledIsAnswered, TypeOK
  <2>6. c \notin file
    BY DEF WriterKnows
  <2>7. WriterKnows' /\ FileSettles'
    BY <1>1, <2>1, <2>6, PersistKeeps DEF TypeOK, process
  <2> QED BY <1>1, <2>1, <2>2, <2>3, <2>4, <2>5, <2>7
<1>10. ASSUME NEW c \in Call, Succeed(c) PROVE IInv'
  <2> USE <1>10 DEF Succeed
  <2>1. OneExecution'
    BY DEF OneExecution, TypeOK
  <2>2. MapsDisjoint'
    BY DEF MapsDisjoint, OneExecution, TypeOK
  <2>3. CacheOrder'
    <3>1. c \notin completed
      BY DEF MapsDisjoint
    <3> QED BY <3>1 DEF CacheOrder, TypeOK
  <2>4. DeadIsEmpty' /\ OwnerRan'
    BY DEF DeadIsEmpty, OwnerRan, TypeOK, process
  <2>5. SettledIsAnswered'
    BY DEF SettledIsAnswered, Answer, TypeOK
  <2>6. WriterKnows' /\ FileSettles'
    BY <1>1, <2>1, PersistKeeps DEF TypeOK, process
  <2> QED BY <1>1, <2>1, <2>2, <2>3, <2>4, <2>5, <2>6
<1>11. ASSUME NEW c \in Call, NEW gone, Forget(c, gone) PROVE IInv'
  <2> USE <1>11 DEF Forget
  <2>1. OneExecution'
    BY DEF OneExecution, TypeOK
  <2>2. MapsDisjoint' /\ CacheOrder'
    BY DEF MapsDisjoint, CacheOrder, OneExecution, TypeOK
  <2>4. DeadIsEmpty' /\ OwnerRan'
    BY DEF DeadIsEmpty, OwnerRan, TypeOK, process
  <2>5. SettledIsAnswered'
    BY DEF SettledIsAnswered, Answer, TypeOK
  <2>6. WriterKnows' /\ FileSettles'
    BY <1>1, <2>1, PersistKeeps DEF TypeOK, process
  <2> QED BY <1>1, <2>1, <2>2, <2>4, <2>5, <2>6
<1>12. CASE UNCHANGED vars
  BY <1>1, <1>12 DEF vars, maps, callers, writer, process, OneExecution, MapsDisjoint,
       CacheOrder, DeadIsEmpty, WriterKnows, OwnerRan, SettledIsAnswered, FileSettles, Open
<1> QED BY <1>3, <1>4, <1>5, <1>6, <1>7, <1>8, <1>9, <1>10, <1>11, <1>12
        DEF Next, Fail, Disconnect

LEMMA Inductive == Spec => []IInv
<1> QED BY InvInit, InvStep, PTL DEF Spec

-----------------------------------------------------------------------------
(* What follows *)

\* At most one execution of an id is under way, and it is the one the maps
\* lead a duplicate to; a settled one blocks nothing.
THEOREM OneExecutionHolds == Spec => []OneExecution
<1> QED BY Inductive, PTL DEF IInv

\* No id is both open and cached, or cached twice: run() and lookup() agree.
THEOREM MapsDisjointHolds == Spec => []MapsDisjoint
<1> QED BY Inductive, PTL DEF IInv

\* Nobody is left awaiting a promise that has settled.
THEOREM SettledIsAnsweredHolds == Spec => []SettledIsAnswered
<1> QED BY Inductive, PTL DEF IInv

\* A writer at rest has written the open requests, exactly.
THEOREM FileSettlesHolds == Spec => []FileSettles
<1> QED BY Inductive, PTL DEF IInv

LEMMA RunsOnceStep ==
  ASSUME IInv, [Next]_vars, NEW c \in Call, NEW d \in Call,
         exec[c] = "none", exec'[c] = "running", IdOf[d] = IdOf[c]
  PROVE  exec[d] # "running" /\ ~(exec[d] = "ok" /\ age[d] <= Ttl)
<1> USE CallAssumption, BoundAssumption DEF IInv
<1>1. CASE Begin(c)
  <2>1. exec[d] # "running"
    BY <1>1 DEF Begin, OneExecution
  <2>2. exec[d] = "ok" => age[d] > Ttl
    BY <1>1, CachedOrder DEF Begin, CachedFor, TypeOK
  <2> QED BY <2>1, <2>2 DEF TypeOK
<1>2. exec'[c] = "running" => exec[c] = "running" \/ Begin(c)
  <2>1. exec' = exec \/ Crash \/ \E e \in Call : Begin(e) \/ Succeed(e) \/ Fail(e) \/ Disconnect(e)
    BY DEF Next, Snapshot, Tick, Publish, WriteFails, Restart, Replay, Join, Conflict, callers, vars
  <2>2. CASE Crash
    BY <2>2 DEF Crash, TypeOK
  <2>3. ASSUME NEW e \in Call, Begin(e) PROVE exec'[c] = "running" => exec[c] = "running" \/ Begin(c)
    BY <2>3 DEF Begin, TypeOK
  <2>4. ASSUME NEW e \in Call, Succeed(e) PROVE exec'[c] = "running" => exec[c] = "running"
    BY <2>4 DEF Succeed, TypeOK
  <2>5. ASSUME NEW e \in Call, NEW gone, Forget(e, gone) PROVE exec'[c] = "running" => exec[c] = "running"
    BY <2>5 DEF Forget, TypeOK
  <2> QED BY <2>1, <2>2, <2>3, <2>4, <2>5 DEF Fail, Disconnect
<1> QED BY <1>1, <1>2

\* An id is executed again only when nothing of it is under way and no
\* result of it is within the time to live.
THEOREM RunsOnceHolds == Spec => RunsOnce
<1>1. IInv /\ [Next]_vars =>
        [\A c, d \in Call :
           exec[c] = "none" /\ exec'[c] = "running" /\ IdOf[d] = IdOf[c]
           => exec[d] # "running" /\ ~(exec[d] = "ok" /\ age[d] <= Ttl)]_vars
  BY RunsOnceStep
<1> QED BY <1>1, Inductive, PTL DEF Spec, RunsOnce

LEMMA SharesStep ==
  ASSUME IInv, [Next]_vars, NEW c \in Call, NEW d \in Call,
         owner[c] = None, owner'[c] = d, c # d
  PROVE  /\ IdOf[c] = IdOf[d]
         /\ exec[d] = "running" \/ (exec[d] = "ok" /\ age[d] <= Ttl)
<1> USE CallAssumption, BoundAssumption DEF IInv
<1>1. Replay(c) \/ Join(c)
  <2>1. owner' = owner \/ \E e \in Call : Replay(e) \/ Join(e) \/ Begin(e)
    BY DEF Next, Snapshot, Tick, Publish, WriteFails, Crash, Restart, Conflict, Succeed, Fail,
           Disconnect, Forget, callers, vars
  <2>2. ASSUME NEW e \in Call, Replay(e) PROVE e = c
    BY <2>2 DEF Replay, TypeOK
  <2>3. ASSUME NEW e \in Call, Join(e) PROVE e = c
    BY <2>3 DEF Join, TypeOK
  <2>4. ASSUME NEW e \in Call PROVE ~Begin(e)
    BY <2>4 DEF Begin, TypeOK
  <2>5. owner' # owner
    BY DEF TypeOK
  <2> QED BY <2>1, <2>2, <2>3, <2>4, <2>5
<1>2. CASE Replay(c)
  <2>1. d \in Cached /\ IdOf[d] = IdOf[c]
    BY <1>2 DEF Replay, CachedFor, TypeOK
  <2> QED BY <2>1, ScanIsExact DEF MapsDisjoint
<1>3. CASE Join(c)
  <2>1. inflight[IdOf[c]] = d
    BY <1>3 DEF Join, TypeOK
  <2> QED BY <2>1 DEF OneExecution
<1> QED BY <1>1, <1>2, <1>3

\* A call shares an execution of its own id that is open or freshly done.
THEOREM SharesOnlyLiveHolds == Spec => SharesOnlyLive
<1>1. IInv /\ [Next]_vars =>
        [\A c, d \in Call :
           owner[c] = None /\ owner'[c] = d /\ c # d
           => /\ IdOf[c] = IdOf[d]
              /\ exec[d] = "running" \/ (exec[d] = "ok" /\ age[d] <= Ttl)]_vars
  BY SharesStep
<1> QED BY <1>1, Inductive, PTL DEF Spec, SharesOnlyLive

\* The file never goes back behind a request it lists and that is still open.
THEOREM StaysOnFileHolds == Spec => StaysOnFile
<1>1. IInv /\ [Next]_vars => [\A c \in file : exec[c] = "running" => c \in file']_vars
  <2> SUFFICES ASSUME IInv, [Next]_vars, NEW c \in file, exec[c] = "running"
               PROVE  c \in file'
    OBVIOUS
  <2>1. CASE Publish
    BY <2>1 DEF Publish, IInv, WriterKnows
  <2>2. CASE ~Publish
    BY <2>2 DEF Next, Snapshot, Tick, WriteFails, Crash, Restart, Replay, Join, Conflict, Begin,
           Succeed, Fail, Disconnect, Forget, Persist, writer, vars
  <2> QED BY <2>1, <2>2
<1> QED BY <1>1, Inductive, PTL DEF Spec, StaysOnFile

-----------------------------------------------------------------------------
(* The registry implements IdempotentExecutor                                *)

LEMMA Becomes ==
  ASSUME NEW c \in Call, NEW s,
         \A d \in Call : ExecutionOf(d)' = IF d = c THEN s ELSE ExecutionOf(d)
  PROVE  Executor!Become(c, s)
BY DEF Executor!Become

LEMMA Gets ==
  ASSUME NEW c \in Call, NEW a, AnswerOf(c) = "none",
         \A d \in Call : AnswerOf(d)' = IF d = c THEN a ELSE AnswerOf(d)
  PROVE  Executor!Get(c, a)
BY DEF Executor!Get

LEMMA SameExecutions ==
  ASSUME UNCHANGED <<exec, age>>
  PROVE  /\ \A d \in Call : ExecutionOf(d)' = ExecutionOf(d)
         /\ UNCHANGED [c \in Call |-> ExecutionOf(c)]
BY DEF ExecutionOf

LEMMA SameAnswers ==
  ASSUME UNCHANGED <<owner, reply>>
  PROVE  UNCHANGED [c \in Call |-> AnswerOf(c)]
BY DEF AnswerOf

\* What run() and lookup() find is what is running and what is remembered.
LEMMA Found ==
  ASSUME IInv, NEW c \in Call
  PROVE  /\ CachedFor(IdOf[c]) = Executor!Of(c, "remembered")
         /\ inflight[IdOf[c]] = None <=> Executor!Of(c, "running") = {}
         /\ inflight[IdOf[c]] # None => inflight[IdOf[c]] \in Executor!Of(c, "running")
<1> USE CallAssumption, BoundAssumption DEF IInv
<1>1. \A d \in Call : d \in Cached <=> ExecutionOf(d) = "remembered"
  <2>1. Cached = {d \in completed : age[d] <= Ttl}
    BY ScanIsExact
  <2>2. ASSUME NEW d \in Call, d \in Cached PROVE ExecutionOf(d) = "remembered"
    BY <2>1, <2>2 DEF MapsDisjoint, ExecutionOf
  <2>3. ASSUME NEW d \in Call, ExecutionOf(d) = "remembered" PROVE d \in Cached
    <3>1. exec[d] = "ok" /\ age[d] <= Ttl
      BY <2>3 DEF ExecutionOf
    <3>2. d \in completed
      BY <3>1 DEF CacheOrder, TypeOK
    <3>3. QED
      BY <2>1, <3>1, <3>2
  <2>4. QED
    BY <2>2, <2>3
<1>2. CachedFor(IdOf[c]) = Executor!Of(c, "remembered")
  <2>1. Cached \subseteq Call
    BY DEF Cached, TypeOK
  <2>2. QED
    BY <1>1, <2>1 DEF CachedFor, Executor!Of
<1>3. \A d \in Call : d \in Executor!Of(c, "running") <=> inflight[IdOf[c]] = d
  BY DEF OneExecution, ExecutionOf, Executor!Of
<1>4. IdOf[c] \in RequestId /\ inflight[IdOf[c]] \in Call \cup {None}
  BY DEF TypeOK
<1>5. Executor!Of(c, "running") \subseteq Call
  BY DEF Executor!Of
<1>6. QED
  BY <1>2, <1>3, <1>4, <1>5

\* An execution ends, and everyone who waits for it is answered.
LEMMA Tells ==
  ASSUME TypeOK, NEW c \in Call, NEW a \in Reply \ {"none"}, NEW gone, Answer(c, a, gone), owner' = owner
  PROVE  Executor!Told(c, a, gone)
<1>1. ASSUME NEW d \in Call
      PROVE  AnswerOf(d)' = IF owner[d] = c /\ AnswerOf(d) = "waiting"
                              THEN IF d \in gone THEN "gone" ELSE a
                              ELSE AnswerOf(d)
  <2>1. reply'[d] = IF owner[d] = c /\ reply[d] = "none"
                      THEN IF d \in gone THEN "gone" ELSE a
                      ELSE reply[d]
    BY DEF Answer
  <2>2. c # None /\ a # "none"
    BY CallAssumption
  <2>3. reply[d] # "waiting"
    BY DEF TypeOK, Reply
  <2>4. QED
    BY <2>1, <2>2, <2>3 DEF AnswerOf
<1>2. QED
  BY <1>1 DEF Executor!Told

LEMMA ExecutorStep ==
  ASSUME IInv, [Next]_vars
  PROVE  [Executor!ENext]_(Executor!evars)
<1> USE CallAssumption, BoundAssumption
<1>1. CASE Snapshot \/ Publish \/ WriteFails \/ Restart \/ UNCHANGED vars
  <2>1. UNCHANGED <<exec, age, owner, reply>>
    BY <1>1 DEF Snapshot, Publish, WriteFails, Restart, vars, maps, callers
  <2>2. QED
    BY <2>1, SameExecutions, SameAnswers DEF Executor!evars
<1>2. CASE Tick
  <2> DEFINE S == {c \in Call : ExecutionOf(c) = "remembered" /\ age'[c] > Ttl}
  <2>1. /\ UNCHANGED <<exec, owner, reply>>
        /\ \A c \in Call : age'[c] \in Nat /\ age[c] \in Nat /\ age[c] <= age'[c]
    BY <1>2 DEF Tick, callers, IInv, TypeOK
  <2>2. \A c \in Call : ExecutionOf(c)' = IF c \in S THEN "over" ELSE ExecutionOf(c)
    BY <2>1 DEF ExecutionOf
  <2>3. Executor!EForget(S)
    BY <2>1, <2>2, SameAnswers DEF Executor!EForget
  <2>4. QED
    BY <2>3 DEF Executor!ENext
<1>3. CASE Crash
  <2>1. /\ exec' = [c \in Call |-> IF exec[c] \in {"running", "ok"} THEN "lost" ELSE exec[c]]
        /\ reply' = [c \in Call |-> IF owner[c] # None /\ reply[c] = "none" THEN "gone" ELSE reply[c]]
        /\ owner' = owner
    BY <1>3 DEF Crash
  <2>2. \A c \in Call : ExecutionOf(c)' = IF ExecutionOf(c) = "none" THEN "none" ELSE "over"
    BY <2>1 DEF ExecutionOf, IInv, TypeOK, Exec
  <2>3. \A c \in Call : AnswerOf(c)' = IF AnswerOf(c) = "waiting" THEN "gone" ELSE AnswerOf(c)
    BY <2>1 DEF AnswerOf, IInv, TypeOK, Reply
  <2>4. Executor!ECrash
    BY <2>1, <2>2, <2>3 DEF Executor!ECrash
  <2>5. QED
    BY <2>4 DEF Executor!ENext
<1>4. ASSUME NEW c \in Call, Replay(c) PROVE Executor!EReplay(c)
  <2>1. PICK d \in CachedFor(IdOf[c]) : owner' = [owner EXCEPT ![c] = d]
    BY <1>4 DEF Replay
  <2>2. d \in Executor!Of(c, "remembered")
    BY <2>1, Found
  <2>3. /\ UNCHANGED <<exec, age>> /\ reply' = [reply EXCEPT ![c] = "result"]
        /\ AnswerOf(c) = "none"
    BY <1>4 DEF Replay, Waiting, AnswerOf
  <2>4. \A e \in Call : AnswerOf(e)' = IF e = c THEN "result" ELSE AnswerOf(e)
    BY <2>1, <2>3 DEF AnswerOf, IInv, TypeOK
  <2>5. Executor!Get(c, "result") /\ UNCHANGED [e \in Call |-> ExecutionOf(e)]
    BY <2>3, <2>4, SameExecutions, Gets
  <2>6. QED
    BY <2>1, <2>2, <2>5 DEF Executor!EReplay
<1>5. ASSUME NEW c \in Call, Join(c) PROVE Executor!EShare(c)
  <2>1. inflight[IdOf[c]] \in Executor!Of(c, "running")
    BY <1>5, Found DEF Join
  <2>2. /\ UNCHANGED <<exec, age, reply>> /\ reply[c] = "none" /\ AnswerOf(c) = "none"
        /\ owner' = [owner EXCEPT ![c] = inflight[IdOf[c]]]
    BY <1>5 DEF Join, Waiting, AnswerOf
  <2>3. inflight[IdOf[c]] # None
    BY <1>5 DEF Join
  <2>4. \A e \in Call : AnswerOf(e)' = IF e = c THEN "waiting" ELSE AnswerOf(e)
    BY <2>2, <2>3 DEF AnswerOf, IInv, TypeOK
  <2>5. Executor!Get(c, "waiting") /\ UNCHANGED [e \in Call |-> ExecutionOf(e)]
    BY <2>2, <2>4, SameExecutions, Gets
  <2>6. QED
    BY <2>1, <2>2, <2>5 DEF Executor!EShare
<1>6. ASSUME NEW c \in Call, Conflict(c) PROVE Executor!ERefuse(c)
  <2>1. Executor!Of(c, "running") # {}
    BY <1>6, Found DEF Conflict
  <2>2. /\ UNCHANGED <<exec, age, owner>> /\ reply' = [reply EXCEPT ![c] = "conflict"]
        /\ AnswerOf(c) = "none"
    BY <1>6 DEF Conflict, Waiting, AnswerOf
  <2>3. \A e \in Call : AnswerOf(e)' = IF e = c THEN "conflict" ELSE AnswerOf(e)
    BY <2>2 DEF AnswerOf, IInv, TypeOK
  <2>4. QED
    BY <2>1, <2>2, <2>3, SameExecutions, Gets DEF Executor!ERefuse
<1>7. ASSUME NEW c \in Call, Begin(c) PROVE Executor!EBegin(c)
  <2>1. Executor!Of(c, "running") = {} /\ Executor!Of(c, "remembered") = {}
    BY <1>7, Found DEF Begin
  <2>2. /\ exec' = [exec EXCEPT ![c] = "running"] /\ owner' = [owner EXCEPT ![c] = c]
        /\ UNCHANGED <<age, reply>> /\ reply[c] = "none" /\ AnswerOf(c) = "none"
    BY <1>7 DEF Begin, Waiting, AnswerOf
  <2>3. \A e \in Call : ExecutionOf(e)' = IF e = c THEN "running" ELSE ExecutionOf(e)
    BY <2>2 DEF ExecutionOf, IInv, TypeOK
  <2>4. \A e \in Call : AnswerOf(e)' = IF e = c THEN "waiting" ELSE AnswerOf(e)
    BY <2>2 DEF AnswerOf, IInv, TypeOK
  <2>5. QED
    BY <2>1, <2>2, <2>3, <2>4, Becomes, Gets DEF Executor!EBegin
<1>8. ASSUME NEW c \in Call, Succeed(c) PROVE Executor!ESucceed(c)
  <2>1. /\ exec[c] = "running" /\ exec' = [exec EXCEPT ![c] = "ok"]
        /\ age' = [age EXCEPT ![c] = 0] /\ owner' = owner
        /\ Answer(c, "result", {})
    BY <1>8 DEF Succeed
  <2>2. \A e \in Call : ExecutionOf(e)' = IF e = c THEN "remembered" ELSE ExecutionOf(e)
    BY <2>1 DEF ExecutionOf, IInv, TypeOK
  <2>3. Executor!Told(c, "result", {})
    BY <2>1, Tells DEF IInv, Reply
  <2>4. ExecutionOf(c) = "running"
    BY <2>1 DEF ExecutionOf
  <2>5. QED
    BY <2>1, <2>2, <2>3, <2>4, Becomes DEF Executor!ESucceed
<1>9. ASSUME NEW c \in Call, NEW gone \in SUBSET {c}, Forget(c, gone) PROVE Executor!EFail(c)
  <2>1. /\ exec[c] = "running" /\ exec' = [exec EXCEPT ![c] = "failed"]
        /\ age' = age /\ owner' = owner
        /\ Answer(c, "error", gone)
    BY <1>9 DEF Forget
  <2>2. \A e \in Call : ExecutionOf(e)' = IF e = c THEN "over" ELSE ExecutionOf(e)
    BY <2>1 DEF ExecutionOf, IInv, TypeOK
  <2>3. Executor!Told(c, "error", gone)
    BY <2>1, Tells DEF IInv, Reply
  <2>4. ExecutionOf(c) = "running"
    BY <2>1 DEF ExecutionOf
  <2>5. QED
    BY <2>1, <2>2, <2>3, <2>4, Becomes DEF Executor!EFail
<1>10. \A c \in Call : Fail(c) \/ Disconnect(c) => Executor!EFail(c)
  BY <1>9 DEF Fail, Disconnect
<1>11. QED
  BY <1>1, <1>2, <1>3, <1>4, <1>5, <1>6, <1>7, <1>8, <1>10 DEF Next, Executor!ENext

\* Maps, insertion order, ages, the evicting scan, the file and restarts are
\* invisible to callers: run(), lookup(), the settling of a promise, the
\* clock and a crash are steps of an executor that knows for every id at most
\* one execution, running or remembered.
THEOREM ImplementsIdempotenceHolds == Spec => ImplementsIdempotence
<1>1. Init => Executor!EInit
  BY DEF Init, Executor!EInit, ExecutionOf, AnswerOf
<1>2. IInv /\ [Next]_vars => [Executor!ENext]_(Executor!evars)
  BY ExecutorStep
<1>3. QED
  BY <1>1, <1>2, Inductive, PTL DEF Spec, ImplementsIdempotence, Executor!ESpec

=============================================================================
