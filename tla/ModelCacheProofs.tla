-------------------------- MODULE ModelCacheProofs --------------------------
(***************************************************************************)
(* Proofs about the handshake of ModelCache, for any number of workers and *)
(* of starts.  The argument: a header of this run is ready only over whole *)
(* weights (Stamped), the weights are written only while it is not, and a  *)
(* cache that has passed the gate writes nothing any more (Settled).  So   *)
(* what a worker that was forked behind the gate finds is whole and stays  *)
(* whole, until the next nonce is drawn (Gated).                           *)
(***************************************************************************)
EXTENDS ModelCache, TLAPS

Claiming == {"open", "claim"}
Writing == {"create", "zero", "copy", "rest", "publish"}

\* What the header says in every phase of the cache.
Stamped ==
  /\ cpc \in Claiming => header.nonce # runNonce
  /\ cpc \in Writing => header.nonce = runNonce /\ ~header.ready
  /\ cpc \in {"rest", "publish"} => header.size
  /\ header.ready => header.size
  /\ cpc # "none" => runNonce # 0

\* What the name and the mapping of the cache refer to.
Mapped ==
  /\ cpc \in {"zero", "copy", "rest", "publish", "sync", "check", "pause"}
       => cweights = weightsName /\ weightsName # 0
  /\ cpc = "unlinkMeta" => weightsName = 0
  /\ cpc = "publish" => weights[weightsName] = "whole"
  /\ header.nonce = runNonce /\ header.ready /\ weightsName # 0
       => weights[weightsName] = "whole"

\* Behind the gate there is nothing left to write.
Settled ==
  passed = runNonce /\ runNonce # 0 =>
    /\ cpc \notin Claiming \cup Writing
    /\ weightsName # 0 => header.nonce = runNonce /\ header.ready

\* What a worker of this run has mapped, and who belongs to it.
Gated ==
  /\ \A w \in Worker : born[w] <= passed
  /\ \A w \in Worker :
       wpc[w] \in Up /\ passed = runNonce => born[w] = runNonce
  /\ \A w \in Worker :
       wobj[w] # 0 /\ born[w] = runNonce =>
         /\ weights[wobj[w]] = "whole"
         /\ weightsName # 0 => wobj[w] = weightsName

IInv == TypeOK /\ Stamped /\ Mapped /\ Settled /\ Gated

-----------------------------------------------------------------------------
USE ModelCacheAssumption DEF Claiming, Writing, Up, Gone, Object

LEMMA HeaderType ==
  ASSUME NEW n, NEW k \in 0..n, NEW r \in BOOLEAN
  PROVE  [nonce |-> k, ready |-> r, size |-> r]
           \in [nonce : 0..n, ready : BOOLEAN, size : BOOLEAN]
BY Zenon

LEMMA InitIInv == Init => IInv
<1> SUFFICES ASSUME Init PROVE IInv
    OBVIOUS
<1> USE DEF Init, NoHeader
<1>1. TypeOK
  <2>1. header \in [nonce : 0..runNonce, ready : BOOLEAN, size : BOOLEAN]
    <3>1. 0 \in 0..runNonce
          OBVIOUS
    <3> QED
        BY <3>1, HeaderType, Zenon
  <2>2. stop \in BOOLEAN /\ failed \in BOOLEAN
        BY Zenon
  <2> QED
      BY <2>1, <2>2 DEF TypeOK
<1>2. Stamped /\ Mapped /\ Settled /\ Gated
      BY DEF Stamped, Mapped, Settled, Gated
<1> QED
    BY <1>1, <1>2 DEF IInv

LEMMA OpenModelFileKeeps ==
  ASSUME IInv, OpenModelFile PROVE IInv'
<1> USE DEF OpenModelFile, Fail, shm, sup, workers
<1>1. TypeOK'
      BY DEF IInv, TypeOK, Stamped, Mapped, Settled, Gated
<1>2. Stamped'
      BY DEF IInv, TypeOK, Stamped, Mapped, Settled, Gated
<1>3. Mapped'
      BY DEF IInv, TypeOK, Stamped, Mapped, Settled, Gated
<1>4. Settled'
      BY DEF IInv, TypeOK, Stamped, Mapped, Settled, Gated
<1>5. Gated'
      BY DEF IInv, TypeOK, Stamped, Mapped, Settled, Gated
<1> QED
    BY <1>1, <1>2, <1>3, <1>4, <1>5 DEF IInv

LEMMA ClaimHeaderKeeps ==
  ASSUME IInv, ClaimHeader PROVE IInv'
<1> USE DEF ClaimHeader, Claimed, Fail, shm, sup, workers
<1>1. TypeOK'
  <2>1. header' \in [nonce : 0..runNonce', ready : BOOLEAN, size : BOOLEAN]
    <3>1. 0..runNonce' = 0..runNonce /\ runNonce \in 0..runNonce
          BY DEF IInv, TypeOK
    <3>2. CASE header' = header
          BY <3>1, <3>2 DEF IInv, TypeOK
    <3>3. CASE header' = Claimed
          BY <3>1, <3>3, HeaderType, Zenon
    <3> QED
        BY <3>2, <3>3
  <2> QED
      BY <2>1 DEF IInv, TypeOK
<1>2. Stamped'
      BY DEF IInv, TypeOK, Stamped, Mapped, Settled, Gated
<1>3. Mapped'
      BY DEF IInv, TypeOK, Stamped, Mapped, Settled, Gated
<1>4. Settled'
      BY DEF IInv, TypeOK, Stamped, Mapped, Settled, Gated
<1>5. Gated'
      BY DEF IInv, TypeOK, Stamped, Mapped, Settled, Gated
<1> QED
    BY <1>1, <1>2, <1>3, <1>4, <1>5 DEF IInv

LEMMA CreateWeightsKeeps ==
  ASSUME IInv, CreateWeights PROVE IInv'
<1> USE DEF CreateWeights, Fail, shm, sup, workers
<1>1. TypeOK'
  <2>1. weightsName' \in 0..runNonce'
        BY DEF IInv, TypeOK
  <2> QED
      BY <2>1 DEF IInv, TypeOK
<1>2. Stamped'
      BY DEF IInv, TypeOK, Stamped, Mapped, Settled, Gated
<1>3. Mapped'
      BY DEF IInv, TypeOK, Stamped, Mapped, Settled, Gated
<1>4. Settled'
      BY DEF IInv, TypeOK, Stamped, Mapped, Settled, Gated
<1>5. Gated'
      BY DEF IInv, TypeOK, Stamped, Mapped, Settled, Gated
<1> QED
    BY <1>1, <1>2, <1>3, <1>4, <1>5 DEF IInv

LEMMA ZeroFillKeeps ==
  ASSUME IInv, ZeroFill PROVE IInv'
<1> USE DEF ZeroFill, Fail, shm, sup, workers
<1>1. TypeOK'
      BY DEF IInv, TypeOK, Stamped, Mapped, Settled, Gated
<1>2. Stamped'
      BY DEF IInv, TypeOK, Stamped, Mapped, Settled, Gated
<1>3. Mapped'
      BY DEF IInv, TypeOK, Stamped, Mapped, Settled, Gated
<1>4. Settled'
      BY DEF IInv, TypeOK, Stamped, Mapped, Settled, Gated
<1>5. Gated'
      BY DEF IInv, TypeOK, Stamped, Mapped, Settled, Gated
<1> QED
    BY <1>1, <1>2, <1>3, <1>4, <1>5 DEF IInv

LEMMA CopyFirstKeeps ==
  ASSUME IInv, CopyFirst PROVE IInv'
<1> USE DEF CopyFirst, sup, workers
<1>1. TypeOK'
      BY DEF IInv, TypeOK, Stamped, Mapped, Settled, Gated
<1>2. Stamped'
      BY DEF IInv, TypeOK, Stamped, Mapped, Settled, Gated
<1>3. Mapped'
      BY DEF IInv, TypeOK, Stamped, Mapped, Settled, Gated
<1>4. Settled'
      BY DEF IInv, TypeOK, Stamped, Mapped, Settled, Gated
<1>5. Gated'
      BY DEF IInv, TypeOK, Stamped, Mapped, Settled, Gated
<1> QED
    BY <1>1, <1>2, <1>3, <1>4, <1>5 DEF IInv

LEMMA CopyRestKeeps ==
  ASSUME IInv, CopyRest PROVE IInv'
<1> USE DEF CopyRest, Fail, shm, sup, workers
<1>1. TypeOK'
      BY DEF IInv, TypeOK, Stamped, Mapped, Settled, Gated
<1>2. Stamped'
      BY DEF IInv, TypeOK, Stamped, Mapped, Settled, Gated
<1>3. Mapped'
      BY DEF IInv, TypeOK, Stamped, Mapped, Settled, Gated
<1>4. Settled'
      BY DEF IInv, TypeOK, Stamped, Mapped, Settled, Gated
<1>5. Gated'
      BY DEF IInv, TypeOK, Stamped, Mapped, Settled, Gated
<1> QED
    BY <1>1, <1>2, <1>3, <1>4, <1>5 DEF IInv

LEMMA PublishKeeps ==
  ASSUME IInv, Publish PROVE IInv'
<1> USE DEF Publish, sup, workers
<1>1. TypeOK'
      BY DEF IInv, TypeOK, Stamped, Mapped, Settled, Gated
<1>2. Stamped'
      BY DEF IInv, TypeOK, Stamped, Mapped, Settled, Gated
<1>3. Mapped'
      BY DEF IInv, TypeOK, Stamped, Mapped, Settled, Gated
<1>4. Settled'
      BY DEF IInv, TypeOK, Stamped, Mapped, Settled, Gated
<1>5. Gated'
      BY DEF IInv, TypeOK, Stamped, Mapped, Settled, Gated
<1> QED
    BY <1>1, <1>2, <1>3, <1>4, <1>5 DEF IInv

LEMMA SyncKeeps ==
  ASSUME IInv, Sync PROVE IInv'
<1> USE DEF Sync, Fail, shm, sup, workers
<1>1. TypeOK'
      BY DEF IInv, TypeOK, Stamped, Mapped, Settled, Gated
<1>2. Stamped'
      BY DEF IInv, TypeOK, Stamped, Mapped, Settled, Gated
<1>3. Mapped'
      BY DEF IInv, TypeOK, Stamped, Mapped, Settled, Gated
<1>4. Settled'
      BY DEF IInv, TypeOK, Stamped, Mapped, Settled, Gated
<1>5. Gated'
      BY DEF IInv, TypeOK, Stamped, Mapped, Settled, Gated
<1> QED
    BY <1>1, <1>2, <1>3, <1>4, <1>5 DEF IInv

LEMMA WaitUntilStoppedKeeps ==
  ASSUME IInv, WaitUntilStopped PROVE IInv'
<1> USE DEF WaitUntilStopped, shm, sup, workers
<1>1. TypeOK'
      BY DEF IInv, TypeOK, Stamped, Mapped, Settled, Gated
<1>2. Stamped'
      BY DEF IInv, TypeOK, Stamped, Mapped, Settled, Gated
<1>3. Mapped'
      BY DEF IInv, TypeOK, Stamped, Mapped, Settled, Gated
<1>4. Settled'
      BY DEF IInv, TypeOK, Stamped, Mapped, Settled, Gated
<1>5. Gated'
      BY DEF IInv, TypeOK, Stamped, Mapped, Settled, Gated
<1> QED
    BY <1>1, <1>2, <1>3, <1>4, <1>5 DEF IInv

LEMMA UnlinkKeeps ==
  ASSUME IInv, Unlink PROVE IInv'
<1> USE DEF Unlink, sup, workers, NoHeader
<1>1. TypeOK'
  <2>1. header' \in [nonce : 0..runNonce', ready : BOOLEAN, size : BOOLEAN]
    <3>1. 0..runNonce' = 0..runNonce /\ 0 \in 0..runNonce
          BY DEF IInv, TypeOK
    <3>2. CASE header' = header
          BY <3>1, <3>2 DEF IInv, TypeOK
    <3>3. CASE header' = NoHeader
          BY <3>1, <3>3, HeaderType, Zenon
    <3> QED
        BY <3>2, <3>3
  <2>2. stop' \in BOOLEAN /\ failed' \in BOOLEAN
        BY Zenon DEF IInv, TypeOK
  <2> QED
      BY <2>1, <2>2 DEF IInv, TypeOK
<1>2. Stamped'
      BY DEF IInv, TypeOK, Stamped, Mapped, Settled, Gated
<1>3. Mapped'
      BY DEF IInv, TypeOK, Stamped, Mapped, Settled, Gated
<1>4. Settled'
      BY DEF IInv, TypeOK, Stamped, Mapped, Settled, Gated
<1>5. Gated'
      BY DEF IInv, TypeOK, Stamped, Mapped, Settled, Gated
<1> QED
    BY <1>1, <1>2, <1>3, <1>4, <1>5 DEF IInv

LEMMA SignalCacheKeeps ==
  ASSUME IInv, SignalCache PROVE IInv'
<1> USE DEF SignalCache, Signalled, Alive, shm, sup, workers
<1>1. TypeOK'
      BY DEF IInv, TypeOK, Stamped, Mapped, Settled, Gated
<1>2. Stamped'
      BY DEF IInv, TypeOK, Stamped, Mapped, Settled, Gated
<1>3. Mapped'
      BY DEF IInv, TypeOK, Stamped, Mapped, Settled, Gated
<1>4. Settled'
      BY DEF IInv, TypeOK, Stamped, Mapped, Settled, Gated
<1>5. Gated'
      BY DEF IInv, TypeOK, Stamped, Mapped, Settled, Gated
<1> QED
    BY <1>1, <1>2, <1>3, <1>4, <1>5 DEF IInv

LEMMA KillCacheKeeps ==
  ASSUME IInv, KillCache PROVE IInv'
<1> USE DEF KillCache, Alive, shm, sup, workers
<1>1. TypeOK'
  <2>1. stop' \in BOOLEAN /\ failed' \in BOOLEAN
        BY Zenon
  <2> QED
      BY <2>1 DEF IInv, TypeOK
<1>2. Stamped'
      BY DEF IInv, TypeOK, Stamped, Mapped, Settled, Gated
<1>3. Mapped'
      BY DEF IInv, TypeOK, Stamped, Mapped, Settled, Gated
<1>4. Settled'
      BY DEF IInv, TypeOK, Stamped, Mapped, Settled, Gated
<1>5. Gated'
      BY DEF IInv, TypeOK, Stamped, Mapped, Settled, Gated
<1> QED
    BY <1>1, <1>2, <1>3, <1>4, <1>5 DEF IInv

LEMMA WorkerStepKeeps ==
  ASSUME NEW w \in Worker, IInv, WorkerStep(w) PROVE IInv'
<1> USE DEF WorkerStep, ReadHeader, AttachWeights, ChoosePath, LoadModel,
        Loadable, Goes, shm, sup, cache
<1>1. TypeOK'
  <2>1. wpc' \in [Worker -> Up \cup {"none", "failed", "crashed"}]
        BY DEF IInv, TypeOK
  <2> QED
      BY <2>1 DEF IInv, TypeOK
<1>2. Stamped'
      BY DEF IInv, TypeOK, Stamped, Mapped, Settled, Gated
<1>3. Mapped'
      BY DEF IInv, TypeOK, Stamped, Mapped, Settled, Gated
<1>4. Settled'
      BY DEF IInv, TypeOK, Stamped, Mapped, Settled, Gated
<1>5. Gated'
      BY DEF IInv, TypeOK, Stamped, Mapped, Settled, Gated
<1> QED
    BY <1>1, <1>2, <1>3, <1>4, <1>5 DEF IInv

LEMMA CrashWorkerKeeps ==
  ASSUME NEW w \in Worker, IInv, CrashWorker(w) PROVE IInv'
<1> USE DEF CrashWorker, Goes, shm, sup, cache
<1>1. TypeOK'
      BY DEF IInv, TypeOK, Stamped, Mapped, Settled, Gated
<1>2. Stamped'
      BY DEF IInv, TypeOK, Stamped, Mapped, Settled, Gated
<1>3. Mapped'
      BY DEF IInv, TypeOK, Stamped, Mapped, Settled, Gated
<1>4. Settled'
      BY DEF IInv, TypeOK, Stamped, Mapped, Settled, Gated
<1>5. Gated'
      BY DEF IInv, TypeOK, Stamped, Mapped, Settled, Gated
<1> QED
    BY <1>1, <1>2, <1>3, <1>4, <1>5 DEF IInv

LEMMA ReapWorkerKeeps ==
  ASSUME NEW w \in Worker, IInv, ReapWorker(w) PROVE IInv'
<1> USE DEF ReapWorker, Goes, shm, cache
<1>1. CASE Forked({w})
  <2>1. born' = [born EXCEPT ![w] = IF passed = runNonce THEN runNonce ELSE 0]
        BY <1>1 DEF Forked, IInv, TypeOK
  <2>2. wpc' = [wpc EXCEPT ![w] = "header"] /\ wobj' = [wobj EXCEPT ![w] = 0]
        BY <1>1 DEF Forked, IInv, TypeOK
  <2>3. TypeOK'
        BY <2>1, <2>2 DEF IInv, TypeOK
  <2>4. Stamped' /\ Mapped' /\ Settled'
        BY DEF IInv, Stamped, Mapped, Settled
  <2>5. Gated'
        BY <2>1, <2>2 DEF IInv, TypeOK, Gated
  <2> QED
      BY <2>3, <2>4, <2>5 DEF IInv
<1>2. CASE wpc' = [wpc EXCEPT ![w] = "none"] /\ UNCHANGED <<wobj, born>>
      BY <1>2 DEF IInv, TypeOK, Stamped, Mapped, Settled, Gated
<1> QED
    BY <1>1, <1>2

LEMMA StartKeeps ==
  ASSUME IInv, Start PROVE IInv'
<1> USE DEF Start, StartModelCache, shm, workers
<1>1. TypeOK'
      BY DEF IInv, TypeOK, Stamped, Mapped, Settled, Gated
<1>2. Stamped'
      BY DEF IInv, TypeOK, Stamped, Mapped, Settled, Gated
<1>3. Mapped'
      BY DEF IInv, TypeOK, Stamped, Mapped, Settled, Gated
<1>4. Settled'
      BY DEF IInv, TypeOK, Stamped, Mapped, Settled, Gated
<1>5. Gated'
      BY DEF IInv, TypeOK, Stamped, Mapped, Settled, Gated
<1> QED
    BY <1>1, <1>2, <1>3, <1>4, <1>5 DEF IInv

LEMMA ModelReadyKeeps ==
  ASSUME IInv, ModelReady PROVE IInv'
<1> USE DEF ModelReady, SeenReady, EvaluateModelHeader, Forked, shm, cache
<1>1. TypeOK'
  <2>1. passed' \in 0..runNonce' /\ born' \in [Worker -> 0..runNonce']
        BY DEF IInv, TypeOK
  <2> QED
      BY <2>1 DEF IInv, TypeOK
<1>2. Stamped'
      BY DEF IInv, TypeOK, Stamped, Mapped, Settled, Gated
<1>3. Mapped'
      BY DEF IInv, TypeOK, Stamped, Mapped, Settled, Gated
<1>4. Settled'
      BY DEF IInv, TypeOK, Stamped, Mapped, Settled, Gated
<1>5. Gated'
      BY DEF IInv, TypeOK, Stamped, Mapped, Settled, Gated
<1> QED
    BY <1>1, <1>2, <1>3, <1>4, <1>5 DEF IInv

LEMMA ModelNotReadyKeeps ==
  ASSUME IInv, ModelNotReady PROVE IInv'
<1> USE DEF ModelNotReady, Signalled, Alive, shm, workers
<1>1. TypeOK'
      BY DEF IInv, TypeOK, Stamped, Mapped, Settled, Gated
<1>2. Stamped'
      BY DEF IInv, TypeOK, Stamped, Mapped, Settled, Gated
<1>3. Mapped'
      BY DEF IInv, TypeOK, Stamped, Mapped, Settled, Gated
<1>4. Settled'
      BY DEF IInv, TypeOK, Stamped, Mapped, Settled, Gated
<1>5. Gated'
      BY DEF IInv, TypeOK, Stamped, Mapped, Settled, Gated
<1> QED
    BY <1>1, <1>2, <1>3, <1>4, <1>5 DEF IInv

LEMMA ReapCacheKeeps ==
  ASSUME IInv, ReapCache PROVE IInv'
<1> USE DEF ReapCache, StartModelCache, shm, sup, workers
<1>1. TypeOK'
      BY DEF IInv, TypeOK, Stamped, Mapped, Settled, Gated
<1>2. Stamped'
      BY DEF IInv, TypeOK, Stamped, Mapped, Settled, Gated
<1>3. Mapped'
      BY DEF IInv, TypeOK, Stamped, Mapped, Settled, Gated
<1>4. Settled'
      BY DEF IInv, TypeOK, Stamped, Mapped, Settled, Gated
<1>5. Gated'
      BY DEF IInv, TypeOK, Stamped, Mapped, Settled, Gated
<1> QED
    BY <1>1, <1>2, <1>3, <1>4, <1>5 DEF IInv

LEMMA RequestStopKeeps ==
  ASSUME IInv, RequestStop PROVE IInv'
<1> USE DEF RequestStop, Signalled, Alive, shm, workers
<1>1. TypeOK'
      BY DEF IInv, TypeOK, Stamped, Mapped, Settled, Gated
<1>2. Stamped'
      BY DEF IInv, TypeOK, Stamped, Mapped, Settled, Gated
<1>3. Mapped'
      BY DEF IInv, TypeOK, Stamped, Mapped, Settled, Gated
<1>4. Settled'
      BY DEF IInv, TypeOK, Stamped, Mapped, Settled, Gated
<1>5. Gated'
      BY DEF IInv, TypeOK, Stamped, Mapped, Settled, Gated
<1> QED
    BY <1>1, <1>2, <1>3, <1>4, <1>5 DEF IInv

LEMMA ShutdownChildrenKeeps ==
  ASSUME IInv, ShutdownChildren PROVE IInv'
<1> USE DEF ShutdownChildren, shm
<1>1. TypeOK'
  <2>1. stop' \in BOOLEAN /\ failed' \in BOOLEAN
        BY Zenon
  <2> QED
      BY <2>1 DEF IInv, TypeOK
<1>2. Stamped'
      BY DEF IInv, TypeOK, Stamped, Mapped, Settled, Gated
<1>3. Mapped'
      BY DEF IInv, TypeOK, Stamped, Mapped, Settled, Gated
<1>4. Settled'
      BY DEF IInv, TypeOK, Stamped, Mapped, Settled, Gated
<1>5. Gated'
      BY DEF IInv, TypeOK, Stamped, Mapped, Settled, Gated
<1> QED
    BY <1>1, <1>2, <1>3, <1>4, <1>5 DEF IInv

LEMMA StutterKeeps == IInv /\ UNCHANGED vars => IInv'
BY DEF IInv, TypeOK, Stamped, Mapped, Settled, Gated, vars, shm, sup, cache, workers

THEOREM Inductive == Spec => []IInv
<1>1. IInv /\ [Next]_vars => IInv'
  <2> SUFFICES ASSUME IInv, [Next]_vars PROVE IInv'
      OBVIOUS
  <2>1. CASE CacheStep
        BY <2>1, OpenModelFileKeeps, ClaimHeaderKeeps, CreateWeightsKeeps,
           ZeroFillKeeps, CopyFirstKeeps, CopyRestKeeps, PublishKeeps, SyncKeeps,
           WaitUntilStoppedKeeps, UnlinkKeeps, Zenon DEF CacheStep
  <2>2. CASE SignalCache \/ KillCache
        BY <2>2, SignalCacheKeeps, KillCacheKeeps, Zenon
  <2>3. ASSUME NEW w \in Worker, WorkerStep(w) \/ CrashWorker(w) \/ ReapWorker(w)
        PROVE  IInv'
        BY <2>3, WorkerStepKeeps, CrashWorkerKeeps, ReapWorkerKeeps, Zenon
  <2>4. CASE Start \/ ModelReady \/ ModelNotReady \/ ReapCache
        BY <2>4, StartKeeps, ModelReadyKeeps, ModelNotReadyKeeps, ReapCacheKeeps,
           Zenon
  <2>5. CASE RequestStop \/ ShutdownChildren
        BY <2>5, RequestStopKeeps, ShutdownChildrenKeeps, Zenon
  <2>6. CASE UNCHANGED vars
        BY <2>6, StutterKeeps, Zenon
  <2> QED
      BY <2>1, <2>2, <2>3, <2>4, <2>5, <2>6, Zenon DEF Next
<1> QED
    BY InitIInv, <1>1, PTL DEF Spec

-----------------------------------------------------------------------------
\* Every reachable state is well typed, and what does not serve maps nothing.
THEOREM TypeCorrect == Spec => []TypeOK
<1>1. IInv => TypeOK
      BY DEF IInv
<1> QED
    BY Inductive, <1>1, PTL

\* A worker forked behind the gate serves the whole model, for any number of
\* workers, caches and leftovers of dead runs (attachSharedMemory).
THEOREM BehindTheGateHolds == Spec => []BehindTheGate
<1>1. IInv => BehindTheGate
      BY DEF IInv, BehindTheGate, Gated
<1> QED
    BY Inductive, <1>1, PTL

\* After a completed restart of the model cache all that is served is the
\* segment of the live cache (restartWorkersAfterModelCacheRestart).
THEOREM ServesTheCurrentHolds == Spec => []ServesTheCurrent
<1>1. IInv => ServesTheCurrent
  <2> SUFFICES ASSUME IInv, passed = runNonce, cpc \in {"check", "pause"},
                      NEW w \in Worker
               PROVE  wobj[w] \in {0, weightsName}
      BY DEF ServesTheCurrent
  <2> QED
      BY DEF IInv, TypeOK, Stamped, Mapped, Gated
<1> QED
    BY Inductive, <1>1, PTL

\* Behind the gate no worker fails to attach or to load while the names are
\* there (attachSharedMemory, loadModel).
THEOREM LoadsBehindTheGateHolds == Spec => LoadsBehindTheGate
<1> DEFINE Loads ==
      \A w \in Worker :
        born[w] = runNonce /\ wpc[w] # "failed" /\ wpc'[w] = "failed"
          => weightsName = 0
<1>1. IInv /\ [Next]_vars => [Loads]_vars
  <2> SUFFICES ASSUME IInv, Next, NEW w \in Worker, born[w] = runNonce,
                      wpc[w] # "failed", wpc'[w] = "failed", weightsName # 0
               PROVE  FALSE
      BY DEF Loads
  <2>1. ~ UNCHANGED wpc
        OBVIOUS
  <2>2. CASE WorkerStep(w)
    <3>1. runNonce # 0 /\ passed = runNonce /\ header.ready /\ header.size
          BY <2>2
          DEF IInv, TypeOK, Stamped, Settled, Gated, WorkerStep, ReadHeader,
              AttachWeights, ChoosePath, LoadModel
    <3>2. weights[weightsName] = "whole"
          BY <3>1 DEF IInv, Mapped, Settled
    <3> QED
        BY <2>2, <3>1, <3>2
        DEF IInv, TypeOK, WorkerStep, ReadHeader, AttachWeights, ChoosePath,
            LoadModel, Loadable, Goes
  <2>3. ASSUME NEW v \in Worker, v # w, WorkerStep(v) PROVE FALSE
        BY <2>3
        DEF IInv, TypeOK, WorkerStep, ReadHeader, AttachWeights, ChoosePath,
            LoadModel, Goes
  <2>4. ASSUME NEW v \in Worker, CrashWorker(v) \/ ReapWorker(v) PROVE FALSE
        BY <2>4 DEF IInv, TypeOK, CrashWorker, ReapWorker, Forked, Goes
  <2>5. CASE ModelReady \/ ShutdownChildren
        BY <2>5 DEF ModelReady, ShutdownChildren, Forked
  <2>6. CASE CacheStep \/ SignalCache \/ KillCache
        BY <2>1, <2>6
        DEF CacheStep, OpenModelFile, ClaimHeader, CreateWeights, ZeroFill,
            CopyFirst, CopyRest, Publish, Sync, WaitUntilStopped, Unlink,
            SignalCache, KillCache, workers
  <2>7. CASE Start \/ ModelNotReady \/ ReapCache \/ RequestStop
        BY <2>1, <2>7 DEF Start, ModelNotReady, ReapCache, RequestStop, workers
  <2> QED
      BY <2>2, <2>3, <2>4, <2>5, <2>6, <2>7 DEF Next
<1> QED
    BY Inductive, <1>1, PTL DEF Spec, LoadsBehindTheGate
=============================================================================
