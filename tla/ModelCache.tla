----------------------------- MODULE ModelCache -----------------------------
(***************************************************************************)
(* The handshake around the shared model: the model cache publishes the    *)
(* weights in a shared memory segment (model_cache.cpp), the supervisor    *)
(* waits for that before it starts workers (waitForModelReady), and a      *)
(* worker attaches and loads them (attachSharedMemory, loadModel).         *)
(*                                                                         *)
(* The names of the metadata and of the weights outlive every process.  A  *)
(* process keeps the object it mapped also when the name is gone, and      *)
(* opening a name with O_CREAT takes the object that is there.  A weights  *)
(* object is called by the nonce of the cache that created it; metadata is *)
(* kept mapped only by its cache, so name and object are one.  Only what a *)
(* reader tells apart is kept: the header's nonce, ready and size, and how *)
(* far the weights were written.                                           *)
(*                                                                         *)
(* Supervisor has the tables, the breaker and the order in which workers   *)
(* are replaced; here replacing them all is one step.  Signals, crashes    *)
(* and timeouts come at any time.                                          *)
(***************************************************************************)
EXTENDS Naturals

CONSTANTS
  Worker,      \* worker ids
  MaxStarts    \* bound: how often a model cache is started

ASSUME ModelCacheAssumption == MaxStarts \in Nat

VARIABLES
  header,      \* the SharedModelHeader on display, or NoHeader
  weightsName, \* the object the weights' name refers to, 0: there is none
  weights,     \* weights object -> "empty", "zero", "part" or "whole"
  spc,         \* where the supervisor stands
  runNonce,    \* runNonce_, drawn anew for every cache: here counted
  passed,      \* history: the last nonce waitForModelReady saw ready
  cpc,         \* where the model cache stands
  cweights,    \* shmBase_, 0 before it is mapped
  stop,        \* stopRequested_
  failed,      \* initialize returned false
  wpc,         \* where a worker stands
  wobj,        \* the object a worker's model is mapped from, 0: none
  born         \* history: runNonce if it had passed when the worker was forked

shm == <<header, weightsName, weights>>
sup == <<spc, runNonce, passed>>
cache == <<cpc, cweights, stop, failed>>
workers == <<wpc, wobj, born>>
vars == <<shm, sup, cache, workers>>

Object == 1..MaxStarts
NoHeader == [nonce |-> 0, ready |-> FALSE, size |-> FALSE]

Init ==
  /\ header = NoHeader /\ weightsName = 0
  /\ weights = [o \in Object |-> "empty"]
  /\ spc = "down" /\ runNonce = 0 /\ passed = 0
  /\ cpc = "none" /\ cweights = 0 /\ stop = FALSE /\ failed = FALSE
  /\ wpc = [w \in Worker |-> "none"]
  /\ wobj = [w \in Worker |-> 0]
  /\ born = [w \in Worker |-> 0]

-----------------------------------------------------------------------------
(* The model cache.  initialize goes through its steps in this order; a step *)
(* that fails ends it, and the destructor unlinks both names in any case.    *)
Fail ==
  /\ cpc' = "unlink" /\ failed' = TRUE
  /\ UNCHANGED <<cweights, stop, shm>>

OpenModelFile ==
  /\ cpc = "open"
  /\ \/ cpc' = "claim" /\ UNCHANGED <<cweights, stop, failed, shm>>
     \/ Fail
  /\ UNCHANGED <<sup, workers>>

Claimed == [nonce |-> runNonce, ready |-> FALSE, size |-> FALSE]

\* A header that is zeroed but not stamped yet is told from none by nobody.
ClaimHeader ==
  /\ cpc = "claim"
  /\ \/ /\ header' = Claimed
        /\ cpc' = "create"
        /\ UNCHANGED <<weightsName, weights, cweights, stop, failed>>
     \/ Fail
  /\ UNCHANGED <<sup, workers>>

\* shm_open with O_CREAT: the object that is there, or a new, empty one.
CreateWeights ==
  /\ cpc = "create"
  /\ \/ /\ weightsName' = IF weightsName = 0 THEN runNonce ELSE weightsName
        /\ cweights' = weightsName'
        /\ cpc' = "zero"
        /\ UNCHANGED <<header, weights, stop, failed>>
     \/ Fail
  /\ UNCHANGED <<sup, workers>>

\* ftruncate and memset
ZeroFill ==
  /\ cpc = "zero"
  /\ \/ /\ weights' = [weights EXCEPT ![cweights] = "zero"]
        /\ cpc' = "copy"
        /\ UNCHANGED <<header, weightsName, cweights, stop, failed>>
     \/ Fail
  /\ UNCHANGED <<sup, workers>>

\* Faulty: the header is complete before the bytes are.
CopyUnderReady ==
  /\ cpc = "copy"
  /\ weights' = [weights EXCEPT ![cweights] = "part"]
  /\ header' = [header EXCEPT !.size = TRUE, !.ready = TRUE]
  /\ cpc' = "rest"
  /\ UNCHANGED <<weightsName, cweights, stop, failed, sup, workers>>

\* The size is stored, then the file is copied piece by piece.
CopyFirst ==
  /\ cpc = "copy"
  /\ weights' = [weights EXCEPT ![cweights] = "part"]
  /\ header' = [header EXCEPT !.size = TRUE]
  /\ cpc' = "rest"
  /\ UNCHANGED <<weightsName, cweights, stop, failed, sup, workers>>

CopyRest ==
  /\ cpc = "rest"
  /\ \/ /\ weights' = [weights EXCEPT ![cweights] = "whole"]
        /\ cpc' = "publish"
        /\ UNCHANGED <<header, weightsName, cweights, stop, failed>>
     \/ Fail
  /\ UNCHANGED <<sup, workers>>

Publish ==
  /\ cpc = "publish"
  /\ header' = [header EXCEPT !.ready = TRUE]
  /\ cpc' = "sync"
  /\ UNCHANGED <<weightsName, weights, cweights, stop, failed, sup, workers>>

Sync ==
  /\ cpc = "sync"
  /\ \/ cpc' = "check" /\ UNCHANGED <<cweights, stop, failed, shm>>
     \/ Fail
  /\ UNCHANGED <<sup, workers>>

\* The flag is read, and then it pauses.
WaitUntilStopped ==
  /\ cpc = "check"
  /\ cpc' = IF stop THEN "unlink" ELSE "pause"
  /\ UNCHANGED <<cweights, stop, failed, shm, sup, workers>>

\* cleanup: the weights' name first.
Unlink ==
  /\ \/ /\ cpc = "unlink"
        /\ weightsName' = 0 /\ cpc' = "unlinkMeta"
        /\ UNCHANGED <<header, cweights, stop, failed>>
     \/ /\ cpc = "unlinkMeta"
        /\ header' = NoHeader /\ UNCHANGED weightsName
        /\ cpc' = IF failed THEN "failed" ELSE "exited"
        /\ cweights' = 0 /\ stop' = FALSE /\ failed' = FALSE
  /\ UNCHANGED <<weights, sup, workers>>

CacheStep ==
  \/ OpenModelFile \/ ClaimHeader \/ CreateWeights \/ ZeroFill
  \/ CopyFirst \/ CopyRest \/ Publish \/ Sync \/ WaitUntilStopped \/ Unlink

Gone == {"none", "exited", "failed", "killed"}
Alive == cpc \notin Gone

\* The handler sets the flag; a pause in progress returns.
Signalled ==
  /\ stop' = Alive
  /\ cpc' = IF cpc = "pause" THEN "check" ELSE cpc

SignalCache ==
  /\ Alive
  /\ Signalled
  /\ UNCHANGED <<cweights, failed, shm, sup, workers>>

\* Nothing is unlinked.
KillCache ==
  /\ Alive
  /\ cpc' = "killed" /\ cweights' = 0 /\ stop' = FALSE /\ failed' = FALSE
  /\ UNCHANGED <<shm, sup, workers>>

-----------------------------------------------------------------------------
(* A worker.  It does not know the run it belongs to: any ready header will  *)
(* do.  The model is loaded by path, after the mapping was made.             *)
Goes(w, to) == wpc' = [wpc EXCEPT ![w] = to]

ReadHeader(w) ==
  /\ wpc[w] = "header"
  /\ Goes(w, IF header.ready /\ header.size THEN "attach" ELSE "failed")
  /\ UNCHANGED wobj

AttachWeights(w) ==
  /\ wpc[w] = "attach"
  /\ Goes(w, IF weightsName # 0 /\ weights[weightsName] # "empty"
               THEN "path" ELSE "failed")
  /\ UNCHANGED wobj

\* access(): without the segment's path the model file itself is loaded.
ChoosePath(w) ==
  /\ wpc[w] = "path"
  /\ Goes(w, IF weightsName # 0 THEN "load" ELSE "private")
  /\ UNCHANGED wobj

Loadable == weightsName # 0 /\ weights[weightsName] \in {"part", "whole"}

\* llama.cpp refuses what does not begin like a model.
LoadModel(w) ==
  /\ wpc[w] \in {"load", "private"}
  /\ Goes(w, IF wpc[w] = "private" \/ Loadable THEN "serving" ELSE "failed")
  /\ wobj' = IF wpc[w] = "load" /\ Loadable
               THEN [wobj EXCEPT ![w] = weightsName] ELSE wobj

WorkerStep(w) ==
  /\ ReadHeader(w) \/ AttachWeights(w) \/ ChoosePath(w) \/ LoadModel(w)
  /\ UNCHANGED <<born, shm, sup, cache>>

Up == {"header", "attach", "path", "load", "private", "serving"}

CrashWorker(w) ==
  /\ wpc[w] \in Up
  /\ Goes(w, "crashed")
  /\ wobj' = [wobj EXCEPT ![w] = 0]
  /\ UNCHANGED <<born, shm, sup, cache>>

-----------------------------------------------------------------------------
(* The supervisor.  It watches no child while it waits for the cache.        *)
\* Faulty: a ready header is believed whoever wrote it.
EvaluateAnyRun(h) ==
  IF h.nonce = 0 THEN "malformed" ELSE IF h.ready THEN "ready" ELSE "not_ready"

\* The nonce reads as 0 where the magic bytes are missing.
EvaluateModelHeader(h) ==
  CASE h.nonce = 0 -> "malformed"
    [] h.nonce \notin {0, runNonce} -> "foreign_run"
    [] OTHER -> IF h.ready THEN "ready" ELSE "not_ready"

SeenReady == EvaluateModelHeader(header) = "ready"

\* A nonce is drawn also when the fork fails.
StartModelCache(then, otherwise) ==
  /\ runNonce < MaxStarts
  /\ runNonce' = runNonce + 1
  /\ \/ spc' = then /\ cpc' = "open"
     \/ spc' = otherwise /\ cpc' = "none"
  /\ UNCHANGED <<passed, cweights, stop, failed>>

Start ==
  /\ spc = "down"
  /\ StartModelCache("boot", "down")
  /\ UNCHANGED <<shm, workers>>

Forked(S) ==
  /\ wpc' = [w \in Worker |-> IF w \in S THEN "header" ELSE wpc[w]]
  /\ wobj' = [w \in Worker |-> IF w \in S THEN 0 ELSE wobj[w]]
  /\ born' = [w \in Worker |-> IF w \notin S THEN born[w]
                               ELSE IF passed' = runNonce THEN runNonce ELSE 0]

\* Faulty: only workers that are not running are started.
RestartMissing ==
  /\ spc \in {"boot", "restart"}
  /\ SeenReady
  /\ spc' = "monitor" /\ passed' = runNonce
  /\ Forked({w \in Worker : wpc[w] \notin Up})
  /\ UNCHANGED <<runNonce, shm, cache>>

\* At boot there are no workers yet; after a restart all of them are replaced.
ModelReady ==
  /\ spc \in {"boot", "restart"}
  /\ SeenReady
  /\ spc' = "monitor" /\ passed' = runNonce
  /\ Forked(Worker)
  /\ UNCHANGED <<runNonce, shm, cache>>

\* A failed start stops what was started; otherwise the workers stay.
ModelNotReady ==
  /\ \/ spc = "boot" /\ spc' = "stopping" /\ Signalled
     \/ spc = "restart" /\ spc' = "monitor" /\ UNCHANGED <<cpc, stop>>
  /\ UNCHANGED <<runNonce, passed, cweights, failed, shm, workers>>

\* A cache that exits with 0 is not replaced, nor is one whose breaker opens.
ReapCache ==
  /\ spc = "monitor"
  /\ \/ /\ cpc \in {"failed", "killed"}
        /\ StartModelCache("restart", "monitor")
     \/ /\ cpc \in {"exited", "failed", "killed"}
        /\ cpc' = "none"
        /\ UNCHANGED <<sup, cweights, stop, failed>>
  /\ UNCHANGED <<shm, workers>>

\* A worker that died is started again, whatever the cache is doing.
ReapWorker(w) ==
  /\ spc = "monitor"
  /\ wpc[w] \in {"failed", "crashed"}
  /\ UNCHANGED passed
  /\ \/ Forked({w})
     \/ Goes(w, "none") /\ UNCHANGED <<wobj, born>>
  /\ UNCHANGED <<spc, runNonce, shm, cache>>

RequestStop ==
  /\ spc \in {"boot", "restart", "monitor"}
  /\ spc' = "stopping"
  /\ Signalled
  /\ UNCHANGED <<runNonce, passed, cweights, failed, shm, workers>>

\* Whoever is left after two seconds is killed.
ShutdownChildren ==
  /\ spc = "stopping"
  /\ spc' = "down"
  /\ cpc' = "none" /\ cweights' = 0 /\ stop' = FALSE /\ failed' = FALSE
  /\ wpc' = [w \in Worker |-> "none"]
  /\ wobj' = [w \in Worker |-> 0]
  /\ UNCHANGED <<runNonce, passed, shm, born>>

Next ==
  \/ CacheStep \/ SignalCache \/ KillCache
  \/ \E w \in Worker : WorkerStep(w) \/ CrashWorker(w) \/ ReapWorker(w)
  \/ Start \/ ModelReady \/ ModelNotReady \/ ReapCache
  \/ RequestStop \/ ShutdownChildren

Spec == Init /\ [][Next]_vars

-----------------------------------------------------------------------------
\* The variables have their types; what does not serve has nothing mapped.
TypeOK ==
  /\ header \in [nonce : 0..runNonce, ready : BOOLEAN, size : BOOLEAN]
  /\ weightsName \in 0..runNonce /\ cweights \in 0..runNonce
  /\ weights \in [Object -> {"empty", "zero", "part", "whole"}]
  /\ spc \in {"down", "boot", "restart", "monitor", "stopping"}
  /\ runNonce \in 0..MaxStarts /\ passed \in 0..runNonce
  /\ cpc \in {"open", "claim", "create", "zero", "copy", "rest", "publish",
              "sync", "check", "pause", "unlink", "unlinkMeta"} \cup Gone
  /\ stop \in BOOLEAN /\ failed \in BOOLEAN
  /\ wpc \in [Worker -> Up \cup {"none", "failed", "crashed"}]
  /\ wobj \in [Worker -> 0..runNonce]
  /\ born \in [Worker -> 0..runNonce]
  /\ \A w \in Worker : wpc[w] # "serving" => wobj[w] = 0

\* A worker that was forked behind the gate of the present run serves the
\* whole model, although it accepts any ready header and looks at no nonce
\* (attachSharedMemory), and although a dead run's segment may be on display.
BehindTheGate ==
  \A w \in Worker :
    wpc[w] = "serving" /\ wobj[w] # 0 /\ born[w] = runNonce
      => weights[wobj[w]] = "whole"

\* After a restart of the model cache that completed, nobody serves from a
\* segment other than the one the live cache has (supervisor.cpp:616-638).
ServesTheCurrent ==
  spc = "monitor" /\ passed = runNonce /\ cpc \in {"check", "pause"} =>
    \A w \in Worker : wobj[w] \in {0, weightsName}

\* Behind the gate no worker fails to attach or to load, whatever happens to
\* the cache meanwhile, unless the cache left in an orderly way and took the
\* names with it (attachSharedMemory; docs/11-model-cache.md:342).
LoadsBehindTheGate ==
  [][\A w \in Worker :
       born[w] = runNonce /\ wpc[w] # "failed" /\ wpc'[w] = "failed"
         => weightsName = 0]_vars

\* What docs/11-model-cache.md:312-313 says of a cache that was restarted: the
\* mapping of a worker points at the old, unlinked object, so that nobody
\* writes over what it serves from.
OldSegmentIsLeftAlone ==
  \A w \in Worker :
    wpc[w] = "serving" /\ wobj[w] # 0 => weights[wobj[w]] = "whole"
=============================================================================
