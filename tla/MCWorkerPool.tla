---------------------------- MODULE MCWorkerPool ----------------------------
(***************************************************************************)
(* A small instance of WorkerPool.                                         *)
(***************************************************************************)
EXTENDS WorkerPool, TLC

CONSTANTS r1, r2

\* r2 is a stream.
Requests == {r1, r2}
StreamRequests == {r2}

=============================================================================
