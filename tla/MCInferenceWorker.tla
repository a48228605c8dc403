-------------------------- MODULE MCInferenceWorker -------------------------
(* The default ladder of a worker with a gpu, without the two accelerators   *)
(* of other platforms.  A probe is believed longer than a quarantine lasts,  *)
(* so that a stale answer could matter.                                      *)
EXTENDS InferenceWorker

MCLadder == <<"cuda", "cpu", "remote">>
=============================================================================
