---------------------------- MODULE MCSupervisor ----------------------------
(***************************************************************************)
(* Small instances of Supervisor.  Worker 0 is planned on the gpu.         *)
(***************************************************************************)
EXTENDS Supervisor, TLC

CONSTANTS p1, p2, p3, p4

Pids3 == {p1, p2, p3}
Pids4 == {p1, p2, p3, p4}

\* Only safety is checked with it.
PidSymmetry == Permutations(Pids4)

Gpu0 == {0}

AllChecks == {"grace", "timeout", "stuck"}

\* Everything; deaths of every process; what a worker alone may meet.
Everything == {"death", "cache", "api", "fault", "wedge", "term", "fork", "stop"}
Deaths == {"death", "cache", "api", "fault"}
WorkerOnly == {"death", "api", "wedge"}
Wedges == {"wedge", "cache"}
Terminations == {"term"}

=============================================================================
