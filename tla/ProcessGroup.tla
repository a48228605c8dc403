---------------------------- MODULE ProcessGroup ----------------------------
(***************************************************************************)
(* What the supervisor promises, without pids, tables, signals, heartbeats,*)
(* notifications or counts of crashes: a group with one place for every    *)
(* process.  It is assembled from nothing, in order, and disbanded to      *)
(* nothing; in between a place whose process ended gets one new process or *)
(* is given up, and after a new model cache every worker's place is        *)
(* emptied before the first is filled again.                               *)
(***************************************************************************)
CONSTANTS Worker, Cache, Key, Planned

VARIABLES
  phase,   \* what the group is going through
  wanted,  \* nobody has asked for its end
  part,    \* what became of the process of a place
  old,     \* workers older than the present model cache
  device,  \* where a worker is to run
  closed   \* places given up after too many crashes

gvars == <<phase, wanted, part, old, device, closed>>

Ended == {"clean", "fault", "crash"}

GInit ==
  /\ phase = "boot" /\ wanted = TRUE
  /\ part = [k \in Key |-> "absent"]
  /\ old = {} /\ device = Planned /\ closed = {}

\* The model cache first.
GBoot(k) ==
  /\ phase = "boot"
  /\ part[k] = "absent" /\ (k = Cache \/ part[Cache] # "absent")
  /\ part' = [part EXCEPT ![k] = "up"]
  /\ UNCHANGED <<phase, wanted, old, device, closed>>

GBooted ==
  /\ phase = "boot" /\ \A k \in Key : part[k] # "absent"
  /\ phase' = "tend"
  /\ UNCHANGED <<wanted, part, old, device, closed>>

GEnd(k) ==
  /\ part[k] = "up" /\ part'[k] \in Ended
  /\ part' = [part EXCEPT ![k] = part'[k]]
  /\ UNCHANGED <<phase, wanted, old, device, closed>>

\* A worker that failed on its device runs elsewhere from now on.
Demoted(k) == IF wanted /\ k \in Worker /\ part[k] = "fault" THEN [device EXCEPT ![k] = "cpu"] ELSE device

GRestart(k) ==
  /\ phase = "tend" /\ wanted
  /\ part[k] \in {"fault", "crash"}
  /\ part' = [part EXCEPT ![k] = "up"]
  /\ old' = IF k = Cache THEN {w \in Worker : part[w] # "absent"} ELSE old \ {k}
  /\ device' = Demoted(k)
  /\ UNCHANGED <<phase, wanted, closed>>

\* The process left, the group is to end, no process could be made, or there
\* were too many crashes; only the last closes the place.
GBury(k) ==
  /\ phase = "tend"
  /\ part[k] \in Ended
  /\ part' = [part EXCEPT ![k] = "absent"]
  /\ old' = old \ {k}
  /\ device' = Demoted(k)
  /\ \/ closed' = closed
     \/ wanted /\ part[k] # "clean" /\ closed' = closed \cup {k}
  /\ UNCHANGED <<phase, wanted>>

-----------------------------------------------------------------------------
(* After a new model cache *)

GRenew ==
  /\ phase = "tend" /\ part[Cache] # "absent"
  /\ phase' = "retire"
  /\ UNCHANGED <<wanted, part, old, device, closed>>

GRetire(w) ==
  /\ phase = "retire" /\ part[w] \in Ended
  /\ part' = [part EXCEPT ![w] = "absent"]
  /\ old' = old \ {w}
  /\ UNCHANGED <<phase, wanted, device, closed>>

GRefill ==
  /\ phase = "retire" /\ \A w \in Worker : part[w] = "absent"
  /\ phase' = "refill"
  /\ UNCHANGED <<wanted, part, old, device, closed>>

\* A closed place too.
GReplace(w) ==
  /\ phase = "refill" /\ part[w] = "absent"
  /\ part' = [part EXCEPT ![w] = "up"]
  /\ UNCHANGED <<phase, wanted, old, device, closed>>

GRenewed ==
  /\ phase = "refill" /\ old = {}
  /\ phase' = "tend"
  /\ UNCHANGED <<wanted, part, old, device, closed>>

-----------------------------------------------------------------------------
(* The end *)

GAsk ==
  /\ wanted /\ wanted' = FALSE
  /\ UNCHANGED <<phase, part, old, device, closed>>

GDisband ==
  /\ phase = "boot" \/ (phase = "tend" /\ ~wanted)
  /\ phase' = "off" /\ wanted' = FALSE
  /\ part' = [k \in Key |-> "absent"] /\ old' = {}
  /\ UNCHANGED <<device, closed>>

GAssemble ==
  /\ phase = "off" /\ \A k \in Key : part[k] = "absent"
  /\ phase' = "boot" /\ wanted' = TRUE
  /\ device' = Planned /\ closed' = {}
  /\ UNCHANGED <<part, old>>

\* Most of what the supervisor does is of no consequence here.
GKeep == UNCHANGED gvars

GNext ==
  \/ GKeep
  \/ GBooted \/ GRenew \/ GRefill \/ GRenewed \/ GAsk \/ GDisband \/ GAssemble
  \/ \E k \in Key : GBoot(k) \/ GEnd(k) \/ GRestart(k) \/ GBury(k)
  \/ \E w \in Worker : GRetire(w) \/ GReplace(w)

GSpec == GInit /\ [][GNext]_gvars

=============================================================================
