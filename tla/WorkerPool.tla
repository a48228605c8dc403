----------------------------- MODULE WorkerPool -----------------------------
(***************************************************************************)
(* The API server's view of its workers: WorkerPool in ipc.js.             *)
(*                                                                         *)
(* The pool hands a request to the first worker it believes ready, over a  *)
(* connection of its own, and learns of a worker's death from the socket,  *)
(* from a supervisor notification, or not at all.  What it believes        *)
(* (status) and what is so (proc, sock) are separate variables here.       *)
(*                                                                         *)
(* Each handler runs to its end on the event loop.  A connection to a unix *)
(* socket is made or refused when it is asked for and reported later, so a *)
(* request keeps the state of its connection (link) and a probe its result *)
(* until the callback runs.  A recovery timer can be cleared only through  *)
(* recoveryTimer; a timer whose handle was overwritten still fires.        *)
(*                                                                         *)
(* The worker processes and the supervisor's messages are the environment. *)
(* A request is one execution; the registry keeps their ids distinct.      *)
(***************************************************************************)
EXTENDS Integers, FiniteSets

CONSTANTS
  WorkerCount,       \* workerCount
  Request,           \* the calls of runInference and runStreamingInference
  Streams,           \* the latter, which can be cancelled
  None,              \* no worker yet
  RecoveryAttempts,  \* recoveryAttempts
  MaxCrashes         \* bound: deaths of worker processes

Worker == 0..(WorkerCount - 1)

ASSUME PoolAssumption ==
  /\ WorkerCount \in Nat \ {0}
  /\ Streams \subseteq Request
  /\ None \notin Worker
  /\ RecoveryAttempts \in Nat \ {0}
  /\ MaxCrashes \in Nat

VARIABLES
  status,     \* worker.status
  attempt,    \* worker.recoveryAttempt
  timers,     \* armed recovery timers of a worker
  handle,     \* worker.recoveryTimer refers to one of them
  probes,     \* probes whose result is not in yet, by what it will be
  graceOver,  \* startupGraceMs passed since worker.startedAt
  on,         \* the worker a request was given
  outcome,    \* how its promise was settled; "pending" while in this.inFlight
  link,       \* its connection
  proc,       \* the worker process
  sock,       \* its socket file exists
  msgs,       \* notifications under way, each on a connection of its own
  crashes     \* counted against MaxCrashes

pool == <<status, attempt, timers, handle, probes, graceOver>>
requests == <<on, outcome, link>>
world == <<proc, sock, msgs, crashes>>
vars == <<pool, requests, world>>

Status == {"starting", "ready", "busy", "crashed"}
Outcome == {"none", "pending", "result", "worker_error", "transport", "worker_crashed",
            "stream_cancelled", "no_ready_workers"}

TypeOK ==
  /\ status \in [Worker -> Status]
  /\ attempt \in [Worker -> 0..RecoveryAttempts]
  /\ timers \in [Worker -> Nat]
  /\ handle \in [Worker -> BOOLEAN]
  /\ probes \in [Worker -> [BOOLEAN -> Nat]]
  /\ graceOver \in [Worker -> BOOLEAN]
  /\ on \in [Request -> Worker \cup {None}]
  /\ outcome \in [Request -> Outcome]
  /\ link \in [Request -> {"none", "open", "cut", "refused"}]
  /\ proc \in [Worker -> {"down", "loading", "serving"}]
  /\ sock \in [Worker -> BOOLEAN]
  /\ msgs \subseteq {"worker_crashed", "worker_restarted"} \X Worker
  /\ crashes \in 0..MaxCrashes

Init ==
  /\ status = [w \in Worker |-> "starting"]
  /\ attempt = [w \in Worker |-> 0]
  /\ timers = [w \in Worker |-> 0]
  /\ handle = [w \in Worker |-> FALSE]
  /\ probes = [w \in Worker |-> [alive \in BOOLEAN |-> 0]]
  /\ graceOver = [w \in Worker |-> FALSE]
  /\ on = [r \in Request |-> None]
  /\ outcome = [r \in Request |-> "none"]
  /\ link = [r \in Request |-> "none"]
  /\ proc = [w \in Worker |-> "loading"]
  /\ sock = [w \in Worker |-> FALSE]
  /\ msgs = {}
  /\ crashes = 0

-----------------------------------------------------------------------------
(* Helpers *)

\* this.inFlight, by worker.
InFlight(w) == {r \in Request : outcome[r] = "pending" /\ on[r] = w}

\* clearTimeout of recoveryTimer, attempt 0, _scheduleRecoveryProbe: a fresh
\* budget of which the first attempt is armed.
Rearmed(W) ==
  /\ attempt' = [w \in Worker |-> IF w \in W THEN 1 ELSE attempt[w]]
  /\ timers' = [w \in Worker |-> IF w \in W /\ ~handle[w] THEN timers[w] + 1 ELSE timers[w]]
  /\ handle' = [w \in Worker |-> w \in W \/ handle[w]]

\* Faulty: the file decides, whatever the pool knows.
RefreshedByFile(w) ==
  IF sock[w] THEN "ready"
  ELSE IF status[w] \in {"busy", "crashed"} THEN status[w]
  ELSE IF graceOver[w] THEN "crashed" ELSE "starting"

\* What _refreshWorkerReadiness makes of a status.
Refreshed(w) ==
  IF status[w] \in {"busy", "crashed"} THEN status[w]
  ELSE IF sock[w] THEN "ready"
  ELSE IF graceOver[w] THEN "crashed" ELSE "starting"

NewlyCrashed == {w \in Worker : Refreshed(w) = "crashed" /\ status[w] # "crashed"}

Refresh ==
  /\ Rearmed(NewlyCrashed)
  /\ graceOver' = [w \in Worker |-> graceOver[w] /\ Refreshed(w) # "ready"]
  /\ UNCHANGED probes

\* Array.find: the first in order of insertion.
First(w) == Refreshed(w) = "ready" /\ \A v \in Worker : Refreshed(v) = "ready" => w <= v

-----------------------------------------------------------------------------
(* Requests *)

Unavailable(r) ==
  /\ outcome[r] = "none"
  /\ \A w \in Worker : Refreshed(w) # "ready"
  /\ Refresh
  /\ status' = [w \in Worker |-> Refreshed(w)]
  /\ outcome' = [outcome EXCEPT ![r] = "no_ready_workers"]
  /\ UNCHANGED <<on, link, world>>

\* _acquireWorker and the connection to it.
Submit(r) ==
  /\ outcome[r] = "none"
  /\ Refresh
  /\ \E w \in Worker :
       /\ First(w)
       /\ status' = [v \in Worker |-> IF v = w THEN "busy" ELSE Refreshed(v)]
       /\ on' = [on EXCEPT ![r] = w]
       /\ link' = [link EXCEPT ![r] = IF proc[w] = "serving" THEN "open" ELSE "refused"]
  /\ outcome' = [outcome EXCEPT ![r] = "pending"]
  /\ UNCHANGED world

\* getHealth refreshes what it reports.
Health ==
  /\ Refresh
  /\ status' = [w \in Worker |-> Refreshed(w)]
  /\ UNCHANGED <<requests, world>>

\* The promise is settled: cleanup() frees the worker unless it has crashed.
Settle(r, how) ==
  /\ outcome[r] = "pending"
  /\ outcome' = [outcome EXCEPT ![r] = how]
  /\ status' = [status EXCEPT ![on[r]] = IF @ = "crashed" THEN @ ELSE "ready"]
  /\ UNCHANGED <<attempt, timers, handle, probes, graceOver, on, link, world>>

\* A result or an error frame; a frame that is no JSON fails the same way.
Answered(r) ==
  /\ link[r] = "open"
  /\ \E how \in {"result", "worker_error"} : Settle(r, how)

Cancel(r) == r \in Streams /\ Settle(r, "stream_cancelled")

\* Faulty: a connection that is cut waits for the supervisor's notification.
TransportIgnored(r) ==
  /\ outcome[r] = "pending" /\ link[r] = "refused"
  /\ outcome' = [outcome EXCEPT ![r] = "transport"]
  /\ IF status[on[r]] = "crashed"
       THEN UNCHANGED <<status, attempt, timers, handle>>
       ELSE status' = [status EXCEPT ![on[r]] = "crashed"] /\ Rearmed({on[r]})
  /\ UNCHANGED <<probes, graceOver, on, link, world>>

\* Connection refused, timed out or closed before the result: cleanup(), then
\* _quarantineAfterTransportFailure.
TransportFails(r) ==
  /\ outcome[r] = "pending" /\ link[r] \in {"cut", "refused"}
  /\ outcome' = [outcome EXCEPT ![r] = "transport"]
  /\ IF status[on[r]] = "crashed"
       THEN UNCHANGED <<status, attempt, timers, handle>>
       ELSE status' = [status EXCEPT ![on[r]] = "crashed"] /\ Rearmed({on[r]})
  /\ UNCHANGED <<probes, graceOver, on, link, world>>

-----------------------------------------------------------------------------
(* Notifications *)

\* _markWorkerCrashed; the supervisor names no request.
Crashed(w) ==
  /\ <<"worker_crashed", w>> \in msgs
  /\ msgs' = msgs \ {<<"worker_crashed", w>>}
  /\ status' = [status EXCEPT ![w] = "crashed"]
  /\ outcome' = [r \in Request |-> IF r \in InFlight(w) THEN "worker_crashed" ELSE outcome[r]]
  /\ Rearmed({w})
  /\ UNCHANGED <<probes, graceOver, on, link, proc, sock, crashes>>

\* Faulty: clears the timer but arms no other.
RestartedUnprobed(w) ==
  /\ <<"worker_restarted", w>> \in msgs
  /\ msgs' = msgs \ {<<"worker_restarted", w>>}
  /\ status[w] # "busy"
  /\ status' = [status EXCEPT ![w] = "crashed"]
  /\ graceOver' = [graceOver EXCEPT ![w] = FALSE]
  /\ attempt' = [attempt EXCEPT ![w] = 0]
  /\ timers' = [timers EXCEPT ![w] = IF handle[w] THEN @ - 1 ELSE @]
  /\ handle' = [handle EXCEPT ![w] = FALSE]
  /\ UNCHANGED <<probes, requests, proc, sock, crashes>>

\* The replacement is probed before it is trusted; a busy entry is left alone.
Restarted(w) ==
  /\ <<"worker_restarted", w>> \in msgs
  /\ msgs' = msgs \ {<<"worker_restarted", w>>}
  /\ IF status[w] = "busy"
       THEN UNCHANGED pool
       ELSE /\ status' = [status EXCEPT ![w] = "crashed"]
            /\ graceOver' = [graceOver EXCEPT ![w] = FALSE]
            /\ Rearmed({w})
            /\ UNCHANGED probes
  /\ UNCHANGED <<requests, proc, sock, crashes>>

-----------------------------------------------------------------------------
(* Recovery probes *)

\* Faulty: starts the count over instead of trying again.
RescheduleReset(w) ==
  /\ attempt' = [attempt EXCEPT ![w] = 0]
  /\ UNCHANGED <<timers, handle>>

\* _scheduleRecoveryProbe after a failed probe: a timer armed meanwhile loses
\* its handle.
Reschedule(w) ==
  IF attempt[w] < RecoveryAttempts
    THEN /\ attempt' = [attempt EXCEPT ![w] = @ + 1]
         /\ timers' = [timers EXCEPT ![w] = @ + 1]
         /\ handle' = [handle EXCEPT ![w] = TRUE]
    ELSE UNCHANGED <<attempt, timers, handle>>

\* A timer fires, the one recoveryTimer refers to or another.
TimerFires(w) ==
  /\ timers[w] > 0
  /\ timers' = [timers EXCEPT ![w] = @ - 1]
  /\ \E last \in BOOLEAN :
       /\ last => handle[w]
       /\ ~last => timers[w] > 1 \/ ~handle[w]
       /\ handle' = [handle EXCEPT ![w] = @ /\ ~last]
  /\ probes' = [probes EXCEPT ![w][sock[w] /\ proc[w] = "serving"] = @ + 1]
  /\ UNCHANGED <<status, attempt, graceOver, requests, world>>

ProbeEnds(w, alive) ==
  /\ probes[w][alive] > 0
  /\ probes' = [probes EXCEPT ![w][alive] = @ - 1]
  /\ \/ /\ status[w] # "crashed"
        /\ UNCHANGED <<status, attempt, timers, handle, graceOver>>
     \/ /\ status[w] = "crashed" /\ alive
        /\ status' = [status EXCEPT ![w] = "ready"]
        /\ attempt' = [attempt EXCEPT ![w] = 0]
        /\ handle' = [handle EXCEPT ![w] = FALSE]
        /\ graceOver' = [graceOver EXCEPT ![w] = FALSE]
        /\ UNCHANGED timers
     \/ /\ status[w] = "crashed" /\ ~alive
        /\ Reschedule(w)
        /\ UNCHANGED <<status, graceOver>>
  /\ UNCHANGED <<requests, world>>

GraceEnds(w) ==
  /\ ~graceOver[w]
  /\ graceOver' = [graceOver EXCEPT ![w] = TRUE]
  /\ UNCHANGED <<status, attempt, timers, handle, probes, requests, world>>

-----------------------------------------------------------------------------
(* The environment *)

\* A killed worker leaves its socket file behind, one that exits removes it.
\* The supervisor's notification may fail, and then nobody repeats it.
Die(w) ==
  /\ proc[w] # "down" /\ crashes < MaxCrashes
  /\ crashes' = crashes + 1
  /\ proc' = [proc EXCEPT ![w] = "down"]
  /\ \E killed \in BOOLEAN : sock' = [sock EXCEPT ![w] = @ /\ killed]
  /\ link' = [r \in Request |-> IF on[r] = w /\ link[r] = "open" THEN "cut" ELSE link[r]]
  /\ msgs' \in {msgs, msgs \cup {<<"worker_crashed", w>>}}
  /\ UNCHANGED <<pool, on, outcome>>

StartProcess(w) ==
  /\ proc[w] = "down"
  /\ proc' = [proc EXCEPT ![w] = "loading"]
  /\ msgs' \in {msgs, msgs \cup {<<"worker_restarted", w>>}}
  /\ UNCHANGED <<pool, requests, sock, crashes>>

\* The model is loaded and the socket bound, in place of a stale file.
Bind(w) ==
  /\ proc[w] = "loading"
  /\ proc' = [proc EXCEPT ![w] = "serving"]
  /\ sock' = [sock EXCEPT ![w] = TRUE]
  /\ UNCHANGED <<pool, requests, msgs, crashes>>

-----------------------------------------------------------------------------

Next ==
  \/ Health
  \/ \E r \in Request : Unavailable(r) \/ Submit(r) \/ Answered(r) \/ Cancel(r) \/ TransportFails(r)
  \/ \E w \in Worker : \/ Crashed(w) \/ Restarted(w) \/ TimerFires(w) \/ GraceEnds(w)
                       \/ Die(w) \/ StartProcess(w) \/ Bind(w)
                       \/ \E alive \in BOOLEAN : ProbeEnds(w, alive)

Spec == Init /\ [][Next]_vars

\* Socket events, timers, probes and notifications reach the event loop, and a
\* live worker answers: generation ends at maxTokens, and the supervisor kills
\* a worker that stays busy too long.
Fairness ==
  /\ \A r \in Request : WF_vars(TransportFails(r)) /\ WF_vars(Answered(r))
  /\ \A w \in Worker : /\ WF_vars(Crashed(w)) /\ WF_vars(Restarted(w)) /\ WF_vars(TimerFires(w))
                       /\ \A alive \in BOOLEAN : WF_vars(ProbeEnds(w, alive))

FairSpec == Spec /\ Fairness

-----------------------------------------------------------------------------
(* Properties *)

\* A worker is busy exactly while one request is in flight on it.  No late
\* callback, notification or probe frees a worker that another request holds,
\* gives it to a second one, or leaves it busy with none.
BusyIsOneRequest ==
  \A w \in Worker :
    /\ status[w] = "busy" <=> InFlight(w) # {}
    /\ \A r, q \in InFlight(w) : r = q

\* The recovery of a worker is never forgotten: while it is out of the pool
\* and has attempts left, a timer is armed or a probe is out.
RecoveryIsDue ==
  \A w \in Worker :
    status[w] = "crashed" /\ attempt[w] < RecoveryAttempts =>
      timers[w] > 0 \/ probes[w][TRUE] > 0 \/ probes[w][FALSE] > 0

\* Every request handed to a worker is answered, whatever dies or is not said.
EveryRequestSettles ==
  \A r \in Request : outcome[r] = "pending" ~> outcome[r] # "pending"

\* The pool has stopped trying.
GivenUp(w) ==
  /\ status[w] = "crashed" /\ attempt[w] = RecoveryAttempts
  /\ timers[w] = 0 /\ \A alive \in BOOLEAN : probes[w][alive] = 0

\* A worker that stays up is taken back unless the pool has given up on it.
ServingReturns ==
  \A w \in Worker :
    <>[](proc[w] = "serving") => []<>(status[w] # "crashed" \/ GivenUp(w))

\* The pool implements the lending of workers: sockets, links, notifications,
\* timers and probes refine what the pool makes of a worker and how a request
\* is settled, and none of them frees, lends or settles out of turn
\* (_acquireWorker, cleanup, _markWorkerCrashed, _probeWorker).
TrustOf == [s \in Status |->
  CASE s = "starting" -> "unseen"
    [] s = "ready" -> "free"
    [] s = "busy" -> "lent"
    [] s = "crashed" -> "out"]

Lending == INSTANCE WorkerLending
             WITH trust <- [w \in Worker |-> TrustOf[status[w]]],
                  loan <- on,
                  result <- outcome

ImplementsLending == Lending!LSpec

=============================================================================
