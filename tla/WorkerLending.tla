--------------------------- MODULE WorkerLending ---------------------------
(***************************************************************************)
(* What the pool promises, without sockets, timers, probes, notifications  *)
(* or processes: a worker is lent to one request at a time and is given    *)
(* back by that request alone; a worker that failed is out, whatever is    *)
(* said of it, until a probe of its own brings it back; a request that     *)
(* was lent a worker is settled once, together with its worker, and one    *)
(* is refused only when no worker is free.                                 *)
(***************************************************************************)
CONSTANTS Worker, Request, None

VARIABLES
  trust,   \* what the pool makes of a worker
  loan,    \* the worker a request was lent
  result   \* how a request was settled

lvars == <<trust, loan, result>>

Trust == {"unseen", "free", "lent", "out"}
Returned == {"result", "worker_error", "stream_cancelled"}
Broken == {"transport", "worker_crashed"}

Borrowers(w) == {r \in Request : result[r] = "pending" /\ loan[r] = w}

LInit ==
  /\ trust = [w \in Worker |-> "unseen"]
  /\ loan = [r \in Request |-> None]
  /\ result = [r \in Request |-> "none"]

\* A look at the workers: it says nothing new of one that is lent or out.
Looks ==
  {seen \in [Worker -> Trust] :
     \A w \in Worker : IF trust[w] \in {"lent", "out"} THEN seen[w] = trust[w]
                                                       ELSE seen[w] # "lent"}

LLook ==
  /\ trust' \in Looks
  /\ UNCHANGED <<loan, result>>

LLend(r) ==
  /\ result[r] = "none"
  /\ \E seen \in Looks, w \in Worker :
       /\ seen[w] = "free"
       /\ trust' = [seen EXCEPT ![w] = "lent"]
       /\ loan' = [loan EXCEPT ![r] = w]
  /\ result' = [result EXCEPT ![r] = "pending"]

LRefuse(r) ==
  /\ result[r] = "none"
  /\ trust' \in Looks
  /\ \A w \in Worker : trust'[w] # "free"
  /\ result' = [result EXCEPT ![r] = "no_ready_workers"]
  /\ UNCHANGED loan

LReturn(r) ==
  /\ \E w \in Worker : /\ Borrowers(w) = {r} /\ trust[w] = "lent"
                       /\ trust' = [trust EXCEPT ![w] = "free"]
  /\ \E how \in Returned : result' = [result EXCEPT ![r] = how]
  /\ UNCHANGED loan

\* The worker is out, and with it the request that has it.
LBreak(w) ==
  /\ trust' = [trust EXCEPT ![w] = "out"]
  /\ \E how \in Broken :
       result' = [r \in Request |-> IF r \in Borrowers(w) THEN how ELSE result[r]]
  /\ UNCHANGED loan

LRecover(w) ==
  /\ trust[w] = "out"
  /\ trust' = [trust EXCEPT ![w] = "free"]
  /\ UNCHANGED <<loan, result>>

LNext ==
  \/ LLook
  \/ \E r \in Request : LLend(r) \/ LRefuse(r) \/ LReturn(r)
  \/ \E w \in Worker : LBreak(w) \/ LRecover(w)

LSpec == LInit /\ [][LNext]_lvars

=============================================================================
