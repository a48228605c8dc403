-------------------------- MODULE AdmissionControl --------------------------
(***************************************************************************)
(* What the scheduler promises its callers, without queues, maps, timers   *)
(* or ids: at most MaxQueue jobs wait, at most MaxSlots run, at most       *)
(* MaxPerMfe of one client, a job is refused only when the queue is full,  *)
(* and every job that was let in gets exactly one result, before its slot  *)
(* is handed on.                                                           *)
(***************************************************************************)
EXTENDS Integers, FiniteSets

CONSTANTS Job, Mfe, MfeOf, MaxSlots, MaxPerMfe, MaxQueue

VARIABLES stage, result

avars == <<stage, result>>

Stage == {"new", "refused", "waiting", "holding", "gone"}

AInit ==
  /\ stage = [j \in Job |-> "new"]
  /\ result = [j \in Job |-> "none"]

At(s) == {j \in Job : stage[j] = s}
HeldBy(m) == {j \in At("holding") : MfeOf[j] = m}

Move(j, from, to) == stage[j] = from /\ stage' = [stage EXCEPT ![j] = to]
Answer(j, r) == result[j] = "none" /\ result' = [result EXCEPT ![j] = r]

ARefuse(j) ==
  /\ Cardinality(At("waiting")) >= MaxQueue
  /\ Move(j, "new", "refused")
  /\ UNCHANGED result

ASubmit(j) ==
  /\ Cardinality(At("waiting")) < MaxQueue
  /\ Move(j, "new", "waiting")
  /\ UNCHANGED result

AStart(j) ==
  /\ Cardinality(At("holding")) < MaxSlots
  /\ Cardinality(HeldBy(MfeOf[j])) < MaxPerMfe
  /\ Move(j, "waiting", "holding")
  /\ UNCHANGED result

\* Leaves the queue without having run.
ADrop(j) ==
  /\ Move(j, "waiting", "gone")
  /\ \E r \in {"cancelled", "timeout"} : Answer(j, r)

AAnswer(j) ==
  /\ stage[j] = "holding"
  /\ \E r \in {"done", "failed", "cancelled"} : Answer(j, r)
  /\ UNCHANGED stage

AReturn(j) ==
  /\ result[j] # "none"
  /\ Move(j, "holding", "gone")
  /\ UNCHANGED result

\* Out of time: the answer and the slot in one step.
AExpire(j) == Move(j, "holding", "gone") /\ Answer(j, "timeout")

ANext ==
  \E j \in Job : \/ ARefuse(j) \/ ASubmit(j) \/ AStart(j) \/ ADrop(j)
                 \/ AAnswer(j) \/ AReturn(j) \/ AExpire(j)

ASpec == AInit /\ [][ANext]_avars

=============================================================================
