----------------------------- MODULE Scheduler -----------------------------
(***************************************************************************)
(* Admission control of the shell app: backend/shell-app/scheduler.js.     *)
(*                                                                         *)
(* The class runs on one JavaScript event loop.  A callback (a call of     *)
(* enqueue or cancel, a timer) runs to its end, then the microtasks it     *)
(* queued run, and only then the next callback.  Three things follow and   *)
(* are kept here:                                                          *)
(*  - the while loop of _schedule is synchronous: while `loop' is TRUE no  *)
(*    step but one more iteration is possible;                             *)
(*  - the .finally() that gives a slot back is a microtask of its own      *)
(*    after the .then/.catch that settles the job: phase "settling";       *)
(*  - no callback starts while such a microtask is pending (Quiescent).    *)
(*                                                                         *)
(* A Job is one call of enqueue.  Two jobs may carry the same requestId:   *)
(* the clients retry with the id of the failed attempt.  Time is counted   *)
(* in ticks; ages stop growing where no comparison can tell them apart.    *)
(***************************************************************************)
EXTENDS Integers, Sequences, FiniteSets, SequencesExt

CONSTANTS
  Job,         \* the calls of enqueue
  RequestId,   \* the ids the callers supply
  Mfe,         \* the client ids (mfeId)
  NoJob,       \* no entry in the active map
  IdOf,        \* requestId of a job
  MfeOf,       \* mfeId of a job
  PriorityOf,  \* normalised priority of a job
  MaxSlots, MaxPerMfe, MaxQueue,
  AgingTicks,  \* agingMs
  QueueTicks,  \* queueTimeoutMs
  ExecTicks,   \* execTimeoutMs
  DoneTtl,     \* doneTtlMs
  DoneMax,     \* doneMaxEntries
  RetryWaits   \* TRUE: an id is reused only after its job left the scheduler

Priority == {"high", "normal", "low"}

ASSUME JobAssumption ==
  /\ IdOf \in [Job -> RequestId]
  /\ MfeOf \in [Job -> Mfe]
  /\ PriorityOf \in [Job -> Priority]
  /\ NoJob \notin Job
  /\ IsFiniteSet(Job)

ASSUME LimitAssumption ==
  /\ MaxSlots \in Nat /\ MaxPerMfe \in Nat /\ MaxQueue \in Nat
  /\ AgingTicks \in Nat \ {0} /\ QueueTicks \in Nat /\ ExecTicks \in Nat
  /\ DoneTtl \in Nat /\ DoneMax \in Nat \ {0}
  /\ RetryWaits \in BOOLEAN

\* A retry repeats the whole request, so jobs with one id agree on the rest.
ASSUME RetryAssumption ==
  \A j, k \in Job : IdOf[j] = IdOf[k] =>
     MfeOf[j] = MfeOf[k] /\ PriorityOf[j] = PriorityOf[k]

VARIABLES
  queue,         \* this.queue: jobs in order of arrival
  active,        \* this.active: requestId -> job
  perMfeActive,  \* this.perMfeActive: mfeId -> count, 0 for no entry
  done,          \* this.done: a Map, as the sequence of its entries in insertion order
  phase,         \* where each job is; its timers and promise chain follow from it
  aborted,       \* jobs whose AbortController fired
  outcome,       \* how the promise returned by enqueue was settled
  age,           \* ticks since enqueue while queued, since the start afterwards
  loop           \* inside the while loop of _schedule

vars == <<queue, active, perMfeActive, done, phase, aborted, outcome, age, loop>>

Phase == {"new", "refused", "queued", "running", "settling", "zombie", "over"}
Outcome == {"none", "done", "failed", "cancelled", "timeout"}

\* Bound on age: the larger of the two timeouts, beyond which a timer is due.
MaxAge == IF QueueTicks > ExecTicks THEN QueueTicks ELSE ExecTicks

DoneEntry == [id : RequestId, state : Outcome, age : 0..(DoneTtl + 1)]

TypeOK ==
  /\ queue \in Seq(Job)
  /\ active \in [RequestId -> Job \cup {NoJob}]
  /\ perMfeActive \in [Mfe -> Nat]
  /\ done \in Seq(DoneEntry)
  /\ phase \in [Job -> Phase]
  /\ aborted \subseteq Job
  /\ outcome \in [Job -> Outcome]
  /\ age \in [Job -> 0..MaxAge]
  /\ loop \in BOOLEAN

Init ==
  /\ queue = <<>>
  /\ active = [r \in RequestId |-> NoJob]
  /\ perMfeActive = [m \in Mfe |-> 0]
  /\ done = <<>>
  /\ phase = [j \in Job |-> "new"]
  /\ aborted = {}
  /\ outcome = [j \in Job |-> "none"]
  /\ age = [j \in Job |-> 0]
  /\ loop = FALSE

-----------------------------------------------------------------------------
(* Helpers *)

ActiveIds == {r \in RequestId : active[r] # NoJob}

\* Jobs that started and have not run releaseSlot.
Holders == {j \in Job : phase[j] \in {"running", "settling"}}

\* Jobs the scheduler has not let go of.
Live == {j \in Job : phase[j] \in {"queued", "running", "settling"}}

Quiescent == ~loop /\ \A j \in Job : phase[j] # "settling"

\* The first queue position holding requestId r, as findIndex returns it.
FirstIndex(r, i) ==
  /\ i \in DOMAIN queue /\ IdOf[queue[i]] = r
  /\ \A k \in DOMAIN queue : IdOf[queue[k]] = r => i <= k

BasePriority == [p \in Priority |->
  CASE p = "high" -> 300 [] p = "normal" -> 200 [] p = "low" -> 100]

EffectivePriority(j) == BasePriority[PriorityOf[j]] + age[j] \div AgingTicks

\* Faulty: forgets the per-client cap.
CanRunUncapped(j) == Cardinality(ActiveIds) < MaxSlots

CanRun(j) ==
  /\ Cardinality(ActiveIds) < MaxSlots
  /\ perMfeActive[MfeOf[j]] < MaxPerMfe

\* Faulty: the newest of equal candidates first.
IsNewest(i) ==
  /\ i \in DOMAIN queue
  /\ CanRun(queue[i])
  /\ \A k \in DOMAIN queue : CanRun(queue[k]) =>
       \/ EffectivePriority(queue[i]) > EffectivePriority(queue[k])
       \/ EffectivePriority(queue[i]) = EffectivePriority(queue[k]) /\ i >= k

\* _pickNextJob: filter by CanRun, then the highest score; the queue is in
\* order of createdAt and the sort is stable, so the first position wins a tie.
IsNext(i) ==
  /\ i \in DOMAIN queue
  /\ CanRun(queue[i])
  /\ \A k \in DOMAIN queue : CanRun(queue[k]) =>
       \/ EffectivePriority(queue[i]) > EffectivePriority(queue[k])
       \/ EffectivePriority(queue[i]) = EffectivePriority(queue[k]) /\ i <= k

\* Map.set keeps the position of a key that is already present.
MapSet(d, e) ==
  IF \E i \in DOMAIN d : d[i].id = e.id
    THEN [i \in DOMAIN d |-> IF d[i].id = e.id THEN e ELSE d[i]]
    ELSE Append(d, e)

\* _evictDone drops expired entries from the oldest up to the first fresh one,
\* then the oldest until doneMaxEntries are left.
Evicted(d, k) == k <= Len(d) - DoneMax \/ \A i \in 1..k : d[i].age > DoneTtl

Evict(d) == SubSeq(d, Cardinality({k \in DOMAIN d : Evicted(d, k)}) + 1, Len(d))

RecordDone(j, state) ==
  done' = Evict(MapSet(done, [id |-> IdOf[j], state |-> state, age |-> 0]))

\* job.resolve / job.reject followed by _recordDone.
SettleAs(j, state) ==
  /\ outcome' = [outcome EXCEPT ![j] = state]
  /\ RecordDone(j, state)

\* releaseSlot up to its call of _schedule, which `loop' carries out.
ReleaseSlot(j) ==
  /\ active' = [active EXCEPT ![IdOf[j]] = NoJob]
  /\ perMfeActive' = [perMfeActive EXCEPT ![MfeOf[j]] = IF @ <= 1 THEN 0 ELSE @ - 1]
  /\ loop' = TRUE

-----------------------------------------------------------------------------
(* Calls into the scheduler *)

\* The clients' use of ids: what `RetryWaits' demands of a new call.
IdFree(j) == RetryWaits => \A k \in Live : IdOf[k] # IdOf[j]

\* enqueue on a full queue throws before a job exists: HTTP 429.
Refuse(j) ==
  /\ Quiescent /\ phase[j] = "new" /\ IdFree(j)
  /\ Len(queue) >= MaxQueue
  /\ phase' = [phase EXCEPT ![j] = "refused"]
  /\ UNCHANGED <<queue, active, perMfeActive, done, aborted, outcome, age, loop>>

Enqueue(j) ==
  /\ Quiescent /\ phase[j] = "new" /\ IdFree(j)
  /\ Len(queue) < MaxQueue
  /\ queue' = Append(queue, j)
  /\ phase' = [phase EXCEPT ![j] = "queued"]
  /\ loop' = TRUE
  /\ UNCHANGED <<active, perMfeActive, done, aborted, outcome, age>>

\* Faulty: leaves the job in the queue.
CancelUnspliced(r) ==
  /\ Quiescent
  /\ \E i \in DOMAIN queue :
       /\ FirstIndex(r, i)
       /\ phase' = [phase EXCEPT ![queue[i]] = "over"]
       /\ SettleAs(queue[i], "cancelled")
  /\ UNCHANGED <<queue, active, perMfeActive, aborted, age, loop>>


\* cancel(requestId) of a queued job.
CancelQueued(r) ==
  /\ Quiescent
  /\ \E i \in DOMAIN queue :
       /\ FirstIndex(r, i)
       /\ queue' = RemoveAt(queue, i)
       /\ phase' = [phase EXCEPT ![queue[i]] = "over"]
       /\ SettleAs(queue[i], "cancelled")
  /\ UNCHANGED <<active, perMfeActive, aborted, age, loop>>

\* cancel(requestId) of a running job only fires its AbortController.
CancelActive(r) ==
  /\ Quiescent
  /\ \A i \in DOMAIN queue : IdOf[queue[i]] # r
  /\ active[r] # NoJob
  /\ aborted' = aborted \cup {active[r]}
  /\ UNCHANGED <<queue, active, perMfeActive, done, phase, outcome, age, loop>>

-----------------------------------------------------------------------------
(* The while loop of _schedule, one iteration per step *)

\* _run of the job picked: findIndex looks the job up by its requestId.
Start ==
  /\ loop
  /\ \E i, f \in DOMAIN queue :
       LET j == queue[i] IN
       /\ IsNext(i)
       /\ FirstIndex(IdOf[j], f)
       /\ queue' = RemoveAt(queue, f)
       /\ active' = [active EXCEPT ![IdOf[j]] = j]
       /\ perMfeActive' = [perMfeActive EXCEPT ![MfeOf[j]] = @ + 1]
       /\ phase' = [phase EXCEPT ![j] = "running"]
       /\ age' = [age EXCEPT ![j] = 0]
  /\ UNCHANGED <<done, aborted, outcome, loop>>

StopLoop ==
  /\ loop
  /\ \A i \in DOMAIN queue : ~CanRun(queue[i])
  /\ loop' = FALSE
  /\ UNCHANGED <<queue, active, perMfeActive, done, phase, aborted, outcome, age>>

-----------------------------------------------------------------------------
(* Timers.  Queue timers share one duration and are cleared when their job  *)
(* leaves the queue, so the next one to fire is that of the queue's head.   *)

QueueTimer ==
  /\ Quiescent
  /\ queue # <<>>
  /\ age[Head(queue)] >= QueueTicks
  /\ queue' = Tail(queue)
  /\ phase' = [phase EXCEPT ![Head(queue)] = "over"]
  /\ SettleAs(Head(queue), "timeout")
  /\ UNCHANGED <<active, perMfeActive, aborted, age, loop>>

\* Faulty: aborts the work and leaves the rest to its promise.
ExecTimerOnlyAborts(j) ==
  /\ Quiescent
  /\ phase[j] = "running" /\ age[j] >= ExecTicks
  /\ aborted' = aborted \cup {j}
  /\ UNCHANGED <<queue, active, perMfeActive, done, phase, outcome, age, loop>>

\* The execution timer settles the job and gives the slot back itself; the
\* work it started may still be going on ("zombie").
ExecTimer(j) ==
  /\ Quiescent
  /\ phase[j] = "running" /\ age[j] >= ExecTicks
  /\ aborted' = aborted \cup {j}
  /\ SettleAs(j, "timeout")
  /\ phase' = [phase EXCEPT ![j] = "zombie"]
  /\ ReleaseSlot(j)
  /\ UNCHANGED <<queue, age>>

Older(a, bound) == IF a < bound THEN a + 1 ELSE a

\* Time passes, for the jobs that wait on a timer and for the done entries.
Tick ==
  /\ Quiescent
  /\ age' = [j \in Job |-> IF phase[j] \in {"queued", "running"}
                             THEN Older(age[j], MaxAge) ELSE age[j]]
  /\ done' = [i \in DOMAIN done |-> [done[i] EXCEPT !.age = Older(@, DoneTtl + 1)]]
  /\ UNCHANGED <<queue, active, perMfeActive, phase, aborted, outcome, loop>>

-----------------------------------------------------------------------------
(* The promise chain of _run *)

\* execute() settled before the execution timer: .then or .catch.
Settle(j, ok) ==
  /\ ~loop
  /\ phase[j] = "running"
  /\ phase' = [phase EXCEPT ![j] = "settling"]
  /\ SettleAs(j, IF ok THEN "done" ELSE IF j \in aborted THEN "cancelled" ELSE "failed")
  /\ UNCHANGED <<queue, active, perMfeActive, aborted, age, loop>>

\* Faulty: gives the slot back without calling _schedule.
ReleaseUnscheduled(j) ==
  /\ ~loop
  /\ phase[j] = "settling"
  /\ phase' = [phase EXCEPT ![j] = "over"]
  /\ active' = [active EXCEPT ![IdOf[j]] = NoJob]
  /\ perMfeActive' = [perMfeActive EXCEPT ![MfeOf[j]] = IF @ <= 1 THEN 0 ELSE @ - 1]
  /\ UNCHANGED <<queue, done, aborted, outcome, age, loop>>

\* .finally()
Release(j) ==
  /\ ~loop
  /\ phase[j] = "settling"
  /\ phase' = [phase EXCEPT ![j] = "over"]
  /\ ReleaseSlot(j)
  /\ UNCHANGED <<queue, done, aborted, outcome, age>>

\* Faulty: no `released' flag; no execTimedOut check, which records again
\* (the promise itself ignores a second resolve) or answers again.
LateRelease(j) ==
  /\ ~loop
  /\ phase[j] = "zombie"
  /\ phase' = [phase EXCEPT ![j] = "over"]
  /\ ReleaseSlot(j)
  /\ UNCHANGED <<queue, done, aborted, outcome, age>>

LateRecord(j) ==
  /\ ~loop
  /\ phase[j] = "zombie"
  /\ phase' = [phase EXCEPT ![j] = "over"]
  /\ RecordDone(j, "done")
  /\ UNCHANGED <<queue, active, perMfeActive, aborted, outcome, age, loop>>

LateAnswer(j) ==
  /\ ~loop
  /\ phase[j] = "zombie"
  /\ phase' = [phase EXCEPT ![j] = "over"]
  /\ SettleAs(j, "done")
  /\ UNCHANGED <<queue, active, perMfeActive, aborted, age, loop>>

\* execute() settled after the timer: execTimedOut and released stop both
\* the handler and the second release.
LateSettle(j) ==
  /\ ~loop
  /\ phase[j] = "zombie"
  /\ phase' = [phase EXCEPT ![j] = "over"]
  /\ UNCHANGED <<queue, active, perMfeActive, done, aborted, outcome, age, loop>>

-----------------------------------------------------------------------------

Next ==
  \/ Start \/ StopLoop \/ QueueTimer \/ Tick
  \/ \E r \in RequestId : CancelQueued(r) \/ CancelActive(r)
  \/ \E j \in Job : \/ Refuse(j) \/ Enqueue(j) \/ ExecTimer(j)
                    \/ Release(j) \/ LateSettle(j)
                    \/ \E ok \in BOOLEAN : Settle(j, ok)

Spec == Init /\ [][Next]_vars

\* The event loop keeps running: timers fire, microtasks and the synchronous
\* loop complete, time passes.  Callers and the work itself owe nothing.
Fairness ==
  /\ WF_vars(Start) /\ WF_vars(StopLoop) /\ WF_vars(QueueTimer) /\ WF_vars(Tick)
  /\ \A j \in Job : WF_vars(ExecTimer(j)) /\ WF_vars(Release(j))

FairSpec == Spec /\ Fairness

-----------------------------------------------------------------------------
(* Properties *)

\* The global cap (maxSlots) bounds the jobs that really hold a slot, not
\* only the size of the active map (_canRun reads the latter).
SlotCap == Cardinality(Holders) <= MaxSlots

\* One client never holds more than maxPerMfe slots, whatever ids it uses.
PerMfeCap ==
  \A m \in Mfe : Cardinality({j \in Holders : MfeOf[j] = m}) <= MaxPerMfe

\* The two maps that admission reads agree with the jobs that hold a slot:
\* no release is lost, doubled, or charged to another job or client.
SlotAccounting ==
  /\ \A r \in RequestId, j \in Job : active[r] = j <=> j \in Holders /\ IdOf[j] = r
  /\ \A m \in Mfe : perMfeActive[m] = Cardinality({j \in Holders : MfeOf[j] = m})

\* The queue holds exactly waiting jobs, each once, in order of arrival.
QueueInv ==
  /\ \A i \in DOMAIN queue : phase[queue[i]] = "queued"
  /\ \A i, k \in DOMAIN queue : i < k => /\ queue[i] # queue[k]
                                         /\ age[queue[i]] >= age[queue[k]]
  /\ \A j \in Job : phase[j] = "new" => age[j] = 0

\* _schedule splices the queue entry that findIndex finds for the requestId
\* of the job it picked, and starts the job it picked: they are the same job
\* even when a retry of that id is queued too, so no job starts twice.
PickedIsSpliced ==
  \A i, f \in DOMAIN queue :
    IsNext(i) /\ FirstIndex(IdOf[queue[i]], f) => i = f

\* No lost wakeup: once _schedule has returned, no queued job could run.
WorkConserving == ~loop => \A i \in DOMAIN queue : ~CanRun(queue[i])

\* A submitted job is never lost: it is in the queue once, in the active map,
\* or settled; getQueueStatus can always find it.
NeverLost ==
  \A j \in Job :
    /\ phase[j] = "queued" <=> \E i \in DOMAIN queue : queue[i] = j
    /\ Cardinality({i \in DOMAIN queue : queue[i] = j}) <= 1
    /\ phase[j] = "running" => active[IdOf[j]] = j
    /\ phase[j] \in {"settling", "zombie", "over"} <=> outcome[j] # "none"

Recorded(j) == outcome[j] = "none" /\ outcome'[j] # "none"

\* The done map answers /api/queue-status with what the caller was told: a
\* record changes only in the step that settles a job of that id, to that
\* job's outcome, and a settled job's outcome never changes.
RecordedAsSettled ==
  [][/\ \A j \in Job : outcome[j] # "none" => outcome'[j] = outcome[j]
     /\ \A j \in Job : Recorded(j) =>
          \E i \in DOMAIN done' : done'[i].id = IdOf[j] /\ done'[i].state = outcome'[j]
     /\ \A i \in DOMAIN done' :
          \/ \E j \in Job : Recorded(j) /\ IdOf[j] = done'[i].id
          \/ \E k \in DOMAIN done : done[k].id = done'[i].id /\ done[k].state = done'[i].state
    ]_vars

\* Within one client and one priority the queue is first in, first out.
NoOvertaking ==
  [][\A j, k \in Job :
       /\ phase[j] = "queued" /\ phase'[j] = "running"
       /\ MfeOf[j] = MfeOf[k] /\ PriorityOf[j] = PriorityOf[k]
       => ~\E a, b \in DOMAIN queue : a < b /\ queue[a] = k /\ queue[b] = j]_vars

\* Every admitted job's promise is settled and its slot comes back, even if
\* execute() never settles and no caller cancels.
EveryJobSettles ==
  \A j \in Job : phase[j] = "queued" ~> outcome[j] # "none" /\ j \notin Holders

\* The scheduler implements the admission control it promises: queue, maps,
\* timers and microtasks refine the stages a caller can see.
StageOf == [p \in Phase |->
  CASE p = "queued" -> "waiting"
    [] p \in {"running", "settling"} -> "holding"
    [] p \in {"zombie", "over"} -> "gone"
    [] OTHER -> p]

Promise == INSTANCE AdmissionControl
             WITH stage <- [j \in Job |-> StageOf[phase[j]]], result <- outcome

ImplementsAdmissionControl == Promise!ASpec

=============================================================================
