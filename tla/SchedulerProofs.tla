-------------------------- MODULE SchedulerProofs --------------------------
(***************************************************************************)
(* Proofs about Scheduler, for every set of jobs, ids and clients and all   *)
(* limits.                                                                 *)
(***************************************************************************)
EXTENDS Scheduler, FiniteSetTheorems, FunctionTheorems, SequenceTheorems, TLAPS

-----------------------------------------------------------------------------
(* Sequences *)

LEMMA RemoveAtElements ==
  ASSUME NEW S, NEW s \in Seq(S), NEW i \in 1..Len(s)
  PROVE  /\ RemoveAt(s, i) \in Seq(S)
         /\ Len(RemoveAt(s, i)) = Len(s) - 1
         /\ \A k \in 1..(Len(s) - 1) :
              RemoveAt(s, i)[k] = IF k < i THEN s[k] ELSE s[k + 1]
<1> DEFINE front == SubSeq(s, 1, i - 1)
           back == SubSeq(s, i + 1, Len(s))
<1>1. front \in Seq(S) /\ Len(front) = i - 1 /\ \A k \in 1..(i - 1) : front[k] = s[k]
  BY SubSeqProperties
<1>2. back \in Seq(S) /\ Len(back) = Len(s) - i
      /\ \A k \in 1..(Len(s) - i) : back[k] = s[k + i]
  BY SubSeqProperties
<1>3. RemoveAt(s, i) = front \o back
  BY DEF RemoveAt
<1> HIDE DEF front, back
<1>4. RemoveAt(s, i) \in Seq(S) /\ Len(RemoveAt(s, i)) = Len(s) - 1
  <2>1. Len(s) \in Nat
    OBVIOUS
  <2>2. front \o back \in Seq(S) /\ Len(front \o back) = Len(front) + Len(back)
    BY <1>1, <1>2, ConcatProperties, Zenon
  <2>3. QED
    BY <1>1, <1>2, <1>3, <2>1, <2>2
<1>5. ASSUME NEW k \in 1..(Len(s) - 1)
      PROVE  RemoveAt(s, i)[k] = IF k < i THEN s[k] ELSE s[k + 1]
  <2>1. k \in 1..(Len(front) + Len(back))
    BY <1>1, <1>2
  <2>2. RemoveAt(s, i)[k] = IF k <= Len(front) THEN front[k] ELSE back[k - Len(front)]
    BY <1>1, <1>2, <1>3, <2>1, ConcatProperties
  <2>3. CASE k < i
    BY <1>1, <2>2, <2>3
  <2>4. CASE ~(k < i)
    <3>1. k - Len(front) \in 1..(Len(s) - i) /\ k > Len(front)
      BY <1>1, <2>4
    <3>2. QED
      BY <1>1, <1>2, <2>2, <2>4, <3>1
  <2>5. QED
    BY <2>3, <2>4
<1>6. QED
  BY <1>4, <1>5

LEMMA DivMonotone ==
  ASSUME NEW a \in Nat, NEW b \in Nat, NEW n \in Nat \ {0}, a >= b
  PROVE  a \div n >= b \div n
OBVIOUS

-----------------------------------------------------------------------------
(* The done map *)

LEMMA MapSetType ==
  ASSUME NEW d \in Seq(DoneEntry), NEW e \in DoneEntry
  PROVE  MapSet(d, e) \in Seq(DoneEntry)
<1>1. CASE \E i \in DOMAIN d : d[i].id = e.id
  <2> DEFINE m == [i \in DOMAIN d |-> IF d[i].id = e.id THEN e ELSE d[i]]
  <2>1. DOMAIN d = 1..Len(d) /\ Len(d) \in Nat /\ \A i \in DOMAIN d : d[i] \in DoneEntry
    OBVIOUS
  <2>2. m \in [1..Len(d) -> DoneEntry]
    BY <2>1
  <2>3. m \in Seq(DoneEntry)
    BY <2>1, <2>2
  <2>4. QED
    BY <1>1, <2>3 DEF MapSet
<1>2. CASE ~\E i \in DOMAIN d : d[i].id = e.id
  BY <1>2, AppendProperties DEF MapSet
<1>3. QED
  BY <1>1, <1>2

LEMMA EvictType ==
  ASSUME NEW d \in Seq(DoneEntry)
  PROVE  Evict(d) \in Seq(DoneEntry)
<1> DEFINE dropped == {k \in DOMAIN d : Evicted(d, k)}
<1>1. Len(d) \in Nat /\ DOMAIN d = 1..Len(d) /\ \A i \in 1..Len(d) : d[i] \in DoneEntry
  OBVIOUS
<1>2. IsFiniteSet(1..Len(d))
  BY <1>1, FS_Interval
<1>3. dropped \in SUBSET (1..Len(d))
  BY <1>1
<1>4. Cardinality(dropped) \in Nat
  BY <1>2, <1>3, FS_Subset, FS_CardinalityType
<1> HIDE DEF dropped
<1>5. \A i \in (Cardinality(dropped) + 1)..Len(d) : d[i] \in DoneEntry
  BY <1>1, <1>4
<1>6. SubSeq(d, Cardinality(dropped) + 1, Len(d)) \in Seq(DoneEntry)
  BY <1>1, <1>4, <1>5, SubSeqProperties
<1>7. QED
  BY <1>6 DEF Evict, dropped

LEMMA SettleAsType ==
  ASSUME TypeOK, NEW j \in Job, NEW state \in Outcome, SettleAs(j, state)
  PROVE  done' \in Seq(DoneEntry) /\ outcome' \in [Job -> Outcome]
<1> DEFINE e == [id |-> IdOf[j], state |-> state, age |-> 0]
<1>1. e \in DoneEntry
  BY JobAssumption, LimitAssumption DEF DoneEntry
<1>2. Evict(MapSet(done, e)) \in Seq(DoneEntry)
  BY <1>1, MapSetType, EvictType DEF TypeOK
<1>3. QED
  BY <1>2 DEF SettleAs, RecordDone, TypeOK

LEMMA ReleaseSlotType ==
  ASSUME TypeOK, NEW j \in Job, ReleaseSlot(j)
  PROVE  /\ active' \in [RequestId -> Job \cup {NoJob}]
         /\ perMfeActive' \in [Mfe -> Nat]
         /\ loop' \in BOOLEAN
<1>1. \A m \in Mfe : perMfeActive[m] <= 1 \/ perMfeActive[m] - 1 \in Nat
  BY DEF TypeOK
<1>2. QED
  BY <1>1 DEF ReleaseSlot, TypeOK

LEMMA HeadType ==
  ASSUME TypeOK, queue # <<>>
  PROVE  /\ Head(queue) \in Job /\ Tail(queue) \in Seq(Job)
         /\ 1 \in DOMAIN queue /\ Head(queue) = queue[1]
BY HeadTailProperties DEF TypeOK

-----------------------------------------------------------------------------
(* Type correctness *)

LEMMA TypeStep == TypeOK /\ [Next]_vars => TypeOK'
<1> SUFFICES ASSUME TypeOK, [Next]_vars PROVE TypeOK'
  OBVIOUS
<1> USE JobAssumption, LimitAssumption
<1>0. MaxAge \in Nat
  BY DEF MaxAge
<1>1. ASSUME Start PROVE TypeOK'
  <2>1. PICK i \in DOMAIN queue, f \in DOMAIN queue :
          /\ queue' = RemoveAt(queue, f)
          /\ active' = [active EXCEPT ![IdOf[queue[i]]] = queue[i]]
          /\ perMfeActive' = [perMfeActive EXCEPT ![MfeOf[queue[i]]] = @ + 1]
          /\ phase' = [phase EXCEPT ![queue[i]] = "running"]
          /\ age' = [age EXCEPT ![queue[i]] = 0]
    BY <1>1 DEF Start
  <2>2. queue[i] \in Job
    BY DEF TypeOK
  <2>3. queue' \in Seq(Job)
    BY <2>1, RemoveAtElements DEF TypeOK
  <2>4. active' \in [RequestId -> Job \cup {NoJob}] /\ perMfeActive' \in [Mfe -> Nat]
    BY <2>1, <2>2 DEF TypeOK
  <2>5. phase' \in [Job -> Phase] /\ age' \in [Job -> 0..MaxAge]
    BY <1>0, <2>1, <2>2 DEF TypeOK, Phase
  <2>6. QED
    BY <1>1, <2>3, <2>4, <2>5 DEF Start, TypeOK
<1>2. ASSUME StopLoop PROVE TypeOK'
  BY <1>2 DEF StopLoop, TypeOK
<1>3. ASSUME QueueTimer PROVE TypeOK'
  <2>1. Head(queue) \in Job /\ Tail(queue) \in Seq(Job)
    BY <1>3, HeadType DEF QueueTimer
  <2>2. done' \in Seq(DoneEntry) /\ outcome' \in [Job -> Outcome]
    BY <1>3, <2>1, SettleAsType DEF QueueTimer, Outcome
  <2>3. QED
    BY <1>3, <2>1, <2>2 DEF QueueTimer, TypeOK, Phase
<1>4. ASSUME Tick PROVE TypeOK'
  <2>1. \A j \in Job : Older(age[j], MaxAge) \in 0..MaxAge
    BY <1>0 DEF TypeOK, Older
  <2>2. ASSUME NEW i \in DOMAIN done
        PROVE  [done[i] EXCEPT !.age = Older(@, DoneTtl + 1)] \in DoneEntry
    <3>1. done[i] \in DoneEntry
      BY DEF TypeOK
    <3>2. Older(done[i].age, DoneTtl + 1) \in 0..(DoneTtl + 1)
      BY <3>1 DEF DoneEntry, Older
    <3>3. QED
      BY <3>1, <3>2 DEF DoneEntry
  <2>3. DOMAIN done = 1..Len(done) /\ Len(done) \in Nat
    BY DEF TypeOK
  <2>4. done' \in [1..Len(done) -> DoneEntry]
    BY <1>4, <2>2, <2>3 DEF Tick
  <2>5. done' \in Seq(DoneEntry)
    BY <2>3, <2>4
  <2>6. age' \in [Job -> 0..MaxAge]
    BY <1>4, <2>1 DEF Tick, TypeOK
  <2>7. QED
    BY <1>4, <2>5, <2>6 DEF Tick, TypeOK
<1>5. ASSUME NEW r \in RequestId, CancelQueued(r) PROVE TypeOK'
  <2>1. PICK i \in DOMAIN queue :
          /\ queue' = RemoveAt(queue, i)
          /\ phase' = [phase EXCEPT ![queue[i]] = "over"]
          /\ SettleAs(queue[i], "cancelled")
    BY <1>5 DEF CancelQueued
  <2>2. queue[i] \in Job /\ queue' \in Seq(Job)
    BY <2>1, RemoveAtElements DEF TypeOK
  <2>3. done' \in Seq(DoneEntry) /\ outcome' \in [Job -> Outcome]
    BY <2>1, <2>2, SettleAsType DEF Outcome
  <2>4. QED
    BY <1>5, <2>1, <2>2, <2>3 DEF CancelQueued, TypeOK, Phase
<1>6. ASSUME NEW r \in RequestId, CancelActive(r) PROVE TypeOK'
  BY <1>6 DEF CancelActive, TypeOK
<1>7. ASSUME NEW j \in Job, Refuse(j) PROVE TypeOK'
  BY <1>7 DEF Refuse, TypeOK, Phase
<1>8. ASSUME NEW j \in Job, Enqueue(j) PROVE TypeOK'
  BY <1>8, AppendProperties DEF Enqueue, TypeOK, Phase
<1>9. ASSUME NEW j \in Job, ExecTimer(j) PROVE TypeOK'
  <2>1. done' \in Seq(DoneEntry) /\ outcome' \in [Job -> Outcome]
    BY <1>9, SettleAsType DEF ExecTimer, Outcome
  <2>2. QED
    BY <1>9, <2>1, ReleaseSlotType DEF ExecTimer, TypeOK, Phase
<1>10. ASSUME NEW j \in Job, Release(j) PROVE TypeOK'
  BY <1>10, ReleaseSlotType DEF Release, TypeOK, Phase
<1>11. ASSUME NEW j \in Job, LateSettle(j) PROVE TypeOK'
  BY <1>11 DEF LateSettle, TypeOK, Phase
<1>12. ASSUME NEW j \in Job, NEW ok \in BOOLEAN, Settle(j, ok) PROVE TypeOK'
  <2> DEFINE state == IF ok THEN "done" ELSE IF j \in aborted THEN "cancelled" ELSE "failed"
  <2>1. state \in Outcome /\ SettleAs(j, state)
    BY <1>12 DEF Settle, Outcome
  <2>2. done' \in Seq(DoneEntry) /\ outcome' \in [Job -> Outcome]
    BY <2>1, SettleAsType
  <2>3. QED
    BY <1>12, <2>2 DEF Settle, TypeOK, Phase
<1>13. CASE UNCHANGED vars
  BY <1>13 DEF vars, TypeOK
<1>14. QED
  BY <1>1, <1>2, <1>3, <1>4, <1>5, <1>6, <1>7, <1>8, <1>9, <1>10, <1>11, <1>12, <1>13
     DEF Next

LEMMA TypeInit == Init => TypeOK
<1> SUFFICES ASSUME Init PROVE TypeOK
  OBVIOUS
<1>1. queue \in Seq(Job) /\ done \in Seq(DoneEntry)
  BY DEF Init
<1>2. 0 \in 0..MaxAge
  BY LimitAssumption DEF MaxAge
<1>3. QED
  BY <1>1, <1>2 DEF Init, TypeOK, Phase, Outcome

(* Every reachable state is well typed: in particular the counters of
   perMfeActive never go negative and the done map only holds entries. *)
THEOREM TypeCorrect == Spec => []TypeOK
<1>1. QED
  BY TypeInit, TypeStep, PTL DEF Spec

-----------------------------------------------------------------------------
(* The queue *)

\* p is q without its f-th element.
Without(p, q, f) ==
  /\ Len(p) = Len(q) - 1
  /\ \A k \in 1..(Len(q) - 1) : p[k] = IF k < f THEN q[k] ELSE q[k + 1]

LEMMA WithoutKeepsOrder ==
  ASSUME NEW q \in Seq(Job), NEW p \in Seq(Job), NEW f \in DOMAIN q, Without(p, q, f)
  PROVE  /\ \A k \in DOMAIN p : \E l \in DOMAIN q : l # f /\ p[k] = q[l]
         /\ \A a, b \in DOMAIN p : a < b =>
              \E c, d \in DOMAIN q : c < d /\ c # f /\ d # f /\ p[a] = q[c] /\ p[b] = q[d]
<1> DEFINE g(k) == IF k < f THEN k ELSE k + 1
<1>1. Len(q) \in Nat /\ DOMAIN q = 1..Len(q) /\ DOMAIN p = 1..(Len(q) - 1)
  BY DEF Without
<1>2. \A k \in DOMAIN p : g(k) \in DOMAIN q /\ g(k) # f /\ p[k] = q[g(k)]
  BY <1>1 DEF Without
<1>3. \A a, b \in DOMAIN p : a < b => g(a) < g(b)
  BY <1>1
<1>4. QED
  BY <1>2, <1>3

LEMMA RemoveAtIsWithout ==
  ASSUME NEW q \in Seq(Job), NEW f \in DOMAIN q
  PROVE  RemoveAt(q, f) \in Seq(Job) /\ Without(RemoveAt(q, f), q, f)
BY RemoveAtElements DEF Without

LEMMA TailIsWithout ==
  ASSUME NEW q \in Seq(Job), q # <<>>
  PROVE  Tail(q) \in Seq(Job) /\ Without(Tail(q), q, 1) /\ 1 \in DOMAIN q
<1>1. Tail(q) \in Seq(Job) /\ Len(Tail(q)) = Len(q) - 1
      /\ \A i \in 1..Len(Tail(q)) : Tail(q)[i] = q[i + 1]
  BY HeadTailProperties
<1>2. QED
  BY <1>1 DEF Without

\* A job leaves the queue and its phase changes with it.
LEMMA LeaveQueue ==
  ASSUME TypeOK, QueueInv, NEW f \in DOMAIN queue,
         queue' \in Seq(Job), Without(queue', queue, f),
         NEW p \in Phase \ {"queued", "new"}, phase' = [phase EXCEPT ![queue[f]] = p],
         \A j \in Job : j # queue[f] => age'[j] = age[j]
  PROVE  QueueInv'
<1>0. queue \in Seq(Job) /\ queue[f] \in Job /\ \A l \in DOMAIN queue : queue[l] \in Job
  BY DEF TypeOK
<1>1. \A l \in DOMAIN queue : l # f => queue[l] # queue[f]
  <2>1. \A l \in DOMAIN queue : l < f \/ l > f \/ l = f
    BY <1>0
  <2>2. QED
    BY <2>1 DEF QueueInv
<1>2. \A k \in DOMAIN queue' : \E l \in DOMAIN queue : l # f /\ queue'[k] = queue[l]
  BY <1>0, WithoutKeepsOrder
<1>3. \A a, b \in DOMAIN queue' : a < b =>
         \E c, d \in DOMAIN queue :
            c < d /\ c # f /\ d # f /\ queue'[a] = queue[c] /\ queue'[b] = queue[d]
  BY <1>0, WithoutKeepsOrder
<1>4. \A i \in DOMAIN queue' : phase'[queue'[i]] = "queued"
  BY <1>0, <1>1, <1>2 DEF QueueInv, TypeOK
<1>5. ASSUME NEW a \in DOMAIN queue', NEW b \in DOMAIN queue', a < b
      PROVE  queue'[a] # queue'[b] /\ age'[queue'[a]] >= age'[queue'[b]]
  <2>1. PICK c \in DOMAIN queue, d \in DOMAIN queue :
           c < d /\ c # f /\ d # f /\ queue'[a] = queue[c] /\ queue'[b] = queue[d]
    BY <1>3, <1>5
  <2>2. age'[queue[c]] = age[queue[c]] /\ age'[queue[d]] = age[queue[d]]
    BY <1>0, <1>1, <2>1
  <2>3. QED
    BY <2>1, <2>2 DEF QueueInv
<1>6. \A j \in Job : phase'[j] = "new" => age'[j] = 0
  BY <1>0 DEF QueueInv, TypeOK
<1>7. QED
  BY <1>4, <1>5, <1>6 DEF QueueInv

LEMMA QueueInvImpliesPickedIsSpliced ==
  TypeOK /\ QueueInv => PickedIsSpliced
<1> SUFFICES ASSUME TypeOK, QueueInv, NEW i \in DOMAIN queue, NEW f \in DOMAIN queue,
                    IsNext(i), FirstIndex(IdOf[queue[i]], f)
             PROVE  i = f
  BY DEF PickedIsSpliced
<1>1. DOMAIN queue = 1..Len(queue) /\ Len(queue) \in Nat
      /\ queue[i] \in Job /\ queue[f] \in Job
  BY DEF TypeOK
<1>2. IdOf[queue[f]] = IdOf[queue[i]] /\ f <= i
  BY <1>1 DEF FirstIndex
<1>3. MfeOf[queue[f]] = MfeOf[queue[i]] /\ PriorityOf[queue[f]] = PriorityOf[queue[i]]
  BY <1>1, <1>2, RetryAssumption
<1>4. CanRun(queue[f])
  BY <1>3 DEF IsNext, CanRun
<1>5. CASE f < i
  <2>1. age[queue[f]] >= age[queue[i]]
    BY <1>5 DEF QueueInv
  <2>2. MaxAge \in Nat
    BY LimitAssumption DEF MaxAge
  <2>3. age[queue[f]] \in Nat /\ age[queue[i]] \in Nat
    BY <1>1, <2>2 DEF TypeOK
  <2>4. age[queue[f]] \div AgingTicks >= age[queue[i]] \div AgingTicks
    BY <2>1, <2>3, LimitAssumption, DivMonotone
  <2>5. age[queue[f]] \div AgingTicks \in Int /\ age[queue[i]] \div AgingTicks \in Int
    BY <2>3, LimitAssumption
  <2>6. BasePriority[PriorityOf[queue[i]]] \in Int
    BY <1>1, JobAssumption DEF BasePriority, Priority
  <2>7. EffectivePriority(queue[f]) >= EffectivePriority(queue[i])
        /\ EffectivePriority(queue[f]) \in Int /\ EffectivePriority(queue[i]) \in Int
    BY <1>3, <2>4, <2>5, <2>6 DEF EffectivePriority
  <2>8. i <= f
    BY <1>4, <2>7 DEF IsNext
  <2>9. QED
    BY <1>1, <1>5, <2>8
<1>6. QED
  BY <1>1, <1>2, <1>5

LEMMA QueueStep == TypeOK /\ TypeOK' /\ QueueInv /\ [Next]_vars => QueueInv'
<1> SUFFICES ASSUME TypeOK, TypeOK', QueueInv, [Next]_vars PROVE QueueInv'
  OBVIOUS
<1>0. /\ DOMAIN queue = 1..Len(queue) /\ Len(queue) \in Nat
      /\ \A i \in DOMAIN queue : queue[i] \in Job
  BY DEF TypeOK
<1>1. ASSUME Start PROVE QueueInv'
  <2>1. PICK i \in DOMAIN queue, f \in DOMAIN queue :
          /\ IsNext(i) /\ FirstIndex(IdOf[queue[i]], f)
          /\ queue' = RemoveAt(queue, f)
          /\ phase' = [phase EXCEPT ![queue[i]] = "running"]
          /\ age' = [age EXCEPT ![queue[i]] = 0]
    BY <1>1 DEF Start
  <2>2. i = f
    BY <2>1, QueueInvImpliesPickedIsSpliced DEF PickedIsSpliced
  <2>3. queue' \in Seq(Job) /\ Without(queue', queue, f)
    BY <2>1, RemoveAtIsWithout DEF TypeOK
  <2>4. \A j \in Job : j # queue[f] => age'[j] = age[j]
    BY <2>1, <2>2 DEF TypeOK
  <2>5. QED
    BY <2>1, <2>2, <2>3, <2>4, LeaveQueue DEF Phase
<1>2. ASSUME QueueTimer PROVE QueueInv'
  <2>1. queue' \in Seq(Job) /\ Without(queue', queue, 1) /\ 1 \in DOMAIN queue
    BY <1>2, TailIsWithout DEF QueueTimer, TypeOK
  <2>2. phase' = [phase EXCEPT ![queue[1]] = "over"] /\ age' = age
    BY <1>2, HeadType DEF QueueTimer
  <2>3. QED
    BY <2>1, <2>2, LeaveQueue DEF Phase
<1>3. ASSUME NEW r \in RequestId, CancelQueued(r) PROVE QueueInv'
  <2>1. PICK i \in DOMAIN queue :
          queue' = RemoveAt(queue, i) /\ phase' = [phase EXCEPT ![queue[i]] = "over"]
    BY <1>3 DEF CancelQueued
  <2>2. queue' \in Seq(Job) /\ Without(queue', queue, i)
    BY <2>1, RemoveAtIsWithout DEF TypeOK
  <2>3. age' = age
    BY <1>3 DEF CancelQueued
  <2>4. QED
    BY <2>1, <2>2, <2>3, LeaveQueue DEF Phase
<1>4. ASSUME NEW j \in Job, Enqueue(j) PROVE QueueInv'
  <2>1. /\ Len(queue') = Len(queue) + 1
        /\ \A i \in 1..Len(queue) : queue'[i] = queue[i]
        /\ queue'[Len(queue) + 1] = j
        /\ DOMAIN queue' = 1..(Len(queue) + 1)
    BY <1>4, AppendProperties DEF Enqueue, TypeOK
  <2>2. phase[j] = "new" /\ phase' = [phase EXCEPT ![j] = "queued"] /\ age' = age
    BY <1>4 DEF Enqueue
  <2>3. \A i \in DOMAIN queue : queue[i] # j
    BY <2>2 DEF QueueInv
  <2>4. ASSUME NEW i \in DOMAIN queue' PROVE phase'[queue'[i]] = "queued"
    <3>1. phase'[j] = "queued" /\ \A k \in Job : phase[k] = "queued" => phase'[k] = "queued"
      BY <2>2 DEF TypeOK
    <3>2. CASE i \in 1..Len(queue)
      BY <1>0, <2>1, <3>1, <3>2 DEF QueueInv
    <3>3. CASE i = Len(queue) + 1
      BY <2>1, <3>1, <3>3
    <3>4. QED
      BY <1>0, <2>1, <3>2, <3>3
  <2>5. age[j] = 0 /\ \A k \in Job : age[k] >= 0
    <3>1. MaxAge \in Nat
      BY LimitAssumption DEF MaxAge
    <3>2. QED
      BY <2>2, <3>1 DEF QueueInv, TypeOK
  <2>6. \A i, k \in DOMAIN queue' : i < k =>
           queue'[i] # queue'[k] /\ age'[queue'[i]] >= age'[queue'[k]]
    BY <1>0, <2>1, <2>2, <2>3, <2>5 DEF QueueInv
  <2>7. QED
    BY <2>2, <2>4, <2>6 DEF QueueInv, TypeOK
<1>5. ASSUME Tick PROVE QueueInv'
  <2>0. MaxAge \in Nat
    BY LimitAssumption DEF MaxAge
  <2>1. queue' = queue /\ phase' = phase
    BY <1>5 DEF Tick
  <2>2. \A i \in DOMAIN queue : age'[queue[i]] = Older(age[queue[i]], MaxAge)
    BY <1>0, <1>5 DEF Tick, QueueInv
  <2>3. \A a, b \in 0..MaxAge : a >= b => Older(a, MaxAge) >= Older(b, MaxAge)
    BY <2>0 DEF Older
  <2>4. \A i \in DOMAIN queue : age[queue[i]] \in 0..MaxAge
    BY <1>0 DEF TypeOK
  <2>5. \A j \in Job : phase[j] = "new" => age'[j] = 0
    BY <1>5 DEF Tick, QueueInv
  <2>6. QED
    BY <2>1, <2>2, <2>3, <2>4, <2>5 DEF QueueInv
<1>6. ASSUME NEW j \in Job, NEW p \in Phase \ {"new", "queued"}, phase[j] # "queued",
             phase' = [phase EXCEPT ![j] = p], queue' = queue, age' = age
      PROVE  QueueInv'
  BY <1>0, <1>6 DEF QueueInv, TypeOK
<1>7. ASSUME NEW j \in Job, Refuse(j) \/ ExecTimer(j) \/ Release(j) \/ LateSettle(j)
                            \/ \E ok \in BOOLEAN : Settle(j, ok)
      PROVE  QueueInv'
  BY <1>6, <1>7 DEF Refuse, ExecTimer, Release, LateSettle, Settle, Phase
<1>8. ASSUME StopLoop \/ (\E r \in RequestId : CancelActive(r)) \/ UNCHANGED vars
      PROVE  QueueInv'
  BY <1>8 DEF StopLoop, CancelActive, vars, QueueInv
<1>9. QED
  BY <1>1, <1>2, <1>3, <1>4, <1>5, <1>7, <1>8 DEF Next

LEMMA QueueInit == Init => QueueInv
BY DEF Init, QueueInv

LEMMA QueueAlways == Spec => [](TypeOK /\ QueueInv)
<1>1. TypeOK /\ QueueInv /\ [Next]_vars => (TypeOK /\ QueueInv)'
  BY TypeStep, QueueStep
<1>2. QED
  BY TypeInit, QueueInit, <1>1, PTL DEF Spec

(* _schedule never starts a job while splicing another one out of the queue,
   so no queued job is started twice or dropped, even when a retry of the
   same requestId waits beside it. *)
THEOREM PickedIsSplicedAlways == Spec => []PickedIsSpliced
BY QueueAlways, QueueInvImpliesPickedIsSpliced, PTL

-----------------------------------------------------------------------------
(* Slots per client *)

LEMMA HoldersFinite ==
  /\ IsFiniteSet(Holders) /\ Cardinality(Holders) \in Nat
  /\ \A m : /\ IsFiniteSet({j \in Holders : MfeOf[j] = m})
            /\ Cardinality({j \in Holders : MfeOf[j] = m}) \in Nat
<1>1. Holders \in SUBSET Job /\ \A m : {j \in Holders : MfeOf[j] = m} \in SUBSET Job
  BY DEF Holders
<1>2. QED
  BY <1>1, JobAssumption, FS_Subset, FS_CardinalityType

\* What a step does to the jobs that hold a slot.
LEMMA HoldersStep ==
  ASSUME TypeOK, QueueInv, [Next]_vars
  PROVE  \/ /\ Holders' = Holders
            /\ UNCHANGED <<active, perMfeActive>>
         \/ \E j \in Job : /\ j \notin Holders /\ Holders' = Holders \cup {j}
                           /\ CanRun(j) /\ phase[j] = "queued"
                           /\ active' = [active EXCEPT ![IdOf[j]] = j]
                           /\ perMfeActive' = [perMfeActive EXCEPT ![MfeOf[j]] = @ + 1]
         \/ \E j \in Holders : /\ Holders' = Holders \ {j}
                               /\ ReleaseSlot(j)
<1>0. \A i \in DOMAIN queue : queue[i] \in Job
  BY DEF TypeOK
<1>1. ASSUME Start
      PROVE  \E j \in Job : /\ j \notin Holders /\ Holders' = Holders \cup {j}
                            /\ CanRun(j) /\ phase[j] = "queued"
                            /\ active' = [active EXCEPT ![IdOf[j]] = j]
                            /\ perMfeActive' = [perMfeActive EXCEPT ![MfeOf[j]] = @ + 1]
  <2>1. PICK i \in DOMAIN queue :
          /\ IsNext(i)
          /\ active' = [active EXCEPT ![IdOf[queue[i]]] = queue[i]]
          /\ perMfeActive' = [perMfeActive EXCEPT ![MfeOf[queue[i]]] = @ + 1]
          /\ phase' = [phase EXCEPT ![queue[i]] = "running"]
    BY <1>1 DEF Start
  <2>2. phase[queue[i]] = "queued" /\ queue[i] \in Job
    BY <1>0 DEF QueueInv
  <2>3. Holders' = Holders \cup {queue[i]} /\ queue[i] \notin Holders
    BY <2>1, <2>2 DEF Holders, TypeOK
  <2>4. CanRun(queue[i])
    BY <2>1 DEF IsNext
  <2>5. QED
    BY <2>1, <2>2, <2>3, <2>4
<1>2. ASSUME NEW j \in Job, ExecTimer(j) \/ Release(j)
      PROVE  j \in Holders /\ Holders' = Holders \ {j} /\ ReleaseSlot(j)
  BY <1>2 DEF ExecTimer, Release, Holders, TypeOK
<1>3. ASSUME NEW j \in Job, NEW p \in Phase, phase' = [phase EXCEPT ![j] = p],
             UNCHANGED <<active, perMfeActive>>,
             p \in {"running", "settling"} <=> phase[j] \in {"running", "settling"}
      PROVE  Holders' = Holders
  BY <1>3 DEF Holders, TypeOK
<1>4. ASSUME NEW j \in Job, Refuse(j) \/ Enqueue(j) \/ LateSettle(j)
                            \/ \E ok \in BOOLEAN : Settle(j, ok)
      PROVE  Holders' = Holders /\ UNCHANGED <<active, perMfeActive>>
  BY <1>3, <1>4 DEF Refuse, Enqueue, LateSettle, Settle, Phase
<1>5. ASSUME QueueTimer
      PROVE  Holders' = Holders /\ UNCHANGED <<active, perMfeActive>>
  <2>1. Head(queue) \in Job /\ phase[Head(queue)] = "queued"
    BY <1>5, HeadType DEF QueueTimer, QueueInv
  <2>2. QED
    BY <1>3, <1>5, <2>1 DEF QueueTimer, Phase
<1>6. ASSUME NEW r \in RequestId, CancelQueued(r)
      PROVE  Holders' = Holders /\ UNCHANGED <<active, perMfeActive>>
  <2>1. PICK i \in DOMAIN queue : phase' = [phase EXCEPT ![queue[i]] = "over"]
    BY <1>6 DEF CancelQueued
  <2>2. queue[i] \in Job /\ phase[queue[i]] = "queued"
    BY <1>0 DEF QueueInv
  <2>3. QED
    BY <1>3, <1>6, <2>1, <2>2 DEF CancelQueued, Phase
<1>7. ASSUME StopLoop \/ Tick \/ (\E r \in RequestId : CancelActive(r)) \/ UNCHANGED vars
      PROVE  Holders' = Holders /\ UNCHANGED <<active, perMfeActive>>
  BY <1>7 DEF StopLoop, Tick, CancelActive, vars, Holders
<1>8. QED
  BY <1>1, <1>2, <1>4, <1>5, <1>6, <1>7 DEF Next

MfeInv ==
  \A m \in Mfe : /\ perMfeActive[m] = Cardinality({j \in Holders : MfeOf[j] = m})
                 /\ perMfeActive[m] <= MaxPerMfe

LEMMA MfeStep == TypeOK /\ QueueInv /\ MfeInv /\ [Next]_vars => MfeInv'
<1> SUFFICES ASSUME TypeOK, QueueInv, MfeInv, [Next]_vars, NEW m \in Mfe
             PROVE  /\ perMfeActive'[m] = Cardinality({j \in Holders' : MfeOf[j] = m})
                    /\ perMfeActive'[m] <= MaxPerMfe
  BY DEF MfeInv
<1> DEFINE H == {j \in Holders : MfeOf[j] = m}
           HN == {j \in Holders' : MfeOf[j] = m}
<1>0. IsFiniteSet(H) /\ Cardinality(H) \in Nat
  BY HoldersFinite
<1>1. perMfeActive[m] = Cardinality(H) /\ perMfeActive[m] <= MaxPerMfe
  BY DEF MfeInv
<1>2. CASE Holders' = Holders /\ UNCHANGED <<active, perMfeActive>>
  BY <1>1, <1>2
<1>3. ASSUME NEW j \in Job, j \notin Holders, Holders' = Holders \cup {j}, CanRun(j),
             perMfeActive' = [perMfeActive EXCEPT ![MfeOf[j]] = @ + 1]
      PROVE  perMfeActive'[m] = Cardinality(HN) /\ perMfeActive'[m] <= MaxPerMfe
  <2>1. CASE MfeOf[j] = m
    <3>1. HN = H \cup {j} /\ j \notin H
      BY <1>3, <2>1
    <3>2. Cardinality(HN) = Cardinality(H) + 1
      BY <1>0, <3>1, FS_AddElement
    <3>3. perMfeActive'[m] = perMfeActive[m] + 1 /\ perMfeActive[m] < MaxPerMfe
      BY <1>3, <2>1 DEF CanRun, TypeOK
    <3>4. QED
      BY <1>0, <1>1, <3>2, <3>3, LimitAssumption
  <2>2. CASE MfeOf[j] # m
    <3>1. HN = H /\ perMfeActive'[m] = perMfeActive[m]
      BY <1>3, <2>2 DEF TypeOK
    <3>2. QED
      BY <1>1, <3>1
  <2>3. QED
    BY <2>1, <2>2
<1>4. ASSUME NEW j \in Holders, Holders' = Holders \ {j}, ReleaseSlot(j)
      PROVE  perMfeActive'[m] = Cardinality(HN) /\ perMfeActive'[m] <= MaxPerMfe
  <2>1. CASE MfeOf[j] = m
    <3>1. HN = H \ {j} /\ j \in H
      BY <1>4, <2>1
    <3>2. Cardinality(HN) = Cardinality(H) - 1 /\ Cardinality(H) # 0
      BY <1>0, <3>1, FS_RemoveElement, FS_EmptySet
    <3>3. perMfeActive'[m] = IF perMfeActive[m] <= 1 THEN 0 ELSE perMfeActive[m] - 1
      BY <1>4, <2>1 DEF ReleaseSlot, TypeOK
    <3>4. QED
      BY <1>0, <1>1, <3>2, <3>3, LimitAssumption
  <2>2. CASE MfeOf[j] # m
    <3>1. HN = H /\ perMfeActive'[m] = perMfeActive[m]
      BY <1>4, <2>2 DEF ReleaseSlot, TypeOK
    <3>2. QED
      BY <1>1, <3>1
  <2>3. QED
    BY <2>1, <2>2
<1>5. QED
  BY <1>2, <1>3, <1>4, HoldersStep

LEMMA MfeInit == Init => MfeInv
<1> SUFFICES ASSUME Init PROVE MfeInv
  OBVIOUS
<1>1. \A m \in Mfe : {j \in Holders : MfeOf[j] = m} = {}
  BY DEF Init, Holders
<1>2. Cardinality({}) = 0 /\ 0 <= MaxPerMfe
  BY FS_EmptySet, LimitAssumption
<1>3. \A m \in Mfe : perMfeActive[m] = 0
  BY DEF Init
<1>4. QED
  BY <1>1, <1>2, <1>3 DEF MfeInv

LEMMA MfeAlways == Spec => []MfeInv
<1>1. TypeOK /\ QueueInv /\ MfeInv /\ [Next]_vars => MfeInv'
  BY MfeStep
<1>2. QED
  BY QueueAlways, MfeInit, <1>1, PTL DEF Spec

(* No client holds more than maxPerMfe slots: _canRun's counter equals the
   jobs of the client that started and did not release, in every
   interleaving of timers, settlements and cancels, and even when two jobs
   share a requestId (no assumption on RetryWaits). *)
THEOREM PerMfeCapHolds == Spec => []PerMfeCap
<1>1. MfeInv => PerMfeCap
  BY DEF MfeInv, PerMfeCap
<1>2. QED
  BY MfeAlways, <1>1, PTL

-----------------------------------------------------------------------------
(* The global cap, when a retry waits for its predecessor to leave *)

SlotInv ==
  /\ \A j, k \in Live : IdOf[j] = IdOf[k] => j = k
  /\ \A r \in RequestId, j \in Job : active[r] = j <=> j \in Holders /\ IdOf[j] = r
  /\ Cardinality(Holders) <= MaxSlots

\* The active map has one entry per job that holds a slot.
LEMMA HoldersFitActive ==
  ASSUME TypeOK, SlotInv
  PROVE  IsFiniteSet(ActiveIds) /\ Cardinality(Holders) <= Cardinality(ActiveIds)
<1>1. ActiveIds = {r \in RequestId : active[r] \in Job}
  BY JobAssumption DEF ActiveIds, TypeOK
<1>2. [r \in ActiveIds |-> active[r]] \in Injection(ActiveIds, Job)
  <2>1. \A r, s \in ActiveIds : active[r] = active[s] => r = s
    BY <1>1 DEF SlotInv
  <2>2. QED
    BY <1>1, <2>1 DEF Injection, IsInjective
<1>3. IsFiniteSet(ActiveIds)
  BY <1>2, JobAssumption, FS_Injection
<1>4. [j \in Holders |-> IdOf[j]] \in Injection(Holders, ActiveIds)
  <2>1. \A j \in Holders : IdOf[j] \in RequestId /\ active[IdOf[j]] = j
    BY JobAssumption DEF SlotInv, Holders
  <2>2. \A j \in Holders : IdOf[j] \in ActiveIds
    BY <1>1, <2>1 DEF Holders
  <2>3. \A j, k \in Holders : IdOf[j] = IdOf[k] => j = k
    BY <2>1
  <2>4. QED
    BY <2>2, <2>3 DEF Injection, IsInjective
<1>5. QED
  BY <1>3, <1>4, FS_Injection

\* A job enters Live only through enqueue.
LEMMA LiveStep ==
  ASSUME TypeOK, QueueInv, [Next]_vars
  PROVE  Live' \subseteq Live \/ \E j \in Job : IdFree(j) /\ Live' = Live \cup {j}
<1>0. \A i \in DOMAIN queue : queue[i] \in Job /\ phase[queue[i]] = "queued"
  BY DEF TypeOK, QueueInv
<1>1. ASSUME NEW j \in Job, Enqueue(j) PROVE IdFree(j) /\ Live' = Live \cup {j}
  BY <1>1 DEF Enqueue, Live, TypeOK
<1>2. ASSUME NEW j \in Job, NEW p, phase' = [phase EXCEPT ![j] = p],
             p \in {"queued", "running", "settling"} => j \in Live
      PROVE  Live' \subseteq Live
  BY <1>2 DEF Live, TypeOK
<1>3. ASSUME Start PROVE Live' \subseteq Live
  <2>1. PICK i \in DOMAIN queue : phase' = [phase EXCEPT ![queue[i]] = "running"]
    BY <1>3 DEF Start
  <2>2. queue[i] \in Live
    BY <1>0 DEF Live
  <2>3. QED
    BY <1>0, <1>2, <2>1, <2>2
<1>4. ASSUME NEW r \in RequestId, CancelQueued(r) PROVE Live' \subseteq Live
  <2>1. PICK i \in DOMAIN queue : phase' = [phase EXCEPT ![queue[i]] = "over"]
    BY <1>4 DEF CancelQueued
  <2>2. QED
    BY <1>0, <1>2, <2>1
<1>5. ASSUME QueueTimer PROVE Live' \subseteq Live
  BY <1>2, <1>5, HeadType DEF QueueTimer
<1>6. ASSUME NEW j \in Job, Refuse(j) \/ ExecTimer(j) \/ Release(j) \/ LateSettle(j)
                            \/ \E ok \in BOOLEAN : Settle(j, ok)
      PROVE  Live' \subseteq Live
  BY <1>2, <1>6 DEF Refuse, ExecTimer, Release, LateSettle, Settle, Live
<1>7. ASSUME StopLoop \/ Tick \/ (\E r \in RequestId : CancelActive(r)) \/ UNCHANGED vars
      PROVE  Live' \subseteq Live
  BY <1>7 DEF StopLoop, Tick, CancelActive, vars, Live
<1>8. QED
  BY <1>1, <1>3, <1>4, <1>5, <1>6, <1>7 DEF Next

LEMMA SlotStep ==
  RetryWaits /\ TypeOK /\ QueueInv /\ SlotInv /\ [Next]_vars => SlotInv'
<1> SUFFICES ASSUME RetryWaits, TypeOK, QueueInv, SlotInv, [Next]_vars PROVE SlotInv'
  OBVIOUS
<1> USE JobAssumption
<1>0. Holders \subseteq Live /\ Live \subseteq Job
      /\ IsFiniteSet(Holders) /\ Cardinality(Holders) \in Nat
  BY HoldersFinite DEF Holders, Live
<1>1. \A j, k \in Live' : IdOf[j] = IdOf[k] => j = k
  BY LiveStep DEF SlotInv, IdFree
<1>2. CASE Holders' = Holders /\ UNCHANGED <<active, perMfeActive>>
  BY <1>1, <1>2 DEF SlotInv
<1>3. ASSUME NEW j \in Job, j \notin Holders, Holders' = Holders \cup {j}, CanRun(j),
             phase[j] = "queued", active' = [active EXCEPT ![IdOf[j]] = j]
      PROVE  SlotInv'
  <2>1. \A k \in Holders : IdOf[k] # IdOf[j]
    BY <1>0, <1>3 DEF SlotInv, Live
  <2>2. \A r \in RequestId, k \in Job : active'[r] = k <=> k \in Holders' /\ IdOf[k] = r
    BY <1>3, <2>1 DEF SlotInv, TypeOK
  <2>3. Cardinality(Holders) < MaxSlots
    <3>1. IsFiniteSet(ActiveIds) /\ Cardinality(Holders) <= Cardinality(ActiveIds)
      BY HoldersFitActive
    <3>2. Cardinality(ActiveIds) \in Nat /\ Cardinality(ActiveIds) < MaxSlots
      BY <1>3, <3>1, FS_CardinalityType DEF CanRun
    <3>3. QED
      BY <1>0, <3>1, <3>2, LimitAssumption
  <2>4. Cardinality(Holders') = Cardinality(Holders) + 1
    BY <1>0, <1>3, FS_AddElement
  <2>5. Cardinality(Holders') <= MaxSlots
    BY <1>0, <2>3, <2>4, LimitAssumption
  <2>6. QED
    BY <1>1, <2>2, <2>5 DEF SlotInv
<1>4. ASSUME NEW j \in Holders, Holders' = Holders \ {j}, ReleaseSlot(j)
      PROVE  SlotInv'
  <2>1. active' = [active EXCEPT ![IdOf[j]] = NoJob] /\ j \in Job
    BY <1>0, <1>4 DEF ReleaseSlot
  <2>2. \A r \in RequestId, k \in Job : active'[r] = k <=> k \in Holders' /\ IdOf[k] = r
    <3>1. \A k \in Holders : IdOf[k] = IdOf[j] => k = j
      BY <1>0, <1>4 DEF SlotInv
    <3>2. QED
      BY <1>4, <2>1, <3>1 DEF SlotInv, TypeOK
  <2>3. Cardinality(Holders') <= MaxSlots
    <3>1. Cardinality(Holders') = Cardinality(Holders) - 1
      BY <1>0, <1>4, FS_RemoveElement
    <3>2. QED
      BY <1>0, <3>1, LimitAssumption DEF SlotInv
  <2>4. QED
    BY <1>1, <2>2, <2>3 DEF SlotInv
<1>5. QED
  BY <1>2, <1>3, <1>4, HoldersStep

LEMMA SlotInit == Init => SlotInv
<1> SUFFICES ASSUME Init PROVE SlotInv
  OBVIOUS
<1>1. Holders = {} /\ Live = {}
  BY DEF Init, Holders, Live
<1>2. Cardinality({}) = 0 /\ 0 <= MaxSlots
  BY FS_EmptySet, LimitAssumption
<1>3. \A r \in RequestId, j \in Job : active[r] # j
  BY JobAssumption DEF Init
<1>4. QED
  BY <1>1, <1>2, <1>3 DEF SlotInv

LEMMA SlotAlways == RetryWaits => (Spec => []SlotInv)
<1> SUFFICES ASSUME RetryWaits PROVE Spec => []SlotInv
  OBVIOUS
<1>1. TypeOK /\ QueueInv /\ SlotInv /\ [Next]_vars => SlotInv'
  BY SlotStep
<1>2. QED
  BY QueueAlways, SlotInit, <1>1, PTL DEF Spec

(* When no two jobs with one requestId are in the scheduler at a time, at
   most maxSlots jobs hold a slot. *)
THEOREM SlotCapHolds == RetryWaits => (Spec => []SlotCap)
<1> SUFFICES ASSUME RetryWaits PROVE Spec => []SlotCap
  OBVIOUS
<1>1. SlotInv => SlotCap
  BY DEF SlotInv, SlotCap
<1>2. Spec => []SlotInv
  BY SlotAlways
<1>3. QED
  BY <1>1, <1>2, PTL

(* Under the same condition the two maps admission reads are exact: every
   release undoes its own job's start, once. *)
THEOREM SlotAccountingHolds == RetryWaits => (Spec => []SlotAccounting)
<1> SUFFICES ASSUME RetryWaits PROVE Spec => []SlotAccounting
  OBVIOUS
<1>1. SlotInv /\ MfeInv => SlotAccounting
  BY DEF SlotInv, MfeInv, SlotAccounting
<1>2. Spec => []SlotInv
  BY SlotAlways
<1>3. QED
  BY <1>1, <1>2, MfeAlways, PTL
-----------------------------------------------------------------------------
(* No lost wakeup, and first in, first out *)

LEMMA WorkConservingStep ==
  TypeOK /\ WorkConserving /\ [Next]_vars => WorkConserving'
<1> SUFFICES ASSUME TypeOK, WorkConserving, [Next]_vars, ~loop',
                    NEW i \in DOMAIN queue'
             PROVE  ~CanRun(queue[i])'
  BY DEF WorkConserving
<1>1. ASSUME ~loop, UNCHANGED <<active, perMfeActive>>,
             \E l \in DOMAIN queue : queue'[i] = queue[l]
      PROVE  ~CanRun(queue[i])'
  BY <1>1 DEF WorkConserving, CanRun, ActiveIds
<1>2. CASE StopLoop
  BY <1>2 DEF StopLoop, CanRun, ActiveIds
<1>3. CASE QueueTimer
  <2>1. Without(queue', queue, 1) /\ queue' \in Seq(Job) /\ 1 \in DOMAIN queue
    BY <1>3, TailIsWithout DEF QueueTimer, TypeOK
  <2>2. \E l \in DOMAIN queue : queue'[i] = queue[l]
    BY <2>1, WithoutKeepsOrder DEF TypeOK
  <2>3. QED
    BY <1>1, <1>3, <2>2 DEF QueueTimer, Quiescent
<1>4. CASE \E r \in RequestId : CancelQueued(r)
  <2>1. PICK r \in RequestId : CancelQueued(r)
    BY <1>4
  <2>2. PICK f \in DOMAIN queue : queue' = RemoveAt(queue, f)
    BY <2>1 DEF CancelQueued
  <2>3. \E l \in DOMAIN queue : queue'[i] = queue[l]
    BY <2>2, RemoveAtIsWithout, WithoutKeepsOrder DEF TypeOK
  <2>4. QED
    BY <1>1, <2>1, <2>3 DEF CancelQueued, Quiescent
<1>5. CASE Start \/ \E j \in Job : Enqueue(j) \/ ExecTimer(j) \/ Release(j)
  BY <1>5 DEF Start, Enqueue, ExecTimer, Release, ReleaseSlot
<1>6. CASE \/ Tick \/ UNCHANGED vars \/ \E r \in RequestId : CancelActive(r)
           \/ \E j \in Job : \/ Refuse(j) \/ LateSettle(j)
                             \/ \E ok \in BOOLEAN : Settle(j, ok)
  BY <1>1, <1>6 DEF Tick, vars, CancelActive, Refuse, LateSettle, Settle
<1>7. QED
  BY <1>2, <1>3, <1>4, <1>5, <1>6 DEF Next

(* Once _schedule has returned no queued job could run: every callback that
   frees a slot or brings a job calls _schedule again. *)
THEOREM WorkConservingHolds == Spec => []WorkConserving
<1>1. Init => WorkConserving
  BY DEF Init, WorkConserving
<1>2. QED
  BY TypeInit, TypeStep, WorkConservingStep, <1>1, PTL DEF Spec

\* A step by which a waiting job starts is an iteration of the loop.
LEMMA StartsByStart ==
  ASSUME TypeOK, QueueInv, [Next]_vars,
         NEW j \in Job, phase[j] = "queued", phase'[j] = "running"
  PROVE  \E i \in DOMAIN queue : IsNext(i) /\ queue[i] = j
<1>0. \A i \in DOMAIN queue : queue[i] \in Job
  BY DEF TypeOK
<1>1. CASE Start
  <2>1. PICK i \in DOMAIN queue :
          IsNext(i) /\ phase' = [phase EXCEPT ![queue[i]] = "running"]
    BY <1>1 DEF Start
  <2>2. queue[i] = j
    BY <1>0, <2>1 DEF TypeOK
  <2>3. QED
    BY <2>1, <2>2
<1>2. ASSUME NEW k \in Job, NEW p, p # "running", phase' = [phase EXCEPT ![k] = p]
      PROVE  FALSE
  BY <1>2 DEF TypeOK
<1>3. CASE QueueTimer
  BY <1>2, <1>3, HeadType DEF QueueTimer
<1>4. CASE \E r \in RequestId : CancelQueued(r)
  BY <1>0, <1>2, <1>4 DEF CancelQueued
<1>5. CASE \E k \in Job : \/ Refuse(k) \/ Enqueue(k) \/ ExecTimer(k) \/ Release(k)
                          \/ LateSettle(k) \/ \E ok \in BOOLEAN : Settle(k, ok)
  BY <1>2, <1>5 DEF Refuse, Enqueue, ExecTimer, Release, LateSettle, Settle
<1>6. CASE \/ StopLoop \/ Tick \/ UNCHANGED vars \/ \E r \in RequestId : CancelActive(r)
  BY <1>6 DEF StopLoop, Tick, vars, CancelActive
<1>7. QED
  BY <1>1, <1>3, <1>4, <1>5, <1>6 DEF Next

(* Of two jobs of one client and one priority the one that came first is
   started first: where the newer could run so could the older, whose age
   and position win. *)
THEOREM NoOvertakingHolds == Spec => NoOvertaking
<1> DEFINE Fifo ==
      \A j, k \in Job :
        /\ phase[j] = "queued" /\ phase'[j] = "running"
        /\ MfeOf[j] = MfeOf[k] /\ PriorityOf[j] = PriorityOf[k]
        => ~\E a, b \in DOMAIN queue : a < b /\ queue[a] = k /\ queue[b] = j
<1>1. ASSUME TypeOK, QueueInv, [Next]_vars PROVE Fifo
  <2> SUFFICES ASSUME NEW j \in Job, NEW k \in Job,
                      phase[j] = "queued", phase'[j] = "running",
                      MfeOf[j] = MfeOf[k], PriorityOf[j] = PriorityOf[k],
                      NEW a \in DOMAIN queue, NEW b \in DOMAIN queue,
                      a < b, queue[a] = k, queue[b] = j
               PROVE  FALSE
    OBVIOUS
  <2>0. DOMAIN queue = 1..Len(queue) /\ Len(queue) \in Nat /\ MaxAge \in Nat
    BY LimitAssumption DEF TypeOK, MaxAge
  <2>1. PICK i \in DOMAIN queue : IsNext(i) /\ queue[i] = j
    BY <1>1, StartsByStart
  <2>2. i = b
    BY <1>1, <2>0, <2>1 DEF QueueInv
  <2>3. CanRun(queue[a])
    BY <2>1 DEF IsNext, CanRun
  <2>4. age[k] >= age[j] /\ age[k] \in Nat /\ age[j] \in Nat
    BY <1>1, <2>0 DEF QueueInv, TypeOK
  <2>5. age[k] \div AgingTicks >= age[j] \div AgingTicks
        /\ age[k] \div AgingTicks \in Int /\ age[j] \div AgingTicks \in Int
    BY <2>4, LimitAssumption, DivMonotone
  <2>6. BasePriority[PriorityOf[j]] \in Int
    BY JobAssumption DEF BasePriority, Priority
  <2>7. EffectivePriority(queue[a]) >= EffectivePriority(queue[b])
        /\ EffectivePriority(queue[a]) \in Int /\ EffectivePriority(queue[b]) \in Int
    BY <2>5, <2>6 DEF EffectivePriority
  <2>8. b <= a
    BY <2>1, <2>2, <2>3, <2>7 DEF IsNext
  <2>9. QED
    BY <2>0, <2>8
<1>2. TypeOK /\ QueueInv /\ [Next]_vars => [Fifo]_vars
  BY <1>1
<1>3. QED
  BY QueueAlways, <1>2, PTL DEF Spec, NoOvertaking
-----------------------------------------------------------------------------
(* No job is lost, and the done map says what callers were told *)

\* What a job's phase says of its promise and of the queue.
SettledInv ==
  \A j \in Job :
    /\ phase[j] = "queued" => \E i \in DOMAIN queue : queue[i] = j
    /\ phase[j] \in {"settling", "zombie", "over"} <=> outcome[j] # "none"

\* One job's phase and outcome change together.
LEMMA SettledOne ==
  ASSUME TypeOK, SettledInv, NEW j \in Job, NEW p \in Phase, NEW o \in Outcome,
         phase' = [phase EXCEPT ![j] = p], outcome' = [outcome EXCEPT ![j] = o],
         p \in {"settling", "zombie", "over"} <=> o # "none",
         p = "queued" => \E i \in DOMAIN queue' : queue'[i] = j,
         \A i \in DOMAIN queue : queue[i] # j => \E l \in DOMAIN queue' : queue'[l] = queue[i]
  PROVE  SettledInv'
<1> SUFFICES ASSUME NEW k \in Job
             PROVE  /\ phase'[k] = "queued" => \E i \in DOMAIN queue' : queue'[i] = k
                    /\ phase'[k] \in {"settling", "zombie", "over"} <=> outcome'[k] # "none"
  BY DEF SettledInv
<1>1. CASE k = j
  BY <1>1 DEF TypeOK
<1>2. CASE k # j
  <2>1. phase'[k] = phase[k] /\ outcome'[k] = outcome[k]
    BY <1>2 DEF TypeOK
  <2>2. QED
    BY <1>2, <2>1 DEF SettledInv
<1>3. QED
  BY <1>1, <1>2

\* Every element but the f-th stays.
LEMMA WithoutKeepsRest ==
  ASSUME NEW q \in Seq(Job), NEW p \in Seq(Job), NEW f \in DOMAIN q, Without(p, q, f),
         NEW i \in DOMAIN q, q[i] # q[f]
  PROVE  \E l \in DOMAIN p : p[l] = q[i]
<1>1. Len(q) \in Nat /\ DOMAIN q = 1..Len(q) /\ DOMAIN p = 1..(Len(q) - 1)
  BY DEF Without
<1>2. CASE i < f
  BY <1>1, <1>2 DEF Without
<1>3. CASE f < i
  <2>1. i - 1 \in DOMAIN p /\ ~(i - 1 < f) /\ (i - 1) + 1 = i
    BY <1>1, <1>3
  <2>2. p[i - 1] = q[i]
    BY <1>1, <2>1 DEF Without
  <2>3. QED
    BY <2>1, <2>2
<1>4. QED
  BY <1>1, <1>2, <1>3

LEMMA SettledStep ==
  TypeOK /\ QueueInv /\ SettledInv /\ [Next]_vars => SettledInv'
<1> SUFFICES ASSUME TypeOK, QueueInv, SettledInv, [Next]_vars PROVE SettledInv'
  OBVIOUS
<1>0. \A i \in DOMAIN queue : queue[i] \in Job /\ phase[queue[i]] = "queued"
  BY DEF TypeOK, QueueInv
<1> DEFINE Keeps(j) == \A i \in DOMAIN queue :
                         queue[i] # j => \E l \in DOMAIN queue' : queue'[l] = queue[i]
<1>1. CASE Start
  <2>1. PICK i \in DOMAIN queue, f \in DOMAIN queue :
          /\ IsNext(i) /\ FirstIndex(IdOf[queue[i]], f)
          /\ queue' = RemoveAt(queue, f)
          /\ phase' = [phase EXCEPT ![queue[i]] = "running"]
    BY <1>1 DEF Start
  <2>2. i = f
    BY <2>1, QueueInvImpliesPickedIsSpliced DEF PickedIsSpliced
  <2>3. Keeps(queue[i])
    BY <2>1, <2>2, RemoveAtIsWithout, WithoutKeepsRest DEF TypeOK
  <2>4. outcome' = [outcome EXCEPT ![queue[i]] = "none"]
    <3>1. outcome[queue[i]] = "none" /\ outcome' = outcome
      BY <1>0, <1>1 DEF Start, SettledInv
    <3>2. QED
      BY <3>1 DEF TypeOK
  <2>5. QED
    BY <1>0, <2>1, <2>3, <2>4, SettledOne DEF Phase, Outcome
<1>2. CASE QueueTimer
  <2>1. queue' \in Seq(Job) /\ Without(queue', queue, 1) /\ 1 \in DOMAIN queue
        /\ Head(queue) = queue[1]
    BY <1>2, TailIsWithout, HeadType DEF QueueTimer, TypeOK
  <2>2. Keeps(queue[1])
    BY <2>1, WithoutKeepsRest DEF TypeOK
  <2>3. /\ phase' = [phase EXCEPT ![queue[1]] = "over"]
        /\ outcome' = [outcome EXCEPT ![queue[1]] = "timeout"]
    BY <1>2, <2>1 DEF QueueTimer, SettleAs
  <2>4. QED
    BY <1>0, <2>1, <2>2, <2>3, SettledOne DEF Phase, Outcome
<1>3. CASE \E r \in RequestId : CancelQueued(r)
  <2>1. PICK i \in DOMAIN queue :
          /\ queue' = RemoveAt(queue, i)
          /\ phase' = [phase EXCEPT ![queue[i]] = "over"]
          /\ outcome' = [outcome EXCEPT ![queue[i]] = "cancelled"]
    BY <1>3 DEF CancelQueued, SettleAs
  <2>2. Keeps(queue[i])
    BY <2>1, RemoveAtIsWithout, WithoutKeepsRest DEF TypeOK
  <2>3. QED
    BY <1>0, <2>1, <2>2, SettledOne DEF Phase, Outcome
<1>4. ASSUME NEW j \in Job, Enqueue(j) PROVE SettledInv'
  <2>1. /\ Len(queue) \in Nat /\ DOMAIN queue = 1..Len(queue)
        /\ DOMAIN queue' = 1..(Len(queue) + 1) /\ queue'[Len(queue) + 1] = j
        /\ \A i \in DOMAIN queue : queue'[i] = queue[i]
    BY <1>4, AppendProperties DEF Enqueue, TypeOK
  <2>2. Keeps(j) /\ \E i \in DOMAIN queue' : queue'[i] = j
    BY <2>1
  <2>3. /\ phase' = [phase EXCEPT ![j] = "queued"]
        /\ outcome' = [outcome EXCEPT ![j] = "none"]
    BY <1>4 DEF Enqueue, SettledInv, TypeOK
  <2>4. QED
    BY <2>2, <2>3, SettledOne DEF Phase, Outcome
<1>5. ASSUME NEW j \in Job, ExecTimer(j) \/ \E ok \in BOOLEAN : Settle(j, ok)
      PROVE  SettledInv'
  <2>1. PICK p \in {"zombie", "settling"}, o \in Outcome \ {"none"} :
          phase' = [phase EXCEPT ![j] = p] /\ outcome' = [outcome EXCEPT ![j] = o]
    BY <1>5 DEF ExecTimer, Settle, SettleAs, Outcome
  <2>2. queue' = queue
    BY <1>5 DEF ExecTimer, Settle
  <2>3. QED
    BY <2>1, <2>2, SettledOne DEF Phase
<1>6. ASSUME NEW j \in Job, Refuse(j) \/ Release(j) \/ LateSettle(j)
      PROVE  SettledInv'
  <2>1. PICK p \in {"refused", "over"} :
          /\ phase' = [phase EXCEPT ![j] = p]
          /\ p = "over" <=> outcome[j] # "none"
    BY <1>6 DEF Refuse, Release, LateSettle, SettledInv
  <2>2. queue' = queue /\ outcome' = outcome
    BY <1>6 DEF Refuse, Release, LateSettle
  <2>3. outcome' = [outcome EXCEPT ![j] = outcome[j]] /\ outcome[j] \in Outcome
    BY <2>2 DEF TypeOK
  <2>4. QED
    BY <2>1, <2>2, <2>3, SettledOne DEF Phase
<1>7. CASE StopLoop \/ Tick \/ UNCHANGED vars \/ \E r \in RequestId : CancelActive(r)
  BY <1>7 DEF StopLoop, Tick, vars, CancelActive, SettledInv
<1>8. QED
  BY <1>1, <1>2, <1>3, <1>4, <1>5, <1>6, <1>7 DEF Next

LEMMA SettledAlways == Spec => []SettledInv
<1>1. Init => SettledInv
  BY DEF Init, SettledInv
<1>2. TypeOK /\ QueueInv /\ SettledInv /\ [Next]_vars => SettledInv'
  BY SettledStep
<1>3. QED
  BY QueueAlways, <1>1, <1>2, PTL DEF Spec

(* A submitted job is in the queue exactly once, in the active map, or
   settled, when no two jobs with one requestId are in the scheduler at a
   time. *)
THEOREM NeverLostHolds == RetryWaits => (Spec => []NeverLost)
<1> SUFFICES ASSUME RetryWaits PROVE Spec => []NeverLost
  OBVIOUS
<1>1. ASSUME TypeOK, QueueInv, SettledInv, SlotInv PROVE NeverLost
  <2> SUFFICES ASSUME NEW j \in Job
               PROVE  /\ phase[j] = "queued" <=> \E i \in DOMAIN queue : queue[i] = j
                      /\ Cardinality({i \in DOMAIN queue : queue[i] = j}) <= 1
                      /\ phase[j] = "running" => active[IdOf[j]] = j
                      /\ phase[j] \in {"settling", "zombie", "over"} <=> outcome[j] # "none"
    BY DEF NeverLost
  <2>0. /\ phase[j] = "queued" <=> \E i \in DOMAIN queue : queue[i] = j
        /\ phase[j] = "running" => active[IdOf[j]] = j
        /\ phase[j] \in {"settling", "zombie", "over"} <=> outcome[j] # "none"
    BY <1>1, JobAssumption DEF SettledInv, SlotInv, QueueInv, Holders
  <2>1. DOMAIN queue = 1..Len(queue) /\ Len(queue) \in Nat
    BY <1>1 DEF TypeOK
  <2>2. CASE {i \in DOMAIN queue : queue[i] = j} = {}
    <3>1. Cardinality({i \in DOMAIN queue : queue[i] = j}) <= 1
      BY <2>2, FS_EmptySet
    <3>2. QED
      BY <2>0, <3>1
  <2>3. ASSUME NEW i \in DOMAIN queue, queue[i] = j
        PROVE  Cardinality({k \in DOMAIN queue : queue[k] = j}) = 1
    <3>1. \A k \in DOMAIN queue : queue[k] = j => k = i
      BY <1>1, <2>1, <2>3 DEF QueueInv
    <3>2. {k \in DOMAIN queue : queue[k] = j} = {i}
      BY <2>3, <3>1
    <3>3. QED
      BY <3>2, FS_Singleton
  <2>4. CASE {i \in DOMAIN queue : queue[i] = j} # {}
    BY <2>0, <2>3, <2>4
  <2>5. QED
    BY <2>2, <2>4
<1>2. Spec => []SlotInv
  BY SlotAlways
<1>3. QED
  BY QueueAlways, SettledAlways, <1>1, <1>2, PTL
\* The first n positions of a sequence are n in number.
LEMMA FirstPositions ==
  ASSUME NEW n \in Nat
  PROVE  IsFiniteSet(1..n) /\ Cardinality(1..n) = n
<1>1. 1 \in Int /\ n \in Int
  OBVIOUS
<1>2. Cardinality(1..n) = IF 1 > n THEN 0 ELSE n - 1 + 1
  BY <1>1, FS_Interval
<1>3. QED
  BY <1>1, <1>2, FS_Interval

\* The entries _evictDone drops come first, and a fresh one among the last
\* doneMaxEntries is not dropped.
LEMMA EvictKeeps ==
  ASSUME NEW d \in Seq(DoneEntry)
  PROVE  /\ Len(Evict(d)) <= DoneMax
         /\ \A i \in DOMAIN Evict(d) : \E k \in DOMAIN d : Evict(d)[i] = d[k]
         /\ \A p \in DOMAIN d : d[p].age = 0 /\ p > Len(d) - DoneMax =>
              \E i \in DOMAIN Evict(d) : Evict(d)[i] = d[p]
<1> DEFINE dropped == {k \in DOMAIN d : Evicted(d, k)}
           n == Cardinality(dropped)
<1>1. Len(d) \in Nat /\ DOMAIN d = 1..Len(d) /\ \A i \in 1..Len(d) : d[i] \in DoneEntry
  OBVIOUS
<1>2. dropped \in SUBSET (1..Len(d)) /\ IsFiniteSet(1..Len(d)) /\ Cardinality(1..Len(d)) = Len(d)
  BY <1>1, FirstPositions
<1>3. IsFiniteSet(dropped) /\ n \in Nat /\ n <= Len(d)
  BY <1>1, <1>2, FS_Subset, FS_CardinalityType
<1>4. n >= Len(d) - DoneMax
  <2>1. CASE Len(d) <= DoneMax
    BY <1>1, <1>3, <2>1, LimitAssumption
  <2>2. CASE Len(d) > DoneMax
    <3>1. 1..(Len(d) - DoneMax) \in SUBSET dropped
      BY <1>1, <2>2, LimitAssumption DEF Evicted
    <3>2. Cardinality(1..(Len(d) - DoneMax)) = Len(d) - DoneMax
      <4>1. Len(d) - DoneMax \in Nat
        BY <1>1, <2>2, LimitAssumption
      <4>2. QED
        BY <4>1, FirstPositions
    <3>3. Cardinality(1..(Len(d) - DoneMax)) <= n
      BY <1>3, <3>1, FS_Subset
    <3>4. QED
      BY <3>2, <3>3
  <2>3. QED
    BY <1>1, <2>1, <2>2, LimitAssumption
<1>5. ASSUME NEW p \in DOMAIN d, d[p].age = 0, p > Len(d) - DoneMax
      PROVE  n < p
  <2>1. \A k \in dropped : k < p
    <3>1. SUFFICES ASSUME NEW k \in dropped, k >= p PROVE FALSE
      BY <1>1, <1>2
    <3>2. p \in 1..k
      BY <1>1, <1>2, <3>1
    <3>3. ~(k <= Len(d) - DoneMax)
      BY <1>1, <1>2, <1>5, <3>1, LimitAssumption
    <3>4. d[p].age > DoneTtl
      BY <3>2, <3>3 DEF Evicted
    <3>5. QED
      BY <1>5, <3>4, LimitAssumption
  <2>2. dropped \in SUBSET (1..(p - 1))
    BY <1>1, <1>2, <2>1
  <2>3. IsFiniteSet(1..(p - 1)) /\ Cardinality(1..(p - 1)) = p - 1
    <3>1. p - 1 \in Nat
      BY <1>1
    <3>2. QED
      BY <3>1, FirstPositions
  <2>4. n <= p - 1
    BY <2>2, <2>3, FS_Subset
  <2>5. QED
    BY <1>1, <1>3, <2>4
<1> HIDE DEF n, dropped
<1>6. Evict(d) = SubSeq(d, n + 1, Len(d))
  BY DEF Evict, n, dropped
<1>7. /\ Len(Evict(d)) = Len(d) - n /\ DOMAIN Evict(d) = 1..(Len(d) - n)
      /\ \A i \in 1..(Len(d) - n) : Evict(d)[i] = d[i + n]
  <2>1. \A i \in (n + 1)..Len(d) : d[i] \in DoneEntry
    BY <1>1, <1>3
  <2>2. n + 1 \in Int /\ Len(d) \in Int
    BY <1>1, <1>3
  <2>3. /\ Evict(d) \in Seq(DoneEntry)
        /\ Len(Evict(d)) = IF n + 1 <= Len(d) THEN Len(d) - (n + 1) + 1 ELSE 0
        /\ \A i \in 1..(Len(d) - (n + 1) + 1) : Evict(d)[i] = d[(n + 1) + i - 1]
    <3> DEFINE m == n + 1
               l == Len(d)
    <3>1. m \in Int /\ l \in Int /\ \A i \in m..l : d[i] \in DoneEntry
      BY <2>1, <2>2
    <3> HIDE DEF m, l
    <3>2. /\ SubSeq(d, m, l) \in Seq(DoneEntry)
          /\ Len(SubSeq(d, m, l)) = IF m <= l THEN l - m + 1 ELSE 0
          /\ \A i \in 1..(l - m + 1) : SubSeq(d, m, l)[i] = d[m + i - 1]
      BY <3>1, SubSeqProperties
    <3>3. QED
      BY <1>6, <3>2 DEF m, l
  <2>4. Len(Evict(d)) = Len(d) - n
    <3>1. CASE n + 1 <= Len(d)
      BY <1>1, <1>3, <2>3, <3>1
    <3>2. CASE ~(n + 1 <= Len(d))
      <4>1. \A a, b \in Nat : a <= b /\ ~(a + 1 <= b) => a = b /\ b - a = 0
        OBVIOUS
      <4>2. n = Len(d) /\ Len(d) - n = 0
        BY <1>1, <1>3, <3>2, <4>1
      <4>3. QED
        BY <2>3, <3>2, <4>2
    <3>3. QED
      BY <3>1, <3>2
  <2>5. ASSUME NEW i \in 1..(Len(d) - n) PROVE Evict(d)[i] = d[i + n]
    <3>1. i \in 1..(Len(d) - (n + 1) + 1) /\ (n + 1) + i - 1 = i + n
      BY <1>1, <1>3
    <3>2. QED
      BY <2>3, <3>1
  <2>6. QED
    BY <2>3, <2>4, <2>5
<1>8. \A i \in DOMAIN Evict(d) : i + n \in DOMAIN d
  BY <1>1, <1>3, <1>7
<1>9. ASSUME NEW p \in DOMAIN d, d[p].age = 0, p > Len(d) - DoneMax
      PROVE  \E i \in DOMAIN Evict(d) : Evict(d)[i] = d[p]
  <2>1. p - n \in 1..(Len(d) - n) /\ (p - n) + n = p
    BY <1>1, <1>3, <1>5, <1>9
  <2>2. QED
    BY <1>7, <2>1
<1>10. QED
  BY <1>1, <1>3, <1>4, <1>7, <1>8, <1>9, LimitAssumption

\* Map.set: the new entry is there, at the end unless its key was, and the
\* entries of other keys are those that were.
LEMMA MapSetKeeps ==
  ASSUME NEW d \in Seq(DoneEntry), Len(d) <= DoneMax, NEW e \in DoneEntry
  PROVE  /\ \E p \in DOMAIN MapSet(d, e) :
              MapSet(d, e)[p] = e /\ p > Len(MapSet(d, e)) - DoneMax
         /\ \A i \in DOMAIN MapSet(d, e) :
              MapSet(d, e)[i].id = e.id \/ \E k \in DOMAIN d : MapSet(d, e)[i] = d[k]
<1>1. Len(d) \in Nat /\ DOMAIN d = 1..Len(d)
  OBVIOUS
<1>2. CASE \E i \in DOMAIN d : d[i].id = e.id
  <2> DEFINE m == [i \in DOMAIN d |-> IF d[i].id = e.id THEN e ELSE d[i]]
  <2>1. MapSet(d, e) = m
    BY <1>2 DEF MapSet
  <2>2. m \in Seq(DoneEntry) /\ Len(m) = Len(d) /\ DOMAIN m = DOMAIN d
    BY <1>1, <2>1, MapSetType
  <2>3. PICK p \in DOMAIN d : d[p].id = e.id
    BY <1>2
  <2>4. m[p] = e /\ p > Len(m) - DoneMax
    BY <1>1, <2>2, <2>3, LimitAssumption
  <2>5. QED
    BY <2>1, <2>2, <2>4
<1>3. CASE ~\E i \in DOMAIN d : d[i].id = e.id
  <2>1. MapSet(d, e) = Append(d, e)
    BY <1>3 DEF MapSet
  <2>2. /\ Len(Append(d, e)) = Len(d) + 1 /\ DOMAIN Append(d, e) = 1..(Len(d) + 1)
        /\ Append(d, e)[Len(d) + 1] = e /\ \A i \in 1..Len(d) : Append(d, e)[i] = d[i]
    BY <1>1, AppendProperties
  <2>3. Len(d) + 1 \in DOMAIN Append(d, e) /\ Len(d) + 1 > Len(Append(d, e)) - DoneMax
    BY <1>1, <2>2, LimitAssumption
  <2>4. \A i \in DOMAIN Append(d, e) : i = Len(d) + 1 \/ i \in DOMAIN d
    BY <1>1, <2>2
  <2>5. QED
    BY <1>1, <2>1, <2>2, <2>3, <2>4
<1>4. QED
  BY <1>2, <1>3

DoneInv == Len(done) <= DoneMax

\* What RecordedAsSettled says of a step.
Told ==
  /\ \A j \in Job : outcome[j] # "none" => outcome'[j] = outcome[j]
  /\ \A j \in Job : Recorded(j) =>
       \E i \in DOMAIN done' : done'[i].id = IdOf[j] /\ done'[i].state = outcome'[j]
  /\ \A i \in DOMAIN done' :
       \/ \E j \in Job : Recorded(j) /\ IdOf[j] = done'[i].id
       \/ \E k \in DOMAIN done : done[k].id = done'[i].id /\ done[k].state = done'[i].state

LEMMA SettleAsTells ==
  ASSUME TypeOK, DoneInv, NEW j \in Job, NEW state \in Outcome \ {"none"},
         outcome[j] = "none", SettleAs(j, state)
  PROVE  DoneInv' /\ Told
<1> DEFINE e == [id |-> IdOf[j], state |-> state, age |-> 0]
<1>1. e \in DoneEntry /\ e.id = IdOf[j] /\ e.state = state /\ e.age = 0
  BY JobAssumption, LimitAssumption DEF DoneEntry
<1>2. /\ done' = Evict(MapSet(done, e))
      /\ outcome' = [outcome EXCEPT ![j] = state]
  BY DEF SettleAs, RecordDone
<1> HIDE DEF e
<1>3. done \in Seq(DoneEntry) /\ MapSet(done, e) \in Seq(DoneEntry)
  BY <1>1, MapSetType DEF TypeOK
<1>4. PICK p \in DOMAIN MapSet(done, e) :
         MapSet(done, e)[p] = e /\ p > Len(MapSet(done, e)) - DoneMax
  BY <1>1, <1>3, MapSetKeeps DEF DoneInv
<1>5. \E i \in DOMAIN done' : done'[i] = e
  BY <1>1, <1>2, <1>3, <1>4, EvictKeeps
<1>6. \A k \in Job : Recorded(k) <=> k = j
  BY <1>2 DEF Recorded, TypeOK
<1>7. ASSUME NEW i \in DOMAIN done'
      PROVE  done'[i].id = IdOf[j] \/ \E k \in DOMAIN done : done'[i] = done[k]
  <2>1. PICK l \in DOMAIN MapSet(done, e) : done'[i] = MapSet(done, e)[l]
    BY <1>2, <1>3, EvictKeeps
  <2>2. \/ MapSet(done, e)[l].id = e.id
        \/ \E k \in DOMAIN done : MapSet(done, e)[l] = done[k]
    BY <1>1, <1>3, MapSetKeeps DEF DoneInv
  <2>3. QED
    BY <1>1, <2>1, <2>2
<1>8. DoneInv'
  BY <1>2, <1>3, EvictKeeps DEF DoneInv
<1>9. outcome'[j] = state /\ \A k \in Job : outcome[k] # "none" => outcome'[k] = outcome[k]
  BY <1>2 DEF TypeOK
<1>10. \A k \in Job : Recorded(k) =>
         \E i \in DOMAIN done' : done'[i].id = IdOf[k] /\ done'[i].state = outcome'[k]
  BY <1>1, <1>5, <1>6, <1>9
<1>11. QED
  BY <1>6, <1>7, <1>8, <1>9, <1>10 DEF Told

LEMMA ToldStep ==
  TypeOK /\ QueueInv /\ SettledInv /\ DoneInv /\ [Next]_vars => DoneInv' /\ Told
<1> SUFFICES ASSUME TypeOK, QueueInv, SettledInv, DoneInv, [Next]_vars
             PROVE  DoneInv' /\ Told
  OBVIOUS
<1>0. \A i \in DOMAIN queue : queue[i] \in Job /\ outcome[queue[i]] = "none"
  <2>1. SUFFICES ASSUME NEW i \in DOMAIN queue
                 PROVE  queue[i] \in Job /\ outcome[queue[i]] = "none"
    OBVIOUS
  <2>2. queue[i] \in Job
    BY DEF TypeOK
  <2>3. phase[queue[i]] = "queued"
    BY DEF QueueInv
  <2>4. QED
    BY <2>2, <2>3 DEF SettledInv
<1>1. CASE UNCHANGED <<done, outcome>>
  BY <1>1 DEF DoneInv, Told, Recorded
<1>2. CASE QueueTimer
  <2>1. Head(queue) = queue[1] /\ 1 \in DOMAIN queue
    BY <1>2, HeadType DEF QueueTimer
  <2>2. QED
    BY <1>0, <1>2, <2>1, SettleAsTells DEF QueueTimer, Outcome
<1>3. CASE \E r \in RequestId : CancelQueued(r)
  BY <1>0, <1>3, SettleAsTells DEF CancelQueued, Outcome
<1>4. ASSUME NEW j \in Job, ExecTimer(j) PROVE DoneInv' /\ Told
  <2>1. outcome[j] = "none" /\ SettleAs(j, "timeout")
    BY <1>4 DEF ExecTimer, SettledInv
  <2>2. QED
    BY <2>1, SettleAsTells DEF Outcome
<1>5. ASSUME NEW j \in Job, NEW ok \in BOOLEAN, Settle(j, ok) PROVE DoneInv' /\ Told
  <2> DEFINE state == IF ok THEN "done" ELSE IF j \in aborted THEN "cancelled" ELSE "failed"
  <2>1. outcome[j] = "none" /\ SettleAs(j, state)
    BY <1>5 DEF Settle, SettledInv
  <2>2. state \in Outcome \ {"none"}
    BY DEF Outcome
  <2> HIDE DEF state
  <2>3. QED
    BY <2>1, <2>2, SettleAsTells
<1>6. CASE Tick
  <2>1. outcome' = outcome /\ DOMAIN done' = DOMAIN done /\ Len(done) \in Nat
        /\ DOMAIN done = 1..Len(done)
    BY <1>6 DEF Tick, TypeOK
  <2>2. \A i \in DOMAIN done' : done'[i].id = done[i].id /\ done'[i].state = done[i].state
    <3>1. SUFFICES ASSUME NEW i \in DOMAIN done
                   PROVE  done'[i].id = done[i].id /\ done'[i].state = done[i].state
      BY <2>1
    <3>2. done[i] \in DoneEntry
      BY DEF TypeOK
    <3>3. QED
      BY <1>6, <3>2 DEF Tick, DoneEntry
  <2>3. Len(done') = Len(done)
    BY <1>6, <2>1 DEF Tick
  <2>4. QED
    BY <2>1, <2>2, <2>3 DEF DoneInv, Told, Recorded
<1>7. CASE \/ Start \/ StopLoop \/ UNCHANGED vars \/ \E r \in RequestId : CancelActive(r)
           \/ \E j \in Job : Refuse(j) \/ Enqueue(j) \/ Release(j) \/ LateSettle(j)
  BY <1>1, <1>7 DEF Start, StopLoop, vars, CancelActive, Refuse, Enqueue, Release, LateSettle
<1>8. QED
  BY <1>2, <1>3, <1>4, <1>5, <1>6, <1>7 DEF Next

(* The done map says what callers were told, whatever ids they use and
   however the map evicts: the step that settles a job records its outcome
   in an entry that this step does not evict, and nothing else changes one. *)
THEOREM RecordedAsSettledHolds == Spec => RecordedAsSettled
<1>1. Init => DoneInv
  BY LimitAssumption DEF Init, DoneInv
<1>2. TypeOK /\ QueueInv /\ SettledInv /\ DoneInv /\ [Next]_vars => DoneInv'
  BY ToldStep
<1>3. TypeOK /\ QueueInv /\ SettledInv /\ DoneInv /\ [Next]_vars => [Told]_vars
  BY ToldStep
<1>4. RecordedAsSettled <=> [][Told]_vars
  BY PTL DEF RecordedAsSettled, Told
<1>5. QED
  BY QueueAlways, SettledAlways, <1>1, <1>2, <1>3, <1>4, PTL DEF Spec
-----------------------------------------------------------------------------
(* The scheduler implements AdmissionControl *)

LEMMA StageFacts ==
  /\ StageOf["new"] = "new" /\ StageOf["refused"] = "refused"
  /\ StageOf["queued"] = "waiting"
  /\ StageOf["running"] = "holding" /\ StageOf["settling"] = "holding"
  /\ StageOf["zombie"] = "gone" /\ StageOf["over"] = "gone"
BY DEF StageOf, Phase

\* The jobs of the abstract stages.
LEMMA StageSets ==
  ASSUME TypeOK
  PROVE  /\ Promise!At("waiting") = {j \in Job : phase[j] = "queued"}
         /\ Promise!At("holding") = Holders
         /\ \A m : Promise!HeldBy(m) = {j \in Holders : MfeOf[j] = m}
<1>1. \A j \in Job : /\ StageOf[phase[j]] = "waiting" <=> phase[j] = "queued"
                     /\ StageOf[phase[j]] = "holding" <=> phase[j] \in {"running", "settling"}
  <2>1. \A p \in Phase : /\ StageOf[p] = "waiting" <=> p = "queued"
                         /\ StageOf[p] = "holding" <=> p \in {"running", "settling"}
    BY StageFacts DEF Phase
  <2>2. QED
    BY <2>1 DEF TypeOK
<1>2. Promise!At("holding") = Holders
  BY <1>1 DEF Promise!At, Holders
<1>3. QED
  BY <1>1, <1>2 DEF Promise!At, Promise!HeldBy

\* The instance has an operator of that name of its own.
LEMMA SameCardinality == \A S : Promise!Cardinality(S) = Cardinality(S)
BY DEF Promise!Cardinality, Cardinality

\* The queue has one entry for each job that waits.
LEMMA WaitingCount ==
  ASSUME TypeOK, QueueInv, SettledInv
  PROVE  Cardinality(Promise!At("waiting")) = Len(queue)
<1> DEFINE S == {j \in Job : phase[j] = "queued"}
<1>1. Len(queue) \in Nat /\ DOMAIN queue = 1..Len(queue)
      /\ \A i \in 1..Len(queue) : queue[i] \in Job
  BY DEF TypeOK
<1>2. \A i \in 1..Len(queue) : queue[i] \in S
  BY <1>1 DEF QueueInv
<1>3. \A i, k \in 1..Len(queue) : queue[i] = queue[k] => i = k
  BY <1>1 DEF QueueInv
<1>4. \A j \in S : \E i \in 1..Len(queue) : queue[i] = j
  BY <1>1 DEF SettledInv
<1> HIDE DEF S
<1>5. [i \in 1..Len(queue) |-> queue[i]] \in Bijection(1..Len(queue), S)
  BY <1>2, <1>3, <1>4, Fun_IsBij, Zenon
<1>6. ExistsBijection(1..Len(queue), S)
  BY <1>5 DEF ExistsBijection
<1>7. Cardinality(S) = Len(queue)
  BY <1>1, <1>6, FirstPositions, FS_Bijection
<1>8. QED
  BY <1>7, StageSets DEF S

\* A job that changes its phase changes its stage and no other's.
LEMMA StageMoves ==
  ASSUME TypeOK, NEW j \in Job, NEW p \in Phase, phase' = [phase EXCEPT ![j] = p]
  PROVE  /\ Promise!Move(j, StageOf[phase[j]], StageOf[p])
         /\ StageOf[p] = StageOf[phase[j]] =>
              [k \in Job |-> StageOf[phase'[k]]] = [k \in Job |-> StageOf[phase[k]]]
<1>1. \A k \in Job : phase'[k] = IF k = j THEN p ELSE phase[k]
  BY DEF TypeOK
<1>2. [k \in Job |-> StageOf[phase'[k]]] =
        [[k \in Job |-> StageOf[phase[k]]] EXCEPT ![j] = StageOf[p]]
  <2> DEFINE f == [k \in Job |-> StageOf[phase[k]]]
             g == [k \in Job |-> StageOf[phase'[k]]]
  <2>1. DOMAIN f = Job /\ \A k \in Job : f[k] = StageOf[phase[k]]
    OBVIOUS
  <2>2. g = [k \in Job |-> g[k]] /\ \A k \in Job : g[k] = StageOf[phase'[k]]
    OBVIOUS
  <2>3. \A k \in Job : g[k] = IF k = j THEN StageOf[p] ELSE f[k]
    BY <1>1, <2>1, <2>2
  <2> HIDE DEF f, g
  <2>4. [f EXCEPT ![j] = StageOf[p]] = [k \in Job |-> g[k]]
    BY <2>1, <2>3
  <2>5. g = [f EXCEPT ![j] = StageOf[p]]
    BY <2>2, <2>4
  <2>6. QED
    BY <2>5 DEF f, g
<1>3. [k \in Job |-> StageOf[phase[k]]][j] = StageOf[phase[j]]
  OBVIOUS
<1>4. Promise!Move(j, StageOf[phase[j]], StageOf[p])
  BY <1>2, <1>3 DEF Promise!Move
<1>5. ASSUME StageOf[p] = StageOf[phase[j]]
      PROVE  [k \in Job |-> StageOf[phase'[k]]] = [k \in Job |-> StageOf[phase[k]]]
  BY <1>1, <1>5
<1>6. QED
  BY <1>4, <1>5

LEMMA PromiseStep ==
  TypeOK /\ QueueInv /\ MfeInv /\ SlotInv /\ SettledInv /\ [Next]_vars
    => [Promise!ANext]_(Promise!avars)
<1> SUFFICES ASSUME TypeOK, QueueInv, MfeInv, SlotInv, SettledInv, [Next]_vars
             PROVE  Promise!ANext \/ UNCHANGED Promise!avars
  OBVIOUS
<1> USE StageFacts
<1>0. \A i \in DOMAIN queue : queue[i] \in Job /\ phase[queue[i]] = "queued"
                              /\ outcome[queue[i]] = "none"
  <2> SUFFICES ASSUME NEW i \in DOMAIN queue
               PROVE  queue[i] \in Job /\ phase[queue[i]] = "queued"
                      /\ outcome[queue[i]] = "none"
    OBVIOUS
  <2>1. queue[i] \in Job /\ phase[queue[i]] = "queued"
    BY DEF TypeOK, QueueInv
  <2>2. QED
    BY <2>1 DEF SettledInv
<1>1. ASSUME NEW j \in Job, Refuse(j) PROVE Promise!ARefuse(j)
  <2>1. Promise!Move(j, "new", "refused")
    BY <1>1, StageMoves DEF Refuse, Phase
  <2>2. QED
    BY <1>1, <2>1, WaitingCount, SameCardinality DEF Refuse, Promise!ARefuse
<1>2. ASSUME NEW j \in Job, Enqueue(j) PROVE Promise!ASubmit(j)
  <2>1. Promise!Move(j, "new", "waiting")
    BY <1>2, StageMoves DEF Enqueue, Phase
  <2>2. QED
    BY <1>2, <2>1, WaitingCount, SameCardinality DEF Enqueue, Promise!ASubmit
<1>3. ASSUME Start PROVE \E j \in Job : Promise!AStart(j)
  <2>1. PICK i \in DOMAIN queue :
          IsNext(i) /\ phase' = [phase EXCEPT ![queue[i]] = "running"]
    BY <1>3 DEF Start
  <2> DEFINE j == queue[i]
  <2>2. j \in Job /\ CanRun(j)
    BY <1>0, <2>1 DEF IsNext
  <2>3. Promise!Move(j, "waiting", "holding")
    BY <1>0, <2>1, <2>2, StageMoves DEF Phase
  <2>4. Cardinality(Promise!At("holding")) < MaxSlots
    <3>1. IsFiniteSet(ActiveIds) /\ Cardinality(Holders) <= Cardinality(ActiveIds)
      BY HoldersFitActive
    <3>2. Cardinality(ActiveIds) \in Nat /\ Cardinality(ActiveIds) < MaxSlots
      BY <2>2, <3>1, FS_CardinalityType DEF CanRun
    <3>3. Cardinality(Holders) \in Nat
      BY HoldersFinite
    <3>4. QED
      BY <3>1, <3>2, <3>3, StageSets, LimitAssumption
  <2>5. Cardinality(Promise!HeldBy(MfeOf[j])) < MaxPerMfe
    <3>1. MfeOf[j] \in Mfe
      BY <2>2, JobAssumption
    <3>2. QED
      BY <2>2, <3>1, StageSets DEF CanRun, MfeInv
  <2>6. outcome' = outcome
    BY <1>3 DEF Start
  <2>7. QED
    BY <2>2, <2>3, <2>4, <2>5, <2>6, SameCardinality DEF Promise!AStart
<1>4. ASSUME NEW j \in Job, phase[j] = "queued", outcome[j] = "none",
             phase' = [phase EXCEPT ![j] = "over"],
             SettleAs(j, "cancelled") \/ SettleAs(j, "timeout")
      PROVE  Promise!ADrop(j)
  <2>1. Promise!Move(j, "waiting", "gone")
    BY <1>4, StageMoves DEF Phase
  <2>2. QED
    BY <1>4, <2>1 DEF SettleAs, Promise!ADrop, Promise!Answer
<1>5. ASSUME QueueTimer PROVE \E j \in Job : Promise!ADrop(j)
  <2>1. Head(queue) = queue[1] /\ 1 \in DOMAIN queue
    BY <1>5, HeadType DEF QueueTimer
  <2>2. QED
    BY <1>0, <1>4, <1>5, <2>1 DEF QueueTimer
<1>6. ASSUME NEW r \in RequestId, CancelQueued(r) PROVE \E j \in Job : Promise!ADrop(j)
  BY <1>0, <1>4, <1>6 DEF CancelQueued
<1>7. ASSUME NEW j \in Job, NEW ok \in BOOLEAN, Settle(j, ok) PROVE Promise!AAnswer(j)
  <2> DEFINE state == IF ok THEN "done" ELSE IF j \in aborted THEN "cancelled" ELSE "failed"
  <2>1. outcome[j] = "none" /\ phase[j] = "running" /\ SettleAs(j, state)
        /\ phase' = [phase EXCEPT ![j] = "settling"]
    BY <1>7 DEF Settle, SettledInv
  <2>2. state \in {"done", "failed", "cancelled"}
    OBVIOUS
  <2> HIDE DEF state
  <2>3. [k \in Job |-> StageOf[phase'[k]]] = [k \in Job |-> StageOf[phase[k]]]
    BY <2>1, StageMoves DEF Phase
  <2>4. QED
    BY <2>1, <2>2, <2>3 DEF SettleAs, Promise!AAnswer, Promise!Answer
<1>8. ASSUME NEW j \in Job, ExecTimer(j) PROVE Promise!AExpire(j)
  <2>1. Promise!Move(j, "holding", "gone")
    BY <1>8, StageMoves DEF ExecTimer, Phase
  <2>2. outcome[j] = "none" /\ outcome' = [outcome EXCEPT ![j] = "timeout"]
    BY <1>8 DEF ExecTimer, SettleAs, SettledInv
  <2>3. QED
    BY <2>1, <2>2 DEF Promise!AExpire, Promise!Answer
<1>9. ASSUME NEW j \in Job, Release(j) PROVE Promise!AReturn(j)
  <2>1. Promise!Move(j, "holding", "gone")
    BY <1>9, StageMoves DEF Release, Phase
  <2>2. outcome[j] # "none" /\ outcome' = outcome
    BY <1>9 DEF Release, SettledInv
  <2>3. QED
    BY <2>1, <2>2 DEF Promise!AReturn
<1>10. ASSUME NEW j \in Job, LateSettle(j) PROVE UNCHANGED Promise!avars
  <2>1. [k \in Job |-> StageOf[phase'[k]]] = [k \in Job |-> StageOf[phase[k]]]
    BY <1>10, StageMoves DEF LateSettle, Phase
  <2>2. QED
    BY <1>10, <2>1 DEF LateSettle, Promise!avars
<1>11. CASE StopLoop \/ Tick \/ UNCHANGED vars \/ \E r \in RequestId : CancelActive(r)
  BY <1>11 DEF StopLoop, Tick, vars, CancelActive, Promise!avars
<1>12. QED
  BY <1>1, <1>2, <1>3, <1>5, <1>6, <1>7, <1>8, <1>9, <1>10, <1>11 DEF Next, Promise!ANext

(* The queue, the maps, the timers and the microtasks implement what the
   scheduler promises, for any number of jobs and slots, when a retry waits
   for its predecessor to leave: every step of enqueue, _schedule, _run,
   cancel and the timers is a step of AdmissionControl or changes nothing a
   caller can see. *)
THEOREM ImplementsAdmissionControlHolds ==
  RetryWaits => (Spec => ImplementsAdmissionControl)
<1> SUFFICES ASSUME RetryWaits PROVE Spec => ImplementsAdmissionControl
  OBVIOUS
<1>1. Init => Promise!AInit
  BY StageFacts DEF Init, Promise!AInit
<1>2. Spec => []SlotInv
  BY SlotAlways
<1>3. QED
  BY QueueAlways, SettledAlways, MfeAlways, PromiseStep, <1>1, <1>2, PTL
     DEF Spec, ImplementsAdmissionControl, Promise!ASpec
=============================================================================
