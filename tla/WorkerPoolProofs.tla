-------------------------- MODULE WorkerPoolProofs --------------------------
(***************************************************************************)
(* Proofs about WorkerPool, for any number of workers, requests, crashes   *)
(* and attempts, and any loss or reordering of the notifications.          *)
(***************************************************************************)
EXTENDS WorkerPool, TLAPS

\* recoveryTimer refers to an armed timer, and a request in flight to a worker.
HandleIsArmed == \A w \in Worker : handle[w] => timers[w] > 0
PendingIsPlaced == \A r \in Request : outcome[r] = "pending" => on[r] \in Worker

IInv == TypeOK /\ HandleIsArmed /\ PendingIsPlaced /\ BusyIsOneRequest /\ RecoveryIsDue

-----------------------------------------------------------------------------
(* Helpers *)

\* A fresh budget keeps the timers well typed and leaves one armed.
LEMMA RearmedFacts ==
  ASSUME TypeOK, HandleIsArmed, NEW W \in SUBSET Worker, Rearmed(W)
  PROVE  /\ attempt' \in [Worker -> 0..RecoveryAttempts]
         /\ timers' \in [Worker -> Nat]
         /\ handle' \in [Worker -> BOOLEAN]
         /\ HandleIsArmed'
         /\ \A w \in W : timers'[w] > 0
         /\ \A w \in Worker \ W : attempt'[w] = attempt[w] /\ timers'[w] = timers[w]
<1> USE PoolAssumption
<1>1. attempt' \in [Worker -> 0..RecoveryAttempts]
  BY DEF Rearmed, TypeOK
<1>2. timers' \in [Worker -> Nat]
  BY DEF Rearmed, TypeOK
<1>3. handle' \in [Worker -> BOOLEAN]
  BY DEF Rearmed, TypeOK
<1>4. \A w \in Worker : timers'[w] >= timers[w] /\ (w \in W => timers'[w] > 0)
  BY DEF Rearmed, TypeOK, HandleIsArmed
<1>5. HandleIsArmed'
  BY <1>4 DEF Rearmed, TypeOK, HandleIsArmed
<1>6. \A w \in Worker \ W : attempt'[w] = attempt[w] /\ timers'[w] = timers[w]
  BY DEF Rearmed, TypeOK
<1> QED BY <1>1, <1>2, <1>3, <1>4, <1>5, <1>6

\* Refreshing moves only workers that are starting or ready.
LEMMA RefreshFacts ==
  ASSUME TypeOK, HandleIsArmed, RecoveryIsDue, Refresh, NEW w \in Worker
  PROVE  /\ Refreshed(w) \in Status
         /\ Refreshed(w) = "busy" <=> status[w] = "busy"
         /\ Refreshed(w) = "crashed" /\ attempt'[w] < RecoveryAttempts =>
              timers'[w] > 0 \/ probes'[w][TRUE] > 0 \/ probes'[w][FALSE] > 0
         /\ attempt' \in [Worker -> 0..RecoveryAttempts] /\ timers' \in [Worker -> Nat]
         /\ handle' \in [Worker -> BOOLEAN] /\ graceOver' \in [Worker -> BOOLEAN]
         /\ probes' \in [Worker -> [BOOLEAN -> Nat]]
         /\ HandleIsArmed'
<1>1. Refreshed(w) \in Status /\ (Refreshed(w) = "busy" <=> status[w] = "busy")
  BY DEF Refreshed, Status, TypeOK
<1>2. NewlyCrashed \in SUBSET Worker /\ Rearmed(NewlyCrashed)
  BY DEF NewlyCrashed, Refresh
<1>3. CASE w \in NewlyCrashed
  BY <1>1, <1>2, <1>3, RearmedFacts DEF Refresh, TypeOK
<1>4. CASE w \notin NewlyCrashed
  <2>1. attempt'[w] = attempt[w] /\ timers'[w] = timers[w]
    BY <1>2, <1>4, RearmedFacts
  <2>2. Refreshed(w) = "crashed" => status[w] = "crashed"
    BY <1>4 DEF NewlyCrashed
  <2> QED BY <1>1, <1>2, <2>1, <2>2, RearmedFacts DEF Refresh, TypeOK, RecoveryIsDue
<1> QED BY <1>3, <1>4

-----------------------------------------------------------------------------
(* The invariant holds at first, and every step keeps it *)

LEMMA InvInit == Init => IInv
<1> SUFFICES ASSUME Init PROVE IInv
  OBVIOUS
<1>1. 0 \in 0..RecoveryAttempts /\ 0 \in 0..MaxCrashes
  BY PoolAssumption
<1>2. TypeOK
  BY <1>1 DEF Init, TypeOK, Status, Outcome
<1> QED BY <1>2 DEF Init, IInv, HandleIsArmed, PendingIsPlaced, BusyIsOneRequest, RecoveryIsDue, InFlight

\* The next state is well typed, and what it does to the timers is sound.
LEMMA RefreshStep ==
  ASSUME IInv, Refresh, UNCHANGED world,
         NEW r, r \in Request, outcome[r] = "none",
         \/ /\ status' = [w \in Worker |-> Refreshed(w)]
            /\ outcome' = [outcome EXCEPT ![r] = "no_ready_workers"] /\ UNCHANGED <<on, link>>
         \/ Submit(r)
  PROVE  IInv'
<1> USE DEF IInv
<1>1. /\ attempt' \in [Worker -> 0..RecoveryAttempts] /\ timers' \in [Worker -> Nat]
      /\ handle' \in [Worker -> BOOLEAN] /\ graceOver' \in [Worker -> BOOLEAN]
      /\ probes' \in [Worker -> [BOOLEAN -> Nat]]
      /\ HandleIsArmed'
  <2>1. 0 \in Worker
    BY PoolAssumption DEF Worker
  <2> QED BY <2>1, RefreshFacts
<1> DEFINE Due(w) == attempt'[w] < RecoveryAttempts =>
             timers'[w] > 0 \/ probes'[w][TRUE] > 0 \/ probes'[w][FALSE] > 0
<1>2. \A w \in Worker : /\ Refreshed(w) \in Status
                        /\ Refreshed(w) = "busy" <=> status[w] = "busy"
                        /\ Refreshed(w) = "crashed" => Due(w)
  BY RefreshFacts
<1>3. CASE status' = [w \in Worker |-> Refreshed(w)]
           /\ outcome' = [outcome EXCEPT ![r] = "no_ready_workers"] /\ UNCHANGED <<on, link>>
  <2>1. TypeOK'
    <3>1. status' \in [Worker -> Status] /\ outcome' \in [Request -> Outcome]
      BY <1>2, <1>3 DEF TypeOK, Outcome
    <3> QED BY <1>1, <1>3, <3>1 DEF TypeOK, world
  <2>2. \A w \in Worker : InFlight(w)' = InFlight(w)
    BY <1>3 DEF InFlight, TypeOK
  <2>3. BusyIsOneRequest' /\ PendingIsPlaced' /\ RecoveryIsDue'
    <3>1. PendingIsPlaced'
      BY <1>3 DEF PendingIsPlaced, TypeOK
    <3>2. \A v \in Worker : status'[v] = Refreshed(v)
      BY <1>3
    <3>3. RecoveryIsDue'
      BY <1>2, <3>2 DEF RecoveryIsDue
    <3>4. BusyIsOneRequest'
      <4>1. \A v \in Worker : status'[v] = "busy" <=> status[v] = "busy"
        BY <1>2, <3>2
      <4> HIDE DEF Due
      <4> QED BY <2>2, <4>1 DEF BusyIsOneRequest
    <3> QED BY <3>1, <3>3, <3>4
  <2> QED BY <1>1, <2>1, <2>3
<1>4. CASE Submit(r)
  <2>1. PICK w \in Worker :
          /\ First(w)
          /\ status' = [v \in Worker |-> IF v = w THEN "busy" ELSE Refreshed(v)]
          /\ on' = [on EXCEPT ![r] = w]
          /\ link' = [link EXCEPT ![r] = IF proc[w] = "serving" THEN "open" ELSE "refused"]
          /\ outcome' = [outcome EXCEPT ![r] = "pending"]
    BY <1>4 DEF Submit
  <2>2. TypeOK'
    <3>1. status' \in [Worker -> Status]
      BY <1>2, <2>1 DEF Status
    <3>2. /\ outcome' \in [Request -> Outcome] /\ on' \in [Request -> Worker \cup {None}]
          /\ link' \in [Request -> {"none", "open", "cut", "refused"}]
      BY <2>1 DEF TypeOK, Outcome
    <3> QED BY <1>1, <3>1, <3>2 DEF TypeOK, world
  <2>3. InFlight(w) = {} /\ InFlight(w)' = {r}
    <3>1. status[w] # "busy"
      BY <1>2, <2>1 DEF First
    <3>2. InFlight(w) = {}
      BY <3>1 DEF BusyIsOneRequest
    <3> QED BY <2>1, <3>2 DEF InFlight, TypeOK
  <2>4. \A v \in Worker \ {w} : InFlight(v)' = InFlight(v)
    BY <2>1 DEF InFlight, TypeOK
  <2>5. BusyIsOneRequest'
    <3>1. \A v \in Worker \ {w} : status'[v] = "busy" <=> status[v] = "busy"
      BY <1>2, <2>1
    <3>2. status'[w] = "busy"
      BY <2>1
    <3> QED BY <2>3, <2>4, <3>1, <3>2 DEF BusyIsOneRequest
  <2>6. PendingIsPlaced' /\ RecoveryIsDue'
    <3>1. PendingIsPlaced'
      BY <2>1 DEF PendingIsPlaced, TypeOK
    <3>2. \A v \in Worker : status'[v] = "crashed" => Refreshed(v) = "crashed"
      BY <2>1
    <3>3. RecoveryIsDue'
      BY <1>2, <3>2 DEF RecoveryIsDue
    <3> QED BY <3>1, <3>3
  <2> QED BY <1>1, <2>2, <2>5, <2>6
<1> QED BY <1>3, <1>4

\* A settled request leaves its worker free, or crashed as it was.
LEMMA SettleStep ==
  ASSUME IInv, NEW r \in Request, NEW how \in Outcome \ {"pending"}, Settle(r, how)
  PROVE  IInv'
<1> USE DEF IInv, Settle
<1>1. on[r] \in Worker /\ r \in InFlight(on[r])
  BY DEF PendingIsPlaced, InFlight
<1>2. InFlight(on[r])' = {} /\ \A v \in Worker \ {on[r]} : InFlight(v)' = InFlight(v)
  BY <1>1 DEF InFlight, BusyIsOneRequest, TypeOK
<1>3. TypeOK'
  <2>1. status' \in [Worker -> Status] /\ outcome' \in [Request -> Outcome]
    BY <1>1 DEF TypeOK, Status
  <2> QED BY <2>1 DEF TypeOK, world
<1>4. status[on[r]] = "busy" /\ status' = [status EXCEPT ![on[r]] = "ready"]
  BY <1>1 DEF BusyIsOneRequest
<1>5. BusyIsOneRequest'
  BY <1>1, <1>2, <1>4 DEF BusyIsOneRequest, TypeOK
<1>6. HandleIsArmed' /\ PendingIsPlaced' /\ RecoveryIsDue'
  <2>1. \A v \in Worker : status'[v] = "crashed" => status[v] = "crashed"
    BY <1>1, <1>4 DEF TypeOK
  <2>2. HandleIsArmed' /\ RecoveryIsDue'
    BY <2>1 DEF HandleIsArmed, RecoveryIsDue
  <2>3. PendingIsPlaced'
    BY DEF PendingIsPlaced, TypeOK
  <2> QED BY <2>2, <2>3
<1> QED BY <1>3, <1>5, <1>6

\* Taking a worker out with a fresh budget, its requests answered.
LEMMA TakeOut ==
  ASSUME IInv, TypeOK', NEW w \in Worker, Rearmed({w}), UNCHANGED <<probes, on>>,
         status' = [status EXCEPT ![w] = "crashed"],
         InFlight(w)' = {}, \A v \in Worker \ {w} : InFlight(v)' = InFlight(v),
         \A r \in Request : outcome'[r] = "pending" => outcome[r] = "pending"
  PROVE  IInv'
<1> USE DEF IInv
<1>1. BusyIsOneRequest'
  BY DEF BusyIsOneRequest, TypeOK
<1>2. HandleIsArmed' /\ timers'[w] > 0 /\ \A v \in Worker \ {w} : attempt'[v] = attempt[v] /\ timers'[v] = timers[v]
  BY RearmedFacts
<1>3. PendingIsPlaced' /\ RecoveryIsDue'
  BY <1>2 DEF PendingIsPlaced, RecoveryIsDue, TypeOK
<1> QED BY <1>1, <1>2, <1>3

\* What the environment and the callbacks that move no request may do.
LEMMA QuietStep ==
  ASSUME IInv, TypeOK', HandleIsArmed', RecoveryIsDue', UNCHANGED <<status, on, outcome>>
  PROVE  IInv'
BY DEF IInv, PendingIsPlaced, BusyIsOneRequest, InFlight

LEMMA InvStep == IInv /\ [Next]_vars => IInv'
<1> SUFFICES ASSUME IInv, [Next]_vars PROVE IInv'
  OBVIOUS
<1> USE PoolAssumption DEF IInv
<1>1. CASE Health
  <2> USE <1>1 DEF Health
  <2>0. 0 \in Worker
    BY DEF Worker
  <2>1. /\ attempt' \in [Worker -> 0..RecoveryAttempts] /\ timers' \in [Worker -> Nat]
        /\ handle' \in [Worker -> BOOLEAN] /\ graceOver' \in [Worker -> BOOLEAN]
        /\ probes' \in [Worker -> [BOOLEAN -> Nat]]
        /\ HandleIsArmed'
    BY <2>0, RefreshFacts
  <2>2. \A w \in Worker : Refreshed(w) \in Status /\ (Refreshed(w) = "busy" <=> status[w] = "busy")
    BY RefreshFacts
  <2>3. TypeOK'
    <3>1. status' \in [Worker -> Status]
      BY <2>2
    <3> QED BY <2>1, <3>1 DEF TypeOK, requests, world
  <2>4. \A w \in Worker : status'[w] = Refreshed(w)
    OBVIOUS
  <2>5. RecoveryIsDue'
    BY <2>4, RefreshFacts DEF RecoveryIsDue
  <2>6. \A w \in Worker : InFlight(w)' = InFlight(w) /\ (status'[w] = "busy" <=> status[w] = "busy")
    BY <2>2, <2>4 DEF InFlight, requests
  <2>7. BusyIsOneRequest'
    BY <2>6 DEF BusyIsOneRequest
  <2>8. PendingIsPlaced'
    BY DEF PendingIsPlaced, requests
  <2> QED BY <2>1, <2>3, <2>5, <2>7, <2>8
<1>2. ASSUME NEW r \in Request, Unavailable(r) PROVE IInv'
  BY <1>2, RefreshStep DEF Unavailable
<1>3. ASSUME NEW r \in Request, Submit(r) PROVE IInv'
  BY <1>3, RefreshStep DEF Submit
<1>4. ASSUME NEW r \in Request, Answered(r) \/ Cancel(r) PROVE IInv'
  BY <1>4, SettleStep DEF Answered, Cancel, Outcome
<1>5. ASSUME NEW r \in Request, TransportFails(r) PROVE IInv'
  <2> USE <1>5 DEF TransportFails
  <2>1. on[r] \in Worker /\ r \in InFlight(on[r]) /\ status[on[r]] = "busy"
    BY DEF PendingIsPlaced, InFlight, BusyIsOneRequest
  <2>2. InFlight(on[r])' = {} /\ \A v \in Worker \ {on[r]} : InFlight(v)' = InFlight(v)
    BY <2>1 DEF InFlight, BusyIsOneRequest, TypeOK
  <2>3. status' = [status EXCEPT ![on[r]] = "crashed"] /\ Rearmed({on[r]})
    BY <2>1
  <2>4. TypeOK'
    <3>1. status' \in [Worker -> Status] /\ outcome' \in [Request -> Outcome]
      BY <2>1, <2>3 DEF TypeOK, Status, Outcome
    <3> QED BY <2>1, <2>3, <3>1, RearmedFacts DEF TypeOK, world
  <2>5. \A q \in Request : outcome'[q] = "pending" => outcome[q] = "pending"
    BY DEF TypeOK
  <2> QED BY <2>1, <2>2, <2>3, <2>4, <2>5, TakeOut
<1>6. ASSUME NEW w \in Worker, Crashed(w) PROVE IInv'
  <2> USE <1>6 DEF Crashed
  <2>1. InFlight(w)' = {} /\ \A v \in Worker \ {w} : InFlight(v)' = InFlight(v)
    BY DEF InFlight, TypeOK
  <2>2. TypeOK'
    <3>1. status' \in [Worker -> Status] /\ outcome' \in [Request -> Outcome]
      BY DEF TypeOK, Status, Outcome
    <3> QED BY <3>1, RearmedFacts DEF TypeOK
  <2>3. \A q \in Request : outcome'[q] = "pending" => outcome[q] = "pending"
    BY DEF TypeOK
  <2> QED BY <2>1, <2>2, <2>3, TakeOut
<1>7. ASSUME NEW w \in Worker, Restarted(w) PROVE IInv'
  <2> USE <1>7 DEF Restarted
  <2>1. CASE status[w] = "busy"
    <3>1. TypeOK'
      BY <2>1 DEF TypeOK, pool, requests
    <3>2. HandleIsArmed' /\ RecoveryIsDue' /\ UNCHANGED <<status, on, outcome>>
      BY <2>1 DEF HandleIsArmed, RecoveryIsDue, pool, requests
    <3> QED BY <3>1, <3>2, QuietStep
  <2>2. CASE status[w] # "busy"
    <3>1. status' = [status EXCEPT ![w] = "crashed"] /\ Rearmed({w}) /\ UNCHANGED <<probes, requests>>
      BY <2>2
    <3>2. InFlight(w)' = {} /\ \A v \in Worker \ {w} : InFlight(v)' = InFlight(v)
      BY <2>2, <3>1 DEF InFlight, BusyIsOneRequest, requests
    <3>3. TypeOK'
      <4>1. status' \in [Worker -> Status] /\ graceOver' \in [Worker -> BOOLEAN]
        BY <2>2, <3>1 DEF TypeOK, Status
      <4> QED BY <3>1, <4>1, RearmedFacts DEF TypeOK, requests
    <3> QED BY <3>1, <3>2, <3>3, TakeOut DEF requests
  <2> QED BY <2>1, <2>2
<1>8. ASSUME NEW w \in Worker, TimerFires(w) PROVE IInv'
  <2> DEFINE b == sock[w] /\ proc[w] = "serving"
  <2>1. b \in BOOLEAN /\ probes' = [probes EXCEPT ![w][b] = @ + 1]
    BY <1>8 DEF TimerFires
  <2>2. UNCHANGED <<status, attempt, graceOver, requests, world>>
    BY <1>8 DEF TimerFires
  <2>3. PICK last \in BOOLEAN :
          /\ last => handle[w]
          /\ ~last => timers[w] > 1 \/ ~handle[w]
          /\ handle' = [handle EXCEPT ![w] = @ /\ ~last]
    BY <1>8 DEF TimerFires
  <2>4. timers[w] > 0 /\ timers' = [timers EXCEPT ![w] = @ - 1]
    BY <1>8 DEF TimerFires
  <2> HIDE DEF b
  <2>5. probes[w] \in [BOOLEAN -> Nat] /\ probes'[w] = [probes[w] EXCEPT ![b] = @ + 1]
        /\ \A v \in Worker \ {w} : probes'[v] = probes[v]
    BY <2>1 DEF TypeOK
  <2>6. probes'[w] \in [BOOLEAN -> Nat] /\ probes'[w][b] > 0
    BY <2>1, <2>5
  <2>7. probes' \in [Worker -> [BOOLEAN -> Nat]]
    BY <2>1, <2>5, <2>6 DEF TypeOK
  <2>8. timers' \in [Worker -> Nat] /\ timers'[w] = timers[w] - 1
        /\ \A v \in Worker \ {w} : timers'[v] = timers[v]
    BY <2>4 DEF TypeOK
  <2>9. handle' \in [Worker -> BOOLEAN] /\ \A v \in Worker \ {w} : handle'[v] = handle[v]
    BY <2>3 DEF TypeOK
  <2>10. TypeOK'
    BY <2>2, <2>7, <2>8, <2>9 DEF TypeOK, requests, world
  <2>11. handle'[w] => timers[w] > 1
    BY <2>3 DEF TypeOK
  <2>12. HandleIsArmed'
    BY <2>8, <2>9, <2>11 DEF HandleIsArmed, TypeOK
  <2>13. probes'[w][TRUE] > 0 \/ probes'[w][FALSE] > 0
    BY <2>1, <2>6
  <2>14. RecoveryIsDue'
    BY <2>2, <2>5, <2>8, <2>13 DEF RecoveryIsDue
  <2> QED BY <2>2, <2>10, <2>12, <2>14, QuietStep DEF requests
<1>9. ASSUME NEW w \in Worker, NEW alive \in BOOLEAN, ProbeEnds(w, alive) PROVE IInv'
  <2> USE <1>9 DEF ProbeEnds
  <2>1. probes' \in [Worker -> [BOOLEAN -> Nat]]
        /\ \A v \in Worker \ {w} : probes'[v] = probes[v]
    BY DEF TypeOK
  <2>2. CASE status[w] # "crashed" /\ UNCHANGED <<status, attempt, timers, handle, graceOver>>
    <3>1. TypeOK'
      BY <2>1, <2>2 DEF TypeOK, requests, world
    <3>2. HandleIsArmed' /\ RecoveryIsDue'
      BY <2>1, <2>2 DEF HandleIsArmed, RecoveryIsDue
    <3> QED BY <2>2, <3>1, <3>2, QuietStep DEF requests
  <2>3. CASE status[w] = "crashed" /\ status' = [status EXCEPT ![w] = "ready"]
    <3>1. TypeOK'
      <4>1. /\ status' \in [Worker -> Status] /\ attempt' \in [Worker -> 0..RecoveryAttempts]
            /\ handle' \in [Worker -> BOOLEAN] /\ graceOver' \in [Worker -> BOOLEAN]
            /\ timers' = timers
        <5>1. status' \in [Worker -> Status]
          BY <2>3 DEF TypeOK, Status
        <5>2. attempt' = [attempt EXCEPT ![w] = 0] /\ handle' = [handle EXCEPT ![w] = FALSE]
              /\ graceOver' = [graceOver EXCEPT ![w] = FALSE] /\ timers' = timers
          <6>1. status'[w] # "crashed" /\ status' # status
            BY <2>3 DEF TypeOK
          <6> QED BY <2>3, <6>1
        <5> QED BY <5>1, <5>2 DEF TypeOK
      <4> QED BY <2>1, <4>1 DEF TypeOK, requests, world
    <3>2. InFlight(w)' = {} /\ \A v \in Worker : InFlight(v)' = InFlight(v)
      BY <2>3 DEF InFlight, BusyIsOneRequest, requests
    <3>3. BusyIsOneRequest'
      BY <2>3, <3>2 DEF BusyIsOneRequest, TypeOK
    <3>4. HandleIsArmed' /\ PendingIsPlaced'
      BY <2>3 DEF HandleIsArmed, PendingIsPlaced, TypeOK, requests
    <3>5. RecoveryIsDue'
      <4>1. status'[w] = "ready" /\ timers' = timers
            /\ \A v \in Worker \ {w} : status'[v] = status[v] /\ attempt'[v] = attempt[v]
        BY <2>3 DEF TypeOK
      <4> QED BY <2>1, <4>1 DEF RecoveryIsDue
    <3> QED BY <3>1, <3>3, <3>4, <3>5
  <2>4. CASE status[w] = "crashed" /\ Reschedule(w) /\ UNCHANGED <<status, graceOver>>
    <3>1. TypeOK'
      <4>1. /\ attempt' \in [Worker -> 0..RecoveryAttempts]
            /\ timers' \in [Worker -> Nat] /\ handle' \in [Worker -> BOOLEAN]
        <5>1. CASE attempt[w] < RecoveryAttempts
          <6>1. attempt[w] + 1 \in 0..RecoveryAttempts
            BY <5>1 DEF TypeOK
          <6>2. /\ attempt' = [attempt EXCEPT ![w] = attempt[w] + 1]
                /\ timers' = [timers EXCEPT ![w] = timers[w] + 1]
                /\ handle' = [handle EXCEPT ![w] = TRUE]
            BY <2>4, <5>1 DEF Reschedule
          <6>3. timers[w] + 1 \in Nat
            BY DEF TypeOK
          <6> QED BY <6>1, <6>2, <6>3 DEF TypeOK
        <5>2. CASE ~(attempt[w] < RecoveryAttempts)
          BY <2>4, <5>2 DEF Reschedule, TypeOK
        <5> QED BY <5>1, <5>2
      <4> QED BY <2>1, <2>4, <4>1 DEF TypeOK, requests, world
    <3>2. HandleIsArmed'
      <4>1. (timers' = timers /\ handle' = handle) \/ (timers' = [timers EXCEPT ![w] = @ + 1] /\ handle' = [handle EXCEPT ![w] = TRUE])
        BY <2>4 DEF Reschedule
      <4>2. CASE timers' = timers /\ handle' = handle
        BY <4>2 DEF HandleIsArmed
      <4>3. CASE timers' = [timers EXCEPT ![w] = @ + 1] /\ handle' = [handle EXCEPT ![w] = TRUE]
        <5>1. timers'[w] > 0 /\ \A v \in Worker \ {w} : timers'[v] = timers[v] /\ handle'[v] = handle[v]
          BY <4>3 DEF TypeOK
        <5> QED BY <5>1 DEF HandleIsArmed
      <4> QED BY <4>1, <4>2, <4>3
    <3>3. attempt'[w] < RecoveryAttempts => timers'[w] > 0
      BY <2>4 DEF Reschedule, TypeOK
    <3>4. \A v \in Worker \ {w} : attempt'[v] = attempt[v] /\ timers'[v] = timers[v]
      BY <2>4 DEF Reschedule, TypeOK
    <3>5. RecoveryIsDue'
      BY <2>1, <2>4, <3>3, <3>4 DEF RecoveryIsDue
    <3> QED BY <2>4, <3>1, <3>2, <3>5, QuietStep DEF requests
  <2> QED BY <2>2, <2>3, <2>4
<1>10. ASSUME UNCHANGED <<status, attempt, timers, handle, probes, on, outcome>>, TypeOK' PROVE IInv'
  BY <1>10, QuietStep DEF HandleIsArmed, RecoveryIsDue
<1>11. ASSUME NEW w \in Worker, GraceEnds(w) PROVE IInv'
  <2>1. TypeOK'
    BY <1>11 DEF GraceEnds, TypeOK, requests, world
  <2> QED BY <1>10, <1>11, <2>1 DEF GraceEnds, requests
<1>12. ASSUME NEW w \in Worker, Die(w) PROVE IInv'
  <2> USE <1>12 DEF Die
  <2>1. /\ crashes' \in 0..MaxCrashes
        /\ proc' \in [Worker -> {"down", "loading", "serving"}]
        /\ link' \in [Request -> {"none", "open", "cut", "refused"}]
        /\ msgs' \subseteq {"worker_crashed", "worker_restarted"} \X Worker
    BY DEF TypeOK
  <2>2. sock' \in [Worker -> BOOLEAN]
    BY DEF TypeOK
  <2>3. TypeOK'
    BY <2>1, <2>2 DEF TypeOK, pool
  <2> QED BY <1>10, <2>3 DEF pool
<1>13. ASSUME NEW w \in Worker, StartProcess(w) \/ Bind(w) PROVE IInv'
  <2>1. /\ proc' \in [Worker -> {"down", "loading", "serving"}] /\ sock' \in [Worker -> BOOLEAN]
        /\ msgs' \subseteq {"worker_crashed", "worker_restarted"} \X Worker
    <3>1. CASE StartProcess(w)
      BY <3>1 DEF StartProcess, TypeOK
    <3>2. CASE Bind(w)
      BY <3>2 DEF Bind, TypeOK
    <3> QED BY <1>13, <3>1, <3>2
  <2>2. TypeOK'
    BY <1>13, <2>1 DEF StartProcess, Bind, TypeOK, pool, requests
  <2> QED BY <1>10, <1>13, <2>2 DEF StartProcess, Bind, pool, requests
<1>14. CASE UNCHANGED vars
  <2>1. TypeOK'
    BY <1>14 DEF TypeOK, vars, pool, requests, world
  <2> QED BY <1>10, <1>14, <2>1 DEF vars, pool, requests
<1> QED
  BY <1>1, <1>2, <1>3, <1>4, <1>5, <1>6, <1>7, <1>8, <1>9, <1>11, <1>12, <1>13, <1>14 DEF Next

LEMMA Inductive == Spec => []IInv
<1> QED BY InvInit, InvStep, PTL DEF Spec

-----------------------------------------------------------------------------
(* What follows *)

\* Every reachable state of the pool is well typed.
THEOREM TypeCorrect == Spec => []TypeOK
<1> QED BY Inductive, PTL DEF IInv

\* A worker is busy exactly while one request is in flight on it.
THEOREM BusyIsOneRequestHolds == Spec => []BusyIsOneRequest
<1> QED BY Inductive, PTL DEF IInv

\* A worker with attempts left always has a timer or a probe to bring it back.
THEOREM RecoveryIsDueHolds == Spec => []RecoveryIsDue
<1> QED BY Inductive, PTL DEF IInv

-----------------------------------------------------------------------------
(* The pool implements WorkerLending                                         *)

LEMMA TrustFacts ==
  /\ TrustOf["starting"] = "unseen" /\ TrustOf["ready"] = "free"
  /\ TrustOf["busy"] = "lent" /\ TrustOf["crashed"] = "out"
  /\ \A s \in Status : TrustOf[s] \in Lending!Trust
<1>1. ASSUME NEW s \in Status
      PROVE  TrustOf[s] = CASE s = "starting" -> "unseen"
                            [] s = "ready" -> "free"
                            [] s = "busy" -> "lent"
                            [] s = "crashed" -> "out"
  BY DEF TrustOf
<1>2. /\ TrustOf["starting"] = "unseen" /\ TrustOf["ready"] = "free"
      /\ TrustOf["busy"] = "lent" /\ TrustOf["crashed"] = "out"
  BY <1>1 DEF Status
<1>3. QED
  BY <1>2 DEF Status, Lending!Trust

\* What one new status makes of the trust.
LEMMA TurnsFree ==
  ASSUME TypeOK, NEW w \in Worker, status' = [status EXCEPT ![w] = "ready"]
  PROVE  [v \in Worker |-> TrustOf[status[v]]]' =
           [[v \in Worker |-> TrustOf[status[v]]] EXCEPT ![w] = "free"]
BY TrustFacts DEF TypeOK

LEMMA TurnsOut ==
  ASSUME TypeOK, NEW w \in Worker, status' = [status EXCEPT ![w] = "crashed"]
  PROVE  [v \in Worker |-> TrustOf[status[v]]]' =
           [[v \in Worker |-> TrustOf[status[v]]] EXCEPT ![w] = "out"]
BY TrustFacts DEF TypeOK

LEMMA BorrowersAreInFlight ==
  ASSUME IInv
  PROVE  /\ \A w \in Worker : Lending!Borrowers(w) = InFlight(w)
         /\ \A w \in Worker : status[w] # "busy" => InFlight(w) = {}
         /\ \A r \in Request : outcome[r] = "pending" =>
              on[r] \in Worker /\ status[on[r]] = "busy" /\ InFlight(on[r]) = {r}
<1>1. \A w \in Worker : Lending!Borrowers(w) = InFlight(w)
  BY DEF Lending!Borrowers, InFlight
<1>2. ASSUME NEW r \in Request, outcome[r] = "pending"
      PROVE  on[r] \in Worker /\ status[on[r]] = "busy" /\ InFlight(on[r]) = {r}
  <2>1. on[r] \in Worker /\ r \in InFlight(on[r])
    BY <1>2 DEF IInv, PendingIsPlaced, InFlight
  <2>2. QED
    BY <2>1 DEF IInv, BusyIsOneRequest
<1>3. QED
  BY <1>1, <1>2 DEF IInv, BusyIsOneRequest

\* What a refresh makes of the statuses is a look at the workers.
LEMMA RefreshLooks ==
  ASSUME IInv
  PROVE  [w \in Worker |-> TrustOf[Refreshed(w)]] \in Lending!Looks
<1>1. ASSUME NEW w \in Worker
      PROVE  /\ TrustOf[Refreshed(w)] \in Lending!Trust
             /\ IF TrustOf[status[w]] \in {"lent", "out"}
                  THEN TrustOf[Refreshed(w)] = TrustOf[status[w]]
                  ELSE TrustOf[Refreshed(w)] # "lent"
  <2>1. status[w] \in Status
    BY DEF IInv, TypeOK
  <2>2. CASE status[w] \in {"busy", "crashed"}
    BY <2>1, <2>2, TrustFacts DEF Refreshed
  <2>3. CASE status[w] \in {"starting", "ready"}
    <3>1. Refreshed(w) \in {"ready", "crashed", "starting"}
      BY <2>3 DEF Refreshed
    <3>2. TrustOf[status[w]] \notin {"lent", "out"}
      BY <2>3, TrustFacts
    <3>3. QED
      BY <3>1, <3>2, TrustFacts DEF Status
  <2>4. QED
    BY <2>1, <2>2, <2>3 DEF Status
<1>2. QED
  BY <1>1 DEF Lending!Looks

\* A worker put out of the pool takes its request with it.
LEMMA Breaks ==
  ASSUME IInv, NEW w \in Worker, status' = [status EXCEPT ![w] = "crashed"], on' = on,
         NEW how \in Lending!Broken,
         outcome' = [q \in Request |-> IF q \in InFlight(w) THEN how ELSE outcome[q]]
  PROVE  Lending!LBreak(w)
<1>1. [v \in Worker |-> TrustOf[status[v]]]' =
        [[v \in Worker |-> TrustOf[status[v]]] EXCEPT ![w] = "out"]
  BY TurnsOut DEF IInv
<1>2. Lending!Borrowers(w) = InFlight(w)
  BY BorrowersAreInFlight
<1>3. QED
  BY <1>1, <1>2 DEF Lending!LBreak

LEMMA LendingStep ==
  ASSUME IInv, [Next]_vars
  PROVE  [Lending!LNext]_(Lending!lvars)
<1> DEFINE seen == [w \in Worker |-> TrustOf[Refreshed(w)]]
<1>1. CASE \/ UNCHANGED vars
           \/ \E w \in Worker : TimerFires(w) \/ GraceEnds(w) \/ Die(w) \/ StartProcess(w) \/ Bind(w)
  <2>1. UNCHANGED <<status, on, outcome>>
    BY <1>1 DEF TimerFires, GraceEnds, Die, StartProcess, Bind, vars, pool, requests
  <2>2. QED
    BY <2>1 DEF Lending!lvars
<1>2. CASE Health
  <2>1. /\ [w \in Worker |-> TrustOf[status[w]]]' = seen
        /\ UNCHANGED <<on, outcome>>
    BY <1>2 DEF Health, requests
  <2>2. Lending!LLook
    BY <2>1, RefreshLooks DEF Lending!LLook
  <2>3. QED
    BY <2>2 DEF Lending!LNext
<1>3. ASSUME NEW r \in Request, Unavailable(r) PROVE Lending!LRefuse(r)
  <2>1. /\ [w \in Worker |-> TrustOf[status[w]]]' = seen
        /\ \A w \in Worker : Refreshed(w) # "ready"
        /\ outcome[r] = "none" /\ on' = on
        /\ outcome' = [outcome EXCEPT ![r] = "no_ready_workers"]
    BY <1>3 DEF Unavailable
  <2>2. \A w \in Worker : seen[w] # "free"
    <3>1. \A w \in Worker : Refreshed(w) \in Status
      BY DEF Refreshed, Status, IInv, TypeOK
    <3>2. QED
      BY <2>1, <3>1, TrustFacts DEF Status
  <2> HIDE DEF seen
  <2>3. QED
    BY <2>1, <2>2, RefreshLooks DEF Lending!LRefuse, seen
<1>4. ASSUME NEW r \in Request, Submit(r) PROVE Lending!LLend(r)
  <2>1. PICK w \in Worker :
          /\ First(w)
          /\ status' = [v \in Worker |-> IF v = w THEN "busy" ELSE Refreshed(v)]
          /\ on' = [on EXCEPT ![r] = w]
    BY <1>4 DEF Submit
  <2>2. [v \in Worker |-> TrustOf[status[v]]]' = [seen EXCEPT ![w] = "lent"]
    BY <2>1, TrustFacts
  <2>3. seen[w] = "free"
    BY <2>1, TrustFacts DEF First
  <2>4. outcome[r] = "none" /\ outcome' = [outcome EXCEPT ![r] = "pending"]
    BY <1>4 DEF Submit
  <2>5. seen \in Lending!Looks
    BY RefreshLooks
  <2> HIDE DEF seen
  <2>6. QED
    BY <2>1, <2>2, <2>3, <2>4, <2>5 DEF Lending!LLend
<1>5. ASSUME NEW r \in Request, Answered(r) \/ Cancel(r) PROVE Lending!LReturn(r)
  <2>1. PICK how \in Lending!Returned : Settle(r, how)
    BY <1>5 DEF Answered, Cancel, Lending!Returned
  <2>2. /\ on[r] \in Worker /\ status[on[r]] = "busy"
        /\ Lending!Borrowers(on[r]) = {r}
    BY <2>1, BorrowersAreInFlight DEF Settle
  <2>3. /\ status' = [status EXCEPT ![on[r]] = "ready"]
        /\ outcome' = [outcome EXCEPT ![r] = how] /\ on' = on
    BY <2>1, <2>2 DEF Settle
  <2>4. [v \in Worker |-> TrustOf[status[v]]]' =
          [[v \in Worker |-> TrustOf[status[v]]] EXCEPT ![on[r]] = "free"]
    BY <2>2, <2>3, TurnsFree DEF IInv
  <2>5. [v \in Worker |-> TrustOf[status[v]]][on[r]] = "lent"
    BY <2>2, TrustFacts
  <2>6. QED
    BY <2>2, <2>3, <2>4, <2>5 DEF Lending!LReturn
<1>6. ASSUME NEW r \in Request, TransportFails(r)
      PROVE  \E w \in Worker : Lending!LBreak(w)
  <2>1. outcome[r] = "pending"
    BY <1>6 DEF TransportFails
  <2>2. PICK w \in Worker : on[r] = w /\ status[w] = "busy" /\ InFlight(w) = {r}
    BY <2>1, BorrowersAreInFlight
  <2>3. /\ status' = [status EXCEPT ![w] = "crashed"] /\ on' = on
        /\ outcome' = [outcome EXCEPT ![r] = "transport"]
    BY <1>6, <2>2 DEF TransportFails
  <2>4. outcome' = [q \in Request |-> IF q \in InFlight(w) THEN "transport" ELSE outcome[q]]
    BY <2>2, <2>3 DEF IInv, TypeOK
  <2>5. "transport" \in Lending!Broken
    BY DEF Lending!Broken
  <2>6. Lending!LBreak(w)
    BY <2>3, <2>4, <2>5, Breaks
  <2>7. QED
    BY <2>6
<1>7. ASSUME NEW w \in Worker, Crashed(w) PROVE Lending!LBreak(w)
  <2>1. "worker_crashed" \in Lending!Broken
    BY DEF Lending!Broken
  <2>2. QED
    BY <1>7, <2>1, Breaks DEF Crashed
<1>8. ASSUME NEW w \in Worker, Restarted(w)
      PROVE  Lending!LBreak(w) \/ UNCHANGED Lending!lvars
  <2>1. CASE status[w] = "busy"
    BY <1>8, <2>1 DEF Restarted, pool, requests, Lending!lvars
  <2>2. CASE status[w] # "busy"
    <3>1. status' = [status EXCEPT ![w] = "crashed"] /\ UNCHANGED <<on, outcome>>
      BY <1>8, <2>2 DEF Restarted, requests
    <3>2. InFlight(w) = {}
      BY <2>2, BorrowersAreInFlight
    <3>3. outcome' = [q \in Request |-> IF q \in InFlight(w) THEN "transport" ELSE outcome[q]]
      BY <3>1, <3>2 DEF IInv, TypeOK
    <3>4. "transport" \in Lending!Broken
      BY DEF Lending!Broken
    <3>5. QED
      BY <3>1, <3>3, <3>4, Breaks
  <2>3. QED
    BY <2>1, <2>2
<1>9. ASSUME NEW w \in Worker, NEW alive \in BOOLEAN, ProbeEnds(w, alive)
      PROVE  Lending!LRecover(w) \/ UNCHANGED Lending!lvars
  <2>1. UNCHANGED <<on, outcome>>
    BY <1>9 DEF ProbeEnds, requests
  <2>2. CASE status' = status
    BY <2>1, <2>2 DEF Lending!lvars
  <2>3. CASE status[w] = "crashed" /\ status' = [status EXCEPT ![w] = "ready"]
    <3>1. [v \in Worker |-> TrustOf[status[v]]]' =
            [[v \in Worker |-> TrustOf[status[v]]] EXCEPT ![w] = "free"]
      BY <2>3, TurnsFree DEF IInv
    <3>2. [v \in Worker |-> TrustOf[status[v]]][w] = "out"
      BY <2>3, TrustFacts
    <3>3. QED
      BY <2>1, <3>1, <3>2 DEF Lending!LRecover
  <2>4. QED
    BY <1>9, <2>2, <2>3 DEF ProbeEnds
<1>10. CASE \E r \in Request : \/ Unavailable(r) \/ Submit(r) \/ Answered(r) \/ Cancel(r)
                             \/ TransportFails(r)
  BY <1>3, <1>4, <1>5, <1>6, <1>10 DEF Lending!LNext
<1>11. CASE \E w \in Worker : \/ Crashed(w) \/ Restarted(w)
                                \/ \E alive \in BOOLEAN : ProbeEnds(w, alive)
  BY <1>7, <1>8, <1>9, <1>11 DEF Lending!LNext
<1>12. QED
  BY <1>1, <1>2, <1>10, <1>11 DEF Next

\* Connections, notifications, timers and probes, in any order, lost or late,
\* are steps of a discipline in which a worker is lent to one request, given
\* back by it, and brought back from a failure by a probe alone
\* (_acquireWorker, cleanup, _markWorkerCrashed, _probeWorker).
THEOREM ImplementsLendingHolds == Spec => ImplementsLending
<1>1. Init => Lending!LInit
  BY TrustFacts DEF Init, Lending!LInit
<1>2. IInv /\ [Next]_vars => [Lending!LNext]_(Lending!lvars)
  BY LendingStep
<1>3. QED
  BY <1>1, <1>2, Inductive, PTL DEF Spec, ImplementsLending, Lending!LSpec

=============================================================================
