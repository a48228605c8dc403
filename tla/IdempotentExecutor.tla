------------------------- MODULE IdempotentExecutor -------------------------
(***************************************************************************)
(* What the request registry promises to clients that repeat a requestId,  *)
(* without maps, insertion order, clock, eviction or file.  At most one    *)
(* execution of an id is under way or remembered.  A call starts one only  *)
(* if there is none; otherwise it gets the answer of the one there is, or  *)
(* is refused while it runs.  Everyone who waits for an execution is       *)
(* answered in the step that ends it, in the same way.  Time and a crash   *)
(* may take what is remembered, only a crash what is running.              *)
(***************************************************************************)
CONSTANTS Call, IdOf, None

VARIABLES
  execution,  \* of a call: not started, running, remembered or over
  source,     \* the execution whose outcome a call is given
  answer      \* what a call was answered

evars == <<execution, source, answer>>

Of(c, s) == {d \in Call : IdOf[d] = IdOf[c] /\ execution[d] = s}
Become(c, s) == execution' = [execution EXCEPT ![c] = s]
Get(c, a) == answer[c] = "none" /\ answer' = [answer EXCEPT ![c] = a]

\* Everyone who waits for c gets a, the calls of Left find nobody there.
Told(c, a, Left) ==
  answer' = [d \in Call |-> IF source[d] = c /\ answer[d] = "waiting"
                              THEN IF d \in Left THEN "gone" ELSE a
                              ELSE answer[d]]

EInit ==
  /\ execution = [c \in Call |-> "none"]
  /\ source = [c \in Call |-> None]
  /\ answer = [c \in Call |-> "none"]

EBegin(c) ==
  /\ Of(c, "running") = {} /\ Of(c, "remembered") = {}
  /\ Become(c, "running")
  /\ source' = [source EXCEPT ![c] = c]
  /\ Get(c, "waiting")

EShare(c) ==
  /\ \E d \in Of(c, "running") : source' = [source EXCEPT ![c] = d]
  /\ Get(c, "waiting")
  /\ UNCHANGED execution

EReplay(c) ==
  /\ \E d \in Of(c, "remembered") : source' = [source EXCEPT ![c] = d]
  /\ Get(c, "result")
  /\ UNCHANGED execution

ERefuse(c) ==
  /\ Of(c, "running") # {}
  /\ Get(c, "conflict")
  /\ UNCHANGED <<execution, source>>

ESucceed(c) ==
  /\ execution[c] = "running" /\ Become(c, "remembered")
  /\ Told(c, "result", {})
  /\ UNCHANGED source

\* Of a failure nothing is remembered; the call itself may have left.
EFail(c) ==
  /\ execution[c] = "running" /\ Become(c, "over")
  /\ \E Left \in SUBSET {c} : Told(c, "error", Left)
  /\ UNCHANGED source

EForget(S) ==
  /\ \A c \in S : execution[c] = "remembered"
  /\ execution' = [c \in Call |-> IF c \in S THEN "over" ELSE execution[c]]
  /\ UNCHANGED <<source, answer>>

ECrash ==
  /\ execution' = [c \in Call |-> IF execution[c] = "none" THEN "none" ELSE "over"]
  /\ answer' = [c \in Call |-> IF answer[c] = "waiting" THEN "gone" ELSE answer[c]]
  /\ UNCHANGED source

ENext ==
  \/ \E c \in Call : \/ EBegin(c) \/ EShare(c) \/ EReplay(c) \/ ERefuse(c)
                     \/ ESucceed(c) \/ EFail(c)
  \/ \E S \in SUBSET Call : EForget(S)
  \/ ECrash

ESpec == EInit /\ [][ENext]_evars

=============================================================================
