-------------------------- MODULE RequestRegistry --------------------------
(***************************************************************************)
(* Idempotent requests of the API server: requestRegistry.js, driven by    *)
(* the two inference routes of routes/infer.js.                            *)
(*                                                                         *)
(* A Call is one HTTP request; several may carry one requestId.  The first *)
(* one executes, the others share its promise or replay its cached result. *)
(* The open requests are mirrored to a file by one asynchronous writer at  *)
(* a time, and a new process reads that file once, as its orphans.         *)
(*                                                                         *)
(* Every handler runs to its end on the event loop, and the microtasks     *)
(* that start the execution, settle the promise and answer the callers run *)
(* before the next one, so each is one action.  Writing the temporary file *)
(* and renaming it are one step of the writer: nothing but the rename is   *)
(* visible to a reader.                                                    *)
(***************************************************************************)
EXTENDS Integers, FiniteSets

CONSTANTS
  Call,          \* the HTTP requests
  RequestId,
  IdOf,          \* requestId of a call
  Streams,       \* the calls of /infer/stream; the others are calls of /infer
  None,          \* no call
  Ttl,           \* idempotencyTtlMs, in ticks
  MaxCrashes,    \* bound: crashes of the process
  MaxWriteErrors \* bound: failed writes of the file

ASSUME CallAssumption ==
  /\ IdOf \in [Call -> RequestId]
  /\ Streams \subseteq Call
  /\ None \notin Call

ASSUME BoundAssumption == Ttl \in Nat /\ MaxCrashes \in Nat /\ MaxWriteErrors \in Nat

VARIABLES
  up,         \* the process is alive
  inflight,   \* this.inflight: requestId -> the call that executes
  completed,  \* this.completed: the calls whose results are cached
  rank,       \* their insertion order in that Map
  settled,    \* Map insertions so far
  age,        \* ticks since they finished
  exec,       \* what became of the execution a call started
  owner,      \* the call whose promise a call awaits
  reply,      \* what a call was answered
  writing,    \* this.writeInFlight
  pending,    \* this.writePending
  payload,    \* what the writer is writing
  file,       \* the open calls listed in the in-flight file
  orphans,    \* this.orphans
  stale,      \* the last write to end failed (for properties)
  crashes, writeErrors  \* counted against their bounds

maps == <<inflight, completed, rank, settled, age>>
callers == <<exec, owner, reply>>
writer == <<writing, pending, payload, file, stale, writeErrors>>
process == <<up, orphans, crashes>>
vars == <<maps, callers, writer, process>>

Exec == {"none", "running", "ok", "failed", "lost"}
Reply == {"none", "result", "error", "conflict", "gone"}

TypeOK ==
  /\ up \in BOOLEAN
  /\ inflight \in [RequestId -> Call \cup {None}]
  /\ completed \subseteq Call
  /\ rank \in [Call -> Nat] /\ settled \in Nat
  /\ age \in [Call -> 0..(Ttl + 1)]
  /\ exec \in [Call -> Exec]
  /\ owner \in [Call -> Call \cup {None}]
  /\ reply \in [Call -> Reply]
  /\ writing \in BOOLEAN /\ pending \in BOOLEAN /\ stale \in BOOLEAN
  /\ payload \subseteq Call /\ file \subseteq Call /\ orphans \subseteq Call
  /\ crashes \in 0..MaxCrashes /\ writeErrors \in 0..MaxWriteErrors

\* The first process finds no file; its constructor writes an empty list.
Init ==
  /\ up = TRUE
  /\ inflight = [r \in RequestId |-> None]
  /\ completed = {}
  /\ rank = [c \in Call |-> 0] /\ settled = 0
  /\ age = [c \in Call |-> 0]
  /\ exec = [c \in Call |-> "none"]
  /\ owner = [c \in Call |-> None]
  /\ reply = [c \in Call |-> "none"]
  /\ writing = TRUE /\ pending = FALSE /\ payload = {}
  /\ file = {} /\ orphans = {} /\ stale = FALSE
  /\ crashes = 0 /\ writeErrors = 0

-----------------------------------------------------------------------------
(* Helpers *)

Open == {c \in Call : \E r \in RequestId : inflight[r] = c}

\* Faulty: never evicts.
ExpiredNever == {}

\* _evictCompleted scans in insertion order and stops at the first fresh entry.
Expired == {c \in completed : \A d \in completed : rank[d] <= rank[c] => age[d] > Ttl}

Cached == completed \ Expired

CachedFor(r) == {c \in Cached : IdOf[c] = r}

\* _persist, after `inflight' changed: start a write, or leave it to finish.
Persist ==
  /\ IF writing
       THEN pending' = TRUE /\ UNCHANGED <<writing, payload>>
       ELSE writing' = TRUE /\ pending' = FALSE /\ payload' = Open'
  /\ UNCHANGED <<file, stale, writeErrors>>

Waiting(c) == up /\ exec[c] = "none" /\ owner[c] = None /\ reply[c] = "none"

\* Faulty: answers only the call that executed.
AnswerOwner(c, r, gone) ==
  reply' = [reply EXCEPT ![c] = IF c \in gone THEN "gone" ELSE r]

\* The promise of call c settles: everyone who awaits it is answered, but a
\* closed connection is not.
Answer(c, r, gone) ==
  reply' = [d \in Call |-> IF owner[d] = c /\ reply[d] = "none"
                             THEN IF d \in gone THEN "gone" ELSE r
                             ELSE reply[d]]

-----------------------------------------------------------------------------
(* The routes *)

\* run() looks at the cache first, lookup() of the stream route at the open
\* requests.
Replay(c) ==
  /\ Waiting(c)
  /\ c \in Streams => inflight[IdOf[c]] = None
  /\ completed' = Cached
  /\ \E d \in CachedFor(IdOf[c]) : owner' = [owner EXCEPT ![c] = d]
  /\ reply' = [reply EXCEPT ![c] = "result"]
  /\ UNCHANGED <<inflight, rank, settled, age, exec, writer, process>>

\* /infer of an id that is executing shares its promise.
Join(c) ==
  /\ Waiting(c) /\ c \notin Streams
  /\ CachedFor(IdOf[c]) = {}
  /\ inflight[IdOf[c]] # None
  /\ completed' = Cached
  /\ owner' = [owner EXCEPT ![c] = inflight[IdOf[c]]]
  /\ UNCHANGED <<inflight, rank, settled, age, exec, reply, writer, process>>

\* /infer/stream of an id that is executing: HTTP 409.
Conflict(c) ==
  /\ Waiting(c) /\ c \in Streams
  /\ inflight[IdOf[c]] # None
  /\ completed' = Cached
  /\ reply' = [reply EXCEPT ![c] = "conflict"]
  /\ UNCHANGED <<inflight, rank, settled, age, exec, owner, writer, process>>

\* Faulty: does not look for an open request.
BeginAnyway(c) ==
  /\ Waiting(c)
  /\ CachedFor(IdOf[c]) = {}
  /\ completed' = Cached
  /\ inflight' = [inflight EXCEPT ![IdOf[c]] = c]
  /\ exec' = [exec EXCEPT ![c] = "running"]
  /\ owner' = [owner EXCEPT ![c] = c]
  /\ Persist
  /\ UNCHANGED <<rank, settled, age, reply, process>>

\* The first call of an id, or the first since it failed or expired.
Begin(c) ==
  /\ Waiting(c)
  /\ CachedFor(IdOf[c]) = {}
  /\ inflight[IdOf[c]] = None
  /\ completed' = Cached
  /\ inflight' = [inflight EXCEPT ![IdOf[c]] = c]
  /\ exec' = [exec EXCEPT ![c] = "running"]
  /\ owner' = [owner EXCEPT ![c] = c]
  /\ Persist
  /\ UNCHANGED <<rank, settled, age, reply, process>>

\* snapshot(), behind /health.
Snapshot ==
  /\ up
  /\ completed' = Cached
  /\ UNCHANGED <<inflight, rank, settled, age, callers, writer, process>>

-----------------------------------------------------------------------------
(* The execution settles *)

Succeed(c) ==
  /\ up /\ exec[c] = "running"
  /\ exec' = [exec EXCEPT ![c] = "ok"]
  /\ inflight' = [inflight EXCEPT ![IdOf[c]] = None]
  /\ completed' = completed \cup {c}
  /\ rank' = [rank EXCEPT ![c] = settled + 1]   \* Map.set puts a new key last
  /\ settled' = settled + 1
  /\ age' = [age EXCEPT ![c] = 0]
  /\ Answer(c, "result", {})
  /\ Persist
  /\ UNCHANGED <<owner, process>>

\* Faulty: does not rewrite the file.
ForgetUnwritten(c, gone) ==
  /\ up /\ exec[c] = "running"
  /\ exec' = [exec EXCEPT ![c] = "failed"]
  /\ inflight' = [inflight EXCEPT ![IdOf[c]] = None]
  /\ Answer(c, "error", gone)
  /\ UNCHANGED <<completed, rank, settled, age, owner, process, writer>>

\* A failure is not cached: the id stays retryable.
Forget(c, gone) ==
  /\ up /\ exec[c] = "running"
  /\ exec' = [exec EXCEPT ![c] = "failed"]
  /\ inflight' = [inflight EXCEPT ![IdOf[c]] = None]
  /\ Answer(c, "error", gone)
  /\ Persist
  /\ UNCHANGED <<completed, rank, settled, age, owner, process>>

Fail(c) == Forget(c, {})

\* The client of the executing stream goes away: the pool is told to cancel
\* and rejects the promise, for everyone who shares it.
Disconnect(c) == c \in Streams /\ Forget(c, {c})

Tick ==
  /\ up
  /\ age' = [c \in Call |-> IF c \in completed /\ age[c] <= Ttl THEN age[c] + 1 ELSE age[c]]
  /\ age' # age
  /\ UNCHANGED <<inflight, completed, rank, settled, callers, writer, process>>

-----------------------------------------------------------------------------
(* The file *)

\* finish(): the writer is free, or writes what has changed meanwhile.
Finish ==
  /\ IF pending
       THEN writing' = TRUE /\ payload' = Open
       ELSE writing' = FALSE /\ UNCHANGED payload
  /\ pending' = FALSE

Publish ==
  /\ up /\ writing
  /\ file' = payload
  /\ stale' = FALSE
  /\ Finish
  /\ UNCHANGED <<maps, callers, process, writeErrors>>

\* writeFile or rename failed; nobody is told.
WriteFails ==
  /\ up /\ writing /\ writeErrors < MaxWriteErrors
  /\ writeErrors' = writeErrors + 1
  /\ stale' = TRUE
  /\ Finish
  /\ UNCHANGED <<maps, callers, process, file>>

\* Faulty: writes in place, so that a crash leaves half a file, read as [].
CrashTears ==
  /\ up /\ crashes < MaxCrashes
  /\ up' = FALSE
  /\ crashes' = crashes + 1
  /\ inflight' = [r \in RequestId |-> None]
  /\ completed' = {}
  /\ exec' = [c \in Call |-> IF exec[c] \in {"running", "ok"} THEN "lost" ELSE exec[c]]
  /\ reply' = [c \in Call |-> IF owner[c] # None /\ reply[c] = "none" THEN "gone" ELSE reply[c]]
  /\ file' = IF writing THEN {} ELSE file
  /\ writing' = FALSE /\ pending' = FALSE /\ payload' = {}
  /\ rank' = [c \in Call |-> 0] /\ settled' = 0 /\ age' = [c \in Call |-> 0]
  /\ UNCHANGED <<owner, stale, writeErrors, orphans>>

\* The maps and promises are gone with the process; the file stays, since the
\* rename of a write under way has either happened or not.
Crash ==
  /\ up /\ crashes < MaxCrashes
  /\ up' = FALSE
  /\ crashes' = crashes + 1
  /\ inflight' = [r \in RequestId |-> None]
  /\ completed' = {}
  /\ exec' = [c \in Call |-> IF exec[c] \in {"running", "ok"} THEN "lost" ELSE exec[c]]
  /\ reply' = [c \in Call |-> IF owner[c] # None /\ reply[c] = "none" THEN "gone" ELSE reply[c]]
  /\ writing' = FALSE /\ pending' = FALSE /\ payload' = {}
  /\ rank' = [c \in Call |-> 0] /\ settled' = 0 /\ age' = [c \in Call |-> 0]
  /\ UNCHANGED <<owner, file, stale, writeErrors, orphans>>

\* The constructor reads the file before it writes it.
Restart ==
  /\ ~up
  /\ up' = TRUE
  /\ orphans' = file
  /\ writing' = TRUE /\ pending' = FALSE /\ payload' = {}
  /\ UNCHANGED <<maps, callers, file, stale, writeErrors, crashes>>

-----------------------------------------------------------------------------

Next ==
  \/ Snapshot \/ Tick \/ Publish \/ WriteFails \/ Crash \/ Restart
  \/ \E c \in Call : \/ Replay(c) \/ Join(c) \/ Conflict(c) \/ Begin(c)
                     \/ Succeed(c) \/ Fail(c) \/ Disconnect(c)

Spec == Init /\ [][Next]_vars

\* File operations complete: libuv calls back.  Nothing else is owed.
FairSpec == Spec /\ WF_vars(Publish)

-----------------------------------------------------------------------------
(* Properties *)

\* One id has at most one execution under way, the one run() and lookup()
\* find, and a finished execution leaves no entry that would block its id.
OneExecution ==
  \A c \in Call, r \in RequestId :
    inflight[r] = c <=> exec[c] = "running" /\ IdOf[c] = r

\* No id is in both maps, so run(), which asks the cache first, and lookup(),
\* which asks the open requests first, give one answer; and no id is cached
\* twice.
MapsDisjoint ==
  \A c \in completed :
    /\ exec[c] = "ok" /\ inflight[IdOf[c]] = None
    /\ \A d \in completed : IdOf[d] = IdOf[c] => d = c

\* An id is not executed again while an execution of it is under way or its
\* result is within the time to live: the point of a retry with the same id.
RunsOnce ==
  [][\A c, d \in Call :
       exec[c] = "none" /\ exec'[c] = "running" /\ IdOf[d] = IdOf[c]
       => exec[d] # "running" /\ ~(exec[d] = "ok" /\ age[d] <= Ttl)]_vars

\* What a call shares is an execution of its own id that is still open or
\* ended well within the time to live: never a failure that was over when
\* the call came, never an expired answer.
SharesOnlyLive ==
  [][\A c, d \in Call :
       owner[c] = None /\ owner'[c] = d /\ c # d
       => /\ IdOf[c] = IdOf[d]
          /\ exec[d] = "running" \/ (exec[d] = "ok" /\ age[d] <= Ttl)]_vars

\* No caller is left waiting on a promise that has settled.
SettledIsAnswered ==
  \A c \in Call : owner[c] # None /\ reply[c] = "none" => exec[owner[c]] = "running"

\* When the writer rests and its last write succeeded, the file lists exactly
\* the open requests: no change made during a write is forgotten.
FileSettles == up /\ ~writing /\ ~stale => file = Open

\* A request that reached the file stays there until it is settled, crash or
\* not: what the file lists is never replaced by something older or torn.
StaysOnFile ==
  [][\A c \in file : exec[c] = "running" => c \in file']_vars

\* The file catches up with every open and every settled request, unless a
\* write fails or the process dies first.
FileCatchesUp ==
  \A c \in Call :
    /\ c \in Open ~> ~up \/ stale \/ c \in file \/ c \notin Open
    /\ up /\ c \in file \ Open ~> ~up \/ stale \/ c \notin file

\* The registry implements an idempotent executor: the maps, their insertion
\* order, the ages, the evicting scan and the file refine executions that run,
\* are remembered or are over (run, lookup, _evictCompleted).
ExecutionOf(c) ==
  IF exec[c] = "ok" /\ age[c] <= Ttl THEN "remembered"
  ELSE IF exec[c] \in {"none", "running"} THEN exec[c] ELSE "over"

AnswerOf(c) == IF reply[c] = "none" /\ owner[c] # None THEN "waiting" ELSE reply[c]

Executor == INSTANCE IdempotentExecutor
              WITH execution <- [c \in Call |-> ExecutionOf(c)],
                   source <- owner,
                   answer <- [c \in Call |-> AnswerOf(c)]

ImplementsIdempotence == Executor!ESpec

=============================================================================
