--------------------------- MODULE InferenceWorker --------------------------
(* One inference worker process: worker.cpp, backendRouter.cpp and the       *)
(* engine and backends they drive, from its start to its exit.  It serves    *)
(* one request at a time; devices, signals and time are the environment.     *)
EXTENDS DeviceLadder

CONSTANTS
  Removable,   \* the names of the devices that come and go
  Reexec,      \* EDGE_DEVICE_FALLBACK_MODE is not "reload"
  SimTier,     \* the tier EDGE_SIMULATE_DEVICE_FAULT names, "" for any
  SimFault,    \* and the fault it asks for
  MidStream    \* a backend may fault after it has sent tokens: the interface
               \* lets it, the engine and the remote tier never do

ASSUME WorkerAssumption ==
  /\ MidStream \in BOOLEAN /\ Removable \subseteq STRING \ {"cpu"} /\ Reexec \in BOOLEAN /\ SimTier \in STRING
  /\ SimFault \in {"removed", "unsupported", "runtime"}

VARIABLES
  pc,        \* where the serving thread is
  loaded,    \* the engine has a model and a context
  gpuOk,     \* isUsingGPU()
  touched,   \* deviceInitialized_: the process holds a device context for good
  armed,     \* a simulated fault is asked for and has not fired
  running,   \* running_
  reexec,    \* exitCode_ is kReassignCpu
  stream,    \* the request asks for tokens
  tries,     \* iterations of route's loop
  prev,      \* route's tier, the last that ran; the one a climb starts from or fails on
  heard,     \* the tiers whose tokens the client of a stream was sent, in order
  frame      \* the tiers whose text is in the result of a stream

engine == <<loaded, gpuOk, touched>>
request == <<stream, tries, prev, heard, frame>>
process == <<armed, running, reexec>>
vars == <<ladder, present, seen, pc, engine, request, process>>

Ended == {"exited", "crashed"}
Llama == {"cpu", "cuda", "rocm", "vulkan", "metal", "accelerate"}

Init ==
  /\ LadderInit
  /\ present \in {P \in SUBSET {Ladder[t] : t \in Tier} :
                    \A t \in Tier : Ladder[t] = "cpu" => "cpu" \in P}
  /\ pc = "boot"
  /\ loaded = FALSE /\ gpuOk = TRUE /\ touched = FALSE
  /\ armed \in BOOLEAN
  /\ running = TRUE /\ reexec = FALSE
  /\ stream = FALSE /\ tries = 0 /\ prev = 0
  /\ heard = <<>> /\ frame = {}

-----------------------------------------------------------------------------
(* The engine.  A load that asks for the gpu may settle for the cpu, and a   *)
(* failed one leaves no model behind.                                        *)
LoadModel(forceCpu) ==
  /\ loaded' \in BOOLEAN
  /\ gpuOk' \in IF forceCpu THEN {FALSE} ELSE BOOLEAN
  /\ touched' = (touched \/ ~forceCpu)

\* Faulty: reloads as the process started.
ReloadOnGpu == LoadModel(FALSE)

ReloadOn == LoadModel(Ladder[active] = "cpu")

-----------------------------------------------------------------------------
(* init: a tier is selected, the engine loaded for it, and a gpu load that   *)
(* settled for the cpu is a fault.  Registering backends drops the cache.    *)
Select ==
  /\ pc = "boot" /\ SelectFirst
  /\ pc' = IF active' = 0 THEN "exited" ELSE "load"
  /\ UNCHANGED <<present, seen, engine, request, process>>

StartEngine ==
  /\ pc = "load" /\ LoadModel(Ladder[active] # "cuda")
  /\ pc' = IF loaded' THEN "idle" ELSE "exited"
  /\ IF loaded' /\ Ladder[active] = "cuda" /\ ~gpuOk'
       THEN Bench("unavailable")
       ELSE UNCHANGED <<active, baseline, reason, bench, seen>>
  /\ cache' = NoProbes
  /\ UNCHANGED <<present, request, process>>

-----------------------------------------------------------------------------
(* handleClient and route: a request first tries to climb.                   *)
Accept ==
  /\ pc = "idle" /\ running
  /\ stream' \in BOOLEAN /\ tries' = 0 /\ prev' = active
  /\ heard' = <<>> /\ frame' = {}
  /\ RecoverEligibleTier
  /\ pc' = IF active' = active THEN "execute" ELSE "recover"
  /\ UNCHANGED <<present, seen, engine, process>>

\* The hook on the way up: the engine is reloaded, and that is all.
Recovered ==
  /\ pc = "recover" /\ ReloadOn /\ loaded'
  /\ cache' = Probed(cache, {active})
  /\ pc' = "execute"
  /\ UNCHANGED <<active, baseline, reason, bench, present, seen, request, process>>

RecoveryFails ==
  /\ pc = "recover" /\ ReloadOn /\ ~loaded'
  /\ ReportFault("runtime")
  /\ prev' = active
  /\ pc' = IF active' = active THEN "execute" ELSE "stepdown"
  /\ UNCHANGED <<present, stream, tries, heard, frame, process>>

\* The hook on the way down: a process that holds a device context and is to
\* serve on the cpu only answers its request and exits.
StaysResident == Ladder[prev] # "cpu" /\ Ladder[active] = "cpu" /\ touched

\* Faulty: the exit code is set and nothing stops the accept loop.
ChangeTierQuietly ==
  /\ ReloadOn
  /\ cache' = IF loaded' THEN Probed(cache, {active}) ELSE cache
  /\ reexec' = (reexec \/ (loaded' /\ StaysResident /\ Reexec))
  /\ UNCHANGED <<active, baseline, reason, bench, present, seen, armed, running, stream, prev, heard>>

ChangeTier ==
  /\ ReloadOn
  /\ cache' = IF loaded' THEN Probed(cache, {active}) ELSE cache
  /\ IF loaded' /\ StaysResident /\ Reexec
       THEN reexec' = TRUE /\ running' = FALSE
       ELSE UNCHANGED <<reexec, running>>
  /\ UNCHANGED <<active, baseline, reason, bench, present, seen, armed, stream, prev, heard>>

\* What the hook returns is not looked at here.
StepDown == pc = "stepdown" /\ ChangeTier /\ pc' = "execute" /\ UNCHANGED <<tries, frame>>

Attempts == Len(Ladder) + 1
Fall ==
  /\ pc = "fall" /\ ChangeTier
  /\ tries' = tries + 1
  /\ frame' = IF loaded' THEN {} ELSE frame
  /\ pc' = IF loaded' /\ tries' < Attempts THEN "execute" ELSE "idle"

-----------------------------------------------------------------------------
(* One execution on the active tier.                                         *)
Injects == armed /\ Ladder[active] \in Llama /\ SimTier \in {"", Ladder[active]}
Runs == IF Ladder[active] \in Llama THEN loaded /\ ~Injects
                                    ELSE Ladder[active] = "remote" /\ Probe(active)

\* A streamed generation of the engine records no fault of its own.
Faults ==
  IF Injects THEN {SimFault}
  ELSE IF Ladder[active] \in Llama
    THEN IF (stream /\ ~MidStream) \/ ~loaded THEN {} ELSE {"runtime"}
    ELSE IF Runs THEN {"runtime", "unsupported", "unavailable"} ELSE {"unavailable"}

\* Faulty: the text is added to what the tiers before have said.
SaysMore(text) ==
  /\ heard' = IF text THEN Append(heard, active) ELSE heard
  /\ frame' = {heard'[i] : i \in DOMAIN heard'}

\* What an execution generates is sent as it comes, and is its text.
Says(text) ==
  /\ heard' = IF text THEN Append(heard, active) ELSE heard
  /\ frame' = IF text THEN {active} ELSE {}

Answer ==
  /\ pc = "execute" /\ Runs
  /\ \E text \in {FALSE, stream} : Says(text)
  /\ prev' = active
  /\ pc' = "idle"
  /\ UNCHANGED <<ladder, present, seen, engine, stream, tries, process>>

Fault ==
  /\ pc = "execute"
  /\ \E fault \in Faults : ReportFault(fault)
  /\ \E text \in {FALSE, MidStream /\ stream /\ Runs} : Says(text)
  /\ armed' = (armed /\ ~Injects)
  /\ prev' = active
  /\ pc' = IF active' = active THEN "idle" ELSE "fall"
  /\ UNCHANGED <<present, engine, stream, tries, running, reexec>>

\* The engine works on a model that a failed reload did not leave.
Crash ==
  /\ pc = "execute" /\ Ladder[active] \in Llama /\ ~loaded /\ ~Injects
  /\ pc' = "crashed"
  /\ UNCHANGED <<ladder, present, seen, engine, request, process>>

-----------------------------------------------------------------------------
(* A stop lets the request in hand end; the accept loop then returns.        *)
Terminate ==
  /\ pc \notin Ended \cup {"boot", "load"} /\ running
  /\ running' = FALSE
  /\ UNCHANGED <<ladder, present, seen, pc, engine, request, armed, reexec>>

Leave ==
  /\ pc = "idle" /\ ~running
  /\ pc' = "exited"
  /\ UNCHANGED <<ladder, present, seen, engine, request, process>>

Environment ==
  /\ pc \notin Ended
  /\ Tick \/ \E name \in Removable : Replug(name)
  /\ UNCHANGED <<pc, engine, request, process>>

Work == \/ Select \/ StartEngine
        \/ Recovered \/ RecoveryFails \/ StepDown \/ Fall
        \/ Answer \/ Fault \/ Crash \/ Leave
Next == Accept \/ Work \/ Terminate \/ Environment
Spec == Init /\ [][Next]_vars
FairSpec == Spec /\ WF_vars(Work)

-----------------------------------------------------------------------------
\* Every variable has its type.
TypeOK ==
  /\ LadderTypeOK
  /\ present \subseteq STRING
  /\ pc \in {"boot", "load", "idle", "recover", "stepdown", "fall", "execute"} \cup Ended
  /\ pc \notin {"boot", "exited"} => active \in Tier /\ baseline \in Tier
  /\ pc \in {"fall", "stepdown"} => prev \in Tier
  /\ loaded \in BOOLEAN /\ gpuOk \in BOOLEAN /\ touched \in BOOLEAN
  /\ armed \in BOOLEAN /\ running \in BOOLEAN /\ reexec \in BOOLEAN
  /\ stream \in BOOLEAN /\ tries \in 0..Attempts /\ prev \in 0..Len(Ladder)
  /\ heard \in Seq(Tier) /\ frame \subseteq Tier

\* degraded() compares with the first tier selected and degradedReason says
\* why: no tier above that one is ever active, not even a device that appears
\* later, and a worker that is back on it gives no reason.
HonestlyDegraded ==
  /\ active >= baseline
  /\ reason # 0 => active > baseline

\* Whatever faults, quarantines that end meanwhile and devices that come and
\* go do, a request never uses up route's attempts: the message "ladder did
\* not settle" is never reached, each fallback of a request being to a lower
\* tier.
Settles == pc \in {"execute", "fall"} => tries < Len(Ladder)

\* A worker that serves on the cpu tier has no layer of the model on a gpu,
\* whichever way it came there: the start, a fallback or a climb from remote.
CpuMeansCpu ==
  (pc \in {"idle", "execute"} /\ loaded /\ Ladder[active] = "cpu") => ~gpuOk

\* What docs/13-device-fallback.md:158 says of a stream whose tier faults after
\* tokens: they stay sent, each further tier that is heard is a lower one, and
\* the result has the text of the tier that ran last, never two texts, also
\* when the engine then fails to reload. So the result agrees with the tokens
\* that were sent last, unless the tier that ran last said nothing: then it is
\* empty, and contradicts them (line 189 says that it never does).
LastHeard == heard[Len(heard)]
FrameOfTheLast ==
  pc = "idle" =>
    /\ \A i, j \in 1..Len(heard) : i < j => heard[i] < heard[j]
    /\ frame # {} => heard # <<>> /\ frame = {LastHeard}
    /\ frame = {} /\ heard # <<>> => LastHeard < prev

\* The result of a stream is what its client was sent, as line 189 has it.
ResultAgrees == pc = "idle" => frame = {heard[i] : i \in 1..Len(heard)}

\* A worker climbs only to a tier that was found since its last fault: an
\* answer cached before the fault is no health check.
ClimbsToTheSeen == [][active' < active => active' \in seen]_vars

\* A worker that is to be started again as a cpu worker exits, however many
\* requests come.
DemotionLeaves == reexec ~> pc \in Ended

\* What docs/13-device-fallback.md says of a climb: a recovered tier that does
\* not come up is faulted again, so a worker that executes on cuda and says so
\* has the model on the gpu.
RecoveredIsUp ==
  (pc = "execute" /\ loaded /\ Ladder[active] = "cuda") => gpuOk

=============================================================================
