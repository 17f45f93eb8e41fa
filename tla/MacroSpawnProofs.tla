-------------------------- MODULE MacroSpawnProofs --------------------------
(***************************************************************************)
(* Proofs about MacroSpawn, for every number of spawns, every capacity of *)
(* the event bus and every set of guest error renderings:                 *)
(*   - the type invariant SpawnTypeOK;                                    *)
(*   - SpawnOkMeansStarted: spawn returns Ok only for a PID whose Started  *)
(*     event is on the bus and whose isolate handle is in the table;      *)
(*   - KillOnlyByAbort, under the hypothesis that no guest error renders  *)
(*     as the termination string (the run spawn_sentinel shows that the   *)
(*     hypothesis is needed).                                             *)
(***************************************************************************)
EXTENDS MacroSpawn, TLAPS

-----------------------------------------------------------------------------
(* Lemmas on the bus.  Every supervisor step appends one event to it.      *)

(* An event that a run of guest code classifies has a status of Status. *)
LEMMA ClassifiedStatus ==
  ASSUME NEW p \in Pids, NEW r \in RunResults(p), r # "ok"
  PROVE  ClassifyError(r) \in Status
BY DEF RunResults, ClassifyError, Status

(* The Started events on the bus after one more event is appended. *)
LEMMA StartedAfterAppend ==
  ASSUME NEW s \in Seq(Event), NEW e \in Event, NEW q
  PROVE  (\E i \in 1 .. Len(Append(s, e)) : Append(s, e)[i] = Started(q))
           <=> (\E i \in 1 .. Len(s) : s[i] = Started(q)) \/ e = Started(q)
<1>1. ASSUME NEW i \in 1 .. Len(Append(s, e)), Append(s, e)[i] = Started(q),
             e # Started(q)
      PROVE  \E j \in 1 .. Len(s) : s[j] = Started(q)
  BY <1>1
<1>2. ASSUME NEW i \in 1 .. Len(s), s[i] = Started(q)
      PROVE  \E j \in 1 .. Len(Append(s, e)) : Append(s, e)[j] = Started(q)
  BY <1>2
<1>3. ASSUME e = Started(q)
      PROVE  \E j \in 1 .. Len(Append(s, e)) : Append(s, e)[j] = Started(q)
  BY <1>3
<1>. QED  BY <1>1, <1>2, <1>3

(* A supervisor step that moves p to a phase and appends one event keeps
   the type invariant: the cursors stay below the longer bus. *)
LEMMA SupervisorSendTyped ==
  ASSUME SpawnTypeOK, NEW p \in Pids, NEW ph \in Phases, NEW e \in Event,
         phase' = [phase EXCEPT ![p] = ph],
         bus' = Append(bus, e),
         UNCHANGED <<nextPid, hang, table, terminated, sw, scur>>
  PROVE  SpawnTypeOK'
<1>1. bus' \in Seq(Event) /\ Len(bus') = Len(bus) + 1
  BY DEF SpawnTypeOK
<1>2. scur' \in [Pids -> 0 .. Len(bus')]
  BY <1>1 DEF SpawnTypeOK
<1>3. phase' \in [Pids -> Phases]
  BY DEF SpawnTypeOK
<1>. QED  BY <1>1, <1>2, <1>3 DEF SpawnTypeOK

-----------------------------------------------------------------------------
(* The type invariant.  The bus only grows, so every cursor stays in range;
   the table only grows, so terminated stays inside it. *)
LEMMA SpawnTypeInit == SpawnInit => SpawnTypeOK
BY MaxSpawnAssumption DEF SpawnInit, SpawnTypeOK, Pids, Phases, SpawnStates

LEMMA SpawnTypeStep == SpawnTypeOK /\ [SpawnNext]_spawnVars => SpawnTypeOK'
  <2> SUFFICES ASSUME SpawnTypeOK, [SpawnNext]_spawnVars PROVE SpawnTypeOK'
    OBVIOUS
  <2> USE DEF SpawnTypeOK
  <2>1. CASE SpawnBegin
    <3>1. nextPid \in Pids /\ nextPid' \in 0 .. MaxSpawn
      BY <2>1, MaxSpawnAssumption DEF SpawnBegin, Pids
    <3>2. PICK cwdOk \in SetupOutcomes, h \in BOOLEAN :
                IF cwdOk
                  THEN /\ phase' = [phase EXCEPT ![nextPid] = "Starting"]
                       /\ sw' = [sw EXCEPT ![nextPid] = "Spawned"]
                       /\ hang' = [hang EXCEPT ![nextPid] = h]
                  ELSE /\ sw' = [sw EXCEPT ![nextPid] = "Failed"]
                       /\ UNCHANGED <<phase, hang>>
      BY <2>1 DEF SpawnBegin
    <3>3. CASE cwdOk
      BY <2>1, <3>1, <3>2, <3>3 DEF SpawnBegin, Phases, SpawnStates
    <3>4. CASE ~cwdOk
      BY <2>1, <3>1, <3>2, <3>4 DEF SpawnBegin, SpawnStates
    <3>. QED  BY <3>3, <3>4
  <2>2. ASSUME NEW p \in Pids, SpawnSubscribe(p) PROVE SpawnTypeOK'
    BY <2>2 DEF SpawnSubscribe, SpawnStates
  <2>3. ASSUME NEW p \in Pids, SpawnRecv(p) PROVE SpawnTypeOK'
    <3>1. UNCHANGED <<nextPid, phase, hang, table, terminated, bus>> /\ scur[p] < Len(bus)
      BY <2>3 DEF SpawnRecv
    <3>2. CASE Lagged(scur[p])
      <4>1. sw' = [sw EXCEPT ![p] = "Failed"] /\ scur' = [scur EXCEPT ![p] = 0]
        BY <2>3, <3>2 DEF SpawnRecv
      <4>. QED  BY <3>1, <4>1 DEF SpawnStates
    <3>3. CASE ~Lagged(scur[p]) /\ bus[scur[p] + 1] = Started(p)
      <4>1. sw' = [sw EXCEPT ![p] = "Ok"] /\ scur' = [scur EXCEPT ![p] = 0]
        BY <2>3, <3>3 DEF SpawnRecv
      <4>. QED  BY <3>1, <4>1 DEF SpawnStates
    <3>4. CASE ~Lagged(scur[p]) /\ bus[scur[p] + 1] # Started(p)
      <4>1. scur' = [scur EXCEPT ![p] = scur[p] + 1] /\ sw' = sw
        BY <2>3, <3>4 DEF SpawnRecv
      <4>. QED  BY <3>1, <4>1
    <3>. QED  BY <3>2, <3>3, <3>4
  <2>4. ASSUME NEW p \in Pids, SpawnTimeout(p) PROVE SpawnTypeOK'
    BY <2>4 DEF SpawnTimeout, SpawnStates
  <2>5. ASSUME NEW p \in Pids, Construct(p) PROVE SpawnTypeOK'
    BY <2>5 DEF Construct, SetupOutcomes, Phases
  <2>6. ASSUME NEW p \in Pids, Resolve(p) PROVE SpawnTypeOK'
    <3>1. PICK ok \in SetupOutcomes :
                IF ok THEN /\ phase' = [phase EXCEPT ![p] = "Main"]
                           /\ Send(Started(p))
                      ELSE /\ phase' = [phase EXCEPT ![p] = "TaskDone"]
                           /\ UNCHANGED bus
      BY <2>6 DEF Resolve
    <3>2. CASE ok
      <4>1. Started(p) \in Event
        BY DEF Event
      <4>. QED  BY <2>6, <3>1, <3>2, <4>1, SupervisorSendTyped DEF Resolve, Phases, Send
    <3>3. CASE ~ok
      BY <2>6, <3>1, <3>3 DEF Resolve, Phases
    <3>. QED  BY <3>2, <3>3
  <2>7. ASSUME NEW p \in Pids, ExecMain(p) PROVE SpawnTypeOK'
    <3>1. PICK r \in RunResults(p) :
                IF r = "ok"
                  THEN /\ phase' = [phase EXCEPT ![p] = "Loop"]
                       /\ UNCHANGED bus
                  ELSE /\ phase' = [phase EXCEPT ![p] = "TaskDone"]
                       /\ Send(Stopped(p, ClassifyError(r)))
      BY <2>7 DEF ExecMain
    <3>2. CASE r = "ok"
      BY <2>7, <3>1, <3>2 DEF ExecMain, Phases
    <3>3. CASE r # "ok"
      <4>1. Stopped(p, ClassifyError(r)) \in Event
        BY <3>3, ClassifiedStatus DEF Event
      <4>2. phase' = [phase EXCEPT ![p] = "TaskDone"]
            /\ bus' = Append(bus, Stopped(p, ClassifyError(r)))
        BY <3>1, <3>3 DEF Send
      <4>. QED  BY <2>7, <4>1, <4>2, SupervisorSendTyped DEF ExecMain, Phases
    <3>. QED  BY <3>2, <3>3
  <2>8. ASSUME NEW p \in Pids, RunEventLoop(p) PROVE SpawnTypeOK'
    <3>1. PICK r \in RunResults(p) :
                IF r = "ok" THEN UNCHANGED bus
                            ELSE Send(Stopped(p, ClassifyError(r)))
      BY <2>8 DEF RunEventLoop
    <3>2. CASE r = "ok"
      BY <2>8, <3>1, <3>2 DEF RunEventLoop, Phases
    <3>3. CASE r # "ok"
      <4>1. Stopped(p, ClassifyError(r)) \in Event
        BY <3>3, ClassifiedStatus DEF Event
      <4>2. bus' = Append(bus, Stopped(p, ClassifyError(r)))
        BY <3>1, <3>3 DEF Send
      <4>. QED  BY <2>8, <4>1, <4>2, SupervisorSendTyped DEF RunEventLoop, Phases
    <3>. QED  BY <3>2, <3>3
  <2>9. ASSUME NEW p \in Pids, SendSuccess(p) PROVE SpawnTypeOK'
    <3>1. Stopped(p, Success) \in Event
      BY DEF Event, Status
    <3>. QED  BY <2>9, <3>1, SupervisorSendTyped DEF SendSuccess, Phases, Send
  <2>10. ASSUME NEW p \in Pids, ThreadExit(p) PROVE SpawnTypeOK'
    <3>1. Stopped(p, Error(PanickedMsg)) \in Event
      BY DEF Event, Status
    <3>. QED  BY <2>10, <3>1, SupervisorSendTyped DEF ThreadExit, Phases, Send
  <2>11. ASSUME NEW p \in Pids, AbortMacro(p) PROVE SpawnTypeOK'
    BY <2>11 DEF AbortMacro
  <2>12. CASE UNCHANGED spawnVars
    BY <2>12 DEF spawnVars
  <2>. QED
    BY <2>1, <2>2, <2>3, <2>4, <2>5, <2>6, <2>7, <2>8, <2>9, <2>10, <2>11, <2>12
       DEF SpawnNext, Supervisor

THEOREM SpawnTypeCorrect == SpawnSpec => []SpawnTypeOK
BY SpawnTypeInit, SpawnTypeStep, PTL DEF SpawnSpec


-----------------------------------------------------------------------------
(* The strengthening of SpawnOkMeansStarted that is inductive: a supervisor
   at the resolution of its main module has its handle in the table
   (Construct inserts it first), so every Started on the bus belongs to a
   PID in the table, and spawn's Ok was read off a Started on the bus. *)
OkCore ==
  \A q \in Pids :
    /\ phase[q] = "Resolving" => q \in table
    /\ StartedOnBus(q) => q \in table
    /\ sw[q] = "Ok" => StartedOnBus(q)

OkInv == SpawnTypeOK /\ OkCore

(* OkInv is kept by a supervisor step that appends a Stopped event and
   leaves p in a phase other than "Resolving". *)
LEMMA StoppedKeepsOkCore ==
  ASSUME OkInv, NEW p \in Pids, NEW ph \in Phases \ {"Resolving"},
         NEW e \in Event, e.kind = "Stopped",
         phase' = [phase EXCEPT ![p] = ph],
         bus' = Append(bus, e),
         UNCHANGED <<nextPid, hang, table, terminated, sw, scur>>
  PROVE  OkCore'
<1>1. \A q \in Pids : e # Started(q)
  BY DEF Started
<1>2. \A q \in Pids : StartedOnBus(q)' <=> StartedOnBus(q)
  BY <1>1, StartedAfterAppend DEF OkInv, SpawnTypeOK, StartedOnBus
<1>3. \A q \in Pids : phase'[q] = "Resolving" => phase[q] = "Resolving"
  BY DEF OkInv, SpawnTypeOK
<1>. QED  BY <1>2, <1>3 DEF OkInv, OkCore

(* spawn returns Ok only for a started PID with a handle in the table. *)
THEOREM SpawnOkCorrect == SpawnSpec => []SpawnOkMeansStarted
<1>1. SpawnInit => OkInv
  BY SpawnTypeInit DEF SpawnInit, OkInv, SpawnTypeOK, OkCore, StartedOnBus, Pids, Phases, SpawnStates
<1>2. OkInv /\ [SpawnNext]_spawnVars => OkInv'
  <2> SUFFICES ASSUME OkInv, [SpawnNext]_spawnVars PROVE OkInv'
    OBVIOUS
  <2>0. SpawnTypeOK'
    BY SpawnTypeStep DEF OkInv
  <2> SUFFICES OkCore'
    BY <2>0 DEF OkInv
  <2>1. CASE SpawnBegin
    BY <2>1 DEF SpawnBegin, OkInv, SpawnTypeOK, OkCore, StartedOnBus
  <2>2. ASSUME NEW p \in Pids, SpawnSubscribe(p) PROVE OkCore'
    BY <2>2 DEF SpawnSubscribe, OkInv, SpawnTypeOK, OkCore, StartedOnBus
  <2>3. ASSUME NEW p \in Pids, SpawnRecv(p) PROVE OkCore'
    <3>1. sw'[p] = "Ok" => bus[scur[p] + 1] = Started(p) /\ scur[p] + 1 \in 1 .. Len(bus)
      BY <2>3 DEF SpawnRecv, OkInv, SpawnTypeOK
    <3>2. sw'[p] = "Ok" => StartedOnBus(p)
      BY <3>1 DEF StartedOnBus
    <3>. QED  BY <2>3, <3>2 DEF SpawnRecv, OkInv, SpawnTypeOK, OkCore, StartedOnBus
  <2>4. ASSUME NEW p \in Pids, SpawnTimeout(p) PROVE OkCore'
    BY <2>4 DEF SpawnTimeout, OkInv, SpawnTypeOK, OkCore, StartedOnBus
  <2>5. ASSUME NEW p \in Pids, Construct(p) PROVE OkCore'
    BY <2>5 DEF Construct, OkInv, SpawnTypeOK, OkCore, StartedOnBus
  <2>6. ASSUME NEW p \in Pids, Resolve(p) PROVE OkCore'
    <3>1. PICK ok \in SetupOutcomes :
                IF ok THEN /\ phase' = [phase EXCEPT ![p] = "Main"]
                           /\ Send(Started(p))
                      ELSE /\ phase' = [phase EXCEPT ![p] = "TaskDone"]
                           /\ UNCHANGED bus
      BY <2>6 DEF Resolve
    <3>2. p \in table /\ UNCHANGED <<table, sw>>
      BY <2>6 DEF Resolve, OkInv, OkCore
    <3>3. \A q \in Pids : phase'[q] = "Resolving" => phase[q] = "Resolving"
      BY <3>1 DEF OkInv, SpawnTypeOK
    <3>4. CASE ok
      <4>0. bus' = Append(bus, Started(p)) /\ Started(p) \in Event /\ bus \in Seq(Event)
        BY <3>1, <3>4 DEF Send, Event, OkInv, SpawnTypeOK
      <4>1. \A q \in Pids : StartedOnBus(q)' <=> StartedOnBus(q) \/ Started(p) = Started(q)
        <5> SUFFICES ASSUME NEW q \in Pids
                     PROVE  StartedOnBus(q)' <=> StartedOnBus(q) \/ Started(p) = Started(q)
          OBVIOUS
        <5>. QED  BY <4>0, StartedAfterAppend DEF StartedOnBus
      <4>2. \A q \in Pids : Started(p) = Started(q) => q = p
        BY DEF Started
      <4>. QED  BY <3>2, <3>3, <4>1, <4>2 DEF OkInv, OkCore
    <3>5. CASE ~ok
      BY <3>1, <3>2, <3>3, <3>5 DEF OkInv, OkCore, StartedOnBus
    <3>. QED  BY <3>4, <3>5
  <2>7. ASSUME NEW p \in Pids, ExecMain(p) PROVE OkCore'
    <3>1. PICK r \in RunResults(p) :
                IF r = "ok"
                  THEN /\ phase' = [phase EXCEPT ![p] = "Loop"]
                       /\ UNCHANGED bus
                  ELSE /\ phase' = [phase EXCEPT ![p] = "TaskDone"]
                       /\ Send(Stopped(p, ClassifyError(r)))
      BY <2>7 DEF ExecMain
    <3>2. CASE r = "ok"
      BY <2>7, <3>1, <3>2 DEF ExecMain, OkInv, SpawnTypeOK, OkCore, StartedOnBus
    <3>3. CASE r # "ok"
      <4>1. Stopped(p, ClassifyError(r)) \in Event
        BY <3>3, ClassifiedStatus DEF Event
      <4>. QED  BY <2>7, <3>1, <3>3, <4>1, StoppedKeepsOkCore DEF ExecMain, Phases, Send, Stopped
    <3>. QED  BY <3>2, <3>3
  <2>8. ASSUME NEW p \in Pids, RunEventLoop(p) PROVE OkCore'
    <3>1. PICK r \in RunResults(p) :
                IF r = "ok" THEN UNCHANGED bus
                            ELSE Send(Stopped(p, ClassifyError(r)))
      BY <2>8 DEF RunEventLoop
    <3>2. CASE r = "ok"
      BY <2>8, <3>1, <3>2 DEF RunEventLoop, OkInv, SpawnTypeOK, OkCore, StartedOnBus
    <3>3. CASE r # "ok"
      <4>1. Stopped(p, ClassifyError(r)) \in Event
        BY <3>3, ClassifiedStatus DEF Event
      <4>. QED  BY <2>8, <3>1, <3>3, <4>1, StoppedKeepsOkCore DEF RunEventLoop, Phases, Send, Stopped
    <3>. QED  BY <3>2, <3>3
  <2>9. ASSUME NEW p \in Pids, SendSuccess(p) PROVE OkCore'
    <3>1. Stopped(p, Success) \in Event
      BY DEF Event, Status
    <3>. QED  BY <2>9, <3>1, StoppedKeepsOkCore DEF SendSuccess, Phases, Send, Stopped
  <2>10. ASSUME NEW p \in Pids, ThreadExit(p) PROVE OkCore'
    <3>1. Stopped(p, Error(PanickedMsg)) \in Event
      BY DEF Event, Status
    <3>. QED  BY <2>10, <3>1, StoppedKeepsOkCore DEF ThreadExit, Phases, Send, Stopped
  <2>11. ASSUME NEW p \in Pids, AbortMacro(p) PROVE OkCore'
    BY <2>11 DEF AbortMacro, OkInv, OkCore, StartedOnBus
  <2>12. CASE UNCHANGED spawnVars
    BY <2>12 DEF spawnVars, OkInv, OkCore, StartedOnBus
  <2>. QED
    BY <2>1, <2>2, <2>3, <2>4, <2>5, <2>6, <2>7, <2>8, <2>9, <2>10, <2>11, <2>12
       DEF SpawnNext, Supervisor
<1>3. OkInv => SpawnOkMeansStarted
  BY DEF OkInv, OkCore, SpawnOkMeansStarted
<1>. QED  BY <1>1, <1>2, <1>3, PTL DEF SpawnSpec


-----------------------------------------------------------------------------
(* Appending an event that is not a Killed Stopped of a PID outside
   terminated keeps KillOnlyByAbort. *)
LEMMA AppendKeepsKillOnlyByAbort ==
  ASSUME SpawnTypeOK, KillOnlyByAbort, NEW e \in Event,
         (e.kind = "Stopped" /\ e.status = Killed) => e.pid \in terminated,
         bus' = Append(bus, e), terminated' = terminated
  PROVE  KillOnlyByAbort'
BY DEF SpawnTypeOK, KillOnlyByAbort

(* A run of guest code ends with the termination string only on a
   terminated isolate, when no guest error renders as that string. *)
LEMMA KilledOnlyIfTerminated ==
  ASSUME TerminatedMsg \notin GuestErrors,
         NEW p \in Pids, NEW r \in RunResults(p), r # "ok",
         ClassifyError(r) = Killed
  PROVE  p \in terminated
BY DEF RunResults, ClassifyError, Killed, Error

(* With no guest error rendered as "Uncaught Error: execution terminated",
   the supervisor publishes Stopped(Killed) only for a PID that
   abort_macro terminated. *)
THEOREM KillOnlyByAbortCorrect ==
  ASSUME TerminatedMsg \notin GuestErrors
  PROVE  SpawnSpec => []KillOnlyByAbort
<1> DEFINE KInv == SpawnTypeOK /\ KillOnlyByAbort
<1>1. SpawnInit => KInv
  BY SpawnTypeInit DEF SpawnInit, KillOnlyByAbort
<1>2. KInv /\ [SpawnNext]_spawnVars => KInv'
  <2> SUFFICES ASSUME KInv, [SpawnNext]_spawnVars PROVE KInv'
    OBVIOUS
  <2>0. SpawnTypeOK'
    BY SpawnTypeStep
  <2> SUFFICES KillOnlyByAbort'
    BY <2>0
  <2>1. ASSUME NEW p \in Pids, Resolve(p) PROVE KillOnlyByAbort'
    <3>1. Started(p) \in Event /\ Started(p).kind = "Started"
      BY DEF Event, Started
    <3>. QED  BY <2>1, <3>1, AppendKeepsKillOnlyByAbort DEF Resolve, Send, KillOnlyByAbort
  <2>2. ASSUME NEW p \in Pids, NEW r \in RunResults(p), r # "ok",
               bus' = Append(bus, Stopped(p, ClassifyError(r))),
               terminated' = terminated
        PROVE  KillOnlyByAbort'
    <3>1. Stopped(p, ClassifyError(r)) \in Event
      BY <2>2, ClassifiedStatus DEF Event
    <3>2. ClassifyError(r) = Killed => p \in terminated
      BY <2>2, KilledOnlyIfTerminated
    <3>. QED  BY <2>2, <3>1, <3>2, AppendKeepsKillOnlyByAbort DEF Stopped
  <2>3. ASSUME NEW p \in Pids, ExecMain(p) PROVE KillOnlyByAbort'
    <3>1. PICK r \in RunResults(p) :
                IF r = "ok"
                  THEN /\ phase' = [phase EXCEPT ![p] = "Loop"]
                       /\ UNCHANGED bus
                  ELSE /\ phase' = [phase EXCEPT ![p] = "TaskDone"]
                       /\ Send(Stopped(p, ClassifyError(r)))
      BY <2>3 DEF ExecMain
    <3>2. CASE r = "ok"
      BY <2>3, <3>1, <3>2 DEF ExecMain, KillOnlyByAbort
    <3>3. CASE r # "ok"
      BY <2>3, <3>1, <3>3, <2>2 DEF ExecMain, Send
    <3>. QED  BY <3>2, <3>3
  <2>4. ASSUME NEW p \in Pids, RunEventLoop(p) PROVE KillOnlyByAbort'
    <3>1. PICK r \in RunResults(p) :
                IF r = "ok" THEN UNCHANGED bus
                            ELSE Send(Stopped(p, ClassifyError(r)))
      BY <2>4 DEF RunEventLoop
    <3>2. CASE r = "ok"
      BY <2>4, <3>1, <3>2 DEF RunEventLoop, KillOnlyByAbort
    <3>3. CASE r # "ok"
      BY <2>4, <3>1, <3>3, <2>2 DEF RunEventLoop, Send
    <3>. QED  BY <3>2, <3>3
  <2>5. ASSUME NEW p \in Pids, SendSuccess(p) PROVE KillOnlyByAbort'
    <3>1. Stopped(p, Success) \in Event /\ Success # Killed
      BY DEF Event, Status, Success, Killed
    <3>. QED  BY <2>5, <3>1, AppendKeepsKillOnlyByAbort DEF SendSuccess, Send, Stopped
  <2>6. ASSUME NEW p \in Pids, ThreadExit(p) PROVE KillOnlyByAbort'
    <3>1. Stopped(p, Error(PanickedMsg)) \in Event /\ Error(PanickedMsg) # Killed
      BY DEF Event, Status, Error, Killed
    <3>. QED  BY <2>6, <3>1, AppendKeepsKillOnlyByAbort DEF ThreadExit, Send, Stopped
  <2>7. ASSUME NEW p \in Pids, AbortMacro(p) PROVE KillOnlyByAbort'
    BY <2>7 DEF AbortMacro, KillOnlyByAbort
  <2>8. CASE SpawnBegin \/ \E p \in Pids : SpawnSubscribe(p) \/ SpawnRecv(p)
                                          \/ SpawnTimeout(p) \/ Construct(p)
    BY <2>8 DEF SpawnBegin, SpawnSubscribe, SpawnRecv, SpawnTimeout, Construct, KillOnlyByAbort
  <2>9. CASE UNCHANGED spawnVars
    BY <2>9 DEF spawnVars, KillOnlyByAbort
  <2>. QED
    BY <2>1, <2>3, <2>4, <2>5, <2>6, <2>7, <2>8, <2>9 DEF SpawnNext, Supervisor
<1>. QED  BY <1>1, <1>2, PTL DEF SpawnSpec

=============================================================================
