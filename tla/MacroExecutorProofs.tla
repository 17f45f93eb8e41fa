------------------------- MODULE MacroExecutorProofs -------------------------
(***************************************************************************)
(* Proofs about the composed MacroExecutor of core/src/macro_executor.rs: *)
(* the spawning and supervision of MacroSpawn together with the listener  *)
(* task and the exit futures, for every number of spawns, every capacity  *)
(* of the event bus and every set of guest error renderings.              *)
(***************************************************************************)
EXTENDS MacroExecutor, MacroSpawnProofs

-----------------------------------------------------------------------------
(* Every step of spawning and supervision leaves the bus as it is or
   appends one event to it: the broadcaster never loses or rewrites an
   event the observers may still read. *)
LEMMA BusAppendOnly ==
  ASSUME SpawnTypeOK, [SpawnNext]_spawnVars
  PROVE  bus' = bus \/ \E e \in Event : bus' = Append(bus, e)
<1>1. CASE SpawnBegin
  BY <1>1 DEF SpawnBegin
<1>2. ASSUME NEW p \in Pids, SpawnSubscribe(p) \/ SpawnRecv(p) \/ SpawnTimeout(p) \/ AbortMacro(p)
      PROVE  bus' = bus
  BY <1>2 DEF SpawnSubscribe, SpawnRecv, SpawnTimeout, AbortMacro
<1>3. ASSUME NEW p \in Pids, Supervisor(p)
      PROVE  bus' = bus \/ \E e \in Event : bus' = Append(bus, e)
  <2>1. CASE Construct(p)
    BY <2>1 DEF Construct
  <2>2. CASE Resolve(p)
    BY <2>2 DEF Resolve, Send, Event
  <2>3. CASE ExecMain(p) \/ RunEventLoop(p)
    <3>1. PICK r \in RunResults(p) :
            bus' = bus \/ (r # "ok" /\ bus' = Append(bus, Stopped(p, ClassifyError(r))))
      BY <2>3 DEF ExecMain, RunEventLoop, Send
    <3>2. r # "ok" => Stopped(p, ClassifyError(r)) \in Event
      BY ClassifiedStatus DEF Event
    <3>3. QED
      BY <3>1, <3>2
  <2>4. CASE SendSuccess(p) \/ ThreadExit(p)
    <3>1. Success \in Status /\ Error(PanickedMsg) \in Status
      BY DEF Status
    <3>2. QED
      BY <2>4, <3>1 DEF SendSuccess, ThreadExit, Send, Event
  <2>5. QED
    BY <1>3, <2>1, <2>2, <2>3, <2>4 DEF Supervisor
<1>4. CASE UNCHANGED spawnVars
  BY <1>4 DEF spawnVars
<1>5. QED
  BY <1>1, <1>2, <1>3, <1>4 DEF SpawnNext

(* Hence the bus never gets shorter. *)
LEMMA BusGrows ==
  ASSUME SpawnTypeOK, [SpawnNext]_spawnVars
  PROVE  Len(bus') >= Len(bus)
BY BusAppendOnly DEF SpawnTypeOK

(* A Stopped event names a PID and carries a status. *)
LEMMA StoppedFields ==
  ASSUME NEW e \in Event, e.kind = "Stopped"
  PROVE  e.pid \in Pids /\ e.status \in Status
BY DEF Event, Started, Stopped

-----------------------------------------------------------------------------
(* The observers' part of the type invariant. *)
ObserverTypeOK ==
  /\ exitTable \in [Pids -> Status \cup {NoStatus}]
  /\ lcur \in 0 .. Len(bus)
  /\ ew \in [Pids -> ExitStates]
  /\ ecur \in [Pids -> 0 .. Len(bus)]
  /\ eres \in [Pids -> Status \cup {NoStatus}]

LEMMA TypeOKSplit == TypeOK <=> SpawnTypeOK /\ ObserverTypeOK
BY DEF TypeOK, ObserverTypeOK

LEMMA InitTypeOK == Init => TypeOK
<1> SUFFICES ASSUME Init PROVE TypeOK
  OBVIOUS
<1>1. SpawnTypeOK
  BY SpawnTypeInit DEF Init
<1>2. ObserverTypeOK
  BY DEF Init, SpawnInit, ObserverTypeOK, ExitStates
<1>3. QED
  BY <1>1, <1>2, TypeOKSplit

(* A step of spawning or supervision keeps the observers' cursors on the
   bus, since it only grows. *)
LEMMA SpawningTypeOK == TypeOK /\ Spawning(SpawnNext) => TypeOK'
<1> SUFFICES ASSUME SpawnTypeOK, ObserverTypeOK, SpawnNext, UNCHANGED observerVars
             PROVE  SpawnTypeOK' /\ ObserverTypeOK'
  BY DEF TypeOK, ObserverTypeOK, Spawning
<1>1. SpawnTypeOK'
  BY SpawnTypeStep
<1>2. Len(bus') >= Len(bus) /\ bus' \in Seq(Event)
  BY <1>1, BusGrows DEF SpawnTypeOK
<1>3. QED
  BY <1>1, <1>2 DEF ObserverTypeOK, observerVars

(* The listener's receive: a lagged receiver resumes BusCap events before
   the end; otherwise the table takes the status of a Stopped event. *)
LEMMA ListenerTypeOK == TypeOK /\ ListenerRecv => TypeOK'
<1> SUFFICES ASSUME SpawnTypeOK, ObserverTypeOK, ListenerRecv
             PROVE  SpawnTypeOK' /\ ObserverTypeOK'
  BY DEF TypeOK, ObserverTypeOK
<1>1. UNCHANGED <<spawnVars, ew, ecur, eres>> /\ lcur < Len(bus)
  BY DEF ListenerRecv
<1>2. SpawnTypeOK'
  BY <1>1 DEF SpawnTypeOK, spawnVars
<1>3. CASE Lagged(lcur)
  <2>1. lcur' = Len(bus) - BusCap /\ UNCHANGED exitTable
    BY <1>3 DEF ListenerRecv
  <2>2. lcur' \in 0 .. Len(bus')
    BY <1>1, <1>3, <2>1, BusCapAssumption DEF Lagged, ObserverTypeOK, SpawnTypeOK, spawnVars
  <2>3. QED
    BY <1>1, <1>2, <2>1, <2>2 DEF ObserverTypeOK, spawnVars
<1>4. CASE ~Lagged(lcur)
  <2> DEFINE e == bus[lcur + 1]
  <2>1. lcur' = lcur + 1
        /\ exitTable' = IF e.kind = "Stopped" THEN [exitTable EXCEPT ![e.pid] = e.status]
                                              ELSE exitTable
    BY <1>4 DEF ListenerRecv
  <2>2. e \in Event
    BY <1>1 DEF ObserverTypeOK, SpawnTypeOK
  <2>3. e.kind = "Stopped" => e.pid \in Pids /\ e.status \in Status
    BY <2>2, StoppedFields
  <2>4. exitTable' \in [Pids -> Status \cup {NoStatus}]
    BY <2>1, <2>3 DEF ObserverTypeOK
  <2>5. lcur' \in 0 .. Len(bus')
    BY <1>1, <2>1 DEF ObserverTypeOK, spawnVars
  <2>6. QED
    BY <1>1, <1>2, <2>4, <2>5 DEF ObserverTypeOK, spawnVars
<1>5. QED
  BY <1>3, <1>4

LEMMA ExitPollTypeOK == ASSUME TypeOK, NEW p \in Pids, ExitPoll(p) PROVE TypeOK'
<1> SUFFICES ASSUME SpawnTypeOK, ObserverTypeOK, ExitPoll(p)
             PROVE  SpawnTypeOK' /\ ObserverTypeOK'
  BY DEF TypeOK, ObserverTypeOK
<1>1. UNCHANGED <<spawnVars, exitTable, lcur, eres>>
      /\ ew' = [ew EXCEPT ![p] = "Waiting"] /\ ecur' = [ecur EXCEPT ![p] = Len(bus)]
  BY DEF ExitPoll
<1>2. SpawnTypeOK'
  BY <1>1 DEF SpawnTypeOK, spawnVars
<1>3. QED
  BY <1>1, <1>2 DEF ObserverTypeOK, ExitStates, spawnVars, SpawnTypeOK

(* The exit future's receive: it panics when lagged, resolves with the
   status of its PID's Stopped event, or skips the event. *)
LEMMA ExitRecvTypeOK == ASSUME TypeOK, NEW p \in Pids, ExitRecv(p) PROVE TypeOK'
<1> SUFFICES ASSUME SpawnTypeOK, ObserverTypeOK, ExitRecv(p)
             PROVE  SpawnTypeOK' /\ ObserverTypeOK'
  BY DEF TypeOK, ObserverTypeOK
<1>1. UNCHANGED <<spawnVars, exitTable, lcur>> /\ ecur[p] < Len(bus)
  BY DEF ExitRecv
<1>2. SpawnTypeOK'
  BY <1>1 DEF SpawnTypeOK, spawnVars
<1>3. CASE Lagged(ecur[p])
  <2>1. ew' = [ew EXCEPT ![p] = "Panicked"] /\ ecur' = [ecur EXCEPT ![p] = 0] /\ UNCHANGED eres
    BY <1>3 DEF ExitRecv
  <2>2. QED
    BY <1>1, <1>2, <2>1 DEF ObserverTypeOK, ExitStates, spawnVars
<1>4. CASE ~Lagged(ecur[p])
  <2> DEFINE e == bus[ecur[p] + 1]
  <2>1. e \in Event
    BY <1>1 DEF ObserverTypeOK, SpawnTypeOK
  <2>2. CASE ExitMatches(e, p)
    <3>1. ew' = [ew EXCEPT ![p] = "Resolved"] /\ eres' = [eres EXCEPT ![p] = e.status]
          /\ ecur' = [ecur EXCEPT ![p] = 0]
      BY <1>4, <2>2 DEF ExitRecv
    <3>2. e.status \in Status
      BY <2>1, <2>2, StoppedFields DEF ExitMatches
    <3>3. QED
      BY <1>1, <1>2, <3>1, <3>2 DEF ObserverTypeOK, ExitStates, spawnVars
  <2>3. CASE ~ExitMatches(e, p)
    <3>1. ecur' = [ecur EXCEPT ![p] = ecur[p] + 1] /\ UNCHANGED <<ew, eres>>
      BY <1>4, <2>3 DEF ExitRecv
    <3>2. QED
      BY <1>1, <1>2, <3>1 DEF ObserverTypeOK, spawnVars
  <2>4. QED
    BY <2>2, <2>3
<1>5. QED
  BY <1>3, <1>4

LEMMA NextTypeOK == TypeOK /\ [Next]_vars => TypeOK'
<1> SUFFICES ASSUME TypeOK, [Next]_vars PROVE TypeOK'
  OBVIOUS
<1>1. CASE Spawning(SpawnNext)
  BY <1>1, SpawningTypeOK
<1>2. CASE ListenerRecv
  BY <1>2, ListenerTypeOK
<1>3. CASE \E p \in Pids : ExitPoll(p) \/ ExitRecv(p)
  BY <1>3, ExitPollTypeOK, ExitRecvTypeOK
<1>4. CASE UNCHANGED vars
  BY <1>4 DEF vars, spawnVars, observerVars, TypeOK, SpawnTypeOK
<1>5. QED
  BY <1>1, <1>2, <1>3, <1>4 DEF Next

(* In every reachable state of the composed executor every variable has
   its type; in particular the listener's and every exit future's
   receiver stay within the bus (a lagged receive resumes at the oldest
   retained event, never past the end), and exit_status_table and the
   exit futures only hold statuses a macro can end with. *)
THEOREM TypeCorrect == Spec => []TypeOK
BY InitTypeOK, NextTypeOK, PTL DEF Spec

=============================================================================
