----------------------------- MODULE MacroSpawn -----------------------------
(***************************************************************************)
(* Spawning and supervising macros, core/src/macro_executor.rs:           *)
(* MacroExecutor::spawn (PID allocation, the supervisor thread, the wait  *)
(* for Started with its one-second timeout), the supervisor's steps       *)
(* (worker construction, handle registration, Started, the main module,   *)
(* the event loop, the Stopped events) and abort_macro.                   *)
(*                                                                         *)
(* The event bus is the log of every macro event ever sent; a subscriber  *)
(* keeps a cursor into it and sees only what was sent after it            *)
(* subscribed.  The broadcaster's tokio channel keeps the last BusCap     *)
(* events: a receiver more than BusCap events behind gets Err(Lagged).    *)
(***************************************************************************)
EXTENDS Naturals, Sequences

CONSTANTS
  MaxSpawn,       \* number of spawn calls the model makes (bounds the PIDs)
  BusCap,         \* capacity of the event broadcaster's channel
  GuestErrors,    \* renderings of the errors a guest script can throw
  TerminatedMsg,  \* the rendering "Uncaught Error: execution terminated"
  PanickedMsg,    \* "Macro executor thread unexpectedly panicked"
  SetupFaults     \* whether the host steps before Started may fail

ASSUME MaxSpawnAssumption == MaxSpawn \in Nat \ {0}
ASSUME BusCapAssumption == BusCap \in Nat \ {0}
ASSUME SetupFaultsAssumption == SetupFaults \in BOOLEAN
ASSUME MsgAssumption == PanickedMsg \notin GuestErrors \cup {TerminatedMsg}

VARIABLES
  nextPid,     \* next_process_id
  phase,       \* control point of each macro's supervisor thread
  hang,        \* the macro's script never returns by itself (while(true){})
  table,       \* PIDs with an isolate handle in macro_process_table
  terminated,  \* PIDs whose isolate had terminate_execution() called
  bus,         \* every macro event sent on the broadcaster, in order
  sw,          \* state of the spawn call that allocated each PID
  scur         \* spawn's receiver cursor (while it waits)

spawnVars == <<nextPid, phase, hang, table, terminated, bus, sw, scur>>

Pids == 0 .. MaxSpawn - 1

None == "none"

(* ExitStatus of traits/t_macro.rs, without its time field.  NoStatus is
   the status field of a Started event and an absent table entry. *)
Success == [tag |-> "Success", msg |-> None]
Killed == [tag |-> "Killed", msg |-> None]
Error(m) == [tag |-> "Error", msg |-> m]
NoStatus == [tag |-> "None", msg |-> None]
Status == {Success, Killed} \cup {Error(m) : m \in GuestErrors \cup {TerminatedMsg, PanickedMsg}}

Started(p) == [pid |-> p, kind |-> "Started", status |-> NoStatus]
Stopped(p, s) == [pid |-> p, kind |-> "Stopped", status |-> s]
Event == {Started(p) : p \in Pids} \cup {Stopped(p, s) : p \in Pids, s \in Status}

Phases == {"Idle", "Starting", "Resolving", "Main", "Loop", "Finish", "TaskDone", "Exited"}
SpawnStates == {"Idle", "Spawned", "Waiting", "Ok", "Failed"}

(* Mutant: every uncaught error is taken for a termination, as a test
   for the "Uncaught Error" prefix that all renderings share would. *)
ClassifyErrorByPrefix(m) == IF m \in GuestErrors \cup {TerminatedMsg} THEN Killed ELSE Error(m)

(* The status sent for an error of execute_main_module or run_event_loop:
   the error's rendering is compared with the termination string. *)
ClassifyError(m) == IF m = TerminatedMsg THEN Killed ELSE Error(m)

(* Mutant: a run of guest code that does not reach a safepoint where the
   termination request is served. *)
RunResultsIgnoringTermination(p) == IF hang[p] THEN {} ELSE {"ok"} \cup GuestErrors

(* What one run of guest code (the main module, or the event loop) ends
   with: "ok" or an error's rendering.  A hanging script ends only by
   termination; a script that returns may beat a termination request. *)
RunResults(p) ==
  (IF hang[p] THEN {} ELSE {"ok"} \cup GuestErrors)
  \cup (IF p \in terminated THEN {TerminatedMsg} ELSE {})

(* Outcomes of a host step that fails only on a fault of the host. *)
SetupOutcomes == IF SetupFaults THEN BOOLEAN ELSE {TRUE}

Send(e) == bus' = Append(bus, e)

(* A receiver that has consumed cur events is lagged when more than
   BusCap events are waiting for it. *)
Lagged(cur) == Len(bus) - cur > BusCap

StartedOnBus(p) == \E i \in 1 .. Len(bus) : bus[i] = Started(p)
StoppedOnBus(p) == \E i \in 1 .. Len(bus) : bus[i].pid = p /\ bus[i].kind = "Stopped"

-----------------------------------------------------------------------------
SpawnInit ==
  /\ nextPid = 0
  /\ phase = [p \in Pids |-> "Idle"]
  /\ hang = [p \in Pids |-> FALSE]
  /\ table = {}
  /\ terminated = {}
  /\ bus = << >>
  /\ sw = [p \in Pids |-> "Idle"]
  /\ scur = [p \in Pids |-> 0]

(* spawn up to thread::spawn: fetch_add takes the PID; if the current
   directory cannot be resolved spawn returns Err and no thread runs;
   otherwise the supervisor thread starts.  The script is chosen here:
   whether it ever returns on its own. *)
SpawnBegin ==
  LET p == nextPid IN
  /\ nextPid < MaxSpawn
  /\ nextPid' = nextPid + 1
  /\ \E cwdOk \in SetupOutcomes, h \in BOOLEAN :
       IF cwdOk
         THEN /\ phase' = [phase EXCEPT ![p] = "Starting"]
              /\ sw' = [sw EXCEPT ![p] = "Spawned"]
              /\ hang' = [hang EXCEPT ![p] = h]
         ELSE /\ sw' = [sw EXCEPT ![p] = "Failed"]
              /\ UNCHANGED <<phase, hang>>
  /\ UNCHANGED <<table, terminated, bus, scur>>

(* spawn subscribes to the broadcaster, after the thread has started. *)
SpawnSubscribe(p) ==
  /\ sw[p] = "Spawned"
  /\ sw' = [sw EXCEPT ![p] = "Waiting"]
  /\ scur' = [scur EXCEPT ![p] = Len(bus)]
  /\ UNCHANGED <<nextPid, phase, hang, table, terminated, bus>>

(* Mutant: spawn's loop returns Ok on any event of its PID, not only Started. *)
SpawnRecvAnyEventOfPid(p) ==
  /\ sw[p] = "Waiting"
  /\ scur[p] < Len(bus)
  /\ IF Lagged(scur[p])
       THEN /\ sw' = [sw EXCEPT ![p] = "Failed"]
            /\ scur' = [scur EXCEPT ![p] = 0]
       ELSE IF bus[scur[p] + 1].pid = p
              THEN /\ sw' = [sw EXCEPT ![p] = "Ok"]
                   /\ scur' = [scur EXCEPT ![p] = 0]
              ELSE /\ scur' = [scur EXCEPT ![p] = scur[p] + 1]
                   /\ UNCHANGED sw
  /\ UNCHANGED <<nextPid, phase, hang, table, terminated, bus>>

(* One receive of spawn's loop: lagged, it breaks with Err; a Started of
   this PID returns Ok; any other event is skipped. *)
SpawnRecv(p) ==
  /\ sw[p] = "Waiting"
  /\ scur[p] < Len(bus)
  /\ IF Lagged(scur[p])
       THEN /\ sw' = [sw EXCEPT ![p] = "Failed"]
            /\ scur' = [scur EXCEPT ![p] = 0]
       ELSE IF bus[scur[p] + 1] = Started(p)
              THEN /\ sw' = [sw EXCEPT ![p] = "Ok"]
                   /\ scur' = [scur EXCEPT ![p] = 0]
              ELSE /\ scur' = [scur EXCEPT ![p] = scur[p] + 1]
                   /\ UNCHANGED sw
  /\ UNCHANGED <<nextPid, phase, hang, table, terminated, bus>>

(* The one-second timeout of spawn.  Time is abstracted: the timeout can
   fire while no Started of p is waiting for the receiver, i.e. Started
   was not published in time, or was published before spawn subscribed. *)
SpawnTimeout(p) ==
  /\ sw[p] = "Waiting"
  /\ ~\E i \in scur[p] + 1 .. Len(bus) : bus[i] = Started(p)
  /\ sw' = [sw EXCEPT ![p] = "Failed"]
  /\ scur' = [scur EXCEPT ![p] = 0]
  /\ UNCHANGED <<nextPid, phase, hang, table, terminated, bus>>

(* Supervisor: build the worker and run deps_inject (whose unwrap may
   panic, ending the local task), then insert the isolate handle. *)
Construct(p) ==
  /\ phase[p] = "Starting"
  /\ \E ok \in SetupOutcomes :
       IF ok THEN /\ phase' = [phase EXCEPT ![p] = "Resolving"]
                  /\ table' = table \cup {p}
             ELSE /\ phase' = [phase EXCEPT ![p] = "TaskDone"]
                  /\ UNCHANGED table
  /\ UNCHANGED <<nextPid, hang, terminated, bus, sw, scur>>

(* Supervisor: resolve the main module; on an error the task returns
   without an event, otherwise Started is sent. *)
Resolve(p) ==
  /\ phase[p] = "Resolving"
  /\ \E ok \in SetupOutcomes :
       IF ok THEN /\ phase' = [phase EXCEPT ![p] = "Main"]
                  /\ Send(Started(p))
             ELSE /\ phase' = [phase EXCEPT ![p] = "TaskDone"]
                  /\ UNCHANGED bus
  /\ UNCHANGED <<nextPid, hang, table, terminated, sw, scur>>

(* Supervisor: execute_main_module; an error sends Stopped and returns. *)
ExecMain(p) ==
  /\ phase[p] = "Main"
  /\ \E r \in RunResults(p) :
       IF r = "ok"
         THEN /\ phase' = [phase EXCEPT ![p] = "Loop"]
              /\ UNCHANGED bus
         ELSE /\ phase' = [phase EXCEPT ![p] = "TaskDone"]
              /\ Send(Stopped(p, ClassifyError(r)))
  /\ UNCHANGED <<nextPid, hang, table, terminated, sw, scur>>

(* Supervisor: run_event_loop; an error sends Stopped and does not return. *)
RunEventLoop(p) ==
  /\ phase[p] = "Loop"
  /\ phase' = [phase EXCEPT ![p] = "Finish"]
  /\ \E r \in RunResults(p) :
       IF r = "ok" THEN UNCHANGED bus
                   ELSE Send(Stopped(p, ClassifyError(r)))
  /\ UNCHANGED <<nextPid, hang, table, terminated, sw, scur>>

(* Supervisor: after the event loop, Stopped(Success) is sent. *)
SendSuccess(p) ==
  /\ phase[p] = "Finish"
  /\ phase' = [phase EXCEPT ![p] = "TaskDone"]
  /\ Send(Stopped(p, Success))
  /\ UNCHANGED <<nextPid, hang, table, terminated, sw, scur>>

(* The thread after rt.block_on(local) returned: Stopped(Error(panicked)). *)
ThreadExit(p) ==
  /\ phase[p] = "TaskDone"
  /\ phase' = [phase EXCEPT ![p] = "Exited"]
  /\ Send(Stopped(p, Error(PanickedMsg)))
  /\ UNCHANGED <<nextPid, hang, table, terminated, sw, scur>>

(* abort_macro: NotFound (no change) unless the PID has a handle in the
   table; then terminate_execution() on its isolate. *)
AbortMacro(p) ==
  /\ p \in table
  /\ terminated' = terminated \cup {p}
  /\ UNCHANGED <<nextPid, phase, hang, table, bus, sw, scur>>

Supervisor(p) ==
  \/ Construct(p) \/ Resolve(p) \/ ExecMain(p)
  \/ RunEventLoop(p) \/ SendSuccess(p) \/ ThreadExit(p)

SpawnNext ==
  \/ SpawnBegin
  \/ \E p \in Pids :
       \/ SpawnSubscribe(p) \/ SpawnRecv(p) \/ SpawnTimeout(p)
       \/ Supervisor(p)
       \/ AbortMacro(p)

(* Each supervisor runs on an OS thread of its own and spawn's wait is a
   task of a tokio runtime that is not starved: their enabled steps are
   taken.  The callers of spawn and abort_macro owe nothing. *)
SpawnFairness ==
  \A p \in Pids : WF_spawnVars(Supervisor(p)) /\ WF_spawnVars(SpawnRecv(p))

SpawnSpec == SpawnInit /\ [][SpawnNext]_spawnVars /\ SpawnFairness

-----------------------------------------------------------------------------
SpawnTypeOK ==
  /\ nextPid \in 0 .. MaxSpawn
  /\ phase \in [Pids -> Phases]
  /\ hang \in [Pids -> BOOLEAN]
  /\ table \subseteq Pids
  /\ terminated \subseteq table
  /\ bus \in Seq(Event)
  /\ sw \in [Pids -> SpawnStates]
  /\ scur \in [Pids -> 0 .. Len(bus)]

(* spawn returns Ok only for a PID whose supervisor has published Started,
   and by then the PID's isolate handle is in the process table: abort_macro
   of a PID that a successful spawn returned never answers NotFound. *)
SpawnOkMeansStarted ==
  \A p \in Pids : sw[p] = "Ok" => StartedOnBus(p) /\ p \in table

(* A Stopped event with status Killed is published only for a PID whose
   isolate abort_macro terminated (spec 7: guest exceptions end with
   Error, termination with Killed). *)
KillOnlyByAbort ==
  \A i \in 1 .. Len(bus) :
    (bus[i].kind = "Stopped" /\ bus[i].status = Killed) => bus[i].pid \in terminated

(* A macro whose thread started, and whose script returns by itself or
   was aborted, eventually has a Stopped event on the bus (spec 8.4). *)
EventuallyStopped ==
  \A p \in Pids :
    (phase[p] # "Idle" /\ (~hang[p] \/ p \in terminated)) ~> StoppedOnBus(p)

(* Exactly one terminal Stopped event is published per PID (spec 3, 4.3). *)
AtMostOneStopped ==
  \A i, j \in 1 .. Len(bus) :
    (i < j /\ bus[i].pid = bus[j].pid /\ bus[i].kind = "Stopped") => bus[j].kind # "Stopped"

(* spawn fails only when Started was not observed in time (spec 4.5): it
   never gives up on a PID whose Started is already on the bus. *)
SpawnFailsOnlyIfNotStarted ==
  [][\A p \in Pids : (sw[p] = "Waiting" /\ sw'[p] = "Failed") => ~StartedOnBus(p)]_spawnVars

=============================================================================
