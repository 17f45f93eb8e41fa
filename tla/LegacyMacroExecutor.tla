------------------------- MODULE LegacyMacroExecutor -------------------------
(***************************************************************************)
(* The older MacroExecutor of src/src/macro_executor.rs.  One OS thread   *)
(* runs a LocalSet: a dispatcher loop receives (Instruction::Spawn, pid)  *)
(* from an unbounded channel, builds the runtime, spawn_local's a task    *)
(* that runs the macro, and inserts the task and isolate handles into     *)
(* macro_process_table behind a tokio Mutex.  abort_macro takes the same  *)
(* Mutex from a caller's thread; wait_with_timeout subscribes to the      *)
(* broadcast channel of MacroStopped events.                              *)
(*                                                                         *)
(* All tasks of the LocalSet share the thread.  A task runs between two   *)
(* awaits without interruption: a script that spins (while(true){})       *)
(* inside execute_main_module holds the thread until its isolate is       *)
(* terminated.  Any other await point lets the LocalSet run another task, *)
(* so the order of the ready tasks is left open.                          *)
(***************************************************************************)
EXTENDS Naturals, Sequences

CONSTANTS
  MaxSpawn,       \* number of spawn calls the model makes
  RuntimeFaults,  \* whether creating the runtime or resolving the path may fail
  Spins           \* whether a script may spin without yielding

ASSUME LegacyConstantsAssumption ==
  /\ MaxSpawn \in Nat \ {0}
  /\ RuntimeFaults \in BOOLEAN
  /\ Spins \in BOOLEAN

VARIABLES
  nextPid,     \* next_process_id
  chan,        \* the instruction channel: PIDs of pending Spawn instructions
  loopAt,      \* the PID whose insert the dispatcher is parked on the Mutex for, or NoPid
  task,        \* the macro task of each PID
  spin,        \* the PID's script spins inside its main module
  table,       \* PIDs in macro_process_table
  lockHolder,  \* the PID an abort_macro call holds the table's Mutex for, or NoPid
  terminated,  \* PIDs whose isolate had terminate_execution() called
  bus,         \* macro_pid fields of the MacroStopped events, in order
  wst,         \* state of a wait_with_timeout call per PID
  wcur         \* its receiver cursor

vars == <<nextPid, chan, loopAt, task, spin, table, lockHolder, terminated, bus, wst, wcur>>

Pids == 0 .. MaxSpawn - 1

NoPid == MaxSpawn

(* "None": no task; "Failed": the runtime could not be created; "Ready":
   spawned but not yet polled; "Unresolved": the task returned when the
   path did not resolve; "Spinning": holds the thread in its main module;
   "Loop": in run_event_loop; "Done": the task has sent MacroStopped. *)
TaskStates == {"None", "Failed", "Ready", "Unresolved", "Spinning", "Loop", "Done"}

WaitStates == {"Idle", "Waiting", "Returned", "TimedOut"}

Outcomes == IF RuntimeFaults THEN BOOLEAN ELSE {TRUE}

(* The LocalSet's thread is free unless a task spins on it. *)
ThreadFree == \A q \in Pids : task[q] # "Spinning"

-----------------------------------------------------------------------------
Init ==
  /\ nextPid = 0
  /\ chan = << >>
  /\ loopAt = NoPid
  /\ task = [p \in Pids |-> "None"]
  /\ spin = [p \in Pids |-> FALSE]
  /\ table = {}
  /\ lockHolder = NoPid
  /\ terminated = {}
  /\ bus = << >>
  /\ wst = [p \in Pids |-> "Idle"]
  /\ wcur = [p \in Pids |-> 0]

(* spawn: fetch_add takes the PID and the Spawn instruction is sent.  The
   script is chosen here: whether it spins. *)
Spawn ==
  /\ nextPid < MaxSpawn
  /\ nextPid' = nextPid + 1
  /\ chan' = Append(chan, nextPid)
  /\ \E s \in IF Spins THEN BOOLEAN ELSE {FALSE} : spin' = [spin EXCEPT ![nextPid] = s]
  /\ UNCHANGED <<loopAt, task, table, lockHolder, terminated, bus, wst, wcur>>

(* The dispatcher receives a Spawn instruction and calls the runtime
   closure; on Err it logs and continues, otherwise it spawn_local's the
   macro task and calls process_table.lock().await.  Nothing yields in
   between, so a free Mutex is taken and the handles inserted in the same
   poll, before the new task can run; a Mutex held by an abort_macro
   parks the dispatcher. *)
LoopRecv ==
  /\ ThreadFree
  /\ loopAt = NoPid
  /\ chan # << >>
  /\ LET p == Head(chan) IN
     \E ok \in Outcomes :
       \/ ~ok /\ task' = [task EXCEPT ![p] = "Failed"] /\ UNCHANGED <<loopAt, table>>
       \/ ok /\ task' = [task EXCEPT ![p] = "Ready"]
          /\ \/ lockHolder = NoPid /\ table' = table \cup {p} /\ UNCHANGED loopAt
             \/ lockHolder # NoPid /\ loopAt' = p /\ UNCHANGED table
  /\ chan' = Tail(chan)
  /\ UNCHANGED <<nextPid, spin, lockHolder, terminated, bus, wst, wcur>>

(* Mutant: the insert without the test that a Spawn was received. *)
LoopInsertUnguarded ==
  /\ ThreadFree
  /\ lockHolder = NoPid
  /\ table' = table \cup {loopAt}
  /\ loopAt' = NoPid
  /\ UNCHANGED <<nextPid, chan, task, spin, lockHolder, terminated, bus, wst, wcur>>

(* The parked dispatcher's process_table.lock().await completes once the
   abort_macro released the Mutex, when the LocalSet polls it again; the
   handles are inserted. *)
LoopInsert ==
  /\ ThreadFree
  /\ loopAt # NoPid
  /\ lockHolder = NoPid
  /\ table' = table \cup {loopAt}
  /\ loopAt' = NoPid
  /\ UNCHANGED <<nextPid, chan, task, spin, lockHolder, terminated, bus, wst, wcur>>

(* The task is first polled: resolve_path (which fails only if the
   current directory cannot be read: then the task returns with no
   event), then execute_main_module.  It is polled before its handles are
   in the table only while the dispatcher is parked on the Mutex.  A spinning script keeps the thread
   unless it was terminated already. *)
TaskRun(p) ==
  /\ ThreadFree
  /\ task[p] = "Ready"
  /\ \E ok \in Outcomes :
       task' = [task EXCEPT ![p] =
                  IF ~ok THEN "Unresolved"
                  ELSE IF spin[p] /\ p \notin terminated THEN "Spinning"
                  ELSE "Loop"]
  /\ UNCHANGED <<nextPid, chan, loopAt, spin, table, lockHolder, terminated, bus, wst, wcur>>

(* Termination interrupts the spinning script: execute_main_module
   returns its error, which is logged and ignored. *)
TaskUnspin(p) ==
  /\ task[p] = "Spinning"
  /\ p \in terminated
  /\ task' = [task EXCEPT ![p] = "Loop"]
  /\ UNCHANGED <<nextPid, chan, loopAt, spin, table, lockHolder, terminated, bus, wst, wcur>>

(* run_event_loop returns (its error ignored) and MacroStopped is sent
   with macro_pid = process_id.load(): the counter's current value. *)
TaskEnd(p) ==
  /\ ThreadFree
  /\ task[p] = "Loop"
  /\ task' = [task EXCEPT ![p] = "Done"]
  /\ bus' = Append(bus, nextPid)
  /\ UNCHANGED <<nextPid, chan, loopAt, spin, table, lockHolder, terminated, wst, wcur>>

(* abort_macro(pid) awaits the table's Mutex.  tokio's Mutex hands a
   released permit to the first queued waiter: while the dispatcher is
   parked the Mutex is its own, and abort_macro waits behind it. *)
AbortLock(p) ==
  /\ lockHolder = NoPid
  /\ loopAt = NoPid
  /\ lockHolder' = p
  /\ UNCHANGED <<nextPid, chan, loopAt, task, spin, table, terminated, bus, wst, wcur>>

(* Mutant: the NotFound path leaves the Mutex held. *)
AbortDoneKeepsLock ==
  /\ lockHolder # NoPid
  /\ lockHolder \in table
  /\ terminated' = terminated \cup {lockHolder}
  /\ lockHolder' = NoPid
  /\ UNCHANGED <<nextPid, chan, loopAt, task, spin, table, bus, wst, wcur>>

(* ... then looks the PID up: MacroNotFound, or terminate_execution();
   the guard is dropped on either path. *)
AbortDone ==
  /\ lockHolder # NoPid
  /\ terminated' = IF lockHolder \in table THEN terminated \cup {lockHolder} ELSE terminated
  /\ lockHolder' = NoPid
  /\ UNCHANGED <<nextPid, chan, loopAt, task, spin, table, bus, wst, wcur>>

(* wait_with_timeout(pid, _) subscribes when called, with a PID that
   spawn returned. *)
WaitCall(p) ==
  /\ p < nextPid
  /\ wst[p] = "Idle"
  /\ wst' = [wst EXCEPT ![p] = "Waiting"]
  /\ wcur' = [wcur EXCEPT ![p] = Len(bus)]
  /\ UNCHANGED <<nextPid, chan, loopAt, task, spin, table, lockHolder, terminated, bus>>

(* One receive: a MacroStopped whose macro_pid is the PID returns true. *)
WaitRecv(p) ==
  /\ wst[p] = "Waiting"
  /\ wcur[p] < Len(bus)
  /\ wcur' = [wcur EXCEPT ![p] = wcur[p] + 1]
  /\ wst' = [wst EXCEPT ![p] = IF bus[wcur[p] + 1] = p THEN "Returned" ELSE "Waiting"]
  /\ UNCHANGED <<nextPid, chan, loopAt, task, spin, table, lockHolder, terminated, bus>>

(* With Some(timeout), the sleep branch of the select returns false. *)
WaitTimeout(p) ==
  /\ wst[p] = "Waiting"
  /\ wst' = [wst EXCEPT ![p] = "TimedOut"]
  /\ UNCHANGED <<nextPid, chan, loopAt, task, spin, table, lockHolder, terminated, bus, wcur>>

(* get_macro_status: MacroNotFound, or whether the task has finished
   (JoinHandle::is_finished: it returned, with or without MacroStopped). *)
GetMacroStatus(p) == IF p \in table THEN task[p] \in {"Unresolved", "Done"} ELSE "MacroNotFound"

LocalSetStep ==
  \/ LoopRecv \/ LoopInsert
  \/ \E p \in Pids : TaskRun(p) \/ TaskUnspin(p) \/ TaskEnd(p)

Next ==
  \/ Spawn
  \/ LocalSetStep
  \/ \E p \in Pids : AbortLock(p) \/ WaitCall(p) \/ WaitRecv(p) \/ WaitTimeout(p)
  \/ AbortDone

(* The LocalSet's thread runs its ready tasks; an abort_macro that holds
   the Mutex finishes its synchronous lookup; a waiting receiver receives;
   the parked dispatcher, which owns the Mutex once it is released, is
   polled again. *)
Fairness ==
  /\ \A p \in Pids : WF_vars(TaskRun(p)) /\ WF_vars(TaskUnspin(p)) /\ WF_vars(TaskEnd(p))
  /\ WF_vars(LoopRecv) /\ WF_vars(LoopInsert)
  /\ WF_vars(AbortDone)
  /\ \A p \in Pids : WF_vars(WaitRecv(p))

Spec == Init /\ [][Next]_vars /\ Fairness

-----------------------------------------------------------------------------
LegacyTypeOK ==
  /\ nextPid \in 0 .. MaxSpawn
  /\ chan \in Seq(Pids)
  /\ loopAt \in Pids \cup {NoPid}
  /\ task \in [Pids -> TaskStates]
  /\ spin \in [Pids -> BOOLEAN]
  /\ table \subseteq Pids
  /\ lockHolder \in Pids \cup {NoPid}
  /\ terminated \subseteq table
  /\ bus \in Seq(0 .. MaxSpawn)
  /\ wst \in [Pids -> WaitStates]
  /\ wcur \in [Pids -> 0 .. Len(bus)]

(* Every spawn is served once no script holds the thread for ever: if
   every spinning script is eventually interrupted (by abort_macro), each
   Spawn instruction is received and its task, if the runtime was built,
   runs to its end (the dispatcher's insert waits for abort_macro's Mutex,
   which is always released). *)
EveryMacroCompletes ==
  (\A q \in Pids : <>[](task[q] # "Spinning"))
    => \A p \in Pids : (p < nextPid) ~> task[p] \in {"Failed", "Unresolved", "Done"}

(* A wait_with_timeout(pid, None) made while the macro runs its event
   loop returns once the macro finishes (its doc comment: "returns true
   if the macro finished"). *)
WaitReturns ==
  \A p \in Pids : (wst[p] = "Waiting" /\ task[p] = "Loop") ~> wst[p] # "Waiting"

(* A macro's isolate handle is in the process table before its main
   module runs (spec 3: the live entry is inserted before the main module
   is executed), so abort_macro can reach any running script. *)
RunningMeansRegistered ==
  \A p \in Pids : task[p] = "Spinning" => p \in table

(* A macro whose script does not spin eventually finishes, whatever the
   other macros do (spec 1 and 5: each execution is single-threaded on
   its own OS thread). *)
MacroProgress ==
  \A p \in Pids : (task[p] = "Ready" /\ ~spin[p]) ~> task[p] \in {"Unresolved", "Done"}

=============================================================================
