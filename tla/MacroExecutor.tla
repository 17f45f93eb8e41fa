--------------------------- MODULE MacroExecutor ---------------------------
(***************************************************************************)
(* The whole MacroExecutor of core/src/macro_executor.rs: the spawning    *)
(* and supervision of MacroSpawn, composed with the two observers of the  *)
(* event bus: the listener task started by MacroExecutor::new, which      *)
(* mirrors Stopped events into exit_status_table (read by                 *)
(* get_macro_status), and the exit future a successful spawn returns      *)
(* (wait_with_timeout).                                                    *)
(***************************************************************************)
EXTENDS MacroSpawn

VARIABLES
  exitTable,  \* exit_status_table
  lcur,       \* the listener task's receiver: events consumed so far
  ew,         \* state of the exit future of each PID
  ecur,       \* the exit future's receiver cursor (while it waits)
  eres        \* the status the exit future resolved with

observerVars == <<exitTable, lcur, ew, ecur, eres>>
vars == <<spawnVars, observerVars>>

ExitStates == {"Idle", "Waiting", "Resolved", "Panicked"}

Init ==
  /\ SpawnInit
  /\ exitTable = [p \in Pids |-> NoStatus]
  /\ lcur = 0
  /\ ew = [p \in Pids |-> "Idle"]
  /\ ecur = [p \in Pids |-> 0]
  /\ eres = [p \in Pids |-> NoStatus]

(* One receive of the listener task: an Err (lagged) is ignored and the
   receiver resumes at the oldest retained event; a Stopped event is
   inserted into the exit-status table, over any earlier entry. *)
ListenerRecv ==
  /\ lcur < Len(bus)
  /\ IF Lagged(lcur)
       THEN /\ lcur' = Len(bus) - BusCap
            /\ UNCHANGED exitTable
       ELSE LET e == bus[lcur + 1] IN
            /\ lcur' = lcur + 1
            /\ exitTable' = IF e.kind = "Stopped"
                              THEN [exitTable EXCEPT ![e.pid] = e.status]
                              ELSE exitTable
  /\ UNCHANGED <<spawnVars, ew, ecur, eres>>

(* Mutant: the exit future's receiver placed one past the last event. *)
ExitPollPastEnd(p) ==
  /\ sw[p] = "Ok"
  /\ ew[p] = "Idle"
  /\ ew' = [ew EXCEPT ![p] = "Waiting"]
  /\ ecur' = [ecur EXCEPT ![p] = Len(bus) + 1]
  /\ UNCHANGED <<spawnVars, exitTable, lcur, eres>>

(* The caller first polls the exit future of a successful spawn: only
   then does wait_with_timeout subscribe to the broadcaster. *)
ExitPoll(p) ==
  /\ sw[p] = "Ok"
  /\ ew[p] = "Idle"
  /\ ew' = [ew EXCEPT ![p] = "Waiting"]
  /\ ecur' = [ecur EXCEPT ![p] = Len(bus)]
  /\ UNCHANGED <<spawnVars, exitTable, lcur, eres>>

(* Mutant: the pattern of wait_for_detach copied into wait_with_timeout. *)
ExitMatchesDetach(e, p) == e.pid = p /\ e.kind = "Detach"

(* The events that resolve the exit future of p: its Stopped events. *)
ExitMatches(e, p) == e.pid = p /\ e.kind = "Stopped"

(* One receive of wait_with_timeout: recv().await.unwrap() panics when
   lagged; the first Stopped of this PID resolves the future. *)
ExitRecv(p) ==
  /\ ew[p] = "Waiting"
  /\ ecur[p] < Len(bus)
  /\ IF Lagged(ecur[p])
       THEN /\ ew' = [ew EXCEPT ![p] = "Panicked"]
            /\ ecur' = [ecur EXCEPT ![p] = 0]
            /\ UNCHANGED eres
       ELSE LET e == bus[ecur[p] + 1] IN
            IF ExitMatches(e, p)
              THEN /\ ew' = [ew EXCEPT ![p] = "Resolved"]
                   /\ eres' = [eres EXCEPT ![p] = e.status]
                   /\ ecur' = [ecur EXCEPT ![p] = 0]
              ELSE /\ ecur' = [ecur EXCEPT ![p] = ecur[p] + 1]
                   /\ UNCHANGED <<ew, eres>>
  /\ UNCHANGED <<spawnVars, exitTable, lcur>>

(* get_macro_status: the exit-status table's entry, if any. *)
GetMacroStatus(p) == exitTable[p]

(* A step of MacroSpawn leaves the observers alone. *)
Spawning(A) == A /\ UNCHANGED observerVars

Next ==
  \/ Spawning(SpawnNext)
  \/ ListenerRecv
  \/ \E p \in Pids : ExitPoll(p) \/ ExitRecv(p)

(* The listener and the exit future are tokio tasks: when an event is
   waiting for them they receive it. *)
Fairness ==
  /\ \A p \in Pids : WF_vars(Spawning(Supervisor(p))) /\ WF_vars(Spawning(SpawnRecv(p)))
  /\ WF_vars(ListenerRecv)
  /\ \A p \in Pids : WF_vars(ExitRecv(p))

Spec == Init /\ [][Next]_vars /\ Fairness

-----------------------------------------------------------------------------
TypeOK ==
  /\ SpawnTypeOK
  /\ exitTable \in [Pids -> Status \cup {NoStatus}]
  /\ lcur \in 0 .. Len(bus)
  /\ ew \in [Pids -> ExitStates]
  /\ ecur \in [Pids -> 0 .. Len(bus)]
  /\ eres \in [Pids -> Status \cup {NoStatus}]

(* An exit future that subscribed before a Stopped event of its macro was
   published eventually resolves: wait_with_timeout's loop skips the
   other events and stops at the first Stopped of its PID. *)
SubscribedExitResolves ==
  \A p \in Pids :
    (ew[p] = "Waiting" /\ \E i \in ecur[p] + 1 .. Len(bus) :
                            bus[i].pid = p /\ bus[i].kind = "Stopped")
      ~> ew[p] = "Resolved"

(* Status agreement (spec 8.3): once the exit future resolved with S and
   the listener has consumed every event, get_macro_status returns S. *)
StatusAgreement ==
  \A p \in Pids : (ew[p] = "Resolved" /\ lcur = Len(bus)) => GetMacroStatus(p) = eres[p]

(* The exit future of a successful spawn of a script that returns by
   itself eventually resolves (spec 4.5, wait_for_exit). *)
ExitFutureResolves ==
  \A p \in Pids : (ew[p] = "Waiting" /\ ~hang[p]) ~> ew[p] = "Resolved"

(* The exit future never fails: wait_with_timeout unwraps every receive. *)
ExitFutureNeverPanics == \A p \in Pids : ew[p] # "Panicked"

=============================================================================
