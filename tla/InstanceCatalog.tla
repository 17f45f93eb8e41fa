---------------------------- MODULE InstanceCatalog ----------------------------
(***************************************************************************)
(* What the instance handlers of core/src/handlers/instance.rs promise,   *)
(* stated over whole operations: the catalogue of live instances, each    *)
(* running or stopped, changes one instance at a time.  A create adds an  *)
(* instance under a UUID never used before; a delete removes a stopped    *)
(* instance, whose UUID is then retired; other handlers start a stopped   *)
(* live instance or stop a running one.                                   *)
(***************************************************************************)
CONSTANT Uuids

VARIABLES
  live,     \* the instances that exist
  active,   \* the live instances that run
  deleted   \* the UUIDs of deleted instances

catalogVars == <<live, active, deleted>>

Init == live = {} /\ active = {} /\ deleted = {}

Create(u) ==
  /\ u \notin live \cup deleted
  /\ live' = live \cup {u}
  /\ UNCHANGED <<active, deleted>>

Delete(u) ==
  /\ u \in live \ active
  /\ live' = live \ {u}
  /\ deleted' = deleted \cup {u}
  /\ UNCHANGED active

Start(u) ==
  /\ u \in live \ active
  /\ active' = active \cup {u}
  /\ UNCHANGED <<live, deleted>>

Stop(u) ==
  /\ u \in active
  /\ active' = active \ {u}
  /\ UNCHANGED <<live, deleted>>

Next == \E u \in Uuids : Create(u) \/ Delete(u) \/ Start(u) \/ Stop(u)

Spec == Init /\ [][Next]_catalogVars

=============================================================================
