--------------------------- MODULE InstanceRegistry ---------------------------
(***************************************************************************)
(* The instance handlers of core/src/handlers/instance.rs: create (the     *)
(* Minecraft handler, which returns at once and finishes the set-up in a   *)
(* spawned task, and the generic handler), and delete, acting concurrently *)
(* on the shared instance map, the instances' directories, the port        *)
(* manager and the requesting user's permissions.  One user makes every   *)
(* request; each request is a model value of McReqs, GenReqs or DelReqs.  *)
(***************************************************************************)

CONSTANTS
  Uuids,     \* the UUIDs InstanceUuid::default() can return
  Ports,     \* the ports a set-up config can name
  McReqs,    \* create_minecraft_instance requests
  GenReqs,   \* create_generic_instance requests
  DelReqs,   \* delete_instance requests
  Faults     \* whether file-system and set-up steps may fail

Reqs == McReqs \cup GenReqs \cup DelReqs
NoUuid == "NoUuid"
NoPort == "NoPort"

(* Each request is of one kind, and the sentinels are not UUIDs. *)
ASSUME RegistryAssumption ==
  /\ McReqs \cap GenReqs = {} /\ McReqs \cap DelReqs = {} /\ GenReqs \cap DelReqs = {}
  /\ NoUuid \notin Uuids
  /\ Faults \in BOOLEAN

VARIABLES
  instances,   \* the keys of state.instances
  running,     \* the instances whose state() is not Stopped
  dirs,        \* the instance directories on disk
  configs,     \* the directories that hold a .lodestone_config
  perms,       \* the user's stored per-instance permissions
  allocated,   \* the ports held by the port manager
  port,        \* the port of each instance's set-up config
  used,        \* the UUIDs handed out so far
  registered,  \* the UUIDs a create handler inserted into the map
  pc,          \* each request's control point
  ruuid,       \* the UUID a request works on
  snap         \* the copy of the user's permissions a Minecraft create holds

vars == <<instances, running, dirs, configs, perms, allocated, port, used,
          registered, pc, ruuid, snap>>

(* The steps that may fail; without Faults they all succeed. *)
Outcome == IF Faults THEN BOOLEAN ELSE {TRUE}

Init ==
  /\ instances = {} /\ running = {} /\ dirs = {} /\ configs = {}
  /\ perms = {} /\ allocated = {} /\ port = [u \in Uuids |-> NoPort]
  /\ used = {} /\ registered = {}
  /\ pc = [r \in Reqs |-> "Idle"]
  /\ ruuid = [r \in Reqs |-> NoUuid]
  /\ snap = [r \in Reqs |-> {}]

-----------------------------------------------------------------------------
(* The synchronous part of both create handlers: a fresh UUID (prefix
   collisions are not modelled), the set-up config, create_dir_all and the
   write of .lodestone_config; each failure returns the error, after the
   directory was made if the write failed. *)
CreateFiles(r, u, next) ==
  \E cfgOk, dirOk, writeOk \in Outcome, p \in Ports :
    /\ used' = used \cup {u}
    /\ ruuid' = [ruuid EXCEPT ![r] = u]
    /\ IF ~cfgOk \/ ~dirOk
         THEN UNCHANGED <<dirs, configs, port>> /\ pc' = [pc EXCEPT ![r] = "Done"]
       ELSE IF ~writeOk
         THEN dirs' = dirs \cup {u} /\ UNCHANGED <<configs, port>>
              /\ pc' = [pc EXCEPT ![r] = "Done"]
         ELSE /\ dirs' = dirs \cup {u} /\ configs' = configs \cup {u}
              /\ port' = [port EXCEPT ![u] = p]
              /\ pc' = [pc EXCEPT ![r] = next]

(* create_minecraft_instance up to Ok(Json(instance_uuid)): the user's
   permissions are copied at the start, and the set-up task is spawned. *)
McBegin(r) ==
  /\ pc[r] = "Idle"
  /\ \E u \in Uuids \ used : CreateFiles(r, u, "Setup")
  /\ snap' = [snap EXCEPT ![r] = perms]
  /\ UNCHANGED <<instances, running, perms, allocated, registered>>

(* The set-up task: MinecraftInstance::new; on failure remove_dir_all,
   whose error the unwrap turns into a panic of the task, possibly after
   the config file was removed. *)
McSetup(r) ==
  /\ pc[r] = "Setup"
  /\ \E ok, rmOk \in Outcome :
       IF ok THEN pc' = [pc EXCEPT ![r] = "Register"] /\ UNCHANGED <<dirs, configs>>
       ELSE /\ pc' = [pc EXCEPT ![r] = "Done"]
            /\ IF rmOk THEN dirs' = dirs \ {ruuid[r]} /\ configs' = configs \ {ruuid[r]}
               ELSE UNCHANGED dirs /\ configs' \in {configs, configs \ {ruuid[r]}}
  /\ UNCHANGED <<instances, running, perms, allocated, port, used, registered, ruuid, snap>>

(* The end of the set-up task: add_port, the copied permissions with the
   new instance's entries written back by update_permissions, and the
   insert into the map. *)
McRegister(r) ==
  /\ pc[r] = "Register"
  /\ allocated' = allocated \cup {port[ruuid[r]]}
  /\ perms' = snap[r] \cup {ruuid[r]}
  /\ instances' = instances \cup {ruuid[r]}
  /\ registered' = registered \cup {ruuid[r]}
  /\ pc' = [pc EXCEPT ![r] = "Done"]
  /\ UNCHANGED <<running, dirs, configs, port, used, ruuid, snap>>

(* create_generic_instance up to GenericInstance::new. *)
GenBegin(r) ==
  /\ pc[r] = "Idle"
  /\ \E u \in Uuids \ used : CreateFiles(r, u, "Construct")
  /\ UNCHANGED <<instances, running, perms, allocated, registered, snap>>

(* GenericInstance::new and the insert; its error is returned with the
   directory and the config left on disk. *)
GenFinish(r) ==
  /\ pc[r] = "Construct"
  /\ \E ok \in Outcome :
       IF ok THEN instances' = instances \cup {ruuid[r]} /\ registered' = registered \cup {ruuid[r]}
       ELSE UNCHANGED <<instances, registered>>
  /\ pc' = [pc EXCEPT ![r] = "Done"]
  /\ UNCHANGED <<running, dirs, configs, perms, allocated, port, used, ruuid, snap>>

-----------------------------------------------------------------------------
(* delete_instance: the entry is removed from the map (NotFound if absent).
   A request that answers with an error ends in "Refused". *)
DelBegin(r) ==
  /\ pc[r] = "Idle"
  /\ \E u \in Uuids :
       IF u \in instances
         THEN /\ instances' = instances \ {u}
              /\ ruuid' = [ruuid EXCEPT ![r] = u]
              /\ pc' = [pc EXCEPT ![r] = "Check"]
         ELSE UNCHANGED <<instances, ruuid>> /\ pc' = [pc EXCEPT ![r] = "Refused"]
  /\ UNCHANGED <<running, dirs, configs, perms, allocated, port, used, registered, snap>>

(* Mutant: the .lodestone_config removed before the state check. *)
DelCheckRemovesFirst(r) ==
  /\ pc[r] = "Check"
  /\ configs' = configs \ {ruuid[r]}
  /\ IF ruuid[r] \in running
       THEN instances' = instances \cup {ruuid[r]} /\ pc' = [pc EXCEPT ![r] = "Refused"]
       ELSE UNCHANGED instances /\ pc' = [pc EXCEPT ![r] = "Cleanup"]
  /\ UNCHANGED <<running, dirs, perms, allocated, port, used, registered, ruuid, snap>>

(* Mutant: the state check dropped. *)
DelCheckIgnoresState(r) ==
  /\ pc[r] = "Check"
  /\ \E ok \in Outcome :
       IF ok THEN configs' = configs \ {ruuid[r]} /\ UNCHANGED instances
                  /\ pc' = [pc EXCEPT ![r] = "Cleanup"]
       ELSE instances' = instances \cup {ruuid[r]} /\ UNCHANGED configs
            /\ pc' = [pc EXCEPT ![r] = "Refused"]
  /\ UNCHANGED <<running, dirs, perms, allocated, port, used, registered, ruuid, snap>>

(* Mutant: a running instance is refused without being put back. *)
DelCheckNoReinsert(r) ==
  /\ pc[r] = "Check"
  /\ IF ruuid[r] \in running
       THEN UNCHANGED <<instances, configs>> /\ pc' = [pc EXCEPT ![r] = "Refused"]
       ELSE \E ok \in Outcome :
              IF ok THEN configs' = configs \ {ruuid[r]} /\ UNCHANGED instances
                         /\ pc' = [pc EXCEPT ![r] = "Cleanup"]
              ELSE instances' = instances \cup {ruuid[r]} /\ UNCHANGED configs
                   /\ pc' = [pc EXCEPT ![r] = "Refused"]
  /\ UNCHANGED <<running, dirs, perms, allocated, port, used, registered, ruuid, snap>>

(* A running instance is put back and refused; a stopped one loses its
   .lodestone_config, or is put back if remove_file fails. *)
DelCheck(r) ==
  /\ pc[r] = "Check"
  /\ IF ruuid[r] \in running
       THEN instances' = instances \cup {ruuid[r]} /\ UNCHANGED configs
            /\ pc' = [pc EXCEPT ![r] = "Refused"]
       ELSE \E ok \in Outcome :
              IF ok THEN configs' = configs \ {ruuid[r]} /\ UNCHANGED instances
                         /\ pc' = [pc EXCEPT ![r] = "Cleanup"]
              ELSE instances' = instances \cup {ruuid[r]} /\ UNCHANGED configs
                   /\ pc' = [pc EXCEPT ![r] = "Refused"]
  /\ UNCHANGED <<running, dirs, perms, allocated, port, used, registered, ruuid, snap>>

(* deallocate the port, destruct, remove_dir_all (which may fail). *)
DelCleanup(r) ==
  /\ pc[r] = "Cleanup"
  /\ allocated' = allocated \ {port[ruuid[r]]}
  /\ \E ok \in Outcome : dirs' = IF ok THEN dirs \ {ruuid[r]} ELSE dirs
  /\ pc' = [pc EXCEPT ![r] = "Done"]
  /\ UNCHANGED <<instances, running, configs, perms, port, used, registered, ruuid, snap>>

(* Other handlers start an instance of the map; a server stops by itself
   or on request. *)
StartInstance(u) == u \in instances \ running /\ running' = running \cup {u}
                    /\ UNCHANGED <<instances, dirs, configs, perms, allocated, port, used, registered, pc, ruuid, snap>>
StopInstance(u) == u \in running /\ running' = running \ {u}
                   /\ UNCHANGED <<instances, dirs, configs, perms, allocated, port, used, registered, pc, ruuid, snap>>

Next ==
  \/ \E r \in McReqs : McBegin(r) \/ McSetup(r) \/ McRegister(r)
  \/ \E r \in GenReqs : GenBegin(r) \/ GenFinish(r)
  \/ \E r \in DelReqs : DelBegin(r) \/ DelCheck(r) \/ DelCleanup(r)
  \/ \E u \in Uuids : StartInstance(u) \/ StopInstance(u)

Spec == Init /\ [][Next]_vars


-----------------------------------------------------------------------------
(* delete_instance never removes the files of a running instance: a
   delete that passed the state check works on a stopped instance, and
   nothing can start it while it is out of the map. *)
NeverDeletesRunning == \A r \in DelReqs : pc[r] = "Cleanup" => ruuid[r] \notin running

(* Every instance in the map has its .lodestone_config on disk: create
   writes the file before the insert, and delete takes the instance out of
   the map before it removes the file, putting it back only while the file
   is still there. *)
InstanceHasConfig == instances \subseteq configs

(* An instance a create handler registered is in the map unless a delete
   request took it out: the delete handler's refusal of a running
   instance, and its failure to remove the config, put it back. *)
VisibleUnlessDeleting ==
  \A u \in registered :
    u \in instances \/ \E r \in DelReqs : ruuid[r] = u /\ pc[r] \in {"Check", "Cleanup", "Done"}

(* The user who created a Minecraft instance keeps the permissions on it
   that the set-up task granted, while the instance exists. *)
CreatorKeepsPermission ==
  \A r \in McReqs : (pc[r] = "Done" /\ ruuid[r] \in instances) => ruuid[r] \in perms

(* Every .lodestone_config on disk belongs to an instance of the map or to
   a request still working on it: the next start of the core restores
   every directory that holds one. *)
NoOrphanConfig ==
  \A u \in configs :
    u \in instances \/ \E r \in Reqs : ruuid[r] = u /\ pc[r] \notin {"Idle", "Done"}

(* No step removes the .lodestone_config of a running instance: the
   delete handler removes it only after its state check found the
   instance stopped, and a failed Minecraft set-up removes only the
   config of the UUID it is creating, which nothing can have started. *)
ConfigKeptWhileRunning == [][\A u \in configs \ configs' : u \notin running]_vars

-----------------------------------------------------------------------------
(* The catalogue the handlers implement.  An instance that a delete has
   taken out of the map and is still checking is live: the check either
   puts it back or removes its config, and only then is it deleted.  The
   retired UUIDs are the registered ones that are no longer live. *)
LiveInstances == instances \cup {ruuid[r] : r \in {d \in DelReqs : pc[d] = "Check"}}

Catalog == INSTANCE InstanceCatalog
             WITH live <- LiveInstances, active <- running,
                  deleted <- registered \ LiveInstances

(* The handlers, run concurrently, behave as the catalogue changed by one
   whole create, delete, start or stop at a time: a delete takes effect
   at its state check and only on a stopped instance, a create adds an
   instance under a UUID never live before, and the steps in between
   (the removal from the map before the check, the reinsertion of a
   running instance, a failed remove_file) change nothing a caller can
   rely on. *)
CatalogRefinement == Catalog!Spec

=============================================================================
