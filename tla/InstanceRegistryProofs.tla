----------------------- MODULE InstanceRegistryProofs -----------------------
(***************************************************************************)
(* Proofs that the instance handlers keep the map consistent with the      *)
(* files and with the delete requests, for any numbers of requests, UUIDs  *)
(* and ports.                                                              *)
(***************************************************************************)
EXTENDS InstanceRegistry, TLAPS

CreateReqs == McReqs \cup GenReqs
PCs == {"Idle", "Setup", "Register", "Construct", "Check", "Cleanup", "Done", "Refused"}

(* A create whose UUID is chosen and not yet in the map. *)
InProgress(r) == pc[r] \in {"Setup", "Register", "Construct"}

(* A delete that holds its instance out of the map. *)
Deleting(r) == pc[r] \in {"Check", "Cleanup"}

TypeInv ==
  /\ instances \subseteq Uuids /\ running \subseteq Uuids /\ configs \subseteq Uuids
  /\ used \subseteq Uuids /\ registered \subseteq Uuids
  /\ pc \in [Reqs -> PCs]
  /\ ruuid \in [Reqs -> Uuids \cup {NoUuid}]
  /\ \A r \in CreateReqs : pc[r] \in {"Idle", "Setup", "Register", "Construct", "Done"}
  /\ \A r \in McReqs : pc[r] # "Construct"
  /\ \A r \in GenReqs : pc[r] \notin {"Setup", "Register"}
  /\ \A r \in DelReqs : pc[r] \in {"Idle", "Check", "Cleanup", "Done", "Refused"}

(* A delete's instance stays out of the map, keeps its config until the
   delete removes it, and is stopped once the delete passed the check;
   no two deletes hold the same instance. *)
DelTargets ==
  /\ \A r \in DelReqs :
       Deleting(r) =>
         /\ ruuid[r] \in used /\ ruuid[r] \notin instances
         /\ pc[r] = "Check" => ruuid[r] \in configs
         /\ pc[r] = "Cleanup" => ruuid[r] \notin running
  /\ \A r1, r2 \in DelReqs :
       r1 # r2 /\ Deleting(r1) /\ Deleting(r2) => ruuid[r1] # ruuid[r2]

(* A create's UUID is fresh: out of the map, with its config written, and
   held by no other create and by no delete. *)
CreateUuids ==
  /\ \A r \in CreateReqs :
       InProgress(r) =>
         /\ ruuid[r] \in used /\ ruuid[r] \notin instances /\ ruuid[r] \in configs
         /\ \A d \in DelReqs : Deleting(d) => ruuid[d] # ruuid[r]
  /\ \A r1, r2 \in CreateReqs :
       r1 # r2 /\ InProgress(r1) /\ InProgress(r2) => ruuid[r1] # ruuid[r2]

(* The inductive invariant. *)
IInv ==
  /\ TypeInv
  /\ instances \subseteq used
  /\ InstanceHasConfig
  /\ VisibleUnlessDeleting
  /\ NeverDeletesRunning
  /\ DelTargets
  /\ CreateUuids

-----------------------------------------------------------------------------
USE RegistryAssumption

(* The handlers start with an empty map and no request under way. *)
LEMMA InitIInv == Init => IInv
BY DEF Init, IInv, TypeInv, PCs, InstanceHasConfig, VisibleUnlessDeleting,
       NeverDeletesRunning, DelTargets, CreateUuids, Deleting, InProgress,
       Reqs, CreateReqs

(* What the synchronous part of a create does to the state the invariant
   reads: the request ends, or reaches next with its config written. *)
LEMMA CreateFilesFacts ==
  ASSUME NEW r, NEW u, NEW next, next # "Done", CreateFiles(r, u, next)
  PROVE  \E x \in {"Done", next} :
           /\ pc' = [pc EXCEPT ![r] = x]
           /\ x = next => u \in configs'
           /\ configs \subseteq configs' /\ configs' \subseteq configs \cup {u}
           /\ used' = used \cup {u}
           /\ ruuid' = [ruuid EXCEPT ![r] = u]
<1>1. PICK cfgOk, dirOk, writeOk \in Outcome, p \in Ports :
        /\ used' = used \cup {u}
        /\ ruuid' = [ruuid EXCEPT ![r] = u]
        /\ IF ~cfgOk \/ ~dirOk
             THEN UNCHANGED <<dirs, configs, port>> /\ pc' = [pc EXCEPT ![r] = "Done"]
           ELSE IF ~writeOk
             THEN dirs' = dirs \cup {u} /\ UNCHANGED <<configs, port>>
                  /\ pc' = [pc EXCEPT ![r] = "Done"]
             ELSE /\ dirs' = dirs \cup {u} /\ configs' = configs \cup {u}
                  /\ port' = [port EXCEPT ![u] = p]
                  /\ pc' = [pc EXCEPT ![r] = next]
  BY DEF CreateFiles
<1>2. CASE ~cfgOk \/ ~dirOk
  <2>1. configs' = configs /\ pc' = [pc EXCEPT ![r] = "Done"]
    BY <1>1, <1>2
  <2>2. QED
    BY <1>1, <2>1
<1>3. CASE cfgOk /\ dirOk /\ ~writeOk
  <2>1. configs' = configs /\ pc' = [pc EXCEPT ![r] = "Done"]
    BY <1>1, <1>3
  <2>2. QED
    BY <1>1, <2>1
<1>4. CASE cfgOk /\ dirOk /\ writeOk
  <2>1. configs' = configs \cup {u} /\ pc' = [pc EXCEPT ![r] = next]
    BY <1>1, <1>4
  <2>2. QED
    BY <1>1, <2>1
<1>5. QED
  BY <1>2, <1>3, <1>4

(* The first step of either create keeps the invariant: the UUID it takes
   is fresh. *)
LEMMA BeginIInv ==
  ASSUME IInv, NEW r \in CreateReqs, NEW u \in Uuids \ used,
         NEW next \in {"Setup", "Construct"},
         r \in McReqs => next = "Setup", r \in GenReqs => next = "Construct",
         CreateFiles(r, u, next), pc[r] = "Idle",
         UNCHANGED <<instances, running, registered>>
  PROVE  IInv'
<1>1. PICK x \in {"Done", next} :
           /\ pc' = [pc EXCEPT ![r] = x]
           /\ x = next => u \in configs'
           /\ configs \subseteq configs' /\ configs' \subseteq configs \cup {u}
           /\ used' = used \cup {u}
           /\ ruuid' = [ruuid EXCEPT ![r] = u]
  BY CreateFilesFacts
<1>2. u \notin instances /\ \A d \in DelReqs : Deleting(d) => ruuid[d] # u
  BY DEF IInv, DelTargets
<1>3. \A c \in CreateReqs : InProgress(c) => ruuid[c] # u
  BY DEF IInv, CreateUuids
<1>4. TypeInv'
  BY <1>1 DEF IInv, TypeInv, PCs, Reqs, CreateReqs
<1>5. (instances \subseteq used /\ InstanceHasConfig /\ NeverDeletesRunning)'
  BY <1>1 DEF IInv, TypeInv, InstanceHasConfig, NeverDeletesRunning, Reqs, CreateReqs
<1>6. VisibleUnlessDeleting'
  BY <1>1 DEF IInv, TypeInv, VisibleUnlessDeleting, Reqs, CreateReqs
<1>7. DelTargets'
  BY <1>1, <1>2 DEF IInv, TypeInv, DelTargets, Deleting, Reqs, CreateReqs
<1>8. CreateUuids'
  BY <1>1, <1>2, <1>3 DEF IInv, TypeInv, CreateUuids, Deleting, InProgress, Reqs, CreateReqs
<1>9. QED
  BY <1>4, <1>5, <1>6, <1>7, <1>8 DEF IInv

(* A failed set-up removes only its own files, which no other request
   holds and the map does not name. *)
LEMMA McSetupIInv ==
  ASSUME IInv, NEW r \in McReqs, McSetup(r)
  PROVE  IInv'
<1>1. PICK x \in {"Register", "Done"} :
        /\ pc' = [pc EXCEPT ![r] = x]
        /\ configs \ {ruuid[r]} \subseteq configs' /\ configs' \subseteq configs
        /\ x = "Register" => configs' = configs
  <2>1. PICK ok, rmOk \in Outcome :
          IF ok THEN pc' = [pc EXCEPT ![r] = "Register"] /\ UNCHANGED <<dirs, configs>>
          ELSE /\ pc' = [pc EXCEPT ![r] = "Done"]
               /\ IF rmOk THEN dirs' = dirs \ {ruuid[r]} /\ configs' = configs \ {ruuid[r]}
                  ELSE UNCHANGED dirs /\ configs' \in {configs, configs \ {ruuid[r]}}
    BY DEF McSetup
  <2>2. CASE ok
    BY <2>1, <2>2
  <2>3. CASE ~ok
    BY <2>1, <2>3
  <2>2a. ok \in BOOLEAN
    BY DEF Outcome
  <2>4. QED
    BY <2>2, <2>3, <2>2a
<1>2. pc[r] = "Setup" /\ UNCHANGED <<instances, running, used, registered, ruuid>>
  BY DEF McSetup
<1>3. /\ ruuid[r] \notin instances
      /\ \A d \in DelReqs : Deleting(d) => ruuid[d] # ruuid[r]
      /\ \A c \in CreateReqs : c # r /\ InProgress(c) => ruuid[c] # ruuid[r]
  BY <1>2 DEF IInv, CreateUuids, InProgress, CreateReqs
<1>4. TypeInv'
  BY <1>1, <1>2 DEF IInv, TypeInv, PCs, Reqs, CreateReqs
<1>5. (instances \subseteq used /\ InstanceHasConfig /\ NeverDeletesRunning)'
  BY <1>1, <1>2, <1>3 DEF IInv, TypeInv, InstanceHasConfig, NeverDeletesRunning, Reqs, CreateReqs
<1>6. VisibleUnlessDeleting'
  BY <1>1, <1>2 DEF IInv, TypeInv, VisibleUnlessDeleting, Reqs, CreateReqs
<1>7. DelTargets'
  BY <1>1, <1>2, <1>3 DEF IInv, TypeInv, DelTargets, Deleting, Reqs, CreateReqs
<1>8. CreateUuids'
  BY <1>1, <1>2, <1>3 DEF IInv, TypeInv, CreateUuids, Deleting, InProgress, Reqs, CreateReqs
<1>9. QED
  BY <1>4, <1>5, <1>6, <1>7, <1>8 DEF IInv

(* The insert at the end of either create: the UUID is put into the map
   with its config on disk and held by no delete and no other create. *)
LEMMA InsertIInv ==
  ASSUME IInv, NEW r \in CreateReqs, InProgress(r), pc[r] # "Setup",
         pc' = [pc EXCEPT ![r] = "Done"],
         instances' \in {instances, instances \cup {ruuid[r]}},
         registered' = registered \cup (instances' \ instances),
         UNCHANGED <<running, configs, used, ruuid>>
  PROVE  IInv'
<1>1. /\ ruuid[r] \in used /\ ruuid[r] \in configs /\ ruuid[r] \notin instances
      /\ \A d \in DelReqs : Deleting(d) => ruuid[d] # ruuid[r]
      /\ \A c \in CreateReqs : c # r /\ InProgress(c) => ruuid[c] # ruuid[r]
  BY DEF IInv, CreateUuids, CreateReqs
<1>4. TypeInv'
  BY <1>1 DEF IInv, TypeInv, PCs, Reqs, CreateReqs, InProgress
<1>5. (instances \subseteq used /\ InstanceHasConfig /\ NeverDeletesRunning)'
  BY <1>1 DEF IInv, TypeInv, InstanceHasConfig, NeverDeletesRunning, Reqs, CreateReqs
<1>6. VisibleUnlessDeleting'
  BY <1>1 DEF IInv, TypeInv, VisibleUnlessDeleting, Reqs, CreateReqs
<1>7. DelTargets'
  BY <1>1 DEF IInv, TypeInv, DelTargets, Deleting, Reqs, CreateReqs
<1>8. CreateUuids'
  BY <1>1 DEF IInv, TypeInv, CreateUuids, Deleting, InProgress, Reqs, CreateReqs
<1>9. QED
  BY <1>4, <1>5, <1>6, <1>7, <1>8 DEF IInv

LEMMA McRegisterIInv ==
  ASSUME IInv, NEW r \in McReqs, McRegister(r)
  PROVE  IInv'
<1>1. ruuid[r] \notin instances
  BY DEF McRegister, IInv, CreateUuids, InProgress, CreateReqs
<1>2. /\ InProgress(r) /\ pc[r] # "Setup" /\ pc' = [pc EXCEPT ![r] = "Done"]
      /\ instances' \in {instances, instances \cup {ruuid[r]}}
      /\ registered' = registered \cup (instances' \ instances)
      /\ UNCHANGED <<running, configs, used, ruuid>>
  BY <1>1 DEF McRegister, InProgress
<1>3. QED
  BY <1>2, InsertIInv DEF CreateReqs

LEMMA GenFinishIInv ==
  ASSUME IInv, NEW r \in GenReqs, GenFinish(r)
  PROVE  IInv'
<1>1. PICK ok \in Outcome :
        IF ok THEN instances' = instances \cup {ruuid[r]} /\ registered' = registered \cup {ruuid[r]}
        ELSE UNCHANGED <<instances, registered>>
  BY DEF GenFinish
<1>2. instances' \in {instances, instances \cup {ruuid[r]}}
      /\ registered' = registered \cup (instances' \ instances)
  <2>1. ruuid[r] \notin instances
    BY DEF GenFinish, IInv, CreateUuids, InProgress, CreateReqs
  <2>2. ok \in BOOLEAN
    BY DEF Outcome
  <2>3. QED
    BY <1>1, <2>1, <2>2
<1>3. QED
  BY <1>2, InsertIInv DEF GenFinish, InProgress, CreateReqs

(* A delete takes an instance of the map, which no other request holds. *)
LEMMA DelBeginIInv ==
  ASSUME IInv, NEW r \in DelReqs, DelBegin(r)
  PROVE  IInv'
<1>1. pc[r] = "Idle" /\ UNCHANGED <<running, configs, used, registered>>
  BY DEF DelBegin
<1>2. PICK u \in Uuids :
        IF u \in instances
          THEN /\ instances' = instances \ {u}
               /\ ruuid' = [ruuid EXCEPT ![r] = u]
               /\ pc' = [pc EXCEPT ![r] = "Check"]
          ELSE UNCHANGED <<instances, ruuid>> /\ pc' = [pc EXCEPT ![r] = "Refused"]
  BY DEF DelBegin
<1>3. CASE u \notin instances
  <2>1. UNCHANGED <<instances, ruuid>> /\ pc' = [pc EXCEPT ![r] = "Refused"]
    BY <1>2, <1>3
  <2>2. QED
    BY <1>1, <2>1 DEF IInv, TypeInv, PCs, Reqs, CreateReqs, InstanceHasConfig,
       NeverDeletesRunning, VisibleUnlessDeleting, DelTargets, CreateUuids,
       Deleting, InProgress
<1>4. CASE u \in instances
  <2>1. /\ instances' = instances \ {u}
        /\ ruuid' = [ruuid EXCEPT ![r] = u]
        /\ pc' = [pc EXCEPT ![r] = "Check"]
    BY <1>2, <1>4
  <2>2. /\ u \in used /\ u \in configs
        /\ \A d \in DelReqs : Deleting(d) => ruuid[d] # u
        /\ \A c \in CreateReqs : InProgress(c) => ruuid[c] # u
    BY <1>4 DEF IInv, InstanceHasConfig, DelTargets, CreateUuids
  <2>3. TypeInv'
    BY <1>1, <2>1 DEF IInv, TypeInv, PCs, Reqs, CreateReqs
  <2>4. (instances \subseteq used /\ InstanceHasConfig /\ NeverDeletesRunning)'
    BY <1>1, <2>1 DEF IInv, TypeInv, InstanceHasConfig, NeverDeletesRunning, Reqs, CreateReqs
  <2>5. VisibleUnlessDeleting'
    BY <1>1, <2>1 DEF IInv, TypeInv, VisibleUnlessDeleting, Reqs, CreateReqs
  <2>6. DelTargets'
    BY <1>1, <2>1, <2>2 DEF IInv, TypeInv, DelTargets, Deleting, Reqs, CreateReqs
  <2>7. CreateUuids'
    BY <1>1, <2>1, <2>2 DEF IInv, TypeInv, CreateUuids, Deleting, InProgress, Reqs, CreateReqs
  <2>8. QED
    BY <2>3, <2>4, <2>5, <2>6, <2>7 DEF IInv
<1>5. QED
  BY <1>3, <1>4

(* The state check: a running instance goes back into the map with its
   config; a stopped one loses the config and moves on to the clean-up,
   or goes back if the removal fails. *)
LEMMA DelCheckIInv ==
  ASSUME IInv, NEW r \in DelReqs, DelCheck(r)
  PROVE  IInv'
<1>1. pc[r] = "Check" /\ UNCHANGED <<running, used, registered, ruuid>>
  BY DEF DelCheck
<1>2. /\ ruuid[r] \in used /\ ruuid[r] \in configs /\ ruuid[r] \notin instances
      /\ \A d \in DelReqs : d # r /\ Deleting(d) => ruuid[d] # ruuid[r]
      /\ \A c \in CreateReqs : InProgress(c) => ruuid[c] # ruuid[r]
  BY <1>1 DEF IInv, DelTargets, CreateUuids, Deleting
<1>3. CASE /\ instances' = instances \cup {ruuid[r]} /\ configs' = configs
           /\ pc' = [pc EXCEPT ![r] = "Refused"]
  <2>1. TypeInv'
    BY <1>1, <1>2, <1>3 DEF IInv, TypeInv, PCs, Reqs, CreateReqs
  <2>2. (instances \subseteq used /\ InstanceHasConfig /\ NeverDeletesRunning)'
    BY <1>1, <1>2, <1>3 DEF IInv, TypeInv, InstanceHasConfig, NeverDeletesRunning, Reqs, CreateReqs
  <2>3. VisibleUnlessDeleting'
    BY <1>1, <1>2, <1>3 DEF IInv, TypeInv, VisibleUnlessDeleting, Reqs, CreateReqs
  <2>4. DelTargets'
    BY <1>1, <1>2, <1>3 DEF IInv, TypeInv, DelTargets, Deleting, Reqs, CreateReqs
  <2>5. CreateUuids'
    BY <1>1, <1>2, <1>3 DEF IInv, TypeInv, CreateUuids, Deleting, InProgress, Reqs, CreateReqs
  <2>6. QED
    BY <2>1, <2>2, <2>3, <2>4, <2>5 DEF IInv
<1>4. CASE /\ ruuid[r] \notin running
           /\ configs' = configs \ {ruuid[r]} /\ instances' = instances
           /\ pc' = [pc EXCEPT ![r] = "Cleanup"]
  <2>1. TypeInv'
    BY <1>1, <1>4 DEF IInv, TypeInv, PCs, Reqs, CreateReqs
  <2>2. (instances \subseteq used /\ InstanceHasConfig /\ NeverDeletesRunning)'
    BY <1>1, <1>2, <1>4 DEF IInv, TypeInv, InstanceHasConfig, NeverDeletesRunning, Reqs, CreateReqs
  <2>3. VisibleUnlessDeleting'
    BY <1>1, <1>4 DEF IInv, TypeInv, VisibleUnlessDeleting, Reqs, CreateReqs
  <2>4. DelTargets'
    BY <1>1, <1>2, <1>4 DEF IInv, TypeInv, DelTargets, Deleting, Reqs, CreateReqs
  <2>5. CreateUuids'
    BY <1>1, <1>2, <1>4 DEF IInv, TypeInv, CreateUuids, Deleting, InProgress, Reqs, CreateReqs
  <2>6. QED
    BY <2>1, <2>2, <2>3, <2>4, <2>5 DEF IInv
<1>5. QED
  <2>1. CASE ruuid[r] \in running
    BY <1>3, <2>1 DEF DelCheck
  <2>2. CASE ruuid[r] \notin running
    <3>1. PICK ok \in Outcome :
            IF ok THEN configs' = configs \ {ruuid[r]} /\ UNCHANGED instances
                       /\ pc' = [pc EXCEPT ![r] = "Cleanup"]
            ELSE instances' = instances \cup {ruuid[r]} /\ UNCHANGED configs
                 /\ pc' = [pc EXCEPT ![r] = "Refused"]
      BY <2>2 DEF DelCheck
    <3>2. ok \in BOOLEAN
      BY DEF Outcome
    <3>3. QED
      BY <1>3, <1>4, <2>2, <3>1, <3>2
  <2>3. QED
    BY <2>1, <2>2

(* The clean-up changes no state the invariant reads but the request's
   control point. *)
LEMMA DelCleanupIInv ==
  ASSUME IInv, NEW r \in DelReqs, DelCleanup(r)
  PROVE  IInv'
<1>1. /\ pc[r] = "Cleanup" /\ pc' = [pc EXCEPT ![r] = "Done"]
      /\ UNCHANGED <<instances, running, configs, used, registered, ruuid>>
  BY DEF DelCleanup
<1>2. TypeInv'
  BY <1>1 DEF IInv, TypeInv, PCs, Reqs, CreateReqs
<1>3. QED
  BY <1>1, <1>2 DEF IInv, TypeInv, Reqs, CreateReqs, InstanceHasConfig,
     NeverDeletesRunning, VisibleUnlessDeleting, DelTargets, CreateUuids,
     Deleting, InProgress

(* Only an instance of the map starts, and a delete's instance is out of
   the map. *)
LEMMA EnvIInv ==
  ASSUME IInv, NEW u \in Uuids, StartInstance(u) \/ StopInstance(u)
  PROVE  IInv'
<1>1. UNCHANGED <<instances, configs, used, registered, pc, ruuid>>
  BY DEF StartInstance, StopInstance
<1>2. running' \subseteq Uuids
      /\ \A v \in running' : v \in running \/ v \in instances
  BY DEF StartInstance, StopInstance, IInv, TypeInv
<1>3. \A r \in DelReqs : Deleting(r) => ruuid[r] \notin instances
  BY DEF IInv, DelTargets
<1>4. TypeInv'
  BY <1>1, <1>2 DEF IInv, TypeInv
<1>5. (NeverDeletesRunning /\ DelTargets)'
  BY <1>1, <1>2, <1>3 DEF IInv, NeverDeletesRunning, DelTargets, Deleting
<1>6. QED
  BY <1>1, <1>4, <1>5 DEF IInv, InstanceHasConfig, VisibleUnlessDeleting,
     CreateUuids, Deleting, InProgress

(* Every step of the handlers, and every stutter, keeps the invariant. *)
LEMMA NextIInv == IInv /\ [Next]_vars => IInv'
<1> SUFFICES ASSUME IInv, [Next]_vars PROVE IInv'
  OBVIOUS
<1>1. CASE \E r \in McReqs : McBegin(r)
  <2>1. PICK r \in McReqs : McBegin(r)
    BY <1>1
  <2>2. PICK u \in Uuids \ used : CreateFiles(r, u, "Setup")
    BY <2>1 DEF McBegin
  <2>3. QED
    BY <2>1, <2>2, BeginIInv DEF McBegin, CreateReqs
<1>2. CASE \E r \in McReqs : McSetup(r)
  BY <1>2, McSetupIInv
<1>3. CASE \E r \in McReqs : McRegister(r)
  BY <1>3, McRegisterIInv
<1>4. CASE \E r \in GenReqs : GenBegin(r)
  <2>1. PICK r \in GenReqs : GenBegin(r)
    BY <1>4
  <2>2. PICK u \in Uuids \ used : CreateFiles(r, u, "Construct")
    BY <2>1 DEF GenBegin
  <2>3. QED
    BY <2>1, <2>2, BeginIInv DEF GenBegin, CreateReqs
<1>5. CASE \E r \in GenReqs : GenFinish(r)
  BY <1>5, GenFinishIInv
<1>6. CASE \E r \in DelReqs : DelBegin(r)
  BY <1>6, DelBeginIInv
<1>7. CASE \E r \in DelReqs : DelCheck(r)
  BY <1>7, DelCheckIInv
<1>8. CASE \E r \in DelReqs : DelCleanup(r)
  BY <1>8, DelCleanupIInv
<1>9. CASE \E u \in Uuids : StartInstance(u) \/ StopInstance(u)
  BY <1>9, EnvIInv
<1>10. CASE UNCHANGED vars
  BY <1>10 DEF vars, IInv, TypeInv, Reqs, CreateReqs, InstanceHasConfig,
     NeverDeletesRunning, VisibleUnlessDeleting, DelTargets, CreateUuids,
     Deleting, InProgress
<1>11. QED
  BY <1>1, <1>2, <1>3, <1>4, <1>5, <1>6, <1>7, <1>8, <1>9, <1>10 DEF Next

(* The handlers keep a delete away from a running instance's files
   (delete_instance's state check holds while the instance is out of the
   map), for any numbers of requests and UUIDs. *)
THEOREM NeverDeletesRunningCorrect == Spec => []NeverDeletesRunning
<1>1. Init => IInv
  BY InitIInv
<1>2. IInv /\ [Next]_vars => IInv'
  BY NextIInv
<1>3. IInv => NeverDeletesRunning
  BY DEF IInv
<1>4. QED
  BY <1>1, <1>2, <1>3, PTL DEF Spec

(* Every instance of the map has its .lodestone_config on disk, whatever
   the interleaving of creates, deletes and failures. *)
THEOREM InstanceHasConfigCorrect == Spec => []InstanceHasConfig
<1>1. IInv => InstanceHasConfig
  BY DEF IInv
<1>2. QED
  BY <1>1, InitIInv, NextIInv, PTL DEF Spec

(* A registered instance leaves the map only while a delete request holds
   it or after one finished: refusals and failed removals put it back. *)
THEOREM VisibleUnlessDeletingCorrect == Spec => []VisibleUnlessDeleting
<1>1. IInv => VisibleUnlessDeleting
  BY DEF IInv
<1>2. QED
  BY <1>1, InitIInv, NextIInv, PTL DEF Spec

=============================================================================
