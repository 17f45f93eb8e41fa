--------------------- MODULE InstanceCatalogRefinement ---------------------
(***************************************************************************)
(* Proof that the instance handlers of core/src/handlers/instance.rs      *)
(* implement the catalogue of InstanceCatalog, for any numbers of         *)
(* requests, UUIDs and ports, with or without faults.                     *)
(***************************************************************************)
EXTENDS InstanceRegistryProofs

(* What the refinement mapping needs beyond IInv: every registered UUID
   was handed out, the map holds registered instances only, a create
   under way holds a UUID nobody registered, and a delete under check
   holds a registered one. *)
RegExtra ==
  /\ registered \subseteq used
  /\ instances \subseteq registered
  /\ \A r \in CreateReqs : InProgress(r) => ruuid[r] \notin registered
  /\ \A r \in DelReqs : pc[r] = "Check" => ruuid[r] \in registered

(* Only live instances run: a server is started from the map, and a delete
   passes its check only for a stopped one. *)
ActiveLive == running \subseteq LiveInstances

RInv == IInv /\ RegExtra /\ ActiveLive

-----------------------------------------------------------------------------
USE RegistryAssumption

LEMMA InitRInv == Init => RInv
<1>1. Init => RegExtra
  BY DEF Init, RegExtra, InProgress, CreateReqs, Reqs
<1>2. Init => ActiveLive
  BY DEF Init, ActiveLive
<1>3. QED
  BY <1>1, <1>2, InitIInv DEF RInv

(* The first step of a create takes a UUID nobody was handed, so nobody
   registered it. *)
LEMMA BeginRegExtra ==
  ASSUME RInv, NEW r \in CreateReqs, NEW u \in Uuids \ used,
         NEW next \in {"Setup", "Construct"},
         CreateFiles(r, u, next), pc[r] = "Idle",
         UNCHANGED <<instances, registered>>
  PROVE  RegExtra'
<1>1. PICK x \in {"Done", next} :
           /\ pc' = [pc EXCEPT ![r] = x]
           /\ used' = used \cup {u}
           /\ ruuid' = [ruuid EXCEPT ![r] = u]
  BY CreateFilesFacts
<1>2. u \notin registered /\ r \notin DelReqs
  BY DEF RInv, RegExtra, CreateReqs
<1>3. QED
  BY <1>1, <1>2 DEF RInv, IInv, TypeInv, RegExtra, InProgress, CreateReqs, Reqs

LEMMA McSetupRegExtra ==
  ASSUME RInv, NEW r \in McReqs, McSetup(r)
  PROVE  RegExtra'
<1>1. pc[r] = "Setup" /\ UNCHANGED <<instances, used, registered, ruuid>>
      /\ \E x \in {"Register", "Done"} : pc' = [pc EXCEPT ![r] = x]
  BY DEF McSetup
<1>2. r \notin DelReqs
  BY DEF CreateReqs
<1>3. QED
  BY <1>1, <1>2 DEF RInv, IInv, TypeInv, RegExtra, InProgress, CreateReqs, Reqs

(* The insert of a create registers its own UUID, which no other create
   under way holds. *)
LEMMA InsertRegExtra ==
  ASSUME RInv, NEW r \in CreateReqs, InProgress(r),
         pc' = [pc EXCEPT ![r] = "Done"],
         instances' \in {instances, instances \cup {ruuid[r]}},
         registered' = registered \cup (instances' \ instances),
         UNCHANGED <<used, ruuid>>
  PROVE  RegExtra'
<1>1. ruuid[r] \in used /\ r \notin DelReqs
      /\ \A c \in CreateReqs : c # r /\ InProgress(c) => ruuid[c] # ruuid[r]
  BY DEF RInv, IInv, CreateUuids, CreateReqs
<1>2. QED
  BY <1>1 DEF RInv, IInv, TypeInv, RegExtra, InProgress, CreateReqs, Reqs

LEMMA McRegisterRegExtra ==
  ASSUME RInv, NEW r \in McReqs, McRegister(r)
  PROVE  RegExtra'
<1>1. ruuid[r] \notin instances /\ InProgress(r)
  BY DEF McRegister, RInv, IInv, CreateUuids, InProgress, CreateReqs
<1>2. QED
  BY <1>1, InsertRegExtra DEF McRegister, CreateReqs

LEMMA GenFinishRegExtra ==
  ASSUME RInv, NEW r \in GenReqs, GenFinish(r)
  PROVE  RegExtra'
<1>1. PICK ok \in Outcome :
        IF ok THEN instances' = instances \cup {ruuid[r]} /\ registered' = registered \cup {ruuid[r]}
        ELSE UNCHANGED <<instances, registered>>
  BY DEF GenFinish
<1>2. ruuid[r] \notin instances /\ InProgress(r) /\ ok \in BOOLEAN
  BY DEF GenFinish, RInv, IInv, CreateUuids, InProgress, CreateReqs, Outcome
<1>3. instances' \in {instances, instances \cup {ruuid[r]}}
      /\ registered' = registered \cup (instances' \ instances)
  BY <1>1, <1>2
<1>4. QED
  BY <1>2, <1>3, InsertRegExtra DEF GenFinish, CreateReqs

(* A delete takes a registered instance out of the map. *)
LEMMA DelBeginRegExtra ==
  ASSUME RInv, NEW r \in DelReqs, DelBegin(r)
  PROVE  RegExtra'
<1>1. UNCHANGED <<used, registered>> /\ r \notin CreateReqs
  BY DEF DelBegin, CreateReqs
<1>2. PICK u \in Uuids :
        IF u \in instances
          THEN /\ instances' = instances \ {u}
               /\ ruuid' = [ruuid EXCEPT ![r] = u]
               /\ pc' = [pc EXCEPT ![r] = "Check"]
          ELSE UNCHANGED <<instances, ruuid>> /\ pc' = [pc EXCEPT ![r] = "Refused"]
  BY DEF DelBegin
<1>3. CASE u \in instances
  BY <1>1, <1>2, <1>3 DEF RInv, IInv, TypeInv, RegExtra, InProgress, CreateReqs, Reqs
<1>4. CASE u \notin instances
  BY <1>1, <1>2, <1>4 DEF RInv, IInv, TypeInv, RegExtra, InProgress, CreateReqs, Reqs
<1>5. QED
  BY <1>3, <1>4

(* The check may put the instance back; it was registered. *)
LEMMA DelCheckRegExtra ==
  ASSUME RInv, NEW r \in DelReqs, DelCheck(r)
  PROVE  RegExtra'
<1>1. pc[r] = "Check" /\ UNCHANGED <<used, registered, ruuid>> /\ r \notin CreateReqs
  BY DEF DelCheck, CreateReqs
<1>2. instances' \subseteq instances \cup {ruuid[r]}
      /\ \E x \in {"Refused", "Cleanup"} : pc' = [pc EXCEPT ![r] = x]
  BY DEF DelCheck
<1>3. ruuid[r] \in registered
  BY <1>1 DEF RInv, RegExtra
<1>4. QED
  BY <1>1, <1>2, <1>3 DEF RInv, IInv, TypeInv, RegExtra, InProgress, CreateReqs, Reqs

-----------------------------------------------------------------------------
(* The refinement mapping, step by step. *)
CheckTargets == {ruuid[d] : d \in {d \in DelReqs : pc[d] = "Check"}}

(* A step that leaves the map and every delete request alone leaves the
   live instances alone. *)
LEMMA LiveKept ==
  ASSUME UNCHANGED instances,
         \A d \in DelReqs : pc'[d] = pc[d] /\ ruuid'[d] = ruuid[d]
  PROVE  LiveInstances' = LiveInstances
BY DEF LiveInstances

(* A step of a create request leaves every delete request alone. *)
LEMMA CreateStepKeepsDels ==
  ASSUME pc \in [Reqs -> PCs], ruuid \in [Reqs -> Uuids \cup {NoUuid}],
         NEW r \in CreateReqs, NEW x, NEW y,
         pc' = [pc EXCEPT ![r] = x],
         ruuid' \in {ruuid, [ruuid EXCEPT ![r] = y]}
  PROVE  \A d \in DelReqs : pc'[d] = pc[d] /\ ruuid'[d] = ruuid[d]
BY DEF CreateReqs, Reqs

(* Steps that change nothing the catalogue shows. *)
LEMMA StutterStep ==
  ASSUME UNCHANGED <<running, registered>>, LiveInstances' = LiveInstances
  PROVE  UNCHANGED Catalog!catalogVars
BY DEF Catalog!catalogVars

(* The insert of a create is the catalogue's Create of its UUID. *)
LEMMA InsertRefines ==
  ASSUME RInv, NEW r \in CreateReqs, InProgress(r),
         pc' = [pc EXCEPT ![r] = "Done"],
         instances' = instances \cup {ruuid[r]},
         registered' = registered \cup {ruuid[r]},
         UNCHANGED <<running, ruuid>>
  PROVE  Catalog!Create(ruuid[r])
<1> DEFINE u == ruuid[r]
<1>1. \A d \in DelReqs : pc'[d] = pc[d] /\ ruuid'[d] = ruuid[d]
  BY CreateStepKeepsDels DEF RInv, IInv, TypeInv
<1>2. LiveInstances' = LiveInstances \cup {u}
  BY <1>1 DEF LiveInstances
<1>3. u \notin registered /\ LiveInstances \subseteq registered
  BY DEF RInv, RegExtra, LiveInstances
<1>4. u \notin LiveInstances \cup (registered \ LiveInstances)
  BY <1>3
<1>5. registered' \ LiveInstances' = registered \ LiveInstances
  BY <1>2, <1>3
<1>6. QED
  BY <1>2, <1>4, <1>5 DEF Catalog!Create

(* The state check of a delete, when it removes the config, is the
   catalogue's Delete of a stopped instance: no other delete holds it and
   it is out of the map. *)
LEMMA DelCheckOkRefines ==
  ASSUME RInv, NEW r \in DelReqs, pc[r] = "Check", ruuid[r] \notin running,
         pc' = [pc EXCEPT ![r] = "Cleanup"],
         UNCHANGED <<instances, running, registered, ruuid>>
  PROVE  Catalog!Delete(ruuid[r])
<1> DEFINE u == ruuid[r]
<1>1. u \notin instances /\ u \in registered
  BY DEF RInv, IInv, DelTargets, Deleting, RegExtra
<1>2. \A d \in DelReqs : d # r /\ pc[d] = "Check" => ruuid[d] # u
  BY DEF RInv, IInv, DelTargets, Deleting
<1>3. \A d \in DelReqs : d # r => pc'[d] = pc[d]
  BY DEF RInv, IInv, TypeInv, Reqs
<1>4. pc'[r] = "Cleanup"
  BY DEF RInv, IInv, TypeInv, Reqs
<1>5. LiveInstances' = LiveInstances \ {u}
  BY <1>1, <1>2, <1>3, <1>4 DEF LiveInstances
<1>6. u \in LiveInstances
  BY DEF LiveInstances
<1>7. registered' \ LiveInstances' = (registered \ LiveInstances) \cup {u}
  BY <1>1, <1>5, <1>6
<1>8. QED
  BY <1>5, <1>6, <1>7 DEF Catalog!Delete

(* A delete that puts its instance back into the map changes nothing the
   catalogue shows. *)
LEMMA DelReinsertKeepsLive ==
  ASSUME RInv, NEW r \in DelReqs, pc[r] = "Check",
         instances' = instances \cup {ruuid[r]},
         pc' = [pc EXCEPT ![r] = "Refused"], UNCHANGED ruuid
  PROVE  LiveInstances' = LiveInstances
<1>1. \A d \in DelReqs : d # r => pc'[d] = pc[d]
  BY DEF RInv, IInv, TypeInv, Reqs
<1>2. pc'[r] = "Refused"
  BY DEF RInv, IInv, TypeInv, Reqs
<1>3. QED
  BY <1>1, <1>2 DEF LiveInstances

(* A delete that takes its instance out of the map moves it to the deletes
   under check. *)
LEMMA DelTakeKeepsLive ==
  ASSUME RInv, NEW r \in DelReqs, pc[r] = "Idle", NEW u \in instances,
         instances' = instances \ {u},
         ruuid' = [ruuid EXCEPT ![r] = u],
         pc' = [pc EXCEPT ![r] = "Check"]
  PROVE  LiveInstances' = LiveInstances
<1>1. \A d \in DelReqs : d # r => pc'[d] = pc[d] /\ ruuid'[d] = ruuid[d]
  BY DEF RInv, IInv, TypeInv, Reqs
<1>2. pc'[r] = "Check" /\ ruuid'[r] = u
  BY DEF RInv, IInv, TypeInv, Reqs
<1>3. QED
  BY <1>1, <1>2 DEF LiveInstances

(* Every step of the handlers is a step of the catalogue or leaves it as
   it was. *)
LEMMA StepRefines == RInv /\ [Next]_vars => [Catalog!Next]_Catalog!catalogVars
<1> SUFFICES ASSUME RInv, [Next]_vars
             PROVE  [Catalog!Next]_Catalog!catalogVars
  OBVIOUS
<1> USE DEF Catalog!Next
<1>0. pc \in [Reqs -> PCs] /\ ruuid \in [Reqs -> Uuids \cup {NoUuid}]
  BY DEF RInv, IInv, TypeInv
<1>1. ASSUME NEW r \in CreateReqs,
             \E x : pc' = [pc EXCEPT ![r] = x],
             \E y : ruuid' \in {ruuid, [ruuid EXCEPT ![r] = y]},
             UNCHANGED <<instances, running, registered>>
      PROVE  UNCHANGED Catalog!catalogVars
  <2>1. PICK x : pc' = [pc EXCEPT ![r] = x]
    BY <1>1
  <2>2. PICK y : ruuid' \in {ruuid, [ruuid EXCEPT ![r] = y]}
    BY <1>1
  <2>3. LiveInstances' = LiveInstances
    BY <1>0, <1>1, <2>1, <2>2, CreateStepKeepsDels, LiveKept
  <2>4. QED
    BY <1>1, <2>3, StutterStep
<1>2. CASE \E r \in McReqs : McBegin(r) \/ McSetup(r) \/ McRegister(r)
  <2>1. PICK r \in McReqs : McBegin(r) \/ McSetup(r) \/ McRegister(r)
    BY <1>2
  <2>2. CASE McBegin(r)
    <3>1. PICK u \in Uuids \ used : CreateFiles(r, u, "Setup")
      BY <2>2 DEF McBegin
    <3>2. \E x : pc' = [pc EXCEPT ![r] = x]
      BY <3>1, CreateFilesFacts
    <3>3. ruuid' = [ruuid EXCEPT ![r] = u]
      BY <3>1 DEF CreateFiles
    <3>4. QED
      BY <2>2, <3>2, <3>3, <1>1 DEF McBegin, CreateReqs
  <2>3. CASE McSetup(r)
    <3>1. \E x : pc' = [pc EXCEPT ![r] = x]
      BY <2>3 DEF McSetup
    <3>2. QED
      BY <2>3, <3>1, <1>1 DEF McSetup, CreateReqs
  <2>4. CASE McRegister(r)
    <3>1. InProgress(r)
      BY <2>4 DEF McRegister, InProgress
    <3>2. Catalog!Create(ruuid[r])
      BY <2>4, <3>1, InsertRefines DEF McRegister, CreateReqs
    <3>3. ruuid[r] \in Uuids
      BY <3>1 DEF RInv, IInv, CreateUuids, TypeInv, CreateReqs
    <3>4. QED
      BY <3>2, <3>3
  <2>5. QED
    BY <2>1, <2>2, <2>3, <2>4
<1>3. CASE \E r \in GenReqs : GenBegin(r) \/ GenFinish(r)
  <2>1. PICK r \in GenReqs : GenBegin(r) \/ GenFinish(r)
    BY <1>3
  <2>2. CASE GenBegin(r)
    <3>1. PICK u \in Uuids \ used : CreateFiles(r, u, "Construct")
      BY <2>2 DEF GenBegin
    <3>2. \E x : pc' = [pc EXCEPT ![r] = x]
      BY <3>1, CreateFilesFacts
    <3>3. ruuid' = [ruuid EXCEPT ![r] = u]
      BY <3>1 DEF CreateFiles
    <3>4. QED
      BY <2>2, <3>2, <3>3, <1>1 DEF GenBegin, CreateReqs
  <2>3. CASE GenFinish(r)
    <3>1. PICK ok \in Outcome :
            IF ok THEN instances' = instances \cup {ruuid[r]} /\ registered' = registered \cup {ruuid[r]}
            ELSE UNCHANGED <<instances, registered>>
      BY <2>3 DEF GenFinish
    <3>2. CASE ok
      <4>1. InProgress(r)
        BY <2>3 DEF GenFinish, InProgress
      <4>2. Catalog!Create(ruuid[r])
        BY <2>3, <3>1, <3>2, <4>1, InsertRefines DEF GenFinish, CreateReqs
      <4>3. ruuid[r] \in Uuids
        BY <4>1 DEF RInv, IInv, CreateUuids, TypeInv, CreateReqs
      <4>4. QED
        BY <4>2, <4>3
    <3>3. CASE ~ok
      BY <2>3, <3>1, <3>3, <1>1 DEF GenFinish, CreateReqs
    <3>4. QED
      BY <3>2, <3>3
  <2>4. QED
    BY <2>1, <2>2, <2>3
<1>4. CASE \E r \in DelReqs : DelBegin(r)
  <2>1. PICK r \in DelReqs : DelBegin(r)
    BY <1>4
  <2>2. PICK u \in Uuids :
          IF u \in instances
            THEN /\ instances' = instances \ {u}
                 /\ ruuid' = [ruuid EXCEPT ![r] = u]
                 /\ pc' = [pc EXCEPT ![r] = "Check"]
            ELSE UNCHANGED <<instances, ruuid>> /\ pc' = [pc EXCEPT ![r] = "Refused"]
    BY <2>1 DEF DelBegin
  <2>3. CASE u \in instances
    <3>1. LiveInstances' = LiveInstances
      BY <2>1, <2>2, <2>3, DelTakeKeepsLive DEF DelBegin
    <3>2. QED
      BY <2>1, <3>1, StutterStep DEF DelBegin
  <2>4. CASE u \notin instances
    <3>0. pc' = [pc EXCEPT ![r] = "Refused"] /\ UNCHANGED <<instances, ruuid>>
      BY <2>2, <2>4
    <3>1. \A d \in DelReqs : d # r => pc'[d] = pc[d]
      BY <1>0, <3>0
    <3>2. pc'[r] = "Refused" /\ pc[r] = "Idle"
      BY <1>0, <2>1, <3>0 DEF DelBegin, Reqs
    <3>3. LiveInstances' = LiveInstances
      BY <3>0, <3>1, <3>2 DEF LiveInstances
    <3>4. QED
      BY <2>1, <3>3, StutterStep DEF DelBegin
  <2>5. QED
    BY <2>3, <2>4
<1>5. CASE \E r \in DelReqs : DelCheck(r)
  <2>1. PICK r \in DelReqs : DelCheck(r)
    BY <1>5
  <2>2. pc[r] = "Check" /\ UNCHANGED <<running, registered, ruuid>>
    BY <2>1 DEF DelCheck
  <2>3. CASE ruuid[r] \in running
    <3>1. instances' = instances \cup {ruuid[r]} /\ pc' = [pc EXCEPT ![r] = "Refused"]
      BY <2>1, <2>3 DEF DelCheck
    <3>2. QED
      BY <2>2, <3>1, DelReinsertKeepsLive, StutterStep
  <2>4. CASE ruuid[r] \notin running
    <3>1. PICK ok \in Outcome :
            IF ok THEN UNCHANGED instances /\ pc' = [pc EXCEPT ![r] = "Cleanup"]
            ELSE instances' = instances \cup {ruuid[r]} /\ pc' = [pc EXCEPT ![r] = "Refused"]
      BY <2>1, <2>4 DEF DelCheck
    <3>2. CASE ok
      <4>1. Catalog!Delete(ruuid[r])
        BY <2>2, <2>4, <3>1, <3>2, DelCheckOkRefines
      <4>2. ruuid[r] \in Uuids
        BY <2>2 DEF RInv, IInv, TypeInv, RegExtra
      <4>3. QED
        BY <4>1, <4>2
    <3>3. CASE ~ok
      BY <2>2, <3>1, <3>3, DelReinsertKeepsLive, StutterStep
    <3>4. QED
      BY <3>2, <3>3
  <2>5. QED
    BY <2>3, <2>4
<1>6. CASE \E r \in DelReqs : DelCleanup(r)
  <2>1. PICK r \in DelReqs : DelCleanup(r)
    BY <1>6
  <2>2. \A d \in DelReqs : d # r => pc'[d] = pc[d]
    BY <1>0, <2>1 DEF DelCleanup
  <2>3. pc'[r] = "Done" /\ pc[r] = "Cleanup"
    BY <1>0, <2>1 DEF DelCleanup, Reqs
  <2>4. LiveInstances' = LiveInstances
    BY <2>1, <2>2, <2>3 DEF DelCleanup, LiveInstances
  <2>5. QED
    BY <2>1, <2>4, StutterStep DEF DelCleanup
<1>7. CASE \E u \in Uuids : StartInstance(u) \/ StopInstance(u)
  <2>1. PICK u \in Uuids : StartInstance(u) \/ StopInstance(u)
    BY <1>7
  <2>2. LiveInstances' = LiveInstances
    BY <2>1 DEF StartInstance, StopInstance, LiveInstances
  <2>3. CASE StartInstance(u)
    <3>1. Catalog!Start(u)
      BY <2>2, <2>3 DEF StartInstance, Catalog!Start, LiveInstances
    <3>2. QED
      BY <3>1
  <2>4. CASE StopInstance(u)
    <3>1. Catalog!Stop(u)
      BY <2>2, <2>4 DEF StopInstance, Catalog!Stop
    <3>2. QED
      BY <3>1
  <2>5. QED
    BY <2>1, <2>3, <2>4
<1>8. CASE UNCHANGED vars
  BY <1>8, StutterStep DEF vars, LiveInstances
<1>9. QED
  BY <1>2, <1>3, <1>4, <1>5, <1>6, <1>7, <1>8 DEF Next

(* The catalogue runs only live instances, and so do the handlers. *)
LEMMA CatalogKeepsActiveLive ==
  ActiveLive /\ [Catalog!Next]_Catalog!catalogVars => ActiveLive'
BY DEF ActiveLive, Catalog!Next, Catalog!catalogVars, Catalog!Create,
       Catalog!Delete, Catalog!Start, Catalog!Stop

LEMMA NextRInv == RInv /\ [Next]_vars => RInv'
<1> SUFFICES ASSUME RInv, [Next]_vars PROVE RInv'
  OBVIOUS
<1>1. IInv'
  BY NextIInv DEF RInv
<1>2. RegExtra'
  <2>1. CASE \E r \in McReqs : McBegin(r)
    <3>1. PICK r \in McReqs : McBegin(r)
      BY <2>1
    <3>2. PICK u \in Uuids \ used : CreateFiles(r, u, "Setup")
      BY <3>1 DEF McBegin
    <3>3. QED
      BY <3>1, <3>2, BeginRegExtra DEF McBegin, CreateReqs
  <2>2. CASE \E r \in McReqs : McSetup(r)
    BY <2>2, McSetupRegExtra
  <2>3. CASE \E r \in McReqs : McRegister(r)
    BY <2>3, McRegisterRegExtra
  <2>4. CASE \E r \in GenReqs : GenBegin(r)
    <3>1. PICK r \in GenReqs : GenBegin(r)
      BY <2>4
    <3>2. PICK u \in Uuids \ used : CreateFiles(r, u, "Construct")
      BY <3>1 DEF GenBegin
    <3>3. QED
      BY <3>1, <3>2, BeginRegExtra DEF GenBegin, CreateReqs
  <2>5. CASE \E r \in GenReqs : GenFinish(r)
    BY <2>5, GenFinishRegExtra
  <2>6. CASE \E r \in DelReqs : DelBegin(r)
    BY <2>6, DelBeginRegExtra
  <2>7. CASE \E r \in DelReqs : DelCheck(r)
    BY <2>7, DelCheckRegExtra
  <2>8. CASE \E r \in DelReqs : DelCleanup(r)
    BY <2>8 DEF DelCleanup, RInv, RegExtra, InProgress, CreateReqs
  <2>9. CASE \E u \in Uuids : StartInstance(u) \/ StopInstance(u)
    BY <2>9 DEF StartInstance, StopInstance, RInv, RegExtra, InProgress
  <2>10. CASE UNCHANGED vars
    BY <2>10 DEF vars, RInv, RegExtra, InProgress
  <2>11. QED
    BY <2>1, <2>2, <2>3, <2>4, <2>5, <2>6, <2>7, <2>8, <2>9, <2>10 DEF Next
<1>3. ActiveLive'
  <2>1. [Catalog!Next]_Catalog!catalogVars
    BY StepRefines
  <2>2. QED
    BY <2>1, CatalogKeepsActiveLive DEF RInv
<1>4. QED
  BY <1>1, <1>2, <1>3 DEF RInv

(* The handlers implement the catalogue: every behaviour of
   InstanceRegistry, seen through LiveInstances, running and the retired
   UUIDs, is a behaviour of InstanceCatalog (checked by registry_pass). *)
THEOREM CatalogRefinementCorrect == Spec => CatalogRefinement
<1>1. Init => Catalog!Init
  BY DEF Init, Catalog!Init, LiveInstances, Reqs
<1>2. QED
  BY <1>1, InitRInv, NextRInv, StepRefines, PTL
     DEF Spec, CatalogRefinement, Catalog!Spec

-----------------------------------------------------------------------------
(* The steps that remove a config: a failed set-up on the UUID it is
   creating, and the state check of a delete on a stopped instance. *)
LEMMA ConfigStep ==
  RInv /\ [Next]_vars => \A u \in configs \ configs' : u \notin running
<1> SUFFICES ASSUME RInv, [Next]_vars, NEW u \in configs, u \notin configs'
             PROVE  u \notin running
  OBVIOUS
<1>1. CASE \E r \in McReqs : McSetup(r)
  <2>1. PICK r \in McReqs : McSetup(r)
    BY <1>1
  <2>2. u = ruuid[r] /\ InProgress(r)
    BY <2>1 DEF McSetup, InProgress
  <2>3. u \notin LiveInstances
    BY <2>2 DEF RInv, IInv, CreateUuids, Deleting, LiveInstances, CreateReqs
  <2>4. QED
    BY <2>3 DEF RInv, ActiveLive
<1>2. CASE \E r \in DelReqs : DelCheck(r)
  <2>1. PICK r \in DelReqs : DelCheck(r)
    BY <1>2
  <2>2. QED
    BY <2>1 DEF DelCheck
<1>3. CASE \E r \in McReqs : McBegin(r)
  <2>1. PICK r \in McReqs : McBegin(r)
    BY <1>3
  <2>2. PICK v \in Uuids \ used : CreateFiles(r, v, "Setup")
    BY <2>1 DEF McBegin
  <2>3. QED
    BY <2>2 DEF CreateFiles
<1>4. CASE \E r \in GenReqs : GenBegin(r)
  <2>1. PICK r \in GenReqs : GenBegin(r)
    BY <1>4
  <2>2. PICK v \in Uuids \ used : CreateFiles(r, v, "Construct")
    BY <2>1 DEF GenBegin
  <2>3. QED
    BY <2>2 DEF CreateFiles
<1>5. QED
  BY <1>1, <1>2, <1>3, <1>4
     DEF Next, vars, McRegister, GenFinish, DelBegin, DelCleanup,
         StartInstance, StopInstance

(* No step of the handlers removes the .lodestone_config of a running
   instance, for any numbers of requests, UUIDs and ports, with faults
   (checked by registry_pass). *)
THEOREM ConfigKeptWhileRunningCorrect == Spec => ConfigKeptWhileRunning
<1>1. Spec => []RInv
  BY InitRInv, NextRInv, PTL DEF Spec
<1>2. QED
  BY <1>1, ConfigStep, PTL DEF Spec, ConfigKeptWhileRunning

=============================================================================
