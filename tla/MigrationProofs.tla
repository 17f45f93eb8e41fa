---------------------------- MODULE MigrationProofs ----------------------------
(***************************************************************************)
(* Proof that migrate_v042_to_v044 returns Ok only when every instance    *)
(* read_dir yielded to the run is fully migrated, for any set of instance  *)
(* directories, any entries lost by read_dir, any number of crashes        *)
(* and I/O failures, and whether or not a migrated config parses as an    *)
(* old one.                                                                *)
(***************************************************************************)
EXTENDS Migration, TLAPS

PCs == {"Down", "Loop", "WriteConfig", "WriteMc", "Ok", "Err"}

MTypeOK ==
  /\ config \in [Dirs -> ConfigStates]
  /\ mcConfig \in [Dirs -> {"None", "New", "Torn"}]
  /\ pc \in PCs
  /\ listed \subseteq Dirs
  /\ todo \subseteq listed
  /\ faults \in Nat

(* An instance the migration is done with: it has no config, or both
   files in the new format. *)
Settled(d) == config[d] = "None" \/ (config[d] = "New" /\ mcConfig[d] = "New")

(* Every entry the current run has visited (of those read_dir yielded) is
   settled, except the one it
   is writing, which has a config and is no longer to visit; the second
   write happens only after the first succeeded. *)
MInv ==
  /\ MTypeOK
  /\ pc = "Ok" => \A d \in listed : Settled(d)
  /\ pc = "Loop" => \A d \in listed \ todo : Settled(d)
  /\ pc \in {"WriteConfig", "WriteMc"} =>
       /\ cur \in listed \ todo
       /\ config[cur] # "None"
       /\ \A d \in (listed \ todo) \ {cur} : Settled(d)
  /\ pc = "WriteMc" => config[cur] = "New"

-----------------------------------------------------------------------------
LEMMA InitMInv == Init => MInv
<1>1. Init => MTypeOK
  BY DEF Init, MTypeOK, PCs, ConfigStates
<1>2. Init => pc = "Down"
  BY DEF Init
<1>3. QED
  BY <1>1, <1>2 DEF MInv

(* A run starts over the entries read_dir yields, all still to visit. *)
LEMMA StartMInv == MInv /\ Start => MInv'
<1> SUFFICES ASSUME MInv, Start PROVE MInv'
  OBVIOUS
<1>1. UNCHANGED <<config, mcConfig, cur>> /\ pc \in {"Down", "Err"}
  BY DEF Start
<1>2. CASE pc' = "Loop"
  <2>1. listed' \subseteq Dirs /\ todo' = listed' /\ faults' \in Nat
    BY <1>2 DEF Start, MInv, MTypeOK
  <2>2. QED
    BY <1>1, <1>2, <2>1 DEF MInv, MTypeOK, PCs
<1>3. CASE pc' = "Err"
  <2>1. UNCHANGED <<listed, todo>> /\ faults' = faults + 1
    BY <1>3 DEF Start
  <2>2. QED
    BY <1>1, <1>3, <2>1 DEF MInv, MTypeOK, PCs
<1>4. QED
  BY <1>2, <1>3 DEF Start

(* The loop ends only once every entry is visited, so all are settled. *)
LEMMA FinishMInv == MInv /\ Finish => MInv'
<1> SUFFICES ASSUME MInv, Finish PROVE MInv'
  OBVIOUS
<1>1. pc = "Loop" /\ todo = {} /\ pc' = "Ok" /\ UNCHANGED <<config, mcConfig, listed, todo, cur, faults>>
  BY DEF Finish
<1>2. \A d \in listed : Settled(d)
  BY <1>1 DEF MInv
<1>3. MTypeOK'
  BY <1>1 DEF MInv, MTypeOK, PCs
<1>4. \A d \in listed' : Settled(d)'
  BY <1>1, <1>2 DEF Settled
<1>5. QED
  BY <1>1, <1>3, <1>4 DEF MInv

(* A visit settles an entry without a config, or makes it the one being
   written. *)
LEMMA VisitMInv ==
  ASSUME MInv, NEW d \in Dirs, Visit(d)
  PROVE  MInv'
<1>1. pc = "Loop" /\ d \in todo /\ todo' = todo \ {d} /\ UNCHANGED <<config, mcConfig, listed>>
  BY DEF Visit
<1>2. CASE config[d] = "None"
  <2>1. UNCHANGED <<pc, cur, faults>>
    BY <1>2 DEF Visit
  <2>2. QED
    BY <1>1, <1>2, <2>1 DEF MInv, MTypeOK, Settled
<1>3. CASE config[d] # "None"
  <2>1. \/ pc' = "WriteConfig" /\ cur' = d /\ UNCHANGED faults
        \/ pc' = "Err" /\ UNCHANGED cur /\ faults' \in {faults, faults + 1}
    BY <1>3 DEF Visit
  <2>2. QED
    BY <1>1, <1>3, <2>1 DEF MInv, MTypeOK, PCs, Settled
<1>4. QED
  BY <1>2, <1>3

LEMMA WriteConfigMInv == MInv /\ WriteConfig => MInv'
<1> SUFFICES ASSUME MInv, WriteConfig PROVE MInv'
  OBVIOUS
<1>1. cur \in listed \ todo /\ UNCHANGED <<mcConfig, listed, todo, cur>>
  BY DEF WriteConfig, MInv
<1>2. CASE config' = [config EXCEPT ![cur] = "New"] /\ pc' = "WriteMc" /\ UNCHANGED faults
  BY <1>1, <1>2 DEF WriteConfig, MInv, MTypeOK, PCs, ConfigStates, Settled
<1>3. CASE pc' = "Err" /\ faults' = faults + 1
           /\ config' \in {config, [config EXCEPT ![cur] = "Torn"]}
  BY <1>1, <1>3 DEF MInv, MTypeOK, PCs, ConfigStates
<1>4. QED
  BY <1>2, <1>3 DEF WriteConfig, CanFail

(* The second write settles the entry being written. *)
LEMMA WriteMcMInv == MInv /\ WriteMc => MInv'
<1> SUFFICES ASSUME MInv, WriteMc PROVE MInv'
  OBVIOUS
<1>1. pc = "WriteMc" /\ cur \in listed \ todo /\ config[cur] = "New" /\ UNCHANGED <<config, listed, todo, cur>>
  BY DEF WriteMc, MInv
<1>2. CASE mcConfig' = [mcConfig EXCEPT ![cur] = "New"] /\ pc' = "Loop" /\ UNCHANGED faults
  <2>1. MTypeOK'
    BY <1>1, <1>2 DEF MInv, MTypeOK, PCs
  <2>2. \A d \in listed \ todo : Settled(d)'
    <3> TAKE d \in listed \ todo
    <3>1. CASE d = cur
      BY <1>1, <1>2, <3>1 DEF MInv, MTypeOK, Settled
    <3>2. CASE d # cur
      <4>1. Settled(d)
        BY <1>1, <3>2 DEF MInv
      <4>2. mcConfig'[d] = mcConfig[d]
        BY <1>1, <1>2, <3>2 DEF MInv, MTypeOK
      <4>3. QED
        BY <1>1, <4>1, <4>2 DEF Settled
    <3>3. QED
      BY <3>1, <3>2
  <2>3. pc' = "Loop"
    BY <1>2
  <2>4. QED
    BY <1>1, <2>1, <2>2, <2>3 DEF MInv
<1>3. CASE pc' = "Err" /\ faults' = faults + 1
           /\ mcConfig' \in {mcConfig, [mcConfig EXCEPT ![cur] = "Torn"]}
  BY <1>1, <1>3 DEF MInv, MTypeOK, PCs
<1>4. QED
  BY <1>2, <1>3 DEF WriteMc, CanFail

LEMMA CrashMInv == MInv /\ Crash => MInv'
<1> SUFFICES ASSUME MInv, Crash PROVE MInv'
  OBVIOUS
<1>1. pc' = "Down" /\ faults' = faults + 1 /\ UNCHANGED <<listed, todo, cur>>
  BY DEF Crash
<1>2. config' \in {config, [config EXCEPT ![cur] = "Torn"]}
      /\ mcConfig' \in {mcConfig, [mcConfig EXCEPT ![cur] = "Torn"]}
  BY DEF Crash
<1>3. QED
  BY <1>1, <1>2 DEF MInv, MTypeOK, PCs, ConfigStates

LEMMA NextMInv == MInv /\ [Next]_vars => MInv'
<1> SUFFICES ASSUME MInv, [Next]_vars PROVE MInv'
  OBVIOUS
<1>1. CASE \E d \in Dirs : Visit(d)
  BY <1>1, VisitMInv
<1>2. CASE UNCHANGED vars
  BY <1>2 DEF vars, MInv, MTypeOK, Settled
<1>3. QED
  BY <1>1, <1>2, StartMInv, FinishMInv, WriteConfigMInv, WriteMcMInv, CrashMInv DEF Next

(* Whenever migrate_v042_to_v044 has returned Ok, every instance that
   read_dir yielded to that run and that has a .lodestone_config has both
   files in the new format, whatever crashes, torn writes and failed runs
   came before. *)
THEOREM CompleteWhenOkCorrect == Spec => []CompleteWhenOk
<1>1. MInv => CompleteWhenOk
  BY DEF MInv, CompleteWhenOk, Settled
<1>2. QED
  BY <1>1, InitMInv, NextMInv, PTL DEF Spec

=============================================================================
