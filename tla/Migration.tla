------------------------------- MODULE Migration -------------------------------
(***************************************************************************)
(* migrate_v042_to_v044 of core/src/migration/v042_to_v044.rs.  The run    *)
(* walks the entries of the instances directory in read_dir's order (left  *)
(* open), silently drops an entry whose read fails (filter_map of          *)
(* entry.ok()), skips an entry without a .lodestone_config file, and       *)
(* migrates the others one at a time: it parses the config as a v0.4.2     *)
(* restore config, rewrites .lodestone_config in the new format, then     *)
(* writes .lodestone_minecraft_config.json.  The first error ends the     *)
(* run.                                                                   *)
(*                                                                         *)
(* The process may crash at any point of a run; std::fs::write truncates   *)
(* before it writes, so a crash or an error inside a write leaves the file *)
(* torn.  The caller is not under src/: the core is assumed to run the     *)
(* migration again at its next start, until a run returns Ok.              *)
(***************************************************************************)
EXTENDS Naturals

CONSTANTS
  Dirs,           \* the entries of the instances directory
  NewParsesAsOld, \* whether a config in the new format deserializes as RestoreConfigV042
  MaxFaults       \* the crashes and I/O failures a behaviour may contain

VARIABLES
  config,    \* each entry's .lodestone_config: "None", "Old", "New" or "Torn"
  mcConfig,  \* each entry's .lodestone_minecraft_config.json: "None", "New" or "Torn"
  pc,        \* "Down" (not running), "Loop", "WriteConfig", "WriteMc", "Ok", "Err"
  listed,    \* the entries read_dir yielded to the current run
  todo,      \* the entries the current run has not visited yet
  cur,       \* the entry being migrated
  faults     \* the faults so far

vars == <<config, mcConfig, pc, listed, todo, cur, faults>>

ConfigStates == {"None", "Old", "New", "Torn"}

(* Whether one more fault may happen. *)
CanFail == faults < MaxFaults

(* A directory of v0.4.2 holds an old config or none. *)
Init ==
  /\ config \in [Dirs -> {"None", "Old"}]
  /\ mcConfig = [d \in Dirs |-> "None"]
  /\ pc = "Down"
  /\ listed = {}
  /\ todo = {}
  /\ cur = CHOOSE d \in Dirs : TRUE
  /\ faults = 0

(* A start of the core calls migrate_v042_to_v044; read_dir may fail, and
   an entry it yields as an Err is dropped by filter_map (one fault for
   the run, whatever the number of entries lost). *)
Start ==
  /\ pc \in {"Down", "Err"}
  /\ \/ pc' = "Loop" /\ listed' = Dirs /\ todo' = Dirs /\ UNCHANGED faults
     \/ CanFail /\ pc' = "Loop" /\ faults' = faults + 1
        /\ \E L \in SUBSET Dirs : L # Dirs /\ listed' = L /\ todo' = L
     \/ CanFail /\ pc' = "Err" /\ faults' = faults + 1 /\ UNCHANGED <<listed, todo>>
  /\ UNCHANGED <<config, mcConfig, cur>>

(* Whether serde_json parses the file (from_reader) and then reads it as
   a RestoreConfigV042 (from_value). *)
ParsesAsOld(c) == c = "Old" \/ (c = "New" /\ NewParsesAsOld)

(* One entry of the loop: skipped without a config file; otherwise the
   file is opened (which may fail) and parsed, and the run either goes on
   to rewrite it or returns the error. *)
Visit(d) ==
  /\ pc = "Loop"
  /\ d \in todo
  /\ todo' = todo \ {d}
  /\ IF config[d] = "None" THEN UNCHANGED <<pc, cur, faults>>
     ELSE \/ ParsesAsOld(config[d]) /\ pc' = "WriteConfig" /\ cur' = d /\ UNCHANGED faults
          \/ ~ParsesAsOld(config[d]) /\ pc' = "Err" /\ UNCHANGED <<cur, faults>>
          \/ CanFail /\ pc' = "Err" /\ faults' = faults + 1 /\ UNCHANGED cur
  /\ UNCHANGED <<config, mcConfig, listed>>

(* The loop ends: Ok(()). *)
Finish ==
  /\ pc = "Loop"
  /\ todo = {}
  /\ pc' = "Ok"
  /\ UNCHANGED <<config, mcConfig, listed, todo, cur, faults>>

(* std::fs::write of .lodestone_config in the new format; a failure may
   leave it torn. *)
WriteConfig ==
  /\ pc = "WriteConfig"
  /\ \/ config' = [config EXCEPT ![cur] = "New"] /\ pc' = "WriteMc" /\ UNCHANGED faults
     \/ CanFail /\ pc' = "Err" /\ faults' = faults + 1
        /\ config' \in {config, [config EXCEPT ![cur] = "Torn"]}
  /\ UNCHANGED <<mcConfig, listed, todo, cur>>

(* std::fs::write of .lodestone_minecraft_config.json, then the loop goes
   on with the next entry. *)
WriteMc ==
  /\ pc = "WriteMc"
  /\ \/ mcConfig' = [mcConfig EXCEPT ![cur] = "New"] /\ pc' = "Loop" /\ UNCHANGED faults
     \/ CanFail /\ pc' = "Err" /\ faults' = faults + 1
        /\ mcConfig' \in {mcConfig, [mcConfig EXCEPT ![cur] = "Torn"]}
  /\ UNCHANGED <<config, listed, todo, cur>>

(* The process dies during a run; a write in progress leaves its file
   torn or as it was. *)
Crash ==
  /\ pc \in {"Loop", "WriteConfig", "WriteMc"}
  /\ CanFail
  /\ pc' = "Down"
  /\ faults' = faults + 1
  /\ config' \in IF pc = "WriteConfig" THEN {config, [config EXCEPT ![cur] = "Torn"]} ELSE {config}
  /\ mcConfig' \in IF pc = "WriteMc" THEN {mcConfig, [mcConfig EXCEPT ![cur] = "Torn"]} ELSE {mcConfig}
  /\ UNCHANGED <<listed, todo, cur>>

Next ==
  \/ Start \/ Finish \/ WriteConfig \/ WriteMc \/ Crash
  \/ \E d \in Dirs : Visit(d)

(* A run, once started, goes on (it is one synchronous call), and the
   core is started again after a crash or an error. *)
Spec == Init /\ [][Next]_vars /\ WF_vars(Next)

-----------------------------------------------------------------------------
(* When migrate_v042_to_v044 returns Ok, every instance that read_dir
   yielded to that run and that has a .lodestone_config has it in the new
   format and has its .lodestone_minecraft_config.json: no crash, failed
   write or earlier failed run leaves a half-migrated instance behind an
   Ok among the entries the run saw. *)
CompleteWhenOk ==
  pc = "Ok" => \A d \in listed : config[d] # "None" => config[d] = "New" /\ mcConfig[d] = "New"

(* The same over every entry of the instances directory.  It does not
   hold: an entry filter_map drops is never visited, and the run still
   returns Ok (hazard at v042_to_v044.rs:39). *)
CompleteForAllDirs ==
  pc = "Ok" => \A d \in Dirs : config[d] # "None" => config[d] = "New" /\ mcConfig[d] = "New"

(* The migration, run at every start until it succeeds, eventually
   succeeds once the faults stop. *)
EventuallyMigrated == <>(pc = "Ok")

=============================================================================
