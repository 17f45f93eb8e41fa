# Lodestone: TLA+ models of the macro subsystem, the instance and file handlers and the config migration

This directory holds TLA+ models of the Lodestone sources under `src/`. It also holds the TLC configurations that check them and the TLAPS proofs about them. The models follow the Rust code, not `spec.md`. The spec is used only to say what the code is meant to do; where the two disagree, that is reported as a finding.

## 1. The system

The repository is a sample of the Lodestone control plane. Its parts:

| Part | Source | Kind |
|---|---|---|
| Executor facade, process table, supervisor | `src/core/src/macro_executor.rs` 212–567 | concurrent: threads, tokio tasks, broadcast bus |
| Module loader (core) | `src/core/src/macro_executor.rs` 95–210 | pure mapping + file/HTTP I/O |
| Legacy executor | `src/src/macro_executor.rs` 162–393 | concurrent: one LocalSet thread fed by a channel |
| Legacy loader, `resolve_macro_invocation` | `src/src/macro_executor.rs` 42–160 | pure lookup over a file tree |
| Instance handlers | `src/core/src/handlers/instance.rs` | concurrent HTTP handlers over a shared map and port allocator |
| Global filesystem handlers | `src/core/src/handlers/global_fs.rs` | HTTP handlers over the file system |
| Config migration v0.4.2→v0.4.4 | `src/core/src/migration/v042_to_v044.rs` | file rewrite, crash-sensitive |
| System / core-info handlers, player trait | `handlers/system.rs`, `handlers/core_info.rs`, `traits/t_player.rs` | read-only queries, declarations |

### How the core executor's parts interact

`MacroExecutor::spawn` takes a PID from an atomic counter (284). It resolves the current directory, which may fail (295–299). It then starts a **supervisor** OS thread (300). The supervisor does these steps in order:

1. Builds the worker and runs `deps_inject`, whose `unwrap` may panic (311–343).
2. Inserts the isolate handle into `macro_process_table` (348).
3. Resolves the main module, returning silently on error (350–359).
4. Publishes `Started` (361).
5. Runs the main module (370) and then the event loop (404). An error publishes `Stopped(Killed)` when its text is the termination message, and `Stopped(Error)` otherwise.
6. Publishes `Stopped(Success)` (439).
7. Once `block_on` returns, the thread wrapper publishes `Stopped(Error "…panicked")` without any condition (461).

Meanwhile `spawn` subscribes to the bus (481). It waits up to one second for the `Started` of its own PID (483–505).

Three other actors observe the bus:

- the **listener task** of `MacroExecutor::new` (235–253), which copies every `Stopped` into `exit_status_table`;
- the **exit future** `wait_with_timeout` (545–562), which subscribes when first polled and resolves with the first `Stopped` of its PID;
- `get_macro_status` (564), which reads the table.

`abort_macro` (514–523) calls `terminate_execution` on the handle in the table, or answers `NotFound`.

The bus is a tokio broadcast channel. A subscriber sees only events sent after it subscribed. A receiver more than the capacity behind gets `Err(Lagged)` and resumes at the oldest retained event.

### Hard behaviours of the core executor

- Several OS threads and tokio tasks act on one bus.
- Subscriptions are made late.
- A timeout races the `Started` event.
- Termination is requested from another thread and served only at a safepoint of the guest.
- A host step can fail between registration and `Started`.
- A lagging receiver can drop events or panic.

### Correctness properties, per component

**Spawn and supervisor:**
- spawn returns Ok only for a started, registered PID;
- spawn fails only when Started was not published in time;
- Killed only follows an abort;
- one Stopped per PID;
- every macro that returns, or that is aborted, publishes Stopped.

**Observers:**
- an exit future subscribed before its Stopped resolves;
- every exit future of a returning macro resolves;
- it never panics;
- once it resolved, `get_macro_status` agrees with it.

**Legacy executor:**
- a waiter of a finished macro returns (the MacroStopped event carries the macro's own PID);
- a running script is registered, so that it can be aborted;
- every spawn is served and every task ends when no script spins;
- one MacroStopped per finished task;
- a spawn is served while another macro runs.

**Loaders and macro resolution:**
- a file: import loads the file spec 4.1 chooses (extension inference, index files), with the module type and transpile flag of its table;
- a macro missing from the macro directory is looked up in `in_game/`.

**Instances:**
- delete never removes the files of a running instance;
- every instance in the map has its `.lodestone_config`;
- a registered instance leaves the map only through a delete;
- the creator of an instance keeps the permissions granted on it;
- no `.lodestone_config` is left without an instance.

**Migration:**
- an Ok is returned only over fully migrated instances, whatever crashes and failed runs came before;
- rerun at every start, the migration eventually succeeds.

**Global filesystem:**
- an upload never overwrites a file: it creates a path that does not exist;
- every progression an upload starts is ended;
- no upload panics the handler.

## 2. Modules

| Module | Models | Notes |
|---|---|---|
| `MacroSpawn` | `spawn`, the supervisor thread, `abort_macro` | core component; proved about |
| `MacroExecutor` | `MacroSpawn` + listener task + exit future + `get_macro_status` | composition: `EXTENDS MacroSpawn`; each MacroSpawn step is wrapped as `Spawning(A) == A /\ UNCHANGED observerVars` |
| `MacroSpawnProofs` | TLAPS proofs about `MacroSpawn` | |
| `MacroExecutorProofs` | TLAPS proof of `TypeOK` of `MacroExecutor` | |
| `LegacyMacroExecutor` | `src/src/macro_executor.rs`: the LocalSet thread (dispatcher loop and macro tasks), `spawn`, `abort_macro`, `wait_with_timeout`, `get_macro_status` | |
| `LegacyMacroExecutorProofs` | TLAPS proof of `LegacyTypeOK` | |
| `ModuleLoader` | both `TypescriptModuleLoader::load`s and `resolve_macro_invocation`, as operators over a file tree; the rules of spec 4.1 as a reference | |
| `ModuleLoaderProofs` | TLAPS proofs that both loaders agree with spec 4.1 where the runs say they do | |
| `InstanceRegistry` | `handlers/instance.rs`: the two create handlers (with the Minecraft set-up task) and delete | |
| `InstanceRegistryProofs` | TLAPS proofs about `InstanceRegistry` | |
| `InstanceCatalog` | what the instance handlers promise: a catalogue of live instances, running or stopped, changed by whole creates, deletes, starts and stops | abstract specification |
| `InstanceCatalogRefinement` | TLAPS proof that `InstanceRegistry` implements `InstanceCatalog`, and of `ConfigKeptWhileRunning` | |
| `Migration` | `migration/v042_to_v044.rs`: the loop over the instances, the per-instance parse and two writes, crashes and torn writes | fault model bounded by `MaxFaults` |
| `MigrationProofs` | TLAPS proof of `CompleteWhenOk` | |
| `GlobalFs` | `handlers/global_fs.rs`: `upload_file` step by step, and the one-call handlers on the same directory | |
| `MCMacroSpawn`, `MCMacroExecutor`, `MCLegacyMacroExecutor`, `MCModuleLoader`, `MCInstanceRegistry`, `MCMigration`, `MCGlobalFs` | TLC instances (guest error renderings, file trees, model values) | |

### MacroSpawn: state and actions

**State:**

| Variable | Code |
|---|---|
| `nextPid` | `next_process_id` |
| `phase[p]` | the control point of p's supervisor thread: Starting, Resolving, Main, Loop, Finish, TaskDone (the local task returned), Exited (the wrapper sent its Stopped) |
| `hang[p]` | whether p's script never returns by itself |
| `table` | the PIDs in `macro_process_table` |
| `terminated` | the PIDs whose isolate had `terminate_execution` called |
| `bus` | every event ever sent, in order |
| `sw[p]`, `scur[p]` | the spawn call of p and its receiver cursor |

**Actions:**

| Action | Code |
|---|---|
| `SpawnBegin` | 284–300 |
| `SpawnSubscribe` | 481 |
| `SpawnRecv` | 483–501 |
| `SpawnTimeout` | 503–505 |
| `Construct` | 311–348 |
| `Resolve` | 350–368 |
| `ExecMain` | 370–402 |
| `RunEventLoop` | 404–435 |
| `SendSuccess` | 439–450 |
| `ThreadExit` | 457–474 |
| `AbortMacro` | 514–523 |

**Data abstraction:**

- **Guest code.** A run of guest code ends with `"ok"` or with an error rendering from `RunResults(p)`. A hanging script has no result until it is terminated. A terminated isolate may still return normally, because termination is served at a safepoint.
- **Host faults.** The steps that fail only on a host fault are gated by the constant `SetupFaults`: the current directory, `deps_inject`, and the resolution of the main module.
- **Time.** Wall-clock time is not modelled. `SpawnTimeout` may fire whenever no `Started` of the PID waits for spawn's receiver. That covers both "Started came too late" and "Started came before the subscription".

### MacroExecutor: state and actions

**Extra state:**

| Variable | Code |
|---|---|
| `exitTable` | `exit_status_table` |
| `lcur` | the listener's cursor |
| `ew[p]`, `ecur[p]`, `eres[p]` | the exit future: its state, its cursor and its result |

**Actions:**

| Action | Code |
|---|---|
| `ListenerRecv` | 241–249 |
| `ExitPoll` | the first poll of the exit future, which subscribes at 546 |
| `ExitRecv` | 547–560 |

`GetMacroStatus` models 564–566.

### LegacyMacroExecutor: state and actions

The legacy executor runs every macro as a task of one `LocalSet` thread. `spawn` (318–325) sends an `Instruction::Spawn` over an mpsc channel; the thread's dispatcher loop receives it, builds the macro's runtime, `spawn_local`s the macro task and then awaits the process table's tokio `Mutex` to insert the task's handles.

| Variable | Code |
|---|---|
| `nextPid` | `next_process_id` |
| `chan` | the instruction channel (PIDs of pending `Spawn`s) |
| `loopAt` | the PID whose insert the dispatcher is parked on the Mutex for, or `NoPid` |
| `task[p]`, `spin[p]` | the macro task's control point, and whether its script spins without yielding |
| `table`, `lockHolder` | the PIDs in the process table, and who holds its Mutex |
| `terminated` | the PIDs whose isolate had `terminate_execution` called |
| `bus` | the PIDs carried by the MacroStopped events sent so far |
| `wst[p]`, `wcur[p]` | a `wait_with_timeout` call for p and its receiver cursor |

| Action | Code |
|---|---|
| `Spawn` | 318–325 |
| `LoopRecv` | 225–285 (receive, build the runtime or fail, `spawn_local`, and the insert when the Mutex is free) |
| `LoopInsert` | 282–285 (the insert after the dispatcher parked on a held Mutex) |
| `TaskRun`, `TaskUnspin`, `TaskEnd` | 249–279 (the task: resolve, run, send MacroStopped with `process_id.load()` at 276) |
| `AbortLock`, `AbortDone` | 328–339 (`AbortLock` waits while the Mutex is handed to a parked dispatcher) |
| `WaitCall`, `WaitRecv`, `WaitTimeout` | 348–377 |

`ThreadFree` (no task spinning) guards every step of the LocalSet thread: a script that never yields holds it. Nothing yields between `spawn_local` and `process_table.lock().await`, so when the Mutex is free the insert happens in the dispatcher's own poll, before the new task is first polled: `LoopRecv` does both. When an `abort_macro` holds the Mutex the dispatcher parks (`loopAt = p`), and the LocalSet may poll the new task first. tokio's Mutex hands a released permit to its first waiter, so while the dispatcher is parked no new `abort_macro` can take the Mutex: `AbortLock` requires `loopAt = NoPid`. A `lock()` that yields on an exhausted coop budget (after about a hundred instructions received in one poll) is not modelled.

**Fairness.** The LocalSet steps are weakly fair (the thread runs whatever is ready). `EveryMacroCompletes` is stated under the hypothesis that every spinning script eventually stops spinning (an `abort_macro` terminates it); without it a spinning script starves the thread, which `MacroProgress` shows. `LoopInsert` is weakly fair: once the holder releases the Mutex it belongs to the parked dispatcher, so the insert stays enabled until the thread runs it. Callers (`spawn`, `abort_macro`, `wait_with_timeout`) and timeouts are not fair.

### Migration: state and actions

`migrate_v042_to_v044` (32–54) walks the instances directory and calls `migrate_v042_instance_to_v044` (56–97) on every entry that has a `.lodestone_config`. That function parses the file as JSON, renames the flavour, reads it as a `RestoreConfigV042`, writes `.lodestone_config` in the new format, then writes `.lodestone_minecraft_config.json`. The first error returns from the whole migration. The JSON content is abstracted to the file's format.

| Variable | Code |
|---|---|
| `config[d]`, `mcConfig[d]` | the two files of entry d: absent, old, new or torn |
| `pc` | the run's control point: `Down` (process not running), `Loop`, `WriteConfig`, `WriteMc`, `Ok`, `Err` |
| `listed` | the entries `read_dir` yielded to the current run, after `filter_map(entry.ok())` |
| `todo`, `cur` | the listed entries the run has still to visit, the entry being migrated |
| `faults` | crashes and I/O errors so far, at most `MaxFaults` |

| Action | Code |
|---|---|
| `Start` | 32–39: a start of the core calls the migration; `read_dir` may fail, and an entry it fails to read is dropped by `filter_map` (one fault) |
| `Visit(d)` | 40–51 with the parse of 57–76: skip an entry without a config; open may fail; a file that does not parse as v0.4.2 returns an error |
| `Finish` | 52–54 |
| `WriteConfig`, `WriteMc` | 77–83 and 85–97: `std::fs::write`; an error may leave the file torn, since the write truncates first |
| `Crash` | the process dies anywhere in a run; a write in progress may be torn |

`NewParsesAsOld` says whether a config already in the new format deserializes as `RestoreConfigV042`. Both values are checked; the finding holds for both. The caller is not under `src/`: the model assumes the core runs the migration again at its next start until it returns Ok, and `Spec` is weakly fair on `Next`, since the migration is one synchronous call.

### GlobalFs: state and actions

The handlers of `handlers/global_fs.rs` run concurrently on the tokio runtime and act on one directory. File names are records: a stem (the client's name followed by the postfixes `upload_file` appended) and an extension or `NoExt`.

| Variable | Code |
|---|---|
| `dirExists`, `files` | the upload directory and the names in it |
| `keys` | the names `download_urls` holds a key for |
| `pc[r]`, `target[r]`, `nfields[r]` | an upload's control point, the path it writes, the fields it read |
| `prog[r]` | its progression event: not sent, started, ended, failed |

| Action | Code |
|---|---|
| `UploadBegin` | 460–497: `create_dir_all`, the progression start |
| `UploadField` (with `FreePostfixes`, `Postfixed`) | 499–526: `next_field`, the missing-name error, `exists()` and the collision loop; `extension().unwrap()` panics on a taken name without extension |
| `UploadCreate` | 527–529: `File::create`, which truncates an existing file |
| `UploadChunks` | 531–582: the chunks; on a chunk error the path is removed and the progression ends failed; on a `write_all` error it is removed with no end event |
| `WriteFile`, `NewFile`, `RemoveFile`, `MakeDirectory`, `RemoveDir`, `MoveFile`, `DownloadFile` | the handlers at 181, 365, 294, 218, 329, 256, 401: each one file-system call |

The collision loop is bounded by `MaxPostfix`. Authorization and the FS events change no state the model keeps.

### ModuleLoader: operators over a file tree

The loaders are functions of the file system. The state is a file tree (`files`, `dirs`) that the environment grows one entry at a time (`CreateFile`, `CreateDir`), so that TLC evaluates the operators on every tree over a small universe. A path is a sequence of segments `[name, ext]`; `Join`, `Ext` and `WithExt` are `Path::join`, `extension` and `with_extension`.

| Operator | Code |
|---|---|
| `MediaOf` | `MediaType::from_path` on the extensions a segment can carry |
| `ModuleKind` | the `(module_type, should_transpile)` match (core 129–142; legacy 120–134 is the same table) |
| `LoadFile`, `CoreLoad` | core `load` 124–186: file branch, http branch (status, content-type, table), other schemes |
| `LegacyPath`, `LegacyLoad` | legacy `load` 88–136: `.ts` for an extensionless path, else `.js` if it exists, then `index.ts`/`index.js` in a directory |
| `Attempt`, `ResolveMacroInvocation` | `resolve_macro_invocation` 42–75; the recursion has depth one and is unrolled |

`LoaderAssumption` fixes the universe: every path is a non-empty sequence of `Segment`s, and the environment creates only directories without an extension. A directory named `m.ts` is outside it: the legacy loader would look for `m.ts/index.ts` where spec 4.1 reads `m.js`.

`SpecLoad` is the reference: spec 4.1's candidates (extensionless: `.ts`, `.js`; directory: `index.ts`, `index.js`; otherwise the path) and its media table, written separately from the code's. The transpile step's parse errors and deno's `resolve_import` are not modelled.

### InstanceRegistry: state and actions

The HTTP handlers of `handlers/instance.rs` run concurrently on the tokio runtime and share `state.instances` (a DashMap), the instances' directories, the port manager and the users' permissions. One user makes every request. Each request is a model value of `McReqs`, `GenReqs` or `DelReqs` with a control point `pc[r]`.

| Variable | Code |
|---|---|
| `instances`, `running` | the keys of `state.instances`, and those whose `state()` is not Stopped |
| `dirs`, `configs` | instance directories, and those holding `.lodestone_config` |
| `perms` | the user's stored per-instance permissions |
| `allocated`, `port` | the port manager's ports, and each instance's set-up port |
| `snap[r]` | the copy of `requester.permissions` a Minecraft create holds (69) |
| `used`, `registered`, `ruuid` | UUIDs handed out, UUIDs a create inserted, the UUID of a request |

| Action | Code |
|---|---|
| `McBegin` (with `CreateFiles`) | `create_minecraft_instance` 61–125: UUID, set-up config, `create_dir_all`, the config write, spawn of the set-up task |
| `McSetup` | 126–160: `MinecraftInstance::new`; on failure `remove_dir_all(...).unwrap()` |
| `McRegister` | 161–181: `add_port`, the permission copy plus the new entries written back, the insert |
| `GenBegin`, `GenFinish` | `create_generic_instance` 193–246 |
| `DelBegin`, `DelCheck`, `DelCleanup` | `delete_instance` 248–329: remove from the map; reinsert if running or if `remove_file` fails; deallocate, `remove_dir_all` |

`StartInstance` and `StopInstance` stand for the other handlers and for servers that stop by themselves. Every failure the code returns as an error is a choice under `Faults`. UUID generation picks a fresh UUID: the prefix-collision loop (73–79) guards against a 2^-32 event and is not modelled. A request that answers with an error ends in `Refused` (delete) or `Done` (create).

**Refinement.** `InstanceCatalog` states what the handlers promise over whole operations. `live` is the set of instances that exist and `active` the set of running ones. `deleted` holds the retired UUIDs. `Create(u)` takes a UUID never live or deleted. `Delete(u)` takes a live instance that is stopped. `Start` and `Stop` change `active`. `InstanceRegistry` implements it under this mapping:

- **`live <- LiveInstances`:** the map, plus the instances held by a delete in `Check`. The check either puts the instance back or removes its config, so it is still live until then.
- **`active <- running`.**
- **`deleted <- registered \ LiveInstances`.**

Under this mapping:
- a create's insert is `Create`;
- a delete's check that removes the config is `Delete`;
- the removal from the map, the reinsertion of a running instance and a failed `remove_file` change nothing the catalogue shows.

`CatalogRefinement == Catalog!Spec` is checked as a property of `registry_pass`. The mutant that refuses a running instance without putting it back (`DelCheckNoReinsert`) violates it.

## 3. Runs

Every run uses `TerminatedMsg = "terminated"` and `PanickedMsg = "panicked"`. The guest errors are `{"boom"}` unless a row says otherwise.

| Run | cfg | Constants | Checks | Expect |
|---|---|---|---|---|
| spawn_dup_stop | MCSpawnDupStop | 1 PID | AtMostOneStopped | violation |
| spawn_race | MCSpawnRace | 1 PID | SpawnFailsOnlyIfNotStarted | violation |
| exec_pass | MCExecPass | 1 PID, faults on | TypeOK, SpawnOkMeansStarted, KillOnlyByAbort, SubscribedExitResolves, EventuallyStopped | pass |
| exec_lazy | MCExecLazy | 1 PID | ExitFutureResolves | violation |
| legacy_pass | MCLegacyPass | 2 PIDs, runtime faults, spinning scripts, aborts contending for the Mutex | LegacyTypeOK, EveryMacroCompletes | pass |
| legacy_pid | MCLegacyPid | 1 PID | WaitReturns | violation |
| legacy_unabortable | MCLegacyUnabortable | 1 PID, spinning | RunningMeansRegistered | violation |
| loader_pass | MCLoaderPass | `m` with 6 extensions, `m/` with index files (192 trees) | CoreAgreesWithoutInference, LegacyAgreesWhenExtensionless | pass |
| registry_pass | MCRegistryPass | 1 Minecraft create, 1 generic create, 2 deletes, 3 UUIDs, faults on | NeverDeletesRunning, InstanceHasConfig, VisibleUnlessDeleting, CatalogRefinement, ConfigKeptWhileRunning | pass |
| registry_perm | MCRegistryPerm | 2 Minecraft creates, no faults | CreatorKeepsPermission | violation |
| migration_rerun | MCMigrationRerun | 3 entries, `MaxFaults = 2`, new configs parse as old | EventuallyMigrated | violation |
| upload_race | MCUploadRace | 2 uploads, names `a.txt` and `a`, 2 postfixes, 1 field, no faults | UploadCreatesOnlyNewFiles | violation |

What the violations show (see `findings` in PROJECT.json):

- **spawn_dup_stop.** Every macro gets the wrapper's extra `Stopped(Error panicked)`. A run_event_loop error also falls through to `Success`.
- **spawn_race.** spawn times out on a macro that already published `Started` before spawn subscribed.
- **exec_lazy.** An exit future first polled after the thread exited waits forever.
- **legacy_pid.** MacroStopped carries `process_id.load()`, the next PID to be allocated: a `wait_with_timeout(pid, None)` never returns.
- **legacy_unabortable.** An `abort_macro` holds the table's Mutex when the dispatcher receives the Spawn; the dispatcher parks, the LocalSet polls the new task, and its script spins before the handle is inserted. That `abort_macro` answers NotFound, and every later one waits behind the parked dispatcher for ever.
- **registry_perm.** Two creates by one user: the second set-up task writes back the permission copy it took before the first one's grant, and the user loses the permissions on the first instance.
- **migration_rerun.** The first write of an instance fails and leaves `.lodestone_config` torn; every later run fails to parse it and returns an error, so this instance and the ones after it are never migrated. With `NewParsesAsOld = FALSE` any interruption after one instance was migrated has the same effect, because a new-format config does not read as v0.4.2.
- **upload_race.** An upload finds `a.txt` free; a `write_file` creates it; the upload's `File::create` truncates it. Two uploads of the same name race the same way.

Further properties are stated in the modules and TLC finds them violated, but they are not kept as runs:
- `StatusAgreement` (MacroExecutor, 1 PID): the exit table ends with `Error(panicked)` while the exit future holds the first status. This is a consequence of spawn_dup_stop and of the listener overwriting entries.
- `ExitFutureNeverPanics` (BusCap = 1): `recv().unwrap()` panics on `Lagged`.
- `KillOnlyByAbort` with `GuestErrors <- MCGuestErrorsWithSentinel`: a guest error whose text equals the termination message is reported as `Killed`.
- `MacroProgress` (legacy, 2 PIDs, spinning): a spinning script starves every other macro. Spec 4.3 wants one thread per execution.
- `CoreFollowsSpec` (`MCLoaderPass` constants): an import of `m` with only `m.ts` on disk fails, because the core loader does no extension or index inference (spec 4.1 and 6).
- `LegacyFollowsSpec` (same): an import of `m.ts` loads `m.js` when both exist.
- `InGameFallback` (`MCModuleLoader`, `n` in the base, `in_game/` and `in_game/in_game/`): a macro only in `in_game/` is not found, because the fallback looks in `in_game/in_game/`.
- `ProgressionEnds` (`GlobalFs`, faults on): a field without a file name, a failed create or a failed `write_all` returns after the progression start, which is never ended.
- `UploadNeverPanics` (`GlobalFs`): an upload of `a` while `a` exists panics at `extension().unwrap()`.
- `CompleteForAllDirs` (`MCMigrationPass` constants): `read_dir` fails to read one entry, `filter_map(entry.ok())` drops it, and the migration returns Ok with that instance still in the v0.4.2 format.
- `NoOrphanConfig` (`MCRegistryPass` with only the generic create): `create_generic_instance` returns `GenericInstance::new`'s error and leaves the directory and its `.lodestone_config`, which the next start restores.

### Bounds

- **One PID** for the core executor: each property concerns one PID's own sequence of events. Faults and guest errors are enabled. Two PIDs under the composed executor exceed ten minutes of TLC. The interleaving of two spawns on one bus is covered by the proof of `SpawnOkMeansStarted` for every number of PIDs.
- **Two PIDs** for the legacy executor, whose hazards are about macros sharing one thread and one Mutex.
- **The registry** needs two Minecraft creates for the lost update, and two deletes against one of each create for the delete races. Three UUIDs cover every request's fresh UUID.
- **The migration** needs three entries (one without a config is skipped, a migrated one precedes an unmigrated one) and two faults (one interruption, one more failure of a rerun).
- **The uploads** need one field each: the race is between one exists() check and one create; a second upload or a `write_file` is the other actor.
- **The loader universes** contain every case the rules distinguish: a path with and without extension, sibling `.ts`/`.js`, a folder with either, both or no index file, an unsupported extension, and an http response with every status and content-type class.
- **BusCap = 8** exceeds the longest event sequence of a PID (at most four events), so nothing lags except where lag is the question (`ExitFutureNeverPanics`, BusCap = 1).

### Fairness

These steps are weakly fair:

- **The supervisor's steps.** Each supervisor has an OS thread of its own.
- **spawn's receive, the listener's receive and the exit future's receive.** These are tokio tasks on a runtime that is not starved.

These steps are not fair:

- **The callers.** `spawn`, `abort_macro` and the first poll of the exit future are made by callers who owe nothing.
- **The timeout.** It is modelled without time.

The legacy executor's fairness is given with its module above. `ModuleLoader`, `InstanceRegistry` and `GlobalFs` are checked for safety only and assume no fairness. `Migration` is weakly fair on `Next` (see its section).

## 4. Proofs (TLAPS)

`MacroSpawnProofs` proves three theorems about `SpawnSpec`, for every value of the constants allowed by the ASSUMEs of `MacroSpawn`:

- **`SpawnTypeCorrect`: `SpawnSpec => []SpawnTypeOK`.** This includes `terminated \subseteq table`, and that every cursor lies within the bus. The type invariant is inductive by itself: the bus and the table only grow.
- **`SpawnOkCorrect`: `SpawnSpec => []SpawnOkMeansStarted`.** The invariant is not inductive as it stands. The proof strengthens it to `OkInv`, which says:
  - a supervisor in phase Resolving has its handle in the table, because Construct inserts it first;
  - every PID with a Started on the bus is in the table;
  - `sw[p] = "Ok"` implies a Started of p is on the bus.

  TLC checked `OkInv` as an invariant on 2 PIDs with faults (262k states) before the proof was written.
- **`KillOnlyByAbortCorrect`.** Under the hypothesis `TerminatedMsg \notin GuestErrors`, `KillOnlyByAbort` holds, with `SpawnTypeOK /\ KillOnlyByAbort` as the inductive invariant. With `MCGuestErrorsWithSentinel`, TLC shows that the hypothesis is needed.

The lemmas are:

- `StartedAfterAppend`: the Started events of a bus after an append;
- `SupervisorSendTyped` and `StoppedKeepsOkCore`: one supervisor step that appends an event;
- `ClassifiedStatus` and `KilledOnlyIfTerminated`: what a guest run can end with.

Each proof has one step per action. The temporal step combines the initial-state step and the inductive step with `PTL`.

`InstanceRegistryProofs` proves three theorems about the instance handlers' `Spec`. They hold for all sets of UUIDs, ports and requests, with or without `Faults`. The only assumption is `RegistryAssumption`: the request sets are disjoint, and the sentinel `NoUuid` is not a UUID.

- **`NeverDeletesRunningCorrect`: `Spec => []NeverDeletesRunning`.**
- **`InstanceHasConfigCorrect`: `Spec => []InstanceHasConfig`.**
- **`VisibleUnlessDeletingCorrect`: `Spec => []VisibleUnlessDeleting`.**

None of the three is inductive by itself. For example, `StartInstance` may start any instance of the map. Only the fact that a delete's target is out of the map keeps a Cleanup target stopped. All three theorems rest on one invariant, `IInv`, which adds:

- **`TypeInv`:** the control points each kind of request can be at, and `instances \subseteq used`.
- **`DelTargets`:** a delete in Check or Cleanup holds a UUID that is out of the map. In Check, that UUID's config is still on disk. In Cleanup, it is stopped. No two deletes hold the same UUID.
- **`CreateUuids`:** a create between its first step and its insert holds a UUID that is:
  - out of the map, with its config written;
  - held by no delete and by no other create.

  This is why a failed set-up may remove its files, and why an insert never disturbs another request.

TLC checked `IInv` as an invariant of a run with two Minecraft creates, one generic create and two deletes, with faults (197k states), before the proof was written. There is one lemma per action (`BeginIInv` covers both first create steps; `InsertIInv` covers both inserts), and `NextIInv` combines them by cases on `Next`. `CreateFilesFacts` abstracts the synchronous part of a create into the facts the invariant reads.

`MigrationProofs` proves **`CompleteWhenOkCorrect`: `Spec => []CompleteWhenOk`**, for every set of entries, every fault budget and both values of `NewParsesAsOld`. The property is not inductive: an Ok is reached from `Loop` when `todo` is empty, so the proof needs what `Loop` knows. The inductive invariant `MInv` adds that in `Loop` every visited entry is settled (no config, or both files new), that while writing, the current entry has been visited, has a config, and every other visited entry is settled, and that the second write follows a successful first. A crash or an error moves to `Down` or `Err`, where `MInv` asks nothing; a torn file only appears under those. There is one lemma per action. `CompleteWhenOk` speaks of the entries `read_dir` yielded to the run (`listed`), and `MInv` does too, with `todo \subseteq listed \subseteq Dirs`. The same statement over all of `Dirs`, `CompleteForAllDirs`, does not hold: TLC finds a run whose `read_dir` drops one entry with an old config and that returns Ok at once (`MCMigrationPass.cfg` with `CompleteForAllDirs` as the invariant, three steps). TLC checked `CompleteWhenOk` on the `migration_rerun` constants with `NewParsesAsOld = FALSE` (`MCMigrationPass.cfg`, 11,533 states, no error); it is not kept as a run.

`MacroExecutorProofs` proves **`TypeCorrect`: `Spec => []TypeOK`** for the composed executor, for every number of PIDs and every bus capacity. Every `MacroSpawn` step leaves the observers alone. The observers' cursors stay within the bus because of the lemmas `BusAppendOnly` and `BusGrows`:
- `BusAppendOnly`: a step of `MacroSpawn` leaves the bus as it was or appends one event;
- `BusGrows`: the bus never shrinks.

`StoppedFields` gives the fields of a Stopped event that the listener and the exit future read.

`LegacyMacroExecutorProofs` proves **`LegacyTypeCorrect`: `Spec => []LegacyTypeOK`** for every `MaxSpawn`. It is not inductive alone: the dispatcher gives a task to the PID at the head of the channel, which must be one without a task. The inductive invariant `LInv` adds `ChanInv`, which says:
- the channel holds consecutive PIDs, from `Received == nextPid - Len(chan)` up;
- a PID has no task exactly when it has not been received.

Without it the dispatcher could receive a PID that already has a task. TLC checked `LInv` with `MaxSpawn` 2 and 3 before the proof.

`InstanceCatalogRefinement` proves two theorems, for all sets of requests, UUIDs and ports, with or without faults.

**`CatalogRefinementCorrect`: `Spec => CatalogRefinement`.** The handlers implement `InstanceCatalog`, under the mapping given with `InstanceRegistry` above. The proof strengthens `IInv` to `RInv == IInv /\ RegExtra /\ ActiveLive`.

`RegExtra` says:
- every registered UUID was handed out;
- the map holds registered instances only;
- a create under way holds a UUID nobody registered, which is why its insert is a `Create` of a UUID never deleted;
- a delete in `Check` holds a registered UUID, which is why its `Delete` retires that UUID.

`ActiveLive` says that only live instances run. It is the catalogue's own invariant `active \subseteq live`, carried back through the refinement. The abstract steps preserve it (`CatalogKeepsActiveLive`), and `StepRefines` shows every concrete step is one of them.

`StepRefines` has one case per action:
- both inserts are `Create` (`InsertRefines`);
- the config-removing check is `Delete` (`DelCheckOkRefines`), because `DelTargets` says no other delete holds the instance and it is out of the map;
- `DelTakeKeepsLive`, `DelReinsertKeepsLive` and `LiveKept` show the other steps leave `LiveInstances` as it was.

TLC checked `RInv` with one and with two Minecraft creates (197k states) before the proof.

**`ConfigKeptWhileRunningCorrect`: `Spec => ConfigKeptWhileRunning`.** This is an action property: no step removes the `.lodestone_config` of a running instance. The delete's check removes it only on a stopped instance. A failed Minecraft set-up removes the config of the UUID it creates. That UUID is not live (`CreateUuids`), so by `ActiveLive` it is not running. `ConfigStep` proves the step formula from `RInv`, and `PTL` lifts it.

`ModuleLoaderProofs` proves the loaders' agreement with spec 4.1 for every file tree and every set of load paths.

**`CoreAgreesCorrect`: `Spec => []CoreAgreesWithoutInference`.** The property holds of every tree (`CoreAgreesValid`), so it needs no invariant:
- the match of `load` and the table of spec 4.1 agree on every media type (`KindsAgree`);
- a path with an extension that is not a directory is its own only candidate (`OwnCandidate`).

**`LegacyAgreesCorrect`: `Spec => []LegacyAgreesWhenExtensionless`.** This rests on `LoaderAssumption` and on the invariant `DirsKnown`, which says the environment only creates directories of `DirPaths`. Each candidate of an extensionless path has an extension (`WithExtFacts`), so it is not a directory (`NotDirs`). `exists()` is then `is_file()` on every candidate, and `LegacyPath` picks the first candidate that is a file (`LegacyPathCases`). `FourCandidates` and `ThreeCandidates` match this with the reference's CHOOSE of the first file, through `SpecLoadFileFirst` and `SpecLoadFileNone`. The candidate lists are concatenations of tuples, computed with `SequenceTheorems` (`ConcatOne`, `ConcatTwoOne`, `ConcatTwoTwo`).

**Only model-checked.** These stay with TLC:

- **Liveness, which TLAPS cannot prove here:** `EventuallyStopped`, `SubscribedExitResolves`, `EveryMacroCompletes`.
- **The remaining properties of the core executor:** `SpawnOkMeansStarted` and `KillOnlyByAbort` are proved about `MacroSpawn`, where they are stated. Their run checks them on the composed executor, whose observers do not touch the bus.
- **`GlobalFs`:** its one passing property is a violation run's.
- **`NoOrphanConfig`** and the other violated properties that are kept out of the runs.

## 5. Not modelled

- **Worker factory, op registration, `deno_errors`.** These are not under `src/`. Their effect is the nondeterministic outcome of each host step.
- **`wait_for_detach`.** No code in the repository sends Detach.
- **System and core-info handlers, and the player trait.** They only read or declare.
- **`list_files`, `read_file`, `download`.** They only read the file system; `download_file`'s zipping of a directory is not modelled.
- **`get_instance_list`, `get_instance_info`.** They only read the map.
- **The loaders' transpilation and `resolve`.** A parse error is a data-dependent failure, and `resolve` is deno's URL join.

## 6. Plan

Done: `ModuleLoader`, `LegacyMacroExecutor`, `InstanceRegistry` with its refinement of `InstanceCatalog`, `Migration` and `GlobalFs`, and proofs of every safety invariant of the passing runs. Next:

1. **An abstract `MacroLifecycle` specification.** Per PID: Started, then one Stopped. `MacroSpawn` would refine it under a mapping that keeps the first Stopped; the duplicate Stopped shows where the refinement must fail.
2. **`SubscribedExitResolves` as a step property.** Prove the safety half: the exit future's cursor never passes a Stopped of its PID.
