# TLA+ models of the vSphere CSI driver

This directory holds TLA+ models of the concurrent parts of the driver
sources in `src/`, the TLC configurations that check them, and TLAPS
proofs. Every module is written from the Go code. `PROJECT.json` gives
the code lines behind each definition (`map`), the runs, the mutants
that show each property can fail, the findings, and the hazards the
code is exposed to.

## 1. Inventory

These are the parts of the system that `spec.md` or `src/` names.

| Part | Code | State | Operations | Concurrency and failures |
|---|---|---|---|---|
| TaskMap (task registry, spec §4.2) | `src/unnamed/part_000` (race_demo.go), `src/panic_demo.go` | `t.m` (ref → details), `t.mu` (sync.RWMutex) | Upsert, Delete (write lock); Count (read lock in TaskMapFixed, no lock in TaskMapBuggy / CountBuggy) | many writer and reader goroutines |
| Volume migration service | `src/unnamed/part_004` (package migration), `types.go` | sync.Map cache path → info; CnsvSphereVolumeMigration CRs | GetVolumeInfo, SaveVolumeInfo, DeleteVolumeInfo, LoadAllVolumeInfo, RegisterVolume | concurrent CSI requests; failing API server and CNS calls; panics and restarts |
| registerVolume | `src/pkg/csi/service/vanilla/controller_helper.go` | none of its own | Get, then on a miss Register and Save | check-then-act without a lock |
| Demo drivers of the TaskMap | `src/panic_demo.go` main; race_demo.go testBuggyVersion / testFixedVersion (`part_000`) | stopCh, the WaitGroup, each writer's counter | writer loop (Upsert, Delete, i++), reader loop (Count), sleep, close, wait, final count | goroutines polling a closed channel |
| Common CSI helpers (util.go) | not under `src/`; its tests `util_test_extended.go` are | none (pure functions) | GetUUIDFromProviderID, FormatDiskUUID, RoundUpSize, GetLabelsMapFromKeyValue, IsFileVolumeRequest, IsVolumeReadOnly | not modelled: no state or concurrency, and a model written from the spec and the test tables would only check those tables against themselves |
| Feature-state replication, v2 | `src/unnamed/part_007` lines 369-757 | `pendingCRUpdate` map under a lock; CRs per namespace | start-up (read, enqueue, start informers), config map handler, namespace handler, 1-minute retry loop | 3 goroutines, informer event lag, namespace churn, empty config map data, failing API calls |
| Feature-state replication, v1 | `src/unnamed/part_007` lines 1-368 | the same | the same, with bugs | not modelled yet |
| Lock registry, task dispatcher, idempotency store, backoff (spec §4.1, 4.3-4.5) | not under `src/` (only their tests) | | | planned, modelled from the spec |
| Windows mounter, PowerShell helper | `part_006`, `part_005` | none | OS calls | not modelled: pure I/O |

The parts interact as follows:
- The TaskMap is shared by every volume operation and by the dispatcher (spec §5).
- registerVolume is the only caller of the migration service in `src/`. DeleteVolumeInfo and LoadAllVolumeInfo have no caller there; they are modelled as exported methods of the VolumeMigrationService interface that any caller may invoke concurrently with registerVolume.
- The replication service is self-contained. It talks only to the API server.

## 2. Modules and their correspondence to the code

### TaskMap (`TaskMap.tla`, `TaskMapAtomic.tla`, `MC_TaskMap.tla`)

**Constants.**
- `Writers` and `Readers` are goroutines.
- `Refs` are task references.
- `Details` are task values.
- `CountLocked` selects TaskMapFixed (TRUE) or TaskMapBuggy (FALSE).

**The lock.** `sync.RWMutex` is modelled as Go implements it:
- `Lock` takes the writer mutex and announces the writer (`wOwner`). From then on `RLock` blocks (`rBlocked`).
- `Acquire` is the moment `Lock` returns, once the readers already inside (`rActive`) have left.
- `Unlock` applies the write and admits the blocked readers.

**Map accesses.** Each access to the map spans two steps (the sets `writing` and `reading`), so an overlap, which is a data race, is a state. A racy `len(t.m)` returns the size before or after the write in progress.

**Refinement.** `TaskMapAtomic` is the contract of spec §4.2: an atomic map whose Count returns the number of entries. `AtomicSpec` checks that the TaskMap refines it under the identity mapping of `tasks` and `result`; `FixedCountAtomic` proves it when Count takes the read lock.

### PanicDemo (`PanicDemo.tla`, `MC_PanicDemo.tla`)

PanicDemo composes the TaskMap with the program that drives it. `TM == INSTANCE TaskMap WITH Readers <- DemoReaders \cup {Main}, Refs <- Keys, ...` makes main one more reader, for its final count; the keys are the pairs (writer, i) of `fmt.Sprintf("task-w%d-%d", workerID, i)`. The TaskMap's own steps inside a call (`Acquire`, `Unlock`, `ReadLen`, `RUnlock`) are `MapStep`.
- `WriterUpsert`: the writer's select. It returns if stopCh is closed, otherwise calls Upsert. `MaxIter` bounds i; at the bound the writer waits for the stop.
- `WriterDelete`: Delete, then i++. There is no stop check between Upsert and Delete.
- `ReaderLoop`: the reader's select: return, or one Count.
- `Close`, `WaitGroupWait`, `MainCount`, `MainExit`: main's sleep and close(stopCh), wg.Wait(), the final count, and the return from main.

`CountLocked` selects the driver: FALSE is panic_demo.go's main and testBuggyVersion (CountBuggy, no lock), TRUE is testFixedVersion (Count under RLock).

**Why the buggy run terminates.** The comments of panic_demo.go expect the unlocked Count to crash with "concurrent map read and map write", but also say (lines 10-11 and 137-139) that the panic is timing-dependent and may not occur. CountBuggy is `len(t.m)`, which Go compiles to a load of the map header's count. The runtime throws "concurrent map read and map write" only in map lookups, assignments and iteration, none of which `len` performs. So the racy Count is a data race (a read may see a size from the middle of a write) but not a crash, and the model lets it return either size rather than panic. DemoTerminates is therefore a real property of this program. The race itself is shown by taskmap_buggy_count (NoDataRace) and by the failure of `TM!AtomicSpec` with CountLocked = FALSE (section 4). The run uses FALSE, the program in the counted file; with TRUE the same properties hold (the lock-protected Count is checked on its own by taskmap_fixed).

### VolumeMigration (`VolumeMigration.tla`, `MC_VolumeMigration.tla`)

**State.**
- `cns`: the disk → volume registrations in CNS.
- `crs`: CRs as records `[name, path, vid]`. Names are fresh uuids.
- `cache`: the sync.Map. Each entry records the *Go type* of the value stored, because GetVolumeInfo's type assertion depends on it.
- `pc`, `path`, `vid`, `snap`: each goroutine's place in its call.

**Actions.** registerVolume is split at each API call:
- `RegisterCall`: the cache load and type assertion. A miss goes on to the List. A hit on any path panics, since the assertion never matches a value the cache holds.
- `GetList`: the CR List and the search. It may pick any CR of the path. List returns CRs in name order and CR names are random uuids, so which CR comes first is unrelated to creation order. This over-approximates one List.
- `GetStore`: storing the CR found in the cache.
- `Register`: RegisterVolume's CNS CreateVolume.
- `Save` and `SaveStore`: SaveVolumeInfo's CR Create, then its cache Store. A delete of the path can run between the two.

DeleteVolumeInfo becomes `DeleteCall` / `DeleteList` / `DeleteCR`. DeleteList records in `target` the name of the first CR of the path in list order, and DeleteCR deletes it, or fails; either way it drops the cache entry and returns. LoadAllVolumeInfo becomes `LoadAllCall` / `LoadAllStore`.

`DeleteRemovesCR` is an action property about DeleteCR's own step: once it has issued the Delete of the CR it listed, that CR is gone. It names only that step, so a restart or a concurrent Create (of a CR with a fresh name) cannot violate it.

**Failures.**
- Every API call may fail.
- CNS registers a disk at most once. A second CreateVolume for the same disk fails or answers with the existing volume.
- A panic, or any crash, restarts the process. The cache and the in-flight calls are lost. CRs and CNS survive.
- `MaxCRs` bounds CR creations. At the bound Create fails, which is a behaviour the API server has anyway.

### FSSReplication (`FSSReplication.tla`, `MC_FSSReplication.tla`)

**Data.** The config map's data is a version number. Version v is the v-th content the map has had; version 0 is data from before a restart. The contents in the constant `EmptyData` have an empty data map. For those, the feature-state loop appends nothing and leaves a nil slice, which `Data(v)` models as `Nil`: the same value processPendingCRUpdates treats as "nothing pending".

**The informers.** They are modelled by their queues:
- `cmEvents` is a FIFO of add/update/delete events with their data.
- `nsEvents` holds the namespace Add events not yet delivered.

**Goroutines.**
- Start-up is three steps: `StartGet` (getFeatureStates reads the config map into `bootVer`), `StartEnqueue` (enqueueCRUpdatesForAllWorkloadNamespaces with that data), and `StartListen` (the informers start; their initial List delivers an Add for the config map, if it exists, and for every namespace). The environment can change the config map and the namespaces between the steps. `started` means `boot = "done"`.
- `ConfigMapHandler` runs configMapAdded/Updated/Deleted. Adds and real updates call enqueueCRUpdatesForAllWorkloadNamespaces, which takes the lock. configMapDeleted only logs, and configMapUpdated returns before the lock when old and new data are equal, so those events are delivered even while the lock is held.
- `NamespaceHandler` takes the lock. `NamespaceEnqueue` then runs getFeatureStates and fills the entry.
- `GetFeatureStatesRetry` is getFeatureStates' retry loop while the config map is missing.
- The processor takes the lock (`ProcessLock`) and visits each non-empty entry: `CheckError`, `CheckGone`, `CheckPresent`, then `WriteError` or `WriteCR`. It finishes with `ProcessUnlock`.

**Environment.** The environment updates, deletes and re-creates the config map (bounded by `MaxVersion`). It creates and deletes namespaces (bounded by `MaxNsOps`). Deleting a namespace deletes its CR.

## 3. Runs

| Run | Checks | Shows |
|---|---|---|
| taskmap_fixed | NoDataRace, IInv, CountReturns, WriteCompletes, AtomicSpec | the fixed TaskMap has no data race, neither side starves, and it is linearizable |
| taskmap_buggy_count | NoDataRace (violated) | the unlocked Count races with a writer |
| migration | TypeOK, ReturnedIDMatchesPath, CRsAgreeWithCNS | returned IDs and CRs always name the right CNS volume, through races, failures and restarts |
| migration_panic | NoPanic (violated) | a failed List, or any cache hit, panics |
| migration_duplicate_cr | OneCRPerPath (violated) | concurrent registerVolume calls create two CRs for a path |
| migration_stale_cache | CacheBackedByCR (violated) | SaveVolumeInfo stores its mapping after a concurrent DeleteVolumeInfo removed the CR it had just created (Create at part_004:217, Store at :223); GetVolumeInfo (:203) and LoadAllVolumeInfo (:260) have the same window |
| migration_delete | DeleteRemovesCR (violated) | the CR DeleteVolumeInfo listed survives its Delete when the Delete fails, and the error is discarded |
| panicdemo | FinalCountZero, DemoInv, DemoTerminates | panic_demo.go's main (and testBuggyVersion) always ends, with a final count of 0; DemoInv is the inductive invariant of that proof |
| fss | TypeOK, NoLostUpdate, Converges, PendingClearedOnlyWhenDone | an out-of-date CR always has a pending entry or event that will fix it, all CRs end with the current data, and no step drops a pending entry before its CR holds it or its namespace is gone |
| fss_regression | CRNeverRegresses (violated) | a lagging event writes older data over newer |
| fss_starvation | PendingProcessed (violated) | a handler that holds the lock while the config map is gone stops all replication |
| fss_empty_data | NoLostUpdate (violated) | a config map content with an empty data map is enqueued as a nil slice, which the processor skips: the CRs never get it, and it cancels an earlier pending update |

### Bounds

**TaskMap.** Two writers, two readers and two refs. This is enough for two writers to contend for the lock, a reader to block behind an announced writer while another reader is inside, and a racy read to see either size.

**Migration.** Two goroutines, two paths and two volume IDs, with `MaxCRs = 2`. This gives the duplicate-CR race on one path, a lookup that must skip the other path's CR, and a restart between CNS and CR.

**PanicDemo.** Two writers, one reader and main, with `MaxIter = 2`. A writer can be stopped before its first Upsert, after a full iteration, or at its bound; the reader can be inside a Count when the stop comes, and in the fixed run it can block on RLock behind a writer.

**FSS.** Two namespaces, two config map contents (`MaxVersion = 2`: the initial one and one more, reached by an update or by a delete and re-create) and two namespace operations (a namespace created and deleted, or both created, while a round is in progress). One run checks the safety and the liveness properties; three contents with the fair-cycle search for Converges take over 7 minutes, so the bound is kept at two. The passing runs take `EmptyData = {}`. fss_empty_data makes the second content empty and needs no namespace operation.

### Fairness

**TaskMap.** A goroutine inside a call keeps running, so WF holds on Acquire, Unlock, ReadLen and RUnlock. Making a call at all is up to the caller, so calls are not fair.

**PanicDemo.** Go runs every runnable goroutine (GOMAXPROCS is set to the number of CPUs), and main's time.Sleep ends, so every action has WF. Deadlock is not checked: main returning ends the program.

**FSS.** The goroutines run forever. Go's sync.Mutex switches to starvation mode after 1 ms, handing the lock to the longest waiter, so every lock acquisition has SF. API errors are assumed transient: a call retried forever eventually succeeds, which gives SF on the successful outcomes. The environment is not fair.

### Mutants

The check replaces one definition with a plausible bug and expects the named property to fail under the run's own cfg:

| Mutant | Bug it represents | Property it breaks |
|---|---|---|
| `ReadLenNoWait` | the read does not wait for RLock | NoDataRace, AtomicSpec |
| `AcquireNoDrain` | Lock does not wait for the readers to leave | IInv |
| `UnlockNoWake` | Unlock forgets the blocked readers | CountReturns |
| `CountReaderPreferring` | RLock prefers readers | WriteCompletes |
| `RegisterNoID` | the existing volume's ID is lost | TypeOK |
| `GetListAnyPath` | the path comparison is dropped | ReturnedIDMatchesPath |
| `RegisterIgnoreError` | the early return is dropped | CRsAgreeWithCNS |
| `ProcessLockAll` | the `len != 0` test is dropped | TypeOK |
| `WriteErrorClears` | the `continue` is dropped | NoLostUpdate |
| `WriteErrorClears` | the `continue` is dropped | PendingClearedOnlyWhenDone |
| `WriterDeleteNoStopCheck` | the writer polls stopCh between Upsert and Delete | FinalCountZero |
| `WriterDeleteNoStopCheck` | the writer polls stopCh between Upsert and Delete | DemoInv |
| `ReaderLoopNoStop` | the reader loop has no stop case | DemoTerminates (panicdemo) |
| `ConfigMapHandlerOld` | the old data is used, as the first version does | Converges |

## 4. Proofs

`TaskMap_proofs.tla` proves four theorems with TLAPS, for every set of goroutines and every finite non-empty set of refs:
- `TypeCorrect`: `Spec => []TypeOK`.
- `IInvHolds`: `Spec => []IInv`, the invariant taskmap_fixed checks (for both values of CountLocked).
- `FixedCountNoDataRace`: `CountLocked => (Spec => []NoDataRace)`.
- `FixedCountAtomic`: `CountLocked => (Spec => AtomicSpec)`, the refinement of TaskMapAtomic.

**Why a strengthening is needed.** NoDataRace is not inductive by itself: it says nothing about which goroutine may enter a read or a write next. The proof uses `IInv == TypeOK /\ LockInv`, which TLC also checks as an invariant of taskmap_fixed. `LockInv` ties the lock state to the control points:
- a writer in `drain` or `write` owns the writer mutex;
- the writers inside a write are exactly those at `write`, and they hold the lock;
- the readers inside a read are exactly those at `read`;
- with the read lock, reading readers are active, and a held write lock means no reader is active.

**The argument.**
- `LockInvInit` shows that Init implies LockInv.
- `LockInvStep` shows that every action preserves LockInv, given TypeOK. It has one step per action. `TypeInit`, `TypeStep` and `IInvStep` are the type invariant's two halves and their conjunction; PanicDemo_proofs reuses them.
- `IInvNoDataRace` shows that IInv implies NoDataRace.
- `AtomicStep` shows that, under the read lock and IInv, every step maps to a step of TaskMapAtomic or leaves `tasks` and `result` alone. Unlock is `Put` of the writer's entry `op[w]`. ReadLen is `Count`: the reader is in `rActive`, and LockInv says a held write lock empties `rActive` and every writer at `write` holds it, so no write is in progress and the read sees `Size(tasks)` (`ReaderSeesNoWrite`). This is where the lock matters: without it a read may return the size after a write that has not happened yet.
- The temporal steps are closed by PTL. The cardinality facts come from `FiniteSetTheorems`.

`VolumeMigration_proofs.tla` proves three theorems, for any sets of goroutines and volume IDs, any non-empty set of paths and any bound `MaxCRs`:
- `TypeCorrect`: `Spec => []TypeOK`.
- `ReturnedIDsCorrect`: `Spec => []ReturnedIDMatchesPath`.
- `CRsCorrect`: `Spec => []CRsAgreeWithCNS`.

**Why a strengthening is needed.** A CR or a returned pair is built from `vid[c]`, which was read in an earlier step (GetList) or set by an earlier step (Register). Neither property says anything about `vid[c]`. The proof uses `IInv == TypeOK /\ MappingInv`. `MappingInv` adds that every goroutine at `get_store`, `save` or `save_store` holds a real volume ID, and that this ID is the CNS volume of its path. TLC checked IInv as an invariant on the migration run's constants before it was proved.

**The argument.**
- `IInvInit` shows that Init implies IInv.
- `IInvStep` has one step per action:
  - `RestartInv` covers Panic and Crash.
  - In Register's fresh-volume case, the disk had no CNS volume. So no CR, returned pair or other goroutine can name that path, and the new ID does not contradict any of them.
  - CNS never re-registers a disk, so `cns[p]` never changes once it is set, and the facts recorded earlier stay true.

`FSSReplication_proofs.tla` proves three theorems, for every non-empty set of namespaces and all bounds `MaxVersion` and `MaxNsOps`:
- `TypeCorrect`: `Spec => []TypeOK`, for every set `EmptyData`. Its inductive invariant `TypeInv` adds `LockHeld` and `BeforeStart`. LockHeld is needed because WriteCR copies the entry being written into the CR, so that entry must not be nil; no enqueue can empty it mid-round because every enqueue after start-up needs the lock. BeforeStart is needed because StartEnqueue takes no competing lock: nothing else runs before the informers start.
- `NoUpdateLost`: `EmptyData = {} => (Spec => []NoLostUpdate)`.
- `PendingNeverDropped`: `EmptyData = {} => (Spec => PendingClearedOnlyWhenDone)`, an action property: a step that empties a pending entry either writes it to the CR (WriteCR) or finds the namespace gone (CheckGone). `PendingClearStep` proves it of one step, given TypeOK. The other steps leave the entry alone or refill it with config map data, and with no empty content that data is a version, never the nil slice.

The hypothesis `EmptyData = {}` is needed: run fss_empty_data shows both properties fail when a content is empty (section 3).

**Why a strengthening is needed.** NoLostUpdate says a pending entry is not empty, but WriteCR writes whatever the entry holds: an entry with old data would be written, cleared, and leave the CR out of date with nothing pending. `IInv` (defined in FSSReplication.tla, checked by TLC on three config map contents before it was proved) adds:
- `LastEventCurrent`: the last undelivered config map event is an add or a real update carrying `cmVer`, or a delete while the map is gone. Delivering the last event therefore enqueues the current data.
- `PendingCurrent`: once all events are delivered, an existing namespace's entry is empty or holds `cmVer`, unless its Add event or the namespace handler is still on the way.
- `UpdateOnItsWay`: NoLostUpdate with "the entry holds `cmVer`" in place of "the entry is not empty".
- `NoCRWithoutNamespace`: a namespace that does not exist has no CR.
- `LockHeld`: the processor holds the lock during its round, and the namespace handler holds it between its two steps. A round only visits non-empty entries, the entry being written is no longer in `todo`, and `todo` is empty between rounds.
- `BeforeStart`: until StartListen, no event is queued, the namespace handler is idle and the processor sleeps.

**The argument.** `IInvStep` has one step per action, and takes TypeOK, LockHeld and BeforeStart from `TypeInvStep`. Start-up is covered by `~started` until StartListen, which queues an Add of the current content and of every namespace. The config map handler splits into two cases: the delivered event was the last one, or it was not. For the last one, `LastEventCurrent` is what makes the enqueued data current. The sequence facts come from `SequenceTheorems`.

`PanicDemo_proofs.tla` proves three theorems, for every non-empty finite set of writers, every set of readers and every `MaxIter > 0`:
- `DemoInvHolds`: `Spec => []DemoInv`, for both values of `CountLocked`.
- `FinalCountIsZero`: `Spec => []FinalCountZero`, for both values of `CountLocked`.
- `FixedDemoAtomic`: `CountLocked => (Spec => TM!AtomicSpec)`. With testFixedVersion's locked Count, the map the demo's goroutines share implements TaskMapAtomic.

The assumptions are in `DemoAssumptions`: main, the readers and the writers are distinct goroutines, and there is at least one writer (`numWriters = runtime.NumCPU() * 4`).

**Why a strengthening is needed.** FinalCountZero talks about main's result only, and says nothing of the map the count reads. `DemoInv` (checked by TLC in the panicdemo run before it was proved) adds:
- `EntryOwned`: every entry of the map is key (w, i) of the writer w whose current operation it is, and w is between its Upsert and its Delete, or still inside a map call.
- `WriterPhase`: a writer at its Delete has its current key and is below `MaxIter`, and a writer inside a map call is in an Upsert or a Delete of its own key.
- `MainPhase`: main counts only after wg.Wait(), when every writer and reader has returned, and then its read returns 0.
- The TaskMap's own `TypeOK` and `LockInv`, for the map part of the state.

**The argument.** The map steps of the demo are steps of the TaskMap. `PanicDemo_proofs` instantiates `TaskMap_proofs` and reuses `TypeStep` and `LockInvStep` through that instance. To do so, it proves the instance's assumptions (`TMAssumptions`), and it shows that every demo step is a TaskMap step or leaves the map alone (`StepIsMapStep`). The demo's own invariants then have one lemma per action. The key one is `AllReturnedEmpty`: once every writer has returned, EntryOwned leaves no entry in the map, so the count is 0 whether it is locked or not.

**Refinement.** `FixedDemoAtomic` composes two facts. `MapStepOfInstance` says every demo step is a TaskMap step. TaskMap_proofs' `AtomicStep` says that, under the TaskMap's IInv (which DemoInv contains, `MapInvOfInstance`), every TaskMap step with the read lock is an atomic Put, an atomic Count or a stutter. Before it was proved, TLC checked `TM!AtomicSpec` on the panicdemo constants. It holds with `CountLocked = TRUE` (2538 states). With `CountLocked = FALSE`, panic_demo.go's own Count, it is violated: an unlocked read can see a size no atomic Count returns. The final count is still 0 then, because by that time nobody writes.

**What stays with TLC.**
- **Liveness:** CountReturns, WriteCompletes, Converges and DemoTerminates. Liveness under fairness and reasoning about ENABLED are beyond TLAPS here.
- **Violation runs:** the violations are shown by TLC's counterexamples.

No module with a theorem reaches a RECURSIVE operator.

## 5. Plan for the remaining sittings

1. **FSSReplicationV1.** The first version of the featurestates package, checked against the same properties. Its bugs are the nil map, the inverted IsNotFound test, the swapped old/new data and the endless loop.
2. **Spec-modelled components** (code not under `src/`, to be marked `spec_modelled`):
   - the lock registry (`TryAcquire`/`Release`: one winner per key);
   - the task dispatcher, composed with TaskMap (outcome delivered at most once, abandonment);
   - the idempotency store (no duplicate backend submission across restarts);
   - the backoff driver as an operator checked against the test expectations in storagepool/util_test.go.

## 6. Not modelled

- **The one-time initialisation** of the migration service (GetVolumeMigrationService, createrCnsvSphereVolumeMigrationCRD). It retries until a client and the CRD exist, with no shared state beyond sync.Once.
- **The validate*Request helpers** of controller_helper.go (lines 32-57). They only delegate to common validators that are not under `src/`.
- **The progress ticker** of panic_demo.go (lines 112-124). It only prints.
- **The Windows mounter.** It is OS I/O.
- **Tests, e2e suites, yaml and documents.** They are used only as statements of intended behaviour.
- **Data is abstracted.** Feature names, parsed booleans, paths and uuids are represented by model values and versions, because no property depends on their contents.
