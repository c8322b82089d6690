# TLA+ models of the camera.ui SDK

A plugin of camera.ui is a process of its own. It talks to the host over RPC
and keeps, through the SDK, a configuration store, a view of the host's
cameras and sensors, and the sensors it provides itself. This directory models
the Go SDK (`src/go`), checks the models with TLC on small instances and proves
most of their safety properties for all instances with TLAPS.

`PROJECT.json` lists the components, the runs, the lines each definition models,
the hazards and what was found. Paths below are relative to `src/go`.

## 1. Inventory

| Component | State | Operations | What is hard |
|---|---|---|---|
| Persistence, `config_persistence.go` | the document, a pending flush, an in-flight flag, the backend | `save`, the drainer, file write, remote put | coalescing, failed and panicking flushes, puts applied after their timeout |
| Store file and document, `store_file.go`, `store_layout.go` | main file, backup, temp files; the document with its sections | open, upgrade, flush, backup, heal; write and delete of a location, snapshot | death of the process or machine between file operations, corruption; snapshots that share maps with the document |
| Device storage, `storage.go` | values, schemas, dirty flag, sequence of saves | get/set of values and configs, schema calls | callbacks outside the lock, skipped writes, failed writes, objects shared with the plugin, numbers in any width |
| Storage controller, `storage_controller.go` | storages by scope and their handlers | create, release, flush | a map without a lock, re-added cameras |
| Sensor manager, consumer side, `manager_sensor.go`, `sensor_proxy.go` | proxies of foreign sensors, subscriptions | init, registry events, resync, close | events during startup, answers that are older than events, lost links, errors of `Subscribe` that are dropped |
| Sensor manager, owner side, `manager_sensor.go` | owned sensors, their wires, slots | bind, unbind, adopt, close | deletions during a bind, callbacks in goroutines of their own |
| Sensor state, `sensor_base.go`, `sensor_coerce.go`, `utils.go` | properties, source state, capabilities | setters, `UpdateValue`, events of the host | writes that cross their echoes, calls that fail without a retry, numbers that change their type |
| Concrete sensors, `sensor_*.go` | their properties | setters, getters, routes of `UpdateValue` | getters that fall back silently |
| Doorbell, `sensor_doorbell.go` | ring, reset timer | `Trigger`, timer, `cleanup` | a timer that has fired cannot be stopped |
| Detection sensors, `sensor_motion.go` and five more | flag, list, names, blocked | `ReportDetections` | read-modify-write without a lock |
| Camera device, `camera_device.go` | its sensors, their wires; mirrored states; the detection wire | add/remove sensor, state events, `OnDetectionEvent`, cleanup | release during an add, repeated adds, stale refresh, reference counting |
| Device manager, `manager_device.go` | devices by camera | start, added, released, `GetCamera`, close | several goroutines making one device |
| Observables, `observable.go` | subscribers, last values, completion; operator state, reference count of `Share` | `Next`, `Subscribe`, `Dispose`, `Complete`, `FirstValueFrom`; `DistinctUntilChanged`, `Pairwise`, `MergeMap`, `Filter`, `Share` | callbacks outside the lock, replay, a last subscriber that leaves while another comes |
| Runtime, `run.go` | phase of the process, stop channel | start, stop, teardown, flush | signals at any point, time limits, work nobody waits for |
| Event emitter, `event_emitter.go` | listeners by event | `On`, `Once`, `Off`, `Emit`, `emitAndWait` | handlers outside the lock, removal by an index that is old |
| Contract, `plugin_contract.go`, `plugin_helper.go` | none | validation and consistency | lists of accepted values kept beside the declared ones |

How they interact: the runtime makes the storage controller, the sensor
manager, the device manager and the core manager, and tears them down in the
order sensors, devices, core, storages. The device manager makes camera devices
and asks the controller for their storages. Both managers register sensors with
the host's registry and install in each sensor the functions that send its writes
to the host. Device storages save through the persistence, which flushes
to the store file or to the master process. Mirrored states are behavior
subjects, property changes plain ones.

Correctness, component by component: an acknowledged save is durable and is
never replaced by an older one; a crash leaves a readable document; a storage that
is clean agrees with its document; the view converges to the registry, and the
plugin is told of what enters and leaves; every sensor has one owner, one set of wires
and a paired lifecycle; sensor and host end up with the same values unless a call
failed, and getters return them; a ring ends and is not cut short; a device that was released is gone;
subscribers get what was promised, in order, and a shared feed has one source; a listener fires
once or stays; a stop is honoured from every point
of the start.

Not modelled: the download and notification managers, the file server, the interfaces
plugins implement, URL builders, the logger, wire types, and the Node and Python SDKs
(`components` in `PROJECT.json` has the reason for each). They keep
no state between calls, only format text, or, in the case of the other SDKs,
repeat the API for other runtimes. The core manager's calls are passthroughs; its cache of
connections is a map without a lock, of which a data race leaves nothing to model but a crash.
Within modelled parts the following is left out: `json.Number` and lists of a concrete element
type in `StoreValues` (the latter are the origin `"typed"` of `StoreDocument`), the stream,
snapshot and recording calls of a camera device, and `SubmitValue`, which keeps no state.

## 2. Modules

One action is one critical section of the code, or one call that leaves the process;
steps between two locks are separate actions. Goroutines are elements of a constant
set or have a program counter of their own. Bounds are constants named `Max...`.
Definitions that model the host's registry, the RPC codec, timers, file systems and
the death of processes are marked external: they are taken from how `src/go` uses
them. A definition with a comment that begins "A slip" is not part of the model;
it is the form of a definition with a plausible bug, used to show that the
property next to it in `PROJECT.json` notices.

| Module | Models | State and actions |
|---|---|---|
| `DurableStore` | what a save promises | a durable version that only grows; save, ack, fail |
| `CoalescingWriter` | the write path | versions instead of documents; `Save`, the steps of the drainer, late puts, `Return` |
| `DeviceStorage` | `DeviceStorage`; extends `CoalescingWriter`, whose steps run beside its own | one action per critical section of each call |
| `StoreFile` | `readStoreFile`, `writeStoreBytes`, `backupStoreFile`, `newFilePersistence` | files are there or not, whole or not, with a generation and a layout; one action per file operation |
| `StoreDocument` | `writeLocation`, `deleteLocation`, `snapshotStoreDoc`, `deepCopyValue`, under `SetValue` and `GetValue` | a location holds contents or a reference to the object the plugin has in hand; `Obtain`, `Edit`, `SetValue`, `Clear`, snapshots, crash and reopen with a layout upgrade |
| `StoreValues` | `validateStoreValue`, `normalizeStoreValue`, `deepEqualLoose`, `mergeValue`, `generateDefaultValue` | recursive operators over values as trees, against a reference definition; no step |
| `SensorView` | consumer side | the registry with its streams; init, handler, resync and close as goroutines; a proxy may have its subscription or not, leaves the map under the lock and unsubscribes outside of it |
| `SensorBinding` | owner side | instances with a program counter through `bind`; handler, close, lifecycle goroutines |
| `SensorKinds` | the concrete sensors and conversions | operators and records only; a number is its exact value in a Go type that can hold it |
| `SensorState` | one bound sensor of any kind, and the host's copy | writers, `updateFn`, events, reports, steps of binding; calls that fail midway, a `Subscribe` that fails |
| `Doorbell` | `DoorbellTrigger` | goroutines in `Trigger`, timers, `cleanup` |
| `DetectionSensor` | the six detection sensors | reporters between reading and writing, events of the host |
| `CameraDevice` | sensors of a camera | numbered calls of `AddSensor` and `RemoveSensor` in their steps, any number of them for a sensor; `cleanup`; the number of an `AddSensor` names its handler, subscription and closure |
| `CameraFeeds` | mirrors and detection wire | `init`, `refreshStates`, events, acquire and release; the link is lost at any time |
| `SharedFeed` | `OnConnected`, `OnPropertyChange`: a BehaviorSubject behind operators and `Share` | the event handler and `refreshStates` in `Next`, subscribers that connect, join and leave; each connection of `Share` is a generation with its own operator state |
| `DeviceManager` | devices and camera storages | tasks that make and release devices |
| `Subjects` | the three subjects | producers, subscribers, waiters |
| `PluginRuntime` | `Run` | the main goroutine, signals, the bounded teardown |
| `EventEmitter` | one event of `eventEmitter` | emissions between the copy of the listeners and the removal of those registered with `Once` |
| `Contract` | the contract and its two checks | operators over every contract with at most one interface |

`...Proofs` modules hold the inductive invariants and the theorems of section 4:
`PersistenceProofs` (`CoalescingWriter`, `DeviceStorage`); `StoreProofs` (`StoreFile`,
`StoreDocument`); `SensorViewProofs`; `PluginProofs` (`PluginRuntime`, `SensorBinding`,
`EventEmitter`); `DeviceManagerProofs`; `CameraProofs` (`CameraDevice`, `CameraFeeds`, `SharedFeed`);
`SubjectsProofs`; `SensorProofs` (`SensorKinds`, `SensorState`, `Doorbell`, `DetectionSensor`).
Modules whose proofs share a file share no variable, but for the storage and its writer.

`MC...` modules give values to constants for TLC. The same module is checked in calm and in hostile
surroundings: a rigid variable, chosen in the initial state and never changed, says what a behaviour
is about. It is `scene` (a record of the parts of the instance that take part, their bounds and a
set `env`) where instances differ in size, `env` alone, `backend` (file or remote), `calm` or `echo`
elsewhere. Members of `env` name what the surroundings may do (`"fail"`: calls fail, `"drop"`: the
link is lost, `"overlap"`: operations overlap, `"early"`: the registry changes during startup,
`"again"`: a sensor is added that was added already, and so on; each module explains its own). A
property that the code keeps only in some surroundings names them (`Calm`, `Orderly`,
`~crossed`...); section 3 says what happens outside.

Four MC modules put modules side by side that share no variable: a rigid variable (`part`, or
`sensor` in `MCSensors`) says which of them a behaviour is about, and the state of the others
stays as it is at the start. Fairness is then stated for the chosen part only. `MCStore` has
`StoreFile`, `StoreDocument` and `StoreValues`; `MCPlugin` has `PluginRuntime`, `SensorBinding`
and `EventEmitter`; `MCCamera` has `DeviceManager`, `CameraDevice`, `CameraFeeds` and
`SharedFeed`; `MCSensors` has `SensorState`, `Doorbell` and `DetectionSensor`. Nothing
is composed by this; it lets one run ask the questions of one part of the SDK.

Assumptions about what is not in `src/go`: the registry publishes each change of
a value once and in order, and callbacks of one subscription run one after the
other; requests of one client reach the master in the order they were sent; a
renamed file is old or new, never mixed; a decoder of numbers delivers `int64`, `uint64` or
`float64` (`DecodedTypes`: `coerceInt` knows no narrower one), and `float64` where the
integer type cannot hold the number; the digits a `float64` drops beyond 2^53 are left out. A call
that fails may have reached the host in part, but is not applied later.

## 3. Runs

Eight runs pass; four (`storage_unchanged`, `alias`, `missed_change`, `contract`) check a sentence
of a comment or a test against the code and have a counterexample, quoted under `findings`. The
longest, `camera`, takes about four minutes, the others two or less.

| Run | Instance | Shows |
|---|---|---|
| `writer` | 3 callers, 4 saves, both backends | `AckedIsDurable`, `OneFlushAtATime`, `BurstCost`, `NeverOvertaken`, `EverySaveAnswered`, and `ImplementsDurableStore` (refinement) |
| `storage` | 2 goroutines, 1 key; any 3 calls on a file, any 2 with two values on a remote store | `SavedIsDurable`: what a persist acknowledged is durable; `CleanMeansDurable`: a clean storage at rest agrees with the document; `EveryCallReturns` |
| `storage_unchanged` | 2 goroutines that set an internal value | violation of `ReturnedIsDurable` |
| `store`, files | 4 generations, 3 deaths, 2 decayed files, 1 wiped directory | `NeverFallsBehind`: what is served is the latest, on the current layout; `AlwaysRecoverable`; `AckedSurvives` |
| `store`, document | 4 locations in 3 sections, two contents, 3 sets, 1 edit in place, 2 starts, both backends | `FlushedAsSaved`: a flush encodes the document of its save and nothing else, whatever happens to the objects it shares |
| `store`, values | 82 values in pairs, 4 schemas, number limits scaled down in order | `ValuesFaithful`: a valid value survives a restart, comparison is by meaning, merge and defaults keep what they should at every depth |
| `alias` | the document, with objects from `GetValue` and lists of a concrete type | violation of `SetIsStored`: the storage compares the object with itself |
| `view` | 4 scenes: start, disorder during and after it with failing calls, every kind of event | `OneSubscription`: every subscription has a proxy that will end it; `ViewConverges` (nothing of the start is missed; calm: the view is the registry's), calm: `ReleaseReported` |
| `plugin`, process | every set of disturbances | `NotStartedAfterStop`, `SyncWritesLand`, `NeverMissed` (START is answered, STOP honoured) |
| `plugin`, sensors | 3 scenes: overlap, one slot, in order | `OwnedIsWired`, `EveryBindEnds`; in order: `PairedLifecycle` and nothing left registered |
| `plugin`, event | 3 listeners, two of them once, 2 emissions | `ListenersKept`: no listener is lost or fired again |
| `subjects` | 4 scenes: two kinds with two producers, replay, waiters | `DeliveredOnce`, `InOrder` (one producer, not a BehaviorSubject), `WaiterReturns` |
| `camera`, devices | 2 scenes: 2 cameras in order, 1 with overlap and failures | `MapHoldsLiveDevices`; in order: no device lost or left, `StorageServed` |
| `camera`, sensors | 5 scenes of up to 4 calls: in turn with failures, for two sensors or with repeated adds; overlap with one slot, with repeated adds, with failures | `WireHasOwner`: only a closure that was replaced or thrown away leaves a wire behind; `ReleasedIsQuiet`: OnStart and OnStop in pairs, and in turn a sensor that left is detached; every add ends (`CameraSettles`) |
| `camera`, mirrors | 2 changes, 2 links lost at any time, 2 callbacks | `WireServesCallbacks`; the mirror catches up but for a loss nobody notices (`CameraSettles`) |
| `camera`, feed | 2 subscribers, 2 values, 4 kinds of observable | `OneUpstream`: one connection, counted right; one value at a time: `FollowsState` |
| `missed_change` | the feed, values at any moment | violation of `MissesNothing`: a change is dropped, or replayed over by an older one, while `Share` connects |
| `contract` | every role and interface | violation of `DeclaredIsValid`: the lists of accepted values are incomplete |
| `sensors` | 7 scenes of plain sensors (24 kinds; odd numbers; failing calls), doorbell, 6 detection sensors | `Converges`, `ReadsTrue`; `OneReset`; `PropertiesAgree`; echoes and rings end (`SensorsSettle`) |

The comment above each property says what it means and for which code. `TypeOK` of a
module documents the types of its variables. Those of the writer and of the store file
are proved as they stand; the other proofs have types of their own, which also say what the
fields of records hold.

Why the bounds are enough. A writer has a flush under way, one pending, a late put and a caller that
joins: four saves. In a storage, three calls are a write, one that overlaps it and one that finds
the result; calls on two keys differ from calls on one only in sharing the document, which the
snapshot of all values covers. A store file that dies during recovery, dies again while healing and
then decays needs three deaths and one decay; a second decay spoils both files, in either order,
after which nothing is promised. Three changes of the registry create, delete and re-create a sensor
around one step of the start, and five pass through every kind of event. In a sensor, three writes
and one of the host are what the crossing of two echoes needs; a call that fails needs one write
that is lost and one that makes up for it. The numbers tried are 0 and 1, what the setters write, a
fraction, one above the largest `int32`, one above the largest `int64`, and NaN; the two limits are
scaled down and stay in their order, above every number a setter or a gauge uses. Four calls for a
camera add a sensor, add it again, remove it and add it once more. A doorbell is rung, rung again
and rung after its removal. Names of a phase need a report that adds, one that clears and one that
finds the remains. In the document, one section has two locations, so that a delete has a neighbour
to spare; three sets are a value, one that replaces it while its snapshot waits, and a delete.
Values nest as deep as `MaxStoreValueDepth`, here 3; the limits of safe integers and of `int64` are
small numbers in the same order, so that all are passed. Two subscribers of a shared feed make every
order of first, last and late; a third one adds only states (it was checked with three values too).
A link lost twice is lost again while the refresh after the first loss is under way.

Every run says `CHECK_DEADLOCK FALSE` because every behaviour ends: the bounds are used
up, or the component is closed.

### Known limits of the code

The conditions in the properties are there because the code does not keep them
otherwise. TLC finds a counterexample when a condition is dropped.

- Storage: a call that finds its value unchanged returns before the write that
  put it there is durable (`storage_unchanged`). An `OnGet` answer that arrives after `RemoveSchema`
  puts the value back; `SetConfig` with nil leaves a hole where `SetValue` restores the
  default; a value equal to a default in memory is never written.
- Document: a map that `GetValue` handed out, changed in place and set again, is not written, and
  neither is a list of a concrete element type that the caller still has (`alias`). `GetConfig`
  hands out `ds.Values` too, and goes through the schemas without the lock.
- Store file: the directory is not synced, so a power failure may undo the rename of an
  acknowledged write. `AckedSurvives` promises it for the death of the process.
- View: a proxy whose `Subscribe` failed stays in the view without events, since `newSensorProxy`
  drops the error (`sensor_proxy.go:54`); `init` or a handler that is under way at `close` may add a
  proxy to the new map, whose subscription nobody ends. A sensor released or re-created while `init`
  runs may be handed to the plugin after its release, or not at all; a reconnect refetches only
  sensors already in the view; a resync answer may replace a newer value.
- Binding: a record deleted during its bind is published all the same, two binds of
  one record overwrite each other, and `OnStart` may run after the storage was dropped.
- Camera: nothing stops a second `AddSensor` of a sensor, which stores its closure over the first
  one's (`camera_device.go:490`): the first handler and subscription stay until the process ends.
  `RemoveSensor` of a sensor that is not listed throws away its closure before it returns the error
  (`camera_device.go:515-521`). A sensor added again after its removal has completed observables
  (`BaseSensor.cleanup`); the model has one object for an id and not these. An `AddSensor` under way
  during the release adds to a device that is gone. A link that is lost and back between the
  subscription of `init` and its registration of `OnReconnect` (`camera_device.go:654-655`) is
  noticed by nobody, and the mirror stays as it was. An answer of `refreshStates` may replace a
  newer event (`MirrorCatchesUp` is stated for calm surroundings).
- Devices: two goroutines may make two storages for one camera, and a release during the
  making of a device is lost. The storage of a sensor (and of the plugin) is cached before its
  handler is registered, so a retry after a failure gets it without one.
- Shared feeds: a value that arrives while the first subscriber connects may reach nobody
  (`missed_change`), the first value is always lost behind `Share`, and the event handler
  and `refreshStates` at once may leave `d.camera` and its subject with different values.
- Emitter: a second `Emit`, an `Off` or a `RemoveAllListeners` during an `Emit` makes it remove
  another listener than the one it called.
- Contract: the role `service` and three interfaces are rejected (`contract`).
- Subjects: a BehaviorSubject may replay a value after the one that replaced it, the
  handle of a completed subject is not closed, and `FirstValueFrom` may answer `ErrNoValue`
  although a value came first.
- Runtime: `OnStop` callbacks run in goroutines nobody waits for; their writes may miss
  the last flush.
- Sensor state: errors of calls are discarded (`manager_sensor.go:433-443`,
  `camera_device.go:451-459`), so the host keeps its old value until the next different write; a
  setter that is called again with the same value sends nothing. An error of `Subscribe` is logged
  (`manager_sensor.go:467-470`, `camera_device.go:484-487`), and the sensor gets no writes of the
  host. Numbers outside `int32`, NaN and the infinities keep the type of the decoder
  (`sensor_coerce.go:104-116`), so that the getter falls back; a `float64` loses its fraction, and
  one beyond the integers becomes what the machine makes of it. Writes during binding are lost on
  the other side; a late echo may make the last call of a setter a no-op; reports of two goroutines
  may arrive in the other order; numbers of locks, garage doors and gauges are not coerced, so that
  their getters fall back once the host has written them.
- Doorbell: a reset that has started is not stopped and cuts a new ring, and removal
  leaves the ring set.
- Detection sensors: names are read and written without one lock, and come back from the
  host as a type the getters of faces and plates do not accept.

### Fairness

Weak fairness of a goroutine's steps stands for the Go scheduler: a goroutine
that can run does. File operations return; remote puts end by
`remoteStoreTimeout`; other calls of the host end in an answer or an error. A goroutine
waiting for a slot (`registerSlots`, a channel) gets strong fairness, since
Go queues the senders of a full channel. Timers that are not stopped fire. Calls
by the plugin, the user or the host are never assumed to happen.

## 4. Proofs

Every theorem but `KindsFit` is of the form `Spec => []P` (`FlushOrder` and `Refinement`:
`Spec => P`), for the specification without fairness and for every value of the constants that meets the
named assumptions. These say that bounds are natural numbers (`BoundAssumption`, `CallsAssumption`
and others), that scenes and uses are of their declared type, that the sets whose size a property
counts are finite (`RecordsAssumption`, `SensorsAssumption`, `CallbacksAssumption`,
`WatchersAssumption`, `FiniteAssumption`, Producers in `ScenesAssumption` of `Subjects`), that
identifiers of different things differ and none of them is data (`DataAssumption`,
`NoneAssumption`), that lists hold what they are lists of (`ListsAssumption`, `PlacesAssumption`),
that what enters from outside is a value of the wire (`ScenesAssumption` of `SensorState`) or is
about the storage's keys (`ArgumentsAssumption`), that numbers are in the order of Go's types
(`NumbersAssumption`), and that a sensor is one of the SDK's kinds behind a decoder as described in
section 2 (`ScenesAssumption` of `SensorState`). None restricts what a caller, the host or the
machine does; TLC evaluates each of them in the runs. Where a property names the surroundings in
which the code keeps it (`Orderly`, `calm`, `~echo`...), so does the theorem, and the part of the
inductive invariant that needs them stands behind the same condition.

None of the properties is inductive. What each proof adds:

| Theorem (property) | The invariant, and why it is needed |
|---|---|
| `TypeCorrect`, `AckDurable` (`AckedIsDurable`), `FlushExclusive` (`OneFlushAtATime`), `BurstBounded` (`BurstCost`), `FlushOrder` (`NeverOvertaken`), `Refinement` (`ImplementsDurableStore`) in `PersistenceProofs` | `IInv`. `DrainerInv`: at most one live drainer, one exactly while the in-flight flag is set. `FlushInv`: a flush without outcome is pending or taken, never both. `OrderInv`: durable version, late puts, the flush under way and the pending one are in that order; this makes coalescing safe, and holds only because the drainer is alone. `AckInv`: what a caller waits for covers what it saved |
| `SavedDurable` (`SavedIsDurable`), `CleanDurable` (`CleanMeansDurable`) | `StorageIInv`, with `IInv` of the writer. `persistMu` puts snapshots and documents in one order (`PersistOrder`, `SeqOrder`); unless a persist is about to start the newest snapshot is the memory, but for keys changed without one, or the storage stays dirty (`SnapshotFresh`); a clean storage has its newest document in the backend or a persist under way that decides (`CleanInv`); what a call claims is in its snapshot and in every later document until another call changes it (`ClaimInv`). The writer says which document the backend has, `ClaimInv` what is in it |
| `StoreNeverFallsBehind`, `StoreAlwaysRecoverable`, `StoreAckedSurvives` and a second `TypeCorrect` in `StoreProofs` | `StoreIInv`. A file gets the store's name only when it is synced, and only decay spoils one (`NamesStable`); what the temp files hold at each step (`TempsFollow`); what is being written is no older than what must survive, for each of the three reasons to write (`BufferCovers`); the backup is of the generation the history says (`BackupKept`). A rename is safe because of all four at once |
| `DocumentFlushed` (`FlushedAsSaved`) | `DocumentIInv`. No object of the plugin is in the document or a snapshot, though one may be in `ds.Values` (`DocumentCopies`); the newest save waits, is flushed or is stored (`NewestKept`). Stated for values that `deepCopyValue` copies; for typed lists the run `alias` has the counterexample |
| `SubscriptionsMatch` (`OneSubscription`) | `Typed`: `ViewTypes` and `SubsInv`. The subscriptions of a sensor are as many as those that will end one: the proxy in the view, the handler that took one out, `close`; a proxy without a subscription has no events on their way, and where no call fails there is none. Types are needed because the events carry what the proxies are made from |
| `ViewIsTheRegistrys` (`ViewConverges`) | `ViewIInv`. Without losses a visible sensor is in the view or on its way, by an event, the handler or the list of `init`, and every event that hides it is followed by one that shows it (`LosslessInv`). In a calm scene the newest event about a sensor says what the registry says, and so do the view and the handler when no event is left (`ShownInv`); the plugin knows what the view holds but for what it is being told (`KnownInv`); and the same as `ShownInv` holds of the connection and of each camera on its own (`FacetInv`, `Facets`), which is why a proxy made from an answer newer than the events still queued ends up right. `CalmStart` is the invariant until `init` is through |
| `StartBailsOut` (`NotStartedAfterStop`), `CleanupWritesLand` (`SyncWritesLand`) | `RuntimeIInv`. An early token is in the channel until a check takes it (`TokenKept`); what each stage of the teardown has behind it (`TeardownStages`); managers exist from the constructor on (`ManagersFirst`) |
| `OwnedSensorsWired` (`OwnedIsWired`) | `MapsIInv`. A bind owns its instance until it is published and has what it registered (`BindOwns`); there is an instance for every record and change (`Room`) |
| `LifecyclePaired` (`PairedLifecycle`) | `LifeIInv`. Activations balance deactivations and what is due (`Balanced`); in order one thing happens at a time, a record has one bind, and the maps know whatever is registered (`OneAtATime`, `OneBind`, `MapsTell`) |
| `EmitterKeeps` (`ListenersKept`) | `EmitterIInv`. While an `Emit` runs the listeners begin with those it copied, at the same indices (`OneEmit`), and those before its index have fired (`FiresInEmit`); of overlapping `emitAndWait`s only one has a `Once` listener (`FiresInWait`) |
| `DevicesLive` (`MapHoldsLiveDevices`), `StoragesServed` (`StorageServed`) | `ManagerIInv`. A device is in the hands of one task or of the map and is wired before the map has it (`OnePlace`, `ReadyIsWired`); cameras do not share storages (`StoragesApart`); in order a camera has one device and one storage, and none is lost between a task and the map (`OneDevice`, `NoneLost`, `OneStorage`) |
| `WiresOwned` (`WireHasOwner`), `ReleaseDetaches` (`ReleasedIsQuiet`) | `CameraIInv`. Each wire is in the hands of its call or of whoever has its closure: the map, a removal, the cleanup, or nobody (`Held`, `WireReached`), and those who took closures are still at it (`HeldWhileRunning`); a tracked sensor is listed or about to be untracked (`TrackedReached`); activations balance (`Balanced`); in turn, whatever has a closure or is active is listed or about to be detached (`InTurn`); and when no sensor is added again, one add at a time finds no closure to replace (`AddedOnce`), so that nobody's closures are none |
| `WireServed` (`WireServesCallbacks`), `UpstreamShared` (`OneUpstream`) | who holds the lock of `Share` connects, and everyone else sees the count and the connection agree (`MutexHeld`); later generations were not used (`GenerationsLast`) |
| `FeedFollows` (`FollowsState`) | `BeliefIInv`, for one value at a time: one goroutine is in `Next`, the value is on its way through the subject, the operator's memory or a subscriber's belief (`ThroughSubject`, `Remembers`, `Believes`), and the replay is of the present value (`ReplaysCurrent`) |
| `SubjectDelivers` (`DeliveredOnce`) | `SubjectIInv`. No value is anywhere before its `Next` begins (`ValuesBegan`); calls under way have values of their own (`CallsApart`); who is registered follows from how far its `Subscribe` is (`Registered`); a call owes its value exactly to those it has not called yet (`Owed`, `Left`) |
| `SubjectOrders` (`InOrder`) | the same with `Rising`: one producer delivers the newest value, and what a subscriber still replays is newer than what it got, which holds because a ReplaySubject registers last |
| `KindsFit` | no step: each of the 24 kinds is `WellFormed`, its properties, its constructor and every route of its `UpdateValue` against its getters and the registry of coercions |
| `StateConverges` (`Converges`), `GettersRead` (`ReadsTrue`) | `StateIInv`. Every value keeps the type its getter asserts on both sides of the wire, or is a number `coerceInt` leaves as it is (`StateShape`, from `KindsFit`); the newest event under way for a property carries the host's value, and without one the host has the sensor's, an update with it is under way, or a failed call took it along (`Settling`), which holds from the binding on only if nothing was written before (`Untouched`); one report at a time carries the newest value (`ReportsSettle`). A failed call and a failed `Subscribe` are steps like the others |
| `BellResetsOnce` (`OneReset`) | `BellIInv`. Only the newest timer is armed, and it belongs to the present life (`OneTimer`, `ThisRing`), as long as one call runs at a time |
| `DetectionsAgree` (`PropertiesAgree`) | `DetectionIInv`. A report under way holds one whole write, and, when alone, the names as they are (`ReportsWhole`, `PhaseAgrees`) |

Each proof has a lemma per action, or per group of actions with the same effect, and under it a step
per conjunct the action disturbs. The invariants were checked by TLC on the run's instance first.

Some definitions are written so that the provers can reason about them: `Without` and
`SameMultiset` by a set of positions and by a pairing instead of a selection and a
permutation, `ran` of `SensorBinding` as counts instead of a history, `Times` of `Subjects` as a
cardinality, the cases of `NamesAfter` with guards that exclude each other, `One` of `SensorKinds`
and `writeState` as functions of a property instead of `:>` and `@@`.

Only model-checked:

- liveness, everything with `~>` or `<>` under fairness (`EverySaveAnswered`,
  `EveryCallReturns`, `ReleaseReported`, `NeverMissed`, `EveryBindEnds`, `WaiterReturns`,
  `CameraSettles`, `SensorsSettle`): out of the prover's reach;
- `ValuesFaithful`: about recursive operators, which would need induction over values.

## 5. Plan

Done: the modules above, in the order persistence, storage, store file, view,
binding, subjects, runtime, camera device, feeds, device manager, sensor state,
doorbell, detection sensors, then the document and its values, the shared feeds, the
emitter and the contract; then the theorems of section 4, which state every safety property of
the passing runs but `ValuesFaithful`.

To extend the model, if at all: a composition of `SensorBinding` with `SensorState` for the
moment a sensor is bound, and of `DeviceManager` with `CameraDevice` for its release.
