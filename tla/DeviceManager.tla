---------------------------- MODULE DeviceManager ---------------------------
(***************************************************************************)
(* The DeviceManager (src/go/manager_device.go) with the storages its      *)
(* devices use (src/go/storage_controller.go): cameras come with START,    *)
(* with the host's cameraAdded and cameraReleased requests and with        *)
(* GetCamera, each from a goroutine of its own, and every one of them      *)
(* builds a CameraDevice and puts it into the map of devices.  The map has *)
(* a lock, the map of storages has none: an unlocked read and the write    *)
(* that depends on it are two steps.                                       *)
(***************************************************************************)
EXTENDS Naturals, Sequences, FiniteSets

CONSTANTS
  Cameras,
  Callers,      \* goroutines of the plugin that call GetCamera, once each
  MaxDevices,   \* bound: CameraDevices made in a behaviour
  ManagerScenes        \* surroundings of the manager, see ManagerSceneType

VARIABLES
  managerScene,        \* the surroundings of this behaviour, never changed
  assigned,     \* cameras the host has assigned to the plugin
  deviceChanges,      \* changes so far
  requests,     \* requests of the host that were not handled yet
  startPc,      \* where the start is: "create", "done" or "failed"
  startCams,    \* cameras of START that have no device yet
  startDevs,    \* devices made for START and not configured yet
  task,         \* what each goroutine is doing
  used,         \* CameraDevices made so far
  devices,      \* dm.devices: a device or 0, by camera
  wired,        \* devices with handlers and subscriptions
  storages,     \* sc.storages: a storage or 0, by camera
  served,       \* storages with an RPC handler
  uses,         \* the storage of each device that has one, 0 otherwise
  closePc,      \* where close is
  managerClosing       \* devices close still has to clean up

managerVars == <<managerScene, assigned, deviceChanges, requests, startPc, startCams,
                 startDevs, task, used, devices, wired, storages, served, uses, closePc,
                 managerClosing>>

\* overlap: assignments change, and GetCamera and close are called, while a
\* goroutine is at work; fail: registrations and subscriptions fail.
ManagerEnvKinds == {"overlap", "fail"}

\* A scene says what the surroundings do, which cameras and callers take part, and
\* bounds the assignments and releases at the host.
ManagerSceneType == [env : SUBSET ManagerEnvKinds, cameras : SUBSET Cameras,
              callers : SUBSET Callers, maxChanges : Nat]

ASSUME FiniteAssumption ==
  IsFiniteSet(Cameras) /\ IsFiniteSet(Callers) /\ Callers \cap {"handler", "start"} = {}
ASSUME ManagerScenesAssumption ==
  /\ MaxDevices \in Nat /\ ManagerScenes \subseteq ManagerSceneType
  /\ \A c \in ManagerScenes :
       Cardinality(c.cameras) + c.maxChanges + Cardinality(c.callers) <= MaxDevices

ManagerEnv == managerScene.env
MaxDeviceChanges == managerScene.maxChanges

\* Enough for START, every assignment and every caller.
Devices == 1 .. MaxDevices

\* The handler of the host's requests, and the start, beside the callers.
Tasks == Callers \cup {"handler", "start"}
Idle == [pc |-> "idle", cam |-> "none", dev |-> 0, obj |-> 0]
Done == [Idle EXCEPT !.pc = "done"]
Working(t) == task[t].pc \notin {"idle", "done"}

ManagerFails == "fail" \in ManagerEnv
Orderly == ManagerEnv = {}
AtRest ==
  /\ requests = <<>> /\ startPc # "create" /\ closePc # "cleanup"
  /\ \A t \in Tasks : ~Working(t)
Allowed == "overlap" \in ManagerEnv \/ AtRest

-----------------------------------------------------------------------------
(* The host (external)                                                      *)

HostChange(kind, c) ==
  /\ deviceChanges < MaxDeviceChanges /\ Allowed /\ closePc = "open"
  /\ deviceChanges' = deviceChanges + 1
  /\ requests' = Append(requests, [kind |-> kind, cam |-> c])
  /\ UNCHANGED <<managerScene, startPc, startCams, startDevs, task, used, devices, wired,
                 storages, served, uses, closePc, managerClosing>>

Assign(c) == c \notin assigned /\ assigned' = assigned \cup {c} /\ HostChange("added", c)
ReleaseCamera(c) == c \in assigned /\ assigned' = assigned \ {c} /\ HostChange("released", c)

-----------------------------------------------------------------------------
(* Making a device: newCameraDeviceProxy and init                           *)

\* Goroutine t starts on a device for camera c.
NewDevice(t, c) ==
  /\ used' = used + 1
  /\ task' = [task EXCEPT ![t] = [pc |-> "storage", cam |-> c, dev |-> used + 1, obj |-> 0]]

\* What t does next when its work is over.
Rest(t) == IF t \in Callers THEN Done ELSE Idle

\* An error of init; one in the start ends the start, and the devices made so far
\* are not cleaned up.
InitFails(t) ==
  /\ ManagerFails
  /\ task' = [task EXCEPT ![t] = Rest(t)]
  /\ startPc' = IF t = "start" THEN "failed" ELSE startPc

\* createCameraStorage reads the map...
LookupStorage(t) ==
  /\ task[t].pc = "storage"
  /\ task' = [task EXCEPT ![t].pc = "create", ![t].obj = storages[task[t].cam]]
  /\ UNCHANGED <<managerScene, assigned, deviceChanges, requests, startPc, startCams,
                 startDevs, used, devices, wired, storages, served, uses, closePc,
                 managerClosing>>

\* A slip: a cached storage is returned as it is.
CreateCameraStorageCached(t) ==
  LET d == task[t].dev
      c == task[t].cam
      o == IF task[t].obj = 0 THEN d ELSE task[t].obj
  IN  /\ task[t].pc = "create"
      /\ storages' = [storages EXCEPT ![c] = IF task[t].obj = 0 THEN d ELSE @]
      /\ task' = [task EXCEPT ![t].pc = "connect"]
      /\ served' = IF task[t].obj = 0 THEN served \cup {o} ELSE served
      /\ uses' = [uses EXCEPT ![d] = o]
      /\ UNCHANGED <<managerScene, assigned, deviceChanges, requests, startPc, startCams,
                     startDevs, used, devices, wired, closePc, managerClosing>>

\* ... puts a new storage into it if there was none, and registers its handler if
\* it has none: a released camera's storage is used again.  An error of the
\* registration ends init; the new storage stays in the map.
CreateCameraStorage(t) ==
  LET d == task[t].dev
      c == task[t].cam
      o == IF task[t].obj = 0 THEN d ELSE task[t].obj
  IN  /\ task[t].pc = "create"
      /\ storages' = [storages EXCEPT ![c] = IF task[t].obj = 0 THEN d ELSE @]
      /\ \/ /\ task' = [task EXCEPT ![t].pc = "connect"]
            /\ served' = served \cup {o}
            /\ uses' = [uses EXCEPT ![d] = o]
            /\ UNCHANGED startPc
         \/ o \notin served /\ InitFails(t) /\ UNCHANGED <<served, uses>>
      /\ UNCHANGED <<managerScene, assigned, deviceChanges, requests, startCams, startDevs,
                     used, devices, wired, closePc, managerClosing>>

\* The camera's handler and its event subscription: an error may leave the
\* handler behind.
ConnectDevice(t) ==
  LET d == task[t].dev
  IN  /\ task[t].pc = "connect"
      /\ \/ task' = [task EXCEPT ![t].pc = "put"] /\ wired' = wired \cup {d} /\ UNCHANGED startPc
         \/ InitFails(t) /\ wired' \in {wired, wired \cup {d}}
      /\ UNCHANGED <<managerScene, assigned, deviceChanges, requests, startCams, startDevs,
                     used, devices, storages, served, uses, closePc, managerClosing>>

\* dm.devices[cam.ID] = cameraDevice, under dm.mu; the start collects its devices.
PutDevice(t) ==
  LET d == task[t].dev
      c == task[t].cam
  IN  /\ task[t].pc = "put"
      /\ task' = [task EXCEPT ![t] = Rest(t)]
      /\ IF t = "start"
         THEN startDevs' = startDevs \cup {[cam |-> c, dev |-> d]} /\ UNCHANGED devices
         ELSE devices' = [devices EXCEPT ![c] = d] /\ UNCHANGED startDevs
      /\ UNCHANGED <<managerScene, assigned, deviceChanges, requests, startPc, startCams,
                     used, wired, storages, served, uses, closePc, managerClosing>>

-----------------------------------------------------------------------------
(* The start of the plugin                                                  *)

StartCamera(c) ==
  /\ startPc = "create" /\ c \in startCams /\ ~Working("start")
  /\ startCams' = startCams \ {c}
  /\ NewDevice("start", c)
  /\ UNCHANGED <<managerScene, assigned, deviceChanges, requests, startPc, startDevs,
                 devices, wired, storages, served, uses, closePc, managerClosing>>

ConfigureCameras ==
  /\ startPc = "create" /\ startCams = {} /\ ~Working("start")
  /\ startPc' = "done"
  /\ devices' = [c \in Cameras |->
       IF \E r \in startDevs : r.cam = c THEN (CHOOSE r \in startDevs : r.cam = c).dev
       ELSE devices[c]]
  /\ startDevs' = {}
  /\ UNCHANGED <<managerScene, assigned, deviceChanges, requests, startCams, task, used,
                 wired, storages, served, uses, closePc, managerClosing>>

-----------------------------------------------------------------------------
(* GetCamera                                                                *)

\* The map is searched under the read lock.
GetCamera(t, c) ==
  /\ task[t].pc = "idle" /\ Allowed /\ closePc = "open"
  /\ task' = [task EXCEPT ![t] =
       IF devices[c] # 0 THEN Done ELSE [Idle EXCEPT !.pc = "ask", !.cam = c]]
  /\ UNCHANGED <<managerScene, assigned, deviceChanges, requests, startPc, startCams,
                 startDevs, used, devices, wired, storages, served, uses, closePc,
                 managerClosing>>

\* The host knows the camera, or the result is nil.
HostAnswersList(t) ==
  /\ task[t].pc = "ask"
  /\ IF task[t].cam \in assigned THEN NewDevice(t, task[t].cam)
     ELSE task' = [task EXCEPT ![t] = Done] /\ UNCHANGED used
  /\ UNCHANGED <<managerScene, assigned, deviceChanges, requests, startPc, startCams,
                 startDevs, devices, wired, storages, served, uses, closePc,
                 managerClosing>>

-----------------------------------------------------------------------------
(* The host's requests and close                                            *)

HandleCameraAdded ==
  LET c == Head(requests).cam
  IN  /\ requests # <<>> /\ ~Working("handler") /\ closePc = "open"
      /\ Head(requests).kind = "added"
      /\ requests' = Tail(requests)
      /\ IF devices[c] # 0 THEN UNCHANGED <<task, used>> ELSE NewDevice("handler", c)
      /\ UNCHANGED <<managerScene, assigned, deviceChanges, startPc, startCams, startDevs,
                     devices, wired, storages, served, uses, closePc, managerClosing>>

\* OnCameraReleased, then the device leaves the map under dm.mu.
HandleCameraReleased ==
  LET c == Head(requests).cam
  IN  /\ requests # <<>> /\ ~Working("handler") /\ closePc = "open"
      /\ Head(requests).kind = "released"
      /\ requests' = Tail(requests)
      /\ devices' = [devices EXCEPT ![c] = 0]
      /\ task' = [task EXCEPT !["handler"] =
                    [pc |-> "release", cam |-> c, dev |-> devices[c], obj |-> 0]]
      /\ UNCHANGED <<managerScene, assigned, deviceChanges, startPc, startCams, startDevs,
                     used, wired, storages, served, uses, closePc, managerClosing>>

\* A slip: the device is dropped without its cleanup.
ReleaseDeviceDropped ==
  LET c == task["handler"].cam
  IN  /\ task["handler"].pc = "release"
      /\ task' = [task EXCEPT !["handler"] = Idle]
      /\ served' = served \ {storages[c]}
      /\ UNCHANGED <<managerScene, assigned, deviceChanges, requests, startPc, startCams,
                     startDevs, used, devices, wired, storages, uses, closePc,
                     managerClosing>>

\* device.cleanup and releaseCameraStorage, which ends the storage's handler.
ReleaseDevice ==
  LET c == task["handler"].cam
  IN  /\ task["handler"].pc = "release"
      /\ task' = [task EXCEPT !["handler"] = Idle]
      /\ wired' = wired \ {task["handler"].dev}
      /\ served' = served \ {storages[c]}
      /\ UNCHANGED <<managerScene, assigned, deviceChanges, requests, startPc, startCams,
                     startDevs, used, devices, storages, uses, closePc, managerClosing>>

\* The request handler is closed, the map is taken under dm.mu.
Close ==
  /\ closePc = "open" /\ Allowed /\ startPc # "create"
  /\ closePc' = "cleanup"
  /\ managerClosing' = {devices[c] : c \in Cameras} \ {0}
  /\ devices' = [c \in Cameras |-> 0]
  /\ UNCHANGED <<managerScene, assigned, deviceChanges, requests, startPc, startCams,
                 startDevs, task, used, wired, storages, served, uses>>

\* Every device is cleaned up without the lock; then storageController.close.
CloseDevices ==
  /\ closePc = "cleanup"
  /\ closePc' = "closed"
  /\ wired' = wired \ managerClosing
  /\ managerClosing' = {}
  /\ served' = served \ {storages[c] : c \in Cameras}
  /\ UNCHANGED <<managerScene, assigned, deviceChanges, requests, startPc, startCams,
                 startDevs, task, used, devices, storages, uses>>

-----------------------------------------------------------------------------
ManagerInit ==
  /\ managerScene \in ManagerScenes
  /\ assigned \in SUBSET managerScene.cameras
  /\ deviceChanges = 0 /\ requests = <<>>
  /\ startPc = "create" /\ startCams = assigned /\ startDevs = {}
  /\ task = [t \in Tasks |-> Idle]
  /\ used = 0
  /\ devices = [c \in Cameras |-> 0] /\ wired = {}
  /\ storages = [c \in Cameras |-> 0] /\ served = {} /\ uses = [d \in Devices |-> 0]
  /\ closePc = "open" /\ managerClosing = {}

ManagerNext ==
  \/ \E c \in managerScene.cameras :
       \/ Assign(c) \/ ReleaseCamera(c) \/ StartCamera(c)
       \/ \E t \in managerScene.callers : GetCamera(t, c)
  \/ \E t \in Callers : HostAnswersList(t)
  \/ \E t \in Tasks :
       LookupStorage(t) \/ CreateCameraStorage(t) \/ ConnectDevice(t) \/ PutDevice(t)
  \/ ConfigureCameras \/ HandleCameraAdded \/ HandleCameraReleased \/ ReleaseDevice
  \/ Close \/ CloseDevices

ManagerSpec == ManagerInit /\ [][ManagerNext]_managerVars

-----------------------------------------------------------------------------
(* Properties                                                               *)

ManagerTypeOK ==
  /\ assigned \subseteq Cameras
  /\ startPc \in {"create", "done", "failed"} /\ startCams \subseteq Cameras
  /\ startDevs \subseteq [cam : Cameras, dev : Devices]
  /\ task \in [Tasks -> [pc : {"idle", "ask", "storage", "create", "connect", "put",
                               "release", "done"},
                         cam : Cameras \cup {"none"}, dev : Devices \cup {0},
                         obj : Devices \cup {0}]]
  /\ used \in Devices \cup {0}
  /\ devices \in [Cameras -> Devices \cup {0}] /\ storages \in [Cameras -> Devices \cup {0}]
  /\ wired \subseteq Devices /\ served \subseteq Devices /\ managerClosing \subseteq Devices
  /\ uses \in [Devices -> Devices \cup {0}]
  /\ closePc \in {"open", "cleanup", "closed"}

\* GetCamera and cameraAdded never find a device that was cleaned up: whatever is in
\* the map is connected, in every interleaving with releases and close.  When calls
\* come in order and none fails, at rest every connected device is the one the map has
\* for its camera, so that a release or close reaches it, and the map has none for a
\* camera that the host took away (GetCamera: "Returns nil if no matching camera exists").
MapHoldsLiveDevices ==
  /\ \A c \in Cameras : devices[c] # 0 => devices[c] \in wired
  /\ Orderly /\ AtRest =>
       /\ wired = {devices[c] : c \in Cameras} \ {0}
       /\ \A c \in Cameras \ assigned : devices[c] = 0

\* "Instances are cached by scope, so repeated lookups return the same storage": a
\* connected device uses the storage that the controller has for its camera, and
\* that its close will save; at rest the host reaches it, also when the camera was
\* re-added ("only the handler needs to come back").  When calls come in order.
StorageServed ==
  Orderly => \A c \in Cameras : devices[c] # 0 =>
    /\ uses[devices[c]] = storages[c]
    /\ AtRest => uses[devices[c]] \in served
=============================================================================
