------------------------- MODULE DeviceManagerProofs ------------------------
(***************************************************************************)
(* Proofs about the device manager (DeviceManager): what the map of        *)
(* devices and the map of storages hold, for any number of cameras,        *)
(* callers and changes.                                                    *)
(***************************************************************************)
EXTENDS DeviceManager, FiniteSetTheorems, SequenceTheorems, TLAPS

\* The steps of making a device.
Making == {"storage", "create", "connect", "put"}

TaskRecord(n) ==
  [pc : Making \cup {"idle", "ask", "release", "done"}, cam : Cameras \cup {"none"},
   dev : 0 .. n, obj : 0 .. n]

ManagerTypes ==
  /\ managerScene \in ManagerScenes
  /\ assigned \subseteq managerScene.cameras /\ startCams \subseteq managerScene.cameras
  /\ deviceChanges \in Nat /\ deviceChanges <= MaxDeviceChanges
  /\ requests \in Seq([kind : {"added", "released"}, cam : Cameras])
  /\ startPc \in {"create", "done", "failed"}
  /\ used \in Nat
  /\ startDevs \subseteq [cam : Cameras, dev : 1 .. used]
  /\ task \in [Tasks -> TaskRecord(used)]
  /\ devices \in [Cameras -> 0 .. used] /\ storages \in [Cameras -> 0 .. used]
  /\ wired \subseteq 1 .. used /\ managerClosing \subseteq 1 .. used
  /\ closePc \in {"open", "cleanup", "closed"}

\* What goroutine t may be doing, and what it has in its hands.
TaskApart(t) ==
  /\ task[t].pc \in Making \cup {"ask", "release"} => task[t].cam \in Cameras
  /\ task[t].pc \in Making => task[t].dev # 0
  /\ task[t].pc \notin Making \cup {"release"} => task[t].dev = 0
  /\ task[t].pc = "release" => t = "handler"
  /\ task[t].pc \in {"ask", "done"} => t \in managerScene.callers
  /\ t \in Callers \ managerScene.callers => task[t].pc = "idle"

TasksApart == \A t \in Tasks : TaskApart(t)

\* A device is in one place: with a goroutine, among those of the start, in the map
\* under one camera, or in what close took.
HandsApart == \A t, u \in Tasks : t # u /\ task[t].dev # 0 => task[t].dev # task[u].dev
HandsOnly ==
  \A t \in Tasks : task[t].dev # 0 =>
    /\ \A c \in Cameras : devices[c] # task[t].dev
    /\ \A r \in startDevs : r.dev # task[t].dev
    /\ task[t].dev \notin managerClosing
MapApart ==
  /\ \A c, e \in Cameras : devices[c] = devices[e] /\ devices[c] # 0 => c = e
  /\ \A c \in Cameras : devices[c] \notin managerClosing
StartApart ==
  \A r \in startDevs :
    /\ \A c \in Cameras : devices[c] # r.dev
    /\ \A q \in startDevs : q.dev = r.dev => q = r
    /\ r.dev \notin managerClosing

OnePlace == HandsApart /\ HandsOnly /\ MapApart /\ StartApart

\* A device that is ready is connected until somebody takes it for its cleanup.
ReadyIsWired ==
  /\ \A t \in Tasks : task[t].pc = "put" => task[t].dev \in wired
  /\ \A r \in startDevs : r.dev \in wired
  /\ \A c \in Cameras : devices[c] # 0 => devices[c] \in wired

\* The inductive invariant of the map of devices, whatever overlaps and fails.
DevicesIInv == ManagerTypes /\ TasksApart /\ OnePlace /\ ReadyIsWired

\* There is a device for every camera of the start, every request and every caller.
Waiting == {t \in managerScene.callers : task[t].pc \in {"idle", "ask"}}
DeviceRoom ==
  used + Len(requests) + Cardinality(startCams) + Cardinality(Waiting)
    <= Cardinality(managerScene.cameras) + deviceChanges + Cardinality(managerScene.callers)

\* Two cameras never share a storage: one is named after the device that made it.
StoragesApart ==
  /\ \A c, e \in Cameras : storages[c] = storages[e] /\ storages[c] # 0 => c = e
  /\ \A t \in Tasks : task[t].pc \in {"storage", "create"} =>
       \A c \in Cameras : storages[c] # task[t].dev

\* When calls come in order one goroutine works at a time: the start until it is done,
\* then one request or one caller, until close.
InOrder ==
  /\ \A t, u \in Tasks : Working(t) /\ Working(u) => t = u
  /\ Len(requests) <= 1
  /\ \A t \in Tasks : Working(t) =>
       requests = <<>> /\ closePc = "open" /\ (t = "start" <=> startPc = "create")
  /\ requests # <<>> => startPc = "done" /\ closePc = "open"
  /\ startPc = "create" => closePc = "open" /\ \A c \in Cameras : devices[c] = 0
  /\ startPc # "create" => startPc = "done" /\ startDevs = {}
  /\ closePc # "open" => \A c \in Cameras : devices[c] = 0
  /\ closePc # "cleanup" => managerClosing = {}

\* When calls come in order a camera gets one device, and only while it is assigned.
CameraFree(t) ==
  /\ Working(t) => devices[task[t].cam] = 0
  /\ task[t].pc \in Making => task[t].cam \in assigned
  /\ t = "start" /\ Working(t) =>
       task[t].cam \notin startCams /\ \A r \in startDevs : r.cam # task[t].cam
StartAssigned ==
  /\ startPc = "create" => startCams \subseteq assigned
  /\ \A r \in startDevs :
       /\ r.cam \in assigned /\ r.cam \notin startCams
       /\ \A q \in startDevs : q.cam = r.cam => q = r
RequestTrue ==
  requests # <<>> => (Head(requests).kind = "added" <=> Head(requests).cam \in assigned)
MapAssigned ==
  \A c \in Cameras : devices[c] # 0 =>
    c \in assigned \/ (requests # <<>> /\ Head(requests).cam = c)

OneDevice == (\A t \in Tasks : CameraFree(t)) /\ StartAssigned /\ RequestTrue /\ MapAssigned

\* Where a connected device is.
Placed(d) ==
  \/ \E c \in Cameras : devices[c] = d
  \/ \E r \in startDevs : r.dev = d
  \/ \E t \in Tasks : task[t].pc \in {"put", "release"} /\ task[t].dev = d
  \/ d \in managerClosing

\* When calls come in order no connected device is lost.
NoneLost == \A d \in wired : Placed(d)

\* When calls come in order a device that is connected, or is about to be, uses the
\* storage of its camera, and the host reaches it.
Serves(c, d) == storages[c] # 0 /\ uses[d] = storages[c] /\ storages[c] \in served
TaskServes(t) ==
  /\ task[t].pc = "create" => task[t].obj = storages[task[t].cam]
  /\ task[t].pc \in {"connect", "put"} => Serves(task[t].cam, task[t].dev)
ReadyServes ==
  /\ \A r \in startDevs : Serves(r.cam, r.dev)
  /\ \A c \in Cameras : devices[c] # 0 => Serves(c, devices[c])

OneStorage ==
  uses \in [Devices -> 0 .. used] /\ (\A t \in Tasks : TaskServes(t)) /\ ReadyServes

\* The inductive invariant of the devices and storages.
ManagerIInv ==
  /\ DevicesIInv /\ DeviceRoom /\ StoragesApart
  /\ Orderly => InOrder /\ OneDevice /\ NoneLost /\ OneStorage

\* The cameras and callers of a scene are finitely many, and bounded with the changes by
\* the devices.
LEMMA ManagerSceneFacts ==
  ASSUME ManagerTypes
  PROVE  /\ managerScene.cameras \subseteq Cameras /\ managerScene.callers \subseteq Callers
         /\ managerScene.maxChanges \in Nat
         /\ \A S \in SUBSET Cameras : IsFiniteSet(S) /\ Cardinality(S) \in Nat
         /\ \A S \in SUBSET Callers : IsFiniteSet(S) /\ Cardinality(S) \in Nat
         /\ Cardinality(managerScene.cameras) + managerScene.maxChanges
              + Cardinality(managerScene.callers) <= MaxDevices
<1>1. /\ managerScene.cameras \subseteq Cameras /\ managerScene.callers \subseteq Callers
      /\ managerScene.maxChanges \in Nat
  BY ManagerScenesAssumption DEF ManagerTypes, ManagerSceneType
<1>2. /\ \A S \in SUBSET Cameras : IsFiniteSet(S) /\ Cardinality(S) \in Nat
      /\ \A S \in SUBSET Callers : IsFiniteSet(S) /\ Cardinality(S) \in Nat
  BY FiniteAssumption, FS_Subset, FS_CardinalityType
<1> QED
  BY <1>1, <1>2, ManagerScenesAssumption DEF ManagerTypes

\* What the host appends to the requests and the handler takes.
LEMMA RequestFacts ==
  ASSUME ManagerTypes
  PROVE  /\ Len(requests) \in Nat
         /\ requests # <<>> =>
              /\ Head(requests).cam \in Cameras
              /\ Tail(requests) \in Seq([kind : {"added", "released"}, cam : Cameras])
              /\ Len(Tail(requests)) = Len(requests) - 1
              /\ Len(requests) <= 1 => Tail(requests) = <<>>
<1> DEFINE Request == [kind : {"added", "released"}, cam : Cameras]
<1>1. requests \in Seq(Request)
  BY DEF ManagerTypes
<1>2. \A q \in Request : q.cam \in Cameras
  OBVIOUS
<1> HIDE DEF Request
<1>3. Len(requests) \in Nat
  BY <1>1
<1>4. ASSUME requests # <<>>
      PROVE  /\ Head(requests) \in Request /\ Tail(requests) \in Seq(Request)
             /\ Len(Tail(requests)) = Len(requests) - 1
  BY <1>1, <1>4
<1>5. ASSUME requests # <<>>, Len(requests) <= 1 PROVE Tail(requests) = <<>>
  <2>1. Len(requests) # 0 /\ Len(requests) <= 1
    BY <1>1, <1>5, EmptySeq
  <2>2. Tail(requests) \in Seq(Request) /\ Len(Tail(requests)) = Len(requests) - 1
    BY <1>4, <1>5
  <2>3. Len(Tail(requests)) = 0
    BY <1>3, <2>1, <2>2
  <2> QED
    BY <2>2, <2>3, EmptySeq
<1> USE DEF Request
<1> QED
  BY <1>2, <1>3, <1>4, <1>5

\* A request of the host.
LEMMA HostChangeEffect ==
  ASSUME ManagerTypes, NEW kind \in {"added", "released"}, NEW c \in Cameras, HostChange(kind, c)
  PROVE  /\ requests' \in Seq([kind : {"added", "released"}, cam : Cameras])
         /\ Len(requests') = Len(requests) + 1
         /\ requests = <<>> => Len(requests') = 1 /\ Head(requests') = [kind |-> kind, cam |-> c]
         /\ deviceChanges' = deviceChanges + 1 /\ deviceChanges' <= MaxDeviceChanges
         /\ Allowed /\ closePc = "open"
         /\ UNCHANGED <<managerScene, startPc, startCams, startDevs, task, used, devices, wired,
                        storages, served, uses, closePc, managerClosing>>
<1> DEFINE Request == [kind : {"added", "released"}, cam : Cameras]
           q == [kind |-> kind, cam |-> c]
<1>1. requests \in Seq(Request) /\ q \in Request /\ requests' = Append(requests, q)
  BY DEF ManagerTypes, HostChange
<1>2. deviceChanges' = deviceChanges + 1 /\ deviceChanges' <= MaxDeviceChanges
  BY ManagerSceneFacts DEF ManagerTypes, HostChange, MaxDeviceChanges
<1>3. /\ Allowed /\ closePc = "open"
      /\ UNCHANGED <<managerScene, startPc, startCams, startDevs, task, used, devices, wired,
                     storages, served, uses, closePc, managerClosing>>
  BY DEF HostChange
<1> HIDE DEF Request, q
<1>4. /\ requests' \in Seq(Request) /\ Len(requests') = Len(requests) + 1
      /\ requests = <<>> => Len(requests') = 1 /\ Head(requests') = q
  BY <1>1
<1> USE DEF Request, q
<1> QED
  BY <1>2, <1>3, <1>4

\* What one goroutine does to its entry.
LEMMA TaskEffect ==
  ASSUME ManagerTypes, NEW t \in Tasks, NEW x, task' = [task EXCEPT ![t] = x]
  PROVE  /\ task'[t] = x
         /\ \A u \in Tasks : u # t => task'[u] = task[u]
         /\ \A n \in Nat : n >= used /\ x \in TaskRecord(n) => task' \in [Tasks -> TaskRecord(n)]
<1>1. task'[t] = x /\ \A u \in Tasks : u # t => task'[u] = task[u]
  BY DEF ManagerTypes
<1>2. ASSUME NEW n \in Nat, n >= used, x \in TaskRecord(n) PROVE task' \in [Tasks -> TaskRecord(n)]
  <2>1. \A y \in TaskRecord(used) : y \in TaskRecord(n)
    BY <1>2 DEF TaskRecord, ManagerTypes
  <2> QED
    BY <1>1, <1>2, <2>1 DEF ManagerTypes
<1> QED
  BY <1>1, <1>2

\* The start and the handler are goroutines beside the callers.
LEMMA NamedTasks == "start" \in Tasks \ Callers /\ "handler" \in Tasks \ Callers
BY FiniteAssumption DEF Tasks

\* The entry of a goroutine whose work is over.
LEMMA RestFacts ==
  ASSUME NEW t \in Tasks, ManagerTypes
  PROVE  /\ Rest(t) \in TaskRecord(used) /\ Idle \in TaskRecord(used) /\ Done \in TaskRecord(used)
         /\ Rest(t).dev = 0 /\ Rest(t).pc = IF t \in Callers THEN "done" ELSE "idle"
         /\ Idle.dev = 0 /\ Idle.pc = "idle" /\ Done.dev = 0 /\ Done.pc = "done"
BY DEF Rest, Done, Idle, TaskRecord, Tasks, ManagerTypes

\* A goroutine starts on a device: it is a new one.
LEMMA NewDeviceEffect ==
  ASSUME ManagerTypes, NEW t \in Tasks, NEW c \in Cameras, NewDevice(t, c)
  PROVE  /\ used' = used + 1 /\ used' \in Nat
         /\ task' \in [Tasks -> TaskRecord(used')]
         /\ task'[t].pc = "storage" /\ task'[t].cam = c /\ task'[t].dev = used'
         /\ \A u \in Tasks : u # t => task'[u] = task[u]
<1> DEFINE x == [pc |-> "storage", cam |-> c, dev |-> used + 1, obj |-> 0]
<1>1. used' = used + 1 /\ used' \in Nat /\ task' = [task EXCEPT ![t] = x]
  BY DEF NewDevice, ManagerTypes
<1>2. x \in TaskRecord(used') /\ used' >= used
  BY <1>1 DEF TaskRecord, Making, ManagerTypes
<1>3. x.pc = "storage" /\ x.cam = c /\ x.dev = used + 1
  OBVIOUS
<1> HIDE DEF x
<1> QED
  BY <1>1, <1>2, <1>3, TaskEffect

\* createCameraStorage reads the map.
LEMMA LookupEffect ==
  ASSUME ManagerTypes, TasksApart, NEW t \in Tasks, LookupStorage(t)
  PROVE  /\ task' \in [Tasks -> TaskRecord(used)]
         /\ task[t].pc = "storage" /\ task'[t].pc = "create" /\ task[t].cam \in Cameras
         /\ task'[t].cam = task[t].cam /\ task'[t].dev = task[t].dev
         /\ task'[t].obj = storages[task[t].cam]
         /\ \A u \in Tasks : u # t => task'[u] = task[u]
         /\ UNCHANGED <<managerScene, assigned, deviceChanges, requests, startPc, startCams,
                        startDevs, used, devices, wired, storages, served, uses, closePc,
                        managerClosing>>
<1> DEFINE x == [task[t] EXCEPT !.pc = "create", !.obj = storages[task[t].cam]]
<1>1. task[t].pc = "storage" /\ task' = [task EXCEPT ![t] = x]
  BY DEF LookupStorage, ManagerTypes, TaskRecord
<1>2. task[t].cam \in Cameras /\ task[t] \in TaskRecord(used)
  BY <1>1 DEF TasksApart, TaskApart, Making, ManagerTypes
<1>3. storages[task[t].cam] \in 0 .. used
  BY <1>2 DEF ManagerTypes
<1>4. /\ x \in TaskRecord(used) /\ x.pc = "create" /\ x.obj = storages[task[t].cam]
      /\ x.cam = task[t].cam /\ x.dev = task[t].dev
  BY <1>2, <1>3 DEF TaskRecord, Making
<1>5. UNCHANGED <<managerScene, assigned, deviceChanges, requests, startPc, startCams,
                  startDevs, used, devices, wired, storages, served, uses, closePc,
                  managerClosing>>
  BY DEF LookupStorage
<1>6. used \in Nat /\ used >= used
  BY DEF ManagerTypes
<1> HIDE DEF x
<1> QED
  BY <1>1, <1>2, <1>4, <1>5, <1>6, TaskEffect

\* An error of init leaves the goroutine without its device.
LEMMA InitFailsEffect ==
  ASSUME ManagerTypes, NEW t \in Tasks, InitFails(t)
  PROVE  /\ ManagerFails /\ startPc' \in {"create", "done", "failed"}
         /\ task' \in [Tasks -> TaskRecord(used)]
         /\ task'[t].dev = 0 /\ task'[t].pc = IF t \in Callers THEN "done" ELSE "idle"
         /\ \A u \in Tasks : u # t => task'[u] = task[u]
<1>1. used \in Nat /\ used >= used
  BY DEF ManagerTypes
<1>2. /\ task' = [task EXCEPT ![t] = Rest(t)] /\ ManagerFails
      /\ startPc' \in {"create", "done", "failed"}
  BY DEF InitFails, ManagerTypes
<1> QED
  BY <1>1, <1>2, RestFacts, TaskEffect

\* createCameraStorage puts a new storage into the map if there was none.
LEMMA CreateEffect ==
  ASSUME ManagerTypes, TasksApart, NEW t \in Tasks, CreateCameraStorage(t)
  PROVE  LET d == task[t].dev
             c == task[t].cam
             o == IF task[t].obj = 0 THEN d ELSE task[t].obj
         IN  /\ task[t].pc = "create" /\ c \in Cameras /\ d \in 1 .. used /\ o \in 1 .. used
             /\ task' \in [Tasks -> TaskRecord(used)]
             /\ storages' \in [Cameras -> 0 .. used]
             /\ storages'[c] = IF task[t].obj = 0 THEN d ELSE storages[c]
             /\ \A e \in Cameras : e # c => storages'[e] = storages[e]
             /\ \A u \in Tasks : u # t => task'[u] = task[u]
             /\ startPc' \in {"create", "done", "failed"}
             /\ \/ /\ task'[t].pc = "connect" /\ task'[t].cam = c /\ task'[t].dev = d
                   /\ served' = served \cup {o} /\ uses' = [uses EXCEPT ![d] = o]
                   /\ startPc' = startPc
                \/ /\ ManagerFails /\ task'[t].dev = 0
                   /\ task'[t].pc = IF t \in Callers THEN "done" ELSE "idle"
             /\ UNCHANGED <<managerScene, assigned, deviceChanges, requests, startCams, startDevs,
                            used, devices, wired, closePc, managerClosing>>
<1> DEFINE d == task[t].dev
           c == task[t].cam
           o == IF task[t].obj = 0 THEN d ELSE task[t].obj
<1>1. /\ task[t].pc = "create" /\ task[t] \in TaskRecord(used) /\ used \in Nat /\ used >= used
      /\ storages' = [storages EXCEPT ![c] = IF task[t].obj = 0 THEN d ELSE @]
  BY DEF CreateCameraStorage, ManagerTypes
<1>2. c \in Cameras /\ d \in 1 .. used /\ o \in 1 .. used
  BY <1>1 DEF TasksApart, TaskApart, TaskRecord, Making
<1>3. /\ storages' \in [Cameras -> 0 .. used]
      /\ storages'[c] = IF task[t].obj = 0 THEN d ELSE storages[c]
      /\ \A e \in Cameras : e # c => storages'[e] = storages[e]
  BY <1>1, <1>2 DEF ManagerTypes
<1>4. UNCHANGED <<managerScene, assigned, deviceChanges, requests, startCams, startDevs,
                  used, devices, wired, closePc, managerClosing>>
  BY DEF CreateCameraStorage
<1>5. CASE /\ task' = [task EXCEPT ![t].pc = "connect"] /\ startPc' = startPc
           /\ served' = served \cup {o} /\ uses' = [uses EXCEPT ![d] = o]
  <2> DEFINE x == [task[t] EXCEPT !.pc = "connect"]
  <2>1. task' = [task EXCEPT ![t] = x]
    BY <1>5
  <2>2. x \in TaskRecord(used) /\ x.pc = "connect" /\ x.cam = c /\ x.dev = d
    BY <1>1 DEF TaskRecord, Making
  <2>3. startPc' \in {"create", "done", "failed"}
    BY <1>5 DEF ManagerTypes
  <2> HIDE DEF x
  <2>4. /\ task' \in [Tasks -> TaskRecord(used)] /\ task'[t] = x
        /\ \A u \in Tasks : u # t => task'[u] = task[u]
    BY <1>1, <2>1, <2>2, TaskEffect
  <2> QED
    BY <1>1, <1>2, <1>3, <1>4, <1>5, <2>2, <2>3, <2>4
<1>6. CASE InitFails(t)
  BY <1>1, <1>2, <1>3, <1>4, <1>6, InitFailsEffect
<1> QED
  BY <1>5, <1>6 DEF CreateCameraStorage

\* The device is connected, or init fails.
LEMMA ConnectEffect ==
  ASSUME ManagerTypes, TasksApart, NEW t \in Tasks, ConnectDevice(t)
  PROVE  /\ task[t].pc = "connect" /\ task[t].dev \in 1 .. used /\ task[t].cam \in Cameras
         /\ task' \in [Tasks -> TaskRecord(used)]
         /\ \A u \in Tasks : u # t => task'[u] = task[u]
         /\ startPc' \in {"create", "done", "failed"}
         /\ \/ /\ task'[t].pc = "put" /\ task'[t].cam = task[t].cam
               /\ task'[t].dev = task[t].dev /\ wired' = wired \cup {task[t].dev}
               /\ startPc' = startPc
            \/ /\ ManagerFails /\ task'[t].dev = 0
               /\ task'[t].pc = IF t \in Callers THEN "done" ELSE "idle"
               /\ wired' \in {wired, wired \cup {task[t].dev}}
         /\ UNCHANGED <<managerScene, assigned, deviceChanges, requests, startCams, startDevs,
                        used, devices, storages, served, uses, closePc, managerClosing>>
<1>1. task[t].pc = "connect" /\ task[t] \in TaskRecord(used) /\ used \in Nat /\ used >= used
  BY DEF ConnectDevice, ManagerTypes
<1>2. task[t].cam \in Cameras /\ task[t].dev \in 1 .. used
  BY <1>1 DEF TasksApart, TaskApart, TaskRecord, Making
<1>3. UNCHANGED <<managerScene, assigned, deviceChanges, requests, startCams, startDevs,
                  used, devices, storages, served, uses, closePc, managerClosing>>
  BY DEF ConnectDevice
<1>4. CASE /\ task' = [task EXCEPT ![t].pc = "put"] /\ wired' = wired \cup {task[t].dev}
           /\ UNCHANGED startPc
  <2> DEFINE x == [task[t] EXCEPT !.pc = "put"]
  <2>1. task' = [task EXCEPT ![t] = x]
    BY <1>4
  <2>2. x \in TaskRecord(used) /\ x.pc = "put" /\ x.cam = task[t].cam /\ x.dev = task[t].dev
    BY <1>1 DEF TaskRecord, Making
  <2>3. startPc' \in {"create", "done", "failed"}
    BY <1>4 DEF ManagerTypes
  <2> HIDE DEF x
  <2>4. /\ task' \in [Tasks -> TaskRecord(used)] /\ task'[t] = x
        /\ \A u \in Tasks : u # t => task'[u] = task[u]
    BY <1>1, <2>1, <2>2, TaskEffect
  <2> QED
    BY <1>1, <1>2, <1>3, <1>4, <2>2, <2>3, <2>4
<1>5. CASE InitFails(t) /\ wired' \in {wired, wired \cup {task[t].dev}}
  BY <1>1, <1>2, <1>3, <1>5, InitFailsEffect
<1> QED
  BY <1>4, <1>5 DEF ConnectDevice

\* The device enters the map, or the devices of the start.
LEMMA PutEffect ==
  ASSUME ManagerTypes, TasksApart, NEW t \in Tasks, PutDevice(t)
  PROVE  LET d == task[t].dev
             c == task[t].cam
         IN  /\ task[t].pc = "put" /\ c \in Cameras /\ d \in 1 .. used
             /\ task' \in [Tasks -> TaskRecord(used)] /\ task'[t].dev = 0
             /\ task'[t].pc = IF t \in Callers THEN "done" ELSE "idle"
             /\ \A u \in Tasks : u # t => task'[u] = task[u]
             /\ t = "start" => startDevs' = startDevs \cup {[cam |-> c, dev |-> d]}
                                 /\ devices' = devices
             /\ t # "start" => startDevs' = startDevs /\ devices'[c] = d
                                 /\ \A e \in Cameras : e # c => devices'[e] = devices[e]
             /\ devices' \in [Cameras -> 0 .. used]
             /\ UNCHANGED <<managerScene, assigned, deviceChanges, requests, startPc, startCams,
                            used, wired, storages, served, uses, closePc, managerClosing>>
<1> DEFINE d == task[t].dev
           c == task[t].cam
<1>1. /\ task[t].pc = "put" /\ task[t] \in TaskRecord(used) /\ used \in Nat /\ used >= used
      /\ task' = [task EXCEPT ![t] = Rest(t)]
  BY DEF PutDevice, ManagerTypes
<1>2. c \in Cameras /\ d \in 1 .. used
  BY <1>1 DEF TasksApart, TaskApart, TaskRecord, Making
<1>3. /\ task' \in [Tasks -> TaskRecord(used)] /\ task'[t].dev = 0
      /\ task'[t].pc = IF t \in Callers THEN "done" ELSE "idle"
      /\ \A u \in Tasks : u # t => task'[u] = task[u]
  BY <1>1, RestFacts, TaskEffect
<1>4. CASE t = "start"
  BY <1>1, <1>2, <1>3, <1>4 DEF PutDevice, ManagerTypes
<1>5. CASE t # "start"
  BY <1>1, <1>2, <1>3, <1>5 DEF PutDevice, ManagerTypes
<1> QED
  BY <1>4, <1>5

\* The devices of the start enter the map.
LEMMA ConfigureEffect ==
  ASSUME ManagerTypes, ConfigureCameras
  PROVE  /\ \A c \in Cameras :
              \/ devices'[c] = devices[c] /\ \A r \in startDevs : r.cam # c
              \/ \E r \in startDevs : r.cam = c /\ devices'[c] = r.dev
         /\ devices' \in [Cameras -> 0 .. used]
         /\ startPc = "create" /\ startPc' = "done" /\ startDevs' = {} /\ ~Working("start")
         /\ UNCHANGED <<managerScene, assigned, deviceChanges, requests, startCams, task, used,
                        wired, storages, served, uses, closePc, managerClosing>>
<1>1. \A c \in Cameras :
        \/ devices'[c] = devices[c] /\ \A r \in startDevs : r.cam # c
        \/ \E r \in startDevs : r.cam = c /\ devices'[c] = r.dev
  BY DEF ConfigureCameras
<1>2. \A r \in startDevs : r.dev \in 0 .. used
  BY DEF ManagerTypes
<1>3. DOMAIN devices' = Cameras /\ devices' = [c \in Cameras |-> devices'[c]]
  BY DEF ConfigureCameras
<1>4. devices' \in [Cameras -> 0 .. used]
  BY <1>1, <1>2, <1>3 DEF ManagerTypes
<1> QED
  BY <1>1, <1>4 DEF ConfigureCameras

\* GetCamera finds a device or asks the host.
LEMMA GetCameraEffect ==
  ASSUME ManagerTypes, NEW t \in managerScene.callers, NEW c \in Cameras, GetCamera(t, c)
  PROVE  /\ t \in Callers /\ t \in Tasks /\ task[t].pc = "idle" /\ Allowed /\ closePc = "open"
         /\ task' \in [Tasks -> TaskRecord(used)]
         /\ task'[t].dev = 0
         /\ \/ task'[t].pc = "done"
            \/ task'[t].pc = "ask" /\ task'[t].cam = c /\ devices[c] = 0
         /\ \A u \in Tasks : u # t => task'[u] = task[u]
         /\ UNCHANGED <<managerScene, assigned, deviceChanges, requests, startPc, startCams,
                        startDevs, used, devices, wired, storages, served, uses, closePc,
                        managerClosing>>
<1> DEFINE ask == [Idle EXCEPT !.pc = "ask", !.cam = c]
           x == IF devices[c] # 0 THEN Done ELSE ask
<1>1. t \in Callers /\ t \in Tasks /\ used \in Nat /\ used >= used
  BY ManagerSceneFacts DEF Tasks, ManagerTypes
<1>2. task[t].pc = "idle" /\ Allowed /\ closePc = "open" /\ task' = [task EXCEPT ![t] = x]
  BY DEF GetCamera
<1>3. /\ x \in TaskRecord(used) /\ x.dev = 0
      /\ x.pc = "done" \/ (x.pc = "ask" /\ x.cam = c /\ devices[c] = 0)
  <2>1. \A y \in TaskRecord(used) :
          LET z == [y EXCEPT !.pc = "ask", !.cam = c]
          IN  z \in TaskRecord(used) /\ z.dev = y.dev /\ z.pc = "ask" /\ z.cam = c
    BY DEF TaskRecord
  <2>2. ask \in TaskRecord(used) /\ ask.dev = 0 /\ ask.pc = "ask" /\ ask.cam = c
    BY <1>1, <2>1, RestFacts
  <2> HIDE DEF ask
  <2> QED
    BY <1>1, <2>2, RestFacts
<1>4. UNCHANGED <<managerScene, assigned, deviceChanges, requests, startPc, startCams,
                  startDevs, used, devices, wired, storages, served, uses, closePc,
                  managerClosing>>
  BY DEF GetCamera
<1> HIDE DEF x
<1>5. /\ task' \in [Tasks -> TaskRecord(used)] /\ task'[t] = x
      /\ \A u \in Tasks : u # t => task'[u] = task[u]
  BY <1>1, <1>2, <1>3, TaskEffect
<1> QED
  BY <1>1, <1>2, <1>3, <1>4, <1>5

\* The host answers GetCamera.
LEMMA AnswerEffect ==
  ASSUME ManagerTypes, TasksApart, NEW t \in Callers, HostAnswersList(t)
  PROVE  /\ t \in Tasks /\ task[t].pc = "ask" /\ task[t].cam \in Cameras
         /\ used' \in Nat /\ task' \in [Tasks -> TaskRecord(used')]
         /\ \/ /\ used' = used + 1 /\ task'[t].pc = "storage" /\ task'[t].cam = task[t].cam
               /\ task'[t].dev = used' /\ task[t].cam \in assigned
            \/ used' = used /\ task'[t].pc = "done" /\ task'[t].dev = 0
         /\ \A u \in Tasks : u # t => task'[u] = task[u]
         /\ UNCHANGED <<managerScene, assigned, deviceChanges, requests, startPc, startCams,
                        startDevs, devices, wired, storages, served, uses, closePc,
                        managerClosing>>
<1>1. t \in Tasks /\ used \in Nat /\ used >= used /\ task[t].pc = "ask"
  BY DEF Tasks, ManagerTypes, HostAnswersList
<1>2. task[t].cam \in Cameras
  BY <1>1 DEF TasksApart, TaskApart
<1>3. UNCHANGED <<managerScene, assigned, deviceChanges, requests, startPc, startCams,
                  startDevs, devices, wired, storages, served, uses, closePc, managerClosing>>
  BY DEF HostAnswersList
<1>4. CASE task[t].cam \in assigned
  <2>1. NewDevice(t, task[t].cam)
    BY <1>4 DEF HostAnswersList
  <2> QED
    BY <1>1, <1>2, <1>3, <1>4, <2>1, NewDeviceEffect
<1>5. CASE task[t].cam \notin assigned
  <2>1. task' = [task EXCEPT ![t] = Done] /\ used' = used
    BY <1>5 DEF HostAnswersList
  <2>2. /\ task' \in [Tasks -> TaskRecord(used)] /\ task'[t] = Done
        /\ \A u \in Tasks : u # t => task'[u] = task[u]
    BY <1>1, <2>1, RestFacts, TaskEffect
  <2> QED
    BY <1>1, <1>2, <1>3, <2>1, <2>2, RestFacts
<1> QED
  BY <1>4, <1>5

\* cameraAdded makes a device, unless there is one.
LEMMA AddedEffect ==
  ASSUME ManagerTypes, HandleCameraAdded
  PROVE  /\ requests # <<>> /\ ~Working("handler") /\ closePc = "open"
         /\ Head(requests).cam \in Cameras /\ Head(requests).kind = "added"
         /\ requests' = Tail(requests)
         /\ requests' \in Seq([kind : {"added", "released"}, cam : Cameras])
         /\ used' \in Nat /\ task' \in [Tasks -> TaskRecord(used')]
         /\ \/ used' = used /\ task' = task
            \/ /\ used' = used + 1 /\ devices[Head(requests).cam] = 0
               /\ task'["handler"].pc = "storage" /\ task'["handler"].dev = used'
               /\ task'["handler"].cam = Head(requests).cam
         /\ \A u \in Tasks : u # "handler" => task'[u] = task[u]
         /\ UNCHANGED <<managerScene, assigned, deviceChanges, startPc, startCams, startDevs,
                        devices, wired, storages, served, uses, closePc, managerClosing>>
<1> DEFINE c == Head(requests).cam
<1>1. /\ requests # <<>> /\ ~Working("handler") /\ closePc = "open" /\ Head(requests).kind = "added"
      /\ requests' = Tail(requests)
      /\ UNCHANGED <<managerScene, assigned, deviceChanges, startPc, startCams, startDevs,
                     devices, wired, storages, served, uses, closePc, managerClosing>>
  BY DEF HandleCameraAdded
<1>2. c \in Cameras /\ requests' \in Seq([kind : {"added", "released"}, cam : Cameras])
  BY <1>1, RequestFacts
<1>3. "handler" \in Tasks /\ used \in Nat /\ task \in [Tasks -> TaskRecord(used)]
  BY DEF Tasks, ManagerTypes
<1>4. CASE devices[c] # 0
  BY <1>1, <1>2, <1>3, <1>4 DEF HandleCameraAdded
<1>5. CASE devices[c] = 0
  <2>1. NewDevice("handler", c)
    BY <1>5 DEF HandleCameraAdded
  <2> QED
    BY <1>1, <1>2, <1>3, <1>5, <2>1, NewDeviceEffect
<1> QED
  BY <1>4, <1>5

\* cameraReleased takes the device out of the map.
LEMMA ReleasedEffect ==
  ASSUME ManagerTypes, HandleCameraReleased
  PROVE  LET c == Head(requests).cam
         IN  /\ requests # <<>> /\ ~Working("handler") /\ closePc = "open"
             /\ c \in Cameras /\ Head(requests).kind = "released" /\ "handler" \in Tasks
             /\ requests' = Tail(requests)
             /\ requests' \in Seq([kind : {"added", "released"}, cam : Cameras])
             /\ task' \in [Tasks -> TaskRecord(used)]
             /\ task'["handler"].pc = "release" /\ task'["handler"].cam = c
             /\ task'["handler"].dev = devices[c]
             /\ \A u \in Tasks : u # "handler" => task'[u] = task[u]
             /\ devices' \in [Cameras -> 0 .. used] /\ devices'[c] = 0
             /\ \A e \in Cameras : e # c => devices'[e] = devices[e]
             /\ UNCHANGED <<managerScene, assigned, deviceChanges, startPc, startCams, startDevs,
                            used, wired, storages, served, uses, closePc, managerClosing>>
<1> DEFINE c == Head(requests).cam
           x == [pc |-> "release", cam |-> c, dev |-> devices[c], obj |-> 0]
<1>1. /\ requests # <<>> /\ ~Working("handler") /\ closePc = "open"
      /\ Head(requests).kind = "released" /\ requests' = Tail(requests)
      /\ task' = [task EXCEPT !["handler"] = x] /\ devices' = [devices EXCEPT ![c] = 0]
      /\ UNCHANGED <<managerScene, assigned, deviceChanges, startPc, startCams, startDevs,
                     used, wired, storages, served, uses, closePc, managerClosing>>
  BY DEF HandleCameraReleased
<1>2. c \in Cameras /\ requests' \in Seq([kind : {"added", "released"}, cam : Cameras])
  BY <1>1, RequestFacts
<1>3. "handler" \in Tasks /\ used \in Nat /\ used >= used /\ devices \in [Cameras -> 0 .. used]
  BY DEF Tasks, ManagerTypes
<1>4. x \in TaskRecord(used) /\ x.pc = "release" /\ x.cam = c /\ x.dev = devices[c]
  BY <1>2, <1>3 DEF TaskRecord
<1>5. /\ devices' \in [Cameras -> 0 .. used] /\ devices'[c] = 0
      /\ \A e \in Cameras : e # c => devices'[e] = devices[e]
  BY <1>1, <1>2, <1>3
<1> HIDE DEF x
<1>6. /\ task' \in [Tasks -> TaskRecord(used)] /\ task'["handler"] = x
      /\ \A u \in Tasks : u # "handler" => task'[u] = task[u]
  BY <1>1, <1>3, <1>4, TaskEffect
<1> QED
  BY <1>1, <1>2, <1>3, <1>4, <1>5, <1>6

\* The device is cleaned up and its storage no longer served.
LEMMA ReleaseEffect ==
  ASSUME ManagerTypes, ReleaseDevice
  PROVE  /\ "handler" \in Tasks \ Callers /\ task["handler"].pc = "release"
         /\ task' \in [Tasks -> TaskRecord(used)]
         /\ task'["handler"].pc = "idle" /\ task'["handler"].dev = 0
         /\ \A u \in Tasks : u # "handler" => task'[u] = task[u]
         /\ wired' = wired \ {task["handler"].dev}
         /\ served' = served \ {storages[task["handler"].cam]}
         /\ UNCHANGED <<managerScene, assigned, deviceChanges, requests, startPc, startCams,
                        startDevs, used, devices, storages, uses, closePc, managerClosing>>
<1>1. "handler" \in Tasks \ Callers /\ used \in Nat /\ used >= used
  BY FiniteAssumption DEF Tasks, ManagerTypes
<1>2. task' = [task EXCEPT !["handler"] = Idle]
  BY DEF ReleaseDevice
<1>3. /\ task' \in [Tasks -> TaskRecord(used)] /\ task'["handler"] = Idle
      /\ \A u \in Tasks : u # "handler" => task'[u] = task[u]
  BY <1>1, <1>2, RestFacts, TaskEffect
<1> QED
  BY <1>1, <1>3, RestFacts DEF ReleaseDevice

\* The types when devices were made.
LEMMA Grown ==
  ASSUME ManagerTypes, used' \in Nat, used' >= used,
         UNCHANGED <<startDevs, devices, storages, wired, managerClosing>>
  PROVE  /\ startDevs' \subseteq [cam : Cameras, dev : 1 .. used']
         /\ devices' \in [Cameras -> 0 .. used'] /\ storages' \in [Cameras -> 0 .. used']
         /\ wired' \subseteq 1 .. used' /\ managerClosing' \subseteq 1 .. used'
<1>1. used \in Nat /\ 0 .. used \subseteq 0 .. used' /\ 1 .. used \subseteq 1 .. used'
  BY DEF ManagerTypes
<1>2. startDevs' \subseteq [cam : Cameras, dev : 1 .. used']
  BY <1>1 DEF ManagerTypes
<1>3. devices' \in [Cameras -> 0 .. used'] /\ storages' \in [Cameras -> 0 .. used']
  BY <1>1 DEF ManagerTypes
<1>4. wired' \subseteq 1 .. used' /\ managerClosing' \subseteq 1 .. used'
  BY <1>1 DEF ManagerTypes
<1> QED
  BY <1>2, <1>3, <1>4

\* Every step keeps the types; the number of devices only grows.
LEMMA ManagerTypesStep ==
  ManagerTypes /\ TasksApart /\ [ManagerNext]_managerVars => ManagerTypes'
<1> SUFFICES ASSUME ManagerTypes, TasksApart, [ManagerNext]_managerVars PROVE ManagerTypes'
  OBVIOUS
<1>a. managerScene.cameras \subseteq Cameras /\ managerScene.callers \subseteq Callers
  BY ManagerSceneFacts
<1>1. ASSUME NEW c \in managerScene.cameras, Assign(c) PROVE ManagerTypes'
  <2>1. c \in Cameras /\ HostChange("added", c)
    BY <1>1, <1>a DEF Assign
  <2>2. deviceChanges' \in Nat
    BY <2>1, HostChangeEffect DEF ManagerTypes
  <2>3. assigned' \subseteq managerScene.cameras
    BY <1>1 DEF Assign, ManagerTypes
  <2>4. /\ requests' \in Seq([kind : {"added", "released"}, cam : Cameras])
        /\ deviceChanges' <= MaxDeviceChanges
        /\ UNCHANGED <<managerScene, startPc, startCams, startDevs, task, used, devices, wired,
                       storages, closePc, managerClosing>>
    BY <2>1, HostChangeEffect
  <2> QED
    BY <2>2, <2>3, <2>4 DEF ManagerTypes, MaxDeviceChanges
<1>2. ASSUME NEW c \in managerScene.cameras, ReleaseCamera(c) PROVE ManagerTypes'
  <2>1. c \in Cameras /\ HostChange("released", c)
    BY <1>2, <1>a DEF ReleaseCamera
  <2>2. deviceChanges' \in Nat
    BY <2>1, HostChangeEffect DEF ManagerTypes
  <2>3. assigned' \subseteq managerScene.cameras
    BY <1>2 DEF ReleaseCamera, ManagerTypes
  <2>4. /\ requests' \in Seq([kind : {"added", "released"}, cam : Cameras])
        /\ deviceChanges' <= MaxDeviceChanges
        /\ UNCHANGED <<managerScene, startPc, startCams, startDevs, task, used, devices, wired,
                       storages, closePc, managerClosing>>
    BY <2>1, HostChangeEffect
  <2> QED
    BY <2>2, <2>3, <2>4 DEF ManagerTypes, MaxDeviceChanges
<1>3. ASSUME NEW c \in managerScene.cameras, StartCamera(c) PROVE ManagerTypes'
  <2>1. NewDevice("start", c) /\ c \in Cameras /\ "start" \in Tasks
    BY <1>3, <1>a DEF StartCamera, Tasks
  <2>2. used' \in Nat /\ used' >= used /\ task' \in [Tasks -> TaskRecord(used')]
    BY <2>1, NewDeviceEffect DEF ManagerTypes
  <2> QED
    BY <1>3, <2>2, Grown DEF StartCamera, ManagerTypes, MaxDeviceChanges
<1>4. ASSUME NEW c \in managerScene.cameras, NEW t \in managerScene.callers, GetCamera(t, c)
      PROVE  ManagerTypes'
  BY <1>4, GetCameraEffect, <1>a DEF ManagerTypes, MaxDeviceChanges
<1>5. ASSUME NEW t \in Callers, HostAnswersList(t) PROVE ManagerTypes'
  <2>0. used \in Nat /\ used' \in {used, used + 1}
    BY <1>5, AnswerEffect DEF ManagerTypes
  <2>1. used' \in Nat /\ used' >= used /\ task' \in [Tasks -> TaskRecord(used')]
    BY <1>5, <2>0, AnswerEffect
  <2>2. UNCHANGED <<managerScene, assigned, deviceChanges, requests, startPc, startCams, startDevs,
                    devices, wired, storages, closePc, managerClosing>>
    BY <1>5, AnswerEffect
  <2> QED
    BY <2>1, <2>2, Grown DEF ManagerTypes, MaxDeviceChanges
<1>6. ASSUME NEW t \in Tasks, LookupStorage(t) PROVE ManagerTypes'
  BY <1>6, LookupEffect DEF ManagerTypes, MaxDeviceChanges
<1>7. ASSUME NEW t \in Tasks, CreateCameraStorage(t) PROVE ManagerTypes'
  BY <1>7, CreateEffect DEF ManagerTypes, MaxDeviceChanges
<1>8. ASSUME NEW t \in Tasks, ConnectDevice(t) PROVE ManagerTypes'
  BY <1>8, ConnectEffect DEF ManagerTypes, MaxDeviceChanges
<1>9. ASSUME NEW t \in Tasks, PutDevice(t) PROVE ManagerTypes'
  <2>a. task[t].cam \in Cameras /\ task[t].dev \in 1 .. used
    BY <1>9, PutEffect
  <2>b. startDevs' \in {startDevs, startDevs \cup {[cam |-> task[t].cam, dev |-> task[t].dev]}}
    BY <1>9, PutEffect
  <2>1. startDevs' \subseteq [cam : Cameras, dev : 1 .. used]
    BY <2>a, <2>b DEF ManagerTypes
  <2> QED
    BY <1>9, <2>1, PutEffect DEF ManagerTypes, MaxDeviceChanges
<1>10. CASE ConfigureCameras
  BY <1>10, ConfigureEffect DEF ManagerTypes, MaxDeviceChanges
<1>11. CASE HandleCameraAdded
  <2>1. used' \in Nat /\ used' >= used /\ task' \in [Tasks -> TaskRecord(used')]
    BY <1>11, AddedEffect DEF ManagerTypes
  <2>2. UNCHANGED <<managerScene, assigned, deviceChanges, startPc, startCams, startDevs,
                    devices, wired, storages, closePc, managerClosing>>
    BY <1>11, AddedEffect
  <2>3. requests' \in Seq([kind : {"added", "released"}, cam : Cameras])
    BY <1>11, AddedEffect
  <2> QED
    BY <2>1, <2>2, <2>3, Grown DEF ManagerTypes, MaxDeviceChanges
<1>12. CASE HandleCameraReleased
  BY <1>12, ReleasedEffect DEF ManagerTypes, MaxDeviceChanges
<1>13. CASE ReleaseDevice
  BY <1>13, ReleaseEffect DEF ManagerTypes, MaxDeviceChanges
<1>14. CASE Close
  BY <1>14 DEF Close, ManagerTypes, MaxDeviceChanges
<1>15. CASE CloseDevices
  BY <1>15 DEF CloseDevices, ManagerTypes, MaxDeviceChanges
<1>16. CASE UNCHANGED managerVars
  BY <1>16 DEF managerVars, ManagerTypes, MaxDeviceChanges
<1> QED
  BY <1>1, <1>2, <1>3, <1>4, <1>5, <1>6, <1>7, <1>8, <1>9, <1>10, <1>11, <1>12, <1>13,
     <1>14, <1>15, <1>16 DEF ManagerNext

\* A goroutine that a step leaves alone, and one whose work is over.
LEMMA TaskKept ==
  ASSUME NEW t \in Tasks, TaskApart(t), managerScene' = managerScene, task'[t] = task[t]
  PROVE  TaskApart(t)'
BY DEF TaskApart

LEMMA TaskOver ==
  ASSUME NEW t \in Tasks, t \in Callers => t \in managerScene.callers,
         managerScene' = managerScene, task'[t].dev = 0,
         task'[t].pc = IF t \in Callers THEN "done" ELSE "idle"
  PROVE  TaskApart(t)'
BY DEF TaskApart, Making

\* What a goroutine has in its hands follows from where it is.
LEMMA TasksApartStep ==
  ManagerTypes /\ TasksApart /\ [ManagerNext]_managerVars => TasksApart'
<1> SUFFICES ASSUME ManagerTypes, TasksApart, [ManagerNext]_managerVars PROVE TasksApart'
  OBVIOUS
<1>a. managerScene.cameras \subseteq Cameras /\ managerScene.callers \subseteq Callers
  BY ManagerSceneFacts
<1>1. ASSUME NEW c \in managerScene.cameras, Assign(c) PROVE TasksApart'
  <2>1. managerScene' = managerScene /\ \A u \in Tasks : task'[u] = task[u]
    BY <1>1 DEF Assign, HostChange
  <2> QED
    BY <2>1, TaskKept DEF TasksApart
<1>2. ASSUME NEW c \in managerScene.cameras, ReleaseCamera(c) PROVE TasksApart'
  <2>1. managerScene' = managerScene /\ \A u \in Tasks : task'[u] = task[u]
    BY <1>2 DEF ReleaseCamera, HostChange
  <2> QED
    BY <2>1, TaskKept DEF TasksApart
<1>3. ASSUME NEW c \in managerScene.cameras, StartCamera(c) PROVE TasksApart'
  <2>0. "start" \in Tasks \ Callers /\ c \in Cameras /\ NewDevice("start", c)
    BY <1>3, <1>a, NamedTasks DEF StartCamera
  <2>1. managerScene' = managerScene /\ \A u \in Tasks : u # "start" => task'[u] = task[u]
    BY <1>3, <2>0, NewDeviceEffect DEF StartCamera
  <2>2. task'["start"].pc = "storage" /\ task'["start"].cam = c /\ task'["start"].dev # 0
    BY <2>0, NewDeviceEffect DEF ManagerTypes
  <2>3. TaskApart("start")'
    BY <2>0, <2>2 DEF TaskApart, Making
  <2> QED
    BY <2>1, <2>3, TaskKept DEF TasksApart
<1>4. ASSUME NEW c \in managerScene.cameras, NEW t \in managerScene.callers, GetCamera(t, c)
      PROVE  TasksApart'
  <2>1. managerScene' = managerScene /\ \A u \in Tasks : u # t => task'[u] = task[u]
    BY <1>4, <1>a, GetCameraEffect
  <2>2. TaskApart(t)'
    BY <1>4, <1>a, GetCameraEffect DEF TaskApart, Making
  <2> QED
    BY <2>1, <2>2, TaskKept DEF TasksApart
<1>5. ASSUME NEW t \in Callers, HostAnswersList(t) PROVE TasksApart'
  <2>1. managerScene' = managerScene /\ \A u \in Tasks : u # t => task'[u] = task[u]
    BY <1>5, AnswerEffect
  <2>2. t \in Tasks /\ t \in managerScene.callers /\ task[t].cam \in Cameras
    BY <1>5, AnswerEffect DEF TasksApart, TaskApart
  <2>3. CASE /\ used' = used + 1 /\ task'[t].pc = "storage" /\ task'[t].cam = task[t].cam
             /\ task'[t].dev = used'
    <3>1. task'[t].dev # 0
      BY <2>3 DEF ManagerTypes
    <3>2. TaskApart(t)'
      BY <2>1, <2>2, <2>3, <3>1 DEF TaskApart, Making
    <3> QED
      BY <2>1, <3>2, TaskKept DEF TasksApart
  <2>4. CASE task'[t].pc = "done" /\ task'[t].dev = 0
    <3>1. TaskApart(t)'
      BY <2>1, <2>2, <2>4 DEF TaskApart, Making
    <3> QED
      BY <2>1, <3>1, TaskKept DEF TasksApart
  <2> QED
    BY <1>5, <2>3, <2>4, AnswerEffect
<1>6. ASSUME NEW t \in Tasks, LookupStorage(t) PROVE TasksApart'
  <2>1. managerScene' = managerScene /\ \A u \in Tasks : u # t => task'[u] = task[u]
    BY <1>6, LookupEffect
  <2>2. TaskApart(t)'
    BY <1>6, LookupEffect DEF TasksApart, TaskApart, Making
  <2> QED
    BY <2>1, <2>2, TaskKept DEF TasksApart
<1>7. ASSUME NEW t \in Tasks, CreateCameraStorage(t) PROVE TasksApart'
  <2>1. managerScene' = managerScene /\ \A u \in Tasks : u # t => task'[u] = task[u]
    BY <1>7, CreateEffect
  <2>2. task[t].pc \in Making /\ TaskApart(t)
    BY <1>7, CreateEffect DEF TasksApart, Making
  <2>3. CASE task'[t].pc = "connect" /\ task'[t].cam = task[t].cam /\ task'[t].dev = task[t].dev
    <3>1. TaskApart(t)'
      BY <2>1, <2>2, <2>3 DEF TaskApart, Making
    <3> QED
      BY <2>1, <3>1, TaskKept DEF TasksApart
  <2>4. CASE task'[t].dev = 0 /\ task'[t].pc = IF t \in Callers THEN "done" ELSE "idle"
    <3>1. t \in Callers => t \in managerScene.callers
      BY <2>2 DEF TaskApart, Making
    <3> QED
      BY <2>1, <2>4, <3>1, TaskKept, TaskOver DEF TasksApart
  <2> QED
    BY <1>7, <2>3, <2>4, CreateEffect
<1>8. ASSUME NEW t \in Tasks, ConnectDevice(t) PROVE TasksApart'
  <2>1. managerScene' = managerScene /\ \A u \in Tasks : u # t => task'[u] = task[u]
    BY <1>8, ConnectEffect
  <2>2. task[t].pc \in Making /\ TaskApart(t)
    BY <1>8, ConnectEffect DEF TasksApart, Making
  <2>3. CASE task'[t].pc = "put" /\ task'[t].cam = task[t].cam /\ task'[t].dev = task[t].dev
    <3>1. TaskApart(t)'
      BY <2>1, <2>2, <2>3 DEF TaskApart, Making
    <3> QED
      BY <2>1, <3>1, TaskKept DEF TasksApart
  <2>4. CASE task'[t].dev = 0 /\ task'[t].pc = IF t \in Callers THEN "done" ELSE "idle"
    <3>1. t \in Callers => t \in managerScene.callers
      BY <2>2 DEF TaskApart, Making
    <3> QED
      BY <2>1, <2>4, <3>1, TaskKept, TaskOver DEF TasksApart
  <2> QED
    BY <1>8, <2>3, <2>4, ConnectEffect
<1>9. ASSUME NEW t \in Tasks, PutDevice(t) PROVE TasksApart'
  <2>1. managerScene' = managerScene /\ \A u \in Tasks : u # t => task'[u] = task[u]
    BY <1>9, PutEffect
  <2>2. task[t].pc = "put" /\ TaskApart(t)
    BY <1>9, PutEffect DEF TasksApart
  <2>3. t \in Callers => t \in managerScene.callers
    BY <2>2 DEF TaskApart, Making
  <2>4. TaskApart(t)'
    BY <1>9, <2>1, <2>3, PutEffect, TaskOver
  <2> QED
    BY <2>1, <2>4, TaskKept DEF TasksApart
<1>10. CASE ConfigureCameras
  <2>1. managerScene' = managerScene /\ \A u \in Tasks : task'[u] = task[u]
    BY <1>10 DEF ConfigureCameras
  <2> QED
    BY <2>1, TaskKept DEF TasksApart
<1>11. CASE HandleCameraAdded
  <2>1. managerScene' = managerScene /\ \A u \in Tasks : u # "handler" => task'[u] = task[u]
    BY <1>11, AddedEffect
  <2>2. "handler" \in Tasks \ Callers /\ Head(requests).cam \in Cameras /\ used \in Nat
    BY <1>11, AddedEffect, NamedTasks DEF ManagerTypes
  <2>3. CASE task' = task
    BY <2>1, <2>3, TaskKept DEF TasksApart
  <2>4. CASE /\ used' = used + 1 /\ task'["handler"].pc = "storage"
             /\ task'["handler"].dev = used' /\ task'["handler"].cam = Head(requests).cam
    <3>1. task'["handler"].dev # 0
      BY <2>2, <2>4
    <3>2. TaskApart("handler")'
      BY <2>2, <2>4, <3>1 DEF TaskApart, Making
    <3> QED
      BY <2>1, <3>2, TaskKept DEF TasksApart
  <2> QED
    BY <1>11, <2>3, <2>4, AddedEffect
<1>12. CASE HandleCameraReleased
  <2>1. managerScene' = managerScene /\ \A u \in Tasks : u # "handler" => task'[u] = task[u]
    BY <1>12, ReleasedEffect
  <2>2. TaskApart("handler")'
    BY <1>12, NamedTasks, ReleasedEffect DEF TaskApart, Making
  <2> QED
    BY <2>1, <2>2, TaskKept DEF TasksApart
<1>13. CASE ReleaseDevice
  <2>1. managerScene' = managerScene /\ \A u \in Tasks : u # "handler" => task'[u] = task[u]
    BY <1>13, ReleaseEffect
  <2>2. TaskApart("handler")'
    BY <1>13, ReleaseEffect, <2>1, TaskOver
  <2> QED
    BY <2>1, <2>2, TaskKept DEF TasksApart
<1>14. CASE Close
  <2>1. managerScene' = managerScene /\ \A u \in Tasks : task'[u] = task[u]
    BY <1>14 DEF Close
  <2> QED
    BY <2>1, TaskKept DEF TasksApart
<1>15. CASE CloseDevices
  <2>1. managerScene' = managerScene /\ \A u \in Tasks : task'[u] = task[u]
    BY <1>15 DEF CloseDevices
  <2> QED
    BY <2>1, TaskKept DEF TasksApart
<1>16. CASE UNCHANGED managerVars
  <2>1. managerScene' = managerScene /\ \A u \in Tasks : task'[u] = task[u]
    BY <1>16 DEF managerVars
  <2> QED
    BY <2>1, TaskKept DEF TasksApart
<1> QED
  BY <1>1, <1>2, <1>3, <1>4, <1>5, <1>6, <1>7, <1>8, <1>9, <1>10, <1>11, <1>12, <1>13,
     <1>14, <1>15, <1>16 DEF ManagerNext

\* Devices only leave their places.
LEMMA DevicesLeave ==
  ASSUME OnePlace, devices' = devices, startDevs' = startDevs,
         \A u \in Tasks : task'[u].dev \in {0, task[u].dev},
         managerClosing' \subseteq managerClosing
  PROVE  OnePlace'
<1>1. HandsApart'
  BY DEF OnePlace, HandsApart
<1>2. HandsOnly'
  BY DEF OnePlace, HandsOnly
<1>3. MapApart'
  BY DEF OnePlace, MapApart
<1>4. StartApart'
  BY DEF OnePlace, StartApart
<1> QED
  BY <1>1, <1>2, <1>3, <1>4 DEF OnePlace

\* A device that was just made is nowhere else.
LEMMA DeviceArrives ==
  ASSUME ManagerTypes, OnePlace, NEW t \in Tasks,
         UNCHANGED <<devices, startDevs, managerClosing>>,
         task'[t].dev = used + 1, \A u \in Tasks : u # t => task'[u] = task[u]
  PROVE  OnePlace'
<1>1. /\ \A u \in Tasks : task[u].dev \in 0 .. used
      /\ \A c \in Cameras : devices[c] \in 0 .. used
      /\ \A r \in startDevs : r.dev \in 0 .. used
      /\ managerClosing \subseteq 0 .. used /\ used \in Nat
  BY DEF ManagerTypes, TaskRecord
<1>2. used + 1 \notin 0 .. used
  BY <1>1
<1>3. HandsApart'
  BY <1>1, <1>2 DEF OnePlace, HandsApart
<1>4. HandsOnly'
  BY <1>1, <1>2 DEF OnePlace, HandsOnly
<1>5. MapApart' /\ StartApart'
  BY DEF OnePlace, MapApart, StartApart
<1> QED
  BY <1>3, <1>4, <1>5 DEF OnePlace

\* A device moves from place to place, and a new one has a new number.
LEMMA OnePlaceStep ==
  ManagerTypes /\ TasksApart /\ OnePlace /\ [ManagerNext]_managerVars => OnePlace'
<1> SUFFICES ASSUME ManagerTypes, TasksApart, OnePlace, [ManagerNext]_managerVars PROVE
      OnePlace'
  OBVIOUS
<1>a. managerScene.cameras \subseteq Cameras /\ managerScene.callers \subseteq Callers
  BY ManagerSceneFacts
<1>1. ASSUME NEW c \in managerScene.cameras, Assign(c) PROVE OnePlace'
  <2>1. devices' = devices /\ startDevs' = startDevs /\ managerClosing' \subseteq managerClosing
    BY <1>1 DEF Assign, HostChange
  <2>2. \A u \in Tasks : task'[u].dev \in {0, task[u].dev}
    BY <1>1 DEF Assign, HostChange
  <2> QED
    BY <2>1, <2>2, DevicesLeave
<1>2. ASSUME NEW c \in managerScene.cameras, ReleaseCamera(c) PROVE OnePlace'
  <2>1. devices' = devices /\ startDevs' = startDevs /\ managerClosing' \subseteq managerClosing
    BY <1>2 DEF ReleaseCamera, HostChange
  <2>2. \A u \in Tasks : task'[u].dev \in {0, task[u].dev}
    BY <1>2 DEF ReleaseCamera, HostChange
  <2> QED
    BY <2>1, <2>2, DevicesLeave
<1>3. ASSUME NEW c \in managerScene.cameras, StartCamera(c) PROVE OnePlace'
  <2>1. "start" \in Tasks /\ c \in Cameras /\ NewDevice("start", c)
    BY <1>3, <1>a, NamedTasks DEF StartCamera
  <2>2. UNCHANGED <<devices, startDevs, managerClosing>>
    BY <1>3 DEF StartCamera
  <2> QED
    BY <2>1, <2>2, NewDeviceEffect, DeviceArrives
<1>4. ASSUME NEW c \in managerScene.cameras, NEW t \in managerScene.callers, GetCamera(t, c)
      PROVE  OnePlace'
  <2>1. devices' = devices /\ startDevs' = startDevs /\ managerClosing' \subseteq managerClosing
    BY <1>4, <1>a, GetCameraEffect
  <2>2. \A u \in Tasks : task'[u].dev \in {0, task[u].dev}
    BY <1>4, <1>a, GetCameraEffect
  <2> QED
    BY <2>1, <2>2, DevicesLeave
<1>5. ASSUME NEW t \in Callers, HostAnswersList(t) PROVE OnePlace'
  <2>1. CASE task'[t].dev = used + 1
    BY <1>5, <2>1, AnswerEffect, DeviceArrives
  <2>2. CASE task'[t].dev = 0
    <3>1. \A u \in Tasks : task'[u].dev \in {0, task[u].dev}
      BY <1>5, <2>2, AnswerEffect
    <3> QED
      BY <1>5, <3>1, AnswerEffect, DevicesLeave
  <2> QED
    BY <1>5, <2>1, <2>2, AnswerEffect
<1>6. ASSUME NEW t \in Tasks, LookupStorage(t) PROVE OnePlace'
  <2>1. devices' = devices /\ startDevs' = startDevs /\ managerClosing' \subseteq managerClosing
    BY <1>6, LookupEffect
  <2>2. \A u \in Tasks : task'[u].dev \in {0, task[u].dev}
    BY <1>6, LookupEffect
  <2> QED
    BY <2>1, <2>2, DevicesLeave
<1>7. ASSUME NEW t \in Tasks, CreateCameraStorage(t) PROVE OnePlace'
  <2>1. devices' = devices /\ startDevs' = startDevs /\ managerClosing' \subseteq managerClosing
    BY <1>7, CreateEffect
  <2>2. \A u \in Tasks : task'[u].dev \in {0, task[u].dev}
    BY <1>7, CreateEffect
  <2> QED
    BY <2>1, <2>2, DevicesLeave
<1>8. ASSUME NEW t \in Tasks, ConnectDevice(t) PROVE OnePlace'
  <2>1. devices' = devices /\ startDevs' = startDevs /\ managerClosing' \subseteq managerClosing
    BY <1>8, ConnectEffect
  <2>2. \A u \in Tasks : task'[u].dev \in {0, task[u].dev}
    BY <1>8, ConnectEffect
  <2> QED
    BY <2>1, <2>2, DevicesLeave
<1>9. ASSUME NEW t \in Tasks, PutDevice(t) PROVE OnePlace'
  <2> DEFINE d == task[t].dev
             c == task[t].cam
  <2>1. /\ d \in 1 .. used /\ c \in Cameras /\ task'[t].dev = 0 /\ d # 0
        /\ \A u \in Tasks : u # t => task'[u] = task[u] /\ task[u].dev # d
        /\ managerClosing' = managerClosing
    BY <1>9, PutEffect DEF OnePlace, HandsApart
  <2>2. /\ \A e \in Cameras : devices[e] # d
        /\ \A r \in startDevs : r.dev # d
        /\ d \notin managerClosing
    BY <2>1 DEF OnePlace, HandsOnly
  <2>3. HandsApart'
    BY <2>1 DEF OnePlace, HandsApart
  <2>4. CASE t = "start"
    <3>1. devices' = devices /\ startDevs' = startDevs \cup {[cam |-> c, dev |-> d]}
      BY <1>9, <2>4, PutEffect
    <3>2. HandsOnly'
      BY <2>1, <3>1 DEF OnePlace, HandsOnly
    <3>3. MapApart'
      BY <2>1, <3>1 DEF OnePlace, MapApart
    <3>4. StartApart'
      BY <2>1, <2>2, <3>1 DEF OnePlace, StartApart
    <3> QED
      BY <2>3, <3>2, <3>3, <3>4 DEF OnePlace
  <2>5. CASE t # "start"
    <3>1. /\ startDevs' = startDevs /\ devices'[c] = d
          /\ \A e \in Cameras : e # c => devices'[e] = devices[e]
      BY <1>9, <2>5, PutEffect
    <3>2. HandsOnly'
      BY <2>1, <3>1 DEF OnePlace, HandsOnly
    <3>3. MapApart'
      BY <2>1, <2>2, <3>1 DEF OnePlace, MapApart
    <3>4. StartApart'
      BY <2>1, <2>2, <3>1 DEF OnePlace, StartApart
    <3> QED
      BY <2>3, <3>2, <3>3, <3>4 DEF OnePlace
  <2> QED
    BY <2>4, <2>5
<1>10. CASE ConfigureCameras
  <2>1. /\ \A c \in Cameras :
             devices'[c] = devices[c] \/ \E r \in startDevs : r.cam = c /\ devices'[c] = r.dev
        /\ startDevs' = {} /\ task' = task /\ managerClosing' = managerClosing
    BY <1>10, ConfigureEffect
  <2>2. HandsApart'
    BY <2>1 DEF OnePlace, HandsApart
  <2>3. HandsOnly'
    BY <2>1 DEF OnePlace, HandsOnly
  <2>4. MapApart'
    BY <2>1 DEF OnePlace, MapApart, StartApart
  <2>5. StartApart'
    BY <2>1 DEF StartApart
  <2> QED
    BY <2>2, <2>3, <2>4, <2>5 DEF OnePlace
<1>11. CASE HandleCameraAdded
  <2>1. CASE used' = used + 1 /\ task'["handler"].dev = used'
    BY <1>11, <2>1, NamedTasks, AddedEffect, DeviceArrives
  <2>2. CASE task' = task
    BY <1>11, <2>2, AddedEffect, DevicesLeave
  <2> QED
    BY <1>11, <2>1, <2>2, AddedEffect
<1>12. CASE HandleCameraReleased
  <2> DEFINE c == Head(requests).cam
  <2>1. /\ c \in Cameras /\ "handler" \in Tasks /\ task'["handler"].dev = devices[c]
        /\ \A u \in Tasks : u # "handler" => task'[u] = task[u]
        /\ devices'[c] = 0 /\ \A e \in Cameras : e # c => devices'[e] = devices[e]
        /\ startDevs' = startDevs /\ managerClosing' = managerClosing
    BY <1>12, ReleasedEffect
  <2>2. managerClosing \subseteq 1 .. used /\ used \in Nat /\ \A r \in startDevs : r.dev # 0
    BY DEF ManagerTypes
  <2>3. 0 \notin managerClosing
    BY <2>2
  <2> HIDE DEF c
  <2>4. HandsApart'
    BY <2>1 DEF OnePlace, HandsApart, HandsOnly
  <2>5. HandsOnly'
    BY <2>1 DEF OnePlace, HandsOnly, MapApart, StartApart
  <2>6. MapApart'
    BY <2>1, <2>3 DEF OnePlace, MapApart
  <2>7. StartApart'
    BY <2>1, <2>2 DEF OnePlace, StartApart
  <2> QED
    BY <2>4, <2>5, <2>6, <2>7 DEF OnePlace
<1>13. CASE ReleaseDevice
  <2>1. devices' = devices /\ startDevs' = startDevs /\ managerClosing' \subseteq managerClosing
    BY <1>13, ReleaseEffect
  <2>2. \A u \in Tasks : task'[u].dev \in {0, task[u].dev}
    BY <1>13, ReleaseEffect
  <2> QED
    BY <2>1, <2>2, DevicesLeave
<1>14. CASE Close
  <2>1. /\ closePc = "open" /\ task' = task /\ startDevs' = startDevs
        /\ managerClosing' = {devices[c] : c \in Cameras} \ {0}
        /\ \A c \in Cameras : devices'[c] = 0
    BY <1>14 DEF Close
  <2>2. \A r \in startDevs : r.dev # 0
    BY DEF ManagerTypes
  <2>3. HandsApart'
    BY <2>1 DEF OnePlace, HandsApart
  <2>4. HandsOnly'
    BY <2>1 DEF OnePlace, HandsOnly
  <2>5. MapApart'
    BY <2>1 DEF MapApart
  <2>6. StartApart'
    BY <2>1, <2>2 DEF OnePlace, StartApart
  <2> QED
    BY <2>3, <2>4, <2>5, <2>6 DEF OnePlace
<1>15. CASE CloseDevices
  <2>1. devices' = devices /\ startDevs' = startDevs /\ managerClosing' \subseteq managerClosing
    BY <1>15 DEF CloseDevices
  <2>2. \A u \in Tasks : task'[u].dev \in {0, task[u].dev}
    BY <1>15 DEF CloseDevices
  <2> QED
    BY <2>1, <2>2, DevicesLeave
<1>16. CASE UNCHANGED managerVars
  <2>1. devices' = devices /\ startDevs' = startDevs /\ managerClosing' \subseteq managerClosing
    BY <1>16 DEF managerVars
  <2>2. \A u \in Tasks : task'[u].dev \in {0, task[u].dev}
    BY <1>16 DEF managerVars
  <2> QED
    BY <2>1, <2>2, DevicesLeave
<1> QED
  BY <1>1, <1>2, <1>3, <1>4, <1>5, <1>6, <1>7, <1>8, <1>9, <1>10, <1>11, <1>12, <1>13,
     <1>14, <1>15, <1>16 DEF ManagerNext

\* Only a device that was taken is disconnected.
LEMMA ReadyIsWiredStep ==
  ManagerTypes /\ TasksApart /\ OnePlace /\ ReadyIsWired /\ [ManagerNext]_managerVars
    => ReadyIsWired'
<1> SUFFICES ASSUME ManagerTypes, TasksApart, OnePlace, ReadyIsWired, [ManagerNext]_managerVars
      PROVE ReadyIsWired'
  OBVIOUS
<1>a. managerScene.cameras \subseteq Cameras /\ managerScene.callers \subseteq Callers
  BY ManagerSceneFacts
<1>1. ASSUME NEW c \in managerScene.cameras, Assign(c) PROVE ReadyIsWired'
  <2>1. UNCHANGED <<task, startDevs, devices, wired>>
    BY <1>1 DEF Assign, HostChange
  <2> QED
    BY <2>1 DEF ReadyIsWired
<1>2. ASSUME NEW c \in managerScene.cameras, ReleaseCamera(c) PROVE ReadyIsWired'
  <2>1. UNCHANGED <<task, startDevs, devices, wired>>
    BY <1>2 DEF ReleaseCamera, HostChange
  <2> QED
    BY <2>1 DEF ReadyIsWired
<1>3. ASSUME NEW c \in managerScene.cameras, StartCamera(c) PROVE ReadyIsWired'
  <2>1. "start" \in Tasks /\ c \in Cameras /\ NewDevice("start", c)
    BY <1>3, <1>a, NamedTasks DEF StartCamera
  <2>2. task'["start"].pc # "put" /\ \A u \in Tasks : u # "start" => task'[u] = task[u]
    BY <2>1, NewDeviceEffect
  <2>3. UNCHANGED <<devices, startDevs, wired>>
    BY <1>3 DEF StartCamera
  <2> QED
    BY <2>2, <2>3 DEF ReadyIsWired
<1>4. ASSUME NEW c \in managerScene.cameras, NEW t \in managerScene.callers, GetCamera(t, c)
      PROVE  ReadyIsWired'
  BY <1>4, GetCameraEffect, <1>a DEF ReadyIsWired
<1>5. ASSUME NEW t \in Callers, HostAnswersList(t) PROVE ReadyIsWired'
  BY <1>5, AnswerEffect DEF ReadyIsWired
<1>6. ASSUME NEW t \in Tasks, LookupStorage(t) PROVE ReadyIsWired'
  BY <1>6, LookupEffect DEF ReadyIsWired
<1>7. ASSUME NEW t \in Tasks, CreateCameraStorage(t) PROVE ReadyIsWired'
  BY <1>7, CreateEffect DEF ReadyIsWired
<1>8. ASSUME NEW t \in Tasks, ConnectDevice(t) PROVE ReadyIsWired'
  BY <1>8, ConnectEffect DEF ReadyIsWired
<1>9. ASSUME NEW t \in Tasks, PutDevice(t) PROVE ReadyIsWired'
  BY <1>9, PutEffect DEF ReadyIsWired
<1>10. CASE ConfigureCameras
  BY <1>10, ConfigureEffect DEF ReadyIsWired
<1>11. CASE HandleCameraAdded
  BY <1>11, AddedEffect DEF ReadyIsWired
<1>12. CASE HandleCameraReleased
  BY <1>12, ReleasedEffect DEF ReadyIsWired
<1>13. CASE ReleaseDevice
  <2> DEFINE d == task["handler"].dev
  <2>1. /\ "handler" \in Tasks /\ task'["handler"].pc = "idle" /\ wired' = wired \ {d}
        /\ \A u \in Tasks : u # "handler" => task'[u] = task[u]
        /\ devices' = devices /\ startDevs' = startDevs
    BY <1>13, ReleaseEffect
  <2>2. ASSUME NEW u \in Tasks, u # "handler", task[u].pc = "put" PROVE task[u].dev # d
    <3>1. task[u].dev # 0
      BY <2>2 DEF TasksApart, TaskApart, Making
    <3> QED
      BY <2>1, <2>2, <3>1 DEF OnePlace, HandsApart
  <2>3. \A c \in Cameras : devices[c] # 0 => devices[c] # d
    BY <2>1 DEF OnePlace, HandsOnly
  <2>4. \A r \in startDevs : r.dev # d
    <3>1. \A r \in startDevs : r.dev # 0
      BY DEF ManagerTypes
    <3> QED
      BY <2>1, <3>1 DEF OnePlace, HandsOnly
  <2> QED
    BY <2>1, <2>2, <2>3, <2>4 DEF ReadyIsWired
<1>14. CASE Close
  <2>1. UNCHANGED <<task, startDevs, wired>> /\ \A c \in Cameras : devices'[c] = 0
    BY <1>14 DEF Close
  <2> QED
    BY <2>1 DEF ReadyIsWired
<1>15. CASE CloseDevices
  <2>1. UNCHANGED <<task, startDevs, devices>> /\ wired' = wired \ managerClosing
    BY <1>15 DEF CloseDevices
  <2>2. \A u \in Tasks : task[u].pc = "put" => task[u].dev \notin managerClosing
    BY DEF TasksApart, TaskApart, Making, OnePlace, HandsOnly
  <2>3. /\ \A r \in startDevs : r.dev \notin managerClosing
        /\ \A c \in Cameras : devices[c] \notin managerClosing
    BY DEF OnePlace, MapApart, StartApart
  <2> QED
    BY <2>1, <2>2, <2>3 DEF ReadyIsWired
<1>16. CASE UNCHANGED managerVars
  <2>1. UNCHANGED <<task, startDevs, devices, wired>>
    BY <1>16 DEF managerVars
  <2> QED
    BY <2>1 DEF ReadyIsWired
<1> QED
  BY <1>1, <1>2, <1>3, <1>4, <1>5, <1>6, <1>7, <1>8, <1>9, <1>10, <1>11, <1>12, <1>13,
     <1>14, <1>15, <1>16 DEF ManagerNext

\* The callers that may still ask for a device are finitely many.
LEMMA WaitingFacts ==
  ASSUME ManagerTypes
  PROVE  /\ Waiting \subseteq Callers /\ IsFiniteSet(Waiting) /\ Cardinality(Waiting) \in Nat
         /\ IsFiniteSet(startCams) /\ Cardinality(startCams) \in Nat
         /\ Cardinality(managerScene.cameras) \in Nat /\ Cardinality(managerScene.callers) \in Nat
         /\ used \in Nat /\ Len(requests) \in Nat /\ deviceChanges \in Nat
<1>1. Waiting \subseteq Callers /\ startCams \subseteq Cameras
  BY ManagerSceneFacts DEF Waiting, ManagerTypes
<1> QED
  BY <1>1, ManagerSceneFacts, RequestFacts DEF ManagerTypes

\* A step that makes no device keeps the room if nobody comes to wait for one.
LEMMA RoomKept ==
  ASSUME ManagerTypes, ManagerTypes', DeviceRoom, managerScene' = managerScene, used' = used,
         startCams' = startCams, Waiting' \subseteq Waiting,
         Len(requests') + deviceChanges <= Len(requests) + deviceChanges'
  PROVE  DeviceRoom'
<1>1. Cardinality(Waiting') \in Nat /\ Cardinality(Waiting') <= Cardinality(Waiting)
  BY WaitingFacts, FS_Subset, FS_CardinalityType
<1>2. Len(requests') \in Nat /\ deviceChanges' \in Nat
  BY RequestFacts DEF ManagerTypes
<1>3. \A w, n, e \in Nat :
        w <= Cardinality(Waiting) /\ n + deviceChanges <= Len(requests) + e =>
          used + n + Cardinality(startCams) + w
            <= Cardinality(managerScene.cameras) + e + Cardinality(managerScene.callers)
  <2> DEFINE W == Cardinality(Waiting)
             S == Cardinality(startCams)
             C == Cardinality(managerScene.cameras)
             K == Cardinality(managerScene.callers)
             N == Len(requests)
  <2>1. used \in Nat /\ deviceChanges \in Nat /\ W \in Nat /\ S \in Nat /\ C \in Nat /\ K \in Nat
        /\ N \in Nat /\ used + N + S + W <= C + deviceChanges + K
    BY WaitingFacts DEF DeviceRoom
  <2> HIDE DEF W, S, C, K, N
  <2>2. ASSUME NEW w \in Nat, NEW n \in Nat, NEW e \in Nat, w <= W, n + deviceChanges <= N + e
        PROVE  used + n + S + w <= C + e + K
    BY <2>1, <2>2
  <2> QED
    BY <2>2 DEF W, S, C, K, N
<1> QED
  BY <1>1, <1>2, <1>3 DEF DeviceRoom

\* A caller that is served leaves the others waiting.
LEMMA RoomServed ==
  ASSUME ManagerTypes, ManagerTypes', DeviceRoom, managerScene' = managerScene,
         NEW t \in Waiting, t \notin Waiting', Waiting' \subseteq Waiting, used' <= used + 1,
         UNCHANGED <<startCams, requests, deviceChanges>>
  PROVE  DeviceRoom'
<1>1. Waiting' \subseteq Waiting \ {t} /\ IsFiniteSet(Waiting \ {t})
  BY WaitingFacts, FS_RemoveElement
<1>2. /\ Cardinality(Waiting') <= Cardinality(Waiting \ {t}) /\ IsFiniteSet(Waiting')
      /\ Cardinality(Waiting \ {t}) = Cardinality(Waiting) - 1
  BY <1>1, WaitingFacts, FS_Subset, FS_RemoveElement
<1>3. Cardinality(Waiting') \in Nat /\ used' \in Nat
  BY <1>2, FS_CardinalityType DEF ManagerTypes
<1>4. \A w, u \in Nat :
        w <= Cardinality(Waiting) - 1 /\ u <= used + 1 =>
          u + Len(requests) + Cardinality(startCams) + w
            <= Cardinality(managerScene.cameras) + deviceChanges + Cardinality(managerScene.callers)
  <2> DEFINE W == Cardinality(Waiting)
             S == Cardinality(startCams)
             C == Cardinality(managerScene.cameras)
             K == Cardinality(managerScene.callers)
             N == Len(requests)
  <2>1. used \in Nat /\ deviceChanges \in Nat /\ W \in Nat /\ S \in Nat /\ C \in Nat /\ K \in Nat
        /\ N \in Nat /\ used + N + S + W <= C + deviceChanges + K
    BY WaitingFacts DEF DeviceRoom
  <2> HIDE DEF W, S, C, K, N
  <2>2. ASSUME NEW w \in Nat, NEW u \in Nat, w <= W - 1, u <= used + 1
        PROVE  u + N + S + w <= C + deviceChanges + K
    BY <2>1, <2>2
  <2> QED
    BY <2>2 DEF W, S, C, K, N
<1>5. Cardinality(Waiting') <= Cardinality(Waiting) - 1
  BY <1>2
<1> QED
  BY <1>3, <1>4, <1>5 DEF DeviceRoom

\* Every device is made for a camera of the start, a request or a caller.
LEMMA DeviceRoomStep ==
  ManagerTypes /\ TasksApart /\ DeviceRoom /\ [ManagerNext]_managerVars => DeviceRoom'
<1> SUFFICES ASSUME ManagerTypes, TasksApart, DeviceRoom, [ManagerNext]_managerVars PROVE
      DeviceRoom'
  OBVIOUS
<1>a. managerScene.cameras \subseteq Cameras /\ managerScene.callers \subseteq Callers
  BY ManagerSceneFacts
<1>b. ManagerTypes'
  BY ManagerTypesStep
<1>1. ASSUME NEW c \in managerScene.cameras, Assign(c) PROVE DeviceRoom'
  <2>1. PICK kind \in {"added", "released"} : HostChange(kind, c)
    BY <1>1 DEF Assign
  <2>2. /\ Len(requests') = Len(requests) + 1 /\ deviceChanges' = deviceChanges + 1
        /\ UNCHANGED <<managerScene, used, startCams, task>>
    BY <1>1, <1>a, <2>1, HostChangeEffect
  <2>3. Waiting' \subseteq Waiting
    BY <2>2 DEF Waiting
  <2>4. Len(requests') + deviceChanges <= Len(requests) + deviceChanges'
    BY <2>2, WaitingFacts
  <2> QED
    BY <1>b, <2>2, <2>3, <2>4, RoomKept
<1>2. ASSUME NEW c \in managerScene.cameras, ReleaseCamera(c) PROVE DeviceRoom'
  <2>1. PICK kind \in {"added", "released"} : HostChange(kind, c)
    BY <1>2 DEF ReleaseCamera
  <2>2. /\ Len(requests') = Len(requests) + 1 /\ deviceChanges' = deviceChanges + 1
        /\ UNCHANGED <<managerScene, used, startCams, task>>
    BY <1>2, <1>a, <2>1, HostChangeEffect
  <2>3. Waiting' \subseteq Waiting
    BY <2>2 DEF Waiting
  <2>4. Len(requests') + deviceChanges <= Len(requests) + deviceChanges'
    BY <2>2, WaitingFacts
  <2> QED
    BY <1>b, <2>2, <2>3, <2>4, RoomKept
<1>3. ASSUME NEW c \in managerScene.cameras, StartCamera(c) PROVE DeviceRoom'
  <2>1. "start" \in Tasks \ Callers /\ c \in Cameras /\ NewDevice("start", c)
    BY <1>3, <1>a, NamedTasks DEF StartCamera
  <2>2. used' = used + 1 /\ \A u \in Tasks : u # "start" => task'[u] = task[u]
    BY <2>1, NewDeviceEffect
  <2>3. /\ c \in startCams /\ startCams' = startCams \ {c}
        /\ UNCHANGED <<managerScene, deviceChanges, requests>>
    BY <1>3 DEF StartCamera
  <2>4. Waiting' = Waiting
    BY <1>a, <2>1, <2>2, <2>3 DEF Waiting, Tasks
  <2>5. Cardinality(startCams') = Cardinality(startCams) - 1
    BY <2>3, WaitingFacts, FS_RemoveElement
  <2> QED
    BY <2>2, <2>3, <2>4, <2>5, WaitingFacts DEF DeviceRoom
<1>4. ASSUME NEW c \in managerScene.cameras, NEW t \in managerScene.callers, GetCamera(t, c)
      PROVE  DeviceRoom'
  <2>1. UNCHANGED <<managerScene, used, startCams, requests, deviceChanges>>
    BY <1>4, <1>a, GetCameraEffect
  <2>2. Waiting' \subseteq Waiting
    BY <1>4, <1>a, GetCameraEffect DEF Waiting, Tasks
  <2> QED
    BY <1>b, <2>1, <2>2, RoomKept, WaitingFacts
<1>5. ASSUME NEW t \in Callers, HostAnswersList(t) PROVE DeviceRoom'
  <2>1. t \in Tasks /\ t \in managerScene.callers /\ t \in Waiting
    BY <1>5, AnswerEffect DEF TasksApart, TaskApart, Waiting
  <2>2. used' <= used + 1 /\ UNCHANGED <<managerScene, startCams, requests, deviceChanges>>
    BY <1>5, AnswerEffect, WaitingFacts
  <2>3. t \notin Waiting' /\ Waiting' \subseteq Waiting
    BY <1>5, <1>a, AnswerEffect DEF Waiting, Tasks
  <2> QED
    BY <1>b, <2>1, <2>2, <2>3, RoomServed
<1>6. ASSUME NEW t \in Tasks, LookupStorage(t) PROVE DeviceRoom'
  <2>1. UNCHANGED <<managerScene, used, startCams, requests, deviceChanges>>
    BY <1>6, LookupEffect
  <2>2. Waiting' \subseteq Waiting
    BY <1>6, <1>a, LookupEffect DEF Waiting, Tasks
  <2> QED
    BY <1>b, <2>1, <2>2, RoomKept, WaitingFacts
<1>7. ASSUME NEW t \in Tasks, CreateCameraStorage(t) PROVE DeviceRoom'
  <2>1. UNCHANGED <<managerScene, used, startCams, requests, deviceChanges>>
    BY <1>7, CreateEffect
  <2>2. Waiting' \subseteq Waiting
    BY <1>7, <1>a, CreateEffect DEF Waiting, Tasks
  <2> QED
    BY <1>b, <2>1, <2>2, RoomKept, WaitingFacts
<1>8. ASSUME NEW t \in Tasks, ConnectDevice(t) PROVE DeviceRoom'
  <2>1. UNCHANGED <<managerScene, used, startCams, requests, deviceChanges>>
    BY <1>8, ConnectEffect
  <2>2. Waiting' \subseteq Waiting
    BY <1>8, <1>a, ConnectEffect DEF Waiting, Tasks
  <2> QED
    BY <1>b, <2>1, <2>2, RoomKept, WaitingFacts
<1>9. ASSUME NEW t \in Tasks, PutDevice(t) PROVE DeviceRoom'
  <2>1. UNCHANGED <<managerScene, used, startCams, requests, deviceChanges>>
    BY <1>9, PutEffect
  <2>2. Waiting' \subseteq Waiting
    BY <1>9, <1>a, PutEffect DEF Waiting, Tasks
  <2> QED
    BY <1>b, <2>1, <2>2, RoomKept, WaitingFacts
<1>10. CASE ConfigureCameras
  <2>1. UNCHANGED <<managerScene, used, startCams, requests, deviceChanges>>
    BY <1>10, ConfigureEffect
  <2>2. Waiting' \subseteq Waiting
    BY <1>10, <1>a, ConfigureEffect DEF Waiting, Tasks
  <2> QED
    BY <1>b, <2>1, <2>2, RoomKept, WaitingFacts
<1>11. CASE HandleCameraAdded
  <2>1. /\ used' \in {used, used + 1} /\ Len(requests') = Len(requests) - 1
        /\ UNCHANGED <<managerScene, startCams, deviceChanges>>
    BY <1>11, AddedEffect, RequestFacts
  <2>2. Waiting' = Waiting
    BY <1>11, <1>a, AddedEffect, NamedTasks DEF Waiting, Tasks
  <2> QED
    BY <2>1, <2>2, WaitingFacts DEF DeviceRoom
<1>12. CASE HandleCameraReleased
  <2>1. /\ Len(requests') = Len(requests) - 1
        /\ UNCHANGED <<managerScene, used, startCams, deviceChanges>>
    BY <1>12, ReleasedEffect, RequestFacts
  <2>2. Waiting' = Waiting
    BY <1>12, <1>a, ReleasedEffect, NamedTasks DEF Waiting, Tasks
  <2> QED
    BY <2>1, <2>2, WaitingFacts DEF DeviceRoom
<1>13. CASE ReleaseDevice
  <2>1. UNCHANGED <<managerScene, used, startCams, requests, deviceChanges>>
    BY <1>13, ReleaseEffect
  <2>2. Waiting' \subseteq Waiting
    BY <1>13, <1>a, ReleaseEffect DEF Waiting, Tasks
  <2> QED
    BY <1>b, <2>1, <2>2, RoomKept, WaitingFacts
<1>14. CASE Close
  <2>1. UNCHANGED <<managerScene, used, startCams, requests, deviceChanges>>
    BY <1>14 DEF Close
  <2>2. Waiting' \subseteq Waiting
    BY <1>14, <1>a DEF Close, Waiting, Tasks
  <2> QED
    BY <1>b, <2>1, <2>2, RoomKept, WaitingFacts
<1>15. CASE CloseDevices
  <2>1. UNCHANGED <<managerScene, used, startCams, requests, deviceChanges>>
    BY <1>15 DEF CloseDevices
  <2>2. Waiting' \subseteq Waiting
    BY <1>15, <1>a DEF CloseDevices, Waiting, Tasks
  <2> QED
    BY <1>b, <2>1, <2>2, RoomKept, WaitingFacts
<1>16. CASE UNCHANGED managerVars
  <2>1. UNCHANGED <<managerScene, used, startCams, requests, deviceChanges>>
    BY <1>16 DEF managerVars
  <2>2. Waiting' \subseteq Waiting
    BY <1>16, <1>a DEF managerVars, Waiting, Tasks
  <2> QED
    BY <1>b, <2>1, <2>2, RoomKept, WaitingFacts
<1> QED
  BY <1>1, <1>2, <1>3, <1>4, <1>5, <1>6, <1>7, <1>8, <1>9, <1>10, <1>11, <1>12, <1>13,
     <1>14, <1>15, <1>16 DEF ManagerNext

\* A storage is put under one camera, named after a device that is in no other place.
LEMMA StoragesApartStep ==
  ManagerTypes /\ TasksApart /\ OnePlace /\ StoragesApart /\ [ManagerNext]_managerVars
    => StoragesApart'
<1> SUFFICES ASSUME ManagerTypes, TasksApart, OnePlace, StoragesApart,
      [ManagerNext]_managerVars PROVE StoragesApart'
  OBVIOUS
<1>a. managerScene.cameras \subseteq Cameras /\ managerScene.callers \subseteq Callers
  BY ManagerSceneFacts
<1>c. \A e \in Cameras : storages[e] # used + 1
  BY DEF ManagerTypes
<1>1. ASSUME NEW c \in managerScene.cameras, Assign(c) PROVE StoragesApart'
  <2>1. UNCHANGED <<task, storages>>
    BY <1>1 DEF Assign, HostChange
  <2> QED
    BY <2>1 DEF StoragesApart
<1>2. ASSUME NEW c \in managerScene.cameras, ReleaseCamera(c) PROVE StoragesApart'
  <2>1. UNCHANGED <<task, storages>>
    BY <1>2 DEF ReleaseCamera, HostChange
  <2> QED
    BY <2>1 DEF StoragesApart
<1>3. ASSUME NEW c \in managerScene.cameras, StartCamera(c) PROVE StoragesApart'
  <2>1. "start" \in Tasks /\ c \in Cameras /\ NewDevice("start", c) /\ storages' = storages
    BY <1>3, <1>a, NamedTasks DEF StartCamera
  <2>2. task'["start"].dev = used + 1 /\ \A u \in Tasks : u # "start" => task'[u] = task[u]
    BY <2>1, NewDeviceEffect
  <2> QED
    BY <1>c, <2>1, <2>2 DEF StoragesApart
<1>4. ASSUME NEW c \in managerScene.cameras, NEW t \in managerScene.callers, GetCamera(t, c)
      PROVE  StoragesApart'
  <2>1. /\ task'[t].pc \notin {"storage", "create"} /\ storages' = storages
        /\ \A u \in Tasks : u # t => task'[u] = task[u]
    BY <1>4, <1>a, GetCameraEffect
  <2> QED
    BY <2>1 DEF StoragesApart
<1>5. ASSUME NEW t \in Callers, HostAnswersList(t) PROVE StoragesApart'
  <2>1. /\ task'[t].pc \notin {"storage", "create"} \/ task'[t].dev = used + 1
        /\ storages' = storages /\ \A u \in Tasks : u # t => task'[u] = task[u]
    BY <1>5, AnswerEffect
  <2> QED
    BY <1>c, <2>1 DEF StoragesApart
<1>6. ASSUME NEW t \in Tasks, LookupStorage(t) PROVE StoragesApart'
  <2>1. /\ storages' = storages /\ \A u \in Tasks : u # t => task'[u] = task[u]
        /\ task'[t].pc \in {"storage", "create"} =>
             task[t].pc \in {"storage", "create"} /\ task'[t].dev = task[t].dev
    BY <1>6, LookupEffect
  <2> QED
    BY <2>1 DEF StoragesApart
<1>7. ASSUME NEW t \in Tasks, CreateCameraStorage(t) PROVE StoragesApart'
  <2> DEFINE d == task[t].dev
             c == task[t].cam
  <2>1. /\ c \in Cameras /\ d # 0 /\ task[t].pc = "create"
        /\ task'[t].pc \notin {"storage", "create"}
        /\ storages'[c] \in {d, storages[c]}
        /\ \A e \in Cameras : e # c => storages'[e] = storages[e]
        /\ \A u \in Tasks : u # t => task'[u] = task[u]
    BY <1>7, CreateEffect
  <2>2. \A u \in Tasks : u # t => task[u].dev # d
    BY <2>1 DEF OnePlace, HandsApart
  <2>3. \A e \in Cameras : storages[e] # d
    BY <2>1 DEF StoragesApart
  <2> HIDE DEF c, d
  <2>4. \A b, e \in Cameras : storages'[b] = storages'[e] /\ storages'[b] # 0 => b = e
    BY <2>1, <2>3 DEF StoragesApart
  <2>5. ASSUME NEW u \in Tasks, task'[u].pc \in {"storage", "create"}, NEW e \in Cameras
        PROVE  storages'[e] # task'[u].dev
    BY <2>1, <2>2, <2>5 DEF StoragesApart
  <2> QED
    BY <2>4, <2>5 DEF StoragesApart
<1>8. ASSUME NEW t \in Tasks, ConnectDevice(t) PROVE StoragesApart'
  <2>1. /\ storages' = storages /\ \A u \in Tasks : u # t => task'[u] = task[u]
        /\ task'[t].pc \in {"storage", "create"} =>
             task[t].pc \in {"storage", "create"} /\ task'[t].dev = task[t].dev
    BY <1>8, ConnectEffect
  <2> QED
    BY <2>1 DEF StoragesApart
<1>9. ASSUME NEW t \in Tasks, PutDevice(t) PROVE StoragesApart'
  <2>1. /\ storages' = storages /\ \A u \in Tasks : u # t => task'[u] = task[u]
        /\ task'[t].pc \in {"storage", "create"} =>
             task[t].pc \in {"storage", "create"} /\ task'[t].dev = task[t].dev
    BY <1>9, PutEffect
  <2> QED
    BY <2>1 DEF StoragesApart
<1>10. CASE ConfigureCameras
  <2>1. UNCHANGED <<task, storages>>
    BY <1>10 DEF ConfigureCameras
  <2> QED
    BY <2>1 DEF StoragesApart
<1>11. CASE HandleCameraAdded
  <2>1. /\ task' = task \/ task'["handler"].dev = used + 1
        /\ storages' = storages /\ \A u \in Tasks : u # "handler" => task'[u] = task[u]
    BY <1>11, AddedEffect
  <2> QED
    BY <1>c, <2>1 DEF StoragesApart
<1>12. CASE HandleCameraReleased
  <2>1. /\ storages' = storages /\ \A u \in Tasks : u # "handler" => task'[u] = task[u]
        /\ task'["handler"].pc \in {"storage", "create"} =>
             task["handler"].pc \in {"storage", "create"}
               /\ task'["handler"].dev = task["handler"].dev
    BY <1>12, ReleasedEffect
  <2> QED
    BY <2>1 DEF StoragesApart
<1>13. CASE ReleaseDevice
  <2>1. /\ storages' = storages /\ \A u \in Tasks : u # "handler" => task'[u] = task[u]
        /\ task'["handler"].pc \in {"storage", "create"} =>
             task["handler"].pc \in {"storage", "create"}
               /\ task'["handler"].dev = task["handler"].dev
    BY <1>13, ReleaseEffect
  <2> QED
    BY <2>1 DEF StoragesApart
<1>14. CASE Close
  <2>1. UNCHANGED <<task, storages>>
    BY <1>14 DEF Close
  <2> QED
    BY <2>1 DEF StoragesApart
<1>15. CASE CloseDevices
  <2>1. UNCHANGED <<task, storages>>
    BY <1>15 DEF CloseDevices
  <2> QED
    BY <2>1 DEF StoragesApart
<1>16. CASE UNCHANGED managerVars
  <2>1. UNCHANGED <<task, storages>>
    BY <1>16 DEF managerVars
  <2> QED
    BY <2>1 DEF StoragesApart
<1> QED
  BY <1>1, <1>2, <1>3, <1>4, <1>5, <1>6, <1>7, <1>8, <1>9, <1>10, <1>11, <1>12, <1>13,
     <1>14, <1>15, <1>16 DEF ManagerNext

\* When calls come in order nothing fails, and the surroundings wait for rest.
LEMMA OrderlyFacts ==
  ASSUME Orderly
  PROVE  ~ManagerFails /\ (Allowed => AtRest)
BY DEF Orderly, ManagerFails, Allowed

\* Work that goes on or ends keeps the order.
LEMMA LessWork ==
  ASSUME InOrder, \A u \in Tasks : Working(u)' => Working(u),
         UNCHANGED <<requests, startPc, startDevs, devices, closePc, managerClosing>>
  PROVE  InOrder'
BY DEF InOrder

\* Goroutine t starts to work when nobody else does.
LEMMA MoreWork ==
  ASSUME InOrder, NEW t \in Tasks, \A u \in Tasks : u # t => ~Working(u)',
         t = "start" <=> startPc = "create", closePc = "open", requests' = <<>>, Len(<<>>) = 0,
         UNCHANGED <<startPc, startDevs, closePc, managerClosing>>,
         \A c \in Cameras : devices'[c] \in {0, devices[c]}
  PROVE  InOrder'
BY DEF InOrder

\* When calls come in order one goroutine works at a time.
LEMMA InOrderStep ==
  ManagerTypes /\ TasksApart /\ Orderly /\ InOrder /\ [ManagerNext]_managerVars => InOrder'
<1> SUFFICES ASSUME ManagerTypes, TasksApart, Orderly, InOrder, [ManagerNext]_managerVars PROVE
      InOrder'
  OBVIOUS
<1>a. managerScene.cameras \subseteq Cameras /\ managerScene.callers \subseteq Callers
  BY ManagerSceneFacts
<1>b. ~ManagerFails /\ (Allowed => AtRest)
  BY OrderlyFacts
<1>1. ASSUME NEW c \in managerScene.cameras, Assign(c) PROVE InOrder'
  <2>1. HostChange("added", c) /\ c \in Cameras
    BY <1>1, <1>a DEF Assign
  <2>2. AtRest /\ closePc = "open" /\ Len(requests') <= 1
    BY <1>b, <2>1, HostChangeEffect DEF AtRest
  <2>3. \A u \in Tasks : ~Working(u)'
    BY <2>1, <2>2, HostChangeEffect DEF AtRest, Working
  <2>4. UNCHANGED <<startPc, startDevs, devices, closePc, managerClosing>>
    BY <2>1, HostChangeEffect
  <2> QED
    BY <2>2, <2>3, <2>4 DEF InOrder, AtRest
<1>2. ASSUME NEW c \in managerScene.cameras, ReleaseCamera(c) PROVE InOrder'
  <2>1. HostChange("released", c) /\ c \in Cameras
    BY <1>2, <1>a DEF ReleaseCamera
  <2>2. AtRest /\ closePc = "open" /\ Len(requests') <= 1
    BY <1>b, <2>1, HostChangeEffect DEF AtRest
  <2>3. \A u \in Tasks : ~Working(u)'
    BY <2>1, <2>2, HostChangeEffect DEF AtRest, Working
  <2>4. UNCHANGED <<startPc, startDevs, devices, closePc, managerClosing>>
    BY <2>1, HostChangeEffect
  <2> QED
    BY <2>2, <2>3, <2>4 DEF InOrder, AtRest
<1>3. ASSUME NEW c \in managerScene.cameras, StartCamera(c) PROVE InOrder'
  <2>1. /\ startPc = "create" /\ ~Working("start") /\ NewDevice("start", c)
        /\ c \in Cameras /\ "start" \in Tasks
        /\ UNCHANGED <<requests, startPc, startDevs, devices, closePc, managerClosing>>
    BY <1>3, <1>a, NamedTasks DEF StartCamera
  <2>2. \A u \in Tasks : u # "start" => ~Working(u)
    BY <2>1 DEF InOrder
  <2>3. \A u \in Tasks : u # "start" => ~Working(u)'
    BY <2>1, <2>2, NewDeviceEffect DEF Working
  <2>4. requests' = <<>> /\ closePc = "open"
    BY <2>1 DEF InOrder
  <2> QED
    BY <2>1, <2>3, <2>4, MoreWork, EmptySeq
<1>4. ASSUME NEW c \in managerScene.cameras, NEW t \in managerScene.callers, GetCamera(t, c)
      PROVE  InOrder'
  <2>1. AtRest /\ closePc = "open" /\ t \in Tasks /\ t # "start"
    BY <1>4, <1>a, <1>b, GetCameraEffect, NamedTasks
  <2>2. \A u \in Tasks : u # t => ~Working(u)'
    BY <1>4, <1>a, <2>1, GetCameraEffect DEF AtRest, Working
  <2>3. UNCHANGED <<requests, startPc, startDevs, devices, closePc, managerClosing>>
    BY <1>4, <1>a, GetCameraEffect
  <2> QED
    BY <2>1, <2>2, <2>3, MoreWork, EmptySeq DEF AtRest
<1>5. ASSUME NEW t \in Callers, HostAnswersList(t) PROVE InOrder'
  <2>1. \A u \in Tasks : Working(u)' => Working(u)
    BY <1>5, AnswerEffect DEF Working
  <2> QED
    BY <1>5, <2>1, AnswerEffect, LessWork
<1>6. ASSUME NEW t \in Tasks, LookupStorage(t) PROVE InOrder'
  <2>1. \A u \in Tasks : Working(u)' => Working(u)
    BY <1>6, LookupEffect DEF Working
  <2> QED
    BY <1>6, <2>1, LookupEffect, LessWork
<1>7. ASSUME NEW t \in Tasks, CreateCameraStorage(t) PROVE InOrder'
  <2>1. \A u \in Tasks : Working(u)' => Working(u)
    BY <1>7, CreateEffect, <1>b DEF Working
  <2> QED
    BY <1>7, <2>1, CreateEffect, <1>b, LessWork
<1>8. ASSUME NEW t \in Tasks, ConnectDevice(t) PROVE InOrder'
  <2>1. \A u \in Tasks : Working(u)' => Working(u)
    BY <1>8, ConnectEffect, <1>b DEF Working
  <2> QED
    BY <1>8, <2>1, ConnectEffect, <1>b, LessWork
<1>9. ASSUME NEW t \in Tasks, PutDevice(t) PROVE InOrder'
  <2>1. /\ Working(t) /\ ~Working(t)' /\ \A u \in Tasks : u # t => Working(u)' = Working(u)
        /\ UNCHANGED <<requests, startPc, closePc, managerClosing>>
    BY <1>9, PutEffect DEF Working
  <2>2. \A u \in Tasks : ~Working(u)'
    BY <2>1 DEF InOrder
  <2>3. closePc = "open" /\ (t = "start" <=> startPc = "create")
    BY <2>1 DEF InOrder
  <2>4. t = "start" => devices' = devices
    BY <1>9, PutEffect
  <2>5. t # "start" => startDevs' = startDevs
    BY <1>9, PutEffect
  <2> QED
    BY <2>1, <2>2, <2>3, <2>4, <2>5 DEF InOrder
<1>10. CASE ConfigureCameras
  <2>1. /\ startPc = "create" /\ startPc' = "done" /\ startDevs' = {} /\ ~Working("start")
        /\ UNCHANGED <<requests, task, closePc, managerClosing>>
    BY <1>10, ConfigureEffect
  <2>2. \A u \in Tasks : ~Working(u)'
    BY <2>1 DEF InOrder, Working
  <2> QED
    BY <2>1, <2>2 DEF InOrder
<1>11. CASE HandleCameraAdded
  <2>1. /\ requests # <<>> /\ requests' = Tail(requests) /\ closePc = "open"
        /\ UNCHANGED <<startPc, startDevs, closePc, managerClosing>>
    BY <1>11, AddedEffect
  <2>2. startPc = "done" /\ requests' = <<>> /\ \A u \in Tasks : ~Working(u)
    BY <2>1, RequestFacts DEF InOrder
  <2>3. \A u \in Tasks : u # "handler" => ~Working(u)'
    BY <1>11, <2>2, AddedEffect DEF Working
  <2>4. \A e \in Cameras : devices'[e] \in {0, devices[e]}
    BY <1>11, AddedEffect
  <2> QED
    BY <2>1, <2>2, <2>3, <2>4, NamedTasks, MoreWork, EmptySeq
<1>12. CASE HandleCameraReleased
  <2>1. /\ requests # <<>> /\ requests' = Tail(requests) /\ closePc = "open"
        /\ UNCHANGED <<startPc, startDevs, closePc, managerClosing>>
    BY <1>12, ReleasedEffect
  <2>2. startPc = "done" /\ requests' = <<>> /\ \A u \in Tasks : ~Working(u)
    BY <2>1, RequestFacts DEF InOrder
  <2>3. \A u \in Tasks : u # "handler" => ~Working(u)'
    BY <1>12, <2>2, ReleasedEffect DEF Working
  <2>4. \A e \in Cameras : devices'[e] \in {0, devices[e]}
    BY <1>12, ReleasedEffect
  <2> QED
    BY <2>1, <2>2, <2>3, <2>4, NamedTasks, MoreWork, EmptySeq
<1>13. CASE ReleaseDevice
  <2>1. \A u \in Tasks : Working(u)' => Working(u)
    BY <1>13, ReleaseEffect DEF Working
  <2> QED
    BY <1>13, <2>1, ReleaseEffect, LessWork
<1>14. CASE Close
  <2>1. /\ AtRest /\ closePc' = "cleanup" /\ \A c \in Cameras : devices'[c] = 0
        /\ UNCHANGED <<requests, startPc, startDevs, task>>
    BY <1>14, <1>b DEF Close
  <2>2. \A u \in Tasks : ~Working(u)'
    BY <2>1 DEF AtRest, Working
  <2> QED
    BY <2>1, <2>2, EmptySeq DEF InOrder, AtRest
<1>15. CASE CloseDevices
  <2>1. /\ closePc = "cleanup" /\ closePc' = "closed" /\ managerClosing' = {}
        /\ UNCHANGED <<requests, startPc, startDevs, task, devices>>
    BY <1>15 DEF CloseDevices
  <2>2. \A u \in Tasks : ~Working(u)'
    BY <2>1 DEF InOrder, Working
  <2> QED
    BY <2>1, <2>2 DEF InOrder
<1>16. CASE UNCHANGED managerVars
  <2>1. \A u \in Tasks : Working(u)' => Working(u)
    BY <1>16 DEF managerVars, Working
  <2> QED
    BY <1>16, <2>1, LessWork DEF managerVars
<1> QED
  BY <1>1, <1>2, <1>3, <1>4, <1>5, <1>6, <1>7, <1>8, <1>9, <1>10, <1>11, <1>12, <1>13,
     <1>14, <1>15, <1>16 DEF ManagerNext

\* The assignments, the requests and the map stay as they are.
LEMMA AssignedKept ==
  ASSUME OneDevice, UNCHANGED <<startPc, assigned, startCams, startDevs, requests, devices>>
  PROVE  StartAssigned' /\ RequestTrue' /\ MapAssigned'
BY DEF OneDevice, StartAssigned, RequestTrue, MapAssigned

\* One goroutine goes on with its camera, or rests.
LEMMA CameraKept ==
  ASSUME OneDevice, NEW t \in Tasks, \A u \in Tasks : u # t => ~Working(u)',
         \/ ~Working(t)'
         \/ /\ Working(t) /\ task'[t].cam = task[t].cam
            /\ task'[t].pc \in Making => task[t].cam \in assigned,
         UNCHANGED <<startPc, assigned, startCams, startDevs, requests, devices>>
  PROVE  OneDevice'
<1>1. \A u \in Tasks : u # t => CameraFree(u)'
  <2> SUFFICES ASSUME NEW u \in Tasks, u # t PROVE CameraFree(u)'
    OBVIOUS
  <2> QED
    BY DEF CameraFree, Working, Making
<1>2. CASE ~Working(t)'
  <2>1. CameraFree(t)'
    BY <1>2 DEF CameraFree, Working, Making
  <2> QED
    BY <1>1, <2>1, AssignedKept DEF OneDevice
<1>3. CASE /\ Working(t) /\ task'[t].cam = task[t].cam
           /\ task'[t].pc \in Making => task[t].cam \in assigned
  <2>1. CameraFree(t)'
    BY <1>3 DEF OneDevice, CameraFree
  <2> QED
    BY <1>1, <2>1, AssignedKept DEF OneDevice
<1> QED
  BY <1>2, <1>3

\* When calls come in order a camera has one device, and only while it is assigned.
LEMMA OneDeviceStep ==
  ManagerTypes /\ TasksApart /\ Orderly /\ InOrder /\ OneDevice /\ [ManagerNext]_managerVars
    => OneDevice'
<1> SUFFICES ASSUME ManagerTypes, TasksApart, Orderly, InOrder, OneDevice,
      [ManagerNext]_managerVars PROVE OneDevice'
  OBVIOUS
<1>a. managerScene.cameras \subseteq Cameras /\ managerScene.callers \subseteq Callers
  BY ManagerSceneFacts
<1>b. ~ManagerFails /\ (Allowed => AtRest)
  BY OrderlyFacts
<1>1. ASSUME NEW c \in managerScene.cameras, Assign(c) PROVE OneDevice'
  <2>1. HostChange("added", c) /\ c \in Cameras
    BY <1>1, <1>a DEF Assign
  <2>2. /\ AtRest /\ Len(requests') = 1 /\ Head(requests') = [kind |-> "added", cam |-> c]
        /\ UNCHANGED <<startPc, startCams, startDevs, task, devices>>
    BY <1>b, <2>1, HostChangeEffect DEF AtRest
  <2>3. assigned' = assigned \cup {c}
    BY <1>1 DEF Assign
  <2>4. requests' # <<>> /\ requests = <<>> /\ startPc # "create" /\ startDevs = {}
    BY <2>2, EmptySeq DEF AtRest, InOrder
  <2>5. \A u \in Tasks : ~Working(u)'
    BY <2>2 DEF AtRest, Working
  <2>6. \A u \in Tasks : CameraFree(u)'
    BY <2>5 DEF CameraFree, Working, Making
  <2>7. StartAssigned'
    BY <2>2, <2>4 DEF StartAssigned
  <2>8. RequestTrue'
    BY <2>2, <2>3 DEF RequestTrue
  <2>9. MapAssigned'
    BY <2>2, <2>3, <2>4 DEF OneDevice, MapAssigned
  <2> QED
    BY <2>6, <2>7, <2>8, <2>9 DEF OneDevice
<1>2. ASSUME NEW c \in managerScene.cameras, ReleaseCamera(c) PROVE OneDevice'
  <2>1. HostChange("released", c) /\ c \in Cameras
    BY <1>2, <1>a DEF ReleaseCamera
  <2>2. /\ AtRest /\ Len(requests') = 1 /\ Head(requests') = [kind |-> "released", cam |-> c]
        /\ UNCHANGED <<startPc, startCams, startDevs, task, devices>>
    BY <1>b, <2>1, HostChangeEffect DEF AtRest
  <2>3. assigned' = assigned \ {c}
    BY <1>2 DEF ReleaseCamera
  <2>4. requests' # <<>> /\ requests = <<>> /\ startPc # "create" /\ startDevs = {}
    BY <2>2, EmptySeq DEF AtRest, InOrder
  <2>5. \A u \in Tasks : ~Working(u)'
    BY <2>2 DEF AtRest, Working
  <2>6. \A u \in Tasks : CameraFree(u)'
    BY <2>5 DEF CameraFree, Working, Making
  <2>7. StartAssigned'
    BY <2>2, <2>4 DEF StartAssigned
  <2>8. RequestTrue'
    BY <2>2, <2>3 DEF RequestTrue
  <2>9. MapAssigned'
    BY <2>2, <2>3, <2>4 DEF OneDevice, MapAssigned
  <2> QED
    BY <2>6, <2>7, <2>8, <2>9 DEF OneDevice
<1>3. ASSUME NEW c \in managerScene.cameras, StartCamera(c) PROVE OneDevice'
  <2>1. /\ startPc = "create" /\ ~Working("start") /\ NewDevice("start", c)
        /\ c \in Cameras /\ "start" \in Tasks /\ c \in startCams /\ startCams' = startCams \ {c}
        /\ UNCHANGED <<assigned, requests, startPc, startDevs, devices>>
    BY <1>3, <1>a, NamedTasks DEF StartCamera
  <2>2. \A u \in Tasks : u # "start" => ~Working(u)
    BY <2>1 DEF InOrder
  <2>3. /\ task'["start"].cam = c /\ task'["start"].pc = "storage"
        /\ \A u \in Tasks : u # "start" => task'[u] = task[u]
    BY <2>1, NewDeviceEffect
  <2>4. ASSUME NEW u \in Tasks, u # "start" PROVE CameraFree(u)'
    BY <2>2, <2>3, <2>4 DEF CameraFree, Working, Making
  <2>5. CameraFree("start")'
    BY <2>1, <2>3 DEF CameraFree, OneDevice, StartAssigned, InOrder
  <2>6. StartAssigned'
    BY <2>1 DEF OneDevice, StartAssigned
  <2>7. RequestTrue' /\ MapAssigned'
    BY <2>1 DEF OneDevice, RequestTrue, MapAssigned
  <2> QED
    BY <2>4, <2>5, <2>6, <2>7 DEF OneDevice
<1>4. ASSUME NEW c \in managerScene.cameras, NEW t \in managerScene.callers, GetCamera(t, c)
      PROVE  OneDevice'
  <2>1. /\ AtRest /\ t \in Tasks /\ t # "start"
        /\ \A u \in Tasks : u # t => task'[u] = task[u]
        /\ UNCHANGED <<startPc, assigned, startCams, startDevs, requests, devices>>
    BY <1>4, <1>a, <1>b, GetCameraEffect, NamedTasks
  <2>2. \A u \in Tasks : u # t => ~Working(u)'
    BY <2>1 DEF AtRest, Working
  <2>3. ASSUME NEW u \in Tasks, u # t PROVE CameraFree(u)'
    BY <2>2, <2>3 DEF CameraFree, Working, Making
  <2>4. CameraFree(t)'
    BY <1>4, <1>a, <2>1, GetCameraEffect DEF CameraFree, Working, Making
  <2> QED
    BY <2>1, <2>3, <2>4, AssignedKept DEF OneDevice
<1>5. ASSUME NEW t \in Callers, HostAnswersList(t) PROVE OneDevice'
  <2>1. t \in Tasks /\ Working(t) /\ \A u \in Tasks : u # t => task'[u] = task[u]
    BY <1>5, AnswerEffect DEF Working
  <2>2. \A u \in Tasks : u # t => ~Working(u)'
    BY <2>1 DEF InOrder, Working
  <2>3. \/ ~Working(t)'
        \/ /\ task'[t].cam = task[t].cam
           /\ task'[t].pc \in Making => task[t].cam \in assigned
    BY <1>5, <1>b, AnswerEffect DEF Working, Making, OneDevice, CameraFree
  <2>4. UNCHANGED <<startPc, assigned, startCams, startDevs, requests, devices>>
    BY <1>5, <1>b, AnswerEffect
  <2> QED
    BY <2>1, <2>2, <2>3, <2>4, CameraKept
<1>6. ASSUME NEW t \in Tasks, LookupStorage(t) PROVE OneDevice'
  <2>1. t \in Tasks /\ Working(t) /\ \A u \in Tasks : u # t => task'[u] = task[u]
    BY <1>6, LookupEffect DEF Working
  <2>2. \A u \in Tasks : u # t => ~Working(u)'
    BY <2>1 DEF InOrder, Working
  <2>3. \/ ~Working(t)'
        \/ /\ task'[t].cam = task[t].cam
           /\ task'[t].pc \in Making => task[t].cam \in assigned
    BY <1>6, <1>b, LookupEffect DEF Working, Making, OneDevice, CameraFree
  <2>4. UNCHANGED <<startPc, assigned, startCams, startDevs, requests, devices>>
    BY <1>6, <1>b, LookupEffect
  <2> QED
    BY <2>1, <2>2, <2>3, <2>4, CameraKept
<1>7. ASSUME NEW t \in Tasks, CreateCameraStorage(t) PROVE OneDevice'
  <2>1. t \in Tasks /\ Working(t) /\ \A u \in Tasks : u # t => task'[u] = task[u]
    BY <1>7, CreateEffect DEF Working
  <2>2. \A u \in Tasks : u # t => ~Working(u)'
    BY <2>1 DEF InOrder, Working
  <2>3. \/ ~Working(t)'
        \/ /\ task'[t].cam = task[t].cam
           /\ task'[t].pc \in Making => task[t].cam \in assigned
    BY <1>7, <1>b, CreateEffect DEF Working, Making, OneDevice, CameraFree
  <2>4. UNCHANGED <<startPc, assigned, startCams, startDevs, requests, devices>>
    BY <1>7, <1>b, CreateEffect
  <2> QED
    BY <2>1, <2>2, <2>3, <2>4, CameraKept
<1>8. ASSUME NEW t \in Tasks, ConnectDevice(t) PROVE OneDevice'
  <2>1. t \in Tasks /\ Working(t) /\ \A u \in Tasks : u # t => task'[u] = task[u]
    BY <1>8, ConnectEffect DEF Working
  <2>2. \A u \in Tasks : u # t => ~Working(u)'
    BY <2>1 DEF InOrder, Working
  <2>3. \/ ~Working(t)'
        \/ /\ task'[t].cam = task[t].cam
           /\ task'[t].pc \in Making => task[t].cam \in assigned
    BY <1>8, <1>b, ConnectEffect DEF Working, Making, OneDevice, CameraFree
  <2>4. UNCHANGED <<startPc, assigned, startCams, startDevs, requests, devices>>
    BY <1>8, <1>b, ConnectEffect
  <2> QED
    BY <2>1, <2>2, <2>3, <2>4, CameraKept
<1>9. ASSUME NEW t \in Tasks, PutDevice(t) PROVE OneDevice'
  <2> DEFINE d == task[t].dev
             c == task[t].cam
  <2>1. /\ Working(t) /\ ~Working(t)' /\ \A u \in Tasks : u # t => task'[u] = task[u]
        /\ c \in Cameras /\ task[t].pc \in Making
        /\ UNCHANGED <<startPc, assigned, startCams, requests>>
    BY <1>9, PutEffect DEF Working, Making
  <2>2. \A u \in Tasks : ~Working(u)'
    BY <2>1 DEF InOrder, Working
  <2>3. \A u \in Tasks : CameraFree(u)'
    BY <2>2 DEF CameraFree, Working, Making
  <2>4. c \in assigned
    BY <2>1 DEF OneDevice, CameraFree
  <2>5. RequestTrue'
    BY <2>1 DEF OneDevice, RequestTrue
  <2>6. CASE t = "start"
    <3>1. devices' = devices /\ startDevs' = startDevs \cup {[cam |-> c, dev |-> d]}
      BY <1>9, <2>6, PutEffect
    <3>2. c \notin startCams /\ \A r \in startDevs : r.cam # c
      BY <2>1, <2>6 DEF OneDevice, CameraFree
    <3>3. StartAssigned'
      BY <2>1, <2>4, <3>1, <3>2 DEF OneDevice, StartAssigned
    <3>4. MapAssigned'
      BY <2>1, <3>1 DEF OneDevice, MapAssigned
    <3> QED
      BY <2>3, <2>5, <3>3, <3>4 DEF OneDevice
  <2>7. CASE t # "start"
    <3>1. startDevs' = startDevs /\ \A e \in Cameras : e # c => devices'[e] = devices[e]
      BY <1>9, <2>7, PutEffect
    <3>2. StartAssigned'
      BY <2>1, <3>1 DEF OneDevice, StartAssigned
    <3>3. MapAssigned'
      BY <2>1, <2>4, <3>1 DEF OneDevice, MapAssigned
    <3> QED
      BY <2>3, <2>5, <3>2, <3>3 DEF OneDevice
  <2> QED
    BY <2>6, <2>7
<1>10. CASE ConfigureCameras
  <2>1. /\ startPc = "create" /\ startPc' = "done" /\ startDevs' = {} /\ ~Working("start")
        /\ \A c \in Cameras : devices'[c] = devices[c] \/ \E r \in startDevs : r.cam = c
        /\ UNCHANGED <<assigned, requests, startCams, task>>
    BY <1>10, ConfigureEffect
  <2>2. \A u \in Tasks : ~Working(u)'
    BY <2>1 DEF InOrder, Working
  <2>3. \A u \in Tasks : CameraFree(u)'
    BY <2>2 DEF CameraFree, Working, Making
  <2>4. StartAssigned' /\ RequestTrue'
    BY <2>1 DEF OneDevice, StartAssigned, RequestTrue
  <2>5. MapAssigned'
    BY <2>1 DEF OneDevice, StartAssigned, MapAssigned
  <2> QED
    BY <2>3, <2>4, <2>5 DEF OneDevice
<1>11. CASE HandleCameraAdded
  <2> DEFINE c == Head(requests).cam
  <2>1. /\ requests # <<>> /\ Head(requests).kind = "added" /\ c \in Cameras
        /\ requests' = Tail(requests) /\ "handler" \in Tasks
        /\ UNCHANGED <<assigned, startPc, startCams, startDevs, devices>>
    BY <1>11, AddedEffect, NamedTasks
  <2>2. requests' = <<>> /\ c \in assigned /\ \A u \in Tasks : ~Working(u)
    BY <2>1, RequestFacts DEF InOrder, OneDevice, RequestTrue
  <2>3. ASSUME NEW u \in Tasks, u # "handler" PROVE CameraFree(u)'
    <3>1. ~Working(u)'
      BY <1>11, <2>2, <2>3, AddedEffect DEF Working
    <3> QED
      BY <3>1 DEF CameraFree, Working, Making
  <2>4. CASE task' = task
    <3>1. CameraFree("handler")'
      BY <2>1, <2>2, <2>4 DEF CameraFree, Working, Making
    <3> QED
      BY <2>1, <2>2, <2>3, <3>1 DEF OneDevice, StartAssigned, RequestTrue, MapAssigned
  <2>5. CASE /\ devices[c] = 0 /\ task'["handler"].pc = "storage" /\ task'["handler"].cam = c
    <3>1. CameraFree("handler")'
      BY <2>1, <2>2, <2>5 DEF CameraFree, Working, Making
    <3> QED
      BY <2>1, <2>2, <2>3, <3>1 DEF OneDevice, StartAssigned, RequestTrue, MapAssigned
  <2> QED
    BY <1>11, <2>4, <2>5, AddedEffect
<1>12. CASE HandleCameraReleased
  <2> DEFINE c == Head(requests).cam
  <2>1. /\ requests # <<>> /\ Head(requests).kind = "released" /\ c \in Cameras
        /\ requests' = Tail(requests) /\ "handler" \in Tasks
        /\ UNCHANGED <<assigned, startPc, startCams, startDevs>>
    BY <1>12, ReleasedEffect, NamedTasks
  <2>2. requests' = <<>> /\ \A u \in Tasks : ~Working(u)
    BY <2>1, RequestFacts DEF InOrder
  <2>3. ASSUME NEW u \in Tasks, u # "handler" PROVE CameraFree(u)'
    <3>1. ~Working(u)'
      BY <1>12, <2>2, <2>3, ReleasedEffect DEF Working
    <3> QED
      BY <3>1 DEF CameraFree, Working, Making
  <2>4. CameraFree("handler")'
    BY <1>12, ReleasedEffect DEF CameraFree, Making
  <2>5. StartAssigned' /\ RequestTrue'
    BY <2>1, <2>2 DEF OneDevice, StartAssigned, RequestTrue
  <2>6. MapAssigned'
    BY <1>12, ReleasedEffect DEF OneDevice, MapAssigned
  <2> QED
    BY <2>3, <2>4, <2>5, <2>6 DEF OneDevice
<1>13. CASE ReleaseDevice
  <2>1. /\ "handler" \in Tasks /\ Working("handler")
        /\ \A u \in Tasks : u # "handler" => task'[u] = task[u]
    BY <1>13, ReleaseEffect DEF Working
  <2>2. \A u \in Tasks : u # "handler" => ~Working(u)'
    BY <2>1 DEF InOrder, Working
  <2>3. \/ ~Working("handler")'
        \/ /\ task'["handler"].cam = task["handler"].cam
           /\ task'["handler"].pc \in Making => task["handler"].cam \in assigned
    BY <1>13, <1>b, ReleaseEffect DEF Working, Making, OneDevice, CameraFree
  <2>4. UNCHANGED <<startPc, assigned, startCams, startDevs, requests, devices>>
    BY <1>13, <1>b, ReleaseEffect
  <2> QED
    BY <2>1, <2>2, <2>3, <2>4, CameraKept
<1>14. CASE Close
  <2>1. /\ UNCHANGED <<assigned, requests, startPc, startCams, startDevs, task>> /\ AtRest
        /\ \A c \in Cameras : devices'[c] = 0
    BY <1>14, <1>b DEF Close
  <2>2. \A u \in Tasks : ~Working(u)'
    BY <2>1 DEF AtRest, InOrder, Working
  <2>3. \A u \in Tasks : CameraFree(u)'
    BY <2>2 DEF CameraFree, Working, Making
  <2>4. StartAssigned' /\ RequestTrue' /\ MapAssigned'
    BY <2>1 DEF OneDevice, StartAssigned, RequestTrue, MapAssigned
  <2> QED
    BY <2>3, <2>4 DEF OneDevice
<1>15. CASE CloseDevices
  <2>1. /\ UNCHANGED <<assigned, requests, startPc, startCams, startDevs, task>>
        /\ devices' = devices /\ closePc = "cleanup"
    BY <1>15, <1>b DEF CloseDevices
  <2>2. \A u \in Tasks : ~Working(u)'
    BY <2>1 DEF AtRest, InOrder, Working
  <2>3. \A u \in Tasks : CameraFree(u)'
    BY <2>2 DEF CameraFree, Working, Making
  <2>4. StartAssigned' /\ RequestTrue' /\ MapAssigned'
    BY <2>1 DEF OneDevice, StartAssigned, RequestTrue, MapAssigned
  <2> QED
    BY <2>3, <2>4 DEF OneDevice
<1>16. CASE UNCHANGED managerVars
  <2>1. UNCHANGED <<startPc, assigned, startCams, startDevs, requests, devices, task>>
    BY <1>16 DEF managerVars
  <2>2. \A u \in Tasks : CameraFree(u)'
    BY <2>1 DEF OneDevice, CameraFree, Working
  <2> QED
    BY <2>1, <2>2, AssignedKept DEF OneDevice
<1> QED
  BY <1>1, <1>2, <1>3, <1>4, <1>5, <1>6, <1>7, <1>8, <1>9, <1>10, <1>11, <1>12, <1>13,
     <1>14, <1>15, <1>16 DEF ManagerNext

\* A step that moves no device that is connected loses none.
LEMMA PlacesKept ==
  ASSUME NoneLost, UNCHANGED <<devices, startDevs, managerClosing, wired>>,
         \A u \in Tasks : task[u].pc \in {"put", "release"} =>
           task'[u].pc = task[u].pc /\ task'[u].dev = task[u].dev
  PROVE  NoneLost'
<1> SUFFICES ASSUME NEW d \in wired PROVE Placed(d)'
  BY DEF NoneLost
<1>1. Placed(d)
  BY DEF NoneLost
<1> QED
  BY <1>1 DEF Placed

\* When calls come in order a connected device stays where a release or close reaches
\* it.
LEMMA NoneLostStep ==
  ManagerTypes /\ TasksApart /\ Orderly /\ InOrder /\ OneDevice /\ NoneLost
    /\ [ManagerNext]_managerVars
    => NoneLost'
<1> SUFFICES ASSUME ManagerTypes, TasksApart, Orderly, InOrder, OneDevice, NoneLost,
      [ManagerNext]_managerVars PROVE NoneLost'
  OBVIOUS
<1>a. managerScene.cameras \subseteq Cameras /\ managerScene.callers \subseteq Callers
  BY ManagerSceneFacts
<1>b. ~ManagerFails /\ (Allowed => AtRest)
  BY OrderlyFacts
<1>c. 0 \notin wired
  BY DEF ManagerTypes
<1>1. ASSUME NEW c \in managerScene.cameras, Assign(c) PROVE NoneLost'
  <2>1. UNCHANGED <<task, devices, startDevs, managerClosing, wired>>
    BY <1>1 DEF Assign, HostChange
  <2> QED
    BY <2>1, PlacesKept
<1>2. ASSUME NEW c \in managerScene.cameras, ReleaseCamera(c) PROVE NoneLost'
  <2>1. UNCHANGED <<task, devices, startDevs, managerClosing, wired>>
    BY <1>2 DEF ReleaseCamera, HostChange
  <2> QED
    BY <2>1, PlacesKept
<1>3. ASSUME NEW c \in managerScene.cameras, StartCamera(c) PROVE NoneLost'
  <2>1. "start" \in Tasks /\ c \in Cameras /\ NewDevice("start", c) /\ ~Working("start")
    BY <1>3, <1>a, NamedTasks DEF StartCamera
  <2>2. /\ task["start"].pc \notin {"put", "release"}
        /\ \A u \in Tasks : u # "start" => task'[u] = task[u]
    BY <2>1, NewDeviceEffect DEF Working
  <2>3. UNCHANGED <<devices, startDevs, managerClosing, wired>>
    BY <1>3 DEF StartCamera
  <2> QED
    BY <2>2, <2>3, PlacesKept
<1>4. ASSUME NEW c \in managerScene.cameras, NEW t \in managerScene.callers, GetCamera(t, c)
      PROVE  NoneLost'
  <2>1. /\ t \in Tasks /\ task[t].pc \notin {"put", "release"}
        /\ \A u \in Tasks : u # t => task'[u] = task[u]
    BY <1>4, <1>a, GetCameraEffect
  <2>2. UNCHANGED <<devices, startDevs, managerClosing, wired>>
    BY <1>4, <1>a, GetCameraEffect
  <2> QED
    BY <2>1, <2>2, PlacesKept
<1>5. ASSUME NEW t \in Callers, HostAnswersList(t) PROVE NoneLost'
  <2>1. /\ t \in Tasks /\ task[t].pc \notin {"put", "release"}
        /\ \A u \in Tasks : u # t => task'[u] = task[u]
    BY <1>5, AnswerEffect
  <2>2. UNCHANGED <<devices, startDevs, managerClosing, wired>>
    BY <1>5, AnswerEffect
  <2> QED
    BY <2>1, <2>2, PlacesKept
<1>6. ASSUME NEW t \in Tasks, LookupStorage(t) PROVE NoneLost'
  <2>1. /\ t \in Tasks /\ task[t].pc \notin {"put", "release"}
        /\ \A u \in Tasks : u # t => task'[u] = task[u]
    BY <1>6, LookupEffect
  <2>2. UNCHANGED <<devices, startDevs, managerClosing, wired>>
    BY <1>6, LookupEffect
  <2> QED
    BY <2>1, <2>2, PlacesKept
<1>7. ASSUME NEW t \in Tasks, CreateCameraStorage(t) PROVE NoneLost'
  <2>1. /\ t \in Tasks /\ task[t].pc \notin {"put", "release"}
        /\ \A u \in Tasks : u # t => task'[u] = task[u]
    BY <1>7, CreateEffect
  <2>2. UNCHANGED <<devices, startDevs, managerClosing, wired>>
    BY <1>7, CreateEffect
  <2> QED
    BY <2>1, <2>2, PlacesKept
<1>8. ASSUME NEW t \in Tasks, ConnectDevice(t) PROVE NoneLost'
  <2>1. /\ task[t].pc = "connect" /\ task'[t].pc = "put" /\ task'[t].dev = task[t].dev
        /\ wired' = wired \cup {task[t].dev} /\ \A u \in Tasks : u # t => task'[u] = task[u]
        /\ UNCHANGED <<devices, startDevs, managerClosing>>
    BY <1>8, <1>b, ConnectEffect
  <2>2. Placed(task[t].dev)'
    BY <2>1 DEF Placed
  <2>3. ASSUME NEW d \in wired PROVE Placed(d)'
    <3>1. Placed(d)
      BY DEF NoneLost
    <3> QED
      BY <2>1, <3>1 DEF Placed
  <2> QED
    BY <2>1, <2>2, <2>3 DEF NoneLost
<1>9. ASSUME NEW t \in Tasks, PutDevice(t) PROVE NoneLost'
  <2> DEFINE e == task[t].dev
             c == task[t].cam
  <2>1. /\ c \in Cameras /\ Working(t) /\ \A u \in Tasks : u # t => task'[u] = task[u]
        /\ UNCHANGED <<managerClosing, wired>>
    BY <1>9, PutEffect DEF Working
  <2>2. devices[c] = 0
    BY <2>1 DEF OneDevice, CameraFree
  <2>3. startDevs \subseteq startDevs' /\ \A b \in Cameras : b # c => devices'[b] = devices[b]
    BY <1>9, PutEffect
  <2>4. (\E r \in startDevs' : r.dev = e) \/ devices'[c] = e
    <3>1. CASE t = "start"
      <4>1. [cam |-> c, dev |-> e] \in startDevs'
        BY <1>9, <3>1, PutEffect
      <4> QED
        BY <4>1
    <3>2. CASE t # "start"
      BY <1>9, <3>2, PutEffect
    <3> QED
      BY <3>1, <3>2
  <2>5. ASSUME NEW d \in wired PROVE Placed(d)'
    <3>1. Placed(d) /\ d # 0
      BY <1>c DEF NoneLost
    <3>2. CASE d = e
      BY <2>1, <2>4, <3>2 DEF Placed
    <3>3. CASE d # e
      BY <2>1, <2>2, <2>3, <3>1, <3>3 DEF Placed
    <3> QED
      BY <3>2, <3>3
  <2> QED
    BY <2>1, <2>5 DEF NoneLost
<1>10. CASE ConfigureCameras
  <2>1. /\ \A c \in Cameras :
             \/ devices'[c] = devices[c] /\ \A r \in startDevs : r.cam # c
             \/ \E r \in startDevs : r.cam = c /\ devices'[c] = r.dev
        /\ startPc = "create" /\ UNCHANGED <<managerClosing, wired, task>>
    BY <1>10, ConfigureEffect
  <2>2. \A c \in Cameras : devices[c] = 0
    BY <2>1 DEF InOrder
  <2>3. ASSUME NEW d \in wired PROVE Placed(d)'
    <3>1. Placed(d) /\ d # 0
      BY <1>c DEF NoneLost
    <3>2. CASE \E r \in startDevs : r.dev = d
      <4>1. PICK r \in startDevs : r.dev = d
        BY <3>2
      <4>2. r.cam \in Cameras
        BY DEF ManagerTypes
      <4>3. devices'[r.cam] = d
        BY <2>1, <4>1, <4>2 DEF OneDevice, StartAssigned
      <4> QED
        BY <4>2, <4>3 DEF Placed
    <3>3. CASE ~\E r \in startDevs : r.dev = d
      BY <2>1, <2>2, <3>1, <3>3 DEF Placed
    <3> QED
      BY <3>2, <3>3
  <2> QED
    BY <2>1, <2>3 DEF NoneLost
<1>11. CASE HandleCameraAdded
  <2>1. /\ "handler" \in Tasks /\ task["handler"].pc \notin {"put", "release"}
        /\ \A u \in Tasks : u # "handler" => task'[u] = task[u]
    BY <1>11, NamedTasks, AddedEffect DEF Working
  <2>2. UNCHANGED <<devices, startDevs, managerClosing, wired>>
    BY <1>11, NamedTasks, AddedEffect
  <2> QED
    BY <2>1, <2>2, PlacesKept
<1>12. CASE HandleCameraReleased
  <2> DEFINE c == Head(requests).cam
  <2>1. /\ "handler" \in Tasks /\ task["handler"].pc \notin {"put", "release"}
        /\ task'["handler"].pc = "release" /\ task'["handler"].dev = devices[c]
        /\ \A u \in Tasks : u # "handler" => task'[u] = task[u]
        /\ \A e \in Cameras : e # c => devices'[e] = devices[e]
        /\ UNCHANGED <<startDevs, managerClosing, wired>>
    BY <1>12, ReleasedEffect DEF Working
  <2> HIDE DEF c
  <2>2. ASSUME NEW d \in wired PROVE Placed(d)'
    <3>1. Placed(d)
      BY DEF NoneLost
    <3> QED
      BY <2>1, <3>1 DEF Placed
  <2> QED
    BY <2>1, <2>2 DEF NoneLost
<1>13. CASE ReleaseDevice
  <2>1. /\ wired' = wired \ {task["handler"].dev}
        /\ \A u \in Tasks : u # "handler" => task'[u] = task[u]
        /\ UNCHANGED <<devices, startDevs, managerClosing>>
    BY <1>13, ReleaseEffect
  <2>2. ASSUME NEW d \in wired' PROVE Placed(d)'
    <3>1. Placed(d) /\ d # task["handler"].dev
      BY <2>1, <2>2 DEF NoneLost
    <3> QED
      BY <2>1, <3>1 DEF Placed
  <2> QED
    BY <2>2 DEF NoneLost
<1>14. CASE Close
  <2>1. /\ closePc = "open" /\ managerClosing' = {devices[c] : c \in Cameras} \ {0}
        /\ UNCHANGED <<task, startDevs, wired>>
    BY <1>14 DEF Close
  <2>2. ASSUME NEW d \in wired PROVE Placed(d)'
    <3>1. Placed(d) /\ d # 0 /\ managerClosing = {}
      BY <1>c, <2>1 DEF NoneLost, InOrder
    <3> QED
      BY <2>1, <3>1 DEF Placed
  <2> QED
    BY <2>1, <2>2 DEF NoneLost
<1>15. CASE CloseDevices
  <2>1. wired' = wired \ managerClosing /\ UNCHANGED <<task, startDevs, devices>>
    BY <1>15 DEF CloseDevices
  <2>2. ASSUME NEW d \in wired' PROVE Placed(d)'
    <3>1. Placed(d) /\ d \notin managerClosing
      BY <2>1, <2>2 DEF NoneLost
    <3> QED
      BY <2>1, <3>1 DEF Placed
  <2> QED
    BY <2>2 DEF NoneLost
<1>16. CASE UNCHANGED managerVars
  <2>1. UNCHANGED <<task, devices, startDevs, managerClosing, wired>>
    BY <1>16 DEF managerVars
  <2> QED
    BY <2>1, PlacesKept
<1> QED
  BY <1>1, <1>2, <1>3, <1>4, <1>5, <1>6, <1>7, <1>8, <1>9, <1>10, <1>11, <1>12, <1>13,
     <1>14, <1>15, <1>16 DEF ManagerNext

\* A goroutine that goes on, when the storages stay as they are and the others rest or are
\* left alone.
LEMMA StorageKept ==
  ASSUME ManagerTypes, OneStorage, NEW t \in Tasks, used' \in Nat, used' >= used,
         UNCHANGED <<storages, served, uses, startDevs, devices>>,
         \A u \in Tasks : u # t => task'[u] = task[u], TaskServes(t)'
  PROVE  OneStorage'
<1>1. uses' \in [Devices -> 0 .. used']
  <2>1. 0 .. used \subseteq 0 .. used' /\ uses' \in [Devices -> 0 .. used]
    BY DEF OneStorage, ManagerTypes
  <2> QED
    BY <2>1
<1>2. \A u \in Tasks : u # t => TaskServes(u)'
  BY DEF OneStorage, TaskServes, Serves
<1>3. ReadyServes'
  BY DEF OneStorage, ReadyServes, Serves
<1> QED
  BY <1>1, <1>2, <1>3 DEF OneStorage

\* There is a number for every device.
LEMMA RoomFacts ==
  ASSUME ManagerTypes, DeviceRoom
  PROVE  used <= MaxDevices /\ 1 .. used \subseteq Devices
<1>1. used <= MaxDevices
  <2> DEFINE C == Cardinality(managerScene.cameras)
             K == Cardinality(managerScene.callers)
  <2>1. used <= C + deviceChanges + K
    BY WaitingFacts DEF DeviceRoom
  <2>2. deviceChanges <= managerScene.maxChanges /\ C + managerScene.maxChanges + K <= MaxDevices
    BY ManagerSceneFacts DEF ManagerTypes, MaxDeviceChanges
  <2>3. /\ C \in Nat /\ K \in Nat /\ used \in Nat /\ deviceChanges \in Nat
        /\ managerScene.maxChanges \in Nat /\ MaxDevices \in Nat
    BY WaitingFacts, ManagerSceneFacts, ManagerScenesAssumption
  <2> HIDE DEF C, K
  <2> QED
    BY <2>1, <2>2, <2>3
<1> QED
  BY <1>1, ManagerScenesAssumption DEF ManagerTypes, Devices

\* When calls come in order a device keeps the storage of its camera.
LEMMA OneStorageStep ==
  ManagerTypes /\ TasksApart /\ OnePlace /\ DeviceRoom /\ StoragesApart /\ Orderly
    /\ InOrder /\ OneDevice /\ OneStorage /\ [ManagerNext]_managerVars
    => OneStorage'
<1> SUFFICES ASSUME ManagerTypes, TasksApart, OnePlace, DeviceRoom, StoragesApart, Orderly,
      InOrder, OneDevice, OneStorage, [ManagerNext]_managerVars PROVE OneStorage'
  OBVIOUS
<1>a. managerScene.cameras \subseteq Cameras /\ managerScene.callers \subseteq Callers
  BY ManagerSceneFacts
<1>b. ~ManagerFails /\ (Allowed => AtRest)
  BY OrderlyFacts
<1>c. 1 .. used \subseteq Devices /\ \A e \in Cameras : devices[e] # 0 => devices[e] \in Devices
  BY RoomFacts DEF ManagerTypes
<1>1. ASSUME NEW c \in managerScene.cameras, Assign(c) PROVE OneStorage'
  <2>1. UNCHANGED <<task, used, storages, served, uses, startDevs, devices>>
    BY <1>1 DEF Assign, HostChange
  <2> QED
    BY <2>1 DEF OneStorage, TaskServes, ReadyServes, Serves
<1>2. ASSUME NEW c \in managerScene.cameras, ReleaseCamera(c) PROVE OneStorage'
  <2>1. UNCHANGED <<task, used, storages, served, uses, startDevs, devices>>
    BY <1>2 DEF ReleaseCamera, HostChange
  <2> QED
    BY <2>1 DEF OneStorage, TaskServes, ReadyServes, Serves
<1>3. ASSUME NEW c \in managerScene.cameras, StartCamera(c) PROVE OneStorage'
  <2>1. "start" \in Tasks /\ c \in Cameras /\ NewDevice("start", c)
    BY <1>3, <1>a, NamedTasks DEF StartCamera
  <2>2. /\ used' \in Nat /\ used' >= used /\ task'["start"].pc = "storage"
        /\ \A u \in Tasks : u # "start" => task'[u] = task[u]
    BY <2>1, NewDeviceEffect DEF ManagerTypes
  <2>3. UNCHANGED <<storages, served, uses, startDevs, devices>>
    BY <1>3 DEF StartCamera
  <2>4. TaskServes("start")'
    BY <2>2 DEF TaskServes
  <2> QED
    BY <2>1, <2>2, <2>3, <2>4, StorageKept
<1>4. ASSUME NEW c \in managerScene.cameras, NEW t \in managerScene.callers, GetCamera(t, c)
      PROVE  OneStorage'
  <2>1. /\ t \in Tasks /\ used \in Nat /\ used' \in {used, used + 1}
        /\ \A u \in Tasks : u # t => task'[u] = task[u]
        /\ UNCHANGED <<storages, served, uses, startDevs, devices>>
    BY <1>4, <1>a, GetCameraEffect DEF ManagerTypes
  <2>2. used' \in Nat /\ used' >= used
    BY <2>1
  <2>3. TaskServes(t)'
    BY <1>4, <1>a, GetCameraEffect DEF TaskServes
  <2> QED
    BY <2>1, <2>2, <2>3, StorageKept
<1>5. ASSUME NEW t \in Callers, HostAnswersList(t) PROVE OneStorage'
  <2>1. /\ t \in Tasks /\ used \in Nat /\ used' \in {used, used + 1}
        /\ \A u \in Tasks : u # t => task'[u] = task[u]
        /\ UNCHANGED <<storages, served, uses, startDevs, devices>>
    BY <1>5, AnswerEffect DEF ManagerTypes
  <2>2. used' \in Nat /\ used' >= used
    BY <2>1
  <2>3. TaskServes(t)'
    BY <1>5, AnswerEffect DEF TaskServes
  <2> QED
    BY <2>1, <2>2, <2>3, StorageKept
<1>6. ASSUME NEW t \in Tasks, LookupStorage(t) PROVE OneStorage'
  <2>1. /\ t \in Tasks /\ used \in Nat /\ used' \in {used, used + 1}
        /\ \A u \in Tasks : u # t => task'[u] = task[u]
        /\ UNCHANGED <<storages, served, uses, startDevs, devices>>
    BY <1>6, LookupEffect DEF ManagerTypes
  <2>2. used' \in Nat /\ used' >= used
    BY <2>1
  <2>3. TaskServes(t)'
    BY <1>6, LookupEffect DEF TaskServes
  <2> QED
    BY <2>1, <2>2, <2>3, StorageKept
<1>7. ASSUME NEW t \in Tasks, CreateCameraStorage(t) PROVE OneStorage'
  <2> DEFINE d == task[t].dev
             c == task[t].cam
             o == IF task[t].obj = 0 THEN d ELSE task[t].obj
  <2>1. /\ task[t].pc = "create" /\ c \in Cameras /\ d \in 1 .. used /\ o \in 1 .. used
        /\ storages'[c] = IF task[t].obj = 0 THEN d ELSE storages[c]
        /\ \A e \in Cameras : e # c => storages'[e] = storages[e]
        /\ \A u \in Tasks : u # t => task'[u] = task[u]
        /\ task'[t].pc = "connect" /\ task'[t].cam = c /\ task'[t].dev = d
        /\ served' = served \cup {o} /\ uses' = [uses EXCEPT ![d] = o]
        /\ UNCHANGED <<used, startDevs, devices>>
    BY <1>7, <1>b, CreateEffect
  <2>2. storages'[c] = o /\ o # 0 /\ o \in 0 .. used /\ d # 0
    BY <2>1 DEF OneStorage, TaskServes
  <2>3. d \in Devices
    <3>1. used <= MaxDevices /\ used \in Nat /\ MaxDevices \in Nat
      BY RoomFacts, ManagerScenesAssumption DEF ManagerTypes
    <3> QED
      BY <2>1, <3>1 DEF Devices
  <2> HIDE DEF c, d, o
  <2>4. /\ uses' \in [Devices -> 0 .. used'] /\ uses'[d] = o
        /\ \A e \in Devices : e # d => uses'[e] = uses[e]
    BY <2>1, <2>2, <2>3 DEF OneStorage
  <2>5. Serves(task[t].cam, task[t].dev)'
    BY <2>1, <2>2, <2>4 DEF Serves
  <2>6. \A u \in Tasks : u # t => ~Working(u)
    BY <2>1 DEF InOrder, Working
  <2>7. \A u \in Tasks : TaskServes(u)'
    BY <2>1, <2>5, <2>6 DEF TaskServes, Working
  <2>8. ASSUME NEW e \in Cameras, NEW x \in Devices, e # c, x # d, Serves(e, x) PROVE Serves(e, x)'
    BY <2>1, <2>4, <2>8 DEF Serves
  <2>9. Working(t) /\ devices[c] = 0
    BY <2>1 DEF OneDevice, CameraFree, Working, c
  <2>10. ASSUME NEW e \in Cameras, devices[e] # 0 PROVE Serves(e, devices[e])'
    <3>1. e # c /\ devices[e] # d /\ Serves(e, devices[e])
      BY <2>2, <2>9, <2>10 DEF OnePlace, HandsOnly, OneStorage, ReadyServes, d
    <3>2. devices[e] \in Devices
      BY <1>c, <2>10
    <3> QED
      BY <2>1, <2>8, <3>1, <3>2
  <2>11. ASSUME NEW r \in startDevs PROVE Serves(r.cam, r.dev)'
    <3>1. t = "start"
      BY <2>9 DEF InOrder
    <3>2. r.cam # c /\ r.dev # d /\ Serves(r.cam, r.dev)
      BY <2>2, <2>9, <3>1 DEF OnePlace, HandsOnly, OneDevice, CameraFree, OneStorage,
         ReadyServes, c, d
    <3>3. r.cam \in Cameras /\ r.dev \in Devices
      BY <1>c DEF ManagerTypes
    <3> QED
      BY <2>8, <3>2, <3>3
  <2>12. ReadyServes'
    BY <2>1, <2>10, <2>11 DEF ReadyServes
  <2> QED
    BY <2>4, <2>7, <2>12 DEF OneStorage
<1>8. ASSUME NEW t \in Tasks, ConnectDevice(t) PROVE OneStorage'
  <2>1. /\ t \in Tasks /\ used \in Nat /\ used' \in {used, used + 1}
        /\ \A u \in Tasks : u # t => task'[u] = task[u]
        /\ UNCHANGED <<storages, served, uses, startDevs, devices>>
    BY <1>8, ConnectEffect DEF ManagerTypes
  <2>2. used' \in Nat /\ used' >= used
    BY <2>1
  <2>3. TaskServes(t)'
    BY <1>8, <1>b, ConnectEffect DEF OneStorage, TaskServes, Serves
  <2> QED
    BY <2>1, <2>2, <2>3, StorageKept
<1>9. ASSUME NEW t \in Tasks, PutDevice(t) PROVE OneStorage'
  <2> DEFINE d == task[t].dev
             c == task[t].cam
  <2>1. /\ task[t].pc = "put" /\ c \in Cameras /\ task'[t].pc \in {"done", "idle"}
        /\ \A u \in Tasks : u # t => task'[u] = task[u]
        /\ UNCHANGED <<used, storages, served, uses>>
    BY <1>9, PutEffect
  <2>2. Serves(c, d)
    BY <2>1 DEF OneStorage, TaskServes
  <2>3. \A u \in Tasks : TaskServes(u)'
    BY <2>1 DEF OneStorage, TaskServes, Serves
  <2>4. /\ \A r \in startDevs' : r \in startDevs \/ (r.cam = c /\ r.dev = d)
        /\ \A e \in Cameras : devices'[e] = devices[e] \/ (e = c /\ devices'[e] = d)
    BY <1>9, PutEffect
  <2> HIDE DEF c, d
  <2>5. ReadyServes'
    BY <2>1, <2>2, <2>4 DEF OneStorage, ReadyServes, Serves
  <2> QED
    BY <2>1, <2>3, <2>5 DEF OneStorage
<1>10. CASE ConfigureCameras
  <2>1. /\ \A c \in Cameras :
             devices'[c] = devices[c] \/ \E r \in startDevs : r.cam = c /\ devices'[c] = r.dev
        /\ startDevs' = {} /\ UNCHANGED <<task, used, storages, served, uses>>
    BY <1>10, ConfigureEffect
  <2>2. \A u \in Tasks : TaskServes(u)'
    BY <2>1 DEF OneStorage, TaskServes, Serves
  <2>3. ReadyServes'
    BY <2>1 DEF OneStorage, ReadyServes, Serves
  <2> QED
    BY <2>1, <2>2, <2>3 DEF OneStorage
<1>11. CASE HandleCameraAdded
  <2>1. /\ "handler" \in Tasks /\ used \in Nat /\ used' \in {used, used + 1}
        /\ \A u \in Tasks : u # "handler" => task'[u] = task[u]
        /\ UNCHANGED <<storages, served, uses, startDevs, devices>>
    BY <1>11, NamedTasks, AddedEffect DEF ManagerTypes
  <2>2. used' \in Nat /\ used' >= used
    BY <2>1
  <2>3. TaskServes("handler")'
    <3>1. CASE task' = task
      BY <2>1, <3>1 DEF OneStorage, TaskServes, Serves
    <3>2. CASE task'["handler"].pc = "storage"
      BY <3>2 DEF TaskServes
    <3> QED
      BY <1>11, <3>1, <3>2, AddedEffect
  <2> QED
    BY <2>1, <2>2, <2>3, StorageKept
<1>12. CASE HandleCameraReleased
  <2>1. /\ task'["handler"].pc = "release" /\ \A u \in Tasks : u # "handler" => task'[u] = task[u]
        /\ \A e \in Cameras : devices'[e] \in {0, devices[e]}
        /\ UNCHANGED <<startDevs, used, storages, served, uses>>
    BY <1>12, ReleasedEffect
  <2>2. \A u \in Tasks : TaskServes(u)'
    BY <2>1 DEF OneStorage, TaskServes, Serves
  <2>3. ReadyServes'
    BY <2>1 DEF OneStorage, ReadyServes, Serves
  <2> QED
    BY <2>1, <2>2, <2>3 DEF OneStorage
<1>13. CASE ReleaseDevice
  <2> DEFINE c == task["handler"].cam
  <2>1. /\ "handler" \in Tasks /\ task["handler"].pc = "release" /\ task'["handler"].pc = "idle"
        /\ \A u \in Tasks : u # "handler" => task'[u] = task[u]
        /\ served' = served \ {storages[c]}
        /\ UNCHANGED <<used, devices, startDevs, storages, uses>>
    BY <1>13, ReleaseEffect
  <2>2. Working("handler") /\ c \in Cameras
    BY <2>1 DEF Working, TasksApart, TaskApart
  <2>3. devices[c] = 0 /\ startDevs = {} /\ \A u \in Tasks : u # "handler" => ~Working(u)
    BY <2>1, <2>2 DEF OneDevice, CameraFree, InOrder
  <2> HIDE DEF c
  <2>4. \A u \in Tasks : TaskServes(u)'
    BY <2>1, <2>3 DEF TaskServes, Working
  <2>5. \A e \in Cameras : e # c /\ storages[e] # 0 => storages[e] # storages[c]
    BY <2>2 DEF StoragesApart
  <2>6. ReadyServes'
    BY <2>1, <2>3, <2>5 DEF OneStorage, ReadyServes, Serves
  <2> QED
    BY <2>1, <2>4, <2>6 DEF OneStorage
<1>14. CASE Close
  <2>1. /\ UNCHANGED <<task, used, startDevs, storages, served, uses>>
        /\ \A c \in Cameras : devices'[c] = 0
    BY <1>14 DEF Close
  <2> QED
    BY <2>1 DEF OneStorage, TaskServes, ReadyServes, Serves
<1>15. CASE CloseDevices
  <2>1. closePc = "cleanup" /\ UNCHANGED <<task, used, startDevs, devices, storages, uses>>
    BY <1>15 DEF CloseDevices
  <2>2. /\ startDevs = {} /\ \A c \in Cameras : devices[c] = 0
        /\ \A u \in Tasks : ~Working(u)
    BY <2>1 DEF InOrder
  <2>3. \A u \in Tasks : TaskServes(u)'
    BY <2>1, <2>2 DEF TaskServes, Working
  <2>4. ReadyServes'
    BY <2>1, <2>2 DEF ReadyServes
  <2> QED
    BY <2>1, <2>3, <2>4 DEF OneStorage
<1>16. CASE UNCHANGED managerVars
  <2>1. UNCHANGED <<task, used, storages, served, uses, startDevs, devices>>
    BY <1>16 DEF managerVars
  <2> QED
    BY <2>1 DEF OneStorage, TaskServes, ReadyServes, Serves
<1> QED
  BY <1>1, <1>2, <1>3, <1>4, <1>5, <1>6, <1>7, <1>8, <1>9, <1>10, <1>11, <1>12, <1>13,
     <1>14, <1>15, <1>16 DEF ManagerNext

\* The inductive invariant holds when the plugin starts.
LEMMA ManagerStarts == ManagerInit => ManagerIInv
<1> SUFFICES ASSUME ManagerInit PROVE ManagerIInv
  OBVIOUS
<1>1. /\ managerScene \in ManagerScenes /\ assigned \subseteq managerScene.cameras
      /\ deviceChanges = 0 /\ requests = <<>> /\ startPc = "create" /\ startCams = assigned
      /\ startDevs = {} /\ used = 0 /\ wired = {} /\ served = {} /\ closePc = "open"
      /\ managerClosing = {} /\ task = [t \in Tasks |-> Idle]
      /\ devices = [c \in Cameras |-> 0] /\ storages = [c \in Cameras |-> 0]
      /\ uses = [d \in Devices |-> 0]
  BY DEF ManagerInit
<1>2. \A t \in Tasks : task[t].pc = "idle" /\ task[t].dev = 0
  BY <1>1 DEF Idle
<1>3. ManagerTypes
  <2>1. Idle \in TaskRecord(0) /\ requests \in Seq([kind : {"added", "released"}, cam : Cameras])
    BY <1>1 DEF Idle, TaskRecord
  <2>2. task \in [Tasks -> TaskRecord(used)]
    BY <1>1, <2>1
  <2>3. devices \in [Cameras -> 0 .. used] /\ storages \in [Cameras -> 0 .. used]
    BY <1>1
  <2>4. deviceChanges <= MaxDeviceChanges
    BY <1>1, ManagerScenesAssumption DEF ManagerSceneType, MaxDeviceChanges
  <2> QED
    BY <1>1, <2>1, <2>2, <2>3, <2>4 DEF ManagerTypes
<1>4. TasksApart /\ ReadyIsWired
  BY <1>1, <1>2 DEF TasksApart, TaskApart, Making, ReadyIsWired
<1>5. OnePlace
  BY <1>1, <1>2 DEF OnePlace, HandsApart, HandsOnly, MapApart, StartApart
<1>6. DeviceRoom
  <2>1. Waiting \subseteq managerScene.callers
    BY DEF Waiting
  <2>2. /\ Cardinality(Waiting) <= Cardinality(managerScene.callers)
        /\ Cardinality(startCams) <= Cardinality(managerScene.cameras)
    BY <1>1, <1>3, <2>1, ManagerSceneFacts, FS_Subset
  <2>3. Len(requests) = 0
    BY <1>1, EmptySeq
  <2> QED
    BY <1>1, <1>3, <2>2, <2>3, WaitingFacts DEF DeviceRoom
<1>7. StoragesApart
  BY <1>1, <1>2 DEF StoragesApart
<1>8. \A t \in Tasks : ~Working(t)
  BY <1>2 DEF Working
<1>9. InOrder
  BY <1>1, <1>8, EmptySeq DEF InOrder
<1>10. OneDevice
  BY <1>1, <1>2 DEF OneDevice, CameraFree, Working, Making, StartAssigned, RequestTrue, MapAssigned
<1>11. NoneLost /\ OneStorage
  BY <1>1, <1>2 DEF NoneLost, OneStorage, TaskServes, ReadyServes
<1> QED
  BY <1>3, <1>4, <1>5, <1>6, <1>7, <1>9, <1>10, <1>11 DEF ManagerIInv, DevicesIInv

\* The surroundings stay the same.
LEMMA ManagerSceneKept == [ManagerNext]_managerVars => managerScene' = managerScene
BY DEF ManagerNext, managerVars, Assign, ReleaseCamera, HostChange, StartCamera, GetCamera,
   HostAnswersList, LookupStorage, CreateCameraStorage, ConnectDevice, PutDevice, ConfigureCameras,
   HandleCameraAdded, HandleCameraReleased, ReleaseDevice, Close, CloseDevices

\* Every step keeps the inductive invariant.
LEMMA ManagerInductive == ManagerIInv /\ [ManagerNext]_managerVars => ManagerIInv'
<1> SUFFICES ASSUME ManagerIInv, [ManagerNext]_managerVars PROVE ManagerIInv'
  OBVIOUS
<1>1. ManagerTypes /\ TasksApart /\ OnePlace /\ ReadyIsWired /\ DeviceRoom /\ StoragesApart
  BY DEF ManagerIInv, DevicesIInv
<1>2. DevicesIInv'
  BY <1>1, ManagerTypesStep, TasksApartStep, OnePlaceStep, ReadyIsWiredStep DEF DevicesIInv
<1>3. DeviceRoom' /\ StoragesApart'
  BY <1>1, DeviceRoomStep, StoragesApartStep
<1>4. ASSUME Orderly' PROVE InOrder' /\ OneDevice' /\ NoneLost' /\ OneStorage'
  <2>1. Orderly
    BY <1>4, ManagerSceneKept DEF Orderly, ManagerEnv
  <2>2. InOrder /\ OneDevice /\ NoneLost /\ OneStorage
    BY <2>1 DEF ManagerIInv
  <2>3. InOrder' /\ OneDevice' /\ NoneLost'
    BY <1>1, <2>1, <2>2, InOrderStep, OneDeviceStep, NoneLostStep
  <2>4. OneStorage'
    BY <1>1, <2>1, <2>2, OneStorageStep
  <2> QED
    BY <2>3, <2>4
<1> QED
  BY <1>2, <1>3, <1>4 DEF ManagerIInv

\* manager_device.go: whatever the map of devices holds is connected, for any number of
\* cameras, callers, requests and failures in any interleaving; and when calls come in order
\* every connected device is in the map at rest, under a camera that is assigned.
THEOREM DevicesLive == ManagerSpec => []MapHoldsLiveDevices
<1>1. ManagerIInv => MapHoldsLiveDevices
  <2> SUFFICES ASSUME ManagerIInv PROVE MapHoldsLiveDevices
    OBVIOUS
  <2>1. ManagerTypes /\ \A c \in Cameras : devices[c] # 0 => devices[c] \in wired
    BY DEF ManagerIInv, DevicesIInv, ReadyIsWired
  <2>2. ASSUME Orderly, AtRest
        PROVE  /\ wired = {devices[c] : c \in Cameras} \ {0}
               /\ \A c \in Cameras \ assigned : devices[c] = 0
    <3>1. InOrder /\ OneDevice /\ NoneLost
      BY <2>2 DEF ManagerIInv
    <3>2. /\ requests = <<>> /\ startDevs = {} /\ managerClosing = {}
          /\ \A t \in Tasks : task[t].pc \notin {"put", "release"}
      BY <2>2, <3>1 DEF AtRest, InOrder, Working
    <3>3. ASSUME NEW d \in wired PROVE d # 0 /\ \E c \in Cameras : devices[c] = d
      <4>1. Placed(d)
        BY <3>1 DEF NoneLost
      <4>2. d # 0
        BY <2>1 DEF ManagerTypes
      <4> QED
        BY <3>2, <4>1, <4>2 DEF Placed
    <3>4. \A c \in Cameras \ assigned : devices[c] = 0
      BY <3>1, <3>2 DEF OneDevice, MapAssigned
    <3> QED
      BY <2>1, <3>3, <3>4
  <2> QED
    BY <2>1, <2>2 DEF MapHoldsLiveDevices
<1> QED
  BY <1>1, ManagerStarts, ManagerInductive, PTL DEF ManagerSpec

\* storage_controller.go: when calls come in order the device in the map uses the storage that
\* the controller has for its camera, also after the camera was released and came back, and at
\* rest the host reaches that storage.
THEOREM StoragesServed == ManagerSpec => []StorageServed
<1>1. ManagerIInv => StorageServed
  BY DEF ManagerIInv, OneStorage, ReadyServes, Serves, StorageServed
<1> QED
  BY <1>1, ManagerStarts, ManagerInductive, PTL DEF ManagerSpec

=============================================================================
