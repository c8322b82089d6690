--------------------------- MODULE SensorBinding ----------------------------
(***************************************************************************)
(* The owner side of the SensorManager (src/go/manager_sensor.go and the   *)
(* lifecycle part of sensor_base.go): the runtime sensors a plugin builds  *)
(* for the records the user adopted, bound to them at startup and on       *)
(* sensor:adopted, unbound on sensor:deleted and on close.  Binds run in   *)
(* goroutines of their own (startup and adoptOwn), so do OnStart and       *)
(* OnStop.  An instance is one runtime sensor object.                      *)
(***************************************************************************)
EXTENDS Naturals, Sequences, FiniteSets

CONSTANTS
  Records,      \* ids of adopted sensor records
  MaxInstances, \* bound: runtime sensors built during a behaviour
  Scenes        \* surroundings in which the plugin runs, see SceneType

VARIABLES
  scene,        \* the surroundings of this behaviour, never changed
  records,      \* records the host has
  events,       \* registry events received and not handled yet
  changes,      \* adoptions and deletions so far
  subscribed,   \* m.unsubGlobal # nil
  startPc,      \* where configureAdoptedSensors is
  startRecs,    \* records it still has to bind
  startInst,    \* instances its WaitGroup counts
  inst,         \* the bind goroutine of each instance and its record
  slots,        \* registerSlots in use
  owned,        \* m.owned: an instance or 0, by record
  cleanups,     \* m.cleanups: the instance the closure belongs to or 0
  handlers,     \* instances with an RPC handler
  feeds,        \* instances with a backend subscription
  storage,      \* instances whose storage is set
  active,       \* instances whose BaseSensor is active
  due,          \* lifecycle goroutines that have not run yet, by instance
  ran,          \* how often OnStart and OnStop ran, by instance
  unbinding,    \* the instance the event handler is tearing down, or 0
  closed,       \* close() ran
  closing       \* instances it still has to tear down

wireVars == <<handlers, feeds, storage>>
lifeVars == <<active, due, ran>>
startVars == <<startPc, startRecs, startInst>>
vars == <<scene, records, events, changes, subscribed, startVars, inst, slots, owned,
          cleanups, wireVars, lifeVars, unbinding, closed, closing>>

\* overlap: records change while a bind of them, or the start, is under way;
\* fail: calls of the host and of the plugin fail; close: the manager is
\* closed; lateClose: it is closed while binds are under way.
EnvKinds == {"overlap", "fail", "close", "lateClose"}

\* A scene says what the surroundings do, which records the user adopts and
\* deletes, how many slots registerSlots has, and bounds those changes.
SceneType == [env : SUBSET EnvKinds, records : SUBSET Records,
              maxSlots : Nat \ {0}, maxChanges : Nat]

ASSUME RecordsAssumption == IsFiniteSet(Records) /\ MaxInstances \in Nat
ASSUME ScenesAssumption ==
  /\ Scenes \subseteq SceneType
  /\ \A c \in Scenes : Cardinality(c.records) + c.maxChanges <= MaxInstances

Env == scene.env
MaxSlots == scene.maxSlots
MaxChanges == scene.maxChanges

\* Enough for the start and for every adoption.
Instances == 1 .. MaxInstances

\* The user's changes and the close come one after the other.
Orderly == Env \cap {"overlap", "lateClose"} = {}

Phases == {"build", "slot", "register", "expose", "subscribe", "publish", "activate"}
Binding == {i \in Instances : inst[i].pc \in Phases}
Fresh == CHOOSE i \in Instances : inst[i].pc = "free"

Fails == "fail" \in Env

-----------------------------------------------------------------------------
(* The host (external)                                                      *)

\* Without "overlap" nothing else is under way when a record changes.
HostChange(r) ==
  /\ changes < MaxChanges
  /\ "overlap" \in Env \/ (startPc = "done" /\ Binding = {} /\ events = <<>> /\ unbinding = 0)
  /\ changes' = changes + 1
  /\ UNCHANGED <<scene, subscribed, startVars, inst, slots, owned, cleanups,
                 wireVars, lifeVars, unbinding, closed, closing>>

Adopt(r) ==
  /\ HostChange(r)
  /\ r \notin records
  /\ records' = records \cup {r}
  /\ events' = IF subscribed THEN Append(events, [kind |-> "adopted", rec |-> r]) ELSE events

Delete(r) ==
  /\ HostChange(r)
  /\ r \in records
  /\ records' = records \ {r}
  /\ events' = IF subscribed THEN Append(events, [kind |-> "deleted", rec |-> r]) ELSE events

-----------------------------------------------------------------------------
(* configureAdoptedSensors                                                  *)

\* ownAdoptedRecords; an error ends it.
OwnAdoptedRecords ==
  /\ startPc = "start"
  /\ \/ startPc' = "bind" /\ startRecs' = records
     \/ Fails /\ startPc' = "done" /\ UNCHANGED startRecs
  /\ UNCHANGED <<scene, records, events, changes, subscribed, startInst, inst, slots,
                 owned, cleanups, wireVars, lifeVars, unbinding, closed, closing>>

\* A record the plugin built a sensor for gets a bind goroutine, unless it is
\* owned already; a record it built none for stays disconnected.
BindAtStart(r) ==
  /\ startPc = "bind"
  /\ r \in startRecs
  /\ startRecs' = startRecs \ {r}
  /\ \/ /\ owned[r] = 0
        /\ inst' = [inst EXCEPT ![Fresh] = [pc |-> "slot", rec |-> r]]
        /\ startInst' = startInst \cup {Fresh}
     \/ (owned[r] # 0 \/ Fails) /\ UNCHANGED <<inst, startInst>>
  /\ UNCHANGED <<scene, records, events, changes, subscribed, startPc, slots, owned,
                 cleanups, wireVars, lifeVars, unbinding, closed, closing>>

\* wg.Wait
StartDone ==
  /\ startPc = "bind"
  /\ startRecs = {}
  /\ \A i \in startInst : inst[i].pc = "ended"
  /\ startPc' = "done"
  /\ UNCHANGED <<scene, records, events, changes, subscribed, startRecs, startInst,
                 inst, slots, owned, cleanups, wireVars, lifeVars, unbinding, closed, closing>>

-----------------------------------------------------------------------------
(* bindAdopted                                                              *)

At(i, pc) == inst' = [inst EXCEPT ![i].pc = pc]

\* A slip: an error path that does not give the slot back.
GiveUpWithSlot(i) == At(i, "ended") /\ UNCHANGED slots

\* An error of bind: the deferred receive gives the slot back.
GiveUp(i) == At(i, "ended") /\ slots' = slots - 1

\* OnSensorAdopted builds the sensor, or fails.
BuildSensor(i) ==
  /\ inst[i].pc = "build"
  /\ At(i, "slot") \/ (Fails /\ At(i, "ended"))
  /\ UNCHANGED <<scene, records, events, changes, subscribed, startVars, slots, owned,
                 cleanups, wireVars, lifeVars, unbinding, closed, closing>>

\* registerSlots <- struct{}{}
AcquireSlot(i) ==
  /\ inst[i].pc = "slot"
  /\ slots < MaxSlots
  /\ slots' = slots + 1
  /\ At(i, "register")
  /\ UNCHANGED <<scene, records, events, changes, subscribed, startVars, owned,
                 cleanups, wireVars, lifeVars, unbinding, closed, closing>>

\* ensureGlobalSubscription, the storage, registerSensor: the host refuses a
\* record it does not have.
RegisterSensor(i) ==
  /\ inst[i].pc = "register"
  /\ \/ /\ inst[i].rec \in records
        /\ At(i, "expose") /\ subscribed' = TRUE
        /\ storage' = storage \cup {i} /\ UNCHANGED slots
     \/ /\ inst[i].rec \notin records \/ Fails
        /\ GiveUp(i) /\ subscribed' = TRUE /\ storage' = storage \cup {i}
     \/ Fails /\ GiveUp(i) /\ UNCHANGED <<subscribed, storage>>
  /\ UNCHANGED <<scene, records, events, changes, startVars, owned, cleanups, handlers,
                 feeds, lifeVars, unbinding, closed, closing>>

\* RegisterHandler of the sensor's RPC endpoint.
ExposeSensor(i) ==
  /\ inst[i].pc = "expose"
  /\ \/ At(i, "subscribe") /\ handlers' = handlers \cup {i} /\ UNCHANGED slots
     \/ Fails /\ GiveUp(i) /\ UNCHANGED handlers
  /\ UNCHANGED <<scene, records, events, changes, subscribed, startVars, owned,
                 cleanups, feeds, storage, lifeVars, unbinding, closed, closing>>

\* The backend subscription; without it only host-side writes are lost.
SubscribeSensor(i) ==
  /\ inst[i].pc = "subscribe"
  /\ At(i, "publish")
  /\ feeds' = feeds \cup {i} \/ (Fails /\ UNCHANGED feeds)
  /\ UNCHANGED <<scene, records, events, changes, subscribed, startVars, slots, owned,
                 cleanups, handlers, storage, lifeVars, unbinding, closed, closing>>

\* The maps, under m.mu.
Publish(i) ==
  /\ inst[i].pc = "publish"
  /\ At(i, "activate")
  /\ owned' = [owned EXCEPT ![inst[i].rec] = i]
  /\ cleanups' = [cleanups EXCEPT ![inst[i].rec] = i]
  /\ UNCHANGED <<scene, records, events, changes, subscribed, startVars, slots,
                 wireVars, lifeVars, unbinding, closed, closing>>

\* setActiveWithLifecycle(s, true), outside m.mu; then the slot is given back.
Activate(i) ==
  /\ inst[i].pc = "activate"
  /\ At(i, "ended")
  /\ slots' = slots - 1
  /\ IF i \in active THEN UNCHANGED <<active, due>>
     ELSE active' = active \cup {i} /\ due' = [due EXCEPT ![i] = @ \cup {"start"}]
  /\ UNCHANGED <<scene, records, events, changes, subscribed, startVars, owned,
                 cleanups, wireVars, ran, unbinding, closed, closing>>

-----------------------------------------------------------------------------
(* The event handler, close, and the lifecycle callbacks                    *)

\* sensor:adopted: the plugin builds the sensor in a goroutine (adoptOwn).
OnAdopted ==
  LET r == Head(events).rec
  IN  /\ unbinding = 0
      /\ events # <<>>
      /\ Head(events).kind = "adopted"
      /\ events' = Tail(events)
      /\ IF owned[r] # 0 THEN UNCHANGED inst
         ELSE inst' = [inst EXCEPT ![Fresh] = [pc |-> "build", rec |-> r]]
      /\ UNCHANGED <<scene, records, changes, subscribed, startVars, slots, owned,
                     cleanups, wireVars, lifeVars, unbinding, closed, closing>>

\* A slip: unbind leaves the maps alone.
OnDeletedKeepsEntry ==
  /\ unbinding = 0
  /\ events # <<>>
  /\ Head(events).kind = "deleted"
  /\ events' = Tail(events)
  /\ unbinding' = owned[Head(events).rec]
  /\ UNCHANGED <<scene, records, changes, subscribed, startVars, inst, slots, owned,
                 cleanups, wireVars, lifeVars, closed, closing>>

\* sensor:deleted: unbind takes the sensor out of the maps under m.mu.
OnDeleted ==
  LET r == Head(events).rec
  IN  /\ unbinding = 0
      /\ events # <<>>
      /\ Head(events).kind = "deleted"
      /\ events' = Tail(events)
      /\ unbinding' = owned[r]
      /\ owned' = [owned EXCEPT ![r] = 0]
      /\ cleanups' = [cleanups EXCEPT ![r] = 0]
      /\ UNCHANGED <<scene, records, changes, subscribed, startVars, inst, slots,
                     wireVars, lifeVars, closed, closing>>

\* A slip: the cleanup closure does not unsubscribe.
TeardownKeepsFeed(i) ==
  /\ handlers' = handlers \ {i}
  /\ storage' = storage \ {i}
  /\ active' = active \ {i}
  /\ due' = IF i \in active THEN [due EXCEPT ![i] = @ \cup {"stop"}] ELSE due
  /\ UNCHANGED feeds

\* The cleanup closure, then cleanupSensorWithLifecycle: an active sensor gets
\* its OnStop, and storage, update functions and subjects go.
Teardown(i) ==
  /\ handlers' = handlers \ {i}
  /\ feeds' = feeds \ {i}
  /\ storage' = storage \ {i}
  /\ active' = active \ {i}
  /\ due' = IF i \in active THEN [due EXCEPT ![i] = @ \cup {"stop"}] ELSE due

\* The rest of unbind, and the plugin's OnSensorUnadopted.
Unbind ==
  /\ unbinding # 0
  /\ Teardown(unbinding)
  /\ unbinding' = 0
  /\ UNCHANGED <<scene, records, events, changes, subscribed, startVars, inst, slots,
                 owned, cleanups, ran, closed, closing>>

\* close() unsubscribes and takes everything out of the maps.
Close ==
  /\ ~closed
  /\ closed' = TRUE
  /\ \/ "lateClose" \in Env
     \/ "close" \in Env /\ startPc = "done" /\ Binding = {} /\ events = <<>> /\ unbinding = 0
  /\ subscribed' = FALSE
  /\ events' = <<>>
  /\ closing' = {owned[r] : r \in Records} \ {0}
  /\ owned' = [r \in Records |-> 0]
  /\ cleanups' = [r \in Records |-> 0]
  /\ UNCHANGED <<scene, records, changes, startVars, inst, slots, wireVars, lifeVars, unbinding>>

CloseSensor ==
  /\ \E i \in closing : Teardown(i) /\ closing' = closing \ {i}
  /\ UNCHANGED <<scene, records, events, changes, subscribed, startVars, inst, slots,
                 owned, cleanups, ran, unbinding, closed>>

\* fireSensorLifecycle: every callback runs in a goroutine of its own.
RunOnStart(i) ==
  /\ "start" \in due[i]
  /\ due' = [due EXCEPT ![i] = @ \ {"start"}]
  /\ ran' = [ran EXCEPT ![i].start = @ + 1]
  /\ UNCHANGED <<scene, records, events, changes, subscribed, startVars, inst, slots,
                 owned, cleanups, wireVars, active, unbinding, closed, closing>>

RunOnStop(i) ==
  /\ "stop" \in due[i]
  /\ due' = [due EXCEPT ![i] = @ \ {"stop"}]
  /\ ran' = [ran EXCEPT ![i].stop = @ + 1]
  /\ UNCHANGED <<scene, records, events, changes, subscribed, startVars, inst, slots,
                 owned, cleanups, wireVars, active, unbinding, closed, closing>>

-----------------------------------------------------------------------------
\* init() has subscribed to the registry's stream before the start.
Init ==
  /\ scene \in Scenes
  /\ records \in SUBSET scene.records
  /\ events = <<>>
  /\ changes = 0
  /\ subscribed = TRUE
  /\ startPc = "start"
  /\ startRecs = {}
  /\ startInst = {}
  /\ inst = [i \in Instances |-> [pc |-> "free", rec |-> 0]]
  /\ slots = 0
  /\ owned = [r \in Records |-> 0]
  /\ cleanups = [r \in Records |-> 0]
  /\ handlers = {}
  /\ feeds = {}
  /\ storage = {}
  /\ active = {}
  /\ due = [i \in Instances |-> {}]
  /\ ran = [i \in Instances |-> [start |-> 0, stop |-> 0]]
  /\ unbinding = 0
  /\ closed = FALSE
  /\ closing = {}

Host == \E r \in scene.records : Adopt(r) \/ Delete(r)

StartStep == OwnAdoptedRecords \/ StartDone \/ \E r \in Records : BindAtStart(r)

BindStep(i) ==
  \/ BuildSensor(i) \/ AcquireSlot(i) \/ RegisterSensor(i) \/ ExposeSensor(i)
  \/ SubscribeSensor(i) \/ Publish(i) \/ Activate(i)

HandlerStep == OnAdopted \/ OnDeleted \/ Unbind

Lifecycle(i) == RunOnStart(i) \/ RunOnStop(i)

Next ==
  \/ Host \/ StartStep \/ HandlerStep \/ Close \/ CloseSensor
  \/ \E i \in Instances : BindStep(i) \/ Lifecycle(i)

Spec == Init /\ [][Next]_vars

\* Goroutines run; a goroutine blocked on a full channel gets its turn.
Fairness ==
  /\ WF_vars(StartStep) /\ WF_vars(HandlerStep) /\ WF_vars(CloseSensor)
  /\ \A i \in Instances : SF_vars(BindStep(i)) /\ WF_vars(Lifecycle(i))

LiveSpec == Spec /\ Fairness

-----------------------------------------------------------------------------
(* Properties                                                               *)

TypeOK ==
  /\ records \subseteq Records
  /\ subscribed \in BOOLEAN
  /\ startPc \in {"start", "bind", "done"}
  /\ inst \in [Instances -> [pc : Phases \cup {"free", "ended"}, rec : Records \cup {0}]]
  /\ slots \in 0 .. MaxSlots
  /\ owned \in [Records -> Instances \cup {0}]
  /\ cleanups \in [Records -> Instances \cup {0}]
  /\ handlers \subseteq Instances /\ feeds \subseteq Instances
  /\ storage \subseteq Instances /\ active \subseteq Instances
  /\ due \in [Instances -> SUBSET {"start", "stop"}]
  /\ unbinding \in Instances \cup {0}

\* An owned sensor is reachable and can be torn down: it has its RPC handler and
\* storage, and the cleanup stored for its record is its own (bind, unbind,
\* close), even when two binds of one record run at once.  None is torn down twice,
\* whether sensor:deleted and close() race or not: each takes what it tears
\* down out of the maps under m.mu.
OwnedIsWired ==
  /\ unbinding \notin closing
  /\ \A r \in Records : owned[r] # 0 =>
       /\ owned[r] \in handlers \cap storage
       /\ cleanups[r] = owned[r]
       /\ inst[owned[r]].rec = r
       /\ owned[r] \notin closing \cup {unbinding}

Quiet ==
  /\ startPc = "done" /\ Binding = {} /\ events = <<>> /\ unbinding = 0
  /\ closing = {}
  /\ \A i \in Instances : due[i] = {}

\* OnStart and OnStop "are paired 1:1": every sensor that is not owned any more
\* had its OnStop exactly if it had its OnStart, and keeps nothing registered with
\* the RPC client, when changes are orderly, failing binds included.
PairedLifecycle ==
  Orderly /\ Quiet =>
    /\ \A i \in Instances :
         ran[i].start = ran[i].stop + (IF \E r \in Records : owned[r] = i THEN 1 ELSE 0)
    /\ handlers \cup feeds \subseteq {owned[r] : r \in Records}

\* A start that has its records returns although sensors share few slots, and so does
\* every bind: an error gives the slot back.
EveryBindEnds ==
  /\ startPc = "bind" ~> startPc = "done"
  /\ \A i \in Instances : inst[i].pc \in Phases ~> inst[i].pc = "ended"
=============================================================================
