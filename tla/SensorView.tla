----------------------------- MODULE SensorView -----------------------------
(***************************************************************************)
(* The consumer side of the SensorManager (src/go/manager_sensor.go and    *)
(* sensor_proxy.go): the view a bridge plugin keeps of the sensors of      *)
(* other plugins.  The host's sensor registry is external: it answers      *)
(* calls with its state at that moment, and publishes every change on one  *)
(* ordered stream (global) and every property value on a stream of the     *)
(* sensor (feed).  Three kinds of goroutines write the view: init, the     *)
(* handler of the global stream, and resyncs, whose answers may be old     *)
(* when they are applied.                                                  *)
(*                                                                         *)
(* Of a sensor's data the model keeps what the view distinguishes: whether *)
(* it is exposed and connected, one property value and its cameras.        *)
(* Capabilities and the display name travel like the value.                *)
(***************************************************************************)
EXTENDS Naturals, Sequences, FiniteSets

CONSTANTS
  Sensors,      \* ids of sensor records
  Foreign,      \* sensors of another plugin whose type the contract consumes
  Values,       \* property values
  Cameras,      \* camera ids
  None,         \* no proxy, no answer
  Scenes        \* surroundings in which the plugin runs, see SceneType

VARIABLES
  scene,        \* the surroundings of this behaviour, never changed
  registry,     \* the host's record of every sensor, or None
  link,         \* the connection to the host is up
  global,       \* registry events received and not handled yet
  feed,         \* property events received and not handled yet, by sensor
  subscribed,   \* m.unsubGlobal # nil
  consumed,     \* m.consumed: a proxy or None, by sensor
  wired,        \* sensors whose proxy in the map has its subscription
  subs,         \* live event subscriptions of proxies, by sensor
  closing,      \* sensors whose proxies close() took and has not cleaned up
  known,        \* sensors the plugin was told of and not told were released
  initPc,       \* where init() is
  initData,     \* its answer of getSensors that is not added yet
  initList,     \* the sensors it hands to ConfigureSensors
  handler,      \* the goroutine of the global stream
  resync,       \* goroutines of resyncConsumed
  resyncIds,    \* ids resyncAllConsumed still has to refresh
  reconnecting, \* the reconnect callback is due
  closed,       \* close() ran
  changes       \* changes of the registry so far

regVars == <<scene, registry, link, changes, reconnecting>>
initVars == <<initPc, initData, initList>>
subVars == <<wired, subs, closing>>
viewVars == <<consumed, subVars, feed, known>>
vars == <<regVars, global, subscribed, viewVars, initVars, handler, resync,
          resyncIds, closed>>

\* early: the registry changes during init; drop: the link goes down once;
\* fail: calls to the registry fail; close: the manager is closed.
EnvKinds == {"early", "drop", "fail", "close"}

Record == [exposed : BOOLEAN, connected : BOOLEAN, value : Values,
           cameras : SUBSET Cameras]

\* What a proxy keeps of a record.
Proxies == [connected : BOOLEAN, value : Values, cameras : SUBSET Cameras]

ASSUME ForeignAssumption == Foreign \subseteq Sensors
ASSUME NoneAssumption == None \notin Record \cup Proxies

\* A scene says what the surroundings do, which sensors, values and cameras the
\* registry's changes are about, and bounds those changes and the resyncs they
\* start.
SceneType == [env : SUBSET EnvKinds, sensors : SUBSET Sensors,
              values : SUBSET Values, cameras : SUBSET Cameras, maxChanges : Nat]

ASSUME ScenesAssumption == Scenes \subseteq SceneType

Env == scene.env
MaxChanges == scene.maxChanges

\* Nothing changes while the plugin starts, no event is lost, no call fails and
\* the manager stays open.
Calm == Env = {}

\* One resync goroutine per event that can start one, and the reconnect callback.
Resyncs == 0 .. MaxChanges

HandlerIdle == [pc |-> "idle", sensor |-> None, data |-> None]
ResyncIdle == [pc |-> "idle", sensor |-> None, value |-> None]

Event(kind, s, data) == [kind |-> kind, sensor |-> s, data |-> data]

\* The consumable view as the registry has it.
Visible(s) == s \in Foreign /\ registry[s] # None /\ registry[s].exposed

-----------------------------------------------------------------------------
(* The registry and the link (external)                                     *)

\* An event reaches the plugin while it is subscribed and the link is up.
Publish(e) == global' = IF link /\ subscribed THEN Append(global, e) ELSE global

Change ==
  /\ changes < MaxChanges
  /\ "early" \in Env \/ initPc = "done"
  /\ changes' = changes + 1
  /\ UNCHANGED <<scene, link, reconnecting, subscribed, consumed, subVars, known,
                 initVars, handler, resync, resyncIds, closed>>

CreateSensor(s, exposed, v) ==
  LET record == [exposed |-> exposed, connected |-> TRUE, value |-> v, cameras |-> {}]
  IN  /\ Change
      /\ registry[s] = None
      /\ registry' = [registry EXCEPT ![s] = record]
      /\ Publish(Event("added", s, record))
      /\ UNCHANGED feed

AnnounceSensor(s) ==
  /\ Change
  /\ registry[s] # None
  /\ Publish(Event("added", s, registry[s]))
  /\ UNCHANGED <<registry, feed>>

DeleteSensor(s) ==
  /\ Change
  /\ registry[s] # None
  /\ registry' = [registry EXCEPT ![s] = None]
  /\ Publish(Event("deleted", s, None))
  /\ UNCHANGED feed

ExposeSensor(s) ==
  /\ Change
  /\ registry[s] # None
  /\ registry' = [registry EXCEPT ![s].exposed = ~@]
  /\ Publish(Event("exposed", s, ~registry[s].exposed))
  /\ UNCHANGED feed

ConnectSensor(s) ==
  /\ Change
  /\ registry[s] # None
  /\ registry' = [registry EXCEPT ![s].connected = ~@]
  /\ Publish(Event("connected", s, ~registry[s].connected))
  /\ UNCHANGED feed

AssignSensor(s, c) ==
  LET assigned == c \notin registry[s].cameras
  IN  /\ Change
      /\ registry[s] # None
      /\ registry' = [registry EXCEPT ![s].cameras =
                        IF assigned THEN @ \cup {c} ELSE @ \ {c}]
      /\ Publish(Event("assigned", s, [camera |-> c, assigned |-> assigned]))
      /\ UNCHANGED feed

UpdateSensor(s, v) ==
  /\ Change
  /\ registry[s] # None
  /\ registry[s].value # v
  /\ registry' = [registry EXCEPT ![s].value = v]
  /\ feed' = IF link /\ s \in wired THEN [feed EXCEPT ![s] = Append(@, v)] ELSE feed
  /\ UNCHANGED global

\* What is published while the link is down is lost.
DropLink ==
  /\ "drop" \in Env
  /\ link /\ ~reconnecting
  /\ link' = FALSE
  /\ UNCHANGED <<scene, registry, changes, reconnecting, global, subscribed, viewVars,
                 initVars, handler, resync, resyncIds, closed>>

\* The client calls its reconnect callbacks, unless they were removed.
RestoreLink ==
  /\ ~link
  /\ link' = TRUE
  /\ reconnecting' = subscribed
  /\ UNCHANGED <<scene, registry, changes, global, subscribed, viewVars, initVars,
                 handler, resync, resyncIds, closed>>

\* A call of the registry may fail, and does while the link is down.
MayFail == "fail" \in Env \/ ~link

-----------------------------------------------------------------------------
(* Proxies                                                                  *)

Proxy(data) == [connected |-> data.connected, value |-> data.value,
                cameras |-> data.cameras]

IsConsumable(s, data) == s \in Foreign /\ data.exposed

\* A slip: the map is not looked up before a proxy is made.
AddConsumedAgain(s, data) ==
  /\ consumed' = [consumed EXCEPT ![s] = Proxy(data)]
  /\ wired' = wired \cup {s}
  /\ subs' = [subs EXCEPT ![s] = @ + 1]
  /\ feed' = [feed EXCEPT ![s] = <<>>]
  /\ UNCHANGED closing

\* newSensorProxy subscribes to the sensor's events when it copies the data.  It
\* drops the error of Subscribe: the proxy then enters the view without events.
AddConsumed(s, data) ==
  IF consumed[s] # None THEN UNCHANGED <<consumed, subVars, feed>>
  ELSE /\ consumed' = [consumed EXCEPT ![s] = Proxy(data)]
       /\ feed' = [feed EXCEPT ![s] = <<>>]
       /\ \/ wired' = wired \cup {s} /\ subs' = [subs EXCEPT ![s] = @ + 1]
          \/ MayFail /\ UNCHANGED <<wired, subs>>
       /\ UNCHANGED closing

\* A resync that holds a proxy which leaves the map writes to an object nobody
\* reads any more.  One that asks may have looked its sensor up already or not.
DropResyncs(gone) ==
  LET asking == {r \in Resyncs : resync[r].pc = "ask" /\ resync[r].sensor \in gone}
      applying == {r \in Resyncs : resync[r].pc = "apply" /\ resync[r].sensor \in gone}
  IN  \E held \in SUBSET asking :
        resync' = [r \in Resyncs |-> IF r \in held \cup applying THEN ResyncIdle
                                     ELSE resync[r]]

\* releaseConsumed takes the proxy out of the map under the lock.
DropConsumed(s) ==
  /\ consumed' = [consumed EXCEPT ![s] = None]
  /\ wired' = wired \ {s}
  /\ feed' = [feed EXCEPT ![s] = <<>>]
  /\ DropResyncs({s})
  /\ UNCHANGED <<subs, closing>>

\* handleSensorEvent, on the proxy's own subscription.
HandleSensorEvent(s) ==
  /\ feed[s] # <<>>
  /\ consumed' = [consumed EXCEPT ![s].value = Head(feed[s])]
  /\ feed' = [feed EXCEPT ![s] = Tail(@)]
  /\ UNCHANGED <<regVars, global, subscribed, subVars, known, initVars, handler,
                 resync, resyncIds, closed>>

-----------------------------------------------------------------------------
(* init                                                                     *)

\* A slip: the sensors are listed before the stream is subscribed to.
EnsureGlobalSubscriptionLate ==
  /\ initPc = "start"
  /\ \/ UNCHANGED <<initPc, subscribed>> /\ initData' = registry
     \/ initPc' = "fill" /\ subscribed' = TRUE /\ UNCHANGED initData
  /\ UNCHANGED <<regVars, global, viewVars, initList, handler, resync, resyncIds, closed>>

\* ensureGlobalSubscription
EnsureGlobalSubscription ==
  /\ initPc = "start"
  /\ initPc' = "ask"
  /\ subscribed' = TRUE
  /\ UNCHANGED <<regVars, global, viewVars, initData, initList, handler,
                 resync, resyncIds, closed>>

\* Without the subscription the plugin does not start.
SubscribeFails ==
  /\ initPc = "start"
  /\ MayFail
  /\ initPc' = "failed"
  /\ UNCHANGED <<regVars, global, subscribed, viewVars, initData, initList,
                 handler, resync, resyncIds, closed>>

\* The registry answers getSensors; an error counts as no sensors.
GetSensors ==
  /\ initPc = "ask"
  /\ initPc' = "fill"
  /\ \/ link /\ initData' = registry
     \/ MayFail /\ initData' = [s \in Sensors |-> None]
  /\ UNCHANGED <<regVars, global, subscribed, viewVars, initList, handler,
                 resync, resyncIds, closed>>

FillView(s) ==
  /\ initPc = "fill"
  /\ initData[s] # None
  /\ IF IsConsumable(s, initData[s]) THEN AddConsumed(s, initData[s])
     ELSE UNCHANGED <<consumed, subVars, feed>>
  /\ initData' = [initData EXCEPT ![s] = None]
  /\ UNCHANGED <<regVars, global, subscribed, known, initPc, initList, handler,
                 resync, resyncIds, closed>>

ListView ==
  /\ initPc = "fill"
  /\ \A s \in Sensors : initData[s] = None
  /\ initPc' = "configure"
  /\ initList' = {s \in Sensors : consumed[s] # None}
  /\ UNCHANGED <<regVars, global, subscribed, viewVars, initData, handler,
                 resync, resyncIds, closed>>

\* A rejection aborts the plugin's start.
ConfigureSensors ==
  /\ initPc = "configure"
  /\ \/ initPc' = "done" /\ known' = known \cup initList
     \/ initPc' = "failed" /\ UNCHANGED known
  /\ UNCHANGED <<regVars, global, subscribed, consumed, subVars, feed, initData,
                 initList, handler, resync, resyncIds, closed>>

-----------------------------------------------------------------------------
(* handleGlobalSensorEvent: one event at a time                             *)

Handles(kind) ==
  /\ handler.pc = "idle"
  /\ global # <<>>
  /\ Head(global).kind = kind
  /\ global' = Tail(global)

HandlerAt(pc, s, data) == handler' = [pc |-> pc, sensor |-> s, data |-> data]

\* sensor:added.  The refreshed state is the value, not the connection.
OnAdded ==
  LET s == Head(global).sensor
      data == Head(global).data
  IN  /\ Handles("added")
      /\ IF consumed[s] # None
         THEN consumed' = [consumed EXCEPT ![s].value = data.value] /\ UNCHANGED handler
         ELSE /\ UNCHANGED consumed
              /\ IF IsConsumable(s, data) THEN HandlerAt("add", s, data) ELSE UNCHANGED handler
      /\ UNCHANGED <<regVars, subscribed, subVars, feed, known, initVars, resync,
                     resyncIds, closed>>

\* sensor:deleted and sensor:exposed:changed to false: releaseConsumed.  (That
\* sensor:deleted also unbinds an own sensor is in SensorBinding.)
Release(s) ==
  /\ IF consumed[s] # None
     THEN DropConsumed(s) /\ HandlerAt("unsubscribe", s, s \in wired)
     ELSE UNCHANGED <<consumed, subVars, feed, resync, handler>>
  /\ UNCHANGED <<regVars, subscribed, known, initVars, resyncIds, closed>>

OnDeleted == Handles("deleted") /\ Release(Head(global).sensor)

\* A slip: a sensor that is no longer exposed is kept.
OnHiddenKept ==
  /\ Handles("exposed")
  /\ ~Head(global).data
  /\ UNCHANGED <<regVars, subscribed, viewVars, initVars, handler, resync, resyncIds, closed>>

OnHidden == Handles("exposed") /\ ~Head(global).data /\ Release(Head(global).sensor)

\* sensor:exposed:changed to true asks the registry for the sensor.
OnExposed ==
  LET s == Head(global).sensor
  IN  /\ Handles("exposed")
      /\ Head(global).data
      /\ IF consumed[s] # None THEN UNCHANGED handler ELSE HandlerAt("fetch", s, None)
      /\ UNCHANGED <<regVars, subscribed, viewVars, initVars, resync, resyncIds, closed>>

\* getSensorRpc: an error, no sensor or one that is not consumable ends the event.
FetchSensor ==
  LET s == handler.sensor
  IN  /\ handler.pc = "fetch"
      /\ \/ /\ link
            /\ IF registry[s] # None /\ IsConsumable(s, registry[s])
               THEN HandlerAt("add", s, registry[s]) ELSE handler' = HandlerIdle
         \/ MayFail /\ handler' = HandlerIdle
      /\ UNCHANGED <<regVars, global, subscribed, viewVars, initVars, resync,
                     resyncIds, closed>>

AddFromHandler ==
  /\ handler.pc = "add"
  /\ AddConsumed(handler.sensor, handler.data)
  /\ HandlerAt("tellAdded", handler.sensor, None)
  /\ UNCHANGED <<regVars, global, subscribed, known, initVars, resync, resyncIds, closed>>

\* cleanupProxy, outside the lock: a proxy that has a subscription ends it.
CleanupProxy ==
  LET s == handler.sensor
  IN  /\ handler.pc = "unsubscribe"
      /\ subs' = IF handler.data THEN [subs EXCEPT ![s] = @ - 1] ELSE subs
      /\ HandlerAt("tellReleased", s, None)
      /\ UNCHANGED <<regVars, global, subscribed, consumed, wired, closing, feed, known,
                     initVars, resync, resyncIds, closed>>

\* The plugin's OnSensorAdded or OnSensorReleased.
TellPlugin ==
  /\ handler.pc \in {"tellAdded", "tellReleased"}
  /\ known' = IF handler.pc = "tellAdded" THEN known \cup {handler.sensor}
              ELSE known \ {handler.sensor}
  /\ handler' = HandlerIdle
  /\ UNCHANGED <<regVars, global, subscribed, consumed, subVars, feed, initVars,
                 resync, resyncIds, closed>>

\* sensor:connected:changed.  A returning sensor is refreshed by a goroutine.
OnConnected ==
  LET s == Head(global).sensor
      connected == Head(global).data
      free == {r \in Resyncs \ {0} : resync[r].pc = "idle"}
  IN  /\ Handles("connected")
      /\ IF consumed[s] = None THEN UNCHANGED <<consumed, resync>>
         ELSE /\ consumed' = [consumed EXCEPT ![s].connected = connected]
              /\ IF ~connected THEN UNCHANGED resync
                 ELSE LET r == CHOOSE i \in free : \A j \in free : i <= j
                      IN  resync' = [resync EXCEPT ![r] =
                                       [pc |-> "ask", sensor |-> s, value |-> None]]
      /\ UNCHANGED <<regVars, subscribed, subVars, feed, known, initVars, handler,
                     resyncIds, closed>>

\* A slip: the camera is not taken out of the list first.
OnAssignmentNoFilter ==
  LET s == Head(global).sensor
      a == Head(global).data
  IN  /\ Handles("assigned")
      /\ consumed' = IF consumed[s] = None \/ ~a.assigned THEN consumed
                     ELSE [consumed EXCEPT ![s].cameras = @ \cup {a.camera}]
      /\ UNCHANGED <<regVars, subscribed, subVars, feed, known, initVars, handler,
                     resync, resyncIds, closed>>

\* sensor:assignment:changed
OnAssignment ==
  LET s == Head(global).sensor
      a == Head(global).data
  IN  /\ Handles("assigned")
      /\ consumed' = IF consumed[s] = None THEN consumed
                     ELSE [consumed EXCEPT ![s].cameras =
                             (@ \ {a.camera}) \cup (IF a.assigned THEN {a.camera} ELSE {})]
      /\ UNCHANGED <<regVars, subscribed, subVars, feed, known, initVars, handler,
                     resync, resyncIds, closed>>

-----------------------------------------------------------------------------
(* Resync and close                                                         *)

\* resyncAllConsumed: the ids it refreshes are those of the current view.
ResyncAllConsumed ==
  /\ reconnecting
  /\ reconnecting' = FALSE
  /\ resyncIds' = {s \in Sensors : consumed[s] # None}
  /\ UNCHANGED <<scene, registry, link, changes, global, subscribed, viewVars, initVars,
                 handler, resync, closed>>

ResyncNext(s) ==
  /\ resync[0].pc = "idle"
  /\ s \in resyncIds
  /\ resyncIds' = resyncIds \ {s}
  /\ resync' = [resync EXCEPT ![0] = [pc |-> "ask", sensor |-> s, value |-> None]]
  /\ UNCHANGED <<regVars, global, subscribed, viewVars, initVars, handler, closed>>

\* resyncConsumed looks the proxy up and asks for the sensor's state.
GetSensorState(r) ==
  LET s == resync[r].sensor
  IN  /\ resync[r].pc = "ask"
      /\ \/ /\ link
            /\ resync' = [resync EXCEPT ![r] =
                 IF consumed[s] = None \/ registry[s] = None THEN ResyncIdle
                 ELSE [pc |-> "apply", sensor |-> s, value |-> registry[s].value]]
         \/ MayFail /\ resync' = [resync EXCEPT ![r] = ResyncIdle]
      /\ UNCHANGED <<regVars, global, subscribed, viewVars, initVars, handler,
                     resyncIds, closed>>

\* applyRefreshedState, whatever arrived since the registry answered.
ApplyRefreshedState(r) ==
  /\ resync[r].pc = "apply"
  /\ consumed' = [consumed EXCEPT ![resync[r].sensor].value = resync[r].value]
  /\ resync' = [resync EXCEPT ![r] = ResyncIdle]
  /\ UNCHANGED <<regVars, global, subscribed, subVars, feed, known, initVars,
                 handler, resyncIds, closed>>

\* close() unsubscribes from the registry and replaces the map under the lock;
\* goroutines under way go on, and may add to the new map.
Close ==
  /\ "close" \in Env
  /\ ~closed
  /\ closed' = TRUE
  /\ subscribed' = FALSE
  /\ reconnecting' = FALSE
  /\ global' = <<>>
  /\ consumed' = [s \in Sensors |-> None]
  /\ closing' = wired
  /\ wired' = {}
  /\ feed' = [s \in Sensors |-> <<>>]
  /\ DropResyncs(Sensors)
  /\ UNCHANGED <<scene, registry, link, changes, subs, known, initVars, handler, resyncIds>>

\* cleanupProxy for the proxies of the old map, outside the lock.
CleanupClosed(s) ==
  /\ s \in closing
  /\ closing' = closing \ {s}
  /\ subs' = [subs EXCEPT ![s] = @ - 1]
  /\ UNCHANGED <<regVars, global, subscribed, consumed, wired, feed, known, initVars,
                 handler, resync, resyncIds, closed>>

-----------------------------------------------------------------------------
Init ==
  /\ scene \in Scenes
  /\ registry \in [Sensors -> {None} \cup
       {[exposed |-> x, connected |-> TRUE, value |-> v, cameras |-> {}] :
          x \in BOOLEAN, v \in scene.values}]
  /\ \A s \in Sensors \ scene.sensors : registry[s] = None
  /\ link = TRUE
  /\ global = <<>>
  /\ feed = [s \in Sensors |-> <<>>]
  /\ subscribed = FALSE
  /\ consumed = [s \in Sensors |-> None]
  /\ wired = {} /\ closing = {}
  /\ subs = [s \in Sensors |-> 0]
  /\ known = {}
  /\ initPc = "start"
  /\ initData = [s \in Sensors |-> None]
  /\ initList = {}
  /\ handler = HandlerIdle
  /\ resync = [r \in Resyncs |-> ResyncIdle]
  /\ resyncIds = {}
  /\ reconnecting = FALSE
  /\ closed = FALSE
  /\ changes = 0

RegistryStep ==
  \E s \in scene.sensors :
    \/ \E x \in BOOLEAN, v \in scene.values : CreateSensor(s, x, v)
    \/ \E v \in scene.values : UpdateSensor(s, v)
    \/ \E c \in scene.cameras : AssignSensor(s, c)
    \/ AnnounceSensor(s) \/ DeleteSensor(s) \/ ExposeSensor(s) \/ ConnectSensor(s)

InitStep ==
  \/ EnsureGlobalSubscription \/ SubscribeFails \/ GetSensors \/ ListView
  \/ ConfigureSensors \/ \E s \in Sensors : FillView(s)

HandlerStep ==
  \/ OnAdded \/ OnDeleted \/ OnHidden \/ OnExposed \/ OnConnected \/ OnAssignment
  \/ FetchSensor \/ AddFromHandler \/ CleanupProxy \/ TellPlugin

FeedStep == \E s \in Sensors : HandleSensorEvent(s)

ResyncStep ==
  \/ ResyncAllConsumed
  \/ \E s \in Sensors : ResyncNext(s)
  \/ \E r \in Resyncs : GetSensorState(r) \/ ApplyRefreshedState(r)

Next ==
  \/ RegistryStep \/ DropLink \/ RestoreLink \/ InitStep \/ HandlerStep
  \/ FeedStep \/ ResyncStep \/ Close \/ \E s \in Sensors : CleanupClosed(s)

Spec == Init /\ [][Next]_vars

\* Each goroutine runs and calls of the registry end; the link comes back.
Fairness ==
  /\ WF_vars(InitStep) /\ WF_vars(HandlerStep) /\ WF_vars(FeedStep)
  /\ WF_vars(ResyncStep) /\ WF_vars(RestoreLink)

LiveSpec == Spec /\ Fairness

-----------------------------------------------------------------------------
(* Properties                                                               *)

TypeOK ==
  /\ registry \in [Sensors -> Record \cup {None}]
  /\ link \in BOOLEAN /\ subscribed \in BOOLEAN /\ closed \in BOOLEAN
  /\ reconnecting \in BOOLEAN
  /\ feed \in [Sensors -> Seq(Values)]
  /\ \A s \in Sensors : consumed[s] # None =>
       /\ s \in Foreign
       /\ consumed[s] \in Proxies
  /\ subs \in [Sensors -> Nat]
  /\ known \subseteq Foreign
  /\ initPc \in {"start", "ask", "fill", "configure", "done", "failed"}
  /\ wired \cup closing \subseteq Sensors
  /\ handler.pc \in {"idle", "fetch", "add", "tellAdded", "unsubscribe", "tellReleased"}
  /\ changes \in 0 .. MaxChanges

One(b) == IF b THEN 1 ELSE 0

\* The handler has taken the sensor's proxy out of the map and ends its
\* subscription next.
Unsubscribing(s) == handler = [pc |-> "unsubscribe", sensor |-> s, data |-> TRUE]

\* Every live subscription belongs to one proxy that will end it: the one in the
\* view, one the handler took out, or one close() took, whatever init, the handler,
\* resyncs and close do at once (addConsumed, releaseConsumed, cleanupProxy,
\* close).  Where no call fails every proxy of the view has its subscription;
\* newSensorProxy keeps a proxy whose Subscribe failed.
OneSubscription ==
  \A s \in Sensors :
    /\ subs[s] = One(s \in wired) + One(Unsubscribing(s)) + One(s \in closing)
    /\ s \in wired => consumed[s] # None
    /\ Env \cap {"drop", "fail"} = {} /\ consumed[s] # None => s \in wired

\* Nothing is on its way to the view.
Quiet ==
  /\ initPc = "done" /\ ~closed /\ link /\ ~reconnecting
  /\ global = <<>> /\ handler.pc = "idle"
  /\ \A s \in Sensors : feed[s] = <<>>
  /\ resyncIds = {} /\ \A r \in Resyncs : resync[r].pc = "idle"

\* Because init subscribes before it lists the sensors, the view misses no
\* sensor that appears while the plugin starts, as long as no event is lost and
\* no call fails.  When the plugin also started undisturbed, the view and what the
\* plugin was told are the registry's view once all events are handled
\* (OnSensorAdded and OnSensorReleased: "enters" and "leaves the consumable view").
\* The connection and the cameras of every proxy are then the registry's too,
\* although a proxy may be made from an answer newer than events still queued.
ViewConverges ==
  Quiet => \A s \in Sensors :
    /\ Env \cap {"drop", "fail"} = {} /\ Visible(s) => consumed[s] # None
    /\ Calm =>
         /\ consumed[s] # None <=> Visible(s)
         /\ s \in known <=> Visible(s)
         /\ consumed[s] # None /\ registry[s] # None =>
              /\ consumed[s].connected = registry[s].connected
              /\ consumed[s].cameras = registry[s].cameras

\* A plugin that knows a sensor that is no longer visible is told so, unless the
\* sensor comes back (OnSensorReleased), in a calm scene.
ReleaseReported ==
  \A s \in Sensors :
    (Calm /\ s \in known /\ ~Visible(s)) ~> (s \notin known \/ Visible(s))
=============================================================================
