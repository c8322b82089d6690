---------------------------- MODULE CameraDevice ----------------------------
(***************************************************************************)
(* The sensors of a camera (src/go/camera_device.go): AddSensor,           *)
(* RemoveSensor and the cleanup of the device, with the lifecycle          *)
(* callbacks of sensor_base.go.  The plugin calls AddSensor and            *)
(* RemoveSensor for several sensors at a time, also repeatedly for one,    *)
(* each from a goroutine of its own; the cleanup comes from the device     *)
(* manager when the camera is released.                                    *)
(*                                                                         *)
(* What an AddSensor call registers, its RPC handler and its backend       *)
(* subscription, is known by the number of the call.                       *)
(***************************************************************************)
EXTENDS Naturals, FiniteSets

CONSTANTS
  Sensors,      \* sensors the plugin has for this camera
  MaxCalls,     \* bound: calls of AddSensor and RemoveSensor
  Scenes        \* surroundings of the camera, see SceneType

VARIABLES
  scene,        \* the surroundings of this behaviour, never changed
  made,         \* calls made so far
  step,         \* where each call is
  target,       \* the sensor each AddSensor and RemoveSensor call is about
  release,      \* where the cleanup of the device is
  slots,        \* registerSlots in use
  host,         \* sensors the host's registry has as connected
  tracked,      \* SensorManager.external
  listed,       \* how often each sensor is in d.sensors
  cleanups,     \* d.sensorCleanups: the call whose closure it has, by sensor
  handlers,     \* calls whose RPC handler is live
  feeds,        \* calls whose backend subscription is live
  taken,        \* the closure a RemoveSensor call holds
  closing,      \* closures the cleanup of the device holds
  orphans,      \* history: closures that left d.sensorCleanups and nobody runs
  snapshot,     \* how often the cleanup of the device still tears down each sensor
  active,       \* sensors whose BaseSensor is active
  due,          \* lifecycle goroutines that have not run yet, by sensor
  ran           \* how often OnStart and OnStop ran, by sensor

callVars == <<scene, made, step, target, release, slots>>
mapVars == <<host, tracked, listed, cleanups>>
wireVars == <<handlers, feeds, taken, closing, orphans, snapshot>>
lifeVars == <<active, due, ran>>
vars == <<callVars, mapVars, wireVars, lifeVars>>

\* fail: calls of the host fail; overlap: any two calls for a sensor, and the cleanup
\* and any call, may be under way at once, and the plugin may add and remove sensors
\* after the release; again: the plugin adds a sensor that it has added already.
EnvKinds == {"fail", "overlap", "again"}

\* A scene says what the surroundings do, which sensors the plugin adds, how many
\* slots registerSlots has, and bounds the calls.
SceneType == [env : SUBSET EnvKinds, sensors : SUBSET Sensors,
              maxSlots : Nat \ {0}, maxCalls : 0 .. MaxCalls]

ASSUME SensorsAssumption == IsFiniteSet(Sensors)
ASSUME CallsAssumption == MaxCalls \in Nat
ASSUME ScenesAssumption == Scenes \subseteq SceneType

Env == scene.env
MaxSlots == scene.maxSlots

Fails == "fail" \in Env

Calls == 1 .. MaxCalls
NoAdd == 0   \* no closure, and the target of a call that has not been made

AddSteps == {"slot", "resolve", "append", "expose", "subscribe", "store", "activate"}
RemoveSteps == {"unregister", "cleanup"}

Lifecycle == {"start", "stop"}   \* OnStart and OnStop

Adding(c) == step[c] \in AddSteps
Removing(c) == step[c] \in RemoveSteps

\* No AddSensor is under way.
Calm == "overlap" \in Env \/ \A c \in Calls : ~Adding(c)

\* The device has a closure for s, or an AddSensor will store one.
Added(s) == cleanups[s] # NoAdd \/ \E c \in Calls : target[c] = s /\ Adding(c)

-----------------------------------------------------------------------------
(* AddSensor                                                                *)

At(c, p) == step' = [step EXCEPT ![c] = p]

\* The next call is about s and starts at p.
Call(s, p) ==
  /\ made < scene.maxCalls
  /\ made' = made + 1
  /\ At(made', p)
  /\ target' = [target EXCEPT ![made'] = s]

\* A slip: an error path that keeps the slot.
FailWithSlot(c) == At(c, "failed") /\ UNCHANGED slots

\* An error: the deferred receive gives the slot back.
Fail(c) == At(c, "failed") /\ slots' = slots - 1

\* The code refuses no call.  A plugin that does one thing after the other adds a
\* sensor when it is not being removed, and none after the release.
AddSensor(s) ==
  /\ "overlap" \in Env \/ (release = "idle" /\ \A c \in Calls : target[c] = s => ~Removing(c))
  /\ "again" \in Env \/ ~Added(s)
  /\ Call(s, "slot")
  /\ UNCHANGED <<scene, release, slots, mapVars, wireVars, lifeVars>>

\* registerSlots <- struct{}{}
AcquireSlot(c) ==
  /\ step[c] = "slot"
  /\ slots < MaxSlots
  /\ At(c, "resolve")
  /\ slots' = slots + 1
  /\ UNCHANGED <<scene, made, target, release, mapVars, wireVars, lifeVars>>

\* resolveSensor, the storage, registerSensor, trackCameraSensor: each may fail, the
\* host having the sensor or not.
RegisterSensor(c) ==
  /\ step[c] = "resolve"
  /\ \/ /\ At(c, "append") /\ UNCHANGED slots
        /\ host' = host \cup {target[c]} /\ tracked' = tracked \cup {target[c]}
     \/ Fails /\ Fail(c) /\ host' \in {host, host \cup {target[c]}} /\ UNCHANGED tracked
  /\ UNCHANGED <<scene, made, target, release, listed, cleanups, wireVars, lifeVars>>

\* d.sensors = append(d.sensors, s), under d.mu.
AppendSensor(c) ==
  /\ step[c] = "append"
  /\ At(c, "expose")
  /\ listed' = [listed EXCEPT ![target[c]] = @ + 1]
  /\ UNCHANGED <<scene, made, target, release, slots, host, tracked, cleanups,
                 wireVars, lifeVars>>

\* RegisterHandler: an error leaves the sensor in the list.
ExposeSensor(c) ==
  /\ step[c] = "expose"
  /\ \/ At(c, "subscribe") /\ handlers' = handlers \cup {c} /\ UNCHANGED slots
     \/ Fails /\ Fail(c) /\ UNCHANGED handlers
  /\ UNCHANGED <<scene, made, target, release, mapVars, feeds, taken, closing, orphans,
                 snapshot, lifeVars>>

\* The backend subscription; without it only host-side writes are lost.
SubscribeSensor(c) ==
  /\ step[c] = "subscribe"
  /\ At(c, "store")
  /\ feeds' = feeds \cup {c} \/ (Fails /\ UNCHANGED feeds)
  /\ UNCHANGED <<scene, made, target, release, slots, mapVars, handlers, taken, closing,
                 orphans, snapshot, lifeVars>>

\* d.sensorCleanups[id] = ..., under d.mu: a closure that is there already is lost.
StoreCleanup(c) ==
  /\ step[c] = "store"
  /\ At(c, "activate")
  /\ cleanups' = [cleanups EXCEPT ![target[c]] = c]
  /\ orphans' = orphans \cup ({cleanups[target[c]]} \ {NoAdd})
  /\ UNCHANGED <<scene, made, target, release, slots, host, tracked, listed, handlers,
                 feeds, taken, closing, snapshot, lifeVars>>

\* setActiveWithLifecycle(s, true); then the slot is given back.
Activate(c) ==
  LET s == target[c]
  IN  /\ step[c] = "activate"
      /\ At(c, "added")
      /\ slots' = slots - 1
      /\ IF s \in active THEN UNCHANGED <<active, due>>
         ELSE active' = active \cup {s} /\ due' = [due EXCEPT ![s]["start"] = @ + 1]
      /\ UNCHANGED <<scene, made, target, release, mapVars, wireVars, ran>>

-----------------------------------------------------------------------------
(* RemoveSensor                                                             *)

\* Under d.mu: one entry of the sensor leaves the list, its closure leaves the map.
RemoveSensor(s) ==
  /\ listed[s] > 0 /\ Calm
  /\ Call(s, "unregister")
  /\ listed' = [listed EXCEPT ![s] = @ - 1]
  /\ cleanups' = [cleanups EXCEPT ![s] = NoAdd]
  /\ taken' = [taken EXCEPT ![made'] = cleanups[s]]
  /\ UNCHANGED <<scene, release, slots, host, tracked, handlers, feeds, closing, orphans,
                 snapshot, lifeVars>>

\* A sensor that is not listed is an error, and its closure is gone all the same.
\* (Without a closure nothing changes.)
RemoveMissing(s) ==
  /\ listed[s] = 0 /\ cleanups[s] # NoAdd /\ Calm
  /\ Call(s, "failed")
  /\ cleanups' = [cleanups EXCEPT ![s] = NoAdd]
  /\ orphans' = orphans \cup {cleanups[s]}
  /\ UNCHANGED <<scene, release, slots, host, tracked, listed, handlers, feeds, taken,
                 closing, snapshot, lifeVars>>

\* A slip: the sensor manager keeps the sensor.
UnregisterTracked(c) ==
  /\ step[c] = "unregister"
  /\ At(c, "cleanup")
  /\ host' \in (IF Fails THEN {host, host \ {target[c]}} ELSE {host \ {target[c]}})
  /\ UNCHANGED <<scene, made, target, release, slots, tracked, listed, cleanups,
                 wireVars, lifeVars>>

\* untrackCameraSensor and unregisterSensor, whose error is ignored.
UnregisterSensor(c) ==
  /\ step[c] = "unregister"
  /\ At(c, "cleanup")
  /\ tracked' = tracked \ {target[c]}
  /\ host' \in (IF Fails THEN {host, host \ {target[c]}} ELSE {host \ {target[c]}})
  /\ UNCHANGED <<scene, made, target, release, slots, listed, cleanups, wireVars, lifeVars>>

\* cleanupSensorWithLifecycle
Deactivate(s) ==
  /\ active' = active \ {s}
  /\ due' = IF s \in active THEN [due EXCEPT ![s]["stop"] = @ + 1] ELSE due

\* The closure, if there was one, and the lifecycle.
RemoveDone(c) ==
  /\ step[c] = "cleanup"
  /\ At(c, "removed")
  /\ handlers' = handlers \ {taken[c]}
  /\ feeds' = feeds \ {taken[c]}
  /\ taken' = [taken EXCEPT ![c] = NoAdd]
  /\ Deactivate(target[c])
  /\ UNCHANGED <<scene, made, target, release, slots, mapVars, closing, orphans, snapshot, ran>>

-----------------------------------------------------------------------------
(* cleanup of the device, and the lifecycle goroutines                      *)

Stored == {cleanups[s] : s \in Sensors} \ {NoAdd}

\* A slip: the closures are dropped with the map.
CleanupDropsClosures ==
  /\ release = "idle" /\ Calm
  /\ release' = "closures"
  /\ snapshot' = listed
  /\ listed' = [s \in Sensors |-> 0]
  /\ cleanups' = [s \in Sensors |-> NoAdd]
  /\ UNCHANGED <<scene, made, step, target, slots, host, tracked, handlers, feeds, taken,
                 closing, orphans, lifeVars>>

\* The list and the map are taken under d.mu and replaced by empty ones.
Cleanup ==
  /\ release = "idle" /\ Calm
  /\ release' = "closures"
  /\ closing' = Stored
  /\ snapshot' = listed
  /\ listed' = [s \in Sensors |-> 0]
  /\ cleanups' = [s \in Sensors |-> NoAdd]
  /\ UNCHANGED <<scene, made, step, target, slots, host, tracked, handlers, feeds, taken,
                 orphans, lifeVars>>

RunClosures ==
  /\ release = "closures"
  /\ release' = "teardown"
  /\ handlers' = handlers \ closing
  /\ feeds' = feeds \ closing
  /\ closing' = {}
  /\ UNCHANGED <<scene, made, step, target, slots, mapVars, taken, orphans, snapshot, lifeVars>>

\* One entry of the list.
CleanupSensor(s) ==
  /\ release = "teardown" /\ snapshot[s] > 0
  /\ snapshot' = [snapshot EXCEPT ![s] = @ - 1]
  /\ tracked' = tracked \ {s}
  /\ Deactivate(s)
  /\ UNCHANGED <<callVars, host, listed, cleanups, handlers, feeds, taken, closing, orphans, ran>>

CleanupDone ==
  /\ release = "teardown" /\ \A s \in Sensors : snapshot[s] = 0
  /\ release' = "released"
  /\ UNCHANGED <<scene, made, step, target, slots, mapVars, wireVars, lifeVars>>

\* fireSensorLifecycle: each callback has a goroutine of its own.
RunLifecycle(s) ==
  \E k \in Lifecycle :
    /\ due[s][k] > 0
    /\ due' = [due EXCEPT ![s][k] = @ - 1]
    /\ ran' = [ran EXCEPT ![s][k] = @ + 1]
    /\ UNCHANGED <<callVars, mapVars, wireVars, active>>

-----------------------------------------------------------------------------
NoCallbacks == [s \in Sensors |-> [k \in Lifecycle |-> 0]]

Init ==
  /\ scene \in Scenes
  /\ made = 0 /\ step = [c \in Calls |-> "idle"] /\ target = [c \in Calls |-> NoAdd]
  /\ release = "idle" /\ slots = 0
  /\ host = {} /\ tracked = {} /\ listed = [s \in Sensors |-> 0]
  /\ cleanups = [s \in Sensors |-> NoAdd]
  /\ handlers = {} /\ feeds = {} /\ taken = [c \in Calls |-> NoAdd] /\ closing = {}
  /\ orphans = {} /\ snapshot = [s \in Sensors |-> 0]
  /\ active = {} /\ due = NoCallbacks /\ ran = NoCallbacks

AddStep(c) ==
  \/ AcquireSlot(c) \/ RegisterSensor(c) \/ AppendSensor(c) \/ ExposeSensor(c)
  \/ SubscribeSensor(c) \/ StoreCleanup(c) \/ Activate(c)

RemoveStep(c) == UnregisterSensor(c) \/ RemoveDone(c)

CleanupStep == RunClosures \/ CleanupDone \/ \E s \in Sensors : CleanupSensor(s)

Next ==
  \/ Cleanup \/ CleanupStep
  \/ \E s \in scene.sensors : AddSensor(s) \/ RemoveSensor(s) \/ RemoveMissing(s)
  \/ \E c \in Calls : AddStep(c) \/ RemoveStep(c)
  \/ \E s \in Sensors : RunLifecycle(s)

Spec == Init /\ [][Next]_vars

\* Goroutines run and the calls of the host return.
LiveSpec == Spec /\ \A c \in Calls : WF_vars(AddStep(c))

-----------------------------------------------------------------------------
(* Properties                                                               *)

TypeOK ==
  /\ made \in 0 .. MaxCalls
  /\ step \in [Calls -> AddSteps \cup RemoveSteps \cup {"idle", "added", "failed", "removed"}]
  /\ target \in [Calls -> Sensors \cup {NoAdd}]
  /\ release \in {"idle", "closures", "teardown", "released"}
  /\ slots \in 0 .. MaxSlots
  /\ host \subseteq Sensors /\ tracked \subseteq Sensors
  /\ listed \in [Sensors -> 0 .. MaxCalls] /\ snapshot \in [Sensors -> 0 .. MaxCalls]
  /\ cleanups \in [Sensors -> Calls \cup {NoAdd}] /\ taken \in [Calls -> Calls \cup {NoAdd}]
  /\ UNION {handlers, feeds, closing, orphans} \subseteq Calls
  /\ active \subseteq Sensors
  /\ due \in [Sensors -> [Lifecycle -> Nat]]

\* Nothing is under way.
Quiet ==
  /\ \A c \in Calls : ~Adding(c) /\ ~Removing(c)
  /\ \A s \in Sensors : due[s]["start"] = 0 /\ due[s]["stop"] = 0
  /\ release \in {"idle", "released"}

\* A live RPC handler or backend subscription is out of reach only when its closure left
\* d.sensorCleanups in one of two ways: a second AddSensor of the sensor stored its own
\* over it, or a RemoveSensor that did not find the sensor threw it away.  Neither happens
\* to a plugin that adds a sensor only when it has not added it, one call after the other.
\* Otherwise the AddSensor call that made the wire, the map, or the removal or cleanup
\* that took the closure holds it, in every interleaving of the three.  At rest every
\* sensor for which the sensor manager routes assignment changes is in d.sensors, so that
\* a RemoveSensor or the cleanup untracks it, also after failed and repeated calls.
WireHasOwner ==
  /\ \A c \in handlers \cup feeds :
       Adding(c) \/ c \in Stored \cup closing \cup orphans \/ \E r \in Calls : taken[r] = c
  /\ orphans # {} => Env \cap {"again", "overlap"} # {}
  /\ Quiet => \A s \in tracked : listed[s] > 0

\* A sensor that is not in d.sensors any more, because every entry of it was removed or
\* the camera was released, is detached when calls come one after the other, also when it
\* was added repeatedly or again after a removal: no tracking, not active, and no wire but
\* those whose closure a repeated AddSensor replaced ("The host removes camera-bound
\* sensors automatically when a camera is released").  OnStart and OnStop come in pairs
\* whatever overlaps.
ReleasedIsQuiet ==
  Quiet =>
    \A s \in Sensors :
      /\ listed[s] = 0 /\ "overlap" \notin Env =>
           /\ s \notin tracked \cup active
           /\ \A c \in handlers \cup feeds : target[c] = s => c \in orphans
      /\ ran[s]["start"] = ran[s]["stop"] + (IF s \in active THEN 1 ELSE 0)

\* Every AddSensor call ends: the slots it competes for are given back.
EveryAddEnds == \A c \in Calls : Adding(c) ~> ~Adding(c)
=============================================================================
