---------------------------- MODULE CameraProofs ----------------------------
(***************************************************************************)
(* Proofs about a camera device: its sensors (CameraDevice), for any       *)
(* number of sensors, calls and slots; and what it shares by counting      *)
(* references, the detection wire of CameraFeeds, for any number of        *)
(* callbacks, and the upstream connection of SharedFeed and what its       *)
(* subscribers learn over it, for any number of subscribers, properties    *)
(* and values.                                                             *)
(***************************************************************************)
EXTENDS CameraDevice, CameraFeeds, SharedFeed, FiniteSetTheorems, TLAPS

-----------------------------------------------------------------------------
(* CameraDevice                                                             *)

SensorTypes ==
  /\ scene \in Scenes
  /\ made \in 0 .. MaxCalls
  /\ step \in [Calls -> AddSteps \cup RemoveSteps \cup {"idle", "added", "failed", "removed"}]
  /\ target \in [Calls -> Sensors \cup {NoAdd}]
  /\ \A c \in Calls : (c > made => step[c] = "idle") /\ (step[c] # "idle" => target[c] \in Sensors)
  /\ release \in {"idle", "closures", "teardown", "released"}
  /\ listed \in [Sensors -> Nat] /\ snapshot \in [Sensors -> Nat]
  /\ cleanups \in [Sensors -> Calls \cup {NoAdd}] /\ taken \in [Calls -> Calls \cup {NoAdd}]
  /\ \A s \in Sensors : cleanups[s] # NoAdd => cleanups[s] <= made /\ target[cleanups[s]] = s
  /\ \A c \in Calls : taken[c] # NoAdd => c <= made
  /\ handlers \subseteq Calls /\ feeds \subseteq Calls
  /\ closing \subseteq Calls /\ orphans \subseteq Calls
  /\ tracked \subseteq Sensors /\ active \subseteq Sensors
  /\ due \in [Sensors -> [Lifecycle -> Nat]]
  /\ ran \in [Sensors -> [Lifecycle -> Nat]]

\* What the cleanup of the device took exists only while it runs, and a closure that a
\* removal took only while that one runs.
HeldWhileRunning ==
  /\ closing # {} => release = "closures"
  /\ \A s \in Sensors : snapshot[s] > 0 => release \in {"closures", "teardown"}
  /\ \A c \in Calls : taken[c] # NoAdd => Removing(c)

\* Who answers for the wire of call c: the device, whoever took its closure, or nobody.
Held(c) == c \in Stored \cup closing \cup orphans \/ \E r \in Calls : taken[r] = c

\* What AddSensor did on the wire is in the hands of its call, or of whoever has its closure.
WireReached ==
  \A c \in handlers \cup feeds : step[c] \in {"subscribe", "store"} \/ Held(c)

\* A tracked sensor is listed, or about to be, or about to be untracked.
TrackedReached ==
  \A s \in tracked :
    \/ listed[s] > 0 \/ snapshot[s] > 0
    \/ \E c \in Calls : target[c] = s /\ step[c] \in {"append", "unregister"}

\* One as a number.
One(b) == IF b THEN 1 ELSE 0

\* Every activation is paid back by a deactivation or still counted in active.
Balanced ==
  \A s \in Sensors :
    ran[s]["start"] + due[s]["start"] = ran[s]["stop"] + due[s]["stop"] + One(s \in active)

\* When calls come one after the other, d.sensors lists every sensor that has a closure
\* or is active, until it is removed or the device is cleaned up.
InTurn ==
  /\ \A c \in Calls : Adding(c) =>
       release = "idle" /\ \A d \in Calls : target[d] = target[c] => ~Removing(d)
  /\ \A c \in Calls : step[c] \in {"expose", "subscribe", "store", "activate"} =>
       listed[target[c]] > 0
  /\ \A s \in Sensors :
       /\ cleanups[s] # NoAdd => listed[s] > 0
       /\ release # "idle" => listed[s] = 0
       /\ s \in active =>
            \/ listed[s] > 0 \/ snapshot[s] > 0
            \/ \E c \in Calls : target[c] = s /\ Removing(c)

\* When moreover no sensor is added again, one AddSensor at a time is on its way to
\* store a closure, and finds none.
AddedOnce ==
  /\ \A c, d \in Calls : Adding(c) /\ Adding(d) /\ target[c] = target[d] => c = d
  /\ \A c \in Calls : Adding(c) /\ step[c] # "activate" => cleanups[target[c]] = NoAdd
  /\ orphans = {}

\* The inductive invariant of a camera's sensors.
CameraIInv ==
  /\ SensorTypes /\ HeldWhileRunning /\ WireReached /\ TrackedReached /\ Balanced
  /\ "overlap" \notin Env => InTurn
  /\ Env \cap {"overlap", "again"} = {} => AddedOnce

\* A call goes on; the others, and what every call is about, are left alone.
LEMMA AtEffect ==
  ASSUME SensorTypes, NEW c \in Calls, step[c] # "idle", NEW p, At(c, p), target' = target,
         made' = made,
         p \in AddSteps \cup RemoveSteps \cup {"added", "failed", "removed"}
  PROVE  /\ step'[c] = p /\ target[c] \in Sensors
         /\ \A d \in Calls : d # c => step'[d] = step[d]
         /\ step' \in [Calls -> AddSteps \cup RemoveSteps \cup {"idle", "added", "failed", "removed"}]
         /\ \A d \in Calls : (d > made => step'[d] = "idle") /\ (step'[d] # "idle" => target[d] \in Sensors)
BY DEF SensorTypes, At, AddSteps, RemoveSteps

\* A new call is one that was not made.
LEMMA NewCall ==
  ASSUME SensorTypes, NEW s \in Sensors, NEW p, Call(s, p),
         p \in {"slot", "unregister", "failed"}
  PROVE  /\ made' \in Calls /\ made' \in 0 .. MaxCalls /\ made' > made
         /\ step[made'] = "idle" /\ step'[made'] = p /\ target'[made'] = s
         /\ \A d \in Calls : d # made' => step'[d] = step[d] /\ target'[d] = target[d]
         /\ \A d \in Calls : d <= made => d <= made' /\ d # made'
         /\ step' \in [Calls -> AddSteps \cup RemoveSteps \cup {"idle", "added", "failed", "removed"}]
         /\ target' \in [Calls -> Sensors \cup {NoAdd}]
         /\ \A d \in Calls : (d > made' => step'[d] = "idle") /\ (step'[d] # "idle" => target'[d] \in Sensors)
<1>1. made < MaxCalls /\ MaxCalls \in Nat /\ made \in Nat
  BY ScenesAssumption, CallsAssumption DEF SensorTypes, SceneType, Call
<1>2. made' = made + 1 /\ made' \in Calls /\ made' \in 0 .. MaxCalls
  BY <1>1 DEF Call, Calls
<1>3. \A d \in Calls : d <= made => d <= made' /\ d # made'
  BY <1>1, <1>2 DEF Calls
<1>4. /\ step' = [step EXCEPT ![made'] = p]
      /\ target' = [target EXCEPT ![made'] = s]
  BY DEF Call, At
<1>5. step[made'] = "idle"
  BY <1>1, <1>2 DEF SensorTypes
<1>6. /\ step'[made'] = p /\ target'[made'] = s
      /\ \A d \in Calls : d # made' => step'[d] = step[d] /\ target'[d] = target[d]
  BY <1>2, <1>4 DEF SensorTypes
<1>7. /\ step' \in [Calls -> AddSteps \cup RemoveSteps \cup {"idle", "added", "failed", "removed"}]
      /\ target' \in [Calls -> Sensors \cup {NoAdd}]
  BY <1>2, <1>4 DEF SensorTypes, AddSteps, RemoveSteps
<1>8. \A d \in Calls : (d > made' => step'[d] = "idle") /\ (step'[d] # "idle" => target'[d] \in Sensors)
  <2>1. \A d \in Calls : d > made' => d > made /\ d # made'
    BY <1>1, <1>2 DEF Calls
  <2> QED
    BY <1>6, <2>1 DEF SensorTypes
<1>9. made' > made
  BY <1>1, <1>2
<1> QED
  BY <1>2, <1>3, <1>5, <1>6, <1>7, <1>8, <1>9

\* Every step keeps the types.
LEMMA SensorTypesStep ==
  SensorTypes /\ [Next]_vars => SensorTypes'
<1> SUFFICES ASSUME SensorTypes, [Next]_vars PROVE SensorTypes'
  OBVIOUS
<1>0. scene.sensors \subseteq Sensors
  BY ScenesAssumption DEF SensorTypes, SceneType
<1>1. CASE Cleanup
  <2>1. Stored \subseteq Calls
    BY DEF Stored, SensorTypes
  <2>2. listed' \in [Sensors -> Nat] /\ cleanups' \in [Sensors -> Calls \cup {NoAdd}]
    BY <1>1 DEF Cleanup, NoAdd
  <2>3. \A s \in Sensors : cleanups'[s] = NoAdd
    BY <1>1 DEF Cleanup
  <2> QED
    BY <1>1, <2>1, <2>2, <2>3 DEF Cleanup, lifeVars, SensorTypes
<1>2. CASE RunClosures
  BY <1>2 DEF RunClosures, mapVars, lifeVars, SensorTypes, AddSteps, RemoveSteps, NoAdd,
     Lifecycle
<1>3. CASE CleanupDone
  BY <1>3 DEF CleanupDone, mapVars, wireVars, lifeVars, SensorTypes, AddSteps, RemoveSteps,
     NoAdd, Lifecycle
<1>4. ASSUME NEW s \in Sensors, CleanupSensor(s) PROVE SensorTypes'
  BY <1>4 DEF CleanupSensor, Deactivate, callVars, SensorTypes, AddSteps, RemoveSteps,
     NoAdd, Lifecycle
<1>5. ASSUME NEW s \in Sensors, AddSensor(s) PROVE SensorTypes'
  <2>1. /\ made' \in 0 .. MaxCalls
        /\ step' \in [Calls -> AddSteps \cup RemoveSteps \cup {"idle", "added", "failed", "removed"}]
        /\ target' \in [Calls -> Sensors \cup {NoAdd}]
        /\ \A d \in Calls : (d > made' => step'[d] = "idle") /\ (step'[d] # "idle" => target'[d] \in Sensors)
    BY <1>5, NewCall DEF AddSensor
  <2>2. \A d \in Calls : d <= made => d <= made' /\ target'[d] = target[d]
    BY <1>5, NewCall DEF AddSensor
  <2>3. UNCHANGED <<scene, release, mapVars, wireVars, lifeVars>>
    BY <1>5 DEF AddSensor
  <2> QED
    BY <2>1, <2>2, <2>3 DEF mapVars, wireVars, lifeVars, SensorTypes, NoAdd
<1>6. ASSUME NEW s \in Sensors, RemoveSensor(s) PROVE SensorTypes'
  <2>1. /\ made' \in Calls /\ made' \in 0 .. MaxCalls
        /\ step' \in [Calls -> AddSteps \cup RemoveSteps \cup {"idle", "added", "failed", "removed"}]
        /\ target' \in [Calls -> Sensors \cup {NoAdd}]
        /\ \A d \in Calls : (d > made' => step'[d] = "idle") /\ (step'[d] # "idle" => target'[d] \in Sensors)
    BY <1>6, NewCall DEF RemoveSensor
  <2>2. \A d \in Calls : d <= made => d <= made' /\ target'[d] = target[d]
    BY <1>6, NewCall DEF RemoveSensor
  <2>3. /\ cleanups' \in [Sensors -> Calls \cup {NoAdd}] /\ taken' \in [Calls -> Calls \cup {NoAdd}]
        /\ listed' \in [Sensors -> Nat]
    BY <1>6, <2>1 DEF RemoveSensor, SensorTypes
  <2>4. \A q \in Sensors : cleanups'[q] # NoAdd => cleanups'[q] = cleanups[q]
    BY <1>6 DEF RemoveSensor, SensorTypes
  <2>5. \A c \in Calls : taken'[c] # NoAdd => c = made' \/ taken[c] # NoAdd
    BY <1>6, <2>1 DEF RemoveSensor, SensorTypes
  <2>6. \A q \in Sensors : cleanups'[q] # NoAdd =>
             cleanups'[q] <= made' /\ target'[cleanups'[q]] = q
    BY <2>2, <2>3, <2>4 DEF SensorTypes, NoAdd
  <2>7. made' <= made'
    BY <2>1
  <2>8. \A c \in Calls : taken'[c] # NoAdd => c <= made'
    BY <2>2, <2>5, <2>7 DEF SensorTypes
  <2> QED
    BY <1>6, <2>1, <2>3, <2>6, <2>8 DEF RemoveSensor, lifeVars, SensorTypes
<1>7. ASSUME NEW s \in Sensors, RemoveMissing(s) PROVE SensorTypes'
  <2>1. /\ made' \in 0 .. MaxCalls
        /\ step' \in [Calls -> AddSteps \cup RemoveSteps \cup {"idle", "added", "failed", "removed"}]
        /\ target' \in [Calls -> Sensors \cup {NoAdd}]
        /\ \A d \in Calls : (d > made' => step'[d] = "idle") /\ (step'[d] # "idle" => target'[d] \in Sensors)
    BY <1>7, NewCall DEF RemoveMissing
  <2>2. \A d \in Calls : d <= made => d <= made' /\ target'[d] = target[d]
    BY <1>7, NewCall DEF RemoveMissing
  <2>3. cleanups' \in [Sensors -> Calls \cup {NoAdd}] /\ orphans' \subseteq Calls
    <3>1. cleanups[s] \in Calls
      BY <1>7 DEF RemoveMissing, SensorTypes
    <3>2. orphans' \subseteq Calls
      <4>1. orphans' = orphans \cup {cleanups[s]}
        BY <1>7 DEF RemoveMissing
      <4>2. orphans \subseteq Calls
        BY DEF SensorTypes
      <4> QED
        BY <3>1, <4>1, <4>2
    <3>3. cleanups' \in [Sensors -> Calls \cup {NoAdd}]
      BY <1>7 DEF RemoveMissing, SensorTypes
    <3> QED
      BY <3>2, <3>3
  <2>4. \A q \in Sensors : cleanups'[q] # NoAdd => cleanups'[q] = cleanups[q]
    BY <1>7 DEF RemoveMissing, SensorTypes
  <2>5. \A q \in Sensors : cleanups'[q] # NoAdd =>
             cleanups'[q] <= made' /\ target'[cleanups'[q]] = q
    BY <2>2, <2>3, <2>4 DEF SensorTypes, NoAdd
  <2> QED
    BY <1>7, <2>1, <2>2, <2>3, <2>5 DEF RemoveMissing, lifeVars, SensorTypes
<1>8. ASSUME NEW c \in Calls, AcquireSlot(c) PROVE SensorTypes'
  BY <1>8, AtEffect DEF AcquireSlot, mapVars, wireVars, lifeVars, SensorTypes, AddSteps,
     RemoveSteps, NoAdd, Lifecycle
<1>9. ASSUME NEW c \in Calls, RegisterSensor(c) PROVE SensorTypes'
  BY <1>9, AtEffect DEF RegisterSensor, Fail, wireVars, lifeVars, SensorTypes, AddSteps,
     RemoveSteps, NoAdd, Lifecycle
<1>10. ASSUME NEW c \in Calls, AppendSensor(c) PROVE SensorTypes'
  BY <1>10, AtEffect DEF AppendSensor, wireVars, lifeVars, SensorTypes, AddSteps,
     RemoveSteps, NoAdd, Lifecycle
<1>11. ASSUME NEW c \in Calls, ExposeSensor(c) PROVE SensorTypes'
  BY <1>11, AtEffect DEF ExposeSensor, Fail, mapVars, lifeVars, SensorTypes, AddSteps,
     RemoveSteps, NoAdd, Lifecycle
<1>12. ASSUME NEW c \in Calls, SubscribeSensor(c) PROVE SensorTypes'
  BY <1>12, AtEffect DEF SubscribeSensor, mapVars, lifeVars, SensorTypes, AddSteps,
     RemoveSteps, NoAdd, Lifecycle
<1>13. ASSUME NEW c \in Calls, StoreCleanup(c) PROVE SensorTypes'
  <2>1. /\ step[c] = "store" /\ target[c] \in Sensors /\ c <= made
        /\ step' \in [Calls -> AddSteps \cup RemoveSteps \cup {"idle", "added", "failed", "removed"}]
        /\ \A d \in Calls : (d > made => step'[d] = "idle") /\ (step'[d] # "idle" => target[d] \in Sensors)
    <3>1. step[c] = "store" /\ At(c, "activate") /\ made' = made /\ target' = target
      BY <1>13 DEF StoreCleanup
    <3>2. c <= made
      BY <3>1, CallsAssumption DEF SensorTypes, Calls
    <3> QED
      BY <3>1, <3>2, AtEffect DEF AddSteps
  <2>2. cleanups' \in [Sensors -> Calls \cup {NoAdd}] /\ orphans' \subseteq Calls
    <3>1. cleanups[target[c]] \in Calls \cup {NoAdd}
      BY <2>1 DEF SensorTypes
    <3>2. orphans' \subseteq Calls
      <4>1. orphans' = orphans \cup ({cleanups[target[c]]} \ {NoAdd})
        BY <1>13 DEF StoreCleanup
      <4>2. orphans \subseteq Calls
        BY DEF SensorTypes
      <4> QED
        BY <3>1, <4>1, <4>2
    <3>3. cleanups' \in [Sensors -> Calls \cup {NoAdd}]
      BY <1>13, <2>1 DEF StoreCleanup, SensorTypes
    <3> QED
      BY <3>2, <3>3
  <2>3. \A s \in Sensors : cleanups'[s] = IF s = target[c] THEN c ELSE cleanups[s]
    BY <1>13 DEF StoreCleanup, SensorTypes
  <2> QED
    BY <1>13, <2>1, <2>2, <2>3 DEF StoreCleanup, lifeVars, SensorTypes
<1>14. ASSUME NEW c \in Calls, Activate(c) PROVE SensorTypes'
  <2>1. /\ target[c] \in Sensors
        /\ step' \in [Calls -> AddSteps \cup RemoveSteps \cup {"idle", "added", "failed", "removed"}]
        /\ \A d \in Calls : (d > made => step'[d] = "idle") /\ (step'[d] # "idle" => target[d] \in Sensors)
    BY <1>14, AtEffect DEF Activate
  <2>2. active' \subseteq Sensors /\ due' \in [Sensors -> [Lifecycle -> Nat]]
    <3>1. CASE target[c] \in active
      BY <1>14, <3>1 DEF Activate, SensorTypes
    <3>2. CASE target[c] \notin active
      BY <1>14, <2>1, <3>2 DEF Activate, SensorTypes, Lifecycle
    <3> QED
      BY <3>1, <3>2
  <2> QED
    BY <1>14, <2>1, <2>2 DEF Activate, mapVars, wireVars, SensorTypes
<1>15. ASSUME NEW c \in Calls, UnregisterSensor(c) PROVE SensorTypes'
  BY <1>15, AtEffect DEF UnregisterSensor, wireVars, lifeVars, SensorTypes, AddSteps,
     RemoveSteps, NoAdd, Lifecycle
<1>16. ASSUME NEW c \in Calls, RemoveDone(c) PROVE SensorTypes'
  BY <1>16, AtEffect DEF RemoveDone, Deactivate, mapVars, SensorTypes, AddSteps,
     RemoveSteps, NoAdd, Lifecycle
<1>17. ASSUME NEW s \in Sensors, RunLifecycle(s) PROVE SensorTypes'
  BY <1>17 DEF RunLifecycle, callVars, mapVars, wireVars, SensorTypes, AddSteps,
     RemoveSteps, NoAdd, Lifecycle
<1>18. CASE UNCHANGED vars
  BY <1>18 DEF vars, callVars, mapVars, wireVars, lifeVars, SensorTypes, AddSteps,
     RemoveSteps, NoAdd, Lifecycle
<1> QED
  BY <1>0, <1>1, <1>2, <1>3, <1>4, <1>5, <1>6, <1>7, <1>8, <1>9, <1>10, <1>11, <1>12,
     <1>13, <1>14, <1>15, <1>16, <1>17, <1>18 DEF Next, CleanupStep, AddStep, RemoveStep

\* A step that moves no closure and ends no removal.
LEMMA HeldKept ==
  ASSUME HeldWhileRunning, UNCHANGED <<release, closing, snapshot, taken>>,
         \A c \in Calls : step[c] \in RemoveSteps => step'[c] \in RemoveSteps
  PROVE  HeldWhileRunning'
BY DEF HeldWhileRunning, Removing

\* A closure that was taken is run before its taker ends.
LEMMA HeldStep ==
  SensorTypes /\ HeldWhileRunning /\ [Next]_vars => HeldWhileRunning'
<1> SUFFICES ASSUME SensorTypes, HeldWhileRunning, [Next]_vars PROVE HeldWhileRunning'
  OBVIOUS
<1>0. scene.sensors \subseteq Sensors
  BY ScenesAssumption DEF SensorTypes, SceneType
<1>1. CASE Cleanup
  BY <1>1 DEF Cleanup, lifeVars, SensorTypes, HeldWhileRunning, Removing, RemoveSteps,
     AddSteps
<1>2. CASE RunClosures
  BY <1>2 DEF RunClosures, mapVars, lifeVars, SensorTypes, HeldWhileRunning, Removing,
     RemoveSteps, AddSteps
<1>3. CASE CleanupDone
  BY <1>3 DEF CleanupDone, mapVars, wireVars, lifeVars, SensorTypes, HeldWhileRunning,
     Removing, RemoveSteps, AddSteps
<1>4. ASSUME NEW s \in Sensors, CleanupSensor(s) PROVE HeldWhileRunning'
  BY <1>4 DEF CleanupSensor, Deactivate, callVars, SensorTypes, HeldWhileRunning, Removing,
     RemoveSteps, AddSteps
<1>5. ASSUME NEW s \in Sensors, AddSensor(s) PROVE HeldWhileRunning'
  BY <1>5, NewCall DEF AddSensor, mapVars, wireVars, lifeVars, SensorTypes,
     HeldWhileRunning, Removing, RemoveSteps, AddSteps
<1>6. ASSUME NEW s \in Sensors, RemoveSensor(s) PROVE HeldWhileRunning'
  BY <1>6, NewCall DEF RemoveSensor, lifeVars, SensorTypes, HeldWhileRunning, Removing,
     RemoveSteps, AddSteps
<1>7. ASSUME NEW s \in Sensors, RemoveMissing(s) PROVE HeldWhileRunning'
  BY <1>7, NewCall DEF RemoveMissing, lifeVars, SensorTypes, HeldWhileRunning, Removing,
     RemoveSteps, AddSteps
<1>8. ASSUME NEW c \in Calls, AcquireSlot(c) PROVE HeldWhileRunning'
  BY <1>8, AtEffect, HeldKept DEF AcquireSlot, mapVars, wireVars, lifeVars, AddSteps,
     RemoveSteps
<1>9. ASSUME NEW c \in Calls, RegisterSensor(c) PROVE HeldWhileRunning'
  BY <1>9, AtEffect, HeldKept DEF RegisterSensor, Fail, wireVars, lifeVars, AddSteps,
     RemoveSteps
<1>10. ASSUME NEW c \in Calls, AppendSensor(c) PROVE HeldWhileRunning'
  BY <1>10, AtEffect, HeldKept DEF AppendSensor, wireVars, lifeVars, AddSteps, RemoveSteps
<1>11. ASSUME NEW c \in Calls, ExposeSensor(c) PROVE HeldWhileRunning'
  BY <1>11, AtEffect, HeldKept DEF ExposeSensor, Fail, mapVars, lifeVars, AddSteps, RemoveSteps
<1>12. ASSUME NEW c \in Calls, SubscribeSensor(c) PROVE HeldWhileRunning'
  BY <1>12, AtEffect, HeldKept DEF SubscribeSensor, mapVars, lifeVars, AddSteps, RemoveSteps
<1>13. ASSUME NEW c \in Calls, StoreCleanup(c) PROVE HeldWhileRunning'
  BY <1>13, AtEffect, HeldKept DEF StoreCleanup, lifeVars, AddSteps, RemoveSteps
<1>14. ASSUME NEW c \in Calls, Activate(c) PROVE HeldWhileRunning'
  BY <1>14, AtEffect, HeldKept DEF Activate, mapVars, wireVars, AddSteps, RemoveSteps
<1>15. ASSUME NEW c \in Calls, UnregisterSensor(c) PROVE HeldWhileRunning'
  BY <1>15, AtEffect, HeldKept DEF UnregisterSensor, wireVars, lifeVars, AddSteps, RemoveSteps
<1>16. ASSUME NEW c \in Calls, RemoveDone(c) PROVE HeldWhileRunning'
  <2>1. /\ taken' = [taken EXCEPT ![c] = NoAdd] /\ step' = [step EXCEPT ![c] = "removed"]
        /\ UNCHANGED <<release, closing, snapshot>>
    BY <1>16 DEF RemoveDone, At
  <2>2. /\ taken'[c] = NoAdd
        /\ \A d \in Calls : d # c => taken'[d] = taken[d] /\ step'[d] = step[d]
    BY <2>1 DEF SensorTypes
  <2> QED
    BY <2>1, <2>2 DEF HeldWhileRunning, Removing
<1>17. ASSUME NEW s \in Sensors, RunLifecycle(s) PROVE HeldWhileRunning'
  BY <1>17 DEF RunLifecycle, callVars, mapVars, wireVars, SensorTypes, HeldWhileRunning,
     Removing, RemoveSteps, AddSteps
<1>18. CASE UNCHANGED vars
  BY <1>18 DEF vars, callVars, mapVars, wireVars, lifeVars, SensorTypes, HeldWhileRunning,
     Removing, RemoveSteps, AddSteps
<1> QED
  BY <1>0, <1>1, <1>2, <1>3, <1>4, <1>5, <1>6, <1>7, <1>8, <1>9, <1>10, <1>11, <1>12,
     <1>13, <1>14, <1>15, <1>16, <1>17, <1>18 DEF Next, CleanupStep, AddStep, RemoveStep

\* A step that moves no closure, and adds to the wire only for a call that is to store one.
LEMMA WireKept ==
  ASSUME WireReached, UNCHANGED <<cleanups, taken, closing, orphans>>,
         \A c \in handlers' \cup feeds' :
           c \in handlers \cup feeds \/ step'[c] \in {"subscribe", "store"},
         \A c \in handlers \cup feeds :
           step[c] \in {"subscribe", "store"} => step'[c] \in {"subscribe", "store"}
  PROVE  WireReached'
<1>1. \A c : Held(c) => Held(c)'
  BY DEF Held, Stored
<1> QED
  BY <1>1 DEF WireReached

\* A closure leaves the map only into the hands of who runs it, or is an orphan.
LEMMA WireReachedStep ==
  SensorTypes /\ HeldWhileRunning /\ WireReached /\ [Next]_vars => WireReached'
<1> SUFFICES ASSUME SensorTypes, HeldWhileRunning, WireReached, [Next]_vars PROVE WireReached'
  OBVIOUS
<1>0. scene.sensors \subseteq Sensors
  BY ScenesAssumption DEF SensorTypes, SceneType
<1>1. CASE Cleanup
  <2>1. \A c : Held(c) => Held(c)'
    <3>1. closing = {}
      BY <1>1 DEF Cleanup, HeldWhileRunning
    <3>2. closing' = Stored /\ UNCHANGED <<taken, orphans>>
      BY <1>1 DEF Cleanup
    <3> QED
      BY <3>1, <3>2 DEF Held
  <2> QED
    BY <1>1, <2>1 DEF Cleanup, WireReached
<1>2. CASE RunClosures
  <2>1. \A c : Held(c) /\ c \notin closing => Held(c)'
    BY <1>2 DEF RunClosures, mapVars, Held, Stored
  <2> QED
    BY <1>2, <2>1 DEF RunClosures, WireReached
<1>3. CASE CleanupDone
  BY <1>3, WireKept DEF CleanupDone, mapVars, wireVars, lifeVars, SensorTypes, AddSteps,
     RemoveSteps
<1>4. ASSUME NEW s \in Sensors, CleanupSensor(s) PROVE WireReached'
  BY <1>4, WireKept DEF CleanupSensor, Deactivate, callVars, SensorTypes, AddSteps, RemoveSteps
<1>5. ASSUME NEW s \in Sensors, AddSensor(s) PROVE WireReached'
  BY <1>5, NewCall, WireKept DEF AddSensor, mapVars, wireVars, lifeVars, SensorTypes,
     AddSteps, RemoveSteps
<1>6. ASSUME NEW s \in Sensors, RemoveSensor(s) PROVE WireReached'
  <2>1. /\ made' \in Calls /\ step[made'] = "idle"
        /\ \A d \in Calls : d # made' => step'[d] = step[d]
    BY <1>6, NewCall DEF RemoveSensor
  <2>2. taken[made'] = NoAdd
    BY <2>1 DEF HeldWhileRunning, Removing, RemoveSteps
  <2>3. /\ cleanups' = [cleanups EXCEPT ![s] = NoAdd]
        /\ taken' = [taken EXCEPT ![made'] = cleanups[s]]
        /\ UNCHANGED <<handlers, feeds, closing, orphans>>
    BY <1>6 DEF RemoveSensor
  <2>4. ASSUME NEW c \in Calls, Held(c) PROVE Held(c)'
    <3>1. CASE c \in closing \cup orphans
      BY <2>3, <3>1 DEF Held
    <3>2. CASE c \in Stored
      <4>1. PICK q \in Sensors : c = cleanups[q]
        BY <3>2 DEF Stored
      <4>2. CASE q = s
        <5>1. taken'[made'] = c
          BY <2>1, <2>3, <4>1, <4>2 DEF SensorTypes
        <5> QED
          BY <2>1, <5>1 DEF Held
      <4>3. CASE q # s
        <5>1. cleanups'[q] = c /\ c # NoAdd
          BY <2>3, <4>1, <4>3 DEF SensorTypes, Calls, NoAdd
        <5> QED
          BY <5>1 DEF Held, Stored
      <4> QED
        BY <4>2, <4>3
    <3>3. CASE \E r \in Calls : taken[r] = c
      <4>1. PICK r \in Calls : taken[r] = c
        BY <3>3
      <4>2. taken'[r] = c
        BY <2>2, <2>3, <4>1 DEF SensorTypes, Calls, NoAdd
      <4> QED
        BY <4>1, <4>2 DEF Held
    <3> QED
      BY <2>4, <3>1, <3>2, <3>3 DEF Held
  <2> QED
    BY <2>1, <2>3, <2>4 DEF WireReached, SensorTypes
<1>7. ASSUME NEW s \in Sensors, RemoveMissing(s) PROVE WireReached'
  <2>1. /\ made' \in Calls /\ step[made'] = "idle"
        /\ \A d \in Calls : d # made' => step'[d] = step[d]
    BY <1>7, NewCall DEF RemoveMissing
  <2>2. /\ cleanups' = [cleanups EXCEPT ![s] = NoAdd]
        /\ orphans' = orphans \cup {cleanups[s]}
        /\ UNCHANGED <<handlers, feeds, closing, taken>>
    BY <1>7 DEF RemoveMissing
  <2>3. \A c \in Stored : c \in (Stored \cup orphans)'
    BY <2>2 DEF Stored, SensorTypes
  <2>4. \A c \in Calls : Held(c) => Held(c)'
    BY <2>2, <2>3 DEF Held
  <2> QED
    BY <2>1, <2>2, <2>4 DEF WireReached, SensorTypes
<1>8. ASSUME NEW c \in Calls, AcquireSlot(c) PROVE WireReached'
  BY <1>8, AtEffect, WireKept DEF AcquireSlot, mapVars, wireVars, lifeVars, SensorTypes,
     AddSteps, RemoveSteps
<1>9. ASSUME NEW c \in Calls, RegisterSensor(c) PROVE WireReached'
  BY <1>9, AtEffect, WireKept DEF RegisterSensor, Fail, wireVars, lifeVars, SensorTypes,
     AddSteps, RemoveSteps
<1>10. ASSUME NEW c \in Calls, AppendSensor(c) PROVE WireReached'
  BY <1>10, AtEffect, WireKept DEF AppendSensor, wireVars, lifeVars, SensorTypes, AddSteps,
     RemoveSteps
<1>11. ASSUME NEW c \in Calls, ExposeSensor(c) PROVE WireReached'
  BY <1>11, AtEffect, WireKept DEF ExposeSensor, Fail, mapVars, lifeVars, SensorTypes, AddSteps,
     RemoveSteps
<1>12. ASSUME NEW c \in Calls, SubscribeSensor(c) PROVE WireReached'
  BY <1>12, AtEffect, WireKept DEF SubscribeSensor, mapVars, lifeVars, SensorTypes, AddSteps,
     RemoveSteps
<1>13. ASSUME NEW c \in Calls, StoreCleanup(c) PROVE WireReached'
  <2>1. /\ \A d \in Calls : d # c => step'[d] = step[d]
        /\ target[c] \in Sensors
    BY <1>13, AtEffect DEF StoreCleanup, AddSteps
  <2>2. /\ cleanups' = [cleanups EXCEPT ![target[c]] = c]
        /\ orphans' = orphans \cup ({cleanups[target[c]]} \ {NoAdd})
        /\ UNCHANGED <<handlers, feeds, closing, taken>>
    BY <1>13 DEF StoreCleanup
  <2>3. \A d \in Stored : d \in (Stored \cup orphans)'
    BY <2>1, <2>2 DEF Stored, SensorTypes
  <2>4. \A d \in Calls : Held(d) => Held(d)'
    BY <2>2, <2>3 DEF Held
  <2>5. c \in Stored'
    BY <2>1, <2>2 DEF Stored, SensorTypes, Calls, NoAdd
  <2> QED
    BY <2>1, <2>2, <2>4, <2>5 DEF WireReached, SensorTypes, Held
<1>14. ASSUME NEW c \in Calls, Activate(c) PROVE WireReached'
  BY <1>14, AtEffect, WireKept DEF Activate, mapVars, wireVars, SensorTypes, AddSteps,
     RemoveSteps
<1>15. ASSUME NEW c \in Calls, UnregisterSensor(c) PROVE WireReached'
  BY <1>15, AtEffect, WireKept DEF UnregisterSensor, wireVars, lifeVars, SensorTypes, AddSteps,
     RemoveSteps
<1>16. ASSUME NEW c \in Calls, RemoveDone(c) PROVE WireReached'
  <2>1. /\ \A d \in Calls : d # c => step'[d] = step[d]
        /\ step[c] = "cleanup"
    BY <1>16, AtEffect DEF RemoveDone, RemoveSteps
  <2>2. /\ taken' = [taken EXCEPT ![c] = NoAdd]
        /\ handlers' = handlers \ {taken[c]} /\ feeds' = feeds \ {taken[c]}
        /\ UNCHANGED <<cleanups, closing, orphans>>
    BY <1>16 DEF RemoveDone, mapVars
  <2>3. \A d \in Calls : Held(d) /\ d # taken[c] => Held(d)'
    BY <2>2 DEF Held, Stored, SensorTypes
  <2> QED
    BY <2>1, <2>2, <2>3 DEF WireReached, SensorTypes
<1>17. ASSUME NEW s \in Sensors, RunLifecycle(s) PROVE WireReached'
  BY <1>17, WireKept DEF RunLifecycle, callVars, mapVars, wireVars, SensorTypes, AddSteps,
     RemoveSteps
<1>18. CASE UNCHANGED vars
  BY <1>18, WireKept DEF vars, callVars, mapVars, wireVars, lifeVars, SensorTypes, AddSteps,
     RemoveSteps
<1> QED
  BY <1>0, <1>1, <1>2, <1>3, <1>4, <1>5, <1>6, <1>7, <1>8, <1>9, <1>10, <1>11, <1>12,
     <1>13, <1>14, <1>15, <1>16, <1>17, <1>18 DEF Next, CleanupStep, AddStep, RemoveStep

\* A step that unlists and untracks no sensor.
LEMMA TrackedKept ==
  ASSUME TrackedReached, UNCHANGED <<listed, snapshot>>, tracked' \subseteq tracked,
         \A c \in Calls : step[c] \in {"append", "unregister"} =>
           step'[c] \in {"append", "unregister"} /\ target'[c] = target[c]
  PROVE  TrackedReached'
BY DEF TrackedReached

\* A sensor leaves d.sensors only into the hands of who untracks it.
LEMMA TrackedReachedStep ==
  SensorTypes /\ HeldWhileRunning /\ TrackedReached /\ [Next]_vars => TrackedReached'
<1> SUFFICES ASSUME SensorTypes, HeldWhileRunning, TrackedReached, [Next]_vars PROVE TrackedReached'
  OBVIOUS
<1>0. scene.sensors \subseteq Sensors
  BY ScenesAssumption DEF SensorTypes, SceneType
<1>1. CASE Cleanup
  BY <1>1 DEF Cleanup, lifeVars, SensorTypes, HeldWhileRunning, TrackedReached, RemoveSteps,
     AddSteps
<1>2. CASE RunClosures
  BY <1>2 DEF RunClosures, mapVars, lifeVars, SensorTypes, HeldWhileRunning, TrackedReached,
     RemoveSteps, AddSteps
<1>3. CASE CleanupDone
  BY <1>3 DEF CleanupDone, mapVars, wireVars, lifeVars, SensorTypes, HeldWhileRunning,
     TrackedReached, RemoveSteps, AddSteps
<1>4. ASSUME NEW s \in Sensors, CleanupSensor(s) PROVE TrackedReached'
  BY <1>4 DEF CleanupSensor, Deactivate, callVars, SensorTypes, HeldWhileRunning,
     TrackedReached, RemoveSteps, AddSteps
<1>5. ASSUME NEW s \in Sensors, AddSensor(s) PROVE TrackedReached'
  BY <1>5, NewCall, TrackedKept DEF AddSensor, mapVars, wireVars
<1>6. ASSUME NEW s \in Sensors, RemoveSensor(s) PROVE TrackedReached'
  BY <1>6, NewCall DEF RemoveSensor, lifeVars, SensorTypes, HeldWhileRunning,
     TrackedReached, RemoveSteps, AddSteps
<1>7. ASSUME NEW s \in Sensors, RemoveMissing(s) PROVE TrackedReached'
  BY <1>7, NewCall, TrackedKept DEF RemoveMissing
<1>8. ASSUME NEW c \in Calls, AcquireSlot(c) PROVE TrackedReached'
  BY <1>8, AtEffect, TrackedKept DEF AcquireSlot, mapVars, wireVars, lifeVars, AddSteps,
     RemoveSteps
<1>9. ASSUME NEW c \in Calls, RegisterSensor(c) PROVE TrackedReached'
  BY <1>9, AtEffect DEF RegisterSensor, Fail, wireVars, lifeVars, SensorTypes,
     HeldWhileRunning, TrackedReached, RemoveSteps, AddSteps
<1>10. ASSUME NEW c \in Calls, AppendSensor(c) PROVE TrackedReached'
  <2>1. /\ listed' = [listed EXCEPT ![target[c]] = listed[target[c]] + 1] /\ target[c] \in Sensors
        /\ UNCHANGED <<target, tracked, snapshot>>
    <3>1. target[c] \in Sensors
      BY <1>10 DEF AppendSensor, SensorTypes
    <3> QED
      BY <1>10, <3>1 DEF AppendSensor, wireVars
  <2>2. \A q \in Sensors : (q = target[c] => listed'[q] > 0) /\ (listed[q] > 0 => listed'[q] > 0)
    BY <2>1 DEF SensorTypes
  <2>3. \A d \in Calls : d # c => step'[d] = step[d]
    BY <1>10 DEF AppendSensor, At, SensorTypes
  <2> SUFFICES ASSUME NEW s \in tracked
               PROVE  \/ listed'[s] > 0 \/ snapshot[s] > 0
                      \/ \E d \in Calls : target[d] = s /\ step'[d] \in {"append", "unregister"}
    BY <2>1 DEF TrackedReached
  <2>4. s \in Sensors
    BY DEF SensorTypes
  <2>5. CASE listed[s] > 0 \/ snapshot[s] > 0
    BY <2>2, <2>4, <2>5
  <2>6. ASSUME NEW d \in Calls, target[d] = s, step[d] \in {"append", "unregister"}
        PROVE  listed'[s] > 0 \/ step'[d] \in {"append", "unregister"}
    BY <2>2, <2>3, <2>4, <2>6
  <2> QED
    BY <2>5, <2>6 DEF TrackedReached
<1>11. ASSUME NEW c \in Calls, ExposeSensor(c) PROVE TrackedReached'
  BY <1>11, AtEffect, TrackedKept DEF ExposeSensor, Fail, mapVars, lifeVars, AddSteps,
     RemoveSteps
<1>12. ASSUME NEW c \in Calls, SubscribeSensor(c) PROVE TrackedReached'
  BY <1>12, AtEffect, TrackedKept DEF SubscribeSensor, mapVars, lifeVars, AddSteps, RemoveSteps
<1>13. ASSUME NEW c \in Calls, StoreCleanup(c) PROVE TrackedReached'
  BY <1>13, AtEffect, TrackedKept DEF StoreCleanup, lifeVars, AddSteps, RemoveSteps
<1>14. ASSUME NEW c \in Calls, Activate(c) PROVE TrackedReached'
  BY <1>14, AtEffect, TrackedKept DEF Activate, mapVars, wireVars, AddSteps, RemoveSteps
<1>15. ASSUME NEW c \in Calls, UnregisterSensor(c) PROVE TrackedReached'
  <2>1. /\ tracked' = tracked \ {target[c]}
        /\ UNCHANGED <<target, listed, snapshot>>
    BY <1>15 DEF UnregisterSensor, wireVars
  <2>2. \A d \in Calls : d # c => step'[d] = step[d]
    BY <1>15 DEF UnregisterSensor, At, SensorTypes
  <2> QED
    BY <2>1, <2>2 DEF TrackedReached
<1>16. ASSUME NEW c \in Calls, RemoveDone(c) PROVE TrackedReached'
  BY <1>16, AtEffect, TrackedKept DEF RemoveDone, Deactivate, mapVars, AddSteps, RemoveSteps
<1>17. ASSUME NEW s \in Sensors, RunLifecycle(s) PROVE TrackedReached'
  BY <1>17 DEF RunLifecycle, callVars, mapVars, wireVars, SensorTypes, HeldWhileRunning,
     TrackedReached, RemoveSteps, AddSteps
<1>18. CASE UNCHANGED vars
  BY <1>18 DEF vars, callVars, mapVars, wireVars, lifeVars, SensorTypes, HeldWhileRunning,
     TrackedReached, RemoveSteps, AddSteps
<1> QED
  BY <1>0, <1>1, <1>2, <1>3, <1>4, <1>5, <1>6, <1>7, <1>8, <1>9, <1>10, <1>11, <1>12,
     <1>13, <1>14, <1>15, <1>16, <1>17, <1>18 DEF Next, CleanupStep, AddStep, RemoveStep

\* A callback that is due moves from the one side of the balance to the other.
LEMMA BalancedSame ==
  Balanced /\ UNCHANGED lifeVars => Balanced'
BY DEF Balanced, lifeVars

\* Deactivating an active sensor owes it one OnStop, doing so again none.
LEMMA DeactivateBalanced ==
  ASSUME SensorTypes, Balanced, NEW s \in Sensors, Deactivate(s), UNCHANGED ran
  PROVE  Balanced'
<1> SUFFICES ASSUME NEW q \in Sensors
             PROVE  ran[q]["start"] + due'[q]["start"]
                      = ran[q]["stop"] + due'[q]["stop"] + One(q \in active')
  BY DEF Balanced, One
<1>1. /\ ran[q]["start"] \in Nat /\ ran[q]["stop"] \in Nat
      /\ due[q]["start"] \in Nat /\ due[q]["stop"] \in Nat
      /\ ran[q]["start"] + due[q]["start"] = ran[q]["stop"] + due[q]["stop"] + One(q \in active)
  BY DEF SensorTypes, Balanced, Lifecycle
<1>2. CASE q = s /\ s \in active
  <2>1. /\ due'[q]["start"] = due[q]["start"] /\ due'[q]["stop"] = due[q]["stop"] + 1
        /\ q \notin active'
    BY <1>2 DEF Deactivate, SensorTypes, Lifecycle
  <2> QED
    BY <1>1, <1>2, <2>1 DEF One
<1>3. CASE ~(q = s /\ s \in active)
  <2>1. due'[q] = due[q] /\ (q \in active' <=> q \in active)
    BY <1>3 DEF Deactivate, SensorTypes
  <2> QED
    BY <1>1, <2>1 DEF One
<1> QED
  BY <1>2, <1>3

\* An activation owes one OnStart, and the deactivation that ends it one OnStop; a
\* callback that runs is no longer owed.
LEMMA BalancedStep ==
  SensorTypes /\ Balanced /\ [Next]_vars => Balanced'
<1> SUFFICES ASSUME SensorTypes, Balanced, [Next]_vars PROVE Balanced'
  OBVIOUS
<1>0. scene.sensors \subseteq Sensors
  BY ScenesAssumption DEF SensorTypes, SceneType
<1>1. CASE Cleanup
  BY <1>1, BalancedSame DEF Cleanup, lifeVars
<1>2. CASE RunClosures
  BY <1>2, BalancedSame DEF RunClosures, mapVars, lifeVars
<1>3. CASE CleanupDone
  BY <1>3, BalancedSame DEF CleanupDone, mapVars, wireVars, lifeVars
<1>4. ASSUME NEW s \in Sensors, CleanupSensor(s) PROVE Balanced'
  BY <1>4, DeactivateBalanced DEF CleanupSensor
<1>5. ASSUME NEW s \in Sensors, AddSensor(s) PROVE Balanced'
  BY <1>5, BalancedSame DEF AddSensor, mapVars, wireVars, lifeVars
<1>6. ASSUME NEW s \in Sensors, RemoveSensor(s) PROVE Balanced'
  BY <1>6, BalancedSame DEF RemoveSensor, lifeVars
<1>7. ASSUME NEW s \in Sensors, RemoveMissing(s) PROVE Balanced'
  BY <1>7, BalancedSame DEF RemoveMissing, lifeVars
<1>8. ASSUME NEW c \in Calls, AcquireSlot(c) PROVE Balanced'
  BY <1>8, BalancedSame DEF AcquireSlot, mapVars, wireVars, lifeVars
<1>9. ASSUME NEW c \in Calls, RegisterSensor(c) PROVE Balanced'
  BY <1>9, BalancedSame DEF RegisterSensor, Fail, wireVars, lifeVars
<1>10. ASSUME NEW c \in Calls, AppendSensor(c) PROVE Balanced'
  BY <1>10, BalancedSame DEF AppendSensor, wireVars, lifeVars
<1>11. ASSUME NEW c \in Calls, ExposeSensor(c) PROVE Balanced'
  BY <1>11, BalancedSame DEF ExposeSensor, Fail, mapVars, lifeVars
<1>12. ASSUME NEW c \in Calls, SubscribeSensor(c) PROVE Balanced'
  BY <1>12, BalancedSame DEF SubscribeSensor, mapVars, lifeVars
<1>13. ASSUME NEW c \in Calls, StoreCleanup(c) PROVE Balanced'
  BY <1>13, BalancedSame DEF StoreCleanup, lifeVars
<1>14. ASSUME NEW c \in Calls, Activate(c) PROVE Balanced'
  <2>1. target[c] \in Sensors
    BY <1>14 DEF Activate, SensorTypes
  <2>2. CASE target[c] \in active
    BY <1>14, <2>2, BalancedSame DEF Activate, lifeVars
  <2>3. CASE target[c] \notin active
    <3> SUFFICES ASSUME NEW q \in Sensors
                 PROVE  ran[q]["start"] + due'[q]["start"]
                          = ran[q]["stop"] + due'[q]["stop"] + One(q \in active')
      BY <1>14 DEF Activate, Balanced, One
    <3>1. /\ ran[q]["start"] \in Nat /\ ran[q]["stop"] \in Nat
          /\ due[q]["start"] \in Nat /\ due[q]["stop"] \in Nat
          /\ ran[q]["start"] + due[q]["start"] = ran[q]["stop"] + due[q]["stop"] + One(q \in active)
      BY DEF SensorTypes, Balanced, Lifecycle
    <3>2. CASE q = target[c]
      <4>1. /\ due'[q]["start"] = due[q]["start"] + 1 /\ due'[q]["stop"] = due[q]["stop"]
            /\ q \in active'
        BY <1>14, <2>3, <3>2 DEF Activate, SensorTypes, Lifecycle
      <4>2. One(q \in active) = 0 /\ One(q \in active') = 1
        BY <2>3, <3>2, <4>1 DEF One
      <4> QED
        BY <3>1, <4>1, <4>2
    <3>3. CASE q # target[c]
      <4>1. due'[q] = due[q] /\ (q \in active' <=> q \in active)
        BY <1>14, <2>3, <3>3 DEF Activate, SensorTypes
      <4> QED
        BY <3>1, <4>1 DEF One
    <3> QED
      BY <3>2, <3>3
  <2> QED
    BY <2>2, <2>3
<1>15. ASSUME NEW c \in Calls, UnregisterSensor(c) PROVE Balanced'
  BY <1>15, BalancedSame DEF UnregisterSensor, wireVars, lifeVars
<1>16. ASSUME NEW c \in Calls, RemoveDone(c) PROVE Balanced'
  <2>1. target[c] \in Sensors
    BY <1>16 DEF RemoveDone, SensorTypes
  <2> QED
    BY <1>16, <2>1, DeactivateBalanced DEF RemoveDone
<1>17. ASSUME NEW s \in Sensors, RunLifecycle(s) PROVE Balanced'
  <2>1. PICK k \in Lifecycle :
          /\ due[s][k] > 0
          /\ due' = [due EXCEPT ![s][k] = due[s][k] - 1]
          /\ ran' = [ran EXCEPT ![s][k] = ran[s][k] + 1]
          /\ active' = active
    BY <1>17 DEF RunLifecycle
  <2> SUFFICES ASSUME NEW q \in Sensors
               PROVE  ran'[q]["start"] + due'[q]["start"]
                        = ran'[q]["stop"] + due'[q]["stop"] + One(q \in active)
    BY <2>1 DEF Balanced, One
  <2>2. /\ ran[q]["start"] \in Nat /\ ran[q]["stop"] \in Nat
        /\ due[q]["start"] \in Nat /\ due[q]["stop"] \in Nat
        /\ ran[q]["start"] + due[q]["start"] = ran[q]["stop"] + due[q]["stop"] + One(q \in active)
    BY DEF SensorTypes, Balanced, Lifecycle
  <2>3. \A l \in Lifecycle :
          /\ due'[q][l] = IF q = s /\ l = k THEN due[q][l] - 1 ELSE due[q][l]
          /\ ran'[q][l] = IF q = s /\ l = k THEN ran[q][l] + 1 ELSE ran[q][l]
    BY <2>1 DEF SensorTypes
  <2>4. One(q \in active) \in Nat
    BY DEF One
  <2>5. CASE q = s /\ k = "start"
    <3>1. /\ due'[q]["start"] = due[q]["start"] - 1 /\ ran'[q]["start"] = ran[q]["start"] + 1
          /\ due'[q]["stop"] = due[q]["stop"] /\ ran'[q]["stop"] = ran[q]["stop"]
      BY <2>3, <2>5 DEF Lifecycle
    <3> QED
      BY <2>2, <2>4, <3>1
  <2>6. CASE q = s /\ k = "stop"
    <3>1. /\ due'[q]["stop"] = due[q]["stop"] - 1 /\ ran'[q]["stop"] = ran[q]["stop"] + 1
          /\ due'[q]["start"] = due[q]["start"] /\ ran'[q]["start"] = ran[q]["start"]
      BY <2>3, <2>6 DEF Lifecycle
    <3> QED
      BY <2>2, <2>4, <3>1
  <2>7. CASE q # s
    <3>1. /\ due'[q]["start"] = due[q]["start"] /\ ran'[q]["start"] = ran[q]["start"]
          /\ due'[q]["stop"] = due[q]["stop"] /\ ran'[q]["stop"] = ran[q]["stop"]
      BY <2>3, <2>7 DEF Lifecycle
    <3> QED
      BY <2>2, <3>1
  <2> QED
    BY <2>5, <2>6, <2>7 DEF Lifecycle
<1>18. CASE UNCHANGED vars
  BY <1>18, BalancedSame DEF vars, callVars, mapVars, wireVars, lifeVars
<1> QED
  BY <1>0, <1>1, <1>2, <1>3, <1>4, <1>5, <1>6, <1>7, <1>8, <1>9, <1>10, <1>11, <1>12,
     <1>13, <1>14, <1>15, <1>16, <1>17, <1>18 DEF Next, CleanupStep, AddStep, RemoveStep

\* A step of a call that is under way and stays so, and moves nothing that InTurn speaks of.
LEMMA InTurnKept ==
  ASSUME InTurn, UNCHANGED <<target, release, snapshot, listed, cleanups, active>>,
         \A c \in Calls : Adding(c)' => Adding(c),
         \A c \in Calls : Removing(c)' <=> Removing(c),
         \A c \in Calls : step'[c] \in {"expose", "subscribe", "store", "activate"} =>
           step[c] \in {"expose", "subscribe", "store", "activate"}
  PROVE  InTurn'
BY DEF InTurn

\* When calls come one after the other, the list stays complete.
LEMMA InTurnStep ==
  SensorTypes /\ HeldWhileRunning /\ "overlap" \notin Env /\ InTurn /\ [Next]_vars => InTurn'
<1> SUFFICES ASSUME SensorTypes, HeldWhileRunning, "overlap" \notin Env, InTurn, [Next]_vars PROVE InTurn'
  OBVIOUS
<1>0. scene.sensors \subseteq Sensors
  BY ScenesAssumption DEF SensorTypes, SceneType
<1>1. CASE Cleanup
  <2>1. \A c \in Calls : ~Adding(c)
    BY <1>1 DEF Cleanup, Calm
  <2>2. /\ \A s \in Sensors : listed'[s] = 0 /\ cleanups'[s] = NoAdd
        /\ snapshot' = listed /\ UNCHANGED <<step, target, active>>
    BY <1>1 DEF Cleanup, lifeVars
  <2>3. \A s \in Sensors : ~(snapshot[s] > 0)
    BY <1>1 DEF Cleanup, HeldWhileRunning
  <2> QED
    BY <2>1, <2>2, <2>3 DEF InTurn, Adding, Removing, AddSteps
<1>2. CASE RunClosures
  <2>1. /\ release = "closures" /\ release' = "teardown"
        /\ UNCHANGED <<target, listed, cleanups, active, step, snapshot>>
    BY <1>2 DEF RunClosures, mapVars, lifeVars
  <2> QED
    BY <2>1 DEF InTurn, Adding, Removing
<1>3. CASE CleanupDone
  <2>1. /\ release = "teardown" /\ release' = "released"
        /\ UNCHANGED <<target, listed, cleanups, active, step, snapshot>>
    BY <1>3 DEF CleanupDone, mapVars, wireVars, lifeVars
  <2> QED
    BY <2>1 DEF InTurn, Adding, Removing
<1>4. ASSUME NEW s \in Sensors, CleanupSensor(s) PROVE InTurn'
  <2>1. /\ \A q \in Sensors : q # s => snapshot'[q] = snapshot[q]
        /\ active' = active \ {s} /\ UNCHANGED <<step, target, release, listed, cleanups>>
    BY <1>4 DEF CleanupSensor, Deactivate, callVars, SensorTypes
  <2> QED
    BY <2>1 DEF InTurn, Adding, Removing, SensorTypes
<1>5. ASSUME NEW s \in Sensors, AddSensor(s) PROVE InTurn'
  <2>1. /\ made' \in Calls /\ step[made'] = "idle" /\ step'[made'] = "slot" /\ target'[made'] = s
        /\ \A d \in Calls : d # made' => step'[d] = step[d] /\ target'[d] = target[d]
    BY <1>5, NewCall DEF AddSensor
  <2>2. release = "idle" /\ \A c \in Calls : target[c] = s => ~Removing(c)
    BY <1>5 DEF AddSensor
  <2>3. UNCHANGED <<release, listed, cleanups, active, snapshot>>
    BY <1>5 DEF AddSensor, mapVars, wireVars, lifeVars
  <2>4. ~Adding(made') /\ ~Removing(made') /\ step'[made'] \notin RemoveSteps
    BY <2>1 DEF Adding, Removing, AddSteps, RemoveSteps
  <2>5. ASSUME NEW c \in Calls, Adding(c)'
        PROVE  release = "idle" /\ \A d \in Calls : target'[d] = target'[c] => ~Removing(d)'
    <3>1. \A d \in Calls : Removing(d)' => d # made' /\ Removing(d) /\ target'[d] = target[d]
      BY <2>1, <2>4 DEF Removing
    <3>2. CASE c = made'
      BY <2>1, <2>2, <3>1, <3>2
    <3>3. CASE c # made'
      <4>1. Adding(c) /\ target'[c] = target[c]
        BY <2>1, <2>5, <3>3 DEF Adding
      <4> QED
        BY <3>1, <4>1 DEF InTurn
    <3> QED
      BY <3>2, <3>3
  <2>6. \A c \in Calls : step'[c] \in {"expose", "subscribe", "store", "activate"} =>
          listed[target'[c]] > 0
    BY <2>1 DEF InTurn
  <2>7. ASSUME NEW q \in Sensors, q \in active
        PROVE  \/ listed[q] > 0 \/ snapshot[q] > 0
               \/ \E c \in Calls : target'[c] = q /\ Removing(c)'
    <3>1. ASSUME NEW c \in Calls, target[c] = q, Removing(c)
          PROVE  target'[c] = q /\ Removing(c)'
      BY <2>1, <2>4, <3>1 DEF Removing
    <3> QED
      BY <2>7, <3>1 DEF InTurn
  <2> QED
    BY <2>3, <2>5, <2>6, <2>7 DEF InTurn
<1>6. ASSUME NEW s \in Sensors, RemoveSensor(s) PROVE InTurn'
  <2>1. /\ made' \in Calls /\ step[made'] = "idle" /\ step'[made'] = "unregister"
        /\ target'[made'] = s
        /\ \A d \in Calls : d # made' => step'[d] = step[d] /\ target'[d] = target[d]
    BY <1>6, NewCall DEF RemoveSensor
  <2>2. \A c \in Calls : ~Adding(c)
    BY <1>6 DEF RemoveSensor, Calm
  <2>3. /\ listed' = [listed EXCEPT ![s] = listed[s] - 1] /\ listed[s] > 0
        /\ cleanups' = [cleanups EXCEPT ![s] = NoAdd]
        /\ UNCHANGED <<release, active, snapshot>>
    BY <1>6 DEF RemoveSensor, lifeVars
  <2>4. \A c \in Calls : step'[c] \notin AddSteps
    BY <2>1, <2>2 DEF Adding, AddSteps
  <2>5. /\ step'[made'] \in RemoveSteps
        /\ \A c \in Calls : Removing(c) => step'[c] \in RemoveSteps /\ target'[c] = target[c]
    BY <2>1 DEF Removing, RemoveSteps
  <2>6. \A q \in Sensors :
          /\ cleanups'[q] # NoAdd => q # s /\ cleanups[q] # NoAdd
          /\ q # s => listed'[q] = listed[q]
    BY <2>3 DEF SensorTypes
  <2>7. release = "idle"
    BY <2>3 DEF InTurn, SensorTypes
  <2>8. ASSUME NEW q \in Sensors, q \in active
        PROVE  \/ listed'[q] > 0 \/ snapshot[q] > 0
               \/ \E c \in Calls : target'[c] = q /\ step'[c] \in RemoveSteps
    <3>1. CASE q = s
      BY <2>1, <2>5, <3>1
    <3>2. CASE q # s
      BY <2>5, <2>6, <2>8, <3>2 DEF InTurn
    <3> QED
      BY <3>1, <3>2
  <2> QED
    BY <2>3, <2>4, <2>6, <2>7, <2>8 DEF InTurn, Adding, Removing, AddSteps
<1>7. ASSUME NEW s \in Sensors, RemoveMissing(s) PROVE InTurn'
  BY <1>7 DEF RemoveMissing, InTurn
<1>8. ASSUME NEW c \in Calls, AcquireSlot(c) PROVE InTurn'
  BY <1>8, AtEffect, InTurnKept DEF AcquireSlot, mapVars, wireVars, lifeVars, Adding, Removing,
     AddSteps, RemoveSteps
<1>9. ASSUME NEW c \in Calls, RegisterSensor(c) PROVE InTurn'
  BY <1>9, AtEffect, InTurnKept DEF RegisterSensor, Fail, wireVars, lifeVars, Adding, Removing,
     AddSteps, RemoveSteps
<1>10. ASSUME NEW c \in Calls, AppendSensor(c) PROVE InTurn'
  <2>1. Adding(c) /\ target[c] \in Sensors
    BY <1>10 DEF AppendSensor, Adding, AddSteps, SensorTypes
  <2>2. release = "idle"
    BY <2>1 DEF InTurn
  <2>3. /\ listed' = [listed EXCEPT ![target[c]] = listed[target[c]] + 1]
        /\ UNCHANGED <<target, release, cleanups, active, snapshot>>
    BY <1>10 DEF AppendSensor, wireVars, lifeVars
  <2>4. \A q \in Sensors : (q = target[c] => listed'[q] > 0) /\ (listed[q] > 0 => listed'[q] > 0)
    BY <2>3 DEF SensorTypes
  <2>5. /\ step'[c] = "expose" /\ \A d \in Calls : d # c => step'[d] = step[d]
    BY <1>10 DEF AppendSensor, At, SensorTypes
  <2>6. \A d \in Calls : (Adding(d)' => Adding(d)) /\ (Removing(d)' <=> Removing(d))
    BY <2>1, <2>5, <1>10 DEF AppendSensor, Adding, Removing, AddSteps, RemoveSteps
  <2>7. \A d \in Calls : step'[d] \in {"expose", "subscribe", "store", "activate"} =>
          listed'[target[d]] > 0
    <3>1. \A d \in Calls : step[d] \in {"expose", "subscribe", "store", "activate"} =>
            target[d] \in Sensors /\ listed[target[d]] > 0
      BY DEF InTurn, SensorTypes
    <3> QED
      BY <2>1, <2>4, <2>5, <3>1
  <2> QED
    BY <2>2, <2>3, <2>4, <2>6, <2>7 DEF InTurn
<1>11. ASSUME NEW c \in Calls, ExposeSensor(c) PROVE InTurn'
  BY <1>11, AtEffect, InTurnKept DEF ExposeSensor, Fail, mapVars, lifeVars, Adding, Removing,
     AddSteps, RemoveSteps
<1>12. ASSUME NEW c \in Calls, SubscribeSensor(c) PROVE InTurn'
  BY <1>12, AtEffect, InTurnKept DEF SubscribeSensor, mapVars, lifeVars, Adding, Removing,
     AddSteps, RemoveSteps
<1>13. ASSUME NEW c \in Calls, StoreCleanup(c) PROVE InTurn'
  <2>1. step[c] = "store" /\ target[c] \in Sensors
    BY <1>13 DEF StoreCleanup, SensorTypes
  <2>2. /\ cleanups' = [cleanups EXCEPT ![target[c]] = c]
        /\ UNCHANGED <<target, release, listed, active, snapshot>>
    BY <1>13 DEF StoreCleanup, lifeVars
  <2>3. /\ step'[c] = "activate" /\ \A d \in Calls : d # c => step'[d] = step[d]
    BY <1>13 DEF StoreCleanup, At, SensorTypes
  <2>4. listed[target[c]] > 0
    BY <2>1 DEF InTurn
  <2>5. \A q \in Sensors : cleanups'[q] # NoAdd => listed[q] > 0
    BY <2>2, <2>4 DEF InTurn, SensorTypes
  <2>6. \A d \in Calls : (Adding(d)' => Adding(d)) /\ (Removing(d)' <=> Removing(d))
    BY <2>1, <2>3 DEF Adding, Removing, AddSteps, RemoveSteps
  <2>7. \A d \in Calls : step'[d] \in {"expose", "subscribe", "store", "activate"} =>
          listed[target[d]] > 0
    BY <2>1, <2>3 DEF InTurn
  <2> QED
    BY <2>2, <2>5, <2>6, <2>7 DEF InTurn
<1>14. ASSUME NEW c \in Calls, Activate(c) PROVE InTurn'
  <2>1. step[c] = "activate" /\ target[c] \in Sensors
    BY <1>14 DEF Activate, SensorTypes
  <2>2. UNCHANGED <<target, release, listed, cleanups, snapshot>>
    BY <1>14 DEF Activate, mapVars, wireVars
  <2>3. active' \subseteq active \cup {target[c]}
    BY <1>14 DEF Activate
  <2>4. /\ step'[c] = "added" /\ \A d \in Calls : d # c => step'[d] = step[d]
    BY <1>14 DEF Activate, At, SensorTypes
  <2>5. listed[target[c]] > 0
    BY <2>1 DEF InTurn
  <2>6. \A d \in Calls : (Adding(d)' => Adding(d)) /\ (Removing(d)' <=> Removing(d))
    BY <2>1, <2>4 DEF Adding, Removing, AddSteps, RemoveSteps
  <2>7. \A d \in Calls : step'[d] \in {"expose", "subscribe", "store", "activate"} =>
          listed[target[d]] > 0
    BY <2>1, <2>4 DEF InTurn
  <2> QED
    BY <2>2, <2>3, <2>5, <2>6, <2>7 DEF InTurn
<1>15. ASSUME NEW c \in Calls, UnregisterSensor(c) PROVE InTurn'
  BY <1>15, AtEffect, InTurnKept DEF UnregisterSensor, wireVars, lifeVars, Adding, Removing,
     AddSteps, RemoveSteps
<1>16. ASSUME NEW c \in Calls, RemoveDone(c) PROVE InTurn'
  <2>1. step[c] = "cleanup" /\ target[c] \in Sensors
    BY <1>16 DEF RemoveDone, SensorTypes
  <2>2. /\ active' = active \ {target[c]}
        /\ UNCHANGED <<target, release, listed, cleanups, snapshot>>
    BY <1>16 DEF RemoveDone, Deactivate, mapVars
  <2>3. /\ step'[c] = "removed" /\ \A d \in Calls : d # c => step'[d] = step[d]
    BY <1>16 DEF RemoveDone, At, SensorTypes
  <2>4. \A d \in Calls : (Adding(d)' => Adding(d)) /\ (Removing(d)' <=> Removing(d) /\ d # c)
    BY <2>1, <2>3 DEF Adding, Removing, AddSteps, RemoveSteps
  <2>5. \A d \in Calls : step'[d] \in {"expose", "subscribe", "store", "activate"} =>
          listed[target[d]] > 0
    BY <2>1, <2>3 DEF InTurn
  <2>6. ASSUME NEW q \in Sensors, q \in active'
        PROVE  \/ listed[q] > 0 \/ snapshot[q] > 0
               \/ \E d \in Calls : target[d] = q /\ Removing(d)'
    BY <2>2, <2>4, <2>6 DEF InTurn
  <2> QED
    BY <2>2, <2>4, <2>5, <2>6 DEF InTurn
<1>17. ASSUME NEW s \in Sensors, RunLifecycle(s) PROVE InTurn'
  BY <1>17, InTurnKept DEF RunLifecycle, callVars, mapVars, wireVars, Adding, Removing
<1>18. CASE UNCHANGED vars
  BY <1>18, InTurnKept DEF vars, callVars, mapVars, wireVars, lifeVars, Adding, Removing
<1> QED
  BY <1>0, <1>1, <1>2, <1>3, <1>4, <1>5, <1>6, <1>7, <1>8, <1>9, <1>10, <1>11, <1>12,
     <1>13, <1>14, <1>15, <1>16, <1>17, <1>18 DEF Next, CleanupStep, AddStep, RemoveStep

\* A step that starts no AddSensor, and neither stores nor loses a closure.
LEMMA AddedOnceKept ==
  ASSUME AddedOnce, UNCHANGED orphans,
         \A c \in Calls : Adding(c)' => Adding(c) /\ target'[c] = target[c],
         \A c \in Calls : Adding(c)' /\ step'[c] # "activate" => step[c] # "activate",
         \A c \in Calls : Adding(c) /\ cleanups[target[c]] = NoAdd => cleanups'[target[c]] = NoAdd
  PROVE  AddedOnce'
BY DEF AddedOnce

\* When moreover no sensor is added again, no closure is stored over another one.
LEMMA AddedOnceStep ==
  SensorTypes /\ InTurn /\ Env \cap {"overlap", "again"} = {} /\ AddedOnce /\ [Next]_vars => AddedOnce'
<1> SUFFICES ASSUME SensorTypes, InTurn, Env \cap {"overlap", "again"} = {}, AddedOnce,
                    [Next]_vars
             PROVE  AddedOnce'
  OBVIOUS
<1>0. scene.sensors \subseteq Sensors
  BY ScenesAssumption DEF SensorTypes, SceneType
<1>1. CASE Cleanup
  <2>1. /\ \A s \in Sensors : cleanups'[s] = NoAdd
        /\ UNCHANGED <<step, target, orphans>>
    BY <1>1 DEF Cleanup
  <2>2. \A c \in Calls : Adding(c) => target[c] \in Sensors
    BY DEF SensorTypes, Adding, AddSteps
  <2> QED
    BY <2>1, <2>2, AddedOnceKept DEF Adding
<1>2. CASE RunClosures
  BY <1>2, AddedOnceKept DEF RunClosures, mapVars, lifeVars, Adding
<1>3. CASE CleanupDone
  BY <1>3, AddedOnceKept DEF CleanupDone, mapVars, wireVars, lifeVars, Adding
<1>4. ASSUME NEW s \in Sensors, CleanupSensor(s) PROVE AddedOnce'
  BY <1>4, AddedOnceKept DEF CleanupSensor, Deactivate, callVars, Adding
<1>5. ASSUME NEW s \in Sensors, AddSensor(s) PROVE AddedOnce'
  <2>1. /\ made' \in Calls /\ step[made'] = "idle" /\ step'[made'] = "slot" /\ target'[made'] = s
        /\ \A d \in Calls : d # made' => step'[d] = step[d] /\ target'[d] = target[d]
    BY <1>5, NewCall DEF AddSensor
  <2>2. cleanups[s] = NoAdd /\ \A c \in Calls : ~(target[c] = s /\ Adding(c))
    BY <1>5 DEF AddSensor, Added
  <2>3. UNCHANGED <<cleanups, orphans>>
    BY <1>5 DEF AddSensor, mapVars, wireVars
  <2>4. \A c \in Calls : Adding(c)' => c = made' \/ (Adding(c) /\ target'[c] = target[c])
    BY <2>1 DEF Adding
  <2>5. ASSUME NEW c \in Calls, NEW d \in Calls, Adding(c)', Adding(d)', target'[c] = target'[d]
        PROVE  c = d
    BY <2>1, <2>2, <2>4, <2>5 DEF AddedOnce
  <2>6. ASSUME NEW c \in Calls, Adding(c)', step'[c] # "activate"
        PROVE  cleanups[target'[c]] = NoAdd
    <3>1. CASE c = made'
      BY <2>1, <2>2, <3>1
    <3>2. CASE c # made'
      BY <2>1, <2>4, <2>6, <3>2 DEF AddedOnce
    <3> QED
      BY <3>1, <3>2
  <2> QED
    BY <2>3, <2>5, <2>6 DEF AddedOnce
<1>6. ASSUME NEW s \in Sensors, RemoveSensor(s) PROVE AddedOnce'
  <2>1. \A c \in Calls : ~Adding(c)
    BY <1>6 DEF RemoveSensor, Calm
  <2>2. /\ step'[made'] = "unregister"
        /\ \A d \in Calls : d # made' => step'[d] = step[d]
    BY <1>6, NewCall DEF RemoveSensor
  <2>3. \A c \in Calls : step'[c] \notin AddSteps
    BY <2>1, <2>2 DEF Adding, AddSteps
  <2>4. orphans' = orphans
    BY <1>6 DEF RemoveSensor
  <2> QED
    BY <2>3, <2>4 DEF AddedOnce, Adding
<1>7. ASSUME NEW s \in Sensors, RemoveMissing(s) PROVE AddedOnce'
  BY <1>7 DEF RemoveMissing, InTurn
<1>8. ASSUME NEW c \in Calls, AcquireSlot(c) PROVE AddedOnce'
  BY <1>8, AtEffect, AddedOnceKept DEF AcquireSlot, mapVars, wireVars, lifeVars, Adding,
     AddSteps, RemoveSteps
<1>9. ASSUME NEW c \in Calls, RegisterSensor(c) PROVE AddedOnce'
  BY <1>9, AtEffect, AddedOnceKept DEF RegisterSensor, Fail, wireVars, lifeVars, Adding,
     AddSteps, RemoveSteps
<1>10. ASSUME NEW c \in Calls, AppendSensor(c) PROVE AddedOnce'
  BY <1>10, AtEffect, AddedOnceKept DEF AppendSensor, wireVars, lifeVars, Adding, AddSteps,
     RemoveSteps
<1>11. ASSUME NEW c \in Calls, ExposeSensor(c) PROVE AddedOnce'
  BY <1>11, AtEffect, AddedOnceKept DEF ExposeSensor, Fail, mapVars, lifeVars, Adding, AddSteps,
     RemoveSteps
<1>12. ASSUME NEW c \in Calls, SubscribeSensor(c) PROVE AddedOnce'
  BY <1>12, AtEffect, AddedOnceKept DEF SubscribeSensor, mapVars, lifeVars, Adding, AddSteps,
     RemoveSteps
<1>13. ASSUME NEW c \in Calls, StoreCleanup(c) PROVE AddedOnce'
  <2>1. /\ step[c] = "store" /\ step'[c] = "activate" /\ target[c] \in Sensors
        /\ \A d \in Calls : d # c => step'[d] = step[d]
    BY <1>13 DEF StoreCleanup, At, SensorTypes
  <2>2. Adding(c) /\ cleanups[target[c]] = NoAdd
    BY <2>1 DEF Adding, AddSteps, AddedOnce
  <2>3. orphans' = orphans /\ target' = target
    BY <1>13, <2>2 DEF StoreCleanup
  <2>4. \A d \in Calls : Adding(d)' => Adding(d)
    BY <2>1, <2>2 DEF Adding
  <2>5. ASSUME NEW d \in Calls, Adding(d)', step'[d] # "activate"
        PROVE  cleanups'[target[d]] = NoAdd
    <3>1. d # c /\ Adding(d) /\ step[d] # "activate"
      BY <2>1, <2>4, <2>5
    <3>2. target[d] # target[c] /\ cleanups[target[d]] = NoAdd /\ target[d] \in Sensors
      BY <2>2, <3>1 DEF AddedOnce, SensorTypes, Adding, AddSteps
    <3> QED
      BY <1>13, <3>2 DEF StoreCleanup, SensorTypes
  <2> QED
    BY <2>3, <2>4, <2>5 DEF AddedOnce
<1>14. ASSUME NEW c \in Calls, Activate(c) PROVE AddedOnce'
  BY <1>14, AtEffect, AddedOnceKept DEF Activate, mapVars, wireVars, Adding, AddSteps,
     RemoveSteps
<1>15. ASSUME NEW c \in Calls, UnregisterSensor(c) PROVE AddedOnce'
  BY <1>15, AtEffect, AddedOnceKept DEF UnregisterSensor, wireVars, lifeVars, Adding, AddSteps,
     RemoveSteps
<1>16. ASSUME NEW c \in Calls, RemoveDone(c) PROVE AddedOnce'
  BY <1>16, AtEffect, AddedOnceKept DEF RemoveDone, mapVars, Adding, AddSteps, RemoveSteps
<1>17. ASSUME NEW s \in Sensors, RunLifecycle(s) PROVE AddedOnce'
  BY <1>17, AddedOnceKept DEF RunLifecycle, callVars, mapVars, wireVars, Adding
<1>18. CASE UNCHANGED vars
  BY <1>18, AddedOnceKept DEF vars, callVars, mapVars, wireVars, lifeVars, Adding
<1> QED
  BY <1>0, <1>1, <1>2, <1>3, <1>4, <1>5, <1>6, <1>7, <1>8, <1>9, <1>10, <1>11, <1>12,
     <1>13, <1>14, <1>15, <1>16, <1>17, <1>18 DEF Next, CleanupStep, AddStep, RemoveStep

LEMMA CameraInit == Init => CameraIInv
<1> SUFFICES ASSUME Init PROVE CameraIInv
  OBVIOUS
<1>1. SensorTypes
  BY CallsAssumption DEF Init, SensorTypes, NoCallbacks, NoAdd
<1>2. HeldWhileRunning /\ WireReached /\ TrackedReached
  BY DEF Init, HeldWhileRunning, WireReached, TrackedReached
<1>3. Balanced
  BY DEF Init, Balanced, One, NoCallbacks, Lifecycle
<1>4. InTurn /\ AddedOnce
  BY DEF Init, InTurn, AddedOnce, Adding, AddSteps
<1> QED
  BY <1>1, <1>2, <1>3, <1>4 DEF CameraIInv

LEMMA CameraInductive == CameraIInv /\ [Next]_vars => CameraIInv'
<1> SUFFICES ASSUME CameraIInv, [Next]_vars PROVE CameraIInv'
  OBVIOUS
<1>1. SensorTypes /\ HeldWhileRunning /\ WireReached /\ TrackedReached /\ Balanced
  BY DEF CameraIInv
<1>2. scene' = scene
  BY DEF Next, Cleanup, CleanupStep, RunClosures, CleanupDone, CleanupSensor, AddSensor, AddStep,
         AcquireSlot, RegisterSensor, AppendSensor, ExposeSensor, SubscribeSensor, StoreCleanup,
         Activate, RemoveSensor, RemoveMissing, RemoveStep, UnregisterSensor, RemoveDone,
         RunLifecycle, vars, callVars
<1>3. ASSUME "overlap" \notin Env' PROVE InTurn'
  <2>1. "overlap" \notin Env /\ InTurn
    BY <1>2, <1>3 DEF Env, CameraIInv
  <2> QED
    BY <1>1, <2>1, InTurnStep
<1>4. ASSUME Env' \cap {"overlap", "again"} = {} PROVE AddedOnce'
  <2>1. Env \cap {"overlap", "again"} = {} /\ InTurn /\ AddedOnce
    BY <1>2, <1>4 DEF Env, CameraIInv
  <2> QED
    BY <1>1, <2>1, AddedOnceStep
<1> QED
  BY <1>1, <1>3, <1>4, SensorTypesStep, HeldStep, WireReachedStep, TrackedReachedStep, BalancedStep
     DEF CameraIInv

\* Whatever calls of AddSensor, repeated ones included, of RemoveSensor and the cleanup of the
\* device interleave, for any number of sensors, calls and slots: an RPC handler or subscription
\* is out of reach only if its closure was replaced or thrown away, and that takes a repeated
\* AddSensor or calls that overlap; at rest no sensor is tracked that d.sensors does not list.
THEOREM WiresOwned == Spec => []WireHasOwner
<1>1. CameraIInv => WireHasOwner
  <2> SUFFICES ASSUME CameraIInv PROVE WireHasOwner
    OBVIOUS
  <2>1. SensorTypes /\ HeldWhileRunning /\ WireReached /\ TrackedReached
    BY DEF CameraIInv
  <2>2. \A c \in handlers \cup feeds :
          Adding(c) \/ c \in Stored \cup closing \cup orphans \/ \E r \in Calls : taken[r] = c
    BY <2>1 DEF WireReached, Held, Adding, AddSteps
  <2>3. orphans # {} => Env \cap {"again", "overlap"} # {}
    BY DEF CameraIInv, AddedOnce
  <2>4. ASSUME Quiet, NEW s \in tracked PROVE listed[s] > 0
    <3>1. s \in Sensors /\ ~(snapshot[s] > 0)
      BY <2>1, <2>4 DEF HeldWhileRunning, SensorTypes, Quiet
    <3>2. \A c \in Calls : step[c] \notin {"append", "unregister"}
      BY <2>4 DEF Quiet, Adding, Removing, AddSteps, RemoveSteps
    <3> QED
      BY <2>1, <3>1, <3>2 DEF TrackedReached
  <2> QED
    BY <2>2, <2>3, <2>4 DEF WireHasOwner
<1> QED
  BY <1>1, CameraInit, CameraInductive, PTL DEF Spec

\* A sensor that left d.sensors, by removals or by the release of the camera, is detached when
\* calls come one after the other, also when it was added repeatedly or again after a removal,
\* but for the wires whose closure a repeated AddSensor replaced; and OnStart and OnStop come
\* in pairs whatever overlaps; for any number of sensors, calls and slots, failures included.
THEOREM ReleaseDetaches == Spec => []ReleasedIsQuiet
<1>1. CameraIInv => ReleasedIsQuiet
  <2> SUFFICES ASSUME CameraIInv, Quiet, NEW s \in Sensors
               PROVE  /\ listed[s] = 0 /\ "overlap" \notin Env =>
                           /\ s \notin tracked \cup active
                           /\ \A c \in handlers \cup feeds : target[c] = s => c \in orphans
                      /\ ran[s]["start"] = ran[s]["stop"] + (IF s \in active THEN 1 ELSE 0)
    BY DEF ReleasedIsQuiet
  <2>1. SensorTypes /\ HeldWhileRunning /\ WireReached /\ TrackedReached /\ Balanced
    BY DEF CameraIInv
  <2>2. \A c \in Calls : ~Removing(c) /\ step[c] \notin AddSteps
    BY DEF Quiet, Adding
  <2>3. closing = {} /\ ~(snapshot[s] > 0) /\ \A c \in Calls : taken[c] = NoAdd
    BY <2>1, <2>2 DEF HeldWhileRunning, Quiet
  <2>4. ASSUME listed[s] = 0, "overlap" \notin Env
        PROVE  /\ s \notin tracked \cup active
               /\ \A c \in handlers \cup feeds : target[c] = s => c \in orphans
    <3>1. InTurn
      BY <2>4 DEF CameraIInv
    <3>2. cleanups[s] = NoAdd /\ s \notin active
      BY <2>2, <2>3, <2>4, <3>1 DEF InTurn
    <3>3. ASSUME NEW c \in handlers \cup feeds, target[c] = s PROVE c \in orphans
      <4>1. c \in Calls /\ c # NoAdd
        BY <2>1, CallsAssumption DEF SensorTypes, Calls, NoAdd
      <4>2. c \notin Stored
        BY <2>1, <3>2, <3>3, <4>1 DEF Stored, SensorTypes
      <4>3. Held(c)
        BY <2>1, <2>2, <4>1 DEF WireReached, AddSteps
      <4> QED
        BY <2>3, <4>1, <4>2, <4>3 DEF Held
    <3>4. s \notin tracked
      BY <2>1, <2>2, <2>3, <2>4 DEF TrackedReached, Removing, AddSteps, RemoveSteps
    <3> QED
      BY <3>2, <3>3, <3>4
  <2>5. ran[s]["start"] = ran[s]["stop"] + (IF s \in active THEN 1 ELSE 0)
    <3>1. ran[s]["start"] \in Nat /\ ran[s]["stop"] \in Nat
      BY <2>1 DEF SensorTypes, Lifecycle
    <3>2. due[s]["start"] = 0 /\ due[s]["stop"] = 0
      BY DEF Quiet
    <3>3. ran[s]["start"] + due[s]["start"] = ran[s]["stop"] + due[s]["stop"] + One(s \in active)
      BY <2>1 DEF Balanced
    <3> QED
      BY <3>1, <3>2, <3>3 DEF One
  <2> QED
    BY <2>4, <2>5
<1> QED
  BY <1>1, CameraInit, CameraInductive, PTL DEF Spec

-----------------------------------------------------------------------------
(* CameraFeeds                                                              *)

\* Callbacks that acquireDetectionWire counted and releaseDetectionWire did not.
Counted == {c \in Callbacks : cbs[c] \in {"on", "release"}}

\* The count is a number, it never exceeds the callbacks it stands for, and it is
\* exact until the cleanup resets it; the wire is up only while something counts.
CountInv ==
  /\ cbs \in [Callbacks -> {"idle", "acquire", "on", "release", "off"}]
  /\ wireSubs \in Nat /\ wire \in BOOLEAN /\ cleaned \in BOOLEAN
  /\ wireSubs <= Cardinality(Counted)
  /\ ~cleaned => wireSubs = Cardinality(Counted)
  /\ wire => wireSubs > 0
  /\ ~cleaned /\ wireSubs > 0 /\ ~CallsFail => wire

\* What a step of one callback does to the set of those that count.
LEMMA CountedFacts ==
  ASSUME CountInv, NEW c \in Callbacks
  PROVE  /\ IsFiniteSet(Counted) /\ Cardinality(Counted) \in Nat
         /\ c \notin Counted => Cardinality(Counted \cup {c}) = Cardinality(Counted) + 1
         /\ c \in Counted => Cardinality(Counted \ {c}) = Cardinality(Counted) - 1
<1>1. IsFiniteSet(Counted)
  BY CallbacksAssumption, FS_Subset DEF Counted
<1> QED
  BY <1>1, FS_CardinalityType, FS_AddElement, FS_RemoveElement

LEMMA CountStep == CountInv /\ [MirrorNext]_cameraFeedVars => CountInv'
<1> SUFFICES ASSUME CountInv, [MirrorNext]_cameraFeedVars PROVE CountInv'
  OBVIOUS
<1>1. ASSUME NEW c \in Callbacks, OnDetectionEvent(c) PROVE CountInv'
  <2>1. Counted' = Counted
    BY <1>1 DEF OnDetectionEvent, CallbackAt, CountInv, Counted
  <2> QED
    BY <1>1, <2>1 DEF OnDetectionEvent, CallbackAt, CountInv, CallsFail, hostVars
<1>2. ASSUME NEW c \in Callbacks, AcquireDetectionWire(c) PROVE CountInv'
  <2>1. c \notin Counted /\ Counted' = Counted \cup {c}
    BY <1>2 DEF AcquireDetectionWire, CallbackAt, CountInv, Counted
  <2>2. Cardinality(Counted') = Cardinality(Counted) + 1 /\ Cardinality(Counted) \in Nat
    BY <2>1, CountedFacts
  <2>3. cbs' \in [Callbacks -> {"idle", "acquire", "on", "release", "off"}]
    BY <1>2 DEF AcquireDetectionWire, CallbackAt, CountInv
  <2>4. wireSubs' = wireSubs + 1 /\ cleaned' = cleaned /\ CallsFail' = CallsFail
    BY <1>2 DEF AcquireDetectionWire, CallsFail, hostVars
  <2>5. wire' \in BOOLEAN /\ (~CallsFail => wire')
    BY <1>2 DEF AcquireDetectionWire
  <2> QED
    BY <2>2, <2>3, <2>4, <2>5 DEF CountInv
<1>3. ASSUME NEW c \in Callbacks, Dispose(c) PROVE CountInv'
  <2>1. Counted' = Counted
    BY <1>3 DEF Dispose, CallbackAt, CountInv, Counted
  <2> QED
    BY <1>3, <2>1 DEF Dispose, CallbackAt, CountInv, CallsFail, hostVars
<1>4. ASSUME NEW c \in Callbacks, ReleaseDetectionWire(c) PROVE CountInv'
  <2>1. c \in Counted /\ Counted' = Counted \ {c}
    BY <1>4 DEF ReleaseDetectionWire, CallbackAt, CountInv, Counted
  <2>2. Cardinality(Counted') = Cardinality(Counted) - 1 /\ Cardinality(Counted) \in Nat
    BY <2>1, CountedFacts
  <2>3. Cardinality(Counted') \in Nat
    BY <2>1, CallbacksAssumption, FS_Subset, FS_CardinalityType DEF Counted
  <2>4. cbs' \in [Callbacks -> {"idle", "acquire", "on", "release", "off"}]
    BY <1>4 DEF ReleaseDetectionWire, CallbackAt, CountInv
  <2>5. /\ wireSubs' = IF wireSubs > 0 THEN wireSubs - 1 ELSE wireSubs
        /\ wire' \in BOOLEAN /\ (wire' <=> wire /\ wireSubs' # 0)
        /\ cleaned' = cleaned /\ CallsFail' = CallsFail
    BY <1>4 DEF ReleaseDetectionWire, CallsFail, hostVars
  <2> QED
    BY <2>2, <2>3, <2>4, <2>5 DEF CountInv
<1>5. CASE CleanupFeeds
  <2>1. Counted' = Counted
    BY <1>5 DEF CleanupFeeds, Counted
  <2>2. Cardinality(Counted) \in Nat
    BY CallbacksAssumption, FS_Subset, FS_CardinalityType DEF Counted
  <2>3. wireSubs' = 0 /\ cbs' = cbs
    BY <1>5 DEF CleanupFeeds
  <2>4. cleaned' /\ ~wire' /\ cleaned' \in BOOLEAN /\ wire' \in BOOLEAN
    BY <1>5 DEF CleanupFeeds
  <2> QED
    BY <2>1, <2>2, <2>3, <2>4 DEF CountInv
<1>6. CASE UNCHANGED <<env, cleaned, detectionWireVars>>
  BY <1>6 DEF CountInv, Counted, CallsFail, detectionWireVars
<1>7. ChangeState \/ DropLink \/ RestoreLink \/ MirrorStep => UNCHANGED <<env, cleaned, detectionWireVars>>
  BY DEF ChangeState, DropLink, RestoreLink, MirrorStep, InitSubscribe, InitWatch, OnReconnect,
         HandleCameraEvent, HostAnswers, RefreshFails, RefreshStates, hostVars
<1>8. UNCHANGED cameraFeedVars => UNCHANGED <<env, cleaned, detectionWireVars>>
  BY DEF cameraFeedVars, hostVars
<1> QED
  BY <1>1, <1>2, <1>3, <1>4, <1>5, <1>6, <1>7, <1>8 DEF MirrorNext, WireStep

\* The wire serves the callbacks that hold it, however acquires, releases and the
\* cleanup of the device interleave (acquireDetectionWire, releaseDetectionWire).
THEOREM WireServed == MirrorSpec => []WireServesCallbacks
<1>1. MirrorInit => CountInv
  <2> SUFFICES ASSUME MirrorInit PROVE CountInv
    OBVIOUS
  <2>1. Counted = {}
    BY DEF MirrorInit, Counted
  <2>2. wireSubs = 0 /\ cbs = [c \in Callbacks |-> "idle"]
    BY DEF MirrorInit
  <2>3. ~cleaned /\ ~wire /\ cleaned \in BOOLEAN /\ wire \in BOOLEAN
    BY DEF MirrorInit
  <2> QED
    BY <2>1, <2>2, <2>3, FS_EmptySet DEF CountInv
<1>2. CountInv => WireServesCallbacks
  <2> SUFFICES ASSUME CountInv PROVE WireServesCallbacks
    OBVIOUS
  <2>1. ASSUME \A c \in Callbacks : cbs[c] \in {"idle", "off"} PROVE ~wire
    <3>1. Counted = {}
      BY <2>1 DEF Counted
    <3> QED
      BY <3>1, FS_EmptySet DEF CountInv
  <2> QED
    BY <2>1 DEF CountInv, Counted, WireServesCallbacks
<1> QED
  BY <1>1, <1>2, CountStep, PTL DEF MirrorSpec

-----------------------------------------------------------------------------
(* SharedFeed                                                               *)

Members == {s \in Watchers : watch[s] \in {"joined", "open", "leaving"}}
Started == {s \in Watchers : watch[s] # "idle"}

\* The variables of Share, as far as OneUpstream depends on them.
ShareTypes ==
  /\ watch \in [Watchers -> {"idle", "read", "replay", "join", "joined", "open", "leaving",
                             "closed"}]
  /\ attached \in [Generations -> SUBSET Watchers]
  /\ subject \in Nat /\ generations \in Nat /\ refCount \in Nat
  /\ completed \in BOOLEAN
  /\ feed \in FeedKinds /\ DOMAIN call = Feeders \cup Watchers

\* Every connection is made by a subscriber of its own, so there are generations
\* enough.
GenerationsLast == subject <= generations /\ generations <= Cardinality(Started)

\* The mutex is held by the one subscriber that connects, which has made the subject
\* and is the first that joins; a replay runs in the goroutine that connects.
MutexHeld ==
  /\ \A s \in Watchers : watch[s] \in {"read", "replay", "join"} <=> shareMu = s
  /\ shareMu # Free => shareMu \in Watchers /\ subject # 0 /\ Members = {}
  /\ \A s \in Watchers : call[s].pc # "idle" => watch[s] = "replay"

ShareIInv == ShareTypes /\ GenerationsLast /\ MutexHeld /\ OneUpstream

\* OneUpstream in terms of Members.
LEMMA UpstreamParts ==
  OneUpstream <=> /\ refCount = Cardinality(Members)
                  /\ shareMu = Free => (subject = 0 <=> Members = {})
                  /\ upstream \subseteq {subject} \ {0}
                  /\ (subject # 0 /\ ~completed) => upstream = {subject}
                  /\ \A s \in Members : watch[s] # "leaving" => s \in attached[subject]
  BY DEF OneUpstream, Members

\* A subscription that a step does not change counts as before.
LEMMA MembersFinite ==
  /\ IsFiniteSet(Members) /\ IsFiniteSet(Started) /\ IsFiniteSet(Watchers)
  /\ Cardinality(Members) \in Nat /\ Cardinality(Started) \in Nat
  /\ Cardinality(Started) <= Cardinality(Watchers) /\ Cardinality(Watchers) \in Nat
<1>1. Members \in SUBSET Watchers /\ Started \in SUBSET Watchers
  BY DEF Members, Started
<1> QED
  BY <1>1, WatchersAssumption, FS_Subset, FS_CardinalityType

\* What the goroutine of a Next or of a replay does to Share: nothing, but that the
\* end of a replay lets its subscriber go on.
LEMMA CallStepEffect ==
  ASSUME ShareTypes, NEW t \in Feeders \cup Watchers, CallStep(t)
  PROVE  /\ UNCHANGED <<feed, shareMu, subject, generations, refCount, attached, upstream, completed>>
         /\ call[t].pc # "idle"
         /\ DOMAIN call' = DOMAIN call
         /\ \A u \in Watchers : u # t => call'[u] = call[u]
         /\ \/ watch' = watch
            \/ t \in Watchers /\ call'[t].pc = "idle" /\ watch' = [watch EXCEPT ![t] = "join"]
<1> USE DEF ShareTypes, CallAt, WatchAt, deviceVars, shareVars, operatorVars
<1>1. CASE ApplyCamera(t)
  BY <1>1 DEF ApplyCamera
<1>2. CASE StoreValue(t)
  BY <1>2 DEF StoreValue
<1>3. CASE DispatchValue(t)
  BY <1>3 DEF DispatchValue
<1>4. CASE NextConnection(t)
  BY <1>4 DEF NextConnection
<1>5. CASE Decide(t)
  BY <1>5 DEF Decide
<1>6. CASE Mark(t)
  BY <1>6 DEF Mark
<1>7. CASE Emit(t)
  BY <1>7 DEF Emit
<1>8. CASE DeliverChange(t)
  BY <1>8 DEF DeliverChange
<1>9. CASE Return(t)
  BY <1>9 DEF Return, NoCall
<1> QED
  BY <1>1, <1>2, <1>3, <1>4, <1>5, <1>6, <1>7, <1>8, <1>9 DEF CallStep

\* The parts of the invariant that depend on the sets of subscribers and the count.
LEMMA ShareUnchanged ==
  ASSUME ShareIInv, Members' = Members, Started' = Started,
         UNCHANGED <<shareMu, subject, generations, refCount, attached, upstream, completed>>,
         \A s \in Members : watch'[s] # "leaving" => watch[s] # "leaving"
  PROVE  GenerationsLast' /\ OneUpstream'
<1>1. GenerationsLast'
  BY DEF ShareIInv, GenerationsLast
<1>2. OneUpstream'
  BY UpstreamParts DEF ShareIInv, OneUpstream, Members
<1> QED
  BY <1>1, <1>2

LEMMA ConnectStep ==
  ASSUME ShareIInv, NEW s \in Watchers, Connect(s)
  PROVE  ShareIInv'
<1>1. /\ shareMu = Free /\ subject = 0 /\ Members = {} /\ upstream = {}
      /\ watch[s] = "idle" /\ s # Free
  BY UpstreamParts, WatchersAssumption DEF ShareIInv, Connect
<1>2. /\ shareMu' = s /\ generations' = generations + 1 /\ subject' = generations + 1
      /\ watch' = [watch EXCEPT ![s] = "read"]
      /\ UNCHANGED <<feed, completed, refCount, attached, call>>
  BY DEF Connect, WatchAt
<1>3. Members' = {}
  BY <1>1, <1>2 DEF Members, ShareIInv, ShareTypes
<1>4. s \notin Started /\ Started' = Started \cup {s}
  BY <1>1, <1>2 DEF Started, ShareIInv, ShareTypes
<1>5. Cardinality(Started') = Cardinality(Started) + 1
  BY <1>4, MembersFinite, FS_AddElement
<1>6. ShareTypes'
  BY <1>2 DEF ShareIInv, ShareTypes
<1>7. GenerationsLast'
  BY <1>2, <1>5, MembersFinite DEF ShareIInv, ShareTypes, GenerationsLast
<1>8. MutexHeld'
  <2>1. \A u \in Watchers : watch[u] \notin {"read", "replay", "join"} /\ call[u].pc = "idle"
    BY <1>1, WatchersAssumption DEF ShareIInv, MutexHeld
  <2> QED
    BY <1>2, <1>3, <2>1, MembersFinite DEF ShareIInv, ShareTypes, MutexHeld
<1>9. upstream' = IF completed THEN {} ELSE {generations + 1}
  BY <1>1 DEF Connect
<1>10. refCount' = Cardinality(Members') /\ shareMu' # Free
  BY <1>1, <1>2, <1>3, UpstreamParts DEF ShareIInv
<1>11. OneUpstream'
  BY <1>2, <1>3, <1>9, <1>10 DEF OneUpstream, Members, ShareIInv, ShareTypes
<1> QED
  BY <1>6, <1>7, <1>8, <1>11 DEF ShareIInv

LEMMA JoinStep ==
  ASSUME ShareIInv, NEW s \in Watchers, Join(s)
  PROVE  ShareIInv'
<1>1. /\ subject # 0 /\ s \notin Members /\ s # Free
      /\ watch[s] = "join" \/ (watch[s] = "idle" /\ shareMu = Free)
      /\ shareMu \in {s, Free}
  BY WatchersAssumption DEF ShareIInv, MutexHeld, Members, Join
<1>2. /\ shareMu' = Free /\ refCount' = refCount + 1
      /\ attached' = [attached EXCEPT ![subject] = @ \cup {s}]
      /\ watch' = [watch EXCEPT ![s] = "joined"]
      /\ UNCHANGED <<feed, completed, upstream, subject, generations, call>>
  BY DEF Join, WatchAt, deviceVars
<1>3. Members' = Members \cup {s}
  BY <1>2 DEF Members, ShareIInv, ShareTypes
<1>4. Cardinality(Members') = Cardinality(Members) + 1
  BY <1>1, <1>3, MembersFinite, FS_AddElement
<1>5. Started \in SUBSET Started' /\ IsFiniteSet(Started')
  <2>1. Started' \in SUBSET Watchers
    BY DEF Started
  <2> QED
    BY <1>2, <2>1, WatchersAssumption, FS_Subset DEF Started, ShareIInv, ShareTypes
<1>6. Cardinality(Started) <= Cardinality(Started') /\ Cardinality(Started') \in Nat
  BY <1>5, FS_Subset, FS_CardinalityType
<1>7. subject \in Generations
  BY <1>1, MembersFinite DEF ShareIInv, ShareTypes, GenerationsLast, Generations
<1>8. ShareTypes'
  <2>1. attached' \in [Generations -> SUBSET Watchers]
    BY <1>2, <1>7 DEF ShareIInv, ShareTypes
  <2> QED
    BY <1>2, <2>1 DEF ShareIInv, ShareTypes
<1>9. GenerationsLast'
  BY <1>2, <1>6, MembersFinite DEF ShareIInv, ShareTypes, GenerationsLast
<1>10. MutexHeld'
  BY <1>1, <1>2, WatchersAssumption DEF ShareIInv, ShareTypes, MutexHeld
<1>11. OneUpstream'
  <2>1. refCount' = Cardinality(Members') /\ Members' # {} /\ subject' # 0
    BY <1>1, <1>2, <1>3, <1>4, UpstreamParts DEF ShareIInv
  <2>2. \A u \in Members' : watch'[u] # "leaving" => u \in attached'[subject']
    BY <1>2, <1>3, <1>7, UpstreamParts DEF ShareIInv, ShareTypes, Members
  <2>3. upstream' \subseteq {subject'} \ {0} /\ ((subject' # 0 /\ ~completed') => upstream' = {subject'})
    BY <1>2, UpstreamParts DEF ShareIInv
  <2> QED
    BY <2>1, <2>2, <2>3 DEF OneUpstream, Members
<1> QED
  BY <1>8, <1>9, <1>10, <1>11 DEF ShareIInv

LEMMA DisconnectStep ==
  ASSUME ShareIInv, NEW s \in Watchers, Disconnect(s)
  PROVE  ShareIInv'
<1>1. s \in Members /\ shareMu = Free /\ subject # 0
  BY UpstreamParts DEF ShareIInv, Members, Disconnect
<1>2. /\ shareMu' = Free /\ refCount' = refCount - 1
      /\ IF refCount' = 0 THEN upstream' = upstream \ {subject} /\ subject' = 0
         ELSE UNCHANGED <<upstream, subject>>
      /\ watch' = [watch EXCEPT ![s] = "closed"]
      /\ UNCHANGED <<feed, completed, generations, attached, call>>
  BY <1>1 DEF Disconnect, WatchAt
<1>3. Members' = Members \ {s} /\ Started' = Started
  BY <1>1, <1>2 DEF Members, Started, ShareIInv, ShareTypes
<1>4. Cardinality(Members') = Cardinality(Members) - 1
  BY <1>1, <1>3, MembersFinite, FS_RemoveElement
<1>5. IsFiniteSet(Members') /\ Cardinality(Members') \in Nat
  BY <1>3, MembersFinite, FS_RemoveElement, FS_CardinalityType
<1>6. refCount' = Cardinality(Members') /\ (refCount' = 0 <=> Members' = {})
  BY <1>2, <1>4, <1>5, UpstreamParts, FS_EmptySet DEF ShareIInv
<1>7. ShareTypes'
  BY <1>2, <1>5, <1>6 DEF ShareIInv, ShareTypes
<1>8. GenerationsLast'
  BY <1>2, <1>3, <1>7 DEF ShareIInv, ShareTypes, GenerationsLast
<1>9. MutexHeld'
  BY <1>1, <1>2, WatchersAssumption DEF ShareIInv, ShareTypes, MutexHeld, Members
<1>10. OneUpstream'
  <2>1. shareMu' = Free => (subject' = 0 <=> Members' = {})
    BY <1>1, <1>2, <1>6
  <2>2. upstream' \subseteq {subject'} \ {0} /\ ((subject' # 0 /\ ~completed') => upstream' = {subject'})
    BY <1>1, <1>2, UpstreamParts DEF ShareIInv
  <2>3. \A u \in Members' : watch'[u] # "leaving" => u \in attached'[subject']
    <3> SUFFICES ASSUME NEW u \in Members', watch'[u] # "leaving" PROVE u \in attached'[subject']
      OBVIOUS
    <3>1. refCount' # 0 /\ subject' = subject /\ attached' = attached
      BY <1>2, <1>6
    <3>2. u \in Members /\ watch[u] # "leaving"
      BY <1>2, <1>3 DEF ShareIInv, ShareTypes, Members
    <3> QED
      BY <3>1, <3>2, UpstreamParts DEF ShareIInv
  <2> QED
    BY <1>6, <2>1, <2>2, <2>3 DEF OneUpstream, Members
<1> QED
  BY <1>7, <1>8, <1>9, <1>10 DEF ShareIInv

LEMMA ShareStep == ShareIInv /\ [FeedNext]_feedVars => ShareIInv'
<1> SUFFICES ASSUME ShareIInv, [FeedNext]_feedVars PROVE ShareIInv'
  OBVIOUS
<1>1. ASSUME NEW t \in feed.feeders, Receive(t) PROVE ShareIInv'
  <2>1. t \in Feeders /\ t \notin Watchers
    BY FeedAssumption, WatchersAssumption DEF ShareIInv, ShareTypes, FeedType, Feeders
  <2>2. /\ UNCHANGED <<feed, shareMu, subject, generations, refCount, attached, upstream, completed>>
        /\ UNCHANGED watch
        /\ DOMAIN call' = DOMAIN call /\ \A u \in Watchers : call'[u] = call[u]
    BY <1>1, <2>1 DEF Receive, shareVars, ShareIInv, ShareTypes
  <2>3. Members' = Members /\ Started' = Started
    BY <2>2 DEF Members, Started
  <2>4. GenerationsLast' /\ OneUpstream'
    BY <2>2, <2>3, ShareUnchanged
  <2> QED
    BY <2>2, <2>3, <2>4 DEF ShareIInv, ShareTypes, MutexHeld
<1>2. ASSUME NEW t \in Feeders \cup Watchers, CallStep(t) PROVE ShareIInv'
  <2>1. /\ UNCHANGED <<feed, shareMu, subject, generations, refCount, attached, upstream, completed>>
        /\ call[t].pc # "idle"
        /\ DOMAIN call' = DOMAIN call
        /\ \A u \in Watchers : u # t => call'[u] = call[u]
        /\ \/ watch' = watch
           \/ t \in Watchers /\ call'[t].pc = "idle" /\ watch' = [watch EXCEPT ![t] = "join"]
    BY <1>2, CallStepEffect DEF ShareIInv
  <2>2. t \in Watchers => watch[t] = "replay"
    BY <2>1 DEF ShareIInv, MutexHeld
  <2>3. Members' = Members /\ Started' = Started
    BY <2>1, <2>2 DEF Members, Started, ShareIInv, ShareTypes
  <2>4. \A s \in Members : watch'[s] # "leaving" => watch[s] # "leaving"
    BY <2>1, <2>2 DEF ShareIInv, ShareTypes, Members
  <2>5. GenerationsLast' /\ OneUpstream'
    BY <2>1, <2>3, <2>4, ShareUnchanged
  <2>6. ShareTypes'
    BY <2>1 DEF ShareIInv, ShareTypes
  <2>7. MutexHeld'
    BY <2>1, <2>2, <2>3 DEF ShareIInv, ShareTypes, MutexHeld
  <2> QED
    BY <2>5, <2>6, <2>7 DEF ShareIInv
<1>3. ASSUME NEW s \in Watchers, Connect(s) PROVE ShareIInv'
  BY <1>3, ConnectStep
<1>4. ASSUME NEW s \in Watchers, ReadCurrent(s) PROVE ShareIInv'
  <2>1. /\ UNCHANGED <<feed, shareMu, subject, generations, refCount, attached, upstream, completed>>
        /\ watch[s] = "read" /\ DOMAIN call' = DOMAIN call
        /\ \A u \in Watchers : u # s => call'[u] = call[u]
        /\ \/ watch' = [watch EXCEPT ![s] = "join"] /\ call' = call
           \/ watch' = [watch EXCEPT ![s] = "replay"]
    BY <1>4 DEF ReadCurrent, WatchAt, deviceVars, shareVars, ShareIInv, ShareTypes
  <2>2. Members' = Members /\ Started' = Started
    BY <2>1 DEF Members, Started, ShareIInv, ShareTypes
  <2>3. \A u \in Members : watch'[u] # "leaving" => watch[u] # "leaving"
    BY <2>1 DEF ShareIInv, ShareTypes, Members
  <2>4. GenerationsLast' /\ OneUpstream'
    BY <2>1, <2>2, <2>3, ShareUnchanged
  <2>5. ShareTypes'
    BY <2>1 DEF ShareIInv, ShareTypes
  <2>6. MutexHeld'
    BY <2>1, <2>2 DEF ShareIInv, ShareTypes, MutexHeld
  <2> QED
    BY <2>4, <2>5, <2>6 DEF ShareIInv
<1>5. ASSUME NEW s \in Watchers, Join(s) PROVE ShareIInv'
  BY <1>5, JoinStep
<1>6. ASSUME NEW s \in Watchers, ReadMirror(s) PROVE ShareIInv'
  <2>1. /\ UNCHANGED <<feed, shareMu, subject, generations, refCount, attached, upstream, completed, call>>
        /\ watch[s] = "joined" /\ watch' = [watch EXCEPT ![s] = "open"]
    BY <1>6 DEF ReadMirror, WatchAt, deviceVars, shareVars
  <2>2. Members' = Members /\ Started' = Started
    BY <2>1 DEF Members, Started, ShareIInv, ShareTypes
  <2>3. \A u \in Members : watch'[u] # "leaving" => watch[u] # "leaving"
    BY <2>1 DEF ShareIInv, ShareTypes, Members
  <2>4. GenerationsLast' /\ OneUpstream'
    BY <2>1, <2>2, <2>3, ShareUnchanged
  <2>5. ShareTypes' /\ MutexHeld'
    BY <2>1, <2>2 DEF ShareIInv, ShareTypes, MutexHeld
  <2> QED
    BY <2>4, <2>5 DEF ShareIInv
<1>7. ASSUME NEW s \in Watchers, Leave(s) PROVE ShareIInv'
  <2>1. /\ UNCHANGED <<feed, shareMu, subject, generations, refCount, upstream, completed, call>>
        /\ attached' = [g \in Generations |-> attached[g] \ {s}]
        /\ watch[s] = "open" /\ watch' = [watch EXCEPT ![s] = "leaving"]
    BY <1>7 DEF Leave, WatchAt, deviceVars
  <2>2. Members' = Members /\ Started' = Started
    BY <2>1 DEF Members, Started, ShareIInv, ShareTypes
  <2>3. ShareTypes' /\ MutexHeld' /\ GenerationsLast'
    BY <2>1, <2>2 DEF ShareIInv, ShareTypes, MutexHeld, GenerationsLast
  <2>4. subject # 0 => subject \in Generations
    BY MembersFinite DEF ShareIInv, ShareTypes, GenerationsLast, Generations
  <2>5. subject # 0
    BY <1>7, UpstreamParts DEF ShareIInv, MutexHeld, Members, Leave
  <2>6. \A u \in Members : watch'[u] # "leaving" => u \in attached'[subject]
    BY <2>1, <2>4, <2>5, UpstreamParts DEF ShareIInv, ShareTypes, Members
  <2>7. OneUpstream'
    BY <2>1, <2>2, <2>6, UpstreamParts DEF ShareIInv, OneUpstream, Members
  <2> QED
    BY <2>3, <2>7 DEF ShareIInv
<1>8. ASSUME NEW s \in Watchers, Disconnect(s) PROVE ShareIInv'
  BY <1>8, DisconnectStep
<1>9. CASE Complete
  <2>1. /\ UNCHANGED <<feed, shareMu, subject, generations, refCount, attached, call, watch>>
        /\ upstream' = {} /\ completed' /\ completed' \in BOOLEAN
    BY <1>9 DEF Complete, shareVars
  <2>2. Members' = Members /\ Started' = Started
    BY <2>1 DEF Members, Started
  <2>3. ShareTypes' /\ MutexHeld' /\ GenerationsLast'
    BY <2>1, <2>2 DEF ShareIInv, ShareTypes, MutexHeld, GenerationsLast
  <2>4. OneUpstream'
    BY <2>1, <2>2, UpstreamParts DEF ShareIInv, OneUpstream, Members
  <2> QED
    BY <2>3, <2>4 DEF ShareIInv
<1>10. CASE UNCHANGED feedVars
  <2>1. UNCHANGED <<feed, shareMu, subject, generations, refCount, attached, upstream, completed, call, watch>>
    BY <1>10 DEF feedVars, deviceVars, shareVars
  <2>2. Members' = Members /\ Started' = Started
    BY <2>1 DEF Members, Started
  <2>3. GenerationsLast' /\ OneUpstream'
    BY <2>1, <2>2, ShareUnchanged
  <2> QED
    BY <2>1, <2>2, <2>3 DEF ShareIInv, ShareTypes, MutexHeld
<1> QED
  BY <1>1, <1>2, <1>3, <1>4, <1>5, <1>6, <1>7, <1>8, <1>9, <1>10 DEF FeedNext

LEMMA ShareInitial == FeedInit => ShareIInv
<1> SUFFICES ASSUME FeedInit PROVE ShareIInv
  OBVIOUS
<1>1. Members = {} /\ Started = {}
  BY DEF FeedInit, Members, Started
<1>2. ShareTypes
  BY DEF FeedInit, ShareTypes
<1>3. GenerationsLast
  BY <1>1, FS_EmptySet DEF FeedInit, GenerationsLast
<1>4. MutexHeld
  BY <1>1, WatchersAssumption DEF FeedInit, MutexHeld, NoCall
<1>5. OneUpstream
  BY <1>1, FS_EmptySet, UpstreamParts DEF FeedInit
<1> QED
  BY <1>2, <1>3, <1>4, <1>5 DEF ShareIInv

\* "All subscribers share one upstream subscription (reference-counted)", for any
\* number of subscribers that come and go (Share).
THEOREM UpstreamShared == FeedSpec => []OneUpstream
<1>1. ShareIInv => OneUpstream
  BY DEF ShareIInv
<1> QED
  BY <1>1, ShareInitial, ShareStep, PTL DEF FeedSpec

-----------------------------------------------------------------------------
(* SharedFeed, what its subscribers believe                                 *)

CallPlaces ==
  {"idle", "apply", "store", "snap", "dispatch", "decide", "mark", "emit", "deliver", "return"}
InOperator == {"decide", "mark", "emit", "deliver", "return"}

CallType == [pc : CallPlaces, v : Values, todo : SUBSET Generations, g : Generations \cup {0},
             out : SUBSET Props, to : SUBSET Watchers]

BeliefTypes ==
  /\ camera \in Values /\ current \in Values
  /\ last \in [Generations -> Values]
  /\ call \in [Feeders \cup Watchers -> CallType]
  /\ DOMAIN seen = Watchers /\ \A s \in Watchers : DOMAIN seen[s] = Props

\* Operators belong to a connection and deliver properties; Pairwise remembers when
\* nothing is left to deliver.
Delivers ==
  \A t \in Feeders \cup Watchers :
    /\ call[t].pc \in InOperator => call[t].g \in Generations
    /\ call[t].pc = "deliver" => call[t].out # {}
    /\ call[t].pc = "mark" /\ feed.kind = "pairwise" => call[t].out = {}

OneFeeder ==
  /\ \A t, u \in Feeders : call[t].pc # "idle" /\ call[u].pc # "idle" => t = u
  /\ Feeding => ~Connecting

\* The connection a Next goes through is the one there is, unless it was closed.
ThroughSubject ==
  subject # 0 =>
    \A t \in Feeders :
      /\ call[t].pc \in InOperator => call[t].g = subject /\ call[t].todo = {}
      /\ call[t].pc = "dispatch" => call[t].todo \subseteq {subject}

\* The value is the last one stored, and so is d.camera but for one moment.
MirrorAgrees ==
  /\ \A t \in Feeders : call[t].pc \notin {"idle", "apply", "store"} => current = call[t].v
  /\ feed.kind = "pairwise" =>
       /\ \A t \in Feeders : call[t].pc = "store" => camera = call[t].v
       /\ (\A t \in Feeders : call[t].pc # "store") => camera = current

\* The operator remembers the value.
Remembered == subject \in hasValue /\ last[subject] = current

\* A connection is made with the current value, and remembers it.
ReplaysCurrent ==
  \A s \in Watchers :
    watch[s] = "replay" =>
      /\ call[s].pc \in InOperator /\ call[s].g = subject /\ call[s].v = current
      /\ call[s].pc = "return" => Remembered
      /\ feed.kind = "distinct" /\ call[s].pc \in {"emit", "deliver"} => Remembered

\* A Next has not come to the operator yet, or not to the point where it remembers.
Behind(t) ==
  \/ call[t].pc \in {"apply", "store", "snap", "decide"}
  \/ call[t].pc = "dispatch" /\ subject \in call[t].todo

Lags(t) ==
  \/ call[t].pc \in {"snap", "decide", "mark"}
  \/ call[t].pc = "dispatch" /\ subject \in call[t].todo
  \/ call[t].pc \in {"emit", "deliver"} /\ feed.kind = "pairwise"

\* Otherwise a connection remembers the value.
Remembers ==
  subject # 0 /\ ~Connecting =>
    /\ subject \in hasValue
    /\ (\A t \in Feeders : ~Lags(t)) => Remembered

\* A Next that is through with a subscriber's property.
Told(t, s, p) ==
  \/ call[t].pc \in {"mark", "emit"} /\ p \notin call[t].out
  \/ call[t].pc = "deliver" /\ p \notin call[t].out
  \/ call[t].pc = "deliver" /\ p = (CHOOSE q \in call[t].out : TRUE) /\ s \notin call[t].to
  \/ call[t].pc = "return"
  \/ call[t].pc = "dispatch" /\ subject \notin call[t].todo

\* What a subscriber believes is the value, or what the operator remembers when the
\* value has not come to it.
Believes ==
  \A s \in Watchers : watch[s] = "open" =>
    \A p \in Props : Wanted(p) =>
      /\ ~Feeding => seen[s][p] = current[p]
      /\ \A t \in Feeders :
           /\ Behind(t) => seen[s][p] = last[subject][p] \/ seen[s][p] = call[t].v[p]
           /\ Told(t, s, p) => seen[s][p] = current[p]

CalmBelief ==
  /\ OneFeeder /\ ThroughSubject /\ MirrorAgrees /\ ReplaysCurrent
  /\ ~completed => Remembers /\ Believes

BeliefIInv == ShareIInv /\ BeliefTypes /\ Delivers /\ (feed.calm => CalmBelief)

\* The observable of a behaviour stays the same, and so do the values it may have.
LEMMA FeedStays ==
  ASSUME ShareIInv, [FeedNext]_feedVars
  PROVE  /\ feed' = feed /\ Values' = Values
         /\ \A p : Wanted(p)' <=> Wanted(p)
         /\ feed.feeders \subseteq Feeders /\ feed.kind \in {"distinct", "pairwise"}
         /\ Feeders \cap Watchers = {}
<1>1. feed' = feed
  BY DEF FeedNext, feedVars, Receive, CallStep, ApplyCamera, StoreValue, DispatchValue,
         NextConnection, Decide, Mark, Emit, DeliverChange, Return, Connect, ReadCurrent, Join,
         ReadMirror, Leave, Disconnect, Complete
<1>2. Values' = Values /\ \A p : Wanted(p)' <=> Wanted(p)
  BY <1>1 DEF Values, Wanted
<1>3. feed \in FeedType
  BY FeedAssumption DEF ShareIInv, ShareTypes
<1> QED
  BY <1>1, <1>2, <1>3, WatchersAssumption DEF FeedType, Feeders

\* A value the subject may have: all have the same properties, and those of a
\* connection state differ in the flag alone.
LEMMA ValuesFacts ==
  /\ FirstCamera \in Values /\ NoCall \in CallType /\ Flag \in Props
  /\ \A v \in Values : DOMAIN v = Props
  /\ feed.kind = "distinct" =>
       \A v, w \in Values : \A p \in Props : p # Flag => v[p] = w[p]
<1>1. FirstCamera \in Values
  BY FeedAssumption DEF Values, Changed
<1>2. NoCall \in CallType
  BY <1>1 DEF NoCall, CallType, CallPlaces
<1>3. feed.kind = "distinct" =>
        \A v \in Values : \A p \in Props : p # Flag => v[p] = FirstCamera[p]
  BY DEF Values, Changed
<1> QED
  BY <1>1, <1>2, <1>3, FeedAssumption DEF Values

\* The connection there is, is one of the generations.
LEMMA SubjectFacts ==
  ASSUME ShareIInv
  PROVE  /\ subject # 0 => subject \in Generations
         /\ upstream \subseteq Generations
         /\ \A s \in Watchers : watch[s] \in {"read", "replay", "join"} => subject # 0 /\ Members = {}
<1>1. subject # 0 => subject \in Generations
  BY MembersFinite DEF ShareIInv, ShareTypes, GenerationsLast, Generations
<1> QED
  BY <1>1, UpstreamParts, WatchersAssumption DEF ShareIInv, MutexHeld

\* What each step of a call does to it.
LEMMA CallEffect ==
  ASSUME BeliefTypes, NEW t \in Feeders \cup Watchers, NEW c \in CallType,
         call' = [call EXCEPT ![t] = c]
  PROVE  /\ call' \in [Feeders \cup Watchers -> CallType]
         /\ call'[t] = c
         /\ \A u \in Feeders \cup Watchers : u # t => call'[u] = call[u]
<1> HIDE DEF CallType
<1> QED
  BY DEF BeliefTypes

\* The same for a step that moves the call on.
LEMMA CallAtEffect ==
  ASSUME BeliefTypes, NEW t \in Feeders \cup Watchers, NEW pc \in CallPlaces, CallAt(t, pc)
  PROVE  /\ call' \in [Feeders \cup Watchers -> CallType]
         /\ call'[t] = [call[t] EXCEPT !.pc = pc]
         /\ \A u \in Feeders \cup Watchers : u # t => call'[u] = call[u]
<1> DEFINE c == [call[t] EXCEPT !.pc = pc]
<1>1. call' = [call EXCEPT ![t] = c]
  BY DEF CallAt
<1>2. c \in CallType
  BY DEF BeliefTypes, CallType
<1> QED
  BY <1>1, <1>2, CallEffect

\* A call is a record.
LEMMA CallMoved ==
  ASSUME BeliefTypes, NEW t \in Feeders \cup Watchers, NEW pc \in CallPlaces, CallAt(t, pc)
  PROVE  /\ call'[t].pc = pc
         /\ call'[t].v = call[t].v /\ call'[t].todo = call[t].todo /\ call'[t].g = call[t].g
         /\ call'[t].out = call[t].out /\ call'[t].to = call[t].to
         /\ \A u \in Feeders \cup Watchers : u # t => call'[u] = call[u]
<1>1. call[t] \in CallType
  BY DEF BeliefTypes
<1>2. call'[t] = [call[t] EXCEPT !.pc = pc]
  BY CallAtEffect
<1> QED
  BY <1>1, <1>2, CallAtEffect DEF CallType

LEMMA BeliefTypesStep ==
  ASSUME ShareIInv, BeliefTypes, Delivers, [FeedNext]_feedVars
  PROVE  BeliefTypes'
<1>0. /\ Values' = Values /\ CallType' = CallType
  BY FeedStays DEF CallType
<1> SUFFICES /\ camera' \in Values /\ current' \in Values
             /\ last' \in [Generations -> Values]
             /\ call' \in [Feeders \cup Watchers -> CallType]
             /\ DOMAIN seen' = Watchers /\ \A s \in Watchers : DOMAIN seen'[s] = Props
  BY <1>0 DEF BeliefTypes
<1> USE DEF deviceVars, shareVars, operatorVars
<1>1. ASSUME NEW t \in feed.feeders, Receive(t) PROVE call' \in [Feeders \cup Watchers -> CallType]
  <2>1. PICK v \in Values :
          call' = [call EXCEPT ![t] =
            [NoCall EXCEPT !.pc = IF feed.kind = "pairwise" THEN "apply" ELSE "store", !.v = v]]
    BY <1>1 DEF Receive
  <2>2. [NoCall EXCEPT !.pc = IF feed.kind = "pairwise" THEN "apply" ELSE "store", !.v = v]
          \in CallType
    BY ValuesFacts DEF CallType, CallPlaces
  <2> QED
    BY <2>1, <2>2, FeedStays, CallEffect
<1>2. ASSUME NEW t \in Feeders \cup Watchers, CallStep(t)
      PROVE  call' \in [Feeders \cup Watchers -> CallType]
  <2>0. call[t] \in CallType
    BY DEF BeliefTypes
  <2>1. CASE \E pc \in CallPlaces : CallAt(t, pc)
    BY <2>1, CallAtEffect
  <2>2. CASE \E c \in CallType : call' = [call EXCEPT ![t] = c]
    BY <2>2, CallEffect
  <2>3. CASE ApplyCamera(t) \/ StoreValue(t)
    BY <2>1, <2>3 DEF ApplyCamera, StoreValue, CallPlaces
  <2>4. CASE DispatchValue(t)
    <3>1. [call[t] EXCEPT !.pc = "dispatch", !.todo = upstream] \in CallType
      BY <2>0, SubjectFacts DEF CallType, CallPlaces
    <3> QED
      BY <2>2, <2>4, <3>1, ValuesFacts DEF DispatchValue
  <2>5. CASE NextConnection(t)
    <3>1. ASSUME NEW g \in call[t].todo
          PROVE  [call[t] EXCEPT !.pc = "decide", !.g = g, !.todo = call[t].todo \ {g}] \in CallType
      BY <2>0 DEF CallType, CallPlaces
    <3>2. \/ \E g \in call[t].todo :
               call' = [call EXCEPT ![t] =
                 [call[t] EXCEPT !.pc = "decide", !.g = g, !.todo = call[t].todo \ {g}]]
          \/ call' = [call EXCEPT ![t] = NoCall]
      BY <2>0, <2>5 DEF NextConnection, BeliefTypes, CallType
    <3> QED
      BY <2>2, <3>1, <3>2, ValuesFacts
  <2>6. CASE Decide(t)
    <3> DEFINE wanted == {p \in Changed(last[call[t].g], call[t].v) : Wanted(p)}
    <3>1. \/ CallAt(t, "return")
          \/ call' = [call EXCEPT ![t] = [call[t] EXCEPT !.pc = "mark", !.out = {Flag}]]
          \/ call' = [call EXCEPT ![t] =
               [call[t] EXCEPT !.pc = "emit",
                               !.out = IF call[t].g \notin hasValue THEN {} ELSE wanted]]
      BY <2>0, <2>6 DEF Decide, BeliefTypes, CallType
    <3>2. [call[t] EXCEPT !.pc = "mark", !.out = {Flag}] \in CallType
      BY <2>0, ValuesFacts DEF CallType, CallPlaces
    <3>3. wanted \subseteq Props
      BY DEF Changed
    <3>4. [call[t] EXCEPT !.pc = "emit", !.out = IF call[t].g \notin hasValue THEN {} ELSE wanted]
            \in CallType
      <4> HIDE DEF wanted
      <4> QED
        BY <2>0, <3>3 DEF CallType, CallPlaces
    <3> QED
      BY <2>1, <2>2, <3>1, <3>2, <3>4 DEF CallPlaces
  <2>7. CASE Mark(t)
    BY <2>1, <2>7 DEF Mark, CallPlaces
  <2>8. CASE Emit(t)
    <3>1. attached[call[t].g] \subseteq Watchers
      BY <2>8 DEF Emit, Delivers, InOperator, ShareIInv, ShareTypes
    <3>2. [call[t] EXCEPT !.pc = "deliver", !.to = attached[call[t].g]] \in CallType
      BY <2>0, <3>1 DEF CallType, CallPlaces
    <3>3. \/ call' = [call EXCEPT ![t] = [call[t] EXCEPT !.pc = "deliver", !.to = attached[call[t].g]]]
          \/ CallAt(t, "return") \/ CallAt(t, "mark")
      BY <2>0, <2>8 DEF Emit, BeliefTypes, CallType
    <3> QED
      BY <2>1, <2>2, <3>2, <3>3 DEF CallPlaces
  <2>9. CASE DeliverChange(t)
    <3> DEFINE p == CHOOSE q \in call[t].out : TRUE
    <3>1. ASSUME NEW s PROVE [call[t] EXCEPT !.to = call[t].to \ {s}] \in CallType
      BY <2>0 DEF CallType
    <3>2. [call[t] EXCEPT !.pc = "emit", !.out = call[t].out \ {p}] \in CallType
      BY <2>0 DEF CallType, CallPlaces
    <3>3. \/ \E s : call' = [call EXCEPT ![t] = [call[t] EXCEPT !.to = call[t].to \ {s}]]
          \/ call' = [call EXCEPT ![t] = [call[t] EXCEPT !.pc = "emit", !.out = call[t].out \ {p}]]
      BY <2>0, <2>9 DEF DeliverChange, BeliefTypes, CallType
    <3> QED
      BY <2>2, <3>1, <3>2, <3>3
  <2>10. CASE Return(t)
    BY <2>1, <2>2, <2>10, ValuesFacts DEF Return, CallPlaces
  <2> QED
    BY <1>2, <2>3, <2>4, <2>5, <2>6, <2>7, <2>8, <2>9, <2>10 DEF CallStep
<1>3. ASSUME NEW s \in Watchers, ReadCurrent(s) PROVE call' \in [Feeders \cup Watchers -> CallType]
  <2>1. [NoCall EXCEPT !.pc = "decide", !.v = current, !.g = subject] \in CallType
    BY SubjectFacts, ValuesFacts DEF CallType, CallPlaces, BeliefTypes
  <2>2. \/ call' = call
        \/ call' = [call EXCEPT ![s] = [NoCall EXCEPT !.pc = "decide", !.v = current, !.g = subject]]
    BY <1>3 DEF ReadCurrent
  <2> QED
    BY <2>1, <2>2, CallEffect DEF BeliefTypes
<1>4. call' \in [Feeders \cup Watchers -> CallType]
  <2>1. CASE call' = call
    BY <2>1 DEF BeliefTypes
  <2> QED
    BY <1>1, <1>2, <1>3, <2>1 DEF FeedNext, feedVars, Connect, Join, ReadMirror, Leave, Disconnect,
                                  Complete
<1>5. camera' \in Values /\ current' \in Values /\ last' \in [Generations -> Values]
  <2> USE DEF BeliefTypes
  <2>1. ASSUME NEW t \in Feeders \cup Watchers, CallStep(t)
        PROVE  camera' \in Values /\ current' \in Values /\ last' \in [Generations -> Values]
    <3>1. call[t].v \in Values
      BY DEF CallType
    <3> HIDE DEF Values
    <3> QED
      BY <2>1, <3>1 DEF CallStep, ApplyCamera, StoreValue, DispatchValue, NextConnection, Decide,
                        Mark, Emit, DeliverChange, Return
  <2> QED
    BY <2>1 DEF FeedNext, feedVars, Receive, Connect, ReadCurrent, Join, ReadMirror, Leave,
                Disconnect, Complete
<1>6. DOMAIN seen' = Watchers /\ \A s \in Watchers : DOMAIN seen'[s] = Props
  <2>1. ASSUME NEW t \in Feeders \cup Watchers, DeliverChange(t)
        PROVE  DOMAIN seen' = Watchers /\ \A s \in Watchers : DOMAIN seen'[s] = Props
    BY <2>1 DEF DeliverChange, BeliefTypes
  <2>2. ASSUME NEW s \in Watchers, ReadMirror(s)
        PROVE  DOMAIN seen' = Watchers /\ \A u \in Watchers : DOMAIN seen'[u] = Props
    BY <2>2, ValuesFacts DEF ReadMirror, BeliefTypes
  <2>3. CASE seen' = seen
    BY <2>3 DEF BeliefTypes
  <2> QED
    BY <2>1, <2>2, <2>3 DEF FeedNext, feedVars, CallStep, ApplyCamera, StoreValue, DispatchValue,
                            NextConnection, Decide, Mark, Emit, Return, Receive, Connect,
                            ReadCurrent, Join, Leave, Disconnect, Complete
<1> QED
  BY <1>4, <1>5, <1>6

\* Whoever is subscribed is so at the connection there is, and none is being made.
LEMMA OpenFacts ==
  ASSUME ShareIInv, NEW s \in Watchers, watch[s] = "open"
  PROVE  subject # 0 /\ s \in attached[subject] /\ ~Connecting
<1>1. s \in Members
  BY DEF Members
<1>2. shareMu = Free
  BY <1>1 DEF ShareIInv, MutexHeld
<1>3. ~Connecting
  BY <1>2, WatchersAssumption DEF ShareIInv, MutexHeld, Connecting
<1> QED
  BY <1>1, <1>2, <1>3, UpstreamParts DEF ShareIInv, Members

\* A step of a Next is the only one, and no connection is being made.
LEMMA FeederStep ==
  ASSUME BeliefIInv, CalmBelief, NEW t \in Feeders, call[t].pc # "idle",
         \A u \in Feeders \cup Watchers : u # t => call'[u] = call[u],
         UNCHANGED <<feed, watch, subject, completed>>
  PROVE  /\ OneFeeder' /\ ReplaysCurrent' /\ ~Connecting
         /\ \A u \in Feeders : u # t => call[u].pc = "idle" /\ call'[u].pc = "idle"
         /\ Feeding' <=> call'[t].pc # "idle"
         /\ Connecting' <=> Connecting
         /\ call[t] \in CallType
<1>1. Feeding /\ ~Connecting /\ (Connecting' <=> Connecting)
  BY DEF CalmBelief, OneFeeder, Feeding, Connecting
<1>2. \A u \in Feeders : u # t => call[u].pc = "idle" /\ call'[u].pc = "idle"
  BY DEF CalmBelief, OneFeeder
<1>3. ReplaysCurrent'
  BY <1>1 DEF ReplaysCurrent, Connecting
<1>4. OneFeeder'
  BY <1>1, <1>2 DEF OneFeeder
<1> QED
  BY <1>1, <1>2, <1>3, <1>4 DEF Feeding, BeliefIInv, BeliefTypes

\* What is left to show of such a step.
LEMMA FeederKeeps ==
  ASSUME BeliefIInv, CalmBelief, NEW t \in Feeders, call[t].pc # "idle",
         \A u \in Feeders \cup Watchers : u # t => call'[u] = call[u],
         UNCHANGED <<feed, watch, subject, completed>>,
         subject # 0 =>
           /\ call'[t].pc \in InOperator => call'[t].g = subject /\ call'[t].todo = {}
           /\ call'[t].pc = "dispatch" => call'[t].todo \subseteq {subject},
         /\ call'[t].pc \notin {"idle", "apply", "store"} => current' = call'[t].v
         /\ feed.kind = "pairwise" =>
              IF call'[t].pc = "store" THEN camera' = call'[t].v ELSE camera' = current',
         ~completed /\ subject # 0 => subject \in hasValue' /\ (~Lags(t)' => Remembered'),
         ~completed => \A s \in Watchers : watch[s] = "open" =>
           \A p \in Props : Wanted(p) =>
             /\ call'[t].pc = "idle" => seen'[s][p] = current'[p]
             /\ Behind(t)' => seen'[s][p] = last'[subject][p] \/ seen'[s][p] = call'[t].v[p]
             /\ Told(t, s, p)' => seen'[s][p] = current'[p]
  PROVE  CalmBelief'
<1>1. /\ OneFeeder' /\ ReplaysCurrent'
      /\ \A u \in Feeders : u # t => call'[u].pc = "idle"
      /\ Feeding' <=> call'[t].pc # "idle"
  BY FeederStep
<1>2. ThroughSubject'
  BY <1>1 DEF ThroughSubject, InOperator
<1>3. MirrorAgrees'
  BY <1>1 DEF MirrorAgrees
<1>4. \A u \in Feeders : u # t => ~Behind(u)' /\ ~Lags(u)' /\ \A s, p : ~Told(u, s, p)'
  BY <1>1 DEF Behind, Lags, Told
<1>5. ~completed => Remembers'
  BY <1>4 DEF Remembers
<1>6. ~completed => Believes'
  BY <1>1, <1>4 DEF Believes, Wanted
<1> QED
  BY <1>1, <1>2, <1>3, <1>5, <1>6 DEF CalmBelief

LEMMA ReceiveKeeps ==
  ASSUME BeliefIInv, feed.calm, NEW t \in feed.feeders, Receive(t)
  PROVE  CalmBelief'
<1>0. t \in Feeders /\ t \notin Watchers /\ CalmBelief
  BY FeedStays DEF BeliefIInv, FeedNext
<1>1. PICK v \in Values :
        call' = [call EXCEPT ![t] =
          [NoCall EXCEPT !.pc = IF feed.kind = "pairwise" THEN "apply" ELSE "store", !.v = v]]
  BY DEF Receive
<1>2. /\ call'[t].pc = (IF feed.kind = "pairwise" THEN "apply" ELSE "store")
      /\ \A u \in Feeders \cup Watchers : u # t => call'[u] = call[u]
  BY <1>0, <1>1 DEF BeliefIInv, BeliefTypes, NoCall
<1>3. ~Feeding /\ ~Connecting /\ \A u \in Feeders : call[u].pc = "idle"
  BY DEF Receive, Feeding
<1>4. /\ UNCHANGED <<feed, camera, current, completed, subject, hasValue, last, watch, seen>>
  BY DEF Receive, shareVars, operatorVars
<1>5. Feeding' /\ ~Connecting' /\ \A u \in Feeders : u # t => call'[u].pc = "idle"
  BY <1>0, <1>2, <1>3, <1>4 DEF Feeding, Connecting
<1>6. OneFeeder' /\ ReplaysCurrent'
  BY <1>5 DEF OneFeeder, ReplaysCurrent, Connecting
<1>7. ThroughSubject' /\ MirrorAgrees'
  BY <1>0, <1>2, <1>3, <1>4, <1>5 DEF CalmBelief, ThroughSubject, MirrorAgrees, InOperator
<1>8. ASSUME ~completed PROVE Remembers' /\ Believes'
  <2>1. subject # 0 => Remembered
    BY <1>0, <1>3, <1>8 DEF CalmBelief, Remembers, Lags
  <2>2. Remembers'
    BY <1>4, <2>1 DEF Remembers, Remembered
  <2>3. ASSUME NEW s \in Watchers, watch[s] = "open", NEW p \in Props, Wanted(p)
        PROVE  seen[s][p] = current[p] /\ current = last[subject]
    BY <1>0, <1>3, <1>8, <2>1, <2>3, OpenFacts DEF BeliefIInv, CalmBelief, Believes, Remembered
  <2>4. \A u \in Feeders : \A s, p : ~Told(u, s, p)'
    BY <1>2, <1>5 DEF Told
  <2> QED
    BY <1>4, <1>5, <2>2, <2>3, <2>4 DEF Believes, Wanted
<1> QED
  BY <1>4, <1>6, <1>7, <1>8 DEF CalmBelief

LEMMA StoreKeeps ==
  ASSUME BeliefIInv, feed.calm, NEW t \in Feeders, ApplyCamera(t) \/ StoreValue(t)
  PROVE  CalmBelief'
<1>0. CalmBelief /\ call[t] \in CallType
  BY DEF BeliefIInv, BeliefTypes
<1>1. /\ UNCHANGED <<feed, watch, subject, completed, seen, last, hasValue>>
      /\ call[t].pc \in {"apply", "store"}
      /\ \E pc \in {"store", "snap"} : CallAt(t, pc)
      /\ IF call[t].pc = "apply" THEN /\ CallAt(t, "store")
                                      /\ camera' = call[t].v /\ UNCHANGED current
         ELSE CallAt(t, "snap") /\ current' = call[t].v /\ UNCHANGED camera
  BY DEF ApplyCamera, StoreValue, shareVars, operatorVars
<1>2. /\ call'[t].pc = (IF call[t].pc = "apply" THEN "store" ELSE "snap")
      /\ call'[t].v = call[t].v
      /\ \A u \in Feeders \cup Watchers : u # t => call'[u] = call[u]
  BY <1>1, CallMoved DEF BeliefIInv, CallPlaces
<1>3. ~Connecting
  BY <1>0, <1>1, <1>2, FeederStep
<1>4. feed.kind = "pairwise" => IF call[t].pc = "store" THEN camera = call[t].v ELSE camera = current
  BY <1>0, <1>1, <1>2, FeederStep DEF CalmBelief, MirrorAgrees
<1>5. ~completed /\ subject # 0 => subject \in hasValue' /\ (~Lags(t)' => Remembered')
  BY <1>0, <1>1, <1>2, <1>3, FeederStep DEF CalmBelief, Remembers, Remembered, Lags
<1>6. ~completed => \A s \in Watchers : watch[s] = "open" =>
        \A p \in Props : Wanted(p) =>
          seen'[s][p] = last'[subject][p] \/ seen'[s][p] = call'[t].v[p]
  BY <1>0, <1>1, <1>2 DEF CalmBelief, Believes, Behind
<1>7. \A s, p : ~Told(t, s, p)'
  BY <1>1, <1>2 DEF Told
<1> QED
  BY <1>0, <1>1, <1>2, <1>4, <1>5, <1>6, <1>7, FeederKeeps DEF InOperator

LEMMA DispatchValueKeeps ==
  ASSUME BeliefIInv, feed.calm, NEW t \in Feeders, DispatchValue(t)
  PROVE  CalmBelief'
<1>0. CalmBelief /\ call[t] \in CallType
  BY DEF BeliefIInv, BeliefTypes
<1>1. /\ UNCHANGED <<feed, watch, subject, completed, seen, last, hasValue, camera, current>>
      /\ call[t].pc = "snap"
      /\ \A u \in Feeders \cup Watchers : u # t => call'[u] = call[u]
      /\ IF completed THEN call'[t].pc = "idle"
         ELSE call'[t].pc = "dispatch" /\ call'[t].todo = upstream /\ call'[t].v = call[t].v
  BY <1>0 DEF DispatchValue, deviceVars, shareVars, operatorVars, BeliefIInv, BeliefTypes,
              CallType, NoCall
<1>2. ~Connecting /\ current = call[t].v /\ (feed.kind = "pairwise" => camera = current)
  BY <1>0, <1>1, FeederStep DEF CalmBelief, MirrorAgrees
<1>3. subject # 0 /\ ~completed => upstream = {subject}
  BY UpstreamParts DEF BeliefIInv, ShareIInv
<1>4. ~completed /\ subject # 0 => subject \in hasValue' /\ Lags(t)'
  BY <1>0, <1>1, <1>2, <1>3 DEF CalmBelief, Remembers, Lags
<1>5. ~completed => \A s \in Watchers : watch[s] = "open" =>
        \A p \in Props : Wanted(p) =>
          /\ seen'[s][p] = last'[subject][p] \/ seen'[s][p] = call'[t].v[p]
          /\ ~Told(t, s, p)'
  BY <1>0, <1>1, <1>3, OpenFacts DEF BeliefIInv, CalmBelief, Believes, Behind, Told
<1> QED
  BY <1>0, <1>1, <1>2, <1>3, <1>4, <1>5, FeederKeeps DEF InOperator

LEMMA NextConnectionKeeps ==
  ASSUME BeliefIInv, feed.calm, NEW t \in Feeders, NextConnection(t)
  PROVE  CalmBelief'
<1>0. CalmBelief /\ call[t] \in CallType
  BY DEF BeliefIInv, BeliefTypes
<1>1. /\ UNCHANGED <<feed, watch, subject, completed, seen, last, hasValue, camera, current>>
      /\ call[t].pc = "dispatch"
      /\ \A u \in Feeders \cup Watchers : u # t => call'[u] = call[u]
      /\ \/ /\ call'[t].pc = "decide" /\ call'[t].g \in call[t].todo /\ call'[t].v = call[t].v
            /\ call'[t].todo = call[t].todo \ {call'[t].g}
         \/ call[t].todo = {} /\ call'[t].pc = "idle"
  <2>1. CASE call[t].todo = {} /\ call' = [call EXCEPT ![t] = NoCall]
    BY <2>1 DEF NextConnection, deviceVars, shareVars, operatorVars, BeliefIInv, BeliefTypes, NoCall
  <2>2. ASSUME NEW g \in call[t].todo,
               call' = [call EXCEPT ![t].pc = "decide", ![t].g = g, ![t].todo = @ \ {g}]
        PROVE  /\ \A u \in Feeders \cup Watchers : u # t => call'[u] = call[u]
               /\ call'[t].pc = "decide" /\ call'[t].g = g /\ call'[t].v = call[t].v
               /\ call'[t].todo = call[t].todo \ {g}
    BY <1>0, <2>2 DEF BeliefIInv, BeliefTypes, CallType
  <2> QED
    BY <2>1, <2>2 DEF NextConnection, deviceVars, shareVars, operatorVars
<1>2. ~Connecting /\ current = call[t].v /\ (feed.kind = "pairwise" => camera = current)
  BY <1>0, <1>1, FeederStep DEF CalmBelief, MirrorAgrees
<1>3. subject # 0 => call[t].todo \subseteq {subject}
  BY <1>0, <1>1 DEF CalmBelief, ThroughSubject
<1>4. ~completed /\ subject # 0 => subject \in hasValue' /\ (~Lags(t)' => Remembered')
  BY <1>0, <1>1, <1>2, FeederStep DEF CalmBelief, Remembers, Remembered, Lags
<1>5. ~completed => \A s \in Watchers : watch[s] = "open" =>
        \A p \in Props : Wanted(p) =>
          IF call[t].todo = {} THEN seen[s][p] = current[p]
          ELSE seen[s][p] = last[subject][p] \/ seen[s][p] = call[t].v[p]
  BY <1>0, <1>1, <1>3, OpenFacts DEF BeliefIInv, CalmBelief, Believes, Behind, Told
<1>6. \A s, p : ~Told(t, s, p)'
  BY <1>1 DEF Told
<1> QED
  BY <1>0, <1>1, <1>2, <1>3, <1>4, <1>5, <1>6, FeederKeeps DEF InOperator, Behind

\* What the operators find when a Next comes to them.
LEMMA OperatorFacts ==
  ASSUME BeliefIInv, feed.calm, NEW t \in Feeders, call[t].pc \in InOperator
  PROVE  /\ CalmBelief /\ call[t] \in CallType /\ call[t].g \in Generations
         /\ ~Connecting /\ current = call[t].v /\ (feed.kind = "pairwise" => camera = current)
         /\ subject # 0 => call[t].g = subject /\ call[t].todo = {} /\ subject \in Generations
         /\ subject # 0 /\ ~completed => subject \in hasValue /\ (~Lags(t) => Remembered)
         /\ \A s \in Watchers : watch[s] = "open" => subject # 0
<1>1. CalmBelief /\ call[t] \in CallType /\ call[t].g \in Generations /\ Feeding
  BY DEF BeliefIInv, BeliefTypes, Delivers, Feeding, InOperator
<1>2. ~Connecting /\ \A u \in Feeders : u # t => call[u].pc = "idle"
  BY <1>1 DEF CalmBelief, OneFeeder, InOperator
<1>3. current = call[t].v /\ (feed.kind = "pairwise" => camera = current)
  BY <1>1, <1>2 DEF CalmBelief, MirrorAgrees, InOperator
<1>4. subject # 0 => call[t].g = subject /\ call[t].todo = {} /\ subject \in Generations
  BY <1>1, SubjectFacts DEF BeliefIInv, CalmBelief, ThroughSubject
<1>5. subject # 0 /\ ~completed => subject \in hasValue /\ (~Lags(t) => Remembered)
  BY <1>1, <1>2 DEF CalmBelief, Remembers, Lags
<1> QED
  BY <1>1, <1>2, <1>3, <1>4, <1>5, OpenFacts DEF BeliefIInv

LEMMA DecideKeeps ==
  ASSUME BeliefIInv, feed.calm, NEW t \in Feeders, Decide(t)
  PROVE  CalmBelief'
<1> DEFINE old == last[call[t].g]
<1>0. call[t].pc = "decide" /\ call[t].pc \in InOperator
  BY DEF Decide, InOperator
<1>1. /\ UNCHANGED <<feed, watch, subject, completed, seen, last, hasValue, camera, current>>
      /\ \/ feed.kind = "distinct" /\ old = call[t].v /\ CallAt(t, "return")
         \/ /\ feed.kind = "distinct"
            /\ call' = [call EXCEPT ![t].pc = "mark", ![t].out = {Flag}]
         \/ /\ feed.kind # "distinct"
            /\ call' = [call EXCEPT ![t].pc = "emit",
                 ![t].out = IF call[t].g \notin hasValue THEN {}
                            ELSE {p \in Changed(old, call[t].v) : Wanted(p)}]
  BY DEF Decide, deviceVars, shareVars, operatorVars
<1>2. /\ \A u \in Feeders \cup Watchers : u # t => call'[u] = call[u]
      /\ call'[t].v = call[t].v /\ call'[t].g = call[t].g /\ call'[t].todo = call[t].todo
      /\ \/ feed.kind = "distinct" /\ old = call[t].v /\ call'[t].pc = "return"
         \/ feed.kind = "distinct" /\ call'[t].pc = "mark" /\ call'[t].out = {Flag}
         \/ /\ feed.kind # "distinct" /\ call'[t].pc = "emit"
            /\ call'[t].out = IF call[t].g \notin hasValue THEN {}
                              ELSE {p \in Changed(old, call[t].v) : Wanted(p)}
  <2> DEFINE wanted == IF call[t].g \notin hasValue THEN {}
                       ELSE {p \in Changed(old, call[t].v) : Wanted(p)}
  <2>0. call[t] \in CallType
    BY DEF BeliefIInv, BeliefTypes
  <2> HIDE DEF wanted, old
  <2>1. CASE feed.kind = "distinct" /\ old = call[t].v /\ CallAt(t, "return")
    BY <2>1, CallMoved DEF BeliefIInv, CallPlaces
  <2>2. CASE /\ feed.kind = "distinct"
             /\ call' = [call EXCEPT ![t].pc = "mark", ![t].out = {Flag}]
    BY <2>0, <2>2 DEF BeliefIInv, BeliefTypes, CallType
  <2>3. CASE /\ feed.kind # "distinct"
             /\ call' = [call EXCEPT ![t].pc = "emit", ![t].out = wanted]
    <3>1. /\ \A u \in Feeders \cup Watchers : u # t => call'[u] = call[u]
          /\ call'[t] = [call[t] EXCEPT !.pc = "emit", !.out = wanted]
      BY <2>3 DEF BeliefIInv, BeliefTypes
    <3>2. /\ call'[t].v = call[t].v /\ call'[t].g = call[t].g /\ call'[t].todo = call[t].todo
          /\ call'[t].pc = "emit" /\ call'[t].out = wanted
      BY <2>0, <3>1 DEF CallType
    <3> QED
      BY <2>3, <3>1, <3>2 DEF wanted
  <2> QED
    BY <1>1, <2>1, <2>2, <2>3 DEF wanted
<1>3. /\ CalmBelief /\ current = call[t].v /\ (feed.kind = "pairwise" => camera = current)
      /\ subject # 0 => call[t].g = subject /\ call[t].todo = {} /\ subject \in Generations
      /\ subject # 0 /\ ~completed => subject \in hasValue
      /\ \A s \in Watchers : watch[s] = "open" => subject # 0
  BY <1>0, OperatorFacts
<1>4. feed.kind \in {"distinct", "pairwise"} /\ call[t].v \in Values
  BY <1>0, FeedAssumption, OperatorFacts DEF BeliefIInv, ShareIInv, ShareTypes, FeedType, CallType
<1>5. ~completed /\ subject # 0 => subject \in hasValue' /\ (~Lags(t)' => Remembered')
  BY <1>1, <1>2, <1>3, <1>4 DEF Remembered, Lags
<1>6. ~completed => \A s \in Watchers : watch[s] = "open" =>
        \A p \in Props : Wanted(p) /\ Told(t, s, p)' => seen[s][p] = current[p]
  <2> SUFFICES ASSUME ~completed, NEW s \in Watchers, watch[s] = "open",
                      NEW p \in Props, Wanted(p), Told(t, s, p)'
               PROVE  seen[s][p] = current[p]
    OBVIOUS
  <2>1. seen[s][p] = old[p] \/ seen[s][p] = call[t].v[p]
    BY <1>0, <1>3 DEF CalmBelief, Believes, Behind
  <2>2. old \in Values
    BY <1>3 DEF BeliefIInv, BeliefTypes
  <2>3. old[p] = call[t].v[p]
    <3>1. CASE old = call[t].v
      BY <3>1
    <3>2. CASE feed.kind = "distinct" /\ call'[t].pc = "mark" /\ call'[t].out = {Flag}
      BY <1>4, <2>2, <3>2, ValuesFacts DEF Told
    <3>3. CASE /\ feed.kind # "distinct" /\ call'[t].pc = "emit"
               /\ call'[t].out = IF call[t].g \notin hasValue THEN {}
                                 ELSE {q \in Changed(old, call[t].v) : Wanted(q)}
      BY <1>3, <3>3 DEF Told, Changed
    <3> QED
      BY <1>2, <3>1, <3>2, <3>3
  <2> QED
    BY <1>3, <2>1, <2>3
<1>7. ~Behind(t)' /\ call'[t].pc \notin {"idle", "apply", "store", "dispatch"}
  BY <1>2 DEF Behind
<1> HIDE DEF old
<1> QED
  BY <1>0, <1>1, <1>2, <1>3, <1>5, <1>6, <1>7, FeederKeeps

LEMMA MarkKeeps ==
  ASSUME BeliefIInv, feed.calm, NEW t \in Feeders, Mark(t)
  PROVE  CalmBelief'
<1>0. call[t].pc = "mark" /\ call[t].pc \in InOperator
  BY DEF Mark, InOperator
<1>1. /\ UNCHANGED <<feed, watch, subject, completed, seen, camera, current>>
      /\ hasValue' = hasValue \cup {call[t].g} /\ last' = [last EXCEPT ![call[t].g] = call[t].v]
      /\ \E pc \in {"emit", "return"} : CallAt(t, pc)
      /\ CallAt(t, IF feed.kind = "distinct" THEN "emit" ELSE "return")
  BY DEF Mark, deviceVars, shareVars
<1>2. /\ call'[t].pc = (IF feed.kind = "distinct" THEN "emit" ELSE "return")
      /\ call'[t].v = call[t].v /\ call'[t].todo = call[t].todo /\ call'[t].g = call[t].g
      /\ call'[t].out = call[t].out
      /\ \A u \in Feeders \cup Watchers : u # t => call'[u] = call[u]
  BY <1>1, CallMoved DEF BeliefIInv, CallPlaces
<1>3. /\ CalmBelief /\ current = call[t].v /\ (feed.kind = "pairwise" => camera = current)
      /\ subject # 0 => call[t].g = subject /\ call[t].todo = {} /\ subject \in Generations
  BY <1>0, OperatorFacts
<1>4. subject # 0 => subject \in hasValue' /\ Remembered'
  BY <1>1, <1>3 DEF Remembered, BeliefIInv, BeliefTypes
<1>5. feed.kind \in {"distinct", "pairwise"} /\ (feed.kind = "pairwise" => call[t].out = {})
  BY <1>0, FeedAssumption DEF BeliefIInv, ShareIInv, ShareTypes, FeedType, Delivers
<1>6. ~completed => \A s \in Watchers : watch[s] = "open" =>
        \A p \in Props : Wanted(p) /\ Told(t, s, p)' => seen[s][p] = current[p]
  BY <1>0, <1>2, <1>3, <1>5 DEF CalmBelief, Believes, Told
<1>7. ~Behind(t)' /\ call'[t].pc \notin {"idle", "apply", "store", "dispatch"}
  BY <1>2 DEF Behind
<1> QED
  BY <1>0, <1>1, <1>2, <1>3, <1>4, <1>6, <1>7, FeederKeeps

LEMMA EmitKeeps ==
  ASSUME BeliefIInv, feed.calm, NEW t \in Feeders, Emit(t)
  PROVE  CalmBelief'
<1>0. call[t].pc = "emit" /\ call[t].pc \in InOperator /\ call[t] \in CallType
  BY DEF Emit, InOperator, BeliefIInv, BeliefTypes
<1>1. UNCHANGED <<feed, watch, subject, completed, seen, camera, current, hasValue, last>>
  BY DEF Emit, deviceVars, shareVars, operatorVars
<1>2. /\ \A u \in Feeders \cup Watchers : u # t => call'[u] = call[u]
      /\ call'[t].v = call[t].v /\ call'[t].todo = call[t].todo /\ call'[t].g = call[t].g
      /\ call'[t].out = call[t].out
      /\ IF call[t].out # {} THEN call'[t].pc = "deliver" /\ call'[t].to = attached[call[t].g]
         ELSE call'[t].pc = IF feed.kind = "distinct" THEN "return" ELSE "mark"
  <2>1. CASE call[t].out # {}
    <3>1. call' = [call EXCEPT ![t] = [call[t] EXCEPT !.pc = "deliver", !.to = attached[call[t].g]]]
      BY <2>1, <1>0 DEF Emit, BeliefIInv, BeliefTypes, CallType
    <3>2. /\ \A u \in Feeders \cup Watchers : u # t => call'[u] = call[u]
          /\ call'[t] = [call[t] EXCEPT !.pc = "deliver", !.to = attached[call[t].g]]
      BY <3>1 DEF BeliefIInv, BeliefTypes
    <3> QED
      BY <1>0, <2>1, <3>2 DEF CallType
  <2>2. CASE call[t].out = {}
    <3>1. /\ \E pc \in {"return", "mark"} : CallAt(t, pc)
          /\ CallAt(t, IF feed.kind = "distinct" THEN "return" ELSE "mark")
      BY <2>2 DEF Emit
    <3> QED
      BY <2>2, <3>1, CallMoved DEF BeliefIInv, CallPlaces
  <2> QED
    BY <2>1, <2>2
<1>3. /\ CalmBelief /\ current = call[t].v /\ (feed.kind = "pairwise" => camera = current)
      /\ subject # 0 => call[t].g = subject /\ call[t].todo = {} /\ subject \in Generations
      /\ subject # 0 /\ ~completed => subject \in hasValue /\ (~Lags(t) => Remembered)
      /\ \A s \in Watchers : watch[s] = "open" => subject # 0
  BY <1>0, OperatorFacts
<1>4. ~completed /\ subject # 0 => subject \in hasValue' /\ (~Lags(t)' => Remembered')
  BY <1>0, <1>1, <1>2, <1>3 DEF Remembered, Lags
<1>5. ~completed => \A s \in Watchers : watch[s] = "open" =>
        \A p \in Props : Wanted(p) /\ Told(t, s, p)' => seen[s][p] = current[p]
  <2> SUFFICES ASSUME ~completed, NEW s \in Watchers, watch[s] = "open",
                      NEW p \in Props, Wanted(p), Told(t, s, p)'
               PROVE  seen[s][p] = current[p]
    OBVIOUS
  <2>1. s \in attached[call[t].g]
    BY <1>3, OpenFacts DEF BeliefIInv
  <2>2. p \notin call[t].out
    BY <1>2, <2>1 DEF Told
  <2> QED
    BY <1>0, <1>3, <2>2 DEF CalmBelief, Believes, Told
<1>6. ~Behind(t)' /\ call'[t].pc \notin {"idle", "apply", "store", "dispatch"}
  BY <1>2 DEF Behind
<1> QED
  BY <1>0, <1>1, <1>2, <1>3, <1>4, <1>5, <1>6, FeederKeeps

LEMMA DeliverChangeKeeps ==
  ASSUME BeliefIInv, feed.calm, NEW t \in Feeders, DeliverChange(t)
  PROVE  CalmBelief'
<1> DEFINE q == CHOOSE p \in call[t].out : TRUE
<1>0. call[t].pc = "deliver" /\ call[t].pc \in InOperator /\ call[t] \in CallType
  BY DEF DeliverChange, InOperator, BeliefIInv, BeliefTypes
<1>1. UNCHANGED <<feed, watch, subject, completed, camera, current, hasValue, last>>
  BY DEF DeliverChange, deviceVars, shareVars, operatorVars
<1>2. q \in call[t].out
  BY <1>0 DEF BeliefIInv, Delivers
<1>3. /\ CalmBelief /\ current = call[t].v /\ (feed.kind = "pairwise" => camera = current)
      /\ subject # 0 => call[t].g = subject /\ call[t].todo = {} /\ subject \in Generations
      /\ subject # 0 /\ ~completed => subject \in hasValue /\ (~Lags(t) => Remembered)
  BY <1>0, OperatorFacts
<1>4. ASSUME NEW s \in call[t].to,
             seen' = [seen EXCEPT ![s][q] = call[t].v[q]],
             call' = [call EXCEPT ![t].to = @ \ {s}]
      PROVE  CalmBelief'
  <2>1. /\ \A u \in Feeders \cup Watchers : u # t => call'[u] = call[u]
        /\ call'[t].pc = "deliver" /\ call'[t].v = call[t].v /\ call'[t].todo = call[t].todo
        /\ call'[t].g = call[t].g /\ call'[t].out = call[t].out
        /\ call'[t].to = call[t].to \ {s}
    BY <1>0, <1>4 DEF BeliefIInv, BeliefTypes, CallType
  <2>2. ~completed /\ subject # 0 => subject \in hasValue' /\ (~Lags(t)' => Remembered')
    BY <1>0, <1>1, <1>3, <2>1 DEF Remembered, Lags
  <2>3. \A u \in Watchers : \A p \in Props :
          seen'[u][p] = IF u = s /\ p = q THEN current[p] ELSE seen[u][p]
    <3> HIDE DEF q
    <3> QED
      BY <1>3, <1>4 DEF BeliefIInv, BeliefTypes
  <2>4. ~completed => \A u \in Watchers : watch[u] = "open" =>
          \A p \in Props : Wanted(p) /\ Told(t, u, p)' => seen'[u][p] = current[p]
    <3> SUFFICES ASSUME ~completed, NEW u \in Watchers, watch[u] = "open",
                        NEW p \in Props, Wanted(p), Told(t, u, p)', ~(u = s /\ p = q)
                 PROVE  seen[u][p] = current[p]
      BY <2>3
    <3>1. Told(t, u, p)
      BY <1>0, <2>1 DEF Told
    <3> QED
      BY <1>3, <3>1 DEF CalmBelief, Believes
  <2>5. ~Behind(t)'
    BY <2>1 DEF Behind
  <2> QED
    BY <1>0, <1>1, <1>3, <2>1, <2>2, <2>4, <2>5, FeederKeeps
<1>5. ASSUME call[t].to = {}, seen' = seen,
             call' = [call EXCEPT ![t].pc = "emit", ![t].out = @ \ {q}]
      PROVE  CalmBelief'
  <2>1. /\ \A u \in Feeders \cup Watchers : u # t => call'[u] = call[u]
        /\ call'[t].pc = "emit" /\ call'[t].v = call[t].v /\ call'[t].todo = call[t].todo
        /\ call'[t].g = call[t].g /\ call'[t].out = call[t].out \ {q}
    <3> HIDE DEF q
    <3> QED
      BY <1>0, <1>5 DEF BeliefIInv, BeliefTypes, CallType
  <2>2. ~completed /\ subject # 0 => subject \in hasValue' /\ (~Lags(t)' => Remembered')
    BY <1>0, <1>1, <1>3, <2>1 DEF Remembered, Lags
  <2>3. ~completed => \A u \in Watchers : watch[u] = "open" =>
          \A p \in Props : Wanted(p) /\ Told(t, u, p)' => seen'[u][p] = current[p]
    <3> SUFFICES ASSUME ~completed, NEW u \in Watchers, watch[u] = "open",
                        NEW p \in Props, Wanted(p), Told(t, u, p)'
                 PROVE  seen[u][p] = current[p]
      BY <1>5
    <3>1. Told(t, u, p)
      BY <1>0, <1>5, <2>1 DEF Told
    <3> QED
      BY <1>3, <3>1 DEF CalmBelief, Believes
  <2>4. ~Behind(t)'
    BY <2>1 DEF Behind
  <2> QED
    BY <1>0, <1>1, <1>3, <1>5, <2>1, <2>2, <2>3, <2>4, FeederKeeps
<1> QED
  BY <1>4, <1>5 DEF DeliverChange

LEMMA ReturnKeeps ==
  ASSUME BeliefIInv, feed.calm, NEW t \in Feeders, Return(t)
  PROVE  CalmBelief'
<1>0. call[t].pc = "return" /\ call[t].pc \in InOperator /\ t \notin Watchers
  BY WatchersAssumption DEF Return, InOperator
<1>1. /\ UNCHANGED <<feed, watch, subject, completed, seen, camera, current, hasValue, last>>
      /\ CallAt(t, "dispatch")
  BY <1>0 DEF Return, deviceVars, shareVars, operatorVars
<1>2. /\ call'[t].pc = "dispatch" /\ call'[t].v = call[t].v /\ call'[t].todo = call[t].todo
      /\ \A u \in Feeders \cup Watchers : u # t => call'[u] = call[u]
  BY <1>1, CallMoved DEF BeliefIInv, CallPlaces
<1>3. /\ CalmBelief /\ current = call[t].v /\ (feed.kind = "pairwise" => camera = current)
      /\ subject # 0 => call[t].todo = {}
      /\ subject # 0 /\ ~completed => subject \in hasValue /\ (~Lags(t) => Remembered)
      /\ \A s \in Watchers : watch[s] = "open" => subject # 0
  BY <1>0, OperatorFacts
<1>4. ~completed /\ subject # 0 => subject \in hasValue' /\ (~Lags(t)' => Remembered')
  BY <1>0, <1>1, <1>2, <1>3 DEF Remembered, Lags
<1>5. ~completed => \A s \in Watchers : watch[s] = "open" =>
        /\ ~Behind(t)'
        /\ \A p \in Props : Wanted(p) => seen[s][p] = current[p]
  BY <1>0, <1>1, <1>2, <1>3 DEF CalmBelief, Believes, Told, Behind
<1> QED
  BY <1>0, <1>1, <1>2, <1>3, <1>4, <1>5, FeederKeeps DEF InOperator

\* What a step that is not of a Next leaves of the invariant.
LEMMA SideKeeps ==
  ASSUME BeliefIInv, feed.calm, \A t \in Feeders : call'[t] = call[t],
         UNCHANGED <<feed, camera, current>>,
         subject' \in {subject, 0} \/ ~Feeding, Feeding => ~Connecting'
  PROVE  /\ OneFeeder' /\ ThroughSubject' /\ MirrorAgrees'
         /\ Feeding' <=> Feeding
<1>0. CalmBelief
  BY DEF BeliefIInv
<1>1. Feeding' <=> Feeding
  BY DEF Feeding
<1>2. OneFeeder'
  BY <1>0, <1>1 DEF CalmBelief, OneFeeder
<1>3. ThroughSubject'
  BY <1>0 DEF CalmBelief, ThroughSubject, Feeding, InOperator
<1>4. MirrorAgrees'
  BY <1>0 DEF CalmBelief, MirrorAgrees
<1> QED
  BY <1>1, <1>2, <1>3, <1>4

\* The replay of a new connection.
LEMMA ReplayKeeps ==
  ASSUME BeliefIInv, feed.calm, NEW s \in Watchers, CallStep(s)
  PROVE  CalmBelief'
<1>0. CalmBelief /\ call[s] \in CallType /\ s \notin Feeders
  BY WatchersAssumption DEF BeliefIInv, BeliefTypes
<1>1. /\ UNCHANGED <<feed, shareMu, subject, generations, refCount, attached, upstream, completed>>
      /\ call[s].pc # "idle"
      /\ \/ watch' = watch
         \/ call'[s].pc = "idle" /\ watch' = [watch EXCEPT ![s] = "join"]
  BY CallStepEffect DEF BeliefIInv, ShareIInv
<1>2. watch[s] = "replay" /\ Connecting /\ ~Feeding /\ shareMu = s
  BY <1>0, <1>1 DEF BeliefIInv, ShareIInv, MutexHeld, Connecting, CalmBelief, OneFeeder
<1>3. /\ call[s].pc \in InOperator /\ call[s].g = subject /\ call[s].v = current
      /\ call[s].pc = "return" => Remembered
      /\ feed.kind = "distinct" /\ call[s].pc \in {"emit", "deliver"} => Remembered
  BY <1>0, <1>2 DEF CalmBelief, ReplaysCurrent
<1>4. subject # 0 /\ subject \in Generations /\ Members = {}
  BY <1>2, SubjectFacts DEF BeliefIInv
<1>5. \A u \in Watchers : u # s => watch'[u] = watch[u] /\ watch[u] # "replay"
  BY <1>1, <1>2 DEF BeliefIInv, ShareIInv, ShareTypes, MutexHeld
<1>6. \A u \in Watchers : watch'[u] # "open"
  BY <1>1, <1>4, <1>5 DEF Members, BeliefIInv, ShareIInv, ShareTypes
<1>7. /\ UNCHANGED <<camera, current>>
      /\ \A t \in Feeders : call'[t] = call[t]
      /\ watch'[s] = "replay" =>
           /\ call'[s].pc \in InOperator /\ call'[s].g = subject /\ call'[s].v = current
           /\ call'[s].pc = "return" => Remembered'
           /\ feed.kind = "distinct" /\ call'[s].pc \in {"emit", "deliver"} => Remembered'
      /\ watch'[s] # "replay" => Remembered'
  <2>1. ~ApplyCamera(s) /\ ~StoreValue(s) /\ ~DispatchValue(s) /\ ~NextConnection(s)
    BY <1>3 DEF ApplyCamera, StoreValue, DispatchValue, NextConnection, InOperator
  <2>2. CASE Decide(s)
    <3>1. /\ UNCHANGED <<camera, current, watch, last, hasValue>>
          /\ \/ /\ feed.kind = "distinct" /\ subject \in hasValue /\ last[subject] = call[s].v
                /\ CallAt(s, "return")
             \/ /\ feed.kind = "distinct"
                /\ call' = [call EXCEPT ![s].pc = "mark", ![s].out = {Flag}]
             \/ /\ feed.kind # "distinct"
                /\ \E o : call' = [call EXCEPT ![s].pc = "emit", ![s].out = o]
      BY <1>3, <2>2 DEF Decide, deviceVars, operatorVars
    <3>2. CASE CallAt(s, "return") /\ Remembered
      BY <1>0, <1>1, <1>2, <1>3, <3>1, <3>2, CallMoved
         DEF BeliefIInv, CallPlaces, InOperator, Remembered
    <3>3. ASSUME NEW pc \in {"mark", "emit"}, NEW o, feed.kind = "distinct" => pc = "mark",
                 call' = [call EXCEPT ![s].pc = pc, ![s].out = o]
          PROVE  /\ \A t \in Feeders : call'[t] = call[t]
                 /\ call'[s].pc = pc /\ call'[s].g = call[s].g /\ call'[s].v = call[s].v
      BY <1>0, <3>3 DEF BeliefIInv, BeliefTypes, CallType
    <3> QED
      BY <1>2, <1>3, <3>1, <3>2, <3>3 DEF InOperator, Remembered
  <2>3. CASE Mark(s)
    <3>1. /\ UNCHANGED <<camera, current, watch>>
          /\ hasValue' = hasValue \cup {subject} /\ last' = [last EXCEPT ![subject] = current]
          /\ \E pc \in {"emit", "return"} : CallAt(s, pc)
      BY <1>3, <2>3 DEF Mark, deviceVars
    <3>2. Remembered'
      BY <1>1, <1>4, <3>1 DEF Remembered, BeliefIInv, BeliefTypes
    <3> QED
      BY <1>0, <1>2, <1>3, <3>1, <3>2, CallMoved DEF BeliefIInv, CallPlaces, InOperator
  <2>4. CASE Emit(s)
    <3>1. /\ UNCHANGED <<camera, current, watch, last, hasValue>> /\ call[s].pc = "emit"
          /\ \/ call' = [call EXCEPT ![s].pc = "deliver", ![s].to = attached[call[s].g]]
             \/ feed.kind = "distinct" /\ CallAt(s, "return")
             \/ feed.kind # "distinct" /\ CallAt(s, "mark")
      BY <2>4 DEF Emit, deviceVars, operatorVars
    <3>2. Remembered' <=> Remembered
      BY <1>1, <3>1 DEF Remembered
    <3>3. CASE call' = [call EXCEPT ![s].pc = "deliver", ![s].to = attached[call[s].g]]
      <4>1. /\ \A t \in Feeders : call'[t] = call[t]
            /\ call'[s].pc = "deliver" /\ call'[s].g = call[s].g /\ call'[s].v = call[s].v
        BY <1>0, <3>3 DEF BeliefIInv, BeliefTypes, CallType
      <4> QED
        BY <1>2, <1>3, <3>1, <3>2, <4>1 DEF InOperator
    <3>4. CASE feed.kind = "distinct" /\ CallAt(s, "return")
      BY <1>0, <1>2, <1>3, <3>1, <3>2, <3>4, CallMoved DEF BeliefIInv, CallPlaces, InOperator
    <3>5. CASE feed.kind # "distinct" /\ CallAt(s, "mark")
      BY <1>0, <1>2, <1>3, <3>1, <3>2, <3>5, CallMoved DEF BeliefIInv, CallPlaces, InOperator
    <3> QED
      BY <3>1, <3>3, <3>4, <3>5
  <2>5. CASE DeliverChange(s)
    <3>1. /\ UNCHANGED <<camera, current, watch, last, hasValue>> /\ call[s].pc = "deliver"
          /\ \/ \E w : call' = [call EXCEPT ![s].to = w]
             \/ \E o : call' = [call EXCEPT ![s].pc = "emit", ![s].out = o]
      BY <2>5 DEF DeliverChange, deviceVars, operatorVars
    <3>2. Remembered' <=> Remembered
      BY <1>1, <3>1 DEF Remembered
    <3>3. /\ \A t \in Feeders : call'[t] = call[t]
          /\ call'[s].pc \in {"deliver", "emit"}
          /\ call'[s].g = call[s].g /\ call'[s].v = call[s].v
      <4>1. CASE \E w : call' = [call EXCEPT ![s].to = w]
        <5>1. PICK w : call' = [call EXCEPT ![s].to = w]
          BY <4>1
        <5>2. /\ \A t \in Feeders : call'[t] = call[t]
              /\ call'[s] = [call[s] EXCEPT !.to = w]
          BY <1>0, <5>1 DEF BeliefIInv, BeliefTypes
        <5> QED
          BY <1>0, <3>1, <5>2 DEF CallType
      <4>2. CASE \E o : call' = [call EXCEPT ![s].pc = "emit", ![s].out = o]
        BY <1>0, <4>2 DEF BeliefIInv, BeliefTypes, CallType
      <4> QED
        BY <3>1, <4>1, <4>2
    <3> QED
      BY <1>2, <1>3, <3>1, <3>2, <3>3 DEF InOperator
  <2>6. CASE Return(s)
    BY <1>0, <1>1, <1>3, <2>6
       DEF Return, WatchAt, deviceVars, operatorVars, BeliefIInv, BeliefTypes, ShareIInv, ShareTypes,
           Remembered
  <2> QED
    BY <2>1, <2>2, <2>3, <2>4, <2>5, <2>6 DEF CallStep
<1>8. OneFeeder' /\ ThroughSubject' /\ MirrorAgrees'
  BY <1>1, <1>2, <1>7, SideKeeps
<1>9. ReplaysCurrent'
  BY <1>1, <1>5, <1>7 DEF ReplaysCurrent
<1>10. Remembers'
  BY <1>1, <1>7 DEF Remembers, Connecting, Remembered
<1> QED
  BY <1>6, <1>8, <1>9, <1>10 DEF CalmBelief, Believes

LEMMA ConnectKeeps ==
  ASSUME BeliefIInv, feed.calm, NEW s \in Watchers, Connect(s)
  PROVE  CalmBelief'
<1>0. CalmBelief
  BY DEF BeliefIInv
<1>1. /\ UNCHANGED <<feed, camera, current, completed, call>>
      /\ ~Feeding /\ watch' = [watch EXCEPT ![s] = "read"] /\ shareMu = Free /\ subject = 0
  BY DEF Connect, WatchAt
<1>2. Members = {} /\ Connecting'
  BY <1>1, UpstreamParts DEF BeliefIInv, ShareIInv, ShareTypes, Connecting
<1>3. OneFeeder' /\ ThroughSubject' /\ MirrorAgrees'
  BY <1>1, SideKeeps
<1>4. \A u \in Watchers : watch'[u] \notin {"replay", "open"}
  BY <1>1, <1>2, WatchersAssumption
     DEF BeliefIInv, ShareIInv, ShareTypes, MutexHeld, Members
<1> QED
  BY <1>2, <1>3, <1>4 DEF CalmBelief, ReplaysCurrent, Remembers, Believes

LEMMA ReadCurrentKeeps ==
  ASSUME BeliefIInv, feed.calm, NEW s \in Watchers, ReadCurrent(s)
  PROVE  CalmBelief'
<1>0. CalmBelief /\ s \notin Feeders
  BY WatchersAssumption DEF BeliefIInv
<1>1. /\ UNCHANGED <<feed, camera, current, completed, subject, shareMu>>
      /\ watch[s] = "read"
      /\ \/ completed /\ watch' = [watch EXCEPT ![s] = "join"] /\ call' = call
         \/ /\ watch' = [watch EXCEPT ![s] = "replay"]
            /\ call' = [call EXCEPT ![s] =
                 [NoCall EXCEPT !.pc = "decide", !.v = current, !.g = subject]]
  BY DEF ReadCurrent, WatchAt, deviceVars, shareVars
<1>2. ~Feeding /\ Members = {} /\ shareMu = s
  BY <1>0, <1>1, SubjectFacts DEF BeliefIInv, ShareIInv, MutexHeld, CalmBelief, OneFeeder, Connecting
<1>3. /\ \A t \in Feeders : call'[t] = call[t]
      /\ watch'[s] = "replay" =>
           call'[s].pc = "decide" /\ call'[s].v = current /\ call'[s].g = subject
  <2>1. CASE watch' = [watch EXCEPT ![s] = "join"] /\ call' = call
    BY <2>1 DEF BeliefIInv, ShareIInv, ShareTypes
  <2>2. CASE call' = [call EXCEPT ![s] =
               [NoCall EXCEPT !.pc = "decide", !.v = current, !.g = subject]]
    BY <1>0, <2>2 DEF BeliefIInv, BeliefTypes, NoCall
  <2> QED
    BY <1>1, <2>1, <2>2
<1>4. OneFeeder' /\ ThroughSubject' /\ MirrorAgrees'
  BY <1>1, <1>2, <1>3, SideKeeps
<1>5. \A u \in Watchers : u # s => watch'[u] = watch[u] /\ watch[u] \notin {"replay", "open"}
  BY <1>1, <1>2 DEF BeliefIInv, ShareIInv, ShareTypes, MutexHeld, Members
<1>6. watch'[s] \in {"join", "replay"} /\ (watch'[s] = "join" => completed)
  BY <1>1 DEF BeliefIInv, ShareIInv, ShareTypes
<1>7. ReplaysCurrent'
  BY <1>1, <1>3, <1>5 DEF ReplaysCurrent, InOperator
<1>8. ~completed => Remembers' /\ Believes'
  BY <1>5, <1>6 DEF Remembers, Believes, Connecting
<1> QED
  BY <1>1, <1>4, <1>7, <1>8 DEF CalmBelief

\* A subscriber that is counted.
LEMMA JoinKeeps ==
  ASSUME BeliefIInv, feed.calm, NEW s \in Watchers, Join(s)
  PROVE  CalmBelief'
<1>0. CalmBelief
  BY DEF BeliefIInv
<1>1. /\ UNCHANGED <<feed, camera, current, completed, subject, call, seen, last, hasValue>>
      /\ watch' = [watch EXCEPT ![s] = "joined"] /\ watch[s] \in {"join", "idle"}
  BY DEF Join, WatchAt, deviceVars, operatorVars
<1>2. /\ \A u \in Watchers : u # s => watch'[u] = watch[u]
      /\ watch'[s] = "joined" /\ (Connecting' <=> Connecting)
  BY <1>1 DEF BeliefIInv, ShareIInv, ShareTypes, Connecting
<1>3. OneFeeder' /\ ThroughSubject' /\ MirrorAgrees' /\ (Feeding' <=> Feeding)
  BY <1>0, <1>1, <1>2, SideKeeps DEF CalmBelief, OneFeeder
<1>4. ReplaysCurrent'
  BY <1>0, <1>1, <1>2 DEF CalmBelief, ReplaysCurrent, Remembered
<1>5. ~completed => Remembers'
  BY <1>0, <1>1, <1>2 DEF CalmBelief, Remembers, Remembered, Lags
<1>6. ~completed => Believes'
  BY <1>0, <1>1, <1>2, <1>3 DEF CalmBelief, Believes, Wanted, Behind, Told
<1> QED
  BY <1>1, <1>3, <1>4, <1>5, <1>6 DEF CalmBelief

\* A subscriber starts from the mirror.
LEMMA ReadMirrorKeeps ==
  ASSUME BeliefIInv, feed.calm, NEW s \in Watchers, ReadMirror(s)
  PROVE  CalmBelief'
<1>0. CalmBelief
  BY DEF BeliefIInv
<1>1. /\ UNCHANGED <<feed, camera, current, completed, subject, call, last, hasValue>>
      /\ watch' = [watch EXCEPT ![s] = "open"] /\ watch[s] = "joined"
      /\ seen' = [seen EXCEPT ![s] = IF feed.kind = "pairwise" THEN camera ELSE current]
  BY DEF ReadMirror, WatchAt, deviceVars, shareVars, operatorVars
<1>2. /\ \A u \in Watchers : u # s => watch'[u] = watch[u] /\ seen'[u] = seen[u]
      /\ watch'[s] = "open" /\ (Connecting' <=> Connecting)
      /\ seen'[s] = IF feed.kind = "pairwise" THEN camera ELSE current
  BY <1>1 DEF BeliefIInv, BeliefTypes, ShareIInv, ShareTypes, Connecting
<1>3. OneFeeder' /\ ThroughSubject' /\ MirrorAgrees' /\ (Feeding' <=> Feeding)
  BY <1>0, <1>1, <1>2, SideKeeps DEF CalmBelief, OneFeeder
<1>4. ReplaysCurrent'
  BY <1>0, <1>1, <1>2 DEF CalmBelief, ReplaysCurrent, Remembered
<1>5. ~completed => Remembers'
  BY <1>0, <1>1, <1>2 DEF CalmBelief, Remembers, Remembered, Lags
<1>6. subject # 0 /\ ~Connecting
  <2>1. s \in Members
    BY <1>1 DEF Members
  <2>2. shareMu = Free
    BY <2>1 DEF BeliefIInv, ShareIInv, MutexHeld
  <2> QED
    BY <2>1, <2>2, UpstreamParts, WatchersAssumption DEF BeliefIInv, ShareIInv, MutexHeld, Connecting
<1>7. ASSUME ~completed, NEW t \in Feeders, NEW p \in Props
      PROVE  /\ ~Feeding => seen'[s][p] = current[p]
             /\ Behind(t) => seen'[s][p] = last[subject][p] \/ seen'[s][p] = call[t].v[p]
             /\ Told(t, s, p) => seen'[s][p] = current[p]
  <2>1. ~Feeding => seen'[s][p] = current[p]
    BY <1>0, <1>2 DEF CalmBelief, MirrorAgrees, Feeding
  <2>2. ASSUME call[t].pc # "idle" PROVE \A u \in Feeders : u # t => call[u].pc = "idle"
    BY <1>0, <2>2 DEF CalmBelief, OneFeeder
  <2>3. ASSUME call[t].pc = "store" /\ feed.kind = "pairwise" PROVE seen'[s] = call[t].v
    BY <1>0, <1>2, <2>3 DEF CalmBelief, MirrorAgrees
  <2>4. ASSUME call[t].pc # "idle", ~(call[t].pc = "store" /\ feed.kind = "pairwise")
        PROVE  seen'[s] = current
    BY <1>0, <1>2, <2>2, <2>4 DEF CalmBelief, MirrorAgrees
  <2>5. ASSUME call[t].pc \in {"apply", "store"} PROVE current = last[subject]
    BY <1>0, <1>6, <1>7, <2>2, <2>5 DEF CalmBelief, Remembers, Remembered, Lags
  <2>6. ASSUME call[t].pc \notin {"idle", "apply", "store"} PROVE current = call[t].v
    BY <1>0, <2>6 DEF CalmBelief, MirrorAgrees
  <2>7. Behind(t) => seen'[s][p] = last[subject][p] \/ seen'[s][p] = call[t].v[p]
    BY <2>3, <2>4, <2>5, <2>6 DEF Behind
  <2>8. Told(t, s, p) => seen'[s][p] = current[p]
    BY <2>4 DEF Told
  <2> QED
    BY <2>1, <2>7, <2>8
<1>8. ~completed => Believes'
  <2> SUFFICES ASSUME ~completed, NEW u \in Watchers, watch'[u] = "open", NEW p \in Props, Wanted(p)
               PROVE  /\ ~Feeding => seen'[u][p] = current[p]
                      /\ \A t \in Feeders :
                           /\ Behind(t) => seen'[u][p] = last[subject][p] \/ seen'[u][p] = call[t].v[p]
                           /\ Told(t, u, p) => seen'[u][p] = current[p]
    BY <1>1, <1>3 DEF Believes, Wanted, Behind, Told
  <2>1. CASE u = s
    BY <1>7, <2>1 DEF Feeders
  <2>2. CASE u # s
    BY <1>0, <1>2, <2>2 DEF CalmBelief, Believes
  <2> QED
    BY <2>1, <2>2
<1> QED
  BY <1>1, <1>3, <1>4, <1>5, <1>8 DEF CalmBelief

\* A subscriber that goes, and a connection that goes with the last one.
LEMMA LeaveKeeps ==
  ASSUME BeliefIInv, feed.calm, NEW s \in Watchers, Leave(s) \/ Disconnect(s)
  PROVE  CalmBelief'
<1>0. CalmBelief
  BY DEF BeliefIInv
<1>1. /\ UNCHANGED <<feed, camera, current, completed, call, seen, last, hasValue>>
      /\ watch[s] \in {"open", "leaving"}
      /\ \E pc \in {"leaving", "closed"} : watch' = [watch EXCEPT ![s] = pc]
      /\ subject' = subject \/ (subject' = 0 /\ shareMu = Free)
  BY DEF Leave, Disconnect, WatchAt, deviceVars, operatorVars
<1>2. /\ \A u \in Watchers : u # s => watch'[u] = watch[u]
      /\ watch'[s] \in {"leaving", "closed"} /\ (Connecting' <=> Connecting)
  BY <1>1 DEF BeliefIInv, ShareIInv, ShareTypes, Connecting
<1>3. OneFeeder' /\ ThroughSubject' /\ MirrorAgrees' /\ (Feeding' <=> Feeding)
  BY <1>0, <1>1, <1>2, SideKeeps DEF CalmBelief, OneFeeder
<1>4. ShareIInv'
  BY ShareStep DEF BeliefIInv, FeedNext
<1>5. ReplaysCurrent'
  <2>1. CASE subject' = subject
    BY <1>0, <1>1, <1>2, <2>1 DEF CalmBelief, ReplaysCurrent, Remembered
  <2>2. CASE shareMu = Free
    BY <1>2, <2>2, WatchersAssumption DEF BeliefIInv, ShareIInv, MutexHeld, ReplaysCurrent
  <2> QED
    BY <1>1, <2>1, <2>2
<1>6. ~completed => Remembers'
  BY <1>0, <1>1, <1>2 DEF CalmBelief, Remembers, Remembered, Lags
<1>7. ASSUME NEW u \in Watchers, watch'[u] = "open" PROVE subject' = subject /\ watch[u] = "open"
  <2>1. subject' # 0
    <3>1. u \in Members'
      BY <1>7 DEF Members
    <3> QED
      BY <1>4, <3>1, UpstreamParts DEF ShareIInv, MutexHeld, OneUpstream, Members
  <2> QED
    BY <1>1, <1>2, <1>7, <2>1
<1>8. ~completed => Believes'
  <2> SUFFICES ASSUME ~completed, NEW u \in Watchers, watch'[u] = "open", NEW p \in Props, Wanted(p)
               PROVE  /\ ~Feeding => seen[u][p] = current[p]
                      /\ \A t \in Feeders :
                           /\ Behind(t)' => seen[u][p] = last[subject'][p] \/ seen[u][p] = call[t].v[p]
                           /\ Told(t, u, p)' => seen[u][p] = current[p]
    BY <1>1, <1>3 DEF Believes, Wanted
  <2>1. subject' = subject /\ watch[u] = "open"
    BY <1>7
  <2>2. \A t \in Feeders : (Behind(t)' <=> Behind(t)) /\ (Told(t, u, p)' <=> Told(t, u, p))
    BY <1>1, <2>1 DEF Behind, Told
  <2> QED
    BY <1>0, <2>1, <2>2 DEF CalmBelief, Believes
<1> QED
  BY <1>1, <1>3, <1>5, <1>6, <1>8 DEF CalmBelief

LEMMA DeliversStep ==
  ASSUME ShareIInv, BeliefTypes, Delivers, [FeedNext]_feedVars
  PROVE  Delivers'
<1> DEFINE Fine(c) == /\ c.pc \in InOperator => c.g \in Generations
                      /\ c.pc = "deliver" => c.out # {}
                      /\ c.pc = "mark" /\ feed.kind = "pairwise" => c.out = {}
           T == Feeders \cup Watchers
<1>0. /\ feed' = feed /\ feed.feeders \subseteq Feeders
      /\ \A t \in T : Fine(call[t]) /\ call[t] \in CallType
  BY FeedStays DEF Delivers, BeliefTypes
<1> SUFFICES \A t \in T : Fine(call'[t])
  BY <1>0 DEF Delivers
<1>1. ASSUME NEW t \in T, Fine(call'[t]), \A u \in T : u # t => call'[u] = call[u]
      PROVE  \A u \in T : Fine(call'[u])
  <2> HIDE DEF Fine
  <2> QED
    BY <1>0, <1>1
<1>2. ASSUME NEW t \in T, NEW pc \in CallPlaces, CallAt(t, pc),
             pc \in InOperator => call[t].pc \in InOperator,
             pc # "deliver", pc = "mark" /\ feed.kind = "pairwise" => call[t].out = {}
      PROVE  \A u \in T : Fine(call'[u])
  BY <1>0, <1>1, <1>2, CallMoved
<1>3. ASSUME NEW t \in T, NEW c, Fine(c), call' = [call EXCEPT ![t] = c]
      PROVE  \A u \in T : Fine(call'[u])
  <2>1. call'[t] = c /\ \A u \in T : u # t => call'[u] = call[u]
    <3> HIDE DEF Fine
    <3> QED
      BY <1>3 DEF BeliefTypes
  <2> QED
    BY <1>1, <1>3, <2>1
<1>4. ASSUME NEW t \in feed.feeders, Receive(t) PROVE \A u \in T : Fine(call'[u])
  <2>1. PICK v : call' = [call EXCEPT ![t] =
          [NoCall EXCEPT !.pc = IF feed.kind = "pairwise" THEN "apply" ELSE "store", !.v = v]]
    BY <1>4 DEF Receive
  <2>2. Fine([NoCall EXCEPT !.pc = IF feed.kind = "pairwise" THEN "apply" ELSE "store", !.v = v])
    BY DEF NoCall, InOperator
  <2> QED
    BY <1>0, <1>3, <2>1, <2>2
<1>5. ASSUME NEW t \in T, CallStep(t) PROVE \A u \in T : Fine(call'[u])
  <2>0. call[t] \in CallType /\ Fine(call[t]) /\ Fine(NoCall)
    BY <1>0 DEF NoCall, InOperator
  <2>1. CASE ApplyCamera(t) \/ StoreValue(t)
    BY <1>2, <2>1 DEF ApplyCamera, StoreValue, CallPlaces, InOperator
  <2>2. CASE DispatchValue(t)
    <3>1. Fine([call[t] EXCEPT !.pc = "dispatch", !.todo = upstream])
      BY <2>0 DEF CallType, InOperator
    <3> QED
      BY <1>3, <2>0, <2>2, <3>1 DEF DispatchValue
  <2>3. CASE NextConnection(t)
    <3>1. CASE call' = [call EXCEPT ![t] = NoCall]
      BY <1>3, <2>0, <3>1
    <3>2. ASSUME NEW g \in call[t].todo,
                 call' = [call EXCEPT ![t].pc = "decide", ![t].g = g, ![t].todo = @ \ {g}]
          PROVE  \A u \in T : Fine(call'[u])
      <4>1. g \in Generations
        BY <2>0, <3>2 DEF CallType
      <4>2. /\ \A u \in T : u # t => call'[u] = call[u]
            /\ call'[t].pc = "decide" /\ call'[t].g = g
        BY <2>0, <3>2 DEF BeliefTypes, CallType
      <4> QED
        BY <1>1, <4>1, <4>2
    <3> QED
      BY <2>3, <3>1, <3>2 DEF NextConnection
  <2>4. CASE Decide(t)
    <3>1. CASE CallAt(t, "return")
      BY <1>2, <2>4, <3>1 DEF Decide, CallPlaces, InOperator
    <3>2. ASSUME NEW pc \in {"mark", "emit"}, NEW o, feed.kind # "pairwise" \/ pc = "emit",
                 call' = [call EXCEPT ![t].pc = pc, ![t].out = o]
          PROVE  \A u \in T : Fine(call'[u])
      <4>1. /\ \A u \in T : u # t => call'[u] = call[u]
            /\ call'[t].pc = pc /\ call'[t].g = call[t].g
        BY <2>0, <3>2 DEF BeliefTypes, CallType
      <4> QED
        BY <1>1, <2>0, <2>4, <3>2, <4>1 DEF Decide, InOperator
    <3>3. \/ CallAt(t, "return")
          \/ \E pc \in {"mark", "emit"} : \E o :
               /\ feed.kind # "pairwise" \/ pc = "emit"
               /\ call' = [call EXCEPT ![t].pc = pc, ![t].out = o]
      BY <2>4 DEF Decide
    <3> QED
      BY <3>1, <3>2, <3>3
  <2>5. CASE Mark(t)
    BY <1>2, <2>5 DEF Mark, CallPlaces, InOperator
  <2>6. CASE Emit(t)
    <3>1. CASE call[t].out = {}
      BY <1>2, <2>6, <3>1 DEF Emit, CallPlaces, InOperator
    <3>2. CASE call[t].out # {}
      <4>1. call' = [call EXCEPT ![t] = [call[t] EXCEPT !.pc = "deliver", !.to = attached[call[t].g]]]
        BY <2>0, <2>6, <3>2 DEF Emit, BeliefTypes, CallType
      <4>2. Fine([call[t] EXCEPT !.pc = "deliver", !.to = attached[call[t].g]])
        BY <2>0, <2>6, <3>2 DEF Emit, CallType, InOperator
      <4> QED
        BY <1>3, <4>1, <4>2
    <3> QED
      BY <3>1, <3>2
  <2>7. CASE DeliverChange(t)
    <3>1. ASSUME NEW w, call' = [call EXCEPT ![t].to = w] PROVE \A u \in T : Fine(call'[u])
      <4>1. call' = [call EXCEPT ![t] = [call[t] EXCEPT !.to = w]]
        BY <3>1
      <4>2. Fine([call[t] EXCEPT !.to = w])
        BY <2>0 DEF CallType
      <4> QED
        BY <1>3, <4>1, <4>2
    <3>2. ASSUME NEW o, call' = [call EXCEPT ![t].pc = "emit", ![t].out = o]
          PROVE  \A u \in T : Fine(call'[u])
      <4>1. /\ \A u \in T : u # t => call'[u] = call[u]
            /\ call'[t].pc = "emit" /\ call'[t].g = call[t].g
        BY <2>0, <3>2 DEF BeliefTypes, CallType
      <4> QED
        BY <1>1, <2>0, <2>7, <4>1 DEF DeliverChange, InOperator
    <3> QED
      BY <2>7, <3>1, <3>2 DEF DeliverChange
  <2>8. CASE Return(t)
    BY <1>2, <1>3, <2>0, <2>8 DEF Return, CallPlaces, InOperator
  <2> QED
    BY <1>5, <2>1, <2>2, <2>3, <2>4, <2>5, <2>6, <2>7, <2>8 DEF CallStep
<1>6. ASSUME NEW s \in Watchers, ReadCurrent(s) PROVE \A u \in T : Fine(call'[u])
  <2>1. Fine([NoCall EXCEPT !.pc = "decide", !.v = current, !.g = subject])
    BY <1>6, SubjectFacts DEF NoCall, ReadCurrent
  <2>2. \/ call' = call
        \/ call' = [call EXCEPT ![s] = [NoCall EXCEPT !.pc = "decide", !.v = current, !.g = subject]]
    BY <1>6 DEF ReadCurrent
  <2> QED
    BY <1>0, <1>3, <2>1, <2>2
<1>7. CASE call' = call
  BY <1>0, <1>7
<1> QED
  BY <1>4, <1>5, <1>6, <1>7 DEF FeedNext, feedVars, Connect, Join, ReadMirror, Leave, Disconnect,
                                Complete

LEMMA BeliefInductive == BeliefIInv /\ [FeedNext]_feedVars => BeliefIInv'
<1> SUFFICES ASSUME BeliefIInv, [FeedNext]_feedVars PROVE BeliefIInv'
  OBVIOUS
<1>1. ShareIInv' /\ BeliefTypes' /\ Delivers'
  BY ShareStep, BeliefTypesStep, DeliversStep DEF BeliefIInv
<1>2. feed' = feed
  BY FeedStays DEF BeliefIInv
<1> SUFFICES ASSUME feed.calm PROVE CalmBelief'
  BY <1>1, <1>2 DEF BeliefIInv
<1>3. ASSUME NEW t \in Feeders, CallStep(t) PROVE CalmBelief'
  BY <1>3, StoreKeeps, DispatchValueKeeps, NextConnectionKeeps, DecideKeeps, MarkKeeps, EmitKeeps,
     DeliverChangeKeeps, ReturnKeeps DEF CallStep
<1>4. CASE Complete
  <2>1. /\ UNCHANGED <<feed, camera, current, call, watch, subject, last, hasValue>> /\ completed'
    BY <1>4 DEF Complete, shareVars, operatorVars
  <2>2. (Connecting' <=> Connecting) /\ CalmBelief
    BY <2>1 DEF Connecting, BeliefIInv
  <2>3. OneFeeder' /\ ThroughSubject' /\ MirrorAgrees'
    BY <2>1, <2>2, SideKeeps DEF CalmBelief, OneFeeder
  <2> QED
    BY <2>1, <2>2, <2>3 DEF CalmBelief, ReplaysCurrent, Remembered
<1>5. CASE UNCHANGED feedVars
  BY <1>5 DEF feedVars, deviceVars, shareVars, operatorVars, BeliefIInv, CalmBelief, OneFeeder,
              ThroughSubject, MirrorAgrees, ReplaysCurrent, Remembers, Remembered, Believes,
              Behind, Lags, Told, Wanted, Feeding, Connecting
<1> QED
  BY <1>3, <1>4, <1>5, ReceiveKeeps, ReplayKeeps, ConnectKeeps, ReadCurrentKeeps, JoinKeeps,
     ReadMirrorKeeps, LeaveKeeps DEF FeedNext

\* OnConnected "emits distinct connection state changes" and OnPropertyChange "emits
\* when any of the specified camera properties change", for any number of subscribers,
\* values and properties: when one value arrives at a time and none while Share
\* connects, everyone who subscribed believes what the mirror says.
THEOREM FeedFollows == FeedSpec => []FollowsState
<1>1. FeedInit => BeliefIInv
  <2> SUFFICES ASSUME FeedInit PROVE BeliefIInv
    OBVIOUS
  <2>1. ShareIInv
    BY ShareInitial
  <2>2. \A t \in Feeders \cup Watchers : call[t] = NoCall /\ NoCall.pc = "idle"
    BY DEF FeedInit, NoCall
  <2>3. ~Feeding /\ ~Connecting /\ \A s \in Watchers : watch[s] = "idle"
    BY <2>2 DEF Feeding, Connecting, FeedInit
  <2>4. BeliefTypes
    BY ValuesFacts, FeedAssumption DEF FeedInit, BeliefTypes
  <2>5. Delivers
    BY <2>2 DEF Delivers, InOperator
  <2>6. CalmBelief
    BY <2>2, <2>3 DEF FeedInit, CalmBelief, OneFeeder, ThroughSubject, MirrorAgrees, ReplaysCurrent,
                      Remembers, Believes, InOperator
  <2> QED
    BY <2>1, <2>4, <2>5, <2>6 DEF BeliefIInv
<1>2. BeliefIInv => FollowsState
  BY DEF BeliefIInv, CalmBelief, MirrorAgrees, Believes, FollowsState, Informed, Feeding
<1> QED
  BY <1>1, <1>2, BeliefInductive, PTL DEF FeedSpec
=============================================================================
