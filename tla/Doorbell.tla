------------------------------ MODULE Doorbell ------------------------------
(***************************************************************************)
(* DoorbellTrigger (src/go/sensor_doorbell.go): Trigger sets the ring      *)
(* property and arms a timer that resets it.  Trigger is called by the     *)
(* plugin and, through UpdateValue, by consumers; the timer's function     *)
(* runs in a goroutine of its own; cleanup runs when the sensor is         *)
(* removed, after which the same object may be added again.                *)
(***************************************************************************)
EXTENDS SensorKinds

CONSTANTS
  Ringers,      \* goroutines that trigger the bell
  MaxTriggers,  \* bound: calls of Trigger
  MaxRemovals   \* bound: removals of the sensor

VARIABLES
  calm,      \* a call, or the function of a timer, is over before the next begins; never changed
  ring,      \* the ring property
  timerRef,  \* s.ringResetTimer, 0 for nil
  timers,    \* the timers made so far, in order, and what became of each
  born,      \* history: the life of the sensor in which each timer was made
  ringer,    \* where each goroutine is in Trigger
  triggers,  \* calls of Trigger so far
  life       \* times the sensor was removed

bellVars == <<calm, ring, timerRef, timers, born, ringer, triggers, life>>

ASSUME BellBoundsAssumption == MaxTriggers \in Nat /\ MaxRemovals \in Nat

Silent == [pc |-> "idle", timer |-> 0]

Resetting == {i \in DOMAIN timers : timers[i] \in {"fired", "reset"}}
AllSilent == \A t \in Ringers : ringer[t] = Silent
MayBegin == calm => AllSilent /\ Resetting = {}

\* What Trigger and cleanup do under the lock: a stopped timer never fires, one
\* that has fired runs on.
StopTimer ==
  /\ timers' = [i \in DOMAIN timers |->
                  IF i = timerRef /\ timers[i] = "armed" THEN "stopped" ELSE timers[i]]
  /\ timerRef' = 0

Trigger(t) ==
  /\ ringer[t].pc = "idle"
  /\ triggers < MaxTriggers
  /\ MayBegin
  /\ triggers' = triggers + 1
  /\ StopTimer
  /\ ringer' = [ringer EXCEPT ![t].pc = "write"]
  /\ UNCHANGED <<calm, ring, born, life>>

\* A consumer's write: anything but a true value is ignored.
UpdateRing(t) ==
  \E raw \in {GoBool(TRUE), GoBool(FALSE), GoInt(0), GoInt(1)} : Truthy(raw) /\ Trigger(t)

WriteRing(t) ==
  /\ ringer[t].pc = "write"
  /\ ring' = TRUE
  /\ ringer' = [ringer EXCEPT ![t].pc = "arm"]
  /\ UNCHANGED <<calm, timerRef, timers, born, triggers, life>>

AfterFunc(t) ==
  /\ ringer[t].pc = "arm"
  /\ timers' = Append(timers, "armed")
  /\ born' = Append(born, life)
  /\ ringer' = [ringer EXCEPT ![t] = [pc |-> "store", timer |-> Len(timers')]]
  /\ UNCHANGED <<calm, ring, timerRef, triggers, life>>

StoreTimer(t) ==
  /\ ringer[t].pc = "store"
  /\ timerRef' = ringer[t].timer
  /\ ringer' = [ringer EXCEPT ![t] = Silent]
  /\ UNCHANGED <<calm, ring, timers, born, triggers, life>>

\* The two seconds are over.
FireTimer(i) ==
  /\ timers[i] = "armed"
  /\ MayBegin
  /\ timers' = [timers EXCEPT ![i] = "fired"]
  /\ UNCHANGED <<calm, ring, timerRef, born, ringer, triggers, life>>

ForgetTimer(i) ==
  /\ timers[i] = "fired"
  /\ timerRef' = 0
  /\ timers' = [timers EXCEPT ![i] = "reset"]
  /\ UNCHANGED <<calm, ring, born, ringer, triggers, life>>

\* A slip: the reset leaves the ring alone.
ResetNothing(i) ==
  /\ timers[i] = "reset"
  /\ timers' = [timers EXCEPT ![i] = "done"]
  /\ UNCHANGED <<calm, ring, timerRef, born, ringer, triggers, life>>

ResetRing(i) ==
  /\ timers[i] = "reset"
  /\ ring' = FALSE
  /\ timers' = [timers EXCEPT ![i] = "done"]
  /\ UNCHANGED <<calm, timerRef, born, ringer, triggers, life>>

\* A slip: the timer is forgotten and not stopped.
CleanupForgets ==
  /\ life < MaxRemovals
  /\ MayBegin
  /\ life' = life + 1
  /\ timerRef' = 0
  /\ UNCHANGED <<calm, ring, timers, born, ringer, triggers>>

\* The sensor is removed, and may be triggered again when it is added again.
CleanupBell ==
  /\ life < MaxRemovals
  /\ MayBegin
  /\ life' = life + 1
  /\ StopTimer
  /\ UNCHANGED <<calm, ring, born, ringer, triggers>>

-----------------------------------------------------------------------------

BellInit ==
  /\ calm \in BOOLEAN
  /\ ring = FALSE
  /\ timerRef = 0
  /\ timers = <<>>
  /\ born = <<>>
  /\ ringer = [t \in Ringers |-> Silent]
  /\ triggers = 0
  /\ life = 0

BellNext ==
  \/ \E t \in Ringers : Trigger(t)
  \/ \E t \in Ringers : UpdateRing(t)
  \/ \E t \in Ringers : WriteRing(t)
  \/ \E t \in Ringers : AfterFunc(t)
  \/ \E t \in Ringers : StoreTimer(t)
  \/ \E i \in DOMAIN timers : FireTimer(i)
  \/ \E i \in DOMAIN timers : ForgetTimer(i)
  \/ \E i \in DOMAIN timers : ResetRing(i)
  \/ CleanupBell

BellSpec == BellInit /\ [][BellNext]_bellVars

\* A call of Trigger runs to its end, and a timer that is not stopped fires and
\* its function runs.
BellFairness ==
  /\ \A t \in Ringers : WF_bellVars(WriteRing(t) \/ AfterFunc(t) \/ StoreTimer(t))
  /\ \A i \in 1 .. MaxTriggers :
        WF_bellVars(i \in DOMAIN timers /\ (FireTimer(i) \/ ForgetTimer(i) \/ ResetRing(i)))

FairBellSpec == BellSpec /\ BellFairness

-----------------------------------------------------------------------------
(* Properties                                                               *)

Armed == {i \in DOMAIN timers : timers[i] = "armed"}

\* The reference names a timer that was made, and there is one per call of Trigger.
BellTypeOK ==
  /\ ring \in BOOLEAN
  /\ timerRef \in 0 .. Len(timers)
  /\ \A i \in DOMAIN timers : timers[i] \in {"armed", "stopped", "fired", "reset", "done"}
  /\ \A t \in Ringers : /\ ringer[t].pc \in {"idle", "write", "arm", "store"}
                        /\ ringer[t].timer \in 0 .. Len(timers)
  /\ Len(born) = Len(timers) /\ Len(timers) <= MaxTriggers

\* Timers that are armed, or whose function has not ended.
Pending == Armed \cup Resetting

\* Calls of Trigger and resets that do not overlap leave at most one reset pending:
\* a ring that is triggered again is reset once, after the last trigger.  The bell
\* rings as long as the reset is armed and no call is on its way, and no reset
\* outlives a removal of the sensor, where it would clear a later ring (cleanup).
OneReset ==
  calm =>
    /\ Cardinality(Pending) <= 1
    /\ \A i \in Pending : born[i] = life
    /\ Armed # {} /\ AllSilent => ring

\* Every ring ends, unless the sensor is removed meanwhile (the auto-reset of
\* Trigger), whatever calls and resets overlap.
RingEnds == ring ~> (~ring \/ life # 0)
=============================================================================
