---------------------------- MODULE SensorProofs ----------------------------
(***************************************************************************)
(* Proofs about the sensors of a plugin, for any number of goroutines and  *)
(* calls: the doorbell and its reset timer (Doorbell), the sensors that    *)
(* report detections (DetectionSensor), the state of a sensor of any kind  *)
(* and the host's copy of it (SensorState).                                *)
(***************************************************************************)
EXTENDS SensorState, Doorbell, DetectionSensor, FiniteSetTheorems, SequenceTheorems, TLAPS

-----------------------------------------------------------------------------
(* Doorbell                                                                 *)

Fates == {"armed", "stopped", "fired", "reset", "done"}

BellTypes ==
  /\ timers \in Seq(Fates) /\ born \in Seq(Nat) /\ Len(born) = Len(timers) /\ life \in Nat
  /\ ringer \in [Ringers -> [pc : {"idle", "write", "arm", "store"}, timer : Nat]]
  /\ \A t \in Ringers : ringer[t].pc = "idle" => ringer[t] = Silent

\* One call or one reset is under way at a time.
OneCall ==
  /\ \A t, u \in Ringers : ringer[t].pc # "idle" /\ ringer[u].pc # "idle" => t = u
  /\ \A t \in Ringers : ringer[t].pc # "idle" => Resetting = {}

\* Until a call has armed its timer none is pending, then only that one; between
\* calls only the timer that the sensor knows is armed.
OneTimer ==
  /\ \A t \in Ringers :
       /\ ringer[t].pc \in {"write", "arm"} => Pending = {}
       /\ ringer[t].pc = "store" => Pending \subseteq {ringer[t].timer}
  /\ (\A t \in Ringers : ringer[t].pc = "idle") => Armed \subseteq {timerRef}
  /\ \A i, j \in Pending : i = j

\* What is pending belongs to this life of the sensor and to a bell that rings.
ThisRing ==
  /\ \A i \in Pending : born[i] = life
  /\ \A t \in Ringers : ringer[t].pc \in {"arm", "store"} => ring
  /\ (\A t \in Ringers : ringer[t].pc = "idle") /\ Armed # {} => ring

BellIInv == BellTypes /\ (calm => OneCall /\ OneTimer /\ ThisRing)

\* A list of timers and the states of its elements.
LEMMA TimersFacts ==
  ASSUME BellTypes
  PROVE  /\ DOMAIN timers = 1 .. Len(timers) /\ Len(timers) \in Nat
         /\ DOMAIN born = 1 .. Len(timers)
         /\ \A i \in DOMAIN timers : timers[i] \in Fates
<1> HIDE DEF Fates
<1> QED
  BY DEF BellTypes

\* A function with the domain of the timers is a list of timers.
LEMMA TimersSame ==
  ASSUME BellTypes, NEW f, DOMAIN f = DOMAIN timers, f = [i \in DOMAIN timers |-> f[i]],
         \A i \in DOMAIN timers : f[i] \in Fates
  PROVE  f \in Seq(Fates) /\ Len(f) = Len(timers)
<1>1. DOMAIN timers = 1 .. Len(timers) /\ Len(timers) \in Nat
  BY TimersFacts
<1> HIDE DEF Fates
<1>2. f \in [1 .. Len(timers) -> Fates]
  BY <1>1
<1>3. f \in Seq(Fates)
  BY <1>1, <1>2, SeqDef
<1>4. Len(f) \in Nat /\ DOMAIN f = 1 .. Len(f)
  BY <1>3
<1> QED
  BY <1>1, <1>3, <1>4

\* A timer that the sensor knows and that has not fired is stopped.
LEMMA StopTimerEffect ==
  ASSUME BellTypes, StopTimer
  PROVE  /\ timers' \in Seq(Fates) /\ Len(timers') = Len(timers)
         /\ DOMAIN timers' = DOMAIN timers
         /\ \A i \in DOMAIN timers :
              timers'[i] = IF i = timerRef /\ timers[i] = "armed" THEN "stopped" ELSE timers[i]
<1>1. /\ DOMAIN timers' = DOMAIN timers /\ timers' = [i \in DOMAIN timers |-> timers'[i]]
      /\ \A i \in DOMAIN timers :
           timers'[i] = IF i = timerRef /\ timers[i] = "armed" THEN "stopped" ELSE timers[i]
  BY DEF StopTimer
<1>2. \A i \in DOMAIN timers : timers'[i] \in Fates
  BY <1>1, TimersFacts DEF Fates
<1> QED
  BY <1>1, <1>2, TimersSame

\* A timer goes on to its next state.
LEMMA TimerEffect ==
  ASSUME BellTypes, NEW i \in DOMAIN timers, NEW x \in Fates, timers' = [timers EXCEPT ![i] = x]
  PROVE  /\ timers' \in Seq(Fates) /\ Len(timers') = Len(timers)
         /\ DOMAIN timers' = DOMAIN timers /\ timers'[i] = x
         /\ \A j \in DOMAIN timers : j # i => timers'[j] = timers[j]
<1>1. /\ DOMAIN timers' = DOMAIN timers /\ timers' = [j \in DOMAIN timers |-> timers'[j]]
      /\ timers'[i] = x /\ \A j \in DOMAIN timers : j # i => timers'[j] = timers[j]
  OBVIOUS
<1>2. \A j \in DOMAIN timers : timers'[j] \in Fates
  BY <1>1, TimersFacts
<1> QED
  BY <1>1, <1>2, TimersSame

\* A new timer, made in this life of the sensor.
LEMMA NewTimerEffect ==
  ASSUME BellTypes, timers' = Append(timers, "armed"), born' = Append(born, life)
  PROVE  LET n == Len(timers')
         IN  /\ timers' \in Seq(Fates) /\ born' \in Seq(Nat) /\ Len(born') = n /\ n \in Nat
             /\ DOMAIN timers' = DOMAIN timers \cup {n} /\ n \notin DOMAIN timers
             /\ timers'[n] = "armed" /\ born'[n] = life
             /\ \A i \in DOMAIN timers : timers'[i] = timers[i] /\ born'[i] = born[i]
<1>1. "armed" \in Fates
  BY DEF Fates
<1> HIDE DEF Fates
<1>2. /\ timers' \in Seq(Fates) /\ Len(timers') = Len(timers) + 1
      /\ timers'[Len(timers) + 1] = "armed"
      /\ \A i \in 1 .. Len(timers) : timers'[i] = timers[i]
  BY <1>1, AppendProperties DEF BellTypes
<1>3. /\ born' \in Seq(Nat) /\ Len(born') = Len(timers) + 1
      /\ born'[Len(timers) + 1] = life
      /\ \A i \in 1 .. Len(timers) : born'[i] = born[i]
  BY AppendProperties DEF BellTypes
<1>4. DOMAIN timers = 1 .. Len(timers) /\ Len(timers) \in Nat
  BY TimersFacts
<1>5. DOMAIN timers' = 1 .. Len(timers) + 1
  BY <1>2
<1> QED
  BY <1>2, <1>3, <1>4, <1>5

\* A goroutine's place in Trigger.
LEMMA RingerEffect ==
  ASSUME BellTypes, NEW t \in Ringers, NEW x \in [pc : {"idle", "write", "arm", "store"}, timer : Nat],
         ringer' = [ringer EXCEPT ![t] = x], x.pc = "idle" => x = Silent
  PROVE  /\ ringer' \in [Ringers -> [pc : {"idle", "write", "arm", "store"}, timer : Nat]]
         /\ ringer'[t] = x /\ \A u \in Ringers : u # t => ringer'[u] = ringer[u]
         /\ \A u \in Ringers : ringer'[u].pc = "idle" => ringer'[u] = Silent
<1> DEFINE R == [pc : {"idle", "write", "arm", "store"}, timer : Nat]
<1>1. ringer \in [Ringers -> R] /\ x \in R
  BY DEF BellTypes
<1> HIDE DEF R
<1>2. /\ ringer' \in [Ringers -> R]
      /\ ringer'[t] = x /\ \A u \in Ringers : u # t => ringer'[u] = ringer[u]
  BY <1>1
<1>3. \A u \in Ringers : ringer'[u].pc = "idle" => ringer'[u] = Silent
  BY <1>2 DEF BellTypes
<1> QED
  BY <1>2, <1>3 DEF R

\* Before a call or a reset begins in a calm bell everything is over.
LEMMA BeginFacts ==
  ASSUME BellTypes, MayBegin, calm
  PROVE  Resetting = {} /\ \A t \in Ringers : ringer[t].pc = "idle"
BY DEF MayBegin, AllSilent, Silent

\* A call of Trigger stops the timer the sensor knows.
LEMMA TriggerKeeps ==
  ASSUME BellIInv, NEW t \in Ringers, Trigger(t)
  PROVE  BellIInv'
<1>0. BellTypes
  BY DEF BellIInv
<1>1. /\ ringer[t].pc = "idle" /\ MayBegin /\ StopTimer /\ ringer' = [ringer EXCEPT ![t].pc = "write"]
      /\ UNCHANGED <<calm, ring, born, life>>
  BY DEF Trigger
<1>2. /\ ringer'[t].pc = "write" /\ \A u \in Ringers : u # t => ringer'[u] = ringer[u]
      /\ ringer' \in [Ringers -> [pc : {"idle", "write", "arm", "store"}, timer : Nat]]
      /\ \A u \in Ringers : ringer'[u].pc = "idle" => ringer'[u] = Silent
  <2> DEFINE x == [ringer[t] EXCEPT !.pc = "write"]
  <2>1. x \in [pc : {"idle", "write", "arm", "store"}, timer : Nat] /\ x.pc = "write"
    BY <1>0 DEF BellTypes
  <2>2. ringer' = [ringer EXCEPT ![t] = x]
    BY <1>1
  <2> HIDE DEF x
  <2> QED
    BY <1>0, <2>1, <2>2, RingerEffect
<1>3. BellTypes'
  BY <1>0, <1>1, <1>2, StopTimerEffect DEF BellTypes
<1>4. ASSUME calm PROVE (OneCall /\ OneTimer /\ ThisRing)'
  <2>1. Resetting = {} /\ \A u \in Ringers : ringer[u].pc = "idle"
    BY <1>0, <1>1, <1>4, BeginFacts
  <2>2. Armed \subseteq {timerRef}
    BY <1>4, <2>1 DEF BellIInv, OneTimer
  <2>3. Pending' = {}
    BY <1>0, <1>1, <2>1, <2>2, StopTimerEffect DEF Pending, Armed, Resetting
  <2>4. Resetting' = {}
    BY <2>3 DEF Pending
  <2> QED
    BY <1>1, <1>2, <2>1, <2>3, <2>4 DEF OneCall, OneTimer, ThisRing
<1> QED
  BY <1>1, <1>3, <1>4 DEF BellIInv

\* The ring is written while no timer is pending.
LEMMA WriteRingKeeps ==
  ASSUME BellIInv, NEW t \in Ringers, WriteRing(t)
  PROVE  BellIInv'
<1>0. BellTypes
  BY DEF BellIInv
<1>1. /\ ringer[t].pc = "write" /\ ring' = TRUE /\ ringer' = [ringer EXCEPT ![t].pc = "arm"]
      /\ UNCHANGED <<calm, timerRef, timers, born, life>>
  BY DEF WriteRing
<1>2. /\ ringer'[t].pc = "arm" /\ \A u \in Ringers : u # t => ringer'[u] = ringer[u]
      /\ ringer' \in [Ringers -> [pc : {"idle", "write", "arm", "store"}, timer : Nat]]
      /\ \A u \in Ringers : ringer'[u].pc = "idle" => ringer'[u] = Silent
  <2> DEFINE x == [ringer[t] EXCEPT !.pc = "arm"]
  <2>1. x \in [pc : {"idle", "write", "arm", "store"}, timer : Nat] /\ x.pc = "arm"
    BY <1>0 DEF BellTypes
  <2>2. ringer' = [ringer EXCEPT ![t] = x]
    BY <1>1
  <2> HIDE DEF x
  <2> QED
    BY <1>0, <2>1, <2>2, RingerEffect
<1>3. BellTypes'
  BY <1>0, <1>1, <1>2 DEF BellTypes
<1>4. ASSUME calm PROVE (OneCall /\ OneTimer /\ ThisRing)'
  <2>1. Pending = {} /\ \A u \in Ringers : u # t => ringer[u].pc = "idle"
    BY <1>1, <1>4 DEF BellIInv, OneTimer, OneCall
  <2>2. Pending' = {} /\ Resetting' = {} /\ Armed' = {}
    BY <1>1, <2>1 DEF Pending, Resetting, Armed
  <2> QED
    BY <1>1, <1>2, <2>1, <2>2 DEF OneCall, OneTimer, ThisRing
<1> QED
  BY <1>1, <1>3, <1>4 DEF BellIInv

\* A call arms its timer while no other is pending.
LEMMA AfterFuncKeeps ==
  ASSUME BellIInv, NEW t \in Ringers, AfterFunc(t)
  PROVE  BellIInv'
<1> DEFINE n == Len(timers')
<1>0. BellTypes
  BY DEF BellIInv
<1>1. /\ ringer[t].pc = "arm" /\ timers' = Append(timers, "armed") /\ born' = Append(born, life)
      /\ ringer' = [ringer EXCEPT ![t] = [pc |-> "store", timer |-> n]]
      /\ UNCHANGED <<calm, ring, timerRef, life>>
  BY DEF AfterFunc
<1>2. /\ timers' \in Seq(Fates) /\ born' \in Seq(Nat) /\ Len(born') = n /\ n \in Nat
      /\ DOMAIN timers' = DOMAIN timers \cup {n} /\ n \notin DOMAIN timers
      /\ timers'[n] = "armed" /\ born'[n] = life
      /\ \A i \in DOMAIN timers : timers'[i] = timers[i] /\ born'[i] = born[i]
  BY <1>0, <1>1, NewTimerEffect
<1> HIDE DEF n
<1>3. /\ ringer'[t].pc = "store" /\ ringer'[t].timer = n
      /\ \A u \in Ringers : u # t => ringer'[u] = ringer[u]
      /\ ringer' \in [Ringers -> [pc : {"idle", "write", "arm", "store"}, timer : Nat]]
      /\ \A u \in Ringers : ringer'[u].pc = "idle" => ringer'[u] = Silent
  <2> DEFINE x == [pc |-> "store", timer |-> n]
  <2>1. /\ x \in [pc : {"idle", "write", "arm", "store"}, timer : Nat]
        /\ x.pc = "store" /\ x.timer = n
    BY <1>2
  <2>2. ringer' = [ringer EXCEPT ![t] = x]
    BY <1>1
  <2> HIDE DEF x
  <2> QED
    BY <1>0, <2>1, <2>2, RingerEffect
<1>4. BellTypes'
  BY <1>0, <1>1, <1>2, <1>3 DEF BellTypes, n
<1>5. ASSUME calm PROVE (OneCall /\ OneTimer /\ ThisRing)'
  <2>1. Pending = {} /\ ring /\ \A u \in Ringers : u # t => ringer[u].pc = "idle"
    BY <1>1, <1>5 DEF BellIInv, OneTimer, OneCall, ThisRing
  <2>2. Pending' = {n} /\ Resetting' = {}
    BY <1>2, <2>1 DEF Pending, Resetting, Armed
  <2> QED
    BY <1>1, <1>2, <1>3, <2>1, <2>2 DEF OneCall, OneTimer, ThisRing
<1> QED
  BY <1>1, <1>4, <1>5 DEF BellIInv

\* The sensor learns of the timer of the call.
LEMMA StoreTimerKeeps ==
  ASSUME BellIInv, NEW t \in Ringers, StoreTimer(t)
  PROVE  BellIInv'
<1>0. BellTypes
  BY DEF BellIInv
<1>1. /\ ringer[t].pc = "store" /\ timerRef' = ringer[t].timer
      /\ ringer' = [ringer EXCEPT ![t] = Silent]
      /\ UNCHANGED <<calm, ring, timers, born, life>>
  BY DEF StoreTimer
<1>2. /\ ringer'[t].pc = "idle" /\ \A u \in Ringers : u # t => ringer'[u] = ringer[u]
      /\ ringer' \in [Ringers -> [pc : {"idle", "write", "arm", "store"}, timer : Nat]]
      /\ \A u \in Ringers : ringer'[u].pc = "idle" => ringer'[u] = Silent
  <2>1. /\ Silent \in [pc : {"idle", "write", "arm", "store"}, timer : Nat]
        /\ Silent.pc = "idle"
    BY DEF Silent
  <2> QED
    BY <1>0, <1>1, <2>1, RingerEffect
<1>3. BellTypes'
  BY <1>0, <1>1, <1>2 DEF BellTypes
<1>4. ASSUME calm PROVE (OneCall /\ OneTimer /\ ThisRing)'
  <2>1. /\ Pending \subseteq {ringer[t].timer} /\ ring /\ Resetting = {}
        /\ \A u \in Ringers : u # t => ringer[u].pc = "idle"
    BY <1>1, <1>4 DEF BellIInv, OneTimer, OneCall, ThisRing
  <2>2. /\ Pending' = Pending /\ Resetting' = Resetting /\ Armed' = Armed
        /\ Armed \subseteq Pending
    BY <1>1 DEF Pending, Resetting, Armed
  <2> QED
    BY <1>1, <1>2, <1>4, <2>1, <2>2 DEF BellIInv, OneCall, OneTimer, ThisRing
<1> QED
  BY <1>1, <1>3, <1>4 DEF BellIInv

\* The timer fires: it is the one the sensor knows.
LEMMA FireTimerKeeps ==
  ASSUME BellIInv, NEW i \in DOMAIN timers, FireTimer(i)
  PROVE  BellIInv'
<1>0. BellTypes
  BY DEF BellIInv
<1>1. /\ timers[i] = "armed" /\ timers' = [timers EXCEPT ![i] = "fired"]
      /\ UNCHANGED <<calm, timerRef, ring, born, ringer, life>>
  BY DEF FireTimer
<1>2. /\ timers' \in Seq(Fates) /\ Len(timers') = Len(timers) /\ DOMAIN timers' = DOMAIN timers
      /\ timers'[i] = "fired" /\ \A j \in DOMAIN timers : j # i => timers'[j] = timers[j]
  <2>1. "fired" \in Fates
    BY DEF Fates
  <2> QED
    BY <1>0, <1>1, <2>1, TimerEffect
<1>3. BellTypes'
  BY <1>0, <1>1, <1>2 DEF BellTypes
<1>4. ASSUME calm PROVE (OneCall /\ OneTimer /\ ThisRing)'
  <2>1. i \in Pending /\ \A j \in Pending : j = i
    BY <1>1, <1>4 DEF BellIInv, OneTimer, Pending, Armed, Resetting
  <2>2. \A u \in Ringers : ringer[u].pc = "idle"
    BY <1>0, <1>4, BeginFacts DEF FireTimer
  <2>3. Pending' \subseteq {i} /\ Armed' = {}
    BY <1>2, <2>1 DEF Pending, Armed, Resetting
  <2> QED
    BY <1>1, <1>4, <2>1, <2>2, <2>3 DEF BellIInv, OneCall, OneTimer, ThisRing
<1> QED
  BY <1>1, <1>3, <1>4 DEF BellIInv

\* The timer's function takes the timer from the sensor.
LEMMA ForgetTimerKeeps ==
  ASSUME BellIInv, NEW i \in DOMAIN timers, ForgetTimer(i)
  PROVE  BellIInv'
<1>0. BellTypes
  BY DEF BellIInv
<1>1. /\ timers[i] = "fired" /\ timers' = [timers EXCEPT ![i] = "reset"]
      /\ UNCHANGED <<calm, ring, born, ringer, life>>
  BY DEF ForgetTimer
<1>2. /\ timers' \in Seq(Fates) /\ Len(timers') = Len(timers) /\ DOMAIN timers' = DOMAIN timers
      /\ timers'[i] = "reset" /\ \A j \in DOMAIN timers : j # i => timers'[j] = timers[j]
  <2>1. "reset" \in Fates
    BY DEF Fates
  <2> QED
    BY <1>0, <1>1, <2>1, TimerEffect
<1>3. BellTypes'
  BY <1>0, <1>1, <1>2 DEF BellTypes
<1>4. ASSUME calm PROVE (OneCall /\ OneTimer /\ ThisRing)'
  <2>1. i \in Pending /\ \A j \in Pending : j = i
    BY <1>1, <1>4 DEF BellIInv, OneTimer, Pending, Armed, Resetting
  <2>2. \A u \in Ringers : ringer[u].pc = "idle"
    BY <1>1, <1>4 DEF BellIInv, OneCall, Resetting
  <2>3. Pending' \subseteq {i} /\ Armed' = {}
    BY <1>2, <2>1 DEF Pending, Armed, Resetting
  <2> QED
    BY <1>1, <1>4, <2>1, <2>2, <2>3 DEF BellIInv, OneCall, OneTimer, ThisRing
<1> QED
  BY <1>1, <1>3, <1>4 DEF BellIInv

\* The timer's function ends the ring it was armed for.
LEMMA ResetRingKeeps ==
  ASSUME BellIInv, NEW i \in DOMAIN timers, ResetRing(i)
  PROVE  BellIInv'
<1>0. BellTypes
  BY DEF BellIInv
<1>1. /\ timers[i] = "reset" /\ timers' = [timers EXCEPT ![i] = "done"]
      /\ UNCHANGED <<calm, timerRef, born, ringer, life>>
  BY DEF ResetRing
<1>2. /\ timers' \in Seq(Fates) /\ Len(timers') = Len(timers) /\ DOMAIN timers' = DOMAIN timers
      /\ timers'[i] = "done" /\ \A j \in DOMAIN timers : j # i => timers'[j] = timers[j]
  <2>1. "done" \in Fates
    BY DEF Fates
  <2> QED
    BY <1>0, <1>1, <2>1, TimerEffect
<1>3. BellTypes'
  BY <1>0, <1>1, <1>2 DEF BellTypes
<1>4. ASSUME calm PROVE (OneCall /\ OneTimer /\ ThisRing)'
  <2>1. i \in Pending /\ \A j \in Pending : j = i
    BY <1>1, <1>4 DEF BellIInv, OneTimer, Pending, Armed, Resetting
  <2>2. \A u \in Ringers : ringer[u].pc = "idle"
    BY <1>1, <1>4 DEF BellIInv, OneCall, Resetting
  <2>3. Pending' \subseteq {i} /\ Armed' = {}
    BY <1>2, <2>1 DEF Pending, Armed, Resetting
  <2> QED
    BY <1>1, <1>4, <2>1, <2>2, <2>3 DEF BellIInv, OneCall, OneTimer, ThisRing
<1> QED
  BY <1>1, <1>3, <1>4 DEF BellIInv

\* A removal stops the timer, which was made in the life that ends.
LEMMA CleanupKeeps ==
  ASSUME BellIInv, CleanupBell
  PROVE  BellIInv'
<1>0. BellTypes
  BY DEF BellIInv
<1>1. /\ MayBegin /\ StopTimer /\ life' = life + 1 /\ UNCHANGED <<calm, ring, born, ringer>>
  BY DEF CleanupBell
<1>2. BellTypes'
  <2>1. life' \in Nat
    BY <1>0, <1>1 DEF BellTypes
  <2> QED
    BY <1>0, <1>1, <2>1, StopTimerEffect DEF BellTypes
<1>3. ASSUME calm PROVE (OneCall /\ OneTimer /\ ThisRing)'
  <2>1. Resetting = {} /\ \A u \in Ringers : ringer[u].pc = "idle"
    BY <1>0, <1>1, <1>3, BeginFacts
  <2>2. Armed \subseteq {timerRef}
    BY <1>3, <2>1 DEF BellIInv, OneTimer
  <2>3. Pending' = {} /\ Armed' = {}
    BY <1>0, <1>1, <2>1, <2>2, StopTimerEffect DEF Pending, Armed, Resetting
  <2> QED
    BY <1>1, <2>1, <2>3 DEF OneCall, OneTimer, ThisRing
<1> QED
  BY <1>1, <1>2, <1>3 DEF BellIInv

\* Every step keeps the inductive invariant.
LEMMA BellInductive == BellIInv /\ [BellNext]_bellVars => BellIInv'
<1> SUFFICES ASSUME BellIInv, [BellNext]_bellVars PROVE BellIInv'
  OBVIOUS
<1>1. ASSUME NEW t \in Ringers,
             Trigger(t) \/ UpdateRing(t) \/ WriteRing(t) \/ AfterFunc(t) \/ StoreTimer(t)
      PROVE  BellIInv'
  <2>1. UpdateRing(t) => Trigger(t)
    BY DEF UpdateRing
  <2> QED
    BY <1>1, <2>1, TriggerKeeps, WriteRingKeeps, AfterFuncKeeps, StoreTimerKeeps
<1>2. ASSUME NEW i \in DOMAIN timers, FireTimer(i) \/ ForgetTimer(i) \/ ResetRing(i)
      PROVE  BellIInv'
  BY <1>2, FireTimerKeeps, ForgetTimerKeeps, ResetRingKeeps
<1>3. CASE CleanupBell
  BY <1>3, CleanupKeeps
<1>4. CASE UNCHANGED bellVars
  BY <1>4 DEF bellVars, BellIInv, BellTypes, OneCall, OneTimer, ThisRing, Pending, Armed, Resetting
<1> QED
  BY <1>1, <1>2, <1>3, <1>4 DEF BellNext

\* sensor_doorbell.go: however many goroutines trigger the bell, as long as calls and resets do
\* not overlap at most one reset is pending, it belongs to the present life of the sensor, and
\* the bell rings while it is armed.
THEOREM BellResetsOnce == BellSpec => []OneReset
<1>1. BellInit => BellIInv
  BY DEF BellInit, BellIInv, BellTypes, OneCall, OneTimer, ThisRing, Pending, Armed, Resetting,
     Silent, Fates
<1>2. BellIInv => OneReset
  <2> SUFFICES ASSUME BellIInv, calm
               PROVE  /\ Cardinality(Pending) <= 1
                      /\ \A i \in Pending : born[i] = life
                      /\ Armed # {} /\ AllSilent => ring
    BY DEF OneReset
  <2>1. Cardinality(Pending) <= 1
    <3>1. CASE Pending = {}
      BY <3>1, FS_EmptySet
    <3>2. CASE Pending # {}
      <4>1. PICK i \in Pending : Pending = {i}
        BY <3>2 DEF BellIInv, OneTimer
      <4> QED
        BY <4>1, FS_Singleton
    <3> QED
      BY <3>1, <3>2
  <2>2. AllSilent => \A t \in Ringers : ringer[t].pc = "idle"
    BY DEF AllSilent, Silent
  <2> QED
    BY <2>1, <2>2 DEF BellIInv, ThisRing
<1> QED
  BY <1>1, <1>2, BellInductive, PTL DEF BellSpec

-----------------------------------------------------------------------------
(* Detection sensors                                                        *)

\* A flag and the list it goes with.
Whole(found, list) ==
  /\ found \in BOOLEAN /\ list \in Seq(Detection)
  /\ found <=> list # <<>>
  /\ \A i \in DOMAIN list : list[i].boxed

\* What a report is about to write belongs together.
ReportsWhole ==
  /\ reporter = [t \in Reporters |-> reporter[t]]
  /\ \A t \in Reporters :
       reporter[t] # Resting =>
         /\ reporter[t] = [pc |-> "write", found |-> reporter[t].found,
                           list |-> reporter[t].list, previous |-> reporter[t].previous]
         /\ Whole(reporter[t].found, reporter[t].list)

\* The host sends what its dwell logic decides and nothing else.
OnlyBlocks == echoes \in Seq([property : {"blocked"}, value : BOOLEAN])

\* What is written belongs together.
StateAgrees ==
  /\ Whole(detected, detections)
  /\ namesType = "[]string"
  /\ detector = "object" => names = Recognized(detections)

\* Reports that do not overlap add to the names they have read.
PhaseAgrees ==
  detector \in Accumulating /\ ~overlapped =>
    /\ names = phase
    /\ \A t, u \in Reporters : reporter[t] # Resting /\ reporter[u] # Resting => t = u
    /\ \A t \in Reporters : reporter[t] # Resting => reporter[t].previous = names

DetectionIInv == ~echo => ReportsWhole /\ OnlyBlocks /\ StateAgrees /\ PhaseAgrees

\* Lists that are equal in any order have the same elements.
LEMMA SameElements ==
  ASSUME NEW S, NEW s \in Seq(S), NEW u \in Seq(S), SameMultiset(s, u)
  PROVE  /\ \A i \in DOMAIN s : \E j \in DOMAIN u : s[i] = u[j]
         /\ \A j \in DOMAIN u : \E i \in DOMAIN s : s[i] = u[j]
         /\ s = <<>> <=> u = <<>>
<1>1. /\ Len(s) = Len(u) /\ Len(s) \in Nat
      /\ DOMAIN s = 1 .. Len(s) /\ DOMAIN u = 1 .. Len(s)
  BY DEF SameMultiset
<1>2. PICK used \in [DOMAIN s -> DOMAIN u] :
        /\ \A i \in DOMAIN s : s[i] = u[used[i]]
        /\ \A i, j \in DOMAIN s : used[i] = used[j] => i = j
  BY DEF SameMultiset
<1>3. IsFiniteSet(1 .. Len(s))
  BY <1>1, FS_Interval
<1>4. used \in Injection(1 .. Len(s), 1 .. Len(s))
  BY <1>1, <1>2 DEF Injection, IsInjective
<1>5. used \in Surjection(1 .. Len(s), 1 .. Len(s))
  BY <1>3, <1>4, FS_Injection
<1>6. \A j \in DOMAIN u : \E i \in DOMAIN s : used[i] = j
  BY <1>1, <1>5 DEF Surjection
<1>7. s = <<>> <=> u = <<>>
  BY <1>1
<1> QED
  BY <1>2, <1>6, <1>7

\* What a report normalises belongs together.
LEMMA NormalizedWhole ==
  ASSUME NEW found \in BOOLEAN, NEW list \in Lists
  PROVE  Whole(found, normalizeReportedDetections(found, list))
<1> DEFINE out == normalizeReportedDetections(found, list)
<1>1. list \in Seq(Detection)
  BY ListsAssumption
<1>2. CASE ~found
  <2>1. out = <<>>
    BY <1>2 DEF normalizeReportedDetections
  <2> QED
    BY <1>2, <2>1 DEF Whole
<1>3. CASE found /\ list # <<>>
  <2>1. out = [i \in DOMAIN list |-> [list[i] EXCEPT !.boxed = TRUE]]
    BY <1>3 DEF normalizeReportedDetections
  <2>2. DOMAIN list = 1 .. Len(list) /\ Len(list) \in Nat /\ Len(list) # 0
    BY <1>1, <1>3
  <2>3. \A i \in DOMAIN list : list[i] \in Detection
    BY <1>1
  <2>4. \A i \in DOMAIN list : out[i] \in Detection /\ out[i].boxed
    BY <2>1, <2>3 DEF Detection
  <2> HIDE DEF out
  <2>5. out \in Seq(Detection)
    BY <2>1, <2>2, <2>4, SeqDef
  <2>6. DOMAIN out = DOMAIN list /\ out # <<>>
    <3>1. DOMAIN out = DOMAIN list /\ 1 \in DOMAIN list
      BY <2>1, <2>2
    <3> QED
      BY <2>5, <3>1, EmptySeq
  <2> QED
    BY <1>3, <2>4, <2>5, <2>6 DEF Whole, out
<1>4. CASE found /\ list = <<>>
  <2> DEFINE d == [name |-> IF detector \in {"object", "classifier"} THEN Fallback ELSE None,
                   boxed |-> TRUE]
  <2>1. out = <<d>>
    BY <1>4 DEF normalizeReportedDetections
  <2>2. d \in Detection /\ d.boxed
    BY DEF Detection, Labels
  <2> HIDE DEF out, d
  <2>3. out \in Seq(Detection) /\ out # <<>> /\ DOMAIN out = {1} /\ out[1] = d
    BY <2>1, <2>2
  <2> QED
    BY <1>4, <2>2, <2>3 DEF Whole, out
<1> QED
  BY <1>2, <1>3, <1>4

LEMMA ReportDetectionsKeeps ==
  ASSUME DetectionIInv, ~echo,
         NEW t \in Reporters, NEW found \in BOOLEAN, NEW list \in Lists,
         ReportDetections(t, found, list)
  PROVE  ReportsWhole' /\ OnlyBlocks' /\ StateAgrees' /\ PhaseAgrees'
<1> DEFINE out == normalizeReportedDetections(found, list)
           r == [pc |-> "write", found |-> found, list |-> out, previous |-> names]
<1>1. UNCHANGED <<detector, detected, detections, names, namesType, echoes, phase>>
  BY DEF ReportDetections, detectionState
<1>2. reporter[t] = Resting /\ r # Resting /\ Whole(found, out)
  BY NormalizedWhole DEF ReportDetections, Resting
<1>3. GetNames = names
  BY DEF DetectionIInv, StateAgrees, GetNames
<1>4. reporter' = reporter \/ reporter' = [reporter EXCEPT ![t] = r]
  BY <1>3 DEF ReportDetections
<1>5. overlapped' = (overlapped \/ \E u \in Reporters : reporter[u] # Resting)
  BY DEF ReportDetections
<1> HIDE DEF out
<1>6. ReportsWhole'
  <2>1. CASE reporter' = reporter
    BY <2>1 DEF DetectionIInv, ReportsWhole
  <2>2. CASE reporter' = [reporter EXCEPT ![t] = r]
    <3>1. reporter' = [u \in Reporters |-> reporter'[u]]
      BY <2>2 DEF DetectionIInv, ReportsWhole
    <3>2. \A u \in Reporters : reporter'[u] = IF u = t THEN r ELSE reporter[u]
      BY <2>2 DEF DetectionIInv, ReportsWhole
    <3> QED
      BY <1>2, <3>1, <3>2 DEF DetectionIInv, ReportsWhole
  <2> QED
    BY <1>4, <2>1, <2>2
<1>7. OnlyBlocks' /\ StateAgrees'
  BY <1>1 DEF DetectionIInv, OnlyBlocks, StateAgrees, Recognized
<1>8. PhaseAgrees'
  <2> SUFFICES ASSUME detector \in Accumulating, ~overlapped'
               PROVE  /\ names = phase
                      /\ \A u, v \in Reporters :
                           reporter'[u] # Resting /\ reporter'[v] # Resting => u = v
                      /\ \A u \in Reporters :
                           reporter'[u] # Resting => reporter'[u].previous = names
    BY <1>1 DEF PhaseAgrees
  <2>1. ~overlapped /\ \A u \in Reporters : reporter[u] = Resting
    BY <1>5
  <2>2. names = phase
    BY <2>1 DEF DetectionIInv, PhaseAgrees
  <2>3. \A u \in Reporters : reporter'[u] = Resting \/ (u = t /\ reporter'[u] = r)
    BY <1>4, <2>1 DEF DetectionIInv, ReportsWhole
  <2> QED
    BY <2>2, <2>3
<1> QED
  BY <1>6, <1>7, <1>8

LEMMA WriteDetectionsKeeps ==
  ASSUME DetectionIInv, ~echo, NEW t \in Reporters, WriteDetections(t)
  PROVE  ReportsWhole' /\ OnlyBlocks' /\ StateAgrees' /\ PhaseAgrees'
<1> DEFINE r == reporter[t]
<1>1. r # Resting /\ Whole(r.found, r.list) /\ Whole(detected, detections)
  BY DEF DetectionIInv, ReportsWhole, StateAgrees, WriteDetections, Resting
<1>2. /\ detected' = r.found
      /\ detections' = IF SameMultiset(detections, r.list) THEN detections ELSE r.list
      /\ names' = NamesAfter(r)
      /\ namesType' = "[]string"
      /\ phase' = IF r.found THEN phase \cup Recognized(r.list) ELSE {}
      /\ reporter' = [reporter EXCEPT ![t] = Resting]
      /\ UNCHANGED <<detector, echoes, overlapped>>
  BY DEF DetectionIInv, StateAgrees, WriteDetections
<1>3. /\ reporter' = [u \in Reporters |-> reporter'[u]]
      /\ \A u \in Reporters : reporter'[u] = IF u = t THEN Resting ELSE reporter[u]
  BY <1>2 DEF DetectionIInv, ReportsWhole
<1>4. ReportsWhole'
  BY <1>3 DEF DetectionIInv, ReportsWhole
<1>5. OnlyBlocks'
  BY <1>2 DEF DetectionIInv, OnlyBlocks
<1>6. Whole(detected', detections') /\ Recognized(detections') = Recognized(r.list)
  <2>1. CASE SameMultiset(detections, r.list)
    <3>1. detections \in Seq(Detection) /\ r.list \in Seq(Detection)
      BY <1>1 DEF Whole
    <3>2. /\ \A i \in DOMAIN detections : \E j \in DOMAIN r.list : detections[i] = r.list[j]
          /\ \A j \in DOMAIN r.list : \E i \in DOMAIN detections : detections[i] = r.list[j]
          /\ detections = <<>> <=> r.list = <<>>
      BY <2>1, <3>1, SameElements
    <3>3. Recognized(detections) = Recognized(r.list)
      BY <3>2 DEF Recognized
    <3> QED
      BY <1>1, <1>2, <2>1, <3>2, <3>3 DEF Whole
  <2>2. CASE ~SameMultiset(detections, r.list)
    BY <1>1, <1>2, <2>2
  <2> QED
    BY <2>1, <2>2
<1>7. StateAgrees'
  <2>1. detector = "object" => names' = Recognized(r.list)
    BY <1>2 DEF NamesAfter, Named, Accumulating
  <2> QED
    BY <1>2, <1>6, <2>1 DEF StateAgrees
<1>8. PhaseAgrees'
  <2> SUFFICES ASSUME detector \in Accumulating, ~overlapped
               PROVE  /\ names' = phase'
                      /\ \A u \in Reporters : reporter'[u] = Resting
    BY <1>2 DEF PhaseAgrees
  <2>1. names = phase /\ r.previous = names
    BY <1>1 DEF DetectionIInv, PhaseAgrees
  <2>2. names' = IF ~r.found THEN {}
                 ELSE IF Recognized(r.list) = {} THEN names
                 ELSE r.previous \cup Recognized(r.list)
    BY <1>2 DEF NamesAfter, Named, Accumulating
  <2>3. names' = phase'
    BY <1>2, <2>1, <2>2
  <2>4. \A u \in Reporters : reporter'[u] = Resting
    BY <1>1, <1>3 DEF DetectionIInv, PhaseAgrees
  <2> QED
    BY <2>3, <2>4
<1> QED
  BY <1>4, <1>5, <1>7, <1>8

LEMMA HostKeeps ==
  ASSUME DetectionIInv, ~echo, Dwell \/ TakeEcho
  PROVE  ReportsWhole' /\ OnlyBlocks' /\ StateAgrees' /\ PhaseAgrees'
<1> DEFINE Block == [property : {"blocked"}, value : BOOLEAN]
<1>1. echoes \in Seq(Block)
  BY DEF DetectionIInv, OnlyBlocks
<1>2. /\ UNCHANGED <<detector, detected, detections, names, namesType, reporter, phase,
                      overlapped>>
      /\ echoes' \in Seq(Block)
  <2>1. CASE Dwell
    <3>1. PICK b \in BOOLEAN : echoes' = Append(echoes, [property |-> "blocked", value |-> b])
      BY <2>1 DEF Dwell
    <3> QED
      BY <1>1, <2>1, <3>1 DEF Dwell, detectionState
  <2>2. CASE TakeEcho
    <3>1. Head(echoes) \in Block /\ Tail(echoes) \in Seq(Block)
      <4> HIDE DEF Block
      <4> QED
        BY <1>1, <2>2 DEF TakeEcho
    <3>2. Head(echoes).property = "blocked"
      BY <3>1
    <3> QED
      BY <2>2, <3>1, <3>2 DEF TakeEcho
  <2> QED
    BY <2>1, <2>2
<1> QED
  BY <1>2 DEF DetectionIInv, ReportsWhole, OnlyBlocks, StateAgrees, PhaseAgrees, Recognized

LEMMA DetectionInductive == DetectionIInv /\ [DetectionNext]_detectionVars => DetectionIInv'
<1> SUFFICES ASSUME DetectionIInv, [DetectionNext]_detectionVars, ~echo'
             PROVE  ReportsWhole' /\ OnlyBlocks' /\ StateAgrees' /\ PhaseAgrees'
  BY DEF DetectionIInv
<1>1. ~echo
  BY DEF DetectionNext, ReportDetections, WriteDetections, Dwell, TakeEcho, detectionVars
<1>2. CASE \E t \in Reporters, found \in BOOLEAN, list \in Lists :
             ReportDetections(t, found, list)
  BY <1>1, <1>2, ReportDetectionsKeeps
<1>3. CASE \E t \in Reporters : WriteDetections(t)
  BY <1>1, <1>3, WriteDetectionsKeeps
<1>4. CASE Dwell \/ TakeEcho
  BY <1>1, <1>4, HostKeeps
<1>5. CASE UNCHANGED detectionVars
  BY <1>1, <1>5 DEF detectionVars, detectionState, DetectionIInv, ReportsWhole, OnlyBlocks,
                    StateAgrees, PhaseAgrees, Recognized
<1> QED
  BY <1>2, <1>3, <1>4, <1>5 DEF DetectionNext

\* However many goroutines report, and however the host blocks and unblocks the
\* sensor in between, a sensor that is not echoed to keeps flag, list and names in
\* agreement, and while no reports overlap it loses no name of the phase
\* (ReportDetections of every detection sensor).
THEOREM DetectionsAgree == DetectionSpec => []PropertiesAgree
<1>1. DetectionInit => DetectionIInv
  <2> SUFFICES ASSUME DetectionInit PROVE DetectionIInv
    OBVIOUS
  <2>1. ReportsWhole /\ PhaseAgrees
    BY DEF DetectionInit, ReportsWhole, PhaseAgrees, Resting
  <2>2. OnlyBlocks
    BY DEF DetectionInit, OnlyBlocks
  <2>3. StateAgrees
    <3>1. detections = <<>> /\ DOMAIN detections = {} /\ ~detected
      BY DEF DetectionInit
    <3>2. Whole(detected, detections)
      BY <3>1, EmptySeq DEF DetectionInit, Whole
    <3>3. Recognized(detections) = {}
      BY <3>1 DEF Recognized
    <3> QED
      BY <3>2, <3>3 DEF DetectionInit, StateAgrees
  <2> QED
    BY <2>1, <2>2, <2>3 DEF DetectionIInv
<1>2. DetectionIInv => PropertiesAgree
  BY DEF DetectionIInv, StateAgrees, PhaseAgrees, Whole, GetNames, PropertiesAgree
<1> QED
  BY <1>1, <1>2, DetectionInductive, PTL DEF DetectionSpec

-----------------------------------------------------------------------------
(* The state of a sensor of any kind                                        *)

GoTypes == {"nil", "bool", "string", "map"} \cup NumberTypes \cup ListTypes \cup StructTypes

IsGo(v) == v = <<v[1], v[2]>> /\ v[1] \in GoTypes /\ (v[1] = "nil" => v = Nil)

\* Typed properties are those whose type survives the way to the host and back.
Registered(k, p) == k.type \in DOMAIN Registry /\ p \in DOMAIN Registry[k.type]
Typed(k, p) == p \in DOMAIN k.reads /\ (asNumber(k.reads[p]) => Registered(k, p))

\* A number that coerceInt may leave in the type it was decoded in.
Wide(v) == asNumber(v) /\ v[2] \notin Int32

Fits(k, p, v) ==
  IsGo(v) /\ (Typed(k, p) /\ v # Nil => v[1] = k.reads[p][1] \/ (asNumber(k.reads[p]) /\ Wide(v)))
FitsWire(k, p, e) == IsWire(e) /\ (Typed(k, p) /\ e # Nil => e[1] = Encode(k.reads[p])[1])

\* What a kind must be so that its getters understand whatever it holds.
Partial(k, x) == DOMAIN x \subseteq DOMAIN k.init /\ \A p \in DOMAIN x : Fits(k, p, x[p])

Readable(k, p) ==
  /\ p \in DOMAIN k.init
  /\ k.reads[p][1] \in {"bool", "string", "[]string"} \cup NumberTypes \cup StructTypes
  /\ Registered(k, p) => Registry[k.type][p] = k.reads[p][1]
  /\ k.reads[p][1] \in {"[]string"} \cup StructTypes => Registered(k, p)

Takes(k, p, type) == p \in DOMAIN k.init /\ (Typed(k, p) => k.reads[p][1] = type)

Routed(k, p) ==
  /\ k.route[p] = "switch" => Takes(k, p, "bool")
  /\ k.route[p] = "level" => Takes(k, p, "int")
  /\ k.route[p] = "target" => Takes(k, "targetState", "int") /\ Takes(k, "currentState", "int")
  /\ k.route[p] = "string" => Takes(k, p, "string")
  /\ k.route[p] \in StructTypes => Takes(k, p, k.route[p])
  /\ k.route[p] = "home" => Takes(k, "position", "PTZPosition")

WellFormed(k) ==
  /\ Partial(k, k.init)
  /\ \A x \in k.writes : Partial(k, x)
  /\ \A p \in DOMAIN k.reads : Readable(k, p)
  /\ \A p \in DOMAIN k.route : Routed(k, p)

\* A list of anything.
IsList(s) == s \in Seq({s[i] : i \in DOMAIN s})

\* A function from the properties of the kind to wire values.
Carries(f) ==
  f = [p \in DOMAIN f |-> f[p]] /\ DOMAIN f \subseteq Properties
    /\ \A p \in DOMAIN f : FitsWire(kind, p, f[p])

Updating(t) ==
  /\ thread[t].pc = "update"
  /\ thread[t] = [pc |-> "update", delta |-> thread[t].delta]
  /\ Carries(thread[t].delta)
Reporting(t) ==
  /\ thread[t].pc = "report"
  /\ thread[t] = [pc |-> "report", facet |-> thread[t].facet, value |-> thread[t].value]
  /\ thread[t].facet \in Facets

ByFacet(f) == f = [g \in Facets |-> f[g]]

StateShape ==
  /\ scene \in Scenes /\ kind \in scene.kinds
  /\ stage \in {"new", "snapshot", "registered", "wired", "sourced", "bound"}
  /\ DOMAIN properties = Properties /\ \A p \in Properties : Fits(kind, p, properties[p])
  /\ DOMAIN host = Properties /\ Carries(host)
  /\ stage = "snapshot" => /\ DOMAIN snapshot.properties = Properties /\ Carries(snapshot.properties)
                           /\ ByFacet(snapshot.reported)
  /\ heard => stage = "bound"
  /\ IsList(events)
  /\ \A i \in DOMAIN events :
       events[i].property \in Properties /\ FitsWire(kind, events[i].property, events[i].value)
  /\ DOMAIN thread = Threads /\ \A t \in Threads : thread[t] = Idle \/ Updating(t) \/ Reporting(t)
  /\ ByFacet(reported) /\ ByFacet(hostReport)

\* Until it is bound, a sensor that is not written early is as it was constructed.
Untouched ==
  /\ properties = kind.init /\ host = HostCopy(kind.init)
  /\ stage = "snapshot" => snapshot = [properties |-> HostCopy(kind.init), reported |-> reported]
  /\ events = <<>> /\ \A t \in Threads : thread[t] = Idle
  /\ hostReport = reported

\* The newest event for a property carries the host's value; if there is none, the
\* sensor agrees with the host, or the host is about to be sent its value, or a call
\* that carried it failed.
NewestEvent(p) ==
  \E i \in DOMAIN events :
     /\ events[i].property = p /\ events[i].value = host[p]
     /\ \A j \in DOMAIN events : j > i => events[j].property # p
Sends(t, p) ==
  /\ thread[t].pc = "update" /\ p \in DOMAIN thread[t].delta
  /\ thread[t].delta[p] = Encode(properties[p])
Settling(p) ==
  \/ NewestEvent(p)
  \/ /\ \A i \in DOMAIN events : events[i].property # p
     /\ p \in lostWrites \/ Agrees(p) \/ \E t \in Threads : Sends(t, p)

\* One report is under way, and it has the newest value.
ReportsSettle ==
  /\ \A t, u \in Threads : thread[t].pc = "report" /\ thread[u].pc = "report" => t = u
  /\ \A t \in Threads : thread[t].pc = "report" => thread[t].value = reported[thread[t].facet]
  /\ \A f \in Facets : hostReport[f] = reported[f] \/ f \in lostReports
                        \/ \E t \in Threads : thread[t].pc = "report" /\ thread[t].facet = f

StateIInv ==
  /\ StateShape
  /\ ~scene.early => /\ stage # "bound" => Untouched
                     /\ stage = "bound" /\ heard => \A p \in Properties : Settling(p)
                     /\ ~crossed => ReportsSettle

\* What the registry of coercions says.
LEMMA RegistryFacts ==
  ASSUME NEW type \in DOMAIN Registry, NEW p \in DOMAIN Registry[type]
  PROVE  Registry[type][p] \in {"int", "[]string"} \cup StructTypes
<1>1. DOMAIN Registry = {"light", "siren", "battery", "securitySystem", "ptz"}
  BY DEF Registry
<1>2. CASE type = "light"
  BY <1>2 DEF Registry
<1>3. CASE type = "siren"
  BY <1>3 DEF Registry
<1>4. CASE type = "battery"
  BY <1>4 DEF Registry
<1>5. CASE type = "securitySystem"
  BY <1>5 DEF Registry
<1>6. CASE type = "ptz"
  BY <1>6 DEF Registry, StructTypes
<1> QED
  BY <1>1, <1>2, <1>3, <1>4, <1>5, <1>6

\* A value of a kind's property, seen on the wire.
LEMMA EncodeFits ==
  ASSUME NEW k, NEW p, NEW v, Fits(k, p, v)
  PROVE  FitsWire(k, p, Encode(v))
<1>1. v = <<v[1], v[2]>> /\ v[1] \in GoTypes /\ (v[1] = "nil" => v = Nil)
  BY DEF Fits, IsGo
<1>2. IsWire(Encode(v))
  <2>1. CASE asNumber(v)
    BY <2>1 DEF Encode, IsWire, Families
  <2>2. CASE ~asNumber(v) /\ v[1] \in ListTypes
    BY <2>2 DEF Encode, IsWire, Families
  <2>3. CASE ~asNumber(v) /\ v[1] \notin ListTypes /\ v[1] \in StructTypes
    BY <2>3 DEF Encode, IsWire, Families
  <2>4. CASE ~asNumber(v) /\ v[1] \notin ListTypes /\ v[1] \notin StructTypes
    <3>1. Encode(v) = v
      BY <2>4 DEF Encode
    <3>2. v[1] \in Families
      BY <2>4, <1>1 DEF GoTypes, asNumber, Families
    <3> QED
      BY <3>1, <3>2, <1>1 DEF IsWire
  <2> QED
    BY <2>1, <2>2, <2>3, <2>4
<1>3. Encode(v) # Nil => v # Nil
  BY DEF Encode, Nil, asNumber, NumberTypes, ListTypes, StructTypes
<1>4. ASSUME NEW a, NEW b, a[1] = b[1]
      PROVE  Encode(a)[1] = Encode(b)[1]
  BY <1>4 DEF Encode, asNumber
<1>5. asNumber(k.reads[p]) /\ Wide(v) => Encode(v)[1] = Encode(k.reads[p])[1]
  BY DEF Wide, Encode, asNumber, NumberTypes, ListTypes, StructTypes
<1> QED
  BY <1>2, <1>3, <1>4, <1>5 DEF Fits, FitsWire

\* Values that are equal to the sensor are the same on the wire.
LEMMA EqualEncode ==
  ASSUME NEW a, NEW b, isEqual(a, b, FALSE)
  PROVE  Encode(a) = Encode(b)
<1>1. CASE a = Nil \/ b = Nil
  BY <1>1 DEF isEqual, Nil, asNumber, NumberTypes, ListTypes
<1>2. CASE asNumber(a) /\ b # Nil
  <2>1. a # Nil
    BY <1>2 DEF Nil, asNumber, NumberTypes
  <2>2. asNumber(b) /\ a[2] = b[2]
    BY <1>2, <2>1 DEF isEqual, asNumber, NumberTypes, ListTypes
  <2> QED
    BY <1>2, <2>2 DEF Encode, asNumber, NumberTypes, ListTypes, StructTypes
<1>3. CASE a[1] \in ListTypes /\ b # Nil
  BY <1>3 DEF isEqual, Encode, asNumber, Nil, NumberTypes, ListTypes, StructTypes
<1>4. CASE ~asNumber(a) /\ a[1] \notin ListTypes /\ a # Nil /\ b # Nil
  BY <1>4 DEF isEqual
<1> QED
  BY <1>1, <1>2, <1>3, <1>4

\* What the sensor makes of a value on the wire, whichever number type the decoder
\* picks, is of the type the getter expects, or a number outside int32.
LEMMA TakenFits ==
  ASSUME NEW k, WellFormed(k), NEW p, NEW e, FitsWire(k, p, e), NEW w \in DecodedTypes
  PROVE  Fits(k, p, coercePropertyValue(k.type, p, Decode(e, w)))
<1> DEFINE raw == Decode(e, w)
           got == coercePropertyValue(k.type, p, raw)
           fn == Registry[k.type][p]
<1>1. /\ e = <<e[1], e[2]>> /\ e[1] \in Families /\ (e[1] = "nil" => e = Nil)
      /\ Typed(k, p) /\ e # Nil => e[1] = Encode(k.reads[p])[1]
  BY DEF FitsWire, IsWire
<1>2. DecodedTypes \subseteq NumberTypes /\ "float64" \in DecodedTypes /\ w \in DecodedTypes
  BY DEF DecodedTypes, NumberTypes
<1>13. e[1] = "number" => raw[1] \in DecodedTypes /\ raw[2] = e[2] /\ raw = <<raw[1], raw[2]>>
  BY <1>2 DEF Decode
<1>3. IsGo(raw) /\ (raw = Nil <=> e = Nil)
  <2>1. CASE e[1] = "number"
    BY <2>1, <1>2, <1>13 DEF IsGo, Nil, GoTypes, NumberTypes
  <2>2. CASE e[1] # "number"
    BY <1>1, <2>2 DEF Decode, IsGo, Nil, GoTypes, Families, NumberTypes, ListTypes, StructTypes
  <2> QED
    BY <2>1, <2>2
<1> HIDE DEF raw
<1>4. ~Registered(k, p) \/ raw = Nil => got = raw
  BY DEF coercePropertyValue, Registered
<1>5. ASSUME Registered(k, p), raw # Nil
      PROVE  /\ fn = "int" => got = coerceInt(raw)
             /\ fn = "[]string" => got = coerceStringSlice(raw)
             /\ fn \in StructTypes => got = coerceViaRoundTrip(raw, fn)
             /\ fn \in {"int", "[]string"} \cup StructTypes
  <2>1. fn \in {"int", "[]string"} \cup StructTypes
    BY <1>5, RegistryFacts DEF Registered
  <2>2. got = CASE fn = "int" -> coerceInt(raw)
                [] fn = "[]string" -> coerceStringSlice(raw)
                [] OTHER -> coerceViaRoundTrip(raw, fn)
    BY <1>5 DEF coercePropertyValue, Registered
  <2> HIDE DEF fn, got
  <2> QED
    BY <2>1, <2>2 DEF StructTypes
<1>6. IsGo(got)
  <2>1. CASE ~Registered(k, p) \/ raw = Nil
    BY <2>1, <1>3, <1>4
  <2>2. CASE Registered(k, p) /\ raw # Nil
    <3> HIDE DEF fn, got
    <3>1. IsGo(coerceInt(raw))
      BY <1>3 DEF coerceInt, IsGo, GoInt, GoTypes, NumberTypes
    <3>2. IsGo(coerceStringSlice(raw))
      BY <1>3 DEF coerceStringSlice, IsGo, GoTypes, ListTypes
    <3>3. fn \in StructTypes => IsGo(coerceViaRoundTrip(raw, fn))
      BY <1>3 DEF coerceViaRoundTrip, IsGo, GoTypes, StructTypes
    <3> QED
      BY <2>2, <1>5, <3>1, <3>2, <3>3
  <2> QED
    BY <2>1, <2>2
<1>7. ASSUME Typed(k, p), got # Nil
      PROVE  got[1] = k.reads[p][1] \/ (asNumber(k.reads[p]) /\ Wide(got))
  <2> DEFINE tag == k.reads[p][1]
  <2>1. /\ tag \in {"bool", "string", "[]string"} \cup NumberTypes \cup StructTypes
        /\ Registered(k, p) => fn = tag
        /\ tag \in {"[]string"} \cup StructTypes => Registered(k, p)
        /\ tag \in NumberTypes => Registered(k, p)
    BY <1>7 DEF WellFormed, Readable, Typed, asNumber
  <2>2. e # Nil /\ raw # Nil
    <3>1. raw = Nil => got = Nil
      BY <1>4
    <3> QED
      BY <3>1, <1>3, <1>7
  <2>3. e[1] = Encode(k.reads[p])[1]
    BY <1>1, <1>7, <2>2
  <2> HIDE DEF fn, got
  <2>4. CASE tag \in {"bool", "string"}
    <3>1. e[1] = tag
      BY <2>4, <2>3 DEF Encode, asNumber, NumberTypes, ListTypes, StructTypes
    <3>2. raw = e
      BY <3>1, <2>4 DEF raw, Decode
    <3>3. ~Registered(k, p)
      BY <2>4, <2>1, <2>2, <1>5 DEF StructTypes
    <3> QED
      BY <3>1, <3>2, <3>3, <1>4
  <2>5. CASE tag = "[]string"
    <3>1. e[1] = "list"
      BY <2>5, <2>3 DEF Encode, asNumber, NumberTypes, ListTypes, StructTypes
    <3>2. raw[1] = "[]any"
      BY <3>1 DEF raw, Decode
    <3>3. got = coerceStringSlice(raw)
      BY <2>5, <2>1, <2>2, <1>5
    <3> QED
      BY <3>2, <3>3, <2>5 DEF coerceStringSlice, ListTypes
  <2>6. CASE tag \in StructTypes
    <3>1. e[1] = "map"
      BY <2>6, <2>3 DEF Encode, asNumber, NumberTypes, ListTypes, StructTypes
    <3>2. raw[1] = "map"
      BY <3>1 DEF raw, Decode
    <3>3. got = coerceViaRoundTrip(raw, tag)
      BY <2>6, <2>1, <2>2, <1>5
    <3> QED
      BY <3>2, <3>3 DEF coerceViaRoundTrip
  <2>7. CASE tag \in NumberTypes
    <3>1. e[1] = "number"
      BY <2>7, <2>3 DEF Encode, asNumber, NumberTypes, ListTypes, StructTypes
    <3>2. raw[1] \in DecodedTypes
      BY <3>1, <1>13
    <3>3. fn = "int" /\ tag = "int"
      BY <2>7, <2>1, <2>2, <1>5 DEF NumberTypes, StructTypes
    <3>4. got = coerceInt(raw)
      BY <3>3, <2>7, <2>1, <2>2, <1>5
    <3>5. coerceInt(raw)[1] = "int" \/ (coerceInt(raw) = raw /\ raw[2] \notin Int32)
      <4>1. NaN \notin Int32 /\ Inf \notin Int32
        BY NumbersAssumption DEF Int32
      <4> QED
        BY <3>2, <4>1 DEF coerceInt, GoInt, DecodedTypes
    <3> QED
      BY <3>2, <3>3, <3>4, <3>5, <1>2, <2>7 DEF Wide, asNumber
  <2> QED
    BY <2>1, <2>4, <2>5, <2>6, <2>7
<1> HIDE DEF got
<1> QED
  BY <1>6, <1>7 DEF Fits, got, raw

\* What becomes of a consumer's write fits the kind.
LEMMA UpdateFits ==
  ASSUME NEW k, WellFormed(k), NEW p \in DOMAIN k.route, NEW e, IsWire(e), NEW w \in DecodedTypes
  PROVE  Partial(k, UpdateValue(k, p, Decode(e, w)))
<1> DEFINE raw == Decode(e, w)
           route == k.route[p]
<1>1. raw[1] = "string" => IsGo(raw)
  BY DEF Decode, IsGo, IsWire, GoTypes, DecodedTypes
<1>2. Routed(k, p)
  BY DEF WellFormed
<1> HIDE DEF raw
<1>3. UpdateValue(k, p, raw) =
        CASE route = "switch" -> One(p, GoBool(Truthy(raw)))
          [] route = "level" /\ toInt64(raw) -> One(p, GoInt(Clamp(Truncate(raw[2]), 0, 100)))
          [] route = "target" /\ toInt64(raw) ->
               [targetState |-> GoInt(Truncate(raw[2])), currentState |-> GoInt(Truncate(raw[2]))]
          [] route = "string" /\ raw[1] = "string" -> One(p, raw)
          [] route \in StructTypes /\ raw[1] = "map" -> One(p, <<route, raw[2]>>)
          [] route = "home" -> [position |-> <<"PTZPosition", "origin">>]
          [] OTHER -> <<>>
  BY DEF UpdateValue
<1>4. ASSUME NEW v, NEW type, IsGo(v), v[1] = type, Takes(k, p, type)
      PROVE  Partial(k, One(p, v))
  <2>1. DOMAIN One(p, v) = {p} /\ One(p, v)[p] = v
    BY DEF One
  <2>2. p \in DOMAIN k.init /\ Fits(k, p, v)
    BY <1>4 DEF Fits, Takes
  <2> HIDE DEF raw, route
  <2> QED
    BY <2>1, <2>2 DEF Partial
<1>5. \A x : IsGo(GoBool(x)) /\ GoBool(x)[1] = "bool" /\ IsGo(GoInt(x)) /\ GoInt(x)[1] = "int"
  BY DEF IsGo, GoBool, GoInt, GoTypes, NumberTypes
<1>6. CASE route = "switch"
  <2>1. UpdateValue(k, p, raw) = One(p, GoBool(Truthy(raw)))
    BY <1>3, <1>6 DEF StructTypes
  <2> QED
    BY <2>1, <1>6, <1>2, <1>4, <1>5 DEF Routed, raw
<1>7. CASE route = "level" /\ toInt64(raw)
  <2>1. UpdateValue(k, p, raw) = One(p, GoInt(Clamp(Truncate(raw[2]), 0, 100)))
    BY <1>3, <1>7 DEF StructTypes
  <2> QED
    BY <2>1, <1>7, <1>2, <1>4, <1>5 DEF Routed, raw
<1>8. CASE route = "target" /\ toInt64(raw)
  <2>1. UpdateValue(k, p, raw) = [targetState |-> GoInt(Truncate(raw[2])), currentState |-> GoInt(Truncate(raw[2]))]
    BY <1>3, <1>8 DEF StructTypes
  <2>2. Takes(k, "targetState", "int") /\ Takes(k, "currentState", "int")
    BY <1>8, <1>2 DEF Routed
  <2> QED
    BY <2>1, <2>2, <1>5 DEF Partial, Fits, Takes, raw
<1>9. CASE route = "string" /\ raw[1] = "string"
  <2>1. UpdateValue(k, p, raw) = One(p, raw)
    BY <1>3, <1>9
  <2> QED
    BY <2>1, <1>9, <1>1, <1>2, <1>4 DEF Routed, raw
<1>10. CASE route \in StructTypes /\ raw[1] = "map"
  <2>1. UpdateValue(k, p, raw) = One(p, <<route, raw[2]>>)
    BY <1>3, <1>10 DEF StructTypes
  <2>2. IsGo(<<route, raw[2]>>)
    BY <1>10 DEF IsGo, GoTypes, StructTypes
  <2> QED
    BY <2>1, <2>2, <1>10, <1>2, <1>4 DEF Routed, raw
<1>11. CASE route = "home"
  <2>1. UpdateValue(k, p, raw) = [position |-> <<"PTZPosition", "origin">>]
    BY <1>3, <1>11 DEF StructTypes
  <2>2. IsGo(<<"PTZPosition", "origin">>)
    BY DEF IsGo, GoTypes, StructTypes
  <2>3. Takes(k, "position", "PTZPosition")
    BY <1>11, <1>2 DEF Routed
  <2> QED
    BY <2>1, <2>2, <2>3 DEF Partial, Fits, Takes, raw
<1>12. CASE ~(\/ route = "switch" \/ (route = "level" /\ toInt64(raw)) \/ (route = "target" /\ toInt64(raw))
              \/ (route = "string" /\ raw[1] = "string") \/ (route \in StructTypes /\ raw[1] = "map")
              \/ route = "home")
  <2>1. UpdateValue(k, p, raw) = <<>>
    BY <1>3, <1>12
  <2> QED
    BY <2>1 DEF Partial, raw
<1> QED
  BY <1>6, <1>7, <1>8, <1>9, <1>10, <1>11, <1>12

-----------------------------------------------------------------------------
(* The kinds                                                                *)

LEMMA OneFits ==
  ASSUME NEW k, NEW p \in DOMAIN k.init, NEW x, DOMAIN x = {p}, Fits(k, p, x[p])
  PROVE  Partial(k, x)
BY DEF Partial

LEMMA DetectorFits ==
  ASSUME NEW type, type \notin DOMAIN Registry
  PROVE  WellFormed(Detector(type))
<1> DEFINE k == Detector(type)
<1>1. /\ k.type = type /\ k.init = [detected |-> GoBool(FALSE)]
      /\ k.writes = {[detected |-> GoBool(b)] : b \in BOOLEAN}
      /\ k.route = <<>> /\ k.reads = [detected |-> GoBool(FALSE)]
  BY DEF Detector
<1> HIDE DEF k
<1>2. \A n : Fits(k, "detected", GoBool(n))
  BY <1>1 DEF Fits, IsGo, GoBool, GoTypes
<1>3. \A n : Partial(k, [detected |-> GoBool(n)])
  BY <1>1, <1>2 DEF Partial
<1>4. Readable(k, "detected")
  BY <1>1 DEF Readable, GoBool, Registered, StructTypes
<1>5. Partial(k, k.init) /\ \A x \in k.writes : Partial(k, x)
  <2>1. k.init = [detected |-> GoBool(FALSE)] /\ \A x \in k.writes : \E b \in BOOLEAN : x = [detected |-> GoBool(b)]
    BY <1>1
  <2> QED
    BY <2>1, <1>3
<1>6. (\A p \in DOMAIN k.reads : Readable(k, p)) /\ \A p \in DOMAIN k.route : Routed(k, p)
  BY <1>1, <1>4
<1>7. WellFormed(k)
  BY <1>5, <1>6 DEF WellFormed
<1> QED
  BY <1>7 DEF k

LEMMA GaugeFits ==
  ASSUME NEW type, type \notin DOMAIN Registry, NEW start, NEW low, NEW high
  PROVE  WellFormed(Gauge(type, start, low, high))
<1> DEFINE k == Gauge(type, start, low, high)
<1>1. /\ k.type = type /\ k.init = [current |-> GoFloat(start)]
      /\ k.writes = {[current |-> GoFloat(Clamp(n, low, high))] : n \in {low - 1, start + 1}}
      /\ k.route = <<>> /\ k.reads = [current |-> GoFloat(0)]
  BY DEF Gauge
<1> HIDE DEF k
<1>2. \A n : Fits(k, "current", GoFloat(n))
  BY <1>1 DEF Fits, IsGo, GoFloat, GoTypes, NumberTypes
<1>3. \A n : Partial(k, [current |-> GoFloat(n)])
  BY <1>1, <1>2 DEF Partial
<1>4. Readable(k, "current")
  BY <1>1 DEF Readable, GoFloat, Registered, NumberTypes, StructTypes
<1>5. Partial(k, k.init) /\ \A x \in k.writes : Partial(k, x)
  BY <1>1, <1>3
<1>6. (\A p \in DOMAIN k.reads : Readable(k, p)) /\ \A p \in DOMAIN k.route : Routed(k, p)
  BY <1>1, <1>4
<1>7. WellFormed(k)
  BY <1>5, <1>6 DEF WellFormed
<1> QED
  BY <1>7 DEF k

\* A target and a current state fit a kind that reads both as int.
LEMMA StatesFit ==
  ASSUME NEW k, {"targetState", "currentState"} \subseteq DOMAIN k.init,
         \A p \in {"targetState", "currentState"} : p \in DOMAIN k.reads => k.reads[p][1] = "int"
  PROVE  /\ \A n : Partial(k, [targetState |-> GoInt(n), currentState |-> GoInt(n)])
         /\ \A n : Partial(k, [currentState |-> GoInt(n)])
         /\ Takes(k, "targetState", "int") /\ Takes(k, "currentState", "int")
<1>1. \A n : IsGo(GoInt(n)) /\ GoInt(n)[1] = "int"
  BY DEF IsGo, GoInt, GoTypes, NumberTypes
<1> QED
  BY <1>1 DEF Partial, Fits, Takes, Typed

LEMMA LightFits == WellFormed(LightControl)
<1> DEFINE k == LightControl
<1>1. /\ k.type = "light" /\ k.init = [on |-> GoBool(FALSE), brightness |-> GoInt(100)]
      /\ k.writes = {[on |-> GoBool(b)] : b \in BOOLEAN}
                      \cup {[brightness |-> GoInt(Clamp(n, 0, 100))] : n \in Levels}
      /\ k.route = [on |-> "switch", brightness |-> "level"]
      /\ k.reads = [on |-> GoBool(FALSE), brightness |-> GoInt(0)]
  BY DEF LightControl
<1> HIDE DEF k
<1>2. \A n : Fits(k, "on", GoBool(n)) /\ Fits(k, "brightness", GoInt(n))
  BY <1>1 DEF Fits, IsGo, GoBool, GoInt, GoTypes, NumberTypes
<1>3. Partial(k, k.init) /\ \A n : Partial(k, [on |-> GoBool(n)]) /\ Partial(k, [brightness |-> GoInt(n)])
  <2>1. Fits(k, "on", GoBool(FALSE)) /\ Fits(k, "brightness", GoInt(100))
    BY <1>2
  <2>2. Partial(k, k.init)
    <3>1. ASSUME NEW p \in DOMAIN k.init PROVE Fits(k, p, k.init[p])
      <4>1. CASE p = "on"
        <5>1. k.init[p] = GoBool(FALSE)
          BY <1>1, <4>1
        <5> QED
          BY <2>1, <5>1, <4>1
      <4>2. CASE p = "brightness"
        <5>1. k.init[p] = GoInt(100)
          BY <1>1, <4>2
        <5> QED
          BY <2>1, <5>1, <4>2
      <4> QED
        BY <1>1, <4>1, <4>2
    <3> QED
      BY <3>1 DEF Partial
  <2>3. ASSUME NEW n PROVE Partial(k, [on |-> GoBool(n)])
    <3> DEFINE x == [on |-> GoBool(n)]
    <3>1. "on" \in DOMAIN k.init
      BY <1>1
    <3>2. DOMAIN x = {"on"} /\ Fits(k, "on", x["on"])
      BY <1>2
    <3> HIDE DEF x
    <3>3. Partial(k, x)
      BY <3>1, <3>2, OneFits
    <3> QED
      BY <3>3 DEF x
  <2>4. ASSUME NEW n PROVE Partial(k, [brightness |-> GoInt(n)])
    <3> DEFINE x == [brightness |-> GoInt(n)]
    <3>1. "brightness" \in DOMAIN k.init
      BY <1>1
    <3>2. DOMAIN x = {"brightness"} /\ Fits(k, "brightness", x["brightness"])
      BY <1>2
    <3> HIDE DEF x
    <3>3. Partial(k, x)
      BY <3>1, <3>2, OneFits
    <3> QED
      BY <3>3 DEF x
  <2> QED
    BY <2>2, <2>3, <2>4
<1>4. \A p \in DOMAIN k.reads : Readable(k, p)
  BY <1>1 DEF Readable, GoBool, GoInt, Registered, Registry, NumberTypes, StructTypes
<1>5. \A p \in DOMAIN k.route : Routed(k, p)
  BY <1>1 DEF Routed, Takes, GoBool, GoInt, StructTypes
<1>6. \A x \in k.writes : Partial(k, x)
  BY <1>1, <1>3
<1>7. WellFormed(k)
  BY <1>3, <1>4, <1>5, <1>6 DEF WellFormed
<1> QED
  BY <1>7 DEF k

LEMMA SirenFits == WellFormed(SirenControl)
<1> DEFINE k == SirenControl
<1>1. /\ k.type = "siren" /\ k.init = [active |-> GoBool(FALSE), volume |-> GoInt(100)]
      /\ k.writes = {[active |-> GoBool(b)] : b \in BOOLEAN}
                      \cup {[volume |-> GoInt(Clamp(n, 0, 100))] : n \in Levels}
      /\ k.route = [active |-> "switch", volume |-> "level"]
      /\ k.reads = [active |-> GoBool(FALSE), volume |-> GoInt(0)]
  BY DEF SirenControl
<1> HIDE DEF k
<1>2. \A n : Fits(k, "active", GoBool(n)) /\ Fits(k, "volume", GoInt(n))
  BY <1>1 DEF Fits, IsGo, GoBool, GoInt, GoTypes, NumberTypes
<1>3. Partial(k, k.init) /\ \A n : Partial(k, [active |-> GoBool(n)]) /\ Partial(k, [volume |-> GoInt(n)])
  <2>1. Fits(k, "active", GoBool(FALSE)) /\ Fits(k, "volume", GoInt(100))
    BY <1>2
  <2>2. Partial(k, k.init)
    <3>1. ASSUME NEW p \in DOMAIN k.init PROVE Fits(k, p, k.init[p])
      <4>1. CASE p = "active"
        <5>1. k.init[p] = GoBool(FALSE)
          BY <1>1, <4>1
        <5> QED
          BY <2>1, <5>1, <4>1
      <4>2. CASE p = "volume"
        <5>1. k.init[p] = GoInt(100)
          BY <1>1, <4>2
        <5> QED
          BY <2>1, <5>1, <4>2
      <4> QED
        BY <1>1, <4>1, <4>2
    <3> QED
      BY <3>1 DEF Partial
  <2>3. ASSUME NEW n PROVE Partial(k, [active |-> GoBool(n)])
    <3> DEFINE x == [active |-> GoBool(n)]
    <3>1. "active" \in DOMAIN k.init
      BY <1>1
    <3>2. DOMAIN x = {"active"} /\ Fits(k, "active", x["active"])
      BY <1>2
    <3> HIDE DEF x
    <3>3. Partial(k, x)
      BY <3>1, <3>2, OneFits
    <3> QED
      BY <3>3 DEF x
  <2>4. ASSUME NEW n PROVE Partial(k, [volume |-> GoInt(n)])
    <3> DEFINE x == [volume |-> GoInt(n)]
    <3>1. "volume" \in DOMAIN k.init
      BY <1>1
    <3>2. DOMAIN x = {"volume"} /\ Fits(k, "volume", x["volume"])
      BY <1>2
    <3> HIDE DEF x
    <3>3. Partial(k, x)
      BY <3>1, <3>2, OneFits
    <3> QED
      BY <3>3 DEF x
  <2> QED
    BY <2>2, <2>3, <2>4
<1>4. \A p \in DOMAIN k.reads : Readable(k, p)
  BY <1>1 DEF Readable, GoBool, GoInt, Registered, Registry, NumberTypes, StructTypes
<1>5. \A p \in DOMAIN k.route : Routed(k, p)
  BY <1>1 DEF Routed, Takes, GoBool, GoInt, StructTypes
<1>6. \A x \in k.writes : Partial(k, x)
  BY <1>1, <1>3
<1>7. WellFormed(k)
  BY <1>3, <1>4, <1>5, <1>6 DEF WellFormed
<1> QED
  BY <1>7 DEF k

LEMMA SwitchFits == WellFormed(SwitchControl)
<1> DEFINE k == SwitchControl
<1>1. /\ k.type = "switch" /\ k.init = [on |-> GoBool(FALSE)]
      /\ k.writes = {[on |-> GoBool(b)] : b \in BOOLEAN}
      /\ k.route = [on |-> "switch"] /\ k.reads = [on |-> GoBool(FALSE)]
  BY DEF SwitchControl
<1> HIDE DEF k
<1>2. \A n : Fits(k, "on", GoBool(n))
  BY <1>1 DEF Fits, IsGo, GoBool, GoTypes
<1>3. Partial(k, k.init) /\ \A n : Partial(k, [on |-> GoBool(n)])
  <2>1. Fits(k, "on", GoBool(FALSE))
    BY <1>2
  <2>2. Partial(k, k.init)
    <3>1. ASSUME NEW p \in DOMAIN k.init PROVE Fits(k, p, k.init[p])
      <4>1. CASE p = "on"
        <5>1. k.init[p] = GoBool(FALSE)
          BY <1>1, <4>1
        <5> QED
          BY <2>1, <5>1, <4>1
      <4> QED
        BY <1>1, <4>1
    <3> QED
      BY <3>1 DEF Partial
  <2>3. ASSUME NEW n PROVE Partial(k, [on |-> GoBool(n)])
    <3> DEFINE x == [on |-> GoBool(n)]
    <3>1. "on" \in DOMAIN k.init
      BY <1>1
    <3>2. DOMAIN x = {"on"} /\ Fits(k, "on", x["on"])
      BY <1>2
    <3> HIDE DEF x
    <3>3. Partial(k, x)
      BY <3>1, <3>2, OneFits
    <3> QED
      BY <3>3 DEF x
  <2> QED
    BY <2>2, <2>3
<1>4. \A p \in DOMAIN k.reads : Readable(k, p)
  BY <1>1 DEF Readable, GoBool, Registered, Registry, NumberTypes, StructTypes
<1>5. \A p \in DOMAIN k.route : Routed(k, p)
  BY <1>1 DEF Routed, Takes, GoBool, StructTypes
<1>6. \A x \in k.writes : Partial(k, x)
  BY <1>1, <1>3
<1>7. WellFormed(k)
  BY <1>3, <1>4, <1>5, <1>6 DEF WellFormed
<1> QED
  BY <1>7 DEF k

LEMMA LockFits == WellFormed(LockControl)
<1> DEFINE k == LockControl
<1>1. /\ k.type = "lock" /\ k.init = [currentState |-> GoInt(0), targetState |-> GoInt(0)]
      /\ k.writes = Targets({0, 1}) \cup Currents({1, 2})
      /\ k.route = [targetState |-> "target"]
      /\ k.reads = [currentState |-> GoInt(0), targetState |-> GoInt(0)]
  BY DEF LockControl
<1> HIDE DEF k
<1>2. \A n : Fits(k, "currentState", GoInt(n)) /\ Fits(k, "targetState", GoInt(n))
  BY <1>1 DEF Fits, IsGo, GoInt, GoTypes, NumberTypes
<1>3. Partial(k, k.init)
  <2>1. Fits(k, "currentState", GoInt(0)) /\ Fits(k, "targetState", GoInt(0))
    BY <1>2
  <2>2. Partial(k, k.init)
    <3>1. ASSUME NEW p \in DOMAIN k.init PROVE Fits(k, p, k.init[p])
      <4>1. CASE p = "currentState"
        <5>1. k.init[p] = GoInt(0)
          BY <1>1, <4>1
        <5> QED
          BY <2>1, <5>1, <4>1
      <4>2. CASE p = "targetState"
        <5>1. k.init[p] = GoInt(0)
          BY <1>1, <4>2
        <5> QED
          BY <2>1, <5>1, <4>2
      <4> QED
        BY <1>1, <4>1, <4>2
    <3> QED
      BY <3>1 DEF Partial
  <2> QED
    BY <2>2
<1>4. \A p \in DOMAIN k.reads : Readable(k, p)
  BY <1>1 DEF Readable, GoInt, Registered, Registry, NumberTypes, StructTypes
<1>5. /\ \A n : Partial(k, [targetState |-> GoInt(n), currentState |-> GoInt(n)])
      /\ \A n : Partial(k, [currentState |-> GoInt(n)])
      /\ Takes(k, "targetState", "int") /\ Takes(k, "currentState", "int")
  BY <1>1, StatesFit DEF GoInt
<1>6. \A p \in DOMAIN k.route : Routed(k, p)
  BY <1>1, <1>5 DEF Routed, StructTypes
<1>7. \A x \in k.writes : Partial(k, x)
  BY <1>1, <1>3, <1>5 DEF Targets, Currents
<1>8. WellFormed(k)
  BY <1>3, <1>4, <1>5, <1>6, <1>7 DEF WellFormed
<1> QED
  BY <1>8 DEF k

LEMMA GarageFits == WellFormed(GarageControl)
<1> DEFINE k == GarageControl
<1>1. /\ k.type = "garage"
      /\ k.init = [currentState |-> GoInt(1), targetState |-> GoInt(1), obstructionDetected |-> GoBool(FALSE)]
      /\ k.writes = Targets({0, 1}) \cup Currents({0, 3}) \cup {[obstructionDetected |-> GoBool(b)] : b \in BOOLEAN}
      /\ k.route = [targetState |-> "target"]
      /\ k.reads = [currentState |-> GoInt(1), targetState |-> GoInt(1), obstructionDetected |-> GoBool(FALSE)]
  BY DEF GarageControl
<1> HIDE DEF k
<1>2. \A n : /\ Fits(k, "currentState", GoInt(n)) /\ Fits(k, "targetState", GoInt(n))
             /\ Fits(k, "obstructionDetected", GoBool(n))
  BY <1>1 DEF Fits, IsGo, GoInt, GoBool, GoTypes, NumberTypes
<1>3. Partial(k, k.init) /\ \A n : Partial(k, [obstructionDetected |-> GoBool(n)])
  <2>1. Fits(k, "currentState", GoInt(1)) /\ Fits(k, "targetState", GoInt(1)) /\ Fits(k, "obstructionDetected", GoBool(FALSE))
    BY <1>2
  <2>2. Partial(k, k.init)
    <3>1. ASSUME NEW p \in DOMAIN k.init PROVE Fits(k, p, k.init[p])
      <4>1. CASE p = "currentState"
        <5>1. k.init[p] = GoInt(1)
          BY <1>1, <4>1
        <5> QED
          BY <2>1, <5>1, <4>1
      <4>2. CASE p = "targetState"
        <5>1. k.init[p] = GoInt(1)
          BY <1>1, <4>2
        <5> QED
          BY <2>1, <5>1, <4>2
      <4>3. CASE p = "obstructionDetected"
        <5>1. k.init[p] = GoBool(FALSE)
          BY <1>1, <4>3
        <5> QED
          BY <2>1, <5>1, <4>3
      <4> QED
        BY <1>1, <4>1, <4>2, <4>3
    <3> QED
      BY <3>1 DEF Partial
  <2>3. ASSUME NEW n PROVE Partial(k, [obstructionDetected |-> GoBool(n)])
    <3> DEFINE x == [obstructionDetected |-> GoBool(n)]
    <3>1. "obstructionDetected" \in DOMAIN k.init
      BY <1>1
    <3>2. DOMAIN x = {"obstructionDetected"} /\ Fits(k, "obstructionDetected", x["obstructionDetected"])
      BY <1>2
    <3> HIDE DEF x
    <3>3. Partial(k, x)
      BY <3>1, <3>2, OneFits
    <3> QED
      BY <3>3 DEF x
  <2> QED
    BY <2>2, <2>3
<1>4. \A p \in DOMAIN k.reads : Readable(k, p)
  BY <1>1 DEF Readable, GoInt, GoBool, Registered, Registry, NumberTypes, StructTypes
<1>5. /\ \A n : Partial(k, [targetState |-> GoInt(n), currentState |-> GoInt(n)])
      /\ \A n : Partial(k, [currentState |-> GoInt(n)])
      /\ Takes(k, "targetState", "int") /\ Takes(k, "currentState", "int")
  BY <1>1, StatesFit DEF GoInt
<1>6. \A p \in DOMAIN k.route : Routed(k, p)
  BY <1>1, <1>5 DEF Routed, StructTypes
<1>7. \A x \in k.writes : Partial(k, x)
  BY <1>1, <1>3, <1>5 DEF Targets, Currents
<1>8. WellFormed(k)
  BY <1>3, <1>4, <1>5, <1>6, <1>7 DEF WellFormed
<1> QED
  BY <1>8 DEF k

LEMMA SecurityFits == WellFormed(SecuritySystem)
<1> DEFINE k == SecuritySystem
<1>1. /\ k.type = "securitySystem" /\ k.init = [currentState |-> GoInt(3), targetState |-> GoInt(3)]
      /\ k.writes = Targets({1, 3}) \cup Currents({1, 4})
      /\ k.route = [targetState |-> "target"]
      /\ k.reads = [currentState |-> GoInt(3), targetState |-> GoInt(3)]
  BY DEF SecuritySystem
<1> HIDE DEF k
<1>2. \A n : Fits(k, "currentState", GoInt(n)) /\ Fits(k, "targetState", GoInt(n))
  BY <1>1 DEF Fits, IsGo, GoInt, GoTypes, NumberTypes
<1>3. Partial(k, k.init)
  <2>1. Fits(k, "currentState", GoInt(3)) /\ Fits(k, "targetState", GoInt(3))
    BY <1>2
  <2>2. Partial(k, k.init)
    <3>1. ASSUME NEW p \in DOMAIN k.init PROVE Fits(k, p, k.init[p])
      <4>1. CASE p = "currentState"
        <5>1. k.init[p] = GoInt(3)
          BY <1>1, <4>1
        <5> QED
          BY <2>1, <5>1, <4>1
      <4>2. CASE p = "targetState"
        <5>1. k.init[p] = GoInt(3)
          BY <1>1, <4>2
        <5> QED
          BY <2>1, <5>1, <4>2
      <4> QED
        BY <1>1, <4>1, <4>2
    <3> QED
      BY <3>1 DEF Partial
  <2> QED
    BY <2>2
<1>4. \A p \in DOMAIN k.reads : Readable(k, p)
  BY <1>1 DEF Readable, GoInt, Registered, Registry, NumberTypes, StructTypes
<1>5. /\ \A n : Partial(k, [targetState |-> GoInt(n), currentState |-> GoInt(n)])
      /\ \A n : Partial(k, [currentState |-> GoInt(n)])
      /\ Takes(k, "targetState", "int") /\ Takes(k, "currentState", "int")
  BY <1>1, StatesFit DEF GoInt
<1>6. \A p \in DOMAIN k.route : Routed(k, p)
  BY <1>1, <1>5 DEF Routed, StructTypes
<1>7. \A x \in k.writes : Partial(k, x)
  BY <1>1, <1>3, <1>5 DEF Targets, Currents
<1>8. WellFormed(k)
  BY <1>3, <1>4, <1>5, <1>6, <1>7 DEF WellFormed
<1> QED
  BY <1>8 DEF k

LEMMA BatteryFits == WellFormed(BatteryInfo)
<1> DEFINE k == BatteryInfo
<1>1. /\ k.type = "battery"
      /\ k.init = [level |-> GoInt(100), charging |-> <<"string", "NOT_CHARGING">>, low |-> GoBool(FALSE)]
      /\ k.writes = {[level |-> GoInt(Clamp(n, 0, 100))] : n \in Levels}
                      \cup {[charging |-> <<"string", "CHARGING">>], [low |-> GoBool(TRUE)]}
      /\ k.route = <<>>
      /\ k.reads = [level |-> GoInt(0), charging |-> <<"string", "NOT_CHARGING">>, low |-> GoBool(FALSE)]
  BY DEF BatteryInfo
<1> HIDE DEF k
<1>2. \A n : Fits(k, "level", GoInt(n)) /\ Fits(k, "charging", <<"string", n>>) /\ Fits(k, "low", GoBool(n))
  BY <1>1 DEF Fits, IsGo, GoInt, GoBool, GoTypes, NumberTypes
<1>3. Partial(k, k.init) /\ \A n : Partial(k, [level |-> GoInt(n)]) /\ Partial(k, [charging |-> <<"string", n>>]) /\ Partial(k, [low |-> GoBool(n)])
  <2>1. Fits(k, "level", GoInt(100)) /\ Fits(k, "charging", <<"string", "NOT_CHARGING">>) /\ Fits(k, "low", GoBool(FALSE))
    BY <1>2
  <2>2. Partial(k, k.init)
    <3>1. ASSUME NEW p \in DOMAIN k.init PROVE Fits(k, p, k.init[p])
      <4>1. CASE p = "level"
        <5>1. k.init[p] = GoInt(100)
          BY <1>1, <4>1
        <5> QED
          BY <2>1, <5>1, <4>1
      <4>2. CASE p = "charging"
        <5>1. k.init[p] = <<"string", "NOT_CHARGING">>
          BY <1>1, <4>2
        <5> QED
          BY <2>1, <5>1, <4>2
      <4>3. CASE p = "low"
        <5>1. k.init[p] = GoBool(FALSE)
          BY <1>1, <4>3
        <5> QED
          BY <2>1, <5>1, <4>3
      <4> QED
        BY <1>1, <4>1, <4>2, <4>3
    <3> QED
      BY <3>1 DEF Partial
  <2>3. ASSUME NEW n PROVE Partial(k, [level |-> GoInt(n)])
    <3> DEFINE x == [level |-> GoInt(n)]
    <3>1. "level" \in DOMAIN k.init
      BY <1>1
    <3>2. DOMAIN x = {"level"} /\ Fits(k, "level", x["level"])
      BY <1>2
    <3> HIDE DEF x
    <3>3. Partial(k, x)
      BY <3>1, <3>2, OneFits
    <3> QED
      BY <3>3 DEF x
  <2>4. ASSUME NEW n PROVE Partial(k, [charging |-> <<"string", n>>])
    <3> DEFINE x == [charging |-> <<"string", n>>]
    <3>1. "charging" \in DOMAIN k.init
      BY <1>1
    <3>2. DOMAIN x = {"charging"} /\ Fits(k, "charging", x["charging"])
      BY <1>2
    <3> HIDE DEF x
    <3>3. Partial(k, x)
      BY <3>1, <3>2, OneFits
    <3> QED
      BY <3>3 DEF x
  <2>5. ASSUME NEW n PROVE Partial(k, [low |-> GoBool(n)])
    <3> DEFINE x == [low |-> GoBool(n)]
    <3>1. "low" \in DOMAIN k.init
      BY <1>1
    <3>2. DOMAIN x = {"low"} /\ Fits(k, "low", x["low"])
      BY <1>2
    <3> HIDE DEF x
    <3>3. Partial(k, x)
      BY <3>1, <3>2, OneFits
    <3> QED
      BY <3>3 DEF x
  <2> QED
    BY <2>2, <2>3, <2>4, <2>5
<1>4. \A p \in DOMAIN k.reads : Readable(k, p)
  BY <1>1 DEF Readable, GoInt, GoBool, Registered, Registry, NumberTypes, StructTypes
<1>5. \A x \in k.writes : Partial(k, x)
  BY <1>1, <1>3
<1>6. \A p \in DOMAIN k.route : Routed(k, p)
  BY <1>1
<1>7. WellFormed(k)
  BY <1>3, <1>4, <1>5, <1>6 DEF WellFormed
<1> QED
  BY <1>7 DEF k

LEMMA PTZFits == WellFormed(PTZControl)
<1> DEFINE k == PTZControl
<1>1. /\ k.type = "ptz"
      /\ k.init = [position |-> <<"PTZPosition", "origin">>, moving |-> GoBool(FALSE), presets |-> <<"[]string", <<>>>>,
                   velocity |-> Nil, targetPreset |-> Nil, relativeMove |-> Nil]
  BY DEF PTZControl
<1>12. k.writes = {[position |-> <<"PTZPosition", x>>] : x \in {"origin", "away"}}
                \cup {[velocity |-> <<"PTZDirection", "left">>], [relativeMove |-> <<"PTZRelativeMove", "step">>],
                      [targetPreset |-> <<"string", "door">>], [presets |-> <<"[]string", <<"door", "yard">>>>],
                      [moving |-> GoBool(TRUE)]}
  BY DEF PTZControl
<1>13. k.route = [position |-> "PTZPosition", velocity |-> "PTZDirection", targetPreset |-> "string",
                    relativeMove |-> "PTZRelativeMove", home |-> "home"]
  BY DEF PTZControl
<1>14. k.reads = [position |-> <<"PTZPosition", "origin">>, moving |-> GoBool(FALSE), presets |-> <<"[]string", <<>>>>,
                    velocity |-> <<"PTZDirection", "still">>, targetPreset |-> NoPreset]
  BY DEF PTZControl
<1> HIDE DEF k
<1>2. \A n : /\ IsGo(GoBool(n)) /\ IsGo(<<"string", n>>) /\ IsGo(<<"[]string", n>>)
             /\ IsGo(<<"PTZPosition", n>>) /\ IsGo(<<"PTZDirection", n>>) /\ IsGo(<<"PTZRelativeMove", n>>)
  BY DEF IsGo, GoBool, GoTypes, ListTypes, StructTypes
<1>3. /\ k.reads["position"][1] = "PTZPosition" /\ k.reads["moving"][1] = "bool" /\ k.reads["presets"][1] = "[]string"
      /\ k.reads["velocity"][1] = "PTZDirection" /\ k.reads["targetPreset"][1] = "string"
      /\ "relativeMove" \notin DOMAIN k.reads
  <2>1. /\ k.reads["position"] = <<"PTZPosition", "origin">> /\ k.reads["moving"] = GoBool(FALSE)
        /\ k.reads["presets"] = <<"[]string", <<>>>> /\ k.reads["velocity"] = <<"PTZDirection", "still">>
        /\ k.reads["targetPreset"] = NoPreset
    BY <1>14
  <2>2. "relativeMove" \notin DOMAIN k.reads
    BY <1>14
  <2>3. GoBool(FALSE)[1] = "bool"
    BY DEF GoBool
  <2>4. NoPreset[1] = "string"
    BY DEF NoPreset
  <2>5. k.reads["position"][1] = "PTZPosition" /\ k.reads["velocity"][1] = "PTZDirection"
    BY <2>1
  <2>6. k.reads["presets"][1] = "[]string"
    BY <2>1
  <2>7. k.reads["moving"][1] = "bool" /\ k.reads["targetPreset"][1] = "string"
    BY <2>1, <2>3, <2>4
  <2> QED
    BY <2>2, <2>5, <2>6, <2>7
<1>4. \A n : /\ Fits(k, "position", <<"PTZPosition", n>>) /\ Fits(k, "moving", GoBool(n))
             /\ Fits(k, "presets", <<"[]string", n>>) /\ Fits(k, "velocity", <<"PTZDirection", n>>)
             /\ Fits(k, "targetPreset", <<"string", n>>) /\ Fits(k, "relativeMove", <<"PTZRelativeMove", n>>)
  BY <1>2, <1>3 DEF Fits, Typed, GoBool
<1>5. Partial(k, k.init)
  <2>1. /\ Fits(k, "position", <<"PTZPosition", "origin">>) /\ Fits(k, "moving", GoBool(FALSE))
        /\ Fits(k, "presets", <<"[]string", <<>>>>)
    BY <1>4
  <2>2. \A p : Fits(k, p, Nil)
    BY DEF Fits, IsGo, Nil, GoTypes
  <2>4. /\ k.init["position"] = <<"PTZPosition", "origin">> /\ k.init["moving"] = GoBool(FALSE)
        /\ k.init["presets"] = <<"[]string", <<>>>> /\ k.init["velocity"] = Nil
        /\ k.init["targetPreset"] = Nil /\ k.init["relativeMove"] = Nil
        /\ DOMAIN k.init = {"position", "moving", "presets", "velocity", "targetPreset", "relativeMove"}
    BY <1>1
  <2>3. ASSUME NEW p \in DOMAIN k.init PROVE Fits(k, p, k.init[p])
    <3>1. CASE p = "position"
      BY <2>4, <2>1, <3>1
    <3>2. CASE p = "moving"
      BY <2>4, <2>1, <3>2
    <3>3. CASE p = "presets"
      BY <2>4, <2>1, <3>3
    <3>4. CASE p \notin {"position", "moving", "presets"}
      BY <2>4, <2>2, <3>4
    <3> QED
      BY <3>1, <3>2, <3>3, <3>4
  <2> QED
    BY <2>3 DEF Partial
<1>6. \A p \in {"position", "moving", "presets", "velocity", "targetPreset", "relativeMove"} : p \in DOMAIN k.init
  BY <1>1
<1>7. ASSUME NEW n
      PROVE  /\ Partial(k, [position |-> <<"PTZPosition", n>>])
             /\ Partial(k, [moving |-> GoBool(n)])
             /\ Partial(k, [presets |-> <<"[]string", n>>])
             /\ Partial(k, [velocity |-> <<"PTZDirection", n>>])
             /\ Partial(k, [targetPreset |-> <<"string", n>>])
             /\ Partial(k, [relativeMove |-> <<"PTZRelativeMove", n>>])
  <2>1. Partial(k, [position |-> <<"PTZPosition", n>>])
    <3> DEFINE x == [position |-> <<"PTZPosition", n>>]
    <3>1. DOMAIN x = {"position"} /\ Fits(k, "position", x["position"])
      BY <1>4
    <3> HIDE DEF x
    <3>2. Partial(k, x)
      BY <3>1, <1>6, OneFits
    <3> QED
      BY <3>2 DEF x
  <2>2. Partial(k, [moving |-> GoBool(n)])
    <3> DEFINE x == [moving |-> GoBool(n)]
    <3>1. DOMAIN x = {"moving"} /\ Fits(k, "moving", x["moving"])
      BY <1>4
    <3> HIDE DEF x
    <3>2. Partial(k, x)
      BY <3>1, <1>6, OneFits
    <3> QED
      BY <3>2 DEF x
  <2>3. Partial(k, [presets |-> <<"[]string", n>>])
    <3> DEFINE x == [presets |-> <<"[]string", n>>]
    <3>1. DOMAIN x = {"presets"} /\ Fits(k, "presets", x["presets"])
      BY <1>4
    <3> HIDE DEF x
    <3>2. Partial(k, x)
      BY <3>1, <1>6, OneFits
    <3> QED
      BY <3>2 DEF x
  <2>4. Partial(k, [velocity |-> <<"PTZDirection", n>>])
    <3> DEFINE x == [velocity |-> <<"PTZDirection", n>>]
    <3>1. DOMAIN x = {"velocity"} /\ Fits(k, "velocity", x["velocity"])
      BY <1>4
    <3> HIDE DEF x
    <3>2. Partial(k, x)
      BY <3>1, <1>6, OneFits
    <3> QED
      BY <3>2 DEF x
  <2>5. Partial(k, [targetPreset |-> <<"string", n>>])
    <3> DEFINE x == [targetPreset |-> <<"string", n>>]
    <3>1. DOMAIN x = {"targetPreset"} /\ Fits(k, "targetPreset", x["targetPreset"])
      BY <1>4
    <3> HIDE DEF x
    <3>2. Partial(k, x)
      BY <3>1, <1>6, OneFits
    <3> QED
      BY <3>2 DEF x
  <2>6. Partial(k, [relativeMove |-> <<"PTZRelativeMove", n>>])
    <3> DEFINE x == [relativeMove |-> <<"PTZRelativeMove", n>>]
    <3>1. DOMAIN x = {"relativeMove"} /\ Fits(k, "relativeMove", x["relativeMove"])
      BY <1>4
    <3> HIDE DEF x
    <3>2. Partial(k, x)
      BY <3>1, <1>6, OneFits
    <3> QED
      BY <3>2 DEF x
  <2> QED
    BY <2>1, <2>2, <2>3, <2>4, <2>5, <2>6
<1>8. \A x \in k.writes : Partial(k, x)
  BY <1>12, <1>7
<1>9. \A p \in DOMAIN k.reads : Readable(k, p)
  <2>1. /\ DOMAIN k.reads = {"position", "moving", "presets", "velocity", "targetPreset"}
        /\ DOMAIN k.reads \subseteq DOMAIN k.init
    BY <1>14, <1>6
  <2>2. \A p : Registered(k, p) <=> p \in {"position", "presets", "velocity"}
    <3>1. k.type = "ptz"
      BY <1>1
    <3>2. "ptz" \in DOMAIN Registry /\ DOMAIN Registry["ptz"] = {"position", "presets", "velocity"}
      BY DEF Registry
    <3> QED
      BY <3>1, <3>2 DEF Registered
  <2>3. /\ Registry[k.type]["position"] = "PTZPosition" /\ Registry[k.type]["presets"] = "[]string"
        /\ Registry[k.type]["velocity"] = "PTZDirection"
    <3>1. k.type = "ptz"
      BY <1>1
    <3> QED
      BY <3>1 DEF Registry
  <2> QED
    BY <2>1, <2>2, <2>3, <1>3 DEF Readable, StructTypes
<1>10. \A p \in DOMAIN k.route : Routed(k, p)
  <2>1. /\ Takes(k, "position", "PTZPosition") /\ Takes(k, "velocity", "PTZDirection")
        /\ Takes(k, "targetPreset", "string") /\ Takes(k, "relativeMove", "PTZRelativeMove")
    BY <1>3, <1>6 DEF Takes, Typed
  <2>2. /\ DOMAIN k.route = {"position", "velocity", "targetPreset", "relativeMove", "home"}
        /\ k.route["position"] = "PTZPosition" /\ k.route["velocity"] = "PTZDirection"
        /\ k.route["targetPreset"] = "string" /\ k.route["relativeMove"] = "PTZRelativeMove"
        /\ k.route["home"] = "home"
    BY <1>13
  <2> QED
    BY <2>1, <2>2 DEF Routed, StructTypes
<1>11. WellFormed(k)
  BY <1>5, <1>8, <1>9, <1>10 DEF WellFormed
<1> QED
  BY <1>11 DEF k

\* Every concrete sensor of the SDK is well formed: it is constructed with, and
\* writes, values its getters understand, and a number or a structure it reads is
\* in the registry of coercions with the type it asserts, if it is there at all.
THEOREM KindsFit == \A k \in RegisteredKinds \cup OtherKinds : WellFormed(k)
<1>1. \A type \in {"contact", "smoke", "leak", "gas", "carbonMonoxide", "heat", "cold", "vibration", "tamper",
                   "problem", "power", "occupancy", "temperature", "humidity", "illuminance", "carbonDioxide"} :
         type \notin DOMAIN Registry
  BY DEF Registry
<1>2. /\ WellFormed(ContactSensor) /\ WellFormed(SmokeSensor) /\ WellFormed(LeakSensor) /\ WellFormed(GasSensor)
      /\ WellFormed(CarbonMonoxideSensor) /\ WellFormed(HeatSensor) /\ WellFormed(ColdSensor)
      /\ WellFormed(VibrationSensor) /\ WellFormed(TamperSensor) /\ WellFormed(ProblemSensor)
      /\ WellFormed(PowerSensor) /\ WellFormed(OccupancySensor)
  BY <1>1, DetectorFits
     DEF ContactSensor, SmokeSensor, LeakSensor, GasSensor, CarbonMonoxideSensor, HeatSensor, ColdSensor,
         VibrationSensor, TamperSensor, ProblemSensor, PowerSensor, OccupancySensor
<1>3. /\ WellFormed(TemperatureInfo) /\ WellFormed(HumidityInfo) /\ WellFormed(IlluminanceInfo)
      /\ WellFormed(CarbonDioxideInfo)
  BY <1>1, GaugeFits DEF TemperatureInfo, HumidityInfo, IlluminanceInfo, CarbonDioxideInfo
<1> QED
  BY <1>2, <1>3, LightFits, SirenFits, SwitchFits, LockFits, GarageFits, SecurityFits, BatteryFits, PTZFits
     DEF RegisteredKinds, OtherKinds

-----------------------------------------------------------------------------
(* Steps                                                                    *)

LEMMA ListFacts ==
  ASSUME NEW s, IsList(s)
  PROVE  Len(s) \in Nat /\ DOMAIN s = 1 .. Len(s)
BY DEF IsList

LEMMA ListOf ==
  ASSUME NEW S, NEW s \in Seq(S)
  PROVE  IsList(s)
<1> DEFINE R == {s[i] : i \in DOMAIN s}
<1>1. Len(s) \in Nat /\ DOMAIN s = 1 .. Len(s) /\ s = [i \in 1 .. Len(s) |-> s[i]]
  BY SeqDef
<1>2. s \in [1 .. Len(s) -> R]
  BY <1>1
<1> HIDE DEF R
<1>3. s \in Seq(R)
  BY <1>1, <1>2, SeqDef
<1> QED
  BY <1>3 DEF IsList, R

LEMMA ListAppend ==
  ASSUME NEW s, IsList(s), NEW x
  PROVE  /\ IsList(Append(s, x)) /\ DOMAIN Append(s, x) = 1 .. (Len(s) + 1)
         /\ Append(s, x)[Len(s) + 1] = x
         /\ \A i \in 1 .. Len(s) : Append(s, x)[i] = s[i]
<1> DEFINE T == {s[i] : i \in DOMAIN s} \cup {x}
<1>1. s \in Seq(T) /\ x \in T
  BY DEF IsList
<1> HIDE DEF T
<1>2. Append(s, x) \in Seq(T) /\ Len(Append(s, x)) = Len(s) + 1 /\ Len(s) \in Nat
  BY <1>1
<1>3. Append(s, x)[Len(s) + 1] = x /\ \A i \in 1 .. Len(s) : Append(s, x)[i] = s[i]
  BY <1>1
<1>4. IsList(Append(s, x))
  BY <1>2, ListOf
<1> QED
  BY <1>2, <1>3, <1>4, ListFacts

LEMMA ListTail ==
  ASSUME NEW s, IsList(s), s # <<>>
  PROVE  /\ IsList(Tail(s)) /\ DOMAIN Tail(s) = 1 .. (Len(s) - 1) /\ Len(s) \in Nat \ {0}
         /\ Head(s) = s[1]
         /\ \A i \in DOMAIN Tail(s) : Tail(s)[i] = s[i + 1]
<1> DEFINE T == {s[i] : i \in DOMAIN s}
<1>1. s \in Seq(T)
  BY DEF IsList
<1> HIDE DEF T
<1>2. Tail(s) \in Seq(T) /\ Len(Tail(s)) = Len(s) - 1 /\ Len(s) \in Nat \ {0} /\ Head(s) = s[1]
  BY <1>1
<1>3. \A i \in 1 .. (Len(s) - 1) : Tail(s)[i] = s[i + 1]
  BY <1>1
<1>4. IsList(Tail(s))
  BY <1>2, ListOf
<1>5. DOMAIN Tail(s) = 1 .. (Len(s) - 1)
  BY <1>2, <1>4, ListFacts
<1> QED
  BY <1>2, <1>3, <1>4, <1>5

LEMMA ReachedFacts ==
  ASSUME StateShape
  PROVE  /\ Reached("bound") => stage = "bound"
         /\ stage = "bound" => Reached("bound") /\ Reached("wired") /\ Reached("sourced")
<1>1. DOMAIN Stages = 1 .. 6
  BY DEF Stages
<1>2. /\ Stages[1] = "new" /\ Stages[2] = "snapshot" /\ Stages[3] = "registered"
      /\ Stages[4] = "wired" /\ Stages[5] = "sourced" /\ Stages[6] = "bound"
  BY DEF Stages
<1>3. Reached("bound") => stage = "bound"
  <2>1. ASSUME NEW i \in 1 .. 6, NEW j \in 1 .. 6, i >= j, Stages[j] = "bound"
        PROVE  i = 6
    <3>1. j = 1 \/ j = 2 \/ j = 3 \/ j = 4 \/ j = 5 \/ j = 6
      OBVIOUS
    <3>2. j = 6
      BY <3>1, <2>1, <1>2
    <3> QED
      BY <2>1, <3>2
  <2> QED
    BY <1>1, <1>2, <2>1 DEF Reached
<1>4. stage = "bound" => Reached("bound")
  BY <1>1, <1>2 DEF Reached
<1>5. stage = "bound" => Reached("wired")
  BY <1>1, <1>2 DEF Reached
<1>6. stage = "bound" => Reached("sourced")
  BY <1>1, <1>2 DEF Reached
<1> QED
  BY <1>3, <1>4, <1>5, <1>6

LEMMA KindFits ==
  ASSUME StateShape
  PROVE  WellFormed(kind)
BY KindsFit, ScenesAssumption DEF StateShape

LEMMA CopyCarries ==
  ASSUME NEW f, DOMAIN f \subseteq Properties, \A p \in DOMAIN f : Fits(kind, p, f[p])
  PROVE  Carries(HostCopy(f)) /\ DOMAIN HostCopy(f) = DOMAIN f
BY EncodeFits DEF Carries, HostCopy

LEMMA StateStart ==
  ASSUME Init
  PROVE  StateIInv
<1> USE DEF Init
<1>1. WellFormed(kind)
  BY KindsFit, ScenesAssumption
<1>2. \A p \in Properties : Fits(kind, p, kind.init[p])
  BY <1>1 DEF WellFormed, Partial, Properties
<1>3. Carries(host) /\ DOMAIN host = Properties
  BY <1>2, CopyCarries DEF Properties
<1>4. IsList(events)
  <2>1. <<>> \in Seq({})
    OBVIOUS
  <2> QED
    BY <2>1, ListOf
<1>5. ByFacet(reported) /\ ByFacet(hostReport)
  BY DEF ByFacet
<1>6. StateShape
  BY <1>2, <1>3, <1>4, <1>5 DEF StateShape, Properties
<1>7. Untouched
  BY DEF Untouched
<1>8. ReportsSettle
  BY DEF ReportsSettle, Idle
<1> QED
  BY <1>6, <1>7, <1>8 DEF StateIInv

LEMMA SnapshotStep ==
  ASSUME StateIInv, TakeSnapshot
  PROVE  StateIInv'
<1> USE DEF TakeSnapshot, which, counters, lost
<1>1. StateShape'
  <2>1. Carries(HostCopy(properties)) /\ DOMAIN HostCopy(properties) = Properties
    BY CopyCarries DEF StateIInv, StateShape
  <2>2. Carries(HostCopy(properties))'
    BY <2>1 DEF Carries, Properties, HostCopy
  <2>3. Carries(host)'
    BY DEF StateIInv, StateShape, Carries, Properties
  <2>4. \A t \in Threads : thread'[t] = Idle \/ Updating(t)' \/ Reporting(t)'
    BY DEF StateIInv, StateShape, Updating, Reporting, Carries, Properties
  <2>5. Carries(snapshot.properties)' /\ DOMAIN snapshot'.properties = Properties /\ ByFacet(snapshot.reported)'
    BY <2>1, <2>2 DEF StateIInv, StateShape, ByFacet, HostCopy
  <2> QED
    BY <2>3, <2>4, <2>5 DEF StateIInv, StateShape, ByFacet, Properties
<1>2. ASSUME ~scene.early PROVE Untouched'
  BY <1>2 DEF StateIInv, Untouched, HostCopy
<1>3. ASSUME ~scene.early, ~crossed PROVE ReportsSettle'
  BY <1>3 DEF StateIInv, ReportsSettle
<1> QED
  BY <1>1, <1>2, <1>3 DEF StateIInv

LEMMA RegisterStep ==
  ASSUME StateIInv, RegisterSensor
  PROVE  StateIInv'
<1> USE DEF RegisterSensor, which, counters, lost
<1>1. StateShape'
  <2>1. Carries(host)' /\ DOMAIN host' = Properties
    BY DEF StateIInv, StateShape, Carries, Properties
  <2>2. \A t \in Threads : thread'[t] = Idle \/ Updating(t)' \/ Reporting(t)'
    BY DEF StateIInv, StateShape, Updating, Reporting, Carries, Properties
  <2> QED
    BY <2>1, <2>2 DEF StateIInv, StateShape, ByFacet, Properties
<1>2. ASSUME ~scene.early PROVE Untouched'
  BY <1>2 DEF StateIInv, Untouched, HostCopy
<1>3. ASSUME ~scene.early, ~crossed PROVE ReportsSettle'
  <2>1. \A t \in Threads : thread'[t].pc # "report"
    BY <1>3 DEF StateIInv, Untouched, Idle
  <2>2. hostReport' = reported'
    BY <1>3 DEF StateIInv, Untouched
  <2> QED
    BY <2>1, <2>2 DEF ReportsSettle
<1> QED
  BY <1>1, <1>2, <1>3 DEF StateIInv

LEMMA WireStep ==
  ASSUME StateIInv, Wire
  PROVE  StateIInv'
<1> USE DEF Wire, which, counters, lost
<1>1. StateShape'
  <2>1. Carries(host)'
    BY DEF StateIInv, StateShape, Carries, Properties
  <2>2. \A t \in Threads : thread'[t] = Idle \/ Updating(t)' \/ Reporting(t)'
    BY DEF StateIInv, StateShape, Updating, Reporting, Carries, Properties
  <2>3. heard' => stage' = "bound"
    BY DEF StateIInv, StateShape
  <2>4. stage' \in {"wired", "sourced", "bound"}
    OBVIOUS
  <2>5. /\ scene' \in Scenes /\ kind' \in scene'.kinds
        /\ DOMAIN properties' = Properties' /\ \A p \in Properties' : Fits(kind', p, properties'[p])
        /\ DOMAIN host' = Properties' /\ IsList(events')
        /\ \A i \in DOMAIN events' :
              events'[i].property \in Properties' /\ FitsWire(kind', events'[i].property, events'[i].value)
        /\ DOMAIN thread' = Threads /\ ByFacet(reported)' /\ ByFacet(hostReport)'
    BY DEF StateIInv, StateShape, ByFacet, Properties
  <2> HIDE DEF Wire
  <2> QED
    BY <2>1, <2>2, <2>3, <2>4, <2>5 DEF StateShape
<1>2. ASSUME ~scene.early PROVE Untouched'
  BY <1>2 DEF StateIInv, Untouched, HostCopy
<1>3. ASSUME ~scene.early, NEW p \in Properties PROVE Settling(p)'
  <2>1. host'[p] = Encode(properties'[p]) /\ events' = <<>>
    BY <1>2, <1>3 DEF Untouched, HostCopy, Properties
  <2> QED
    BY <2>1 DEF Settling, Agrees
<1>4. ASSUME ~scene.early, ~crossed PROVE ReportsSettle'
  BY <1>4 DEF StateIInv, ReportsSettle
<1> QED
  BY <1>1, <1>2, <1>3, <1>4 DEF StateIInv, Properties

\* What a write stores and what is left to tell the host.
LEMMA WriteEffect ==
  ASSUME NEW t \in Threads, NEW partial, Partial(kind, partial), writeState(t, partial), StateShape
  PROVE  \E delta :
           /\ DOMAIN delta \subseteq Properties /\ \A p \in DOMAIN delta : Fits(kind, p, delta[p])
           /\ properties' = [p \in Properties |-> IF p \in DOMAIN delta THEN delta[p] ELSE properties[p]]
           /\ \/ thread' = thread /\ (DOMAIN delta = {} \/ ~Reached("wired"))
              \/ thread' = [thread EXCEPT ![t] = [pc |-> "update", delta |-> HostCopy(delta)]]
           /\ lostWrites' = lostWrites \ DOMAIN delta
<1> DEFINE delta == Delta(partial)
<1>1. DOMAIN delta \subseteq DOMAIN partial /\ \A p \in DOMAIN delta : delta[p] = partial[p]
  BY DEF Delta
<1>2. DOMAIN delta \subseteq Properties /\ \A p \in DOMAIN delta : Fits(kind, p, delta[p])
  BY <1>1 DEF Partial, Properties
<1>3. /\ properties' = [p \in Properties |-> IF p \in DOMAIN delta THEN delta[p] ELSE properties[p]]
      /\ thread' = IF delta = <<>> \/ ~Reached("wired") THEN thread
                   ELSE [thread EXCEPT ![t] = [pc |-> "update", delta |-> HostCopy(delta)]]
      /\ lostWrites' = lostWrites \ DOMAIN delta
  BY DEF writeState
<1> HIDE DEF delta
<1>4. delta = <<>> => DOMAIN delta = {}
  OBVIOUS
<1> QED
  BY <1>2, <1>3, <1>4

LEMMA WriteStep ==
  ASSUME StateIInv, NEW t \in Threads, NEW partial, Partial(kind, partial), writeState(t, partial),
         thread[t] = Idle, scene.early \/ Reached("bound"),
         UNCHANGED <<which, reported, binding, host, hostReport, events, crossed, lostReports>>
  PROVE  StateIInv'
<1> USE DEF which, binding
<1>1. StateShape
  BY DEF StateIInv
<1>2. PICK delta :
           /\ DOMAIN delta \subseteq Properties /\ \A p \in DOMAIN delta : Fits(kind, p, delta[p])
           /\ properties' = [p \in Properties |-> IF p \in DOMAIN delta THEN delta[p] ELSE properties[p]]
           /\ \/ thread' = thread /\ (DOMAIN delta = {} \/ ~Reached("wired"))
              \/ thread' = [thread EXCEPT ![t] = [pc |-> "update", delta |-> HostCopy(delta)]]
           /\ lostWrites' = lostWrites \ DOMAIN delta
  BY <1>1, WriteEffect
<1>3. Carries(HostCopy(delta)) /\ Carries(HostCopy(delta))'
  BY <1>2, CopyCarries DEF Carries, Properties, HostCopy
<1>4. ASSUME NEW u \in Threads
      PROVE  /\ thread'[u] = thread[u] \/ (u = t /\ thread'[u] = [pc |-> "update", delta |-> HostCopy(delta)])
             /\ u # t => thread'[u] = thread[u]
  BY <1>1, <1>2 DEF StateShape
<1>5. StateShape'
  <2>1. Carries(host)' /\ DOMAIN thread' = Threads
    BY <1>1, <1>2 DEF StateShape, Carries, Properties
  <2>2. ASSUME NEW u \in Threads
        PROVE  thread'[u] = Idle \/ Updating(u)' \/ Reporting(u)'
    <3>1. CASE thread'[u] = thread[u]
      BY <1>1, <3>1 DEF StateShape, Updating, Reporting, Carries, Properties
    <3>2. CASE thread'[u] = [pc |-> "update", delta |-> HostCopy(delta)]
      BY <1>3, <3>2 DEF Updating
    <3> QED
      BY <1>4, <3>1, <3>2
  <2>3. DOMAIN properties' = Properties /\ \A p \in Properties : Fits(kind, p, properties'[p])
    BY <1>1, <1>2 DEF StateShape
  <2>4. (stage = "snapshot" => Carries(snapshot.properties))'
    BY <1>1 DEF StateShape, Carries, Properties
  <2> QED
    BY <1>1, <2>1, <2>2, <2>3, <2>4 DEF StateShape, Properties, ByFacet
<1>6. ~scene.early => stage = "bound" /\ Reached("wired")
  BY <1>1, ReachedFacts
<1>7. ASSUME ~scene.early, NEW p \in Properties, Settling(p)
      PROVE  Settling(p)'
  <2>1. CASE NewestEvent(p)
    BY <2>1 DEF NewestEvent, Settling
  <2>2. CASE p \in DOMAIN delta /\ ~NewestEvent(p)
    <3>1. thread' = [thread EXCEPT ![t] = [pc |-> "update", delta |-> HostCopy(delta)]]
      BY <1>2, <1>6, <1>7, <2>2
    <3>2. /\ thread'[t].pc = "update" /\ thread'[t].delta = HostCopy(delta)
      BY <1>1, <3>1 DEF StateShape
    <3>3. p \in DOMAIN HostCopy(delta) /\ HostCopy(delta)[p] = Encode(properties'[p])
      BY <1>2, <2>2 DEF HostCopy
    <3>4. Sends(t, p)'
      BY <3>2, <3>3 DEF Sends
    <3> QED
      BY <2>2, <3>4, <1>7 DEF Settling
  <2>3. CASE p \notin DOMAIN delta /\ ~NewestEvent(p)
    <3>1. /\ properties'[p] = properties[p] /\ (p \in lostWrites => p \in lostWrites')
          /\ Agrees(p) => Agrees(p)'
      BY <1>2, <2>3 DEF Agrees, Widths
    <3>2. ASSUME NEW u \in Threads, Sends(u, p) PROVE Sends(u, p)'
      <4>1. u # t
        BY <3>2 DEF Sends, Idle
      <4> QED
        BY <3>1, <3>2, <4>1, <1>4 DEF Sends
    <3> QED
      BY <2>3, <3>1, <3>2, <1>7 DEF Settling
  <2> QED
    BY <2>1, <2>2, <2>3
<1>8. ASSUME ~scene.early, ~crossed PROVE ReportsSettle'
  <2>1. \A u \in Threads : thread'[u].pc = "report" => thread'[u] = thread[u]
    BY <1>4
  <2>2. \A u \in Threads : thread[u].pc = "report" => thread'[u] = thread[u]
    BY <1>4 DEF Idle
  <2> QED
    BY <2>1, <2>2, <1>8 DEF StateIInv, ReportsSettle
<1> QED
  BY <1>5, <1>6, <1>7, <1>8 DEF StateIInv, Properties

LEMMA SetStep ==
  ASSUME StateIInv, NEW t \in Threads, Set(t) \/ UpdateByConsumer(t)
  PROVE  StateIInv'
<1>1. WellFormed(kind) /\ Widths \subseteq DecodedTypes
  BY KindFits, ScenesAssumption DEF StateIInv, StateShape, Widths
<1>2. PICK partial : Partial(kind, partial) /\ writeState(t, partial)
  <2>1. CASE Set(t)
    BY <2>1, <1>1 DEF Set, WellFormed
  <2>2. CASE UpdateByConsumer(t)
    <3>1. PICK p \in DOMAIN kind.route, e \in Inputs, w \in Widths :
             writeState(t, UpdateValue(kind, p, Decode(e, w)))
      BY <2>2 DEF UpdateByConsumer
    <3>3. IsWire(e)
      BY ScenesAssumption DEF StateIInv, StateShape, Inputs
    <3>2. Partial(kind, UpdateValue(kind, p, Decode(e, w)))
      BY <1>1, <3>3, UpdateFits
    <3> QED
      BY <3>1, <3>2
  <2> QED
    BY <2>1, <2>2
<1>3. /\ thread[t] = Idle /\ (scene.early \/ Reached("bound"))
      /\ UNCHANGED <<which, reported, binding, host, hostReport, events, crossed, lostReports>>
  BY DEF Set, UpdateByConsumer, MayWrite
<1> QED
  BY <1>2, <1>3, WriteStep

\* What the registry does with a value.
LEMMA StoreEffect ==
  ASSUME StateShape, NEW p \in Properties, NEW e, FitsWire(kind, p, e), Store(p, e), which' = which
  PROVE  /\ Carries(host)' /\ DOMAIN host' = Properties /\ host'[p] = e
         /\ \A q \in Properties : q # p => host'[q] = host[q]
         /\ IsList(events')
         /\ \A i \in DOMAIN events' : /\ events'[i].property \in Properties
                                      /\ FitsWire(kind, events'[i].property, events'[i].value)
         /\ heard => \A q \in Properties : NewestEvent(q) => NewestEvent(q)'
         /\ \A q \in Properties : q # p =>
              ((\A i \in DOMAIN events : events[i].property # q) => \A i \in DOMAIN events' : events'[i].property # q)
         /\ heard => NewestEvent(p)' \/ (events' = events /\ host[p] = e)
         /\ \A q \in Properties : q # p \/ ~NewestEvent(p)' => (q \in lostWrites => q \in lostWrites')
<1> USE DEF which
<1> DEFINE m == [property |-> p, value |-> e]
<1>1. host' = [host EXCEPT ![p] = e] /\ DOMAIN host = Properties /\ Carries(host)
  BY DEF Store, StateShape
<1>2. DOMAIN host' = Properties /\ host'[p] = e /\ \A q \in Properties : q # p => host'[q] = host[q]
  BY <1>1
<1>3. Carries(host)'
  BY <1>1, <1>2 DEF Carries, Properties
<1>4. DOMAIN events = 1 .. Len(events) /\ Len(events) \in Nat /\ IsList(events)
  BY ListFacts DEF StateShape
<1>5. CASE events' = events /\ lostWrites' = lostWrites /\ (host[p] # e => ~heard)
  <2>1. heard => host[p] = e
    BY <1>5
  <2>2. ASSUME NEW q \in Properties, NewestEvent(q), heard PROVE NewestEvent(q)'
    BY <2>1, <2>2, <1>2, <1>5 DEF NewestEvent
  <2> QED
    BY <1>2, <1>3, <1>5, <2>1, <2>2 DEF StateShape
<1>6. CASE events' = Append(events, m) /\ lostWrites' = lostWrites \ {p} /\ host[p] # e
  <2>1. /\ IsList(events') /\ DOMAIN events' = 1 .. (Len(events) + 1)
        /\ events'[Len(events) + 1] = m
        /\ \A i \in 1 .. Len(events) : events'[i] = events[i]
    BY <1>4, <1>6, ListAppend
  <2>2. ASSUME NEW i \in DOMAIN events'
        PROVE  (i \in DOMAIN events /\ events'[i] = events[i]) \/ (i = Len(events) + 1 /\ events'[i] = m)
    BY <1>4, <2>1
  <2>3. m.property = p /\ m.value = e
    OBVIOUS
  <2> HIDE DEF m
  <2>4. NewestEvent(p)'
    <3>1. Len(events) + 1 \in DOMAIN events' /\ \A j \in DOMAIN events' : ~(j > Len(events) + 1)
      BY <1>4, <2>1
    <3> QED
      BY <3>1, <2>1, <2>3, <1>2 DEF NewestEvent
  <2>5. ASSUME NEW q \in Properties, q # p, NewestEvent(q) PROVE NewestEvent(q)'
    <3>1. PICK i \in DOMAIN events : /\ events[i].property = q /\ events[i].value = host[q]
                                     /\ \A j \in DOMAIN events : j > i => events[j].property # q
      BY <2>5 DEF NewestEvent
    <3>2. i \in DOMAIN events' /\ events'[i] = events[i]
      BY <1>4, <2>1
    <3>3. \A j \in DOMAIN events' : j > i => events'[j].property # q
      BY <2>2, <2>3, <2>5, <3>1
    <3> QED
      BY <3>1, <3>2, <3>3, <1>2, <2>5 DEF NewestEvent
  <2>6. \A i \in DOMAIN events' : /\ events'[i].property \in Properties
                                  /\ FitsWire(kind, events'[i].property, events'[i].value)
    BY <2>2, <2>3 DEF StateShape
  <2>7. \A q \in Properties : q # p =>
           ((\A i \in DOMAIN events : events[i].property # q) => \A i \in DOMAIN events' : events'[i].property # q)
    BY <2>2, <2>3
  <2> QED
    BY <1>2, <1>3, <1>6, <2>1, <2>4, <2>5, <2>6, <2>7
<1> QED
  BY <1>5, <1>6 DEF Store

\* Settling survives when the registry stores a value that a goroutine sent or the
\* host made up.
LEMMA StoreSettles ==
  ASSUME StateShape, heard, NEW p \in Properties, NEW e, FitsWire(kind, p, e), Store(p, e),
         which' = which, properties' = properties, NEW q \in Properties, Settling(q),
         \A t \in Threads : Sends(t, q) => Sends(t, q)' \/ (q = p /\ e = Encode(properties[p]))
  PROVE  Settling(q)'
<1>1. /\ \A x \in Properties : x # p => host'[x] = host[x]
      /\ host'[p] = e
      /\ NewestEvent(q) => NewestEvent(q)'
      /\ q # p => ((\A i \in DOMAIN events : events[i].property # q) => \A i \in DOMAIN events' : events'[i].property # q)
      /\ NewestEvent(p)' \/ (events' = events /\ host[p] = e)
      /\ \A x \in Properties : x # p \/ ~NewestEvent(p)' => (x \in lostWrites => x \in lostWrites')
  BY StoreEffect
<1>2. CASE NewestEvent(q) \/ NewestEvent(q)'
  BY <1>1, <1>2 DEF Settling
<1>3. CASE ~NewestEvent(q) /\ ~(NewestEvent(q)')
  <2>1. /\ \A i \in DOMAIN events : events[i].property # q
        /\ q \in lostWrites \/ Agrees(q) \/ \E t \in Threads : Sends(t, q)
    BY <1>3 DEF Settling
  <2>2. \A i \in DOMAIN events' : events'[i].property # q
    BY <1>1, <1>3, <2>1
  <2>3. host'[q] = host[q]
    BY <1>1, <1>3
  <2>4. q = p => host[q] = e
    BY <1>1, <1>3
  <2>6. Agrees(q) => Agrees(q)'
    BY <2>3 DEF Agrees, Widths, which
  <2>7. q = p /\ e = Encode(properties[p]) => Agrees(q)'
    BY <2>3, <2>4 DEF Agrees
  <2>8. q \in lostWrites => q \in lostWrites'
    BY <1>1, <1>3
  <2>5. q \in lostWrites' \/ Agrees(q)' \/ \E t \in Threads : Sends(t, q)'
    BY <2>1, <2>6, <2>7, <2>8
  <2> QED
    BY <2>2, <2>5 DEF Settling
<1> QED
  BY <1>2, <1>3

LEMMA HostWriteStep ==
  ASSUME StateIInv, WriteByHost
  PROVE  StateIInv'
<1> USE DEF which, counters, lost
<1>1. StateShape /\ WellFormed(kind)
  BY KindFits DEF StateIInv
<1>2. PICK p \in Properties, e \in Inputs : e[1] = Encode(kind.init[p])[1] /\ Store(p, e)
  BY DEF WriteByHost
<1>3. FitsWire(kind, p, e)
  <2>1. FitsWire(kind, p, Encode(kind.init[p]))
    BY <1>1, EncodeFits DEF WellFormed, Partial, Properties
  <2>2. IsWire(e)
    BY <1>1, <1>2, ScenesAssumption DEF StateShape, Inputs
  <2>3. e # Nil => Encode(kind.init[p]) # Nil
    BY <1>2, <2>2 DEF IsWire, Nil
  <2> QED
    BY <1>2, <2>1, <2>2, <2>3 DEF FitsWire
<1>4. /\ UNCHANGED <<which, properties, reported, stage, snapshot, heard, thread, hostReport, crossed, lostReports>>
      /\ scene.early \/ Reached("bound")
  BY DEF WriteByHost, binding
<1>5. StateShape'
  <2>1. /\ Carries(host)' /\ DOMAIN host' = Properties /\ IsList(events')
        /\ \A i \in DOMAIN events' : /\ events'[i].property \in Properties
                                     /\ FitsWire(kind, events'[i].property, events'[i].value)
    BY <1>1, <1>2, <1>3, <1>4, StoreEffect
  <2>2. \A t \in Threads : thread'[t] = Idle \/ Updating(t)' \/ Reporting(t)'
    BY <1>1, <1>4 DEF StateShape, Updating, Reporting, Carries, Properties
  <2>3. (stage = "snapshot" => Carries(snapshot.properties))'
    BY <1>1, <1>4 DEF StateShape, Carries, Properties
  <2> QED
    BY <1>1, <1>4, <2>1, <2>2, <2>3 DEF StateShape, Properties, ByFacet
<1>6. ~scene.early => stage = "bound"
  BY <1>1, <1>4, ReachedFacts
<1>7. ASSUME ~scene.early, heard, NEW q \in Properties, Settling(q) PROVE Settling(q)'
  <2>1. \A t \in Threads : Sends(t, q) => Sends(t, q)'
    BY <1>4 DEF Sends
  <2> QED
    BY <1>1, <1>2, <1>3, <1>4, <1>6, <1>7, <2>1, StoreSettles
<1>8. ASSUME ~scene.early, ~crossed PROVE ReportsSettle'
  BY <1>4, <1>8 DEF StateIInv, ReportsSettle
<1> QED
  BY <1>4, <1>5, <1>6, <1>7, <1>8 DEF StateIInv, Properties

LEMMA UpdateHostStep ==
  ASSUME StateIInv, NEW t \in Threads, UpdateHost(t)
  PROVE  StateIInv'
<1> USE DEF which, counters, lost
<1>1. StateShape
  BY DEF StateIInv
<1>2. /\ thread[t].pc = "update" /\ thread[t] = [pc |-> "update", delta |-> thread[t].delta]
      /\ Carries(thread[t].delta)
  BY <1>1 DEF UpdateHost, StateShape, Updating, Reporting, Idle
<1>3. PICK p \in DOMAIN thread[t].delta :
        LET rest == [q \in DOMAIN thread[t].delta \ {p} |-> thread[t].delta[q]]
        IN  /\ Store(p, thread[t].delta[p])
            /\ thread' = [thread EXCEPT ![t] = IF rest = <<>> THEN Idle ELSE [@ EXCEPT !.delta = rest]]
  BY DEF UpdateHost
<1> DEFINE e == thread[t].delta[p]
<1>14. PICK rest : rest = [q \in DOMAIN thread[t].delta \ {p} |-> thread[t].delta[q]]
  OBVIOUS
<1>4. p \in Properties /\ FitsWire(kind, p, e) /\ Store(p, e)
  BY <1>2, <1>3 DEF Carries
<1>5. UNCHANGED <<which, properties, reported, stage, snapshot, heard, hostReport, crossed, lostReports>>
  BY DEF UpdateHost, binding
<1>6. thread' = [thread EXCEPT ![t] = IF rest = <<>> THEN Idle ELSE [@ EXCEPT !.delta = rest]]
  BY <1>3, <1>14
<1>7. Carries(rest) /\ Carries(rest)'
  BY <1>2, <1>5, <1>14 DEF Carries, Properties
<1>8. DOMAIN rest = DOMAIN thread[t].delta \ {p} /\ \A q \in DOMAIN rest : rest[q] = thread[t].delta[q]
  BY <1>14
<1>9. /\ DOMAIN thread' = Threads
      /\ \A u \in Threads : u # t => thread'[u] = thread[u]
      /\ thread'[t] = Idle \/ thread'[t] = [pc |-> "update", delta |-> rest]
      /\ rest # <<>> => thread'[t] = [pc |-> "update", delta |-> rest]
  BY <1>1, <1>2, <1>6 DEF StateShape
<1> HIDE DEF e
<1>10. StateShape'
  <2>1. /\ Carries(host)' /\ DOMAIN host' = Properties /\ IsList(events')
        /\ \A i \in DOMAIN events' : /\ events'[i].property \in Properties
                                     /\ FitsWire(kind, events'[i].property, events'[i].value)
    BY <1>1, <1>4, <1>5, StoreEffect
  <2>2. ASSUME NEW u \in Threads PROVE thread'[u] = Idle \/ Updating(u)' \/ Reporting(u)'
    <3>1. CASE u = t
      BY <1>7, <1>9, <3>1 DEF Updating
    <3>2. CASE u # t
      BY <1>1, <1>5, <1>9, <3>2 DEF StateShape, Updating, Reporting, Carries, Properties
    <3> QED
      BY <3>1, <3>2
  <2>3. (stage = "snapshot" => Carries(snapshot.properties))'
    BY <1>1, <1>5 DEF StateShape, Carries, Properties
  <2> QED
    BY <1>1, <1>5, <1>9, <2>1, <2>2, <2>3 DEF StateShape, Properties, ByFacet
<1>11. ~scene.early => stage = "bound"
  <2>1. thread[t] # Idle
    BY <1>2 DEF Idle
  <2> QED
    BY <2>1 DEF StateIInv, Untouched
<1>12. ASSUME ~scene.early, heard, NEW q \in Properties, Settling(q) PROVE Settling(q)'
  <2>1. ASSUME NEW u \in Threads, Sends(u, q)
        PROVE  Sends(u, q)' \/ (q = p /\ e = Encode(properties[p]))
    <3>1. CASE u # t
      BY <1>5, <1>9, <2>1, <3>1 DEF Sends
    <3>2. CASE u = t /\ q = p
      BY <2>1, <3>2 DEF Sends, e
    <3>3. CASE u = t /\ q # p
      <4>1. q \in DOMAIN rest /\ rest[q] = thread[t].delta[q]
        BY <2>1, <3>3, <1>8 DEF Sends
      <4>2. rest # <<>>
        BY <4>1
      <4> QED
        BY <2>1, <3>3, <4>1, <4>2, <1>5, <1>9 DEF Sends
    <3> QED
      BY <3>1, <3>2, <3>3
  <2> QED
    BY <1>1, <1>4, <1>5, <1>11, <1>12, <2>1, StoreSettles
<1>13. ASSUME ~scene.early, ~crossed PROVE ReportsSettle'
  <2>1. \A u \in Threads : (thread'[u].pc = "report" => thread'[u] = thread[u])
                           /\ (thread[u].pc = "report" => thread'[u] = thread[u])
    BY <1>2, <1>9 DEF Idle
  <2> QED
    BY <2>1, <1>5, <1>13 DEF StateIInv, ReportsSettle
<1> QED
  BY <1>5, <1>10, <1>11, <1>12, <1>13 DEF StateIInv, Properties

LEMMA TakeEventStep ==
  ASSUME StateIInv, TakeEvent
  PROVE  StateIInv'
<1> USE DEF which, counters, lost
<1>1. StateShape /\ WellFormed(kind)
  BY KindFits DEF StateIInv
<1>2. /\ events # <<>> /\ events' = Tail(events)
      /\ UNCHANGED <<which, reported, stage, snapshot, heard, thread, host, hostReport, crossed, lostWrites, lostReports>>
  BY DEF TakeEvent, binding
<1>3. /\ IsList(events') /\ DOMAIN events' = 1 .. (Len(events) - 1) /\ Len(events) \in Nat \ {0}
      /\ Head(events) = events[1]
      /\ \A i \in DOMAIN events' : events'[i] = events[i + 1]
      /\ DOMAIN events = 1 .. Len(events)
  BY <1>1, <1>2, ListTail, ListFacts DEF StateShape
<1> DEFINE p == events[1].property
           e == events[1].value
<1>4. p \in Properties /\ FitsWire(kind, p, e)
  BY <1>1, <1>3 DEF StateShape
<1>5. PICK value : /\ Fits(kind, p, value)
                   /\ \E w \in Widths : value = coercePropertyValue(kind.type, p, Decode(e, w))
                   /\ properties' = IF isEqual(properties[p], value, FALSE) THEN properties
                                    ELSE [properties EXCEPT ![p] = value]
  <2>1. PICK w \in Widths :
          LET x == coercePropertyValue(kind.type, p, Decode(e, w))
          IN  properties' = IF isEqual(properties[p], x, FALSE) THEN properties
                            ELSE [properties EXCEPT ![p] = x]
    BY <1>3 DEF TakeEvent
  <2>2. w \in DecodedTypes /\ IsWire(e)
    BY <1>1, <1>4, ScenesAssumption DEF StateShape, Widths, FitsWire
  <2> DEFINE x == coercePropertyValue(kind.type, p, Decode(e, w))
  <2>3. Fits(kind, p, x)
    BY <1>1, <1>4, <2>2, TakenFits
  <2> QED
    BY <2>1, <2>3
<1> HIDE DEF p, e
<1>6. /\ DOMAIN properties' = Properties /\ \A q \in Properties : Fits(kind, q, properties'[q])
      /\ \A q \in Properties : q # p => properties'[q] = properties[q]
      /\ Encode(properties'[p]) = Encode(value)
  <2>1. CASE isEqual(properties[p], value, FALSE)
    BY <1>1, <1>5, <2>1, EqualEncode DEF StateShape
  <2>2. CASE ~isEqual(properties[p], value, FALSE)
    BY <1>1, <1>4, <1>5, <2>2 DEF StateShape
  <2> QED
    BY <2>1, <2>2
<1>7. StateShape'
  <2>1. Carries(host)'
    BY <1>1, <1>2 DEF StateShape, Carries, Properties
  <2>2. \A u \in Threads : thread'[u] = Idle \/ Updating(u)' \/ Reporting(u)'
    BY <1>1, <1>2 DEF StateShape, Updating, Reporting, Carries, Properties
  <2>3. (stage = "snapshot" => Carries(snapshot.properties))'
    BY <1>1, <1>2 DEF StateShape, Carries, Properties
  <2>4. \A i \in DOMAIN events' : /\ events'[i].property \in Properties
                                  /\ FitsWire(kind, events'[i].property, events'[i].value)
    <3>1. \A i \in DOMAIN events' : i + 1 \in DOMAIN events
      BY <1>3
    <3> QED
      BY <3>1, <1>1, <1>3 DEF StateShape
  <2> QED
    BY <1>1, <1>2, <1>3, <1>6, <2>1, <2>2, <2>3, <2>4 DEF StateShape, Properties, ByFacet
<1>8. ~scene.early => stage = "bound"
  BY <1>2 DEF StateIInv, Untouched
<1>9. ASSUME NEW q \in Properties, Settling(q) PROVE Settling(q)'
  <2>1. CASE NewestEvent(q)
    <3>1. PICK i \in DOMAIN events : /\ events[i].property = q /\ events[i].value = host[q]
                                     /\ \A j \in DOMAIN events : j > i => events[j].property # q
      BY <2>1 DEF NewestEvent
    <3>2. CASE i = 1
      <4>1. q = p /\ e = host'[q]
        BY <3>1, <3>2, <1>2 DEF p, e
      <4>2. \A j \in DOMAIN events' : j + 1 \in DOMAIN events /\ j + 1 > 1
        BY <1>3
      <4>3. \A j \in DOMAIN events' : events'[j].property # q
        BY <4>2, <3>1, <3>2, <1>3
      <4>4. \E w \in Widths' : Encode(properties'[q]) = Encode(coercePropertyValue(kind'.type, q, Decode(host'[q], w)))
        BY <4>1, <1>2, <1>5, <1>6 DEF Widths
      <4>5. Agrees(q)'
        BY <4>4 DEF Agrees
      <4> QED
        BY <4>3, <4>5 DEF Settling
    <3>3. CASE i # 1
      <4>1. i - 1 \in DOMAIN events' /\ events'[i - 1] = events[i]
        BY <3>3, <1>3
      <4>2. ASSUME NEW j \in DOMAIN events', j > i - 1 PROVE events'[j].property # q
        <5>1. j + 1 \in DOMAIN events /\ j + 1 > i
          BY <4>2, <1>3
        <5> QED
          BY <5>1, <3>1, <1>3
      <4> QED
        BY <4>1, <4>2, <3>1, <1>2 DEF Settling, NewestEvent
    <3> QED
      BY <3>2, <3>3
  <2>2. CASE ~NewestEvent(q)
    <3>1. /\ \A i \in DOMAIN events : events[i].property # q
          /\ q \in lostWrites \/ Agrees(q) \/ \E t \in Threads : Sends(t, q)
      BY <2>2, <1>9 DEF Settling
    <3>2. 1 \in DOMAIN events /\ \A i \in DOMAIN events' : i + 1 \in DOMAIN events
      BY <1>3
    <3>3. q # p /\ \A i \in DOMAIN events' : events'[i].property # q
      BY <3>1, <3>2, <1>3 DEF p
    <3>4. properties'[q] = properties[q] /\ (Agrees(q) => Agrees(q)')
      BY <3>3, <1>2, <1>6 DEF Agrees, Widths
    <3>5. \A t \in Threads : Sends(t, q) => Sends(t, q)'
      BY <3>4, <1>2 DEF Sends
    <3> QED
      BY <3>1, <3>3, <3>4, <3>5, <1>2 DEF Settling
  <2> QED
    BY <2>1, <2>2
<1>10. ASSUME ~scene.early, ~crossed PROVE ReportsSettle'
  BY <1>2, <1>10 DEF StateIInv, ReportsSettle
<1> QED
  BY <1>2, <1>7, <1>8, <1>9, <1>10 DEF StateIInv, Properties

LEMMA ReportStep ==
  ASSUME StateIInv, NEW t \in Threads, NEW f \in Facets, NEW v, Report(t, f, v)
  PROVE  StateIInv'
<1> USE DEF which, counters, lost
<1>1. StateShape
  BY DEF StateIInv
<1>2. /\ thread[t] = Idle /\ (scene.early \/ Reached("bound"))
      /\ reported' = [reported EXCEPT ![f] = v]
      /\ crossed' = (crossed \/ \E u \in Threads : thread[u].pc = "report")
      /\ \/ /\ reported[f] = v \/ ~Reached("sourced")
            /\ thread' = thread /\ lostReports' = lostReports
         \/ /\ thread' = [thread EXCEPT ![t] = [pc |-> "report", facet |-> f, value |-> v]]
            /\ lostReports' = lostReports \ {f}
      /\ UNCHANGED <<which, properties, stage, snapshot, heard, host, hostReport, events, lostWrites>>
  BY DEF Report, binding
<1>3. /\ DOMAIN reported = Facets /\ reported'[f] = v /\ \A g \in Facets : g # f => reported'[g] = reported[g]
      /\ ByFacet(reported)'
  BY <1>1, <1>2 DEF StateShape, ByFacet
<1>4. /\ DOMAIN thread' = Threads /\ \A u \in Threads : u # t => thread'[u] = thread[u]
      /\ thread'[t] = Idle \/ thread'[t] = [pc |-> "report", facet |-> f, value |-> v]
      /\ thread'[t] = Idle => (reported[f] = v \/ ~Reached("sourced"))
      /\ \A g \in Facets : g # f \/ thread'[t] = Idle => (g \in lostReports => g \in lostReports')
  BY <1>1, <1>2 DEF StateShape, Idle
<1>5. StateShape'
  <2>1. Carries(host)' /\ (stage = "snapshot" => Carries(snapshot.properties))'
    BY <1>1, <1>2 DEF StateShape, Carries, Properties
  <2>2. ASSUME NEW u \in Threads PROVE thread'[u] = Idle \/ Updating(u)' \/ Reporting(u)'
    <3>1. CASE u = t
      BY <1>4, <3>1 DEF Reporting
    <3>2. CASE u # t
      BY <1>1, <1>2, <1>4, <3>2 DEF StateShape, Updating, Reporting, Carries, Properties
    <3> QED
      BY <3>1, <3>2
  <2> QED
    BY <1>1, <1>2, <1>3, <1>4, <2>1, <2>2 DEF StateShape, Properties, ByFacet
<1>6. ~scene.early => stage = "bound" /\ Reached("sourced")
  BY <1>1, <1>2, ReachedFacts
<1>7. ASSUME ~scene.early, heard, NEW q \in Properties, Settling(q) PROVE Settling(q)'
  <2>1. ASSUME NEW u \in Threads, Sends(u, q) PROVE Sends(u, q)'
    <3>1. u # t
      BY <1>2, <2>1 DEF Sends, Idle
    <3> QED
      BY <3>1, <2>1, <1>2, <1>4 DEF Sends
  <2> QED
    BY <2>1, <1>2, <1>7 DEF Settling, NewestEvent, Agrees, Widths
<1>8. ASSUME ~scene.early, ~crossed' PROVE ReportsSettle'
  <2>1. /\ ~crossed /\ \A u \in Threads : thread[u].pc # "report"
    BY <1>2, <1>8
  <2>2. \A g \in Facets : hostReport[g] = reported[g] \/ g \in lostReports
    BY <2>1, <1>6, <1>8 DEF StateIInv, ReportsSettle
  <2>3. \A u \in Threads : thread'[u].pc = "report" =>
           u = t /\ thread'[t] = [pc |-> "report", facet |-> f, value |-> v]
    BY <2>1, <1>4 DEF Idle
  <2>4. \A g \in Facets : hostReport'[g] = reported'[g] \/ g \in lostReports'
                          \/ (g = f /\ thread'[t] = [pc |-> "report", facet |-> f, value |-> v])
    BY <2>2, <1>2, <1>3, <1>4, <1>6, <1>8
  <2>5. \A u \in Threads : thread'[u].pc = "report" => thread'[u].value = reported'[thread'[u].facet]
    BY <2>3, <1>3
  <2> QED
    BY <2>3, <2>4, <2>5 DEF ReportsSettle
<1> QED
  BY <1>2, <1>5, <1>6, <1>7, <1>8 DEF StateIInv, Properties

LEMMA ReportToHostStep ==
  ASSUME StateIInv, NEW t \in Threads, ReportToHost(t)
  PROVE  StateIInv'
<1> USE DEF which, counters, lost
<1>1. StateShape
  BY DEF StateIInv
<1>2. /\ thread[t].pc = "report"
      /\ hostReport' = [hostReport EXCEPT ![thread[t].facet] = thread[t].value]
      /\ thread' = [thread EXCEPT ![t] = Idle]
      /\ UNCHANGED <<which, properties, reported, stage, snapshot, heard, host, events, crossed, lostWrites, lostReports>>
  BY DEF ReportToHost, binding
<1>3. thread[t].facet \in Facets
  BY <1>1, <1>2 DEF StateShape, Updating, Reporting, Idle
<1>4. /\ DOMAIN thread' = Threads /\ thread'[t] = Idle /\ \A u \in Threads : u # t => thread'[u] = thread[u]
  BY <1>1, <1>2 DEF StateShape
<1>5. /\ ByFacet(hostReport)' /\ hostReport'[thread[t].facet] = thread[t].value
      /\ \A g \in Facets : g # thread[t].facet => hostReport'[g] = hostReport[g]
  BY <1>1, <1>2, <1>3 DEF StateShape, ByFacet
<1>6. StateShape'
  <2>1. Carries(host)' /\ (stage = "snapshot" => Carries(snapshot.properties))'
    BY <1>1, <1>2 DEF StateShape, Carries, Properties
  <2>2. ASSUME NEW u \in Threads PROVE thread'[u] = Idle \/ Updating(u)' \/ Reporting(u)'
    BY <1>1, <1>2, <1>4 DEF StateShape, Updating, Reporting, Carries, Properties
  <2> QED
    BY <1>1, <1>2, <1>4, <1>5, <2>1, <2>2 DEF StateShape, Properties, ByFacet
<1>7. ~scene.early => stage = "bound"
  BY <1>2 DEF StateIInv, Untouched, Idle
<1>8. ASSUME ~scene.early, heard, NEW q \in Properties, Settling(q) PROVE Settling(q)'
  <2>1. ASSUME NEW u \in Threads, Sends(u, q) PROVE Sends(u, q)'
    <3>1. u # t
      BY <1>2, <2>1 DEF Sends
    <3> QED
      BY <3>1, <2>1, <1>2, <1>4 DEF Sends
  <2> QED
    BY <2>1, <1>2, <1>8 DEF Settling, NewestEvent, Agrees, Widths
<1>9. ASSUME ~scene.early, ~crossed PROVE ReportsSettle'
  <2>1. /\ \A u \in Threads : thread[u].pc = "report" => u = t
        /\ thread[t].value = reported[thread[t].facet]
        /\ \A g \in Facets : hostReport[g] = reported[g] \/ g \in lostReports \/ thread[t].facet = g
    BY <1>2, <1>9 DEF StateIInv, ReportsSettle
  <2>2. \A u \in Threads : thread'[u].pc # "report"
    BY <2>1, <1>4 DEF Idle
  <2>3. \A g \in Facets : hostReport'[g] = reported'[g] \/ g \in lostReports'
    BY <2>1, <1>2, <1>5
  <2> QED
    BY <2>2, <2>3 DEF ReportsSettle
<1> QED
  BY <1>2, <1>6, <1>7, <1>8, <1>9 DEF StateIInv, Properties

\* A failed call takes along what it carried, and nothing else changes.
LEMMA FailStep ==
  ASSUME StateIInv, NEW t \in Threads, FailUpdate(t) \/ FailReport(t)
  PROVE  StateIInv'
<1> USE DEF which, counters, lost
<1>1. StateShape
  BY DEF StateIInv
<1>2. /\ thread[t].pc \in {"update", "report"} /\ thread' = [thread EXCEPT ![t] = Idle]
      /\ UNCHANGED <<which, properties, reported, stage, snapshot, heard, host, hostReport, events, crossed>>
      /\ lostWrites \subseteq lostWrites' /\ lostReports \subseteq lostReports'
      /\ thread[t].pc = "update" => lostWrites' = lostWrites \cup DOMAIN thread[t].delta
      /\ thread[t].pc = "report" => thread[t].facet \in lostReports'
  BY DEF FailUpdate, FailReport, binding
<1>3. /\ DOMAIN thread' = Threads /\ thread'[t] = Idle /\ \A u \in Threads : u # t => thread'[u] = thread[u]
  BY <1>1, <1>2 DEF StateShape
<1>4. StateShape'
  <2>1. Carries(host)' /\ (stage = "snapshot" => Carries(snapshot.properties))'
    BY <1>1, <1>2 DEF StateShape, Carries, Properties
  <2>2. ASSUME NEW u \in Threads PROVE thread'[u] = Idle \/ Updating(u)' \/ Reporting(u)'
    BY <1>1, <1>2, <1>3 DEF StateShape, Updating, Reporting, Carries, Properties
  <2> QED
    BY <1>1, <1>2, <1>3, <2>1, <2>2 DEF StateShape, Properties, ByFacet
<1>5. ~scene.early => stage = "bound"
  BY <1>2 DEF StateIInv, Untouched, Idle
<1>6. ASSUME ~scene.early, heard, NEW q \in Properties, Settling(q) PROVE Settling(q)'
  <2>1. ASSUME NEW u \in Threads, Sends(u, q) PROVE Sends(u, q)' \/ q \in lostWrites'
    <3>1. CASE u # t
      BY <3>1, <2>1, <1>2, <1>3 DEF Sends
    <3>2. CASE u = t
      BY <3>2, <2>1, <1>2 DEF Sends
    <3> QED
      BY <3>1, <3>2
  <2>2. Agrees(q) => Agrees(q)'
    BY <1>2 DEF Agrees, Widths
  <2>3. NewestEvent(q) => NewestEvent(q)'
    BY <1>2 DEF NewestEvent
  <2> QED
    BY <2>1, <2>2, <2>3, <1>2, <1>6 DEF Settling
<1>7. ASSUME ~scene.early, ~crossed PROVE ReportsSettle'
  <2>1. \A u \in Threads : thread'[u].pc = "report" => u # t /\ thread'[u] = thread[u]
    BY <1>3 DEF Idle
  <2>2. ASSUME NEW f \in Facets
        PROVE  \/ hostReport'[f] = reported'[f] \/ f \in lostReports'
               \/ \E u \in Threads : thread'[u].pc = "report" /\ thread'[u].facet = f
    <3>1. CASE hostReport[f] = reported[f] \/ f \in lostReports
      BY <3>1, <1>2
    <3>2. CASE \E u \in Threads : thread[u].pc = "report" /\ thread[u].facet = f
      BY <3>2, <1>2, <1>3
    <3> QED
      BY <3>1, <3>2, <1>7 DEF StateIInv, ReportsSettle
  <2> QED
    BY <2>1, <2>2, <1>2, <1>7 DEF StateIInv, ReportsSettle
<1> QED
  BY <1>2, <1>4, <1>5, <1>6, <1>7 DEF StateIInv, Properties

\* The inductive invariant of a sensor and the host's copy holds in every state.
THEOREM StateInductive == Spec => []StateIInv
<1>1. Init => StateIInv
  BY StateStart
<1>2. StateIInv /\ [Next]_vars => StateIInv'
  <2> SUFFICES ASSUME StateIInv, [Next]_vars PROVE StateIInv'
    OBVIOUS
  <2>1. scene.threads \subseteq Threads
    BY ScenesAssumption DEF StateIInv, StateShape
  <2>2. CASE TakeSnapshot \/ RegisterSensor \/ Wire
    BY <2>2, SnapshotStep, RegisterStep, WireStep
  <2>3. CASE \E t \in scene.threads : Set(t) \/ UpdateByConsumer(t)
    BY <2>1, <2>3, SetStep
  <2>4. CASE \E t \in Threads : UpdateHost(t) \/ ReportToHost(t)
    BY <2>4, UpdateHostStep, ReportToHostStep
  <2>8. CASE \E t \in Threads : FailUpdate(t) \/ FailReport(t)
    BY <2>8, FailStep
  <2>5. CASE \E t \in scene.threads, f \in Facets, v \in 1 .. 2 : Report(t, f, v)
    BY <2>1, <2>5, ReportStep
  <2>6. CASE WriteByHost \/ TakeEvent
    BY <2>6, HostWriteStep, TakeEventStep
  <2>7. CASE UNCHANGED vars
    <3>1. /\ scene' = scene /\ kind' = kind /\ properties' = properties /\ reported' = reported /\ stage' = stage
          /\ snapshot' = snapshot /\ thread' = thread /\ host' = host /\ hostReport' = hostReport
          /\ events' = events /\ crossed' = crossed /\ heard' = heard /\ lostWrites' = lostWrites
          /\ lostReports' = lostReports
      BY <2>7 DEF vars, which, binding, lost
    <3> QED
      BY <3>1 DEF StateIInv, StateShape, Untouched, ReportsSettle, Settling, NewestEvent, Sends, Updating,
                  Reporting, Carries, ByFacet, Properties, HostCopy, Agrees, Widths
  <2> QED
    BY <2>2, <2>3, <2>4, <2>5, <2>6, <2>7, <2>8 DEF Next
<1> QED
  BY <1>1, <1>2, PTL DEF Spec

\* For every kind of sensor, any goroutines, consumers and writes of the host: once
\* all is through, a sensor that is written after it was bound and the host hold the
\* same values (or what the sensor's coercion makes of the host's), and the same
\* source state and capabilities unless two reports crossed.  What a failed call took
\* along is excepted, and so is a sensor whose Subscribe failed (writeState, updateFn
\* and onBackendPropertyChanged).
THEOREM StateConverges == Spec => []Converges
<1>1. StateIInv => Converges
  <2> SUFFICES ASSUME StateIInv, Quiet, stage = "bound", ~scene.early
               PROVE  /\ heard => \A p \in Properties \ lostWrites : Agrees(p)
                      /\ ~crossed => \A f \in Facets \ lostReports : hostReport[f] = reported[f]
    BY DEF Converges
  <2>1. \A t \in Threads : thread[t].pc = "idle"
    BY DEF Quiet, Idle
  <2>2. ASSUME heard, NEW p \in Properties \ lostWrites PROVE Agrees(p)
    <3>1. DOMAIN events = {}
      BY DEF Quiet
    <3>2. Settling(p)
      BY <2>2 DEF StateIInv
    <3> QED
      BY <3>1, <3>2, <2>1 DEF Settling, NewestEvent, Sends
  <2>3. ASSUME ~crossed, NEW f \in Facets \ lostReports PROVE hostReport[f] = reported[f]
    BY <2>1, <2>3 DEF StateIInv, ReportsSettle
  <2> QED
    BY <2>2, <2>3
<1> QED
  BY <1>1, StateInductive, PTL

\* A getter of any concrete sensor returns what the sensor holds, never its fallback,
\* after any mix of writes that crossed the wire in any width, unless the property
\* is a number that the registry of coercions leaves out, or holds one outside int32
\* (coercePropertyValue, coerceInt).
THEOREM GettersRead == Spec => []ReadsTrue
<1>1. StateIInv => ReadsTrue
  <2> SUFFICES ASSUME StateIInv, NEW p \in DOMAIN kind.reads, properties[p] # Nil, Coercible(p),
                      asNumber(properties[p]) => properties[p][2] \in Int32
               PROVE  Encode(Read(kind, p, properties[p])) = Encode(properties[p])
    BY DEF ReadsTrue
  <2>1. WellFormed(kind)
    BY KindFits DEF StateIInv
  <2>2. p \in Properties
    BY <2>1 DEF WellFormed, Readable, Properties
  <2>3. Typed(kind, p)
    BY DEF Typed, Coercible, Registered
  <2>4. properties[p][1] = kind.reads[p][1]
    BY <2>2, <2>3 DEF StateIInv, StateShape, Fits, Wide
  <2> QED
    BY <2>4 DEF Read
<1> QED
  BY <1>1, StateInductive, PTL

=============================================================================
