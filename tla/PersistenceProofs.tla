------------------------- MODULE PersistenceProofs --------------------------
(***************************************************************************)
(* Proofs about what is saved: the coalescing writer (CoalescingWriter),   *)
(* for every set of callers, every bound MaxSaves and both backends; and   *)
(* the storage on top of it (DeviceStorage), for every set of keys, values *)
(* and schemas too.                                                        *)
(***************************************************************************)
EXTENDS DeviceStorage, TLAPS

-----------------------------------------------------------------------------
(* CoalescingWriter                                                         *)

Live(d) == drainer[d] # "none"
Busy(d) == drainer[d] \in {"flush", "ok", "err"}

\* At most one drainer exists, exactly while inFlight is set, and whatever is
\* pending has one.
OneDrainer == \A d, e \in Versions : Live(d) /\ Live(e) => d = e
DrainerFlagged == \A d \in Versions : Live(d) => inFlight /\ d <= installed
FlagHasDrainer == inFlight => \E d \in Versions : Live(d)
PendingServed == pending # 0 => inFlight
DrainerInv == OneDrainer /\ DrainerFlagged /\ FlagHasDrainer /\ PendingServed

\* Every flush that exists and has no outcome is pending or taken, and both
\* kinds hold a snapshot of an installed document.
SnapshotBounds ==
  \A p \in Versions :
    /\ snapshot[p] # 0 => p <= snapshot[p]
    /\ snapshot[p] <= installed
    /\ snapshot[p] = 0 => done[p] = "open"
PendingOpen == pending # 0 => snapshot[pending] # 0 /\ done[pending] = "open"
TakenOpen ==
  \A d \in Versions :
    Busy(d) => /\ taken[d] \in Versions
               /\ taken[d] # pending
               /\ snapshot[taken[d]] # 0
               /\ done[taken[d]] = "open"
OpenAccounted ==
  \A p \in Versions :
    snapshot[p] # 0 /\ done[p] = "open" =>
      p = pending \/ \E d \in Versions : Busy(d) /\ taken[d] = p
FlushInv == SnapshotBounds /\ PendingOpen /\ TakenOpen /\ OpenAccounted

\* The durable version, the late puts, the flush under way and the pending
\* flush are in that order.
LateOrder ==
  /\ durable <= installed
  /\ \A v \in late : durable <= v /\ v <= installed
BusyOrder ==
  \A d \in Versions :
    Busy(d) => /\ durable <= snapshot[taken[d]]
               /\ \A v \in late : v <= snapshot[taken[d]]
               /\ pending # 0 => snapshot[taken[d]] <= snapshot[pending]
PendingOrder ==
  pending # 0 => /\ durable <= snapshot[pending]
                 /\ \A v \in late : v <= snapshot[pending]
OrderInv == LateOrder /\ BusyOrder /\ PendingOrder

\* What a caller waits for covers what it saved, and an outcome "ok" means the
\* snapshot is durable.
WaitCovers ==
  \A c \in Callers :
    /\ ver[c] <= installed
    /\ status[c] = "waiting" /\ wait[c] # 0 => snapshot[wait[c]] >= ver[c]
DoneDurable ==
  /\ \A p \in Versions : done[p] = "ok" => durable >= snapshot[p]
  /\ \A d \in Versions : drainer[d] = "ok" => durable >= snapshot[taken[d]]
AckInv == WaitCovers /\ DoneDurable /\ AckedIsDurable

IInv == TypeOK /\ DrainerInv /\ FlushInv /\ OrderInv /\ AckInv

-----------------------------------------------------------------------------
\* Versions are positive naturals; 0 names no flush.
LEMMA VersionFacts ==
  /\ \A v \in Versions : v \in Nat /\ v # 0 /\ v \in 0 .. MaxSaves
  /\ \A v \in 0 .. MaxSaves : v \in Nat /\ (v # 0 => v \in Versions)
  BY MaxSavesAssumption DEF Versions

\* What a save does to the queue, with the flush p that it joins and the
\* version v that it installs made explicit.
LEMMA SaveEffect ==
  ASSUME TypeOK, NEW c \in Callers, Save(c)
  PROVE  \E v, p \in Versions :
           /\ v = installed + 1
           /\ pending # 0 => p = pending
           /\ pending = 0 => p = v
           /\ pending' = p
           /\ snapshot' = [snapshot EXCEPT ![p] = v]
           /\ inFlight' = TRUE
           /\ \/ inFlight /\ drainer' = drainer
              \/ ~inFlight /\ drainer' = [drainer EXCEPT ![v] = "top"]
           /\ wait' = [wait EXCEPT ![c] = p]
           /\ ver' = [ver EXCEPT ![c] = v]
           /\ status' = [status EXCEPT ![c] = "waiting"]
           /\ installed' = v
           /\ UNCHANGED <<taken, done, backend, durable, late>>
<1> DEFINE v == installed + 1
           p == Joined(v)
<1>1. v \in Versions
  BY MaxSavesAssumption DEF TypeOK, Save, Install, Versions
<1>2. p \in Versions /\ (pending # 0 => p = pending) /\ (pending = 0 => p = v)
  BY <1>1, VersionFacts DEF TypeOK, Joined
<1>3. inFlight \in BOOLEAN
  BY DEF TypeOK
<1> QED
  BY <1>1, <1>2, <1>3 DEF Save, Install, Enqueue, storeVars

\* What a busy drainer holds, in terms the later steps use.
LEMMA BusyFacts ==
  ASSUME TypeOK, FlushInv, NEW d \in Versions, Busy(d)
  PROVE  /\ taken[d] \in Versions
         /\ snapshot[taken[d]] \in Versions
         /\ done[taken[d]] = "open"
         /\ taken[d] # pending
  BY VersionFacts DEF TypeOK, FlushInv, TakenOpen

-----------------------------------------------------------------------------
LEMMA TypeStep == TypeOK /\ FlushInv /\ [Next]_vars => TypeOK'
<1> SUFFICES ASSUME TypeOK, FlushInv, [Next]_vars PROVE TypeOK'
  OBVIOUS
<1> DEFINE Pcs == {"none", "top", "flush", "ok", "err"}
<1>1. ASSUME NEW c \in Callers, Save(c) PROVE TypeOK'
  <2>1. PICK v \in Versions, p \in Versions :
           /\ pending' = p
           /\ snapshot' = [snapshot EXCEPT ![p] = v]
           /\ inFlight' = TRUE
           /\ \/ inFlight /\ drainer' = drainer
              \/ ~inFlight /\ drainer' = [drainer EXCEPT ![v] = "top"]
           /\ wait' = [wait EXCEPT ![c] = p]
           /\ ver' = [ver EXCEPT ![c] = v]
           /\ status' = [status EXCEPT ![c] = "waiting"]
           /\ installed' = v
           /\ UNCHANGED <<taken, done, backend, durable, late>>
    BY <1>1, SaveEffect
  <2>2. drainer' \in [Versions -> Pcs]
    BY <2>1 DEF TypeOK
  <2>3. snapshot' \in [Versions -> 0 .. MaxSaves]
    BY <2>1, VersionFacts DEF TypeOK
  <2>4. wait' \in [Callers -> 0 .. MaxSaves] /\ ver' \in [Callers -> 0 .. MaxSaves]
    BY <2>1, VersionFacts DEF TypeOK
  <2>5. status' \in [Callers -> {"idle", "waiting", "ok", "err"}]
    BY <2>1 DEF TypeOK
  <2> QED
    BY <2>1, <2>2, <2>3, <2>4, <2>5, VersionFacts DEF TypeOK
<1>2. ASSUME NEW c \in Callers, SaveEncodeFails(c) PROVE TypeOK'
  <2>1. installed + 1 \in 0 .. MaxSaves /\ 0 \in 0 .. MaxSaves
    BY <1>2, MaxSavesAssumption DEF SaveEncodeFails, Install, TypeOK
  <2>2. status' \in [Callers -> {"idle", "waiting", "ok", "err"}]
    BY <1>2 DEF SaveEncodeFails, Install, TypeOK
  <2>3. wait' \in [Callers -> 0 .. MaxSaves] /\ ver' \in [Callers -> 0 .. MaxSaves]
    BY <1>2, <2>1 DEF SaveEncodeFails, Install, TypeOK
  <2> QED
    BY <1>2, <2>1, <2>2, <2>3
    DEF SaveEncodeFails, Install, TypeOK, queueVars, drainVars, storeVars
<1>3. ASSUME NEW c \in Callers, Return(c) PROVE TypeOK'
  <2>1. Outcome(c) \in {"ok", "err"}
    BY <1>3, VersionFacts DEF Return, Outcome, TypeOK
  <2>2. status' \in [Callers -> {"idle", "waiting", "ok", "err"}]
    BY <1>3, <2>1 DEF Return, TypeOK
  <2> QED
    BY <1>3, <2>2 DEF Return, TypeOK, queueVars, drainVars, storeVars
<1>4. ASSUME NEW d \in Versions, Take(d) PROVE TypeOK'
  <2>1. drainer' \in [Versions -> Pcs]
    BY <1>4 DEF Take, TypeOK
  <2>2. taken' \in [Versions -> 0 .. MaxSaves] /\ pending' \in 0 .. MaxSaves
    BY <1>4, MaxSavesAssumption DEF Take, TypeOK
  <2> QED
    BY <1>4, <2>1, <2>2 DEF Take, TypeOK, storeVars, callVars
<1>5. ASSUME NEW d \in Versions, Exit(d) PROVE TypeOK'
  <2>1. drainer' \in [Versions -> Pcs] /\ inFlight' \in BOOLEAN
    BY <1>5 DEF Exit, TypeOK
  <2> QED
    BY <1>5, <2>1 DEF Exit, TypeOK, storeVars, callVars
<1>6. ASSUME NEW d \in Versions, FlushOk(d) PROVE TypeOK'
  <2>1. drainer' \in [Versions -> Pcs] /\ late' \in SUBSET Versions
    BY <1>6 DEF FlushOk, TypeOK
  <2>2. durable' \in 0 .. MaxSaves
    BY <1>6, BusyFacts, VersionFacts DEF FlushOk, Busy
  <2> QED
    BY <1>6, <2>1, <2>2 DEF FlushOk, TypeOK, queueVars, callVars
<1>7. ASSUME NEW d \in Versions, FlushFail(d) PROVE TypeOK'
  <2>1. drainer' \in [Versions -> Pcs]
    BY <1>7 DEF FlushFail, TypeOK
  <2>2. snapshot[taken[d]] \in Versions
    BY <1>7, BusyFacts DEF FlushFail, Busy
  <2>3. late' \in SUBSET Versions
    BY <1>7, <2>2 DEF FlushFail, TypeOK
  <2> QED
    BY <1>7, <2>1, <2>3 DEF FlushFail, TypeOK, queueVars, callVars
<1>8. ASSUME NEW d \in Versions, Close(d) PROVE TypeOK'
  <2>1. drainer' \in [Versions -> Pcs]
    BY <1>8 DEF Close, TypeOK
  <2>2. done' \in [Versions -> {"open", "ok", "err"}]
    BY <1>8, BusyFacts DEF Close, TypeOK, Busy
  <2>3. taken' \in [Versions -> 0 .. MaxSaves]
    BY <1>8, MaxSavesAssumption DEF Close, TypeOK
  <2> QED
    BY <1>8, <2>1, <2>2, <2>3 DEF Close, TypeOK, queueVars, storeVars, callVars
<1>9. ASSUME LatePut PROVE TypeOK'
  <2>1. late' \in SUBSET Versions /\ durable' \in Versions
    BY <1>9 DEF LatePut, TypeOK
  <2> QED
    BY <1>9, <2>1, VersionFacts DEF LatePut, TypeOK, queueVars, drainVars, callVars
<1>10. CASE UNCHANGED vars
  BY <1>10 DEF vars, TypeOK, queueVars, drainVars, storeVars, callVars
<1> QED
  BY <1>1, <1>2, <1>3, <1>4, <1>5, <1>6, <1>7, <1>8, <1>9, <1>10 DEF Next, Drain

-----------------------------------------------------------------------------
LEMMA DrainerStep == TypeOK /\ DrainerInv /\ [Next]_vars => DrainerInv'
<1> SUFFICES ASSUME TypeOK, DrainerInv, [Next]_vars PROVE DrainerInv'
  OBVIOUS
<1> USE DEF DrainerInv, OneDrainer, DrainerFlagged, FlagHasDrainer, PendingServed
<1>1. ASSUME NEW c \in Callers, Save(c) PROVE DrainerInv'
  <2>1. PICK v \in Versions, p \in Versions :
           /\ v = installed + 1
           /\ pending # 0 => p = pending
           /\ pending = 0 => p = v
           /\ pending' = p
           /\ snapshot' = [snapshot EXCEPT ![p] = v]
           /\ inFlight' = TRUE
           /\ \/ inFlight /\ drainer' = drainer
              \/ ~inFlight /\ drainer' = [drainer EXCEPT ![v] = "top"]
           /\ wait' = [wait EXCEPT ![c] = p]
           /\ ver' = [ver EXCEPT ![c] = v]
           /\ status' = [status EXCEPT ![c] = "waiting"]
           /\ installed' = v
           /\ UNCHANGED <<taken, done, backend, durable, late>>
    BY <1>1, SaveEffect
  <2>2. v > installed /\ v \in Nat /\ installed \in Nat
    BY <2>1, VersionFacts DEF TypeOK
  <2>3. CASE inFlight
    <3>1. \A d \in Versions : Live(d)' <=> Live(d)
      BY <2>1, <2>3 DEF Live
    <3>2. \A d \in Versions : Live(d) => d <= v
      BY <2>1, <2>2, VersionFacts
    <3> QED
      BY <2>1, <2>3, <3>1, <3>2
  <2>4. CASE ~inFlight
    <3>1. \A d \in Versions : Live(d)' <=> d = v
      BY <2>1, <2>4 DEF Live, TypeOK
    <3> QED
      BY <2>1, <2>2, <3>1
  <2> QED
    BY <2>3, <2>4 DEF TypeOK
<1>2. ASSUME NEW c \in Callers, SaveEncodeFails(c) PROVE DrainerInv'
  BY <1>2, VersionFacts DEF SaveEncodeFails, Install, TypeOK, Live, queueVars, drainVars
<1>3. ASSUME NEW c \in Callers, Return(c) PROVE DrainerInv'
  BY <1>3 DEF Return, Live, queueVars, drainVars
<1>4. ASSUME NEW d \in Versions, Take(d) PROVE DrainerInv'
  BY <1>4 DEF Take, Live, TypeOK
<1>5. ASSUME NEW d \in Versions, Exit(d) PROVE DrainerInv'
  <2>1. \A e \in Versions : ~Live(e)'
    BY <1>5 DEF Exit, Live, TypeOK
  <2> QED
    BY <1>5, <2>1 DEF Exit
<1>6. ASSUME NEW d \in Versions, FlushOk(d) PROVE DrainerInv'
  BY <1>6 DEF FlushOk, Live, TypeOK, queueVars
<1>7. ASSUME NEW d \in Versions, FlushFail(d) PROVE DrainerInv'
  BY <1>7 DEF FlushFail, Live, TypeOK, queueVars
<1>8. ASSUME NEW d \in Versions, Close(d) PROVE DrainerInv'
  BY <1>8 DEF Close, Live, TypeOK, queueVars
<1>9. ASSUME LatePut PROVE DrainerInv'
  BY <1>9 DEF LatePut, Live, queueVars, drainVars
<1>10. CASE UNCHANGED vars
  BY <1>10 DEF vars, Live, queueVars, drainVars
<1> QED
  BY <1>1, <1>2, <1>3, <1>4, <1>5, <1>6, <1>7, <1>8, <1>9, <1>10 DEF Next, Drain

-----------------------------------------------------------------------------
LEMMA FlushStep ==
  TypeOK /\ DrainerInv /\ FlushInv /\ [Next]_vars => FlushInv'
<1> SUFFICES ASSUME TypeOK, DrainerInv, FlushInv, [Next]_vars PROVE FlushInv'
  OBVIOUS
<1> USE DEF FlushInv
<1>1. ASSUME NEW c \in Callers, Save(c) PROVE FlushInv'
  <2>1. PICK v \in Versions, p \in Versions :
           /\ v = installed + 1
           /\ pending # 0 => p = pending
           /\ pending = 0 => p = v
           /\ pending' = p
           /\ snapshot' = [snapshot EXCEPT ![p] = v]
           /\ inFlight' = TRUE
           /\ \/ inFlight /\ drainer' = drainer
              \/ ~inFlight /\ drainer' = [drainer EXCEPT ![v] = "top"]
           /\ wait' = [wait EXCEPT ![c] = p]
           /\ ver' = [ver EXCEPT ![c] = v]
           /\ status' = [status EXCEPT ![c] = "waiting"]
           /\ installed' = v
           /\ UNCHANGED <<taken, done, backend, durable, late>>
    BY <1>1, SaveEffect
  <2>2. \A d \in Versions : Busy(d)' <=> Busy(d)
    BY <2>1 DEF Busy, TypeOK, DrainerInv, DrainerFlagged, Live
  <2>3. /\ v > installed /\ v \in Nat /\ installed \in Nat
        /\ \A q \in Versions : q \in Nat /\ snapshot[q] \in Nat
    BY <2>1, VersionFacts DEF TypeOK
  <2>4. \A q \in Versions : snapshot'[q] = IF q = p THEN v ELSE snapshot[q]
    BY <2>1 DEF TypeOK
  <2>5. p <= v /\ done[p] = "open"
    BY <2>1, <2>3 DEF SnapshotBounds, PendingOpen
  <2>6. SnapshotBounds'
    BY <2>1, <2>3, <2>4, <2>5 DEF SnapshotBounds
  <2>7. PendingOpen'
    BY <2>1, <2>3, <2>4, <2>5, VersionFacts DEF PendingOpen
  <2>8. \A d \in Versions : Busy(d) => taken[d] # p
    BY <2>1, <2>3 DEF TakenOpen, SnapshotBounds
  <2>9. TakenOpen'
    BY <2>1, <2>2, <2>4, <2>8 DEF TakenOpen
  <2>10. OpenAccounted'
    BY <2>1, <2>2, <2>4, VersionFacts DEF OpenAccounted
  <2> QED
    BY <2>6, <2>7, <2>9, <2>10
<1>2. ASSUME NEW c \in Callers, SaveEncodeFails(c) PROVE FlushInv'
  <2>1. installed' = installed + 1 /\ UNCHANGED <<queueVars, drainVars>>
    BY <1>2 DEF SaveEncodeFails, Install
  <2>2. \A d \in Versions : Busy(d)' <=> Busy(d)
    BY <2>1 DEF Busy, drainVars
  <2>3. SnapshotBounds'
    BY <2>1, VersionFacts DEF SnapshotBounds, TypeOK, queueVars, drainVars
  <2> QED
    BY <2>1, <2>2, <2>3
    DEF PendingOpen, TakenOpen, OpenAccounted, queueVars, drainVars
<1>3. ASSUME NEW c \in Callers, Return(c) PROVE FlushInv'
  BY <1>3 DEF Return, SnapshotBounds, PendingOpen, TakenOpen, OpenAccounted,
      Busy, queueVars, drainVars
<1>4. ASSUME NEW d \in Versions, Take(d) PROVE FlushInv'
  <2>1. \A e \in Versions : Busy(e)' <=> e = d
    BY <1>4 DEF Take, TypeOK, Busy, DrainerInv, OneDrainer, Live
  <2>2. \A e \in Versions : ~Busy(e)
    BY <1>4 DEF Take, TypeOK, Busy, DrainerInv, OneDrainer, Live
  <2>3. pending \in Versions /\ taken'[d] = pending /\ pending' = 0
    BY <1>4, VersionFacts DEF Take, TypeOK
  <2>4. UNCHANGED <<installed, snapshot, done>>
    BY <1>4 DEF Take
  <2>5. SnapshotBounds' /\ PendingOpen'
    BY <2>3, <2>4 DEF SnapshotBounds, PendingOpen
  <2>6. TakenOpen'
    BY <2>1, <2>3, <2>4, VersionFacts DEF TakenOpen, PendingOpen
  <2>7. OpenAccounted'
    BY <2>1, <2>2, <2>3, <2>4 DEF OpenAccounted
  <2> QED
    BY <2>5, <2>6, <2>7
<1>5. ASSUME NEW d \in Versions, Exit(d) PROVE FlushInv'
  <2>1. \A e \in Versions : Busy(e)' <=> Busy(e)
    BY <1>5 DEF Exit, TypeOK, Busy
  <2> QED
    BY <1>5, <2>1
    DEF Exit, SnapshotBounds, PendingOpen, TakenOpen, OpenAccounted
<1>6. ASSUME NEW d \in Versions, FlushOk(d) PROVE FlushInv'
  <2>1. \A e \in Versions : Busy(e)' <=> Busy(e)
    BY <1>6 DEF FlushOk, TypeOK, Busy
  <2> QED
    BY <1>6, <2>1
    DEF FlushOk, SnapshotBounds, PendingOpen, TakenOpen, OpenAccounted, queueVars
<1>7. ASSUME NEW d \in Versions, FlushFail(d) PROVE FlushInv'
  <2>1. \A e \in Versions : Busy(e)' <=> Busy(e)
    BY <1>7 DEF FlushFail, TypeOK, Busy
  <2> QED
    BY <1>7, <2>1
    DEF FlushFail, SnapshotBounds, PendingOpen, TakenOpen, OpenAccounted, queueVars
<1>8. ASSUME NEW d \in Versions, Close(d) PROVE FlushInv'
  <2>1. Busy(d) /\ UNCHANGED <<installed, pending, snapshot>>
    BY <1>8 DEF Close, Busy, queueVars
  <2>2. \A e \in Versions : ~Busy(e)'
    BY <1>8 DEF Close, TypeOK, Busy, DrainerInv, OneDrainer, Live
  <2>3. \A e \in Versions : Busy(e) => e = d
    BY <2>1 DEF Busy, DrainerInv, OneDrainer, Live
  <2>4. /\ taken[d] \in Versions /\ taken[d] # pending
        /\ \A p \in Versions :
             done'[p] = IF p = taken[d] THEN drainer[d] ELSE done[p]
        /\ drainer[d] # "open"
    BY <1>8, <2>1, BusyFacts DEF Close, TypeOK
  <2>5. SnapshotBounds'
    BY <2>1, <2>4 DEF SnapshotBounds, TakenOpen
  <2>6. PendingOpen'
    BY <2>1, <2>4, VersionFacts DEF PendingOpen, TypeOK
  <2>7. TakenOpen'
    BY <2>2 DEF TakenOpen
  <2>8. OpenAccounted'
    BY <2>1, <2>3, <2>4 DEF OpenAccounted
  <2> QED
    BY <2>5, <2>6, <2>7, <2>8
<1>9. ASSUME LatePut PROVE FlushInv'
  BY <1>9 DEF LatePut, SnapshotBounds, PendingOpen, TakenOpen, OpenAccounted,
      Busy, queueVars, drainVars
<1>10. CASE UNCHANGED vars
  BY <1>10 DEF vars, SnapshotBounds, PendingOpen, TakenOpen, OpenAccounted,
      Busy, queueVars, drainVars
<1> QED
  BY <1>1, <1>2, <1>3, <1>4, <1>5, <1>6, <1>7, <1>8, <1>9, <1>10 DEF Next, Drain

-----------------------------------------------------------------------------
LEMMA OrderStep ==
  TypeOK /\ DrainerInv /\ FlushInv /\ OrderInv /\ [Next]_vars => OrderInv'
<1> SUFFICES ASSUME TypeOK, DrainerInv, FlushInv, OrderInv, [Next]_vars
             PROVE  OrderInv'
  OBVIOUS
<1> USE DEF OrderInv
<1>0. /\ installed \in Nat /\ durable \in Nat
      /\ \A q \in Versions : snapshot[q] \in Nat
      /\ \A w \in late : w \in Nat
  BY VersionFacts DEF TypeOK
<1>1. ASSUME NEW c \in Callers, Save(c) PROVE OrderInv'
  <2>1. PICK v \in Versions, p \in Versions :
           /\ v = installed + 1
           /\ pending # 0 => p = pending
           /\ pending = 0 => p = v
           /\ pending' = p
           /\ snapshot' = [snapshot EXCEPT ![p] = v]
           /\ inFlight' = TRUE
           /\ \/ inFlight /\ drainer' = drainer
              \/ ~inFlight /\ drainer' = [drainer EXCEPT ![v] = "top"]
           /\ wait' = [wait EXCEPT ![c] = p]
           /\ ver' = [ver EXCEPT ![c] = v]
           /\ status' = [status EXCEPT ![c] = "waiting"]
           /\ installed' = v
           /\ UNCHANGED <<taken, done, backend, durable, late>>
    BY <1>1, SaveEffect
  <2>0. v \in Nat /\ installed < v
    BY <1>0, <2>1
  <2>2. \A d \in Versions : Busy(d)' <=> Busy(d)
    BY <2>1 DEF Busy, TypeOK, DrainerInv, DrainerFlagged, Live
  <2>3. \A q \in Versions : snapshot'[q] = IF q = p THEN v ELSE snapshot[q]
    BY <2>1 DEF TypeOK
  <2>4. ASSUME NEW d \in Versions, Busy(d)
        PROVE  /\ taken[d] \in Versions
               /\ taken[d] # p
               /\ snapshot[taken[d]] <= installed
               /\ snapshot[taken[d]] <= v
    <3>1. taken[d] \in Versions /\ taken[d] # pending /\ snapshot[taken[d]] # 0
      BY <2>4 DEF FlushInv, TakenOpen
    <3>2. taken[d] <= snapshot[taken[d]] /\ snapshot[taken[d]] <= installed
      BY <3>1 DEF FlushInv, SnapshotBounds
    <3>3. taken[d] \in Nat /\ snapshot[taken[d]] \in Nat
      BY <1>0, <3>1, VersionFacts
    <3>4. taken[d] # v /\ snapshot[taken[d]] <= v
      BY <1>0, <2>0, <3>2, <3>3
    <3> QED
      BY <2>1, <3>1, <3>2, <3>4
  <2>5. LateOrder'
    BY <1>0, <2>1 DEF LateOrder
  <2>6. PendingOrder'
    BY <1>0, <2>1, <2>3 DEF PendingOrder, LateOrder
  <2>7. ASSUME NEW d \in Versions, Busy(d)
        PROVE  /\ durable' <= snapshot'[taken'[d]]
               /\ \A w \in late' : w <= snapshot'[taken'[d]]
               /\ snapshot'[taken'[d]] <= snapshot'[pending']
    <3>1. snapshot'[taken'[d]] = snapshot[taken[d]] /\ snapshot'[pending'] = v
      BY <2>1, <2>3, <2>4, <2>7
    <3>2. snapshot[taken[d]] <= v
      BY <2>4, <2>7
    <3> QED
      BY <2>1, <2>7, <3>1, <3>2 DEF BusyOrder
  <2> QED
    BY <2>2, <2>5, <2>6, <2>7 DEF BusyOrder
<1>2. ASSUME NEW c \in Callers, SaveEncodeFails(c) PROVE OrderInv'
  <2>1. installed' = installed + 1 /\ UNCHANGED <<queueVars, drainVars, storeVars>>
    BY <1>2 DEF SaveEncodeFails, Install
  <2>2. LateOrder'
    BY <1>0, <2>1 DEF LateOrder, storeVars
  <2> QED
    BY <2>1, <2>2 DEF BusyOrder, PendingOrder, Busy, queueVars, drainVars, storeVars
<1>3. ASSUME NEW c \in Callers, Return(c) PROVE OrderInv'
  BY <1>3 DEF Return, LateOrder, BusyOrder, PendingOrder, Busy,
      queueVars, drainVars, storeVars
<1>4. ASSUME NEW d \in Versions, Take(d) PROVE OrderInv'
  <2>1. \A e \in Versions : Busy(e)' => e = d
    BY <1>4 DEF Take, TypeOK, Busy, DrainerInv, OneDrainer, Live
  <2>2. /\ taken'[d] = pending /\ pending # 0 /\ pending' = 0
        /\ UNCHANGED <<installed, snapshot, storeVars>>
    BY <1>4 DEF Take, TypeOK
  <2>3. BusyOrder'
    BY <2>1, <2>2 DEF BusyOrder, PendingOrder, storeVars
  <2> QED
    BY <2>2, <2>3 DEF LateOrder, PendingOrder, storeVars
<1>5. ASSUME NEW d \in Versions, Exit(d) PROVE OrderInv'
  <2>1. \A e \in Versions : Busy(e)' <=> Busy(e)
    BY <1>5 DEF Exit, TypeOK, Busy
  <2> QED
    BY <1>5, <2>1 DEF Exit, LateOrder, BusyOrder, PendingOrder, storeVars
<1>6. ASSUME NEW d \in Versions, FlushOk(d) PROVE OrderInv'
  <2>1. Busy(d) /\ \A e \in Versions : Busy(e)' => e = d
    BY <1>6 DEF FlushOk, TypeOK, Busy, DrainerInv, OneDrainer, Live
  <2>2. /\ durable' = snapshot[taken[d]] /\ late' = {}
        /\ UNCHANGED <<installed, pending, snapshot, taken>>
    BY <1>6 DEF FlushOk, queueVars
  <2>3. taken[d] \in Versions /\ snapshot[taken[d]] <= installed
    BY <2>1, BusyFacts DEF FlushInv, SnapshotBounds
  <2>4. LateOrder'
    BY <2>2, <2>3 DEF LateOrder
  <2>5. BusyOrder'
    BY <1>0, <2>1, <2>2, <2>3 DEF BusyOrder
  <2>6. PendingOrder'
    BY <2>1, <2>2 DEF BusyOrder, PendingOrder
  <2> QED
    BY <2>4, <2>5, <2>6
<1>7. ASSUME NEW d \in Versions, FlushFail(d) PROVE OrderInv'
  <2>1. Busy(d) /\ \A e \in Versions : Busy(e)' => e = d
    BY <1>7 DEF FlushFail, TypeOK, Busy, DrainerInv, OneDrainer, Live
  <2>2. UNCHANGED <<installed, pending, snapshot, taken, durable>>
    BY <1>7 DEF FlushFail, queueVars
  <2>3. taken[d] \in Versions /\ snapshot[taken[d]] <= installed
    BY <2>1, BusyFacts DEF FlushInv, SnapshotBounds
  <2>4. \A w \in late' : w \in late \/ w = snapshot[taken[d]]
    BY <1>7 DEF FlushFail
  <2>5. LateOrder'
    BY <2>1, <2>2, <2>3, <2>4 DEF LateOrder, BusyOrder
  <2>6. BusyOrder'
    BY <1>0, <2>1, <2>2, <2>3, <2>4 DEF BusyOrder
  <2>7. PendingOrder'
    BY <2>1, <2>2, <2>4 DEF BusyOrder, PendingOrder
  <2> QED
    BY <2>5, <2>6, <2>7
<1>8. ASSUME NEW d \in Versions, Close(d) PROVE OrderInv'
  <2>1. \A e \in Versions : ~Busy(e)'
    BY <1>8 DEF Close, TypeOK, Busy, DrainerInv, OneDrainer, Live
  <2> QED
    BY <1>8, <2>1 DEF Close, LateOrder, BusyOrder, PendingOrder, queueVars, storeVars
<1>9. ASSUME LatePut PROVE OrderInv'
  <2>1. PICK v \in late : durable' = v /\ late' = {w \in late : w > v}
    BY <1>9 DEF LatePut
  <2>2. UNCHANGED <<installed, pending, snapshot, drainer, taken>>
    BY <1>9 DEF LatePut, queueVars, drainVars
  <2>3. LateOrder'
    BY <1>0, <2>1, <2>2 DEF LateOrder
  <2>4. BusyOrder' /\ PendingOrder'
    BY <2>1, <2>2 DEF BusyOrder, PendingOrder, Busy
  <2> QED
    BY <2>3, <2>4
<1>10. CASE UNCHANGED vars
  BY <1>10 DEF vars, LateOrder, BusyOrder, PendingOrder, Busy,
      queueVars, drainVars, storeVars
<1> QED
  BY <1>1, <1>2, <1>3, <1>4, <1>5, <1>6, <1>7, <1>8, <1>9, <1>10 DEF Next, Drain

\* The durable version never moves back, in any step.
LEMMA DurableStep ==
  TypeOK /\ FlushInv /\ OrderInv /\ [Next]_vars => durable' >= durable
<1> SUFFICES ASSUME TypeOK, FlushInv, OrderInv, [Next]_vars
             PROVE  durable' >= durable
  OBVIOUS
<1>1. durable \in Nat /\ \A w \in late : w \in Nat /\ durable <= w
  BY VersionFacts DEF TypeOK, OrderInv, LateOrder
<1>2. ASSUME NEW d \in Versions, FlushOk(d) PROVE durable' >= durable
  <2>1. durable <= snapshot[taken[d]] /\ snapshot[taken[d]] \in Nat
    BY <1>2, BusyFacts, VersionFacts DEF FlushOk, Busy, OrderInv, BusyOrder
  <2> QED
    BY <1>1, <1>2, <2>1 DEF FlushOk
<1>3. ASSUME LatePut PROVE durable' >= durable
  BY <1>1, <1>3 DEF LatePut
<1>4. ASSUME NEW d \in Versions, Take(d) \/ Exit(d) \/ FlushFail(d) \/ Close(d)
      PROVE  durable' = durable
  BY <1>4 DEF Take, Exit, FlushFail, Close, storeVars
<1>5. ASSUME NEW c \in Callers, Save(c) \/ SaveEncodeFails(c) \/ Return(c)
      PROVE  durable' = durable
  BY <1>5 DEF Save, SaveEncodeFails, Return, storeVars
<1>6. CASE UNCHANGED vars
  BY <1>1, <1>6 DEF vars, storeVars
<1> QED
  BY <1>1, <1>2, <1>3, <1>4, <1>5, <1>6 DEF Next, Drain

-----------------------------------------------------------------------------
LEMMA AckStep == IInv /\ [Next]_vars => AckInv'
<1> SUFFICES ASSUME IInv, [Next]_vars PROVE AckInv'
  OBVIOUS
<1> USE DEF IInv, AckInv
<1>0. /\ installed \in Nat /\ durable \in Nat /\ durable' \in Nat
      /\ durable' >= durable
      /\ \A q \in Versions : snapshot[q] \in Nat
      /\ \A c \in Callers : ver[c] \in Nat
  BY VersionFacts, DurableStep, TypeStep DEF TypeOK
<1>1. ASSUME NEW c \in Callers, Save(c) PROVE AckInv'
  <2>1. PICK v \in Versions, p \in Versions :
           /\ v = installed + 1
           /\ pending # 0 => p = pending
           /\ pending = 0 => p = v
           /\ pending' = p
           /\ snapshot' = [snapshot EXCEPT ![p] = v]
           /\ inFlight' = TRUE
           /\ \/ inFlight /\ drainer' = drainer
              \/ ~inFlight /\ drainer' = [drainer EXCEPT ![v] = "top"]
           /\ wait' = [wait EXCEPT ![c] = p]
           /\ ver' = [ver EXCEPT ![c] = v]
           /\ status' = [status EXCEPT ![c] = "waiting"]
           /\ installed' = v
           /\ UNCHANGED <<taken, done, backend, durable, late>>
    BY <1>1, SaveEffect
  <2>2. \A q \in Versions : snapshot'[q] = IF q = p THEN v ELSE snapshot[q]
    BY <2>1 DEF TypeOK
  <2>3. v \in Nat /\ installed < v /\ done[p] = "open"
    BY <1>0, <2>1, VersionFacts DEF FlushInv, SnapshotBounds, PendingOpen
  <2>4. WaitCovers'
    <3> SUFFICES ASSUME NEW b \in Callers
                 PROVE  /\ ver'[b] <= installed'
                        /\ status'[b] = "waiting" /\ wait'[b] # 0 =>
                             snapshot'[wait'[b]] >= ver'[b]
      BY DEF WaitCovers
    <3>1. CASE b = c
      BY <2>1, <2>2, <2>3, <3>1 DEF TypeOK
    <3>2. CASE b # c
      <4>1. /\ ver'[b] = ver[b] /\ status'[b] = status[b] /\ wait'[b] = wait[b]
            /\ wait[b] # 0 => wait[b] \in Versions
        BY <2>1, <3>2, VersionFacts DEF TypeOK
      <4>2. ver[b] <= v
        BY <1>0, <2>3 DEF WaitCovers
      <4> QED
        BY <2>1, <2>2, <4>1, <4>2 DEF WaitCovers
    <3> QED
      BY <3>1, <3>2
  <2>5. \A d \in Versions :
          drainer'[d] = "ok" => /\ drainer[d] = "ok"
                                /\ taken[d] \in Versions
                                /\ taken[d] # p
    <3> SUFFICES ASSUME NEW d \in Versions, drainer'[d] = "ok"
                 PROVE  drainer[d] = "ok" /\ taken[d] \in Versions /\ taken[d] # p
      OBVIOUS
    <3>1. drainer[d] = "ok"
      BY <2>1 DEF TypeOK
    <3>2. inFlight /\ Busy(d)
      BY <3>1 DEF Busy, Live, DrainerInv, DrainerFlagged
    <3>3. taken[d] \in Versions /\ taken[d] # pending /\ snapshot[taken[d]] # 0
      BY <3>2 DEF FlushInv, TakenOpen
    <3>4. taken[d] <= snapshot[taken[d]] /\ snapshot[taken[d]] <= installed
      BY <3>3 DEF FlushInv, SnapshotBounds
    <3>5. taken[d] # v
      BY <1>0, <2>3, <3>3, <3>4, VersionFacts
    <3> QED
      BY <2>1, <3>1, <3>3, <3>5
  <2>6. DoneDurable'
    BY <2>1, <2>2, <2>3, <2>5 DEF DoneDurable
  <2>7. AckedIsDurable'
    BY <2>1 DEF AckedIsDurable, TypeOK
  <2> QED
    BY <2>4, <2>6, <2>7
<1>2. ASSUME NEW c \in Callers, SaveEncodeFails(c) PROVE AckInv'
  <2>1. /\ installed' = installed + 1
        /\ wait' = [wait EXCEPT ![c] = 0]
        /\ ver' = [ver EXCEPT ![c] = installed + 1]
        /\ status' = [status EXCEPT ![c] = "waiting"]
        /\ UNCHANGED <<queueVars, drainVars, storeVars>>
    BY <1>2 DEF SaveEncodeFails, Install
  <2>2. WaitCovers'
    BY <1>0, <2>1 DEF WaitCovers, TypeOK, queueVars
  <2>3. DoneDurable' /\ AckedIsDurable'
    BY <2>1 DEF DoneDurable, AckedIsDurable, TypeOK, queueVars, drainVars, storeVars
  <2> QED
    BY <2>2, <2>3
<1>3. ASSUME NEW c \in Callers, Return(c) PROVE AckInv'
  <2>1. /\ status' = [status EXCEPT ![c] = Outcome(c)]
        /\ status[c] = "waiting" /\ Outcome(c) # "waiting"
        /\ UNCHANGED <<installed, queueVars, drainVars, storeVars, wait, ver>>
    BY <1>3, VersionFacts DEF Return, Outcome, TypeOK
  <2>2. Outcome(c) = "ok" => durable >= ver[c]
    <3> SUFFICES ASSUME Outcome(c) = "ok" PROVE durable >= ver[c]
      OBVIOUS
    <3>1. wait[c] \in Versions /\ done[wait[c]] = "ok"
      BY VersionFacts DEF Outcome, TypeOK
    <3>2. durable >= snapshot[wait[c]] /\ snapshot[wait[c]] >= ver[c]
      BY <2>1, <3>1, VersionFacts DEF DoneDurable, WaitCovers
    <3> QED
      BY <1>0, <3>1, <3>2
  <2>3. WaitCovers'
    BY <2>1 DEF WaitCovers, TypeOK, queueVars
  <2>4. DoneDurable'
    BY <2>1 DEF DoneDurable, queueVars, drainVars, storeVars
  <2>5. AckedIsDurable'
    BY <2>1, <2>2 DEF AckedIsDurable, TypeOK, storeVars
  <2> QED
    BY <2>3, <2>4, <2>5
<1>4. ASSUME NEW d \in Versions, Take(d) PROVE AckInv'
  BY <1>4 DEF Take, WaitCovers, DoneDurable, AckedIsDurable, TypeOK,
      storeVars, callVars
<1>5. ASSUME NEW d \in Versions, Exit(d) PROVE AckInv'
  BY <1>5 DEF Exit, WaitCovers, DoneDurable, AckedIsDurable, TypeOK,
      storeVars, callVars
<1>6. ASSUME NEW d \in Versions, FlushOk(d) PROVE AckInv'
  <2>1. /\ durable' = snapshot[taken[d]]
        /\ drainer' = [drainer EXCEPT ![d] = "ok"]
        /\ UNCHANGED <<installed, snapshot, taken, done, callVars>>
    BY <1>6 DEF FlushOk, queueVars
  <2>2. \A e \in Versions : drainer[e] = "ok" => e = d
    BY <1>6 DEF FlushOk, Live, DrainerInv, OneDrainer
  <2>3. WaitCovers'
    BY <2>1 DEF WaitCovers, callVars
  <2>4. \A p \in Versions : done'[p] = "ok" => durable' >= snapshot'[p]
    BY <1>0, <2>1 DEF DoneDurable
  <2>5. \A e \in Versions : drainer'[e] = "ok" => durable' >= snapshot'[taken'[e]]
    BY <1>0, <2>1, <2>2 DEF TypeOK
  <2>6. AckedIsDurable'
    BY <1>0, <2>1 DEF AckedIsDurable, callVars
  <2> QED
    BY <2>3, <2>4, <2>5, <2>6 DEF DoneDurable
<1>7. ASSUME NEW d \in Versions, FlushFail(d) PROVE AckInv'
  BY <1>7 DEF FlushFail, WaitCovers, DoneDurable, AckedIsDurable, TypeOK,
      queueVars, callVars
<1>8. ASSUME NEW d \in Versions, Close(d) PROVE AckInv'
  <2>1. taken[d] \in Versions
    BY <1>8, BusyFacts DEF Close, Busy
  <2>2. DoneDurable'
    BY <1>8, <2>1 DEF Close, DoneDurable, TypeOK, queueVars, storeVars
  <2> QED
    BY <1>8, <2>2 DEF Close, WaitCovers, AckedIsDurable, queueVars, storeVars, callVars
<1>9. ASSUME LatePut PROVE AckInv'
  <2>1. UNCHANGED <<installed, snapshot, drainer, taken, done, callVars>>
    BY <1>9 DEF LatePut, queueVars, drainVars
  <2>2. WaitCovers'
    BY <2>1 DEF WaitCovers, callVars
  <2>3. \A p \in Versions : done'[p] = "ok" => durable' >= snapshot'[p]
    BY <1>0, <2>1 DEF DoneDurable
  <2>4. \A d \in Versions : drainer'[d] = "ok" => durable' >= snapshot'[taken'[d]]
    BY <1>0, <2>1, BusyFacts DEF DoneDurable, Busy
  <2>5. AckedIsDurable'
    BY <1>0, <2>1 DEF AckedIsDurable, callVars
  <2> QED
    BY <2>2, <2>3, <2>4, <2>5 DEF DoneDurable
<1>10. CASE UNCHANGED vars
  BY <1>10 DEF vars, WaitCovers, DoneDurable, AckedIsDurable,
      queueVars, drainVars, storeVars, callVars
<1> QED
  BY <1>1, <1>2, <1>3, <1>4, <1>5, <1>6, <1>7, <1>8, <1>9, <1>10 DEF Next, Drain

-----------------------------------------------------------------------------
\* The inductive invariant holds at the start, and every step keeps it.
LEMMA WriterStart == Init => IInv
<1> SUFFICES ASSUME Init PROVE IInv
  OBVIOUS
<1>1. TypeOK
  <2>1. 0 \in 0 .. MaxSaves
    BY MaxSavesAssumption
  <2>4. inFlight \in BOOLEAN /\ late \in SUBSET Versions
    BY DEF Init
  <2>2. /\ snapshot \in [Versions -> 0 .. MaxSaves]
        /\ taken \in [Versions -> 0 .. MaxSaves]
        /\ wait \in [Callers -> 0 .. MaxSaves]
        /\ ver \in [Callers -> 0 .. MaxSaves]
    BY <2>1 DEF Init
  <2>3. /\ done \in [Versions -> {"open", "ok", "err"}]
        /\ drainer \in [Versions -> {"none", "top", "flush", "ok", "err"}]
        /\ status \in [Callers -> {"idle", "waiting", "ok", "err"}]
    BY DEF Init
  <2> QED
    BY <2>1, <2>2, <2>3, <2>4 DEF Init, TypeOK
<1>2. DrainerInv
  BY DEF Init, DrainerInv, OneDrainer, DrainerFlagged, FlagHasDrainer,
      PendingServed, Live
<1>3. FlushInv
  BY DEF Init, FlushInv, SnapshotBounds, PendingOpen, TakenOpen, OpenAccounted,
      Busy
<1>4. OrderInv
  BY DEF Init, OrderInv, LateOrder, BusyOrder, PendingOrder, Busy
<1>5. AckInv
  BY DEF Init, AckInv, WaitCovers, DoneDurable, AckedIsDurable
<1> QED
  BY <1>1, <1>2, <1>3, <1>4, <1>5 DEF IInv

LEMMA WriterKeeps == IInv /\ [Next]_vars => IInv'
  BY TypeStep, DrainerStep, FlushStep, OrderStep, AckStep DEF IInv

\* The inductive invariant holds in every state.
THEOREM Inductive == Spec => []IInv
  BY WriterStart, WriterKeeps, PTL DEF Spec

\* The writer's state always has its type.
THEOREM TypeCorrect == Spec => []TypeOK
<1>1. IInv => TypeOK
  BY DEF IInv
<1> QED
  BY <1>1, Inductive, PTL

\* Whoever was told "saved" finds the save in the backend, for any number of
\* callers, saves, failed flushes and late puts.
THEOREM AckDurable == Spec => []AckedIsDurable
<1>1. IInv => AckedIsDurable
  BY DEF IInv, AckInv
<1> QED
  BY <1>1, Inductive, PTL

\* Flushes never overlap.
THEOREM FlushExclusive == Spec => []OneFlushAtATime
<1>1. IInv => OneFlushAtATime
  BY DEF IInv, DrainerInv, OneDrainer, Live, OneFlushAtATime
<1> QED
  BY <1>1, Inductive, PTL

\* At most two flushes are owed to the callers that wait.
THEOREM BurstBounded == Spec => []BurstCost
<1>1. IInv => BurstCost
  <2> SUFFICES ASSUME IInv, NEW p \in OpenFlushes, NEW q \in OpenFlushes,
                      NEW r \in OpenFlushes
               PROVE  p = q \/ q = r \/ p = r
    BY DEF BurstCost
  <2>1. \A x \in OpenFlushes :
          x = pending \/ \E d \in Versions : Busy(d) /\ taken[d] = x
    BY DEF IInv, FlushInv, OpenAccounted, OpenFlushes
  <2>2. \A d, e \in Versions : Busy(d) /\ Busy(e) => d = e
    BY DEF IInv, DrainerInv, OneDrainer, Live, Busy
  <2> QED
    BY <2>1, <2>2
<1> QED
  BY <1>1, Inductive, PTL

\* No flush, and no late put, ever replaces a newer document by an older one.
THEOREM FlushOrder == Spec => NeverOvertaken
<1>1. IInv /\ [Next]_vars => [durable' >= durable]_vars
  BY DurableStep DEF IInv
<1> QED
  BY <1>1, Inductive, PTL DEF Spec, NeverOvertaken

\* The queue, the drainer and the backend together implement DurableStore.
THEOREM Refinement == Spec => ImplementsDurableStore
<1>1. Init => Abstract!Init
  BY DEF Init, Abstract!Init
<1>2. IInv /\ IInv' /\ [Next]_vars => [Abstract!Next]_Abstract!vars
  <2> SUFFICES ASSUME IInv, IInv', [Next]_vars
               PROVE  Abstract!Next \/ UNCHANGED Abstract!vars
    OBVIOUS
  <2>1. ASSUME NEW c \in Callers, Save(c) \/ SaveEncodeFails(c)
        PROVE  Abstract!Begin(c)
    BY <2>1 DEF Save, SaveEncodeFails, Install, storeVars, Abstract!Begin
  <2>2. ASSUME NEW c \in Callers, Return(c)
        PROVE  Abstract!Ack(c) \/ Abstract!Fail(c)
    <3>1. Outcome(c) \in {"ok", "err"}
      BY <2>2, VersionFacts DEF Return, Outcome, IInv, TypeOK
    <3>2. CASE Outcome(c) = "ok"
      <4>1. durable >= ver[c]
        BY <2>2, <3>2 DEF Return, IInv, AckInv, AckedIsDurable, TypeOK, storeVars
      <4> QED
        BY <2>2, <3>2, <4>1 DEF Return, storeVars, Abstract!Ack
    <3>3. CASE Outcome(c) = "err"
      BY <2>2, <3>3 DEF Return, storeVars, Abstract!Fail
    <3> QED
      BY <3>1, <3>2, <3>3
  <2>3. ASSUME durable' >= durable, durable' <= installed,
               UNCHANGED <<installed, ver, status>>
        PROVE  Abstract!Commit \/ UNCHANGED Abstract!vars
    BY <2>3, VersionFacts DEF IInv, TypeOK, Abstract!Commit, Abstract!vars
  <2>4. durable' >= durable
    BY DurableStep DEF IInv
  <2>5. ASSUME NEW d \in Versions, Drain(d)
        PROVE  UNCHANGED <<installed, ver, status>>
    BY <2>5 DEF Drain, Take, Exit, FlushOk, FlushFail, Close, callVars
  <2>6. ASSUME LatePut PROVE UNCHANGED <<installed, ver, status>>
    BY <2>6 DEF LatePut, callVars
  <2>7. CASE UNCHANGED vars
    BY <2>7 DEF vars, storeVars, callVars, Abstract!vars
  <2>8. durable' <= installed'
    BY DEF IInv, OrderInv, LateOrder
  <2> QED
    BY <2>1, <2>2, <2>3, <2>4, <2>5, <2>6, <2>7, <2>8 DEF Next, Abstract!Next
<1> QED
  BY <1>1, <1>2, Inductive, PTL DEF Spec, ImplementsDurableStore, Abstract!Spec

-----------------------------------------------------------------------------
(* DeviceStorage                                                            *)

StorageShape ==
  /\ values = [k \in Keys |-> values[k]] /\ schemas \in [Keys -> Schemas \cup {NoSchema}]
  /\ dirty \in BOOLEAN /\ persistSeq \in Nat
  /\ pc \in [Callers -> {"idle", "resolve", "persist", "snap", "wait"}]
  /\ result \in [Callers -> {"none", "skipped", "saved", "err"}]
  /\ seq \in [Callers -> Nat] /\ DOMAIN snap = Callers /\ DOMAIN docs = Versions
  /\ DOMAIN claim = Callers

\* persistMu is held from the snapshot to its enqueueing, by one goroutine; the
\* goroutines in wait() are the callers the writer has to answer.
PersistOrder ==
  /\ persistMu = {t \in Callers : pc[t] = "snap"}
  /\ \A t, u \in Callers : pc[t] = "snap" /\ pc[u] = "snap" => t = u
  /\ \A t \in Callers : pc[t] = "wait" <=> status[t] = "waiting"
  /\ \A t \in Callers : result[t] = "saved" => pc[t] = "idle" /\ status[t] = "ok"

Persisting(t) == pc[t] \in {"snap", "wait"}

\* The persist whose outcome decides about dirty: no snapshot is newer, and
\* nothing changed the schemas since.
Deciding(t) == Persisting(t) /\ seq[t] = persistSeq

SeqOrder ==
  /\ \A t \in Callers : seq[t] <= persistSeq
  /\ \A t, u \in Callers : Deciding(t) /\ Deciding(u) => t = u
  /\ \A t, u \in Callers : Deciding(t) /\ pc[t] = "wait" => pc[u] # "snap" /\ ver[t] = installed

\* The newest snapshot holds the memory's value of k: the snapshot a goroutine is
\* about to enqueue, or the newest document.
NewestHas(k) ==
  /\ \A t \in Callers : pc[t] = "snap" => snap[t][k] = Persisted[k]
  /\ (\A t \in Callers : pc[t] # "snap") =>
       Persisted[k] = IF installed = 0 THEN Absent ELSE docs[installed][k]

\* Unless a persist is about to start, the newest snapshot is the memory, except
\* for keys changed without a persist; or a flip of a schema outdated it, and then
\* the storage stays dirty.
SnapshotFresh ==
  (\A t \in Callers : pc[t] # "persist") =>
    \/ \A k \in Keys \ lazy : NewestHas(k)
    \/ dirty /\ \A t \in Callers : ~Deciding(t)

\* A storage that is not dirty has its newest document in the backend, or the
\* persist that decides is under way.
CleanInv ==
  ~dirty => \/ durable = installed /\ \A t \in Callers : pc[t] # "snap"
            \/ \E t \in Callers : Deciding(t)

\* A claim is what the memory holds; from the snapshot on, it is in the snapshot, in
\* every document since the one it was installed with, and in a snapshot under way.
ClaimInv ==
  \A t \in Callers : \A w \in claim[t] :
    /\ w.key \in Keys /\ Persisted[w.key] = w.val
    /\ pc[t] = "snap" => snap[t][w.key] = w.val
    /\ pc[t] = "wait" \/ result[t] = "saved" =>
         /\ \A v \in Versions : ver[t] <= v /\ v <= installed => docs[v][w.key] = w.val
         /\ \A u \in Callers : pc[u] = "snap" => snap[u][w.key] = w.val

SavedVersion == \A t \in Callers : pc[t] = "wait" \/ result[t] = "saved" => ver[t] \in Versions

StorageIInv ==
  /\ IInv /\ StorageShape /\ PersistOrder /\ SeqOrder /\ SnapshotFresh /\ CleanInv
  /\ SavedVersion /\ ClaimInv

\* What a step of goroutine t outside of persist() does: every claim it leaves is
\* what the memory holds, and what it changes is lazy, or followed by a persist, or
\* makes the storage dirty.
MemoryStep(t) ==
  /\ pc[t] \in {"idle", "resolve"}
  /\ \E p \in {"idle", "resolve", "persist"} : pc' = [pc EXCEPT ![t] = p]
  /\ \E r \in {"none", "skipped", "err"} : result' = [result EXCEPT ![t] = r]
  /\ values' = [k \in Keys |-> values'[k]] /\ schemas' \in [Keys -> Schemas \cup {NoSchema}]
  /\ DOMAIN claim' = Callers
  /\ \A u \in Callers : \A w \in claim'[u] :
       w.key \in Keys /\ Persisted'[w.key] = w.val /\ (u # t => w \in claim[u])
  /\ \/ dirty' = dirty /\ persistSeq' = persistSeq
     \/ dirty' = TRUE /\ persistSeq' = persistSeq + 1
  /\ \A k \in Keys \ lazy' :
       /\ k \notin lazy
       /\ Persisted'[k] = Persisted[k] \/ pc'[t] = "persist" \/ persistSeq' # persistSeq
  /\ UNCHANGED <<persistMu, snap, seq, docs, writerVars>>

\* Claims that are true of the memory vs with the schemas ss.
Honest(claims, vs, ss) ==
  \A w \in claims : w.key \in Keys /\ w.val = Kept(vs, ss)[w.key]

\* What the history remembers of a change: a call's own claims are true, the others
\* lose those that the change made untrue.
LEMMA TrackEffect ==
  ASSUME StorageShape, ClaimInv, NEW t \in Callers, NEW vs, NEW ss, NEW claims, NEW isLazy,
         Honest(claims, vs, ss),
         Track(t, vs, ss, claims, isLazy)
  PROVE  /\ values' = vs /\ schemas' = ss /\ DOMAIN claim' = Callers
         /\ \A k \in Keys : Persisted'[k] = Kept(vs, ss)[k]
         /\ \A u \in Callers : \A w \in claim'[u] :
              w.key \in Keys /\ Persisted'[w.key] = w.val /\ (u # t => w \in claim[u])
         /\ lazy \subseteq lazy'
         /\ isLazy => \A k \in Keys \ lazy' : Persisted'[k] = Persisted[k]
<1> DEFINE changed == {k \in Keys : Kept(vs, ss)[k] # Persisted[k]}
<1>1. /\ values' = vs /\ schemas' = ss
      /\ lazy' = IF isLazy THEN lazy \cup changed ELSE lazy
      /\ claim' = [u \in Callers |-> IF u = t THEN claims ELSE {w \in claim[u] : w.key \notin changed}]
  BY DEF Track
<1>2. \A k \in Keys : Persisted'[k] = Kept(vs, ss)[k]
  BY <1>1 DEF Persisted
<1>3. ASSUME NEW u \in Callers, NEW w \in claim'[u]
      PROVE  w.key \in Keys /\ Persisted'[w.key] = w.val /\ (u # t => w \in claim[u])
  <2>1. CASE u = t
    <3>1. w \in claims
      BY <1>1, <1>3, <2>1
    <3> QED
      BY <1>2, <2>1, <3>1 DEF Honest
  <2>2. CASE u # t
    <3>1. w \in claim[u] /\ w.key \notin changed
      BY <1>1, <1>3, <2>2
    <3>2. w.key \in Keys /\ Persisted[w.key] = w.val
      BY <3>1 DEF ClaimInv
    <3> QED
      BY <1>2, <3>1, <3>2
  <2> QED
    BY <2>1, <2>2
<1>4. isLazy => \A k \in Keys \ lazy' : Persisted'[k] = Persisted[k]
  BY <1>1, <1>2
<1> QED
  BY <1>1, <1>2, <1>3, <1>4

\* A call that changed the memory and goes on to persist() or returns.
LEMMA PersistOrReturnEffect ==
  ASSUME StorageShape, NEW t \in Callers, NEW go, PersistOrReturn(t, go)
  PROVE  /\ \E p \in {"idle", "resolve", "persist"} : pc' = [pc EXCEPT ![t] = p]
         /\ \E r \in {"none", "skipped", "err"} : result' = [result EXCEPT ![t] = r]
         /\ go => pc'[t] = "persist"
  BY DEF PersistOrReturn, StorageShape

\* AddSchema and ChangeSchema go on with the OnGet callback.
LEMMA ToResolveEffect ==
  ASSUME NEW t \in Callers, NEW k, NEW s, ToResolve(t, k, s)
  PROVE  /\ \E p \in {"idle", "resolve", "persist"} : pc' = [pc EXCEPT ![t] = p]
         /\ \E r \in {"none", "skipped", "err"} : result' = [result EXCEPT ![t] = r]
  BY DEF ToResolve

\* A step that changes the memory is a memory step if nothing is lost by it.
LEMMA ChangeIsMemoryStep ==
  ASSUME StorageShape, ClaimInv, NEW t \in Callers, NEW vs, NEW ss, NEW claims, NEW isLazy,
         Honest(claims, vs, ss),
         Track(t, vs, ss, claims, isLazy),
         vs = [k \in Keys |-> vs[k]], ss \in [Keys -> Schemas \cup {NoSchema}],
         pc[t] \in {"idle", "resolve"},
         \E p \in {"idle", "resolve", "persist"} : pc' = [pc EXCEPT ![t] = p],
         \E r \in {"none", "skipped", "err"} : result' = [result EXCEPT ![t] = r],
         \/ dirty' = dirty /\ persistSeq' = persistSeq
         \/ dirty' = TRUE /\ persistSeq' = persistSeq + 1,
         \/ isLazy \/ pc'[t] = "persist" \/ persistSeq' # persistSeq
         \/ \A k \in Keys : Kept(vs, ss)[k] = Persisted[k],
         UNCHANGED <<persistMu, snap, seq, docs, writerVars>>
  PROVE  MemoryStep(t)
<1>1. /\ values' = vs /\ schemas' = ss /\ DOMAIN claim' = Callers
      /\ \A k \in Keys : Persisted'[k] = Kept(vs, ss)[k]
      /\ \A u \in Callers : \A w \in claim'[u] :
           w.key \in Keys /\ Persisted'[w.key] = w.val /\ (u # t => w \in claim[u])
      /\ lazy \subseteq lazy'
      /\ isLazy => \A k \in Keys \ lazy' : Persisted'[k] = Persisted[k]
  BY TrackEffect
<1>2. \A k \in Keys \ lazy' :
        /\ k \notin lazy
        /\ Persisted'[k] = Persisted[k] \/ pc'[t] = "persist" \/ persistSeq' # persistSeq
  BY <1>1
<1>3. values' = [k \in Keys |-> values'[k]] /\ schemas' \in [Keys -> Schemas \cup {NoSchema}]
  BY <1>1
<1> QED
  BY <1>1, <1>2, <1>3 DEF MemoryStep

\* A step that leaves the memory alone is a memory step.
LEMMA QuietIsMemoryStep ==
  ASSUME StorageShape, ClaimInv, NEW t \in Callers, pc[t] \in {"idle", "resolve"},
         \E p \in {"idle", "resolve", "persist"} : pc' = [pc EXCEPT ![t] = p],
         \E r \in {"none", "skipped", "err"} : result' = [result EXCEPT ![t] = r],
         UNCHANGED <<values, schemas, dirty, lazy, claim>>,
         UNCHANGED <<persistSeq, persistMu, snap, seq, docs, writerVars>>
  PROVE  MemoryStep(t)
<1>1. values' = [k \in Keys |-> values'[k]] /\ schemas' \in [Keys -> Schemas \cup {NoSchema}]
      /\ DOMAIN claim' = Callers
  BY DEF StorageShape
<1>2. \A k \in Keys : Persisted'[k] = Persisted[k]
  BY DEF Persisted
<1>3. \A u \in Callers : \A w \in claim'[u] :
        w.key \in Keys /\ Persisted'[w.key] = w.val /\ (u # t => w \in claim[u])
  BY <1>2 DEF ClaimInv
<1> QED
  BY <1>1, <1>2, <1>3 DEF MemoryStep

\* Every call, up to where it persists or returns, is a memory step.
LEMMA CallsAreMemorySteps ==
  ASSUME StorageShape, ClaimInv, NEW t \in Callers, Start(t)
  PROVE  MemoryStep(t)
<1>c. values = [j \in Keys |-> values[j]] /\ schemas \in [Keys -> Schemas \cup {NoSchema}]
  BY DEF StorageShape
<1>1. ASSUME NEW k \in Keys, NEW v \in Passed, SetValue(t, k, v) PROVE MemoryStep(t)
  <2> DEFINE s == schemas[k]
             value == IF v = Nil THEN s.default ELSE v
             new == IF value = Nil THEN Absent ELSE value
             vs == [values EXCEPT ![k] = new]
             claims == IF Storable(s) THEN Claims(vs, schemas, {k}) ELSE {}
             go == Storable(s) /\ (values[k] # new \/ dirty)
  <2>1. /\ pc[t] = "idle" /\ s # NoSchema /\ Track(t, vs, schemas, claims, FALSE)
        /\ PersistOrReturn(t, go) /\ UNCHANGED <<dirty, persistVars, writerVars>>
    BY <1>1 DEF SetValue, Begin
  <2>2. Honest(claims, vs, schemas)
    BY DEF Honest, Claims
  <2>3. vs = [j \in Keys |-> vs[j]]
    BY <1>c
  <2>4. go \/ \A j \in Keys : Kept(vs, schemas)[j] = Persisted[j]
    BY <1>c, <2>1 DEF Persisted, Kept
  <2> HIDE DEF claims, vs, go
  <2>5. /\ \E p \in {"idle", "resolve", "persist"} : pc' = [pc EXCEPT ![t] = p]
        /\ \E r \in {"none", "skipped", "err"} : result' = [result EXCEPT ![t] = r]
        /\ go => pc'[t] = "persist"
    BY <2>1, PersistOrReturnEffect
  <2>6. UNCHANGED <<dirty, persistSeq, persistMu, snap, seq, docs, writerVars>>
    BY <2>1 DEF persistVars
  <2>7. pc'[t] = "persist" \/ \A j \in Keys : Kept(vs, schemas)[j] = Persisted[j]
    BY <2>4, <2>5
  <2>8. pc[t] \in {"idle", "resolve"}
    BY <2>1
  <2>9. dirty' = dirty /\ persistSeq' = persistSeq /\ UNCHANGED <<persistMu, snap, seq, docs, writerVars>>
    BY <2>6
  <2>10. Track(t, vs, schemas, claims, FALSE)
    BY <2>1
  <2> QED
    BY <1>c, <2>2, <2>3, <2>5, <2>7, <2>8, <2>9, <2>10, ChangeIsMemoryStep
<1>2. ASSUME NEW k \in Keys, NEW v \in Passed, SetInternalValue(t, k, v) PROVE MemoryStep(t)
  <2> DEFINE new == IF v = Nil THEN Absent ELSE v
             vs == [values EXCEPT ![k] = new]
             claims == Claims(vs, schemas, {k})
             go == values[k] # new \/ dirty
  <2>1. /\ pc[t] = "idle" /\ Track(t, vs, schemas, claims, FALSE)
        /\ PersistOrReturn(t, go) /\ UNCHANGED <<dirty, persistVars, writerVars>>
    BY <1>2 DEF SetInternalValue, Begin
  <2>2. Honest(claims, vs, schemas)
    BY DEF Honest, Claims
  <2>3. vs = [j \in Keys |-> vs[j]]
    BY <1>c
  <2>4. go \/ \A j \in Keys : Kept(vs, schemas)[j] = Persisted[j]
    BY <1>c DEF Persisted, Kept
  <2> HIDE DEF claims, vs, go
  <2>5. /\ \E p \in {"idle", "resolve", "persist"} : pc' = [pc EXCEPT ![t] = p]
        /\ \E r \in {"none", "skipped", "err"} : result' = [result EXCEPT ![t] = r]
        /\ go => pc'[t] = "persist"
    BY <2>1, PersistOrReturnEffect
  <2>6. UNCHANGED <<dirty, persistSeq, persistMu, snap, seq, docs, writerVars>>
    BY <2>1 DEF persistVars
  <2> QED
    BY <1>c, <2>1, <2>2, <2>3, <2>4, <2>5, <2>6, ChangeIsMemoryStep
<1>3. ASSUME NEW config \in Configs, SetConfig(t, config) PROVE MemoryStep(t)
  <2> DEFINE vs == [k \in Keys |-> IF k \in DOMAIN config THEN config[k] ELSE values[k]]
             claims == Claims(vs, schemas, DOMAIN config)
  <2>1. /\ pc[t] = "idle" /\ Track(t, vs, schemas, claims, FALSE)
        /\ PersistOrReturn(t, TRUE) /\ UNCHANGED <<dirty, persistVars, writerVars>>
    BY <1>3 DEF SetConfig, Begin
  <2>2. Honest(claims, vs, schemas)
    BY ArgumentsAssumption DEF Honest, Claims
  <2>3. vs = [j \in Keys |-> vs[j]]
    OBVIOUS
  <2> HIDE DEF claims, vs
  <2>4. /\ \E p \in {"idle", "resolve", "persist"} : pc' = [pc EXCEPT ![t] = p]
        /\ \E r \in {"none", "skipped", "err"} : result' = [result EXCEPT ![t] = r]
        /\ pc'[t] = "persist"
    BY <2>1, PersistOrReturnEffect
  <2>5. UNCHANGED <<dirty, persistSeq, persistMu, snap, seq, docs, writerVars>>
    BY <2>1 DEF persistVars
  <2> QED
    BY <1>c, <2>1, <2>2, <2>3, <2>4, <2>5, ChangeIsMemoryStep
<1>4. ASSUME NEW ss \in Layouts, DefineSchemas(t, ss) PROVE MemoryStep(t)
  <2> DEFINE vs == Filled(values, ss)
  <2>1. /\ pc[t] = "idle" /\ Track(t, vs, ss, {}, TRUE)
        /\ PersistOrReturn(t, FALSE) /\ UNCHANGED <<dirty, persistVars, writerVars>>
    BY <1>4 DEF DefineSchemas, Begin
  <2>2. Honest({}, vs, ss)
    BY DEF Honest
  <2>3. vs = [j \in Keys |-> vs[j]] /\ ss \in [Keys -> Schemas \cup {NoSchema}]
    BY ArgumentsAssumption DEF Filled
  <2> HIDE DEF vs
  <2>4. /\ \E p \in {"idle", "resolve", "persist"} : pc' = [pc EXCEPT ![t] = p]
        /\ \E r \in {"none", "skipped", "err"} : result' = [result EXCEPT ![t] = r]
    BY <2>1, PersistOrReturnEffect
  <2>5. UNCHANGED <<dirty, persistSeq, persistMu, snap, seq, docs, writerVars>>
    BY <2>1 DEF persistVars
  <2> QED
    BY <2>1, <2>2, <2>3, <2>4, <2>5, ChangeIsMemoryStep
<1>5. ASSUME NEW k \in Keys, NEW s \in Schemas, AddSchema(t, k, s) PROVE MemoryStep(t)
  <2> DEFINE ss == [schemas EXCEPT ![k] = s]
             vs == IF s.default # Nil /\ values[k] = Absent
                   THEN [values EXCEPT ![k] = s.default] ELSE values
  <2>1. /\ pc[t] = "idle" /\ Track(t, vs, ss, {}, TRUE)
        /\ ToResolve(t, k, s) /\ UNCHANGED <<dirty, persistVars, writerVars>>
    BY <1>5 DEF AddSchema, Begin
  <2>2. Honest({}, vs, ss)
    BY DEF Honest
  <2>3. vs = [j \in Keys |-> vs[j]] /\ ss \in [Keys -> Schemas \cup {NoSchema}]
    BY <1>c
  <2> HIDE DEF vs, ss
  <2>4. /\ \E p \in {"idle", "resolve", "persist"} : pc' = [pc EXCEPT ![t] = p]
        /\ \E r \in {"none", "skipped", "err"} : result' = [result EXCEPT ![t] = r]
    BY <2>1, ToResolveEffect
  <2>5. UNCHANGED <<dirty, persistSeq, persistMu, snap, seq, docs, writerVars>>
    BY <2>1 DEF persistVars
  <2> QED
    BY <2>1, <2>2, <2>3, <2>4, <2>5, ChangeIsMemoryStep
<1>6. ASSUME NEW k \in Keys, NEW s \in Schemas, ChangeSchema(t, k, s) PROVE MemoryStep(t)
  <2> DEFINE ss == [schemas EXCEPT ![k] = s]
             flips == Storable(schemas[k]) # Storable(s)
  <2>1. /\ pc[t] = "idle" /\ Track(t, values, ss, {}, FALSE) /\ schemas[k] # NoSchema
        /\ dirty' = (dirty \/ flips) /\ persistSeq' = IF flips THEN persistSeq + 1 ELSE persistSeq
        /\ ToResolve(t, k, s) /\ UNCHANGED <<persistMu, snap, seq, docs, writerVars>>
    BY <1>6 DEF ChangeSchema, Begin
  <2>2. Honest({}, values, ss)
    BY DEF Honest
  <2>3. ss \in [Keys -> Schemas \cup {NoSchema}] /\ s # NoSchema
    BY <1>c, SchemasAssumption
  <2>4. flips \/ \A j \in Keys : Kept(values, ss)[j] = Persisted[j]
    BY <1>c, <2>1, <2>3 DEF Persisted, Kept
  <2>5. \/ ~flips /\ dirty' = dirty /\ persistSeq' = persistSeq
        \/ flips /\ dirty' = TRUE /\ persistSeq' = persistSeq + 1 /\ persistSeq' # persistSeq
    <3> HIDE DEF flips
    <3>1. persistSeq' = IF flips THEN persistSeq + 1 ELSE persistSeq
      BY <2>1
    <3>2. persistSeq + 1 # persistSeq
      BY DEF StorageShape
    <3>3. dirty \in BOOLEAN /\ dirty' = (dirty \/ flips)
      BY <2>1 DEF StorageShape
    <3>4. (flips => dirty' = TRUE) /\ (~flips => dirty' = dirty)
      BY <3>3, Zenon
    <3> QED
      BY <3>1, <3>2, <3>4
  <2> HIDE DEF flips, ss
  <2>6. /\ \E p \in {"idle", "resolve", "persist"} : pc' = [pc EXCEPT ![t] = p]
        /\ \E r \in {"none", "skipped", "err"} : result' = [result EXCEPT ![t] = r]
    BY <2>1, ToResolveEffect
  <2> QED
    BY <1>c, <2>1, <2>2, <2>3, <2>4, <2>5, <2>6, ChangeIsMemoryStep
<1>7. ASSUME NEW k \in Keys, RemoveSchema(t, k) PROVE MemoryStep(t)
  <2> DEFINE ss == [schemas EXCEPT ![k] = NoSchema]
             vs == [values EXCEPT ![k] = Absent]
             claims == Claims(vs, ss, {k})
             go == Storable(schemas[k]) /\ values[k] # Absent
  <2>1. /\ pc[t] = "idle" /\ Track(t, vs, ss, claims, FALSE) /\ schemas[k] # NoSchema
        /\ PersistOrReturn(t, go) /\ UNCHANGED <<dirty, persistVars, writerVars>>
    BY <1>7 DEF RemoveSchema, Begin
  <2>2. Honest(claims, vs, ss)
    BY DEF Honest, Claims
  <2>3. vs = [j \in Keys |-> vs[j]] /\ ss \in [Keys -> Schemas \cup {NoSchema}]
    BY <1>c
  <2>4. go \/ \A j \in Keys : Kept(vs, ss)[j] = Persisted[j]
    BY <1>c, <2>1 DEF Persisted, Kept
  <2> HIDE DEF claims, vs, ss, go
  <2>5. /\ \E p \in {"idle", "resolve", "persist"} : pc' = [pc EXCEPT ![t] = p]
        /\ \E r \in {"none", "skipped", "err"} : result' = [result EXCEPT ![t] = r]
        /\ go => pc'[t] = "persist"
    BY <2>1, PersistOrReturnEffect
  <2>6. UNCHANGED <<dirty, persistSeq, persistMu, snap, seq, docs, writerVars>>
    BY <2>1 DEF persistVars
  <2> QED
    BY <2>1, <2>2, <2>3, <2>4, <2>5, <2>6, ChangeIsMemoryStep
<1>8. ASSUME GetConfig(t) PROVE MemoryStep(t)
  <2>1. /\ pc[t] = "idle" /\ pc' = [pc EXCEPT ![t] = "resolve"]
        /\ result' = [result EXCEPT ![t] = "none"]
        /\ UNCHANGED <<values, schemas, dirty, lazy, claim, persistSeq, persistMu, snap, seq, docs,
                       writerVars>>
    BY <1>8 DEF GetConfig, Begin, memVars, persistVars
  <2> QED
    BY <1>c, <2>1, QuietIsMemoryStep
<1>9. ASSUME SaveStorage(t) PROVE MemoryStep(t)
  <2> DEFINE claims == Claims(values, schemas, Keys)
  <2>1. /\ pc[t] = "idle" /\ Track(t, values, schemas, claims, FALSE)
        /\ PersistOrReturn(t, TRUE) /\ UNCHANGED <<dirty, persistVars, writerVars>>
    BY <1>9 DEF SaveStorage, Begin
  <2>2. Honest(claims, values, schemas)
    BY DEF Honest, Claims
  <2> HIDE DEF claims
  <2>4. /\ \E p \in {"idle", "resolve", "persist"} : pc' = [pc EXCEPT ![t] = p]
        /\ \E r \in {"none", "skipped", "err"} : result' = [result EXCEPT ![t] = r]
        /\ pc'[t] = "persist"
    BY <2>1, PersistOrReturnEffect
  <2>5. UNCHANGED <<dirty, persistSeq, persistMu, snap, seq, docs, writerVars>>
    BY <2>1 DEF persistVars
  <2> QED
    BY <1>c, <2>1, <2>2, <2>4, <2>5, ChangeIsMemoryStep
<1>10. ASSUME Destroy(t) PROVE MemoryStep(t)
  <2> DEFINE vs == [k \in Keys |-> Absent]
             claims == Claims(vs, schemas, Keys)
  <2>1. /\ pc[t] = "idle" /\ Track(t, vs, schemas, claims, FALSE)
        /\ PersistOrReturn(t, TRUE) /\ UNCHANGED <<dirty, persistVars, writerVars>>
    BY <1>10 DEF Destroy, Begin
  <2>2. Honest(claims, vs, schemas)
    BY DEF Honest, Claims
  <2>3. vs = [j \in Keys |-> vs[j]]
    OBVIOUS
  <2> HIDE DEF claims, vs
  <2>4. /\ \E p \in {"idle", "resolve", "persist"} : pc' = [pc EXCEPT ![t] = p]
        /\ \E r \in {"none", "skipped", "err"} : result' = [result EXCEPT ![t] = r]
        /\ pc'[t] = "persist"
    BY <2>1, PersistOrReturnEffect
  <2>5. UNCHANGED <<dirty, persistSeq, persistMu, snap, seq, docs, writerVars>>
    BY <2>1 DEF persistVars
  <2> QED
    BY <1>c, <2>1, <2>2, <2>3, <2>4, <2>5, ChangeIsMemoryStep
<1> QED
  BY <1>1, <1>2, <1>3, <1>4, <1>5, <1>6, <1>7, <1>8, <1>9, <1>10 DEF Start

\* So are the callbacks and what follows them.
LEMMA CallbacksAreMemorySteps ==
  ASSUME StorageShape, PersistOrder, ClaimInv, NEW t \in Callers,
         AfterResolve(t) \/ \E k \in Keys, v \in Passed : ResolveOnGet(t, k, v)
  PROVE  MemoryStep(t)
<1>c. values = [j \in Keys |-> values[j]] /\ schemas \in [Keys -> Schemas \cup {NoSchema}]
  BY DEF StorageShape
<1>1. ASSUME NEW k \in Keys, NEW v \in Passed, ResolveOnGet(t, k, v) PROVE MemoryStep(t)
  <2>1. /\ pc[t] = "resolve" /\ pc' = pc /\ result' = result
        /\ UNCHANGED <<dirty, persistSeq, persistMu, snap, seq, docs, writerVars>>
    BY <1>1 DEF ResolveOnGet, persistVars
  <2>2. /\ \E p \in {"idle", "resolve", "persist"} : pc' = [pc EXCEPT ![t] = p]
        /\ \E r \in {"none", "skipped", "err"} : result' = [result EXCEPT ![t] = r]
    <3>1. pc' = [pc EXCEPT ![t] = "resolve"] /\ result' = [result EXCEPT ![t] = result[t]]
      BY <2>1 DEF StorageShape
    <3>2. result[t] \in {"none", "skipped", "err"}
      BY <2>1 DEF StorageShape, PersistOrder
    <3> QED
      BY <3>1, <3>2
  <2>3. CASE v = Nil
    <3>1. UNCHANGED <<values, schemas, lazy, claim>>
      BY <1>1, <2>3 DEF ResolveOnGet
    <3> QED
      BY <1>c, <2>1, <2>2, <3>1, QuietIsMemoryStep
  <2>4. CASE v # Nil
    <3> DEFINE vs == [values EXCEPT ![k] = v]
    <3>1. Track(t, vs, schemas, {}, TRUE)
      BY <1>1, <2>4 DEF ResolveOnGet
    <3>2. Honest({}, vs, schemas)
      BY DEF Honest
    <3>3. vs = [j \in Keys |-> vs[j]]
      BY <1>c
    <3> HIDE DEF vs
    <3> QED
      BY <1>c, <2>1, <2>2, <3>1, <3>2, <3>3, ChangeIsMemoryStep
  <2> QED
    BY <2>3, <2>4
<1>2. ASSUME AfterResolve(t) PROVE MemoryStep(t)
  <2>1. /\ pc[t] = "resolve"
        /\ PersistOrReturn(t, /\ call[t].op = "schema" /\ Storable(call[t].schema)
                              /\ call[t].old # Lookup(call[t].key))
        /\ UNCHANGED <<values, schemas, dirty, lazy, claim, persistSeq, persistMu, snap, seq, docs,
                       writerVars>>
    BY <1>2 DEF AfterResolve, memVars, persistVars
  <2>2. /\ \E p \in {"idle", "resolve", "persist"} : pc' = [pc EXCEPT ![t] = p]
        /\ \E r \in {"none", "skipped", "err"} : result' = [result EXCEPT ![t] = r]
    BY <2>1, PersistOrReturnEffect
  <2> QED
    BY <1>c, <2>1, <2>2, QuietIsMemoryStep
<1> QED
  BY <1>1, <1>2

\* A step of the storage is a step of its writer, or none.
LEMMA StorageStepsWriter == [StorageNext]_storageVars => [Next]_vars
<1> SUFFICES ASSUME [StorageNext]_storageVars PROVE [Next]_vars
  OBVIOUS
<1>1. ASSUME NEW t \in Callers, Start(t) PROVE vars' = vars
  BY <1>1 DEF Start, SetValue, SetInternalValue, SetConfig, DefineSchemas, AddSchema, ChangeSchema,
      RemoveSchema, GetConfig, SaveStorage, Destroy, writerVars
<1>2. ASSUME NEW t \in Callers, Continue(t) PROVE [Next]_vars
  <2>1. ASSUME NEW k \in Keys, NEW v \in Passed, ResolveOnGet(t, k, v) PROVE vars' = vars
    BY <2>1 DEF ResolveOnGet, writerVars
  <2>2. ASSUME AfterResolve(t) \/ TakeSnapshot(t) PROVE vars' = vars
    BY <2>2 DEF AfterResolve, TakeSnapshot, writerVars
  <2>3. ASSUME EnqueueSnapshot(t) PROVE Save(t) \/ SaveEncodeFails(t)
    BY <2>3 DEF EnqueueSnapshot
  <2>4. ASSUME PersistReturn(t) PROVE Return(t)
    BY <2>4 DEF PersistReturn
  <2> QED
    BY <1>2, <2>1, <2>2, <2>3, <2>4 DEF Continue, Next
<1>3. ASSUME Writer PROVE Next
  BY <1>3 DEF Writer, Next
<1>4. CASE UNCHANGED storageVars
  BY <1>4 DEF storageVars, writerVars
<1> QED
  BY <1>1, <1>2, <1>3, <1>4 DEF StorageNext

\* The parts of the writer that the storage reads.
LEMMA WriterReads ==
  ASSUME IInv
  PROVE  /\ installed \in Nat /\ installed <= MaxSaves /\ durable \in Nat /\ durable <= installed
         /\ ver \in [Callers -> 0 .. MaxSaves] /\ MaxSaves \in Nat
         /\ status \in [Callers -> {"idle", "waiting", "ok", "err"}]
         /\ \A t \in Callers : ver[t] \in Nat /\ ver[t] <= installed
         /\ \A t \in Callers : status[t] = "ok" => durable >= ver[t]
  BY MaxSavesAssumption, VersionFacts DEF IInv, TypeOK, OrderInv, LateOrder, AckInv, WaitCovers, AckedIsDurable

\* ... and after a step.
LEMMA WriterReadsNext ==
  ASSUME IInv'
  PROVE  /\ installed' \in Nat /\ durable' \in Nat /\ durable' <= installed'
         /\ \A t \in Callers : status'[t] = "ok" => durable' >= ver'[t]
  BY VersionFacts DEF IInv, TypeOK, OrderInv, LateOrder, AckInv, AckedIsDurable

\* What the storage reads of the writer stays as it is.
SameWriter == UNCHANGED <<installed, durable, ver, status>>

LEMMA MemoryKeeps ==
  ASSUME StorageIInv, NEW t \in Callers, MemoryStep(t)
  PROVE  /\ StorageShape' /\ PersistOrder' /\ SeqOrder' /\ SnapshotFresh' /\ CleanInv'
         /\ SavedVersion' /\ ClaimInv'
<1>a. /\ StorageShape /\ PersistOrder /\ SeqOrder /\ SnapshotFresh /\ CleanInv /\ SavedVersion
      /\ ClaimInv
  BY DEF StorageIInv
<1>b. UNCHANGED <<persistMu, snap, seq, docs>> /\ SameWriter
  BY DEF MemoryStep, SameWriter, writerVars, vars, storeVars, callVars
<1>c. PICK p \in {"idle", "resolve", "persist"}, r \in {"none", "skipped", "err"} :
        pc' = [pc EXCEPT ![t] = p] /\ result' = [result EXCEPT ![t] = r]
  BY DEF MemoryStep
<1>d. /\ pc[t] \in {"idle", "resolve"} /\ pc'[t] = p /\ result'[t] = r
      /\ \A u \in Callers : u # t => pc'[u] = pc[u] /\ result'[u] = result[u]
      /\ \A u \in Callers : pc'[u] \in {"snap", "wait"} <=> pc[u] \in {"snap", "wait"}
      /\ \A u \in Callers : pc'[u] \in {"snap", "wait"} => pc'[u] = pc[u]
  BY <1>a, <1>c DEF MemoryStep, StorageShape
<1>e. \/ dirty' = dirty /\ persistSeq' = persistSeq
      \/ dirty' = TRUE /\ persistSeq' = persistSeq + 1
  BY DEF MemoryStep
<1>f. persistSeq \in Nat /\ \A u \in Callers : seq[u] \in Nat /\ seq[u] <= persistSeq
  BY <1>a DEF StorageShape, SeqOrder
<1>g. \A u \in Callers : Deciding(u)' <=> Deciding(u) /\ persistSeq' = persistSeq
  BY <1>b, <1>d, <1>e, <1>f DEF Deciding, Persisting
<1>1. StorageShape'
  <2>1. dirty' \in BOOLEAN
    <3>1. dirty \in BOOLEAN /\ (dirty' = dirty \/ dirty' = TRUE)
      BY <1>a, <1>e DEF StorageShape
    <3> QED
      BY <3>1, Zenon
  <2>3. persistSeq' \in Nat
    BY <1>e, <1>f
  <2>2. /\ pc' \in [Callers -> {"idle", "resolve", "persist", "snap", "wait"}]
        /\ result' \in [Callers -> {"none", "skipped", "saved", "err"}]
    BY <1>a, <1>c DEF StorageShape
  <2> QED
    BY <1>a, <1>b, <2>1, <2>2, <2>3 DEF MemoryStep, StorageShape
<1>2. PersistOrder'
  BY <1>a, <1>b, <1>d DEF PersistOrder, SameWriter
<1>3. SeqOrder'
  BY <1>a, <1>b, <1>d, <1>e, <1>f, <1>g DEF SeqOrder, SameWriter
<1>4. SnapshotFresh'
  <2> SUFFICES ASSUME \A u \in Callers : pc'[u] # "persist"
               PROVE  \/ \A k \in Keys \ lazy' : NewestHas(k)'
                      \/ dirty' /\ \A u \in Callers : ~Deciding(u)'
    BY DEF SnapshotFresh
  <2>1. \A u \in Callers : pc[u] # "persist"
    BY <1>d
  <2>2. CASE persistSeq' # persistSeq
    BY <1>e, <1>g, <2>2
  <2>3. CASE persistSeq' = persistSeq
    <3>1. dirty' = dirty
      BY <1>e, <1>f, <2>3
    <3>2. CASE dirty /\ \A u \in Callers : ~Deciding(u)
      BY <1>g, <3>1, <3>2
    <3>3. CASE \A k \in Keys \ lazy : NewestHas(k)
      <4> SUFFICES ASSUME NEW k \in Keys \ lazy' PROVE NewestHas(k)'
        OBVIOUS
      <4>1. k \in Keys \ lazy /\ Persisted'[k] = Persisted[k]
        BY <1>d, <2>3 DEF MemoryStep
      <4>2. NewestHas(k)
        BY <3>3, <4>1
      <4> QED
        BY <1>b, <1>d, <4>1, <4>2 DEF NewestHas, SameWriter
    <3> QED
      BY <1>a, <2>1, <3>2, <3>3 DEF SnapshotFresh
  <2> QED
    BY <2>2, <2>3
<1>5. CleanInv'
  <2> SUFFICES ASSUME ~dirty'
               PROVE  \/ durable' = installed' /\ \A u \in Callers : pc'[u] # "snap"
                      \/ \E u \in Callers : Deciding(u)'
    BY DEF CleanInv
  <2>1. dirty' = dirty /\ persistSeq' = persistSeq
    BY <1>e
  <2>2. \/ durable = installed /\ \A u \in Callers : pc[u] # "snap"
        \/ \E u \in Callers : Deciding(u)
    BY <1>a, <2>1 DEF CleanInv
  <2> QED
    BY <1>b, <1>d, <1>g, <2>1, <2>2 DEF SameWriter
<1>6. SavedVersion'
  BY <1>a, <1>b, <1>d DEF SavedVersion, SameWriter
<1>7. ClaimInv'
  <2> SUFFICES ASSUME NEW u \in Callers, NEW w \in claim'[u]
               PROVE  /\ w.key \in Keys /\ Persisted'[w.key] = w.val
                      /\ pc'[u] = "snap" => snap'[u][w.key] = w.val
                      /\ pc'[u] = "wait" \/ result'[u] = "saved" =>
                           /\ \A v \in Versions : ver'[u] <= v /\ v <= installed' => docs'[v][w.key] = w.val
                           /\ \A x \in Callers : pc'[x] = "snap" => snap'[x][w.key] = w.val
    BY DEF ClaimInv
  <2>1. w.key \in Keys /\ Persisted'[w.key] = w.val /\ (u # t => w \in claim[u])
    BY DEF MemoryStep
  <2>2. CASE u = t
    BY <1>d, <2>1, <2>2
  <2>3. CASE u # t
    <3>1. w \in claim[u] /\ pc'[u] = pc[u] /\ result'[u] = result[u]
      BY <1>d, <2>1, <2>3
    <3> QED
      BY <1>a, <1>b, <1>d, <2>1, <3>1 DEF ClaimInv, SameWriter
  <2> QED
    BY <2>2, <2>3
<1> QED
  BY <1>1, <1>2, <1>3, <1>4, <1>5, <1>6, <1>7

\* A goroutine takes persistMu and a snapshot of the memory.
LEMMA TakeKeeps ==
  ASSUME StorageIInv, NEW t \in Callers, TakeSnapshot(t)
  PROVE  /\ StorageShape' /\ PersistOrder' /\ SeqOrder' /\ SnapshotFresh' /\ CleanInv'
         /\ SavedVersion' /\ ClaimInv'
<1>a. /\ StorageShape /\ PersistOrder /\ SeqOrder /\ CleanInv /\ SavedVersion /\ ClaimInv
  BY DEF StorageIInv
<1>b. /\ pc[t] = "persist" /\ persistMu = {} /\ persistMu' = {t} /\ lazy' = {}
      /\ snap' = [snap EXCEPT ![t] = Persisted] /\ persistSeq' = persistSeq + 1
      /\ seq' = [seq EXCEPT ![t] = persistSeq + 1] /\ pc' = [pc EXCEPT ![t] = "snap"]
      /\ UNCHANGED <<values, schemas, dirty, claim, docs, result>> /\ SameWriter
  BY DEF TakeSnapshot, SameWriter, writerVars, vars, storeVars, callVars
<1>c. \A u \in Callers : pc[u] # "snap"
  BY <1>a, <1>b DEF PersistOrder
<1>d. /\ pc'[t] = "snap" /\ \A u \in Callers : u # t => pc'[u] = pc[u]
      /\ snap'[t] = Persisted /\ \A u \in Callers : u # t => snap'[u] = snap[u]
      /\ seq'[t] = persistSeq' /\ \A u \in Callers : u # t => seq'[u] = seq[u]
  BY <1>a, <1>b DEF StorageShape
<1>e. /\ persistSeq \in Nat /\ \A u \in Callers : seq[u] \in Nat /\ seq[u] <= persistSeq
  BY <1>a DEF StorageShape, SeqOrder
<1>f. Persisted' = Persisted
  BY <1>b DEF Persisted
<1>g. \A u \in Callers : Deciding(u)' <=> u = t
  BY <1>b, <1>d, <1>e DEF Deciding, Persisting
<1>1. StorageShape'
  BY <1>a, <1>b DEF StorageShape
<1>2. PersistOrder'
  BY <1>a, <1>b, <1>c, <1>d DEF PersistOrder, SameWriter
<1>3. SeqOrder'
  <2>1. \A u \in Callers : seq'[u] <= persistSeq'
    BY <1>b, <1>d, <1>e
  <2> QED
    BY <1>d, <1>g, <2>1 DEF SeqOrder
<1>4. SnapshotFresh'
  <2>1. \A k \in Keys : NewestHas(k)'
    BY <1>c, <1>d, <1>f DEF NewestHas
  <2> QED
    BY <2>1 DEF SnapshotFresh
<1>5. CleanInv'
  BY <1>g DEF CleanInv
<1>6. SavedVersion'
  BY <1>a, <1>b, <1>d DEF SavedVersion, SameWriter
<1>7. ClaimInv'
  <2> SUFFICES ASSUME NEW u \in Callers, NEW w \in claim[u]
               PROVE  /\ w.key \in Keys /\ Persisted'[w.key] = w.val
                      /\ pc'[u] = "snap" => snap'[u][w.key] = w.val
                      /\ pc'[u] = "wait" \/ result'[u] = "saved" =>
                           /\ \A v \in Versions : ver'[u] <= v /\ v <= installed' => docs'[v][w.key] = w.val
                           /\ \A x \in Callers : pc'[x] = "snap" => snap'[x][w.key] = w.val
    BY <1>b DEF ClaimInv
  <2>1. w.key \in Keys /\ Persisted[w.key] = w.val
    BY <1>a DEF ClaimInv
  <2>2. \A x \in Callers : pc'[x] = "snap" => snap'[x][w.key] = w.val
    BY <1>c, <1>d, <2>1
  <2>3. pc'[u] = "wait" \/ result'[u] = "saved" => pc[u] = "wait" \/ result[u] = "saved"
    BY <1>b, <1>d
  <2> QED
    BY <1>a, <1>b, <1>f, <2>1, <2>2, <2>3 DEF ClaimInv, SameWriter
<1> QED
  BY <1>1, <1>2, <1>3, <1>4, <1>5, <1>6, <1>7

\* The snapshot becomes the newest document.
LEMMA EnqueueKeeps ==
  ASSUME StorageIInv, IInv', NEW t \in Callers, EnqueueSnapshot(t)
  PROVE  /\ StorageShape' /\ PersistOrder' /\ SeqOrder' /\ SnapshotFresh' /\ CleanInv'
         /\ SavedVersion' /\ ClaimInv'
<1>a. /\ StorageShape /\ PersistOrder /\ SeqOrder /\ SnapshotFresh /\ CleanInv /\ SavedVersion
      /\ ClaimInv /\ IInv
  BY DEF StorageIInv
<1>b. /\ pc[t] = "snap" /\ persistMu' = {} /\ pc' = [pc EXCEPT ![t] = "wait"]
      /\ docs' = [docs EXCEPT ![installed + 1] = snap[t]]
      /\ UNCHANGED <<values, schemas, dirty, lazy, claim, persistSeq, snap, seq, result>>
  BY DEF EnqueueSnapshot, memVars
<1>c. /\ installed < MaxSaves /\ installed' = installed + 1 /\ durable' = durable
      /\ ver' = [ver EXCEPT ![t] = installed + 1] /\ status' = [status EXCEPT ![t] = "waiting"]
  BY DEF EnqueueSnapshot, Save, SaveEncodeFails, Install, storeVars
<1>d. /\ installed \in Nat /\ MaxSaves \in Nat /\ installed + 1 \in Versions
      /\ ver \in [Callers -> 0 .. MaxSaves] /\ status \in [Callers -> {"idle", "waiting", "ok", "err"}]
      /\ \A u \in Callers : ver[u] \in Nat /\ ver[u] <= installed
  BY <1>a, <1>c, WriterReads DEF Versions
<1>e. /\ pc'[t] = "wait" /\ \A u \in Callers : u # t => pc'[u] = pc[u]
      /\ ver'[t] = installed' /\ \A u \in Callers : u # t => ver'[u] = ver[u]
      /\ status'[t] = "waiting" /\ \A u \in Callers : u # t => status'[u] = status[u]
      /\ docs'[installed'] = snap[t] /\ \A v \in Versions : v # installed' => docs'[v] = docs[v]
      /\ \A u \in Callers : pc'[u] # "snap"
  BY <1>a, <1>b, <1>c, <1>d DEF StorageShape, PersistOrder
<1>f. Persisted' = Persisted
  BY <1>b DEF Persisted
<1>g. \A u \in Callers : Deciding(u)' <=> Deciding(u)
  BY <1>b, <1>e DEF Deciding, Persisting
<1>1. StorageShape'
  BY <1>a, <1>b DEF StorageShape
<1>2. PersistOrder'
  <2>1. persistMu' = {u \in Callers : pc'[u] = "snap"}
    BY <1>b, <1>e
  <2> QED
    BY <1>a, <1>b, <1>e, <2>1 DEF PersistOrder
<1>3. SeqOrder'
  <2>1. \A u, x \in Callers : Deciding(u)' /\ pc'[u] = "wait" => pc'[x] # "snap" /\ ver'[u] = installed'
    <3> SUFFICES ASSUME NEW u \in Callers, Deciding(u)', pc'[u] = "wait" PROVE ver'[u] = installed'
      BY <1>e
    <3>1. u = t
      BY <1>a, <1>b, <1>e, <1>g DEF SeqOrder
    <3> QED
      BY <1>e, <3>1
  <2> QED
    BY <1>a, <1>b, <1>g, <2>1 DEF SeqOrder
<1>4. SnapshotFresh'
  <2>1. \A k \in Keys : NewestHas(k) => NewestHas(k)'
    BY <1>b, <1>c, <1>d, <1>e, <1>f DEF NewestHas
  <2>2. (\A u \in Callers : pc'[u] # "persist") => \A u \in Callers : pc[u] # "persist"
    BY <1>b, <1>e
  <2> QED
    BY <1>a, <1>b, <1>g, <2>1, <2>2 DEF SnapshotFresh
<1>5. CleanInv'
  BY <1>a, <1>b, <1>g DEF CleanInv
<1>6. SavedVersion'
  BY <1>a, <1>b, <1>c, <1>d, <1>e DEF SavedVersion
<1>7. ClaimInv'
  <2> SUFFICES ASSUME NEW u \in Callers, NEW w \in claim[u], pc'[u] = "wait" \/ result'[u] = "saved",
                      NEW v \in Versions, ver'[u] <= v, v <= installed'
               PROVE  docs'[v][w.key] = w.val
    BY <1>a, <1>b, <1>e, <1>f DEF ClaimInv
  <2>1. CASE v = installed'
    <3>1. snap[t][w.key] = w.val
      BY <1>a, <1>b, <1>e DEF ClaimInv
    <3> QED
      BY <1>e, <2>1, <3>1
  <2>2. CASE v # installed'
    <3>1. v <= installed /\ v \in Nat
      BY <1>c, <1>d, <2>2 DEF Versions
    <3>2. u # t
      BY <1>c, <1>d, <1>e, <3>1
    <3> QED
      BY <1>a, <1>b, <1>e, <2>2, <3>1, <3>2 DEF ClaimInv
  <2> QED
    BY <2>1, <2>2
<1> QED
  BY <1>1, <1>2, <1>3, <1>4, <1>5, <1>6, <1>7

\* The outcome of a persist; only the newest one decides about dirty.
LEMMA ReturnKeeps ==
  ASSUME StorageIInv, IInv', NEW t \in Callers, PersistReturn(t)
  PROVE  /\ StorageShape' /\ PersistOrder' /\ SeqOrder' /\ SnapshotFresh' /\ CleanInv'
         /\ SavedVersion' /\ ClaimInv'
<1>a. /\ StorageShape /\ PersistOrder /\ SeqOrder /\ SnapshotFresh /\ CleanInv /\ SavedVersion
      /\ ClaimInv /\ IInv
  BY DEF StorageIInv
<1>b. /\ pc[t] = "wait" /\ pc' = [pc EXCEPT ![t] = "idle"]
      /\ dirty' = IF seq[t] = persistSeq THEN Outcome(t) = "err" ELSE dirty
      /\ result' = [result EXCEPT ![t] = IF Outcome(t) = "ok" THEN "saved" ELSE "err"]
      /\ UNCHANGED <<values, schemas, lazy, claim, persistSeq, persistMu, snap, seq, docs>>
  BY DEF PersistReturn, persistVars
<1>c. /\ Outcome(t) # "open" /\ status' = [status EXCEPT ![t] = Outcome(t)]
      /\ UNCHANGED <<installed, durable, ver>>
  BY DEF PersistReturn, Return, storeVars
<1>d. Outcome(t) \in {"ok", "err"}
  <2>1. done \in [Versions -> {"open", "ok", "err"}] /\ wait[t] \in 0 .. MaxSaves
    BY <1>a DEF IInv, TypeOK
  <2> QED
    BY <1>c, <2>1, VersionFacts DEF Outcome
<1>e. /\ pc'[t] = "idle" /\ \A u \in Callers : u # t => pc'[u] = pc[u]
      /\ \A u \in Callers : u # t => result'[u] = result[u]
      /\ result'[t] = IF Outcome(t) = "ok" THEN "saved" ELSE "err"
  BY <1>a, <1>b DEF StorageShape
<1>f. status'[t] = Outcome(t) /\ \A u \in Callers : u # t => status'[u] = status[u]
  BY <1>a, <1>c, WriterReads
<1>g. Persisted' = Persisted
  BY <1>b DEF Persisted
<1>h. \A u \in Callers : Deciding(u)' <=> u # t /\ Deciding(u)
  BY <1>b, <1>e DEF Deciding, Persisting
<1>i. Deciding(t) <=> seq[t] = persistSeq
  BY <1>b DEF Deciding, Persisting
<1>1. StorageShape'
  <2>1. dirty' \in BOOLEAN
    <3>1. dirty \in BOOLEAN
      BY <1>a DEF StorageShape
    <3> QED
      BY <1>b, <3>1, Zenon
  <2>2. /\ pc' \in [Callers -> {"idle", "resolve", "persist", "snap", "wait"}]
        /\ result' \in [Callers -> {"none", "skipped", "saved", "err"}]
    BY <1>a, <1>b DEF StorageShape
  <2> QED
    BY <1>a, <1>b, <2>1, <2>2 DEF StorageShape
<1>2. PersistOrder'
  <2>1. persistMu' = {u \in Callers : pc'[u] = "snap"}
    BY <1>a, <1>b, <1>e DEF PersistOrder
  <2> QED
    BY <1>a, <1>d, <1>e, <1>f, <2>1 DEF PersistOrder
<1>3. SeqOrder'
  BY <1>a, <1>b, <1>c, <1>e, <1>h DEF SeqOrder
<1>4. SnapshotFresh'
  <2> SUFFICES ASSUME \A u \in Callers : pc'[u] # "persist"
               PROVE  \/ \A k \in Keys \ lazy' : NewestHas(k)'
                      \/ dirty' /\ \A u \in Callers : ~Deciding(u)'
    BY DEF SnapshotFresh
  <2>1. \A u \in Callers : pc[u] # "persist"
    BY <1>b, <1>e
  <2>2. CASE \A k \in Keys \ lazy : NewestHas(k)
    <3>1. \A k \in Keys : NewestHas(k) => NewestHas(k)'
      BY <1>b, <1>c, <1>e, <1>g DEF NewestHas
    <3> QED
      BY <1>b, <2>2, <3>1
  <2>3. CASE dirty /\ \A u \in Callers : ~Deciding(u)
    BY <1>b, <1>h, <1>i, <2>3
  <2> QED
    BY <1>a, <2>1, <2>2, <2>3 DEF SnapshotFresh
<1>5. CleanInv'
  <2> SUFFICES ASSUME ~dirty'
               PROVE  \/ durable' = installed' /\ \A u \in Callers : pc'[u] # "snap"
                      \/ \E u \in Callers : Deciding(u)'
    BY DEF CleanInv
  <2>1. CASE Deciding(t)
    <3>1. Outcome(t) = "ok"
      BY <1>b, <1>d, <1>i, <2>1
    <3>2. durable' >= ver'[t] /\ durable' \in Nat /\ installed' \in Nat /\ durable' <= installed'
      <4>1. /\ installed' \in Nat /\ durable' \in Nat /\ durable' <= installed'
            /\ \A u \in Callers : status'[u] = "ok" => durable' >= ver'[u]
        BY WriterReadsNext
      <4> QED
        BY <1>f, <3>1, <4>1
    <3>3. ver[t] = installed /\ \A u \in Callers : pc[u] # "snap"
      BY <1>a, <1>b, <2>1 DEF SeqOrder
    <3> QED
      BY <1>c, <1>e, <3>2, <3>3
  <2>2. CASE ~Deciding(t)
    <3>1. ~dirty
      BY <1>b, <1>i, <2>2
    <3>2. \/ durable = installed /\ \A u \in Callers : pc[u] # "snap"
          \/ \E u \in Callers : Deciding(u)
      BY <1>a, <3>1 DEF CleanInv
    <3> QED
      BY <1>c, <1>e, <1>h, <2>2, <3>2
  <2> QED
    BY <2>1, <2>2
<1>6. SavedVersion'
  BY <1>a, <1>b, <1>c, <1>e DEF SavedVersion
<1>7. ClaimInv'
  BY <1>a, <1>b, <1>c, <1>e, <1>g DEF ClaimInv
<1> QED
  BY <1>1, <1>2, <1>3, <1>4, <1>5, <1>6, <1>7

\* The drainer and the backend: documents only get durable.
LEMMA WriterKeepsStorage ==
  ASSUME StorageIInv, IInv', Writer
  PROVE  /\ StorageShape' /\ PersistOrder' /\ SeqOrder' /\ SnapshotFresh' /\ CleanInv'
         /\ SavedVersion' /\ ClaimInv'
<1>a. /\ StorageShape /\ PersistOrder /\ SeqOrder /\ SnapshotFresh /\ CleanInv /\ SavedVersion
      /\ ClaimInv /\ IInv
  BY DEF StorageIInv
<1>b. /\ UNCHANGED <<values, schemas, dirty, lazy, claim, persistSeq, persistMu, snap, seq, docs>>
      /\ UNCHANGED <<pc, result>>
  BY DEF Writer, memVars, persistVars
<1>c. UNCHANGED <<installed, ver, status>>
  BY DEF Writer, Drain, Take, Exit, FlushOk, FlushFail, Close, LatePut, callVars
<1>d. durable' >= durable /\ durable' \in Nat /\ durable' <= installed'
  <2>1. durable' \in Nat /\ durable' <= installed'
    BY WriterReadsNext
  <2>2. durable' >= durable
    BY <1>a, DurableStep DEF IInv, Writer, Next
  <2> QED
    BY <2>1, <2>2
<1>e. Persisted' = Persisted
  BY <1>b DEF Persisted
<1>f. \A u \in Callers : Deciding(u)' <=> Deciding(u)
  BY <1>b DEF Deciding, Persisting
<1>1. StorageShape'
  BY <1>a, <1>b DEF StorageShape
<1>2. PersistOrder' /\ SavedVersion'
  BY <1>a, <1>b, <1>c DEF PersistOrder, SavedVersion
<1>3. SeqOrder'
  BY <1>a, <1>b, <1>c, <1>f DEF SeqOrder
<1>4. SnapshotFresh'
  <2>1. \A k \in Keys : NewestHas(k)' <=> NewestHas(k)
    BY <1>b, <1>c, <1>e DEF NewestHas
  <2> QED
    BY <1>a, <1>b, <1>f, <2>1 DEF SnapshotFresh
<1>5. CleanInv'
  <2>1. durable = installed => durable' = installed'
    BY <1>a, <1>c, <1>d, WriterReads
  <2> QED
    BY <1>a, <1>b, <1>f, <2>1 DEF CleanInv
<1>6. ClaimInv'
  BY <1>a, <1>b, <1>c, <1>e DEF ClaimInv
<1> QED
  BY <1>1, <1>2, <1>3, <1>4, <1>5, <1>6

LEMMA StorageStart == StorageInit => StorageIInv
<1> SUFFICES ASSUME StorageInit PROVE StorageIInv
  OBVIOUS
<1>1. IInv
  BY WriterStart DEF StorageInit
<1>2. StorageShape
  BY DEF StorageInit, StorageShape
<1>3. /\ \A t \in Callers : pc[t] = "idle" /\ result[t] = "none" /\ status[t] = "idle" /\ claim[t] = {}
      /\ \A t \in Callers : seq[t] = 0
      /\ persistMu = {} /\ persistSeq = 0 /\ durable = 0 /\ installed = 0
  BY DEF StorageInit, Init
<1>4. PersistOrder /\ SeqOrder /\ SavedVersion /\ ClaimInv
  BY <1>3 DEF PersistOrder, SeqOrder, SavedVersion, ClaimInv, Deciding, Persisting
<1>5. SnapshotFresh
  <2>1. \A k \in Keys : Persisted[k] = Absent
    BY DEF StorageInit, Persisted, Kept
  <2> QED
    BY <1>3, <2>1 DEF SnapshotFresh, NewestHas
<1>6. CleanInv
  BY <1>3 DEF CleanInv
<1> QED
  BY <1>1, <1>2, <1>4, <1>5, <1>6 DEF StorageIInv

LEMMA StorageKeeps == StorageIInv /\ [StorageNext]_storageVars => StorageIInv'
<1> SUFFICES ASSUME StorageIInv, [StorageNext]_storageVars PROVE StorageIInv'
  OBVIOUS
<1>1. IInv'
  BY StorageStepsWriter, WriterKeeps DEF StorageIInv
<1>a. StorageShape /\ PersistOrder /\ ClaimInv
  BY DEF StorageIInv
<1>2. ASSUME NEW t \in Callers, Start(t) PROVE StorageIInv'
  BY <1>1, <1>2, <1>a, CallsAreMemorySteps, MemoryKeeps DEF StorageIInv
<1>3. ASSUME NEW t \in Callers, Continue(t) PROVE StorageIInv'
  <2>1. CASE AfterResolve(t) \/ \E k \in Keys, v \in Passed : ResolveOnGet(t, k, v)
    BY <1>1, <1>a, <2>1, CallbacksAreMemorySteps, MemoryKeeps DEF StorageIInv
  <2>2. CASE TakeSnapshot(t)
    BY <1>1, <2>2, TakeKeeps DEF StorageIInv
  <2>3. CASE EnqueueSnapshot(t)
    BY <1>1, <2>3, EnqueueKeeps DEF StorageIInv
  <2>4. CASE PersistReturn(t)
    BY <1>1, <2>4, ReturnKeeps DEF StorageIInv
  <2> QED
    BY <1>3, <2>1, <2>2, <2>3, <2>4 DEF Continue
<1>4. CASE Writer
  BY <1>1, <1>4, WriterKeepsStorage DEF StorageIInv
<1>5. CASE UNCHANGED storageVars
  <2>1. /\ UNCHANGED <<values, schemas, dirty, lazy, claim, persistSeq, persistMu, snap, seq, docs>>
        /\ UNCHANGED <<pc, result, installed, ver, status, durable>>
    BY <1>5 DEF storageVars, memVars, persistVars, writerVars, vars, storeVars, callVars
  <2>2. Persisted' = Persisted
    BY <2>1 DEF Persisted
  <2>3. \A u \in Callers : Deciding(u)' <=> Deciding(u)
    BY <2>1 DEF Deciding, Persisting
  <2>4. \A k \in Keys : NewestHas(k)' <=> NewestHas(k)
    BY <2>1, <2>2 DEF NewestHas
  <2>5. StorageShape' /\ PersistOrder' /\ SavedVersion'
    BY <2>1 DEF StorageIInv, StorageShape, PersistOrder, SavedVersion
  <2>6. SeqOrder' /\ SnapshotFresh' /\ CleanInv'
    BY <2>1, <2>3, <2>4 DEF StorageIInv, SeqOrder, SnapshotFresh, CleanInv
  <2>7. ClaimInv'
    BY <2>1, <2>2 DEF StorageIInv, ClaimInv
  <2> QED
    BY <1>1, <2>5, <2>6, <2>7 DEF StorageIInv
<1> QED
  BY <1>2, <1>3, <1>4, <1>5 DEF StorageNext

\* The inductive invariant of the storage and its writer.
THEOREM StorageInductive == StorageSpec => []StorageIInv
  BY StorageStart, StorageKeeps, PTL DEF StorageSpec

\* What the backend holds is the newest document that got durable.
LEMMA DurableDoc ==
  ASSUME StorageIInv, durable # 0
  PROVE  durable \in Versions /\ Durable = docs[durable]
<1>1. durable \in Nat /\ durable <= MaxSaves /\ MaxSaves \in Nat
  BY WriterReads DEF StorageIInv
<1> QED
  BY <1>1 DEF Durable, Versions

\* Whoever was told that its call was saved finds it in the backend, unless another
\* call changed it since, for any number of goroutines, keys, values and schemas.
THEOREM SavedDurable == StorageSpec => []SavedIsDurable
<1>1. StorageIInv => SavedIsDurable
  <2> SUFFICES ASSUME StorageIInv, NEW t \in Callers, result[t] = "saved", NEW w \in claim[t]
               PROVE  Durable[w.key] = w.val
    BY DEF SavedIsDurable
  <2>1. ver[t] \in Versions /\ durable >= ver[t] /\ durable <= installed /\ durable \in Nat
    BY WriterReads DEF StorageIInv, PersistOrder, SavedVersion
  <2>2. durable # 0
    BY <2>1 DEF Versions
  <2>3. durable \in Versions /\ Durable = docs[durable]
    BY <2>2, DurableDoc
  <2>4. ver[t] <= durable
    BY <2>1 DEF Versions
  <2> QED
    BY <2>1, <2>3, <2>4 DEF StorageIInv, ClaimInv
<1> QED
  BY <1>1, StorageInductive, PTL

\* A storage at rest that is not dirty equals its document, but for the keys that an
\* operation changed without a persist.
THEOREM CleanDurable == StorageSpec => []CleanMeansDurable
<1>1. StorageIInv => CleanMeansDurable
  <2> SUFFICES ASSUME StorageIInv, ~dirty, \A t \in Callers : pc[t] \notin {"persist", "snap", "wait"},
                      NEW k \in Keys \ lazy
               PROVE  Durable[k] = Persisted[k]
    BY DEF CleanMeansDurable
  <2>1. \A t \in Callers : ~Deciding(t) /\ pc[t] # "snap" /\ pc[t] # "persist"
    BY DEF Deciding, Persisting
  <2>2. durable = installed
    BY <2>1 DEF StorageIInv, CleanInv
  <2>3. Persisted[k] = IF installed = 0 THEN Absent ELSE docs[installed][k]
    BY <2>1 DEF StorageIInv, SnapshotFresh, NewestHas
  <2> QED
    BY <2>2, <2>3, DurableDoc DEF Durable
<1> QED
  BY <1>1, StorageInductive, PTL
=============================================================================
