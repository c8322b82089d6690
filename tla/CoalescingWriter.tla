-------------------------- MODULE CoalescingWriter --------------------------
(***************************************************************************)
(* The write path of the configuration store: configPersistence.save       *)
(* (filePersistence and remotePersistence), the coalescingWriter both use, *)
(* its drainer goroutine and the wait of every caller                      *)
(* (src/go/config_persistence.go).                                         *)
(*                                                                         *)
(* Documents are named by their version: the i-th save installs version i. *)
(* Snapshots are whole documents, so version i contains every change of    *)
(* the versions below it.  A pendingFlush is named by the version of the   *)
(* save that created it and a drainer goroutine by the version of the save *)
(* that started it; 0 is the nil pointer.                                  *)
(***************************************************************************)
EXTENDS Naturals

CONSTANTS
  Callers,    \* the goroutines that save
  MaxSaves,   \* bound: documents installed in one behaviour
  Backends    \* the kinds of persistence: subset of {"file", "remote"}

ASSUME MaxSavesAssumption == MaxSaves \in Nat
ASSUME BackendsAssumption == Backends \subseteq {"file", "remote"}

VARIABLES
  installed,  \* version of fp.doc / rp.cache
  pending,    \* w.pending
  inFlight,   \* w.inFlight
  snapshot,   \* p.snapshot of every pendingFlush, 0 while it does not exist
  done,       \* p.done and p.err: "open", or the outcome once done is closed
  drainer,    \* where each run() goroutine is
  taken,      \* the local p of each run() goroutine
  durable,    \* version the store file or the master holds
  backend,    \* "file": filePersistence, "remote": remotePersistence
  late,       \* puts that timed out here and may still reach the master
  wait,       \* pendingFlush each caller waits on, 0: an encode error
  ver,        \* version each caller installed last
  status      \* "idle", "waiting", or the outcome the caller's wait returned

queueVars == <<pending, inFlight, snapshot>>
drainVars == <<drainer, taken, done>>
storeVars == <<backend, durable, late>>
callVars == <<wait, ver, status>>
vars == <<installed, queueVars, drainVars, storeVars, callVars>>

Versions == 1 .. MaxSaves

TypeOK ==
  /\ installed \in 0 .. MaxSaves
  /\ pending \in 0 .. MaxSaves
  /\ inFlight \in BOOLEAN
  /\ snapshot \in [Versions -> 0 .. MaxSaves]
  /\ done \in [Versions -> {"open", "ok", "err"}]
  /\ drainer \in [Versions -> {"none", "top", "flush", "ok", "err"}]
  /\ taken \in [Versions -> 0 .. MaxSaves]
  /\ backend \in Backends
  /\ durable \in 0 .. MaxSaves
  /\ late \in SUBSET Versions
  /\ wait \in [Callers -> 0 .. MaxSaves]
  /\ ver \in [Callers -> 0 .. MaxSaves]
  /\ status \in [Callers -> {"idle", "waiting", "ok", "err"}]

Init ==
  /\ installed = 0
  /\ pending = 0
  /\ inFlight = FALSE
  /\ snapshot = [p \in Versions |-> 0]
  /\ done = [p \in Versions |-> "open"]
  /\ drainer = [d \in Versions |-> "none"]
  /\ taken = [d \in Versions |-> 0]
  /\ backend \in Backends
  /\ durable = 0
  /\ late = {}
  /\ wait = [c \in Callers |-> 0]
  /\ ver = [c \in Callers |-> 0]
  /\ status = [c \in Callers |-> "idle"]

-----------------------------------------------------------------------------
(* coalescingWriter.enqueue and the two save methods                        *)

\* The pendingFlush that a save of version v joins: the pending one, or a new
\* one named v.
Joined(v) == IF pending = 0 THEN v ELSE pending

\* A slip: only the first save of a pending flush sets its snapshot.
EnqueueKeepsFirst(v) ==
  /\ pending' = Joined(v)
  /\ snapshot' = IF pending = 0 THEN [snapshot EXCEPT ![v] = v] ELSE snapshot
  /\ inFlight' = TRUE
  /\ drainer' = IF inFlight THEN drainer ELSE [drainer EXCEPT ![v] = "top"]
  /\ UNCHANGED <<taken, done>>

\* A slip: every enqueue starts a drainer.
EnqueueAlwaysStarts(v) ==
  /\ pending' = Joined(v)
  /\ snapshot' = [snapshot EXCEPT ![Joined(v)] = v]
  /\ inFlight' = TRUE
  /\ drainer' = [drainer EXCEPT ![v] = "top"]
  /\ UNCHANGED <<taken, done>>

\* enqueue(snapshot) under w.mu: the newest snapshot replaces the pending one
\* and a drainer is started when none runs.
Enqueue(v) ==
  /\ pending' = Joined(v)
  /\ snapshot' = [snapshot EXCEPT ![Joined(v)] = v]
  /\ inFlight' = TRUE
  /\ drainer' = IF inFlight THEN drainer ELSE [drainer EXCEPT ![v] = "top"]
  /\ UNCHANGED <<taken, done>>

\* The caller's side of a save: the document is installed as the next version
\* and the caller waits on flush p.
Install(c, p) ==
  /\ status[c] # "waiting"
  /\ installed < MaxSaves
  /\ installed' = installed + 1
  /\ wait' = [wait EXCEPT ![c] = p]
  /\ ver' = [ver EXCEPT ![c] = installed + 1]
  /\ status' = [status EXCEPT ![c] = "waiting"]

\* save(): install the document and enqueue its snapshot before unlocking.
Save(c) ==
  /\ Install(c, Joined(installed + 1))
  /\ Enqueue(installed + 1)
  /\ UNCHANGED storeVars

\* filePersistence.save when encodeEnvelope fails: the document stays
\* installed, nothing is enqueued, the returned wait reports the error.
SaveEncodeFails(c) ==
  /\ backend = "file"
  /\ Install(c, 0)
  /\ UNCHANGED <<queueVars, drainVars, storeVars>>

-----------------------------------------------------------------------------
(* coalescingWriter.run                                                     *)

\* A slip: inFlight is cleared when the flush is taken, not when run returns.
TakeClearsInFlight(d) ==
  /\ drainer[d] = "top"
  /\ pending # 0
  /\ taken' = [taken EXCEPT ![d] = pending]
  /\ pending' = 0
  /\ inFlight' = FALSE
  /\ drainer' = [drainer EXCEPT ![d] = "flush"]
  /\ UNCHANGED <<installed, snapshot, done, storeVars, callVars>>

\* Loop head with something pending: take it, under w.mu.
Take(d) ==
  /\ drainer[d] = "top"
  /\ pending # 0
  /\ taken' = [taken EXCEPT ![d] = pending]
  /\ pending' = 0
  /\ drainer' = [drainer EXCEPT ![d] = "flush"]
  /\ UNCHANGED <<installed, inFlight, snapshot, done, storeVars, callVars>>

\* Loop head with nothing pending: clear inFlight and return, under w.mu.
Exit(d) ==
  /\ drainer[d] = "top"
  /\ pending = 0
  /\ inFlight' = FALSE
  /\ drainer' = [drainer EXCEPT ![d] = "none"]
  /\ UNCHANGED <<installed, pending, snapshot, taken, done, storeVars, callVars>>

\* The flush succeeds: the rename took effect, or the master acknowledged the
\* put.  The connection is ordered, so no earlier put arrives after it.
FlushOk(d) ==
  /\ drainer[d] = "flush"
  /\ durable' = snapshot[taken[d]]
  /\ late' = {}
  /\ drainer' = [drainer EXCEPT ![d] = "ok"]
  /\ UNCHANGED <<installed, queueVars, taken, done, backend, callVars>>

\* A slip: a failed flush skips delivering its outcome.
FlushFailSilent(d) ==
  /\ drainer[d] = "flush"
  /\ drainer' = [drainer EXCEPT ![d] = "top"]
  /\ taken' = [taken EXCEPT ![d] = 0]
  /\ UNCHANGED <<installed, queueVars, done, storeVars, callVars>>

\* A slip: the error of a failed flush is swallowed.
FlushFailSwallowed(d) ==
  /\ drainer[d] = "flush"
  /\ drainer' = [drainer EXCEPT ![d] = "ok"]
  /\ UNCHANGED <<installed, queueVars, taken, done, storeVars, callVars>>

\* The flush returns an error or panics (runFlush recovers).  A file write
\* left the file alone; a put that timed out may still arrive.
FlushFail(d) ==
  /\ drainer[d] = "flush"
  /\ \/ UNCHANGED late
     \/ backend = "remote" /\ late' = late \cup {snapshot[taken[d]]}
  /\ drainer' = [drainer EXCEPT ![d] = "err"]
  /\ UNCHANGED <<installed, queueVars, taken, done, backend, durable, callVars>>

\* close(p.done), p.err having been set.
Close(d) ==
  /\ drainer[d] \in {"ok", "err"}
  /\ done' = [done EXCEPT ![taken[d]] = drainer[d]]
  /\ drainer' = [drainer EXCEPT ![d] = "top"]
  /\ taken' = [taken EXCEPT ![d] = 0]
  /\ UNCHANGED <<installed, queueVars, storeVars, callVars>>

\* The master applies a put whose caller gave up, in the order they were sent.
LatePut ==
  /\ \E v \in late :
       /\ durable' = v
       /\ late' = {w \in late : w > v}
  /\ UNCHANGED <<installed, queueVars, drainVars, backend, callVars>>

-----------------------------------------------------------------------------
\* pendingFlush.wait returns the outcome of the flush the save folded into.
Outcome(c) == IF wait[c] = 0 THEN "err" ELSE done[wait[c]]

Return(c) ==
  /\ status[c] = "waiting"
  /\ Outcome(c) # "open"
  /\ status' = [status EXCEPT ![c] = Outcome(c)]
  /\ UNCHANGED <<installed, queueVars, drainVars, storeVars, wait, ver>>

Drain(d) == Take(d) \/ Exit(d) \/ FlushOk(d) \/ FlushFail(d) \/ Close(d)

Next ==
  \/ \E c \in Callers : Save(c) \/ SaveEncodeFails(c) \/ Return(c)
  \/ \E d \in Versions : Drain(d)
  \/ LatePut

Spec == Init /\ [][Next]_vars

\* Goroutines that can run do run, and a flush ends: file operations return and
\* remoteStoreTimeout bounds the put.
Fairness ==
  /\ \A d \in Versions : WF_vars(Drain(d))
  /\ \A c \in Callers : WF_vars(Return(c))

LiveSpec == Spec /\ Fairness

-----------------------------------------------------------------------------
(* Properties                                                               *)

\* A caller told that its save succeeded finds its version, or a newer one
\* that contains it, in the backend, then and ever after (pendingFlush.wait,
\* coalescingWriter.run).
AckedIsDurable == \A c \in Callers : status[c] = "ok" => durable >= ver[c]

\* "flush order is enqueue order": an older snapshot never overtakes a newer
\* one, so the durable version only moves forward (coalescingWriter.enqueue).
NeverOvertaken == [][durable' >= durable]_vars

\* Two flushes never run at once: both would write the same temp file
\* (coalescingWriter.run, writeStoreBytes).
OneFlushAtATime ==
  \A d, e \in Versions :
    drainer[d] \in {"flush", "ok", "err"} /\ drainer[e] # "none" => d = e

OpenFlushes == {p \in Versions : snapshot[p] # 0 /\ done[p] = "open"}

\* "a burst of N saves costs at most 2 flushes": however many callers wait,
\* they wait on at most two flushes.
BurstCost ==
  \A p, q, r \in OpenFlushes : p = q \/ q = r \/ p = r

\* Every caller gets an outcome, whatever the flush does
\* (coalescingWriter.runFlush, "a panic must not skip delivering one").
EverySaveAnswered ==
  \A c \in Callers : status[c] = "waiting" ~> status[c] # "waiting"

\* The detailed writer implements the promise of DurableStore.
Abstract == INSTANCE DurableStore
ImplementsDurableStore == Abstract!Spec
=============================================================================
