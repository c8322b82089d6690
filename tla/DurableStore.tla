---------------------------- MODULE DurableStore ----------------------------
(***************************************************************************)
(* What the configuration store promises to whoever saves a document,      *)
(* without the queue, the drainer goroutine or the backend                 *)
(* (src/go/config_persistence.go, the contract of configPersistence.save   *)
(* and of the wait function it returns).                                   *)
(*                                                                         *)
(* Every save installs the next version of the whole document.  The        *)
(* durable version only moves forward, and never past the newest installed *)
(* version.  A save whose wait reports success is durable by then: its own *)
(* version, or a newer one that contains it.                               *)
(***************************************************************************)
EXTENDS Naturals

CONSTANTS
  Callers,    \* the goroutines that save
  MaxSaves    \* bound: documents installed in one behaviour

VARIABLES
  installed,  \* version of the newest installed document
  durable,    \* version of the document the backend holds
  ver,        \* [Callers -> version of the caller's last save]
  status      \* [Callers -> "idle" | "waiting" | "ok" | "err"]

vars == <<installed, durable, ver, status>>

Init ==
  /\ installed = 0
  /\ durable = 0
  /\ ver = [c \in Callers |-> 0]
  /\ status = [c \in Callers |-> "idle"]

\* A save installs the next version; from here on the caller waits.
Begin(c) ==
  /\ status[c] # "waiting"
  /\ installed < MaxSaves
  /\ installed' = installed + 1
  /\ ver' = [ver EXCEPT ![c] = installed + 1]
  /\ status' = [status EXCEPT ![c] = "waiting"]
  /\ UNCHANGED durable

\* The backend moves to a newer installed version.
Commit ==
  /\ durable' \in (durable + 1) .. installed
  /\ UNCHANGED <<installed, ver, status>>

\* Success is reported only when the caller's version is covered.
Ack(c) ==
  /\ status[c] = "waiting"
  /\ durable >= ver[c]
  /\ status' = [status EXCEPT ![c] = "ok"]
  /\ UNCHANGED <<installed, durable, ver>>

\* A failure may be reported at any time: it promises nothing.
Fail(c) ==
  /\ status[c] = "waiting"
  /\ status' = [status EXCEPT ![c] = "err"]
  /\ UNCHANGED <<installed, durable, ver>>

Next ==
  \/ Commit
  \/ \E c \in Callers : Begin(c) \/ Ack(c) \/ Fail(c)

Spec == Init /\ [][Next]_vars
=============================================================================
