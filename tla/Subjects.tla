------------------------------ MODULE Subjects ------------------------------
(***************************************************************************)
(* The push sources of src/go/observable.go: Subject, BehaviorSubject and  *)
(* ReplaySubject, used by several goroutines at once, with FirstValueFrom  *)
(* as one of the subscribers.  Callbacks run outside the lock.  The values *)
(* are the numbers of the Next calls, in the order in which they begin.    *)
(***************************************************************************)
EXTENDS Naturals, Sequences, FiniteSets

CONSTANTS
  Producers,    \* goroutines that call Next
  Subscribers,  \* subscribers, each subscribes once
  MaxCalls,     \* bound: calls of Next in any scene
  Scenes        \* subjects and their users, see SceneType

VARIABLES
  scene,        \* the subject and its users in this behaviour, never changed
  subscribers,  \* s.subscribers
  completed,    \* s.completed
  notify,       \* s.completeHandlers: waiters to wake
  value,        \* bs.value, 0 is the seed
  buffer,       \* rs.buffer
  calls,        \* calls of Next so far
  prod,         \* where each producer is, its value and whom it still calls
  sub,          \* where each subscriber is and what it still replays
  got,          \* values each subscriber's callback received, in order
  woken,        \* waiters whose done channel is closed
  result,       \* what FirstValueFrom returned: "none", "value", "noValue"
  open,         \* history: subscribers that had subscribed when a Next began
  gone,         \* history: subscribers that had disposed when a Next began
  ended         \* history: Next calls that returned

subjectVars == <<subscribers, completed, notify, value, buffer>>
historyVars == <<scene, open, gone, ended>>
vars == <<subjectVars, calls, prod, sub, got, woken, result, historyVars>>

\* A scene is the kind of subject, the goroutines that use it, those of the
\* subscribers that are calls of FirstValueFrom, the bufferSize of a
\* ReplaySubject, and a bound on the calls of Next.
SceneType ==
  [kind : {"subject", "behavior", "replay"}, producers : SUBSET Producers,
   subscribers : SUBSET Subscribers, waiters : SUBSET Subscribers,
   bufferSize : Nat, maxNext : 0 .. MaxCalls]

ASSUME ScenesAssumption ==
  /\ MaxCalls \in Nat /\ IsFiniteSet(Producers)
  /\ Scenes \subseteq SceneType

Kind == scene.kind
Waiters == scene.waiters
BufferSize == scene.bufferSize
MaxNext == scene.maxNext

ProdIdle == [pc |-> "idle", n |-> 0, todo |-> {}]

\* Subscribers for which Subscribe has returned and Dispose was not called.
Listening == {s \in Subscribers : sub[s].pc \in {"open", "wait"}}

-----------------------------------------------------------------------------
(* Next                                                                     *)

\* A ReplaySubject ignores a value after Complete; the others dispatch, and the
\* dispatch finds out.
BeginNext(p) ==
  LET n == calls + 1
  IN  /\ prod[p].pc = "idle"
      /\ calls < MaxNext
      /\ calls' = n
      /\ open' = [open EXCEPT ![n] = Listening]
      /\ gone' = [gone EXCEPT ![n] = {s \in Subscribers : sub[s].pc = "disposed"}]
      /\ IF Kind = "replay" /\ completed
         THEN ended' = ended \cup {n} /\ UNCHANGED prod
         ELSE /\ prod' = [prod EXCEPT ![p] =
                   [pc |-> IF Kind = "subject" THEN "snap" ELSE "store", n |-> n, todo |-> {}]]
              /\ UNCHANGED ended
      /\ UNCHANGED <<subjectVars, sub, got, woken, result, scene>>

\* The value, or the buffer, under the lock of its own.
Store(p) ==
  /\ prod[p].pc = "store"
  /\ prod' = [prod EXCEPT ![p].pc = "snap"]
  /\ IF Kind = "behavior" THEN value' = prod[p].n /\ UNCHANGED buffer
     ELSE LET grown == Append(buffer, prod[p].n)
          IN  /\ buffer' = IF Len(grown) > BufferSize THEN Tail(grown) ELSE grown
              /\ UNCHANGED value
  /\ UNCHANGED <<subscribers, completed, notify, calls, sub, got, woken,
                 result, historyVars>>

\* Subject.Next copies the subscribers under the read lock.
Snap(p) ==
  /\ prod[p].pc = "snap"
  /\ prod' = [prod EXCEPT ![p] = IF completed THEN ProdIdle
                                 ELSE [@ EXCEPT !.pc = "deliver", !.todo = subscribers]]
  /\ ended' = IF completed THEN ended \cup {prod[p].n} ELSE ended
  /\ UNCHANGED <<subjectVars, calls, sub, got, woken, result, scene, open, gone>>

Deliver(p, s) ==
  /\ prod[p].pc = "deliver"
  /\ s \in prod[p].todo
  /\ prod' = [prod EXCEPT ![p].todo = @ \ {s}]
  /\ got' = [got EXCEPT ![s] = Append(@, prod[p].n)]
  /\ UNCHANGED <<subjectVars, calls, sub, woken, result, historyVars>>

EndNext(p) ==
  /\ prod[p].pc = "deliver"
  /\ prod[p].todo = {}
  /\ prod' = [prod EXCEPT ![p] = ProdIdle]
  /\ ended' = ended \cup {prod[p].n}
  /\ UNCHANGED <<subjectVars, calls, sub, got, woken, result, scene, open, gone>>

-----------------------------------------------------------------------------
(* Subscribe, Dispose, Complete and FirstValueFrom                          *)

SubAt(s, pc, replay) == sub' = [sub EXCEPT ![s] = [pc |-> pc, replay |-> replay]]

\* After its Subscribe a call of FirstValueFrom asks to be told of Complete.
Subscribed(s) == IF s \in Waiters THEN "ask" ELSE "open"

\* A slip: the callback is registered before the buffer is replayed.
CopyBufferRegistered(s) ==
  /\ Kind = "replay"
  /\ sub[s].pc = "idle"
  /\ SubAt(s, "replay", buffer)
  /\ subscribers' = subscribers \cup {s}
  /\ UNCHANGED <<completed, notify, value, buffer, calls, prod, got,
                 woken, result, historyVars>>

\* A ReplaySubject copies its buffer first.
CopyBuffer(s) ==
  /\ Kind = "replay"
  /\ sub[s].pc = "idle"
  /\ SubAt(s, "replay", buffer)
  /\ UNCHANGED <<subjectVars, calls, prod, got, woken, result, historyVars>>

\* Subject.Subscribe; a completed subject registers nothing.
Register(s) ==
  /\ sub[s].pc = IF Kind = "replay" THEN "register" ELSE "idle"
  /\ subscribers' = IF completed THEN subscribers ELSE subscribers \cup {s}
  /\ SubAt(s, IF Kind = "behavior" THEN "read" ELSE Subscribed(s), <<>>)
  /\ UNCHANGED <<completed, notify, value, buffer, calls, prod, got, woken,
                 result, scene, open, gone, ended>>

\* A BehaviorSubject that is not completed reads its value after registering.
ReadValue(s) ==
  /\ sub[s].pc = "read"
  /\ \/ completed /\ SubAt(s, Subscribed(s), <<>>)
     \/ SubAt(s, "replay", <<value>>)
  /\ UNCHANGED <<subjectVars, calls, prod, got, woken, result, historyVars>>

\* The callback runs with what was stored before.
Replay(s) ==
  LET rest == sub[s].replay
  IN  /\ sub[s].pc = "replay"
      /\ IF rest = <<>>
         THEN SubAt(s, IF Kind = "replay" THEN "register" ELSE Subscribed(s), <<>>) /\ UNCHANGED got
         ELSE SubAt(s, "replay", Tail(rest)) /\ got' = [got EXCEPT ![s] = Append(@, Head(rest))]
      /\ UNCHANGED <<subjectVars, calls, prod, woken, result, historyVars>>

\* A slip: the subject is not asked whether it completed already.
OnCompleteNotifyBlind(s) ==
  /\ sub[s].pc = "ask"
  /\ SubAt(s, "wait", <<>>)
  /\ notify' = notify \cup {s}
  /\ UNCHANGED <<subscribers, completed, value, buffer, calls, prod, got,
                 woken, result, historyVars>>

\* onCompleteNotify runs the handler at once when the subject completed before.
OnCompleteNotify(s) ==
  /\ sub[s].pc = "ask"
  /\ SubAt(s, "wait", <<>>)
  /\ IF completed THEN woken' = woken \cup {s} /\ UNCHANGED notify
     ELSE notify' = notify \cup {s} /\ UNCHANGED woken
  /\ UNCHANGED <<subscribers, completed, value, buffer, calls, prod, got,
                 result, historyVars>>

\* The select of FirstValueFrom takes any channel that is ready.
FirstValue(s) ==
  /\ sub[s].pc = "wait"
  /\ \/ got[s] # <<>> /\ result' = [result EXCEPT ![s] = "value"]
     \/ s \in woken /\ result' = [result EXCEPT ![s] = "noValue"]
  /\ SubAt(s, "disposed", <<>>)
  /\ subscribers' = subscribers \ {s}
  /\ notify' = notify \ {s}
  /\ UNCHANGED <<completed, value, buffer, calls, prod, got, woken, historyVars>>

\* A slip: the teardown drops every callback.
DisposeAll(s) ==
  /\ sub[s].pc = "open"
  /\ SubAt(s, "disposed", <<>>)
  /\ subscribers' = {}
  /\ UNCHANGED <<completed, notify, value, buffer, calls, prod, got, woken,
                 result, historyVars>>

\* Dispose, once: a second one is a no-op.
Dispose(s) ==
  /\ sub[s].pc = "open"
  /\ SubAt(s, "disposed", <<>>)
  /\ subscribers' = subscribers \ {s}
  /\ UNCHANGED <<completed, notify, value, buffer, calls, prod, got, woken,
                 result, historyVars>>

\* Complete drops the subscribers and runs the complete handlers.
Complete ==
  /\ ~completed
  /\ completed' = TRUE
  /\ subscribers' = {}
  /\ notify' = {}
  /\ woken' = woken \cup notify
  /\ UNCHANGED <<value, buffer, calls, prod, sub, got, result, scene, open, gone, ended>>

-----------------------------------------------------------------------------
Init ==
  /\ scene \in Scenes
  /\ subscribers = {}
  /\ completed = FALSE
  /\ notify = {}
  /\ value = 0
  /\ buffer = <<>>
  /\ calls = 0
  /\ prod = [p \in Producers |-> ProdIdle]
  /\ sub = [s \in Subscribers |-> [pc |-> "idle", replay |-> <<>>]]
  /\ got = [s \in Subscribers |-> <<>>]
  /\ woken = {}
  /\ result = [s \in Subscribers |-> "none"]
  /\ open = [n \in 1 .. MaxCalls |-> {}]
  /\ gone = [n \in 1 .. MaxCalls |-> {}]
  /\ ended = {}

ProducerStep(p) ==
  Store(p) \/ Snap(p) \/ EndNext(p) \/ \E s \in Subscribers : Deliver(p, s)

SubscribeStep(s) ==
  CopyBuffer(s) \/ Register(s) \/ ReadValue(s) \/ Replay(s) \/ OnCompleteNotify(s) \/ FirstValue(s)

Next ==
  \/ \E p \in scene.producers : BeginNext(p) \/ ProducerStep(p)
  \/ \E s \in scene.subscribers : SubscribeStep(s) \/ Dispose(s)
  \/ Complete

Spec == Init /\ [][Next]_vars

\* A Next and a Subscribe that began go on; callbacks return.
LiveSpec ==
  /\ Spec
  /\ \A p \in Producers : WF_vars(ProducerStep(p))
  /\ \A s \in Subscribers : WF_vars(s \in scene.subscribers /\ SubscribeStep(s))

-----------------------------------------------------------------------------
(* Properties                                                               *)

TypeOK ==
  /\ subscribers \subseteq Subscribers
  /\ completed \in BOOLEAN
  /\ value \in 0 .. MaxNext
  /\ Len(buffer) <= BufferSize
  /\ \A p \in Producers : prod[p].pc \in {"idle", "store", "snap", "deliver"}
  /\ \A s \in Subscribers :
       sub[s].pc \in {"idle", "register", "read", "replay", "ask", "open", "wait", "disposed"}
  /\ got \in [Subscribers -> Seq(0 .. MaxNext)]

Times(s, n) == Cardinality({i \in DOMAIN got[s] : got[s][i] = n})

\* Whoever subscribed before a Next began and is subscribed when it ended got its
\* value exactly once, whoever subscribes and disposes meanwhile (Subject.Next
\* "dispatches value to every current subscriber", BehaviorSubject "then every
\* following one").  Whoever disposed before a Next began never gets its value: a
\* delivery after Dispose belongs to a Next that was under way.
DeliveredOnce ==
  /\ ~completed => \A n \in ended : \A s \in open[n] \cap Listening : Times(s, n) = 1
  /\ \A n \in 1 .. MaxNext : \A s \in gone[n] : Times(s, n) = 0

\* What a subscriber gets never goes back to an older value when one goroutine
\* calls Next: a ReplaySubject replays its buffer "before live emissions".  (A
\* BehaviorSubject registers before it reads its value, and may replay it late.)
InOrder ==
  Kind # "behavior" /\ Cardinality(scene.producers) = 1 =>
    \A s \in Subscribers : \A i, j \in 1 .. Len(got[s]) : i < j => got[s][i] <= got[s][j]

\* No wake-up is lost between Subscribe, onCompleteNotify and Complete: once the
\* subject completed every FirstValueFrom returns.
WaiterReturns ==
  \A s \in Subscribers :
    (s \in Waiters /\ completed /\ sub[s].pc # "idle") ~> sub[s].pc = "disposed"
=============================================================================
