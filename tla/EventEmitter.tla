---------------------------- MODULE EventEmitter ----------------------------
(***************************************************************************)
(* The listeners of one event of the plugin API (src/go/event_emitter.go). *)
(* Emit and emitAndWait copy them under the lock and call the copies       *)
(* without it, so that listeners come and go meanwhile, from other         *)
(* goroutines and from the handlers themselves.                            *)
(***************************************************************************)
EXTENDS Naturals, Sequences, FiniteSets, SequencesExt

CONSTANTS
  Handlers,     \* handlers the plugin registers, each at most once
  OnceHandlers, \* those it registers with Once
  Emissions,    \* calls of Emit or emitAndWait, each in a goroutine of its own
  Usages        \* see UsageType

VARIABLES
  usage,        \* how the event is used in this behaviour, never changed
  listeners,    \* e.listeners[event]
  registered,   \* history: handlers that were registered
  dropped,      \* history: handlers that Off or RemoveAllListeners dropped
  fired,        \* history: calls of each handler
  emit          \* where each emission is

emitterVars == <<usage, listeners, registered, dropped, fired, emit>>

\* "single": Emit, and nothing but On and Once while it runs; "waits": emitAndWait,
\* with anything at any time.
UsageType == {"single", "waits"}

ASSUME EmitterAssumption ==
  OnceHandlers \subseteq Handlers /\ Usages \subseteq UsageType

NewEmission == [pc |-> "new", entries |-> <<>>, at |-> 0, running |-> {}]
Once(h) == h \in OnceHandlers
Emitting == \E t \in Emissions : emit[t].pc \in {"call", "wait"}
Undisturbed == usage = "waits" \/ ~Emitting

-----------------------------------------------------------------------------
(* On, Once, Off, RemoveAllListeners                                        *)

AddListener(h) ==
  /\ h \notin registered
  /\ registered' = registered \cup {h}
  /\ listeners' = Append(listeners, h)
  /\ UNCHANGED <<usage, dropped, fired, emit>>

RemoveAllListeners ==
  /\ listeners # <<>> /\ Undisturbed
  /\ listeners' = <<>>
  /\ dropped' = dropped \cup ToSet(listeners)
  /\ UNCHANGED <<usage, registered, fired, emit>>

\* The handler is ignored.
Off == RemoveAllListeners

-----------------------------------------------------------------------------
(* Emit                                                                     *)

\* The entries are copied under the read lock...
BeginEmit(t) ==
  /\ usage = "single" /\ Undisturbed
  /\ emit[t].pc = "new"
  /\ emit' = [emit EXCEPT ![t] =
       [NewEmission EXCEPT !.pc = "call", !.entries = listeners, !.at = 1]]
  /\ UNCHANGED <<usage, listeners, registered, dropped, fired>>

\* ... called one after the other...
CallHandler(t) ==
  LET e == emit[t]
  IN  /\ e.pc = "call" /\ e.at <= Len(e.entries)
      /\ fired' = [fired EXCEPT ![e.entries[e.at]] = @ + 1]
      /\ emit' = [emit EXCEPT ![t].at = @ + 1]
      /\ UNCHANGED <<usage, listeners, registered, dropped>>

\* The list without the entries at the given positions, which are as old as the
\* copy; a position that is not there any more is skipped.
Without(list, positions) ==
  LET kept == {i \in 1 .. Len(list) : i \notin positions}
  IN  [n \in 1 .. Cardinality(kept) |->
         list[CHOOSE i \in kept : Cardinality({j \in kept : j <= i}) = n]]

\* A slip: the positions are removed first to last, and shift meanwhile.
WithoutForward(list, positions) ==
  Without(list, {i + Cardinality({j \in positions : j < i}) : i \in positions})

\* toRemove, in reverse, so that the pending indices do not shift.
RemoveIndices(list, positions) == Without(list, positions)

\* ... and those registered with Once removed, by the index they had.
EndEmit(t) ==
  LET e == emit[t]
  IN  /\ e.pc = "call" /\ e.at > Len(e.entries)
      /\ listeners' = RemoveIndices(listeners, {i \in 1 .. Len(e.entries) : Once(e.entries[i])})
      /\ emit' = [emit EXCEPT ![t].pc = "ended"]
      /\ UNCHANGED <<usage, registered, dropped, fired>>

-----------------------------------------------------------------------------
(* emitAndWait                                                              *)

\* The copy and the removal of what was registered with Once, in one critical section.
BeginEmitAndWait(t) ==
  /\ usage = "waits"
  /\ emit[t].pc = "new"
  /\ listeners' = Without(listeners, {i \in 1 .. Len(listeners) : Once(listeners[i])})
  /\ emit' = [emit EXCEPT ![t] =
       [NewEmission EXCEPT !.pc = IF listeners = <<>> THEN "ended" ELSE "wait",
                           !.running = ToSet(listeners)]]
  /\ UNCHANGED <<usage, registered, dropped, fired>>

\* Every handler has a goroutine of its own, which goes on after a timeout; a panic
\* ends it like a return.
RunHandler(t, h) ==
  /\ h \in emit[t].running
  /\ fired' = [fired EXCEPT ![h] = @ + 1]
  /\ emit' = [emit EXCEPT ![t].running = @ \ {h}]
  /\ UNCHANGED <<usage, listeners, registered, dropped>>

\* done or the timer
EndEmitAndWait(t) ==
  /\ emit[t].pc = "wait"
  /\ emit' = [emit EXCEPT ![t].pc = "ended"]
  /\ UNCHANGED <<usage, listeners, registered, dropped, fired>>
-----------------------------------------------------------------------------
EmitterInit ==
  /\ usage \in Usages
  /\ listeners = <<>> /\ registered = {} /\ dropped = {}
  /\ fired = [h \in Handlers |-> 0]
  /\ emit = [t \in Emissions |-> NewEmission]

EmitterNext ==
  \/ \E h \in Handlers : AddListener(h)
  \/ Off \/ RemoveAllListeners
  \/ \E t \in Emissions :
       \/ BeginEmit(t) \/ CallHandler(t) \/ EndEmit(t)
       \/ BeginEmitAndWait(t) \/ EndEmitAndWait(t)
       \/ \E h \in Handlers : RunHandler(t, h)

EmitterSpec == EmitterInit /\ [][EmitterNext]_emitterVars

-----------------------------------------------------------------------------
(* Properties                                                               *)

EmitterTypeOK ==
  /\ listeners \in Seq(Handlers) /\ registered \subseteq Handlers /\ dropped \subseteq Handlers
  /\ fired \in [Handlers -> 0 .. Cardinality(Emissions)]
  /\ \A t \in Emissions : emit[t].pc \in {"new", "call", "wait", "ended"}

\* However many listeners come while an Emit runs, it takes away no other than those
\* registered with Once that it called; and no two overlapping emitAndWaits call such
\* a listener twice ("Drop once-listeners before invoking so they cannot fire again").
\* A listener that nobody dropped is there until it has fired, if at all.
ListenersKept ==
  /\ \A h \in OnceHandlers : fired[h] <= 1
  /\ registered \ (dropped \cup OnceHandlers) \subseteq ToSet(listeners)
  /\ \A h \in (registered \cap OnceHandlers) \ dropped :
       \/ h \in ToSet(listeners)
       \/ fired[h] = 1
       \/ \E t \in Emissions : h \in emit[t].running
  /\ ~Emitting => \A h \in OnceHandlers : fired[h] = 1 => h \notin ToSet(listeners)
=============================================================================
