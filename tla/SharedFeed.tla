----------------------------- MODULE SharedFeed -----------------------------
(***************************************************************************)
(* What OnConnected, OnFrameWorkerConnected and OnPropertyChange hand to a *)
(* plugin (src/go/camera_device.go): the BehaviorSubject of a camera       *)
(* device behind DistinctUntilChanged or Pairwise, MergeMap and Filter,    *)
(* multicast by Share (src/go/observable.go).  The event handler and       *)
(* refreshStates call Next; subscribers come and go in goroutines of their *)
(* own.  Each connection of Share to its source is a generation with an    *)
(* operator state and a Subject of its own.                                *)
(*                                                                         *)
(* A value is a camera, a function of its properties.  A connection state  *)
(* is one of which nothing but Flag varies.                                *)
(***************************************************************************)
EXTENDS Naturals, FiniteSets

CONSTANTS
  Watchers,     \* subscriptions to the shared observable, each made once
  CameraValues, \* the values of the subject
  FirstCamera,  \* its value in a new device
  Flag,         \* the property a connection state is
  FeedKinds,    \* see FeedType
  MaxFeeds      \* bound: values that reach the device

VARIABLES
  feed,         \* the observable of this behaviour, never changed
  camera,       \* d.camera; a connection state has no such copy
  current,      \* bs.value
  completed,    \* the subject completed
  upstream,     \* generations registered with the subject
  shareMu,      \* who holds the mutex of Share
  subject,      \* the generation of Share's subject, 0 when it is nil
  generations,  \* generations so far
  refCount,     \* refCount of Share
  attached,     \* subscribers of each generation's Subject
  hasValue,     \* generations whose operator remembers a value...
  last,         \* ... and that value: lastValue or prev
  call,         \* the Next, or the replay, each goroutine is in
  watch,        \* where each subscription is
  seen,         \* what each subscriber believes of each property
  fed           \* values that reached the device so far

deviceVars == <<camera, current, completed, upstream, fed>>
shareVars == <<shareMu, subject, generations, refCount, attached>>
operatorVars == <<hasValue, last>>
feedVars == <<feed, deviceVars, shareVars, operatorVars, call, watch, seen>>

Free == "free"

Props == DOMAIN FirstCamera
Generations == 1 .. Cardinality(Watchers)

\* kind: which operators; watched: the property names given to OnPropertyChange;
\* feeders: who calls Next; calm: one Next at a time, and none while Share connects.
FeedType ==
  [kind : {"distinct", "pairwise"}, watched : SUBSET Props,
   feeders : SUBSET {"handler", "refresh"}, calm : BOOLEAN]

ASSUME FeedAssumption ==
  /\ FirstCamera \in CameraValues /\ \A c \in CameraValues : DOMAIN c = Props
  /\ Flag \in Props /\ FeedKinds \subseteq FeedType /\ MaxFeeds \in Nat

Feeders == {"handler", "refresh"}

ASSUME WatchersAssumption == IsFiniteSet(Watchers) /\ Watchers \cap (Feeders \cup {Free}) = {}

NoCall == [pc |-> "idle", v |-> FirstCamera, todo |-> {}, g |-> 0, out |-> {}, to |-> {}]

CallAt(t, pc) == call' = [call EXCEPT ![t].pc = pc]
WatchAt(s, pc) == watch' = [watch EXCEPT ![s] = pc]

Changed(old, new) == {p \in Props : old[p] # new[p]}
Values == {c \in CameraValues : feed.kind = "distinct" => Changed(FirstCamera, c) \subseteq {Flag}}

Connecting == \E s \in Watchers : watch[s] \in {"read", "replay"}
Feeding == \E t \in Feeders : call[t].pc # "idle"

-----------------------------------------------------------------------------
(* applyCamera and Next                                                     *)

\* The event handler takes what it gets; refreshStates leaves alone what equals
\* the mirror at that moment.
Receive(t) ==
  /\ call[t].pc = "idle" /\ fed < MaxFeeds
  /\ feed.calm => ~Feeding /\ ~Connecting
  /\ fed' = fed + 1
  /\ \E v \in Values :
       /\ t = "refresh" => v # IF feed.kind = "pairwise" THEN camera ELSE current
       /\ call' = [call EXCEPT ![t] =
            [NoCall EXCEPT !.pc = IF feed.kind = "pairwise" THEN "apply" ELSE "store", !.v = v]]
  /\ UNCHANGED <<feed, camera, current, completed, upstream, shareVars, operatorVars, watch,
                 seen>>

\* d.camera under d.mu...
ApplyCamera(t) ==
  /\ call[t].pc = "apply"
  /\ camera' = call[t].v
  /\ CallAt(t, "store")
  /\ UNCHANGED <<feed, current, completed, upstream, fed, shareVars, operatorVars, watch, seen>>

\* ... then BehaviorSubject.Next, under the lock of the value...
StoreValue(t) ==
  /\ call[t].pc = "store"
  /\ current' = call[t].v
  /\ CallAt(t, "snap")
  /\ UNCHANGED <<feed, camera, completed, upstream, fed, shareVars, operatorVars, watch, seen>>

\* ... and Subject.Next, for the connections there are.
DispatchValue(t) ==
  /\ call[t].pc = "snap"
  /\ call' = [call EXCEPT ![t] = IF completed THEN NoCall
                                 ELSE [@ EXCEPT !.pc = "dispatch", !.todo = upstream]]
  /\ UNCHANGED <<feed, deviceVars, shareVars, operatorVars, watch, seen>>

NextConnection(t) ==
  /\ call[t].pc = "dispatch"
  /\ \/ \E g \in call[t].todo :
          call' = [call EXCEPT ![t].pc = "decide", ![t].g = g, ![t].todo = @ \ {g}]
     \/ call[t].todo = {} /\ call' = [call EXCEPT ![t] = NoCall]
  /\ UNCHANGED <<feed, deviceVars, shareVars, operatorVars, watch, seen>>

-----------------------------------------------------------------------------
(* The operators, in whichever goroutine calls them                         *)

Wanted(p) == feed.watched = {} \/ p \in feed.watched

\* DistinctUntilChanged compares, remembers and then calls; Pairwise, MergeMap over
\* changedCameraProps and Filter call once per property and remember then.
Decide(t) ==
  LET old == last[call[t].g]
      new == call[t].v
      first == call[t].g \notin hasValue
      distinct == feed.kind = "distinct"
  IN  /\ call[t].pc = "decide"
      /\ \/ /\ distinct /\ ~first /\ old = new
            /\ CallAt(t, "return")
         \/ /\ distinct /\ (first \/ old # new)
            /\ call' = [call EXCEPT ![t].pc = "mark", ![t].out = {Flag}]
         \/ /\ ~distinct
            /\ call' = [call EXCEPT ![t].pc = "emit",
                 ![t].out = IF first THEN {} ELSE {p \in Changed(old, new) : Wanted(p)}]
      /\ UNCHANGED <<feed, deviceVars, shareVars, operatorVars, watch, seen>>

\* hasValue = true; lastValue = value
Mark(t) ==
  /\ call[t].pc = "mark"
  /\ hasValue' = hasValue \cup {call[t].g}
  /\ last' = [last EXCEPT ![call[t].g] = call[t].v]
  /\ CallAt(t, IF feed.kind = "distinct" THEN "emit" ELSE "return")
  /\ UNCHANGED <<feed, deviceVars, shareVars, watch, seen>>

\* Share's callback: Next of the generation's Subject, for the subscribers it has.
Emit(t) ==
  /\ call[t].pc = "emit"
  /\ \/ call[t].out # {} /\ call' = [call EXCEPT ![t].pc = "deliver", ![t].to = attached[call[t].g]]
     \/ call[t].out = {} /\ CallAt(t, IF feed.kind = "distinct" THEN "return" ELSE "mark")
  /\ UNCHANGED <<feed, deviceVars, shareVars, operatorVars, watch, seen>>

\* The callbacks run, for one property after the other.
DeliverChange(t) ==
  /\ call[t].pc = "deliver"
  /\ LET p == CHOOSE p \in call[t].out : TRUE
     IN  \/ \E s \in call[t].to :
              /\ seen' = [seen EXCEPT ![s][p] = call[t].v[p]]
              /\ call' = [call EXCEPT ![t].to = @ \ {s}]
         \/ /\ call[t].to = {}
            /\ call' = [call EXCEPT ![t].pc = "emit", ![t].out = @ \ {p}]
            /\ UNCHANGED seen
  /\ UNCHANGED <<feed, deviceVars, shareVars, operatorVars, watch>>

\* Back in Subject.Next, or in BehaviorSubject.Subscribe.
Return(t) ==
  /\ call[t].pc = "return"
  /\ IF t \in Watchers
     THEN call' = [call EXCEPT ![t] = NoCall] /\ WatchAt(t, "join")
     ELSE CallAt(t, "dispatch") /\ UNCHANGED watch
  /\ UNCHANGED <<feed, deviceVars, shareVars, operatorVars, seen>>

CallStep(t) ==
  \/ ApplyCamera(t) \/ StoreValue(t) \/ DispatchValue(t) \/ NextConnection(t)
  \/ Decide(t) \/ Mark(t) \/ Emit(t) \/ DeliverChange(t) \/ Return(t)

-----------------------------------------------------------------------------
(* Share                                                                    *)

\* Without a subject Share makes one and subscribes to the source, which registers...
Connect(s) ==
  /\ watch[s] = "idle" /\ shareMu = Free /\ subject = 0
  /\ feed.calm => ~Feeding
  /\ shareMu' = s
  /\ generations' = generations + 1
  /\ subject' = generations + 1
  /\ upstream' = IF completed THEN upstream ELSE upstream \cup {generations + 1}
  /\ WatchAt(s, "read")
  /\ UNCHANGED <<feed, camera, current, completed, fed, refCount, attached, operatorVars,
                 call, seen>>

\* ... reads the value of a subject that has not completed...
ReadCurrent(s) ==
  /\ watch[s] = "read"
  /\ \/ /\ completed
        /\ WatchAt(s, "join") /\ UNCHANGED call
     \/ /\ WatchAt(s, "replay")
        /\ call' = [call EXCEPT ![s] =
             [NoCall EXCEPT !.pc = "decide", !.v = current, !.g = subject]]
  /\ UNCHANGED <<feed, deviceVars, shareVars, operatorVars, seen>>

\* ... and calls back, to a Subject without subscribers as yet (CallStep).  Then the
\* subscription is counted and made, and the mutex released.
Join(s) ==
  /\ \/ watch[s] = "join"
     \/ watch[s] = "idle" /\ shareMu = Free /\ subject # 0
  /\ shareMu' = Free
  /\ refCount' = refCount + 1
  /\ attached' = [attached EXCEPT ![subject] = @ \cup {s}]
  /\ WatchAt(s, "joined")
  /\ UNCHANGED <<feed, deviceVars, subject, generations, operatorVars, call, seen>>

\* The subscriber starts from Connected(), or from the getters of the camera.
ReadMirror(s) ==
  /\ watch[s] = "joined"
  /\ seen' = [seen EXCEPT ![s] = IF feed.kind = "pairwise" THEN camera ELSE current]
  /\ WatchAt(s, "open")
  /\ UNCHANGED <<feed, deviceVars, shareVars, operatorVars, call>>

\* Dispose, once: the subscription goes...
Leave(s) ==
  /\ watch[s] = "open"
  /\ attached' = [g \in Generations |-> attached[g] \ {s}]
  /\ WatchAt(s, "leaving")
  /\ UNCHANGED <<feed, deviceVars, shareMu, subject, generations, refCount, operatorVars,
                 call, seen>>

\* A slip: the last one out keeps the subject.
DisconnectHalf(s) ==
  /\ watch[s] = "leaving" /\ shareMu = Free
  /\ refCount' = refCount - 1
  /\ upstream' = IF refCount' = 0 THEN upstream \ {subject} ELSE upstream
  /\ WatchAt(s, "closed")
  /\ UNCHANGED <<feed, camera, current, completed, fed, subject, shareMu, generations,
                 attached, operatorVars, call, seen>>

\* A slip: whoever leaves disconnects.
DisconnectAny(s) ==
  /\ watch[s] = "leaving" /\ shareMu = Free
  /\ refCount' = refCount - 1
  /\ upstream' = upstream \ {subject}
  /\ subject' = 0
  /\ WatchAt(s, "closed")
  /\ UNCHANGED <<feed, camera, current, completed, fed, shareMu, generations, attached,
                 operatorVars, call, seen>>

\* ... then the count, and with the last one the connection and the subject.
Disconnect(s) ==
  /\ watch[s] = "leaving" /\ shareMu = Free
  /\ refCount' = refCount - 1
  /\ IF refCount' = 0 THEN upstream' = upstream \ {subject} /\ subject' = 0
     ELSE UNCHANGED <<upstream, subject>>
  /\ WatchAt(s, "closed")
  /\ UNCHANGED <<feed, camera, current, completed, fed, shareMu, generations, attached,
                 operatorVars, call, seen>>

\* The device's cleanup completes its subjects.
Complete ==
  /\ ~completed
  /\ completed' = TRUE
  /\ upstream' = {}
  /\ UNCHANGED <<feed, camera, current, fed, shareVars, operatorVars, call, watch, seen>>

-----------------------------------------------------------------------------
FeedInit ==
  /\ feed \in FeedKinds
  /\ camera = FirstCamera /\ current = FirstCamera
  /\ completed = FALSE /\ upstream = {} /\ fed = 0
  /\ shareMu = Free /\ subject = 0 /\ generations = 0 /\ refCount = 0
  /\ attached = [g \in Generations |-> {}]
  /\ hasValue = {} /\ last = [g \in Generations |-> FirstCamera]
  /\ call = [t \in Feeders \cup Watchers |-> NoCall]
  /\ watch = [s \in Watchers |-> "idle"]
  /\ seen = [s \in Watchers |-> FirstCamera]

FeedNext ==
  \/ \E t \in feed.feeders : Receive(t)
  \/ \E t \in Feeders \cup Watchers : CallStep(t)
  \/ \E s \in Watchers :
       Connect(s) \/ ReadCurrent(s) \/ Join(s) \/ ReadMirror(s) \/ Leave(s) \/ Disconnect(s)
  \/ Complete

FeedSpec == FeedInit /\ [][FeedNext]_feedVars

-----------------------------------------------------------------------------
(* Properties                                                               *)

FeedTypeOK ==
  /\ {camera, current} \subseteq CameraValues
  /\ completed \in BOOLEAN /\ upstream \subseteq Generations
  /\ shareMu \in {Free} \cup Watchers
  /\ subject \in 0 .. generations /\ generations \in 0 .. Cardinality(Watchers)
  /\ refCount \in 0 .. Cardinality(Watchers)
  /\ attached \in [Generations -> SUBSET Watchers]
  /\ hasValue \subseteq Generations /\ last \in [Generations -> CameraValues]
  /\ \A t \in Feeders \cup Watchers :
       call[t].pc \in {"idle", "apply", "store", "snap", "dispatch", "decide", "mark", "emit",
                       "deliver", "return"}
  /\ watch \in [Watchers -> {"idle", "read", "replay", "join", "joined", "open", "leaving",
                            "closed"}]
  /\ \A s \in Watchers : DOMAIN seen[s] = Props

\* When no Next is under way everyone who subscribed, read the mirror and applied
\* what came since believes what the mirror says.
Informed ==
  ~completed /\ ~Feeding =>
    \A s \in Watchers : watch[s] = "open" =>
      \A p \in Props : Wanted(p) => seen[s][p] = current[p]

\* OnConnected "emits distinct connection state changes" and OnPropertyChange "emits
\* when any of the specified camera properties change": whoever came first, came
\* later or came back is informed, and d.camera and the subject agree, when one value
\* arrives at a time and none while Share connects.
FollowsState ==
  feed.calm =>
    /\ Informed
    /\ (feed.kind = "pairwise" /\ ~Feeding) => camera = current

\* BehaviorSubject.Subscribe "invokes it once with the current value before any
\* following emission", so that a shared feed with one producer misses no change.
MissesNothing == Cardinality(feed.feeders) = 1 => Informed

\* "All subscribers share one upstream subscription (reference-counted)": whoever
\* comes while another leaves, the connection that is counted on is the only one,
\* it belongs to the subject, and every subscriber is at that subject, which is gone
\* when the last one has left.
OneUpstream ==
  LET members == {s \in Watchers : watch[s] \in {"joined", "open", "leaving"}}
  IN  /\ refCount = Cardinality(members)
      /\ shareMu = Free => (subject = 0 <=> members = {})
      /\ upstream \subseteq {subject} \ {0}
      /\ (subject # 0 /\ ~completed) => upstream = {subject}
      /\ \A s \in members : watch[s] # "leaving" => s \in attached[subject]
=============================================================================
