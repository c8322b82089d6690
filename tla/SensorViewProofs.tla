-------------------------- MODULE SensorViewProofs --------------------------
(***************************************************************************)
(* Proofs about the view a plugin keeps of other plugins' sensors          *)
(* (SensorView), for any sensors, values, cameras and changes of the       *)
(* registry.                                                               *)
(***************************************************************************)
EXTENDS SensorView, SequenceTheorems, TLAPS

-----------------------------------------------------------------------------
(* The inductive invariant                                                  *)

Assignments == [camera : Cameras, assigned : BOOLEAN]

GlobalEvents ==
  [kind : {"added"}, sensor : Sensors, data : Record]
    \cup [kind : {"deleted"}, sensor : Sensors, data : {None}]
    \cup [kind : {"exposed", "connected"}, sensor : Sensors, data : BOOLEAN]
    \cup [kind : {"assigned"}, sensor : Sensors, data : Assignments]

HandlerType ==
  \/ handler = HandlerIdle
  \/ /\ handler \in [pc : {"fetch", "tellAdded", "tellReleased"}, sensor : Sensors, data : {None}]
  \/ handler \in [pc : {"unsubscribe"}, sensor : Sensors, data : BOOLEAN]
  \/ /\ handler \in [pc : {"add"}, sensor : Foreign, data : Record]
     /\ handler.data.exposed = TRUE

\* A resync that has an answer has a proxy to apply it to.
ResyncType(r) ==
  \/ resync[r] = ResyncIdle
  \/ resync[r] \in [pc : {"ask"}, sensor : Sensors, value : {None}]
  \/ /\ resync[r] \in [pc : {"apply"}, sensor : Sensors, value : Values]
     /\ consumed[resync[r].sensor] # None

ViewTypes ==
  /\ scene \in Scenes
  /\ registry \in [Sensors -> Record \cup {None}]
  /\ link \in BOOLEAN /\ subscribed \in BOOLEAN /\ closed \in BOOLEAN /\ reconnecting \in BOOLEAN
  /\ global \in Seq(GlobalEvents)
  /\ feed \in [Sensors -> Seq(Values)]
  /\ consumed \in [Sensors -> Proxies \cup {None}]
  /\ \A s \in Sensors : consumed[s] # None => s \in Foreign
  /\ subs \in [Sensors -> Nat]
  /\ initPc \in {"start", "ask", "fill", "configure", "done", "failed"}
  /\ initData \in [Sensors -> Record \cup {None}]
  /\ HandlerType
  /\ DOMAIN resync = Resyncs /\ \A r \in Resyncs : ResyncType(r)
  /\ resyncIds \subseteq Sensors

Lossless == Env \cap {"drop", "fail"} = {}

\* Every subscription has its holder, and only a proxy that has one has events on their
\* way.
SubsInv ==
  /\ Lossless => link
  /\ \A s \in Sensors :
       /\ subs[s] = One(s \in wired) + One(Unsubscribing(s)) + One(s \in closing)
       /\ s \in wired => consumed[s] # None
       /\ s \notin wired => feed[s] = <<>>
       /\ Lossless /\ consumed[s] # None => s \in wired
       /\ ~closed => s \notin closing

\* Events that make a sensor visible or hide it.
Adds(e, s) ==
  e.sensor = s /\ (\/ e.kind = "added" /\ e.data.exposed
                   \/ e.kind = "exposed" /\ e.data)
Drops(e, s) ==
  e.sensor = s /\ (\/ e.kind = "deleted"
                   \/ e.kind = "exposed" /\ ~e.data)

Decides(e, s) == Adds(e, s) \/ Drops(e, s)

Fetching(s) == handler.pc \in {"fetch", "add"} /\ handler.sensor = s

Coming(s) ==
  \/ consumed[s] # None \/ Fetching(s)
  \/ initPc = "ask"
  \/ initPc = "fill" /\ initData[s] # None /\ initData[s].exposed

\* A visible sensor is in the view, or on its way, and nothing on its way drops it for
\* good.
Awaited(s) ==
  /\ \A i \in DOMAIN global : Drops(global[i], s) => \E j \in DOMAIN global : j > i /\ Adds(global[j], s)
  /\ (\E j \in DOMAIN global : Adds(global[j], s)) \/ Coming(s)

LosslessInv ==
  /\ link
  /\ ~closed => /\ subscribed <=> initPc # "start"
                /\ initPc = "start" => global = <<>>
                /\ initPc # "start" => \A s \in Sensors : Visible(s) => Awaited(s)

\* In a calm scene the newest event that decides whether a sensor is visible says what
\* the registry says; without one, the view and the handler do.
ShownInv(s) ==
  /\ \A i \in DOMAIN global :
       Decides(global[i], s) /\ (\A j \in DOMAIN global : j > i => ~Decides(global[j], s))
         => (Adds(global[i], s) <=> Visible(s))
  /\ (\A j \in DOMAIN global : ~Decides(global[j], s))
       => /\ Fetching(s) => Visible(s)
          /\ ~Fetching(s) => (consumed[s] # None <=> Visible(s))
  /\ Fetching(s) => consumed[s] = None

\* What the plugin knows is what the view holds, except for what it is being told.
KnownInv(s) ==
  /\ handler.pc = "tellAdded" /\ handler.sensor = s => consumed[s] # None
  /\ handler.pc \in {"unsubscribe", "tellReleased"} /\ handler.sensor = s => consumed[s] = None
  /\ ~(handler.pc \in {"tellAdded", "unsubscribe", "tellReleased"} /\ handler.sensor = s)
       => (s \in known <=> consumed[s] # None)

\* The parts of a record that events change one at a time: whether it is connected
\* and, for each camera, whether it is assigned to it.
Facets == {<<"connected", None>>} \cup {<<"assigned", c>> : c \in Cameras}

Has(x, f) == \/ f[1] = "connected" /\ x.connected = TRUE
             \/ f[1] = "assigned" /\ f[2] \in x.cameras
Sets(e, s, f) ==
  e.sensor = s /\ e.kind = f[1] /\ (f[1] = "assigned" => e.data.camera = f[2])
Says(e, f) == \/ f[1] = "connected" /\ e.data = TRUE
              \/ f[1] = "assigned" /\ e.data.assigned = TRUE

Gone(e, s) == e.sensor = s /\ e.kind = "deleted"
Outdates(e, s, f) == Sets(e, s, f) \/ Gone(e, s)

\* Nothing after position i outdates the facet.
Newest(s, f, i) == \A j \in DOMAIN global : j > i => ~Outdates(global[j], s, f)

Agrees(s, x, f) == registry[s] # None /\ (Has(x, f) <=> Has(registry[s], f))

FacetInv(s, f) ==
  /\ \A i \in DOMAIN global :
       /\ Sets(global[i], s, f) /\ Newest(s, f, i)
            => registry[s] # None /\ (Says(global[i], f) <=> Has(registry[s], f))
       /\ global[i].kind = "added" /\ global[i].sensor = s /\ Newest(s, f, i)
            => Agrees(s, global[i].data, f)
  /\ handler.pc = "add" /\ handler.sensor = s /\ Newest(s, f, 0) => Agrees(s, handler.data, f)
  /\ consumed[s] # None /\ Newest(s, f, 0) => Agrees(s, consumed[s], f)

\* While a calm plugin starts the registry and the view stand still but for init.
CalmStart ==
  /\ global = <<>> /\ handler = HandlerIdle /\ known = {}
  /\ initPc \in {"start", "ask"} => \A s \in Sensors : consumed[s] = None
  /\ initPc = "fill" => \A s \in Sensors :
       /\ initData[s] \in {None, registry[s]}
       /\ consumed[s] # None => Visible(s) /\ \A f \in Facets : Agrees(s, consumed[s], f)
       /\ initData[s] = None => (consumed[s] # None <=> Visible(s))
  /\ initPc = "configure" =>
       /\ \A s \in Sensors :
            /\ consumed[s] # None => Visible(s) /\ \A f \in Facets : Agrees(s, consumed[s], f)
            /\ consumed[s] # None <=> Visible(s)
       /\ initList = {s \in Sensors : consumed[s] # None}

CalmInv ==
  /\ ~closed
  /\ initPc \in {"start", "ask", "fill", "configure"} => CalmStart
  /\ initPc = "done" => \A s \in Sensors :
       /\ s \in Foreign => ShownInv(s)
       /\ KnownInv(s)
       /\ \A f \in Facets : FacetInv(s, f)

ViewIInv == /\ ViewTypes /\ SubsInv
            /\ Lossless => LosslessInv
            /\ Calm => CalmInv

-----------------------------------------------------------------------------
(* Sequences and what the operations do to the view                         *)

LEMMA QueueAppend ==
  ASSUME NEW S, NEW q \in Seq(S), NEW e \in S
  PROVE  /\ Append(q, e) \in Seq(S) /\ Len(q) \in Nat
         /\ DOMAIN q = 1 .. Len(q) /\ DOMAIN Append(q, e) = 1 .. (Len(q) + 1)
         /\ Append(q, e)[Len(q) + 1] = e
         /\ \A i \in DOMAIN q : Append(q, e)[i] = q[i]
OBVIOUS

LEMMA QueueTail ==
  ASSUME NEW S, NEW q \in Seq(S), q # <<>>
  PROVE  /\ Tail(q) \in Seq(S) /\ Head(q) = q[1] /\ Head(q) \in S
         /\ Len(q) \in Nat \ {0} /\ DOMAIN q = 1 .. Len(q) /\ DOMAIN Tail(q) = 1 .. (Len(q) - 1)
         /\ \A i \in DOMAIN Tail(q) : i + 1 \in DOMAIN q /\ Tail(q)[i] = q[i + 1]
         /\ \A i \in DOMAIN q : i > 1 => i - 1 \in DOMAIN Tail(q) /\ Tail(q)[i - 1] = q[i]
OBVIOUS

\* The parts of the view that the calm invariant looks at.
SameView ==
  \A x \in Sensors :
     /\ consumed'[x] # None <=> consumed[x] # None
     /\ consumed[x] # None => /\ consumed'[x].connected = consumed[x].connected
                              /\ consumed'[x].cameras = consumed[x].cameras

LEMMA ProxyIs ==
  ASSUME NEW data \in Record
  PROVE  /\ Proxy(data) \in Proxies /\ Proxy(data) # None
         /\ Proxy(data).connected = data.connected /\ Proxy(data).cameras = data.cameras
<1>1. Proxy(data) \in Proxies
  BY DEF Proxy, Proxies, Record
<1> QED
  BY <1>1, NoneAssumption DEF Proxy

\* A step that leaves the handler's cleanup of a released proxy alone.
SameCleanup ==
  \/ handler' = handler
  \/ handler.pc # "unsubscribe" /\ handler'.pc # "unsubscribe"

LEMMA CleanupKept ==
  ASSUME SameCleanup, NEW s
  PROVE  Unsubscribing(s)' <=> Unsubscribing(s)
BY DEF SameCleanup, Unsubscribing

\* Without a proxy that comes or goes every subscription keeps its holder.
LEMMA SubsKeep ==
  ASSUME SubsInv, UNCHANGED <<scene, link, closed, subVars>>, SameCleanup,
         \A x \in Sensors : consumed'[x] # None <=> consumed[x] # None,
         \A x \in Sensors : x \notin wired => feed'[x] = feed[x]
  PROVE  SubsInv'
<1>1. UNCHANGED <<wired, subs, closing>> /\ (Lossless' <=> Lossless)
  BY DEF subVars, Lossless, Env
<1>2. \A x \in Sensors : One(Unsubscribing(x)') = One(Unsubscribing(x))
  BY CleanupKept DEF One
<1> QED
  BY <1>1, <1>2 DEF SubsInv, One

LEMMA AddEffect ==
  ASSUME ViewTypes, SubsInv, NEW s \in Foreign, NEW data \in Record, AddConsumed(s, data),
         UNCHANGED <<scene, link, closed>>, SameCleanup
  PROVE  /\ consumed' \in [Sensors -> Proxies \cup {None}]
         /\ \A x \in Sensors : consumed'[x] # None => x \in Foreign
         /\ feed' \in [Sensors -> Seq(Values)] /\ subs' \in [Sensors -> Nat]
         /\ SubsInv' /\ consumed'[s] # None
         /\ \A x \in Sensors : consumed[x] # None \/ x # s => consumed'[x] = consumed[x]
         /\ consumed[s] = None => consumed'[s] = Proxy(data)
<1>1. s \in Sensors /\ Proxy(data) \in Proxies /\ Proxy(data) # None
  BY ForeignAssumption, ProxyIs
<1>2. CASE consumed[s] # None
  <2>1. consumed' = consumed /\ UNCHANGED subVars /\ feed' = feed
    BY <1>2 DEF AddConsumed
  <2>2. SubsInv'
    BY <2>1, SubsKeep
  <2> QED
    BY <1>2, <2>1, <2>2 DEF ViewTypes, subVars
<1>3. CASE consumed[s] = None
  <2>1. /\ consumed' = [consumed EXCEPT ![s] = Proxy(data)]
        /\ feed' = [feed EXCEPT ![s] = <<>>] /\ closing' = closing
        /\ \/ wired' = wired \cup {s} /\ subs' = [subs EXCEPT ![s] = @ + 1]
           \/ MayFail /\ wired' = wired /\ subs' = subs
    BY <1>3 DEF AddConsumed
  <2>2. <<>> \in Seq(Values)
    OBVIOUS
  <2>3. /\ consumed' \in [Sensors -> Proxies \cup {None}]
        /\ feed' \in [Sensors -> Seq(Values)] /\ subs' \in [Sensors -> Nat]
        /\ consumed'[s] = Proxy(data) /\ feed'[s] = <<>>
        /\ \A x \in Sensors : x # s => consumed'[x] = consumed[x] /\ subs'[x] = subs[x] /\ feed'[x] = feed[x]
    <3>1. /\ subs' \in [Sensors -> Nat]
          /\ \A x \in Sensors : x # s => subs'[x] = subs[x]
      <4>1. subs \in [Sensors -> Nat]
        BY DEF ViewTypes
      <4>2. subs' = subs \/ subs' = [subs EXCEPT ![s] = @ + 1]
        BY <2>1
      <4> QED
        BY <1>1, <4>1, <4>2
    <3>2. /\ consumed' \in [Sensors -> Proxies \cup {None}] /\ feed' \in [Sensors -> Seq(Values)]
          /\ consumed'[s] = Proxy(data) /\ feed'[s] = <<>>
          /\ \A x \in Sensors : x # s => consumed'[x] = consumed[x] /\ feed'[x] = feed[x]
      BY <1>1, <2>1, <2>2 DEF ViewTypes
    <3>3. \A x \in Sensors : consumed'[x] # None => x \in Foreign
      BY <3>2 DEF ViewTypes
    <3> QED
      BY <3>1, <3>2, <3>3
  <2>4. /\ Lossless' <=> Lossless
        /\ Lossless => ~MayFail
        /\ \A x \in Sensors : One(Unsubscribing(x)') = One(Unsubscribing(x))
    BY CleanupKept DEF Lossless, Env, MayFail, SubsInv, One
  <2>5. s \notin wired
    BY <1>1, <1>3 DEF SubsInv
  <2>6. /\ \/ s \in wired' /\ subs'[s] = subs[s] + 1
           \/ ~Lossless /\ s \notin wired' /\ subs'[s] = subs[s]
        /\ \A x \in Sensors : x # s => (x \in wired' <=> x \in wired)
    BY <1>1, <2>1, <2>4, <2>5 DEF ViewTypes
  <2>7. ASSUME NEW x \in Sensors
        PROVE  /\ subs'[x] = One(x \in wired') + One(Unsubscribing(x)') + One(x \in closing')
               /\ x \in wired' => consumed'[x] # None
               /\ x \notin wired' => feed'[x] = <<>>
               /\ Lossless' /\ consumed'[x] # None => x \in wired'
               /\ ~closed' => x \notin closing'
    <3>1. CASE x = s
      BY <1>1, <2>1, <2>3, <2>4, <2>5, <2>6, <3>1 DEF SubsInv, One
    <3>2. CASE x # s
      BY <2>1, <2>3, <2>4, <2>6, <3>2 DEF SubsInv, One
    <3> QED
      BY <3>1, <3>2
  <2>8. SubsInv'
    BY <2>4, <2>7 DEF SubsInv
  <2> QED
    BY <1>1, <1>3, <2>3, <2>8 DEF ViewTypes
<1> QED
  BY <1>2, <1>3

LEMMA DropEffect ==
  ASSUME ViewTypes, SubsInv, NEW s \in Sensors, consumed[s] # None, DropConsumed(s),
         UNCHANGED <<scene, link, closed>>, handler = HandlerIdle,
         handler' = [pc |-> "unsubscribe", sensor |-> s, data |-> s \in wired]
  PROVE  /\ consumed' \in [Sensors -> Proxies \cup {None}]
         /\ \A x \in Sensors : consumed'[x] # None => x \in Foreign
         /\ feed' \in [Sensors -> Seq(Values)] /\ subs' \in [Sensors -> Nat]
         /\ SubsInv' /\ consumed'[s] = None
         /\ \A x \in Sensors : x # s => consumed'[x] = consumed[x]
         /\ DOMAIN resync' = Resyncs
         /\ \A r \in Resyncs : \/ resync'[r] = ResyncIdle
                               \/ /\ resync'[r] = resync[r]
                                  /\ ~(resync[r].pc = "apply" /\ resync[r].sensor = s)
<1>1. /\ consumed' = [consumed EXCEPT ![s] = None]
      /\ subs' = subs /\ feed' = [feed EXCEPT ![s] = <<>>] /\ wired' = wired \ {s} /\ closing' = closing
      /\ DropResyncs({s})
  BY DEF DropConsumed
<1>2. <<>> \in Seq(Values)
  OBVIOUS
<1>3. /\ consumed' \in [Sensors -> Proxies \cup {None}]
      /\ feed' \in [Sensors -> Seq(Values)] /\ subs' \in [Sensors -> Nat]
      /\ consumed'[s] = None /\ feed'[s] = <<>>
      /\ \A x \in Sensors : x # s => consumed'[x] = consumed[x] /\ feed'[x] = feed[x]
  BY <1>1, <1>2 DEF ViewTypes
<1>4. \A x : ~Unsubscribing(x) /\ (Unsubscribing(x)' <=> x = s /\ s \in wired)
  BY DEF Unsubscribing, HandlerIdle
<1>5. ASSUME NEW x \in Sensors
      PROVE  /\ subs'[x] = One(x \in wired') + One(Unsubscribing(x)') + One(x \in closing')
             /\ x \in wired' => consumed'[x] # None
             /\ x \notin wired' => feed'[x] = <<>>
             /\ Lossless' /\ consumed'[x] # None => x \in wired'
             /\ ~closed' => x \notin closing'
  <2>1. CASE x = s
    BY <1>1, <1>3, <1>4, <2>1 DEF SubsInv, One
  <2>2. CASE x # s
    BY <1>1, <1>3, <1>4, <2>2 DEF SubsInv, One, Lossless, Env
  <2> QED
    BY <2>1, <2>2
<1>6. SubsInv'
  BY <1>5 DEF SubsInv, Lossless, Env
<1>7. /\ DOMAIN resync' = Resyncs
      /\ \A r \in Resyncs : \/ resync'[r] = ResyncIdle
                            \/ /\ resync'[r] = resync[r]
                               /\ ~(resync[r].pc = "apply" /\ resync[r].sensor = s)
  BY <1>1 DEF DropResyncs
<1> QED
  BY <1>3, <1>6, <1>7 DEF ViewTypes

\* A proxy takes a value, from an event or an answer of the registry.
LEMMA ValueEffect ==
  ASSUME ViewTypes, NEW s \in Sensors, consumed[s] # None, NEW v \in Values,
         consumed' = [consumed EXCEPT ![s].value = v]
  PROVE  consumed' \in [Sensors -> Proxies \cup {None}] /\ SameView
<1>1. consumed[s] \in Proxies
  BY DEF ViewTypes
<1>2. [consumed[s] EXCEPT !.value = v] \in Proxies
  BY <1>1 DEF Proxies
<1>3. /\ consumed'[s] = [consumed[s] EXCEPT !.value = v]
      /\ \A x \in Sensors : x # s => consumed'[x] = consumed[x]
      /\ consumed' \in [Sensors -> Proxies \cup {None}]
  BY <1>2 DEF ViewTypes
<1>4. consumed'[s] # None /\ consumed'[s].connected = consumed[s].connected /\ consumed'[s].cameras = consumed[s].cameras
  BY <1>1, <1>2, <1>3, NoneAssumption DEF Proxies
<1> QED
  BY <1>3, <1>4 DEF SameView

LEMMA ConnectedEffect ==
  ASSUME ViewTypes, NEW s \in Sensors, consumed[s] # None, NEW b \in BOOLEAN,
         consumed' = [consumed EXCEPT ![s].connected = b]
  PROVE  /\ consumed' \in [Sensors -> Proxies \cup {None}]
         /\ \A x \in Sensors : x # s => consumed'[x] = consumed[x]
         /\ consumed'[s] # None /\ consumed'[s].connected = b /\ consumed'[s].cameras = consumed[s].cameras
<1>1. consumed[s] \in Proxies
  BY DEF ViewTypes
<1>2. [consumed[s] EXCEPT !.connected = b] \in Proxies
  BY <1>1 DEF Proxies
<1>3. /\ consumed'[s] = [consumed[s] EXCEPT !.connected = b]
      /\ \A x \in Sensors : x # s => consumed'[x] = consumed[x]
      /\ consumed' \in [Sensors -> Proxies \cup {None}]
  BY <1>2 DEF ViewTypes
<1> QED
  BY <1>1, <1>2, <1>3, NoneAssumption DEF Proxies

LEMMA CamerasEffect ==
  ASSUME ViewTypes, NEW s \in Sensors, consumed[s] # None, NEW cs \in SUBSET Cameras,
         consumed' = [consumed EXCEPT ![s].cameras = cs]
  PROVE  /\ consumed' \in [Sensors -> Proxies \cup {None}]
         /\ \A x \in Sensors : x # s => consumed'[x] = consumed[x]
         /\ consumed'[s] # None /\ consumed'[s].cameras = cs /\ consumed'[s].connected = consumed[s].connected
<1>1. consumed[s] \in Proxies
  BY DEF ViewTypes
<1>2. [consumed[s] EXCEPT !.cameras = cs] \in Proxies
  BY <1>1 DEF Proxies
<1>3. /\ consumed'[s] = [consumed[s] EXCEPT !.cameras = cs]
      /\ \A x \in Sensors : x # s => consumed'[x] = consumed[x]
      /\ consumed' \in [Sensors -> Proxies \cup {None}]
  BY <1>2 DEF ViewTypes
<1> QED
  BY <1>1, <1>2, <1>3, NoneAssumption DEF Proxies

\* Proxies come and go together with their answers.
LEMMA ResyncsKeep ==
  ASSUME ViewTypes, NEW r \in Resyncs, resync'[r] = resync[r] \/ resync'[r] = ResyncIdle,
         \A x \in Sensors : consumed[x] # None => consumed'[x] # None \/ resync'[r].sensor # x
  PROVE  ResyncType(r)'
BY DEF ViewTypes, ResyncType, ResyncIdle

-----------------------------------------------------------------------------
(* Types and subscriptions                                                  *)

Typed == ViewTypes /\ SubsInv

LEMMA EventTypes ==
  /\ \A s \in Sensors, data \in Record : Event("added", s, data) \in GlobalEvents
  /\ \A s \in Sensors : Event("deleted", s, None) \in GlobalEvents
  /\ \A s \in Sensors, b \in BOOLEAN : Event("exposed", s, b) \in GlobalEvents
  /\ \A s \in Sensors, b \in BOOLEAN : Event("connected", s, b) \in GlobalEvents
  /\ \A s \in Sensors, c \in Cameras, b \in BOOLEAN :
        Event("assigned", s, [camera |-> c, assigned |-> b]) \in GlobalEvents
BY DEF Event, GlobalEvents, Assignments

\* What a change of the registry does besides publishing: the record it makes.
LEMMA RegistryChanges ==
  ASSUME Typed, NEW s \in scene.sensors,
         \/ \E x \in BOOLEAN, v \in scene.values : CreateSensor(s, x, v)
         \/ \E c \in scene.cameras : AssignSensor(s, c)
         \/ AnnounceSensor(s) \/ DeleteSensor(s) \/ ExposeSensor(s) \/ ConnectSensor(s)
  PROVE  /\ s \in Sensors /\ Change /\ feed' = feed
         /\ registry' \in [Sensors -> Record \cup {None}]
         /\ \A x \in Sensors : x # s => registry'[x] = registry[x]
         /\ \/ /\ registry[s] = None /\ registry'[s] \in Record
               /\ Publish(Event("added", s, registry'[s]))
            \/ /\ registry[s] # None /\ registry'[s] = registry[s]
               /\ Publish(Event("added", s, registry'[s]))
            \/ registry[s] # None /\ registry'[s] = None /\ Publish(Event("deleted", s, None))
            \/ /\ registry[s] # None /\ registry'[s] # None
               /\ registry'[s].connected = registry[s].connected /\ registry'[s].cameras = registry[s].cameras
               /\ registry'[s].exposed = ~registry[s].exposed
               /\ Publish(Event("exposed", s, registry'[s].exposed))
            \/ /\ registry[s] # None /\ registry'[s] # None
               /\ registry'[s].exposed = registry[s].exposed /\ registry'[s].cameras = registry[s].cameras
               /\ Publish(Event("connected", s, registry'[s].connected))
            \/ /\ registry[s] # None /\ registry'[s] # None
               /\ registry'[s].exposed = registry[s].exposed /\ registry'[s].connected = registry[s].connected
               /\ \E c \in Cameras, b \in BOOLEAN :
                    /\ registry'[s].cameras = IF b THEN registry[s].cameras \cup {c} ELSE registry[s].cameras \ {c}
                    /\ Publish(Event("assigned", s, [camera |-> c, assigned |-> b]))
<1>1. s \in Sensors /\ scene.values \subseteq Values /\ scene.cameras \subseteq Cameras
  BY ScenesAssumption DEF Typed, ViewTypes, SceneType
<1>2. registry \in [Sensors -> Record \cup {None}] /\ (registry[s] # None => registry[s] \in Record)
  BY <1>1 DEF Typed, ViewTypes
<1>3. ASSUME NEW x \in BOOLEAN, NEW v \in scene.values, CreateSensor(s, x, v)
      PROVE  /\ Change /\ feed' = feed /\ registry[s] = None /\ registry'[s] \in Record
             /\ registry' \in [Sensors -> Record \cup {None}]
             /\ \A y \in Sensors : y # s => registry'[y] = registry[y]
             /\ Publish(Event("added", s, registry'[s]))
  <2> DEFINE record == [exposed |-> x, connected |-> TRUE, value |-> v, cameras |-> {}]
  <2>1. record \in Record
    BY <1>1 DEF Record
  <2>2. /\ Change /\ feed' = feed /\ registry[s] = None
        /\ registry' = [registry EXCEPT ![s] = record] /\ Publish(Event("added", s, record))
    BY <1>3 DEF CreateSensor
  <2> HIDE DEF record
  <2>3. registry'[s] = record
    BY <1>1, <1>2, <2>2
  <2> QED
    BY <1>1, <1>2, <2>1, <2>2, <2>3
<1>4. ASSUME AnnounceSensor(s)
      PROVE  Change /\ feed' = feed /\ registry[s] # None /\ registry' = registry /\ Publish(Event("added", s, registry'[s]))
  BY <1>4 DEF AnnounceSensor
<1>5. ASSUME DeleteSensor(s)
      PROVE  /\ Change /\ feed' = feed /\ registry[s] # None /\ registry'[s] = None
             /\ registry' \in [Sensors -> Record \cup {None}]
             /\ \A y \in Sensors : y # s => registry'[y] = registry[y]
             /\ Publish(Event("deleted", s, None))
  BY <1>1, <1>2, <1>5 DEF DeleteSensor
<1>6. ASSUME ExposeSensor(s)
      PROVE  /\ Change /\ feed' = feed /\ registry[s] # None /\ registry'[s] # None
             /\ registry' \in [Sensors -> Record \cup {None}]
             /\ \A y \in Sensors : y # s => registry'[y] = registry[y]
             /\ registry'[s].connected = registry[s].connected /\ registry'[s].cameras = registry[s].cameras
             /\ registry'[s].exposed = ~registry[s].exposed
             /\ Publish(Event("exposed", s, registry'[s].exposed))
  <2>1. /\ Change /\ feed' = feed /\ registry[s] # None
        /\ registry' = [registry EXCEPT ![s].exposed = ~@] /\ Publish(Event("exposed", s, ~registry[s].exposed))
    BY <1>6 DEF ExposeSensor
  <2>2. PICK b \in BOOLEAN : b = ~registry[s].exposed
    OBVIOUS
  <2>3. [registry[s] EXCEPT !.exposed = b] \in Record
    BY <1>2, <2>1 DEF Record
  <2>4. registry'[s] = [registry[s] EXCEPT !.exposed = b]
    BY <1>1, <1>2, <2>1, <2>2
  <2>5. registry'[s] \in Record /\ registry'[s].exposed = b
        /\ registry'[s].connected = registry[s].connected /\ registry'[s].cameras = registry[s].cameras
    BY <1>2, <2>1, <2>3, <2>4 DEF Record
  <2>6. registry' \in [Sensors -> Record \cup {None}] /\ \A y \in Sensors : y # s => registry'[y] = registry[y]
    BY <1>1, <1>2, <2>1, <2>4, <2>5
  <2> QED
    BY <2>1, <2>2, <2>5, <2>6, NoneAssumption
<1>7. ASSUME ConnectSensor(s)
      PROVE  /\ Change /\ feed' = feed /\ registry[s] # None /\ registry'[s] # None
             /\ registry' \in [Sensors -> Record \cup {None}]
             /\ \A y \in Sensors : y # s => registry'[y] = registry[y]
             /\ registry'[s].exposed = registry[s].exposed /\ registry'[s].cameras = registry[s].cameras
             /\ Publish(Event("connected", s, registry'[s].connected))
  <2>1. /\ Change /\ feed' = feed /\ registry[s] # None
        /\ registry' = [registry EXCEPT ![s].connected = ~@] /\ Publish(Event("connected", s, ~registry[s].connected))
    BY <1>7 DEF ConnectSensor
  <2>2. PICK b \in BOOLEAN : b = ~registry[s].connected
    OBVIOUS
  <2>3. [registry[s] EXCEPT !.connected = b] \in Record
    BY <1>2, <2>1 DEF Record
  <2>4. registry'[s] = [registry[s] EXCEPT !.connected = b]
    BY <1>1, <1>2, <2>1, <2>2
  <2>5. registry'[s] \in Record /\ registry'[s].connected = b
        /\ registry'[s].exposed = registry[s].exposed /\ registry'[s].cameras = registry[s].cameras
    BY <1>2, <2>1, <2>3, <2>4 DEF Record
  <2>6. registry' \in [Sensors -> Record \cup {None}] /\ \A y \in Sensors : y # s => registry'[y] = registry[y]
    BY <1>1, <1>2, <2>1, <2>4, <2>5
  <2> QED
    BY <2>1, <2>2, <2>5, <2>6, NoneAssumption
<1>8. ASSUME NEW c \in scene.cameras, AssignSensor(s, c)
      PROVE  /\ Change /\ feed' = feed /\ registry[s] # None /\ registry'[s] # None
             /\ registry' \in [Sensors -> Record \cup {None}]
             /\ \A y \in Sensors : y # s => registry'[y] = registry[y]
             /\ registry'[s].exposed = registry[s].exposed /\ registry'[s].connected = registry[s].connected
             /\ \E b \in BOOLEAN :
                    /\ registry'[s].cameras = IF b THEN registry[s].cameras \cup {c} ELSE registry[s].cameras \ {c}
                    /\ Publish(Event("assigned", s, [camera |-> c, assigned |-> b]))
  <2>1. PICK b \in BOOLEAN : b = (c \notin registry[s].cameras)
    OBVIOUS
  <2> DEFINE cs == IF b THEN registry[s].cameras \cup {c} ELSE registry[s].cameras \ {c}
  <2>2. /\ Change /\ feed' = feed /\ registry[s] # None
        /\ registry' = [registry EXCEPT ![s].cameras = cs]
        /\ Publish(Event("assigned", s, [camera |-> c, assigned |-> b]))
    BY <1>8, <2>1 DEF AssignSensor
  <2>3. cs \in SUBSET Cameras
    BY <1>1, <1>2, <2>2 DEF Record
  <2> HIDE DEF cs
  <2>4. registry'[s] = [registry[s] EXCEPT !.cameras = cs]
    BY <1>1, <1>2, <2>2
  <2>5. registry'[s] \in Record /\ registry'[s].cameras = cs
        /\ registry'[s].exposed = registry[s].exposed /\ registry'[s].connected = registry[s].connected
    BY <1>2, <2>2, <2>3, <2>4 DEF Record
  <2>6. registry' \in [Sensors -> Record \cup {None}] /\ \A y \in Sensors : y # s => registry'[y] = registry[y]
    BY <1>1, <1>2, <2>2, <2>4, <2>5
  <2>7. registry'[s] # None
    BY <2>5, NoneAssumption
  <2> QED
    BY <2>2, <2>5, <2>6, <2>7 DEF cs
<1>9. CASE \E x \in BOOLEAN, v \in scene.values : CreateSensor(s, x, v)
  BY <1>1, <1>3, <1>9
<1>10. CASE AnnounceSensor(s)
  BY <1>1, <1>2, <1>4, <1>10
<1>11. CASE DeleteSensor(s)
  BY <1>1, <1>5, <1>11
<1>12. CASE ExposeSensor(s)
  BY <1>1, <1>6, <1>12
<1>13. CASE ConnectSensor(s)
  BY <1>1, <1>7, <1>13
<1>14. CASE \E c \in scene.cameras : AssignSensor(s, c)
  BY <1>1, <1>8, <1>14
<1> QED
  BY <1>9, <1>10, <1>11, <1>12, <1>13, <1>14

\* A value changes nothing the view distinguishes.
LEMMA UpdateChanges ==
  ASSUME Typed, NEW s \in scene.sensors, NEW v \in scene.values, UpdateSensor(s, v)
  PROVE  /\ Change /\ global' = global
         /\ registry' \in [Sensors -> Record \cup {None}]
         /\ \A x \in Sensors :
              /\ registry'[x] # None <=> registry[x] # None
              /\ registry[x] # None => /\ registry'[x].exposed = registry[x].exposed
                                       /\ registry'[x].connected = registry[x].connected
                                       /\ registry'[x].cameras = registry[x].cameras
         /\ feed' \in [Sensors -> Seq(Values)]
         /\ \A x \in Sensors : x \notin wired => feed'[x] = feed[x]
<1>1. s \in Sensors /\ v \in Values
  BY ScenesAssumption DEF Typed, ViewTypes, SceneType
<1>2. /\ Change /\ global' = global /\ registry[s] # None
      /\ registry' = [registry EXCEPT ![s].value = v]
      /\ feed' = IF link /\ s \in wired THEN [feed EXCEPT ![s] = Append(@, v)] ELSE feed
  BY DEF UpdateSensor
<1>3. registry \in [Sensors -> Record \cup {None}] /\ registry[s] \in Record
  BY <1>1, <1>2 DEF Typed, ViewTypes
<1>4. [registry[s] EXCEPT !.value = v] \in Record
  BY <1>1, <1>3 DEF Record
<1>5. /\ registry'[s] = [registry[s] EXCEPT !.value = v]
      /\ \A x \in Sensors : x # s => registry'[x] = registry[x]
      /\ registry' \in [Sensors -> Record \cup {None}]
  BY <1>1, <1>2, <1>3, <1>4
<1>6. /\ registry'[s] # None /\ registry'[s].exposed = registry[s].exposed
      /\ registry'[s].connected = registry[s].connected /\ registry'[s].cameras = registry[s].cameras
  BY <1>3, <1>4, <1>5, NoneAssumption DEF Record
<1>7. feed' \in [Sensors -> Seq(Values)] /\ \A x \in Sensors : x \notin wired => feed'[x] = feed[x]
  <2>1. feed \in [Sensors -> Seq(Values)] /\ Append(feed[s], v) \in Seq(Values)
    BY <1>1 DEF Typed, ViewTypes
  <2> QED
    BY <1>1, <1>2, <2>1
<1> QED
  BY <1>2, <1>5, <1>6, <1>7

LEMMA PublishTypes ==
  ASSUME global \in Seq(GlobalEvents), NEW e \in GlobalEvents, Publish(e)
  PROVE  global' \in Seq(GlobalEvents)
BY DEF Publish

LEMMA TypesRegistry ==
  ASSUME Typed, RegistryStep
  PROVE  Typed'
<1> USE DEF Typed
<1>1. PICK s \in scene.sensors :
        \/ \E x \in BOOLEAN, v \in scene.values : CreateSensor(s, x, v)
        \/ \E v \in scene.values : UpdateSensor(s, v)
        \/ \E c \in scene.cameras : AssignSensor(s, c)
        \/ AnnounceSensor(s) \/ DeleteSensor(s) \/ ExposeSensor(s) \/ ConnectSensor(s)
  BY DEF RegistryStep
<1>2. /\ Change /\ registry' \in [Sensors -> Record \cup {None}] /\ global' \in Seq(GlobalEvents)
      /\ feed' \in [Sensors -> Seq(Values)] /\ \A x \in Sensors : x \notin wired => feed'[x] = feed[x]
  <2>1. CASE \E v \in scene.values : UpdateSensor(s, v)
    BY <2>1, UpdateChanges DEF ViewTypes
  <2>2. CASE ~ \E v \in scene.values : UpdateSensor(s, v)
    <3>1. /\ s \in Sensors /\ Change /\ feed' = feed
          /\ registry' \in [Sensors -> Record \cup {None}]
          /\ \E e \in GlobalEvents : Publish(e)
      <4>1. /\ s \in Sensors /\ Change /\ feed' = feed /\ registry' \in [Sensors -> Record \cup {None}]
            /\ \/ registry'[s] # None /\ Publish(Event("added", s, registry'[s]))
               \/ Publish(Event("deleted", s, None))
               \/ registry'[s] # None /\ Publish(Event("exposed", s, registry'[s].exposed))
               \/ registry'[s] # None /\ Publish(Event("connected", s, registry'[s].connected))
               \/ \E c \in Cameras, b \in BOOLEAN :
                    Publish(Event("assigned", s, [camera |-> c, assigned |-> b]))
        BY <1>1, <2>2, RegistryChanges, NoneAssumption
      <4>2. registry'[s] # None => registry'[s] \in Record /\ registry'[s].exposed \in BOOLEAN /\ registry'[s].connected \in BOOLEAN
        BY <4>1 DEF Record
      <4> QED
        BY <4>1, <4>2, EventTypes
    <3> QED
      BY <3>1, PublishTypes DEF ViewTypes
  <2> QED
    BY <2>1, <2>2
<1>3. UNCHANGED <<scene, link, reconnecting, subscribed, consumed, subVars, known, initVars, handler, resync, resyncIds, closed>>
  BY <1>2 DEF Change
<1>4. \A r \in Resyncs : ResyncType(r)'
  BY <1>3 DEF ViewTypes, ResyncType
<1>5. Resyncs' = Resyncs
  BY <1>3 DEF Resyncs, MaxChanges
<1>6. SubsInv'
  BY <1>2, <1>3, SubsKeep DEF SameCleanup
<1> QED
  BY <1>2, <1>3, <1>4, <1>5, <1>6 DEF ViewTypes, HandlerType, initVars, subVars

LEMMA TypesLink ==
  ASSUME Typed, DropLink \/ RestoreLink
  PROVE  Typed'
<1>1. /\ link' \in BOOLEAN /\ reconnecting' \in BOOLEAN
      /\ UNCHANGED <<scene, registry, global, subscribed, viewVars, initVars, handler, resync, resyncIds, closed>>
  BY DEF DropLink, RestoreLink, Typed, ViewTypes
<1>2. \A r \in Resyncs : ResyncType(r)'
  BY <1>1 DEF Typed, ViewTypes, ResyncType, viewVars
<1>3. Lossless => link'
  BY DEF DropLink, RestoreLink, Lossless
<1>4. SubsInv'
  BY <1>1, <1>3 DEF Typed, SubsInv, Unsubscribing, Lossless, Env, viewVars, subVars
<1> QED
  BY <1>1, <1>2, <1>4 DEF Typed, ViewTypes, HandlerType, viewVars, subVars, initVars, Resyncs, MaxChanges

LEMMA TypesInit ==
  ASSUME Typed, InitStep
  PROVE  Typed'
<1> USE DEF Typed, regVars, viewVars, initVars
<1>1. UNCHANGED <<regVars, global, handler, resync, resyncIds, closed>>
  BY DEF InitStep, EnsureGlobalSubscription, SubscribeFails, GetSensors, ListView, ConfigureSensors, FillView
<1>2. CASE EnsureGlobalSubscription \/ SubscribeFails \/ GetSensors \/ ListView \/ ConfigureSensors
  <2>1. UNCHANGED <<consumed, subVars, feed>> /\ subscribed' \in BOOLEAN
    BY <1>2 DEF EnsureGlobalSubscription, SubscribeFails, GetSensors, ListView, ConfigureSensors, ViewTypes
  <2>2. initPc' \in {"start", "ask", "fill", "configure", "done", "failed"} /\ initData' \in [Sensors -> Record \cup {None}]
    BY <1>2 DEF EnsureGlobalSubscription, SubscribeFails, GetSensors, ListView, ConfigureSensors, ViewTypes
  <2>3. \A r \in Resyncs : ResyncType(r)'
    BY <1>1, <2>1 DEF ViewTypes, ResyncType
  <2>4. SubsInv'
    BY <1>1, <2>1, SubsKeep DEF SameCleanup
  <2> QED
    BY <1>1, <2>1, <2>2, <2>3, <2>4 DEF ViewTypes, HandlerType, Resyncs, MaxChanges, subVars
<1>3. ASSUME NEW s \in Sensors, FillView(s)
      PROVE  Typed'
  <2>1. /\ initData[s] # None /\ initData' = [initData EXCEPT ![s] = None] /\ UNCHANGED <<subscribed, initPc>>
        /\ IF IsConsumable(s, initData[s]) THEN AddConsumed(s, initData[s]) ELSE UNCHANGED <<consumed, subVars, feed>>
    BY <1>3 DEF FillView
  <2>2. initData' \in [Sensors -> Record \cup {None}] /\ initData[s] \in Record
    BY <2>1 DEF ViewTypes
  <2>3. /\ consumed' \in [Sensors -> Proxies \cup {None}]
        /\ \A x \in Sensors : consumed'[x] # None => x \in Foreign
        /\ feed' \in [Sensors -> Seq(Values)] /\ subs' \in [Sensors -> Nat]
        /\ SubsInv' /\ \A x \in Sensors : consumed[x] # None => consumed'[x] # None
    <3>1. CASE IsConsumable(s, initData[s])
      <4>1. s \in Foreign /\ AddConsumed(s, initData[s])
        BY <2>1, <3>1 DEF IsConsumable
      <4> QED
        BY <1>1, <2>2, <4>1, AddEffect DEF SameCleanup
    <3>2. CASE ~IsConsumable(s, initData[s])
      <4>1. UNCHANGED <<consumed, subVars, feed>>
        BY <2>1, <3>2
      <4>2. SubsInv'
        BY <1>1, <4>1, SubsKeep DEF SameCleanup
      <4> QED
        BY <4>1, <4>2 DEF ViewTypes, subVars
    <3> QED
      BY <3>1, <3>2
  <2>4. \A r \in Resyncs : ResyncType(r)'
    BY <1>1, <2>3 DEF ViewTypes, ResyncType
  <2> QED
    BY <1>1, <2>1, <2>2, <2>3, <2>4 DEF ViewTypes, HandlerType, Resyncs, MaxChanges
<1> QED
  BY <1>2, <1>3 DEF InitStep

\* What init leaves alone while it adds a proxy.
LEMMA FillFrame ==
  ASSUME NEW s, FillView(s)
  PROVE  UNCHANGED <<scene, link, closed>> /\ SameCleanup
BY DEF FillView, regVars, SameCleanup

LEMMA TypesFeed ==
  ASSUME Typed, NEW s \in Sensors, HandleSensorEvent(s)
  PROVE  Typed' /\ SameView
<1> USE DEF Typed, regVars, initVars
<1>1. /\ feed[s] # <<>> /\ consumed' = [consumed EXCEPT ![s].value = Head(feed[s])]
      /\ feed' = [feed EXCEPT ![s] = Tail(@)]
      /\ UNCHANGED <<regVars, global, subscribed, subVars, known, initVars, handler, resync, resyncIds, closed>>
  BY DEF HandleSensorEvent
<1>2. consumed[s] # None
  BY <1>1 DEF SubsInv
<1>3. feed[s] \in Seq(Values) /\ Head(feed[s]) \in Values /\ Tail(feed[s]) \in Seq(Values)
  BY <1>1 DEF ViewTypes
<1>4. consumed' \in [Sensors -> Proxies \cup {None}] /\ SameView
  BY <1>1, <1>2, <1>3, ValueEffect
<1>5. feed' \in [Sensors -> Seq(Values)] /\ \A x \in Sensors : x # s => feed'[x] = feed[x]
  BY <1>1, <1>3 DEF ViewTypes
<1>6. SubsInv'
  <2>1. s \in wired
    BY <1>1 DEF SubsInv
  <2>2. \A x \in Sensors : consumed'[x] # None <=> consumed[x] # None
    BY <1>4 DEF SameView
  <2> QED
    BY <1>1, <1>5, <2>1, <2>2, SubsKeep DEF SameCleanup
<1>7. \A r \in Resyncs : ResyncType(r)'
  BY <1>1, <1>4 DEF ViewTypes, ResyncType, SameView
<1> QED
  BY <1>1, <1>4, <1>5, <1>6, <1>7 DEF ViewTypes, HandlerType, SameView, Resyncs, MaxChanges, subVars

LEMMA TypesResync ==
  ASSUME Typed, ResyncStep
  PROVE  Typed' /\ SameView
<1> USE DEF Typed, regVars, viewVars, initVars
<1>1. UNCHANGED <<scene, registry, link, changes, global, subscribed, subVars, feed, known, initVars, handler, closed>>
  BY DEF ResyncStep, ResyncAllConsumed, ResyncNext, GetSensorState, ApplyRefreshedState
<1>0. SameView => SubsInv'
  BY <1>1, SubsKeep DEF SameView, SameCleanup
<1>2. Resyncs' = Resyncs
  BY <1>1 DEF Resyncs, MaxChanges
<1>3. CASE ResyncAllConsumed
  <2>1. consumed' = consumed /\ reconnecting' \in BOOLEAN /\ resyncIds' \subseteq Sensors /\ resync' = resync
    BY <1>3 DEF ResyncAllConsumed
  <2>2. \A r \in Resyncs : ResyncType(r)'
    BY <2>1, <1>1 DEF ViewTypes, ResyncType
  <2> QED
    BY <1>0, <1>1, <1>2, <2>1, <2>2 DEF ViewTypes, HandlerType, SameView, subVars
<1>4. ASSUME NEW s \in Sensors, ResyncNext(s)
      PROVE  Typed' /\ SameView
  <2>1. /\ UNCHANGED <<reconnecting, consumed>> /\ resyncIds' \subseteq Sensors
        /\ resync' = [resync EXCEPT ![0] = [pc |-> "ask", sensor |-> s, value |-> None]]
    BY <1>4 DEF ResyncNext, ViewTypes
  <2>2. DOMAIN resync' = Resyncs /\ \A r \in Resyncs :
           resync'[r] = resync[r] \/ resync'[r] = [pc |-> "ask", sensor |-> s, value |-> None]
    BY <2>1 DEF ViewTypes
  <2>3. \A r \in Resyncs : ResyncType(r)'
    BY <2>1, <2>2 DEF ViewTypes, ResyncType
  <2> QED
    BY <1>0, <1>1, <1>2, <2>1, <2>2, <2>3 DEF ViewTypes, HandlerType, SameView, subVars
<1>5. ASSUME NEW r \in Resyncs, GetSensorState(r)
      PROVE  Typed' /\ SameView
  <2> DEFINE s == resync[r].sensor
  <2>1. /\ resync[r].pc = "ask" /\ UNCHANGED <<reconnecting, consumed, resyncIds>>
        /\ \/ resync' = [resync EXCEPT ![r] = ResyncIdle]
           \/ /\ consumed[s] # None /\ registry[s] # None
              /\ resync' = [resync EXCEPT ![r] = [pc |-> "apply", sensor |-> s, value |-> registry[s].value]]
    BY <1>5 DEF GetSensorState
  <2>2. s \in Sensors
    BY <2>1 DEF ViewTypes, ResyncType, ResyncIdle
  <2>3. registry[s] # None => registry[s].value \in Values
    BY <2>2 DEF ViewTypes, Record
  <2> HIDE DEF s
  <2>4. /\ DOMAIN resync' = Resyncs /\ \A q \in Resyncs : q # r => resync'[q] = resync[q]
        /\ \/ resync'[r] = ResyncIdle
           \/ /\ consumed[s] # None /\ registry[s] # None
              /\ resync'[r] = [pc |-> "apply", sensor |-> s, value |-> registry[s].value]
    BY <2>1 DEF ViewTypes
  <2>5. ResyncType(r)'
    BY <2>1, <2>2, <2>3, <2>4 DEF ResyncType
  <2>6. \A q \in Resyncs : ResyncType(q)'
    BY <2>1, <2>4, <2>5 DEF ViewTypes, ResyncType
  <2> QED
    BY <1>0, <1>1, <1>2, <2>1, <2>4, <2>6 DEF ViewTypes, HandlerType, SameView, subVars
<1>6. ASSUME NEW r \in Resyncs, ApplyRefreshedState(r)
      PROVE  Typed' /\ SameView
  <2>1. /\ resync[r].pc = "apply" /\ UNCHANGED <<reconnecting, resyncIds>>
        /\ consumed' = [consumed EXCEPT ![resync[r].sensor].value = resync[r].value]
        /\ resync' = [resync EXCEPT ![r] = ResyncIdle]
    BY <1>6 DEF ApplyRefreshedState
  <2>2. resync[r].sensor \in Sensors /\ resync[r].value \in Values /\ consumed[resync[r].sensor] # None
    BY <2>1 DEF ViewTypes, ResyncType, ResyncIdle
  <2>3. consumed' \in [Sensors -> Proxies \cup {None}] /\ SameView
    BY <2>1, <2>2, ValueEffect
  <2>4. DOMAIN resync' = Resyncs /\ \A q \in Resyncs : resync'[q] = resync[q] \/ resync'[q] = ResyncIdle
    BY <2>1 DEF ViewTypes
  <2>5. \A q \in Resyncs : ResyncType(q)'
    BY <2>3, <2>4 DEF ViewTypes, ResyncType, SameView
  <2> QED
    BY <1>0, <1>1, <1>2, <2>1, <2>3, <2>4, <2>5 DEF ViewTypes, HandlerType, SameView, subVars
<1> QED
  BY <1>3, <1>4, <1>5, <1>6 DEF ResyncStep

LEMMA TypesClose ==
  ASSUME Typed, Close
  PROVE  Typed'
<1> USE DEF Typed, initVars
<1>1. /\ ~closed /\ closed' = TRUE /\ subscribed' = FALSE /\ reconnecting' = FALSE /\ global' = <<>>
      /\ consumed' = [s \in Sensors |-> None] /\ wired' = {} /\ closing' = wired
      /\ feed' = [s \in Sensors |-> <<>>]
      /\ DropResyncs(Sensors)
      /\ UNCHANGED <<scene, registry, link, changes, subs, known, initVars, handler, resyncIds>>
  BY DEF Close
<1>2. <<>> \in Seq(Values) /\ <<>> \in Seq(GlobalEvents)
  OBVIOUS
<1>3. SubsInv'
  <2>1. \A x : Unsubscribing(x)' <=> Unsubscribing(x)
    BY <1>1 DEF Unsubscribing
  <2>2. \A x \in Sensors : One(Unsubscribing(x)') = One(Unsubscribing(x))
    BY <2>1 DEF One
  <2> QED
    BY <1>1, <2>2 DEF SubsInv, One, Lossless, Env
<1>4. DOMAIN resync' = Resyncs /\ \A r \in Resyncs : ResyncType(r)'
  <2>1. /\ DOMAIN resync' = Resyncs
        /\ \A r \in Resyncs : \/ resync'[r] = ResyncIdle
                              \/ /\ resync'[r] = resync[r]
                                 /\ ~(resync[r].pc = "apply" /\ resync[r].sensor \in Sensors)
    BY <1>1 DEF DropResyncs
  <2> QED
    BY <2>1 DEF ViewTypes, ResyncType, ResyncIdle
<1>5. Resyncs' = Resyncs
  BY <1>1 DEF Resyncs, MaxChanges
<1> QED
  BY <1>1, <1>2, <1>3, <1>4, <1>5 DEF ViewTypes, HandlerType

\* The proxies close() took give their subscriptions back.
LEMMA TypesCleanupClosed ==
  ASSUME Typed, NEW s \in Sensors, CleanupClosed(s)
  PROVE  Typed'
<1> USE DEF Typed, initVars, regVars
<1>1. /\ s \in closing /\ closing' = closing \ {s} /\ subs' = [subs EXCEPT ![s] = @ - 1]
      /\ UNCHANGED <<regVars, global, subscribed, consumed, wired, feed, known, initVars,
                     handler, resync, resyncIds, closed>>
  BY DEF CleanupClosed
<1>2. \A x \in Sensors : One(Unsubscribing(x)') = One(Unsubscribing(x))
  BY <1>1 DEF One, Unsubscribing
<1>3. /\ subs[s] \in Nat \ {0} /\ subs'[s] = subs[s] - 1
      /\ \A x \in Sensors : x # s => subs'[x] = subs[x]
      /\ subs' \in [Sensors -> Nat]
  <2>1. subs \in [Sensors -> Nat] /\ subs[s] = One(s \in wired) + One(Unsubscribing(s)) + One(s \in closing)
    BY DEF SubsInv, ViewTypes
  <2>2. One(s \in wired) \in {0, 1} /\ One(Unsubscribing(s)) \in {0, 1} /\ One(s \in closing) = 1
    BY <1>1 DEF One
  <2>3. subs[s] \in Nat \ {0}
    BY <2>1, <2>2
  <2> QED
    BY <1>1, <2>1, <2>3
<1>4. SubsInv'
  BY <1>1, <1>2, <1>3 DEF SubsInv, One, Lossless, Env
<1>5. \A r \in Resyncs : ResyncType(r)'
  BY <1>1 DEF ViewTypes, ResyncType
<1> QED
  BY <1>1, <1>3, <1>4, <1>5 DEF ViewTypes, HandlerType, Resyncs, MaxChanges

\* The event the handler takes next, and what is left of the stream.
LEMMA NextEvent ==
  ASSUME Typed, NEW k, Handles(k)
  PROVE  /\ handler = HandlerIdle /\ global # <<>> /\ global' = Tail(global)
         /\ Head(global) \in GlobalEvents /\ Head(global).kind = k
         /\ Head(global).sensor \in Sensors /\ global' \in Seq(GlobalEvents)
<1>1. handler.pc = "idle" /\ global # <<>> /\ Head(global).kind = k /\ global' = Tail(global)
  BY DEF Handles
<1>2. handler = HandlerIdle
  BY <1>1 DEF Typed, ViewTypes, HandlerType
<1>3. Head(global) \in GlobalEvents /\ global' \in Seq(GlobalEvents)
  BY <1>1, QueueTail DEF Typed, ViewTypes
<1>4. Head(global).sensor \in Sensors
  BY <1>3 DEF GlobalEvents
<1> QED
  BY <1>1, <1>2, <1>3, <1>4

\* What a handler step leaves alone.
HandlerFrame == UNCHANGED <<regVars, subscribed, initVars, resyncIds, closed>>

\* Every resync goes on, or ends; a new one asks for a sensor.
LEMMA TypesOf ==
  ASSUME Typed, HandlerFrame, global' \in Seq(GlobalEvents),
         feed' \in [Sensors -> Seq(Values)], subs' \in [Sensors -> Nat], SubsInv',
         consumed' \in [Sensors -> Proxies \cup {None}],
         \A x \in Sensors : consumed'[x] # None => x \in Foreign,
         HandlerType', DOMAIN resync' = Resyncs, \A r \in Resyncs : ResyncType(r)'
  PROVE  Typed'
BY DEF Typed, ViewTypes, HandlerFrame, regVars, initVars, Resyncs, MaxChanges

LEMMA TypesSameProxies ==
  ASSUME Typed, HandlerFrame, global' \in Seq(GlobalEvents), UNCHANGED <<feed, subVars, resync>>,
         consumed' \in [Sensors -> Proxies \cup {None}], SameCleanup,
         \A x \in Sensors : consumed'[x] # None <=> consumed[x] # None, HandlerType'
  PROVE  Typed'
<1>1. SubsInv'
  BY SubsKeep DEF Typed, HandlerFrame, regVars
<1>2. \A r \in Resyncs : ResyncType(r)'
  BY DEF Typed, ViewTypes, ResyncType
<1>3. /\ feed' \in [Sensors -> Seq(Values)] /\ subs' \in [Sensors -> Nat]
      /\ \A x \in Sensors : consumed'[x] # None => x \in Foreign
      /\ DOMAIN resync' = Resyncs
  BY DEF Typed, ViewTypes, subVars
<1> QED
  BY <1>1, <1>2, <1>3, TypesOf

\* sensor:added
LEMMA AddedEffect ==
  ASSUME Typed, OnAdded
  PROVE  LET s == Head(global).sensor
             data == Head(global).data
         IN  /\ Handles("added") /\ data \in Record /\ UNCHANGED known /\ Typed'
             /\ \/ consumed[s] # None /\ SameView /\ handler' = HandlerIdle
                \/ /\ consumed[s] = None /\ consumed' = consumed
                   /\ s \in Foreign /\ data.exposed /\ handler' = [pc |-> "add", sensor |-> s, data |-> data]
                \/ /\ consumed[s] = None /\ consumed' = consumed
                   /\ ~(s \in Foreign /\ data.exposed) /\ handler' = HandlerIdle
<1> DEFINE s == Head(global).sensor
           data == Head(global).data
<1>1. /\ Handles("added") /\ HandlerFrame /\ UNCHANGED <<subVars, feed, known, resync>>
      /\ IF consumed[s] # None
         THEN consumed' = [consumed EXCEPT ![s].value = data.value] /\ handler' = handler
         ELSE /\ consumed' = consumed
              /\ IF s \in Foreign /\ data.exposed
                 THEN handler' = [pc |-> "add", sensor |-> s, data |-> data] ELSE handler' = handler
  BY DEF OnAdded, IsConsumable, HandlerAt, HandlerFrame
<1>2. /\ handler = HandlerIdle /\ Head(global) \in GlobalEvents /\ Head(global).kind = "added"
      /\ s \in Sensors /\ global' \in Seq(GlobalEvents)
  BY <1>1, NextEvent
<1>3. data \in Record
  BY <1>2 DEF GlobalEvents
<1> HIDE DEF s, data
<1>4. CASE consumed[s] # None
  <2>1. data.value \in Values
    BY <1>3 DEF Record
  <2>2. consumed' \in [Sensors -> Proxies \cup {None}] /\ SameView
    BY <1>1, <1>2, <1>4, <2>1, ValueEffect DEF Typed
  <2>3. handler' = HandlerIdle /\ HandlerType'
    BY <1>1, <1>2, <1>4 DEF HandlerType
  <2>4. Typed'
    BY <1>1, <1>2, <2>2, <2>3, TypesSameProxies DEF SameView, SameCleanup
  <2> QED
    BY <1>1, <1>3, <1>4, <2>2, <2>3, <2>4 DEF s, data
<1>5. CASE consumed[s] = None
  <2>1. consumed' = consumed /\ consumed' \in [Sensors -> Proxies \cup {None}]
    BY <1>1, <1>5 DEF Typed, ViewTypes
  <2>2. HandlerType'
    <3>1. CASE s \in Foreign /\ data.exposed
      <4>1. handler' = [pc |-> "add", sensor |-> s, data |-> data]
        BY <1>1, <1>5, <3>1
      <4>2. data.exposed = TRUE
        BY <1>3, <3>1 DEF Record
      <4> QED
        BY <1>3, <3>1, <4>1, <4>2 DEF HandlerType
    <3>2. CASE ~(s \in Foreign /\ data.exposed)
      BY <1>1, <1>2, <1>5, <3>2 DEF HandlerType
    <3> QED
      BY <3>1, <3>2
  <2>3. SameCleanup
    BY <1>1, <1>2, <1>5 DEF SameCleanup, HandlerIdle
  <2>4. Typed'
    BY <1>1, <1>2, <2>1, <2>2, <2>3, TypesSameProxies
  <2> QED
    BY <1>1, <1>2, <1>3, <1>5, <2>1, <2>4 DEF s, data
<1> QED
  BY <1>4, <1>5

\* sensor:deleted and sensor:exposed:changed to false
LEMMA ReleaseEffect ==
  ASSUME Typed, OnDeleted \/ OnHidden
  PROVE  LET s == Head(global).sensor
         IN  /\ \/ Handles("deleted")
                \/ Handles("exposed") /\ ~Head(global).data
             /\ UNCHANGED known /\ Typed'
             /\ \A x \in Sensors : x # s => consumed'[x] = consumed[x]
             /\ \/ /\ consumed[s] # None /\ consumed'[s] = None
                   /\ handler' = [pc |-> "unsubscribe", sensor |-> s, data |-> s \in wired]
                \/ consumed[s] = None /\ consumed' = consumed /\ handler' = HandlerIdle
<1> DEFINE s == Head(global).sensor
<1>1. /\ Handles("deleted") \/ (Handles("exposed") /\ ~Head(global).data)
      /\ Release(s)
  BY DEF OnDeleted, OnHidden
<1>2. handler = HandlerIdle /\ s \in Sensors /\ global' \in Seq(GlobalEvents)
  BY <1>1, NextEvent
<1> HIDE DEF s
<1>3. /\ HandlerFrame /\ UNCHANGED known
      /\ IF consumed[s] # None
         THEN DropConsumed(s) /\ handler' = [pc |-> "unsubscribe", sensor |-> s, data |-> s \in wired]
         ELSE UNCHANGED <<consumed, subVars, feed, resync, handler>>
  BY <1>1 DEF Release, HandlerFrame, HandlerAt
<1>4. CASE consumed[s] # None
  <2>1. /\ consumed' \in [Sensors -> Proxies \cup {None}]
        /\ \A x \in Sensors : consumed'[x] # None => x \in Foreign
        /\ feed' \in [Sensors -> Seq(Values)] /\ subs' \in [Sensors -> Nat]
        /\ SubsInv' /\ consumed'[s] = None
        /\ \A x \in Sensors : x # s => consumed'[x] = consumed[x]
        /\ DOMAIN resync' = Resyncs
        /\ \A r \in Resyncs : \/ resync'[r] = ResyncIdle
                              \/ /\ resync'[r] = resync[r]
                                 /\ ~(resync[r].pc = "apply" /\ resync[r].sensor = s)
    BY <1>2, <1>3, <1>4, DropEffect DEF Typed, HandlerFrame, regVars
  <2>2. handler' = [pc |-> "unsubscribe", sensor |-> s, data |-> s \in wired] /\ HandlerType'
    <3>1. handler' = [pc |-> "unsubscribe", sensor |-> s, data |-> s \in wired]
      BY <1>3, <1>4
    <3>2. (s \in wired) \in BOOLEAN
      OBVIOUS
    <3>3. ASSUME NEW b \in BOOLEAN, handler' = [pc |-> "unsubscribe", sensor |-> s, data |-> b]
          PROVE  HandlerType'
      BY <1>2, <3>3 DEF HandlerType
    <3> QED
      BY <3>1, <3>2, <3>3
  <2>3. \A r \in Resyncs : ResyncType(r)'
    BY <2>1 DEF Typed, ViewTypes, ResyncType
  <2>4. Typed'
    BY <1>2, <1>3, <2>1, <2>2, <2>3, TypesOf
  <2> QED
    BY <1>1, <1>3, <1>4, <2>1, <2>2, <2>4 DEF s
<1>5. CASE consumed[s] = None
  <2>1. UNCHANGED <<consumed, subVars, feed, resync, handler>>
    BY <1>3, <1>5
  <2>2. consumed' \in [Sensors -> Proxies \cup {None}] /\ HandlerType' /\ handler' = HandlerIdle
    BY <1>2, <2>1 DEF Typed, ViewTypes, HandlerType
  <2>3. Typed'
    BY <1>2, <1>3, <2>1, <2>2, TypesSameProxies DEF SameCleanup
  <2> QED
    BY <1>1, <1>3, <1>5, <2>1, <2>2, <2>3 DEF s
<1> QED
  BY <1>4, <1>5

\* sensor:exposed:changed to true
LEMMA ExposedEffect ==
  ASSUME Typed, OnExposed
  PROVE  LET s == Head(global).sensor
         IN  /\ Handles("exposed") /\ Head(global).data
             /\ UNCHANGED <<consumed, known>> /\ Typed'
             /\ \/ consumed[s] # None /\ handler' = HandlerIdle
                \/ consumed[s] = None /\ handler' = [pc |-> "fetch", sensor |-> s, data |-> None]
<1> DEFINE s == Head(global).sensor
<1>1. /\ Handles("exposed") /\ Head(global).data /\ HandlerFrame
      /\ UNCHANGED <<consumed, subVars, feed, known, resync>>
      /\ IF consumed[s] # None THEN UNCHANGED handler
         ELSE handler' = [pc |-> "fetch", sensor |-> s, data |-> None]
  BY DEF OnExposed, HandlerFrame, HandlerAt, viewVars
<1>2. handler = HandlerIdle /\ s \in Sensors /\ global' \in Seq(GlobalEvents)
  BY <1>1, NextEvent
<1> HIDE DEF s
<1>3. HandlerType'
  <2>1. CASE consumed[s] # None
    BY <1>1, <1>2, <2>1 DEF HandlerType
  <2>2. CASE consumed[s] = None
    <3>1. handler' = [pc |-> "fetch", sensor |-> s, data |-> None]
      BY <1>1, <2>2
    <3> QED
      BY <1>2, <3>1 DEF HandlerType
  <2> QED
    BY <2>1, <2>2
<1>4. consumed' \in [Sensors -> Proxies \cup {None}]
  BY <1>1 DEF Typed, ViewTypes
<1>5. SameCleanup
  BY <1>1, <1>2 DEF SameCleanup, HandlerIdle
<1>6. Typed'
  BY <1>1, <1>2, <1>3, <1>4, <1>5, TypesSameProxies
<1> QED
  BY <1>1, <1>2, <1>6 DEF s

\* sensor:connected:changed
LEMMA ConnectionEffect ==
  ASSUME Typed, OnConnected
  PROVE  LET s == Head(global).sensor
             b == Head(global).data
         IN  /\ Handles("connected") /\ b \in BOOLEAN /\ UNCHANGED <<known, handler>> /\ Typed'
             /\ \A x \in Sensors : x # s => consumed'[x] = consumed[x]
             /\ consumed'[s] # None <=> consumed[s] # None
             /\ consumed[s] # None =>
                  consumed'[s].connected = b /\ consumed'[s].cameras = consumed[s].cameras
<1> DEFINE s == Head(global).sensor
           b == Head(global).data
           free == {r \in Resyncs \ {0} : resync[r].pc = "idle"}
           job == [pc |-> "ask", sensor |-> s, value |-> None]
<1>1. /\ Handles("connected") /\ HandlerFrame /\ UNCHANGED <<subVars, feed, known, handler>>
      /\ IF consumed[s] = None THEN UNCHANGED <<consumed, resync>>
         ELSE /\ consumed' = [consumed EXCEPT ![s].connected = b]
              /\ resync' = resync \/ \E r : resync' = [resync EXCEPT ![r] = job]
  BY DEF OnConnected, HandlerFrame
<1>2. /\ handler = HandlerIdle /\ Head(global) \in GlobalEvents /\ Head(global).kind = "connected"
      /\ s \in Sensors /\ global' \in Seq(GlobalEvents)
  BY <1>1, NextEvent
<1>3. b \in BOOLEAN
  BY <1>2 DEF GlobalEvents
<1> HIDE DEF s, b, free
<1>4. /\ consumed' \in [Sensors -> Proxies \cup {None}]
      /\ \A x \in Sensors : x # s => consumed'[x] = consumed[x]
      /\ consumed'[s] # None <=> consumed[s] # None
      /\ consumed[s] # None =>
           consumed'[s].connected = b /\ consumed'[s].cameras = consumed[s].cameras
  <2>1. CASE consumed[s] # None
    BY <1>1, <1>2, <1>3, <2>1, ConnectedEffect DEF Typed
  <2>2. CASE consumed[s] = None
    BY <1>1, <2>2 DEF Typed, ViewTypes
  <2> QED
    BY <2>1, <2>2
<1>5. DOMAIN resync' = Resyncs /\ \A r \in Resyncs : resync'[r] = resync[r] \/ resync'[r] = job
  BY <1>1 DEF Typed, ViewTypes
<1>6. \A r \in Resyncs : ResyncType(r)'
  BY <1>2, <1>4, <1>5 DEF Typed, ViewTypes, ResyncType
<1>7. HandlerType' /\ SubsInv' /\ \A x \in Sensors : consumed'[x] # None => x \in Foreign
  <2>1. HandlerType' /\ \A x \in Sensors : consumed'[x] # None <=> consumed[x] # None
    BY <1>1, <1>2, <1>4 DEF HandlerType
  <2>2. SubsInv'
    BY <1>1, <2>1, SubsKeep DEF Typed, SameCleanup, HandlerFrame, regVars
  <2> QED
    BY <2>1, <2>2 DEF Typed, ViewTypes
<1>8. feed' \in [Sensors -> Seq(Values)] /\ subs' \in [Sensors -> Nat]
  BY <1>1 DEF Typed, ViewTypes, subVars
<1>9. Typed'
  BY <1>1, <1>2, <1>4, <1>5, <1>6, <1>7, <1>8, TypesOf
<1> QED
  BY <1>1, <1>3, <1>4, <1>9 DEF s, b

\* sensor:assignment:changed
LEMMA AssignmentEffect ==
  ASSUME Typed, OnAssignment
  PROVE  LET s == Head(global).sensor
             a == Head(global).data
         IN  /\ Handles("assigned") /\ a \in Assignments /\ UNCHANGED <<known, handler>> /\ Typed'
             /\ \A x \in Sensors : x # s => consumed'[x] = consumed[x]
             /\ consumed'[s] # None <=> consumed[s] # None
             /\ consumed[s] # None =>
                  /\ consumed'[s].connected = consumed[s].connected
                  /\ consumed'[s].cameras = (consumed[s].cameras \ {a.camera})
                                              \cup (IF a.assigned THEN {a.camera} ELSE {})
<1> DEFINE s == Head(global).sensor
           a == Head(global).data
           cs == (consumed[s].cameras \ {a.camera}) \cup (IF a.assigned THEN {a.camera} ELSE {})
<1>1. /\ Handles("assigned") /\ HandlerFrame /\ UNCHANGED <<subVars, feed, known, handler, resync>>
      /\ consumed' = IF consumed[s] = None THEN consumed ELSE [consumed EXCEPT ![s].cameras = cs]
  BY DEF OnAssignment, HandlerFrame
<1>2. /\ handler = HandlerIdle /\ Head(global) \in GlobalEvents /\ Head(global).kind = "assigned"
      /\ s \in Sensors /\ global' \in Seq(GlobalEvents)
  BY <1>1, NextEvent
<1>3. a \in Assignments /\ a.camera \in Cameras
  BY <1>2 DEF GlobalEvents, Assignments
<1>4. consumed[s] # None => cs \in SUBSET Cameras
  BY <1>2, <1>3 DEF Typed, ViewTypes, Proxies
<1> HIDE DEF s, a, cs
<1>5. /\ consumed' \in [Sensors -> Proxies \cup {None}]
      /\ \A x \in Sensors : x # s => consumed'[x] = consumed[x]
      /\ consumed'[s] # None <=> consumed[s] # None
      /\ consumed[s] # None =>
           consumed'[s].connected = consumed[s].connected /\ consumed'[s].cameras = cs
  <2>1. CASE consumed[s] # None
    BY <1>1, <1>2, <1>4, <2>1, CamerasEffect DEF Typed
  <2>2. CASE consumed[s] = None
    BY <1>1, <2>2 DEF Typed, ViewTypes
  <2> QED
    BY <2>1, <2>2
<1>6. HandlerType' /\ \A x \in Sensors : consumed'[x] # None <=> consumed[x] # None
  BY <1>1, <1>2, <1>5 DEF HandlerType
<1>7. Typed'
  BY <1>1, <1>2, <1>5, <1>6, TypesSameProxies DEF SameCleanup
<1> QED
  BY <1>1, <1>3, <1>5, <1>7 DEF s, a, cs

LEMMA FetchEffect ==
  ASSUME Typed, FetchSensor
  PROVE  LET s == handler.sensor
         IN  /\ handler.pc = "fetch" /\ s \in Sensors
             /\ HandlerFrame /\ UNCHANGED <<global, consumed, known>> /\ Typed'
             /\ \/ /\ registry[s] # None /\ s \in Foreign /\ registry[s].exposed
                   /\ handler' = [pc |-> "add", sensor |-> s, data |-> registry[s]]
                \/ ~Visible(s) /\ handler' = HandlerIdle
                \/ MayFail /\ handler' = HandlerIdle
<1> DEFINE s == handler.sensor
<1>1. /\ handler.pc = "fetch" /\ HandlerFrame /\ UNCHANGED <<global, consumed, subVars, feed, known, resync>>
      /\ \/ IF registry[s] # None /\ IsConsumable(s, registry[s])
            THEN handler' = [pc |-> "add", sensor |-> s, data |-> registry[s]] ELSE handler' = HandlerIdle
         \/ MayFail /\ handler' = HandlerIdle
  BY DEF FetchSensor, HandlerFrame, HandlerAt, viewVars
<1>2. s \in Sensors
  BY <1>1 DEF Typed, ViewTypes, HandlerType, HandlerIdle
<1> HIDE DEF s
<1>3. \/ /\ registry[s] # None /\ s \in Foreign /\ registry[s].exposed
         /\ handler' = [pc |-> "add", sensor |-> s, data |-> registry[s]]
      \/ ~Visible(s) /\ handler' = HandlerIdle
      \/ MayFail /\ handler' = HandlerIdle
  BY <1>1 DEF Visible, IsConsumable
<1>4. HandlerType'
  <2>1. CASE /\ registry[s] # None /\ s \in Foreign /\ registry[s].exposed
             /\ handler' = [pc |-> "add", sensor |-> s, data |-> registry[s]]
    <3>1. registry[s] \in Record
      BY <1>2, <2>1 DEF Typed, ViewTypes
    <3>2. registry[s].exposed = TRUE
      BY <2>1, <3>1 DEF Record
    <3> QED
      BY <2>1, <3>1, <3>2 DEF HandlerType
  <2> QED
    BY <1>3, <2>1 DEF HandlerType
<1>5. consumed' \in [Sensors -> Proxies \cup {None}] /\ global' \in Seq(GlobalEvents)
  BY <1>1 DEF Typed, ViewTypes
<1>6. SameCleanup
  BY <1>1, <1>3 DEF SameCleanup, HandlerIdle
<1>7. Typed'
  BY <1>1, <1>4, <1>5, <1>6, TypesSameProxies
<1> QED
  BY <1>1, <1>2, <1>3, <1>7 DEF s

LEMMA HandlerAddEffect ==
  ASSUME Typed, AddFromHandler
  PROVE  LET s == handler.sensor
             data == handler.data
         IN  /\ handler.pc = "add" /\ s \in Foreign /\ data \in Record
             /\ HandlerFrame /\ UNCHANGED <<global, known>> /\ Typed'
             /\ handler' = [pc |-> "tellAdded", sensor |-> s, data |-> None]
             /\ consumed'[s] # None
             /\ \A x \in Sensors : consumed[x] # None \/ x # s => consumed'[x] = consumed[x]
             /\ consumed[s] = None => consumed'[s] = Proxy(data)
<1> DEFINE s == handler.sensor
           data == handler.data
<1>1. /\ handler.pc = "add" /\ AddConsumed(s, data)
      /\ handler' = [pc |-> "tellAdded", sensor |-> s, data |-> None]
      /\ HandlerFrame /\ UNCHANGED <<global, known, resync>>
  BY DEF AddFromHandler, HandlerAt, HandlerFrame
<1>2. s \in Foreign /\ data \in Record
  BY <1>1 DEF Typed, ViewTypes, HandlerType, HandlerIdle
<1>3. s \in Sensors
  BY <1>2, ForeignAssumption
<1> HIDE DEF s, data
<1>4. /\ consumed' \in [Sensors -> Proxies \cup {None}]
      /\ \A x \in Sensors : consumed'[x] # None => x \in Foreign
      /\ feed' \in [Sensors -> Seq(Values)] /\ subs' \in [Sensors -> Nat]
      /\ SubsInv' /\ consumed'[s] # None
      /\ \A x \in Sensors : consumed[x] # None \/ x # s => consumed'[x] = consumed[x]
      /\ consumed[s] = None => consumed'[s] = Proxy(data)
  BY <1>1, <1>2, AddEffect DEF Typed, HandlerFrame, regVars, SameCleanup
<1>5. \A r \in Resyncs : ResyncType(r)'
  BY <1>1, <1>4 DEF Typed, ViewTypes, ResyncType
<1>6. HandlerType'
  BY <1>1, <1>3 DEF HandlerType
<1>7. global' \in Seq(GlobalEvents) /\ DOMAIN resync' = Resyncs
  BY <1>1 DEF Typed, ViewTypes
<1>8. Typed'
  BY <1>1, <1>4, <1>5, <1>6, <1>7, TypesOf
<1> QED
  BY <1>1, <1>2, <1>4, <1>8 DEF s, data

LEMMA TellEffect ==
  ASSUME Typed, TellPlugin
  PROVE  /\ handler.pc \in {"tellAdded", "tellReleased"}
         /\ known' = IF handler.pc = "tellAdded" THEN known \cup {handler.sensor}
                     ELSE known \ {handler.sensor}
         /\ handler' = HandlerIdle /\ HandlerFrame /\ UNCHANGED <<global, consumed>> /\ Typed'
<1>1. /\ handler.pc \in {"tellAdded", "tellReleased"}
      /\ known' = IF handler.pc = "tellAdded" THEN known \cup {handler.sensor}
                  ELSE known \ {handler.sensor}
      /\ handler' = HandlerIdle /\ HandlerFrame /\ UNCHANGED <<global, consumed, subVars, feed, resync>>
  BY DEF TellPlugin, HandlerFrame
<1>2. HandlerType' /\ consumed' \in [Sensors -> Proxies \cup {None}] /\ global' \in Seq(GlobalEvents)
  BY <1>1 DEF Typed, ViewTypes, HandlerType
<1>3. SameCleanup
  BY <1>1 DEF SameCleanup, HandlerIdle
<1>4. Typed'
  BY <1>1, <1>2, <1>3, TypesSameProxies
<1> QED
  BY <1>1, <1>4

\* cleanupProxy
LEMMA CleanupEffect ==
  ASSUME Typed, CleanupProxy
  PROVE  LET s == handler.sensor
         IN  /\ handler.pc = "unsubscribe" /\ s \in Sensors
             /\ handler' = [pc |-> "tellReleased", sensor |-> s, data |-> None]
             /\ HandlerFrame /\ UNCHANGED <<global, consumed, known>> /\ Typed'
<1> DEFINE s == handler.sensor
<1>1. /\ handler.pc = "unsubscribe"
      /\ subs' = IF handler.data THEN [subs EXCEPT ![s] = @ - 1] ELSE subs
      /\ handler' = [pc |-> "tellReleased", sensor |-> s, data |-> None]
      /\ HandlerFrame /\ UNCHANGED <<global, consumed, wired, closing, feed, known, resync>>
  BY DEF CleanupProxy, HandlerAt, HandlerFrame
<1>2. handler = [pc |-> "unsubscribe", sensor |-> s, data |-> handler.data] /\ s \in Sensors /\ handler.data \in BOOLEAN
  BY <1>1 DEF Typed, ViewTypes, HandlerType, HandlerIdle
<1> HIDE DEF s
<1>3. /\ \A x : ~Unsubscribing(x)'
      /\ \A x : Unsubscribing(x) <=> x = s /\ handler.data = TRUE
  BY <1>1, <1>2 DEF Unsubscribing
<1>4. /\ handler.data = TRUE => subs[s] \in Nat \ {0} /\ subs'[s] = subs[s] - 1
      /\ handler.data = FALSE => subs'[s] = subs[s]
      /\ \A x \in Sensors : x # s => subs'[x] = subs[x]
      /\ subs' \in [Sensors -> Nat]
  <2>1. handler.data = TRUE => subs[s] \in Nat \ {0}
    <3>1. subs[s] \in Nat /\ subs[s] = One(s \in wired) + One(Unsubscribing(s)) + One(s \in closing)
      BY <1>2 DEF Typed, SubsInv, ViewTypes
    <3>2. One(s \in wired) \in {0, 1} /\ One(s \in closing) \in {0, 1}
      BY DEF One
    <3>3. handler.data = TRUE => One(Unsubscribing(s)) = 1
      BY <1>3 DEF One
    <3> QED
      BY <3>1, <3>2, <3>3
  <2> QED
    BY <1>1, <1>2, <2>1 DEF Typed, ViewTypes
<1>5. \A x \in Sensors : subs'[x] = subs[x] - One(Unsubscribing(x))
  BY <1>2, <1>3, <1>4 DEF One, Typed, ViewTypes
<1>6. SubsInv'
  <2>1. Lossless' => link'
    BY <1>1 DEF Typed, SubsInv, Lossless, Env, HandlerFrame, regVars
  <2>2. \A x \in Sensors : subs'[x] = One(x \in wired') + One(Unsubscribing(x)') + One(x \in closing')
    BY <1>1, <1>3, <1>5 DEF Typed, SubsInv, One
  <2> QED
    BY <1>1, <2>1, <2>2 DEF Typed, SubsInv, Lossless, Env, HandlerFrame, regVars
<1>7. /\ consumed' \in [Sensors -> Proxies \cup {None}]
      /\ \A x \in Sensors : consumed'[x] # None => x \in Foreign
      /\ feed' \in [Sensors -> Seq(Values)] /\ global' \in Seq(GlobalEvents) /\ DOMAIN resync' = Resyncs
  BY <1>1 DEF Typed, ViewTypes
<1>8. HandlerType' /\ \A r \in Resyncs : ResyncType(r)'
  BY <1>1, <1>2 DEF Typed, ViewTypes, HandlerType, ResyncType
<1>9. Typed'
  BY <1>1, <1>4, <1>6, <1>7, <1>8, TypesOf
<1> QED
  BY <1>1, <1>2, <1>9 DEF s

LEMMA TypesHandler ==
  ASSUME Typed, HandlerStep
  PROVE  Typed' /\ HandlerFrame
<1>1. Typed'
  <2>1. CASE OnAdded
    BY <2>1, AddedEffect
  <2>2. CASE OnDeleted \/ OnHidden
    BY <2>2, ReleaseEffect
  <2>3. CASE OnExposed
    BY <2>3, ExposedEffect
  <2>4. CASE OnConnected
    BY <2>4, ConnectionEffect
  <2>5. CASE OnAssignment
    BY <2>5, AssignmentEffect
  <2>6. CASE FetchSensor
    BY <2>6, FetchEffect
  <2>7. CASE AddFromHandler
    BY <2>7, HandlerAddEffect
  <2>8. CASE TellPlugin
    BY <2>8, TellEffect
  <2>9. CASE CleanupProxy
    BY <2>9, CleanupEffect
  <2> QED
    BY <2>1, <2>2, <2>3, <2>4, <2>5, <2>6, <2>7, <2>8, <2>9 DEF HandlerStep
<1>2. HandlerFrame
  <2> USE DEF HandlerFrame, viewVars
  <2>1. CASE OnAdded \/ OnDeleted \/ OnHidden \/ OnExposed
    BY <2>1 DEF OnAdded, OnDeleted, OnHidden, OnExposed, Release
  <2>2. CASE OnConnected \/ OnAssignment
    BY <2>2 DEF OnConnected, OnAssignment
  <2>3. CASE FetchSensor \/ AddFromHandler \/ CleanupProxy \/ TellPlugin
    BY <2>3 DEF FetchSensor, AddFromHandler, CleanupProxy, TellPlugin
  <2> QED
    BY <2>1, <2>2, <2>3 DEF HandlerStep
<1> QED
  BY <1>1, <1>2

LEMMA TypesStart ==
  ASSUME Init
  PROVE  Typed
<1>1. /\ scene \in Scenes
      /\ registry \in [Sensors -> Record \cup {None}]
      /\ link = TRUE /\ subscribed = FALSE /\ closed = FALSE /\ reconnecting = FALSE
      /\ global = <<>> /\ feed = [s \in Sensors |-> <<>>]
      /\ consumed = [s \in Sensors |-> None] /\ subs = [s \in Sensors |-> 0]
      /\ wired = {} /\ closing = {}
      /\ initPc = "start" /\ initData = [s \in Sensors |-> None]
      /\ handler = HandlerIdle /\ resync = [r \in Resyncs |-> ResyncIdle] /\ resyncIds = {}
  <2>1. scene.values \subseteq Values
    BY ScenesAssumption DEF Init, SceneType
  <2>2. {[exposed |-> x, connected |-> TRUE, value |-> v, cameras |-> {}] :
           x \in BOOLEAN, v \in scene.values} \subseteq Record
    <3>1. SUFFICES ASSUME NEW x \in BOOLEAN, NEW v \in scene.values
                   PROVE  [exposed |-> x, connected |-> TRUE, value |-> v, cameras |-> {}] \in Record
      OBVIOUS
    <3> QED
      BY <2>1 DEF Record
  <2>3. registry \in [Sensors -> {None} \cup {[exposed |-> x, connected |-> TRUE, value |-> v, cameras |-> {}] :
                         x \in BOOLEAN, v \in scene.values}]
    BY DEF Init
  <2>4. registry \in [Sensors -> Record \cup {None}]
    BY <2>2, <2>3
  <2> QED
    BY <2>4 DEF Init
<1>2. <<>> \in Seq(Values) /\ <<>> \in Seq(GlobalEvents)
  OBVIOUS
<1>3. SubsInv
  BY <1>1 DEF SubsInv, One, Unsubscribing, HandlerIdle
<1> QED
  BY <1>1, <1>2, <1>3 DEF Typed, ViewTypes, HandlerType, ResyncType

LEMMA TypesStep ==
  ASSUME Typed, [Next]_vars
  PROVE  Typed'
<1>1. CASE UNCHANGED vars
  <2>1. \A r \in Resyncs : ResyncType(r)'
    BY <1>1 DEF Typed, ViewTypes, ResyncType, vars, viewVars
  <2>2. SubsInv'
    BY <1>1, SubsKeep DEF Typed, vars, regVars, viewVars, SameCleanup
  <2> QED
    BY <1>1, <2>1, <2>2 DEF Typed, ViewTypes, HandlerType, vars, regVars, viewVars, subVars, initVars, Resyncs, MaxChanges
<1>2. CASE RegistryStep \/ DropLink \/ RestoreLink \/ InitStep \/ Close \/ \E s \in Sensors : CleanupClosed(s)
  BY <1>2, TypesRegistry, TypesLink, TypesInit, TypesClose, TypesCleanupClosed
<1>3. CASE HandlerStep
  BY <1>3, TypesHandler
<1>4. CASE FeedStep
  BY <1>4, TypesFeed DEF FeedStep
<1>5. CASE ResyncStep
  BY <1>5, TypesResync
<1> QED
  BY <1>1, <1>2, <1>3, <1>4, <1>5 DEF Next

\* Every live event subscription has one proxy that will end it: the one in the view, the
\* one the handler took out, or one close() took; a proxy outside these holds none; and
\* where no call fails every proxy of the view is subscribed (addConsumed, newSensorProxy,
\* releaseConsumed, cleanupProxy, close).
THEOREM SubscriptionsMatch == Spec => []OneSubscription
<1>1. Init => Typed
  BY TypesStart
<1>2. Typed /\ [Next]_vars => Typed'
  BY TypesStep
<1>3. Typed => OneSubscription
  BY DEF Typed, SubsInv, OneSubscription, Lossless
<1> QED
  BY <1>1, <1>2, <1>3, PTL DEF Spec

-----------------------------------------------------------------------------
(* What the events say of the registry                                      *)

\* An event says what the change made of the facets and the visibility of its sensor,
\* and nothing else changed.
Tells(e) ==
  \A x \in Sensors :
    /\ Adds(e, x) => registry'[x] # None /\ registry'[x].exposed
    /\ Drops(e, x) => ~Visible(x)'
    /\ ~Decides(e, x) => (Visible(x)' <=> Visible(x))
    /\ e.kind = "added" /\ e.sensor = x => registry'[x] # None /\ e.data = registry'[x]
    /\ \A f \in Facets :
         /\ Sets(e, x, f) => registry'[x] # None /\ (Says(e, f) <=> Has(registry'[x], f))
         /\ registry[x] # None /\ ~Outdates(e, x, f) =>
              registry'[x] # None /\ (Has(registry'[x], f) <=> Has(registry[x], f))

LEMMA FacetKinds ==
  ASSUME NEW f \in Facets
  PROVE  f[1] = "connected" \/ \E c \in Cameras : f[1] = "assigned" /\ f[2] = c
BY DEF Facets

LEMMA TellsOthers ==
  ASSUME NEW e, NEW x \in Sensors, e.sensor # x, registry'[x] = registry[x]
  PROVE  /\ ~Decides(e, x) /\ (Visible(x)' <=> Visible(x))
         /\ \A f \in Facets :
              /\ ~Sets(e, x, f)
              /\ registry[x] # None => registry'[x] # None /\ (Has(registry'[x], f) <=> Has(registry[x], f))
BY DEF Decides, Adds, Drops, Visible, Sets

\* It is enough to look at the sensor the event is about.
LEMMA TellsOne ==
  ASSUME NEW e, NEW s \in Sensors, e.sensor = s,
         \A x \in Sensors : x # s => registry'[x] = registry[x],
         Adds(e, s) => registry'[s] # None /\ registry'[s].exposed,
         Drops(e, s) => ~Visible(s)',
         ~Decides(e, s) => (Visible(s)' <=> Visible(s)),
         e.kind = "added" => registry'[s] # None /\ e.data = registry'[s],
         \A f \in Facets :
            /\ Sets(e, s, f) => registry'[s] # None /\ (Says(e, f) <=> Has(registry'[s], f))
            /\ registry[s] # None /\ ~Outdates(e, s, f) =>
                 registry'[s] # None /\ (Has(registry'[s], f) <=> Has(registry[s], f))
  PROVE  Tells(e)
<1>1. SUFFICES ASSUME NEW x \in Sensors
               PROVE  /\ Adds(e, x) => registry'[x] # None /\ registry'[x].exposed
                      /\ Drops(e, x) => ~Visible(x)'
                      /\ ~Decides(e, x) => (Visible(x)' <=> Visible(x))
                      /\ e.kind = "added" /\ e.sensor = x => registry'[x] # None /\ e.data = registry'[x]
                      /\ \A f \in Facets :
                           /\ Sets(e, x, f) => registry'[x] # None /\ (Says(e, f) <=> Has(registry'[x], f))
                           /\ registry[x] # None /\ ~Outdates(e, x, f) =>
                                registry'[x] # None /\ (Has(registry'[x], f) <=> Has(registry[x], f))
  BY DEF Tells
<1>2. CASE x # s
  <2>1. /\ ~Decides(e, x) /\ (Visible(x)' <=> Visible(x)) /\ e.sensor # x
        /\ \A f \in Facets :
             /\ ~Sets(e, x, f)
             /\ registry[x] # None => registry'[x] # None /\ (Has(registry'[x], f) <=> Has(registry[x], f))
    BY <1>2, TellsOthers
  <2>2. ~Adds(e, x) /\ ~Drops(e, x)
    BY <2>1 DEF Decides
  <2> QED
    BY <2>1, <2>2
<1>3. CASE x = s
  BY <1>3
<1> QED
  BY <1>2, <1>3

LEMMA TellsAdded ==
  ASSUME NEW s \in Sensors, \A x \in Sensors : x # s => registry'[x] = registry[x],
         registry'[s] \in Record, registry[s] = None \/ registry'[s] = registry[s]
  PROVE  \E e \in GlobalEvents : e = Event("added", s, registry'[s]) /\ Tells(e)
<1>1. PICK d \in Record : d = registry'[s]
  OBVIOUS
<1>2. PICK e : e = Event("added", s, d)
  OBVIOUS
<1>3. e \in GlobalEvents /\ e.kind = "added" /\ e.sensor = s /\ e.data = d
  BY <1>2, EventTypes DEF Event
<1>4. d # None
  BY NoneAssumption
<1>5. Adds(e, s) => d.exposed
  BY <1>3 DEF Adds
<1>6. ~Drops(e, s) /\ (~Decides(e, s) => ~d.exposed)
  BY <1>3 DEF Drops, Decides, Adds
<1>7. \A f \in Facets : ~Sets(e, s, f)
  BY <1>3, FacetKinds DEF Sets
<1>8. ~Decides(e, s) => (Visible(s)' <=> Visible(s))
  BY <1>1, <1>6 DEF Visible
<1>9. Tells(e)
  BY <1>1, <1>3, <1>4, <1>5, <1>6, <1>7, <1>8, TellsOne
<1> QED
  BY <1>1, <1>2, <1>3, <1>9

LEMMA TellsDeleted ==
  ASSUME NEW s \in Sensors, \A x \in Sensors : x # s => registry'[x] = registry[x],
         registry'[s] = None
  PROVE  \E e \in GlobalEvents : e = Event("deleted", s, None) /\ Tells(e)
<1>1. PICK e : e = Event("deleted", s, None)
  OBVIOUS
<1>2. e \in GlobalEvents /\ e.kind = "deleted" /\ e.sensor = s
  BY <1>1, EventTypes DEF Event
<1>3. ~Adds(e, s) /\ Drops(e, s) /\ ~Visible(s)'
  BY <1>2 DEF Adds, Drops, Visible
<1>4. \A f \in Facets : ~Sets(e, s, f) /\ Outdates(e, s, f)
  BY <1>2, FacetKinds DEF Sets, Outdates, Gone
<1>5. Tells(e)
  BY <1>2, <1>3, <1>4, TellsOne DEF Decides
<1> QED
  BY <1>1, <1>2, <1>5

LEMMA TellsExposed ==
  ASSUME NEW s \in Sensors, \A x \in Sensors : x # s => registry'[x] = registry[x],
         registry[s] # None, registry'[s] # None, registry'[s].exposed \in BOOLEAN,
         registry'[s].connected = registry[s].connected, registry'[s].cameras = registry[s].cameras
  PROVE  \E e \in GlobalEvents : e = Event("exposed", s, registry'[s].exposed) /\ Tells(e)
<1>1. PICK b \in BOOLEAN : b = registry'[s].exposed
  OBVIOUS
<1>2. PICK e : e = Event("exposed", s, b)
  OBVIOUS
<1>3. e \in GlobalEvents /\ e.kind = "exposed" /\ e.sensor = s /\ e.data = b
  BY <1>2, EventTypes DEF Event
<1>4. /\ Adds(e, s) => registry'[s].exposed
      /\ Drops(e, s) => ~Visible(s)'
      /\ Decides(e, s)
  BY <1>1, <1>3 DEF Adds, Drops, Decides, Visible
<1>5. \A f \in Facets : ~Sets(e, s, f) /\ (Has(registry'[s], f) <=> Has(registry[s], f))
  BY <1>3, FacetKinds DEF Sets, Has
<1>6. Tells(e)
  BY <1>3, <1>4, <1>5, TellsOne
<1> QED
  BY <1>1, <1>2, <1>3, <1>6

LEMMA TellsConnected ==
  ASSUME NEW s \in Sensors, \A x \in Sensors : x # s => registry'[x] = registry[x],
         registry[s] # None, registry'[s] # None, registry'[s].connected \in BOOLEAN,
         registry'[s].exposed = registry[s].exposed, registry'[s].cameras = registry[s].cameras
  PROVE  \E e \in GlobalEvents : e = Event("connected", s, registry'[s].connected) /\ Tells(e)
<1>1. PICK b \in BOOLEAN : b = registry'[s].connected
  OBVIOUS
<1>2. PICK e : e = Event("connected", s, b)
  OBVIOUS
<1>3. e \in GlobalEvents /\ e.kind = "connected" /\ e.sensor = s /\ e.data = b
  BY <1>2, EventTypes DEF Event
<1>4. ~Decides(e, s) /\ (Visible(s)' <=> Visible(s))
  BY <1>3 DEF Adds, Drops, Decides, Visible
<1>5. ASSUME NEW f \in Facets
      PROVE  /\ Sets(e, s, f) => (Says(e, f) <=> Has(registry'[s], f))
             /\ ~Outdates(e, s, f) => (Has(registry'[s], f) <=> Has(registry[s], f))
  <2>1. CASE f[1] = "connected"
    BY <1>1, <1>3, <2>1 DEF Sets, Says, Has, Outdates
  <2>2. CASE \E c \in Cameras : f[1] = "assigned" /\ f[2] = c
    BY <1>3, <2>2 DEF Sets, Has
  <2> QED
    BY <2>1, <2>2, FacetKinds
<1>6. Tells(e)
  BY <1>3, <1>4, <1>5, TellsOne DEF Decides
<1> QED
  BY <1>1, <1>2, <1>3, <1>6

LEMMA TellsAssigned ==
  ASSUME NEW s \in Sensors, \A x \in Sensors : x # s => registry'[x] = registry[x],
         registry[s] # None, registry'[s] # None,
         registry'[s].exposed = registry[s].exposed, registry'[s].connected = registry[s].connected,
         NEW c \in Cameras, NEW b \in BOOLEAN,
         registry'[s].cameras = IF b THEN registry[s].cameras \cup {c} ELSE registry[s].cameras \ {c}
  PROVE  \E e \in GlobalEvents :
            e = Event("assigned", s, [camera |-> c, assigned |-> b]) /\ Tells(e)
<1>1. PICK e : e = Event("assigned", s, [camera |-> c, assigned |-> b])
  OBVIOUS
<1>2. e \in GlobalEvents /\ e.kind = "assigned" /\ e.sensor = s /\ e.data.camera = c /\ e.data.assigned = b
  BY <1>1, EventTypes DEF Event
<1>3. ~Decides(e, s) /\ (Visible(s)' <=> Visible(s))
  BY <1>2 DEF Adds, Drops, Decides, Visible
<1>4. ASSUME NEW f \in Facets
      PROVE  /\ Sets(e, s, f) => (Says(e, f) <=> Has(registry'[s], f))
             /\ ~Outdates(e, s, f) => (Has(registry'[s], f) <=> Has(registry[s], f))
  <2>1. CASE f[1] = "connected"
    BY <1>2, <2>1 DEF Sets, Has
  <2>2. CASE \E d \in Cameras : f[1] = "assigned" /\ f[2] = d
    <3>1. CASE f[2] = c
      BY <1>2, <2>2, <3>1 DEF Sets, Says, Has, Outdates
    <3>2. CASE f[2] # c
      BY <1>2, <2>2, <3>2 DEF Sets, Has
    <3> QED
      BY <3>1, <3>2
  <2> QED
    BY <2>1, <2>2, FacetKinds
<1>5. Tells(e)
  BY <1>2, <1>3, <1>4, TellsOne DEF Decides
<1> QED
  BY <1>1, <1>2, <1>5

\* A change of the registry is a value, or is published and told by its event.
LEMMA RegistryTells ==
  ASSUME Typed, RegistryStep
  PROVE  /\ Change
         /\ \/ /\ global' = global
               /\ \A x \in Sensors :
                    /\ registry'[x] # None <=> registry[x] # None
                    /\ Visible(x)' <=> Visible(x)
                    /\ \A f \in Facets : registry[x] # None => (Has(registry'[x], f) <=> Has(registry[x], f))
            \/ \E e \in GlobalEvents : Publish(e) /\ Tells(e)
<1>1. PICK s \in scene.sensors :
        \/ \E x \in BOOLEAN, v \in scene.values : CreateSensor(s, x, v)
        \/ \E v \in scene.values : UpdateSensor(s, v)
        \/ \E c \in scene.cameras : AssignSensor(s, c)
        \/ AnnounceSensor(s) \/ DeleteSensor(s) \/ ExposeSensor(s) \/ ConnectSensor(s)
  BY DEF RegistryStep
<1>2. CASE \E v \in scene.values : UpdateSensor(s, v)
  <2>1. /\ Change /\ global' = global
        /\ \A x \in Sensors :
              /\ registry'[x] # None <=> registry[x] # None
              /\ registry[x] # None => /\ registry'[x].exposed = registry[x].exposed
                                       /\ registry'[x].connected = registry[x].connected
                                       /\ registry'[x].cameras = registry[x].cameras
    BY <1>2, UpdateChanges
  <2> QED
    BY <2>1 DEF Visible, Has
<1>3. CASE ~ \E v \in scene.values : UpdateSensor(s, v)
  <2>1. /\ s \in Sensors /\ Change /\ registry' \in [Sensors -> Record \cup {None}]
        /\ \A x \in Sensors : x # s => registry'[x] = registry[x]
        /\ \/ /\ registry[s] = None /\ registry'[s] \in Record
              /\ Publish(Event("added", s, registry'[s]))
           \/ /\ registry[s] # None /\ registry'[s] = registry[s]
              /\ Publish(Event("added", s, registry'[s]))
           \/ registry[s] # None /\ registry'[s] = None /\ Publish(Event("deleted", s, None))
           \/ /\ registry[s] # None /\ registry'[s] # None
              /\ registry'[s].connected = registry[s].connected /\ registry'[s].cameras = registry[s].cameras
              /\ registry'[s].exposed = ~registry[s].exposed
              /\ Publish(Event("exposed", s, registry'[s].exposed))
           \/ /\ registry[s] # None /\ registry'[s] # None
              /\ registry'[s].exposed = registry[s].exposed /\ registry'[s].cameras = registry[s].cameras
              /\ Publish(Event("connected", s, registry'[s].connected))
           \/ /\ registry[s] # None /\ registry'[s] # None
              /\ registry'[s].exposed = registry[s].exposed /\ registry'[s].connected = registry[s].connected
              /\ \E c \in Cameras, b \in BOOLEAN :
                   /\ registry'[s].cameras = IF b THEN registry[s].cameras \cup {c} ELSE registry[s].cameras \ {c}
                   /\ Publish(Event("assigned", s, [camera |-> c, assigned |-> b]))
    BY <1>1, <1>3, RegistryChanges
  <2>2. registry'[s] # None => /\ registry'[s] \in Record
                               /\ registry'[s].exposed \in BOOLEAN /\ registry'[s].connected \in BOOLEAN
    BY <2>1 DEF Record
  <2>3. CASE registry'[s] \in Record /\ Publish(Event("added", s, registry'[s]))
             /\ (registry[s] = None \/ registry'[s] = registry[s])
    BY <2>1, <2>3, TellsAdded
  <2>4. CASE registry'[s] = None /\ Publish(Event("deleted", s, None))
    BY <2>1, <2>4, TellsDeleted
  <2>5. CASE /\ registry[s] # None /\ registry'[s] # None
             /\ registry'[s].connected = registry[s].connected /\ registry'[s].cameras = registry[s].cameras
             /\ Publish(Event("exposed", s, registry'[s].exposed))
    BY <2>1, <2>2, <2>5, TellsExposed
  <2>6. CASE /\ registry[s] # None /\ registry'[s] # None
             /\ registry'[s].exposed = registry[s].exposed /\ registry'[s].cameras = registry[s].cameras
             /\ Publish(Event("connected", s, registry'[s].connected))
    BY <2>1, <2>2, <2>6, TellsConnected
  <2>7. CASE /\ registry[s] # None /\ registry'[s] # None
             /\ registry'[s].exposed = registry[s].exposed /\ registry'[s].connected = registry[s].connected
             /\ \E c \in Cameras, b \in BOOLEAN :
                  /\ registry'[s].cameras = IF b THEN registry[s].cameras \cup {c} ELSE registry[s].cameras \ {c}
                  /\ Publish(Event("assigned", s, [camera |-> c, assigned |-> b]))
    <3>1. PICK c \in Cameras, b \in BOOLEAN :
             /\ registry'[s].cameras = IF b THEN registry[s].cameras \cup {c} ELSE registry[s].cameras \ {c}
             /\ Publish(Event("assigned", s, [camera |-> c, assigned |-> b]))
      BY <2>7
    <3>2. \E e \in GlobalEvents : e = Event("assigned", s, [camera |-> c, assigned |-> b]) /\ Tells(e)
      BY <2>1, <2>7, <3>1, TellsAssigned
    <3> QED
      BY <2>1, <3>1, <3>2
  <2> QED
    BY <2>1, <2>2, <2>3, <2>4, <2>5, <2>6, <2>7
<1> QED
  BY <1>2, <1>3

-----------------------------------------------------------------------------
(* Without losses and failures a visible sensor reaches the view            *)

LEMMA AwaitedPublish ==
  ASSUME Typed, NEW e \in GlobalEvents, global' = Append(global, e), NEW x,
         Coming(x) => Coming(x)', (Awaited(x) /\ ~Drops(e, x)) \/ Adds(e, x)
  PROVE  Awaited(x)'
<1>1. global \in Seq(GlobalEvents)
  BY DEF Typed, ViewTypes
<1>2. /\ Len(global) \in Nat /\ DOMAIN global = 1 .. Len(global)
      /\ DOMAIN global' = 1 .. (Len(global) + 1) /\ global'[Len(global) + 1] = e
      /\ \A i \in DOMAIN global : global'[i] = global[i]
  BY <1>1, QueueAppend
<1> DEFINE n == Len(global)
<1>3. CASE Adds(e, x)
  <2>1. ~Drops(e, x)
    BY <1>3 DEF Adds, Drops
  <2>2. \A i \in DOMAIN global' : Drops(global'[i], x) => i < n + 1
    BY <1>2, <2>1
  <2>3. n + 1 \in DOMAIN global' /\ Adds(global'[n + 1], x)
    BY <1>2, <1>3
  <2>4. PICK k \in DOMAIN global' : Adds(global'[k], x) /\ k = n + 1
    BY <2>3
  <2> QED
    BY <1>2, <2>2, <2>4 DEF Awaited
<1>4. CASE Awaited(x) /\ ~Drops(e, x)
  <2>1. \A i \in DOMAIN global : i \in DOMAIN global' /\ global'[i] = global[i]
    BY <1>2
  <2>2. \A i \in DOMAIN global' : i \in DOMAIN global \/ global'[i] = e
    BY <1>2
  <2>3. \A i \in DOMAIN global' : Drops(global'[i], x) =>
           \E j \in DOMAIN global' : j > i /\ Adds(global'[j], x)
    BY <1>4, <2>1, <2>2 DEF Awaited
  <2>4. (\E j \in DOMAIN global' : Adds(global'[j], x)) \/ Coming(x)'
    BY <1>4, <2>1 DEF Awaited
  <2> QED
    BY <2>3, <2>4 DEF Awaited
<1> QED
  BY <1>3, <1>4

LEMMA AwaitedTail ==
  ASSUME Typed, global # <<>>, global' = Tail(global), NEW x, Awaited(x),
         Adds(Head(global), x) => Coming(x)',
         ~Drops(Head(global), x) /\ Coming(x) => Coming(x)'
  PROVE  Awaited(x)'
<1>1. /\ Len(global) \in Nat \ {0} /\ DOMAIN global = 1 .. Len(global)
      /\ DOMAIN global' = 1 .. (Len(global) - 1) /\ Head(global) = global[1]
      /\ \A i \in DOMAIN global' : i + 1 \in DOMAIN global /\ global'[i] = global[i + 1]
      /\ \A i \in DOMAIN global : i > 1 => i - 1 \in DOMAIN global' /\ global'[i - 1] = global[i]
  BY QueueTail DEF Typed, ViewTypes
<1>2. ASSUME NEW i \in DOMAIN global', Drops(global'[i], x)
      PROVE  \E j \in DOMAIN global' : j > i /\ Adds(global'[j], x)
  <2>1. PICK k \in DOMAIN global : k > i + 1 /\ Adds(global[k], x)
    BY <1>1, <1>2 DEF Awaited
  <2>2. k - 1 \in DOMAIN global' /\ k - 1 > i /\ Adds(global'[k - 1], x)
    BY <1>1, <2>1
  <2> QED
    BY <2>2
<1>3. (\E j \in DOMAIN global' : Adds(global'[j], x)) \/ Coming(x)'
  <2>1. CASE \E k \in DOMAIN global : k > 1 /\ Adds(global[k], x)
    <3>1. PICK k \in DOMAIN global : k > 1 /\ Adds(global[k], x)
      BY <2>1
    <3>2. k - 1 \in DOMAIN global' /\ Adds(global'[k - 1], x)
      BY <1>1, <3>1
    <3> QED
      BY <3>2
  <2>2. CASE ~ \E k \in DOMAIN global : k > 1 /\ Adds(global[k], x)
    <3>1. ~Drops(Head(global), x)
      BY <1>1, <2>2 DEF Awaited
    <3>2. Adds(Head(global), x) \/ Coming(x)
      BY <1>1, <2>2 DEF Awaited
    <3> QED
      BY <3>1, <3>2
  <2> QED
    BY <2>1, <2>2
<1> QED
  BY <1>2, <1>3 DEF Awaited

LEMMA AwaitedQuiet ==
  ASSUME global' = global, NEW x, Awaited(x), Coming(x) => Coming(x)'
  PROVE  Awaited(x)'
BY DEF Awaited

LEMMA LosslessRegistry ==
  ASSUME Typed, LosslessInv, RegistryStep
  PROVE  LosslessInv'
<1>1. Change /\ UNCHANGED <<link, subscribed, closed, consumed, initPc, initData, handler>>
  BY RegistryTells DEF Change, initVars
<1>2. \A x : Coming(x)' <=> Coming(x)
  BY <1>1 DEF Coming, Fetching
<1>3. CASE closed
  BY <1>1, <1>3 DEF LosslessInv
<1>4. CASE ~closed
  <2>1. subscribed <=> initPc # "start"
    BY <1>4 DEF LosslessInv
  <2>2. CASE initPc = "start"
    <3>1. global' = global
      BY <2>1, <2>2, RegistryTells DEF Publish
    <3> QED
      BY <1>1, <2>1, <2>2, <3>1 DEF LosslessInv
  <2>3. CASE initPc # "start"
    <3>1. ASSUME NEW x \in Sensors, Visible(x)' PROVE Awaited(x)'
      <4>1. Visible(x) => Awaited(x)
        BY <1>4, <2>3 DEF LosslessInv
      <4>2. CASE global' = global /\ (Visible(x)' <=> Visible(x))
        BY <1>2, <3>1, <4>1, <4>2, AwaitedQuiet
      <4>3. CASE \E e \in GlobalEvents : Publish(e) /\ Tells(e)
        <5>1. PICK e \in GlobalEvents : Publish(e) /\ Tells(e)
          BY <4>3
        <5>2. global' = Append(global, e)
          BY <1>4, <2>1, <2>3, <5>1 DEF Publish, LosslessInv
        <5>3. ~Drops(e, x) /\ (Adds(e, x) \/ Visible(x))
          BY <3>1, <5>1 DEF Tells, Decides
        <5> QED
          BY <1>2, <4>1, <5>2, <5>3, AwaitedPublish
      <4> QED
        BY <4>2, <4>3, RegistryTells
    <3> QED
      BY <1>1, <2>1, <2>3, <3>1 DEF LosslessInv
  <2> QED
    BY <2>2, <2>3
<1> QED
  BY <1>3, <1>4

\* Every other step keeps the registry; what is awaited must only stay so.
LEMMA LosslessKeeps ==
  ASSUME LosslessInv, link' = link, registry' = registry, subscribed' = subscribed,
         closed' = closed, initPc # "start", initPc' # "start",
         \A x \in Sensors : ~closed /\ Visible(x) /\ Awaited(x) => Awaited(x)'
  PROVE  LosslessInv'
<1>1. \A x \in Sensors : Visible(x)' <=> Visible(x)
  BY DEF Visible
<1> QED
  BY <1>1 DEF LosslessInv

LEMMA LosslessInit ==
  ASSUME Typed, Lossless, LosslessInv, InitStep
  PROVE  LosslessInv'
<1>1. UNCHANGED <<link, registry, global, handler, closed>> /\ ~MayFail
  BY DEF InitStep, EnsureGlobalSubscription, SubscribeFails, GetSensors, ListView, ConfigureSensors, FillView,
         regVars, Lossless, LosslessInv, MayFail
<1>2. CASE EnsureGlobalSubscription
  <2>1. initPc = "start" /\ initPc' = "ask" /\ subscribed' = TRUE
    BY <1>2 DEF EnsureGlobalSubscription
  <2>2. \A x \in Sensors : ~closed => Awaited(x)'
    <3>1. ~closed => global' = <<>>
      BY <1>1, <2>1 DEF LosslessInv
    <3> QED
      BY <2>1, <3>1 DEF Awaited, Coming
  <2> QED
    BY <1>1, <2>1, <2>2 DEF LosslessInv
<1>3. CASE SubscribeFails
  BY <1>1, <1>3 DEF SubscribeFails
<1>4. CASE GetSensors
  <2>1. initPc # "start" /\ initPc' = "fill" /\ subscribed' = subscribed /\ initData' = registry /\ consumed' = consumed
    BY <1>1, <1>4 DEF GetSensors, viewVars
  <2>2. ASSUME NEW x \in Sensors, Visible(x), Awaited(x) PROVE Awaited(x)'
    <3>1. Coming(x)'
      BY <2>1, <2>2 DEF Coming, Visible
    <3> QED
      BY <1>1, <2>2, <3>1, AwaitedQuiet
  <2> QED
    BY <1>1, <2>1, <2>2, LosslessKeeps
<1>5. CASE ListView
  <2>1. /\ initPc = "fill" /\ initPc' = "configure" /\ subscribed' = subscribed /\ consumed' = consumed
        /\ \A x \in Sensors : initData[x] = None
    BY <1>5 DEF ListView, viewVars
  <2>2. ASSUME NEW x \in Sensors, Awaited(x) PROVE Awaited(x)'
    <3>1. Coming(x) => Coming(x)'
      BY <1>1, <2>1 DEF Coming, Fetching
    <3> QED
      BY <1>1, <2>2, <3>1, AwaitedQuiet
  <2> QED
    BY <1>1, <2>1, <2>2, LosslessKeeps
<1>6. CASE ConfigureSensors
  <2>1. initPc = "configure" /\ initPc' # "start" /\ subscribed' = subscribed /\ consumed' = consumed
    BY <1>6 DEF ConfigureSensors
  <2>2. ASSUME NEW x \in Sensors, Awaited(x) PROVE Awaited(x)'
    <3>1. Coming(x) => Coming(x)'
      BY <1>1, <2>1 DEF Coming, Fetching
    <3> QED
      BY <1>1, <2>2, <3>1, AwaitedQuiet
  <2> QED
    BY <1>1, <2>1, <2>2, LosslessKeeps
<1>7. ASSUME NEW s \in Sensors, FillView(s)
      PROVE  LosslessInv'
  <2>1. /\ initPc = "fill" /\ initPc' = initPc /\ subscribed' = subscribed /\ initData[s] # None
        /\ initData' = [initData EXCEPT ![s] = None]
        /\ IF s \in Foreign /\ initData[s].exposed THEN AddConsumed(s, initData[s]) ELSE consumed' = consumed
    BY <1>7 DEF FillView, IsConsumable
  <2>2. initData[s] \in Record /\ \A x \in Sensors : x # s => initData'[x] = initData[x]
    BY <2>1 DEF Typed, ViewTypes
  <2>3. /\ \A x \in Sensors : consumed[x] # None => consumed'[x] # None
        /\ s \in Foreign /\ initData[s].exposed => consumed'[s] # None
    <3>1. CASE s \in Foreign /\ initData[s].exposed
      <4>1. AddConsumed(s, initData[s]) /\ s \in Foreign
        BY <2>1, <3>1
      <4> QED
        BY <2>2, <4>1, FillFrame, <1>7, AddEffect DEF Typed
    <3>2. CASE ~(s \in Foreign /\ initData[s].exposed)
      BY <2>1, <3>2
    <3> QED
      BY <3>1, <3>2
  <2>4. ASSUME NEW x \in Sensors, Visible(x), Awaited(x) PROVE Awaited(x)'
    <3>1. Coming(x) => Coming(x)'
      BY <1>1, <2>1, <2>2, <2>3, <2>4 DEF Coming, Fetching, Visible
    <3> QED
      BY <1>1, <2>4, <3>1, AwaitedQuiet
  <2> QED
    BY <1>1, <2>1, <2>4, LosslessKeeps
<1> QED
  BY <1>2, <1>3, <1>4, <1>5, <1>6, <1>7 DEF InitStep

LEMMA LosslessHandler ==
  ASSUME Typed, Lossless, LosslessInv, HandlerStep
  PROVE  LosslessInv'
<1>1. UNCHANGED <<link, registry, subscribed, closed, initPc, initData>> /\ ~MayFail
  BY TypesHandler DEF HandlerFrame, regVars, initVars, Lossless, LosslessInv, MayFail
<1>2. \A k : Handles(k) => handler = HandlerIdle /\ global # <<>> /\ global' = Tail(global)
  BY NextEvent
<1>3. global # <<>> \/ global' = global
  BY DEF HandlerStep, OnAdded, OnDeleted, OnHidden, OnExposed, OnConnected, OnAssignment, FetchSensor,
         AddFromHandler, CleanupProxy, TellPlugin, Handles
<1>4. CASE initPc = "start"
  BY <1>1, <1>3, <1>4 DEF LosslessInv
<1>5. CASE initPc # "start"
  <2>1. SUFFICES ASSUME NEW x \in Sensors, Visible(x), Awaited(x)
                 PROVE  Awaited(x)'
    BY <1>1, <1>5, LosslessKeeps
  <2>2. CASE OnAdded
    <3>1. handler = HandlerIdle /\ global # <<>> /\ global' = Tail(global) /\ Head(global).kind = "added"
      BY <1>2, <2>2, AddedEffect DEF Handles
    <3>2. Coming(x) => Coming(x)'
      BY <1>1, <2>2, <3>1, AddedEffect DEF Coming, Fetching, HandlerIdle, SameView
    <3>3. Adds(Head(global), x) => Coming(x)'
      BY <2>1, <2>2, <3>1, AddedEffect DEF Adds, Coming, Fetching, SameView, Visible
    <3> QED
      BY <2>1, <3>1, <3>2, <3>3, AwaitedTail
  <2>3. CASE OnDeleted \/ OnHidden
    <3>1. /\ handler = HandlerIdle /\ global # <<>> /\ global' = Tail(global)
          /\ Head(global).kind = "deleted" \/ (Head(global).kind = "exposed" /\ ~Head(global).data)
      BY <1>2, <2>3, ReleaseEffect DEF Handles
    <3>2. ~Adds(Head(global), x)
      BY <3>1 DEF Adds
    <3>3. ~Drops(Head(global), x) => Head(global).sensor # x
      BY <3>1 DEF Drops
    <3>4. ~Drops(Head(global), x) /\ Coming(x) => Coming(x)'
      BY <1>1, <2>3, <3>1, <3>3, ReleaseEffect DEF Coming, Fetching, HandlerIdle
    <3> QED
      BY <2>1, <3>1, <3>2, <3>4, AwaitedTail
  <2>4. CASE OnExposed
    <3>1. handler = HandlerIdle /\ global # <<>> /\ global' = Tail(global) /\ Head(global).kind = "exposed"
      BY <1>2, <2>4, ExposedEffect DEF Handles
    <3>2. Coming(x) => Coming(x)'
      BY <1>1, <2>4, <3>1, ExposedEffect DEF Coming, Fetching, HandlerIdle
    <3>3. Adds(Head(global), x) => Coming(x)'
      BY <2>4, <3>1, ExposedEffect DEF Adds, Coming, Fetching
    <3> QED
      BY <2>1, <3>1, <3>2, <3>3, AwaitedTail
  <2>5. CASE OnConnected \/ OnAssignment
    <3>1. /\ Handles("connected") \/ Handles("assigned")
          /\ handler' = handler /\ (consumed'[x] # None <=> consumed[x] # None)
      BY <2>5, ConnectionEffect, AssignmentEffect
    <3>2. /\ global # <<>> /\ global' = Tail(global)
          /\ Head(global).kind \in {"connected", "assigned"}
      BY <3>1 DEF Handles
    <3>3. ~Adds(Head(global), x) /\ (Coming(x) => Coming(x)')
      BY <1>1, <3>1, <3>2 DEF Adds, Coming, Fetching
    <3> QED
      BY <2>1, <3>2, <3>3, AwaitedTail
  <2>6. CASE FetchSensor
    <3>1. UNCHANGED <<global, consumed>> /\ (Fetching(x) => Fetching(x)')
      BY <1>1, <2>1, <2>6, FetchEffect DEF Fetching, Visible
    <3> QED
      BY <1>1, <2>1, <3>1, AwaitedQuiet DEF Coming
  <2>7. CASE AddFromHandler
    <3>1. global' = global /\ (consumed[x] # None \/ Fetching(x) => consumed'[x] # None)
      BY <2>7, HandlerAddEffect DEF Fetching
    <3> QED
      BY <1>1, <2>1, <3>1, AwaitedQuiet DEF Coming
  <2>8. CASE TellPlugin
    <3>1. UNCHANGED <<global, consumed>> /\ ~Fetching(x)
      BY <2>8, TellEffect DEF Fetching
    <3> QED
      BY <1>1, <2>1, <3>1, AwaitedQuiet DEF Coming
  <2>9. CASE CleanupProxy
    <3>1. UNCHANGED <<global, consumed>> /\ ~Fetching(x)
      BY <2>9, CleanupEffect DEF Fetching
    <3> QED
      BY <1>1, <2>1, <3>1, AwaitedQuiet DEF Coming
  <2> QED
    BY <2>2, <2>3, <2>4, <2>5, <2>6, <2>7, <2>8, <2>9 DEF HandlerStep
<1> QED
  BY <1>4, <1>5

\* A step that moves nothing the lossless part reads but the proxies' values.
LEMMA LosslessSame ==
  ASSUME LosslessInv, UNCHANGED <<link, registry, subscribed, closed, global, handler, initPc, initData>>,
         SameView
  PROVE  LosslessInv'
<1>1. \A x \in Sensors : Awaited(x) => Awaited(x)'
  <2>1. \A x \in Sensors : Coming(x) => Coming(x)'
    BY DEF Coming, Fetching, SameView
  <2> QED
    BY <2>1, AwaitedQuiet
<1>2. CASE initPc = "start"
  BY <1>2 DEF LosslessInv
<1>3. CASE initPc # "start"
  BY <1>1, <1>3, LosslessKeeps
<1> QED
  BY <1>2, <1>3

LEMMA LosslessStep ==
  ASSUME Typed, Lossless, LosslessInv, [Next]_vars
  PROVE  LosslessInv'
<1>1. CASE RegistryStep
  BY <1>1, LosslessRegistry
<1>2. CASE DropLink \/ RestoreLink
  BY <1>2 DEF DropLink, RestoreLink, Lossless, LosslessInv
<1>3. CASE InitStep
  BY <1>3, LosslessInit
<1>4. CASE HandlerStep
  BY <1>4, LosslessHandler
<1>5. CASE FeedStep
  <2>1. UNCHANGED <<link, registry, subscribed, closed, global, handler, initPc, initData>>
    BY <1>5 DEF FeedStep, HandleSensorEvent, regVars, initVars
  <2>2. SameView
    BY <1>5, TypesFeed DEF FeedStep
  <2> QED
    BY <2>1, <2>2, LosslessSame
<1>6. CASE ResyncStep
  <2>1. UNCHANGED <<link, registry, subscribed, closed, global, handler, initPc, initData>>
    BY <1>6 DEF ResyncStep, ResyncAllConsumed, ResyncNext, GetSensorState, ApplyRefreshedState, regVars, initVars
  <2>2. SameView
    BY <1>6, TypesResync
  <2> QED
    BY <2>1, <2>2, LosslessSame
<1>7. CASE Close
  BY <1>7 DEF Close, LosslessInv
<1>9. ASSUME NEW s \in Sensors, CleanupClosed(s)
      PROVE  LosslessInv'
  <2>1. UNCHANGED <<link, registry, subscribed, closed, global, handler, initPc, initData>> /\ SameView
    BY <1>9 DEF CleanupClosed, SameView, regVars, initVars
  <2> QED
    BY <2>1, LosslessSame
<1>8. CASE UNCHANGED vars
  <2>1. UNCHANGED <<link, registry, subscribed, closed, global, handler, initPc, initData>> /\ SameView
    BY <1>8 DEF vars, regVars, initVars, viewVars, SameView
  <2> QED
    BY <2>1, LosslessSame
<1> QED
  BY <1>1, <1>2, <1>3, <1>4, <1>5, <1>6, <1>7, <1>8, <1>9 DEF Next

-----------------------------------------------------------------------------
(* The newest event tells: publishing                                       *)

LEMMA ShownPublish ==
  ASSUME Typed, NEW e \in GlobalEvents, global' = Append(global, e), Tells(e),
         NEW x \in Sensors, UNCHANGED <<consumed, handler>>, x \in Foreign, ShownInv(x)
  PROVE  ShownInv(x)'
<1>1. global \in Seq(GlobalEvents)
  BY DEF Typed, ViewTypes
<1>2. /\ Len(global) \in Nat /\ DOMAIN global = 1 .. Len(global)
      /\ DOMAIN global' = 1 .. (Len(global) + 1) /\ global'[Len(global) + 1] = e
      /\ \A i \in DOMAIN global : global'[i] = global[i]
  BY <1>1, QueueAppend
<1>3. /\ Adds(e, x) => Visible(x)'
      /\ Drops(e, x) => ~Visible(x)'
      /\ ~Decides(e, x) => (Visible(x)' <=> Visible(x))
  <2>1. Adds(e, x) => registry'[x] # None /\ registry'[x].exposed
    BY DEF Tells
  <2> QED
    BY <2>1 DEF Tells, Visible
<1>4. ASSUME NEW i \in DOMAIN global', Decides(global'[i], x),
             \A j \in DOMAIN global' : j > i => ~Decides(global'[j], x)
      PROVE  Adds(global'[i], x) <=> Visible(x)'
  <2>1. CASE i = Len(global) + 1
    <3>1. global'[i] = e /\ Decides(e, x)
      BY <1>2, <1>4, <2>1
    <3> QED
      BY <1>3, <3>1 DEF Decides
  <2>2. CASE i # Len(global) + 1
    <3>1. i \in DOMAIN global /\ Len(global) + 1 \in DOMAIN global' /\ Len(global) + 1 > i
      BY <1>2, <2>2
    <3>2. ~Decides(e, x)
      BY <1>2, <1>4, <3>1
    <3>3. \A j \in DOMAIN global : j > i => ~Decides(global[j], x)
      BY <1>2, <1>4
    <3>4. global'[i] = global[i]
      BY <1>2, <3>1
    <3> QED
      BY <1>3, <1>4, <3>1, <3>2, <3>3, <3>4 DEF ShownInv
  <2> QED
    BY <2>1, <2>2
<1>5. ASSUME \A j \in DOMAIN global' : ~Decides(global'[j], x)
      PROVE  (Visible(x)' <=> Visible(x)) /\ \A j \in DOMAIN global : ~Decides(global[j], x)
  <2>1. ~Decides(e, x)
    BY <1>2, <1>5
  <2> QED
    BY <1>2, <1>3, <1>5, <2>1
<1>6. Fetching(x)' <=> Fetching(x)
  BY DEF Fetching
<1> QED
  BY <1>4, <1>5, <1>6 DEF ShownInv

LEMMA FacetPublish ==
  ASSUME Typed, NEW e \in GlobalEvents, global' = Append(global, e), Tells(e),
         NEW x \in Sensors, NEW f \in Facets, UNCHANGED <<consumed, handler>>, FacetInv(x, f)
  PROVE  FacetInv(x, f)'
<1>1. global \in Seq(GlobalEvents)
  BY DEF Typed, ViewTypes
<1>2. /\ Len(global) \in Nat /\ DOMAIN global = 1 .. Len(global)
      /\ DOMAIN global' = 1 .. (Len(global) + 1) /\ global'[Len(global) + 1] = e
      /\ \A i \in DOMAIN global : global'[i] = global[i]
  BY <1>1, QueueAppend
<1>3. /\ Sets(e, x, f) => registry'[x] # None /\ (Says(e, f) <=> Has(registry'[x], f))
      /\ e.kind = "added" /\ e.sensor = x => registry'[x] # None /\ e.data = registry'[x]
      /\ registry[x] # None /\ ~Outdates(e, x, f) =>
           registry'[x] # None /\ (Has(registry'[x], f) <=> Has(registry[x], f))
  BY DEF Tells
<1>4. ASSUME NEW i \in Nat, i <= Len(global), Newest(x, f, i)'
      PROVE  Newest(x, f, i) /\ ~Outdates(e, x, f)
  <2>1. Len(global) + 1 \in DOMAIN global' /\ Len(global) + 1 > i
    BY <1>2, <1>4
  <2> QED
    BY <1>2, <1>4, <2>1 DEF Newest
<1>5. ASSUME NEW d, ~Outdates(e, x, f), Agrees(x, d, f)
      PROVE  Agrees(x, d, f)'
  BY <1>3, <1>5 DEF Agrees
<1>6. ASSUME NEW i \in DOMAIN global', Sets(global'[i], x, f), Newest(x, f, i)'
      PROVE  registry'[x] # None /\ (Says(global'[i], f) <=> Has(registry'[x], f))
  <2>1. CASE i = Len(global) + 1
    <3>1. global'[i] = e /\ Sets(e, x, f)
      BY <1>2, <1>6, <2>1
    <3> QED
      BY <1>3, <3>1
  <2>2. CASE i # Len(global) + 1
    <3>1. i \in DOMAIN global /\ i \in Nat /\ i <= Len(global) /\ global'[i] = global[i]
      BY <1>2, <2>2
    <3>2. Newest(x, f, i) /\ ~Outdates(e, x, f)
      BY <1>4, <1>6, <3>1
    <3>3. registry[x] # None /\ (Says(global[i], f) <=> Has(registry[x], f))
      BY <1>6, <3>1, <3>2 DEF FacetInv
    <3> QED
      BY <1>3, <3>1, <3>2, <3>3
  <2> QED
    BY <2>1, <2>2
<1>7. ASSUME NEW i \in DOMAIN global', global'[i].kind = "added", global'[i].sensor = x, Newest(x, f, i)'
      PROVE  Agrees(x, global[i].data, f)'
  <2>1. CASE i = Len(global) + 1
    <3>1. global'[i] = e /\ e.kind = "added" /\ e.sensor = x
      BY <1>2, <1>7, <2>1
    <3> QED
      BY <1>3, <3>1 DEF Agrees
  <2>2. CASE i # Len(global) + 1
    <3>1. i \in DOMAIN global /\ i \in Nat /\ i <= Len(global) /\ global'[i] = global[i]
      BY <1>2, <2>2
    <3>2. Newest(x, f, i) /\ ~Outdates(e, x, f)
      BY <1>4, <1>7, <3>1
    <3>3. Agrees(x, global[i].data, f)
      BY <1>7, <3>1, <3>2 DEF FacetInv
    <3> QED
      BY <1>3, <3>1, <3>2, <3>3 DEF Agrees
  <2> QED
    BY <2>1, <2>2
<1>8. Newest(x, f, 0)' => Newest(x, f, 0) /\ ~Outdates(e, x, f)
  BY <1>2, <1>4
<1>9. handler'.pc = "add" /\ handler'.sensor = x /\ Newest(x, f, 0)' => Agrees(x, handler.data, f)'
  BY <1>3, <1>8 DEF FacetInv, Agrees
<1>10. consumed'[x] # None /\ Newest(x, f, 0)' => Agrees(x, consumed[x], f)'
  BY <1>3, <1>8 DEF FacetInv, Agrees
<1> QED
  BY <1>6, <1>7, <1>9, <1>10 DEF FacetInv, Agrees

\* In a calm scene only a plugin that started sees changes, and it sees all of them.
LEMMA CalmRegistry ==
  ASSUME Typed, Calm, LosslessInv, CalmInv, RegistryStep
  PROVE  CalmInv'
<1>1. /\ Change /\ initPc = "done"
      /\ UNCHANGED <<link, subscribed, closed, consumed, known, initPc, handler>>
  BY RegistryTells DEF Change, initVars, Calm
<1>2. ~closed /\ subscribed /\ link
  BY <1>1 DEF CalmInv, LosslessInv
<1>3. SUFFICES ASSUME NEW x \in Sensors
               PROVE  /\ x \in Foreign => ShownInv(x)'
                      /\ KnownInv(x)'
                      /\ \A f \in Facets : FacetInv(x, f)'
  BY <1>1, <1>2 DEF CalmInv
<1>4. (x \in Foreign => ShownInv(x)) /\ KnownInv(x) /\ \A f \in Facets : FacetInv(x, f)
  BY <1>1 DEF CalmInv
<1>5. KnownInv(x)'
  BY <1>1, <1>4 DEF KnownInv
<1>6. CASE /\ global' = global
           /\ registry'[x] # None <=> registry[x] # None
           /\ Visible(x)' <=> Visible(x)
           /\ \A f \in Facets : registry[x] # None => (Has(registry'[x], f) <=> Has(registry[x], f))
  <2>1. x \in Foreign => ShownInv(x)'
    BY <1>1, <1>4, <1>6 DEF ShownInv, Fetching
  <2>2. ASSUME NEW f \in Facets
        PROVE  FacetInv(x, f)'
    <3>1. FacetInv(x, f) /\ (registry[x] # None => (Has(registry'[x], f) <=> Has(registry[x], f)))
      BY <1>4, <1>6
    <3> QED
      BY <1>1, <1>6, <3>1 DEF FacetInv, Agrees, Newest
  <2> QED
    BY <1>5, <2>1, <2>2
<1>7. CASE \E e \in GlobalEvents : Publish(e) /\ Tells(e)
  <2>1. PICK e \in GlobalEvents : Publish(e) /\ Tells(e)
    BY <1>7
  <2>2. global' = Append(global, e)
    BY <1>2, <2>1 DEF Publish
  <2>3. x \in Foreign => ShownInv(x)'
    BY <1>1, <1>4, <2>1, <2>2, ShownPublish
  <2>4. \A f \in Facets : FacetInv(x, f)'
    BY <1>1, <1>4, <2>1, <2>2, FacetPublish
  <2> QED
    BY <1>5, <2>3, <2>4
<1> QED
  BY <1>6, <1>7, RegistryTells

-----------------------------------------------------------------------------
(* The newest event tells: handling                                         *)

\* What the view and the handler must say when no event that decides is left.
Settled(s) == /\ Fetching(s) => Visible(s)
              /\ ~Fetching(s) => (consumed[s] # None <=> Visible(s))

LEMMA ShownTail ==
  ASSUME Typed, global # <<>>, global' = Tail(global), registry' = registry,
         NEW x \in Sensors, handler = HandlerIdle, ShownInv(x),
         Decides(Head(global), x) /\ (Adds(Head(global), x) <=> Visible(x)) => Settled(x)',
         ~Decides(Head(global), x) =>
            ~Fetching(x)' /\ (consumed'[x] # None <=> consumed[x] # None),
         Fetching(x)' => consumed'[x] = None
  PROVE  ShownInv(x)'
<1>1. /\ Len(global) \in Nat \ {0} /\ DOMAIN global = 1 .. Len(global)
      /\ DOMAIN global' = 1 .. (Len(global) - 1) /\ Head(global) = global[1]
      /\ \A i \in DOMAIN global' : i + 1 \in DOMAIN global /\ global'[i] = global[i + 1]
      /\ \A i \in DOMAIN global : i > 1 => i - 1 \in DOMAIN global' /\ global'[i - 1] = global[i]
  BY QueueTail DEF Typed, ViewTypes
<1>2. (Visible(x)' <=> Visible(x)) /\ ~Fetching(x)
  BY DEF Visible, Fetching, HandlerIdle
<1>3. ASSUME NEW i \in DOMAIN global', Decides(global'[i], x),
             \A j \in DOMAIN global' : j > i => ~Decides(global'[j], x)
      PROVE  Adds(global'[i], x) <=> Visible(x)'
  <2>1. i + 1 \in DOMAIN global /\ global'[i] = global[i + 1]
    BY <1>1
  <2>2. ASSUME NEW j \in DOMAIN global, j > i + 1 PROVE ~Decides(global[j], x)
    <3>1. j - 1 \in DOMAIN global' /\ j - 1 > i /\ global'[j - 1] = global[j]
      BY <1>1, <2>2
    <3> QED
      BY <1>3, <3>1
  <2> QED
    BY <1>2, <1>3, <2>1, <2>2 DEF ShownInv
<1>4. ASSUME \A j \in DOMAIN global' : ~Decides(global'[j], x)
      PROVE  Settled(x)'
  <2>1. 1 \in DOMAIN global /\ global[1] = Head(global)
    BY <1>1
  <2>2. \A j \in DOMAIN global : j > 1 => ~Decides(global[j], x)
    BY <1>1, <1>4
  <2>3. CASE Decides(Head(global), x)
    <3>1. Adds(Head(global), x) <=> Visible(x)
      BY <2>1, <2>2, <2>3 DEF ShownInv
    <3> QED
      BY <2>3, <3>1
  <2>4. CASE ~Decides(Head(global), x)
    <3>1. \A j \in DOMAIN global : ~Decides(global[j], x)
      BY <1>1, <2>2, <2>4
    <3>2. consumed[x] # None <=> Visible(x)
      BY <1>2, <3>1 DEF ShownInv
    <3> QED
      BY <1>2, <2>4, <3>2 DEF Settled
  <2> QED
    BY <2>3, <2>4
<1> QED
  BY <1>3, <1>4 DEF ShownInv, Settled

LEMMA ShownQuiet ==
  ASSUME UNCHANGED <<global, registry>>, NEW x \in Sensors, ShownInv(x),
         Settled(x) => Settled(x)', Fetching(x)' => consumed'[x] = None
  PROVE  ShownInv(x)'
<1>1. Visible(x)' <=> Visible(x)
  BY DEF Visible
<1> QED
  BY <1>1 DEF ShownInv, Settled

LEMMA FacetTail ==
  ASSUME Typed, global # <<>>, global' = Tail(global), registry' = registry,
         NEW x \in Sensors, NEW f \in Facets, FacetInv(x, f),
         Newest(x, f, 1) /\ handler'.pc = "add" /\ handler'.sensor = x => Agrees(x, handler.data, f)',
         Newest(x, f, 1) /\ consumed'[x] # None => Agrees(x, consumed[x], f)'
  PROVE  FacetInv(x, f)'
<1>1. /\ Len(global) \in Nat \ {0} /\ DOMAIN global = 1 .. Len(global)
      /\ DOMAIN global' = 1 .. (Len(global) - 1) /\ Head(global) = global[1]
      /\ \A i \in DOMAIN global' : i + 1 \in DOMAIN global /\ global'[i] = global[i + 1]
      /\ \A i \in DOMAIN global : i > 1 => i - 1 \in DOMAIN global' /\ global'[i - 1] = global[i]
  BY QueueTail DEF Typed, ViewTypes
<1>2. ASSUME NEW i \in Nat, Newest(x, f, i)'
      PROVE  Newest(x, f, i + 1)
  <2>1. SUFFICES ASSUME NEW j \in DOMAIN global, j > i + 1 PROVE ~Outdates(global[j], x, f)
    BY DEF Newest
  <2>2. j - 1 \in DOMAIN global' /\ j - 1 > i /\ global'[j - 1] = global[j]
    BY <1>1, <2>1
  <2> QED
    BY <1>2, <2>2 DEF Newest
<1>3. ASSUME NEW i \in DOMAIN global', Newest(x, f, i)'
      PROVE  /\ Sets(global'[i], x, f) => registry'[x] # None /\ (Says(global'[i], f) <=> Has(registry'[x], f))
             /\ global'[i].kind = "added" /\ global'[i].sensor = x => Agrees(x, global[i].data, f)'
  <2>1. i + 1 \in DOMAIN global /\ global'[i] = global[i + 1] /\ i \in Nat
    BY <1>1
  <2>2. Newest(x, f, i + 1)
    BY <1>2, <1>3, <2>1
  <2>3. /\ Sets(global[i + 1], x, f) => registry[x] # None /\ (Says(global[i + 1], f) <=> Has(registry[x], f))
        /\ global[i + 1].kind = "added" /\ global[i + 1].sensor = x => Agrees(x, global[i + 1].data, f)
    BY <2>1, <2>2 DEF FacetInv
  <2> QED
    BY <2>1, <2>3 DEF Agrees
<1>4. Newest(x, f, 0)' => Newest(x, f, 1)
  BY <1>2
<1> QED
  BY <1>3, <1>4 DEF FacetInv

\* What the event being handled says, when it is the newest about the facet.
LEMMA HeadFacet ==
  ASSUME Typed, global # <<>>, NEW x \in Sensors, NEW f \in Facets, FacetInv(x, f), Newest(x, f, 1)
  PROVE  /\ Sets(Head(global), x, f) => registry[x] # None /\ (Says(Head(global), f) <=> Has(registry[x], f))
         /\ Head(global).kind = "added" /\ Head(global).sensor = x => Agrees(x, Head(global).data, f)
         /\ ~Outdates(Head(global), x, f) /\ consumed[x] # None => Agrees(x, consumed[x], f)
<1>1. 1 \in DOMAIN global /\ DOMAIN global \subseteq Nat \ {0} /\ Head(global) = global[1]
  BY QueueTail DEF Typed, ViewTypes
<1>2. ~Outdates(Head(global), x, f) => Newest(x, f, 0)
  BY <1>1 DEF Newest
<1> QED
  BY <1>1, <1>2 DEF FacetInv

LEMMA FacetQuiet ==
  ASSUME UNCHANGED <<global, registry>>, NEW x \in Sensors, NEW f \in Facets, FacetInv(x, f),
         Newest(x, f, 0) /\ handler'.pc = "add" /\ handler'.sensor = x => Agrees(x, handler.data, f)',
         Newest(x, f, 0) /\ consumed'[x] # None => Agrees(x, consumed[x], f)'
  PROVE  FacetInv(x, f)'
<1>1. \A i : Newest(x, f, i)' <=> Newest(x, f, i)
  BY DEF Newest
<1>2. \A i \in DOMAIN global' :
        /\ Sets(global'[i], x, f) /\ Newest(x, f, i)'
             => registry'[x] # None /\ (Says(global'[i], f) <=> Has(registry'[x], f))
        /\ global'[i].kind = "added" /\ global'[i].sensor = x /\ Newest(x, f, i)'
             => Agrees(x, global[i].data, f)'
  BY <1>1 DEF FacetInv, Agrees
<1> QED
  BY <1>1, <1>2 DEF FacetInv

\* What the calm invariant says of one sensor.
SensorInv(x) == /\ x \in Foreign => ShownInv(x)
                /\ KnownInv(x)
                /\ \A f \in Facets : FacetInv(x, f)

LEMMA CalmAdded ==
  ASSUME Typed, NEW x \in Sensors, SensorInv(x), OnAdded, registry' = registry
  PROVE  SensorInv(x)'
<1> DEFINE h == Head(global)
<1>1. /\ Handles("added") /\ UNCHANGED known /\ h.data \in Record
      /\ \/ consumed[h.sensor] # None /\ SameView /\ handler' = HandlerIdle
         \/ /\ consumed[h.sensor] = None /\ consumed' = consumed
            /\ h.sensor \in Foreign /\ h.data.exposed
            /\ handler' = [pc |-> "add", sensor |-> h.sensor, data |-> h.data]
         \/ /\ consumed[h.sensor] = None /\ consumed' = consumed
            /\ ~(h.sensor \in Foreign /\ h.data.exposed) /\ handler' = HandlerIdle
  BY AddedEffect
<1>2. handler = HandlerIdle /\ global # <<>> /\ global' = Tail(global) /\ h.kind = "added"
  BY <1>1, NextEvent
<1> HIDE DEF h
<1>3. SameView
  BY <1>1 DEF SameView
<1>4. /\ Decides(h, x) <=> h.sensor = x /\ h.data.exposed
      /\ Adds(h, x) <=> h.sensor = x /\ h.data.exposed
      /\ \A f \in Facets : ~Outdates(h, x, f)
  BY <1>2, FacetKinds DEF Decides, Adds, Drops, Outdates, Sets, Gone
<1>5. Fetching(x)' => consumed'[x] = None /\ h.sensor = x /\ h.data.exposed
  BY <1>1 DEF Fetching, HandlerIdle
<1>6. x \in Foreign => ShownInv(x)'
  <2>1. ASSUME x \in Foreign, Decides(h, x), Adds(h, x) <=> Visible(x)
        PROVE  Settled(x)'
    <3>1. h.sensor = x /\ h.data.exposed /\ Visible(x)
      BY <1>4, <2>1
    <3>2. Visible(x)'
      BY <3>1 DEF Visible
    <3>3. consumed'[x] # None \/ Fetching(x)'
      BY <1>1, <1>3, <2>1, <3>1 DEF Fetching, SameView
    <3> QED
      BY <3>2, <3>3 DEF Settled
  <2>2. ~Decides(h, x) => ~Fetching(x)' /\ (consumed'[x] # None <=> consumed[x] # None)
    BY <1>3, <1>4, <1>5 DEF SameView
  <2> QED
    BY <1>2, <1>5, <2>1, <2>2, ShownTail DEF SensorInv, h
<1>7. KnownInv(x)'
  BY <1>1, <1>2, <1>3 DEF SensorInv, KnownInv, HandlerIdle, SameView
<1>8. ASSUME NEW f \in Facets
      PROVE  FacetInv(x, f)'
  <2>1. FacetInv(x, f)
    BY DEF SensorInv
  <2>2. ASSUME Newest(x, f, 1), handler'.pc = "add", handler'.sensor = x
        PROVE  Agrees(x, handler.data, f)'
    <3>1. h.sensor = x /\ handler'.data = h.data
      BY <1>1, <2>2 DEF HandlerIdle
    <3>2. Agrees(x, h.data, f)
      BY <1>2, <2>1, <2>2, <3>1, HeadFacet DEF h
    <3> QED
      BY <3>1, <3>2 DEF Agrees
  <2>3. ASSUME Newest(x, f, 1), consumed'[x] # None
        PROVE  Agrees(x, consumed[x], f)'
    <3>1. Agrees(x, consumed[x], f) /\ consumed[x] # None
      BY <1>2, <1>3, <1>4, <2>1, <2>3, HeadFacet DEF h, SameView
    <3> QED
      BY <1>3, <3>1 DEF Agrees, Has, SameView
  <2> QED
    BY <1>2, <2>1, <2>2, <2>3, FacetTail
<1> QED
  BY <1>6, <1>7, <1>8 DEF SensorInv

LEMMA CalmReleased ==
  ASSUME Typed, NEW x \in Sensors, SensorInv(x), OnDeleted \/ OnHidden, registry' = registry
  PROVE  SensorInv(x)'
<1> DEFINE h == Head(global)
<1>1. /\ Handles("deleted") \/ (Handles("exposed") /\ ~h.data)
      /\ UNCHANGED known
      /\ \A y \in Sensors : y # h.sensor => consumed'[y] = consumed[y]
      /\ \/ /\ consumed[h.sensor] # None /\ consumed'[h.sensor] = None
            /\ handler' = [pc |-> "unsubscribe", sensor |-> h.sensor, data |-> h.sensor \in wired]
         \/ consumed[h.sensor] = None /\ consumed' = consumed /\ handler' = HandlerIdle
  BY ReleaseEffect
<1>2. /\ handler = HandlerIdle /\ global # <<>> /\ global' = Tail(global)
      /\ h.kind = "deleted" \/ (h.kind = "exposed" /\ ~h.data)
  BY <1>1, NextEvent
<1> HIDE DEF h
<1>3. /\ ~Adds(h, x) /\ (Decides(h, x) <=> h.sensor = x)
      /\ \A f \in Facets : Outdates(h, x, f) => h.sensor = x
  BY <1>2, FacetKinds DEF Decides, Adds, Drops, Outdates, Sets, Gone
<1>4. ~Fetching(x)' /\ handler'.pc # "add"
  BY <1>1 DEF Fetching, HandlerIdle
<1>5. x \in Foreign => ShownInv(x)'
  <2>1. ASSUME Decides(h, x), Adds(h, x) <=> Visible(x)
        PROVE  Settled(x)'
    <3>1. ~Visible(x)' /\ consumed'[x] = None
      BY <1>1, <1>3, <2>1 DEF Visible
    <3> QED
      BY <1>4, <3>1 DEF Settled
  <2>2. ~Decides(h, x) => ~Fetching(x)' /\ (consumed'[x] # None <=> consumed[x] # None)
    BY <1>1, <1>3, <1>4
  <2> QED
    BY <1>2, <1>4, <2>1, <2>2, ShownTail DEF SensorInv, h
<1>6. KnownInv(x)'
  BY <1>1, <1>2 DEF SensorInv, KnownInv, HandlerIdle
<1>7. ASSUME NEW f \in Facets
      PROVE  FacetInv(x, f)'
  <2>1. FacetInv(x, f)
    BY DEF SensorInv
  <2>2. ASSUME Newest(x, f, 1), consumed'[x] # None
        PROVE  Agrees(x, consumed[x], f)'
    <3>1. h.sensor # x /\ consumed'[x] = consumed[x]
      BY <1>1, <2>2
    <3>2. Agrees(x, consumed[x], f)
      BY <1>2, <1>3, <2>1, <2>2, <3>1, HeadFacet DEF h
    <3> QED
      BY <3>1, <3>2 DEF Agrees
  <2> QED
    BY <1>2, <1>4, <2>1, <2>2, FacetTail
<1> QED
  BY <1>5, <1>6, <1>7 DEF SensorInv

LEMMA CalmExposed ==
  ASSUME Typed, NEW x \in Sensors, SensorInv(x), OnExposed, registry' = registry
  PROVE  SensorInv(x)'
<1> DEFINE h == Head(global)
<1>1. /\ Handles("exposed") /\ h.data /\ UNCHANGED <<consumed, known>>
      /\ \/ consumed[h.sensor] # None /\ handler' = HandlerIdle
         \/ consumed[h.sensor] = None /\ handler' = [pc |-> "fetch", sensor |-> h.sensor, data |-> None]
  BY ExposedEffect
<1>2. handler = HandlerIdle /\ global # <<>> /\ global' = Tail(global) /\ h.kind = "exposed"
  BY <1>1, NextEvent
<1> HIDE DEF h
<1>3. /\ Decides(h, x) <=> h.sensor = x
      /\ Adds(h, x) <=> h.sensor = x
      /\ \A f \in Facets : ~Outdates(h, x, f)
  BY <1>1, <1>2, FacetKinds DEF Decides, Adds, Drops, Outdates, Sets, Gone
<1>4. Fetching(x)' <=> h.sensor = x /\ consumed[x] = None
  BY <1>1 DEF Fetching, HandlerIdle
<1>5. x \in Foreign => ShownInv(x)'
  <2>1. ASSUME Decides(h, x), Adds(h, x) <=> Visible(x)
        PROVE  Settled(x)'
    <3>1. Visible(x)' /\ h.sensor = x
      BY <1>3, <2>1 DEF Visible
    <3> QED
      BY <1>1, <1>4, <3>1 DEF Settled
  <2> QED
    BY <1>1, <1>2, <1>3, <1>4, <2>1, ShownTail DEF SensorInv, h
<1>6. KnownInv(x)'
  BY <1>1, <1>2 DEF SensorInv, KnownInv, HandlerIdle
<1>7. ASSUME NEW f \in Facets
      PROVE  FacetInv(x, f)'
  <2>1. FacetInv(x, f)
    BY DEF SensorInv
  <2>2. ASSUME Newest(x, f, 1), consumed'[x] # None
        PROVE  Agrees(x, consumed[x], f)'
    <3>1. Agrees(x, consumed[x], f)
      BY <1>1, <1>2, <1>3, <2>1, <2>2, HeadFacet DEF h
    <3> QED
      BY <1>1, <3>1 DEF Agrees
  <2>3. handler'.pc # "add"
    BY <1>1 DEF HandlerIdle
  <2> QED
    BY <1>2, <2>1, <2>2, <2>3, FacetTail
<1> QED
  BY <1>5, <1>6, <1>7 DEF SensorInv

\* An event that changes proxies and decides nothing: it is enough that the facets follow.
LEMMA CalmFacets ==
  ASSUME Typed, NEW x \in Sensors, SensorInv(x), NEW k \in {"connected", "assigned"}, Handles(k),
         UNCHANGED <<handler, known, registry>>,
         consumed'[x] # None <=> consumed[x] # None,
         \A f \in Facets : Newest(x, f, 1) /\ consumed'[x] # None => Agrees(x, consumed[x], f)'
  PROVE  SensorInv(x)'
<1> DEFINE h == Head(global)
<1>1. handler = HandlerIdle /\ global # <<>> /\ global' = Tail(global) /\ h.kind = k
  BY NextEvent
<1> HIDE DEF h
<1>2. ~Decides(h, x) /\ ~Fetching(x)' /\ handler'.pc # "add"
  BY <1>1 DEF Decides, Adds, Drops, Fetching, HandlerIdle
<1>3. x \in Foreign => ShownInv(x)'
  BY <1>1, <1>2, ShownTail DEF SensorInv, h
<1>4. KnownInv(x)'
  BY <1>1 DEF SensorInv, KnownInv, HandlerIdle
<1>5. \A f \in Facets : FacetInv(x, f)'
  BY <1>1, <1>2, FacetTail DEF SensorInv
<1> QED
  BY <1>3, <1>4, <1>5 DEF SensorInv

LEMMA CalmConnected ==
  ASSUME Typed, NEW x \in Sensors, SensorInv(x), OnConnected, registry' = registry
  PROVE  SensorInv(x)'
<1> DEFINE h == Head(global)
<1>1. /\ Handles("connected") /\ h.data \in BOOLEAN /\ UNCHANGED <<known, handler>>
      /\ \A y \in Sensors : y # h.sensor => consumed'[y] = consumed[y]
      /\ consumed'[h.sensor] # None <=> consumed[h.sensor] # None
      /\ consumed[h.sensor] # None => /\ consumed'[h.sensor].connected = h.data
                                      /\ consumed'[h.sensor].cameras = consumed[h.sensor].cameras
  BY ConnectionEffect
<1>2. global # <<>> /\ h.kind = "connected"
  BY <1>1, NextEvent
<1> HIDE DEF h
<1>3. ASSUME NEW f \in Facets, Newest(x, f, 1), consumed'[x] # None
      PROVE  Agrees(x, consumed[x], f)'
  <2>1. /\ consumed[x] # None
        /\ Sets(h, x, f) => registry[x] # None /\ (Says(h, f) <=> Has(registry[x], f))
        /\ ~Outdates(h, x, f) => Agrees(x, consumed[x], f)
    BY <1>1, <1>2, <1>3, HeadFacet DEF SensorInv, h
  <2>2. CASE h.sensor = x /\ f[1] = "connected"
    <3>1. Sets(h, x, f) /\ (Has(consumed'[x], f) <=> Says(h, f))
      BY <1>1, <1>2, <2>1, <2>2 DEF Sets, Says, Has
    <3> QED
      BY <2>1, <3>1 DEF Agrees
  <2>3. CASE ~(h.sensor = x /\ f[1] = "connected")
    <3>1. ~Outdates(h, x, f)
      BY <1>2, <2>3 DEF Outdates, Sets, Gone
    <3>2. Has(consumed'[x], f) <=> Has(consumed[x], f)
      <4>1. CASE h.sensor # x
        BY <1>1, <4>1
      <4>2. CASE h.sensor = x
        BY <1>1, <2>1, <2>3, <4>2, FacetKinds DEF Has
      <4> QED
        BY <4>1, <4>2
    <3> QED
      BY <2>1, <3>1, <3>2 DEF Agrees
  <2> QED
    BY <2>2, <2>3
<1>4. consumed'[x] # None <=> consumed[x] # None
  BY <1>1
<1> QED
  BY <1>1, <1>3, <1>4, CalmFacets

LEMMA CalmAssigned ==
  ASSUME Typed, NEW x \in Sensors, SensorInv(x), OnAssignment, registry' = registry
  PROVE  SensorInv(x)'
<1> DEFINE h == Head(global)
<1>1. /\ Handles("assigned") /\ h.data \in Assignments /\ UNCHANGED <<known, handler>>
      /\ \A y \in Sensors : y # h.sensor => consumed'[y] = consumed[y]
      /\ consumed'[h.sensor] # None <=> consumed[h.sensor] # None
      /\ consumed[h.sensor] # None =>
           /\ consumed'[h.sensor].connected = consumed[h.sensor].connected
           /\ consumed'[h.sensor].cameras = (consumed[h.sensor].cameras \ {h.data.camera})
                                               \cup (IF h.data.assigned THEN {h.data.camera} ELSE {})
  BY AssignmentEffect
<1>2. global # <<>> /\ h.kind = "assigned" /\ h.data.assigned \in BOOLEAN
  BY <1>1, NextEvent DEF Assignments
<1> HIDE DEF h
<1>3. ASSUME NEW f \in Facets, Newest(x, f, 1), consumed'[x] # None
      PROVE  Agrees(x, consumed[x], f)'
  <2>1. /\ consumed[x] # None
        /\ Sets(h, x, f) => registry[x] # None /\ (Says(h, f) <=> Has(registry[x], f))
        /\ ~Outdates(h, x, f) => Agrees(x, consumed[x], f)
    BY <1>1, <1>2, <1>3, HeadFacet DEF SensorInv, h
  <2>2. CASE h.sensor = x /\ f[1] = "assigned" /\ f[2] = h.data.camera
    <3>1. Sets(h, x, f) /\ (Has(consumed'[x], f) <=> Says(h, f))
      BY <1>1, <1>2, <2>1, <2>2 DEF Sets, Says, Has
    <3> QED
      BY <2>1, <3>1 DEF Agrees
  <2>3. CASE ~(h.sensor = x /\ f[1] = "assigned" /\ f[2] = h.data.camera)
    <3>1. ~Outdates(h, x, f)
      BY <1>2, <2>3, FacetKinds DEF Outdates, Sets, Gone
    <3>2. Has(consumed'[x], f) <=> Has(consumed[x], f)
      <4>1. CASE h.sensor # x
        BY <1>1, <4>1
      <4>2. CASE h.sensor = x
        BY <1>1, <2>1, <2>3, <4>2, FacetKinds DEF Has
      <4> QED
        BY <4>1, <4>2
    <3> QED
      BY <2>1, <3>1, <3>2 DEF Agrees
  <2> QED
    BY <2>2, <2>3
<1>4. consumed'[x] # None <=> consumed[x] # None
  BY <1>1
<1> QED
  BY <1>1, <1>3, <1>4, CalmFacets

LEMMA CalmFetch ==
  ASSUME Typed, NEW x \in Sensors, SensorInv(x), FetchSensor, registry' = registry, ~MayFail
  PROVE  SensorInv(x)'
<1> DEFINE s == handler.sensor
<1>1. /\ handler.pc = "fetch" /\ UNCHANGED <<global, consumed, known>>
      /\ \/ /\ registry[s] # None /\ s \in Foreign /\ registry[s].exposed
            /\ handler' = [pc |-> "add", sensor |-> s, data |-> registry[s]]
         \/ ~Visible(s) /\ handler' = HandlerIdle
  BY FetchEffect
<1>2. Fetching(x) <=> s = x
  BY <1>1 DEF Fetching
<1> HIDE DEF s
<1>3. x \in Foreign => ShownInv(x)'
  <2>1. ASSUME x \in Foreign
        PROVE  (Settled(x) => Settled(x)') /\ (Fetching(x)' => consumed'[x] = None)
    <3>1. Visible(x)' <=> Visible(x)
      BY DEF Visible
    <3>2. Fetching(x) => consumed[x] = None
      BY <2>1 DEF SensorInv, ShownInv
    <3>3. Fetching(x)' => Fetching(x)
      BY <1>1, <1>2 DEF Fetching, HandlerIdle
    <3>4. Fetching(x) /\ ~Fetching(x)' => ~Visible(x)
      BY <1>1, <1>2 DEF Fetching
    <3> QED
      BY <1>1, <3>1, <3>2, <3>3, <3>4 DEF Settled
  <2> QED
    BY <1>1, <2>1, ShownQuiet DEF SensorInv
<1>4. KnownInv(x)'
  BY <1>1 DEF SensorInv, KnownInv, HandlerIdle
<1>5. ASSUME NEW f \in Facets
      PROVE  FacetInv(x, f)'
  <2>1. FacetInv(x, f)
    BY DEF SensorInv
  <2>2. handler'.pc = "add" /\ handler'.sensor = x => Agrees(x, handler.data, f)'
    BY <1>1 DEF Agrees, HandlerIdle
  <2>3. Newest(x, f, 0) /\ consumed'[x] # None => Agrees(x, consumed[x], f)'
    BY <1>1, <2>1 DEF FacetInv, Agrees
  <2> QED
    BY <1>1, <2>1, <2>2, <2>3, FacetQuiet
<1> QED
  BY <1>3, <1>4, <1>5 DEF SensorInv

LEMMA CalmAdd ==
  ASSUME Typed, NEW x \in Sensors, SensorInv(x), AddFromHandler, registry' = registry
  PROVE  SensorInv(x)'
<1> DEFINE s == handler.sensor
           data == handler.data
<1>1. /\ handler.pc = "add" /\ s \in Foreign /\ data \in Record /\ UNCHANGED <<global, known>>
      /\ handler' = [pc |-> "tellAdded", sensor |-> s, data |-> None]
      /\ consumed'[s] # None
      /\ \A y \in Sensors : consumed[y] # None \/ y # s => consumed'[y] = consumed[y]
      /\ consumed[s] = None => consumed'[s] = Proxy(data)
  BY HandlerAddEffect
<1>2. (Fetching(x) <=> s = x) /\ ~Fetching(x)' /\ handler'.pc # "add"
  BY <1>1 DEF Fetching
<1>3. Proxy(data).connected = data.connected /\ Proxy(data).cameras = data.cameras
  BY <1>1, ProxyIs
<1>4. ASSUME NEW f \in Facets
      PROVE  FacetInv(x, f)'
  <2>1. FacetInv(x, f)
    BY DEF SensorInv
  <2>2. ASSUME Newest(x, f, 0), consumed'[x] # None
        PROVE  Agrees(x, consumed[x], f)'
    <3>1. CASE consumed[x] # None
      BY <1>1, <2>1, <2>2, <3>1 DEF FacetInv, Agrees
    <3>2. CASE consumed[x] = None
      <4>1. s = x /\ consumed'[x] = Proxy(data)
        BY <1>1, <2>2, <3>2
      <4>2. Agrees(x, data, f)
        BY <1>1, <2>1, <2>2, <4>1 DEF FacetInv
      <4>3. Has(consumed'[x], f) <=> Has(data, f)
        BY <1>3, <4>1 DEF Has
      <4> QED
        BY <4>2, <4>3 DEF Agrees
    <3> QED
      BY <3>1, <3>2
  <2> QED
    BY <1>1, <1>2, <2>1, <2>2, FacetQuiet
<1> HIDE DEF s, data
<1>5. x \in Foreign => ShownInv(x)'
  <2>1. ASSUME x \in Foreign
        PROVE  Settled(x) => Settled(x)'
    <3>1. Visible(x)' <=> Visible(x)
      BY DEF Visible
    <3> QED
      BY <1>1, <1>2, <3>1 DEF Settled
  <2> QED
    BY <1>1, <1>2, <2>1, ShownQuiet DEF SensorInv
<1>6. KnownInv(x)'
  BY <1>1 DEF SensorInv, KnownInv
<1> QED
  BY <1>4, <1>5, <1>6 DEF SensorInv

\* A step that moves neither the stream, nor the registry, nor what the calm part reads
\* of the view.
LEMMA CalmSame ==
  ASSUME NEW x \in Sensors, SensorInv(x), UNCHANGED <<global, registry>>, SameView,
         Fetching(x)' <=> Fetching(x), handler' = handler \/ handler'.pc # "add", KnownInv(x)'
  PROVE  SensorInv(x)'
<1>1. x \in Foreign => ShownInv(x)'
  <2>1. x \in Foreign => (Settled(x) => Settled(x)') /\ (Fetching(x)' => consumed'[x] = None)
    BY DEF SensorInv, ShownInv, Settled, Visible, SameView
  <2> QED
    BY <2>1, ShownQuiet DEF SensorInv
<1>2. ASSUME NEW f \in Facets
      PROVE  FacetInv(x, f)'
  <2>1. FacetInv(x, f)
    BY DEF SensorInv
  <2>2. Newest(x, f, 0) /\ handler'.pc = "add" /\ handler'.sensor = x => Agrees(x, handler.data, f)'
    BY <2>1 DEF FacetInv, Agrees
  <2>3. Newest(x, f, 0) /\ consumed'[x] # None => Agrees(x, consumed[x], f)'
    BY <2>1 DEF FacetInv, Agrees, Has, SameView
  <2> QED
    BY <2>1, <2>2, <2>3, FacetQuiet
<1> QED
  BY <1>1, <1>2 DEF SensorInv

\* The proxy is out of the view already.
LEMMA CalmCleanup ==
  ASSUME Typed, NEW x \in Sensors, SensorInv(x), CleanupProxy, registry' = registry
  PROVE  SensorInv(x)'
<1>1. /\ handler.pc = "unsubscribe" /\ UNCHANGED <<global, consumed, known>>
      /\ handler' = [pc |-> "tellReleased", sensor |-> handler.sensor, data |-> None]
  BY CleanupEffect
<1>2. SameView /\ (Fetching(x)' <=> Fetching(x)) /\ handler'.pc # "add"
  BY <1>1 DEF SameView, Fetching
<1>3. KnownInv(x)'
  BY <1>1 DEF SensorInv, KnownInv
<1> QED
  BY <1>1, <1>2, <1>3, CalmSame

LEMMA CalmTell ==
  ASSUME Typed, NEW x \in Sensors, SensorInv(x), TellPlugin, registry' = registry
  PROVE  SensorInv(x)'
<1>1. /\ handler.pc \in {"tellAdded", "tellReleased"}
      /\ known' = IF handler.pc = "tellAdded" THEN known \cup {handler.sensor}
                  ELSE known \ {handler.sensor}
      /\ handler' = HandlerIdle /\ UNCHANGED <<global, consumed>>
  BY TellEffect
<1>2. SameView /\ (Fetching(x)' <=> Fetching(x)) /\ handler'.pc # "add"
  BY <1>1 DEF SameView, Fetching, HandlerIdle
<1>3. KnownInv(x)'
  BY <1>1 DEF SensorInv, KnownInv, HandlerIdle
<1> QED
  BY <1>1, <1>2, <1>3, CalmSame

-----------------------------------------------------------------------------
(* A calm start, and every step together                                    *)

\* A proxy that says what the registry says.
Fresh(x) == consumed[x] # None => Visible(x) /\ \A f \in Facets : Agrees(x, consumed[x], f)

LEMMA CalmInit ==
  ASSUME Typed, Calm, LosslessInv, CalmInv, InitStep
  PROVE  CalmInv'
<1>1. UNCHANGED <<link, registry, global, handler, closed>> /\ ~MayFail /\ ~closed
  BY DEF InitStep, EnsureGlobalSubscription, SubscribeFails, GetSensors, ListView, ConfigureSensors, FillView,
         regVars, Calm, LosslessInv, MayFail, CalmInv
<1>2. \A x : Visible(x)' <=> Visible(x)
  BY <1>1 DEF Visible
<1>3. initPc \in {"start", "ask", "fill", "configure"} => CalmStart
  BY DEF CalmInv
<1>4. CASE EnsureGlobalSubscription
  <2>1. initPc = "start" /\ initPc' = "ask" /\ UNCHANGED <<consumed, known>>
    BY <1>4 DEF EnsureGlobalSubscription, viewVars
  <2> QED
    BY <1>1, <1>3, <2>1 DEF CalmInv, CalmStart
<1>5. CASE SubscribeFails
  BY <1>1, <1>5 DEF SubscribeFails
<1>6. CASE GetSensors
  <2>1. initPc = "ask" /\ initPc' = "fill" /\ initData' = registry /\ UNCHANGED <<consumed, known>>
    BY <1>1, <1>6 DEF GetSensors, viewVars
  <2>2. \A x \in Sensors : consumed'[x] = None /\ (initData'[x] = None => ~Visible(x)')
    BY <1>1, <1>3, <2>1 DEF CalmStart, Visible
  <2> QED
    BY <1>1, <1>3, <2>1, <2>2 DEF CalmInv, CalmStart
<1>7. ASSUME NEW s \in Sensors, FillView(s)
      PROVE  CalmInv'
  <2>1. /\ initPc = "fill" /\ initPc' = initPc /\ known' = known /\ initData[s] # None
        /\ initData' = [initData EXCEPT ![s] = None]
        /\ IF s \in Foreign /\ initData[s].exposed THEN AddConsumed(s, initData[s]) ELSE consumed' = consumed
    BY <1>7 DEF FillView, IsConsumable
  <2>2. initData[s] \in Record /\ \A x \in Sensors : initData'[x] = IF x = s THEN None ELSE initData[x]
    BY <2>1 DEF Typed, ViewTypes
  <2>3. /\ initData[s] = registry[s]
        /\ \A x \in Sensors : initData[x] \in {None, registry[x]} /\ Fresh(x)
        /\ \A x \in Sensors : initData[x] = None => (consumed[x] # None <=> Visible(x))
    BY <1>3, <2>1 DEF CalmStart, Fresh
  <2>4. /\ \A x \in Sensors : x # s => consumed'[x] = consumed[x]
        /\ consumed[s] # None => consumed'[s] = consumed[s]
        /\ consumed'[s] # None <=> Visible(s)
        /\ consumed[s] = None /\ consumed'[s] # None => consumed'[s] = Proxy(registry[s])
    <3>1. CASE s \in Foreign /\ initData[s].exposed
      <4>1. AddConsumed(s, initData[s]) /\ s \in Foreign
        BY <2>1, <3>1
      <4>2. Visible(s)
        BY <2>1, <2>3, <3>1 DEF Visible
      <4> QED
        BY <1>7, <2>2, <2>3, <4>1, <4>2, FillFrame, AddEffect DEF Typed
    <3>2. CASE ~(s \in Foreign /\ initData[s].exposed)
      <4>1. ~Visible(s) /\ consumed' = consumed
        BY <2>1, <2>3, <3>2 DEF Visible
      <4> QED
        BY <2>3, <4>1 DEF Fresh
    <3> QED
      BY <3>1, <3>2
  <2>5. ASSUME NEW x \in Sensors
        PROVE  Fresh(x)'
    <3>1. CASE consumed[x] # None \/ consumed'[x] = None
      BY <1>1, <1>2, <2>3, <2>4, <3>1 DEF Fresh, Agrees
    <3>2. CASE consumed[x] = None /\ consumed'[x] # None
      <4>1. x = s /\ consumed'[x] = Proxy(registry[x]) /\ registry[x] \in Record /\ registry[x] # None
        BY <2>1, <2>2, <2>3, <2>4, <3>2
      <4>2. consumed'[x].connected = registry[x].connected /\ consumed'[x].cameras = registry[x].cameras
        BY <4>1, ProxyIs
      <4>3. \A f \in Facets : Agrees(x, consumed[x], f)'
        BY <1>1, <4>1, <4>2 DEF Agrees, Has
      <4> QED
        BY <1>2, <2>4, <4>1, <4>3 DEF Fresh
    <3> QED
      BY <3>1, <3>2
  <2>6. ASSUME NEW x \in Sensors
        PROVE  /\ initData'[x] \in {None, registry'[x]}
               /\ initData'[x] = None => (consumed'[x] # None <=> Visible(x)')
    BY <1>1, <1>2, <2>2, <2>3, <2>4
  <2> QED
    BY <1>1, <1>3, <2>1, <2>5, <2>6 DEF CalmInv, CalmStart, Fresh
<1>8. CASE ListView
  <2>1. /\ initPc = "fill" /\ initPc' = "configure" /\ UNCHANGED <<consumed, known>>
        /\ \A x \in Sensors : initData[x] = None
        /\ initList' = {x \in Sensors : consumed[x] # None}
    BY <1>8 DEF ListView, viewVars
  <2>2. \A x \in Sensors : Fresh(x) /\ (consumed[x] # None <=> Visible(x))
    BY <1>3, <2>1 DEF CalmStart, Fresh
  <2>3. \A x \in Sensors : Fresh(x)' /\ (consumed'[x] # None <=> Visible(x)')
    BY <1>1, <1>2, <2>1, <2>2 DEF Fresh, Agrees
  <2> QED
    BY <1>1, <1>3, <2>1, <2>3 DEF CalmInv, CalmStart, Fresh
<1>9. CASE ConfigureSensors
  <2>1. /\ initPc = "configure" /\ consumed' = consumed
        /\ (initPc' = "done" /\ known' = known \cup initList) \/ initPc' = "failed"
    BY <1>9 DEF ConfigureSensors
  <2>2. CASE initPc' = "failed"
    BY <1>1, <2>2 DEF CalmInv
  <2>3. CASE initPc' = "done" /\ known' = known \cup initList
    <3>1. /\ global = <<>> /\ handler = HandlerIdle /\ known = {}
          /\ initList = {x \in Sensors : consumed[x] # None}
          /\ \A x \in Sensors : Fresh(x) /\ (consumed[x] # None <=> Visible(x))
      BY <1>3, <2>1 DEF CalmStart, Fresh
    <3>2. DOMAIN global' = {}
      BY <1>1, <3>1
    <3>3. ASSUME NEW x \in Sensors
          PROVE  SensorInv(x)'
      <4>1. ShownInv(x)'
        BY <1>1, <1>2, <2>1, <3>1, <3>2 DEF ShownInv, Fetching, HandlerIdle
      <4>2. KnownInv(x)'
        BY <1>1, <2>1, <2>3, <3>1 DEF KnownInv, HandlerIdle
      <4>3. \A f \in Facets : FacetInv(x, f)'
        BY <1>1, <2>1, <3>1, <3>2 DEF FacetInv, Fresh, Agrees, HandlerIdle
      <4> QED
        BY <4>1, <4>2, <4>3 DEF SensorInv
    <3> QED
      BY <1>1, <2>3, <3>3 DEF CalmInv, SensorInv
  <2> QED
    BY <2>1, <2>2, <2>3
<1> QED
  BY <1>4, <1>5, <1>6, <1>7, <1>8, <1>9 DEF InitStep

LEMMA CalmHandler ==
  ASSUME Typed, Calm, LosslessInv, CalmInv, HandlerStep
  PROVE  CalmInv'
<1>1. UNCHANGED <<registry, closed, initPc>> /\ ~MayFail
  BY TypesHandler DEF HandlerFrame, regVars, initVars, Calm, LosslessInv, MayFail
<1>2. initPc \notin {"start", "ask", "fill", "configure"}
  <2>1. global # <<>> \/ handler # HandlerIdle
    BY DEF HandlerStep, OnAdded, OnDeleted, OnHidden, OnExposed, OnConnected, OnAssignment, FetchSensor,
           AddFromHandler, CleanupProxy, TellPlugin, Handles, HandlerIdle
  <2> QED
    BY <2>1 DEF CalmInv, CalmStart
<1>3. CASE initPc # "done"
  BY <1>1, <1>2, <1>3 DEF CalmInv
<1>4. CASE initPc = "done"
  <2>1. ASSUME NEW x \in Sensors
        PROVE  SensorInv(x)'
    <3>1. SensorInv(x)
      BY <1>4 DEF CalmInv, SensorInv
    <3>2. CASE OnAdded
      BY <1>1, <3>1, <3>2, CalmAdded
    <3>3. CASE OnDeleted \/ OnHidden
      BY <1>1, <3>1, <3>3, CalmReleased
    <3>4. CASE OnExposed
      BY <1>1, <3>1, <3>4, CalmExposed
    <3>5. CASE OnConnected
      BY <1>1, <3>1, <3>5, CalmConnected
    <3>6. CASE OnAssignment
      BY <1>1, <3>1, <3>6, CalmAssigned
    <3>7. CASE FetchSensor
      BY <1>1, <3>1, <3>7, CalmFetch
    <3>8. CASE AddFromHandler
      BY <1>1, <3>1, <3>8, CalmAdd
    <3>9. CASE TellPlugin
      BY <1>1, <3>1, <3>9, CalmTell
    <3>10. CASE CleanupProxy
      BY <1>1, <3>1, <3>10, CalmCleanup
    <3> QED
      BY <3>2, <3>3, <3>4, <3>5, <3>6, <3>7, <3>8, <3>9, <3>10 DEF HandlerStep
  <2> QED
    BY <1>1, <1>4, <2>1 DEF CalmInv, SensorInv
<1> QED
  BY <1>3, <1>4

\* Values, resyncs and stuttering.
LEMMA CalmValues ==
  ASSUME CalmInv, SameView,
         UNCHANGED <<registry, global, handler, known, initPc, initData, initList, closed>>
  PROVE  CalmInv'
<1>1. \A x : Visible(x)' <=> Visible(x)
  BY DEF Visible
<1>2. \A x \in Sensors : Fresh(x) => Fresh(x)'
  BY <1>1 DEF Fresh, Agrees, Has, SameView
<1>3. CalmStart => CalmStart'
  <2>1. SUFFICES ASSUME CalmStart PROVE CalmStart'
    OBVIOUS
  <2>2. /\ initPc \in {"fill", "configure"} => \A x \in Sensors : Fresh(x)
        /\ \A x \in Sensors : consumed'[x] # None <=> consumed[x] # None
    BY <2>1 DEF CalmStart, Fresh, SameView
  <2>3. initPc \in {"fill", "configure"} => \A x \in Sensors : Fresh(x)'
    BY <1>2, <2>2
  <2>4. initPc' \in {"start", "ask"} => \A x \in Sensors : consumed'[x] = None
    BY <2>1, <2>2 DEF CalmStart
  <2>5. initPc' = "fill" => \A x \in Sensors :
          /\ initData'[x] \in {None, registry'[x]}
          /\ initData'[x] = None => (consumed'[x] # None <=> Visible(x)')
    BY <1>1, <2>1, <2>2 DEF CalmStart
  <2>6. initPc' = "configure" =>
          /\ \A x \in Sensors : consumed'[x] # None <=> Visible(x)'
          /\ initList' = {x \in Sensors : consumed'[x] # None}
    BY <1>1, <2>1, <2>2 DEF CalmStart
  <2> QED
    BY <2>1, <2>3, <2>4, <2>5, <2>6 DEF CalmStart, Fresh
<1>4. ASSUME initPc = "done", NEW x \in Sensors
      PROVE  SensorInv(x)'
  <2>1. SensorInv(x)
    BY <1>4 DEF CalmInv, SensorInv
  <2>2. KnownInv(x)'
    BY <2>1 DEF SensorInv, KnownInv, SameView
  <2>3. Fetching(x)' <=> Fetching(x)
    BY DEF Fetching
  <2> QED
    BY <2>1, <2>2, <2>3, CalmSame
<1> QED
  BY <1>3, <1>4 DEF CalmInv, SensorInv

LEMMA CalmStep ==
  ASSUME Typed, Calm, LosslessInv, CalmInv, [Next]_vars
  PROVE  CalmInv'
<1>1. CASE RegistryStep
  BY <1>1, CalmRegistry
<1>2. CASE InitStep
  BY <1>2, CalmInit
<1>3. CASE HandlerStep
  BY <1>3, CalmHandler
<1>4. CASE DropLink \/ RestoreLink \/ Close
  BY <1>4 DEF DropLink, RestoreLink, Close, Calm, LosslessInv
<1>5. CASE FeedStep
  <2>1. UNCHANGED <<registry, global, handler, known, initPc, initData, initList, closed>>
    BY <1>5 DEF FeedStep, HandleSensorEvent, regVars, initVars
  <2>2. SameView
    BY <1>5, TypesFeed DEF FeedStep
  <2> QED
    BY <2>1, <2>2, CalmValues
<1>6. CASE ResyncStep
  <2>1. UNCHANGED <<registry, global, handler, known, initPc, initData, initList, closed>>
    BY <1>6 DEF ResyncStep, ResyncAllConsumed, ResyncNext, GetSensorState, ApplyRefreshedState,
                regVars, initVars, viewVars
  <2>2. SameView
    BY <1>6, TypesResync
  <2> QED
    BY <2>1, <2>2, CalmValues
<1>8. ASSUME NEW s \in Sensors, CleanupClosed(s)
      PROVE  CalmInv'
  <2>1. UNCHANGED <<registry, global, handler, known, initPc, initData, initList, closed>> /\ SameView
    BY <1>8 DEF CleanupClosed, SameView, regVars, initVars
  <2> QED
    BY <2>1, CalmValues
<1>7. CASE UNCHANGED vars
  <2>1. UNCHANGED <<registry, global, handler, known, initPc, initData, initList, closed>> /\ SameView
    BY <1>7 DEF vars, regVars, initVars, viewVars, SameView
  <2> QED
    BY <2>1, CalmValues
<1> QED
  BY <1>1, <1>2, <1>3, <1>4, <1>5, <1>6, <1>7, <1>8 DEF Next

-----------------------------------------------------------------------------
(* Theorems                                                                 *)

\* The invariant holds in every state of the view.
THEOREM ViewInductive == Spec => []ViewIInv
<1>1. Init => ViewIInv
  <2>1. SUFFICES ASSUME Init PROVE ViewIInv
    OBVIOUS
  <2>2. Typed
    BY <2>1, TypesStart
  <2>3. LosslessInv
    BY <2>1 DEF Init, LosslessInv
  <2>4. CalmInv
    BY <2>1 DEF Init, CalmInv, CalmStart
  <2> QED
    BY <2>2, <2>3, <2>4 DEF ViewIInv, Typed
<1>2. ViewIInv /\ [Next]_vars => ViewIInv'
  <2>1. SUFFICES ASSUME ViewIInv, [Next]_vars PROVE ViewIInv'
    OBVIOUS
  <2>2. Typed
    BY <2>1 DEF ViewIInv, Typed
  <2>3. Typed'
    BY <2>1, <2>2, TypesStep
  <2>4. (Lossless' <=> Lossless) /\ (Calm' <=> Calm) /\ (Calm => Lossless)
    <3>1. scene' = scene
      BY <2>1 DEF Next, RegistryStep, CreateSensor, AnnounceSensor, DeleteSensor, ExposeSensor,
                  ConnectSensor, AssignSensor, UpdateSensor, Change, DropLink, RestoreLink,
                  InitStep, EnsureGlobalSubscription, SubscribeFails, GetSensors, ListView,
                  ConfigureSensors, FillView, HandlerStep, OnAdded, OnDeleted, OnHidden, Release,
                  OnExposed, OnConnected, OnAssignment, FetchSensor, AddFromHandler,
                  CleanupProxy, TellPlugin, CleanupClosed,
                  FeedStep, HandleSensorEvent, ResyncStep, ResyncAllConsumed, ResyncNext,
                  GetSensorState, ApplyRefreshedState, Close, vars, regVars
    <3> QED
      BY <3>1 DEF Lossless, Calm, Env
  <2>5. Lossless => LosslessInv'
    BY <2>1, <2>2, LosslessStep DEF ViewIInv
  <2>6. Calm => CalmInv'
    BY <2>1, <2>2, <2>4, CalmStep DEF ViewIInv
  <2> QED
    BY <2>3, <2>4, <2>5, <2>6 DEF ViewIInv, Typed
<1> QED
  BY <1>1, <1>2, PTL DEF Spec

\* When nothing is on its way, a view that lost no event and saw no call fail holds every
\* visible sensor; when the plugin also started undisturbed, the view and what the plugin
\* was told are the registry's view, and every proxy has the registry's connection and
\* cameras (init, handleGlobalSensorEvent, newSensorProxy).
THEOREM ViewIsTheRegistrys == Spec => []ViewConverges
<1>1. ViewIInv => ViewConverges
  <2>1. SUFFICES ASSUME ViewIInv, Quiet, NEW x \in Sensors
                 PROVE  /\ Lossless /\ Visible(x) => consumed[x] # None
                        /\ Calm =>
                             /\ consumed[x] # None <=> Visible(x)
                             /\ x \in known <=> Visible(x)
                             /\ consumed[x] # None /\ registry[x] # None =>
                                  /\ consumed[x].connected = registry[x].connected
                                  /\ consumed[x].cameras = registry[x].cameras
    BY DEF ViewConverges, Lossless
  <2>2. initPc = "done" /\ ~closed /\ global = <<>> /\ handler.pc = "idle" /\ DOMAIN global = {}
    BY <2>1 DEF Quiet
  <2>3. Lossless /\ Visible(x) => consumed[x] # None
    BY <2>1, <2>2 DEF ViewIInv, LosslessInv, Awaited, Coming, Fetching
  <2>4. ASSUME Calm
        PROVE  /\ consumed[x] # None <=> Visible(x)
               /\ x \in known <=> Visible(x)
               /\ consumed[x] # None /\ registry[x] # None =>
                    /\ consumed[x].connected = registry[x].connected
                    /\ consumed[x].cameras = registry[x].cameras
    <3>1. (x \in Foreign => ShownInv(x)) /\ KnownInv(x) /\ \A f \in Facets : FacetInv(x, f)
      BY <2>1, <2>2, <2>4 DEF ViewIInv, CalmInv
    <3>2. consumed[x] # None <=> Visible(x)
      <4>1. CASE x \in Foreign
        BY <2>2, <3>1, <4>1 DEF ShownInv, Fetching
      <4>2. CASE x \notin Foreign
        BY <2>1, <4>2 DEF ViewIInv, ViewTypes, Visible
      <4> QED
        BY <4>1, <4>2
    <3>3. x \in known <=> Visible(x)
      BY <2>2, <3>1, <3>2 DEF KnownInv
    <3>4. ASSUME consumed[x] # None, registry[x] # None
          PROVE  /\ consumed[x].connected = registry[x].connected
                 /\ consumed[x].cameras = registry[x].cameras
      <4>1. consumed[x] \in Proxies /\ registry[x] \in Record
        BY <2>1, <3>4 DEF ViewIInv, ViewTypes
      <4>2. \A f \in Facets : Has(consumed[x], f) <=> Has(registry[x], f)
        BY <2>2, <3>1, <3>4 DEF FacetInv, Newest, Agrees
      <4>3. consumed[x].connected = TRUE <=> registry[x].connected = TRUE
        <5>1. <<"connected", None>> \in Facets
          BY DEF Facets
        <5>2. Has(consumed[x], <<"connected", None>>) <=> Has(registry[x], <<"connected", None>>)
          BY <4>2, <5>1
        <5> QED
          BY <5>2 DEF Has
      <4>4. \A c \in Cameras : c \in consumed[x].cameras <=> c \in registry[x].cameras
        <5>1. SUFFICES ASSUME NEW c \in Cameras
                       PROVE  c \in consumed[x].cameras <=> c \in registry[x].cameras
          OBVIOUS
        <5>2. <<"assigned", c>> \in Facets
          BY DEF Facets
        <5>3. Has(consumed[x], <<"assigned", c>>) <=> Has(registry[x], <<"assigned", c>>)
          BY <4>2, <5>2
        <5> QED
          BY <5>3 DEF Has
      <4>5. /\ consumed[x].connected \in BOOLEAN /\ registry[x].connected \in BOOLEAN
            /\ consumed[x].cameras \subseteq Cameras /\ registry[x].cameras \subseteq Cameras
        BY <4>1 DEF Proxies, Record
      <4>6. consumed[x].connected = registry[x].connected
        BY <4>3, <4>5
      <4>7. consumed[x].cameras = registry[x].cameras
        BY <4>4, <4>5
      <4> QED
        BY <4>6, <4>7
    <3> QED
      BY <3>2, <3>3, <3>4
  <2> QED
    BY <2>3, <2>4
<1> QED
  BY <1>1, ViewInductive, PTL

=============================================================================
