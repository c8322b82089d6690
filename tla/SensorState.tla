----------------------------- MODULE SensorState -----------------------------
(***************************************************************************)
(* The state of one owned sensor and the host's copy of it                 *)
(* (src/go/sensor_base.go, with the closures bindOwned of                  *)
(* src/go/manager_sensor.go installs).                                     *)
(*                                                                         *)
(* A write changes the sensor under its lock, then calls the host outside  *)
(* of it.  The host publishes every value it changes, and the sensor's own *)
(* subscription writes that value back.  Goroutines of the plugin, calls   *)
(* of consumers and writes of the host all run at once.                    *)
(***************************************************************************)
EXTENDS SensorKinds

CONSTANTS
  Threads,  \* goroutines that write: the plugin's, and those of rpc calls
  Scenes    \* sensors and who writes them, see ScenesAssumption

VARIABLES
  scene,      \* who writes the sensor in this behaviour, never changed
  kind,       \* the concrete sensor
  properties, \* s.properties
  reported,   \* s.sourceState and s.capabilities
  stage,      \* how far binding is
  snapshot,   \* what ToJSON collected for registerSensor
  thread,     \* what each goroutine has still to tell the host
  host,       \* the registry's copy of the properties
  hostReport, \* the registry's copy of source state and capabilities
  events,     \* property:changed messages on their way to the sensor
  writes,     \* writes so far
  reports,    \* reports so far
  hostWrites, \* writes of the host so far
  heard,      \* the sensor is subscribed to its events
  crossed,    \* history: two reports were under way at once
  lostWrites, \* history: properties whose value a failed call took along
  lostReports \* history: facets whose value a failed call took along

counters == <<writes, reports, hostWrites>>
which == <<scene, kind>>
binding == <<stage, snapshot, heard>>
lost == <<lostWrites, lostReports>>
vars == <<which, properties, reported, binding, thread, host, hostReport,
          events, counters, crossed, lost>>

\* A scene is the kinds of sensor it is about, the goroutines that write, the wire
\* values consumers and the host write, the number types the decoder may produce,
\* whether there are writes before the sensor is bound, whether calls of the host and
\* Subscribe may fail, and bounds for the writes of properties, for the calls of
\* SetSourceState and SetCapabilities and for the host's own writes.
ASSUME ScenesAssumption ==
  \A s \in Scenes :
     /\ s.threads \subseteq Threads
     /\ s.kinds \subseteq RegisteredKinds \cup OtherKinds
     /\ \A e \in s.inputs : IsWire(e) /\ (e[1] = "number" => IsNumber(e[2]))
     /\ s.widths \subseteq DecodedTypes /\ s.widths # {}
     /\ s.early \in BOOLEAN /\ s.fails \in BOOLEAN
     /\ s.maxWrites \in Nat /\ s.maxReports \in Nat /\ s.maxHostWrites \in Nat

Widths == scene.widths
Inputs == scene.inputs

Properties == DOMAIN kind.init
Facets == {"source", "capabilities"}
Stages == <<"new", "snapshot", "registered", "wired", "sourced", "bound">>
Idle == [pc |-> "idle"]

Reached(s) == \E i, j \in DOMAIN Stages : i >= j /\ Stages[i] = stage /\ Stages[j] = s

\* What the host has once it has stored the properties.
HostCopy(props) == [p \in DOMAIN props |-> Encode(props[p])]

-----------------------------------------------------------------------------
(* Binding                                                                  *)

TakeSnapshot ==
  /\ stage = "new"
  /\ stage' = "snapshot"
  /\ snapshot' = [properties |-> HostCopy(properties), reported |-> reported]
  /\ UNCHANGED <<which, properties, reported, thread, host, hostReport, events, counters, heard, crossed, lost>>

RegisterSensor ==
  /\ stage = "snapshot"
  /\ stage' = "registered"
  /\ host' = snapshot.properties
  /\ hostReport' = snapshot.reported
  /\ UNCHANGED <<which, properties, reported, snapshot, thread, events, counters, heard, crossed, lost>>

\* A sensor whose Subscribe failed is bound all the same.
Wire ==
  /\ \/ stage = "registered" /\ stage' = "wired" /\ heard' = heard   \* initUpdateFn
     \/ stage = "wired" /\ stage' = "sourced" /\ heard' = heard      \* initCapabilitiesUpdateFn, initSourceUpdateFn
     \/ stage = "sourced" /\ stage' = "bound" /\ heard' \in {TRUE, ~scene.fails}  \* Subscribe
  /\ UNCHANGED <<which, properties, reported, snapshot, thread, host, hostReport, events, counters, crossed, lost>>

-----------------------------------------------------------------------------
(* Writes                                                                   *)

\* The values that differ from what the sensor holds.
Delta(partial) ==
  [p \in {q \in DOMAIN partial : partial[q] # Nil /\ ~isEqual(properties[q], partial[q], TRUE)} |-> partial[p]]

writeState(t, partial) ==
  LET delta == Delta(partial)
  IN  /\ properties' = [p \in Properties |-> IF p \in DOMAIN delta THEN delta[p] ELSE properties[p]]
      /\ thread' = IF delta = <<>> \/ ~Reached("wired") THEN thread
                   ELSE [thread EXCEPT ![t] = [pc |-> "update", delta |-> HostCopy(delta)]]
      /\ lostWrites' = lostWrites \ DOMAIN delta

MayWrite(t) ==
  /\ thread[t] = Idle
  /\ writes < scene.maxWrites
  /\ writes' = writes + 1
  /\ scene.early \/ Reached("bound")

\* A setter of the concrete sensor.
Set(t) ==
  /\ MayWrite(t)
  /\ \E partial \in kind.writes : writeState(t, partial)
  /\ UNCHANGED <<which, reported, binding, host, hostReport, events, reports, hostWrites, crossed, lostReports>>

\* A consumer's write, which arrives as a call of UpdateValue.
UpdateByConsumer(t) ==
  /\ Reached("registered")
  /\ MayWrite(t)
  /\ \E p \in DOMAIN kind.route, e \in Inputs, w \in Widths :
        writeState(t, UpdateValue(kind, p, Decode(e, w)))
  /\ UNCHANGED <<which, reported, binding, host, hostReport, events, reports, hostWrites, crossed, lostReports>>

\* The registry stores a value and publishes it when it is a new one.
Store(p, e) ==
  /\ host' = [host EXCEPT ![p] = e]
  /\ IF host[p] # e /\ heard
     THEN /\ events' = Append(events, [property |-> p, value |-> e])
          /\ lostWrites' = lostWrites \ {p}
     ELSE UNCHANGED <<events, lostWrites>>

\* updateFn: the registry takes the values of one call in any order.
UpdateHost(t) ==
  /\ thread[t].pc = "update"
  /\ \E p \in DOMAIN thread[t].delta :
        LET rest == [q \in DOMAIN thread[t].delta \ {p} |-> thread[t].delta[q]]
        IN  /\ Store(p, thread[t].delta[p])
            /\ thread' = [thread EXCEPT ![t] = IF rest = <<>> THEN Idle ELSE [@ EXCEPT !.delta = rest]]
  /\ UNCHANGED <<which, properties, reported, binding, hostReport, counters, crossed, lostReports>>

\* The call fails before the registry took the rest of the values; the error is
\* discarded.
FailUpdate(t) ==
  /\ scene.fails
  /\ thread[t].pc = "update"
  /\ thread' = [thread EXCEPT ![t] = Idle]
  /\ lostWrites' = lostWrites \cup DOMAIN thread[t].delta
  /\ UNCHANGED <<which, properties, reported, binding, host, hostReport, events, counters, crossed, lostReports>>

\* A write the host makes on its own.
WriteByHost ==
  /\ Reached("registered")
  /\ scene.early \/ Reached("bound")
  /\ hostWrites < scene.maxHostWrites
  /\ hostWrites' = hostWrites + 1
  /\ \E p \in Properties, e \in Inputs : e[1] = Encode(kind.init[p])[1] /\ Store(p, e)
  /\ UNCHANGED <<which, properties, reported, binding, thread, hostReport, writes, reports, crossed, lostReports>>

\* Slips: an event that meets a write in flight is taken for its echo and
\* dropped; an event is written like any other value and sent back.
TakeEventUnlessBusy ==
  /\ events # <<>>
  /\ \E w \in Widths :
        LET p == Head(events).property
            value == coercePropertyValue(kind.type, p, Decode(Head(events).value, w))
        IN  properties' = IF \E t \in Threads : thread[t] # Idle THEN properties
                          ELSE [properties EXCEPT ![p] = value]
  /\ events' = Tail(events)
  /\ UNCHANGED <<which, reported, binding, thread, host, hostReport, counters, crossed, lost>>

TakeEventAndSend ==
  /\ events # <<>>
  /\ LET p == Head(events).property
         e == Head(events).value
         new == Encode(properties[p]) # e
     IN  /\ properties' = [properties EXCEPT ![p] = Decode(e, "int64")]
         /\ host' = IF new THEN [host EXCEPT ![p] = e] ELSE host
         /\ events' = IF new /\ host[p] # e THEN Append(Tail(events), Head(events)) ELSE Tail(events)
  /\ UNCHANGED <<which, reported, binding, thread, hostReport, counters, crossed, lost>>

\* setPropertyWithTimestamp and onBackendPropertyChanged: the sensor takes the
\* host's value and does not tell the host.
TakeEvent ==
  /\ events # <<>>
  /\ \E w \in Widths :
        LET p == Head(events).property
            value == coercePropertyValue(kind.type, p, Decode(Head(events).value, w))
        IN  properties' = IF isEqual(properties[p], value, FALSE) THEN properties
                          ELSE [properties EXCEPT ![p] = value]
  /\ events' = Tail(events)
  /\ UNCHANGED <<which, reported, binding, thread, host, hostReport, counters, crossed, lost>>

-----------------------------------------------------------------------------
(* SetSourceState, SetAddress and SetCapabilities                           *)

\* Capabilities are always sent, the source state only when it changed.
Report(t, f, v) ==
  /\ thread[t] = Idle
  /\ reports < scene.maxReports
  /\ scene.early \/ Reached("bound")
  /\ reports' = reports + 1
  /\ reported' = [reported EXCEPT ![f] = v]
  /\ crossed' = (crossed \/ \E u \in Threads : thread[u].pc = "report")
  /\ IF (f = "source" /\ reported[f] = v) \/ ~Reached("sourced")
     THEN UNCHANGED <<thread, lostReports>>
     ELSE /\ thread' = [thread EXCEPT ![t] = [pc |-> "report", facet |-> f, value |-> v]]
          /\ lostReports' = lostReports \ {f}
  /\ UNCHANGED <<which, properties, binding, host, hostReport, events, writes, hostWrites, lostWrites>>

ReportToHost(t) ==
  /\ thread[t].pc = "report"
  /\ hostReport' = [hostReport EXCEPT ![thread[t].facet] = thread[t].value]
  /\ thread' = [thread EXCEPT ![t] = Idle]
  /\ UNCHANGED <<which, properties, reported, binding, host, events, counters, crossed, lost>>

FailReport(t) ==
  /\ scene.fails
  /\ thread[t].pc = "report"
  /\ thread' = [thread EXCEPT ![t] = Idle]
  /\ lostReports' = lostReports \cup {thread[t].facet}
  /\ UNCHANGED <<which, properties, reported, binding, host, hostReport, events, counters, crossed, lostWrites>>

-----------------------------------------------------------------------------

Init ==
  /\ scene \in Scenes
  /\ kind \in scene.kinds
  /\ properties = kind.init
  /\ reported = [f \in Facets |-> 0]
  /\ stage = "new"
  /\ snapshot = <<>>
  /\ thread = [t \in Threads |-> Idle]
  /\ host = HostCopy(kind.init)
  /\ hostReport = [f \in Facets |-> 0]
  /\ events = <<>>
  /\ writes = 0 /\ reports = 0 /\ hostWrites = 0
  /\ heard = FALSE /\ crossed = FALSE
  /\ lostWrites = {} /\ lostReports = {}

Next ==
  \/ TakeSnapshot
  \/ RegisterSensor
  \/ Wire
  \/ \E t \in scene.threads : Set(t)
  \/ \E t \in scene.threads : UpdateByConsumer(t)
  \/ \E t \in Threads : UpdateHost(t) \/ FailUpdate(t)
  \/ \E t \in scene.threads, f \in Facets, v \in 1 .. 2 : Report(t, f, v)
  \/ \E t \in Threads : ReportToHost(t) \/ FailReport(t)
  \/ WriteByHost
  \/ TakeEvent

Spec == Init /\ [][Next]_vars

\* Goroutines that have been scheduled to call the host, and the dispatcher of
\* the subscription, run eventually.
Fairness ==
  /\ WF_vars(TakeEvent)
  /\ \A t \in Threads : WF_vars(UpdateHost(t) \/ ReportToHost(t))

FairSpec == Spec /\ Fairness

-----------------------------------------------------------------------------
(* Properties                                                               *)

Quiet == events = <<>> /\ \A t \in Threads : thread[t] = Idle

\* The sensor's properties keep the kind's names, and what the host holds is
\* free of Go types.
TypeOK ==
  /\ DOMAIN properties = DOMAIN kind.init
  /\ DOMAIN host = DOMAIN kind.init
  /\ \A p \in Properties : host[p][1] \in Families
  /\ \A i \in DOMAIN events : events[i].property \in Properties
  /\ \A t \in Threads : thread[t].pc \in {"idle", "update", "report"}
  /\ \E i \in DOMAIN Stages : Stages[i] = stage

\* The sensor holds the host's value, or what its coercion makes of it.
Agrees(p) ==
  Encode(properties[p]) \in
    {host[p]} \cup {Encode(coercePropertyValue(kind.type, p, Decode(host[p], w))) : w \in Widths}

\* Once every call and every event of a sensor that is written after it was
\* bound is through, the sensor and the host hold the same values, in whatever
\* order the writes of several goroutines, of consumers and of the host reached
\* the registry (sensor_base.go writeState, setPropertyWithTimestamp).  The host then
\* shows the source state and the capabilities the plugin reported last, provided no
\* two reports crossed on their way (SetSourceState, SetCapabilities).  The code
\* ignores failed calls: a sensor whose Subscribe failed is excepted, and so is a
\* property or a facet whose value a failed call took along, until it is written
\* again or the host changes it (manager_sensor.go 435-443 and 467-470).
Converges ==
  Quiet /\ stage = "bound" /\ ~scene.early =>
    /\ heard => \A p \in Properties \ lostWrites : Agrees(p)
    /\ ~crossed => \A f \in Facets \ lostReports : hostReport[f] = reported[f]

\* A number the registry of coercions does not know keeps the decoder's width.
Coercible(p) ==
  asNumber(kind.reads[p]) => kind.type \in DOMAIN Registry /\ p \in DOMAIN Registry[kind.type]

\* A typed getter returns the value the sensor holds, never its fallback, after
\* any mix of writes that crossed the wire.  The numbers of locks, garage doors
\* and gauges, which the registry leaves out, are excepted, and so are numbers
\* outside int32, NaN and the infinities, which coerceInt leaves in the decoder's
\* type (sensor_coerce.go and the getters of the concrete sensors).
ReadsTrue ==
  \A p \in DOMAIN kind.reads :
     /\ properties[p] # Nil /\ Coercible(p)
     /\ asNumber(properties[p]) => properties[p][2] \in Int32
     => Encode(Read(kind, p, properties[p])) = Encode(properties[p])

\* The sensor and the host stop sending each other values: what the host
\* publishes is taken without being sent back (onBackendPropertyChanged).
Settles == []<>Quiet
=============================================================================
