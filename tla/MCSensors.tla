------------------------------ MODULE MCSensors ------------------------------
(* An instance of SensorState, Doorbell and DetectionSensor for TLC.  A      *)
(* sensor is a plain one, a doorbell or one that reports detections; the     *)
(* state of the other two stays as it is at the start.                       *)
EXTENDS SensorState, Doorbell, DetectionSensor

CONSTANTS t1, t2, half

VARIABLE sensor  \* which of the three the sensor is, never changed

\* A fraction, and a number beyond int64, of which this machine makes the smallest.
Beyond == MaxInt64 + 1
MCTruncated == (half :> 0) @@ (Beyond :> -(MaxInt64 + 1))

\* One of each family, and for each a value some property has not at the start.
OneOfEach ==
  {<<"bool", TRUE>>, <<"number", 1>>, <<"string", "door">>, <<"map", "away">>, <<"list", <<"yard">>>>}

\* A fraction, a number beyond int32, one beyond int64, and NaN.
OddNumbers == {<<"number", n>> : n \in {half, MaxInt32 + 1, Beyond, NaN}}

\* Every kind, written by one goroutine and in every width; numbers at the edges of
\* the types; the kinds that have something to race for, written by two at a time; a
\* switch that is written while it is bound, one that reports, and two whose calls
\* of the host fail.
MCScenes ==
  {[kinds |-> RegisteredKinds \cup OtherKinds, threads |-> {t1}, inputs |-> OneOfEach, widths |-> DecodedTypes,
    early |-> FALSE, fails |-> FALSE, maxWrites |-> 2, maxReports |-> 0, maxHostWrites |-> 1],
   [kinds |-> {SirenControl, SecuritySystem, TemperatureInfo}, threads |-> {t1}, inputs |-> OddNumbers,
    widths |-> DecodedTypes, early |-> FALSE, fails |-> FALSE, maxWrites |-> 1, maxReports |-> 0, maxHostWrites |-> 2],
   [kinds |-> {LightControl, PTZControl, SecuritySystem} \cup OtherKinds, threads |-> {t1, t2}, inputs |-> OneOfEach,
    widths |-> {"int64"}, early |-> FALSE, fails |-> FALSE, maxWrites |-> 3, maxReports |-> 0, maxHostWrites |-> 1],
   [kinds |-> {SwitchControl}, threads |-> {t1, t2}, inputs |-> OneOfEach, widths |-> {"int64"},
    early |-> TRUE, fails |-> FALSE, maxWrites |-> 2, maxReports |-> 1, maxHostWrites |-> 1],
   [kinds |-> {SwitchControl}, threads |-> {t1, t2}, inputs |-> OneOfEach, widths |-> {"int64"},
    early |-> FALSE, fails |-> FALSE, maxWrites |-> 1, maxReports |-> 3, maxHostWrites |-> 0],
   [kinds |-> {SwitchControl}, threads |-> {t1, t2}, inputs |-> OneOfEach, widths |-> {"int64"},
    early |-> FALSE, fails |-> TRUE, maxWrites |-> 2, maxReports |-> 0, maxHostWrites |-> 1],
   [kinds |-> {SwitchControl}, threads |-> {t1, t2}, inputs |-> OneOfEach, widths |-> {"int64"},
    early |-> FALSE, fails |-> TRUE, maxWrites |-> 0, maxReports |-> 3, maxHostWrites |-> 0]}

MCDetectors == {"motion", "audio"} \cup Named

Unboxed(n) == [name |-> n, boxed |-> FALSE]

\* No detection, one without a name, one with, and two.
MCLists ==
  {<<>>, <<Unboxed(None)>>, <<Unboxed("alice")>>,
   <<[name |-> "alice", boxed |-> TRUE], Unboxed("bob")>>, <<Unboxed("bob"), Unboxed("alice")>>}

MCInit ==
  /\ sensor \in {"plain", "doorbell", "detection"}
  /\ Init
  /\ BellInit
  /\ DetectionInit
  /\ sensor = "plain" \/ (scene.maxWrites = 1 /\ kind = SwitchControl)
  /\ sensor = "doorbell" \/ calm
  /\ sensor = "detection" \/ (detector = "motion" /\ ~echo)

MCNext ==
  \/ sensor = "plain" /\ Next /\ UNCHANGED <<sensor, bellVars, detectionVars>>
  \/ sensor = "doorbell" /\ BellNext /\ UNCHANGED <<sensor, vars, detectionVars>>
  \/ sensor = "detection" /\ DetectionNext /\ UNCHANGED <<sensor, vars, bellVars>>

MCSpec ==
  /\ MCInit
  /\ [][MCNext]_<<sensor, vars, bellVars, detectionVars>>
  /\ Fairness
  /\ BellFairness

\* Sensor and host stop echoing each other's values, and a ring ends: whatever is
\* written, by whom, and whichever reset is replaced, the sensors come to rest.
SensorsSettle == Settles /\ RingEnds
=============================================================================
