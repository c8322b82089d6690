----------------------------- MODULE SensorKinds -----------------------------
(***************************************************************************)
(* The concrete sensors of src/go/sensor_*.go that keep plain properties:  *)
(* what they hold at construction, what their setters write, which writes  *)
(* of a consumer UpdateValue lets through, what their getters read, and    *)
(* the conversions a value goes through between the sensor and the host.   *)
(*                                                                         *)
(* A Go value is a pair of its dynamic type and its content, because the   *)
(* getters are type assertions.  A value on the wire is a pair of its      *)
(* msgpack family and its content: widths are lost there, and what arrives *)
(* has the width the decoder picks.  A number is its exact value; the      *)
(* digits a float64 drops beyond 2^53 are left out.                        *)
(***************************************************************************)
EXTENDS Integers, Sequences, FiniteSets, TLC

CONSTANTS
  MaxInt32, MaxInt64,  \* the largest int32 and int64
  Truncated,           \* what Go's conversion to int64 makes of each float64 that is none:
                       \* of a fraction its integer part, of one beyond int64 what the machine gives
  NaN, Inf             \* the float64 values that are no numbers; Inf is either infinity

Int32 == -(MaxInt32 + 1) .. MaxInt32
Int64 == -(MaxInt64 + 1) .. MaxInt64
UInt64 == 0 .. 2 * MaxInt64 + 1

ASSUME NumbersAssumption ==
  /\ MaxInt32 \in Nat /\ MaxInt64 \in Nat /\ MaxInt32 < MaxInt64
  /\ \A x \in DOMAIN Truncated : x \notin Int64 /\ Truncated[x] \in Int64
  /\ \A x \in {NaN, Inf} : x \notin Int /\ x \notin DOMAIN Truncated

Nil == <<"nil", 0>>
GoBool(b) == <<"bool", b>>
GoInt(n) == <<"int", n>>
GoFloat(n) == <<"float64", n>>

NumberTypes == {"int", "int8", "int16", "int32", "int64",
                "uint", "uint8", "uint16", "uint32", "uint64", "float32", "float64"}
ListTypes == {"[]string", "[]any"}
StructTypes == {"PTZPosition", "PTZDirection", "PTZRelativeMove"}

\* The families of values on the wire, and the number types that come out of a
\* loose decoder.
Families == {"nil", "bool", "number", "string", "list", "map"}
DecodedTypes == {"int64", "uint64", "float64"}

\* The numbers a wire value may hold.
IsNumber(x) == x \in Int64 \/ x \in DOMAIN Truncated \/ x \in {NaN, Inf}

IsWire(e) == e = <<e[1], e[2]>> /\ e[1] \in Families /\ (e[1] = "nil" => e = Nil)

-----------------------------------------------------------------------------
(* Values                                                                   *)

asNumber(v) == v[1] \in NumberTypes

\* What msgpack keeps of a value.
Encode(v) ==
  CASE asNumber(v) -> <<"number", v[2]>>
    [] v[1] \in ListTypes -> <<"list", v[2]>>
    [] v[1] \in StructTypes -> <<"map", v[2]>>
    [] OTHER -> v

CanHold(w, n) ==
  CASE w = "int64" -> n \in Int64
    [] w = "uint64" -> n \in UInt64
    [] OTHER -> TRUE

\* What comes out of a decoder that picks width w for the numbers w can hold, and
\* float64 for the others.
Decode(e, w) ==
  CASE e[1] = "number" -> <<IF CanHold(w, e[2]) THEN w ELSE "float64", e[2]>>
    [] e[1] = "list" -> <<"[]any", e[2]>>
    [] OTHER -> e

\* The same elements, each as often: every element of s has one of t to itself.
SameMultiset(s, t) ==
  /\ Len(s) = Len(t)
  /\ \E used \in [DOMAIN s -> DOMAIN t] :
        /\ \A i \in DOMAIN s : s[i] = t[used[i]]
        /\ \A i, j \in DOMAIN s : used[i] = used[j] => i = j

\* Numbers compare by value, NaN differs from itself, lists by element, everything
\* else by type and content.
isEqual(a, b, ignoreOrder) ==
  CASE a = Nil \/ b = Nil -> a = b
    [] asNumber(a) -> asNumber(b) /\ a[2] = b[2] /\ a[2] # NaN
    [] a[1] \in ListTypes -> /\ b[1] \in ListTypes
                             /\ IF ignoreOrder THEN SameMultiset(a[2], b[2]) ELSE a[2] = b[2]
    [] OTHER -> a = b

\* The conversions int(n) and int64(n).
Truncate(n) == IF n \in Int64 THEN n ELSE Truncated[n]

\* Whether toInt64 converts a value; Truncate is what it returns.
toInt64(v) ==
  /\ asNumber(v) /\ v[2] \notin {NaN, Inf}
  /\ v[1] = "uint64" => v[2] \in Int64

\* A slip: unsigned and floating numbers are passed over.
coerceIntSigned(raw) == IF raw[1] = "int64" /\ raw[2] \in Int32 THEN GoInt(raw[2]) ELSE raw

\* An integer outside int32, NaN and an infinity stay as they were decoded.
coerceInt(raw) ==
  CASE raw[1] \in {"int64", "uint64"} /\ raw[2] \in Int32 -> GoInt(raw[2])
    [] raw[1] = "float64" /\ raw[2] \notin {NaN, Inf} -> GoInt(Truncate(raw[2]))
    [] OTHER -> raw

coerceStringSlice(raw) == IF raw[1] \in ListTypes THEN <<"[]string", raw[2]>> ELSE raw

coerceViaRoundTrip(raw, type) == IF raw[1] = "map" THEN <<type, raw[2]>> ELSE raw

\* propertyTypeRegistry.  A property that is not here keeps what was decoded; so
\* does one whose coercion only confirms its type (bool, string).
Registry ==
  [light          |-> [brightness |-> "int"],
   siren          |-> [volume |-> "int"],
   battery        |-> [level |-> "int"],
   securitySystem |-> [currentState |-> "int", targetState |-> "int"],
   ptz            |-> [position |-> "PTZPosition", presets |-> "[]string", velocity |-> "PTZDirection"]]

coercePropertyValue(type, property, raw) ==
  IF raw = Nil \/ type \notin DOMAIN Registry THEN raw
  ELSE IF property \notin DOMAIN Registry[type] THEN raw
  ELSE LET fn == Registry[type][property]
       IN  CASE fn = "int" -> coerceInt(raw)
             [] fn = "[]string" -> coerceStringSlice(raw)
             [] OTHER -> coerceViaRoundTrip(raw, fn)

Clamp(n, low, high) == IF n < low THEN low ELSE IF n > high THEN high ELSE n

-----------------------------------------------------------------------------
(* Kinds: type, the properties at construction, the writes of the setters,  *)
(* the route UpdateValue takes for a property, and what a getter asserts    *)
(* and falls back to.                                                       *)

\* Numbers the setters are called with: one below, one inside the range.
Levels == {-1, 40}

LightControl ==
  [type   |-> "light",
   init   |-> [on |-> GoBool(FALSE), brightness |-> GoInt(100)],
   writes |-> {[on |-> GoBool(b)] : b \in BOOLEAN}
                \cup {[brightness |-> GoInt(Clamp(n, 0, 100))] : n \in Levels},
   route  |-> [on |-> "switch", brightness |-> "level"],
   reads  |-> [on |-> GoBool(FALSE), brightness |-> GoInt(0)]]

SirenControl ==
  [type   |-> "siren",
   init   |-> [active |-> GoBool(FALSE), volume |-> GoInt(100)],
   writes |-> {[active |-> GoBool(b)] : b \in BOOLEAN}
                \cup {[volume |-> GoInt(Clamp(n, 0, 100))] : n \in Levels},
   route  |-> [active |-> "switch", volume |-> "level"],
   reads  |-> [active |-> GoBool(FALSE), volume |-> GoInt(0)]]

SwitchControl ==
  [type   |-> "switch",
   init   |-> [on |-> GoBool(FALSE)],
   writes |-> {[on |-> GoBool(b)] : b \in BOOLEAN},
   route  |-> [on |-> "switch"],
   reads  |-> [on |-> GoBool(FALSE)]]

\* A target and a current state: SetTargetState writes both, SetCurrentState one.
Targets(states) == {[targetState |-> GoInt(n), currentState |-> GoInt(n)] : n \in states}
Currents(states) == {[currentState |-> GoInt(n)] : n \in states}

\* 0 secured, 1 unsecured, 2 unknown
LockControl ==
  [type   |-> "lock",
   init   |-> [currentState |-> GoInt(0), targetState |-> GoInt(0)],
   writes |-> Targets({0, 1}) \cup Currents({1, 2}),
   route  |-> [targetState |-> "target"],
   reads  |-> [currentState |-> GoInt(0), targetState |-> GoInt(0)]]

\* 0 open, 1 closed, 2 opening, 3 closing, 4 stopped
GarageControl ==
  [type   |-> "garage",
   init   |-> [currentState |-> GoInt(1), targetState |-> GoInt(1), obstructionDetected |-> GoBool(FALSE)],
   writes |-> Targets({0, 1}) \cup Currents({0, 3}) \cup {[obstructionDetected |-> GoBool(b)] : b \in BOOLEAN},
   route  |-> [targetState |-> "target"],
   reads  |-> [currentState |-> GoInt(1), targetState |-> GoInt(1), obstructionDetected |-> GoBool(FALSE)]]

\* 0 to 2 armed, 3 disarmed, 4 alarm triggered, which is published as current only
SecuritySystem ==
  [type   |-> "securitySystem",
   init   |-> [currentState |-> GoInt(3), targetState |-> GoInt(3)],
   writes |-> Targets({1, 3}) \cup Currents({1, 4}),
   route  |-> [targetState |-> "target"],
   reads  |-> [currentState |-> GoInt(3), targetState |-> GoInt(3)]]

BatteryInfo ==
  [type   |-> "battery",
   init   |-> [level |-> GoInt(100), charging |-> <<"string", "NOT_CHARGING">>, low |-> GoBool(FALSE)],
   writes |-> {[level |-> GoInt(Clamp(n, 0, 100))] : n \in Levels}
                \cup {[charging |-> <<"string", "CHARGING">>], [low |-> GoBool(TRUE)]},
   route  |-> <<>>,
   reads  |-> [level |-> GoInt(0), charging |-> <<"string", "NOT_CHARGING">>, low |-> GoBool(FALSE)]]

\* Positions, directions and moves are names; "origin" is the home position.
NoPreset == <<"string", "">>

PTZControl ==
  [type   |-> "ptz",
   init   |-> [position |-> <<"PTZPosition", "origin">>, moving |-> GoBool(FALSE), presets |-> <<"[]string", <<>>>>,
               velocity |-> Nil, targetPreset |-> Nil, relativeMove |-> Nil],
   writes |-> {[position |-> <<"PTZPosition", x>>] : x \in {"origin", "away"}}
                \cup {[velocity |-> <<"PTZDirection", "left">>], [relativeMove |-> <<"PTZRelativeMove", "step">>],
                      [targetPreset |-> <<"string", "door">>], [presets |-> <<"[]string", <<"door", "yard">>>>],
                      [moving |-> GoBool(TRUE)]},
   route  |-> [position |-> "PTZPosition", velocity |-> "PTZDirection", targetPreset |-> "string",
               relativeMove |-> "PTZRelativeMove", home |-> "home"],
   reads  |-> [position |-> <<"PTZPosition", "origin">>, moving |-> GoBool(FALSE), presets |-> <<"[]string", <<>>>>,
               velocity |-> <<"PTZDirection", "still">>, targetPreset |-> NoPreset]]

\* A flag that the plugin reports and consumers only read.
Detector(type) ==
  [type   |-> type,
   init   |-> [detected |-> GoBool(FALSE)],
   writes |-> {[detected |-> GoBool(b)] : b \in BOOLEAN},
   route  |-> <<>>,
   reads  |-> [detected |-> GoBool(FALSE)]]

ContactSensor == Detector("contact")
SmokeSensor == Detector("smoke")
LeakSensor == Detector("leak")
GasSensor == Detector("gas")
CarbonMonoxideSensor == Detector("carbonMonoxide")
HeatSensor == Detector("heat")
ColdSensor == Detector("cold")
VibrationSensor == Detector("vibration")
TamperSensor == Detector("tamper")
ProblemSensor == Detector("problem")
PowerSensor == Detector("power")
OccupancySensor == Detector("occupancy")

\* A measured number in a range.
Gauge(type, start, low, high) ==
  [type   |-> type,
   init   |-> [current |-> GoFloat(start)],
   writes |-> {[current |-> GoFloat(Clamp(n, low, high))] : n \in {low - 1, start + 1}},
   route  |-> <<>>,
   reads  |-> [current |-> GoFloat(0)]]

TemperatureInfo == Gauge("temperature", 20, -270, 100)
HumidityInfo == Gauge("humidity", 50, 0, 100)
IlluminanceInfo == Gauge("illuminance", 20, 0, 200000)
CarbonDioxideInfo == Gauge("carbonDioxide", 20, 0, 40000)

\* The kinds whose numbers the registry of coercions knows, and the others.
RegisteredKinds ==
  {LightControl, SirenControl, SwitchControl, SecuritySystem, BatteryInfo, PTZControl,
   ContactSensor, SmokeSensor, LeakSensor, GasSensor, CarbonMonoxideSensor, HeatSensor, ColdSensor,
   VibrationSensor, TamperSensor, ProblemSensor, PowerSensor, OccupancySensor}
OtherKinds ==
  {LockControl, GarageControl, TemperatureInfo, HumidityInfo, IlluminanceInfo, CarbonDioxideInfo}

-----------------------------------------------------------------------------

Truthy(raw) == IF raw[1] = "bool" THEN raw[2] ELSE toInt64(raw) /\ Truncate(raw[2]) # 0

\* A write of one property.
One(property, v) == [p \in {property} |-> v]

\* UpdateValue: the setter's write that a consumer's write becomes, the empty
\* write when it is ignored.
UpdateValue(kind, property, raw) ==
  IF property \notin DOMAIN kind.route THEN <<>>
  ELSE LET route == kind.route[property]
       IN  CASE route = "switch" -> One(property, GoBool(Truthy(raw)))
             [] route = "level" /\ toInt64(raw) -> One(property, GoInt(Clamp(Truncate(raw[2]), 0, 100)))
             [] route = "target" /\ toInt64(raw) ->
                  [targetState |-> GoInt(Truncate(raw[2])), currentState |-> GoInt(Truncate(raw[2]))]
             [] route = "string" /\ raw[1] = "string" -> One(property, raw)
             [] route \in StructTypes /\ raw[1] = "map" -> One(property, <<route, raw[2]>>)
             [] route = "home" -> [position |-> <<"PTZPosition", "origin">>]
             [] OTHER -> <<>>

\* A getter: a type assertion with a fallback.
Read(kind, property, value) ==
  IF value[1] = kind.reads[property][1] THEN value ELSE kind.reads[property]
=============================================================================
