--------------------------- MODULE DetectionSensor ---------------------------
(***************************************************************************)
(* The sensors that report detections: motion, audio, object, face,        *)
(* license plate and classifier (src/go/sensor_motion.go and its           *)
(* siblings).  ReportDetections normalises the list, derives the other     *)
(* properties from it and writes them at once; what it reads of the sensor *)
(* before that (blocked, the names recognised so far) it reads without     *)
(* holding the lock.  Several goroutines may report, and the host writes   *)
(* back to the sensor.                                                     *)
(*                                                                         *)
(* A detection is the name a reporter gives it and whether it has a box.   *)
(* The sorted, duplicate-free list of names is a set.                      *)
(***************************************************************************)
EXTENDS SensorKinds

CONSTANTS
  Detectors,            \* the kinds of sensor to consider
  Reporters,            \* goroutines that call ReportDetections
  Lists,                \* the lists they report, sequences of detections
  MaxDetectionReports,  \* bound: calls of ReportDetections
  MaxBlocks             \* bound: times the host blocks or unblocks a motion sensor

VARIABLES
  detector,   \* the concrete sensor
  echo,       \* whether the host publishes what it is sent back to the sensor; never changed
  detected,   \* property detected
  detections, \* property detections
  names,      \* property labels, identities or plates
  namesType,  \* its Go type: the getter asserts a []string
  blocked,    \* property blocked
  reporter,   \* where each reporter is and what it has read
  echoes,     \* property:changed messages on their way to the sensor
  calls,      \* calls of ReportDetections so far
  blocks,     \* blocks and unblocks so far
  phase,      \* history: the names recognised since the last clear, in the order of the writes
  overlapped  \* history: a report began while another was under way

detectionState == <<detected, detections, names, namesType>>
detectionVars == <<detector, echo, detectionState, blocked, reporter, echoes, calls, blocks, phase,
                   overlapped>>

None == "none"  \* a detection without name, label or plate text
Fallback == "motion"

\* The names a detection may have: those the reporters give and the two above.
Labels == {None, Fallback} \cup UNION {{list[i].name : i \in DOMAIN list} : list \in Lists}
Detection == [name : Labels, boxed : BOOLEAN]

ASSUME ListsAssumption == \A list \in Lists : list \in Seq(Detection)
ASSUME DetectionBoundsAssumption == MaxDetectionReports \in Nat /\ MaxBlocks \in Nat

\* Detectors with a property of names, those that accumulate it over a phase of
\* detections, and those whose names the registry of coercions knows.
Named == {"object", "face", "licensePlate", "classifier"}
Accumulating == {"face", "licensePlate", "classifier"}
Coerced == {"object", "classifier"}

Resting == [pc |-> "idle"]

-----------------------------------------------------------------------------
(* ReportDetections                                                         *)

\* Every detection gets a box, and a report without detections gets one that
\* covers the frame.  Its label is a name for the object and classifier sensors.
normalizeReportedDetections(found, list) ==
  IF ~found THEN <<>>
  ELSE IF list # <<>> THEN [i \in DOMAIN list |-> [list[i] EXCEPT !.boxed = TRUE]]
  ELSE <<[name |-> IF detector \in {"object", "classifier"} THEN Fallback ELSE None, boxed |-> TRUE]>>

Recognized(list) == {list[i].name : i \in DOMAIN list} \ {None}

\* GetLabels, GetIdentities, GetPlates: nothing unless the value is a []string.
GetNames == IF namesType = "[]string" THEN names ELSE {}

\* A report that finds a motion sensor blocked returns; the others go on with the
\* names they read, which matter when there is something to add to them.
ReportDetections(t, found, list) ==
  LET out == normalizeReportedDetections(found, list)
  IN  /\ reporter[t] = Resting
      /\ calls < MaxDetectionReports
      /\ calls' = calls + 1
      /\ overlapped' = (overlapped \/ \E u \in Reporters : reporter[u] # Resting)
      /\ reporter' = IF detector = "motion" /\ blocked THEN reporter
                     ELSE [reporter EXCEPT ![t] = [pc |-> "write", found |-> found,
                                                   list |-> out, previous |-> GetNames]]
      /\ UNCHANGED <<detector, echo, detectionState, blocked, echoes, blocks, phase>>

\* A slip: the names survive the end of the phase.
NamesKept(r) ==
  CASE detector \notin Named -> names
    [] detector \in Accumulating -> r.previous \cup Recognized(r.list)
    [] OTHER -> Recognized(r.list)

\* The names a report writes: a list that was not found clears them, an
\* accumulating sensor adds to what it read and leaves them when nothing was
\* recognised, the object sensor replaces them.
NamesAfter(r) ==
  CASE detector \notin Named -> names
    [] detector = "object" -> Recognized(r.list)
    [] detector \in Accumulating -> IF ~r.found THEN {}
                                  ELSE IF Recognized(r.list) = {} THEN names
                                  ELSE r.previous \cup Recognized(r.list)

\* writeState: all properties at once; a value that is equal is left as it is, and
\* lists are equal in any order.  Where the host echoes, it gets the values in the
\* order they were written; SensorState has the other orders.
WriteDetections(t) ==
  LET r == reporter[t]
      new == NamesAfter(r)
      same == SameMultiset(detections, r.list)
      changed == (IF detected # r.found THEN <<[property |-> "detected", value |-> r.found]>> ELSE <<>>)
                   \o (IF ~same THEN <<[property |-> "detections", value |-> r.list]>> ELSE <<>>)
                   \o (IF names # new THEN <<[property |-> "names", value |-> new]>> ELSE <<>>)
  IN  /\ r.pc = "write"
      /\ detected' = r.found
      /\ detections' = IF same THEN detections ELSE r.list
      /\ names' = new
      /\ namesType' = IF names # new THEN "[]string" ELSE namesType
      /\ echoes' = IF echo THEN echoes \o changed ELSE echoes
      /\ phase' = IF r.found THEN phase \cup Recognized(r.list) ELSE {}
      /\ reporter' = [reporter EXCEPT ![t] = Resting]
      /\ UNCHANGED <<detector, echo, blocked, calls, blocks, overlapped>>

-----------------------------------------------------------------------------
(* The host                                                                 *)

\* The dwell logic blocks and unblocks a motion sensor.
Dwell ==
  /\ detector = "motion"
  /\ blocks < MaxBlocks
  /\ blocks' = blocks + 1
  /\ \E b \in BOOLEAN : echoes' = Append(echoes, [property |-> "blocked", value |-> b])
  /\ UNCHANGED <<detector, echo, detectionState, blocked, reporter, calls, phase, overlapped>>

\* onBackendPropertyChanged: one property at a time.  The names stay a []any
\* where the registry of coercions does not know them.
TakeEcho ==
  LET e == Head(echoes)
  IN  /\ echoes # <<>>
      /\ echoes' = Tail(echoes)
      /\ detected' = IF e.property = "detected" THEN e.value ELSE detected
      /\ detections' = IF e.property = "detections" THEN e.value ELSE detections
      /\ names' = IF e.property = "names" THEN e.value ELSE names
      /\ namesType' = IF e.property = "names" /\ e.value # names /\ detector \notin Coerced
                      THEN "[]any" ELSE namesType
      /\ blocked' = IF e.property = "blocked" THEN e.value ELSE blocked
      /\ UNCHANGED <<detector, echo, reporter, calls, blocks, phase, overlapped>>

-----------------------------------------------------------------------------

DetectionInit ==
  /\ detector \in Detectors
  /\ echo \in BOOLEAN
  /\ detected = FALSE
  /\ detections = <<>>
  /\ names = {}
  /\ namesType = "[]string"
  /\ blocked = FALSE
  /\ reporter = [t \in Reporters |-> Resting]
  /\ echoes = <<>>
  /\ calls = 0 /\ blocks = 0
  /\ phase = {}
  /\ overlapped = FALSE

DetectionNext ==
  \/ \E t \in Reporters, found \in BOOLEAN, list \in Lists : ReportDetections(t, found, list)
  \/ \E t \in Reporters : WriteDetections(t)
  \/ Dwell
  \/ TakeEcho

DetectionSpec == DetectionInit /\ [][DetectionNext]_detectionVars

-----------------------------------------------------------------------------
(* Properties                                                               *)

\* Flags, lists and names keep their types; a call is not begun or about to write.
DetectionTypeOK ==
  /\ detected \in BOOLEAN /\ blocked \in BOOLEAN
  /\ detections \in Seq(Detection)
  /\ names \subseteq Labels
  /\ namesType \in {"[]string", "[]any"}
  /\ \A t \in Reporters : reporter[t].pc \in {"idle", "write"}

\* Unless the host echoes, the flag says whether there are detections, each of
\* them has a box, and the labels of the object sensor are those of its list,
\* whoever calls at the same time (ReportDetections of every detection sensor).
\* When no reports overlap either, the getter returns the names recognised since the
\* last report without detections: none is lost, none is left from an earlier phase
\* (GetIdentities, GetPlates, GetLabels of the classifier).
PropertiesAgree ==
  ~echo =>
    /\ detected <=> detections # <<>>
    /\ \A i \in DOMAIN detections : detections[i].boxed
    /\ detector = "object" => names = Recognized(detections)
    /\ detector \in Accumulating /\ ~overlapped => GetNames = phase
=============================================================================
