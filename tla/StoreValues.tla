----------------------------- MODULE StoreValues ----------------------------
(***************************************************************************)
(* The values a storage deals with, as functions: which may be stored      *)
(* (validateStoreValue), how their numbers are normalized, when two are    *)
(* the same, how a new configuration is merged into an old one and how the *)
(* defaults of a schema are made (src/go/storage.go, normalizeStoreValue   *)
(* in store_file.go).                                                      *)
(*                                                                         *)
(* A value is a record: its Go type, its number (in halves, so that 3 is   *)
(* 1.5) and its children, by key; the children of a list have its indices  *)
(* for keys.  The limits of the number types are scaled down, in order.    *)
(***************************************************************************)
EXTENDS Integers, Sequences, FiniteSets

CONSTANTS
  MaxSafeStoreInt,     \* stands for 2^53 - 1
  MaxInt64,            \* stands for 2^63 - 1
  MaxStoreValueDepth,  \* stands for 64
  Samples,             \* values to look at, in pairs
  SampleSchemas        \* schemas to look at

VARIABLES
  left, right,  \* the two values looked at
  field         \* the schema looked at

valueVars == <<left, right, field>>

ASSUME LimitsAssumption ==
  MaxSafeStoreInt \in Nat /\ MaxInt64 \in Nat /\ MaxSafeStoreInt + 1 < MaxInt64

NaN == 1000
Infinity == 1001

Signed == {"int", "int8", "int64"}
Unsigned == {"uint", "uint8", "uint64"}
Floats == {"float32", "float64"}
Numeric == Signed \cup Unsigned \cup Floats

NoKids == [k \in {} |-> 0]
Scalar(t, n) == [t |-> t, n |-> n, kids |-> NoKids]
NilValue == Scalar("nil", 0)
MapOf(kids) == [t |-> "map", n |-> 0, kids |-> kids]
ListOf(kids) == [t |-> "list", n |-> 0, kids |-> kids]
Keys(v) == DOMAIN v.kids

RECURSIVE Storable(_, _), Normalize(_), EqualLoose(_, _), MergeValues(_, _),
          GenerateDefault(_), Decoded(_), Meaning(_), Look(_, _)

-----------------------------------------------------------------------------
(* validateStoreValue                                                       *)

\* checkStoreFloat, checkStoreInt and checkStoreUint
CheckStoreNumber(v) ==
  /\ v.n \notin {NaN, Infinity}
  /\ v.n % 2 = 0 => v.n \in -2 * MaxSafeStoreInt .. 2 * MaxSafeStoreInt

\* walkStoreValue; the types that are narrower than 53 bits are not looked at.
Storable(v, depth) ==
  /\ depth <= MaxStoreValueDepth
  /\ v.t \notin {"bytes", "other"}
  /\ v.t \in Floats \cup {"int", "int64", "uint", "uint64"} => CheckStoreNumber(v)
  /\ \A k \in Keys(v) : Storable(v.kids[k], depth + 1)

-----------------------------------------------------------------------------
(* normalizeStoreValue, deepEqualLoose                                      *)

\* A slip: the width of an unsigned number is kept.
NormalizeUnsigned(n) == Scalar("uint64", n)

\* normalizeStoreUint
NormalizeStoreUint(n) == Scalar(IF n > 2 * MaxInt64 THEN "uint64" ELSE "int64", n)

Normalize(v) ==
  CASE v.t \in {"map", "list"} -> [v EXCEPT !.kids = [k \in Keys(v) |-> Normalize(v.kids[k])]]
    [] v.t \in Signed -> Scalar("int64", v.n)
    [] v.t \in Unsigned -> NormalizeStoreUint(v.n)
    [] v.t \in Floats -> Scalar("float64", v.n)
    [] OTHER -> v

\* A float64 holds every other integer only from 2^53 on.
ToFloat64(v) ==
  LET last == 2 * (MaxSafeStoreInt + 1)
  IN  IF v.n > last /\ v.n \notin {NaN, Infinity} THEN v.n - ((v.n - last) % 4) ELSE v.n

EqualLoose(a, b) ==
  IF a.t \in Numeric \/ b.t \in Numeric
  THEN {a.t, b.t} \subseteq Numeric /\ ToFloat64(a) = ToFloat64(b) /\ a.n # NaN
  ELSE /\ a.t = b.t /\ a.n = b.n
       /\ Keys(a) = Keys(b)
       /\ \A k \in Keys(a) : EqualLoose(a.kids[k], b.kids[k])

-----------------------------------------------------------------------------
(* mergeValue and the defaults                                              *)

\* A slip: a nested map is replaced.
MergeShallow(dst, src) ==
  MapOf([k \in Keys(dst) \cup Keys(src) |-> IF k \in Keys(src) THEN src.kids[k] ELSE dst.kids[k]])

MergeValues(dst, src) ==
  MapOf([k \in Keys(dst) \cup Keys(src) |->
           IF k \notin Keys(src) THEN dst.kids[k]
           ELSE IF k \in Keys(dst) /\ dst.kids[k].t = "map" /\ src.kids[k].t = "map"
                THEN MergeValues(dst.kids[k], src.kids[k])
                ELSE src.kids[k]])

MergeValue(old, new) ==
  IF old.t = "map" /\ new.t = "map" THEN MergeValues(old, new) ELSE new

\* A button or submit field has no value.
HasDefault(s) == s.type \notin {"button", "submit"}

\* generateDefaultValue
GenerateDefault(s) ==
  CASE s.default.t # "nil" -> s.default
    [] s.default.t = "nil" /\ s.type = "string" ->
         IF s.enum # <<>> /\ s.multiple THEN ListOf(NoKids)
         ELSE IF s.enum # <<>> /\ s.required THEN s.enum[1] ELSE Scalar("string", 0)
    [] s.default.t = "nil" /\ s.type = "number" -> Scalar("int", 0)
    [] s.default.t = "nil" /\ s.type = "boolean" -> Scalar("bool", 0)
    [] s.default.t = "nil" /\ s.type = "array" -> ListOf(NoKids)
    [] s.default.t = "nil" /\ s.type = "object" ->
         MapOf([k \in {q \in DOMAIN s.properties : HasDefault(s.properties[q])} |->
                  GenerateDefault(s.properties[k])])
    [] OTHER -> NilValue

\* DefineSchemas, for a schema that stands for all the fields:
\* mergeValues(generateConfigFromSchemas(schemas), ds.Values)
Defined(s, values) == MergeValues(GenerateDefault(s), values)

-----------------------------------------------------------------------------
(* The encoder of msgpack (external)                                        *)

\* A number comes back in the narrowest type, a float as it was.
Decoded(v) ==
  CASE v.t \in {"map", "list"} -> [v EXCEPT !.kids = [k \in Keys(v) |-> Decoded(v.kids[k])]]
    [] v.t \in Signed \cup Unsigned ->
         Scalar(IF v.n < 0 THEN "int8"
                ELSE IF v.n <= 2 * MaxSafeStoreInt THEN "uint8" ELSE "uint64", v.n)
    [] OTHER -> v

-----------------------------------------------------------------------------
ValuesInit == left \in Samples /\ right \in Samples /\ field \in SampleSchemas

-----------------------------------------------------------------------------
(* Properties                                                               *)

\* What a value means whatever its Go types: the reference for deepEqualLoose.
Meaning(v) ==
  [number |-> v.t \in Numeric, t |-> IF v.t \in Numeric THEN "number" ELSE v.t, n |-> v.n,
   kids |-> [k \in Keys(v) |-> Meaning(v.kids[k])]]

\* The value at a path of keys, or nothing.
Look(v, path) ==
  IF path = <<>> THEN {v}
  ELSE IF v.t = "map" /\ Head(path) \in Keys(v) THEN Look(v.kids[Head(path)], Tail(path)) ELSE {}

IsMap(found) == \E v \in found : v.t = "map"
Prefixes(path) == {SubSeq(path, 1, n) : n \in 0 .. Len(path) - 1}
Paths == UNION {[1 .. n -> {"a", "b"}] : n \in 1 .. 3}

\* The reference for mergeValue, path by path: the new value where it has one, a map
\* where both have one, else the old one unless something above it was replaced.
MergedAt(old, new, merged, path) ==
  LET o == Look(old, path)
      n == Look(new, path)
      m == Look(merged, path)
      reached ==
        \A q \in Prefixes(path) :
          IsMap(Look(old, q)) /\ (Look(new, q) # {} => IsMap(Look(new, q)))
  IN  IF n # {} THEN IF IsMap(n) /\ IsMap(o) /\ reached THEN IsMap(m) ELSE m = n
      ELSE IF reached THEN m = o ELSE m = {}

\* A value that passes validation is the same before and after a restart ("normalize
\* so stored values and OnSet payloads match the load path"); two of them compare
\* equal exactly when they mean the same, whichever widths their numbers arrived in;
\* a merge keeps what the new configuration does not mention, at every depth; and
\* "existing stored values win" over the defaults of a schema, which fill the rest.
ValuesFaithful ==
  LET accepted == {v \in {left, right} : Storable(v, 0)}
      merged == MergeValue(left, right)
      defined == Defined(field, left)
  IN  /\ \A v \in accepted : Normalize(Decoded(Normalize(v))) = Normalize(v)
      /\ \A v, w \in accepted : EqualLoose(v, w) <=> Meaning(v) = Meaning(w)
      /\ \A v \in accepted : EqualLoose(v, Normalize(v))
      /\ left.t = "map" =>
           /\ \A p \in Paths : MergedAt(left, right, merged, p)
           /\ field.type = "object" =>
                \A p \in Paths : MergedAt(GenerateDefault(field), left, defined, p)
      /\ {left, right} \subseteq accepted => Storable(merged, 0)
=============================================================================
