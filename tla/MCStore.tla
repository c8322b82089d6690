------------------------------ MODULE MCStore -------------------------------
(* Instances of StoreFile, StoreDocument and StoreValues for TLC.  A         *)
(* behaviour is about the files of a store, about the document in it or      *)
(* about values; the state of the other two stays as it is at the start.     *)
EXTENDS StoreFile, StoreDocument, StoreValues

CONSTANT Parts  \* the ones looked at: "file", "document", "values"

VARIABLE part  \* which of them the behaviour is about, never changed

\* The plugin's values, two cameras that share a section, and a sensor.
MCPlaces == <<"plugin", "cameras", "cameras", "sensors">>

\* Every type of number around zero, one, the safe integers and its limits.
Numbers ==
  {Scalar(t, n) : t \in {"int8", "int", "uint8", "float32", "float64"}, n \in {0, 2}}
    \cup {Scalar("float64", n) : n \in {3, 6, NaN, Infinity}}
    \cup {Scalar("int64", n) : n \in {-4, -6, 4, 6}}
    \cup {Scalar("uint64", n) : n \in {2, 6, 8, 12}}
Others == {NilValue, Scalar("string", 0), Scalar("bool", 0), Scalar("bytes", 0)}
Small == {NilValue, Scalar("uint8", 2), Scalar("float64", 2), Scalar("string", 1)}
Nested == {MapOf([a |-> v]) : v \in Small} \cup {MapOf(NoKids), ListOf(NoKids)}

\* Scalars, and maps that nest as deep as a value may.
MCSamples ==
  Numbers \cup Others \cup Nested \cup {ListOf([zero |-> v]) : v \in Small}
    \cup {MapOf([a |-> v, b |-> w]) : v \in Nested \cup Small, w \in Small}
    \cup {MapOf([a |-> MapOf([b |-> v])]) : v \in Nested}

NoFields == [k \in {} |-> 0]
Sch(type, default) ==
  [type |-> type, default |-> default, enum |-> <<>>, multiple |-> FALSE, required |-> FALSE,
   properties |-> NoFields]
Obj(fields) == [Sch("object", NilValue) EXCEPT !.properties = fields]
Choice(many, must) ==
  [Sch("string", NilValue) EXCEPT !.enum = <<Scalar("string", 1)>>, !.multiple = many,
                                  !.required = must]

\* Fields with and without a default, a button, choices, and an object in an object.
MCSchemas ==
  {Obj([a |-> Sch("number", NilValue), b |-> Sch("boolean", Scalar("bool", 1))]),
   Obj([a |-> Obj([b |-> Sch("string", NilValue)]), b |-> Sch("button", NilValue)]),
   Obj([a |-> Choice(TRUE, FALSE), b |-> Choice(FALSE, TRUE)]),
   Obj([a |-> Sch("array", NilValue), b |-> Choice(FALSE, FALSE)])}

MCInit ==
  /\ part \in Parts
  /\ Init /\ DocumentInit
  /\ IF part = "values" THEN ValuesInit
     ELSE left = NilValue /\ right = NilValue /\ field = Obj(NoFields)
  /\ part = "file" \/ main = Missing
  /\ part = "document" \/ (backing = "file" /\ origin = "fresh" /\ stored.layout = CurrentLayout
                             /\ stored.values = None)

MCNext ==
  \/ part = "file" /\ Next /\ UNCHANGED <<part, documentVars, valueVars>>
  \/ part = "document" /\ DocumentNext /\ UNCHANGED <<part, vars, valueVars>>

MCSpec == MCInit /\ [][MCNext]_<<part, vars, documentVars, valueVars>>
=============================================================================
