--------------------------- MODULE DeviceStorage ---------------------------
(***************************************************************************)
(* One DeviceStorage (src/go/storage.go): the schema-driven configuration  *)
(* of a plugin, a camera or a sensor, used by several goroutines at once   *)
(* (RPC handlers, plugin code, detached OnSet callbacks), on top of the    *)
(* persistence modelled by CoalescingWriter, whose Callers they are.       *)
(*                                                                         *)
(* Every action is one critical section of ds.mu or ds.persistMu, or one   *)
(* step of the writer.  Values are members of Data; Nil is a stored nil    *)
(* and Absent a key the map does not have.  Rejected values (validate) and *)
(* calls that return before touching anything leave every variable alone   *)
(* and are not actions.                                                    *)
(***************************************************************************)
EXTENDS CoalescingWriter, FiniteSets

CONSTANTS
  Keys,        \* configuration keys
  Data,        \* storable values
  Zero,        \* the zero value generateDefaultValue gives a typed field
  Nil,         \* a stored nil
  Absent,      \* not in the map
  NoSchema,    \* no schema registered for the key
  Schemas,     \* schemas plugin code registers (see SchemaType)
  Configs,     \* arguments of SetConfig: functions from sets of keys to values
  Layouts,     \* arguments of DefineSchemas: functions from Keys to schemas
  Uses         \* for each kind of persistence, the calls of the goroutines, the values
               \* they pass and a bound for the calls started in one behaviour

VARIABLES
  values,      \* ds.Values
  schemas,     \* ds.Schemas, by key
  dirty,       \* ds.dirty
  persistSeq,  \* ds.persistSeq
  persistMu,   \* ds.persistMu: a set holding its owner
  pc,          \* where each goroutine is
  call,        \* locals of each goroutine's call
  result,      \* how its last call ended
  snap,        \* local values of persist()
  seq,         \* local seq of persist()
  docs,        \* the values each installed document holds for this storage
  ops,         \* calls started so far
  lazy,        \* history: keys changed by an operation that does not persist
  claim        \* history: what each call wrote and nobody changed since

writerVars == vars
memVars == <<values, schemas, dirty, lazy, claim>>
persistVars == <<persistSeq, persistMu, snap, seq, docs>>
storageVars == <<memVars, persistVars, pc, call, result, ops, writerVars>>

SchemaType == [store : BOOLEAN, button : BOOLEAN,
               default : Data \cup {Nil}, onGet : BOOLEAN]
StoredType == Data \cup {Nil, Absent}

AllOps == {"SetValue", "SetInternalValue", "SetConfig", "DefineSchemas",
           "AddSchema", "ChangeSchema", "RemoveSchema", "GetConfig",
           "Save", "Destroy"}

ASSUME DataAssumption == Zero \in Data /\ Nil \notin Data /\ Absent \notin Data
ASSUME SchemasAssumption == Schemas \subseteq SchemaType /\ NoSchema \notin SchemaType
ASSUME ArgumentsAssumption ==
  /\ \A config \in Configs : DOMAIN config \subseteq Keys
  /\ Layouts \subseteq [Keys -> Schemas \cup {NoSchema}]
ASSUME UsesAssumption ==
  Uses \in [Backends -> [ops : SUBSET AllOps, data : SUBSET Data, max : 0 .. MaxSaves]]

\* The values calls and OnGet callbacks come with.
Passed == Uses[backend].data \cup {Nil}

NoCall == [op |-> "none", key |-> Absent, old |-> Absent,
           schema |-> NoSchema, todo |-> {}]

-----------------------------------------------------------------------------
(* Helpers                                                                  *)

\* schemaStorable
Storable(s) == s.store /\ ~s.button

\* A key takes part in OnGet resolution and in the generated defaults.
IsField(s) == s # NoSchema /\ ~s.button

\* persistedValues: schema-less keys and storable keys reach the document.
Kept(vs, ss) ==
  [k \in Keys |-> IF ss[k] = NoSchema \/ Storable(ss[k]) THEN vs[k] ELSE Absent]

Persisted == Kept(values, schemas)

\* A Go map lookup: a missing key reads as nil.
Lookup(k) == IF values[k] = Absent THEN Nil ELSE values[k]

\* generateDefaultValue for a field.
DefaultOf(s) == IF s.default # Nil THEN s.default ELSE Zero

\* mergeValues(generateConfigFromSchemas(schemas), values)
Filled(vs, ss) ==
  [k \in Keys |-> IF IsField(ss[k]) /\ vs[k] = Absent THEN DefaultOf(ss[k])
                  ELSE vs[k]]

\* What the document in the backend holds for this storage.
Durable == IF durable = 0 THEN [k \in Keys |-> Absent] ELSE docs[durable]

\* The history variables after a change of the in-memory state by t.
Track(t, vs, ss, claims, isLazy) ==
  LET changed == {k \in Keys : Kept(vs, ss)[k] # Persisted[k]}
  IN  /\ values' = vs
      /\ schemas' = ss
      /\ lazy' = IF isLazy THEN lazy \cup changed ELSE lazy
      /\ claim' = [u \in Callers |->
                     IF u = t THEN claims
                     ELSE {w \in claim[u] : w.key \notin changed}]

\* The claims of a call: what the backend has to hold when it reports success.
Claims(vs, ss, ks) == {[key |-> k, val |-> Kept(vs, ss)[k]] : k \in ks}

Begin(t, op) ==
  /\ op \in Uses[backend].ops
  /\ pc[t] = "idle"
  /\ ops < Uses[backend].max
  /\ ops' = ops + 1

\* The call goes on to persist(), or returns nil without it.
PersistOrReturn(t, go) ==
  /\ pc' = [pc EXCEPT ![t] = IF go THEN "persist" ELSE "idle"]
  /\ result' = [result EXCEPT ![t] = IF go THEN "none" ELSE "skipped"]
  /\ call' = [call EXCEPT ![t] = NoCall]

-----------------------------------------------------------------------------
(* The operations, up to the point where they persist or return             *)

SetValue(t, k, v) ==
  LET s == schemas[k]
      value == IF v = Nil THEN s.default ELSE v
      new == IF value = Nil THEN Absent ELSE value
      vs == [values EXCEPT ![k] = new]
  IN  /\ Begin(t, "SetValue")
      /\ s # NoSchema
      /\ Track(t, vs, schemas, IF Storable(s) THEN Claims(vs, schemas, {k}) ELSE {}, FALSE)
      /\ PersistOrReturn(t, Storable(s) /\ (values[k] # new \/ dirty))
      /\ UNCHANGED <<dirty, persistVars, writerVars>>

SetInternalValue(t, k, v) ==
  LET new == IF v = Nil THEN Absent ELSE v
      vs == [values EXCEPT ![k] = new]
  IN  /\ Begin(t, "SetInternalValue")
      /\ Track(t, vs, schemas, Claims(vs, schemas, {k}), FALSE)
      /\ PersistOrReturn(t, values[k] # new \/ dirty)
      /\ UNCHANGED <<dirty, persistVars, writerVars>>

\* Every key of the config is assigned, a nil too, under one ds.mu.
SetConfig(t, config) ==
  LET vs == [k \in Keys |-> IF k \in DOMAIN config THEN config[k] ELSE values[k]]
  IN  /\ Begin(t, "SetConfig")
      /\ Track(t, vs, schemas, Claims(vs, schemas, DOMAIN config), FALSE)
      /\ PersistOrReturn(t, TRUE)
      /\ UNCHANGED <<dirty, persistVars, writerVars>>

\* Defaults fill the missing keys in memory only.
DefineSchemas(t, ss) ==
  /\ Begin(t, "DefineSchemas")
  /\ Track(t, Filled(values, ss), ss, {}, TRUE)
  /\ PersistOrReturn(t, FALSE)
  /\ UNCHANGED <<dirty, persistVars, writerVars>>

\* AddSchema and ChangeSchema continue with resolveOnGet of the new schema.
ToResolve(t, k, s) ==
  /\ pc' = [pc EXCEPT ![t] = "resolve"]
  /\ result' = [result EXCEPT ![t] = "none"]
  /\ call' = [call EXCEPT ![t] =
       [op |-> "schema", key |-> k, old |-> Lookup(k), schema |-> s,
        todo |-> IF IsField(s) /\ s.onGet THEN {k} ELSE {}]]

AddSchema(t, k, s) ==
  LET ss == [schemas EXCEPT ![k] = s]
      vs == IF s.default # Nil /\ values[k] = Absent
            THEN [values EXCEPT ![k] = s.default] ELSE values
  IN  /\ Begin(t, "AddSchema")
      /\ schemas[k] = NoSchema
      /\ Track(t, vs, ss, {}, TRUE)
      /\ ToResolve(t, k, s)
      /\ UNCHANGED <<dirty, persistVars, writerVars>>

\* A slip: the flip does not outdate a persist that is under way.
ChangeSchemaNoBump(t, k, s) ==
  LET flips == Storable(schemas[k]) # Storable(s)
  IN  /\ Begin(t, "ChangeSchema")
      /\ schemas[k] # NoSchema
      /\ Track(t, values, [schemas EXCEPT ![k] = s], {}, FALSE)
      /\ dirty' = (dirty \/ flips)
      /\ ToResolve(t, k, s)
      /\ UNCHANGED <<persistVars, writerVars>>

\* A flip of storable-ness makes the store dirty and outdates every persist
\* that is under way.
ChangeSchema(t, k, s) ==
  LET flips == Storable(schemas[k]) # Storable(s)
  IN  /\ Begin(t, "ChangeSchema")
      /\ schemas[k] # NoSchema
      /\ Track(t, values, [schemas EXCEPT ![k] = s], {}, FALSE)
      /\ dirty' = (dirty \/ flips)
      /\ persistSeq' = IF flips THEN persistSeq + 1 ELSE persistSeq
      /\ ToResolve(t, k, s)
      /\ UNCHANGED <<persistMu, snap, seq, docs, writerVars>>

RemoveSchema(t, k) ==
  LET ss == [schemas EXCEPT ![k] = NoSchema]
      vs == [values EXCEPT ![k] = Absent]
  IN  /\ Begin(t, "RemoveSchema")
      /\ schemas[k] # NoSchema
      /\ Track(t, vs, ss, Claims(vs, ss, {k}), FALSE)
      /\ PersistOrReturn(t, Storable(schemas[k]) /\ values[k] # Absent)
      /\ UNCHANGED <<dirty, persistVars, writerVars>>

\* GetConfig takes the schema slice under ds.mu and resolves it afterwards.
GetConfig(t) ==
  LET todo == {k \in Keys : IsField(schemas[k]) /\ schemas[k].onGet}
  IN  /\ Begin(t, "GetConfig")
      /\ todo # {}
      /\ pc' = [pc EXCEPT ![t] = "resolve"]
      /\ result' = [result EXCEPT ![t] = "none"]
      /\ call' = [call EXCEPT ![t] = [NoCall EXCEPT !.op = "GetConfig", !.todo = todo]]
      /\ UNCHANGED <<memVars, persistVars, writerVars>>

\* Save, and the save of close().
SaveStorage(t) ==
  /\ Begin(t, "Save")
  /\ Track(t, values, schemas, Claims(values, schemas, Keys), FALSE)
  /\ PersistOrReturn(t, TRUE)
  /\ UNCHANGED <<dirty, persistVars, writerVars>>

Destroy(t) ==
  LET vs == [k \in Keys |-> Absent]
  IN  /\ Begin(t, "Destroy")
      /\ Track(t, vs, schemas, Claims(vs, schemas, Keys), FALSE)
      /\ PersistOrReturn(t, TRUE)
      /\ UNCHANGED <<dirty, persistVars, writerVars>>

-----------------------------------------------------------------------------
(* resolveOnGet and the comparison that follows it                          *)

\* One OnGet callback, run without ds.mu: a nil is skipped, any other result
\* is written under ds.mu.
ResolveOnGet(t, k, v) ==
  /\ pc[t] = "resolve"
  /\ k \in call[t].todo
  /\ call' = [call EXCEPT ![t].todo = @ \ {k}]
  /\ IF v = Nil THEN UNCHANGED <<values, schemas, lazy, claim>>
     ELSE Track(t, [values EXCEPT ![k] = v], schemas, {}, TRUE)
  /\ UNCHANGED <<dirty, pc, result, ops, persistVars, writerVars>>

\* The end of AddSchema, ChangeSchema and GetConfig.
AfterResolve(t) ==
  LET c == call[t]
  IN  /\ pc[t] = "resolve"
      /\ c.todo = {}
      /\ PersistOrReturn(t, c.op = "schema" /\ Storable(c.schema) /\ c.old # Lookup(c.key))
      /\ UNCHANGED <<memVars, ops, persistVars, writerVars>>

-----------------------------------------------------------------------------
(* persist                                                                  *)

\* A slip: no persistMu around the snapshot and its enqueueing.
TakeSnapshotUnlocked(t) ==
  /\ pc[t] = "persist"
  /\ persistMu' = persistMu \cup {t}
  /\ snap' = [snap EXCEPT ![t] = Persisted]
  /\ persistSeq' = persistSeq + 1
  /\ seq' = [seq EXCEPT ![t] = persistSeq + 1]
  /\ lazy' = {}
  /\ pc' = [pc EXCEPT ![t] = "snap"]
  /\ UNCHANGED <<values, schemas, dirty, claim, docs, call, result, ops, writerVars>>

\* persistMu is taken; the snapshot and its sequence number under ds.mu.
TakeSnapshot(t) ==
  /\ pc[t] = "persist"
  /\ persistMu = {}
  /\ persistMu' = {t}
  /\ snap' = [snap EXCEPT ![t] = Persisted]
  /\ persistSeq' = persistSeq + 1
  /\ seq' = [seq EXCEPT ![t] = persistSeq + 1]
  /\ lazy' = {}
  /\ pc' = [pc EXCEPT ![t] = "snap"]
  /\ UNCHANGED <<values, schemas, dirty, claim, docs, call, result, ops, writerVars>>

\* A slip: persistMu stays locked.
EnqueueKeepsLock(t) ==
  /\ pc[t] = "snap"
  /\ Save(t) \/ SaveEncodeFails(t)
  /\ docs' = [docs EXCEPT ![installed + 1] = snap[t]]
  /\ pc' = [pc EXCEPT ![t] = "wait"]
  /\ UNCHANGED <<memVars, persistSeq, persistMu, snap, seq, call, result, ops>>

\* persistence.save(location, values), then persistMu is released.
EnqueueSnapshot(t) ==
  /\ pc[t] = "snap"
  /\ Save(t) \/ SaveEncodeFails(t)
  /\ docs' = [docs EXCEPT ![installed + 1] = snap[t]]
  /\ persistMu' = {}
  /\ pc' = [pc EXCEPT ![t] = "wait"]
  /\ UNCHANGED <<memVars, persistSeq, snap, seq, call, result, ops>>

\* wait() returned: only the newest snapshot's persist decides about dirty.
PersistReturn(t) ==
  /\ pc[t] = "wait"
  /\ Return(t)
  /\ dirty' = IF seq[t] = persistSeq THEN Outcome(t) = "err" ELSE dirty
  /\ result' = [result EXCEPT ![t] = IF Outcome(t) = "ok" THEN "saved" ELSE "err"]
  /\ pc' = [pc EXCEPT ![t] = "idle"]
  /\ UNCHANGED <<values, schemas, lazy, claim, persistVars, call, ops>>

\* The drainer goroutine and the backend.
Writer ==
  /\ (\E d \in Versions : Drain(d)) \/ LatePut
  /\ UNCHANGED <<memVars, persistVars, pc, call, result, ops>>

-----------------------------------------------------------------------------
StorageInit ==
  /\ values = [k \in Keys |-> Absent]
  /\ schemas = [k \in Keys |-> NoSchema]
  /\ dirty = FALSE
  /\ persistSeq = 0
  /\ persistMu = {}
  /\ pc = [t \in Callers |-> "idle"]
  /\ call = [t \in Callers |-> NoCall]
  /\ result = [t \in Callers |-> "none"]
  /\ snap = [t \in Callers |-> [k \in Keys |-> Absent]]
  /\ seq = [t \in Callers |-> 0]
  /\ docs = [v \in Versions |-> [k \in Keys |-> Absent]]
  /\ ops = 0
  /\ lazy = {}
  /\ claim = [t \in Callers |-> {}]
  /\ Init

Start(t) ==
  \/ \E k \in Keys, v \in Passed : SetValue(t, k, v) \/ SetInternalValue(t, k, v)
  \/ \E config \in Configs : SetConfig(t, config)
  \/ \E ss \in Layouts : DefineSchemas(t, ss)
  \/ \E k \in Keys, s \in Schemas : AddSchema(t, k, s) \/ ChangeSchema(t, k, s)
  \/ \E k \in Keys : RemoveSchema(t, k)
  \/ GetConfig(t) \/ SaveStorage(t) \/ Destroy(t)

Continue(t) ==
  \/ \E k \in Keys, v \in Passed : ResolveOnGet(t, k, v)
  \/ AfterResolve(t) \/ TakeSnapshot(t) \/ EnqueueSnapshot(t) \/ PersistReturn(t)

StorageNext == Writer \/ \E t \in Callers : Start(t) \/ Continue(t)

StorageSpec == StorageInit /\ [][StorageNext]_storageVars

\* Plugin callbacks return, goroutines run, flushes end (see CoalescingWriter).
StorageFairness ==
  /\ \A t \in Callers : WF_storageVars(Continue(t))
  /\ WF_storageVars(Writer)

StorageLiveSpec == StorageSpec /\ StorageFairness

-----------------------------------------------------------------------------
(* Properties                                                               *)

StorageTypeOK ==
  /\ values \in [Keys -> StoredType]
  /\ schemas \in [Keys -> Schemas \cup {NoSchema}]
  /\ dirty \in BOOLEAN
  /\ persistSeq \in Nat
  /\ persistMu \in {{}} \cup {{t} : t \in Callers}
  /\ pc \in [Callers -> {"idle", "resolve", "persist", "snap", "wait"}]
  /\ result \in [Callers -> {"none", "skipped", "saved", "err"}]
  /\ snap \in [Callers -> [Keys -> StoredType]]
  /\ seq \in [Callers -> Nat]
  /\ docs \in [Versions -> [Keys -> StoredType]]
  /\ lazy \in SUBSET Keys
  /\ TypeOK

\* A call that reports success after persist() finds what it wrote in the
\* backend, unless somebody changed it since (persist, SetValue, SetConfig,
\* Save, Destroy, RemoveSchema: "blocks until ... durable").
SavedIsDurable ==
  \A t \in Callers : result[t] = "saved" =>
    \A w \in claim[t] : Durable[w.key] = w.val

\* When no persist is under way and the storage is not dirty, the backend holds
\* exactly the storable part of the memory, except for keys that an operation
\* without a persist changed (the invariant behind ds.dirty and persistSeq:
\* an unchanged value may be skipped).
CleanMeansDurable ==
  (~dirty /\ \A t \in Callers : pc[t] \notin {"persist", "snap", "wait"}) =>
    \A k \in Keys \ lazy : Durable[k] = Persisted[k]

\* What SetValue and SetInternalValue say of every call, also of one that skips
\* the write: "blocks until the write is durable" and "an unchanged value is
\* already durable, skip the whole-document write".
ReturnedIsDurable ==
  \A t \in Callers : result[t] \in {"saved", "skipped"} =>
    \A w \in claim[t] : Durable[w.key] = w.val

\* Every call returns: persistMu is always released and the wait is answered.
EveryCallReturns == \A t \in Callers : pc[t] # "idle" ~> pc[t] = "idle"
=============================================================================
