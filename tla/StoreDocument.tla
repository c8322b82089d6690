---------------------------- MODULE StoreDocument ---------------------------
(***************************************************************************)
(* The document that the storages of a plugin share, as the Go maps it is  *)
(* made of (src/go/store_layout.go, filePersistence and remotePersistence  *)
(* in config_persistence.go), with the SetValue above it (storage.go).     *)
(* Values are objects that the plugin may change in place after it passed  *)
(* them, or after GetValue handed them out; a snapshot that waits for its  *)
(* flush shares objects with the document it was taken of.                 *)
(*                                                                         *)
(* A storage holds one value.  How calls of one storage interleave, and    *)
(* how a save fails, is DeviceStorage's and CoalescingWriter's matter.     *)
(***************************************************************************)
EXTENDS Naturals, Sequences, FiniteSets

CONSTANTS
  Places,       \* the sections of the storage locations, in a sequence
  MaxData,      \* bound: contents of a value are 1 .. MaxData; 0 is none
  Backings,     \* backends: "file", "remote"
  Origins,      \* where the objects the plugin passes come from, see CopyOf
  MaxEdits,     \* bound: times the plugin changes an object in place
  MaxSets,      \* bound: calls of SetValue
  MaxOpens      \* bound: starts of the process

VARIABLES
  backing, origin,  \* one of Backings and one of Origins, never changed
  mine,         \* contents of the object the plugin has in hand for each location
  held,         \* what each storage has in ds.Values
  doc,          \* fp.doc or rp.cache: what it has at each location
  sections,     \* the container maps the document has
  pending,      \* the snapshot that waits for the writer
  flying,       \* the snapshot the writer is flushing
  stored,       \* what the file, or the host, holds
  up,           \* the process runs and opened its store
  told,         \* history: what each location was last set to...
  saved,        \* history: ... and what it was last saved with
  edits, sets, opens

memoryVars == <<mine, held, doc, sections>>
writerVars == <<pending, flying>>
tallyVars == <<edits, sets, opens>>
documentVars ==
  <<backing, origin, memoryVars, writerVars, stored, up, told, saved, tallyVars>>

CurrentLayout == 2
Containers == {"cameras", "sensors"}

ASSUME PlacesAssumption == Places \in Seq({"plugin"} \cup Containers)
ASSUME DocumentAssumption ==
  /\ MaxData \in Nat \ {0} /\ MaxEdits \in Nat /\ MaxSets \in Nat /\ MaxOpens \in Nat
  /\ Backings \subseteq {"file", "remote"} /\ Origins \subseteq {"fresh", "got", "typed"}

Locations == 1 .. Len(Places)
Contents == [Locations -> 0 .. MaxData]
None == [l \in Locations |-> 0]

\* A reference to the object the plugin has in hand.  Any other object is a copy
\* nobody can change, and is its contents.
Live == MaxData + 1

NoSnapshot == [there |-> FALSE, doc |-> None, bytes |-> None, was |-> None]

-----------------------------------------------------------------------------
(* Copies and snapshots                                                     *)

Resolve(at) == [l \in Locations |-> IF at[l] = Live THEN mine[l] ELSE at[l]]

\* A slip: what is saved is what the caller has.
CopyOfNothing(l) == Live

\* deepCopyValue of the object in hand copies maps and lists of any, be they the
\* plugin's own ("fresh") or what it "got" from GetValue.  A "typed" list is passed
\* on as it is.
CopyOf(l) == IF origin = "typed" THEN Live ELSE mine[l]

\* A slip: a new root over the old containers.
ClonedRoot == {"plugin"}

\* The maps of the document that snapshotStoreDoc clones, the root with its plugin
\* value among them.
Cloned == {"plugin"} \cup Containers

\* What the writer encodes: the bytes encodeEnvelope made under the lock, or the
\* cloned maps, with whatever their values hold by now.
Encode(s) ==
  IF backing = "file" THEN s.bytes
  ELSE Resolve([l \in Locations |-> IF Places[l] \in Cloned THEN s.doc[l] ELSE doc[l]])

-----------------------------------------------------------------------------
(* Opening                                                                  *)

\* upgradeStoreLayout
Upgraded(d) ==
  [layout |-> CurrentLayout,
   values |-> IF d.layout = CurrentLayout THEN d.values
              ELSE [l \in Locations |-> IF Places[l] = "sensors" THEN 0 ELSE d.values[l]]]

\* newFilePersistence or newRemotePersistence, which write an upgraded document back
\* at once, and newDeviceStorage, which loads a copy for each location.
OpenStore ==
  LET d == Upgraded(stored)
  IN  /\ ~up /\ opens < MaxOpens
      /\ up' = TRUE
      /\ opens' = opens + 1
      /\ stored' = d
      /\ doc' = d.values /\ held' = d.values /\ mine' = None
      /\ sections' = {Places[l] : l \in {m \in Locations : d.values[m] # 0}} \cap Containers
      /\ told' = d.values /\ saved' = d.values
      /\ UNCHANGED <<backing, origin, writerVars, edits, sets>>

-----------------------------------------------------------------------------
(* The plugin                                                               *)

\* The plugin makes a value of its own, or GetValue hands out the one in ds.Values.
\* What referred to the object it had before keeps that object.
Obtain(l) ==
  LET keep(at) == [at EXCEPT ![l] = IF @ = Live THEN mine[l] ELSE @]
      got == origin = "got" /\ held[l] # 0
  IN  /\ up /\ (mine[l] = 0 \/ (got /\ held[l] # Live))
      /\ mine' = [mine EXCEPT ![l] = IF got THEN held[l] ELSE 1]
      /\ held' = IF got THEN [held EXCEPT ![l] = Live] ELSE keep(held)
      /\ doc' = keep(doc)
      /\ pending' = [pending EXCEPT !.doc = keep(@)]
      /\ flying' = [flying EXCEPT !.doc = keep(@)]
      /\ UNCHANGED <<backing, origin, sections, stored, up, told, saved, tallyVars>>

\* It changes in place what it has in hand.
Edit(l) ==
  /\ up /\ mine[l] # 0 /\ edits < MaxEdits
  /\ edits' = edits + 1
  /\ \E c \in 1 .. MaxData \ {mine[l]} : mine' = [mine EXCEPT ![l] = c]
  /\ UNCHANGED <<backing, origin, held, doc, sections, writerVars, stored, up, told, saved,
                 sets, opens>>

\* save: the document is changed under the lock and a snapshot enqueued, which
\* replaces one that still waits.  The file backend encodes it there and then.
Save(l, o, v) ==
  LET at == [doc EXCEPT ![l] = o]
      now == [saved EXCEPT ![l] = v]
  IN  /\ doc' = at
      /\ saved' = now
      /\ pending' = [there |-> TRUE, doc |-> at, bytes |-> Resolve(at), was |-> now]

\* writeLocation, with ensureChildMap
WriteLocation(l, o, v) ==
  /\ Save(l, o, v)
  /\ sections' = sections \cup ({Places[l]} \cap Containers)

\* A slip: an empty container is kept.
DeleteOnly(l) == Save(l, 0, 0) /\ UNCHANGED sections

\* deleteLocation, with pruneIfEmpty
DeleteLocation(l) ==
  /\ Save(l, 0, 0)
  /\ sections' = IF \E m \in Locations \ {l} : Places[m] = Places[l] /\ doc[m] # 0
                 THEN sections ELSE sections \ {Places[l]}

\* SetValue, SetInternalValue or SetConfig with the object in hand: a copy is held,
\* compared with what was held, and another copy saved if it differs.
SetValue(l) ==
  /\ up /\ mine[l] # 0 /\ sets < MaxSets
  /\ sets' = sets + 1
  /\ held' = [held EXCEPT ![l] = CopyOf(l)]
  /\ told' = [told EXCEPT ![l] = mine[l]]
  /\ IF held[l] # 0 /\ Resolve(held)[l] = mine[l]
     THEN UNCHANGED <<doc, sections, pending, saved>>
     ELSE WriteLocation(l, CopyOf(l), mine[l])
  /\ UNCHANGED <<backing, origin, mine, flying, stored, up, edits, opens>>

\* SetValue with nil, or Destroy: the location is saved without values.
Clear(l) ==
  /\ up /\ sets < MaxSets /\ held[l] # 0
  /\ sets' = sets + 1
  /\ held' = [held EXCEPT ![l] = 0]
  /\ told' = [told EXCEPT ![l] = 0]
  /\ DeleteLocation(l)
  /\ UNCHANGED <<backing, origin, mine, flying, stored, up, edits, opens>>

-----------------------------------------------------------------------------
(* The writer (see CoalescingWriter), and a crash                           *)

TakeSnapshot ==
  /\ pending.there /\ ~flying.there
  /\ flying' = pending
  /\ pending' = NoSnapshot
  /\ UNCHANGED <<backing, origin, memoryVars, stored, up, told, saved, tallyVars>>

PutSnapshot ==
  /\ flying.there
  /\ stored' = [layout |-> CurrentLayout, values |-> Encode(flying)]
  /\ flying' = NoSnapshot
  /\ UNCHANGED <<backing, origin, memoryVars, pending, up, told, saved, tallyVars>>

CrashProcess ==
  /\ up
  /\ up' = FALSE
  /\ doc' = None /\ sections' = {} /\ mine' = None /\ held' = None
  /\ pending' = NoSnapshot /\ flying' = NoSnapshot
  /\ told' = None /\ saved' = None
  /\ UNCHANGED <<backing, origin, stored, tallyVars>>

-----------------------------------------------------------------------------
\* The store is new, or an older or the current SDK left it.
DocumentInit ==
  /\ backing \in Backings /\ origin \in Origins
  /\ doc = None /\ sections = {} /\ mine = None /\ held = None
  /\ pending = NoSnapshot /\ flying = NoSnapshot
  /\ stored \in [layout : {1, CurrentLayout}, values : {None, [l \in Locations |-> 1]}]
  /\ up = FALSE
  /\ told = None /\ saved = None
  /\ edits = 0 /\ sets = 0 /\ opens = 0

DocumentNext ==
  \/ OpenStore \/ TakeSnapshot \/ PutSnapshot \/ CrashProcess
  \/ \E l \in Locations : Obtain(l) \/ Edit(l) \/ SetValue(l) \/ Clear(l)

DocumentSpec == DocumentInit /\ [][DocumentNext]_documentVars

-----------------------------------------------------------------------------
(* Properties                                                               *)

DocumentTypeOK ==
  /\ mine \in Contents /\ {doc, held} \subseteq [Locations -> 0 .. Live]
  /\ sections \subseteq Containers
  /\ \A s \in {pending, flying} : s.there \in BOOLEAN /\ s.was \in Contents
  /\ stored \in [layout : {1, CurrentLayout}, values : Contents]
  /\ up \in BOOLEAN /\ told \in Contents /\ saved \in Contents

\* SetValue "blocks until the write is durable", and "a caller may mutate the value
\* it passed in and re-set it": when the writer is idle, the store holds what every
\* location was last set to.
SetIsStored == (up /\ ~pending.there /\ ~flying.there) => stored.values = told

\* What a flush encodes is the document at the moment of the save it belongs to, and
\* what a load returns is what was last saved at that location, whatever the plugin
\* does to its objects and whichever locations are saved and deleted in between
\* ("leaf value maps are shared on purpose, saves replace them wholesale"); a section
\* is there exactly when it holds something.  What is set with an object of the
\* plugin's own is stored.
FlushedAsSaved ==
  /\ \A s \in {pending, flying} : s.there => Encode(s) = s.was
  /\ up => Resolve(doc) = saved
  /\ sections = {Places[l] : l \in {m \in Locations : doc[m] # 0}} \cap Containers
  /\ origin = "fresh" => SetIsStored
=============================================================================
