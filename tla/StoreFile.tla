----------------------------- MODULE StoreFile -----------------------------
(***************************************************************************)
(* The store file of a plugin and its backup on disk, through opens,       *)
(* flushes, crashes and decay (src/go/store_file.go, store_layout.go and   *)
(* newFilePersistence in config_persistence.go).                           *)
(*                                                                         *)
(* A file is whole (the envelope decodes) or not; a whole file holds a     *)
(* generation of the document and its layout version.  Generations are     *)
(* numbered in the order in which they were saved, 0 is the empty document *)
(* of a fresh store.  Flushes are sequential (CoalescingWriter,            *)
(* OneFlushAtATime), so one process is one sequence of file operations.    *)
(***************************************************************************)
EXTENDS Naturals

CONSTANTS
  MaxGen,      \* bound: generations saved in one behaviour
  MaxCrashes,  \* bound: crashes of the process or the machine
  MaxRot,      \* bound: files that decay on disk
  MaxWipes     \* bound: times the directory is pulled away

ASSUME BoundsAssumption ==
  MaxGen \in Nat \ {0} /\ MaxCrashes \in Nat /\ MaxRot \in Nat /\ MaxWipes \in Nat

VARIABLES
  main,        \* store.cui
  bak,         \* store.cui.bak
  tmp,         \* store.cui.tmp-<pid>
  btmp,        \* store.cui.bak.tmp-<pid>
  undo,        \* earlier mains that come back if power fails before the
               \* renames over them settle
  pc,          \* where the process is, "down" when there is none
  buf,         \* document writeStoreBytes is writing
  goal,        \* what it is written for: "heal", "stamp" or "flush"
  mem,         \* fp.doc
  lastGen,     \* generations saved so far
  floor,       \* history: generation that no open may fall behind: the last
               \* acknowledged one, or what decay and power loss left
  backedUp,    \* history: generation of the last completed backup
  rotted,      \* history: main decayed and was not rewritten since
  crashes, rots, wipes

disk == <<main, bak, tmp, btmp, undo>>
local == <<buf, goal, mem, lastGen>>
history == <<floor, backedUp, rotted>>
budget == <<crashes, rots, wipes>>
vars == <<disk, pc, local, history, budget>>

LayoutVersion == 2

Doc == [gen : 0 .. MaxGen, layout : {1, LayoutVersion}]
File == [there : BOOLEAN, whole : BOOLEAN, doc : Doc, synced : BOOLEAN]

EmptyDoc == [gen |-> 0, layout |-> LayoutVersion]
Missing == [there |-> FALSE, whole |-> FALSE, doc |-> EmptyDoc, synced |-> TRUE]
Torn == [there |-> TRUE, whole |-> FALSE, doc |-> EmptyDoc, synced |-> FALSE]
Decayed == [Torn EXCEPT !.synced = TRUE]
Whole(d) == [there |-> TRUE, whole |-> TRUE, doc |-> d, synced |-> FALSE]

Writing == {"create", "write", "sync", "rename"}
BackingUp == {"backup", "copy", "brename"}

TypeOK ==
  /\ {main, bak, tmp, btmp} \cup undo \subseteq File
  /\ pc \in {"down", "read", "run"} \cup Writing \cup BackingUp
  /\ buf \in Doc /\ mem \in Doc
  /\ goal \in {"heal", "stamp", "flush"}
  /\ lastGen \in 0 .. MaxGen /\ floor \in 0 .. MaxGen /\ backedUp \in 0 .. MaxGen
  /\ rotted \in BOOLEAN
  /\ crashes \in 0 .. MaxCrashes /\ rots \in 0 .. MaxRot /\ wipes \in 0 .. MaxWipes

\* The plugin directory is new, or holds a store that an older or the current
\* SDK left, with or without a backup.
Init ==
  \E existed, backup \in BOOLEAN, layout \in {1, LayoutVersion} :
    LET old == [gen |-> 1, layout |-> layout]
        oldFile == [Whole(old) EXCEPT !.synced = TRUE]
    IN  /\ backup => existed
        /\ main = IF existed THEN oldFile ELSE Missing
        /\ bak = IF backup THEN oldFile ELSE Missing
        /\ tmp = Missing /\ btmp = Missing
        /\ undo = {}
        /\ pc = "down"
        /\ buf = EmptyDoc /\ mem = EmptyDoc /\ goal = "flush"
        /\ lastGen = IF existed THEN 1 ELSE 0
        /\ floor = lastGen
        /\ backedUp = IF backup THEN 1 ELSE 0
        /\ rotted = FALSE
        /\ crashes = 0 /\ rots = 0 /\ wipes = 0

-----------------------------------------------------------------------------
(* newFilePersistence                                                       *)

\* removeOrphanedStoreTmpFiles, before anything is read.
Boot ==
  /\ pc = "down"
  /\ tmp' = Missing /\ btmp' = Missing
  /\ pc' = "read"
  /\ UNCHANGED <<main, bak, undo, local, history, budget>>

\* upgradeStoreLayout drops what the old layout cannot map and stamps the
\* current version.
UpgradeStoreLayout(d) == [d EXCEPT !.layout = LayoutVersion]

StartWrite(d, g) ==
  /\ buf' = d
  /\ goal' = g
  /\ pc' = "create"

\* The document was read: it is upgraded and written back when its layout is
\* old, and backed up otherwise.
Opened(d) ==
  /\ mem' = UpgradeStoreLayout(d)
  /\ \/ /\ d.layout # LayoutVersion
        /\ StartWrite(UpgradeStoreLayout(d), "stamp")
     \/ /\ d.layout = LayoutVersion
        /\ pc' = "backup"
        /\ UNCHANGED <<buf, goal>>

ReadMissing ==
  /\ pc = "read" /\ ~main.there
  /\ mem' = EmptyDoc
  /\ StartWrite(EmptyDoc, "stamp")
  /\ UNCHANGED <<disk, lastGen, history, budget>>

ReadWhole ==
  /\ pc = "read" /\ main.there /\ main.whole
  /\ Opened(main.doc)
  /\ UNCHANGED <<disk, lastGen, history, budget>>

\* A slip: a corrupt store is opened as an empty one.
ReadCorruptAsEmpty ==
  /\ pc = "read" /\ main.there /\ ~main.whole
  /\ mem' = EmptyDoc
  /\ StartWrite(EmptyDoc, "stamp")
  /\ UNCHANGED <<disk, lastGen, history, budget>>

\* A slip: the backup is opened without replacing the corrupt file.
ReadCorruptNoHeal ==
  /\ pc = "read" /\ main.there /\ ~main.whole
  /\ IF bak.there /\ bak.whole
     THEN Opened(bak.doc)
     ELSE pc' = "down" /\ UNCHANGED <<buf, goal, mem>>
  /\ UNCHANGED <<disk, lastGen, history, budget>>

\* A corrupt store is replaced by its backup, or the open fails.
ReadCorrupt ==
  /\ pc = "read" /\ main.there /\ ~main.whole
  /\ IF bak.there /\ bak.whole
     THEN StartWrite(bak.doc, "heal")
     ELSE pc' = "down" /\ UNCHANGED <<buf, goal>>
  /\ UNCHANGED <<disk, mem, lastGen, history, budget>>

\* Any other read error fails the open.
ReadError ==
  /\ pc = "read" /\ main.there
  /\ pc' = "down"
  /\ UNCHANGED <<disk, local, history, budget>>

-----------------------------------------------------------------------------
(* writeStoreBytes                                                          *)

\* OpenFile with O_TRUNC; a missing directory is created first.
CreateTmp ==
  /\ pc = "create"
  /\ tmp' = Torn
  /\ pc' = "write"
  /\ UNCHANGED <<main, bak, btmp, undo, local, history, budget>>

\* f.Write; a file whose directory is gone is written all the same.
WriteTmp ==
  /\ pc = "write"
  /\ tmp' = IF tmp.there THEN Whole(buf) ELSE tmp
  /\ pc' = "sync"
  /\ UNCHANGED <<main, bak, btmp, undo, local, history, budget>>

\* A slip: the file is closed without a sync.
CloseUnsynced ==
  /\ pc = "sync"
  /\ pc' = "rename"
  /\ UNCHANGED <<disk, local, history, budget>>

\* f.Sync and f.Close.
SyncTmp ==
  /\ pc = "sync"
  /\ tmp' = [tmp EXCEPT !.synced = TRUE]
  /\ pc' = "rename"
  /\ UNCHANGED <<main, bak, btmp, undo, local, history, budget>>

\* The write is complete: what the caller does next.
Written ==
  CASE goal = "flush" ->
         /\ pc' = "run"
         /\ floor' = IF buf.gen > floor THEN buf.gen ELSE floor
         /\ UNCHANGED <<buf, goal, mem>>
    [] goal = "heal" -> Opened(buf) /\ UNCHANGED floor
    [] goal = "stamp" -> pc' = "backup" /\ UNCHANGED <<buf, goal, mem, floor>>

\* renameWithRetry succeeds.
RenameTmp ==
  /\ pc = "rename" /\ tmp.there
  /\ main' = tmp
  /\ undo' = undo \cup {main}
  /\ tmp' = Missing
  /\ rotted' = FALSE
  /\ Written
  /\ UNCHANGED <<bak, btmp, lastGen, backedUp, budget>>

\* Any step fails: the temp file is removed and the error is returned, which
\* fails an open and is the outcome of a flush.
WriteFails ==
  /\ pc \in Writing
  /\ tmp' = Missing
  /\ pc' = IF goal = "flush" THEN "run" ELSE "down"
  /\ UNCHANGED <<main, bak, btmp, undo, local, history, budget>>

-----------------------------------------------------------------------------
(* backupStoreFile: best effort, the open goes on without it                *)

CreateBackup ==
  /\ pc = "backup" /\ main.there
  /\ btmp' = Torn
  /\ pc' = "copy"
  /\ UNCHANGED <<main, bak, tmp, undo, local, history, budget>>

\* io.Copy copies main as it is.
CopyBackup ==
  /\ pc = "copy"
  /\ btmp' = [main EXCEPT !.synced = FALSE]
  /\ pc' = "brename"
  /\ UNCHANGED <<main, bak, tmp, undo, local, history, budget>>

RenameBackup ==
  /\ pc = "brename"
  /\ bak' = btmp
  /\ btmp' = Missing
  /\ backedUp' = btmp.doc.gen
  /\ pc' = "run"
  /\ UNCHANGED <<main, tmp, undo, local, floor, rotted, budget>>

BackupFails ==
  /\ pc \in BackingUp
  /\ btmp' = Missing
  /\ pc' = "run"
  /\ UNCHANGED <<main, bak, tmp, undo, local, history, budget>>

-----------------------------------------------------------------------------
\* A save installs a new generation and the drainer flushes it.
Flush ==
  /\ pc = "run"
  /\ lastGen < MaxGen
  /\ lastGen' = lastGen + 1
  /\ mem' = [mem EXCEPT !.gen = lastGen + 1]
  /\ StartWrite([mem EXCEPT !.gen = lastGen + 1], "flush")
  /\ UNCHANGED <<disk, history, budget>>

-----------------------------------------------------------------------------
(* The environment                                                          *)

\* What power loss can leave of a file: data that was not synced may be gone.
AfterPowerLoss(f) ==
  IF f.there /\ ~f.synced THEN {f, Torn} ELSE {f}

\* What a crash of either kind has in common.
Dies ==
  /\ pc # "down"
  /\ crashes < MaxCrashes
  /\ crashes' = crashes + 1
  /\ pc' = "down"
  /\ UNCHANGED <<local, rots, wipes>>

\* The process dies at any point.
Crash ==
  /\ Dies
  /\ UNCHANGED <<disk, history>>

\* The generation that the next open finds in these two files.
Found(m, b) ==
  CASE m.whole -> m.doc.gen
    [] m.there /\ ~m.whole /\ b.whole -> b.doc.gen
    [] OTHER -> 0

\* A power loss also loses unsynced data and may undo renames over main, whose
\* directory is never synced: the promise shrinks to what the disk kept.
PowerFails ==
  /\ Dies
  /\ main' \in UNION {AfterPowerLoss(f) : f \in undo \cup {main}}
  /\ bak' \in AfterPowerLoss(bak)
  /\ tmp' \in AfterPowerLoss(tmp)
  /\ btmp' \in AfterPowerLoss(btmp)
  /\ undo' = {}
  /\ floor' = Found(main', bak')
  /\ backedUp' = IF bak'.whole THEN bak'.doc.gen ELSE 0
  /\ rotted' = (main'.there /\ ~main'.whole)

\* The kernel has written everything back.
Settle ==
  /\ undo # {} \/ ~bak.synced
  /\ undo' = {}
  /\ bak' = [bak EXCEPT !.synced = TRUE]
  /\ UNCHANGED <<main, tmp, btmp, pc, local, history, budget>>

\* A file decays while no open is reading it; what an open can still return is
\* the last backup.
RotMain ==
  /\ pc \in {"down", "run"}
  /\ rots < MaxRot /\ main.whole
  /\ rots' = rots + 1
  /\ main' = Decayed
  /\ undo' = {}
  /\ rotted' = TRUE
  /\ floor' = IF backedUp < floor THEN backedUp ELSE floor
  /\ UNCHANGED <<bak, tmp, btmp, pc, local, backedUp, crashes, wipes>>

\* With the backup the promise to return to it is gone, and all of it when main
\* had decayed before.
RotBackup ==
  /\ pc \in {"down", "run"}
  /\ rots < MaxRot /\ bak.whole
  /\ rots' = rots + 1
  /\ bak' = Decayed
  /\ backedUp' = 0
  /\ floor' = IF main.whole THEN floor ELSE 0
  /\ UNCHANGED <<main, tmp, btmp, undo, pc, local, rotted, crashes, wipes>>

\* "the volume can be pulled away under a running plugin"
Wipe ==
  /\ pc \in {"run"} \cup Writing
  /\ goal = "flush"
  /\ wipes < MaxWipes
  /\ wipes' = wipes + 1
  /\ main' = Missing /\ bak' = Missing /\ tmp' = Missing /\ btmp' = Missing
  /\ undo' = {}
  /\ floor' = 0 /\ backedUp' = 0 /\ rotted' = FALSE
  /\ UNCHANGED <<pc, local, crashes, rots>>

-----------------------------------------------------------------------------
Open == Boot \/ ReadMissing \/ ReadWhole \/ ReadCorrupt \/ ReadError
WriteStoreBytes == CreateTmp \/ WriteTmp \/ SyncTmp \/ RenameTmp \/ WriteFails
BackupStoreFile == CreateBackup \/ CopyBackup \/ RenameBackup \/ BackupFails
Environment == Crash \/ PowerFails \/ Settle \/ RotMain \/ RotBackup \/ Wipe

Next == Open \/ WriteStoreBytes \/ BackupStoreFile \/ Flush \/ Environment

Spec == Init /\ [][Next]_vars

-----------------------------------------------------------------------------
(* Properties                                                               *)

Serving == pc = "run" \/ (pc \in Writing /\ goal = "flush")

\* "a corrupt store must never silently become an empty one": a store that is
\* open never holds less than the acknowledged generations, or than the last
\* backup once main decayed (readStoreFile, newFilePersistence), and whichever
\* file it was read from, it is served on the current layout (upgradeStoreLayout).
NeverFallsBehind == Serving => mem.gen >= floor /\ mem.layout = LayoutVersion

\* Some file can be opened with nothing acknowledged missing, at every moment
\* of every open, flush and crash ("it may be the only recovery generation",
\* "otherwise the next backup refresh would clobber the only good copy").
AlwaysRecoverable ==
  floor > 0 => \E f \in {main, bak} : f.whole /\ f.doc.gen >= floor

\* What Save says: "returning once the write is durable (file synced or master
\* acknowledged)": an acknowledged generation is in the file after any crash of
\* the process, and what a power loss left is not lost later.  Only decay makes
\* the file unreadable: a crash leaves the old or the new document
\* (writeStoreBytes: temp file, sync, rename).
AckedSurvives ==
  /\ floor > 0 /\ ~rotted => main.whole /\ main.doc.gen >= floor
  /\ main.there /\ ~main.whole => main = Decayed
=============================================================================
