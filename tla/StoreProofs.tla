---------------------------- MODULE StoreProofs -----------------------------
(***************************************************************************)
(* Proofs about StoreFile, for every number of generations, crashes,       *)
(* decays and wipes, and about StoreDocument for any number of locations,  *)
(* contents, edits and starts of the process.                              *)
(***************************************************************************)
EXTENDS StoreFile, StoreDocument, SequenceTheorems, TLAPS

-----------------------------------------------------------------------------
(* StoreFile                                                                *)

\* No file and no document is of a generation that was not saved.
SavedOnly ==
  /\ \A f \in {main, bak, tmp, btmp} \cup undo : f.doc.gen <= lastGen
  /\ buf.gen <= lastGen /\ mem.gen <= lastGen
  /\ floor <= lastGen /\ backedUp <= lastGen

\* Only synced files get the name of the store, and only decay spoils one.
Stable(f) ==
  /\ f.whole => f.there
  /\ f.there => f.synced
  /\ f.there /\ ~f.whole => f = Decayed
NamesStable ==
  /\ \A f \in {main} \cup undo : Stable(f)
  /\ rotted <=> main.there /\ ~main.whole

\* What the temp files hold at each step of a write and of a backup.
TempsFollow ==
  /\ pc = "write" => tmp \in {Torn, Missing}
  /\ pc = "sync" => tmp \in {Whole(buf), Missing}
  /\ pc = "rename" => tmp \in {[Whole(buf) EXCEPT !.synced = TRUE], Missing}
  /\ pc \in BackingUp => main.whole
  /\ pc = "brename" => btmp = [main EXCEPT !.synced = FALSE]

\* The backup is what the history says it is.
BackupKept == backedUp > 0 => bak.whole /\ bak.doc.gen = backedUp

\* What is being written is no older than what must survive, and why.
BufferCovers ==
  /\ mem.layout = LayoutVersion
  /\ pc \in Writing =>
       /\ goal = "heal" => bak.whole /\ buf = bak.doc /\ main.there /\ ~main.whole
       /\ goal = "stamp" => buf = mem /\ floor <= buf.gen
       /\ goal = "flush" => buf = mem /\ buf.gen = lastGen
  /\ pc \in BackingUp \cup {"run"} => floor <= mem.gen

StoreIInv ==
  /\ TypeOK /\ SavedOnly /\ NamesStable /\ TempsFollow /\ BackupKept /\ BufferCovers
  /\ AlwaysRecoverable /\ AckedSurvives

-----------------------------------------------------------------------------
\* What the records that a step puts in place look like.
LEMMA DocFacts ==
  /\ EmptyDoc \in Doc /\ EmptyDoc.gen = 0 /\ EmptyDoc.layout = LayoutVersion
  /\ \A d \in Doc : /\ UpgradeStoreLayout(d) \in Doc
                    /\ UpgradeStoreLayout(d).gen = d.gen
                    /\ UpgradeStoreLayout(d).layout = LayoutVersion
                    /\ d.layout = LayoutVersion => UpgradeStoreLayout(d) = d
                    /\ d.gen \in 0 .. MaxGen
<1>1. EmptyDoc \in Doc /\ EmptyDoc.gen = 0 /\ EmptyDoc.layout = LayoutVersion
  BY BoundsAssumption DEF EmptyDoc, Doc, LayoutVersion
<1>2. ASSUME NEW d \in Doc
      PROVE  /\ UpgradeStoreLayout(d) \in Doc
             /\ UpgradeStoreLayout(d).gen = d.gen
             /\ UpgradeStoreLayout(d).layout = LayoutVersion
             /\ d.layout = LayoutVersion => UpgradeStoreLayout(d) = d
             /\ d.gen \in 0 .. MaxGen
  BY DEF Doc, UpgradeStoreLayout, LayoutVersion
<1> QED
  BY <1>1, <1>2

LEMMA FileFacts ==
  /\ Missing \in File /\ Torn \in File /\ Decayed \in File
  /\ \A d \in Doc : Whole(d) \in File /\ [Whole(d) EXCEPT !.synced = TRUE] \in File
  /\ \A f \in File : /\ [f EXCEPT !.synced = TRUE] \in File
                     /\ [f EXCEPT !.synced = FALSE] \in File
                     /\ f.synced = TRUE => [f EXCEPT !.synced = TRUE] = f
                     /\ f.doc \in Doc
<1>1. EmptyDoc \in Doc
  BY DocFacts
<1>2. Missing \in File /\ Torn \in File /\ Decayed \in File
  BY <1>1 DEF Missing, Torn, Decayed, File
<1>3. \A d \in Doc : Whole(d) \in File /\ [Whole(d) EXCEPT !.synced = TRUE] \in File
  BY DEF Whole, File
<1>4. \A f \in File : /\ [f EXCEPT !.synced = TRUE] \in File
                      /\ [f EXCEPT !.synced = FALSE] \in File
                      /\ f.synced = TRUE => [f EXCEPT !.synced = TRUE] = f
                      /\ f.doc \in Doc
  BY DEF File
<1> QED
  BY <1>2, <1>3, <1>4

\* A document that was read is upgraded and goes on to be written or backed up.
LEMMA OpenedEffect ==
  ASSUME NEW d \in Doc, buf \in Doc, goal \in {"heal", "stamp", "flush"}, Opened(d)
  PROVE  /\ mem' \in Doc /\ buf' \in Doc
         /\ goal' \in {"heal", "stamp", "flush"}
         /\ mem'.gen = d.gen /\ mem'.layout = LayoutVersion
         /\ \/ pc' = "create" /\ goal' = "stamp" /\ buf' = mem'
            \/ pc' = "backup" /\ buf' = buf /\ goal' = goal
  BY DocFacts DEF Opened, StartWrite

-----------------------------------------------------------------------------
LEMMA TypeStep == TypeOK /\ [Next]_vars => TypeOK'
<1> SUFFICES ASSUME TypeOK, [Next]_vars PROVE TypeOK'
  OBVIOUS
<1> USE BoundsAssumption
<1>1. CASE Boot
  BY <1>1, FileFacts, DocFacts DEF Boot, TypeOK, local, history, budget
<1>2. CASE ReadMissing
  BY <1>2, FileFacts, DocFacts DEF ReadMissing, StartWrite, TypeOK, disk, history, budget, Writing
<1>3. CASE ReadWhole
  <2>1. main.doc \in Doc
    BY FileFacts DEF TypeOK
  <2>2. /\ mem' \in Doc /\ buf' \in Doc
        /\ goal' \in {"heal", "stamp", "flush"}
        /\ pc' \in {"create", "backup"}
    BY <1>3, <2>1, OpenedEffect DEF ReadWhole, TypeOK
  <2> QED
    BY <1>3, <2>2 DEF ReadWhole, TypeOK, disk, history, budget, Writing, BackingUp
<1>4. CASE ReadCorrupt
  <2>1. buf' \in Doc /\ goal' \in {"heal", "stamp", "flush"} /\ pc' \in {"create", "down"}
    BY <1>4, FileFacts DEF ReadCorrupt, StartWrite, TypeOK
  <2> QED
    BY <1>4, <2>1 DEF ReadCorrupt, TypeOK, disk, history, budget, Writing
<1>5. CASE ReadError
  BY <1>5, FileFacts, DocFacts DEF ReadError, TypeOK, disk, local, history, budget
<1>6. CASE CreateTmp
  BY <1>6, FileFacts, DocFacts DEF CreateTmp, TypeOK, local, history, budget, Writing
<1>7. CASE WriteTmp
  <2>1. tmp' \in File
    BY <1>7, FileFacts DEF WriteTmp, TypeOK
  <2> QED
    BY <1>7, <2>1 DEF WriteTmp, TypeOK, local, history, budget, Writing
<1>8. CASE SyncTmp
  BY <1>8, FileFacts, DocFacts DEF SyncTmp, TypeOK, local, history, budget, Writing
<1>9. CASE RenameTmp
  <2>1. /\ mem' \in Doc /\ buf' \in Doc
        /\ goal' \in {"heal", "stamp", "flush"}
        /\ pc' \in {"run", "create", "backup"}
        /\ floor' \in 0 .. MaxGen
    <3>1. CASE goal = "flush"
      BY <1>9, <3>1, DocFacts DEF RenameTmp, Written, TypeOK
    <3>2. CASE goal = "heal"
      BY <1>9, <3>2, OpenedEffect DEF RenameTmp, Written, TypeOK
    <3>3. CASE goal = "stamp"
      BY <1>9, <3>3 DEF RenameTmp, Written, TypeOK
    <3> QED
      BY <3>1, <3>2, <3>3 DEF TypeOK
  <2>2. {main, bak, tmp, btmp}' \cup undo' \subseteq File
    BY <1>9, FileFacts DEF RenameTmp, TypeOK
  <2> QED
    BY <1>9, <2>1, <2>2 DEF RenameTmp, TypeOK, budget, Writing, BackingUp
<1>10. CASE WriteFails
  BY <1>10, FileFacts, DocFacts DEF WriteFails, TypeOK, local, history, budget
<1>11. CASE CreateBackup
  BY <1>11, FileFacts, DocFacts DEF CreateBackup, TypeOK, local, history, budget, BackingUp
<1>12. CASE CopyBackup
  BY <1>12, FileFacts, DocFacts DEF CopyBackup, TypeOK, local, history, budget, BackingUp
<1>13. CASE RenameBackup
  <2>1. btmp.doc.gen \in 0 .. MaxGen
    BY FileFacts, DocFacts DEF TypeOK
  <2> QED
    BY <1>13, <2>1, FileFacts DEF RenameBackup, TypeOK, local, budget
<1>14. CASE BackupFails
  BY <1>14, FileFacts, DocFacts DEF BackupFails, TypeOK, local, history, budget
<1>15. CASE Flush
  <2>1. [mem EXCEPT !.gen = lastGen + 1] \in Doc /\ lastGen + 1 \in 0 .. MaxGen
    BY <1>15 DEF Flush, TypeOK, Doc
  <2> QED
    BY <1>15, <2>1 DEF Flush, StartWrite, TypeOK, disk, history, budget, Writing
<1>16. CASE Crash
  BY <1>16, FileFacts, DocFacts DEF Crash, Dies, TypeOK, disk, local, history
<1>17. CASE PowerFails
  <2>1. {main, bak, tmp, btmp}' \cup undo' \subseteq File
    BY <1>17, FileFacts DEF PowerFails, AfterPowerLoss, TypeOK
  <2>2. floor' \in 0 .. MaxGen /\ backedUp' \in 0 .. MaxGen /\ rotted' \in BOOLEAN
    BY <1>17, <2>1, FileFacts, DocFacts DEF PowerFails, Found
  <2> QED
    BY <1>17, <2>1, <2>2 DEF PowerFails, Dies, TypeOK, local
<1>18. CASE Settle
  BY <1>18, FileFacts, DocFacts DEF Settle, TypeOK, local, history, budget
<1>19. CASE RotMain
  BY <1>19, FileFacts, DocFacts DEF RotMain, TypeOK, local
<1>20. CASE RotBackup
  BY <1>20, FileFacts, DocFacts DEF RotBackup, TypeOK, local
<1>21. CASE Wipe
  <2>1. {main, bak, tmp, btmp}' \cup undo' \subseteq File
    <3>1. {main, bak, tmp, btmp}' \cup undo' = {Missing}
      BY <1>21 DEF Wipe
    <3> QED
      BY <3>1, FileFacts
  <2>2. pc' = pc /\ buf' = buf /\ mem' = mem /\ goal' = goal /\ lastGen' = lastGen
    BY <1>21 DEF Wipe, local
  <2>3. floor' \in 0 .. MaxGen /\ backedUp' \in 0 .. MaxGen /\ wipes' \in 0 .. MaxWipes
    BY <1>21 DEF Wipe, TypeOK
  <2> QED
    BY <1>21, <2>1, <2>2, <2>3 DEF Wipe, TypeOK, BackingUp
<1>22. CASE UNCHANGED vars
  BY <1>22 DEF vars, TypeOK, disk, local, history, budget
<1> QED
  BY <1>1, <1>2, <1>3, <1>4, <1>5, <1>6, <1>7, <1>8, <1>9, <1>10, <1>11, <1>12, <1>13, <1>14,
     <1>15, <1>16, <1>17, <1>18, <1>19, <1>20, <1>21, <1>22
  DEF Next, Open, WriteStoreBytes, BackupStoreFile, Environment

LEMMA TypeInit == Init => TypeOK
<1> SUFFICES ASSUME NEW existed \in BOOLEAN, NEW backup \in BOOLEAN,
                  NEW layout \in {1, LayoutVersion},
                  NEW old, old = [gen |-> 1, layout |-> layout],
                  main = IF existed THEN [Whole(old) EXCEPT !.synced = TRUE] ELSE Missing,
                  bak = IF backup THEN [Whole(old) EXCEPT !.synced = TRUE] ELSE Missing,
                  tmp = Missing, btmp = Missing, undo = {}, pc = "down",
                  buf = EmptyDoc, mem = EmptyDoc, goal = "flush",
                  lastGen = IF existed THEN 1 ELSE 0, floor = lastGen,
                  backedUp = IF backup THEN 1 ELSE 0, rotted = FALSE,
                  crashes = 0, rots = 0, wipes = 0
           PROVE  TypeOK
  BY Zenon DEF Init
<1>1. old \in Doc /\ 1 \in 0 .. MaxGen
  BY BoundsAssumption DEF Doc
<1>2. main \in File /\ bak \in File /\ Missing \in File
  BY <1>1, FileFacts
<1>3. {main, bak, tmp, btmp} \cup undo = {main, bak, Missing}
  OBVIOUS
<1>4. lastGen \in 0 .. MaxGen /\ floor \in 0 .. MaxGen /\ backedUp \in 0 .. MaxGen
  <2>1. 0 \in 0 .. MaxGen
    BY BoundsAssumption
  <2> QED
    BY <1>1, <2>1
<1>5. crashes \in 0 .. MaxCrashes /\ rots \in 0 .. MaxRot /\ wipes \in 0 .. MaxWipes
  BY BoundsAssumption
<1>6. buf \in Doc /\ mem \in Doc
  BY DocFacts
<1> QED
  BY <1>2, <1>3, <1>4, <1>5, <1>6 DEF TypeOK, Writing, BackingUp

\* Files, documents and program counters keep their types.
THEOREM TypeCorrect == Spec => []TypeOK
<1> QED
  BY TypeInit, TypeStep, PTL DEF Spec

-----------------------------------------------------------------------------
\* Generations are numbers.
LEMMA Generations ==
  ASSUME TypeOK
  PROVE  /\ \A f \in {main, bak, tmp, btmp} \cup undo : f.doc \in Doc /\ f.doc.gen \in Nat
         /\ buf.gen \in Nat /\ mem.gen \in Nat
         /\ lastGen \in Nat /\ floor \in Nat /\ backedUp \in Nat
<1>1. \A d \in Doc : d.gen \in Nat
  BY DocFacts
<1>2. \A f \in {main, bak, tmp, btmp} \cup undo : f.doc \in Doc
  BY FileFacts DEF TypeOK
<1> QED
  BY <1>1, <1>2 DEF TypeOK

\* The file that is renamed holds what was to be written, whole and synced.
LEMMA RenameEffect ==
  ASSUME StoreIInv, RenameTmp
  PROVE  /\ main'.there /\ main'.whole /\ main'.doc = buf /\ main'.synced
         /\ undo' = undo \cup {main} /\ tmp' = Missing /\ rotted' = FALSE
         /\ UNCHANGED <<bak, btmp, lastGen, backedUp>>
         /\ floor' <= buf.gen /\ floor' <= lastGen
         /\ mem'.gen = buf.gen /\ mem'.layout = LayoutVersion
         /\ \/ /\ goal = "flush" /\ pc' = "run"
               /\ floor' = IF buf.gen > floor THEN buf.gen ELSE floor
               /\ UNCHANGED <<buf, goal, mem>>
            \/ /\ goal = "heal" /\ floor' = floor
               /\ \/ pc' = "create" /\ goal' = "stamp" /\ buf' = mem'
                  \/ pc' = "backup" /\ UNCHANGED <<buf, goal>>
            \/ /\ goal = "stamp" /\ pc' = "backup"
               /\ UNCHANGED <<buf, goal, mem, floor>>
<1>1. tmp = [Whole(buf) EXCEPT !.synced = TRUE]
  BY DEF StoreIInv, TempsFollow, RenameTmp, Missing
<1>2. main'.there /\ main'.whole /\ main'.doc = buf /\ main'.synced
  BY <1>1 DEF RenameTmp, Whole
<1>3. goal = "heal" => Opened(buf) /\ UNCHANGED floor
  BY DEF RenameTmp, Written
<1>4. goal = "heal" => /\ mem'.gen = buf.gen /\ mem'.layout = LayoutVersion
                       /\ \/ pc' = "create" /\ goal' = "stamp" /\ buf' = mem'
                          \/ pc' = "backup" /\ UNCHANGED <<buf, goal>>
  BY <1>3, OpenedEffect DEF StoreIInv, TypeOK
<1>5. floor <= buf.gen
  <2>1. floor \in Nat /\ buf.gen \in Nat /\ bak.doc.gen \in Nat
    BY Generations DEF StoreIInv
  <2>2. goal = "heal" => floor <= buf.gen
    BY <2>1 DEF StoreIInv, RenameTmp, BufferCovers, AlwaysRecoverable, Writing
  <2> QED
    BY <2>1, <2>2 DEF StoreIInv, TypeOK, RenameTmp, BufferCovers, SavedOnly, Writing
<1>6. floor' <= buf.gen /\ floor' <= lastGen
  <2>1. floor' = floor \/ floor' = buf.gen
    BY <1>3 DEF RenameTmp, Written, StoreIInv, TypeOK
  <2> QED
    BY <1>5, <2>1, Generations DEF StoreIInv, SavedOnly
<1>7. goal # "heal" => mem' = mem /\ mem = buf
  BY DEF RenameTmp, Written, StoreIInv, TypeOK, BufferCovers, Writing
<1>8. mem'.gen = buf.gen /\ mem'.layout = LayoutVersion
  BY <1>4, <1>7 DEF StoreIInv, BufferCovers
<1> QED
  BY <1>2, <1>3, <1>4, <1>6, <1>8 DEF RenameTmp, Written, StoreIInv, TypeOK

\* The open of a whole store takes its document as it is.
LEMMA ReadEffect ==
  ASSUME StoreIInv, ReadWhole
  PROVE  /\ UNCHANGED <<disk, lastGen, history>>
         /\ mem'.gen = main.doc.gen /\ mem'.layout = LayoutVersion
         /\ main.there /\ main.whole
         /\ \/ pc' = "create" /\ goal' = "stamp" /\ buf' = mem'
            \/ pc' = "backup" /\ UNCHANGED <<buf, goal>>
<1>1. main.doc \in Doc
  BY FileFacts DEF StoreIInv, TypeOK
<1> QED
  BY <1>1, OpenedEffect DEF ReadWhole, StoreIInv, TypeOK

-----------------------------------------------------------------------------
LEMMA SavedOnlyStep == StoreIInv /\ TypeOK' /\ [Next]_vars => SavedOnly'
<1> SUFFICES ASSUME StoreIInv, TypeOK', [Next]_vars PROVE SavedOnly'
  OBVIOUS
<1> USE Generations DEF StoreIInv
<1>1. CASE Boot
  BY <1>1 DEF Boot, SavedOnly, local, history, Missing, EmptyDoc
<1>2. CASE ReadMissing
  BY <1>2 DEF ReadMissing, StartWrite, SavedOnly, disk, history, EmptyDoc
<1>3. CASE ReadWhole
  BY <1>3, ReadEffect DEF SavedOnly, disk, history
<1>4. CASE ReadCorrupt
  BY <1>4 DEF ReadCorrupt, StartWrite, SavedOnly, disk, history
<1>5. CASE ReadError
  BY <1>5 DEF ReadError, SavedOnly, disk, local, history
<1>6. CASE CreateTmp
  BY <1>6 DEF CreateTmp, SavedOnly, local, history, Torn, EmptyDoc
<1>7. CASE WriteTmp
  BY <1>7 DEF WriteTmp, SavedOnly, local, history, Whole
<1>8. CASE SyncTmp
  BY <1>8 DEF SyncTmp, SavedOnly, TempsFollow, local, history, Missing, Whole
<1>9. CASE RenameTmp
  <2>1. Missing.doc.gen = 0
    BY DEF Missing, EmptyDoc
  <2>2. /\ main'.doc.gen <= lastGen' /\ tmp'.doc.gen <= lastGen'
        /\ bak'.doc.gen <= lastGen' /\ btmp'.doc.gen <= lastGen'
        /\ \A f \in undo' : f.doc.gen <= lastGen'
    <3>1. lastGen' = lastGen /\ lastGen \in Nat
      BY <1>9, RenameEffect
    <3>2. \A f \in undo \cup {main} : f.doc.gen <= lastGen
      BY DEF SavedOnly
    <3>3. tmp'.doc.gen = 0 /\ main'.doc = buf /\ bak' = bak /\ btmp' = btmp
      BY <1>9, <2>1, RenameEffect
    <3>4. undo' = undo \cup {main}
      BY <1>9, RenameEffect
    <3>5. buf.gen <= lastGen /\ bak.doc.gen <= lastGen /\ btmp.doc.gen <= lastGen
      BY DEF SavedOnly
    <3> QED
      BY <3>1, <3>2, <3>3, <3>4, <3>5
  <2>3. buf'.gen <= lastGen' /\ mem'.gen <= lastGen' /\ backedUp' <= lastGen'
    BY <1>9, RenameEffect DEF SavedOnly
  <2> QED
    BY <1>9, <2>2, <2>3, RenameEffect DEF SavedOnly
<1>10. CASE WriteFails
  BY <1>10 DEF WriteFails, SavedOnly, local, history, Missing, EmptyDoc
<1>11. CASE CreateBackup
  BY <1>11 DEF CreateBackup, SavedOnly, local, history, Torn, EmptyDoc
<1>12. CASE CopyBackup
  <2>1. btmp'.doc = main.doc
    BY <1>12, Generations DEF CopyBackup, TypeOK, File
  <2> QED
    BY <1>12, <2>1 DEF CopyBackup, SavedOnly, local, history
<1>13. CASE RenameBackup
  BY <1>13 DEF RenameBackup, SavedOnly, local, Missing, EmptyDoc
<1>14. CASE BackupFails
  BY <1>14 DEF BackupFails, SavedOnly, local, history, Missing, EmptyDoc
<1>15. CASE Flush
  BY <1>15 DEF Flush, StartWrite, SavedOnly, disk, history
<1>16. CASE Crash
  BY <1>16 DEF Crash, Dies, SavedOnly, disk, local, history
<1>17. CASE PowerFails
  BY <1>17 DEF PowerFails, Dies, AfterPowerLoss, Found, SavedOnly, local, Torn, EmptyDoc
<1>18. CASE Settle
  BY <1>18 DEF Settle, SavedOnly, local, history
<1>19. CASE RotMain
  BY <1>19 DEF RotMain, SavedOnly, local, Torn, Decayed, EmptyDoc
<1>20. CASE RotBackup
  BY <1>20 DEF RotBackup, SavedOnly, local, Torn, Decayed, EmptyDoc
<1>21. CASE Wipe
  BY <1>21 DEF Wipe, SavedOnly, local, Missing, EmptyDoc
<1>22. CASE UNCHANGED vars
  BY <1>22 DEF vars, SavedOnly, disk, local, history
<1> QED
  BY <1>1, <1>2, <1>3, <1>4, <1>5, <1>6, <1>7, <1>8, <1>9, <1>10, <1>11, <1>12, <1>13, <1>14,
     <1>15, <1>16, <1>17, <1>18, <1>19, <1>20, <1>21, <1>22
  DEF Next, Open, WriteStoreBytes, BackupStoreFile, Environment

LEMMA NamesStep == StoreIInv /\ TypeOK' /\ [Next]_vars => NamesStable'
<1> SUFFICES ASSUME StoreIInv, TypeOK', [Next]_vars PROVE NamesStable'
  OBVIOUS
<1> USE Generations DEF StoreIInv
<1>1. CASE Boot
  BY <1>1 DEF Boot, NamesStable, history
<1>2. CASE ReadMissing
  BY <1>2 DEF ReadMissing, NamesStable, disk, history
<1>3. CASE ReadWhole
  BY <1>3 DEF ReadWhole, NamesStable, disk, history
<1>4. CASE ReadCorrupt
  BY <1>4 DEF ReadCorrupt, NamesStable, disk, history
<1>5. CASE ReadError
  BY <1>5 DEF ReadError, NamesStable, disk, history
<1>6. CASE CreateTmp
  BY <1>6 DEF CreateTmp, NamesStable, history
<1>7. CASE WriteTmp
  BY <1>7 DEF WriteTmp, NamesStable, history
<1>8. CASE SyncTmp
  BY <1>8 DEF SyncTmp, NamesStable, history
<1>9. CASE RenameTmp
  BY <1>9, RenameEffect DEF NamesStable, Stable, EmptyDoc
<1>10. CASE WriteFails
  BY <1>10 DEF WriteFails, NamesStable, history
<1>11. CASE CreateBackup
  BY <1>11 DEF CreateBackup, NamesStable, history
<1>12. CASE CopyBackup
  BY <1>12 DEF CopyBackup, NamesStable, history
<1>13. CASE RenameBackup
  BY <1>13 DEF RenameBackup, NamesStable, Stable
<1>14. CASE BackupFails
  BY <1>14 DEF BackupFails, NamesStable, history
<1>15. CASE Flush
  BY <1>15 DEF Flush, NamesStable, disk, history
<1>16. CASE Crash
  BY <1>16 DEF Crash, NamesStable, disk, history
<1>17. CASE PowerFails
  BY <1>17 DEF PowerFails, AfterPowerLoss, NamesStable, Stable, BackingUp
<1>18. CASE Settle
  BY <1>18 DEF Settle, NamesStable, history
<1>19. CASE RotMain
  BY <1>19 DEF RotMain, NamesStable, Stable, Torn, Decayed
<1>20. CASE RotBackup
  BY <1>20 DEF RotBackup, NamesStable, Stable
<1>21. CASE Wipe
  BY <1>21 DEF Wipe, NamesStable, Stable, Missing
<1>22. CASE UNCHANGED vars
  BY <1>22 DEF vars, NamesStable, disk, history
<1> QED
  BY <1>1, <1>2, <1>3, <1>4, <1>5, <1>6, <1>7, <1>8, <1>9, <1>10, <1>11, <1>12, <1>13, <1>14,
     <1>15, <1>16, <1>17, <1>18, <1>19, <1>20, <1>21, <1>22
  DEF Next, Open, WriteStoreBytes, BackupStoreFile, Environment

LEMMA TempsStep == StoreIInv /\ TypeOK' /\ [Next]_vars => TempsFollow'
<1> SUFFICES ASSUME StoreIInv, TypeOK', [Next]_vars PROVE TempsFollow'
  OBVIOUS
<1> USE Generations DEF StoreIInv
<1>1. CASE Boot
  BY <1>1 DEF Boot, TempsFollow, BackingUp
<1>2. CASE ReadMissing
  BY <1>2 DEF ReadMissing, StartWrite, TempsFollow, BackingUp
<1>3. CASE ReadWhole
  BY <1>3 DEF ReadWhole, Opened, StartWrite, TempsFollow, disk
<1>4. CASE ReadCorrupt
  BY <1>4 DEF ReadCorrupt, StartWrite, TempsFollow, BackingUp
<1>5. CASE ReadError
  BY <1>5 DEF ReadError, TempsFollow, BackingUp
<1>6. CASE CreateTmp
  BY <1>6 DEF CreateTmp, TempsFollow, BackingUp
<1>7. CASE WriteTmp
  BY <1>7 DEF WriteTmp, TempsFollow, local, Torn, BackingUp
<1>8. CASE SyncTmp
  <2>1. tmp \in {Whole(buf), Missing} /\ pc' = "rename" /\ buf' = buf
    BY <1>8 DEF SyncTmp, TempsFollow, local
  <2>2. tmp' \in {[Whole(buf) EXCEPT !.synced = TRUE], Missing}
    <3>1. [Missing EXCEPT !.synced = TRUE] = Missing
      BY FileFacts DEF Missing
    <3> QED
      BY <1>8, <2>1, <3>1 DEF SyncTmp
  <2> QED
    BY <2>1, <2>2 DEF TempsFollow, BackingUp
<1>9. CASE RenameTmp
  BY <1>9, RenameEffect DEF TempsFollow, Missing, EmptyDoc
<1>10. CASE WriteFails
  BY <1>10 DEF WriteFails, TempsFollow, BackingUp
<1>11. CASE CreateBackup
  BY <1>11 DEF CreateBackup, TempsFollow, BackingUp
<1>12. CASE CopyBackup
  BY <1>12 DEF CopyBackup, TempsFollow, BackingUp
<1>13. CASE RenameBackup
  BY <1>13 DEF RenameBackup, TempsFollow, BackingUp
<1>14. CASE BackupFails
  BY <1>14 DEF BackupFails, TempsFollow, Stable
<1>15. CASE Flush
  BY <1>15 DEF Flush, StartWrite, TempsFollow, BackingUp
<1>16. CASE Crash
  BY <1>16 DEF Crash, Dies, TempsFollow, BackingUp
<1>17. CASE PowerFails
  BY <1>17 DEF PowerFails, Dies, TempsFollow, BackingUp
<1>18. CASE Settle
  BY <1>18 DEF Settle, TempsFollow, local
<1>19. CASE RotMain
  BY <1>19 DEF RotMain, TempsFollow, BackingUp
<1>20. CASE RotBackup
  BY <1>20 DEF RotBackup, TempsFollow, Stable
<1>21. CASE Wipe
  BY <1>21 DEF Wipe, TempsFollow, Writing, BackingUp
<1>22. CASE UNCHANGED vars
  BY <1>22 DEF vars, TempsFollow, disk, local
<1> QED
  BY <1>1, <1>2, <1>3, <1>4, <1>5, <1>6, <1>7, <1>8, <1>9, <1>10, <1>11, <1>12, <1>13, <1>14,
     <1>15, <1>16, <1>17, <1>18, <1>19, <1>20, <1>21, <1>22
  DEF Next, Open, WriteStoreBytes, BackupStoreFile, Environment

LEMMA BackupStep == StoreIInv /\ TypeOK' /\ [Next]_vars => BackupKept'
<1> SUFFICES ASSUME StoreIInv, TypeOK', [Next]_vars PROVE BackupKept'
  OBVIOUS
<1> USE Generations DEF StoreIInv
<1>1. CASE Boot
  BY <1>1 DEF Boot, BackupKept, history
<1>2. CASE ReadMissing
  BY <1>2 DEF ReadMissing, BackupKept, disk, history
<1>3. CASE ReadWhole
  BY <1>3 DEF ReadWhole, BackupKept, disk, history
<1>4. CASE ReadCorrupt
  BY <1>4 DEF ReadCorrupt, BackupKept, disk, history
<1>5. CASE ReadError
  BY <1>5 DEF ReadError, BackupKept, disk, history
<1>6. CASE CreateTmp
  BY <1>6 DEF CreateTmp, BackupKept, history
<1>7. CASE WriteTmp
  BY <1>7 DEF WriteTmp, BackupKept, history
<1>8. CASE SyncTmp
  BY <1>8 DEF SyncTmp, BackupKept, history
<1>9. CASE RenameTmp
  BY <1>9, RenameEffect DEF BackupKept, Missing, EmptyDoc
<1>10. CASE WriteFails
  BY <1>10 DEF WriteFails, BackupKept, history
<1>11. CASE CreateBackup
  BY <1>11 DEF CreateBackup, BackupKept, history
<1>12. CASE CopyBackup
  BY <1>12 DEF CopyBackup, BackupKept, history
<1>13. CASE RenameBackup
  <2>1. btmp.whole
    BY <1>13 DEF RenameBackup, TempsFollow, TypeOK, File, BackingUp
  <2> QED
    BY <1>13, <2>1 DEF RenameBackup, BackupKept
<1>14. CASE BackupFails
  BY <1>14 DEF BackupFails, BackupKept, history
<1>15. CASE Flush
  BY <1>15 DEF Flush, BackupKept, disk, history
<1>16. CASE Crash
  BY <1>16 DEF Crash, BackupKept, disk, history
<1>17. CASE PowerFails
  BY <1>17 DEF PowerFails, Found, BackupKept
<1>18. CASE Settle
  BY <1>18 DEF Settle, BackupKept, history
<1>19. CASE RotMain
  BY <1>19 DEF RotMain, BackupKept, TempsFollow
<1>20. CASE RotBackup
  BY <1>20 DEF RotBackup, BackupKept, TempsFollow
<1>21. CASE Wipe
  BY <1>21 DEF Wipe, BackupKept, TempsFollow
<1>22. CASE UNCHANGED vars
  BY <1>22 DEF vars, BackupKept, disk, history
<1> QED
  BY <1>1, <1>2, <1>3, <1>4, <1>5, <1>6, <1>7, <1>8, <1>9, <1>10, <1>11, <1>12, <1>13, <1>14,
     <1>15, <1>16, <1>17, <1>18, <1>19, <1>20, <1>21, <1>22
  DEF Next, Open, WriteStoreBytes, BackupStoreFile, Environment

LEMMA BufferStep == StoreIInv /\ TypeOK' /\ [Next]_vars => BufferCovers'
<1> SUFFICES ASSUME StoreIInv, TypeOK', [Next]_vars PROVE BufferCovers'
  OBVIOUS
<1> USE Generations DEF StoreIInv
<1>1. CASE Boot
  BY <1>1 DEF Boot, BufferCovers, local, Writing, BackingUp
<1>2. CASE ReadMissing
  BY <1>2 DEF ReadMissing, StartWrite, BufferCovers, NamesStable, Stable, AckedSurvives, history,
     EmptyDoc
<1>3. CASE ReadWhole
  BY <1>3, ReadEffect DEF BufferCovers, AckedSurvives, NamesStable, history, Writing
<1>4. CASE ReadCorrupt
  BY <1>4 DEF ReadCorrupt, StartWrite, BufferCovers, disk, Writing, BackingUp
<1>5. CASE ReadError
  BY <1>5 DEF ReadError, BufferCovers, local, Writing, BackingUp
<1>6. CASE CreateTmp
  BY <1>6 DEF CreateTmp, TypeOK, BufferCovers, local, history, BackingUp
<1>7. CASE WriteTmp
  BY <1>7 DEF WriteTmp, TypeOK, BufferCovers, local, history, BackingUp
<1>8. CASE SyncTmp
  BY <1>8 DEF SyncTmp, TypeOK, BufferCovers, local, history, BackingUp
<1>9. CASE RenameTmp
  BY <1>9, RenameEffect DEF BufferCovers, Writing, TypeOK
<1>10. CASE WriteFails
  BY <1>10 DEF WriteFails, BufferCovers, SavedOnly, local, history, BackingUp
<1>11. CASE CreateBackup
  BY <1>11 DEF CreateBackup, TypeOK, BufferCovers, local, history, Writing
<1>12. CASE CopyBackup
  BY <1>12 DEF CopyBackup, TypeOK, BufferCovers, local, history, Writing
<1>13. CASE RenameBackup
  BY <1>13 DEF RenameBackup, TypeOK, BufferCovers, local, Writing
<1>14. CASE BackupFails
  BY <1>14 DEF BackupFails, BufferCovers, local, history, Writing
<1>15. CASE Flush
  BY <1>15 DEF Flush, StartWrite, BufferCovers, SavedOnly, history
<1>16. CASE Crash
  BY <1>16 DEF Crash, Dies, BufferCovers, local, Writing, BackingUp
<1>17. CASE PowerFails
  BY <1>17 DEF PowerFails, Dies, BufferCovers, local, Writing, BackingUp
<1>18. CASE Settle
  BY <1>18 DEF Settle, BufferCovers, local, history
<1>19. CASE RotMain
  BY <1>19 DEF RotMain, BufferCovers, local
<1>20. CASE RotBackup
  BY <1>20 DEF RotBackup, BufferCovers, local, Writing
<1>21. CASE Wipe
  BY <1>21 DEF Wipe, BufferCovers, local
<1>22. CASE UNCHANGED vars
  BY <1>22 DEF vars, BufferCovers, disk, local, history
<1> QED
  BY <1>1, <1>2, <1>3, <1>4, <1>5, <1>6, <1>7, <1>8, <1>9, <1>10, <1>11, <1>12, <1>13, <1>14,
     <1>15, <1>16, <1>17, <1>18, <1>19, <1>20, <1>21, <1>22
  DEF Next, Open, WriteStoreBytes, BackupStoreFile, Environment

LEMMA RecoverStep == StoreIInv /\ TypeOK' /\ [Next]_vars => AlwaysRecoverable'
<1> SUFFICES ASSUME StoreIInv, TypeOK', [Next]_vars PROVE AlwaysRecoverable'
  OBVIOUS
<1> USE Generations DEF StoreIInv
<1>1. CASE Boot
  BY <1>1 DEF Boot, AlwaysRecoverable, history
<1>2. CASE ReadMissing
  BY <1>2 DEF ReadMissing, AlwaysRecoverable, disk, history
<1>3. CASE ReadWhole
  BY <1>3 DEF ReadWhole, AlwaysRecoverable, disk, history
<1>4. CASE ReadCorrupt
  BY <1>4 DEF ReadCorrupt, AlwaysRecoverable, disk, history
<1>5. CASE ReadError
  BY <1>5 DEF ReadError, AlwaysRecoverable, disk, history
<1>6. CASE CreateTmp
  BY <1>6 DEF CreateTmp, AlwaysRecoverable, history
<1>7. CASE WriteTmp
  BY <1>7 DEF WriteTmp, AlwaysRecoverable, history
<1>8. CASE SyncTmp
  BY <1>8 DEF SyncTmp, AlwaysRecoverable, history
<1>9. CASE RenameTmp
  BY <1>9, RenameEffect DEF AlwaysRecoverable
<1>10. CASE WriteFails
  BY <1>10 DEF WriteFails, AlwaysRecoverable, history
<1>11. CASE CreateBackup
  BY <1>11 DEF CreateBackup, AlwaysRecoverable, history
<1>12. CASE CopyBackup
  BY <1>12 DEF CopyBackup, AlwaysRecoverable, history
<1>13. CASE RenameBackup
  BY <1>13 DEF RenameBackup, AlwaysRecoverable, AckedSurvives, NamesStable, TempsFollow, BackingUp
<1>14. CASE BackupFails
  BY <1>14 DEF BackupFails, AlwaysRecoverable, history
<1>15. CASE Flush
  BY <1>15 DEF Flush, AlwaysRecoverable, disk, history
<1>16. CASE Crash
  BY <1>16 DEF Crash, AlwaysRecoverable, disk, history
<1>17. CASE PowerFails
  BY <1>17 DEF PowerFails, Found, TypeOK, AlwaysRecoverable
<1>18. CASE Settle
  BY <1>18 DEF Settle, AlwaysRecoverable, history
<1>19. CASE RotMain
  BY <1>19 DEF RotMain, AlwaysRecoverable, BackupKept
<1>20. CASE RotBackup
  BY <1>20 DEF RotBackup, AlwaysRecoverable, AckedSurvives, NamesStable
<1>21. CASE Wipe
  BY <1>21 DEF Wipe, AlwaysRecoverable, AckedSurvives
<1>22. CASE UNCHANGED vars
  BY <1>22 DEF vars, AlwaysRecoverable, disk, history
<1> QED
  BY <1>1, <1>2, <1>3, <1>4, <1>5, <1>6, <1>7, <1>8, <1>9, <1>10, <1>11, <1>12, <1>13, <1>14,
     <1>15, <1>16, <1>17, <1>18, <1>19, <1>20, <1>21, <1>22
  DEF Next, Open, WriteStoreBytes, BackupStoreFile, Environment

LEMMA AckStep == StoreIInv /\ TypeOK' /\ [Next]_vars => AckedSurvives'
<1> SUFFICES ASSUME StoreIInv, TypeOK', [Next]_vars PROVE AckedSurvives'
  OBVIOUS
<1> USE Generations DEF StoreIInv
<1>1. CASE Boot
  BY <1>1 DEF Boot, AckedSurvives, history
<1>2. CASE ReadMissing
  BY <1>2 DEF ReadMissing, AckedSurvives, disk, history
<1>3. CASE ReadWhole
  BY <1>3 DEF ReadWhole, AckedSurvives, disk, history
<1>4. CASE ReadCorrupt
  BY <1>4 DEF ReadCorrupt, AckedSurvives, disk, history
<1>5. CASE ReadError
  BY <1>5 DEF ReadError, AckedSurvives, disk, history
<1>6. CASE CreateTmp
  BY <1>6 DEF CreateTmp, AckedSurvives, history
<1>7. CASE WriteTmp
  BY <1>7 DEF WriteTmp, AckedSurvives, history
<1>8. CASE SyncTmp
  BY <1>8 DEF SyncTmp, AckedSurvives, history
<1>9. CASE RenameTmp
  BY <1>9, RenameEffect DEF AckedSurvives
<1>10. CASE WriteFails
  BY <1>10 DEF WriteFails, AckedSurvives, history
<1>11. CASE CreateBackup
  BY <1>11 DEF CreateBackup, AckedSurvives, history
<1>12. CASE CopyBackup
  BY <1>12 DEF CopyBackup, AckedSurvives, history
<1>13. CASE RenameBackup
  BY <1>13 DEF RenameBackup, AckedSurvives, BackupKept
<1>14. CASE BackupFails
  BY <1>14 DEF BackupFails, AckedSurvives, history
<1>15. CASE Flush
  BY <1>15 DEF Flush, AckedSurvives, disk, history
<1>16. CASE Crash
  BY <1>16 DEF Crash, AckedSurvives, disk, history
<1>17. CASE PowerFails
  <2>1. main' \in undo \cup {main}
    BY <1>17 DEF PowerFails, AfterPowerLoss, NamesStable, Stable
  <2>2. main'.there /\ ~main'.whole => main' = Decayed
    BY <2>1 DEF NamesStable, Stable
  <2>3. (rotted' <=> main'.there /\ ~main'.whole) /\ floor' = Found(main', bak')
    BY <1>17 DEF PowerFails
  <2>4. main'.doc.gen \in Nat
    BY <2>1, Generations DEF TypeOK, File
  <2>5. main'.whole => floor' = main'.doc.gen
    BY <2>3 DEF Found
  <2>6. ~main'.there => ~main'.whole
    BY <2>1 DEF NamesStable, Stable
  <2>7. ~main'.there => floor' = 0
    BY <2>3, <2>6 DEF Found
  <2> QED
    BY <2>2, <2>3, <2>4, <2>5, <2>7 DEF AckedSurvives
<1>18. CASE Settle
  BY <1>18 DEF Settle, AckedSurvives, history
<1>19. CASE RotMain
  BY <1>19 DEF RotMain, AckedSurvives, BackupKept
<1>20. CASE RotBackup
  BY <1>20 DEF RotBackup, AckedSurvives, EmptyDoc
<1>21. CASE Wipe
  BY <1>21 DEF Wipe, AckedSurvives, Missing
<1>22. CASE UNCHANGED vars
  BY <1>22 DEF vars, AckedSurvives, disk, history
<1> QED
  BY <1>1, <1>2, <1>3, <1>4, <1>5, <1>6, <1>7, <1>8, <1>9, <1>10, <1>11, <1>12, <1>13, <1>14,
     <1>15, <1>16, <1>17, <1>18, <1>19, <1>20, <1>21, <1>22
  DEF Next, Open, WriteStoreBytes, BackupStoreFile, Environment

\* The invariants of every state that an open, a flush, a crash, a decay or a wipe
\* leaves (readStoreFile, newFilePersistence, writeStoreBytes, backupStoreFile).
LEMMA StoreInductive == Spec => []StoreIInv
<1>1. Init => StoreIInv
  <2> SUFFICES ASSUME Init PROVE StoreIInv
    OBVIOUS
  <2>1. TypeOK
    BY TypeInit
  <2>2. PICK existed \in BOOLEAN, backup \in BOOLEAN, f \in File :
           /\ f.there /\ f.whole /\ f.synced /\ f.doc.gen = 1
           /\ backup => existed
           /\ main = IF existed THEN f ELSE Missing
           /\ bak = IF backup THEN f ELSE Missing
           /\ lastGen = IF existed THEN 1 ELSE 0
           /\ backedUp = IF backup THEN 1 ELSE 0
    <3>1. ASSUME NEW layout \in {1, LayoutVersion}
          PROVE  LET f == [Whole([gen |-> 1, layout |-> layout]) EXCEPT !.synced = TRUE]
                 IN  f \in File /\ f.there /\ f.whole /\ f.synced /\ f.doc.gen = 1
      <4>1. [gen |-> 1, layout |-> layout] \in Doc
        BY BoundsAssumption DEF Doc
      <4> QED
        BY <4>1, FileFacts DEF Whole
    <3> QED
      BY <3>1, Zenon DEF Init
  <2>3. /\ tmp = Missing /\ btmp = Missing /\ undo = {} /\ buf = EmptyDoc /\ mem = EmptyDoc
        /\ floor = lastGen /\ rotted = FALSE /\ pc = "down"
    BY DEF Init
  <2> QED
    BY <2>1, <2>2, <2>3 DEF StoreIInv, SavedOnly, NamesStable, Stable, TempsFollow, BackupKept,
       BufferCovers, AlwaysRecoverable, AckedSurvives, Missing, EmptyDoc, Writing, BackingUp
<1>2. StoreIInv /\ [Next]_vars => StoreIInv'
  BY TypeStep, SavedOnlyStep, NamesStep, TempsStep, BackupStep, BufferStep, RecoverStep, AckStep
     DEF StoreIInv
<1> QED
  BY <1>1, <1>2, PTL DEF Spec

\* "a corrupt store must never silently become an empty one": whatever crashes,
\* decays and is wiped, an open store serves all that was promised
\* (readStoreFile, newFilePersistence).
THEOREM StoreNeverFallsBehind == Spec => []NeverFallsBehind
<1>1. StoreIInv => NeverFallsBehind
  BY Generations DEF StoreIInv, SavedOnly, BufferCovers, NeverFallsBehind, Serving
<1> QED
  BY <1>1, StoreInductive, PTL

\* One of the two files can always be opened with nothing promised missing
\* (backupStoreFile, writeStoreBytes).
THEOREM StoreAlwaysRecoverable == Spec => []AlwaysRecoverable
<1>1. StoreIInv => AlwaysRecoverable
  BY DEF StoreIInv
<1> QED
  BY <1>1, StoreInductive, PTL

\* What Save acknowledged is in the store file after every crash
\* (writeStoreBytes: temp file, sync, rename).
THEOREM StoreAckedSurvives == Spec => []AckedSurvives
<1>1. StoreIInv => AckedSurvives
  BY DEF StoreIInv
<1> QED
  BY <1>1, StoreInductive, PTL

-----------------------------------------------------------------------------
(* StoreDocument                                                            *)

SnapshotType == [there : BOOLEAN, doc : Contents, bytes : Contents, was : Contents]

\* Every object in the document and in its snapshots is a copy.
DocumentCopies ==
  /\ mine \in Contents /\ doc \in Contents /\ held \in [Locations -> 0 .. Live]
  /\ pending \in SnapshotType /\ flying \in SnapshotType
  /\ stored \in [layout : {1, CurrentLayout}, values : Contents]
  /\ up \in BOOLEAN
  /\ \A l \in Locations : held[l] = Live => mine[l] # 0

\* Maps and bytes of a snapshot are those of its save, and the document is the last one.
SnapshotsWhole ==
  /\ doc = saved
  /\ \A s \in {pending, flying} : s.there => s.doc = s.was /\ s.bytes = s.was
  /\ sections = {Places[l] : l \in {m \in Locations : doc[m] # 0}} \cap Containers

\* The newest save waits, or is flushed, or is in the store.
NewestKept ==
  /\ pending.there => pending.was = saved
  /\ ~pending.there /\ flying.there => flying.was = saved
  /\ ~pending.there /\ ~flying.there /\ up => stored.values = saved
  /\ ~up => ~pending.there /\ ~flying.there

\* Objects of the plugin's own are not in ds.Values either, so what is held was saved.
HeldIsSaved == origin = "fresh" => held = saved /\ told = saved

DocumentIInv ==
  origin # "typed" =>
    DocumentCopies /\ SnapshotsWhole /\ NewestKept /\ HeldIsSaved

LEMMA ContentsFacts ==
  /\ None \in Contents
  /\ \A at \in Contents : Resolve(at) = at
  /\ \A at \in Contents, l \in Locations, c \in 0 .. MaxData : [at EXCEPT ![l] = c] \in Contents
  /\ NoSnapshot \in SnapshotType /\ NoSnapshot.there = FALSE
  /\ Contents \subseteq [Locations -> 0 .. Live]
  /\ \A l \in Locations : Places[l] \in Cloned
<1>1. MaxData \in Nat /\ Live = MaxData + 1 /\ None \in Contents
  BY DocumentAssumption DEF Live, None, Contents
<1>2. ASSUME NEW at \in Contents PROVE Resolve(at) = at
  <2>1. \A l \in Locations : at[l] \in 0 .. MaxData /\ at[l] # Live
    BY <1>1 DEF Contents
  <2> QED
    BY <2>1 DEF Resolve, Contents
<1>3. \A at \in Contents, l \in Locations, c \in 0 .. MaxData : [at EXCEPT ![l] = c] \in Contents
  BY DEF Contents
<1>4. NoSnapshot \in SnapshotType /\ NoSnapshot.there = FALSE
  BY <1>1 DEF NoSnapshot, SnapshotType
<1>5. Contents \subseteq [Locations -> 0 .. Live]
  <2>1. 0 .. MaxData \subseteq 0 .. Live
    BY <1>1
  <2> QED
    BY <2>1 DEF Contents
<1>6. \A l \in Locations : Places[l] \in Cloned
  <2>1. Places \in Seq(Cloned)
    BY PlacesAssumption DEF Cloned
  <2> HIDE DEF Cloned
  <2> QED
    BY <2>1, ElementOfSeq, LenProperties DEF Locations
<1> QED
  BY <1>1, <1>2, <1>3, <1>4, <1>5, <1>6

LEMMA SnapshotFields ==
  ASSUME NEW s \in SnapshotType
  PROVE  s.there \in BOOLEAN /\ s.doc \in Contents /\ s.bytes \in Contents /\ s.was \in Contents
BY DEF SnapshotType

\* What a flush writes is the snapshot.
LEMMA EncodeFacts ==
  ASSUME NEW s \in SnapshotType, s.doc = s.was, s.bytes = s.was
  PROVE  Encode(s) = s.was
<1>1. s.doc \in Contents
  BY SnapshotFields
<1>2. [l \in Locations |-> IF Places[l] \in Cloned THEN s.doc[l] ELSE doc[l]] = s.doc
  BY <1>1, ContentsFacts DEF Contents
<1> QED
  BY <1>1, <1>2, ContentsFacts DEF Encode

LEMMA OpenStoreKeeps ==
  ASSUME DocumentIInv, origin # "typed", OpenStore
  PROVE  DocumentIInv'
<1> DEFINE d == Upgraded(stored)
<1>0. /\ DocumentCopies /\ NewestKept /\ ~up /\ up' = TRUE /\ stored' = d
      /\ doc' = d.values /\ held' = d.values /\ mine' = None
      /\ sections' = {Places[l] : l \in {m \in Locations : d.values[m] # 0}} \cap Containers
      /\ told' = d.values /\ saved' = d.values
      /\ UNCHANGED <<origin, pending, flying>>
  BY DEF DocumentIInv, OpenStore, writerVars
<1>1. d \in [layout : {1, CurrentLayout}, values : Contents] /\ d.values \in Contents
  <2>1. stored.values \in Contents /\ MaxData \in Nat
    BY <1>0, DocumentAssumption DEF DocumentCopies
  <2>2. [l \in Locations |-> IF Places[l] = "sensors" THEN 0 ELSE stored.values[l]] \in Contents
    BY <2>1 DEF Contents
  <2>3. d.layout = CurrentLayout /\ d.values \in Contents
    BY <2>1, <2>2 DEF Upgraded
  <2> QED
    BY <2>2, <2>1, <2>3 DEF Upgraded
<1> HIDE DEF d
<1>2. DocumentCopies'
  <2>1. \A l \in Locations : d.values[l] # Live
    BY <1>1, DocumentAssumption DEF Contents, Live
  <2> QED
    BY <1>0, <1>1, <2>1, ContentsFacts DEF DocumentCopies
<1>3. SnapshotsWhole'
  BY <1>0 DEF SnapshotsWhole, NewestKept
<1>4. NewestKept' /\ HeldIsSaved'
  BY <1>0 DEF NewestKept, HeldIsSaved
<1> QED
  BY <1>2, <1>3, <1>4 DEF DocumentIInv

LEMMA ObtainKeeps ==
  ASSUME DocumentIInv, origin # "typed", NEW l \in Locations, Obtain(l)
  PROVE  DocumentIInv'
<1> DEFINE keep(at) == [at EXCEPT ![l] = IF @ = Live THEN mine[l] ELSE @]
           got == origin = "got" /\ held[l] # 0
<1>0. /\ DocumentCopies /\ SnapshotsWhole /\ NewestKept /\ HeldIsSaved
      /\ mine[l] = 0 \/ (got /\ held[l] # Live)
      /\ mine' = [mine EXCEPT ![l] = IF got THEN held[l] ELSE 1]
      /\ held' = IF got THEN [held EXCEPT ![l] = Live] ELSE keep(held)
      /\ doc' = keep(doc)
      /\ pending' = [pending EXCEPT !.doc = keep(@)] /\ flying' = [flying EXCEPT !.doc = keep(@)]
      /\ UNCHANGED <<origin, sections, stored, up, told, saved>>
  BY DEF DocumentIInv, Obtain
<1>1. MaxData \in Nat \ {0} /\ Live = MaxData + 1
  BY DocumentAssumption DEF Live
<1>2. \A at \in Contents : keep(at) = at
  <2>1. \A at \in Contents : at[l] # Live
    BY <1>1 DEF Contents
  <2> QED
    BY <2>1 DEF Contents
<1>3. doc' = doc
  BY <1>0, <1>2 DEF DocumentCopies
<1>4. \A s \in SnapshotType : [s EXCEPT !.doc = keep(@)] = s
  <2>1. ASSUME NEW s \in SnapshotType PROVE [s EXCEPT !.doc = keep(@)] = s
    <3>1. keep(s.doc) = s.doc
      BY <1>2, SnapshotFields
    <3> HIDE DEF keep
    <3> QED
      BY <3>1 DEF SnapshotType
  <2> QED
    BY <2>1
<1>5. pending' = pending /\ flying' = flying
  <2> HIDE DEF keep
  <2> QED
    BY <1>0, <1>4 DEF DocumentCopies
<1>6. mine' \in Contents
  <2>1. (IF got THEN held[l] ELSE 1) \in 0 .. MaxData
    <3>1. CASE got
      <4>1. held[l] \in 0 .. Live /\ held[l] # Live
        BY <1>0 DEF DocumentCopies
      <4> QED
        BY <1>1, <3>1, <4>1
    <3>2. CASE ~got
      BY <1>1, <3>2
    <3> QED
      BY <3>1, <3>2
  <2> HIDE DEF got
  <2> QED
    BY <1>0, <2>1, ContentsFacts DEF DocumentCopies
<1>7. /\ held' \in [Locations -> 0 .. Live]
      /\ \A m \in Locations : held'[m] = Live => mine'[m] # 0
      /\ origin = "fresh" => held' = held
  <2>1. /\ held \in [Locations -> 0 .. Live] /\ mine \in [Locations -> 0 .. MaxData]
        /\ \A m \in Locations : held[m] = Live => mine[m] # 0
    BY <1>0 DEF DocumentCopies, Contents
  <2>2. CASE got
    BY <1>0, <1>1, <2>1, <2>2
  <2>3. CASE ~got
    <3>1. held' = keep(held) /\ mine' = [mine EXCEPT ![l] = 1]
      BY <1>0, <2>3
    <3>2. /\ held' \in [Locations -> 0 .. Live]
          /\ \A m \in Locations : held'[m] = Live => mine'[m] # 0
      BY <1>1, <2>1, <3>1
    <3>3. ASSUME origin = "fresh" PROVE keep(held) = held
      BY <1>0, <1>2, <3>3 DEF HeldIsSaved, SnapshotsWhole, DocumentCopies
    <3> QED
      BY <3>1, <3>2, <3>3
  <2> QED
    BY <2>2, <2>3
<1> HIDE DEF keep, got
<1>8. DocumentCopies'
  BY <1>0, <1>3, <1>5, <1>6, <1>7 DEF DocumentCopies
<1>9. SnapshotsWhole' /\ NewestKept' /\ HeldIsSaved'
  BY <1>0, <1>3, <1>5, <1>7 DEF SnapshotsWhole, NewestKept, HeldIsSaved
<1> QED
  BY <1>8, <1>9 DEF DocumentIInv

LEMMA EditKeeps ==
  ASSUME DocumentIInv, origin # "typed", NEW l \in Locations, Edit(l)
  PROVE  DocumentIInv'
<1>0. /\ DocumentCopies /\ SnapshotsWhole /\ NewestKept /\ HeldIsSaved
      /\ UNCHANGED <<origin, held, doc, sections, pending, flying, stored, up, told, saved>>
  BY DEF DocumentIInv, Edit, writerVars
<1>1. PICK c \in 1 .. MaxData : mine' = [mine EXCEPT ![l] = c]
  BY DEF Edit
<1>2. mine' \in Contents /\ \A m \in Locations : mine'[m] = 0 => mine[m] = 0
  <2>1. MaxData \in Nat /\ mine \in [Locations -> 0 .. MaxData]
    BY <1>0, DocumentAssumption DEF DocumentCopies, Contents
  <2> QED
    BY <1>1, <2>1 DEF Contents
<1>3. DocumentCopies'
  BY <1>0, <1>2 DEF DocumentCopies
<1>4. SnapshotsWhole' /\ NewestKept' /\ HeldIsSaved'
  BY <1>0 DEF SnapshotsWhole, NewestKept, HeldIsSaved
<1> QED
  BY <1>3, <1>4 DEF DocumentIInv

\* A save of contents at one location.
LEMMA SaveKeeps ==
  ASSUME DocumentCopies, SnapshotsWhole, NewestKept, up, NEW l \in Locations,
         NEW c \in 0 .. MaxData, Save(l, c, c),
         UNCHANGED <<flying, stored, up>>
  PROVE  /\ doc' \in Contents /\ pending' \in SnapshotType /\ doc' = saved'
         /\ saved' = [saved EXCEPT ![l] = c]
         /\ \A s \in {pending', flying'} : s.there => s.doc = s.was /\ s.bytes = s.was
         /\ NewestKept'
<1> DEFINE at == [doc EXCEPT ![l] = c]
<1>1. /\ doc' = at /\ saved' = at /\ saved' = [saved EXCEPT ![l] = c]
      /\ pending' = [there |-> TRUE, doc |-> at, bytes |-> Resolve(at), was |-> at]
  BY DEF SnapshotsWhole, Save
<1>2. at \in Contents /\ Resolve(at) = at
  BY ContentsFacts DEF DocumentCopies
<1> HIDE DEF at
<1>3. /\ pending' \in SnapshotType /\ pending'.there
      /\ pending'.doc = at /\ pending'.bytes = at /\ pending'.was = at
  BY <1>1, <1>2 DEF SnapshotType
<1>4. \A s \in {pending', flying'} : s.there => s.doc = s.was /\ s.bytes = s.was
  BY <1>3 DEF SnapshotsWhole
<1>5. NewestKept'
  BY <1>1, <1>3 DEF NewestKept
<1> QED
  BY <1>1, <1>2, <1>3, <1>4, <1>5

LEMMA SetValueKeeps ==
  ASSUME DocumentIInv, origin # "typed", NEW l \in Locations, SetValue(l)
  PROVE  DocumentIInv'
<1> PICK c : c = mine[l]
  OBVIOUS
<1>0. /\ DocumentCopies /\ SnapshotsWhole /\ NewestKept /\ HeldIsSaved /\ up /\ c # 0
      /\ held' = [held EXCEPT ![l] = c] /\ told' = [told EXCEPT ![l] = c]
      /\ UNCHANGED <<origin, mine, flying, stored, up>>
      /\ IF held[l] # 0 /\ Resolve(held)[l] = c THEN UNCHANGED <<doc, sections, pending, saved>>
         ELSE WriteLocation(l, c, c)
  BY DEF DocumentIInv, SetValue, CopyOf
<1>1. c \in 0 .. MaxData /\ MaxData \in Nat /\ Live = MaxData + 1
  BY <1>0, DocumentAssumption DEF DocumentCopies, Contents, Live
<1>2. /\ held' \in [Locations -> 0 .. Live]
      /\ \A m \in Locations : held'[m] = Live => held[m] = Live
  BY <1>0, <1>1 DEF DocumentCopies
<1>3. CASE held[l] # 0 /\ Resolve(held)[l] = c
  <2>1. UNCHANGED <<doc, sections, pending, saved>>
    BY <1>0, <1>3
  <2>2. DocumentCopies'
    BY <1>0, <1>2, <2>1 DEF DocumentCopies
  <2>3. SnapshotsWhole' /\ NewestKept'
    BY <1>0, <2>1 DEF SnapshotsWhole, NewestKept
  <2>4. HeldIsSaved'
    <3> SUFFICES ASSUME origin = "fresh" PROVE held' = saved /\ told' = saved
      BY <1>0, <2>1 DEF HeldIsSaved
    <3>1. held = saved /\ told = saved /\ saved \in Contents
      BY <1>0 DEF HeldIsSaved, SnapshotsWhole, DocumentCopies
    <3>2. Resolve(held) = held
      BY <3>1, ContentsFacts
    <3>3. saved[l] = c
      BY <1>3, <3>1, <3>2
    <3> QED
      BY <1>0, <3>1, <3>3 DEF Contents
  <2> QED
    BY <2>2, <2>3, <2>4 DEF DocumentIInv
<1>4. CASE ~(held[l] # 0 /\ Resolve(held)[l] = c)
  <2>1. Save(l, c, c) /\ sections' = sections \cup ({Places[l]} \cap Containers)
    BY <1>0, <1>4 DEF WriteLocation
  <2>2. /\ doc' \in Contents /\ pending' \in SnapshotType /\ doc' = saved'
        /\ saved' = [saved EXCEPT ![l] = c]
        /\ \A s \in {pending', flying'} : s.there => s.doc = s.was /\ s.bytes = s.was
        /\ NewestKept'
    BY <1>0, <1>1, <2>1, SaveKeeps
  <2>3. DocumentCopies'
    BY <1>0, <1>2, <2>2 DEF DocumentCopies
  <2>4. sections' = {Places[k] : k \in {m \in Locations : doc'[m] # 0}} \cap Containers
    <3>1. /\ doc \in Contents /\ doc' = [doc EXCEPT ![l] = c]
          /\ sections = {Places[k] : k \in {m \in Locations : doc[m] # 0}} \cap Containers
      BY <1>0, <2>2 DEF DocumentCopies, SnapshotsWhole
    <3>2. {m \in Locations : doc'[m] # 0} = {m \in Locations : doc[m] # 0} \cup {l}
      BY <1>0, <3>1 DEF Contents
    <3> QED
      BY <2>1, <3>1, <3>2
  <2>5. HeldIsSaved'
    BY <1>0, <2>2 DEF HeldIsSaved
  <2> QED
    BY <2>2, <2>3, <2>4, <2>5 DEF DocumentIInv, SnapshotsWhole
<1> QED
  BY <1>3, <1>4

LEMMA ClearKeeps ==
  ASSUME DocumentIInv, origin # "typed", NEW l \in Locations, Clear(l)
  PROVE  DocumentIInv'
<1>0. /\ DocumentCopies /\ SnapshotsWhole /\ NewestKept /\ HeldIsSaved /\ up
      /\ held' = [held EXCEPT ![l] = 0] /\ told' = [told EXCEPT ![l] = 0]
      /\ Save(l, 0, 0)
      /\ sections' = IF \E m \in Locations \ {l} : Places[m] = Places[l] /\ doc[m] # 0
                     THEN sections ELSE sections \ {Places[l]}
      /\ UNCHANGED <<origin, mine, flying, stored, up>>
  BY DEF DocumentIInv, Clear, DeleteLocation
<1>1. 0 \in 0 .. MaxData /\ MaxData \in Nat /\ Live = MaxData + 1
  BY DocumentAssumption DEF Live
<1>2. /\ held' \in [Locations -> 0 .. Live]
      /\ \A m \in Locations : held'[m] = Live => held[m] = Live
  BY <1>0, <1>1 DEF DocumentCopies
<1>3. /\ doc' \in Contents /\ pending' \in SnapshotType /\ doc' = saved'
      /\ saved' = [saved EXCEPT ![l] = 0]
      /\ \A s \in {pending', flying'} : s.there => s.doc = s.was /\ s.bytes = s.was
      /\ NewestKept'
  BY <1>0, <1>1, SaveKeeps
<1>4. DocumentCopies'
  BY <1>0, <1>2, <1>3 DEF DocumentCopies
<1>5. sections' = {Places[k] : k \in {m \in Locations : doc'[m] # 0}} \cap Containers
  <2>1. /\ doc \in Contents /\ doc' = [doc EXCEPT ![l] = 0]
        /\ sections = {Places[k] : k \in {m \in Locations : doc[m] # 0}} \cap Containers
    BY <1>0, <1>3 DEF DocumentCopies, SnapshotsWhole
  <2>2. {m \in Locations : doc'[m] # 0} = {m \in Locations : doc[m] # 0} \ {l}
    BY <2>1 DEF Contents
  <2>3. CASE \E m \in Locations \ {l} : Places[m] = Places[l] /\ doc[m] # 0
    BY <1>0, <2>1, <2>2, <2>3
  <2>4. CASE ~\E m \in Locations \ {l} : Places[m] = Places[l] /\ doc[m] # 0
    BY <1>0, <2>1, <2>2, <2>4
  <2> QED
    BY <2>3, <2>4
<1>6. HeldIsSaved'
  BY <1>0, <1>3 DEF HeldIsSaved
<1> QED
  BY <1>3, <1>4, <1>5, <1>6 DEF DocumentIInv, SnapshotsWhole

LEMMA WriterKeeps ==
  ASSUME DocumentIInv, origin # "typed", TakeSnapshot \/ PutSnapshot
  PROVE  DocumentIInv'
<1>0. /\ DocumentCopies /\ SnapshotsWhole /\ NewestKept /\ HeldIsSaved
      /\ UNCHANGED <<origin, mine, held, doc, sections, up, told, saved>>
  BY DEF DocumentIInv, TakeSnapshot, PutSnapshot, memoryVars
<1>1. CASE TakeSnapshot
  <2>1. pending.there /\ ~flying.there /\ flying' = pending /\ pending' = NoSnapshot /\ stored' = stored
    BY <1>1 DEF TakeSnapshot
  <2>2. DocumentCopies'
    BY <1>0, <2>1, ContentsFacts DEF DocumentCopies
  <2>3. SnapshotsWhole' /\ NewestKept' /\ HeldIsSaved'
    BY <1>0, <2>1, ContentsFacts DEF SnapshotsWhole, NewestKept, HeldIsSaved
  <2> QED
    BY <2>2, <2>3 DEF DocumentIInv
<1>2. CASE PutSnapshot
  <2>1. /\ flying.there /\ flying' = NoSnapshot /\ pending' = pending
        /\ stored' = [layout |-> CurrentLayout, values |-> Encode(flying)]
    BY <1>2 DEF PutSnapshot
  <2>2. Encode(flying) = flying.was /\ flying.was \in Contents
    BY <1>0, <2>1, EncodeFacts, SnapshotFields DEF DocumentCopies, SnapshotsWhole
  <2>3. /\ stored' \in [layout : {1, CurrentLayout}, values : Contents]
        /\ stored'.values = flying.was
    BY <2>1, <2>2
  <2>4. DocumentCopies'
    BY <1>0, <2>1, <2>3, ContentsFacts DEF DocumentCopies
  <2>5. SnapshotsWhole' /\ NewestKept' /\ HeldIsSaved'
    BY <1>0, <2>1, <2>3, ContentsFacts DEF SnapshotsWhole, NewestKept, HeldIsSaved
  <2> QED
    BY <2>4, <2>5 DEF DocumentIInv
<1> QED
  BY <1>1, <1>2

LEMMA CrashProcessKeeps ==
  ASSUME DocumentIInv, origin # "typed", CrashProcess
  PROVE  DocumentIInv'
<1>0. /\ DocumentCopies /\ up' = FALSE /\ doc' = None /\ sections' = {} /\ mine' = None
      /\ held' = None /\ pending' = NoSnapshot /\ flying' = NoSnapshot
      /\ told' = None /\ saved' = None /\ UNCHANGED <<origin, stored>>
  BY DEF DocumentIInv, CrashProcess
<1>1. \A l \in Locations : None[l] = 0 /\ None[l] # Live
  BY DocumentAssumption DEF None, Live
<1>2. DocumentCopies'
  BY <1>0, <1>1, ContentsFacts DEF DocumentCopies
<1>3. SnapshotsWhole' /\ NewestKept' /\ HeldIsSaved'
  BY <1>0, <1>1, ContentsFacts DEF SnapshotsWhole, NewestKept, HeldIsSaved
<1> QED
  BY <1>2, <1>3 DEF DocumentIInv

LEMMA DocumentInitial ==
  ASSUME DocumentInit
  PROVE  DocumentIInv
<1>0. /\ up = FALSE /\ doc = None /\ sections = {} /\ mine = None
      /\ held = None /\ pending = NoSnapshot /\ flying = NoSnapshot
      /\ told = None /\ saved = None
  BY DEF DocumentInit
<1>1. \A l \in Locations : None[l] = 0 /\ None[l] # Live
  BY DocumentAssumption DEF None, Live
<1>2. stored \in [layout : {1, CurrentLayout}, values : Contents]
  <2>1. [l \in Locations |-> 1] \in Contents
    BY DocumentAssumption DEF Contents
  <2> QED
    BY <2>1, ContentsFacts DEF DocumentInit
<1>3. DocumentCopies
  BY <1>0, <1>1, <1>2, ContentsFacts DEF DocumentCopies
<1>4. SnapshotsWhole /\ NewestKept /\ HeldIsSaved
  BY <1>0, <1>1, ContentsFacts DEF SnapshotsWhole, NewestKept, HeldIsSaved
<1> QED
  BY <1>3, <1>4 DEF DocumentIInv

LEMMA DocumentInductive ==
  DocumentIInv /\ [DocumentNext]_documentVars => DocumentIInv'
<1> SUFFICES ASSUME DocumentIInv, [DocumentNext]_documentVars PROVE DocumentIInv'
  OBVIOUS
<1>1. origin' = origin
  BY DEF DocumentNext, documentVars, OpenStore, TakeSnapshot, PutSnapshot, CrashProcess, Obtain,
         Edit, SetValue, Clear
<1>2. CASE origin = "typed"
  BY <1>1, <1>2 DEF DocumentIInv
<1>3. CASE origin # "typed" /\ DocumentNext
  BY <1>3, OpenStoreKeeps, WriterKeeps, CrashProcessKeeps, ObtainKeeps, EditKeeps, SetValueKeeps,
     ClearKeeps DEF DocumentNext
<1>4. CASE origin # "typed" /\ UNCHANGED documentVars
  BY <1>4 DEF documentVars, memoryVars, writerVars, DocumentIInv, DocumentCopies, SnapshotsWhole,
         NewestKept, HeldIsSaved
<1> QED
  BY <1>2, <1>3, <1>4

\* Unless the plugin passes typed lists, which deepCopyValue does not copy, a flush
\* writes the document as it was at its save, a load returns what was saved, and a
\* section is there exactly when it holds something, for any number of locations and
\* whatever the plugin does to its objects; what is set with objects of the plugin's
\* own is stored when the writer is idle.
THEOREM DocumentFlushed == DocumentSpec => [](origin # "typed" => FlushedAsSaved)
<1>1. DocumentInit => DocumentIInv
  BY DocumentInitial
<1>2. DocumentIInv => (origin # "typed" => FlushedAsSaved)
  <2> SUFFICES ASSUME DocumentIInv, origin # "typed" PROVE FlushedAsSaved
    OBVIOUS
  <2>1. \A s \in {pending, flying} : s.there => Encode(s) = s.was
    BY EncodeFacts DEF DocumentIInv, DocumentCopies, SnapshotsWhole
  <2>2. Resolve(doc) = saved
    BY ContentsFacts DEF DocumentIInv, DocumentCopies, SnapshotsWhole
  <2>3. origin = "fresh" => SetIsStored
    BY DEF DocumentIInv, NewestKept, HeldIsSaved, SetIsStored
  <2> QED
    BY <2>1, <2>2, <2>3 DEF FlushedAsSaved, DocumentIInv, SnapshotsWhole
<1> QED
  BY <1>1, <1>2, DocumentInductive, PTL DEF DocumentSpec
=============================================================================
