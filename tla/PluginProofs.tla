---------------------------- MODULE PluginProofs ----------------------------
(***************************************************************************)
(* Proofs about the life of a plugin process: the stop token and the       *)
(* teardown of PluginRuntime, the runtime sensors of SensorBinding for any *)
(* number of records, instances and slots, and the listeners of            *)
(* EventEmitter for any number of handlers and calls of Emit.              *)
(***************************************************************************)
EXTENDS PluginRuntime, SensorBinding, EventEmitter, FiniteSetTheorems, SequenceTheorems, TLAPS

-----------------------------------------------------------------------------
(* PluginRuntime                                                            *)

\* Where stopRequested is still to be called.
Checked == {"await"} \cup Steps

\* stopPlugin is the last thing the main goroutine does.
StopIsLast == (stopped \in BOOLEAN) /\ (stopped <=> main \in {"stop", "exited"})

\* A token that came before the last check is in the channel until a check takes
\* it, or the start is over without "started".
TokenKept ==
  /\ told = "started" => main \in {"launching", "run", "stop", "exited"}
  /\ stopEarly =>
       /\ told # "started"
       /\ \/ main \in Checked /\ stopCh
          \/ main \in {"run", "stop", "exited"}

\* Without managers there is nothing to clean up; they exist from the constructor on.
ManagersFirst ==
  /\ main \in {"connect", "ready", "await", "persistence", "construct"} => ~api
  /\ main \in {"managers", "cameras", "started", "launching"} => api
  /\ ~api => writers = {}

\* What the teardown has behind it: a stage that is over leaves none of its writes,
\* and from the flush on none is unsaved.
TeardownStages ==
  /\ teardown = "none" => unsaved = {}
  /\ main = "exited" /\ ~forced => teardown = "done"
  /\ "slow" \notin env =>
       /\ teardown \notin {"none", "listeners"} => "listeners" \notin writers
       /\ teardown \in {"core", "storages", "rpc", "done"} => "devices" \notin writers
       /\ teardown \in {"rpc", "done"} => unsaved \cap Sync = {}

\* The inductive invariant of the process.
RuntimeIInv == RuntimeTypeOK /\ StopIsLast /\ TokenKept /\ ManagersFirst /\ TeardownStages

LEMMA RuntimeInitial == RuntimeInit => RuntimeIInv
BY DEF RuntimeInit, RuntimeIInv, RuntimeTypeOK, StopIsLast, TokenKept, ManagersFirst,
       TeardownStages, Steps, Sync, Checked

\* Every step keeps the types.
LEMMA RuntimeTypeStep ==
  RuntimeTypeOK /\ StopIsLast /\ [RuntimeNext]_runtimeVars => RuntimeTypeOK'
<1> SUFFICES ASSUME RuntimeTypeOK, StopIsLast, [RuntimeNext]_runtimeVars PROVE RuntimeTypeOK'
  OBVIOUS
<1> USE DEF RuntimeTypeOK, StopIsLast, Steps, Sync
<1>1. CASE HostStart
  BY <1>1 DEF HostStart, hostVars
<1>2. CASE HostStartMalformed
  BY <1>2 DEF HostStartMalformed, hostVars
<1>3. CASE HostStop
  BY <1>3 DEF HostStop, hostVars
<1>4. CASE Signal
  BY <1>4 DEF Signal, hostVars
<1>5. CASE Watch
  BY <1>5 DEF Watch, hostVars
<1>6. CASE OnMessage
  BY <1>6 DEF OnMessage, hostVars
<1>7. CASE SendReady
  BY <1>7 DEF SendReady, hostVars
<1>8. CASE AwaitStart
  BY <1>8 DEF AwaitStart, hostVars
<1>9. CASE AwaitStop
  BY <1>9 DEF AwaitStop, Stop, hostVars
<1>10. CASE SendStarted
  BY <1>10 DEF SendStarted, hostVars
<1>11. CASE FinishLaunching
  <2>1. CASE main' = "run" /\ UNCHANGED <<stopped, teardown, bounded>>
    BY <1>11, <2>1 DEF FinishLaunching, hostVars
  <2>2. CASE Stop(TRUE)
    BY <1>11, <2>2 DEF FinishLaunching, Stop, hostVars
  <2> QED
    BY <1>11, <2>1, <2>2 DEF FinishLaunching
<1>12. CASE RunUntilStop
  BY <1>12 DEF RunUntilStop, Stop, hostVars
<1>13. CASE ShutdownListeners
  BY <1>13 DEF ShutdownListeners, Write, hostVars
<1>14. CASE CloseSensors
  BY <1>14 DEF CloseSensors, hostVars
<1>15. CASE CloseDevices
  BY <1>15 DEF CloseDevices, Write, hostVars
<1>16. CASE CloseCore
  BY <1>16 DEF CloseCore, hostVars
<1>17. CASE CloseStorages
  BY <1>17 DEF CloseStorages, hostVars
<1>18. CASE Exit
  BY <1>18 DEF Exit, hostVars
<1>19. CASE Deadline
  BY <1>19 DEF Deadline, hostVars
<1>20. CASE TeardownPanics
  BY <1>20 DEF TeardownPanics, hostVars
<1>21. ASSUME NEW step \in Steps, StepDone(step) PROVE RuntimeTypeOK'
  BY <1>21 DEF StepDone, Completed, Made, After, hostVars
<1>22. ASSUME NEW step \in Steps, StopDuringStart(step) PROVE RuntimeTypeOK'
  BY <1>22 DEF StopDuringStart, Completed, Made, Stop, hostVars
<1>23. ASSUME NEW step \in Steps, StepFails(step) PROVE RuntimeTypeOK'
  BY <1>23 DEF StepFails, Interrupted, Made, hostVars
<1>24. ASSUME NEW step \in Steps, StepPanics(step) PROVE RuntimeTypeOK'
  BY <1>24 DEF StepPanics, Interrupted, Made, Stop, hostVars
<1>25. ASSUME NEW w \in {"listeners", "onStop"}, DetachedWrite(w) PROVE RuntimeTypeOK'
  BY <1>25 DEF DetachedWrite, hostVars
<1>26. CASE UNCHANGED runtimeVars
  BY <1>26 DEF runtimeVars, hostVars
<1> QED
  BY <1>1, <1>2, <1>3, <1>4, <1>5, <1>6, <1>7, <1>8, <1>9, <1>10, <1>11, <1>12, <1>13,
     <1>14, <1>15, <1>16, <1>17, <1>18, <1>19, <1>20, <1>21, <1>22, <1>23, <1>24, <1>25,
     <1>26 DEF RuntimeNext, MainStep, TeardownStep

\* Nothing runs on the main goroutine after stopPlugin.
LEMMA StopIsLastStep ==
  RuntimeTypeOK /\ StopIsLast /\ [RuntimeNext]_runtimeVars => StopIsLast'
<1> SUFFICES ASSUME RuntimeTypeOK, StopIsLast, [RuntimeNext]_runtimeVars PROVE StopIsLast'
  OBVIOUS
<1> USE DEF RuntimeTypeOK, StopIsLast, Steps
<1>1. CASE HostStart
  BY <1>1 DEF HostStart, hostVars
<1>2. CASE HostStartMalformed
  BY <1>2 DEF HostStartMalformed, hostVars
<1>3. CASE HostStop
  BY <1>3 DEF HostStop, hostVars
<1>4. CASE Signal
  BY <1>4 DEF Signal, hostVars
<1>5. CASE Watch
  BY <1>5 DEF Watch, hostVars
<1>6. CASE OnMessage
  BY <1>6 DEF OnMessage, hostVars
<1>7. CASE SendReady
  <2>1. CASE main' = "await" /\ UNCHANGED <<stopped, teardown>>
    BY <1>7, <2>1 DEF SendReady, hostVars
  <2>2. CASE main' = "stop" /\ stopped' = TRUE
    BY <1>7, <2>2 DEF SendReady, hostVars
  <2> QED
    BY <1>7, <2>1, <2>2 DEF SendReady
<1>8. CASE AwaitStart
  BY <1>8 DEF AwaitStart, hostVars
<1>9. CASE AwaitStop
  BY <1>9 DEF AwaitStop, Stop, hostVars
<1>10. CASE SendStarted
  BY <1>10 DEF SendStarted, hostVars
<1>11. CASE FinishLaunching
  <2>1. CASE main' = "run" /\ UNCHANGED <<stopped, teardown, bounded>>
    BY <1>11, <2>1 DEF FinishLaunching, hostVars
  <2>2. CASE Stop(TRUE)
    BY <1>11, <2>2 DEF FinishLaunching, Stop, hostVars
  <2> QED
    BY <1>11, <2>1, <2>2 DEF FinishLaunching
<1>12. CASE RunUntilStop
  BY <1>12 DEF RunUntilStop, Stop, hostVars
<1>13. CASE ShutdownListeners
  BY <1>13 DEF ShutdownListeners, Write, hostVars
<1>14. CASE CloseSensors
  BY <1>14 DEF CloseSensors, hostVars
<1>15. CASE CloseDevices
  BY <1>15 DEF CloseDevices, Write, hostVars
<1>16. CASE CloseCore
  BY <1>16 DEF CloseCore, hostVars
<1>17. CASE CloseStorages
  BY <1>17 DEF CloseStorages, hostVars
<1>18. CASE Exit
  BY <1>18 DEF Exit, hostVars
<1>19. CASE Deadline
  BY <1>19 DEF Deadline, hostVars
<1>20. CASE TeardownPanics
  BY <1>20 DEF TeardownPanics, hostVars
<1>21. ASSUME NEW step \in Steps, StepDone(step) PROVE StopIsLast'
  BY <1>21 DEF StepDone, Completed, Made, After, hostVars
<1>22. ASSUME NEW step \in Steps, StopDuringStart(step) PROVE StopIsLast'
  BY <1>22 DEF StopDuringStart, Completed, Made, Stop, hostVars
<1>23. ASSUME NEW step \in Steps, StepFails(step) PROVE StopIsLast'
  BY <1>23 DEF StepFails, Interrupted, Made, hostVars
<1>24. ASSUME NEW step \in Steps, StepPanics(step) PROVE StopIsLast'
  BY <1>24 DEF StepPanics, Interrupted, Made, Stop, hostVars
<1>25. ASSUME NEW w \in {"listeners", "onStop"}, DetachedWrite(w) PROVE StopIsLast'
  BY <1>25 DEF DetachedWrite, hostVars
<1>26. CASE UNCHANGED runtimeVars
  BY <1>26 DEF runtimeVars, hostVars
<1> QED
  BY <1>1, <1>2, <1>3, <1>4, <1>5, <1>6, <1>7, <1>8, <1>9, <1>10, <1>11, <1>12, <1>13,
     <1>14, <1>15, <1>16, <1>17, <1>18, <1>19, <1>20, <1>21, <1>22, <1>23, <1>24, <1>25,
     <1>26 DEF RuntimeNext, MainStep, TeardownStep

\* A check that takes the token ends the start; a check that does not finds none.
LEMMA TokenStep ==
  RuntimeTypeOK /\ StopIsLast /\ TokenKept /\ [RuntimeNext]_runtimeVars => TokenKept'
<1> SUFFICES ASSUME RuntimeTypeOK, StopIsLast, TokenKept, [RuntimeNext]_runtimeVars PROVE TokenKept'
  OBVIOUS
<1> USE DEF RuntimeTypeOK, StopIsLast, TokenKept, Checked, Steps
<1>1. CASE HostStart
  BY <1>1 DEF HostStart, hostVars
<1>2. CASE HostStartMalformed
  BY <1>2 DEF HostStartMalformed, hostVars
<1>3. CASE HostStop
  BY <1>3 DEF HostStop, hostVars
<1>4. CASE Signal
  BY <1>4 DEF Signal, hostVars
<1>5. CASE Watch
  BY <1>5 DEF Watch, hostVars
<1>6. CASE OnMessage
  BY <1>6 DEF OnMessage, hostVars
<1>7. CASE SendReady
  BY <1>7 DEF SendReady, hostVars
<1>8. CASE AwaitStart
  BY <1>8 DEF AwaitStart, hostVars
<1>9. CASE AwaitStop
  BY <1>9 DEF AwaitStop, Stop, hostVars
<1>10. CASE SendStarted
  BY <1>10 DEF SendStarted, hostVars
<1>11. CASE FinishLaunching
  BY <1>11 DEF FinishLaunching, Stop, hostVars
<1>12. CASE RunUntilStop
  BY <1>12 DEF RunUntilStop, Stop, hostVars
<1>13. CASE ShutdownListeners
  BY <1>13 DEF ShutdownListeners, Write, hostVars
<1>14. CASE CloseSensors
  BY <1>14 DEF CloseSensors, hostVars
<1>15. CASE CloseDevices
  BY <1>15 DEF CloseDevices, Write, hostVars
<1>16. CASE CloseCore
  BY <1>16 DEF CloseCore, hostVars
<1>17. CASE CloseStorages
  BY <1>17 DEF CloseStorages, hostVars
<1>18. CASE Exit
  BY <1>18 DEF Exit, hostVars
<1>19. CASE Deadline
  BY <1>19 DEF Deadline, hostVars
<1>20. CASE TeardownPanics
  BY <1>20 DEF TeardownPanics, hostVars
<1>21. ASSUME NEW step \in Steps, StepDone(step) PROVE TokenKept'
  BY <1>21 DEF StepDone, Completed, Made, After, hostVars
<1>22. ASSUME NEW step \in Steps, StopDuringStart(step) PROVE TokenKept'
  BY <1>22 DEF StopDuringStart, Completed, Made, Stop, hostVars
<1>23. ASSUME NEW step \in Steps, StepFails(step) PROVE TokenKept'
  BY <1>23 DEF StepFails, Interrupted, Made, hostVars
<1>24. ASSUME NEW step \in Steps, StepPanics(step) PROVE TokenKept'
  BY <1>24 DEF StepPanics, Interrupted, Made, Stop, hostVars
<1>25. ASSUME NEW w \in {"listeners", "onStop"}, DetachedWrite(w) PROVE TokenKept'
  BY <1>25 DEF DetachedWrite, hostVars
<1>26. CASE UNCHANGED runtimeVars
  BY <1>26 DEF runtimeVars, hostVars
<1> QED
  BY <1>1, <1>2, <1>3, <1>4, <1>5, <1>6, <1>7, <1>8, <1>9, <1>10, <1>11, <1>12, <1>13,
     <1>14, <1>15, <1>16, <1>17, <1>18, <1>19, <1>20, <1>21, <1>22, <1>23, <1>24, <1>25,
     <1>26 DEF RuntimeNext, MainStep, TeardownStep

\* Only a step of the start after the constructor leaves something to clean up.
LEMMA ManagersStep ==
  RuntimeTypeOK /\ StopIsLast /\ ManagersFirst /\ [RuntimeNext]_runtimeVars => ManagersFirst'
<1> SUFFICES ASSUME RuntimeTypeOK, StopIsLast, ManagersFirst, [RuntimeNext]_runtimeVars PROVE ManagersFirst'
  OBVIOUS
<1> USE DEF RuntimeTypeOK, StopIsLast, ManagersFirst, Steps
<1>1. CASE HostStart
  BY <1>1 DEF HostStart, hostVars
<1>2. CASE HostStartMalformed
  BY <1>2 DEF HostStartMalformed, hostVars
<1>3. CASE HostStop
  BY <1>3 DEF HostStop, hostVars
<1>4. CASE Signal
  BY <1>4 DEF Signal, hostVars
<1>5. CASE Watch
  BY <1>5 DEF Watch, hostVars
<1>6. CASE OnMessage
  BY <1>6 DEF OnMessage, hostVars
<1>7. CASE SendReady
  BY <1>7 DEF SendReady, hostVars
<1>8. CASE AwaitStart
  BY <1>8 DEF AwaitStart, hostVars
<1>9. CASE AwaitStop
  BY <1>9 DEF AwaitStop, Stop, hostVars
<1>10. CASE SendStarted
  BY <1>10 DEF SendStarted, hostVars
<1>11. CASE FinishLaunching
  BY <1>11 DEF FinishLaunching, Stop, hostVars
<1>12. CASE RunUntilStop
  BY <1>12 DEF RunUntilStop, Stop, hostVars
<1>13. CASE ShutdownListeners
  BY <1>13 DEF ShutdownListeners, Write, hostVars
<1>14. CASE CloseSensors
  BY <1>14 DEF CloseSensors, hostVars
<1>15. CASE CloseDevices
  BY <1>15 DEF CloseDevices, Write, hostVars
<1>16. CASE CloseCore
  BY <1>16 DEF CloseCore, hostVars
<1>17. CASE CloseStorages
  BY <1>17 DEF CloseStorages, hostVars
<1>18. CASE Exit
  BY <1>18 DEF Exit, hostVars
<1>19. CASE Deadline
  BY <1>19 DEF Deadline, hostVars
<1>20. CASE TeardownPanics
  BY <1>20 DEF TeardownPanics, hostVars
<1>21. ASSUME NEW step \in Steps, StepDone(step) PROVE ManagersFirst'
  BY <1>21 DEF StepDone, Completed, Made, After, hostVars
<1>22. ASSUME NEW step \in Steps, StopDuringStart(step) PROVE ManagersFirst'
  BY <1>22 DEF StopDuringStart, Completed, Made, Stop, hostVars
<1>23. ASSUME NEW step \in Steps, StepFails(step) PROVE ManagersFirst'
  BY <1>23 DEF StepFails, Interrupted, Made, hostVars
<1>24. ASSUME NEW step \in Steps, StepPanics(step) PROVE ManagersFirst'
  BY <1>24 DEF StepPanics, Interrupted, Made, Stop, hostVars
<1>25. ASSUME NEW w \in {"listeners", "onStop"}, DetachedWrite(w) PROVE ManagersFirst'
  BY <1>25 DEF DetachedWrite, hostVars
<1>26. CASE UNCHANGED runtimeVars
  BY <1>26 DEF runtimeVars, hostVars
<1> QED
  BY <1>1, <1>2, <1>3, <1>4, <1>5, <1>6, <1>7, <1>8, <1>9, <1>10, <1>11, <1>12, <1>13,
     <1>14, <1>15, <1>16, <1>17, <1>18, <1>19, <1>20, <1>21, <1>22, <1>23, <1>24, <1>25,
     <1>26 DEF RuntimeNext, MainStep, TeardownStep

\* The teardown goes through its stages in order, and only detached code writes late.
LEMMA StagesStep ==
  RuntimeIInv /\ [RuntimeNext]_runtimeVars => TeardownStages'
<1> SUFFICES ASSUME RuntimeIInv, [RuntimeNext]_runtimeVars PROVE TeardownStages'
  OBVIOUS
<1> USE DEF RuntimeIInv, RuntimeTypeOK, StopIsLast, ManagersFirst, TeardownStages, Steps, Sync
<1>1. CASE HostStart
  BY <1>1 DEF HostStart, hostVars
<1>2. CASE HostStartMalformed
  BY <1>2 DEF HostStartMalformed, hostVars
<1>3. CASE HostStop
  BY <1>3 DEF HostStop, hostVars
<1>4. CASE Signal
  BY <1>4 DEF Signal, hostVars
<1>5. CASE Watch
  BY <1>5 DEF Watch, hostVars
<1>6. CASE OnMessage
  BY <1>6 DEF OnMessage, hostVars
<1>7. CASE SendReady
  BY <1>7 DEF SendReady, hostVars
<1>8. CASE AwaitStart
  BY <1>8 DEF AwaitStart, hostVars
<1>9. CASE AwaitStop
  BY <1>9 DEF AwaitStop, Stop, hostVars
<1>10. CASE SendStarted
  BY <1>10 DEF SendStarted, hostVars
<1>11. CASE FinishLaunching
  BY <1>11 DEF FinishLaunching, Stop, hostVars
<1>12. CASE RunUntilStop
  BY <1>12 DEF RunUntilStop, Stop, hostVars
<1>13. CASE ShutdownListeners
  BY <1>13 DEF ShutdownListeners, Write, hostVars
<1>14. CASE CloseSensors
  BY <1>14 DEF CloseSensors, hostVars
<1>15. CASE CloseDevices
  BY <1>15 DEF CloseDevices, Write, hostVars
<1>16. CASE CloseCore
  BY <1>16 DEF CloseCore, hostVars
<1>17. CASE CloseStorages
  BY <1>17 DEF CloseStorages, hostVars
<1>18. CASE Exit
  BY <1>18 DEF Exit, hostVars
<1>19. CASE Deadline
  BY <1>19 DEF Deadline, hostVars
<1>20. CASE TeardownPanics
  BY <1>20 DEF TeardownPanics, hostVars
<1>21. ASSUME NEW step \in Steps, StepDone(step) PROVE TeardownStages'
  BY <1>21 DEF StepDone, Completed, Made, After, hostVars
<1>22. ASSUME NEW step \in Steps, StopDuringStart(step) PROVE TeardownStages'
  BY <1>22 DEF StopDuringStart, Completed, Made, Stop, hostVars
<1>23. ASSUME NEW step \in Steps, StepFails(step) PROVE TeardownStages'
  BY <1>23 DEF StepFails, Interrupted, Made, hostVars
<1>24. ASSUME NEW step \in Steps, StepPanics(step) PROVE TeardownStages'
  BY <1>24 DEF StepPanics, Interrupted, Made, Stop, hostVars
<1>25. ASSUME NEW w \in {"listeners", "onStop"}, DetachedWrite(w) PROVE TeardownStages'
  BY <1>25 DEF DetachedWrite, hostVars
<1>26. CASE UNCHANGED runtimeVars
  BY <1>26 DEF runtimeVars, hostVars
<1> QED
  BY <1>1, <1>2, <1>3, <1>4, <1>5, <1>6, <1>7, <1>8, <1>9, <1>10, <1>11, <1>12, <1>13,
     <1>14, <1>15, <1>16, <1>17, <1>18, <1>19, <1>20, <1>21, <1>22, <1>23, <1>24, <1>25,
     <1>26 DEF RuntimeNext, MainStep, TeardownStep

LEMMA RuntimeInductive == RuntimeIInv /\ [RuntimeNext]_runtimeVars => RuntimeIInv'
BY RuntimeTypeStep, StopIsLastStep, TokenStep, ManagersStep, StagesStep DEF RuntimeIInv

\* "startup can bail out between steps": in every interleaving of the host, the signals
\* and the start, a plugin whose stop token came before the last check of startPlugin is
\* never reported as started.
THEOREM StartBailsOut == RuntimeSpec => []NotStartedAfterStop
<1>1. RuntimeIInv => NotStartedAfterStop
  BY DEF RuntimeIInv, TokenKept, NotStartedAfterStop
<1> QED
  BY <1>1, RuntimeInitial, RuntimeInductive, PTL DEF RuntimeSpec

\* "storages, flushed last so cleanup writes land": stopPlugin leaves no write of the
\* shutdown listeners and of the device cleanup behind, wherever the start was when it
\* was stopped, failed or panicked.
THEOREM CleanupWritesLand == RuntimeSpec => []SyncWritesLand
<1>1. RuntimeIInv => SyncWritesLand
  BY DEF RuntimeIInv, ManagersFirst, TeardownStages, SyncWritesLand, Sync
<1> QED
  BY <1>1, RuntimeInitial, RuntimeInductive, PTL DEF RuntimeSpec

-----------------------------------------------------------------------------
(* SensorBinding                                                            *)

\* An instance before Publish is known to nobody but its bind goroutine.
Early == {"free", "build", "slot", "register", "expose", "subscribe", "publish"}

BindTypes ==
  /\ scene \in Scenes
  /\ records \subseteq scene.records /\ startRecs \subseteq scene.records
  /\ events \in Seq([kind : {"adopted", "deleted"}, rec : Records])
  /\ changes \in Nat /\ changes <= MaxChanges
  /\ startPc \in {"start", "bind", "done"}
  /\ inst \in [Instances -> [pc : Phases \cup {"free", "ended"}, rec : Records \cup {0}]]
  /\ \A i \in Instances : inst[i].pc # "free" => inst[i].rec \in Records
  /\ owned \in [Records -> Instances \cup {0}]
  /\ cleanups \in [Records -> Instances \cup {0}]
  /\ due \in [Instances -> SUBSET {"start", "stop"}]
  /\ ran \in [Instances -> [start : Nat, stop : Nat]]
  /\ unbinding \in Instances \cup {0}
  /\ closing \subseteq Instances
  /\ handlers \subseteq Instances /\ feeds \subseteq Instances

\* There is an instance for every record the start may still bind and for every event.
Used == {i \in Instances : inst[i].pc # "free"}
ToBind == IF startPc = "start" THEN scene.records ELSE startRecs
Room ==
  Cardinality(Used) + Len(events) + Cardinality(ToBind) <= Cardinality(scene.records) + changes

\* A bind goroutine owns its instance until Publish, and has what it registered.
BindOwns ==
  \A i \in Instances :
    /\ inst[i].pc \in Early =>
         i \notin closing /\ i # unbinding /\ \A r \in Records : owned[r] # i
    /\ inst[i].pc \in {"subscribe", "publish"} => i \in handlers
    /\ inst[i].pc \in {"expose", "subscribe", "publish"} => i \in storage

\* The inductive invariant of the maps.
MapsIInv == BindTypes /\ Room /\ BindOwns /\ OwnedIsWired

\* One as a number.
One(b) == IF b THEN 1 ELSE 0

\* An instance is activated at most once, and every activation is paid back by a
\* deactivation or still counted in active.
Balanced ==
  \A i \in Instances :
    /\ ran[i].start + One("start" \in due[i])
         = ran[i].stop + One("stop" \in due[i]) + One(i \in active)
    /\ ran[i].start + One("start" \in due[i]) <= One(inst[i].pc = "ended")

\* In an orderly life one thing happens at a time: the start, or an event, or the
\* bind or the unbind it leads to, or the close.
OneAtATime ==
  /\ events # <<>> \/ unbinding # 0 \/ closed => startPc = "done" /\ Binding = {}
  /\ Len(events) <= 1
  /\ events # <<>> => unbinding = 0 /\ ~closed
  /\ closed => unbinding = 0 /\ ~subscribed
  /\ closing # {} => closed
  /\ startPc = "start" => Binding = {} /\ \A r \in Records : owned[r] = 0
  /\ startPc = "bind" => Binding \subseteq startInst
  /\ startInst \subseteq Instances

\* A record has one bind at a time, and none while a sensor is owned for it.
OneBind ==
  /\ \A i \in Binding : inst[i].pc # "activate" => owned[inst[i].rec] = 0
  /\ \A i, j \in Binding : inst[i].rec = inst[j].rec => i = j
  /\ \A r \in startRecs :
       startPc = "bind" => owned[r] = 0 /\ \A i \in Binding : inst[i].rec # r

\* In the maps, or taken out of them for a teardown that is still to come.
Known(i) == (\E r \in Records : owned[r] = i) \/ i \in closing \/ i = unbinding

\* In an orderly life the maps tell what is registered and active.
MapsTell ==
  \A i \in Instances :
    /\ i \in handlers => Known(i) \/ inst[i].pc \in {"subscribe", "publish"}
    /\ i \in feeds => Known(i) \/ inst[i].pc = "publish"
    /\ i \in active => Known(i)
    /\ inst[i].pc = "activate" => owned[inst[i].rec] = i
    /\ Known(i) => i \in active \/ inst[i].pc = "activate"

\* The inductive invariant of the lifecycle.
LifeIInv == MapsIInv /\ Balanced /\ (Orderly => OneAtATime /\ OneBind /\ MapsTell)

\* The records of a scene are finitely many, and bounded with the changes by the instances.
LEMMA SceneFacts ==
  ASSUME BindTypes
  PROVE  /\ scene.records \subseteq Records
         /\ scene.maxChanges \in Nat
         /\ \A S \in SUBSET scene.records : IsFiniteSet(S) /\ Cardinality(S) \in Nat
         /\ Cardinality(scene.records) + scene.maxChanges <= MaxInstances
<1>1. scene.records \subseteq Records /\ scene.maxChanges \in Nat
  BY ScenesAssumption DEF BindTypes, SceneType
<1>2. \A S \in SUBSET scene.records : IsFiniteSet(S) /\ Cardinality(S) \in Nat
  BY <1>1, RecordsAssumption, FS_Subset, FS_CardinalityType
<1> QED
  BY <1>1, <1>2, ScenesAssumption DEF BindTypes

\* What the host appends to the events and the handler takes.
LEMMA EventFacts ==
  ASSUME BindTypes
  PROVE  /\ Len(events) \in Nat
         /\ events # <<>> =>
              /\ Head(events).rec \in Records
              /\ Tail(events) \in Seq([kind : {"adopted", "deleted"}, rec : Records])
              /\ Len(Tail(events)) = Len(events) - 1
         /\ \A r \in Records, kind \in {"adopted", "deleted"} :
              LET longer == Append(events, [kind |-> kind, rec |-> r])
              IN  /\ longer \in Seq([kind : {"adopted", "deleted"}, rec : Records])
                  /\ Len(longer) = Len(events) + 1
<1> DEFINE Event == [kind : {"adopted", "deleted"}, rec : Records]
<1>1. events \in Seq(Event)
  BY DEF BindTypes
<1>2. ASSUME events # <<>>
      PROVE  Head(events) \in Event /\ Tail(events) \in Seq(Event) /\ Len(Tail(events)) = Len(events) - 1
  <2> HIDE DEF Event
  <2> QED
    BY <1>1, <1>2
<1>3. \A e \in Event : Append(events, e) \in Seq(Event) /\ Len(Append(events, e)) = Len(events) + 1
  <2> HIDE DEF Event
  <2> QED
    BY <1>1
<1>4. \A r \in Records, kind \in {"adopted", "deleted"} : [kind |-> kind, rec |-> r] \in Event
  OBVIOUS
<1>5. Len(events) \in Nat
  BY <1>1
<1> QED
  BY <1>2, <1>3, <1>4, <1>5

\* A callback that runs is counted.
LEMMA RanFacts ==
  ASSUME BindTypes, NEW i \in Instances
  PROVE  /\ [ran EXCEPT ![i].start = @ + 1] \in [Instances -> [start : Nat, stop : Nat]]
         /\ [ran EXCEPT ![i].stop = @ + 1] \in [Instances -> [start : Nat, stop : Nat]]
<1>1. ran[i] \in [start : Nat, stop : Nat]
  BY DEF BindTypes
<1>2. ran[i].start + 1 \in Nat /\ ran[i].stop + 1 \in Nat
  BY <1>1
<1>3. /\ [ran[i] EXCEPT !.start = ran[i].start + 1] \in [start : Nat, stop : Nat]
      /\ [ran[i] EXCEPT !.stop = ran[i].stop + 1] \in [start : Nat, stop : Nat]
  BY <1>1, <1>2
<1> QED
  BY <1>3 DEF BindTypes

\* The instances in use are counted.
LEMMA UsedFacts ==
  /\ IsFiniteSet(Used) /\ Cardinality(Used) \in Nat
  /\ (\A i \in Instances : inst[i].pc # "free") => Cardinality(Used) = MaxInstances
<1>1. IsFiniteSet(Instances) /\ Cardinality(Instances) = MaxInstances
  BY RecordsAssumption, FS_Interval DEF Instances
<1>2. Used \subseteq Instances
  BY DEF Used
<1>3. IsFiniteSet(Used) /\ Cardinality(Used) \in Nat
  BY <1>1, <1>2, FS_Subset, FS_CardinalityType
<1>4. ASSUME \A i \in Instances : inst[i].pc # "free" PROVE Used = Instances
  BY <1>4 DEF Used
<1> QED
  BY <1>1, <1>3, <1>4

\* As long as there is something to bind, there is a fresh instance for it.
LEMMA FreshFacts ==
  ASSUME BindTypes, Room, events # <<>> \/ (startPc = "bind" /\ startRecs # {})
  PROVE  Fresh \in Instances /\ inst[Fresh].pc = "free"
<1>1. Cardinality(ToBind) \in Nat /\ Cardinality(scene.records) \in Nat
  BY SceneFacts DEF ToBind, BindTypes
<1>2. Len(events) \in Nat /\ (events # <<>> => Len(events) > 0)
  BY DEF BindTypes
<1>3. ASSUME startPc = "bind", startRecs # {} PROVE Cardinality(ToBind) > 0
  <2>1. ToBind = startRecs
    BY <1>3 DEF ToBind
  <2>2. IsFiniteSet(startRecs)
    BY SceneFacts DEF BindTypes
  <2>3. Cardinality(startRecs) # 0
    BY <1>3, <2>2, FS_EmptySet
  <2> QED
    BY <1>1, <2>1, <2>3
<1>4. Cardinality(Used) < MaxInstances
  <2>1. Len(events) + Cardinality(ToBind) > 0
    BY <1>1, <1>2, <1>3
  <2>2. changes \in Nat /\ changes <= scene.maxChanges
    BY DEF BindTypes, MaxChanges
  <2> QED
    BY <1>1, <1>2, <2>1, <2>2, UsedFacts, SceneFacts, RecordsAssumption DEF Room
<1>5. PICK i \in Instances : inst[i].pc = "free"
  BY <1>4, UsedFacts, RecordsAssumption
<1> QED
  BY <1>5 DEF Fresh

\* A bind goroutine goes on: its instance keeps its record, the others are left alone.
LEMMA AtEffect ==
  ASSUME BindTypes, NEW i \in Instances, inst[i].pc # "free",
         NEW p \in Phases \cup {"ended"}, At(i, p)
  PROVE  /\ inst' \in [Instances -> [pc : Phases \cup {"free", "ended"}, rec : Records \cup {0}]]
         /\ inst'[i].pc = p /\ inst'[i].rec = inst[i].rec
         /\ \A j \in Instances : j # i => inst'[j] = inst[j]
         /\ Used' = Used
<1>1. inst' = [inst EXCEPT ![i].pc = p]
  BY DEF At
<1>2. /\ inst' \in [Instances -> [pc : Phases \cup {"free", "ended"}, rec : Records \cup {0}]]
      /\ inst'[i].pc = p /\ inst'[i].rec = inst[i].rec
      /\ \A j \in Instances : j # i => inst'[j] = inst[j]
  BY <1>1 DEF BindTypes
<1>3. Used' = Used
  BY <1>2 DEF Used, Phases
<1> QED
  BY <1>2, <1>3

\* Every step of a bind goroutine moves its instance.
LEMMA BindMoves ==
  ASSUME BindTypes, NEW i \in Instances, BindStep(i)
  PROVE  /\ inst' \in [Instances -> [pc : Phases \cup {"free", "ended"}, rec : Records \cup {0}]]
         /\ inst[i].pc # "free" /\ inst'[i].pc # "free" /\ inst'[i].rec = inst[i].rec
         /\ \A j \in Instances : j # i => inst'[j] = inst[j]
         /\ Used' = Used
         /\ UNCHANGED <<scene, records, events, changes, startVars, ran, unbinding, closed, closing>>
<1>1. PICK p \in Phases \cup {"ended"} : At(i, p)
  BY DEF BindStep, BuildSensor, AcquireSlot, RegisterSensor, ExposeSensor, SubscribeSensor,
         Publish, Activate, GiveUp, Phases
<1>2. inst[i].pc # "free"
  BY DEF BindStep, BuildSensor, AcquireSlot, RegisterSensor, ExposeSensor, SubscribeSensor,
         Publish, Activate
<1>3. UNCHANGED <<scene, records, events, changes, startVars, ran, unbinding, closed, closing>>
  BY DEF BindStep, BuildSensor, AcquireSlot, RegisterSensor, ExposeSensor, SubscribeSensor,
         Publish, Activate, lifeVars
<1>4. p # "free"
  BY DEF Phases
<1> QED
  BY <1>1, <1>2, <1>3, <1>4, AtEffect

\* A new bind goroutine takes a fresh instance.
LEMMA BeginEffect ==
  ASSUME BindTypes, Fresh \in Instances, inst[Fresh].pc = "free",
         NEW r \in Records, NEW p \in {"build", "slot"},
         inst' = [inst EXCEPT ![Fresh] = [pc |-> p, rec |-> r]]
  PROVE  /\ inst' \in [Instances -> [pc : Phases \cup {"free", "ended"}, rec : Records \cup {0}]]
         /\ inst'[Fresh].pc = p /\ inst'[Fresh].rec = r
         /\ \A j \in Instances : j # Fresh => inst'[j] = inst[j]
         /\ Cardinality(Used') = Cardinality(Used) + 1
<1>1. /\ inst' \in [Instances -> [pc : Phases \cup {"free", "ended"}, rec : Records \cup {0}]]
      /\ inst'[Fresh].pc = p /\ inst'[Fresh].rec = r
      /\ \A j \in Instances : j # Fresh => inst'[j] = inst[j]
  BY DEF BindTypes, Phases
<1>2. Used' = Used \cup {Fresh} /\ Fresh \notin Used
  BY <1>1 DEF Used
<1> QED
  BY <1>1, <1>2, UsedFacts, FS_AddElement

LEMMA BindTypesInit == Init => BindTypes /\ Room
<1> SUFFICES ASSUME Init PROVE BindTypes /\ Room
  OBVIOUS
<1>1. scene.maxChanges \in Nat
  BY ScenesAssumption DEF Init, SceneType
<1>2. BindTypes
  BY <1>1 DEF Init, BindTypes, Phases, MaxChanges
<1>3. Used = {} /\ ToBind = scene.records /\ Len(events) = 0 /\ changes = 0
  BY DEF Init, Used, ToBind
<1>4. Cardinality(Used) = 0 /\ Cardinality(scene.records) \in Nat
  BY <1>2, <1>3, SceneFacts, FS_EmptySet
<1>5. Room
  BY <1>3, <1>4 DEF Room
<1> QED
  BY <1>2, <1>5

\* Every step keeps the types.
LEMMA BindTypesStep ==
  BindTypes /\ Room /\ [Next]_vars => BindTypes'
<1> SUFFICES ASSUME BindTypes, Room, [Next]_vars PROVE BindTypes'
  OBVIOUS
<1> USE DEF BindTypes, MaxChanges
<1>1. ASSUME NEW r \in scene.records, Adopt(r) PROVE BindTypes'
  <2>1. r \in Records /\ scene.maxChanges \in Nat
    BY SceneFacts
  <2>2. events' \in Seq([kind : {"adopted", "deleted"}, rec : Records])
    BY <1>1, <2>1, EventFacts DEF Adopt
  <2> QED
    BY <1>1, <2>1, <2>2 DEF Adopt, HostChange, startVars, wireVars, lifeVars
<1>2. ASSUME NEW r \in scene.records, Delete(r) PROVE BindTypes'
  <2>1. r \in Records /\ scene.maxChanges \in Nat
    BY SceneFacts
  <2>2. events' \in Seq([kind : {"adopted", "deleted"}, rec : Records])
    BY <1>2, <2>1, EventFacts DEF Delete
  <2> QED
    BY <1>2, <2>1, <2>2 DEF Delete, HostChange, startVars, wireVars, lifeVars
<1>3. CASE OwnAdoptedRecords
  BY <1>3 DEF OwnAdoptedRecords, startVars, wireVars, lifeVars
<1>4. CASE StartDone
  BY <1>4 DEF StartDone, startVars, wireVars, lifeVars
<1>5. ASSUME NEW r \in Records, BindAtStart(r) PROVE BindTypes'
  <2>1. Fresh \in Instances /\ inst[Fresh].pc = "free"
    BY <1>5, FreshFacts DEF BindAtStart
  <2>2. inst' = inst \/ inst' = [inst EXCEPT ![Fresh] = [pc |-> "slot", rec |-> r]]
    BY <1>5 DEF BindAtStart
  <2>3. /\ inst' \in [Instances -> [pc : Phases \cup {"free", "ended"}, rec : Records \cup {0}]]
        /\ \A i \in Instances : inst'[i].pc # "free" => inst'[i].rec \in Records
    BY <2>1, <2>2, BeginEffect DEF BindTypes
  <2> QED
    BY <1>5, <2>3 DEF BindAtStart, BindTypes, MaxChanges, wireVars, lifeVars
<1>6. CASE OnAdopted
  <2>1. Fresh \in Instances /\ inst[Fresh].pc = "free" /\ Head(events).rec \in Records
    BY <1>6, FreshFacts, EventFacts DEF OnAdopted
  <2>2. \/ inst' = inst
        \/ inst' = [inst EXCEPT ![Fresh] = [pc |-> "build", rec |-> Head(events).rec]]
    BY <1>6 DEF OnAdopted
  <2>3. /\ inst' \in [Instances -> [pc : Phases \cup {"free", "ended"}, rec : Records \cup {0}]]
        /\ \A i \in Instances : inst'[i].pc # "free" => inst'[i].rec \in Records
    BY <2>1, <2>2, BeginEffect DEF BindTypes
  <2> QED
    BY <1>6, <2>3, EventFacts DEF OnAdopted, BindTypes, MaxChanges, startVars, wireVars, lifeVars
<1>7. CASE OnDeleted
  <2>1. Head(events).rec \in Records
    BY <1>7, EventFacts DEF OnDeleted
  <2>2. events' \in Seq([kind : {"adopted", "deleted"}, rec : Records])
    BY <1>7, EventFacts DEF OnDeleted
  <2> QED
    BY <1>7, <2>1, <2>2 DEF OnDeleted, startVars, wireVars, lifeVars
<1>8. CASE Unbind
  BY <1>8 DEF Unbind, Teardown, startVars, wireVars, lifeVars
<1>9. CASE Close
  BY <1>9 DEF Close, startVars, wireVars, lifeVars
<1>10. CASE CloseSensor
  BY <1>10 DEF CloseSensor, Teardown, startVars, wireVars, lifeVars
<1>11. ASSUME NEW i \in Instances, BuildSensor(i) PROVE BindTypes'
  <2>1. BindStep(i)
    BY <1>11 DEF BindStep
  <2>2. \A j \in Instances : inst'[j].pc # "free" => inst'[j].rec \in Records
    BY <2>1, BindMoves DEF BindTypes
  <2>3. owned' \in [Records -> Instances \cup {0}] /\ cleanups' \in [Records -> Instances \cup {0}]
    BY <1>11 DEF BindTypes, BuildSensor
  <2>4. due' \in [Instances -> SUBSET {"start", "stop"}]
    BY <1>11 DEF BindTypes, lifeVars, BuildSensor
  <2>5. handlers' \subseteq Instances /\ feeds' \subseteq Instances
    BY <1>11 DEF BindTypes, wireVars, BuildSensor
  <2> QED
    BY <2>1, <2>2, <2>3, <2>4, <2>5, BindMoves DEF BindTypes, startVars, MaxChanges
<1>12. ASSUME NEW i \in Instances, AcquireSlot(i) PROVE BindTypes'
  <2>1. BindStep(i)
    BY <1>12 DEF BindStep
  <2>2. \A j \in Instances : inst'[j].pc # "free" => inst'[j].rec \in Records
    BY <2>1, BindMoves DEF BindTypes
  <2>3. owned' \in [Records -> Instances \cup {0}] /\ cleanups' \in [Records -> Instances \cup {0}]
    BY <1>12 DEF BindTypes, AcquireSlot
  <2>4. due' \in [Instances -> SUBSET {"start", "stop"}]
    BY <1>12 DEF BindTypes, lifeVars, AcquireSlot
  <2>5. handlers' \subseteq Instances /\ feeds' \subseteq Instances
    BY <1>12 DEF BindTypes, wireVars, AcquireSlot
  <2> QED
    BY <2>1, <2>2, <2>3, <2>4, <2>5, BindMoves DEF BindTypes, startVars, MaxChanges
<1>13. ASSUME NEW i \in Instances, RegisterSensor(i) PROVE BindTypes'
  <2>1. BindStep(i)
    BY <1>13 DEF BindStep
  <2>2. \A j \in Instances : inst'[j].pc # "free" => inst'[j].rec \in Records
    BY <2>1, BindMoves DEF BindTypes
  <2>3. owned' \in [Records -> Instances \cup {0}] /\ cleanups' \in [Records -> Instances \cup {0}]
    BY <1>13 DEF BindTypes, RegisterSensor
  <2>4. due' \in [Instances -> SUBSET {"start", "stop"}]
    BY <1>13 DEF BindTypes, lifeVars, RegisterSensor
  <2>5. handlers' \subseteq Instances /\ feeds' \subseteq Instances
    BY <1>13 DEF BindTypes, wireVars, RegisterSensor
  <2> QED
    BY <2>1, <2>2, <2>3, <2>4, <2>5, BindMoves DEF BindTypes, startVars, MaxChanges
<1>14. ASSUME NEW i \in Instances, ExposeSensor(i) PROVE BindTypes'
  <2>1. BindStep(i)
    BY <1>14 DEF BindStep
  <2>2. \A j \in Instances : inst'[j].pc # "free" => inst'[j].rec \in Records
    BY <2>1, BindMoves DEF BindTypes
  <2>3. owned' \in [Records -> Instances \cup {0}] /\ cleanups' \in [Records -> Instances \cup {0}]
    BY <1>14 DEF BindTypes, ExposeSensor
  <2>4. due' \in [Instances -> SUBSET {"start", "stop"}]
    BY <1>14 DEF BindTypes, lifeVars, ExposeSensor
  <2>5. handlers' \subseteq Instances /\ feeds' \subseteq Instances
    BY <1>14 DEF BindTypes, wireVars, ExposeSensor
  <2> QED
    BY <2>1, <2>2, <2>3, <2>4, <2>5, BindMoves DEF BindTypes, startVars, MaxChanges
<1>15. ASSUME NEW i \in Instances, SubscribeSensor(i) PROVE BindTypes'
  <2>1. BindStep(i)
    BY <1>15 DEF BindStep
  <2>2. \A j \in Instances : inst'[j].pc # "free" => inst'[j].rec \in Records
    BY <2>1, BindMoves DEF BindTypes
  <2>3. owned' \in [Records -> Instances \cup {0}] /\ cleanups' \in [Records -> Instances \cup {0}]
    BY <1>15 DEF BindTypes, SubscribeSensor
  <2>4. due' \in [Instances -> SUBSET {"start", "stop"}]
    BY <1>15 DEF BindTypes, lifeVars, SubscribeSensor
  <2>5. handlers' \subseteq Instances /\ feeds' \subseteq Instances
    BY <1>15 DEF BindTypes, wireVars, SubscribeSensor
  <2> QED
    BY <2>1, <2>2, <2>3, <2>4, <2>5, BindMoves DEF BindTypes, startVars, MaxChanges
<1>16. ASSUME NEW i \in Instances, Publish(i) PROVE BindTypes'
  <2>1. BindStep(i)
    BY <1>16 DEF BindStep
  <2>2. \A j \in Instances : inst'[j].pc # "free" => inst'[j].rec \in Records
    BY <2>1, BindMoves DEF BindTypes
  <2>3. owned' \in [Records -> Instances \cup {0}] /\ cleanups' \in [Records -> Instances \cup {0}]
    BY <1>16 DEF BindTypes, Publish
  <2>4. due' \in [Instances -> SUBSET {"start", "stop"}]
    BY <1>16 DEF BindTypes, lifeVars, Publish
  <2>5. handlers' \subseteq Instances /\ feeds' \subseteq Instances
    BY <1>16 DEF BindTypes, wireVars, Publish
  <2> QED
    BY <2>1, <2>2, <2>3, <2>4, <2>5, BindMoves DEF BindTypes, startVars, MaxChanges
<1>17. ASSUME NEW i \in Instances, Activate(i) PROVE BindTypes'
  <2>1. BindStep(i)
    BY <1>17 DEF BindStep
  <2>2. \A j \in Instances : inst'[j].pc # "free" => inst'[j].rec \in Records
    BY <2>1, BindMoves DEF BindTypes
  <2>3. owned' \in [Records -> Instances \cup {0}] /\ cleanups' \in [Records -> Instances \cup {0}]
    BY <1>17 DEF BindTypes, Activate
  <2>4. due' \in [Instances -> SUBSET {"start", "stop"}]
    BY <1>17 DEF BindTypes, lifeVars, Activate
  <2>5. handlers' \subseteq Instances /\ feeds' \subseteq Instances
    BY <1>17 DEF BindTypes, wireVars, Activate
  <2> QED
    BY <2>1, <2>2, <2>3, <2>4, <2>5, BindMoves DEF BindTypes, startVars, MaxChanges
<1>18. ASSUME NEW i \in Instances, RunOnStart(i) PROVE BindTypes'
  <2>1. ran' \in [Instances -> [start : Nat, stop : Nat]]
    BY <1>18, RanFacts DEF RunOnStart
  <2>2. due' \in [Instances -> SUBSET {"start", "stop"}]
    BY <1>18 DEF RunOnStart
  <2> QED
    BY <1>18, <2>1, <2>2 DEF RunOnStart, startVars, wireVars
<1>19. ASSUME NEW i \in Instances, RunOnStop(i) PROVE BindTypes'
  <2>1. ran' \in [Instances -> [start : Nat, stop : Nat]]
    BY <1>19, RanFacts DEF RunOnStop
  <2>2. due' \in [Instances -> SUBSET {"start", "stop"}]
    BY <1>19 DEF RunOnStop
  <2> QED
    BY <1>19, <2>1, <2>2 DEF RunOnStop, startVars, wireVars
<1>20. CASE UNCHANGED vars
  BY <1>20 DEF vars, startVars, wireVars, lifeVars
<1> QED
  BY <1>1, <1>2, <1>3, <1>4, <1>5, <1>6, <1>7, <1>8, <1>9, <1>10, <1>11, <1>12, <1>13,
     <1>14, <1>15, <1>16, <1>17, <1>18, <1>19, <1>20 DEF Next, Host, StartStep,
     HandlerStep, BindStep, Lifecycle

\* A new instance is paid for by an event or by a record of the start, an event by a
\* change of the host.
LEMMA RoomStep ==
  BindTypes /\ Room /\ [Next]_vars => Room'
<1> SUFFICES ASSUME BindTypes, Room, [Next]_vars PROVE Room'
  OBVIOUS
<1>a. /\ Cardinality(Used) \in Nat /\ Len(events) \in Nat /\ changes \in Nat
      /\ Cardinality(ToBind) \in Nat /\ Cardinality(scene.records) \in Nat
  BY UsedFacts, SceneFacts, EventFacts DEF ToBind, BindTypes
<1>1. ASSUME NEW r \in scene.records, Adopt(r) PROVE Room'
  <2>1. r \in Records
    BY SceneFacts
  <2>2. Len(events') <= Len(events) + 1
    BY <1>1, <1>a, <2>1, EventFacts DEF Adopt
  <2>3. Len(events') \in Nat
    BY <1>1, <1>a, <2>1, EventFacts DEF Adopt
  <2>4. Used' = Used /\ ToBind' = ToBind /\ scene' = scene /\ changes' = changes + 1
    BY <1>1 DEF Adopt, HostChange, startVars, Used, ToBind
  <2> QED
    BY <1>a, <2>2, <2>3, <2>4 DEF Room
<1>2. ASSUME NEW r \in scene.records, Delete(r) PROVE Room'
  <2>1. r \in Records
    BY SceneFacts
  <2>2. Len(events') <= Len(events) + 1
    BY <1>2, <1>a, <2>1, EventFacts DEF Delete
  <2>3. Len(events') \in Nat
    BY <1>2, <1>a, <2>1, EventFacts DEF Delete
  <2>4. Used' = Used /\ ToBind' = ToBind /\ scene' = scene /\ changes' = changes + 1
    BY <1>2 DEF Delete, HostChange, startVars, Used, ToBind
  <2> QED
    BY <1>a, <2>2, <2>3, <2>4 DEF Room
<1>3. CASE OwnAdoptedRecords
  <2>1. startPc' # "start" /\ startRecs' \subseteq scene.records
    BY <1>3 DEF OwnAdoptedRecords, BindTypes
  <2>2. ToBind = scene.records /\ ToBind' \subseteq scene.records
    BY <1>3, <2>1 DEF OwnAdoptedRecords, ToBind
  <2>3. Cardinality(ToBind') <= Cardinality(ToBind) /\ Cardinality(ToBind') \in Nat
    BY <2>2, SceneFacts, FS_Subset
  <2>4. Used' = Used /\ UNCHANGED <<scene, events, changes>>
    BY <1>3 DEF OwnAdoptedRecords, Used
  <2> QED
    BY <1>a, <2>3, <2>4 DEF Room
<1>4. CASE StartDone
  BY <1>4 DEF StartDone, Room, Used, ToBind
<1>5. ASSUME NEW r \in Records, BindAtStart(r) PROVE Room'
  <2>1. ToBind = startRecs /\ ToBind' = startRecs \ {r} /\ r \in startRecs
    BY <1>5 DEF BindAtStart, ToBind
  <2>2. Cardinality(ToBind') = Cardinality(ToBind) - 1 /\ Cardinality(ToBind') \in Nat
    <3>1. IsFiniteSet(startRecs)
      BY SceneFacts DEF BindTypes
    <3>2. IsFiniteSet(startRecs \ {r}) /\ Cardinality(startRecs \ {r}) = Cardinality(startRecs) - 1
      BY <2>1, <3>1, FS_RemoveElement
    <3> QED
      BY <2>1, <3>2, FS_CardinalityType
  <2>3. Fresh \in Instances /\ inst[Fresh].pc = "free"
    BY <1>5, FreshFacts DEF BindAtStart
  <2>4. inst' = inst \/ inst' = [inst EXCEPT ![Fresh] = [pc |-> "slot", rec |-> r]]
    BY <1>5 DEF BindAtStart
  <2>5. Cardinality(Used') \in {Cardinality(Used), Cardinality(Used) + 1}
    <3>1. CASE inst' = inst
      BY <3>1 DEF Used
    <3>2. CASE inst' = [inst EXCEPT ![Fresh] = [pc |-> "slot", rec |-> r]]
      BY <2>3, <3>2, BeginEffect
    <3> QED
      BY <2>4, <3>1, <3>2
  <2>6. UNCHANGED <<scene, events, changes>>
    BY <1>5 DEF BindAtStart
  <2> QED
    BY <1>a, <2>2, <2>5, <2>6 DEF Room
<1>6. CASE OnAdopted
  <2>1. Len(events') = Len(events) - 1 /\ Len(events') \in Nat /\ Head(events).rec \in Records
    BY <1>6, <1>a, EventFacts DEF OnAdopted
  <2>2. Fresh \in Instances /\ inst[Fresh].pc = "free"
    BY <1>6, FreshFacts DEF OnAdopted
  <2>3. \/ inst' = inst
        \/ inst' = [inst EXCEPT ![Fresh] = [pc |-> "build", rec |-> Head(events).rec]]
    BY <1>6 DEF OnAdopted
  <2>4. Cardinality(Used') \in {Cardinality(Used), Cardinality(Used) + 1}
    <3>1. CASE inst' = inst
      BY <3>1 DEF Used
    <3>2. CASE inst' = [inst EXCEPT ![Fresh] = [pc |-> "build", rec |-> Head(events).rec]]
      BY <2>1, <2>2, <3>2, BeginEffect
    <3> QED
      BY <2>3, <3>1, <3>2
  <2>5. ToBind' = ToBind /\ UNCHANGED <<scene, changes>>
    BY <1>6 DEF OnAdopted, ToBind, startVars
  <2> QED
    BY <1>a, <2>1, <2>4, <2>5 DEF Room
<1>7. CASE OnDeleted
  <2>1. Len(events') = Len(events) - 1
    BY <1>7, EventFacts DEF OnDeleted
  <2>2. Used' = Used /\ ToBind' = ToBind /\ UNCHANGED <<scene, changes>>
    BY <1>7 DEF OnDeleted, Used, ToBind, startVars
  <2> QED
    BY <1>a, <2>1, <2>2 DEF Room
<1>8. CASE Unbind
  BY <1>8 DEF Unbind, Room, Used, ToBind, startVars
<1>9. CASE Close
  <2>1. Len(events') = 0
    BY <1>9 DEF Close
  <2>2. Used' = Used /\ ToBind' = ToBind /\ UNCHANGED <<scene, changes>>
    BY <1>9 DEF Close, Used, ToBind, startVars
  <2> QED
    BY <1>a, <2>1, <2>2 DEF Room
<1>10. CASE CloseSensor
  BY <1>10 DEF CloseSensor, Room, Used, ToBind, startVars
<1>11. ASSUME NEW i \in Instances, BuildSensor(i) PROVE Room'
  <2>1. BindStep(i)
    BY <1>11 DEF BindStep
  <2>2. Used' = Used /\ UNCHANGED <<scene, events, changes, startPc, startRecs>>
    BY <2>1, BindMoves DEF startVars
  <2> QED
    BY <2>2 DEF Room, ToBind
<1>12. ASSUME NEW i \in Instances, AcquireSlot(i) PROVE Room'
  <2>1. BindStep(i)
    BY <1>12 DEF BindStep
  <2>2. Used' = Used /\ UNCHANGED <<scene, events, changes, startPc, startRecs>>
    BY <2>1, BindMoves DEF startVars
  <2> QED
    BY <2>2 DEF Room, ToBind
<1>13. ASSUME NEW i \in Instances, RegisterSensor(i) PROVE Room'
  <2>1. BindStep(i)
    BY <1>13 DEF BindStep
  <2>2. Used' = Used /\ UNCHANGED <<scene, events, changes, startPc, startRecs>>
    BY <2>1, BindMoves DEF startVars
  <2> QED
    BY <2>2 DEF Room, ToBind
<1>14. ASSUME NEW i \in Instances, ExposeSensor(i) PROVE Room'
  <2>1. BindStep(i)
    BY <1>14 DEF BindStep
  <2>2. Used' = Used /\ UNCHANGED <<scene, events, changes, startPc, startRecs>>
    BY <2>1, BindMoves DEF startVars
  <2> QED
    BY <2>2 DEF Room, ToBind
<1>15. ASSUME NEW i \in Instances, SubscribeSensor(i) PROVE Room'
  <2>1. BindStep(i)
    BY <1>15 DEF BindStep
  <2>2. Used' = Used /\ UNCHANGED <<scene, events, changes, startPc, startRecs>>
    BY <2>1, BindMoves DEF startVars
  <2> QED
    BY <2>2 DEF Room, ToBind
<1>16. ASSUME NEW i \in Instances, Publish(i) PROVE Room'
  <2>1. BindStep(i)
    BY <1>16 DEF BindStep
  <2>2. Used' = Used /\ UNCHANGED <<scene, events, changes, startPc, startRecs>>
    BY <2>1, BindMoves DEF startVars
  <2> QED
    BY <2>2 DEF Room, ToBind
<1>17. ASSUME NEW i \in Instances, Activate(i) PROVE Room'
  <2>1. BindStep(i)
    BY <1>17 DEF BindStep
  <2>2. Used' = Used /\ UNCHANGED <<scene, events, changes, startPc, startRecs>>
    BY <2>1, BindMoves DEF startVars
  <2> QED
    BY <2>2 DEF Room, ToBind
<1>18. ASSUME NEW i \in Instances, RunOnStart(i) PROVE Room'
  BY <1>18 DEF RunOnStart, Room, Used, ToBind, startVars
<1>19. ASSUME NEW i \in Instances, RunOnStop(i) PROVE Room'
  BY <1>19 DEF RunOnStop, Room, Used, ToBind, startVars
<1>20. CASE UNCHANGED vars
  BY <1>20 DEF vars, startVars, Room, Used, ToBind
<1> QED
  BY <1>1, <1>2, <1>3, <1>4, <1>5, <1>6, <1>7, <1>8, <1>9, <1>10, <1>11, <1>12, <1>13,
     <1>14, <1>15, <1>16, <1>17, <1>18, <1>19, <1>20 DEF Next, Host, StartStep,
     HandlerStep, BindStep, Lifecycle

\* Only Publish makes an instance known, and only what is known is torn down.
LEMMA BindOwnsStep ==
  BindTypes /\ Room /\ BindOwns /\ [Next]_vars => BindOwns'
<1> SUFFICES ASSUME BindTypes, Room, BindOwns, [Next]_vars PROVE BindOwns'
  OBVIOUS
<1>1. ASSUME NEW r \in scene.records, Adopt(r) PROVE BindOwns'
  BY <1>1 DEF Adopt, HostChange, BindOwns, wireVars
<1>2. ASSUME NEW r \in scene.records, Delete(r) PROVE BindOwns'
  BY <1>2 DEF Delete, HostChange, BindOwns, wireVars
<1>3. CASE OwnAdoptedRecords
  BY <1>3 DEF OwnAdoptedRecords, BindOwns, wireVars
<1>4. CASE StartDone
  BY <1>4 DEF StartDone, BindOwns, wireVars
<1>5. ASSUME NEW r \in Records, BindAtStart(r) PROVE BindOwns'
  <2>1. Fresh \in Instances /\ inst[Fresh].pc = "free"
    BY <1>5, FreshFacts DEF BindAtStart
  <2>2. inst' = inst \/ inst' = [inst EXCEPT ![Fresh] = [pc |-> "slot", rec |-> r]]
    BY <1>5 DEF BindAtStart
  <2>3. UNCHANGED <<owned, handlers, storage, unbinding, closing>>
    BY <1>5 DEF BindAtStart, wireVars
  <2>4. CASE inst' = inst
    BY <2>3, <2>4 DEF BindOwns
  <2>5. CASE inst' = [inst EXCEPT ![Fresh] = [pc |-> "slot", rec |-> r]]
    <3>1. /\ inst'[Fresh].pc = "slot"
          /\ \A j \in Instances : j # Fresh => inst'[j] = inst[j]
      BY <2>1, <2>5, BeginEffect
    <3> QED
      BY <2>1, <2>3, <3>1 DEF BindOwns, Early
  <2> QED
    BY <2>2, <2>4, <2>5
<1>6. CASE OnAdopted
  <2>1. Fresh \in Instances /\ inst[Fresh].pc = "free" /\ Head(events).rec \in Records
    BY <1>6, FreshFacts, EventFacts DEF OnAdopted
  <2>2. inst' = inst \/ inst' = [inst EXCEPT ![Fresh] = [pc |-> "build", rec |-> Head(events).rec]]
    BY <1>6 DEF OnAdopted
  <2>3. UNCHANGED <<owned, handlers, storage, unbinding, closing>>
    BY <1>6 DEF OnAdopted, wireVars
  <2>4. CASE inst' = inst
    BY <2>3, <2>4 DEF BindOwns
  <2>5. CASE inst' = [inst EXCEPT ![Fresh] = [pc |-> "build", rec |-> Head(events).rec]]
    <3>1. /\ inst'[Fresh].pc = "build"
          /\ \A j \in Instances : j # Fresh => inst'[j] = inst[j]
      BY <2>1, <2>5, BeginEffect
    <3> QED
      BY <2>1, <2>3, <3>1 DEF BindOwns, Early
  <2> QED
    BY <2>2, <2>4, <2>5
<1>7. CASE OnDeleted
  <2>1. Head(events).rec \in Records
    BY <1>7, EventFacts DEF OnDeleted
  <2> QED
    BY <1>7, <2>1 DEF OnDeleted, BindOwns, BindTypes, wireVars, Instances
<1>8. CASE Unbind
  <2>1. unbinding \in Instances
    BY <1>8 DEF Unbind, BindTypes
  <2>2. inst[unbinding].pc \notin Early
    BY <2>1 DEF BindOwns
  <2> QED
    BY <1>8, <2>1, <2>2 DEF Unbind, Teardown, BindOwns, Early, Instances
<1>9. CASE Close
  <2>1. UNCHANGED <<inst, handlers, storage, unbinding>>
    BY <1>9 DEF Close, wireVars
  <2>2. \A i \in Instances : i \in closing' => \E r \in Records : owned[r] = i
    BY <1>9 DEF Close
  <2>3. \A r \in Records : owned'[r] = 0
    BY <1>9 DEF Close
  <2> QED
    BY <2>1, <2>2, <2>3 DEF BindOwns, Instances
<1>10. CASE CloseSensor
  <2>1. PICK i \in closing : Teardown(i) /\ closing' = closing \ {i}
    BY <1>10 DEF CloseSensor
  <2>2. i \in Instances /\ inst[i].pc \notin Early
    BY DEF BindOwns, BindTypes
  <2> QED
    BY <1>10, <2>1, <2>2 DEF CloseSensor, Teardown, BindOwns, Early
<1>11. ASSUME NEW i \in Instances, BuildSensor(i) PROVE BindOwns'
  <2>1. BindStep(i)
    BY <1>11 DEF BindStep
  <2>2. /\ \A j \in Instances : j # i => inst'[j] = inst[j]
        /\ UNCHANGED <<unbinding, closing>>
    BY <2>1, BindMoves
  <2>3. /\ inst'[i].pc \in {"slot", "ended"} /\ inst[i].pc = "build"
        /\ UNCHANGED <<owned, handlers, storage>>
    BY <1>11, AtEffect DEF BuildSensor, wireVars, Phases
  <2> QED
    BY <2>2, <2>3 DEF BindOwns, Early
<1>12. ASSUME NEW i \in Instances, AcquireSlot(i) PROVE BindOwns'
  <2>1. BindStep(i)
    BY <1>12 DEF BindStep
  <2>2. /\ \A j \in Instances : j # i => inst'[j] = inst[j]
        /\ UNCHANGED <<unbinding, closing>>
    BY <2>1, BindMoves
  <2>3. /\ inst'[i].pc = "register" /\ inst[i].pc = "slot"
        /\ UNCHANGED <<owned, handlers, storage>>
    BY <1>12, AtEffect DEF AcquireSlot, wireVars, Phases
  <2> QED
    BY <2>2, <2>3 DEF BindOwns, Early
<1>13. ASSUME NEW i \in Instances, RegisterSensor(i) PROVE BindOwns'
  <2>1. BindStep(i)
    BY <1>13 DEF BindStep
  <2>2. /\ \A j \in Instances : j # i => inst'[j] = inst[j]
        /\ UNCHANGED <<unbinding, closing>>
    BY <2>1, BindMoves
  <2>3. /\ inst[i].pc = "register"
        /\ (inst'[i].pc = "expose" /\ i \in storage') \/ inst'[i].pc = "ended"
        /\ storage' \in {storage, storage \cup {i}} /\ UNCHANGED <<owned, handlers>>
    BY <1>13, AtEffect DEF RegisterSensor, GiveUp, Phases
  <2> QED
    BY <2>2, <2>3 DEF BindOwns, Early
<1>14. ASSUME NEW i \in Instances, ExposeSensor(i) PROVE BindOwns'
  <2>1. BindStep(i)
    BY <1>14 DEF BindStep
  <2>2. /\ \A j \in Instances : j # i => inst'[j] = inst[j]
        /\ UNCHANGED <<unbinding, closing>>
    BY <2>1, BindMoves
  <2>3. /\ inst[i].pc = "expose"
        /\ (inst'[i].pc = "subscribe" /\ i \in handlers') \/ inst'[i].pc = "ended"
        /\ handlers' \in {handlers, handlers \cup {i}} /\ UNCHANGED <<owned, storage>>
    BY <1>14, AtEffect DEF ExposeSensor, GiveUp, Phases
  <2> QED
    BY <2>2, <2>3 DEF BindOwns, Early
<1>15. ASSUME NEW i \in Instances, SubscribeSensor(i) PROVE BindOwns'
  <2>1. BindStep(i)
    BY <1>15 DEF BindStep
  <2>2. /\ \A j \in Instances : j # i => inst'[j] = inst[j]
        /\ UNCHANGED <<unbinding, closing>>
    BY <2>1, BindMoves
  <2>3. /\ inst'[i].pc = "publish" /\ inst[i].pc = "subscribe"
        /\ UNCHANGED <<owned, handlers, storage>>
    BY <1>15, AtEffect DEF SubscribeSensor, Phases
  <2> QED
    BY <2>2, <2>3 DEF BindOwns, Early
<1>16. ASSUME NEW i \in Instances, Publish(i) PROVE BindOwns'
  <2>1. BindStep(i)
    BY <1>16 DEF BindStep
  <2>2. /\ \A j \in Instances : j # i => inst'[j] = inst[j]
        /\ UNCHANGED <<unbinding, closing>>
    BY <2>1, BindMoves
  <2>3. /\ inst'[i].pc = "activate" /\ inst[i].pc = "publish" /\ inst[i].rec \in Records
        /\ owned' = [owned EXCEPT ![inst[i].rec] = i] /\ UNCHANGED <<handlers, storage>>
    BY <1>16, AtEffect DEF Publish, wireVars, Phases, BindTypes
  <2> QED
    BY <2>2, <2>3 DEF BindOwns, Early, BindTypes
<1>17. ASSUME NEW i \in Instances, Activate(i) PROVE BindOwns'
  <2>1. BindStep(i)
    BY <1>17 DEF BindStep
  <2>2. /\ \A j \in Instances : j # i => inst'[j] = inst[j]
        /\ UNCHANGED <<unbinding, closing>>
    BY <2>1, BindMoves
  <2>3. /\ inst'[i].pc = "ended" /\ inst[i].pc = "activate"
        /\ UNCHANGED <<owned, handlers, storage>>
    BY <1>17, AtEffect DEF Activate, wireVars, Phases
  <2> QED
    BY <2>2, <2>3 DEF BindOwns, Early
<1>18. ASSUME NEW i \in Instances, RunOnStart(i) PROVE BindOwns'
  BY <1>18 DEF RunOnStart, BindOwns, wireVars
<1>19. ASSUME NEW i \in Instances, RunOnStop(i) PROVE BindOwns'
  BY <1>19 DEF RunOnStop, BindOwns, wireVars
<1>20. CASE UNCHANGED vars
  BY <1>20 DEF vars, BindOwns, wireVars
<1> QED
  BY <1>1, <1>2, <1>3, <1>4, <1>5, <1>6, <1>7, <1>8, <1>9, <1>10, <1>11, <1>12, <1>13,
     <1>14, <1>15, <1>16, <1>17, <1>18, <1>19, <1>20 DEF Next, Host, StartStep,
     HandlerStep, BindStep, Lifecycle

\* Publish enters an instance that is complete, and what unbind and close take out of
\* the maps they alone tear down.
LEMMA OwnedIsWiredStep ==
  BindTypes /\ Room /\ BindOwns /\ OwnedIsWired /\ [Next]_vars => OwnedIsWired'
<1> SUFFICES ASSUME BindTypes, Room, BindOwns, OwnedIsWired, [Next]_vars PROVE OwnedIsWired'
  OBVIOUS
<1>1. ASSUME NEW r \in scene.records, Adopt(r) PROVE OwnedIsWired'
  BY <1>1 DEF Adopt, HostChange, OwnedIsWired, wireVars
<1>2. ASSUME NEW r \in scene.records, Delete(r) PROVE OwnedIsWired'
  BY <1>2 DEF Delete, HostChange, OwnedIsWired, wireVars
<1>3. CASE OwnAdoptedRecords
  BY <1>3 DEF OwnAdoptedRecords, OwnedIsWired, wireVars
<1>4. CASE StartDone
  BY <1>4 DEF StartDone, OwnedIsWired, wireVars
<1>5. ASSUME NEW r \in Records, BindAtStart(r) PROVE OwnedIsWired'
  <2>1. Fresh \in Instances /\ inst[Fresh].pc = "free"
    BY <1>5, FreshFacts DEF BindAtStart
  <2>2. inst' = inst \/ inst' = [inst EXCEPT ![Fresh] = [pc |-> "slot", rec |-> r]]
    BY <1>5 DEF BindAtStart
  <2>3. UNCHANGED <<owned, cleanups, handlers, storage, unbinding, closing>>
    BY <1>5 DEF BindAtStart, wireVars
  <2>4. CASE inst' = inst
    BY <2>3, <2>4 DEF OwnedIsWired
  <2>5. CASE inst' = [inst EXCEPT ![Fresh] = [pc |-> "slot", rec |-> r]]
    <3>1. \A j \in Instances : j # Fresh => inst'[j] = inst[j]
      BY <2>1, <2>5, BeginEffect
    <3>2. \A q \in Records : owned[q] # Fresh
      BY <2>1 DEF BindOwns, Early
    <3> QED
      BY <2>3, <3>1, <3>2 DEF OwnedIsWired, BindTypes
  <2> QED
    BY <2>2, <2>4, <2>5
<1>6. CASE OnAdopted
  <2>1. Fresh \in Instances /\ inst[Fresh].pc = "free" /\ Head(events).rec \in Records
    BY <1>6, FreshFacts, EventFacts DEF OnAdopted
  <2>2. inst' = inst \/ inst' = [inst EXCEPT ![Fresh] = [pc |-> "build", rec |-> Head(events).rec]]
    BY <1>6 DEF OnAdopted
  <2>3. UNCHANGED <<owned, cleanups, handlers, storage, unbinding, closing>>
    BY <1>6 DEF OnAdopted, wireVars
  <2>4. CASE inst' = inst
    BY <2>3, <2>4 DEF OwnedIsWired
  <2>5. CASE inst' = [inst EXCEPT ![Fresh] = [pc |-> "build", rec |-> Head(events).rec]]
    <3>1. \A j \in Instances : j # Fresh => inst'[j] = inst[j]
      BY <2>1, <2>5, BeginEffect
    <3>2. \A q \in Records : owned[q] # Fresh
      BY <2>1 DEF BindOwns, Early
    <3> QED
      BY <2>3, <3>1, <3>2 DEF OwnedIsWired, BindTypes
  <2> QED
    BY <2>2, <2>4, <2>5
<1>7. CASE OnDeleted
  <2>1. Head(events).rec \in Records
    BY <1>7, EventFacts DEF OnDeleted
  <2>2. /\ owned' = [owned EXCEPT ![Head(events).rec] = 0]
        /\ cleanups' = [cleanups EXCEPT ![Head(events).rec] = 0]
        /\ unbinding' = owned[Head(events).rec]
        /\ UNCHANGED <<inst, handlers, storage, closing>>
    BY <1>7 DEF OnDeleted, wireVars
  <2>3. unbinding' \notin closing
    BY <2>1, <2>2 DEF OwnedIsWired, BindTypes, Instances
  <2>4. ASSUME NEW q \in Records, owned'[q] # 0
        PROVE  owned'[q] = owned[q] /\ cleanups'[q] = cleanups[q] /\ owned[q] # unbinding'
    BY <2>1, <2>2, <2>4 DEF OwnedIsWired, BindTypes
  <2> QED
    BY <2>2, <2>3, <2>4 DEF OwnedIsWired
<1>8. CASE Unbind
  <2>1. /\ handlers' = handlers \ {unbinding} /\ storage' = storage \ {unbinding}
        /\ unbinding' = 0 /\ UNCHANGED <<inst, owned, cleanups, closing>>
    BY <1>8 DEF Unbind, Teardown
  <2>2. 0 \notin closing
    BY DEF BindTypes, Instances
  <2> QED
    BY <2>1, <2>2 DEF OwnedIsWired
<1>9. CASE Close
  <2>1. \A r \in Records : owned'[r] = 0
    BY <1>9 DEF Close
  <2>2. unbinding \notin closing'
    BY <1>9 DEF Close, OwnedIsWired
  <2> QED
    BY <1>9, <2>1, <2>2 DEF Close, OwnedIsWired
<1>10. CASE CloseSensor
  <2>1. PICK i \in closing : Teardown(i) /\ closing' = closing \ {i}
    BY <1>10 DEF CloseSensor
  <2>2. /\ handlers' = handlers \ {i} /\ storage' = storage \ {i}
        /\ UNCHANGED <<inst, owned, cleanups, unbinding>>
    BY <1>10, <2>1 DEF CloseSensor, Teardown
  <2> QED
    BY <2>1, <2>2 DEF OwnedIsWired
<1>11. ASSUME NEW i \in Instances, BuildSensor(i) PROVE OwnedIsWired'
  <2>1. BindStep(i)
    BY <1>11 DEF BindStep
  <2>2. /\ \A j \in Instances : inst'[j].rec = inst[j].rec
        /\ UNCHANGED <<unbinding, closing>>
    BY <2>1, BindMoves
  <2>3. handlers \subseteq handlers' /\ storage \subseteq storage' /\ UNCHANGED <<owned, cleanups>>
    BY <1>11 DEF BuildSensor, wireVars
  <2> QED
    BY <2>2, <2>3 DEF OwnedIsWired, BindTypes
<1>12. ASSUME NEW i \in Instances, AcquireSlot(i) PROVE OwnedIsWired'
  <2>1. BindStep(i)
    BY <1>12 DEF BindStep
  <2>2. /\ \A j \in Instances : inst'[j].rec = inst[j].rec
        /\ UNCHANGED <<unbinding, closing>>
    BY <2>1, BindMoves
  <2>3. handlers \subseteq handlers' /\ storage \subseteq storage' /\ UNCHANGED <<owned, cleanups>>
    BY <1>12 DEF AcquireSlot, wireVars
  <2> QED
    BY <2>2, <2>3 DEF OwnedIsWired, BindTypes
<1>13. ASSUME NEW i \in Instances, RegisterSensor(i) PROVE OwnedIsWired'
  <2>1. BindStep(i)
    BY <1>13 DEF BindStep
  <2>2. /\ \A j \in Instances : inst'[j].rec = inst[j].rec
        /\ UNCHANGED <<unbinding, closing>>
    BY <2>1, BindMoves
  <2>3. handlers \subseteq handlers' /\ storage \subseteq storage' /\ UNCHANGED <<owned, cleanups>>
    BY <1>13 DEF RegisterSensor
  <2> QED
    BY <2>2, <2>3 DEF OwnedIsWired, BindTypes
<1>14. ASSUME NEW i \in Instances, ExposeSensor(i) PROVE OwnedIsWired'
  <2>1. BindStep(i)
    BY <1>14 DEF BindStep
  <2>2. /\ \A j \in Instances : inst'[j].rec = inst[j].rec
        /\ UNCHANGED <<unbinding, closing>>
    BY <2>1, BindMoves
  <2>3. handlers \subseteq handlers' /\ storage \subseteq storage' /\ UNCHANGED <<owned, cleanups>>
    BY <1>14 DEF ExposeSensor
  <2> QED
    BY <2>2, <2>3 DEF OwnedIsWired, BindTypes
<1>15. ASSUME NEW i \in Instances, SubscribeSensor(i) PROVE OwnedIsWired'
  <2>1. BindStep(i)
    BY <1>15 DEF BindStep
  <2>2. /\ \A j \in Instances : inst'[j].rec = inst[j].rec
        /\ UNCHANGED <<unbinding, closing>>
    BY <2>1, BindMoves
  <2>3. handlers \subseteq handlers' /\ storage \subseteq storage' /\ UNCHANGED <<owned, cleanups>>
    BY <1>15 DEF SubscribeSensor
  <2> QED
    BY <2>2, <2>3 DEF OwnedIsWired, BindTypes
<1>16. ASSUME NEW i \in Instances, Publish(i) PROVE OwnedIsWired'
  <2>1. BindStep(i)
    BY <1>16 DEF BindStep
  <2>2. /\ \A j \in Instances : inst'[j].rec = inst[j].rec
        /\ UNCHANGED <<unbinding, closing>>
    BY <2>1, BindMoves
  <2>3. /\ inst[i].rec \in Records /\ i \in handlers \cap storage
        /\ i \notin closing /\ i # unbinding
    BY <1>16 DEF Publish, BindTypes, BindOwns, Early
  <2>4. /\ owned' = [owned EXCEPT ![inst[i].rec] = i]
        /\ cleanups' = [cleanups EXCEPT ![inst[i].rec] = i]
        /\ UNCHANGED <<handlers, storage>>
    BY <1>16 DEF Publish, wireVars
  <2> QED
    BY <2>2, <2>3, <2>4 DEF OwnedIsWired, BindTypes
<1>17. ASSUME NEW i \in Instances, Activate(i) PROVE OwnedIsWired'
  <2>1. BindStep(i)
    BY <1>17 DEF BindStep
  <2>2. /\ \A j \in Instances : inst'[j].rec = inst[j].rec
        /\ UNCHANGED <<unbinding, closing>>
    BY <2>1, BindMoves
  <2>3. handlers \subseteq handlers' /\ storage \subseteq storage' /\ UNCHANGED <<owned, cleanups>>
    BY <1>17 DEF Activate, wireVars
  <2> QED
    BY <2>2, <2>3 DEF OwnedIsWired, BindTypes
<1>18. ASSUME NEW i \in Instances, RunOnStart(i) PROVE OwnedIsWired'
  BY <1>18 DEF RunOnStart, OwnedIsWired, wireVars
<1>19. ASSUME NEW i \in Instances, RunOnStop(i) PROVE OwnedIsWired'
  BY <1>19 DEF RunOnStop, OwnedIsWired, wireVars
<1>20. CASE UNCHANGED vars
  BY <1>20 DEF vars, OwnedIsWired, wireVars
<1> QED
  BY <1>1, <1>2, <1>3, <1>4, <1>5, <1>6, <1>7, <1>8, <1>9, <1>10, <1>11, <1>12, <1>13,
     <1>14, <1>15, <1>16, <1>17, <1>18, <1>19, <1>20 DEF Next, Host, StartStep,
     HandlerStep, BindStep, Lifecycle

LEMMA MapsInit == Init => MapsIInv
<1> SUFFICES ASSUME Init PROVE MapsIInv
  OBVIOUS
<1>1. BindOwns
  BY DEF Init, BindOwns, Instances
<1>2. OwnedIsWired
  BY DEF Init, OwnedIsWired
<1> QED
  BY <1>1, <1>2, BindTypesInit DEF MapsIInv

LEMMA MapsInductive == MapsIInv /\ [Next]_vars => MapsIInv'
BY BindTypesStep, RoomStep, BindOwnsStep, OwnedIsWiredStep DEF MapsIInv

\* Every sensor of m.owned has its RPC handler, its storage and its own cleanup, and none
\* is torn down twice, for any number of records and slots and whatever binds, deletions
\* and closes overlap.
THEOREM OwnedSensorsWired == Spec => []OwnedIsWired
<1>1. MapsIInv => OwnedIsWired
  BY DEF MapsIInv
<1> QED
  BY <1>1, MapsInit, MapsInductive, PTL DEF Spec

\* The callbacks of the instances stay balanced when none is activated or torn down.
LEMMA BalancedSame ==
  ASSUME BindTypes, Balanced, UNCHANGED lifeVars,
         \A i \in Instances : inst[i].pc = "ended" => inst'[i].pc = "ended"
  PROVE  Balanced'
<1> SUFFICES ASSUME NEW i \in Instances
             PROVE  /\ ran[i].start + One("start" \in due[i])
                         = ran[i].stop + One("stop" \in due[i]) + One(i \in active)
                    /\ ran[i].start + One("start" \in due[i]) <= One(inst'[i].pc = "ended")
  BY DEF Balanced, lifeVars, One
<1>1. ran[i].start \in Nat /\ ran[i].stop \in Nat
  BY DEF BindTypes
<1> QED
  BY <1>1 DEF Balanced, One

\* A teardown of an active sensor owes it one OnStop, a second teardown none.
LEMMA TeardownBalanced ==
  ASSUME BindTypes, Balanced, NEW i \in Instances, Teardown(i), UNCHANGED <<inst, ran>>
  PROVE  Balanced'
<1> SUFFICES ASSUME NEW j \in Instances
             PROVE  /\ ran[j].start + One("start" \in due'[j])
                         = ran[j].stop + One("stop" \in due'[j]) + One(j \in active')
                    /\ ran[j].start + One("start" \in due'[j]) <= One(inst[j].pc = "ended")
  BY DEF Balanced, One
<1>1. /\ ran[j].start \in Nat /\ ran[j].stop \in Nat
      /\ ran[j].start + One("start" \in due[j])
           = ran[j].stop + One("stop" \in due[j]) + One(j \in active)
      /\ ran[j].start + One("start" \in due[j]) <= One(inst[j].pc = "ended")
  BY DEF BindTypes, Balanced
<1>2. CASE j = i /\ i \in active
  <2>1. "stop" \notin due[j]
    BY <1>1, <1>2 DEF One
  <2>2. due'[j] = due[j] \cup {"stop"} /\ j \notin active'
    BY <1>2 DEF Teardown, BindTypes
  <2> QED
    BY <1>1, <1>2, <2>1, <2>2 DEF One
<1>3. CASE ~(j = i /\ i \in active)
  <2>1. due'[j] = due[j] /\ (j \in active' <=> j \in active)
    BY <1>3 DEF Teardown, BindTypes
  <2> QED
    BY <1>1, <2>1 DEF One
<1> QED
  BY <1>2, <1>3

\* An activation owes one OnStart, and the teardown that ends it one OnStop; a
\* callback that runs is no longer owed.
LEMMA BalancedStep ==
  BindTypes /\ Room /\ Balanced /\ [Next]_vars => Balanced'
<1> SUFFICES ASSUME BindTypes, Room, Balanced, [Next]_vars PROVE Balanced'
  OBVIOUS
<1>1. ASSUME NEW r \in scene.records, Adopt(r) PROVE Balanced'
  BY <1>1, BalancedSame DEF Adopt, HostChange
<1>2. ASSUME NEW r \in scene.records, Delete(r) PROVE Balanced'
  BY <1>2, BalancedSame DEF Delete, HostChange
<1>3. CASE OwnAdoptedRecords
  BY <1>3, BalancedSame DEF OwnAdoptedRecords
<1>4. CASE StartDone
  BY <1>4, BalancedSame DEF StartDone
<1>5. ASSUME NEW r \in Records, BindAtStart(r) PROVE Balanced'
  <2>1. Fresh \in Instances /\ inst[Fresh].pc = "free"
    BY <1>5, FreshFacts DEF BindAtStart
  <2>2. inst' = inst \/ inst' = [inst EXCEPT ![Fresh] = [pc |-> "slot", rec |-> r]]
    BY <1>5 DEF BindAtStart
  <2>3. \A i \in Instances : inst[i].pc = "ended" => inst'[i].pc = "ended"
    BY <2>1, <2>2, BeginEffect
  <2> QED
    BY <1>5, <2>3, BalancedSame DEF BindAtStart
<1>6. CASE OnAdopted
  <2>1. Fresh \in Instances /\ inst[Fresh].pc = "free" /\ Head(events).rec \in Records
    BY <1>6, FreshFacts, EventFacts DEF OnAdopted
  <2>2. inst' = inst \/ inst' = [inst EXCEPT ![Fresh] = [pc |-> "build", rec |-> Head(events).rec]]
    BY <1>6 DEF OnAdopted
  <2>3. \A i \in Instances : inst[i].pc = "ended" => inst'[i].pc = "ended"
    BY <2>1, <2>2, BeginEffect
  <2> QED
    BY <1>6, <2>3, BalancedSame DEF OnAdopted
<1>7. CASE OnDeleted
  BY <1>7, BalancedSame DEF OnDeleted
<1>8. CASE Unbind
  <2>1. unbinding \in Instances
    BY <1>8 DEF Unbind, BindTypes
  <2> QED
    BY <1>8, <2>1, TeardownBalanced DEF Unbind
<1>9. CASE Close
  BY <1>9, BalancedSame DEF Close
<1>10. CASE CloseSensor
  <2>1. PICK i \in closing : Teardown(i)
    BY <1>10 DEF CloseSensor
  <2>2. i \in Instances
    BY DEF BindTypes
  <2> QED
    BY <1>10, <2>1, <2>2, TeardownBalanced DEF CloseSensor
<1>11. ASSUME NEW i \in Instances, BuildSensor(i) PROVE Balanced'
  <2>1. BindStep(i)
    BY <1>11 DEF BindStep
  <2>2. \A j \in Instances : inst[j].pc = "ended" => inst'[j].pc = "ended"
    BY <1>11, <2>1, BindMoves DEF BuildSensor
  <2> QED
    BY <1>11, <2>2, BalancedSame DEF BuildSensor
<1>12. ASSUME NEW i \in Instances, AcquireSlot(i) PROVE Balanced'
  <2>1. BindStep(i)
    BY <1>12 DEF BindStep
  <2>2. \A j \in Instances : inst[j].pc = "ended" => inst'[j].pc = "ended"
    BY <1>12, <2>1, BindMoves DEF AcquireSlot
  <2> QED
    BY <1>12, <2>2, BalancedSame DEF AcquireSlot
<1>13. ASSUME NEW i \in Instances, RegisterSensor(i) PROVE Balanced'
  <2>1. BindStep(i)
    BY <1>13 DEF BindStep
  <2>2. \A j \in Instances : inst[j].pc = "ended" => inst'[j].pc = "ended"
    BY <1>13, <2>1, BindMoves DEF RegisterSensor
  <2> QED
    BY <1>13, <2>2, BalancedSame DEF RegisterSensor
<1>14. ASSUME NEW i \in Instances, ExposeSensor(i) PROVE Balanced'
  <2>1. BindStep(i)
    BY <1>14 DEF BindStep
  <2>2. \A j \in Instances : inst[j].pc = "ended" => inst'[j].pc = "ended"
    BY <1>14, <2>1, BindMoves DEF ExposeSensor
  <2> QED
    BY <1>14, <2>2, BalancedSame DEF ExposeSensor
<1>15. ASSUME NEW i \in Instances, SubscribeSensor(i) PROVE Balanced'
  <2>1. BindStep(i)
    BY <1>15 DEF BindStep
  <2>2. \A j \in Instances : inst[j].pc = "ended" => inst'[j].pc = "ended"
    BY <1>15, <2>1, BindMoves DEF SubscribeSensor
  <2> QED
    BY <1>15, <2>2, BalancedSame DEF SubscribeSensor
<1>16. ASSUME NEW i \in Instances, Publish(i) PROVE Balanced'
  <2>1. BindStep(i)
    BY <1>16 DEF BindStep
  <2>2. \A j \in Instances : inst[j].pc = "ended" => inst'[j].pc = "ended"
    BY <1>16, <2>1, BindMoves DEF Publish
  <2> QED
    BY <1>16, <2>2, BalancedSame DEF Publish
<1>17. ASSUME NEW i \in Instances, Activate(i) PROVE Balanced'
  <2>1. /\ ran[i].start \in Nat /\ ran[i].stop \in Nat /\ inst[i].pc = "activate"
        /\ ran[i].start + One("start" \in due[i])
             = ran[i].stop + One("stop" \in due[i]) + One(i \in active)
        /\ ran[i].start + One("start" \in due[i]) <= One(inst[i].pc = "ended")
    BY <1>17 DEF BindTypes, Balanced, Activate
  <2>2. /\ ran[i].start = 0 /\ ran[i].stop = 0 /\ i \notin active
        /\ "start" \notin due[i] /\ "stop" \notin due[i]
    BY <2>1 DEF One
  <2>3. /\ active' = active \cup {i} /\ ran' = ran
        /\ due'[i] = due[i] \cup {"start"}
        /\ \A j \in Instances : j # i => due'[j] = due[j]
    BY <1>17, <2>2 DEF Activate, BindTypes
  <2>4. inst'[i].pc = "ended" /\ \A j \in Instances : j # i => inst'[j] = inst[j]
    BY <1>17, AtEffect DEF Activate
  <2>5. /\ ran'[i].start + One("start" \in due'[i])
             = ran'[i].stop + One("stop" \in due'[i]) + One(i \in active')
        /\ ran'[i].start + One("start" \in due'[i]) <= One(inst'[i].pc = "ended")
    BY <2>2, <2>3, <2>4 DEF One
  <2>6. ASSUME NEW j \in Instances, j # i
        PROVE  /\ ran'[j].start + One("start" \in due'[j])
                    = ran'[j].stop + One("stop" \in due'[j]) + One(j \in active')
               /\ ran'[j].start + One("start" \in due'[j]) <= One(inst'[j].pc = "ended")
    <3>1. /\ ran[j].start + One("start" \in due[j])
                = ran[j].stop + One("stop" \in due[j]) + One(j \in active)
          /\ ran[j].start + One("start" \in due[j]) <= One(inst[j].pc = "ended")
      BY DEF Balanced
    <3>2. (j \in active' <=> j \in active) /\ due'[j] = due[j] /\ inst'[j] = inst[j] /\ ran' = ran
      BY <2>3, <2>4, <2>6
    <3> QED
      BY <3>1, <3>2 DEF One
  <2> QED
    BY <2>5, <2>6 DEF Balanced, One
<1>18. ASSUME NEW i \in Instances, RunOnStart(i) PROVE Balanced'
  <2>1. /\ ran'[i].start = ran[i].start + 1 /\ ran'[i].stop = ran[i].stop
        /\ \A j \in Instances : j # i => ran'[j] = ran[j]
    BY <1>18 DEF RunOnStart, BindTypes
  <2>2. /\ "start" \in due[i] /\ due'[i] = due[i] \ {"start"}
        /\ \A j \in Instances : j # i => due'[j] = due[j]
        /\ UNCHANGED <<inst, active>>
    BY <1>18 DEF RunOnStart, BindTypes
  <2>3. /\ ran[i].start \in Nat /\ ran[i].stop \in Nat
        /\ ran[i].start + One("start" \in due[i])
             = ran[i].stop + One("stop" \in due[i]) + One(i \in active)
        /\ ran[i].start + One("start" \in due[i]) <= One(inst[i].pc = "ended")
    BY DEF BindTypes, Balanced
  <2>4. /\ ran'[i].start + One("start" \in due'[i]) = ran[i].start + One("start" \in due[i])
        /\ ran'[i].stop + One("stop" \in due'[i]) = ran[i].stop + One("stop" \in due[i])
    BY <2>1, <2>2, <2>3 DEF One
  <2>5. /\ ran'[i].start + One("start" \in due'[i])
             = ran'[i].stop + One("stop" \in due'[i]) + One(i \in active')
        /\ ran'[i].start + One("start" \in due'[i]) <= One(inst'[i].pc = "ended")
    BY <2>2, <2>3, <2>4
  <2> QED
    BY <2>1, <2>2, <2>5 DEF Balanced, One
<1>19. ASSUME NEW i \in Instances, RunOnStop(i) PROVE Balanced'
  <2>1. /\ ran'[i].stop = ran[i].stop + 1 /\ ran'[i].start = ran[i].start
        /\ \A j \in Instances : j # i => ran'[j] = ran[j]
    BY <1>19 DEF RunOnStop, BindTypes
  <2>2. /\ "stop" \in due[i] /\ due'[i] = due[i] \ {"stop"}
        /\ \A j \in Instances : j # i => due'[j] = due[j]
        /\ UNCHANGED <<inst, active>>
    BY <1>19 DEF RunOnStop, BindTypes
  <2>3. /\ ran[i].start \in Nat /\ ran[i].stop \in Nat
        /\ ran[i].start + One("start" \in due[i])
             = ran[i].stop + One("stop" \in due[i]) + One(i \in active)
        /\ ran[i].start + One("start" \in due[i]) <= One(inst[i].pc = "ended")
    BY DEF BindTypes, Balanced
  <2>4. /\ ran'[i].start + One("start" \in due'[i]) = ran[i].start + One("start" \in due[i])
        /\ ran'[i].stop + One("stop" \in due'[i]) = ran[i].stop + One("stop" \in due[i])
    BY <2>1, <2>2, <2>3 DEF One
  <2>5. /\ ran'[i].start + One("start" \in due'[i])
             = ran'[i].stop + One("stop" \in due'[i]) + One(i \in active')
        /\ ran'[i].start + One("start" \in due'[i]) <= One(inst'[i].pc = "ended")
    BY <2>2, <2>3, <2>4
  <2> QED
    BY <2>1, <2>2, <2>5 DEF Balanced, One
<1>20. CASE UNCHANGED vars
  BY <1>20, BalancedSame DEF vars
<1> QED
  BY <1>1, <1>2, <1>3, <1>4, <1>5, <1>6, <1>7, <1>8, <1>9, <1>10, <1>11, <1>12, <1>13,
     <1>14, <1>15, <1>16, <1>17, <1>18, <1>19, <1>20 DEF Next, Host, StartStep,
     HandlerStep, BindStep, Lifecycle

\* The binds under way: a step of a bind starts none, a new one is the fresh instance.
LEMMA BindingFacts ==
  ASSUME BindTypes
  PROVE  /\ \A i \in Instances : BindStep(i) => Binding' \subseteq Binding /\ i \in Binding
         /\ inst' = inst => Binding' = Binding
<1>1. ASSUME NEW i \in Instances, BindStep(i) PROVE Binding' \subseteq Binding /\ i \in Binding
  <2>1. i \in Binding
    BY <1>1 DEF BindStep, BuildSensor, AcquireSlot, RegisterSensor, ExposeSensor,
                SubscribeSensor, Publish, Activate, Binding, Phases
  <2>2. \A j \in Instances : j # i => inst'[j] = inst[j]
    BY <1>1, BindMoves
  <2> QED
    BY <2>1, <2>2 DEF Binding
<1>2. inst' = inst => Binding' = Binding
  BY DEF Binding
<1> QED
  BY <1>1, <1>2

LEMMA BeginBinding ==
  ASSUME BindTypes, Fresh \in Instances, inst[Fresh].pc = "free",
         NEW r \in Records, NEW p \in {"build", "slot"},
         inst' = [inst EXCEPT ![Fresh] = [pc |-> p, rec |-> r]]
  PROVE  Binding' = Binding \cup {Fresh} /\ Fresh \notin Binding
<1>1. /\ inst'[Fresh].pc = p
      /\ \A j \in Instances : j # Fresh => inst'[j] = inst[j]
  BY BeginEffect
<1> QED
  BY <1>1 DEF Binding, Phases

\* An event of an orderly life is the only one; when it is taken, none is left.
LEMMA LastEvent ==
  ASSUME BindTypes, OneAtATime, events # <<>>
  PROVE  Tail(events) = <<>>
<1> DEFINE Event == [kind : {"adopted", "deleted"}, rec : Records]
<1>1. events \in Seq(Event) /\ Len(events) <= 1
  BY DEF OneAtATime, BindTypes
<1> HIDE DEF Event
<1>2. Len(events) \in Nat \ {0}
  BY <1>1, EmptySeq
<1>3. Tail(events) \in Seq(Event) /\ Len(Tail(events)) = 0
  BY <1>1, <1>2
<1> QED
  BY <1>3, EmptySeq

\* The host, the handler and the close each wait for what is under way.
LEMMA OneAtATimeStep ==
  BindTypes /\ Room /\ Orderly /\ OneAtATime /\ [Next]_vars => OneAtATime'
<1> SUFFICES ASSUME BindTypes, Room, Orderly, OneAtATime, [Next]_vars PROVE OneAtATime'
  OBVIOUS
<1>1. ASSUME NEW r \in scene.records, Adopt(r) PROVE OneAtATime'
  <2>1. /\ startPc = "done" /\ Binding = {} /\ events = <<>> /\ unbinding = 0
        /\ UNCHANGED <<inst, startPc, startInst, owned, unbinding, closed, closing, subscribed>>
    BY <1>1 DEF Adopt, HostChange, Orderly, startVars
  <2>2. Binding' = {}
    BY <2>1, BindingFacts
  <2>3. r \in Records
    BY SceneFacts
  <2>4. Len(events') <= 1 /\ (events' # <<>> => subscribed)
    BY <1>1, <2>1, <2>3, EventFacts DEF Adopt
  <2> QED
    BY <2>1, <2>2, <2>4 DEF OneAtATime
<1>2. ASSUME NEW r \in scene.records, Delete(r) PROVE OneAtATime'
  <2>1. /\ startPc = "done" /\ Binding = {} /\ events = <<>> /\ unbinding = 0
        /\ UNCHANGED <<inst, startPc, startInst, owned, unbinding, closed, closing, subscribed>>
    BY <1>2 DEF Delete, HostChange, Orderly, startVars
  <2>2. Binding' = {}
    BY <2>1, BindingFacts
  <2>3. r \in Records
    BY SceneFacts
  <2>4. Len(events') <= 1 /\ (events' # <<>> => subscribed)
    BY <1>2, <2>1, <2>3, EventFacts DEF Delete
  <2> QED
    BY <2>1, <2>2, <2>4 DEF OneAtATime
<1>3. CASE OwnAdoptedRecords
  <2>1. Binding' = Binding
    BY <1>3, BindingFacts DEF OwnAdoptedRecords
  <2> QED
    BY <1>3, <2>1 DEF OwnAdoptedRecords, OneAtATime
<1>4. CASE StartDone
  <2>1. Binding' = Binding
    BY <1>4, BindingFacts DEF StartDone
  <2>2. Binding = {}
    BY <1>4 DEF StartDone, OneAtATime, Binding, Phases
  <2> QED
    BY <1>4, <2>1, <2>2 DEF StartDone, OneAtATime
<1>5. ASSUME NEW r \in Records, BindAtStart(r) PROVE OneAtATime'
  <2>1. Fresh \in Instances /\ inst[Fresh].pc = "free"
    BY <1>5, FreshFacts DEF BindAtStart
  <2>2. Binding' \subseteq startInst' /\ startInst' \subseteq Instances
    <3>1. CASE inst' = inst /\ startInst' = startInst
      BY <1>5, <3>1, BindingFacts DEF OneAtATime, BindAtStart
    <3>2. CASE /\ inst' = [inst EXCEPT ![Fresh] = [pc |-> "slot", rec |-> r]]
               /\ startInst' = startInst \cup {Fresh}
      BY <1>5, <2>1, <3>2, BeginBinding DEF OneAtATime, BindAtStart
    <3> QED
      BY <1>5, <3>1, <3>2 DEF BindAtStart
  <2> QED
    BY <1>5, <2>2 DEF BindAtStart, OneAtATime
<1>6. CASE OnAdopted
  <2>1. events' = <<>> /\ startPc = "done" /\ unbinding = 0 /\ ~closed
    BY <1>6, LastEvent DEF OnAdopted, OneAtATime
  <2> QED
    BY <1>6, <2>1 DEF OnAdopted, OneAtATime, startVars
<1>7. CASE OnDeleted
  <2>1. events' = <<>> /\ startPc = "done" /\ Binding = {} /\ ~closed
    BY <1>7, LastEvent DEF OnDeleted, OneAtATime
  <2>2. Binding' = Binding
    BY <1>7, BindingFacts DEF OnDeleted
  <2> QED
    BY <1>7, <2>1, <2>2 DEF OnDeleted, OneAtATime, startVars
<1>8. CASE Unbind
  <2>1. Binding' = Binding
    BY <1>8, BindingFacts DEF Unbind
  <2> QED
    BY <1>8, <2>1 DEF Unbind, OneAtATime, startVars
<1>9. CASE Close
  <2>1. Binding' = Binding
    BY <1>9, BindingFacts DEF Close
  <2> QED
    BY <1>9, <2>1 DEF Close, OneAtATime, startVars, Orderly
<1>10. CASE CloseSensor
  <2>1. Binding' = Binding
    BY <1>10, BindingFacts DEF CloseSensor
  <2> QED
    BY <1>10, <2>1 DEF CloseSensor, OneAtATime, startVars
<1>11. ASSUME NEW i \in Instances, BuildSensor(i) PROVE OneAtATime'
  <2>1. BindStep(i)
    BY <1>11 DEF BindStep
  <2>2. Binding' \subseteq Binding /\ Binding # {}
    BY <2>1, BindingFacts
  <2>3. UNCHANGED <<events, startPc, startInst, unbinding, closed, closing>>
    BY <2>1, BindMoves DEF startVars
  <2>4. startPc # "start" /\ ~closed
    BY <2>2 DEF OneAtATime
  <2> QED
    BY <2>2, <2>3, <2>4 DEF OneAtATime
<1>12. ASSUME NEW i \in Instances, AcquireSlot(i) PROVE OneAtATime'
  <2>1. BindStep(i)
    BY <1>12 DEF BindStep
  <2>2. Binding' \subseteq Binding /\ Binding # {}
    BY <2>1, BindingFacts
  <2>3. UNCHANGED <<events, startPc, startInst, unbinding, closed, closing>>
    BY <2>1, BindMoves DEF startVars
  <2>4. startPc # "start" /\ ~closed
    BY <2>2 DEF OneAtATime
  <2> QED
    BY <2>2, <2>3, <2>4 DEF OneAtATime
<1>13. ASSUME NEW i \in Instances, RegisterSensor(i) PROVE OneAtATime'
  <2>1. BindStep(i)
    BY <1>13 DEF BindStep
  <2>2. Binding' \subseteq Binding /\ Binding # {}
    BY <2>1, BindingFacts
  <2>3. UNCHANGED <<events, startPc, startInst, unbinding, closed, closing>>
    BY <2>1, BindMoves DEF startVars
  <2>4. startPc # "start" /\ ~closed
    BY <2>2 DEF OneAtATime
  <2> QED
    BY <2>2, <2>3, <2>4 DEF OneAtATime
<1>14. ASSUME NEW i \in Instances, ExposeSensor(i) PROVE OneAtATime'
  <2>1. BindStep(i)
    BY <1>14 DEF BindStep
  <2>2. Binding' \subseteq Binding /\ Binding # {}
    BY <2>1, BindingFacts
  <2>3. UNCHANGED <<events, startPc, startInst, unbinding, closed, closing>>
    BY <2>1, BindMoves DEF startVars
  <2>4. startPc # "start" /\ ~closed
    BY <2>2 DEF OneAtATime
  <2> QED
    BY <2>2, <2>3, <2>4 DEF OneAtATime
<1>15. ASSUME NEW i \in Instances, SubscribeSensor(i) PROVE OneAtATime'
  <2>1. BindStep(i)
    BY <1>15 DEF BindStep
  <2>2. Binding' \subseteq Binding /\ Binding # {}
    BY <2>1, BindingFacts
  <2>3. UNCHANGED <<events, startPc, startInst, unbinding, closed, closing>>
    BY <2>1, BindMoves DEF startVars
  <2>4. startPc # "start" /\ ~closed
    BY <2>2 DEF OneAtATime
  <2> QED
    BY <2>2, <2>3, <2>4 DEF OneAtATime
<1>16. ASSUME NEW i \in Instances, Publish(i) PROVE OneAtATime'
  <2>1. BindStep(i)
    BY <1>16 DEF BindStep
  <2>2. Binding' \subseteq Binding /\ Binding # {}
    BY <2>1, BindingFacts
  <2>3. UNCHANGED <<events, startPc, startInst, unbinding, closed, closing>>
    BY <2>1, BindMoves DEF startVars
  <2>4. startPc # "start" /\ ~closed
    BY <2>2 DEF OneAtATime
  <2> QED
    BY <2>2, <2>3, <2>4 DEF OneAtATime
<1>17. ASSUME NEW i \in Instances, Activate(i) PROVE OneAtATime'
  <2>1. BindStep(i)
    BY <1>17 DEF BindStep
  <2>2. Binding' \subseteq Binding /\ Binding # {}
    BY <2>1, BindingFacts
  <2>3. UNCHANGED <<events, startPc, startInst, unbinding, closed, closing>>
    BY <2>1, BindMoves DEF startVars
  <2>4. startPc # "start" /\ ~closed
    BY <2>2 DEF OneAtATime
  <2> QED
    BY <2>2, <2>3, <2>4 DEF OneAtATime
<1>18. ASSUME NEW i \in Instances, RunOnStart(i) PROVE OneAtATime'
  <2>1. Binding' = Binding
    BY <1>18, BindingFacts DEF RunOnStart
  <2> QED
    BY <1>18, <2>1 DEF RunOnStart, OneAtATime, startVars
<1>19. ASSUME NEW i \in Instances, RunOnStop(i) PROVE OneAtATime'
  <2>1. Binding' = Binding
    BY <1>19, BindingFacts DEF RunOnStop
  <2> QED
    BY <1>19, <2>1 DEF RunOnStop, OneAtATime, startVars
<1>20. CASE UNCHANGED vars
  <2>1. Binding' = Binding
    BY <1>20, BindingFacts DEF vars
  <2> QED
    BY <1>20, <2>1 DEF vars, startVars, OneAtATime
<1> QED
  BY <1>1, <1>2, <1>3, <1>4, <1>5, <1>6, <1>7, <1>8, <1>9, <1>10, <1>11, <1>12, <1>13,
     <1>14, <1>15, <1>16, <1>17, <1>18, <1>19, <1>20 DEF Next, Host, StartStep,
     HandlerStep, BindStep, Lifecycle

\* A bind begins only for a record that has neither a sensor nor another bind.
LEMMA OneBindStep ==
  BindTypes /\ Room /\ Orderly /\ OneAtATime /\ OneBind /\ [Next]_vars => OneBind'
<1> SUFFICES ASSUME BindTypes, Room, Orderly, OneAtATime, OneBind, [Next]_vars PROVE OneBind'
  OBVIOUS
<1>1. ASSUME NEW r \in scene.records, Adopt(r) PROVE OneBind'
  <2>1. Binding' = Binding
    BY <1>1, BindingFacts DEF Adopt, HostChange
  <2> QED
    BY <1>1, <2>1 DEF Adopt, HostChange, startVars, OneBind
<1>2. ASSUME NEW r \in scene.records, Delete(r) PROVE OneBind'
  <2>1. Binding' = Binding
    BY <1>2, BindingFacts DEF Delete, HostChange
  <2> QED
    BY <1>2, <2>1 DEF Delete, HostChange, startVars, OneBind
<1>3. CASE OwnAdoptedRecords
  <2>1. Binding' = {} /\ \A r \in Records : owned[r] = 0
    BY <1>3, BindingFacts DEF OwnAdoptedRecords, OneAtATime
  <2>2. startRecs' \subseteq Records /\ owned' = owned
    BY <1>3, SceneFacts DEF OwnAdoptedRecords, BindTypes
  <2> QED
    BY <2>1, <2>2 DEF OneBind
<1>4. CASE StartDone
  <2>1. Binding' = Binding
    BY <1>4, BindingFacts DEF StartDone
  <2> QED
    BY <1>4, <2>1 DEF StartDone, OneBind
<1>5. ASSUME NEW r \in Records, BindAtStart(r) PROVE OneBind'
  <2>1. /\ Fresh \in Instances /\ inst[Fresh].pc = "free" /\ owned' = owned /\ startPc' = startPc
        /\ startPc = "bind" /\ r \in startRecs /\ startRecs' = startRecs \ {r}
    BY <1>5, FreshFacts DEF BindAtStart
  <2>2. CASE inst' = inst
    <3>1. Binding' = Binding
      BY <2>2, BindingFacts
    <3> QED
      BY <2>1, <2>2, <3>1 DEF OneBind
  <2>3. CASE inst' = [inst EXCEPT ![Fresh] = [pc |-> "slot", rec |-> r]]
    <3>1. Binding' = Binding \cup {Fresh} /\ Fresh \notin Binding
      BY <2>1, <2>3, BeginBinding
    <3>2. inst'[Fresh].rec = r /\ \A j \in Binding : inst'[j] = inst[j]
      BY <2>1, <2>3, <3>1, BeginEffect DEF Binding
    <3>3. owned[r] = 0 /\ \A j \in Binding : inst[j].rec # r
      BY <2>1 DEF OneBind
    <3> QED
      BY <2>1, <3>1, <3>2, <3>3 DEF OneBind
  <2> QED
    BY <1>5, <2>2, <2>3 DEF BindAtStart
<1>6. CASE OnAdopted
  <2>1. Binding = {} /\ startPc' = "done" /\ owned' = owned
    BY <1>6 DEF OnAdopted, OneAtATime, startVars
  <2>2. Fresh \in Instances /\ inst[Fresh].pc = "free" /\ Head(events).rec \in Records
    BY <1>6, FreshFacts, EventFacts DEF OnAdopted
  <2>3. CASE inst' = inst
    BY <2>1, <2>3, BindingFacts DEF OneBind
  <2>4. CASE /\ inst' = [inst EXCEPT ![Fresh] = [pc |-> "build", rec |-> Head(events).rec]]
             /\ owned[Head(events).rec] = 0
    <3>1. Binding' = {Fresh}
      BY <2>1, <2>2, <2>4, BeginBinding
    <3>2. inst'[Fresh].rec = Head(events).rec
      BY <2>2, <2>4, BeginEffect
    <3> QED
      BY <2>1, <2>4, <3>1, <3>2 DEF OneBind
  <2> QED
    BY <1>6, <2>3, <2>4 DEF OnAdopted
<1>7. CASE OnDeleted
  <2>1. Binding' = {} /\ startPc' = "done"
    BY <1>7, BindingFacts DEF OnDeleted, OneAtATime, startVars
  <2> QED
    BY <2>1 DEF OneBind
<1>8. CASE Unbind
  <2>1. Binding' = Binding
    BY <1>8, BindingFacts DEF Unbind
  <2> QED
    BY <1>8, <2>1 DEF Unbind, startVars, OneBind
<1>9. CASE Close
  <2>1. Binding' = {} /\ startPc' = "done"
    BY <1>9, BindingFacts DEF Close, OneAtATime, startVars, Orderly
  <2> QED
    BY <2>1 DEF OneBind
<1>10. CASE CloseSensor
  <2>1. Binding' = Binding
    BY <1>10, BindingFacts DEF CloseSensor
  <2> QED
    BY <1>10, <2>1 DEF CloseSensor, startVars, OneBind
<1>11. ASSUME NEW i \in Instances, BuildSensor(i) PROVE OneBind'
  <2>1. BindStep(i)
    BY <1>11 DEF BindStep
  <2>2. /\ Binding' \subseteq Binding /\ UNCHANGED <<startPc, startRecs>>
        /\ \A j \in Binding : inst'[j].rec = inst[j].rec /\ (j # i => inst'[j] = inst[j])
    BY <2>1, BindingFacts, BindMoves DEF Binding, startVars
  <2>3. inst[i].pc # "activate" /\ owned' = owned
    BY <1>11 DEF BuildSensor
  <2> QED
    BY <2>2, <2>3 DEF OneBind
<1>12. ASSUME NEW i \in Instances, AcquireSlot(i) PROVE OneBind'
  <2>1. BindStep(i)
    BY <1>12 DEF BindStep
  <2>2. /\ Binding' \subseteq Binding /\ UNCHANGED <<startPc, startRecs>>
        /\ \A j \in Binding : inst'[j].rec = inst[j].rec /\ (j # i => inst'[j] = inst[j])
    BY <2>1, BindingFacts, BindMoves DEF Binding, startVars
  <2>3. inst[i].pc # "activate" /\ owned' = owned
    BY <1>12 DEF AcquireSlot
  <2> QED
    BY <2>2, <2>3 DEF OneBind
<1>13. ASSUME NEW i \in Instances, RegisterSensor(i) PROVE OneBind'
  <2>1. BindStep(i)
    BY <1>13 DEF BindStep
  <2>2. /\ Binding' \subseteq Binding /\ UNCHANGED <<startPc, startRecs>>
        /\ \A j \in Binding : inst'[j].rec = inst[j].rec /\ (j # i => inst'[j] = inst[j])
    BY <2>1, BindingFacts, BindMoves DEF Binding, startVars
  <2>3. inst[i].pc # "activate" /\ owned' = owned
    BY <1>13 DEF RegisterSensor
  <2> QED
    BY <2>2, <2>3 DEF OneBind
<1>14. ASSUME NEW i \in Instances, ExposeSensor(i) PROVE OneBind'
  <2>1. BindStep(i)
    BY <1>14 DEF BindStep
  <2>2. /\ Binding' \subseteq Binding /\ UNCHANGED <<startPc, startRecs>>
        /\ \A j \in Binding : inst'[j].rec = inst[j].rec /\ (j # i => inst'[j] = inst[j])
    BY <2>1, BindingFacts, BindMoves DEF Binding, startVars
  <2>3. inst[i].pc # "activate" /\ owned' = owned
    BY <1>14 DEF ExposeSensor
  <2> QED
    BY <2>2, <2>3 DEF OneBind
<1>15. ASSUME NEW i \in Instances, SubscribeSensor(i) PROVE OneBind'
  <2>1. BindStep(i)
    BY <1>15 DEF BindStep
  <2>2. /\ Binding' \subseteq Binding /\ UNCHANGED <<startPc, startRecs>>
        /\ \A j \in Binding : inst'[j].rec = inst[j].rec /\ (j # i => inst'[j] = inst[j])
    BY <2>1, BindingFacts, BindMoves DEF Binding, startVars
  <2>3. inst[i].pc # "activate" /\ owned' = owned
    BY <1>15 DEF SubscribeSensor
  <2> QED
    BY <2>2, <2>3 DEF OneBind
<1>16. ASSUME NEW i \in Instances, Publish(i) PROVE OneBind'
  <2>1. BindStep(i)
    BY <1>16 DEF BindStep
  <2>2. /\ Binding' \subseteq Binding /\ i \in Binding /\ UNCHANGED <<startPc, startRecs>>
        /\ \A j \in Binding : inst'[j].rec = inst[j].rec /\ (j # i => inst'[j] = inst[j])
    BY <2>1, BindingFacts, BindMoves DEF Binding, startVars
  <2>3. inst'[i].pc = "activate" /\ inst[i].rec \in Records
    BY <1>16, AtEffect DEF Publish, Phases, BindTypes
  <2>4. /\ owned' = [owned EXCEPT ![inst[i].rec] = i]
        /\ \A q \in Records : q # inst[i].rec => owned'[q] = owned[q]
    BY <1>16 DEF Publish, BindTypes
  <2>5. \A j \in Binding : inst[j].rec \in Records
    BY DEF Binding, BindTypes, Phases
  <2>6. startRecs \subseteq Records
    BY SceneFacts DEF BindTypes
  <2> QED
    BY <2>2, <2>3, <2>4, <2>5, <2>6 DEF OneBind
<1>17. ASSUME NEW i \in Instances, Activate(i) PROVE OneBind'
  <2>1. BindStep(i)
    BY <1>17 DEF BindStep
  <2>2. /\ Binding' \subseteq Binding /\ UNCHANGED <<startPc, startRecs>>
        /\ \A j \in Binding : inst'[j].rec = inst[j].rec /\ (j # i => inst'[j] = inst[j])
    BY <2>1, BindingFacts, BindMoves DEF Binding, startVars
  <2>3. inst'[i].pc = "ended" /\ owned' = owned
    BY <1>17, AtEffect DEF Activate
  <2>4. i \notin Binding'
    BY <2>3 DEF Binding, Phases
  <2> QED
    BY <2>2, <2>3, <2>4 DEF OneBind
<1>18. ASSUME NEW i \in Instances, RunOnStart(i) PROVE OneBind'
  <2>1. Binding' = Binding
    BY <1>18, BindingFacts DEF RunOnStart
  <2> QED
    BY <1>18, <2>1 DEF RunOnStart, startVars, OneBind
<1>19. ASSUME NEW i \in Instances, RunOnStop(i) PROVE OneBind'
  <2>1. Binding' = Binding
    BY <1>19, BindingFacts DEF RunOnStop
  <2> QED
    BY <1>19, <2>1 DEF RunOnStop, startVars, OneBind
<1>20. CASE UNCHANGED vars
  <2>1. Binding' = Binding
    BY <1>20, BindingFacts DEF vars
  <2> QED
    BY <1>20, <2>1 DEF vars, startVars, OneBind
<1> QED
  BY <1>1, <1>2, <1>3, <1>4, <1>5, <1>6, <1>7, <1>8, <1>9, <1>10, <1>11, <1>12, <1>13,
     <1>14, <1>15, <1>16, <1>17, <1>18, <1>19, <1>20 DEF Next, Host, StartStep,
     HandlerStep, BindStep, Lifecycle

\* In an orderly life nothing overwrites an entry of the maps, and what leaves them
\* is torn down.
LEMMA MapsTellStep ==
  MapsIInv /\ Orderly /\ OneAtATime /\ OneBind /\ MapsTell /\ [Next]_vars => MapsTell'
<1> SUFFICES ASSUME MapsIInv, Orderly, OneAtATime, OneBind, MapsTell, [Next]_vars PROVE MapsTell'
  OBVIOUS
<1>a. BindTypes /\ Room /\ BindOwns /\ OwnedIsWired
  BY DEF MapsIInv
<1>1. ASSUME NEW r \in scene.records, Adopt(r) PROVE MapsTell'
  BY <1>1 DEF Adopt, HostChange, MapsTell, Known, wireVars, lifeVars
<1>2. ASSUME NEW r \in scene.records, Delete(r) PROVE MapsTell'
  BY <1>2 DEF Delete, HostChange, MapsTell, Known, wireVars, lifeVars
<1>3. CASE OwnAdoptedRecords
  BY <1>3 DEF OwnAdoptedRecords, MapsTell, Known, wireVars, lifeVars
<1>4. CASE StartDone
  BY <1>4 DEF StartDone, MapsTell, Known, wireVars, lifeVars
<1>5. ASSUME NEW r \in Records, BindAtStart(r) PROVE MapsTell'
  <2>1. Fresh \in Instances /\ inst[Fresh].pc = "free"
    BY <1>5, <1>a, FreshFacts DEF BindAtStart
  <2>2. inst' = inst \/ inst' = [inst EXCEPT ![Fresh] = [pc |-> "slot", rec |-> r]]
    BY <1>5 DEF BindAtStart
  <2>3. UNCHANGED <<owned, handlers, feeds, active, unbinding, closing>>
    BY <1>5 DEF BindAtStart, wireVars, lifeVars
  <2>4. CASE inst' = inst
    BY <2>3, <2>4 DEF MapsTell, Known
  <2>5. CASE inst' = [inst EXCEPT ![Fresh] = [pc |-> "slot", rec |-> r]]
    <3>1. /\ inst'[Fresh].pc = "slot"
          /\ \A j \in Instances : j # Fresh => inst'[j] = inst[j]
      BY <1>a, <2>1, <2>5, BeginEffect
    <3>2. \A j \in Instances : Known(j)' <=> Known(j)
      BY <2>3 DEF Known
    <3>3. ~Known(Fresh)
      BY <1>a, <2>1 DEF Known, BindOwns, Early
    <3>4. Fresh \notin handlers \cup feeds \cup active
      BY <2>1, <3>3 DEF MapsTell
    <3> QED
      BY <2>1, <2>3, <3>1, <3>2, <3>3, <3>4 DEF MapsTell
  <2> QED
    BY <2>2, <2>4, <2>5
<1>6. CASE OnAdopted
  <2>1. Fresh \in Instances /\ inst[Fresh].pc = "free" /\ Head(events).rec \in Records
    BY <1>6, <1>a, FreshFacts, EventFacts DEF OnAdopted
  <2>2. inst' = inst \/ inst' = [inst EXCEPT ![Fresh] = [pc |-> "build", rec |-> Head(events).rec]]
    BY <1>6 DEF OnAdopted
  <2>3. UNCHANGED <<owned, handlers, feeds, active, unbinding, closing>>
    BY <1>6 DEF OnAdopted, wireVars, lifeVars
  <2>4. CASE inst' = inst
    BY <2>3, <2>4 DEF MapsTell, Known
  <2>5. CASE inst' = [inst EXCEPT ![Fresh] = [pc |-> "build", rec |-> Head(events).rec]]
    <3>1. /\ inst'[Fresh].pc = "build"
          /\ \A j \in Instances : j # Fresh => inst'[j] = inst[j]
      BY <1>a, <2>1, <2>5, BeginEffect
    <3>2. \A j \in Instances : Known(j)' <=> Known(j)
      BY <2>3 DEF Known
    <3>3. ~Known(Fresh)
      BY <1>a, <2>1 DEF Known, BindOwns, Early
    <3>4. Fresh \notin handlers \cup feeds \cup active
      BY <2>1, <3>3 DEF MapsTell
    <3> QED
      BY <2>1, <2>3, <3>1, <3>2, <3>3, <3>4 DEF MapsTell
  <2> QED
    BY <2>2, <2>4, <2>5
<1>7. CASE OnDeleted
  <2>1. Head(events).rec \in Records
    BY <1>7, <1>a, EventFacts DEF OnDeleted
  <2>2. /\ owned' = [owned EXCEPT ![Head(events).rec] = 0] /\ unbinding = 0
        /\ unbinding' = owned[Head(events).rec]
        /\ UNCHANGED <<inst, handlers, feeds, active, closing>>
    BY <1>7 DEF OnDeleted, wireVars, lifeVars
  <2>3. \A j \in Instances : Known(j)' <=> Known(j)
    BY <1>a, <2>1, <2>2 DEF Known, BindTypes, Instances
  <2>4. \A j \in Instances : inst[j].pc # "activate"
    BY <1>7 DEF OnDeleted, OneAtATime, Binding, Phases
  <2> QED
    BY <2>2, <2>3, <2>4 DEF MapsTell
<1>8. CASE Unbind
  <2> DEFINE i == unbinding
  <2>1. i \in Instances /\ Teardown(i) /\ unbinding' = 0 /\ UNCHANGED closing
    BY <1>8, <1>a DEF Unbind, BindTypes
  <2>2. /\ handlers' = handlers \ {i} /\ feeds' = feeds \ {i} /\ active' = active \ {i}
        /\ UNCHANGED <<inst, owned>>
    BY <1>8, <2>1 DEF Unbind, Teardown
  <2>3. \A j \in Instances : Known(j)' <=> (Known(j) /\ j # i)
    BY <1>8, <1>a, <2>1, <2>2 DEF Unbind, Known, OwnedIsWired, BindTypes, Instances
  <2> QED
    BY <2>2, <2>3 DEF MapsTell
<1>9. CASE Close
  <2>1. /\ closing = {} /\ unbinding = 0 /\ Binding = {}
        /\ UNCHANGED <<inst, handlers, feeds, active, unbinding>>
    BY <1>9 DEF Close, OneAtATime, Orderly, wireVars, lifeVars
  <2>2. \A j \in Instances : Known(j)' <=> Known(j)
    <3>1. \A r \in Records : owned'[r] = 0
      BY <1>9 DEF Close
    <3>2. \A j \in Instances : j \in closing' <=> \E r \in Records : owned[r] = j
      BY <1>9 DEF Close, Instances
    <3> QED
      BY <2>1, <3>1, <3>2 DEF Known, Instances
  <2>3. \A j \in Instances : inst[j].pc # "activate"
    BY <2>1 DEF Binding, Phases
  <2> QED
    BY <2>1, <2>2, <2>3 DEF MapsTell
<1>10. CASE CloseSensor
  <2>1. PICK i \in closing : Teardown(i) /\ closing' = closing \ {i}
    BY <1>10 DEF CloseSensor
  <2>2. /\ handlers' = handlers \ {i} /\ feeds' = feeds \ {i} /\ active' = active \ {i}
        /\ UNCHANGED <<inst, owned>>
    BY <1>10, <2>1 DEF CloseSensor, Teardown
  <2>3. \A j \in Instances : Known(j)' <=> (Known(j) /\ j # i)
    BY <1>10, <1>a, <2>1, <2>2 DEF CloseSensor, Known, OwnedIsWired, BindTypes, Instances
  <2> QED
    BY <2>2, <2>3 DEF MapsTell
<1>11. ASSUME NEW i \in Instances, BuildSensor(i) PROVE MapsTell'
  <2>1. BindStep(i)
    BY <1>11 DEF BindStep
  <2>2. /\ \A j \in Instances : inst'[j].rec = inst[j].rec /\ (j # i => inst'[j] = inst[j])
        /\ UNCHANGED <<unbinding, closing>>
    BY <1>a, <2>1, BindMoves
  <2>3. /\ inst[i].pc = "build" /\ inst'[i].pc \in {"slot", "ended"}
        /\ UNCHANGED <<owned, handlers, feeds, active>>
    BY <1>11, <1>a, AtEffect DEF BuildSensor, Phases, wireVars, lifeVars
  <2>4. \A j \in Instances : Known(j)' <=> Known(j)
    BY <2>2, <2>3 DEF Known
  <2> QED
    BY <2>2, <2>3, <2>4 DEF MapsTell
<1>12. ASSUME NEW i \in Instances, AcquireSlot(i) PROVE MapsTell'
  <2>1. BindStep(i)
    BY <1>12 DEF BindStep
  <2>2. /\ \A j \in Instances : inst'[j].rec = inst[j].rec /\ (j # i => inst'[j] = inst[j])
        /\ UNCHANGED <<unbinding, closing>>
    BY <1>a, <2>1, BindMoves
  <2>3. /\ inst[i].pc = "slot" /\ inst'[i].pc = "register"
        /\ UNCHANGED <<owned, handlers, feeds, active>>
    BY <1>12, <1>a, AtEffect DEF AcquireSlot, Phases, wireVars, lifeVars
  <2>4. \A j \in Instances : Known(j)' <=> Known(j)
    BY <2>2, <2>3 DEF Known
  <2> QED
    BY <2>2, <2>3, <2>4 DEF MapsTell
<1>13. ASSUME NEW i \in Instances, RegisterSensor(i) PROVE MapsTell'
  <2>1. BindStep(i)
    BY <1>13 DEF BindStep
  <2>2. /\ \A j \in Instances : inst'[j].rec = inst[j].rec /\ (j # i => inst'[j] = inst[j])
        /\ UNCHANGED <<unbinding, closing>>
    BY <1>a, <2>1, BindMoves
  <2>3. /\ inst[i].pc = "register" /\ inst'[i].pc \in {"expose", "ended"}
        /\ UNCHANGED <<owned, handlers, feeds, active>>
    BY <1>13, <1>a, AtEffect DEF RegisterSensor, GiveUp, Phases, lifeVars
  <2>4. \A j \in Instances : Known(j)' <=> Known(j)
    BY <2>2, <2>3 DEF Known
  <2> QED
    BY <2>2, <2>3, <2>4 DEF MapsTell
<1>14. ASSUME NEW i \in Instances, ExposeSensor(i) PROVE MapsTell'
  <2>1. BindStep(i)
    BY <1>14 DEF BindStep
  <2>2. /\ \A j \in Instances : inst'[j].rec = inst[j].rec /\ (j # i => inst'[j] = inst[j])
        /\ UNCHANGED <<unbinding, closing>>
    BY <1>a, <2>1, BindMoves
  <2>3. /\ inst[i].pc = "expose" /\ UNCHANGED <<owned, feeds, active>>
        /\ \/ inst'[i].pc = "subscribe" /\ handlers' = handlers \cup {i}
           \/ inst'[i].pc = "ended" /\ handlers' = handlers
    BY <1>14, <1>a, AtEffect DEF ExposeSensor, GiveUp, Phases, lifeVars
  <2>4. \A j \in Instances : Known(j)' <=> Known(j)
    BY <2>2, <2>3 DEF Known
  <2> QED
    BY <2>2, <2>3, <2>4 DEF MapsTell
<1>15. ASSUME NEW i \in Instances, SubscribeSensor(i) PROVE MapsTell'
  <2>1. BindStep(i)
    BY <1>15 DEF BindStep
  <2>2. /\ \A j \in Instances : inst'[j].rec = inst[j].rec /\ (j # i => inst'[j] = inst[j])
        /\ UNCHANGED <<unbinding, closing>>
    BY <1>a, <2>1, BindMoves
  <2>3. /\ inst[i].pc = "subscribe" /\ inst'[i].pc = "publish"
        /\ feeds' \in {feeds, feeds \cup {i}} /\ UNCHANGED <<owned, handlers, active>>
    BY <1>15, <1>a, AtEffect DEF SubscribeSensor, Phases, lifeVars
  <2>4. \A j \in Instances : Known(j)' <=> Known(j)
    BY <2>2, <2>3 DEF Known
  <2> QED
    BY <2>2, <2>3, <2>4 DEF MapsTell
<1>16. ASSUME NEW i \in Instances, Publish(i) PROVE MapsTell'
  <2>1. BindStep(i)
    BY <1>16 DEF BindStep
  <2>2. /\ \A j \in Instances : inst'[j].rec = inst[j].rec /\ (j # i => inst'[j] = inst[j])
        /\ UNCHANGED <<unbinding, closing>>
    BY <1>a, <2>1, BindMoves
  <2>3. /\ inst[i].pc = "publish" /\ inst'[i].pc = "activate" /\ inst[i].rec \in Records
        /\ owned' = [owned EXCEPT ![inst[i].rec] = i] /\ UNCHANGED <<handlers, feeds, active>>
    BY <1>16, <1>a, AtEffect DEF Publish, Phases, wireVars, lifeVars, BindTypes
  <2>4. owned[inst[i].rec] = 0
    BY <1>a, <2>1, <2>3, BindingFacts DEF OneBind
  <2>5. \A j \in Instances : Known(j)' <=> (Known(j) \/ j = i)
    BY <1>a, <2>2, <2>3, <2>4 DEF Known, BindTypes, Instances
  <2>6. \A j \in Instances : inst[j].pc = "activate" => inst[j].rec # inst[i].rec
    BY <1>a, <2>3, <2>4 DEF MapsTell, Instances
  <2> QED
    BY <1>a, <2>2, <2>3, <2>5, <2>6 DEF MapsTell, BindTypes
<1>17. ASSUME NEW i \in Instances, Activate(i) PROVE MapsTell'
  <2>1. BindStep(i)
    BY <1>17 DEF BindStep
  <2>2. /\ \A j \in Instances : inst'[j].rec = inst[j].rec /\ (j # i => inst'[j] = inst[j])
        /\ UNCHANGED <<unbinding, closing>>
    BY <1>a, <2>1, BindMoves
  <2>3. /\ inst[i].pc = "activate" /\ inst'[i].pc = "ended"
        /\ active' = active \cup {i} /\ UNCHANGED <<owned, handlers, feeds>>
    BY <1>17, <1>a, AtEffect DEF Activate, Phases, wireVars
  <2>4. \A j \in Instances : Known(j)' <=> Known(j)
    BY <2>2, <2>3 DEF Known
  <2> QED
    BY <1>a, <2>2, <2>3, <2>4 DEF MapsTell, BindTypes, Known
<1>18. ASSUME NEW i \in Instances, RunOnStart(i) PROVE MapsTell'
  BY <1>18 DEF RunOnStart, MapsTell, Known, wireVars
<1>19. ASSUME NEW i \in Instances, RunOnStop(i) PROVE MapsTell'
  BY <1>19 DEF RunOnStop, MapsTell, Known, wireVars
<1>20. CASE UNCHANGED vars
  BY <1>20 DEF vars, MapsTell, Known, wireVars, lifeVars
<1> QED
  BY <1>1, <1>2, <1>3, <1>4, <1>5, <1>6, <1>7, <1>8, <1>9, <1>10, <1>11, <1>12, <1>13,
     <1>14, <1>15, <1>16, <1>17, <1>18, <1>19, <1>20 DEF Next, Host, StartStep,
     HandlerStep, BindStep, Lifecycle

LEMMA LifeInit == Init => LifeIInv
<1> SUFFICES ASSUME Init PROVE LifeIInv
  OBVIOUS
<1>1. Balanced
  BY DEF Init, Balanced, One
<1>2. Binding = {}
  BY DEF Init, Binding, Phases
<1>3. OneAtATime
  BY <1>2 DEF Init, OneAtATime
<1>4. OneBind
  BY <1>2 DEF Init, OneBind
<1>5. MapsTell
  BY DEF Init, MapsTell, Known, Instances
<1> QED
  BY <1>1, <1>3, <1>4, <1>5, MapsInit DEF LifeIInv

LEMMA LifeInductive == LifeIInv /\ [Next]_vars => LifeIInv'
<1> SUFFICES ASSUME LifeIInv, [Next]_vars PROVE LifeIInv'
  OBVIOUS
<1>1. BindTypes /\ Room /\ MapsIInv /\ Balanced
  BY DEF LifeIInv, MapsIInv
<1>2. scene' = scene
  BY DEF Next, Host, Adopt, Delete, HostChange, StartStep, OwnAdoptedRecords, StartDone,
         BindAtStart, HandlerStep, OnAdopted, OnDeleted, Unbind, Close, CloseSensor, BindStep,
         BuildSensor, AcquireSlot, RegisterSensor, ExposeSensor, SubscribeSensor, Publish,
         Activate, Lifecycle, RunOnStart, RunOnStop, vars
<1>3. ASSUME Orderly' PROVE (OneAtATime /\ OneBind /\ MapsTell)'
  <2>1. Orderly
    BY <1>2, <1>3 DEF Orderly, Env
  <2>2. OneAtATime /\ OneBind /\ MapsTell
    BY <2>1 DEF LifeIInv
  <2> QED
    BY <1>1, <2>1, <2>2, OneAtATimeStep, OneBindStep, MapsTellStep
<1> QED
  BY <1>1, <1>3, MapsInductive, BalancedStep DEF LifeIInv

\* OnStart and OnStop "are paired 1:1", and a sensor that is gone leaves nothing registered
\* with the RPC client: in every orderly life, at every moment at which nothing is under
\* way, for any number of records, changes and slots, with binds that fail at any step.
THEOREM LifecyclePaired == Spec => []PairedLifecycle
<1>1. ASSUME LifeIInv PROVE PairedLifecycle
  <2> SUFFICES ASSUME Orderly, Quiet PROVE PairedLifecycle
    BY DEF PairedLifecycle
  <2>1. BindTypes /\ OwnedIsWired /\ Balanced /\ MapsTell
    BY <1>1 DEF LifeIInv, MapsIInv
  <2>2. \A i \in Instances : inst[i].pc \notin Phases /\ due[i] = {}
    BY DEF Quiet, Binding
  <2>3. \A i \in Instances : Known(i) <=> \E r \in Records : owned[r] = i
    BY DEF Quiet, Known, Instances
  <2>4. \A i \in Instances : i \in active <=> \E r \in Records : owned[r] = i
    BY <2>1, <2>2, <2>3 DEF MapsTell, Phases
  <2>5. ASSUME NEW i \in Instances
        PROVE  ran[i].start = ran[i].stop + (IF \E r \in Records : owned[r] = i THEN 1 ELSE 0)
    <3>1. ran[i].start \in Nat /\ ran[i].stop \in Nat
      BY <2>1 DEF BindTypes
    <3>2. ran[i].start + One("start" \in due[i])
            = ran[i].stop + One("stop" \in due[i]) + One(i \in active)
      BY <2>1 DEF Balanced
    <3>3. ran[i].start = ran[i].stop + One(i \in active)
      BY <2>2, <3>1, <3>2 DEF One
    <3> QED
      BY <2>4, <3>1, <3>3 DEF One
  <2>6. \A i \in Instances : i \in handlers \cup feeds => \E r \in Records : owned[r] = i
    BY <2>1, <2>2, <2>3 DEF MapsTell, Phases
  <2>7. handlers \cup feeds \subseteq Instances
    BY <1>1 DEF LifeIInv, MapsIInv, BindTypes
  <2> QED
    BY <2>5, <2>6, <2>7 DEF PairedLifecycle
<1> QED
  BY <1>1, LifeInit, LifeInductive, PTL DEF Spec

-----------------------------------------------------------------------------
(* EventEmitter                                                             *)

EmissionType == [pc : {"new", "call", "wait", "ended"}, entries : Seq(Handlers), at : Nat,
                 running : SUBSET Handlers]

\* A list holds every handler once.
Distinct(list) == \A i, j \in DOMAIN list : list[i] = list[j] => i = j

EmitterTypes ==
  /\ usage \in UsageType
  /\ listeners \in Seq(Handlers) /\ registered \subseteq Handlers
  /\ fired \in [Handlers -> Nat]
  /\ emit \in [Emissions -> EmissionType]

\* Listeners were registered and are there once; what was not registered is not called.
ListenersKnown ==
  /\ ToSet(listeners) \subseteq registered /\ Distinct(listeners)
  /\ \A h \in OnceHandlers \ registered : fired[h] = 0
  /\ \A t \in Emissions : emit[t].running \subseteq registered
  /\ \A t \in Emissions : emit[t].pc = "new" => emit[t].running = {}

\* One Emit runs at a time; the listeners begin with those it has copied, and have the
\* indices they had.
OneEmit ==
  usage = "single" =>
    /\ \A t \in Emissions : emit[t].pc # "wait" /\ emit[t].running = {}
    /\ \A t, u \in Emissions : emit[t].pc = "call" /\ emit[u].pc = "call" => t = u
    /\ \A t \in Emissions : emit[t].pc = "call" =>
         /\ emit[t].at \in 1 .. Len(emit[t].entries) + 1
         /\ Len(emit[t].entries) <= Len(listeners)
         /\ \A i \in 1 .. Len(emit[t].entries) : emit[t].entries[i] = listeners[i]

\* A listener that fires once has fired when the Emit that runs has passed its index,
\* and not before.
FiresInEmit ==
  usage = "single" =>
    \A i \in DOMAIN listeners : Once(listeners[i]) =>
         fired[listeners[i]] = IF \E t \in Emissions : emit[t].pc = "call" /\ i < emit[t].at
                               THEN 1 ELSE 0

\* A listener that fires once is a listener, is running or has fired.
FiresInWait ==
  usage = "waits" =>
    /\ \A t \in Emissions : emit[t].pc # "call"
    /\ \A h \in OnceHandlers :
         /\ h \in ToSet(listeners) => fired[h] = 0
         /\ \A t \in Emissions : h \in emit[t].running => h \notin ToSet(listeners) /\ fired[h] = 0
         /\ \A t, u \in Emissions : h \in emit[t].running /\ h \in emit[u].running => t = u

\* What ListenersKept says at every moment.
NoneTaken ==
  /\ \A h \in OnceHandlers : fired[h] <= 1
  /\ registered \ (dropped \cup OnceHandlers) \subseteq ToSet(listeners)
  /\ \A h \in (registered \cap OnceHandlers) \ dropped :
       \/ h \in ToSet(listeners)
       \/ fired[h] = 1
       \/ \E t \in Emissions : h \in emit[t].running

EmitterIInv ==
  EmitterTypes /\ ListenersKnown /\ OneEmit /\ FiresInEmit /\ FiresInWait /\ NoneTaken

\* The list without some positions has what is at the others, in a list.
LEMMA WithoutFacts ==
  ASSUME NEW S, NEW list \in Seq(S), NEW positions
  PROVE  /\ Without(list, positions) \in Seq(S)
         /\ \A i \in 1 .. Len(list) : i \notin positions => list[i] \in ToSet(Without(list, positions))
         /\ \A x \in ToSet(Without(list, positions)) :
              \E i \in 1 .. Len(list) : i \notin positions /\ x = list[i]
         /\ Distinct(list) => Distinct(Without(list, positions))
<1> DEFINE kept == {i \in 1 .. Len(list) : i \notin positions}
           upto(i) == {j \in kept : j <= i}
           size == Cardinality(kept)
           place(n) == CHOOSE i \in kept : Cardinality(upto(i)) = n
           out == [n \in 1 .. size |-> list[place(n)]]
<1>1. IsFiniteSet(kept) /\ size \in Nat /\ Len(list) \in Nat
  <2>1. Len(list) \in Nat
    OBVIOUS
  <2>2. IsFiniteSet(1 .. Len(list))
    BY <2>1, FS_Interval
  <2>3. kept \in SUBSET (1 .. Len(list))
    OBVIOUS
  <2> QED
    BY <2>1, <2>2, <2>3, FS_Subset, FS_CardinalityType
<1>2. ASSUME NEW i \in kept
      PROVE  IsFiniteSet(upto(i)) /\ Cardinality(upto(i)) \in 1 .. size
  <2>1. upto(i) \in SUBSET kept /\ i \in upto(i)
    BY <1>1
  <2>2. IsFiniteSet(upto(i)) /\ Cardinality(upto(i)) <= size /\ Cardinality(upto(i)) \in Nat
    BY <1>1, <2>1, FS_Subset, FS_CardinalityType
  <2>3. Cardinality(upto(i)) # 0
    BY <2>1, <2>2, FS_EmptySet
  <2> HIDE DEF size, upto
  <2> QED
    BY <1>1, <2>2, <2>3
<1>3. ASSUME NEW i \in kept, NEW j \in kept, Cardinality(upto(i)) = Cardinality(upto(j))
      PROVE  i = j
  <2>1. ASSUME NEW a \in kept, NEW b \in kept, a < b, Cardinality(upto(a)) = Cardinality(upto(b))
        PROVE  FALSE
    <3>1. upto(a) \in SUBSET upto(b) /\ b \in upto(b) /\ b \notin upto(a)
      BY <2>1, <1>1
    <3> HIDE DEF upto
    <3> QED
      BY <1>2, <2>1, <3>1, FS_Subset
  <2>2. i \in Nat /\ j \in Nat
    BY <1>1
  <2> HIDE DEF upto
  <2> QED
    BY <1>3, <2>1, <2>2
<1>4. ASSUME NEW n \in 1 .. size PROVE \E i \in kept : Cardinality(upto(i)) = n
  <2> DEFINE rank == [i \in kept |-> Cardinality(upto(i))]
  <2>1. rank \in [kept -> 1 .. size]
    BY <1>2
  <2>2. \A i, j \in kept : rank[i] = rank[j] => i = j
    <3> HIDE DEF upto, kept
    <3> QED
      BY <1>3
  <2> HIDE DEF upto, kept, rank, size
  <2>3. rank \in Injection(kept, 1 .. size)
    BY <2>1, <2>2 DEF Injection, IsInjective
  <2>4. IsFiniteSet(1 .. size) /\ Cardinality(1 .. size) = size
    BY <1>1, FS_Interval
  <2>5. rank \in Surjection(kept, 1 .. size)
    BY <2>3, <2>4, FS_Injection DEF size
  <2>6. \E i \in kept : rank[i] = n
    BY <2>5 DEF Surjection
  <2> QED
    BY <2>6 DEF rank
<1>5. \A n \in 1 .. size : place(n) \in kept /\ Cardinality(upto(place(n))) = n
  <2> HIDE DEF kept, upto, size
  <2> QED
    BY <1>4
<1>6. \A i \in kept : place(Cardinality(upto(i))) = i
  <2> SUFFICES ASSUME NEW i \in kept PROVE place(Cardinality(upto(i))) = i
    OBVIOUS
  <2>1. Cardinality(upto(i)) \in 1 .. size
    BY <1>2
  <2> HIDE DEF kept, upto, size, place
  <2> QED
    BY <1>3, <1>5, <2>1
<1>7. Without(list, positions) = out
  BY DEF Without
<1>8. out \in Seq(S)
  <2>0. \A i \in kept : i \in DOMAIN list /\ list[i] \in S
    BY <1>1
  <2>1. \A n \in 1 .. size : out[n] \in S
    <3> HIDE DEF kept, place, size, upto
    <3> QED
      BY <1>5, <2>0
  <2> HIDE DEF place, size
  <2> QED
    BY <1>1, <2>1, SeqDef
<1>9. DOMAIN out = 1 .. size /\ \A n \in 1 .. size : out[n] = list[place(n)]
  OBVIOUS
<1>10. \A i \in kept : \E n \in DOMAIN out : out[n] = list[i]
  <2> HIDE DEF kept, upto, size, place, out
  <2> QED
    BY <1>2, <1>6, <1>9
<1>11. ASSUME Distinct(list) PROVE Distinct(out)
  <2>1. \A i \in kept : i \in DOMAIN list
    BY <1>1
  <2> HIDE DEF kept, upto, size, place, out
  <2> QED
    BY <1>5, <1>9, <1>11, <2>1 DEF Distinct
<1>12. \A n \in DOMAIN out : \E i \in kept : out[n] = list[i]
  <2> HIDE DEF kept, upto, size, place, out
  <2> QED
    BY <1>5, <1>9
<1> HIDE DEF upto, size, place, out
<1> QED
  BY <1>7, <1>8, <1>10, <1>11, <1>12 DEF ToSet

\* The listeners and where they are.
LEMMA ListenerFacts ==
  ASSUME EmitterTypes
  PROVE  /\ Len(listeners) \in Nat /\ DOMAIN listeners = 1 .. Len(listeners)
         /\ \A i \in DOMAIN listeners : listeners[i] \in Handlers
         /\ ToSet(listeners) = {listeners[i] : i \in DOMAIN listeners}
         /\ \A t \in Emissions : emit[t] \in EmissionType
         /\ \A t \in Emissions : Len(emit[t].entries) \in Nat
         /\ \A t \in Emissions : DOMAIN emit[t].entries = 1 .. Len(emit[t].entries)
<1>1. \A t \in Emissions : emit[t] \in EmissionType /\ emit[t].entries \in Seq(Handlers)
  BY DEF EmitterTypes, EmissionType
<1> QED
  BY <1>1 DEF EmitterTypes, ToSet

LEMMA EmissionEffect ==
  ASSUME EmitterTypes, NEW t \in Emissions, NEW e \in EmissionType, emit' = [emit EXCEPT ![t] = e]
  PROVE  /\ emit' \in [Emissions -> EmissionType] /\ emit'[t] = e
         /\ \A u \in Emissions : u # t => emit'[u] = emit[u]
<1> HIDE DEF EmissionType
<1> QED
  BY DEF EmitterTypes

LEMMA AddListenerKeeps ==
  ASSUME EmitterIInv, NEW h \in Handlers, AddListener(h)
  PROVE  EmitterIInv'
<1>0. EmitterTypes /\ UNCHANGED <<usage, dropped, fired, emit>>
  BY DEF EmitterIInv, AddListener
<1>1. /\ listeners' \in Seq(Handlers) /\ Len(listeners') = Len(listeners) + 1
      /\ DOMAIN listeners' = 1 .. Len(listeners) + 1
      /\ \A i \in DOMAIN listeners : listeners'[i] = listeners[i]
      /\ listeners'[Len(listeners) + 1] = h
      /\ h \notin registered /\ registered' = registered \cup {h}
  BY <1>0, ListenerFacts, AppendProperties DEF AddListener, EmitterTypes
<1>2. ToSet(listeners') = ToSet(listeners) \cup {h}
  BY <1>0, <1>1, ListenerFacts DEF ToSet
<1>3. \A i \in DOMAIN listeners' : i # Len(listeners) + 1 => i \in DOMAIN listeners
  BY <1>0, <1>1, ListenerFacts
<1>4. EmitterTypes'
  BY <1>0, <1>1 DEF EmitterTypes
<1>5. h \notin ToSet(listeners)
  BY <1>1 DEF EmitterIInv, ListenersKnown
<1>6. Distinct(listeners')
  BY <1>0, <1>1, <1>3, <1>5, ListenerFacts DEF EmitterIInv, ListenersKnown, Distinct
<1>7. ListenersKnown'
  BY <1>0, <1>1, <1>2, <1>6 DEF EmitterIInv, ListenersKnown
<1>8. OneEmit'
  BY <1>0, <1>1, ListenerFacts DEF EmitterIInv, OneEmit
<1>9. FiresInEmit'
  <2> SUFFICES ASSUME usage = "single", NEW i \in DOMAIN listeners', Once(listeners'[i])
               PROVE  fired[listeners'[i]] =
                        IF \E t \in Emissions : emit[t].pc = "call" /\ i < emit[t].at THEN 1 ELSE 0
    BY <1>0 DEF FiresInEmit, Once
  <2>1. CASE i = Len(listeners) + 1
    <3>1. fired[h] = 0
      BY <1>1, <2>1 DEF EmitterIInv, ListenersKnown, Once
    <3>2. \A t \in Emissions : emit[t].pc = "call" => ~(i < emit[t].at)
      BY <1>0, <2>1, ListenerFacts DEF EmitterIInv, OneEmit
    <3> QED
      BY <1>1, <2>1, <3>1, <3>2
  <2>2. CASE i # Len(listeners) + 1
    BY <1>1, <1>3, <2>2 DEF EmitterIInv, FiresInEmit
  <2> QED
    BY <2>1, <2>2
<1>10. FiresInWait'
  BY <1>0, <1>1, <1>2 DEF EmitterIInv, FiresInWait, ListenersKnown
<1>11. NoneTaken'
  BY <1>0, <1>1, <1>2 DEF EmitterIInv, NoneTaken
<1> QED
  BY <1>4, <1>7, <1>8, <1>9, <1>10, <1>11 DEF EmitterIInv

LEMMA RemoveListenersKeeps ==
  ASSUME EmitterIInv, RemoveAllListeners
  PROVE  EmitterIInv'
<1>0. /\ EmitterTypes /\ UNCHANGED <<usage, registered, fired, emit>>
      /\ listeners' = <<>> /\ dropped' = dropped \cup ToSet(listeners)
      /\ usage = "single" => \A t \in Emissions : emit[t].pc # "call"
  BY DEF EmitterIInv, RemoveAllListeners, Undisturbed, Emitting
<1>1. DOMAIN listeners' = {} /\ ToSet(listeners') = {}
  BY <1>0 DEF ToSet
<1>2. EmitterTypes'
  BY <1>0 DEF EmitterTypes
<1>3. ListenersKnown'
  BY <1>0, <1>1 DEF EmitterIInv, ListenersKnown, Distinct
<1>4. OneEmit' /\ FiresInEmit' /\ FiresInWait'
  BY <1>0, <1>1 DEF EmitterIInv, OneEmit, FiresInEmit, FiresInWait
<1>5. NoneTaken'
  BY <1>0, <1>1 DEF EmitterIInv, NoneTaken
<1> QED
  BY <1>2, <1>3, <1>4, <1>5 DEF EmitterIInv

LEMMA BeginEmitKeeps ==
  ASSUME EmitterIInv, NEW t \in Emissions, BeginEmit(t)
  PROVE  EmitterIInv'
<1> DEFINE e == [NewEmission EXCEPT !.pc = "call", !.entries = listeners, !.at = 1]
<1>0. /\ EmitterTypes /\ UNCHANGED <<usage, listeners, registered, dropped, fired>>
      /\ usage = "single" /\ \A u \in Emissions : emit[u].pc # "call"
      /\ emit[t].pc = "new" /\ emit' = [emit EXCEPT ![t] = e]
  BY DEF EmitterIInv, BeginEmit, Undisturbed, Emitting
<1>1. /\ e \in EmissionType
      /\ e.pc = "call" /\ e.entries = listeners /\ e.at = 1 /\ e.running = {}
  BY <1>0 DEF EmissionType, EmitterTypes, NewEmission
<1> HIDE DEF e
<1>2. /\ emit' \in [Emissions -> EmissionType] /\ emit'[t] = e
      /\ \A u \in Emissions : u # t => emit'[u] = emit[u]
  BY <1>0, <1>1, EmissionEffect
<1>3. EmitterTypes'
  BY <1>0, <1>2 DEF EmitterTypes
<1>4. ListenersKnown'
  BY <1>0, <1>1, <1>2 DEF EmitterIInv, ListenersKnown
<1>5. OneEmit'
  BY <1>0, <1>1, <1>2, ListenerFacts DEF EmitterIInv, OneEmit
<1>6. FiresInEmit'
  <2>1. \A i \in DOMAIN listeners : ~(i < 1)
    BY <1>0, ListenerFacts
  <2> QED
    BY <1>0, <1>1, <1>2, <2>1 DEF EmitterIInv, FiresInEmit, Once
<1>7. FiresInWait'
  BY <1>0 DEF FiresInWait
<1>8. NoneTaken'
  BY <1>0, <1>1, <1>2 DEF EmitterIInv, NoneTaken, OneEmit
<1> QED
  BY <1>3, <1>4, <1>5, <1>6, <1>7, <1>8 DEF EmitterIInv

LEMMA CallHandlerKeeps ==
  ASSUME EmitterIInv, NEW t \in Emissions, CallHandler(t)
  PROVE  EmitterIInv'
<1> DEFINE k == emit[t].at
           h == emit[t].entries[k]
<1>0. /\ EmitterTypes /\ UNCHANGED <<usage, listeners, registered, dropped>>
      /\ emit[t].pc = "call" /\ k <= Len(emit[t].entries)
      /\ fired' = [fired EXCEPT ![h] = @ + 1]
      /\ emit' = [emit EXCEPT ![t].at = @ + 1]
  BY DEF EmitterIInv, CallHandler
<1>1. /\ usage = "single" /\ k \in DOMAIN listeners /\ h = listeners[k] /\ h \in Handlers
      /\ k \in 1 .. Len(emit[t].entries)
      /\ \A u \in Emissions : u # t => emit[u].pc # "call"
  BY <1>0, ListenerFacts DEF EmitterIInv, EmitterTypes, UsageType, FiresInWait, OneEmit
<1>2. /\ emit' \in [Emissions -> EmissionType]
      /\ emit'[t].pc = "call" /\ emit'[t].at = k + 1
      /\ emit'[t].entries = emit[t].entries /\ emit'[t].running = emit[t].running
      /\ \A u \in Emissions : u # t => emit'[u] = emit[u]
  <2>1. emit[t] \in EmissionType
    BY <1>0, ListenerFacts
  <2>2. emit' = [emit EXCEPT ![t] = [emit[t] EXCEPT !.at = k + 1]]
    BY <1>0
  <2>3. [emit[t] EXCEPT !.at = k + 1] \in EmissionType
    BY <2>1 DEF EmissionType
  <2>4. /\ emit' \in [Emissions -> EmissionType] /\ emit'[t] = [emit[t] EXCEPT !.at = k + 1]
        /\ \A u \in Emissions : u # t => emit'[u] = emit[u]
    BY <1>0, <2>2, <2>3, EmissionEffect
  <2> QED
    BY <1>0, <2>1, <2>4 DEF EmissionType
<1>3. /\ fired' \in [Handlers -> Nat] /\ fired'[h] = fired[h] + 1
      /\ \A x \in Handlers : x # h => fired'[x] = fired[x]
  <2> HIDE DEF h
  <2> QED
    BY <1>0, <1>1 DEF EmitterTypes
<1>4. h \in ToSet(listeners) /\ h \in registered
  BY <1>0, <1>1, ListenerFacts DEF EmitterIInv, ListenersKnown
<1>5. Once(h) => fired[h] = 0 /\ fired'[h] = 1
  <2>1. ~(\E u \in Emissions : emit[u].pc = "call" /\ k < emit[u].at)
    BY <1>1
  <2> QED
    BY <1>1, <1>3, <2>1 DEF EmitterIInv, FiresInEmit
<1> HIDE DEF k, h
<1>6. EmitterTypes'
  BY <1>0, <1>2, <1>3 DEF EmitterTypes
<1>7. ListenersKnown'
  BY <1>0, <1>2, <1>3, <1>4, EmitterAssumption DEF EmitterIInv, ListenersKnown
<1>8. OneEmit'
  BY <1>0, <1>1, <1>2, ListenerFacts DEF EmitterIInv, OneEmit, k
<1>9. FiresInEmit'
  <2> SUFFICES ASSUME NEW i \in DOMAIN listeners, Once(listeners[i])
               PROVE  fired'[listeners[i]] =
                        IF \E u \in Emissions : emit'[u].pc = "call" /\ i < emit'[u].at THEN 1 ELSE 0
    BY <1>0 DEF FiresInEmit, Once
  <2>1. (\E u \in Emissions : emit'[u].pc = "call" /\ i < emit'[u].at) <=> i < k + 1
    BY <1>1, <1>2
  <2>2. CASE i = k
    BY <1>0, <1>1, <1>5, <2>1, <2>2, ListenerFacts
  <2>3. CASE i # k
    <3>1. listeners[i] # h /\ listeners[i] \in Handlers
      BY <1>0, <1>1, <2>3, ListenerFacts DEF EmitterIInv, ListenersKnown, Distinct
    <3>2. (\E u \in Emissions : emit[u].pc = "call" /\ i < emit[u].at) <=> i < k
      BY <1>0, <1>1 DEF k
    <3>3. i < k + 1 <=> i < k
      BY <1>0, <1>1, <2>3, ListenerFacts
    <3> QED
      BY <1>1, <1>3, <2>1, <3>1, <3>2, <3>3 DEF EmitterIInv, FiresInEmit
  <2> QED
    BY <2>2, <2>3
<1>10. FiresInWait'
  BY <1>0, <1>1 DEF FiresInWait
<1>11. NoneTaken'
  BY <1>0, <1>2, <1>3, <1>4, <1>5, EmitterAssumption DEF EmitterIInv, NoneTaken, Once
<1> QED
  BY <1>6, <1>7, <1>8, <1>9, <1>10, <1>11 DEF EmitterIInv

LEMMA EndEmitKeeps ==
  ASSUME EmitterIInv, NEW t \in Emissions, EndEmit(t)
  PROVE  EmitterIInv'
<1> DEFINE once == {i \in 1 .. Len(emit[t].entries) : Once(emit[t].entries[i])}
<1>0. /\ EmitterTypes /\ UNCHANGED <<usage, registered, dropped, fired>>
      /\ emit[t].pc = "call" /\ emit[t].at > Len(emit[t].entries)
      /\ listeners' = Without(listeners, once)
      /\ emit' = [emit EXCEPT ![t].pc = "ended"]
  BY DEF EmitterIInv, EndEmit, RemoveIndices
<1>1. /\ usage = "single"
      /\ emit[t].at = Len(emit[t].entries) + 1 /\ Len(emit[t].entries) <= Len(listeners)
      /\ \A i \in 1 .. Len(emit[t].entries) : emit[t].entries[i] = listeners[i]
      /\ \A u \in Emissions : u # t => emit[u].pc # "call"
  BY <1>0, ListenerFacts DEF EmitterIInv, EmitterTypes, UsageType, FiresInWait, OneEmit
<1>2. /\ emit' \in [Emissions -> EmissionType] /\ emit'[t].pc = "ended"
      /\ emit'[t].running = emit[t].running
      /\ \A u \in Emissions : u # t => emit'[u] = emit[u]
  <2>1. emit[t] \in EmissionType
    BY <1>0, ListenerFacts
  <2>2. emit' = [emit EXCEPT ![t] = [emit[t] EXCEPT !.pc = "ended"]]
    BY <1>0
  <2>3. [emit[t] EXCEPT !.pc = "ended"] \in EmissionType
    BY <2>1 DEF EmissionType
  <2>4. /\ emit' \in [Emissions -> EmissionType] /\ emit'[t] = [emit[t] EXCEPT !.pc = "ended"]
        /\ \A u \in Emissions : u # t => emit'[u] = emit[u]
    BY <1>0, <2>2, <2>3, EmissionEffect
  <2> QED
    BY <1>0, <2>1, <2>4 DEF EmissionType
<1>3. /\ listeners' \in Seq(Handlers)
      /\ \A i \in DOMAIN listeners : i \notin once => listeners[i] \in ToSet(listeners')
      /\ \A x \in ToSet(listeners') : \E i \in DOMAIN listeners : i \notin once /\ x = listeners[i]
      /\ Distinct(listeners')
  <2>1. listeners \in Seq(Handlers) /\ Distinct(listeners)
    BY <1>0 DEF EmitterTypes, EmitterIInv, ListenersKnown
  <2> HIDE DEF once
  <2> QED
    BY <1>0, <2>1, WithoutFacts, ListenerFacts
<1>4. ASSUME NEW i \in DOMAIN listeners, Once(listeners[i])
      PROVE  fired[listeners[i]] = IF i \in once THEN 1 ELSE 0
  <2>1. i \in once <=> i < emit[t].at
    BY <1>0, <1>1, <1>4, ListenerFacts
  <2>2. (\E u \in Emissions : emit[u].pc = "call" /\ i < emit[u].at) <=> i < emit[t].at
    BY <1>0, <1>1
  <2> HIDE DEF once
  <2> QED
    BY <1>1, <1>4, <2>1, <2>2 DEF EmitterIInv, FiresInEmit
<1>5. \A i \in once : i \in DOMAIN listeners /\ Once(listeners[i])
  BY <1>0, <1>1, ListenerFacts
<1> HIDE DEF once
<1>6. ToSet(listeners') \subseteq ToSet(listeners)
  BY <1>0, <1>3, ListenerFacts
<1>7. EmitterTypes'
  BY <1>0, <1>2, <1>3 DEF EmitterTypes
<1>8. ListenersKnown'
  BY <1>0, <1>2, <1>3, <1>6 DEF EmitterIInv, ListenersKnown
<1>9. OneEmit'
  BY <1>0, <1>1, <1>2 DEF EmitterIInv, OneEmit
<1>10. FiresInEmit'
  <2>1. \A x \in ToSet(listeners') : Once(x) => fired[x] = 0
    BY <1>3, <1>4
  <2>2. \A i \in DOMAIN listeners' : listeners'[i] \in ToSet(listeners')
    BY DEF ToSet
  <2>3. \A u \in Emissions : emit'[u].pc # "call"
    BY <1>1, <1>2
  <2> QED
    BY <1>0, <2>1, <2>2, <2>3 DEF FiresInEmit, Once
<1>11. FiresInWait'
  BY <1>0, <1>1 DEF FiresInWait
<1>12. NoneTaken'
  <2>1. ASSUME NEW x \in ToSet(listeners), ~Once(x) PROVE x \in ToSet(listeners')
    BY <1>0, <1>3, <1>5, <2>1, ListenerFacts
  <2>2. ASSUME NEW x \in ToSet(listeners), Once(x) PROVE x \in ToSet(listeners') \/ fired[x] = 1
    BY <1>0, <1>3, <1>4, <2>2, ListenerFacts
  <2> QED
    BY <1>0, <1>2, <2>1, <2>2 DEF EmitterIInv, NoneTaken, Once
<1> QED
  BY <1>7, <1>8, <1>9, <1>10, <1>11, <1>12 DEF EmitterIInv

LEMMA BeginEmitAndWaitKeeps ==
  ASSUME EmitterIInv, NEW t \in Emissions, BeginEmitAndWait(t)
  PROVE  EmitterIInv'
<1> DEFINE once == {i \in 1 .. Len(listeners) : Once(listeners[i])}
           e == [NewEmission EXCEPT !.pc = IF listeners = <<>> THEN "ended" ELSE "wait",
                                    !.running = ToSet(listeners)]
<1>0. /\ EmitterTypes /\ UNCHANGED <<usage, registered, dropped, fired>>
      /\ usage = "waits" /\ emit[t].pc = "new"
      /\ listeners' = Without(listeners, once)
      /\ emit' = [emit EXCEPT ![t] = e]
  BY DEF EmitterIInv, BeginEmitAndWait
<1>1. e \in EmissionType /\ e.pc \in {"ended", "wait"} /\ e.running = ToSet(listeners)
  <2>1. ToSet(listeners) \subseteq Handlers
    BY <1>0, ListenerFacts
  <2> DEFINE pc == IF listeners = <<>> THEN "ended" ELSE "wait"
             run == ToSet(listeners)
  <2>2. pc \in {"ended", "wait"} /\ run \in SUBSET Handlers
    BY <2>1
  <2>3. <<>> \in Seq(Handlers)
    BY EmptySeq
  <2>4. e = [NewEmission EXCEPT !.pc = pc, !.running = run]
    OBVIOUS
  <2> HIDE DEF pc, run, e
  <2>5. e = [pc |-> pc, entries |-> <<>>, at |-> 0, running |-> run]
    BY <2>4 DEF NewEmission
  <2>6. e \in EmissionType /\ e.pc = pc /\ e.running = run
    BY <2>2, <2>3, <2>5 DEF EmissionType
  <2> QED
    BY <2>2, <2>6 DEF run
<1>2. /\ emit' \in [Emissions -> EmissionType]
      /\ emit'[t].pc \in {"ended", "wait"} /\ emit'[t].running = ToSet(listeners)
      /\ \A u \in Emissions : u # t => emit'[u] = emit[u]
  <2> HIDE DEF e
  <2> QED
    BY <1>0, <1>1, EmissionEffect
<1>3. /\ listeners' \in Seq(Handlers)
      /\ \A i \in DOMAIN listeners : i \notin once => listeners[i] \in ToSet(listeners')
      /\ \A x \in ToSet(listeners') : \E i \in DOMAIN listeners : i \notin once /\ x = listeners[i]
      /\ Distinct(listeners')
  <2>1. listeners \in Seq(Handlers) /\ Distinct(listeners)
    BY <1>0 DEF EmitterTypes, EmitterIInv, ListenersKnown
  <2> HIDE DEF once
  <2> QED
    BY <1>0, <2>1, WithoutFacts, ListenerFacts
<1>4. /\ \A x \in ToSet(listeners) : ~Once(x) => x \in ToSet(listeners')
      /\ \A x \in ToSet(listeners') : ~Once(x) /\ x \in ToSet(listeners)
  BY <1>0, <1>3, ListenerFacts
<1> HIDE DEF once, e
<1>5. emit[t].running = {}
  BY <1>0 DEF EmitterIInv, ListenersKnown
<1>6. EmitterTypes'
  BY <1>0, <1>2, <1>3 DEF EmitterTypes
<1>7. ListenersKnown'
  BY <1>0, <1>2, <1>3, <1>4 DEF EmitterIInv, ListenersKnown
<1>8. OneEmit' /\ FiresInEmit'
  BY <1>0 DEF OneEmit, FiresInEmit
<1>9. FiresInWait'
  BY <1>0, <1>2, <1>4 DEF EmitterIInv, FiresInWait, Once
<1>10. NoneTaken'
  BY <1>0, <1>2, <1>4, <1>5 DEF EmitterIInv, NoneTaken, Once
<1> QED
  BY <1>6, <1>7, <1>8, <1>9, <1>10 DEF EmitterIInv

LEMMA RunHandlerKeeps ==
  ASSUME EmitterIInv, NEW t \in Emissions, NEW h \in Handlers, RunHandler(t, h)
  PROVE  EmitterIInv'
<1>0. /\ EmitterTypes /\ UNCHANGED <<usage, listeners, registered, dropped>>
      /\ h \in emit[t].running
      /\ fired' = [fired EXCEPT ![h] = @ + 1]
      /\ emit' = [emit EXCEPT ![t].running = @ \ {h}]
  BY DEF EmitterIInv, RunHandler
<1>1. usage = "waits" /\ h \in registered
  BY <1>0 DEF EmitterIInv, EmitterTypes, UsageType, OneEmit, ListenersKnown
<1>2. /\ emit' \in [Emissions -> EmissionType]
      /\ emit'[t].pc = emit[t].pc /\ emit'[t].running = emit[t].running \ {h}
      /\ \A u \in Emissions : u # t => emit'[u] = emit[u]
  <2>1. emit[t] \in EmissionType
    BY <1>0, ListenerFacts
  <2>2. emit' = [emit EXCEPT ![t] = [emit[t] EXCEPT !.running = emit[t].running \ {h}]]
    BY <1>0
  <2>3. [emit[t] EXCEPT !.running = emit[t].running \ {h}] \in EmissionType
    BY <2>1 DEF EmissionType
  <2>4. /\ emit' \in [Emissions -> EmissionType] /\ emit'[t] = [emit[t] EXCEPT !.running = emit[t].running \ {h}]
        /\ \A u \in Emissions : u # t => emit'[u] = emit[u]
    BY <1>0, <2>2, <2>3, EmissionEffect
  <2> QED
    BY <1>0, <2>1, <2>4 DEF EmissionType
<1>3. /\ fired' \in [Handlers -> Nat] /\ fired'[h] = fired[h] + 1
      /\ \A x \in Handlers : x # h => fired'[x] = fired[x]
  BY <1>0 DEF EmitterTypes
<1>4. h \in OnceHandlers =>
        /\ fired[h] = 0 /\ fired'[h] = 1 /\ h \notin ToSet(listeners)
        /\ \A u \in Emissions : u # t => h \notin emit[u].running
  BY <1>0, <1>1, <1>3 DEF EmitterIInv, FiresInWait
<1>5. EmitterTypes'
  BY <1>0, <1>2, <1>3 DEF EmitterTypes
<1>6. ListenersKnown'
  BY <1>0, <1>1, <1>2, <1>3, EmitterAssumption DEF EmitterIInv, ListenersKnown
<1>7. OneEmit' /\ FiresInEmit'
  BY <1>0, <1>1 DEF OneEmit, FiresInEmit
<1>8. FiresInWait'
  BY <1>0, <1>1, <1>2, <1>3, <1>4, EmitterAssumption DEF EmitterIInv, FiresInWait
<1>9. NoneTaken'
  <2>1. \A x \in OnceHandlers : fired'[x] <= 1
    BY <1>3, <1>4, EmitterAssumption DEF EmitterIInv, NoneTaken
  <2>2. ASSUME NEW x \in (registered \cap OnceHandlers) \ dropped
        PROVE  \/ x \in ToSet(listeners)
               \/ fired'[x] = 1
               \/ \E u \in Emissions : x \in emit'[u].running
    <3>1. CASE x = h
      BY <1>4, <3>1
    <3>2. CASE x # h
      BY <1>2, <1>3, <2>2, <3>2, EmitterAssumption DEF EmitterIInv, NoneTaken
    <3> QED
      BY <3>1, <3>2
  <2> QED
    BY <1>0, <2>1, <2>2 DEF EmitterIInv, NoneTaken
<1> QED
  BY <1>5, <1>6, <1>7, <1>8, <1>9 DEF EmitterIInv

LEMMA EndEmitAndWaitKeeps ==
  ASSUME EmitterIInv, NEW t \in Emissions, EndEmitAndWait(t)
  PROVE  EmitterIInv'
<1>0. /\ EmitterTypes /\ UNCHANGED <<usage, listeners, registered, dropped, fired>>
      /\ emit[t].pc = "wait" /\ emit' = [emit EXCEPT ![t].pc = "ended"]
  BY DEF EmitterIInv, EndEmitAndWait
<1>1. usage = "waits"
  BY <1>0 DEF EmitterIInv, EmitterTypes, UsageType, OneEmit
<1>2. /\ emit' \in [Emissions -> EmissionType] /\ emit'[t].pc = "ended"
      /\ emit'[t].running = emit[t].running
      /\ \A u \in Emissions : u # t => emit'[u] = emit[u]
  <2>1. emit[t] \in EmissionType
    BY <1>0, ListenerFacts
  <2>2. emit' = [emit EXCEPT ![t] = [emit[t] EXCEPT !.pc = "ended"]]
    BY <1>0
  <2>3. [emit[t] EXCEPT !.pc = "ended"] \in EmissionType
    BY <2>1 DEF EmissionType
  <2>4. /\ emit' \in [Emissions -> EmissionType] /\ emit'[t] = [emit[t] EXCEPT !.pc = "ended"]
        /\ \A u \in Emissions : u # t => emit'[u] = emit[u]
    BY <1>0, <2>2, <2>3, EmissionEffect
  <2> QED
    BY <1>0, <2>1, <2>4 DEF EmissionType
<1>3. \A u \in Emissions : emit'[u].running = emit[u].running
  BY <1>2
<1>4. EmitterTypes' /\ ListenersKnown'
  BY <1>0, <1>2, <1>3 DEF EmitterIInv, EmitterTypes, ListenersKnown
<1>5. OneEmit' /\ FiresInEmit' /\ FiresInWait'
  BY <1>0, <1>1, <1>2, <1>3 DEF EmitterIInv, OneEmit, FiresInEmit, FiresInWait
<1>6. NoneTaken'
  BY <1>0, <1>3 DEF EmitterIInv, NoneTaken
<1> QED
  BY <1>4, <1>5, <1>6 DEF EmitterIInv

LEMMA EmitterInductive == EmitterIInv /\ [EmitterNext]_emitterVars => EmitterIInv'
<1> SUFFICES ASSUME EmitterIInv, [EmitterNext]_emitterVars PROVE EmitterIInv'
  OBVIOUS
<1>1. CASE UNCHANGED emitterVars
  BY <1>1 DEF emitterVars, EmitterIInv, EmitterTypes, ListenersKnown, OneEmit, FiresInEmit,
              FiresInWait, NoneTaken, Once
<1> QED
  BY <1>1, AddListenerKeeps, RemoveListenersKeeps, BeginEmitKeeps, CallHandlerKeeps, EndEmitKeeps,
     BeginEmitAndWaitKeeps, RunHandlerKeeps, EndEmitAndWaitKeeps DEF EmitterNext, Off

\* However many listeners come while an Emit runs, and however many emitAndWaits overlap,
\* no listener is taken away but by Off or RemoveAllListeners or because it was
\* registered with Once and has fired, once (eventEmitter).
THEOREM EmitterKeeps == EmitterSpec => []ListenersKept
<1>1. EmitterInit => EmitterIInv
  <2> SUFFICES ASSUME EmitterInit PROVE EmitterIInv
    OBVIOUS
  <2>1. /\ listeners = <<>> /\ DOMAIN listeners = {} /\ ToSet(listeners) = {} /\ usage \in UsageType
        /\ registered = {} /\ fired = [h \in Handlers |-> 0]
        /\ emit = [t \in Emissions |-> NewEmission]
    BY EmitterAssumption DEF EmitterInit, ToSet
  <2>2. NewEmission \in EmissionType /\ NewEmission.pc = "new" /\ NewEmission.running = {}
    BY DEF NewEmission, EmissionType
  <2>3. EmitterTypes
    BY <2>1, <2>2 DEF EmitterTypes
  <2>4. ListenersKnown
    BY <2>1, <2>2, EmitterAssumption DEF ListenersKnown, Distinct
  <2>5. OneEmit /\ FiresInEmit /\ FiresInWait
    BY <2>1, <2>2 DEF OneEmit, FiresInEmit, FiresInWait
  <2>6. NoneTaken
    BY <2>1, EmitterAssumption DEF NoneTaken
  <2> QED
    BY <2>3, <2>4, <2>5, <2>6 DEF EmitterIInv
<1>2. EmitterIInv => ListenersKept
  <2> SUFFICES ASSUME EmitterIInv PROVE ListenersKept
    OBVIOUS
  <2>1. ASSUME ~Emitting, NEW h \in OnceHandlers, h \in ToSet(listeners) PROVE fired[h] = 0
    <3>1. PICK i \in DOMAIN listeners : h = listeners[i]
      BY <2>1 DEF ToSet
    <3>2. CASE usage = "single"
      BY <2>1, <3>1, <3>2 DEF EmitterIInv, FiresInEmit, Emitting, Once
    <3>3. CASE usage = "waits"
      BY <2>1, <3>3 DEF EmitterIInv, FiresInWait
    <3> QED
      BY <3>2, <3>3 DEF EmitterIInv, EmitterTypes, UsageType
  <2> QED
    BY <2>1 DEF EmitterIInv, NoneTaken, ListenersKept
<1> QED
  BY <1>1, <1>2, EmitterInductive, PTL DEF EmitterSpec
=============================================================================
