--------------------------- MODULE PluginRuntime ----------------------------
(***************************************************************************)
(* The process runtime (src/go/run.go): the main goroutine of a plugin     *)
(* from its connection to its exit, with the host's START and STOP, the    *)
(* signals, the stop channel they funnel into, the checks between the      *)
(* steps of the start, and the bounded teardown.                           *)
(*                                                                         *)
(* Timeouts are choices: a timer may fire before what it guards ends.      *)
(* Writes stand for what cleanup code saves to a storage: a write lands    *)
(* when the storages are flushed after it was made.                        *)
(***************************************************************************)
EXTENDS Naturals, FiniteSets

VARIABLES
  env,          \* what the surroundings may do, see RuntimeEnvKinds; never changed
  main,         \* where the main goroutine is
  told,         \* the last status it sent to the host
  listening,    \* channel.OnMessage is registered
  startSent,    \* the host sent START
  startCh,      \* startCh holds a message
  stopCh,       \* stopCh holds a token
  sigCh,        \* "none", "pending" for the watcher, or "taken" by it
  stopped,      \* stopped flag of stopPlugin
  api,          \* api # nil: the managers exist
  teardown,     \* where stopPlugin is
  bounded,      \* stopPlugin runs in a goroutine, under the deadline
  writers,      \* cleanup code that has not made its write yet
  unsaved,      \* writes made and not flushed yet
  forced,       \* the process exited before stopPlugin was done
  stopSeen,     \* history: a STOP or a signal arrived after ready
  stopEarly     \* history: the token was there before the last check

hostVars == <<env, startSent, sigCh>>
runtimeVars == <<main, told, listening, hostVars, startCh, stopCh, stopped, api, teardown,
                 bounded, writers, unsaved, forced, stopSeen, stopEarly>>

\* fail: a step of the start fails; panic: the plugin's code panics in it;
\* slow: a timer fires; detached: sensors have OnStop callbacks that write.
RuntimeEnvKinds == {"fail", "panic", "slow", "detached"}

\* The steps of startPlugin between two stopRequested checks.
Steps == {"persistence", "construct", "managers", "cameras"}
After(step) == CASE step = "persistence" -> "construct"
                 [] step = "construct" -> "managers"
                 [] step = "managers" -> "cameras"
                 [] step = "cameras" -> "started"

\* Cleanup code that writes: the shutdown listeners, the callbacks that complete
\* when the devices are cleaned up, and the OnStop callbacks of sensors, which run
\* in goroutines of their own.
Sync == {"listeners", "devices"}

\* What a step leaves for the teardown.  The constructor may register shutdown
\* listeners; the last step creates the devices and the sensors.
Made(step) ==
  CASE step = "construct" -> {"listeners"}
    [] step = "cameras" -> {"devices"} \cup (IF "detached" \in env THEN {"onStop"} ELSE {})
    [] OTHER -> {}

\* A step ran to its end.
Completed(step) ==
  /\ api' = (api \/ step = "construct")
  /\ writers' = writers \cup Made(step)

\* A step ended early.  Within "construct" api is set before the plugin's code runs.
Interrupted(step) ==
  /\ api' \in {api, api \/ step = "construct"}
  /\ \E made \in SUBSET Made(step) : writers' = writers \cup (IF api' THEN made ELSE {})

-----------------------------------------------------------------------------
(* The host and the signals (external)                                      *)

\* START is sent once the plugin is ready; OnMessage puts it into startCh.
HostStart ==
  /\ told = "ready" /\ ~startSent
  /\ startSent' = TRUE
  /\ startCh' = (listening /\ ~stopped)
  /\ UNCHANGED <<env, main, told, listening, sigCh, stopCh, stopped, api, teardown, bounded,
                 writers, unsaved, forced, stopSeen, stopEarly>>

\* A slip: a STOP is only taken while the main goroutine waits for it.
HostStopDropped ==
  /\ told # "none" /\ main # "exited"
  /\ stopCh' = (stopCh \/ main \in {"await", "run"})
  /\ stopSeen' = TRUE
  /\ stopEarly' = (stopEarly \/ (listening /\ main \in {"await"} \cup Steps))
  /\ UNCHANGED <<main, told, listening, hostVars, startCh, stopped, api, teardown, bounded,
                 writers, unsaved, forced>>

\* STOP fills the stop channel without blocking, unless stopPlugin began.
HostStop ==
  /\ told # "none" /\ main # "exited"
  /\ stopCh' = (stopCh \/ (listening /\ ~stopped))
  /\ stopSeen' = TRUE
  /\ stopEarly' = (stopEarly \/ (listening /\ main \in {"await"} \cup Steps))
  /\ UNCHANGED <<main, told, listening, hostVars, startCh, stopped, api, teardown, bounded,
                 writers, unsaved, forced>>

\* A START whose data is missing or cannot be decoded is answered in the handler.
HostStartMalformed ==
  /\ "fail" \in env
  /\ told = "ready" /\ ~startSent /\ listening /\ ~stopped
  /\ startSent' = TRUE
  /\ told' = "error"
  /\ UNCHANGED <<env, main, listening, sigCh, startCh, stopCh, stopped, api, teardown,
                 bounded, writers, unsaved, forced, stopSeen, stopEarly>>

\* The first SIGTERM or SIGINT; later ones reach nobody.
Signal ==
  /\ main # "exited" /\ sigCh = "none"
  /\ sigCh' = "pending"
  /\ stopSeen' = TRUE
  /\ UNCHANGED <<env, main, told, listening, startSent, startCh, stopCh, stopped, api,
                 teardown, bounded, writers, unsaved, forced, stopEarly>>

\* The watcher goroutine takes one signal and fills the stop channel.
Watch ==
  /\ sigCh = "pending" /\ main # "exited"
  /\ sigCh' = "taken"
  /\ stopCh' = TRUE
  /\ stopEarly' = (stopEarly \/ main \in {"await"} \cup Steps)
  /\ UNCHANGED <<env, main, told, listening, startSent, startCh, stopped, api, teardown,
                 bounded, writers, unsaved, forced, stopSeen>>

-----------------------------------------------------------------------------
(* The main goroutine                                                       *)

\* A slip: ready is sent before the message handler is registered.
OnMessageLate ==
  /\ \/ main = "connect" /\ main' = "ready" /\ told' = "ready" /\ UNCHANGED listening
     \/ main = "ready" /\ main' = "await" /\ listening' = TRUE /\ UNCHANGED told
  /\ UNCHANGED <<hostVars, startCh, stopCh, stopped, api, teardown, bounded, writers,
                 unsaved, forced, stopSeen, stopEarly>>

OnMessage ==
  /\ main = "connect"
  /\ main' = "ready"
  /\ listening' = TRUE
  /\ UNCHANGED <<told, hostVars, startCh, stopCh, stopped, api, teardown, bounded, writers,
                 unsaved, forced, stopSeen, stopEarly>>

\* Ready is sent, or sending it fails and the process stops.
SendReady ==
  /\ main = "ready" /\ listening
  /\ \/ main' = "await" /\ told' = "ready" /\ UNCHANGED <<stopped, teardown>>
     \/ /\ "fail" \in env /\ main' = "stop" /\ stopped' = TRUE
        /\ teardown' = "rpc" /\ UNCHANGED told
  /\ UNCHANGED <<listening, hostVars, startCh, stopCh, api, bounded, writers, unsaved,
                 forced, stopSeen, stopEarly>>

AwaitStart ==
  /\ main = "await" /\ startCh
  /\ startCh' = FALSE
  /\ main' = "persistence"
  /\ UNCHANGED <<told, listening, hostVars, stopCh, stopped, api, teardown, bounded,
                 writers, unsaved, forced, stopSeen, stopEarly>>

\* stopPlugin: the stopped flag, then the teardown of whatever exists.
Stop(inGoroutine) ==
  /\ main' = "stop"
  /\ stopped' = TRUE
  /\ bounded' = inGoroutine
  /\ teardown' = IF api' THEN "listeners" ELSE "rpc"

\* STOP instead of START.
AwaitStop ==
  /\ main = "await" /\ stopCh
  /\ stopCh' = FALSE
  /\ UNCHANGED api
  /\ Stop(FALSE)
  /\ UNCHANGED <<told, listening, hostVars, startCh, writers, unsaved, forced, stopSeen,
                 stopEarly>>

\* A slip: no check follows the step.
StepDoneUnchecked(step) ==
  /\ main = step
  /\ main' = After(step)
  /\ Completed(step)
  /\ UNCHANGED <<told, listening, hostVars, startCh, stopCh, stopped, teardown, bounded,
                 unsaved, forced, stopSeen, stopEarly>>

\* A step of startPlugin is done and stopRequested finds no token.
StepDone(step) ==
  /\ main = step
  /\ ~stopCh
  /\ main' = After(step)
  /\ Completed(step)
  /\ UNCHANGED <<told, listening, hostVars, startCh, stopCh, stopped, teardown, bounded,
                 unsaved, forced, stopSeen, stopEarly>>

\* stopRequested takes the token: the start gives up and stops, without a deadline.
StopDuringStart(step) ==
  /\ main = step
  /\ stopCh
  /\ stopCh' = FALSE
  /\ Completed(step)
  /\ Stop(FALSE)
  /\ UNCHANGED <<told, listening, hostVars, startCh, unsaved, forced, stopSeen, stopEarly>>

\* An error is reported and the process stays alive until it is stopped.
StepFails(step) ==
  /\ "fail" \in env
  /\ main = step
  /\ main' = "run"
  /\ told' = "error"
  /\ Interrupted(step)
  /\ UNCHANGED <<listening, hostVars, startCh, stopCh, stopped, teardown, bounded, unsaved,
                 forced, stopSeen, stopEarly>>

\* The plugin's code panics in a step: the deferred recover stops the plugin.
StepPanics(step) ==
  /\ "panic" \in env
  /\ main = step
  /\ Interrupted(step)
  /\ Stop(TRUE)
  /\ UNCHANGED <<told, listening, hostVars, startCh, stopCh, unsaved, forced, stopSeen,
                 stopEarly>>

SendStarted ==
  /\ main = "started"
  /\ main' = "launching"
  /\ told' = "started"
  /\ UNCHANGED <<listening, hostVars, startCh, stopCh, stopped, api, teardown, bounded,
                 writers, unsaved, forced, stopSeen, stopEarly>>

\* Emit(finishLaunching) runs the plugin's listeners on the main goroutine; a panic
\* of theirs reaches the deferred recover.
FinishLaunching ==
  /\ main = "launching"
  /\ UNCHANGED api
  /\ \/ main' = "run" /\ UNCHANGED <<stopped, teardown, bounded>>
     \/ "panic" \in env /\ Stop(TRUE)
  /\ UNCHANGED <<told, listening, hostVars, startCh, stopCh, writers, unsaved, forced,
                 stopSeen, stopEarly>>

\* <-stopCh, then stopPluginBounded.
RunUntilStop ==
  /\ main = "run" /\ stopCh
  /\ stopCh' = FALSE
  /\ UNCHANGED api
  /\ Stop(TRUE)
  /\ UNCHANGED <<told, listening, hostVars, startCh, writers, unsaved, forced, stopSeen,
                 stopEarly>>

-----------------------------------------------------------------------------
(* stopPlugin                                                               *)

\* Cleanup code w makes its write, once.
Write(w) == unsaved' = IF w \in writers THEN unsaved \cup {w} ELSE unsaved

\* emitAndWait: the shutdown listeners end, or the timer ends the wait.
ShutdownListeners ==
  /\ teardown = "listeners"
  /\ teardown' = "sensors"
  /\ \/ Write("listeners") /\ writers' = writers \ {"listeners"}
     \/ "slow" \in env /\ UNCHANGED <<writers, unsaved>>
  /\ UNCHANGED <<main, told, listening, hostVars, startCh, stopCh, stopped, api, bounded,
                 forced, stopSeen, stopEarly>>

\* sensorManager.close fires OnStop in goroutines and goes on.
CloseSensors ==
  /\ teardown = "sensors"
  /\ teardown' = "devices"
  /\ UNCHANGED <<main, told, listening, hostVars, startCh, stopCh, stopped, api, bounded,
                 writers, unsaved, forced, stopSeen, stopEarly>>

\* A slip: every device is cleaned up in a goroutine that nobody waits for.
CloseDevicesDetached ==
  /\ teardown = "devices"
  /\ teardown' = "core"
  /\ UNCHANGED <<main, told, listening, hostVars, startCh, stopCh, stopped, api, bounded,
                 writers, unsaved, forced, stopSeen, stopEarly>>

\* deviceManager.close cleans every device up, in this goroutine.
CloseDevices ==
  /\ teardown = "devices"
  /\ teardown' = "core"
  /\ Write("devices")
  /\ writers' = writers \ {"devices"}
  /\ UNCHANGED <<main, told, listening, hostVars, startCh, stopCh, stopped, api, bounded,
                 forced, stopSeen, stopEarly>>

CloseCore ==
  /\ teardown = "core"
  /\ teardown' = "storages"
  /\ UNCHANGED <<main, told, listening, hostVars, startCh, stopCh, stopped, api, bounded,
                 writers, unsaved, forced, stopSeen, stopEarly>>

\* storageController.close saves every storage and waits for the writes.
CloseStorages ==
  /\ teardown = "storages"
  /\ teardown' = "rpc"
  /\ unsaved' = {}
  /\ UNCHANGED <<main, told, listening, hostVars, startCh, stopCh, stopped, api, bounded,
                 writers, forced, stopSeen, stopEarly>>

\* The RPC teardown ends or its timer fires; stopPlugin returns, main exits.
Exit ==
  /\ teardown = "rpc"
  /\ teardown' = "done"
  /\ main' = "exited"
  /\ UNCHANGED <<told, listening, hostVars, startCh, stopCh, stopped, api, bounded, writers,
                 unsaved, forced, stopSeen, stopEarly>>

\* gracefulShutdownTimeout: main exits although stopPlugin is not done.
Deadline ==
  /\ "slow" \in env
  /\ main = "stop" /\ bounded
  /\ teardown \notin {"none", "done"}
  /\ main' = "exited"
  /\ forced' = TRUE
  /\ UNCHANGED <<told, listening, hostVars, startCh, stopCh, stopped, api, teardown,
                 bounded, writers, unsaved, stopSeen, stopEarly>>

\* A callback that the cleanup of the devices runs panics: in a goroutine it kills
\* the process, on the main goroutine the recover finds stopped set and exits.
TeardownPanics ==
  /\ "panic" \in env
  /\ teardown \in {"devices", "core"} /\ main = "stop"
  /\ main' = "exited"
  /\ forced' = TRUE
  /\ UNCHANGED <<told, listening, hostVars, startCh, stopCh, stopped, api, teardown,
                 bounded, writers, unsaved, stopSeen, stopEarly>>

\* A goroutine nobody waits for: an OnStop callback, or a shutdown listener whose
\* wait timed out.
DetachedWrite(w) ==
  /\ main # "exited"
  /\ w \in writers
  /\ \/ w = "onStop" /\ teardown \in {"devices", "core", "storages", "rpc"}
     \/ w = "listeners" /\ teardown \in {"sensors", "devices", "core", "storages", "rpc"}
  /\ writers' = writers \ {w}
  /\ unsaved' = unsaved \cup {w}
  /\ UNCHANGED <<main, told, listening, hostVars, startCh, stopCh, stopped, api, teardown,
                 bounded, forced, stopSeen, stopEarly>>

-----------------------------------------------------------------------------
RuntimeInit ==
  /\ env \in SUBSET RuntimeEnvKinds
  /\ main = "connect"
  /\ told = "none"
  /\ listening = FALSE
  /\ startSent = FALSE /\ startCh = FALSE /\ stopCh = FALSE /\ sigCh = "none"
  /\ stopped = FALSE /\ api = FALSE
  /\ teardown = "none" /\ bounded = FALSE
  /\ writers = {} /\ unsaved = {}
  /\ forced = FALSE /\ stopSeen = FALSE /\ stopEarly = FALSE

MainStep ==
  \/ OnMessage \/ SendReady \/ AwaitStart \/ AwaitStop \/ SendStarted \/ FinishLaunching
  \/ RunUntilStop
  \/ \E step \in Steps :
       StepDone(step) \/ StopDuringStart(step) \/ StepFails(step) \/ StepPanics(step)

\* After a forced exit nothing runs any more.
TeardownStep ==
  /\ main # "exited"
  /\ \/ ShutdownListeners \/ CloseSensors \/ CloseDevices \/ CloseCore
     \/ CloseStorages \/ Exit

RuntimeNext ==
  \/ HostStart \/ HostStartMalformed \/ HostStop \/ Signal \/ Watch \/ MainStep \/ TeardownStep
  \/ Deadline \/ TeardownPanics \/ \E w \in {"listeners", "onStop"} : DetachedWrite(w)

RuntimeSpec == RuntimeInit /\ [][RuntimeNext]_runtimeVars

\* The goroutines run, the plugin's code returns and the host sends START.
RuntimeLiveSpec ==
  /\ RuntimeSpec
  /\ WF_runtimeVars(MainStep) /\ WF_runtimeVars(TeardownStep)
  /\ WF_runtimeVars(Watch) /\ WF_runtimeVars(HostStart)

-----------------------------------------------------------------------------
(* Properties                                                               *)

RuntimeTypeOK ==
  /\ main \in Steps \cup
       {"connect", "ready", "await", "started", "launching", "run", "stop", "exited"}
  /\ told \in {"none", "ready", "started", "error"}
  /\ teardown \in {"none", "listeners", "sensors", "devices", "core", "storages", "rpc", "done"}
  /\ writers \subseteq Sync \cup {"onStop"}
  /\ unsaved \subseteq Sync \cup {"onStop"}
  /\ sigCh \in {"none", "pending", "taken"}
  /\ {listening, startSent, startCh, stopCh, api, bounded, forced, stopSeen, stopEarly}
       \subseteq BOOLEAN
  /\ stopped <=> teardown # "none"

\* "startup can bail out between steps": the host is never told that a plugin
\* started when the stop token was there before the last check.
NotStartedAfterStop == stopEarly => told # "started"

\* A teardown that was not cut short, where no timer fires, leaves no write of the
\* shutdown listeners and the device cleanup behind ("storages, flushed last so
\* cleanup writes land").
SyncWritesLand ==
  (main = "exited" /\ ~forced /\ "slow" \notin env) =>
    (unsaved \cap Sync = {} /\ (api => writers \cap Sync = {}))

\* "a START/STOP racing in right after ready is never missed": a START is answered
\* by started or error, unless the process is stopped; and no STOP and no signal
\* that arrives after ready is lost, in whatever step of the start it arrives and
\* however the start ends: the process exits.
NeverMissed ==
  /\ startSent ~> (told \in {"started", "error"} \/ main = "exited")
  /\ stopSeen ~> main = "exited"
=============================================================================
