----------------------------- MODULE CameraFeeds ----------------------------
(***************************************************************************)
(* What a CameraDevice receives (src/go/camera_device.go): the connection  *)
(* state it mirrors from the host's events and from refreshStates, and the *)
(* detection wire, one subscription that all OnDetectionEvent callbacks    *)
(* share by reference counting.  init, the event handler, the reconnect    *)
(* handler, the callers of OnDetectionEvent and of Dispose and the cleanup *)
(* run in goroutines of their own.                                         *)
(*                                                                         *)
(* The state stands for camera, cameraState and frameWorkerState alike.    *)
(***************************************************************************)
EXTENDS Naturals, Sequences, FiniteSets

CONSTANTS
  States,       \* values of the mirrored state
  Start,        \* its value in a new device
  Callbacks,    \* OnDetectionEvent calls the plugin makes
  MaxChanges,   \* bound: changes of the state at the host
  MaxDrops      \* bound: losses of the link

VARIABLES
  env,          \* what the surroundings may do, see FeedEnvKinds; never changed
  hostState,    \* the state at the host
  changes,      \* its changes so far
  link,         \* the connection to the host is up
  drops,        \* losses so far
  reconnected,  \* an OnReconnect handler is due
  unnoticed,    \* history: the link came back between the subscription and OnReconnect
  subscribed,   \* the device gets the camera's events
  watching,     \* its OnReconnect handler is registered
  events,       \* events that were not handled yet
  state,        \* the device's mirror
  initialized,  \* d.initialized
  initPc,       \* where init is
  refresh,      \* refreshStates calls: "idle", "asked", "lost", or the answer to apply
  cleaned,      \* cleanup ran
  wire,         \* d.detectionWireStop # nil
  wireSubs,     \* d.detectionWireSubs
  cbs           \* where each OnDetectionEvent callback is

hostVars == <<env, hostState, changes, link, drops, reconnected, unnoticed>>
mirrorVars == <<subscribed, watching, events, state, initialized, initPc, refresh>>
detectionWireVars == <<wire, wireSubs, cbs>>
cameraFeedVars == <<hostVars, mirrorVars, cleaned, detectionWireVars>>

\* inflight: the state may change, and events be handled, while a refreshStates call
\* is under way; fail: it and subscriptions fail.
FeedEnvKinds == {"inflight", "fail"}

ASSUME StateAssumption == Start \in States
ASSUME CallbacksAssumption == IsFiniteSet(Callbacks)
ASSUME BoundAssumption == MaxChanges \in Nat /\ MaxDrops \in Nat

CallsFail == "fail" \in env

\* init and the reconnect handler may each be in refreshStates.
Refreshers == {"init", "reconnect"}
Refreshing == \E r \in Refreshers : refresh[r] # "idle"

-----------------------------------------------------------------------------
(* The host (external)                                                      *)

ChangeState ==
  /\ changes < MaxChanges
  /\ "inflight" \in env \/ ~Refreshing
  /\ \E v \in States \ {hostState} :
       /\ hostState' = v
       /\ events' = IF subscribed /\ link THEN Append(events, v) ELSE events
  /\ changes' = changes + 1
  /\ UNCHANGED <<env, link, drops, reconnected, unnoticed, subscribed, watching, state, initialized,
                 initPc, refresh, cleaned, detectionWireVars>>

\* Events published while the link is down are lost, and so may be the calls under way.
DropLink ==
  /\ link /\ drops < MaxDrops
  /\ link' = FALSE
  /\ drops' = drops + 1
  /\ \E lost \in SUBSET {r \in Refreshers : refresh[r] = "asked"} :
       refresh' = [r \in Refreshers |-> IF r \in lost THEN "lost" ELSE refresh[r]]
  /\ UNCHANGED <<env, hostState, changes, reconnected, unnoticed, subscribed, watching,
                 events, state, initialized, initPc, cleaned, detectionWireVars>>

\* The client resubscribes and calls the OnReconnect handlers.
RestoreLink ==
  /\ ~link
  /\ link' = TRUE
  /\ reconnected' = watching
  /\ unnoticed' = (unnoticed \/ (subscribed /\ ~watching))
  /\ UNCHANGED <<env, hostState, changes, drops, mirrorVars, cleaned, detectionWireVars>>

-----------------------------------------------------------------------------
(* init, refreshStates and the event handler                                *)

\* The storage and the handlers, then the subscription, then refreshStates.  An
\* error ends init with initialized set.
InitSubscribe ==
  /\ initPc = "start"
  /\ initialized' = TRUE
  /\ \/ /\ initPc' = "refresh" /\ subscribed' = TRUE
        /\ refresh' = [refresh EXCEPT !["init"] = "asked"]
     \/ CallsFail /\ initPc' = "failed" /\ UNCHANGED <<subscribed, refresh>>
  /\ UNCHANGED <<watching, events, state, hostVars, cleaned, detectionWireVars>>

\* client.OnReconnect(d.refreshStates)
InitWatch ==
  /\ initPc = "watch" /\ subscribed
  /\ initPc' = "done"
  /\ watching' = TRUE
  /\ UNCHANGED <<subscribed, events, state, initialized, refresh, hostVars, cleaned,
                 detectionWireVars>>

\* A slip: the reconnect handler trusts what it has.
OnReconnectTrusts ==
  /\ reconnected
  /\ reconnected' = FALSE
  /\ UNCHANGED <<env, hostState, changes, link, drops, unnoticed, mirrorVars, cleaned,
                 detectionWireVars>>

OnReconnect ==
  /\ reconnected /\ refresh["reconnect"] = "idle"
  /\ reconnected' = FALSE
  /\ refresh' = [refresh EXCEPT !["reconnect"] = "asked"]
  /\ UNCHANGED <<env, hostState, changes, link, drops, unnoticed, subscribed, watching,
                 events, state, initialized, initPc, cleaned, detectionWireVars>>

\* The host answers with the state of that moment.
HostAnswers(r) ==
  /\ refresh[r] = "asked" /\ link
  /\ refresh' = [refresh EXCEPT ![r] = hostState]
  /\ UNCHANGED <<hostVars, subscribed, watching, events, state, initialized, initPc,
                 cleaned, detectionWireVars>>

RefreshReturns(r) ==
  /\ refresh' = [refresh EXCEPT ![r] = "idle"]
  /\ initPc' = IF r = "init" THEN "watch" ELSE initPc

\* The call fails or times out; the error is logged.
RefreshFails(r) ==
  /\ refresh[r] = "lost" \/ (refresh[r] = "asked" /\ (CallsFail \/ ~link))
  /\ RefreshReturns(r)
  /\ UNCHANGED <<hostVars, subscribed, watching, events, state, initialized, cleaned,
                 detectionWireVars>>

\* The answer is applied where it differs.
RefreshStates(r) ==
  /\ refresh[r] \in States
  /\ "inflight" \in env \/ events = <<>>
  /\ state' = refresh[r]
  /\ RefreshReturns(r)
  /\ UNCHANGED <<hostVars, subscribed, watching, events, initialized, cleaned,
                 detectionWireVars>>

\* An event of a device that is not initialized is ignored.
HandleCameraEvent ==
  /\ events # <<>>
  /\ events' = Tail(events)
  /\ state' = IF initialized THEN Head(events) ELSE state
  /\ UNCHANGED <<hostVars, subscribed, watching, initialized, initPc, refresh, cleaned,
                 detectionWireVars>>

-----------------------------------------------------------------------------
(* The detection wire                                                       *)

CallbackAt(c, pc) == cbs' = [cbs EXCEPT ![c] = pc]

\* OnDetectionEvent: first the subject's subscription...
OnDetectionEvent(c) ==
  /\ cbs[c] = "idle" /\ ~cleaned
  /\ CallbackAt(c, "acquire")
  /\ UNCHANGED <<hostVars, mirrorVars, cleaned, wire, wireSubs>>

\* ... then acquireDetectionWire, under detectionWireMu.  A failing Subscribe is
\* logged: the callback counts, and the next one tries again.
AcquireDetectionWire(c) ==
  /\ cbs[c] = "acquire"
  /\ CallbackAt(c, "on")
  /\ wireSubs' = wireSubs + 1
  /\ wire' = TRUE \/ (CallsFail /\ ~wire /\ wire' = FALSE)
  /\ UNCHANGED <<hostVars, mirrorVars, cleaned>>

\* Dispose: the subject's subscription ends...
Dispose(c) ==
  /\ cbs[c] = "on"
  /\ CallbackAt(c, "release")
  /\ UNCHANGED <<hostVars, mirrorVars, cleaned, wire, wireSubs>>

\* A slip: the count is not kept from going below zero.
ReleaseUnguarded(c) ==
  /\ cbs[c] = "release"
  /\ CallbackAt(c, "off")
  /\ wireSubs' = wireSubs - 1
  /\ wire' = (wire /\ wireSubs' # 0)
  /\ UNCHANGED <<hostVars, mirrorVars, cleaned>>

\* ... then releaseDetectionWire.
ReleaseDetectionWire(c) ==
  /\ cbs[c] = "release"
  /\ CallbackAt(c, "off")
  /\ wireSubs' = IF wireSubs > 0 THEN wireSubs - 1 ELSE wireSubs
  /\ wire' = (wire /\ wireSubs' # 0)
  /\ UNCHANGED <<hostVars, mirrorVars, cleaned>>

-----------------------------------------------------------------------------
\* The device manager's cleanup: cleanupFns, then the wire.
CleanupFeeds ==
  /\ ~cleaned /\ initPc \in {"done", "failed"}
  /\ cleaned' = TRUE
  /\ initialized' = FALSE /\ subscribed' = FALSE /\ watching' = FALSE
  /\ wire' = FALSE /\ wireSubs' = 0
  /\ UNCHANGED <<hostVars, events, state, initPc, refresh, cbs>>

MirrorInit ==
  /\ env \in SUBSET FeedEnvKinds
  /\ hostState \in States
  /\ changes = 0 /\ link = TRUE /\ drops = 0 /\ reconnected = FALSE
  /\ unnoticed = FALSE
  /\ subscribed = FALSE /\ watching = FALSE /\ events = <<>>
  /\ state = Start /\ initialized = FALSE /\ initPc = "start"
  /\ refresh = [r \in Refreshers |-> "idle"]
  /\ cleaned = FALSE
  /\ wire = FALSE /\ wireSubs = 0 /\ cbs = [c \in Callbacks |-> "idle"]

MirrorStep ==
  \/ InitSubscribe \/ InitWatch \/ OnReconnect \/ HandleCameraEvent
  \/ \E r \in Refreshers : HostAnswers(r) \/ RefreshFails(r) \/ RefreshStates(r)

WireStep(c) == AcquireDetectionWire(c) \/ ReleaseDetectionWire(c)

MirrorNext ==
  \/ ChangeState \/ DropLink \/ RestoreLink \/ MirrorStep \/ CleanupFeeds
  \/ \E c \in Callbacks : OnDetectionEvent(c) \/ Dispose(c) \/ WireStep(c)

MirrorSpec == MirrorInit /\ [][MirrorNext]_cameraFeedVars

\* The goroutines run, the host answers and the link comes back.
MirrorLiveSpec == MirrorSpec /\ WF_cameraFeedVars(MirrorStep) /\ WF_cameraFeedVars(RestoreLink)

-----------------------------------------------------------------------------
(* Properties                                                               *)

MirrorTypeOK ==
  /\ hostState \in States /\ state \in States
  /\ changes \in 0 .. MaxChanges /\ drops \in 0 .. MaxDrops
  /\ {link, reconnected, unnoticed, subscribed, watching, initialized, cleaned, wire} \subseteq BOOLEAN
  /\ events \in Seq(States)
  /\ initPc \in {"start", "refresh", "watch", "done", "failed"}
  /\ refresh \in [Refreshers -> {"idle", "asked", "lost"} \cup States]
  /\ wireSubs \in 0 .. Cardinality(Callbacks)
  /\ cbs \in [Callbacks -> {"idle", "acquire", "on", "release", "off"}]

\* Connected() "returns whether the camera is currently connected": a host that
\* stops changing is mirrored in the end, or the device is cleaned up, whatever was
\* published before the subscription existed or while the link was down, and whenever
\* the link is lost, under these conditions: no call fails but for a lost link, nothing
\* changes while an answer of refreshStates is on its way, and the link does not come
\* back in the window between init's subscription and its registration of OnReconnect,
\* where no handler is told and the mirror stays as it is.
MirrorCatchesUp == <>[](env = {} => cleaned \/ unnoticed \/ state = hostState)

\* Before the cleanup the wire is down exactly when no callback counts, unless a
\* Subscribe failed; a callback that was counted and not released keeps it up.
\* When every callback was disposed of the wire is down, also if the device was
\* cleaned up, and its count reset, between an acquire and its release.
WireServesCallbacks ==
  /\ ~cleaned =>
       /\ wireSubs = Cardinality({c \in Callbacks : cbs[c] \in {"on", "release"}})
       /\ wire => wireSubs > 0
       /\ (wireSubs > 0 /\ ~CallsFail) => wire
  /\ (\A c \in Callbacks : cbs[c] \in {"idle", "off"}) => ~wire
=============================================================================
