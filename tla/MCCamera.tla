------------------------------ MODULE MCCamera ------------------------------
(* Instances of DeviceManager, CameraDevice, CameraFeeds and SharedFeed for  *)
(* TLC.  A behaviour is about the devices of a plugin or, of one device,     *)
(* about its sensors, its mirrors and wires, or the observables it hands     *)
(* out; the state of the others stays as it is at the start.                 *)
EXTENDS DeviceManager, CameraDevice, CameraFeeds, SharedFeed

CONSTANTS
  cam1, cam2, g1, g2, s1, s2, on, off, c1, c2,
  Parts  \* the ones looked at: "devices", "sensors", "mirrors", "feed"

VARIABLE part  \* which of them the behaviour is about, never changed

\* Two cameras that come and go in order, with two callers of GetCamera; one
\* camera whose changes, failures and close overlap the calls.
MCManagerScenes ==
  {[env |-> {}, cameras |-> {cam1, cam2}, callers |-> {g1, g2}, maxChanges |-> 4],
   [env |-> {"overlap", "fail"}, cameras |-> {cam1}, callers |-> {g1}, maxChanges |-> 3]}

scn(e, ss, n, max) ==
  [env |-> e, sensors |-> ss, maxSlots |-> n, maxCalls |-> max]

\* Two sensors added, retried, removed and released one call after the other; one
\* that is also added repeatedly; two whose calls overlap, with one slot; and one
\* whose calls overlap and repeat, or fail.
MCScenes ==
  {scn({"fail"}, {s1, s2}, 2, 4), scn({"fail", "again"}, {s1}, 2, 4),
   scn({"overlap"}, {s1, s2}, 1, 3), scn({"overlap", "again"}, {s1}, 2, 3),
   scn({"fail", "overlap"}, {s1}, 1, 3)}

value(name, room) == [name |-> name, room |-> room]
MCFirst == value(0, 0)
MCCameraValues == {MCFirst, value(0, 1), value(1, 1)}

kind(operator, watched, feeders, calm) ==
  [kind |-> operator, watched |-> watched, feeders |-> feeders, calm |-> calm]

\* A connection state whose values come one at a time, from either goroutine, and at
\* any moment; a change of one property and of any.
MCFeedKinds ==
  {kind("distinct", {}, Feeders, TRUE), kind("distinct", {}, {"handler"}, FALSE),
   kind("pairwise", {"room"}, {"handler"}, TRUE), kind("pairwise", {}, {"handler"}, TRUE)}

MCInit ==
  /\ part \in Parts
  /\ ManagerInit /\ Init /\ MirrorInit /\ FeedInit
  /\ part = "devices" \/ (managerScene.maxChanges = 3 /\ assigned = {})
  /\ part = "sensors" \/ Env = {"fail"}
  /\ env \in {{}, FeedEnvKinds}  \* calm, or all of it
  /\ part = "mirrors" \/ (env = {} /\ hostState = Start)
  /\ part = "feed" \/ ~feed.calm

MCNext ==
  \/ part = "devices" /\ ManagerNext /\ UNCHANGED <<part, vars, cameraFeedVars, feedVars>>
  \/ part = "sensors" /\ Next /\ UNCHANGED <<part, managerVars, cameraFeedVars, feedVars>>
  \/ part = "mirrors" /\ MirrorNext /\ UNCHANGED <<part, managerVars, vars, feedVars>>
  \/ part = "feed" /\ FeedNext /\ UNCHANGED <<part, managerVars, vars, cameraFeedVars>>

\* The fairness of CameraDevice and of CameraFeeds, each for its part.
MCFairness ==
  /\ \A c \in Calls : WF_vars(AddStep(c))
  /\ WF_cameraFeedVars(part = "mirrors" /\ MirrorStep)
  /\ WF_cameraFeedVars(part = "mirrors" /\ RestoreLink)

MCSpec ==
  /\ MCInit
  /\ [][MCNext]_<<part, managerVars, vars, cameraFeedVars, feedVars>>
  /\ MCFairness

\* Every AddSensor call ends, and every mirror of a host that stops changing shows what
\* the host has, or the device is cleaned up: the camera side never hangs on a slot, a
\* lost link or an answer that is never applied.
CameraSettles == EveryAddEnds /\ MirrorCatchesUp
=============================================================================
