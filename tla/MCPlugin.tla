------------------------------ MODULE MCPlugin ------------------------------
(* Instances of PluginRuntime, SensorBinding and EventEmitter for TLC.  A    *)
(* behaviour is about the life of the process, about the sensors the plugin  *)
(* owns or about an event of its API; the state of the other two stays as    *)
(* it is at the start.                                                       *)
EXTENDS PluginRuntime, SensorBinding, EventEmitter

CONSTANTS r1, r2

VARIABLE part  \* which of the three the behaviour is about, never changed

\* One record whose changes, failures and close overlap its binds; two records
\* that compete for one slot while one of them changes; and two records that
\* come and go in order, with failures and a close.
MCScenes ==
  {[env |-> EnvKinds, records |-> {r1}, maxSlots |-> 2, maxChanges |-> 2],
   [env |-> {"overlap", "fail"}, records |-> {r1, r2}, maxSlots |-> 1, maxChanges |-> 1],
   [env |-> {"fail", "close"}, records |-> {r1, r2}, maxSlots |-> 2, maxChanges |-> 2]}

MCInit ==
  /\ part \in {"process", "sensors", "event"}
  /\ RuntimeInit /\ Init /\ EmitterInit
  /\ part = "process" \/ env = {}
  /\ part = "sensors" \/ (scene.maxChanges = 1 /\ records = {})
  /\ part = "event" \/ usage = "single"

MCNext ==
  \/ part = "process" /\ RuntimeNext /\ UNCHANGED <<part, vars, emitterVars>>
  \/ part = "sensors" /\ Next /\ UNCHANGED <<part, runtimeVars, emitterVars>>
  \/ part = "event" /\ EmitterNext /\ UNCHANGED <<part, runtimeVars, vars>>

\* The fairness of RuntimeLiveSpec and of SensorBinding, each for its part.
MCFairness ==
  /\ WF_runtimeVars(part = "process" /\ MainStep)
  /\ WF_runtimeVars(part = "process" /\ TeardownStep)
  /\ WF_runtimeVars(part = "process" /\ Watch)
  /\ WF_runtimeVars(part = "process" /\ HostStart)
  /\ WF_vars(part = "sensors" /\ StartStep)
  /\ WF_vars(part = "sensors" /\ HandlerStep)
  /\ WF_vars(part = "sensors" /\ CloseSensor)
  /\ \A i \in Instances : SF_vars(BindStep(i)) /\ WF_vars(Lifecycle(i))

MCSpec == MCInit /\ [][MCNext]_<<part, runtimeVars, vars, emitterVars>> /\ MCFairness
=============================================================================
