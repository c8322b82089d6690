---------------------------- MODULE MCSensorView ----------------------------
(* The instance of SensorView for TLC: one sensor of another plugin, s1,    *)
(* and one of the plugin's own, s2.                                         *)
EXTENDS SensorView

CONSTANTS s1, s2, c1, v0, v1

\* Sensors come and go and change while the plugin starts; one sensor in a
\* disorderly world, for longer when nothing changes before init is done; and
\* every kind of event after a calm start.
MCScenes ==
  {[env |-> {"early"}, sensors |-> {s1, s2}, values |-> {v0},
    cameras |-> {}, maxChanges |-> 3],
   [env |-> EnvKinds, sensors |-> {s1}, values |-> {v0, v1},
    cameras |-> {}, maxChanges |-> 2],
   [env |-> {"drop", "fail", "close"}, sensors |-> {s1}, values |-> {v0, v1},
    cameras |-> {}, maxChanges |-> 3],
   [env |-> {}, sensors |-> {s1}, values |-> {v0},
    cameras |-> {c1}, maxChanges |-> 5]}
=============================================================================
