-------------------------- MODULE MCDeviceStorage --------------------------
(* Instances of DeviceStorage for TLC. *)
EXTENDS DeviceStorage

CONSTANTS t1, t2, k1, a, b

field(store, default, onGet) ==
  [store |-> store, button |-> FALSE, default |-> default, onGet |-> onGet]

\* A stored field with a default, a volatile field resolved by OnGet, and a
\* button that claims to be stored.
MCSchemas ==
  {field(TRUE, a, FALSE), field(FALSE, Nil, TRUE),
   [store |-> TRUE, button |-> TRUE, default |-> Nil, onGet |-> FALSE]}

\* One key, one key cleared, and a whole document.
MCConfigs ==
  {[k \in {k1} |-> Zero], [k \in {k1} |-> Nil], [k \in Keys |-> a]}

MCLayouts ==
  {[k \in Keys |-> IF k = k1 THEN field(TRUE, a, FALSE) ELSE NoSchema]}

\* Any three calls on a store file, and any two, with values that differ, on a
\* remote store with its late puts.
MCUses ==
  [file   |-> [ops |-> AllOps, data |-> {a}, max |-> 3],
   remote |-> [ops |-> AllOps, data |-> {a, b}, max |-> 2]]

\* Two goroutines that only set internal values.
SetInternalOnly == [file |-> [ops |-> {"SetInternalValue"}, data |-> {a, b}, max |-> 3]]
=============================================================================
