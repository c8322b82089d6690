------------------------- MODULE MCCoalescingWriter -------------------------
(* The instance of CoalescingWriter for TLC: three callers and four saves,  *)
(* so that a save joins a pending flush while another one is in flight and  *)
(* a caller saves again after its first outcome.                            *)
EXTENDS CoalescingWriter

CONSTANTS c1, c2, c3
MCCallers == {c1, c2, c3}
=============================================================================
