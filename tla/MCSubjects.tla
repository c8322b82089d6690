----------------------------- MODULE MCSubjects -----------------------------
(* The instance of Subjects for TLC. *)
EXTENDS Subjects

CONSTANTS p1, p2, s1, s2

scn(kind, ps, ws, size, max) ==
  [kind |-> kind, producers |-> ps, subscribers |-> {s1, s2}, waiters |-> ws,
   bufferSize |-> size, maxNext |-> max]

\* Two producers on a Subject, with a FirstValueFrom among the subscribers, and
\* on a BehaviorSubject; one producer on a ReplaySubject that overflows; two
\* calls of FirstValueFrom.
MCScenes ==
  {scn("subject", {p1, p2}, {s2}, 1, 2), scn("behavior", {p1, p2}, {}, 1, 2),
   scn("replay", {p1}, {}, 2, 3), scn("subject", {p1}, {s1, s2}, 1, 2)}
=============================================================================
