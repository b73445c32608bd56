---------------------------- MODULE MCMemoryStore ----------------------------
(***************************************************************************)
(* Two sessions with an incident each and a third incident, rejected, that *)
(* recalls what the first session says; and two incidents of one session.  *)
(***************************************************************************)
EXTENDS MemoryStore, TLC

CONSTANTS i1, i2, i3, s1, s2

ThreeIncidents == {i1, i2, i3}
TwoIncidents   == {i1, i2}
TwoSessions    == {s1, s2}
OneSession     == {s1}

Apart    == (i1 :> s1) @@ (i2 :> s2) @@ (i3 :> s1)
Together == (i1 :> s1) @@ (i2 :> s1)

=============================================================================
