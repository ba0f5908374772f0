---------------------------- MODULE MC_WebSession ----------------------------
EXTENDS WebSession

Bound(v, s, e, t, f) ==
  [visits |-> v, switches |-> s, edits |-> e, tries |-> t, faults |-> f]

(* Going about, signed in or not, and returning to the default workspace;   *)
(* a wizard with a failure, and one whose inputs change under a test; a new  *)
(* workspace entered and left again, one left alone by a row of the          *)
(* integrations page, and one whose token expires.                          *)
MC_Bounds == {Bound(2, 1, 0, 0, 1), Bound(0, 0, 1, 4, 1), Bound(0, 0, 2, 4, 0),
              Bound(0, 2, 1, 3, 0), Bound(1, 1, 1, 3, 0), Bound(0, 1, 1, 3, 1)}
=============================================================================
