---------------------------- MODULE MCNodeSession ----------------------------
(* Filters that pass every frame, none, and every other one.                  *)
EXTENDS NodeSession

MCMatches(f, i) == f = "all" \/ (f = "odd" /\ i % 2 = 1)
=============================================================================
