---------------------------- MODULE MCTrackerSync ----------------------------
(* The tracker sync on small instances. *)
EXTENDS TrackerSync, TLC

(* Drains differ by nothing but their name. *)
Symmetry == Permutations(Tasks)
=============================================================================
