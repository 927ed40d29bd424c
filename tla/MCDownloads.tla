----------------------------- MODULE MCDownloads -----------------------------
(* The download queue on small instances. *)
EXTENDS Downloads, TLC

(* The episodes differ by nothing but their name, where each is in a release alike. *)
Symmetry == Permutations(Episodes)
=============================================================================
