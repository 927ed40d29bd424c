---------------------------- MODULE MCStoreMembers ----------------------------
(* Two requests at once. *)
EXTENDS StoreMembers, TLC

CONSTANTS r1, r2

Either == Permutations({r1, r2})
=============================================================================
