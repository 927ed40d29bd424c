---------------------------- MODULE MCStoreClient ----------------------------
(* One plugin of one store, and the commands that cross. *)
EXTENDS StoreClient, TLC

CONSTANTS p, v1, v2, f1, f2, t1, t2, t3

Trio(a, b, c) == t1 :> a @@ t2 :> b @@ t3 :> c
Crossing  == {Trio("refresh", "leave", "join"), Trio("refresh", "install", "remove"),
              Trio("install", "leave", "join"), Trio("refresh", "refresh", "join")}
=============================================================================
