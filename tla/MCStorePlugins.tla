---------------------------- MODULE MCStorePlugins ----------------------------
(* One plugin, two versions of it, one of them built twice. *)
EXTENDS StorePlugins, TLC

CONSTANTS p, v1, v2, f1, f2, f3, u1, u2, u3, r1, r2, r3, r4

Built(v, f) == [id |-> p, version |-> v, file |-> f]

(* Three builds, two of one version; each upload is finished once, and the plugin is
   unpublished meanwhile. *)
EachOnce  == u1 :> Built(v1, f1) @@ u2 :> Built(v1, f2) @@ u3 :> Built(v2, f3)
AsksOnce  == r1 :> [op |-> "finish", upload |-> u1] @@ r2 :> [op |-> "finish", upload |-> u2]
             @@ r3 :> [op |-> "finish", upload |-> u3] @@ r4 :> [op |-> "unpublish", id |-> p]
=============================================================================
