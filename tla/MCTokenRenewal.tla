---------------------------- MODULE MCTokenRenewal ----------------------------
(* Two processes over one store, one of them with two requests under way. *)
EXTENDS TokenRenewal, TLC

CONSTANTS app, terminal, c1, c2, c3

CallerOf == c1 :> app @@ c2 :> app @@ c3 :> terminal

(* Everything may happen, once of a kind. *)
OnceEach == [k \in {"signin", "signout", "unsaved", "unread", "lost", "restart"} |-> 1]
=============================================================================
