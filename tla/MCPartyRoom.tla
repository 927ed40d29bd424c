----------------------------- MODULE MCPartyRoom -----------------------------
(* A watch party on small instances. *)
EXTENDS PartyRoom, TLC

=============================================================================
