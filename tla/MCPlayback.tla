------------------------------ MODULE MCPlayback -----------------------------
(* Playbacks on small instances. *)
EXTENDS Playback, TLC

=============================================================================
