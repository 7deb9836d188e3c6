------------------------------ MODULE MCViewers ------------------------------
(* Instances of Viewers for TLC. *)
EXTENDS Viewers
CONSTANTS v1, v2, s1, s2
=============================================================================
