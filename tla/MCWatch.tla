------------------------------- MODULE MCWatch -------------------------------
(* Instances of Watch for TLC. *)
EXTENDS Watch
CONSTANT w1
Texts == {"o", "p"}
TwoMarks == <<"o", "p">>
=============================================================================
