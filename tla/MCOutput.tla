------------------------------ MODULE MCOutput ------------------------------
(* Values for the constants of Output. *)
EXTENDS Output

CONSTANT helper

OneHelper == {helper}
=============================================================================
