------------------------------ MODULE MCBringUp ------------------------------
(* The instance of BringUp that TLC checks. *)
EXTENDS BringUp
==============================================================================
