-------------------------------- MODULE MCLut --------------------------------
(* The instance of Lut that TLC checks. *)
EXTENDS Lut
==============================================================================
