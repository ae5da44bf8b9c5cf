-------------------------------- MODULE MCShm --------------------------------
(* The instances of Shm that TLC checks. *)
EXTENDS Shm
==============================================================================
