---------------------------- MODULE MCThroughput ----------------------------
(* The instance of Throughput that TLC checks. *)
EXTENDS Throughput

Kp == -3
Ki == -2
Kd == -3
==============================================================================
