------------------------------ MODULE MCDisplay ------------------------------
(* The instances of Display that TLC checks, and the mapping under which the  *)
(* pipeline implements ColumnStream.                                          *)
EXTENDS Display, Sequences

(* The columns the reading side is not done with, from output_tail on. *)
Pending == [i \in 1 .. InUse |->
              output[(output_tail + i - 1) % RING_BUFFER_SIZE]]

(* Transfers of the column at output_tail that have been started. *)
Copies ==
  IF task \in {"consume", "start"} \/ (spi = "ramwr" /\ col_acquired)
  THEN 0
  ELSE IF col_count % REPEAT = 0 THEN REPEAT ELSE col_count % REPEAT

Stream == INSTANCE ColumnStream WITH pending <- Pending, copies <- Copies

(* The task and the interrupt together draw every column they accept exactly
   REPEAT times and in order, under the scheduling of Fairness.               *)
ImplementsColumnStream == Stream!Spec
==============================================================================
