---------------------------- MODULE ColumnStream ----------------------------
(***************************************************************************)
(* What the display pipeline promises its caller (display.hpp,             *)
(* queue_column): columns are drawn in the order they were queued, each    *)
(* exactly REPEAT times, whatever resets and starvation do; no more than   *)
(* RING_BUFFER_SIZE are accepted and not yet done with.                    *)
(***************************************************************************)
EXTENDS Naturals, Sequences

CONSTANTS RING_BUFFER_SIZE, REPEAT, Columns

VARIABLES
  pending,    \* columns accepted and not done with, the oldest first
  copies      \* how many times the oldest has been sent

vars == <<pending, copies>>

Init == pending = <<>> /\ copies = 0

Put(column) ==
  /\ Len(pending) < RING_BUFFER_SIZE
  /\ pending' = Append(pending, column)
  /\ UNCHANGED copies

Copy ==
  /\ pending # <<>>
  /\ copies < REPEAT
  /\ copies' = copies + 1
  /\ UNCHANGED pending

(* The oldest is done with; the first copy of the next may go out at once. *)
Advance ==
  /\ pending # <<>>
  /\ copies = REPEAT
  /\ pending' = Tail(pending)
  /\ \/ copies' = 0
     \/ pending' # <<>> /\ copies' = 1

Next == (\E column \in Columns : Put(column)) \/ Copy \/ Advance

Safety == Init /\ [][Next]_vars

Spec == Safety /\ WF_vars(Copy) /\ WF_vars(Advance)
==============================================================================
