----------------------------- MODULE MCFrameSync -----------------------------
(* The instances of FrameSync that TLC checks, and the mapping under which it  *)
(* implements Rendezvous.                                                     *)
EXTENDS FrameSync

Phase ==
  IF game \in {"play", "windowy"} THEN "free"
  ELSE IF game = "copy" THEN "drawing"
  ELSE IF game = "wait" THEN "offering"
  ELSE "over"

Presence ==
  IF consumer = "gone" THEN "away"
  ELSE IF consumer = "released" THEN "over"
  ELSE "there"

(* The client has a frame from the copy of its pixels on: the palette index it
   is about to read is the one of the frame.                                  *)
View ==
  IF consumer = "palette"
  THEN {[frame |-> got.frame, pal |-> palette_index]}
  ELSE IF consumer \in {"post", "windowx", "windowy", "push"}
  THEN {[frame |-> got.frame, pal |-> got.pal]}
  ELSE {}

Meeting == INSTANCE Rendezvous
  WITH Palettes <- Indices, game <- Phase,
       offer <- [frame |-> sent.frame, pal |-> sent.pal],
       open <- named, client <- Presence, taken <- got.frame, held <- View,
       void <- orphan

(* Every step of the game and the client, in whatever order they come, is one of
   the rendezvous or unseen in it: the client's two reads, of the pixels and of
   the palette's index, are as good as one.                                   *)
ImplementsRendezvous == Meeting!Safety
==============================================================================
