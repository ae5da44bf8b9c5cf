------------------------------ MODULE Rendezvous ------------------------------
(***************************************************************************)
(* What shared memory and its two semaphores promise about a frame         *)
(* (doomtime_ipc.h, doomtime_ipc_frame_ready and _frame_rendered): the game *)
(* draws one, offers it together with its palette, the client takes both   *)
(* at once, and only then does the game draw the next.  Frames are taken   *)
(* in the order they are drawn, each once.  The game returns untaken from  *)
(* one frame at most, after a client that has said it is over.             *)
(*                                                                         *)
(* The promise ends (void) when a client dies after saying that and before *)
(* it has closed the place to others.                                      *)
(***************************************************************************)
EXTENDS Integers

CONSTANTS FRAMES, Palettes

VARIABLES
  game,     \* "free" to draw, "drawing", "offering" or "over"
  offer,    \* the frame offered last and its palette
  open,     \* a client can find its way here
  client,   \* "away", "there" or "over"
  taken,    \* the frame taken last
  held,     \* what the client holds: nothing, or one offer
  void      \* the promise has ended

vars == <<game, offer, open, client, taken, held, void>>

NextFrame(n) == (n + 1) % FRAMES

Init ==
  /\ game = "free" /\ offer = [frame |-> FRAMES - 1, pal |-> 0]
  /\ open = TRUE /\ client = "away"
  /\ taken = FRAMES - 1 /\ held = {} /\ void = FALSE

Draw ==
  /\ game = "free"
  /\ game' = "drawing"
  /\ UNCHANGED <<offer, open, client, taken, held, void>>

Offer ==
  /\ game = "drawing"
  /\ game' = "offering"
  /\ offer' \in [frame : {NextFrame(offer.frame)}, pal : Palettes]
  /\ UNCHANGED <<open, client, taken, held, void>>

(* There was a client and there will be none. *)
Deserted == client = "over" \/ (client = "away" /\ ~open)

Return ==
  /\ game = "offering"
  /\ \/ taken = offer.frame
     \/ Deserted /\ offer.frame = NextFrame(taken)
  /\ game' \in {"free", "over"}
  /\ UNCHANGED <<offer, open, client, taken, held, void>>

(* It gives up waiting, quits or is killed, at any time. *)
End ==
  /\ game' = "over"
  /\ open' \in {open, FALSE}
  /\ UNCHANGED <<offer, client, taken, held, void>>

Come ==
  /\ client = "away" /\ open
  /\ client' = "there"
  /\ UNCHANGED <<game, offer, open, taken, held, void>>

(* Frame and palette in one step, and never while the game draws. *)
Take ==
  /\ client = "there" /\ held = {}
  /\ game \in {"offering", "over"}
  /\ offer.frame = NextFrame(taken)
  /\ taken' = offer.frame
  /\ held' = {offer}
  /\ UNCHANGED <<game, offer, open, client, void>>

Drop ==
  /\ held' = {}
  /\ UNCHANGED <<game, offer, open, client, taken, void>>

SayOver ==
  /\ client = "there" /\ held = {}
  /\ client' = "over"
  /\ UNCHANGED <<game, offer, open, taken, held, void>>

Close ==
  /\ client = "over"
  /\ client' = "away"
  /\ open' = FALSE
  /\ UNCHANGED <<game, offer, taken, held, void>>

Die ==
  /\ client' = "away"
  /\ held' = {}
  /\ void' = (client = "over")
  /\ UNCHANGED <<game, offer, open, taken>>

Anything == void /\ void'

Next == \/ Draw \/ Offer \/ Return \/ End
        \/ Come \/ Take \/ Drop \/ SayOver \/ Close \/ Die
        \/ Anything

Safety == Init /\ [][Next]_vars
==============================================================================
