------------------------------- MODULE Register -------------------------------
(***************************************************************************)
(* What the client promises about the way of a frame from the game to the  *)
(* socket (client/frame_buffer.hpp, client/transport.hpp): a register that *)
(* the game overwrites whenever it likes and that is read whole.  A frame  *)
(* goes out packet by packet, from the first to the last; whenever one is  *)
(* begun it is the newest there is.  The client ends once, for a reason;   *)
(* silence is one only if there has not been any frame, and nothing goes   *)
(* out after the end.                                                      *)
(***************************************************************************)
EXTENDS Naturals

CONSTANTS FRAMES, PACKETS

VARIABLES
  latest,   \* the newest frame, 0 before the first
  sent,     \* the packet that went out last
  ended     \* why the client has ended: "", "stop", "timeout" or "error"

vars == <<latest, sent, ended>>

Init ==
  /\ latest = 0
  /\ sent = [frame |-> 0, index |-> PACKETS - 1]
  /\ ended = ""

Overwrite ==
  /\ latest' = (latest % FRAMES) + 1
  /\ UNCHANGED <<sent, ended>>

BeginFrame ==
  /\ ended = "" /\ latest # 0
  /\ sent.index = PACKETS - 1
  /\ sent' = [frame |-> latest, index |-> 0]
  /\ UNCHANGED <<latest, ended>>

ContinueFrame ==
  /\ ended = ""
  /\ sent.index < PACKETS - 1
  /\ sent' = [frame |-> sent.frame, index |-> sent.index + 1]
  /\ UNCHANGED <<latest, ended>>

End ==
  /\ ended = ""
  /\ \/ ended' \in {"stop", "error"}
     \/ ended' = "timeout" /\ latest = 0
  /\ UNCHANGED <<latest, sent>>

Next == Overwrite \/ BeginFrame \/ ContinueFrame \/ End

Safety == Init /\ [][Next]_vars
==============================================================================
