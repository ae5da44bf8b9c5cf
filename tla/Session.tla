------------------------------ MODULE Session -------------------------------
(***************************************************************************)
(* The sessions of clients with one watch: the script (client.py) resets   *)
(* the watch, the transport (transport.cpp) uploads the palettes in pieces *)
(* and only then streams, both through BlueZ, and the firmware             *)
(* (bt.cpp, display.cpp) puts the pieces where its cursor stands.  A       *)
(* client may end at any moment, a connection be lost, the watch's host be *)
(* reset, and another client start, on the same computer or on another.    *)
(*                                                                         *)
(* BlueZ is external: it takes what is written to its two sockets, in any  *)
(* order between them, into one queue, and sends a request after the       *)
(* writes before it.  The sockets of a client that ended are closed before *)
(* another is started on that computer.                                    *)
(***************************************************************************)
EXTENDS Gatt, Sequences

CONSTANTS
  PAL_SIZE,             \* sizeof(palette_), in units (28 palettes of 384 bytes)
  UPLOADS,              \* what a game uploads: half of that, or all (Hexen)
  PIECE,                \* the most that is written at once (140 bytes)
  SESSIONS,             \* bound: clients ever started
  SOCKET, QUEUE         \* bounds: writes in a socket and in BlueZ's queue

ASSUME SessionAssumption ==
  /\ {PAL_SIZE, PIECE, SESSIONS, SOCKET, QUEUE} \subseteq Nat \ {0}
  /\ UPLOADS \subseteq 1 .. PAL_SIZE

VARIABLES
  palette, pal_progress,  \* the watch: what each unit holds, and the cursor
  started,                \* clients ever started
  link,                   \* the computer takes itself for connected
  client,                 \* its client: place, session, upload, units left
  pal_sock, frame_sock,   \* writes in the two sockets
  queue                   \* BlueZ's queue, requests included

watch    == <<palette, pal_progress>>
computer == <<link, client, pal_sock, frame_sock, queue>>
vars     == <<gap, watch, started, computer>>

None == [session |-> 0, unit |-> 0]
NoClient == [at |-> "gone", session |-> 0, size |-> 0, left |-> 0]

Piece(s, first, size) == [what |-> "piece", session |-> s, first |-> first,
                          size |-> size]
ResetRequest == [what |-> "reset"]

------------------------------------------------------------------------------
(* The client *)

ClientStart(p) ==       \* client.py, reset.WriteValue
  /\ client[p].at = "gone" /\ link[p]
  /\ pal_sock[p] = <<>> /\ frame_sock[p] = 0
  /\ started < SESSIONS
  /\ Len(queue[p]) < QUEUE
  /\ started' = started + 1
  /\ \E size \in UPLOADS :
       client' = [client EXCEPT ![p] = [at |-> "reset", session |-> started',
                                        size |-> size, left |-> size]]
  /\ queue' = [queue EXCEPT ![p] = Append(@, ResetRequest)]
  /\ UNCHANGED <<gap, watch, link, pal_sock, frame_sock>>

ResetDone(p) ==         \* WriteValue returns once the watch has answered
  /\ client[p].at = "reset"
  /\ \A i \in DOMAIN queue[p] : queue[p][i] # ResetRequest
  /\ client' = [client EXCEPT ![p].at = "upload"]
  /\ UNCHANGED <<gap, watch, started, link, pal_sock, frame_sock, queue>>

(* transport_t::run, `while (left > 0)'. *)
MoreToWrite_but_the_last(left) == left > PIECE
MoreToWrite_unsigned(left) == left >= 0
MoreToWrite(left) == left > 0

UploadPiece(p) ==
  /\ client[p].at = "upload"
  /\ MoreToWrite(client[p].left)
  /\ Len(pal_sock[p]) < SOCKET
  /\ LET c == client[p]
         size == IF c.left < PIECE THEN c.left ELSE PIECE
     IN  /\ pal_sock' = [pal_sock EXCEPT ![p] =
                           Append(@, Piece(c.session, c.size - c.left, size))]
         /\ client' = [client EXCEPT ![p].left = c.left - size]
  /\ UNCHANGED <<gap, watch, started, link, frame_sock, queue>>

UploadDone(p) ==        \* start_write_timer_, ctxt_.run
  /\ client[p].at = "upload"
  /\ ~MoreToWrite(client[p].left)
  /\ client' = [client EXCEPT ![p].at = "stream"]
  /\ UNCHANGED <<gap, watch, started, link, pal_sock, frame_sock, queue>>

StreamPacket(p) ==      \* start_write_
  /\ client[p].at = "stream"
  /\ frame_sock[p] = 0
  /\ frame_sock' = [frame_sock EXCEPT ![p] = 1]
  /\ UNCHANGED <<gap, watch, started, link, client, pal_sock, queue>>

ClientEnds(p) ==        \* by itself, by Ctrl-C or killed
  /\ client[p].at # "gone"
  /\ client' = [client EXCEPT ![p] = NoClient]
  /\ UNCHANGED <<gap, watch, started, link, pal_sock, frame_sock, queue>>

------------------------------------------------------------------------------
(* BlueZ *)

TakePiece(p) ==
  /\ pal_sock[p] # <<>>
  /\ Len(queue[p]) < QUEUE
  /\ queue' = [queue EXCEPT ![p] = Append(@, Head(pal_sock[p]))]
  /\ pal_sock' = [pal_sock EXCEPT ![p] = Tail(@)]
  /\ UNCHANGED <<gap, watch, started, link, client, frame_sock>>

(* A packet has overtaken the palettes if pieces are left behind in the other
   socket; what a dead client leaves is nobody's.                            *)
TakePacket(p) ==
  /\ frame_sock[p] = 1
  /\ Len(queue[p]) < QUEUE
  /\ queue' = [queue EXCEPT ![p] = Append(@,
                 [what |-> "packet", session |-> client[p].session,
                  overtook |-> client[p].at = "gone" \/ pal_sock[p] # <<>>,
                  size |-> client[p].size])]
  /\ frame_sock' = [frame_sock EXCEPT ![p] = 0]
  /\ UNCHANGED <<gap, watch, started, link, client, pal_sock>>

CloseSockets(p) ==
  /\ client[p].at = "gone"
  /\ pal_sock[p] # <<>> \/ frame_sock[p] = 1
  /\ pal_sock' = [pal_sock EXCEPT ![p] = <<>>]
  /\ frame_sock' = [frame_sock EXCEPT ![p] = 0]
  /\ UNCHANGED <<gap, watch, started, link, client, queue>>

(* The computer notices that the connection is lost: sockets and queue go with
   it, and the client, whose next read or write fails.                       *)
LinkLost(p) ==
  /\ link[p]
  /\ link' = [link EXCEPT ![p] = FALSE]
  /\ client' = [client EXCEPT ![p] = NoClient]
  /\ pal_sock' = [pal_sock EXCEPT ![p] = <<>>]
  /\ frame_sock' = [frame_sock EXCEPT ![p] = 0]
  /\ queue' = [queue EXCEPT ![p] = <<>>]
  /\ UNCHANGED <<gap, watch, started>>

------------------------------------------------------------------------------
(* The watch *)

(* display_t::reset *)
Rewind_kept == UNCHANGED pal_progress
Rewind == pal_progress' = 0

(* display_t::write_palette: cut at the end of palette_, where it wraps. *)
Advanced_unwrapped(size) == pal_progress + size
Advanced(size) == (pal_progress + size) % PAL_SIZE

WritePalette(piece) ==
  LET room == PAL_SIZE - pal_progress
      size == IF piece.size < room THEN piece.size ELSE room
  IN  /\ palette' = [u \in DOMAIN palette |->
                       IF u \in pal_progress .. pal_progress + size - 1
                       THEN [session |-> piece.session,
                             unit |-> piece.first + (u - pal_progress)]
                       ELSE palette[u]]
      /\ pal_progress' = Advanced(size)

(* A write arrives: access_reset, access_pals, access_frames (see Display). *)
Deliver(p) ==
  /\ link[p] /\ p \in peers /\ ~failed
  /\ queue[p] # <<>>
  /\ queue' = [queue EXCEPT ![p] = Tail(@)]
  /\ LET write == Head(queue[p]) IN
       \/ /\ write.what = "reset"
          /\ Rewind
          /\ UNCHANGED palette
       \/ /\ write.what = "piece"
          /\ WritePalette(write)
       \/ /\ write.what = "packet"
          /\ UNCHANGED watch
  /\ UNCHANGED <<gap, started, link, client, pal_sock, frame_sock>>

PeerConnects(p) ==
  /\ ~link[p] /\ p \notin peers
  /\ Connect(p)
  /\ link' = [link EXCEPT ![p] = TRUE]
  /\ UNCHANGED <<watch, started, client, pal_sock, frame_sock, queue>>

PeerDisconnects(p) == Disconnect(p) /\ UNCHANGED <<watch, started, computer>>

Advertising == /\ OnSync \/ ConnectFailed \/ AdvComplete
               /\ UNCHANGED <<watch, started, computer>>

OnReset ==              \* bt_t::s_on_reset
  /\ HostReset
  /\ Rewind
  /\ UNCHANGED <<palette, started, computer>>

------------------------------------------------------------------------------
(* The specification *)

Init ==
  /\ GapInit
  /\ palette = [u \in 0 .. PAL_SIZE - 1 |-> None] /\ pal_progress = 0
  /\ started = 0
  /\ link = [p \in PEERS |-> FALSE]
  /\ client = [p \in PEERS |-> NoClient]
  /\ pal_sock = [p \in PEERS |-> <<>>]
  /\ frame_sock = [p \in PEERS |-> 0]
  /\ queue = [p \in PEERS |-> <<>>]

Client(p) == ResetDone(p) \/ UploadPiece(p) \/ UploadDone(p) \/ StreamPacket(p)

Next ==
  \/ \E p \in PEERS :
       \/ ClientStart(p) \/ Client(p) \/ ClientEnds(p)
       \/ TakePiece(p) \/ TakePacket(p) \/ CloseSockets(p) \/ LinkLost(p)
       \/ Deliver(p) \/ PeerConnects(p) \/ PeerDisconnects(p)
  \/ Advertising \/ OnReset

Spec == Init /\ [][Next]_vars

(* The client runs, BlueZ and the radio make progress, and each end notices
   when the other is no longer there.                                        *)
Fairness == \A p \in PEERS :
  /\ WF_vars(Client(p)) /\ WF_vars(TakePiece(p)) /\ WF_vars(Deliver(p))
  /\ WF_vars(LinkLost(p) /\ p \notin peers)

FairSpec == Spec /\ Fairness

------------------------------------------------------------------------------
(* Properties *)

Ids == 0 .. SESSIONS

(* Every variable keeps its range; the cursor's is the point: it is never past
   the end of palette_.                                                       *)
TypeOK ==
  /\ GapTypeOK
  /\ palette \in [0 .. PAL_SIZE - 1 -> [session : Ids, unit : 0 .. PAL_SIZE - 1]]
  /\ pal_progress \in 0 .. PAL_SIZE - 1
  /\ started \in Ids
  /\ link \in [PEERS -> BOOLEAN]
  /\ client \in [PEERS -> [at : {"gone", "reset", "upload", "stream"},
                           session : Ids, size : 0 .. PAL_SIZE,
                           left : 0 .. PAL_SIZE]]
  /\ \A p \in PEERS : Len(pal_sock[p]) <= SOCKET /\ Len(queue[p]) <= QUEUE
  /\ frame_sock \in [PEERS -> {0, 1}]

PalettesOf(session, size) ==
  \A u \in 0 .. size - 1 : palette[u] = [session |-> session, unit |-> u]

Connected(p) == link[p] /\ p \in peers

(* Once all the pieces of an upload have arrived the palettes are exactly the
   ones the client sent, whatever uploads were cut short before, on whichever
   computer: the reset puts the cursor right, and nothing of an earlier session
   comes after it.                                                            *)
UploadLands ==
  \A p \in PEERS :
    /\ Connected(p) /\ client[p].at = "stream" /\ pal_sock[p] = <<>>
    /\ \A i \in DOMAIN queue[p] : queue[p][i].what # "piece"
    => PalettesOf(client[p].session, client[p].size)

(* A packet is converted with the palettes of its own client, unless it left its
   socket before they left theirs.                                            *)
RightPalettes ==
  \A p \in PEERS :
    Connected(p) /\ queue[p] # <<>> =>
      LET write == Head(queue[p])
      IN  write.what = "packet" /\ ~write.overtook
            => PalettesOf(write.session, write.size)

(* The script's reset is answered and the upload comes to its end, or the client
   does: no order of losses leaves it waiting.                                *)
UploadEnds ==
  \A p \in PEERS : client[p].at = "reset" ~> client[p].at \in {"stream", "gone"}
==============================================================================
