------------------------------- MODULE Packets -------------------------------
(***************************************************************************)
(* From the game's frame to the watch's columns: frame_buffer_t::push      *)
(* (client/frame_buffer.cpp) crops the frame at the window's offset, turns *)
(* it on its side, keeps every other column and lays the columns out in    *)
(* packets, each column followed by the palette's index; bt_t::access_frames *)
(* (apps/doomtime/src/bt.cpp) cuts a packet up again with numbers of its   *)
(* own.  A pixel is the place it had in the game's frame: nobody looks at  *)
(* its value on the way.  Which frame is sent when is Client's matter.     *)
(***************************************************************************)
EXTENDS Integers, Sequences

CONSTANTS
  FRAME_WIDTH, FRAME_HEIGHT,  \* the game's frame, ipc::WIDTH, HEIGHT (320, 200)
  WIDTH, HEIGHT,              \* the picture sent (48, 48)
  COL_PER_PACKET,             \* (4)
  OFFSETS,                    \* window offsets that occur, any ints
  PAL_INDICES,                \* palette indices that occur
  PACKET_SIZE, COLUMN_SIZE,   \* the firmware's 196 and 49
  COLUMN_HEIGHT               \* the firmware's sizeof(pal_input_t) (48)

ASSUME PacketsAssumption ==
  /\ {FRAME_WIDTH, FRAME_HEIGHT, WIDTH, HEIGHT, COL_PER_PACKET, PACKET_SIZE,
      COLUMN_SIZE, COLUMN_HEIGHT} \subseteq Nat \ {0}
  /\ WIDTH % COL_PER_PACKET = 0
  /\ PACKET_SIZE % COLUMN_SIZE = 0
  /\ OFFSETS \subseteq Int \X Int
  /\ PAL_INDICES \subseteq Nat

VARIABLES
  offset, pal_idx,      \* what the frame pushed last came with
  pkts,                 \* its packets
  frame_progress,       \* packets of it sent
  packet_buf, at,       \* the watch's packet, and the column it is at
  columns,              \* columns of it the watch has queued
  ended, failed         \* push has thrown, an assert of the watch has failed

vars == <<offset, pal_idx, pkts, frame_progress, packet_buf, at, columns,
          ended, failed>>

STEP == HEIGHT + 1
MTU == COL_PER_PACKET * STEP
PerFrame == WIDTH \div COL_PER_PACKET

Pixel(x, y)  == <<"pixel", x, y>>
Palette(idx) == <<"palette", idx>>
NoPacket == <<>>

------------------------------------------------------------------------------
(* The client *)

(* cv::Mat refuses a range that leaves the frame; so does a negative offset,
   which arrives as an unsigned and is taken for an int again.               *)
InFrame(X, Y) == /\ X >= 0 /\ X + WIDTH * 2 <= FRAME_WIDTH
                 /\ Y >= 0 /\ Y + HEIGHT <= FRAME_HEIGHT

Cropped(X, Y)    == [y \in 0 .. HEIGHT - 1 |-> [x \in 0 .. WIDTH * 2 - 1 |->
                       Pixel(X + x, Y + y)]]
Transposed(X, Y) == [x \in 0 .. WIDTH * 2 - 1 |-> [y \in 0 .. HEIGHT - 1 |->
                       Cropped(X, Y)[y][x]]]

(* output_matrix: a row for each column sent, STEP bytes from row to row. *)
OutputRow(address) == address \div STEP

Packet(X, Y, idx, p) ==
  LET rows == Transposed(X, Y) IN
  [b \in 0 .. MTU - 1 |->
     IF (b + 1) % STEP = 0
     THEN Palette(idx)
     ELSE rows[2 * OutputRow(p * MTU + b)][(p * MTU + b) % STEP]]

Push ==                 \* frame_buffer_t::push, and pop once it is all sent
  /\ ~ended
  /\ frame_progress = PerFrame /\ packet_buf = NoPacket
  /\ offset' \in OFFSETS /\ pal_idx' \in PAL_INDICES
  /\ IF InFrame(offset'[1], offset'[2])
     THEN /\ pkts' = [p \in 0 .. PerFrame - 1 |->
                        Packet(offset'[1], offset'[2], pal_idx', p)]
          /\ frame_progress' = 0
          /\ UNCHANGED ended
     ELSE /\ ended' = TRUE
          /\ pkts' = NoPacket
          /\ UNCHANGED frame_progress
  /\ columns' = <<>>
  /\ UNCHANGED <<packet_buf, at, failed>>

------------------------------------------------------------------------------
(* The watch *)

(* bt_t::access_frames asserts the size, which is the client's. *)
AccessFrames ==
  /\ ~ended /\ ~failed
  /\ frame_progress < PerFrame /\ packet_buf = NoPacket
  /\ frame_progress' = frame_progress + 1
  /\ failed' = (MTU # PACKET_SIZE)
  /\ packet_buf' = pkts[frame_progress]
  /\ at' = 0
  /\ UNCHANGED <<offset, pal_idx, pkts, columns, ended>>

ColumnAt_pixels(i) == i * COLUMN_HEIGHT
ColumnAt(i) == i * COLUMN_SIZE
PaletteAt(i) == (i + 1) * COLUMN_SIZE - 1

QueueColumn ==          \* the loop of access_frames
  /\ ~failed
  /\ packet_buf # NoPacket
  /\ columns' = Append(columns,
       [pal    |-> packet_buf[PaletteAt(at)],
        pixels |-> [y \in 0 .. COLUMN_HEIGHT - 1 |->
                      packet_buf[ColumnAt(at) + y]]])
  /\ at' = (at + 1) % (PACKET_SIZE \div COLUMN_SIZE)
  /\ packet_buf' = IF at' = 0 THEN NoPacket ELSE packet_buf
  /\ UNCHANGED <<offset, pal_idx, pkts, frame_progress, ended, failed>>

Init ==
  /\ offset = <<0, 0>> /\ pal_idx = 0 /\ pkts = NoPacket
  /\ frame_progress = PerFrame
  /\ packet_buf = NoPacket /\ at = 0 /\ columns = <<>>
  /\ ended = FALSE /\ failed = FALSE

Next == Push \/ AccessFrames \/ QueueColumn

Spec == Init /\ [][Next]_vars

------------------------------------------------------------------------------
(* Properties *)

(* Column c on the watch is column X + 2c of the game's frame from Y downwards,
   never anything outside the frame, and comes with the frame's palette: what
   the client lays out with HEIGHT, STEP and MTU the firmware finds with 48, 49
   and 196, and its assert holds.                                             *)
ColumnsOfWindow ==
  /\ ~failed
  /\ \A c \in 1 .. Len(columns) :
       /\ columns[c].pal = Palette(pal_idx)
       /\ \A y \in 0 .. COLUMN_HEIGHT - 1 :
            LET X == offset[1] + 2 * (c - 1)
                Y == offset[2] + y
            IN  /\ X \in 0 .. FRAME_WIDTH - 1 /\ Y \in 0 .. FRAME_HEIGHT - 1
                /\ columns[c].pixels[y] = Pixel(X, Y)
==============================================================================
