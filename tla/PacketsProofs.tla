---------------------------- MODULE PacketsProofs ----------------------------
(***************************************************************************)
(* Where the pixels of a frame end up on the watch, for every size of the  *)
(* frame, the picture and the packet and for every window: the layout of   *)
(* frame_buffer_t::push is undone by bt_t::access_frames exactly when the  *)
(* two agree on three numbers, which either has of its own.                *)
(***************************************************************************)
EXTENDS Packets, SequenceTheorems, TLAPS

(* common.hpp of the client and bt.cpp of the firmware agree. *)
Agreement ==
  /\ COLUMN_HEIGHT = HEIGHT
  /\ COLUMN_SIZE = STEP
  /\ PACKET_SIZE = MTU

(* The column that is to be drawn at c, as the watch should have it. *)
Column(c) ==
  [pal    |-> Palette(pal_idx),
   pixels |-> [y \in 0 .. COLUMN_HEIGHT - 1 |->
                 Pixel(offset[1] + 2 * c, offset[2] + y)]]

(* Columns that have been queued of the frame. *)
Queued ==
  IF packet_buf = NoPacket THEN frame_progress * COL_PER_PACKET
                           ELSE (frame_progress - 1) * COL_PER_PACKET + at

(* A frame inside the game's is cut into packets, and the watch has the last one
   sent.                                                                     *)
Loaded ==
  /\ InFrame(offset[1], offset[2])
  /\ pkts = [p \in 0 .. PerFrame - 1 |->
               Packet(offset[1], offset[2], pal_idx, p)]
  /\ packet_buf # NoPacket =>
       frame_progress > 0 /\ packet_buf = pkts[frame_progress - 1]
  /\ Len(columns) = Queued

(* Nothing is sent before the first frame or after a window that leaves it. *)
Unloaded == frame_progress = PerFrame /\ packet_buf = NoPacket /\ columns = <<>>

Inv ==
  /\ offset \in Int \X Int
  /\ frame_progress \in 0 .. PerFrame /\ at \in 0 .. COL_PER_PACKET - 1
  /\ ~failed
  /\ columns \in Seq({Column(c) : c \in Nat})
  /\ \A c \in 1 .. Len(columns) : columns[c] = Column(c - 1)
  /\ Loaded \/ Unloaded

------------------------------------------------------------------------------
(* A number is its quotient times the divisor and the remainder, and no other
   quotient and remainder give it.                                           *)
LEMMA DivModUnique ==
  ASSUME NEW b \in Nat \ {0}, NEW q \in Nat, NEW r \in 0 .. b - 1
  PROVE  (q * b + r) \div b = q /\ (q * b + r) % b = r
  BY SMT

(* The sizes: whole packets make up a picture, whole columns a packet. *)
LEMMA Sizes ==
  /\ STEP \in Nat \ {0} /\ MTU \in Nat \ {0} /\ MTU = COL_PER_PACKET * STEP
  /\ PerFrame \in Nat /\ PerFrame * COL_PER_PACKET = WIDTH
  /\ MTU \div STEP = COL_PER_PACKET /\ COL_PER_PACKET \in Nat \ {0}
  /\ WIDTH \in Nat \ {0} /\ HEIGHT \in Nat \ {0}
  /\ FRAME_WIDTH \in Nat /\ FRAME_HEIGHT \in Nat
<1>1. /\ HEIGHT \in Nat \ {0} /\ WIDTH \in Nat \ {0}
      /\ COL_PER_PACKET \in Nat \ {0} /\ WIDTH % COL_PER_PACKET = 0
      /\ FRAME_WIDTH \in Nat /\ FRAME_HEIGHT \in Nat
  BY PacketsAssumption
<1>2. STEP \in Nat \ {0}
  BY <1>1 DEF STEP
<1>3. MTU \in Nat \ {0} /\ MTU = COL_PER_PACKET * STEP
  <2>1. \A a, b \in Nat \ {0} : a * b \in Nat \ {0}
    BY SMT
  <2> QED
    BY <1>1, <1>2, <2>1 DEF MTU
<1>4. PerFrame \in Nat /\ PerFrame * COL_PER_PACKET = WIDTH
  <2>1. \A a \in Nat, b \in Nat \ {0} :
          a % b = 0 => a \div b \in Nat /\ (a \div b) * b = a
    BY SMT
  <2> QED
    BY <1>1, <2>1 DEF PerFrame
<1>5. MTU \div STEP = COL_PER_PACKET
  <2>1. (COL_PER_PACKET * STEP + 0) \div STEP = COL_PER_PACKET
    BY <1>1, <1>2, DivModUnique
  <2>2. COL_PER_PACKET * STEP + 0 = MTU
    BY <1>3
  <2> QED
    BY <2>1, <2>2
<1> QED
  BY <1>1, <1>2, <1>3, <1>4, <1>5

(* push's matrix, row by row and byte by byte: what a packet holds. *)
LEMMA Layout ==
  ASSUME Agreement, NEW X \in Int, NEW Y \in Int, NEW idx,
         NEW p \in 0 .. PerFrame - 1, NEW i \in 0 .. COL_PER_PACKET - 1
  PROVE  /\ Packet(X, Y, idx, p)[PaletteAt(i)] = Palette(idx)
         /\ \A y \in 0 .. COLUMN_HEIGHT - 1 :
              Packet(X, Y, idx, p)[ColumnAt(i) + y]
                = Pixel(X + 2 * (p * COL_PER_PACKET + i), Y + y)
<1> DEFINE rows == Transposed(X, Y)
           c == p * COL_PER_PACKET + i
           value(b) ==
             IF (b + 1) % STEP = 0
             THEN Palette(idx)
             ELSE rows[2 * OutputRow(p * MTU + b)][(p * MTU + b) % STEP]
<1>1. /\ COL_PER_PACKET \in Nat \ {0} /\ STEP \in Nat \ {0} /\ MTU \in Nat \ {0}
      /\ HEIGHT \in Nat \ {0} /\ STEP = HEIGHT + 1 /\ WIDTH \in Nat
      /\ PerFrame \in Nat /\ PerFrame * COL_PER_PACKET = WIDTH
      /\ MTU = COL_PER_PACKET * STEP /\ p \in Nat /\ i \in Nat
      /\ COLUMN_SIZE = STEP /\ COLUMN_HEIGHT = HEIGHT
  BY Sizes, PacketsAssumption DEF Agreement, STEP
<1>2. c \in 0 .. WIDTH - 1
  <2>1. \A a, b, m, n \in Nat :
          a + 1 <= m /\ b + 1 <= n => a * n + b + 1 <= m * n
    BY SMT
  <2>2. \A a, b \in Nat : a * b \in Nat
    BY SMT
  <2> QED
    BY <1>1, <2>1, <2>2
<1>3. \A b \in 0 .. MTU - 1 : Packet(X, Y, idx, p)[b] = value(b)
  BY DEF Packet
<1>4. ASSUME NEW y \in 0 .. STEP - 1
      PROVE  /\ i * STEP + y \in 0 .. MTU - 1
             /\ p * MTU + (i * STEP + y) = c * STEP + y
  <2>1. \A a, b, m, n \in Nat :
          a + 1 <= m /\ b + 1 <= n => a * n + b + 1 <= m * n
    BY SMT
  <2>2. i * STEP + y + 1 <= COL_PER_PACKET * STEP
    BY <1>1, <2>1
  <2>3. \A a, b \in Nat : a * b \in Nat
    BY SMT
  <2>4. p * (COL_PER_PACKET * STEP) + (i * STEP + y)
          = (p * COL_PER_PACKET + i) * STEP + y
    BY <1>1, SMT
  <2> QED
    BY <1>1, <2>2, <2>3, <2>4
<1> HIDE DEF c, rows
<1>5. Packet(X, Y, idx, p)[PaletteAt(i)] = Palette(idx)
  <2>1. PaletteAt(i) = i * STEP + HEIGHT
    BY <1>1, SMT DEF PaletteAt
  <2>2. HEIGHT \in 0 .. STEP - 1
    BY <1>1
  <2>3. (PaletteAt(i) + 1) % STEP = 0
    <3>1. PaletteAt(i) + 1 = (i + 1) * STEP + 0
      BY <1>1, SMT DEF PaletteAt
    <3>2. ((i + 1) * STEP + 0) % STEP = 0
      BY <1>1, DivModUnique
    <3> QED
      BY <3>1, <3>2
  <2> QED
    BY <1>3, <1>4, <2>1, <2>2, <2>3
<1>6. ASSUME NEW y \in 0 .. COLUMN_HEIGHT - 1
      PROVE  Packet(X, Y, idx, p)[ColumnAt(i) + y] = Pixel(X + 2 * c, Y + y)
  <2> DEFINE b == ColumnAt(i) + y
  <2>1. b = i * STEP + y /\ y \in 0 .. STEP - 1 /\ y + 1 \in 0 .. STEP - 1
    BY <1>1 DEF ColumnAt
  <2>2. (b + 1) % STEP = y + 1
    <3>1. (i * STEP + (y + 1)) % STEP = y + 1
      BY <1>1, <2>1, DivModUnique
    <3>2. b + 1 = i * STEP + (y + 1)
      BY <1>1, <2>1
    <3> QED
      BY <3>1, <3>2
  <2>3. b \in 0 .. MTU - 1 /\ p * MTU + b = c * STEP + y
    BY <1>4, <2>1
  <2>4. OutputRow(p * MTU + b) = c /\ (p * MTU + b) % STEP = y
    BY <1>1, <1>2, <2>1, <2>3, DivModUnique DEF OutputRow
  <2> HIDE DEF b
  <2>5. Packet(X, Y, idx, p)[b] = rows[2 * c][y]
    BY <1>3, <2>1, <2>2, <2>3, <2>4
  <2>6. 2 * c \in 0 .. WIDTH * 2 - 1 /\ y \in 0 .. HEIGHT - 1
    BY <1>1, <1>2
  <2>7. rows[2 * c][y] = Pixel(X + 2 * c, Y + y)
    BY <2>6 DEF rows, Transposed, Cropped
  <2> QED
    BY <2>5, <2>7 DEF b
<1> QED
  BY <1>5, <1>6 DEF c

------------------------------------------------------------------------------
(* Nothing has been sent. *)
LEMMA InitInv == Init => Inv
<1> SUFFICES ASSUME Init PROVE Inv
  OBVIOUS
<1> USE DEF Init
<1>1. PerFrame \in 0 .. PerFrame /\ 0 \in 0 .. COL_PER_PACKET - 1
  BY Sizes
<1>2. columns \in Seq({Column(c) : c \in Nat}) /\ Len(columns) = 0
  BY DEF Init
<1> QED
  BY <1>1, <1>2 DEF Inv, Unloaded

(* A frame inside the game's is laid out; any other ends the client. *)
LEMMA PushInv == Inv /\ Push => Inv'
<1> SUFFICES ASSUME Inv, Push PROVE Inv'
  OBVIOUS
<1>1. /\ offset' \in Int \X Int /\ packet_buf' = NoPacket /\ columns' = <<>>
      /\ at' = at /\ failed' = failed /\ frame_progress = PerFrame
  BY PacketsAssumption DEF Push
<1>2. /\ columns' \in Seq({Column(c) : c \in Nat})' /\ Len(columns') = 0
      /\ \A c \in 1 .. Len(columns') : columns'[c] = Column(c - 1)'
  BY <1>1
<1>3. frame_progress' \in 0 .. PerFrame /\ (Loaded' \/ Unloaded')
  <2>1. CASE InFrame(offset'[1], offset'[2])
    <3>1. /\ pkts' = [p \in 0 .. PerFrame - 1 |->
                        Packet(offset'[1], offset'[2], pal_idx', p)]
          /\ frame_progress' = 0
      BY <2>1 DEF Push
    <3>2. Queued' = 0
      BY <1>1, <3>1, PacketsAssumption DEF Queued
    <3> QED
      BY <1>1, <1>2, <2>1, <3>1, <3>2, Sizes DEF Loaded, InFrame
  <2>2. CASE ~InFrame(offset'[1], offset'[2])
    BY <1>1, <2>2, Sizes DEF Push, Unloaded
  <2> QED
    BY <2>1, <2>2
<1> QED
  BY <1>1, <1>2, <1>3 DEF Inv

(* The watch takes the next packet, and its assert holds. *)
LEMMA AccessFramesInv == Agreement /\ Inv /\ AccessFrames => Inv'
<1> SUFFICES ASSUME Agreement, Inv, AccessFrames PROVE Inv'
  OBVIOUS
<1>1. /\ frame_progress \in 0 .. PerFrame - 1 /\ packet_buf = NoPacket
      /\ frame_progress' = frame_progress + 1
      /\ packet_buf' = pkts[frame_progress] /\ at' = 0
      /\ UNCHANGED <<offset, pal_idx, pkts, columns>>
  BY Sizes DEF AccessFrames, Inv
<1>2. ~failed'
  <2>1. failed' = (MTU # PACKET_SIZE)
    BY Zenon DEF AccessFrames
  <2> QED
    BY <2>1, Zenon DEF Agreement
<1>3. Loaded
  BY <1>1, Sizes DEF Inv, Unloaded
<1>4. packet_buf' # NoPacket
  <2>1. packet_buf' = Packet(offset[1], offset[2], pal_idx, frame_progress)
    BY <1>1, <1>3 DEF Loaded
  <2>2. 0 \in DOMAIN packet_buf'
    BY <2>1, Sizes DEF Packet
  <2>3. DOMAIN NoPacket = 1 .. 0
    BY DEF NoPacket
  <2> QED
    BY <2>2, <2>3
<1>5. Len(columns') = Queued'
  <2>1. Len(columns) = frame_progress * COL_PER_PACKET
    BY <1>1, <1>3 DEF Loaded, Queued
  <2>2. Queued' = (frame_progress' - 1) * COL_PER_PACKET + at'
    BY <1>4 DEF Queued
  <2>3. frame_progress' - 1 = frame_progress
    BY <1>1
  <2>4. frame_progress * COL_PER_PACKET \in Int
    BY <1>1, Sizes, PacketsAssumption, SMT
  <2> QED
    BY <1>1, <2>1, <2>2, <2>3, <2>4
<1>6. Loaded'
  BY <1>1, <1>3, <1>4, <1>5 DEF Loaded, InFrame
<1>7. /\ columns' \in Seq({Column(c) : c \in Nat})'
      /\ \A c \in 1 .. Len(columns') : columns'[c] = Column(c - 1)'
  BY <1>1 DEF Inv, Column
<1>8. /\ frame_progress' \in 0 .. PerFrame /\ at' \in 0 .. COL_PER_PACKET - 1
      /\ offset' \in Int \X Int
  BY <1>1, Sizes DEF Inv
<1> QED
  BY <1>2, <1>6, <1>7, <1>8 DEF Inv

(* What the loop of access_frames cuts out of the packet at hand is the next
   column, with the frame's palette.                                         *)
LEMMA NextColumn ==
  ASSUME Agreement, Inv, packet_buf # NoPacket
  PROVE  [pal    |-> packet_buf[PaletteAt(at)],
          pixels |-> [y \in 0 .. COLUMN_HEIGHT - 1 |->
                        packet_buf[ColumnAt(at) + y]]] = Column(Len(columns))
<1> DEFINE p == frame_progress - 1
<1>1. /\ Loaded /\ p \in 0 .. PerFrame - 1 /\ at \in 0 .. COL_PER_PACKET - 1
      /\ offset[1] \in Int /\ offset[2] \in Int
  BY Sizes DEF Inv, Unloaded, Loaded
<1>2. /\ packet_buf = Packet(offset[1], offset[2], pal_idx, p)
      /\ Len(columns) = p * COL_PER_PACKET + at
  BY <1>1 DEF Loaded, Queued
<1> HIDE DEF p
<1>3. /\ packet_buf[PaletteAt(at)] = Palette(pal_idx)
      /\ \A y \in 0 .. COLUMN_HEIGHT - 1 :
           packet_buf[ColumnAt(at) + y]
             = Pixel(offset[1] + 2 * Len(columns), offset[2] + y)
  BY <1>1, <1>2, Layout
<1> QED
  BY <1>3 DEF Column

(* A column is queued behind the others; after the last of a packet the watch
   waits for another.                                                        *)
LEMMA QueueColumnInv == Agreement /\ Inv /\ QueueColumn => Inv'
<1> SUFFICES ASSUME Agreement, Inv, QueueColumn PROVE Inv'
  OBVIOUS
<1>1. /\ packet_buf # NoPacket
      /\ columns' = Append(columns, Column(Len(columns)))
      /\ at' = (at + 1) % (PACKET_SIZE \div COLUMN_SIZE)
      /\ packet_buf' = IF at' = 0 THEN NoPacket ELSE packet_buf
      /\ UNCHANGED <<offset, pal_idx, pkts, frame_progress, failed>>
  BY NextColumn DEF QueueColumn
<1>2. /\ columns \in Seq({Column(c) : c \in Nat}) /\ Len(columns) \in Nat
      /\ Column(Len(columns)) \in {Column(c) : c \in Nat}
  BY DEF Inv
<1>3. /\ columns' \in Seq({Column(c) : c \in Nat})
      /\ Len(columns') = Len(columns) + 1
      /\ \A c \in 1 .. Len(columns) : columns'[c] = columns[c]
      /\ columns'[Len(columns) + 1] = Column(Len(columns))
  BY <1>1, <1>2, AppendProperties
<1>4. /\ columns' \in Seq({Column(c) : c \in Nat})'
      /\ \A c \in 1 .. Len(columns') : columns'[c] = Column(c - 1)'
  <2>1. \A c \in Int : Column(c)' = Column(c)
    BY <1>1 DEF Column
  <2>2. ASSUME NEW c \in 1 .. Len(columns') PROVE columns'[c] = Column(c - 1)
    <3>1. CASE c \in 1 .. Len(columns)
      BY <1>3, <3>1 DEF Inv
    <3>2. CASE c = Len(columns) + 1
      BY <1>2, <1>3, <3>2
    <3> QED
      BY <1>2, <1>3, <3>1, <3>2
  <2>3. {Column(c) : c \in Nat}' = {Column(c) : c \in Nat}
    BY <2>1
  <2> QED
    BY <1>2, <1>3, <2>1, <2>2, <2>3
<1>5. /\ at \in 0 .. COL_PER_PACKET - 1
      /\ at' = IF at = COL_PER_PACKET - 1 THEN 0 ELSE at + 1
  <2>1. PACKET_SIZE \div COLUMN_SIZE = COL_PER_PACKET
    BY Sizes, Zenon DEF Agreement
  <2>2. at \in 0 .. COL_PER_PACKET - 1
    BY DEF Inv
  <2>3. at' = (at + 1) % COL_PER_PACKET
    BY <1>1, <2>1, Zenon
  <2> QED
    BY <2>2, <2>3, Sizes
<1>6. Loaded
  BY <1>1 DEF Inv, Unloaded
<1>7. Queued' = Queued + 1
  <2> DEFINE before == (frame_progress - 1) * COL_PER_PACKET
  <2>1. /\ before \in Int /\ COL_PER_PACKET \in Nat \ {0}
        /\ frame_progress * COL_PER_PACKET = before + COL_PER_PACKET
    <3>1. \A a, b \in Int : (a - 1) * b \in Int /\ a * b = (a - 1) * b + b
      BY SMT
    <3>2. frame_progress \in Int /\ COL_PER_PACKET \in Nat \ {0}
      BY Sizes DEF Inv
    <3> QED
      BY <3>1, <3>2
  <2>2. Queued = before + at
    BY <1>1 DEF Queued
  <2>3. Queued' = IF at' = 0 THEN frame_progress * COL_PER_PACKET
                             ELSE before + at'
    BY <1>1 DEF Queued
  <2> HIDE DEF before
  <2> QED
    BY <1>5, <2>1, <2>2, <2>3
<1>8. Loaded'
  BY <1>1, <1>3, <1>6, <1>7 DEF Loaded, InFrame
<1>9. /\ frame_progress' \in 0 .. PerFrame /\ at' \in 0 .. COL_PER_PACKET - 1
      /\ offset' \in Int \X Int /\ ~failed'
  BY <1>1, <1>5, Sizes DEF Inv
<1> QED
  BY <1>4, <1>8, <1>9 DEF Inv

(* Every step of the client and the watch preserves the invariant. *)
LEMMA NextInv == Agreement /\ Inv /\ [Next]_vars => Inv'
<1>1. Inv /\ UNCHANGED vars => Inv'
  BY DEF Inv, Loaded, Unloaded, Queued, Column, InFrame, vars
<1> QED
  BY <1>1, PushInv, AccessFramesInv, QueueColumnInv DEF Next

(* What the client lays out in frame_buffer_t::push the firmware finds in
   bt_t::access_frames: its column c is column X + 2c of the game's frame from Y
   downwards, with the frame's palette, and its assert holds, if the two
   programs' numbers agree.                                                  *)
THEOREM WindowArrives == ASSUME Agreement PROVE Spec => []ColumnsOfWindow
<1>1. Inv => ColumnsOfWindow
  <2> SUFFICES ASSUME Inv, NEW c \in 1 .. Len(columns)
               PROVE  /\ columns[c].pal = Palette(pal_idx)
                      /\ \A y \in 0 .. COLUMN_HEIGHT - 1 :
                           /\ offset[1] + 2 * (c - 1) \in 0 .. FRAME_WIDTH - 1
                           /\ offset[2] + y \in 0 .. FRAME_HEIGHT - 1
                           /\ columns[c].pixels[y]
                                = Pixel(offset[1] + 2 * (c - 1), offset[2] + y)
    BY DEF ColumnsOfWindow, Inv
  <2>1. columns[c] = Column(c - 1)
    BY DEF Inv
  <2>2. Loaded /\ Len(columns) \in Nat /\ offset[1] \in Int /\ offset[2] \in Int
    BY DEF Inv, Unloaded
  <2>3. c =< WIDTH
    <3>1. Queued =< WIDTH
      <4>1. \A a, b, n \in Nat : a =< n => a * b =< n * b
        BY SMT
      <4>2. /\ frame_progress \in 0 .. PerFrame
            /\ at \in 0 .. COL_PER_PACKET - 1
            /\ packet_buf # NoPacket => frame_progress > 0
        BY <2>2 DEF Inv, Loaded
      <4>3. frame_progress * COL_PER_PACKET =< WIDTH
        BY <4>1, <4>2, Sizes
      <4>4. \A a, b \in Int : (a - 1) * b \in Int /\ a * b = (a - 1) * b + b
        BY SMT
      <4>5. /\ (frame_progress - 1) * COL_PER_PACKET \in Int
            /\ frame_progress * COL_PER_PACKET
                 = (frame_progress - 1) * COL_PER_PACKET + COL_PER_PACKET
        BY <4>2, <4>4, Sizes
      <4> QED
        BY <4>2, <4>3, <4>5, Sizes DEF Queued
    <3> QED
      BY <2>2, <3>1, Sizes DEF Loaded
  <2>4. ASSUME NEW y \in 0 .. COLUMN_HEIGHT - 1
        PROVE  /\ offset[1] + 2 * (c - 1) \in 0 .. FRAME_WIDTH - 1
               /\ offset[2] + y \in 0 .. FRAME_HEIGHT - 1
    <3>1. /\ offset[1] >= 0 /\ offset[1] + WIDTH * 2 =< FRAME_WIDTH
          /\ offset[2] >= 0 /\ offset[2] + HEIGHT =< FRAME_HEIGHT
      BY <2>2, Zenon DEF Loaded, InFrame
    <3>2. c \in 1 .. WIDTH /\ y \in 0 .. HEIGHT - 1
      BY <2>2, <2>3, Sizes DEF Agreement
    <3>3. \A x, w, f, k \in Int :
            x >= 0 /\ x + w * 2 =< f /\ k \in 1 .. w
              => x + 2 * (k - 1) \in 0 .. f - 1
      OBVIOUS
    <3>4. \A x, h, f, k \in Int :
            x >= 0 /\ x + h =< f /\ k \in 0 .. h - 1 => x + k \in 0 .. f - 1
      OBVIOUS
    <3>5. /\ WIDTH \in Int /\ HEIGHT \in Int /\ c \in Int /\ y \in Int
          /\ FRAME_WIDTH \in Int /\ FRAME_HEIGHT \in Int
      BY <2>2, <3>2, Sizes
    <3> QED
      BY <2>2, <3>1, <3>2, <3>3, <3>4, <3>5
  <2> QED
    BY <2>1, <2>4 DEF Column
<1>2. Inv /\ [Next]_vars => Inv'
  BY NextInv
<1> QED
  BY <1>1, <1>2, InitInv, PTL DEF Spec
==============================================================================
