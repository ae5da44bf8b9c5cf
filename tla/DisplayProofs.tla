---------------------------- MODULE DisplayProofs ----------------------------
(***************************************************************************)
(* The safety of the display pipeline for every ring, frame and packet     *)
(* size, and that it implements ColumnStream.  None of the properties is   *)
(* inductive: that the interrupt may start a transfer depends on which of  *)
(* the two contexts is asleep, that queue_column writes a free slot        *)
(* depends on where the cursors stand.  Inv says so; Place adds which      *)
(* columns the ring holds and where the panel's pointer is.                *)
(***************************************************************************)
EXTENDS MCDisplay, SequenceTheorems, TLAPS

(* The cursor of the host task runs ahead of that of the readers by the slots
   written and not yet freed.                                                *)
Wrap(i) == IF i >= RING_BUFFER_SIZE THEN i - RING_BUFFER_SIZE ELSE i
Written == InUse + (IF main = "post" THEN 1 ELSE 0)
HeadLeads == output_head = Wrap(output_tail + Written)

(* Either the task runs and the bus is idle, or the task sleeps until the end
   of the chain of transfers, which is when spi_sem_ gets its only token.     *)
Baton ==
  /\ task # "wait" => spi = "idle" /\ spi_sem = 0
  /\ task = "wait" => (spi = "idle" <=> spi_sem = 1)
  /\ spi = "column" => src = output_tail

(* The pin is low from RAMWR to the first column, high until the next RAMWR. *)
PinLevel ==
  /\ state = "RAMWR" => col_count = 0
  /\ spi = "ramwr" => dc = 0 /\ col_count = 0 /\ state = "FRAME"
  /\ spi = "column" => dc = 1
  /\ spi = "idle" /\ state = "FRAME" => dc = 1

PacketLeft == main # "idle" => left > 0

Inv == /\ TypeOK
       /\ TokensConserved
       /\ HeadLeads
       /\ Baton
       /\ PinLevel
       /\ PacketLeft
       /\ NoAssert

------------------------------------------------------------------------------
(* A cursor moves to the next slot, and from the last one to the first. *)
LEMMA NextSlotWraps ==
  ASSUME NEW i \in Slots
  PROVE  /\ NextSlot(i) \in Slots
         /\ NextSlot(i) = IF i = RING_BUFFER_SIZE - 1 THEN 0 ELSE i + 1
  BY DisplayAssumption, SMT DEF NextSlot, Slots

(* A remainder lies below its modulus. *)
LEMMA ModBound ==
  ASSUME NEW a \in Nat, NEW b \in Nat \ {0}
  PROVE  a % b \in 0 .. b - 1
  BY SMT

(* A frame is at least two panel columns wide. *)
LEMMA WidthPositive == SCREEN_WIDTH \in Nat \ {0}
<1>1. \A a, b \in Nat \ {0} : a * b \in Nat \ {0}
  BY SMT
<1> QED
  BY <1>1, DisplayAssumption

(* What both contexts do with a pending reset leaves col_count_ in range. *)
LEMMA ResetBound ==
  ASSUME TypeOK
  PROVE  CountAfterReset \in 0 .. col_count
  BY DisplayAssumption DEF TypeOK, CountAfterReset

(* The state display_t::init leaves satisfies the invariant. *)
LEMMA InitInv == Init => Inv
<1> SUFFICES ASSUME Init PROVE Inv
  OBVIOUS
<1> USE DEF Init, InitialProducer
<1>1. 0 \in Slots /\ 0 \in Columns
  BY DisplayAssumption, SMT DEF Slots, Columns
<1>2. output \in [Slots -> Columns]
  BY <1>1
<1>3. /\ 0 \in 0 .. PAL_SIZE - 1 /\ 0 \in 0 .. PanelColumns - 1
      /\ 0 \in 0 .. SCREEN_WIDTH - 1 /\ 0 \in 0 .. COL_PER_PACKET
      /\ 0 \in 0 .. RING_BUFFER_SIZE
      /\ RING_BUFFER_SIZE \in 0 .. RING_BUFFER_SIZE
  BY DisplayAssumption, WidthPositive, SMT DEF PanelColumns
<1>4. TypeOK
  BY <1>1, <1>2, <1>3, Zenon DEF TypeOK
<1>5. TokensConserved /\ HeadLeads
  BY DisplayAssumption, SMT
  DEF TokensConserved, HeadLeads, Wrap, Written, InUse, Held, Filling
<1> QED
  BY <1>4, <1>5 DEF Inv, Baton, PinLevel, PacketLeft, NoAssert

(* The task takes a queued column: the slot stays in use. *)
LEMMA TaskConsumeInv == Inv /\ TaskConsume => Inv'
  BY DisplayAssumption, SMT
  DEF TaskConsume, Inv, TypeOK, TokensConserved, HeadLeads, Baton, PinLevel,
      PacketLeft, NoAssert, Wrap, Written, InUse, Held, Filling, Slots,
      ring, frame, panel, client, history

(* The task starts a chain of transfers on an idle bus. *)
LEMMA TaskStartInv == Inv /\ TaskStart => Inv'
<1> SUFFICES ASSUME Inv, TaskStart PROVE Inv'
  OBVIOUS
<1> USE DEF Inv, TaskStart, Transmit, sems, ring, client
<1>1. (CountAfterReset + 1) % SCREEN_WIDTH \in 0 .. SCREEN_WIDTH - 1
  BY ResetBound, ModBound, WidthPositive DEF TypeOK
<1>2. spi = "idle"
  BY DEF Baton
<1>3. TypeOK'
  <2>1. homed' \in BOOLEAN /\ failed' \in BOOLEAN
    BY DEF TypeOK, Homed
  <2>2. CountAfterReset \in 0 .. SCREEN_WIDTH - 1
    BY ResetBound, WidthPositive, SMT DEF TypeOK
  <2> QED
    BY <1>1, <2>1, <2>2, SMT DEF TypeOK
<1>4. TokensConserved' /\ HeadLeads'
  BY DEF TokensConserved, HeadLeads, Wrap, Written, InUse, Held, Filling
<1>5. Baton'
  BY DEF Baton
<1>6. NoAssert'
  BY <1>2, Zenon DEF NoAssert
<1>7. PinLevel'
  BY <1>2, ResetBound, SMT DEF PinLevel, CountAfterReset
<1> QED
  BY <1>3, <1>4, <1>5, <1>6, <1>7 DEF PacketLeft

(* The task takes the token of the interrupt that found the ring empty. *)
LEMMA TaskWaitInv == Inv /\ TaskWait => Inv'
  BY DisplayAssumption, SMT
  DEF TaskWait, Inv, TypeOK, TokensConserved, HeadLeads, Baton, PinLevel,
      PacketLeft, NoAssert, Wrap, Written, InUse, Held, Filling, Slots,
      ring, frame, panel, client, history

(* The task frees the slot at hand. *)
LEMMA TaskAdvanceInv == Inv /\ TaskAdvance => Inv'
<1> SUFFICES ASSUME Inv, TaskAdvance PROVE Inv'
  OBVIOUS
<1> USE DEF Inv, TaskAdvance, ReleaseProducer, frame, panel, client, history
<1>1. /\ NextSlot(output_tail) \in Slots
      /\ NextSlot(output_tail) =
           IF output_tail = RING_BUFFER_SIZE - 1 THEN 0 ELSE output_tail + 1
  BY NextSlotWraps DEF TypeOK
<1>2. TokensConserved'
  BY SMT DEF TokensConserved, InUse, Held, Filling, TypeOK
<1>3. TypeOK'
  BY <1>1, <1>2, SMT DEF TypeOK, TokensConserved, InUse, Held, Filling
<1>4. HeadLeads'
  BY <1>1, DisplayAssumption, SMT
  DEF HeadLeads, Wrap, Written, InUse, Held, Filling, TokensConserved, TypeOK,
      Slots
<1> QED
  BY <1>2, <1>3, <1>4 DEF Baton, PinLevel, PacketLeft, NoAssert

(* The interrupt, in every case of its switch. *)
LEMMA SpiInterruptInv == Inv /\ SpiInterrupt => Inv'
<1> SUFFICES ASSUME Inv, SpiInterrupt PROVE Inv'
  OBVIOUS
<1> USE DEF Inv, SpiInterrupt, Transmit, FrameDc, BusyInCallback, client
<1>1. /\ task = "wait" /\ spi # "idle" /\ spi_sem = 0
      /\ task' = task /\ main' = main /\ left' = left
  BY Zenon DEF Baton, TypeOK, sems
<1>2. ram' \in 0 .. PanelColumns - 1
  <2>1. (ram + 1) % PanelColumns \in 0 .. PanelColumns - 1
    BY ModBound, WidthPositive, SMT DEF PanelColumns, TypeOK
  <2> QED
    BY <2>1, WidthPositive, SMT DEF Drawn, PanelColumns, TypeOK
<1>3. /\ NextSlot(output_tail) \in Slots
      /\ NextSlot(output_tail) =
           IF output_tail = RING_BUFFER_SIZE - 1 THEN 0 ELSE output_tail + 1
  BY NextSlotWraps DEF TypeOK
<1>4. CountAfterReset \in 0 .. col_count /\ col_count \in 0 .. SCREEN_WIDTH - 1
  BY ResetBound DEF TypeOK
<1>5. Homed \in BOOLEAN /\ SCREEN_WIDTH \in Nat \ {0}
  BY WidthPositive DEF TypeOK, Homed
<1>6. CASE InterruptRamwr
  <2>1. failed' = FALSE
    BY <1>6, Zenon DEF InterruptRamwr, NoAssert
  <2> QED
    BY <1>1, <1>2, <1>6, <2>1, SMT
    DEF InterruptRamwr, TypeOK, TokensConserved, HeadLeads, Baton, PinLevel,
        PacketLeft, NoAssert, Wrap, Written, InUse, Held, Filling, sems
<1>7. CASE InterruptRepeat
  <2>1. failed' = FALSE
    BY <1>7, Zenon DEF InterruptRepeat, SendColumn, NoAssert
  <2>2. col_count' \in 0 .. SCREEN_WIDTH - 1 /\ state' \in {"RAMWR", "FRAME"}
    BY <1>4, <1>5, <1>7 DEF InterruptRepeat, SendColumn
  <2>3. TypeOK'
    <3>1. /\ spi' = "column" /\ src' = output_tail /\ col_acquired' = FALSE
          /\ dc' \in {0, 1}
          /\ UNCHANGED <<producer, consumer, spi_sem, output_tail, reset,
                         homed>>
      BY <1>7, SMT DEF InterruptRepeat, SendColumn, TypeOK, sems
    <3> QED
      BY <1>2, <2>1, <2>2, <3>1, Zenon DEF TypeOK
  <2>4. TokensConserved' /\ HeadLeads'
    BY <1>1, <1>7, SMT
    DEF InterruptRepeat, TokensConserved, HeadLeads, Wrap, Written, InUse, Held,
        Filling, sems
  <2>5. Baton' /\ PinLevel' /\ PacketLeft'
    BY <1>1, <1>4, <1>7, SMT
    DEF InterruptRepeat, SendColumn, Baton, PinLevel, PacketLeft, TypeOK, sems
  <2> QED
    BY <2>1, <2>3, <2>4, <2>5 DEF NoAssert
<1>8. CASE InterruptNext
  <2>1. failed' = FALSE
    BY <1>8, Zenon DEF InterruptNext, SendColumn, NoAssert
  <2>2. TokensConserved'
    BY <1>1, <1>8, SMT
    DEF InterruptNext, ReleaseProducer, TokensConserved, InUse, Held, Filling,
        TypeOK
  <2>3. /\ producer' \in 0 .. RING_BUFFER_SIZE
        /\ consumer' \in 0 .. RING_BUFFER_SIZE
    BY <1>1, <1>8, <2>2, SMT
    DEF InterruptNext, ReleaseProducer, TypeOK, TokensConserved, InUse, Held,
        Filling
  <2>4. col_count' \in 0 .. SCREEN_WIDTH - 1 /\ state' \in {"RAMWR", "FRAME"}
    BY <1>4, <1>5, <1>8 DEF InterruptNext, SendColumn
  <2>5. TypeOK'
    <3>1. /\ spi' = "column" /\ src' = NextSlot(output_tail)
          /\ col_acquired' = FALSE /\ reset' = TRUE /\ homed' = Homed
          /\ output_tail' = NextSlot(output_tail) /\ spi_sem' = spi_sem
      BY <1>8, Zenon DEF InterruptNext, SendColumn
    <3>2. dc' \in {0, 1}
      BY <1>8, SMT DEF InterruptNext, TypeOK
    <3> QED
      BY <1>2, <1>3, <1>5, <2>1, <2>3, <2>4, <3>1, <3>2, Zenon DEF TypeOK
  <2>6. HeadLeads'
    BY <1>1, <1>3, <1>8, DisplayAssumption, SMT
    DEF InterruptNext, HeadLeads, Wrap, Written, InUse, Held, Filling,
        TokensConserved, TypeOK, Slots
  <2>7. Baton' /\ PinLevel' /\ PacketLeft'
    BY <1>1, <1>4, <1>8, SMT
    DEF InterruptNext, SendColumn, Baton, PinLevel, PacketLeft, TypeOK
  <2> QED
    BY <2>1, <2>2, <2>5, <2>6, <2>7 DEF NoAssert
<1>9. CASE InterruptStarved
  <2>1. col_count' \in 0 .. SCREEN_WIDTH - 1
    BY <1>4, <1>5, <1>9 DEF InterruptStarved
  <2>2. TypeOK'
    <3>1. /\ spi' = "idle" /\ spi_sem' = 1 /\ reset' = TRUE /\ homed' = Homed
          /\ UNCHANGED <<producer, consumer, output_tail, state, col_acquired,
                         src, failed>>
      BY <1>1, <1>9, SMT DEF InterruptStarved, WakeTask
    <3>2. dc' \in {0, 1}
      BY <1>9, SMT DEF InterruptStarved, TypeOK
    <3> QED
      BY <1>2, <1>5, <2>1, <3>1, <3>2, Zenon DEF TypeOK
  <2>3. TokensConserved' /\ HeadLeads'
    BY <1>1, <1>9, SMT
    DEF InterruptStarved, TokensConserved, HeadLeads, Wrap, Written, InUse,
        Held, Filling
  <2>4. Baton' /\ PinLevel' /\ PacketLeft' /\ NoAssert'
    BY <1>1, <1>4, <1>9, SMT
    DEF InterruptStarved, WakeTask, Baton, PinLevel, PacketLeft, NoAssert,
        TypeOK
  <2> QED
    BY <2>2, <2>3, <2>4
<1> QED
  BY <1>6, <1>7, <1>8, <1>9

(* A packet arrives: only the host task's own state changes. *)
LEMMA AccessFramesInv == Inv /\ AccessFrames => Inv'
  BY DisplayAssumption, SMT
  DEF AccessFrames, HostRuns, Inv, TypeOK, TokensConserved, HeadLeads, Baton,
      PinLevel, PacketLeft, NoAssert, Wrap, Written, InUse, Held, Filling,
      sems, ring, frame, panel, client, history

(* The three steps of queue_column: the head moves when the slot is written,
   the slot is in use when it is posted.                                     *)
LEMMA QueueColumnInv == Inv /\ QueueColumn => Inv'
<1> SUFFICES ASSUME Inv, QueueColumn PROVE Inv'
  OBVIOUS
<1> USE DEF Inv, HostRuns, sems, ring, frame, panel, client, history
<1>1. CASE QueuePend
  BY <1>1, SMT
  DEF QueuePend, TypeOK, TokensConserved, HeadLeads, Baton, PinLevel,
      PacketLeft, NoAssert, Wrap, Written, InUse, Held, Filling
<1>2. CASE QueueLut
  <2>1. /\ NextSlot(output_head) \in Slots
        /\ NextSlot(output_head) =
             IF output_head = RING_BUFFER_SIZE - 1 THEN 0 ELSE output_head + 1
    BY NextSlotWraps DEF TypeOK
  <2>2. output' \in [Slots -> Columns]
    BY <1>2 DEF QueueLut, TypeOK
  <2>3. TypeOK'
    BY <1>2, <2>1, <2>2 DEF QueueLut, TypeOK
  <2>4. HeadLeads'
    BY <1>2, <2>1, DisplayAssumption, SMT
    DEF QueueLut, HeadLeads, Wrap, Written, InUse, Held, Filling,
        TokensConserved, TypeOK, Slots
  <2> QED
    BY <1>2, <2>3, <2>4, SMT
    DEF QueueLut, TokensConserved, Baton, PinLevel, PacketLeft, NoAssert, InUse,
        Held, Filling
<1>3. CASE QueuePost
  <2>1. (next + 1) % ORIGINAL_SCREEN_WIDTH \in Columns
    BY ModBound, DisplayAssumption DEF Columns, TypeOK
  <2>2. TokensConserved' /\ HeadLeads'
    BY <1>3, SMT
    DEF QueuePost, TokensConserved, HeadLeads, Wrap, Written, InUse, Held,
        Filling, TypeOK
  <2>3. consumer' \in 0 .. RING_BUFFER_SIZE
    BY <1>3, <2>2, SMT
    DEF QueuePost, TokensConserved, InUse, Held, Filling, TypeOK
  <2>4. left' \in 0 .. COL_PER_PACKET /\ PacketLeft'
    BY <1>3, DisplayAssumption, SMT DEF QueuePost, PacketLeft, TypeOK
  <2>5. TypeOK'
    BY <1>3, <2>1, <2>3, <2>4 DEF QueuePost, TypeOK
  <2> QED
    BY <1>3, <2>2, <2>4, <2>5 DEF QueuePost, Baton, PinLevel, NoAssert
<1> QED
  BY <1>1, <1>2, <1>3 DEF QueueColumn

(* A reset, by the client or of the BLE host, touches no cursor or token. *)
LEMMA ResetInv == Inv /\ (AccessReset \/ OnReset) => Inv'
<1> SUFFICES ASSUME Inv, AccessReset \/ OnReset PROVE Inv'
  OBVIOUS
<1> USE DEF Inv, Reset, HostRuns, sems, ring, frame, panel
<1>1. Reset
  BY DEF AccessReset, OnReset
<1>2. live' \in BOOLEAN /\ next' \in Columns /\ clean' \in BOOLEAN
  <2>1. 0 \in Columns
    BY DisplayAssumption, SMT DEF Columns
  <2>2. CASE AccessReset
    BY <2>1, <2>2, Zenon DEF AccessReset
  <2>3. CASE OnReset
    BY <2>3, Zenon DEF OnReset, TypeOK
  <2> QED
    BY <2>2, <2>3
<1>3. TypeOK'
  <2>1. 0 \in 0 .. PAL_SIZE - 1
    BY DisplayAssumption, SMT
  <2> QED
    BY <1>1, <1>2, <2>1, Zenon DEF TypeOK
<1> QED
  BY <1>1, <1>3
  DEF TokensConserved, HeadLeads, Baton, PinLevel, PacketLeft, NoAssert, Wrap,
      Written, InUse, Held, Filling

(* However a palette is split into writes, memcpy stays inside palette_. *)
LEMMA AccessPalsInv == Inv /\ AccessPals => Inv'
<1> SUFFICES ASSUME Inv, AccessPals PROVE Inv'
  OBVIOUS
<1> USE DEF Inv, sems, ring, frame, panel, client, history
<1>1. PICK size \in PAL_WRITES :
        pal_progress' = (pal_progress + Kept(size)) % PAL_SIZE
  BY DEF AccessPals
<1>2. pal_progress + Kept(size) \in Nat
  BY DisplayAssumption, SMT DEF Kept, TypeOK
<1>3. pal_progress' \in 0 .. PAL_SIZE - 1
  BY <1>1, <1>2, ModBound, DisplayAssumption
<1>4. TypeOK'
  BY <1>3 DEF AccessPals, TypeOK
<1> QED
  BY <1>4
  DEF AccessPals, TokensConserved, HeadLeads, Baton, PinLevel, PacketLeft,
      NoAssert, Wrap, Written, InUse, Held, Filling

(* Nothing the invariant speaks of changes in a stuttering step. *)
LEMMA StutterInv == Inv /\ UNCHANGED vars => Inv'
  BY DEF Inv, TypeOK, TokensConserved, HeadLeads, Baton, PinLevel, PacketLeft,
         NoAssert, Wrap, Written, InUse, Held, Filling, vars, sems, ring, frame,
         panel, client, history

(* Every step of the system preserves the invariant. *)
LEMMA NextInv == Inv /\ [Next]_vars => Inv'
  BY TaskConsumeInv, TaskStartInv, TaskWaitInv, TaskAdvanceInv, SpiInterruptInv,
     AccessFramesInv, QueueColumnInv, ResetInv, AccessPalsInv, StutterInv
  DEF Next, DisplayTask, HostTask

(* The invariant the theorems below rest on holds in every behaviour. *)
THEOREM Invariance == Spec => []Inv
  BY InitInv, NextInv, PTL DEF Spec

------------------------------------------------------------------------------
(* All cursors and counters keep their range: no access outside the ring or
   outside palette_, whatever the client writes and however resets fall.     *)
THEOREM TypeCorrect == Spec => []TypeOK
<1>1. Inv => TypeOK
  BY DEF Inv
<1> QED
  BY <1>1, Invariance, PTL

(* producer_ and consumer_ never lose or gain a token. *)
THEOREM Conservation == Spec => []TokensConserved
<1>1. Inv => TokensConserved
  BY DEF Inv
<1> QED
  BY <1>1, Invariance, PTL

(* queue_column writes a slot that no queued column and no transfer reads. *)
THEOREM SlotSafety == Spec => []SlotStable
<1>1. Inv => SlotStable
  <2> SUFFICES ASSUME Inv, main = "lut" PROVE SlotStable
    BY DEF SlotStable
  <2>1. ~SlotInUse(output_head)
    BY DisplayAssumption, SMT
    DEF Inv, TypeOK, TokensConserved, HeadLeads, SlotInUse, Wrap, Written,
        InUse, Held, Filling, Slots
  <2>2. spi = "column" => SlotInUse(src)
    BY DisplayAssumption, SMT
    DEF Inv, TypeOK, Baton, SlotInUse, InUse, Held, Slots
  <2> QED
    BY <2>1, <2>2 DEF SlotStable
<1> QED
  BY <1>1, Invariance, PTL

(* A column's slot is not given back while the SPI still reads it. *)
THEOREM TransferSafety == Spec => []TransferHoldsSlot
<1>1. Inv => TransferHoldsSlot
  BY DEF Inv, Baton, TransferHoldsSlot
<1> QED
  BY <1>1, Invariance, PTL

(* Commands go out with the pin low, pixels with the pin high. *)
THEOREM PinSafety == Spec => []DcMatches
<1>1. Inv => DcMatches
  BY DEF Inv, PinLevel, DcMatches
<1> QED
  BY <1>1, Invariance, PTL

(* The bus is never asked for a transfer while one is in flight. *)
THEOREM BusSafety == Spec => []NoAssert
<1>1. Inv => NoAssert
  BY DEF Inv
<1> QED
  BY <1>1, Invariance, PTL

------------------------------------------------------------------------------
(* Where a column is drawn.  Inv does not say it: RightPlace follows from where
   the panel's pointer is, from the order of the columns in the ring, and from
   which of them col_count_ is due for; Place is the conjunction of the three,
   as they stand at every point of a transfer.                               *)

(* The column after another in the frames of a stream. *)
Succ(column) == (column + 1) % ORIGINAL_SCREEN_WIDTH

(* The j-th of the queued columns, and of those with the one to come. *)
Queued(j) == output[Wrap(output_tail + Held + j)]
Coming(j) == IF j = consumer THEN next ELSE Queued(j)

(* The panel column that is being written. *)
Last == (IF col_count = 0 THEN SCREEN_WIDTH ELSE col_count) - 1

(* A received column is begun and ended at a multiple of REPEAT. *)
Aligned ==
  /\ spi = "idle" => col_count % REPEAT = 0
  /\ task = "wait" /\ spi = "idle" => ~col_acquired
  /\ spi = "column" /\ col_acquired => col_count % REPEAT # 0
  /\ spi = "column" => (state = "RAMWR" <=> col_count = 0)

(* homed: the panel's pointer is where col_count_ says. *)
Pointer ==
  homed => /\ spi = "column" => ram = Last
           /\ spi = "idle" /\ state = "FRAME" => ram = col_count

(* The slot that was written and is not posted holds the column at hand; clean:
   the queued columns and the one to come follow each other.                 *)
Chain ==
  /\ main = "post" => Queued(consumer) = next
  /\ clean => \A j \in 0 .. consumer - 1 : Coming(j + 1) = Succ(Coming(j))

(* clean: the first column to come is the one col_count_ needs next. *)
Phase ==
  clean /\ live =>
    /\ ~reset /\ task # "start" => Coming(0) = 0
    /\ spi = "idle" /\ task # "start" => Coming(0) = CountAfterReset \div REPEAT
    /\ task = "start" => /\ output[output_tail] = CountAfterReset \div REPEAT
                         /\ Coming(0) = Succ(output[output_tail])
    /\ spi = "ramwr" /\ reset =>
         IF col_acquired THEN output[output_tail] = 0 /\ Coming(0) = Succ(0)
                         ELSE Coming(0) = 0
    /\ spi = "column" /\ reset => /\ output[output_tail] = Last \div REPEAT
                                  /\ Coming(0) = Succ(output[output_tail])

(* clean: without a client nothing is queued, and a reset is pending as long as
   a column of the last one is drawn.                                        *)
Silent ==
  clean /\ ~live => /\ consumer = 0 /\ main = "idle" /\ task # "start"
                    /\ spi # "idle" => ~reset

Place == Aligned /\ Pointer /\ Chain /\ Phase /\ Silent

(* A number is its quotient times the divisor and the remainder ... *)
LEMMA DivMod ==
  ASSUME NEW a \in Nat, NEW b \in Nat \ {0}
  PROVE  /\ a = b * (a \div b) + (a % b)
         /\ a \div b \in Nat /\ a % b \in 0 .. b - 1
<1> DEFINE q == a \div b
           r == a % b
<1>1. q \in Nat /\ r \in 0 .. b - 1
  BY SMT
<1>2. a = b * q + r
  BY SMT
<1> QED
  BY <1>1, <1>2

(* ... which no other quotient and remainder give. *)
LEMMA DivModUnique ==
  ASSUME NEW b \in Nat \ {0}, NEW q \in Nat, NEW r \in 0 .. b - 1
  PROVE  (b * q + r) \div b = q /\ (b * q + r) % b = r
  BY SMT

(* The remainder of the next number. *)
LEMMA ModSucc ==
  ASSUME NEW a \in Nat, NEW b \in Nat \ {0, 1}
  PROVE  (a + 1) % b = IF a % b = b - 1 THEN 0 ELSE (a % b) + 1
<1> DEFINE q == a \div b
           r == a % b
<1>1. a = b * q + r /\ q \in Nat /\ r \in 0 .. b - 1
  BY DivMod
<1> HIDE DEF q, r
<1>2. CASE r = b - 1
  <2>1. a + 1 = b * (q + 1) + 0 /\ q + 1 \in Nat /\ 0 \in 0 .. b - 1
    BY <1>1, <1>2, SMT
  <2>2. (b * (q + 1) + 0) % b = 0
    BY <2>1, DivModUnique
  <2> QED
    BY <2>1, <2>2, <1>2 DEF r
<1>3. CASE r # b - 1
  <2>1. a + 1 = b * q + (r + 1) /\ r + 1 \in 0 .. b - 1
    BY <1>1, <1>3, SMT
  <2>2. (b * q + (r + 1)) % b = r + 1
    BY <2>1, <1>1, DivModUnique
  <2> QED
    BY <2>1, <2>2, <1>3 DEF r
<1> QED
  BY <1>2, <1>3

(* The quotient of the number before. *)
LEMMA DivPred ==
  ASSUME NEW a \in Nat \ {0}, NEW b \in Nat \ {0, 1}
  PROVE  (a - 1) \div b = IF a % b = 0 THEN (a \div b) - 1 ELSE a \div b
  BY SMT

(* The quotient of a number below a multiple. *)
LEMMA DivBound ==
  ASSUME NEW a \in Nat, NEW b \in Nat \ {0, 1}, NEW n \in Nat, a < b * n
  PROVE  a \div b < n
  BY SMT

(* The remainder and the quotient of a multiple. *)
LEMMA Multiple ==
  ASSUME NEW n \in Nat, NEW b \in Nat \ {0, 1}
  PROVE  (b * n) % b = 0 /\ (b * n) \div b = n
  BY SMT

(* A frame is drawn from whole columns: it does not end with the first copy. *)
LEMMA FirstCopy ==
  ASSUME NEW c \in 0 .. SCREEN_WIDTH - 1, c % REPEAT = 0
  PROVE  /\ c + 1 \in 1 .. SCREEN_WIDTH - 1
         /\ (c + 1) % SCREEN_WIDTH = c + 1
         /\ (c + 1) % REPEAT = 1
<1>1. (c + 1) % REPEAT = 1
  BY ModSucc, DisplayAssumption
<1>2. SCREEN_WIDTH % REPEAT = 0
  BY Multiple, DisplayAssumption
<1>3. c + 1 # SCREEN_WIDTH
  BY <1>1, <1>2
<1>4. c + 1 \in 1 .. SCREEN_WIDTH - 1
  BY <1>3, WidthPositive
<1>5. (c + 1) % SCREEN_WIDTH = c + 1
  BY <1>4, WidthPositive
<1> QED
  BY <1>1, <1>4, <1>5

(* Column 0 is drawn from index 0, and the last from the last. *)
LEMMA FrameEnds ==
  /\ 0 % REPEAT = 0 /\ 0 \div REPEAT = 0
  /\ (SCREEN_WIDTH - 1) \div REPEAT = ORIGINAL_SCREEN_WIDTH - 1
  /\ Succ(ORIGINAL_SCREEN_WIDTH - 1) = 0
<1>1. /\ SCREEN_WIDTH % REPEAT = 0
      /\ SCREEN_WIDTH \div REPEAT = ORIGINAL_SCREEN_WIDTH
  BY Multiple, DisplayAssumption
<1>2. (SCREEN_WIDTH - 1) \div REPEAT = ORIGINAL_SCREEN_WIDTH - 1
  BY <1>1, DivPred, WidthPositive, DisplayAssumption
<1>3. 0 % REPEAT = 0 /\ 0 \div REPEAT = 0
  BY DisplayAssumption
<1>4. Succ(ORIGINAL_SCREEN_WIDTH - 1) = 0
  BY DisplayAssumption DEF Succ
<1> QED
  BY <1>2, <1>3, <1>4

(* The column of an index is drawn where the one before it ends. *)
LEMMA NextColumn ==
  ASSUME NEW c \in 1 .. SCREEN_WIDTH - 1, c % REPEAT = 0
  PROVE  Succ((c - 1) \div REPEAT) = c \div REPEAT
<1>1. c \in Nat \ {0} /\ REPEAT \in Nat \ {0, 1}
  BY WidthPositive, DisplayAssumption
<1>2. (c - 1) \div REPEAT = (c \div REPEAT) - 1
  BY <1>1, DivPred
<1>3. c \div REPEAT \in Nat
  BY <1>1, DivMod
<1>4. c \div REPEAT < ORIGINAL_SCREEN_WIDTH
  BY <1>1, DivBound, WidthPositive, DisplayAssumption
<1> QED
  BY <1>2, <1>3, <1>4, DisplayAssumption DEF Succ

(* The task and the interrupt take the first queued column: it is the one at
   hand then, and all others move up.                                        *)
LEMMA Shift ==
  ASSUME Inv, Chain, TaskConsume \/ (SpiInterrupt /\ InterruptNext)
  PROVE  /\ Chain'
         /\ output'[output_tail'] = Coming(0)
         /\ clean => Coming(0)' = Succ(Coming(0))
<1> USE DEF Inv, Held, InUse
<1>1. /\ consumer \in 1 .. RING_BUFFER_SIZE /\ consumer' = consumer - 1
      /\ output_tail \in Slots
      /\ UNCHANGED <<output, next, main, clean>>
  BY DisplayAssumption
  DEF TaskConsume, SpiInterrupt, InterruptNext, TypeOK, ring, client, history
<1>2. /\ \A j \in 0 .. consumer' : Queued(j)' = Queued(j + 1)
      /\ output'[output_tail'] = Queued(0)
  <2>1. CASE TaskConsume
    BY <1>1, <2>1, DisplayAssumption DEF TaskConsume, Queued, Wrap, ring, Slots
  <2>2. CASE SpiInterrupt /\ InterruptNext
    <3>1. task = "wait" /\ task' = task
      BY <2>2 DEF SpiInterrupt, Baton
    <3>2. consumer + 1 =< RING_BUFFER_SIZE
      BY <3>1 DEF TokensConserved, Filling, TypeOK
    <3>3. output_tail' =
            IF output_tail = RING_BUFFER_SIZE - 1 THEN 0 ELSE output_tail + 1
      BY <1>1, <2>2, NextSlotWraps DEF InterruptNext
    <3> QED
      BY <1>1, <3>1, <3>2, <3>3, DisplayAssumption DEF Queued, Wrap, Slots
  <2> QED
    BY <2>1, <2>2
<1>3. \A j \in 0 .. consumer' : Coming(j)' = Coming(j + 1)
  BY <1>1, <1>2 DEF Coming
<1>4. Coming(0) = Queued(0)
  BY <1>1 DEF Coming
<1>5. Chain'
  <2>1. ASSUME clean, NEW j \in 0 .. consumer' - 1
        PROVE  Coming(j + 1)' = Succ(Coming(j)')
    BY <1>1, <1>3, <2>1 DEF Chain
  <2>2. main' = "post" => Queued(consumer)' = next'
    BY <1>1, <1>2 DEF Chain
  <2> QED
    BY <1>1, <2>1, <2>2 DEF Chain, Succ
<1>6. clean => Coming(0)' = Succ(Coming(0))
  BY <1>1, <1>3 DEF Chain
<1> QED
  BY <1>2, <1>4, <1>5, <1>6

(* The columns at hand, queued and to come are not touched by the rest of what
   the task and the interrupt do, nor by the start of a packet.               *)
LEMMA Stay ==
  ASSUME Inv, Chain,
         \/ TaskStart \/ TaskWait \/ TaskAdvance
         \/ SpiInterrupt /\ ~InterruptNext
         \/ AccessFrames \/ QueuePend \/ AccessPals
  PROVE  /\ Chain'
         /\ Coming(0)' = Coming(0)
         /\ task \notin {"consume", "advance"} =>
              output'[output_tail'] = output[output_tail]
<1> USE DEF Inv, Held, InUse, sems, ring, frame, panel, client, history
<1>1. /\ UNCHANGED <<output, consumer, next, clean>>
      /\ main' = main \/ main' # "post"
  BY Zenon DEF TaskStart, TaskWait, TaskAdvance, SpiInterrupt, InterruptRamwr,
     InterruptRepeat, InterruptStarved, AccessFrames, QueuePend, AccessPals,
     ReleaseProducer
<1>2. /\ consumer \in 0 .. RING_BUFFER_SIZE /\ output_tail \in Slots
      /\ main = "post" => consumer + Held + 1 =< RING_BUFFER_SIZE
      /\ consumer + Held =< RING_BUFFER_SIZE
  BY DEF TypeOK, TokensConserved, Filling
<1>3. /\ \A j \in 0 .. consumer : Queued(j)' = Queued(j)
      /\ task \notin {"consume", "advance"} => output_tail' = output_tail
  <2>1. CASE TaskAdvance
    <3>1. output_tail' =
            IF output_tail = RING_BUFFER_SIZE - 1 THEN 0 ELSE output_tail + 1
      BY <1>2, <2>1, NextSlotWraps DEF TaskAdvance
    <3> QED
      BY <1>1, <1>2, <2>1, <3>1, DisplayAssumption
      DEF TaskAdvance, Queued, Wrap, Slots
  <2>2. CASE ~TaskAdvance
    <3>1. output_tail' = output_tail /\ Held' = Held
      BY <2>2 DEF TaskStart, TaskWait, SpiInterrupt, InterruptRamwr,
         InterruptRepeat, InterruptStarved, AccessFrames, QueuePend, AccessPals
    <3> QED
      BY <1>1, <3>1 DEF Queued
  <2> QED
    BY <2>1, <2>2
<1>4. \A j \in 0 .. consumer : Coming(j)' = Coming(j)
  BY <1>1, <1>3 DEF Coming
<1>5. Chain'
  BY <1>1, <1>2, <1>3, <1>4 DEF Chain, Succ
<1> QED
  BY <1>1, <1>2, <1>3, <1>4, <1>5

(* queue_column writes behind the last queued column, and then queues what it
   wrote: the column at hand and the first to come stay what they are.       *)
LEMMA Queue ==
  ASSUME Inv, Chain, QueueLut \/ QueuePost
  PROVE  /\ Chain'
         /\ Coming(0)' = Coming(0)
         /\ task # "consume" => output'[output_tail'] = output[output_tail]
<1> USE DEF Inv, Held, InUse, sems, ring, frame, panel, client, history
<1>1. /\ consumer \in 0 .. RING_BUFFER_SIZE /\ output_tail \in Slots
      /\ output_head \in Slots /\ output \in [Slots -> Columns]
      /\ consumer + Held + 1 =< RING_BUFFER_SIZE
  BY DEF TypeOK, TokensConserved, Filling, QueueLut, QueuePost, HostRuns
<1>2. CASE QueueLut
  <2>1. /\ main = "lut" /\ main' = "post"
        /\ output' = [output EXCEPT ![output_head] = next]
        /\ UNCHANGED <<consumer, output_tail, task, next, clean>>
    BY <1>2 DEF QueueLut, HostRuns
  <2>2. output_head = Wrap(output_tail + Held + consumer)
    BY <1>1, <2>1 DEF HeadLeads, Written, Wrap, Slots
  <2>3. \A j \in 0 .. consumer - 1 : Wrap(output_tail + Held + j) # output_head
    BY <1>1, <2>2, DisplayAssumption DEF Wrap, Slots
  <2>4. \A j \in 0 .. consumer - 1 : Wrap(output_tail + Held + j) \in Slots
    BY <1>1, DisplayAssumption DEF Wrap, Slots
  <2>5. \A j \in 0 .. consumer - 1 : Queued(j)' = Queued(j)
    BY <1>1, <2>1, <2>3, <2>4 DEF Queued
  <2>6. Queued(consumer)' = next'
    BY <1>1, <2>1, <2>2 DEF Queued
  <2>7. \A j \in 0 .. consumer : Coming(j)' = Coming(j)
    BY <1>1, <2>1, <2>5 DEF Coming
  <2>8. Chain'
    BY <1>1, <2>1, <2>6, <2>7 DEF Chain, Succ
  <2>9. task # "consume" => output_tail # output_head
    BY <1>1, <2>2, DisplayAssumption DEF Wrap, Slots
  <2> QED
    BY <1>1, <2>1, <2>7, <2>8, <2>9
<1>3. CASE QueuePost
  <2>1. /\ main = "post" /\ main' # "post"
        /\ consumer' = consumer + 1 /\ next' = Succ(next)
        /\ UNCHANGED <<output, output_tail, task, clean>>
    BY <1>3 DEF QueuePost, HostRuns, Succ
  <2>2. \A j \in 0 .. consumer : Queued(j)' = Queued(j)
    BY <2>1 DEF Queued
  <2>3. \A j \in 0 .. consumer : Coming(j)' = Coming(j)
    BY <1>1, <2>1, <2>2 DEF Coming, Chain
  <2>4. ASSUME clean, NEW j \in 0 .. consumer
        PROVE  Coming(j + 1)' = Succ(Coming(j)')
    <3>1. CASE j = consumer
      BY <1>1, <2>1, <2>3, <2>4, <3>1 DEF Coming
    <3>2. CASE j \in 0 .. consumer - 1
      BY <1>1, <2>1, <2>3, <2>4, <3>2 DEF Chain
    <3> QED
      BY <1>1, <3>1, <3>2
  <2>5. Chain'
    BY <1>1, <2>1, <2>4 DEF Chain, Succ
  <2> QED
    BY <1>1, <2>1, <2>3, <2>5
<1> QED
  BY <1>2, <1>3

(* Before the first frame nothing is queued, and column 0 is to come. *)
LEMMA PlaceInit == Init => Place
<1> SUFFICES ASSUME Init PROVE Place
  OBVIOUS
<1> USE DEF Init
<1>1. Aligned /\ Pointer
  BY FrameEnds DEF Aligned, Pointer
<1>2. Chain
  BY DEF Chain
<1>3. Phase /\ Silent
  BY DEF Phase, Silent
<1> QED
  BY <1>1, <1>2, <1>3 DEF Place

(* The task takes the column that col_count_ is due for. *)
LEMMA PlaceTaskConsume == Inv /\ Place /\ TaskConsume => Place'
<1> SUFFICES ASSUME Inv, Place, TaskConsume PROVE Place'
  OBVIOUS
<1> USE DEF Inv, Place, ring, frame, panel, client, history
<1>1. /\ task = "consume" /\ task' = "start" /\ spi = "idle" /\ spi' = "idle"
      /\ main' = main /\ consumer > 0
      /\ UNCHANGED <<state, col_count, col_acquired, reset, ram, live, clean,
                     homed>>
  BY DEF TaskConsume, Baton
<1>2. Aligned' /\ Pointer'
  BY <1>1 DEF Aligned, Pointer
<1>3. /\ Chain' /\ output'[output_tail'] = Coming(0)
      /\ clean => Coming(0)' = Succ(Coming(0))
  BY Shift
<1>4. Phase'
  BY <1>1, <1>3 DEF Phase, CountAfterReset, Succ
<1>5. Silent'
  BY <1>1 DEF Silent
<1> QED
  BY <1>2, <1>3, <1>4, <1>5

(* The task starts to draw it, or has RAMWR sent first. *)
LEMMA PlaceTaskStart == Inv /\ Place /\ TaskStart => Place'
<1> SUFFICES ASSUME Inv, Place, TaskStart PROVE Place'
  OBVIOUS
<1> USE DEF Inv, Place, sems, ring, client
<1>1. /\ task = "start" /\ task' = "wait" /\ spi = "idle" /\ reset'
      /\ col_acquired' = TRUE /\ state' = "FRAME" /\ ram' = ram
      /\ UNCHANGED <<main, consumer, live, clean>>
  BY DEF TaskStart, Baton
<1>2. /\ Chain' /\ Coming(0)' = Coming(0)
      /\ output'[output_tail'] = output[output_tail]
  BY <1>1, Stay
<1>3. Silent'
  BY <1>1 DEF Silent
<1>4. CASE state = "RAMWR"
  <2>1. /\ spi' = "ramwr" /\ col_count = 0 /\ CountAfterReset = 0
        /\ col_count' = 0
    BY <1>4 DEF TaskStart, Transmit, PinLevel, CountAfterReset
  <2>2. Aligned' /\ Pointer'
    BY <1>1, <2>1 DEF Aligned, Pointer
  <2>3. Phase'
    BY <1>1, <1>2, <2>1, FrameEnds DEF Phase
  <2> QED
    BY <1>2, <1>3, <2>2, <2>3
<1>5. CASE state = "FRAME"
  <2>1. /\ spi' = "column" /\ homed' = Homed
        /\ col_count' = (CountAfterReset + 1) % SCREEN_WIDTH
    BY <1>5 DEF TaskStart, Transmit
  <2>2. /\ CountAfterReset \in 0 .. SCREEN_WIDTH - 1
        /\ CountAfterReset % REPEAT = 0
    BY <1>1, ResetBound, FrameEnds, WidthPositive
    DEF Aligned, CountAfterReset, TypeOK
  <2>3. /\ col_count' = CountAfterReset + 1
        /\ col_count' \in 1 .. SCREEN_WIDTH - 1
        /\ col_count' % REPEAT = 1
    BY <2>1, <2>2, FirstCopy
  <2>4. Last' = CountAfterReset
    BY <2>2, <2>3, WidthPositive DEF Last
  <2>5. Aligned'
    BY <1>1, <2>1, <2>3 DEF Aligned
  <2>6. Pointer'
    <3> SUFFICES ASSUME homed' PROVE ram' = Last'
      BY <2>1 DEF Pointer
    <3>1. homed /\ CountAfterReset = col_count
      BY <2>1 DEF Homed, CountAfterReset
    <3> QED
      BY <1>1, <1>5, <2>4, <3>1 DEF Pointer
  <2>7. Phase'
    BY <1>1, <1>2, <2>1, <2>4 DEF Phase
  <2> QED
    BY <1>2, <1>3, <2>5, <2>6, <2>7
<1> QED
  BY <1>4, <1>5 DEF TypeOK

(* The task wakes up and frees the slot: all is drawn. *)
LEMMA PlaceTaskEnds == Inv /\ Place /\ (TaskWait \/ TaskAdvance) => Place'
<1> SUFFICES ASSUME Inv, Place, TaskWait \/ TaskAdvance PROVE Place'
  OBVIOUS
<1> USE DEF Inv, Place, frame, panel, client, history
<1>1. /\ task \in {"wait", "advance"} /\ task' \in {"consume", "advance"}
      /\ spi = "idle" /\ spi' = "idle" /\ consumer' = consumer /\ main' = main
      /\ UNCHANGED <<state, col_count, col_acquired, reset, ram, live, clean,
                     homed>>
  BY DEF TaskWait, TaskAdvance, Baton, TypeOK
<1>2. Aligned' /\ Pointer' /\ Silent'
  BY <1>1 DEF Aligned, Pointer, Silent
<1>3. Chain' /\ Coming(0)' = Coming(0)
  BY Stay
<1>4. Phase'
  BY <1>1, <1>3 DEF Phase, CountAfterReset
<1> QED
  BY <1>2, <1>3, <1>4

(* In flight a column is the one at index Last; then the pointer moves on. *)
LEMMA PointerMoves ==
  ASSUME Inv, Place, SpiInterrupt, homed
  PROVE  state = "FRAME" => ram' = col_count
<1> USE DEF Inv, Place
<1>1. ram' = Drawn /\ spi # "idle"
  BY DEF SpiInterrupt
<1>2. CASE spi = "ramwr"
  BY <1>1, <1>2 DEF Drawn, PinLevel
<1>3. CASE spi = "column"
  <2>1. col_count \in 1 .. SCREEN_WIDTH - 1 \/ state # "FRAME"
    BY <1>3, WidthPositive DEF Aligned, TypeOK
  <2>2. state = "FRAME" => ram = col_count - 1
    BY <1>3, <2>1, WidthPositive DEF Pointer, Last
  <2>3. ram' = (ram + 1) % PanelColumns
    BY <1>1, <1>3 DEF Drawn
  <2> QED
    BY <2>1, <2>2, <2>3, WidthPositive DEF PanelColumns
<1> QED
  BY <1>1, <1>2, <1>3 DEF TypeOK

(* What both contexts' column transfers leave of col_count_. *)
LEMMA Sent ==
  ASSUME NEW c \in 0 .. SCREEN_WIDTH - 1, NEW slot,
         SendColumn(c, slot), state = "FRAME"
  PROVE  /\ spi' = "column" /\ col_acquired' = FALSE
         /\ Last' = c /\ col_count' \in 0 .. SCREEN_WIDTH - 1
         /\ state' = "RAMWR" <=> col_count' = 0
  BY WidthPositive DEF SendColumn, Transmit, Last

(* The interrupt after the last panel column sends RAMWR: the next column is
   the first of a frame.                                                     *)
LEMMA PlaceInterruptRamwr ==
  Inv /\ Place /\ SpiInterrupt /\ InterruptRamwr => Place'
<1> SUFFICES ASSUME Inv, Place, SpiInterrupt, InterruptRamwr PROVE Place'
  OBVIOUS
<1> USE DEF Inv, Place, client, sems
<1>1. /\ task = "wait" /\ task' = "wait" /\ spi = "column" /\ spi' = "ramwr"
      /\ state = "RAMWR" /\ state' = "FRAME" /\ col_count = 0 /\ ~col_acquired
      /\ UNCHANGED <<main, consumer, live, clean, reset, col_count,
                     col_acquired>>
  <2>1. /\ spi # "idle" /\ state = "RAMWR" /\ spi' = "ramwr" /\ state' = "FRAME"
        /\ UNCHANGED <<task, main, consumer, live, clean, reset, col_count,
                       col_acquired>>
    BY Zenon DEF SpiInterrupt, InterruptRamwr, Transmit
  <2>2. task = "wait" /\ col_count = 0 /\ spi = "column"
    BY <2>1 DEF Baton, PinLevel, TypeOK
  <2> QED
    BY <2>1, <2>2, FrameEnds DEF Aligned
<1>2. /\ Chain' /\ Coming(0)' = Coming(0)
      /\ output'[output_tail'] = output[output_tail]
  BY <1>1, Stay DEF InterruptRamwr, InterruptNext
<1>3. Aligned' /\ Pointer' /\ Silent'
  BY <1>1 DEF Aligned, Pointer, Silent
<1>4. Phase'
  <2>1. clean /\ live /\ reset => Coming(0) = 0
    BY <1>1, FrameEnds DEF Phase, Last
  <2> QED
    BY <1>1, <1>2, <2>1 DEF Phase
<1> QED
  BY <1>2, <1>3, <1>4

(* It draws the column at hand until it has been drawn REPEAT times. *)
LEMMA PlaceInterruptRepeat ==
  Inv /\ Place /\ SpiInterrupt /\ InterruptRepeat => Place'
<1> SUFFICES ASSUME Inv, Place, SpiInterrupt, InterruptRepeat PROVE Place'
  OBVIOUS
<1> USE DEF Inv, Place, client, sems
<1>1. /\ task = "wait" /\ task' = "wait" /\ spi # "idle" /\ state = "FRAME"
      /\ ~ColumnDone /\ SendColumn(col_count, output_tail)
      /\ UNCHANGED <<main, consumer, live, clean, reset, homed>>
  <2>1. /\ spi # "idle" /\ state = "FRAME"
        /\ ~ColumnDone /\ SendColumn(col_count, output_tail)
        /\ UNCHANGED <<task, main, consumer, live, clean, reset, homed>>
    BY Zenon DEF SpiInterrupt, InterruptRepeat
  <2> QED
    BY <2>1 DEF Baton
<1>2. col_count \in 0 .. SCREEN_WIDTH - 1
  BY DEF TypeOK
<1>3. /\ spi' = "column" /\ col_acquired' = FALSE /\ Last' = col_count
      /\ state' = "RAMWR" <=> col_count' = 0
  BY <1>1, <1>2, Sent
<1>4. /\ Chain' /\ Coming(0)' = Coming(0)
      /\ output'[output_tail'] = output[output_tail]
  BY <1>1, Stay DEF InterruptNext
<1>5. Aligned' /\ Silent'
  BY <1>1, <1>3 DEF Aligned, Silent
<1>6. Pointer'
  BY <1>1, <1>3, PointerMoves DEF Pointer
<1>7. Phase'
  <2>1. CASE spi = "ramwr"
    <3>1. col_count = 0 /\ col_acquired
      BY <1>1, <2>1, FrameEnds DEF PinLevel, ColumnDone
    <3> QED
      BY <1>1, <1>3, <1>4, <2>1, <3>1, FrameEnds DEF Phase
  <2>2. CASE spi = "column"
    <3>1. col_count \in Nat \ {0} /\ Last = col_count - 1
      BY <1>1, <1>2, <2>2, WidthPositive DEF Aligned, Last
    <3>2. col_count % REPEAT # 0
      BY <1>1, <2>2 DEF ColumnDone, Aligned
    <3>3. Last \div REPEAT = col_count \div REPEAT
      BY <3>1, <3>2, DivPred, DisplayAssumption
    <3> QED
      BY <1>1, <1>3, <1>4, <2>2, <3>3 DEF Phase
  <2> QED
    BY <1>1, <2>1, <2>2 DEF TypeOK
<1> QED
  BY <1>4, <1>5, <1>6, <1>7

(* When it has been, where the next one goes is where this one has ended, or
   the left edge after a reset.                                              *)
LEMMA Due ==
  ASSUME Inv, Place, SpiInterrupt, state = "FRAME", ColumnDone
  PROVE  /\ col_count % REPEAT = 0 /\ CountAfterReset % REPEAT = 0
         /\ CountAfterReset \in 0 .. SCREEN_WIDTH - 1
         /\ clean /\ live => Coming(0) = CountAfterReset \div REPEAT
<1> USE DEF Inv, Place
<1>1. spi # "idle" /\ task = "wait"
  BY DEF SpiInterrupt, Baton
<1>2. /\ col_count % REPEAT = 0 /\ CountAfterReset % REPEAT = 0
      /\ CountAfterReset \in 0 .. SCREEN_WIDTH - 1
  BY ResetBound, FrameEnds, WidthPositive
  DEF ColumnDone, CountAfterReset, TypeOK
<1>3. ASSUME clean, live PROVE Coming(0) = CountAfterReset \div REPEAT
  <2>1. CASE ~reset
    BY <1>1, <1>3, <2>1, FrameEnds DEF Phase, CountAfterReset
  <2>2. CASE reset /\ spi = "ramwr"
    BY <1>3, <2>2, FrameEnds DEF Phase, CountAfterReset, PinLevel, ColumnDone
  <2>3. CASE reset /\ spi = "column"
    <3>1. col_count \in 1 .. SCREEN_WIDTH - 1 /\ Last = col_count - 1
      BY <2>3, WidthPositive DEF Aligned, Last, TypeOK
    <3>2. Succ(Last \div REPEAT) = col_count \div REPEAT
      BY <1>2, <3>1, NextColumn
    <3> QED
      BY <1>3, <2>3, <3>2 DEF Phase, CountAfterReset
  <2> QED
    BY <1>1, <2>1, <2>2, <2>3 DEF TypeOK
<1> QED
  BY <1>2, <1>3

(* It takes the next queued column: that is the one due, and goes where the last
   one ended, or to the left edge after a reset.                             *)
LEMMA PlaceInterruptNext ==
  Inv /\ Place /\ SpiInterrupt /\ InterruptNext => Place'
<1> SUFFICES ASSUME Inv, Place, SpiInterrupt, InterruptNext PROVE Place'
  OBVIOUS
<1> USE DEF Inv, Place, client
<1>1. /\ task = "wait" /\ task' = "wait" /\ spi # "idle" /\ state = "FRAME"
      /\ ColumnDone /\ SendColumn(CountAfterReset, NextSlot(output_tail))
      /\ reset' = TRUE /\ homed' = Homed /\ consumer > 0
      /\ UNCHANGED <<main, live, clean>>
  <2>1. /\ spi # "idle" /\ state = "FRAME"
        /\ ColumnDone /\ SendColumn(CountAfterReset, NextSlot(output_tail))
        /\ reset' = TRUE /\ homed' = Homed /\ consumer > 0
        /\ UNCHANGED <<task, main, live, clean>>
    BY Zenon DEF SpiInterrupt, InterruptNext
  <2> QED
    BY <2>1 DEF Baton
<1>2. /\ CountAfterReset % REPEAT = 0
      /\ CountAfterReset \in 0 .. SCREEN_WIDTH - 1
      /\ clean /\ live => Coming(0) = CountAfterReset \div REPEAT
  BY <1>1, Due
<1>3. /\ spi' = "column" /\ col_acquired' = FALSE /\ Last' = CountAfterReset
      /\ state' = "RAMWR" <=> col_count' = 0
  BY <1>1, <1>2, Sent
<1>4. /\ Chain' /\ output'[output_tail'] = Coming(0)
      /\ clean => Coming(0)' = Succ(Coming(0))
  BY Shift
<1>5. Aligned'
  BY <1>1, <1>3 DEF Aligned
<1>6. Pointer'
  <2> SUFFICES ASSUME homed' PROVE ram' = Last'
    BY <1>3 DEF Pointer
  <2>1. homed /\ CountAfterReset = col_count
    BY <1>1 DEF Homed, CountAfterReset
  <2> QED
    BY <1>1, <1>3, <2>1, PointerMoves
<1>7. Silent'
  BY <1>1 DEF Silent
<1>8. Phase'
  BY <1>1, <1>2, <1>3, <1>4 DEF Phase, Succ
<1> QED
  BY <1>4, <1>5, <1>6, <1>7, <1>8

(* The interrupt that finds nothing to draw leaves everything as it is due. *)
LEMMA PlaceInterruptStarved ==
  Inv /\ Place /\ SpiInterrupt /\ InterruptStarved => Place'
<1> SUFFICES ASSUME Inv, Place, SpiInterrupt, InterruptStarved PROVE Place'
  OBVIOUS
<1> USE DEF Inv, Place, client
<1>1. /\ task = "wait" /\ task' = "wait" /\ spi' = "idle" /\ state = "FRAME"
      /\ state' = "FRAME" /\ ColumnDone /\ col_count' = CountAfterReset
      /\ reset' = TRUE /\ homed' = Homed
      /\ UNCHANGED <<main, consumer, live, clean, col_acquired>>
  <2>1. /\ spi # "idle" /\ spi' = "idle" /\ state = "FRAME"
        /\ state' = state /\ ColumnDone /\ col_count' = CountAfterReset
        /\ reset' = TRUE /\ homed' = Homed
        /\ UNCHANGED <<task, main, consumer, live, clean, col_acquired>>
    BY Zenon DEF SpiInterrupt, InterruptStarved
  <2> QED
    BY <2>1 DEF Baton
<1>2. /\ CountAfterReset % REPEAT = 0
      /\ clean /\ live => Coming(0) = CountAfterReset \div REPEAT
  BY <1>1, Due
<1>3. Chain' /\ Coming(0)' = Coming(0)
  <2>1. ~InterruptNext
    BY DEF InterruptStarved, InterruptNext, TypeOK
  <2> QED
    BY <2>1, Stay
<1>4. Aligned' /\ Silent'
  BY <1>1, <1>2 DEF Aligned, Silent, ColumnDone
<1>5. Pointer'
  BY <1>1, PointerMoves DEF Pointer, Homed, CountAfterReset
<1>6. Phase'
  BY <1>1, <1>2, <1>3 DEF Phase, CountAfterReset
<1> QED
  BY <1>3, <1>4, <1>5, <1>6

(* A client's packet and palette change nothing of it ... *)
LEMMA PlaceAccess ==
  Inv /\ Place /\ (AccessFrames \/ QueuePend \/ AccessPals) => Place'
<1> SUFFICES ASSUME Inv, Place, AccessFrames \/ QueuePend \/ AccessPals
             PROVE  Place'
  OBVIOUS
<1> USE DEF Inv, Place, HostRuns, sems, ring, frame, panel, client, history
<1>1. /\ UNCHANGED <<spi, ram, task, consumer, state, col_count, col_acquired,
                     reset,
                     output, output_tail, clean, live, homed>>
      /\ main' = main \/ live \/ main = "pend"
  BY DEF AccessFrames, QueuePend, AccessPals
<1>2. Aligned' /\ Pointer'
  BY <1>1 DEF Aligned, Pointer, Last
<1>3. Chain' /\ Coming(0)' = Coming(0)
  BY Stay
<1>4. Phase'
  BY <1>1, <1>3 DEF Phase, CountAfterReset, Last
<1>5. Silent'
  BY <1>1 DEF Silent
<1> QED
  BY <1>2, <1>3, <1>4, <1>5

(* ... and a column queued is the next of its frame. *)
LEMMA PlaceQueue == Inv /\ Place /\ (QueueLut \/ QueuePost) => Place'
<1> SUFFICES ASSUME Inv, Place, QueueLut \/ QueuePost PROVE Place'
  OBVIOUS
<1> USE DEF Inv, Place, HostRuns, sems, ring, frame, panel, client, history
<1>1. /\ UNCHANGED <<spi, ram, task, state, col_count, col_acquired, reset,
                     output_tail, clean, live, homed>>
      /\ main \in {"lut", "post"}
  BY DEF QueueLut, QueuePost
<1>2. Aligned' /\ Pointer'
  BY <1>1 DEF Aligned, Pointer, Last
<1>3. /\ Chain' /\ Coming(0)' = Coming(0)
      /\ task # "consume" => output'[output_tail'] = output[output_tail]
  BY Queue
<1>4. Phase'
  <2>1. task # "consume" \/ spi = "idle"
    BY DEF Baton
  <2>2. Last' = Last /\ CountAfterReset' = CountAfterReset
    BY <1>1 DEF Last, CountAfterReset
  <2>3. SUFFICES ASSUME clean', live' PROVE Phase'
    BY DEF Phase
  <2>4. clean /\ live /\ Coming(0)' = Coming(0)
    BY <1>1, <1>3, <2>3
  <2> QED
    BY <1>1, <1>3, <2>1, <2>2, <2>4 DEF Phase
<1>5. Silent'
  <2>1. clean' => live'
    BY <1>1 DEF Silent
  <2> QED
    BY <2>1, Zenon DEF Silent
<1> QED
  BY <1>2, <1>3, <1>4, <1>5

(* After a reset that finds the ring empty the client's column 0 is to come. *)
LEMMA PlaceReset == Inv /\ Place /\ (AccessReset \/ OnReset) => Place'
<1> SUFFICES ASSUME Inv, Place, AccessReset \/ OnReset PROVE Place'
  OBVIOUS
<1> USE DEF Inv, Place, HostRuns, sems, ring, frame, panel
<1>1. /\ UNCHANGED <<spi, ram, task, state, col_count, col_acquired, output,
                     output_tail, consumer, main, homed>>
      /\ reset' = FALSE /\ main = "idle" /\ task # "start"
  BY DEF AccessReset, OnReset, Reset, TaskReady
<1>2. Aligned' /\ Pointer'
  BY <1>1 DEF Aligned, Pointer, Last
<1>3. CASE AccessReset
  <2>1. live' = TRUE /\ next' = 0 /\ clean' = (consumer = 0)
    BY <1>3, Zenon DEF AccessReset
  <2>2. clean' => Coming(0)' = 0 /\ consumer' = 0
    BY <1>1, <2>1 DEF Coming
  <2>3. Chain' /\ Silent'
    BY <1>1, <2>1, <2>2 DEF Chain, Silent
  <2>4. Phase'
    BY <1>1, <2>1, <2>2, FrameEnds DEF Phase, CountAfterReset
  <2> QED
    BY <1>2, <2>3, <2>4
<1>4. CASE OnReset
  <2>1. live' = FALSE /\ next' = next /\ clean' = (clean /\ consumer = 0)
    BY <1>4, Zenon DEF OnReset
  <2>2. clean' => consumer' = 0
    <3>1. clean' => consumer = 0
      BY <2>1, Zenon
    <3> QED
      BY <1>1, <3>1
  <2>3. Silent'
    BY <1>1, <2>2, Zenon DEF Silent
  <2>4. Chain'
    BY <1>1, <2>2 DEF Chain
  <2>5. Phase'
    BY <2>1 DEF Phase
  <2> QED
    BY <1>2, <2>3, <2>4, <2>5
<1> QED
  BY <1>3, <1>4

(* Every step keeps the columns in their places. *)
LEMMA PlaceNext == Inv /\ Place /\ [Next]_vars => Place'
<1>1. Place /\ UNCHANGED vars => Place'
  BY DEF Place, Aligned, Pointer, Chain, Phase, Silent, CountAfterReset, Last,
     Coming, Queued, Wrap, Held, Succ, vars, sems, ring, frame, panel, client,
     history
<1> QED
  BY <1>1, PlaceTaskConsume, PlaceTaskStart, PlaceTaskEnds, PlaceInterruptRamwr,
     PlaceInterruptRepeat, PlaceInterruptNext, PlaceInterruptStarved,
     PlaceAccess,
     PlaceQueue, PlaceReset
  DEF Next, DisplayTask, SpiInterrupt, HostTask, QueueColumn

(* A column is drawn in the panel columns of its index, when the last reset
   found the ring empty: display_t::reset, queue_column and the interrupt, by
   whichever of the interrupt and the task each copy is started.             *)
THEOREM PlaceSafety == Spec => []RightPlace
<1>1. Inv /\ Place => RightPlace
  <2> SUFFICES ASSUME Inv, Place, spi = "column", clean, homed, reset
               PROVE  output[src] = ram \div REPEAT
    BY DEF RightPlace
  <2>1. live
    BY DEF Place, Silent
  <2> QED
    BY <2>1 DEF Inv, Baton, Place, Pointer, Phase
<1> QED
  BY <1>1, InitInv, NextInv, PlaceInit, PlaceNext, PTL DEF Spec

------------------------------------------------------------------------------
(* The pipeline implements ColumnStream, step by step: the slots in use from
   output_tail on are what is pending, col_count_ says how many copies of the
   first have been sent.                                                     *)

(* `n' slots of a ring `out' from `tail' on, as a sequence: Pending, as a
   function of the state it is taken in.                                     *)
Window(out, tail, n) ==
  [i \in 1 .. n |-> out[(tail + i - 1) % RING_BUFFER_SIZE]]

(* The columns of a window. *)
LEMMA WindowIs ==
  ASSUME NEW out \in [Slots -> Columns], NEW tail \in Slots,
         NEW n \in 0 .. RING_BUFFER_SIZE
  PROVE  /\ Window(out, tail, n) \in Seq(Columns)
         /\ Len(Window(out, tail, n)) = n
         /\ \A i \in 1 .. n : Window(out, tail, n)[i] = out[Wrap(tail + i - 1)]
<1>1. ASSUME NEW i \in 1 .. n
      PROVE  /\ (tail + i - 1) % RING_BUFFER_SIZE = Wrap(tail + i - 1)
             /\ Wrap(tail + i - 1) \in Slots
  <2>1. tail + i - 1 \in 0 .. 2 * RING_BUFFER_SIZE - 1
    BY <1>1, DisplayAssumption DEF Slots
  <2> QED
    BY <2>1, DisplayAssumption DEF Wrap, Slots
<1>2. \A i \in 1 .. n : Window(out, tail, n)[i] = out[Wrap(tail + i - 1)]
                        /\ Window(out, tail, n)[i] \in Columns
  BY <1>1 DEF Window
<1>3. Window(out, tail, n) \in [1 .. n -> Columns]
  BY <1>1 DEF Window
<1>4. Window(out, tail, n) \in Seq(Columns) /\ Len(Window(out, tail, n)) = n
  BY <1>3
<1> QED
  BY <1>2, <1>4

(* Freeing the slot at the tail takes the first column of the window away. *)
LEMMA WindowTail ==
  ASSUME NEW out \in [Slots -> Columns], NEW tail \in Slots,
         NEW n \in 1 .. RING_BUFFER_SIZE
  PROVE  /\ Window(out, tail, n) # <<>>
         /\ Window(out, NextSlot(tail), n - 1) = Tail(Window(out, tail, n))
<1> DEFINE w == Window(out, tail, n)
           v == Window(out, NextSlot(tail), n - 1)
<1>1. /\ NextSlot(tail) \in Slots
      /\ NextSlot(tail) = IF tail = RING_BUFFER_SIZE - 1 THEN 0 ELSE tail + 1
  BY NextSlotWraps
<1>2. /\ w \in Seq(Columns) /\ Len(w) = n
      /\ \A i \in 1 .. n : w[i] = out[Wrap(tail + i - 1)]
  BY WindowIs
<1>3. /\ v \in Seq(Columns) /\ Len(v) = n - 1
      /\ \A i \in 1 .. n - 1 : v[i] = out[Wrap(NextSlot(tail) + i - 1)]
  <2>1. n - 1 \in 0 .. RING_BUFFER_SIZE
    BY DisplayAssumption
  <2> QED
    BY <1>1, <2>1, WindowIs
<1>4. \A i \in 1 .. n - 1 :
        Wrap(NextSlot(tail) + i - 1) = Wrap(tail + (i + 1) - 1)
  BY <1>1, DisplayAssumption DEF Wrap, Slots
<1> HIDE DEF w, v
<1>5. w # <<>>
  BY <1>2
<1>6. /\ Tail(w) \in Seq(Columns) /\ Len(Tail(w)) = n - 1
      /\ \A i \in 1 .. n - 1 : Tail(w)[i] = w[i + 1]
  BY <1>2, <1>5, HeadTailProperties
<1>7. \A i \in 1 .. n - 1 : v[i] = Tail(w)[i]
  <2> SUFFICES ASSUME NEW i \in 1 .. n - 1 PROVE v[i] = Tail(w)[i]
    OBVIOUS
  <2>1. i + 1 \in 1 .. n
    OBVIOUS
  <2>2. w[i + 1] = out[Wrap(tail + (i + 1) - 1)]
    BY <1>2, <2>1
  <2> QED
    BY <1>3, <1>4, <1>6, <2>2
<1>8. v = Tail(w)
  BY <1>3, <1>6, <1>7, SeqEqual
<1> QED
  BY <1>5, <1>8 DEF w, v

(* Posting the slot behind the window adds its column. *)
LEMMA WindowAppend ==
  ASSUME NEW out \in [Slots -> Columns], NEW tail \in Slots,
         NEW n \in 0 .. RING_BUFFER_SIZE - 1
  PROVE  Window(out, tail, n + 1)
           = Append(Window(out, tail, n), out[Wrap(tail + n)])
<1> DEFINE w == Window(out, tail, n)
           v == Window(out, tail, n + 1)
           c == out[Wrap(tail + n)]
<1>1. /\ w \in Seq(Columns) /\ Len(w) = n
      /\ \A i \in 1 .. n : w[i] = out[Wrap(tail + i - 1)]
  BY WindowIs, DisplayAssumption
<1>2. /\ v \in Seq(Columns) /\ Len(v) = n + 1
      /\ \A i \in 1 .. n + 1 : v[i] = out[Wrap(tail + i - 1)]
  <2>1. n + 1 \in 0 .. RING_BUFFER_SIZE
    BY DisplayAssumption
  <2> QED
    BY <2>1, WindowIs
<1>3. Wrap(tail + n) \in Slots
  BY DisplayAssumption DEF Wrap, Slots
<1>4. c \in Columns
  BY <1>3
<1> HIDE DEF w, v
<1>5. v[n + 1] = c /\ \A i \in 1 .. n : v[i] = w[i]
  <2>1. tail + (n + 1) - 1 = tail + n
    BY DisplayAssumption DEF Slots
  <2>2. v[n + 1] = out[Wrap(tail + (n + 1) - 1)]
    BY <1>2
  <2> QED
    BY <1>1, <1>2, <2>1, <2>2
<1> HIDE DEF c
<1>6. /\ Append(w, c) \in Seq(Columns) /\ Len(Append(w, c)) = n + 1
      /\ \A i \in 1 .. n : Append(w, c)[i] = w[i]
      /\ Append(w, c)[n + 1] = c
  BY <1>1, <1>4, AppendProperties
<1>7. \A i \in 1 .. n + 1 : v[i] = Append(w, c)[i]
  BY <1>5, <1>6
<1>8. v = Append(w, c)
  BY <1>2, <1>6, <1>7, SeqEqual
<1> QED
  BY <1>8 DEF w, v, c

(* Writing the slot behind the window leaves it alone. *)
LEMMA WindowStays ==
  ASSUME NEW out \in [Slots -> Columns], NEW new \in [Slots -> Columns],
         NEW tail \in Slots, NEW n \in 0 .. RING_BUFFER_SIZE - 1,
         \A slot \in Slots \ {Wrap(tail + n)} : new[slot] = out[slot]
  PROVE  Window(new, tail, n) = Window(out, tail, n)
<1> DEFINE v == Window(new, tail, n)
           w == Window(out, tail, n)
<1>1. n \in 0 .. RING_BUFFER_SIZE
  BY DisplayAssumption
<1>2. \A i \in 1 .. n : Wrap(tail + i - 1) \in Slots \ {Wrap(tail + n)}
  BY DisplayAssumption DEF Wrap, Slots
<1>3. /\ v \in Seq(Columns) /\ Len(v) = n
      /\ \A i \in 1 .. n : v[i] = new[Wrap(tail + i - 1)]
  BY <1>1, WindowIs
<1>4. /\ w \in Seq(Columns) /\ Len(w) = n
      /\ \A i \in 1 .. n : w[i] = out[Wrap(tail + i - 1)]
  BY <1>1, WindowIs
<1> HIDE DEF v, w
<1>5. \A i \in 1 .. n : v[i] = w[i]
  BY <1>2, <1>3, <1>4
<1>6. v = w
  BY <1>3, <1>4, <1>5, SeqEqual
<1> QED
  BY <1>6 DEF v, w

(* The window of the state, and what a step leaves of it. *)
LEMMA PendingIs ==
  ASSUME Inv
  PROVE  /\ InUse \in 0 .. RING_BUFFER_SIZE /\ output_tail \in Slots
         /\ output \in [Slots -> Columns]
         /\ Pending = Window(output, output_tail, InUse)
         /\ Pending' = Window(output', output_tail', InUse')
         /\ Pending \in Seq(Columns) /\ Len(Pending) = InUse
<1>1. /\ InUse \in 0 .. RING_BUFFER_SIZE /\ output_tail \in Slots
      /\ output \in [Slots -> Columns]
  BY DEF Inv, TypeOK, TokensConserved, InUse, Held, Filling
<1>2. /\ Pending = Window(output, output_tail, InUse)
      /\ Pending' = Window(output', output_tail', InUse')
  BY DEF Pending, Window
<1> QED
  BY <1>1, <1>2, WindowIs

(* The copies made of the column at hand, by what is in flight. *)
LEMMA CopiesIs ==
  ASSUME Inv, Aligned
  PROVE  /\ task \in {"consume", "start"} => Copies = 0
         /\ spi = "ramwr" => Copies = IF col_acquired THEN 0 ELSE REPEAT
         /\ spi = "column" =>
              Copies = IF col_count % REPEAT = 0 THEN REPEAT
                                                 ELSE col_count % REPEAT
         /\ spi = "idle" /\ task \in {"wait", "advance"} => Copies = REPEAT
<1>1. spi # "idle" => task = "wait"
  BY DEF Inv, Baton
<1>2. spi = "ramwr" => col_count % REPEAT = 0
  BY FrameEnds DEF Inv, PinLevel
<1>3. spi = "idle" => col_count % REPEAT = 0
  BY DEF Aligned
<1> QED
  BY <1>1, <1>2, <1>3 DEF Copies

(* What the steps leave of the window they do not move. *)
LEMMA PendingStays ==
  ASSUME UNCHANGED <<output, output_tail>>, InUse' = InUse
  PROVE  Pending' = Pending
  BY DEF Pending

(* Taking a queued column, waiting and sending RAMWR draw nothing. *)
LEMMA StreamWaits ==
  ASSUME Inv, Inv', Place, Place',
         \/ TaskConsume \/ TaskWait
         \/ TaskStart /\ state = "RAMWR"
         \/ SpiInterrupt /\ (InterruptRamwr \/ InterruptStarved)
  PROVE  UNCHANGED Stream!vars
<1> USE DEF ring, frame, panel, sems
<1>1. UNCHANGED <<output, output_tail>>
  BY Zenon DEF TaskConsume, TaskWait, TaskStart, SpiInterrupt, InterruptRamwr,
     InterruptStarved
<1>2. InUse' = InUse
  <2>1. CASE TaskConsume
    BY <2>1 DEF TaskConsume, InUse, Held, Inv, TypeOK
  <2>2. CASE ~TaskConsume
    BY <2>2 DEF TaskWait, TaskStart, SpiInterrupt, InterruptRamwr,
       InterruptStarved, InUse, Held
  <2> QED
    BY <2>1, <2>2
<1>3. Copies' = Copies
  <2>1. CASE TaskConsume
    BY <2>1 DEF TaskConsume, Copies
  <2>2. CASE TaskWait
    BY <2>2 DEF TaskWait, Copies
  <2>3. CASE TaskStart /\ state = "RAMWR"
    BY <2>3 DEF TaskStart, Transmit, Copies
  <2>4. CASE SpiInterrupt /\ (InterruptRamwr \/ InterruptStarved)
    <3>1. /\ spi # "idle" /\ task = "wait" /\ task' = "wait"
          /\ col_acquired' = col_acquired /\ ~col_acquired
          /\ col_count % REPEAT = 0 /\ col_count' % REPEAT = 0
      <4>1. spi # "idle" /\ task = "wait" /\ task' = "wait"
        BY <2>4, Zenon DEF SpiInterrupt, Inv, Baton, TypeOK
      <4>2. CASE InterruptRamwr
        <5>1. /\ state = "RAMWR" /\ col_count' = col_count
              /\ col_acquired' = col_acquired
          BY <4>2, Zenon DEF InterruptRamwr
        <5> QED
          BY <4>1, <5>1, FrameEnds DEF Inv, PinLevel, Place, Aligned, TypeOK
      <4>3. CASE InterruptStarved
        <5>1. /\ ColumnDone /\ col_count' = CountAfterReset
              /\ col_acquired' = col_acquired
          BY <4>3, Zenon DEF InterruptStarved
        <5> QED
          BY <4>1, <5>1, FrameEnds DEF ColumnDone, CountAfterReset
      <4> QED
        BY <2>4, <4>1, <4>2, <4>3
    <3> QED
      BY <3>1 DEF Copies
  <2> QED
    BY <2>1, <2>2, <2>3, <2>4
<1> QED
  BY <1>1, <1>2, <1>3, PendingStays DEF Stream!vars

(* The first transfer of a column, by the task, and the following ones, by the
   interrupt, are one copy each.                                             *)
LEMMA StreamCopies ==
  ASSUME Inv, Inv', Place, Place',
         \/ TaskStart /\ state = "FRAME"
         \/ SpiInterrupt /\ InterruptRepeat
  PROVE  Stream!Copy
<1> USE DEF sems, ring
<1>1. UNCHANGED <<output, output_tail>> /\ InUse' = InUse /\ task # "consume"
  BY DEF TaskStart, SpiInterrupt, InterruptRepeat, InUse, Held, Inv, Baton
<1>2. Pending' = Pending
  BY <1>1, PendingStays
<1>3. Pending # <<>>
  <2>1. InUse # 0
    BY <1>1 DEF InUse, Held, Inv, TypeOK
  <2> QED
    BY <2>1, PendingIs
<1>4. Copies < REPEAT /\ Copies' = Copies + 1
  <2>1. CASE TaskStart /\ state = "FRAME"
    <3>1. /\ task = "start" /\ task' = "wait" /\ spi' = "column"
          /\ spi = "idle" /\ col_count' = (CountAfterReset + 1) % SCREEN_WIDTH
      BY <2>1 DEF TaskStart, Transmit, Inv, Baton
    <3>2. /\ CountAfterReset \in 0 .. SCREEN_WIDTH - 1
          /\ CountAfterReset % REPEAT = 0
      BY <3>1, ResetBound, FrameEnds, WidthPositive
      DEF Place, Aligned, CountAfterReset, Inv, TypeOK
    <3>3. col_count' % REPEAT = 1
      BY <3>1, <3>2, FirstCopy
    <3> QED
      BY <3>1, <3>3, DisplayAssumption DEF Copies
  <2>2. CASE SpiInterrupt /\ InterruptRepeat
    <3>1. /\ task = "wait" /\ task' = "wait" /\ spi # "idle" /\ spi' = "column"
          /\ ~ColumnDone /\ SendColumn(col_count, output_tail)
      <4>1. /\ spi # "idle" /\ spi' = "column" /\ task' = task
            /\ ~ColumnDone /\ SendColumn(col_count, output_tail)
        BY <2>2, Zenon DEF SpiInterrupt, InterruptRepeat, SendColumn, Transmit
      <4> QED
        BY <4>1 DEF Inv, Baton
    <3>2. col_count' % REPEAT = (col_count + 1) % REPEAT
      <4>1. SCREEN_WIDTH % REPEAT = 0
        BY Multiple, DisplayAssumption
      <4> QED
        BY <3>1, <4>1, FrameEnds DEF SendColumn, Inv, TypeOK
    <3>3. /\ col_count % REPEAT \in 0 .. REPEAT - 1
          /\ (col_count + 1) % REPEAT = IF col_count % REPEAT = REPEAT - 1
                                        THEN 0 ELSE (col_count % REPEAT) + 1
      <4>1. col_count \in Nat /\ REPEAT \in Nat \ {0, 1}
        BY DisplayAssumption, WidthPositive DEF Inv, TypeOK
      <4> QED
        BY <4>1, ModSucc, ModBound
    <3>4. Copies = IF col_count % REPEAT = 0 THEN 0 ELSE col_count % REPEAT
      <4>1. CASE spi = "ramwr"
        <5>1. col_count % REPEAT = 0 /\ col_acquired
          BY <3>1, <4>1, FrameEnds DEF Inv, PinLevel, ColumnDone
        <5> QED
          BY <4>1, <5>1 DEF Copies
      <4>2. CASE spi = "column"
        <5>1. col_count % REPEAT # 0
          BY <3>1, <4>2 DEF Place, Aligned, ColumnDone
        <5> QED
          BY <3>1, <4>2, <5>1 DEF Copies
      <4> QED
        BY <3>1, <4>1, <4>2 DEF Inv, TypeOK
    <3>5. Copies' = IF col_count' % REPEAT = 0 THEN REPEAT
                                               ELSE col_count' % REPEAT
      BY <3>1 DEF Copies
    <3> QED
      BY <3>2, <3>3, <3>4, <3>5, DisplayAssumption
  <2> QED
    BY <2>1, <2>2
<1> QED
  BY <1>2, <1>3, <1>4 DEF Stream!Copy

(* The task that has woken up, and the interrupt that finds another column, are
   done with the one at hand; the interrupt sends a copy of the next at once. *)
LEMMA StreamAdvances ==
  ASSUME Inv, Inv', Place, Place',
         TaskAdvance \/ (SpiInterrupt /\ InterruptNext)
  PROVE  Stream!Advance
<1> USE DEF frame, panel
<1>1. /\ output' = output /\ output_tail' = NextSlot(output_tail)
      /\ InUse \in 1 .. RING_BUFFER_SIZE /\ InUse' = InUse - 1
  <2>1. CASE TaskAdvance
    BY <2>1, PendingIs DEF TaskAdvance, InUse, Held, Inv, TypeOK
  <2>2. CASE SpiInterrupt /\ InterruptNext
    BY <2>2, PendingIs
    DEF SpiInterrupt, InterruptNext, InUse, Held, Inv, TypeOK, Baton
  <2> QED
    BY <2>1, <2>2
<1>2. Pending # <<>> /\ Pending' = Tail(Pending)
  BY <1>1, PendingIs, WindowTail
<1>3. Copies = REPEAT
  <2>1. CASE TaskAdvance
    BY <2>1 DEF TaskAdvance, Copies, Inv, Baton, Place, Aligned
  <2>2. CASE SpiInterrupt /\ InterruptNext
    <3>1. spi # "idle" /\ ColumnDone /\ task = "wait"
      BY <2>2 DEF SpiInterrupt, InterruptNext, Inv, Baton
    <3> QED
      BY <3>1 DEF ColumnDone, Copies
  <2> QED
    BY <2>1, <2>2
<1>4. Copies' = 0 \/ (Pending' # <<>> /\ Copies' = 1)
  <2>1. CASE TaskAdvance
    BY <2>1 DEF TaskAdvance, Copies
  <2>2. CASE SpiInterrupt /\ InterruptNext
    <3>1. /\ spi' = "column" /\ ColumnDone /\ state = "FRAME"
          /\ SendColumn(CountAfterReset, NextSlot(output_tail)) /\ consumer > 0
      BY <2>2, Zenon DEF SpiInterrupt, InterruptNext, SendColumn, Transmit
    <3>2. task = "wait" /\ task' = "wait"
      BY <2>2 DEF SpiInterrupt, Inv, Baton
    <3>3. /\ CountAfterReset \in 0 .. SCREEN_WIDTH - 1
          /\ CountAfterReset % REPEAT = 0
      BY <3>1, ResetBound, FrameEnds, WidthPositive
      DEF ColumnDone, CountAfterReset, Inv, TypeOK
    <3>4. col_count' % REPEAT = 1
      BY <3>1, <3>3, FirstCopy DEF SendColumn
    <3>5. InUse # 1
      BY <3>1, <3>2 DEF InUse, Held, Inv, TypeOK
    <3>6. Pending' # <<>>
      BY <1>1, <1>2, <3>5, PendingIs, HeadTailProperties
    <3> QED
      BY <3>1, <3>2, <3>4, <3>6 DEF Copies
  <2> QED
    BY <2>1, <2>2
<1> QED
  BY <1>2, <1>3, <1>4 DEF Stream!Advance

(* A column is put into the stream when its slot is posted. *)
LEMMA StreamPuts ==
  ASSUME Inv, Inv', Place, Place', QueuePost
  PROVE  Stream!Put(next) /\ next \in Columns
<1> USE DEF HostRuns, sems, ring, frame, panel, Inv
<1>1. /\ UNCHANGED <<output, output_tail>> /\ InUse' = InUse + 1
      /\ InUse \in 0 .. RING_BUFFER_SIZE - 1
  BY DEF QueuePost, InUse, Held, TypeOK, TokensConserved, Filling
<1>2. output[Wrap(output_tail + InUse)] = next
  BY DEF QueuePost, Place, Chain, Queued, InUse, Held, TypeOK, Slots
<1>3. Pending' = Append(Pending, next)
  BY <1>1, <1>2, PendingIs, WindowAppend
<1>4. Len(Pending) < RING_BUFFER_SIZE
  BY <1>1, PendingIs, DisplayAssumption
<1>5. Copies' = Copies
  BY DEF QueuePost, Copies
<1> QED
  BY <1>3, <1>4, <1>5 DEF Stream!Put, TypeOK

(* The rest of what the host task does is unseen: it converts into a slot that is
   not in use, and a reset moves no slot and no copy.                        *)
LEMMA StreamUnseen ==
  ASSUME Inv, Inv',
         \/ AccessFrames \/ QueuePend \/ QueueLut
         \/ AccessPals \/ AccessReset \/ OnReset \/ UNCHANGED vars
  PROVE  UNCHANGED Stream!vars
<1> USE DEF HostRuns, Reset, sems, ring, frame, panel
<1>1. UNCHANGED <<task, spi, consumer, output_tail, col_count, col_acquired>>
  BY Zenon
  DEF AccessFrames, QueuePend, QueueLut, AccessPals, AccessReset, OnReset,
     vars
<1>2. Copies' = Copies /\ InUse' = InUse
  BY <1>1 DEF Copies, InUse, Held
<1>3. Pending' = Pending
  <2>1. CASE QueueLut
    <3>1. /\ output' = [output EXCEPT ![output_head] = next]
          /\ main = "lut"
      BY <2>1 DEF QueueLut
    <3>2. /\ output_head = Wrap(output_tail + InUse)
          /\ InUse \in 0 .. RING_BUFFER_SIZE - 1
      BY <3>1
      DEF Inv, HeadLeads, Written, TokensConserved, Filling, TypeOK, InUse,
         Held
    <3>3. output' \in [Slots -> Columns]
      BY DEF Inv, TypeOK
    <3>4. /\ Pending = Window(output, output_tail, InUse)
          /\ Pending' = Window(output', output_tail, InUse)
          /\ output \in [Slots -> Columns] /\ output_tail \in Slots
      BY <1>1, <1>2, PendingIs
    <3>5. \A slot \in Slots \ {Wrap(output_tail + InUse)} :
            output'[slot] = output[slot]
      BY <3>1, <3>2, <3>4
    <3> HIDE DEF ring
    <3> QED
      BY <3>2, <3>3, <3>4, <3>5, WindowStays
  <2>2. CASE ~QueueLut
    <3>1. output' = output
      BY <2>2, Zenon
      DEF AccessFrames, QueuePend, AccessPals, AccessReset, OnReset,
         vars
    <3> QED
      BY <1>1, <1>2, <3>1, PendingStays
  <2> QED
    BY <2>1, <2>2
<1> QED
  BY <1>2, <1>3 DEF Stream!vars

(* Every step of the pipeline is a step of ColumnStream or unseen in it. *)
LEMMA StreamNext ==
  Inv /\ Inv' /\ Place /\ Place' /\ [Next]_vars => [Stream!Next]_(Stream!vars)
<1> SUFFICES ASSUME Inv, Inv', Place, Place', [Next]_vars
             PROVE  Stream!Next \/ UNCHANGED Stream!vars
  OBVIOUS
<1>1. QueuePost => Stream!Next
  BY StreamPuts DEF Stream!Next
<1>2. ASSUME \/ TaskStart /\ state = "FRAME"
             \/ SpiInterrupt /\ InterruptRepeat
      PROVE  Stream!Next
  BY <1>2, StreamCopies DEF Stream!Next
<1>3. ASSUME TaskAdvance \/ (SpiInterrupt /\ InterruptNext)
      PROVE  Stream!Next
  BY <1>3, StreamAdvances DEF Stream!Next
<1>4. TaskStart => state \in {"RAMWR", "FRAME"}
  BY DEF Inv, TypeOK
<1> QED
  BY <1>1, <1>2, <1>3, <1>4, StreamWaits, StreamUnseen
  DEF Next, DisplayTask, SpiInterrupt, HostTask, QueueColumn

(* The pipeline draws the columns it accepts in order and REPEAT times each, and
   holds at most RING_BUFFER_SIZE of them: the safety part of
   ImplementsColumnStream.                                                   *)
THEOREM StreamSafety == Spec => Stream!Safety
<1>1. Init => Stream!Init
  <2> SUFFICES ASSUME Init PROVE Stream!Init
    OBVIOUS
  <2>1. Copies = 0
    BY DEF Init, Copies
  <2>2. InUse = 0 /\ Inv
    BY InitInv DEF Init, InUse, Held
  <2>3. Pending = <<>>
    BY <2>2, PendingIs
  <2> QED
    BY <2>1, <2>3 DEF Stream!Init
<1> QED
  BY <1>1, InitInv, NextInv, PlaceInit, PlaceNext, StreamNext, PTL
  DEF Spec, Stream!Safety
==============================================================================
