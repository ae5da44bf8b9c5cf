------------------------------- MODULE Display -------------------------------
(***************************************************************************)
(* The firmware's display pipeline (apps/doomtime/src/display.cpp) with    *)
(* the GATT handlers that feed it (bt.cpp).  Three contexts share one core:*)
(*                                                                         *)
(*   - the BLE host task (main.cpp's event loop, lowest priority) converts *)
(*     every received column into a slot of the ring output_;              *)
(*   - the display task (DISPLAY_TASK_PRIO, preempts the host task) starts *)
(*     the chain of SPI transfers and sleeps on spi_sem_ while it runs;    *)
(*   - the SPI interrupt, at the end of each transfer, starts the next one *)
(*     or, when the ring is empty, wakes the display task.                 *)
(*                                                                         *)
(* A column is its index in the frame it belongs to: what the properties   *)
(* tell apart is where a column ends up, not its pixels.                   *)
(***************************************************************************)
EXTENDS Integers

CONSTANTS
  RING_BUFFER_SIZE,       \* slots of output_ (100)
  ORIGINAL_SCREEN_WIDTH,  \* columns of a frame as received (48)
  REPEAT,                 \* panel columns drawn from one received column (4)
  SCREEN_WIDTH,           \* panel columns of a frame (192)
  COL_PER_PACKET,         \* columns of one write to the frames characteristic (4)
  PAL_SIZE,               \* sizeof(palette_), in units of the smallest write
  PAL_WRITES              \* sizes of the writes to the palettes characteristic

ASSUME DisplayAssumption ==
  /\ RING_BUFFER_SIZE \in Nat \ {0}
  /\ ORIGINAL_SCREEN_WIDTH \in Nat \ {0}
  /\ REPEAT \in Nat \ {0, 1}
  /\ SCREEN_WIDTH = REPEAT * ORIGINAL_SCREEN_WIDTH
  /\ COL_PER_PACKET \in Nat \ {0}
  /\ PAL_SIZE \in Nat \ {0}
  /\ PAL_WRITES \subseteq Nat

VARIABLES
  producer, consumer, spi_sem,        \* tokens of the three semaphores
  output, output_head, output_tail,   \* the ring of converted columns
  state, col_count, col_acquired,     \* progress of the frame on the panel
  reset,                              \* the atomic flag reset_ (TRUE: set)
  pal_progress,
  spi, src,       \* the transfer in flight, and the slot it reads
  dc,             \* level of PIN_LCD_DATA_COMMAND
  ram,            \* the panel's column pointer
  task, main,     \* where the display task and the host task are
  left, next,     \* columns left in the packet, index of the one at hand
  live,           \* a client has reset the watch and may stream
  failed,         \* an assert has failed: the firmware has stopped
  homed, clean    \* history: see "Where a column is drawn" below

sems    == <<producer, consumer, spi_sem>>
ring    == <<output, output_head, output_tail>>
frame   == <<state, col_count, col_acquired>>
panel   == <<spi, src, dc, ram>>
client  == <<left, next, live>>
history == <<homed, clean>>
vars    == <<sems, ring, frame, reset, pal_progress, panel, task, main,
             client, failed, history>>

Slots   == 0 .. RING_BUFFER_SIZE - 1
Columns == 0 .. ORIGINAL_SCREEN_WIDTH - 1

NextSlot(i) == (i + 1) % RING_BUFFER_SIZE

------------------------------------------------------------------------------
(* The SPI driver and the panel *)

(* hal_spi.c as patched: the transfer-in-progress flag is already clear when
   the callback runs, so the callback may start the next transfer.           *)
BusyInCallback_unpatched == TRUE
BusyInCallback == FALSE

(* hal_spi_txrx_noblock refuses while a transfer is in flight; both callers
   assert that it did not.                                                   *)
Transmit(kind, slot, busy) ==
  /\ spi' = kind
  /\ src' = slot
  /\ failed' = (failed \/ busy)

(* RASET ends at COL_OFFSET + SCREEN_WIDTH, inclusive: the window written by
   RAMWR is one column wider than a frame.                                   *)
PanelColumns == SCREEN_WIDTH + 1

(* The panel's reaction to the transfer that has just ended. *)
Drawn == CASE spi = "ramwr"  -> 0
           [] spi = "column" -> (ram + 1) % PanelColumns
           [] OTHER          -> ram

------------------------------------------------------------------------------
(* The display task and the SPI interrupt *)

(* `if (!reset_.test_and_set()) col_count_ = 0': what is left of col_count_. *)
CountAfterReset_kept == col_count
CountAfterReset == IF reset THEN col_count ELSE 0

(* The panel no longer points where col_count_ says. *)
Homed == homed /\ (reset \/ col_count = 0)

(* os_sem_release(&producer_): the slot at output_tail_ is free again. *)
ReleaseProducer_lost == producer' = producer
ReleaseProducer == producer' = producer + 1

TaskConsume ==          \* os_sem_pend(&consumer_, OS_TIMEOUT_NEVER)
  /\ task = "consume"
  /\ consumer > 0
  /\ consumer' = consumer - 1
  /\ task' = "start"
  /\ UNCHANGED <<producer, spi_sem, ring, frame, reset, pal_progress, panel,
                 main, client, failed, history>>

TaskStart ==            \* the first transfer of a chain
  /\ task = "start"
  /\ reset' = TRUE
  /\ col_acquired' = TRUE
  /\ state' = "FRAME"
  /\ \/ /\ state = "RAMWR"
        /\ col_count' = CountAfterReset
        /\ homed' = TRUE
        /\ dc' = 0
        /\ Transmit("ramwr", src, spi # "idle")
     \/ /\ state = "FRAME"
        /\ col_count' = (CountAfterReset + 1) % SCREEN_WIDTH
        /\ homed' = Homed
        /\ Transmit("column", output_tail, spi # "idle")
        /\ UNCHANGED dc
  /\ task' = "wait"
  /\ UNCHANGED <<sems, ring, pal_progress, ram, main, client, clean>>

TaskWait_missing ==
  /\ task = "wait"
  /\ task' = "advance"
  /\ UNCHANGED <<sems, ring, frame, reset, pal_progress, panel, main, client,
                 failed, history>>
TaskWait ==             \* os_sem_pend(&spi_sem_, OS_TIMEOUT_NEVER)
  /\ task = "wait"
  /\ spi_sem > 0
  /\ spi_sem' = spi_sem - 1
  /\ task' = "advance"
  /\ UNCHANGED <<producer, consumer, ring, frame, reset, pal_progress, panel,
                 main, client, failed, history>>

TaskAdvance ==
  /\ task = "advance"
  /\ output_tail' = NextSlot(output_tail)
  /\ ReleaseProducer
  /\ task' = "consume"
  /\ UNCHANGED <<consumer, spi_sem, output, output_head, frame, reset,
                 pal_progress, panel, main, client, failed, history>>

DisplayTask == TaskConsume \/ TaskStart \/ TaskWait \/ TaskAdvance

(* The interrupt is due for another received column. *)
ColumnDone_early == col_count % REPEAT = 0
ColumnDone == col_count % REPEAT = 0 /\ ~col_acquired

(* The tail of the FRAME case: one more copy of the column in `slot'. *)
SendColumn(count, slot) ==
  /\ Transmit("column", slot, BusyInCallback)
  /\ col_acquired' = FALSE
  /\ \/ /\ count + 1 = SCREEN_WIDTH
        /\ col_count' = 0
        /\ state' = "RAMWR"
     \/ /\ count + 1 # SCREEN_WIDTH
        /\ col_count' = count + 1
        /\ UNCHANGED state

InterruptRamwr ==       \* case state_t::RAMWR
  /\ state = "RAMWR"
  /\ state' = "FRAME"
  /\ dc' = 0
  /\ homed' = TRUE
  /\ Transmit("ramwr", src, BusyInCallback)
  /\ UNCHANGED <<sems, output_tail, col_count, col_acquired, reset>>

FrameDc_missing == dc' = dc
FrameDc == dc' = IF col_count = 0 THEN 1 ELSE dc

InterruptRepeat ==      \* the column at hand again
  /\ state = "FRAME"
  /\ ~ColumnDone
  /\ FrameDc
  /\ SendColumn(col_count, output_tail)
  /\ UNCHANGED <<sems, output_tail, reset, homed>>

InterruptNext ==        \* the next column of the ring
  /\ state = "FRAME"
  /\ ColumnDone
  /\ consumer > 0
  /\ FrameDc
  /\ reset' = TRUE
  /\ homed' = Homed
  /\ consumer' = consumer - 1
  /\ ReleaseProducer
  /\ output_tail' = NextSlot(output_tail)
  /\ SendColumn(CountAfterReset, NextSlot(output_tail))
  /\ UNCHANGED spi_sem

(* os_sem_release(&spi_sem_) *)
WakeTask_lost == spi_sem' = spi_sem
WakeTask == spi_sem' = spi_sem + 1

InterruptStarved ==     \* os_sem_pend timed out: hand over to the task
  /\ state = "FRAME"
  /\ ColumnDone
  /\ consumer = 0
  /\ FrameDc
  /\ reset' = TRUE
  /\ homed' = Homed
  /\ col_count' = CountAfterReset
  /\ WakeTask
  /\ spi' = "idle"
  /\ UNCHANGED <<producer, consumer, output_tail, state, col_acquired, src,
                 failed>>

SpiInterrupt ==
  /\ spi # "idle"
  /\ ram' = Drawn
  /\ InterruptRamwr \/ InterruptRepeat \/ InterruptNext \/ InterruptStarved
  /\ UNCHANGED <<output, output_head, pal_progress, task, main, client, clean>>

------------------------------------------------------------------------------
(* The host task: the GATT handlers and the calls they make *)

(* The display task preempts the host task whenever it can run.  SPI
   interrupts come between any two steps of either.                        *)
TaskReady == \/ task \in {"start", "advance"}
             \/ task = "consume" /\ consumer > 0
             \/ task = "wait" /\ spi_sem > 0

HostRuns(at) == main = at /\ ~TaskReady

(* bt_t::access_frames: COL_PER_PACKET calls of queue_column. *)
AccessFrames ==
  /\ HostRuns("idle")
  /\ live
  /\ left' = COL_PER_PACKET
  /\ main' = "pend"
  /\ UNCHANGED <<sems, ring, frame, reset, pal_progress, panel, task, next,
                 live, failed, history>>

QueuePend ==            \* os_sem_pend(&producer_, OS_TIMEOUT_NEVER)
  /\ HostRuns("pend")
  /\ producer > 0
  /\ producer' = producer - 1
  /\ main' = "lut"
  /\ UNCHANGED <<consumer, spi_sem, ring, frame, reset, pal_progress, panel,
                 task, client, failed, history>>

QueueLut ==             \* the slot at output_head_ is written
  /\ HostRuns("lut")
  /\ output' = [output EXCEPT ![output_head] = next]
  /\ output_head' = NextSlot(output_head)
  /\ main' = "post"
  /\ UNCHANGED <<sems, output_tail, frame, reset, pal_progress, panel, task,
                 client, failed, history>>

QueuePost ==            \* os_sem_release(&consumer_), and access_frames' loop
  /\ HostRuns("post")
  /\ consumer' = consumer + 1
  /\ next' = (next + 1) % ORIGINAL_SCREEN_WIDTH
  /\ left' = left - 1
  /\ main' = IF left = 1 THEN "idle" ELSE "pend"
  /\ UNCHANGED <<producer, spi_sem, ring, frame, reset, pal_progress, panel,
                 task, live, failed, history>>

QueueColumn == QueuePend \/ QueueLut \/ QueuePost

(* display_t::reset *)
Reset ==
  /\ HostRuns("idle")
  /\ pal_progress' = 0
  /\ reset' = FALSE
  /\ UNCHANGED <<sems, ring, frame, panel, task, main, left, failed, homed>>

(* bt_t::access_reset: a client starts, its next column is column 0. *)
AccessReset ==
  /\ Reset
  /\ live' = TRUE
  /\ next' = 0
  /\ clean' = (consumer = 0)

(* bt_t::s_on_reset: the BLE host has been reset, connections are gone. *)
OnReset ==
  /\ Reset
  /\ live' = FALSE
  /\ clean' = (clean /\ consumer = 0)
  /\ UNCHANGED next

(* display_t::write_palette: how much of a write of `size' is kept. *)
Kept(size) == IF size < PAL_SIZE - pal_progress THEN size
                                                ELSE PAL_SIZE - pal_progress

AccessPals ==           \* bt_t::access_pals
  /\ HostRuns("idle")
  /\ live
  /\ \E size \in PAL_WRITES :
       pal_progress' = (pal_progress + Kept(size)) % PAL_SIZE
  /\ UNCHANGED <<sems, ring, frame, reset, panel, task, main, client, failed,
                 history>>

HostTask == AccessFrames \/ QueueColumn \/ AccessReset \/ OnReset \/ AccessPals

------------------------------------------------------------------------------
(* The specification *)

InitialProducer_off_by_one == RING_BUFFER_SIZE + 1
InitialProducer == RING_BUFFER_SIZE

Init ==                 \* display_t::init
  /\ producer = InitialProducer /\ consumer = 0 /\ spi_sem = 0
  /\ output = [slot \in Slots |-> 0] /\ output_head = 0 /\ output_tail = 0
  /\ state = "RAMWR" /\ col_count = 0 /\ col_acquired = FALSE
  /\ reset = TRUE /\ pal_progress = 0
  /\ spi = "idle" /\ src = 0 /\ dc = 1 /\ ram = 0
  /\ task = "consume" /\ main = "idle"
  /\ left = 0 /\ next = 0 /\ live = FALSE
  /\ failed = FALSE
  /\ homed = FALSE /\ clean = TRUE

Next == DisplayTask \/ SpiInterrupt \/ HostTask

Spec == Init /\ [][Next]_vars

(* Transfers end, and the two tasks run whenever the scheduler lets them.
   Nothing makes a client write.                                            *)
Fairness == /\ WF_vars(DisplayTask)
            /\ WF_vars(SpiInterrupt)
            /\ WF_vars(QueueColumn)

FairSpec == Spec /\ Fairness

------------------------------------------------------------------------------
(* Properties *)

(* Every variable keeps its range; in particular the cursors stay inside the
   ring, and no semaphore counts more than there is.                         *)
TypeOK ==
  /\ producer \in 0 .. RING_BUFFER_SIZE
  /\ consumer \in 0 .. RING_BUFFER_SIZE
  /\ spi_sem \in {0, 1}
  /\ output \in [Slots -> Columns]
  /\ output_head \in Slots /\ output_tail \in Slots
  /\ state \in {"RAMWR", "FRAME"}
  /\ col_count \in 0 .. SCREEN_WIDTH - 1
  /\ col_acquired \in BOOLEAN /\ reset \in BOOLEAN
  /\ pal_progress \in 0 .. PAL_SIZE - 1
  /\ spi \in {"idle", "ramwr", "column"} /\ src \in Slots
  /\ dc \in {0, 1} /\ ram \in 0 .. PanelColumns - 1
  /\ task \in {"consume", "start", "wait", "advance"}
  /\ main \in {"idle", "pend", "lut", "post"}
  /\ left \in 0 .. COL_PER_PACKET /\ next \in Columns
  /\ live \in BOOLEAN /\ failed \in BOOLEAN
  /\ homed \in BOOLEAN /\ clean \in BOOLEAN

(* Slots taken by the reading side: the one at hand and those queued. *)
Held  == IF task = "consume" THEN 0 ELSE 1
InUse == Held + consumer

(* The slot the host task has taken and not yet posted. *)
Filling == IF main \in {"lut", "post"} THEN 1 ELSE 0

(* No token is lost or made up, whichever of the task and the interrupt frees
   a slot: every slot is free, being filled, queued or at hand.              *)
TokensConserved == producer + Filling + InUse = RING_BUFFER_SIZE

(* The slots in use are the InUse ones that start at output_tail. *)
SlotInUse(slot) ==
  \/ output_tail =< slot /\ slot < output_tail + InUse
  \/ slot + RING_BUFFER_SIZE < output_tail + InUse

(* queue_column converts into a slot that nobody reads: neither the transfer in
   flight nor one that any queued column will start.                         *)
SlotStable == main = "lut" => /\ ~SlotInUse(output_head)
                              /\ spi = "column" => src # output_head

(* A transfer reads the slot the reading side holds: its token has not been
   given back while the DMA still runs.                                      *)
TransferHoldsSlot == spi = "column" => task # "consume" /\ src = output_tail

(* The data/command pin has the level of the bytes on the wire, although it is
   only raised at col_count_ = 0.                                            *)
DcMatches == /\ spi = "column" => dc = 1
             /\ spi = "ramwr"  => dc = 0

(* No transfer is ever started while another is in flight, by the task or by
   the interrupt: the asserts after hal_spi_txrx_noblock hold.               *)
NoAssert == ~failed

(* Where a column is drawn.  `homed': since the last RAMWR no reset has moved
   col_count_ away from the panel's pointer.  `clean': the last reset found the
   ring empty, so that the first column after it is the client's column 0 (a
   reset that finds columns queued is spent on an old one, and the frames
   that follow are shifted for good).  A column then lands in the panel columns
   of its index, however starvation splits a frame between task and interrupt. *)
RightPlace == spi = "column" /\ clean /\ homed /\ reset
                => output[src] = ram \div REPEAT

(* queue_column never blocks the host task for ever on a full ring: the interrupt
   that finds it empty and the task that sleeps never both wait for the other. *)
HostReturns == main = "pend" ~> main # "pend"
==============================================================================
