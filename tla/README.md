# doomtime: specification and proofs

doomtime plays Doom on a PineTime watch.  A patched chocolate-doom runs on a
host and hands every frame, through shared memory, to a client; the client
sends it over Bluetooth LE, column by column, to a firmware which converts the
columns and draws them by SPI.  Nothing is acknowledged above the link layer:
the firmware knows where a column belongs only by counting, the client knows
that a frame is whole only because both of its threads behave, and the game
knows that it may draw the next frame only by a semaphore.  That is what the
modules here are about.

    game ──shm + 2 semaphores──> client: consumer thread ──stack──> main thread
                                                                        │
        panel <──SPI── interrupt/display task <──ring── BLE host task <─┘ BLE

## The parts of the system

| part | source | state | operations | hard because |
|------|--------|-------|------------|--------------|
| producer library | `host/ipc_lib/producer.cpp` | the shared buffer, `run` | set_palettes, set_windowxy, palette_changed, frame_ready, frame_rendered, disconnected, ~producer_t, SIGINT | timed waits, a client that comes, goes or dies |
| shared memory | `host/ipc_shared_data/doomtime_shm_interface.hpp` | its name, frame, palettes, window, `nempty`, `nstored` | timed wait, post | two processes, any of which may be killed |
| consumer thread | `host/client/consumer_thread.cpp` | `run`, `first` | start, loop, join, destructor | races the game and its own main thread |
| frame buffer | `host/client/frame_buffer.cpp` | the lock-free `stack_`, `run_`, mutex and condition | push, pop, stop | notification without the mutex |
| transport | `host/client/transport.cpp` | `pkts_`, `frame_progress_`, timers, the averages | upload, write chain, reports, throughput timer | callbacks of one io_context; it can only stop inside one; two sockets with no order between them |
| client entry | `host/client/client.cpp` | `run` | starts, joins | order of ending |
| throughput controller | `host/client/pid_controller.hpp` | integral, last input | compute | saturation: the radio stalls and comes back |
| GATT service | `apps/doomtime/src/bt.cpp` | whether the watch advertises, who is connected | access_frames, access_reset, access_pals, GAP events, on_sync, s_on_reset | every end of a connection must lead back to advertising; one set of cursors for all clients |
| display pipeline | `apps/doomtime/src/display.cpp` | ring, three semaphores, frame counters, palette; the panel's settings | init, queue_column, reset, write_palette, display task, SPI interrupt | three contexts, one of them an interrupt that also advances the ring |
| SPI driver patch | `patches/mynewt-core.patch` | transfer-in-progress flag | callback | lets the callback start the next transfer |
| lookup | `apps/doomtime/src/lut.hpp`, `scripts/rgb_to_packed_rgb444.py` | – | pack a palette, look a column up | 12-bit values across byte boundaries |
| BlueZ | `patches/bluez.patch` | external: two sockets, one queue | takes writes, reports the queue's length | loses all of it with the connection |
| game | `patches/chocolate-doom.patch` | external | calls the producer library | – |

`PROJECT.json` lists the rest (scripts, tests, generated data) and, under
`hazards`, each place where something can go wrong that a test would hardly
reach, with the properties that speak about it.

What makes each part correct, in one line:

- *handoff*: a frame is never written while it is read; none is skipped or read
  twice; if one process goes, the other follows.
- *client*: only whole frames reach the socket, and each was the newest when it
  was begun; both threads end when either does.
- *display pipeline*: every column queued is drawn REPEAT times, in order, at
  its place; a slot is not overwritten while it is queued or being sent; the
  BLE host task never hangs.
- *bring-up*: every command and parameter reaches the panel as what it is, and
  the display task and the handlers find what they need.
- *sessions*: one computer at a time, and the watch can be found when there is
  none; the palettes of the newest upload lie where the frames look for them,
  whatever broke off before.
- *packets*: what the client lays out is what the firmware takes apart.
- *throughput*: the pause between two frames stays in its range and follows the
  queue, at once also after a silence.
- *name*: no client finds a dead game's memory.
- *lookup*: a pixel appears in the colour the palette packed on the host gives it.

## Modules

### Display (with ColumnStream, DisplayProofs)

`display.cpp` and the handlers of `bt.cpp` that call it.  Three contexts share
one core:

- the **host task** runs `main.cpp`'s event loop: `AccessFrames` (a packet of
  COL_PER_PACKET columns), `QueuePend`, `QueueLut`, `QueuePost` (the three steps
  of `queue_column`), `AccessReset`, `OnReset`, `AccessPals`.  It is of lower
  priority than the display task, so it moves only when that one is blocked
  (`HostRuns`, `TaskReady`);
- the **display task**: `TaskConsume`, `TaskStart`, `TaskWait`, `TaskAdvance`
  are the stretches of `task_handler` between its semaphore calls;
- the **SPI interrupt**, `SpiInterrupt`: the whole of `spi_txrx_callback`,
  split by the path it takes (`InterruptRamwr`, `InterruptRepeat`,
  `InterruptNext`, `InterruptStarved`).  It comes between any two steps of the
  other two whenever a transfer is in flight.

Variables have the names of the members without the trailing underscore.  A
slot of `output_` holds the index of its column in the frame rather than its
pixels.  `spi`, `src` are the transfer in flight and the slot its DMA reads,
`dc` the data/command pin, `ram` the panel's own column pointer; the panel
(reset to the left edge by RAMWR, moved one column by each transfer, its window
one column wider than a frame as `init_caset_raset` sets it) is external.
`failed` records that an `assert(rc == 0)` after `hal_spi_txrx_noblock` has
failed.  `homed` and `clean` are history variables for `RightPlace`.  Of the
palette only the cursor `pal_progress` is kept here; its contents are Session's.

Init is the state in which `BringUp` leaves the firmware.

`ColumnStream` is what the pipeline promises: a bounded queue whose oldest
element is drawn exactly REPEAT times, then the next.  `MCDisplay` gives the
refinement mapping: `Pending` are the slots from `output_tail` on, `Copies` the
transfers of the oldest that have been started.

### FrameSync (with Rendezvous, FrameSyncProofs)

The game's calls into the producer library and the consumer thread, one action
per stretch between two accesses to shared memory that the other process could
observe.  A frame is its number modulo FRAMES.  The two `int`s of the window are
written and read one at a time.  Either process can be killed at any point
(`GameKilled`, `ClientKilled`); a new client can then be started as long as the
name exists (`ClientStart`); SIGINT only clears a flag (`Sigint`).  A timed wait
may give up whenever the semaphore is 0.  What the client does with the frame,
and when its main thread ends, is `Client`'s: `Join` may happen at any time.
The client's end is cut where another process can see it: the last post of
`nempty` (`ConsumerDestroyed`), then the removal of the name (`ShmRemoved`).  A
client killed between the two leaves a token too many to its successor; the
history variable `orphan` remembers that, and the properties of the handoff are
stated for the time before, because the code has no remedy.
External: the game between its calls, and being killed.

`Rendezvous` is what shared memory and its semaphores promise about a frame: it
is drawn, offered together with its palette, taken by the client in one step,
never while the game draws, and only then returned from.  `MCFrameSync` gives the
mapping: `Phase` and `Presence` are what the game and the client are at, `View`
the frame and palette the client has in hands, from the copy of the pixels on.

### Client (with Register, ClientProofs)

Both threads of the client seen from the frame buffer.  Each handler of the
io_context is one action of the main thread; the blocking first `pop` is cut
where it takes and releases its mutex (`Pop`, `Evaluate`, `Sleep`,
`PopTimeout`), because `push` notifies without the mutex and `stop` sets its
flag with it.  `stack_` is a sequence, newest first, of the
MAX_STACK newest frames: whoever pops takes the first and drops the others.  A
wait on the socket may take any time and may end in an error.  `use_pid` is
chosen in Init: the same run covers the client with the throughput controller
and without.

`Register` is what both threads together promise: the newest frame overwrites
the one before, and is read whole, packet by packet, until the client ends.  The
mapping, in `MCClient`, is `pushed`, `sent` and `why`: the stack, the mutex, the
frame in `pkts_` and the index into it are not seen.

### BringUp (with PanelProofs)

`main` up to the event loop: each function of `display.cpp` is the sequence of
pin writes, transfers and semaphore calls it makes, and one action takes one of
them.  The pins begin at any level.  The panel (external) takes a transfer for a
command or for data by the level of the pin, which no function restores:
whether a byte is heard for what it is depends on the functions called before.
Delays are left out.

### Gatt, Session (with SessionProofs)

`Gatt` is `bt.cpp`'s GAP callbacks: one action per event, with the callback's
call of `advertise`, which asserts.  `Session` extends it by what goes over a
connection: the script's reset, the upload in pieces (`transport_t::run`), the
packets, BlueZ's two sockets and its queue, and the firmware's cursor into
`palette_`.  A unit of the palette holds the session that wrote it and its
place there.  The client may end between any two steps, the connection may be
lost, which the two ends notice at different times, and the watch's BLE host
may be reset (`OnReset`); then another client starts, on the same computer or on
the other.  A packet carries, as history, whether it overtook its palettes.

External, and assumed: BlueZ delivers what is in its queue reliably and in
order as long as the connection lasts and sends a request after the writes
before it; a dead client's sockets are closed before another client starts on
that computer; NimBLE reports no disconnection on its own account before it
calls `s_on_reset`.  `failed`, in OneClient, stands for the asserts of `advertise`
only: those on `ble_gap_conn_find` in the other events (`bt.cpp:229-237`) are not
modelled.

### Packets (with PacketsProofs)

`frame_buffer_t::push` lays a frame out and `access_frames` takes it apart, each
with its own numbers (HEIGHT, STEP and MTU; 48, 49 and 196).  A pixel is the
place it had in the game's frame, so that a byte that goes astray is seen.

### Throughput (with ThroughputProofs)

`on_read_`, `on_pid_timer_` and `compute`.  Time passes in ticks, BlueZ reports
any length at any tick, the timer fires a second after its start or later.
Floating point numbers are integers in units of 1/SCALE, a multiple of
every length a second can have, so divisions are exact; rounding is not modelled.

`mv_` is the pause after the last packet of a frame (`transport.cpp:108`), so its
range bounds the frame rate from above, by 35; how slow it gets is also up to
how long the writes take.

`NoWindUp` says when `mv_` begins to react, not when it has settled.  `owed` is what
the integral gain has asked for since the average crossed the set point; with
`client.py`'s gain that is 40 microseconds for each packet above it and second, and
the first of them count at once, however long the queue was empty before.
From one end of its range to the other is another matter: 471 429 microseconds, three
hours at twice the set point, a minute and a half with 140 packets queued.
The 20 to 30 seconds of `src/README.md:221` are about the loop with a radio in it,
which is not modelled.

### Shm (with ShmProofs)

The name of the shared memory over the lives of several games and clients:
created after a removal by the game, removed by the game's destructor, and by
`shm_remove` in every client that got as far as starting.  A name stands for the
memory of one game; a client keeps what it has mapped.

### Lut (with PanelProofs)

One action, one round of the loop in `lut.hpp`, over any palette and column;
`Packed` is the host's `rgb_to_packed_rgb444.py`.

## The runs

| run | module, configuration | states | what it shows |
|-----|----------------------|--------|---------------|
| display | MCDisplay, `MCDisplay.cfg` | 65 138 | tokens are conserved, a slot in use is never written, the pin matches the bytes, no assert fails, columns are drawn in their place; `queue_column` returns; the pipeline implements ColumnStream |
| framesync | MCFrameSync, `MCFrameSync.cfg` | 115 430 | no overwrite, frames in order and once, through timeouts, kills and restarts; every step is one of Rendezvous, so a frame comes with its palette; the farewell waits for the client's end; the end of one process, however it comes, ends the other; Ctrl-C works |
| client | MCClient, `MCClient.cfg` | 5 836 | whole frames, no missed stop, no false timeout; every step is one of Register, so each frame is the newest; both threads end once one wants to |
| session | MCSession, `MCSession.cfg` | 124 963 | one computer at a time, the watch can be found, the palettes land whole, packets find them, an upload ends |
| packets | MCPackets, `MCPackets.cfg` | 741 | columns on the watch are the columns of the window, at the real sizes |
| bring_up | MCBringUp, `MCBringUp.cfg` | 1 282 | everything sent is heard, the task finds panel and semaphores, only the last column of the background is missing, at the real sizes |
| throughput | MCThroughput, `MCThroughput.cfg` | 1 078 548 | `mv_` stays in its range, no time is lost between two seconds, and `mv_` reacts in the first second on the other side of the set point: nothing has to be unwound |
| shm | MCShm, `MCShm.cfg` | 2 452 | a client finds the last game's memory or none; nothing is left behind |
| lut | MCLut, `MCLut.cfg` | 196 608 | packing and lookup agree for all palettes and columns of the instance |
| framesync_window, framesync_hexen, shm_name | MCFrameSync, MCShm | | the three disagreements below |

Each property of a passing run has a mutant in `PROJECT.json`: a plausible slip
in one definition (`..._lost`, `..._early`, `..._unlocked`, written above it in
the module) that TLC must notice.

### Bounds, and why they are enough

- Display: 3 slots instead of 100, frames of 3 columns drawn twice instead of 48
  drawn four times, packets of 2 instead of 4.  The ring is as long as a frame
  but not a multiple of the packet, so cursors, frames and packets meet in every
  alignment; a full ring, an empty one and a starved interrupt at each column of
  a frame all occur.  REPEAT = 2 separates the first copy of a column from the
  last.  The pipeline runs for ever: no counter is bounded.  The safety
  properties are proved for all sizes.  PAL_WRITES = {2} with a
  PAL_SIZE of 3 makes a write cross the end of the palette.
- FrameSync: frame numbers modulo 3 tell a frame from the one before and the one
  after, and only one is ever under way.  Two palettes are the least that can be
  confused.  The main run keeps one window offset, because nothing depends on
  it but `WindowOfFrame`, which has a run of its own with two.  One client may
  leave a surplus token (`orphan`): most properties are void from then on, and of
  a second one they would say nothing either.  In the code each client killed there
  leaves another token, so the three that TypeOK allows are this bound's.  `framesync_hexen` scales 28 palettes and the bound 14 to 4 and 2.
- Client: 3 packets per frame give a first, a middle and a last one; of
  `stack_` the 3 newest frames are kept, the others are never looked at; 4 frame
  numbers keep those and the one being sent apart.  MAX_STACK never blocks
  a `Push`.
- Session: palettes of 4 units, uploads of 2 and 4 (Doom's fills half of
  `palette_`, Hexen's all of it) in pieces of 3, so that an upload has a full
  piece and a rest, and the full one ends exactly at the wrap.  SESSIONS = 2 is
  one client that breaks off anywhere and the next; two computers; SOCKET = 1 and QUEUE = 2 let a packet
  overtake a piece and a reset follow what an older client has left.
- Packets, BringUp: the real sizes, and both are proved for all.  The windows are the corners of the frame, one
  inside, and those one pixel beyond each edge, negative ones included.
- Throughput: a second of 2 ticks that may last LATE = 3, reports at most SILENCE
  = 4 ticks apart, so that a silence covers a whole second; queues of 0 to
  QMAX = 3 around a set point of 1; gains scaled so that the
  integral saturates either way within a few seconds, many times over in a behaviour.
- Shm: three games and two clients: a client that outlives two games while
  another serves the third.
- Lut: 4 colours are two of either alignment; 2 pixels; the two components 31
  and 242 have four different halves.  Proved for all sizes.

Deadlock is checked for the display pipeline and the throughput controller, which
never stop.  The others really end: the game and the client exit, `push` throws,
the loop of `lut` and the bring-up are over; in Session and Shm the bound on
clients or games is used up.

### Fairness

- Display: weak fairness of the display task (highest priority of the
  application), of the interrupt (a transfer that was started ends) and of
  `queue_column` once begun (the host task runs whenever the display task is
  blocked, which is its guard).  No client has to write anything, and no
  reset has to come.
- FrameSync: weak fairness of the game's and of the consumer thread's steps:
  both are scheduled, and `timed_wait` returns.  Strong fairness of
  `FrameReady`: the game's main loop draws a frame in each round, so it cannot
  set palettes and windows for ever.  Weak fairness of `Join` once `client_run`
  is false is an assumption on the main thread; it is `BothEnd` of Client.
  Kills, SIGINT and starts are never fair.
- Client: both threads run; timers fire; the socket for the palettes accepts
  them.  That a write of a frame completes is assumed only where `use_pid` is
  false: with the throughput controller its timer looks at `run` every second,
  without it only a completed write leads back to code that does.
- Session: the client runs, BlueZ takes from the palettes' socket, what is queued
  is delivered while both ends are connected, and a computer notices in the end
  that a connection is gone.  No packet need be taken, nobody need connect,
  and no client need start or end.

## Where the code and its words disagree

- The client reads `windowx`, `windowy` after `nempty.post()`
  (`consumer_thread.cpp:103`), although `doomtime_ipc.h:17` says of
  `doomtime_ipc_frame_rendered` that it "blocks until data is read by consumer": a
  frame may be cropped at the next frame's offset, or at half of it (`WindowOfFrame`).  The frame itself and its palette
  are read before (`ImplementsRendezvous`, `NoOverwrite`).
- The buffer is sized "256 color 28 for hexen" (`doomtime_shm_interface.hpp:13`)
  and the Hexen patch selects from 28 palettes, but `palette_changed` throws
  from index 14 on (`producer.cpp:98`), through C code (`PalettesAccepted`).

- `~shm_remove` removes the name whatever it stands for
  (`consumer_thread.cpp:11`).  A client of the last game that ends, or a client
  that was started too early and finds nothing, after the next game has created
  its memory leaves that game "waiting for client.." (`producer.cpp:35`) for a
  client that cannot come (`ClientCanCome`).  The README's order of starting (wait
  for that message) does not help against the late end of an older client.

Known and not checked as a violation of their own:

- a reset that arrives while columns are queued is spent on one of the old
  columns, and what follows is shifted sideways until the next reset
  (`RightPlace` excludes it by `clean`);
- frames and palettes travel on different sockets, so packets may overtake the
  palettes they use (`RightPalettes` excludes those, by `overtook`);
- `~consumer_thread_t` posts `nempty` once more than frames were read
  (`consumer_thread.cpp:42`), for a game that waits in `disconnected`; a frame
  posted meanwhile takes that token and `frame_rendered` returns unread.  With a
  client present the promise holds (`ReadBeforeReturn`), and the farewell is
  never taken in by a token meant for a frame (`FarewellHeard`);
- a client killed between that post and the removal of the name puts its
  successor a frame behind for good (`orphan`);
- `src/README.md:213` says that `mv` is based on "the number of average packets
  queued in BlueZ in the last second".  A report counts for all the time since
  the one before, also for what lies in an earlier second, and the sum is divided
  by this second alone: after a silence the average exceeds every length
  there was, and during it it is 0.  `TimeAccounted` is what holds instead;
- `clear_screen`'s window is one larger than the panel either way, which is why
  "the last column is missing from the background" (`src/README.md:226`);
  `LastColumnMissing` shows that it is exactly that column but its first pixel.

## What is proved

Every safety property of the passing runs, for every value of the
constants that satisfies the assumption of the module it is about, and the safety
part of all three refinements.  The proofs are in modules of their own, and they
have the same shape: an inductive invariant `Inv`, made of named parts; a lemma
that Init gives it; one lemma or step per action that keeps it; and theorems that
read the properties off it.  TLC checked each invariant on the runs' instances
before it was proved.

**DisplayProofs.**  `TypeCorrect`, `Conservation`, `SlotSafety`,
`TransferSafety`, `PinSafety`, `BusSafety`: the properties TypeOK,
TokensConserved, SlotStable, TransferHoldsSlot, DcMatches and NoAssert hold
always.  None is inductive alone; `Invariance` proves their strengthening `Inv`:

- `Baton`: the task is awake and the bus idle, or the task sleeps on `spi_sem_`
  until the chain of transfers ends, and that is when the semaphore gets its only
  token.  It gives NoAssert, and it is what makes the interrupt and the task
  never free slots at the same time;
- `HeadLeads`: the host task's cursor is ahead of the readers' by exactly the
  slots written and not yet freed.  With TokensConserved it gives SlotStable: a
  token of `producer_` means that those slots do not reach round the ring;
- `PinLevel`: how the level of the pin follows from `state_` and `col_count_`
  (the pin is raised at `col_count_ = 0` only; a reset may set that at any
  column, but RAMWR always leads there);
- `PacketLeft`: the host task is inside the loop of access_frames only with
  columns left.

`PlaceSafety` (RightPlace) needs a second invariant, `Place`, on top of the first:

- `Aligned`: a column is begun and ended where `col_count_` is a multiple of
  REPEAT, and in between `col_acquired_` is set;
- `Pointer`: the panel's own pointer is where `col_count_` says;
- `Chain`: since a clean reset the queued columns, and the one to come, follow
  each other;
- `Phase`: the first of them is the one `col_count_` is due for, which while a
  reset is pending is the one it will be due for (`CountAfterReset`);
- `Silent`: without a client nothing is queued.

`StreamSafety` is the refinement: the first state is one of ColumnStream, and
each action is a step of it (a `Receive` when a column is posted, a `Copy` when a
transfer of pixels begins) or leaves `Pending` and `Copies` alone.  It is
`ImplementsColumnStream` without the fairness.

The proof has one step for each action, and lemmas for what a cursor does at the
wrap, for division by REPEAT and for what a reset leaves of `col_count_`.  Assumed
of the constants: sizes are positive, REPEAT is at least 2 (it is 4:
`col_acquired_` would not work otherwise), SCREEN_WIDTH is REPEAT columns for
each column received.

**FrameSyncProofs.**  `TypeCorrect`, `NeverOverwritten`, `PaletteBelongs`,
`ReadFirst`, the action properties `InOrder` and `HeardAtLast`, and the
refinement `RendezvousKept`.  The invariant
counts tokens (`Tokens`): what is in `nempty`, in `nstored` and in the client's
hands is at most one while the game does not hold the buffer, and otherwise only
what `~consumer_thread_t` has posted besides (`Surplus`: one for a client
that is over, one for a client killed in between).  `Handoff` says what the buffer holds
according to who holds it: `Reading` (the frame after the last read, with the
palette it was sent with), `Waiting` (nobody has it) and `Farewell` (the game in
`disconnected`).  It is conditional on `orphan`, like the properties.  Any
number of frames, palettes and offsets.

`RendezvousKept` (ImplementsRendezvous) goes action by action: `MeetingGame`,
`MeetingConsumer` and `MeetingClients` say which step of `Rendezvous` each one is,
or that it is unseen.  Beyond `Inv` it needs how the two processes' counts of
frames go together, which is inductive only with it (`ReturnAlways`): `Offering`
(the last frame posted is the one before the one being drawn, or it), `Ahead`
(whenever the game waits and may yet return, it is at most one frame ahead of the
last one read) and `Parting` (the last post of a client that is over lets the game
return once more, not twice).
The client's two reads, of the pixels and of the palette's index, are one `Take`
because nothing can change the index between them: that is `PaletteBelongs`.
After an `orphan` the promise is void, and `OrphanStays` keeps it so.

**ClientProofs.**  `TypeCorrect`, `NeverSleepsThroughStop`, `TimesOutInVain`, the
action properties `WritesWholeFrames` and `WritesLatest`, and the refinement
`RegisterKept`.  `Top`: the head of
`stack_` is the last frame pushed, and none is dropped before the first `pop` returns;
`Latest`: `pkts_` is the last frame pushed until a new one comes; `Written`: a
pending write is of the packet before `frame_progress_`, and with none pending
the last packet of a frame went out; `NoStop`: `pop` sleeps only if there was no
stop to hear when it looked.  `RegisterKept` (ImplementsRegister) needs besides
that `tr.run()` has been left exactly if there is a reason (`Reason`) and that
nothing is sent before a first frame (`Begun`); a frame timer that finds `run` set
is a `BeginFrame`, a write that ends inside a frame a `ContinueFrame`, every way
out of a handler an `End`, and the rest is unseen.

**SessionProofs.**  `OneAtATime` and `AlwaysFindable` (OneClient, Findable) follow
from `OnAir`: advertising and a connection exclude each other, and as long as
the host is in sync there is one of them.  Each GAP event has its lemma; nothing
that clients or BlueZ do touches those variables.

`UploadArrives` and `RightlyColoured` (UploadLands, RightPalettes), and
`TypeCorrect`, rest on an invariant whose core is `Lands`: of the palettes of a
session the first d units are in `palette_` with the cursor behind them, and the
pieces still on their way carry exactly the units from d on, each once and in
order.  `Uploads` says so of the client's upload, over BlueZ's queue and then the
socket; `Shown` of each packet that did not overtake, over the writes before it
in the queue; `Rewound` and `Places` say that an upload begins with the cursor at
0 and an empty queue, because the reset was the last write before it and has
been answered.  All of it is claimed of the connected computer only, and
`OnAir` makes that one: that is where the proof needs that a second client cannot
connect.  That no piece is cut at the end of `palette_` is a consequence.

**ThroughputProofs.**  `TypeCorrect`, `NoTimeLost`, `NothingToUnwind` (TypeOK,
TimeAccounted, NoWindUp), for every gain, set point and range of the output.
`Driven` ties the integral to the history: it is at least its lower bound and all
that is `owed` since the average crossed the set point, or at most its upper one
and what is owed, whatever went before (`Driving`, `Follows`).  `OtherTerms` says
that the proportional term pulls the same way, and the derivative one too
unless the average is on its way back.  Averages are exact quotients, as in
the model.

**PacketsProofs.**  `WindowArrives` (ColumnsOfWindow): by `Layout`, column c
of a frame is at c % COL_PER_PACKET of packet c div COL_PER_PACKET, and the cuts
of `access_frames` find it there.  Its hypothesis `Agreement` is that the numbers
the client has in `common.hpp` are those the firmware has: they are written down twice in the
repository, and are equal there.  It is stated with the theorem, not assumed in
the module, because nothing in the code enforces it.

**PanelProofs, bring-up.**  `AlwaysHeard`, `TaskIsReady` and `LastColumn` (Heard,
TaskFindsPanel, LastColumnMissing), for every frame smaller than its square panel
and every background that tiles it.  The code is a program put together
from functions, so the proof begins with the program: `MainIs` says that `main` is
one numbered list: `Setup` (36 steps), the rows of the background, each sent COPIES
times across and down, and `Rest` (20 steps).  Its lemmas say of each function, in the order of the calls, at which
numbers its steps are (`Fits`).  `Inv` then says what the first `pc` steps have
left: `Bus` (enabled, selected, out of reset), `Level` (the pin is where the last
step that needed it has put it), `Settled`, `Window` (which command takes the data,
and what the window is), `Stream` (pixels sent so far) and `Started`.  `Level` is
inductive because of `SendsFollow`: a transfer comes after the write of the pin it
needs, or, within the background, after a transfer that needed the same.
`LastColumn` is then arithmetic: columns of DISPLAY_HEIGHT
+ 1 cells are filled with DISPLAY_WIDTH times DISPLAY_WIDTH pixels
(`ColumnsTooHigh`).

**PanelProofs, lookup.**  `ColorFound`: wherever in a byte a colour begins, looking
it up in the packed palette gives the high halves of its three components (by
cases on the parity of its index, from `PackedByte` and `HalvesOfJoin`).  From that
`LutTypeCorrect` (indices stay inside the arrays) and
`PixelsCorrect` (each pixel twice, in its colour).  PixelsDoubled needs only TypeOK
to be inductive: a round writes the three bytes of its own pixel.

**ShmProofs.**  `NothingIsLeft` and `FindsLatest` (NothingLeft, OpensLatest) follow
from `Owner`: the name is the last game's or nobody's, because whoever starts a
game removes it first, and it outlives its game only if something was killed.
GAMES and CLIENTS are any.

Model-checked only: what must happen in the end (HostReturns and the fairness of
ImplementsColumnStream, ClientFollowsGame, GameFollowsClient, SigintEndsGame,
BothEnd, UploadEnds), which the proof system does not reach.

## Not modelled

- `client.py` apart from the reset before the sockets are acquired: argument
  parsing and D-Bus discovery, pure I/O.
- Of the BlueZ patch, its plumbing; what it does to the order of writes is
  Session's, the report of the queue's length is Throughput's input.
- The NimBLE patch: radio settings, no logic of its own.
- The setting up of the radio and of the GATT table, which is data; logging of
  the GAP events; a write of the wrong length to the reset or palette
  characteristic, which changes nothing.
- Rounding of the controller's floating point numbers, and the effect of `mv_` on
  the queue: BlueZ's reports are any numbers, so what is shown holds for every
  radio, but that the loop settles is not claimed.
- The background picture (`data.cpp`, generated), the tests, the tuning scripts.

## How it was written, and what could follow

In this order: Display, FrameSync, Client, Lut, then BringUp, Gatt and Session,
Packets, Throughput, Shm; then the proofs of their safety properties; then
Rendezvous and Register, and that FrameSync and Client implement them.

Two things would say more and are not done:

- FrameSync and Client composed into one host.  Today Client stands for the
  game by `Push`, `Stop` and `Throw` at any time, and FrameSync for the main thread
  by `Join` at any time, with the fairness of `Join` taken from Client's BothEnd.
  Both abstractions allow more than the other side does, so safety carries over;
  the composition would make that fairness a consequence.
- The loop of throughput controller, queue and radio: what the radio takes is
  any number here, so that the loop settles cannot be said.
