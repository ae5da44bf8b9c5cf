------------------------------ MODULE FrameSync ------------------------------
(***************************************************************************)
(* The handoff of frames from the game to the client through shared memory *)
(* (doomtime_shm_interface.hpp): the producer library the game links       *)
(* (ipc_lib/producer.cpp, called as patches/chocolate-doom.patch does) and *)
(* the client's consumer thread (client/consumer_thread.cpp).  Two         *)
(* semaphores pass the buffer to and fro; every wait gives up after ten    *)
(* seconds, either process may be killed, and a client may be started      *)
(* again after that.  One client runs at a time.                           *)
(*                                                                         *)
(* A frame is its number, modulo FRAMES: only one is ever under way.  What  *)
(* becomes of a frame after push is not modelled here, nor fb_.stop().     *)
(***************************************************************************)
EXTENDS Integers

CONSTANTS
  FRAMES,         \* frames are numbered modulo FRAMES
  PALETTES,       \* palettes the game uploads: 14, and 28 for Hexen
  PALETTE_LIMIT,  \* the bound in palette_changed: 14
  OFFSETS         \* values of windowx and of windowy

ASSUME FrameSyncAssumption ==
  /\ FRAMES \in Nat \ {0, 1}
  /\ PALETTES \in Nat \ {0}
  /\ PALETTE_LIMIT \in Nat \ {0}
  /\ OFFSETS \subseteq Nat /\ 0 \in OFFSETS

VARIABLES
  nempty, nstored,            \* the semaphores of shared_memory_buffer
  frame, palette_index, palette_count, windowx, windowy, disconnected,
  named,                      \* the memory can be opened by its name
  game, game_run,             \* the game's place, producer_t::run
  consumer, first, client_run,\* the thread's place and `first', client's run
  joined,                     \* tr.run() has returned, ct.join() has begun
  sent, got,                  \* history: what was posted, what was read
  orphan                      \* history: a dead client's last post is about

sems    == <<nempty, nstored>>
window  == <<windowx, windowy>>
shm     == <<frame, palette_index, palette_count, window, disconnected>>
client  == <<consumer, first, client_run, joined, got>>
history == <<sent, orphan>>
vars    == <<sems, shm, named, game, game_run, client, history>>

NextFrame(n) == (n + 1) % FRAMES

------------------------------------------------------------------------------
(* The game *)

(* Places from which the game never comes back. *)
GameLeft == {"gone", "threw", "killed"}

SetPalettes ==          \* I_InitGraphics, before the first frame
  /\ game = "play"
  /\ palette_count = 0
  /\ palette_count' = PALETTES
  /\ UNCHANGED <<sems, frame, palette_index, window, disconnected, named, game,
                 game_run, client, history>>

(* set_windowxy: two plain ints, written one after the other. *)
SetWindowX ==
  /\ game = "play"
  /\ windowx' \in OFFSETS
  /\ game' = "windowy"
  /\ UNCHANGED <<sems, frame, palette_index, palette_count, windowy,
                 disconnected, named, game_run, client, history>>

SetWindowY ==
  /\ game = "windowy"
  /\ windowy' \in OFFSETS
  /\ game' = "play"
  /\ UNCHANGED <<sems, frame, palette_index, palette_count, windowx,
                 disconnected, named, game_run, client, history>>

InRange_strict(pal_idx) == pal_idx < PALETTE_LIMIT - 1
InRange(pal_idx) == pal_idx < PALETTE_LIMIT

PaletteChanged ==       \* with any of the palettes uploaded
  /\ game = "play"
  /\ \E pal_idx \in 0 .. palette_count - 1 :
       \/ /\ InRange(pal_idx)
          /\ palette_index' = pal_idx
          /\ UNCHANGED game
       \/ /\ ~InRange(pal_idx)       \* std::range_error, out of C code
          /\ game' = "threw"
          /\ UNCHANGED palette_index
  /\ UNCHANGED <<sems, frame, palette_count, window, disconnected, named,
                 game_run, client, history>>

FrameReady ==           \* memcpy into the shared frame begins
  /\ game = "play"
  /\ frame' = NextFrame(frame)
  /\ game' = "copy"
  /\ UNCHANGED <<sems, palette_index, palette_count, window, disconnected,
                 named, game_run, client, history>>

FramePosted ==          \* the end of frame_ready, nstored.post()
  /\ game = "copy"
  /\ nstored' = nstored + 1
  /\ sent' = [frame |-> frame, pal |-> palette_index, window |-> window]
  /\ game' = "wait"
  /\ UNCHANGED <<nempty, shm, named, game_run, client, orphan>>

(* frame_rendered looks at run only once the frame has been read. *)
AfterFrame_ignores_run == "play"
AfterFrame == IF game_run THEN "play" ELSE "disconnect"

FrameRendered ==        \* frame_rendered, nempty arrives in time
  /\ game = "wait"
  /\ nempty > 0
  /\ nempty' = nempty - 1
  /\ game' = AfterFrame
  /\ UNCHANGED <<nstored, shm, named, game_run, client, history>>

(* exit_: the static producer's destructor runs. *)
Exit ==
  /\ game' = "gone"
  /\ disconnected' = TRUE
  /\ named' = FALSE
  /\ UNCHANGED <<nstored, frame, palette_index, palette_count, window,
                 game_run, client, history>>

OnTimeout_ignored == /\ game' = "play"
                     /\ UNCHANGED <<nstored, shm, named, game_run, client, history>>
OnTimeout_retries == /\ game' = "wait"
                     /\ UNCHANGED <<nstored, shm, named, game_run, client, history>>
OnTimeout == Exit

FrameTimeout ==         \* frame_rendered, "frame sync timeout"
  /\ game = "wait"
  /\ nempty = 0
  /\ OnTimeout
  /\ UNCHANGED nempty

Endoom ==               \* the player quits
  /\ game = "play"
  /\ game' = "disconnect"
  /\ UNCHANGED <<sems, shm, named, game_run, client, history>>

Disconnected ==         \* producer_t::disconnected
  /\ game = "disconnect"
  /\ ~disconnected
  /\ disconnected' = TRUE
  /\ game' = "farewell"
  /\ UNCHANGED <<sems, frame, palette_index, palette_count, window, named,
                 game_run, client, history>>

DisconnectedPost ==
  /\ game = "farewell"
  /\ nstored' = nstored + 1
  /\ game' = "leave"
  /\ UNCHANGED <<nempty, shm, named, game_run, client, history>>

Leave ==                \* wait's result is ignored
  /\ game = "leave"
  /\ \/ nempty > 0 /\ nempty' = nempty - 1
     \/ nempty = 0 /\ UNCHANGED nempty
  /\ Exit

Sigint ==               \* sigint_handler
  /\ game \notin GameLeft
  /\ game_run
  /\ game_run' = FALSE
  /\ UNCHANGED <<sems, shm, named, game, client, history>>

GameKilled ==           \* nothing is cleaned up
  /\ game \notin GameLeft
  /\ game' = "killed"
  /\ UNCHANGED <<sems, shm, named, game_run, client, history>>

Game == \/ SetPalettes \/ SetWindowX \/ SetWindowY \/ PaletteChanged
        \/ FrameReady \/ FramePosted \/ FrameRendered \/ FrameTimeout
        \/ Endoom \/ Disconnected \/ DisconnectedPost \/ Leave

------------------------------------------------------------------------------
(* The client *)

NoFrame == [frame |-> FRAMES - 1, pal |-> 0, window |-> <<0, 0>>,
            due |-> <<0, 0>>]

(* consumer_thread_t::start, with the memory still there to be opened. *)
ClientStart ==
  /\ consumer = "gone"
  /\ named
  /\ consumer' = "loop"
  /\ first' = TRUE
  /\ client_run' = TRUE
  /\ joined' = FALSE
  /\ UNCHANGED <<sems, shm, named, game, game_run, history, got>>

(* The thread ends: unset_run_t clears run on every way out of loop. *)
UnsetRun_missing == UNCHANGED client_run
UnsetRun == client_run' = FALSE
LoopEnds == consumer' = "done" /\ UnsetRun

ConsumerLoop ==         \* while (run_.load())
  /\ consumer = "loop"
  /\ \/ client_run /\ consumer' = "wait" /\ UNCHANGED client_run
     \/ ~client_run /\ LoopEnds
  /\ UNCHANGED <<sems, shm, named, game, game_run, first, joined, got, history>>

ConsumerTake_posts ==
  /\ consumer = "wait"
  /\ nstored > 0
  /\ nstored' = nstored - 1
  /\ nempty' = nempty + 1
  /\ consumer' = "check"
  /\ UNCHANGED <<shm, named, game, game_run, first, client_run, joined, got,
                 history>>
ConsumerTake ==         \* nstored arrives in time
  /\ consumer = "wait"
  /\ nstored > 0
  /\ nstored' = nstored - 1
  /\ consumer' = "check"
  /\ UNCHANGED <<nempty, shm, named, game, game_run, first, client_run, joined,
                 got, history>>

ConsumerTimeout ==      \* "consumer frame timeout"
  /\ consumer = "wait"
  /\ nstored = 0
  /\ LoopEnds
  /\ UNCHANGED <<sems, shm, named, game, game_run, first, joined, got, history>>

(* The game has left, or uploaded no palettes before its first frame, or the
   window is nonsense, or a palette cannot be converted (an exception).      *)
ConsumerRefuses ==
  /\ consumer = "check"
  /\ \/ disconnected
     \/ first
  /\ LoopEnds
  /\ UNCHANGED <<sems, shm, named, game, game_run, first, joined, got, history>>

ConsumerAccepts ==
  /\ consumer = "check"
  /\ ~disconnected
  /\ first => palette_count # 0
  /\ consumer' = "copy"
  /\ first' = FALSE
  /\ UNCHANGED <<sems, shm, named, game, game_run, client_run, joined, got,
                 history>>

ConsumerCopy_posts ==
  /\ consumer = "copy"
  /\ got' = [got EXCEPT !.frame = frame, !.due = sent.window]
  /\ nempty' = nempty + 1
  /\ consumer' = "palette"
  /\ UNCHANGED <<nstored, shm, named, game, game_run, first, client_run, joined,
                 history>>
ConsumerCopy ==         \* buf = data_->frame
  /\ consumer = "copy"
  /\ got' = [got EXCEPT !.frame = frame, !.due = sent.window]
  /\ consumer' = "palette"
  /\ UNCHANGED <<sems, shm, named, game, game_run, first, client_run, joined,
                 history>>

ConsumerPalette ==      \* pal_idx = data_->palette_index
  /\ consumer = "palette"
  /\ got' = [got EXCEPT !.pal = palette_index]
  /\ consumer' = "post"
  /\ UNCHANGED <<sems, shm, named, game, game_run, first, client_run, joined,
                 history>>

ConsumerPost ==         \* nempty.post()
  /\ consumer = "post"
  /\ nempty' = nempty + 1
  /\ consumer' = "windowx"
  /\ UNCHANGED <<nstored, shm, named, game, game_run, first, client_run, joined,
                 got, history>>

ConsumerWindowX ==      \* {data_->windowx, data_->windowy}
  /\ consumer = "windowx"
  /\ got' = [got EXCEPT !.window[1] = windowx]
  /\ consumer' = "windowy"
  /\ UNCHANGED <<sems, shm, named, game, game_run, first, client_run, joined,
                 history>>

ConsumerWindowY ==
  /\ consumer = "windowy"
  /\ got' = [got EXCEPT !.window[2] = windowy]
  /\ consumer' = "push"
  /\ UNCHANGED <<sems, shm, named, game, game_run, first, client_run, joined,
                 history>>

ConsumerPush ==         \* fb_.push, which may throw
  /\ consumer = "push"
  /\ \/ consumer' = "loop" /\ UNCHANGED client_run
     \/ LoopEnds
  /\ UNCHANGED <<sems, shm, named, game, game_run, first, joined, got, history>>

(* tr.run() returns or throws, for a reason of its own or because run is
   false; join (called by run or by the destructor) clears run.             *)
Join ==
  /\ consumer # "gone"
  /\ ~joined
  /\ joined' = TRUE
  /\ client_run' = FALSE
  /\ UNCHANGED <<sems, shm, named, game, game_run, consumer, first, got, history>>

ReleaseGame_twice == nempty' = nempty + 2
ReleaseGame == nempty' = nempty + 1

ConsumerDestroyed ==    \* ~consumer_thread_t
  /\ consumer = "done"
  /\ joined
  /\ ReleaseGame
  /\ consumer' = "released"
  /\ UNCHANGED <<nstored, shm, named, game, game_run, first, client_run, joined,
                 got, history>>

ShmRemoved ==           \* ~shm_remove, a member of it
  /\ consumer = "released"
  /\ named' = FALSE
  /\ consumer' = "gone"
  /\ UNCHANGED <<sems, shm, game, game_run, first, client_run, joined, got, history>>

Consumer == \/ ConsumerLoop \/ ConsumerTake \/ ConsumerTimeout
            \/ ConsumerRefuses \/ ConsumerAccepts \/ ConsumerCopy
            \/ ConsumerPalette \/ ConsumerPost \/ ConsumerWindowX
            \/ ConsumerWindowY \/ ConsumerPush \/ ConsumerDestroyed
            \/ ShmRemoved

(* Killed between the two, a client leaves a token behind and a name by which the
   next one comes.  BOUND: that happens once.                                *)
ClientKilled ==
  /\ consumer # "gone"
  /\ consumer = "released" => ~orphan
  /\ consumer' = "gone"
  /\ orphan' = (orphan \/ consumer = "released")
  /\ UNCHANGED <<sems, shm, named, game, game_run, first, client_run, joined,
                 got, sent>>

------------------------------------------------------------------------------
(* The specification *)

Init ==                 \* producer_t::producer_t, a new shared_memory_buffer
  /\ nempty = 0 /\ nstored = 0
  /\ frame = FRAMES - 1 /\ palette_index = 0 /\ palette_count = 0
  /\ windowx = 0 /\ windowy = 0 /\ disconnected = FALSE /\ named = TRUE
  /\ game = "play" /\ game_run = TRUE
  /\ consumer = "gone" /\ first = TRUE /\ client_run = FALSE /\ joined = TRUE
  /\ sent = [frame |-> FRAMES - 1, pal |-> 0, window |-> <<0, 0>>]
  /\ got = NoFrame /\ orphan = FALSE

Next == \/ Game \/ Sigint \/ GameKilled
        \/ Consumer \/ ClientStart \/ Join \/ ClientKilled

Spec == Init /\ [][Next]_vars

(* Both threads run, a wait that gets nothing times out; the game's loop draws
   a frame in every round, whatever else it does; the client's main thread
   ends once run is false (external: it is transport_t that sees to that).    *)
Fairness == /\ WF_vars(Game)
            /\ SF_vars(FrameReady)
            /\ WF_vars(Consumer)
            /\ WF_vars(Join /\ ~client_run)

FairSpec == Spec /\ Fairness

------------------------------------------------------------------------------
(* Properties *)

Numbers == 0 .. FRAMES - 1
Indices == 0 .. PALETTES - 1

(* Every variable keeps its range; the semaphores' is the point: the frame, the
   farewell and the post of ~consumer_thread_t never pile up.  Three follows from
   the bound in ClientKilled: every client killed like that would leave one more. *)
TypeOK ==
  /\ {nempty, nstored} \subseteq 0 .. (IF orphan THEN 3 ELSE 2)
  /\ frame \in Numbers /\ palette_index \in Indices
  /\ palette_count \in {0, PALETTES}
  /\ windowx \in OFFSETS /\ windowy \in OFFSETS
  /\ disconnected \in BOOLEAN /\ named \in BOOLEAN
  /\ game \in {"play", "windowy", "copy", "wait", "disconnect", "farewell",
               "leave"} \union GameLeft
  /\ consumer \in {"gone", "loop", "wait", "check", "copy", "palette", "post",
                   "windowx", "windowy", "push", "done", "released"}
  /\ game_run \in BOOLEAN /\ first \in BOOLEAN
  /\ client_run \in BOOLEAN /\ joined \in BOOLEAN /\ orphan \in BOOLEAN
  /\ sent \in [frame : Numbers, pal : Indices, window : OFFSETS \X OFFSETS]
  /\ got \in [frame : Numbers, pal : Indices, window : OFFSETS \X OFFSETS,
              due : OFFSETS \X OFFSETS]

(* The game never writes the frame or its palette index while the client reads
   them, however late the client is: a wait that timed out ends the game, it
   does not let it go on.  The exception is a client that was killed between its
   last post and the removal of the name: the next one is a frame behind for
   good.                                                                      *)
NoOverwrite ==
  game = "copy" /\ ~orphan => consumer \notin {"copy", "palette", "post"}

(* The client reads every frame once, in order: none is skipped while the game
   goes on, also when a client was killed and another took over.             *)
FramesInOrder ==
  [][consumer = "copy" /\ consumer' = "palette" /\ ~orphan
       => got'.frame = NextFrame(got.frame)]_vars

(* A frame is shown with the palette it was drawn with. *)
PaletteOfFrame ==
  consumer = "post" /\ ~orphan => got.frame = sent.frame /\ got.pal = sent.pal

(* While a client is there, frame_rendered returns only when it has read the
   frame.                                                                     *)
ReadBeforeReturn ==
  game = "play" /\ consumer \notin {"released", "gone"} /\ ~orphan
    => got.frame = frame

(* doomtime_ipc.h:22, "blocks until client disconnects": what disconnected waits
   for is the post of ~consumer_thread_t and no other, whatever the client was
   doing when the game left.                                                  *)
FarewellHeard ==
  [][game = "leave" /\ nempty' < nempty /\ ~orphan
       => consumer \in {"released", "gone"}]_vars

(* doomtime_ipc.h:17, frame_rendered "blocks until data is read by consumer",
   the window offset with it.  It does not: the offset is read after nempty is
   posted, when the game may already be setting the next one.                 *)
WindowOfFrame == consumer = "push" => got.window = got.due

(* doomtime_shm_interface.hpp:13, "28 for hexen": every palette the game could
   upload can be selected.                                                    *)
PalettesAccepted == game # "threw"

(* A game that left, was killed or broke off is noticed by the client, which
   ends too.                                                                  *)
ClientFollowsGame == game \in GameLeft ~> consumer = "gone"

(* A client that is gone for good ends the game, after one frame at most that
   nobody reads.                                                              *)
GameFollowsClient == <>[](consumer = "gone") => <>(game \in GameLeft)

(* Ctrl-C in the game ends it, although run is looked at in one place only. *)
SigintEndsGame == ~game_run ~> game \in GameLeft
==============================================================================
