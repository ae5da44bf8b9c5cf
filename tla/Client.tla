-------------------------------- MODULE Client --------------------------------
(***************************************************************************)
(* The client's two threads (client/client.cpp, run): the consumer thread  *)
(* pushes frames into frame_buffer_t (frame_buffer.cpp), the main thread   *)
(* pops them and writes them, packet by packet, to the socket BlueZ gave   *)
(* it (transport.cpp).  The consumer thread is seen from the frame buffer: *)
(* what it does with the game is FrameSync.                                *)
(*                                                                         *)
(* Every handler of the io_context runs on the main thread, so a handler   *)
(* is one action; the other thread runs between any two of them and inside *)
(* the blocking pop, which is cut at its mutex.                            *)
(***************************************************************************)
EXTENDS Naturals, Sequences

CONSTANTS
  FRAMES,      \* frames are numbered 1 .. FRAMES, round and round
  MAX_STACK,   \* newest frames of stack_ that are kept (unbounded in the code)
  PACKETS      \* packets of a frame, pkts_.size() (12)

ASSUME ClientAssumption ==
  /\ MAX_STACK \in Nat \ {0}
  /\ FRAMES \in Nat /\ FRAMES > MAX_STACK
  /\ PACKETS \in Nat \ {0}

VARIABLES
  use_pid,    \* the throughput controller is on (use_pid_, never assigned)
  run,        \* client.cpp's atomic flag, shared by both threads
  stack,      \* stack_, the newest frame first
  fb_run,     \* frame_buffer_t::run_
  thread,     \* where the consumer thread is
  main,       \* where the main thread is
  why,        \* why tr.run() ended: "", "stop", "timeout", "error"
  pkts,       \* the frame being sent
  progress,   \* frame_progress_
  chain,      \* the pending operation of the write chain: "timer", "write"
  pushed,     \* history: the last frame pushed, 0 for none
  sent        \* history: the last packet handed to the socket

buffer == <<stack, fb_run>>
writer == <<pkts, progress, chain, sent>>
vars   == <<use_pid, run, buffer, thread, main, why, writer, pushed>>

Frames == 1 .. FRAMES

------------------------------------------------------------------------------
(* The consumer thread *)

(* while (run_.load()) *)
MayLoop_always == TRUE
MayLoop == run

ThreadLoop ==
  /\ thread = "loop"
  /\ thread' = IF MayLoop THEN "wait" ELSE "unset"
  /\ UNCHANGED <<run, buffer, main, why, writer, pushed>>

(* frame_buffer_t::push, up to the notification, which is sent without the
   mutex.  Who pops takes the newest frame and drops the others: those beyond
   the newest MAX_STACK are not kept here either.                            *)
Push ==
  /\ thread = "wait"
  /\ pushed' = (pushed % FRAMES) + 1
  /\ stack' = SubSeq(<<pushed'>> \o stack, 1,
                     IF Len(stack) < MAX_STACK THEN Len(stack) + 1 ELSE MAX_STACK)
  /\ thread' = "notify"
  /\ UNCHANGED <<run, fb_run, main, why, writer>>

(* cv_.notify_one(): nobody hears it but a thread already asleep. *)
Wake == main' = IF main = "asleep" THEN "evaluate" ELSE main

Notify ==
  /\ thread = "notify"
  /\ Wake
  /\ thread' = "loop"
  /\ UNCHANGED <<run, buffer, why, writer, pushed>>

(* The game left, was silent for ten seconds, or sent no palettes: fb_.stop(),
   under the mutex, which pop holds from its first look to its sleep.        *)
MutexFree_unlocked == TRUE
MutexFree == main \notin {"evaluate", "sleep"}

Stop ==
  /\ thread = "wait"
  /\ MutexFree
  /\ fb_run' = FALSE
  /\ Wake
  /\ thread' = "unset"
  /\ UNCHANGED <<run, stack, why, writer, pushed>>

Throw ==                \* the conversion of a palette, or push, throws
  /\ thread = "wait"
  /\ thread' = "unset"
  /\ UNCHANGED <<run, buffer, main, why, writer, pushed>>

ThreadEnds ==           \* ~unset_run_t
  /\ thread = "unset"
  /\ run' = FALSE
  /\ thread' = "ended"
  /\ UNCHANGED <<buffer, main, why, writer, pushed>>

Thread == ThreadLoop \/ Push \/ Notify \/ Stop \/ Throw \/ ThreadEnds

------------------------------------------------------------------------------
(* The main thread: the first pop, and the upload of the palettes *)

(* tr.run() is left, normally or by an exception: ~unset_run_t.  What a handler
   has changed in pkts_ and frame_progress_ by then no longer matters.       *)
Leave(reason) ==
  /\ main' = "ended"
  /\ why' = reason
  /\ run' = FALSE
  /\ UNCHANGED <<pkts, progress, chain, sent>>

Ready == stack # <<>> \/ ~fb_run

Pop ==                  \* if (stack_.empty()), mtx_ is taken
  /\ main = "pop"
  /\ main' = IF stack = <<>> THEN "evaluate" ELSE "take"
  /\ UNCHANGED <<run, buffer, thread, why, writer, pushed>>

(* wait_for's predicate holds. *)
PopReady ==
  /\ Ready
  /\ \/ /\ fb_run
        /\ main' = "take"
        /\ UNCHANGED <<run, why, writer>>
     \/ /\ ~fb_run
        /\ Leave("stop")

Evaluate ==
  /\ main = "evaluate"
  /\ \/ PopReady
     \/ /\ ~Ready
        /\ main' = "sleep"
        /\ UNCHANGED <<run, why, writer>>
  /\ UNCHANGED <<buffer, thread, pushed>>

Sleep ==                \* the mutex is released
  /\ main = "sleep"
  /\ main' = "asleep"
  /\ UNCHANGED <<run, buffer, thread, why, writer, pushed>>

(* Three seconds are over: wait_for looks at the predicate once more. *)
AfterTimeout_throws == Leave("timeout")
AfterTimeout == PopReady \/ (~Ready /\ Leave("timeout"))

PopTimeout ==
  /\ main = "asleep"
  /\ AfterTimeout
  /\ UNCHANGED <<buffer, thread, pushed>>

(* consume_all_atomic: the newest is taken, the others are dropped. *)
Newest_oldest == stack[Len(stack)]
Newest == Head(stack)

Take ==
  /\ main = "take"
  /\ pkts' = Newest
  /\ stack' = <<>>
  /\ main' = "upload"
  /\ UNCHANGED <<run, fb_run, thread, why, progress, chain, sent, pushed>>

Upload ==               \* the palettes, then start_pid_timer_, start_read_
  /\ main = "upload"    \* and start_write_timer_
  /\ \/ /\ run
        /\ main' = "asio"
        /\ chain' = "timer"
        /\ UNCHANGED <<run, why, pkts, progress, sent>>
     \/ ~run /\ Leave("stop")
     \/ Leave("error")
  /\ UNCHANGED <<buffer, thread, pushed>>

------------------------------------------------------------------------------
(* The main thread: the handlers of the io_context *)

(* async_write of the packet at frame_progress_, which is incremented. *)
StartWrite(frame, index) ==
  /\ chain' = "write"
  /\ sent' = [frame |-> frame, index |-> index]
  /\ progress' = index + 1

StillRuns == run /\ UNCHANGED <<run, main, why>>

FirstPacket_kept == progress
FirstPacket == 0

WriteTimer ==           \* the frame period is over
  /\ main = "asio"
  /\ chain = "timer"
  /\ stack' = <<>>
  /\ \/ /\ StillRuns
        /\ pkts' = IF stack = <<>> THEN pkts ELSE Newest
        /\ StartWrite(pkts', FirstPacket)
     \/ ~run /\ Leave("stop")
  /\ UNCHANGED <<fb_run, thread, pushed>>

(* on_write_ goes on with the same frame until its last packet. *)
FrameIsOver_early == progress >= PACKETS \/ stack # <<>>
FrameIsOver == progress >= PACKETS

WriteDone ==
  /\ main = "asio"
  /\ chain = "write"
  /\ \/ /\ StillRuns
        /\ ~FrameIsOver
        /\ StartWrite(pkts, progress)
        /\ UNCHANGED pkts
     \/ /\ StillRuns
        /\ FrameIsOver
        /\ chain' = "timer"
        /\ UNCHANGED <<pkts, progress, sent>>
     \/ ~run /\ Leave("stop")
  /\ UNCHANGED <<buffer, thread, pushed>>

(* on_pid_timer_ and on_read_, to the extent that they look at run: the pid
   timer does so every second.                                               *)
PidStops_not == FALSE /\ Leave("stop")
PidStops == ~run /\ Leave("stop")

PidTimer ==
  /\ main = "asio"
  /\ use_pid
  /\ PidStops
  /\ UNCHANGED <<buffer, thread, pushed>>

HandlerError ==         \* a handler gets an error_code or a wrong size
  /\ main = "asio"
  /\ Leave("error")
  /\ UNCHANGED <<buffer, thread, pushed>>

FirstPop == Pop \/ Evaluate \/ Sleep \/ PopTimeout \/ Take
Handlers == WriteTimer \/ WriteDone \/ PidTimer \/ HandlerError

------------------------------------------------------------------------------
(* The specification *)

Init ==                 \* client.cpp, run, after ct.start()
  /\ use_pid \in BOOLEAN
  /\ run = TRUE
  /\ stack = <<>> /\ fb_run = TRUE
  /\ thread = "loop" /\ main = "pop" /\ why = ""
  /\ pkts = 0 /\ progress = 0 /\ chain = "none"
  /\ pushed = 0 /\ sent = [frame |-> 0, index |-> PACKETS - 1]

Next == (Thread \/ FirstPop \/ Upload \/ Handlers) /\ UNCHANGED use_pid

Spec == Init /\ [][Next]_vars

(* The threads run; BlueZ takes the palettes; timers fire.  Whether it takes
   the frames is up to the radio: that is needed only where no pid timer looks
   at run while a write is pending.                                          *)
Fairness == /\ WF_vars(Thread /\ UNCHANGED use_pid)
            /\ WF_vars(FirstPop /\ UNCHANGED use_pid)
            /\ WF_vars(Upload /\ UNCHANGED use_pid)
            /\ WF_vars(WriteTimer /\ UNCHANGED use_pid)
            /\ WF_vars(PidTimer /\ UNCHANGED use_pid)
            /\ WF_vars(~use_pid /\ WriteDone /\ UNCHANGED use_pid)

FairSpec == Spec /\ Fairness

------------------------------------------------------------------------------
(* Properties *)

(* Every variable keeps its range, and frame_progress_ stays an index of pkts_
   whenever it is used as one.                                               *)
TypeOK ==
  /\ {use_pid, run, fb_run} \subseteq BOOLEAN
  /\ stack \in Seq(Frames) /\ Len(stack) =< MAX_STACK
  /\ thread \in {"loop", "wait", "notify", "unset", "ended"}
  /\ main \in {"pop", "evaluate", "sleep", "asleep", "take", "upload", "asio",
               "ended"}
  /\ why \in {"", "stop", "timeout", "error"}
  /\ pkts \in 0 .. FRAMES /\ pushed \in 0 .. FRAMES
  /\ progress \in 0 .. PACKETS
  /\ chain \in {"none", "timer", "write"}
  /\ sent \in [frame : 0 .. FRAMES, index : 0 .. PACKETS - 1]

(* The packets on the wire are whole frames, in order: the firmware has only
   the count of columns to know where a column belongs.                      *)
WholeFrames ==
  [][sent' # sent =>
       \/ sent.index = PACKETS - 1 /\ sent'.index = 0
       \/ sent'.index = sent.index + 1 /\ sent'.frame = sent.frame]_vars

(* A frame that is begun is the newest the game has produced by then: an older
   one is never shown after or instead of it.                                *)
LatestFrame == [][sent' # sent /\ sent'.index = 0 => sent'.frame = pushed]_vars

(* frame_timeout_error means that no frame came, also when the notification of
   the first one fell between pop's look at the stack and its sleep.         *)
TimeoutMeansNoFrame ==
  [][why' = "timeout" /\ why # "timeout" => pushed = 0]_vars

(* A stop cannot be missed: pop is not left to sleep out its three seconds, to
   end in an error, when stop() has been called.                             *)
StopHeard == main = "asleep" => fb_run

(* Once one thread clears run both end, whatever the main thread was doing, and
   ct.join() returns.  With the throughput controller the pid timer sees to it,
   even if a write never ends; without it the end of the pending write does. *)
BothEnd == ~run ~> main = "ended" /\ thread = "ended"
==============================================================================
