----------------------------- MODULE ClientProofs -----------------------------
(***************************************************************************)
(* The client's frame buffer and its writes, for any number of frames,     *)
(* packets and kept frames: what is taken is the newest, what is written   *)
(* is whole, and pop neither sleeps through a stop nor gives up a frame.   *)
(***************************************************************************)
EXTENDS MCClient, SequenceTheorems, TLAPS

(* The main thread is in the first pop, and has not taken a frame. *)
Popping == main \in {"pop", "evaluate", "sleep", "asleep"}

(* The top of stack_ is the last frame pushed; none has been dropped unseen. *)
Top ==
  /\ stack # <<>> => Head(stack) = pushed
  /\ Popping /\ stack = <<>> => pushed = 0
  /\ main = "take" => stack # <<>>

(* As long as nothing new has come, pkts_ holds the last frame pushed. *)
Latest == main \in {"upload", "asio"} /\ stack = <<>> => pkts = pushed

(* A pending write is of the packet before frame_progress_ of pkts_, and is the
   last packet handed over; when none is pending that was the last of a frame. *)
Written ==
  /\ main # "asio" /\ main # "ended" => chain = "none"
  /\ chain = "write" =>
       progress >= 1 /\ sent = [frame |-> pkts, index |-> progress - 1]
  /\ chain # "write" => sent.index = PACKETS - 1

(* pop sleeps, or is about to, only when there was no stop to hear. *)
NoStop == main \in {"sleep", "asleep"} => fb_run

Inv == TypeOK /\ Top /\ Latest /\ Written /\ NoStop

(* TypeOK in three parts: each has a prover that is good at it. *)
Flags == use_pid \in BOOLEAN /\ run \in BOOLEAN /\ fb_run \in BOOLEAN

Frame ==
  /\ stack \in Seq(Frames) /\ Len(stack) =< MAX_STACK
  /\ pkts \in 0 .. FRAMES /\ pushed \in 0 .. FRAMES

Places ==
  /\ thread \in {"loop", "wait", "notify", "unset", "ended"}
  /\ main \in {"pop", "evaluate", "sleep", "asleep", "take", "upload", "asio",
               "ended"}
  /\ why \in {"", "stop", "timeout", "error"}
  /\ chain \in {"none", "timer", "write"}

Packet ==
  /\ progress \in 0 .. PACKETS
  /\ sent \in [frame : 0 .. FRAMES, index : 0 .. PACKETS - 1]

USE DEF buffer, writer

LEMMA Parts == TypeOK <=> Flags /\ Frame /\ Places /\ Packet
  BY Zenon DEF TypeOK, Flags, Frame, Places, Packet

(* frame_buffer_t::push puts a frame on top, and keeps as many as it may. *)
LEMMA PushedOnTop ==
  ASSUME NEW s \in Seq(Frames), Len(s) =< MAX_STACK, NEW f \in Frames,
         NEW t, t = SubSeq(<<f>> \o s, 1,
                           IF Len(s) < MAX_STACK THEN Len(s) + 1 ELSE MAX_STACK)
  PROVE  t \in Seq(Frames) /\ Len(t) =< MAX_STACK /\ t # <<>> /\ Head(t) = f
<1> DEFINE all == <<f>> \o s
           kept == IF Len(s) < MAX_STACK THEN Len(s) + 1 ELSE MAX_STACK
<1>1. Len(s) \in Nat /\ <<f>> \in Seq(Frames) /\ Len(<<f>>) = 1 /\ <<f>>[1] = f
  OBVIOUS
<1>2. all \in Seq(Frames) /\ Len(all) = Len(s) + 1 /\ all[1] = f
  BY <1>1, ConcatProperties
<1>3. kept \in 1 .. Len(all) /\ kept =< MAX_STACK
  BY <1>1, <1>2, ClientAssumption
<1> HIDE DEF all, kept
<1>4. t = SubSeq(all, 1, kept)
  BY DEF all, kept
<1>5. \A i \in 1 .. kept : all[i] \in Frames
  BY <1>2, <1>3, ElementOfSeq
<1>6. SubSeq(all, 1, kept) \in Seq(Frames) /\ Len(SubSeq(all, 1, kept)) = kept
  BY <1>3, <1>5, SubSeqProperties
<1>7. t \in Seq(Frames) /\ Len(t) = kept
  BY <1>4, <1>6
<1>8. 1 \in 1 .. Len(all)
  BY <1>1, <1>2
<1>9. Head(t) = f
  BY <1>2, <1>3, <1>4, <1>8, HeadTailOfSubSeq, Zenon
<1> QED
  BY <1>3, <1>7, <1>9, EmptySeq

(* What push is given is a frame ... *)
LEMMA PushedIsFrame ==
  ASSUME Frame, Push
  PROVE  pushed' \in Frames
  BY ClientAssumption DEF Frame, Push, Frames

(* ... and so is the top of stack_. *)
LEMMA NewestIsFrame ==
  ASSUME Frame, stack # <<>>
  PROVE  Newest \in Frames
  BY HeadTailProperties DEF Frame, Newest

(* Nothing has been pushed, popped or written at the start. *)
LEMMA InvInit == Init => Inv
<1> SUFFICES ASSUME Init PROVE Inv
  OBVIOUS
<1>1. Flags
  BY Zenon DEF Init, Flags
<1>2. stack = <<>> /\ pkts = 0 /\ pushed = 0 /\ progress = 0
      /\ sent = [frame |-> 0, index |-> PACKETS - 1]
  BY Zenon DEF Init
<1>3. Frame /\ Packet
  BY <1>2, ClientAssumption, EmptySeq DEF Frame, Packet
<1>4. Places
  BY DEF Init, Places
<1>5. Top /\ Latest /\ Written /\ NoStop
  BY DEF Init, Top, Popping, Latest, Written, NoStop
<1> QED
  BY <1>1, <1>2, <1>3, <1>4, <1>5, Parts DEF Inv

(* No step assigns anything but TRUE or FALSE to a flag. *)
LEMMA FlagsNext ==
  ASSUME Flags, Next
  PROVE  Flags'
<1> USE DEF Flags
<1>0. use_pid' = use_pid
  BY DEF Next
<1>1. CASE ThreadLoop
  BY <1>1, <1>0, Zenon DEF ThreadLoop, MayLoop
<1>2. CASE Push
  BY <1>2, <1>0, Zenon DEF Push
<1>3. CASE Notify
  BY <1>3, <1>0, Zenon DEF Notify, Wake
<1>4. CASE Stop
  BY <1>4, <1>0, Zenon DEF Stop, Wake, MutexFree
<1>5. CASE Throw
  BY <1>5, <1>0, Zenon DEF Throw
<1>6. CASE ThreadEnds
  BY <1>6, <1>0, Zenon DEF ThreadEnds
<1>7. CASE Pop
  BY <1>7, <1>0, Zenon DEF Pop
<1>8. CASE Evaluate
  BY <1>8, <1>0, Zenon DEF Evaluate, PopReady, Ready, Leave
<1>9. CASE Sleep
  BY <1>9, <1>0, Zenon DEF Sleep
<1>10. CASE PopTimeout
  BY <1>10, <1>0, Zenon DEF PopTimeout, AfterTimeout, PopReady, Ready, Leave
<1>11. CASE Take
  BY <1>11, <1>0, Zenon DEF Take, Newest
<1>12. CASE Upload
  BY <1>12, <1>0, Zenon DEF Upload, Leave
<1>13. CASE WriteTimer
  BY <1>13, <1>0, Zenon DEF WriteTimer, StillRuns, StartWrite, FirstPacket,
     Newest, Leave
<1>14. CASE WriteDone
  BY <1>14, <1>0, Zenon DEF WriteDone, StillRuns, StartWrite, FrameIsOver,
     Leave
<1>15. CASE PidTimer
  BY <1>15, <1>0, Zenon DEF PidTimer, PidStops, Leave
<1>16. CASE HandlerError
  BY <1>16, <1>0, Zenon DEF HandlerError, Leave
<1> QED
  BY <1>1, <1>2, <1>3, <1>4, <1>5, <1>6, <1>7, <1>8, <1>9, <1>10, <1>11, <1>12,
     <1>13, <1>14, <1>15, <1>16 DEF Next, Thread, FirstPop, Handlers

(* What is pushed, kept and taken is a frame. *)
LEMMA FrameNext ==
  ASSUME Frame, Top, Next
  PROVE  Frame'
<1> USE DEF Frame
<1>1. CASE ThreadLoop
  BY <1>1 DEF ThreadLoop, MayLoop
<1>2. CASE Push
  <2>1. pushed' \in Frames
    BY <1>2, PushedIsFrame
  <2>2. stack' \in Seq(Frames) /\ Len(stack') =< MAX_STACK
    BY <1>2, <2>1, PushedOnTop DEF Frame, Push
  <2> QED
    BY <1>2, <2>1, <2>2 DEF Frame, Push, Frames
<1>3. CASE Notify
  BY <1>3 DEF Notify, Wake
<1>4. CASE Stop
  BY <1>4 DEF Stop, Wake, MutexFree
<1>5. CASE Throw
  BY <1>5 DEF Throw
<1>6. CASE ThreadEnds
  BY <1>6 DEF ThreadEnds
<1>7. CASE Pop
  BY <1>7 DEF Pop
<1>8. CASE Evaluate
  BY <1>8 DEF Evaluate, PopReady, Ready, Leave
<1>9. CASE Sleep
  BY <1>9 DEF Sleep
<1>10. CASE PopTimeout
  BY <1>10 DEF PopTimeout, AfterTimeout, PopReady, Ready, Leave
<1>11. CASE Take
  BY <1>11, NewestIsFrame, EmptySeq, ClientAssumption DEF Frame, Top, Take,
     Frames
<1>12. CASE Upload
  BY <1>12 DEF Upload, Leave
<1>13. CASE WriteTimer
  BY <1>13, NewestIsFrame, EmptySeq, ClientAssumption DEF Frame, WriteTimer,
     StillRuns, StartWrite, Leave, Frames
<1>14. CASE WriteDone
  BY <1>14 DEF WriteDone, StillRuns, StartWrite, FrameIsOver, Leave
<1>15. CASE PidTimer
  BY <1>15 DEF PidTimer, PidStops, Leave
<1>16. CASE HandlerError
  BY <1>16 DEF HandlerError, Leave
<1> QED
  BY <1>1, <1>2, <1>3, <1>4, <1>5, <1>6, <1>7, <1>8, <1>9, <1>10, <1>11, <1>12,
     <1>13, <1>14, <1>15, <1>16 DEF Next, Thread, FirstPop, Handlers

(* Every place the two threads are at is one of the code's. *)
LEMMA PlacesNext ==
  ASSUME Places, Next
  PROVE  Places'
<1> USE DEF Places
<1>1. CASE ThreadLoop
  BY <1>1 DEF ThreadLoop, MayLoop
<1>2. CASE Push
  BY <1>2 DEF Push
<1>3. CASE Notify
  BY <1>3 DEF Notify, Wake
<1>4. CASE Stop
  BY <1>4 DEF Stop, Wake, MutexFree
<1>5. CASE Throw
  BY <1>5 DEF Throw
<1>6. CASE ThreadEnds
  BY <1>6 DEF ThreadEnds
<1>7. CASE Pop
  BY <1>7 DEF Pop
<1>8. CASE Evaluate
  BY <1>8 DEF Evaluate, PopReady, Ready, Leave
<1>9. CASE Sleep
  BY <1>9 DEF Sleep
<1>10. CASE PopTimeout
  BY <1>10 DEF PopTimeout, AfterTimeout, PopReady, Ready, Leave
<1>11. CASE Take
  BY <1>11 DEF Take
<1>12. CASE Upload
  BY <1>12 DEF Upload, Leave
<1>13. CASE WriteTimer
  BY <1>13 DEF WriteTimer, StillRuns, StartWrite, FirstPacket, Leave
<1>14. CASE WriteDone
  BY <1>14 DEF WriteDone, StillRuns, StartWrite, FrameIsOver, Leave
<1>15. CASE PidTimer
  BY <1>15 DEF PidTimer, PidStops, Leave
<1>16. CASE HandlerError
  BY <1>16 DEF HandlerError, Leave
<1> QED
  BY <1>1, <1>2, <1>3, <1>4, <1>5, <1>6, <1>7, <1>8, <1>9, <1>10, <1>11, <1>12,
     <1>13, <1>14, <1>15, <1>16 DEF Next, Thread, FirstPop, Handlers

(* frame_progress_ never leaves pkts_: on_write_ looks before it writes. *)
LEMMA PacketNext ==
  ASSUME Frame, Frame', Packet, Next
  PROVE  Packet'
<1> USE DEF Packet, Frame
<1>1. CASE ThreadLoop
  BY <1>1, ClientAssumption DEF ThreadLoop, MayLoop
<1>2. CASE Push
  BY <1>2, ClientAssumption DEF Push
<1>3. CASE Notify
  BY <1>3, ClientAssumption DEF Notify, Wake
<1>4. CASE Stop
  BY <1>4, ClientAssumption DEF Stop, Wake, MutexFree
<1>5. CASE Throw
  BY <1>5, ClientAssumption DEF Throw
<1>6. CASE ThreadEnds
  BY <1>6, ClientAssumption DEF ThreadEnds
<1>7. CASE Pop
  BY <1>7, ClientAssumption DEF Pop
<1>8. CASE Evaluate
  BY <1>8, ClientAssumption DEF Evaluate, PopReady, Ready, Leave
<1>9. CASE Sleep
  BY <1>9, ClientAssumption DEF Sleep
<1>10. CASE PopTimeout
  BY <1>10, ClientAssumption DEF PopTimeout, AfterTimeout, PopReady, Ready,
     Leave
<1>11. CASE Take
  BY <1>11, ClientAssumption DEF Take
<1>12. CASE Upload
  BY <1>12, ClientAssumption DEF Upload, Leave
<1>13. CASE WriteTimer
  BY <1>13, ClientAssumption DEF WriteTimer, StillRuns, StartWrite,
     FirstPacket, Leave
<1>14. CASE WriteDone
  BY <1>14, ClientAssumption DEF WriteDone, StillRuns, StartWrite, FrameIsOver,
     Leave
<1>15. CASE PidTimer
  BY <1>15, ClientAssumption DEF PidTimer, PidStops, Leave
<1>16. CASE HandlerError
  BY <1>16, ClientAssumption DEF HandlerError, Leave
<1> QED
  BY <1>1, <1>2, <1>3, <1>4, <1>5, <1>6, <1>7, <1>8, <1>9, <1>10, <1>11, <1>12,
     <1>13, <1>14, <1>15, <1>16 DEF Next, Thread, FirstPop, Handlers

(* frame_buffer_t drops nothing unseen: who takes leaves it empty, who pushes
   puts the frame on top, and pop goes on only when there is one. *)
LEMMA TopNext ==
  ASSUME Frame, Places, Top, Next
  PROVE  Top'
<1> USE DEF Top, Popping, Frame, Places
<1>1. CASE ThreadLoop
  BY <1>1 DEF ThreadLoop, MayLoop
<1>2. CASE Push
  <2>1. pushed' \in Frames
    BY <1>2, PushedIsFrame
  <2>2. stack' # <<>> /\ Head(stack') = pushed'
    BY <1>2, <2>1, PushedOnTop DEF Push
  <2> QED
    BY <1>2, <2>2 DEF Push
<1>3. CASE Notify
  BY <1>3 DEF Notify, Wake
<1>4. CASE Stop
  BY <1>4 DEF Stop, Wake, MutexFree
<1>5. CASE Throw
  BY <1>5 DEF Throw
<1>6. CASE ThreadEnds
  BY <1>6 DEF ThreadEnds
<1>7. CASE Pop
  BY <1>7 DEF Pop
<1>8. CASE Evaluate
  BY <1>8 DEF Evaluate, PopReady, Ready, Leave
<1>9. CASE Sleep
  BY <1>9 DEF Sleep
<1>10. CASE PopTimeout
  BY <1>10 DEF PopTimeout, AfterTimeout, PopReady, Ready, Leave
<1>11. CASE Take
  BY <1>11 DEF Take
<1>12. CASE Upload
  BY <1>12 DEF Upload, Leave
<1>13. CASE WriteTimer
  BY <1>13 DEF WriteTimer, StillRuns, StartWrite, FirstPacket, Leave
<1>14. CASE WriteDone
  BY <1>14 DEF WriteDone, StillRuns, StartWrite, FrameIsOver, Leave
<1>15. CASE PidTimer
  BY <1>15 DEF PidTimer, PidStops, Leave
<1>16. CASE HandlerError
  BY <1>16 DEF HandlerError, Leave
<1> QED
  BY <1>1, <1>2, <1>3, <1>4, <1>5, <1>6, <1>7, <1>8, <1>9, <1>10, <1>11, <1>12,
     <1>13, <1>14, <1>15, <1>16 DEF Next, Thread, FirstPop, Handlers

(* The frame being written is the last one pushed, or a newer one waits. *)
LEMMA LatestNext ==
  ASSUME Frame, Places, Top, Latest, Next
  PROVE  Latest'
<1> USE DEF Latest, Top, Popping, Frame, Places
<1>1. CASE ThreadLoop
  BY <1>1 DEF ThreadLoop, MayLoop
<1>2. CASE Push
  <2>1. pushed' \in Frames
    BY <1>2, PushedIsFrame
  <2>2. stack' # <<>>
    BY <1>2, <2>1, PushedOnTop DEF Push
  <2> QED
    BY <1>2, <2>2 DEF Push
<1>3. CASE Notify
  BY <1>3 DEF Notify, Wake
<1>4. CASE Stop
  BY <1>4 DEF Stop, Wake, MutexFree
<1>5. CASE Throw
  BY <1>5 DEF Throw
<1>6. CASE ThreadEnds
  BY <1>6 DEF ThreadEnds
<1>7. CASE Pop
  BY <1>7 DEF Pop
<1>8. CASE Evaluate
  BY <1>8 DEF Evaluate, PopReady, Ready, Leave
<1>9. CASE Sleep
  BY <1>9 DEF Sleep
<1>10. CASE PopTimeout
  BY <1>10 DEF PopTimeout, AfterTimeout, PopReady, Ready, Leave
<1>11. CASE Take
  BY <1>11 DEF Take, Newest
<1>12. CASE Upload
  BY <1>12 DEF Upload, Leave
<1>13. CASE WriteTimer
  <2>1. CASE StillRuns /\ stack = <<>>
    BY <1>13, <2>1 DEF WriteTimer, StillRuns, Leave
  <2>2. CASE StillRuns /\ stack # <<>>
    BY <1>13, <2>2 DEF WriteTimer, StillRuns, Newest, Leave
  <2>3. CASE Leave("stop")
    BY <2>3 DEF Leave
  <2> QED
    BY <1>13, <2>1, <2>2, <2>3 DEF WriteTimer
<1>14. CASE WriteDone
  BY <1>14 DEF WriteDone, StillRuns, StartWrite, FrameIsOver, Leave
<1>15. CASE PidTimer
  BY <1>15 DEF PidTimer, PidStops, Leave
<1>16. CASE HandlerError
  BY <1>16 DEF HandlerError, Leave
<1> QED
  BY <1>1, <1>2, <1>3, <1>4, <1>5, <1>6, <1>7, <1>8, <1>9, <1>10, <1>11, <1>12,
     <1>13, <1>14, <1>15, <1>16 DEF Next, Thread, FirstPop, Handlers

(* frame_progress_ and the last packet go together. *)
LEMMA WrittenNext ==
  ASSUME progress \in Nat, progress =< PACKETS, Written, Next
  PROVE  Written'
<1> USE DEF Written
<1>1. CASE ThreadLoop
  BY <1>1, ClientAssumption DEF ThreadLoop, MayLoop
<1>2. CASE Push
  BY <1>2, ClientAssumption DEF Push
<1>3. CASE Notify
  BY <1>3, ClientAssumption DEF Notify, Wake
<1>4. CASE Stop
  BY <1>4, ClientAssumption DEF Stop, Wake, MutexFree
<1>5. CASE Throw
  BY <1>5, ClientAssumption DEF Throw
<1>6. CASE ThreadEnds
  BY <1>6, ClientAssumption DEF ThreadEnds
<1>7. CASE Pop
  BY <1>7, ClientAssumption DEF Pop
<1>8. CASE Evaluate
  BY <1>8, ClientAssumption DEF Evaluate, PopReady, Ready, Leave
<1>9. CASE Sleep
  BY <1>9, ClientAssumption DEF Sleep
<1>10. CASE PopTimeout
  BY <1>10, ClientAssumption DEF PopTimeout, AfterTimeout, PopReady, Ready,
     Leave
<1>11. CASE Take
  BY <1>11, ClientAssumption DEF Take
<1>12. CASE Upload
  BY <1>12, ClientAssumption DEF Upload, Leave
<1>13. CASE WriteTimer
  <2>1. CASE StillRuns /\ StartWrite(pkts', FirstPacket)
    <3>1. main' = "asio"
      BY <1>13, <2>1 DEF WriteTimer, StillRuns
    <3> QED
      BY <2>1, <3>1, ClientAssumption DEF StartWrite, FirstPacket
  <2>2. CASE Leave("stop")
    BY <2>2 DEF Leave
  <2> QED
    BY <1>13, <2>1, <2>2 DEF WriteTimer
<1>14. CASE WriteDone
  <2>1. CASE StillRuns /\ StartWrite(pkts, progress) /\ UNCHANGED pkts
    <3>1. main' = "asio"
      BY <1>14, <2>1 DEF WriteDone, StillRuns
    <3> QED
      BY <2>1, <3>1, ClientAssumption DEF StartWrite
  <2>2. CASE /\ StillRuns /\ FrameIsOver
             /\ chain' = "timer" /\ UNCHANGED <<pkts, progress, sent>>
    <3>1. main' = "asio" /\ chain = "write"
      BY <1>14, <2>2 DEF WriteDone, StillRuns
    <3> QED
      BY <2>2, <3>1, ClientAssumption DEF FrameIsOver
  <2>3. CASE Leave("stop")
    BY <2>3 DEF Leave
  <2> QED
    BY <1>14, <2>1, <2>2, <2>3 DEF WriteDone
<1>15. CASE PidTimer
  BY <1>15, ClientAssumption DEF PidTimer, PidStops, Leave
<1>16. CASE HandlerError
  BY <1>16, ClientAssumption DEF HandlerError, Leave
<1> QED
  BY <1>1, <1>2, <1>3, <1>4, <1>5, <1>6, <1>7, <1>8, <1>9, <1>10, <1>11, <1>12,
     <1>13, <1>14, <1>15, <1>16 DEF Next, Thread, FirstPop, Handlers

(* frame_buffer_t::stop cannot come between pop's look and its sleep. *)
LEMMA NoStopNext ==
  ASSUME Places, NoStop, Next
  PROVE  NoStop'
<1> USE DEF NoStop, Places
<1>1. CASE ThreadLoop
  BY <1>1 DEF ThreadLoop, MayLoop
<1>2. CASE Push
  BY <1>2 DEF Push
<1>3. CASE Notify
  BY <1>3 DEF Notify, Wake
<1>4. CASE Stop
  BY <1>4 DEF Stop, Wake, MutexFree
<1>5. CASE Throw
  BY <1>5 DEF Throw
<1>6. CASE ThreadEnds
  BY <1>6 DEF ThreadEnds
<1>7. CASE Pop
  BY <1>7 DEF Pop
<1>8. CASE Evaluate
  BY <1>8 DEF Evaluate, PopReady, Ready, Leave
<1>9. CASE Sleep
  BY <1>9 DEF Sleep
<1>10. CASE PopTimeout
  BY <1>10 DEF PopTimeout, AfterTimeout, PopReady, Ready, Leave
<1>11. CASE Take
  BY <1>11 DEF Take
<1>12. CASE Upload
  BY <1>12 DEF Upload, Leave
<1>13. CASE WriteTimer
  BY <1>13 DEF WriteTimer, StillRuns, StartWrite, FirstPacket, Leave
<1>14. CASE WriteDone
  BY <1>14 DEF WriteDone, StillRuns, StartWrite, FrameIsOver, Leave
<1>15. CASE PidTimer
  BY <1>15 DEF PidTimer, PidStops, Leave
<1>16. CASE HandlerError
  BY <1>16 DEF HandlerError, Leave
<1> QED
  BY <1>1, <1>2, <1>3, <1>4, <1>5, <1>6, <1>7, <1>8, <1>9, <1>10, <1>11, <1>12,
     <1>13, <1>14, <1>15, <1>16 DEF Next, Thread, FirstPop, Handlers


(* The invariant is inductive. *)
LEMMA InvNext == Inv /\ [Next]_vars => Inv'
<1> SUFFICES ASSUME Inv, [Next]_vars PROVE Inv'
  OBVIOUS
<1>1. Flags /\ Frame /\ Places /\ Packet
  BY Parts DEF Inv
<1>2. CASE Next
  <2>1. Flags'
    BY <1>1, <1>2, FlagsNext
  <2>2. Frame' /\ Places'
    BY <1>1, <1>2, FrameNext, PlacesNext DEF Inv
  <2>3. Packet'
    BY <1>1, <1>2, <2>2, PacketNext
  <2>4. TypeOK'
    BY <2>1, <2>2, <2>3, Zenon DEF TypeOK, Flags, Frame, Places, Packet, Frames
  <2>5. progress \in Nat /\ progress =< PACKETS
    BY <1>1, ClientAssumption DEF Packet
  <2>6. Written'
    BY <1>1, <1>2, <2>5, WrittenNext DEF Inv
  <2>7. Top' /\ Latest' /\ NoStop'
    BY <1>1, <1>2, <2>2, TopNext, LatestNext, NoStopNext DEF Inv
  <2> QED
    BY <2>4, <2>6, <2>7 DEF Inv
<1>3. CASE UNCHANGED vars
  <2>1. TypeOK'
    BY <1>3, Zenon DEF Inv, TypeOK, vars, Frames
  <2>2. Top' /\ Latest' /\ Written' /\ NoStop'
    BY <1>3 DEF Inv, vars, Top, Popping, Latest, Written, NoStop
  <2> QED
    BY <2>1, <2>2 DEF Inv
<1> QED
  BY <1>2, <1>3

(* It holds in every state. *)
LEMMA InvAlways == Spec => []Inv
  BY InvInit, InvNext, PTL DEF Spec

------------------------------------------------------------------------------
(* Every variable keeps its range; frame_progress_ is a packet's index in pkts_
   whenever transport_t::on_write_ uses it as one.                            *)
THEOREM TypeCorrect == Spec => []TypeOK
  BY InvAlways, PTL DEF Inv

(* frame_buffer_t::pop is never asleep once stop() was called. *)
THEOREM NeverSleepsThroughStop == Spec => []StopHeard
<1>1. Inv => StopHeard
  BY DEF Inv, NoStop, StopHeard
<1> QED
  BY <1>1, InvAlways, PTL

(* transport_t writes whole frames, packet after packet. *)
THEOREM WritesWholeFrames == Spec => WholeFrames
<1> DEFINE Follows == sent' # sent =>
              \/ sent.index = PACKETS - 1 /\ sent'.index = 0
              \/ sent'.index = sent.index + 1 /\ sent'.frame = sent.frame
<1>1. Inv /\ [Next]_vars => [Follows]_vars
  <2> SUFFICES ASSUME Inv, Next, sent' # sent
               PROVE  \/ sent.index = PACKETS - 1 /\ sent'.index = 0
                      \/ sent'.index = sent.index + 1 /\ sent'.frame = sent.frame
    OBVIOUS
  <2>1. WriteTimer \/ WriteDone
    BY Zenon DEF Next, Thread, FirstPop, Handlers, ThreadLoop, Push, Notify,
       Stop, Throw, ThreadEnds, Pop, Evaluate, Sleep, PopTimeout, Take, Upload,
       PidTimer, HandlerError, PopReady, AfterTimeout, PidStops, Leave
  <2>2. CASE WriteTimer
    BY <2>2 DEF Inv, Written, WriteTimer, StartWrite, FirstPacket, StillRuns,
       Leave
  <2>3. CASE WriteDone
    <3>1. progress \in 0 .. PACKETS
      BY Zenon DEF Inv, TypeOK
    <3> QED
      BY <2>3, <3>1 DEF Inv, Written, WriteDone, StartWrite, FrameIsOver,
         StillRuns, Leave
  <2> QED
    BY <2>1, <2>2, <2>3
<1> QED
  BY <1>1, InvAlways, PTL DEF Spec, WholeFrames

(* A frame that transport_t begins is the newest that was pushed. *)
THEOREM WritesLatest == Spec => LatestFrame
<1> DEFINE Begins == sent' # sent /\ sent'.index = 0 => sent'.frame = pushed
<1>1. Inv /\ [Next]_vars => [Begins]_vars
  <2> SUFFICES ASSUME Inv, Next, sent' # sent, sent'.index = 0
               PROVE  sent'.frame = pushed
    OBVIOUS
  <2>1. WriteTimer \/ WriteDone
    BY Zenon DEF Next, Thread, FirstPop, Handlers, ThreadLoop, Push, Notify,
       Stop, Throw, ThreadEnds, Pop, Evaluate, Sleep, PopTimeout, Take, Upload,
       PidTimer, HandlerError, PopReady, AfterTimeout, PidStops, Leave
  <2>2. CASE WriteTimer
    BY <2>2 DEF Inv, Top, Latest, WriteTimer, StartWrite, StillRuns, Newest,
       Leave
  <2>3. CASE WriteDone
    <3>1. progress \in 0 .. PACKETS
      BY Zenon DEF Inv, TypeOK
    <3> QED
      BY <2>3, <3>1 DEF Inv, Written, WriteDone, StartWrite, StillRuns, Leave
  <2> QED
    BY <2>1, <2>2, <2>3
<1> QED
  BY <1>1, InvAlways, PTL DEF Spec, LatestFrame

(* frame_buffer_t::pop throws its timeout only when no frame was ever pushed. *)
THEOREM TimesOutInVain == Spec => TimeoutMeansNoFrame
<1>1. Inv /\ [Next]_vars => [why' = "timeout" /\ why # "timeout" => pushed = 0]_vars
  <2> SUFFICES ASSUME Inv, Next, why' = "timeout", why # "timeout"
               PROVE  pushed = 0
    OBVIOUS
  <2>1. PopTimeout
    BY Zenon DEF Next, Thread, FirstPop, Handlers, ThreadLoop, Push, Notify,
       Stop, Throw, ThreadEnds, Pop, Evaluate, Sleep, Take, Upload, WriteTimer,
       WriteDone, PidTimer, HandlerError, PopReady, PidStops, StillRuns, Leave
  <2>2. stack = <<>>
    BY <2>1 DEF PopTimeout, AfterTimeout, PopReady, Ready, Leave
  <2> QED
    BY <2>1, <2>2 DEF Inv, Top, Popping, PopTimeout
<1> QED
  BY <1>1, InvAlways, PTL DEF Spec, TimeoutMeansNoFrame

------------------------------------------------------------------------------
(* The refinement of Register *)

(* tr.run() has been left if and only if there is a reason. *)
Reason == why = "" <=> main # "ended"

(* A frame that the main thread takes, uploads for or sends has been pushed. *)
Begun == main \in {"take", "upload", "asio"} => pushed # 0

LEMMA ReasonNext == Inv /\ Reason /\ [Next]_vars => Reason'
<1> SUFFICES ASSUME Inv, Reason, [Next]_vars PROVE Reason'
  OBVIOUS
<1>1. CASE Thread /\ UNCHANGED use_pid
  BY <1>1 DEF Reason, Thread, ThreadLoop, Push, Notify, Stop, Throw, ThreadEnds, Wake
<1>2. CASE FirstPop /\ UNCHANGED use_pid
  BY <1>2 DEF Reason, FirstPop, Pop, Evaluate, Sleep, PopTimeout, Take, PopReady,
     AfterTimeout, Leave
<1>3. CASE (Upload \/ Handlers) /\ UNCHANGED use_pid
  BY <1>3 DEF Reason, Upload, Handlers, WriteTimer, WriteDone, PidTimer,
     HandlerError, StillRuns, PidStops, Leave
<1>4. CASE UNCHANGED vars
  BY <1>4 DEF Reason, vars
<1> QED
  BY <1>1, <1>2, <1>3, <1>4 DEF Next

LEMMA BegunNext == Inv /\ Begun /\ [Next]_vars => Begun'
<1> SUFFICES ASSUME Inv, Begun, [Next]_vars PROVE Begun'
  OBVIOUS
<1>1. stack # <<>> => pushed # 0
  <2>1. Frame /\ (stack # <<>> => Head(stack) = pushed)
    BY Zenon DEF Inv, TypeOK, Top, Frame
  <2>2. stack # <<>> => Head(stack) \in Frames
    BY <2>1, NewestIsFrame DEF Newest
  <2> QED
    BY <2>1, <2>2, ClientAssumption DEF Frames
<1>2. CASE Push
  <2>1. pushed' = (pushed % FRAMES) + 1 /\ pushed \in 0 .. FRAMES
    BY <1>2, Zenon DEF Push, Inv, TypeOK
  <2>2. pushed' # 0
    BY <2>1, ClientAssumption
  <2> QED
    BY <2>2 DEF Begun
<1>3. CASE ThreadLoop \/ Notify \/ Stop \/ Throw \/ ThreadEnds
  BY <1>3 DEF Begun, ThreadLoop, Notify, Stop, Throw, ThreadEnds, Wake
<1>4. CASE FirstPop
  <2>1. fb_run /\ Ready => stack # <<>>
    BY DEF Ready
  <2> QED
    BY <1>1, <1>4, <2>1 DEF Begun, FirstPop, Pop, Evaluate, Sleep, PopTimeout,
       Take, PopReady, AfterTimeout, Leave
<1>5. CASE Upload \/ Handlers
  BY <1>5 DEF Begun, Upload, Handlers, WriteTimer, WriteDone, PidTimer,
     HandlerError, StillRuns, PidStops, Leave
<1>6. CASE UNCHANGED vars
  BY <1>6 DEF Begun, vars
<1> QED
  BY <1>2, <1>3, <1>4, <1>5, <1>6, Zenon DEF Next, Thread

(* The register's view of an action that neither pushes nor writes nor ends. *)
LEMMA UnseenNext ==
  UNCHANGED <<pushed, sent, why>> => UNCHANGED Channel!vars
  BY DEF Channel!vars

(* Whatever the reason, an end of tr.run() is one of the register. *)
LEMMA LeaveEnds ==
  ASSUME Inv, Reason, main # "ended", NEW reason, Leave(reason),
         reason \in {"stop", "error"} \/ (reason = "timeout" /\ pushed = 0),
         pushed' = pushed
  PROVE  Channel!End
  BY DEF Reason, Leave, Channel!End

(* on_write_timer_ begins the newest frame, when the last one is out. *)
LEMMA WriteTimerBegins ==
  ASSUME Inv, Reason, Begun, WriteTimer PROVE [Channel!Next]_(Channel!vars)
<1>1. main = "asio" /\ chain = "timer" /\ pushed' = pushed
  BY DEF WriteTimer
<1>2. CASE run /\ StillRuns /\ StartWrite(pkts', FirstPacket)
  <2>1. pkts' = pushed
    BY <1>1, <1>2 DEF WriteTimer, StillRuns, Inv, Top, Latest, Newest, Leave
  <2>2. sent' = [frame |-> pushed, index |-> 0]
    BY <1>2, <2>1 DEF StartWrite, FirstPacket
  <2>3. why = "" /\ pushed # 0 /\ sent.index = PACKETS - 1 /\ why' = why
    BY <1>1, <1>2 DEF Reason, Begun, Inv, Written, StillRuns
  <2>4. Channel!BeginFrame
    BY <1>1, <2>2, <2>3 DEF Channel!BeginFrame
  <2> QED
    BY <2>4 DEF Channel!Next
<1>3. CASE Leave("stop")
  <2>1. Channel!End
    BY <1>1, <1>3, LeaveEnds
  <2> QED
    BY <2>1 DEF Channel!Next
<1> QED
  BY <1>2, <1>3 DEF WriteTimer, StillRuns

(* on_write_ goes on with the frame, waits for the next, or ends. *)
LEMMA WriteDoneContinues ==
  ASSUME Inv, Reason, WriteDone PROVE [Channel!Next]_(Channel!vars)
<1>1. main = "asio" /\ chain = "write" /\ pushed' = pushed
  BY DEF WriteDone
<1>2. CASE StillRuns /\ ~FrameIsOver /\ StartWrite(pkts, progress)
  <2>1. /\ progress \in 0 .. PACKETS /\ progress < PACKETS /\ progress >= 1
        /\ sent = [frame |-> pkts, index |-> progress - 1]
    <3>1. progress \in 0 .. PACKETS
      BY Zenon DEF Inv, TypeOK
    <3> QED
      BY <1>1, <1>2, <3>1, ClientAssumption DEF Inv, Written, FrameIsOver
  <2>2. sent' = [frame |-> pkts, index |-> progress] /\ why' = why /\ why = ""
    BY <1>1, <1>2 DEF StartWrite, StillRuns, Reason
  <2>3. /\ sent.frame = pkts /\ sent.index = progress - 1
        /\ sent.index + 1 = progress /\ sent.index < PACKETS - 1
    BY <2>1, ClientAssumption
  <2>4. sent' = [frame |-> sent.frame, index |-> sent.index + 1]
    BY <2>2, <2>3
  <2>5. Channel!ContinueFrame
    BY <1>1, <2>2, <2>3, <2>4, Zenon DEF Channel!ContinueFrame
  <2> QED
    BY <2>5 DEF Channel!Next
<1>3. CASE StillRuns /\ UNCHANGED sent
  <2>1. UNCHANGED Channel!vars
    BY <1>1, <1>3, UnseenNext DEF StillRuns
  <2> QED
    BY <2>1
<1>4. CASE Leave("stop")
  <2>1. Channel!End
    BY <1>1, <1>4, LeaveEnds
  <2> QED
    BY <2>1 DEF Channel!Next
<1> QED
  BY <1>2, <1>3, <1>4, Zenon DEF WriteDone

(* One step for each action, or for those that the register sees alike. *)
LEMMA RegisterNext ==
  Inv /\ Reason /\ Begun /\ [Next]_vars => [Channel!Next]_(Channel!vars)
<1> SUFFICES ASSUME Inv, Reason, Begun, [Next]_vars
             PROVE  [Channel!Next]_(Channel!vars)
  OBVIOUS
<1>1. ASSUME Push PROVE Channel!Overwrite
  BY <1>1 DEF Push, Channel!Overwrite
<1>2. ASSUME \/ ThreadLoop \/ Notify \/ Stop \/ Throw \/ ThreadEnds
             \/ Pop \/ Sleep \/ Take
      PROVE  UNCHANGED Channel!vars
  BY <1>2, UnseenNext DEF ThreadLoop, Notify, Stop, Throw, ThreadEnds, Pop, Sleep, Take
<1>3. ASSUME Evaluate PROVE [Channel!Next]_(Channel!vars)
  <2>1. CASE Leave("stop")
    <3>1. Channel!End
      BY <1>3, <2>1, LeaveEnds DEF Evaluate
    <3> QED
      BY <3>1 DEF Channel!Next
  <2>2. CASE UNCHANGED <<run, why, writer>>
    BY <1>3, <2>2, UnseenNext DEF Evaluate
  <2> QED
    BY <1>3, <2>1, <2>2, Zenon DEF Evaluate, PopReady
<1>4. ASSUME PopTimeout PROVE [Channel!Next]_(Channel!vars)
  <2>1. main = "asleep" /\ pushed' = pushed
    BY <1>4 DEF PopTimeout
  <2>2. CASE Leave("stop")
    <3>1. Channel!End
      BY <2>1, <2>2, LeaveEnds
    <3> QED
      BY <3>1 DEF Channel!Next
  <2>3. CASE ~Ready /\ Leave("timeout")
    <3>1. pushed = 0
      BY <2>1, <2>3 DEF Ready, Inv, Top, Popping
    <3>2. Channel!End
      BY <2>1, <2>3, <3>1, LeaveEnds
    <3> QED
      BY <3>2 DEF Channel!Next
  <2>4. CASE UNCHANGED <<run, why, writer>>
    BY <2>1, <2>4, UnseenNext
  <2> QED
    BY <1>4, <2>2, <2>3, <2>4, Zenon DEF PopTimeout, AfterTimeout, PopReady
<1>5. ASSUME Upload PROVE [Channel!Next]_(Channel!vars)
  <2>1. main = "upload" /\ pushed' = pushed
    BY <1>5 DEF Upload
  <2>2. CASE UNCHANGED <<run, why, pkts, progress, sent>>
    BY <2>1, <2>2, UnseenNext
  <2>3. CASE Leave("stop") \/ Leave("error")
    <3>1. Channel!End
      BY <2>1, <2>3, LeaveEnds
    <3> QED
      BY <3>1 DEF Channel!Next
  <2> QED
    BY <1>5, <2>2, <2>3, Zenon DEF Upload
<1>6. ASSUME PidTimer \/ HandlerError PROVE Channel!End
  <2>1. /\ main = "asio" /\ pushed' = pushed
        /\ Leave("stop") \/ Leave("error")
    BY <1>6 DEF PidTimer, HandlerError, PidStops
  <2> QED
    BY <2>1, LeaveEnds
<1>7. ASSUME UNCHANGED vars PROVE UNCHANGED Channel!vars
  BY <1>7, UnseenNext DEF vars
<1>8. ASSUME Next PROVE [Channel!Next]_(Channel!vars)
  BY <1>1, <1>2, <1>3, <1>4, <1>5, <1>6, <1>8, WriteTimerBegins,
     WriteDoneContinues, Zenon
     DEF Next, Thread, FirstPop, Handlers, Channel!Next
<1> QED
  BY <1>7, <1>8

(* The two threads, the stack between them and the packets in flight implement
   a register that the newest frame overwrites and that is read whole.       *)
THEOREM RegisterKept == Spec => ImplementsRegister
<1>1. Init => Reason /\ Begun /\ Channel!Init
  BY DEF Init, Reason, Begun, Channel!Init
<1>2. Spec => [](Reason /\ Begun)
  BY <1>1, InvAlways, ReasonNext, BegunNext, PTL DEF Spec
<1> QED
  BY <1>1, <1>2, InvAlways, RegisterNext, PTL
     DEF Spec, ImplementsRegister, Channel!Safety
==============================================================================
