--------------------------- MODULE FrameSyncProofs ---------------------------
(***************************************************************************)
(* The handoff of frames for any number of frames, palettes and offsets.   *)
(* What makes it safe is that there is one token: it is in nstored, with   *)
(* the client or in nempty, and the game draws only when it is in none of  *)
(* them.  The last post of a client that ends is one token more.           *)
(***************************************************************************)
EXTENDS MCFrameSync, TLAPS

(* The client has the buffer: from nstored.wait to nempty.post. *)
Held == IF consumer \in {"check", "copy", "palette", "post"} THEN 1 ELSE 0

(* The game has given the buffer away, and has not got it back. *)
Given == IF game \in {"play", "windowy", "copy", "disconnect", "farewell"}
         THEN 0 ELSE 1

(* The client of today is past its last post, or there is none to come. *)
Over == consumer = "released" \/ (consumer = "gone" /\ ~named)

(* The posts of ~consumer_thread_t that may still be about. *)
Surplus == (IF Over THEN 1 ELSE 0) + (IF orphan THEN 1 ELSE 0)

(* Nobody makes a token but frame_ready, disconnected and ~consumer_thread_t. *)
Tokens == nempty + nstored + Held <= Given + Surplus

(* The frame in the buffer is the one after the last that was read, and what
   was said of it when it was posted is still true.                          *)
Unread == /\ frame = NextFrame(got.frame)
          /\ sent.frame = frame /\ sent.pal = palette_index

(* What the client does with a frame it has. *)
Reading ==
  /\ consumer = "copy" => Unread
  /\ consumer = "check" /\ ~disconnected => Unread
  /\ consumer \in {"palette", "post"} =>
       got.frame = frame /\ sent.frame = frame /\ sent.pal = palette_index
  /\ consumer = "post" => got.pal = sent.pal

(* What is in the buffer when nobody has it, as long as no client is over. *)
Waiting ==
  /\ game \in {"play", "windowy"} => got.frame = frame
  /\ game = "copy" => frame = NextFrame(got.frame)
  /\ game = "wait" /\ nempty > 0 => got.frame = frame
  /\ nstored > 0 /\ ~disconnected => Unread

(* disconnected() is not answered before the client is over. *)
Farewell ==
  /\ game = "disconnect" => nempty = 0
  /\ game \in {"farewell", "leave"} =>
       /\ disconnected /\ nempty = 0
       /\ consumer \notin {"copy", "palette", "post"}

Handoff == ~orphan => /\ Reading
                      /\ ~Over => Waiting /\ Farewell

Inv == TypeOK /\ Tokens /\ Handoff

(* TypeOK in three parts: each has a prover that is good at it. *)
Flags ==
  /\ disconnected \in BOOLEAN /\ named \in BOOLEAN
  /\ game_run \in BOOLEAN /\ first \in BOOLEAN
  /\ client_run \in BOOLEAN /\ joined \in BOOLEAN /\ orphan \in BOOLEAN

Values ==
  /\ {nempty, nstored} \subseteq 0 .. (IF orphan THEN 3 ELSE 2)
  /\ frame \in Numbers /\ palette_index \in Indices
  /\ palette_count \in {0, PALETTES}
  /\ windowx \in OFFSETS /\ windowy \in OFFSETS
  /\ game \in {"play", "windowy", "copy", "wait", "disconnect", "farewell",
               "leave"} \union GameLeft
  /\ consumer \in {"gone", "loop", "wait", "check", "copy", "palette", "post",
                   "windowx", "windowy", "push", "done", "released"}

History ==
  /\ sent \in [frame : Numbers, pal : Indices, window : OFFSETS \X OFFSETS]
  /\ got \in [frame : Numbers, pal : Indices, window : OFFSETS \X OFFSETS,
              due : OFFSETS \X OFFSETS]

USE DEF sems, window, shm, client, history

LEMMA Parts == TypeOK <=> Flags /\ Values /\ History
  BY Zenon DEF TypeOK, Flags, Values, History

(* At the start the one token is the game's, and nothing has been read. *)
LEMMA InvInit == Init => Inv
<1> SUFFICES ASSUME Init PROVE Inv
  OBVIOUS
<1>1. Flags
  BY Zenon DEF Init, Flags
<1>2. Values /\ Tokens
  BY FrameSyncAssumption DEF Init, Values, Tokens, Held, Given, Surplus, Over,
     Numbers, Indices
<1>3. History
  BY FrameSyncAssumption DEF Init, History, NoFrame, Numbers, Indices
<1>4. Handoff
  BY FrameSyncAssumption DEF Init, Handoff, Reading, Waiting, Farewell, NoFrame
<1> QED
  BY <1>1, <1>2, <1>3, <1>4, Parts DEF Inv

(* No step assigns anything but TRUE or FALSE to a flag. *)
LEMMA FlagsNext ==
  ASSUME Flags, Next
  PROVE  Flags'
<1> USE DEF Flags
<1>1. CASE SetPalettes
  BY <1>1, Zenon DEF SetPalettes
<1>2. CASE SetWindowX
  BY <1>2, Zenon DEF SetWindowX
<1>3. CASE SetWindowY
  BY <1>3, Zenon DEF SetWindowY
<1>4. CASE PaletteChanged
  BY <1>4, Zenon DEF PaletteChanged
<1>5. CASE FrameReady
  BY <1>5, Zenon DEF FrameReady
<1>6. CASE FramePosted
  BY <1>6, Zenon DEF FramePosted
<1>7. CASE FrameRendered
  BY <1>7, Zenon DEF FrameRendered, AfterFrame
<1>8. CASE FrameTimeout
  BY <1>8, Zenon DEF FrameTimeout, OnTimeout, Exit
<1>9. CASE Endoom
  BY <1>9, Zenon DEF Endoom
<1>10. CASE Disconnected
  BY <1>10, Zenon DEF Disconnected
<1>11. CASE DisconnectedPost
  BY <1>11, Zenon DEF DisconnectedPost
<1>12. CASE Leave
  BY <1>12, Zenon DEF Leave, Exit
<1>13. CASE Sigint
  BY <1>13, Zenon DEF Sigint
<1>14. CASE GameKilled
  BY <1>14, Zenon DEF GameKilled
<1>15. CASE ConsumerLoop
  BY <1>15, Zenon DEF ConsumerLoop, LoopEnds, UnsetRun
<1>16. CASE ConsumerTake
  BY <1>16, Zenon DEF ConsumerTake
<1>17. CASE ConsumerTimeout
  BY <1>17, Zenon DEF ConsumerTimeout, LoopEnds, UnsetRun
<1>18. CASE ConsumerRefuses
  BY <1>18, Zenon DEF ConsumerRefuses, LoopEnds, UnsetRun
<1>19. CASE ConsumerAccepts
  BY <1>19, Zenon DEF ConsumerAccepts
<1>20. CASE ConsumerCopy
  BY <1>20, Zenon DEF ConsumerCopy
<1>21. CASE ConsumerPalette
  BY <1>21, Zenon DEF ConsumerPalette
<1>22. CASE ConsumerPost
  BY <1>22, Zenon DEF ConsumerPost
<1>23. CASE ConsumerWindowX
  BY <1>23, Zenon DEF ConsumerWindowX
<1>24. CASE ConsumerWindowY
  BY <1>24, Zenon DEF ConsumerWindowY
<1>25. CASE ConsumerPush
  BY <1>25, Zenon DEF ConsumerPush, LoopEnds, UnsetRun
<1>26. CASE ConsumerDestroyed
  BY <1>26, Zenon DEF ConsumerDestroyed, ReleaseGame
<1>27. CASE ShmRemoved
  BY <1>27, Zenon DEF ShmRemoved
<1>28. CASE ClientStart
  BY <1>28, Zenon DEF ClientStart
<1>29. CASE Join
  BY <1>29, Zenon DEF Join
<1>30. CASE ClientKilled
  BY <1>30, Zenon DEF ClientKilled
<1> QED
  BY <1>1, <1>2, <1>3, <1>4, <1>5, <1>6, <1>7, <1>8, <1>9, <1>10, <1>11, <1>12,
     <1>13, <1>14, <1>15, <1>16, <1>17, <1>18, <1>19, <1>20, <1>21, <1>22,
     <1>23, <1>24, <1>25, <1>26, <1>27, <1>28, <1>29, <1>30 DEF Next, Game, Consumer

(* The game's steps make a token only when they give one away: frame_ready
   and disconnected post once each, and no wait takes what is not there ... *)
LEMMA TokensGame ==
  ASSUME Values, Tokens, Game \/ Sigint \/ GameKilled
  PROVE  Tokens'
<1> USE DEF Values, Tokens, Held, Given, Surplus, Over
<1>1. CASE SetPalettes
  BY <1>1 DEF SetPalettes
<1>2. CASE SetWindowX
  BY <1>2 DEF SetWindowX
<1>3. CASE SetWindowY
  BY <1>3 DEF SetWindowY
<1>4. CASE PaletteChanged
  BY <1>4 DEF PaletteChanged
<1>5. CASE FrameReady
  BY <1>5 DEF FrameReady
<1>6. CASE FramePosted
  BY <1>6 DEF FramePosted
<1>7. CASE FrameRendered
  BY <1>7 DEF FrameRendered, AfterFrame
<1>8. CASE FrameTimeout
  BY <1>8 DEF FrameTimeout, OnTimeout, Exit
<1>9. CASE Endoom
  BY <1>9 DEF Endoom
<1>10. CASE Disconnected
  BY <1>10 DEF Disconnected
<1>11. CASE DisconnectedPost
  BY <1>11 DEF DisconnectedPost
<1>12. CASE Leave
  BY <1>12 DEF Leave, Exit
<1>13. CASE Sigint
  BY <1>13 DEF Sigint
<1>14. CASE GameKilled
  BY <1>14 DEF GameKilled
<1> QED
  BY <1>1, <1>2, <1>3, <1>4, <1>5, <1>6, <1>7, <1>8, <1>9, <1>10, <1>11, <1>12,
     <1>13, <1>14 DEF Game

(* ... the client hands on the one it took and adds one at the very end ... *)
LEMMA TokensConsumer ==
  ASSUME Values, Tokens, Consumer
  PROVE  Tokens'
<1> USE DEF Values, Tokens, Held, Given, Surplus, Over
<1>1. CASE ConsumerLoop
  BY <1>1 DEF ConsumerLoop, LoopEnds, UnsetRun
<1>2. CASE ConsumerTake
  BY <1>2 DEF ConsumerTake
<1>3. CASE ConsumerTimeout
  BY <1>3 DEF ConsumerTimeout, LoopEnds, UnsetRun
<1>4. CASE ConsumerRefuses
  BY <1>4 DEF ConsumerRefuses, LoopEnds, UnsetRun
<1>5. CASE ConsumerAccepts
  BY <1>5 DEF ConsumerAccepts
<1>6. CASE ConsumerCopy
  BY <1>6 DEF ConsumerCopy
<1>7. CASE ConsumerPalette
  BY <1>7 DEF ConsumerPalette
<1>8. CASE ConsumerPost
  BY <1>8 DEF ConsumerPost
<1>9. CASE ConsumerWindowX
  BY <1>9 DEF ConsumerWindowX
<1>10. CASE ConsumerWindowY
  BY <1>10 DEF ConsumerWindowY
<1>11. CASE ConsumerPush
  BY <1>11 DEF ConsumerPush, LoopEnds, UnsetRun
<1>12. CASE ConsumerDestroyed
  BY <1>12 DEF ConsumerDestroyed, ReleaseGame
<1>13. CASE ShmRemoved
  BY <1>13 DEF ShmRemoved
<1> QED
  BY <1>1, <1>2, <1>3, <1>4, <1>5, <1>6, <1>7, <1>8, <1>9, <1>10, <1>11, <1>12,
     <1>13 DEF Consumer

(* ... and a client that comes or goes adds none. *)
LEMMA TokensClients ==
  ASSUME TypeOK, Tokens, ClientStart \/ Join \/ ClientKilled
  PROVE  Tokens'
<1> USE DEF TypeOK, Tokens, Held, Given, Surplus, Over
<1>1. CASE ClientStart
  BY <1>1 DEF ClientStart
<1>2. CASE Join
  BY <1>2 DEF Join
<1>3. CASE ClientKilled
  BY <1>3 DEF ClientKilled
<1> QED
  BY <1>1, <1>2, <1>3

(* The counts of the semaphores follow from the tokens, the other values from
   what the step assigns. *)
LEMMA ValuesGame ==
  ASSUME Values, Tokens', Game \/ Sigint \/ GameKilled
  PROVE  Values'
<1> USE DEF Values, Numbers, Indices, GameLeft, NextFrame, Tokens, Held, Given,
       Surplus, Over
<1>1. CASE SetPalettes
  BY <1>1, FrameSyncAssumption, SMT DEF SetPalettes
<1>2. CASE SetWindowX
  BY <1>2, FrameSyncAssumption, SMT DEF SetWindowX
<1>3. CASE SetWindowY
  BY <1>3, FrameSyncAssumption, SMT DEF SetWindowY
<1>4. CASE PaletteChanged
  BY <1>4, FrameSyncAssumption, SMT DEF PaletteChanged
<1>5. CASE FrameReady
  BY <1>5, FrameSyncAssumption, SMT DEF FrameReady
<1>6. CASE FramePosted
  BY <1>6, FrameSyncAssumption, SMT DEF FramePosted
<1>7. CASE FrameRendered
  BY <1>7, FrameSyncAssumption, SMT DEF FrameRendered, AfterFrame
<1>8. CASE FrameTimeout
  BY <1>8, FrameSyncAssumption, SMT DEF FrameTimeout, OnTimeout, Exit
<1>9. CASE Endoom
  BY <1>9, FrameSyncAssumption, SMT DEF Endoom
<1>10. CASE Disconnected
  BY <1>10, FrameSyncAssumption, SMT DEF Disconnected
<1>11. CASE DisconnectedPost
  BY <1>11, FrameSyncAssumption, SMT DEF DisconnectedPost
<1>12. CASE Leave
  BY <1>12, FrameSyncAssumption, SMT DEF Leave, Exit
<1>13. CASE Sigint
  BY <1>13, FrameSyncAssumption, SMT DEF Sigint
<1>14. CASE GameKilled
  BY <1>14, FrameSyncAssumption, SMT DEF GameKilled
<1> QED
  BY <1>1, <1>2, <1>3, <1>4, <1>5, <1>6, <1>7, <1>8, <1>9, <1>10, <1>11, <1>12,
     <1>13, <1>14 DEF Game

(* The same for the client's thread ... *)
LEMMA ValuesConsumer ==
  ASSUME Values, Tokens', Consumer
  PROVE  Values'
<1> USE DEF Values, Tokens, Held, Given, Surplus, Over
<1>1. CASE ConsumerLoop
  BY <1>1 DEF ConsumerLoop, LoopEnds, UnsetRun
<1>2. CASE ConsumerTake
  BY <1>2 DEF ConsumerTake
<1>3. CASE ConsumerTimeout
  BY <1>3 DEF ConsumerTimeout, LoopEnds, UnsetRun
<1>4. CASE ConsumerRefuses
  BY <1>4 DEF ConsumerRefuses, LoopEnds, UnsetRun
<1>5. CASE ConsumerAccepts
  BY <1>5 DEF ConsumerAccepts
<1>6. CASE ConsumerCopy
  BY <1>6 DEF ConsumerCopy
<1>7. CASE ConsumerPalette
  BY <1>7 DEF ConsumerPalette
<1>8. CASE ConsumerPost
  BY <1>8 DEF ConsumerPost
<1>9. CASE ConsumerWindowX
  BY <1>9 DEF ConsumerWindowX
<1>10. CASE ConsumerWindowY
  BY <1>10 DEF ConsumerWindowY
<1>11. CASE ConsumerPush
  BY <1>11 DEF ConsumerPush, LoopEnds, UnsetRun
<1>12. CASE ConsumerDestroyed
  BY <1>12 DEF ConsumerDestroyed, ReleaseGame
<1>13. CASE ShmRemoved
  BY <1>13 DEF ShmRemoved
<1> QED
  BY <1>1, <1>2, <1>3, <1>4, <1>5, <1>6, <1>7, <1>8, <1>9, <1>10, <1>11, <1>12,
     <1>13 DEF Consumer

(* ... and for clients that come and go. *)
LEMMA ValuesClients ==
  ASSUME Values, Tokens', ClientStart \/ Join \/ ClientKilled
  PROVE  Values'
<1> USE DEF Values, Tokens, Held, Given, Surplus, Over
<1>1. CASE ClientStart
  BY <1>1 DEF ClientStart
<1>2. CASE Join
  BY <1>2 DEF Join
<1>3. CASE ClientKilled
  BY <1>3 DEF ClientKilled
<1> QED
  BY <1>1, <1>2, <1>3

(* What was sent and what was read is put together from what is in the buffer. *)
LEMMA HistoryNext ==
  ASSUME Values, History, Next
  PROVE  History'
<1> USE DEF Values, History
<1>1. CASE FramePosted
  BY <1>1 DEF FramePosted
<1>2. CASE ConsumerCopy
  BY <1>2 DEF ConsumerCopy
<1>3. CASE ConsumerPalette
  BY <1>3 DEF ConsumerPalette
<1>4. CASE ConsumerWindowX
  BY <1>4 DEF ConsumerWindowX
<1>5. CASE ConsumerWindowY
  BY <1>5 DEF ConsumerWindowY
<1>6. CASE UNCHANGED <<sent, got>>
  BY <1>6
<1> QED
  BY <1>1, <1>2, <1>3, <1>4, <1>5, <1>6, Zenon DEF Next, Game, Consumer,
     SetPalettes, SetWindowX, SetWindowY, PaletteChanged, FrameReady,
     FrameRendered, FrameTimeout, Endoom, Disconnected, DisconnectedPost,
     Leave, Sigint, GameKilled, ConsumerLoop, ConsumerTake, ConsumerTimeout,
     ConsumerRefuses, ConsumerAccepts, ConsumerPost, ConsumerPush,
     ConsumerDestroyed, ShmRemoved, ClientStart, Join, ClientKilled, LoopEnds,
     OnTimeout, Exit

(* The game changes the buffer only with the token in hand: then the client is
   not reading, and it has read what was there.  The answer to its farewell
   comes from a client that is over. *)
LEMMA HandoffGame ==
  ASSUME TypeOK, Tokens, Handoff,
         Game \/ Sigint \/ GameKilled
  PROVE  Handoff'
<1> USE DEF TypeOK, Handoff, Reading, Waiting, Farewell, Unread, GameLeft,
       NextFrame, Tokens, Held, Given, Surplus, Over
<1>1. CASE SetPalettes
  BY <1>1 DEF SetPalettes
<1>2. CASE SetWindowX
  BY <1>2 DEF SetWindowX
<1>3. CASE SetWindowY
  BY <1>3 DEF SetWindowY
<1>4. CASE PaletteChanged
  BY <1>4 DEF PaletteChanged
<1>5. CASE FrameReady
  BY <1>5 DEF FrameReady
<1>6. CASE FramePosted
  BY <1>6 DEF FramePosted
<1>7. CASE FrameRendered
  BY <1>7 DEF FrameRendered, AfterFrame
<1>8. CASE FrameTimeout
  BY <1>8 DEF FrameTimeout, OnTimeout, Exit
<1>9. CASE Endoom
  BY <1>9 DEF Endoom
<1>10. CASE Disconnected
  BY <1>10 DEF Disconnected
<1>11. CASE DisconnectedPost
  BY <1>11 DEF DisconnectedPost
<1>12. CASE Leave
  BY <1>12 DEF Leave, Exit
<1>13. CASE Sigint
  BY <1>13 DEF Sigint
<1>14. CASE GameKilled
  BY <1>14 DEF GameKilled
<1> QED
  BY <1>1, <1>2, <1>3, <1>4, <1>5, <1>6, <1>7, <1>8, <1>9, <1>10, <1>11, <1>12,
     <1>13, <1>14 DEF Game

(* The client reads with the token in hand: then the game waits. *)
LEMMA HandoffConsumer ==
  ASSUME TypeOK, Tokens, Handoff, Consumer
  PROVE  Handoff'
<1> USE DEF TypeOK, Handoff, Reading, Waiting, Farewell, Unread, GameLeft,
       NextFrame, Tokens, Held, Given, Surplus, Over
<1>1. CASE ConsumerLoop
  BY <1>1 DEF ConsumerLoop, LoopEnds, UnsetRun
<1>2. CASE ConsumerTake
  BY <1>2 DEF ConsumerTake
<1>3. CASE ConsumerTimeout
  BY <1>3 DEF ConsumerTimeout, LoopEnds, UnsetRun
<1>4. CASE ConsumerRefuses
  BY <1>4 DEF ConsumerRefuses, LoopEnds, UnsetRun
<1>5. CASE ConsumerAccepts
  BY <1>5 DEF ConsumerAccepts
<1>6. CASE ConsumerCopy
  BY <1>6 DEF ConsumerCopy
<1>7. CASE ConsumerPalette
  BY <1>7 DEF ConsumerPalette
<1>8. CASE ConsumerPost
  BY <1>8 DEF ConsumerPost
<1>9. CASE ConsumerWindowX
  BY <1>9 DEF ConsumerWindowX
<1>10. CASE ConsumerWindowY
  BY <1>10 DEF ConsumerWindowY
<1>11. CASE ConsumerPush
  BY <1>11 DEF ConsumerPush, LoopEnds, UnsetRun
<1>12. CASE ConsumerDestroyed
  BY <1>12 DEF ConsumerDestroyed, ReleaseGame
<1>13. CASE ShmRemoved
  BY <1>13 DEF ShmRemoved
<1> QED
  BY <1>1, <1>2, <1>3, <1>4, <1>5, <1>6, <1>7, <1>8, <1>9, <1>10, <1>11, <1>12,
     <1>13 DEF Consumer

(* A client that was killed had read the frame or left the token taken. *)
LEMMA HandoffClients ==
  ASSUME TypeOK, Tokens, Handoff,
         ClientStart \/ Join \/ ClientKilled
  PROVE  Handoff'
<1> USE DEF TypeOK, Handoff, Reading, Waiting, Farewell, Unread, GameLeft,
       NextFrame, Tokens, Held, Given, Surplus, Over
<1>1. CASE ClientStart
  BY <1>1 DEF ClientStart
<1>2. CASE Join
  BY <1>2 DEF Join
<1>3. CASE ClientKilled
  BY <1>3 DEF ClientKilled
<1> QED
  BY <1>1, <1>2, <1>3

(* The invariant is inductive. *)
LEMMA InvNext == Inv /\ [Next]_vars => Inv'
<1> SUFFICES ASSUME Inv, [Next]_vars PROVE Inv'
  OBVIOUS
<1>1. TypeOK /\ Flags /\ Values /\ History /\ Tokens /\ Handoff
  BY Parts DEF Inv
<1>2. CASE Next
  <2>1. Tokens'
    BY <1>1, <1>2, TokensGame, TokensConsumer, TokensClients DEF Next
  <2>2. Values'
    BY <1>1, <1>2, <2>1, ValuesGame, ValuesConsumer, ValuesClients DEF Next
  <2>3. Flags' /\ History'
    BY <1>1, <1>2, FlagsNext, HistoryNext
  <2>4. Handoff'
    BY <1>1, <1>2, HandoffGame, HandoffConsumer, HandoffClients DEF Next
  <2>5. TypeOK'
    BY <2>2, <2>3, Zenon DEF TypeOK, Flags, Values, History, Numbers, Indices, GameLeft
  <2> QED
    BY <2>1, <2>4, <2>5 DEF Inv
<1>3. CASE UNCHANGED vars
  <2>1. Flags'
    BY <1>1, <1>3, Zenon DEF Flags, vars
  <2>2. Values' /\ History'
    BY <1>1, <1>3 DEF Values, History, vars
  <2>3. TypeOK'
    BY <2>1, <2>2, Zenon DEF TypeOK, Flags, Values, History, Numbers, Indices, GameLeft
  <2>4. Tokens' /\ Handoff'
    BY <1>1, <1>3 DEF vars, Tokens, Held, Given, Surplus, Over, Handoff, Reading,
       Waiting, Farewell, Unread
  <2> QED
    BY <2>3, <2>4 DEF Inv
<1> QED
  BY <1>2, <1>3

(* In every state there is one token, and what it stands for. *)
LEMMA InvAlways == Spec => []Inv
  BY InvInit, InvNext, PTL DEF Spec

------------------------------------------------------------------------------
(* Every variable keeps its range: no semaphore of shared_memory_buffer counts
   further than two, or three once a client was killed after its last post, which
   the model lets happen once.                                               *)
THEOREM TypeCorrect == Spec => []TypeOK
  BY InvAlways, PTL DEF Inv

(* frame_ready never copies into the frame the client's thread is reading. *)
THEOREM NeverOverwritten == Spec => []NoOverwrite
<1>1. Inv => NoOverwrite
  BY DEF Inv, TypeOK, Tokens, Held, Given, Surplus, Over, NoOverwrite
<1> QED
  BY <1>1, InvAlways, PTL

(* The client reads a frame together with the palette it was drawn with. *)
THEOREM PaletteBelongs == Spec => []PaletteOfFrame
<1>1. Inv => PaletteOfFrame
  BY DEF Inv, Handoff, Reading, PaletteOfFrame
<1> QED
  BY <1>1, InvAlways, PTL

(* frame_rendered returns only when the client has read the frame. *)
THEOREM ReadFirst == Spec => []ReadBeforeReturn
<1>1. Inv => ReadBeforeReturn
  BY DEF Inv, Handoff, Waiting, Over, ReadBeforeReturn
<1> QED
  BY <1>1, InvAlways, PTL

(* The client's loop reads every frame once and in order, whichever client. *)
THEOREM InOrder == Spec => FramesInOrder
<1>1. Inv /\ [Next]_vars =>
        [consumer = "copy" /\ consumer' = "palette" /\ ~orphan
           => got'.frame = NextFrame(got.frame)]_vars
  <2> SUFFICES ASSUME Inv, Next, consumer = "copy", consumer' = "palette", ~orphan
               PROVE  got'.frame = NextFrame(got.frame)
    OBVIOUS
  <2>1. ConsumerCopy
    BY Zenon DEF Next, Game, Consumer, SetPalettes, SetWindowX, SetWindowY,
       PaletteChanged, FrameReady, FramePosted, FrameRendered, FrameTimeout,
       Endoom, Disconnected, DisconnectedPost, Leave, Sigint, GameKilled,
       ConsumerLoop, ConsumerTake, ConsumerTimeout, ConsumerRefuses,
       ConsumerAccepts, ConsumerPalette, ConsumerPost, ConsumerWindowX,
       ConsumerWindowY, ConsumerPush, ConsumerDestroyed, ShmRemoved,
       ClientStart, Join, ClientKilled, LoopEnds, OnTimeout, Exit
  <2>2. Unread
    BY DEF Inv, Handoff, Reading
  <2>3. got \in [frame : Numbers, pal : Indices, window : OFFSETS \X OFFSETS,
                due : OFFSETS \X OFFSETS]
    BY Zenon DEF Inv, TypeOK
  <2> QED
    BY <2>1, <2>2, <2>3 DEF ConsumerCopy, Unread
<1> QED
  BY <1>1, InvAlways, PTL DEF Spec, FramesInOrder

(* producer_t::disconnected returns on the post of ~consumer_thread_t alone. *)
THEOREM HeardAtLast == Spec => FarewellHeard
<1>1. Inv /\ [Next]_vars =>
        [game = "leave" /\ nempty' < nempty /\ ~orphan
           => consumer \in {"released", "gone"}]_vars
  <2> SUFFICES ASSUME Inv, Inv', game = "leave", nempty' < nempty, ~orphan
               PROVE  consumer \in {"released", "gone"}
    BY InvNext
  <2>1. nempty \in Nat /\ nempty' \in Nat
    BY DEF Inv, TypeOK
  <2> QED
    BY <2>1 DEF Inv, Handoff, Farewell, Over
<1> QED
  BY <1>1, InvAlways, PTL DEF Spec, FarewellHeard

------------------------------------------------------------------------------
(* The refinement of Rendezvous *)

(* What was posted last is the frame before the one being drawn, or it. *)
Offering ==
  /\ game \in {"play", "windowy", "wait"} => sent.frame = frame
  /\ game = "copy" => frame = NextFrame(sent.frame)

(* The game is never more than one frame ahead of the last one read, except in
   a wait that will time out, with no client left and no token.              *)
Ahead == (nempty > 0 \/ ~Over) /\ game = "wait" =>
           frame \in {got.frame, NextFrame(got.frame)}

(* The last post of a client that is over lets the game return once more. *)
Parting == Over /\ nempty > 0 =>
  /\ game \in {"play", "windowy"} => got.frame = frame
  /\ game = "copy" => frame = NextFrame(got.frame)
  /\ game = "wait" /\ nempty > 1 => got.frame = frame

Return == Offering /\ (~orphan => Ahead /\ Parting)

(* There is nothing to return from at the start. *)
LEMMA ReturnInit == Init => Return
  BY FrameSyncAssumption DEF Init, Return, Offering, Ahead, Parting, Over, NoFrame

(* The game draws one frame at a time and offers each before it waits ... *)
LEMMA ReturnGame ==
  ASSUME Inv, Return, Game \/ Sigint \/ GameKilled
  PROVE  Return'
<1> USE DEF Return, Offering, Ahead, Parting, Inv, TypeOK, Handoff, Reading,
       Waiting, Farewell, Unread, GameLeft, NextFrame, Tokens, Held, Given,
       Surplus, Over
<1>1. CASE SetPalettes
  BY <1>1 DEF SetPalettes
<1>2. CASE SetWindowX
  BY <1>2 DEF SetWindowX
<1>3. CASE SetWindowY
  BY <1>3 DEF SetWindowY
<1>4. CASE PaletteChanged
  BY <1>4 DEF PaletteChanged
<1>5. CASE FrameReady
  BY <1>5 DEF FrameReady
<1>6. CASE FramePosted
  BY <1>6 DEF FramePosted
<1>7. CASE FrameRendered
  BY <1>7 DEF FrameRendered, AfterFrame
<1>8. CASE FrameTimeout
  BY <1>8 DEF FrameTimeout, OnTimeout, Exit
<1>9. CASE Endoom
  BY <1>9 DEF Endoom
<1>10. CASE Disconnected
  BY <1>10 DEF Disconnected
<1>11. CASE DisconnectedPost
  BY <1>11 DEF DisconnectedPost
<1>12. CASE Leave
  BY <1>12 DEF Leave, Exit
<1>13. CASE Sigint
  BY <1>13 DEF Sigint
<1>14. CASE GameKilled
  BY <1>14 DEF GameKilled
<1> QED
  BY <1>1, <1>2, <1>3, <1>4, <1>5, <1>6, <1>7, <1>8, <1>9, <1>10, <1>11,
     <1>12, <1>13, <1>14 DEF Game

(* ... and the client that reads it catches up. *)
LEMMA ReturnConsumer ==
  ASSUME Inv, Return, Consumer
  PROVE  Return'
<1> USE DEF Return, Offering, Ahead, Parting, Inv, TypeOK, Handoff, Reading,
       Waiting, Farewell, Unread, GameLeft, NextFrame, Tokens, Held, Given,
       Surplus, Over
<1>1. CASE ConsumerLoop
  BY <1>1 DEF ConsumerLoop, LoopEnds, UnsetRun
<1>2. CASE ConsumerTake
  BY <1>2 DEF ConsumerTake
<1>3. CASE ConsumerTimeout
  BY <1>3 DEF ConsumerTimeout, LoopEnds, UnsetRun
<1>4. CASE ConsumerRefuses
  BY <1>4 DEF ConsumerRefuses, LoopEnds, UnsetRun
<1>5. CASE ConsumerAccepts
  BY <1>5 DEF ConsumerAccepts
<1>6. CASE ConsumerCopy
  BY <1>6 DEF ConsumerCopy
<1>7. CASE ConsumerPalette
  BY <1>7 DEF ConsumerPalette
<1>8. CASE ConsumerPost
  BY <1>8 DEF ConsumerPost
<1>9. CASE ConsumerWindowX
  BY <1>9 DEF ConsumerWindowX
<1>10. CASE ConsumerWindowY
  BY <1>10 DEF ConsumerWindowY
<1>11. CASE ConsumerPush
  BY <1>11 DEF ConsumerPush, LoopEnds, UnsetRun
<1>12. CASE ConsumerDestroyed
  BY <1>12 DEF ConsumerDestroyed, ReleaseGame
<1>13. CASE ShmRemoved
  BY <1>13 DEF ShmRemoved
<1> QED
  BY <1>1, <1>2, <1>3, <1>4, <1>5, <1>6, <1>7, <1>8, <1>9, <1>10, <1>11,
     <1>12, <1>13 DEF Consumer

(* Clients that come and go read nothing. *)
LEMMA ReturnClients ==
  ASSUME Inv, Return, ClientStart \/ Join \/ ClientKilled
  PROVE  Return'
<1> USE DEF Return, Offering, Ahead, Parting, Inv, TypeOK, Handoff, Reading,
       Waiting, Farewell, Unread, GameLeft, NextFrame, Tokens, Held, Given,
       Surplus, Over
<1>1. CASE ClientStart
  BY <1>1 DEF ClientStart
<1>2. CASE Join
  BY <1>2 DEF Join
<1>3. CASE ClientKilled
  BY <1>3 DEF ClientKilled
<1> QED
  BY <1>1, <1>2, <1>3

(* The same, together with Inv, always. *)
LEMMA ReturnAlways == Spec => [](Inv /\ Return)
<1>1. Inv /\ Return /\ [Next]_vars => Return'
  <2> SUFFICES ASSUME Inv, Return, [Next]_vars PROVE Return'
    OBVIOUS
  <2>1. CASE Next
    BY <2>1, ReturnGame, ReturnConsumer, ReturnClients DEF Next
  <2>2. CASE UNCHANGED vars
    BY <2>2 DEF vars, Return, Offering, Ahead, Parting, Over
  <2> QED
    BY <2>1, <2>2
<1> QED
  BY <1>1, InvInit, InvNext, ReturnInit, PTL DEF Spec

(* A step of the game is one of the rendezvous or unseen in it. *)
LEMMA MeetingGame ==
  ASSUME Inv, Return, ~orphan, Game \/ Sigint \/ GameKilled
  PROVE  Meeting!Next \/ UNCHANGED Meeting!vars
<1> USE DEF Inv, TypeOK, Return, Offering, Ahead, Parting, Tokens, Held, Given,
       Surplus, Over, Phase, Presence, View, GameLeft, NextFrame,
       Meeting!NextFrame, Meeting!Deserted
<1>1. CASE SetPalettes
  BY <1>1 DEF SetPalettes, Meeting!vars
<1>2. CASE SetWindowX
  BY <1>2 DEF SetWindowX, Meeting!vars
<1>3. CASE SetWindowY
  BY <1>3 DEF SetWindowY, Meeting!vars
<1>4. ASSUME PaletteChanged PROVE Meeting!End \/ UNCHANGED Meeting!vars
  BY <1>4 DEF PaletteChanged, Meeting!End, Meeting!vars
<1>5. ASSUME FrameReady PROVE Meeting!Draw
  BY <1>5 DEF FrameReady, Meeting!Draw
<1>6. ASSUME FramePosted PROVE Meeting!Offer
  BY <1>6 DEF FramePosted, Meeting!Offer
<1>7. ASSUME FrameRendered PROVE Meeting!Return
  BY <1>7 DEF FrameRendered, AfterFrame, Handoff, Waiting, Meeting!Return
<1>8. ASSUME FrameTimeout PROVE Meeting!End
  BY <1>8 DEF FrameTimeout, OnTimeout, Exit, Meeting!End
<1>9. ASSUME Endoom PROVE Meeting!End
  BY <1>9 DEF Endoom, Meeting!End
<1>10. ASSUME Disconnected PROVE Meeting!End
  BY <1>10 DEF Disconnected, Meeting!End
<1>11. ASSUME DisconnectedPost PROVE Meeting!End
  BY <1>11 DEF DisconnectedPost, Meeting!End
<1>12. ASSUME Leave PROVE Meeting!End
  BY <1>12 DEF Leave, Exit, Meeting!End
<1>13. CASE Sigint
  BY <1>13 DEF Sigint, Meeting!vars
<1>14. ASSUME GameKilled PROVE Meeting!End
  BY <1>14 DEF GameKilled, Meeting!End
<1> QED
  BY <1>1, <1>2, <1>3, <1>4, <1>5, <1>6, <1>7, <1>8, <1>9, <1>10, <1>11,
     <1>12, <1>13, <1>14 DEF Game, Meeting!Next

(* A step of the client's thread is one of the rendezvous or unseen in it: the
   copy of the pixels takes the frame, the palette index read later is the one
   it was offered with.                                                      *)
LEMMA MeetingConsumer ==
  ASSUME Inv, Return, ~orphan, Consumer
  PROVE  Meeting!Next \/ UNCHANGED Meeting!vars
<1> USE DEF Inv, TypeOK, Handoff, Reading, Unread, Tokens, Held, Given, Surplus,
       Over, Phase, Presence, View, GameLeft, NextFrame, Meeting!NextFrame
<1>1. CASE ConsumerLoop
  BY <1>1 DEF ConsumerLoop, LoopEnds, UnsetRun, Meeting!vars
<1>2. CASE ConsumerTake
  BY <1>2 DEF ConsumerTake, Meeting!vars
<1>3. CASE ConsumerTimeout
  BY <1>3 DEF ConsumerTimeout, LoopEnds, UnsetRun, Meeting!vars
<1>4. CASE ConsumerRefuses
  BY <1>4 DEF ConsumerRefuses, LoopEnds, UnsetRun, Meeting!vars
<1>5. CASE ConsumerAccepts
  BY <1>5 DEF ConsumerAccepts, Meeting!vars
<1>6. ASSUME ConsumerCopy PROVE Meeting!Take
  BY <1>6 DEF ConsumerCopy, Meeting!Take
<1>7. CASE ConsumerPalette
  BY <1>7 DEF ConsumerPalette, Meeting!vars
<1>8. CASE ConsumerPost
  BY <1>8 DEF ConsumerPost, Meeting!vars
<1>9. CASE ConsumerWindowX
  BY <1>9 DEF ConsumerWindowX, Meeting!vars
<1>10. CASE ConsumerWindowY
  BY <1>10 DEF ConsumerWindowY, Meeting!vars
<1>11. ASSUME ConsumerPush PROVE Meeting!Drop
  BY <1>11 DEF ConsumerPush, LoopEnds, UnsetRun, Meeting!Drop
<1>12. ASSUME ConsumerDestroyed PROVE Meeting!SayOver
  BY <1>12 DEF ConsumerDestroyed, ReleaseGame, Meeting!SayOver
<1>13. ASSUME ShmRemoved PROVE Meeting!Close
  BY <1>13 DEF ShmRemoved, Meeting!Close
<1> QED
  BY <1>1, <1>2, <1>3, <1>4, <1>5, <1>6, <1>7, <1>8, <1>9, <1>10, <1>11,
     <1>12, <1>13 DEF Consumer, Meeting!Next

(* So is a client that comes or goes. *)
LEMMA MeetingClients ==
  ASSUME Inv, Return, ~orphan, ClientStart \/ Join \/ ClientKilled
  PROVE  Meeting!Next \/ UNCHANGED Meeting!vars
<1> USE DEF Inv, TypeOK, Return, Offering, Ahead, Parting, Tokens, Held, Given,
       Surplus, Over, Phase, Presence, View, GameLeft, NextFrame,
       Meeting!NextFrame, Meeting!Deserted
<1>1. ASSUME ClientStart PROVE Meeting!Come
  BY <1>1 DEF ClientStart, Meeting!Come
<1>2. CASE Join
  BY <1>2 DEF Join, Meeting!vars
<1>3. ASSUME ClientKilled PROVE Meeting!Die
  BY <1>3 DEF ClientKilled, Meeting!Die
<1> QED
  BY <1>1, <1>2, <1>3 DEF Meeting!Next

(* The code has no remedy for a token too many. *)
LEMMA OrphanStays == orphan /\ [Next]_vars => orphan'
  BY Zenon DEF vars, Next, Game, Consumer, SetPalettes, SetWindowX, SetWindowY,
     PaletteChanged, FrameReady, FramePosted, FrameRendered, FrameTimeout,
     Endoom, Disconnected, DisconnectedPost, Leave, Sigint, GameKilled,
     ConsumerLoop, ConsumerTake, ConsumerTimeout, ConsumerRefuses,
     ConsumerAccepts, ConsumerCopy, ConsumerPalette, ConsumerPost,
     ConsumerWindowX, ConsumerWindowY, ConsumerPush, ConsumerDestroyed,
     ShmRemoved, ClientStart, Join, ClientKilled, LoopEnds, OnTimeout, Exit

(* Every step is one of the rendezvous or unseen in it; once a token is too many
   nothing is promised.                                                      *)
LEMMA MeetingNext ==
  Inv /\ Return /\ [Next]_vars => [Meeting!Next]_(Meeting!vars)
<1> SUFFICES ASSUME Inv, Return, [Next]_vars
             PROVE  Meeting!Next \/ UNCHANGED Meeting!vars
  OBVIOUS
<1>1. CASE orphan
  BY <1>1, OrphanStays DEF Meeting!Next, Meeting!Anything
<1>2. CASE ~orphan /\ Next
  BY <1>2, MeetingGame, MeetingConsumer, MeetingClients DEF Next
<1>3. CASE UNCHANGED vars
  BY <1>3 DEF vars, Meeting!vars, Phase, Presence, View
<1> QED
  BY <1>1, <1>2, <1>3

(* Game and client keep the promise of Rendezvous: whatever the order of their
   steps, timeouts and kills, a frame and its palette are taken as one, each
   frame once and in order, and the game draws the next only when the last was
   taken or nobody is left to take it.                                       *)
THEOREM RendezvousKept == Spec => ImplementsRendezvous
<1>1. Init => Meeting!Init
  BY FrameSyncAssumption DEF Init, NoFrame, Meeting!Init, Phase, Presence, View
<1> QED
  BY <1>1, ReturnAlways, MeetingNext, PTL
  DEF Spec, ImplementsRendezvous, Meeting!Safety
==============================================================================
