------------------------------ MODULE ShmProofs ------------------------------
(* Whose memory the name stands for, for any number of games and clients. *)
EXTENDS Shm, TLAPS

(* The name is the last game's or nobody's: whoever starts a game removes what
   an older one has left before it creates its own.                          *)
Owner ==
  /\ name \in {None, started}
  /\ game = "creating" => name = None
  /\ name # None /\ game # "waiting" => killed
  /\ mapped \in [CLIENTS -> Int]
  /\ started \in Nat

(* No game has been started, no name exists. *)
LEMMA OwnerInit == Init => Owner
  BY DEF Init, Owner, None

(* The game's steps keep it ... *)
LEMMA OwnerGame ==
  ASSUME Owner, GameStarts \/ GameCreates \/ GameExits \/ GameKilled
  PROVE  Owner'
<1>1. CASE GameStarts
  BY <1>1 DEF Owner, GameStarts, GameStart, Remove, history
<1>2. CASE GameCreates
  BY <1>2 DEF Owner, GameCreates, history
<1>3. CASE GameExits
  BY <1>3 DEF Owner, GameExits, GameExit, Remove, history
<1>4. CASE GameKilled
  BY <1>4 DEF Owner, GameKilled, AtRest
<1> QED
  BY <1>1, <1>2, <1>3, <1>4

(* ... and so does every client, which can only remove a name. *)
LEMMA OwnerClient ==
  ASSUME Owner, NEW c \in CLIENTS,
         \/ ClientStarts(c) \/ ClientOpens(c) \/ ClientEnds(c)
         \/ ClientRemoves(c) \/ ClientKilled(c)
  PROVE  Owner'
<1>1. CASE ClientStarts(c)
  BY <1>1 DEF Owner, ClientStarts, history
<1>2. CASE ClientOpens(c)
  BY <1>2 DEF Owner, ClientOpens, None
<1>3. CASE ClientEnds(c)
  BY <1>3 DEF Owner, ClientEnds, history
<1>4. CASE ClientRemoves(c)
  BY <1>4 DEF Owner, ClientRemoves, Unmap, Remove, None, history
<1>5. CASE ClientKilled(c)
  BY <1>5 DEF Owner, ClientKilled, Unmap, None
<1> QED
  BY <1>1, <1>2, <1>3, <1>4, <1>5

(* In every state the name has that owner. *)
LEMMA OwnerAlways == Spec => []Owner
<1>1. Owner /\ [Next]_vars => Owner'
  <2> SUFFICES ASSUME Owner, [Next]_vars PROVE Owner'
    OBVIOUS
  <2>1. CASE UNCHANGED vars
    BY <2>1 DEF Owner, vars, history
  <2> QED
    BY <2>1, OwnerGame, OwnerClient DEF Next
<1> QED
  BY <1>1, OwnerInit, PTL DEF Spec

(* When all have ended by themselves no name is left (producer_t's destructor). *)
THEOREM NothingIsLeft == Spec => []NothingLeft
<1>1. Owner => NothingLeft
  BY DEF Owner, NothingLeft, AtRest
<1> QED
  BY <1>1, OwnerAlways, PTL

(* A client that finds memory finds the last game's (producer_t's constructor). *)
THEOREM FindsLatest == Spec => OpensLatest
<1> DEFINE Latest == \A c \in CLIENTS :
             mapped'[c] # mapped[c] /\ mapped'[c] # None => mapped'[c] = started
<1>1. Owner /\ [Next]_vars => [Latest]_vars
  <2> SUFFICES ASSUME Owner, Next, NEW c \in CLIENTS,
                      mapped'[c] # mapped[c], mapped'[c] # None
               PROVE  mapped'[c] = started
    OBVIOUS
  <2>1. mapped' # mapped
    OBVIOUS
  <2>2. PICK d \in CLIENTS : ClientOpens(d) \/ ClientRemoves(d) \/ ClientKilled(d)
    BY <2>1 DEF Next, GameStarts, GameCreates, GameExits, GameKilled,
       ClientStarts, ClientEnds
  <2>3. CASE ClientOpens(d)
    BY <2>3 DEF Owner, ClientOpens
  <2>4. CASE ClientRemoves(d) \/ ClientKilled(d)
    BY <2>4 DEF Owner, ClientRemoves, ClientKilled, Unmap
  <2> QED
    BY <2>2, <2>3, <2>4
<1> QED
  BY <1>1, OwnerAlways, PTL DEF Spec, OpensLatest
==============================================================================
