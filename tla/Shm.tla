--------------------------------- MODULE Shm ---------------------------------
(***************************************************************************)
(* The name of the shared memory over the lives of several games and       *)
(* clients: producer_t's constructor and destructor (ipc_lib/producer.cpp) *)
(* and consumer_thread_t::start with its shm_remove                        *)
(* (client/consumer_thread.cpp).  Who removes a name removes whatever it   *)
(* stands for.  One game runs at a time; a client may still be ending when *)
(* the next game starts.  What they do with the memory is in FrameSync.    *)
(***************************************************************************)
EXTENDS Integers

CONSTANTS
  CLIENTS,              \* client processes
  IMPATIENT,            \* a client may be started before the game's message
  GAMES                 \* bound: games ever started

ASSUME ShmAssumption == GAMES \in Nat \ {0} /\ IMPATIENT \in BOOLEAN

VARIABLES
  name,                 \* the game whose memory memory_name stands for
  started, game,        \* games started, and where the last of them is
  at, mapped,           \* where each client is, and the memory it has mapped
  served,               \* history: the last game that a client has found
  killed                \* history: a process has been killed

history == <<served, killed>>
vars    == <<name, started, game, at, mapped, history>>

None == 0
AtRest == {"none", "gone"}

(* shared_memory_object::remove *)
Remove == name' = None

(* A process gives up the memory it has mapped when it ends. *)
Unmap(c) == mapped' = [mapped EXCEPT ![c] = None]

GameStart_keeps == UNCHANGED name
GameStart == Remove

GameStarts ==           \* producer_t::producer_t, up to create_only
  /\ game \in AtRest
  /\ started < GAMES
  /\ started' = started + 1
  /\ game' = "creating"
  /\ GameStart
  /\ UNCHANGED <<at, mapped, history>>

GameCreates ==          \* create_only throws if somebody was quicker
  /\ game = "creating"
  /\ \/ name = None /\ name' = started /\ game' = "waiting"
     \/ name # None /\ UNCHANGED name /\ game' = "gone"
  /\ UNCHANGED <<started, at, mapped, history>>

GameExit_keeps == UNCHANGED name
GameExit == Remove

GameExits ==            \* producer_t::~producer_t
  /\ game = "waiting"
  /\ game' = "gone"
  /\ GameExit
  /\ UNCHANGED <<started, at, mapped, history>>

GameKilled ==
  /\ game \notin AtRest
  /\ game' = "gone"
  /\ killed' = TRUE
  /\ UNCHANGED <<name, started, at, mapped, served>>

ClientStarts(c) ==      \* shm_remove_ is made before the memory is opened
  /\ at[c] \in AtRest
  /\ IMPATIENT \/ game = "waiting"
  /\ at' = [at EXCEPT ![c] = "opening"]
  /\ UNCHANGED <<name, started, game, mapped, history>>

ClientOpens(c) ==       \* open_only throws if there is nothing of that name
  /\ at[c] = "opening"
  /\ \/ /\ name # None
        /\ at' = [at EXCEPT ![c] = "running"]
        /\ mapped' = [mapped EXCEPT ![c] = name]
        /\ served' = name
     \/ /\ name = None
        /\ at' = [at EXCEPT ![c] = "ending"]
        /\ UNCHANGED <<mapped, served>>
  /\ UNCHANGED <<name, started, game, killed>>

ClientEnds(c) ==
  /\ at[c] = "running"
  /\ at' = [at EXCEPT ![c] = "ending"]
  /\ UNCHANGED <<name, started, game, mapped, history>>

ClientRemoves(c) ==     \* ~shm_remove
  /\ at[c] = "ending"
  /\ at' = [at EXCEPT ![c] = "gone"]
  /\ Unmap(c)
  /\ Remove
  /\ UNCHANGED <<started, game, history>>

ClientKilled(c) ==
  /\ at[c] \notin AtRest
  /\ at' = [at EXCEPT ![c] = "gone"]
  /\ Unmap(c)
  /\ killed' = TRUE
  /\ UNCHANGED <<name, started, game, served>>

Init ==
  /\ name = None
  /\ started = 0 /\ game = "none"
  /\ at = [c \in CLIENTS |-> "none"] /\ mapped = [c \in CLIENTS |-> None]
  /\ served = None /\ killed = FALSE

Next ==
  \/ GameStarts \/ GameCreates \/ GameExits \/ GameKilled
  \/ \E c \in CLIENTS : \/ ClientStarts(c) \/ ClientOpens(c) \/ ClientEnds(c)
                        \/ ClientRemoves(c) \/ ClientKilled(c)

Spec == Init /\ [][Next]_vars

------------------------------------------------------------------------------
(* Properties *)

(* A client that finds memory finds that of the last game started, never what a
   game that was killed has left behind, once another has been started.      *)
OpensLatest == [][\A c \in CLIENTS : mapped'[c] # mapped[c] /\ mapped'[c] # None
                    => mapped'[c] = started]_vars

(* When games and clients have ended, and none by force, no name is left. *)
NothingLeft ==
  ~killed /\ game \in AtRest /\ (\A c \in CLIENTS : at[c] \in AtRest)
    => name = None

(* producer.cpp:35, "waiting for client..": a client can come as long as none has.
   It cannot once a client of the game before, which ends only now, has removed
   the name of this one.                                                      *)
ClientCanCome == game = "waiting" /\ served # started => name = started
==============================================================================
