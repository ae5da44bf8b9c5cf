---------------------------- MODULE SessionProofs ----------------------------
(* Who can be connected to the watch, for any computers in reach: OneClient   *)
(* and Findable hold because advertising and a connection exclude each other. *)
(* And what the connected client's writes make of palette_: UploadLands and   *)
(* RightPalettes hold because what has landed and what is on its way are, at  *)
(* any moment and in this order, the palettes the client has written.         *)
EXTENDS Session, SequenceTheorems, FiniteSetTheorems, TLAPS

(* advertise is called only by on_sync and by the ends of advertising and of
   connections: then, and only then, is nothing on the air.                  *)
OnAir ==
  /\ ~failed
  /\ peers = {} \/ \E p \in PEERS : peers = {p}
  /\ advertising => peers = {}
  /\ synced /\ peers = {} => advertising
  /\ ~synced => ~advertising /\ peers = {}

(* The firmware starts before its host is in sync. *)
LEMMA OnAirInit == Init => OnAir
  BY DEF Init, GapInit, OnAir

(* Each GAP event keeps OnAir. *)
LEMMA OnAirConnect ==
  ASSUME OnAir, NEW p \in PEERS, Connect(p)
  PROVE  OnAir'
<1>1. peers' = {p}
  BY DEF OnAir, Connect
<1>2. ~failed' /\ ~advertising' /\ synced'
  BY DEF OnAir, Connect, AfterConnect
<1> QED
  BY <1>1, <1>2 DEF OnAir

LEMMA OnAirDisconnect ==
  ASSUME OnAir, NEW p \in PEERS, Disconnect(p)
  PROVE  OnAir'
<1>1. peers = {p} /\ ~advertising /\ synced
  BY DEF OnAir, Disconnect
<1>2. peers' = {} /\ advertising' /\ ~failed' /\ synced'
  BY <1>1 DEF OnAir, Disconnect, AfterDisconnect, Advertise
<1> QED
  BY <1>2 DEF OnAir

LEMMA OnAirOthers ==
  ASSUME OnAir, OnSync \/ ConnectFailed \/ AdvComplete \/ HostReset
  PROVE  OnAir'
<1>1. CASE OnSync
  <2>1. peers' = {} /\ synced' /\ advertising' /\ ~failed'
    BY <1>1, Zenon DEF OnAir, OnSync, Advertise
  <2> QED
    BY <2>1 DEF OnAir
<1>2. CASE ConnectFailed \/ AdvComplete
  <2>1. peers' = {} /\ synced' /\ advertising' /\ ~failed'
    BY <1>2, Zenon DEF OnAir, ConnectFailed, AdvComplete, Advertise
  <2> QED
    BY <2>1 DEF OnAir
<1>3. CASE HostReset
  BY <1>3 DEF OnAir, HostReset
<1> QED
  BY <1>1, <1>2, <1>3

(* What the clients and BlueZ do does not reach the callbacks. *)
LEMMA OnAirNext == OnAir /\ [Next]_vars => OnAir'
<1> SUFFICES ASSUME OnAir, [Next]_vars
             PROVE  OnAir'
  OBVIOUS
<1>1. ASSUME UNCHANGED gap PROVE OnAir'
  BY <1>1 DEF gap, OnAir
<1>2. ASSUME NEW p \in PEERS,
             \/ ClientStart(p) \/ Client(p) \/ ClientEnds(p)
             \/ TakePiece(p) \/ TakePacket(p) \/ CloseSockets(p) \/ LinkLost(p)
             \/ Deliver(p)
      PROVE  OnAir'
  BY <1>1, <1>2 DEF ClientStart, Client, ResetDone, UploadPiece, UploadDone,
     StreamPacket, ClientEnds, TakePiece, TakePacket, CloseSockets, LinkLost,
     Deliver
<1>3. ASSUME NEW p \in PEERS, PeerConnects(p) PROVE OnAir'
  BY <1>3, OnAirConnect DEF PeerConnects
<1>4. ASSUME NEW p \in PEERS, PeerDisconnects(p) PROVE OnAir'
  BY <1>4, OnAirDisconnect DEF PeerDisconnects
<1>5. CASE Advertising
  BY <1>5, OnAirOthers DEF Advertising
<1>6. CASE OnReset
  BY <1>6, OnAirOthers DEF OnReset
<1>7. CASE UNCHANGED vars
  BY <1>1, <1>7 DEF vars
<1> QED
  BY <1>2, <1>3, <1>4, <1>5, <1>6, <1>7 DEF Next

(* In every state OnAir holds. *)
LEMMA OnAirAlways == Spec => []OnAir
  BY OnAirInit, OnAirNext, PTL DEF Spec

(* One computer at a time, and no assert of advertise fails. *)
THEOREM OneAtATime == Spec => []OneClient
<1>1. OnAir => OneClient
  <2> SUFFICES ASSUME OnAir PROVE Cardinality(peers) <= 1
    BY DEF OnAir, OneClient
  <2>1. CASE peers = {}
    BY <2>1, FS_EmptySet
  <2>2. ASSUME NEW p \in PEERS, peers = {p} PROVE Cardinality(peers) <= 1
    BY <2>2, FS_Singleton
  <2> QED
    BY <2>1, <2>2 DEF OnAir
<1> QED
  BY <1>1, OnAirAlways, PTL

(* The watch can be found whenever nobody is connected to it. *)
THEOREM AlwaysFindable == Spec => []Findable
<1>1. OnAir => Findable
  BY DEF OnAir, Findable
<1> QED
  BY <1>1, OnAirAlways, PTL

------------------------------------------------------------------------------
(* What is ever written to BlueZ, and what it sends. *)
Pieces == {write \in [what : {"piece"}, session : Ids,
                      first : 0 .. PAL_SIZE - 1, size : 1 .. PAL_SIZE] :
             write.first + write.size <= PAL_SIZE}
Packets == [what : {"packet"}, session : Ids, overtook : BOOLEAN,
            size : 0 .. PAL_SIZE]
Writes == Pieces \union Packets \union {ResetRequest}

(* The first n writes of f are pieces and packets; the pieces are those of
   session s, in order, and hold the units from d to `to', each once.        *)
Sent(f, n) == \A i \in 1 .. n : f[i] \in Writes /\ f[i] # ResetRequest
Between(f, n, s, d, to) ==
  \A i \in 1 .. n : f[i] \in Pieces =>
    /\ f[i].session = s
    /\ d <= f[i].first /\ f[i].first + f[i].size <= to
Ordered(f, n) ==
  \A i, j \in 1 .. n :
    i < j /\ f[i] \in Pieces /\ f[j] \in Pieces
      => f[i].first + f[i].size <= f[j].first
Covered(f, n, d, to) ==
  \A u \in d .. to - 1 : \E i \in 1 .. n :
    f[i] \in Pieces /\ f[i].first <= u /\ u < f[i].first + f[i].size
Coming(f, n, s, d, to) ==
  Sent(f, n) /\ Between(f, n, s, d, to) /\ Ordered(f, n) /\ Covered(f, n, d, to)

(* The first d units of session s have arrived, the cursor is behind them. *)
Landed(pal, cur, s, d) ==
  /\ cur = d % PAL_SIZE
  /\ \A u \in 0 .. d - 1 : pal[u] = [session |-> s, unit |-> u]

(* Part of the upload of s has landed, and the first n writes of f bring the
   rest, up to unit `to'. *)
Lands(pal, cur, f, n, s, to) ==
  \E d \in 0 .. to : Landed(pal, cur, s, d) /\ Coming(f, n, s, d, to)

(* TypeOK, and what the sockets and queues hold. *)
Typed ==
  /\ TypeOK
  /\ pal_sock \in [PEERS -> Seq(Pieces)]
  /\ queue \in [PEERS -> Seq(Writes)]

(* What the place of a client says of its sockets and its queue. *)
Places(p) ==
  /\ ~link[p] => /\ client[p].at = "gone" /\ queue[p] = <<>>
                 /\ pal_sock[p] = <<>> /\ frame_sock[p] = 0
  /\ client[p].at = "reset" =>
       /\ pal_sock[p] = <<>> /\ frame_sock[p] = 0
       /\ client[p].left = client[p].size
       /\ queue[p] # <<>> => queue[p][Len(queue[p])] = ResetRequest
  /\ client[p].at = "stream" => client[p].left = 0
  /\ client[p].left <= client[p].size
  /\ frame_sock[p] = 1 => client[p].at \in {"stream", "gone"}

(* A reset that has been answered has put the cursor at 0. *)
Rewound(p) == client[p].at = "reset" /\ queue[p] = <<>> => pal_progress = 0

(* What the client has written of its upload lands, the queue first and then
   the socket. *)
Uploads(p) ==
  client[p].at \in {"upload", "stream"} =>
    Lands(palette, pal_progress,
          queue[p] \o pal_sock[p], Len(queue[p]) + Len(pal_sock[p]),
          client[p].session, client[p].size - client[p].left)

(* All of the upload of a packet's client lands before the packet does. *)
Shown(p) ==
  \A i \in 1 .. Len(queue[p]) :
    queue[p][i] \in Packets /\ ~queue[p][i].overtook =>
      Lands(palette, pal_progress, queue[p], i - 1,
            queue[p][i].session, queue[p][i].size)

InPlace(p) ==
  Places(p) /\ (Connected(p) => Rewound(p) /\ Uploads(p) /\ Shown(p))

(* The invariant: nothing but the connected computer's writes reaches the watch,
   so what is said of the cursor is said only of that computer. *)
Inv == OnAir /\ Typed /\ \A p \in PEERS : InPlace(p)

------------------------------------------------------------------------------
(* What a write is tells what can be said of it. *)
LEMMA Kinds ==
  /\ \A x \in Pieces :
       /\ x.what = "piece" /\ x # ResetRequest /\ x \notin Packets
       /\ x.session \in Ids /\ x.first \in Nat /\ x.size \in Nat \ {0}
       /\ x.first + x.size <= PAL_SIZE
  /\ \A x \in Packets :
       /\ x.what = "packet" /\ x # ResetRequest /\ x \notin Pieces
       /\ x.session \in Ids /\ x.size \in 0 .. PAL_SIZE
  /\ ResetRequest.what = "reset"
<1>1. PAL_SIZE \in Nat \ {0}
  BY SessionAssumption
<1>2. \A x \in Pieces :
        /\ x.what = "piece"
        /\ x.session \in Ids /\ x.first \in Nat /\ x.size \in Nat \ {0}
        /\ x.first + x.size <= PAL_SIZE
  BY <1>1 DEF Pieces
<1>3. \A x \in Packets : /\ x.what = "packet"
                         /\ x.session \in Ids /\ x.size \in 0 .. PAL_SIZE
  BY DEF Packets
<1>4. ResetRequest.what = "reset"
  BY DEF ResetRequest
<1> QED
  BY <1>2, <1>3, <1>4

(* The first n writes say all. *)
LEMMA ComingSame ==
  ASSUME NEW f, NEW g, NEW n \in Nat, NEW s, NEW d \in Nat, NEW to \in Nat,
         Coming(f, n, s, d, to), \A i \in 1 .. n : g[i] = f[i]
  PROVE  Coming(g, n, s, d, to)
  BY DEF Coming, Sent, Between, Ordered, Covered

(* The first piece coming begins where the last one that landed ended. *)
LEMMA ComingHead ==
  ASSUME NEW f, NEW n \in Nat \ {0}, NEW s, NEW d \in Nat, NEW to \in Nat,
         Coming(f, n, s, d, to), f[1] \in Pieces
  PROVE  f[1].session = s /\ f[1].first = d /\ d + f[1].size <= to
<1>1. /\ f[1].session = s /\ d <= f[1].first /\ f[1].first + f[1].size <= to
      /\ f[1].first \in Nat /\ f[1].size \in Nat \ {0}
  BY Kinds DEF Coming, Sent, Between, Ordered, Covered
<1>2. f[1].first = d
  <2>1. d \in d .. to - 1
    BY <1>1
  <2>2. PICK i \in 1 .. n : /\ f[i] \in Pieces
                            /\ f[i].first <= d /\ d < f[i].first + f[i].size
    BY <2>1 DEF Coming, Sent, Between, Ordered, Covered
  <2>3. i # 1 => f[1].first + f[1].size <= f[i].first
    BY <2>2 DEF Coming, Sent, Between, Ordered, Covered
  <2>4. f[i].first \in Nat
    BY <2>2, Kinds
  <2> QED
    BY <1>1, <2>2, <2>3, <2>4
<1> QED
  BY <1>1, <1>2

(* Without the first of them the rest is coming. *)
LEMMA ComingTail ==
  ASSUME NEW f, NEW g, NEW n \in Nat \ {0},
         NEW s, NEW d \in Nat, NEW to \in Nat,
         Coming(f, n, s, d, to), \A i \in 1 .. n - 1 : g[i] = f[i + 1]
  PROVE  /\ f[1] \in Packets => Coming(g, n - 1, s, d, to)
         /\ f[1] \in Pieces => Coming(g, n - 1, s, d + f[1].size, to)
<1>1. \A i \in 1 .. n - 1 : g[i] \in Writes /\ g[i] # ResetRequest
  BY DEF Coming, Sent, Between, Ordered, Covered
<1>2. \A i, j \in 1 .. n - 1 :
        i < j /\ g[i] \in Pieces /\ g[j] \in Pieces
          => g[i].first + g[i].size <= g[j].first
  BY DEF Coming, Sent, Between, Ordered, Covered
<1>3. ASSUME f[1] \in Packets PROVE Coming(g, n - 1, s, d, to)
  <2>1. f[1] \notin Pieces
    BY <1>3, Kinds
  <2>2. \A i \in 1 .. n - 1 : g[i] \in Pieces =>
          /\ g[i].session = s
          /\ d <= g[i].first /\ g[i].first + g[i].size <= to
    BY DEF Coming, Sent, Between, Ordered, Covered
  <2>3. ASSUME NEW u \in d .. to - 1
        PROVE  \E i \in 1 .. n - 1 :
                 /\ g[i] \in Pieces
                 /\ g[i].first <= u /\ u < g[i].first + g[i].size
    <3>1. PICK i \in 1 .. n : /\ f[i] \in Pieces
                              /\ f[i].first <= u /\ u < f[i].first + f[i].size
      BY DEF Coming, Sent, Between, Ordered, Covered
    <3>2. i - 1 \in 1 .. n - 1 /\ g[i - 1] = f[i]
      BY <2>1, <3>1
    <3> QED
      BY <3>1, <3>2
  <2> QED
    BY <1>1, <1>2, <2>2, <2>3 DEF Coming, Sent, Between, Ordered, Covered
<1>4. ASSUME f[1] \in Pieces
      PROVE  Coming(g, n - 1, s, d + f[1].size, to)
  <2>1. /\ f[1].session = s /\ f[1].first = d /\ d + f[1].size <= to
        /\ f[1].size \in Nat \ {0}
    BY <1>4, Kinds, ComingHead
  <2>2. ASSUME NEW i \in 1 .. n - 1, g[i] \in Pieces
        PROVE  /\ g[i].session = s
               /\ d + f[1].size <= g[i].first /\ g[i].first + g[i].size <= to
    <3>1. i + 1 \in 1 .. n /\ g[i] = f[i + 1]
      OBVIOUS
    <3>2. f[1].first + f[1].size <= f[i + 1].first
      BY <1>4, <2>2, <3>1 DEF Coming, Sent, Between, Ordered, Covered
    <3> QED
      BY <2>1, <2>2, <3>1, <3>2 DEF Coming, Sent, Between, Ordered, Covered
  <2>3. ASSUME NEW u \in d + f[1].size .. to - 1
        PROVE  \E i \in 1 .. n - 1 :
                 /\ g[i] \in Pieces
                 /\ g[i].first <= u /\ u < g[i].first + g[i].size
    <3>0. u \in d .. to - 1
      BY <2>1
    <3>1. PICK i \in 1 .. n : /\ f[i] \in Pieces
                              /\ f[i].first <= u /\ u < f[i].first + f[i].size
      BY <3>0 DEF Coming, Sent, Between, Ordered, Covered
    <3>2. i # 1
      BY <2>1, <3>1
    <3>3. i - 1 \in 1 .. n - 1 /\ g[i - 1] = f[i]
      BY <3>2
    <3> QED
      BY <3>1, <3>3
  <2> QED
    BY <1>1, <1>2, <2>1, <2>2, <2>3 DEF Coming, Sent, Between, Ordered, Covered
<1> QED
  BY <1>3, <1>4

(* A piece written after them, with the units that follow. *)
LEMMA ComingAdd ==
  ASSUME NEW f, NEW g, NEW n \in Nat, NEW s, NEW d \in Nat, NEW to \in Nat,
         d <= to,
         Coming(f, n, s, d, to), \A i \in 1 .. n : g[i] = f[i],
         g[n + 1] \in Pieces, g[n + 1].session = s, g[n + 1].first = to
  PROVE  Coming(g, n + 1, s, d, to + g[n + 1].size)
<1> DEFINE size == g[n + 1].size
<1>1. size \in Nat \ {0} /\ g[n + 1] # ResetRequest /\ g[n + 1] \in Writes
  BY Kinds DEF Writes
<1>2. \A i \in 1 .. n + 1 : i \in 1 .. n \/ i = n + 1
  OBVIOUS
<1> HIDE DEF size
<1>3. \A i \in 1 .. n + 1 : g[i] \in Writes /\ g[i] # ResetRequest
  BY <1>1, <1>2 DEF Coming, Sent, Between, Ordered, Covered
<1>4. ASSUME NEW i \in 1 .. n + 1, g[i] \in Pieces
      PROVE  /\ g[i].session = s
             /\ d <= g[i].first /\ g[i].first + g[i].size <= to + size
  <2>1. CASE i \in 1 .. n
    <3>1. /\ g[i].session = s
          /\ d <= g[i].first /\ g[i].first + g[i].size <= to
          /\ g[i].first \in Nat /\ g[i].size \in Nat
      BY <1>4, <2>1, Kinds DEF Coming, Sent, Between, Ordered, Covered
    <3> QED
      BY <1>1, <3>1
  <2>2. CASE i = n + 1
    BY <1>1, <2>2 DEF size
  <2> QED
    BY <1>2, <2>1, <2>2
<1>5. ASSUME NEW i \in 1 .. n + 1, NEW j \in 1 .. n + 1,
             i < j, g[i] \in Pieces, g[j] \in Pieces
      PROVE  g[i].first + g[i].size <= g[j].first
  <2>1. i \in 1 .. n
    BY <1>5
  <2>2. CASE j \in 1 .. n
    BY <1>5, <2>1, <2>2 DEF Coming, Sent, Between, Ordered, Covered
  <2>3. CASE j = n + 1
    BY <1>5, <2>1, <2>3 DEF Coming, Sent, Between, Ordered, Covered
  <2> QED
    BY <1>2, <2>2, <2>3
<1>6. ASSUME NEW u \in d .. to + size - 1
      PROVE  \E i \in 1 .. n + 1 :
               /\ g[i] \in Pieces
               /\ g[i].first <= u /\ u < g[i].first + g[i].size
  <2>1. CASE u \in d .. to - 1
    <3>1. PICK i \in 1 .. n : /\ f[i] \in Pieces
                              /\ f[i].first <= u /\ u < f[i].first + f[i].size
      BY <2>1 DEF Coming, Sent, Between, Ordered, Covered
    <3> QED
      BY <3>1
  <2>2. CASE u \in to .. to + size - 1
    <3>1. n + 1 \in 1 .. n + 1
      OBVIOUS
    <3>2. g[n + 1].first <= u /\ u < g[n + 1].first + g[n + 1].size
      BY <1>1, <2>2 DEF size
    <3> QED
      BY <3>1, <3>2
  <2> QED
    BY <1>1, <2>1, <2>2
<1>7. Sent(g, n + 1)
  BY <1>3 DEF Sent
<1>8. Between(g, n + 1, s, d, to + size)
  BY <1>4 DEF Between
<1>9. Ordered(g, n + 1)
  BY <1>5 DEF Ordered
<1>10. Covered(g, n + 1, d, to + size)
  BY <1>1, <1>6 DEF Covered
<1> QED
  BY <1>7, <1>8, <1>9, <1>10 DEF Coming, size

(* A packet that joins them anywhere. *)
LEMMA ComingInsert ==
  ASSUME NEW f, NEW g, NEW n \in Nat, NEW k \in 0 .. n,
         NEW s, NEW d \in Nat, NEW to \in Nat,
         Coming(f, n, s, d, to), g[k + 1] \in Packets,
         \A i \in 1 .. k : g[i] = f[i],
         \A i \in k + 1 .. n : g[i + 1] = f[i]
  PROVE  Coming(g, n + 1, s, d, to)
<1> DEFINE from(i) == IF i <= k THEN i ELSE i - 1
<1>1. g[k + 1] \in Writes /\ g[k + 1] # ResetRequest /\ g[k + 1] \notin Pieces
  BY Kinds DEF Writes
<1>2. ASSUME NEW i \in 1 .. n + 1, i # k + 1
      PROVE  from(i) \in 1 .. n /\ g[i] = f[from(i)]
  <2>1. CASE i <= k
    BY <2>1
  <2>2. CASE i > k
    <3>1. i - 1 \in k + 1 .. n /\ (i - 1) + 1 = i
      BY <1>2, <2>2
    <3> QED
      BY <2>2, <3>1
  <2> QED
    BY <2>1, <2>2
<1>3. \A i, j \in 1 .. n + 1 :
        i # k + 1 /\ j # k + 1 /\ i < j => from(i) < from(j)
  OBVIOUS
<1> HIDE DEF from
<1>4. \A i \in 1 .. n + 1 : g[i] \in Writes /\ g[i] # ResetRequest
  BY <1>1, <1>2 DEF Coming, Sent, Between, Ordered, Covered
<1>5. \A i \in 1 .. n + 1 : g[i] \in Pieces =>
        /\ g[i].session = s
        /\ d <= g[i].first /\ g[i].first + g[i].size <= to
  BY <1>1, <1>2 DEF Coming, Sent, Between, Ordered, Covered
<1>6. ASSUME NEW i \in 1 .. n + 1, NEW j \in 1 .. n + 1,
             i < j, g[i] \in Pieces, g[j] \in Pieces
      PROVE  g[i].first + g[i].size <= g[j].first
  <2>1. i # k + 1 /\ j # k + 1
    BY <1>1, <1>6
  <2>2. /\ from(i) \in 1 .. n /\ g[i] = f[from(i)]
        /\ from(j) \in 1 .. n /\ g[j] = f[from(j)] /\ from(i) < from(j)
    BY <1>2, <1>3, <1>6, <2>1
  <2> QED
    BY <1>6, <2>2 DEF Coming, Sent, Between, Ordered, Covered
<1>7. ASSUME NEW u \in d .. to - 1
      PROVE  \E i \in 1 .. n + 1 :
               /\ g[i] \in Pieces
               /\ g[i].first <= u /\ u < g[i].first + g[i].size
  <2>1. PICK i \in 1 .. n : /\ f[i] \in Pieces
                            /\ f[i].first <= u /\ u < f[i].first + f[i].size
    BY DEF Coming, Sent, Between, Ordered, Covered
  <2>2. CASE i <= k
    <3>1. i \in 1 .. n + 1 /\ g[i] = f[i]
      BY <2>2
    <3> QED
      BY <2>1, <3>1
  <2>3. CASE i > k
    <3>1. i + 1 \in 1 .. n + 1 /\ g[i + 1] = f[i]
      BY <2>3
    <3> QED
      BY <2>1, <3>1
  <2> QED
    BY <2>2, <2>3
<1> QED
  BY <1>4, <1>5, <1>6, <1>7 DEF Coming, Sent, Between, Ordered, Covered

(* Lands too is about the first n writes only. *)
LEMMA LandsSame ==
  ASSUME NEW pal, NEW cur, NEW f, NEW g, NEW n \in Nat, NEW s, NEW to \in Nat,
         Lands(pal, cur, f, n, s, to), \A i \in 1 .. n : g[i] = f[i]
  PROVE  Lands(pal, cur, g, n, s, to)
<1>1. PICK d \in 0 .. to : Landed(pal, cur, s, d) /\ Coming(f, n, s, d, to)
  BY DEF Lands
<1>2. Coming(g, n, s, d, to)
  BY <1>1, ComingSame
<1> QED
  BY <1>1, <1>2 DEF Lands

(* A packet changes nothing of what lands. *)
LEMMA LandsInsert ==
  ASSUME NEW pal, NEW cur, NEW f, NEW g, NEW n \in Nat, NEW k \in 0 .. n,
         NEW s, NEW to \in Nat,
         Lands(pal, cur, f, n, s, to), g[k + 1] \in Packets,
         \A i \in 1 .. k : g[i] = f[i],
         \A i \in k + 1 .. n : g[i + 1] = f[i]
  PROVE  Lands(pal, cur, g, n + 1, s, to)
<1>1. PICK d \in 0 .. to : Landed(pal, cur, s, d) /\ Coming(f, n, s, d, to)
  BY DEF Lands
<1>2. Coming(g, n + 1, s, d, to)
  BY <1>1, ComingInsert
<1> QED
  BY <1>1, <1>2 DEF Lands

(* One more piece, and the palettes land as far as it reaches. *)
LEMMA LandsAdd ==
  ASSUME NEW pal, NEW cur, NEW f, NEW g, NEW n \in Nat, NEW s, NEW to \in Nat,
         Lands(pal, cur, f, n, s, to), \A i \in 1 .. n : g[i] = f[i],
         g[n + 1] \in Pieces, g[n + 1].session = s, g[n + 1].first = to
  PROVE  Lands(pal, cur, g, n + 1, s, to + g[n + 1].size)
<1>1. PICK d \in 0 .. to : Landed(pal, cur, s, d) /\ Coming(f, n, s, d, to)
  BY DEF Lands
<1>2. Coming(g, n + 1, s, d, to + g[n + 1].size)
  BY <1>1, ComingAdd
<1>3. g[n + 1].size \in Nat
  BY Kinds
<1>4. d \in 0 .. to + g[n + 1].size
  BY <1>3
<1> QED
  BY <1>1, <1>2, <1>4 DEF Lands

(* What is below PAL_SIZE is not cut. *)
LEMMA Small == \A a \in Nat, b \in Nat \ {0} : a < b => a % b = a
  BY SMT

(* What write_palette makes of palette_ and its cursor. *)
Written(pal, cur, w, pal2, cur2) ==
  \E size \in Nat :
    /\ size = IF w.size < PAL_SIZE - cur THEN w.size ELSE PAL_SIZE - cur
    /\ \A u \in DOMAIN pal : pal2[u] =
         IF u \in cur .. cur + size - 1
         THEN [session |-> w.session, unit |-> w.first + (u - cur)] ELSE pal[u]
    /\ cur2 = (cur + size) % PAL_SIZE

(* A piece that arrives continues what landed: the cursor is where its first
   unit belongs, and the piece is not cut at the end of palette_. *)
LEMMA LandsPiece ==
  ASSUME NEW pal, NEW cur \in 0 .. PAL_SIZE - 1, NEW f, NEW g,
         NEW n \in Nat \ {0}, NEW s, NEW to \in Nat, to <= PAL_SIZE,
         DOMAIN pal = 0 .. PAL_SIZE - 1,
         Lands(pal, cur, f, n, s, to), \A i \in 1 .. n - 1 : g[i] = f[i + 1],
         NEW w \in Pieces, f[1] = w,
         NEW pal2, NEW cur2, Written(pal, cur, w, pal2, cur2)
  PROVE  Lands(pal2, cur2, g, n - 1, s, to)
<1>0. PAL_SIZE \in Nat \ {0}
  BY SessionAssumption
<1>1. PICK d \in Nat :
        d <= to /\ Landed(pal, cur, s, d) /\ Coming(f, n, s, d, to)
  BY DEF Lands
<1>2. /\ w.first = d /\ d + w.size <= to /\ w.session = s
      /\ Coming(g, n - 1, s, d + w.size, to)
  <2>1. w.first = d
    BY <1>1, ComingHead
  <2>2. w.session = s /\ d + w.size <= to
    BY <1>1, ComingHead
  <2>3. Coming(g, n - 1, s, d + w.size, to)
    BY <1>1, ComingTail
  <2> QED
    BY <2>1, <2>2, <2>3
<1>3. w.size \in Nat \ {0}
  BY Kinds
<1>4. cur = d
  <2>1. d < PAL_SIZE /\ d \in Nat
    BY <1>0, <1>2, <1>3
  <2> QED
    BY <1>0, <1>1, <2>1, Small DEF Landed
<1>5. PICK size \in Nat :
    /\ size = IF w.size < PAL_SIZE - cur THEN w.size ELSE PAL_SIZE - cur
    /\ \A u \in DOMAIN pal : pal2[u] =
         IF u \in cur .. cur + size - 1
         THEN [session |-> w.session, unit |-> w.first + (u - cur)] ELSE pal[u]
    /\ cur2 = (cur + size) % PAL_SIZE
  BY DEF Written
<1>6. size = w.size
  <2>1. w.size <= PAL_SIZE - cur
    BY <1>0, <1>2, <1>3, <1>4
  <2>2. w.size < PAL_SIZE - cur \/ w.size = PAL_SIZE - cur
    BY ONLY <1>0, <1>3, <2>1, cur \in 0 .. PAL_SIZE - 1
  <2> QED
    BY <1>5, <2>2, Zenon
<1>7. ASSUME NEW u \in 0 .. d + size - 1
      PROVE  pal2[u] = [session |-> s, unit |-> u]
  <2>1. u \in DOMAIN pal
    <3>1. d + size <= PAL_SIZE /\ d \in Nat
      BY <1>0, <1>2, <1>3, <1>6
    <3>2. u \in 0 .. PAL_SIZE - 1
      BY <1>0, <3>1
    <3> QED
      BY <3>2
  <2>2. CASE u < d
    <3>1. u \in 0 .. d - 1 /\ u \notin cur .. cur + size - 1
      BY <1>4, <2>2
    <3> QED
      BY <1>1, <1>5, <2>1, <3>1 DEF Landed
  <2>3. CASE u >= d
    <3>1. u \in cur .. cur + size - 1
      BY <1>4, <2>3
    <3>2. w.first + (u - cur) = u
      BY <1>2, <1>4
    <3> QED
      BY <1>2, <1>5, <2>1, <3>1, <3>2
  <2> QED
    BY <2>2, <2>3
<1>8. Landed(pal2, cur2, s, d + size)
  BY <1>4, <1>7, <1>5 DEF Landed
<1>9. d + size \in 0 .. to
  BY <1>2, <1>6
<1> QED
  BY <1>2, <1>6, <1>8, <1>9 DEF Lands

(* A packet that arrives leaves what landed. *)
LEMMA LandsPacket ==
  ASSUME NEW pal, NEW cur, NEW f, NEW g, NEW n \in Nat \ {0},
         NEW s, NEW to \in Nat,
         Lands(pal, cur, f, n, s, to), \A i \in 1 .. n - 1 : g[i] = f[i + 1],
         f[1] \in Packets
  PROVE  Lands(pal, cur, g, n - 1, s, to)
<1>1. PICK d \in Nat :
        d <= to /\ Landed(pal, cur, s, d) /\ Coming(f, n, s, d, to)
  BY DEF Lands
<1>2. Coming(g, n - 1, s, d, to)
  BY <1>1, ComingTail
<1>3. d \in 0 .. to
  BY <1>1
<1> QED
  BY <1>1, <1>2, <1>3 DEF Lands

------------------------------------------------------------------------------
(* A queue and the socket behind it, as one sequence of writes. *)
LEMMA Both ==
  ASSUME NEW q \in Seq(Writes), NEW s \in Seq(Pieces)
  PROVE  /\ Len(q) \in Nat /\ Len(s) \in Nat
         /\ \A i \in 1 .. Len(q) : (q \o s)[i] = q[i] /\ q[i] \in Writes
         /\ \A i \in 1 .. Len(s) :
              (q \o s)[Len(q) + i] = s[i] /\ s[i] \in Pieces
<1>1. s \in Seq(Writes)
  BY SeqMonotonic DEF Writes
<1>2. Len(q) \in Nat /\ Len(s) \in Nat
  BY LenProperties
<1>3. \A i \in 1 .. Len(q) + Len(s) :
        (q \o s)[i] = IF i <= Len(q) THEN q[i] ELSE s[i - Len(q)]
  BY <1>1, ConcatProperties
<1>4. \A i \in 1 .. Len(q) : q[i] \in Writes
  BY ElementOfSeq
<1>5. \A i \in 1 .. Len(s) : s[i] \in Pieces
  BY ElementOfSeq
<1> QED
  BY <1>2, <1>3, <1>4, <1>5

(* What Typed says of one computer. *)
LEMMA Typing ==
  ASSUME Typed, NEW p \in PEERS
  PROVE  /\ queue[p] \in Seq(Writes) /\ pal_sock[p] \in Seq(Pieces)
         /\ Len(queue[p]) \in Nat /\ Len(pal_sock[p]) \in Nat
         /\ client[p] \in [at : {"gone", "reset", "upload", "stream"},
                           session : Ids, size : 0 .. PAL_SIZE,
                           left : 0 .. PAL_SIZE]
         /\ client[p].size \in Nat /\ client[p].left \in Nat
         /\ client[p].size <= PAL_SIZE
         /\ link[p] \in BOOLEAN /\ frame_sock[p] \in {0, 1}
<1>1. queue[p] \in Seq(Writes) /\ pal_sock[p] \in Seq(Pieces)
  BY DEF Typed
<1>2. Len(queue[p]) \in Nat /\ Len(pal_sock[p]) \in Nat
  BY <1>1, LenProperties
<1>3. /\ client[p] \in [at : {"gone", "reset", "upload", "stream"},
                        session : Ids, size : 0 .. PAL_SIZE,
                        left : 0 .. PAL_SIZE]
      /\ link[p] \in BOOLEAN /\ frame_sock[p] \in {0, 1}
  BY Zenon DEF Typed, TypeOK
<1>4. PAL_SIZE \in Nat
  BY SessionAssumption
<1>5. client[p].size \in 0 .. PAL_SIZE /\ client[p].left \in 0 .. PAL_SIZE
  BY <1>3
<1> QED
  BY <1>1, <1>2, <1>3, <1>4, <1>5

(* A computer nothing happened to is InPlace still. *)
LEMMA Untouched ==
  ASSUME NEW r \in PEERS, InPlace(r),
         link'[r] = link[r], client'[r] = client[r], pal_sock'[r] = pal_sock[r],
         frame_sock'[r] = frame_sock[r], queue'[r] = queue[r],
         Connected(r)' => Connected(r) /\ UNCHANGED watch
  PROVE  InPlace(r)'
<1>1. Places(r)'
  BY DEF InPlace, Places
<1>2. ASSUME Connected(r)' PROVE Rewound(r)' /\ Uploads(r)' /\ Shown(r)'
  <2>1. /\ Rewound(r) /\ Uploads(r) /\ Shown(r)
        /\ palette' = palette /\ pal_progress' = pal_progress
    BY <1>2 DEF InPlace, watch
  <2> QED
    BY <2>1 DEF Rewound, Uploads, Shown
<1> QED
  BY <1>1, <1>2 DEF InPlace

(* What one computer and its client do by themselves. *)
Alone(p) ==
  \/ ClientStart(p) \/ Client(p) \/ ClientEnds(p)
  \/ TakePiece(p) \/ TakePacket(p) \/ CloseSockets(p) \/ LinkLost(p)

(* ... leaves the others, and the watch. *)
LEMMA Elsewhere ==
  ASSUME Typed, NEW p \in PEERS, Alone(p)
  PROVE  /\ UNCHANGED gap /\ UNCHANGED watch
         /\ \A r \in PEERS \ {p} :
              /\ link'[r] = link[r] /\ client'[r] = client[r]
              /\ pal_sock'[r] = pal_sock[r] /\ frame_sock'[r] = frame_sock[r]
              /\ queue'[r] = queue[r]
<1>1. /\ DOMAIN link = PEERS /\ DOMAIN client = PEERS /\ DOMAIN pal_sock = PEERS
      /\ DOMAIN frame_sock = PEERS /\ DOMAIN queue = PEERS
  BY DEF Typed, TypeOK
<1>2. CASE ClientStart(p)
  BY <1>1, <1>2 DEF ClientStart
<1>3. CASE ResetDone(p)
  BY <1>1, <1>3 DEF ResetDone
<1>4. CASE UploadPiece(p)
  BY <1>1, <1>4 DEF UploadPiece
<1>5. CASE UploadDone(p)
  BY <1>1, <1>5 DEF UploadDone
<1>6. CASE StreamPacket(p)
  BY <1>1, <1>6 DEF StreamPacket
<1>7. CASE ClientEnds(p)
  BY <1>1, <1>7 DEF ClientEnds
<1>8. CASE TakePiece(p)
  BY <1>1, <1>8 DEF TakePiece
<1>9. CASE TakePacket(p)
  BY <1>1, <1>9 DEF TakePacket
<1>10. CASE CloseSockets(p)
  BY <1>1, <1>10 DEF CloseSockets
<1>11. CASE LinkLost(p)
  BY <1>1, <1>11 DEF LinkLost
<1> QED
  BY <1>2, <1>3, <1>4, <1>5, <1>6, <1>7, <1>8, <1>9, <1>10, <1>11
     DEF Alone, Client

(* A write that joins the queue shows right what was right, and itself. *)
LEMMA ShownAppend ==
  ASSUME Typed, NEW p \in PEERS, Shown(p), NEW w \in Writes,
         queue' = [queue EXCEPT ![p] = Append(@, w)], UNCHANGED watch,
         w \in Packets /\ ~w.overtook =>
           Lands(palette, pal_progress, queue[p], Len(queue[p]),
                 w.session, w.size)
  PROVE  Shown(p)'
<1> DEFINE q == queue[p]
           n == Len(queue[p])
<1>1. q \in Seq(Writes) /\ n \in Nat /\ queue'[p] = Append(q, w)
  BY Typing DEF Typed
<1>2. /\ Len(queue'[p]) = n + 1
      /\ \A i \in 1 .. n : queue'[p][i] = q[i]
      /\ queue'[p][n + 1] = w
  BY <1>1, AppendProperties
<1>3. ASSUME NEW i \in 1 .. n + 1,
             queue'[p][i] \in Packets, ~queue'[p][i].overtook
      PROVE  Lands(palette, pal_progress, queue'[p], i - 1,
                   queue'[p][i].session, queue'[p][i].size)
  <2>1. queue'[p][i].size \in Nat
    BY <1>3, Kinds, SessionAssumption
  <2>2. i - 1 \in Nat /\ \A j \in 1 .. i - 1 : queue'[p][j] = q[j]
    BY <1>1, <1>2
  <2>3. Lands(palette, pal_progress, q, i - 1,
              queue'[p][i].session, queue'[p][i].size)
    <3>1. CASE i \in 1 .. n
      BY <1>2, <1>3, <3>1 DEF Shown
    <3>2. CASE i = n + 1
      <4>1. i - 1 = n
        BY <1>1, <3>2
      <4> QED
        BY <1>2, <1>3, <3>2, <4>1
    <3> QED
      BY <1>1, <3>1, <3>2
  <2> HIDE DEF q
  <2> QED
    BY <2>1, <2>2, <2>3, LandsSame
<1> QED
  BY <1>2, <1>3 DEF Shown, watch

------------------------------------------------------------------------------
(* A client starts: its reset is the last write of the queue. *)
LEMMA StartInPlace ==
  ASSUME Typed, NEW p \in PEERS, InPlace(p), ClientStart(p)
  PROVE  InPlace(p)'
<1>1. /\ client'[p].at = "reset" /\ client'[p].left = client'[p].size
      /\ client'[p].size \in Nat
      /\ link'[p] /\ pal_sock'[p] = <<>> /\ frame_sock'[p] = 0
      /\ UNCHANGED gap /\ UNCHANGED watch /\ UNCHANGED link
      /\ queue' = [queue EXCEPT ![p] = Append(@, ResetRequest)]
  <2>1. PICK size \in UPLOADS :
          client' = [client EXCEPT ![p] = [at |-> "reset", session |-> started',
                                           size |-> size, left |-> size]]
    BY DEF ClientStart
  <2>2. client'[p] = [at |-> "reset", session |-> started',
                      size |-> size, left |-> size]
    BY <2>1 DEF Typed, TypeOK
  <2>3. size \in Nat
    BY SessionAssumption
  <2> QED
    BY <2>2, <2>3 DEF ClientStart
<1>2. ResetRequest \in Writes /\ ResetRequest \notin Packets
  BY Kinds DEF Writes
<1>3. queue[p] \in Seq(Writes) /\ Len(queue[p]) \in Nat
      /\ queue'[p] = Append(queue[p], ResetRequest)
  BY <1>1, Typing DEF Typed
<1>4. /\ Len(queue'[p]) = Len(queue[p]) + 1 /\ queue'[p] # <<>>
      /\ queue'[p][Len(queue'[p])] = ResetRequest
  BY <1>2, <1>3, AppendProperties
<1>5. Places(p)'
  BY <1>1, <1>4 DEF Places
<1>6. ASSUME Connected(p)' PROVE Shown(p)'
  <2>1. Shown(p)
    BY <1>1, <1>6 DEF InPlace, Connected, gap
  <2> QED
    BY <1>1, <1>2, <2>1, ShownAppend
<1>7. Rewound(p)' /\ Uploads(p)'
  BY <1>1, <1>4 DEF Rewound, Uploads
<1> QED
  BY <1>5, <1>6, <1>7 DEF InPlace

(* The reset has been answered, so the queue is empty and the cursor at 0: the
   upload begins with nothing landed and everything to come. *)
LEMMA ResetInPlace ==
  ASSUME Typed, NEW p \in PEERS, InPlace(p), ResetDone(p)
  PROVE  InPlace(p)'
<1>1. /\ client'[p].at = "upload"
      /\ client'[p].left = client[p].left /\ client'[p].size = client[p].size
      /\ client'[p].session = client[p].session
  BY DEF ResetDone, Typed, TypeOK
<1>2. UNCHANGED <<gap, watch, link, pal_sock, frame_sock, queue>>
  BY DEF ResetDone
<1>3. queue[p] = <<>> /\ pal_sock[p] = <<>> /\ frame_sock[p] = 0
      /\ client[p].left = client[p].size
  <2>1. ASSUME queue[p] # <<>> PROVE FALSE
    <3>1. queue[p][Len(queue[p])] = ResetRequest
      BY <2>1 DEF InPlace, Places, ResetDone
    <3>2. Len(queue[p]) \in DOMAIN queue[p]
      BY <2>1, Typing, LenProperties, EmptySeq
    <3> QED
      BY <3>1, <3>2 DEF ResetDone
  <2> QED
    BY <2>1 DEF InPlace, Places, ResetDone
<1>4. Places(p)'
  BY <1>1, <1>2, <1>3, Typing DEF InPlace, Places, ResetDone
<1>5. Rewound(p)'
  BY <1>1 DEF Rewound
<1>6. ASSUME Connected(p)' PROVE Shown(p)' /\ Uploads(p)'
  <2>1. Shown(p)
    BY <1>2, <1>6 DEF InPlace, Connected, gap
  <2>2. pal_progress = 0
    BY <1>2, <1>3, <1>6 DEF InPlace, Connected, gap, Rewound, ResetDone
  <2>3. Shown(p)'
    BY <1>2, <2>1 DEF Shown, watch
  <2>4. 0 % PAL_SIZE = 0
    BY Small, SessionAssumption
  <2>5. Landed(palette, pal_progress, client[p].session, 0)
    BY <2>2, <2>4 DEF Landed
  <2>6. Coming(queue[p] \o pal_sock[p], 0, client[p].session, 0, 0)
    BY DEF Coming, Sent, Between, Ordered, Covered
  <2>7. Lands(palette, pal_progress, queue[p] \o pal_sock[p], 0,
              client[p].session, 0)
    BY <2>5, <2>6 DEF Lands
  <2>8. Len(queue[p]) + Len(pal_sock[p]) = 0
    BY <1>3
  <2>9. client[p].size - client[p].left = 0
    BY <1>3, Typing
  <2>10. Uploads(p)'
    BY <1>1, <1>2, <2>7, <2>8, <2>9 DEF Uploads, watch
  <2> QED
    BY <2>3, <2>10
<1> QED
  BY <1>4, <1>5, <1>6 DEF InPlace

(* The upload is written: all of it has landed or is coming. *)
LEMMA DoneInPlace ==
  ASSUME Typed, NEW p \in PEERS, InPlace(p), UploadDone(p)
  PROVE  InPlace(p)'
<1>1. /\ client'[p].at = "stream"
      /\ client'[p].left = client[p].left /\ client'[p].size = client[p].size
      /\ client'[p].session = client[p].session
  BY DEF UploadDone, Typed, TypeOK
<1>2. UNCHANGED <<gap, watch, link, pal_sock, frame_sock, queue>>
  BY DEF UploadDone
<1>3. client[p].left = 0 /\ client[p].at = "upload"
  BY Typing DEF UploadDone, MoreToWrite
<1>4. Places(p)'
  BY <1>1, <1>2, <1>3, Typing DEF InPlace, Places
<1>5. ASSUME Connected(p)' PROVE Rewound(p)' /\ Shown(p)' /\ Uploads(p)'
  <2>1. Shown(p) /\ Uploads(p)
    BY <1>2, <1>5 DEF InPlace, Connected, gap
  <2>2. Shown(p)'
    BY <1>2, <2>1 DEF Shown, watch
  <2>3. Uploads(p)'
    BY <1>1, <1>2, <1>3, <2>1 DEF Uploads, watch
  <2> QED
    BY <1>1, <2>2, <2>3 DEF Rewound
<1> QED
  BY <1>4, <1>5 DEF InPlace

(* A packet only fills its socket, and a client that ends leaves everything. *)
LEMMA StreamInPlace ==
  ASSUME Typed, NEW p \in PEERS, InPlace(p), StreamPacket(p) \/ ClientEnds(p)
  PROVE  InPlace(p)'
<1>1. /\ UNCHANGED <<gap, watch, link, pal_sock, queue>>
      /\ \/ client'[p] = client[p] /\ frame_sock'[p] = 1
            /\ client[p].at = "stream"
         \/ client'[p] = NoClient /\ frame_sock'[p] = frame_sock[p]
            /\ client[p].at # "gone"
  BY DEF StreamPacket, ClientEnds, Typed, TypeOK
<1>2. link[p]
  BY <1>1 DEF InPlace, Places
<1>3. Places(p)'
  BY <1>1, <1>2 DEF InPlace, Places, NoClient
<1>4. ASSUME Connected(p)' PROVE Rewound(p)' /\ Shown(p)' /\ Uploads(p)'
  <2>1. Shown(p) /\ Uploads(p)
    BY <1>1, <1>4 DEF InPlace, Connected, gap
  <2>2. Shown(p)'
    BY <1>1, <2>1 DEF Shown, watch
  <2>3. Uploads(p)'
    <3>1. CASE client'[p] = client[p]
      BY <1>1, <2>1, <3>1 DEF Uploads, watch
    <3>2. CASE client'[p] = NoClient
      <4>1. client'[p].at = "gone"
        BY <3>2 DEF NoClient
      <4> QED
        BY <4>1 DEF Uploads
    <3> QED
      BY <1>1, <3>1, <3>2
  <2>4. Rewound(p)'
    BY <1>1 DEF Rewound, NoClient
  <2> QED
    BY <2>2, <2>3, <2>4
<1> QED
  BY <1>3, <1>4 DEF InPlace

(* Closing the sockets, or losing the link, leaves nothing that could land
   wrong. *)
LEMMA LostInPlace ==
  ASSUME Typed, NEW p \in PEERS, InPlace(p), CloseSockets(p) \/ LinkLost(p)
  PROVE  InPlace(p)'
<1>1. CASE CloseSockets(p)
  <2>1. /\ UNCHANGED <<gap, watch, link, client, queue>>
        /\ pal_sock'[p] = <<>> /\ frame_sock'[p] = 0 /\ client[p].at = "gone"
    BY <1>1 DEF CloseSockets, Typed, TypeOK
  <2>2. Places(p)'
    BY <2>1 DEF InPlace, Places
  <2>3. Rewound(p)' /\ Uploads(p)'
    BY <2>1 DEF Rewound, Uploads
  <2>4. Connected(p)' => Shown(p)'
    BY <2>1 DEF InPlace, Connected, gap, Shown, watch
  <2> QED
    BY <2>2, <2>3, <2>4 DEF InPlace
<1>2. CASE LinkLost(p)
  <2>1. /\ ~link'[p] /\ client'[p] = NoClient /\ queue'[p] = <<>>
        /\ pal_sock'[p] = <<>> /\ frame_sock'[p] = 0
    BY <1>2, Zenon DEF LinkLost, Typed, TypeOK
  <2>2. Places(p)'
    BY <2>1 DEF Places, NoClient
  <2> QED
    BY <2>1, <2>2 DEF InPlace, Connected
<1> QED
  BY <1>1, <1>2

(* A piece written to the socket is the next one coming. *)
LEMMA PieceInPlace ==
  ASSUME Typed, NEW p \in PEERS, InPlace(p), UploadPiece(p)
  PROVE  InPlace(p)'
<1> DEFINE c == client[p]
           size == IF c.left < PIECE THEN c.left ELSE PIECE
           w == Piece(c.session, c.size - c.left, size)
           q == queue[p]
           s == pal_sock[p]
           f == q \o s
           g == q \o Append(s, w)
<1>1. /\ UNCHANGED <<gap, watch, link, frame_sock, queue>>
      /\ c.at = "upload" /\ c.left > 0
      /\ pal_sock'[p] = Append(s, w)
      /\ client'[p] = [c EXCEPT !.left = c.left - size]
  BY DEF UploadPiece, MoreToWrite, Typed, TypeOK
<1>2. /\ PAL_SIZE \in Nat /\ PIECE \in Nat \ {0}
      /\ c.size \in Nat /\ c.left \in Nat /\ c.left <= c.size
      /\ c.size <= PAL_SIZE /\ c.session \in Ids
  BY SessionAssumption, Typing DEF InPlace, Places
<1>3. size \in Nat \ {0} /\ size <= c.left
  BY <1>1, <1>2
<1>4. /\ client'[p].at = "upload" /\ client'[p].session = c.session
      /\ client'[p].size = c.size /\ client'[p].left = c.left - size
  BY <1>1, Typing
<1>5. w \in Pieces /\ w.session = c.session /\ w.first = c.size - c.left
      /\ w.size = size
  BY <1>1, <1>2, <1>3 DEF Piece, Pieces
<1>6. q \in Seq(Writes) /\ s \in Seq(Pieces) /\ Len(q) \in Nat /\ Len(s) \in Nat
  BY Typing
<1> HIDE DEF c, size, w, q, s
<1>7. /\ Append(s, w) \in Seq(Pieces) /\ Len(Append(s, w)) = Len(s) + 1
      /\ \A i \in 1 .. Len(s) : Append(s, w)[i] = s[i]
      /\ Append(s, w)[Len(s) + 1] = w
  BY <1>5, <1>6, AppendProperties
<1>8. ASSUME Connected(p)'
      PROVE  Rewound(p)' /\ Shown(p)' /\ Uploads(p)'
  <2>1. Shown(p) /\ Uploads(p)
    BY <1>1, <1>8 DEF InPlace, Connected, gap
  <2>2. Lands(palette, pal_progress, f, Len(q) + Len(s), c.session,
              c.size - c.left)
    BY <1>1, <2>1 DEF Uploads, c, q, s
  <2>3. \A i \in 1 .. Len(q) + Len(s) : g[i] = f[i]
    <3>1. ASSUME NEW i \in 1 .. Len(q) + Len(s) PROVE g[i] = f[i]
      <4>1. CASE i <= Len(q)
        BY <1>6, <1>7, <4>1, Both
      <4>2. CASE i > Len(q)
        <5>1. PICK j \in 1 .. Len(s) : i = Len(q) + j
          <6>1. i - Len(q) \in 1 .. Len(s) /\ i = Len(q) + (i - Len(q))
            BY <1>6, <4>2
          <6> QED
            BY <6>1
        <5>2. j \in 1 .. Len(Append(s, w))
          BY <1>6, <1>7
        <5>3. g[Len(q) + j] = Append(s, w)[j] /\ f[Len(q) + j] = s[j]
          BY <1>6, <1>7, <5>2, Both
        <5> QED
          BY <1>7, <5>1, <5>3
      <4> QED
        BY <1>6, <4>1, <4>2
    <3> QED
      BY <3>1
  <2>4. g[Len(q) + Len(s) + 1] = w
    <3>1. Len(s) + 1 \in 1 .. Len(Append(s, w))
      BY <1>6, <1>7
    <3>2. g[Len(q) + (Len(s) + 1)] = Append(s, w)[Len(s) + 1]
      BY <1>6, <1>7, <3>1, Both
    <3> QED
      BY <1>6, <1>7, <3>2
  <2> DEFINE n == Len(q) + Len(s)
             to == c.size - c.left
  <2>5. n \in Nat /\ to \in Nat
    BY <1>2, <1>6
  <2> HIDE DEF f, g, n, to
  <2>6. Lands(palette, pal_progress, g, n + 1, c.session, to + size)
    <3>1. Lands(palette, pal_progress, f, n, c.session, to)
      BY <2>2 DEF n, to
    <3>2. \A i \in 1 .. n : g[i] = f[i]
      BY <2>3 DEF n
    <3>3. g[n + 1] = w
      BY <2>4 DEF n
    <3>4. g[n + 1] \in Pieces /\ g[n + 1].session = c.session
          /\ g[n + 1].first = to /\ g[n + 1].size = size
      BY <1>5, <3>3 DEF to
    <3>5. Lands(palette, pal_progress, g, n + 1, c.session, to + g[n + 1].size)
      BY <2>5, <3>1, <3>2, <3>4, LandsAdd
    <3> QED
      BY <3>4, <3>5
  <2>7. Len(queue'[p]) + Len(pal_sock'[p]) = n + 1
    <3>1. queue'[p] = q /\ pal_sock'[p] = Append(s, w)
      BY <1>1 DEF q
    <3> QED
      BY <1>6, <1>7, <3>1 DEF n
  <2>8. client'[p].size - client'[p].left = to + size
    BY <1>2, <1>3, <1>4 DEF to
  <2>9. queue'[p] \o pal_sock'[p] = g
    BY <1>1 DEF g, q
  <2>10. Uploads(p)'
    BY <1>1, <1>4, <2>6, <2>7, <2>8, <2>9 DEF Uploads, watch
  <2>11. Shown(p)'
    BY <1>1, <2>1 DEF Shown, watch
  <2> QED
    BY <1>4, <2>10, <2>11 DEF Rewound
<1>9. Places(p)'
  <2>1. client'[p].left <= client'[p].size
    BY <1>2, <1>3, <1>4
  <2>2. link'[p] /\ (frame_sock'[p] = 1 => FALSE)
    BY <1>1 DEF InPlace, Places, c
  <2> QED
    BY <1>4, <2>1, <2>2 DEF Places
<1> QED
  BY <1>8, <1>9 DEF InPlace

(* BlueZ takes a piece from the head of the socket to the end of the queue: the
   two as one sequence stay the same. *)
LEMMA TakePieceInPlace ==
  ASSUME Typed, NEW p \in PEERS, InPlace(p), TakePiece(p)
  PROVE  InPlace(p)'
<1> DEFINE q == queue[p]
           s == pal_sock[p]
           w == Head(s)
           f == q \o s
           g == Append(q, w) \o Tail(s)
           n == Len(q) + Len(s)
<1>1. /\ UNCHANGED <<gap, watch, link, client, frame_sock>>
      /\ s # <<>>
      /\ queue' = [queue EXCEPT ![p] = Append(@, w)]
      /\ queue'[p] = Append(q, w) /\ pal_sock'[p] = Tail(s)
  BY DEF TakePiece, Typed, TypeOK
<1>2. q \in Seq(Writes) /\ s \in Seq(Pieces) /\ Len(q) \in Nat /\ Len(s) \in Nat
  BY Typing
<1>3. /\ w \in Pieces /\ Tail(s) \in Seq(Pieces) /\ Len(Tail(s)) = Len(s) - 1
      /\ \A i \in 1 .. Len(Tail(s)) : Tail(s)[i] = s[i + 1]
  BY <1>1, <1>2, HeadTailProperties
<1>4. w = s[1] /\ Len(s) >= 1
  BY <1>1, <1>2, EmptySeq
<1>5. w \in Writes /\ w \notin Packets
  BY <1>3, Kinds DEF Writes
<1>6. /\ Append(q, w) \in Seq(Writes) /\ Len(Append(q, w)) = Len(q) + 1
      /\ \A i \in 1 .. Len(q) : Append(q, w)[i] = q[i]
      /\ Append(q, w)[Len(q) + 1] = w
  BY <1>2, <1>5, AppendProperties
<1>7. client[p].at # "reset" /\ link[p]
  BY <1>1 DEF InPlace, Places
<1>8. Places(p)'
  BY <1>1, <1>7 DEF InPlace, Places
<1>9. ASSUME Connected(p)'
      PROVE  Rewound(p)' /\ Shown(p)' /\ Uploads(p)'
  <2>1. Shown(p) /\ Uploads(p)
    BY <1>1, <1>9 DEF InPlace, Connected, gap
  <2>2. Shown(p)'
    BY <1>1, <1>5, <2>1, ShownAppend
  <2> HIDE DEF q, s, w
  <2>3. ASSUME NEW i \in 1 .. n PROVE g[i] = f[i]
    <3>1. CASE i <= Len(q)
      <4>1. i \in 1 .. Len(q) /\ i \in 1 .. Len(Append(q, w))
        BY <1>2, <1>6, <3>1
      <4>2. g[i] = Append(q, w)[i] /\ f[i] = q[i]
        BY <1>2, <1>3, <1>6, <4>1, Both
      <4> QED
        BY <1>6, <4>1, <4>2
    <3>2. CASE i = Len(q) + 1
      <4>1. Len(q) + 1 \in 1 .. Len(Append(q, w)) /\ 1 \in 1 .. Len(s)
        BY <1>2, <1>4, <1>6
      <4>2. g[Len(q) + 1] = Append(q, w)[Len(q) + 1] /\ f[Len(q) + 1] = s[1]
        BY <1>2, <1>3, <1>6, <4>1, Both
      <4> QED
        BY <1>4, <1>6, <3>2, <4>2
    <3>3. CASE i > Len(q) + 1
      <4>1. PICK j \in 1 .. Len(Tail(s)) : i = Len(q) + (j + 1)
        <5>1. i - Len(q) - 1 \in 1 .. Len(Tail(s))
              /\ i = Len(q) + ((i - Len(q) - 1) + 1)
          BY <1>2, <1>3, <3>3
        <5> QED
          BY <5>1
      <4>2. g[Len(Append(q, w)) + j] = Tail(s)[j]
        BY <1>3, <1>6, Both
      <4>3. j + 1 \in 1 .. Len(s)
        BY <1>2, <1>3
      <4>4. f[Len(q) + (j + 1)] = s[j + 1]
        BY <1>2, <4>3, Both
      <4>5. Len(Append(q, w)) + j = i
        BY <1>2, <1>6, <4>1
      <4> QED
        BY <1>3, <4>1, <4>2, <4>4, <4>5
    <3>4. i <= Len(q) \/ i = Len(q) + 1 \/ i > Len(q) + 1
      BY <1>2
    <3> QED
      BY <3>1, <3>2, <3>3, <3>4
  <2>4. n \in Nat /\ Len(Append(q, w)) + Len(Tail(s)) = n
    BY <1>2, <1>3, <1>6
  <2>5. Uploads(p)'
    <3>1. ASSUME client[p].at \in {"upload", "stream"}
          PROVE  Lands(palette, pal_progress, g, n, client[p].session,
                       client[p].size - client[p].left)
      <4>1. Lands(palette, pal_progress, f, n, client[p].session,
                  client[p].size - client[p].left)
        BY <2>1, <3>1 DEF Uploads, q, s
      <4>2. client[p].size - client[p].left \in Nat
        BY Typing DEF InPlace, Places
      <4> HIDE DEF f, g, n
      <4> QED
        BY <2>3, <2>4, <4>1, <4>2, LandsSame
    <3> QED
      BY <1>1, <2>4, <3>1 DEF Uploads, watch
  <2> QED
    BY <1>1, <1>7, <2>2, <2>5 DEF Rewound
<1> QED
  BY <1>8, <1>9 DEF InPlace

(* BlueZ takes a packet: it joins the queue before whatever the socket of the
   palettes holds, and overtakes nothing if that is empty. *)
LEMMA TakePacketInPlace ==
  ASSUME Typed, NEW p \in PEERS, InPlace(p), TakePacket(p)
  PROVE  InPlace(p)'
<1> DEFINE c == client[p]
           q == queue[p]
           s == pal_sock[p]
           w == [what |-> "packet", session |-> c.session,
                 overtook |-> c.at = "gone" \/ s # <<>>, size |-> c.size]
           f == q \o s
           g == Append(q, w) \o s
           n == Len(q) + Len(s)
<1>1. /\ UNCHANGED <<gap, watch, link, client, pal_sock>>
      /\ queue' = [queue EXCEPT ![p] = Append(@, w)]
      /\ queue'[p] = Append(q, w)
      /\ frame_sock[p] = 1 /\ frame_sock'[p] = 0
  BY DEF TakePacket, Typed, TypeOK
<1>2. q \in Seq(Writes) /\ s \in Seq(Pieces) /\ Len(q) \in Nat /\ Len(s) \in Nat
  BY Typing
<1>3. w \in Packets
  <2>1. (c.at = "gone" \/ s # <<>>) \in BOOLEAN
    BY Zenon
  <2>2. c.session \in Ids /\ c.size \in 0 .. PAL_SIZE
    BY Typing
  <2> QED
    BY <2>1, <2>2, Zenon DEF Packets
<1>4. w \in Writes
  BY <1>3 DEF Writes
<1>5. /\ Append(q, w) \in Seq(Writes) /\ Len(Append(q, w)) = Len(q) + 1
      /\ \A i \in 1 .. Len(q) : Append(q, w)[i] = q[i]
      /\ Append(q, w)[Len(q) + 1] = w
  BY <1>2, <1>4, AppendProperties
<1>6. c.at \in {"stream", "gone"} /\ link[p]
  BY <1>1 DEF InPlace, Places
<1>7. Places(p)'
  BY <1>1, <1>6 DEF InPlace, Places
<1>8. ASSUME Connected(p)'
      PROVE  Rewound(p)' /\ Shown(p)' /\ Uploads(p)'
  <2>1. Shown(p) /\ Uploads(p)
    BY <1>1, <1>8 DEF InPlace, Connected, gap
  <2>2. ASSUME ~w.overtook
        PROVE  Lands(palette, pal_progress, q, Len(q), w.session, w.size)
    <3>1. c.at # "gone" /\ s = <<>>
      BY <2>2
    <3>2. c.at = "stream" /\ c.left = 0 /\ c.size \in Nat
      BY <1>6, <3>1, Typing DEF InPlace, Places
    <3>3. c.size - c.left = c.size
      BY <3>2
    <3>4. Lands(palette, pal_progress, f, n, c.session, c.size)
      BY <2>1, <3>2, <3>3 DEF Uploads
    <3>5. n = Len(q)
      BY <1>2, <3>1
    <3>6. \A i \in 1 .. Len(q) : q[i] = f[i]
      BY <1>2, Both
    <3>7. w.session = c.session /\ w.size = c.size
      OBVIOUS
    <3> HIDE DEF f, n, w, c, q
    <3> QED
      BY <1>2, <3>2, <3>4, <3>5, <3>6, <3>7, LandsSame
  <2>3. Shown(p)'
    BY <1>1, <1>4, <2>1, <2>2, ShownAppend
  <2> HIDE DEF q, s, w
  <2>4. /\ n \in Nat /\ Len(q) \in 0 .. n
        /\ Len(Append(q, w)) + Len(s) = n + 1
    BY <1>2, <1>5
  <2>5. g[Len(q) + 1] = w
    <3>1. Len(q) + 1 \in 1 .. Len(Append(q, w))
      BY <1>2, <1>5
    <3> QED
      BY <1>2, <1>5, <3>1, Both
  <2>6. ASSUME NEW i \in 1 .. Len(q) PROVE g[i] = f[i]
    <3>1. i \in 1 .. Len(Append(q, w))
      BY <1>2, <1>5
    <3>2. g[i] = Append(q, w)[i] /\ f[i] = q[i]
      BY <1>2, <1>5, <3>1, Both
    <3> QED
      BY <1>5, <3>2
  <2>7. ASSUME NEW i \in Len(q) + 1 .. n PROVE g[i + 1] = f[i]
    <3>1. PICK j \in 1 .. Len(s) : i = Len(q) + j
      <4>1. i - Len(q) \in 1 .. Len(s) /\ i = Len(q) + (i - Len(q))
        BY <1>2
      <4> QED
        BY <4>1
    <3>2. g[Len(Append(q, w)) + j] = s[j] /\ f[Len(q) + j] = s[j]
      BY <1>2, <1>5, Both
    <3>3. Len(Append(q, w)) + j = i + 1
      BY <1>2, <1>5, <3>1
    <3> QED
      BY <3>1, <3>2, <3>3
  <2>8. ASSUME c.at \in {"upload", "stream"}
        PROVE  Lands(palette, pal_progress, g, n + 1, c.session,
                     c.size - c.left)
    <3>1. Lands(palette, pal_progress, f, n, c.session, c.size - c.left)
      BY <2>1, <2>8 DEF Uploads, q, s
    <3>2. c.size - c.left \in Nat
      BY Typing DEF InPlace, Places
    <3> DEFINE to == c.size - c.left
               k == Len(q)
    <3>3. to \in Nat /\ k \in 0 .. n
      BY <2>4, <3>2
    <3>4. g[k + 1] \in Packets
      BY <1>3, <2>5
    <3>5. /\ \A i \in 1 .. k : g[i] = f[i]
          /\ \A i \in k + 1 .. n : g[i + 1] = f[i]
      BY <2>6, <2>7
    <3>6. Lands(palette, pal_progress, f, n, c.session, to)
      BY <3>1
    <3> HIDE DEF f, g, n, to, k
    <3>7. Lands(palette, pal_progress, g, n + 1, c.session, to)
      BY <2>4, <3>3, <3>4, <3>5, <3>6, LandsInsert
    <3> QED
      BY <3>7 DEF to
  <2>9. Uploads(p)'
    BY <1>1, <2>4, <2>8 DEF Uploads, watch, s
  <2> QED
    BY <1>1, <1>6, <2>3, <2>9 DEF Rewound
<1> QED
  BY <1>7, <1>8 DEF InPlace

(* One write at the head of the queue less, whatever is behind it. *)
LEMMA LandsDeliver ==
  ASSUME Typed, NEW p \in PEERS, Deliver(p),
         NEW f, NEW g, NEW n \in Nat \ {0},
         NEW s, NEW to \in Nat, to <= PAL_SIZE,
         Lands(palette, pal_progress, f, n, s, to),
         f[1] = Head(queue[p]), \A i \in 1 .. n - 1 : g[i] = f[i + 1]
  PROVE  Lands(palette', pal_progress', g, n - 1, s, to)
<1> DEFINE w == Head(queue[p])
<1>1. w = f[1] /\ w \in Writes /\ w # ResetRequest
  BY DEF Lands, Coming, Sent
<1>2. w \in Pieces \/ w \in Packets
  BY <1>1 DEF Writes
<1>3. PAL_SIZE \in Nat \ {0} /\ pal_progress \in 0 .. PAL_SIZE - 1
      /\ DOMAIN palette = 0 .. PAL_SIZE - 1
  BY SessionAssumption DEF Typed, TypeOK
<1>4. CASE w \in Packets
  <2>1. w.what = "packet"
    BY <1>4, Kinds
  <2>2. palette' = palette /\ pal_progress' = pal_progress
    BY <2>1 DEF Deliver, watch
  <2>3. f[1] \in Packets
    BY <1>1, <1>4
  <2> QED
    BY <2>2, <2>3, LandsPacket
<1>5. CASE w \in Pieces
  <2>1. w.what = "piece" /\ w.size \in Nat
    BY <1>5, Kinds
  <2> DEFINE size == IF w.size < PAL_SIZE - pal_progress THEN w.size
                     ELSE PAL_SIZE - pal_progress
  <2>2. /\ palette' = [u \in DOMAIN palette |->
                         IF u \in pal_progress .. pal_progress + size - 1
                         THEN [session |-> w.session,
                               unit |-> w.first + (u - pal_progress)]
                         ELSE palette[u]]
        /\ pal_progress' = (pal_progress + size) % PAL_SIZE
    BY <2>1 DEF Deliver, WritePalette, Advanced
  <2>3. size \in Nat
    BY <1>3, <2>1
  <2>4. size = IF w.size < PAL_SIZE - pal_progress THEN w.size
               ELSE PAL_SIZE - pal_progress
    OBVIOUS
  <2>5. f[1] = w /\ w \in Pieces
    BY <1>1, <1>5
  <2>6. \A u \in DOMAIN palette : palette'[u] =
          IF u \in pal_progress .. pal_progress + size - 1
          THEN [session |-> w.session, unit |-> w.first + (u - pal_progress)]
          ELSE palette[u]
    BY <2>2, Zenon
  <2> HIDE DEF w, size
  <2>7. Written(palette, pal_progress, w, palette', pal_progress')
    BY <2>2, <2>3, <2>4, <2>6, Zenon DEF Written
  <2> QED
    BY <1>3, <2>5, <2>7, LandsPiece
<1> QED
  BY <1>2, <1>4, <1>5

(* A write arrives: a reset, a piece or a packet. *)
LEMMA DeliverInPlace ==
  ASSUME Typed, NEW p \in PEERS, InPlace(p), Deliver(p)
  PROVE  InPlace(p)'
<1> DEFINE c == client[p]
           q == queue[p]
           s == pal_sock[p]
           n == Len(q) + Len(s)
<1>1. /\ UNCHANGED <<gap, started, link, client, pal_sock, frame_sock>>
      /\ q # <<>> /\ queue'[p] = Tail(q) /\ Connected(p)
  BY DEF Deliver, Typed, TypeOK, Connected
<1>2. q \in Seq(Writes) /\ s \in Seq(Pieces) /\ Len(q) \in Nat /\ Len(s) \in Nat
  BY Typing
<1>3. /\ Tail(q) \in Seq(Writes) /\ Len(Tail(q)) = Len(q) - 1
      /\ \A i \in 1 .. Len(Tail(q)) : Tail(q)[i] = q[i + 1]
  BY <1>1, <1>2, HeadTailProperties
<1>4. Head(q) = q[1] /\ Len(q) >= 1
  BY <1>1, <1>2, EmptySeq
<1>5. Rewound(p) /\ Uploads(p) /\ Shown(p)
  BY <1>1 DEF InPlace
<1>6. Places(p)'
  <2>1. ASSUME c.at = "reset", Tail(q) # <<>>
        PROVE  Tail(q)[Len(Tail(q))] = ResetRequest
    <3>1. q[Len(q)] = ResetRequest
      BY <1>1, <2>1 DEF InPlace, Places
    <3>2. Len(Tail(q)) \in 1 .. Len(Tail(q))
      BY <1>3, <2>1, LenProperties, EmptySeq
    <3>3. /\ Tail(q)[Len(Tail(q))] = q[Len(Tail(q)) + 1]
          /\ Len(Tail(q)) + 1 = Len(q)
      BY <1>2, <1>3, <3>2
    <3> QED
      BY <3>1, <3>3
  <2>2. link[p]
    BY <1>1 DEF Connected
  <2> QED
    BY <1>1, <2>1, <2>2 DEF InPlace, Places
<1>7. Rewound(p)'
  <2>1. ASSUME c.at = "reset", Tail(q) = <<>>
        PROVE  pal_progress' = 0
    <3>1. Len(q) = 1
      <4>1. Len(Tail(q)) = 0
        BY <2>1, EmptySeq
      <4>2. Len(Tail(q)) = Len(q) - 1 /\ Len(q) \in Nat
        BY <1>2, <1>3
      <4> HIDE DEF q
      <4> QED
        BY ONLY <4>1, <4>2
    <3>2. q[Len(q)] = ResetRequest
      BY <1>1, <2>1 DEF InPlace, Places
    <3>3. Head(q) = ResetRequest /\ ResetRequest.what = "reset"
      BY <1>4, <3>1, <3>2, Kinds
    <3> QED
      BY <3>3 DEF Deliver, Rewind
  <2> QED
    BY <1>1, <2>1 DEF Rewound
<1>8. Shown(p)'
  <2>1. ASSUME NEW i \in 1 .. Len(Tail(q)),
               Tail(q)[i] \in Packets, ~Tail(q)[i].overtook
        PROVE  Lands(palette', pal_progress', Tail(q), i - 1,
                     Tail(q)[i].session, Tail(q)[i].size)
    <3> DEFINE t == Tail(q)[i].session
               to == Tail(q)[i].size
    <3>1. Tail(q)[i] = q[i + 1] /\ i + 1 \in 1 .. Len(q)
      BY <1>2, <1>3
    <3>2. (i + 1) - 1 = i /\ i \in Nat \ {0}
      BY <1>2, <1>3
    <3>3. Lands(palette, pal_progress, q, i, t, to)
      BY <1>5, <2>1, <3>1, <3>2 DEF Shown
    <3>4. to \in Nat /\ to <= PAL_SIZE
      <4>1. to \in 0 .. PAL_SIZE /\ PAL_SIZE \in Nat
        BY <2>1, Kinds, SessionAssumption
      <4> QED
        BY <4>1
    <3>5. \A j \in 1 .. i - 1 : Tail(q)[j] = q[j + 1]
      BY <1>2, <1>3
    <3>6. q[1] = Head(queue[p])
      BY <1>4
    <3> HIDE DEF t, to, q
    <3>7. Lands(palette', pal_progress', Tail(q), i - 1, t, to)
      BY <3>2, <3>3, <3>4, <3>5, <3>6, LandsDeliver
    <3> QED
      BY <3>7 DEF t, to
  <2> QED
    BY <1>1, <2>1 DEF Shown
<1>9. Uploads(p)'
  <2> DEFINE f == q \o s
             g == Tail(q) \o s
  <2>1. ASSUME c.at \in {"upload", "stream"}
        PROVE  Lands(palette', pal_progress', g, n - 1, c.session,
                     c.size - c.left)
    <3>1. Lands(palette, pal_progress, f, n, c.session, c.size - c.left)
      BY <1>5, <2>1 DEF Uploads
    <3> DEFINE to == c.size - c.left
    <3>2. to \in Nat /\ to <= PAL_SIZE
      <4>1. /\ c.size \in Nat /\ c.left \in Nat /\ c.left <= c.size
            /\ c.size <= PAL_SIZE /\ PAL_SIZE \in Nat
        BY Typing, SessionAssumption DEF InPlace, Places
      <4> QED
        BY <4>1
    <3>3. f[1] = Head(queue[p])
      <4>1. 1 \in 1 .. Len(q)
        BY <1>2, <1>4
      <4> QED
        BY <1>2, <1>4, <4>1, Both
    <3> HIDE DEF q, s
    <3>4. n \in Nat \ {0}
      BY <1>2, <1>4
    <3>5. ASSUME NEW i \in 1 .. n - 1 PROVE g[i] = f[i + 1]
      <4>1. CASE i < Len(q)
        <5>1. i \in 1 .. Len(Tail(q)) /\ i + 1 \in 1 .. Len(q)
          BY <1>2, <1>3, <4>1
        <5>2. g[i] = Tail(q)[i] /\ f[i + 1] = q[i + 1]
          BY <1>2, <1>3, <5>1, Both
        <5> QED
          BY <1>3, <5>1, <5>2
      <4>2. CASE i >= Len(q)
        <5>1. PICK j \in 1 .. Len(s) : i + 1 = Len(q) + j
          <6>1. /\ i + 1 - Len(q) \in 1 .. Len(s)
                /\ i + 1 = Len(q) + (i + 1 - Len(q))
            BY <1>2, <4>2
          <6> QED
            BY <6>1
        <5>2. g[Len(Tail(q)) + j] = s[j] /\ f[Len(q) + j] = s[j]
          BY <1>2, <1>3, Both
        <5>3. Len(Tail(q)) + j = i
          BY <1>2, <1>3, <5>1
        <5> QED
          BY <5>1, <5>2, <5>3
      <4>3. i < Len(q) \/ i >= Len(q)
        BY <1>2
      <4> QED
        BY <4>1, <4>2, <4>3
    <3>6. Lands(palette, pal_progress, f, n, c.session, to)
      BY <3>1
    <3> HIDE DEF f, g, n, to
    <3>7. Lands(palette', pal_progress', g, n - 1, c.session, to)
      BY <3>2, <3>3, <3>4, <3>5, <3>6, LandsDeliver
    <3> QED
      BY <3>7 DEF to
  <2>2. Len(Tail(q)) + Len(s) = n - 1
    <3> HIDE DEF q, s
    <3> QED
      BY <1>2, <1>3
  <2> QED
    BY <1>1, <2>1, <2>2 DEF Uploads
<1> QED
  BY <1>6, <1>7, <1>8, <1>9 DEF InPlace

------------------------------------------------------------------------------
(* Every step keeps every computer InPlace. *)
LEMMA AllInPlace ==
  ASSUME Inv, [Next]_vars
  PROVE  \A r \in PEERS : InPlace(r)'
<1>1. OnAir /\ Typed /\ \A r \in PEERS : InPlace(r)
  BY DEF Inv
<1>2. ASSUME NEW p \in PEERS, Alone(p)
      PROVE  \A r \in PEERS : InPlace(r)'
  <2>1. InPlace(p)'
    BY <1>1, <1>2, StartInPlace, ResetInPlace, PieceInPlace, DoneInPlace,
       StreamInPlace, TakePieceInPlace, TakePacketInPlace, LostInPlace
       DEF Alone, Client
  <2>2. ASSUME NEW r \in PEERS \ {p} PROVE InPlace(r)'
    <3>1. /\ UNCHANGED gap /\ UNCHANGED watch
          /\ link'[r] = link[r] /\ client'[r] = client[r]
          /\ pal_sock'[r] = pal_sock[r] /\ frame_sock'[r] = frame_sock[r]
          /\ queue'[r] = queue[r]
      BY <1>1, <1>2, <2>2, Elsewhere
    <3>2. Connected(r)' => Connected(r)
      BY <3>1 DEF Connected, gap
    <3> QED
      BY <1>1, <3>1, <3>2, Untouched
  <2> QED
    BY <2>1, <2>2
<1>3. ASSUME NEW p \in PEERS, Deliver(p)
      PROVE  \A r \in PEERS : InPlace(r)'
  <2>1. InPlace(p)'
    BY <1>1, <1>3, DeliverInPlace
  <2>2. ASSUME NEW r \in PEERS \ {p} PROVE InPlace(r)'
    <3>1. /\ UNCHANGED <<gap, link, client, pal_sock, frame_sock>>
          /\ queue'[r] = queue[r]
      BY <1>1, <1>3, <2>2 DEF Deliver, Typed
    <3>2. r \notin peers
      BY <1>1, <1>3, <2>2 DEF Deliver, OnAir
    <3>3. ~Connected(r)'
      BY <3>1, <3>2 DEF Connected, gap
    <3> QED
      BY <1>1, <3>1, <3>3, Untouched
  <2> QED
    BY <2>1, <2>2
<1>4. ASSUME NEW p \in PEERS, PeerConnects(p)
      PROVE  \A r \in PEERS : InPlace(r)'
  <2>1. /\ UNCHANGED <<watch, client, pal_sock, frame_sock, queue>>
        /\ link' = [link EXCEPT ![p] = TRUE]
        /\ ~link[p] /\ peers' = {p}
    BY <1>1, <1>4 DEF PeerConnects, Connect, OnAir
  <2>2. link'[p] = TRUE /\ \A r \in PEERS \ {p} : link'[r] = link[r]
    BY <1>1, <2>1, Zenon DEF Typed, TypeOK
  <2>3. client[p].at = "gone" /\ queue[p] = <<>>
        /\ pal_sock[p] = <<>> /\ frame_sock[p] = 0
    BY <1>1, <2>1 DEF InPlace, Places
  <2>4. InPlace(p)'
    <3>1. Places(p)'
      BY <1>1, <2>1, <2>2, <2>3 DEF InPlace, Places
    <3>2. Rewound(p)' /\ Uploads(p)'
      BY <2>1, <2>3 DEF Rewound, Uploads
    <3>3. Shown(p)'
      BY <2>1, <2>3 DEF Shown
    <3> QED
      BY <3>1, <3>2, <3>3 DEF InPlace
  <2>5. ASSUME NEW r \in PEERS \ {p} PROVE InPlace(r)'
    <3>1. ~Connected(r)' /\ link'[r] = link[r]
      BY <2>1, <2>2, <2>5 DEF Connected
    <3> QED
      BY <1>1, <2>1, <3>1, Untouched
  <2> QED
    BY <2>4, <2>5
<1>5. ASSUME UNCHANGED computer, peers' \subseteq peers,
             peers' # {} => UNCHANGED watch
      PROVE  \A r \in PEERS : InPlace(r)'
  <2>1. ASSUME NEW r \in PEERS PROVE InPlace(r)'
    <3>1. Connected(r)' => Connected(r) /\ UNCHANGED watch
      BY <1>5 DEF Connected, computer
    <3> QED
      BY <1>1, <1>5, <3>1, Untouched DEF computer
  <2> QED
    BY <2>1
<1>6. ASSUME NEW p \in PEERS, PeerDisconnects(p)
      PROVE  \A r \in PEERS : InPlace(r)'
  BY <1>5, <1>6 DEF PeerDisconnects, Disconnect
<1>7. CASE Advertising
  BY <1>5, <1>7 DEF Advertising, OnSync, ConnectFailed, AdvComplete
<1>8. CASE OnReset
  <2>1. UNCHANGED computer /\ peers' = {}
    BY <1>8 DEF OnReset, HostReset, computer
  <2> QED
    BY <1>5, <2>1
<1>9. CASE UNCHANGED vars
  <2>1. UNCHANGED computer /\ UNCHANGED watch /\ peers' = peers
    BY <1>9 DEF vars, gap
  <2> QED
    BY <1>5, <2>1
<1> QED
  BY <1>2, <1>3, <1>4, <1>6, <1>7, <1>8, <1>9 DEF Next, Alone

------------------------------------------------------------------------------
(* The callbacks keep their types. *)
LEMMA GapTyped == GapTypeOK /\ [Next]_vars => GapTypeOK'
<1> SUFFICES ASSUME GapTypeOK, [Next]_vars
             PROVE  GapTypeOK'
  OBVIOUS
<1>1. /\ synced \in BOOLEAN /\ advertising \in BOOLEAN /\ failed \in BOOLEAN
      /\ peers \subseteq PEERS
  BY Zenon DEF GapTypeOK
<1>2. ASSUME UNCHANGED gap PROVE GapTypeOK'
  BY <1>1, <1>2, Zenon DEF gap, GapTypeOK
<1>3. ASSUME NEW p \in PEERS, Connect(p) PROVE GapTypeOK'
  <2>1. peers' \subseteq PEERS
    BY <1>1, <1>3, Zenon DEF Connect
  <2> QED
    BY <1>1, <1>3, <2>1, Zenon DEF Connect, AfterConnect, GapTypeOK
<1>4. ASSUME NEW p \in PEERS, Disconnect(p) PROVE GapTypeOK'
  <2>1. peers' \subseteq PEERS
    BY <1>1, <1>4, Zenon DEF Disconnect
  <2> QED
    BY <1>1, <1>4, <2>1, Zenon
       DEF Disconnect, AfterDisconnect, Advertise, GapTypeOK
<1>5. CASE OnSync \/ ConnectFailed \/ AdvComplete \/ HostReset
  <2>1. peers' \subseteq PEERS
    BY <1>1, <1>5, Zenon DEF OnSync, ConnectFailed, AdvComplete, HostReset
  <2>2. synced' \in BOOLEAN /\ advertising' \in BOOLEAN /\ failed' \in BOOLEAN
    BY <1>1, <1>5, Zenon
       DEF OnSync, ConnectFailed, AdvComplete, HostReset, Advertise
  <2> QED
    BY <2>1, <2>2, Zenon DEF GapTypeOK
<1>6. ASSUME NEW p \in PEERS,
             \/ ClientStart(p) \/ Client(p) \/ ClientEnds(p)
             \/ TakePiece(p) \/ TakePacket(p) \/ CloseSockets(p) \/ LinkLost(p)
             \/ Deliver(p)
      PROVE  GapTypeOK'
  BY <1>2, <1>6 DEF ClientStart, Client, ResetDone, UploadPiece, UploadDone,
     StreamPacket, ClientEnds, TakePiece, TakePacket, CloseSockets, LinkLost,
     Deliver
<1>7. CASE UNCHANGED vars
  BY <1>2, <1>7 DEF vars
<1> QED
  BY <1>3, <1>4, <1>5, <1>6, <1>7 DEF Next, PeerConnects, PeerDisconnects,
     Advertising, OnReset

(* palette_ and its cursor. *)
WatchOK ==
  /\ palette \in [0 .. PAL_SIZE - 1 ->
                    [session : Ids, unit : 0 .. PAL_SIZE - 1]]
  /\ pal_progress \in 0 .. PAL_SIZE - 1

(* Every step keeps the cursor within palette_. *)
LEMMA WatchTyped == Typed /\ [Next]_vars => WatchOK'
<1> SUFFICES ASSUME Typed, [Next]_vars
             PROVE  WatchOK'
  OBVIOUS
<1>1. WatchOK /\ PAL_SIZE \in Nat \ {0}
  BY SessionAssumption DEF Typed, TypeOK, WatchOK
<1>2. ASSUME UNCHANGED watch PROVE WatchOK'
  BY <1>1, <1>2 DEF WatchOK, watch
<1>3. ASSUME UNCHANGED palette, pal_progress' = 0 PROVE WatchOK'
  BY <1>1, <1>3 DEF WatchOK
<1>4. ASSUME NEW p \in PEERS, Deliver(p) PROVE WatchOK'
  <2> DEFINE w == Head(queue[p])
             cur == pal_progress
             room == PAL_SIZE - cur
             size == IF w.size < room THEN w.size ELSE room
  <2>1. w \in Writes
    BY <1>4, Typing, HeadTailProperties DEF Deliver
  <2>2. CASE w.what = "piece"
    <3>1. w \in Pieces
      BY <2>1, <2>2, Kinds DEF Writes
    <3>2. /\ w.session \in Ids /\ w.first \in Nat /\ w.size \in Nat \ {0}
          /\ w.first + w.size <= PAL_SIZE
      BY <3>1, Kinds
    <3>3. /\ palette' = [u \in DOMAIN palette |->
                           IF u \in cur .. cur + size - 1
                           THEN [session |-> w.session,
                                 unit |-> w.first + (u - cur)]
                           ELSE palette[u]]
          /\ pal_progress' = (cur + size) % PAL_SIZE
      BY <1>4, <2>2 DEF Deliver, WritePalette, Advanced
    <3>4. cur \in 0 .. PAL_SIZE - 1
      BY <1>1 DEF WatchOK
    <3> HIDE DEF w, cur
    <3>5. size \in Nat /\ size <= w.size
      BY <1>1, <3>2, <3>4
    <3> HIDE DEF size
    <3>6. ASSUME NEW u \in cur .. cur + size - 1
          PROVE  w.first + (u - cur) \in 0 .. PAL_SIZE - 1
      <4>1. w.first + (u - cur) \in Nat
        BY <3>2, <3>4, <3>5
      <4>2. u - cur < w.size
        BY <3>2, <3>4, <3>5
      <4> QED
        BY <1>1, <3>2, <3>4, <4>1, <4>2
    <3>7. \A u \in cur .. cur + size - 1 :
            [session |-> w.session, unit |-> w.first + (u - cur)]
              \in [session : Ids, unit : 0 .. PAL_SIZE - 1]
      BY <3>2, <3>6, Zenon
    <3>8. \A u \in 0 .. PAL_SIZE - 1 :
            palette[u] \in [session : Ids, unit : 0 .. PAL_SIZE - 1]
      BY <1>1, Zenon DEF WatchOK
    <3>9. DOMAIN palette = 0 .. PAL_SIZE - 1
      BY <1>1, Zenon DEF WatchOK
    <3>10. palette' \in
             [0 .. PAL_SIZE - 1 -> [session : Ids, unit : 0 .. PAL_SIZE - 1]]
      BY <3>3, <3>7, <3>8, <3>9, Zenon
    <3>11. pal_progress' \in 0 .. PAL_SIZE - 1
      <4>1. \A a \in Nat, b \in Nat \ {0} : a % b \in 0 .. b - 1
        BY SMT
      <4>2. cur + size \in Nat
        BY <1>1, <3>4, <3>5
      <4> QED
        BY <1>1, <3>3, <4>1, <4>2
    <3> QED
      BY <3>10, <3>11 DEF WatchOK
  <2>3. CASE w.what # "piece"
    BY <1>2, <1>3, <1>4, <2>3 DEF Deliver, Rewind
  <2> QED
    BY <2>2, <2>3
<1>5. ASSUME NEW p \in PEERS, Alone(p) PROVE WatchOK'
  BY <1>2, <1>5, Elsewhere
<1>6. ASSUME NEW p \in PEERS, PeerConnects(p) \/ PeerDisconnects(p)
      PROVE  WatchOK'
  BY <1>2, <1>6 DEF PeerConnects, PeerDisconnects
<1>7. CASE Advertising
  BY <1>2, <1>7 DEF Advertising
<1>8. CASE OnReset
  BY <1>3, <1>8 DEF OnReset, Rewind
<1>9. CASE UNCHANGED vars
  BY <1>2, <1>9 DEF vars
<1> QED
  BY <1>4, <1>5, <1>6, <1>7, <1>8, <1>9 DEF Next, Alone

Clients == [at : {"gone", "reset", "upload", "stream"}, session : Ids,
            size : 0 .. PAL_SIZE, left : 0 .. PAL_SIZE]

(* The computers: their clients, sockets and queues. *)
ComputerOK ==
  /\ started \in Ids
  /\ link \in [PEERS -> BOOLEAN]
  /\ client \in [PEERS -> Clients]
  /\ frame_sock \in [PEERS -> {0, 1}]
  /\ pal_sock \in [PEERS -> Seq(Pieces)]
  /\ queue \in [PEERS -> Seq(Writes)]
  /\ \A p \in PEERS : Len(pal_sock[p]) <= SOCKET /\ Len(queue[p]) <= QUEUE

(* Every step keeps the computers' types. *)
LEMMA ComputerTyped ==
  ASSUME Typed, \A p \in PEERS : Places(p), [Next]_vars
  PROVE  ComputerOK'
<1>0. /\ PAL_SIZE \in Nat \ {0} /\ PIECE \in Nat \ {0} /\ SESSIONS \in Nat
      /\ SOCKET \in Nat /\ QUEUE \in Nat
      /\ UPLOADS \subseteq 1 .. PAL_SIZE
  BY SessionAssumption
<1>1. ComputerOK
  BY Zenon DEF Typed, TypeOK, ComputerOK, Clients
<1>2. NoClient \in Clients
  <2>1. 0 \in Ids /\ 0 \in 0 .. PAL_SIZE
    BY <1>0 DEF Ids
  <2> QED
    BY <2>1, Zenon DEF NoClient, Clients
<1>3. ASSUME NEW p \in PEERS, ClientStart(p) PROVE ComputerOK'
  <2>1. PICK size \in UPLOADS :
          client' = [client EXCEPT ![p] = [at |-> "reset", session |-> started',
                                           size |-> size, left |-> size]]
    BY <1>3 DEF ClientStart
  <2>2. started' \in Ids
    BY <1>0, <1>1, <1>3 DEF ClientStart, ComputerOK, Ids
  <2>3. size \in 0 .. PAL_SIZE
    BY <1>0
  <2>4. [at |-> "reset", session |-> started', size |-> size, left |-> size]
          \in Clients
    BY <2>2, <2>3, Zenon DEF Clients
  <2>5. client' \in [PEERS -> Clients]
    BY <1>1, <2>1, <2>4, Zenon DEF ComputerOK
  <2>6. ResetRequest \in Writes
    BY DEF Writes
  <2>7. queue[p] \in Seq(Writes) /\ Len(queue[p]) \in Nat
    BY Typing
  <2>8. Append(queue[p], ResetRequest) \in Seq(Writes)
        /\ Len(Append(queue[p], ResetRequest)) = Len(queue[p]) + 1
    BY <2>6, <2>7, AppendProperties
  <2>9. /\ queue' = [queue EXCEPT ![p] = Append(queue[p], ResetRequest)]
        /\ Len(queue[p]) < QUEUE
        /\ UNCHANGED <<link, pal_sock, frame_sock>>
    BY <1>3 DEF ClientStart
  <2>10. Len(Append(queue[p], ResetRequest)) <= QUEUE
    BY <1>0, <2>7, <2>8, <2>9
  <2>11. queue' \in [PEERS -> Seq(Writes)]
         /\ \A r \in PEERS : Len(queue'[r]) <= QUEUE
    BY <1>1, <2>8, <2>9, <2>10, Zenon DEF ComputerOK
  <2> QED
    BY <1>1, <2>2, <2>5, <2>9, <2>11, Zenon DEF ComputerOK
<1>4. ASSUME NEW p \in PEERS, ResetDone(p) \/ UploadDone(p) \/ ClientEnds(p)
      PROVE  ComputerOK'
  <2>1. /\ UNCHANGED <<started, link, pal_sock, frame_sock, queue>>
        /\ \E c \in Clients : client' = [client EXCEPT ![p] = c]
    <3>1. client[p] \in Clients
      BY <1>1, Zenon DEF ComputerOK
    <3>2. /\ [client[p] EXCEPT !.at = "upload"] \in Clients
          /\ [client[p] EXCEPT !.at = "stream"] \in Clients
      BY <3>1 DEF Clients
    <3> QED
      BY <1>2, <1>4, <3>2, Zenon DEF ResetDone, UploadDone, ClientEnds
  <2> QED
    BY <1>1, <2>1, Zenon DEF ComputerOK
<1>5. ASSUME NEW p \in PEERS, UploadPiece(p) PROVE ComputerOK'
  <2> DEFINE c == client[p]
             size == IF c.left < PIECE THEN c.left ELSE PIECE
             w == Piece(c.session, c.size - c.left, size)
             s == pal_sock[p]
  <2>1. /\ UNCHANGED <<started, link, frame_sock, queue>>
        /\ c.left > 0 /\ Len(s) < SOCKET
        /\ pal_sock' = [pal_sock EXCEPT ![p] = Append(s, w)]
        /\ client' = [client EXCEPT ![p] = [c EXCEPT !.left = c.left - size]]
    BY <1>5 DEF UploadPiece, MoreToWrite
  <2>2. /\ c.size \in Nat /\ c.left \in Nat /\ c.left <= c.size
        /\ c.size <= PAL_SIZE /\ c.session \in Ids
        /\ c \in Clients
        /\ s \in Seq(Pieces) /\ Len(s) \in Nat
    BY Typing DEF Places, Clients
  <2>3. size \in Nat \ {0} /\ size <= c.left
    BY <1>0, <2>1, <2>2
  <2>4. w \in Pieces
    <3> DEFINE first == c.size - c.left
    <3>0. c.left > 0
      BY <2>1
    <3> HIDE DEF c, size
    <3>1. /\ first \in 0 .. PAL_SIZE - 1 /\ size \in 1 .. PAL_SIZE
          /\ first + size <= PAL_SIZE
      BY <1>0, <2>2, <2>3, <3>0
    <3>2. w = [what |-> "piece", session |-> c.session, first |-> first,
               size |-> size]
      BY DEF Piece
    <3> HIDE DEF first, w
    <3> QED
      BY <2>2, <3>1, <3>2 DEF Pieces
  <2>5. c.left - size \in 0 .. PAL_SIZE
    BY <1>0, <2>2, <2>3
  <2>6. [c EXCEPT !.left = c.left - size] \in Clients
    BY <2>2, <2>5 DEF Clients
  <2> HIDE DEF c, size, w, s
  <2>7. Append(s, w) \in Seq(Pieces) /\ Len(Append(s, w)) = Len(s) + 1
    BY <2>2, <2>4, AppendProperties
  <2>8. Len(Append(s, w)) <= SOCKET
    BY <1>0, <2>1, <2>2, <2>7
  <2>9. client' \in [PEERS -> Clients]
    BY <1>1, <2>1, <2>6, Zenon DEF ComputerOK
  <2>10. pal_sock' \in [PEERS -> Seq(Pieces)]
         /\ \A r \in PEERS : Len(pal_sock'[r]) <= SOCKET
    BY <1>1, <2>1, <2>7, <2>8, Zenon DEF ComputerOK
  <2> QED
    BY <1>1, <2>1, <2>9, <2>10, Zenon DEF ComputerOK
<1>6. ASSUME NEW p \in PEERS, StreamPacket(p) PROVE ComputerOK'
  BY <1>1, <1>6, Zenon DEF StreamPacket, ComputerOK
<1>7. ASSUME NEW p \in PEERS, TakePiece(p) PROVE ComputerOK'
  <2> DEFINE q == queue[p]
             s == pal_sock[p]
             w == Head(s)
  <2>1. /\ UNCHANGED <<started, link, client, frame_sock>>
        /\ s # <<>> /\ Len(q) < QUEUE
        /\ queue' = [queue EXCEPT ![p] = Append(q, w)]
        /\ pal_sock' = [pal_sock EXCEPT ![p] = Tail(s)]
    BY <1>7 DEF TakePiece
  <2>2. /\ q \in Seq(Writes) /\ s \in Seq(Pieces)
        /\ Len(q) \in Nat /\ Len(s) \in Nat /\ Len(s) <= SOCKET
    BY <1>1, Typing DEF ComputerOK
  <2> HIDE DEF q, s
  <2>3. w \in Pieces /\ Tail(s) \in Seq(Pieces) /\ Len(Tail(s)) = Len(s) - 1
    BY <2>1, <2>2, HeadTailProperties
  <2>4. w \in Writes
    BY <2>3 DEF Writes
  <2> HIDE DEF w
  <2>5. Append(q, w) \in Seq(Writes) /\ Len(Append(q, w)) = Len(q) + 1
    BY <2>2, <2>4, AppendProperties
  <2>6. Len(Append(q, w)) <= QUEUE /\ Len(Tail(s)) <= SOCKET
    BY <1>0, <2>1, <2>2, <2>3, <2>5
  <2>7. queue' \in [PEERS -> Seq(Writes)]
        /\ \A r \in PEERS : Len(queue'[r]) <= QUEUE
    BY <1>1, <2>1, <2>5, <2>6, Zenon DEF ComputerOK
  <2>8. pal_sock' \in [PEERS -> Seq(Pieces)]
        /\ \A r \in PEERS : Len(pal_sock'[r]) <= SOCKET
    BY <1>1, <2>1, <2>3, <2>6, Zenon DEF ComputerOK
  <2> QED
    BY <1>1, <2>1, <2>7, <2>8, Zenon DEF ComputerOK
<1>8. ASSUME NEW p \in PEERS, TakePacket(p) PROVE ComputerOK'
  <2> DEFINE c == client[p]
             q == queue[p]
             w == [what |-> "packet", session |-> c.session,
                   overtook |-> c.at = "gone" \/ pal_sock[p] # <<>>,
                   size |-> c.size]
  <2>1. /\ UNCHANGED <<started, link, client, pal_sock>>
        /\ Len(q) < QUEUE
        /\ queue' = [queue EXCEPT ![p] = Append(q, w)]
        /\ frame_sock' = [frame_sock EXCEPT ![p] = 0]
    BY <1>8 DEF TakePacket
  <2>2. q \in Seq(Writes) /\ Len(q) \in Nat
    BY Typing
  <2>3. w \in Packets
    <3>1. (c.at = "gone" \/ pal_sock[p] # <<>>) \in BOOLEAN
      BY Zenon
    <3>2. c.session \in Ids /\ c.size \in 0 .. PAL_SIZE
      BY Typing
    <3> QED
      BY <3>1, <3>2, Zenon DEF Packets
  <2>4. w \in Writes
    BY <2>3 DEF Writes
  <2> HIDE DEF q, w
  <2>5. Append(q, w) \in Seq(Writes) /\ Len(Append(q, w)) = Len(q) + 1
    BY <2>2, <2>4, AppendProperties
  <2>6. Len(Append(q, w)) <= QUEUE
    BY <1>0, <2>1, <2>2, <2>5
  <2>7. queue' \in [PEERS -> Seq(Writes)]
        /\ \A r \in PEERS : Len(queue'[r]) <= QUEUE
    BY <1>1, <2>1, <2>5, <2>6, Zenon DEF ComputerOK
  <2>8. frame_sock' \in [PEERS -> {0, 1}]
    BY <1>1, <2>1, Zenon DEF ComputerOK
  <2> QED
    BY <1>1, <2>1, <2>7, <2>8, Zenon DEF ComputerOK
<1>9. << >> \in Seq(Pieces) /\ << >> \in Seq(Writes) /\ Len(<< >>) = 0
      /\ 0 <= SOCKET /\ 0 <= QUEUE
  BY <1>0, EmptySeq
<1>10. ASSUME NEW p \in PEERS, CloseSockets(p) PROVE ComputerOK'
  <2>1. pal_sock' \in [PEERS -> Seq(Pieces)]
        /\ \A r \in PEERS : Len(pal_sock'[r]) <= SOCKET
    BY <1>1, <1>9, <1>10 DEF ComputerOK, CloseSockets
  <2>2. frame_sock' \in [PEERS -> {0, 1}]
    BY <1>1, <1>10, Zenon DEF ComputerOK, CloseSockets
  <2> QED
    BY <1>1, <1>10, <2>1, <2>2, Zenon DEF ComputerOK, CloseSockets
<1>11. ASSUME NEW p \in PEERS, LinkLost(p) PROVE ComputerOK'
  <2>1. /\ pal_sock' \in [PEERS -> Seq(Pieces)]
        /\ queue' \in [PEERS -> Seq(Writes)]
        /\ \A r \in PEERS :
             Len(pal_sock'[r]) <= SOCKET /\ Len(queue'[r]) <= QUEUE
    BY <1>1, <1>9, <1>11 DEF ComputerOK, LinkLost
  <2>2. /\ frame_sock' \in [PEERS -> {0, 1}] /\ link' \in [PEERS -> BOOLEAN]
        /\ client' \in [PEERS -> Clients]
    BY <1>1, <1>2, <1>11, Zenon DEF ComputerOK, LinkLost
  <2> QED
    BY <1>1, <1>11, <2>1, <2>2, Zenon DEF ComputerOK, LinkLost
<1>12. ASSUME NEW p \in PEERS, Deliver(p) PROVE ComputerOK'
  <2> DEFINE q == queue[p]
  <2>1. /\ UNCHANGED <<started, link, client, pal_sock, frame_sock>>
        /\ q # <<>>
        /\ queue' = [queue EXCEPT ![p] = Tail(q)]
    BY <1>12 DEF Deliver
  <2>2. q \in Seq(Writes) /\ Len(q) \in Nat /\ Len(q) <= QUEUE
    BY <1>1, Typing DEF ComputerOK
  <2> HIDE DEF q
  <2>3. Tail(q) \in Seq(Writes) /\ Len(Tail(q)) = Len(q) - 1
    BY <2>1, <2>2, HeadTailProperties
  <2>4. Len(Tail(q)) <= QUEUE
    BY <1>0, <2>2, <2>3
  <2>5. queue' \in [PEERS -> Seq(Writes)]
        /\ \A r \in PEERS : Len(queue'[r]) <= QUEUE
    BY <1>1, <2>1, <2>3, <2>4, Zenon DEF ComputerOK
  <2> QED
    BY <1>1, <2>1, <2>5, Zenon DEF ComputerOK
<1>13. ASSUME NEW p \in PEERS, PeerConnects(p) PROVE ComputerOK'
  BY <1>1, <1>13, Zenon DEF ComputerOK, PeerConnects
<1>14. ASSUME UNCHANGED <<started, computer>> PROVE ComputerOK'
  BY <1>1, <1>14, Zenon DEF ComputerOK, computer
<1>15. ASSUME NEW p \in PEERS, PeerDisconnects(p) PROVE ComputerOK'
  BY <1>14, <1>15 DEF PeerDisconnects
<1>16. CASE Advertising \/ OnReset
  BY <1>14, <1>16 DEF Advertising, OnReset
<1>17. CASE UNCHANGED vars
  BY <1>14, <1>17 DEF vars
<1> QED
  BY <1>3, <1>4, <1>5, <1>6, <1>7, <1>8, <1>10, <1>11, <1>12, <1>13, <1>15,
     <1>16, <1>17 DEF Next, Client

(* Typed is these three. *)
LEMMA TypedParts == Typed <=> GapTypeOK /\ WatchOK /\ ComputerOK
  BY Zenon DEF Typed, TypeOK, WatchOK, ComputerOK, Clients

------------------------------------------------------------------------------
(* The invariant holds at first: nobody is connected and nothing is written. *)
LEMMA InvInit == Init => Inv
<1> SUFFICES ASSUME Init PROVE Inv
  OBVIOUS
<1>0. /\ PAL_SIZE \in Nat \ {0} /\ SESSIONS \in Nat
      /\ SOCKET \in Nat /\ QUEUE \in Nat
  BY SessionAssumption
<1>1. OnAir
  BY OnAirInit
<1>2. GapTypeOK
  BY Zenon DEF Init, GapInit, GapTypeOK
<1>3. 0 \in Ids /\ 0 \in 0 .. PAL_SIZE /\ 0 \in 0 .. PAL_SIZE - 1
  BY <1>0 DEF Ids
<1>4. WatchOK
  <2>1. None \in [session : Ids, unit : 0 .. PAL_SIZE - 1]
    BY <1>3, Zenon DEF None
  <2> QED
    BY <1>3, <2>1, Zenon DEF Init, WatchOK
<1>5. ComputerOK
  <2>1. NoClient \in Clients
    BY <1>3, Zenon DEF NoClient, Clients
  <2>2. << >> \in Seq(Pieces) /\ << >> \in Seq(Writes) /\ Len(<< >>) = 0
        /\ 0 <= SOCKET /\ 0 <= QUEUE
    BY <1>0, EmptySeq
  <2>3. pal_sock \in [PEERS -> Seq(Pieces)] /\ queue \in [PEERS -> Seq(Writes)]
        /\ \A p \in PEERS : Len(pal_sock[p]) <= SOCKET /\ Len(queue[p]) <= QUEUE
    BY <2>2 DEF Init
  <2> QED
    BY <1>3, <2>1, <2>3, Zenon DEF Init, ComputerOK
<1>6. ASSUME NEW p \in PEERS PROVE InPlace(p)
  <2>1. ~link[p] /\ client[p] = NoClient /\ queue[p] = <<>>
        /\ pal_sock[p] = <<>> /\ frame_sock[p] = 0
    BY Zenon DEF Init
  <2>2. Places(p)
    BY <2>1 DEF Places, NoClient
  <2> QED
    BY <2>1, <2>2 DEF InPlace, Connected
<1> QED
  BY <1>1, <1>2, <1>4, <1>5, <1>6, TypedParts DEF Inv

(* Every step of the system keeps the invariant. *)
LEMMA InvNext == Inv /\ [Next]_vars => Inv'
<1> SUFFICES ASSUME Inv, [Next]_vars PROVE Inv'
  OBVIOUS
<1>1. OnAir'
  BY OnAirNext DEF Inv
<1>2. GapTypeOK'
  BY GapTyped, TypedParts DEF Inv
<1>3. WatchOK'
  BY WatchTyped DEF Inv
<1>4. ComputerOK'
  BY ComputerTyped DEF Inv, InPlace
<1>5. Typed'
  BY <1>2, <1>3, <1>4, Zenon DEF Typed, TypeOK, GapTypeOK, WatchOK, ComputerOK,
     Clients
<1> QED
  BY <1>1, <1>5, AllInPlace DEF Inv

(* In every state Inv holds. *)
LEMMA Invariance == Spec => []Inv
  BY InvInit, InvNext, PTL DEF Spec

(* Every variable keeps its range, and pal_progress never passes the end of
   palette_, whatever is lost, cut short or started again. *)
THEOREM TypeCorrect == Spec => []TypeOK
<1>1. Inv => TypeOK
  BY DEF Inv, Typed
<1> QED
  BY <1>1, Invariance, PTL

(* When no piece is left to come, everything has landed. *)
LEMMA AllLanded ==
  ASSUME NEW f, NEW n \in Nat, NEW s, NEW to \in Nat,
         Lands(palette, pal_progress, f, n, s, to),
         \A i \in 1 .. n : f[i] \notin Pieces
  PROVE  PalettesOf(s, to)
<1>1. PICK d \in Nat : d <= to /\ Landed(palette, pal_progress, s, d)
                       /\ Coming(f, n, s, d, to)
  BY DEF Lands
<1>2. d = to
  <2>1. ASSUME d < to PROVE FALSE
    <3>1. d \in d .. to - 1
      BY <2>1
    <3> QED
      BY <1>1, <3>1 DEF Coming, Covered
  <2> QED
    BY <1>1, <2>1
<1> QED
  BY <1>1, <1>2 DEF Landed, PalettesOf

(* Once all the pieces of an upload have arrived, the watch has exactly the
   palettes that client sent (display_t::write_palette, transport_t::run), for
   any size of palette_, of the pieces, and any number of computers. *)
THEOREM UploadArrives == Spec => []UploadLands
<1>1. Inv => UploadLands
  <2> SUFFICES ASSUME Inv, NEW p \in PEERS, Connected(p),
                      client[p].at = "stream", pal_sock[p] = <<>>,
                      \A i \in DOMAIN queue[p] : queue[p][i].what # "piece"
               PROVE  PalettesOf(client[p].session, client[p].size)
    BY DEF UploadLands
  <2> DEFINE q == queue[p]
             f == q \o pal_sock[p]
             n == Len(q) + Len(pal_sock[p])
  <2>1. /\ q \in Seq(Writes) /\ pal_sock[p] \in Seq(Pieces)
        /\ Len(q) \in Nat /\ Len(pal_sock[p]) = 0
        /\ client[p].size \in Nat
    BY Typing, EmptySeq DEF Inv
  <2>2. n = Len(q)
    BY <2>1
  <2>3. client[p].size - client[p].left = client[p].size
    BY <2>1 DEF Inv, InPlace, Places
  <2>4. Lands(palette, pal_progress, f, n, client[p].session, client[p].size)
    BY <2>3 DEF Inv, InPlace, Uploads
  <2>5. ASSUME NEW i \in 1 .. n PROVE f[i] \notin Pieces
    <3>1. i \in 1 .. Len(q) /\ i \in DOMAIN q
      BY <2>1, <2>2, LenProperties
    <3>2. f[i] = q[i] /\ q[i].what # "piece"
      BY <2>1, <3>1, Both
    <3> QED
      BY <3>2, Kinds
  <2> HIDE DEF f, n
  <2> QED
    BY <2>1, <2>2, <2>4, <2>5, AllLanded
<1> QED
  BY <1>1, Invariance, PTL

(* A packet that has not overtaken its palettes is converted with them: the
   access callbacks of bt.cpp run in the order BlueZ sends. *)
THEOREM RightlyColoured == Spec => []RightPalettes
<1>1. Inv => RightPalettes
  <2> SUFFICES ASSUME Inv, NEW p \in PEERS, Connected(p), queue[p] # <<>>,
                      Head(queue[p]).what = "packet", ~Head(queue[p]).overtook
               PROVE  PalettesOf(Head(queue[p]).session, Head(queue[p]).size)
    BY DEF RightPalettes
  <2> DEFINE w == Head(queue[p])
  <2>1. queue[p] \in Seq(Writes) /\ w = queue[p][1] /\ 1 \in 1 .. Len(queue[p])
    BY Typing, EmptySeq DEF Inv
  <2>2. w \in Packets
    <3>1. w \in Writes
      BY <2>1, ElementOfSeq
    <3> QED
      BY <3>1, Kinds DEF Writes
  <2>3. w.size \in Nat
    BY <2>2, Kinds, SessionAssumption
  <2>4. Lands(palette, pal_progress, queue[p], 1 - 1, w.session, w.size)
    BY <2>1, <2>2 DEF Inv, InPlace, Shown
  <2>5. Lands(palette, pal_progress, queue[p], 0, w.session, w.size)
    BY <2>4
  <2>6. \A i \in 1 .. 0 : queue[p][i] \notin Pieces
    OBVIOUS
  <2> HIDE DEF w
  <2>7. PalettesOf(w.session, w.size)
    BY <2>3, <2>5, <2>6, AllLanded
  <2> QED
    BY <2>7 DEF w
<1> QED
  BY <1>1, Invariance, PTL
==============================================================================
