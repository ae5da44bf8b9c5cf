-------------------------------- MODULE Gatt --------------------------------
(***************************************************************************)
(* When the watch can be found and who is connected to it: the callbacks   *)
(* bt_t gives the NimBLE host (apps/doomtime/src/bt.cpp).  The host and    *)
(* its controller are external: they report that they are in sync, that a  *)
(* connection came or went, that advertising ended, that they were reset.  *)
(* A report and the callback it runs are one step, both are the host task. *)
(*                                                                         *)
(* The other events only log, or look up the connection they are about.    *)
(***************************************************************************)
EXTENDS Integers, FiniteSets

CONSTANT PEERS          \* the computers in reach

VARIABLES
  synced,               \* the host and its controller are in sync
  advertising,
  peers,                \* the computers connected
  failed                \* an assert has failed: the firmware has stopped

gap == <<synced, advertising, peers, failed>>

(* bt_t::advertise asserts that advertising could be started: the host is not
   advertising `already'.                                                    *)
Advertise(already) ==
  /\ advertising' = TRUE
  /\ failed' = (failed \/ already)

OnSync ==               \* bt_t::on_sync
  /\ ~synced
  /\ synced' = TRUE
  /\ Advertise(advertising)
  /\ UNCHANGED peers

(* BLE_GAP_EVENT_CONNECT, status 0: the controller has stopped advertising, and
   the callback only asks for a PHY.                                          *)
AfterConnect_advertises == Advertise(FALSE)
AfterConnect == advertising' = FALSE /\ UNCHANGED failed

Connect(p) ==
  /\ advertising /\ ~failed
  /\ peers' = peers \union {p}
  /\ AfterConnect
  /\ UNCHANGED synced

ConnectFailed ==        \* BLE_GAP_EVENT_CONNECT, any other status
  /\ advertising /\ ~failed
  /\ Advertise(FALSE)
  /\ UNCHANGED <<synced, peers>>

AfterDisconnect_silent == UNCHANGED <<advertising, failed>>
AfterDisconnect == Advertise(advertising)

Disconnect(p) ==        \* BLE_GAP_EVENT_DISCONNECT
  /\ p \in peers /\ ~failed
  /\ peers' = peers \ {p}
  /\ AfterDisconnect
  /\ UNCHANGED synced

AdvComplete ==          \* BLE_GAP_EVENT_ADV_COMPLETE
  /\ advertising /\ ~failed
  /\ Advertise(FALSE)
  /\ UNCHANGED <<synced, peers>>

(* The host has been reset, and with it whatever it did.  That it reports no
   disconnection of its own before bt_t::s_on_reset is assumed.              *)
HostReset ==
  /\ synced /\ ~failed
  /\ synced' = FALSE
  /\ advertising' = FALSE
  /\ peers' = {}
  /\ UNCHANGED failed

GapInit == synced = FALSE /\ advertising = FALSE /\ peers = {} /\ failed = FALSE

GapTypeOK == /\ {synced, advertising, failed} \subseteq BOOLEAN
             /\ peers \subseteq PEERS

(* One computer at a time: the firmware keeps one cursor into the palettes, one
   column counter and one reset flag, none of them per connection.  Nothing but
   the silence of on_gap_event after a connection sees to that; and advertise,
   which asserts, is never called while advertising is on.                    *)
OneClient == Cardinality(peers) <= 1 /\ ~failed

(* The watch can be found whenever nobody is connected to it. *)
Findable == synced /\ peers = {} => advertising
==============================================================================
