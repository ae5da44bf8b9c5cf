------------------------------- MODULE MCClient -------------------------------
(* The instances of Client that TLC checks, and the mapping under which it     *)
(* implements Register.                                                       *)
EXTENDS Client

Channel == INSTANCE Register WITH latest <- pushed, ended <- why

(* frame_buffer_t and transport_t, with their stack, their mutex, the frame in
   pkts_ and the index into it, are a register that the newest frame overwrites:
   whatever the two threads do between each other's steps, whole frames go out,
   each the newest when it is begun, and none after the end.                  *)
ImplementsRegister == Channel!Safety
==============================================================================
