------------------------------ MODULE MCPackets ------------------------------
(* The instance of Packets that TLC checks: the real sizes, and windows in two
   corners of the frame, between them, and one pixel too far either way.     *)
EXTENDS Packets

Windows == {0, 112, 224} \X {0, 152} \union {<<225, 0>>, <<0, 153>>, <<-1, 0>>,
                                            <<0, -1>>}
==============================================================================
