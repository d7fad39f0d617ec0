--------------------------- MODULE MCPacketQueue ---------------------------
(* PacketQueue on small instances; the configurations name the cursors.    *)
EXTENDS PacketQueue
=============================================================================
