-------------------------- MODULE MCPacketReceive ---------------------------
(* An instance of PacketReceive for TLC. *)
EXTENDS PacketReceive

CONSTANT MaxStream   \* bound: the longest stream

MCStreams == UNION {[1..n -> Bytes] : n \in 0..MaxStream}
=============================================================================
