--------------------------- MODULE MCUdpTransport ---------------------------
(* Bodies of two bytes and a number of packets that wraps at four. *)
EXTENDS UdpTransport

MCUuid == <<"a", "b">>

(* One, two and three packets, the last one not full. *)
MCSize == [m \in 1 .. 3 |-> 2 * m - 1]

(* A message of exactly two bodies. *)
FullSize == [m \in {1} |-> 4]
=============================================================================
