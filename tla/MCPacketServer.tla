--------------------------- MODULE MCPacketServer ---------------------------
(* A request, its retransmission (or another request under its identifier)  *)
(* and a datagram of another device, authentic or not.                      *)
EXTENDS PacketServer, TLC

CONSTANTS sent, again, other, r1, r2, k1, k2

MCDatagrams == {sent, again, other}
MCKeys      == {k1, k2}
MCKeyOf     == (sent :> k1) @@ (again :> k1) @@ (other :> k2)
=============================================================================
