-------------------------- MODULE MCRedbackPacket --------------------------
(* Every attribute of the dictionary in one operation, one attribute of each *)
(* encoding in three; and received packets.                                  *)
EXTENDS RedbackPacket

Filler(n) == [i \in 1..n |-> 200]

OneOfEachKind == {ClientDNSPri, AgentCircuitID, TunnelHelloTimer, ServiceName}
OptionOnly    == {AgentRemoteID, AgentCircuitID}

ShortAndLong == {[attributes |-> Dictionary, ops |-> 1], [attributes |-> OneOfEachKind, ops |-> 3]}

EdgeStrings == {Filler(0), Filler(247), Filler(248)}
EdgeNumbers == {<<0, 0, 0, 7>>, <<40, 0, 0, 7>>}

\* One attribute of any bytes up to length seven, alone or next to another one.
SomeBytes == {2, 3, 4, 96}
Data(n)   == UNION {[1..k -> SomeBytes] : k \in 0..n}
Vsa(v, d) == [vendor |-> v, data |-> d]
Neighbour == {Vsa(Redback, <<96, 3, 7>>), Vsa(Unknown, <<96, 3, 7>>), Vsa(Redback, << >>)}
AnyBytes  == {<<Vsa(Redback, d)>> : d \in Data(7)}
                \cup {<<n, Vsa(v, d)>> : n \in Neighbour, v \in {Redback, Unknown}, d \in Data(4)}
                \cup {<<Vsa(v, d), n>> : n \in Neighbour, v \in {Redback, Unknown}, d \in Data(4)}
=============================================================================
