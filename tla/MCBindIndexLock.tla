-------------------------- MODULE MCBindIndexLock --------------------------
(* Two writers and one reader.  Two records share a device port, and the first
may also move to a bind without device, so that one update takes it out of   
three maps.                                                               *)
EXTENDS BindIndexLock

CONSTANTS i1, i2, m1, d1, a1, sub, reload, lua1

MCIDs        == {i1, i2}
MCIPs        == {a1}
MCMacs       == {m1}
MCDeviceMacs == {d1}
MCPorts      == {7}
MCWriters    == {sub, reload}
MCReaders    == {lua1}

OnPort(i) == [id |-> i, ip |-> a1, mac |-> m1, device |-> d1, port |-> 7]
Moved     == [OnPort(i1) EXCEPT !.device = NoMac]

MCLiveBinds == {OnPort(i1), OnPort(i2), Moved}
MCLookups   == {[mac |-> m1, device |-> NoMac, port |-> NoPort],
                [mac |-> NoMac, device |-> d1, port |-> 7]}
=============================================================================
