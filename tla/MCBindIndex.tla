---------------------------- MODULE MCBindIndex ----------------------------
(* Three records that may share MACs, devices and ports, so that every     *)
(* bucket can hold zero to three binds and lose any of them.               *)
EXTENDS BindIndex

CONSTANTS i1, i2, i3, m1, m2, d1, a1

MCIDs        == {i1, i2, i3}
MCIPs        == {a1}
MCMacs       == {m1, m2}
MCDeviceMacs == {d1}
MCPorts      == {0, 7}
=============================================================================
