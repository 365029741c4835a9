---------------------------- MODULE MCAPIBackend ----------------------------
(* Two sources and two requests of one device at a time.                    *)
EXTENDS APIBackend

CONSTANTS s1, s2, r1, r2
=============================================================================
