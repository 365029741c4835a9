-------------------------- MODULE MCRadiusExchange --------------------------
(* A session and its accounting, from a NAS that uses one identifier for     *)
(* both: the listener is the same, and so is the key of their requests.      *)
EXTENDS RadiusExchange, TLC

CONSTANTS x, ax, k1

Grant(ip, pool) == [kind |-> "response", ip |-> ip, pool |-> pool]
Refusal(kind)   == [kind |-> kind, ip |-> "", pool |-> ""]

\* An address, a pool of too long a name, nothing to give (INVALID), no answer.
Verdicts ==
    {Grant("valid", "valid"), Grant("", "tooLong"), Grant("", ""), Refusal("ERROR")}
EveryOutcome == Answers \cup Errors

NoAcct     == << >>
AcctOfX    == ax :> x
OneSession == x :> k1
SharedKey  == (x :> k1) @@ (ax :> k1)
=============================================================================
