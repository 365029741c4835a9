---------------------------- MODULE MCProcessor ----------------------------
(* One phase of a processor at a time.  "api": bursts of four events into a  *)
(* queue of two that two workers post to two addresses.  "auth": three       *)
(* requests on two Lua states.  "script": the same bursts, each event a call *)
(* of one of two workers on two states.                                      *)
EXTENDS ScriptProcessor

CONSTANTS e1, e2, e3, e4, c1, c2, c3, s1, s2

VARIABLE part

MCEvents  == {e1, e2, e3, e4}
MCWorkers == {c1, c2}

Init ==
    /\ QueueInit /\ EngineInit /\ part \in {"api", "auth", "script"}
    /\ addresses = IF part = "script" THEN 1 ELSE 2

Next ==
    /\ \/ part = "api" /\ QueueNext /\ UNCHANGED engineVars
       \/ part = "auth" /\ EngineNext /\ UNCHANGED queueVars
       \/ part = "script" /\ PhaseNext
    /\ UNCHANGED part

allVars == <<phaseVars, part>>

\* Of the queue's own fairness only the API's phase is given anything: in the
\* script's a worker goes on when its call has ended.
LiveSpec ==
    /\ Init /\ [][Next]_allVars
    /\ EngineFairness
    /\ \A w \in Workers :
          /\ WF_allVars(part = "api" /\ (Take(w) \/ Post(w)) /\ UNCHANGED <<engineVars, part>>)
          /\ WF_allVars(part = "script" /\ (Work(w) \/ Done(w)) /\ UNCHANGED part)
=============================================================================
