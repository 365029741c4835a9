------------------------------ MODULE MCTools ------------------------------
(* The command-line tools and the client two of them share, one at a time.   *)
(* radbench: three requests share one identifier of one socket.              *)
(* load_testing: two workers that run past a quota of two.  pcapreplay:      *)
(* captures of five datagrams, two transactions under any of two             *)
(* identifiers, replayed by two workers.                                     *)
EXTENDS RadBench, LoadTest, RadiusClient, PcapReplay

CONSTANTS t1, t2

VARIABLE tool

ThreeRequests   == 1..3
TwoTransactions == {t1, t2}

allVars == <<benchVars, loadVars, clientVars, replayVars, tool>>

Init ==
    /\ BenchInit /\ LoadInit /\ ClientInit /\ ReplayInit
    /\ tool \in {"radbench", "load_testing", "client", "pcapreplay"}
    /\ tool # "pcapreplay" => keyOf = [t \in TwoTransactions |-> <<1, 1>>]

Bench  == tool = "radbench"     /\ UNCHANGED <<loadVars, clientVars, replayVars, tool>>
Load   == tool = "load_testing" /\ UNCHANGED <<benchVars, clientVars, replayVars, tool>>
Client == tool = "client"       /\ UNCHANGED <<benchVars, loadVars, replayVars, tool>>
Pcap   == tool = "pcapreplay"   /\ UNCHANGED <<benchVars, loadVars, clientVars, tool>>

Next ==
    \/ Bench /\ BenchNext
    \/ Load /\ LoadNext
    \/ Client /\ ClientNext
    \/ Pcap /\ ReplayNext

\* The fairness of the one tool that runs: that of LoadTest and RadiusClient
\* would make the others run too; nothing moves by itself in the rest.
LiveSpec ==
    /\ Init /\ [][Next]_allVars
    /\ BenchFairness /\ ReplayFairness
    /\ \A w \in Workers : WF_allVars(Load /\ Advance(w)) /\ WF_allVars(Load /\ Returns(w))
    /\ WF_allVars(Client /\ Deadline) /\ WF_allVars(Client /\ Reader) /\ WF_allVars(Client /\ Resender)
    /\ SF_allVars(Client /\ PickDone)

\* Every tool comes to its end: identifiers return (radbench/main.go:94-130), a
\* stopped test ends (load_testing/main.go:212-226), a silent server ends an
\* exchange (client.go:79-107), and the replay is through with every pair
\* (pcapreplay/main.go:262-283).
ToolsEnd == IdentifiersReturn /\ StopEnds /\ ExchangeReturns /\ ReplayEnds
=============================================================================
