----------------------------- MODULE PcapReplay -----------------------------
(***************************************************************************)
(* tools/pcapreplay/main.go: the requests and answers of a capture are     *)
(* matched by address and identifier, first come first served; then        *)
(* workers send every matched request to the server under test and report  *)
(* how its answer compares.                                                *)
(***************************************************************************)
EXTENDS Naturals, Sequences, FiniteSets, FiniteSetsExt

CONSTANTS
    Transactions,   \* what the NAS asked, each by one or more datagrams
    Clients, Identifiers,   \* addresses of NASes, identifiers
    Datagrams,      \* bound: datagrams of the capture
    Replayers,      \* -workers
    NoJob           \* a worker without one

ASSUME ReplaySizesAssumption == Datagrams \in Nat /\ Replayers # {} /\ IsFiniteSet(Replayers)
ASSUME ReplayKeysAssumption  == Identifiers # {} /\ Identifiers \subseteq Nat /\ NoJob \notin Nat

ReqKey == Clients \X Identifiers

VARIABLES
    keyOf,          \* per transaction its address and identifier
    length,         \* datagrams read so far
    requests,       \* history, per key: the transactions whose requests were captured
    responses,      \* history, per key: the number of answers captured
    strayed,        \* history: keys with an answer that was not the next one due
    queues,         \* per key, the requests that wait for their answer
    pairs,          \* matched: [req, real]
    phase,          \* "match", "replay", "report"
    jobs,           \* the pairs handed out so far; the channel has no buffer
    busy,           \* per worker, the pair it replays
    out, results,   \* the pairs whose result is in the channel, and was taken from it
    outClosed

captureVars == <<keyOf, length, requests, responses, strayed, queues, pairs>>
poolVars    == <<jobs, busy, out, results, outClosed>>
replayVars  == <<captureVars, phase, poolVars>>

ReplayInit ==
    /\ keyOf \in [Transactions -> ReqKey]
    /\ length = 0
    /\ requests = [k \in ReqKey |-> << >>] /\ responses = [k \in ReqKey |-> 0] /\ strayed = {}
    /\ queues = [k \in ReqKey |-> << >>] /\ pairs = << >>
    /\ phase = "match"
    /\ jobs = 0 /\ busy = [w \in Replayers |-> NoJob]
    /\ out = {} /\ results = << >> /\ outClosed = FALSE

-----------------------------------------------------------------------------
(* matchPairs *)

\* Mutant of Key: requests of one client are told apart by their order alone.
Key_WithoutID(t) == <<keyOf[t][1], Min(Identifiers)>>

\* The answer's addresses are swapped to find its request's key.
Key(t) == keyOf[t]

InCapture == phase = "match" /\ length < Datagrams /\ length' = length + 1

Request(t) ==
    /\ InCapture
    /\ requests' = [requests EXCEPT ![keyOf[t]] = Append(@, t)]
    /\ queues' = [queues EXCEPT ![Key(t)] = Append(@, t)]
    /\ UNCHANGED <<keyOf, responses, strayed, pairs, phase, poolVars>>

\* An answer whose key has no request waiting is skipped.
Response(t) ==
    LET q == queues[Key(t)]
        k == keyOf[t]
        n == responses[k] + 1
    IN  /\ InCapture
        /\ responses' = [responses EXCEPT ![k] = n]
        /\ strayed' = IF n \in DOMAIN requests[k] /\ requests[k][n] = t THEN strayed ELSE strayed \cup {k}
        /\ IF q = << >>
           THEN UNCHANGED <<queues, pairs>>
           ELSE /\ pairs' = Append(pairs, [req |-> Head(q), real |-> t])
                /\ queues' = [queues EXCEPT ![Key(t)] = Tail(q)]
        /\ UNCHANGED <<keyOf, requests, phase, poolVars>>

\* The capture ends, and -limit may shorten it; a dry run stops here, and
\* without a pair there is nothing to replay.
Matched ==
    /\ phase = "match" /\ pairs # << >>
    /\ \E limit \in 1..Len(pairs) : pairs' = SubSeq(pairs, 1, limit)
    /\ phase' = "replay"
    /\ UNCHANGED <<keyOf, length, requests, responses, strayed, queues, poolVars>>

-----------------------------------------------------------------------------
(* replay *)

\* Mutant of Hand: the loop runs past the last pair.
Hand_OneMore(w) ==
    /\ phase = "replay" /\ busy[w] = NoJob /\ jobs <= Len(pairs)
    /\ jobs' = jobs + 1
    /\ busy' = [busy EXCEPT ![w] = jobs + 1]
    /\ UNCHANGED <<captureVars, phase, out, results, outClosed>>

\* The feeder hands a pair to a worker that waits for one.
Hand(w) ==
    /\ phase = "replay" /\ busy[w] = NoJob /\ jobs < Len(pairs)
    /\ jobs' = jobs + 1
    /\ busy' = [busy EXCEPT ![w] = jobs + 1]
    /\ UNCHANGED <<captureVars, phase, out, results, outClosed>>

\* The exchange returns, if only at its deadline; out has room for every pair.
Work(w) ==
    /\ busy[w] # NoJob
    /\ out' = out \cup {busy[w]}
    /\ busy' = [busy EXCEPT ![w] = NoJob]
    /\ UNCHANGED <<captureVars, phase, jobs, results, outClosed>>

\* Mutant of CloseOut: out is closed with the channel of the jobs.
CloseOut_WithJobs ==
    /\ phase = "replay" /\ ~outClosed /\ jobs = Len(pairs)
    /\ outClosed' = TRUE
    /\ UNCHANGED <<captureVars, phase, jobs, busy, out, results>>

\* Mutant of CloseOut: the channel of the jobs stays open, so workers wait for more.
CloseOut_JobsOpen ==
    /\ phase = "replay" /\ ~outClosed /\ Replayers = {}
    /\ outClosed' = TRUE
    /\ UNCHANGED <<captureVars, phase, jobs, busy, out, results>>

\* wg.Wait: jobs is closed, and every worker has left its loop over it.
CloseOut ==
    /\ phase = "replay" /\ ~outClosed
    /\ jobs = Len(pairs) /\ \A w \in Replayers : busy[w] = NoJob
    /\ outClosed' = TRUE
    /\ UNCHANGED <<captureVars, phase, jobs, busy, out, results>>

Collect(i) ==
    /\ phase = "replay" /\ i \in out
    /\ out' = out \ {i}
    /\ results' = Append(results, i)
    /\ UNCHANGED <<captureVars, phase, jobs, busy, outClosed>>

Report ==
    /\ phase = "replay" /\ outClosed /\ out = {}
    /\ phase' = "report"
    /\ UNCHANGED <<captureVars, poolVars>>

-----------------------------------------------------------------------------
Replay ==
    \/ \E w \in Replayers : Hand(w) \/ Work(w)
    \/ \E i \in 1..Len(pairs) : Collect(i)
    \/ CloseOut \/ Report

ReplayNext ==
    \/ \E t \in Transactions : Request(t) \/ Response(t)
    \/ Matched \/ Replay

ReplaySpec == ReplayInit /\ [][ReplayNext]_replayVars

\* Exchanges return (ExchangeReturns of RadiusClient) and goroutines go on.
ReplayFairness == WF_replayVars(Replay)

ReplayTypeOK ==
    /\ keyOf \in [Transactions -> ReqKey]
    /\ length \in 0..Datagrams
    /\ requests \in [ReqKey -> Seq(Transactions)] /\ responses \in [ReqKey -> 0..Datagrams]
    /\ strayed \subseteq ReqKey
    /\ queues \in [ReqKey -> Seq(Transactions)]
    /\ pairs \in Seq([req : Transactions, real : Transactions])
    /\ phase \in {"match", "replay", "report"} /\ outClosed \in BOOLEAN
    /\ jobs \in 0..Len(pairs) /\ busy \in [Replayers -> 1..Len(pairs) \cup {NoJob}]
    /\ out \subseteq 1..Len(pairs) /\ results \in Seq(1..Len(pairs))

\* Where the capture holds the answers of an identifier in the order of its
\* requests, every answer is compared with its own request, whatever the other
\* identifiers do (main.go:32-39, 130-144).
PairedWithOwn ==
    \A i \in DOMAIN pairs : keyOf[pairs[i].real] \notin strayed => pairs[i].req = pairs[i].real

\* The report holds one result for each pair, the timeouts included
\* (main.go:214-217, 261-283).
OneResultPerPair ==
    phase = "report" =>
        /\ Len(results) = Len(pairs)
        /\ \A i \in 1..Len(pairs) : \E j \in DOMAIN results : results[j] = i

\* Why: the queue of a key that has not strayed holds the requests its answers
\* have not come to, and no answer is matched under another key (main.go:122-146).
InTurn(k) ==
    /\ responses[k] <= length
    /\ \A i \in DOMAIN queues[k] : keyOf[queues[k][i]] = k
    /\ k \notin strayed =>
          /\ Len(queues[k]) = Len(requests[k]) - responses[k]
          /\ \A i \in DOMAIN queues[k] : queues[k][i] = requests[k][responses[k] + i]

MatchedInTurn ==
    /\ \A k \in ReqKey : InTurn(k)
    /\ \A i \in DOMAIN pairs : keyOf[pairs[i].req] = keyOf[pairs[i].real]

\* A pair that was handed out is with one worker, in the channel or in the
\* report, once; the channel is closed when no worker holds one.
Replaying(i) == \E w \in Replayers : busy[w] = i
Collected(i) == \E j \in DOMAIN results : results[j] = i

PairsInOnePlace ==
    /\ \A i \in 1..Len(pairs) :
          /\ i <= jobs <=> Replaying(i) \/ i \in out \/ Collected(i)
          /\ i \in out => ~Replaying(i)
          /\ Collected(i) => i \notin out /\ ~Replaying(i)
    /\ \A v, w \in Replayers : busy[v] = busy[w] /\ busy[v] # NoJob => v = w
    /\ \A i, j \in DOMAIN results : results[i] = results[j] => i = j
    /\ phase = "match" => jobs = 0 /\ ~outClosed
    /\ outClosed => jobs = Len(pairs) /\ \A w \in Replayers : busy[w] = NoJob
    /\ phase = "report" => outClosed /\ out = {}

\* The comparison is of answers to one request, one for each that was matched.
ReplayInv == ReplayTypeOK /\ PairedWithOwn /\ MatchedInTurn /\ OneResultPerPair /\ PairsInOnePlace

\* The replay ends, whatever servers answer and workers wait (main.go:262-283).
ReplayEnds == phase = "replay" ~> phase = "report"
=============================================================================
