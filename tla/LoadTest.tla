------------------------------ MODULE LoadTest ------------------------------
(***************************************************************************)
(* load_testing/main.go: workers that exchange one packet after the other  *)
(* until enough are counted or the test is stopped, and the statistics     *)
(* they keep without a lock: counters by atomic additions, the extremes    *)
(* of the latency by compare-and-swap loops.                               *)
(***************************************************************************)
EXTENDS Naturals, FiniteSets, FiniteSetsExt

CONSTANTS
    Workers,        \* -concurrency
    ByCount,        \* no -duration: the test ends by -c
    Paced,          \* -rps: a ticker holds the workers back
    Quota,          \* -c
    Latencies,      \* in nanoseconds
    MaxRequests     \* bound: requests begun in all

ASSUME WorkersAssumption == IsFiniteSet(Workers) /\ Workers # {}
ASSUME QuotaAssumption   == Quota \in Nat \ {0} /\ MaxRequests \in Nat /\ {ByCount, Paced} \subseteq BOOLEAN
ASSUME LatencyAssumption == Latencies \subseteq Nat \ {0}

Reasons == {"timeout", "network", "badResponse"}

VARIABLES
    stopped,        \* the context is cancelled: a signal, the end of -duration
    worker,         \* per worker: [pc, result, n, seen], n its latency, seen what it loaded
    total, success, failed, reasons, cancelled,
    minNanos, maxNanos,
    begun,          \* requests let through and not given up
    latencies       \* history: the latencies recorded in full

counters == <<total, success, failed, reasons, cancelled>>
loadVars == <<stopped, worker, counters, minNanos, maxNanos, begun, latencies>>

LoadInit ==
    /\ stopped = FALSE
    /\ worker = [w \in Workers |-> [pc |-> "check", result |-> "none", n |-> 0, seen |-> 0]]
    /\ total = 0 /\ success = 0 /\ failed = 0 /\ cancelled = 0
    /\ reasons = [x \in Reasons |-> 0]
    /\ minNanos = 0 /\ maxNanos = 0
    /\ begun = 0 /\ latencies = {}

At(w, pc)   == worker[w].pc = pc
Goto(w, pc) == worker' = [worker EXCEPT ![w].pc = pc]

-----------------------------------------------------------------------------
Stop ==
    /\ ~stopped
    /\ stopped' = TRUE
    /\ UNCHANGED <<worker, counters, minNanos, maxNanos, begun, latencies>>

\* Mutant of Check: the quota is not looked at.
Check_IgnoresQuota(w) ==
    /\ At(w, "check")
    /\ IF stopped THEN Goto(w, "done") /\ UNCHANGED begun
       ELSE begun < MaxRequests /\ begun' = begun + 1 /\ Goto(w, "tick")
    /\ UNCHANGED <<stopped, counters, minNanos, maxNanos, latencies>>

\* Mutant of Check: only the quota ends a worker.
Check_IgnoresStop(w) ==
    /\ At(w, "check")
    /\ IF ByCount /\ total >= Quota
       THEN Goto(w, "done") /\ UNCHANGED begun
       ELSE begun < MaxRequests /\ begun' = begun + 1 /\ Goto(w, "tick")
    /\ UNCHANGED <<stopped, counters, minNanos, maxNanos, latencies>>

\* The head of the loop: what is in flight does not count.
Check(w) ==
    /\ At(w, "check")
    /\ IF stopped \/ (ByCount /\ total >= Quota)
       THEN Goto(w, "done") /\ UNCHANGED begun
       ELSE begun < MaxRequests /\ begun' = begun + 1 /\ Goto(w, "tick")
    /\ UNCHANGED <<stopped, counters, minNanos, maxNanos, latencies>>

\* The wait for the ticker: it ends with the context as well, and then nothing
\* is sent; when both are there the select takes either.
AwaitTick(w) ==
    /\ At(w, "tick")
    /\ \/ Goto(w, "exchange") /\ UNCHANGED begun
       \/ Paced /\ stopped /\ Goto(w, "done") /\ begun' = begun - 1
    /\ UNCHANGED <<stopped, counters, minNanos, maxNanos, latencies>>

\* Exchange returns and its result is classified.
Exchange(w, result, n) ==
    /\ At(w, "exchange")
    /\ result = "cancelled" => stopped
    /\ worker' = [worker EXCEPT ![w] = [pc |-> IF result = "cancelled" THEN "cancel" ELSE "total",
                                        result |-> result, n |-> n, seen |-> 0]]
    /\ UNCHANGED <<stopped, counters, minNanos, maxNanos, begun, latencies>>

\* record, one atomic operation after the other.
Cancelled(w) ==
    /\ At(w, "cancel")
    /\ cancelled' = cancelled + 1
    /\ Goto(w, "check")
    /\ UNCHANGED <<stopped, total, success, failed, reasons, minNanos, maxNanos, begun, latencies>>

\* Mutant of Total: the addition is done on both sides of the classification.
Total_Twice(w) ==
    /\ At(w, "total")
    /\ total' = total + 2
    /\ Goto(w, "verdict")
    /\ UNCHANGED <<stopped, success, failed, reasons, cancelled, minNanos, maxNanos, begun, latencies>>

Total(w) ==
    /\ At(w, "total")
    /\ total' = total + 1
    /\ Goto(w, "verdict")
    /\ UNCHANGED <<stopped, success, failed, reasons, cancelled, minNanos, maxNanos, begun, latencies>>

Verdict(w) ==
    /\ At(w, "verdict")
    /\ IF worker[w].result = "success"
       THEN success' = success + 1 /\ Goto(w, "loadMax") /\ UNCHANGED failed
       ELSE failed' = failed + 1 /\ Goto(w, "reason") /\ UNCHANGED success
    /\ UNCHANGED <<stopped, total, reasons, cancelled, minNanos, maxNanos, begun, latencies>>

\* Mutant of Reason: the case of a bad response is missing.
Reason_NoBadResponse(w) ==
    /\ At(w, "reason")
    /\ reasons' = IF worker[w].result = "badResponse" THEN reasons
                  ELSE [reasons EXCEPT ![worker[w].result] = @ + 1]
    /\ Goto(w, "loadMax")
    /\ UNCHANGED <<stopped, total, success, failed, cancelled, minNanos, maxNanos, begun, latencies>>

Reason(w) ==
    /\ At(w, "reason")
    /\ reasons' = [reasons EXCEPT ![worker[w].result] = @ + 1]
    /\ Goto(w, "loadMax")
    /\ UNCHANGED <<stopped, total, success, failed, cancelled, minNanos, maxNanos, begun, latencies>>

LoadMax(w) ==
    /\ At(w, "loadMax")
    /\ worker' = [worker EXCEPT ![w].seen = maxNanos,
                                ![w].pc = IF worker[w].n <= maxNanos THEN "loadMin" ELSE "swapMax"]
    /\ UNCHANGED <<stopped, counters, minNanos, maxNanos, begun, latencies>>

SwapMax(w) ==
    /\ At(w, "swapMax")
    /\ IF maxNanos = worker[w].seen
       THEN maxNanos' = worker[w].n /\ Goto(w, "loadMin")
       ELSE Goto(w, "loadMax") /\ UNCHANGED maxNanos
    /\ UNCHANGED <<stopped, counters, minNanos, begun, latencies>>

\* Zero means that there is no minimum yet.
LoadMin(w) ==
    /\ At(w, "loadMin")
    /\ LET settled == minNanos # 0 /\ worker[w].n >= minNanos IN
       /\ worker' = [worker EXCEPT ![w].seen = minNanos, ![w].pc = IF settled THEN "check" ELSE "swapMin"]
       /\ latencies' = IF settled THEN latencies \cup {worker[w].n} ELSE latencies
    /\ UNCHANGED <<stopped, counters, minNanos, maxNanos, begun>>

\* Mutant of SwapMin: a plain store in place of the compare-and-swap.
SwapMin_Stores(w) ==
    /\ At(w, "swapMin")
    /\ minNanos' = worker[w].n /\ latencies' = latencies \cup {worker[w].n}
    /\ Goto(w, "check")
    /\ UNCHANGED <<stopped, counters, maxNanos, begun>>

SwapMin(w) ==
    /\ At(w, "swapMin")
    /\ IF minNanos = worker[w].seen
       THEN minNanos' = worker[w].n /\ latencies' = latencies \cup {worker[w].n} /\ Goto(w, "check")
       ELSE Goto(w, "loadMin") /\ UNCHANGED <<minNanos, latencies>>
    /\ UNCHANGED <<stopped, counters, maxNanos, begun>>

-----------------------------------------------------------------------------
Record(w) ==
    \/ Cancelled(w) \/ Total(w) \/ Verdict(w) \/ Reason(w)
    \/ LoadMax(w) \/ SwapMax(w) \/ LoadMin(w) \/ SwapMin(w)

Returns(w) == \E result \in {"success", "cancelled"} \cup Reasons, n \in Latencies : Exchange(w, result, n)

LoadNext == Stop \/ \E w \in Workers : Check(w) \/ AwaitTick(w) \/ Returns(w) \/ Record(w)

LoadSpec == LoadInit /\ [][LoadNext]_loadVars

\* Goroutines that can go on are scheduled, the ticker ticks and every exchange
\* ends by -timeout.
Advance(w) == Check(w) \/ AwaitTick(w) \/ Record(w)

LoadFairness == \A w \in Workers : WF_loadVars(Advance(w)) /\ WF_loadVars(Returns(w))

-----------------------------------------------------------------------------
LoadTypeOK ==
    /\ stopped \in BOOLEAN
    /\ worker \in [Workers -> [pc : {"check", "tick", "exchange", "cancel", "total", "verdict", "reason", "loadMax",
                                     "swapMax", "loadMin", "swapMin", "done"},
                               result : {"none", "success", "cancelled"} \cup Reasons,
                               n : Latencies \cup {0}, seen : Latencies \cup {0}]]
    /\ begun \in 0..MaxRequests
    /\ {total, success, failed, cancelled} \subseteq 0..begun
    /\ reasons \in [Reasons -> 0..begun]
    /\ {minNanos, maxNanos} \subseteq Latencies \cup {0} /\ latencies \subseteq Latencies

\* The workers that are between two counters.
Between(pc) == Cardinality({w \in Workers : At(w, pc)})

\* The lines of the report add up: total is success and failed, failed is its
\* reasons, off only by what workers are about to add, and a request the end
\* of the test cut off is none of them (main.go:106-121, 150-168).
CountersAddUp ==
    /\ total = success + failed + Between("verdict")
    /\ failed = Between("reason") + reasons["timeout"] + reasons["network"] + reasons["badResponse"]
    /\ begun = total + cancelled + Between("tick") + Between("exchange") + Between("cancel") + Between("total")

\* What record is told of a request, while it adds it up.
Recorded(w) == worker[w].pc \in {"cancel", "total", "verdict", "reason", "loadMax", "swapMax", "loadMin", "swapMin"}

OutcomesKnown ==
    \A w \in Workers :
        /\ Recorded(w) => worker[w].n # 0
        /\ worker[w].pc \in {"total", "verdict"} => worker[w].result \in {"success"} \cup Reasons
        /\ At(w, "reason") => worker[w].result \in Reasons

\* The extremes printed are those of the latencies recorded, however the
\* compare-and-swap loops of the workers interleave (main.go:169-182).
ExtremesExact ==
    latencies # {} =>
        /\ minNanos <= Min(latencies) /\ maxNanos >= Max(latencies)
        /\ (\A w \in Workers : worker[w].pc \in {"check", "tick", "exchange", "total", "cancel", "done"}) =>
                minNanos = Min(latencies) /\ maxNanos = Max(latencies)

\* Why: the minimum is one of the latencies recorded and bounds them; so does
\* the maximum, but for a worker that goes on to the minimum.  A swap only
\* writes what is more extreme than what it has read.
ExtremesTracked ==
    /\ minNanos # 0 => minNanos \in latencies
    /\ \A n \in latencies : minNanos # 0 /\ minNanos <= n /\ n <= maxNanos
    /\ maxNanos # 0 => \/ maxNanos \in latencies
                       \/ \E w \in Workers : worker[w].pc \in {"loadMin", "swapMin"} /\ worker[w].n = maxNanos
    /\ \A w \in Workers :
          /\ worker[w].pc \in {"loadMin", "swapMin"} => worker[w].n <= maxNanos
          /\ At(w, "swapMax") => worker[w].seen < worker[w].n
          /\ At(w, "swapMin") => worker[w].seen = 0 \/ worker[w].n < worker[w].seen

\* A test by count sends at most one request per worker too many, since what
\* is in flight has been let through below the quota (main.go:217-219).
InFlight == {w \in Workers : worker[w].pc \in {"tick", "exchange", "total"}}

OvershootBounded == ByCount => total + Cardinality(InFlight) < Quota + Cardinality(Workers)

\* The report is the sum of what the workers did, and no worker did too much.
LoadInv ==
    LoadTypeOK /\ CountersAddUp /\ OutcomesKnown /\ ExtremesExact /\ ExtremesTracked /\ OvershootBounded

\* A test that is stopped ends: no worker is left waiting (main.go:212-226,
\* 334-336).
StopEnds == stopped ~> \A w \in Workers : At(w, "done")
=============================================================================
