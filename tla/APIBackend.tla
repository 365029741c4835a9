----------------------------- MODULE APIBackend -----------------------------
(***************************************************************************)
(* api/api.go, the HTTP processor: concurrent requests of one device ask   *)
(* the least loaded alive source through a cache that outlives its         *)
(* freshness, while a ticker revives disabled sources.                     *)
(* Time is kept as ages that Tick makes older, each up to the value beyond *)
(* which the code does not tell it from an older one, so time never ends.  *)
(***************************************************************************)
EXTENDS Integers, FiniteSets, FiniteSetsExt

CONSTANTS
    Sources,            \* auth.addresses
    Requests,           \* handler goroutines with requests of this device
    DisableTimeout, ActualizeTimeout, TimeoutExpires, Timeout,
    Caching,            \* auth.caching.enabled
    Leases,             \* the lease_time_sec values the backend answers with
    Preemption,         \* how long a goroutine may be kept off the processor
    MaxRequests,        \* bound: no request begins when a source could pass it
    None                \* no cache entry, no source

ASSUME TimesAssumption ==
    {DisableTimeout, ActualizeTimeout, TimeoutExpires, Timeout, Preemption, MaxRequests}
        \cup Leases \subseteq Nat
ASSUME CachingAssumption == Caching \in BOOLEAN
ASSUME SourcesAssumption == IsFiniteSet(Sources) /\ None \notin Sources
ASSUME RequestsAssumption == IsFiniteSet(Requests)

VARIABLES
    alive, requests,    \* per source, as in struct source
    sinceDisabled,      \* age of disabledAt
    gauge,              \* rad_api_alive_status
    cache,              \* the device's entry: [data, stored, lease], the first two ages
    req,                \* per goroutine: [pc, src, sent, data, cached]
    answer              \* what Get returned last: [from, data, actual], actual: how long
                        \* a fresh answer may be kept

sourceVars == <<alive, requests, sinceDisabled, gauge>>
vars == <<sourceVars, cache, req, answer>>

MaxAge    == TimeoutExpires + 2 * Timeout + 2 * Preemption + 1   \* bound: older data is not told apart
Unset     == -1
IdleReq   == [pc |-> "idle", src |-> None, sent |-> 0, data |-> 0, cached |-> None]

Init ==
    /\ alive = [s \in Sources |-> TRUE]
    /\ requests = [s \in Sources |-> 0]
    /\ sinceDisabled = [s \in Sources |-> Unset]
    /\ gauge = [s \in Sources |-> Unset]
    /\ cache = None
    /\ req = [r \in Requests |-> IdleReq]
    /\ answer = [from |-> "none", data |-> 0, actual |-> 0]

-----------------------------------------------------------------------------
\* How long an entry is not asked for again.
Actual(entry) == Min({ActualizeTimeout, entry.lease})

Return(r, from, data) ==
    /\ req' = [req EXCEPT ![r] = IdleReq]
    /\ answer' = [from |-> from, data |-> data, actual |-> IF from = "fresh" THEN Actual(cache) ELSE 0]

\* Mutant of Fallback: the stale entry is returned without a test that there is one.
Fallback_Unchecked(r) == Return(r, "stale", req[r].cached)

\* Get when fetch failed: the stale entry, if the cache still had one.
Fallback(r) ==
    IF req[r].cached = None THEN Return(r, "error", 0) ELSE Return(r, "stale", req[r].cached)

CanBegin(r) ==
    /\ req[r].pc = "idle"
    /\ \A s \in Sources : requests[s] + Cardinality(Requests) <= MaxRequests

Cached == Caching /\ cache # None /\ cache.stored <= TimeoutExpires

\* Mutant of Get: an entry is served as fresh for as long as the cache has it.
Get_ServesAnyEntry(r) ==
    /\ CanBegin(r)
    /\ IF Cached
       THEN Return(r, "fresh", cache.data)
       ELSE /\ req' = [req EXCEPT ![r].pc = "fetch"]
            /\ UNCHANGED answer
    /\ UNCHANGED <<sourceVars, cache>>

\* Get, up to the call of fetch.
Get(r) ==
    /\ CanBegin(r)
    /\ IF Cached /\ cache.stored < Actual(cache)
       THEN Return(r, "fresh", cache.data)
       ELSE /\ req' = [req EXCEPT ![r].pc = "fetch",
                                  ![r].cached = IF Cached THEN cache.data ELSE None]
            /\ UNCHANGED answer
    /\ UNCHANGED <<sourceVars, cache>>

Alive == {s \in Sources : alive[s]}

\* fetch, first critical section: the least loaded alive source, if any.
NoSource(r) ==
    /\ req[r].pc = "fetch" /\ Alive = {}
    /\ Fallback(r)
    /\ UNCHANGED <<sourceVars, cache>>

Ask(r, s) ==
    /\ requests' = [requests EXCEPT ![s] = @ + 1]
    /\ req' = [req EXCEPT ![r].pc = "posting", ![r].src = s, ![r].sent = 0]
    /\ UNCHANGED <<alive, sinceDisabled, gauge, cache, answer>>

\* Mutant of Choose: the load is not compared.
Choose_AnyAlive(r, s) ==
    /\ req[r].pc = "fetch" /\ s \in Alive
    /\ Ask(r, s)

Choose(r, s) ==
    /\ req[r].pc = "fetch" /\ s \in Alive
    /\ \A t \in Alive : requests[s] <= requests[t]
    /\ Ask(r, s)

\* The backend looks the device up; its answer may be slow.
BackendReads(r) ==
    /\ req[r].pc = "posting"
    /\ req' = [req EXCEPT ![r].pc = "read", ![r].data = 0]
    /\ UNCHANGED <<sourceVars, cache, answer>>

\* HTTP 200 with statusCode 200: the answer is cached and returned.
Succeeds(r, lease) ==
    /\ req[r].pc = "read"
    /\ cache' = IF Caching THEN [data |-> req[r].data, stored |-> 0, lease |-> lease] ELSE cache
    /\ Return(r, "backend", req[r].data)
    /\ UNCHANGED sourceVars

\* HTTP 200 with another statusCode in the body: an error of this request only.
BadStatusCode(r) ==
    /\ req[r].pc = "read"
    /\ Fallback(r)
    /\ UNCHANGED <<sourceVars, cache>>

\* post fails, before or after the backend looked: no connection, no answer in
\* time, any HTTP status but 200, a body that is not JSON.  The source is
\* disabled in fetch's second critical section.
PostFails(r) ==
    LET s == req[r].src IN
    /\ req[r].pc \in {"posting", "read"}
    /\ alive' = [alive EXCEPT ![s] = FALSE]
    /\ sinceDisabled' = [sinceDisabled EXCEPT ![s] = 0]
    /\ req' = [req EXCEPT ![r].pc = "setGauge", ![r].sent = 0]
    /\ UNCHANGED <<requests, gauge, cache, answer>>

\* The gauge is set after the unlock.
SetGauge(r) ==
    /\ req[r].pc = "setGauge"
    /\ gauge' = [gauge EXCEPT ![req[r].src] = 0]
    /\ Fallback(r)
    /\ UNCHANGED <<alive, requests, sinceDisabled, cache>>

Due == {s \in Sources : ~alive[s] /\ sinceDisabled[s] > DisableTimeout}

\* Mutants of Revive: the timeout is not waited for; one source blocks the others;
\* the gauge of every source is set.
Revive_Early ==
    LET back == {s \in Sources : ~alive[s]} IN
    /\ back # {}
    /\ alive' = [s \in Sources |-> alive[s] \/ s \in back]
    /\ gauge' = [s \in Sources |-> IF s \in back THEN 1 ELSE gauge[s]]
    /\ UNCHANGED <<requests, sinceDisabled, cache, req, answer>>
Revive_OnlyTogether ==
    /\ Due = Sources
    /\ alive' = [s \in Sources |-> TRUE]
    /\ gauge' = [s \in Sources |-> 1]
    /\ UNCHANGED <<requests, sinceDisabled, cache, req, answer>>

Revive_AllGauges ==
    /\ Due # {}
    /\ alive' = [s \in Sources |-> alive[s] \/ s \in Due]
    /\ gauge' = [s \in Sources |-> 1]
    /\ UNCHANGED <<requests, sinceDisabled, cache, req, answer>>

\* The ticker's critical section; gauges are set inside it.
Revive ==
    /\ Due # {}
    /\ alive' = [s \in Sources |-> alive[s] \/ s \in Due]
    /\ gauge' = [s \in Sources |-> IF s \in Due THEN 1 ELSE gauge[s]]
    /\ UNCHANGED <<requests, sinceDisabled, cache, req, answer>>

-----------------------------------------------------------------------------
Older(age, cap) == Min({age + 1, cap})

InFlight(r) == req[r].pc \in {"posting", "read"}

\* A second passes.  The HTTP client ends a post after Timeout; what goroutines
\* compute takes no time, but one may lose the processor for Preemption.
Tick ==
    /\ \A r \in Requests :
          \/ req[r].pc = "idle"
          \/ InFlight(r) /\ req[r].sent < Timeout
          \/ req[r].pc \in {"fetch", "setGauge"} /\ req[r].sent < Preemption
    /\ sinceDisabled' = [s \in Sources |->
            IF sinceDisabled[s] = Unset THEN Unset ELSE Older(sinceDisabled[s], DisableTimeout + 1)]
    /\ cache' = IF cache = None THEN None
                ELSE [cache EXCEPT !.data = Older(@, MaxAge), !.stored = Older(@, TimeoutExpires + 1)]
    /\ req' = [r \in Requests |->
            [req[r] EXCEPT !.sent = IF req[r].pc = "idle" THEN 0 ELSE @ + 1,
                           !.data = IF req[r].pc = "read" THEN @ + 1 ELSE @,
                           !.cached = IF @ = None THEN None ELSE Older(@, MaxAge)]]
    /\ UNCHANGED <<alive, requests, gauge, answer>>

Progress(r) ==
    \/ NoSource(r) \/ BackendReads(r) \/ BadStatusCode(r) \/ PostFails(r) \/ SetGauge(r)
    \/ \E s \in Sources : Choose(r, s)
    \/ \E lease \in Leases : Succeeds(r, lease)

Next ==
    \/ \E r \in Requests : Get(r) \/ Progress(r)
    \/ Revive \/ Tick

Spec == Init /\ [][Next]_vars

\* Time passes whatever requests do, the ticker ticks, goroutines go on.  No
\* request has to come.
Fairness == SF_vars(Tick) /\ WF_vars(Revive) /\ \A r \in Requests : WF_vars(Progress(r))

LiveSpec == Spec /\ Fairness

-----------------------------------------------------------------------------
Age      == 0..MaxAge
Entry    == [data : Age, stored : 0..(TimeoutExpires + 1), lease : Leases]
ReqState == [pc : {"idle", "fetch", "posting", "read", "setGauge"}, src : Sources \cup {None},
             sent : Nat, data : 0..Timeout, cached : {None} \cup Age]

TypeOK ==
    /\ alive \in [Sources -> BOOLEAN] /\ requests \in [Sources -> Nat]
    /\ sinceDisabled \in [Sources -> {Unset} \cup 0..(DisableTimeout + 1)]
    /\ gauge \in [Sources -> {Unset, 0, 1}]
    /\ cache \in {None} \cup Entry
    /\ req \in [Requests -> ReqState]
    /\ answer \in [from : {"none", "fresh", "backend", "stale", "error"}, data : Age, actual : 0..ActualizeTimeout]

\* A request holds a source from the moment it chose it, and is nowhere longer
\* than the HTTP client or the scheduler keeps it there.
RequestOK(q) ==
    /\ q.pc = "idle" => q.sent = 0 /\ q.cached = None
    /\ q.pc \in {"fetch", "setGauge"} => q.sent <= Preemption
    /\ q.pc \in {"posting", "read"} => q.sent <= Timeout
    /\ q.pc \in {"posting", "read", "setGauge"} => q.src \in Sources
    /\ q.pc = "read" => q.data <= q.sent

Fetching == {r \in Requests : req[r].pc = "fetch"}

RequestsOK ==
    /\ \A r \in Requests : RequestOK(req[r])
    /\ \A s \in Sources : requests[s] + Cardinality(Fetching) <= MaxRequests

\* A source in rotation never failed, or has waited since; one that never failed
\* is in rotation.
RotationOK ==
    \A s \in Sources : /\ alive[s] => sinceDisabled[s] = Unset \/ sinceDisabled[s] > DisableTimeout
                       /\ ~alive[s] => sinceDisabled[s] # Unset

\* How long ago Get read the cache, at most.
SinceGet(q) ==
    q.sent + (IF q.pc = "setGauge" THEN Preemption + Timeout ELSE IF q.pc = "fetch" THEN 0 ELSE Preemption)

\* What the cache and the requests hold was true at the backend when it was
\* stored, or Timeout before.
HeldOK ==
    /\ cache # None /\ cache.stored <= TimeoutExpires => cache.data <= cache.stored + Timeout
    /\ \A r \in Requests : req[r].cached # None =>
            req[r].cached <= TimeoutExpires + Timeout + SinceGet(req[r])

\* However requests overlap, the slower and older of two answers overwriting
\* the newer one included: what a NAS is told was true at the backend at most
\* so long ago, without asking never longer than the lease it carries
\* (api.go:151-155, 160-176; server/radius.server.conf.yml:98-103).
AgeBounded ==
    /\ answer.from = "backend" => answer.data <= Timeout
    /\ answer.from = "fresh"   => answer.data < Timeout + answer.actual
    /\ answer.from = "stale"   => answer.data <= TimeoutExpires + 2 * Timeout + 2 * Preemption

\* Requests, sources and the cache keep to their times, and so do the answers.
CacheInv == TypeOK /\ RequestsOK /\ RotationOK /\ HeldOK /\ AgeBounded

\* A disabled source is left alone until DisableTimeout has passed since the
\* last of its failures, late ones of requests sent earlier included
\* (api.go:126, 187, 207-209).
LeftAlone ==
    [][\A s \in Sources : requests'[s] # requests[s] =>
          sinceDisabled[s] = Unset \/ sinceDisabled[s] > DisableTimeout]_vars

\* Until one of them fails the sources share the requests evenly, whatever
\* number of them is asked at a time (api.go:183-196).
EvenUntilFailure ==
    (\A s \in Sources : sinceDisabled[s] = Unset) =>
        \A s, t \in Sources : requests[s] - requests[t] <= 1

\* A disabled source returns: requests still in flight may prolong its absence
\* but not for ever (api.go:124-131).
Revived == \A s \in Sources : ~alive[s] ~> alive[s]

\* A source out of rotation shows a gauge of 0, or the goroutine it failed is
\* about to set it, whatever failures and revivals ran into each other
\* (api.go:124-131, 206-210; doc/MONITORING.md:54).
OutageShows ==
    \A s \in Sources : ~alive[s] =>
        gauge[s] = 0 \/ \E r \in Requests : req[r].pc = "setGauge" /\ req[r].src = s
=============================================================================
