-------------------------- MODULE APIBackendProofs --------------------------
(***************************************************************************)
(* Proofs about the HTTP processor, for any number of sources and requests *)
(* and any timeouts: how old an answer may be, when a source is asked,     *)
(* how evenly, and what the gauge shows.  CacheInv, EvenUntilFailure and   *)
(* OutageShows are inductive together.                                     *)
(***************************************************************************)
EXTENDS APIBackend, FiniteSetTheorems, TLAPS

BackendIInv == CacheInv /\ EvenUntilFailure /\ OutageShows

LEMMA MinOf == \A a, b \in Int : Min({a, b}) = IF a <= b THEN a ELSE b
  <1> SUFFICES ASSUME NEW a \in Int, NEW b \in Int PROVE Min({a, b}) = IF a <= b THEN a ELSE b
    OBVIOUS
  <1>1. \E x \in {a, b} : \A y \in {a, b} : x <= y
    OBVIOUS
  <1>2. Min({a, b}) \in {a, b} /\ \A y \in {a, b} : Min({a, b}) <= y
    BY <1>1 DEF Min
  <1> QED
    BY <1>2

LEMMA Times ==
    /\ DisableTimeout \in Nat /\ ActualizeTimeout \in Nat /\ TimeoutExpires \in Nat
    /\ Timeout \in Nat /\ Preemption \in Nat /\ MaxRequests \in Nat /\ Leases \subseteq Nat
    /\ MaxAge \in Nat /\ MaxAge = TimeoutExpires + 2 * Timeout + 2 * Preemption + 1
  <1>1. /\ DisableTimeout \in Nat /\ ActualizeTimeout \in Nat /\ TimeoutExpires \in Nat
        /\ Timeout \in Nat /\ Preemption \in Nat /\ MaxRequests \in Nat /\ Leases \subseteq Nat
    BY TimesAssumption
  <1> QED
    BY <1>1 DEF MaxAge

(* Ages grow by one up to their cap. *)
LEMMA OlderIs ==
    ASSUME NEW cap \in Nat, NEW age \in 0..cap
    PROVE  Older(age, cap) \in 0..cap /\ Older(age, cap) = IF age < cap THEN age + 1 ELSE cap
  BY MinOf DEF Older

LEMMA ActualIs ==
    ASSUME NEW e \in Entry
    PROVE  Actual(e) \in 0..ActualizeTimeout
  <1>1. e.lease \in Nat /\ ActualizeTimeout \in Nat
    BY Times DEF Entry
  <1>2. Min({ActualizeTimeout, e.lease}) = IF ActualizeTimeout <= e.lease THEN ActualizeTimeout ELSE e.lease
    BY <1>1, MinOf
  <1> QED
    BY <1>1, <1>2 DEF Actual

-----------------------------------------------------------------------------
(* What a request keeps of the cache was no older than Get allows. *)
KeptOK(q) == q.cached # None => q.cached <= TimeoutExpires + Timeout + SinceGet(q)

(* Goroutine r goes on, to q; nobody else moves. *)
Moves(r, q) ==
    /\ req' \in [Requests -> ReqState] /\ req'[r] = q
    /\ q \in ReqState /\ RequestOK(q) /\ KeptOK(q)
    /\ \A x \in Requests \ {r} : req'[x] = req[x]

LEMMA Moved ==
    ASSUME TypeOK, NEW r \in Requests, NEW q \in ReqState, RequestOK(q), KeptOK(q),
           req' = [req EXCEPT ![r] = q]
    PROVE  Moves(r, q)
  BY DEF TypeOK, Moves

LEMMA IdleIs == IdleReq \in ReqState /\ RequestOK(IdleReq) /\ KeptOK(IdleReq) /\ IdleReq.pc = "idle"
  BY Times DEF IdleReq, ReqState, RequestOK, KeptOK

LEMMA Ended ==
    ASSUME TypeOK, NEW r \in Requests, req' = [req EXCEPT ![r] = IdleReq]
    PROVE  Moves(r, IdleReq)
  BY IdleIs, Moved

LEMMA RequestTyped ==
    ASSUME TypeOK, RequestsOK, HeldOK, NEW r \in Requests
    PROVE  req[r] \in ReqState /\ RequestOK(req[r]) /\ KeptOK(req[r])
  BY DEF TypeOK, RequestsOK, HeldOK, KeptOK

LEMMA GetMoves ==
    ASSUME TypeOK, RequestsOK, HeldOK, NEW r \in Requests, Get(r)
    PROVE  \/ Moves(r, IdleReq) /\ cache \in Entry /\ Cached /\ cache.stored < Actual(cache)
              /\ answer' = [from |-> "fresh", data |-> cache.data, actual |-> Actual(cache)]
           \/ UNCHANGED answer /\ \E q : Moves(r, q) /\ q.pc = "fetch"
  <1>1. cache # None => cache \in Entry
    BY DEF TypeOK
  <1>2. CASE Cached /\ cache.stored < Actual(cache)
    <2>1. Return(r, "fresh", cache.data)
      BY <1>2 DEF Get
    <2> QED
      BY <1>1, <1>2, <2>1, Ended DEF Return, Cached
  <1>3. CASE ~(Cached /\ cache.stored < Actual(cache))
    <2> DEFINE c == IF Cached THEN cache.data ELSE None
               q == [req[r] EXCEPT !.pc = "fetch", !.cached = c]
    <2>1. req[r] \in ReqState /\ req[r].sent = 0
      BY RequestTyped DEF Get, CanBegin, RequestOK, IdleReq
    <2>2. req' = [req EXCEPT ![r] = q] /\ UNCHANGED answer
      BY <1>3 DEF Get, TypeOK
    <2>3. c \in {None} \cup Age /\ (c # None => c <= TimeoutExpires + Timeout)
      <3>1. CASE Cached
        <4>1. /\ cache.stored \in Nat /\ cache.stored <= TimeoutExpires
              /\ cache.data \in Age /\ cache.data <= cache.stored + Timeout
          BY <1>1, <3>1 DEF HeldOK, Cached, Entry
        <4> QED
          BY <3>1, <4>1, Times DEF Age
      <3>2. CASE ~Cached
        BY <3>2
      <3> QED
        BY <3>1, <3>2
    <2> HIDE DEF c
    <2>4. q.pc = "fetch" /\ q.sent = 0 /\ q.cached = c /\ q \in ReqState
      BY <2>1, <2>3 DEF ReqState
    <2> HIDE DEF q
    <2>5. RequestOK(q) /\ KeptOK(q)
      BY <2>3, <2>4, Times DEF RequestOK, KeptOK, SinceGet, Age
    <2> QED
      BY <2>2, <2>4, <2>5, Moved
  <1> QED
    BY <1>2, <1>3

LEMMA ChooseMoves ==
    ASSUME TypeOK, RequestsOK, HeldOK, NEW r \in Requests, NEW s \in Sources, Choose(r, s)
    PROVE  req[r].pc = "fetch" /\ \E q : Moves(r, q) /\ q.pc = "posting"
  <1> DEFINE q == [req[r] EXCEPT !.pc = "posting", !.src = s, !.sent = 0]
  <1>1. req[r] \in ReqState /\ RequestOK(req[r]) /\ KeptOK(req[r]) /\ req[r].pc = "fetch"
    BY RequestTyped DEF Choose
  <1>2. req' = [req EXCEPT ![r] = q]
    BY DEF Choose, Ask, TypeOK
  <1>3. q \in ReqState /\ q.pc = "posting" /\ q.src = s /\ q.sent = 0 /\ q.cached = req[r].cached
    BY <1>1 DEF ReqState
  <1> HIDE DEF q
  <1>4. RequestOK(q)
    BY <1>3, Times DEF RequestOK
  <1>5. KeptOK(q)
    BY <1>1, <1>3, Times DEF KeptOK, SinceGet, RequestOK, ReqState, Age
  <1> QED
    BY <1>1, <1>2, <1>3, <1>4, <1>5, Moved

LEMMA ReadMoves ==
    ASSUME TypeOK, RequestsOK, HeldOK, NEW r \in Requests, BackendReads(r)
    PROVE  \E q : Moves(r, q) /\ q.pc = "read" /\ req[r].pc = "posting"
  <1> DEFINE q == [req[r] EXCEPT !.pc = "read", !.data = 0]
  <1>1. req[r] \in ReqState /\ RequestOK(req[r]) /\ KeptOK(req[r]) /\ req[r].pc = "posting"
    BY RequestTyped DEF BackendReads
  <1>2. req' = [req EXCEPT ![r] = q]
    BY DEF BackendReads, TypeOK
  <1>3. /\ q \in ReqState /\ q.pc = "read" /\ q.src = req[r].src /\ q.data = 0
        /\ q.sent = req[r].sent /\ q.cached = req[r].cached
    <2>1. 0 \in 0..Timeout
      BY Times
    <2> QED
      BY <1>1, <2>1 DEF ReqState
  <1> HIDE DEF q
  <1>4. RequestOK(q)
    BY <1>1, <1>3, Times DEF RequestOK, ReqState
  <1>5. KeptOK(q)
    BY <1>1, <1>3 DEF KeptOK, SinceGet
  <1> QED
    BY <1>1, <1>2, <1>3, <1>4, <1>5, Moved

LEMMA FailMoves ==
    ASSUME TypeOK, RequestsOK, HeldOK, NEW r \in Requests, PostFails(r)
    PROVE  /\ req[r].src \in Sources /\ req[r].pc \in {"posting", "read"}
           /\ \E q : Moves(r, q) /\ q.pc = "setGauge" /\ q.src = req[r].src
  <1> DEFINE q == [req[r] EXCEPT !.pc = "setGauge", !.sent = 0]
  <1>1. /\ req[r] \in ReqState /\ RequestOK(req[r]) /\ KeptOK(req[r]) /\ req[r].pc \in {"posting", "read"}
        /\ req[r].src \in Sources
    BY RequestTyped DEF PostFails, RequestOK
  <1>2. req' = [req EXCEPT ![r] = q]
    BY DEF PostFails, TypeOK
  <1>3. /\ q \in ReqState /\ q.pc = "setGauge" /\ q.src = req[r].src /\ q.sent = 0
        /\ q.cached = req[r].cached
    BY <1>1, Times DEF ReqState
  <1> HIDE DEF q
  <1>4. RequestOK(q)
    BY <1>1, <1>3, Times DEF RequestOK
  <1>5. KeptOK(q)
    BY <1>1, <1>3, Times DEF KeptOK, SinceGet, RequestOK, ReqState, Age
  <1> QED
    BY <1>1, <1>2, <1>3, <1>4, <1>5, Moved

(* A fetch that failed ends with the stale entry, which is not too old, or an *)
(* error.                                                                    *)
LEMMA FallbackMoves ==
    ASSUME TypeOK, RequestsOK, HeldOK, NEW r \in Requests, Fallback(r),
           req[r].pc \in {"fetch", "posting", "read", "setGauge"}
    PROVE  /\ Moves(r, IdleReq)
           /\ \/ answer' = [from |-> "error", data |-> 0, actual |-> 0]
              \/ \E d \in Age : /\ d <= TimeoutExpires + 2 * Timeout + 2 * Preemption
                                /\ answer' = [from |-> "stale", data |-> d, actual |-> 0]
  <1>1. req[r] \in ReqState /\ RequestOK(req[r]) /\ KeptOK(req[r])
    BY RequestTyped
  <1>2. Moves(r, IdleReq)
    BY Ended DEF Fallback, Return
  <1>3. CASE req[r].cached = None
    BY <1>2, <1>3 DEF Fallback, Return
  <1>4. CASE req[r].cached # None
    <2>1. answer' = [from |-> "stale", data |-> req[r].cached, actual |-> 0]
      BY <1>4 DEF Fallback, Return
    <2>2. req[r].cached \in Age /\ req[r].sent \in Nat
      BY <1>1, <1>4 DEF ReqState
    <2>3. req[r].cached <= TimeoutExpires + 2 * Timeout + 2 * Preemption
      BY <1>1, <1>4, <2>2, Times DEF KeptOK, SinceGet, RequestOK, Age
    <2> QED
      BY <1>2, <2>1, <2>2, <2>3
  <1> QED
    BY <1>3, <1>4

LEMMA SucceedsMoves ==
    ASSUME TypeOK, RequestsOK, HeldOK, NEW r \in Requests, NEW lease \in Leases, Succeeds(r, lease)
    PROVE  /\ Moves(r, IdleReq)
           /\ req[r].data \in 0..Timeout /\ req[r].data \in Age
           /\ answer' = [from |-> "backend", data |-> req[r].data, actual |-> 0]
  <1>1. req[r].data \in 0..Timeout
    BY RequestTyped DEF ReqState
  <1>2. Moves(r, IdleReq)
    BY Ended DEF Succeeds, Return
  <1> QED
    BY <1>1, <1>2, Times DEF Age, Succeeds, Return

-----------------------------------------------------------------------------
(* A second later requests, sources and the cache are older. *)
LEMMA TickMoves ==
    ASSUME TypeOK, RequestsOK, HeldOK, NEW r \in Requests, Tick
    PROVE  /\ req'[r] \in ReqState /\ RequestOK(req'[r]) /\ KeptOK(req'[r])
           /\ req'[r].pc = req[r].pc /\ req'[r].src = req[r].src
  <1> DEFINE o == req[r]
             c == IF o.cached = None THEN None ELSE Older(o.cached, MaxAge)
             n == IF o.pc = "idle" THEN 0 ELSE o.sent + 1
             d == IF o.pc = "read" THEN o.data + 1 ELSE o.data
             q == [o EXCEPT !.sent = n, !.data = d, !.cached = c]
  <1>1. o \in ReqState /\ RequestOK(o) /\ KeptOK(o)
    BY RequestTyped
  <1>2. req'[r] = q
    BY <1>1 DEF Tick, ReqState
  <1>3. \/ o.pc = "idle"
        \/ o.pc \in {"posting", "read"} /\ o.sent < Timeout
        \/ o.pc \in {"fetch", "setGauge"} /\ o.sent < Preemption
    BY DEF Tick, InFlight
  <1>4. n \in Nat /\ d \in 0..Timeout
    <2>1. o.sent \in Nat /\ o.data \in 0..Timeout
      BY <1>1 DEF ReqState
    <2>2. n \in Nat
      BY <2>1
    <2>3. CASE o.pc = "read"
      BY <1>1, <1>3, <2>1, <2>3, Times DEF RequestOK
    <2>4. CASE o.pc # "read"
      BY <2>1, <2>4
    <2> QED
      BY <2>2, <2>3, <2>4
  <1>5. c \in {None} \cup Age /\ (c # None => o.cached # None /\ o.cached \in Age /\ c <= o.cached + 1)
    <2>1. CASE o.cached = None
      BY <2>1
    <2>2. CASE o.cached # None
      <3>1. o.cached \in 0..MaxAge
        BY <1>1, <2>2 DEF ReqState, Age
      <3>2. Older(o.cached, MaxAge) \in Age /\ Older(o.cached, MaxAge) <= o.cached + 1
        BY <3>1, OlderIs, Times DEF Age
      <3> QED
        BY <2>2, <3>1, <3>2 DEF Age
    <2> QED
      BY <2>1, <2>2
  <1> HIDE DEF c, n, d
  <1>6. /\ q \in ReqState /\ q.pc = o.pc /\ q.src = o.src
        /\ q.sent = n /\ q.data = d /\ q.cached = c
    BY <1>1, <1>4, <1>5 DEF ReqState
  <1>7. RequestOK(q)
    <2>1. CASE o.pc = "idle"
      <3>1. n = 0 /\ c = None
        BY <1>1, <2>1 DEF RequestOK, n, c
      <3> HIDE DEF q
      <3> QED
        BY <1>6, <2>1, <3>1 DEF RequestOK
    <2>2. CASE o.pc # "idle"
      <3>1. n = o.sent + 1 /\ o.sent \in Nat /\ (o.pc = "read" => d = o.data + 1) /\ o.data \in Nat
        BY <1>1, <2>2 DEF n, d, ReqState
      <3> HIDE DEF q
      <3> QED
        BY <1>1, <1>3, <1>6, <2>2, <3>1, Times DEF RequestOK
    <2> QED
      BY <2>1, <2>2
  <1>8. KeptOK(q)
    <2>1. CASE o.pc = "idle"
      BY <1>1, <1>6, <2>1 DEF RequestOK, KeptOK, c
    <2>2. CASE o.pc # "idle"
      <3>1. n = o.sent + 1 /\ o.sent \in Nat
        BY <1>1, <2>2 DEF n, ReqState
      <3>2. SinceGet(q) = SinceGet(o) + 1 /\ SinceGet(o) \in Nat
        BY <1>6, <3>1, Times DEF SinceGet
      <3> HIDE DEF q, o
      <3> QED
        BY <1>1, <1>5, <1>6, <3>2, Times DEF KeptOK, Age
    <2> QED
      BY <2>1, <2>2
  <1> QED
    BY <1>2, <1>6, <1>7, <1>8

LEMMA TickTimes ==
    ASSUME TypeOK, HeldOK, Tick
    PROVE  /\ \A s \in Sources : /\ sinceDisabled'[s] = Unset <=> sinceDisabled[s] = Unset
                                 /\ sinceDisabled'[s] \in {Unset} \cup 0..(DisableTimeout + 1)
                                 /\ sinceDisabled[s] > DisableTimeout => sinceDisabled'[s] > DisableTimeout
           /\ cache' \in {None} \cup Entry
           /\ cache' # None /\ cache'.stored <= TimeoutExpires => cache'.data <= cache'.stored + Timeout
  <1>1. ASSUME NEW s \in Sources
        PROVE  /\ sinceDisabled'[s] = Unset <=> sinceDisabled[s] = Unset
               /\ sinceDisabled'[s] \in {Unset} \cup 0..(DisableTimeout + 1)
               /\ sinceDisabled[s] > DisableTimeout => sinceDisabled'[s] > DisableTimeout
    <2>1. sinceDisabled'[s] = IF sinceDisabled[s] = Unset THEN Unset
                              ELSE Older(sinceDisabled[s], DisableTimeout + 1)
      BY DEF Tick
    <2>2. sinceDisabled[s] \in {Unset} \cup 0..(DisableTimeout + 1) /\ DisableTimeout + 1 \in Nat
      BY Times DEF TypeOK
    <2>3. CASE sinceDisabled[s] = Unset
      BY <2>1, <2>3, Times DEF Unset
    <2>4. CASE sinceDisabled[s] # Unset
      <3>1. /\ sinceDisabled'[s] \in 0..(DisableTimeout + 1)
            /\ sinceDisabled'[s] = IF sinceDisabled[s] < DisableTimeout + 1
                                   THEN sinceDisabled[s] + 1 ELSE DisableTimeout + 1
        BY <2>1, <2>2, <2>4, OlderIs
      <3> QED
        BY <2>2, <2>4, <3>1, Times DEF Unset
    <2> QED
      BY <2>3, <2>4
  <1>2. CASE cache = None
    BY <1>1, <1>2 DEF Tick
  <1>3. CASE cache # None
    <2> DEFINE d == Older(cache.data, MaxAge)
               t == Older(cache.stored, TimeoutExpires + 1)
               e == [cache EXCEPT !.data = d, !.stored = t]
    <2>1. cache \in Entry
      BY <1>3 DEF TypeOK
    <2>2. cache' = e
      BY <1>3, <2>1 DEF Tick, Entry
    <2>3. cache.data \in 0..MaxAge /\ cache.stored \in 0..(TimeoutExpires + 1)
      BY <2>1 DEF Entry, Age
    <2>4. d \in Age /\ d <= cache.data + 1
      BY <2>3, OlderIs, Times DEF Age
    <2>5. TimeoutExpires + 1 \in Nat
      BY Times
    <2>6. /\ t \in 0..(TimeoutExpires + 1)
          /\ t = IF cache.stored < TimeoutExpires + 1 THEN cache.stored + 1 ELSE TimeoutExpires + 1
      BY <2>3, <2>5, OlderIs
    <2> HIDE DEF d, t
    <2>7. e \in Entry /\ e.data = d /\ e.stored = t
      BY <2>1, <2>4, <2>6 DEF Entry
    <2>8. t <= TimeoutExpires => cache.stored <= TimeoutExpires /\ t = cache.stored + 1
      BY <2>3, <2>6, Times
    <2>9. t <= TimeoutExpires => d <= t + Timeout
      BY <1>3, <2>3, <2>4, <2>6, <2>8, Times DEF HeldOK, Age
    <2> HIDE DEF e
    <2> QED
      BY <1>1, <2>2, <2>7, <2>9
  <1> QED
    BY <1>2, <1>3

-----------------------------------------------------------------------------
RequestStep(r) == Get(r) \/ Progress(r)

(* Wherever a request goes, it holds what it may. *)
LEMMA RequestMoves ==
    ASSUME TypeOK, RequestsOK, HeldOK, NEW r \in Requests, RequestStep(r)
    PROVE  \E q : Moves(r, q)
  <1>1. CASE Get(r)
    BY <1>1, GetMoves
  <1>2. CASE NoSource(r)
    BY <1>2, FallbackMoves DEF NoSource
  <1>3. ASSUME NEW s \in Sources, Choose(r, s) PROVE \E q : Moves(r, q)
    BY <1>3, ChooseMoves
  <1>4. CASE BackendReads(r)
    BY <1>4, ReadMoves
  <1>5. ASSUME NEW lease \in Leases, Succeeds(r, lease) PROVE \E q : Moves(r, q)
    BY <1>5, SucceedsMoves
  <1>6. CASE BadStatusCode(r)
    BY <1>6, FallbackMoves DEF BadStatusCode
  <1>7. CASE PostFails(r)
    BY <1>7, FailMoves
  <1>8. CASE SetGauge(r)
    BY <1>8, FallbackMoves DEF SetGauge
  <1> QED
    BY <1>1, <1>2, <1>3, <1>4, <1>5, <1>6, <1>7, <1>8 DEF RequestStep, Progress

LEMMA RequestsHold ==
    ASSUME TypeOK, RequestsOK, HeldOK, [Next]_vars
    PROVE  /\ req' \in [Requests -> ReqState]
           /\ \A r \in Requests : RequestOK(req'[r]) /\ KeptOK(req'[r])
  <1>0. /\ req \in [Requests -> ReqState]
        /\ \A r \in Requests : RequestOK(req[r]) /\ KeptOK(req[r])
    BY RequestTyped DEF TypeOK
  <1>1. ASSUME NEW r \in Requests, RequestStep(r)
        PROVE  /\ req' \in [Requests -> ReqState]
               /\ \A x \in Requests : RequestOK(req'[x]) /\ KeptOK(req'[x])
    <2>1. PICK q : Moves(r, q)
      BY <1>1, RequestMoves
    <2> QED
      BY <1>0, <2>1 DEF Moves
  <1>2. CASE Revive \/ UNCHANGED vars
    <2>1. req' = req
      BY <1>2 DEF Revive, vars
    <2> QED
      BY <1>0, <2>1
  <1>3. CASE Tick
    <2>1. \A r \in Requests : req'[r] \in ReqState /\ RequestOK(req'[r]) /\ KeptOK(req'[r])
      BY <1>3, TickMoves
    <2>2. DOMAIN req' = Requests /\ req' = [r \in Requests |-> req'[r]]
      BY <1>3 DEF Tick
    <2> QED
      BY <2>1, <2>2
  <1> QED
    BY <1>1, <1>2, <1>3 DEF Next, RequestStep

(* The counts of the sources: only Choose changes one, and begins no request *)
(* beyond those CanBegin left room for.                                      *)
LEMMA FetchingFinite ==
    ASSUME NEW S \in SUBSET Requests
    PROVE  IsFiniteSet(S) /\ Cardinality(S) \in Nat /\ Cardinality(S) <= Cardinality(Requests)
           /\ Cardinality(Requests) \in Nat
           /\ \A T \in SUBSET S : Cardinality(T) <= Cardinality(S)
           /\ \A r \in S : Cardinality(S \ {r}) = Cardinality(S) - 1
  BY RequestsAssumption, FS_Subset, FS_CardinalityType, FS_RemoveElement

CountsOK == \A s \in Sources : requests[s] + Cardinality(Fetching) <= MaxRequests

LEMMA OnlyChooseCounts ==
    ASSUME [Next]_vars, requests' # requests
    PROVE  \E r \in Requests, s \in Sources : Choose(r, s)
  <1>1. ASSUME NEW r \in Requests, NoSource(r) \/ BackendReads(r) \/ BadStatusCode(r) \/ PostFails(r) \/ SetGauge(r)
        PROVE  requests' = requests
    BY <1>1 DEF NoSource, BackendReads, BadStatusCode, PostFails, SetGauge, sourceVars
  <1>2. ASSUME NEW r \in Requests, NEW lease \in Leases, Succeeds(r, lease) PROVE requests' = requests
    BY <1>2 DEF Succeeds, sourceVars
  <1>3. ASSUME NEW r \in Requests, Get(r) PROVE requests' = requests
    BY <1>3 DEF Get, sourceVars
  <1>4. Revive \/ Tick \/ UNCHANGED vars => requests' = requests
    BY DEF Revive, Tick, vars, sourceVars
  <1> QED
    BY <1>1, <1>2, <1>3, <1>4 DEF Next, Progress

LEMMA ChooseCounts ==
    ASSUME TypeOK, NEW r \in Requests, NEW s \in Sources, Choose(r, s)
    PROVE  /\ requests' \in [Sources -> Nat] /\ requests'[s] = requests[s] + 1
           /\ \A t \in Sources \ {s} : requests'[t] = requests[t]
           /\ alive[s] /\ \A t \in Sources : alive[t] => requests[s] <= requests[t]
  BY DEF Choose, Ask, Alive, TypeOK

LEMMA CountsKept ==
    ASSUME TypeOK, RequestsOK, HeldOK, [Next]_vars
    PROVE  requests' \in [Sources -> Nat] /\ CountsOK'
  <1> DEFINE F  == {x \in Requests : req[x].pc = "fetch"}
             FF == {x \in Requests : req'[x].pc = "fetch"}
  <1>0. /\ requests \in [Sources -> Nat] /\ MaxRequests \in Nat
        /\ \A s \in Sources : requests[s] + Cardinality(F) <= MaxRequests
    BY Times DEF TypeOK, RequestsOK, Fetching
  <1>1. CountsOK' <=> \A s \in Sources : requests'[s] + Cardinality(FF) <= MaxRequests
    BY DEF CountsOK, Fetching
  <1> DEFINE Kept == requests' \in [Sources -> Nat]
                     /\ \A s \in Sources : requests'[s] + Cardinality(FF) <= MaxRequests
  <1>2. ASSUME requests' = requests, FF \subseteq F PROVE Kept
    <2>1. Cardinality(FF) <= Cardinality(F) /\ Cardinality(F) \in Nat /\ Cardinality(FF) \in Nat
      BY <1>2, FetchingFinite
    <2> HIDE DEF F, FF
    <2> QED
      BY <1>0, <1>2, <2>1
  <1>3. ASSUME NEW r \in Requests, NEW s \in Sources, Choose(r, s) PROVE Kept
    <2>1. r \in F /\ FF = F \ {r}
      BY <1>3, ChooseMoves DEF Moves
    <2>2. Cardinality(FF) = Cardinality(F) - 1 /\ Cardinality(F) \in Nat
      BY <2>1, FetchingFinite
    <2> HIDE DEF F, FF
    <2> QED
      BY <1>0, <1>3, <2>2, ChooseCounts
  <1>4. ASSUME NEW r \in Requests, Get(r) PROVE Kept
    <2>1. /\ \A s \in Sources : requests[s] + Cardinality(Requests) <= MaxRequests
          /\ requests' = requests
      BY <1>4 DEF Get, CanBegin, sourceVars
    <2>2. Cardinality(FF) <= Cardinality(Requests) /\ Cardinality(FF) \in Nat /\ Cardinality(Requests) \in Nat
      BY FetchingFinite
    <2> HIDE DEF F, FF
    <2> QED
      BY <1>0, <2>1, <2>2
  <1>5. ASSUME NEW r \in Requests, NEW q, Moves(r, q), q.pc # "fetch" PROVE FF \subseteq F
    BY <1>5 DEF Moves
  <1>6. ASSUME NEW r \in Requests, NoSource(r) \/ BadStatusCode(r) \/ SetGauge(r) PROVE FF \subseteq F
    BY <1>5, <1>6, FallbackMoves, IdleIs DEF NoSource, BadStatusCode, SetGauge
  <1>7. ASSUME NEW r \in Requests, NEW lease \in Leases, Succeeds(r, lease) PROVE FF \subseteq F
    BY <1>5, <1>7, SucceedsMoves, IdleIs
  <1>8. ASSUME NEW r \in Requests, BackendReads(r) PROVE FF \subseteq F
    BY <1>5, <1>8, ReadMoves
  <1>9. ASSUME NEW r \in Requests, PostFails(r) PROVE FF \subseteq F
    BY <1>5, <1>9, FailMoves
  <1>10. Tick => FF \subseteq F
    BY TickMoves
  <1>11. Revive \/ UNCHANGED vars => FF \subseteq F
    BY DEF Revive, vars
  <1> HIDE DEF F, FF, Kept
  <1>12. Kept
    BY <1>2, <1>3, <1>4, <1>6, <1>7, <1>8, <1>9, <1>10, <1>11, OnlyChooseCounts DEF Next, Progress
  <1> QED
    BY <1>1, <1>12 DEF Kept

-----------------------------------------------------------------------------
(* The sources: a failure takes one out of rotation, the ticker back. *)
SourcesTyped ==
    /\ alive \in [Sources -> BOOLEAN]
    /\ sinceDisabled \in [Sources -> {Unset} \cup 0..(DisableTimeout + 1)]
    /\ gauge \in [Sources -> {Unset, 0, 1}]

LEMMA SourcesKept ==
    ASSUME TypeOK, RequestsOK, RotationOK, HeldOK, OutageShows, [Next]_vars
    PROVE  SourcesTyped' /\ RotationOK' /\ OutageShows'
  <1> DEFINE Typed == /\ alive' \in [Sources -> BOOLEAN]
                      /\ sinceDisabled' \in [Sources -> {Unset} \cup 0..(DisableTimeout + 1)]
                      /\ gauge' \in [Sources -> {Unset, 0, 1}]
             Rotates == \A s \in Sources :
                          /\ alive'[s] => sinceDisabled'[s] = Unset \/ sinceDisabled'[s] > DisableTimeout
                          /\ ~alive'[s] => sinceDisabled'[s] # Unset
             Shows == \A s \in Sources : ~alive'[s] =>
                          gauge'[s] = 0 \/ \E r \in Requests : req'[r].pc = "setGauge" /\ req'[r].src = s
  <1>0. /\ SourcesTyped /\ \A s \in Sources :
             /\ alive[s] => sinceDisabled[s] = Unset \/ sinceDisabled[s] > DisableTimeout
             /\ ~alive[s] => sinceDisabled[s] # Unset
             /\ ~alive[s] => gauge[s] = 0 \/ \E r \in Requests : req[r].pc = "setGauge" /\ req[r].src = s
        /\ DisableTimeout \in Nat
    BY Times DEF TypeOK, SourcesTyped, RotationOK, OutageShows
  <1>1. Typed /\ Rotates /\ Shows => SourcesTyped' /\ RotationOK' /\ OutageShows'
    BY DEF SourcesTyped, RotationOK, OutageShows
  <1>2. ASSUME UNCHANGED <<alive, sinceDisabled>> PROVE Rotates
    BY <1>0, <1>2
  <1>3. ASSUME UNCHANGED <<alive, sinceDisabled, gauge>> PROVE Typed
    BY <1>0, <1>3 DEF SourcesTyped
  <1>4. ASSUME UNCHANGED <<alive, sinceDisabled, gauge>>,
               \A r \in Requests : req[r].pc = "setGauge" => req'[r].pc = "setGauge" /\ req'[r].src = req[r].src
        PROVE  Typed /\ Rotates /\ Shows
    BY <1>0, <1>2, <1>3, <1>4
  <1>5. ASSUME NEW r \in Requests, RequestStep(r), req[r].pc # "setGauge", UNCHANGED sourceVars \/ (\E s \in Sources : Choose(r, s))
        PROVE  Typed /\ Rotates /\ Shows
    <2>1. UNCHANGED <<alive, sinceDisabled, gauge>>
      BY <1>5 DEF sourceVars, Choose, Ask
    <2>2. \A x \in Requests \ {r} : req'[x] = req[x]
      BY <1>5, RequestMoves DEF Moves
    <2> QED
      BY <1>4, <1>5, <2>1, <2>2
  <1>6. ASSUME NEW r \in Requests, SetGauge(r) PROVE Typed /\ Rotates /\ Shows
    <2>1. req[r].src \in Sources /\ gauge' = [gauge EXCEPT ![req[r].src] = 0] /\ UNCHANGED <<alive, sinceDisabled>>
      BY <1>6, RequestTyped DEF SetGauge, RequestOK
    <2>2. \A x \in Requests \ {r} : req'[x] = req[x]
      BY <1>6, RequestMoves DEF Moves, RequestStep, Progress
    <2>3. gauge'[req[r].src] = 0 /\ \A s \in Sources \ {req[r].src} : gauge'[s] = gauge[s]
      BY <1>0, <2>1 DEF SourcesTyped
    <2>4. Shows
      BY <1>0, <2>1, <2>2, <2>3
    <2>5. Typed
      BY <1>0, <2>1 DEF SourcesTyped
    <2> QED
      BY <1>2, <2>1, <2>4, <2>5
  <1>7. ASSUME NEW r \in Requests, PostFails(r) PROVE Typed /\ Rotates /\ Shows
    <2> DEFINE s == req[r].src
    <2>1. s \in Sources /\ req[r].pc # "setGauge" /\ req'[r].pc = "setGauge" /\ req'[r].src = s
          /\ \A x \in Requests \ {r} : req'[x] = req[x]
      BY <1>7, FailMoves DEF Moves
    <2>2. /\ alive' = [alive EXCEPT ![s] = FALSE] /\ sinceDisabled' = [sinceDisabled EXCEPT ![s] = 0]
          /\ UNCHANGED gauge
      BY <1>7 DEF PostFails
    <2>3. alive' \in [Sources -> BOOLEAN]
      BY <1>0, <2>1, <2>2 DEF SourcesTyped
    <2>4. Typed
      BY <1>0, <2>1, <2>2, <2>3 DEF SourcesTyped
    <2>5. ~alive'[s] /\ sinceDisabled'[s] = 0
          /\ \A t \in Sources \ {s} : (alive'[t] <=> alive[t]) /\ sinceDisabled'[t] = sinceDisabled[t]
      BY <1>0, <2>1, <2>2 DEF SourcesTyped
    <2> HIDE DEF s
    <2>6. Rotates
      BY <1>0, <2>5 DEF Unset
    <2>7. Shows
      BY <1>0, <2>1, <2>2, <2>5
    <2> QED
      BY <2>4, <2>6, <2>7
  <1>8. ASSUME Revive PROVE Typed /\ Rotates /\ Shows
    <2>1. /\ \A t \in Sources : /\ alive'[t] <=> alive[t] \/ t \in Due
                                /\ t \notin Due => gauge'[t] = gauge[t]
          /\ UNCHANGED <<sinceDisabled, req>>
      BY <1>8 DEF Revive
    <2>2. alive' \in [Sources -> BOOLEAN]
      BY <1>8 DEF Revive
    <2>3. gauge' \in [Sources -> {Unset, 0, 1}]
      BY <1>0, <1>8 DEF Revive, SourcesTyped
    <2>4. Rotates
      BY <1>0, <2>1 DEF Due
    <2>5. Shows
      BY <1>0, <2>1
    <2> QED
      BY <1>0, <2>1, <2>2, <2>3, <2>4, <2>5 DEF SourcesTyped
  <1>9. ASSUME Tick PROVE Typed /\ Rotates /\ Shows
    <2>1. UNCHANGED <<alive, gauge>> /\ DOMAIN sinceDisabled' = Sources
          /\ sinceDisabled' = [s \in Sources |-> sinceDisabled'[s]]
      BY <1>9 DEF Tick
    <2>2. \A r \in Requests : req'[r].pc = req[r].pc /\ req'[r].src = req[r].src
      BY <1>9, TickMoves
    <2>3. \A s \in Sources : /\ sinceDisabled'[s] = Unset <=> sinceDisabled[s] = Unset
                             /\ sinceDisabled'[s] \in {Unset} \cup 0..(DisableTimeout + 1)
                             /\ sinceDisabled[s] > DisableTimeout => sinceDisabled'[s] > DisableTimeout
      BY <1>9, TickTimes
    <2>4. Typed
      BY <1>0, <2>1, <2>3 DEF SourcesTyped
    <2>5. Rotates
      BY <1>0, <2>1, <2>3
    <2>6. Shows
      BY <1>0, <2>1, <2>2
    <2> QED
      BY <2>4, <2>5, <2>6
  <1>10. ASSUME UNCHANGED vars PROVE Typed /\ Rotates /\ Shows
    BY <1>4, <1>10 DEF vars, sourceVars
  <1>11. ASSUME NEW r \in Requests, RequestStep(r), ~SetGauge(r), ~PostFails(r)
         PROVE  req[r].pc # "setGauge" /\ (UNCHANGED sourceVars \/ \E s \in Sources : Choose(r, s))
    BY <1>11 DEF RequestStep, Progress, Get, CanBegin, NoSource, Choose, BackendReads, Succeeds, BadStatusCode
  <1> HIDE DEF Typed, Rotates, Shows
  <1>12. Typed /\ Rotates /\ Shows
    BY <1>5, <1>6, <1>7, <1>8, <1>9, <1>10, <1>11 DEF Next, RequestStep
  <1> QED
    BY <1>1, <1>12

-----------------------------------------------------------------------------
(* What is cached is what was just returned; nothing else fills the cache. *)
LEMMA CacheKept ==
    ASSUME TypeOK, RequestsOK, HeldOK, [Next]_vars
    PROVE  /\ cache' \in {None} \cup Entry
           /\ cache' # None /\ cache'.stored <= TimeoutExpires => cache'.data <= cache'.stored + Timeout
  <1>1. CASE UNCHANGED cache
    BY <1>1 DEF TypeOK, HeldOK
  <1>2. CASE Tick
    BY <1>2, TickTimes
  <1>3. ASSUME NEW r \in Requests, NEW lease \in Leases, Succeeds(r, lease), cache' # cache
        PROVE  cache' \in Entry /\ cache'.data <= cache'.stored + Timeout
    <2> DEFINE e == [data |-> req[r].data, stored |-> 0, lease |-> lease]
    <2>1. cache' = e
      BY <1>3 DEF Succeeds
    <2>2. req[r].data \in 0..Timeout /\ req[r].data \in Age
      BY <1>3, SucceedsMoves
    <2>3. e \in Entry /\ e.data <= e.stored + Timeout
      BY <2>2, Times DEF Entry
    <2> HIDE DEF e
    <2> QED
      BY <2>1, <2>3
  <1>4. ASSUME NEW r \in Requests, Get(r) \/ NoSource(r) \/ BackendReads(r) \/ BadStatusCode(r) \/ PostFails(r) \/ SetGauge(r)
        PROVE  UNCHANGED cache
    BY <1>4 DEF Get, NoSource, BackendReads, BadStatusCode, PostFails, SetGauge
  <1>5. ASSUME NEW r \in Requests, NEW s \in Sources, Choose(r, s) PROVE UNCHANGED cache
    BY <1>5 DEF Choose, Ask
  <1>6. Revive \/ UNCHANGED vars => UNCHANGED cache
    BY DEF Revive, vars
  <1> QED
    BY <1>1, <1>2, <1>3, <1>4, <1>5, <1>6 DEF Next, Progress

(* An answer is as young as its kind allows. *)
Answer == [from : {"none", "fresh", "backend", "stale", "error"}, data : Age, actual : 0..ActualizeTimeout]

Young(a) ==
    /\ a.from = "backend" => a.data <= Timeout
    /\ a.from = "fresh"   => a.data < Timeout + a.actual
    /\ a.from = "stale"   => a.data <= TimeoutExpires + 2 * Timeout + 2 * Preemption

LEMMA AnswerKept ==
    ASSUME TypeOK, RequestsOK, HeldOK, AgeBounded, [Next]_vars
    PROVE  answer' \in Answer /\ Young(answer')
  <1>0. answer \in Answer /\ Young(answer) /\ 0 \in Age /\ 0 \in 0..ActualizeTimeout
    BY Times DEF TypeOK, Answer, Age, AgeBounded, Young
  <1>1. CASE UNCHANGED answer
    BY <1>0, <1>1
  <1>2. ASSUME NEW r \in Requests, Get(r), answer' # answer PROVE answer' \in Answer /\ Young(answer')
    <2> DEFINE a == [from |-> "fresh", data |-> cache.data, actual |-> Actual(cache)]
    <2>1. cache \in Entry /\ Cached /\ cache.stored < Actual(cache) /\ answer' = a
      BY <1>2, GetMoves
    <2>2. Actual(cache) \in 0..ActualizeTimeout /\ cache.data \in Age
      BY <2>1, ActualIs DEF Entry
    <2>3. cache.data <= cache.stored + Timeout /\ cache.stored \in Nat
      BY <2>1 DEF Cached, HeldOK, Entry
    <2>4. a \in Answer
      BY <2>2 DEF Answer
    <2>5. Young(a)
      BY <2>1, <2>2, <2>3, Times DEF Young, Age
    <2> HIDE DEF a
    <2> QED
      BY <2>1, <2>4, <2>5
  <1>3. ASSUME NEW r \in Requests, NEW lease \in Leases, Succeeds(r, lease)
        PROVE  answer' \in Answer /\ Young(answer')
    <2> DEFINE a == [from |-> "backend", data |-> req[r].data, actual |-> 0]
    <2>1. req[r].data \in 0..Timeout /\ req[r].data \in Age /\ answer' = a
      BY <1>3, SucceedsMoves
    <2>2. a \in Answer /\ Young(a)
      BY <1>0, <2>1 DEF Answer, Young
    <2> HIDE DEF a
    <2> QED
      BY <2>1, <2>2
  <1>4. ASSUME NEW r \in Requests, NoSource(r) \/ BadStatusCode(r) \/ SetGauge(r)
        PROVE  answer' \in Answer /\ Young(answer')
    <2>1. Fallback(r) /\ req[r].pc \in {"fetch", "posting", "read", "setGauge"}
      BY <1>4 DEF NoSource, BadStatusCode, SetGauge
    <2>2. ASSUME NEW d \in Age, d <= TimeoutExpires + 2 * Timeout + 2 * Preemption,
                 answer' = [from |-> "stale", data |-> d, actual |-> 0]
          PROVE  answer' \in Answer /\ Young(answer')
      BY <1>0, <2>2 DEF Answer, Young
    <2>3. ASSUME answer' = [from |-> "error", data |-> 0, actual |-> 0]
          PROVE  answer' \in Answer /\ Young(answer')
      BY <1>0, <2>3 DEF Answer, Young
    <2> QED
      BY <2>1, <2>2, <2>3, FallbackMoves
  <1>5. ASSUME NEW r \in Requests, BackendReads(r) \/ PostFails(r) \/ \E s \in Sources : Choose(r, s)
        PROVE  UNCHANGED answer
    BY <1>5 DEF BackendReads, PostFails, Choose, Ask
  <1>6. Revive \/ Tick \/ UNCHANGED vars => UNCHANGED answer
    BY DEF Revive, Tick, vars
  <1> QED
    BY <1>1, <1>2, <1>3, <1>4, <1>5, <1>6 DEF Next, Progress

-----------------------------------------------------------------------------
(* The least loaded of all sources is chosen while none has failed. *)
LEMMA NeverUnset ==
    ASSUME TypeOK, RequestsOK, HeldOK, [Next]_vars, NEW s \in Sources, sinceDisabled'[s] = Unset
    PROVE  sinceDisabled[s] = Unset
  <1>1. CASE UNCHANGED sinceDisabled
    BY <1>1
  <1>2. CASE Tick
    BY <1>2, TickTimes
  <1>3. ASSUME NEW r \in Requests, PostFails(r) PROVE sinceDisabled[s] = Unset
    BY <1>3 DEF PostFails, TypeOK, Unset
  <1>4. ASSUME NEW r \in Requests, Get(r) \/ NoSource(r) \/ BackendReads(r) \/ BadStatusCode(r) \/ SetGauge(r)
        PROVE  UNCHANGED sinceDisabled
    BY <1>4 DEF Get, NoSource, BackendReads, BadStatusCode, SetGauge, sourceVars
  <1>5. ASSUME NEW r \in Requests, (\E t \in Sources : Choose(r, t)) \/ \E lease \in Leases : Succeeds(r, lease)
        PROVE  UNCHANGED sinceDisabled
    BY <1>5 DEF Choose, Ask, Succeeds, sourceVars
  <1>6. Revive \/ UNCHANGED vars => UNCHANGED sinceDisabled
    BY DEF Revive, vars, sourceVars
  <1> QED
    BY <1>1, <1>2, <1>3, <1>4, <1>5, <1>6 DEF Next, Progress

LEMMA EvenKept ==
    ASSUME TypeOK, RequestsOK, RotationOK, HeldOK, EvenUntilFailure, [Next]_vars
    PROVE  EvenUntilFailure'
  <1> SUFFICES ASSUME \A s \in Sources : sinceDisabled'[s] = Unset, NEW s \in Sources, NEW t \in Sources
               PROVE  requests'[s] - requests'[t] <= 1
    BY DEF EvenUntilFailure
  <1>0. /\ \A x \in Sources : sinceDisabled[x] = Unset /\ alive[x]
        /\ \A x, y \in Sources : requests[x] - requests[y] <= 1
        /\ requests \in [Sources -> Nat]
    BY NeverUnset DEF RotationOK, EvenUntilFailure, TypeOK
  <1>1. CASE requests' = requests
    BY <1>0, <1>1
  <1>2. ASSUME NEW r \in Requests, NEW c \in Sources, Choose(r, c) PROVE requests'[s] - requests'[t] <= 1
    <2>1. requests'[c] = requests[c] + 1 /\ (\A x \in Sources \ {c} : requests'[x] = requests[x])
          /\ \A x \in Sources : requests[c] <= requests[x]
      BY <1>0, <1>2, ChooseCounts
    <2>2. requests[s] \in Nat /\ requests[t] \in Nat /\ requests[c] \in Nat
      BY <1>0
    <2> QED
      BY <1>0, <2>1, <2>2
  <1> QED
    BY <1>1, <1>2, OnlyChooseCounts

-----------------------------------------------------------------------------
LEMMA StepKeeps == BackendIInv /\ [Next]_vars => BackendIInv'
  <1> SUFFICES ASSUME BackendIInv, [Next]_vars PROVE BackendIInv'
    OBVIOUS
  <1>0. TypeOK /\ RequestsOK /\ RotationOK /\ HeldOK /\ AgeBounded /\ EvenUntilFailure /\ OutageShows
    BY DEF BackendIInv, CacheInv
  <1>1. SourcesTyped' /\ RotationOK' /\ OutageShows'
    BY <1>0, SourcesKept
  <1>2. requests' \in [Sources -> Nat] /\ CountsOK'
    BY <1>0, CountsKept
  <1>3. /\ req' \in [Requests -> ReqState]
        /\ \A r \in Requests : RequestOK(req'[r]) /\ KeptOK(req'[r])
    BY <1>0, RequestsHold
  <1>4. /\ cache' \in {None} \cup Entry
        /\ cache' # None /\ cache'.stored <= TimeoutExpires => cache'.data <= cache'.stored + Timeout
    BY <1>0, CacheKept
  <1>5. answer' \in Answer /\ Young(answer')
    BY <1>0, AnswerKept
  <1>6. TypeOK'
    BY <1>1, <1>2, <1>3, <1>4, <1>5 DEF TypeOK, SourcesTyped, Answer
  <1>7. RequestsOK'
    BY <1>2, <1>3 DEF RequestsOK, CountsOK, RequestOK
  <1>8. HeldOK'
    BY <1>3, <1>4 DEF HeldOK, KeptOK, SinceGet
  <1>9. AgeBounded'
    BY <1>5 DEF AgeBounded, Young
  <1>10. EvenUntilFailure'
    BY <1>0, EvenKept
  <1> QED
    BY <1>1, <1>6, <1>7, <1>8, <1>9, <1>10 DEF BackendIInv, CacheInv

LEMMA InitKeeps == Init => BackendIInv
  <1> SUFFICES ASSUME Init PROVE BackendIInv
    OBVIOUS
  <1> USE DEF Init
  <1>1. TypeOK
    <2>1. IdleReq \in ReqState /\ 0 \in Age /\ 0 \in 0..ActualizeTimeout
      BY IdleIs, Times DEF Age
    <2>2. alive \in [Sources -> BOOLEAN]
      OBVIOUS
    <2>3. /\ requests \in [Sources -> Nat] /\ gauge \in [Sources -> {Unset, 0, 1}]
          /\ sinceDisabled \in [Sources -> {Unset} \cup 0..(DisableTimeout + 1)]
      OBVIOUS
    <2> QED
      BY <2>1, <2>2, <2>3 DEF TypeOK
  <1>2. RequestsOK
    <2>1. Fetching = {}
      BY DEF Fetching, IdleReq
    <2>2. Cardinality({}) = 0
      BY FS_EmptySet
    <2> QED
      BY <2>1, <2>2, IdleIs, Times DEF RequestsOK
  <1>3. RotationOK /\ OutageShows /\ EvenUntilFailure
    BY DEF RotationOK, OutageShows, EvenUntilFailure
  <1>4. HeldOK /\ AgeBounded
    BY DEF HeldOK, AgeBounded, IdleReq
  <1> QED
    BY <1>1, <1>2, <1>3, <1>4 DEF BackendIInv, CacheInv

LEMMA BackendInductive == Spec => []BackendIInv
  BY InitKeeps, StepKeeps, PTL DEF Spec

(* However requests overlap, what a NAS is told was true at the backend no    *)
(* longer ago than the timeouts add up to, and without asking no longer than  *)
(* its lease (api.go:151-176).                                                *)
THEOREM AnswersAreYoung == Spec => []CacheInv
  BY BackendInductive, PTL DEF BackendIInv

(* Until a source fails the sources share the requests evenly                 *)
(* (api.go:183-196).                                                          *)
THEOREM SharedEvenly == Spec => []EvenUntilFailure
  BY BackendInductive, PTL DEF BackendIInv

(* A source out of rotation shows a gauge of 0, or is about to, whatever      *)
(* failures and revivals ran into each other (api.go:124-131, 206-210).       *)
THEOREM OutagesShow == Spec => []OutageShows
  BY BackendInductive, PTL DEF BackendIInv

(* A source is left alone until the timeout has passed since the last of its  *)
(* failures (api.go:126, 187, 207-209).                                       *)
THEOREM DisabledLeftAlone == Spec => LeftAlone
  <1>1. BackendIInv /\ [Next]_vars =>
          [\A s \in Sources : requests'[s] # requests[s] =>
              sinceDisabled[s] = Unset \/ sinceDisabled[s] > DisableTimeout]_vars
    <2> SUFFICES ASSUME BackendIInv, [Next]_vars, NEW s \in Sources, requests'[s] # requests[s]
                 PROVE  sinceDisabled[s] = Unset \/ sinceDisabled[s] > DisableTimeout
      OBVIOUS
    <2>1. TypeOK /\ RotationOK
      BY DEF BackendIInv, CacheInv
    <2>2. PICK r \in Requests, c \in Sources : Choose(r, c)
      BY OnlyChooseCounts
    <2>3. c = s /\ alive[s]
      BY <2>1, <2>2, ChooseCounts
    <2> QED
      BY <2>1, <2>3 DEF RotationOK
  <1> QED
    BY <1>1, BackendInductive, PTL DEF Spec, LeftAlone
=============================================================================
