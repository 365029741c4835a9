---------------------------- MODULE ToolsProofs ----------------------------
(***************************************************************************)
(* Proofs about the client and the command-line tools, each by itself: an  *)
(* exchange says why it ended, the load test's report adds up, radbench    *)
(* counts every request once, and pcapreplay compares every pair once.     *)
(***************************************************************************)
EXTENDS RadiusClient, LoadTest, RadBench, PcapReplay, FiniteSetTheorems, WellFoundedInduction, TLAPS

(* The client.  A step of the goroutine leaves the caller where it is, and   *)
(* the other way round, but for the connection and the end of the context.   *)
LEMMA ClientInitInv == ClientInit => ClientInv
  <1> SUFFICES ASSUME ClientInit PROVE ClientInv
    OBVIOUS
  <1>1. ClientTypeOK
    <2>1. packetErrors \in 0..MaxPacketErrors
      BY PacketErrorsAssumption DEF ClientInit
    <2>2. tick \in BOOLEAN /\ closedUnder \in BOOLEAN
      BY Zenon DEF ClientInit
    <2> QED
      BY <2>1, <2>2 DEF ClientInit, ClientTypeOK
  <1>2. ReturnsForItsReason
    BY PacketErrorsAssumption DEF ClientInit, ReturnsForItsReason
  <1>3. DeadlineToldAsSuch /\ ClosedOnlyAtTheEnd
    BY DEF ClientInit, DeadlineToldAsSuch, ClosedOnlyAtTheEnd, ContextEnded
  <1> QED
    BY <1>1, <1>2, <1>3 DEF ClientInv

LEMMA ClientStepKeepsInv == ClientInv /\ [ClientNext]_clientVars => ClientInv'
  <1> SUFFICES ASSUME ClientInv, [ClientNext]_clientVars PROVE ClientInv'
    OBVIOUS
  <1> USE PacketErrorsAssumption
      DEF ClientInv, ClientTypeOK, DeadlineToldAsSuch, ClosedOnlyAtTheEnd, ReturnsForItsReason,
          ContextEnded, Return
  <1>1. CASE Deadline
    BY <1>1 DEF Deadline
  <1>2. CASE Tick
    BY <1>2 DEF Tick
  <1>3. CASE Refuse
    BY <1>3 DEF Refuse
  <1>4. CASE DialFails
    BY <1>4 DEF DialFails
  <1>5. CASE Dial
    BY <1>5 DEF Dial
  <1>6. CASE Receive
    BY <1>6 DEF Receive
  <1>7. CASE ReceiveBad
    BY <1>7 DEF ReceiveBad
  <1>8. CASE Explain
    BY <1>8 DEF Explain
  <1>9. CASE ReadFails
    BY <1>9 DEF ReadFails
  <1>10. CASE PickTick
    BY <1>10 DEF PickTick
  <1>11. CASE PickDone
    BY <1>11 DEF PickDone
  <1>12. CASE Resend
    BY <1>12 DEF Resend
  <1>13. CASE Close
    BY <1>13 DEF Close
  <1>14. CASE UNCHANGED clientVars
    BY <1>14 DEF clientVars
  <1> QED
    BY <1>1, <1>2, <1>3, <1>4, <1>5, <1>6, <1>7, <1>8, <1>9, <1>10, <1>11, <1>12, <1>13, <1>14
    DEF ClientNext, Reader, Resender

(* Whatever datagrams come, however the ticker, the deadline and the closing *)
(* of the connection interleave with the read (client.go:46-123).            *)
THEOREM ExchangeTellsWhy == ClientSpec => []ClientInv
  BY ClientInitInv, ClientStepKeepsInv, PTL DEF ClientSpec
-----------------------------------------------------------------------------
(* The load test.  One worker goes from one place to another. *)
Moves(w, a, b) ==
    /\ worker[w].pc = a /\ worker'[w].pc = b
    /\ \A v \in Workers \ {w} : worker'[v] = worker[v]

LEMMA BetweenIsNumber ==
    ASSUME NEW a
    PROVE  Between(a) \in Nat /\ IsFiniteSet({v \in Workers : At(v, a)})
  <1>1. {v \in Workers : At(v, a)} \subseteq Workers
    OBVIOUS
  <1>2. IsFiniteSet({v \in Workers : At(v, a)})
    BY <1>1, WorkersAssumption, FS_Subset
  <1> QED
    BY <1>2, FS_CardinalityType DEF Between

LEMMA MoveCounts ==
    ASSUME NEW w \in Workers, NEW a, NEW b, a # b, Moves(w, a, b)
    PROVE  /\ Between(a)' = Between(a) - 1
           /\ Between(b)' = Between(b) + 1
           /\ \A c : c # a /\ c # b => Between(c)' = Between(c)
  <1> USE DEF Moves, At
  <1>1. {v \in Workers : At(v, a)}' = {v \in Workers : At(v, a)} \ {w} /\ w \in {v \in Workers : At(v, a)}
    OBVIOUS
  <1>2. {v \in Workers : At(v, b)}' = {v \in Workers : At(v, b)} \cup {w} /\ w \notin {v \in Workers : At(v, b)}
    OBVIOUS
  <1>3. ASSUME NEW c, c # a, c # b PROVE Between(c)' = Between(c)
    <2>1. {v \in Workers : At(v, c)}' = {v \in Workers : At(v, c)}
      BY <1>3
    <2> QED
      BY <2>1 DEF Between
  <1>4. Between(a)' = Between(a) - 1
    <2> DEFINE A == {v \in Workers : At(v, a)}
    <2>1. IsFiniteSet(A)
      BY BetweenIsNumber
    <2>2. A' = A \ {w} /\ w \in A
      BY <1>1
    <2>3. Cardinality(A \ {w}) = Cardinality(A) - 1
      <3> HIDE DEF A
      <3> QED
        BY <2>1, <2>2, FS_RemoveElement
    <2> QED
      BY <2>2, <2>3 DEF Between
  <1>5. Between(b)' = Between(b) + 1
    <2> DEFINE A == {v \in Workers : At(v, b)}
    <2>1. IsFiniteSet(A)
      BY BetweenIsNumber
    <2>2. A' = (A \cup {w}) /\ w \notin A
      BY <1>2
    <2>3. Cardinality((A \cup {w})) = Cardinality(A) + 1
      <3> HIDE DEF A
      <3> QED
        BY <2>1, <2>2, FS_AddElement
    <2> QED
      BY <2>2, <2>3 DEF Between
  <1> QED
    BY <1>3, <1>4, <1>5

(* The types of the counters without their bounds, which follow from what    *)
(* they add up to.                                                           *)
LoadNumbers ==
    /\ stopped \in BOOLEAN
    /\ worker \in [Workers -> [pc : {"check", "tick", "exchange", "cancel", "total", "verdict", "reason", "loadMax",
                                     "swapMax", "loadMin", "swapMin", "done"},
                               result : {"none", "success", "cancelled"} \cup Reasons,
                               n : Latencies \cup {0}, seen : Latencies \cup {0}]]
    /\ begun \in Int /\ begun <= MaxRequests
    /\ total \in Nat /\ success \in Nat /\ failed \in Nat /\ cancelled \in Nat
    /\ reasons \in [Reasons -> Nat]
    /\ minNanos \in Latencies \cup {0} /\ maxNanos \in Latencies \cup {0} /\ latencies \subseteq Latencies

(* Latencies are numbers, whatever they are. *)
LEMMA LatenciesAreNumbers ==
    LoadNumbers => /\ minNanos \in Nat /\ maxNanos \in Nat
                   /\ \A n \in latencies : n \in Nat /\ n # 0
                   /\ \A v \in Workers : worker[v].n \in Nat /\ worker[v].seen \in Nat
  <1> SUFFICES ASSUME LoadNumbers
               PROVE  /\ minNanos \in Nat /\ maxNanos \in Nat
                      /\ \A n \in latencies : n \in Nat /\ n # 0
                      /\ \A v \in Workers : worker[v].n \in Nat /\ worker[v].seen \in Nat
    OBVIOUS
  <1>1. \A n \in Latencies : n \in Nat /\ n # 0
    BY LatencyAssumption
  <1>2. /\ minNanos \in Latencies \cup {0} /\ maxNanos \in Latencies \cup {0} /\ latencies \subseteq Latencies
        /\ \A v \in Workers : worker[v].n \in Latencies \cup {0} /\ worker[v].seen \in Latencies \cup {0}
    BY DEF LoadNumbers
  <1> QED
    BY <1>1, <1>2

LEMMA SumsBound == LoadNumbers /\ CountersAddUp => LoadTypeOK
  <1> SUFFICES ASSUME LoadNumbers, CountersAddUp PROVE LoadTypeOK
    OBVIOUS
  <1> USE QuotaAssumption DEF LoadNumbers
  <1>1. /\ Between("verdict") \in Nat /\ Between("reason") \in Nat /\ Between("exchange") \in Nat
        /\ Between("cancel") \in Nat /\ Between("total") \in Nat /\ Between("tick") \in Nat
    BY BetweenIsNumber
  <1>2. /\ reasons["timeout"] \in Nat /\ reasons["network"] \in Nat /\ reasons["badResponse"] \in Nat
        /\ begun \in Int /\ begun <= MaxRequests
    BY DEF Reasons
  <1>3. begun \in 0..MaxRequests /\ total <= begun /\ success <= begun /\ failed <= begun /\ cancelled <= begun
    BY <1>1, <1>2 DEF CountersAddUp
  <1>4. reasons["timeout"] <= begun /\ reasons["network"] <= begun /\ reasons["badResponse"] <= begun
    BY <1>1, <1>2, <1>3 DEF CountersAddUp
  <1>5. reasons \in [Reasons -> 0..begun]
    BY <1>2, <1>4 DEF Reasons
  <1> QED
    BY <1>3, <1>5 DEF LoadTypeOK

LEMMA NumbersOfTypes == LoadTypeOK => LoadNumbers
  BY QuotaAssumption DEF LoadTypeOK, LoadNumbers

LEMMA LoadNumbersKept == LoadNumbers /\ OutcomesKnown /\ LoadNext => LoadNumbers'
  <1> SUFFICES ASSUME LoadNumbers, OutcomesKnown, LoadNext PROVE LoadNumbers'
    OBVIOUS
  <1> USE QuotaAssumption, LatencyAssumption DEF LoadNumbers, Goto, At, counters
  <1>1. CASE Stop
    BY <1>1 DEF Stop
  <1>2. ASSUME NEW w \in Workers, Check(w) PROVE LoadNumbers'
    BY <1>2 DEF Check
  <1>2a. ASSUME NEW w \in Workers, AwaitTick(w) PROVE LoadNumbers'
    BY <1>2a DEF AwaitTick
  <1>3. ASSUME NEW w \in Workers, Returns(w) PROVE LoadNumbers'
    BY <1>3 DEF Returns, Exchange
  <1>4. ASSUME NEW w \in Workers, Cancelled(w) PROVE LoadNumbers'
    BY <1>4 DEF Cancelled
  <1>5. ASSUME NEW w \in Workers, Total(w) PROVE LoadNumbers'
    BY <1>5 DEF Total
  <1>6. ASSUME NEW w \in Workers, Verdict(w) PROVE LoadNumbers'
    BY <1>6 DEF Verdict
  <1>7. ASSUME NEW w \in Workers, Reason(w) PROVE LoadNumbers'
    BY <1>7 DEF Reason, OutcomesKnown
  <1>8. ASSUME NEW w \in Workers, LoadMax(w) PROVE LoadNumbers'
    BY <1>8 DEF LoadMax
  <1>9. ASSUME NEW w \in Workers, SwapMax(w) PROVE LoadNumbers'
    BY <1>9 DEF SwapMax
  <1>10. ASSUME NEW w \in Workers, LoadMin(w) PROVE LoadNumbers'
    BY <1>10 DEF LoadMin, OutcomesKnown, Recorded
  <1>11. ASSUME NEW w \in Workers, SwapMin(w) PROVE LoadNumbers'
    BY <1>11 DEF SwapMin, OutcomesKnown, Recorded
  <1> QED
    BY <1>1, <1>2, <1>2a, <1>3, <1>4, <1>5, <1>6, <1>7, <1>8, <1>9, <1>10, <1>11 DEF LoadNext, Record

(* What record is told stays what it was told. *)
LEMMA OutcomesKept == LoadNumbers /\ OutcomesKnown /\ LoadNext => OutcomesKnown'
  <1> SUFFICES ASSUME LoadNumbers, OutcomesKnown, LoadNext PROVE OutcomesKnown'
    OBVIOUS
  <1> USE LatencyAssumption DEF LoadNumbers, OutcomesKnown, Recorded, Goto, At
  <1>1. CASE Stop
    BY <1>1 DEF Stop
  <1>2. ASSUME NEW w \in Workers, Check(w) PROVE OutcomesKnown'
    BY <1>2 DEF Check
  <1>2a. ASSUME NEW w \in Workers, AwaitTick(w) PROVE OutcomesKnown'
    BY <1>2a DEF AwaitTick
  <1>3. ASSUME NEW w \in Workers, Returns(w) PROVE OutcomesKnown'
    BY <1>3 DEF Returns, Exchange
  <1>4. ASSUME NEW w \in Workers, Cancelled(w) PROVE OutcomesKnown'
    BY <1>4 DEF Cancelled
  <1>5. ASSUME NEW w \in Workers, Total(w) PROVE OutcomesKnown'
    BY <1>5 DEF Total
  <1>6. ASSUME NEW w \in Workers, Verdict(w) PROVE OutcomesKnown'
    BY <1>6 DEF Verdict
  <1>7. ASSUME NEW w \in Workers, Reason(w) PROVE OutcomesKnown'
    BY <1>7 DEF Reason
  <1>8. ASSUME NEW w \in Workers, LoadMax(w) PROVE OutcomesKnown'
    BY <1>8 DEF LoadMax
  <1>9. ASSUME NEW w \in Workers, SwapMax(w) PROVE OutcomesKnown'
    BY <1>9 DEF SwapMax
  <1>10. ASSUME NEW w \in Workers, LoadMin(w) PROVE OutcomesKnown'
    BY <1>10 DEF LoadMin
  <1>11. ASSUME NEW w \in Workers, SwapMin(w) PROVE OutcomesKnown'
    BY <1>11 DEF SwapMin
  <1> QED
    BY <1>1, <1>2, <1>2a, <1>3, <1>4, <1>5, <1>6, <1>7, <1>8, <1>9, <1>10, <1>11 DEF LoadNext, Record

(* Where a worker has a request that a counter does not have yet. *)
Counted == {"verdict", "reason", "tick", "exchange", "cancel", "total"}

(* Every request begun is in one place: each step of record adds one to the  *)
(* counter its worker was about to add to.                                   *)
LEMMA SumsKept == LoadNumbers /\ OutcomesKnown /\ CountersAddUp /\ LoadNext => CountersAddUp'
  <1> SUFFICES ASSUME LoadNumbers, OutcomesKnown, CountersAddUp, LoadNext PROVE CountersAddUp'
    OBVIOUS
  <1>0. \A pc \in Counted : Between(pc) \in Nat
    BY BetweenIsNumber
  <1>00. /\ total \in Nat /\ success \in Nat /\ failed \in Nat /\ cancelled \in Nat /\ begun \in Int
         /\ reasons["timeout"] \in Nat /\ reasons["network"] \in Nat /\ reasons["badResponse"] \in Nat
    BY QuotaAssumption DEF LoadNumbers, Reasons
  <1>a. ASSUME NEW w \in Workers, NEW a, NEW b, a # b, At(w, a), Goto(w, b) PROVE Moves(w, a, b)
    BY <1>a DEF At, Goto, Moves, LoadNumbers
  <1>b. ASSUME NEW w \in Workers, NEW a, NEW b, a \notin Counted,
               b \notin Counted,
               Moves(w, a, b), UNCHANGED <<counters, begun>>
        PROVE  CountersAddUp'
    <2>1. \A pc \in Counted : Between(pc)' = Between(pc)
      <3> SUFFICES ASSUME NEW pc \in Counted
                   PROVE  Between(pc)' = Between(pc)
        OBVIOUS
      <3>1. {v \in Workers : At(v, pc)}' = {v \in Workers : At(v, pc)}
        BY <1>b DEF Moves, At
      <3> QED
        BY <3>1 DEF Between
    <2> QED
      BY <1>b, <2>1 DEF CountersAddUp, counters, Counted
  <1>1. CASE Stop
    BY <1>1 DEF Stop, counters, CountersAddUp, Between, At
  <1>2. ASSUME NEW w \in Workers, Check(w) PROVE CountersAddUp'
    <2>1. CASE Moves(w, "check", "done") /\ UNCHANGED <<counters, begun>>
      BY <1>b, <2>1 DEF Counted
    <2>2. CASE Moves(w, "check", "tick") /\ UNCHANGED counters /\ begun' = begun + 1
      BY <1>0, <1>00, <2>2, MoveCounts DEF CountersAddUp, counters, Counted
    <2> QED
      BY <1>2, <1>a, <2>1, <2>2 DEF Check
  <1>2a. ASSUME NEW w \in Workers, AwaitTick(w) PROVE CountersAddUp'
    <2>1. CASE Moves(w, "tick", "exchange") /\ UNCHANGED <<counters, begun>>
      BY <1>0, <1>00, <2>1, MoveCounts DEF CountersAddUp, counters, Counted
    <2>2. CASE Moves(w, "tick", "done") /\ UNCHANGED counters /\ begun' = begun - 1
      BY <1>0, <1>00, <2>2, MoveCounts DEF CountersAddUp, counters, Counted
    <2> QED
      BY <1>2a, <1>a, <2>1, <2>2 DEF AwaitTick
  <1>3. ASSUME NEW w \in Workers, Returns(w) PROVE CountersAddUp'
    <2>1. UNCHANGED <<counters, begun>> /\ (Moves(w, "exchange", "cancel") \/ Moves(w, "exchange", "total"))
      BY <1>3 DEF Returns, Exchange, At, Moves, LoadNumbers
    <2>2. CASE Moves(w, "exchange", "cancel")
      BY <1>0, <1>00, <2>1, <2>2, MoveCounts DEF CountersAddUp, counters, Counted
    <2>3. CASE Moves(w, "exchange", "total")
      BY <1>0, <1>00, <2>1, <2>3, MoveCounts DEF CountersAddUp, counters, Counted
    <2> QED
      BY <2>1, <2>2, <2>3
  <1>4. ASSUME NEW w \in Workers, Cancelled(w) PROVE CountersAddUp'
    <2>1. Moves(w, "cancel", "check")
      BY <1>4, <1>a DEF Cancelled
    <2> QED
      BY <1>0, <1>00, <1>4, <2>1, MoveCounts DEF Cancelled, CountersAddUp, Counted
  <1>5. ASSUME NEW w \in Workers, Total(w) PROVE CountersAddUp'
    <2>1. Moves(w, "total", "verdict")
      BY <1>5, <1>a DEF Total
    <2> QED
      BY <1>0, <1>00, <1>5, <2>1, MoveCounts DEF Total, CountersAddUp, Counted
  <1>6. ASSUME NEW w \in Workers, Verdict(w) PROVE CountersAddUp'
    <2>1. CASE worker[w].result = "success"
      <3>1. Moves(w, "verdict", "loadMax")
        BY <1>6, <1>a, <2>1 DEF Verdict
      <3> QED
        BY <1>0, <1>00, <1>6, <2>1, <3>1, MoveCounts DEF Verdict, CountersAddUp, Counted
    <2>2. CASE worker[w].result # "success"
      <3>1. Moves(w, "verdict", "reason")
        BY <1>6, <1>a, <2>2 DEF Verdict
      <3> QED
        BY <1>0, <1>00, <1>6, <2>2, <3>1, MoveCounts DEF Verdict, CountersAddUp, Counted
    <2> QED
      BY <2>1, <2>2
  <1>7. ASSUME NEW w \in Workers, Reason(w) PROVE CountersAddUp'
    <2>1. Moves(w, "reason", "loadMax")
      BY <1>7, <1>a DEF Reason
    <2>2. PICK x \in Reasons : worker[w].result = x /\ reasons' = [reasons EXCEPT ![x] = @ + 1]
      BY <1>7 DEF Reason, OutcomesKnown
    <2>3. reasons'["timeout"] + reasons'["network"] + reasons'["badResponse"]
              = reasons["timeout"] + reasons["network"] + reasons["badResponse"] + 1
      BY <1>00, <2>2 DEF Reasons, LoadNumbers
    <2>4. \A y \in Reasons : reasons'[y] \in Nat
      BY <2>2 DEF Reasons, LoadNumbers
    <2>5. /\ reasons'["timeout"] \in Nat /\ reasons'["network"] \in Nat /\ reasons'["badResponse"] \in Nat
          /\ UNCHANGED <<total, success, failed, cancelled, begun>>
      BY <1>7, <2>4 DEF Reason, Reasons
    <2>6. /\ Between("reason")' = Between("reason") - 1
          /\ Between("verdict")' = Between("verdict") /\ Between("tick")' = Between("tick")
          /\ Between("exchange")' = Between("exchange") /\ Between("cancel")' = Between("cancel")
          /\ Between("total")' = Between("total")
      BY <2>1, MoveCounts
    <2>7. Between("reason") \in Nat
      BY <1>0 DEF Counted
    <2>8. failed' = Between("reason")' + reasons'["timeout"] + reasons'["network"] + reasons'["badResponse"]
      BY <1>00, <2>3, <2>5, <2>6, <2>7 DEF CountersAddUp
    <2> QED
      BY <2>5, <2>6, <2>8 DEF CountersAddUp
  <1>8. ASSUME NEW w \in Workers, LoadMax(w) PROVE CountersAddUp'
    <2>1. Moves(w, "loadMax", "loadMin") \/ Moves(w, "loadMax", "swapMax")
      BY <1>8 DEF LoadMax, At, Moves, LoadNumbers
    <2> QED
      BY <1>8, <1>b, <2>1 DEF LoadMax, Counted
  <1>9. ASSUME NEW w \in Workers, SwapMax(w) PROVE CountersAddUp'
    <2>1. Moves(w, "swapMax", "loadMin") \/ Moves(w, "swapMax", "loadMax")
      BY <1>9, <1>a DEF SwapMax
    <2> QED
      BY <1>9, <1>b, <2>1 DEF SwapMax, Counted
  <1>10. ASSUME NEW w \in Workers, LoadMin(w) PROVE CountersAddUp'
    <2>1. Moves(w, "loadMin", "check") \/ Moves(w, "loadMin", "swapMin")
      BY <1>10 DEF LoadMin, At, Moves, LoadNumbers
    <2> QED
      BY <1>10, <1>b, <2>1 DEF LoadMin, Counted
  <1>11. ASSUME NEW w \in Workers, SwapMin(w) PROVE CountersAddUp'
    <2>1. Moves(w, "swapMin", "check") \/ Moves(w, "swapMin", "loadMin")
      BY <1>11, <1>a DEF SwapMin
    <2> QED
      BY <1>11, <1>b, <2>1 DEF SwapMin, Counted
  <1> QED
    BY <1>1, <1>2, <1>2a, <1>3, <1>4, <1>5, <1>6, <1>7, <1>8, <1>9, <1>10, <1>11 DEF LoadNext, Record

(* A worker that is let through finds room for all: were every other one in  *)
(* flight as well, the quota and one request for each would not be passed.   *)
LEMMA RoomKept == LoadNumbers /\ OutcomesKnown /\ OvershootBounded /\ LoadNext => OvershootBounded'
  <1> SUFFICES ASSUME LoadNumbers, OutcomesKnown, OvershootBounded, LoadNext, ByCount
               PROVE  total' + Cardinality(InFlight') < Quota + Cardinality(Workers)
    BY DEF OvershootBounded
  <1>0. /\ IsFiniteSet(InFlight) /\ Cardinality(InFlight) \in Nat
        /\ IsFiniteSet(InFlight') /\ Cardinality(InFlight') \in Nat
        /\ Cardinality(InFlight') <= Cardinality(Workers) /\ Cardinality(Workers) \in Nat
    <2>1. InFlight \in SUBSET Workers /\ InFlight' \in SUBSET Workers
      BY DEF InFlight
    <2> QED
      BY <2>1, WorkersAssumption, FS_Subset, FS_CardinalityType
  <1>00. total \in Nat /\ total' \in Nat /\ Quota \in Nat
    BY LoadNumbersKept, QuotaAssumption DEF LoadNumbers
  <1>1. total + Cardinality(InFlight) < Quota + Cardinality(Workers)
    BY DEF OvershootBounded
  <1>2. ASSUME InFlight' \subseteq InFlight, UNCHANGED total
        PROVE  total' + Cardinality(InFlight') < Quota + Cardinality(Workers)
    <2>1. Cardinality(InFlight') <= Cardinality(InFlight)
      BY <1>0, <1>2, FS_Subset
    <2> QED
      BY <1>0, <1>00, <1>1, <1>2, <2>1
  <1> USE DEF InFlight, LoadNumbers, At, Goto, counters
  <1>3. CASE Stop
    BY <1>2, <1>3 DEF Stop
  <1>4. ASSUME NEW w \in Workers, Check(w)
        PROVE  total' + Cardinality(InFlight') < Quota + Cardinality(Workers)
    <2>1. CASE stopped \/ total >= Quota
      BY <1>2, <1>4, <2>1 DEF Check
    <2>2. CASE ~(stopped \/ total >= Quota)
      <3>1. total < Quota /\ total' = total
        BY <1>00, <1>4, <2>2 DEF Check
      <3> HIDE DEF InFlight
      <3> QED
        BY <1>0, <1>00, <3>1
    <2> QED
      BY <2>1, <2>2
  <1>4a. ASSUME NEW w \in Workers, AwaitTick(w)
        PROVE  total' + Cardinality(InFlight') < Quota + Cardinality(Workers)
    <2>1. InFlight' \subseteq InFlight /\ UNCHANGED total
      BY <1>4a DEF AwaitTick
    <2> QED
      BY <1>2, <2>1
  <1>5. ASSUME NEW w \in Workers, Returns(w)
        PROVE  total' + Cardinality(InFlight') < Quota + Cardinality(Workers)
    <2>1. InFlight' \subseteq InFlight /\ UNCHANGED total
      BY <1>5 DEF Returns, Exchange
    <2> QED
      BY <1>2, <2>1
  <1>6. ASSUME NEW w \in Workers, Total(w)
        PROVE  total' + Cardinality(InFlight') < Quota + Cardinality(Workers)
    <2>1. InFlight' = InFlight \ {w} /\ w \in InFlight /\ total' = total + 1
      BY <1>6 DEF Total
    <2> HIDE DEF InFlight
    <2>2. Cardinality(InFlight') = Cardinality(InFlight) - 1
      BY <1>0, <2>1, FS_RemoveElement
    <2> QED
      BY <1>0, <1>00, <1>1, <2>1, <2>2
  <1>7. ASSUME NEW w \in Workers, Cancelled(w) \/ Verdict(w) \/ Reason(w) \/ LoadMax(w) \/ SwapMax(w) \/ LoadMin(w) \/ SwapMin(w)
        PROVE  total' + Cardinality(InFlight') < Quota + Cardinality(Workers)
    <2>1. InFlight' \subseteq InFlight /\ UNCHANGED total
      BY <1>7 DEF Cancelled, Verdict, Reason, LoadMax, SwapMax, LoadMin, SwapMin
    <2> QED
      BY <1>2, <2>1
  <1> QED
    BY <1>3, <1>4, <1>4a, <1>5, <1>6, <1>7 DEF LoadNext, Record

(* A compare-and-swap that succeeds finds what it has compared with, so that *)
(* it writes something more extreme; one that fails writes nothing.          *)
LEMMA TrackedKept == LoadNumbers /\ OutcomesKnown /\ ExtremesTracked /\ LoadNext => ExtremesTracked'
  <1> SUFFICES ASSUME LoadNumbers, OutcomesKnown, ExtremesTracked, LoadNext PROVE ExtremesTracked'
    OBVIOUS
  <1>0. /\ minNanos \in Nat /\ maxNanos \in Nat
        /\ \A n \in latencies : n \in Nat /\ n # 0
        /\ \A v \in Workers : worker[v].n \in Nat /\ worker[v].seen \in Nat
    BY LatenciesAreNumbers
  <1> USE LatencyAssumption DEF LoadNumbers, At, Goto
  <1>1. ASSUME UNCHANGED <<minNanos, maxNanos, latencies>>,
               \A v \in Workers : worker'[v].pc \in {"loadMin", "swapMin", "swapMax"} \/ worker[v].pc \in {"loadMin", "swapMin", "swapMax"}
                                      => worker'[v] = worker[v]
        PROVE  ExtremesTracked'
    BY <1>0, <1>1 DEF ExtremesTracked
  <1>2. CASE Stop
    BY <1>1, <1>2 DEF Stop
  <1>3. ASSUME NEW w \in Workers, Check(w) \/ AwaitTick(w) \/ Returns(w) \/ Cancelled(w) \/ Total(w) \/ Verdict(w) \/ Reason(w)
        PROVE  ExtremesTracked'
    <2>1. UNCHANGED <<minNanos, maxNanos, latencies>>
      BY <1>3 DEF Check, AwaitTick, Returns, Exchange, Cancelled, Total, Verdict, Reason
    <2>2. /\ worker[w].pc \in {"check", "tick", "exchange", "cancel", "total", "verdict", "reason"}
          /\ worker'[w].pc \notin {"loadMin", "swapMin", "swapMax"}
          /\ \A v \in Workers \ {w} : worker'[v] = worker[v]
      BY <1>3 DEF Check, AwaitTick, Returns, Exchange, Cancelled, Total, Verdict, Reason
    <2> QED
      BY <1>1, <2>1, <2>2
  <1>4. ASSUME NEW w \in Workers, LoadMax(w) PROVE ExtremesTracked'
    <2>1. /\ UNCHANGED <<minNanos, maxNanos, latencies>> /\ worker[w].pc = "loadMax"
          /\ worker'[w].n = worker[w].n /\ worker'[w].seen = maxNanos
          /\ worker'[w].pc = IF worker[w].n <= maxNanos THEN "loadMin" ELSE "swapMax"
          /\ \A v \in Workers \ {w} : worker'[v] = worker[v]
      BY <1>4 DEF LoadMax
    <2> QED
      BY <1>0, <2>1 DEF ExtremesTracked
  <1>5. ASSUME NEW w \in Workers, SwapMax(w) PROVE ExtremesTracked'
    <2>1. /\ UNCHANGED <<minNanos, latencies>> /\ worker[w].pc = "swapMax"
          /\ worker'[w].n = worker[w].n /\ worker'[w].seen = worker[w].seen
          /\ \A v \in Workers \ {w} : worker'[v] = worker[v]
      BY <1>5 DEF SwapMax
    <2>2. CASE maxNanos = worker[w].seen
      <3>1. maxNanos' = worker[w].n /\ worker'[w].pc = "loadMin" /\ maxNanos < maxNanos' /\ maxNanos' \in Nat
        BY <1>0, <1>5, <2>2 DEF SwapMax, ExtremesTracked
      <3> QED
        BY <1>0, <2>1, <3>1 DEF ExtremesTracked
    <2>3. CASE maxNanos # worker[w].seen
      <3>1. UNCHANGED maxNanos /\ worker'[w].pc = "loadMax"
        BY <1>5, <2>3 DEF SwapMax
      <3> QED
        BY <1>0, <2>1, <3>1 DEF ExtremesTracked
    <2> QED
      BY <2>2, <2>3
  <1>6. ASSUME NEW w \in Workers, LoadMin(w) PROVE ExtremesTracked'
    <2>1. /\ UNCHANGED <<minNanos, maxNanos>> /\ worker[w].pc = "loadMin"
          /\ worker'[w].n = worker[w].n /\ worker'[w].seen = minNanos
          /\ \A v \in Workers \ {w} : worker'[v] = worker[v]
      BY <1>6 DEF LoadMin
    <2>2. CASE minNanos # 0 /\ worker[w].n >= minNanos
      <3>1. latencies' = latencies \cup {worker[w].n} /\ worker'[w].pc = "check" /\ worker[w].n <= maxNanos
        BY <1>6, <2>2 DEF LoadMin, ExtremesTracked
      <3> QED
        BY <1>0, <2>1, <2>2, <3>1 DEF ExtremesTracked
    <2>3. CASE ~(minNanos # 0 /\ worker[w].n >= minNanos)
      <3>1. UNCHANGED latencies /\ worker'[w].pc = "swapMin"
        BY <1>6, <2>3 DEF LoadMin
      <3> QED
        BY <1>0, <2>1, <2>3, <3>1 DEF ExtremesTracked
    <2> QED
      BY <2>2, <2>3
  <1>7. ASSUME NEW w \in Workers, SwapMin(w) PROVE ExtremesTracked'
    <2>1. /\ UNCHANGED maxNanos /\ worker[w].pc = "swapMin" /\ worker[w].n # 0
          /\ worker'[w].n = worker[w].n /\ worker'[w].seen = worker[w].seen
          /\ \A v \in Workers \ {w} : worker'[v] = worker[v]
      BY <1>7 DEF SwapMin, OutcomesKnown, Recorded
    <2>2. CASE minNanos = worker[w].seen
      <3>1. /\ minNanos' = worker[w].n /\ latencies' = latencies \cup {worker[w].n} /\ worker'[w].pc = "check"
            /\ minNanos = 0 \/ minNanos' < minNanos
            /\ worker[w].n <= maxNanos
        BY <1>7, <2>2 DEF SwapMin, ExtremesTracked
      <3> QED
        BY <1>0, <2>1, <3>1 DEF ExtremesTracked
    <2>3. CASE minNanos # worker[w].seen
      <3>1. UNCHANGED <<minNanos, latencies>> /\ worker'[w].pc = "loadMin"
        BY <1>7, <2>3 DEF SwapMin
      <3> QED
        BY <1>0, <2>1, <3>1 DEF ExtremesTracked
    <2> QED
      BY <2>2, <2>3
  <1> QED
    BY <1>2, <1>3, <1>4, <1>5, <1>6, <1>7 DEF LoadNext, Record

(* What is recorded one by one has a largest member: Max is defined. *)
HasLargest == latencies # {} => \E m \in latencies : \A n \in latencies : n <= m

LEMMA LargestKept == LoadNumbers /\ HasLargest /\ LoadNext => HasLargest'
  <1> SUFFICES ASSUME LoadNumbers, HasLargest, LoadNext PROVE HasLargest'
    OBVIOUS
  <1>1. \/ latencies' = latencies
        \/ \E w \in Workers : latencies' = latencies \cup {worker[w].n}
    BY DEF LoadNext, Record, Stop, Check, AwaitTick, Returns, Exchange, Cancelled, Total, Verdict, Reason,
           LoadMax, SwapMax, LoadMin, SwapMin
  <1>2. CASE latencies' = latencies
    BY <1>2 DEF HasLargest
  <1>3. ASSUME NEW w \in Workers, latencies' = latencies \cup {worker[w].n} PROVE HasLargest'
    <2>1. worker[w].n \in Nat /\ \A n \in latencies : n \in Nat
      BY LatenciesAreNumbers
    <2>2. CASE latencies = {}
      BY <1>3, <2>1, <2>2 DEF HasLargest
    <2>3. CASE latencies # {}
      <3>1. PICK m \in latencies : \A n \in latencies : n <= m
        BY <2>3 DEF HasLargest
      <3>2. CASE worker[w].n <= m
        BY <1>3, <3>1, <3>2 DEF HasLargest
      <3>3. CASE ~(worker[w].n <= m)
        BY <1>3, <2>1, <3>1, <3>3 DEF HasLargest
      <3> QED
        BY <3>2, <3>3
    <2> QED
      BY <2>2, <2>3
  <1> QED
    BY <1>1, <1>2, <1>3

LEMMA TrackedIsExact == LoadNumbers /\ ExtremesTracked /\ HasLargest => ExtremesExact
  <1> SUFFICES ASSUME LoadNumbers, ExtremesTracked, HasLargest, latencies # {} PROVE ExtremesExact
    BY DEF ExtremesExact
  <1>0. minNanos \in Nat /\ maxNanos \in Nat /\ \A n \in latencies : n \in Nat /\ n # 0
    BY LatenciesAreNumbers
  <1> \A x, y \in Nat : x <= y /\ y <= x => x = y
    OBVIOUS
  <1>1. minNanos \in latencies /\ \A n \in latencies : minNanos <= n
    BY DEF ExtremesTracked
  <1>2. Min(latencies) = minNanos
    <2>1. Min(latencies) \in latencies /\ \A n \in latencies : Min(latencies) <= n
      BY <1>1 DEF Min
    <2> QED
      BY <1>0, <1>1, <2>1
  <1>3. Max(latencies) \in latencies /\ \A n \in latencies : n <= Max(latencies)
    <2>1. PICK m \in latencies : \A n \in latencies : m >= n
      BY <1>0 DEF HasLargest
    <2>2. Max(latencies) \in latencies /\ \A n \in latencies : Max(latencies) >= n
      BY <2>1 DEF Max
    <2> QED
      BY <1>0, <2>2
  <1>4. Max(latencies) <= maxNanos
    BY <1>3 DEF ExtremesTracked
  <1>5. ASSUME \A w \in Workers : worker[w].pc \in {"check", "tick", "exchange", "total", "cancel", "done"}
        PROVE  maxNanos = Max(latencies)
    <2>1. maxNanos # 0
      BY <1>0, <1>3, <1>4
    <2>2. maxNanos \in latencies
      BY <1>5, <2>1 DEF ExtremesTracked
    <2> QED
      BY <1>0, <1>3, <1>4, <2>2
  <1> QED
    BY <1>0, <1>2, <1>3, <1>4, <1>5 DEF ExtremesExact

LEMMA LoadInitInv == LoadInit => LoadInv /\ HasLargest
  <1> SUFFICES ASSUME LoadInit PROVE LoadInv /\ HasLargest
    OBVIOUS
  <1> USE DEF LoadInit
  <1>1. LoadNumbers
    <2>1. stopped \in BOOLEAN
      BY Zenon
    <2>2. begun \in 0..MaxRequests
      BY QuotaAssumption
    <2> QED
      BY <2>1, <2>2 DEF LoadNumbers, Reasons
  <1>2. OutcomesKnown /\ ExtremesTracked /\ HasLargest /\ ExtremesExact
    BY DEF OutcomesKnown, Recorded, At, ExtremesTracked, HasLargest, ExtremesExact
  <1>3. \A pc \in Counted : Between(pc) = 0
    <2> SUFFICES ASSUME NEW pc \in Counted PROVE Between(pc) = 0
      OBVIOUS
    <2>1. {w \in Workers : At(w, pc)} = {}
      BY DEF At, Counted
    <2> QED
      BY <2>1, FS_EmptySet DEF Between
  <1>4. CountersAddUp
    BY <1>3 DEF CountersAddUp, Reasons, Counted
  <1>5. OvershootBounded
    <2>1. InFlight = {} /\ Cardinality(InFlight) = 0
      BY FS_EmptySet DEF InFlight
    <2>2. Cardinality(Workers) \in Nat
      BY WorkersAssumption, FS_CardinalityType
    <2> QED
      BY <2>1, <2>2, QuotaAssumption DEF OvershootBounded
  <1> QED
    BY <1>1, <1>2, <1>4, <1>5, SumsBound DEF LoadInv

LEMMA LoadStepKeepsInv == LoadInv /\ HasLargest /\ [LoadNext]_loadVars => (LoadInv /\ HasLargest)'
  <1> SUFFICES ASSUME LoadInv, HasLargest, [LoadNext]_loadVars PROVE (LoadInv /\ HasLargest)'
    OBVIOUS
  <1>1. CASE LoadNext
    <2>1. LoadNumbers
      BY NumbersOfTypes DEF LoadInv
    <2>2. LoadNumbers' /\ CountersAddUp' /\ OutcomesKnown' /\ OvershootBounded' /\ ExtremesTracked' /\ HasLargest'
      BY <1>1, <2>1, LoadNumbersKept, SumsKept, OutcomesKept, RoomKept, TrackedKept, LargestKept DEF LoadInv
    <2>3. LoadTypeOK' /\ ExtremesExact'
      BY <2>2, SumsBound, TrackedIsExact, PTL
    <2> QED
      BY <2>2, <2>3 DEF LoadInv
  <1>2. CASE UNCHANGED loadVars
    BY <1>2 DEF loadVars, counters, LoadInv, HasLargest, LoadTypeOK, CountersAddUp, Between, OutcomesKnown,
                Recorded, At, ExtremesExact, ExtremesTracked, OvershootBounded, InFlight
  <1> QED
    BY <1>1, <1>2

(* The report of any number of workers, of any latencies and any quota: the  *)
(* counters add up, the extremes are those recorded, and a test by count     *)
(* overshoots by less than a request per worker (main.go:146-190, 217-219).  *)
THEOREM ReportAddsUp == LoadSpec => []LoadInv
  <1>1. LoadSpec => [](LoadInv /\ HasLargest)
    BY LoadInitInv, LoadStepKeepsInv, PTL DEF LoadSpec
  <1> QED
    BY <1>1, PTL

-----------------------------------------------------------------------------
(* radbench.  The identifier freeID finds is free: there is a least distance. *)
LEMMA LeastExists ==
  ASSUME NEW S \in SUBSET Nat, S # {}
  PROVE  \E m \in S : \A n \in S : m <= n
  <1> DEFINE R == OpToRel(<, Nat)
  <1>1. IsWellFoundedOn(R, Nat)
    BY NatLessThanWellFounded, Zenon
  <1>2. \A x, y \in Nat : x < y => <<x, y>> \in R
    BY DEF OpToRel
  <1> HIDE DEF R
  <1>3. PICK m \in S : \A y \in S : ~(<<y, m>> \in R)
    BY <1>1, WFMin
  <1>4. \A n \in S : ~(n < m)
    BY <1>2, <1>3
  <1> QED
    BY <1>4

LEMMA FreeIDIsFree ==
  ASSUME BenchTypeOK, NEW c \in Conns, Free(c) # {}
  PROVE  FreeID(c) \in Free(c)
  <1>1. \A i \in Ids : Distance(c, i) \in Nat
    BY SizesAssumption DEF BenchTypeOK, Distance, Ids
  <1> DEFINE S == {Distance(c, i) : i \in Free(c)}
  <1>2. S # {} /\ S \in SUBSET Nat
    BY <1>1 DEF Free
  <1>3. PICK m \in S : \A n \in S : m <= n
    <2> HIDE DEF S
    <2> QED
      BY <1>2, LeastExists
  <1>4. \E i \in Free(c) : \A j \in Free(c) : Distance(c, i) <= Distance(c, j)
    BY <1>3
  <1> QED
    BY <1>4 DEF FreeID

(* The types of one state carry to the next.                                 *)
LEMMA BenchTypesKept == BenchTypeOK /\ ScheduleInOrder /\ GoroutinesOfSent /\ BenchNext => BenchTypeOK'
  <1> SUFFICES ASSUME BenchTypeOK, ScheduleInOrder, GoroutinesOfSent, BenchNext PROVE BenchTypeOK'
    OBVIOUS
  <1> USE RequestsAssumption, NoneAssumption
  <1> DEFINE N == Cardinality(Requests)
             What == {"answer", "timeout", "sendErr", "noFreeID"}
  <1>0. N \in Nat /\ Requests = 1..N /\ 0 \in Conns /\ 0 \in Ids
    BY FS_CardinalityType, SizesAssumption DEF Conns, Ids
  <1>1. CASE Send
    <2> DEFINE c == next  r == main.req
    <2>1. c \in Conns /\ r \in Requests
      BY <1>1 DEF Send, BenchTypeOK
    <2>2. next' \in Conns
      BY <1>1, <2>1, SizesAssumption DEF Send, Conns
    <2>3. CASE Free(c) # {}
      <3>1. FreeID(c) \in Ids
        BY <2>1, <2>3, FreeIDIsFree DEF Free
      <3>2. After(FreeID(c)) \in Ids
        BY <3>1, SizesAssumption DEF After, Ids
      <3>3. /\ pending' = [pending EXCEPT ![c][FreeID(c)] = r] /\ nextID' = [nextID EXCEPT ![c] = After(FreeID(c))]
            /\ slot' = [slot EXCEPT ![r] = <<c, FreeID(c)>>] /\ timer' = [timer EXCEPT ![r] = "armed"]
            /\ main' = [main EXCEPT !.pc = "write"]
            /\ UNCHANGED <<answers, served, forged, reader, expired, counted>>
        BY <1>1, <2>3 DEF Send
      <3> HIDE DEF c, r
      <3>4. /\ pending' \in [Conns -> [Ids -> Requests \cup {None}]]
            /\ nextID' \in [Conns -> Ids]
        BY <2>1, <3>1, <3>2, <3>3 DEF BenchTypeOK
      <3>5. /\ slot' \in [Requests -> Conns \X Ids]
            /\ timer' \in [Requests -> {"off", "armed", "fired", "stopped", "ended"}]
        BY <2>1, <3>1, <3>3 DEF BenchTypeOK
      <3>6. main' \in [pc : {"loop", "write", "wait", "printed"}, req : 1..(N + 1), tries : 0..NConns]
        BY <3>3 DEF BenchTypeOK
      <3> QED
        BY <2>2, <3>3, <3>4, <3>5, <3>6 DEF BenchTypeOK
    <2>4. CASE Free(c) = {}
      <3>1. main.tries + 1 \in 0..NConns
        BY <1>1, SizesAssumption DEF Send, BenchTypeOK
      <3> QED
        BY <1>1, <2>2, <2>4, <3>1 DEF Send, BenchTypeOK
    <2> QED
      BY <2>3, <2>4
  <1>g. ASSUME NEW r \in Requests PROVE GoOn(r) \in [pc : {"loop", "write", "wait", "printed"}, req : 1..(N + 1), tries : 0..NConns]
    BY <1>0, SizesAssumption DEF GoOn
  <1>c. ASSUME NEW r \in Requests, NEW w \in What, Count(r, w)
        PROVE  counted' \in [Requests -> SUBSET What]
    BY <1>c DEF Count, BenchTypeOK
  <1>l. ASSUME NEW r \in Requests, Clear(r) PROVE pending' \in [Conns -> [Ids -> Requests \cup {None}]]
    <2>1. slot[r][1] \in Conns /\ slot[r][2] \in Ids
      BY DEF BenchTypeOK
    <2> QED
      BY <1>l, <2>1 DEF Clear, BenchTypeOK
  <1>2. CASE NoFreeID
    BY <1>2, <1>g, <1>c DEF NoFreeID, BenchTypeOK
  <1>3. CASE Write
    BY <1>3, <1>g DEF Write, BenchTypeOK, ScheduleInOrder
  <1>4. CASE WriteFails
    BY <1>4, <1>g, <1>c, <1>l DEF WriteFails, BenchTypeOK, ScheduleInOrder
  <1>5. ASSUME NEW r \in Requests, Fire(r) PROVE BenchTypeOK'
    BY <1>5 DEF Fire, BenchTypeOK
  <1>6. ASSUME NEW r \in Requests, Expire(r) PROVE BenchTypeOK'
    BY <1>6, <1>l DEF Expire, BenchTypeOK
  <1>7. ASSUME NEW r \in Requests, CountTimeout(r) PROVE BenchTypeOK'
    BY <1>7, <1>c DEF CountTimeout, BenchTypeOK
  <1>8. ASSUME NEW r \in Requests, ReadAnswer(r) PROVE BenchTypeOK'
    <2>1. answers' \in [Requests -> 0..Copies]
      BY <1>8, SizesAssumption DEF ReadAnswer, BenchTypeOK
    <2>2. slot[r][1] \in Conns
      BY DEF BenchTypeOK
    <2>3. timer' \in [Requests -> {"off", "armed", "fired", "stopped", "ended"}]
      <3> DEFINE t == IF timer[r] = "armed" THEN "stopped" ELSE timer[r]
      <3>1. timer' = timer \/ timer' = [timer EXCEPT ![r] = t]
        BY <1>8 DEF ReadAnswer
      <3>2. t \in {"off", "armed", "fired", "stopped", "ended"}
        BY DEF BenchTypeOK
      <3> HIDE DEF t
      <3> QED
        BY <3>1, <3>2 DEF BenchTypeOK
    <2>4. reader' \in [Conns -> Requests \cup {None}]
      BY <1>8, <2>2 DEF ReadAnswer, BenchTypeOK
    <2>5. pending' \in [Conns -> [Ids -> Requests \cup {None}]]
      BY <1>8, <1>l DEF ReadAnswer, BenchTypeOK
    <2> QED
      BY <1>8, <2>1, <2>3, <2>4, <2>5 DEF ReadAnswer, BenchTypeOK
  <1>9. ASSUME NEW c \in Conns, CountAnswer(c) PROVE BenchTypeOK'
    BY <1>9, <1>c DEF CountAnswer, BenchTypeOK
  <1>10. ASSUME NEW c \in Conns, NEW i \in Ids, ReadForged(c, i) PROVE BenchTypeOK'
    BY <1>10 DEF ReadForged, BenchTypeOK
  <1>11. CASE EndLoop \/ PrintStats
    BY <1>11 DEF EndLoop, PrintStats, BenchTypeOK
  <1> QED
    BY <1>1, <1>2, <1>3, <1>4, <1>5, <1>6, <1>7, <1>8, <1>9, <1>10, <1>11 DEF BenchNext

(* What a step of main leaves behind is in the order of the schedule; the    *)
(* other goroutines touch no request that main has not sent.                 *)
LEMMA ScheduleKept ==
  BenchTypeOK /\ ScheduleInOrder /\ GoroutinesOfSent /\ BenchNext => ScheduleInOrder'
  <1> SUFFICES ASSUME BenchTypeOK, ScheduleInOrder, GoroutinesOfSent, BenchNext PROVE ScheduleInOrder'
    OBVIOUS
  <1> USE RequestsAssumption, NoneAssumption
  <1>0. Cardinality(Requests) \in Nat /\ Requests \subseteq Nat /\ main.req \in Nat
    BY FS_CardinalityType DEF BenchTypeOK
  <1>1. CASE Send
    <2>1. PICK r \in Requests : r = main.req /\ main.pc = "loop" /\ main'.req = r /\ counted' = counted
      BY <1>1 DEF Send, BenchTypeOK
    <2>2. \/ main'.pc = "write" /\ timer' = [timer EXCEPT ![r] = "armed"]
          \/ main'.pc = "loop" /\ timer' = timer
      BY <1>1, <2>1 DEF Send, BenchTypeOK
    <2>3. /\ main'.pc = "write" => Sent(r)'
          /\ \A q \in Requests \ {r} : Sent(q)' <=> Sent(q)
      BY <2>1, <2>2 DEF Sent, BenchTypeOK
    <2>4. main'.pc # "write" => \A q \in Requests : Sent(q)' <=> Sent(q)
      BY <2>2 DEF Sent
    <2>5. \A q \in Requests : q > r \/ (q = r /\ main'.pc # "write") => ~Sent(q)' /\ counted'[q] = {}
      <3>1. \A q \in Requests : q > r => q # r
        BY <1>0, <2>1
      <3>2. \A q \in Requests : q > r \/ q = r => ~Sent(q) /\ counted[q] = {}
        BY <2>1 DEF ScheduleInOrder
      <3> QED
        BY <2>1, <2>3, <2>4, <3>1, <3>2
    <2> QED
      BY <2>1, <2>3, <2>5 DEF ScheduleInOrder
  <1>2. CASE NoFreeID
    BY <1>0, <1>2 DEF NoFreeID, Count, GoOn, ScheduleInOrder, BenchTypeOK, Sent
  <1>3. CASE Write
    BY <1>0, <1>3 DEF Write, GoOn, ScheduleInOrder, BenchTypeOK, Sent
  <1>4. CASE WriteFails
    <2>1. \A q \in Requests : Sent(q)' <=> Sent(q)
      BY <1>4 DEF WriteFails, Sent, BenchTypeOK
    <2>2. /\ main.pc = "write" /\ main'.pc = "loop" /\ main'.req = main.req + 1
          /\ \A q \in Requests \ {main.req} : counted'[q] = counted[q]
      BY <1>4 DEF WriteFails, Count, GoOn, BenchTypeOK
    <2>3. \A q \in Requests : q >= main.req + 1 => q > main.req /\ q # main.req
      BY <1>0
    <2>4. \A q \in Requests : q > main.req + 1 => q >= main.req + 1
      BY <1>0
    <2> QED
      BY <2>1, <2>2, <2>3, <2>4, <1>0 DEF ScheduleInOrder
  <1>5. ASSUME NEW r \in Requests, Sent(r), UNCHANGED main,
               \A q \in Requests \ {r} : counted'[q] = counted[q],
               \A q \in Requests : Sent(q)' <=> Sent(q)
        PROVE  ScheduleInOrder'
    BY <1>5 DEF ScheduleInOrder
  <1>6. ASSUME NEW r \in Requests, Fire(r) \/ Expire(r) \/ CountTimeout(r) \/ ReadAnswer(r) PROVE ScheduleInOrder'
    <2>1. Sent(r)
      BY <1>6 DEF Fire, Expire, CountTimeout, ReadAnswer, GoroutinesOfSent, Sent, BenchTypeOK
    <2>2. UNCHANGED main /\ \A q \in Requests \ {r} : counted'[q] = counted[q]
      BY <1>6 DEF Fire, Expire, CountTimeout, ReadAnswer, Count, BenchTypeOK
    <2>3. \A q \in Requests : Sent(q)' <=> Sent(q)
      BY <1>6 DEF Fire, Expire, CountTimeout, ReadAnswer, Sent, BenchTypeOK
    <2> QED
      BY <1>5, <2>1, <2>2, <2>3
  <1>7. ASSUME NEW c \in Conns, CountAnswer(c) PROVE ScheduleInOrder'
    <2>1. PICK r \in Requests : r = reader[c] /\ Sent(r)
      BY <1>7 DEF CountAnswer, GoroutinesOfSent, BenchTypeOK
    <2>2. UNCHANGED main /\ \A q \in Requests \ {r} : counted'[q] = counted[q]
      BY <1>7, <2>1 DEF CountAnswer, Count, BenchTypeOK
    <2>3. \A q \in Requests : Sent(q)' <=> Sent(q)
      BY <1>7 DEF CountAnswer, Sent
    <2> QED
      BY <1>5, <2>1, <2>2, <2>3
  <1>8. ASSUME NEW c \in Conns, NEW i \in Ids, ReadForged(c, i) PROVE ScheduleInOrder'
    BY <1>8 DEF ReadForged, ScheduleInOrder, Sent
  <1>9. CASE EndLoop \/ PrintStats
    BY <1>9 DEF EndLoop, PrintStats, ScheduleInOrder, BenchTypeOK, Sent
  <1> QED
    BY <1>1, <1>2, <1>3, <1>4, <1>6, <1>7, <1>8, <1>9 DEF BenchNext

(* A goroutine deals with a request from when it is sent, and no earlier.    *)
LEMMA GoroutinesKept ==
  BenchTypeOK /\ ScheduleInOrder /\ GoroutinesOfSent /\ BenchNext => GoroutinesOfSent'
  <1> SUFFICES ASSUME BenchTypeOK, ScheduleInOrder, GoroutinesOfSent, BenchNext PROVE GoroutinesOfSent'
    OBVIOUS
  <1> USE SizesAssumption, NoneAssumption
  <1>1. CASE Send
    <2>1. main.req \in Requests /\ ~Sent(main.req)
      BY <1>1 DEF Send, ScheduleInOrder
    <2>2. UNCHANGED <<answers, served, reader, expired>>
      BY <1>1 DEF Send
    <2>3. \A q \in Requests : Sent(q) => Sent(q)' /\ slot'[q] = slot[q]
      BY <1>1, <2>1 DEF Send, Sent, BenchTypeOK
    <2> QED
      BY <2>2, <2>3 DEF GoroutinesOfSent, BenchTypeOK
  <1>2. CASE NoFreeID
    BY <1>2 DEF NoFreeID, GoroutinesOfSent, Sent
  <1>3. CASE Write
    BY <1>3 DEF Write, GoroutinesOfSent, ScheduleInOrder, Sent, BenchTypeOK
  <1>4. CASE WriteFails
    <2>1. \A q \in Requests : Sent(q)' <=> Sent(q)
      BY <1>4 DEF WriteFails, Sent, BenchTypeOK
    <2> QED
      BY <1>4, <2>1 DEF WriteFails, GoroutinesOfSent, BenchTypeOK
  <1>5. ASSUME NEW r \in Requests, Fire(r) PROVE GoroutinesOfSent'
    <2>1. \A q \in Requests : Sent(q)' <=> Sent(q)
      BY <1>5 DEF Fire, Sent, BenchTypeOK
    <2> QED
      BY <1>5, <2>1 DEF Fire, GoroutinesOfSent, BenchTypeOK
  <1>6. ASSUME NEW r \in Requests, Expire(r) PROVE GoroutinesOfSent'
    <2>1. Sent(r) /\ \A q \in Requests : Sent(q)' <=> Sent(q)
      BY <1>6 DEF Expire, Sent, BenchTypeOK
    <2> QED
      BY <1>6, <2>1 DEF Expire, GoroutinesOfSent, BenchTypeOK
  <1>7. ASSUME NEW r \in Requests, CountTimeout(r) PROVE GoroutinesOfSent'
    BY <1>7 DEF CountTimeout, GoroutinesOfSent, Sent
  <1>8. ASSUME NEW r \in Requests, ReadAnswer(r) PROVE GoroutinesOfSent'
    <2>1. Sent(r) /\ slot[r][1] \in Conns
      BY <1>8 DEF ReadAnswer, GoroutinesOfSent, BenchTypeOK
    <2>2. \A q \in Requests : Sent(q)' <=> Sent(q)
      BY <1>8 DEF ReadAnswer, Sent, BenchTypeOK
    <2>3. \A q \in Requests : /\ answers[q] = 0 => answers'[q] = 0
                              /\ answers'[q] > 0 => answers[q] > 0
      BY <1>8 DEF ReadAnswer, BenchTypeOK
    <2>4. \A c \in Conns : reader'[c] = reader[c] \/ (c = slot[r][1] /\ reader'[c] = r)
      BY <1>8, <2>1 DEF ReadAnswer, BenchTypeOK
    <2>5. UNCHANGED <<slot, served, expired>>
      BY <1>8 DEF ReadAnswer
    <2> QED
      BY <2>1, <2>2, <2>3, <2>4, <2>5 DEF GoroutinesOfSent, BenchTypeOK
  <1>9. ASSUME NEW c \in Conns, CountAnswer(c) PROVE GoroutinesOfSent'
    BY <1>9 DEF CountAnswer, GoroutinesOfSent, Sent, BenchTypeOK
  <1>10. ASSUME NEW c \in Conns, NEW i \in Ids, ReadForged(c, i) PROVE GoroutinesOfSent'
    BY <1>10 DEF ReadForged, GoroutinesOfSent, Sent
  <1>11. CASE EndLoop \/ PrintStats
    BY <1>11 DEF EndLoop, PrintStats, GoroutinesOfSent, Sent
  <1> QED
    BY <1>1, <1>2, <1>3, <1>4, <1>5, <1>6, <1>7, <1>8, <1>9, <1>10, <1>11 DEF BenchNext

(* What is read from a slot is the answer the server made for who is in it.  *)
LEMMA OwnAnswersKept ==
  BenchTypeOK /\ ScheduleInOrder /\ GoroutinesOfSent /\ AnswersAreOwn /\ BenchNext => AnswersAreOwn'
  <1> SUFFICES ASSUME BenchTypeOK, ScheduleInOrder, GoroutinesOfSent, AnswersAreOwn, BenchNext,
                      NEW q \in Requests, (\E c \in Conns : reader'[c] = q) \/ "answer" \in counted'[q]
               PROVE  q \in served'
    BY DEF AnswersAreOwn
  <1> USE NoneAssumption
  <1>1. served \subseteq served'
    BY DEF BenchNext, Send, NoFreeID, Write, WriteFails, EndLoop, PrintStats, Fire, Expire, CountTimeout,
           ReadAnswer, CountAnswer, ReadForged
  <1>2. CASE (\E c \in Conns : reader[c] = q) \/ "answer" \in counted[q]
    BY <1>1, <1>2 DEF AnswersAreOwn
  <1>3. CASE ~((\E c \in Conns : reader[c] = q) \/ "answer" \in counted[q])
    <2>1. ASSUME NEW r \in Requests, ReadAnswer(r) PROVE q \in served
      <3>1. r \in served
        BY <2>1 DEF ReadAnswer, GoroutinesOfSent
      <3>2. r = q
        BY <1>3, <2>1 DEF ReadAnswer, BenchTypeOK
      <3> QED
        BY <3>1, <3>2
    <2>2. ASSUME NEW c \in Conns, CountAnswer(c) PROVE FALSE
      <3>1. reader[c] # q /\ reader[c] \in Requests
        BY <1>3, <2>2 DEF CountAnswer, BenchTypeOK
      <3>2. counted'[q] = counted[q] /\ \A d \in Conns : reader'[d] = q => reader[d] = q
        BY <2>2, <3>1 DEF CountAnswer, Count, BenchTypeOK
      <3> QED
        BY <1>3, <3>2
    <2>3. ASSUME UNCHANGED reader, \A r \in Requests : "answer" \in counted'[r] => "answer" \in counted[r]
          PROVE  FALSE
      BY <1>3, <2>3
    <2>4. ASSUME NEW r \in Requests, NEW w \in {"timeout", "sendErr", "noFreeID"}, UNCHANGED reader, Count(r, w)
          PROVE  FALSE
      BY <2>3, <2>4 DEF Count, BenchTypeOK
    <2>5. ASSUME UNCHANGED <<reader, counted>> PROVE FALSE
      BY <2>3, <2>5
    <2> QED
      BY <1>1, <2>1, <2>2, <2>4, <2>5
      DEF BenchNext, Send, NoFreeID, Write, WriteFails, EndLoop, PrintStats, Fire, Expire, CountTimeout,
          ReadForged, ScheduleInOrder
  <1> QED
    BY <1>2, <1>3

(* Where a request is, with a set for the number of places.                  *)
Accounted(r) == (\E p : Places(r) = {p}) \/ (Places(r) = {} /\ "sendErr" \in counted[r])
Reading(r)   == \E c \in Conns : reader[c] = r

(* The number of places, without counting.                                   *)
LEMMA PlacesCounted ==
  BenchTypeOK => (EachRequestOnce <=> \A r \in Requests : Sent(r) => Accounted(r))
  <1> SUFFICES ASSUME BenchTypeOK, NEW r \in Requests
               PROVE  Cardinality(Places(r)) = 1 <=> \E p : Places(r) = {p}
    BY DEF EachRequestOnce, Accounted
  <1>1. Places(r) \subseteq {"slot", "reader", "expire", "answer", "timeout", "noFreeID"}
    <2>1. counted[r] \subseteq {"answer", "timeout", "sendErr", "noFreeID"}
      BY DEF BenchTypeOK
    <2> QED
      BY <2>1 DEF Places
  <1>2. IsFiniteSet({"slot", "reader", "expire", "answer", "timeout", "noFreeID"})
    <2>1. IsFiniteSet({} \cup {"slot"} \cup {"reader"} \cup {"expire"})
      BY FS_EmptySet, FS_AddElement
    <2>2. IsFiniteSet({} \cup {"slot"} \cup {"reader"} \cup {"expire"} \cup {"answer"} \cup {"timeout"} \cup {"noFreeID"})
      BY <2>1, FS_AddElement
    <2>3. {} \cup {"slot"} \cup {"reader"} \cup {"expire"} \cup {"answer"} \cup {"timeout"} \cup {"noFreeID"}
          = {"slot", "reader", "expire", "answer", "timeout", "noFreeID"}
      OBVIOUS
    <2> QED
      BY <2>2, <2>3
  <1>3. IsFiniteSet(Places(r))
    BY <1>1, <1>2, FS_Subset
  <1> QED
    BY <1>3, FS_Singleton

(* Who is in one place is in no other.                                       *)
LEMMA InNoOtherPlace ==
  ASSUME BenchTypeOK, NEW r \in Requests, Accounted(r)
  PROVE  /\ InSlot(r) => ~Reading(r) /\ r \notin expired /\ counted[r] \subseteq {"sendErr"}
         /\ Reading(r) => ~InSlot(r) /\ r \notin expired /\ counted[r] \subseteq {"sendErr"}
         /\ r \in expired => ~InSlot(r) /\ ~Reading(r) /\ counted[r] \subseteq {"sendErr"}
  <1>1. counted[r] \subseteq {"answer", "timeout", "sendErr", "noFreeID"}
    BY DEF BenchTypeOK
  <1>2. /\ InSlot(r) => "slot" \in Places(r)
        /\ Reading(r) => "reader" \in Places(r)
        /\ r \in expired => "expire" \in Places(r)
        /\ \A w \in counted[r] : w # "sendErr" => w \in Places(r)
    BY DEF Places, Reading
  <1>3. \A p, q \in Places(r) : p = q
    BY DEF Accounted
  <1>4. ASSUME NEW p \in {"slot", "reader", "expire"}, p \in Places(r) PROVE counted[r] \subseteq {"sendErr"}
    BY <1>1, <1>2, <1>3, <1>4
  <1> QED
    BY <1>2, <1>3, <1>4

(* A request stays accounted for by a step that leaves its places alone.     *)
LEMMA PlacesUnmoved ==
  ASSUME NEW q \in Requests, InSlot(q)' <=> InSlot(q), Reading(q)' <=> Reading(q), q \in expired' <=> q \in expired,
         counted'[q] = counted[q]
  PROVE  Accounted(q)' <=> Accounted(q)
  <1>1. Places(q)' = Places(q)
    BY DEF Places, Reading
  <1> QED
    BY <1>1 DEF Accounted

(* Who leaves his slot leaves all others in theirs.                          *)
LEMMA ClearedSlot ==
  ASSUME BenchTypeOK, NEW r \in Requests, InSlot(r), Clear(r), slot' = slot
  PROVE  ~InSlot(r)' /\ \A q \in Requests \ {r} : InSlot(q)' <=> InSlot(q)
  <1>1. PICK c \in Conns, i \in Ids : slot[r] = <<c, i>>
    BY DEF BenchTypeOK
  <1>2. /\ pending[c][i] = r /\ pending'[c][i] = None
        /\ \A d \in Conns, j \in Ids : <<d, j>> # <<c, i>> => pending'[d][j] = pending[d][j]
    BY <1>1 DEF InSlot, Clear, BenchTypeOK
  <1>3. \A q \in Requests : slot'[q] = slot[q] /\ \E d \in Conns, j \in Ids : slot[q] = <<d, j>>
    BY DEF BenchTypeOK
  <1> QED
    BY <1>1, <1>2, <1>3, NoneAssumption DEF InSlot

(* A slot that is taken was free: nobody else is put out of his.             *)
LEMMA TakenSlot ==
  ASSUME BenchTypeOK, NEW r \in Requests, NEW c \in Conns, NEW i \in Ids, pending[c][i] = None,
         pending' = [pending EXCEPT ![c][i] = r], slot' = [slot EXCEPT ![r] = <<c, i>>]
  PROVE  InSlot(r)' /\ \A q \in Requests \ {r} : InSlot(q)' <=> InSlot(q)
  <1>1. /\ pending'[c][i] = r
        /\ \A d \in Conns, j \in Ids : <<d, j>> # <<c, i>> => pending'[d][j] = pending[d][j]
    BY DEF BenchTypeOK
  <1>2. slot'[r] = <<c, i>> /\ \A q \in Requests \ {r} : slot'[q] = slot[q]
    BY DEF BenchTypeOK
  <1>3. \A q \in Requests : \E d \in Conns, j \in Ids : slot[q] = <<d, j>>
    BY DEF BenchTypeOK
  <1> QED
    BY <1>1, <1>2, <1>3, NoneAssumption DEF InSlot

(* One place follows the other.                                              *)
LEMMA RequestsKept ==
  ASSUME BenchTypeOK, ScheduleInOrder, GoroutinesOfSent, BenchNext,
         \A r \in Requests : Sent(r) => Accounted(r)
  PROVE  \A r \in Requests : Sent(r)' => Accounted(r)'
  <1> USE NoneAssumption
  <1> DEFINE Same(q) == /\ InSlot(q)' <=> InSlot(q)
                        /\ Reading(q)' <=> Reading(q)
                        /\ q \in expired' <=> q \in expired
                        /\ counted'[q] = counted[q]
             Others(r) == \A q \in Requests \ {r} : Same(q) /\ (Sent(q)' => Sent(q))
  <1>a. ASSUME NEW q \in Requests, Same(q), Sent(q)' => Sent(q) PROVE Sent(q)' => Accounted(q)'
    BY <1>a, PlacesUnmoved
  <1>b. ASSUME NEW r \in Requests, Others(r), Sent(r)' => Accounted(r)'
        PROVE  \A q \in Requests : Sent(q)' => Accounted(q)'
    BY <1>a, <1>b
  <1>c. ASSUME UNCHANGED <<pending, slot, reader, expired, counted>>, \A q \in Requests : Sent(q)' => Sent(q)
        PROVE  \A q \in Requests : Sent(q)' => Accounted(q)'
    <2>1. \A q \in Requests : Same(q)
      BY <1>c DEF InSlot, Reading
    <2> QED
      BY <1>a, <1>c, <2>1
  <1> HIDE DEF Others
  <1>1. CASE Send
    <2>1. PICK r \in Requests, c \in Conns : r = main.req /\ c = next /\ main.pc = "loop"
      BY <1>1 DEF Send, BenchTypeOK
    <2>2. UNCHANGED <<reader, expired, counted>>
      BY <1>1 DEF Send
    <2>3. CASE Free(c) = {}
      BY <1>1, <1>c, <2>1, <2>2, <2>3 DEF Send, Sent
    <2>4. CASE Free(c) # {}
      <3>1. PICK i \in Ids : i = FreeID(c) /\ pending[c][i] = None
        BY <2>4, FreeIDIsFree DEF Free
      <3>2. /\ pending' = [pending EXCEPT ![c][i] = r] /\ slot' = [slot EXCEPT ![r] = <<c, i>>]
            /\ timer' = [timer EXCEPT ![r] = "armed"]
        BY <1>1, <2>1, <2>4, <3>1 DEF Send
      <3>3. InSlot(r)' /\ \A q \in Requests \ {r} : InSlot(q)' <=> InSlot(q)
        BY <3>1, <3>2, TakenSlot
      <3>4. ~Sent(r) /\ counted[r] = {}
        BY <2>1 DEF ScheduleInOrder
      <3>5. r \notin expired /\ ~Reading(r)
        BY <3>4 DEF GoroutinesOfSent, Reading
      <3>6. \A q \in Requests \ {r} : Sent(q)' => Sent(q)
        BY <3>2 DEF Sent, BenchTypeOK
      <3>7. Places(r)' = {"slot"}
        BY <2>2, <3>3, <3>4, <3>5 DEF Places, Reading
      <3> QED
        BY <1>b, <2>2, <3>3, <3>6, <3>7 DEF Others, Accounted, Reading
    <2> QED
      BY <2>3, <2>4
  <1>2. CASE NoFreeID
    <2>1. PICK r \in Requests : r = main.req /\ main.pc = "loop"
      BY <1>2 DEF NoFreeID
    <2>2. \A q \in Requests \ {r} : counted'[q] = counted[q]
      BY <1>2, <2>1 DEF NoFreeID, Count, BenchTypeOK
    <2>3. ~Sent(r)' /\ \A q \in Requests : Sent(q)' => Sent(q)
      BY <1>2, <2>1 DEF NoFreeID, ScheduleInOrder, Sent
    <2>4. \A q \in Requests : (InSlot(q)' <=> InSlot(q)) /\ (Reading(q)' <=> Reading(q)) /\ (q \in expired' <=> q \in expired)
      BY <1>2 DEF NoFreeID, InSlot, Reading
    <2> QED
      BY <1>b, <2>2, <2>3, <2>4 DEF Others
  <1>3. CASE Write
    BY <1>3, <1>c DEF Write, Sent
  <1>4. CASE WriteFails
    <2>1. PICK r \in Requests : r = main.req /\ Sent(r)
      BY <1>4 DEF WriteFails, ScheduleInOrder
    <2>2. /\ UNCHANGED <<slot, reader, expired>>
          /\ counted'[r] = counted[r] \cup {"sendErr"} /\ \A q \in Requests \ {r} : counted'[q] = counted[q]
      BY <1>4, <2>1 DEF WriteFails, Count, BenchTypeOK
    <2>3. \A q \in Requests : Sent(q)' => Sent(q)
      BY <1>4, <2>1 DEF WriteFails, Sent, BenchTypeOK
    <2>4. CASE InSlot(r)
      <3>1. Clear(r)
        BY <1>4, <2>1, <2>4 DEF WriteFails
      <3>2. ~InSlot(r)' /\ \A q \in Requests \ {r} : InSlot(q)' <=> InSlot(q)
        BY <2>2, <2>4, <3>1, ClearedSlot
      <3>3. ~Reading(r) /\ r \notin expired /\ counted[r] \subseteq {"sendErr"}
        BY <2>1, <2>4, InNoOtherPlace
      <3>4. Places(r)' = {}
        BY <2>2, <3>2, <3>3 DEF Places, Reading
      <3> QED
        BY <1>b, <2>2, <2>3, <3>2, <3>4 DEF Others, Accounted, Reading
    <2>5. CASE ~InSlot(r)
      <3>1. \A q \in Requests : InSlot(q)' <=> InSlot(q)
        BY <1>4, <2>1, <2>5 DEF WriteFails, InSlot
      <3>2. Places(r)' = Places(r)
        BY <2>2, <3>1 DEF Places
      <3> QED
        <4>1. Accounted(r)'
          BY <2>1, <2>2, <3>2 DEF Accounted
        <4> QED
          BY <1>b, <2>2, <2>3, <3>1, <4>1 DEF Others, Reading
    <2> QED
      BY <2>4, <2>5
  <1>5. ASSUME NEW r \in Requests, Fire(r) PROVE \A q \in Requests : Sent(q)' => Accounted(q)'
    BY <1>5, <1>c DEF Fire, Sent, BenchTypeOK
  <1>6. ASSUME NEW r \in Requests, Expire(r) PROVE \A q \in Requests : Sent(q)' => Accounted(q)'
    <2>1. Sent(r) /\ \A q \in Requests : Sent(q)' => Sent(q)
      BY <1>6 DEF Expire, Sent, BenchTypeOK
    <2>2. CASE InSlot(r)
      <3>1. Clear(r) /\ expired' = expired \cup {r} /\ UNCHANGED <<slot, reader, counted>>
        BY <1>6, <2>2 DEF Expire
      <3>2. ~InSlot(r)' /\ \A q \in Requests \ {r} : InSlot(q)' <=> InSlot(q)
        BY <2>2, <3>1, ClearedSlot
      <3>3. ~Reading(r) /\ counted[r] \subseteq {"sendErr"}
        BY <2>1, <2>2, InNoOtherPlace
      <3>4. Places(r)' = {"expire"}
        BY <3>1, <3>2, <3>3 DEF Places, Reading
      <3> QED
        BY <1>b, <2>1, <3>1, <3>2, <3>4 DEF Others, Accounted, Reading
    <2>3. CASE ~InSlot(r)
      BY <1>6, <1>c, <2>1, <2>3 DEF Expire
    <2> QED
      BY <2>2, <2>3
  <1>7. ASSUME NEW r \in Requests, CountTimeout(r) PROVE \A q \in Requests : Sent(q)' => Accounted(q)'
    <2>1. r \in expired /\ expired' = expired \ {r} /\ UNCHANGED <<pending, slot, reader, timer>>
      BY <1>7 DEF CountTimeout
    <2>2. counted'[r] = counted[r] \cup {"timeout"} /\ \A q \in Requests \ {r} : counted'[q] = counted[q]
      BY <1>7 DEF CountTimeout, Count, BenchTypeOK
    <2>3. Sent(r) /\ \A q \in Requests : Sent(q)' <=> Sent(q)
      BY <2>1 DEF GoroutinesOfSent, Sent
    <2>4. ~InSlot(r) /\ ~Reading(r) /\ counted[r] \subseteq {"sendErr"}
      BY <2>1, <2>3, InNoOtherPlace
    <2>5. Places(r)' = {"timeout"}
      BY <2>1, <2>2, <2>4 DEF Places, InSlot, Reading
    <2> QED
      BY <1>b, <2>1, <2>2, <2>3, <2>5 DEF Others, Accounted, Reading, InSlot
  <1>8. ASSUME NEW r \in Requests, ReadAnswer(r) PROVE \A q \in Requests : Sent(q)' => Accounted(q)'
    <2>1. Sent(r) /\ \A q \in Requests : Sent(q)' => Sent(q)
      BY <1>8 DEF ReadAnswer, GoroutinesOfSent, Sent, BenchTypeOK
    <2>2. PICK c \in Conns : c = slot[r][1] /\ reader[c] = None
      BY <1>8 DEF ReadAnswer, Reads, BenchTypeOK
    <2>3. CASE InSlot(r)
      <3>1. Clear(r) /\ reader' = [reader EXCEPT ![c] = r] /\ UNCHANGED <<slot, expired, counted>>
        BY <1>8, <2>2, <2>3 DEF ReadAnswer
      <3>2. ~InSlot(r)' /\ \A q \in Requests \ {r} : InSlot(q)' <=> InSlot(q)
        BY <2>3, <3>1, ClearedSlot
      <3>3. r \notin expired /\ counted[r] \subseteq {"sendErr"}
        BY <2>1, <2>3, InNoOtherPlace
      <3>4. Reading(r)' /\ \A q \in Requests \ {r} : Reading(q)' <=> Reading(q)
        BY <2>2, <3>1 DEF Reading, BenchTypeOK
      <3>5. Places(r)' = {"reader"}
        BY <3>1, <3>2, <3>3, <3>4 DEF Places, Reading
      <3> QED
        BY <1>b, <2>1, <3>1, <3>2, <3>4, <3>5 DEF Others, Accounted
    <2>4. CASE ~InSlot(r)
      BY <1>8, <1>c, <2>1, <2>4 DEF ReadAnswer
    <2> QED
      BY <2>3, <2>4
  <1>9. ASSUME NEW c \in Conns, CountAnswer(c) PROVE \A q \in Requests : Sent(q)' => Accounted(q)'
    <2>1. PICK r \in Requests : r = reader[c] /\ Sent(r) /\ slot[r][1] = c
      BY <1>9 DEF CountAnswer, GoroutinesOfSent, BenchTypeOK
    <2>2. reader' = [reader EXCEPT ![c] = None] /\ UNCHANGED <<pending, slot, timer, expired>>
      BY <1>9 DEF CountAnswer
    <2>3. counted'[r] = counted[r] \cup {"answer"} /\ \A q \in Requests \ {r} : counted'[q] = counted[q]
      BY <1>9, <2>1 DEF CountAnswer, Count, BenchTypeOK
    <2>4. \A d \in Conns : reader[d] = r => d = c
      BY <2>1 DEF GoroutinesOfSent
    <2>5. ~Reading(r)' /\ \A q \in Requests \ {r} : Reading(q)' <=> Reading(q)
      BY <2>1, <2>2, <2>4 DEF Reading, BenchTypeOK
    <2>6. ~InSlot(r) /\ r \notin expired /\ counted[r] \subseteq {"sendErr"}
      BY <2>1, InNoOtherPlace DEF Reading
    <2>7. Places(r)' = {"answer"}
      BY <2>2, <2>3, <2>5, <2>6 DEF Places, InSlot, Reading
    <2>8. \A q \in Requests : (Sent(q)' <=> Sent(q)) /\ (InSlot(q)' <=> InSlot(q))
      BY <2>2 DEF Sent, InSlot
    <2> QED
      BY <1>b, <2>2, <2>3, <2>5, <2>7, <2>8 DEF Others, Accounted
  <1>10. ASSUME NEW c \in Conns, NEW i \in Ids, ReadForged(c, i) PROVE \A q \in Requests : Sent(q)' => Accounted(q)'
    BY <1>10, <1>c DEF ReadForged, Sent
  <1>11. CASE EndLoop \/ PrintStats
    BY <1>11, <1>c DEF EndLoop, PrintStats, Sent
  <1> QED
    BY <1>1, <1>2, <1>3, <1>4, <1>5, <1>6, <1>7, <1>8, <1>9, <1>10, <1>11 DEF BenchNext

LEMMA BenchInitInv == BenchInit => BenchInv
  <1> SUFFICES ASSUME BenchInit PROVE BenchInv
    OBVIOUS
  <1>0. /\ 0 \in Conns /\ 0 \in Ids /\ Cardinality(Requests) \in Nat /\ Requests = 1..Cardinality(Requests)
        /\ 0 \in 0..Copies /\ 0 \in 0..NConns /\ 1 \in 0..1
    BY SizesAssumption, RequestsAssumption, FS_CardinalityType DEF Conns, Ids
  <1>1. BenchTypeOK
    BY <1>0 DEF BenchInit, BenchTypeOK
  <1>2. ScheduleInOrder /\ GoroutinesOfSent
    BY <1>0 DEF BenchInit, ScheduleInOrder, GoroutinesOfSent, Sent
  <1>3. EachRequestOnce
    BY DEF BenchInit, EachRequestOnce, Sent
  <1>4. AnswersAreOwn
    BY NoneAssumption DEF BenchInit, AnswersAreOwn
  <1> QED
    BY <1>1, <1>2, <1>3, <1>4 DEF BenchInv

LEMMA BenchStepKeepsInv == BenchInv /\ [BenchNext]_benchVars => BenchInv'
  <1> SUFFICES ASSUME BenchInv, [BenchNext]_benchVars PROVE BenchInv'
    OBVIOUS
  <1>1. CASE BenchNext
    <2>1. BenchTypeOK'
      BY <1>1, BenchTypesKept DEF BenchInv
    <2>2. \A r \in Requests : Sent(r) => Accounted(r)
      BY PlacesCounted DEF BenchInv
    <2>3. (\A r \in Requests : Sent(r) => Accounted(r))'
      BY <1>1, <2>2, RequestsKept DEF BenchInv
    <2>4. EachRequestOnce'
      BY <2>1, <2>3, PlacesCounted, PTL
    <2> QED
      BY <1>1, <2>1, <2>4, ScheduleKept, GoroutinesKept, OwnAnswersKept DEF BenchInv
  <1>2. CASE UNCHANGED benchVars
    <2> USE <1>2 DEF benchVars, BenchInv
    <2>1. BenchTypeOK'
      BY DEF BenchTypeOK
    <2>2. \A r : (Sent(r)' <=> Sent(r)) /\ Places(r)' = Places(r)
      BY DEF Sent, Places, InSlot
    <2>3. ScheduleInOrder' /\ GoroutinesOfSent'
      BY <2>2 DEF ScheduleInOrder, GoroutinesOfSent
    <2>4. EachRequestOnce' /\ AnswersAreOwn'
      BY <2>2 DEF EachRequestOnce, AnswersAreOwn
    <2> QED
      BY <2>1, <2>3, <2>4
  <1> QED
    BY <1>1, <1>2

(* No request radbench has sent is lost or counted as both answered and      *)
(* timed out, and answers are credited to their own requests, whatever order *)
(* an answer, a timer, a failed write and the next request of an identifier  *)
(* come in (radbench/main.go:93-172).                                        *)
THEOREM RequestsCountedOnce == BenchSpec => []BenchInv
  <1>1. BenchInit => BenchInv
    BY BenchInitInv
  <1>2. BenchInv /\ [BenchNext]_benchVars => BenchInv'
    BY BenchStepKeepsInv
  <1> QED
    BY <1>1, <1>2, PTL DEF BenchSpec

-----------------------------------------------------------------------------
(* The replay tool.  Sequences first: what the two ends of a queue do. *)
LEMMA AppendFacts ==
    ASSUME NEW S, NEW s \in Seq(S), NEW e \in S
    PROVE  /\ Append(s, e) \in Seq(S)
           /\ Len(Append(s, e)) = Len(s) + 1 /\ Len(s) \in Nat
           /\ \A i \in 1..Len(s) : Append(s, e)[i] = s[i]
           /\ Append(s, e)[Len(s) + 1] = e
           /\ DOMAIN s = 1..Len(s) /\ DOMAIN Append(s, e) = 1..(Len(s) + 1)
  OBVIOUS

LEMMA TailFacts ==
    ASSUME NEW S, NEW s \in Seq(S), s # << >>
    PROVE  /\ Len(s) \in Nat \ {0}
           /\ Head(s) = s[1] /\ Head(s) \in S
           /\ Tail(s) \in Seq(S)
           /\ Len(Tail(s)) = Len(s) - 1
           /\ \A i \in 1..Len(Tail(s)) : Tail(s)[i] = s[i + 1]
           /\ DOMAIN s = 1..Len(s) /\ DOMAIN Tail(s) = 1..(Len(s) - 1)
  OBVIOUS

LEMMA PrefixFacts ==
    ASSUME NEW S, NEW s \in Seq(S), NEW n \in 1..Len(s)
    PROVE  /\ SubSeq(s, 1, n) \in Seq(S)
           /\ Len(SubSeq(s, 1, n)) = n
           /\ \A i \in 1..n : SubSeq(s, 1, n)[i] = s[i]
           /\ DOMAIN s = 1..Len(s) /\ DOMAIN SubSeq(s, 1, n) = 1..n
  OBVIOUS

(* Before the replay no pair is handed out. *)
LEMMA NothingHandedOut ==
    ReplayTypeOK /\ PairsInOnePlace /\ phase = "match" =>
        jobs = 0 /\ out = {} /\ results = << >> /\ ~outClosed /\ \A w \in Replayers : busy[w] = NoJob
  <1> SUFFICES ASSUME ReplayTypeOK, PairsInOnePlace, phase = "match"
               PROVE  jobs = 0 /\ out = {} /\ results = << >> /\ ~outClosed /\ \A w \in Replayers : busy[w] = NoJob
    OBVIOUS
  <1>1. jobs = 0 /\ ~outClosed /\ Len(pairs) \in Nat
    BY DEF PairsInOnePlace, ReplayTypeOK
  <1>2. \A i \in 1..Len(pairs) : ~Replaying(i) /\ i \notin out /\ ~Collected(i)
    BY <1>1 DEF PairsInOnePlace
  <1>3. out = {} /\ \A w \in Replayers : busy[w] = NoJob
    BY <1>2 DEF ReplayTypeOK, Replaying
  <1>4. results = << >>
    <2>1. ASSUME results # << >> PROVE FALSE
      <3>1. results \in Seq(1..Len(pairs))
        BY DEF ReplayTypeOK
      <3>2. 1 \in DOMAIN results /\ results[1] \in 1..Len(pairs)
        BY <2>1, <3>1, TailFacts
      <3> QED
        BY <1>2, <3>2 DEF Collected
    <2> QED
      BY <2>1
  <1> QED
    BY <1>1, <1>3, <1>4

LEMMA KeysAreKeys == ReplayTypeOK => \A t \in Transactions : keyOf[t] \in ReqKey /\ Key(t) = keyOf[t]
  BY DEF ReplayTypeOK, Key

LEMMA ReplayTypesKept == ReplayTypeOK /\ MatchedInTurn /\ PairsInOnePlace /\ ReplayNext => ReplayTypeOK'
  <1> SUFFICES ASSUME ReplayTypeOK, MatchedInTurn, PairsInOnePlace, ReplayNext PROVE ReplayTypeOK'
    OBVIOUS
  <1>0. Len(pairs) \in Nat /\ jobs \in Nat /\ length \in Nat /\ Datagrams \in Nat
    BY ReplaySizesAssumption DEF ReplayTypeOK
  <1>a. ASSUME UNCHANGED captureVars,
               phase' \in {"match", "replay", "report"}, outClosed' \in BOOLEAN, jobs' \in 0..Len(pairs),
               busy' \in [Replayers -> 1..Len(pairs) \cup {NoJob}], out' \subseteq 1..Len(pairs),
               results' \in Seq(1..Len(pairs))
        PROVE  ReplayTypeOK'
    BY <1>a DEF ReplayTypeOK, captureVars
  <1>1. ASSUME NEW t \in Transactions, Request(t) PROVE ReplayTypeOK'
    <2> DEFINE k == keyOf[t]
    <2>0. k \in ReqKey /\ Key(t) = k
      BY KeysAreKeys
    <2>1. requests' \in [ReqKey -> Seq(Transactions)] /\ queues' \in [ReqKey -> Seq(Transactions)]
      <3>1. Append(requests[k], t) \in Seq(Transactions) /\ Append(queues[k], t) \in Seq(Transactions)
        BY <2>0, AppendFacts DEF ReplayTypeOK
      <3> QED
        BY <1>1, <2>0, <3>1 DEF ReplayTypeOK, Request
    <2>2. length' \in 0..Datagrams
      BY <1>0, <1>1 DEF Request, InCapture
    <2> QED
      BY <1>1, <2>1, <2>2 DEF ReplayTypeOK, Request, InCapture, poolVars
  <1>2. ASSUME NEW t \in Transactions, Response(t) PROVE ReplayTypeOK'
    <2> DEFINE k == keyOf[t]
               q == queues[k]
    <2>0. k \in ReqKey /\ Key(t) = k /\ q \in Seq(Transactions)
      BY KeysAreKeys DEF ReplayTypeOK
    <2>1. length' \in 0..Datagrams
      BY <1>0, <1>2 DEF Response, InCapture
    <2>2. responses' \in [ReqKey -> 0..Datagrams] /\ strayed' \subseteq ReqKey
      <3>0. responses[k] \in Nat /\ responses[k] <= length /\ length < Datagrams
        BY <1>0, <1>2, <2>0 DEF Response, InCapture, MatchedInTurn, InTurn, ReplayTypeOK
      <3>1. responses[k] + 1 \in 0..Datagrams
        BY <1>0, <3>0
      <3> QED
        BY <1>2, <2>0, <3>1 DEF Response, ReplayTypeOK
    <2>3. UNCHANGED <<jobs, busy, out, results, outClosed, phase, keyOf, requests>>
      BY <1>2 DEF Response, poolVars
    <2>4. CASE q = << >>
      <3>1. UNCHANGED <<queues, pairs>>
        BY <1>2, <2>0, <2>4 DEF Response
      <3> QED
        BY <2>1, <2>2, <2>3, <3>1 DEF ReplayTypeOK
    <2>5. CASE q # << >>
      <3>1. Tail(q) \in Seq(Transactions) /\ Head(q) \in Transactions
        BY <2>0, <2>5, TailFacts
      <3>2. /\ pairs' = Append(pairs, [req |-> Head(q), real |-> t])
            /\ queues' = [queues EXCEPT ![k] = Tail(q)]
        BY <1>2, <2>0, <2>5 DEF Response
      <3>3. pairs' \in Seq([req : Transactions, real : Transactions]) /\ Len(pairs') = Len(pairs) + 1
        BY <3>1, <3>2, AppendFacts DEF ReplayTypeOK
      <3>4. queues' \in [ReqKey -> Seq(Transactions)]
        BY <2>0, <3>1, <3>2 DEF ReplayTypeOK
      <3>5. jobs = 0 /\ out = {} /\ results = << >> /\ \A w \in Replayers : busy[w] = NoJob
        BY <1>2, NothingHandedOut DEF Response, InCapture
      <3>6. results' \in Seq(1..Len(pairs')) /\ jobs' \in 0..Len(pairs') /\ out' \subseteq 1..Len(pairs')
        BY <1>0, <2>3, <3>3, <3>5
      <3> HIDE DEF q, k
      <3> QED
        BY <2>1, <2>2, <2>3, <3>3, <3>4, <3>5, <3>6 DEF ReplayTypeOK
    <2> QED
      BY <2>4, <2>5
  <1>3. CASE Matched
    <2>1. PICK limit \in 1..Len(pairs) : pairs' = SubSeq(pairs, 1, limit)
      BY <1>3 DEF Matched
    <2> DEFINE P == [req : Transactions, real : Transactions]
    <2>a. pairs \in Seq(P)
      BY DEF ReplayTypeOK
    <2>2. pairs' \in Seq(P) /\ Len(pairs') \in Nat
      <3> HIDE DEF P
      <3> QED
        BY <2>1, <2>a, PrefixFacts
    <2>3. jobs = 0 /\ out = {} /\ results = << >> /\ \A w \in Replayers : busy[w] = NoJob
      BY <1>3, NothingHandedOut DEF Matched
    <2>4. UNCHANGED <<keyOf, length, requests, responses, strayed, queues, jobs, busy, out, results, outClosed>>
          /\ phase' = "replay"
      BY <1>3 DEF Matched, poolVars
    <2>5. results' \in Seq(1..Len(pairs')) /\ jobs' \in 0..Len(pairs') /\ out' \subseteq 1..Len(pairs')
      BY <2>2, <2>3, <2>4
    <2> QED
      BY <2>2, <2>3, <2>4, <2>5 DEF ReplayTypeOK
  <1>4. ASSUME NEW w \in Replayers, Hand(w) PROVE ReplayTypeOK'
    <2>1. jobs + 1 \in 1..Len(pairs)
      BY <1>0, <1>4 DEF Hand
    <2>2. jobs' \in 0..Len(pairs) /\ busy' \in [Replayers -> 1..Len(pairs) \cup {NoJob}]
      BY <1>4, <2>1 DEF Hand, ReplayTypeOK
    <2> QED
      BY <1>4, <1>a, <2>2 DEF Hand, ReplayTypeOK
  <1>5. ASSUME NEW w \in Replayers, Work(w) PROVE ReplayTypeOK'
    <2>1. out' \subseteq 1..Len(pairs) /\ busy' \in [Replayers -> 1..Len(pairs) \cup {NoJob}]
      BY <1>5 DEF Work, ReplayTypeOK
    <2> QED
      BY <1>5, <1>a, <2>1 DEF Work, ReplayTypeOK
  <1>6. ASSUME NEW i \in 1..Len(pairs), Collect(i) PROVE ReplayTypeOK'
    <2>1. out' \subseteq 1..Len(pairs) /\ results' \in Seq(1..Len(pairs))
      BY <1>6 DEF Collect, ReplayTypeOK
    <2> QED
      BY <1>6, <1>a, <2>1 DEF Collect, ReplayTypeOK
  <1>7. CASE CloseOut
    BY <1>7, <1>a DEF CloseOut, ReplayTypeOK
  <1>8. CASE Report
    BY <1>8, <1>a DEF Report, ReplayTypeOK, poolVars
  <1> QED
    BY <1>1, <1>2, <1>3, <1>4, <1>5, <1>6, <1>7, <1>8 DEF ReplayNext, Replay

(* First come, first served: a request waits behind those of its key, and an *)
(* answer takes the first.                                                   *)
LEMMA MatchingKept ==
    ReplayTypeOK /\ MatchedInTurn /\ PairedWithOwn /\ ReplayNext => MatchedInTurn' /\ PairedWithOwn'
  <1> SUFFICES ASSUME ReplayTypeOK, MatchedInTurn, PairedWithOwn, ReplayNext
               PROVE  MatchedInTurn' /\ PairedWithOwn'
    OBVIOUS
  <1>0. /\ length \in Nat /\ Datagrams \in Nat
        /\ \A k \in ReqKey : queues[k] \in Seq(Transactions) /\ requests[k] \in Seq(Transactions) /\ responses[k] \in Nat
    BY ReplaySizesAssumption DEF ReplayTypeOK
  <1>a. \A r, a, c \in Nat : a = c - r =>
            /\ r + a = c /\ r + (a + 1) = c + 1 /\ a + 1 = (c + 1) - r
            /\ a - 1 = c - (r + 1)
            /\ \A i \in 1..a : r + i \in 1..c
    OBVIOUS
  <1>1. ASSUME NEW t \in Transactions, Request(t) PROVE MatchedInTurn' /\ PairedWithOwn'
    <2>0. PICK k \in ReqKey : k = keyOf[t] /\ Key(t) = k
      BY KeysAreKeys
    <2>1. /\ UNCHANGED <<keyOf, responses, strayed, pairs>> /\ length' = length + 1
          /\ requests'[k] = Append(requests[k], t) /\ queues'[k] = Append(queues[k], t)
          /\ \A x \in ReqKey \ {k} : requests'[x] = requests[x] /\ queues'[x] = queues[x]
      BY <1>1, <2>0 DEF Request, InCapture, ReplayTypeOK
    <2>2. /\ Len(queues'[k]) = Len(queues[k]) + 1 /\ Len(requests'[k]) = Len(requests[k]) + 1
          /\ \A i \in 1..Len(queues[k]) : queues'[k][i] = queues[k][i]
          /\ \A i \in 1..Len(requests[k]) : requests'[k][i] = requests[k][i]
          /\ queues'[k][Len(queues[k]) + 1] = t /\ requests'[k][Len(requests[k]) + 1] = t
          /\ DOMAIN queues[k] = 1..Len(queues[k]) /\ DOMAIN queues'[k] = 1..(Len(queues[k]) + 1)
          /\ Len(queues[k]) \in Nat /\ Len(requests[k]) \in Nat
      BY <1>0, <2>0, <2>1, AppendFacts
    <2>3. \A i \in DOMAIN queues'[k] : keyOf[queues'[k][i]] = k
      <3>1. keyOf[t] = k
        BY <2>0
      <3>2. \A i \in 1..Len(queues[k]) : keyOf[queues[k][i]] = k
        BY <2>0, <2>2 DEF MatchedInTurn, InTurn
      <3> QED
        BY <2>2, <3>1, <3>2
    <2>4. ASSUME k \notin strayed
          PROVE  /\ Len(queues'[k]) = Len(requests'[k]) - responses[k]
                 /\ \A i \in DOMAIN queues'[k] : queues'[k][i] = requests'[k][responses[k] + i]
      <3>1. /\ Len(queues[k]) = Len(requests[k]) - responses[k]
            /\ \A i \in 1..Len(queues[k]) : queues[k][i] = requests[k][responses[k] + i]
        BY <2>0, <2>2, <2>4 DEF MatchedInTurn, InTurn
      <3>2. responses[k] \in Nat /\ responses[k] + Len(queues[k]) = Len(requests[k])
        BY <1>0, <1>a, <2>0, <2>2, <3>1
      <3>3. \A i \in 1..Len(queues[k]) : queues'[k][i] = requests'[k][responses[k] + i]
        <4> SUFFICES ASSUME NEW i \in 1..Len(queues[k]) PROVE queues'[k][i] = requests'[k][responses[k] + i]
          OBVIOUS
        <4>1. responses[k] + i \in 1..Len(requests[k])
          BY <1>a, <2>2, <3>1, <3>2
        <4> QED
          BY <2>2, <3>1, <4>1
      <3>4. queues'[k][Len(queues[k]) + 1] = requests'[k][responses[k] + (Len(queues[k]) + 1)]
        <4>1. responses[k] + (Len(queues[k]) + 1) = Len(requests[k]) + 1
          BY <1>a, <2>2, <3>1, <3>2
        <4> QED
          BY <2>2, <4>1
      <3>5. Len(queues[k]) + 1 = (Len(requests[k]) + 1) - responses[k]
        BY <1>a, <2>2, <3>1, <3>2
      <3>6. \A i \in 1..(Len(queues[k]) + 1) : i \in 1..Len(queues[k]) \/ i = Len(queues[k]) + 1
        BY <2>2
      <3> QED
        BY <2>2, <3>3, <3>4, <3>5, <3>6
    <2>5. \A x \in ReqKey : responses'[x] <= length'
      BY <1>0, <2>1 DEF MatchedInTurn, InTurn
    <2>6. MatchedInTurn'
      <3>1. InTurn(k)'
        BY <2>0, <2>1, <2>3, <2>4, <2>5 DEF InTurn
      <3>2. \A x \in ReqKey \ {k} : InTurn(x)'
        BY <2>1, <2>5 DEF MatchedInTurn, InTurn
      <3> QED
        BY <2>1, <3>1, <3>2 DEF MatchedInTurn
    <2> QED
      BY <2>1, <2>6 DEF PairedWithOwn
  <1>2. ASSUME NEW t \in Transactions, Response(t) PROVE MatchedInTurn' /\ PairedWithOwn'
    <2>0. PICK k \in ReqKey : k = keyOf[t] /\ Key(t) = k
      BY KeysAreKeys
    <2> DEFINE q == queues[k]
               n == responses[k] + 1
    <2>a. q \in Seq(Transactions)
      BY <1>0
    <2>1. /\ UNCHANGED <<keyOf, requests>> /\ length' = length + 1
          /\ responses'[k] = n /\ \A x \in ReqKey \ {k} : responses'[x] = responses[x]
          /\ strayed' = IF n \in DOMAIN requests[k] /\ requests[k][n] = t THEN strayed ELSE strayed \cup {k}
      BY <1>2, <2>0 DEF Response, InCapture, ReplayTypeOK
    <2>2. \A x \in ReqKey : responses'[x] <= length'
      BY <1>0, <2>0, <2>a, <2>1 DEF MatchedInTurn, InTurn
    <2>3. ASSUME k \notin strayed'
          PROVE  /\ k \notin strayed /\ n \in 1..Len(requests[k]) /\ requests[k][n] = t
                 /\ Len(q) = Len(requests[k]) - responses[k] /\ q # << >>
                 /\ \A i \in 1..Len(q) : q[i] = requests[k][responses[k] + i]
                 /\ q[1] = t
      <3>1. k \notin strayed /\ n \in DOMAIN requests[k] /\ requests[k][n] = t
        BY <2>1, <2>3
      <3>2. DOMAIN requests[k] = 1..Len(requests[k]) /\ DOMAIN q = 1..Len(q) /\ Len(q) \in Nat
            /\ Len(requests[k]) \in Nat /\ responses[k] \in Nat
        BY <1>0, <2>0, <2>a
      <3>3. /\ Len(q) = Len(requests[k]) - responses[k]
            /\ \A i \in 1..Len(q) : q[i] = requests[k][responses[k] + i]
        BY <2>0, <3>1, <3>2 DEF MatchedInTurn, InTurn
      <3>4. Len(q) >= 1
        BY <3>1, <3>2, <3>3
      <3>5. q # << >>
        BY <3>4
      <3>6. q[1] = t
        BY <3>1, <3>2, <3>3, <3>4
      <3> QED
        BY <3>1, <3>2, <3>3, <3>5, <3>6
    <2>4. CASE q = << >>
      <3>1. UNCHANGED <<queues, pairs>>
        BY <1>2, <2>0, <2>4 DEF Response
      <3>2. k \in strayed' /\ strayed \subseteq strayed'
        BY <2>1, <2>3, <2>4
      <3>3. MatchedInTurn'
        BY <2>1, <2>2, <3>1, <3>2 DEF MatchedInTurn, InTurn
      <3> QED
        BY <2>1, <3>1, <3>2, <3>3 DEF PairedWithOwn
    <2>5. CASE q # << >>
      <3>1. /\ pairs' = Append(pairs, [req |-> Head(q), real |-> t])
            /\ queues'[k] = Tail(q) /\ \A x \in ReqKey \ {k} : queues'[x] = queues[x]
        BY <1>2, <2>0, <2>5 DEF Response, ReplayTypeOK
      <3>2. /\ Len(q) \in Nat \ {0} /\ Head(q) = q[1] /\ Head(q) \in Transactions
            /\ Len(Tail(q)) = Len(q) - 1
            /\ \A i \in 1..Len(Tail(q)) : Tail(q)[i] = q[i + 1]
            /\ DOMAIN q = 1..Len(q) /\ DOMAIN Tail(q) = 1..(Len(q) - 1)
        BY <2>a, <2>5, TailFacts
      <3>3. \A i \in 1..Len(q) : keyOf[q[i]] = k
        BY <2>0, <3>2 DEF MatchedInTurn, InTurn
      <3> DEFINE p == [req |-> Head(q), real |-> t]
      <3>4. /\ DOMAIN pairs' = 1..(Len(pairs) + 1) /\ DOMAIN pairs = 1..Len(pairs) /\ Len(pairs) \in Nat
            /\ \A i \in 1..Len(pairs) : pairs'[i] = pairs[i]
            /\ pairs'[Len(pairs) + 1] = p
        <4> DEFINE P == [req : Transactions, real : Transactions]
        <4>1. pairs \in Seq(P) /\ p \in P
          BY <3>2 DEF ReplayTypeOK
        <4> HIDE DEF P, p
        <4>2. pairs' = Append(pairs, p)
          BY <3>1 DEF p
        <4> QED
          BY <4>1, <4>2, AppendFacts
      <3>5. keyOf[p.req] = k /\ keyOf[p.real] = k /\ (k \notin strayed' => p.req = p.real)
        BY <2>0, <2>3, <3>2, <3>3
      <3> HIDE DEF p
      <3>6. \A i \in DOMAIN pairs' : keyOf'[pairs'[i].req] = keyOf'[pairs'[i].real]
        <4>1. \A i \in 1..Len(pairs) : keyOf'[pairs'[i].req] = keyOf'[pairs'[i].real]
          BY <2>1, <3>4 DEF MatchedInTurn, InTurn
        <4> QED
          BY <2>1, <3>4, <3>5, <4>1
      <3>7. PairedWithOwn'
        <4>1. strayed \subseteq strayed'
          BY <2>1
        <4>2. \A i \in 1..Len(pairs) : keyOf'[pairs'[i].real] \notin strayed' => pairs'[i].req = pairs'[i].real
          BY <2>1, <3>4, <4>1 DEF PairedWithOwn
        <4> QED
          BY <2>1, <3>4, <3>5, <4>2 DEF PairedWithOwn
      <3>8. \A i \in DOMAIN queues'[k] : keyOf[queues'[k][i]] = k
        BY <3>1, <3>2, <3>3
      <3>9. ASSUME k \notin strayed'
            PROVE  /\ Len(queues'[k]) = Len(requests[k]) - n
                   /\ \A i \in DOMAIN queues'[k] : queues'[k][i] = requests[k][n + i]
        <4>1. /\ Len(q) = Len(requests[k]) - responses[k]
              /\ \A i \in 1..Len(q) : q[i] = requests[k][responses[k] + i]
          BY <2>3, <3>9
        <4>2. responses[k] \in Nat /\ Len(requests[k]) \in Nat
          BY <1>0, <2>0, <2>a
        <4>3. \A i \in 1..(Len(q) - 1) : Tail(q)[i] = requests[k][n + i]
          <5> SUFFICES ASSUME NEW i \in 1..(Len(q) - 1) PROVE Tail(q)[i] = requests[k][n + i]
            OBVIOUS
          <5>1. i + 1 \in 1..Len(q) /\ responses[k] + (i + 1) = n + i
            BY <3>2, <4>2
          <5> QED
            BY <3>2, <4>1, <5>1
        <4>4. Len(q) - 1 = Len(requests[k]) - n
          BY <1>a, <3>2, <4>1, <4>2
        <4> QED
          BY <3>1, <3>2, <4>3, <4>4
      <3>10. MatchedInTurn'
        <4>1. strayed \subseteq strayed'
          BY <2>1
        <4> HIDE DEF n, q
        <4>2. InTurn(k)'
          BY <2>0, <2>1, <2>2, <3>8, <3>9 DEF InTurn
        <4>3. \A x \in ReqKey \ {k} : InTurn(x)'
          BY <2>1, <2>2, <3>1, <4>1 DEF MatchedInTurn, InTurn
        <4> QED
          BY <2>1, <3>6, <4>2, <4>3 DEF MatchedInTurn
      <3> QED
        BY <3>7, <3>10
    <2> QED
      BY <2>4, <2>5
  <1>3. CASE Matched
    <2>1. PICK limit \in 1..Len(pairs) : pairs' = SubSeq(pairs, 1, limit)
      BY <1>3 DEF Matched
    <2>2. \A i \in DOMAIN pairs' : i \in DOMAIN pairs /\ pairs'[i] = pairs[i]
      <3> DEFINE P == [req : Transactions, real : Transactions]
      <3>1. pairs \in Seq(P)
        BY DEF ReplayTypeOK
      <3> HIDE DEF P
      <3> QED
        BY <2>1, <3>1, PrefixFacts
    <2>3. UNCHANGED <<keyOf, length, requests, responses, strayed, queues>>
      BY <1>3 DEF Matched
    <2>4. \A k \in ReqKey : InTurn(k)'
      BY <2>3 DEF MatchedInTurn, InTurn
    <2> QED
      BY <2>2, <2>3, <2>4 DEF MatchedInTurn, PairedWithOwn
  <1>4. CASE Replay
    <2>1. UNCHANGED captureVars
      BY <1>4 DEF Replay, Hand, Work, Collect, CloseOut, Report
    <2>2. \A k \in ReqKey : InTurn(k)'
      BY <2>1 DEF captureVars, MatchedInTurn, InTurn
    <2> QED
      BY <2>1, <2>2 DEF captureVars, MatchedInTurn, PairedWithOwn
  <1> QED
    BY <1>1, <1>2, <1>3, <1>4 DEF ReplayNext

(* A pair goes from the feeder to a worker, to the channel, to the report. *)
LEMMA PlacesKept == ReplayTypeOK /\ PairsInOnePlace /\ ReplayNext => PairsInOnePlace'
  <1> SUFFICES ASSUME ReplayTypeOK, PairsInOnePlace, ReplayNext PROVE PairsInOnePlace'
    OBVIOUS
  <1>0. /\ Len(pairs) \in Nat /\ jobs \in Nat /\ NoJob \notin Nat
        /\ results \in Seq(1..Len(pairs)) /\ DOMAIN results = 1..Len(results) /\ Len(results) \in Nat
        /\ \A w \in Replayers : busy[w] \in 1..Len(pairs) \/ busy[w] = NoJob
    BY ReplayKeysAssumption DEF ReplayTypeOK
  <1>1. ASSUME phase = "match", UNCHANGED poolVars, phase' \in {"match", "replay"}, Len(pairs') \in Nat
        PROVE  PairsInOnePlace'
    <2>1. jobs = 0 /\ out = {} /\ results = << >> /\ ~outClosed /\ \A w \in Replayers : busy[w] = NoJob
      BY <1>1, NothingHandedOut
    <2>2. jobs' = 0 /\ out' = {} /\ results' = << >> /\ ~outClosed' /\ \A w \in Replayers : busy'[w] = NoJob
      BY <1>1, <2>1 DEF poolVars
    <2> QED
      BY <1>0, <1>1, <2>2 DEF PairsInOnePlace, Replaying, Collected
  <1>2. ASSUME NEW t \in Transactions, Request(t) \/ Response(t) PROVE PairsInOnePlace'
    <2>1. pairs' = pairs \/ \E p \in [req : Transactions, real : Transactions] : pairs' = Append(pairs, p)
      <3>1. queues[Key(t)] \in Seq(Transactions)
        BY KeysAreKeys DEF ReplayTypeOK
      <3>2. queues[Key(t)] # << >> => Head(queues[Key(t)]) \in Transactions
        BY <3>1
      <3> QED
        BY <1>2, <3>2 DEF Request, Response
    <2>2. Len(pairs') \in Nat
      <3> DEFINE P == [req : Transactions, real : Transactions]
      <3>1. pairs \in Seq(P)
        BY DEF ReplayTypeOK
      <3>2. pairs' = pairs \/ \E p \in P : pairs' = Append(pairs, p)
        BY <2>1
      <3> HIDE DEF P
      <3> QED
        BY <1>0, <3>1, <3>2, AppendFacts
    <2> QED
      BY <1>1, <1>2, <2>2 DEF Request, Response, InCapture
  <1>3. CASE Matched
    <2>1. PICK limit \in 1..Len(pairs) : pairs' = SubSeq(pairs, 1, limit)
      BY <1>3 DEF Matched
    <2>2. Len(pairs') \in Nat
      <3> DEFINE P == [req : Transactions, real : Transactions]
      <3>1. pairs \in Seq(P)
        BY DEF ReplayTypeOK
      <3> HIDE DEF P
      <3> QED
        BY <1>0, <2>1, <3>1, PrefixFacts
    <2> QED
      BY <1>1, <1>3, <2>2 DEF Matched
  <1>4. ASSUME NEW w \in Replayers, Hand(w) PROVE PairsInOnePlace'
    <2>1. PICK j \in 1..Len(pairs) : j = jobs + 1 /\ j # NoJob
      BY <1>0, <1>4 DEF Hand
    <2>2. ~Replaying(j) /\ j \notin out /\ ~Collected(j)
      BY <1>0, <2>1 DEF PairsInOnePlace
    <2>3. /\ UNCHANGED <<pairs, out, results, outClosed, phase>> /\ jobs' = j
          /\ busy[w] = NoJob /\ busy'[w] = j /\ \A v \in Replayers \ {w} : busy'[v] = busy[v]
          /\ phase = "replay" /\ jobs # Len(pairs)
      BY <1>0, <1>4, <2>1 DEF Hand, ReplayTypeOK, captureVars
    <2>4. \A i : Collected(i)' <=> Collected(i)
      BY <2>3 DEF Collected
    <2>5. \A i \in 1..Len(pairs) : Replaying(i)' <=> Replaying(i) \/ i = j
      <3>1. \A i \in 1..Len(pairs) : i # NoJob
        BY <1>0
      <3> QED
        BY <2>3, <3>1 DEF Replaying
    <2>6. \A i \in 1..Len(pairs) : i <= j <=> i <= jobs \/ i = j
      BY <1>0, <2>1
    <2>7. \A u, v \in Replayers : busy'[u] = busy'[v] /\ busy'[u] # NoJob => u = v
      <3>1. \A v \in Replayers : busy[v] # j
        BY <2>2 DEF Replaying
      <3> QED
        BY <2>3, <3>1 DEF PairsInOnePlace
    <2> QED
      BY <2>1, <2>2, <2>3, <2>4, <2>5, <2>6, <2>7 DEF PairsInOnePlace
  <1>5. ASSUME NEW w \in Replayers, Work(w) PROVE PairsInOnePlace'
    <2>1. PICK j \in 1..Len(pairs) : busy[w] = j
      BY <1>0, <1>5 DEF Work
    <2>2. /\ UNCHANGED <<pairs, jobs, results, outClosed, phase>> /\ out' = out \cup {j}
          /\ busy'[w] = NoJob /\ \A v \in Replayers \ {w} : busy'[v] = busy[v]
      BY <1>5, <2>1 DEF Work, ReplayTypeOK, captureVars
    <2>3. Replaying(j) /\ j # NoJob
      BY <1>0, <2>1 DEF Replaying
    <2>4. \A i : Collected(i)' <=> Collected(i)
      BY <2>2 DEF Collected
    <2>5. \A v \in Replayers \ {w} : busy[v] # j
      BY <2>1, <2>3 DEF PairsInOnePlace
    <2>6. \A i \in 1..Len(pairs) : Replaying(i)' <=> Replaying(i) /\ i # j
      BY <1>0, <2>1, <2>2, <2>5 DEF Replaying
    <2>7. \A u, v \in Replayers : busy'[u] = busy'[v] /\ busy'[u] # NoJob => u = v
      BY <2>2 DEF PairsInOnePlace
    <2>8. ~outClosed /\ phase # "report"
      BY <2>1, <2>3 DEF PairsInOnePlace
    <2> QED
      BY <2>2, <2>3, <2>4, <2>6, <2>7, <2>8 DEF PairsInOnePlace
  <1>6. ASSUME NEW j \in 1..Len(pairs), Collect(j) PROVE PairsInOnePlace'
    <2>1. /\ UNCHANGED <<pairs, jobs, busy, outClosed, phase>> /\ out' = out \ {j} /\ j \in out /\ phase = "replay"
          /\ results' = Append(results, j)
      BY <1>6 DEF Collect, captureVars
    <2>2. /\ DOMAIN results' = 1..(Len(results) + 1) /\ results'[Len(results) + 1] = j
          /\ \A i \in 1..Len(results) : results'[i] = results[i]
      BY <1>0, <2>1, AppendFacts
    <2>3. \A i : Replaying(i)' <=> Replaying(i)
      BY <2>1 DEF Replaying
    <2>4. \A i : Collected(i)' <=> Collected(i) \/ i = j
      BY <1>0, <2>2 DEF Collected
    <2>5. ~Collected(j) /\ ~Replaying(j)
      BY <2>1 DEF PairsInOnePlace
    <2>6. \A x, y \in DOMAIN results' : results'[x] = results'[y] => x = y
      <3>1. \A x \in 1..Len(results) : results'[x] = results[x] /\ results[x] # j
        BY <1>0, <2>2, <2>5 DEF Collected
      <3>2. \A x \in DOMAIN results' : x \in 1..Len(results) \/ x = Len(results) + 1
        BY <1>0, <2>2
      <3> QED
        BY <1>0, <2>2, <3>1, <3>2 DEF PairsInOnePlace
    <2> QED
      BY <2>1, <2>3, <2>4, <2>5, <2>6 DEF PairsInOnePlace
  <1>7. CASE CloseOut
    BY <1>7 DEF CloseOut, captureVars, PairsInOnePlace, Replaying, Collected
  <1>8. CASE Report
    BY <1>8 DEF Report, captureVars, poolVars, PairsInOnePlace, Replaying, Collected
  <1> QED
    BY <1>2, <1>3, <1>4, <1>5, <1>6, <1>7, <1>8 DEF ReplayNext, Replay

(* The report is a permutation of the pairs. *)
LEMMA ReportIsComplete == ReplayTypeOK /\ PairsInOnePlace => OneResultPerPair
  <1> SUFFICES ASSUME ReplayTypeOK, PairsInOnePlace, phase = "report" 
               PROVE  /\ Len(results) = Len(pairs)
                      /\ \A i \in 1..Len(pairs) : \E j \in DOMAIN results : results[j] = i
    BY DEF OneResultPerPair
  <1>0. /\ Len(pairs) \in Nat /\ Len(results) \in Nat /\ DOMAIN results = 1..Len(results)
        /\ results \in [1..Len(results) -> 1..Len(pairs)]
    <2> DEFINE P == [req : Transactions, real : Transactions]
               Q == 1..Len(pairs)
    <2>1. pairs \in Seq(P) /\ results \in Seq(Q)
      BY DEF ReplayTypeOK
    <2>2. Len(pairs) \in Nat
      <3> HIDE DEF P, Q
      <3> QED
        BY <2>1
    <2>3. Len(results) \in Nat /\ DOMAIN results = 1..Len(results) /\ results \in [1..Len(results) -> Q]
      <3> HIDE DEF P, Q
      <3> QED
        BY <2>1
    <2> QED
      BY <2>2, <2>3
  <1>1. \A i \in 1..Len(pairs) : \E j \in DOMAIN results : results[j] = i
    <2> SUFFICES ASSUME NEW i \in 1..Len(pairs) PROVE Collected(i)
      BY DEF Collected
    <2>1. i <= jobs /\ out = {} /\ \A w \in Replayers : busy[w] = NoJob
      BY <1>0 DEF PairsInOnePlace
    <2>2. ~Replaying(i)
      BY <2>1, ReplayKeysAssumption DEF Replaying
    <2> QED
      BY <2>1, <2>2 DEF PairsInOnePlace
  <1>2. results \in Bijection(1..Len(results), 1..Len(pairs))
    BY <1>0, <1>1 DEF PairsInOnePlace, Bijection, Injection, Surjection, IsInjective
  <1>3. ExistsBijection(1..Len(results), 1..Len(pairs))
    BY <1>2 DEF ExistsBijection
  <1>4. /\ IsFiniteSet(1..Len(results)) /\ Cardinality(1..Len(results)) = Len(results)
        /\ Cardinality(1..Len(pairs)) = Len(pairs)
    <2>1. \A n \in Nat : IsFiniteSet(1..n) /\ Cardinality(1..n) = n
      <3> SUFFICES ASSUME NEW n \in Nat PROVE IsFiniteSet(1..n) /\ Cardinality(1..n) = n
        OBVIOUS
      <3>1. 1 \in Int /\ n \in Int /\ (IF 1 > n THEN 0 ELSE n - 1 + 1) = n
        OBVIOUS
      <3> QED
        BY <3>1, FS_Interval
    <2> QED
      BY <1>0, <2>1
  <1>5. Cardinality(1..Len(pairs)) = Cardinality(1..Len(results))
    BY <1>3, <1>4, FS_Bijection
  <1> QED
    BY <1>1, <1>4, <1>5

LEMMA ReplayInitInv == ReplayInit => ReplayInv
  <1> SUFFICES ASSUME ReplayInit PROVE ReplayInv
    OBVIOUS
  <1> USE DEF ReplayInit
  <1>1. ReplayTypeOK
    <2>1. outClosed \in BOOLEAN
      BY Zenon
    <2>2. length \in 0..Datagrams /\ responses \in [ReqKey -> 0..Datagrams] /\ jobs \in 0..Len(pairs)
      BY ReplaySizesAssumption
    <2> QED
      BY <2>1, <2>2 DEF ReplayTypeOK
  <1>2. MatchedInTurn
    BY DEF MatchedInTurn, InTurn
  <1>3. PairsInOnePlace
    BY DEF PairsInOnePlace, Replaying, Collected
  <1>4. PairedWithOwn
    BY DEF PairedWithOwn
  <1> QED
    BY <1>1, <1>2, <1>3, <1>4, ReportIsComplete DEF ReplayInv

LEMMA ReplayStepKeepsInv == ReplayInv /\ [ReplayNext]_replayVars => ReplayInv'
  <1> SUFFICES ASSUME ReplayInv, [ReplayNext]_replayVars PROVE ReplayInv'
    OBVIOUS
  <1>1. CASE ReplayNext
    <2>1. ReplayTypeOK' /\ MatchedInTurn' /\ PairedWithOwn' /\ PairsInOnePlace'
      BY <1>1, ReplayTypesKept, MatchingKept, PlacesKept DEF ReplayInv
    <2>2. OneResultPerPair'
      BY <2>1, ReportIsComplete, PTL
    <2> QED
      BY <2>1, <2>2 DEF ReplayInv
  <1>2. CASE UNCHANGED replayVars
    <2>1. UNCHANGED <<keyOf, length, requests, responses, strayed, queues, pairs, phase, jobs, busy, out, results, outClosed>>
      BY <1>2 DEF replayVars, captureVars, poolVars
    <2>2. MatchedInTurn'
      <3>1. \A k \in ReqKey : InTurn(k)'
        BY <2>1 DEF ReplayInv, MatchedInTurn, InTurn
      <3> QED
        BY <2>1, <3>1 DEF ReplayInv, MatchedInTurn
    <2>3. PairsInOnePlace'
      <3>1. (\A i : Replaying(i)' <=> Replaying(i)) /\ (\A i : Collected(i)' <=> Collected(i))
        BY <2>1 DEF Replaying, Collected
      <3> QED
        BY <2>1, <3>1 DEF ReplayInv, PairsInOnePlace
    <2>4. ReplayTypeOK' /\ PairedWithOwn' /\ OneResultPerPair'
      BY <2>1 DEF ReplayInv, ReplayTypeOK, PairedWithOwn, OneResultPerPair
    <2> QED
      BY <2>2, <2>3, <2>4 DEF ReplayInv
  <1> QED
    BY <1>1, <1>2

(* Of any capture and any number of workers: where answers keep the order of *)
(* their requests each is compared with its own, and the report has one      *)
(* result for each pair (pcapreplay/main.go:112-151, 207-284).               *)
THEOREM ReplayComparesAll == ReplaySpec => []ReplayInv
  BY ReplayInitInv, ReplayStepKeepsInv, PTL DEF ReplaySpec

=============================================================================
