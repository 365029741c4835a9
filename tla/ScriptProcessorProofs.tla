----------------------- MODULE ScriptProcessorProofs -----------------------
(***************************************************************************)
(* Proofs about the event queues, the pool of Lua states, and a phase of   *)
(* the script processor, which is the two together.  What is queued is     *)
(* taken in order by one goroutine, and a queue's every step is one that   *)
(* EventDelivery allows; no state is lost, doubled or dirty; a worker      *)
(* always finds one.  What is said of EventQueue uses no assumption but    *)
(* its own, so that it holds of the queues of api.go as well.              *)
(***************************************************************************)
EXTENDS ScriptProcessor, SequenceTheorems, FiniteSetTheorems, TLAPS

(* What the buffer's two operations do to a sequence. *)
LEMMA AppendFacts ==
    ASSUME NEW S, NEW s \in Seq(S), NEW e \in S
    PROVE  /\ Append(s, e) \in Seq(S)
           /\ Len(Append(s, e)) = Len(s) + 1
           /\ \A i \in 1..Len(s) : Append(s, e)[i] = s[i]
           /\ Append(s, e)[Len(s) + 1] = e
  OBVIOUS

LEMMA TailFacts ==
    ASSUME NEW S, NEW s \in Seq(S), s # << >>
    PROVE  /\ Len(s) \in Nat \ {0}
           /\ Head(s) = s[1] /\ Head(s) \in S
           /\ Tail(s) \in Seq(S)
           /\ Len(Tail(s)) = Len(s) - 1
           /\ \A i \in 1..Len(Tail(s)) : Tail(s)[i] = s[i + 1]
  OBVIOUS

-----------------------------------------------------------------------------
(* The invariant holds of an empty queue. *)
LEMMA QueueInitInv == QueueInit => QueueInv
  <1> SUFFICES ASSUME QueueInit PROVE QueueInv
    OBVIOUS
  <1>1. Len(<< >>) = 0 /\ << >> \in Seq(Events) /\ Capacity \in Nat
    BY QueueAssumption
  <1>2. addresses \in Nat /\ 0 \in 0..addresses
    BY QueueAssumption DEF QueueInit
  <1> QED
    BY <1>1, <1>2, IdleAssumption
    DEF QueueInit, QueueInv, QueueTypeOK, WorkIsExclusive, WaitingUntouched, Taken

(* Queueing an event: it is the last one accepted, and the last one waiting. *)
LEMMA SendKeepsInv ==
    ASSUME QueueInv, NEW e \in Events, Send(e)
    PROVE  QueueInv'
  <1> USE DEF QueueInv
  <1>1. addresses \in Nat /\ Capacity \in Nat
    BY QueueAssumption DEF QueueTypeOK
  <1>2. CASE /\ Len(queue) < Capacity
             /\ queue' = Append(queue, e) /\ accepted' = Append(accepted, e) /\ UNCHANGED dropped
    <2>1. /\ queue \in Seq(Events) /\ accepted \in Seq(Events)
          /\ Len(queue) \in Nat /\ Len(accepted) \in Nat
      BY DEF QueueTypeOK
    <2>2. /\ queue' \in Seq(Events)
          /\ Len(queue') = Len(queue) + 1
          /\ \A i \in 1..Len(queue) : queue'[i] = queue[i]
          /\ queue'[Len(queue) + 1] = e
      BY <1>2, <2>1, AppendFacts
    <2>3. /\ accepted' \in Seq(Events)
          /\ Len(accepted') = Len(accepted) + 1
          /\ \A i \in 1..Len(accepted) : accepted'[i] = accepted[i]
          /\ accepted'[Len(accepted) + 1] = e
      BY <1>2, <2>1, AppendFacts
    <2>4. UNCHANGED <<worker, tried, dropped, addresses>>
      BY <1>2 DEF Send
    <2>5. \A i \in 1..Len(accepted) : accepted[i] # e
      BY DEF Send, Fresh, InSeq
    <2>6. QueueTypeOK'
      BY <1>1, <1>2, <2>1, <2>2, <2>3, <2>4 DEF QueueTypeOK
    <2>7. WaitingUntouched'
      <3>1. Taken' = Taken /\ Taken \in Nat
        BY <2>1, <2>2, <2>3 DEF Taken, WaitingUntouched
      <3>2. Len(queue') <= Len(accepted')
        BY <2>1, <2>2, <2>3 DEF WaitingUntouched
      <3>3. \A i, j \in 1..Len(accepted') : accepted'[i] = accepted'[j] => i = j
        BY <2>1, <2>3, <2>5 DEF WaitingUntouched
      <3>4. ASSUME NEW i \in 1..Len(queue') PROVE queue'[i] = accepted'[Taken + i]
        <4>1. CASE i = Len(queue) + 1
          <5>1. Taken + i = Len(accepted) + 1
            BY <2>1, <4>1 DEF Taken
          <5> QED
            BY <2>2, <2>3, <4>1, <5>1
        <4>2. CASE i \in 1..Len(queue)
          <5>1. Taken + i \in 1..Len(accepted)
            BY <2>1, <3>1, <4>2 DEF Taken
          <5> QED
            BY <2>2, <2>3, <4>2, <5>1 DEF WaitingUntouched
        <4> QED
          BY <2>1, <2>2, <4>1, <4>2
      <3>5. ASSUME NEW d \in Events, tried'[d] # 0
            PROVE  \E i \in 1..Taken' : accepted'[i] = d
        <4>1. PICK i \in 1..Taken : accepted[i] = d
          BY <2>4, <3>5 DEF WaitingUntouched
        <4>2. i \in 1..Len(accepted)
          BY <2>1, <3>1 DEF Taken
        <4> QED
          BY <2>3, <3>1, <4>1, <4>2
      <3> QED
        BY <3>1, <3>2, <3>3, <3>4, <3>5 DEF WaitingUntouched
    <2>8. WorkIsExclusive'
      <3> SUFFICES ASSUME NEW v \in Workers, worker[v] # Idle
                   PROVE  /\ \A w \in Workers : worker[w] = worker[v] => v = w
                          /\ ~InSeq(worker[v], queue')
                          /\ InSeq(worker[v], accepted')
                          /\ tried[worker[v]] < addresses
        BY <2>4 DEF WorkIsExclusive
      <3>1. /\ \A w \in Workers : worker[w] = worker[v] => v = w
            /\ ~InSeq(worker[v], queue)
            /\ InSeq(worker[v], accepted)
            /\ tried[worker[v]] < addresses
        BY DEF WorkIsExclusive
      <3>2. worker[v] # e
        BY <2>5, <3>1 DEF InSeq
      <3>3. InSeq(worker[v], accepted')
        BY <2>1, <2>3, <3>1 DEF InSeq
      <3>4. ASSUME NEW i \in 1..Len(queue') PROVE queue'[i] # worker[v]
        <4>1. i \in 1..Len(queue) \/ i = Len(queue) + 1
          BY <2>1, <2>2
        <4> QED
          BY <2>2, <3>1, <3>2, <4>1 DEF InSeq
      <3> QED
        BY <3>1, <3>3, <3>4 DEF InSeq
    <2> QED
      BY <2>6, <2>7, <2>8
  <1>3. CASE dropped' = dropped \cup {e} /\ UNCHANGED <<queue, accepted>>
    BY <1>3 DEF Send, QueueTypeOK, WorkIsExclusive, WaitingUntouched, Taken, InSeq
  <1> QED
    BY <1>2, <1>3 DEF Send

(* Taking an event off: it was the first one waiting, nobody has touched it. *)
LEMMA TakeKeepsInv ==
    ASSUME QueueInv, NEW v \in Workers, Take(v)
    PROVE  QueueInv'
  <1> USE DEF QueueInv
  <1> DEFINE e == Head(queue)
  <1>1. /\ addresses \in Nat /\ Capacity \in Nat
        /\ queue \in Seq(Events) /\ accepted \in Seq(Events)
        /\ Len(queue) \in Nat /\ Len(accepted) \in Nat
        /\ tried \in [Events -> 0..addresses]
    BY QueueAssumption DEF QueueTypeOK
  <1>2. /\ Len(queue) \in Nat \ {0}
        /\ e = queue[1] /\ e \in Events
        /\ queue' \in Seq(Events)
        /\ Len(queue') = Len(queue) - 1
        /\ \A i \in 1..Len(queue') : queue'[i] = queue[i + 1]
    BY <1>1, TailFacts DEF Take
  <1> HIDE DEF e
  <1>3. /\ worker[v] = Idle
        /\ worker' = [worker EXCEPT ![v] = IF addresses = 0 THEN Idle ELSE e]
        /\ UNCHANGED <<accepted, tried, dropped, addresses>>
    BY DEF Take, e
  <1>4. /\ Taken \in Nat /\ Taken' = Taken + 1 /\ Taken' <= Len(accepted)
        /\ e = accepted[Taken + 1]
    BY <1>1, <1>2, <1>3 DEF Taken, WaitingUntouched
  <1>5. \A i \in 1..Len(accepted) : accepted[i] = e => i = Taken + 1
    BY <1>1, <1>4 DEF WaitingUntouched
  <1>6. QueueTypeOK'
    BY <1>1, <1>2, <1>3 DEF QueueTypeOK
  <1>7. WaitingUntouched'
    <2>1. \A i \in 1..Len(queue') : queue'[i] = accepted'[Taken' + i]
      BY <1>1, <1>2, <1>3, <1>4 DEF WaitingUntouched
    <2>2. Len(queue') <= Len(accepted')
      BY <1>1, <1>2, <1>3 DEF WaitingUntouched
    <2>3. ASSUME NEW d \in Events, tried'[d] # 0 PROVE \E i \in 1..Taken' : accepted'[i] = d
      <3>1. PICK i \in 1..Taken : accepted[i] = d
        BY <1>3, <2>3 DEF WaitingUntouched
      <3>2. i \in 1..Taken' /\ accepted'[i] = d
        BY <1>3, <1>4, <3>1
      <3> QED
        BY <3>2
    <2> QED
      BY <1>3, <2>1, <2>2, <2>3 DEF WaitingUntouched
  <1>8. WorkIsExclusive'
    <2>1. tried[e] = 0
      <3> SUFFICES ASSUME tried[e] # 0 PROVE FALSE
        OBVIOUS
      <3>1. PICK i \in 1..Taken : accepted[i] = e
        BY <1>2 DEF WaitingUntouched
      <3>2. i \in 1..Len(accepted) /\ i # Taken + 1
        BY <1>1, <1>4, <3>1
      <3> QED
        BY <1>5, <3>1, <3>2
    <2>2. InSeq(e, queue) /\ InSeq(e, accepted)
      <3>1. 1 \in 1..Len(queue) /\ queue[1] = e
        BY <1>2
      <3>2. Taken + 1 \in 1..Len(accepted) /\ accepted[Taken + 1] = e
        BY <1>1, <1>4
      <3> QED
        BY <3>1, <3>2 DEF InSeq
    <2>3. ~InSeq(e, queue')
      <3> SUFFICES ASSUME NEW i \in 1..Len(queue'), queue'[i] = e PROVE FALSE
        BY DEF InSeq
      <3>1. i + 1 \in 1..Len(queue) /\ queue[i + 1] = e
        BY <1>1, <1>2
      <3>2. accepted[Taken + (i + 1)] = e
        BY <3>1 DEF WaitingUntouched
      <3>3. Taken = Len(accepted) - Len(queue)
        BY DEF Taken
      <3>4. i \in Nat \ {0} /\ i + 1 <= Len(queue)
        BY <1>1, <1>2
      <3>5. Taken + (i + 1) \in 1..Len(accepted) /\ Taken + (i + 1) # Taken + 1
        <4>1. Taken \in Nat /\ Len(accepted) \in Nat /\ Len(queue) \in Nat
          BY <1>1, <1>4
        <4> QED
          BY <3>3, <3>4, <4>1
      <3> QED
        BY <1>5, <3>2, <3>5
    <2>4. ASSUME NEW d, InSeq(d, queue') PROVE InSeq(d, queue)
      <3>1. PICK i \in 1..Len(queue') : queue'[i] = d
        BY <2>4 DEF InSeq
      <3>2. i + 1 \in 1..Len(queue) /\ queue[i + 1] = d
        BY <1>1, <1>2, <3>1
      <3> QED
        BY <3>2 DEF InSeq
    <2> SUFFICES ASSUME NEW w \in Workers, worker'[w] # Idle
                 PROVE  /\ \A x \in Workers : worker'[x] = worker'[w] => w = x
                        /\ ~InSeq(worker'[w], queue')
                        /\ InSeq(worker'[w], accepted)
                        /\ tried[worker'[w]] < addresses
      BY <1>3 DEF WorkIsExclusive
    <2>5. \A x \in Workers : x # v => worker'[x] = worker[x]
      BY <1>3 DEF QueueTypeOK
    <2>6. worker'[v] \in {Idle, e} /\ (addresses = 0 => worker'[v] = Idle)
      BY <1>3 DEF QueueTypeOK
    <2>7. CASE w = v
      <3>1. worker'[w] = e /\ addresses # 0
        BY <2>6, <2>7
      <3>2. \A x \in Workers : x # v => worker[x] # e
        BY <1>2, <2>2, IdleAssumption DEF WorkIsExclusive
      <3> QED
        BY <1>1, <2>1, <2>2, <2>3, <2>5, <2>7, <3>1, <3>2
    <2>8. CASE w # v
      <3>1. worker'[w] = worker[w] /\ worker[w] # Idle
        BY <2>5, <2>8
      <3>2. /\ \A x \in Workers : worker[x] = worker[w] => w = x
            /\ ~InSeq(worker[w], queue)
            /\ InSeq(worker[w], accepted)
            /\ tried[worker[w]] < addresses
        BY <3>1 DEF WorkIsExclusive
      <3>3. worker'[v] # worker[w]
        BY <2>2, <2>6, <3>1, <3>2
      <3> QED
        BY <2>4, <2>5, <3>1, <3>2, <3>3
    <2> QED
      BY <2>7, <2>8
  <1> QED
    BY <1>6, <1>7, <1>8

(* Posting: the count of an event only one goroutine works on. *)
LEMMA PostKeepsInv ==
    ASSUME QueueInv, NEW v \in Workers, Post(v)
    PROVE  QueueInv'
  <1> USE DEF QueueInv
  <1> DEFINE e == worker[v]
  <1>1. /\ addresses \in Nat
        /\ accepted \in Seq(Events) /\ Len(accepted) \in Nat /\ Len(queue) \in Nat
        /\ tried \in [Events -> 0..addresses]
        /\ worker \in [Workers -> Events \cup {Idle}]
    BY QueueAssumption DEF QueueTypeOK
  <1>2. /\ e \in Events /\ e # Idle
        /\ \A w \in Workers : worker[w] = e => v = w
        /\ ~InSeq(e, queue) /\ InSeq(e, accepted)
        /\ tried[e] < addresses
    BY <1>1 DEF Post, WorkIsExclusive
  <1>3. /\ tried' = [tried EXCEPT ![e] = @ + 1]
        /\ worker' = [worker EXCEPT ![v] = IF tried[e] + 1 = addresses THEN Idle ELSE e]
        /\ UNCHANGED <<accepted, queue, dropped, addresses>>
    BY DEF Post
  <1>4. /\ \A w \in Workers : worker'[w] \in {worker[w], Idle}
        /\ tried[e] + 1 = addresses => worker'[v] = Idle
    BY <1>1, <1>3
  <1> HIDE DEF e
  <1>5. tried[e] \in 0..addresses /\ tried'[e] = tried[e] + 1 /\ \A d \in Events \ {e} : tried'[d] = tried[d]
    BY <1>1, <1>2, <1>3
  <1>6. QueueTypeOK'
    BY <1>1, <1>2, <1>3, <1>4, <1>5 DEF QueueTypeOK
  <1>7. WaitingUntouched'
    <2>1. PICK i \in 1..Len(accepted) : accepted[i] = e
      BY <1>2 DEF InSeq
    <2>2. i \in 1..Taken
      <3> SUFFICES ASSUME i > Taken PROVE FALSE
        BY <1>1 DEF Taken
      <3>1. i - Taken \in 1..Len(queue) /\ Taken + (i - Taken) = i
        BY <1>1 DEF Taken
      <3>2. queue[i - Taken] = e
        BY <2>1, <3>1 DEF WaitingUntouched
      <3> QED
        BY <1>2, <3>1, <3>2 DEF InSeq
    <2> QED
      BY <1>3, <1>5, <2>1, <2>2 DEF WaitingUntouched, Taken
  <1>8. WorkIsExclusive'
    <2> SUFFICES ASSUME NEW w \in Workers, worker'[w] # Idle
                 PROVE  /\ \A x \in Workers : worker'[x] = worker'[w] => w = x
                        /\ ~InSeq(worker'[w], queue)
                        /\ InSeq(worker'[w], accepted)
                        /\ tried'[worker'[w]] < addresses
      BY <1>3 DEF WorkIsExclusive, InSeq
    <2>1. worker'[w] = worker[w] /\ worker[w] # Idle /\ worker[w] \in Events
      BY <1>1, <1>4
    <2>2. /\ \A x \in Workers : worker[x] = worker[w] => w = x
          /\ ~InSeq(worker[w], queue)
          /\ InSeq(worker[w], accepted)
          /\ tried[worker[w]] < addresses
      BY <2>1 DEF WorkIsExclusive
    <2>3. tried'[worker[w]] < addresses
      <3>1. CASE w = v
        BY <1>1, <1>2, <1>4, <1>5, <2>1, <3>1 DEF e
      <3>2. CASE w # v
        BY <1>2, <1>5, <2>1, <2>2, <3>2
      <3> QED
        BY <3>1, <3>2
    <2> QED
      BY <1>4, <2>1, <2>2, <2>3
  <1> QED
    BY <1>6, <1>7, <1>8

(* The same for a step that leaves the queue alone. *)
LEMMA QueueStutterKeepsInv ==
    ASSUME QueueInv, UNCHANGED queueVars
    PROVE  QueueInv'
  BY DEF QueueInv, queueVars, QueueTypeOK, WorkIsExclusive, WaitingUntouched, Taken, InSeq

(* Whatever handlers and workers do, the queue holds at most Capacity events, *)
(* in the order they were sent, and no two goroutines work on one event       *)
(* (api.go:97-101, 104-109, 224-251; script/processor.go:71-107): for any     *)
(* number of events, workers and addresses.                                   *)
THEOREM QueueInvariant == QueueSpec => []QueueInv
  <1>1. QueueInv /\ [QueueNext]_queueVars => QueueInv'
    BY SendKeepsInv, TakeKeepsInv, PostKeepsInv, QueueStutterKeepsInv DEF QueueNext
  <1> QED
    BY <1>1, QueueInitInv, PTL DEF QueueSpec

-----------------------------------------------------------------------------
(* The steps of the queue as steps of EventDelivery. *)
LEMMA SendDelivers ==
    ASSUME QueueInv, NEW e \in Events, Send(e)
    PROVE  Delivery!Accept(e) \/ Delivery!Drop(e)
  <1>1. /\ queue \in Seq(Events) /\ accepted \in Seq(Events)
        /\ Len(queue) \in Nat /\ Len(accepted) \in Nat
        /\ Capacity \in Nat /\ Len(queue) <= Capacity
        /\ Len(queue) <= Len(accepted)
    BY QueueAssumption DEF QueueInv, QueueTypeOK, WaitingUntouched
  <1>2. Delivery!Fresh(e)
    BY DEF Send, Fresh, InSeq, Delivery!Fresh, Delivery!InSeq
  <1>3. Len(accepted) - Taken = Len(queue)
    BY <1>1 DEF Taken
  <1>4. UNCHANGED <<tried, addresses>>
    BY DEF Send
  <1>5. CASE /\ Len(queue) < Capacity
             /\ queue' = Append(queue, e) /\ accepted' = Append(accepted, e) /\ UNCHANGED dropped
    <2>1. Len(queue') = Len(queue) + 1 /\ Len(accepted') = Len(accepted) + 1
      BY <1>1, <1>5, AppendFacts
    <2>2. UNCHANGED Taken
      BY <1>1, <2>1 DEF Taken
    <2> QED
      BY <1>2, <1>3, <1>4, <1>5, <2>2 DEF Delivery!Accept
  <1>6. CASE /\ ~(Len(queue) < Capacity)
             /\ dropped' = dropped \cup {e} /\ UNCHANGED <<queue, accepted>>
    <2>1. Len(queue) = Capacity /\ UNCHANGED Taken
      BY <1>1, <1>6 DEF Taken
    <2> QED
      BY <1>2, <1>3, <1>4, <1>6, <2>1 DEF Delivery!Drop
  <1> QED
    BY <1>5, <1>6 DEF Send

LEMMA TakeDelivers ==
    ASSUME QueueInv, NEW v \in Workers, Take(v)
    PROVE  Delivery!Start
  <1>1. /\ queue \in Seq(Events) /\ accepted \in Seq(Events)
        /\ Len(queue) \in Nat /\ Len(accepted) \in Nat
    BY DEF QueueInv, QueueTypeOK
  <1>2. Len(queue) # 0 /\ Len(queue') = Len(queue) - 1
    BY <1>1, TailFacts DEF Take
  <1>3. Taken < Len(accepted) /\ Taken' = Taken + 1
    BY <1>1, <1>2 DEF Take, Taken
  <1> QED
    BY <1>3 DEF Take, Delivery!Start

LEMMA PostDelivers ==
    ASSUME QueueInv, NEW v \in Workers, Post(v)
    PROVE  \E i \in 1..Len(accepted) : Delivery!Try(i)
  <1>1. /\ Len(queue) \in Nat /\ Len(accepted) \in Nat
        /\ worker \in [Workers -> Events \cup {Idle}]
    BY DEF QueueInv, QueueTypeOK
  <1>2. /\ worker[v] # Idle /\ ~InSeq(worker[v], queue)
        /\ tried[worker[v]] < addresses
    BY DEF Post, QueueInv, WorkIsExclusive
  <1>3. PICK i \in 1..Len(accepted) : accepted[i] = worker[v]
    BY DEF Post, QueueInv, WorkIsExclusive, InSeq
  <1>4. i <= Taken
    <2> SUFFICES ASSUME i > Taken PROVE FALSE
      BY <1>1 DEF Taken
    <2>1. i - Taken \in 1..Len(queue) /\ Taken + (i - Taken) = i
      BY <1>1 DEF Taken
    <2> QED
      BY <1>2, <1>3, <2>1 DEF InSeq, QueueInv, WaitingUntouched
  <1>5. UNCHANGED <<accepted, dropped, addresses, Taken>>
    BY DEF Post, Taken
  <1>6. tried' = [tried EXCEPT ![accepted[i]] = @ + 1]
    BY <1>3 DEF Post
  <1>7. Delivery!Try(i)
    BY <1>2, <1>3, <1>4, <1>5, <1>6 DEF Delivery!Try
  <1> QED
    BY <1>7

(* A channel with goroutines that empty it does what EventDelivery promises: *)
(* an event is refused only when Capacity events wait, else taken up in its  *)
(* turn and tried at no address more than the configured ones (api.go:224-   *)
(* 251, script/processor.go:71-107).  That it gets there rests on fairness   *)
(* and is left to ImplementsDelivery.                                        *)
THEOREM QueueRefinesDelivery == QueueSpec => Delivery!DeliverySafety
  <1>1. QueueInit => Delivery!DeliveryInit
    <2>1. Len(<< >>) - Len(<< >>) = 0
      OBVIOUS
    <2> QED
      BY <2>1, QueueAssumption DEF QueueInit, Delivery!DeliveryInit, Taken
  <1>2. QueueInv /\ [QueueNext]_queueVars => [Delivery!DeliveryNext]_(Delivery!deliveryVars)
    <2> SUFFICES ASSUME QueueInv, [QueueNext]_queueVars
                 PROVE  Delivery!DeliveryNext \/ UNCHANGED Delivery!deliveryVars
      OBVIOUS
    <2>1. ASSUME NEW e \in Events, Send(e) PROVE Delivery!DeliveryNext
      BY <2>1, SendDelivers DEF Delivery!DeliveryNext
    <2>2. ASSUME NEW v \in Workers, Take(v) PROVE Delivery!DeliveryNext
      BY <2>2, TakeDelivers DEF Delivery!DeliveryNext
    <2>3. ASSUME NEW v \in Workers, Post(v) PROVE Delivery!DeliveryNext
      BY <2>3, PostDelivers DEF Delivery!DeliveryNext
    <2>4. ASSUME UNCHANGED queueVars PROVE UNCHANGED Delivery!deliveryVars
      BY <2>4 DEF queueVars, Delivery!deliveryVars, Taken
    <2> QED
      BY <2>1, <2>2, <2>3, <2>4 DEF QueueNext
  <1> QED
    BY <1>1, <1>2, QueueInvariant, PTL DEF QueueSpec, Delivery!DeliverySafety

-----------------------------------------------------------------------------

(* A sequence that repeats nothing is no longer than the set it is from is   *)
(* large.                                                                    *)
LEMMA InjectiveSeqLength ==
    ASSUME NEW T, IsFiniteSet(T), NEW s \in Seq(T),
           \A i, j \in 1..Len(s) : s[i] = s[j] => i = j
    PROVE  Len(s) <= Cardinality(T)
  <1>1. Len(s) \in Nat /\ s \in [1..Len(s) -> T]
    OBVIOUS
  <1>2. s \in Injection(1..Len(s), T)
    BY <1>1 DEF Injection, IsInjective
  <1>3. Cardinality(1..Len(s)) <= Cardinality(T)
    BY <1>2, FS_Injection
  <1>4. Cardinality(1..Len(s)) = Len(s)
    BY <1>1, FS_Interval
  <1> QED
    BY <1>3, <1>4

(* NewEngine: all states are in the pool, once. *)
LEMMA EngineInitInv == EngineInit => EngineInv
  <1> SUFFICES ASSUME EngineInit PROVE EngineInv
    OBVIOUS
  <1> DEFINE n == Cardinality(States)
  <1>1. /\ n \in Nat /\ Cardinality(1..n) = n /\ IsFiniteSet(1..n)
    BY StatesAssumption, FS_CardinalityType, FS_Interval
  <1>2. /\ pool \in [1..n -> States]
        /\ \A i, j \in 1..n : pool[i] = pool[j] => i = j
    BY DEF EngineInit
  <1>3. pool \in Injection(1..n, States)
    BY <1>2 DEF Injection, IsInjective
  <1>4. pool \in Surjection(1..n, States)
    BY <1>1, <1>3, StatesAssumption, FS_Injection
  <1> HIDE DEF n
  <1>5. pool \in Seq(States) /\ Len(pool) = n
    BY <1>1, <1>2
  <1>6. \A s \in States : InPool(s)
    BY <1>4, <1>5 DEF InPool, Surjection
  <1>7. /\ call = [c \in Callers |-> NoCall]
        /\ context = [s \in States |-> NoContext]
    BY DEF EngineInit
  <1>8. EngineTypeOK
    BY <1>5, <1>7 DEF EngineTypeOK, NoCall
  <1>9. StatesConserved
    BY <1>2, <1>5, <1>6, <1>7, StatesAssumption DEF StatesConserved, Holding, NoCall
  <1>10. OwnContext /\ ReturnNeverBlocks
    BY <1>7 DEF OwnContext, ReturnNeverBlocks, At, NoCall
  <1> QED
    BY <1>8, <1>9, <1>10 DEF EngineInv
-----------------------------------------------------------------------------
(* A call that is through holds a state the pool does not, so that the pool *)
(* is not full.                                                             *)
LEMMA RoomToReturn == EngineTypeOK /\ StatesConserved => ReturnNeverBlocks
  <1> SUFFICES ASSUME EngineTypeOK, StatesConserved, NEW c \in Callers, At(c, "returning")
               PROVE  Len(pool) < Cardinality(States)
    BY DEF ReturnNeverBlocks
  <1> DEFINE s == call[c].state
             T == States \ {s}
  <1>1. s \in States
    BY DEF EngineTypeOK, StatesConserved, Holding, At
  <1>2. ~InPool(s)
    BY <1>1 DEF StatesConserved
  <1>3. pool \in Seq(States) /\ Len(pool) \in Nat
    BY DEF EngineTypeOK
  <1> HIDE DEF s
  <1>4. \A i \in 1..Len(pool) : pool[i] \in T
    BY <1>2, <1>3 DEF InPool
  <1>5. pool \in Seq(T)
    BY <1>3, <1>4
  <1>6. IsFiniteSet(T) /\ Cardinality(T) = Cardinality(States) - 1
    BY <1>1, StatesAssumption, FS_RemoveElement
  <1>7. Len(pool) <= Cardinality(T)
    <2> HIDE DEF T
    <2> QED
      BY <1>5, <1>6, InjectiveSeqLength DEF StatesConserved
  <1>8. Cardinality(States) \in Nat
    BY StatesAssumption, FS_CardinalityType
  <1> QED
    BY <1>3, <1>6, <1>7, <1>8

(* The part of the invariant that is not a consequence of the rest. *)
EngineCore == EngineTypeOK /\ StatesConserved /\ OwnContext

LEMMA CoreIsEnough == EngineCore <=> EngineInv
  BY RoomToReturn DEF EngineCore, EngineInv

(* A step of one call that moves no state. *)
LEMMA NoStateMoves ==
    ASSUME EngineCore, NEW c \in Callers,
           \/ Begin(c) \/ Expire(c) \/ GiveUp(c)
           \/ SetContext(c) \/ ScriptEnds(c) \/ RemoveContext(c)
    PROVE  EngineTypeOK' /\ StatesConserved'
  <1> USE DEF EngineCore
  <1>1. UNCHANGED pool
    BY DEF Begin, Expire, GiveUp, SetContext, ScriptEnds, RemoveContext
  <1>2. \A d \in Callers : Holding(d)' = Holding(d) /\ call'[d].state = call[d].state
    <2>1. CASE Begin(c)
      BY <2>1 DEF Begin, Goto, At, Holding, EngineTypeOK
    <2>2. CASE Expire(c)
      BY <2>2 DEF Expire, Holding, EngineTypeOK
    <2>3. CASE GiveUp(c)
      BY <2>3 DEF GiveUp, NoCall, At, Holding, EngineTypeOK, StatesConserved
    <2>4. CASE SetContext(c)
      BY <2>4 DEF SetContext, Goto, At, Holding, EngineTypeOK
    <2>5. CASE ScriptEnds(c)
      BY <2>5 DEF ScriptEnds, Goto, At, Holding, EngineTypeOK
    <2>6. CASE RemoveContext(c)
      BY <2>6 DEF RemoveContext, Goto, At, Holding, EngineTypeOK
    <2> QED
      BY <2>1, <2>2, <2>3, <2>4, <2>5, <2>6
  <1>3. EngineTypeOK'
    <2>1. CASE Begin(c)
      BY <2>1 DEF Begin, Goto, EngineTypeOK
    <2>2. CASE Expire(c)
      BY <2>2 DEF Expire, EngineTypeOK
    <2>3. CASE GiveUp(c)
      BY <2>3 DEF GiveUp, NoCall, EngineTypeOK
    <2>4. CASE SetContext(c)
      BY <2>4 DEF SetContext, Goto, EngineTypeOK
    <2>5. CASE ScriptEnds(c)
      BY <2>5 DEF ScriptEnds, Goto, EngineTypeOK
    <2>6. CASE RemoveContext(c)
      BY <2>6 DEF RemoveContext, Goto, EngineTypeOK
    <2> QED
      BY <2>1, <2>2, <2>3, <2>4, <2>5, <2>6
  <1>4. StatesConserved'
    BY <1>1, <1>2 DEF StatesConserved, InPool
  <1> QED
    BY <1>3, <1>4

(* Nor does it leave a context behind. *)
LEMMA ContextsStayOwn ==
    ASSUME EngineCore, NEW c \in Callers,
           \/ Begin(c) \/ Expire(c) \/ GiveUp(c)
           \/ SetContext(c) \/ ScriptEnds(c) \/ RemoveContext(c)
    PROVE  OwnContext'
  <1> USE DEF EngineCore
  <1>1. CASE Begin(c) \/ Expire(c) \/ GiveUp(c) \/ ScriptEnds(c)
    <2>1. UNCHANGED <<pool, context>>
      BY <1>1 DEF Begin, Expire, GiveUp, ScriptEnds
    <2>2. \A d \in Callers : At(d, "running")' \/ At(d, "returning")' => call'[d].pc = call[d].pc /\ call'[d].state = call[d].state
      BY <1>1 DEF Begin, Expire, GiveUp, ScriptEnds, Goto, At, NoCall, EngineTypeOK
    <2> QED
      BY <2>1, <2>2 DEF OwnContext, InPool, At
  <1>2. CASE SetContext(c) \/ RemoveContext(c)
    <2> DEFINE s == call[c].state
    <2>1. UNCHANGED pool /\ Holding(c)
      BY <1>2 DEF SetContext, RemoveContext, Holding, At
    <2>2. s \in States /\ ~InPool(s)
      BY <2>1 DEF StatesConserved, EngineTypeOK
    <2>3. \A d \in Callers : Holding(d) /\ call[d].state = s => d = c
      BY <2>1 DEF StatesConserved
    <2>4. \A d \in Callers : call'[d].state = call[d].state /\ (d # c => call'[d].pc = call[d].pc)
      BY <1>2 DEF SetContext, RemoveContext, Goto, EngineTypeOK
    <2>5. \A t \in States \ {s} : context'[t] = context[t]
      BY <1>2 DEF SetContext, RemoveContext, EngineTypeOK
    <2>6. \A t \in States : InPool(t)' => context'[t] = NoContext
      BY <2>1, <2>2, <2>5 DEF OwnContext, InPool
    <2>7. ASSUME NEW d \in Callers, d # c
          PROVE  /\ At(d, "running")' => context'[call'[d].state] = d
                 /\ At(d, "returning")' => context'[call'[d].state] = NoContext
      <3> SUFFICES ASSUME At(d, "running") \/ At(d, "returning")
                   PROVE  context'[call'[d].state] = context[call[d].state]
        BY <2>4, <2>7 DEF OwnContext, At
      <3>1. Holding(d) /\ call[d].state \in States
        BY DEF Holding, At, StatesConserved, EngineTypeOK
      <3> QED
        BY <2>3, <2>4, <2>5, <2>7, <3>1
    <2>8. /\ At(c, "running")' => context'[call'[c].state] = c
          /\ At(c, "returning")' => context'[call'[c].state] = NoContext
      <3>1. CASE SetContext(c)
        BY <2>2, <2>4, <3>1 DEF SetContext, Goto, At, EngineTypeOK
      <3>2. CASE RemoveContext(c)
        BY <2>2, <2>4, <3>2 DEF RemoveContext, Goto, At, EngineTypeOK
      <3> QED
        BY <1>2, <3>1, <3>2
    <2> QED
      BY <2>6, <2>7, <2>8 DEF OwnContext
  <1> QED
    BY <1>1, <1>2

(* A state leaves the pool for one call ... *)
LEMMA AcquireKeepsCore ==
    ASSUME EngineCore, NEW c \in Callers, Acquire(c)
    PROVE  EngineCore'
  <1> USE DEF EngineCore
  <1> DEFINE s == Head(pool)
  <1>1. /\ pool \in Seq(States) /\ s \in States /\ s # NoState
        /\ s = pool[1] /\ Len(pool) \in Nat \ {0}
        /\ pool' \in Seq(States) /\ Len(pool') = Len(pool) - 1
        /\ \A i \in 1..Len(pool') : pool'[i] = pool[i + 1]
    BY TailFacts, StatesAssumption DEF Acquire, EngineTypeOK
  <1>2. /\ call[c].pc = "waiting"
        /\ call' = [call EXCEPT ![c].pc = "holding", ![c].state = s]
        /\ UNCHANGED context
    BY DEF Acquire, At
  <1> HIDE DEF s
  <1>3. /\ call'[c].pc = "holding" /\ call'[c].state = s
        /\ \A d \in Callers : d # c => call'[d] = call[d]
    BY <1>2 DEF EngineTypeOK
  <1>4. EngineTypeOK'
    <2>1. s \in States
      BY <1>1
    <2>2. call' \in [Callers -> [pc : {"idle", "waiting", "holding", "running", "leaving", "returning"},
                                state : States \cup {NoState}, expired : BOOLEAN]]
      BY <1>2, <2>1 DEF EngineTypeOK
    <2> QED
      BY <1>1, <1>2, <2>2 DEF EngineTypeOK
  <1>5. \A t \in States : InPool(t)' <=> InPool(t) /\ t # s
    <2>1. ASSUME NEW t \in States, InPool(t)' PROVE InPool(t) /\ t # s
      <3>1. PICK i \in 1..Len(pool') : pool'[i] = t
        BY <2>1 DEF InPool
      <3>2. i + 1 \in 1..Len(pool) /\ pool[i + 1] = t /\ 1 \in 1..Len(pool) /\ i + 1 # 1
        BY <1>1, <3>1
      <3>3. t # pool[1]
        BY <3>2 DEF StatesConserved
      <3> QED
        BY <1>1, <3>2, <3>3 DEF InPool
    <2>2. ASSUME NEW t \in States, InPool(t), t # s PROVE InPool(t)'
      <3>1. PICK i \in 1..Len(pool) : pool[i] = t
        BY <2>2 DEF InPool
      <3>2. i - 1 \in 1..Len(pool') /\ pool'[i - 1] = t
        BY <1>1, <2>2, <3>1
      <3> QED
        BY <3>2 DEF InPool
    <2> QED
      BY <2>1, <2>2
  <1>6. InPool(s) /\ \A d \in Callers : call[d].state # s
    BY <1>1 DEF InPool, StatesConserved
  <1>7. StatesConserved'
    <2>1. ASSUME NEW i \in 1..Len(pool'), NEW j \in 1..Len(pool'), pool'[i] = pool'[j] PROVE i = j
      <3>1. i + 1 \in 1..Len(pool) /\ j + 1 \in 1..Len(pool) /\ pool[i + 1] = pool[j + 1]
        BY <1>1, <2>1
      <3>2. i + 1 = j + 1
        BY <3>1 DEF StatesConserved
      <3> QED
        BY <3>2
    <2>2. \A d \in Callers : Holding(d)' <=> call'[d].state # NoState
      BY <1>1, <1>3 DEF Holding, StatesConserved
    <2>3. \A d, e \in Callers : Holding(d)' /\ call'[d].state = call'[e].state => d = e
      BY <1>3, <1>6 DEF Holding, StatesConserved
    <2>4. \A t \in States : InPool(t)' <=> \A d \in Callers : call'[d].state # t
      <3>1. call[c].state = NoState
        BY <1>2 DEF StatesConserved, Holding
      <3> QED
        BY <1>3, <1>5, <1>6, <3>1, StatesAssumption DEF StatesConserved
    <2> QED
      BY <2>1, <2>2, <2>3, <2>4 DEF StatesConserved
  <1>8. OwnContext'
    BY <1>2, <1>3, <1>5 DEF OwnContext, At
  <1> QED
    BY <1>4, <1>7, <1>8

(* ... and comes back from it, bare. *)
LEMMA PutBackKeepsCore ==
    ASSUME EngineCore, NEW c \in Callers, PutBack(c)
    PROVE  EngineCore'
  <1> USE DEF EngineCore
  <1> DEFINE s == call[c].state
  <1>1. /\ call[c].pc = "returning" /\ s \in States /\ ~InPool(s)
        /\ context[s] = NoContext
        /\ \A d \in Callers : call[d].state = s => d = c
    BY DEF PutBack, At, Holding, StatesConserved, OwnContext, EngineTypeOK
  <1>2. /\ pool \in Seq(States) /\ Len(pool) \in Nat
        /\ pool' \in Seq(States) /\ Len(pool') = Len(pool) + 1
        /\ \A i \in 1..Len(pool) : pool'[i] = pool[i]
        /\ pool'[Len(pool) + 1] = s
    BY <1>1, AppendFacts DEF PutBack, EngineTypeOK
  <1>3. /\ UNCHANGED context
        /\ call' = [call EXCEPT ![c] = NoCall]
    BY DEF PutBack
  <1> HIDE DEF s
  <1>4. /\ call'[c].pc = "idle" /\ call'[c].state = NoState
        /\ \A d \in Callers : d # c => call'[d] = call[d]
    BY <1>3 DEF EngineTypeOK, NoCall
  <1>5. EngineTypeOK'
    BY <1>2, <1>3 DEF EngineTypeOK, NoCall
  <1>6. \A t \in States : InPool(t)' <=> InPool(t) \/ t = s
    <2>1. ASSUME NEW t \in States, InPool(t)' PROVE InPool(t) \/ t = s
      <3>1. PICK i \in 1..Len(pool') : pool'[i] = t
        BY <2>1 DEF InPool
      <3>2. i \in 1..Len(pool) \/ i = Len(pool) + 1
        BY <1>2
      <3> QED
        BY <1>2, <3>1, <3>2 DEF InPool
    <2>2. ASSUME NEW t \in States, InPool(t) PROVE InPool(t)'
      <3>1. PICK i \in 1..Len(pool) : pool[i] = t
        BY <2>2 DEF InPool
      <3>2. i \in 1..Len(pool') /\ pool'[i] = t
        BY <1>2, <3>1
      <3> QED
        BY <3>2 DEF InPool
    <2>3. ASSUME NEW t \in States, t = s PROVE InPool(t)'
      <3>1. Len(pool) + 1 \in 1..Len(pool') /\ pool'[Len(pool) + 1] = t
        BY <1>2, <2>3
      <3> QED
        BY <3>1 DEF InPool
    <2> QED
      BY <2>1, <2>2, <2>3
  <1>7. StatesConserved'
    <2>1. ASSUME NEW i \in 1..Len(pool'), NEW j \in 1..Len(pool'), pool'[i] = pool'[j] PROVE i = j
      <3>1. \A k \in 1..Len(pool) : pool[k] # s
        BY <1>1 DEF InPool
      <3>2. /\ i \in 1..Len(pool) \/ i = Len(pool) + 1
            /\ j \in 1..Len(pool) \/ j = Len(pool) + 1
        BY <1>2
      <3> QED
        BY <1>2, <2>1, <3>1, <3>2 DEF StatesConserved
    <2>2. \A d \in Callers : Holding(d)' <=> call'[d].state # NoState
      BY <1>4 DEF Holding, StatesConserved
    <2>3. \A d, e \in Callers : Holding(d)' /\ call'[d].state = call'[e].state => d = e
      BY <1>4 DEF Holding, StatesConserved
    <2>4. \A t \in States : InPool(t)' <=> \A d \in Callers : call'[d].state # t
      BY <1>1, <1>4, <1>6, StatesAssumption DEF StatesConserved, s
    <2> QED
      BY <2>1, <2>2, <2>3, <2>4 DEF StatesConserved
  <1>8. OwnContext'
    BY <1>1, <1>3, <1>4, <1>6 DEF OwnContext, At
  <1> QED
    BY <1>5, <1>7, <1>8

LEMMA EngineStepKeepsInv == EngineInv /\ [EngineNext]_engineVars => EngineInv'
  <1> SUFFICES ASSUME EngineCore, [EngineNext]_engineVars
               PROVE  EngineCore'
    BY CoreIsEnough, PTL
  <1>1. ASSUME NEW c \in Callers,
               \/ Begin(c) \/ Expire(c) \/ GiveUp(c)
               \/ SetContext(c) \/ ScriptEnds(c) \/ RemoveContext(c)
        PROVE  EngineCore'
    BY <1>1, NoStateMoves, ContextsStayOwn DEF EngineCore
  <1>2. ASSUME UNCHANGED engineVars
        PROVE  EngineCore'
    BY <1>2 DEF engineVars, EngineCore, EngineTypeOK, StatesConserved, OwnContext, InPool, Holding, At
  <1> QED
    BY <1>1, <1>2, AcquireKeepsCore, PutBackKeepsCore DEF EngineNext
(* However calls end, and whenever their timeouts expire, every Lua state is *)
(* in the pool once or with one call, a free state carries no context, and   *)
(* the send that returns one does not block (engine.go:157-171): for any     *)
(* pool size and any number of callers.                                      *)
THEOREM EngineInvariant == EngineSpec => []EngineInv
  BY EngineInitInv, EngineStepKeepsInv, PTL DEF EngineSpec

-----------------------------------------------------------------------------
(* The steps of a phase are steps of its queue and of its engine. *)
LEMMA PhaseStepOfParts ==
    ASSUME [PhaseNext]_phaseVars
    PROVE  [QueueNext]_queueVars /\ [EngineNext]_engineVars
  <1>1. ASSUME NEW e \in Events, Send(e), UNCHANGED engineVars
        PROVE  QueueNext /\ UNCHANGED engineVars
    BY <1>1 DEF QueueNext
  <1>2. ASSUME NEW w \in Workers, Work(w) PROVE QueueNext /\ EngineNext
    BY <1>2, WorkersAssumption DEF Work, QueueNext, EngineNext
  <1>3. ASSUME NEW w \in Workers, Done(w) PROVE QueueNext /\ UNCHANGED engineVars
    BY <1>3 DEF Done, QueueNext
  <1>4. ASSUME NEW w \in Workers, InCall(w), UNCHANGED queueVars
        PROVE  EngineNext /\ UNCHANGED queueVars
    BY <1>4, WorkersAssumption DEF InCall, EngineNext
  <1>5. ASSUME UNCHANGED phaseVars PROVE UNCHANGED queueVars /\ UNCHANGED engineVars
    BY <1>5 DEF phaseVars
  <1> QED
    BY <1>1, <1>2, <1>3, <1>4, <1>5 DEF PhaseNext

(* What holds of the queue and of the engine alone holds of the phase.       *)
THEOREM PhaseComposes == PhaseSpec => QueueSpec /\ EngineSpec
  <1>1. PhaseInit => QueueInit /\ EngineInit
    BY DEF PhaseInit
  <1> QED
    BY <1>1, PhaseStepOfParts, PTL DEF PhaseSpec, QueueSpec, EngineSpec

(* The script processor keeps the promise of EventDelivery, as the API       *)
(* processor does (processor.go:71-107).                                     *)
THEOREM PhaseRefinesDelivery == PhaseSpec => Delivery!DeliverySafety
  BY PhaseComposes, QueueRefinesDelivery, PTL

(* The engine of a phase serves its workers only. *)
OnlyWorkersCall == \A c \in Callers : ~At(c, "idle") => c \in Workers

LEMMA OnlyWorkersCallInvariant == PhaseSpec => [](EngineInv /\ OnlyWorkersCall)
  <1>1. PhaseInit => OnlyWorkersCall
    BY DEF PhaseInit, EngineInit, OnlyWorkersCall, At, NoCall
  <1>2. EngineInv /\ OnlyWorkersCall /\ [PhaseNext]_phaseVars => OnlyWorkersCall'
    <2> SUFFICES ASSUME EngineTypeOK, OnlyWorkersCall, [PhaseNext]_phaseVars
                 PROVE  OnlyWorkersCall'
      BY DEF EngineInv
    <2>1. ASSUME NEW w \in Workers, NEW c \in Callers, c # w, Begin(w) \/ InCall(w)
          PROVE  call'[c] = call[c]
      BY <2>1 DEF Begin, InCall, Expire, Acquire, GiveUp, SetContext, ScriptEnds, RemoveContext,
                  PutBack, Goto, EngineTypeOK
    <2>2. ASSUME NEW w \in Workers, Work(w) \/ (InCall(w) /\ UNCHANGED queueVars) PROVE OnlyWorkersCall'
      BY <2>1, <2>2 DEF Work, OnlyWorkersCall, At
    <2>3. ASSUME UNCHANGED engineVars PROVE OnlyWorkersCall'
      BY <2>3 DEF engineVars, OnlyWorkersCall, At
    <2> QED
      BY <2>2, <2>3 DEF PhaseNext, Done, phaseVars
  <1> QED
    BY <1>1, <1>2, PhaseComposes, EngineInvariant, PTL DEF PhaseSpec

(* With as many states as workers, a worker that waits holds none, and the   *)
(* others cannot hold all of them: a burst of events makes no script time    *)
(* out before it has begun (processor.go:76-78, 92-94; engine.go:160-170).   *)
THEOREM WorkersNeverWait == PhaseSpec => []WorkersFindState
  <1>1. EngineInv /\ OnlyWorkersCall => WorkersFindState
    <2> SUFFICES ASSUME EngineInv, OnlyWorkersCall,
                        NEW w \in Workers, At(w, "waiting"), pool = << >>
                 PROVE  FALSE
      BY DEF WorkersFindState
    <2> DEFINE others == Workers \ {w}
               holder == [s \in States |-> CHOOSE c \in Callers : call[c].state = s]
    <2>1. \A s \in States : ~InPool(s)
      BY DEF InPool
    <2>2. \A s \in States : holder[s] \in Callers /\ call[holder[s]].state = s
      BY <2>1 DEF EngineInv, StatesConserved
    <2> HIDE DEF holder
    <2>3. ASSUME NEW s \in States PROVE holder[s] \in others
      <3>1. Holding(holder[s])
        BY <2>2, StatesAssumption DEF EngineInv, StatesConserved
      <3>2. holder[s] \in Workers
        BY <2>2, <3>1 DEF OnlyWorkersCall, Holding, At
      <3>3. holder[s] # w
        BY <3>1 DEF Holding, At
      <3> QED
        BY <3>2, <3>3
    <2>4. holder \in Injection(States, others)
      <3>1. holder \in [States -> others]
        BY <2>3 DEF holder
      <3>2. IsInjective(holder)
        BY <2>2, <3>1 DEF IsInjective
      <3> QED
        BY <3>1, <3>2 DEF Injection
    <2>5. IsFiniteSet(others) /\ Cardinality(others) = Cardinality(Workers) - 1
      BY WorkersAssumption, FS_RemoveElement
    <2>6. Cardinality(States) <= Cardinality(others)
      BY <2>4, <2>5, FS_Injection
    <2>7. Cardinality(States) \in Nat
      BY StatesAssumption, FS_CardinalityType
    <2> QED
      BY <2>5, <2>6, <2>7, WorkersAssumption
  <1> QED
    BY <1>1, OnlyWorkersCallInvariant, PTL
=============================================================================
