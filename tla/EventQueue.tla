----------------------------- MODULE EventQueue -----------------------------
(***************************************************************************)
(* The accounting or post-auth queue of a processor: a buffered channel,   *)
(* non-blocking sends by the handlers, and the goroutines that empty it.   *)
(* api/api.go posts an event to every configured address (sendAll),        *)
(* script/processor.go calls one script function: the case of one address.  *)
(***************************************************************************)
EXTENDS Naturals, Sequences

CONSTANTS
    Events,         \* events the handlers may send, each at most once
    Capacity,       \* queueSize, script.queue_size
    Addresses,      \* how many a processor's phase may have
    Workers,        \* the goroutines that range over the channel
    Idle            \* a worker that waits for an event

ASSUME QueueAssumption == Capacity \in Nat /\ Addresses \subseteq Nat
ASSUME IdleAssumption == Idle \notin Events

VARIABLES
    accepted,       \* history: the events queued so far, in order
    queue,          \* the channel's buffer
    worker,         \* per worker, the event it works on
    tried,          \* per event, the addresses it has been posted to
    dropped,        \* the events that found the buffer full
    addresses       \* configured for this phase

queueVars == <<accepted, queue, worker, tried, dropped, addresses>>

InSeq(e, s) == \E i \in 1..Len(s) : s[i] = e
Fresh(e)    == ~InSeq(e, accepted) /\ e \notin dropped

QueueInit ==
    /\ accepted = << >> /\ queue = << >>
    /\ worker = [w \in Workers |-> Idle]
    /\ tried = [e \in Events |-> 0]
    /\ dropped = {} /\ addresses \in Addresses

-----------------------------------------------------------------------------
\* Mutant of Send: one more fits in than the channel holds.
Send_OneTooMany(e) ==
    /\ Fresh(e)
    /\ IF Len(queue) <= Capacity
       THEN queue' = Append(queue, e) /\ accepted' = Append(accepted, e) /\ UNCHANGED dropped
       ELSE dropped' = dropped \cup {e} /\ UNCHANGED <<queue, accepted>>
    /\ UNCHANGED <<worker, tried, addresses>>

\* SendPostAuth, SendAcct: select with a default branch.
Send(e) ==
    /\ Fresh(e)
    /\ IF Len(queue) < Capacity
       THEN queue' = Append(queue, e) /\ accepted' = Append(accepted, e) /\ UNCHANGED dropped
       ELSE dropped' = dropped \cup {e} /\ UNCHANGED <<queue, accepted>>
    /\ UNCHANGED <<worker, tried, addresses>>

\* Mutant of Take: the event stays in the queue until it is sent, for any worker
\* to see.
Take_Peeks(w) ==
    /\ worker[w] = Idle /\ queue # << >>
    /\ worker' = [worker EXCEPT ![w] = IF addresses = 0 THEN Idle ELSE Head(queue)]
    /\ UNCHANGED <<queue, accepted, tried, dropped, addresses>>

\* for ev := range queue.  With no address to send to the event is done with.
Take(w) ==
    /\ worker[w] = Idle /\ queue # << >>
    /\ worker' = [worker EXCEPT ![w] = IF addresses = 0 THEN Idle ELSE Head(queue)]
    /\ queue' = Tail(queue)
    /\ UNCHANGED <<accepted, tried, dropped, addresses>>

\* Mutant of Post: a failed post ends the loop over the addresses.
Post_StopsAtError(w) ==
    LET e == worker[w] IN
    /\ e # Idle
    /\ tried' = [tried EXCEPT ![e] = @ + 1]
    /\ \E failed \in BOOLEAN :
          worker' = [worker EXCEPT ![w] = IF failed \/ tried[e] + 1 = addresses THEN Idle ELSE e]
    /\ UNCHANGED <<accepted, queue, dropped, addresses>>

\* sendAll: one address after the other; a failed post is logged, not repeated.
Post(w) ==
    LET e == worker[w] IN
    /\ e # Idle
    /\ tried' = [tried EXCEPT ![e] = @ + 1]
    /\ worker' = [worker EXCEPT ![w] = IF tried[e] + 1 = addresses THEN Idle ELSE e]
    /\ UNCHANGED <<accepted, queue, dropped, addresses>>

QueueNext ==
    \/ \E e \in Events : Send(e)
    \/ \E w \in Workers : Take(w) \/ Post(w)

QueueSpec == QueueInit /\ [][QueueNext]_queueVars

\* A post is bounded by api.timeout, a script call by script.timeout, so a
\* worker that can go on does.
QueueFairness == \A w \in Workers : WF_queueVars(Take(w) \/ Post(w))

-----------------------------------------------------------------------------
QueueTypeOK ==
    /\ accepted \in Seq(Events) /\ queue \in Seq(Events)
    /\ Len(queue) <= Capacity
    /\ worker \in [Workers -> Events \cup {Idle}]
    /\ addresses \in Addresses /\ tried \in [Events -> 0..addresses]
    /\ dropped \subseteq Events

\* The queue is an implementation of EventDelivery: what left the buffer has
\* been taken up.
Taken    == Len(accepted) - Len(queue)
Delivery == INSTANCE EventDelivery WITH started <- Taken
ImplementsDelivery == Delivery!DeliverySpec

\* No event is worked on by two goroutines, before it left the queue or after
\* it was sent everywhere (api.go:97-101, 244-251).
WorkIsExclusive ==
    \A v \in Workers : worker[v] # Idle =>
        /\ \A w \in Workers : worker[w] = worker[v] => v = w
        /\ ~InSeq(worker[v], queue)
        /\ InSeq(worker[v], accepted)
        /\ tried[worker[v]] < addresses

\* What waits is the end of what was accepted, in order, and nothing is posted
\* before a goroutine has taken it off (api.go:97, 104-109).
WaitingUntouched ==
    /\ \A i, j \in 1..Len(accepted) : accepted[i] = accepted[j] => i = j
    /\ Len(queue) <= Len(accepted)
    /\ \A i \in 1..Len(queue) : queue[i] = accepted[Taken + i]
    /\ \A e \in Events : tried[e] # 0 => \E i \in 1..Taken : accepted[i] = e

\* The queue keeps to its capacity and its order, and each event to one goroutine.
QueueInv == QueueTypeOK /\ WorkIsExclusive /\ WaitingUntouched
=============================================================================
