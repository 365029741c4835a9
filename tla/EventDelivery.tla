--------------------------- MODULE EventDelivery ---------------------------
(***************************************************************************)
(* What SendPostAuth and SendAcct promise of an accounting or post-auth    *)
(* event, whichever processor is configured: it is refused at once when    *)
(* Capacity events already wait, else it is taken up in the order it was   *)
(* sent and tried at every address once.                                   *)
(***************************************************************************)
EXTENDS Naturals, Sequences

CONSTANTS
    Events,         \* events the handler may send, each at most once
    Capacity        \* events that may wait

VARIABLES
    accepted,       \* the events taken in, in the order they were sent
    started,        \* how many of them have been taken up
    tried,          \* per event, the addresses it has been tried at
    dropped,        \* the events refused
    addresses       \* how many an event goes to; one for a script

deliveryVars == <<accepted, started, tried, dropped, addresses>>

InSeq(e, s) == \E i \in 1..Len(s) : s[i] = e

DeliveryInit ==
    /\ accepted = << >> /\ started = 0
    /\ tried = [e \in Events |-> 0]
    /\ dropped = {} /\ addresses \in Nat

Fresh(e) == ~InSeq(e, accepted) /\ e \notin dropped

Accept(e) ==
    /\ Fresh(e) /\ Len(accepted) - started < Capacity
    /\ accepted' = Append(accepted, e)
    /\ UNCHANGED <<started, tried, dropped, addresses>>

Drop(e) ==
    /\ Fresh(e) /\ Len(accepted) - started = Capacity
    /\ dropped' = dropped \cup {e}
    /\ UNCHANGED <<accepted, started, tried, addresses>>

Start ==
    /\ started < Len(accepted)
    /\ started' = started + 1
    /\ UNCHANGED <<accepted, tried, dropped, addresses>>

Try(i) ==
    /\ i <= started /\ tried[accepted[i]] < addresses
    /\ tried' = [tried EXCEPT ![accepted[i]] = @ + 1]
    /\ UNCHANGED <<accepted, started, dropped, addresses>>

DeliveryNext ==
    \/ \E e \in Events : Accept(e) \/ Drop(e)
    \/ Start
    \/ \E i \in 1..Len(accepted) : Try(i)

DeliverySafety == DeliveryInit /\ [][DeliveryNext]_deliveryVars

\* Every event taken in reaches every address.
DeliveredEverywhere ==
    \A e \in Events : InSeq(e, accepted) ~> (tried[e] = addresses)

DeliverySpec == DeliverySafety /\ DeliveredEverywhere
=============================================================================
