---------------------------- MODULE RadiusClient ----------------------------
(***************************************************************************)
(* Client.Exchange of the vendored library (client.go), as load_testing    *)
(* and pcapreplay call it with a deadline: the caller reads, a goroutine   *)
(* sends the request again every Retry and turns the end of the context    *)
(* into the end of a blocked read by closing the connection.               *)
(***************************************************************************)
EXTENDS Naturals

CONSTANT MaxPacketErrors    \* the bad datagrams after which Exchange gives up
ASSUME PacketErrorsAssumption == MaxPacketErrors \in Nat \ {0}

VARIABLES
    exchange,       \* the caller: "dial", "read", "readFailed", "returned"
    resender,       \* the goroutine: "none", "select", "resend", "close", "ended"
    context,        \* "live", "expired" (the caller's), "cancelled" (on return)
    tick,           \* the ticker's channel holds a tick
    conn,           \* "open", "refused" (an ICMP error is pending), "closed"
    packetErrors,
    outcome,        \* what Exchange returns
    closedUnder     \* history: the goroutine closed the connection first

clientVars == <<exchange, resender, context, tick, conn, packetErrors, outcome, closedUnder>>

ClientInit ==
    /\ exchange = "dial" /\ resender = "none" /\ context = "live"
    /\ tick = FALSE /\ conn = "open" /\ packetErrors = 0
    /\ outcome = "none" /\ closedUnder = FALSE

-----------------------------------------------------------------------------
\* The caller's timeout or its signal.
Deadline ==
    /\ context = "live"
    /\ context' = "expired"
    /\ UNCHANGED <<exchange, resender, tick, conn, packetErrors, outcome, closedUnder>>

Tick ==
    /\ ~tick /\ resender # "none"
    /\ tick' = TRUE
    /\ UNCHANGED <<exchange, resender, context, conn, packetErrors, outcome, closedUnder>>

\* Nobody listens at the server's address.
Refuse ==
    /\ exchange = "read" /\ conn = "open"
    /\ conn' = "refused"
    /\ UNCHANGED <<exchange, resender, context, tick, packetErrors, outcome, closedUnder>>

-----------------------------------------------------------------------------
ContextEnded == context # "live"

\* The deferred calls cancel the context and close the connection.
Return(what) ==
    /\ outcome' = what
    /\ exchange' = "returned"
    /\ context' = IF ContextEnded THEN context ELSE "cancelled"
    /\ conn' = "closed"

DialFails ==
    /\ exchange = "dial"
    /\ Return(IF ContextEnded THEN "context" ELSE "network")
    /\ UNCHANGED <<resender, tick, packetErrors, closedUnder>>

\* The first copy is written, its error ignored, and the goroutine started.
Dial ==
    /\ exchange = "dial"
    /\ exchange' = "read" /\ resender' = "select"
    /\ UNCHANGED <<context, tick, conn, packetErrors, outcome, closedUnder>>

Receive ==
    /\ exchange = "read" /\ conn = "open"
    /\ Return("answer")
    /\ UNCHANGED <<resender, tick, packetErrors, closedUnder>>

\* Mutant of ReceiveBad: gives up after one datagram too many.
ReceiveBad_OneMore ==
    /\ exchange = "read" /\ conn = "open"
    /\ packetErrors' = packetErrors + 1
    /\ IF packetErrors' > MaxPacketErrors
       THEN Return("badPackets")
       ELSE UNCHANGED <<exchange, context, conn, outcome>>
    /\ UNCHANGED <<resender, tick, closedUnder>>

\* A datagram that does not parse, or is not authentic, is skipped.
ReceiveBad ==
    /\ exchange = "read" /\ conn = "open"
    /\ packetErrors' = packetErrors + 1
    /\ IF packetErrors' >= MaxPacketErrors
       THEN Return("badPackets")
       ELSE UNCHANGED <<exchange, context, conn, outcome>>
    /\ UNCHANGED <<resender, tick, closedUnder>>

ReadFails ==
    /\ exchange = "read" /\ conn # "open"
    /\ exchange' = "readFailed"
    /\ UNCHANGED <<resender, context, tick, conn, packetErrors, outcome, closedUnder>>

\* select: was it the context?
Explain ==
    /\ exchange = "readFailed"
    /\ Return(IF ContextEnded THEN "context" ELSE "network")
    /\ UNCHANGED <<resender, tick, packetErrors, closedUnder>>

-----------------------------------------------------------------------------
\* select picks at random when the ticker and the context are both ready.
PickTick ==
    /\ resender = "select" /\ tick
    /\ tick' = FALSE /\ resender' = "resend"
    /\ UNCHANGED <<exchange, context, conn, packetErrors, outcome, closedUnder>>

PickDone ==
    /\ resender = "select" /\ ContextEnded
    /\ resender' = "close"
    /\ UNCHANGED <<exchange, context, tick, conn, packetErrors, outcome, closedUnder>>

\* Mutant of Resend: a failed write ends the goroutine.
Resend_EndsOnError ==
    /\ resender = "resend"
    /\ resender' \in {"select", "close"}
    /\ UNCHANGED <<exchange, context, tick, conn, packetErrors, outcome, closedUnder>>

\* The result of the write is ignored.
Resend ==
    /\ resender = "resend"
    /\ resender' = "select"
    /\ UNCHANGED <<exchange, context, tick, conn, packetErrors, outcome, closedUnder>>

\* Mutant of Close: the connection is left to the caller.
Close_LeftToCaller ==
    /\ resender = "close"
    /\ resender' = "ended"
    /\ UNCHANGED <<exchange, context, tick, conn, packetErrors, outcome, closedUnder>>

Close ==
    /\ resender = "close"
    /\ resender' = "ended"
    /\ conn' = "closed"
    /\ closedUnder' = (exchange # "returned")
    /\ UNCHANGED <<exchange, context, tick, packetErrors, outcome>>

-----------------------------------------------------------------------------
Reader   == Explain \/ ReadFails
Resender == Resend \/ Close

ClientNext ==
    \/ Deadline \/ Tick \/ Refuse
    \/ DialFails \/ Dial \/ Receive \/ ReceiveBad \/ Reader
    \/ PickTick \/ PickDone \/ Resender

ClientSpec == ClientInit /\ [][ClientNext]_clientVars

\* Goroutines that can go on do; the deadline comes; and select, which picks at
\* random, does not pick the ticker for ever.
ClientFairness ==
    /\ WF_clientVars(Deadline) /\ WF_clientVars(Reader) /\ WF_clientVars(Resender)
    /\ SF_clientVars(PickDone)

-----------------------------------------------------------------------------
ClientTypeOK ==
    /\ exchange \in {"dial", "read", "readFailed", "returned"}
    /\ resender \in {"none", "select", "resend", "close", "ended"}
    /\ context \in {"live", "expired", "cancelled"}
    /\ conn \in {"open", "refused", "closed"}
    /\ tick \in BOOLEAN /\ closedUnder \in BOOLEAN
    /\ packetErrors \in 0..MaxPacketErrors
    /\ outcome \in {"none", "answer", "badPackets", "context", "network"}

\* The end of the context is reported as such, never as the read error that the
\* closed connection gives: callers tell a timeout or the end of the test from
\* a network failure by it (client.go:95-103; load_testing/main.go:246-257).
DeadlineToldAsSuch == closedUnder => outcome # "network"

\* A connection that is closed under a blocked read was closed because the
\* context had ended, which only the caller's own deadline does before the
\* return (client.go:74-92).
ClosedOnlyAtTheEnd ==
    /\ exchange = "dial" => resender = "none"
    /\ resender \in {"close", "ended"} => ContextEnded
    /\ closedUnder => resender = "ended"
    /\ conn = "closed" => exchange = "returned" \/ closedUnder
    /\ context = "cancelled" => exchange = "returned"

\* Exchange returns once, "context" only at the caller's deadline, and for bad
\* datagrams at the limit and neither before nor after it (client.go:105-120).
ReturnsForItsReason ==
    /\ exchange = "returned" <=> outcome # "none"
    /\ outcome = "context" => context = "expired"
    /\ outcome = "badPackets" <=> packetErrors = MaxPacketErrors

\* An exchange gives up when it should and says why.
ClientInv == ClientTypeOK /\ DeadlineToldAsSuch /\ ClosedOnlyAtTheEnd /\ ReturnsForItsReason

\* An exchange whose server is silent returns once its deadline has passed,
\* also when the ticker competes with the context (client.go:79-92).
ExchangeReturns == exchange = "read" ~> exchange = "returned"
=============================================================================
