---------------------------- MODULE PacketServer ----------------------------
(***************************************************************************)
(* The vendored UDP server (third_party/layeh-radius/server-packet.go) as  *)
(* radius.ListenAndServe runs it: one Serve, its reader goroutines, one    *)
(* goroutine per datagram, duplicate suppression, and a Shutdown that may  *)
(* come at any moment.  What a handler does is left to RadiusExchange.     *)
(***************************************************************************)
EXTENDS Integers, FiniteSets

CONSTANTS
    Datagrams,      \* datagrams that may arrive, each once
    Keys,           \* requestKey: remote address and identifier
    KeyOf,          \* [Datagrams -> Keys]
    Authentic,      \* the datagrams that pass IsAuthenticRequest and Parse
    Readers,        \* readLoop goroutines; a single one is Serve itself
    NoErr           \* no reader has failed yet

Errors == {"ErrServerShutdown", "fatal"}

ASSUME DatagramsAssumption == Datagrams \cap {"off", "reading", "failed", "done"} = {}
ASSUME NoErrAssumption == NoErr \notin Errors
ASSUME KeyOfAssumption == KeyOf \in [Datagrams -> Keys]
ASSUME AuthenticAssumption == Authentic \subseteq Datagrams
ASSUME ReadersAssumption == IsFiniteSet(Readers) /\ Readers # {}

VARIABLES
    conn,               \* is the socket open?
    listening,          \* listeners[conn] > 0
    shutdownRequested,
    activeCount,
    lastActive,         \* is the channel closed?
    panicked,           \* the channel was closed twice: the process is gone
    serve,              \* Serve's program counter, and ListenAndServe's after it
    reader,             \* per reader: its program counter, or the datagram it holds
    firstErr,           \* what the first reader to fail put into errs
    shutdown,           \* Shutdown's program counter
    datagram,           \* where each datagram is
    requests            \* the keys being handled

vars == <<conn, listening, shutdownRequested, activeCount, lastActive, panicked,
          serve, reader, firstErr, shutdown, datagram, requests>>

lifecycle == <<conn, listening, shutdownRequested, serve, shutdown>>
traffic   == <<datagram, requests>>

ManyReaders == Cardinality(Readers) > 1

TypeOK ==
    /\ {conn, listening, shutdownRequested, lastActive, panicked} \subseteq BOOLEAN
    /\ activeCount \in Int
    /\ serve \in {"start", "registered", "counted", "failed", "unregistered", "left", "returned"}
    /\ reader \in [Readers -> {"off", "reading", "failed", "done"} \cup Datagrams]
    /\ firstErr \in Errors \cup {NoErr}
    /\ shutdown \in {"notCalled", "locked", "waiting", "nil", "ctxErr"}
    /\ datagram \in [Datagrams -> {"unsent", "queued", "read", "goroutine", "handling",
                                   "handled", "ending", "done"}]
    /\ requests \subseteq Keys

Init ==
    /\ conn = TRUE /\ listening = FALSE /\ shutdownRequested = FALSE
    /\ activeCount = 0 /\ lastActive = FALSE /\ panicked = FALSE
    /\ serve = "start" /\ shutdown = "notCalled" /\ firstErr = NoErr
    /\ reader = [r \in Readers |-> "off"]
    /\ datagram = [d \in Datagrams |-> "unsent"]
    /\ requests = {}

-----------------------------------------------------------------------------
activeAdd == activeCount' = activeCount + 1 /\ UNCHANGED <<lastActive, panicked>>

\* Mutant of activeDone: the channel is closed one too early.
activeDone_AtZero ==
    /\ activeCount' = activeCount - 1
    /\ lastActive' = (lastActive \/ activeCount = 1)
    /\ panicked' = (lastActive /\ activeCount = 1)

\* The step to -1 closes lastActive; closing it again panics.
activeDone ==
    /\ activeCount' = activeCount - 1
    /\ lastActive' = (lastActive \/ activeCount = 0)
    /\ panicked' = (lastActive /\ activeCount = 0)

uncounted == UNCHANGED <<activeCount, lastActive, panicked>>

\* Shutdown holds mu from its compare-and-swap to its own activeDone.
muFree == shutdown # "locked"

-----------------------------------------------------------------------------
\* Serve, up to the unlock: the listener is registered, or Shutdown was first.
Register ==
    /\ serve = "start" /\ muFree
    /\ listening' = ~shutdownRequested
    /\ serve' = IF shutdownRequested THEN "left" ELSE "registered"
    /\ firstErr' = IF shutdownRequested THEN "ErrServerShutdown" ELSE firstErr
    /\ uncounted /\ UNCHANGED <<conn, shutdownRequested, reader, shutdown, traffic>>

CountServe ==
    /\ serve = "registered"
    /\ serve' = "counted" /\ activeAdd
    /\ UNCHANGED <<conn, listening, shutdownRequested, reader, firstErr, shutdown, traffic>>

\* One more reader; Serve itself runs the loop when it is the only one.
StartReader(r) ==
    /\ serve = "counted" /\ reader[r] = "off"
    /\ reader' = [reader EXCEPT ![r] = "reading"]
    /\ IF ManyReaders THEN activeAdd ELSE uncounted
    /\ UNCHANGED <<lifecycle, firstErr, traffic>>

\* The first reader's error ends Serve, the others may still run.
ServeFails ==
    /\ serve = "counted" /\ firstErr # NoErr
    /\ \A r \in Readers : reader[r] # "off"
    /\ serve' = "failed"
    /\ uncounted /\ UNCHANGED <<conn, listening, shutdownRequested, reader, firstErr, shutdown, traffic>>

Unregister ==
    /\ serve = "failed" /\ muFree
    /\ serve' = "unregistered" /\ listening' = FALSE
    /\ uncounted /\ UNCHANGED <<conn, shutdownRequested, reader, firstErr, shutdown, traffic>>

UncountServe ==
    /\ serve = "unregistered"
    /\ serve' = "left" /\ activeDone
    /\ UNCHANGED <<conn, listening, shutdownRequested, reader, firstErr, shutdown, traffic>>

\* ListenAndServe's deferred pc.Close.
CloseSocket ==
    /\ serve = "left"
    /\ serve' = "returned" /\ conn' = FALSE
    /\ uncounted /\ UNCHANGED <<listening, shutdownRequested, reader, firstErr, shutdown, traffic>>

-----------------------------------------------------------------------------
\* The kernel queues a datagram.
Arrive(d) ==
    /\ datagram[d] = "unsent" /\ conn
    /\ datagram' = [datagram EXCEPT ![d] = "queued"]
    /\ uncounted /\ UNCHANGED <<lifecycle, reader, firstErr, requests>>

Read(r, d) ==
    /\ reader[r] = "reading" /\ datagram[d] = "queued" /\ conn
    /\ reader' = [reader EXCEPT ![r] = d]
    /\ datagram' = [datagram EXCEPT ![d] = "read"]
    /\ uncounted /\ UNCHANGED <<lifecycle, firstErr, requests>>

\* activeAdd and the go statement.
Dispatch(r) ==
    /\ reader[r] \in Datagrams
    /\ datagram' = [datagram EXCEPT ![reader[r]] = "goroutine"]
    /\ reader' = [reader EXCEPT ![r] = "reading"]
    /\ activeAdd
    /\ UNCHANGED <<lifecycle, firstErr, requests>>

\* ReadFrom fails for good: the socket is closed, or broken.  A temporary
\* error ends the loop only once Shutdown was called.
ReadFails(r) ==
    /\ reader[r] = "reading"
    /\ reader' = [reader EXCEPT ![r] = "failed"]
    /\ firstErr' = IF firstErr # NoErr THEN firstErr
                   ELSE IF shutdownRequested THEN "ErrServerShutdown" ELSE "fatal"
    /\ uncounted /\ UNCHANGED <<lifecycle, traffic>>

\* Mutant of ReaderEnds: a reader that fails does not count itself off.
ReaderEnds_Uncounted(r) ==
    /\ reader[r] = "failed"
    /\ reader' = [reader EXCEPT ![r] = "done"]
    /\ uncounted /\ UNCHANGED <<lifecycle, firstErr, traffic>>

ReaderEnds(r) ==
    /\ reader[r] = "failed"
    /\ reader' = [reader EXCEPT ![r] = "done"]
    /\ IF ManyReaders THEN activeDone ELSE uncounted
    /\ UNCHANGED <<lifecycle, firstErr, traffic>>

-----------------------------------------------------------------------------
\* Mutant of Claim: the delete is deferred before the test, so a duplicate frees
\* the key of the request it duplicates.
Claim_DuplicateReleases(d) ==
    /\ datagram[d] = "goroutine"
    /\ datagram' = [datagram EXCEPT ![d] =
                        IF d \notin Authentic THEN "ending"
                        ELSE IF KeyOf[d] \in requests THEN "handled" ELSE "handling"]
    /\ requests' = IF d \in Authentic THEN requests \cup {KeyOf[d]} ELSE requests
    /\ uncounted /\ UNCHANGED <<lifecycle, reader, firstErr>>

\* Mutant of Claim: a datagram that is discarded is counted off where it is
\* discarded, and by the deferred call again.
Claim_CountsOffTwice(d) ==
    LET accepted == d \in Authentic /\ KeyOf[d] \notin requests IN
    /\ datagram[d] = "goroutine"
    /\ datagram' = [datagram EXCEPT ![d] = IF accepted THEN "handling" ELSE "ending"]
    /\ requests' = IF accepted THEN requests \cup {KeyOf[d]} ELSE requests
    /\ IF accepted THEN uncounted ELSE activeDone
    /\ UNCHANGED <<lifecycle, reader, firstErr>>

\* The goroutine of a datagram: discard it, drop it as a duplicate, or own its key.
Claim(d) ==
    LET accepted == d \in Authentic /\ KeyOf[d] \notin requests IN
    /\ datagram[d] = "goroutine"
    /\ datagram' = [datagram EXCEPT ![d] = IF accepted THEN "handling" ELSE "ending"]
    /\ requests' = IF accepted THEN requests \cup {KeyOf[d]} ELSE requests
    /\ uncounted /\ UNCHANGED <<lifecycle, reader, firstErr>>

\* ServeRADIUS returns.
Handle(d) ==
    /\ datagram[d] = "handling"
    /\ datagram' = [datagram EXCEPT ![d] = "handled"]
    /\ uncounted /\ UNCHANGED <<lifecycle, reader, firstErr, requests>>

\* The deferred functions: first the key is deleted, then the goroutine uncounted.
Release(d) ==
    /\ datagram[d] = "handled"
    /\ datagram' = [datagram EXCEPT ![d] = "ending"]
    /\ requests' = requests \ {KeyOf[d]}
    /\ uncounted /\ UNCHANGED <<lifecycle, reader, firstErr>>

\* Mutant of End: the goroutine of a datagram is not counted off.
End_Uncounted(d) ==
    /\ datagram[d] = "ending"
    /\ datagram' = [datagram EXCEPT ![d] = "done"]
    /\ uncounted /\ UNCHANGED <<lifecycle, reader, firstErr, requests>>

End(d) ==
    /\ datagram[d] = "ending"
    /\ datagram' = [datagram EXCEPT ![d] = "done"]
    /\ activeDone
    /\ UNCHANGED <<lifecycle, reader, firstErr, requests>>

-----------------------------------------------------------------------------
\* Shutdown takes mu and wins the compare-and-swap.
RequestShutdown ==
    /\ shutdown = "notCalled"
    /\ shutdown' = "locked" /\ shutdownRequested' = TRUE
    /\ uncounted /\ UNCHANGED <<conn, listening, serve, reader, firstErr, traffic>>

\* Mutant of StopListeners: Shutdown does not close the registered sockets.
StopListeners_LeavesSocket ==
    /\ shutdown = "locked"
    /\ shutdown' = "waiting" /\ activeDone
    /\ UNCHANGED <<conn, listening, shutdownRequested, serve, reader, firstErr, traffic>>

StopListeners ==
    /\ shutdown = "locked"
    /\ conn' = (conn /\ ~listening)
    /\ shutdown' = "waiting" /\ activeDone
    /\ UNCHANGED <<listening, shutdownRequested, serve, reader, firstErr, traffic>>

ShutdownReturns ==
    /\ shutdown = "waiting" /\ lastActive
    /\ shutdown' = "nil"
    /\ uncounted /\ UNCHANGED <<conn, listening, shutdownRequested, serve, reader, firstErr, traffic>>

ContextExpires ==
    /\ shutdown = "waiting"
    /\ shutdown' = "ctxErr"
    /\ uncounted /\ UNCHANGED <<conn, listening, shutdownRequested, serve, reader, firstErr, traffic>>

-----------------------------------------------------------------------------
ServeStep    == Register \/ CountServe \/ ServeFails \/ Unregister \/ UncountServe \/ CloseSocket
ReaderStep(r) ==
    \/ StartReader(r) \/ Dispatch(r) \/ ReadFails(r) \/ ReaderEnds(r)
    \/ \E d \in Datagrams : Read(r, d)
GoroutineStep(d) == Claim(d) \/ Handle(d) \/ Release(d) \/ End(d)
ShutdownStep == StopListeners \/ ShutdownReturns

Next ==
    /\ ~panicked
    /\ \/ ServeStep \/ ShutdownStep \/ RequestShutdown \/ ContextExpires
       \/ \E r \in Readers : ReaderStep(r)
       \/ \E d \in Datagrams : Arrive(d) \/ GoroutineStep(d)

Spec == Init /\ [][Next]_vars

\* The Go scheduler runs every goroutine that can go on, and handlers return
\* (RadiusExchange).  A read fails only when it has to: the socket is closed.
\* Nobody has to send anything, to call Shutdown or to let its context expire.
Fairness ==
    /\ WF_vars(~panicked /\ ServeStep)
    /\ WF_vars(~panicked /\ ShutdownStep)
    /\ \A r \in Readers :
          /\ WF_vars(~panicked /\ (StartReader(r) \/ Dispatch(r) \/ ReaderEnds(r)))
          /\ WF_vars(~panicked /\ ~conn /\ ReadFails(r))
          /\ WF_vars(~panicked /\ \E d \in Datagrams : Read(r, d))
    /\ \A d \in Datagrams : WF_vars(~panicked /\ GoroutineStep(d))

LiveSpec == Spec /\ Fairness

-----------------------------------------------------------------------------
Owners == {d \in Datagrams : datagram[d] \in {"handling", "handled"}}

\* A key is in requests exactly while one goroutine owns it: copies of a
\* request, and other requests under its identifier, are never handled two at
\* a time, and no finished request blocks its key (server-packet.go:182-203).
OneHandlerPerKey ==
    /\ requests = {KeyOf[d] : d \in Owners}
    /\ \A d, e \in Owners : KeyOf[d] = KeyOf[e] => d = e

\* The goroutines that counted themselves and are not through.
ActiveReaders   == {r \in Readers : reader[r] \notin {"off", "done"}}
ActiveDatagrams == {d \in Datagrams : datagram[d] \in {"goroutine", "handling", "handled", "ending"}}
Counted ==
    (IF serve \in {"counted", "failed", "unregistered"} THEN 1 ELSE 0)
    + (IF ManyReaders THEN Cardinality(ActiveReaders) ELSE 0)
    + Cardinality(ActiveDatagrams)

\* Shutdown has called activeDone.
Stopping == shutdown \in {"waiting", "nil", "ctxErr"}

\* activeCount is their number, less the one Shutdown takes off: it meets -1
\* only when all of them are through, on whatever path they left
\* (server-packet.go:89-97, 130, 138, 164, 166, 226, 227, 283).
CountIsExact == activeCount = Counted - (IF Stopping THEN 1 ELSE 0)

\* A datagram taken from the socket is in the hands of one reader until its
\* goroutine is started (server-packet.go:149-166).
OneReaderHolds ==
    /\ \A r \in Readers : reader[r] \in Datagrams => datagram[reader[r]] = "read"
    /\ \A r, q \in Readers : reader[r] \in Datagrams /\ reader[r] = reader[q] => r = q
    /\ \A d \in Datagrams : datagram[d] = "read" => \E r \in Readers : reader[r] = d

\* Readers begin after Serve has counted itself; Serve gives up only after one
\* of them has failed, and a single reader is Serve itself
\* (server-packet.go:112-130, 218-230).
ReadersOfServe ==
    /\ serve \in {"start", "registered"} => \A r \in Readers : reader[r] = "off"
    /\ serve \in {"start", "registered", "counted"} /\ firstErr # NoErr
           => \E r \in Readers : reader[r] \in {"failed", "done"}
    /\ ~ManyReaders => \A r \in Readers :
           reader[r] \in {"reading"} \cup Datagrams => serve = "counted" /\ firstErr = NoErr

\* Shutdown closes the socket of a Serve that is registered, and keeps one that
\* is not from starting; ListenAndServe closes it when Serve has left
\* (server-packet.go:112-121, 256, 275-283).
SocketFollowsShutdown ==
    /\ serve = "returned" => ~conn
    /\ shutdownRequested <=> shutdown # "notCalled"
    /\ listening <=> serve \in {"registered", "counted", "failed"}
    /\ Stopping /\ conn => serve \in {"start", "unregistered", "left"}

\* Once lastActive is closed nothing is handled or held and nobody can read more,
\* not even readers that Serve starts after it (server-packet.go:89-97).
ClosedIsQuiet ==
    /\ lastActive =>
        /\ Stopping
        /\ \A d \in Datagrams : datagram[d] \in {"unsent", "queued", "done"}
        /\ conn => \A r \in Readers : reader[r] # "reading"
    /\ shutdown = "nil" => lastActive

\* The maps and counters Serve and Shutdown keep are right at every step
\* (server-packet.go:73-87, 89-97, 180-203).
ServerInv ==
    /\ TypeOK
    /\ OneHandlerPerKey
    /\ CountIsExact
    /\ OneReaderHolds
    /\ ReadersOfServe
    /\ SocketFollowsShutdown
    /\ ClosedIsQuiet

\* When Shutdown has returned nil no handler runs and none will: a datagram a
\* reader had already taken from the socket has been waited for
\* (server-packet.go:270 "Shutdown returns after nil all handlers have completed").
NilMeansQuiet ==
    shutdown = "nil" =>
        \A d \in Datagrams : datagram[d] \in {"unsent", "queued", "done"}

\* Shutdown panics or returns when its context does not expire: all handlers,
\* readers and Serve count themselves off (server-packet.go:274-293).
ShutdownEnds ==
    shutdown = "locked" ~> (panicked \/ shutdown \in {"nil", "ctxErr"})

\* After Shutdown, and after a broken socket, Serve and all its readers end
\* (server-packet.go:150-160, 222-230).
ServeEnds ==
    (shutdownRequested \/ firstErr # NoErr)
        ~> (panicked \/ (serve = "returned" /\ \A r \in Readers : reader[r] \in {"off", "done"}))
=============================================================================
