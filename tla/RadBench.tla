------------------------------ MODULE RadBench ------------------------------
(***************************************************************************)
(* tools/radbench: requests leave on schedule over a few sockets, each     *)
(* with a slot per RADIUS identifier; a slot is freed by the answer, by    *)
(* its timer or by a failed write, in three kinds of goroutines, and each  *)
(* sent request goes into one of the counters printed at the end.          *)
(***************************************************************************)
EXTENDS Naturals, FiniteSets

CONSTANTS
    Requests,       \* requests the schedule asks for, 1..n in their order
    NConns, NIds,   \* sockets, identifiers per socket (256)
    Copies,         \* bound: answers to one request, repeated by the network
    None

ASSUME SizesAssumption == NConns \in Nat \ {0} /\ NIds \in Nat \ {0} /\ Copies \in Nat
ASSUME RequestsAssumption == IsFiniteSet(Requests) /\ Requests = 1..Cardinality(Requests)
ASSUME NoneAssumption == None \notin Requests

Conns == 0..(NConns - 1)
Ids   == 0..(NIds - 1)

VARIABLES
    pending,        \* per socket and identifier, the request in the slot
    nextID, next,   \* where freeID goes on, where the main loop goes on
    main,           \* [pc, req, tries]
    slot,           \* per request: its socket and identifier
    timer,          \* per request: "off", "armed", "fired", "stopped" or "ended"
    answers,        \* per request: answers on their way
    served,         \* history: requests the server answered
    forged,         \* per slot: answers under its identifier made with another secret
    reader,         \* per socket: the request whose answer is about to be counted
    expired,        \* requests whose timeout is about to be counted
    counted         \* per request, the counters it went into

benchVars == <<pending, nextID, next, main, slot, timer, answers, served, forged, reader, expired, counted>>

BenchInit ==
    /\ pending = [c \in Conns |-> [i \in Ids |-> None]]
    /\ nextID = [c \in Conns |-> 0] /\ next = 0
    /\ main = [pc |-> "loop", req |-> 1, tries |-> 0]
    /\ slot = [r \in Requests |-> <<0, 0>>]
    /\ timer = [r \in Requests |-> "off"]
    /\ answers = [r \in Requests |-> 0]
    /\ served = {}
    /\ forged = [c \in Conns |-> [i \in Ids |-> 1]]
    /\ reader = [c \in Conns |-> None]
    /\ expired = {}
    /\ counted = [r \in Requests |-> {}]

-----------------------------------------------------------------------------
Count(r, what) == counted' = [counted EXCEPT ![r] = @ \cup {what}]
Free(c) == {i \in Ids : pending[c][i] = None}
InSlot(r) == pending[slot[r][1]][slot[r][2]] = r
Clear(r) == pending' = [pending EXCEPT ![slot[r][1]][slot[r][2]] = None]

\* freeID: the first free identifier from nextID on.
Distance(c, i) == (i + NIds - nextID[c]) % NIds
FreeID(c) == CHOOSE i \in Free(c) : \A j \in Free(c) : Distance(c, i) <= Distance(c, j)

\* Mutant of After: nextID as an int runs past the last slot.
After_NoWrap(id) == id + 1

\* nextID is a byte.
After(id) == (id + 1) % NIds

GoOn(r) == [pc |-> "loop", req |-> r + 1, tries |-> 0]

\* send, to the unlock: the slot is taken and its timer runs.
Send ==
    LET c == next  r == main.req IN
    /\ main.pc = "loop" /\ r \in Requests /\ main.tries < NConns
    /\ next' = (next + 1) % NConns
    /\ IF Free(c) # {}
       THEN LET id == FreeID(c) IN
            /\ pending' = [pending EXCEPT ![c][id] = r]
            /\ nextID' = [nextID EXCEPT ![c] = After(id)]
            /\ slot' = [slot EXCEPT ![r] = <<c, id>>]
            /\ timer' = [timer EXCEPT ![r] = "armed"]
            /\ main' = [main EXCEPT !.pc = "write"]
       ELSE /\ main' = [main EXCEPT !.tries = @ + 1]
            /\ UNCHANGED <<pending, nextID, slot, timer>>
    /\ UNCHANGED <<answers, served, forged, reader, expired, counted>>

NoFreeID ==
    /\ main.pc = "loop" /\ main.req \in Requests /\ main.tries = NConns
    /\ Count(main.req, "noFreeID")
    /\ main' = GoOn(main.req)
    /\ UNCHANGED <<pending, nextID, next, slot, timer, answers, served, forged, reader, expired>>

Write ==
    /\ main.pc = "write"
    /\ \E n \in 0..Copies :
          /\ answers' = [answers EXCEPT ![main.req] = n]
          /\ served' = IF n > 0 THEN served \cup {main.req} ELSE served
    /\ main' = GoOn(main.req)
    /\ UNCHANGED <<pending, nextID, next, slot, timer, forged, reader, expired, counted>>

\* Mutant of WriteFails: the timer is stopped and the slot forgotten.
WriteFails_KeepsSlot ==
    LET r == main.req IN
    /\ main.pc = "write"
    /\ timer' = [timer EXCEPT ![r] = IF InSlot(r) /\ @ = "armed" THEN "stopped" ELSE @]
    /\ Count(r, "sendErr")
    /\ main' = GoOn(r)
    /\ UNCHANGED <<pending, nextID, next, slot, answers, served, forged, reader, expired>>

WriteFails ==
    LET r == main.req IN
    /\ main.pc = "write"
    /\ IF InSlot(r)
       THEN Clear(r) /\ timer' = [timer EXCEPT ![r] = IF @ = "armed" THEN "stopped" ELSE @]
       ELSE UNCHANGED <<pending, timer>>
    /\ Count(r, "sendErr")
    /\ main' = GoOn(r)
    /\ UNCHANGED <<nextID, next, slot, answers, served, forged, reader, expired>>

-----------------------------------------------------------------------------
\* The timer starts expire in a goroutine; from now on Stop comes too late.
Fire(r) ==
    /\ timer[r] = "armed"
    /\ timer' = [timer EXCEPT ![r] = "fired"]
    /\ UNCHANGED <<pending, nextID, next, main, slot, answers, served, forged, reader, expired, counted>>

\* Mutant of Expire: whoever is in the slot is timed out.
Expire_AnySlot(r) ==
    LET c == slot[r][1]  i == slot[r][2] IN
    /\ timer[r] = "fired"
    /\ timer' = [timer EXCEPT ![r] = "ended"]
    /\ pending' = [pending EXCEPT ![c][i] = None]
    /\ expired' = IF pending[c][i] = None THEN expired ELSE expired \cup {r}
    /\ UNCHANGED <<nextID, next, main, slot, answers, served, forged, reader, counted>>

\* expire, under mu ...
Expire(r) ==
    /\ timer[r] = "fired"
    /\ timer' = [timer EXCEPT ![r] = "ended"]
    /\ IF InSlot(r) THEN Clear(r) /\ expired' = expired \cup {r} ELSE UNCHANGED <<pending, expired>>
    /\ UNCHANGED <<nextID, next, main, slot, answers, served, forged, reader, counted>>

\* ... and after it.
CountTimeout(r) ==
    /\ r \in expired
    /\ expired' = expired \ {r}
    /\ Count(r, "timeout")
    /\ UNCHANGED <<pending, nextID, next, main, slot, timer, answers, served, forged, reader>>

Reads(c) == reader[c] = None

\* Mutant of ReadAnswer: the authenticator is not verified.
ReadAnswer_Unverified(r) ==
    LET c == slot[r][1]  f == pending[c][slot[r][2]] IN
    /\ answers[r] > 0 /\ Reads(c)
    /\ answers' = [answers EXCEPT ![r] = @ - 1]
    /\ IF f # None
       THEN /\ pending' = [pending EXCEPT ![c][slot[r][2]] = None]
            /\ timer' = [timer EXCEPT ![f] = IF @ = "armed" THEN "stopped" ELSE @]
            /\ reader' = [reader EXCEPT ![c] = f]
       ELSE UNCHANGED <<pending, timer, reader>>
    /\ UNCHANGED <<nextID, next, main, slot, served, forged, expired, counted>>

\* readLoop, under mu.  The answer to an earlier request of this identifier
\* finds the slot empty, or fails the test of its authenticator.
ReadAnswer(r) ==
    LET c == slot[r][1] IN
    /\ answers[r] > 0 /\ Reads(c)
    /\ answers' = [answers EXCEPT ![r] = @ - 1]
    /\ IF InSlot(r)
       THEN /\ Clear(r)
            /\ timer' = [timer EXCEPT ![r] = IF @ = "armed" THEN "stopped" ELSE @]
            /\ reader' = [reader EXCEPT ![c] = r]
       ELSE UNCHANGED <<pending, timer, reader>>
    /\ UNCHANGED <<nextID, next, main, slot, served, forged, expired, counted>>

\* badResp, or nothing at all for an empty slot.
ReadForged(c, i) ==
    /\ forged[c][i] > 0 /\ Reads(c)
    /\ forged' = [forged EXCEPT ![c][i] = @ - 1]
    /\ UNCHANGED <<pending, nextID, next, main, slot, timer, answers, served, reader, expired, counted>>

\* stats.answer, after the unlock.
CountAnswer(c) ==
    /\ reader[c] # None
    /\ Count(reader[c], "answer")
    /\ reader' = [reader EXCEPT ![c] = None]
    /\ UNCHANGED <<pending, nextID, next, main, slot, timer, answers, served, forged, expired>>

-----------------------------------------------------------------------------
\* A signal or the end of -duration: main waits for the slots to empty.
EndLoop ==
    /\ main.pc = "loop" /\ main.tries = 0
    /\ main' = [main EXCEPT !.pc = "wait"]
    /\ UNCHANGED <<pending, nextID, next, slot, timer, answers, served, forged, reader, expired, counted>>

\* It gives up after a timeout of its own, by when the timers have run out;
\* expire itself may still be waiting to run.
PrintStats ==
    /\ main.pc = "wait"
    /\ \A r \in Requests : timer[r] # "armed"
    /\ main' = [main EXCEPT !.pc = "printed"]
    /\ UNCHANGED <<pending, nextID, next, slot, timer, answers, served, forged, reader, expired, counted>>

Ended == main.pc = "printed"

BenchNext ==
    /\ ~Ended
    /\ \/ Send \/ NoFreeID \/ Write \/ WriteFails \/ EndLoop \/ PrintStats
       \/ \E r \in Requests : Fire(r) \/ Expire(r) \/ CountTimeout(r) \/ ReadAnswer(r)
       \/ \E c \in Conns : CountAnswer(c) \/ \E i \in Ids : ReadForged(c, i)

BenchSpec == BenchInit /\ [][BenchNext]_benchVars

\* Timers fire and goroutines run on.  No server has to answer, and nobody has
\* to end the run.
BenchFairness == \A r \in Requests : WF_benchVars(~Ended /\ Fire(r)) /\ WF_benchVars(~Ended /\ Expire(r))

-----------------------------------------------------------------------------
BenchTypeOK ==
    /\ pending \in [Conns -> [Ids -> Requests \cup {None}]]
    /\ nextID \in [Conns -> Ids] /\ next \in Conns
    /\ main \in [pc : {"loop", "write", "wait", "printed"},
                 req : 1..(Cardinality(Requests) + 1), tries : 0..NConns]
    /\ slot \in [Requests -> Conns \X Ids]
    /\ timer \in [Requests -> {"off", "armed", "fired", "stopped", "ended"}]
    /\ answers \in [Requests -> 0..Copies] /\ served \subseteq Requests
    /\ forged \in [Conns -> [Ids -> 0..1]]
    /\ reader \in [Conns -> Requests \cup {None}] /\ expired \subseteq Requests
    /\ counted \in [Requests -> SUBSET {"answer", "timeout", "sendErr", "noFreeID"}]

Sent(r) == timer[r] # "off"

\* Where a sent request is: in its slot, with a goroutine that is about to
\* count it, or counted.
Places(r) ==
    (IF InSlot(r) THEN {"slot"} ELSE {})
    \cup (IF \E c \in Conns : reader[c] = r THEN {"reader"} ELSE {})
    \cup (IF r \in expired THEN {"expire"} ELSE {})
    \cup (counted[r] \ {"sendErr"})

\* Every request that was sent is in one place: answered, timed out or not yet
\* either, never both and never lost, whatever order its answer, its timer, a
\* failed write and the next request of its identifier come in
\* (main.go:93-105, 123-131, 153-172).  A failed write is a count besides: it
\* takes the request out of its slot, or adds to the timeout of one whose timer
\* was faster.
EachRequestOnce ==
    \A r \in Requests : Sent(r) =>
        \/ Cardinality(Places(r)) = 1
        \/ Places(r) = {} /\ "sendErr" \in counted[r]

\* An answer is credited to the request it was made for: not to the next user
\* of the identifier when it comes late (main.go:152-168).
AnswersAreOwn ==
    \A r \in Requests : (r \in {reader[c] : c \in Conns} \/ "answer" \in counted[r]) => r \in served

\* What main has not come to is untouched; what it writes, it has put in a slot.
ScheduleInOrder ==
    /\ main.pc = "write" => main.req \in Requests /\ Sent(main.req)
    /\ \A r \in Requests :
          r > main.req \/ (r = main.req /\ main.pc # "write") => ~Sent(r) /\ counted[r] = {}

\* No goroutine deals with a request before it is sent; its answers are those
\* of the server, and read from the socket it left by.
GoroutinesOfSent ==
    /\ \A r \in Requests : ~Sent(r) => answers[r] = 0 /\ r \notin expired
    /\ \A r \in Requests : answers[r] > 0 => r \in served
    /\ \A c \in Conns : reader[c] # None => Sent(reader[c]) /\ slot[reader[c]][1] = c

\* The printed counters are about the requests that were sent: none has both an
\* answer and a timeout, and none is lost.
BenchInv == BenchTypeOK /\ ScheduleInOrder /\ GoroutinesOfSent /\ EachRequestOnce /\ AnswersAreOwn

\* No identifier is used up for good: a slot is freed whether its answer comes,
\* its write fails or neither (main.go:94, 99-105, 123-130, 166).
IdentifiersReturn == \A r \in Requests : (Sent(r) /\ InSlot(r)) ~> (~InSlot(r) \/ Ended)
=============================================================================
