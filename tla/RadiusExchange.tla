--------------------------- MODULE RadiusExchange ---------------------------
(***************************************************************************)
(* radius/handler.go between a retransmitting NAS and a processor: every   *)
(* Access-Request gets a class, an answer or silence, and a post-auth      *)
(* report; an Accounting-Request carries the class of its session back.    *)
(* Datagrams are lost, late and repeated, writes and processors fail, the  *)
(* server dies and starts again with a class counter set from the clock.   *)
(* One handler per key is what PacketServer!OneHandlerPerKey shows.        *)
(***************************************************************************)
EXTENDS Integers, FiniteSets

CONSTANTS
    Access, Accounting,     \* the exchanges a NAS may begin, each once
    SessionOf,              \* [Accounting -> Access]: the session accounted for
    Keys, KeyOf,            \* the address and identifier of an exchange's request
    Outcomes,               \* what the processor may return
    Resends,                \* retransmissions per exchange before anything was lost
    MaxFaults,              \* bound: losses, failed writes, processor errors, restarts
    MaxNow,                 \* bound: seconds of the clock
    None

Exchanges == Access \cup Accounting

ASSUME ExchangesAssumption == Access \cap Accounting = {} /\ IsFiniteSet(Exchanges)
ASSUME SessionOfAssumption == SessionOf \in [Accounting -> Access]
ASSUME KeyOfAssumption     == KeyOf \in [Exchanges -> Keys]
ASSUME BoundsAssumption    == {Resends, MaxFaults, MaxNow} \subseteq Nat

\* events.AuthResponse, or the kind of the error Get returned.
Answers == [kind : {"response"}, ip : {"", "valid", "malformed"}, pool : {"", "valid", "tooLong"}]
Errors  == [kind : {"REJECT", "INVALID", "ERROR"}, ip : {""}, pool : {""}]
ASSUME OutcomesAssumption == Outcomes \subseteq Answers \cup Errors

Classes == Nat

\* serve between its steps.
Handler == [for : Exchanges, class : Classes, result : Answers \cup Errors \cup {None},
            pc : {"processor", "respond", "report", "sendAcct", "acctWrite", "return"}]
ASSUME NoneAssumption == None \notin Classes \cup Handler

VARIABLES
    nas,            \* per exchange: [pc, class], class: of the accept it took, or it reports
    copies,         \* requests in flight
    resends,        \* retransmissions nothing lost gave reason for
    handler,        \* per key: the handler that owns it, or None
    classID, now,   \* the class counter, the clock
    faults,
    sent,           \* history: the answers written; any of them may arrive late or twice
    lostAnswers,
    postAuth,       \* history: SendPostAuth
    acct,           \* history: SendAcct
    issued,         \* history: the classes handed out
    reissued,       \* history: one of them was handed out twice
    overrun,        \* history: a restart set the counter back
    interrupted     \* history: classes of handlers a restart cut off

network == <<copies, lostAnswers>>
reports == <<postAuth, acct>>
classes == <<classID, issued, reissued>>
crashes == <<overrun, interrupted>>
vars == <<nas, network, resends, handler, classes, now, faults, sent, reports, crashes>>

Init ==
    /\ nas = [e \in Exchanges |-> [pc |-> "new", class |-> None]]
    /\ copies = [e \in Exchanges |-> 0] /\ resends = [e \in Exchanges |-> 0]
    /\ handler = [k \in Keys |-> None]
    /\ classID = 0 /\ now = 0 /\ faults = 0
    /\ sent = {} /\ lostAnswers = {} /\ postAuth = {} /\ acct = {}
    /\ issued = {} /\ reissued = FALSE /\ overrun = FALSE /\ interrupted = {}

Fault == faults < MaxFaults /\ faults' = faults + 1

-----------------------------------------------------------------------------
\* The NAS and the network: how a RADIUS client behaves (RFC 2865 2.5).

Waiting(e)  == nas[e].pc = "waiting"
InFlight(e) == {a \in sent \ lostAnswers : a.to = e}
Handled(e)  == \E k \in Keys : handler[k] # None /\ handler[k].for = e

\* An identifier is used again when its exchange is over for the NAS.
Begin(e) ==
    /\ nas[e].pc = "new"
    /\ \A f \in Exchanges : Waiting(f) => KeyOf[f] # KeyOf[e]
    /\ e \in Accounting => nas[SessionOf[e]].pc = "accepted"
    /\ nas' = [nas EXCEPT ![e] = [pc |-> "waiting",
                                  class |-> IF e \in Access THEN None ELSE nas[SessionOf[e]].class]]
    /\ copies' = [copies EXCEPT ![e] = 1]
    /\ UNCHANGED <<lostAnswers, resends, handler, classes, now, faults, sent, reports, crashes>>

\* A timeout, before anything was lost or after.
Resend(e) ==
    /\ Waiting(e)
    /\ \/ copies[e] = 0 /\ ~Handled(e) /\ InFlight(e) = {} /\ UNCHANGED resends
       \/ resends[e] < Resends /\ resends' = [resends EXCEPT ![e] = @ + 1]
    /\ copies' = [copies EXCEPT ![e] = @ + 1]
    /\ UNCHANGED <<nas, lostAnswers, handler, classes, now, faults, sent, reports, crashes>>

GiveUp(e) ==
    /\ Waiting(e)
    /\ nas' = [nas EXCEPT ![e].pc = "gaveUp"]
    /\ UNCHANGED <<network, resends, handler, classes, now, faults, sent, reports, crashes>>

\* The response authenticator ties an answer to its request.
ReceiveAnswer(a) ==
    /\ a \in sent \ lostAnswers /\ Waiting(a.to)
    /\ nas' = [nas EXCEPT ![a.to] =
                 CASE a.code = "Accept"  -> [pc |-> "accepted", class |-> a.class]
                   [] a.code = "Reject"  -> [pc |-> "rejected", class |-> None]
                   [] OTHER              -> [@ EXCEPT !.pc = "accounted"]]
    /\ UNCHANGED <<network, resends, handler, classes, now, faults, sent, reports, crashes>>

LoseRequest(e) ==
    /\ copies[e] > 0 /\ Fault
    /\ copies' = [copies EXCEPT ![e] = @ - 1]
    /\ UNCHANGED <<nas, lostAnswers, resends, handler, classes, now, sent, reports, crashes>>

LoseAnswer(a) ==
    /\ a \in sent \ lostAnswers /\ Fault
    /\ lostAnswers' = lostAnswers \cup {a}
    /\ UNCHANGED <<nas, copies, resends, handler, classes, now, sent, reports, crashes>>

-----------------------------------------------------------------------------
\* The server.

Set(k, h) == handler' = [handler EXCEPT ![k] = h]

\* classID.Add(1)
NewClass ==
    /\ classID' = classID + 1
    /\ issued' = issued \cup {classID + 1}
    /\ reissued' = (reissued \/ classID + 1 \in issued)

\* A copy reaches the server: dropped while its key is being handled, else
\* serve begins.
Deliver(e) ==
    LET k == KeyOf[e] IN
    /\ copies[e] > 0
    /\ copies' = [copies EXCEPT ![e] = @ - 1]
    /\ IF handler[k] # None
       THEN UNCHANGED <<handler, classes>>
       ELSE IF e \in Accounting
       THEN Set(k, [for |-> e, pc |-> "sendAcct", class |-> nas[e].class, result |-> None])
            /\ UNCHANGED classes
       ELSE NewClass /\ Set(k, [for |-> e, pc |-> "processor", class |-> classID', result |-> None])
    /\ UNCHANGED <<nas, lostAnswers, resends, now, faults, sent, reports, crashes>>

Runs(k, pc) == handler[k] # None /\ handler[k].pc = pc
Goto(k, pc) == handler' = [handler EXCEPT ![k].pc = pc]

\* Mutant of ProcessorAnswers: an error of no kind is left as it is.
ProcessorAnswers_Unclassified(k, outcome) ==
    /\ Runs(k, "processor")
    /\ IF outcome.kind = "ERROR" THEN Fault ELSE UNCHANGED faults
    /\ handler' = [handler EXCEPT ![k].pc = IF outcome.kind = "ERROR" THEN "report" ELSE "respond",
                                  ![k].result = IF outcome.kind = "ERROR" THEN [outcome EXCEPT !.kind = ""]
                                                ELSE outcome]
    /\ UNCHANGED <<nas, network, resends, classes, now, sent, reports, crashes>>

\* processor.Get, with ClassifyAuthError: an error of no kind is an ERROR.
\* Silence for an ERROR, else an answer.
ProcessorAnswers(k, outcome) ==
    /\ Runs(k, "processor")
    /\ IF outcome.kind = "ERROR" THEN Fault ELSE UNCHANGED faults
    /\ handler' = [handler EXCEPT ![k].pc = IF outcome.kind = "ERROR" THEN "report" ELSE "respond",
                                  ![k].result = outcome]
    /\ UNCHANGED <<nas, network, resends, classes, now, sent, reports, crashes>>

Granted(o) == o.kind = "response" /\ (o.ip # "" \/ o.pool # "")

\* Mutant of Told: the name of a pool is not too long for its attribute.
Told_AnyPool(o) ==
    CASE ~Granted(o)    -> "nothing"
      [] o.ip = "valid" -> "ip"
      [] o.ip = ""      -> "pool"
      [] OTHER          -> "nothing"

\* What respond encodes of a grant.  An address that does not parse is skipped,
\* and the pool is not used in its place; so is the name of a pool of more than
\* 253 bytes.  The accept goes out without.
Told(o) ==
    CASE ~Granted(o)                   -> "nothing"
      [] o.ip = "valid"                -> "ip"
      [] o.ip = "" /\ o.pool = "valid" -> "pool"
      [] OTHER                         -> "nothing"

Answer(h) ==
    [to |-> h.for, code |-> IF Granted(h.result) THEN "Accept" ELSE "Reject",
     class |-> h.class, address |-> Told(h.result)]

\* An answer goes out, perhaps once more after it was lost.
Send(a) ==
    /\ sent' = sent \cup {a}
    /\ lostAnswers' = lostAnswers \ {a}

\* respond, the packet is written.
Respond(k) ==
    /\ Runs(k, "respond")
    /\ Send(Answer(handler[k]))
    /\ Goto(k, "report")
    /\ UNCHANGED <<nas, copies, resends, classes, now, faults, reports, crashes>>

\* Mutant of RespondFails: the result of writing an accept is not looked at.
RespondFails_Unnoticed(k) ==
    /\ Runs(k, "respond") /\ Fault
    /\ Goto(k, "report")
    /\ UNCHANGED <<nas, network, resends, classes, now, sent, reports, crashes>>

\* respond, the write or the encoding of the packet fails: only the caller
\* that sends an accept looks at the result.
RespondFails(k) ==
    /\ Runs(k, "respond") /\ Fault
    /\ handler' = [handler EXCEPT ![k].pc = "report",
                                  ![k].result = IF Granted(@) THEN [kind |-> "ERROR", ip |-> "", pool |-> ""]
                                                ELSE @]
    /\ UNCHANGED <<nas, network, resends, classes, now, sent, reports, crashes>>

\* The status SendPostAuth is given: the processor's own, empty, for a grant.
Status(o) == IF Granted(o) THEN "" ELSE IF o.kind = "response" THEN "INVALID" ELSE o.kind

\* Mutant of Report: the class is left as the processor returned it.
Report_ProcessorsClass(k) ==
    LET h == handler[k] IN
    /\ Runs(k, "report")
    /\ postAuth' = postAuth \cup {[for |-> h.for, class |-> None, status |-> Status(h.result),
                                   ip |-> h.result.ip, pool |-> h.result.pool]}
    /\ Goto(k, "return")
    /\ UNCHANGED <<nas, network, resends, classes, now, faults, sent, acct, crashes>>

\* SendPostAuth
Report(k) ==
    LET h == handler[k] IN
    /\ Runs(k, "report")
    /\ postAuth' = postAuth \cup {[for |-> h.for, class |-> h.class, status |-> Status(h.result),
                                   ip |-> h.result.ip, pool |-> h.result.pool]}
    /\ Goto(k, "return")
    /\ UNCHANGED <<nas, network, resends, classes, now, faults, sent, acct, crashes>>

AcctResponse(h) ==
    [to |-> h.for, code |-> "AccountingResponse", class |-> h.class, address |-> "nothing"]

\* Mutant of SendAcct: the NAS is answered first.
SendAcct_AfterWrite(k) ==
    /\ \/ Runs(k, "sendAcct") /\ Send(AcctResponse(handler[k])) /\ Goto(k, "sendLate") /\ UNCHANGED acct
       \/ /\ Runs(k, "sendLate")
          /\ acct' = acct \cup {[for |-> handler[k].for, class |-> handler[k].class]}
          /\ Goto(k, "return")
          /\ UNCHANGED <<sent, lostAnswers>>
    /\ UNCHANGED <<nas, copies, resends, classes, now, faults, postAuth, crashes>>

\* The accounting branch: SendAcct, ...
SendAcct(k) ==
    /\ Runs(k, "sendAcct")
    /\ acct' = acct \cup {[for |-> handler[k].for, class |-> handler[k].class]}
    /\ Goto(k, "acctWrite")
    /\ UNCHANGED <<nas, network, resends, classes, now, faults, sent, postAuth, crashes>>

\* ... then the request goes back as the answer, its result ignored.
WriteAcct(k) ==
    /\ Runs(k, "acctWrite")
    /\ \/ Send(AcctResponse(handler[k])) /\ UNCHANGED faults
       \/ Fault /\ UNCHANGED <<sent, lostAnswers>>
    /\ Goto(k, "return")
    /\ UNCHANGED <<nas, copies, resends, classes, now, reports, crashes>>

\* Mutant of Return: a handler that stayed silent keeps its key.
Return_KeepsSilent(k) ==
    /\ Runs(k, "return")
    /\ handler[k].result # None => handler[k].result.kind # "ERROR"
    /\ Set(k, None)
    /\ UNCHANGED <<nas, network, resends, classes, now, faults, sent, reports, crashes>>

\* serve returns, the packet server frees the key.
Return(k) ==
    /\ Runs(k, "return")
    /\ Set(k, None)
    /\ UNCHANGED <<nas, network, resends, classes, now, faults, sent, reports, crashes>>

Tick ==
    /\ now < MaxNow
    /\ now' = now + 1
    /\ UNCHANGED <<nas, network, resends, handler, classes, faults, sent, reports, crashes>>

\* Mutant of Restart: the counter starts at zero.
Restart_FromZero ==
    /\ Fault
    /\ interrupted' = interrupted \cup {handler[k].class : k \in {l \in Keys : Runs(l, "report")}}
    /\ handler' = [k \in Keys |-> None]
    /\ overrun' = (overrun \/ classID > now)
    /\ classID' = 0
    /\ UNCHANGED <<nas, network, resends, issued, reissued, now, sent, reports>>

\* The process dies and ListenAndServe runs again.
Restart ==
    /\ Fault
    /\ interrupted' = interrupted \cup {handler[k].class : k \in {l \in Keys : Runs(l, "report")}}
    /\ handler' = [k \in Keys |-> None]
    /\ overrun' = (overrun \/ classID > now)
    /\ classID' = now
    /\ UNCHANGED <<nas, network, resends, issued, reissued, now, sent, reports>>

-----------------------------------------------------------------------------
HandlerStep(k) ==
    \/ \E o \in Outcomes : ProcessorAnswers(k, o)
    \/ Respond(k) \/ RespondFails(k) \/ Report(k) \/ SendAcct(k) \/ WriteAcct(k) \/ Return(k)

Next ==
    \/ \E e \in Exchanges : Begin(e) \/ Resend(e) \/ GiveUp(e) \/ LoseRequest(e) \/ Deliver(e)
    \/ \E a \in sent : ReceiveAnswer(a) \/ LoseAnswer(a)
    \/ \E k \in Keys : HandlerStep(k)
    \/ Tick \/ Restart

Spec == Init /\ [][Next]_vars

\* What is not lost arrives, handlers go on (EveryCallReturns of ScriptEngine,
\* the time bound of a post), and a NAS that still waits repeats what was lost.
Fairness ==
    /\ \A e \in Exchanges : WF_vars(Deliver(e)) /\ WF_vars(Resend(e))
    /\ \A e \in Exchanges : WF_vars(\E a \in InFlight(e) : ReceiveAnswer(a))
    /\ \A k \in Keys : WF_vars(HandlerStep(k))

LiveSpec == Spec /\ Fairness

-----------------------------------------------------------------------------
Packet == [to : Exchanges, code : {"Accept", "Reject", "AccountingResponse"},
           class : Classes, address : {"nothing", "ip", "pool"}]

NasState == [pc : {"new", "waiting", "gaveUp", "accepted", "rejected", "accounted"},
             class : Classes \cup {None}]

TypeOK ==
    /\ nas \in [Exchanges -> NasState]
    /\ copies \in [Exchanges -> Nat] /\ resends \in [Exchanges -> 0..Resends]
    /\ \A e \in Exchanges : copies[e] <= resends[e] + 1
    /\ handler \in [Keys -> Handler \cup {None}]
    /\ {classID, now} \subseteq Nat /\ faults \in 0..MaxFaults
    /\ sent \subseteq Packet
    /\ lostAnswers \subseteq sent
    /\ issued \subseteq Classes /\ interrupted \subseteq Classes
    /\ {reissued, overrun} \subseteq BOOLEAN

Busy(k)          == handler[k] # None
Authenticates(k) == Busy(k) /\ handler[k].for \in Access

ForAuth(a)   == a.code # "AccountingResponse"
Under(c)     == {a \in sent : a.class = c /\ ForAuth(a)}
Reported(a)  == \E p \in postAuth : p.for = a.to /\ p.class = a.class
                    /\ (p.status = "" <=> a.code = "Accept") /\ p.status # "ERROR"
Reporting(a) == \E k \in Keys : Runs(k, "report") /\ Answer(handler[k]) = a

\* Post-auth tells of every answer that went out, under its class and with its
\* verdict, unless the process died in between (handler.go:125-126); it tells
\* of a grant only when the NAS was sent one (handler.go:121), and of an ERROR
\* only when it was sent nothing (script/examples/post_auth.lua:5).
\* Classes tell the reports apart as long as they are not handed out twice.
ReportsFollowAnswers ==
    ~reissued =>
    /\ \A a \in sent : ForAuth(a) => Reported(a) \/ Reporting(a) \/ a.class \in interrupted
    /\ \A p \in postAuth :
          /\ p.status = "" => \E a \in Under(p.class) : a.to = p.for /\ a.code = "Accept"
          /\ p.status = "ERROR" => Under(p.class) = {}

\* An address or a pool a NAS was told is the one the report under its class
\* names; it was told neither only if the one it should have been told could not
\* be encoded (handler.go:151-157).
AddressAsReported ==
    \A a \in sent, p \in postAuth :
        ~reissued /\ a.class = p.class /\ a.code = "Accept" =>
            /\ a.address = "ip"      => p.ip = "valid"
            /\ a.address = "pool"    => p.ip = "" /\ p.pool = "valid"
            /\ a.address = "nothing" => p.ip = "malformed" \/ (p.ip = "" /\ p.pool = "tooLong")

\* A class is of one request, which is answered at most once and then reported
\* at most once, as it was answered.
UnderOwnClass(h) ==
    /\ h.pc \in {"processor", "respond"} => Under(h.class) = {}
    /\ h.pc \in {"processor", "respond", "report"} => \A p \in postAuth : p.class # h.class
    /\ h.pc = "report" =>
          /\ Under(h.class) \subseteq {Answer(h)}
          /\ h.result.kind = "ERROR" => Under(h.class) = {}
          /\ Granted(h.result) => Answer(h) \in Under(h.class)

OneRequestPerClass ==
    ~reissued =>
    /\ \A k, l \in Keys : Authenticates(k) /\ Authenticates(l) /\ handler[k].class = handler[l].class => k = l
    /\ \A k \in Keys : Authenticates(k) => UnderOwnClass(handler[k])

\* What post-auth reports is what the NAS was told: verdict, class and address.
AnswersReported == ReportsFollowAnswers /\ AddressAsReported /\ OneRequestPerClass

\* No two requests get one class, across restarts too, unless the server had
\* handed out more classes than seconds had passed (radius.go:36, handler.go:70).
ClassesDiffer == ~overrun => ~reissued /\ \A c \in issued : c <= classID

\* A handler authenticates under a class handed out to it, and accounts under
\* the one the NAS sent.
HandlersOK ==
    \A k \in Keys : Busy(k) =>
        LET h == handler[k] IN
        /\ h.for \in Access =>
              /\ h.pc \in {"processor", "respond", "report", "return"} /\ h.class \in issued
              /\ h.pc \in {"respond", "report"} => h.result \in Answers \cup Errors
              /\ h.pc = "respond" => h.result.kind # "ERROR"
        /\ h.for \in Accounting =>
              /\ h.pc \in {"sendAcct", "acctWrite", "return"}
              /\ nas[h.for].pc # "new" /\ h.class = nas[h.for].class
              /\ h.pc = "acctWrite" => [for |-> h.for, class |-> h.class] \in acct

\* Answers go to the exchange that asked, an accounting one once it is passed on.
AnswersOK ==
    /\ \A a \in sent : IF ForAuth(a) THEN a.to \in Access /\ a.class \in issued
                       ELSE a.to \in Accounting /\ [for |-> a.to, class |-> a.class] \in acct
    /\ \A p \in postAuth : p.class \in issued

\* Answers go to a NAS under classes of their own (radius.go:36, handler.go:70).
ExchangeInv == TypeOK /\ ClassesDiffer /\ HandlersOK /\ AnswersOK

\* Post-auth has told of the grant, or is about to, or would have but for a
\* restart.
Joins(e, c) ==
    \/ \E p \in postAuth : p.class = c /\ p.for = e /\ p.status = ""
    \/ \E k \in Keys : /\ Runs(k, "report") /\ handler[k].for = e /\ handler[k].class = c
                       /\ Granted(handler[k].result)
    \/ c \in interrupted

\* Whatever accept a NAS took of those its retransmissions brought about, its
\* accounting comes under a class that post-auth tells of for that session
\* (handler.go:40, 70, 125).
AccountingJoins ==
    /\ \A a \in sent : a.code = "Accept" => Joins(a.to, a.class)
    /\ \A r \in acct : Joins(SessionOf[r.for], r.class)

\* A NAS stops repeating an Accounting-Request only once it was passed on,
\* restarts between the two steps included (handler.go:52-54).
AcctNotLost ==
    \A e \in Accounting : nas[e].pc = "accounted" => [for |-> e, class |-> nas[e].class] \in acct

\* A NAS accounts for a session under the class of an accept it was sent.
Accepted(e, c) == \E a \in sent : a.to = e /\ a.code = "Accept" /\ a.class = c

AccountsForAccepts ==
    /\ \A e \in Exchanges : copies[e] > 0 => nas[e].pc # "new"
    /\ \A e \in Access : nas[e].pc = "accepted" => Accepted(e, nas[e].class)
    /\ \A e \in Accounting : nas[e].pc # "new" => Accepted(SessionOf[e], nas[e].class)
    /\ \A r \in acct : r.for \in Accounting /\ nas[r.for].pc # "new" /\ r.class = nas[r.for].class

\* Accounting reaches the processor, under a class it can attribute.
AccountingInv == AccountingJoins /\ AcctNotLost /\ AccountsForAccepts

\* A NAS that neither gives up nor is lost to an endless run of faults is
\* answered, also when it uses the identifier of a request still in the works.
EventuallyAnswered ==
    \A e \in Exchanges : Waiting(e) ~> nas[e].pc # "waiting"

\* script/examples/post_auth.lua:2: post_auth is called after the answer was
\* in fact sent to the NAS, a refusal included.
RefusalsWereSent ==
    \A p \in postAuth : p.status \in {"REJECT", "INVALID"} =>
        \E a \in sent : a.to = p.for /\ a.class = p.class /\ a.code = "Reject"
=============================================================================
