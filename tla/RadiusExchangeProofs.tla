------------------------ MODULE RadiusExchangeProofs ------------------------
(***************************************************************************)
(* Proofs about the exchange between a NAS and the server: while no class  *)
(* is handed out twice each one names one request, what it was answered    *)
(* and what was reported of it, and accounting comes under the class of an *)
(* accept the NAS was sent.  The three invariants of RadiusExchange are    *)
(* inductive together.                                                     *)
(***************************************************************************)
EXTENDS RadiusExchange, TLAPS

ExchangeIInv == ExchangeInv /\ AnswersReported /\ AccountingInv

HandlerPC == {"processor", "respond", "report", "sendAcct", "acctWrite", "return"}

(* Handler k goes on to pc with that result; nobody else moves. *)
Moves(k, pc, result) ==
    /\ handler' \in [Keys -> Handler \cup {None}]
    /\ handler[k] # None /\ handler[k] \in Handler /\ handler'[k] # None /\ handler'[k] \in Handler
    /\ handler'[k].pc = pc /\ handler'[k].result = result
    /\ handler'[k].for = handler[k].for /\ handler'[k].class = handler[k].class
    /\ \A l \in Keys \ {k} : handler'[l] = handler[l]

LEMMA Moved ==
    ASSUME TypeOK, NEW k \in Keys, Busy(k), NEW pc \in HandlerPC
    PROVE  /\ Goto(k, pc) => Moves(k, pc, handler[k].result)
           /\ \A r \in Answers \cup Errors :
                handler' = [handler EXCEPT ![k].pc = pc, ![k].result = r] => Moves(k, pc, r)
  <1> DEFINE h == handler[k]
  <1>1. handler \in [Keys -> Handler \cup {None}] /\ h \in Handler /\ h # None
    BY DEF TypeOK, Busy
  <1>2. ASSUME NEW g \in Handler, handler' = [handler EXCEPT ![k] = g],
               g.pc = pc, g.for = h.for, g.class = h.class
        PROVE  Moves(k, pc, g.result)
    <2>1. g # None
      BY NoneAssumption
    <2> QED
      BY <1>1, <1>2, <2>1 DEF Moves
  <1>3. ASSUME Goto(k, pc) PROVE Moves(k, pc, h.result)
    <2> DEFINE g == [h EXCEPT !.pc = pc]
    <2>1. g \in Handler /\ g.pc = pc /\ g.for = h.for /\ g.class = h.class /\ g.result = h.result
      BY <1>1 DEF Handler, HandlerPC
    <2>2. handler' = [handler EXCEPT ![k] = g]
      BY <1>1, <1>3 DEF Goto
    <2> HIDE DEF g
    <2> QED
      BY <1>2, <2>1, <2>2
  <1>4. ASSUME NEW r \in Answers \cup Errors, handler' = [handler EXCEPT ![k].pc = pc, ![k].result = r]
        PROVE  Moves(k, pc, r)
    <2> DEFINE g == [h EXCEPT !.pc = pc, !.result = r]
    <2>1. g \in Handler /\ g.pc = pc /\ g.for = h.for /\ g.class = h.class /\ g.result = r
      BY <1>1 DEF Handler, HandlerPC
    <2>2. handler' = [handler EXCEPT ![k] = g]
      BY <1>1, <1>4
    <2> HIDE DEF g
    <2> QED
      BY <1>2, <2>1, <2>2
  <1> QED
    BY <1>3, <1>4

(* Where the handler of key k goes, per step of serve. *)
LEMMA HandlerSteps ==
    ASSUME TypeOK, HandlersOK, NEW k \in Keys
    PROVE  /\ \A o \in Outcomes : ProcessorAnswers(k, o) =>
                /\ handler[k].pc = "processor" /\ o \in Answers \cup Errors
                /\ Moves(k, IF o.kind = "ERROR" THEN "report" ELSE "respond", o)
           /\ Respond(k) => handler[k].pc = "respond" /\ Moves(k, "report", handler[k].result)
           /\ RespondFails(k) =>
                /\ handler[k].pc = "respond"
                /\ Moves(k, "report", IF Granted(handler[k].result)
                                      THEN [kind |-> "ERROR", ip |-> "", pool |-> ""]
                                      ELSE handler[k].result)
           /\ Report(k) => handler[k].pc = "report" /\ Moves(k, "return", handler[k].result)
           /\ SendAcct(k) => handler[k].pc = "sendAcct" /\ Moves(k, "acctWrite", handler[k].result)
           /\ WriteAcct(k) => handler[k].pc = "acctWrite" /\ Moves(k, "return", handler[k].result)
           /\ Return(k) => /\ handler' \in [Keys -> Handler \cup {None}] /\ handler'[k] = None
                           /\ \A l \in Keys \ {k} : handler'[l] = handler[l]
  <1>1. ASSUME NEW o \in Outcomes, ProcessorAnswers(k, o)
        PROVE  /\ handler[k].pc = "processor" /\ o \in Answers \cup Errors
               /\ Moves(k, IF o.kind = "ERROR" THEN "report" ELSE "respond", o)
    BY <1>1, Moved, OutcomesAssumption DEF ProcessorAnswers, Runs, Busy, HandlerPC
  <1>2. ASSUME Respond(k) PROVE handler[k].pc = "respond" /\ Moves(k, "report", handler[k].result)
    BY <1>2, Moved DEF Respond, Runs, Busy, HandlerPC
  <1>3. ASSUME RespondFails(k)
        PROVE  /\ handler[k].pc = "respond"
               /\ Moves(k, "report", IF Granted(handler[k].result)
                                      THEN [kind |-> "ERROR", ip |-> "", pool |-> ""]
                                      ELSE handler[k].result)
    <2> DEFINE r == IF Granted(handler[k].result)
                    THEN [kind |-> "ERROR", ip |-> "", pool |-> ""]
                    ELSE handler[k].result
    <2>1. Busy(k) /\ handler[k].pc = "respond" /\ handler[k] \in Handler
      BY <1>3 DEF RespondFails, Runs, Busy, TypeOK
    <2>2. handler[k].result \in Answers \cup Errors
      BY <2>1, ExchangesAssumption DEF HandlersOK, Handler, Exchanges
    <2>3. r \in Answers \cup Errors
      BY <2>2 DEF Errors
    <2>4. handler' = [handler EXCEPT ![k].pc = "report", ![k].result = r]
      BY <1>3, <2>1 DEF RespondFails, TypeOK, Handler
    <2> HIDE DEF r
    <2>5. Moves(k, "report", r)
      BY <2>1, <2>3, <2>4, Moved DEF HandlerPC
    <2> QED
      BY <2>1, <2>5 DEF r
  <1>4. ASSUME Report(k) PROVE handler[k].pc = "report" /\ Moves(k, "return", handler[k].result)
    BY <1>4, Moved DEF Report, Runs, Busy, HandlerPC
  <1>5. ASSUME SendAcct(k) PROVE handler[k].pc = "sendAcct" /\ Moves(k, "acctWrite", handler[k].result)
    BY <1>5, Moved DEF SendAcct, Runs, Busy, HandlerPC
  <1>6. ASSUME WriteAcct(k) PROVE handler[k].pc = "acctWrite" /\ Moves(k, "return", handler[k].result)
    BY <1>6, Moved DEF WriteAcct, Runs, Busy, HandlerPC
  <1>7. ASSUME Return(k)
        PROVE  /\ handler' \in [Keys -> Handler \cup {None}] /\ handler'[k] = None
               /\ \A l \in Keys \ {k} : handler'[l] = handler[l]
    BY <1>7 DEF Return, Set, TypeOK
  <1> QED
    BY <1>1, <1>2, <1>3, <1>4, <1>5, <1>6, <1>7

(* Key k gets a handler for exchange e. *)
Starts(k, e, pc, c) ==
    /\ handler' \in [Keys -> Handler \cup {None}]
    /\ handler[k] = None /\ handler'[k] # None /\ handler'[k] \in Handler
    /\ handler'[k].for = e /\ handler'[k].pc = pc /\ handler'[k].class = c
    /\ \A l \in Keys \ {k} : handler'[l] = handler[l]

(* An accounting NAS has a class, that of an accept it was sent. *)
LEMMA AccountingHasClass ==
    ASSUME TypeOK, AccountsForAccepts, NEW e \in Accounting, nas[e].pc # "new"
    PROVE  nas[e].class \in Classes
  BY DEF AccountsForAccepts, Accepted, TypeOK, Packet

LEMMA DeliverSteps ==
    ASSUME TypeOK, AccountsForAccepts, NEW e \in Exchanges, Deliver(e)
    PROVE  /\ copies[e] > 0 /\ nas[e].pc # "new" /\ KeyOf[e] \in Keys
           /\ \/ UNCHANGED <<handler, classID, issued, reissued>>
              \/ /\ e \in Accounting /\ Starts(KeyOf[e], e, "sendAcct", nas[e].class)
                 /\ UNCHANGED <<classID, issued, reissued>>
              \/ e \in Access /\ NewClass /\ Starts(KeyOf[e], e, "processor", classID + 1)
  <1> DEFINE k == KeyOf[e]
  <1>1. k \in Keys /\ copies[e] > 0 /\ nas[e].pc # "new"
    BY KeyOfAssumption DEF Deliver, AccountsForAccepts
  <1>2. ASSUME NEW g \in Handler, handler[k] = None, Set(k, g), g.for = e
        PROVE  Starts(k, e, g.pc, g.class)
    <2>1. g # None /\ handler \in [Keys -> Handler \cup {None}]
      BY NoneAssumption DEF TypeOK
    <2> QED
      BY <1>1, <1>2, <2>1 DEF Set, Starts
  <1> HIDE DEF k
  <1>3. CASE handler[k] # None
    BY <1>1, <1>3 DEF Deliver, k, classes
  <1>4. CASE handler[k] = None /\ e \in Accounting
    <2> DEFINE g == [for |-> e, pc |-> "sendAcct", class |-> nas[e].class, result |-> None]
    <2>1. g \in Handler /\ g.for = e /\ g.pc = "sendAcct" /\ g.class = nas[e].class
      BY <1>1, <1>4, AccountingHasClass DEF Handler
    <2>2. Set(k, g) /\ UNCHANGED classes
      BY <1>4 DEF Deliver, k
    <2> HIDE DEF g
    <2>3. Starts(k, e, "sendAcct", nas[e].class)
      BY <1>2, <1>4, <2>1, <2>2
    <2> QED
      BY <1>1, <1>4, <2>2, <2>3 DEF k, classes
  <1>5. CASE handler[k] = None /\ e \notin Accounting
    <2> DEFINE g == [for |-> e, pc |-> "processor", class |-> classID', result |-> None]
    <2>1. NewClass /\ Set(k, g)
      BY <1>5 DEF Deliver, k
    <2>2. classID' \in Classes /\ classID' = classID + 1
      BY <2>1 DEF NewClass, TypeOK, Classes
    <2>3. g \in Handler /\ g.for = e /\ g.pc = "processor" /\ g.class = classID + 1
      BY <2>2 DEF Handler
    <2> HIDE DEF g
    <2>4. Starts(k, e, "processor", classID + 1)
      BY <1>2, <1>5, <2>1, <2>3
    <2> QED
      BY <1>1, <1>5, <2>1, <2>4 DEF k, Exchanges
  <1> QED
    BY <1>3, <1>4, <1>5

-----------------------------------------------------------------------------
(* What the NAS has and what an answer makes of it. *)
LEMMA NasSteps ==
    ASSUME TypeOK, AnswersOK, AccountsForAccepts
    PROVE  /\ \A e \in Exchanges : Begin(e) =>
                /\ nas[e].pc = "new" /\ nas'[e].pc = "waiting"
                /\ \A f \in Exchanges \ {e} : nas'[f] = nas[f]
                /\ nas' \in [Exchanges -> NasState]
                /\ e \in Accounting => /\ nas[SessionOf[e]].pc = "accepted"
                                       /\ nas'[e].class = nas[SessionOf[e]].class
           /\ \A e \in Exchanges : GiveUp(e) =>
                /\ nas[e].pc = "waiting" /\ nas'[e].pc = "gaveUp" /\ nas'[e].class = nas[e].class
                /\ \A f \in Exchanges \ {e} : nas'[f] = nas[f]
                /\ nas' \in [Exchanges -> NasState]
           /\ \A a \in sent : ReceiveAnswer(a) =>
                /\ nas[a.to].pc = "waiting" /\ a.to \in Exchanges
                /\ \/ a.code = "Accept" /\ nas'[a.to].pc = "accepted" /\ nas'[a.to].class = a.class
                   \/ a.code = "Reject" /\ nas'[a.to].pc = "rejected"
                   \/ /\ a.code = "AccountingResponse"
                      /\ nas'[a.to].pc = "accounted" /\ nas'[a.to].class = nas[a.to].class
                /\ \A f \in Exchanges \ {a.to} : nas'[f] = nas[f]
                /\ nas' \in [Exchanges -> NasState]
  <1>1. nas \in [Exchanges -> NasState]
    BY DEF TypeOK
  <1>2. ASSUME NEW e \in Exchanges, NEW n \in NasState, nas' = [nas EXCEPT ![e] = n]
        PROVE  nas' \in [Exchanges -> NasState] /\ nas'[e] = n /\ \A f \in Exchanges \ {e} : nas'[f] = nas[f]
    BY <1>1, <1>2
  <1>3. ASSUME NEW e \in Exchanges, Begin(e)
        PROVE  /\ nas[e].pc = "new" /\ nas'[e].pc = "waiting"
               /\ \A f \in Exchanges \ {e} : nas'[f] = nas[f]
               /\ nas' \in [Exchanges -> NasState]
               /\ e \in Accounting => /\ nas[SessionOf[e]].pc = "accepted"
                                      /\ nas'[e].class = nas[SessionOf[e]].class
    <2> DEFINE n == [pc |-> "waiting", class |-> IF e \in Access THEN None ELSE nas[SessionOf[e]].class]
    <2>1. e \notin Access => SessionOf[e] \in Exchanges
      BY SessionOfAssumption DEF Exchanges
    <2>2. n \in NasState /\ n.pc = "waiting"
      BY <1>1, <2>1 DEF NasState
    <2>3. nas' = [nas EXCEPT ![e] = n] /\ nas[e].pc = "new" /\ (e \in Accounting => nas[SessionOf[e]].pc = "accepted")
      BY <1>3 DEF Begin
    <2>4. e \in Accounting => n.class = nas[SessionOf[e]].class
      BY ExchangesAssumption
    <2> HIDE DEF n
    <2> QED
      BY <1>2, <2>2, <2>3, <2>4
  <1>4. ASSUME NEW e \in Exchanges, GiveUp(e)
        PROVE  /\ nas[e].pc = "waiting" /\ nas'[e].pc = "gaveUp" /\ nas'[e].class = nas[e].class
               /\ \A f \in Exchanges \ {e} : nas'[f] = nas[f]
               /\ nas' \in [Exchanges -> NasState]
    <2> DEFINE n == [nas[e] EXCEPT !.pc = "gaveUp"]
    <2>1. n \in NasState /\ n.pc = "gaveUp" /\ n.class = nas[e].class
      BY <1>1 DEF NasState
    <2>2. nas' = [nas EXCEPT ![e] = n] /\ nas[e].pc = "waiting"
      BY <1>4 DEF GiveUp, Waiting
    <2> HIDE DEF n
    <2> QED
      BY <1>2, <2>1, <2>2
  <1>5. ASSUME NEW a \in sent, ReceiveAnswer(a)
        PROVE  /\ nas[a.to].pc = "waiting" /\ a.to \in Exchanges
               /\ \/ a.code = "Accept" /\ nas'[a.to].pc = "accepted" /\ nas'[a.to].class = a.class
                  \/ a.code = "Reject" /\ nas'[a.to].pc = "rejected"
                  \/ /\ a.code = "AccountingResponse"
                     /\ nas'[a.to].pc = "accounted" /\ nas'[a.to].class = nas[a.to].class
               /\ \A f \in Exchanges \ {a.to} : nas'[f] = nas[f]
               /\ nas' \in [Exchanges -> NasState]
    <2>1. a.to \in Exchanges /\ a.class \in Classes /\ a.code \in {"Accept", "Reject", "AccountingResponse"}
      BY DEF TypeOK, Packet
    <2> DEFINE e == a.to
               n == CASE a.code = "Accept"  -> [pc |-> "accepted", class |-> a.class]
                      [] a.code = "Reject"  -> [pc |-> "rejected", class |-> None]
                      [] OTHER              -> [nas[e] EXCEPT !.pc = "accounted"]
    <2>2. nas' = [nas EXCEPT ![e] = n] /\ nas[e].pc = "waiting"
      BY <1>5 DEF ReceiveAnswer, Waiting
    <2>3. n \in NasState
      BY <1>1, <2>1 DEF NasState
    <2>4. \/ a.code = "Accept" /\ n.pc = "accepted" /\ n.class = a.class
          \/ a.code = "Reject" /\ n.pc = "rejected"
          \/ a.code = "AccountingResponse" /\ n.pc = "accounted" /\ n.class = nas[e].class
      BY <1>1, <2>1 DEF NasState
    <2> HIDE DEF n
    <2> QED
      BY <1>2, <2>1, <2>2, <2>3, <2>4
  <1> QED
    BY <1>3, <1>4, <1>5

-----------------------------------------------------------------------------
(* Steps of the NAS, the network and the clock leave the server as it is; the *)
(* reports, the answers and the classes change where their definitions say.  *)
NasStep     == \/ \E e \in Exchanges : Begin(e) \/ GiveUp(e)
               \/ \E a \in sent : ReceiveAnswer(a)
NetworkStep == \/ \E e \in Exchanges : Resend(e) \/ LoseRequest(e)
               \/ \E a \in sent : LoseAnswer(a)
               \/ Tick
QuietStep(k) == RespondFails(k) \/ Return(k) \/ \E o \in Outcomes : ProcessorAnswers(k, o)

LEMMA Frames ==
    /\ NasStep => UNCHANGED <<handler, classes, sent, reports, crashes>>
    /\ NetworkStep => UNCHANGED <<nas, handler, classes, sent, reports, crashes>>
    /\ \A k \in Keys : QuietStep(k) => UNCHANGED <<nas, network, classes, sent, reports, crashes>>
  <1>1. NasStep => UNCHANGED <<handler, classes, sent, reports, crashes>>
    BY DEF NasStep, Begin, GiveUp, ReceiveAnswer
  <1>2. NetworkStep => UNCHANGED <<nas, handler, classes, sent, reports, crashes>>
    BY DEF NetworkStep, Resend, LoseRequest, LoseAnswer, Tick
  <1>3. \A k \in Keys : QuietStep(k) => UNCHANGED <<nas, network, classes, sent, reports, crashes>>
    BY DEF QuietStep, RespondFails, Return, ProcessorAnswers
  <1> QED
    BY <1>1, <1>2, <1>3

(* Retransmissions are as many as Resends allows, and every variable keeps to *)
(* the values its type gives it.                                             *)
LEMMA CopiesTyped ==
    ASSUME TypeOK, NEW e \in Exchanges, Begin(e) \/ Resend(e) \/ LoseRequest(e) \/ Deliver(e)
    PROVE  /\ copies' \in [Exchanges -> Nat] /\ resends' \in [Exchanges -> 0..Resends]
           /\ \A f \in Exchanges : copies'[f] <= resends'[f] + 1
  <1>0. /\ copies \in [Exchanges -> Nat] /\ resends \in [Exchanges -> 0..Resends]
        /\ \A f \in Exchanges : copies[f] <= resends[f] + 1
        /\ Resends \in Nat
    BY BoundsAssumption DEF TypeOK
  <1>1. ASSUME NEW c \in Nat, NEW r \in 0..Resends, c <= r + 1,
               copies' = [copies EXCEPT ![e] = c], resends' = [resends EXCEPT ![e] = r]
        PROVE  /\ copies' \in [Exchanges -> Nat] /\ resends' \in [Exchanges -> 0..Resends]
               /\ \A f \in Exchanges : copies'[f] <= resends'[f] + 1
    BY <1>0, <1>1
  <1>2. resends = [resends EXCEPT ![e] = resends[e]] /\ copies[e] \in Nat /\ resends[e] \in 0..Resends
    BY <1>0
  <1>3. CASE Begin(e)
    <2>1. copies' = [copies EXCEPT ![e] = 1] /\ resends' = resends
      BY <1>3 DEF Begin
    <2>2. 1 \in Nat /\ 1 <= resends[e] + 1
      BY <1>2
    <2> QED
      BY <1>1, <1>2, <2>1, <2>2
  <1>4. CASE Resend(e)
    <2>1. copies' = [copies EXCEPT ![e] = copies[e] + 1] /\ copies[e] + 1 \in Nat
      BY <1>2, <1>4 DEF Resend
    <2>2. CASE copies[e] = 0 /\ resends' = resends
      <3>1. copies[e] + 1 <= resends[e] + 1
        BY <1>2, <2>2
      <3> QED
        BY <1>1, <1>2, <2>1, <2>2, <3>1
    <2>3. CASE resends[e] < Resends /\ resends' = [resends EXCEPT ![e] = @ + 1]
      <3>1. resends' = [resends EXCEPT ![e] = resends[e] + 1]
        BY <2>3
      <3>2. resends[e] + 1 \in 0..Resends /\ copies[e] + 1 <= (resends[e] + 1) + 1
        BY <1>0, <1>2, <2>3
      <3> QED
        BY <1>1, <2>1, <3>1, <3>2
    <2> QED
      BY <1>4, <2>2, <2>3 DEF Resend
  <1>5. CASE LoseRequest(e) \/ Deliver(e)
    <2>1. copies' = [copies EXCEPT ![e] = copies[e] - 1] /\ resends' = resends /\ copies[e] > 0
      BY <1>5 DEF LoseRequest, Deliver
    <2>2. copies[e] - 1 \in Nat /\ copies[e] - 1 <= resends[e] + 1
      BY <1>0, <1>2, <2>1
    <2> QED
      BY <1>1, <1>2, <2>1, <2>2
  <1> QED
    BY <1>3, <1>4, <1>5

LEMMA FaultTyped == ASSUME TypeOK, Fault PROVE faults' \in 0..MaxFaults
  BY BoundsAssumption DEF TypeOK, Fault

(* What respond sends is an answer to the exchange, under its class. *)
LEMMA AnswerTyped ==
    ASSUME NEW h \in Handler
    PROVE  /\ Answer(h) \in Packet
           /\ Answer(h).to = h.for /\ Answer(h).class = h.class /\ ForAuth(Answer(h))
           /\ Answer(h).address = Told(h.result)
           /\ Answer(h).code \in {"Accept", "Reject"}
           /\ Answer(h).code = "Accept" <=> Granted(h.result)
           /\ AcctResponse(h) \in Packet
           /\ AcctResponse(h).to = h.for /\ AcctResponse(h).class = h.class
           /\ AcctResponse(h).code = "AccountingResponse"
  <1>1. Told(h.result) \in {"nothing", "ip", "pool"}
    BY DEF Told
  <1> QED
    BY <1>1 DEF Answer, AcctResponse, Handler, ForAuth, Packet

LEMMA SendTyped ==
    ASSUME TypeOK, NEW a, Send(a),
           a \in Packet
    PROVE  /\ sent' \subseteq Packet
           /\ lostAnswers' \subseteq sent'
  BY DEF TypeOK, Send

LEMMA TypesKept == ExchangeIInv /\ Next => TypeOK'
  <1> SUFFICES ASSUME ExchangeIInv, Next PROVE TypeOK'
    OBVIOUS
  <1>0. TypeOK /\ HandlersOK /\ AnswersOK /\ AccountsForAccepts
    BY DEF ExchangeIInv, ExchangeInv, AccountingInv
  <1>t. /\ nas \in [Exchanges -> NasState]
        /\ copies \in [Exchanges -> Nat] /\ resends \in [Exchanges -> 0..Resends]
        /\ \A e \in Exchanges : copies[e] <= resends[e] + 1
        /\ handler \in [Keys -> Handler \cup {None}]
        /\ classID \in Nat /\ now \in Nat /\ faults \in 0..MaxFaults
        /\ sent \subseteq Packet /\ lostAnswers \subseteq sent
        /\ issued \subseteq Classes /\ interrupted \subseteq Classes
        /\ reissued \in BOOLEAN /\ overrun \in BOOLEAN
    BY <1>0 DEF TypeOK
  <1> DEFINE NasT == nas' \in [Exchanges -> NasState]
             CopiesT == /\ copies' \in [Exchanges -> Nat] /\ resends' \in [Exchanges -> 0..Resends]
                        /\ \A e \in Exchanges : copies'[e] <= resends'[e] + 1
             HandlerT == handler' \in [Keys -> Handler \cup {None}]
             ClassesT == /\ classID' \in Nat /\ issued' \subseteq Classes /\ interrupted' \subseteq Classes
                         /\ reissued' \in BOOLEAN /\ overrun' \in BOOLEAN
             SentT == sent' \subseteq Packet /\ lostAnswers' \subseteq sent'
  <1>a. UNCHANGED nas => NasT
    BY <1>t
  <1>b. UNCHANGED <<copies, resends>> => CopiesT
    BY <1>t
  <1>c. UNCHANGED handler => HandlerT
    BY <1>t
  <1>d. UNCHANGED <<classes, crashes>> => ClassesT
    BY <1>t DEF classes, crashes
  <1>e. UNCHANGED <<sent, lostAnswers>> => SentT
    BY <1>t
  <1>f. UNCHANGED faults => faults' \in 0..MaxFaults
    BY <1>t
  <1>g. UNCHANGED now => now' \in Nat
    BY <1>t
  <1>h. NasT /\ CopiesT /\ HandlerT /\ ClassesT /\ SentT /\ faults' \in 0..MaxFaults /\ now' \in Nat => TypeOK'
    BY DEF TypeOK
  <1> HIDE DEF NasT, CopiesT, HandlerT, ClassesT, SentT
  <1>1. ASSUME NEW e \in Exchanges, Begin(e) PROVE TypeOK'
    <2>1. NasT
      BY <1>0, <1>1, NasSteps DEF NasT
    <2>2. CopiesT
      BY <1>0, <1>1, CopiesTyped DEF CopiesT
    <2> QED
      BY <1>1, <2>1, <2>2, <1>c, <1>d, <1>e, <1>f, <1>g, <1>h DEF Begin
  <1>2. ASSUME NEW e \in Exchanges, GiveUp(e) PROVE TypeOK'
    <2>1. NasT
      BY <1>0, <1>2, NasSteps DEF NasT
    <2> QED
      BY <1>2, <2>1, <1>b, <1>c, <1>d, <1>e, <1>f, <1>g, <1>h DEF GiveUp, network
  <1>3. ASSUME NEW a \in sent, ReceiveAnswer(a) PROVE TypeOK'
    <2>1. NasT
      BY <1>0, <1>3, NasSteps DEF NasT
    <2> QED
      BY <1>3, <2>1, <1>b, <1>c, <1>d, <1>e, <1>f, <1>g, <1>h DEF ReceiveAnswer, network
  <1>4. ASSUME NEW e \in Exchanges, Resend(e) PROVE TypeOK'
    <2>1. CopiesT
      BY <1>0, <1>4, CopiesTyped DEF CopiesT
    <2> QED
      BY <1>4, <2>1, <1>a, <1>c, <1>d, <1>e, <1>f, <1>g, <1>h DEF Resend
  <1>5. ASSUME NEW e \in Exchanges, LoseRequest(e) PROVE TypeOK'
    <2>1. CopiesT
      BY <1>0, <1>5, CopiesTyped DEF CopiesT
    <2>2. faults' \in 0..MaxFaults
      BY <1>0, <1>5, FaultTyped DEF LoseRequest
    <2> QED
      BY <1>5, <2>1, <2>2, <1>a, <1>c, <1>d, <1>e, <1>g, <1>h DEF LoseRequest
  <1>6. ASSUME NEW a \in sent, LoseAnswer(a) PROVE TypeOK'
    <2>1. SentT
      BY <1>6, <1>t DEF LoseAnswer, SentT
    <2>2. faults' \in 0..MaxFaults
      BY <1>0, <1>6, FaultTyped DEF LoseAnswer
    <2> QED
      BY <1>6, <2>1, <2>2, <1>a, <1>b, <1>c, <1>d, <1>g, <1>h DEF LoseAnswer
  <1>7. CASE Tick
    <2>1. now' \in Nat
      BY <1>7, <1>t DEF Tick
    <2> QED
      BY <1>7, <2>1, <1>a, <1>b, <1>c, <1>d, <1>e, <1>f, <1>h DEF Tick, network
  <1>8. ASSUME NEW e \in Exchanges, Deliver(e) PROVE TypeOK'
    <2>1. CopiesT
      BY <1>0, <1>8, CopiesTyped DEF CopiesT
    <2>2. HandlerT
      BY <1>0, <1>8, DeliverSteps, <1>c DEF HandlerT, Starts
    <2>3. UNCHANGED <<classID, issued, reissued>> \/ NewClass
      BY <1>0, <1>8, DeliverSteps
    <2>4. ClassesT
      <3>1. UNCHANGED crashes
        BY <1>8 DEF Deliver
      <3>2. CASE NewClass
        <4>1. classID' \in Nat /\ issued' \subseteq Classes
          BY <1>t, <3>2 DEF NewClass, Classes
        <4>2. reissued' \in BOOLEAN
          BY <3>2 DEF NewClass
        <4> QED
          BY <1>t, <3>1, <4>1, <4>2 DEF crashes, ClassesT
      <3> QED
        BY <1>d, <2>3, <3>1, <3>2 DEF classes
    <2> QED
      BY <1>8, <2>1, <2>2, <2>4, <1>a, <1>e, <1>f, <1>g, <1>h DEF Deliver
  <1>9. ASSUME NEW k \in Keys, QuietStep(k) PROVE TypeOK'
    <2>1. HandlerT
      BY <1>0, <1>9, HandlerSteps DEF HandlerT, QuietStep, Moves
    <2>2. faults' \in 0..MaxFaults
      BY <1>0, <1>9, <1>f, FaultTyped DEF QuietStep, ProcessorAnswers, RespondFails, Return
    <2>3. UNCHANGED <<nas, network, classes, sent, reports, crashes>>
      BY <1>9, Frames
    <2>4. UNCHANGED <<resends, now>>
      BY <1>9 DEF QuietStep, ProcessorAnswers, RespondFails, Return
    <2> QED
      BY <2>1, <2>2, <2>3, <2>4, <1>a, <1>b, <1>d, <1>e, <1>g, <1>h DEF network
  <1>10. ASSUME NEW k \in Keys, Respond(k) PROVE TypeOK'
    <2>1. HandlerT
      BY <1>0, <1>10, HandlerSteps DEF HandlerT, Moves
    <2>2. SentT
      <3>1. handler[k] \in Handler
        BY <1>10, <1>t DEF Respond, Runs
      <3> QED
        BY <1>0, <1>10, <3>1, AnswerTyped, SendTyped DEF SentT, Respond
    <2> QED
      BY <1>10, <2>1, <2>2, <1>a, <1>b, <1>d, <1>f, <1>g, <1>h DEF Respond
  <1>11. ASSUME NEW k \in Keys, Report(k) PROVE TypeOK'
    <2>1. HandlerT
      BY <1>0, <1>11, HandlerSteps DEF HandlerT, Moves
    <2> QED
      BY <1>11, <2>1, <1>a, <1>b, <1>d, <1>e, <1>f, <1>g, <1>h DEF Report, network
  <1>12. ASSUME NEW k \in Keys, SendAcct(k) PROVE TypeOK'
    <2>1. HandlerT
      BY <1>0, <1>12, HandlerSteps DEF HandlerT, Moves
    <2> QED
      BY <1>12, <2>1, <1>a, <1>b, <1>d, <1>e, <1>f, <1>g, <1>h DEF SendAcct, network
  <1>13. ASSUME NEW k \in Keys, WriteAcct(k) PROVE TypeOK'
    <2>1. HandlerT
      BY <1>0, <1>13, HandlerSteps DEF HandlerT, Moves
    <2>2. SentT
      <3>1. handler[k] \in Handler
        BY <1>13, <1>t DEF WriteAcct, Runs
      <3> QED
        BY <1>0, <1>13, <1>e, <3>1, AnswerTyped, SendTyped DEF SentT, WriteAcct
    <2>3. faults' \in 0..MaxFaults
      BY <1>0, <1>13, <1>f, FaultTyped DEF WriteAcct
    <2> QED
      BY <1>13, <2>1, <2>2, <2>3, <1>a, <1>b, <1>d, <1>g, <1>h DEF WriteAcct
  <1>14. CASE Restart
    <2>1. HandlerT
      BY <1>14 DEF Restart, HandlerT
    <2>2. faults' \in 0..MaxFaults
      BY <1>0, <1>14, FaultTyped DEF Restart
    <2>3. ClassesT
      <3>1. \A k \in Keys : Runs(k, "report") => handler[k].class \in Classes
        BY <1>t DEF Runs, Handler
      <3>2. classID' \in Nat /\ issued' \subseteq Classes /\ interrupted' \subseteq Classes
        BY <1>14, <1>t, <3>1 DEF Restart
      <3>3. reissued' \in BOOLEAN
        BY <1>14, <1>t DEF Restart
      <3>4. overrun' \in BOOLEAN
        BY <1>14 DEF Restart
      <3> QED
        BY <3>2, <3>3, <3>4 DEF ClassesT
    <2> QED
      BY <1>14, <2>1, <2>2, <2>3, <1>a, <1>b, <1>e, <1>g, <1>h DEF Restart, network
  <1> QED
    BY <1>1, <1>2, <1>3, <1>4, <1>5, <1>6, <1>7, <1>8, <1>9, <1>10, <1>11, <1>12, <1>13, <1>14
    DEF Next, HandlerStep, QuietStep

-----------------------------------------------------------------------------
LEMMA NextSplit ==
    ASSUME Next
    PROVE  \/ NasStep
           \/ NetworkStep
           \/ \E e \in Exchanges : Deliver(e)
           \/ \E k \in Keys : \/ QuietStep(k) \/ Respond(k) \/ Report(k)
                              \/ SendAcct(k) \/ WriteAcct(k)
           \/ Restart
  BY DEF Next, NasStep, NetworkStep, HandlerStep, QuietStep

(* Nothing that was sent, reported or handed out is forgotten. *)
LEMMA HistoryGrows ==
    ASSUME Next
    PROVE  /\ sent \subseteq sent' /\ postAuth \subseteq postAuth' /\ acct \subseteq acct'
           /\ issued \subseteq issued' /\ interrupted \subseteq interrupted'
           /\ reissued => reissued'
  <1> USE DEF classes, crashes, reports, network
  <1>1. CASE NasStep \/ NetworkStep \/ \E k \in Keys : QuietStep(k)
    BY <1>1, Frames
  <1>2. ASSUME NEW e \in Exchanges, Deliver(e)
        PROVE  /\ UNCHANGED <<sent, postAuth, acct, interrupted>>
               /\ issued \subseteq issued' /\ (reissued => reissued')
    BY <1>2 DEF Deliver, NewClass
  <1>3. ASSUME NEW k \in Keys, Respond(k)
        PROVE  UNCHANGED <<postAuth, acct, issued, interrupted, reissued>> /\ sent \subseteq sent'
    BY <1>3 DEF Respond, Send
  <1>4. ASSUME NEW k \in Keys, Report(k)
        PROVE  UNCHANGED <<sent, acct, issued, interrupted, reissued>> /\ postAuth \subseteq postAuth'
    BY <1>4 DEF Report
  <1>5. ASSUME NEW k \in Keys, SendAcct(k)
        PROVE  UNCHANGED <<sent, postAuth, issued, interrupted, reissued>> /\ acct \subseteq acct'
    BY <1>5 DEF SendAcct
  <1>6. ASSUME NEW k \in Keys, WriteAcct(k)
        PROVE  UNCHANGED <<postAuth, acct, issued, interrupted, reissued>> /\ sent \subseteq sent'
    BY <1>6 DEF WriteAcct, Send
  <1>7. CASE Restart
    BY <1>7 DEF Restart
  <1> QED
    BY <1>1, <1>2, <1>3, <1>4, <1>5, <1>6, <1>7, NextSplit

(* An accounting NAS never changes the class it began with. *)
LEMMA NasKeepsClass ==
    ASSUME ExchangeIInv, Next, NEW e \in Accounting, nas[e].pc # "new"
    PROVE  nas'[e].pc # "new" /\ nas'[e].class = nas[e].class
  <1>0. TypeOK /\ AnswersOK /\ AccountsForAccepts /\ e \in Exchanges
    BY DEF ExchangeIInv, ExchangeInv, AccountingInv, Exchanges
  <1>1. CASE UNCHANGED nas
    BY <1>1
  <1>2. ASSUME NEW f \in Exchanges, Begin(f) \/ GiveUp(f)
        PROVE  nas'[e].pc # "new" /\ nas'[e].class = nas[e].class
    BY <1>0, <1>2, NasSteps
  <1>3. ASSUME NEW a \in sent, ReceiveAnswer(a)
        PROVE  nas'[e].pc # "new" /\ nas'[e].class = nas[e].class
    <2>1. a.to = e => a.code = "AccountingResponse"
      BY <1>0, ExchangesAssumption DEF AnswersOK, ForAuth
    <2> QED
      BY <1>0, <1>3, <2>1, NasSteps
  <1> QED
    BY <1>1, <1>2, <1>3, NextSplit, Frames
    DEF NasStep, Deliver, Respond, Report, SendAcct, WriteAcct, Restart

-----------------------------------------------------------------------------
(* Until a restart sets the counter back, each class is above the last. *)
LEMMA ClassesDifferKept == ExchangeIInv /\ Next => ClassesDiffer'
  <1> SUFFICES ASSUME ExchangeIInv, Next PROVE ClassesDiffer'
    OBVIOUS
  <1>0. TypeOK /\ ClassesDiffer /\ AccountsForAccepts
    BY DEF ExchangeIInv, ExchangeInv, AccountingInv
  <1>1. classID \in Nat /\ now \in Nat /\ issued \subseteq Nat
    BY <1>0 DEF TypeOK, Classes
  <1>2. ASSUME UNCHANGED <<classID, issued, reissued, overrun>> PROVE ClassesDiffer'
    BY <1>0, <1>2 DEF ClassesDiffer
  <1>3. ASSUME NEW e \in Exchanges, Deliver(e) PROVE ClassesDiffer'
    <2>1. UNCHANGED overrun
      BY <1>3 DEF Deliver, crashes
    <2>2. CASE NewClass
      <3>1. ASSUME ~overrun PROVE ~reissued' /\ \A c \in issued' : c <= classID'
        <4>1. ~reissued /\ \A c \in issued : c <= classID
          BY <1>0, <3>1 DEF ClassesDiffer
        <4>2. classID + 1 \notin issued
          BY <1>1, <4>1
        <4>3. ~reissued'
          BY <2>2, <4>1, <4>2 DEF NewClass
        <4> QED
          BY <1>1, <2>2, <4>1, <4>3 DEF NewClass
      <3> QED
        BY <2>1, <3>1 DEF ClassesDiffer
    <2> QED
      BY <1>0, <1>2, <1>3, <2>1, <2>2, DeliverSteps
  <1>4. CASE Restart
    <2>1. overrun' <=> overrun \/ classID > now
      BY <1>4 DEF Restart
    <2>2. UNCHANGED <<issued, reissued>> /\ classID' = now
      BY <1>4 DEF Restart
    <2> QED
      BY <1>0, <1>1, <2>1, <2>2 DEF ClassesDiffer
  <1>5. CASE NasStep \/ NetworkStep \/ \E k \in Keys : QuietStep(k)
    BY <1>2, <1>5, Frames DEF classes, crashes
  <1>6. ASSUME NEW k \in Keys, Respond(k) \/ Report(k) \/ SendAcct(k) \/ WriteAcct(k)
        PROVE  ClassesDiffer'
    BY <1>2, <1>6 DEF Respond, Report, SendAcct, WriteAcct, classes, crashes
  <1> QED
    BY <1>3, <1>4, <1>5, <1>6, NextSplit

(* A handler keeps the exchange and the class it began with, and goes on as   *)
(* serve does.                                                               *)
LEMMA HandlersOKKept == ExchangeIInv /\ Next => HandlersOK'
  <1> SUFFICES ASSUME ExchangeIInv, Next PROVE HandlersOK'
    OBVIOUS
  <1>0. TypeOK /\ HandlersOK /\ AnswersOK /\ AccountsForAccepts
    BY DEF ExchangeIInv, ExchangeInv, AccountingInv
  <1> DEFINE OK(h) ==
               /\ h.for \in Access =>
                     /\ h.pc \in {"processor", "respond", "report", "return"} /\ h.class \in issued'
                     /\ h.pc \in {"respond", "report"} => h.result \in Answers \cup Errors
                     /\ h.pc = "respond" => h.result.kind # "ERROR"
               /\ h.for \in Accounting =>
                     /\ h.pc \in {"sendAcct", "acctWrite", "return"}
                     /\ nas'[h.for].pc # "new" /\ h.class = nas'[h.for].class
                     /\ h.pc = "acctWrite" => [for |-> h.for, class |-> h.class] \in acct'
  <1>1. \A k \in Keys : Busy(k) => OK(handler[k])
    BY <1>0, HistoryGrows, NasKeepsClass DEF HandlersOK
  <1>2. (\A k \in Keys : handler'[k] # None => OK(handler'[k])) => HandlersOK'
    BY DEF HandlersOK, Busy
  <1>3. \A k \in Keys : Busy(k) => handler[k].for \in Exchanges
    BY <1>0 DEF TypeOK, Handler, Busy
  <1> HIDE DEF OK
  <1>4. ASSUME UNCHANGED handler PROVE HandlersOK'
    BY <1>1, <1>2, <1>4 DEF Busy
  <1>5. ASSUME NEW k \in Keys, handler'[k] # None => OK(handler'[k]),
               \A l \in Keys \ {k} : handler'[l] = handler[l]
        PROVE  HandlersOK'
    BY <1>1, <1>2, <1>5 DEF Busy
  <1>6. ASSUME NEW e \in Exchanges, Deliver(e) PROVE HandlersOK'
    <2> DEFINE k == KeyOf[e]
    <2>1. /\ k \in Keys
          /\ \/ UNCHANGED handler
             \/ e \in Accounting /\ Starts(k, e, "sendAcct", nas[e].class)
             \/ e \in Access /\ NewClass /\ Starts(k, e, "processor", classID + 1)
      BY <1>0, <1>6, DeliverSteps
    <2> HIDE DEF k
    <2>2. CASE e \in Accounting /\ Starts(k, e, "sendAcct", nas[e].class)
      <3>1. e \notin Access /\ nas'[e].pc # "new" /\ nas'[e].class = nas[e].class
        BY <1>0, <1>6, <2>2, DeliverSteps, NasKeepsClass, ExchangesAssumption
      <3> QED
        BY <1>5, <2>1, <2>2, <3>1 DEF Starts, OK
    <2>3. CASE e \in Access /\ NewClass /\ Starts(k, e, "processor", classID + 1)
      <3>1. e \notin Accounting /\ classID + 1 \in issued'
        BY <2>3, ExchangesAssumption DEF NewClass
      <3> QED
        BY <1>5, <2>1, <2>3, <3>1 DEF Starts, OK
    <2> QED
      BY <1>4, <2>1, <2>2, <2>3
  <1>7. ASSUME NEW k \in Keys, NEW pc, NEW r, Moves(k, pc, r), HandlersOK,
               handler[k].for \in Access =>
                  /\ pc \in {"processor", "respond", "report", "return"}
                  /\ pc \in {"respond", "report"} => r \in Answers \cup Errors
                  /\ pc = "respond" => r.kind # "ERROR",
               handler[k].for \in Accounting =>
                  /\ pc \in {"sendAcct", "acctWrite", "return"}
                  /\ pc = "acctWrite" => [for |-> handler[k].for, class |-> handler[k].class] \in acct'
        PROVE  HandlersOK'
    BY <1>1, <1>5, <1>7 DEF Moves, Busy, OK
  <1>8. \A k \in Keys : Busy(k) =>
            /\ handler[k].pc \in {"processor", "respond", "report"} =>
                  handler[k].for \notin Accounting
            /\ handler[k].pc \in {"sendAcct", "acctWrite"} => handler[k].for \notin Access
            /\ handler[k].pc \in {"respond", "report"} => handler[k].result \in Answers \cup Errors
    BY <1>0, <1>3 DEF HandlersOK, Exchanges
  <1>9. ASSUME NEW k \in Keys, NEW o \in Outcomes, ProcessorAnswers(k, o) PROVE HandlersOK'
    <2> DEFINE pc == IF o.kind = "ERROR" THEN "report" ELSE "respond"
    <2>1. handler[k].pc = "processor" /\ o \in Answers \cup Errors /\ Moves(k, pc, o) /\ Busy(k)
      BY <1>0, <1>9, HandlerSteps DEF ProcessorAnswers, Runs, Busy
    <2>2. pc \in {"respond", "report"} /\ (pc = "respond" => o.kind # "ERROR")
      OBVIOUS
    <2> HIDE DEF pc
    <2> QED
      BY <1>0, <1>7, <1>8, <2>1, <2>2
  <1>10. ASSUME NEW k \in Keys, Respond(k) PROVE HandlersOK'
    <2>1. handler[k].pc = "respond" /\ Moves(k, "report", handler[k].result) /\ Busy(k)
      BY <1>0, <1>10, HandlerSteps DEF Moves, Busy
    <2> QED
      BY <1>0, <1>7, <1>8, <2>1
  <1>11. ASSUME NEW k \in Keys, RespondFails(k) PROVE HandlersOK'
    <2> DEFINE r == IF Granted(handler[k].result) THEN [kind |-> "ERROR", ip |-> "", pool |-> ""]
                    ELSE handler[k].result
    <2>1. handler[k].pc = "respond" /\ Moves(k, "report", r) /\ Busy(k)
      BY <1>0, <1>11, HandlerSteps DEF Moves, Busy
    <2>2. r \in Answers \cup Errors
      BY <1>8, <2>1 DEF Errors
    <2> HIDE DEF r
    <2> QED
      BY <1>0, <1>7, <1>8, <2>1, <2>2
  <1>12. ASSUME NEW k \in Keys, Report(k) PROVE HandlersOK'
    <2>1. handler[k].pc = "report" /\ Moves(k, "return", handler[k].result) /\ Busy(k)
      BY <1>0, <1>12, HandlerSteps DEF Moves, Busy
    <2> QED
      BY <1>0, <1>7, <1>8, <2>1
  <1>13. ASSUME NEW k \in Keys, SendAcct(k) PROVE HandlersOK'
    <2>1. handler[k].pc = "sendAcct" /\ Moves(k, "acctWrite", handler[k].result) /\ Busy(k)
      BY <1>0, <1>13, HandlerSteps DEF Moves, Busy
    <2>2. [for |-> handler[k].for, class |-> handler[k].class] \in acct'
      BY <1>13 DEF SendAcct
    <2> QED
      BY <1>0, <1>7, <1>8, <2>1, <2>2
  <1>14. ASSUME NEW k \in Keys, WriteAcct(k) PROVE HandlersOK'
    <2>1. handler[k].pc = "acctWrite" /\ Moves(k, "return", handler[k].result) /\ Busy(k)
      BY <1>0, <1>14, HandlerSteps DEF Moves, Busy
    <2> QED
      BY <1>0, <1>7, <1>8, <2>1
  <1>15. ASSUME NEW k \in Keys, Return(k) PROVE HandlersOK'
    BY <1>0, <1>5, <1>15, HandlerSteps
  <1>16. CASE Restart
    BY <1>2, <1>16 DEF Restart
  <1>17. CASE NasStep \/ NetworkStep
    BY <1>4, <1>17, Frames
  <1> QED
    BY <1>6, <1>9, <1>10, <1>11, <1>12, <1>13, <1>14, <1>15, <1>16, <1>17, NextSplit DEF QuietStep

-----------------------------------------------------------------------------
(* What serve has when it answers, reports and accounts. *)
LEMMA AtRespond ==
    ASSUME TypeOK, HandlersOK, NEW k \in Keys, Respond(k) \/ RespondFails(k) \/ Report(k)
    PROVE  /\ Busy(k) /\ handler[k] \in Handler /\ handler[k].for \in Access /\ handler[k].class \in issued
           /\ handler[k].result \in Answers \cup Errors
           /\ Respond(k) \/ RespondFails(k) => handler[k].pc = "respond" /\ handler[k].result.kind # "ERROR"
           /\ Report(k) => handler[k].pc = "report"
  <1>1. Busy(k) /\ handler[k] \in Handler /\ handler[k].pc \in {"respond", "report"}
    BY DEF Respond, RespondFails, Report, Runs, Busy, TypeOK
  <1>2. handler[k].for \in Access
    BY <1>1 DEF HandlersOK, Handler, Exchanges
  <1> QED
    BY <1>1, <1>2 DEF HandlersOK, Respond, RespondFails, Report, Runs

LEMMA AtAcct ==
    ASSUME TypeOK, HandlersOK, NEW k \in Keys, SendAcct(k) \/ WriteAcct(k)
    PROVE  /\ Busy(k) /\ handler[k] \in Handler /\ handler[k].for \in Accounting
           /\ nas[handler[k].for].pc # "new" /\ handler[k].class = nas[handler[k].for].class
           /\ WriteAcct(k) => [for |-> handler[k].for, class |-> handler[k].class] \in acct
  <1>1. Busy(k) /\ handler[k] \in Handler /\ handler[k].pc \in {"sendAcct", "acctWrite"}
    BY DEF SendAcct, WriteAcct, Runs, Busy, TypeOK
  <1>2. handler[k].for \in Accounting
    BY <1>1 DEF HandlersOK, Handler, Exchanges
  <1> QED
    BY <1>1, <1>2 DEF HandlersOK, SendAcct, WriteAcct, Runs

(* Answers come from Respond and WriteAcct alone. *)
LEMMA NewAnswers ==
    ASSUME ExchangeIInv, Next, NEW a \in sent', a \notin sent
    PROVE  \E k \in Keys : \/ Respond(k) /\ a = Answer(handler[k])
                           \/ WriteAcct(k) /\ a = AcctResponse(handler[k])
  <1>1. CASE UNCHANGED sent
    BY <1>1
  <1>2. ASSUME NEW k \in Keys, Respond(k) PROVE a = Answer(handler[k])
    BY <1>2 DEF Respond, Send
  <1>3. ASSUME NEW k \in Keys, WriteAcct(k) PROVE a = AcctResponse(handler[k])
    BY <1>3 DEF WriteAcct, Send
  <1>4. (\E k \in Keys : Report(k) \/ SendAcct(k)) => UNCHANGED sent
    BY DEF Report, SendAcct, network
  <1>5. (\E e \in Exchanges : Deliver(e)) \/ Restart => UNCHANGED sent
    BY DEF Deliver, Restart
  <1>6. NasStep \/ NetworkStep \/ (\E k \in Keys : QuietStep(k)) => UNCHANGED sent
    BY Frames
  <1> QED
    BY <1>1, <1>2, <1>3, <1>4, <1>5, <1>6, NextSplit

(* Post-auth is told by Report alone, accounting by SendAcct. *)
LEMMA NewReports ==
    ASSUME ExchangeIInv, Next
    PROVE  /\ \A p \in postAuth' \ postAuth : \E k \in Keys :
                /\ Report(k)
                /\ p = [for |-> handler[k].for, class |-> handler[k].class,
                        status |-> Status(handler[k].result),
                        ip |-> handler[k].result.ip, pool |-> handler[k].result.pool]
           /\ \A r \in acct' \ acct : \E k \in Keys :
                SendAcct(k) /\ r = [for |-> handler[k].for, class |-> handler[k].class]
  <1>1. (\E k \in Keys : Respond(k) \/ WriteAcct(k)) => UNCHANGED <<postAuth, acct>>
    BY DEF Respond, WriteAcct, reports
  <1>2. (\E e \in Exchanges : Deliver(e)) \/ Restart => UNCHANGED <<postAuth, acct>>
    BY DEF Deliver, Restart, reports
  <1>3. NasStep \/ NetworkStep \/ (\E k \in Keys : QuietStep(k)) => UNCHANGED <<postAuth, acct>>
    BY Frames DEF reports
  <1>4. ASSUME NEW k \in Keys, Report(k)
        PROVE  /\ UNCHANGED acct
               /\ postAuth' = postAuth \cup
                    {[for |-> handler[k].for, class |-> handler[k].class,
                      status |-> Status(handler[k].result),
                      ip |-> handler[k].result.ip, pool |-> handler[k].result.pool]}
    BY <1>4 DEF Report
  <1>5. ASSUME NEW k \in Keys, SendAcct(k)
        PROVE  UNCHANGED postAuth /\ acct' = acct \cup {[for |-> handler[k].for, class |-> handler[k].class]}
    BY <1>5 DEF SendAcct
  <1> QED
    BY <1>1, <1>2, <1>3, <1>4, <1>5, NextSplit

(* An answer is for the exchange that asked. *)
LEMMA AnswersOKKept == ExchangeIInv /\ Next => AnswersOK'
  <1> SUFFICES ASSUME ExchangeIInv, Next PROVE AnswersOK'
    OBVIOUS
  <1>0. TypeOK /\ HandlersOK /\ AnswersOK /\ issued \subseteq issued' /\ acct \subseteq acct'
    BY HistoryGrows DEF ExchangeIInv, ExchangeInv
  <1>1. ASSUME NEW a \in sent'
        PROVE  IF ForAuth(a) THEN a.to \in Access /\ a.class \in issued'
               ELSE a.to \in Accounting /\ [for |-> a.to, class |-> a.class] \in acct'
    <2>1. CASE a \in sent
      BY <1>0, <2>1 DEF AnswersOK
    <2>2. ASSUME NEW k \in Keys, Respond(k), a = Answer(handler[k])
          PROVE  ForAuth(a) /\ a.to \in Access /\ a.class \in issued'
      BY <1>0, <2>2, AtRespond, AnswerTyped
    <2>3. ASSUME NEW k \in Keys, WriteAcct(k), a = AcctResponse(handler[k])
          PROVE  ~ForAuth(a) /\ a.to \in Accounting /\ [for |-> a.to, class |-> a.class] \in acct'
      BY <1>0, <2>3, AtAcct, AnswerTyped DEF ForAuth
    <2> QED
      BY <2>1, <2>2, <2>3, NewAnswers
  <1>2. ASSUME NEW p \in postAuth' PROVE p.class \in issued'
    <2>1. CASE p \in postAuth
      BY <1>0, <2>1 DEF AnswersOK
    <2>2. CASE p \notin postAuth
      BY <1>0, <2>2, NewReports, AtRespond
    <2> QED
      BY <2>1, <2>2
  <1> QED
    BY <1>1, <1>2 DEF AnswersOK, ForAuth

-----------------------------------------------------------------------------
(* A report that is due is made, unless the process dies. *)
LEMMA ReportersStay ==
    ASSUME ExchangeIInv, Next, NEW l \in Keys, Runs(l, "report")
    PROVE  \/ handler'[l] = handler[l]
           \/ Report(l)
           \/ handler[l].class \in interrupted'
  <1>0. TypeOK /\ HandlersOK /\ AccountsForAccepts
    BY DEF ExchangeIInv, ExchangeInv, AccountingInv
  <1>1. handler[l] # None /\ handler[l].pc = "report"
    BY DEF Runs
  <1>2. CASE NasStep \/ NetworkStep
    BY <1>2, Frames
  <1>3. ASSUME NEW e \in Exchanges, Deliver(e) PROVE handler'[l] = handler[l]
    BY <1>0, <1>1, <1>3, DeliverSteps DEF Starts
  <1>4. ASSUME NEW k \in Keys, QuietStep(k) \/ Respond(k) \/ SendAcct(k) \/ WriteAcct(k)
        PROVE  handler'[l] = handler[l]
    <2>1. \A j \in Keys \ {k} : handler'[j] = handler[j]
      BY <1>0, <1>4, HandlerSteps DEF QuietStep, Moves
    <2>2. ~Runs(k, "report")
      BY <1>4 DEF QuietStep, ProcessorAnswers, RespondFails, Return, Respond, SendAcct, WriteAcct, Runs
    <2> QED
      BY <2>1, <2>2
  <1>5. ASSUME NEW k \in Keys, Report(k), k # l PROVE handler'[l] = handler[l]
    BY <1>0, <1>5, HandlerSteps DEF Moves
  <1>6. CASE Restart
    BY <1>6 DEF Restart
  <1> QED
    BY <1>2, <1>3, <1>4, <1>5, <1>6, NextSplit

(* A grant that post-auth has told of, or will, stays one, unless the process *)
(* dies.                                                                     *)
LEMMA JoinsStays ==
    ASSUME ExchangeIInv, Next, NEW e, NEW c, Joins(e, c)
    PROVE  Joins(e, c)'
  <1>0. postAuth \subseteq postAuth' /\ interrupted \subseteq interrupted'
    BY HistoryGrows
  <1>1. CASE \E p \in postAuth : p.class = c /\ p.for = e /\ p.status = ""
    BY <1>0, <1>1 DEF Joins
  <1>2. CASE c \in interrupted
    BY <1>0, <1>2 DEF Joins
  <1>3. ASSUME NEW k \in Keys, Runs(k, "report"), handler[k].for = e, handler[k].class = c,
               Granted(handler[k].result)
        PROVE  Joins(e, c)'
    <2>1. CASE handler'[k] = handler[k]
      BY <1>3, <2>1 DEF Joins, Runs
    <2>2. CASE Report(k)
      <3> DEFINE p == [for |-> handler[k].for, class |-> handler[k].class,
                       status |-> Status(handler[k].result),
                       ip |-> handler[k].result.ip, pool |-> handler[k].result.pool]
      <3>1. Status(handler[k].result) = ""
        BY <1>3 DEF Status
      <3>2. p.for = e /\ p.class = c /\ p.status = ""
        BY <1>3, <3>1
      <3>3. p \in postAuth'
        BY <2>2 DEF Report
      <3> HIDE DEF p
      <3> QED
        BY <3>2, <3>3 DEF Joins
    <2>3. CASE c \in interrupted'
      BY <2>3 DEF Joins
    <2> QED
      BY <1>3, <2>1, <2>2, <2>3, ReportersStay
  <1> QED
    BY <1>1, <1>2, <1>3 DEF Joins

(* Accounting comes under the class of a grant post-auth tells of. *)
LEMMA AccountingJoinsKept == ExchangeIInv /\ Next => AccountingJoins'
  <1> SUFFICES ASSUME ExchangeIInv, Next PROVE AccountingJoins'
    OBVIOUS
  <1>0. TypeOK /\ HandlersOK /\ AccountingJoins /\ AccountsForAccepts
    BY DEF ExchangeIInv, ExchangeInv, AccountingInv
  <1>1. ASSUME NEW a \in sent', a.code = "Accept" PROVE Joins(a.to, a.class)'
    <2>1. CASE a \in sent
      BY <1>0, <1>1, <2>1, JoinsStays DEF AccountingJoins
    <2>2. ASSUME NEW k \in Keys, Respond(k), a = Answer(handler[k]) PROVE Joins(a.to, a.class)'
      <3>1. Moves(k, "report", handler[k].result) /\ handler[k] \in Handler
        BY <1>0, <2>2, HandlerSteps, AtRespond
      <3>2. Granted(handler[k].result) /\ a.to = handler[k].for /\ a.class = handler[k].class
        BY <1>1, <2>2, <3>1, AnswerTyped
      <3> QED
        BY <3>1, <3>2 DEF Moves, Joins, Runs
    <2>3. ASSUME NEW k \in Keys, WriteAcct(k) PROVE a # AcctResponse(handler[k])
      BY <1>1 DEF AcctResponse
    <2> QED
      BY <2>1, <2>2, <2>3, NewAnswers
  <1>2. ASSUME NEW r \in acct' PROVE Joins(SessionOf[r.for], r.class)'
    <2>1. CASE r \in acct
      BY <1>0, <2>1, JoinsStays DEF AccountingJoins
    <2>2. ASSUME NEW k \in Keys, SendAcct(k), r = [for |-> handler[k].for, class |-> handler[k].class]
          PROVE  Joins(SessionOf[r.for], r.class)'
      <3>1. PICK a \in sent : a.to = SessionOf[r.for] /\ a.code = "Accept" /\ a.class = r.class
        BY <1>0, <2>2, AtAcct DEF AccountsForAccepts, Accepted
      <3>2. Joins(SessionOf[r.for], r.class)
        BY <1>0, <3>1 DEF AccountingJoins
      <3> QED
        BY <3>2, JoinsStays
    <2> QED
      BY <2>1, <2>2, NewReports
  <1> QED
    BY <1>1, <1>2 DEF AccountingJoins

(* A NAS stops repeating an Accounting-Request once it was passed on. *)
LEMMA AcctNotLostKept == ExchangeIInv /\ Next => AcctNotLost'
  <1> SUFFICES ASSUME ExchangeIInv, Next, NEW e \in Accounting, nas'[e].pc = "accounted"
               PROVE  [for |-> e, class |-> nas'[e].class] \in acct'
    BY DEF AcctNotLost
  <1>0. TypeOK /\ AnswersOK /\ AccountsForAccepts /\ AcctNotLost /\ e \in Exchanges /\ acct \subseteq acct'
    BY HistoryGrows DEF ExchangeIInv, ExchangeInv, AccountingInv, Exchanges
  <1>1. CASE nas'[e] = nas[e]
    BY <1>0, <1>1 DEF AcctNotLost
  <1>2. ASSUME NEW f \in Exchanges, Begin(f) \/ GiveUp(f) PROVE nas'[e] = nas[e]
    BY <1>0, <1>2, NasSteps
  <1>3. ASSUME NEW a \in sent, ReceiveAnswer(a), nas'[e] # nas[e]
        PROVE  [for |-> e, class |-> nas'[e].class] \in acct'
    <2>1. a.to = e /\ a.code = "AccountingResponse" /\ nas'[e].class = nas[e].class
      BY <1>0, <1>3, NasSteps
    <2>2. [for |-> e, class |-> a.class] \in acct
      BY <1>0, <2>1 DEF AnswersOK, ForAuth
    <2>3. a.class = nas[e].class
      BY <1>0, <2>2 DEF AccountsForAccepts
    <2> QED
      BY <1>0, <2>1, <2>2, <2>3
  <1> QED
    BY <1>1, <1>2, <1>3, NextSplit, Frames
    DEF NasStep, Deliver, Respond, Report, SendAcct, WriteAcct, Restart

(* The class a NAS has is that of an accept it was sent. *)
LEMMA AccountsForAcceptsKept == ExchangeIInv /\ Next => AccountsForAccepts'
  <1> SUFFICES ASSUME ExchangeIInv, Next PROVE AccountsForAccepts'
    OBVIOUS
  <1>0. TypeOK /\ HandlersOK /\ AnswersOK /\ AccountsForAccepts
        /\ sent \subseteq sent' /\ Access \subseteq Exchanges /\ Accounting \subseteq Exchanges
    BY HistoryGrows DEF ExchangeIInv, ExchangeInv, AccountingInv, Exchanges
  <1>n. /\ \A e \in Exchanges : nas'[e] = nas[e] \/ nas'[e].pc # "new"
        /\ \A e \in Exchanges : nas[e].pc = "new" => nas'[e] = nas[e] \/ Begin(e)
        /\ \A e \in Exchanges : nas'[e].pc = "accepted" => nas'[e] = nas[e] \/ Accepted(e, nas'[e].class)
    <2>1. CASE UNCHANGED nas
      BY <2>1
    <2>2. ASSUME NEW e \in Exchanges, Begin(e)
          PROVE  nas'[e].pc = "waiting" /\ \A f \in Exchanges \ {e} : nas'[f] = nas[f]
      BY <1>0, <2>2, NasSteps
    <2>3. ASSUME NEW e \in Exchanges, GiveUp(e)
          PROVE  /\ nas[e].pc = "waiting" /\ nas'[e].pc = "gaveUp"
                 /\ \A f \in Exchanges \ {e} : nas'[f] = nas[f]
      BY <1>0, <2>3, NasSteps
    <2>4. ASSUME NEW a \in sent, ReceiveAnswer(a)
          PROVE  /\ nas[a.to].pc = "waiting" /\ nas'[a.to].pc \in {"accepted", "rejected", "accounted"}
                 /\ \A f \in Exchanges \ {a.to} : nas'[f] = nas[f]
                 /\ nas'[a.to].pc = "accepted" => Accepted(a.to, nas'[a.to].class)
      BY <1>0, <2>4, NasSteps DEF Accepted
    <2> QED
      BY <2>1, <2>2, <2>3, <2>4, NextSplit, Frames
      DEF NasStep, Deliver, Respond, Report, SendAcct, WriteAcct, Restart
  <1>s. \A e, c : Accepted(e, c) => \E a \in sent' : a.to = e /\ a.code = "Accept" /\ a.class = c
    BY <1>0 DEF Accepted
  <1>1. ASSUME NEW e \in Exchanges, copies'[e] > 0 PROVE nas'[e].pc # "new"
    <2>1. CASE copies'[e] = copies[e]
      BY <1>0, <1>1, <1>n, <2>1 DEF AccountsForAccepts
    <2>2. ASSUME NEW f \in Exchanges, Begin(f), copies'[e] # copies[e] PROVE nas'[e].pc # "new"
      <3>1. e = f
        BY <1>0, <2>2 DEF Begin, TypeOK
      <3> QED
        BY <1>0, <2>2, <3>1, NasSteps
    <2>3. ASSUME NEW f \in Exchanges, Resend(f), copies'[e] # copies[e] PROVE nas'[e].pc # "new"
      <3>1. e = f /\ nas' = nas /\ nas[f].pc = "waiting"
        BY <1>0, <2>3 DEF Resend, Waiting, TypeOK
      <3> QED
        BY <3>1
    <2>4. ASSUME NEW f \in Exchanges, LoseRequest(f) \/ Deliver(f), copies'[e] # copies[e]
          PROVE  nas'[e].pc # "new"
      <3>1. e = f /\ nas' = nas /\ copies[f] > 0
        BY <1>0, <2>4 DEF LoseRequest, Deliver, TypeOK
      <3> QED
        BY <1>0, <3>1 DEF AccountsForAccepts
    <2>5. Tick \/ Restart \/ (\E k \in Keys : HandlerStep(k)) => UNCHANGED copies
      BY DEF Tick, Restart, HandlerStep, ProcessorAnswers, Respond, RespondFails, Report, SendAcct,
             WriteAcct, Return, network
    <2>6. (\E f \in Exchanges : GiveUp(f)) \/ (\E a \in sent : ReceiveAnswer(a) \/ LoseAnswer(a))
             => UNCHANGED copies
      BY DEF GiveUp, ReceiveAnswer, LoseAnswer, network
    <2> QED
      BY <2>1, <2>2, <2>3, <2>4, <2>5, <2>6 DEF Next
  <1>2. ASSUME NEW e \in Access, nas'[e].pc = "accepted"
        PROVE  \E a \in sent' : a.to = e /\ a.code = "Accept" /\ a.class = nas'[e].class
    BY <1>0, <1>2, <1>n, <1>s DEF AccountsForAccepts
  <1>3. ASSUME NEW e \in Accounting, nas'[e].pc # "new"
        PROVE  \E a \in sent' : a.to = SessionOf[e] /\ a.code = "Accept" /\ a.class = nas'[e].class
    <2>1. CASE nas[e].pc # "new"
      BY <1>0, <1>s, <2>1, NasKeepsClass DEF AccountsForAccepts
    <2>2. CASE nas[e].pc = "new"
      <3>1. Begin(e)
        BY <1>0, <1>3, <1>n, <2>2
      <3>2. nas[SessionOf[e]].pc = "accepted" /\ nas'[e].class = nas[SessionOf[e]].class
        BY <1>0, <3>1, NasSteps
      <3> QED
        BY <1>0, <1>s, <3>2, SessionOfAssumption DEF AccountsForAccepts
    <2> QED
      BY <2>1, <2>2
  <1>4. ASSUME NEW r \in acct'
        PROVE  r.for \in Accounting /\ nas'[r.for].pc # "new" /\ r.class = nas'[r.for].class
    <2>1. CASE r \in acct
      BY <1>0, <2>1, NasKeepsClass DEF AccountsForAccepts
    <2>2. ASSUME NEW k \in Keys, SendAcct(k), r = [for |-> handler[k].for, class |-> handler[k].class]
          PROVE  r.for \in Accounting /\ nas'[r.for].pc # "new" /\ r.class = nas'[r.for].class
      BY <1>0, <2>2, AtAcct, NasKeepsClass
    <2> QED
      BY <2>1, <2>2, NewReports
  <1> QED
    BY <1>1, <1>2, <1>3, <1>4 DEF AccountsForAccepts, Accepted

-----------------------------------------------------------------------------
\* What an accept said is what a verdict or its report names.
Names(address, o) ==
    /\ address = "ip"      => o.ip = "valid"
    /\ address = "pool"    => o.ip = "" /\ o.pool = "valid"
    /\ address = "nothing" => o.ip = "malformed" \/ (o.ip = "" /\ o.pool = "tooLong")

(* The status of a report and the code of an answer follow the same verdict. *)
LEMMA StatusFacts ==
    ASSUME NEW o \in Answers \cup Errors
    PROVE  /\ Status(o) = "" <=> Granted(o)
           /\ Status(o) = "ERROR" <=> o.kind = "ERROR"
           /\ o.kind = "ERROR" => ~Granted(o)
           /\ Granted(o) => Names(Told(o), o)
  <1>1. CASE o \in Answers
    BY <1>1 DEF Answers, Status, Granted, Told, Names
  <1>2. CASE o \in Errors
    BY <1>2 DEF Errors, Status, Granted, Told, Names
  <1> QED
    BY <1>1, <1>2

(* The answers under a class are the same but for the one Respond adds. *)
LEMMA UnderSteps ==
    ASSUME ExchangeIInv, Next, NEW c
    PROVE  /\ Under(c) \subseteq Under(c)'
           /\ \A a \in Under(c)' \ Under(c) :
                \E k \in Keys : Respond(k) /\ handler[k].class = c /\ a = Answer(handler[k])
  <1>0. TypeOK /\ HandlersOK /\ sent \subseteq sent'
    BY HistoryGrows DEF ExchangeIInv, ExchangeInv
  <1>1. ASSUME NEW a \in sent' \ sent, a.class = c, ForAuth(a)
        PROVE  \E k \in Keys : Respond(k) /\ handler[k].class = c /\ a = Answer(handler[k])
    <2>1. ASSUME NEW k \in Keys, WriteAcct(k) PROVE a # AcctResponse(handler[k])
      BY <1>1 DEF AcctResponse, ForAuth
    <2>2. ASSUME NEW k \in Keys, Respond(k), a = Answer(handler[k]) PROVE handler[k].class = c
      BY <1>0, <1>1, <2>2, AtRespond, AnswerTyped
    <2> QED
      BY <1>1, <2>1, <2>2, NewAnswers
  <1> QED
    BY <1>0, <1>1 DEF Under, ForAuth

(* Who authenticates has done so before, under the same class, or begins, *)
(* under a new one.                                                       *)
LEMMA WhoAuthenticates ==
    ASSUME ExchangeIInv, Next, NEW k \in Keys, Authenticates(k)'
    PROVE  \/ Authenticates(k) /\ handler'[k].class = handler[k].class
           \/ /\ UNCHANGED <<sent, postAuth>>
              /\ NewClass /\ handler'[k].class = classID + 1 /\ handler'[k].pc = "processor"
              /\ \A l \in Keys \ {k} : handler'[l] = handler[l]
  <1>0. TypeOK /\ HandlersOK /\ AccountsForAccepts
    BY DEF ExchangeIInv, ExchangeInv, AccountingInv
  <1>1. handler'[k] # None /\ handler'[k].for \in Access
    BY DEF Authenticates, Busy
  <1>2. CASE handler'[k] = handler[k]
    BY <1>1, <1>2 DEF Authenticates, Busy
  <1>3. CASE NasStep \/ NetworkStep
    BY <1>2, <1>3, Frames
  <1>4. ASSUME NEW e \in Exchanges, Deliver(e), handler'[k] # handler[k]
        PROVE  /\ UNCHANGED <<sent, postAuth>>
               /\ NewClass /\ handler'[k].class = classID + 1 /\ handler'[k].pc = "processor"
               /\ \A l \in Keys \ {k} : handler'[l] = handler[l]
    <2>1. UNCHANGED <<sent, postAuth>>
      BY <1>4 DEF Deliver, reports
    <2>2. KeyOf[e] \in Keys
      BY <1>0, <1>4, DeliverSteps
    <2>3. ~Starts(KeyOf[e], e, "sendAcct", nas[e].class) \/ e \notin Accounting
      BY <1>1, <1>4, <2>2, ExchangesAssumption DEF Starts
    <2>4. NewClass /\ Starts(KeyOf[e], e, "processor", classID + 1)
      BY <1>0, <1>4, <2>3, DeliverSteps
    <2> QED
      BY <1>4, <2>1, <2>2, <2>4 DEF Starts
  <1>5. ASSUME NEW j \in Keys, QuietStep(j) \/ Respond(j) \/ Report(j) \/ SendAcct(j) \/ WriteAcct(j),
               handler'[k] # handler[k]
        PROVE  Authenticates(k) /\ handler'[k].class = handler[k].class
    <2>1. CASE Return(j)
      BY <1>0, <1>1, <1>5, <2>1, HandlerSteps
    <2>2. CASE ~Return(j)
      <3>1. \E pc, r : Moves(j, pc, r)
        BY <1>0, <1>5, <2>2, HandlerSteps DEF QuietStep
      <3> QED
        BY <1>1, <1>5, <3>1 DEF Moves, Authenticates, Busy
    <2> QED
      BY <2>1, <2>2
  <1>6. CASE Restart
    BY <1>1, <1>6 DEF Restart
  <1> QED
    BY <1>2, <1>3, <1>4, <1>5, <1>6, NextSplit

(* Two requests authenticate under two classes. *)
LEMMA ClassesApart ==
    ASSUME ExchangeIInv, Next, ~reissued', NEW k \in Keys, NEW l \in Keys,
           Authenticates(k)', Authenticates(l)', handler'[k].class = handler'[l].class
    PROVE  k = l
  <1>0. /\ HandlersOK /\ ~reissued
        /\ \A i, j \in Keys : Authenticates(i) /\ Authenticates(j) /\ handler[i].class = handler[j].class
                                => i = j
    BY HistoryGrows DEF ExchangeIInv, ExchangeInv, AnswersReported, OneRequestPerClass
  <1>1. NewClass => classID + 1 \notin issued
    BY <1>0 DEF NewClass
  <1>2. \A j \in Keys : Authenticates(j) => handler[j].class \in issued
    BY <1>0 DEF HandlersOK, Authenticates
  <1>3. ASSUME NEW i \in Keys, NEW j \in Keys, Authenticates(i)', Authenticates(j)',
               handler'[i].class = handler'[j].class, i # j,
               \A m \in Keys \ {i} : handler'[m] = handler[m],
               NewClass, handler'[i].class = classID + 1
        PROVE  FALSE
    <2>1. Authenticates(j) /\ handler[j].class = classID + 1
      BY <1>3 DEF Authenticates, Busy
    <2> QED
      BY <1>1, <1>2, <1>3, <2>1
  <1> QED
    BY <1>0, <1>3, WhoAuthenticates

(* A request under way has not been reported, and was answered as its handler *)
(* says, if at all.                                                          *)
LEMMA OneRequestKept == ExchangeIInv /\ Next => OneRequestPerClass'
  <1> SUFFICES ASSUME ExchangeIInv, Next, ~reissued' PROVE OneRequestPerClass'
    BY DEF OneRequestPerClass
  <1> DEFINE U(c)  == {a \in sent' : a.class = c /\ ForAuth(a)}
             OK(h) == /\ h.pc \in {"processor", "respond"} => U(h.class) = {}
                      /\ h.pc \in {"processor", "respond", "report"} => \A p \in postAuth' : p.class # h.class
                      /\ h.pc = "report" =>
                            /\ U(h.class) \subseteq {Answer(h)}
                            /\ h.result.kind = "ERROR" => U(h.class) = {}
                            /\ Granted(h.result) => Answer(h) \in U(h.class)
  <1>0. TypeOK /\ HandlersOK /\ AnswersOK /\ AccountsForAccepts /\ OneRequestPerClass /\ ~reissued
    BY HistoryGrows DEF ExchangeIInv, ExchangeInv, AnswersReported, AccountingInv
  <1>u. \A c : Under(c) \subseteq U(c)
               /\ \A a \in U(c) \ Under(c) :
                    \E k \in Keys : Respond(k) /\ handler[k].class = c /\ a = Answer(handler[k])
    BY UnderSteps DEF Under, ForAuth
  <1>a. \A k \in Keys : Authenticates(k) =>
            /\ UnderOwnClass(handler[k]) /\ handler[k].class \in issued
            /\ \A l \in Keys : Authenticates(l) /\ handler[l].class = handler[k].class => l = k
    BY <1>0 DEF OneRequestPerClass, HandlersOK, Authenticates
  <1>r. \A k \in Keys : Respond(k) \/ RespondFails(k) \/ Report(k) => Authenticates(k)
    BY <1>0, AtRespond DEF Authenticates
  <1>q. ASSUME NEW k \in Keys, Authenticates(k), ~Respond(k) PROVE U(handler[k].class) = Under(handler[k].class)
    BY <1>a, <1>r, <1>q, <1>u
  <1>p. ASSUME NEW k \in Keys, Authenticates(k), ~Report(k),
               handler[k].pc \in {"processor", "respond", "report"}
        PROVE  \A p \in postAuth' : p.class # handler[k].class
    <2>1. \A p \in postAuth : p.class # handler[k].class
      BY <1>a, <1>p DEF UnderOwnClass
    <2>2. ASSUME NEW j \in Keys, Report(j) PROVE handler[j].class # handler[k].class
      BY <1>a, <1>r, <1>p, <2>2
    <2> QED
      BY <2>1, <2>2, NewReports
  <1> HIDE DEF U
  <1>1. ASSUME NEW k \in Keys, Authenticates(k)', handler'[k] = handler[k] PROVE OK(handler'[k])
    <2>1. Authenticates(k)
      BY <1>1 DEF Authenticates, Busy
    <2>2. ~Respond(k) /\ ~Report(k)
      BY <1>0, <1>1, HandlerSteps DEF Moves
    <2>3. U(handler[k].class) = Under(handler[k].class)
      BY <1>q, <2>1, <2>2
    <2>4. UnderOwnClass(handler[k])
      BY <1>a, <2>1
    <2>5. handler[k].pc \in {"processor", "respond", "report"} => \A p \in postAuth' : p.class # handler[k].class
      BY <1>p, <2>1, <2>2
    <2> QED
      BY <1>1, <2>3, <2>4, <2>5 DEF UnderOwnClass
  <1>2. ASSUME NEW k \in Keys, Authenticates(k)', ~Authenticates(k) PROVE OK(handler'[k])
    <2>1. /\ UNCHANGED <<sent, postAuth>>
          /\ NewClass /\ handler'[k].class = classID + 1 /\ handler'[k].pc = "processor"
      BY <1>2, WhoAuthenticates
    <2>2. classID + 1 \notin issued
      BY <1>0, <2>1 DEF NewClass
    <2>3. U(classID + 1) = {} /\ \A p \in postAuth' : p.class # classID + 1
      BY <1>0, <2>1, <2>2 DEF AnswersOK, U
    <2> QED
      BY <2>1, <2>3
  <1>3. ASSUME NEW k \in Keys, NEW o \in Outcomes, ProcessorAnswers(k, o), Authenticates(k)
        PROVE  OK(handler'[k])
    <2> DEFINE pc == IF o.kind = "ERROR" THEN "report" ELSE "respond"
               h  == handler'[k]
    <2>1. handler[k].pc = "processor" /\ o \in Answers \cup Errors
          /\ h.pc = pc /\ h.class = handler[k].class /\ h.result = o
      BY <1>0, <1>3, HandlerSteps DEF Moves
    <2>2. ~Respond(k) /\ ~Report(k)
      BY <2>1 DEF Respond, Report, Runs
    <2>3. U(h.class) = {} /\ \A p \in postAuth' : p.class # h.class
      BY <1>3, <1>a, <1>q, <1>p, <2>1, <2>2 DEF UnderOwnClass
    <2>4. h.pc = "report" => ~Granted(h.result)
      BY <2>1, StatusFacts
    <2> HIDE DEF h
    <2> QED
      BY <2>3, <2>4 DEF h
  <1>4. ASSUME NEW k \in Keys, RespondFails(k) PROVE OK(handler'[k])
    <2> DEFINE r == IF Granted(handler[k].result) THEN [kind |-> "ERROR", ip |-> "", pool |-> ""]
                    ELSE handler[k].result
               h == handler'[k]
    <2>1. handler[k].pc = "respond" /\ h.pc = "report" /\ h.class = handler[k].class /\ h.result = r
          /\ Authenticates(k)
      BY <1>0, <1>4, <1>r, HandlerSteps DEF Moves
    <2>2. ~Respond(k) /\ ~Report(k)
      <3>1. UNCHANGED <<sent, lostAnswers>> /\ (Respond(k) => Answer(handler[k]) \in sent')
        BY <1>4 DEF RespondFails, network, Respond, Send
      <3>2. Answer(handler[k]) \notin Under(handler[k].class)
        BY <1>a, <2>1 DEF UnderOwnClass
      <3>3. Answer(handler[k]) \notin sent
        BY <1>0, <1>4, <3>2, AtRespond, AnswerTyped DEF Under
      <3>4. ~Report(k)
        BY <2>1 DEF Report, Runs
      <3> QED
        BY <3>1, <3>3, <3>4
    <2>3. U(h.class) = {} /\ \A p \in postAuth' : p.class # h.class
      BY <1>a, <1>q, <1>p, <2>1, <2>2 DEF UnderOwnClass
    <2>4. ~Granted(h.result)
      <3>1. ~Granted(r)
        BY DEF Granted
      <3> HIDE DEF r, h
      <3> QED
        BY <2>1, <3>1
    <2> HIDE DEF h
    <2> QED
      BY <2>3, <2>4 DEF h
  <1>5. ASSUME NEW k \in Keys, Respond(k) PROVE OK(handler'[k])
    <2> DEFINE h == handler'[k]
               b == Answer(handler[k])
    <2>1. /\ handler[k].pc = "respond" /\ h.pc = "report" /\ h.class = handler[k].class
          /\ h.result = handler[k].result /\ h.for = handler[k].for
          /\ Authenticates(k) /\ handler[k].result.kind # "ERROR"
      BY <1>0, <1>5, <1>r, AtRespond, HandlerSteps DEF Moves
    <2>2. Answer(h) = b
      BY <2>1 DEF Answer
    <2>3. b \in sent' /\ b.class = h.class /\ ForAuth(b)
      BY <1>0, <1>5, <2>1, AtRespond, AnswerTyped DEF Respond, Send
    <2>4. b \in U(h.class)
      BY <2>3 DEF U
    <2>5. U(h.class) \subseteq {b}
      <3>1. Under(h.class) = {}
        BY <1>a, <2>1 DEF UnderOwnClass
      <3>2. ASSUME NEW j \in Keys, Respond(j), handler[j].class = h.class PROVE j = k
        BY <1>a, <1>r, <2>1, <3>2
      <3> QED
        BY <1>u, <3>1, <3>2
    <2>6. ~Report(k)
      BY <2>1 DEF Report, Runs
    <2>7. \A p \in postAuth' : p.class # h.class
      BY <1>p, <2>1, <2>6
    <2> HIDE DEF h, b
    <2> QED
      BY <2>1, <2>2, <2>4, <2>5, <2>7 DEF h
  <1>6. ASSUME NEW k \in Keys, Report(k) PROVE OK(handler'[k])
    BY <1>0, <1>6, HandlerSteps DEF Moves
  <1>7. ASSUME NEW k \in Keys, Authenticates(k)' PROVE OK(handler'[k])
    <2>1. CASE NasStep \/ NetworkStep
      BY <1>1, <1>7, <2>1, Frames
    <2>2. ASSUME NEW e \in Exchanges, Deliver(e), handler'[k] # handler[k], Authenticates(k) PROVE FALSE
      BY <1>0, <2>2, DeliverSteps DEF Starts, Authenticates, Busy
    <2>3. ASSUME NEW j \in Keys, QuietStep(j) \/ Respond(j) \/ Report(j) \/ SendAcct(j) \/ WriteAcct(j),
                 handler'[k] # handler[k], Authenticates(k)
          PROVE  OK(handler'[k])
      <3>1. j = k
        BY <1>0, <2>3, HandlerSteps DEF QuietStep, Moves
      <3>2. ~Return(k)
        BY <1>0, <1>7, HandlerSteps DEF Authenticates, Busy
      <3>3. ~SendAcct(k) /\ ~WriteAcct(k)
        BY <1>0, <2>3, AtAcct, ExchangesAssumption DEF Authenticates
      <3> QED
        BY <1>3, <1>4, <1>5, <1>6, <2>3, <3>1, <3>2, <3>3 DEF QuietStep
    <2>4. ~Restart
      BY <1>7 DEF Restart, Authenticates, Busy
    <2> HIDE DEF OK
    <2> QED
      BY <1>1, <1>2, <1>7, <2>1, <2>2, <2>3, <2>4, NextSplit
  <1>8. \A k \in Keys : Authenticates(k)' => UnderOwnClass(handler[k])'
    BY <1>7 DEF UnderOwnClass, Under, ForAuth, U
  <1> QED
    BY <1>8, ClassesApart DEF OneRequestPerClass

-----------------------------------------------------------------------------
(* What Report tells of a request is what it was answered. *)
ReportOf(p, h) ==
    /\ p.for = h.for /\ p.class = h.class /\ p.status = Status(h.result)
    /\ p.ip = h.result.ip /\ p.pool = h.result.pool

LEMMA NewReport ==
    ASSUME ExchangeIInv, Next, NEW k \in Keys, Report(k)
    PROVE  /\ UNCHANGED sent
           /\ \E p \in postAuth' : ReportOf(p, handler[k])
           /\ \A p \in postAuth' \ postAuth : ReportOf(p, handler[k])
  <1> DEFINE h == handler[k]
             q == [for |-> h.for, class |-> h.class, status |-> Status(h.result),
                   ip |-> h.result.ip, pool |-> h.result.pool]
  <1>1. postAuth' = postAuth \cup {q} /\ UNCHANGED sent
    BY DEF Report
  <1>2. ReportOf(q, h)
    BY DEF ReportOf
  <1> HIDE DEF q, h
  <1> QED
    BY <1>1, <1>2 DEF h

(* What is to be reported of a request is what was answered to it. *)
LEMMA AtReport ==
    ASSUME ExchangeIInv, ~reissued, NEW k \in Keys, Runs(k, "report"), handler[k].for \in Access
    PROVE  /\ handler[k] \in Handler /\ handler[k].result \in Answers \cup Errors
           /\ Under(handler[k].class) \subseteq {Answer(handler[k])}
           /\ handler[k].result.kind = "ERROR" => Under(handler[k].class) = {}
           /\ Granted(handler[k].result) => Answer(handler[k]) \in Under(handler[k].class)
  <1>1. TypeOK /\ HandlersOK /\ OneRequestPerClass
    BY DEF ExchangeIInv, ExchangeInv, AnswersReported
  <1>2. Authenticates(k) /\ Busy(k) /\ handler[k].pc = "report"
    BY DEF Runs, Authenticates, Busy
  <1>3. handler[k] \in Handler /\ handler[k].result \in Answers \cup Errors
    BY <1>1, <1>2 DEF TypeOK, HandlersOK, Busy
  <1>4. UnderOwnClass(handler[k])
    BY <1>1, <1>2 DEF OneRequestPerClass
  <1> QED
    BY <1>2, <1>3, <1>4 DEF UnderOwnClass

(* An answer that went out before the step is reported, or still to be. *)
LEMMA AnswersStayReported ==
    ASSUME ExchangeIInv, Next, ~reissued, NEW a \in sent, ForAuth(a)
    PROVE  \/ \E p \in postAuth' : p.for = a.to /\ p.class = a.class
                  /\ (p.status = "" <=> a.code = "Accept") /\ p.status # "ERROR"
           \/ \E k \in Keys : handler'[k] # None /\ handler'[k].pc = "report" /\ Answer(handler'[k]) = a
           \/ a.class \in interrupted'
  <1>0. /\ TypeOK /\ AnswersOK /\ HandlersOK
        /\ Reported(a) \/ Reporting(a) \/ a.class \in interrupted
        /\ postAuth \subseteq postAuth' /\ interrupted \subseteq interrupted'
    BY HistoryGrows DEF ExchangeIInv, ExchangeInv, AnswersReported, ReportsFollowAnswers
  <1>1. CASE Reported(a)
    BY <1>0, <1>1 DEF Reported
  <1>2. CASE a.class \in interrupted
    BY <1>0, <1>2
  <1>3. ASSUME NEW k \in Keys, Runs(k, "report"), Answer(handler[k]) = a
        PROVE  \/ \E p \in postAuth' : p.for = a.to /\ p.class = a.class
                      /\ (p.status = "" <=> a.code = "Accept") /\ p.status # "ERROR"
               \/ handler'[k] # None /\ handler'[k].pc = "report" /\ Answer(handler'[k]) = a
               \/ a.class \in interrupted'
    <2>1. handler[k] \in Handler /\ a.to = handler[k].for /\ a.class = handler[k].class
      BY <1>0, <1>3, AnswerTyped DEF TypeOK, Runs
    <2>2. CASE handler'[k] = handler[k]
      BY <1>3, <2>2 DEF Runs
    <2>3. CASE handler[k].class \in interrupted'
      BY <2>1, <2>3
    <2>4. CASE Report(k)
      <3>1. handler[k].for \in Access
        BY <1>0, <2>4, AtRespond
      <3>2. a \in Under(handler[k].class)
        BY <2>1 DEF Under
      <3>3. handler[k].result \in Answers \cup Errors /\ handler[k].result.kind # "ERROR"
        BY <1>3, <3>1, <3>2, AtReport
      <3>4. /\ a.code = "Accept" <=> Granted(handler[k].result)
            /\ Status(handler[k].result) = "" <=> Granted(handler[k].result)
            /\ Status(handler[k].result) # "ERROR"
        BY <1>3, <2>1, <3>3, AnswerTyped, StatusFacts
      <3>5. PICK p \in postAuth' : ReportOf(p, handler[k])
        BY <2>4, NewReport
      <3> QED
        BY <2>1, <3>4, <3>5 DEF ReportOf
    <2> QED
      BY <1>3, <2>2, <2>3, <2>4, ReportersStay
  <1> QED
    BY <1>0, <1>1, <1>2, <1>3 DEF Reporting

(* Post-auth hears of answers that went out, as they went out. *)
LEMMA ReportsFollowAnswersKept == ExchangeIInv /\ Next => ReportsFollowAnswers'
  <1> SUFFICES ASSUME ExchangeIInv, Next, ~reissued' PROVE ReportsFollowAnswers'
    BY DEF ReportsFollowAnswers
  <1>0. /\ TypeOK /\ HandlersOK /\ AnswersOK /\ ReportsFollowAnswers /\ OneRequestPerClass
        /\ sent \subseteq sent' /\ ~reissued
    BY HistoryGrows DEF ExchangeIInv, ExchangeInv, AnswersReported
  <1>1. ASSUME NEW a \in sent', ForAuth(a)
        PROVE  (Reported(a) \/ Reporting(a) \/ a.class \in interrupted)'
    <2>1. CASE a \in sent
      <3>1. (Reported(a) \/ Reporting(a) \/ a.class \in interrupted)' <=>
              \/ \E p \in postAuth' : p.for = a.to /\ p.class = a.class
                     /\ (p.status = "" <=> a.code = "Accept") /\ p.status # "ERROR"
              \/ \E k \in Keys : handler'[k] # None /\ handler'[k].pc = "report" /\ Answer(handler'[k]) = a
              \/ a.class \in interrupted'
        BY DEF Reported, Reporting, Runs, Answer
      <3> QED
        BY <1>0, <1>1, <2>1, <3>1, AnswersStayReported
    <2>2. ASSUME NEW k \in Keys, Respond(k), a = Answer(handler[k]) PROVE Reporting(a)'
      <3>1. Moves(k, "report", handler[k].result)
        BY <1>0, <2>2, HandlerSteps
      <3>2. Runs(k, "report")' /\ Answer(handler'[k]) = a
        BY <2>2, <3>1 DEF Moves, Runs, Answer
      <3> QED
        BY <3>2 DEF Reporting, Answer
    <2>3. ASSUME NEW k \in Keys, WriteAcct(k) PROVE a # AcctResponse(handler[k])
      BY <1>1 DEF AcctResponse, ForAuth
    <2> QED
      BY <1>1, <2>1, <2>2, <2>3, NewAnswers
  <1> DEFINE OK(p) ==
               /\ p.status = "" => \E a \in Under(p.class)' : a.to = p.for /\ a.code = "Accept"
               /\ p.status = "ERROR" => Under(p.class)' = {}
  <1>2. ASSUME NEW p \in postAuth' PROVE OK(p)
    <2>1. CASE p \in postAuth
      <3>1. /\ p.status = "" => \E a \in Under(p.class) : a.to = p.for /\ a.code = "Accept"
            /\ p.status = "ERROR" => Under(p.class) = {}
        BY <1>0, <2>1 DEF ReportsFollowAnswers
      <3>2. ASSUME NEW k \in Keys, Respond(k) PROVE handler[k].class # p.class
        BY <1>0, <2>1, <3>2, AtRespond DEF OneRequestPerClass, UnderOwnClass, Authenticates
      <3>3. Under(p.class)' = Under(p.class)
        BY <3>2, UnderSteps
      <3> QED
        BY <3>1, <3>3
    <2>2. CASE p \notin postAuth
      <3>1. PICK k \in Keys : Report(k)
        BY <2>2, NewReports
      <3> DEFINE h == handler[k]
      <3>2. ReportOf(p, h) /\ UNCHANGED sent
        BY <2>2, <3>1, NewReport
      <3>3. h.for \in Access /\ Runs(k, "report")
        BY <1>0, <3>1, AtRespond DEF Report
      <3>4. /\ h \in Handler /\ h.result \in Answers \cup Errors
            /\ h.result.kind = "ERROR" => Under(h.class) = {}
            /\ Granted(h.result) => Answer(h) \in Under(h.class)
        BY <1>0, <3>3, AtReport
      <3>5. Under(p.class)' = Under(p.class)
        BY <3>2 DEF Under, ForAuth
      <3>6. p.status = "" <=> Granted(h.result)
        BY <3>2, <3>4, StatusFacts DEF ReportOf
      <3>7. p.status = "ERROR" <=> h.result.kind = "ERROR"
        BY <3>2, <3>4, StatusFacts DEF ReportOf
      <3>8. Granted(h.result) => Answer(h).to = p.for /\ Answer(h).code = "Accept"
        BY <3>2, <3>4, AnswerTyped DEF ReportOf
      <3> HIDE DEF h
      <3> QED
        BY <3>2, <3>4, <3>5, <3>6, <3>7, <3>8 DEF ReportOf
    <2> QED
      BY <2>1, <2>2
  <1>3. \A p \in postAuth' :
          /\ p.status = "" => \E a \in Under(p.class)' : a.to = p.for /\ a.code = "Accept"
          /\ p.status = "ERROR" => Under(p.class)' = {}
    BY <1>2
  <1> QED
    BY <1>1, <1>3 DEF ReportsFollowAnswers, Under, ForAuth, Reported, Reporting, Answer, Runs

(* The address in an accept is the one its report names. *)
LEMMA AddressAsReportedKept == ExchangeIInv /\ Next => AddressAsReported'
  <1> SUFFICES ASSUME ExchangeIInv, Next, ~reissued', NEW a \in sent', NEW p \in postAuth',
                      a.class = p.class, a.code = "Accept"
               PROVE  Names(a.address, p)
    BY DEF AddressAsReported, Names
  <1>0. /\ TypeOK /\ HandlersOK /\ AnswersOK /\ AddressAsReported /\ OneRequestPerClass
        /\ ~reissued /\ ForAuth(a)
    BY HistoryGrows DEF ExchangeIInv, ExchangeInv, AnswersReported, ForAuth
  <1>1. CASE a \in sent /\ p \in postAuth
    BY <1>0, <1>1 DEF AddressAsReported, Names
  <1>2. ASSUME NEW k \in Keys, Report(k), ReportOf(p, handler[k])
        PROVE  Names(a.address, p)
    <2> DEFINE h == handler[k]
    <2>1. a \in Under(h.class)
      BY <1>0, <1>2, NewReport DEF Under, ReportOf
    <2>2. h.for \in Access /\ Runs(k, "report")
      BY <1>0, <1>2, AtRespond DEF Report
    <2>3. h \in Handler /\ h.result \in Answers \cup Errors /\ a = Answer(h)
      BY <1>0, <2>1, <2>2, AtReport
    <2>4. Granted(h.result) /\ a.address = Told(h.result)
      BY <2>3, AnswerTyped
    <2> HIDE DEF h
    <2>5. Names(a.address, h.result)
      BY <2>3, <2>4, StatusFacts
    <2>6. p.ip = h.result.ip /\ p.pool = h.result.pool
      BY <1>2 DEF ReportOf, h
    <2> QED
      BY <2>5, <2>6 DEF Names
  <1>3. ASSUME NEW k \in Keys, Respond(k), a = Answer(handler[k]), p \in postAuth PROVE FALSE
    <2>1. handler[k].class = a.class /\ Authenticates(k) /\ handler[k].pc = "respond"
      BY <1>0, <1>3, AtRespond, AnswerTyped DEF Authenticates
    <2>2. UnderOwnClass(handler[k])
      BY <1>0, <2>1 DEF OneRequestPerClass
    <2> QED
      BY <1>3, <2>1, <2>2 DEF UnderOwnClass
  <1>4. CASE p \notin postAuth
    BY <1>2, <1>4, NewReports, NewReport
  <1>5. CASE a \notin sent /\ p \in postAuth
    <2>1. ASSUME NEW k \in Keys, WriteAcct(k) PROVE a # AcctResponse(handler[k])
      BY <1>0 DEF AcctResponse, ForAuth
    <2> QED
      BY <1>3, <1>5, <2>1, NewAnswers
  <1> QED
    BY <1>1, <1>4, <1>5

-----------------------------------------------------------------------------
LEMMA StutterKept == ExchangeIInv /\ UNCHANGED vars => ExchangeIInv'
  <1> SUFFICES ASSUME ExchangeIInv, UNCHANGED vars PROVE ExchangeIInv'
    OBVIOUS
  <1> USE DEF vars, network, reports, classes, crashes
  <1>1. ExchangeInv'
    BY DEF ExchangeIInv, ExchangeInv, TypeOK, ClassesDiffer, HandlersOK, Busy, AnswersOK, ForAuth
  <1>2. AnswersReported'
    BY DEF ExchangeIInv, AnswersReported, ReportsFollowAnswers, AddressAsReported, OneRequestPerClass,
           UnderOwnClass, Reported, Reporting, Runs, Under, ForAuth, Authenticates, Busy, Answer
  <1>3. AccountingInv'
    BY DEF ExchangeIInv, AccountingInv, AccountingJoins, Joins, Runs, AcctNotLost, AccountsForAccepts,
           Accepted
  <1> QED
    BY <1>1, <1>2, <1>3 DEF ExchangeIInv

LEMMA InitKeeps == Init => ExchangeIInv
  <1> SUFFICES ASSUME Init PROVE ExchangeIInv
    OBVIOUS
  <1> USE DEF Init
  <1>1. TypeOK
    <2>1. nas \in [Exchanges -> NasState]
      BY DEF NasState
    <2>2. /\ copies \in [Exchanges -> Nat] /\ resends \in [Exchanges -> 0..Resends]
          /\ \A e \in Exchanges : copies[e] <= resends[e] + 1
          /\ faults \in 0..MaxFaults
      BY BoundsAssumption
    <2>3. handler \in [Keys -> Handler \cup {None}]
      OBVIOUS
    <2>4. {reissued, overrun} \subseteq BOOLEAN
      BY Zenon
    <2>5. {classID, now} \subseteq Nat /\ sent \subseteq Packet /\ lostAnswers \subseteq sent
          /\ issued \subseteq Classes /\ interrupted \subseteq Classes
      OBVIOUS
    <2> HIDE DEF Init
    <2> QED
      BY <2>1, <2>2, <2>3, <2>4, <2>5 DEF TypeOK
  <1>2. ClassesDiffer /\ HandlersOK /\ AnswersOK
    BY DEF ClassesDiffer, HandlersOK, Busy, AnswersOK
  <1>3. ReportsFollowAnswers /\ AddressAsReported
    BY DEF ReportsFollowAnswers, AddressAsReported
  <1>4. OneRequestPerClass
    BY DEF OneRequestPerClass, Authenticates, Busy
  <1>5. AccountingJoins /\ AcctNotLost
    BY DEF AccountingJoins, AcctNotLost, Exchanges
  <1>6. AccountsForAccepts
    BY DEF AccountsForAccepts, Exchanges
  <1> QED
    BY <1>1, <1>2, <1>3, <1>4, <1>5, <1>6 DEF ExchangeIInv, ExchangeInv, AnswersReported, AccountingInv

LEMMA StepKeeps == ExchangeIInv /\ Next => ExchangeIInv'
  <1> SUFFICES ASSUME ExchangeIInv, Next PROVE ExchangeIInv'
    OBVIOUS
  <1>1. ExchangeInv'
    BY TypesKept, ClassesDifferKept, HandlersOKKept, AnswersOKKept DEF ExchangeInv
  <1>2. AnswersReported'
    BY ReportsFollowAnswersKept, AddressAsReportedKept, OneRequestKept DEF AnswersReported
  <1>3. AccountingInv'
    BY AccountingJoinsKept, AcctNotLostKept, AccountsForAcceptsKept DEF AccountingInv
  <1> QED
    BY <1>1, <1>2, <1>3 DEF ExchangeIInv

LEMMA ExchangeInductive == Spec => []ExchangeIInv
  <1>1. ExchangeIInv /\ [Next]_vars => ExchangeIInv'
    BY StepKeeps, StutterKept
  <1> QED
    BY <1>1, InitKeeps, PTL DEF Spec

(* Whatever is lost, repeated or cut off, a handler works under a class that  *)
(* was handed out to it, answers go to the exchange that asked, and no class  *)
(* is handed out twice unless a restart found more classes than seconds       *)
(* (radius.go:36, handler.go:70).                                             *)
THEOREM ExchangeInvariant == Spec => []ExchangeInv
  BY ExchangeInductive, PTL DEF ExchangeIInv

(* Post-auth tells of the answers that went out, each under its class, with   *)
(* the verdict and the address the NAS was sent; of a grant only when one     *)
(* was, of an ERROR only when nothing was (handler.go:82-126).                *)
THEOREM PostAuthTellsTheTruth == Spec => []AnswersReported
  BY ExchangeInductive, PTL DEF ExchangeIInv

(* Accounting comes under the class of an accept the NAS was sent, and a NAS  *)
(* that is answered has been accounted for (handler.go:38-61).                *)
THEOREM AccountingAttributed == Spec => []AccountingInv
  BY ExchangeInductive, PTL DEF ExchangeIInv
=============================================================================
