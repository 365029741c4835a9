------------------------- MODULE PacketServerProofs -------------------------
(***************************************************************************)
(* Proofs about the UDP server: one handler per key, an exact count of the *)
(* goroutines, and a Shutdown that returns nil only when nothing runs, for *)
(* any number of readers, keys and datagrams.                              *)
(***************************************************************************)
EXTENDS PacketServer, FiniteSetTheorems, TLAPS

(* At any moment finitely many datagrams are being worked on, also when      *)
(* infinitely many may arrive.                                               *)
ServerIInv == ServerInv /\ IsFiniteSet(ActiveDatagrams)

-----------------------------------------------------------------------------
(* Every step counts one goroutine in or out, or none. *)
LEMMA StepCounts == Next => activeAdd \/ activeDone \/ uncounted
  BY DEF Next, ServeStep, Register, CountServe, ServeFails, Unregister, UncountServe, CloseSocket,
         ReaderStep, StartReader, Dispatch, ReadFails, ReaderEnds, Read, Arrive,
         GoroutineStep, Claim, Handle, Release, End,
         RequestShutdown, ShutdownStep, StopListeners, ShutdownReturns, ContextExpires

LEMMA CounterTypes ==
    ASSUME TypeOK, Next
    PROVE  {lastActive', panicked'} \subseteq BOOLEAN /\ activeCount' \in Int
  <1>1. activeCount' \in Int
    BY StepCounts DEF TypeOK, activeAdd, activeDone, uncounted
  <1>2. lastActive' \in BOOLEAN /\ panicked' \in BOOLEAN
    BY StepCounts, Zenon DEF TypeOK, activeAdd, activeDone, uncounted
  <1> QED
    BY <1>1, <1>2

LEMMA TypesKept == TypeOK /\ Next => TypeOK'
  <1> SUFFICES ASSUME TypeOK, Next PROVE TypeOK'
    OBVIOUS
  <1>0. {lastActive', panicked'} \subseteq BOOLEAN /\ activeCount' \in Int
    BY CounterTypes
  <1> USE <1>0 DEF TypeOK, lifecycle, traffic, Errors
  <1>1. CASE Register
    BY <1>1 DEF Register
  <1>2. CASE CountServe
    BY <1>2 DEF CountServe
  <1>3. CASE ServeFails
    BY <1>3 DEF ServeFails
  <1>4. CASE Unregister
    BY <1>4 DEF Unregister
  <1>5. CASE UncountServe
    BY <1>5 DEF UncountServe
  <1>6. CASE CloseSocket
    BY <1>6 DEF CloseSocket
  <1>7. ASSUME NEW r \in Readers, StartReader(r) PROVE TypeOK'
    BY <1>7 DEF StartReader
  <1>8. ASSUME NEW r \in Readers, Dispatch(r) PROVE TypeOK'
    BY <1>8 DEF Dispatch
  <1>9. ASSUME NEW r \in Readers, ReadFails(r) PROVE TypeOK'
    BY <1>9 DEF ReadFails
  <1>10. ASSUME NEW r \in Readers, ReaderEnds(r) PROVE TypeOK'
    BY <1>10 DEF ReaderEnds
  <1>11. ASSUME NEW r \in Readers, NEW d \in Datagrams, Read(r, d) PROVE TypeOK'
    BY <1>11 DEF Read
  <1>12. ASSUME NEW d \in Datagrams, Arrive(d) PROVE TypeOK'
    BY <1>12 DEF Arrive
  <1>13. ASSUME NEW d \in Datagrams, Claim(d) PROVE TypeOK'
    BY <1>13, KeyOfAssumption DEF Claim
  <1>14. ASSUME NEW d \in Datagrams, Handle(d) PROVE TypeOK'
    BY <1>14 DEF Handle
  <1>15. ASSUME NEW d \in Datagrams, Release(d) PROVE TypeOK'
    BY <1>15, KeyOfAssumption DEF Release
  <1>16. ASSUME NEW d \in Datagrams, End(d) PROVE TypeOK'
    BY <1>16 DEF End
  <1>17. CASE RequestShutdown
    BY <1>17 DEF RequestShutdown
  <1>18. CASE StopListeners
    BY <1>18 DEF StopListeners
  <1>19. CASE ShutdownReturns
    BY <1>19 DEF ShutdownReturns
  <1>20. CASE ContextExpires
    BY <1>20 DEF ContextExpires
  <1> QED
    BY <1>1, <1>2, <1>3, <1>4, <1>5, <1>6, <1>7, <1>8, <1>9, <1>10, <1>11, <1>12, <1>13, <1>14, <1>15, <1>16, <1>17, <1>18, <1>19, <1>20
    DEF Next, ServeStep, ReaderStep, GoroutineStep, ShutdownStep

-----------------------------------------------------------------------------
(* A key is given out when it is free, and taken back by its owner. *)
LEMMA OneHandlerKept == ServerInv /\ Next => OneHandlerPerKey'
  <1> SUFFICES ASSUME TypeOK, OneHandlerPerKey, OneReaderHolds, Next
               PROVE  OneHandlerPerKey'
    BY DEF ServerInv
  <1>1. ASSUME UNCHANGED <<datagram, requests>> PROVE OneHandlerPerKey'
    BY <1>1 DEF OneHandlerPerKey, Owners
  <1>2. ASSUME UNCHANGED requests, Owners' = Owners PROVE OneHandlerPerKey'
    BY <1>2 DEF OneHandlerPerKey
  <1>3. ASSUME NEW d \in Datagrams, Arrive(d) \/ Handle(d) \/ End(d) PROVE OneHandlerPerKey'
    <2>1. Owners' = Owners
      BY <1>3 DEF Arrive, Handle, End, Owners, TypeOK
    <2> QED
      BY <1>2, <1>3, <2>1 DEF Arrive, Handle, End
  <1>4. ASSUME NEW r \in Readers, Dispatch(r) PROVE OneHandlerPerKey'
    <2>1. datagram[reader[r]] = "read"
      BY <1>4 DEF Dispatch, OneReaderHolds
    <2>2. Owners' = Owners
      BY <1>4, <2>1 DEF Dispatch, Owners, TypeOK
    <2> QED
      BY <1>2, <1>4, <2>2 DEF Dispatch
  <1>5. ASSUME NEW r \in Readers, NEW d \in Datagrams, Read(r, d) PROVE OneHandlerPerKey'
    <2>1. Owners' = Owners
      BY <1>5 DEF Read, Owners, TypeOK
    <2> QED
      BY <1>2, <1>5, <2>1 DEF Read
  <1>6. ASSUME NEW d \in Datagrams, Claim(d) PROVE OneHandlerPerKey'
    <2>1. CASE d \in Authentic /\ KeyOf[d] \notin requests
      <3>1. Owners' = Owners \cup {d} /\ requests' = requests \cup {KeyOf[d]}
        BY <1>6, <2>1 DEF Claim, Owners, TypeOK
      <3>2. \A e \in Owners : KeyOf[e] # KeyOf[d]
        BY <2>1 DEF OneHandlerPerKey
      <3> QED
        BY <3>1, <3>2 DEF OneHandlerPerKey
    <2>2. CASE ~(d \in Authentic /\ KeyOf[d] \notin requests)
      <3>1. Owners' = Owners /\ UNCHANGED requests
        BY <1>6, <2>2 DEF Claim, Owners, TypeOK
      <3> QED
        BY <1>2, <3>1
    <2> QED
      BY <2>1, <2>2
  <1>7. ASSUME NEW d \in Datagrams, Release(d) PROVE OneHandlerPerKey'
    <2>1. Owners' = Owners \ {d} /\ d \in Owners /\ requests' = requests \ {KeyOf[d]}
      BY <1>7 DEF Release, Owners, TypeOK
    <2> QED
      BY <2>1 DEF OneHandlerPerKey
  <1>8. ASSUME NEW r \in Readers, StartReader(r) \/ ReadFails(r) \/ ReaderEnds(r)
        PROVE  UNCHANGED <<datagram, requests>>
    BY <1>8 DEF StartReader, ReadFails, ReaderEnds, traffic
  <1>9. ASSUME ServeStep \/ ShutdownStep \/ RequestShutdown \/ ContextExpires
        PROVE  UNCHANGED <<datagram, requests>>
    BY <1>9 DEF ServeStep, Register, CountServe, ServeFails, Unregister, UncountServe, CloseSocket,
                ShutdownStep, StopListeners, ShutdownReturns, RequestShutdown, ContextExpires, traffic
  <1> QED
    BY <1>1, <1>3, <1>4, <1>5, <1>6, <1>7, <1>8, <1>9 DEF Next, ReaderStep, GoroutineStep

(* A datagram goes from the socket to one reader, and from it to its goroutine. *)
LEMMA OneReaderKept == ServerInv /\ Next => OneReaderHolds'
  <1> SUFFICES ASSUME TypeOK, OneReaderHolds, Next PROVE OneReaderHolds'
    BY DEF ServerInv
  <1> USE DatagramsAssumption DEF TypeOK
  <1>1. ASSUME UNCHANGED <<datagram, reader>> PROVE OneReaderHolds'
    BY <1>1 DEF OneReaderHolds
  <1>2. ASSUME NEW d \in Datagrams, Arrive(d) \/ Claim(d) \/ Handle(d) \/ Release(d) \/ End(d)
        PROVE  OneReaderHolds'
    <2>1. UNCHANGED reader /\ \A e \in Datagrams : datagram'[e] = "read" <=> datagram[e] = "read"
      BY <1>2 DEF Arrive, Claim, Handle, Release, End
    <2> QED
      BY <2>1 DEF OneReaderHolds
  <1>3. ASSUME NEW r \in Readers, NEW d \in Datagrams, Read(r, d) PROVE OneReaderHolds'
    BY <1>3 DEF Read, OneReaderHolds
  <1>4. ASSUME NEW r \in Readers, Dispatch(r) PROVE OneReaderHolds'
    BY <1>4 DEF Dispatch, OneReaderHolds
  <1>5. ASSUME NEW r \in Readers, StartReader(r) \/ ReadFails(r) \/ ReaderEnds(r) PROVE OneReaderHolds'
    <2>1. /\ UNCHANGED datagram
          /\ reader[r] \notin Datagrams /\ reader'[r] \notin Datagrams
          /\ \A q \in Readers : q # r => reader'[q] = reader[q]
      BY <1>5 DEF StartReader, ReadFails, ReaderEnds, traffic
    <2> QED
      BY <2>1 DEF OneReaderHolds
  <1>6. ASSUME ServeStep \/ ShutdownStep \/ RequestShutdown \/ ContextExpires
        PROVE  UNCHANGED <<datagram, reader>>
    BY <1>6 DEF ServeStep, Register, CountServe, ServeFails, Unregister, UncountServe, CloseSocket,
                ShutdownStep, StopListeners, ShutdownReturns, RequestShutdown, ContextExpires, traffic
  <1> QED
    BY <1>1, <1>2, <1>3, <1>4, <1>5, <1>6 DEF Next, ReaderStep, GoroutineStep

(* Serve registers, counts itself and leaves; Shutdown closes a registered   *)
(* socket, and a Serve that comes after it leaves at once.                   *)
LEMMA SocketKept == ServerInv /\ Next => SocketFollowsShutdown'
  <1> SUFFICES ASSUME TypeOK, SocketFollowsShutdown, Next PROVE SocketFollowsShutdown'
    BY DEF ServerInv
  <1> USE DEF SocketFollowsShutdown, Stopping, muFree
  <1>1. ASSUME UNCHANGED lifecycle PROVE SocketFollowsShutdown'
    BY <1>1 DEF lifecycle
  <1>2. CASE Register
    BY <1>2 DEF Register
  <1>3. CASE CountServe
    BY <1>3 DEF CountServe
  <1>4. CASE ServeFails
    BY <1>4 DEF ServeFails
  <1>5. CASE Unregister
    BY <1>5 DEF Unregister
  <1>6. CASE UncountServe
    BY <1>6 DEF UncountServe
  <1>7. CASE CloseSocket
    BY <1>7 DEF CloseSocket
  <1>8. CASE RequestShutdown
    BY <1>8 DEF RequestShutdown
  <1>9. CASE StopListeners
    BY <1>9 DEF StopListeners, TypeOK
  <1>10. CASE ShutdownReturns
    BY <1>10 DEF ShutdownReturns
  <1>11. CASE ContextExpires
    BY <1>11 DEF ContextExpires
  <1>12. ASSUME NEW r \in Readers, ReaderStep(r) PROVE UNCHANGED lifecycle
    BY <1>12 DEF ReaderStep, StartReader, Dispatch, ReadFails, ReaderEnds, Read
  <1>13. ASSUME NEW d \in Datagrams, Arrive(d) \/ GoroutineStep(d) PROVE UNCHANGED lifecycle
    BY <1>13 DEF Arrive, GoroutineStep, Claim, Handle, Release, End
  <1> QED
    BY <1>1, <1>2, <1>3, <1>4, <1>5, <1>6, <1>7, <1>8, <1>9, <1>10, <1>11, <1>12, <1>13
    DEF Next, ServeStep, ShutdownStep

-----------------------------------------------------------------------------
(* Without ManyReaders there is a single reader. *)
LEMMA SingleReader == ~ManyReaders => \A r, q \in Readers : r = q
  <1> SUFFICES ASSUME ~ManyReaders, NEW r \in Readers, NEW q \in Readers PROVE r = q
    OBVIOUS
  <1>1. IsFiniteSet(Readers) /\ Cardinality(Readers) \in Nat
    BY ReadersAssumption, FS_CardinalityType
  <1>2. Cardinality(Readers) # 0
    BY <1>1, FS_EmptySet
  <1>3. Cardinality(Readers) = 1
    BY <1>1, <1>2 DEF ManyReaders
  <1> QED
    BY <1>1, <1>3, FS_Singleton

(* Readers start after Serve is counted, and Serve fails after a reader has. *)
LEMMA ReadersKept == ServerInv /\ Next => ReadersOfServe'
  <1> SUFFICES ASSUME TypeOK, ReadersOfServe, Next PROVE ReadersOfServe'
    BY DEF ServerInv
  <1> USE DatagramsAssumption, SingleReader DEF ReadersOfServe, TypeOK
  <1> ManyReaders' = ManyReaders
    BY DEF ManyReaders
  <1>1. ASSUME UNCHANGED <<serve, reader, firstErr>> PROVE ReadersOfServe'
    BY <1>1
  <1>2. CASE Register
    BY <1>2 DEF Register
  <1>3. CASE CountServe
    BY <1>3 DEF CountServe
  <1>4. CASE ServeFails
    BY <1>4 DEF ServeFails
  <1>5. CASE Unregister
    BY <1>5 DEF Unregister
  <1>6. CASE UncountServe
    BY <1>6 DEF UncountServe
  <1>7. CASE CloseSocket
    BY <1>7 DEF CloseSocket
  <1>8. ASSUME NEW r \in Readers, StartReader(r) PROVE ReadersOfServe'
    BY <1>8 DEF StartReader, lifecycle
  <1>9. ASSUME NEW r \in Readers, Dispatch(r) PROVE ReadersOfServe'
    BY <1>9 DEF Dispatch, lifecycle
  <1>10. ASSUME NEW r \in Readers, ReadFails(r) PROVE ReadersOfServe'
    BY <1>10 DEF ReadFails, lifecycle
  <1>11. ASSUME NEW r \in Readers, ReaderEnds(r) PROVE ReadersOfServe'
    BY <1>11 DEF ReaderEnds, lifecycle
  <1>12. ASSUME NEW r \in Readers, NEW d \in Datagrams, Read(r, d) PROVE ReadersOfServe'
    BY <1>12 DEF Read, lifecycle
  <1>13. ASSUME NEW d \in Datagrams, Arrive(d) \/ GoroutineStep(d)
         PROVE  UNCHANGED <<serve, reader, firstErr>>
    BY <1>13 DEF Arrive, GoroutineStep, Claim, Handle, Release, End, lifecycle
  <1>14. ASSUME ShutdownStep \/ RequestShutdown \/ ContextExpires
         PROVE  UNCHANGED <<serve, reader, firstErr>>
    BY <1>14 DEF ShutdownStep, StopListeners, ShutdownReturns, RequestShutdown, ContextExpires
  <1> QED
    BY <1>1, <1>2, <1>3, <1>4, <1>5, <1>6, <1>7, <1>8, <1>9, <1>10, <1>11, <1>12, <1>13, <1>14
    DEF Next, ServeStep, ReaderStep

-----------------------------------------------------------------------------
(* The three summands of Counted. *)
ServeCounts  == IF serve \in {"counted", "failed", "unregistered"} THEN 1 ELSE 0
ReaderCounts == IF ManyReaders THEN Cardinality(ActiveReaders) ELSE 0
StopCounts   == IF Stopping THEN 1 ELSE 0

LEMMA CountsAreNumbers ==
    ASSUME IsFiniteSet(ActiveDatagrams)
    PROVE  /\ IsFiniteSet(ActiveReaders)
           /\ Cardinality(ActiveReaders) \in Nat
           /\ Cardinality(ActiveDatagrams) \in Nat
           /\ ReaderCounts \in Nat
           /\ ServeCounts \in {0, 1}
           /\ StopCounts \in {0, 1}
  <1>1. ActiveReaders \subseteq Readers
    BY DEF ActiveReaders
  <1>2. IsFiniteSet(ActiveReaders)
    BY <1>1, ReadersAssumption, FS_Subset
  <1>3. Cardinality(ActiveReaders) \in Nat /\ Cardinality(ActiveDatagrams) \in Nat
    BY <1>2, FS_CardinalityType
  <1> QED
    BY <1>2, <1>3 DEF ReaderCounts, ServeCounts, StopCounts

LEMMA CountIsSum ==
    /\ CountIsExact <=> activeCount =
           (ServeCounts + ReaderCounts + Cardinality(ActiveDatagrams)) - StopCounts
    /\ CountIsExact' <=> activeCount' =
           (ServeCounts' + ReaderCounts' + Cardinality(ActiveDatagrams')) - StopCounts'
  BY DEF CountIsExact, Counted, ServeCounts, ReaderCounts, StopCounts

(* A step that counts nothing in or out leaves the number of goroutines as it is. *)
LEMMA UncountedStep ==
    ASSUME CountIsExact, IsFiniteSet(ActiveDatagrams), uncounted,
           ServeCounts' = ServeCounts, StopCounts' = StopCounts,
           ActiveReaders' = ActiveReaders, ActiveDatagrams' = ActiveDatagrams
    PROVE  CountIsExact' /\ IsFiniteSet(ActiveDatagrams)'
  <1>1. ReaderCounts' = ReaderCounts
    BY DEF ReaderCounts, ManyReaders
  <1>2. activeCount' = activeCount
    BY DEF uncounted
  <1> QED
    BY <1>1, <1>2, CountIsSum

(* A goroutine more for Serve's own, or one less, or Shutdown's place taken. *)
LEMMA ServeStepCounted ==
    ASSUME CountIsExact, IsFiniteSet(ActiveDatagrams),
           activeCount \in Int,
           ActiveReaders' = ActiveReaders, ActiveDatagrams' = ActiveDatagrams,
           \/ activeAdd  /\ ServeCounts' = ServeCounts + 1 /\ StopCounts' = StopCounts
           \/ activeDone /\ ServeCounts' = ServeCounts - 1 /\ StopCounts' = StopCounts
           \/ activeDone /\ ServeCounts' = ServeCounts /\ StopCounts' = StopCounts + 1
    PROVE  CountIsExact' /\ IsFiniteSet(ActiveDatagrams)'
  <1>1. ReaderCounts' = ReaderCounts
    BY DEF ReaderCounts, ManyReaders
  <1>2. /\ ServeCounts \in Int /\ StopCounts \in Int /\ ReaderCounts \in Int
        /\ Cardinality(ActiveDatagrams) \in Int
    BY CountsAreNumbers
  <1>4. CASE activeAdd /\ ServeCounts' = ServeCounts + 1 /\ StopCounts' = StopCounts
    <2>1. activeCount' = activeCount + 1
      BY <1>4 DEF activeAdd
    <2> QED
      BY <1>1, <1>2, <1>4, <2>1, CountIsSum
  <1>5. CASE activeDone /\ ServeCounts' = ServeCounts - 1 /\ StopCounts' = StopCounts
    <2>1. activeCount' = activeCount - 1
      BY <1>5 DEF activeDone
    <2> QED
      BY <1>1, <1>2, <1>5, <2>1, CountIsSum
  <1>6. CASE activeDone /\ ServeCounts' = ServeCounts /\ StopCounts' = StopCounts + 1
    <2>1. activeCount' = activeCount - 1
      BY <1>6 DEF activeDone
    <2> QED
      BY <1>1, <1>2, <1>6, <2>1, CountIsSum
  <1> QED
    BY <1>4, <1>5, <1>6

(* A datagram's goroutine starts, or ends. *)
LEMMA DatagramStepCounted ==
    ASSUME CountIsExact, IsFiniteSet(ActiveDatagrams),
           activeCount \in Int, NEW d,
           ServeCounts' = ServeCounts, StopCounts' = StopCounts, ActiveReaders' = ActiveReaders,
           \/ activeAdd  /\ d \notin ActiveDatagrams /\ ActiveDatagrams' = ActiveDatagrams \cup {d}
           \/ activeDone /\ d \in ActiveDatagrams /\ ActiveDatagrams' = ActiveDatagrams \ {d}
    PROVE  CountIsExact' /\ IsFiniteSet(ActiveDatagrams)'
  <1>1. ReaderCounts' = ReaderCounts
    BY DEF ReaderCounts, ManyReaders
  <1>2. /\ ServeCounts \in Int /\ StopCounts \in Int /\ ReaderCounts \in Int
        /\ Cardinality(ActiveDatagrams) \in Int
    BY CountsAreNumbers
  <1>4. CASE activeAdd /\ d \notin ActiveDatagrams /\ ActiveDatagrams' = ActiveDatagrams \cup {d}
    <2>1. activeCount' = activeCount + 1
      BY <1>4 DEF activeAdd
    <2>2. /\ IsFiniteSet(ActiveDatagrams')
          /\ Cardinality(ActiveDatagrams') = Cardinality(ActiveDatagrams) + 1
      BY <1>4, FS_AddElement
    <2> QED
      BY <1>1, <1>2, <2>1, <2>2, CountIsSum
  <1>5. CASE activeDone /\ d \in ActiveDatagrams /\ ActiveDatagrams' = ActiveDatagrams \ {d}
    <2>1. activeCount' = activeCount - 1
      BY <1>5 DEF activeDone
    <2>2. /\ IsFiniteSet(ActiveDatagrams')
          /\ Cardinality(ActiveDatagrams') = Cardinality(ActiveDatagrams) - 1
      BY <1>5, FS_RemoveElement
    <2> QED
      BY <1>1, <1>2, <2>1, <2>2, CountIsSum
  <1> QED
    BY <1>4, <1>5

(* A reader starts, or ends: it is counted unless it is Serve itself. *)
LEMMA ReaderStepCounted ==
    ASSUME CountIsExact, IsFiniteSet(ActiveDatagrams),
           activeCount \in Int, NEW r,
           ServeCounts' = ServeCounts, StopCounts' = StopCounts, ActiveDatagrams' = ActiveDatagrams,
           \/ /\ IF ManyReaders THEN activeAdd ELSE uncounted
              /\ r \notin ActiveReaders /\ ActiveReaders' = ActiveReaders \cup {r}
           \/ /\ IF ManyReaders THEN activeDone ELSE uncounted
              /\ r \in ActiveReaders /\ ActiveReaders' = ActiveReaders \ {r}
    PROVE  CountIsExact' /\ IsFiniteSet(ActiveDatagrams)'
  <1>1. ManyReaders' = ManyReaders
    BY DEF ManyReaders
  <1>2. /\ ServeCounts \in Int /\ StopCounts \in Int
        /\ IsFiniteSet(ActiveReaders) /\ Cardinality(ActiveReaders) \in Int
        /\ Cardinality(ActiveDatagrams) \in Int
    BY CountsAreNumbers
  <1>4. CASE ~ManyReaders
    <2>1. activeCount' = activeCount
      BY <1>4 DEF uncounted
    <2>2. ReaderCounts' = 0 /\ ReaderCounts = 0
      BY <1>1, <1>4 DEF ReaderCounts
    <2> QED
      BY <2>1, <2>2, CountIsSum
  <1>5. CASE ManyReaders /\ activeAdd /\ r \notin ActiveReaders /\ ActiveReaders' = ActiveReaders \cup {r}
    <2>1. activeCount' = activeCount + 1
      BY <1>5 DEF activeAdd
    <2>2. Cardinality(ActiveReaders') = Cardinality(ActiveReaders) + 1
      BY <1>2, <1>5, FS_AddElement
    <2>3. ReaderCounts' = Cardinality(ActiveReaders') /\ ReaderCounts = Cardinality(ActiveReaders)
      BY <1>1, <1>5 DEF ReaderCounts
    <2> QED
      BY <1>2, <2>1, <2>2, <2>3, CountIsSum
  <1>6. CASE ManyReaders /\ activeDone /\ r \in ActiveReaders /\ ActiveReaders' = ActiveReaders \ {r}
    <2>1. activeCount' = activeCount - 1
      BY <1>6 DEF activeDone
    <2>2. Cardinality(ActiveReaders') = Cardinality(ActiveReaders) - 1
      BY <1>2, <1>6, FS_RemoveElement
    <2>3. ReaderCounts' = Cardinality(ActiveReaders') /\ ReaderCounts = Cardinality(ActiveReaders)
      BY <1>1, <1>6 DEF ReaderCounts
    <2> QED
      BY <1>2, <2>1, <2>2, <2>3, CountIsSum
  <1> QED
    BY <1>4, <1>5, <1>6

(* Every path counts itself in once and off once. *)
LEMMA CountKept == ServerIInv /\ Next => CountIsExact' /\ IsFiniteSet(ActiveDatagrams)'
  <1> SUFFICES ASSUME TypeOK, CountIsExact, OneReaderHolds, SocketFollowsShutdown,
                      IsFiniteSet(ActiveDatagrams), Next
               PROVE  CountIsExact' /\ IsFiniteSet(ActiveDatagrams)'
    BY DEF ServerIInv, ServerInv
  <1>0. activeCount \in Int
    BY DEF TypeOK
  <1> DEFINE SameServe     == ServeCounts' = ServeCounts /\ StopCounts' = StopCounts
             SameReaders   == ActiveReaders' = ActiveReaders
             SameDatagrams == ActiveDatagrams' = ActiveDatagrams
  <1>a. UNCHANGED <<serve, shutdown>> => SameServe
    BY DEF ServeCounts, StopCounts, Stopping
  <1>b. UNCHANGED reader => SameReaders
    BY DEF ActiveReaders
  <1>c. UNCHANGED datagram => SameDatagrams
    BY DEF ActiveDatagrams
  <1> USE DEF lifecycle, traffic
  <1>1. CASE Register
    <2>1. SameServe
      BY <1>1 DEF Register, ServeCounts, StopCounts, Stopping
    <2> QED
      BY <1>1, <1>b, <1>c, <2>1, UncountedStep DEF Register
  <1>2. CASE CountServe
    <2>1. ServeCounts' = ServeCounts + 1 /\ StopCounts' = StopCounts
      BY <1>2 DEF CountServe, ServeCounts, StopCounts, Stopping
    <2> QED
      BY <1>0, <1>2, <1>b, <1>c, <2>1, ServeStepCounted DEF CountServe
  <1>3. CASE ServeFails
    <2>1. SameServe
      BY <1>3 DEF ServeFails, ServeCounts, StopCounts, Stopping
    <2> QED
      BY <1>3, <1>b, <1>c, <2>1, UncountedStep DEF ServeFails
  <1>4. CASE Unregister
    <2>1. SameServe
      BY <1>4 DEF Unregister, ServeCounts, StopCounts, Stopping
    <2> QED
      BY <1>4, <1>b, <1>c, <2>1, UncountedStep DEF Unregister
  <1>5. CASE UncountServe
    <2>1. ServeCounts' = ServeCounts - 1 /\ StopCounts' = StopCounts
      BY <1>5 DEF UncountServe, ServeCounts, StopCounts, Stopping
    <2> QED
      BY <1>0, <1>5, <1>b, <1>c, <2>1, ServeStepCounted DEF UncountServe
  <1>6. CASE CloseSocket
    <2>1. SameServe
      BY <1>6 DEF CloseSocket, ServeCounts, StopCounts, Stopping
    <2> QED
      BY <1>6, <1>b, <1>c, <2>1, UncountedStep DEF CloseSocket
  <1>7. CASE RequestShutdown
    <2>1. SameServe
      BY <1>7 DEF RequestShutdown, ServeCounts, StopCounts, Stopping
    <2> QED
      BY <1>7, <1>b, <1>c, <2>1, UncountedStep DEF RequestShutdown
  <1>8. CASE StopListeners
    <2>1. ServeCounts' = ServeCounts /\ StopCounts' = StopCounts + 1
      BY <1>8 DEF StopListeners, ServeCounts, StopCounts, Stopping
    <2> QED
      BY <1>0, <1>8, <1>b, <1>c, <2>1, ServeStepCounted DEF StopListeners
  <1>9. CASE ShutdownReturns
    <2>1. SameServe
      BY <1>9 DEF ShutdownReturns, ServeCounts, StopCounts, Stopping
    <2> QED
      BY <1>9, <1>b, <1>c, <2>1, UncountedStep DEF ShutdownReturns
  <1>10. CASE ContextExpires
    <2>1. SameServe
      BY <1>10 DEF ContextExpires, ServeCounts, StopCounts, Stopping
    <2> QED
      BY <1>10, <1>b, <1>c, <2>1, UncountedStep DEF ContextExpires
  <1>11. ASSUME NEW r \in Readers, StartReader(r)
         PROVE  CountIsExact' /\ IsFiniteSet(ActiveDatagrams)'
    <2>1. r \notin ActiveReaders /\ ActiveReaders' = ActiveReaders \cup {r}
      BY <1>11 DEF StartReader, ActiveReaders, TypeOK
    <2> QED
      BY <1>0, <1>11, <1>a, <1>c, <2>1, ReaderStepCounted DEF StartReader
  <1>12. ASSUME NEW r \in Readers, ReaderEnds(r)
         PROVE  CountIsExact' /\ IsFiniteSet(ActiveDatagrams)'
    <2>1. r \in ActiveReaders /\ ActiveReaders' = ActiveReaders \ {r}
      BY <1>12 DEF ReaderEnds, ActiveReaders, TypeOK
    <2> QED
      BY <1>0, <1>12, <1>a, <1>c, <2>1, ReaderStepCounted DEF ReaderEnds
  <1>13. ASSUME NEW r \in Readers, ReadFails(r)
         PROVE  CountIsExact' /\ IsFiniteSet(ActiveDatagrams)'
    <2>1. SameReaders
      BY <1>13 DEF ReadFails, ActiveReaders, TypeOK
    <2> QED
      BY <1>13, <1>a, <1>c, <2>1, UncountedStep DEF ReadFails
  <1>14. ASSUME NEW r \in Readers, NEW d \in Datagrams, Read(r, d)
         PROVE  CountIsExact' /\ IsFiniteSet(ActiveDatagrams)'
    <2>1. SameReaders
      BY <1>14, DatagramsAssumption DEF Read, ActiveReaders, TypeOK
    <2>2. SameDatagrams
      BY <1>14 DEF Read, ActiveDatagrams, TypeOK
    <2> QED
      BY <1>14, <1>a, <2>1, <2>2, UncountedStep DEF Read
  <1>15. ASSUME NEW r \in Readers, Dispatch(r)
         PROVE  CountIsExact' /\ IsFiniteSet(ActiveDatagrams)'
    <2>1. SameReaders
      BY <1>15, DatagramsAssumption DEF Dispatch, ActiveReaders, TypeOK
    <2>2. PICK d \in Datagrams : reader[r] = d /\ datagram[d] = "read"
      BY <1>15 DEF Dispatch, OneReaderHolds
    <2>3. d \notin ActiveDatagrams /\ ActiveDatagrams' = ActiveDatagrams \cup {d}
      BY <1>15, <2>2 DEF Dispatch, ActiveDatagrams, TypeOK
    <2> QED
      BY <1>0, <1>15, <1>a, <2>1, <2>3, DatagramStepCounted DEF Dispatch
  <1>16. ASSUME NEW d \in Datagrams, Arrive(d)
         PROVE  CountIsExact' /\ IsFiniteSet(ActiveDatagrams)'
    <2>1. SameDatagrams
      BY <1>16 DEF Arrive, ActiveDatagrams, TypeOK
    <2> QED
      BY <1>16, <1>a, <1>b, <2>1, UncountedStep DEF Arrive
  <1>17. ASSUME NEW d \in Datagrams, Claim(d)
         PROVE  CountIsExact' /\ IsFiniteSet(ActiveDatagrams)'
    <2>1. SameDatagrams
      BY <1>17 DEF Claim, ActiveDatagrams, TypeOK
    <2> QED
      BY <1>17, <1>a, <1>b, <2>1, UncountedStep DEF Claim
  <1>18. ASSUME NEW d \in Datagrams, Handle(d)
         PROVE  CountIsExact' /\ IsFiniteSet(ActiveDatagrams)'
    <2>1. SameDatagrams
      BY <1>18 DEF Handle, ActiveDatagrams, TypeOK
    <2> QED
      BY <1>18, <1>a, <1>b, <2>1, UncountedStep DEF Handle
  <1>19. ASSUME NEW d \in Datagrams, Release(d)
         PROVE  CountIsExact' /\ IsFiniteSet(ActiveDatagrams)'
    <2>1. SameDatagrams
      BY <1>19 DEF Release, ActiveDatagrams, TypeOK
    <2> QED
      BY <1>19, <1>a, <1>b, <2>1, UncountedStep DEF Release
  <1>20. ASSUME NEW d \in Datagrams, End(d)
         PROVE  CountIsExact' /\ IsFiniteSet(ActiveDatagrams)'
    <2>1. d \in ActiveDatagrams /\ ActiveDatagrams' = ActiveDatagrams \ {d}
      BY <1>20 DEF End, ActiveDatagrams, TypeOK
    <2> QED
      BY <1>0, <1>20, <1>a, <1>b, <2>1, DatagramStepCounted DEF End
  <1> QED
    BY <1>1, <1>2, <1>3, <1>4, <1>5, <1>6, <1>7, <1>8, <1>9, <1>10, <1>11, <1>12, <1>13, <1>14,
       <1>15, <1>16, <1>17, <1>18, <1>19, <1>20
    DEF Next, ServeStep, ReaderStep, GoroutineStep, ShutdownStep

-----------------------------------------------------------------------------
(* The count meets -1 only when Shutdown has taken its place off and nobody  *)
(* else is left: no datagram is being worked on or held, and no reader reads. *)
NobodyLeft ==
    /\ Stopping
    /\ \A d \in Datagrams : datagram[d] \in {"unsent", "queued", "done"}
    /\ \A r \in Readers : reader[r] # "reading"

CountedOut == activeCount = -1

LEMMA LastOneOut ==
    /\ TypeOK /\ CountIsExact /\ IsFiniteSet(ActiveDatagrams) /\ OneReaderHolds /\ ReadersOfServe
    /\ CountedOut
    => NobodyLeft
  <1> SUFFICES ASSUME TypeOK, CountIsExact, IsFiniteSet(ActiveDatagrams), OneReaderHolds,
                      ReadersOfServe, activeCount = -1
               PROVE  NobodyLeft
    BY DEF CountedOut
  <1>1. /\ Stopping
        /\ ServeCounts = 0 /\ ReaderCounts = 0 /\ Cardinality(ActiveDatagrams) = 0
    BY CountsAreNumbers, CountIsSum DEF StopCounts
  <1>2. ActiveDatagrams = {}
    BY <1>1, FS_EmptySet
  <1>3. serve # "counted"
    BY <1>1 DEF ServeCounts
  <1>4. \A r \in Readers : reader[r] # "reading" /\ reader[r] \notin Datagrams
    <2>1. CASE ManyReaders
      <3>1. Cardinality(ActiveReaders) = 0
        BY <1>1, <2>1 DEF ReaderCounts
      <3>2. ActiveReaders = {}
        BY <3>1, CountsAreNumbers, FS_EmptySet
      <3> QED
        BY <3>2, DatagramsAssumption DEF ActiveReaders
    <2>2. CASE ~ManyReaders
      BY <1>3, <2>2 DEF ReadersOfServe
    <2> QED
      BY <2>1, <2>2
  <1>5. \A d \in Datagrams : datagram[d] # "read"
    BY <1>4 DEF OneReaderHolds
  <1>6. \A d \in Datagrams : datagram[d] \in {"unsent", "queued", "done"}
    BY <1>2, <1>5 DEF ActiveDatagrams, TypeOK
  <1> QED
    BY <1>1, <1>4, <1>6 DEF NobodyLeft

(* After that the socket keeps late readers from taking anything up. *)
LEMMA QuietKept ==
    ASSUME TypeOK, OneReaderHolds, SocketFollowsShutdown, ClosedIsQuiet, Next, lastActive
    PROVE  /\ Stopping'
           /\ \A d \in Datagrams : datagram'[d] \in {"unsent", "queued", "done"}
           /\ conn' => \A r \in Readers : reader'[r] # "reading"
  <1> DEFINE Quiet == /\ Stopping
                      /\ \A d \in Datagrams : datagram[d] \in {"unsent", "queued", "done"}
                      /\ conn => \A r \in Readers : reader[r] # "reading"
  <1>0. Quiet
    BY DEF ClosedIsQuiet
  <1> USE DEF TypeOK, Stopping, lifecycle, traffic
  <1>1. CASE Register
    BY <1>0, <1>1 DEF Register
  <1>2. CASE CountServe
    BY <1>0, <1>2 DEF CountServe
  <1>3. CASE ServeFails
    BY <1>0, <1>3 DEF ServeFails
  <1>4. CASE Unregister
    BY <1>0, <1>4 DEF Unregister
  <1>5. CASE UncountServe
    BY <1>0, <1>5 DEF UncountServe
  <1>6. CASE CloseSocket
    BY <1>0, <1>6 DEF CloseSocket
  <1>7. CASE RequestShutdown
    BY <1>0, <1>7 DEF RequestShutdown
  <1>8. CASE StopListeners
    BY <1>0, <1>8 DEF StopListeners
  <1>9. CASE ShutdownReturns
    BY <1>0, <1>9 DEF ShutdownReturns
  <1>10. CASE ContextExpires
    BY <1>0, <1>10 DEF ContextExpires
  <1>11. ASSUME NEW r \in Readers, StartReader(r) PROVE Quiet'
    <2>1. ~conn
      BY <1>0, <1>11 DEF StartReader, SocketFollowsShutdown
    <2> QED
      BY <1>0, <1>11, <2>1 DEF StartReader
  <1>12. ASSUME NEW r \in Readers, Dispatch(r) PROVE Quiet'
    BY <1>0, <1>12 DEF Dispatch, OneReaderHolds
  <1>13. ASSUME NEW r \in Readers, ReadFails(r) PROVE Quiet'
    BY <1>0, <1>13 DEF ReadFails
  <1>14. ASSUME NEW r \in Readers, ReaderEnds(r) PROVE Quiet'
    BY <1>0, <1>14 DEF ReaderEnds
  <1>15. ASSUME NEW r \in Readers, NEW d \in Datagrams, Read(r, d) PROVE Quiet'
    BY <1>0, <1>15 DEF Read
  <1>16. ASSUME NEW d \in Datagrams, Arrive(d) PROVE Quiet'
    BY <1>0, <1>16 DEF Arrive
  <1>17. ASSUME NEW d \in Datagrams, GoroutineStep(d) PROVE Quiet'
    BY <1>0, <1>17 DEF GoroutineStep, Claim, Handle, Release, End
  <1> QED
    BY <1>1, <1>2, <1>3, <1>4, <1>5, <1>6, <1>7, <1>8, <1>9, <1>10, <1>11, <1>12, <1>13, <1>14,
       <1>15, <1>16, <1>17
    DEF Next, ServeStep, ReaderStep, ShutdownStep

(* Only the step of the count to -1 closes the channel, and Shutdown returns  *)
(* nil only when it is closed.                                               *)
LEMMA ClosedKept == ServerIInv /\ Next => ClosedIsQuiet'
  <1> SUFFICES ASSUME ServerIInv, Next PROVE ClosedIsQuiet'
    OBVIOUS
  <1>0. /\ TypeOK /\ OneReaderHolds /\ SocketFollowsShutdown /\ ClosedIsQuiet
    BY DEF ServerIInv, ServerInv
  <1>1. TypeOK' /\ OneReaderHolds' /\ ReadersOfServe'
    BY TypesKept, OneReaderKept, ReadersKept DEF ServerIInv, ServerInv
  <1>2. CountIsExact' /\ IsFiniteSet(ActiveDatagrams)'
    BY CountKept
  <1>3. lastActive' => lastActive \/ CountedOut'
    <2>1. activeAdd \/ uncounted => (lastActive' => lastActive)
      BY DEF activeAdd, uncounted
    <2>2. activeDone => (lastActive' => lastActive \/ activeCount = 0)
      BY DEF activeDone
    <2>3. activeDone /\ activeCount = 0 => CountedOut'
      BY DEF activeDone, CountedOut
    <2> QED
      BY <2>1, <2>2, <2>3, StepCounts
  <1>4. CountedOut' => NobodyLeft'
    BY <1>1, <1>2, LastOneOut, PTL
  <1>5. lastActive => lastActive'
    BY StepCounts DEF activeAdd, activeDone, uncounted
  <1>6. shutdown' = "nil" => shutdown = "nil" \/ lastActive
    <2>1. Next => shutdown' \in {shutdown, "locked", "waiting", "ctxErr"} \/ ShutdownReturns
      BY DEF Next, ServeStep, Register, CountServe, ServeFails, Unregister, UncountServe, CloseSocket,
             ReaderStep, StartReader, Dispatch, ReadFails, ReaderEnds, Read, Arrive,
             GoroutineStep, Claim, Handle, Release, End,
             RequestShutdown, ShutdownStep, StopListeners, ContextExpires, lifecycle
    <2> QED
      BY <2>1 DEF ShutdownReturns
  <1>7. shutdown' = "nil" => lastActive'
    BY <1>0, <1>5, <1>6 DEF ClosedIsQuiet
  <1>8. CASE lastActive
    BY <1>0, <1>7, <1>8, QuietKept DEF ClosedIsQuiet
  <1>9. CASE ~lastActive
    BY <1>3, <1>4, <1>7, <1>9 DEF ClosedIsQuiet, NobodyLeft
  <1> QED
    BY <1>8, <1>9

-----------------------------------------------------------------------------
LEMMA InitHolds == Init => ServerIInv
  <1> SUFFICES ASSUME Init PROVE ServerIInv
    OBVIOUS
  <1>1. TypeOK
    <2>1. {conn, listening, shutdownRequested, lastActive, panicked} \subseteq BOOLEAN
      BY DEF Init
    <2> QED
      BY <2>1 DEF Init, TypeOK
  <1>2. ActiveDatagrams = {} /\ ActiveReaders = {} /\ Owners = {}
    BY DEF Init, ActiveDatagrams, ActiveReaders, Owners
  <1>3. OneHandlerPerKey
    BY <1>2 DEF Init, OneHandlerPerKey
  <1>4. IsFiniteSet(ActiveDatagrams) /\ CountIsExact
    BY <1>2, FS_EmptySet DEF Init, CountIsExact, Counted, Stopping
  <1>5. OneReaderHolds /\ ReadersOfServe
    BY DatagramsAssumption DEF Init, OneReaderHolds, ReadersOfServe
  <1>6. SocketFollowsShutdown /\ ClosedIsQuiet
    BY DEF Init, SocketFollowsShutdown, ClosedIsQuiet, Stopping
  <1> QED
    BY <1>1, <1>3, <1>4, <1>5, <1>6 DEF ServerIInv, ServerInv

LEMMA StutterHolds == ServerIInv /\ UNCHANGED vars => ServerIInv'
  BY DEF vars, ServerIInv, ServerInv, TypeOK, OneHandlerPerKey, Owners, CountIsExact, Counted,
         ActiveReaders, ActiveDatagrams, ManyReaders, Stopping, OneReaderHolds, ReadersOfServe,
         SocketFollowsShutdown, ClosedIsQuiet

(* Whatever arrives, whichever reads fail and whenever Shutdown comes, a key  *)
(* is handled by one goroutine at a time, activeCount is the number of        *)
(* goroutines, and the channel it closes means that none is left              *)
(* (server-packet.go:73-97, 180-203).                                        *)
THEOREM ServerInvariant == Spec => []ServerInv
  <1>1. Init => ServerIInv
    BY InitHolds
  <1>2. ServerIInv /\ [Next]_vars => ServerIInv'
    BY TypesKept, OneHandlerKept, OneReaderKept, SocketKept, ReadersKept, CountKept, ClosedKept,
       StutterHolds DEF ServerIInv, ServerInv
  <1>3. ServerIInv => ServerInv
    BY DEF ServerIInv
  <1> QED
    BY <1>1, <1>2, <1>3, PTL DEF Spec

(* Shutdown returns nil only after every handler has returned, and no handler *)
(* starts after it (server-packet.go:270).                                   *)
THEOREM ShutdownWaits == Spec => []NilMeansQuiet
  <1>1. ServerInv => NilMeansQuiet
    BY DEF ServerInv, ClosedIsQuiet, NilMeansQuiet
  <1> QED
    BY <1>1, ServerInvariant, PTL
=============================================================================
