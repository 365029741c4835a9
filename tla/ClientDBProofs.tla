--------------------------- MODULE ClientDBProofs ---------------------------
(***************************************************************************)
(* Proofs about the Store of clientdb.  StoreInv is inductive: every step  *)
(* preserves the types (ToType), where the goroutines are and what they    *)
(* hold there (ControlStep), the order of the events (OrderStep, WayStep), *)
(* what has been fetched (FetchedStep), and that the youngest change of a  *)
(* record on its way says what the external system has (UpdatesStep).      *)
(***************************************************************************)
EXTENDS ClientDB, FiniteSetTheorems, SequenceTheorems, TLAPS

(* A function is a function on its own domain. *)
LEMMA PartialFunction ==
    ASSUME NEW A, NEW B, NEW S \in SUBSET A, NEW f \in [S -> B]
    PROVE  f \in UNION {[X -> B] : X \in SUBSET A}
  OBVIOUS

(* The number of records of a table is a natural number. *)
LEMMA CountType == \A t \in Table : Count(t) \in Nat
  BY IDsAssumption, FS_Subset, FS_CardinalityType DEF Table, Count

(* put stays within Table. *)
LEMMA PutType ==
    ASSUME NEW t \in Table, NEW id \in IDs, NEW v \in Versions
    PROVE  put(t, id, v) \in Table
  <1>1. PICK I \in SUBSET IDs : t \in [I -> Versions]
    BY DEF Table
  <1>2. put(t, id, v) \in [I \cup {id} -> Versions]
    BY <1>1 DEF put
  <1> QED
    BY <1>2 DEF Table

(* remove stays within Table. *)
LEMMA RemoveType ==
    ASSUME NEW t \in Table, NEW id \in IDs
    PROVE  remove(t, id) \in Table
  <1>1. PICK I \in SUBSET IDs : t \in [I -> Versions]
    BY DEF Table
  <1>2. remove(t, id) \in [I \ {id} -> Versions]
    BY <1>1 DEF remove
  <1> QED
    BY <1>2 DEF Table

(* So does a live update. *)
LEMMA PatchedType ==
    ASSUME NEW t \in Table, NEW ev,
           ev.n \in Versions, ev.id \in IDs, ev.kind \in Kinds
    PROVE  Patched(t, ev) \in Table
  BY PutType, RemoveType DEF Patched, Kinds

(* The empty table is a table. *)
LEMMA EmptyTableType == EmptyTable \in Table
  <1>1. EmptyTable \in [{} -> Versions]
    BY DEF EmptyTable
  <1> QED
    BY <1>1 DEF Table

(* The initial states are well typed. *)
LEMMA InitType == Init => TypeOK
  <1> SUFFICES ASSUME Init PROVE TypeOK
    OBVIOUS
  <1> USE DEF Init
  <1>1. truth \in [Sources -> Table]
    <2>1. \A I \in SUBSET IDs : [id \in I |-> 0] \in Table
      BY MaxChangesAssumption, PartialFunction DEF Table, Versions
    <2> QED
      BY <2>1
  <1>2. heap \in [Slots -> [Sources -> Table]]
    BY EmptyTableType DEF NoTables
  <1>3. fetched \in UNION {[S -> Table] : S \in SUBSET Sources}
    <2>1. fetched \in [{} -> Table]
      BY DEF EmptyTable
    <2> QED
      BY <2>1, PartialFunction
  <1>4. goroutine \in [Goroutines -> GoroutineState]
    BY DEF Parked, Goroutines, PCs, GoroutineState
  <1>5. /\ changes \in 0 .. MaxChanges
        /\ phase \in {"starting", "running", "failed", "closed"}
        /\ snap \in Slots \cup {Nil} /\ todo \subseteq Sources /\ gauge \in [Sources -> Nat]
    BY MaxChangesAssumption
  <1>6. /\ channel \in Seq(Event) /\ pending \in Seq(Event) /\ queue \in Seq(Event)
    OBVIOUS
  <1>7. healthy \in BOOLEAN /\ reloading \in BOOLEAN /\ lost \in BOOLEAN /\ overtaken \in BOOLEAN
    BY Zenon
  <1> QED
    BY <1>1, <1>2, <1>3, <1>4, <1>5, <1>6, <1>7, Zenon DEF TypeOK

(* Goto keeps the goroutines well typed. *)
LEMMA GotoType ==
    ASSUME goroutine \in [Goroutines -> GoroutineState],
           NEW g \in Goroutines, NEW pc \in PCs, Goto(g, pc)
    PROVE  goroutine' \in [Goroutines -> GoroutineState]
  BY DEF Goto, GoroutineState

(* Park keeps the goroutines well typed. *)
LEMMA ParkType ==
    ASSUME goroutine \in [Goroutines -> GoroutineState],
           NEW g \in Goroutines, NEW pc \in PCs, Park(g, pc)
    PROVE  goroutine' \in [Goroutines -> GoroutineState]
  BY DEF Park, Parked, GoroutineState

(* A queue of events stays one when an event is appended. *)
LEMMA AppendEvent == \A s \in Seq(Event), e \in Event : Append(s, e) \in Seq(Event)
  OBVIOUS

(* Replacing one goroutine by a well typed one keeps all well typed. *)
LEMMA UpdateType ==
    ASSUME goroutine \in [Goroutines -> GoroutineState],
           NEW g \in Goroutines, NEW s \in GoroutineState,
           goroutine' = [goroutine EXCEPT ![g] = s]
    PROVE  goroutine' \in [Goroutines -> GoroutineState]
  OBVIOUS

(* Every step keeps the state well typed. *)
LEMMA ToType ==
    ASSUME TypeOK, ControlOK, [Next]_vars
    PROVE  TypeOK'
  <1> USE DEF external, reload, history
  <1>1. ASSUME NEW s \in Sources, NEW id \in IDs, NEW kind \in Kinds, Change(s, id, kind)
        PROVE  TypeOK'
    <2> DEFINE n == changes + 1
               ev == [n |-> n, src |-> s, id |-> id, kind |-> kind]
    <2>1. n \in 1 .. MaxChanges /\ n \in Versions /\ ev \in Event
      BY <1>1, MaxChangesAssumption DEF TypeOK, Change, Versions, Event
    <2>2. truth' \in [Sources -> Table]
      <3>1. Patched(truth[s], [id |-> id, kind |-> kind, n |-> n]) \in Table
        BY <2>1, PatchedType DEF TypeOK
      <3> QED
        BY <1>1, <3>1 DEF TypeOK, Change
    <2>3. Publish(ev)
      BY <1>1 DEF Change
    <2>4. channel' \in Seq(Event)
      BY <2>1, <2>3, AppendEvent, Zenon DEF TypeOK, Publish
    <2>5. lost' \in BOOLEAN
      BY <2>3 DEF TypeOK, Publish
    <2> QED
      BY <1>1, <2>1, <2>2, <2>4, <2>5 DEF TypeOK, Change
  <1>2. CASE Toggle
    BY <1>2 DEF TypeOK, Toggle
  <1>3. CASE StartReload
    <2>1. goroutine' \in [Goroutines -> GoroutineState]
      BY <1>3, GotoType DEF TypeOK, StartReload, Goroutines, PCs
    <2>2. fetched' \in UNION {[S -> Table] : S \in SUBSET Sources}
      <3>1. EmptyTable \in [{} -> Table]
        BY DEF EmptyTable
      <3> QED
        BY <1>3, <3>1, PartialFunction DEF StartReload
    <2> QED
      BY <1>3, <2>1, <2>2 DEF TypeOK, StartReload
  <1>4. CASE LoadDevices
    <2>1. goroutine' \in [Goroutines -> GoroutineState]
      BY <1>4, GotoType DEF TypeOK, LoadDevices, Goroutines, PCs
    <2> QED
      BY <1>4, <2>1 DEF TypeOK, LoadDevices
  <1>5. ASSUME NEW s \in Sources, LoadBinds(s)
        PROVE  TypeOK'
    <2>1. goroutine' \in [Goroutines -> GoroutineState]
      BY <1>5, GotoType DEF TypeOK, LoadBinds, Goroutines, PCs
    <2>2. fetched' \in UNION {[S -> Table] : S \in SUBSET Sources}
      <3>1. PICK S \in SUBSET Sources : fetched \in [S -> Table]
        BY DEF TypeOK
      <3>2. [x \in S \cup {s} |-> IF x = s THEN truth[s] ELSE fetched[x]] \in [S \cup {s} -> Table]
        BY <3>1 DEF TypeOK
      <3>3. fetched' = fetched \/ fetched' \in [S \cup {s} -> Table]
        BY <1>5, <3>1, <3>2 DEF LoadBinds
      <3> QED
        BY <3>3, PartialFunction DEF TypeOK
    <2> QED
      BY <1>5, <2>1, <2>2 DEF TypeOK, LoadBinds
  <1>6. CASE StoreSnapshot
    <2>1. PICK x \in Slots : /\ heap' = [y \in Slots |-> IF y = x THEN fetched
                                            ELSE IF y = goroutine["subscriber"].slot THEN heap[y]
                                            ELSE NoTables]
                             /\ snap' = x
                             /\ goroutine' = [goroutine EXCEPT !["reload"].pc = "count", !["reload"].slot = x]
      <3>1. FreeSlots # {} /\ FreeSlots \subseteq Slots
        <4>1. goroutine["reload"].slot = Nil
          BY <1>6 DEF StoreSnapshot, ControlOK, HoldsOK, At, Goroutines
        <4>2. FreeSlots = Slots \ {snap, Nil, goroutine["subscriber"].slot}
          BY <4>1 DEF FreeSlots, Goroutines
        <4>3. {snap, goroutine["subscriber"].slot} \subseteq Slots \cup {Nil}
          BY DEF TypeOK, Goroutines, GoroutineState
        <4> QED
          <5>1. Slots \ {snap, goroutine["subscriber"].slot} # {}
            BY <4>3, SlotsAssumption
          <5> QED
            BY <4>2, <5>1, SlotsAssumption
      <3>2. (CHOOSE y \in FreeSlots : TRUE) \in Slots
        BY <3>1
      <3> QED
        BY <1>6, <3>2 DEF StoreSnapshot
    <2>2. fetched \in [Sources -> Table]
      BY <1>6 DEF TypeOK, StoreSnapshot
    <2>3. NoTables \in [Sources -> Table]
      BY EmptyTableType DEF NoTables
    <2>4. heap' \in [Slots -> [Sources -> Table]]
      BY <2>1, <2>2, <2>3 DEF TypeOK
    <2>5. goroutine' \in [Goroutines -> GoroutineState]
      <3> DEFINE s == [goroutine["reload"] EXCEPT !.pc = "count", !.slot = x]
      <3>1. s \in GoroutineState
        BY DEF TypeOK, GoroutineState, PCs, Goroutines
      <3>2. goroutine' = [goroutine EXCEPT !["reload"] = s]
        BY <2>1 DEF TypeOK, Goroutines
      <3> QED
        BY <3>1, <3>2, UpdateType DEF TypeOK, Goroutines
    <2>6. fetched' \in UNION {[S -> Table] : S \in SUBSET Sources}
      <3>1. EmptyTable \in [{} -> Table]
        BY DEF EmptyTable
      <3> QED
        BY <1>6, <3>1, PartialFunction DEF StoreSnapshot
    <2> QED
      BY <1>6, <2>1, <2>4, <2>5, <2>6 DEF TypeOK, StoreSnapshot
  <1>7. ASSUME NEW s \in Sources, CountBinds(s)
        PROVE  TypeOK'
    <2>1. Count(heap[goroutine["reload"].slot][s]) \in Nat
      BY <1>7, CountType DEF TypeOK, ControlOK, HoldsOK, CountBinds, At, Goroutines
    <2>2. goroutine' \in [Goroutines -> GoroutineState]
      <3> DEFINE t == [goroutine["reload"] EXCEPT !.pc = "setGauge", !.src = s,
                                                  !.count = Count(heap[goroutine["reload"].slot][s])]
      <3>1. t \in GoroutineState
        BY <2>1 DEF TypeOK, GoroutineState, PCs, Goroutines
      <3>2. goroutine' = [goroutine EXCEPT !["reload"] = t]
        BY <1>7 DEF TypeOK, CountBinds, Goroutines
      <3> QED
        BY <3>1, <3>2, UpdateType DEF TypeOK, Goroutines
    <2> QED
      BY <1>7, <2>2 DEF TypeOK, CountBinds
  <1>8. CASE SetClientDBBinds
    <2>1. goroutine' \in [Goroutines -> GoroutineState]
      BY <1>8, GotoType, ParkType DEF TypeOK, SetClientDBBinds, Goroutines, PCs
    <2>2. gauge' \in [Sources -> Nat]
      BY <1>8 DEF TypeOK, SetClientDBBinds, GoroutineState, Goroutines
    <2> QED
      BY <1>8, <2>1, <2>2 DEF TypeOK, SetClientDBBinds
  <1>9. CASE TakePending
    <2>1. goroutine' \in [Goroutines -> GoroutineState]
      BY <1>9, ParkType DEF TypeOK, TakePending, Goroutines, PCs
    <2>2. fetched' \in UNION {[S -> Table] : S \in SUBSET Sources}
      <3>1. EmptyTable \in [{} -> Table]
        BY DEF EmptyTable
      <3> QED
        BY <1>9, <3>1, PartialFunction DEF TakePending
    <2>3. pending' \in Seq(Event) /\ queue' \in Seq(Event)
      BY <1>9 DEF TypeOK, TakePending
    <2>4. reloading' \in BOOLEAN
      BY <1>9, Zenon DEF TakePending
    <2> QED
      BY <1>9, <2>1, <2>2, <2>3, <2>4 DEF TypeOK, TakePending
  <1>10. CASE NextDeferred
    <2>1. Head(queue) \in Event /\ Tail(queue) \in Seq(Event)
      BY <1>10 DEF TypeOK, NextDeferred
    <2>2. goroutine' \in [Goroutines -> GoroutineState]
      <3> DEFINE s == [goroutine["reload"] EXCEPT !.pc = "apply", !.ev = Head(queue)]
      <3>1. s \in GoroutineState
        BY <2>1 DEF TypeOK, GoroutineState, PCs, Goroutines
      <3>2. goroutine' = [goroutine EXCEPT !["reload"] = s]
        BY <1>10 DEF TypeOK, NextDeferred, Goroutines
      <3> QED
        BY <3>1, <3>2, UpdateType DEF TypeOK, Goroutines
    <2> QED
      BY <1>10, <2>1, <2>2 DEF TypeOK, NextDeferred
  <1>11. CASE EndReload
    <2>1. goroutine' \in [Goroutines -> GoroutineState]
      BY <1>11, ParkType DEF TypeOK, EndReload, Goroutines, PCs
    <2> QED
      BY <1>11, <2>1 DEF TypeOK, EndReload
  <1>12. CASE Subscribe
    <2>1. goroutine' \in [Goroutines -> GoroutineState]
      <3>1. Parked("idle") \in GoroutineState
        BY DEF Parked, GoroutineState, PCs
      <3> QED
        BY <1>12, <3>1, ParkType DEF TypeOK, Subscribe, Goroutines, PCs
    <2> QED
      BY <1>12, <2>1 DEF TypeOK, Subscribe
  <1>13. CASE Receive
    <2>1. Head(channel) \in Event /\ Tail(channel) \in Seq(Event)
      BY <1>13 DEF TypeOK, Receive
    <2>2. goroutine' \in [Goroutines -> GoroutineState]
      <3> DEFINE s == [goroutine["subscriber"] EXCEPT !.pc = "check", !.ev = Head(channel)]
      <3>1. s \in GoroutineState
        BY <2>1 DEF TypeOK, GoroutineState, PCs, Goroutines
      <3>2. UNCHANGED goroutine \/ goroutine' = [goroutine EXCEPT !["subscriber"] = s]
        BY <1>13 DEF TypeOK, Receive, Goroutines
      <3> QED
        BY <3>1, <3>2, UpdateType DEF TypeOK, Goroutines
    <2> QED
      BY <1>13, <2>1, <2>2 DEF TypeOK, Receive
  <1>14. CASE ApplyBindEvent
    <2>1. goroutine["subscriber"].ev \in Event
      BY <1>14 DEF ControlOK, HoldsOK, ApplyBindEvent, At, Goroutines
    <2>2. pending' \in Seq(Event)
      <3>1. UNCHANGED pending \/ pending' = Append(pending, goroutine["subscriber"].ev)
        BY <1>14 DEF ApplyBindEvent
      <3> QED
        BY <2>1, <3>1, AppendEvent, Zenon DEF TypeOK
    <2>3. goroutine' \in [Goroutines -> GoroutineState]
      BY <1>14, GotoType, ParkType DEF TypeOK, ApplyBindEvent, Goroutines, PCs
    <2> QED
      BY <1>14, <2>2, <2>3 DEF TypeOK, ApplyBindEvent
  <1>15. ASSUME NEW g \in Goroutines, LoadCurrent(g)
         PROVE  TypeOK'
    <2>1. CASE Return(g)
      <3>1. goroutine' \in [Goroutines -> GoroutineState]
        BY <2>1, ParkType DEF TypeOK, Return, PCs
      <3> QED
        BY <1>15, <3>1 DEF TypeOK, LoadCurrent
    <2>2. CASE goroutine' = [goroutine EXCEPT ![g].pc = "patch", ![g].slot = snap]
      <3>1. goroutine' \in [Goroutines -> GoroutineState]
        <4> DEFINE s == [goroutine[g] EXCEPT !.pc = "patch", !.slot = snap]
        <4>a. goroutine[g] \in GoroutineState /\ snap \in Slots \cup {Nil}
          BY DEF TypeOK
        <4>1. s \in GoroutineState
          BY <4>a DEF GoroutineState, PCs
        <4>2. goroutine' = [goroutine EXCEPT ![g] = s]
          BY <2>2 DEF TypeOK
        <4> QED
          BY <4>1, <4>2, UpdateType DEF TypeOK
      <3> QED
        BY <1>15, <3>1 DEF TypeOK, LoadCurrent
    <2> QED
      BY <1>15, <2>1, <2>2 DEF LoadCurrent
  <1>16. ASSUME NEW g \in Goroutines, Patch(g)
         PROVE  TypeOK'
    <2> DEFINE x == goroutine[g].slot
               ev == goroutine[g].ev
               table == Patched(heap[x][ev.src], ev)
    <2>1. ev \in Event /\ x \in Slots
      BY <1>16 DEF Patch, ControlOK, HoldsOK, At
    <2>2. table \in Table
      <3>1. heap[x][ev.src] \in Table /\ ev.n \in Versions /\ ev.id \in IDs /\ ev.kind \in Kinds
        BY <2>1, MaxChangesAssumption DEF TypeOK, Event, Versions
      <3> QED
        BY <3>1, PatchedType
    <2>3. Count(table) \in Nat
      BY <2>2, CountType
    <2>4. goroutine' \in [Goroutines -> GoroutineState]
      <3> DEFINE s == [goroutine[g] EXCEPT !.pc = "publish", !.count = Count(table)]
      <3>a. goroutine[g] \in GoroutineState
        BY DEF TypeOK
      <3>1. s \in GoroutineState
        BY <2>3, <3>a DEF GoroutineState, PCs
      <3>2. goroutine' = [goroutine EXCEPT ![g] = s]
        BY <1>16 DEF TypeOK, Patch
      <3> QED
        BY <3>1, <3>2, UpdateType DEF TypeOK
    <2>5. heap' \in [Slots -> [Sources -> Table]]
      BY <1>16, <2>1, <2>2 DEF TypeOK, Patch, Event
    <2>6. overtaken' \in BOOLEAN
      BY <1>16 DEF TypeOK, Patch
    <2> QED
      BY <1>16, <2>4, <2>5, <2>6 DEF TypeOK, Patch
  <1>17. ASSUME NEW g \in Goroutines, PublishCount(g)
         PROVE  TypeOK'
    <2>1. goroutine' \in [Goroutines -> GoroutineState]
      BY <1>17, ParkType DEF TypeOK, PublishCount, Return, PCs
    <2>2. gauge' \in [Sources -> Nat]
      BY <1>17 DEF TypeOK, PublishCount, GoroutineState
    <2> QED
      BY <1>17, <2>1, <2>2 DEF TypeOK, PublishCount
  <1>18. CASE Close
    BY <1>18 DEF TypeOK, Close
  <1>19. ASSUME NEW g \in Goroutines, Stop(g)
         PROVE  TypeOK'
    <2>1. goroutine' \in [Goroutines -> GoroutineState]
      BY <1>19, ParkType DEF TypeOK, Stop, PCs
    <2> QED
      BY <1>19, <2>1 DEF TypeOK, Stop
  <1>20. CASE UNCHANGED vars
    BY <1>20 DEF TypeOK, vars
  <1> QED
    BY <1>1, <1>2, <1>3, <1>4, <1>5, <1>6, <1>7, <1>8, <1>9, <1>10, <1>11, <1>12, <1>13,
       <1>14, <1>15, <1>16, <1>17, <1>18, <1>19, <1>20
    DEF Next, ReloadStep, SubscriberStep, Goroutines

(* What Goto leaves behind. *)
LEMMA GotoEffect ==
    ASSUME goroutine \in [Goroutines -> GoroutineState], NEW g \in Goroutines, NEW pc, Goto(g, pc)
    PROVE  /\ goroutine'[g].pc = pc
           /\ goroutine'[g].ev = goroutine[g].ev
           /\ goroutine'[g].slot = goroutine[g].slot
           /\ goroutine'[g].src = goroutine[g].src
           /\ \A h \in Goroutines \ {g} : goroutine'[h] = goroutine[h]
  BY DEF Goto, GoroutineState

(* What Park leaves behind. *)
LEMMA ParkEffect ==
    ASSUME goroutine \in [Goroutines -> GoroutineState], NEW g \in Goroutines, NEW pc, Park(g, pc)
    PROVE  /\ goroutine'[g].pc = pc
           /\ goroutine'[g].slot = Nil
           /\ \A h \in Goroutines \ {g} : goroutine'[h] = goroutine[h]
  BY DEF Park, Parked, GoroutineState

(* Every step keeps the goroutines where PhaseOK, HoldsOK and DeferOK allow. *)
LEMMA ControlStep ==
    ASSUME TypeOK, ControlOK, [Next]_vars
    PROVE  ControlOK'
  <1> USE DEF external, reload, history, Goroutines, At
  <1> USE DEF TypeOK
  <1>1. ASSUME NEW s \in Sources, NEW id \in IDs, NEW kind \in Kinds, Change(s, id, kind)
        PROVE  ControlOK'
    BY <1>1 DEF Change, Publish, ControlOK, PhaseOK, HoldsOK, DeferOK
  <1>2. CASE Toggle
    BY <1>2 DEF Toggle, ControlOK, PhaseOK, HoldsOK, DeferOK
  <1>3. CASE StartReload
    <2>1. /\ goroutine'["reload"].pc = "devices"
          /\ goroutine'["reload"].slot = Nil
          /\ goroutine'["subscriber"] = goroutine["subscriber"]
      BY <1>3, GotoEffect DEF StartReload, ControlOK, HoldsOK
    <2> QED
      BY <1>3, <2>1 DEF StartReload, ControlOK, PhaseOK, HoldsOK, DeferOK
  <1>4. CASE LoadDevices
    <2>1. /\ goroutine'["reload"].pc \in {"binds", "deferred"}
          /\ goroutine'["reload"].slot = Nil
          /\ goroutine'["subscriber"] = goroutine["subscriber"]
      BY <1>4, GotoEffect DEF LoadDevices, ControlOK, HoldsOK
    <2> QED
      BY <1>4, <2>1 DEF LoadDevices, ControlOK, PhaseOK, HoldsOK, DeferOK
  <1>5. ASSUME NEW s \in Sources, LoadBinds(s)
        PROVE  ControlOK'
    <2>1. /\ goroutine'["reload"].pc \in {"binds", "deferred"}
          /\ goroutine'["reload"].slot = Nil
          /\ goroutine'["subscriber"] = goroutine["subscriber"]
      BY <1>5, GotoEffect DEF LoadBinds, ControlOK, HoldsOK
    <2> QED
      BY <1>5, <2>1 DEF LoadBinds, ControlOK, PhaseOK, HoldsOK, DeferOK
  <1>6. CASE StoreSnapshot
    <2>1. /\ goroutine'["reload"].pc = "count"
          /\ goroutine'["reload"].slot = snap'
          /\ goroutine'["subscriber"] = goroutine["subscriber"]
      BY <1>6 DEF StoreSnapshot, GoroutineState
    <2>2. snap' \in Slots
      <3>1. TypeOK'
        BY <1>6, ToType DEF Next, ReloadStep
      <3>2. goroutine["reload"].slot = Nil
        BY <1>6 DEF StoreSnapshot, ControlOK, HoldsOK
      <3>3. FreeSlots = Slots \ {snap, Nil, goroutine["subscriber"].slot}
        BY <3>2 DEF FreeSlots
      <3>4. Slots \ {snap, goroutine["subscriber"].slot} # {}
        BY SlotsAssumption DEF GoroutineState
      <3>5. FreeSlots # {}
        BY <3>3, <3>4, SlotsAssumption
      <3> QED
        BY <1>6, <3>5 DEF StoreSnapshot, FreeSlots
    <2> QED
      BY <1>6, <2>1, <2>2, SlotsAssumption DEF StoreSnapshot, ControlOK, PhaseOK, HoldsOK, DeferOK
  <1>7. ASSUME NEW s \in Sources, CountBinds(s)
        PROVE  ControlOK'
    <2>1. /\ goroutine'["reload"].pc = "setGauge"
          /\ goroutine'["reload"].slot = goroutine["reload"].slot
          /\ goroutine'["reload"].src = s
          /\ goroutine'["subscriber"] = goroutine["subscriber"]
      BY <1>7 DEF CountBinds, GoroutineState
    <2> QED
      BY <1>7, <2>1 DEF CountBinds, ControlOK, PhaseOK, HoldsOK, DeferOK
  <1>8. CASE SetClientDBBinds
    <2>1. /\ goroutine'["reload"].pc \in {"deferred", "count"}
          /\ goroutine'["reload"].pc = "count" => goroutine'["reload"].slot = goroutine["reload"].slot
          /\ goroutine'["subscriber"] = goroutine["subscriber"]
      BY <1>8, GotoEffect, ParkEffect DEF SetClientDBBinds
    <2> QED
      BY <1>8, <2>1 DEF SetClientDBBinds, ControlOK, PhaseOK, HoldsOK, DeferOK
  <1>9. CASE TakePending
    <2>1. /\ goroutine'["reload"].pc = "replay"
          /\ goroutine'["subscriber"] = goroutine["subscriber"]
      BY <1>9, ParkEffect DEF TakePending
    <2> QED
      BY <1>9, <2>1 DEF TakePending, ControlOK, PhaseOK, HoldsOK, DeferOK
  <1>10. CASE NextDeferred
    <2>1. /\ goroutine'["reload"].pc = "apply"
          /\ goroutine'["reload"].ev = Head(queue)
          /\ goroutine'["subscriber"] = goroutine["subscriber"]
      BY <1>10 DEF NextDeferred, GoroutineState
    <2>2. Head(queue) \in Event
      BY <1>10 DEF NextDeferred
    <2>3. phase \in {"running", "closed"}
      BY <1>10 DEF NextDeferred, ControlOK, PhaseOK
    <2> QED
      BY <1>10, <2>1, <2>2, <2>3 DEF NextDeferred, ControlOK, PhaseOK, HoldsOK, DeferOK
  <1>11. CASE EndReload
    <2>1. /\ goroutine'["reload"].pc =
                IF phase # "starting" THEN "idle" ELSE IF snap = Nil THEN "exited" ELSE "subscribe"
          /\ goroutine'["reload"].slot = Nil
          /\ goroutine'["subscriber"] = goroutine["subscriber"]
      BY <1>11, ParkEffect DEF EndReload
    <2> QED
      BY <1>11, <2>1 DEF EndReload, ControlOK, PhaseOK, HoldsOK, DeferOK
  <1>12. CASE Subscribe
    <2>1. CASE phase' = "running"
      <3>1. \A g \in Goroutines : goroutine'[g].pc = "idle" /\ goroutine'[g].slot = Nil
        BY <1>12, <2>1 DEF Subscribe, Parked
      <3> QED
        BY <1>12, <2>1, <3>1 DEF Subscribe, ControlOK, PhaseOK, HoldsOK, DeferOK
    <2>2. CASE phase' = "failed"
      <3>1. /\ goroutine'["reload"].pc = "exited"
            /\ goroutine'["subscriber"] = goroutine["subscriber"]
        BY <1>12, <2>2, ParkEffect DEF Subscribe
      <3> QED
        BY <1>12, <2>2, <3>1 DEF Subscribe, ControlOK, PhaseOK, HoldsOK, DeferOK
    <2> QED
      BY <1>12, <2>1, <2>2 DEF Subscribe
  <1>13. CASE Receive
    <2>1. /\ \/ goroutine'["subscriber"] = goroutine["subscriber"]
             \/ goroutine'["subscriber"].pc = "check" /\ goroutine'["subscriber"].ev = Head(channel)
          /\ goroutine'["reload"] = goroutine["reload"]
      BY <1>13 DEF Receive, GoroutineState
    <2>2. Head(channel) \in Event /\ phase \in {"running", "closed"}
      BY <1>13 DEF Receive, ControlOK, PhaseOK
    <2> QED
      BY <1>13, <2>1, <2>2 DEF Receive, ControlOK, PhaseOK, HoldsOK, DeferOK
  <1>14. CASE ApplyBindEvent
    <2>1. /\ \/ goroutine'["subscriber"].pc = "idle" /\ goroutine'["subscriber"].slot = Nil /\ reloading
             \/ /\ goroutine'["subscriber"].pc = "apply"
                /\ goroutine'["subscriber"].ev = goroutine["subscriber"].ev
                /\ UNCHANGED pending
          /\ goroutine'["reload"] = goroutine["reload"]
      BY <1>14, GotoEffect, ParkEffect DEF ApplyBindEvent
    <2>2. phase \in {"running", "closed"} /\ goroutine["subscriber"].ev \in Event
      BY <1>14 DEF ApplyBindEvent, ControlOK, PhaseOK, HoldsOK
    <2> QED
      BY <1>14, <2>1, <2>2 DEF ApplyBindEvent, ControlOK, PhaseOK, HoldsOK, DeferOK
  <1>15. ASSUME NEW g \in Goroutines, LoadCurrent(g)
         PROVE  ControlOK'
    <2>1. phase \in {"running", "closed"} /\ snap \in Slots /\ goroutine[g].ev \in Event
      BY <1>15 DEF LoadCurrent, ControlOK, PhaseOK, HoldsOK
    <2>2. CASE Return(g)
      <3>1. /\ goroutine'[g].pc = IF g = "reload" THEN "replay" ELSE "idle"
            /\ goroutine'[g].slot = Nil
            /\ \A h \in Goroutines \ {g} : goroutine'[h] = goroutine[h]
        BY <2>2, ParkEffect DEF Return
      <3> QED
        <4>1. PhaseOK'
          BY <1>15, <2>1, <3>1 DEF LoadCurrent, ControlOK, PhaseOK
        <4>a. UNCHANGED snap
          BY <1>15 DEF LoadCurrent
        <4>2. HoldsOK'
          BY <2>1, <3>1, <4>a DEF ControlOK, HoldsOK
        <4>3. DeferOK'
          BY <1>15, <2>1, <3>1 DEF LoadCurrent, ControlOK, DeferOK
        <4> QED
          BY <4>1, <4>2, <4>3 DEF ControlOK
    <2>3. CASE goroutine' = [goroutine EXCEPT ![g].pc = "patch", ![g].slot = snap]
      <3>1. /\ goroutine'[g].pc = "patch"
            /\ goroutine'[g].slot = snap
            /\ goroutine'[g].ev = goroutine[g].ev
            /\ \A h \in Goroutines \ {g} : goroutine'[h] = goroutine[h]
        BY <2>3 DEF GoroutineState
      <3>2. PhaseOK'
        BY <1>15, <2>1, <3>1 DEF LoadCurrent, ControlOK, PhaseOK
      <3>3. HoldsOK'
        BY <1>15, <2>1, <3>1 DEF LoadCurrent, ControlOK, HoldsOK
      <3>4. DeferOK'
        BY <1>15, <2>1, <3>1 DEF LoadCurrent, ControlOK, DeferOK
      <3> QED
        BY <3>2, <3>3, <3>4 DEF ControlOK
    <2> QED
      BY <1>15, <2>2, <2>3 DEF LoadCurrent
  <1>16. ASSUME NEW g \in Goroutines, Patch(g)
         PROVE  ControlOK'
    <2>1. /\ goroutine'[g].pc = "publish"
          /\ goroutine'[g].ev = goroutine[g].ev
          /\ \A h \in Goroutines \ {g} : goroutine'[h] = goroutine[h]
      BY <1>16 DEF Patch, GoroutineState
    <2>2. goroutine[g].ev \in Event
      BY <1>16 DEF Patch, ControlOK, HoldsOK
    <2>3. /\ UNCHANGED <<channel, phase, snap, reloading, pending, queue>>
          /\ goroutine[g].pc = "patch"
      BY <1>16 DEF Patch, external, reload
    <2>4. PhaseOK'
      BY <2>1, <2>3 DEF ControlOK, PhaseOK
    <2>5. HoldsOK'
      BY <2>1, <2>2, <2>3 DEF ControlOK, HoldsOK
    <2>6. DeferOK'
      BY <2>1, <2>3 DEF ControlOK, DeferOK
    <2> QED
      BY <2>4, <2>5, <2>6 DEF ControlOK
  <1>17. ASSUME NEW g \in Goroutines, PublishCount(g)
         PROVE  ControlOK'
    <2>1. /\ goroutine'[g].pc = IF g = "reload" THEN "replay" ELSE "idle"
          /\ goroutine'[g].slot = Nil
          /\ \A h \in Goroutines \ {g} : goroutine'[h] = goroutine[h]
      BY <1>17, ParkEffect DEF PublishCount, Return
    <2> QED
      BY <1>17, <2>1 DEF PublishCount, ControlOK, PhaseOK, HoldsOK, DeferOK
  <1>18. CASE Close
    BY <1>18 DEF Close, ControlOK, PhaseOK, HoldsOK, DeferOK
  <1>19. ASSUME NEW g \in Goroutines, Stop(g)
         PROVE  ControlOK'
    <2>1. /\ goroutine'[g].pc = "exited"
          /\ \A h \in Goroutines \ {g} : goroutine'[h] = goroutine[h]
      BY <1>19, ParkEffect DEF Stop
    <2> QED
      BY <1>19, <2>1 DEF Stop, ControlOK, PhaseOK, HoldsOK, DeferOK
  <1>20. CASE UNCHANGED vars
    BY <1>20 DEF vars, ControlOK, PhaseOK, HoldsOK, DeferOK
  <1> QED
    BY <1>1, <1>2, <1>3, <1>4, <1>5, <1>6, <1>7, <1>8, <1>9, <1>10, <1>11, <1>12, <1>13,
       <1>14, <1>15, <1>16, <1>17, <1>18, <1>19, <1>20
    DEF Next, ReloadStep, SubscriberStep

-----------------------------------------------------------------------------
(* The order in which events wait.  Only queue, pending, channel, changes  *)
(* and the events in the goroutines' hands matter.                         *)

(* Appending a younger event keeps a queue ascending. *)
LEMMA AppendYounger ==
    ASSUME NEW s \in Seq(Event), NEW e \in Event,
           Ascending(s), \A i \in DOMAIN s : s[i].n < e.n
    PROVE  /\ Ascending(Append(s, e))
           /\ \A i \in DOMAIN Append(s, e) :
                \/ i \in DOMAIN s /\ Append(s, e)[i] = s[i]
                \/ i \notin DOMAIN s /\ Append(s, e)[i] = e
  <1>1. /\ DOMAIN Append(s, e) = 1 .. Len(s) + 1 /\ DOMAIN s = 1 .. Len(s) /\ Len(s) \in Nat
        /\ \A i \in 1 .. Len(s) : Append(s, e)[i] = s[i]
        /\ Append(s, e)[Len(s) + 1] = e
    BY AppendProperties, LenProperties
  <1> QED
    BY <1>1 DEF Ascending

(* Taking the first event keeps a queue ascending. *)
LEMMA TailAscends ==
    ASSUME NEW s \in Seq(Event), s # << >>, Ascending(s)
    PROVE  Ascending(Tail(s))
  <1>1. /\ DOMAIN Tail(s) = 1 .. Len(s) - 1 /\ DOMAIN s = 1 .. Len(s) /\ Len(s) \in Nat
        /\ \A i \in 1 .. Len(s) - 1 : Tail(s)[i] = s[i + 1]
    BY HeadTailProperties, LenProperties
  <1> QED
    BY <1>1 DEF Ascending

(* A step that changes no event and no queue keeps the order. *)
LEMMA OrderUnchanged ==
    ASSUME OrderOK, UNCHANGED <<queue, pending, channel, changes>>,
           goroutine'["subscriber"].pc = "check" =>
                /\ goroutine["subscriber"].pc = "check"
                /\ goroutine'["subscriber"].ev = goroutine["subscriber"].ev,
           goroutine'["reload"].pc \in {"apply", "patch"} =>
                /\ goroutine["reload"].pc \in {"apply", "patch"}
                /\ goroutine'["reload"].ev = goroutine["reload"].ev
    PROVE  OrderOK'
  BY DEF OrderOK, Older, Checking, Ascending

\* Older after the step, of an event named before it.
OlderThen(e) ==
    /\ e.n <= changes'
    /\ \A j \in DOMAIN channel' : e.n < channel'[j].n
    /\ Checking' => e.n < goroutine'["subscriber"].ev.n

(* Every step keeps waiting events in the order of their arrival. *)
LEMMA OrderStep ==
    ASSUME TypeOK, ControlOK, OrderOK, [Next]_vars
    PROVE  OrderOK'
  <1> USE DEF Goroutines, At
  <1>t. /\ goroutine \in [Goroutines -> GoroutineState]
        /\ queue \in Seq(Event) /\ pending \in Seq(Event) /\ channel \in Seq(Event)
        /\ changes \in Nat
        /\ \A e \in Event : e.n \in Nat
    BY MaxChangesAssumption DEF TypeOK, Event
  <1>1. ASSUME NEW s \in Sources, NEW id \in IDs, NEW kind \in Kinds, Change(s, id, kind)
        PROVE  OrderOK'
    <2> DEFINE ev == [n |-> changes + 1, src |-> s, id |-> id, kind |-> kind]
    <2>1. UNCHANGED <<queue, pending, goroutine>> /\ changes' = changes + 1
      BY <1>1 DEF Change
    <2>2. channel' = channel \/ channel' = Append(channel, ev)
      BY <1>1 DEF Change, Publish
    <2>3. ev.n = changes + 1 /\ ev \in Event
      BY <1>1, <1>t, MaxChangesAssumption DEF Change, Event
    <2> HIDE DEF ev
    <2>a. \A j \in DOMAIN channel : channel[j].n < ev.n
      BY <1>t, <2>3 DEF OrderOK
    <2>b. \A j \in DOMAIN channel' :
            (j \in DOMAIN channel /\ channel'[j] = channel[j]) \/ channel'[j].n = changes + 1
      <3>1. CASE channel' = channel
        BY <3>1
      <3>2. CASE channel' = Append(channel, ev)
        BY <3>2, <1>t, <2>3, <2>a, AppendYounger DEF OrderOK
      <3> QED
        BY <2>2, <3>1, <3>2
    <2>c. \A j \in DOMAIN channel : channel[j].n <= changes /\ channel[j].n \in Nat
      BY <1>t DEF OrderOK
    <2>4. \A j \in DOMAIN channel' : channel'[j].n <= changes'
      BY <1>t, <2>1, <2>b, <2>c
    <2>5. Ascending(channel')
      <3>1. Ascending(channel)
        BY DEF OrderOK
      <3>2. Ascending(Append(channel, ev))
        BY <1>t, <2>3, <2>a, <3>1, AppendYounger
      <3> QED
        BY <2>2, <3>1, <3>2
    <2>6. ASSUME NEW e, Older(e), e.n \in Nat PROVE OlderThen(e)
      <3>1. e.n <= changes' /\ e.n < changes + 1
        BY <1>t, <2>1, <2>6 DEF Older
      <3>2. \A j \in DOMAIN channel' : e.n < channel'[j].n
        BY <2>b, <2>6, <3>1 DEF Older
      <3>3. Checking' => e.n < goroutine'["subscriber"].ev.n
        BY <2>1, <2>6 DEF Older, Checking
      <3> QED
        BY <3>1, <3>2, <3>3 DEF OlderThen
    <2>7. Checking => goroutine["subscriber"].ev \in Event
      BY DEF Checking, ControlOK, HoldsOK
    <2>8. goroutine["reload"].pc \in {"apply", "patch"} => goroutine["reload"].ev \in Event
      BY DEF ControlOK, HoldsOK
    <2>9. Checking' => /\ goroutine["subscriber"].ev.n <= changes'
                       /\ \A j \in DOMAIN channel' : goroutine["subscriber"].ev.n < channel'[j].n
      <3>1. ASSUME Checking
            PROVE  goroutine["subscriber"].ev.n <= changes /\ goroutine["subscriber"].ev.n \in Nat
        BY <1>t, <2>7, <3>1 DEF OrderOK
      <3>2. ASSUME Checking
            PROVE  \A j \in DOMAIN channel : goroutine["subscriber"].ev.n < channel[j].n
        BY <3>2 DEF OrderOK
      <3> QED
        BY <1>t, <2>1, <2>b, <3>1, <3>2 DEF Checking
    <2>10. /\ \A i \in DOMAIN queue : OlderThen(queue[i])
           /\ \A i \in DOMAIN pending : OlderThen(pending[i])
           /\ goroutine["reload"].pc \in {"apply", "patch"} => OlderThen(goroutine["reload"].ev)
      BY <1>t, <2>1, <2>6, <2>8 DEF OrderOK
    <2> QED
      BY <2>1, <2>4, <2>5, <2>9, <2>10 DEF OrderOK, Older, OlderThen, Checking, Ascending
  <1>2. CASE Receive
    <2>1. /\ UNCHANGED <<queue, pending, changes>> /\ channel # << >> /\ channel' = Tail(channel)
          /\ ~Checking /\ goroutine'["reload"] = goroutine["reload"]
      BY <1>2, <1>t DEF Receive, Checking, reload
    <2>2. Checking' => goroutine'["subscriber"].ev = Head(channel)
      BY <1>2, <1>t DEF Receive, Checking, GoroutineState
    <2>3. /\ Head(channel) = channel[1] /\ 1 \in DOMAIN channel
          /\ \A j \in DOMAIN channel' : j + 1 \in DOMAIN channel /\ channel'[j] = channel[j + 1] /\ 1 < j + 1
      BY <1>t, <2>1
    <2>4. ASSUME NEW e, Older(e) PROVE OlderThen(e)
      <3>1. e.n <= changes' /\ \A j \in DOMAIN channel' : e.n < channel'[j].n
        BY <2>1, <2>3, <2>4 DEF Older
      <3>2. Checking' => e.n < goroutine'["subscriber"].ev.n
        BY <2>2, <2>3, <2>4 DEF Older
      <3> QED
        BY <3>1, <3>2 DEF OlderThen
    <2>5. Ascending(channel')
      <3>1. Ascending(channel)
        BY DEF OrderOK
      <3> QED
        BY <1>t, <2>1, <3>1, TailAscends
    <2>6. /\ \A j \in DOMAIN channel' : channel'[j].n <= changes'
          /\ \A j \in DOMAIN channel' : Head(channel).n < channel'[j].n
          /\ Head(channel).n <= changes'
      BY <2>1, <2>3 DEF OrderOK, Ascending
    <2>7. /\ \A i \in DOMAIN queue : OlderThen(queue[i])
          /\ \A i \in DOMAIN pending : OlderThen(pending[i])
          /\ goroutine["reload"].pc \in {"apply", "patch"} => OlderThen(goroutine["reload"].ev)
      BY <2>4 DEF OrderOK
    <2> QED
      BY <2>1, <2>2, <2>5, <2>6, <2>7 DEF OrderOK, Older, OlderThen, Checking, Ascending
  <1>3. CASE ApplyBindEvent
    <2>1. UNCHANGED <<queue, channel, changes>> /\ goroutine'["reload"] = goroutine["reload"]
      BY <1>3, <1>t, GotoEffect, ParkEffect DEF ApplyBindEvent, external, reload
    <2>2. Checking /\ ~Checking'
      BY <1>3, <1>t, GotoEffect, ParkEffect DEF ApplyBindEvent, Checking
    <2>3. CASE UNCHANGED pending
      BY <2>1, <2>2, <2>3 DEF OrderOK, Older, Ascending
    <2>4. CASE queue = << >> /\ pending' = Append(pending, goroutine["subscriber"].ev)
      <3> DEFINE ev == goroutine["subscriber"].ev
      <3>1. ev \in Event
        BY <2>2 DEF Checking, ControlOK, HoldsOK
      <3>2. OlderThen(ev) /\ \A i \in DOMAIN pending : pending[i].n < ev.n
        BY <2>1, <2>2 DEF OrderOK, Older, OlderThen, Checking
      <3> HIDE DEF ev
      <3>3. \A i \in DOMAIN pending' : (i \in DOMAIN pending /\ pending'[i] = pending[i]) \/ pending'[i] = ev
        BY <2>4, <1>t, <3>1 DEF ev
      <3>4. Ascending(pending')
        BY <2>4, <1>t, <3>1, <3>2 DEF OrderOK, Ascending, ev
      <3>5. \A i \in DOMAIN pending : OlderThen(pending[i])
        BY <2>1, <2>2 DEF OrderOK, Older, OlderThen, Checking
      <3>6. \A i \in DOMAIN pending' : OlderThen(pending'[i])
        BY <3>2, <3>3, <3>5
      <3>7. goroutine["reload"].pc \in {"apply", "patch"} => OlderThen(goroutine["reload"].ev)
        BY <2>1, <2>2 DEF OrderOK, Older, OlderThen, Checking
      <3> QED
        BY <2>1, <2>2, <2>4, <3>4, <3>6, <3>7 DEF OrderOK, Older, OlderThen, Checking, Ascending
    <2> QED
      BY <1>3, <2>3, <2>4 DEF ApplyBindEvent, ControlOK, DeferOK
  <1>4. CASE TakePending
    <2>1. /\ UNCHANGED <<channel, changes>> /\ queue' = pending /\ pending' = << >>
          /\ goroutine'["reload"].pc = "replay"
          /\ goroutine'["subscriber"] = goroutine["subscriber"]
      BY <1>4, <1>t, ParkEffect DEF TakePending, external
    <2> QED
      BY <2>1 DEF OrderOK, Older, Checking, Ascending
  <1>5. CASE NextDeferred
    <2>1. /\ UNCHANGED <<channel, changes, pending>> /\ queue # << >> /\ queue' = Tail(queue)
          /\ goroutine'["reload"].ev = Head(queue)
          /\ goroutine'["subscriber"] = goroutine["subscriber"]
      BY <1>5, <1>t DEF NextDeferred, external, GoroutineState
    <2>2. /\ Head(queue) = queue[1] /\ 1 \in DOMAIN queue
          /\ \A i \in DOMAIN queue' : i + 1 \in DOMAIN queue /\ queue'[i] = queue[i + 1]
      BY <1>t, <2>1
    <2>3. Ascending(queue')
      BY <1>t, <2>1, TailAscends DEF OrderOK
    <2>4. ASSUME NEW e, Older(e) PROVE OlderThen(e)
      BY <2>1, <2>4 DEF Older, OlderThen, Checking
    <2>5. /\ \A i \in DOMAIN queue' : OlderThen(queue'[i])
          /\ \A i \in DOMAIN pending : OlderThen(pending[i])
          /\ OlderThen(Head(queue))
      BY <2>2, <2>4 DEF OrderOK
    <2>6. \A i \in DOMAIN queue' : \A j \in DOMAIN pending' : queue'[i].n < pending'[j].n
      BY <2>1, <2>2 DEF OrderOK
    <2> QED
      BY <2>1, <2>3, <2>5, <2>6 DEF OrderOK, Older, OlderThen, Checking, Ascending
  <1>6. CASE Toggle \/ Close \/ UNCHANGED vars
    BY <1>6, OrderUnchanged DEF Toggle, Close, vars, external, reload
  <1>7. CASE StartReload \/ LoadDevices
    BY <1>7, <1>t, GotoEffect, OrderUnchanged DEF StartReload, LoadDevices, external, reload
  <1>8. ASSUME NEW s \in Sources, LoadBinds(s)
        PROVE  OrderOK'
    BY <1>8, <1>t, GotoEffect, OrderUnchanged DEF LoadBinds, external
  <1>9. CASE StoreSnapshot
    <2>1. /\ goroutine'["reload"].pc = "count"
          /\ goroutine'["subscriber"] = goroutine["subscriber"]
      BY <1>9, <1>t DEF StoreSnapshot, GoroutineState
    <2> QED
      BY <1>9, <2>1, OrderUnchanged DEF StoreSnapshot, external
  <1>10. ASSUME NEW s \in Sources, CountBinds(s)
         PROVE  OrderOK'
    <2>1. /\ goroutine'["reload"].pc = "setGauge"
          /\ goroutine'["subscriber"] = goroutine["subscriber"]
      BY <1>10, <1>t DEF CountBinds, GoroutineState
    <2> QED
      BY <1>10, <2>1, OrderUnchanged DEF CountBinds, external
  <1>11. CASE SetClientDBBinds \/ EndReload
    <2>1. /\ goroutine'["reload"].pc \notin {"apply", "patch"}
          /\ goroutine'["subscriber"] = goroutine["subscriber"]
      BY <1>11, <1>t, GotoEffect, ParkEffect DEF SetClientDBBinds, EndReload
    <2> QED
      BY <1>11, <2>1, OrderUnchanged DEF SetClientDBBinds, EndReload, external, reload
  <1>12. CASE Subscribe
    <2>1. /\ goroutine'["reload"].pc \notin {"apply", "patch"}
          /\ goroutine'["subscriber"].pc = "check" => goroutine'["subscriber"] = goroutine["subscriber"]
      BY <1>12, <1>t, ParkEffect DEF Subscribe, Parked
    <2> QED
      BY <1>12, <2>1, OrderUnchanged DEF Subscribe, external, reload
  <1>13. ASSUME NEW g \in Goroutines, LoadCurrent(g) \/ Patch(g) \/ PublishCount(g) \/ Stop(g)
         PROVE  OrderOK'
    <2>1. /\ goroutine'[g].pc # "check"
          /\ goroutine'[g].pc \in {"apply", "patch"} => goroutine[g].pc \in {"apply", "patch"}
                                                        /\ goroutine'[g].ev = goroutine[g].ev
          /\ \A h \in Goroutines \ {g} : goroutine'[h] = goroutine[h]
      <3>1. CASE LoadCurrent(g) /\ Return(g)
        BY <3>1, <1>t, ParkEffect DEF LoadCurrent, Return
      <3>2. CASE LoadCurrent(g) /\ ~Return(g)
        BY <3>2, <1>t DEF LoadCurrent, GoroutineState
      <3>3. CASE Patch(g)
        BY <3>3, <1>t DEF Patch, GoroutineState
      <3>4. CASE PublishCount(g) \/ Stop(g)
        BY <3>4, <1>t, ParkEffect DEF PublishCount, Stop, Return
      <3> QED
        BY <1>13, <3>1, <3>2, <3>3, <3>4
    <2>2. UNCHANGED <<queue, pending, channel, changes>>
      BY <1>13 DEF LoadCurrent, Patch, PublishCount, Stop, external, reload
    <2> QED
      BY <2>1, <2>2, OrderUnchanged
  <1> QED
    BY <1>1, <1>2, <1>3, <1>4, <1>5, <1>6, <1>7, <1>8, <1>9, <1>10, <1>11, <1>12, <1>13
    DEF Next, ReloadStep, SubscriberStep

(* OrderOK is the invariant WaitInArrivalOrder, strengthened by the event   *)
(* the subscriber is about to defer.                                        *)
LEMMA OrderImplied == TypeOK /\ OrderOK => WaitInArrivalOrder
  BY DEF OrderOK, WaitInArrivalOrder, Older, Deferred, Held, Range

-----------------------------------------------------------------------------
(* Every step keeps what has been fetched non-empty, and drops it in time. *)
LEMMA FetchedStep ==
    ASSUME TypeOK, FetchedOK, [Next]_vars
    PROVE  FetchedOK'
  <1> USE DEF external, reload, history, At
  <1> DEFINE Loading(r) == r.pc \in {"binds", "deferred"}
  <1>t. goroutine \in [Goroutines -> GoroutineState] /\ {"reload", "subscriber"} = Goroutines
    BY DEF TypeOK, Goroutines
  <1>1. ASSUME UNCHANGED fetched, Loading(goroutine["reload"]) => Loading(goroutine'["reload"])
        PROVE  FetchedOK'
    BY <1>1 DEF FetchedOK, Count
  <1>2. CASE fetched' = EmptyTable
    BY <1>2 DEF FetchedOK, EmptyTable
  <1>3. ASSUME NEW s \in Sources, LoadBinds(s)
        PROVE  FetchedOK'
    <2>1. Loading(goroutine'["reload"])
      BY <1>3, <1>t, GotoEffect DEF LoadBinds
    <2>2. CASE Count(truth[s]) > 0 /\
               fetched' = [x \in DOMAIN fetched \cup {s} |-> IF x = s THEN truth[s] ELSE fetched[x]]
      BY <2>1, <2>2 DEF FetchedOK
    <2>3. CASE UNCHANGED fetched
      BY <1>1, <2>1, <2>3
    <2> QED
      BY <1>3, <2>2, <2>3 DEF LoadBinds
  <1>4. CASE StartReload \/ StoreSnapshot \/ TakePending
    BY <1>2, <1>4 DEF StartReload, StoreSnapshot, TakePending
  <1>5. CASE LoadDevices
    BY <1>1, <1>5 DEF LoadDevices
  <1>6. CASE SetClientDBBinds \/ NextDeferred \/ EndReload \/ \E s \in Sources : CountBinds(s)
    BY <1>1, <1>6 DEF SetClientDBBinds, NextDeferred, EndReload, CountBinds
  <1>7. CASE Subscribe
    BY <1>1, <1>7 DEF Subscribe
  <1>8. CASE Receive \/ ApplyBindEvent
    <2>1. goroutine'["reload"] = goroutine["reload"]
      BY <1>8, <1>t, GotoEffect, ParkEffect DEF Receive, ApplyBindEvent
    <2> QED
      BY <1>1, <1>8, <2>1 DEF Receive, ApplyBindEvent
  <1>9. ASSUME NEW g \in Goroutines, LoadCurrent(g) \/ Patch(g) \/ PublishCount(g) \/ Stop(g)
        PROVE  FetchedOK'
    <2>1. g = "reload" => ~Loading(goroutine["reload"])
      BY <1>9 DEF LoadCurrent, Patch, PublishCount, Stop
    <2>2. g = "subscriber" => goroutine'["reload"] = goroutine["reload"]
      BY <1>9, <1>t, ParkEffect DEF LoadCurrent, Patch, PublishCount, Stop, Return
    <2> QED
      BY <1>1, <1>9, <1>t, <2>1, <2>2 DEF LoadCurrent, Patch, PublishCount, Stop
  <1>10. CASE Toggle \/ Close \/ UNCHANGED vars \/
              \E s \in Sources, id \in IDs, kind \in Kinds : Change(s, id, kind)
    BY <1>1, <1>10 DEF Toggle, Close, Change, vars
  <1> QED
    BY <1>3, <1>4, <1>5, <1>6, <1>7, <1>8, <1>9, <1>10
    DEF Next, ReloadStep, SubscriberStep, Goroutines

-----------------------------------------------------------------------------
(* What is on its way, and in which order.                                 *)

(* Appending an event adds it to what waits. *)
LEMMA RangeAppend ==
    ASSUME NEW s \in Seq(Event), NEW e \in Event
    PROVE  Range(Append(s, e)) = Range(s) \cup {e}
  <1>1. /\ DOMAIN Append(s, e) = 1 .. Len(s) + 1 /\ DOMAIN s = 1 .. Len(s) /\ Len(s) \in Nat
        /\ \A i \in 1 .. Len(s) : Append(s, e)[i] = s[i]
        /\ Append(s, e)[Len(s) + 1] = e
    BY AppendProperties, LenProperties
  <1> QED
    BY <1>1 DEF Range

(* What waits is the first event and the others. *)
LEMMA RangeSplit ==
    ASSUME NEW s \in Seq(Event), s # << >>
    PROVE  Range(s) = {Head(s)} \cup Range(Tail(s))
  <1>1. /\ DOMAIN Tail(s) = 1 .. Len(s) - 1 /\ DOMAIN s = 1 .. Len(s) /\ Len(s) \in Nat
        /\ Len(s) > 0
        /\ \A i \in 1 .. Len(s) - 1 : Tail(s)[i] = s[i + 1]
        /\ Head(s) = s[1]
    BY HeadTailProperties, LenProperties, EmptySeq
  <1>2. \A i \in DOMAIN s : i = 1 \/ (i - 1 \in DOMAIN Tail(s) /\ s[i] = Tail(s)[i - 1])
    BY <1>1
  <1> QED
    BY <1>1, <1>2 DEF Range

(* Nothing waits in an empty queue. *)
LEMMA RangeEmpty == Range(<< >>) = {}
  BY DEF Range

(* A step that moves no event keeps their order. *)
LEMMA WayUnchanged ==
    ASSUME WayOK, UNCHANGED <<queue, pending, channel, changes>>,
           goroutine'["subscriber"].pc \in {"apply", "patch"} =>
                /\ goroutine["subscriber"].pc \in {"apply", "patch"}
                /\ goroutine'["subscriber"].ev = goroutine["subscriber"].ev,
           goroutine'["reload"].pc \in {"apply", "patch"} =>
                /\ goroutine["reload"].pc \in {"apply", "patch"}
                /\ goroutine'["reload"].ev = goroutine["reload"].ev
    PROVE  WayOK'
  <1>1. Deferred' \subseteq Deferred
    BY DEF Deferred, Held
  <1> QED
    BY <1>1 DEF WayOK

(* Every step keeps what waits, what is replayed and what is applied in order. *)
LEMMA WayStep ==
    ASSUME TypeOK, ControlOK, OrderOK, WayOK, [Next]_vars
    PROVE  WayOK'
  <1> USE DEF Goroutines, At
  <1>t. /\ goroutine \in [Goroutines -> GoroutineState]
        /\ queue \in Seq(Event) /\ pending \in Seq(Event) /\ channel \in Seq(Event)
        /\ changes \in Nat
        /\ \A e \in Event : e.n \in Nat
    BY MaxChangesAssumption DEF TypeOK, Event
  <1>1. ASSUME NEW s \in Sources, NEW id \in IDs, NEW kind \in Kinds, Change(s, id, kind)
        PROVE  WayOK'
    <2> DEFINE ev == [n |-> changes + 1, src |-> s, id |-> id, kind |-> kind]
    <2>1. UNCHANGED <<queue, pending, goroutine>> /\ changes' = changes + 1
      BY <1>1 DEF Change
    <2>2. channel' = channel \/ channel' = Append(channel, ev)
      BY <1>1 DEF Change, Publish
    <2>3. ev.n = changes + 1 /\ ev \in Event
      BY <1>1, <1>t, MaxChangesAssumption DEF Change, Event
    <2> HIDE DEF ev
    <2>4. \A e \in Range(channel') : e \in Range(channel) \/ e.n = changes + 1
      <3>1. Range(Append(channel, ev)) = Range(channel) \cup {ev}
        BY <2>3, <1>t, RangeAppend
      <3> QED
        BY <2>2, <2>3, <3>1
    <2>5. Deferred' = Deferred
      BY <2>1 DEF Deferred, Held
    <2>6. goroutine["subscriber"].pc \in {"apply", "patch"} => goroutine["subscriber"].ev \in Event
      BY DEF ControlOK, HoldsOK
    <2>7. goroutine["reload"].pc \in {"apply", "patch"} =>
             \A e \in Range(queue) \cup Range(pending) : goroutine["reload"].ev.n < e.n
      BY DEF WayOK
    <2>8. ASSUME goroutine["subscriber"].pc \in {"apply", "patch"}
          PROVE  /\ pending = << >>
                 /\ goroutine["subscriber"].ev.n <= changes'
                 /\ \A e \in Deferred : e.n < goroutine["subscriber"].ev.n
                 /\ \A e \in Range(channel') : goroutine["subscriber"].ev.n < e.n
      <3>1. goroutine["subscriber"].ev.n \in Nat /\ goroutine["subscriber"].ev.n <= changes
        BY <1>t, <2>6, <2>8 DEF WayOK
      <3>2. pending = << >> /\ \A e \in Deferred : e.n < goroutine["subscriber"].ev.n
        BY <2>8 DEF WayOK
      <3>3. \A e \in Range(channel) : goroutine["subscriber"].ev.n < e.n
        BY <2>8 DEF WayOK
      <3> QED
        BY <1>t, <2>1, <2>4, <3>1, <3>2, <3>3
    <2> QED
      BY <2>1, <2>5, <2>7, <2>8 DEF WayOK
  <1>2. CASE Receive
    <2>1. /\ UNCHANGED <<queue, pending>>
          /\ goroutine'["subscriber"].pc \notin {"apply", "patch"}
          /\ goroutine'["reload"] = goroutine["reload"]
      BY <1>2, <1>t DEF Receive, GoroutineState, reload
    <2> QED
      BY <2>1 DEF WayOK
  <1>3. CASE ApplyBindEvent
    <2>1. UNCHANGED <<queue, channel, changes>> /\ goroutine'["reload"] = goroutine["reload"]
      BY <1>3, <1>t, GotoEffect, ParkEffect DEF ApplyBindEvent, external, reload
    <2>2. CASE reloading
      <3>1. goroutine["reload"].pc \notin {"apply", "patch"}
        BY <2>2 DEF ControlOK, DeferOK
      <3>2. goroutine'["subscriber"].pc \notin {"apply", "patch"}
        BY <1>3, <1>t, <2>2, ParkEffect DEF ApplyBindEvent
      <3> QED
        BY <2>1, <3>1, <3>2 DEF WayOK
    <2>3. CASE ~reloading
      <3>1. /\ UNCHANGED pending /\ pending = << >>
            /\ goroutine'["subscriber"].ev = goroutine["subscriber"].ev
        BY <1>3, <1>t, <2>3, GotoEffect DEF ApplyBindEvent, ControlOK, DeferOK
      <3>2. Checking
        BY <1>3 DEF ApplyBindEvent, Checking
      <3>3. \A e \in Range(channel) : goroutine["subscriber"].ev.n < e.n
        BY <3>2 DEF OrderOK, Range
      <3>4. \A e \in Deferred : e.n < goroutine["subscriber"].ev.n
        BY <3>2 DEF OrderOK, Older, Range, Deferred, Held
      <3>5. Deferred' = Deferred
        BY <2>1 DEF Deferred, Held
      <3>6. goroutine["subscriber"].ev.n <= changes
        BY <3>2 DEF OrderOK
      <3> QED
        BY <2>1, <3>1, <3>3, <3>4, <3>5, <3>6 DEF WayOK
    <2> QED
      BY <2>2, <2>3
  <1>4. CASE TakePending
    <2>1. /\ UNCHANGED <<channel, changes>> /\ queue' = pending /\ pending' = << >>
          /\ goroutine'["reload"].pc = "replay"
          /\ goroutine'["subscriber"] = goroutine["subscriber"]
      BY <1>4, <1>t, ParkEffect DEF TakePending, external
    <2>2. Deferred' = Range(pending)
      BY <2>1 DEF Deferred, Held
    <2> QED
      BY <2>1, <2>2, RangeEmpty DEF WayOK
  <1>5. CASE NextDeferred
    <2>1. /\ UNCHANGED <<channel, changes, pending>> /\ queue # << >> /\ queue' = Tail(queue)
          /\ goroutine["reload"].pc = "replay" /\ goroutine'["reload"].pc = "apply"
          /\ goroutine'["reload"].ev = Head(queue)
          /\ goroutine'["subscriber"] = goroutine["subscriber"]
      BY <1>5, <1>t DEF NextDeferred, external, GoroutineState
    <2>2. /\ Head(queue) = queue[1] /\ 1 \in DOMAIN queue
          /\ \A i \in DOMAIN queue' : i + 1 \in DOMAIN queue /\ queue'[i] = queue[i + 1] /\ 1 < i + 1
      BY <1>t, <2>1
    <2>3. \A e \in Range(queue') : Head(queue).n < e.n
      BY <2>2 DEF OrderOK, Ascending, Range
    <2>4. \A e \in Range(pending) : Head(queue).n < e.n
      BY <2>2 DEF OrderOK, Range
    <2>5. Deferred' = Deferred
      BY <1>t, <2>1, RangeSplit DEF Deferred, Held
    <2> QED
      BY <2>1, <2>3, <2>4, <2>5 DEF WayOK
  <1>6. CASE Toggle \/ Close \/ UNCHANGED vars
    BY <1>6, WayUnchanged DEF Toggle, Close, vars, external, reload
  <1>7. CASE StartReload \/ LoadDevices
    BY <1>7, <1>t, GotoEffect, WayUnchanged DEF StartReload, LoadDevices, external, reload
  <1>8. ASSUME NEW s \in Sources, LoadBinds(s)
        PROVE  WayOK'
    BY <1>8, <1>t, GotoEffect, WayUnchanged DEF LoadBinds, external
  <1>9. CASE StoreSnapshot
    <2>1. /\ goroutine'["reload"].pc = "count"
          /\ goroutine'["subscriber"] = goroutine["subscriber"]
      BY <1>9, <1>t DEF StoreSnapshot, GoroutineState
    <2> QED
      BY <1>9, <2>1, WayUnchanged DEF StoreSnapshot, external
  <1>10. ASSUME NEW s \in Sources, CountBinds(s)
         PROVE  WayOK'
    <2>1. /\ goroutine'["reload"].pc = "setGauge"
          /\ goroutine'["subscriber"] = goroutine["subscriber"]
      BY <1>10, <1>t DEF CountBinds, GoroutineState
    <2> QED
      BY <1>10, <2>1, WayUnchanged DEF CountBinds, external
  <1>11. CASE SetClientDBBinds \/ EndReload
    <2>1. /\ goroutine'["reload"].pc \notin {"apply", "patch"}
          /\ goroutine'["subscriber"] = goroutine["subscriber"]
      BY <1>11, <1>t, GotoEffect, ParkEffect DEF SetClientDBBinds, EndReload
    <2> QED
      BY <1>11, <2>1, WayUnchanged DEF SetClientDBBinds, EndReload, external, reload
  <1>12. CASE Subscribe
    <2>1. /\ goroutine'["reload"].pc \notin {"apply", "patch"}
          /\ \/ goroutine'["subscriber"].pc = "idle"
             \/ goroutine'["subscriber"] = goroutine["subscriber"]
      BY <1>12, <1>t, ParkEffect DEF Subscribe, Parked
    <2> QED
      BY <1>12, <2>1, WayUnchanged DEF Subscribe, external, reload
  <1>13. ASSUME NEW g \in Goroutines, LoadCurrent(g) \/ Patch(g) \/ PublishCount(g) \/ Stop(g)
         PROVE  WayOK'
    <2>1. /\ goroutine'[g].pc \in {"apply", "patch"} => goroutine[g].pc \in {"apply", "patch"}
                                                        /\ goroutine'[g].ev = goroutine[g].ev
          /\ \A h \in Goroutines \ {g} : goroutine'[h] = goroutine[h]
      <3>1. CASE LoadCurrent(g) /\ Return(g)
        BY <3>1, <1>t, ParkEffect DEF LoadCurrent, Return
      <3>2. CASE LoadCurrent(g) /\ ~Return(g)
        BY <3>2, <1>t DEF LoadCurrent, GoroutineState
      <3>3. CASE Patch(g)
        BY <3>3, <1>t DEF Patch, GoroutineState
      <3>4. CASE PublishCount(g) \/ Stop(g)
        BY <3>4, <1>t, ParkEffect DEF PublishCount, Stop, Return
      <3> QED
        BY <1>13, <3>1, <3>2, <3>3, <3>4
    <2>2. UNCHANGED <<queue, pending, channel, changes>>
      BY <1>13 DEF LoadCurrent, Patch, PublishCount, Stop, external, reload
    <2> QED
      BY <2>1, <2>2, WayUnchanged
  <1> QED
    BY <1>1, <1>2, <1>3, <1>4, <1>5, <1>6, <1>7, <1>8, <1>9, <1>10, <1>11, <1>12, <1>13
    DEF Next, ReloadStep, SubscriberStep

-----------------------------------------------------------------------------
(* The changes of one record on their way, and what the tables say of it.  *)

(* A live update leaves what it says. *)
LEMMA PatchedSays ==
    ASSUME NEW t, NEW e, e.kind \in {"upsert", "delete"}
    PROVE  Says(e, Patched(t, e))
  BY DEF Says, Patched, put, remove

(* It leaves the other records alone, and an invalid one leaves them all. *)
LEMMA PatchedElse ==
    ASSUME NEW t, NEW e, NEW id, e.id # id \/ e.kind \notin {"upsert", "delete"}
    PROVE  Agree(Patched(t, e), t, id)
  BY DEF Agree, Patched, put, remove

(* Two tables that have what a change says agree about its record. *)
LEMMA SaysAgree ==
    ASSUME NEW t, NEW u, NEW e, NEW s, NEW id, Of(e, s, id), Says(e, t), Says(e, u)
    PROVE  Agree(t, u, id)
  BY DEF Says, Agree, Of

(* A change says the same of tables that agree. *)
LEMMA AgreeSays ==
    ASSUME NEW t, NEW u, NEW e, NEW s, NEW id, Of(e, s, id), Agree(t, u, id), Says(e, t)
    PROVE  Says(e, u)
  BY DEF Says, Agree, Of

(* Everything on its way is an event, published before now. *)
LEMMA WayPast ==
    TypeOK /\ ControlOK /\ OrderOK /\ WayOK => \A e \in Way : e \in Event /\ e.n \in Nat /\ e.n <= changes
  <1> SUFFICES ASSUME TypeOK, ControlOK, OrderOK, WayOK, NEW e \in Way
               PROVE  e \in Event /\ e.n \in Nat /\ e.n <= changes
    OBVIOUS
  <1>1. \A f \in Event : f.n \in Nat
    BY MaxChangesAssumption DEF Event
  <1>2. CASE e \in Range(channel)
    BY <1>1, <1>2 DEF TypeOK, OrderOK, Range
  <1>3. CASE e \in Range(pending) \cup Range(queue)
    BY <1>1, <1>3 DEF TypeOK, OrderOK, Older, Range
  <1>4. CASE e \in Held("subscriber", {"check"})
    BY <1>1, <1>4 DEF OrderOK, Checking, Held, ControlOK, HoldsOK, Goroutines
  <1>5. CASE e \in Held("subscriber", {"apply", "patch"})
    BY <1>1, <1>5 DEF WayOK, Held, ControlOK, HoldsOK, Goroutines
  <1>6. CASE e \in Held("reload", {"apply", "patch"})
    BY <1>1, <1>6 DEF OrderOK, Older, Held, ControlOK, HoldsOK, Goroutines
  <1> QED
    BY <1>2, <1>3, <1>4, <1>5, <1>6 DEF Way, Unseen, Aimed, Deferred

\* The changes on their way are the same after the step; so are those no load
\* has seen.
SameWay    == \A e : e.kind \in {"upsert", "delete"} => (e \in Way' <=> e \in Way)
SameUnseen == \A e : e.kind \in {"upsert", "delete"} => (e \in Unseen' <=> e \in Unseen)

(* The changes of one record, then, are the same as well. *)
LEMMA SameOfRecord ==
    ASSUME NEW s \in Sources, NEW id \in IDs
    PROVE  /\ SameWay => OnTheWay(s, id)' = OnTheWay(s, id)
           /\ SameUnseen => Arriving(s, id)' = Arriving(s, id)
  BY DEF SameWay, SameUnseen, OnTheWay, Arriving, Of

(* A step that moves no event of a record and leaves it alone in the tables. *)
LEMMA FollowsKept ==
    ASSUME NEW s \in Sources, NEW id \in IDs, Follows(s, id),
           OnTheWay(s, id)' = OnTheWay(s, id),
           Agree(truth'[s], truth[s], id),
           snap' # Nil => snap # Nil /\ Agree(heap'[snap'][s], heap[snap][s], id),
           s \in DOMAIN fetched' => /\ Arriving(s, id)' = Arriving(s, id)
                                    /\ s \in DOMAIN fetched /\ fetched'[s] = fetched[s]
    PROVE  Follows(s, id)'
  <1>1. \A e \in OnTheWay(s, id) : Of(e, s, id)
    BY DEF OnTheWay
  <1>2. \A e \in OnTheWay(s, id)' : Says(e, truth'[s]) \/ \E f \in OnTheWay(s, id)' : e.n < f.n
    <2> SUFFICES ASSUME NEW e \in OnTheWay(s, id), ~(\E f \in OnTheWay(s, id) : e.n < f.n)
                 PROVE  Says(e, truth'[s])
      OBVIOUS
    <2>1. Says(e, truth[s])
      BY DEF Follows
    <2>2. Agree(truth[s], truth'[s], id)
      BY DEF Agree
    <2> QED
      BY <1>1, <2>1, <2>2, AgreeSays
  <1>3. OnTheWay(s, id)' = {} /\ snap' # Nil => Agree(heap'[snap'][s], truth'[s], id)
    BY DEF Follows, Agree
  <1>4. Arriving(s, id)' = {} /\ s \in DOMAIN fetched' => Agree(fetched'[s], truth'[s], id)
    BY DEF Follows, Agree
  <1> QED
    BY <1>2, <1>3, <1>4 DEF Follows

(* A step that applies the oldest change of a record to the snapshot in use. *)
LEMMA FollowsTaken ==
    ASSUME NEW s \in Sources, NEW id \in IDs, Follows(s, id),
           NEW e \in OnTheWay(s, id),
           OnTheWay(s, id)' = OnTheWay(s, id) \ {e},
           \A f \in OnTheWay(s, id) : f.n \in Nat,
           \A f \in OnTheWay(s, id)' : e.n < f.n,
           Says(e, heap'[snap'][s]),
           UNCHANGED <<truth, fetched>>, Arriving(s, id)' = Arriving(s, id)
    PROVE  Follows(s, id)'
  <1>1. \A f \in OnTheWay(s, id)' : Says(f, truth'[s]) \/ \E h \in OnTheWay(s, id)' : f.n < h.n
    <2> SUFFICES ASSUME NEW f \in OnTheWay(s, id)', ~Says(f, truth[s])
                 PROVE  \E h \in OnTheWay(s, id)' : f.n < h.n
      OBVIOUS
    <2>1. PICK h \in OnTheWay(s, id) : f.n < h.n
      BY DEF Follows
    <2>2. h # e
      BY <2>1
    <2> QED
      BY <2>1, <2>2
  <1>2. OnTheWay(s, id)' = {} => Agree(heap'[snap'][s], truth'[s], id)
    <2> SUFFICES ASSUME OnTheWay(s, id)' = {} PROVE Agree(heap'[snap'][s], truth[s], id)
      OBVIOUS
    <2>1. OnTheWay(s, id) = {e}
      OBVIOUS
    <2>2. Says(e, truth[s])
      BY <2>1 DEF Follows
    <2>3. Of(e, s, id)
      BY DEF OnTheWay
    <2> QED
      BY <2>2, <2>3, SaysAgree
  <1>3. Arriving(s, id)' = {} /\ s \in DOMAIN fetched' => Agree(fetched'[s], truth'[s], id)
    BY DEF Follows
  <1> QED
    BY <1>1, <1>2, <1>3 DEF Follows

(* Neither goroutine takes or drops an event. *)
LEMMA NothingMoves ==
    ASSUME UNCHANGED <<channel, pending, queue, snap>>,
           \/ goroutine'["reload"] = goroutine["reload"]
           \/ {goroutine["reload"].pc, goroutine'["reload"].pc} \cap {"apply", "patch"} = {},
           \/ goroutine'["subscriber"] = goroutine["subscriber"]
           \/ {goroutine["subscriber"].pc, goroutine'["subscriber"].pc}
                  \cap {"check", "apply", "patch"} = {}
    PROVE  SameWay /\ SameUnseen
  BY DEF SameWay, SameUnseen, Way, Unseen, Aimed, Deferred, Held, At

(* Such a step keeps Follows, for every record. *)
LEMMA StandStill ==
    ASSUME UpdatesOK, UNCHANGED <<truth, heap, snap, lost, overtaken>>, SameWay,
           (UNCHANGED fetched /\ SameUnseen) \/ fetched' = EmptyTable
    PROVE  UpdatesOK'
  <1> SUFFICES ASSUME ~lost, ~overtaken, NEW s \in Sources, NEW id \in IDs
               PROVE  Follows(s, id)'
    BY DEF UpdatesOK
  <1>1. Follows(s, id)
    BY DEF UpdatesOK
  <1>2. /\ OnTheWay(s, id)' = OnTheWay(s, id)
        /\ s \in DOMAIN fetched' => /\ Arriving(s, id)' = Arriving(s, id)
                                    /\ s \in DOMAIN fetched /\ fetched'[s] = fetched[s]
    BY SameOfRecord DEF EmptyTable
  <1>3. Agree(truth'[s], truth[s], id) /\ Agree(heap'[snap'][s], heap[snap][s], id)
    BY DEF Agree
  <1> QED
    BY <1>1, <1>2, <1>3, FollowsKept

(* The external system commits a change: it is the youngest on its way. *)
LEMMA ChangeUpdates ==
    ASSUME TypeOK, ControlOK, OrderOK, WayOK, UpdatesOK,
           NEW src \in Sources, NEW rec \in IDs, NEW kind \in Kinds, Change(src, rec, kind)
    PROVE  UpdatesOK'
  <1> DEFINE n == changes + 1
             ev == [n |-> n, src |-> src, id |-> rec, kind |-> kind]
             up == [id |-> rec, kind |-> kind, n |-> n]
  <1> SUFFICES ASSUME ~lost', ~overtaken', NEW s \in Sources, NEW id \in IDs
               PROVE  Follows(s, id)'
    BY DEF UpdatesOK
  <1>1. /\ channel' = Append(channel, ev) /\ ~lost /\ ~overtaken
        /\ UNCHANGED <<heap, snap, pending, goroutine, fetched, queue>>
        /\ truth' = [truth EXCEPT ![src] = Patched(@, up)]
    BY DEF Change, Publish
  <1>2. Follows(s, id)
    BY <1>1 DEF UpdatesOK
  <1>3. ev \in Event /\ channel \in Seq(Event)
    BY MaxChangesAssumption DEF TypeOK, Change, Event
  <1>4. Range(channel') = Range(channel) \cup {ev}
    BY <1>1, <1>3, RangeAppend
  <1>5. Unseen' = Unseen \cup {ev} /\ Way' = Way \cup {ev}
    BY <1>1, <1>4 DEF Unseen, Way, Aimed, Deferred, Held, At
  <1>6. /\ OnTheWay(s, id)' = OnTheWay(s, id) \cup {e \in {ev} : Of(e, s, id)}
        /\ Arriving(s, id)' = Arriving(s, id) \cup {e \in {ev} : Of(e, s, id)}
    BY <1>5 DEF OnTheWay, Arriving
  <1>7. CASE Of(ev, s, id)
    <2>1. s = src /\ id = rec /\ kind \in {"upsert", "delete"}
      BY <1>7 DEF Of
    <2>2. Says(ev, truth'[s])
      <3>1. truth'[s] = Patched(truth[s], up)
        BY <1>1, <2>1 DEF TypeOK
      <3>2. Says(up, truth'[s])
        BY <2>1, <3>1, PatchedSays
      <3> QED
        BY <3>2 DEF Says
    <2>3. \A e \in OnTheWay(s, id) : e.n < ev.n
      <3>1. \A e \in Way : e.n \in Nat /\ e.n <= changes
        BY WayPast
      <3>2. changes \in Nat /\ ev.n = changes + 1
        BY MaxChangesAssumption DEF TypeOK
      <3> QED
        BY <3>1, <3>2 DEF OnTheWay
    <2>4. ev \in OnTheWay(s, id)' /\ ev \in Arriving(s, id)'
      BY <1>6, <1>7
    <2>5. \A e \in OnTheWay(s, id)' : Says(e, truth'[s]) \/ \E f \in OnTheWay(s, id)' : e.n < f.n
      BY <1>6, <2>2, <2>3, <2>4
    <2> HIDE DEF ev
    <2> QED
      BY <2>4, <2>5 DEF Follows
  <1>8. CASE ~Of(ev, s, id)
    <2>1. OnTheWay(s, id)' = OnTheWay(s, id) /\ Arriving(s, id)' = Arriving(s, id)
      BY <1>6, <1>8
    <2>2. Agree(truth'[s], truth[s], id)
      <3>1. CASE s # src
        BY <1>1, <3>1 DEF TypeOK, Agree
      <3>2. CASE s = src
        <4>1. truth'[s] = Patched(truth[s], up)
          BY <1>1, <3>2 DEF TypeOK
        <4>2. up.id # id \/ up.kind \notin {"upsert", "delete"}
          BY <1>8, <3>2 DEF Of
        <4> HIDE DEF up
        <4> QED
          BY <4>1, <4>2, PatchedElse
      <3> QED
        BY <3>1, <3>2
    <2>3. Agree(heap'[snap'][s], heap[snap][s], id)
      BY <1>1 DEF Agree
    <2> QED
      BY <1>1, <1>2, <2>1, <2>2, <2>3, FollowsKept
  <1> QED
    BY <1>7, <1>8

(* The reload takes over what a source answers. *)
LEMMA LoadUpdates ==
    ASSUME TypeOK, UpdatesOK, NEW src \in Sources, LoadBinds(src)
    PROVE  UpdatesOK'
  <1> SUFFICES ASSUME ~lost, ~overtaken, NEW s \in Sources, NEW id \in IDs
               PROVE  Follows(s, id)'
    BY DEF LoadBinds, UpdatesOK, history
  <1>1. Follows(s, id)
    BY DEF UpdatesOK
  <1>2. SameWay /\ SameUnseen
    <2>1. /\ goroutine["reload"].pc = "binds" /\ goroutine'["reload"].pc \in {"binds", "deferred"}
          /\ goroutine'["subscriber"] = goroutine["subscriber"]
      BY GotoEffect DEF LoadBinds, TypeOK, At, Goroutines
    <2> QED
      BY <2>1, NothingMoves DEF LoadBinds, external
  <1>3. OnTheWay(s, id)' = OnTheWay(s, id) /\ Arriving(s, id)' = Arriving(s, id)
    BY <1>2, SameOfRecord
  <1>4. UNCHANGED <<truth, heap, snap>>
    BY DEF LoadBinds, external
  <1>5. s \in DOMAIN fetched' => fetched'[s] = truth[s] \/ (s \in DOMAIN fetched /\ fetched'[s] = fetched[s])
    BY DEF LoadBinds
  <1>6. Arriving(s, id)' = {} /\ s \in DOMAIN fetched' => Agree(fetched'[s], truth'[s], id)
    BY <1>1, <1>3, <1>4, <1>5 DEF Follows, Agree
  <1> QED
    BY <1>1, <1>3, <1>4, <1>6 DEF Follows

(* The reload publishes what it has loaded. *)
LEMMA StoreUpdates ==
    ASSUME TypeOK, ControlOK, WayOK, UpdatesOK, StoreSnapshot
    PROVE  UpdatesOK'
  <1> USE DEF Goroutines, At
  <1> SUFFICES ASSUME ~lost, ~overtaken, NEW s \in Sources, NEW id \in IDs
               PROVE  Follows(s, id)'
    BY DEF StoreSnapshot, UpdatesOK, history
  <1>1. Follows(s, id)
    BY DEF UpdatesOK
  <1>2. snap' \in Slots /\ snap' # goroutine["subscriber"].slot
    <2>1. goroutine["reload"].slot = Nil
      BY DEF StoreSnapshot, ControlOK, HoldsOK
    <2>2. FreeSlots = Slots \ {snap, Nil, goroutine["subscriber"].slot}
      BY <2>1 DEF FreeSlots
    <2>3. Slots \ {snap, goroutine["subscriber"].slot} # {}
      BY SlotsAssumption DEF TypeOK, GoroutineState
    <2>4. FreeSlots # {}
      BY <2>2, <2>3, SlotsAssumption
    <2> QED
      BY <2>2, <2>4 DEF StoreSnapshot
  <1>3. heap'[snap'] = fetched /\ DOMAIN fetched = Sources
    BY <1>2 DEF StoreSnapshot
  <1>4. /\ UNCHANGED <<truth, channel, pending, queue>> /\ fetched' = EmptyTable
        /\ goroutine["reload"].pc = "binds" /\ goroutine'["reload"].pc = "count"
        /\ goroutine'["subscriber"] = goroutine["subscriber"]
    BY DEF StoreSnapshot, external, TypeOK, GoroutineState
  <1>5. Deferred = {} /\ Deferred' = {}
    <2>1. queue = << >>
      BY <1>4 DEF ControlOK, DeferOK
    <2> QED
      BY <1>4, <2>1, RangeEmpty DEF Deferred, Held
  <1>6. Unseen' = Unseen
    BY <1>4 DEF Unseen, Held
  <1>7. Aimed' = {} \/ Aimed' = Aimed
    BY <1>2, <1>4 DEF Aimed, Held
  <1>8. Aimed' # Aimed => /\ Aimed = {goroutine["subscriber"].ev}
                          /\ goroutine["subscriber"].pc = "patch" /\ Unseen = Range(channel)
                          /\ \A e \in Range(channel) : goroutine["subscriber"].ev.n < e.n
    <2>1. Aimed' # Aimed => goroutine["subscriber"].pc = "patch" /\ Aimed = {goroutine["subscriber"].ev}
      BY <1>2, <1>4 DEF Aimed, Held
    <2>2. goroutine["subscriber"].pc = "patch" => Unseen = Range(channel)
      BY RangeEmpty DEF WayOK, Unseen, Held
    <2> QED
      BY <2>1, <2>2 DEF WayOK
  <1>9. \A e \in OnTheWay(s, id)' : Says(e, truth[s]) \/ \E f \in OnTheWay(s, id)' : e.n < f.n
    <2>1. CASE Aimed' = Aimed
      <3>1. OnTheWay(s, id)' = OnTheWay(s, id)
        BY <1>5, <1>6, <2>1 DEF OnTheWay, Way
      <3> QED
        BY <1>1, <3>1 DEF Follows
    <2>2. CASE Aimed' # Aimed
      <3>1. \A e \in Event : e.n \in Nat
        BY MaxChangesAssumption DEF Event
      <3>2. \A e \in Range(channel) : e \in Event
        BY DEF TypeOK, Range
      <3>3. goroutine["subscriber"].ev \in Event
        BY <1>8, <2>2 DEF ControlOK, HoldsOK
      <3>4. /\ OnTheWay(s, id)' = {e \in Range(channel) : Of(e, s, id)}
            /\ OnTheWay(s, id) = {e \in Range(channel) \cup {goroutine["subscriber"].ev} : Of(e, s, id)}
        BY <1>5, <1>6, <1>7, <1>8, <2>2 DEF OnTheWay, Way
      <3> SUFFICES ASSUME NEW e \in OnTheWay(s, id)', ~Says(e, truth[s])
                   PROVE  \E f \in OnTheWay(s, id)' : e.n < f.n
        OBVIOUS
      <3>5. PICK f \in OnTheWay(s, id) : e.n < f.n
        BY <1>1, <3>4 DEF Follows
      <3>6. e \in Range(channel) /\ goroutine["subscriber"].ev.n < e.n
        BY <1>8, <2>2, <3>4
      <3>7. f # goroutine["subscriber"].ev
        BY <3>1, <3>2, <3>3, <3>5, <3>6
      <3> QED
        BY <3>4, <3>5, <3>7
    <2> QED
      BY <2>1, <2>2
  <1>10. OnTheWay(s, id)' = {} => Agree(heap'[snap'][s], truth[s], id)
    <2>1. Arriving(s, id) \subseteq OnTheWay(s, id)'
      BY <1>6 DEF Arriving, OnTheWay, Way
    <2> QED
      BY <1>1, <1>3, <2>1 DEF Follows
  <1>11. s \notin DOMAIN fetched'
    BY <1>4 DEF EmptyTable
  <1> QED
    BY <1>4, <1>9, <1>10, <1>11 DEF Follows

(* What a patch does to the snapshot in use. *)
LEMMA PatchEffect ==
    ASSUME TypeOK, ControlOK, NEW g \in Goroutines, Patch(g), goroutine[g].slot = snap,
           NEW s \in Sources, NEW id \in IDs
    PROVE  /\ Of(goroutine[g].ev, s, id) => Says(goroutine[g].ev, heap'[snap'][s])
           /\ ~Of(goroutine[g].ev, s, id) => Agree(heap'[snap'][s], heap[snap][s], id)
  <1> DEFINE ev == goroutine[g].ev
  <1>1. ev \in Event /\ snap \in Slots /\ snap' = snap
    BY DEF Patch, ControlOK, HoldsOK, At
  <1>2. /\ s = ev.src => heap'[snap'][s] = Patched(heap[snap][s], ev)
        /\ s # ev.src => heap'[snap'][s] = heap[snap][s]
    BY <1>1 DEF Patch, TypeOK
  <1> HIDE DEF ev
  <1>3. ASSUME Of(ev, s, id) PROVE Says(ev, heap'[snap'][s])
    BY <1>2, <1>3, PatchedSays DEF Of
  <1>4. ASSUME ~Of(ev, s, id) PROVE Agree(heap'[snap'][s], heap[snap][s], id)
    <2>1. CASE s # ev.src
      BY <1>2, <2>1 DEF Agree
    <2>2. CASE s = ev.src
      BY <1>2, <1>4, <2>2, PatchedElse DEF Of
    <2> QED
      BY <2>1, <2>2
  <1> QED
    BY <1>3, <1>4 DEF ev

(* A goroutine applies the event that is the oldest of its record. *)
LEMMA OldestApplied ==
    ASSUME TypeOK, ControlOK, OrderOK, WayOK, UpdatesOK,
           NEW g \in Goroutines, Patch(g), goroutine[g].slot = snap, ~lost', ~overtaken',
           NEW s \in Sources, NEW id \in IDs,
           Arriving(s, id)' = Arriving(s, id),
           Of(goroutine[g].ev, s, id) => goroutine[g].ev \in OnTheWay(s, id),
           OnTheWay(s, id)' = OnTheWay(s, id) \ {goroutine[g].ev},
           Of(goroutine[g].ev, s, id) => \A f \in OnTheWay(s, id)' : goroutine[g].ev.n < f.n
    PROVE  Follows(s, id)'
  <1>1. Follows(s, id) /\ UNCHANGED <<truth, fetched, snap>>
    BY DEF UpdatesOK, Patch, external, reload
  <1>2. CASE Of(goroutine[g].ev, s, id)
    <2>1. \A f \in OnTheWay(s, id) : f.n \in Nat
      BY WayPast DEF OnTheWay
    <2>2. Says(goroutine[g].ev, heap'[snap'][s])
      BY <1>2, PatchEffect
    <2> QED
      BY <1>1, <1>2, <2>1, <2>2, FollowsTaken
  <1>3. CASE ~Of(goroutine[g].ev, s, id)
    <2>1. OnTheWay(s, id)' = OnTheWay(s, id)
      BY <1>3 DEF OnTheWay
    <2>2. Agree(heap'[snap'][s], heap[snap][s], id) /\ Agree(truth'[s], truth[s], id)
      BY <1>1, <1>3, PatchEffect DEF Agree
    <2> QED
      BY <1>1, <2>1, <2>2, FollowsKept
  <1> QED
    BY <1>2, <1>3

(* The reload replays an event: everything else is younger. *)
LEMMA ReplayUpdates ==
    ASSUME TypeOK, ControlOK, OrderOK, WayOK, UpdatesOK, Patch("reload")
    PROVE  UpdatesOK'
  <1> USE DEF Goroutines, At
  <1> DEFINE ev == goroutine["reload"].ev
             Rest == Unseen \cup Aimed \cup Range(queue)
  <1> SUFFICES ASSUME ~lost', ~overtaken', NEW s \in Sources, NEW id \in IDs
               PROVE  Follows(s, id)'
    BY DEF UpdatesOK
  <1>1. /\ UNCHANGED <<channel, pending, queue, snap>>
        /\ goroutine["reload"].pc = "patch" /\ goroutine'["reload"].pc = "publish"
        /\ goroutine'["subscriber"] = goroutine["subscriber"]
    BY DEF Patch, external, reload, TypeOK, GoroutineState
  <1>2. goroutine["reload"].slot = snap /\ ev \in Event
    BY <1>1 DEF ControlOK, HoldsOK
  <1>3. Unseen' = Unseen /\ Aimed' = Aimed
    BY <1>1 DEF Unseen, Aimed, Held
  <1>4. Deferred = Range(queue) \cup {ev} /\ Deferred' = Range(queue)
    BY <1>1 DEF Deferred, Held
  <1>5. Way = Rest \cup {ev} /\ Way' = Rest
    BY <1>3, <1>4 DEF Way
  <1>6. \A e \in Rest : ev.n < e.n
    <2>1. \A e \in Range(queue) \cup Range(pending) : ev.n < e.n
      BY <1>1 DEF WayOK
    <2>2. Older(ev)
      BY <1>1 DEF OrderOK
    <2>3. \A e \in Range(channel) \cup Held("subscriber", {"check"}) : ev.n < e.n
      BY <2>2 DEF Older, Range, Held, Checking
    <2>4. \A e \in Aimed : ev.n < e.n
      BY <1>4 DEF WayOK, Aimed, Held
    <2> QED
      BY <2>1, <2>3, <2>4 DEF Unseen
  <1>7. ev \notin Rest
    <2>1. ev.n \in Nat
      BY <1>2, MaxChangesAssumption DEF Event
    <2> QED
      BY <1>6, <2>1
  <1> HIDE DEF ev, Rest
  <1>8. /\ Arriving(s, id)' = Arriving(s, id)
        /\ Of(ev, s, id) => ev \in OnTheWay(s, id)
        /\ OnTheWay(s, id)' = OnTheWay(s, id) \ {ev}
        /\ Of(ev, s, id) => \A f \in OnTheWay(s, id)' : ev.n < f.n
    BY <1>3, <1>5, <1>6, <1>7 DEF Arriving, OnTheWay
  <1> QED
    BY <1>2, <1>8, OldestApplied DEF ev

(* The subscriber applies an event: unless it overtakes one that is deferred, *)
(* everything else of the record is younger.                                   *)
LEMMA ApplyUpdates ==
    ASSUME TypeOK, ControlOK, OrderOK, WayOK, UpdatesOK, Patch("subscriber")
    PROVE  UpdatesOK'
  <1> USE DEF Goroutines, At
  <1> DEFINE ev == goroutine["subscriber"].ev
  <1> SUFFICES ASSUME ~lost', ~overtaken', NEW s \in Sources, NEW id \in IDs
               PROVE  Follows(s, id)'
    BY DEF UpdatesOK
  <1>1. /\ UNCHANGED <<truth, channel, pending, queue, snap, fetched>>
        /\ goroutine["subscriber"].pc = "patch" /\ goroutine'["subscriber"].pc = "publish"
        /\ goroutine'["reload"] = goroutine["reload"]
    BY DEF Patch, external, reload, TypeOK, GoroutineState
  <1>2. ev \in Event /\ goroutine["subscriber"].slot \in Slots
    BY <1>1 DEF ControlOK, HoldsOK
  <1>3. Unseen' = Unseen /\ Deferred' = Deferred /\ Aimed' = {}
    BY <1>1 DEF Unseen, Deferred, Aimed, Held
  <1>4. Unseen = Range(channel)
    BY <1>1, RangeEmpty DEF Unseen, Held, WayOK
  <1>5. CASE goroutine["subscriber"].slot = snap
    <2>1. Aimed = {ev}
      BY <1>1, <1>5 DEF Aimed, Held
    <2>2. Of(ev, s, id) => \A d \in Deferred : ~Of(d, s, id)
      <3>1. \A d \in Deferred : ~SameRecord(d, ev)
        BY DEF Patch
      <3> QED
        BY <3>1 DEF SameRecord, Of
    <2>3. /\ \A e \in Range(channel) : ev.n < e.n
          /\ \A e \in Deferred : e.n < ev.n
      BY <1>1 DEF WayOK
    <2>4. ev \notin Range(channel) /\ ev \notin Deferred
      <3>1. ev.n \in Nat
        BY <1>2, MaxChangesAssumption DEF Event
      <3> QED
        BY <2>3, <3>1
    <2>5. Way = Range(channel) \cup {ev} \cup Deferred /\ Way' = Range(channel) \cup Deferred
      BY <1>3, <1>4, <2>1 DEF Way
    <2> HIDE DEF ev
    <2>6. /\ Arriving(s, id)' = Arriving(s, id)
          /\ Of(ev, s, id) => ev \in OnTheWay(s, id)
          /\ OnTheWay(s, id)' = OnTheWay(s, id) \ {ev}
          /\ Of(ev, s, id) => \A f \in OnTheWay(s, id)' : ev.n < f.n
      BY <1>3, <2>2, <2>3, <2>4, <2>5 DEF Arriving, OnTheWay
    <2> QED
      BY <1>5, <2>6, OldestApplied DEF ev
  <1>6. CASE goroutine["subscriber"].slot # snap
    <2>1. Aimed = {}
      BY <1>1, <1>6 DEF Aimed
    <2>2. OnTheWay(s, id)' = OnTheWay(s, id) /\ Arriving(s, id)' = Arriving(s, id)
      BY <1>3, <2>1 DEF OnTheWay, Arriving, Way
    <2>3. snap \in Slots
      BY <1>1 DEF ControlOK, PhaseOK, TypeOK
    <2>4. heap'[snap'] = heap[snap]
      BY <1>1, <1>2, <1>6, <2>3 DEF Patch, TypeOK
    <2>5. Follows(s, id)
      BY DEF UpdatesOK, Patch
    <2>6. Agree(heap'[snap'][s], heap[snap][s], id) /\ Agree(truth'[s], truth[s], id)
      BY <1>1, <2>4 DEF Agree
    <2> QED
      BY <1>1, <2>2, <2>5, <2>6, FollowsKept
  <1> QED
    BY <1>5, <1>6

(* Every step keeps what is on its way in agreement with the external system. *)
LEMMA UpdatesStep ==
    ASSUME TypeOK, ControlOK, OrderOK, FetchedOK, WayOK, UpdatesOK, [Next]_vars
    PROVE  UpdatesOK'
  <1> USE DEF Goroutines, At
  <1>t. /\ goroutine \in [Goroutines -> GoroutineState]
        /\ queue \in Seq(Event) /\ pending \in Seq(Event) /\ channel \in Seq(Event)
    BY DEF TypeOK
  <1>1. ASSUME NEW s \in Sources, NEW id \in IDs, NEW kind \in Kinds, Change(s, id, kind)
        PROVE  UpdatesOK'
    BY <1>1, ChangeUpdates
  <1>2. ASSUME NEW s \in Sources, LoadBinds(s)
        PROVE  UpdatesOK'
    BY <1>2, LoadUpdates
  <1>3. CASE StoreSnapshot
    BY <1>3, StoreUpdates
  <1>4. CASE Patch("reload")
    BY <1>4, ReplayUpdates
  <1>5. CASE Patch("subscriber")
    BY <1>5, ApplyUpdates
  <1>6. CASE Toggle \/ Close \/ UNCHANGED vars
    <2>1. SameWay /\ SameUnseen
      BY <1>6, NothingMoves DEF Toggle, Close, vars, external, reload
    <2> QED
      BY <1>6, <2>1, StandStill DEF Toggle, Close, vars, external, reload, history
  <1>7. CASE StartReload \/ LoadDevices
    <2>1. /\ goroutine["reload"].pc \notin {"apply", "patch"}
          /\ goroutine'["reload"].pc \notin {"apply", "patch"}
          /\ goroutine'["subscriber"] = goroutine["subscriber"]
      BY <1>7, <1>t, GotoEffect DEF StartReload, LoadDevices
    <2>2. SameWay /\ SameUnseen
      BY <1>7, <2>1, NothingMoves DEF StartReload, LoadDevices, external, reload
    <2> QED
      BY <1>7, <2>2, StandStill DEF StartReload, LoadDevices, external, reload, history
  <1>8. ASSUME NEW s \in Sources, CountBinds(s)
        PROVE  UpdatesOK'
    <2>1. /\ goroutine["reload"].pc = "count" /\ goroutine'["reload"].pc = "setGauge"
          /\ goroutine'["subscriber"] = goroutine["subscriber"]
      BY <1>8, <1>t DEF CountBinds, GoroutineState
    <2>2. SameWay /\ SameUnseen
      BY <1>8, <2>1, NothingMoves DEF CountBinds, external
    <2> QED
      BY <1>8, <2>2, StandStill DEF CountBinds, external, history
  <1>9. CASE SetClientDBBinds \/ EndReload
    <2>1. /\ goroutine["reload"].pc \notin {"apply", "patch"}
          /\ goroutine'["reload"].pc \notin {"apply", "patch"}
          /\ goroutine'["subscriber"] = goroutine["subscriber"]
      BY <1>9, <1>t, GotoEffect, ParkEffect DEF SetClientDBBinds, EndReload
    <2>2. SameWay /\ SameUnseen
      BY <1>9, <2>1, NothingMoves DEF SetClientDBBinds, EndReload, external, reload
    <2> QED
      BY <1>9, <2>2, StandStill DEF SetClientDBBinds, EndReload, external, reload, history
  <1>10. CASE TakePending
    <2>1. /\ UNCHANGED <<channel, snap>> /\ queue' = pending /\ pending' = << >>
          /\ goroutine["reload"].pc = "deferred" /\ goroutine'["reload"].pc = "replay"
          /\ goroutine'["subscriber"] = goroutine["subscriber"]
      BY <1>10, <1>t, ParkEffect DEF TakePending, external
    <2>2. queue = << >>
      BY <2>1 DEF ControlOK, DeferOK
    <2>3. Way' = Way
      BY <2>1, <2>2, RangeEmpty DEF Way, Unseen, Aimed, Deferred, Held
    <2> QED
      BY <1>10, <2>3, StandStill DEF TakePending, external, history, SameWay
  <1>11. CASE NextDeferred
    <2>1. /\ UNCHANGED <<channel, pending, snap>> /\ queue # << >> /\ queue' = Tail(queue)
          /\ goroutine["reload"].pc = "replay" /\ goroutine'["reload"].pc = "apply"
          /\ goroutine'["reload"].ev = Head(queue)
          /\ goroutine'["subscriber"] = goroutine["subscriber"]
      BY <1>11, <1>t DEF NextDeferred, external, GoroutineState
    <2>2. Deferred' = Deferred
      BY <1>t, <2>1, RangeSplit DEF Deferred, Held
    <2>3. Unseen' = Unseen /\ Way' = Way
      BY <2>1, <2>2 DEF Way, Unseen, Aimed, Held
    <2> QED
      BY <1>11, <2>3, StandStill DEF NextDeferred, external, history, SameWay, SameUnseen
  <1>12. CASE Subscribe
    <2>1. /\ goroutine["reload"].pc = "subscribe"
          /\ goroutine'["reload"].pc \notin {"apply", "patch"}
          /\ \/ goroutine'["subscriber"] = goroutine["subscriber"]
             \/ goroutine["subscriber"].pc = "off" /\ goroutine'["subscriber"].pc = "idle"
      BY <1>12, <1>t, ParkEffect DEF Subscribe, Parked, ControlOK, PhaseOK
    <2>2. SameWay /\ SameUnseen
      BY <1>12, <2>1, NothingMoves DEF Subscribe, external, reload
    <2> QED
      BY <1>12, <2>2, StandStill DEF Subscribe, external, reload, history
  <1>13. CASE Receive
    <2> DEFINE ev == Head(channel)
    <2>1. /\ UNCHANGED <<pending, queue, snap>> /\ channel # << >> /\ channel' = Tail(channel)
          /\ goroutine["subscriber"].pc = "idle"
          /\ goroutine'["reload"] = goroutine["reload"]
      BY <1>13, <1>t DEF Receive, reload
    <2>2. \/ ev.kind = "garbage" /\ goroutine'["subscriber"] = goroutine["subscriber"]
          \/ goroutine'["subscriber"].pc = "check" /\ goroutine'["subscriber"].ev = ev
      BY <1>13, <1>t DEF Receive, GoroutineState
    <2>3. Range(channel) = {ev} \cup Range(channel')
      BY <1>t, <2>1, RangeSplit
    <2>4. Deferred' = Deferred /\ Aimed' = {} /\ Aimed = {}
      BY <2>1, <2>2 DEF Deferred, Aimed, Held
    <2> HIDE DEF ev
    <2>5. Unseen = {ev} \cup Range(channel') \cup Range(pending)
      BY <2>1, <2>3 DEF Unseen, Held
    <2>6. \/ Unseen' = Unseen
          \/ ev.kind = "garbage" /\ Unseen = Unseen' \cup {ev}
      BY <2>1, <2>2, <2>5 DEF Unseen, Held
    <2>7. SameWay /\ SameUnseen
      BY <2>4, <2>6 DEF SameWay, SameUnseen, Way
    <2> QED
      BY <1>13, <2>7, StandStill DEF Receive, reload, history
  <1>14. CASE ApplyBindEvent
    <2> DEFINE ev == goroutine["subscriber"].ev
    <2>1. /\ UNCHANGED <<channel, queue, snap>> /\ goroutine["subscriber"].pc = "check"
          /\ goroutine'["reload"] = goroutine["reload"]
      BY <1>14, <1>t, GotoEffect, ParkEffect DEF ApplyBindEvent, external, reload
    <2>2. Unseen = Range(channel) \cup Range(pending) \cup {ev} /\ Deferred' = Deferred /\ Aimed = {}
      BY <2>1 DEF Unseen, Deferred, Aimed, Held
    <2>3. CASE reloading
      <3>1. /\ pending' = Append(pending, ev) /\ goroutine'["subscriber"].pc = "idle"
        BY <1>14, <1>t, <2>3, ParkEffect DEF ApplyBindEvent
      <3>2. ev \in Event
        BY <2>1 DEF ControlOK, HoldsOK
      <3>3. Range(pending') = Range(pending) \cup {ev}
        BY <1>t, <3>1, <3>2, RangeAppend
      <3>4. Unseen' = Unseen /\ Aimed' = {}
        BY <2>1, <2>2, <3>1, <3>3 DEF Unseen, Aimed, Held
      <3>5. SameWay /\ SameUnseen
        BY <2>2, <3>4 DEF SameWay, SameUnseen, Way
      <3> QED
        BY <1>14, <3>5, StandStill DEF ApplyBindEvent, external, reload, history
    <2>4. CASE ~reloading
      <3>1. UNCHANGED pending /\ goroutine'["subscriber"].pc = "apply" /\ goroutine'["subscriber"].ev = ev
        BY <1>14, <1>t, <2>4, GotoEffect DEF ApplyBindEvent
      <3>2. Unseen' = Range(channel) \cup Range(pending) /\ Aimed' = {ev}
        BY <2>1, <3>1 DEF Unseen, Aimed, Held
      <3>3. SameWay
        BY <2>2, <3>2 DEF SameWay, Way
      <3>4. DOMAIN fetched = {}
        BY <2>4 DEF FetchedOK, ControlOK, DeferOK
      <3>5. fetched' = EmptyTable
        <4>1. fetched' = fetched
          BY <1>14 DEF ApplyBindEvent, reload
        <4>2. fetched \in [{} -> Table]
          BY <3>4 DEF TypeOK
        <4> QED
          BY <4>1, <4>2 DEF EmptyTable
      <3> QED
        BY <1>14, <3>3, <3>5, StandStill DEF ApplyBindEvent, external, reload, history
    <2> QED
      BY <2>3, <2>4
  <1>15. ASSUME NEW g \in Goroutines, LoadCurrent(g)
         PROVE  UpdatesOK'
    <2> DEFINE ev == goroutine[g].ev
    <2>1. /\ UNCHANGED <<channel, queue, pending, snap>> /\ goroutine[g].pc = "apply"
      BY <1>15 DEF LoadCurrent, external, reload
    <2>2. \/ ev.kind = "invalid" /\ goroutine'[g].pc \in {"replay", "idle"}
          \/ goroutine'[g].pc = "patch" /\ goroutine'[g].slot = snap /\ goroutine'[g].ev = ev
      BY <1>15, <1>t, ParkEffect DEF LoadCurrent, Return, GoroutineState
    <2>3. \A h \in Goroutines \ {g} : goroutine'[h] = goroutine[h]
      BY <1>15, <1>t, ParkEffect DEF LoadCurrent, Return
    <2>4. Unseen' = Unseen
      BY <2>1, <2>2, <2>3 DEF Unseen, Held
    <2>5. CASE g = "reload"
      <3>1. Aimed' = Aimed /\ Deferred = Range(queue) \cup {ev}
        BY <2>1, <2>3, <2>5 DEF Aimed, Deferred, Held
      <3>2. Deferred' = Deferred \/ (ev.kind = "invalid" /\ Deferred' = Range(queue))
        BY <2>1, <2>2, <2>5, <3>1 DEF Deferred, Held
      <3> HIDE DEF ev
      <3>3. SameWay
        BY <2>4, <3>1, <3>2 DEF SameWay, Way
      <3> QED
        BY <1>15, <2>4, <3>3, StandStill DEF LoadCurrent, external, reload, history, SameUnseen
    <2>6. CASE g = "subscriber"
      <3>1. Deferred' = Deferred /\ Aimed = {ev}
        BY <2>1, <2>3, <2>6 DEF Aimed, Deferred, Held
      <3>2. Aimed' = Aimed \/ (ev.kind = "invalid" /\ Aimed' = {})
        BY <2>1, <2>2, <2>6, <3>1 DEF Aimed, Held
      <3> HIDE DEF ev
      <3>3. SameWay
        BY <2>4, <3>1, <3>2 DEF SameWay, Way
      <3> QED
        BY <1>15, <2>4, <3>3, StandStill DEF LoadCurrent, external, reload, history, SameUnseen
    <2> QED
      BY <2>5, <2>6
  <1>16. ASSUME NEW g \in Goroutines, PublishCount(g) \/ Stop(g)
         PROVE  UpdatesOK'
    <2>1. /\ goroutine[g].pc \in {"publish", "idle"}
          /\ goroutine'[g].pc \in {"replay", "idle", "exited"}
          /\ \A h \in Goroutines \ {g} : goroutine'[h] = goroutine[h]
      BY <1>16, <1>t, ParkEffect DEF PublishCount, Stop, Return
    <2>2. SameWay /\ SameUnseen
      BY <1>16, <2>1, NothingMoves DEF PublishCount, Stop, external, reload
    <2> QED
      BY <1>16, <2>2, StandStill DEF PublishCount, Stop, external, reload, history
  <1> QED
    BY <1>1, <1>2, <1>3, <1>4, <1>5, <1>6, <1>7, <1>8, <1>9, <1>10, <1>11, <1>12, <1>13,
       <1>14, <1>15, <1>16
    DEF Next, ReloadStep, SubscriberStep

(* The initial states satisfy the rest of StoreInv. *)
LEMMA InitControl == Init => ControlOK /\ OrderOK /\ FetchedOK /\ WayOK /\ UpdatesOK
  <1> SUFFICES ASSUME Init PROVE ControlOK /\ OrderOK /\ FetchedOK /\ WayOK /\ UpdatesOK
    OBVIOUS
  <1>1. /\ goroutine["reload"] = Parked("begin")
        /\ goroutine["subscriber"] = Parked("off")
    BY DEF Init, Goroutines
  <1>2. ControlOK
    BY <1>1 DEF Init, ControlOK, PhaseOK, HoldsOK, DeferOK, Parked, Goroutines
  <1>3. OrderOK
    BY <1>1 DEF Init, OrderOK, Ascending, Checking, Parked
  <1>4. FetchedOK
    BY DEF Init, FetchedOK, EmptyTable
  <1>5. WayOK
    BY <1>1 DEF WayOK, Parked
  <1>6. UpdatesOK
    <2>1. Way = {} /\ snap = Nil /\ DOMAIN fetched = {}
      BY <1>1, RangeEmpty DEF Init, Way, Unseen, Aimed, Deferred, Held, Parked, At, EmptyTable
    <2> QED
      BY <2>1 DEF UpdatesOK, Follows, OnTheWay
  <1> QED
    BY <1>2, <1>3, <1>4, <1>5, <1>6

\* For any sources, records and number of changes: StoreInv holds in every state
\* of the Store, whatever the goroutines, Redis and the HTTP source do.
THEOREM StoreInvariant == Spec => []StoreInv
  <1>1. Init => StoreInv
    BY InitType, InitControl DEF StoreInv
  <1>2. StoreInv /\ [Next]_vars => StoreInv'
    BY ToType, ControlStep, OrderStep, FetchedStep, WayStep, UpdatesStep DEF StoreInv
  <1> QED
    BY <1>1, <1>2, PTL DEF Spec

\* No live update is lost between the two goroutines, whatever reloads happen and
\* however often: once every event has been received and both goroutines wait
\* again, scripts see exactly what the external system has (clientdb/store.go:113-156,
\* clientdb/live.go:123-137), unless Redis lost an event or an event was applied
\* before an older one of its record that was still deferred.
THEOREM NothingLost == Spec => []NoUpdateLost
  <1>1. StoreInv => NoUpdateLost
    <2> SUFFICES ASSUME StoreInv, Quiescent, ~lost, ~overtaken PROVE InSync
      BY DEF NoUpdateLost
    <2>1. /\ goroutine["reload"].pc = "idle" /\ goroutine["subscriber"].pc = "idle"
          /\ channel = << >> /\ phase = "running"
      BY DEF Quiescent, At, Goroutines
    <2>2. queue = << >> /\ pending = << >> /\ snap \in Slots /\ snap # Nil
      BY <2>1, SlotsAssumption DEF StoreInv, ControlOK, PhaseOK, DeferOK, TypeOK
    <2>3. Way = {}
      BY <2>1, <2>2, RangeEmpty DEF Way, Unseen, Aimed, Deferred, Held, At
    <2>4. \A s \in Sources, id \in IDs : Agree(heap[snap][s], truth[s], id)
      BY <2>2, <2>3 DEF StoreInv, UpdatesOK, Follows, OnTheWay
    <2>5. ASSUME NEW s \in Sources PROVE heap[snap][s] = truth[s]
      <3>a. heap[snap][s] \in Table /\ truth[s] \in Table
        BY <2>2 DEF StoreInv, TypeOK
      <3>1. PICK I \in SUBSET IDs : heap[snap][s] \in [I -> Versions]
        BY <3>a DEF Table
      <3>2. PICK J \in SUBSET IDs : truth[s] \in [J -> Versions]
        BY <3>a DEF Table
      <3>3. I = J /\ \A id \in I : heap[snap][s][id] = truth[s][id]
        BY <2>4, <3>1, <3>2 DEF Agree
      <3> QED
        BY <3>1, <3>2, <3>3
    <2>6. heap[snap] \in [Sources -> Table] /\ truth \in [Sources -> Table]
      BY <2>2 DEF StoreInv, TypeOK
    <2> QED
      BY <2>2, <2>5, <2>6 DEF InSync
  <1> QED
    BY <1>1, StoreInvariant, PTL

\* No event is left behind in pending when no reload will take it
\* (clientdb/store.go:118-134, clientdb/live.go:126-132).
THEOREM NothingLeftPending == Spec => []PendingOnlyWhileReloading
  <1>1. StoreInv => PendingOnlyWhileReloading
    BY DEF StoreInv, ControlOK, DeferOK, PendingOnlyWhileReloading
  <1> QED
    BY <1>1, StoreInvariant, PTL

\* A deferred event always patches the snapshot scripts read
\* (clientdb/store.go:121-134, doc/REDIS_BIND_EVENTS.md:136-140).
THEOREM DeferredHitCurrent == Spec => []ReplayPatchesCurrent
  <1>1. StoreInv => ReplayPatchesCurrent
    BY DEF StoreInv, ControlOK, HoldsOK, ReplayPatchesCurrent, At
  <1> QED
    BY <1>1, StoreInvariant, PTL

\* Deferred events wait in the order Redis delivered them, all of them before
\* everything received later (clientdb/live.go:128, clientdb/store.go:121-129).
THEOREM ArrivalOrderKept == Spec => []WaitInArrivalOrder
  <1>1. StoreInv => WaitInArrivalOrder
    BY OrderImplied DEF StoreInv
  <1> QED
    BY <1>1, StoreInvariant, PTL

\* The three together: what is deferred is taken, in its order, and patches the
\* snapshot in use (clientdb/store.go:118-134, clientdb/live.go:123-137).
THEOREM DeferralSafe == Spec => []DeferralInv
  <1>1. PendingOnlyWhileReloading /\ ReplayPatchesCurrent /\ WaitInArrivalOrder => DeferralInv
    BY DEF DeferralInv
  <1> QED
    BY <1>1, NothingLeftPending, DeferredHitCurrent, ArrivalOrderKept, PTL

\* Every snapshot that is published holds all sources, none of them empty: a
\* reload that fails half-way publishes nothing (clientdb/store.go:136-156).
THEOREM SnapshotsComplete == Spec => AllOrNothing
  <1> DEFINE Complete == snap' # Nil /\ \A s \in Sources : Count(heap'[snap'][s]) > 0
  <1>1. ASSUME StoreInv, StoreInv', [Next]_vars, snap' # snap
        PROVE  Complete
    <2>1. StoreSnapshot
      BY <1>1 DEF Next, ReloadStep, SubscriberStep, vars, external, reload, history, Change, Toggle,
         StartReload, LoadDevices, LoadBinds, CountBinds, SetClientDBBinds, TakePending, NextDeferred,
         EndReload, Subscribe, Receive, ApplyBindEvent, LoadCurrent, Patch, PublishCount, Close, Stop
    <2>2. snap' \in Slots
      BY <1>1, <2>1, SlotsAssumption DEF StoreInv, ControlOK, HoldsOK, StoreSnapshot, TypeOK,
         GoroutineState, Goroutines
    <2>3. heap'[snap'] = fetched /\ DOMAIN fetched = Sources
      BY <2>1, <2>2 DEF StoreSnapshot
    <2> QED
      BY <1>1, <2>2, <2>3, SlotsAssumption DEF StoreInv, FetchedOK
  <1>2. StoreInv /\ StoreInv' /\ [Next]_vars => [snap' # snap => Complete]_vars
    BY <1>1
  <1> QED
    BY <1>2, StoreInvariant, PTL DEF Spec, AllOrNothing
=============================================================================
