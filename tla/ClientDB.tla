------------------------------ MODULE ClientDB ------------------------------
(***************************************************************************)
(* The Store of clientdb (clientdb/store.go, clientdb/live.go): a snapshot *)
(* that a reload goroutine replaces as a whole, and that the subscriber    *)
(* goroutine patches record by record with the events Redis delivers.      *)
(*                                                                         *)
(* A record's content is abstracted to its version: the number of the      *)
(* change in the external system that produced it.  A bind source is a     *)
(* function from record IDs to versions; BindIndex shows that the index    *)
(* structure behind it behaves like one.  Snapshots live in Slots, the     *)
(* addresses the Go heap gives them; a slot nobody points to is reused, as *)
(* the garbage collector does.                                             *)
(***************************************************************************)
EXTENDS Naturals, Sequences, FiniteSets, Functions

CONSTANTS
    Sources,        \* the names under conf.Binds
    IDs,            \* record IDs
    Slots,          \* addresses of snapshots
    Nil,            \* no snapshot, no event
    MaxChanges      \* bound: changes the external system makes

ASSUME SourcesAssumption == Nil \notin Sources
ASSUME IDsAssumption == IsFiniteSet(IDs)
ASSUME SlotsAssumption == Nil \notin Slots /\ \A x, y \in Slots \cup {Nil} : Slots \ {x, y} # {}
ASSUME MaxChangesAssumption == MaxChanges \in Nat

VARIABLES
    \* the external system and Redis
    truth,          \* per source, the records the HTTP source would return
    changes,        \* number of changes and events so far
    healthy,        \* the HTTP source answers with status 200 and a list of devices
    channel,        \* events published to the subscription and not received yet
    \* the Store
    phase,          \* where New and Close are: starting, running, failed, closed
    heap,           \* per slot, the bind tables of the snapshot stored there
    snap,           \* the published snapshot
    reloading,      \* guarded by pendingMu
    pending,        \* guarded by pendingMu
    goroutine,      \* per goroutine: [pc, ev, slot, src, count]
    fetched,        \* reload: the tables loaded so far
    queue,          \* reload: deferred events still to be replayed
    todo,           \* reload: sources whose gauge is still to be set
    gauge,          \* per source, rad_clientdb_binds_count
    \* history
    lost,           \* an event was published that no subscription received
    overtaken       \* an event was applied before an older one of the same record

external == <<truth, changes, healthy, channel>>
reload   == <<fetched, queue, todo>>
vars     == <<truth, changes, healthy, channel, phase, heap, snap, reloading, pending,
              goroutine, fetched, queue, todo, gauge, lost, overtaken>>

history  == <<lost, overtaken>>

Goroutines == {"reload", "subscriber"}

Kinds == {"upsert", "delete", "invalid", "garbage"}

Event == [n : 1 .. MaxChanges, src : Sources, id : IDs, kind : Kinds]

EmptyTable == [id \in {} |-> 0]

put(t, id, v) == [i \in DOMAIN t \cup {id} |-> IF i = id THEN v ELSE t[i]]
remove(t, id) == [i \in DOMAIN t \ {id} |-> t[i]]
Count(t)      == Cardinality(DOMAIN t)

\* The effect of a validated event on the table of its source.
Patched(t, ev) ==
    CASE ev.kind = "upsert" -> put(t, ev.id, ev.n)
      [] ev.kind = "delete" -> remove(t, ev.id)
      [] OTHER              -> t

NoTables == [s \in Sources |-> EmptyTable]

\* Parked(pc): a goroutine at pc that holds no event and no snapshot.
Parked(pc) == [pc |-> pc, ev |-> Nil, slot |-> Nil, src |-> Nil, count |-> 0]

Goto(g, pc) == goroutine' = [goroutine EXCEPT ![g].pc = pc]
Park(g, pc) == goroutine' = [goroutine EXCEPT ![g] = Parked(pc)]
At(g, pc)   == goroutine[g].pc = pc

\* New calls reload before the subscription exists.
Init ==
    /\ truth \in [Sources -> {[id \in I |-> 0] : I \in SUBSET IDs}]
    /\ changes = 0
    /\ healthy \in BOOLEAN
    /\ channel = << >>
    /\ phase = "starting"
    /\ heap = [x \in Slots |-> NoTables]
    /\ snap = Nil
    /\ reloading = FALSE
    /\ pending = << >>
    /\ goroutine = [g \in Goroutines |-> Parked(IF g = "reload" THEN "begin" ELSE "off")]
    /\ fetched = EmptyTable
    /\ queue = << >>
    /\ todo = {}
    /\ gauge = [s \in Sources |-> 0]
    /\ lost = FALSE
    /\ overtaken = FALSE

-----------------------------------------------------------------------------
(* The external system commits a change, then publishes it. *)

\* Without a subscription, or when go-redis loses the connection, the event is
\* gone: pub/sub keeps no history.
Publish(ev) ==
    \/ /\ phase = "running"
       /\ channel' = Append(channel, ev)
       /\ UNCHANGED lost
    \/ /\ lost' = TRUE
       /\ UNCHANGED channel

Change(s, id, kind) ==
    LET n == changes + 1 IN
    /\ changes < MaxChanges /\ phase \in {"starting", "running"}
    /\ changes' = n
    /\ truth' = [truth EXCEPT ![s] = Patched(@, [id |-> id, kind |-> kind, n |-> n])]
    /\ Publish([n |-> n, src |-> s, id |-> id, kind |-> kind])
    /\ UNCHANGED <<healthy, phase, heap, snap, reloading, pending, goroutine, fetched, queue, todo, gauge, overtaken>>

\* The HTTP source goes down or comes back.
Toggle ==
    /\ healthy' = ~healthy
    /\ UNCHANGED <<truth, changes, channel, phase, heap, snap, reloading, pending, goroutine,
                   fetched, queue, todo, gauge, lost, overtaken>>

-----------------------------------------------------------------------------
(* reload *)

\* The ticker fires, or New makes its own call.
StartReload ==
    /\ At("reload", "begin") \/ (At("reload", "idle") /\ phase \in {"running", "closed"})
    /\ reloading' = TRUE
    /\ fetched' = EmptyTable
    /\ Goto("reload", "devices")
    /\ UNCHANGED <<external, phase, heap, snap, pending, queue, todo, gauge, history>>

\* A source that fails or answers with an empty list ends the reload.
\* Mutant of LoadDevices: a failed reload returns without the deferred function.
LoadDevices_ReturnsEarly ==
    /\ At("reload", "devices")
    /\ Goto("reload", IF healthy THEN "binds" ELSE IF phase = "starting" THEN "exited" ELSE "idle")
    /\ UNCHANGED <<external, phase, heap, snap, reloading, pending, reload, gauge, history>>

\* Mutant of LoadDevices: the ticker goroutine gives up after a failed reload.
LoadDevices_GivesUp ==
    /\ At("reload", "devices")
    /\ Goto("reload", IF healthy THEN "binds" ELSE "exited")
    /\ UNCHANGED <<external, phase, heap, snap, reloading, pending, reload, gauge, history>>

LoadDevices ==
    /\ At("reload", "devices")
    /\ Goto("reload", IF healthy THEN "binds" ELSE "deferred")
    /\ UNCHANGED <<external, phase, heap, snap, reloading, pending, reload, gauge, history>>

\* Mutant of LoadBinds: an empty list is taken for a valid answer.
LoadBinds_AcceptsEmpty(s) ==
    /\ At("reload", "binds") /\ s \notin DOMAIN fetched
    /\ IF healthy
       THEN /\ fetched' = [x \in DOMAIN fetched \cup {s} |-> IF x = s THEN truth[s] ELSE fetched[x]]
            /\ UNCHANGED goroutine
       ELSE /\ Goto("reload", "deferred")
            /\ UNCHANGED fetched
    /\ UNCHANGED <<external, phase, heap, snap, reloading, pending, queue, todo, gauge, history>>

\* Go ranges over conf.Binds in any order.
LoadBinds(s) ==
    /\ At("reload", "binds") /\ s \notin DOMAIN fetched
    /\ IF healthy /\ Count(truth[s]) > 0
       THEN /\ fetched' = [x \in DOMAIN fetched \cup {s} |-> IF x = s THEN truth[s] ELSE fetched[x]]
            /\ UNCHANGED goroutine
       ELSE /\ Goto("reload", "deferred")
            /\ UNCHANGED fetched
    /\ UNCHANGED <<external, phase, heap, snap, reloading, pending, queue, todo, gauge, history>>

\* A snapshot is kept alive by s.snap and by a goroutine that has loaded it.
FreeSlots == Slots \ ({snap} \cup {goroutine[g].slot : g \in Goroutines})

\* Mutant of StoreSnapshot: what has been loaded so far is published.
StoreSnapshot_Partial ==
    /\ At("reload", "binds") /\ fetched # EmptyTable
    /\ LET x == CHOOSE y \in FreeSlots : TRUE
       IN  /\ heap' = [heap EXCEPT ![x] = fetched]
           /\ snap' = x
           /\ Park("reload", "deferred")
    /\ fetched' = EmptyTable
    /\ UNCHANGED <<external, phase, reloading, pending, queue, todo, gauge, history>>

StoreSnapshot ==
    /\ At("reload", "binds") /\ DOMAIN fetched = Sources
    /\ LET x == CHOOSE y \in FreeSlots : TRUE
       IN  /\ heap' = [y \in Slots |-> IF y = x THEN fetched
                                     ELSE IF y = goroutine["subscriber"].slot THEN heap[y]
                                     ELSE NoTables]
           /\ snap' = x
           /\ goroutine' = [goroutine EXCEPT !["reload"].pc = "count", !["reload"].slot = x]
    /\ fetched' = EmptyTable
    /\ todo' = Sources
    /\ UNCHANGED <<external, phase, reloading, pending, queue, gauge, history>>

\* count := idx.Count() under mu, then the gauge, one source after the other.
CountBinds(s) ==
    /\ At("reload", "count") /\ s \in todo
    /\ goroutine' = [goroutine EXCEPT !["reload"].pc = "setGauge",
                                      !["reload"].src = s,
                                      !["reload"].count = Count(heap[goroutine["reload"].slot][s])]
    /\ todo' = todo \ {s}
    /\ UNCHANGED <<external, phase, heap, snap, reloading, pending, fetched, queue, gauge, history>>

SetClientDBBinds ==
    /\ At("reload", "setGauge")
    /\ gauge' = [gauge EXCEPT ![goroutine["reload"].src] = goroutine["reload"].count]
    /\ IF todo = {} THEN Park("reload", "deferred") ELSE Goto("reload", "count")
    /\ UNCHANGED <<external, phase, heap, snap, reloading, pending, reload, history>>

\* Mutant of TakePending: the queue is replayed but not emptied.
TakePending_KeepsPending ==
    /\ At("reload", "deferred")
    /\ queue' = pending
    /\ reloading' = FALSE
    /\ fetched' = EmptyTable
    /\ Park("reload", "replay")
    /\ UNCHANGED <<external, phase, heap, snap, pending, todo, gauge, history>>

\* The deferred function, on success and on failure alike.
TakePending ==
    /\ At("reload", "deferred")
    /\ queue' = pending
    /\ pending' = << >>
    /\ reloading' = FALSE
    /\ fetched' = EmptyTable
    /\ Park("reload", "replay")
    /\ UNCHANGED <<external, phase, heap, snap, todo, gauge, history>>

NextDeferred ==
    /\ At("reload", "replay") /\ queue # << >>
    /\ goroutine' = [goroutine EXCEPT !["reload"].pc = "apply", !["reload"].ev = Head(queue)]
    /\ queue' = Tail(queue)
    /\ UNCHANGED <<external, phase, heap, snap, reloading, pending, fetched, todo, gauge, history>>

\* reload returns: the ticker goroutine waits again, New goes on or fails.
EndReload ==
    /\ At("reload", "replay") /\ queue = << >>
    /\ Park("reload", IF phase # "starting" THEN "idle" ELSE IF snap = Nil THEN "exited" ELSE "subscribe")
    /\ phase' = IF phase = "starting" /\ snap = Nil THEN "failed" ELSE phase
    /\ UNCHANGED <<external, heap, snap, reloading, pending, reload, gauge, history>>

-----------------------------------------------------------------------------
(* subscribeRedis *)

Subscribe ==
    /\ At("reload", "subscribe")
    /\ \/ /\ phase' = "running"
          /\ goroutine' = [g \in Goroutines |-> Parked("idle")]
       \/ /\ phase' = "failed"
          /\ Park("reload", "exited")
    /\ UNCHANGED <<external, heap, snap, reloading, pending, reload, gauge, history>>

\* A payload that is not JSON is dropped before ApplyBindEvent.
Receive ==
    /\ At("subscriber", "idle") /\ channel # << >>
    /\ channel' = Tail(channel)
    /\ IF Head(channel).kind = "garbage" THEN UNCHANGED goroutine
       ELSE goroutine' = [goroutine EXCEPT !["subscriber"].pc = "check", !["subscriber"].ev = Head(channel)]
    /\ UNCHANGED <<truth, changes, healthy, phase, heap, snap, reloading, pending, reload, gauge, history>>

\* Mutant of ApplyBindEvent: events are applied at once, reload or not.
ApplyBindEvent_NeverDefers ==
    /\ At("subscriber", "check")
    /\ Goto("subscriber", "apply")
    /\ UNCHANGED <<external, phase, heap, snap, reloading, pending, reload, gauge, history>>

\* Mutant of ApplyBindEvent: the newest deferred event comes first.
ApplyBindEvent_Prepends ==
    /\ At("subscriber", "check")
    /\ IF reloading
       THEN /\ pending' = <<goroutine["subscriber"].ev>> \o pending
            /\ Park("subscriber", "idle")
       ELSE /\ Goto("subscriber", "apply")
            /\ UNCHANGED pending
    /\ UNCHANGED <<external, phase, heap, snap, reloading, reload, gauge, history>>

\* ApplyBindEvent holds pendingMu for the test and the append, not for the
\* application that follows.
ApplyBindEvent ==
    /\ At("subscriber", "check")
    /\ IF reloading
       THEN /\ pending' = Append(pending, goroutine["subscriber"].ev)
            /\ Park("subscriber", "idle")
       ELSE /\ Goto("subscriber", "apply")
            /\ UNCHANGED pending
    /\ UNCHANGED <<external, phase, heap, snap, reloading, reload, gauge, history>>

-----------------------------------------------------------------------------
(* applyBindEvent, run by either goroutine *)

Return(g) == Park(g, IF g = "reload" THEN "replay" ELSE "idle")

\* Mutant of LoadCurrent: the reload resolves the index before the swap.
LoadCurrent_Stale(g) ==
    /\ At(g, "apply")
    /\ IF goroutine[g].ev.kind = "invalid" THEN Return(g)
       ELSE goroutine' = [goroutine EXCEPT ![g].pc = "patch",
                                           ![g].slot = IF g = "subscriber" THEN snap
                                                       ELSE CHOOSE x \in Slots : x # snap]
    /\ UNCHANGED <<external, phase, heap, snap, reloading, pending, reload, gauge, history>>

\* idx := s.current().binds[...]; an event that fails validation ends here.
LoadCurrent(g) ==
    /\ At(g, "apply")
    /\ IF goroutine[g].ev.kind = "invalid" THEN Return(g)
       ELSE goroutine' = [goroutine EXCEPT ![g].pc = "patch", ![g].slot = snap]
    /\ UNCHANGED <<external, phase, heap, snap, reloading, pending, reload, gauge, history>>

\* Held(g, where): the event in the hands of g, if g is at one of those places.
Held(g, where) == IF goroutine[g].pc \in where THEN {goroutine[g].ev} ELSE {}

\* The deferred events the reload has taken but not applied yet.
Deferred == Range(queue) \cup Held("reload", {"apply", "patch"})

SameRecord(d, e) == d.src = e.src /\ d.id = e.id /\ "invalid" \notin {d.kind, e.kind}

\* put or remove, and the count, under mu.
Patch(g) ==
    LET x     == goroutine[g].slot
        ev    == goroutine[g].ev
        table == Patched(heap[x][ev.src], ev)
    IN  /\ At(g, "patch")
        /\ heap' = [heap EXCEPT ![x][ev.src] = table]
        /\ goroutine' = [goroutine EXCEPT ![g].pc = "publish", ![g].count = Count(table)]
        /\ overtaken' = (overtaken \/ (g = "subscriber" /\ \E d \in Deferred : SameRecord(d, ev)))
        /\ UNCHANGED <<external, phase, snap, reloading, pending, reload, gauge, lost>>

\* The gauge, after mu is released.
PublishCount(g) ==
    /\ At(g, "publish")
    /\ gauge' = [gauge EXCEPT ![goroutine[g].ev.src] = goroutine[g].count]
    /\ Return(g)
    /\ UNCHANGED <<external, phase, heap, snap, reloading, pending, reload, history>>

-----------------------------------------------------------------------------
Close ==
    /\ phase = "running"
    /\ phase' = "closed"
    /\ UNCHANGED <<external, heap, snap, reloading, pending, goroutine, reload, gauge, history>>

\* Mutant of Stop: the ticker goroutine does not listen on s.stop.
Stop_OnlySubscriber(g) ==
    /\ phase = "closed" /\ At(g, "idle") /\ g = "subscriber"
    /\ Park(g, "exited")
    /\ UNCHANGED <<external, phase, heap, snap, reloading, pending, reload, gauge, history>>

\* Both goroutines select on s.stop beside their ticker or channel.
Stop(g) ==
    /\ phase = "closed" /\ At(g, "idle")
    /\ Park(g, "exited")
    /\ UNCHANGED <<external, phase, heap, snap, reloading, pending, reload, gauge, history>>

ReloadStep ==
    \/ StartReload \/ LoadDevices \/ StoreSnapshot \/ TakePending \/ NextDeferred \/ EndReload \/ Subscribe
    \/ \E s \in Sources : LoadBinds(s) \/ CountBinds(s)
    \/ SetClientDBBinds
    \/ LoadCurrent("reload") \/ Patch("reload") \/ PublishCount("reload")

SubscriberStep ==
    \/ Receive \/ ApplyBindEvent
    \/ LoadCurrent("subscriber") \/ Patch("subscriber") \/ PublishCount("subscriber")

Next ==
    \/ \E s \in Sources, id \in IDs, kind \in Kinds : Change(s, id, kind)
    \/ Toggle
    \/ ReloadStep
    \/ SubscriberStep
    \/ Close
    \/ \E g \in Goroutines : Stop(g)

\* Goroutines run whenever they can.  The ticker of an open Store always fires
\* again; HTTP requests end, by conf.Timeout at the latest; select picks among
\* its ready cases at random, so s.stop is taken in the end.
Fairness ==
    /\ WF_vars(ReloadStep)
    /\ WF_vars(SubscriberStep)
    /\ \A g \in Goroutines : SF_vars(Stop(g))

Spec == Init /\ [][Next]_vars /\ Fairness

-----------------------------------------------------------------------------
Versions == 0 .. MaxChanges
Table    == UNION {[I -> Versions] : I \in SUBSET IDs}

PCs == {"begin", "idle", "devices", "binds", "count", "setGauge", "deferred", "replay",
        "apply", "patch", "publish", "subscribe", "off", "check", "exited"}

GoroutineState ==
    [pc : PCs, ev : Event \cup {Nil}, slot : Slots \cup {Nil}, src : Sources \cup {Nil}, count : Nat]

TypeOK ==
    /\ truth \in [Sources -> Table]
    /\ changes \in 0 .. MaxChanges
    /\ healthy \in BOOLEAN
    /\ channel \in Seq(Event)
    /\ phase \in {"starting", "running", "failed", "closed"}
    /\ heap \in [Slots -> [Sources -> Table]]
    /\ snap \in Slots \cup {Nil}
    /\ reloading \in BOOLEAN
    /\ pending \in Seq(Event)
    /\ goroutine \in [Goroutines -> GoroutineState]
    /\ fetched \in UNION {[S -> Table] : S \in SUBSET Sources}
    /\ queue \in Seq(Event)
    /\ todo \subseteq Sources
    /\ gauge \in [Sources -> Nat]
    /\ lost \in BOOLEAN /\ overtaken \in BOOLEAN

\* Events wait in pending only while a reload is under way that will take them
\* (store.go:118-134): none is left behind when the reload ends.
PendingOnlyWhileReloading == pending # << >> => reloading

\* A deferred event patches the snapshot scripts read, never the one the reload
\* has just replaced, and no other goroutine replaces it meanwhile
\* (REDIS_BIND_EVENTS.md:136-140).
ReplayPatchesCurrent == At("reload", "patch") => goroutine["reload"].slot = snap

Ascending(s) == \A i, j \in DOMAIN s : i < j => s[i].n < s[j].n

\* Events wait in the order they arrived, and everything the reload still has to
\* replay is older than everything that is deferred or received later.
WaitInArrivalOrder ==
    /\ Ascending(queue) /\ Ascending(pending) /\ Ascending(channel)
    /\ \A i \in DOMAIN queue : \A j \in DOMAIN pending : queue[i].n < pending[j].n
    /\ \A e \in Deferred \cup {pending[i] : i \in DOMAIN pending} : \A j \in DOMAIN channel : e.n < channel[j].n

\* What is deferred is replayed, in its order, where scripts will see it.
DeferralInv == PendingOnlyWhileReloading /\ ReplayPatchesCurrent /\ WaitInArrivalOrder

\* Which goroutine can be where, and what it holds there: events are applied
\* only while there is a snapshot to patch, and only the reload that set
\* reloading clears it.
PhaseOK ==
    LET r == goroutine["reload"].pc
        u == goroutine["subscriber"].pc
    IN  /\ r \notin {"off", "check"}
        /\ u \in {"off", "idle", "check", "apply", "patch", "publish", "exited"}
        /\ u # "off" => phase \in {"running", "closed"}
        /\ phase \in {"running", "closed"} => snap # Nil /\ r # "subscribe"
        /\ phase = "starting" => channel = << >> /\ pending = << >> /\ queue = << >>
        /\ r \in {"idle", "apply", "patch", "publish"} => phase \in {"running", "closed"}
        /\ r = "subscribe" => phase = "starting" /\ snap # Nil
        /\ phase = "failed" => r = "exited"

HoldsOK ==
    /\ \A g \in Goroutines :
        LET h == goroutine[g]
        IN  /\ h.pc \in {"check", "apply", "patch", "publish"} => h.ev \in Event
            /\ h.pc \in {"count", "setGauge", "patch"} => h.slot \in Slots
            /\ h.pc = "setGauge" => h.src \in Sources
            /\ h.pc \in {"begin", "idle", "devices", "binds"} => h.slot = Nil
    /\ goroutine["reload"].pc \in {"patch", "count", "setGauge"} => goroutine["reload"].slot = snap

DeferOK ==
    /\ reloading <=> goroutine["reload"].pc \in {"devices", "binds", "count", "setGauge", "deferred"}
    /\ queue # << >> => goroutine["reload"].pc \in {"replay", "apply", "patch", "publish"}
    /\ ~reloading => pending = << >>

ControlOK == PhaseOK /\ HoldsOK /\ DeferOK

\* Every event in the Store's hands is older than every event not received yet,
\* and one that is about to be deferred is younger than all deferred before it.
Checking == goroutine["subscriber"].pc = "check"

Older(e) ==
    /\ e.n <= changes
    /\ \A j \in DOMAIN channel : e.n < channel[j].n
    /\ Checking => e.n < goroutine["subscriber"].ev.n

OrderOK ==
    /\ Ascending(queue) /\ Ascending(pending) /\ Ascending(channel)
    /\ \A i \in DOMAIN queue : Older(queue[i])
    /\ \A i \in DOMAIN pending : Older(pending[i])
    /\ \A i \in DOMAIN queue : \A j \in DOMAIN pending : queue[i].n < pending[j].n
    /\ goroutine["reload"].pc \in {"apply", "patch"} => Older(goroutine["reload"].ev)
    /\ \A j \in DOMAIN channel : channel[j].n <= changes
    /\ Checking => /\ goroutine["subscriber"].ev.n <= changes
                   /\ \A j \in DOMAIN channel : goroutine["subscriber"].ev.n < channel[j].n

\* What a reload has loaded so far is worth publishing, and is gone when it ends.
FetchedOK ==
    /\ \A s \in DOMAIN fetched : Count(fetched[s]) > 0
    /\ DOMAIN fetched # {} => goroutine["reload"].pc \in {"binds", "deferred"}

\* What the reload replays is older than what waits behind it, what the
\* subscriber applies younger than what is replayed and older than the rest.
WayOK ==
    /\ goroutine["reload"].pc \in {"apply", "patch"} =>
          \A e \in Range(queue) \cup Range(pending) : goroutine["reload"].ev.n < e.n
    /\ goroutine["subscriber"].pc \in {"apply", "patch"} =>
          /\ pending = << >>
          /\ goroutine["subscriber"].ev.n <= changes
          /\ \A e \in Deferred : e.n < goroutine["subscriber"].ev.n
          /\ \A e \in Range(channel) : goroutine["subscriber"].ev.n < e.n

\* The events that were not there, or not applied, when a load began, and those
\* that will still reach the snapshot in use: an event that is about to patch a
\* replaced snapshot is not among them.
Unseen == Range(channel) \cup Range(pending) \cup Held("subscriber", {"check"})

Aimed == IF At("subscriber", "patch") /\ goroutine["subscriber"].slot # snap
         THEN {}
         ELSE Held("subscriber", {"apply", "patch"})

Way == Unseen \cup Aimed \cup Deferred

\* The changes of one record among them.
Of(e, s, id)    == e.src = s /\ e.id = id /\ e.kind \in {"upsert", "delete"}
Arriving(s, id) == {e \in Unseen : Of(e, s, id)}
OnTheWay(s, id) == {e \in Way : Of(e, s, id)}

\* Says(e, t): t has what e leaves there.
Says(e, t) ==
    IF e.kind = "upsert" THEN e.id \in DOMAIN t /\ t[e.id] = e.n ELSE e.id \notin DOMAIN t

\* Two tables have the same record of that ID, or none.
Agree(t, u, id) == (id \in DOMAIN t <=> id \in DOMAIN u) /\ (id \in DOMAIN t => t[id] = u[id])

\* Of the changes of a record on their way the youngest says what the external
\* system has; with none on its way the snapshot does, and what was loaded
\* since does as long as none arrives.
Follows(s, id) ==
    /\ \A e \in OnTheWay(s, id) : Says(e, truth[s]) \/ \E f \in OnTheWay(s, id) : e.n < f.n
    /\ OnTheWay(s, id) = {} /\ snap # Nil => Agree(heap[snap][s], truth[s], id)
    /\ Arriving(s, id) = {} /\ s \in DOMAIN fetched => Agree(fetched[s], truth[s], id)

UpdatesOK == ~lost /\ ~overtaken => \A s \in Sources, id \in IDs : Follows(s, id)

\* The inductive invariant.
StoreInv == TypeOK /\ ControlOK /\ OrderOK /\ FetchedOK /\ WayOK /\ UpdatesOK

\* Scripts always have data once New has returned: a reload only ever replaces a
\* complete snapshot by a complete one, all of its sources non-empty
\* (store.go:113-114, 140-154).
AllOrNothing ==
    [][snap' # snap => /\ snap' # Nil
                       /\ \A s \in Sources : Count(heap'[snap'][s]) > 0]_vars

InSync == snap \in Slots /\ heap[snap] = truth

Quiescent ==
    /\ phase = "running" /\ channel = << >>
    /\ \A g \in Goroutines : At(g, "idle")

\* No live update is lost between the two goroutines: when nothing is in flight
\* and Redis has delivered every event, scripts see what the HTTP source would
\* answer, unless an older event was replayed over a newer one.
NoUpdateLost == (Quiescent /\ ~lost /\ ~overtaken) => InSync

\* Of several events of one record the one that arrives last is in force
\* (doc/REDIS_BIND_EVENTS.md, section 5).
LastEventWins == (Quiescent /\ ~lost) => InSync

GaugesAgree == snap \in Slots /\ \A s \in Sources : gauge[s] = Count(heap[snap][s])

\* rad_clientdb_binds_count is the number of binds currently loaded
\* (prom/metrics.go:89-92).
GaugeCurrent == Quiescent => GaugesAgree

\* An event deferred by a reload is applied in the end: the reload that holds it
\* back always ends.
DeferredAreTaken == pending # << >> ~> (pending = << >> /\ queue = << >>)

\* Whatever was lost or overtaken, once the external system is quiet and its
\* source works the next reload brings scripts and gauges up to date for good.
Healed ==
    (<>[](phase = "running" /\ healthy) /\ <>[](\A s \in Sources : Count(truth[s]) > 0))
        => <>[](InSync /\ GaugesAgree)

\* Close stops both goroutines, even if the database is being reloaded.
CloseStops == phase = "closed" ~> \A g \in Goroutines : At(g, "exited")
=============================================================================
