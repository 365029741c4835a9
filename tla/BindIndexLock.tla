--------------------------- MODULE BindIndexLock ---------------------------
(***************************************************************************)
(* The critical sections of one published bindIndex: live updates          *)
(* (clientdb/live.go, applyBindEvent) take mu for writing and change the   *)
(* maps one after the other, lookups (clientdb/store.go, FindBinds) hold   *)
(* mu for reading from the map access until the last bind is copied.       *)
(* The module shows that this implements BindTable: one reader never sees  *)
(* another goroutine's update half done.                                   *)
(***************************************************************************)
EXTENDS BindIndex

CONSTANTS
    Writers,        \* goroutines that apply events: the subscriber, the reload
    Readers,        \* goroutines that look binds up: the Lua workers
    LiveBinds,      \* the binds events carry
    Lookups,        \* the queries scripts ask
    NoOp,           \* a writer with nothing to apply
    NoAnswer,       \* a reader that was never answered
    NoWriter        \* no writer has claimed mu

ASSUME LiveBindsAssumption == LiveBinds \subseteq Bind
ASSUME LookupsAssumption == Lookups \subseteq Query
ASSUME NoWriterAssumption == NoWriter \notin Writers

VARIABLES
    mu,             \* the writer that has claimed mu, or NoWriter
    readers,        \* the readers that hold mu
    writer,         \* per writer: [pc, op, todo]; todo are the keys still to change
    reader,         \* per reader: [pc, query, found, copied]
    result          \* per reader, what FindBinds last returned

lockVars == <<idx, order, mu, readers, writer, reader, result>>

Op == [kind : {"put"}, bind : LiveBinds] \cup [kind : {"delete"}, id : IDs]

IDOf(op) == IF op.kind = "put" THEN op.bind.id ELSE op.id

IdleWriter == [pc |-> "idle", op |-> NoOp, todo |-> {}]
IdleReader == [pc |-> "idle", query |-> NoAnswer, found |-> << >>, copied |-> << >>]

LockInit ==
    /\ IndexInit
    /\ mu = NoWriter
    /\ readers = {}
    /\ writer = [w \in Writers |-> IdleWriter]
    /\ reader = [r \in Readers |-> IdleReader]
    /\ result = [r \in Readers |-> NoAnswer]

-----------------------------------------------------------------------------
Goto(w, pc, todo) == writer' = [writer EXCEPT ![w].pc = pc, ![w].todo = todo]

\* A validated event asks for mu.
WantLock(w) ==
    /\ writer[w].pc = "idle"
    /\ \E op \in Op : writer' = [writer EXCEPT ![w] = [pc |-> "wantLock", op |-> op, todo |-> {}]]
    /\ UNCHANGED <<idx, order, mu, readers, reader, result>>

\* sync.RWMutex.Lock: one writer at a time claims mu, which keeps new readers
\* out, and enters when the readers inside have left.
Lock(w) ==
    /\ writer[w].pc = "wantLock" /\ mu = NoWriter
    /\ mu' = w
    /\ Goto(w, "drain", {})
    /\ UNCHANGED <<idx, order, readers, reader, result>>

\* Mutant of Drain: the writer does not wait for the readers inside.
Drain_IgnoresReaders(w) ==
    /\ writer[w].pc = "drain"
    /\ Goto(w, "removeID", {})
    /\ UNCHANGED <<idx, order, mu, readers, reader, result>>

Drain(w) ==
    /\ writer[w].pc = "drain" /\ readers = {}
    /\ Goto(w, "removeID", {})
    /\ UNCHANGED <<idx, order, mu, readers, reader, result>>

\* eachKey visits the secondary maps in this order.
MapOrder == [byMac |-> 1, byMacDevice |-> 2, byMacDevicePort |-> 3, byDevicePort |-> 4]
FirstKey(keys) == CHOOSE k \in keys : \A l \in keys : MapOrder[k[1]] <= MapOrder[l[1]]

AfterRemove(w) == IF writer[w].op.kind = "put" THEN "insertID" ELSE "unlock"

\* remove: the ID first, then one secondary map after the other.
RemoveID(w) ==
    LET id == IDOf(writer[w].op) IN
    /\ writer[w].pc = "removeID"
    /\ IF id \in DOMAIN idx.byID
       THEN /\ idx' = [idx EXCEPT !.byID = [i \in DOMAIN idx.byID \ {id} |-> idx.byID[i]]]
            /\ Goto(w, "removeKeys", eachKey(idx.byID[id]))
       ELSE /\ Goto(w, AfterRemove(w), {})
            /\ UNCHANGED idx
    /\ UNCHANGED <<order, mu, readers, reader, result>>

\* One map entry without the bind of an ID, or with one bind more.
DropFrom(bucket, k, id) ==
    LET rest == Without(bucket[k], id)
    IN  [l \in (DOMAIN bucket \ {k}) \cup {m \in {k} : rest # << >>} |->
            IF l = k THEN rest ELSE bucket[l]]

AddTo(bucket, k, b) ==
    LET old == IF k \in DOMAIN bucket THEN bucket[k] ELSE << >>
    IN  [l \in DOMAIN bucket \cup {k} |-> IF l = k THEN Append(old, b) ELSE bucket[l]]

\* Mutant of RemoveKey: the whole map entry goes, with the other binds under it.
RemoveKey_DropsBucket(w) ==
    /\ writer[w].pc = "removeKeys"
    /\ LET k    == FirstKey(writer[w].todo)
           todo == writer[w].todo \ {k}
       IN  /\ idx' = [idx EXCEPT !.bucket = [l \in DOMAIN @ \ {k} |-> idx.bucket[l]]]
           /\ Goto(w, IF todo = {} THEN AfterRemove(w) ELSE "removeKeys", todo)
    /\ UNCHANGED <<order, mu, readers, reader, result>>

RemoveKey(w) ==
    /\ writer[w].pc = "removeKeys"
    /\ LET k    == FirstKey(writer[w].todo)
           todo == writer[w].todo \ {k}
       IN  /\ idx' = [idx EXCEPT !.bucket = DropFrom(@, k, IDOf(writer[w].op))]
           /\ Goto(w, IF todo = {} THEN AfterRemove(w) ELSE "removeKeys", todo)
    /\ UNCHANGED <<order, mu, readers, reader, result>>

\* put: the ID, then one secondary map after the other.
InsertID(w) ==
    LET b == writer[w].op.bind IN
    /\ writer[w].pc = "insertID"
    /\ idx' = [idx EXCEPT !.byID = [i \in DOMAIN @ \cup {b.id} |-> IF i = b.id THEN b ELSE idx.byID[i]]]
    /\ Goto(w, "insertKeys", eachKey(b))
    /\ UNCHANGED <<order, mu, readers, reader, result>>

InsertKey(w) ==
    /\ writer[w].pc = "insertKeys"
    /\ LET k    == FirstKey(writer[w].todo)
           todo == writer[w].todo \ {k}
       IN  /\ idx' = [idx EXCEPT !.bucket = AddTo(@, k, writer[w].op.bind)]
           /\ Goto(w, IF todo = {} THEN "unlock" ELSE "insertKeys", todo)
    /\ UNCHANGED <<order, mu, readers, reader, result>>

\* The binds when op is applied, the last one put at the end.
Committed(op) ==
    IF op.kind = "put" THEN Append(Except(order, op.bind.id), op.bind) ELSE Except(order, op.id)

\* Mutant of Unlock: readers that queued up compete with the next writer.
Unlock_AdmitsNobody(w) ==
    /\ writer[w].pc = "unlock"
    /\ order' = Committed(writer[w].op)
    /\ mu' = NoWriter
    /\ writer' = [writer EXCEPT ![w] = IdleWriter]
    /\ UNCHANGED <<idx, readers, reader, result>>

\* sync.RWMutex.Unlock lets the readers in that queued up behind the writer
\* before another writer can claim mu.
Unlock(w) ==
    LET waiting == {r \in Readers : reader[r].pc = "wantLock"}
    IN  /\ writer[w].pc = "unlock"
        /\ order' = Committed(writer[w].op)
        /\ mu' = NoWriter
        /\ readers' = waiting
        /\ reader' = [r \in Readers |->
                        IF r \in waiting THEN [reader[r] EXCEPT !.pc = "lookUp"] ELSE reader[r]]
        /\ writer' = [writer EXCEPT ![w] = IdleWriter]
        /\ UNCHANGED <<idx, result>>

-----------------------------------------------------------------------------
\* A script calls FindBinds.
Ask(r) ==
    /\ reader[r].pc = "idle"
    /\ \E q \in Lookups :
        reader' = [reader EXCEPT ![r] = [IdleReader EXCEPT !.pc = "wantLock", !.query = q]]
    /\ UNCHANGED <<idx, order, mu, readers, writer, result>>

\* Mutant of RLock: readers may pass a writer that waits for its turn.
RLock_PassesWriter(r) ==
    /\ reader[r].pc = "wantLock" /\ \A w \in Writers : writer[w].pc \in {"idle", "wantLock", "drain"}
    /\ readers' = readers \cup {r}
    /\ reader' = [reader EXCEPT ![r].pc = "lookUp"]
    /\ UNCHANGED <<idx, order, mu, writer, result>>

\* sync.RWMutex.RLock: a reader enters unless a writer has claimed mu.
RLock(r) ==
    /\ reader[r].pc = "wantLock" /\ mu = NoWriter
    /\ readers' = readers \cup {r}
    /\ reader' = [reader EXCEPT ![r].pc = "lookUp"]
    /\ UNCHANGED <<idx, order, mu, writer, result>>

\* The map access: found is a slice header over the bucket's own array.
LookUp(r) ==
    /\ reader[r].pc = "lookUp"
    /\ reader' = [reader EXCEPT ![r].pc = "copy", ![r].found = FindBinds(idx, reader[r].query)]
    /\ UNCHANGED <<idx, order, mu, readers, writer, result>>

\* result[i] = *b, one element of the bucket's array at a time.
CopyBind(r) ==
    LET i == Len(reader[r].copied) + 1 IN
    /\ reader[r].pc = "copy" /\ i <= Len(reader[r].found)
    /\ reader' = [reader EXCEPT ![r].copied = Append(@, FindBinds(idx, reader[r].query)[i])]
    /\ UNCHANGED <<idx, order, mu, readers, writer, result>>

RUnlock(r) ==
    /\ reader[r].pc = "copy" /\ Len(reader[r].copied) = Len(reader[r].found)
    /\ result' = [result EXCEPT ![r] = reader[r].copied]
    /\ readers' = readers \ {r}
    /\ reader' = [reader EXCEPT ![r] = IdleReader]
    /\ UNCHANGED <<idx, order, mu, writer>>

-----------------------------------------------------------------------------
WriterStep(w) ==
    \/ Lock(w) \/ Drain(w) \/ RemoveID(w) \/ RemoveKey(w) \/ InsertID(w) \/ InsertKey(w) \/ Unlock(w)

ReaderStep(r) == RLock(r) \/ LookUp(r) \/ CopyBind(r) \/ RUnlock(r)

LockNext ==
    \/ \E w \in Writers : WantLock(w) \/ WriterStep(w)
    \/ \E r \in Readers : Ask(r) \/ ReaderStep(r)

\* Goroutines inside FindBinds or applyBindEvent keep running.  A waiting writer
\* can lose mu to the other one, but sync.Mutex does not starve it forever.
LockFairness ==
    /\ \A w \in Writers : WF_lockVars(WriterStep(w)) /\ SF_lockVars(Lock(w))
    /\ \A r \in Readers : WF_lockVars(ReaderStep(r))

LockSpec == LockInit /\ [][LockNext]_lockVars /\ LockFairness

-----------------------------------------------------------------------------
WriterPC == {"idle", "wantLock", "drain", "removeID", "removeKeys", "insertID", "insertKeys", "unlock"}
WriterState == [pc : WriterPC, op : Op \cup {NoOp}, todo : SUBSET Key]
ReaderState == [pc : {"idle", "wantLock", "lookUp", "copy"}, query : Lookups \cup {NoAnswer},
                found : Seq(Bind), copied : Seq(Bind)]

LockTypeOK ==
    /\ mu \in Writers \cup {NoWriter}
    /\ readers \subseteq Readers
    /\ writer \in [Writers -> WriterState]
    /\ reader \in [Readers -> ReaderState]
    /\ result \in [Readers -> Seq(Bind) \cup {NoAnswer}]

\* sync.RWMutex: the writer that has claimed mu is the only one past Lock, and
\* once it has drained the readers nobody reads until it unlocks.
MutualExclusion ==
    /\ \A w \in Writers : writer[w].pc \notin {"idle", "wantLock"} <=> mu = w
    /\ \A w \in Writers : writer[w].pc \notin {"idle", "wantLock", "drain"} => readers = {}
    /\ readers = {r \in Readers : reader[r].pc \in {"lookUp", "copy"}}

\* A goroutine inside has an operation or a query, and an update has as many
\* keys left as its program counter says.
Working ==
    /\ \A w \in Writers :
        /\ writer[w].pc # "idle" => writer[w].op \in Op
        /\ writer[w].pc \in {"insertID", "insertKeys"} => writer[w].op.kind = "put"
        /\ writer[w].pc \in {"removeKeys", "insertKeys"} => writer[w].todo # {}
    /\ \A r \in Readers :
        /\ reader[r].pc # "idle" => reader[r].query \in Lookups
        /\ reader[r].pc \in {"wantLock", "lookUp"} => reader[r].copied = << >>

Whole(t) == Consistent(idx) /\ HoldsBinds(idx, t) /\ BucketsInOrder(idx, t)

\* Bind b is under exactly these keys, every other bind under all of its own.
PartlyIndexed(x, b, keys) ==
    /\ \A k \in DOMAIN x.bucket : \A i \in DOMAIN x.bucket[k] :
        LET c == x.bucket[k][i]
        IN  IF c.id = b.id THEN c = b /\ k \in keys
            ELSE c.id \in DOMAIN x.byID /\ c = x.byID[c.id] /\ k \in eachKey(c)
    /\ \A k \in keys : k \in DOMAIN x.bucket /\ \E i \in DOMAIN x.bucket[k] : x.bucket[k][i] = b
    /\ \A id \in DOMAIN x.byID \ {b.id} : \A k \in eachKey(x.byID[id]) :
        /\ k \in DOMAIN x.bucket
        /\ \E i \in DOMAIN x.bucket[k] : x.bucket[k][i] = x.byID[id]
    /\ \A k \in DOMAIN x.bucket : NoDuplicates(x.bucket[k])
    /\ NoEmptyBucket(x)

\* What an update has done so far, by its program counter: the maps differ from
\* the published state before or after it in the one bind it moves, and in the
\* keys still to change.
UpdateUnderWay(w) ==
    LET pc   == writer[w].pc
        op   == writer[w].op
        id   == IDOf(op)
        todo == writer[w].todo
    IN  /\ pc \in {"drain", "removeID"} => Whole(order)
        /\ pc = "removeKeys" =>
              /\ id \notin DOMAIN idx.byID
              /\ HoldsBinds(idx, Except(order, id)) /\ BucketsInOrder(idx, order)
              /\ \E b \in Bind : b.id = id /\ todo \subseteq eachKey(b) /\ PartlyIndexed(idx, b, todo)
        /\ pc = "insertID" => id \notin DOMAIN idx.byID /\ Whole(Except(order, id))
        /\ pc = "insertKeys" =>
              /\ HoldsBinds(idx, Committed(op)) /\ BucketsInOrder(idx, Committed(op))
              /\ todo \subseteq eachKey(op.bind)
              /\ PartlyIndexed(idx, op.bind, eachKey(op.bind) \ todo)
        /\ pc = "unlock" => Whole(Committed(op))

IndexUnderLock ==
    /\ IndexTypeOK
    /\ order \in Seq(Bind) /\ NoDuplicates(order)
    /\ mu = NoWriter => Whole(order)
    /\ \A w \in Writers : mu = w => UpdateUnderWay(w)

\* A reader that holds mu never meets a bind that is in one map and not yet, or
\* no longer, in another: writers change the maps only with mu to themselves.
ReadersSeeWholeIndex == readers # {} => (IndexTypeOK /\ IndexInv)

\* The slice header a reader took from the map stays the bucket until it has
\* copied the last bind of it.
FoundIsCurrent ==
    \A r \in Readers : reader[r].pc = "copy" =>
        /\ reader[r].found = FindBinds(idx, reader[r].query)
        /\ Len(reader[r].copied) <= Len(reader[r].found)
        /\ \A i \in DOMAIN reader[r].copied : reader[r].copied[i] = reader[r].found[i]

\* What a goroutine finds once it is let in (bindindex.go:9-19).
LockInv ==
    /\ LockTypeOK
    /\ MutualExclusion
    /\ Working
    /\ IndexUnderLock
    /\ ReadersSeeWholeIndex
    /\ FoundIsCurrent

\* One goroutine's put or remove is seen by the others as a single step, and a
\* lookup answers as of a single instant (BindTable).
Table == INSTANCE BindTable WITH
    Binds <- LiveBinds, Queries <- Lookups, table <- order, answer <- result

ImplementsTable == Table!TableSpec

\* No lookup waits forever behind a stream of updates, and no update behind a
\* stream of lookups.
EveryLookupAnswered == \A r \in Readers : reader[r].pc = "wantLock" ~> reader[r].pc = "idle"
EveryUpdateApplied  == \A w \in Writers : writer[w].pc = "wantLock" ~> writer[w].pc = "idle"
=============================================================================
