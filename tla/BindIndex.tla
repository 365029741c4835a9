----------------------------- MODULE BindIndex -----------------------------
(***************************************************************************)
(* One bind source indexed for the lookups of FindBinds                    *)
(* (clientdb/bindindex.go, clientdb/store.go).                             *)
(*                                                                         *)
(* An index is a record [byID, bucket].  The four secondary Go maps are    *)
(* one function "bucket": its keys are tagged with the map they belong to, *)
(* and a key is in its domain exactly when the Go map has an entry for it. *)
(* The state machine at the end performs put and remove atomically, as     *)
(* loadBinds does on an index nobody else sees yet and as live updates do  *)
(* under mu; BindIndexLock opens the critical sections.                    *)
(***************************************************************************)
EXTENDS Integers, Sequences

CONSTANTS
    IDs,            \* record IDs
    IPs,            \* lease addresses
    Macs,           \* normalized client MACs
    DeviceMacs,     \* normalized device MACs
    Ports,          \* device port numbers; 0 is "no port"
    NoMac,          \* the empty MAC
    NoPort          \* the empty port argument of a lookup

ASSUME NoMacAssumption == NoMac \notin Macs \cup DeviceMacs
ASSUME PortsAssumption == Ports \subseteq Int /\ NoPort \notin Int

Bind == [id : IDs, ip : IPs, mac : Macs, device : DeviceMacs \cup {NoMac}, port : Ports]

Query == [mac : Macs \cup {NoMac}, device : DeviceMacs \cup {NoMac}, port : Ports \cup {NoPort}]

ByMac(m)                 == <<"byMac", m>>
ByMacDevice(m, d)        == <<"byMacDevice", m, d>>
ByMacDevicePort(m, d, p) == <<"byMacDevicePort", m, d, p>>
ByDevicePort(d, p)       == <<"byDevicePort", d, p>>
NoKey                    == <<"noKey">>

\* Mutant of eachKey: the early return for a bind without device is missing.
eachKey_IndexesNoDevice(b) ==
    {ByMac(b.mac), ByMacDevice(b.mac, b.device)}
        \cup (IF b.port = 0 THEN {}
              ELSE {ByMacDevicePort(b.mac, b.device, b.port), ByDevicePort(b.device, b.port)})

\* The secondary keys a bind belongs to: a bind without device is found by its
\* MAC alone, a bind without port is in no per-port map.
eachKey(b) ==
    {ByMac(b.mac)}
        \cup (IF b.device = NoMac THEN {} ELSE {ByMacDevice(b.mac, b.device)})
        \cup (IF b.device = NoMac \/ b.port = 0 THEN {}
              ELSE {ByMacDevicePort(b.mac, b.device, b.port), ByDevicePort(b.device, b.port)})

newBindIndex == [byID |-> [id \in {} |-> {}], bucket |-> [k \in {} |-> << >>]]

\* Mutant of Without: the match survives and its successor goes.
Without_OffByOne(s, id) ==
    LET hits == {i \in DOMAIN s : s[i].id = id}
        at   == CHOOSE i \in hits : TRUE
    IN  IF hits = {} THEN s
        ELSE [j \in 1 .. Len(s) - 1 |-> IF j <= at THEN s[j] ELSE s[j + 1]]

\* slices.DeleteFunc on one bucket.  No ID occurs twice in a bucket
\* (NoDuplicates), so the first match is the only one.
Without(s, id) ==
    LET hits == {i \in DOMAIN s : s[i].id = id}
        at   == CHOOSE i \in hits : TRUE
    IN  IF hits = {} THEN s
        ELSE [j \in 1 .. Len(s) - 1 |-> IF j < at THEN s[j] ELSE s[j + 1]]

\* A bucket that loses its last bind loses its map entry as well.
remove(x, id) ==
    IF id \notin DOMAIN x.byID THEN x
    ELSE LET keys    == eachKey(x.byID[id])
             rest(k) == IF k \in keys THEN Without(x.bucket[k], id) ELSE x.bucket[k]
         IN  [byID   |-> [i \in DOMAIN x.byID \ {id} |-> x.byID[i]],
              bucket |-> [k \in {l \in DOMAIN x.bucket : rest(l) # << >>} |-> rest(k)]]

\* Mutant of insert: the new bind goes to the front of its buckets.
insert_Prepends(x, b) ==
    LET keys   == eachKey(b)
        old(k) == IF k \in DOMAIN x.bucket THEN x.bucket[k] ELSE << >>
    IN  [byID   |-> [i \in DOMAIN x.byID \cup {b.id} |-> IF i = b.id THEN b ELSE x.byID[i]],
         bucket |-> [k \in DOMAIN x.bucket \cup keys |->
                        IF k \in keys THEN <<b>> \o old(k) ELSE x.bucket[k]]]

insert(x, b) ==
    LET keys   == eachKey(b)
        old(k) == IF k \in DOMAIN x.bucket THEN x.bucket[k] ELSE << >>
    IN  [byID   |-> [i \in DOMAIN x.byID \cup {b.id} |-> IF i = b.id THEN b ELSE x.byID[i]],
         bucket |-> [k \in DOMAIN x.bucket \cup keys |->
                        IF k \in keys THEN Append(old(k), b) ELSE x.bucket[k]]]

\* Mutant of put: the old version of the record is not removed first.
put_KeepsOld(x, b) == insert(x, b)

put(x, b) == insert(remove(x, b.id), b)

\* The switch of FindBinds: the one map entry that answers a query.
QueryKey(q) ==
    CASE q.mac # NoMac /\ q.device # NoMac /\ q.port # NoPort -> ByMacDevicePort(q.mac, q.device, q.port)
      [] q.mac # NoMac /\ q.device # NoMac /\ q.port = NoPort -> ByMacDevice(q.mac, q.device)
      [] q.mac # NoMac /\ q.device = NoMac                    -> ByMac(q.mac)
      [] q.mac = NoMac /\ q.device # NoMac /\ q.port # NoPort -> ByDevicePort(q.device, q.port)
      [] OTHER                                                -> NoKey

FindBinds(x, q) ==
    IF QueryKey(q) \in DOMAIN x.bucket THEN x.bucket[QueryKey(q)] ELSE << >>

\* What a lookup is meant to answer, without any index: the doc comment of
\* FindBinds (clientdb/store.go:256).  A port narrows only together with a
\* device, and port 0 is no port at all.
Matches(b, q) ==
    /\ q.mac # NoMac \/ (q.device # NoMac /\ q.port # NoPort)
    /\ q.mac # NoMac => b.mac = q.mac
    /\ q.device # NoMac => b.device = q.device
    /\ (q.device # NoMac /\ q.port # NoPort) => (b.port = q.port /\ b.port # 0)

-----------------------------------------------------------------------------
VARIABLES
    idx,            \* the index
    order           \* history: the binds in the order in which they were last put

indexVars == <<idx, order>>

\* A list of binds of different IDs without the one of that ID.
Except(s, id) ==
    LET hits == {i \in DOMAIN s : s[i].id = id}
        at   == CHOOSE i \in hits : TRUE
    IN  IF hits = {} THEN s ELSE SubSeq(s, 1, at - 1) \o SubSeq(s, at + 1, Len(s))

IndexInit ==
    /\ idx = newBindIndex
    /\ order = << >>

Upsert(b) ==
    /\ idx' = put(idx, b)
    /\ order' = Append(Except(order, b.id), b)

Delete(id) ==
    /\ idx' = remove(idx, id)
    /\ order' = Except(order, id)

IndexNext ==
    \/ \E b \in Bind : Upsert(b)
    \/ \E id \in IDs : Delete(id)

IndexSpec == IndexInit /\ [][IndexNext]_indexVars

-----------------------------------------------------------------------------
Key ==
    {ByMac(m) : m \in Macs}
        \cup {ByMacDevice(m, d) : m \in Macs, d \in DeviceMacs}
        \cup {ByMacDevicePort(m, d, p) : m \in Macs, d \in DeviceMacs, p \in Ports \ {0}}
        \cup {ByDevicePort(d, p) : d \in DeviceMacs, p \in Ports \ {0}}

WellTyped(x) ==
    /\ x = [byID |-> x.byID, bucket |-> x.bucket]
    /\ x.byID = [id \in DOMAIN x.byID |-> x.byID[id]]
    /\ DOMAIN x.byID \subseteq IDs
    /\ \A id \in DOMAIN x.byID : x.byID[id] \in Bind /\ x.byID[id].id = id
    /\ x.bucket = [k \in DOMAIN x.bucket |-> x.bucket[k]]
    /\ DOMAIN x.bucket \subseteq Key
    /\ \A k \in DOMAIN x.bucket : x.bucket[k] \in Seq(Bind)

\* A bind reachable through a secondary map is the current bind of its ID and
\* belongs under that key.
NoGhosts(x) ==
    \A k \in DOMAIN x.bucket : \A i \in DOMAIN x.bucket[k] :
        LET b == x.bucket[k][i]
        IN  /\ b.id \in DOMAIN x.byID
            /\ b = x.byID[b.id]
            /\ k \in eachKey(b)

\* Every bind known by ID is found under each of its secondary keys.
NoneMissing(x) ==
    \A id \in DOMAIN x.byID : \A k \in eachKey(x.byID[id]) :
        /\ k \in DOMAIN x.bucket
        /\ \E i \in DOMAIN x.bucket[k] : x.bucket[k][i] = x.byID[id]

\* No ID occurs twice in one bucket.
NoDuplicates(s) == \A i, j \in DOMAIN s : s[i].id = s[j].id => i = j

\* The maps keep no entry for a key nothing is bound to.
NoEmptyBucket(x) == \A k \in DOMAIN x.bucket : x.bucket[k] # << >>

Consistent(x) ==
    /\ NoGhosts(x)
    /\ NoneMissing(x)
    /\ \A k \in DOMAIN x.bucket : NoDuplicates(x.bucket[k])
    /\ NoEmptyBucket(x)

\* What s lists is listed in t too, in the same order.
InOrder(s, t) ==
    \A i, j \in DOMAIN s : \E m, n \in DOMAIN t :
        t[m] = s[i] /\ t[n] = s[j] /\ (i < j => m < n)

\* byID holds the binds of t, and no ID occurs twice in t.
HoldsBinds(x, t) ==
    /\ t \in Seq(Bind) /\ NoDuplicates(t)
    /\ \A j \in DOMAIN t : t[j].id \in DOMAIN x.byID /\ x.byID[t[j].id] = t[j]
    /\ \A id \in DOMAIN x.byID : \E j \in DOMAIN t : t[j] = x.byID[id]

BucketsInOrder(x, t) == \A k \in DOMAIN x.bucket : InOrder(x.bucket[k], t)

\* byID maps record IDs to binds of that ID, and every bucket belongs to a
\* possible key and is a sequence of binds (bindindex.go, put and eachKey).
IndexTypeOK == WellTyped(idx)

\* The four secondary maps and byID describe the same set of binds: an update
\* that moves a client to another port or MAC leaves no trace under its old
\* keys, takes no neighbour with it, is seen once and last under each new key, and
\* a long run of updates does not grow the maps (bindindex.go, put and remove).
IndexInv == Consistent(idx) /\ HoldsBinds(idx, order) /\ BucketsInOrder(idx, order)

\* s lists the binds of t that match q, all of them, in the order of t.
Answers(s, t, q) ==
    /\ InOrder(s, t)
    /\ \A i \in DOMAIN s : Matches(s[i], q)
    /\ \A j \in DOMAIN t : Matches(t[j], q) => \E i \in DOMAIN s : s[i] = t[j]

\* Whatever the history of puts and removes, every lookup of FindBinds answers
\* with exactly the binds that match it, in the order they were last put.
LookupsFollowTable == \A q \in Query : Answers(FindBinds(idx, q), order, q)
=============================================================================
