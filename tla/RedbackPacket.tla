--------------------------- MODULE RedbackPacket ---------------------------
(***************************************************************************)
(* The Vendor-Specific attributes of one packet: built by the accessors of *)
(* radius/redback, by setExtraAttribute (radius/extraattr.go) and by       *)
(* addVendorSub (load_testing/packet.go), or received; read by the handler *)
(* and by whoever gets the answer.                                         *)
(***************************************************************************)
EXTENDS RedbackVendor, RedbackDictionary

CONSTANTS
    Histories,      \* bound: [attributes, ops], which attributes of the
                    \* Dictionary are used and in how many operations
    Received,       \* the lists of packets that came from the network, ...
    Asked,          \* ... and the attributes read from them
    Strings,        \* values of octet attributes
    Numbers,        \* values of integer attributes, four bytes
    Tags

ASSUME AttributesAssumption ==
    Asked \subseteq Dictionary /\ \A h \in Histories : h.attributes \subseteq Dictionary /\ h.ops \in Nat
ASSUME ValuesAssumption ==
    Strings \subseteq Seq(Byte) /\ Numbers \subseteq [1..4 -> Byte] /\ Tags \subseteq Byte

Unknown  == 3561        \* load_testing's second vendor
Mikrotik == 14988

ASSUME VendorAssumption == Redback \in Nat \ {Unknown, Mikrotik}

\* What the header of an attribute leaves room for.
OnTheWire == {l \in Seq([vendor : {Redback, Mikrotik, Unknown}, data : Seq(Byte)]) :
                 \A i \in DOMAIN l : Len(l[i].data) <= 249}

ASSUME ReceivedAssumption == Received \subseteq OnTheWire

VARIABLES
    list,           \* p.Attributes[26]
    status,         \* of the operation before
    stored,         \* history, per attribute: what the callers were told is in
                    \* the packet; an empty value leaves nothing to read
    received,       \* the packet came from the network: it is only read
    attributes,     \* the attributes of this history ...
    left            \* ... and the operations left in it

vars == <<list, status, stored, received, attributes, left>>

-----------------------------------------------------------------------------
\* The encodings of the accessors; an encoding that fails is no bytes at all.
Refused == <<256>>

Values(a) ==
    CASE a.kind = "ip"        -> {<<10, 0, 0, 1>>, [i \in 1..16 |-> 254]}
      [] a.kind = "integer"   -> Numbers
      [] a.kind = "integer64" -> {<<0, 0, 0, 0>> \o n : n \in Numbers}
      [] a.kind = "octets"    -> Strings

Encode(a, tag, v) ==
    CASE a.kind = "ip" -> IF Len(v) = 4 THEN v ELSE Refused
      [] a.kind = "integer" /\ a.tagged ->
            [v EXCEPT ![1] = IF tag \in 1..31 THEN tag ELSE 0]
      [] a.kind = "octets" ->
            IF Len(v) > 253 THEN Refused
            ELSE IF a.tagged /\ tag <= 31 THEN <<tag>> \o v ELSE v
      [] OTHER -> v

HasTag(b) == b # << >> /\ b[1] <= 31

\* [err, tag, value]
Decode(a, b) ==
    LET tag == IF a.tagged /\ HasTag(b) THEN b[1] ELSE 0
        v   == IF ~(a.tagged /\ HasTag(b)) THEN b
               ELSE IF a.kind = "octets" THEN Tail(b) ELSE [b EXCEPT ![1] = 0]
        size == CASE a.kind \in {"ip", "integer"} -> 4
                  [] a.kind = "integer64"         -> 8
                  [] OTHER                        -> Len(v)
    IN [err |-> Len(v) # size, tag |-> tag, value |-> v]

\* X_Gets: the values before the first that does not decode.
Gets(a) ==
    LET raw  == GetsVendor(list, a.typ)
        all  == [i \in DOMAIN raw |-> Decode(a, raw[i])]
        good == {n \in 0..Len(all) : \A i \in 1..n : ~all[i].err}
    IN SubSeq(all, 1, CHOOSE n \in good : \A k \in good : k <= n)

\* X_Lookup, X_Get: [err, ...]; no attribute is an error too.
Lookup(a) ==
    LET first == LookupVendor(list, a.typ) IN
    IF first = << >> THEN [err |-> TRUE] ELSE Decode(a, first[1])

-----------------------------------------------------------------------------
Init ==
    /\ status = "ok"
    /\ received \in BOOLEAN
    /\ IF received
       THEN list \in Received /\ attributes = Asked /\ left = 0
       ELSE list = << >> /\ \E h \in Histories : attributes = h.attributes /\ left = h.ops
    /\ stored = [a \in attributes \cup {ContextName} |-> << >>]

Entry(a, tag, v) ==
    IF Encode(a, tag, v) = << >> THEN << >> ELSE <<[tag |-> tag, value |-> v]>>

Apply(result) ==
    /\ status \in {"ok", "error"} /\ left > 0
    /\ list' = result.list /\ status' = result.status /\ left' = left - 1
    /\ UNCHANGED <<received, attributes>>

Refuse == [status |-> "error", list |-> list]

Add(a, tag, v) ==
    LET b == Encode(a, tag, v) IN
    /\ Apply(IF b = Refused THEN Refuse ELSE AddVendor(list, Redback, a.typ, b))
    /\ stored' = IF status' = "ok" THEN [stored EXCEPT ![a] = @ \o Entry(a, tag, v)] ELSE stored

\* A Set that panics, or that fails after it has stripped the list, tells the
\* caller nothing of what is left.
Set(a, tag, v) ==
    LET b == Encode(a, tag, v) IN
    /\ Apply(IF b = Refused THEN Refuse ELSE SetVendor(list, a.typ, b))
    /\ stored' = IF status' = "ok" THEN [stored EXCEPT ![a] = Entry(a, tag, v)] ELSE stored

Del(a) ==
    /\ Apply(DelVendor(list, a.typ))
    /\ stored' = IF status' = "ok" THEN [stored EXCEPT ![a] = << >>] ELSE stored

\* Mutant of ContextNameType: the type of another attribute.
ContextNameType_Other == 5

\* attrTypes["Redback-Context-Name"]
ContextNameType == 4

\* setExtraAttribute with a Redback name, ...
SetContextName(v) ==
    /\ Apply(IF Len(v) > 253 THEN Refuse ELSE AddVendor(list, Redback, ContextNameType, v))
    /\ stored' = IF status' = "ok" THEN [stored EXCEPT ![ContextName] = @ \o Entry(ContextName, 0, v)] ELSE stored

\* ... with a Mikrotik name, ...
SetMikrotik(typ, v) ==
    /\ Apply(IF Len(v) > 253 THEN Refuse ELSE AddVendor(list, Mikrotik, typ, v))
    /\ UNCHANGED stored

\* ... and addVendorSub of the load generator.
AddVendorSub(typ, v) ==
    /\ Apply(AddVendor(list, Unknown, typ, v))
    /\ UNCHANGED stored

Next ==
    \/ \E a \in attributes, tag \in Tags : \E v \in Values(a) : Add(a, tag, v) \/ Set(a, tag, v)
    \/ \E a \in attributes : Del(a)
    \/ \E v \in Strings :
        \/ SetContextName(v)
        \/ \E a \in attributes : SetMikrotik(a.typ, v) \/ AddVendorSub(a.typ, v)

Spec == Init /\ [][Next]_vars

-----------------------------------------------------------------------------
Usable == ~received /\ status \in {"ok", "error"}

\* What is on its way to the wire fits there: an inner length that wrapped
\* would not name the end of its attribute (generated.go:17-29, extraattr.go:61-69).
TypeOK ==
    /\ status \in {"ok", "error", "panic", "hang"} /\ left \in Nat
    /\ received \in BOOLEAN /\ attributes \subseteq Dictionary
    /\ list \in OnTheWire
    /\ stored \in [attributes \cup {ContextName} -> Seq([tag : Byte, value : Seq(Byte)])]
    /\ ~received => \A i \in DOMAIN list : list[i].data[2] = Len(list[i].data)

\* Values an encoding keeps: a tag of 1..31, or 0 for none, takes the place of
\* the highest byte of an integer.
Kept(a, e) == a.tagged => e.tag \in 0..31 /\ (a.kind = "integer" => e.value[1] = 0)

\* Whatever accessors, extra attributes and foreign vendors built the packet,
\* each attribute reads back as the values stored under its name, in order, the
\* first of them by Lookup, and no other attribute's (generated.go:31-100 and
\* every accessor; handler.go:72, 76 read type 96 and 97 this way).
ReadsBack ==
    Usable => \A a \in attributes \cup {ContextName} :
        LET told == stored[a]  got == Gets(a) IN
        /\ Len(got) = Len(told)
        /\ \A i \in DOMAIN told : Kept(a, told[i]) =>
              /\ got[i].value = told[i].value
              /\ a.tagged => got[i].tag = told[i].tag
        /\ IF told = << >> THEN Lookup(a).err ELSE Lookup(a) = got[1]

\* What is written fits on the wire and can be read back.
WritesReadBack == TypeOK /\ ReadsBack

\* Set of an attribute that cannot be read from the packet is an Add of it, all
\* that the tools do (radbench/main.go:197, 201; load_testing/packet.go:108,
\* 113).  Set of one that can be read always panics (generated.go:78-86), before
\* it has changed anything: it never returns with a value lost or overwritten.
SetAddsOrPanics ==
    Usable => \A a \in attributes :
        SetVendor(list, a.typ, <<1>>) =
            IF stored[a] = << >> THEN AddVendor(list, Redback, a.typ, <<1>>)
            ELSE [status |-> "panic", list |-> list]

\* Del comes round for ever to another vendor's attribute (generated.go:107-109),
\* wherever that stands, and for no other reason.
DelHangsAtForeign ==
    Usable => \A a \in attributes :
        DelVendor(list, a.typ).status =
            IF \E i \in DOMAIN list : list[i].vendor # Redback THEN "hang" ELSE "ok"

\* When Set and Del of the generated code do what their names say and when they
\* do not end, whatever has been put into the packet.
ChangesAreSafe == SetAddsOrPanics /\ DelHangsAtForeign

-----------------------------------------------------------------------------
\* Received bytes.  A sub-attribute begins at q when lengths lead there from
\* the first byte, all of them whole.
WholeAt(data, p) == p + 2 <= Len(data) /\ data[p + 1] >= 3 /\ p + data[p + 1] - 1 <= Len(data)

Starts(data) ==
    {q \in 1..Len(data) : \E path \in SUBSET (1..q) :
        /\ {1, q} \subseteq path
        /\ \A p \in path \ {q} : WholeAt(data, p) /\ p + data[p + 1] \in path
        /\ \A p \in path \ {1} : \E r \in path : p = r + data[r + 1]}

\* A read finds the whole sub-attributes of the asked type up to the first
\* broken one, in order, whatever bytes a NAS sent (generated.go:31-69).
ReadsWholePrefix ==
    received => \A i \in DOMAIN list, a \in attributes :
        LET data == list[i].data
            hits == {q \in Starts(data) : WholeAt(data, q) /\ data[q] = a.typ}
            want == [k \in 1..Cardinality(hits) |->
                        LET q == CHOOSE x \in hits : Cardinality({y \in hits : y < x}) = k - 1
                        IN SubSeq(data, q + 2, q + data[q + 1] - 1)]
        IN ValuesIn(data, a.typ) = want

\* A broken or foreign attribute hides nothing in the ones before or after it,
\* and Lookup is the first of Gets.
ReadsAreLocal ==
    received => \A a \in attributes :
        /\ LET all == GetsVendor(list, a.typ) IN
           LookupVendor(list, a.typ) = IF all = << >> THEN all ELSE <<Head(all)>>
        /\ \A i \in DOMAIN list :
              (~Ours(list[i]) \/ Starts(list[i].data) = {1}) /\ ValuesIn(list[i].data, a.typ) = << >> =>
                  GetsVendor(RemoveAt(list, i), a.typ) = GetsVendor(list, a.typ)

\* What a NAS sent is read up to its first broken part, and no further.
ReceivedIsRead == ReadsWholePrefix /\ ReadsAreLocal
=============================================================================
