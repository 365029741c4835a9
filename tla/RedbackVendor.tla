--------------------------- MODULE RedbackVendor ---------------------------
(***************************************************************************)
(* The five helpers of radius/redback/generated.go over the list a packet  *)
(* keeps of its Vendor-Specific attributes.  A member of the list is       *)
(* [vendor, data], data the bytes after the vendor id: sub-attributes of   *)
(* type, length, value when all is well.  A helper that changes the list   *)
(* returns [status, list]; a slice out of range panics, a loop that comes  *)
(* round to the same state hangs.                                          *)
(***************************************************************************)
EXTENDS Naturals, Sequences, SequencesExt

CONSTANT Redback        \* _Redback_VendorID

Byte == 0..255

From(s, i) == SubSeq(s, i, Len(s))

\* A loop: its state after each round of its body, ...
After(Body(_), start, rounds) ==
    LET after[k \in 0..rounds] == IF k = 0 THEN start ELSE Body(after[k - 1])
    IN  after

\* ... the state it ends in after as many rounds, ...
Through(Body(_), start, rounds) == After(Body, start, rounds)[rounds]

\* ... and the one it ends in since its body would leave it as it is.
Until(Body(_), start, most) ==
    LET after == After(Body, start, most)
    IN  after[CHOOSE k \in 0..most : Body(after[k]) = after[k]]

\* Mutant of Ours: the vendor is not compared.
Ours_AnyVendor(vsa) == vsa.data # << >>

\* radius.VendorSpecific fails on an attribute with nothing after the id.
Ours(vsa) == vsa.vendor = Redback /\ vsa.data # << >>

\* Mutant of AddVendor: what does not fit is not refused.
AddVendor_Unlimited(list, vendor, typ, value) ==
    [status |-> "ok",
     list |-> Append(list, [vendor |-> vendor,
                            data |-> <<typ, (Len(value) + 2) % 256>> \o value])]

\* radius.NewVendorSpecific refuses more than 249 bytes.
AddVendor(list, vendor, typ, value) ==
    IF Len(value) + 2 > 249 THEN [status |-> "error", list |-> list]
    ELSE [status |-> "ok",
          list |-> Append(list, [vendor |-> vendor,
                                 data |-> <<typ, (Len(value) + 2) % 256>> \o value])]

\* Mutant of Over: a type and a length are enough to go on.
Over_OffByOne(data, at) == at + 2 > Len(data)

\* The condition of the loops over sub-attributes: too little is left for one.
Over(data, at) == at + 3 > Len(data)

\* Mutant of Whole: an empty value passes.
Whole_Empty(data, at) == ~Over(data, at) /\ data[at + 2] >= 2 /\ at + data[at + 2] <= Len(data)

\* A sub-attribute begins after the first bytes, whole and not empty.
Whole(data, at) == ~Over(data, at) /\ data[at + 2] >= 3 /\ at + data[at + 2] <= Len(data)

ValueAt(data, at) == SubSeq(data, at + 3, at + data[at + 2])

\* A reader in an attribute, [at, found], goes on to the next sub-attribute.
Past(data, typ, s) ==
    [at    |-> s.at + data[s.at + 2],
     found |-> IF data[s.at + 1] = typ THEN Append(s.found, ValueAt(data, s.at)) ELSE s.found]

ValuesRound(data, typ, s) == IF Whole(data, s.at) THEN Past(data, typ, s) ELSE s
ValuesIn(data, typ) ==
    LET Round(s) == ValuesRound(data, typ, s)
    IN  Until(Round, [at |-> 0, found |-> << >>], Len(data)).found

\* Mutant of FirstIn: only the first sub-attribute is looked at.
FirstIn_HeadOnly(data, typ) ==
    IF Whole(data, 0) /\ data[1] = typ THEN <<ValueAt(data, 0)>> ELSE << >>

\* The first value, as a sequence of at most one.
FirstRound(data, typ, s) == IF s.found = << >> /\ Whole(data, s.at) THEN Past(data, typ, s) ELSE s
FirstIn(data, typ) ==
    LET Round(s) == FirstRound(data, typ, s)
    IN  Until(Round, [at |-> 0, found |-> << >>], Len(data)).found

\* A reader of the list, [i, found].
GetsRound(list, typ, s) ==
    IF s.i > Len(list) THEN s
    ELSE [i     |-> s.i + 1,
          found |-> s.found \o IF Ours(list[s.i]) THEN ValuesIn(list[s.i].data, typ) ELSE << >>]

GetsVendor(list, typ) ==
    LET Round(s) == GetsRound(list, typ, s)
    IN  Through(Round, [i |-> 1, found |-> << >>], Len(list)).found

LookupRound(list, typ, s) ==
    IF s.found # << >> \/ s.i > Len(list) THEN s
    ELSE [i     |-> s.i + 1,
          found |-> IF Ours(list[s.i]) THEN FirstIn(list[s.i].data, typ) ELSE << >>]

LookupVendor(list, typ) ==
    LET Round(s) == LookupRound(list, typ, s)
    IN  Through(Round, [i |-> 1, found |-> << >>], Len(list)).found

-----------------------------------------------------------------------------
\* SetVendor's inner loop at offset j: it reads type and length at the start
\* of the data, whatever j is, and moves on by the length it has just removed.
StripRound(typ, s) ==
    IF Over(s.data, s.j) \/ s.data[2] < 3 \/ s.j + s.data[2] > Len(s.data) THEN s
    ELSE [data |-> IF s.data[1] = typ
                   THEN SubSeq(s.data, 1, s.j) \o From(s.data, s.j + s.data[2] + 1)
                   ELSE s.data,
          j    |-> s.j + s.data[2]]

StripIn(data, typ) ==
    LET Round(s) == StripRound(typ, s)
        end == Until(Round, [data |-> data, j |-> 0], Len(data))
    IN  [status |-> IF end.j > Len(end.data) THEN "panic" ELSE "ok",
         data   |-> end.data,
         skip   |-> IF Over(end.data, end.j) THEN 0 ELSE 1]

\* copy of the shortened data over an attribute's, whose tail stays; what does
\* not fit is not copied.  The data is never empty: the loop panics first.
Overlay(old, new) ==
    SubSeq(new, 1, IF Len(new) < Len(old) THEN Len(new) ELSE Len(old)) \o From(old, Len(new) + 1)

\* The outer loops of SetVendor and DelVendor, on [status, list, i].
EditFrom(list) == [status |-> "ok", list |-> list, i |-> 1]
Leaves(s, status) == [status |-> status, list |-> s.list, i |-> s.i]

\* A broken sub-attribute moves i on before the copy: it goes over the next
\* attribute, whosever that is, and there may be none.
SetRound(typ, s) ==
    LET stripped == StripIn(s.list[s.i].data, typ)
        target == s.i + stripped.skip
    IN
    IF s.status # "ok" \/ s.i > Len(s.list) THEN s
    ELSE IF ~Ours(s.list[s.i]) THEN [status |-> "ok", list |-> s.list, i |-> s.i + 1]
    ELSE IF stripped.status = "panic" \/ target > Len(s.list) THEN Leaves(s, "panic")
    ELSE [status |-> "ok",
          list   |-> [s.list EXCEPT ![target] =
                        [vendor |-> @.vendor, data |-> Overlay(@.data, stripped.data)]],
          i      |-> target + 1]

SetVendor(list, typ, value) ==
    LET Round(s) == SetRound(typ, s)
        end == Through(Round, EditFrom(list), Len(list))
    IN  IF end.status = "ok" THEN AddVendor(end.list, Redback, typ, value)
        ELSE [status |-> end.status, list |-> end.list]

-----------------------------------------------------------------------------
\* DelVendor's inner loop, on a copy of the data.
CutRound(typ, s) ==
    LET len == s.data[s.offset + 2] IN
    IF Over(s.data, s.offset) \/ len \notin 3..Len(s.data) THEN s
    ELSE IF s.data[s.offset + 1] # typ THEN [data |-> s.data, offset |-> s.offset + len]
    ELSE IF s.offset + len > Len(s.data) THEN s
    ELSE [data   |-> SubSeq(s.data, 1, s.offset) \o From(s.data, s.offset + len + 1),
          offset |-> s.offset]

CutIn(data, typ) ==
    LET Round(s) == CutRound(typ, s)
        end == Until(Round, [data |-> data, offset |-> 0], Len(data))
    IN  [status |-> IF end.offset > Len(end.data) THEN "panic"
                    ELSE IF Over(end.data, end.offset) THEN "ok"
                    ELSE IF end.data[end.offset + 2] \in 3..Len(end.data) THEN "panic" ELSE "hang",
         offset |-> end.offset]

\* The attribute goes when nothing of it is left, else it stays as it was: the
\* shortened copy is not stored.  A foreign attribute is met again and again.
DelRound(typ, s) ==
    LET cut == CutIn(s.list[s.i].data, typ) IN
    IF s.status # "ok" \/ s.i > Len(s.list) THEN s
    ELSE IF ~Ours(s.list[s.i]) THEN Leaves(s, "hang")
    ELSE IF cut.status # "ok" THEN Leaves(s, cut.status)
    ELSE IF cut.offset = 0 THEN [status |-> "ok", list |-> RemoveAt(s.list, s.i), i |-> s.i]
    ELSE [status |-> "ok", list |-> s.list, i |-> s.i + 1]

DelVendor(list, typ) ==
    LET Round(s) == DelRound(typ, s)
        end == Through(Round, EditFrom(list), Len(list))
    IN  [status |-> end.status, list |-> end.list]
=============================================================================
