------------------------ MODULE BindIndexLockProofs ------------------------
(***************************************************************************)
(* Proofs about the index, first of one caller, then behind its lock.      *)
(*   - remove keeps it consistent, insert does so for an ID that is not    *)
(*     there, and put is a remove followed by an insert;                   *)
(*   - an update changes the maps one after the other, and every map entry *)
(*     it has not come to yet is the published one; so readers, who never  *)
(*     meet it half way, see a whole index, and updates and lookups are    *)
(*     single steps of BindTable.                                          *)
(***************************************************************************)
EXTENDS BindIndexLock, SequenceTheorems, TLAPS

(* A bind belongs under possible keys only. *)
LEMMA KeysTyped == \A b \in Bind : eachKey(b) \subseteq Key
  BY DEF eachKey, Bind, Key

(* What Without does to a sequence in which no ID occurs twice. *)
LEMMA WithoutProperties ==
    ASSUME NEW s \in Seq(Bind), NEW id, NoDuplicates(s)
    PROVE  /\ Without(s, id) \in Seq(Bind)
           /\ \A j \in DOMAIN Without(s, id) :
                \E i \in DOMAIN s : s[i] = Without(s, id)[j] /\ s[i].id # id
           /\ \A i \in DOMAIN s : s[i].id # id => \E j \in DOMAIN Without(s, id) : Without(s, id)[j] = s[i]
           /\ NoDuplicates(Without(s, id))
           /\ InOrder(Without(s, id), s)
           /\ \A i, j \in DOMAIN s : s[i].id # id /\ s[j].id # id =>
                \E m, n \in DOMAIN Without(s, id) :
                    Without(s, id)[m] = s[i] /\ Without(s, id)[n] = s[j] /\ (i < j => m < n)
  <1> DEFINE hits == {i \in DOMAIN s : s[i].id = id}
             at == CHOOSE i \in hits : TRUE
             w == [j \in 1 .. Len(s) - 1 |-> IF j < at THEN s[j] ELSE s[j + 1]]
  <1>1. CASE hits = {}
    BY <1>1 DEF Without, InOrder
  <1>2. CASE hits # {}
    <2>1. /\ at \in DOMAIN s /\ s[at].id = id
          /\ DOMAIN s = 1 .. Len(s) /\ Len(s) \in Nat
          /\ \A i \in DOMAIN s : s[i] \in Bind
      BY <1>2
    <2>2. \A i \in DOMAIN s : i # at => s[i].id # id
      BY <2>1 DEF NoDuplicates
    <2>3. Without(s, id) = w
      BY <1>2 DEF Without
    <2> HIDE DEF at
    <2>4. w \in Seq(Bind) /\ DOMAIN w = 1 .. Len(s) - 1
      <3>1. Len(s) - 1 \in Nat
        BY <2>1
      <3>2. w \in [1 .. Len(s) - 1 -> Bind]
        BY <2>1
      <3> QED
        BY <3>1, <3>2, IsASeq
    <2>5. ASSUME NEW j \in DOMAIN w
          PROVE  \E i \in DOMAIN s : s[i] = w[j] /\ s[i].id # id
      <3>1. CASE j < at
        BY <2>1, <2>2, <2>4, <3>1
      <3>2. CASE ~(j < at)
        BY <2>1, <2>2, <2>4, <3>2
      <3> QED
        BY <3>1, <3>2
    <2>6. ASSUME NEW i \in DOMAIN s, s[i].id # id
          PROVE  \E j \in DOMAIN w : w[j] = s[i]
      <3>1. CASE i < at
        <4>1. i \in DOMAIN w /\ w[i] = s[i]
          BY <2>1, <2>4, <3>1
        <4> QED
          BY <4>1
      <3>2. CASE at < i
        <4>1. i - 1 \in DOMAIN w /\ w[i - 1] = s[i]
          BY <2>1, <2>4, <3>2
        <4> QED
          BY <4>1
      <3> QED
        BY <2>1, <2>6, <3>1, <3>2
    <2>7. NoDuplicates(w)
      <3> SUFFICES ASSUME NEW i \in DOMAIN w, NEW j \in DOMAIN w, w[i].id = w[j].id
                   PROVE  i = j
        BY DEF NoDuplicates
      <3>1. \A k \in DOMAIN w : w[k] = s[IF k < at THEN k ELSE k + 1] /\ (IF k < at THEN k ELSE k + 1) \in DOMAIN s
        BY <2>1, <2>4
      <3>2. (IF i < at THEN i ELSE i + 1) = (IF j < at THEN j ELSE j + 1)
        BY <3>1 DEF NoDuplicates
      <3> QED
        BY <2>1, <2>4, <3>2
    <2>8. InOrder(w, s)
      <3> DEFINE from(j) == IF j < at THEN j ELSE j + 1
      <3>1. \A j \in DOMAIN w : from(j) \in DOMAIN s /\ w[j] = s[from(j)]
        BY <2>1, <2>4
      <3>2. \A i, j \in DOMAIN w : i < j => from(i) < from(j)
        BY <2>1, <2>4
      <3> HIDE DEF from
      <3> QED
        BY <3>1, <3>2 DEF InOrder
    <2>9. ASSUME NEW i \in DOMAIN s, NEW j \in DOMAIN s, s[i].id # id, s[j].id # id
          PROVE  \E m, n \in DOMAIN w : w[m] = s[i] /\ w[n] = s[j] /\ (i < j => m < n)
      <3> DEFINE to(k) == IF k < at THEN k ELSE k - 1
      <3>1. \A k \in DOMAIN s : k # at => to(k) \in DOMAIN w /\ w[to(k)] = s[k]
        BY <2>1, <2>4
      <3>2. i # at /\ j # at
        BY <2>1, <2>9
      <3>3. i < j => to(i) < to(j)
        BY <2>1, <3>2
      <3> HIDE DEF to
      <3> QED
        BY <3>1, <3>2, <3>3
    <2> HIDE DEF w
    <2> QED
      BY <2>3, <2>4, <2>5, <2>6, <2>7, <2>8, <2>9
  <1> QED
    BY <1>1, <1>2

(* Except is Without on a sequence in which no ID occurs twice. *)
LEMMA ExceptIsWithout ==
    ASSUME NEW s \in Seq(Bind), NEW id
    PROVE  Except(s, id) = Without(s, id)
  <1> DEFINE hits == {i \in DOMAIN s : s[i].id = id}
             at == CHOOSE i \in hits : TRUE
             w == [j \in 1 .. Len(s) - 1 |-> IF j < at THEN s[j] ELSE s[j + 1]]
             front == SubSeq(s, 1, at - 1)
             back  == SubSeq(s, at + 1, Len(s))
  <1>1. CASE hits = {}
    BY <1>1 DEF Without, Except
  <1>2. CASE hits # {}
    <2>1. at \in 1 .. Len(s) /\ Len(s) \in Nat
      BY <1>2
    <2>2. Without(s, id) = w /\ Except(s, id) = front \o back
      BY <1>2 DEF Without, Except
    <2> HIDE DEF at
    <2>3. /\ front \in Seq(Bind) /\ Len(front) = at - 1
          /\ \A j \in 1 .. at - 1 : front[j] = s[j]
      BY <2>1, SubSeqProperties
    <2>4. /\ back \in Seq(Bind) /\ Len(back) = Len(s) - at
          /\ \A j \in 1 .. Len(s) - at : back[j] = s[at + j]
      BY <2>1, SubSeqProperties
    <2> HIDE DEF front, back
    <2>5. w \in Seq(Bind) /\ Len(w) = Len(s) - 1
      <3>1. Len(s) - 1 \in Nat
        BY <2>1
      <3>2. w \in [1 .. Len(s) - 1 -> Bind]
        BY <2>1
      <3> QED
        BY <3>1, <3>2, IsASeq
    <2>6. /\ front \o back \in Seq(Bind) /\ Len(front \o back) = Len(s) - 1
          /\ \A j \in 1 .. Len(s) - 1 :
                (front \o back)[j] = IF j < at THEN front[j] ELSE back[j - (at - 1)]
      <3>1. /\ front \o back \in Seq(Bind) /\ Len(front \o back) = Len(front) + Len(back)
            /\ \A j \in 1 .. Len(front) + Len(back) :
                  (front \o back)[j] = IF j <= Len(front) THEN front[j] ELSE back[j - Len(front)]
        BY <2>3, <2>4, ConcatProperties
      <3> QED
        BY <2>1, <2>3, <2>4, <3>1
    <2>7. \A j \in 1 .. Len(s) - 1 : (front \o back)[j] = w[j]
      <3> SUFFICES ASSUME NEW j \in 1 .. Len(s) - 1 PROVE (front \o back)[j] = w[j]
        OBVIOUS
      <3>1. CASE j < at
        BY <2>1, <2>3, <2>6, <3>1
      <3>2. CASE ~(j < at)
        <4>1. /\ j - (at - 1) \in 1 .. Len(s) - at
              /\ at + (j - (at - 1)) = j + 1
          BY <2>1, <3>2
        <4>2. back[j - (at - 1)] = s[j + 1]
          BY <2>4, <4>1
        <4> QED
          BY <2>6, <3>2, <4>2
      <3> QED
        BY <3>1, <3>2
    <2> HIDE DEF w
    <2>8. front \o back = w
      BY <2>5, <2>6, <2>7, SeqEqual
    <2> QED
      BY <2>2, <2>8
  <1> QED
    BY <1>1, <1>2

(* A list that follows t and has no bind of an ID follows t without that ID. *)
LEMMA FollowsExcept ==
    ASSUME NEW s, NEW t \in Seq(Bind), NoDuplicates(t), NEW id, InOrder(s, t),
           \A i \in DOMAIN s : s[i].id # id
    PROVE  InOrder(s, Except(t, id))
  <1> DEFINE e == Without(t, id)
  <1>1. \A i, j \in DOMAIN t : t[i].id # id /\ t[j].id # id =>
            \E m, n \in DOMAIN e : e[m] = t[i] /\ e[n] = t[j] /\ (i < j => m < n)
    BY WithoutProperties
  <1> HIDE DEF e
  <1>2. InOrder(s, e)
    <2> SUFFICES ASSUME NEW i \in DOMAIN s, NEW j \in DOMAIN s
                 PROVE  \E p, q \in DOMAIN e : e[p] = s[i] /\ e[q] = s[j] /\ (i < j => p < q)
      BY DEF InOrder
    <2>1. PICK m \in DOMAIN t, n \in DOMAIN t : t[m] = s[i] /\ t[n] = s[j] /\ (i < j => m < n)
      BY DEF InOrder
    <2>2. PICK p \in DOMAIN e, q \in DOMAIN e : e[p] = t[m] /\ e[q] = t[n] /\ (m < n => p < q)
      BY <1>1, <2>1
    <2> QED
      BY <2>1, <2>2
  <1> QED
    BY <1>2, ExceptIsWithout DEF e

(* A part of a list that follows t follows t. *)
LEMMA InOrderTransitive ==
    ASSUME NEW s, NEW t, NEW u, InOrder(s, t), InOrder(t, u)
    PROVE  InOrder(s, u)
  <1> SUFFICES ASSUME NEW i \in DOMAIN s, NEW j \in DOMAIN s
               PROVE  \E p, q \in DOMAIN u : u[p] = s[i] /\ u[q] = s[j] /\ (i < j => p < q)
    BY DEF InOrder
  <1>1. PICK m \in DOMAIN t, n \in DOMAIN t : t[m] = s[i] /\ t[n] = s[j] /\ (i < j => m < n)
    BY DEF InOrder
  <1>2. PICK p \in DOMAIN u, q \in DOMAIN u : u[p] = t[m] /\ u[q] = t[n] /\ (m < n => p < q)
    BY DEF InOrder
  <1> QED
    BY <1>1, <1>2

-----------------------------------------------------------------------------
(* What Append does to a bucket that has no bind of the new bind's ID. *)
LEMMA AppendToBucket ==
    ASSUME NEW s \in Seq(Bind), NEW b \in Bind, NoDuplicates(s),
           \A i \in DOMAIN s : s[i].id # b.id
    PROVE  /\ Append(s, b) \in Seq(Bind)
           /\ DOMAIN Append(s, b) = DOMAIN s \cup {Len(s) + 1}
           /\ \A i \in DOMAIN s : Append(s, b)[i] = s[i]
           /\ Append(s, b)[Len(s) + 1] = b
           /\ NoDuplicates(Append(s, b))
  <1> DEFINE a == Append(s, b)
  <1>1. a \in Seq(Bind) /\ DOMAIN a = DOMAIN s \cup {Len(s) + 1}
    OBVIOUS
  <1>2. (\A i \in DOMAIN s : a[i] = s[i]) /\ a[Len(s) + 1] = b
    OBVIOUS
  <1> HIDE DEF a
  <1>3. NoDuplicates(a)
    BY <1>1, <1>2 DEF NoDuplicates
  <1> QED
    BY <1>1, <1>2, <1>3 DEF a

(* remove keeps an index well typed and consistent, and the ID is gone. *)
LEMMA RemovePreserves ==
    ASSUME NEW x, WellTyped(x), Consistent(x), NEW id \in IDs
    PROVE  /\ WellTyped(remove(x, id))
           /\ Consistent(remove(x, id))
           /\ id \notin DOMAIN remove(x, id).byID
  <1>1. CASE id \notin DOMAIN x.byID
    BY <1>1 DEF remove
  <1>2. CASE id \in DOMAIN x.byID
    <2> DEFINE keys    == eachKey(x.byID[id])
               rest(k) == IF k \in keys THEN Without(x.bucket[k], id) ELSE x.bucket[k]
               kept    == {l \in DOMAIN x.bucket : rest(l) # << >>}
               y       == remove(x, id)
    <2>1. /\ y.byID = [i \in DOMAIN x.byID \ {id} |-> x.byID[i]]
          /\ y.bucket = [k \in kept |-> rest(k)]
          /\ y = [byID |-> y.byID, bucket |-> y.bucket]
      BY <1>2 DEF remove
    <2>2. ASSUME NEW k \in DOMAIN x.bucket
          PROVE  /\ rest(k) \in Seq(Bind)
                 /\ NoDuplicates(rest(k))
                 /\ \A j \in DOMAIN rest(k) :
                        \E i \in DOMAIN x.bucket[k] : x.bucket[k][i] = rest(k)[j] /\ x.bucket[k][i].id # id
                 /\ \A i \in DOMAIN x.bucket[k] : x.bucket[k][i].id # id
                        => \E j \in DOMAIN rest(k) : rest(k)[j] = x.bucket[k][i]
      <3>1. x.bucket[k] \in Seq(Bind) /\ NoDuplicates(x.bucket[k])
        BY DEF WellTyped, Consistent
      <3>2. CASE k \in keys
        <4>1. rest(k) = Without(x.bucket[k], id)
          BY <3>2
        <4> DEFINE s == x.bucket[k]
                   w == Without(s, id)
        <4>2. s \in Seq(Bind) /\ NoDuplicates(s)
          BY <3>1
        <4> HIDE DEF s
        <4>3. /\ w \in Seq(Bind)
              /\ \A j \in DOMAIN w : \E i \in DOMAIN s : s[i] = w[j] /\ s[i].id # id
              /\ \A i \in DOMAIN s : s[i].id # id => \E j \in DOMAIN w : w[j] = s[i]
              /\ NoDuplicates(w)
          BY <4>2, WithoutProperties
        <4>4. rest(k) = w
          BY <4>1 DEF s
        <4> HIDE DEF w, rest
        <4> QED
          BY <4>3, <4>4 DEF s
      <3>3. CASE k \notin keys
        <4>1. rest(k) = x.bucket[k]
          BY <3>3
        <4>2. \A i \in DOMAIN x.bucket[k] : x.bucket[k][i].id # id
          BY <3>3 DEF Consistent, NoGhosts
        <4> HIDE DEF rest
        <4> QED
          BY <3>1, <4>1, <4>2
      <3> QED
        BY <3>2, <3>3
    <2> HIDE DEF rest, y
    <2>3. WellTyped(y)
      <3>1. \A i \in DOMAIN y.byID : y.byID[i] = x.byID[i] /\ i \in DOMAIN x.byID
        BY <2>1
      <3>2. \A k \in DOMAIN y.bucket : y.bucket[k] = rest(k) /\ k \in DOMAIN x.bucket
        BY <2>1
      <3> QED
        BY <2>1, <2>2, <3>1, <3>2 DEF WellTyped
    <2>4. NoGhosts(y)
      <3> SUFFICES ASSUME NEW k \in DOMAIN y.bucket, NEW j \in DOMAIN y.bucket[k]
                   PROVE  /\ y.bucket[k][j].id \in DOMAIN y.byID
                          /\ y.bucket[k][j] = y.byID[y.bucket[k][j].id]
                          /\ k \in eachKey(y.bucket[k][j])
        BY DEF NoGhosts
      <3>1. k \in DOMAIN x.bucket /\ y.bucket[k] = rest(k)
        BY <2>1
      <3>2. PICK i \in DOMAIN x.bucket[k] : x.bucket[k][i] = rest(k)[j] /\ x.bucket[k][i].id # id
        BY <2>2, <3>1
      <3>3. /\ x.bucket[k][i].id \in DOMAIN x.byID
            /\ x.bucket[k][i] = x.byID[x.bucket[k][i].id]
            /\ k \in eachKey(x.bucket[k][i])
        BY <3>1 DEF Consistent, NoGhosts
      <3> QED
        BY <2>1, <3>1, <3>2, <3>3
    <2>5. NoneMissing(y)
      <3> SUFFICES ASSUME NEW i \in DOMAIN y.byID, NEW k \in eachKey(y.byID[i])
                   PROVE  k \in DOMAIN y.bucket /\ \E j \in DOMAIN y.bucket[k] : y.bucket[k][j] = y.byID[i]
        BY DEF NoneMissing
      <3>1. i \in DOMAIN x.byID /\ y.byID[i] = x.byID[i] /\ i # id
        BY <2>1
      <3>2. k \in DOMAIN x.bucket /\ \E m \in DOMAIN x.bucket[k] : x.bucket[k][m] = x.byID[i]
        BY <3>1 DEF Consistent, NoneMissing
      <3>3. x.byID[i].id # id
        BY <3>1 DEF WellTyped
      <3>4. PICK j \in DOMAIN rest(k) : rest(k)[j] = x.byID[i]
        BY <2>2, <3>2, <3>3
      <3>5. rest(k) # << >>
        BY <3>4
      <3>6. k \in DOMAIN y.bucket /\ y.bucket[k] = rest(k)
        BY <2>1, <3>2, <3>5
      <3> QED
        BY <3>1, <3>4, <3>6
    <2>6. (\A k \in DOMAIN y.bucket : NoDuplicates(y.bucket[k])) /\ NoEmptyBucket(y)
      BY <2>1, <2>2 DEF NoEmptyBucket
    <2>7. id \notin DOMAIN y.byID
      BY <2>1
    <2> QED
      BY <2>3, <2>4, <2>5, <2>6, <2>7 DEF y, Consistent
  <1> QED
    BY <1>1, <1>2

(* insert keeps an index well typed and consistent if it does not hold the   *)
(* new bind's ID.                                                            *)
LEMMA InsertPreserves ==
    ASSUME NEW x, WellTyped(x), Consistent(x), NEW b \in Bind, b.id \notin DOMAIN x.byID
    PROVE  WellTyped(insert(x, b)) /\ Consistent(insert(x, b))
  <1> DEFINE keys   == eachKey(b)
             old(k) == IF k \in DOMAIN x.bucket THEN x.bucket[k] ELSE << >>
             y      == insert(x, b)
  <1>1. /\ y.byID = [i \in DOMAIN x.byID \cup {b.id} |-> IF i = b.id THEN b ELSE x.byID[i]]
        /\ y.bucket = [k \in DOMAIN x.bucket \cup keys |->
                          IF k \in keys THEN Append(old(k), b) ELSE x.bucket[k]]
        /\ y = [byID |-> y.byID, bucket |-> y.bucket]
    BY DEF insert
  <1>2. ASSUME NEW k
        PROVE  /\ old(k) \in Seq(Bind)
               /\ NoDuplicates(old(k))
               /\ \A i \in DOMAIN old(k) : old(k)[i].id # b.id
    <2>1. CASE k \in DOMAIN x.bucket
      <3>1. old(k) = x.bucket[k]
        BY <2>1
      <3> QED
        BY <2>1, <3>1 DEF WellTyped, Consistent, NoGhosts
    <2>2. CASE k \notin DOMAIN x.bucket
      BY <2>2 DEF NoDuplicates
    <2> QED
      BY <2>1, <2>2
  <1>3. \A k \in DOMAIN x.bucket : old(k) = x.bucket[k]
    OBVIOUS
  <1>4. \A k : /\ Append(old(k), b) \in Seq(Bind)
               /\ DOMAIN Append(old(k), b) = DOMAIN old(k) \cup {Len(old(k)) + 1}
               /\ \A i \in DOMAIN old(k) : Append(old(k), b)[i] = old(k)[i]
               /\ Append(old(k), b)[Len(old(k)) + 1] = b
               /\ NoDuplicates(Append(old(k), b))
    <2> HIDE DEF old
    <2> SUFFICES ASSUME NEW k
                 PROVE  /\ Append(old(k), b) \in Seq(Bind)
                        /\ DOMAIN Append(old(k), b) = DOMAIN old(k) \cup {Len(old(k)) + 1}
                        /\ \A i \in DOMAIN old(k) : Append(old(k), b)[i] = old(k)[i]
                        /\ Append(old(k), b)[Len(old(k)) + 1] = b
                        /\ NoDuplicates(Append(old(k), b))
      OBVIOUS
    <2>1. /\ old(k) \in Seq(Bind)
          /\ NoDuplicates(old(k))
          /\ \A i \in DOMAIN old(k) : old(k)[i].id # b.id
      BY <1>2
    <2> QED
      BY <2>1, AppendToBucket
  <1> HIDE DEF old, y
  <1>5. \A k \in DOMAIN y.bucket :
            \/ k \in keys /\ y.bucket[k] = Append(old(k), b)
            \/ k \notin keys /\ k \in DOMAIN x.bucket /\ y.bucket[k] = old(k)
    BY <1>1, <1>3
  <1>6. keys \subseteq Key /\ b.id \in IDs
    BY KeysTyped DEF Bind
  <1>7. WellTyped(y)
    <2>1. \A i \in DOMAIN y.byID : y.byID[i] \in Bind /\ y.byID[i].id = i
      BY <1>1 DEF WellTyped
    <2>2. \A k \in DOMAIN y.bucket : y.bucket[k] \in Seq(Bind)
      BY <1>2, <1>4, <1>5
    <2>3. DOMAIN y.byID \subseteq IDs /\ DOMAIN y.bucket \subseteq Key
      BY <1>1, <1>6 DEF WellTyped
    <2>4. /\ y.byID = [i \in DOMAIN y.byID |-> y.byID[i]]
          /\ y.bucket = [k \in DOMAIN y.bucket |-> y.bucket[k]]
      <3> HIDE DEF keys
      <3> QED
        BY <1>1
    <2> QED
      BY <1>1, <2>1, <2>2, <2>3, <2>4 DEF WellTyped
  <1>8. NoGhosts(y)
    <2> SUFFICES ASSUME NEW k \in DOMAIN y.bucket, NEW j \in DOMAIN y.bucket[k]
                 PROVE  /\ y.bucket[k][j].id \in DOMAIN y.byID
                        /\ y.bucket[k][j] = y.byID[y.bucket[k][j].id]
                        /\ k \in eachKey(y.bucket[k][j])
      BY DEF NoGhosts
    <2>1. CASE k \in keys /\ y.bucket[k][j] = b
      BY <1>1, <2>1
    <2>2. CASE j \in DOMAIN old(k) /\ y.bucket[k][j] = old(k)[j] /\ k \in DOMAIN x.bucket
      <3>1. /\ old(k)[j].id \in DOMAIN x.byID
            /\ old(k)[j] = x.byID[old(k)[j].id]
            /\ k \in eachKey(old(k)[j])
        BY <1>3, <2>2 DEF Consistent, NoGhosts
      <3>2. old(k)[j].id # b.id
        BY <3>1
      <3>3. /\ old(k)[j].id \in DOMAIN y.byID
            /\ y.byID[old(k)[j].id] = x.byID[old(k)[j].id]
        BY <1>1, <3>1, <3>2
      <3> QED
        BY <2>2, <3>1, <3>3
    <2>3. \/ k \in keys /\ y.bucket[k][j] = b
          \/ j \in DOMAIN old(k) /\ y.bucket[k][j] = old(k)[j] /\ k \in DOMAIN x.bucket
      <3>1. DOMAIN old(k) # {} => k \in DOMAIN x.bucket
        BY DEF old
      <3> QED
        BY <1>4, <1>5, <3>1
    <2> QED
      BY <2>1, <2>2, <2>3
  <1>9. NoneMissing(y)
    <2> SUFFICES ASSUME NEW i \in DOMAIN y.byID, NEW k \in eachKey(y.byID[i])
                 PROVE  k \in DOMAIN y.bucket /\ \E j \in DOMAIN y.bucket[k] : y.bucket[k][j] = y.byID[i]
      BY DEF NoneMissing
    <2>1. CASE i = b.id
      <3>1. y.byID[i] = b /\ k \in keys
        BY <1>1, <2>1
      <3>2. k \in DOMAIN y.bucket /\ y.bucket[k] = Append(old(k), b)
        BY <1>1, <3>1
      <3>3. Len(old(k)) + 1 \in DOMAIN y.bucket[k] /\ y.bucket[k][Len(old(k)) + 1] = b
        BY <1>4, <3>2
      <3> QED
        BY <3>1, <3>2, <3>3
    <2>2. CASE i # b.id
      <3>1. i \in DOMAIN x.byID /\ y.byID[i] = x.byID[i]
        BY <1>1, <2>2
      <3>2. k \in DOMAIN x.bucket /\ \E j \in DOMAIN x.bucket[k] : x.bucket[k][j] = x.byID[i]
        BY <3>1 DEF Consistent, NoneMissing
      <3>3. PICK j \in DOMAIN old(k) : old(k)[j] = x.byID[i]
        BY <1>3, <3>2
      <3>4. k \in DOMAIN y.bucket
        BY <1>1, <3>2
      <3>5. j \in DOMAIN y.bucket[k] /\ y.bucket[k][j] = old(k)[j]
        BY <1>4, <1>5, <3>3, <3>4
      <3> QED
        BY <3>1, <3>3, <3>4, <3>5
    <2> QED
      BY <2>1, <2>2
  <1>10. \A k \in DOMAIN y.bucket : NoDuplicates(y.bucket[k])
    BY <1>2, <1>4, <1>5
  <1>11. NoEmptyBucket(y)
    <2> SUFFICES ASSUME NEW k \in DOMAIN y.bucket, y.bucket[k] = << >> PROVE FALSE
      BY DEF NoEmptyBucket
    <2>1. CASE k \in keys /\ y.bucket[k] = Append(old(k), b)
      BY <1>4, <2>1
    <2>2. CASE k \in DOMAIN x.bucket /\ y.bucket[k] = old(k)
      BY <1>3, <2>2 DEF Consistent, NoEmptyBucket
    <2> QED
      BY <1>5, <2>1, <2>2
  <1> QED
    BY <1>7, <1>8, <1>9, <1>10, <1>11 DEF y, Consistent

(* put keeps an index well typed and consistent. *)
LEMMA PutPreserves ==
    ASSUME NEW x, WellTyped(x), Consistent(x), NEW b \in Bind
    PROVE  WellTyped(put(x, b)) /\ Consistent(put(x, b))
  <1>1. b.id \in IDs
    BY DEF Bind
  <1>2. /\ WellTyped(remove(x, b.id))
        /\ Consistent(remove(x, b.id))
        /\ b.id \notin DOMAIN remove(x, b.id).byID
    BY <1>1, RemovePreserves
  <1> QED
    BY <1>2, InsertPreserves DEF put

-----------------------------------------------------------------------------
(* A list that follows t follows t with one bind more at the end. *)
LEMMA FollowsAppend ==
    ASSUME NEW s, NEW t \in Seq(Bind), NEW b \in Bind, InOrder(s, t)
    PROVE  InOrder(s, Append(t, b))
  <1> DEFINE u == Append(t, b)
  <1>1. DOMAIN t \subseteq DOMAIN u /\ \A m \in DOMAIN t : u[m] = t[m]
    OBVIOUS
  <1> HIDE DEF u
  <1>2. InOrder(s, u)
    BY <1>1 DEF InOrder
  <1> QED
    BY <1>2 DEF u

(* So it does with that bind at its own end. *)
LEMMA BothAppend ==
    ASSUME NEW s \in Seq(Bind), NEW t \in Seq(Bind), NEW b \in Bind,
           InOrder(s, Append(t, b)), \A i \in DOMAIN s : s[i].id # b.id
    PROVE  InOrder(Append(s, b), Append(t, b))
  <1> DEFINE a == Append(s, b)
             u == Append(t, b)
  <1>1. /\ DOMAIN a = DOMAIN s \cup {Len(s) + 1} /\ DOMAIN s = 1 .. Len(s) /\ Len(s) \in Nat
        /\ a[Len(s) + 1] = b /\ \A i \in DOMAIN s : a[i] = s[i]
    OBVIOUS
  <1>2. /\ DOMAIN u = 1 .. Len(t) + 1 /\ Len(t) \in Nat
        /\ u[Len(t) + 1] = b
        /\ InOrder(s, u)
    OBVIOUS
  <1> HIDE DEF a, u
  <1>0. \A i, j \in DOMAIN s : \E m, n \in DOMAIN u : u[m] = s[i] /\ u[n] = s[j] /\ (i < j => m < n)
    BY <1>2, Zenon DEF InOrder
  <1>3. ASSUME NEW i \in DOMAIN s
        PROVE  \E m \in DOMAIN u : u[m] = s[i] /\ m < Len(t) + 1
    <2>1. PICK m \in DOMAIN u : u[m] = s[i]
      BY <1>2 DEF InOrder
    <2>2. m # Len(t) + 1
      BY <1>2, <2>1
    <2> QED
      BY <1>2, <2>1, <2>2
  <1>4. InOrder(a, u)
    <2> SUFFICES ASSUME NEW i \in DOMAIN a, NEW j \in DOMAIN a
                 PROVE  \E m, n \in DOMAIN u : u[m] = a[i] /\ u[n] = a[j] /\ (i < j => m < n)
      BY DEF InOrder
    <2>1. CASE i \in DOMAIN s /\ j \in DOMAIN s
      <3>1. PICK m \in DOMAIN u, n \in DOMAIN u : u[m] = s[i] /\ u[n] = s[j] /\ (i < j => m < n)
        BY <1>0, <2>1
      <3> QED
        BY <1>1, <2>1, <3>1
    <2>2. CASE i \in DOMAIN s /\ j = Len(s) + 1
      <3>1. PICK m \in DOMAIN u : u[m] = s[i] /\ m < Len(t) + 1
        BY <1>3, <2>2
      <3>2. Len(t) + 1 \in DOMAIN u
        BY <1>2
      <3> QED
        BY <1>1, <1>2, <2>2, <3>1, <3>2
    <2>3. CASE i = Len(s) + 1 /\ j \in DOMAIN s
      <3>1. ~(i < j)
        BY <1>1, <2>3
      <3>2. PICK n \in DOMAIN u : u[n] = s[j]
        BY <1>3, <2>3
      <3>3. Len(t) + 1 \in DOMAIN u
        BY <1>2
      <3> QED
        BY <1>1, <1>2, <2>3, <3>1, <3>2, <3>3
    <2>4. CASE i = Len(s) + 1 /\ j = Len(s) + 1
      <3>1. ~(i < j)
        BY <1>1, <2>4
      <3>2. Len(t) + 1 \in DOMAIN u
        BY <1>2
      <3> QED
        BY <1>1, <1>2, <2>4, <3>1, <3>2
    <2> QED
      BY <1>1, <2>1, <2>2, <2>3, <2>4
  <1> QED
    BY <1>4 DEF a, u

(* Taking an ID out of byID takes its bind, if there is one, out of the list. *)
LEMMA HoldsExcept ==
    ASSUME NEW x, WellTyped(x), NEW id, NEW t, HoldsBinds(x, t),
           NEW y, y.byID = [i \in DOMAIN x.byID \ {id} |-> x.byID[i]]
    PROVE  HoldsBinds(y, Except(t, id))
  <1> DEFINE e == Except(t, id)
  <1>1. /\ e \in Seq(Bind) /\ NoDuplicates(e)
        /\ \A j \in DOMAIN e : \E i \in DOMAIN t : t[i] = e[j] /\ t[i].id # id
        /\ \A i \in DOMAIN t : t[i].id # id => \E j \in DOMAIN e : e[j] = t[i]
    <2>1. t \in Seq(Bind) /\ NoDuplicates(t)
      BY DEF HoldsBinds
    <2> QED
      BY <2>1, ExceptIsWithout, WithoutProperties
  <1> HIDE DEF e
  <1>2. ASSUME NEW j \in DOMAIN e PROVE e[j].id \in DOMAIN y.byID /\ y.byID[e[j].id] = e[j]
    <2>1. PICK i \in DOMAIN t : t[i] = e[j] /\ t[i].id # id
      BY <1>1
    <2> QED
      BY <2>1 DEF HoldsBinds
  <1>3. ASSUME NEW i \in DOMAIN y.byID PROVE \E j \in DOMAIN e : e[j] = y.byID[i]
    <2>1. i \in DOMAIN x.byID /\ i # id /\ y.byID[i] = x.byID[i] /\ x.byID[i].id = i
      BY DEF WellTyped
    <2>2. PICK m \in DOMAIN t : t[m] = x.byID[i]
      BY <2>1 DEF HoldsBinds
    <2> QED
      BY <1>1, <2>1, <2>2
  <1>4. HoldsBinds(y, e)
    BY <1>1, <1>2, <1>3 DEF HoldsBinds
  <1> QED
    BY <1>4 DEF e

LEMMA ExceptAbsent ==
    ASSUME NEW x, NEW t, HoldsBinds(x, t), NEW id, id \notin DOMAIN x.byID
    PROVE  Except(t, id) = t
  <1>1. {i \in DOMAIN t : t[i].id = id} = {}
    BY DEF HoldsBinds
  <1> QED
    BY <1>1 DEF Except

(* Putting a new bind into byID puts it at the end of the list. *)
LEMMA HoldsAppend ==
    ASSUME NEW x, NEW b \in Bind, b.id \notin DOMAIN x.byID, NEW t, HoldsBinds(x, t),
           NEW y, y.byID = [i \in DOMAIN x.byID \cup {b.id} |-> IF i = b.id THEN b ELSE x.byID[i]]
    PROVE  HoldsBinds(y, Append(t, b))
  <1> DEFINE u == Append(t, b)
  <1>1. \A i \in DOMAIN t : t[i].id # b.id
    BY DEF HoldsBinds
  <1>2. /\ u \in Seq(Bind) /\ NoDuplicates(u)
        /\ DOMAIN u = DOMAIN t \cup {Len(t) + 1}
        /\ u[Len(t) + 1] = b /\ \A i \in DOMAIN t : u[i] = t[i]
    <2>1. t \in Seq(Bind) /\ NoDuplicates(t)
      BY DEF HoldsBinds
    <2> QED
      BY <1>1, <2>1, AppendToBucket
  <1> HIDE DEF u
  <1>3. ASSUME NEW j \in DOMAIN u PROVE u[j].id \in DOMAIN y.byID /\ y.byID[u[j].id] = u[j]
    BY <1>1, <1>2 DEF HoldsBinds
  <1>4. ASSUME NEW i \in DOMAIN y.byID PROVE \E j \in DOMAIN u : u[j] = y.byID[i]
    BY <1>2 DEF HoldsBinds
  <1>5. HoldsBinds(y, u)
    BY <1>2, <1>3, <1>4 DEF HoldsBinds
  <1> QED
    BY <1>5 DEF u

(* remove takes the bind out of byID and of the list, and keeps every order. *)
LEMMA RemoveKeepsOrder ==
    ASSUME NEW x, WellTyped(x), Consistent(x), NEW id \in IDs,
           NEW t, HoldsBinds(x, t), BucketsInOrder(x, t)
    PROVE  HoldsBinds(remove(x, id), Except(t, id)) /\ BucketsInOrder(remove(x, id), Except(t, id))
  <1>0. t \in Seq(Bind) /\ NoDuplicates(t)
    BY DEF HoldsBinds
  <1>1. CASE id \notin DOMAIN x.byID
    <2>1. remove(x, id) = x
      BY <1>1 DEF remove
    <2>2. Except(t, id) = t
      BY <1>1, ExceptAbsent
    <2> QED
      BY <2>1, <2>2
  <1>2. CASE id \in DOMAIN x.byID
    <2> DEFINE y == remove(x, id)
               e == Except(t, id)
    <2>1. /\ y.byID = [i \in DOMAIN x.byID \ {id} |-> x.byID[i]]
          /\ DOMAIN y.bucket \subseteq DOMAIN x.bucket
          /\ \A k \in DOMAIN y.bucket : y.bucket[k] \in {x.bucket[k], Without(x.bucket[k], id)}
      BY <1>2 DEF remove
    <2>2. WellTyped(y) /\ Consistent(y) /\ id \notin DOMAIN y.byID
      BY RemovePreserves
    <2> HIDE DEF y
    <2>3. HoldsBinds(y, e)
      BY <2>1, HoldsExcept
    <2>4. ASSUME NEW k \in DOMAIN y.bucket PROVE InOrder(y.bucket[k], e)
      <3>1. InOrder(x.bucket[k], t) /\ x.bucket[k] \in Seq(Bind) /\ NoDuplicates(x.bucket[k])
        BY <2>1 DEF BucketsInOrder, WellTyped, Consistent
      <3>2. y.bucket[k] = x.bucket[k] \/ InOrder(y.bucket[k], x.bucket[k])
        BY <2>1, <3>1, WithoutProperties
      <3>3. InOrder(y.bucket[k], t)
        BY <3>1, <3>2, InOrderTransitive
      <3>4. \A i \in DOMAIN y.bucket[k] : y.bucket[k][i].id # id
        BY <2>2 DEF Consistent, NoGhosts
      <3> QED
        BY <1>0, <3>3, <3>4, FollowsExcept
    <2> QED
      BY <2>3, <2>4 DEF y, BucketsInOrder
  <1> QED
    BY <1>1, <1>2

(* insert puts the bind last in the list and in each of its buckets. *)
LEMMA InsertKeepsOrder ==
    ASSUME NEW x, WellTyped(x), Consistent(x), NEW b \in Bind, b.id \notin DOMAIN x.byID,
           NEW t, HoldsBinds(x, t), BucketsInOrder(x, t)
    PROVE  HoldsBinds(insert(x, b), Append(t, b)) /\ BucketsInOrder(insert(x, b), Append(t, b))
  <1> DEFINE y == insert(x, b)
             u == Append(t, b)
  <1>1. y.byID = [i \in DOMAIN x.byID \cup {b.id} |-> IF i = b.id THEN b ELSE x.byID[i]]
    BY DEF insert
  <1>2. \A k \in DOMAIN y.bucket :
            \/ k \in DOMAIN x.bucket /\ y.bucket[k] \in {x.bucket[k], Append(x.bucket[k], b)}
            \/ y.bucket[k] = Append(<< >>, b)
    BY DEF insert
  <1> HIDE DEF y, u
  <1>3. HoldsBinds(y, u)
    BY <1>1, HoldsAppend DEF u
  <1>4. ASSUME NEW s \in Seq(Bind), InOrder(s, t), \A i \in DOMAIN s : s[i].id # b.id
        PROVE  InOrder(s, u) /\ InOrder(Append(s, b), u)
    <2>1. t \in Seq(Bind)
      BY DEF HoldsBinds
    <2> QED
      BY <1>4, <2>1, FollowsAppend, BothAppend DEF u
  <1>5. ASSUME NEW k \in DOMAIN y.bucket PROVE InOrder(y.bucket[k], u)
    <2>1. CASE k \in DOMAIN x.bucket /\ y.bucket[k] \in {x.bucket[k], Append(x.bucket[k], b)}
      <3>1. x.bucket[k] \in Seq(Bind) /\ InOrder(x.bucket[k], t)
        BY <2>1 DEF WellTyped, BucketsInOrder
      <3>2. \A i \in DOMAIN x.bucket[k] : x.bucket[k][i].id # b.id
        BY <2>1 DEF Consistent, NoGhosts
      <3> QED
        BY <1>4, <2>1, <3>1, <3>2
    <2>2. CASE y.bucket[k] = Append(<< >>, b)
      <3>1. << >> \in Seq(Bind) /\ DOMAIN << >> = {} /\ InOrder(<< >>, t)
        BY DEF InOrder
      <3> DEFINE none == << >>
      <3>2. none \in Seq(Bind) /\ InOrder(none, t) /\ \A i \in DOMAIN none : none[i].id # b.id
        BY <3>1
      <3> HIDE DEF none
      <3>3. InOrder(Append(none, b), u)
        BY <1>4, <3>2
      <3> QED
        BY <2>2, <3>3 DEF none
    <2> QED
      BY <1>2, <2>1, <2>2
  <1> QED
    BY <1>3, <1>5 DEF y, u, BucketsInOrder

(* A query asks for exactly one kind of key, and a bind matches it when it   *)
(* belongs under that key.                                                  *)
LEMMA KeyAnswersQuery ==
    ASSUME NEW b \in Bind, NEW q \in Query
    PROVE  Matches(b, q) <=> QueryKey(q) \in eachKey(b)
  <1> USE NoMacAssumption, PortsAssumption
      DEF Bind, Query, Matches, eachKey, ByMac, ByMacDevice, ByMacDevicePort, ByDevicePort, NoKey
  <1>1. CASE q.mac # NoMac /\ q.device # NoMac /\ q.port # NoPort
    <2>1. QueryKey(q) = ByMacDevicePort(q.mac, q.device, q.port)
      BY <1>1 DEF QueryKey
    <2> QED
      BY <1>1, <2>1
  <1>2. CASE q.mac # NoMac /\ q.device # NoMac /\ q.port = NoPort
    <2>1. QueryKey(q) = ByMacDevice(q.mac, q.device)
      BY <1>2 DEF QueryKey
    <2> QED
      BY <1>2, <2>1
  <1>3. CASE q.mac # NoMac /\ q.device = NoMac
    <2>1. QueryKey(q) = ByMac(q.mac)
      BY <1>3 DEF QueryKey
    <2> QED
      BY <1>3, <2>1
  <1>4. CASE q.mac = NoMac /\ q.device # NoMac /\ q.port # NoPort
    <2>1. QueryKey(q) = ByDevicePort(q.device, q.port)
      BY <1>4 DEF QueryKey
    <2> QED
      BY <1>4, <2>1
  <1>5. CASE q.mac = NoMac /\ (q.device = NoMac \/ q.port = NoPort)
    <2>1. QueryKey(q) = NoKey
      BY <1>5 DEF QueryKey
    <2> QED
      BY <1>5, <2>1
  <1> QED
    BY <1>1, <1>2, <1>3, <1>4, <1>5

(* A lookup in a consistent index answers from the list of all binds. *)
LEMMA FindBindsAnswers ==
    ASSUME NEW x, WellTyped(x), Consistent(x), NEW t, HoldsBinds(x, t), BucketsInOrder(x, t),
           NEW q \in Query
    PROVE  Answers(FindBinds(x, q), t, q)
  <1> DEFINE k == QueryKey(q)
             s == FindBinds(x, q)
  <1>1. \A b \in Bind : Matches(b, q) <=> k \in eachKey(b)
    BY KeyAnswersQuery
  <1>2. k \in DOMAIN x.bucket => s = x.bucket[k]
    BY DEF FindBinds
  <1>3. k \notin DOMAIN x.bucket => DOMAIN s = {}
    BY DEF FindBinds
  <1> HIDE DEF k, s
  <1>4. InOrder(s, t)
    BY <1>2, <1>3 DEF BucketsInOrder, InOrder
  <1>5. ASSUME NEW i \in DOMAIN s PROVE Matches(s[i], q)
    <2>1. k \in DOMAIN x.bucket /\ s = x.bucket[k]
      BY <1>2, <1>3
    <2>2. s[i] \in Bind /\ k \in eachKey(s[i])
      BY <2>1 DEF WellTyped, Consistent, NoGhosts
    <2> QED
      BY <1>1, <2>2
  <1>6. ASSUME NEW j \in DOMAIN t, Matches(t[j], q) PROVE \E i \in DOMAIN s : s[i] = t[j]
    <2>1. /\ t[j] \in Bind
          /\ t[j].id \in DOMAIN x.byID /\ x.byID[t[j].id] = t[j]
      BY DEF HoldsBinds
    <2>2. k \in eachKey(t[j])
      BY <1>1, <1>6, <2>1
    <2>3. k \in DOMAIN x.bucket /\ \E i \in DOMAIN x.bucket[k] : x.bucket[k][i] = t[j]
      BY <2>1, <2>2 DEF Consistent, NoneMissing
    <2> QED
      BY <1>2, <2>3
  <1> QED
    BY <1>4, <1>5, <1>6 DEF Answers, s

-----------------------------------------------------------------------------
(* The index stays well typed, its secondary maps agree with byID and list    *)
(* the binds in the order of the last puts, whatever puts and removes are     *)
(* applied to it (bindindex.go, put and remove).  IndexInv is inductive only  *)
(* together with IndexTypeOK.                                                *)
LEMMA IndexInvariant == IndexSpec => [](IndexTypeOK /\ IndexInv)
  <1> DEFINE Inv(x, t) == WellTyped(x) /\ Consistent(x) /\ HoldsBinds(x, t) /\ BucketsInOrder(x, t)
  <1>1. IndexInit => Inv(idx, order)
    BY DEF IndexInit, newBindIndex, WellTyped, Consistent, NoGhosts, NoneMissing, NoEmptyBucket,
           HoldsBinds, NoDuplicates, BucketsInOrder
  <1>2. ASSUME NEW x, NEW t, Inv(x, t), NEW id \in IDs
        PROVE  Inv(remove(x, id), Except(t, id)) /\ id \notin DOMAIN remove(x, id).byID
    BY <1>2, RemovePreserves, RemoveKeepsOrder
  <1>3. ASSUME NEW x, NEW t, Inv(x, t), NEW b \in Bind, b.id \notin DOMAIN x.byID
        PROVE  Inv(insert(x, b), Append(t, b))
    BY <1>3, InsertPreserves, InsertKeepsOrder
  <1>4. ASSUME NEW x, NEW t, Inv(x, t), NEW b \in Bind
        PROVE  Inv(put(x, b), Append(Except(t, b.id), b))
    <2>1. b.id \in IDs
      BY DEF Bind
    <2>2. Inv(remove(x, b.id), Except(t, b.id)) /\ b.id \notin DOMAIN remove(x, b.id).byID
      BY <1>2, <1>4, <2>1
    <2> HIDE DEF Inv
    <2> QED
      BY <1>3, <2>2 DEF put
  <1> HIDE DEF Inv
  <1>5. Inv(idx, order) /\ [IndexNext]_indexVars => Inv(idx', order')
    <2> SUFFICES ASSUME Inv(idx, order), [IndexNext]_indexVars PROVE Inv(idx', order')
      OBVIOUS
    <2>1. ASSUME NEW b \in Bind, Upsert(b) PROVE Inv(idx', order')
      BY <1>4, <2>1 DEF Upsert
    <2>2. ASSUME NEW id \in IDs, Delete(id) PROVE Inv(idx', order')
      BY <1>2, <2>2 DEF Delete
    <2>3. CASE UNCHANGED indexVars
      BY <2>3 DEF indexVars
    <2> QED
      BY <2>1, <2>2, <2>3 DEF IndexNext
  <1>6. Inv(idx, order) <=> IndexTypeOK /\ IndexInv
    BY DEF Inv, IndexTypeOK, IndexInv
  <1>7. Inv(idx', order') <=> IndexTypeOK' /\ IndexInv'
    BY DEF Inv, IndexTypeOK, IndexInv
  <1> QED
    BY <1>1, <1>5, <1>6, <1>7, PTL DEF IndexSpec

(* byID maps every record ID to the bind of that ID and every bucket belongs *)
(* to a possible key, for every set of records and every history of updates. *)
THEOREM IndexTypeInvariant == IndexSpec => []IndexTypeOK
  BY IndexInvariant, PTL

(* No lookup map of bindindex.go holds a bind under a key it no longer has,  *)
(* misses one, holds one twice or out of order, for every set of records and *)
(* every history of updates.                                                 *)
THEOREM IndexConsistent == IndexSpec => []IndexInv
  BY IndexInvariant, PTL

(* After any puts and removes every lookup answers with exactly the binds     *)
(* that match it, in the order of their last puts (clientdb/store.go,         *)
(* FindBinds).                                                               *)
THEOREM LookupsCorrect == IndexSpec => []LookupsFollowTable
  <1>1. IndexTypeOK /\ IndexInv => LookupsFollowTable
    BY FindBindsAnswers DEF IndexTypeOK, IndexInv, LookupsFollowTable
  <1> QED
    BY <1>1, IndexInvariant, PTL

-----------------------------------------------------------------------------
(* Of the maps an update has left there is a first one. *)
LEMMA FirstKeyIsOne == ASSUME NEW keys, keys \subseteq Key, keys # {} PROVE FirstKey(keys) \in keys
  <1> DEFINE ord(k) == MapOrder[k[1]]
  <1>1. \A k \in keys : ord(k) \in {1, 2, 3, 4}
    BY DEF Key, ByMac, ByMacDevice, ByMacDevicePort, ByDevicePort, MapOrder
  <1> HIDE DEF ord
  <1>2. \E k \in keys : \A l \in keys : ord(k) <= ord(l)
    <2>1. CASE \E k \in keys : ord(k) = 1
      BY <1>1, <2>1
    <2>2. CASE (\A k \in keys : ord(k) # 1) /\ \E k \in keys : ord(k) = 2
      BY <1>1, <2>2
    <2>3. CASE (\A k \in keys : ord(k) \notin {1, 2}) /\ \E k \in keys : ord(k) = 3
      BY <1>1, <2>3
    <2>4. CASE \A k \in keys : ord(k) = 4
      BY <2>4
    <2> QED
      BY <1>1, <2>1, <2>2, <2>3, <2>4
  <1> QED
    BY <1>2 DEF FirstKey, ord

-----------------------------------------------------------------------------
(* What one step of an update makes of the index. *)
WithID(x, b)       == [x EXCEPT !.byID = [i \in DOMAIN x.byID \cup {b.id} |->
                                            IF i = b.id THEN b ELSE x.byID[i]]]
Dropped(x, k, id)  == [x EXCEPT !.bucket = DropFrom(x.bucket, k, id)]
Added(x, k, b)     == [x EXCEPT !.bucket = AddTo(x.bucket, k, b)]

(* What such a step leaves of the order of the binds under each key. *)
BucketsShrink(x, y) ==
    \A l \in DOMAIN y.bucket : l \in DOMAIN x.bucket /\ InOrder(y.bucket[l], x.bucket[l])

BucketsGrow(x, y, b) ==
    \A l \in DOMAIN y.bucket :
        \/ l \in DOMAIN x.bucket /\ y.bucket[l] = x.bucket[l]
        \/ \E s \in Seq(Bind) :
              /\ y.bucket[l] = Append(s, b)
              /\ \A i \in DOMAIN s : s[i].id # b.id
              /\ s = << >> \/ (l \in DOMAIN x.bucket /\ s = x.bucket[l])

(* Without the ID, a consistent index has one bind left over in the maps. *)
LEMMA WholeIsPartly ==
    ASSUME NEW x, WellTyped(x), Consistent(x), NEW id \in DOMAIN x.byID,
           NEW y, y = [x EXCEPT !.byID = [i \in DOMAIN x.byID \ {id} |-> x.byID[i]]]
    PROVE  /\ WellTyped(y)
           /\ y.bucket = x.bucket
           /\ x.byID[id] \in Bind /\ x.byID[id].id = id
           /\ PartlyIndexed(y, x.byID[id], eachKey(x.byID[id]))
  <1>1. /\ y = [byID |-> y.byID, bucket |-> y.bucket]
        /\ y.byID = [i \in DOMAIN x.byID \ {id} |-> x.byID[i]]
        /\ y.bucket = x.bucket
    BY DEF WellTyped
  <1>2. x.byID[id] \in Bind /\ x.byID[id].id = id
    BY DEF WellTyped
  <1>3. WellTyped(y)
    BY <1>1 DEF WellTyped
  <1>4. PartlyIndexed(y, x.byID[id], eachKey(x.byID[id]))
    <2> DEFINE b == x.byID[id]
    <2>1. \A k \in DOMAIN y.bucket : \A i \in DOMAIN y.bucket[k] :
            /\ y.bucket[k][i].id \in DOMAIN x.byID
            /\ y.bucket[k][i] = x.byID[y.bucket[k][i].id]
            /\ k \in eachKey(y.bucket[k][i])
      BY <1>1 DEF Consistent, NoGhosts
    <2>2. \A i \in DOMAIN x.byID : \A k \in eachKey(x.byID[i]) :
            k \in DOMAIN y.bucket /\ \E j \in DOMAIN y.bucket[k] : y.bucket[k][j] = x.byID[i]
      BY <1>1 DEF Consistent, NoneMissing
    <2>3. (\A k \in DOMAIN y.bucket : NoDuplicates(y.bucket[k])) /\ NoEmptyBucket(y)
      BY <1>1 DEF Consistent, NoEmptyBucket
    <2>4. DOMAIN y.byID = DOMAIN x.byID \ {id} /\ \A i \in DOMAIN y.byID : y.byID[i] = x.byID[i]
      BY <1>1
    <2>5. b.id = id /\ b = x.byID[id]
      BY <1>2
    <2> HIDE DEF b
    <2>6. PartlyIndexed(y, b, eachKey(b))
      BY <2>1, <2>2, <2>3, <2>4, <2>5 DEF PartlyIndexed
    <2> QED
      BY <2>6 DEF b
  <1> QED
    BY <1>1, <1>2, <1>3, <1>4

(* With the ID of its bind no map has yet, a consistent index is one without it. *)
LEMMA WholeLacks ==
    ASSUME NEW x, WellTyped(x), Consistent(x), NEW b \in Bind, b.id \notin DOMAIN x.byID,
           NEW y, y = WithID(x, b)
    PROVE  /\ WellTyped(y)
           /\ y.bucket = x.bucket
           /\ y.byID = [i \in DOMAIN x.byID \cup {b.id} |-> IF i = b.id THEN b ELSE x.byID[i]]
           /\ PartlyIndexed(y, b, {})
  <1>1. /\ y = [byID |-> y.byID, bucket |-> y.bucket]
        /\ y.byID = [i \in DOMAIN x.byID \cup {b.id} |-> IF i = b.id THEN b ELSE x.byID[i]]
        /\ y.bucket = x.bucket
    BY DEF WellTyped, WithID
  <1>2. WellTyped(y)
    <2>1. b.id \in IDs
      BY DEF Bind
    <2> QED
      BY <1>1, <2>1 DEF WellTyped
  <1>3. PartlyIndexed(y, b, {})
    BY <1>1 DEF PartlyIndexed, Consistent, NoGhosts, NoneMissing, NoEmptyBucket
  <1> QED
    BY <1>1, <1>2, <1>3

(* An index whose bind is under none of its keys, and unknown, is consistent; *)
(* so is one whose bind is under all of them, and known.                     *)
LEMMA PartlyIsWhole ==
    ASSUME NEW x, NEW b \in Bind, NEW keys, PartlyIndexed(x, b, keys),
           \/ keys = {} /\ b.id \notin DOMAIN x.byID
           \/ keys = eachKey(b) /\ b.id \in DOMAIN x.byID /\ x.byID[b.id] = b
    PROVE  Consistent(x)
  <1>1. NoGhosts(x)
    BY DEF PartlyIndexed, NoGhosts
  <1>2. NoneMissing(x)
    BY DEF PartlyIndexed, NoneMissing
  <1> QED
    BY <1>1, <1>2 DEF PartlyIndexed, Consistent

-----------------------------------------------------------------------------
(* A map entry loses the bind that is moved, and nothing else. *)
LEMMA DropStep ==
    ASSUME NEW x, WellTyped(x), NEW b \in Bind, NEW keys, PartlyIndexed(x, b, keys),
           NEW k \in keys, NEW y, y = Dropped(x, k, b.id)
    PROVE  /\ WellTyped(y)
           /\ y.byID = x.byID
           /\ PartlyIndexed(y, b, keys \ {k})
           /\ BucketsShrink(x, y)
  <1> DEFINE s    == x.bucket[k]
             id   == b.id
             rest == Without(s, id)
  <1>1. /\ k \in DOMAIN x.bucket /\ s \in Seq(Bind) /\ NoDuplicates(s)
        /\ \A i \in DOMAIN s : s[i].id = id => s[i] = b
        /\ \A i \in DOMAIN s : s[i].id # id =>
              s[i].id \in DOMAIN x.byID /\ s[i] = x.byID[s[i].id] /\ k \in eachKey(s[i])
    BY DEF WellTyped, PartlyIndexed
  <1>2. /\ rest \in Seq(Bind) /\ NoDuplicates(rest) /\ InOrder(rest, s)
        /\ \A j \in DOMAIN rest : \E i \in DOMAIN s : s[i] = rest[j] /\ s[i].id # id
        /\ \A i \in DOMAIN s : s[i].id # id => \E j \in DOMAIN rest : rest[j] = s[i]
    <2> HIDE DEF s
    <2> QED
      BY <1>1, WithoutProperties
  <1>3. /\ y = [byID |-> y.byID, bucket |-> y.bucket]
        /\ y.byID = x.byID
        /\ y.bucket = DropFrom(x.bucket, k, id)
    BY DEF WellTyped, Dropped
  <1>4. /\ y.bucket = [l \in DOMAIN y.bucket |-> y.bucket[l]]
        /\ DOMAIN y.bucket = (DOMAIN x.bucket \ {k}) \cup {m \in {k} : rest # << >>}
        /\ \A l \in DOMAIN y.bucket : y.bucket[l] = IF l = k THEN rest ELSE x.bucket[l]
    BY <1>3 DEF DropFrom
  <1> HIDE DEF rest
  <1>5. \A l \in DOMAIN y.bucket : l \in DOMAIN x.bucket /\ (l # k => y.bucket[l] = x.bucket[l])
    BY <1>1, <1>4
  <1>6. k \in DOMAIN y.bucket => y.bucket[k] = rest /\ rest # << >>
    BY <1>4
  <1>7. \A j \in DOMAIN rest : k \in DOMAIN y.bucket
    <2>1. DOMAIN rest # {} => rest # << >>
      OBVIOUS
    <2> QED
      BY <1>4, <2>1
  <1>8. WellTyped(y)
    <2>1. \A l \in DOMAIN y.bucket : y.bucket[l] \in Seq(Bind)
      BY <1>2, <1>5, <1>6 DEF WellTyped
    <2>2. DOMAIN y.bucket \subseteq Key
      BY <1>5 DEF WellTyped
    <2> QED
      BY <1>3, <1>4, <2>1, <2>2 DEF WellTyped
  <1>9. \A l \in DOMAIN y.bucket : InOrder(y.bucket[l], x.bucket[l])
    <2>1. \A l \in DOMAIN y.bucket : l # k => InOrder(y.bucket[l], x.bucket[l])
      BY <1>5 DEF InOrder
    <2> QED
      BY <1>2, <1>6, <2>1
  <1>10. ASSUME NEW l \in DOMAIN y.bucket, NEW i \in DOMAIN y.bucket[l]
         PROVE  LET c == y.bucket[l][i]
                IN  IF c.id = b.id THEN c = b /\ l \in keys \ {k}
                    ELSE c.id \in DOMAIN y.byID /\ c = y.byID[c.id] /\ l \in eachKey(c)
    <2>1. CASE l = k
      <3>1. PICK j \in DOMAIN s : s[j] = rest[i] /\ s[j].id # id
        BY <1>2, <1>6, <2>1
      <3> QED
        BY <1>1, <1>3, <1>6, <2>1, <3>1
    <2>2. CASE l # k
      BY <1>3, <1>5, <2>2 DEF PartlyIndexed
    <2> QED
      BY <2>1, <2>2
  <1>11. ASSUME NEW l \in keys \ {k}
         PROVE  l \in DOMAIN y.bucket /\ \E i \in DOMAIN y.bucket[l] : y.bucket[l][i] = b
    BY <1>4 DEF PartlyIndexed
  <1>12. ASSUME NEW o \in DOMAIN y.byID \ {id}, NEW l \in eachKey(y.byID[o])
         PROVE  l \in DOMAIN y.bucket /\ \E i \in DOMAIN y.bucket[l] : y.bucket[l][i] = y.byID[o]
    <2>1. l \in DOMAIN x.bucket /\ \E i \in DOMAIN x.bucket[l] : x.bucket[l][i] = x.byID[o]
      BY <1>3 DEF PartlyIndexed
    <2>2. CASE l = k
      <3>1. x.byID[o].id # id
        BY <1>3 DEF WellTyped
      <3>2. PICK j \in DOMAIN rest : rest[j] = x.byID[o]
        BY <1>2, <2>1, <2>2, <3>1
      <3> QED
        BY <1>3, <1>6, <1>7, <2>2, <3>2
    <2>3. CASE l # k
      BY <1>3, <1>4, <2>1, <2>3
    <2> QED
      BY <2>2, <2>3
  <1>13. (\A l \in DOMAIN y.bucket : NoDuplicates(y.bucket[l])) /\ NoEmptyBucket(y)
    BY <1>2, <1>5, <1>6 DEF PartlyIndexed, NoEmptyBucket
  <1>14. PartlyIndexed(y, b, keys \ {k})
    BY <1>10, <1>11, <1>12, <1>13 DEF PartlyIndexed
  <1> QED
    BY <1>3, <1>5, <1>8, <1>9, <1>14 DEF BucketsShrink

(* A map entry gets the bind that is moved as its last. *)
LEMMA AddStep ==
    ASSUME NEW x, WellTyped(x), NEW b \in Bind, NEW keys, PartlyIndexed(x, b, keys),
           NEW k \in eachKey(b), k \notin keys, NEW y, y = Added(x, k, b)
    PROVE  /\ WellTyped(y)
           /\ y.byID = x.byID
           /\ PartlyIndexed(y, b, keys \cup {k})
           /\ BucketsGrow(x, y, b)
  <1> DEFINE old == IF k \in DOMAIN x.bucket THEN x.bucket[k] ELSE << >>
             new == Append(old, b)
  <1>1. /\ old \in Seq(Bind) /\ NoDuplicates(old)
        /\ \A i \in DOMAIN old : old[i].id # b.id
        /\ \A i \in DOMAIN old :
              old[i].id \in DOMAIN x.byID /\ old[i] = x.byID[old[i].id] /\ k \in eachKey(old[i])
    <2>1. CASE k \in DOMAIN x.bucket
      <3>1. old = x.bucket[k]
        BY <2>1
      <3> HIDE DEF old
      <3> QED
        BY <2>1, <3>1 DEF WellTyped, PartlyIndexed
    <2>2. CASE k \notin DOMAIN x.bucket
      <3>1. old = << >> /\ DOMAIN << >> = {} /\ << >> \in Seq(Bind)
        BY <2>2
      <3> HIDE DEF old
      <3> QED
        BY <3>1 DEF NoDuplicates
    <2> QED
      BY <2>1, <2>2
  <1>2. k \in DOMAIN x.bucket => old = x.bucket[k]
    OBVIOUS
  <1>3. k \notin DOMAIN x.bucket => old = << >>
    OBVIOUS
  <1>4. /\ y = [byID |-> y.byID, bucket |-> y.bucket]
        /\ y.byID = x.byID
        /\ y.bucket = AddTo(x.bucket, k, b)
    BY DEF WellTyped, Added
  <1>5. /\ y.bucket = [l \in DOMAIN y.bucket |-> y.bucket[l]]
        /\ DOMAIN y.bucket = DOMAIN x.bucket \cup {k}
        /\ \A l \in DOMAIN y.bucket : y.bucket[l] = IF l = k THEN new ELSE x.bucket[l]
    BY <1>4 DEF AddTo
  <1> HIDE DEF old
  <1>6. /\ new \in Seq(Bind) /\ NoDuplicates(new)
        /\ DOMAIN new = DOMAIN old \cup {Len(old) + 1}
        /\ new[Len(old) + 1] = b /\ \A i \in DOMAIN old : new[i] = old[i]
    BY <1>1, AppendToBucket
  <1> HIDE DEF new
  <1>7. k \in DOMAIN y.bucket /\ y.bucket[k] = new
    BY <1>5
  <1>8. \A l \in DOMAIN y.bucket : l # k => l \in DOMAIN x.bucket /\ y.bucket[l] = x.bucket[l]
    BY <1>5
  <1>9. WellTyped(y)
    <2>1. k \in Key
      BY KeysTyped
    <2> QED
      BY <1>4, <1>5, <1>6, <1>7, <1>8, <2>1 DEF WellTyped
  <1>10. ASSUME NEW l \in DOMAIN y.bucket, NEW i \in DOMAIN y.bucket[l]
         PROVE  LET c == y.bucket[l][i]
                IN  IF c.id = b.id THEN c = b /\ l \in keys \cup {k}
                    ELSE c.id \in DOMAIN y.byID /\ c = y.byID[c.id] /\ l \in eachKey(c)
    <2>1. CASE l = k /\ i \in DOMAIN old
      <3>1. y.bucket[l][i] = old[i]
        BY <1>6, <1>7, <2>1
      <3> QED
        BY <1>1, <1>4, <2>1, <3>1
    <2>2. CASE l = k /\ i = Len(old) + 1
      BY <1>6, <1>7, <2>2
    <2>3. CASE l # k
      BY <1>4, <1>8, <2>3 DEF PartlyIndexed
    <2> QED
      BY <1>6, <1>7, <2>1, <2>2, <2>3
  <1>11. ASSUME NEW l \in keys \cup {k}
         PROVE  l \in DOMAIN y.bucket /\ \E i \in DOMAIN y.bucket[l] : y.bucket[l][i] = b
    <2>1. CASE l = k
      BY <1>6, <1>7, <2>1
    <2>2. CASE l # k
      BY <1>5, <2>2 DEF PartlyIndexed
    <2> QED
      BY <2>1, <2>2
  <1>12. ASSUME NEW id \in DOMAIN y.byID \ {b.id}, NEW l \in eachKey(y.byID[id])
         PROVE  l \in DOMAIN y.bucket /\ \E i \in DOMAIN y.bucket[l] : y.bucket[l][i] = y.byID[id]
    <2>1. l \in DOMAIN x.bucket /\ \E i \in DOMAIN x.bucket[l] : x.bucket[l][i] = x.byID[id]
      BY <1>4 DEF PartlyIndexed
    <2>2. CASE l = k
      <3>1. PICK i \in DOMAIN old : old[i] = x.byID[id]
        BY <1>2, <2>1, <2>2
      <3>2. i \in DOMAIN new /\ new[i] = x.byID[id]
        BY <1>6, <3>1
      <3> QED
        BY <1>4, <1>7, <2>2, <3>2
    <2>3. CASE l # k
      BY <1>4, <1>5, <2>1, <2>3
    <2> QED
      BY <2>2, <2>3
  <1>13. (\A l \in DOMAIN y.bucket : NoDuplicates(y.bucket[l])) /\ NoEmptyBucket(y)
    <2>1. new # << >>
      <3>1. DOMAIN << >> = {}
        OBVIOUS
      <3> QED
        BY <1>6, <3>1
    <2> QED
      BY <1>6, <1>7, <1>8, <2>1 DEF PartlyIndexed, NoEmptyBucket
  <1>14. PartlyIndexed(y, b, keys \cup {k})
    BY <1>10, <1>11, <1>12, <1>13 DEF PartlyIndexed
  <1> QED
    BY <1>1, <1>2, <1>3, <1>4, <1>7, <1>8, <1>9, <1>14 DEF new, BucketsGrow

-----------------------------------------------------------------------------
(* Types. *)
LEMMA OpFacts ==
    ASSUME NEW op \in Op
    PROVE  /\ IDOf(op) \in IDs
           /\ op.kind \in {"put", "delete"}
           /\ op.kind = "put" => op.bind \in LiveBinds /\ op.bind \in Bind /\ IDOf(op) = op.bind.id
           /\ op.kind = "delete" => op.id \in IDs /\ IDOf(op) = op.id
  <1>1. CASE op \in [kind : {"put"}, bind : LiveBinds]
    <2>1. op.kind = "put" /\ op.bind \in Bind /\ op.bind \in LiveBinds
      BY <1>1, LiveBindsAssumption
    <2>2. op.bind.id \in IDs
      BY <2>1 DEF Bind
    <2> QED
      BY <2>1, <2>2 DEF IDOf
  <1>2. CASE op \in [kind : {"delete"}, id : IDs]
    BY <1>2 DEF IDOf
  <1> QED
    BY <1>1, <1>2 DEF Op

(* A lookup finds binds. *)
LEMMA FindBindsTyped == ASSUME NEW x, WellTyped(x), NEW q PROVE FindBinds(x, q) \in Seq(Bind)
  BY DEF FindBinds, WellTyped

LEMMA GotoTyped ==
    ASSUME LockTypeOK, NEW w \in Writers, NEW pc \in WriterPC, NEW todo \in SUBSET Key,
           Goto(w, pc, todo)
    PROVE  /\ writer' \in [Writers -> WriterState]
           /\ writer'[w].pc = pc /\ writer'[w].todo = todo /\ writer'[w].op = writer[w].op
           /\ \A v \in Writers \ {w} : writer'[v] = writer[v]
  <1> DEFINE new == [writer[w] EXCEPT !.pc = pc, !.todo = todo]
  <1>1. writer[w] \in WriterState /\ writer \in [Writers -> WriterState]
    BY DEF LockTypeOK
  <1>2. new \in WriterState /\ new.pc = pc /\ new.todo = todo /\ new.op = writer[w].op
    BY <1>1 DEF WriterState
  <1>3. writer' = [writer EXCEPT ![w] = new]
    BY <1>1 DEF Goto
  <1> HIDE DEF new
  <1> QED
    BY <1>1, <1>2, <1>3

(* The keys an update visits are keys, and there is one. *)
LEMMA TodoFacts ==
    /\ \A b \in Bind : eachKey(b) \in SUBSET Key /\ eachKey(b) # {}
    /\ {} \in SUBSET Key
  BY KeysTyped DEF eachKey

(* What the invariant is proved with; readers see a whole index because of it. *)
LockIInv == LockTypeOK /\ MutualExclusion /\ Working /\ IndexUnderLock /\ FoundIsCurrent

(* Every step leaves the program counters, operations, queries and answers in  *)
(* their types.                                                              *)
LEMMA LockTypesKept == LockIInv /\ LockNext => LockTypeOK'
  <1> SUFFICES ASSUME LockIInv, LockNext PROVE LockTypeOK'
    OBVIOUS
  <1>0. LockTypeOK /\ Working /\ WellTyped(idx) /\ FoundIsCurrent
    BY DEF LockIInv, IndexUnderLock, IndexTypeOK
  <1> USE <1>0
  <1>t. /\ mu \in Writers \cup {NoWriter} /\ readers \subseteq Readers
        /\ writer \in [Writers -> WriterState] /\ reader \in [Readers -> ReaderState]
        /\ result \in [Readers -> Seq(Bind) \cup {NoAnswer}]
    BY DEF LockTypeOK
  <1>1. ASSUME UNCHANGED <<mu, readers, reader, result>>, writer' \in [Writers -> WriterState]
        PROVE  LockTypeOK'
    BY <1>1 DEF LockTypeOK
  <1>2. ASSUME NEW w \in Writers, WantLock(w) PROVE LockTypeOK'
    <2>1. PICK op \in Op : writer' = [writer EXCEPT ![w] = [pc |-> "wantLock", op |-> op, todo |-> {}]]
      BY <1>2 DEF WantLock
    <2>2. [pc |-> "wantLock", op |-> op, todo |-> {}] \in WriterState
      BY DEF WriterState, WriterPC
    <2>3. writer' \in [Writers -> WriterState]
      BY <1>t, <2>1, <2>2
    <2> QED
      BY <1>1, <1>2, <2>3 DEF WantLock
  <1>3. ASSUME NEW w \in Writers, Lock(w) PROVE LockTypeOK'
    <2>1. writer' \in [Writers -> WriterState]
      BY <1>3, GotoTyped, TodoFacts DEF Lock, WriterPC
    <2> QED
      BY <1>3, <1>t, <2>1 DEF Lock, LockTypeOK
  <1>4. ASSUME NEW w \in Writers, Drain(w) PROVE LockTypeOK'
    <2>1. writer' \in [Writers -> WriterState]
      BY <1>4, GotoTyped, TodoFacts DEF Drain, WriterPC
    <2> QED
      BY <1>1, <1>4, <2>1 DEF Drain
  <1>5. ASSUME NEW w \in Writers, RemoveID(w) PROVE LockTypeOK'
    <2> DEFINE id == IDOf(writer[w].op)
    <2>1. CASE id \in DOMAIN idx.byID
      <3>1. eachKey(idx.byID[id]) \in SUBSET Key
        BY <2>1, TodoFacts DEF WellTyped
      <3>2. writer' \in [Writers -> WriterState]
        BY <1>5, <2>1, <3>1, GotoTyped DEF RemoveID, WriterPC
      <3> QED
        BY <1>1, <1>5, <3>2 DEF RemoveID
    <2>2. CASE id \notin DOMAIN idx.byID
      <3>1. AfterRemove(w) \in WriterPC
        BY DEF AfterRemove, WriterPC
      <3>2. writer' \in [Writers -> WriterState]
        BY <1>5, <2>2, <3>1, GotoTyped, TodoFacts DEF RemoveID
      <3> QED
        BY <1>1, <1>5, <3>2 DEF RemoveID
    <2> QED
      BY <2>1, <2>2
  <1>6. ASSUME NEW w \in Writers, RemoveKey(w) \/ InsertKey(w) PROVE LockTypeOK'
    <2> DEFINE todo == writer[w].todo \ {FirstKey(writer[w].todo)}
    <2>1. todo \in SUBSET Key
      BY <1>t DEF WriterState
    <2>2. PICK pc \in WriterPC : Goto(w, pc, todo)
      <3>1. AfterRemove(w) \in WriterPC
        BY DEF AfterRemove, WriterPC
      <3>2. CASE RemoveKey(w)
        BY <3>1, <3>2 DEF RemoveKey, WriterPC
      <3>3. CASE InsertKey(w)
        BY <3>3 DEF InsertKey, WriterPC
      <3> QED
        BY <1>6, <3>2, <3>3
    <2> HIDE DEF todo
    <2>3. writer' \in [Writers -> WriterState]
      BY <2>1, <2>2, GotoTyped
    <2> QED
      BY <1>1, <1>6, <2>3 DEF RemoveKey, InsertKey
  <1>7. ASSUME NEW w \in Writers, InsertID(w) PROVE LockTypeOK'
    <2>1. eachKey(writer[w].op.bind) \in SUBSET Key
      BY <1>7, <1>t, OpFacts, TodoFacts DEF InsertID, Working
    <2>2. writer' \in [Writers -> WriterState]
      BY <1>7, <2>1, GotoTyped DEF InsertID, WriterPC
    <2> QED
      BY <1>1, <1>7, <2>2 DEF InsertID
  <1>8. ASSUME NEW w \in Writers, Unlock(w) PROVE LockTypeOK'
    <2>1. IdleWriter \in WriterState
      BY DEF IdleWriter, WriterState, WriterPC
    <2>2. writer' \in [Writers -> WriterState]
      BY <1>8, <1>t, <2>1 DEF Unlock
    <2>3. \A r \in Readers : [reader[r] EXCEPT !.pc = "lookUp"] \in ReaderState
      BY <1>t DEF ReaderState
    <2>4. reader' \in [Readers -> ReaderState]
      BY <1>8, <1>t, <2>3 DEF Unlock
    <2>5. readers' \subseteq Readers
      BY <1>8 DEF Unlock
    <2> QED
      BY <1>8, <1>t, <2>2, <2>4, <2>5 DEF Unlock, LockTypeOK
  <1>9. ASSUME NEW r \in Readers, NEW new \in ReaderState, reader' = [reader EXCEPT ![r] = new],
               mu' = mu, readers' \subseteq Readers, writer' = writer,
               result' \in [Readers -> Seq(Bind) \cup {NoAnswer}]
        PROVE  LockTypeOK'
    BY <1>9, <1>t DEF LockTypeOK
  <1>10. IdleReader \in ReaderState
    BY DEF IdleReader, ReaderState
  <1>11. ASSUME NEW r \in Readers, Ask(r) PROVE LockTypeOK'
    <2>1. PICK q \in Lookups :
            reader' = [reader EXCEPT ![r] = [IdleReader EXCEPT !.pc = "wantLock", !.query = q]]
      BY <1>11 DEF Ask
    <2>2. [IdleReader EXCEPT !.pc = "wantLock", !.query = q] \in ReaderState
      BY <1>10 DEF ReaderState
    <2> QED
      BY <1>9, <1>11, <1>t, <2>1, <2>2 DEF Ask
  <1>12. ASSUME NEW r \in Readers, RLock(r) PROVE LockTypeOK'
    <2>1. [reader[r] EXCEPT !.pc = "lookUp"] \in ReaderState
      BY <1>t DEF ReaderState
    <2>2. reader' = [reader EXCEPT ![r] = [reader[r] EXCEPT !.pc = "lookUp"]]
      BY <1>12 DEF RLock
    <2> QED
      BY <1>9, <1>12, <1>t, <2>1, <2>2 DEF RLock
  <1>13. ASSUME NEW r \in Readers, LookUp(r) PROVE LockTypeOK'
    <2> DEFINE f == FindBinds(idx, reader[r].query)
    <2>1. f \in Seq(Bind)
      BY FindBindsTyped
    <2>2. reader' = [reader EXCEPT ![r] = [reader[r] EXCEPT !.pc = "copy", !.found = f]]
      BY <1>13 DEF LookUp
    <2> HIDE DEF f
    <2>3. [reader[r] EXCEPT !.pc = "copy", !.found = f] \in ReaderState
      BY <1>t, <2>1 DEF ReaderState
    <2> QED
      BY <1>9, <1>13, <1>t, <2>2, <2>3 DEF LookUp
  <1>14. ASSUME NEW r \in Readers, CopyBind(r) PROVE LockTypeOK'
    <2> DEFINE i == Len(reader[r].copied) + 1
               f == FindBinds(idx, reader[r].query)
    <2>1. f \in Seq(Bind)
      BY FindBindsTyped
    <2>2. f = reader[r].found /\ i <= Len(f)
      BY <1>14 DEF CopyBind, FoundIsCurrent
    <2>3. reader' = [reader EXCEPT ![r] = [reader[r] EXCEPT !.copied = Append(reader[r].copied, f[i])]]
      BY <1>14 DEF CopyBind
    <2>4. reader[r].copied \in Seq(Bind)
      BY <1>t DEF ReaderState
    <2> HIDE DEF f
    <2>5. f[i] \in Bind
      BY <2>1, <2>2, <2>4
    <2> HIDE DEF i
    <2>6. Append(reader[r].copied, f[i]) \in Seq(Bind)
      BY <2>4, <2>5
    <2>7. [reader[r] EXCEPT !.copied = Append(reader[r].copied, f[i])] \in ReaderState
      BY <1>t, <2>6 DEF ReaderState
    <2> QED
      BY <1>9, <1>14, <1>t, <2>3, <2>7 DEF CopyBind
  <1>15. ASSUME NEW r \in Readers, RUnlock(r) PROVE LockTypeOK'
    <2>1. result' \in [Readers -> Seq(Bind) \cup {NoAnswer}]
      BY <1>15, <1>t DEF RUnlock, ReaderState
    <2> QED
      BY <1>9, <1>10, <1>15, <1>t, <2>1 DEF RUnlock
  <1> QED
    BY <1>2, <1>3, <1>4, <1>5, <1>6, <1>7, <1>8, <1>11, <1>12, <1>13, <1>14, <1>15
    DEF LockNext, WriterStep, ReaderStep

-----------------------------------------------------------------------------
(* Where each writer goes: one that is past Lock stays the one, and goes on   *)
(* only through drain, unlock and back.                                      *)
LEMMA WriterSteps ==
    ASSUME LockTypeOK, NEW w \in Writers
    PROVE  /\ WantLock(w) => writer[w].pc = "idle" /\ writer'[w].pc = "wantLock" /\ writer'[w].op \in Op
           /\ Lock(w) => writer[w].pc = "wantLock" /\ writer'[w].pc = "drain"
           /\ Unlock(w) => writer[w].pc = "unlock" /\ writer'[w].pc = "idle"
           /\ WantLock(w) \/ Unlock(w) => \A v \in Writers \ {w} : writer'[v] = writer[v]
  <1>0. writer \in [Writers -> WriterState]
    BY DEF LockTypeOK
  <1>1. ASSUME WantLock(w)
        PROVE  /\ writer[w].pc = "idle" /\ writer'[w].pc = "wantLock" /\ writer'[w].op \in Op
               /\ \A v \in Writers \ {w} : writer'[v] = writer[v]
    BY <1>0, <1>1 DEF WantLock
  <1>2. ASSUME Lock(w) PROVE writer[w].pc = "wantLock" /\ writer'[w].pc = "drain"
    BY <1>2, GotoTyped, TodoFacts DEF Lock, WriterPC
  <1>3. ASSUME Unlock(w)
        PROVE  /\ writer[w].pc = "unlock" /\ writer'[w].pc = "idle"
               /\ \A v \in Writers \ {w} : writer'[v] = writer[v]
    BY <1>0, <1>3 DEF Unlock, IdleWriter
  <1> QED
    BY <1>1, <1>2, <1>3

(* Inside the lock a writer's operation stays, and it changes nothing else. *)
Inside == {"drain", "removeID", "removeKeys", "insertID", "insertKeys", "unlock"}

UpdateStep(w) == Drain(w) \/ RemoveID(w) \/ RemoveKey(w) \/ InsertID(w) \/ InsertKey(w)

LEMMA UpdateSteps ==
    ASSUME LockIInv, NEW w \in Writers, UpdateStep(w)
    PROVE  /\ writer[w].pc \in Inside \ {"unlock"}
           /\ writer'[w].pc \in Inside \ {"drain"}
           /\ writer'[w].op = writer[w].op
           /\ writer'[w].pc \in {"insertID", "insertKeys"} => writer[w].op.kind = "put"
           /\ writer'[w].pc \in {"removeKeys", "insertKeys"} => writer'[w].todo # {}
           /\ \A v \in Writers \ {w} : writer'[v] = writer[v]
           /\ UNCHANGED <<order, mu, readers, reader, result>>
  <1>0. /\ LockTypeOK /\ Working /\ WellTyped(idx)
        /\ writer[w] \in WriterState
    BY DEF LockIInv, LockTypeOK, IndexUnderLock, IndexTypeOK
  <1>1. AfterRemove(w) \in WriterPC /\ AfterRemove(w) \in {"insertID", "unlock"}
        /\ (AfterRemove(w) = "insertID" => writer[w].op.kind = "put")
    BY DEF AfterRemove, WriterPC
  <1>2. ASSUME NEW pc \in WriterPC, NEW todo \in SUBSET Key, Goto(w, pc, todo)
        PROVE  /\ writer'[w].pc = pc /\ writer'[w].op = writer[w].op /\ writer'[w].todo = todo
               /\ \A v \in Writers \ {w} : writer'[v] = writer[v]
    BY <1>0, <1>2, GotoTyped
  <1> HIDE DEF Goto
  <1> USE DEF Inside
  <1>3. CASE Drain(w)
    BY <1>2, <1>3, TodoFacts DEF Drain, WriterPC
  <1>4. CASE RemoveID(w)
    <2> DEFINE id == IDOf(writer[w].op)
    <2>1. CASE id \in DOMAIN idx.byID
      <3>1. eachKey(idx.byID[id]) \in SUBSET Key /\ eachKey(idx.byID[id]) # {}
        BY <1>0, <2>1, TodoFacts DEF WellTyped
      <3> QED
        BY <1>2, <1>4, <2>1, <3>1 DEF RemoveID, WriterPC
    <2>2. CASE id \notin DOMAIN idx.byID
      BY <1>1, <1>2, <1>4, <2>2, TodoFacts DEF RemoveID
    <2> QED
      BY <2>1, <2>2
  <1>5. CASE RemoveKey(w)
    <2> DEFINE todo == writer[w].todo \ {FirstKey(writer[w].todo)}
    <2>1. todo \in SUBSET Key
      BY <1>0 DEF WriterState
    <2>2. CASE todo = {}
      BY <1>1, <1>2, <1>5, <2>1, <2>2 DEF RemoveKey
    <2>3. CASE todo # {}
      BY <1>2, <1>5, <2>1, <2>3 DEF RemoveKey, WriterPC
    <2> QED
      BY <2>2, <2>3
  <1>6. CASE InsertID(w)
    <2>1. writer[w].op.kind = "put" /\ writer[w].op \in Op
      BY <1>0, <1>6 DEF InsertID, Working
    <2>2. eachKey(writer[w].op.bind) \in SUBSET Key /\ eachKey(writer[w].op.bind) # {}
      BY <2>1, OpFacts, TodoFacts
    <2> QED
      BY <1>2, <1>6, <2>1, <2>2 DEF InsertID, WriterPC
  <1>7. CASE InsertKey(w)
    <2> DEFINE todo == writer[w].todo \ {FirstKey(writer[w].todo)}
    <2>1. todo \in SUBSET Key
      BY <1>0 DEF WriterState
    <2>2. writer[w].op.kind = "put"
      BY <1>0, <1>7 DEF InsertKey, Working
    <2>3. CASE todo = {}
      BY <1>2, <1>7, <2>1, <2>3 DEF InsertKey, WriterPC
    <2>4. CASE todo # {}
      BY <1>2, <1>7, <2>1, <2>2, <2>4 DEF InsertKey, WriterPC
    <2> QED
      BY <2>3, <2>4
  <1> QED
    BY <1>3, <1>4, <1>5, <1>6, <1>7 DEF UpdateStep

(* Where each reader goes. *)
LEMMA ReaderSteps ==
    ASSUME LockTypeOK, NEW r \in Readers, Ask(r) \/ ReaderStep(r)
    PROVE  /\ \/ reader[r].pc = "idle" /\ reader'[r].pc = "wantLock" /\ UNCHANGED readers
              \/ /\ reader[r].pc = "wantLock" /\ reader'[r].pc = "lookUp"
                 /\ mu = NoWriter /\ readers' = readers \cup {r}
              \/ /\ reader[r].pc \in {"lookUp", "copy"} /\ reader'[r].pc = "copy"
                 /\ UNCHANGED readers
              \/ reader[r].pc = "copy" /\ reader'[r].pc = "idle" /\ readers' = readers \ {r}
           /\ reader'[r].pc # "idle" => reader'[r].query \in Lookups \/ reader'[r].query = reader[r].query
           /\ reader[r].pc = "idle" => reader'[r].query \in Lookups
           /\ reader'[r].pc = "wantLock" => reader'[r].copied = << >>
           /\ reader'[r].pc = "lookUp" => reader'[r].copied = reader[r].copied
           /\ \A q \in Readers \ {r} : reader'[q] = reader[q]
           /\ UNCHANGED <<idx, order, mu, writer>>
  <1>0. reader \in [Readers -> ReaderState] /\ reader[r] \in ReaderState
    BY DEF LockTypeOK
  <1> USE <1>0 DEF ReaderState
  <1>1. CASE Ask(r)
    <2>1. PICK q \in Lookups :
            reader' = [reader EXCEPT ![r] = [IdleReader EXCEPT !.pc = "wantLock", !.query = q]]
      BY <1>1 DEF Ask
    <2>2. reader'[r].pc = "wantLock" /\ reader'[r].query = q /\ reader'[r].copied = << >>
      BY <2>1 DEF IdleReader
    <2> QED
      BY <1>1, <2>1, <2>2 DEF Ask
  <1>2. CASE RLock(r)
    BY <1>2 DEF RLock
  <1>3. CASE LookUp(r)
    BY <1>3 DEF LookUp
  <1>4. CASE CopyBind(r)
    BY <1>4 DEF CopyBind
  <1>5. CASE RUnlock(r)
    BY <1>5 DEF RUnlock, IdleReader
  <1> QED
    BY <1>1, <1>2, <1>3, <1>4, <1>5 DEF ReaderStep

(* One writer inside at a time, and no reader while it changes the maps. *)
LEMMA MutualExclusionKept == LockIInv /\ LockNext => MutualExclusion'
  <1> SUFFICES ASSUME LockIInv, LockNext PROVE MutualExclusion'
    OBVIOUS
  <1>0. LockTypeOK /\ MutualExclusion
    BY DEF LockIInv
  <1> USE NoWriterAssumption DEF MutualExclusion
  <1>1. ASSUME NEW w \in Writers, WantLock(w) PROVE MutualExclusion'
    BY <1>0, <1>1, WriterSteps DEF WantLock
  <1>2. ASSUME NEW w \in Writers, Lock(w) PROVE MutualExclusion'
    <2>1. /\ writer[w].pc = "wantLock" /\ writer'[w].pc = "drain"
          /\ \A v \in Writers \ {w} : writer'[v] = writer[v]
      BY <1>0, <1>2, WriterSteps, GotoTyped, TodoFacts DEF Lock, WriterPC
    <2> QED
      BY <1>0, <1>2, <2>1 DEF Lock
  <1>3. ASSUME NEW w \in Writers, UpdateStep(w) PROVE MutualExclusion'
    <2>1. /\ writer[w].pc \in Inside \ {"unlock"} /\ writer'[w].pc \in Inside \ {"drain"}
          /\ \A v \in Writers \ {w} : writer'[v] = writer[v]
          /\ UNCHANGED <<mu, readers, reader>>
      BY <1>3, UpdateSteps
    <2>2. readers = {}
      <3>1. CASE writer[w].pc = "drain"
        BY <1>3, <3>1 DEF UpdateStep, Drain, RemoveID, RemoveKey, InsertID, InsertKey
      <3>2. CASE writer[w].pc # "drain"
        BY <1>0, <2>1, <3>2 DEF Inside
      <3> QED
        BY <3>1, <3>2
    <2> QED
      BY <1>0, <2>1, <2>2 DEF Inside
  <1>4. ASSUME NEW w \in Writers, Unlock(w) PROVE MutualExclusion'
    <2>1. /\ writer[w].pc = "unlock" /\ writer'[w].pc = "idle"
          /\ \A v \in Writers \ {w} : writer'[v] = writer[v]
      BY <1>0, <1>4, WriterSteps
    <2>2. mu = w /\ readers = {} /\ mu' = NoWriter
      BY <1>0, <1>4, <2>1 DEF Unlock
    <2>3. \A v \in Writers : writer'[v].pc \in {"idle", "wantLock"}
      BY <1>0, <2>1, <2>2
    <2>4. \A r \in Readers : reader[r].pc \notin {"lookUp", "copy"}
      BY <1>0, <2>2
    <2>5. reader \in [Readers -> ReaderState]
      BY <1>0 DEF LockTypeOK
    <2>6. readers' = {r \in Readers : reader'[r].pc \in {"lookUp", "copy"}}
      BY <1>4, <2>4, <2>5 DEF Unlock, ReaderState
    <2> QED
      BY <2>2, <2>3, <2>6
  <1>5. ASSUME NEW r \in Readers, Ask(r) \/ ReaderStep(r) PROVE MutualExclusion'
    <2>1. /\ \/ reader[r].pc \in {"idle"} /\ reader'[r].pc = "wantLock" /\ UNCHANGED readers
             \/ reader'[r].pc = "lookUp" /\ mu = NoWriter /\ readers' = readers \cup {r}
             \/ /\ reader[r].pc \in {"lookUp", "copy"} /\ reader'[r].pc = "copy"
                /\ UNCHANGED readers
             \/ reader'[r].pc = "idle" /\ readers' = readers \ {r}
          /\ \A q \in Readers \ {r} : reader'[q] = reader[q]
          /\ UNCHANGED <<mu, writer>>
      BY <1>0, <1>5, ReaderSteps
    <2>2. readers' = {q \in Readers : reader'[q].pc \in {"lookUp", "copy"}}
      BY <1>0, <2>1
    <2>3. ASSUME NEW w \in Writers, writer'[w].pc \notin {"idle", "wantLock", "drain"}
          PROVE  readers' = {}
      <3>1. readers = {} /\ mu # NoWriter
        BY <1>0, <2>1, <2>3
      <3> QED
        BY <2>1, <3>1, <1>0
    <2> QED
      BY <1>0, <2>1, <2>2, <2>3
  <1> QED
    BY <1>1, <1>2, <1>3, <1>4, <1>5 DEF LockNext, WriterStep, UpdateStep

(* Every goroutine inside has something to do. *)
LEMMA WorkingKept == LockIInv /\ LockNext => Working'
  <1> SUFFICES ASSUME LockIInv, LockNext PROVE Working'
    OBVIOUS
  <1>0. LockTypeOK /\ Working
    BY DEF LockIInv
  <1> USE DEF Working
  <1>1. ASSUME NEW w \in Writers, WantLock(w) PROVE Working'
    BY <1>0, <1>1, WriterSteps DEF WantLock
  <1>2. ASSUME NEW w \in Writers, Lock(w) PROVE Working'
    <2>1. /\ writer[w].pc = "wantLock" /\ writer'[w].pc = "drain" /\ writer'[w].op = writer[w].op
          /\ \A v \in Writers \ {w} : writer'[v] = writer[v]
      BY <1>0, <1>2, WriterSteps, GotoTyped, TodoFacts DEF Lock, WriterPC
    <2> QED
      BY <1>0, <1>2, <2>1 DEF Lock
  <1>3. ASSUME NEW w \in Writers, UpdateStep(w) PROVE Working'
    <2>1. writer[w].pc # "idle"
      BY <1>3, UpdateSteps DEF Inside
    <2> QED
      BY <1>0, <1>3, <2>1, UpdateSteps
  <1>4. ASSUME NEW w \in Writers, Unlock(w) PROVE Working'
    <2>1. \A r \in Readers :
            /\ reader'[r].query = reader[r].query /\ reader'[r].copied = reader[r].copied
            /\ reader'[r].pc # "idle" => reader[r].pc # "idle"
            /\ reader'[r].pc \in {"wantLock", "lookUp"} => reader[r].pc \in {"wantLock", "lookUp"}
      BY <1>0, <1>4 DEF Unlock, LockTypeOK, ReaderState
    <2>2. \A v \in Writers : writer'[v].pc = "idle" \/ writer'[v] = writer[v]
      BY <1>0, <1>4, WriterSteps
    <2> QED
      BY <1>0, <2>1, <2>2
  <1>5. ASSUME NEW r \in Readers, Ask(r) \/ ReaderStep(r) PROVE Working'
    BY <1>0, <1>5, ReaderSteps
  <1> QED
    BY <1>1, <1>2, <1>3, <1>4, <1>5 DEF LockNext, WriterStep, UpdateStep

(* What a reader found is the bucket as long as it reads. *)
LEMMA FoundKept == LockIInv /\ LockNext => FoundIsCurrent'
  <1> SUFFICES ASSUME LockIInv, LockNext PROVE FoundIsCurrent'
    OBVIOUS
  <1>0. LockTypeOK /\ MutualExclusion /\ FoundIsCurrent /\ WellTyped(idx)
    BY DEF LockIInv, IndexUnderLock, IndexTypeOK
  <1>t. reader \in [Readers -> ReaderState]
    BY <1>0 DEF LockTypeOK
  <1>1. ASSUME UNCHANGED <<idx, reader>> PROVE FoundIsCurrent'
    BY <1>0, <1>1 DEF FoundIsCurrent
  <1>2. ASSUME NEW w \in Writers, UpdateStep(w) PROVE FoundIsCurrent'
    <2>1. writer[w].pc \in Inside /\ UNCHANGED reader
      BY <1>2, UpdateSteps
    <2>2. CASE writer[w].pc = "drain"
      <3>1. UNCHANGED idx
        BY <1>2, <2>2 DEF UpdateStep, Drain, RemoveID, RemoveKey, InsertID, InsertKey
      <3> QED
        BY <1>1, <2>1, <3>1
    <2>3. CASE writer[w].pc # "drain"
      <3>1. readers = {}
        BY <1>0, <2>1, <2>3 DEF MutualExclusion, Inside
      <3>2. \A r \in Readers : reader[r].pc # "copy"
        BY <1>0, <3>1 DEF MutualExclusion
      <3> QED
        BY <2>1, <3>2 DEF FoundIsCurrent
    <2> QED
      BY <2>2, <2>3
  <1>3. ASSUME NEW w \in Writers, Unlock(w) PROVE FoundIsCurrent'
    <2>1. UNCHANGED idx /\ \A r \in Readers : reader'[r].pc = "copy" => reader'[r] = reader[r]
      BY <1>3, <1>t DEF Unlock, ReaderState
    <2> QED
      BY <1>0, <2>1 DEF FoundIsCurrent
  <1>4. ASSUME NEW r \in Readers, reader'[r].pc # "copy", UNCHANGED idx,
               \A q \in Readers \ {r} : reader'[q] = reader[q]
        PROVE  FoundIsCurrent'
    BY <1>0, <1>4 DEF FoundIsCurrent
  <1>5. ASSUME NEW r \in Readers, Ask(r) \/ RLock(r) \/ RUnlock(r) PROVE FoundIsCurrent'
    <2>1. reader'[r].pc # "copy"
      <3>1. CASE Ask(r)
        BY <1>t, <3>1 DEF Ask, IdleReader
      <3>2. CASE RLock(r)
        BY <1>t, <3>2 DEF RLock, ReaderState
      <3>3. CASE RUnlock(r)
        BY <1>t, <3>3 DEF RUnlock, IdleReader
      <3> QED
        BY <1>5, <3>1, <3>2, <3>3
    <2> QED
      BY <1>0, <1>4, <1>5, <2>1, ReaderSteps DEF ReaderStep
  <1>6. ASSUME NEW r \in Readers, UNCHANGED idx, reader'[r].query = reader[r].query,
               reader'[r].found = FindBinds(idx, reader[r].query),
               Len(reader'[r].copied) <= Len(reader'[r].found),
               \A i \in DOMAIN reader'[r].copied : reader'[r].copied[i] = reader'[r].found[i],
               \A q \in Readers \ {r} : reader'[q] = reader[q]
        PROVE  FoundIsCurrent'
    BY <1>0, <1>6 DEF FoundIsCurrent
  <1>7. ASSUME NEW r \in Readers, LookUp(r) PROVE FoundIsCurrent'
    <2>1. FindBinds(idx, reader[r].query) \in Seq(Bind)
      BY <1>0, FindBindsTyped
    <2>2. /\ UNCHANGED idx /\ \A q \in Readers \ {r} : reader'[q] = reader[q]
          /\ reader'[r].query = reader[r].query /\ reader'[r].copied = << >>
          /\ reader'[r].found = FindBinds(idx, reader[r].query)
      BY <1>7, <1>t DEF LookUp, ReaderState, LockIInv, Working
    <2>3. Len(<< >>) <= Len(FindBinds(idx, reader[r].query)) /\ DOMAIN << >> = {}
      BY <2>1
    <2> QED
      BY <1>6, <2>2, <2>3
  <1>8. ASSUME NEW r \in Readers, CopyBind(r) PROVE FoundIsCurrent'
    <2> DEFINE c == reader[r].copied
               f == reader[r].found
               i == Len(c) + 1
    <2>1. /\ c \in Seq(Bind) /\ f \in Seq(Bind) /\ i <= Len(f)
          /\ f = FindBinds(idx, reader[r].query)
          /\ \A j \in DOMAIN c : c[j] = f[j]
      BY <1>0, <1>8, <1>t DEF CopyBind, ReaderState, FoundIsCurrent
    <2>2. /\ UNCHANGED idx /\ \A q \in Readers \ {r} : reader'[q] = reader[q]
          /\ reader'[r].query = reader[r].query
          /\ reader'[r].copied = Append(c, f[i]) /\ reader'[r].found = f
      BY <1>8, <1>t, <2>1 DEF CopyBind, ReaderState
    <2> HIDE DEF c, f
    <2>3. /\ Len(Append(c, f[i])) <= Len(f)
          /\ \A j \in DOMAIN Append(c, f[i]) : Append(c, f[i])[j] = f[j]
      BY <2>1
    <2> QED
      BY <1>6, <2>1, <2>2, <2>3
  <1> QED
    BY <1>1, <1>2, <1>3, <1>5, <1>7, <1>8 DEF LockNext, WriterStep, UpdateStep, ReaderStep, WantLock, Lock

-----------------------------------------------------------------------------
(* The writer inside is the only one whose progress counts. *)
LEMMA OwnerKept ==
    ASSUME LockIInv, NEW w \in Writers, UpdateStep(w), WellTyped(idx'),
           LET pc   == writer'[w].pc
               op   == writer[w].op
               id   == IDOf(op)
               todo == writer'[w].todo
           IN  /\ pc \in {"drain", "removeID"} =>
                     Consistent(idx') /\ HoldsBinds(idx', order) /\ BucketsInOrder(idx', order)
               /\ pc = "removeKeys" =>
                     /\ id \notin DOMAIN idx'.byID
                     /\ HoldsBinds(idx', Except(order, id)) /\ BucketsInOrder(idx', order)
                     /\ \E b \in Bind : b.id = id /\ todo \subseteq eachKey(b) /\ PartlyIndexed(idx', b, todo)
               /\ pc = "insertID" =>
                     /\ id \notin DOMAIN idx'.byID
                     /\ Consistent(idx')
                     /\ HoldsBinds(idx', Except(order, id)) /\ BucketsInOrder(idx', Except(order, id))
               /\ pc = "insertKeys" =>
                     /\ HoldsBinds(idx', Committed(op)) /\ BucketsInOrder(idx', Committed(op))
                     /\ todo \subseteq eachKey(op.bind)
                     /\ PartlyIndexed(idx', op.bind, eachKey(op.bind) \ todo)
               /\ pc = "unlock" =>
                     /\ Consistent(idx')
                     /\ HoldsBinds(idx', Committed(op)) /\ BucketsInOrder(idx', Committed(op))
    PROVE  IndexUnderLock'
  <1>1. /\ writer[w].pc \in Inside
        /\ writer'[w].op = writer[w].op /\ order' = order /\ mu' = mu
    BY UpdateSteps
  <1>2. mu = w /\ mu # NoWriter
    BY <1>1, NoWriterAssumption DEF LockIInv, MutualExclusion, Inside
  <1>3. Committed(writer[w].op)' = Committed(writer[w].op)
    BY <1>1 DEF Committed
  <1>4. UpdateUnderWay(w)'
    BY <1>1, <1>3 DEF UpdateUnderWay, Whole
  <1>5. order' \in Seq(Bind) /\ NoDuplicates(order')
    BY <1>1 DEF LockIInv, IndexUnderLock
  <1> QED
    BY <1>1, <1>2, <1>4, <1>5 DEF IndexUnderLock, IndexTypeOK

LEMMA RemoveIDKept ==
    ASSUME LockIInv, NEW w \in Writers, RemoveID(w) PROVE IndexUnderLock'
  <1> DEFINE op == writer[w].op
             id == IDOf(op)
  <1>1. /\ WellTyped(idx) /\ Consistent(idx) /\ HoldsBinds(idx, order) /\ BucketsInOrder(idx, order)
        /\ op \in Op
    BY NoWriterAssumption
    DEF RemoveID, LockIInv, IndexUnderLock, IndexTypeOK, MutualExclusion, Working, UpdateUnderWay, Whole
  <1>2. LockTypeOK /\ UpdateStep(w)
    BY DEF LockIInv, UpdateStep
  <1>3. CASE id \in DOMAIN idx.byID
    <2> DEFINE b == idx.byID[id]
    <2>1. idx' = [idx EXCEPT !.byID = [i \in DOMAIN idx.byID \ {id} |-> idx.byID[i]]]
      BY <1>3 DEF RemoveID
    <2>2. /\ WellTyped(idx') /\ idx'.bucket = idx.bucket
          /\ b \in Bind /\ b.id = id /\ PartlyIndexed(idx', b, eachKey(b))
      <3>1. WellTyped(idx) /\ Consistent(idx)
        BY <1>1
      <3> HIDE DEF id
      <3> QED
        BY <1>3, <2>1, <3>1, WholeIsPartly, Zenon
    <2>3. idx'.byID = [i \in DOMAIN idx.byID \ {id} |-> idx.byID[i]]
      BY <1>1, <2>1 DEF WellTyped
    <2>4. HoldsBinds(idx', Except(order, id))
      BY <1>1, <2>3, HoldsExcept
    <2>5. BucketsInOrder(idx', order) /\ id \notin DOMAIN idx'.byID
      BY <1>1, <2>2, <2>3 DEF BucketsInOrder
    <2>6. writer'[w].pc = "removeKeys" /\ writer'[w].todo = eachKey(b)
      BY <1>2, <1>3, <2>2, GotoTyped, TodoFacts DEF RemoveID, WriterPC
    <2> HIDE DEF b, id
    <2>7. \E c \in Bind : c.id = id /\ writer'[w].todo \subseteq eachKey(c)
                              /\ PartlyIndexed(idx', c, writer'[w].todo)
      BY <2>2, <2>6
    <2> QED
      BY <1>2, <2>2, <2>4, <2>5, <2>6, <2>7, OwnerKept DEF id
  <1>4. CASE id \notin DOMAIN idx.byID
    <2>1. idx' = idx /\ Goto(w, AfterRemove(w), {})
      BY <1>4 DEF RemoveID
    <2>2. Except(order, id) = order
      BY <1>1, <1>4, ExceptAbsent
    <2>3. writer'[w].pc = AfterRemove(w)
      BY <1>2, <2>1, GotoTyped, TodoFacts DEF AfterRemove, WriterPC
    <2>4. CASE op.kind = "put"
      <3>1. writer'[w].pc = "insertID"
        BY <2>3, <2>4 DEF AfterRemove
      <3> QED
        BY <1>1, <1>2, <1>4, <2>1, <2>2, <3>1, OwnerKept
    <2>5. CASE op.kind # "put"
      <3>1. writer'[w].pc = "unlock"
        BY <2>3, <2>5 DEF AfterRemove
      <3>2. Committed(op) = order
        BY <1>1, <2>2, <2>5, OpFacts DEF Committed
      <3> QED
        BY <1>1, <1>2, <2>1, <3>1, <3>2, OwnerKept
    <2> QED
      BY <2>4, <2>5
  <1> QED
    BY <1>3, <1>4

LEMMA RemoveKeyKept ==
    ASSUME LockIInv, NEW w \in Writers, RemoveKey(w) PROVE IndexUnderLock'
  <1> DEFINE op   == writer[w].op
             id   == IDOf(op)
             k    == FirstKey(writer[w].todo)
             todo == writer[w].todo \ {k}
  <1>1. /\ WellTyped(idx) /\ order \in Seq(Bind) /\ NoDuplicates(order)
        /\ op \in Op /\ writer[w].todo # {} /\ writer[w].todo \subseteq Key
        /\ id \notin DOMAIN idx.byID
        /\ HoldsBinds(idx, Except(order, id)) /\ BucketsInOrder(idx, order)
        /\ \E b \in Bind : b.id = id /\ writer[w].todo \subseteq eachKey(b)
                              /\ PartlyIndexed(idx, b, writer[w].todo)
    BY NoWriterAssumption
    DEF RemoveKey, LockIInv, LockTypeOK, WriterState, IndexUnderLock, IndexTypeOK, MutualExclusion,
        Working, UpdateUnderWay
  <1>2. LockTypeOK /\ UpdateStep(w)
    BY DEF LockIInv, UpdateStep
  <1>3. PICK b \in Bind : b.id = id /\ writer[w].todo \subseteq eachKey(b)
                              /\ PartlyIndexed(idx, b, writer[w].todo)
    BY <1>1
  <1>4. k \in writer[w].todo
    BY <1>1, FirstKeyIsOne
  <1>5. idx' = Dropped(idx, k, id)
    BY DEF RemoveKey, Dropped
  <1> HIDE DEF k
  <1>6. /\ WellTyped(idx') /\ idx'.byID = idx.byID
        /\ PartlyIndexed(idx', b, todo)
        /\ BucketsShrink(idx, idx')
    <2>1. /\ WellTyped(idx) /\ b \in Bind /\ PartlyIndexed(idx, b, writer[w].todo)
          /\ idx' = Dropped(idx, k, b.id)
      BY <1>1, <1>3, <1>5
    <2> QED
      BY <1>4, <2>1, DropStep
  <1>7. BucketsInOrder(idx', order)
    BY <1>1, <1>6, InOrderTransitive DEF BucketsInOrder, BucketsShrink
  <1>8. HoldsBinds(idx', Except(order, id)) /\ id \notin DOMAIN idx'.byID
    BY <1>1, <1>6 DEF HoldsBinds
  <1>9. Goto(w, IF todo = {} THEN AfterRemove(w) ELSE "removeKeys", todo)
    BY DEF RemoveKey, k
  <1>10. todo \in SUBSET Key
    BY <1>1
  <1>11. CASE todo # {}
    <2>1. writer'[w].pc = "removeKeys" /\ writer'[w].todo = todo
      BY <1>2, <1>9, <1>10, <1>11, GotoTyped DEF WriterPC
    <2>2. todo \subseteq eachKey(b)
      BY <1>3
    <2> HIDE DEF todo, id
    <2> QED
      BY <1>2, <1>3, <1>6, <1>7, <1>8, <2>1, <2>2, OwnerKept DEF id
  <1>12. CASE todo = {}
    <2>1. Consistent(idx')
      BY <1>3, <1>6, <1>8, <1>12, PartlyIsWhole
    <2>2. \A l \in DOMAIN idx'.bucket : \A i \in DOMAIN idx'.bucket[l] : idx'.bucket[l][i].id # id
      BY <1>8, <2>1 DEF Consistent, NoGhosts
    <2>3. BucketsInOrder(idx', Except(order, id))
      BY <1>1, <1>7, <2>2, FollowsExcept DEF BucketsInOrder
    <2>4. writer'[w].pc = AfterRemove(w)
      BY <1>2, <1>9, <1>10, <1>12, GotoTyped DEF AfterRemove, WriterPC
    <2>5. CASE op.kind = "put"
      <3>1. writer'[w].pc = "insertID"
        BY <2>4, <2>5 DEF AfterRemove
      <3> QED
        BY <1>2, <1>6, <1>8, <2>1, <2>3, <3>1, OwnerKept
    <2>6. CASE op.kind # "put"
      <3>1. writer'[w].pc = "unlock"
        BY <2>4, <2>6 DEF AfterRemove
      <3>2. Committed(op) = Except(order, id)
        BY <1>1, <2>6, OpFacts DEF Committed
      <3> QED
        BY <1>2, <1>6, <1>8, <2>1, <2>3, <3>1, <3>2, OwnerKept
    <2> QED
      BY <2>5, <2>6
  <1> QED
    BY <1>11, <1>12

LEMMA InsertIDKept ==
    ASSUME LockIInv, NEW w \in Writers, InsertID(w) PROVE IndexUnderLock'
  <1> DEFINE op == writer[w].op
             b  == op.bind
             t  == Except(order, b.id)
  <1>1. op \in Op /\ op.kind = "put" /\ WellTyped(idx) /\ order \in Seq(Bind) /\ NoDuplicates(order)
    BY DEF InsertID, LockIInv, Working, IndexUnderLock, IndexTypeOK
  <1>2. b \in Bind /\ IDOf(op) = b.id
    BY <1>1, OpFacts
  <1>3. b.id \notin DOMAIN idx.byID /\ Consistent(idx) /\ HoldsBinds(idx, t) /\ BucketsInOrder(idx, t)
    BY <1>2, NoWriterAssumption
    DEF InsertID, LockIInv, IndexUnderLock, MutualExclusion, UpdateUnderWay, Whole
  <1>4. LockTypeOK /\ UpdateStep(w)
    BY DEF LockIInv, UpdateStep
  <1>5. idx' = WithID(idx, b)
    BY DEF InsertID, WithID
  <1>6. /\ WellTyped(idx') /\ idx'.bucket = idx.bucket
        /\ idx'.byID = [i \in DOMAIN idx.byID \cup {b.id} |-> IF i = b.id THEN b ELSE idx.byID[i]]
        /\ PartlyIndexed(idx', b, {})
    <2> HIDE DEF b
    <2> QED
      BY <1>1, <1>2, <1>3, <1>5, WholeLacks
  <1>7. Committed(op) = Append(t, b)
    BY <1>1 DEF Committed
  <1>8. t \in Seq(Bind)
    BY <1>3 DEF HoldsBinds
  <1>9. writer'[w].pc = "insertKeys" /\ writer'[w].todo = eachKey(b)
    BY <1>4, TodoFacts, <1>2, GotoTyped DEF InsertID, WriterPC
  <1> HIDE DEF t, b
  <1>10. HoldsBinds(idx', Append(t, b))
    BY <1>2, <1>3, <1>6, HoldsAppend
  <1>11. BucketsInOrder(idx', Append(t, b))
    BY <1>2, <1>3, <1>6, <1>8, FollowsAppend DEF BucketsInOrder
  <1>12. eachKey(b) \ writer'[w].todo = {}
    BY <1>9
  <1> QED
    BY <1>4, <1>6, <1>7, <1>9, <1>10, <1>11, <1>12, OwnerKept DEF b

LEMMA InsertKeyKept ==
    ASSUME LockIInv, NEW w \in Writers, InsertKey(w) PROVE IndexUnderLock'
  <1> DEFINE op   == writer[w].op
             b    == op.bind
             t    == Except(order, b.id)
             k    == FirstKey(writer[w].todo)
             todo == writer[w].todo \ {k}
             keys == eachKey(b) \ writer[w].todo
  <1>1. /\ op \in Op /\ op.kind = "put" /\ WellTyped(idx) /\ order \in Seq(Bind) /\ NoDuplicates(order)
        /\ writer[w].todo # {} /\ writer[w].todo \subseteq Key
    BY DEF InsertKey, LockIInv, LockTypeOK, WriterState, Working, IndexUnderLock, IndexTypeOK
  <1>2. b \in Bind /\ IDOf(op) = b.id /\ Committed(op) = Append(t, b)
    BY <1>1, OpFacts DEF Committed
  <1>3. /\ HoldsBinds(idx, Append(t, b)) /\ BucketsInOrder(idx, Append(t, b))
        /\ writer[w].todo \subseteq eachKey(b)
        /\ PartlyIndexed(idx, b, keys)
    <2>1. /\ HoldsBinds(idx, Committed(op)) /\ BucketsInOrder(idx, Committed(op))
          /\ writer[w].todo \subseteq eachKey(op.bind)
          /\ PartlyIndexed(idx, op.bind, eachKey(op.bind) \ writer[w].todo)
      BY NoWriterAssumption DEF InsertKey, LockIInv, IndexUnderLock, MutualExclusion, UpdateUnderWay
    <2> QED
      BY <1>2, <2>1
  <1>4. LockTypeOK /\ UpdateStep(w)
    BY DEF LockIInv, UpdateStep
  <1>5. t \in Seq(Bind)
    BY <1>1, ExceptIsWithout, WithoutProperties
  <1>6. k \in writer[w].todo /\ k \in eachKey(b) /\ k \notin keys
    BY <1>1, <1>3, FirstKeyIsOne
  <1>7. idx' = Added(idx, k, b)
    BY DEF InsertKey, Added
  <1>8. Goto(w, IF todo = {} THEN "unlock" ELSE "insertKeys", todo)
    BY DEF InsertKey
  <1>9. keys \cup {k} = eachKey(b) \ todo
    BY <1>6
  <1> HIDE DEF k, keys, t, b
  <1>10. /\ WellTyped(idx') /\ idx'.byID = idx.byID
         /\ PartlyIndexed(idx', b, keys \cup {k})
         /\ BucketsGrow(idx, idx', b)
    <2>1. WellTyped(idx) /\ PartlyIndexed(idx, b, keys)
      BY <1>1, <1>3
    <2> QED
      BY <1>2, <1>6, <1>7, <2>1, AddStep
  <1>11. ASSUME NEW l \in DOMAIN idx'.bucket PROVE InOrder(idx'.bucket[l], Append(t, b))
    <2>1. CASE l \in DOMAIN idx.bucket /\ idx'.bucket[l] = idx.bucket[l]
      BY <1>3, <2>1 DEF BucketsInOrder
    <2>2. ASSUME NEW s \in Seq(Bind), idx'.bucket[l] = Append(s, b),
                 \A i \in DOMAIN s : s[i].id # b.id,
                 s = << >> \/ (l \in DOMAIN idx.bucket /\ s = idx.bucket[l])
          PROVE  InOrder(idx'.bucket[l], Append(t, b))
      <3>1. s = << >> => InOrder(s, Append(t, b))
        BY DEF InOrder
      <3>2. InOrder(s, Append(t, b))
        BY <1>3, <2>2, <3>1 DEF BucketsInOrder
      <3> QED
        BY <1>2, <1>5, <2>2, <3>2, BothAppend
    <2> QED
      BY <1>10, <2>1, <2>2 DEF BucketsGrow
  <1>12. HoldsBinds(idx', Append(t, b)) /\ BucketsInOrder(idx', Append(t, b))
    BY <1>3, <1>10, <1>11 DEF HoldsBinds, BucketsInOrder
  <1>13. todo \in SUBSET Key
    BY <1>1
  <1>14. CASE todo # {}
    <2>1. writer'[w].pc = "insertKeys" /\ writer'[w].todo = todo
      BY <1>4, <1>8, <1>13, <1>14, GotoTyped DEF WriterPC
    <2>2. todo \subseteq eachKey(b)
      BY <1>3
    <2> HIDE DEF todo
    <2> QED
      BY <1>2, <1>4, <1>9, <1>10, <1>12, <2>1, <2>2, OwnerKept DEF b
  <1>15. CASE todo = {}
    <2>1. writer'[w].pc = "unlock"
      BY <1>4, <1>8, <1>13, <1>15, GotoTyped DEF WriterPC
    <2>2. PartlyIndexed(idx', b, eachKey(b))
      BY <1>9, <1>10, <1>15
    <2>3. b.id \in DOMAIN idx'.byID /\ idx'.byID[b.id] = b
      <3> DEFINE u == Append(t, b)
                 n == Len(t) + 1
      <3>1. n \in DOMAIN u /\ u[n] = b
        BY <1>2, <1>5
      <3> HIDE DEF u, n
      <3>2. HoldsBinds(idx', u)
        BY <1>12 DEF u
      <3> QED
        BY <3>1, <3>2 DEF HoldsBinds
    <2>4. Consistent(idx')
      BY <1>2, <2>2, <2>3, PartlyIsWhole
    <2> QED
      BY <1>2, <1>4, <1>10, <1>12, <2>1, <2>4, OwnerKept
  <1> QED
    BY <1>14, <1>15

(* The writer publishes what it has put or removed: the maps then are those of *)
(* the new order.                                                            *)
LEMMA UnlockKept ==
    ASSUME LockIInv, NEW w \in Writers, Unlock(w) PROVE IndexUnderLock'
  <1> DEFINE t == Committed(writer[w].op)
  <1>1. WellTyped(idx) /\ Consistent(idx) /\ HoldsBinds(idx, t) /\ BucketsInOrder(idx, t)
    BY NoWriterAssumption
    DEF Unlock, LockIInv, IndexUnderLock, IndexTypeOK, MutualExclusion, UpdateUnderWay, Whole
  <1>2. idx' = idx /\ order' = t /\ mu' = NoWriter
    BY DEF Unlock
  <1> HIDE DEF t
  <1>3. t \in Seq(Bind) /\ NoDuplicates(t)
    BY <1>1 DEF HoldsBinds
  <1>4. IndexTypeOK' /\ Whole(order)'
    BY <1>1, <1>2 DEF IndexTypeOK, Whole
  <1>5. \A v \in Writers : mu' # v
    BY <1>2, NoWriterAssumption
  <1> QED
    BY <1>2, <1>3, <1>4, <1>5 DEF IndexUnderLock

(* The maps are published, or as far as the writer inside has come. *)
LEMMA IndexUnderLockKept == LockIInv /\ LockNext => IndexUnderLock'
  <1> SUFFICES ASSUME LockIInv, LockNext PROVE IndexUnderLock'
    OBVIOUS
  <1>0. LockTypeOK /\ MutualExclusion /\ IndexUnderLock
    BY DEF LockIInv
  <1>1. ASSUME UNCHANGED <<idx, order, mu>>,
               \A v \in Writers : mu = v => writer'[v] = writer[v]
        PROVE  IndexUnderLock'
    <2>1. \A v \in Writers : mu' = v => UpdateUnderWay(v)'
      BY <1>0, <1>1 DEF IndexUnderLock, UpdateUnderWay, Whole, Committed
    <2> QED
      BY <1>0, <1>1, <2>1 DEF IndexUnderLock, IndexTypeOK, Whole
  <1>2. ASSUME NEW w \in Writers, WantLock(w) PROVE IndexUnderLock'
    <2>1. mu # w /\ \A v \in Writers \ {w} : writer'[v] = writer[v]
      BY <1>0, <1>2, WriterSteps DEF MutualExclusion
    <2> QED
      BY <1>1, <1>2, <2>1 DEF WantLock
  <1>3. ASSUME NEW w \in Writers, Lock(w) PROVE IndexUnderLock'
    <2>1. writer'[w].pc = "drain"
      BY <1>0, <1>3, WriterSteps
    <2>2. /\ Whole(order) /\ idx' = idx /\ order' = order /\ mu' = w
      BY <1>0, <1>3 DEF Lock, IndexUnderLock
    <2>3. Whole(order)'
      BY <2>2 DEF Whole
    <2>4. UpdateUnderWay(w)'
      BY <2>1, <2>3 DEF UpdateUnderWay
    <2> QED
      BY <1>0, <2>2, <2>3, <2>4 DEF IndexUnderLock, IndexTypeOK
  <1>4. ASSUME NEW w \in Writers, Drain(w) PROVE IndexUnderLock'
    <2>1. LockTypeOK /\ UpdateStep(w)
      BY <1>0, <1>4 DEF UpdateStep
    <2>2. writer'[w].pc = "removeID" /\ idx' = idx
      BY <1>4, <2>1, GotoTyped, TodoFacts DEF Drain, WriterPC
    <2>3. WellTyped(idx) /\ Consistent(idx) /\ HoldsBinds(idx, order) /\ BucketsInOrder(idx, order)
      BY <1>0, <1>4, NoWriterAssumption
      DEF Drain, IndexUnderLock, IndexTypeOK, MutualExclusion, UpdateUnderWay, Whole
    <2> QED
      BY <2>1, <2>2, <2>3, OwnerKept
  <1>5. ASSUME NEW r \in Readers, Ask(r) \/ ReaderStep(r) PROVE IndexUnderLock'
    BY <1>0, <1>1, <1>5, ReaderSteps
  <1> QED
    BY <1>2, <1>3, <1>4, <1>5, RemoveIDKept, RemoveKeyKept, InsertIDKept, InsertKeyKept, UnlockKept
    DEF LockNext, WriterStep

-----------------------------------------------------------------------------
(* At the start nobody has claimed mu and the maps are empty. *)
LEMMA LockStarts == LockInit => LockIInv
  <1> SUFFICES ASSUME LockInit PROVE LockIInv
    OBVIOUS
  <1>1. IdleWriter \in WriterState /\ IdleReader \in ReaderState
    BY DEF IdleWriter, IdleReader, WriterState, ReaderState, WriterPC
  <1>2. LockTypeOK
    BY <1>1 DEF LockInit, LockTypeOK
  <1>3. MutualExclusion /\ Working /\ FoundIsCurrent
    BY NoWriterAssumption
    DEF LockInit, IdleWriter, IdleReader, MutualExclusion, Working, FoundIsCurrent
  <1>4. WellTyped(idx) /\ Consistent(idx) /\ HoldsBinds(idx, order) /\ BucketsInOrder(idx, order)
    BY DEF LockInit, IndexInit, newBindIndex, WellTyped, Consistent, NoGhosts, NoneMissing, NoEmptyBucket,
           HoldsBinds, NoDuplicates, BucketsInOrder
  <1>5. IndexUnderLock
    <2>1. mu = NoWriter /\ \A w \in Writers : mu # w
      BY NoWriterAssumption DEF LockInit
    <2> QED
      BY <1>4, <2>1 DEF IndexUnderLock, IndexTypeOK, Whole, HoldsBinds
  <1> QED
    BY <1>2, <1>3, <1>5 DEF LockIInv

LEMMA LockStutters == LockIInv /\ UNCHANGED lockVars => LockIInv'
  <1> SUFFICES ASSUME LockIInv, UNCHANGED lockVars PROVE LockIInv'
    OBVIOUS
  <1>0. UNCHANGED <<idx, order, mu, readers, writer, reader, result>>
    BY DEF lockVars
  <1>1. LockTypeOK' /\ MutualExclusion' /\ Working' /\ FoundIsCurrent'
    BY <1>0 DEF LockIInv, LockTypeOK, MutualExclusion, Working, FoundIsCurrent
  <1>2. IndexUnderLock'
    BY <1>0 DEF LockIInv, IndexUnderLock, IndexTypeOK, UpdateUnderWay, Whole, Committed
  <1> QED
    BY <1>1, <1>2 DEF LockIInv

(* While a reader holds mu no writer is past drain, so the maps are those of *)
(* the binds.                                                               *)
LEMMA ReadersSeeWhole == LockIInv => ReadersSeeWholeIndex
  <1> SUFFICES ASSUME LockIInv, readers # {} PROVE IndexTypeOK /\ IndexInv
    BY DEF ReadersSeeWholeIndex
  <1>1. Whole(order)
    <2>1. CASE mu = NoWriter
      BY <2>1 DEF LockIInv, IndexUnderLock
    <2>2. CASE mu # NoWriter
      <3>1. mu \in Writers /\ writer[mu].pc = "drain"
        BY <2>2 DEF LockIInv, LockTypeOK, MutualExclusion
      <3> QED
        BY <3>1 DEF LockIInv, IndexUnderLock, UpdateUnderWay
    <2> QED
      BY <2>1, <2>2
  <1> QED
    BY <1>1 DEF LockIInv, IndexUnderLock, Whole, IndexInv

LEMMA LockInductive == LockSpec => []LockIInv
  <1>1. LockIInv /\ [LockNext]_lockVars => LockIInv'
    BY LockTypesKept, MutualExclusionKept, WorkingKept, IndexUnderLockKept, FoundKept, LockStutters
    DEF LockIInv
  <1> QED
    BY LockStarts, <1>1, PTL DEF LockSpec

(* Goroutines find what LockInv says, whatever the binds, the lookups and the  *)
(* numbers of writers and readers.                                           *)
THEOREM LockInvariant == LockSpec => []LockInv
  <1>1. LockIInv => LockInv
    BY ReadersSeeWhole DEF LockIInv, LockInv
  <1> QED
    BY <1>1, LockInductive, PTL

-----------------------------------------------------------------------------
(* The instant a writer unlocks is the instant its put or remove happens. *)
LEMMA UnlockCommits ==
    ASSUME LockIInv, NEW w \in Writers, Unlock(w)
    PROVE  Table!TableNext
  <1> DEFINE op == writer[w].op
  <1>1. op \in Op /\ order' = Committed(op) /\ result' = result
    BY DEF Unlock, LockIInv, Working
  <1>2. \A id : Table!Others(id) = Except(order, id)
    BY DEF Table!Others, Except
  <1>3. CASE op.kind = "put"
    <2>1. Table!PutBind(op.bind)
      BY <1>1, <1>2, <1>3 DEF Committed, Table!PutBind
    <2> QED
      BY <1>1, <1>3, <2>1, OpFacts DEF Table!TableNext
  <1>4. CASE op.kind = "delete"
    <2>1. Table!DeleteBind(op.id)
      BY <1>1, <1>2, <1>4 DEF Committed, Table!DeleteBind
    <2> QED
      BY <1>1, <1>4, <2>1, OpFacts DEF Table!TableNext
  <1> QED
    BY <1>1, <1>3, <1>4, OpFacts

(* The instant a reader unlocks, what it has copied is what the binds answer. *)
LEMMA RUnlockAnswers ==
    ASSUME LockIInv, NEW r \in Readers, RUnlock(r)
    PROVE  Table!TableNext
  <1> DEFINE q == reader[r].query
             s == reader[r].copied
             f == reader[r].found
  <1>1. reader[r].pc = "copy" /\ r \in readers /\ q \in Lookups /\ q \in Query
    BY LookupsAssumption DEF RUnlock, LockIInv, MutualExclusion, Working
  <1>2. WellTyped(idx) /\ Consistent(idx) /\ HoldsBinds(idx, order) /\ BucketsInOrder(idx, order)
    BY <1>1, ReadersSeeWhole DEF ReadersSeeWholeIndex, IndexTypeOK, IndexInv
  <1>3. s = FindBinds(idx, q)
    <2>1. s \in Seq(Bind) /\ f \in Seq(Bind) /\ Len(s) = Len(f)
      BY DEF RUnlock, LockIInv, LockTypeOK, ReaderState
    <2>2. f = FindBinds(idx, q) /\ \A i \in DOMAIN s : s[i] = f[i]
      BY <1>1 DEF LockIInv, FoundIsCurrent
    <2> HIDE DEF s, f
    <2>3. s = f
      BY <2>1, <2>2
    <2> QED
      BY <2>2, <2>3
  <1>4. Answers(s, order, q)
    BY <1>1, <1>2, <1>3, FindBindsAnswers
  <1>5. /\ result' = [result EXCEPT ![r] = s] /\ result'[r] = s /\ order' = order
    BY DEF RUnlock, LockIInv, LockTypeOK
  <1> HIDE DEF s, q
  <1>6. Table!Selects(s, q)
    BY <1>4 DEF Answers, InOrder, Table!Selects
  <1>7. Table!Answer(r, q)
    BY <1>5, <1>6 DEF Table!Answer
  <1> QED
    BY <1>1, <1>7 DEF Table!TableNext, q

(* No other step is seen from outside. *)
LEMMA StepsRefine == LockIInv /\ [LockNext]_lockVars => [Table!TableNext]_(Table!tableVars)
  <1> SUFFICES ASSUME LockIInv, [LockNext]_lockVars PROVE Table!TableNext \/ UNCHANGED <<order, result>>
    BY DEF Table!tableVars
  <1>1. ASSUME NEW w \in Writers, WantLock(w) \/ Lock(w) \/ UpdateStep(w) PROVE UNCHANGED <<order, result>>
    BY <1>1 DEF WantLock, Lock, UpdateStep, Drain, RemoveID, RemoveKey, InsertID, InsertKey
  <1>2. ASSUME NEW r \in Readers, Ask(r) \/ RLock(r) \/ LookUp(r) \/ CopyBind(r)
        PROVE  UNCHANGED <<order, result>>
    BY <1>2 DEF Ask, RLock, LookUp, CopyBind
  <1>3. CASE UNCHANGED lockVars
    BY <1>3 DEF lockVars
  <1> QED
    BY <1>1, <1>2, <1>3, UnlockCommits, RUnlockAnswers
    DEF LockNext, WriterStep, UpdateStep, ReaderStep

(* However puts, removes and lookups interleave, every put and remove is one  *)
(* step and every lookup answers as of one instant: the locked index is the   *)
(* table BindTable describes (bindindex.go:9-19, live.go and FindBinds).      *)
THEOREM LockRefinesTable == LockSpec => ImplementsTable
  <1>1. LockInit => Table!TableInit
    BY DEF LockInit, IndexInit, Table!TableInit
  <1> QED
    BY <1>1, StepsRefine, LockInductive, PTL DEF LockSpec, ImplementsTable, Table!TableSpec
=============================================================================
