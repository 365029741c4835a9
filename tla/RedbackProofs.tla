--------------------------- MODULE RedbackProofs ---------------------------
(***************************************************************************)
(* What is written into a packet of Redback attributes reads back, changes *)
(* are safe as the tools make them, and a received packet is read up to    *)
(* its first broken part.                                                  *)
(***************************************************************************)
EXTENDS RedbackPacket, SequenceTheorems, FiniteSetTheorems, WellFoundedInduction, TLAPS

-----------------------------------------------------------------------------
(* Loops.  Of the numbers with a property there is a least one. *)
LEMMA LeastExists ==
  ASSUME NEW S \in SUBSET Nat, S # {}
  PROVE  \E m \in S : \A n \in S : m <= n
  <1> DEFINE R == OpToRel(<, Nat)
  <1>1. IsWellFoundedOn(R, Nat)
    BY NatLessThanWellFounded, Zenon
  <1>2. \A x, y \in Nat : x < y => <<x, y>> \in R
    BY DEF OpToRel
  <1> HIDE DEF R
  <1>3. PICK m \in S : \A y \in S : ~(<<y, m>> \in R)
    BY <1>1, WFMin
  <1>4. \A n \in S : ~(n < m)
    BY <1>2, <1>3
  <1> QED
    BY <1>4

(* What holds at first, and after a round if before it, holds throughout. *)
LEMMA FromRoundToRound ==
  ASSUME NEW n \in Nat, NEW T, 0 \in T, \A k \in 1..n : k - 1 \in T => k \in T
  PROVE  \A k \in 0..n : k \in T
  <1> DEFINE Bad == {k \in 0..n : k \notin T}
  <1> SUFFICES ASSUME Bad # {} PROVE FALSE
    OBVIOUS
  <1>1. Bad \subseteq Nat
    OBVIOUS
  <1>2. PICK m \in Bad : \A k \in Bad : m <= k
    <2> HIDE DEF Bad
    <2> QED
      BY <1>1, LeastExists
  <1>3. m \in 1..n /\ m - 1 \in 0..n /\ ~(m <= m - 1)
    BY <1>2
  <1>4. m - 1 \notin Bad
    <2> HIDE DEF Bad
    <2> QED
      BY <1>2, <1>3
  <1> QED
    BY <1>2, <1>3, <1>4

\* The states of a loop that stays within S, before the first round and after
\* each.
Run(body, start, n) ==
    LET f == CHOOSE f : f[0] = start /\ \A k \in 1..n : f[k] = body[f[k - 1]]
    IN  [k \in 0..n |-> f[k]]

(* There is a function with the states of a loop. *)
LEMMA RoundsExist ==
  ASSUME NEW body, NEW start, NEW n \in Nat
  PROVE  /\ Run(body, start, n)[0] = start
         /\ \A k \in 1..n : Run(body, start, n)[k] = body[Run(body, start, n)[k - 1]]
  <1> DEFINE Unrolls(m, f) == f = [k \in 0..m |-> IF k = 0 THEN start ELSE body[f[k - 1]]]
             T == {m \in 0..n : \E f : Unrolls(m, f)}
             Steps(f) == f[0] = start /\ \A k \in 1..n : f[k] = body[f[k - 1]]
             c == CHOOSE f : Steps(f)
  <1>1. 0 \in T
    <2>1. Unrolls(0, [k \in 0..0 |-> start])
      OBVIOUS
    <2>2. 0 \in 0..n
      OBVIOUS
    <2>3. \E f : Unrolls(0, f)
      <3> HIDE DEF Unrolls
      <3> QED
        BY <2>1
    <2> QED
      BY <2>2, <2>3
  <1>2. ASSUME NEW m \in 1..n, m - 1 \in T PROVE m \in T
    <2>1. PICK f : Unrolls(m - 1, f)
      BY <1>2
    <2> DEFINE g == [k \in 0..m |-> IF k = m THEN body[f[m - 1]] ELSE f[k]]
    <2>2. ASSUME NEW k \in 0..m PROVE g[k] = IF k = 0 THEN start ELSE body[g[k - 1]]
      <3>1. CASE k = m
        <4>1. k # 0 /\ m - 1 \in 0..m /\ m - 1 # m
          BY <3>1
        <4>2. g[m - 1] = f[m - 1] /\ g[k] = body[f[m - 1]]
          BY <3>1, <4>1
        <4> HIDE DEF g
        <4> QED
          BY <3>1, <4>1, <4>2
      <3>2. CASE k # m
        <4>1. k \in 0..(m - 1) /\ g[k] = f[k]
          BY <3>2
        <4>2. f[k] = IF k = 0 THEN start ELSE body[f[k - 1]]
          BY <2>1, <4>1
        <4>3. k # 0 => k - 1 \in 0..m /\ k - 1 # m
          BY <4>1
        <4>4. k # 0 => g[k - 1] = f[k - 1]
          BY <4>3
        <4> HIDE DEF g
        <4> QED
          BY <4>1, <4>2, <4>4
      <3> QED
        BY <3>1, <3>2
    <2>3. Unrolls(m, g)
      BY <2>2
    <2>4. m \in 0..n
      OBVIOUS
    <2>5. \E h : Unrolls(m, h)
      <3> HIDE DEF Unrolls, g
      <3> QED
        BY <2>3
    <2> QED
      BY <2>4, <2>5
  <1>3. n \in T
    <2> HIDE DEF T
    <2> QED
      BY <1>1, <1>2, FromRoundToRound
  <1>4. PICK f : Unrolls(n, f)
    BY <1>3
  <1>5. Steps(f)
    BY <1>4
  <1>6. Steps(c)
    <2> HIDE DEF Steps
    <2> QED
      BY <1>5
  <1>7. Run(body, start, n) = [k \in 0..n |-> c[k]]
    BY DEF Run
  <1> HIDE DEF c
  <1> QED
    BY <1>6, <1>7

\* f takes the body of a loop round after round.
Turns(body, n, f) == \A k \in 1..n : f[k] = body[f[k - 1]]

(* A loop whose body stays within a set of states runs through them. *)
LEMMA LoopStates ==
  ASSUME NEW S, NEW body \in [S -> S], NEW n \in Nat, NEW f, f[0] \in S,
         \A k \in 1..n : f[k - 1] \in S => f[k] = body[f[k - 1]]
  PROVE  (\A k \in 0..n : f[k] \in S) /\ Turns(body, n, f)
  <1> DEFINE T == {k \in 0..n : f[k] \in S}
  <1>2. 0 \in T
    OBVIOUS
  <1>3. ASSUME NEW k \in 1..n, k - 1 \in T PROVE k \in T
    <2>1. f[k - 1] \in S /\ k \in 0..n
      BY <1>3
    <2>2. f[k] \in S
      BY <2>1
    <2> QED
      BY <2>1, <2>2
  <1>4. \A k \in 0..n : k \in T
    <2> HIDE DEF T
    <2> QED
      BY <1>2, <1>3, FromRoundToRound
  <1>5. \A k \in 0..n : f[k] \in S
    BY <1>4
  <1>6. \A k \in 1..n : k - 1 \in 0..n
    OBVIOUS
  <1> HIDE DEF T
  <1> QED
    BY <1>5, <1>6 DEF Turns

LEMMA LoopRuns ==
  ASSUME NEW S, NEW body \in [S -> S], NEW start \in S, NEW n \in Nat
  PROVE  /\ Run(body, start, n) \in [0..n -> S]
         /\ Run(body, start, n)[0] = start
         /\ Turns(body, n, Run(body, start, n))
  <1>0. PICK f : f = Run(body, start, n)
    OBVIOUS
  <1>1. f[0] = start /\ Turns(body, n, f)
    BY <1>0, RoundsExist DEF Turns
  <1>2. f = [k \in 0..n |-> f[k]]
    BY <1>0 DEF Run
  <1>3. \A k \in 0..n : f[k] \in S
    <2>1. \A k \in 1..n : f[k - 1] \in S => f[k] = body[f[k - 1]]
      BY <1>1 DEF Turns
    <2>2. f[0] \in S
      BY <1>1
    <2> QED
      BY <2>1, <2>2, LoopStates
  <1>4. f \in [0..n -> S]
    BY <1>2, <1>3
  <1> QED
    BY <1>0, <1>1, <1>4

(* A state that the body leaves as it is, is the last one. *)
LEMMA FixedOnward ==
  ASSUME NEW body, NEW n \in Nat, NEW f, NEW m \in 0..n,
         Turns(body, n, f), body[f[m]] = f[m]
  PROVE  f[n] = f[m]
  <1> DEFINE T == {k \in 0..n : k >= m => f[k] = f[m]}
  <1>1. 0 \in T
    OBVIOUS
  <1>2. ASSUME NEW k \in 1..n, k - 1 \in T PROVE k \in T
    <2>0. f[k] = body[f[k - 1]]
      BY DEF Turns
    <2>1. CASE k = m
      BY <2>1
    <2>2. CASE k < m
      BY <2>2
    <2>3. CASE k > m
      <3>1. f[k - 1] = f[m]
        BY <1>2, <2>3
      <3>2. f[k] = f[m]
        BY <2>0, <3>1
      <3> QED
        BY <3>2
    <2> QED
      BY <2>1, <2>2, <2>3
  <1>3. \A k \in 0..n : k \in T
    <2> HIDE DEF T
    <2> QED
      BY <1>1, <1>2, FromRoundToRound
  <1> QED
    BY <1>3

-----------------------------------------------------------------------------
(* The readers of one attribute. *)
Readers(data) == [at : 0..Len(data), found : Seq(Seq(Byte))]

AtFirst == [at |-> 0, found |-> << >>]

LEMMA ByteRange == \A b \in Byte : b \in Nat /\ b <= 255
  BY DEF Byte

LEMMA WholeType ==
  ASSUME NEW data \in Seq(Byte), NEW at \in 0..Len(data), Whole(data, at)
  PROVE  /\ data[at + 1] \in Byte /\ data[at + 2] \in Byte
         /\ data[at + 2] >= 3 /\ at + 1 <= Len(data) /\ at + data[at + 2] \in 0..Len(data)
         /\ ValueAt(data, at) \in Seq(Byte) /\ Len(ValueAt(data, at)) = data[at + 2] - 2
  <1>1. Len(data) \in Nat
    OBVIOUS
  <1>2. at + 3 <= Len(data) /\ data[at + 2] >= 3 /\ at + data[at + 2] <= Len(data)
    BY <1>1 DEF Whole, Over
  <1>3. at + 1 \in 1..Len(data) /\ at + 2 \in 1..Len(data)
    BY <1>1, <1>2
  <1>4. data[at + 1] \in Byte /\ data[at + 2] \in Byte
    BY <1>3, ElementOfSeq
  <1>5. data[at + 2] \in Nat
    BY <1>4, ByteRange
  <1>6. \A i \in (at + 3)..(at + data[at + 2]) : data[i] \in Byte
    BY <1>1, <1>2, <1>5, ElementOfSeq
  <1>7. /\ ValueAt(data, at) \in Seq(Byte)
        /\ Len(ValueAt(data, at)) = data[at + 2] - 2
    <2> DEFINE m == at + 3
               n == at + data[at + 2]
    <2>1. m \in Int /\ n \in Int /\ m <= n /\ n - m + 1 = data[at + 2] - 2
      BY <1>2, <1>5
    <2>2. \A i \in m..n : data[i] \in Byte
      BY <1>6
    <2> HIDE DEF m, n
    <2>3. SubSeq(data, m, n) \in Seq(Byte) /\ Len(SubSeq(data, m, n)) = n - m + 1
      BY <2>1, <2>2, SubSeqProperties
    <2> QED
      BY <2>1, <2>3 DEF ValueAt, m, n
  <1> QED
    BY <1>1, <1>2, <1>3, <1>4, <1>5, <1>7

LEMMA PastType ==
  ASSUME NEW data \in Seq(Byte), NEW typ, NEW s \in Readers(data), Whole(data, s.at)
  PROVE  /\ Past(data, typ, s) \in Readers(data)
         /\ Past(data, typ, s).at = s.at + data[s.at + 2]
         /\ Past(data, typ, s).at >= s.at + 3
  <1>1. s.at \in 0..Len(data) /\ s.found \in Seq(Seq(Byte))
    BY DEF Readers
  <1>2. /\ s.at + data[s.at + 2] \in 0..Len(data) /\ data[s.at + 2] >= 3 /\ data[s.at + 2] \in Byte
        /\ ValueAt(data, s.at) \in Seq(Byte)
    BY <1>1, WholeType
  <1>3. Append(s.found, ValueAt(data, s.at)) \in Seq(Seq(Byte))
    BY <1>1, <1>2, AppendProperties
  <1> DEFINE found == IF data[s.at + 1] = typ THEN Append(s.found, ValueAt(data, s.at)) ELSE s.found
  <1>4. found \in Seq(Seq(Byte))
    BY <1>1, <1>3
  <1>5. Past(data, typ, s) = [at |-> s.at + data[s.at + 2], found |-> found]
    BY DEF Past
  <1> HIDE DEF found
  <1>6. data[s.at + 2] \in Nat
    BY <1>2, ByteRange
  <1>7. Past(data, typ, s) \in Readers(data)
    BY <1>2, <1>4, <1>5 DEF Readers
  <1>8. Past(data, typ, s).at = s.at + data[s.at + 2]
    BY <1>5
  <1> QED
    BY <1>1, <1>2, <1>6, <1>7, <1>8

(* A reader gets to a state it stays in, within as many rounds as there are
   bytes: it moves on or it stays. *)
LEMMA ReaderEnds ==
  ASSUME NEW data \in Seq(Byte), NEW body \in [Readers(data) -> Readers(data)],
         NEW A \in [0..Len(data) -> Readers(data)], Turns(body, Len(data), A),
         \A s \in Readers(data) : body[s] # s => s.at + 3 <= Len(data) /\ body[s].at > s.at
  PROVE  body[A[Len(data)]] = A[Len(data)]
  <1> DEFINE n == Len(data)
             T == {k \in 0..n : body[A[k]] = A[k] \/ A[k].at >= k}
  <1>1. n \in Nat /\ \A k \in 0..n : A[k] \in Readers(data) /\ A[k].at \in 0..n
    BY DEF Readers
  <1>2. 0 \in T
    BY <1>1
  <1>3. ASSUME NEW k \in 1..n, k - 1 \in T PROVE k \in T
    <2>1. k - 1 \in 0..n /\ k \in 0..n /\ A[k] = body[A[k - 1]]
      BY <1>1 DEF Turns
    <2>2. CASE A[k] = A[k - 1]
      BY <2>1, <2>2
    <2>3. CASE A[k] # A[k - 1]
      <3>1. A[k - 1].at >= k - 1
        BY <1>3, <2>1, <2>3
      <3>2. A[k].at > A[k - 1].at
        BY <1>1, <2>1, <2>3
      <3>3. A[k].at \in Nat /\ A[k - 1].at \in Nat
        BY <1>1, <2>1
      <3>4. A[k].at >= k
        BY <3>1, <3>2, <3>3
      <3> QED
        BY <2>1, <3>4
    <2> QED
      BY <2>2, <2>3
  <1>4. n \in T
    <2>1. n \in Nat /\ n \in 0..n
      BY <1>1
    <2> HIDE DEF T, n
    <2> QED
      BY <2>1, <1>2, <1>3, FromRoundToRound
  <1>5. CASE A[n].at >= n
    BY <1>1, <1>5
  <1> QED
    BY <1>4, <1>5


(* The rounds of ValuesIn. *)
LEMMA ValuesRuns ==
  ASSUME NEW data \in Seq(Byte), NEW typ
  PROVE  \E A \in [0..Len(data) -> Readers(data)] :
            /\ A[0] = AtFirst
            /\ \A k \in 1..Len(data) : A[k] = ValuesRound(data, typ, A[k - 1])
            /\ ValuesRound(data, typ, A[Len(data)]) = A[Len(data)]
            /\ ValuesIn(data, typ) = A[Len(data)].found
  <1>1. PICK n \in Nat : n = Len(data)
    OBVIOUS
  <1>2. PICK R : R = Readers(data)
    OBVIOUS
  <1> DEFINE Round(s) == ValuesRound(data, typ, s)
             Is(f) == f = [k \in 0..n |-> IF k = 0 THEN [at |-> 0, found |-> << >>] ELSE Round(f[k - 1])]
  <1>3. PICK A : A = CHOOSE f : Is(f)
    OBVIOUS
  <1>4. ValuesIn(data, typ) = A[CHOOSE k \in 0..n : Round(A[k]) = A[k]].found
    BY <1>1, <1>3 DEF ValuesIn, Until, After
  <1>5. /\ \A s \in R : Round(s) \in R
        /\ \A s \in R : Round(s) # s => s.at + 3 <= n /\ Round(s).at > s.at
    <2> SUFFICES ASSUME NEW s \in R PROVE Round(s) \in R /\ (Round(s) # s => s.at + 3 <= n /\ Round(s).at > s.at)
      OBVIOUS
    <2>1. s.at \in 0..n
      BY <1>1, <1>2 DEF Readers
    <2>2. CASE Whole(data, s.at)
      <3>1. Round(s) = Past(data, typ, s)
        BY <2>2 DEF ValuesRound
      <3>2. Round(s) \in R /\ Round(s).at \in 0..n /\ Round(s).at >= s.at + 3
        <4> HIDE DEF Round
        <4>1. Round(s) \in R /\ Round(s).at >= s.at + 3
          BY <1>2, <2>2, <3>1, PastType
        <4> QED
          BY <1>1, <1>2, <4>1 DEF Readers
      <3> HIDE DEF Round
      <3> QED
        BY <2>1, <3>2
    <2>3. CASE ~Whole(data, s.at)
      BY <2>3 DEF ValuesRound
    <2> QED
      BY <2>2, <2>3
  <1> HIDE DEF Round
  <1>6. PICK body \in [R -> R] : \A s \in R : body[s] = Round(s)
    <2>1. [s \in R |-> Round(s)] \in [R -> R]
      BY <1>5
    <2> QED
      BY <2>1
  <1>7. AtFirst \in R
    BY <1>1, <1>2, EmptySeq DEF Readers, AtFirst
  <1>8. \E f : Is(f)
    <2>1. PICK f : f = Run(body, AtFirst, n)
      OBVIOUS
    <2>2. f \in [0..n -> R] /\ f[0] = AtFirst /\ Turns(body, n, f)
      BY <1>7, <2>1, LoopRuns
    <2>3. \A k \in 0..n : f[k] = IF k = 0 THEN AtFirst ELSE Round(f[k - 1])
      BY <1>6, <2>2 DEF Turns
    <2> QED
      BY <2>2, <2>3 DEF AtFirst
  <1>9. Is(A)
    <2> HIDE DEF Is
    <2> QED
      BY <1>3, <1>8
  <1>10. A[0] = AtFirst /\ (\A k \in 1..n : A[k] = Round(A[k - 1])) /\ A = [k \in 0..n |-> A[k]]
    BY <1>9 DEF AtFirst
  <1>11. (\A k \in 0..n : A[k] \in R) /\ Turns(body, n, A)
    <2>1. \A k \in 1..n : A[k - 1] \in R => A[k] = body[A[k - 1]]
      BY <1>6, <1>10
    <2>2. A[0] \in R
      BY <1>7, <1>10
    <2> QED
      BY <2>1, <2>2, LoopStates
  <1>12. A \in [0..n -> R]
    BY <1>10, <1>11
  <1>13. body[A[n]] = A[n]
    <2>1. \A s \in R : body[s] # s => s.at + 3 <= n /\ body[s].at > s.at
      BY <1>5, <1>6
    <2> QED
      BY <1>1, <1>2, <1>11, <1>12, <2>1, ReaderEnds
  <1>14. Round(A[n]) = A[n]
    BY <1>6, <1>12, <1>13
  <1>15. PICK m \in 0..n : m = (CHOOSE k \in 0..n : Round(A[k]) = A[k]) /\ Round(A[m]) = A[m]
    BY <1>14
  <1>16. A[n] = A[m]
    <2>1. body[A[m]] = A[m]
      BY <1>6, <1>12, <1>15
    <2> QED
      BY <1>11, <2>1, FixedOnward
  <1>17. ValuesIn(data, typ) = A[n].found
    BY <1>4, <1>15, <1>16
  <1> QED
    BY <1>1, <1>2, <1>10, <1>12, <1>14, <1>17 DEF Round

(* The rounds of FirstIn. *)
LEMMA FirstRuns ==
  ASSUME NEW data \in Seq(Byte), NEW typ
  PROVE  \E A \in [0..Len(data) -> Readers(data)] :
            /\ A[0] = AtFirst
            /\ \A k \in 1..Len(data) : A[k] = FirstRound(data, typ, A[k - 1])
            /\ FirstRound(data, typ, A[Len(data)]) = A[Len(data)]
            /\ FirstIn(data, typ) = A[Len(data)].found
  <1>1. PICK n \in Nat : n = Len(data)
    OBVIOUS
  <1>2. PICK R : R = Readers(data)
    OBVIOUS
  <1> DEFINE Round(s) == FirstRound(data, typ, s)
             Is(f) == f = [k \in 0..n |-> IF k = 0 THEN [at |-> 0, found |-> << >>] ELSE Round(f[k - 1])]
  <1>3. PICK A : A = CHOOSE f : Is(f)
    OBVIOUS
  <1>4. FirstIn(data, typ) = A[CHOOSE k \in 0..n : Round(A[k]) = A[k]].found
    BY <1>1, <1>3 DEF FirstIn, Until, After
  <1>5. /\ \A s \in R : Round(s) \in R
        /\ \A s \in R : Round(s) # s => s.at + 3 <= n /\ Round(s).at > s.at
    <2> SUFFICES ASSUME NEW s \in R PROVE Round(s) \in R /\ (Round(s) # s => s.at + 3 <= n /\ Round(s).at > s.at)
      OBVIOUS
    <2>1. s.at \in 0..n
      BY <1>1, <1>2 DEF Readers
    <2>2. CASE s.found = << >> /\ Whole(data, s.at)
      <3>1. Round(s) = Past(data, typ, s)
        BY <2>2 DEF FirstRound
      <3>2. Round(s) \in R /\ Round(s).at \in 0..n /\ Round(s).at >= s.at + 3
        <4> HIDE DEF Round
        <4>1. Round(s) \in R /\ Round(s).at >= s.at + 3
          BY <1>2, <2>2, <3>1, PastType
        <4> QED
          BY <1>1, <1>2, <4>1 DEF Readers
      <3> HIDE DEF Round
      <3> QED
        BY <2>1, <3>2
    <2>3. CASE ~(s.found = << >> /\ Whole(data, s.at))
      BY <2>3 DEF FirstRound
    <2> QED
      BY <2>2, <2>3
  <1> HIDE DEF Round
  <1>6. PICK body \in [R -> R] : \A s \in R : body[s] = Round(s)
    <2>1. [s \in R |-> Round(s)] \in [R -> R]
      BY <1>5
    <2> QED
      BY <2>1
  <1>7. AtFirst \in R
    BY <1>1, <1>2, EmptySeq DEF Readers, AtFirst
  <1>8. \E f : Is(f)
    <2>1. PICK f : f = Run(body, AtFirst, n)
      OBVIOUS
    <2>2. f \in [0..n -> R] /\ f[0] = AtFirst /\ Turns(body, n, f)
      BY <1>7, <2>1, LoopRuns
    <2>3. \A k \in 0..n : f[k] = IF k = 0 THEN AtFirst ELSE Round(f[k - 1])
      BY <1>6, <2>2 DEF Turns
    <2> QED
      BY <2>2, <2>3 DEF AtFirst
  <1>9. Is(A)
    <2> HIDE DEF Is
    <2> QED
      BY <1>3, <1>8
  <1>10. A[0] = AtFirst /\ (\A k \in 1..n : A[k] = Round(A[k - 1])) /\ A = [k \in 0..n |-> A[k]]
    BY <1>9 DEF AtFirst
  <1>11. (\A k \in 0..n : A[k] \in R) /\ Turns(body, n, A)
    <2>1. \A k \in 1..n : A[k - 1] \in R => A[k] = body[A[k - 1]]
      BY <1>6, <1>10
    <2>2. A[0] \in R
      BY <1>7, <1>10
    <2> QED
      BY <2>1, <2>2, LoopStates
  <1>12. A \in [0..n -> R]
    BY <1>10, <1>11
  <1>13. body[A[n]] = A[n]
    <2>1. \A s \in R : body[s] # s => s.at + 3 <= n /\ body[s].at > s.at
      BY <1>5, <1>6
    <2> QED
      BY <1>1, <1>2, <1>11, <1>12, <2>1, ReaderEnds
  <1>14. Round(A[n]) = A[n]
    BY <1>6, <1>12, <1>13
  <1>15. PICK m \in 0..n : m = (CHOOSE k \in 0..n : Round(A[k]) = A[k]) /\ Round(A[m]) = A[m]
    BY <1>14
  <1>16. A[n] = A[m]
    <2>1. body[A[m]] = A[m]
      BY <1>6, <1>12, <1>15
    <2> QED
      BY <1>11, <2>1, FixedOnward
  <1>17. FirstIn(data, typ) = A[n].found
    BY <1>4, <1>15, <1>16
  <1> QED
    BY <1>1, <1>2, <1>10, <1>12, <1>14, <1>17 DEF Round

LEMMA ValuesInType ==
  ASSUME NEW data \in Seq(Byte), NEW typ
  PROVE  ValuesIn(data, typ) \in Seq(Seq(Byte))
  <1>1. PICK A \in [0..Len(data) -> Readers(data)] : ValuesIn(data, typ) = A[Len(data)].found
    BY ValuesRuns
  <1>2. A[Len(data)] \in Readers(data)
    BY LenProperties
  <1> QED
    BY <1>1, <1>2 DEF Readers

(* Of a sequence at most its first member. *)
FirstOf(s) == IF s = << >> THEN << >> ELSE <<Head(s)>>

LEMMA OneIsSome == \A x : <<x>> # << >> /\ Head(<<x>>) = x /\ Len(<<x>>) = 1
  OBVIOUS

LEMMA AppendKeepsHead ==
  ASSUME NEW S, NEW s \in Seq(S), NEW x \in S, s # << >>
  PROVE  Append(s, x) # << >> /\ Head(Append(s, x)) = Head(s)
  <1>1. Append(s, x) # << >>
    BY AppendProperties, Zenon
  <1>2. Head(Append(s, x)) = IF s = << >> THEN x ELSE Head(s)
    BY HeadTailAppend, Zenon
  <1> QED
    BY <1>1, <1>2

(* FirstIn finds the first of what ValuesIn finds. *)
LEMMA FirstIsHead ==
  ASSUME NEW data \in Seq(Byte), NEW typ
  PROVE  FirstIn(data, typ) = FirstOf(ValuesIn(data, typ))
  <1>1. PICK n \in Nat : n = Len(data)
    OBVIOUS
  <1>2. PICK V \in [0..n -> Readers(data)] :
            /\ V[0] = AtFirst
            /\ \A k \in 1..n : V[k] = ValuesRound(data, typ, V[k - 1])
            /\ ValuesIn(data, typ) = V[n].found
    BY <1>1, ValuesRuns
  <1>3. PICK F \in [0..n -> Readers(data)] :
            /\ F[0] = AtFirst
            /\ \A k \in 1..n : F[k] = FirstRound(data, typ, F[k - 1])
            /\ FirstIn(data, typ) = F[n].found
    BY <1>1, FirstRuns
  <1> DEFINE Agree(k) == IF V[k].found = << >> THEN F[k] = V[k] ELSE F[k].found = <<Head(V[k].found)>>
             T == {k \in 0..n : Agree(k)}
  <1>4. 0 \in T
    <2>1. V[0].found = << >> /\ F[0] = V[0]
      BY <1>2, <1>3 DEF AtFirst
    <2> QED
      BY <2>1
  <1>5. ASSUME NEW k \in 1..n, k - 1 \in T PROVE k \in T
    <2>1. PICK v \in Readers(data) : v = V[k - 1] /\ V[k] = ValuesRound(data, typ, v)
      BY <1>2
    <2>2. PICK f \in Readers(data) : f = F[k - 1] /\ F[k] = FirstRound(data, typ, f)
      BY <1>3
    <2>3. IF v.found = << >> THEN f = v ELSE f.found = <<Head(v.found)>>
      BY <1>5, <2>1, <2>2
    <2>4. v.found \in Seq(Seq(Byte)) /\ v.at \in 0..Len(data)
      BY DEF Readers
    <2>5. CASE ~Whole(data, v.at)
      <3>1. V[k] = v /\ (v.found = << >> => F[k] = f)
        BY <2>1, <2>2, <2>3, <2>5 DEF ValuesRound, FirstRound
      <3>2. v.found # << >> => F[k] = f
        BY <2>2, <2>3, OneIsSome DEF FirstRound
      <3>3. Agree(k)
        BY <2>3, <3>1, <3>2
      <3> QED
        BY <3>3
    <2>6. CASE Whole(data, v.at)
      <3>1. V[k] = Past(data, typ, v) /\ ValueAt(data, v.at) \in Seq(Byte)
        BY <2>1, <2>4, <2>6, WholeType DEF ValuesRound
      <3>2. CASE v.found = << >>
        <4>1. F[k] = V[k]
          BY <2>2, <2>3, <2>6, <3>1, <3>2 DEF FirstRound
        <4>2. V[k].found = << >> \/ V[k].found = <<ValueAt(data, v.at)>>
          BY <3>1, <3>2 DEF Past
        <4>3. Agree(k)
          BY <4>1, <4>2
        <4> QED
          BY <4>3
      <3>3. CASE v.found # << >>
        <4>1. F[k] = f /\ f.found = <<Head(v.found)>>
          BY <2>2, <2>3, <3>3, OneIsSome DEF FirstRound
        <4>2. V[k].found = v.found \/ V[k].found = Append(v.found, ValueAt(data, v.at))
          BY <3>1 DEF Past
        <4>3. V[k].found # << >> /\ Head(V[k].found) = Head(v.found)
          <5>1. PICK x \in Seq(Byte) : x = ValueAt(data, v.at)
            BY <3>1
          <5>2. PICK w \in Seq(Seq(Byte)) : w = v.found
            BY <2>4
          <5>3. w # << >>
            BY <3>3, <5>2
          <5>4. Append(w, x) # << >> /\ Head(Append(w, x)) = Head(w)
            BY <5>3, AppendKeepsHead, Zenon
          <5> QED
            BY <3>3, <4>2, <5>1, <5>2, <5>4
        <4>4. Agree(k)
          BY <4>1, <4>3
        <4> QED
          BY <4>4
      <3> QED
        BY <3>2, <3>3
    <2> QED
      BY <2>5, <2>6
  <1>6. n \in T
    <2>1. n \in 0..n
      OBVIOUS
    <2> HIDE DEF T
    <2> QED
      BY <1>4, <1>5, <2>1, FromRoundToRound
  <1>7. Agree(n)
    BY <1>6
  <1>8. FirstIn(data, typ) = F[n].found /\ ValuesIn(data, typ) = V[n].found
    BY <1>2, <1>3
  <1> QED
    BY <1>7, <1>8 DEF FirstOf

-----------------------------------------------------------------------------
(* The readers of the list. *)
Vsa == [vendor : {Redback, Mikrotik, Unknown}, data : Seq(Byte)]

\* What an attribute of the list adds to the values of a type.
Part(vsa, typ) == IF Ours(vsa) THEN ValuesIn(vsa.data, typ) ELSE << >>

LEMMA PartType ==
  ASSUME NEW vsa \in Vsa, NEW typ
  PROVE  Part(vsa, typ) \in Seq(Seq(Byte))
  <1>1. vsa.data \in Seq(Byte)
    BY DEF Vsa
  <1>2. ValuesIn(vsa.data, typ) \in Seq(Seq(Byte))
    BY <1>1, ValuesInType
  <1>3. << >> \in Seq(Seq(Byte))
    BY EmptySeq
  <1> QED
    BY <1>2, <1>3 DEF Part

\* P joins them, attribute after attribute.
Joins(P, l, typ) ==
    P[0] = << >> /\ \A k \in 1..Len(l) : P[k] = P[k - 1] \o Part(l[k], typ)

ListReaders == [i : Nat \ {0}, found : Seq(Seq(Byte))]

(* The rounds of GetsVendor. *)
LEMMA GetsRuns ==
  ASSUME NEW l \in Seq(Vsa), NEW typ
  PROVE  \E P \in [0..Len(l) -> Seq(Seq(Byte))] : Joins(P, l, typ) /\ GetsVendor(l, typ) = P[Len(l)]
  <1>1. PICK n \in Nat : n = Len(l)
    OBVIOUS
  <1>2. PICK R : R = ListReaders
    OBVIOUS
  <1> DEFINE Round(s) == GetsRound(l, typ, s)
             start == [i |-> 1, found |-> << >>]
             Is(f) == f = [k \in 0..n |-> IF k = 0 THEN start ELSE Round(f[k - 1])]
  <1>3. PICK A : A = CHOOSE f : Is(f)
    OBVIOUS
  <1>4. GetsVendor(l, typ) = A[n].found
    BY <1>1, <1>3 DEF GetsVendor, Through, After
  <1>5. \A s \in R : Round(s) \in R /\ (s.i <= n => Round(s).i = s.i + 1 /\ Round(s).found = s.found \o Part(l[s.i], typ))
    <2> SUFFICES ASSUME NEW s \in R
                 PROVE  Round(s) \in R /\ (s.i <= n => Round(s).i = s.i + 1 /\ Round(s).found = s.found \o Part(l[s.i], typ))
      OBVIOUS
    <2>1. s.i \in Nat \ {0} /\ s.found \in Seq(Seq(Byte))
      BY <1>2 DEF ListReaders
    <2>2. CASE s.i <= n
      <3>1. l[s.i] \in Vsa
        BY <1>1, <2>1, <2>2, ElementOfSeq
      <3>2. Part(l[s.i], typ) \in Seq(Seq(Byte))
        BY <3>1, PartType
      <3>3. PICK c \in Seq(Seq(Byte)) : c = s.found \o Part(l[s.i], typ)
        BY <2>1, <3>2, ConcatProperties
      <3>4. Round(s) = [i |-> s.i + 1, found |-> c]
        BY <1>1, <2>1, <2>2, <3>3 DEF GetsRound, Part
      <3> HIDE DEF Round
      <3> QED
        BY <1>2, <2>1, <3>3, <3>4 DEF ListReaders
    <2>3. CASE ~(s.i <= n)
      <3>1. Round(s) = s
        <4>1. s.i > Len(l)
          BY <1>1, <2>1, <2>3
        <4> QED
          BY <4>1, Zenon DEF GetsRound
      <3> HIDE DEF Round
      <3> QED
        BY <2>3, <3>1
    <2> QED
      BY <2>2, <2>3
  <1> HIDE DEF Round
  <1>6. PICK body \in [R -> R] : \A s \in R : body[s] = Round(s)
    <2>1. [s \in R |-> Round(s)] \in [R -> R]
      BY <1>5
    <2> QED
      BY <2>1
  <1>7. start \in R
    BY <1>2, EmptySeq DEF ListReaders
  <1> HIDE DEF start
  <1>8. \E f : Is(f)
    <2>1. PICK f : f = Run(body, start, n)
      OBVIOUS
    <2>2. f \in [0..n -> R] /\ f[0] = start /\ Turns(body, n, f)
      BY <1>7, <2>1, LoopRuns
    <2>3. \A k \in 0..n : f[k] = IF k = 0 THEN start ELSE Round(f[k - 1])
      BY <1>6, <2>2 DEF Turns
    <2> QED
      BY <2>2, <2>3
  <1>9. Is(A)
    <2> HIDE DEF Is
    <2> QED
      BY <1>3, <1>8
  <1>10. A[0] = start /\ (\A k \in 1..n : A[k] = Round(A[k - 1])) /\ A = [k \in 0..n |-> A[k]]
    BY <1>9
  <1>11. (\A k \in 0..n : A[k] \in R) /\ Turns(body, n, A)
    <2>1. \A k \in 1..n : A[k - 1] \in R => A[k] = body[A[k - 1]]
      BY <1>6, <1>10
    <2>2. A[0] \in R
      BY <1>7, <1>10
    <2> QED
      BY <2>1, <2>2, LoopStates
  <1> DEFINE T == {k \in 0..n : A[k].i = k + 1}
  <1>12. \A k \in 0..n : k \in T
    <2>1. 0 \in T
      BY <1>10 DEF start
    <2>2. ASSUME NEW k \in 1..n, k - 1 \in T PROVE k \in T
      <3>1. k - 1 \in 0..n /\ k \in 0..n /\ A[k - 1].i = k
        BY <2>2
      <3>2. PICK s \in R : s = A[k - 1] /\ A[k] = Round(s)
        BY <1>10, <1>11, <3>1
      <3>3. s.i = k
        BY <3>1, <3>2
      <3>4. Round(s).i = k + 1
        <4>1. s.i <= n
          BY <3>3
        <4> QED
          BY <1>5, <3>3, <4>1
      <3> QED
        BY <3>1, <3>2, <3>4
    <2> HIDE DEF T
    <2> QED
      BY <2>1, <2>2, FromRoundToRound
  <1>13. PICK P : P = [k \in 0..n |-> A[k].found]
    OBVIOUS
  <1>14. P \in [0..n -> Seq(Seq(Byte))]
    BY <1>2, <1>11, <1>13 DEF ListReaders
  <1>15. P[0] = << >>
    BY <1>10, <1>13 DEF start
  <1>16. ASSUME NEW k \in 1..n PROVE P[k] = P[k - 1] \o Part(l[k], typ)
    <2>1. k - 1 \in 0..n /\ k \in 0..n
      OBVIOUS
    <2>2. PICK s \in R : s = A[k - 1] /\ A[k] = Round(s)
      BY <1>10, <1>11, <2>1
    <2>3. k - 1 \in T
      BY <1>12, <2>1
    <2>4. s.i = k
      BY <2>2, <2>3
    <2>5. Round(s).found = s.found \o Part(l[k], typ)
      <3>1. s.i <= n
        BY <2>4
      <3>2. Round(s).found = s.found \o Part(l[s.i], typ)
        BY <1>5, <3>1
      <3> HIDE DEF Is, T
      <3> QED
        BY <2>4, <3>2, Zenon
    <2> QED
      BY <1>13, <2>1, <2>2, <2>5
  <1>17. GetsVendor(l, typ) = P[n]
    BY <1>4, <1>13
  <1> QED
    BY <1>1, <1>14, <1>15, <1>16, <1>17 DEF Joins

LEMMA GetsVendorType ==
  ASSUME NEW l \in Seq(Vsa), NEW typ
  PROVE  GetsVendor(l, typ) \in Seq(Seq(Byte))
  <1>1. PICK P \in [0..Len(l) -> Seq(Seq(Byte))] : GetsVendor(l, typ) = P[Len(l)]
    BY GetsRuns
  <1>2. Len(l) \in 0..Len(l)
    BY LenProperties
  <1> QED
    BY <1>1, <1>2

LEMMA FirstOfConcat ==
  ASSUME NEW S, NEW p \in Seq(S), NEW q \in Seq(S)
  PROVE  FirstOf(p \o q) = IF p = << >> THEN FirstOf(q) ELSE FirstOf(p)
  <1>1. CASE p = << >>
    <2>1. p \o q = q
      BY <1>1, ConcatEmptySeq
    <2> QED
      BY <1>1, <2>1
  <1>2. CASE p # << >>
    <2>1. Len(p) \in Nat \ {0} /\ Len(q) \in Nat
      BY <1>2, EmptySeq, LenProperties
    <2>2. PICK c \in Seq(S) : c = p \o q /\ Len(c) = Len(p) + Len(q) /\ c[1] = p[1]
      <3>1. p \o q \in Seq(S) /\ Len(p \o q) = Len(p) + Len(q)
        BY ConcatProperties
      <3>2. 1 \in 1..(Len(p) + Len(q)) /\ 1 <= Len(p)
        BY <2>1
      <3>3. \A i \in 1..(Len(p) + Len(q)) : (p \o q)[i] = IF i <= Len(p) THEN p[i] ELSE q[i - Len(p)]
        BY ConcatProperties
      <3> QED
        BY <3>1, <3>2, <3>3
    <2>3. Len(c) # 0
      BY <2>1, <2>2
    <2>4. c # << >> /\ Head(c) = c[1] /\ Head(p) = p[1]
      BY <2>3
    <2> QED
      BY <1>2, <2>2, <2>4 DEF FirstOf
  <1> QED
    BY <1>1, <1>2

LEMMA FirstOfType ==
  ASSUME NEW S, NEW p \in Seq(S)
  PROVE  FirstOf(p) \in Seq(S)
  <1>1. p # << >> => Head(p) \in S
    BY HeadTailProperties
  <1>2. << >> \in Seq(S)
    BY EmptySeq
  <1>3. \A x \in S : <<x>> \in Seq(S)
    OBVIOUS
  <1> QED
    BY <1>1, <1>2, <1>3 DEF FirstOf

(* LookupVendor finds the first of what GetsVendor finds. *)
LEMMA LookupIsFirst ==
  ASSUME NEW l \in Seq(Vsa), NEW typ
  PROVE  LookupVendor(l, typ) = FirstOf(GetsVendor(l, typ))
  <1>1. PICK n \in Nat : n = Len(l)
    OBVIOUS
  <1>2. PICK R : R = ListReaders
    OBVIOUS
  <1> DEFINE Round(s) == LookupRound(l, typ, s)
             start == [i |-> 1, found |-> << >>]
             Is(f) == f = [k \in 0..n |-> IF k = 0 THEN start ELSE Round(f[k - 1])]
  <1>3. PICK A : A = CHOOSE f : Is(f)
    OBVIOUS
  <1>4. LookupVendor(l, typ) = A[n].found
    BY <1>1, <1>3 DEF LookupVendor, Through, After
  <1>5. ASSUME NEW s \in R
        PROVE  /\ Round(s) \in R
               /\ s.found # << >> \/ s.i > n => Round(s) = s
               /\ s.found = << >> /\ s.i <= n =>
                     Round(s).i = s.i + 1 /\ Round(s).found = FirstOf(Part(l[s.i], typ))
    <2>1. s.i \in Nat \ {0} /\ s.found \in Seq(Seq(Byte))
      BY <1>2 DEF ListReaders
    <2>2. CASE s.found = << >> /\ s.i <= n
      <3>1. l[s.i] \in Vsa
        BY <1>1, <2>1, <2>2, ElementOfSeq
      <3>2. Part(l[s.i], typ) \in Seq(Seq(Byte))
        BY <3>1, PartType
      <3>3. PICK c \in Seq(Seq(Byte)) : c = FirstOf(Part(l[s.i], typ))
        BY <3>2, FirstOfType
      <3>4. c = IF Ours(l[s.i]) THEN FirstIn(l[s.i].data, typ) ELSE << >>
        <4>1. l[s.i].data \in Seq(Byte)
          BY <3>1 DEF Vsa
        <4>2. FirstIn(l[s.i].data, typ) = FirstOf(ValuesIn(l[s.i].data, typ))
          BY <4>1, FirstIsHead
        <4> QED
          BY <3>3, <4>2 DEF Part, FirstOf
      <3>5. ~(s.found # << >> \/ s.i > Len(l))
        BY <1>1, <2>1, <2>2
      <3>6. Round(s) = [i |-> s.i + 1, found |-> c]
        BY <3>4, <3>5, Zenon DEF LookupRound
      <3> HIDE DEF Round
      <3> QED
        BY <1>2, <2>1, <2>2, <3>3, <3>6 DEF ListReaders
    <2>3. CASE s.found # << >> \/ s.i > n
      <3>1. s.found # << >> \/ s.i > Len(l)
        BY <1>1, <2>3
      <3>2. Round(s) = s
        BY <3>1, Zenon DEF LookupRound
      <3>3. ~(s.found = << >> /\ s.i <= n)
        BY <1>1, <2>1, <2>3
      <3> HIDE DEF Round
      <3> QED
        BY <2>3, <3>2, <3>3
    <2> QED
      BY <1>1, <2>1, <2>2, <2>3
  <1> HIDE DEF Round
  <1>6. PICK body \in [R -> R] : \A s \in R : body[s] = Round(s)
    <2>1. [s \in R |-> Round(s)] \in [R -> R]
      BY <1>5
    <2> QED
      BY <2>1
  <1>7. start \in R
    BY <1>2, EmptySeq DEF ListReaders
  <1> HIDE DEF start
  <1>8. \E f : Is(f)
    <2>1. PICK f : f = Run(body, start, n)
      OBVIOUS
    <2>2. f \in [0..n -> R] /\ f[0] = start /\ Turns(body, n, f)
      BY <1>7, <2>1, LoopRuns
    <2>3. \A k \in 0..n : f[k] = IF k = 0 THEN start ELSE Round(f[k - 1])
      BY <1>6, <2>2 DEF Turns
    <2> QED
      BY <2>2, <2>3
  <1>9. Is(A)
    <2> HIDE DEF Is
    <2> QED
      BY <1>3, <1>8
  <1>10. A[0] = start /\ (\A k \in 1..n : A[k] = Round(A[k - 1])) /\ A = [k \in 0..n |-> A[k]]
    BY <1>9
  <1>11. (\A k \in 0..n : A[k] \in R) /\ Turns(body, n, A)
    <2>1. \A k \in 1..n : A[k - 1] \in R => A[k] = body[A[k - 1]]
      BY <1>6, <1>10
    <2>2. A[0] \in R
      BY <1>7, <1>10
    <2> QED
      BY <2>1, <2>2, LoopStates
  <1>12. PICK P \in [0..n -> Seq(Seq(Byte))] : Joins(P, l, typ) /\ GetsVendor(l, typ) = P[n]
    BY <1>1, GetsRuns
  <1> DEFINE Agree(k) == A[k].found = FirstOf(P[k]) /\ (A[k].found = << >> => A[k].i = k + 1)
             T == {k \in 0..n : Agree(k)}
  <1>13. 0 \in T
    BY <1>10, <1>12 DEF start, FirstOf, Joins
  <1>14. ASSUME NEW k \in 1..n, k - 1 \in T PROVE k \in T
    <2>1. k - 1 \in 0..n /\ k \in 0..n /\ Agree(k - 1)
      BY <1>14
    <2>2. PICK s \in R : s = A[k - 1] /\ A[k] = Round(s)
      BY <1>10, <1>11, <2>1
    <2>3. s.found = FirstOf(P[k - 1]) /\ (s.found = << >> => s.i = k)
      BY <2>1, <2>2
    <2>4. PICK p \in Seq(Seq(Byte)) : p = P[k - 1]
      BY <2>1
    <2>5. PICK q \in Seq(Seq(Byte)) : q = Part(l[k], typ)
      BY <1>1, ElementOfSeq, PartType
    <2>6. P[k] = p \o q
      BY <1>1, <1>12, <2>4, <2>5 DEF Joins
    <2>7. FirstOf(P[k]) = IF p = << >> THEN FirstOf(q) ELSE FirstOf(p)
      BY <2>6, FirstOfConcat
    <2>8. p = << >> <=> s.found = << >>
      BY <2>3, <2>4, OneIsSome DEF FirstOf
    <2>9. Agree(k)
      <3>1. CASE s.found = << >>
        <4>1. s.i = k /\ s.i <= n
          BY <2>3, <3>1
        <4>2. Round(s).i = k + 1 /\ Round(s).found = FirstOf(q)
          BY <1>5, <2>5, <3>1, <4>1
        <4> QED
          BY <2>2, <2>7, <2>8, <3>1, <4>2
      <3>2. CASE s.found # << >>
        <4>1. Round(s) = s
          BY <1>5, <3>2
        <4> QED
          BY <2>2, <2>3, <2>4, <2>7, <2>8, <3>2, <4>1
      <3> QED
        BY <3>1, <3>2
    <2> QED
      BY <2>1, <2>9
  <1>15. n \in T
    <2>1. n \in 0..n
      OBVIOUS
    <2> HIDE DEF T
    <2> QED
      BY <1>13, <1>14, <2>1, FromRoundToRound
  <1>16. A[n].found = FirstOf(P[n])
    BY <1>15
  <1> QED
    BY <1>4, <1>12, <1>16

(* Whatever joins the parts of a list gives what GetsVendor reads. *)
LEMMA JoinsOneWay ==
  ASSUME NEW l \in Seq(Vsa), NEW typ, NEW P, Joins(P, l, typ)
  PROVE  GetsVendor(l, typ) = P[Len(l)]
  <1>1. PICK n \in Nat : n = Len(l)
    OBVIOUS
  <1>2. PICK Q : Joins(Q, l, typ) /\ GetsVendor(l, typ) = Q[n]
    BY <1>1, GetsRuns
  <1> DEFINE T == {k \in 0..n : P[k] = Q[k]}
  <1>3. 0 \in T
    BY <1>2 DEF Joins
  <1>4. ASSUME NEW k \in 1..n, k - 1 \in T PROVE k \in T
    <2>1. k \in 0..n /\ P[k - 1] = Q[k - 1]
      BY <1>4
    <2>2. P[k] = P[k - 1] \o Part(l[k], typ)
      BY <1>1 DEF Joins
    <2>3. Q[k] = Q[k - 1] \o Part(l[k], typ)
      BY <1>1, <1>2 DEF Joins
    <2> QED
      BY <2>1, <2>2, <2>3
  <1>5. n \in T
    <2>1. n \in 0..n
      OBVIOUS
    <2> HIDE DEF T
    <2> QED
      BY <1>3, <1>4, <2>1, FromRoundToRound
  <1> QED
    BY <1>1, <1>2, <1>5

(* An attribute at the end of the list adds its values at the end. *)
LEMMA GetsOfAppend ==
  ASSUME NEW l \in Seq(Vsa), NEW vsa \in Vsa, NEW typ
  PROVE  GetsVendor(Append(l, vsa), typ) = GetsVendor(l, typ) \o Part(vsa, typ)
  <1>1. PICK n \in Nat : n = Len(l)
    OBVIOUS
  <1>2. PICK P : Joins(P, l, typ) /\ GetsVendor(l, typ) = P[n]
    BY <1>1, GetsRuns
  <1>3. PICK m \in Seq(Vsa) : /\ m = Append(l, vsa) /\ Len(m) = n + 1 /\ m[n + 1] = vsa
                              /\ \A i \in 1..n : m[i] = l[i]
    <2>1. PICK S : S = Vsa
      OBVIOUS
    <2>2. /\ Append(l, vsa) \in Seq(S) /\ Len(Append(l, vsa)) = Len(l) + 1
          /\ \A i \in 1..Len(l) : Append(l, vsa)[i] = l[i]
          /\ Append(l, vsa)[Len(l) + 1] = vsa
      BY <2>1, AppendProperties
    <2> QED
      BY <1>1, <2>1, <2>2
  <1>4. PICK Q : Q = [k \in 0..(n + 1) |-> IF k <= n THEN P[k] ELSE P[n] \o Part(vsa, typ)]
    OBVIOUS
  <1>5. Joins(Q, m, typ)
    <2>1. Q[0] = << >>
      BY <1>2, <1>4 DEF Joins
    <2>2. ASSUME NEW k \in 1..(n + 1) PROVE Q[k] = Q[k - 1] \o Part(m[k], typ)
      <3>1. CASE k <= n
        <4>1. k \in 1..n /\ k \in 0..(n + 1) /\ k - 1 \in 0..(n + 1) /\ k - 1 <= n
          BY <3>1
        <4>2. Q[k] = P[k] /\ Q[k - 1] = P[k - 1] /\ m[k] = l[k]
          BY <1>3, <1>4, <4>1
        <4>3. P[k] = P[k - 1] \o Part(l[k], typ)
          BY <1>1, <1>2, <4>1 DEF Joins
        <4> QED
          BY <4>2, <4>3
      <3>2. CASE k = n + 1
        <4>1. k - 1 = n /\ n \in 0..(n + 1) /\ n + 1 \in 0..(n + 1) /\ ~(n + 1 <= n)
          BY <3>2
        <4>2. Q[k] = P[n] \o Part(vsa, typ) /\ Q[k - 1] = P[n] /\ m[k] = vsa
          BY <1>3, <1>4, <3>2, <4>1
        <4> QED
          BY <4>2
      <3>3. k <= n \/ k = n + 1
        OBVIOUS
      <3> QED
        BY <3>1, <3>2, <3>3, Zenon
    <2> QED
      BY <1>3, <2>1, <2>2 DEF Joins
  <1>6. GetsVendor(m, typ) = Q[n + 1]
    BY <1>3, <1>5, JoinsOneWay
  <1>7. Q[n + 1] = P[n] \o Part(vsa, typ)
    BY <1>4
  <1> QED
    BY <1>2, <1>3, <1>6, <1>7

LEMMA RemoveAtProperties ==
  ASSUME NEW S, NEW s \in Seq(S), NEW i \in 1..Len(s)
  PROVE  /\ RemoveAt(s, i) \in Seq(S)
         /\ Len(RemoveAt(s, i)) = Len(s) - 1
         /\ \A k \in 1..(Len(s) - 1) : RemoveAt(s, i)[k] = IF k < i THEN s[k] ELSE s[k + 1]
  <1>1. PICK n \in Nat : n = Len(s)
    OBVIOUS
  <1>2. PICK a : a = SubSeq(s, 1, i - 1)
    OBVIOUS
  <1>3. PICK b : b = SubSeq(s, i + 1, n)
    OBVIOUS
  <1>4. a \in Seq(S) /\ Len(a) = i - 1 /\ \A k \in 1..(i - 1) : a[k] = s[k]
    <2>1. 1 \in Int /\ i - 1 \in Int /\ \A k \in 1..(i - 1) : s[k] \in S
      BY <1>1, ElementOfSeq
    <2>2. /\ SubSeq(s, 1, i - 1) \in Seq(S)
          /\ Len(SubSeq(s, 1, i - 1)) = IF 1 <= i - 1 THEN (i - 1) - 1 + 1 ELSE 0
          /\ \A k \in 1..((i - 1) - 1 + 1) : SubSeq(s, 1, i - 1)[k] = s[1 + k - 1]
      BY <2>1, SubSeqProperties
    <2> QED
      BY <1>1, <1>2, <2>2
  <1>5. b \in Seq(S) /\ Len(b) = n - i /\ \A k \in 1..(n - i) : b[k] = s[i + k]
    <2>1. i + 1 \in Int /\ n \in Int /\ \A k \in (i + 1)..n : s[k] \in S
      BY <1>1, ElementOfSeq
    <2>2. /\ SubSeq(s, i + 1, n) \in Seq(S)
          /\ Len(SubSeq(s, i + 1, n)) = IF i + 1 <= n THEN n - (i + 1) + 1 ELSE 0
          /\ \A k \in 1..(n - (i + 1) + 1) : SubSeq(s, i + 1, n)[k] = s[(i + 1) + k - 1]
      BY <2>1, SubSeqProperties
    <2> QED
      BY <1>1, <1>3, <2>2
  <1>6. RemoveAt(s, i) = a \o b
    BY <1>1, <1>2, <1>3 DEF RemoveAt
  <1>7. /\ a \o b \in Seq(S) /\ Len(a \o b) = Len(a) + Len(b)
        /\ \A k \in 1..(Len(a) + Len(b)) : (a \o b)[k] = IF k <= Len(a) THEN a[k] ELSE b[k - Len(a)]
    BY <1>4, <1>5, ConcatProperties
  <1> QED
    BY <1>1, <1>4, <1>5, <1>6, <1>7

(* Without an attribute that adds nothing, the values are the same. *)
LEMMA GetsOfRemoval ==
  ASSUME NEW l \in Seq(Vsa), NEW i \in 1..Len(l), NEW typ, Part(l[i], typ) = << >>
  PROVE  GetsVendor(RemoveAt(l, i), typ) = GetsVendor(l, typ)
  <1>1. PICK n \in Nat : n = Len(l)
    OBVIOUS
  <1>2. PICK P \in [0..n -> Seq(Seq(Byte))] : Joins(P, l, typ) /\ GetsVendor(l, typ) = P[n]
    BY <1>1, GetsRuns
  <1>3. PICK m \in Seq(Vsa) : /\ m = RemoveAt(l, i) /\ Len(m) = n - 1
                              /\ \A k \in 1..(n - 1) : m[k] = IF k < i THEN l[k] ELSE l[k + 1]
    BY <1>1, RemoveAtProperties
  <1>4. PICK Q : Q = [k \in 0..(n - 1) |-> IF k < i THEN P[k] ELSE P[k + 1]]
    OBVIOUS
  <1>5. P[i] = P[i - 1]
    <2>1. i \in 1..n /\ i - 1 \in 0..n
      BY <1>1
    <2>2. P[i] = P[i - 1] \o Part(l[i], typ)
      BY <1>1, <1>2, <2>1 DEF Joins
    <2>3. P[i - 1] \in Seq(Seq(Byte))
      BY <2>1
    <2> QED
      BY <2>2, <2>3, ConcatEmptySeq
  <1>6. Joins(Q, m, typ)
    <2>1. Q[0] = << >>
      BY <1>1, <1>2, <1>4 DEF Joins
    <2>2. ASSUME NEW k \in 1..(n - 1) PROVE Q[k] = Q[k - 1] \o Part(m[k], typ)
      <3>0. k \in 1..n /\ k + 1 \in 1..n /\ k - 1 \in 0..(n - 1) /\ k \in 0..(n - 1)
        OBVIOUS
      <3>1. /\ P[k] = P[k - 1] \o Part(l[k], typ)
            /\ P[k + 1] = P[k] \o Part(l[k + 1], typ)
        <4>1. P[k] = P[k - 1] \o Part(l[k], typ)
          BY <1>1, <1>2, <3>0 DEF Joins
        <4>2. PICK j \in 1..n : j = k + 1 /\ j - 1 = k
          BY <3>0
        <4>3. P[j] = P[j - 1] \o Part(l[j], typ)
          BY <1>1, <1>2 DEF Joins
        <4>4. P[j] = P[k] \o Part(l[j], typ)
          BY <4>2, <4>3
        <4> QED
          BY <4>1, <4>2, <4>4, Zenon
      <3>2. CASE k < i
        <4>1. Q[k] = P[k] /\ Q[k - 1] = P[k - 1] /\ m[k] = l[k]
          BY <1>3, <1>4, <3>0, <3>2
        <4> QED
          BY <3>1, <4>1
      <3>3. CASE k = i
        <4>1. Q[k] = P[k + 1] /\ Q[k - 1] = P[k - 1] /\ m[k] = l[k + 1]
          BY <1>3, <1>4, <3>0, <3>3
        <4> QED
          BY <1>5, <3>1, <3>3, <4>1
      <3>4. CASE k > i
        <4>1. Q[k] = P[k + 1] /\ Q[k - 1] = P[(k - 1) + 1] /\ (k - 1) + 1 = k /\ m[k] = l[k + 1]
          BY <1>3, <1>4, <3>0, <3>4
        <4> QED
          BY <3>1, <4>1
      <3>5. k < i \/ k = i \/ k > i
        BY <1>1
      <3> QED
        BY <3>2, <3>3, <3>4, <3>5, Zenon
    <2> QED
      BY <1>3, <2>1, <2>2 DEF Joins
  <1>7. GetsVendor(m, typ) = Q[n - 1]
    BY <1>3, <1>6, JoinsOneWay
  <1>8. Q[n - 1] = P[n]
    <2>1. n - 1 \in 0..(n - 1) /\ (n - 1 < i => i = n)
      BY <1>1
    <2> QED
      BY <1>4, <1>5, <2>1
  <1> QED
    BY <1>2, <1>3, <1>7, <1>8

(* Nothing is read just when no attribute adds anything. *)
LEMMA GetsNothing ==
  ASSUME NEW l \in Seq(Vsa), NEW typ
  PROVE  GetsVendor(l, typ) = << >> <=> \A i \in 1..Len(l) : Part(l[i], typ) = << >>
  <1>1. PICK n \in Nat : n = Len(l)
    OBVIOUS
  <1>2. PICK P \in [0..n -> Seq(Seq(Byte))] : Joins(P, l, typ) /\ GetsVendor(l, typ) = P[n]
    BY <1>1, GetsRuns
  <1> DEFINE T == {k \in 0..n : P[k] = << >> <=> \A i \in 1..k : Part(l[i], typ) = << >>}
  <1>3. 0 \in T
    BY <1>2 DEF Joins
  <1>4. ASSUME NEW k \in 1..n, k - 1 \in T PROVE k \in T
    <2>1. k \in 0..n /\ k - 1 \in 0..n /\ (P[k - 1] = << >> <=> \A i \in 1..(k - 1) : Part(l[i], typ) = << >>)
      BY <1>4
    <2>2. P[k] = P[k - 1] \o Part(l[k], typ)
      BY <1>1, <1>2 DEF Joins
    <2>3. P[k - 1] \in Seq(Seq(Byte)) /\ Part(l[k], typ) \in Seq(Seq(Byte))
      BY <1>1, <2>1, ElementOfSeq, PartType
    <2>4. P[k] = << >> <=> P[k - 1] = << >> /\ Part(l[k], typ) = << >>
      BY <2>2, <2>3, ConcatEqualIffEmpty
    <2>5. \A i \in 1..k : i = k \/ i \in 1..(k - 1)
      OBVIOUS
    <2>6. k \in 1..k /\ \A i \in 1..(k - 1) : i \in 1..k
      OBVIOUS
    <2>7. P[k] = << >> <=> \A i \in 1..k : Part(l[i], typ) = << >>
      BY <2>1, <2>4, <2>5, <2>6, Zenon
    <2> QED
      BY <2>1, <2>7
  <1>5. n \in T
    <2>1. n \in 0..n
      OBVIOUS
    <2> HIDE DEF T
    <2> QED
      BY <1>3, <1>4, <2>1, FromRoundToRound
  <1> QED
    BY <1>1, <1>2, <1>5

-----------------------------------------------------------------------------
(* The attributes the program writes: one sub-attribute, whose length is the *)
(* whole. *)
Filled(data) == data \in Seq(Byte) /\ Len(data) \in 2..249 /\ data[2] = Len(data)

\* It holds a value of the type.
Holds(data, typ) == Len(data) > 2 /\ data[1] = typ

\* A loop is done after one round, from s to t.
Settles(n, s, t, A) == A[0] = s /\ \A k \in 1..n : A[k - 1] \in {s, t} => A[k] = t

LEMMA OneRound ==
  ASSUME NEW n \in Nat \ {0}, NEW s, NEW t, NEW A, Settles(n, s, t, A)
  PROVE  \A k \in 1..n : A[k] = t
  <1> DEFINE T == {k \in 0..n : A[k] \in {s, t}}
  <1>1. 0 \in T
    BY DEF Settles
  <1>2. ASSUME NEW k \in 1..n, k - 1 \in T PROVE k \in T
    BY <1>2 DEF Settles
  <1>3. \A k \in 0..n : k \in T
    <2> HIDE DEF T
    <2> QED
      BY <1>1, <1>2, FromRoundToRound
  <1>4. \A k \in 1..n : k - 1 \in T
    BY <1>3
  <1> QED
    BY <1>4 DEF Settles

LEMMA FilledFacts ==
  ASSUME NEW data, Filled(data)
  PROVE  /\ data \in Seq(Byte) /\ Len(data) \in Nat \ {0, 1} /\ data[1] \in Byte
         /\ data[2] = Len(data) /\ Len(data) <= 249
         /\ Len(data) = 2 => Over(data, 0)
         /\ Len(data) # 2 => ~Over(data, 0) /\ Whole(data, 0)
         /\ Len(data) = 2 => ~Whole(data, 0)
         /\ ~Whole(data, Len(data))
  <1>1. data \in Seq(Byte) /\ Len(data) \in 2..249 /\ data[2] = Len(data)
    BY DEF Filled
  <1>2. data[1] \in Byte
    BY <1>1, ElementOfSeq
  <1>3. PICK n \in 2..249 : n = Len(data) /\ data[0 + 2] = n
    <2>1. 0 + 2 = 2
      OBVIOUS
    <2> QED
      BY <1>1, <2>1
  <1>4. (n = 2 => Over(data, 0)) /\ (n # 2 => ~Over(data, 0)) /\ Over(data, n)
    <2>1. Over(data, 0) = (3 > n)
      BY <1>3 DEF Over
    <2>2. Over(data, n) = (n + 3 > n)
      BY <1>3 DEF Over
    <2>3. (n = 2 => 3 > n) /\ (n # 2 => ~(3 > n)) /\ n + 3 > n
      OBVIOUS
    <2> QED
      BY <2>1, <2>2, <2>3
  <1>5. n # 2 => Whole(data, 0)
    BY <1>3, <1>4 DEF Whole
  <1>6. (n = 2 => ~Whole(data, 0)) /\ ~Whole(data, n)
    BY <1>4 DEF Whole
  <1>7. Len(data) \in Nat \ {0, 1} /\ Len(data) <= 249
    <2>1. n \in Nat \ {0, 1} /\ n <= 249
      OBVIOUS
    <2> QED
      BY <1>3, <2>1, Zenon
  <1> QED
    BY <1>1, <1>2, <1>3, <1>4, <1>5, <1>6, <1>7, Zenon

LEMMA OverTheEnd ==
  ASSUME NEW d, NEW at \in Nat, Len(d) \in Nat, at >= Len(d)
  PROVE  Over(d, at)
  BY DEF Over

LEMMA FilledValues ==
  ASSUME NEW data, Filled(data), NEW typ
  PROVE  ValuesIn(data, typ) = IF Holds(data, typ) THEN <<SubSeq(data, 3, Len(data))>> ELSE << >>
  <1>1. data \in Seq(Byte) /\ Len(data) \in Nat \ {0, 1}
    BY FilledFacts
  <1>2. PICK n \in Nat \ {0} : n = Len(data)
    BY <1>1
  <1>3. PICK A \in [0..n -> Readers(data)] :
            /\ A[0] = AtFirst
            /\ \A k \in 1..n : A[k] = ValuesRound(data, typ, A[k - 1])
            /\ ValuesIn(data, typ) = A[n].found
    BY <1>1, <1>2, ValuesRuns
  <1>4. AtFirst.at = 0 /\ AtFirst.found = << >>
    BY DEF AtFirst
  <1>5. CASE Len(data) = 2
    <2>1. ValuesRound(data, typ, AtFirst) = AtFirst
      BY <1>4, <1>5, FilledFacts DEF ValuesRound
    <2>2. \A k \in 1..n : A[k] = AtFirst
      <3>1. \A k \in 1..n : A[k - 1] \in {AtFirst, AtFirst} => A[k] = AtFirst
        BY <1>3, <2>1
      <3>2. Settles(n, AtFirst, AtFirst, A)
        BY <1>3, <3>1 DEF Settles
      <3> QED
        BY <3>2, OneRound
    <2> QED
      BY <1>2, <1>3, <1>4, <1>5, <2>2 DEF Holds
  <1>6. CASE Len(data) # 2
    <2>1. PICK t : t = Past(data, typ, AtFirst)
      OBVIOUS
    <2>2. /\ t.at = n
          /\ t.found = IF data[1] = typ THEN <<SubSeq(data, 3, n)>> ELSE << >>
      <3>1. data[0 + 2] = n /\ 0 + data[0 + 2] = n /\ 0 + 1 = 1 /\ 0 + 3 = 3
        BY <1>2, FilledFacts
      <3>2. ValueAt(data, 0) = SubSeq(data, 3, n)
        BY <3>1 DEF ValueAt
      <3>3. Append(<< >>, ValueAt(data, 0)) = <<SubSeq(data, 3, n)>>
        BY <3>2
      <3>4. t.at = n
        BY <1>4, <2>1, <3>1 DEF Past
      <3>5. t.found = IF data[1] = typ THEN Append(<< >>, ValueAt(data, 0)) ELSE << >>
        BY <1>4, <2>1, <3>1, Zenon DEF Past
      <3> QED
        BY <3>3, <3>4, <3>5
    <2>3. ValuesRound(data, typ, AtFirst) = t
      BY <1>1, <1>4, <1>6, <2>1, FilledFacts DEF ValuesRound
    <2>4. ValuesRound(data, typ, t) = t
      BY <1>2, <2>2, FilledFacts DEF ValuesRound
    <2>5. \A k \in 1..n : A[k] = t
      <3>1. \A k \in 1..n : A[k - 1] \in {AtFirst, t} => A[k] = t
        BY <1>3, <2>3, <2>4
      <3>2. Settles(n, AtFirst, t, A)
        BY <1>3, <3>1 DEF Settles
      <3> QED
        BY <3>2, OneRound
    <2>6. A[n] = t
      BY <2>5
    <2>7. Len(data) > 2
      BY <1>1, <1>6
    <2> QED
      BY <1>2, <1>3, <2>2, <2>6, <2>7 DEF Holds
  <1> QED
    BY <1>5, <1>6

(* SetVendor's inner loop leaves what the program wrote, or it panics. *)
LEMMA FilledStrip ==
  ASSUME NEW data, Filled(data), NEW typ
  PROVE  IF Holds(data, typ) THEN StripIn(data, typ).status = "panic"
         ELSE StripIn(data, typ) = [status |-> "ok", data |-> data, skip |-> 0]
  <1>1. data \in Seq(Byte) /\ Len(data) \in Nat \ {0, 1} /\ data[2] = Len(data)
    BY FilledFacts
  <1>2. PICK n \in Nat \ {0} : n = Len(data) /\ n # 1
    BY <1>1
  <1> DEFINE Round(s) == StripRound(typ, s)
  <1>3. PICK s : s = [data |-> data, j |-> 0]
    OBVIOUS
  <1>4. PICK t : t = IF n = 2 THEN s ELSE [data |-> IF data[1] = typ THEN << >> ELSE data, j |-> n]
    OBVIOUS
  <1>5. s.data = data /\ s.j = 0
    BY <1>3
  <1>6. Round(s) = t
    <2>1. CASE n = 2
      <3>1. Over(s.data, s.j)
        BY <1>2, <1>5, <2>1, FilledFacts
      <3> QED
        BY <1>4, <2>1, <3>1 DEF StripRound
    <2>2. CASE n # 2
      <3>1. ~Over(s.data, s.j) /\ ~(s.data[2] < 3) /\ ~(s.j + s.data[2] > Len(s.data))
        <4>1. ~Over(data, 0)
          BY <1>2, <2>2, FilledFacts
        <4>2. data[2] = n /\ ~(n < 3) /\ ~(0 + n > n)
          BY <1>1, <1>2, <2>2
        <4> QED
          BY <1>2, <1>5, <4>1, <4>2
      <3>2. s.j + s.data[2] = n
        BY <1>1, <1>2, <1>5
      <3>3. SubSeq(data, 1, 0) \o From(data, n + 1) = << >>
        <4>1. SubSeq(data, 1, 0) = << >> /\ SubSeq(data, n + 1, n) = << >>
          BY SubSeqEmpty
        <4>2. << >> \in Seq(Byte)
          BY EmptySeq
        <4> QED
          BY <1>2, <4>1, <4>2, ConcatEmptySeq DEF From
      <3>4. Round(s) = [data |-> IF s.data[1] = typ THEN SubSeq(s.data, 1, s.j) \o From(s.data, s.j + s.data[2] + 1)
                                 ELSE s.data,
                        j |-> s.j + s.data[2]]
        BY <3>1, Zenon DEF StripRound
      <3>5. SubSeq(s.data, 1, s.j) \o From(s.data, s.j + s.data[2] + 1) = << >>
        BY <1>5, <3>2, <3>3
      <3> QED
        BY <1>4, <1>5, <2>2, <3>2, <3>4, <3>5
    <2> QED
      BY <2>1, <2>2
  <1>7. Over(t.data, t.j) /\ Round(t) = t
    <2>1. CASE n = 2
      <3>1. t = s /\ Over(s.data, s.j)
        BY <1>2, <1>4, <1>5, <2>1, FilledFacts
      <3> QED
        BY <3>1 DEF StripRound
    <2>2. CASE n # 2
      <3>1. t.j = n /\ (t.data = << >> \/ t.data = data)
        BY <1>4, <2>2
      <3>2. Len(t.data) \in Nat /\ t.j \in Nat /\ t.j >= Len(t.data)
        BY <1>2, <3>1
      <3>3. Over(t.data, t.j)
        BY <3>2, OverTheEnd
      <3> QED
        BY <3>3 DEF StripRound
    <2> QED
      BY <2>1, <2>2
  <1> DEFINE Is(f) == f = [k \in 0..n |-> IF k = 0 THEN s ELSE Round(f[k - 1])]
  <1>8. PICK A : A = CHOOSE f : Is(f)
    OBVIOUS
  <1>9. PICK end : end = A[CHOOSE k \in 0..n : Round(A[k]) = A[k]]
    OBVIOUS
  <1>10. StripIn(data, typ) = [status |-> IF end.j > Len(end.data) THEN "panic" ELSE "ok",
                               data   |-> end.data,
                               skip   |-> IF Over(end.data, end.j) THEN 0 ELSE 1]
    BY <1>2, <1>3, <1>8, <1>9 DEF StripIn, Until, After
  <1> HIDE DEF Round
  <1>11. Is(A)
    <2>1. Is([k \in 0..n |-> IF k = 0 THEN s ELSE t])
      <3>1. PICK f : f = [k \in 0..n |-> IF k = 0 THEN s ELSE t]
        OBVIOUS
      <3>2. \A k \in 0..n : f[k] = IF k = 0 THEN s ELSE Round(f[k - 1])
        BY <1>6, <1>7, <3>1
      <3> QED
        BY <3>1, <3>2
    <2> HIDE DEF Is
    <2> QED
      BY <1>8, <2>1
  <1>12. A[0] = s /\ \A k \in 1..n : A[k] = Round(A[k - 1])
    BY <1>11
  <1>13. \A k \in 1..n : A[k] = t
    <2>1. \A k \in 1..n : A[k - 1] \in {s, t} => A[k] = t
      BY <1>6, <1>7, <1>12
    <2>2. Settles(n, s, t, A)
      BY <1>12, <2>1 DEF Settles
    <2> QED
      BY <2>2, OneRound
  <1>14. end = t
    <2>1. Round(A[1]) = A[1] /\ 1 \in 0..n
      BY <1>7, <1>13
    <2>2. PICK m \in 0..n : m = (CHOOSE k \in 0..n : Round(A[k]) = A[k]) /\ Round(A[m]) = A[m]
      BY <2>1
    <2>3. A[m] = t
      BY <1>6, <1>12, <1>13, <2>2
    <2> QED
      BY <1>9, <2>2, <2>3
  <1>15. CASE n = 2
    <2>1. t.data = data /\ t.j = 0 /\ ~(0 > Len(data))
      BY <1>1, <1>4, <1>5, <1>15
    <2>2. ~Holds(data, typ)
      BY <1>2, <1>15 DEF Holds
    <2> QED
      BY <1>7, <1>10, <1>14, <2>1, <2>2
  <1>16. CASE n # 2 /\ data[1] = typ
    <2>1. t.data = << >> /\ t.j = n /\ n > Len(<< >>)
      BY <1>4, <1>16
    <2>2. Holds(data, typ)
      BY <1>2, <1>16 DEF Holds
    <2> QED
      BY <1>10, <1>14, <2>1, <2>2
  <1>17. CASE n # 2 /\ data[1] # typ
    <2>1. t.data = data /\ t.j = n /\ ~(n > Len(data))
      BY <1>2, <1>4, <1>17
    <2>2. ~Holds(data, typ)
      BY <1>17 DEF Holds
    <2> QED
      BY <1>7, <1>10, <1>14, <2>1, <2>2
  <1> QED
    BY <1>15, <1>16, <1>17

(* DelVendor's inner loop ends at the start of an attribute that holds nothing *)
(* else, and past it otherwise. *)
LEMMA FilledCut ==
  ASSUME NEW data, Filled(data), NEW typ
  PROVE  CutIn(data, typ) = [status |-> "ok",
                             offset |-> IF Len(data) = 2 \/ data[1] = typ THEN 0 ELSE Len(data)]
  <1>1. data \in Seq(Byte) /\ Len(data) \in Nat \ {0, 1} /\ data[2] = Len(data)
    BY FilledFacts
  <1>2. PICK n \in Nat \ {0} : n = Len(data) /\ n # 1
    BY <1>1
  <1> DEFINE Round(s) == CutRound(typ, s)
  <1>3. PICK s : s = [data |-> data, offset |-> 0]
    OBVIOUS
  <1>4. PICK t : t = IF n = 2 THEN s
                     ELSE IF data[1] = typ THEN [data |-> << >>, offset |-> 0]
                     ELSE [data |-> data, offset |-> n]
    OBVIOUS
  <1>5. s.data = data /\ s.offset = 0
    BY <1>3
  <1>6. Round(s) = t
    <2>1. CASE n = 2
      <3>1. Over(s.data, s.offset)
        BY <1>2, <1>5, <2>1, FilledFacts
      <3> QED
        BY <1>4, <2>1, <3>1 DEF CutRound
    <2>2. CASE n # 2
      <3>1. s.offset + 2 = 2 /\ s.offset + 1 = 1
        BY <1>5
      <3>2. s.data[s.offset + 2] = n /\ s.data[s.offset + 1] = data[1]
        BY <1>1, <1>2, <1>5, <3>1
      <3>3. ~Over(s.data, s.offset)
        BY <1>2, <1>5, <2>2, FilledFacts
      <3>4. s.data[s.offset + 2] \in 3..Len(s.data)
        BY <1>2, <1>5, <2>2, <3>2
      <3>5. s.offset + n = n /\ ~(n > Len(s.data)) /\ s.offset + n + 1 = n + 1
        BY <1>2, <1>5
      <3>6. CASE data[1] # typ
        <4>1. Round(s) = [data |-> s.data, offset |-> s.offset + s.data[s.offset + 2]]
          BY <3>2, <3>3, <3>4, <3>6, Zenon DEF CutRound
        <4> QED
          BY <1>4, <1>5, <2>2, <3>2, <3>5, <3>6, <4>1
      <3>7. CASE data[1] = typ
        <4>1. ~(s.data[s.offset + 1] # typ) /\ ~(s.offset + s.data[s.offset + 2] > Len(s.data))
          BY <3>2, <3>5, <3>7
        <4>2. Round(s) = [data |-> SubSeq(s.data, 1, s.offset) \o From(s.data, s.offset + s.data[s.offset + 2] + 1),
                          offset |-> s.offset]
          BY <3>3, <3>4, <4>1, Zenon DEF CutRound
        <4>3. SubSeq(s.data, 1, s.offset) \o From(s.data, s.offset + s.data[s.offset + 2] + 1) = << >>
          <5>1. SubSeq(data, 1, 0) = << >> /\ SubSeq(data, n + 1, n) = << >>
            BY SubSeqEmpty
          <5>2. << >> \in Seq(Byte)
            BY EmptySeq
          <5>3. << >> \o << >> = << >>
            BY <5>2, ConcatEmptySeq
          <5>4. SubSeq(s.data, 1, s.offset) = << >>
            BY <1>5, <5>1
          <5>5. From(s.data, s.offset + s.data[s.offset + 2] + 1) = << >>
            BY <1>2, <1>5, <3>2, <3>5, <5>1 DEF From
          <5> QED
            BY <5>3, <5>4, <5>5, Zenon
        <4> QED
          BY <1>4, <1>5, <2>2, <3>7, <4>2, <4>3
      <3> QED
        BY <3>6, <3>7
    <2> QED
      BY <2>1, <2>2
  <1>7. Over(t.data, t.offset) /\ Round(t) = t
    <2>1. CASE n = 2
      <3>1. t = s /\ Over(s.data, s.offset)
        BY <1>2, <1>4, <1>5, <2>1, FilledFacts
      <3> QED
        BY <3>1 DEF CutRound
    <2>2. CASE n # 2
      <3>1. Len(t.data) \in Nat /\ t.offset \in Nat /\ t.offset >= Len(t.data)
        BY <1>2, <1>4, <2>2
      <3>2. Over(t.data, t.offset)
        BY <3>1, OverTheEnd
      <3> QED
        BY <3>2 DEF CutRound
    <2> QED
      BY <2>1, <2>2
  <1> DEFINE Is(f) == f = [k \in 0..n |-> IF k = 0 THEN s ELSE Round(f[k - 1])]
  <1>8. PICK A : A = CHOOSE f : Is(f)
    OBVIOUS
  <1>9. PICK end : end = A[CHOOSE k \in 0..n : Round(A[k]) = A[k]]
    OBVIOUS
  <1>10. CutIn(data, typ) = [status |-> IF end.offset > Len(end.data) THEN "panic"
                                        ELSE IF Over(end.data, end.offset) THEN "ok"
                                        ELSE IF end.data[end.offset + 2] \in 3..Len(end.data) THEN "panic" ELSE "hang",
                             offset |-> end.offset]
    BY <1>2, <1>3, <1>8, <1>9 DEF CutIn, Until, After
  <1> HIDE DEF Round
  <1>11. Is(A)
    <2>1. Is([k \in 0..n |-> IF k = 0 THEN s ELSE t])
      <3>1. PICK f : f = [k \in 0..n |-> IF k = 0 THEN s ELSE t]
        OBVIOUS
      <3>2. \A k \in 0..n : f[k] = IF k = 0 THEN s ELSE Round(f[k - 1])
        BY <1>6, <1>7, <3>1
      <3> QED
        BY <3>1, <3>2
    <2> HIDE DEF Is
    <2> QED
      BY <1>8, <2>1
  <1>12. A[0] = s /\ \A k \in 1..n : A[k] = Round(A[k - 1])
    BY <1>11
  <1>13. \A k \in 1..n : A[k] = t
    <2>1. \A k \in 1..n : A[k - 1] \in {s, t} => A[k] = t
      BY <1>6, <1>7, <1>12
    <2>2. Settles(n, s, t, A)
      BY <1>12, <2>1 DEF Settles
    <2> QED
      BY <2>2, OneRound
  <1>14. end = t
    <2>1. Round(A[1]) = A[1] /\ 1 \in 0..n
      BY <1>7, <1>13
    <2>2. PICK m \in 0..n : m = (CHOOSE k \in 0..n : Round(A[k]) = A[k]) /\ Round(A[m]) = A[m]
      BY <2>1
    <2>3. A[m] = t
      BY <1>6, <1>12, <1>13, <2>2
    <2> QED
      BY <1>9, <2>2, <2>3
  <1>15. t.offset = IF n = 2 \/ data[1] = typ THEN 0 ELSE n
    BY <1>4, <1>5
  <1>16. ~(t.offset > Len(t.data))
    <2>1. CASE n = 2
      BY <1>2, <1>4, <1>5, <2>1
    <2>2. CASE n # 2
      BY <1>2, <1>4, <2>2
    <2> QED
      BY <2>1, <2>2
  <1>17. CutIn(data, typ) = [status |-> "ok", offset |-> t.offset]
    BY <1>7, <1>10, <1>14, <1>16
  <1> QED
    BY <1>2, <1>15, <1>17

\* A list of attributes the program wrote.
Built(l) == l \in Seq(Vsa) /\ \A i \in 1..Len(l) : Filled(l[i].data)

LEMMA BuiltPart ==
  ASSUME NEW l, Built(l), NEW i \in 1..Len(l), NEW typ
  PROVE  /\ l[i] \in Vsa /\ Filled(l[i].data)
         /\ l[i].vendor # Redback => ~Ours(l[i])
         /\ l[i].vendor = Redback => Ours(l[i])
         /\ ~Ours(l[i]) \/ ~Holds(l[i].data, typ) => Part(l[i], typ) = << >>
         /\ Ours(l[i]) /\ Holds(l[i].data, typ) =>
               Part(l[i], typ) = <<SubSeq(l[i].data, 3, Len(l[i].data))>> /\ Part(l[i], typ) # << >>
  <1>1. l[i] \in Vsa /\ Filled(l[i].data)
    BY ElementOfSeq DEF Built
  <1>2. PICK d : d = l[i].data
    OBVIOUS
  <1>3. d # << >>
    BY <1>1, <1>2, FilledFacts
  <1>4. Ours(l[i]) = (l[i].vendor = Redback)
    BY <1>2, <1>3 DEF Ours
  <1>5. ValuesIn(d, typ) = IF Holds(d, typ) THEN <<SubSeq(d, 3, Len(d))>> ELSE << >>
    BY <1>1, <1>2, FilledValues
  <1>6. ~Ours(l[i]) \/ ~Holds(d, typ) => Part(l[i], typ) = << >>
    BY <1>2, <1>5 DEF Part
  <1>7. Ours(l[i]) /\ Holds(d, typ) => Part(l[i], typ) = <<SubSeq(d, 3, Len(d))>>
    BY <1>2, <1>5 DEF Part
  <1> QED
    BY <1>1, <1>2, <1>4, <1>6, <1>7, OneIsSome

(* SetVendor panics when there is a value to replace, and adds one otherwise. *)
LEMMA BuiltSet ==
  ASSUME NEW l, Built(l), NEW typ, NEW value
  PROVE  SetVendor(l, typ, value) =
            IF GetsVendor(l, typ) = << >> THEN AddVendor(l, Redback, typ, value)
            ELSE [status |-> "panic", list |-> l]
  <1>1. PICK n \in Nat : n = Len(l) /\ l \in Seq(Vsa)
    BY LenProperties DEF Built
  <1>2. PICK R : R = [status : {"ok", "panic"}, list : {l}, i : Nat \ {0}]
    OBVIOUS
  <1> DEFINE Round(s) == SetRound(typ, s)
             start == EditFrom(l)
             Is(f) == f = [k \in 0..n |-> IF k = 0 THEN start ELSE Round(f[k - 1])]
             Empty(i) == Part(l[i], typ) = << >>
  <1>3. PICK A : A = CHOOSE f : Is(f)
    OBVIOUS
  <1>4. PICK end : end = A[n]
    OBVIOUS
  <1>5. SetVendor(l, typ, value) =
            IF end.status = "ok" THEN AddVendor(end.list, Redback, typ, value)
            ELSE [status |-> end.status, list |-> end.list]
    BY <1>1, <1>3, <1>4 DEF SetVendor, Through, After
  <1>6. ASSUME NEW s \in R
        PROVE  /\ ~(s.status = "ok" /\ s.i <= n) => Round(s) = s
               /\ s.status = "ok" /\ s.i <= n =>
                     Round(s) = IF Empty(s.i) THEN [status |-> "ok", list |-> l, i |-> s.i + 1]
                                ELSE [status |-> "panic", list |-> l, i |-> s.i]
    <2>1. s.status \in {"ok", "panic"} /\ s.list = l /\ s.i \in Nat \ {0}
      BY <1>2
    <2>2. CASE ~(s.status = "ok" /\ s.i <= n)
      <3>1. s.status # "ok" \/ s.i > Len(s.list)
        BY <1>1, <2>1, <2>2
      <3>2. Round(s) = s
        BY <3>1, Zenon DEF SetRound
      <3> QED
        BY <2>2, <3>2
    <2>3. CASE s.status = "ok" /\ s.i <= n
      <3>1. PICK i \in 1..Len(l) : i = s.i
        BY <1>1, <2>1, <2>3
      <3>2. PICK x \in Vsa : x = l[i] /\ Filled(x.data)
        BY BuiltPart
      <3>3. ~(s.status # "ok" \/ s.i > Len(s.list))
        BY <1>1, <2>1, <2>3
      <3>4. PICK stripped : stripped = StripIn(s.list[s.i].data, typ)
        OBVIOUS
      <3>5. stripped = StripIn(x.data, typ)
        BY <2>1, <3>1, <3>2, <3>4
      <3>6. Round(s) = IF ~Ours(x) THEN [status |-> "ok", list |-> s.list, i |-> s.i + 1]
                       ELSE IF stripped.status = "panic" \/ s.i + stripped.skip > Len(s.list) THEN Leaves(s, "panic")
                       ELSE [status |-> "ok",
                             list   |-> [s.list EXCEPT ![s.i + stripped.skip] =
                                            [vendor |-> @.vendor, data |-> Overlay(@.data, stripped.data)]],
                             i      |-> s.i + stripped.skip + 1]
        BY <2>1, <3>1, <3>2, <3>3, <3>4, Zenon DEF SetRound
      <3> HIDE DEF Round
      <3>7. CASE ~Ours(x)
        <4>1. Empty(i)
          BY <3>2, <3>7, BuiltPart
        <4> QED
          BY <2>1, <2>3, <3>1, <3>6, <3>7, <4>1
      <3>8. CASE Ours(x) /\ Holds(x.data, typ)
        <4>1. ~Empty(i)
          BY <3>2, <3>8, BuiltPart
        <4>2. stripped.status = "panic"
          BY <3>2, <3>5, <3>8, FilledStrip
        <4> QED
          BY <2>1, <2>3, <3>1, <3>6, <3>8, <4>1, <4>2 DEF Leaves
      <3>9. CASE Ours(x) /\ ~Holds(x.data, typ)
        <4>1. Empty(i)
          BY <3>2, <3>9, BuiltPart
        <4>2. stripped = [status |-> "ok", data |-> x.data, skip |-> 0]
          BY <3>2, <3>5, <3>9, FilledStrip
        <4>3. Overlay(x.data, x.data) = x.data
          <5>1. PICK d \in Seq(Byte) : d = x.data
            BY <3>2, FilledFacts
          <5>2. SubSeq(d, Len(d) + 1, Len(d)) = << >>
            BY LenProperties, SubSeqEmpty
          <5>3. d \o << >> = d
            BY ConcatEmptySeq
          <5>4. SubSeq(d, 1, Len(d)) = d
            BY SubSeqFull
          <5> QED
            BY <5>1, <5>2, <5>3, <5>4 DEF Overlay, From
        <4>4. [vendor |-> x.vendor, data |-> x.data] = x
          BY DEF Vsa
        <4>5. [l EXCEPT ![i] = x] = l
          BY <1>1, <3>2
        <4>6. s.i + stripped.skip = s.i /\ ~(s.i > Len(s.list)) /\ stripped.status = "ok"
          BY <2>1, <3>1, <4>2
        <4>7. [s.list EXCEPT ![s.i] = [vendor |-> @.vendor, data |-> Overlay(@.data, stripped.data)]]
                 = [l EXCEPT ![i] = [vendor |-> x.vendor, data |-> Overlay(x.data, x.data)]]
          BY <2>1, <3>1, <3>2, <4>2
        <4>8. [s.list EXCEPT ![s.i] = [vendor |-> @.vendor, data |-> Overlay(@.data, stripped.data)]] = l
          BY <4>3, <4>4, <4>5, <4>7
        <4>9. Round(s) = [status |-> "ok", list |-> l, i |-> s.i + 1]
          BY <3>6, <3>9, <4>6, <4>8
        <4> QED
          BY <2>3, <3>1, <4>1, <4>9
      <3> QED
        BY <3>7, <3>8, <3>9
    <2> QED
      BY <2>2, <2>3
  <1> HIDE DEF Round, Empty
  <1>7. \A s \in R : Round(s) \in R
    <2> SUFFICES ASSUME NEW s \in R PROVE Round(s) \in R
      OBVIOUS
    <2>1. s.i + 1 \in Nat \ {0} /\ s.i \in Nat \ {0}
      BY <1>2
    <2> QED
      BY <1>2, <1>6, <2>1
  <1>8. PICK body \in [R -> R] : \A s \in R : body[s] = Round(s)
    <2>1. [s \in R |-> Round(s)] \in [R -> R]
      BY <1>7
    <2> QED
      BY <2>1
  <1>9. start \in R
    BY <1>2 DEF EditFrom
  <1>10. start.status = "ok" /\ start.i = 1
    BY DEF EditFrom
  <1> HIDE DEF start
  <1>11. \E f : Is(f)
    <2>1. PICK f : f = Run(body, start, n)
      OBVIOUS
    <2>2. f \in [0..n -> R] /\ f[0] = start /\ Turns(body, n, f)
      BY <1>9, <2>1, LoopRuns
    <2>3. \A k \in 0..n : f[k] = IF k = 0 THEN start ELSE Round(f[k - 1])
      BY <1>8, <2>2 DEF Turns
    <2> QED
      BY <2>2, <2>3
  <1>12. Is(A)
    <2> HIDE DEF Is
    <2> QED
      BY <1>3, <1>11
  <1>13. A[0] = start /\ \A k \in 1..n : A[k] = Round(A[k - 1])
    BY <1>12
  <1>14. (\A k \in 0..n : A[k] \in R) /\ Turns(body, n, A)
    <2>1. \A k \in 1..n : A[k - 1] \in R => A[k] = body[A[k - 1]]
      BY <1>8, <1>13
    <2>2. A[0] \in R
      BY <1>9, <1>13
    <2> QED
      BY <2>1, <2>2, LoopStates
  <1> DEFINE Told(k) == /\ A[k].status = "ok" => A[k].i = k + 1 /\ \A i \in 1..k : Empty(i)
                        /\ A[k].status # "ok" => \E i \in 1..n : ~Empty(i)
             T == {k \in 0..n : Told(k)}
  <1>15. 0 \in T
    BY <1>10, <1>13
  <1>16. ASSUME NEW k \in 1..n, k - 1 \in T PROVE k \in T
    <2>1. k - 1 \in 0..n /\ k \in 0..n /\ Told(k - 1)
      BY <1>16
    <2>2. PICK s \in R : s = A[k - 1] /\ A[k] = Round(s)
      BY <1>13, <1>14, <2>1
    <2>3. Told(k)
      <3>1. CASE s.status # "ok"
        <4>1. A[k] = s
          BY <1>6, <2>2, <3>1
        <4> QED
          BY <2>1, <2>2, <3>1, <4>1
      <3>2. CASE s.status = "ok"
        <4>1. s.i = k /\ s.i <= n /\ \A i \in 1..(k - 1) : Empty(i)
          BY <2>1, <2>2, <3>2
        <4>2. CASE Empty(k)
          <5>1. A[k].status = "ok" /\ A[k].i = k + 1
            BY <1>6, <2>2, <3>2, <4>1, <4>2
          <5>2. \A i \in 1..k : i = k \/ i \in 1..(k - 1)
            OBVIOUS
          <5>3. \A i \in 1..k : Empty(i)
            BY <4>1, <4>2, <5>2
          <5> QED
            BY <5>1, <5>3
        <4>3. CASE ~Empty(k)
          <5>1. A[k].status = "panic"
            BY <1>6, <2>2, <3>2, <4>1, <4>3
          <5> QED
            BY <4>3, <5>1
        <4> QED
          BY <4>2, <4>3
      <3> QED
        BY <3>1, <3>2
    <2> QED
      BY <2>1, <2>3
  <1>17. Told(n)
    <2>1. n \in 0..n
      OBVIOUS
    <2>2. n \in T
      <3> HIDE DEF T
      <3> QED
        BY <1>15, <1>16, <2>1, FromRoundToRound
    <2> HIDE DEF Told
    <2> QED
      BY <2>2
  <1>18. GetsVendor(l, typ) = << >> <=> \A i \in 1..n : Empty(i)
    BY <1>1, GetsNothing DEF Empty
  <1>19. end \in R
    BY <1>4, <1>14
  <1>20. end.status = "ok" <=> GetsVendor(l, typ) = << >>
    BY <1>4, <1>17, <1>18
  <1>21. end.list = l /\ (end.status # "ok" => end.status = "panic")
    BY <1>2, <1>19
  <1> QED
    BY <1>5, <1>20, <1>21

\* Every attribute of the list is Redback's.
AllOurs(l) == \A i \in 1..Len(l) : l[i].vendor = Redback

LEMMA BuiltRemoval ==
  ASSUME NEW l, Built(l), NEW i \in 1..Len(l)
  PROVE  /\ Built(RemoveAt(l, i)) /\ Len(RemoveAt(l, i)) = Len(l) - 1
         /\ \A k \in 1..(i - 1) : RemoveAt(l, i)[k] = l[k]
         /\ AllOurs(l) => AllOurs(RemoveAt(l, i))
         /\ l[i].vendor = Redback /\ AllOurs(RemoveAt(l, i)) => AllOurs(l)
  <1>1. PICK n \in Nat : n = Len(l) /\ l \in Seq(Vsa)
    BY LenProperties DEF Built
  <1>2. PICK m \in Seq(Vsa) : /\ m = RemoveAt(l, i) /\ Len(m) = n - 1
                              /\ \A k \in 1..(n - 1) : m[k] = IF k < i THEN l[k] ELSE l[k + 1]
    BY <1>1, RemoveAtProperties
  <1>3. \A k \in 1..(n - 1) : \E j \in 1..n : m[k] = l[j]
    <2> SUFFICES ASSUME NEW k \in 1..(n - 1) PROVE \E j \in 1..n : m[k] = l[j]
      OBVIOUS
    <2>1. k \in 1..n /\ k + 1 \in 1..n /\ (m[k] = l[k] \/ m[k] = l[k + 1])
      BY <1>2
    <2> QED
      BY <2>1
  <1>4. \A k \in 1..(n - 1) : Filled(m[k].data)
    BY <1>1, <1>3 DEF Built
  <1>5. AllOurs(l) => \A k \in 1..(n - 1) : m[k].vendor = Redback
    BY <1>1, <1>3 DEF AllOurs
  <1>6. \A k \in 1..(i - 1) : m[k] = l[k]
    BY <1>1, <1>2
  <1>7. \A j \in 1..n : j = i \/ \E k \in 1..(n - 1) : m[k] = l[j]
    <2> SUFFICES ASSUME NEW j \in 1..n, j # i PROVE \E k \in 1..(n - 1) : m[k] = l[j]
      OBVIOUS
    <2>1. CASE j < i
      <3>1. j \in 1..(n - 1) /\ m[j] = l[j]
        BY <1>1, <1>2, <2>1
      <3> QED
        BY <3>1
    <2>2. CASE j > i
      <3>1. j - 1 \in 1..(n - 1) /\ ~(j - 1 < i) /\ (j - 1) + 1 = j
        BY <1>1, <2>2
      <3>2. m[j - 1] = l[j]
        BY <1>2, <3>1
      <3> QED
        BY <3>1, <3>2
    <2> QED
      BY <1>1, <2>1, <2>2
  <1>8. ASSUME l[i].vendor = Redback, AllOurs(m) PROVE AllOurs(l)
    <2>1. \A k \in 1..(n - 1) : m[k].vendor = Redback
      BY <1>2, <1>8 DEF AllOurs
    <2>2. \A j \in 1..n : l[j].vendor = Redback
      BY <1>7, <1>8, <2>1
    <2> QED
      BY <1>1, <2>2 DEF AllOurs
  <1> QED
    BY <1>1, <1>2, <1>4, <1>5, <1>6, <1>8 DEF Built, AllOurs

(* DelVendor removes what there is of a type and nothing of another, unless it *)
(* hangs at a foreign attribute, and it hangs at any. *)
LEMMA BuiltDel ==
  ASSUME NEW l, Built(l), NEW typ, NEW r, r = DelVendor(l, typ)
  PROVE  /\ r.status \in {"ok", "hang"} /\ Built(r.list)
         /\ r.status = "ok" => /\ GetsVendor(r.list, typ) = << >>
                               /\ \A u : u # typ => GetsVendor(r.list, u) = GetsVendor(l, u)
         /\ AllOurs(l) <=> r.status = "ok"
  <1>1. PICK n \in Nat : n = Len(l) /\ l \in Seq(Vsa)
    BY LenProperties DEF Built
  <1>2. PICK R : R = [status : {"ok", "hang"}, list : {m \in Seq(Vsa) : Built(m)}, i : Nat \ {0}]
    OBVIOUS
  <1> DEFINE Round(s) == DelRound(typ, s)
             start == EditFrom(l)
             Is(f) == f = [k \in 0..n |-> IF k = 0 THEN start ELSE Round(f[k - 1])]
  <1>3. PICK A : A = CHOOSE f : Is(f)
    OBVIOUS
  <1>4. PICK end : end = A[n]
    OBVIOUS
  <1>5. r = [status |-> end.status, list |-> end.list]
    BY <1>1, <1>3, <1>4 DEF DelVendor, Through, After
  <1>6. ASSUME NEW s \in R
        PROVE  /\ ~(s.status = "ok" /\ s.i <= Len(s.list)) => Round(s) = s
               /\ s.status = "ok" /\ s.i <= Len(s.list) =>
                     \/ ~Ours(s.list[s.i]) /\ Round(s) = [status |-> "hang", list |-> s.list, i |-> s.i]
                     \/ /\ Ours(s.list[s.i]) /\ \A u : u # typ => Part(s.list[s.i], u) = << >>
                        /\ Round(s) = [status |-> "ok", list |-> RemoveAt(s.list, s.i), i |-> s.i]
                     \/ /\ Ours(s.list[s.i]) /\ Part(s.list[s.i], typ) = << >>
                        /\ Round(s) = [status |-> "ok", list |-> s.list, i |-> s.i + 1]
    <2>1. s.status \in {"ok", "hang"} /\ s.list \in Seq(Vsa) /\ Built(s.list) /\ s.i \in Nat \ {0}
      BY <1>2
    <2>2. PICK m \in Seq(Vsa) : m = s.list /\ Built(m) /\ Len(m) \in Nat
      BY <2>1, LenProperties
    <2>3. CASE ~(s.status = "ok" /\ s.i <= Len(m))
      <3>1. s.status # "ok" \/ s.i > Len(s.list)
        BY <2>1, <2>2, <2>3
      <3>2. Round(s) = s
        BY <3>1, Zenon DEF DelRound
      <3> HIDE DEF Round
      <3> QED
        BY <2>2, <2>3, <3>2
    <2>4. CASE s.status = "ok" /\ s.i <= Len(m)
      <3>1. PICK i \in 1..Len(m) : i = s.i
        BY <2>1, <2>2, <2>4
      <3>2. PICK x \in Vsa : x = m[i] /\ Filled(x.data)
        BY <2>2, BuiltPart
      <3>3. ~(s.status # "ok" \/ s.i > Len(s.list))
        BY <2>1, <2>2, <2>4
      <3>4. PICK cut : cut = CutIn(s.list[s.i].data, typ)
        OBVIOUS
      <3>5. s.list[s.i] = x
        BY <2>2, <3>1, <3>2
      <3>6. cut = [status |-> "ok", offset |-> IF Len(x.data) = 2 \/ x.data[1] = typ THEN 0 ELSE Len(x.data)]
        BY <3>2, <3>4, <3>5, FilledCut
      <3>7. Round(s) = IF ~Ours(x) THEN Leaves(s, "hang")
                       ELSE IF cut.status # "ok" THEN Leaves(s, cut.status)
                       ELSE IF cut.offset = 0 THEN [status |-> "ok", list |-> RemoveAt(s.list, s.i), i |-> s.i]
                       ELSE [status |-> "ok", list |-> s.list, i |-> s.i + 1]
        BY <3>3, <3>4, <3>5, Zenon DEF DelRound
      <3> HIDE DEF Round
      <3>8. CASE ~Ours(x)
        <4>1. Round(s) = [status |-> "hang", list |-> s.list, i |-> s.i]
          BY <3>7, <3>8 DEF Leaves
        <4> QED
          BY <2>2, <2>4, <3>5, <3>8, <4>1
      <3>9. CASE Ours(x) /\ (Len(x.data) = 2 \/ x.data[1] = typ)
        <4>1. Round(s) = [status |-> "ok", list |-> RemoveAt(s.list, s.i), i |-> s.i]
          BY <3>6, <3>7, <3>9
        <4>2. \A u : u # typ => Part(x, u) = << >>
          <5> SUFFICES ASSUME NEW u, u # typ PROVE Part(x, u) = << >>
            OBVIOUS
          <5>1. ~Holds(x.data, u)
            <6>1. Len(x.data) = 2 => ~(Len(x.data) > 2)
              OBVIOUS
            <6> QED
              BY <3>9, <6>1, Zenon DEF Holds
          <5> QED
            BY <2>2, <3>2, <5>1, BuiltPart
        <4> QED
          BY <2>2, <2>4, <3>5, <3>9, <4>1, <4>2
      <3>10. CASE Ours(x) /\ ~(Len(x.data) = 2 \/ x.data[1] = typ)
        <4>1. cut.status = "ok" /\ cut.offset # 0
          BY <3>2, <3>6, <3>10, FilledFacts
        <4>2. Round(s) = [status |-> "ok", list |-> s.list, i |-> s.i + 1]
          BY <3>7, <3>10, <4>1
        <4>3. ~Holds(x.data, typ)
          BY <3>10 DEF Holds
        <4>4. Part(x, typ) = << >>
          BY <2>2, <3>2, <4>3, BuiltPart
        <4> QED
          BY <2>2, <2>4, <3>5, <3>10, <4>2, <4>4
      <3> QED
        BY <3>8, <3>9, <3>10
    <2> QED
      BY <2>2, <2>3, <2>4
  <1> HIDE DEF Round
  <1>7. \A s \in R : Round(s) \in R
    <2> SUFFICES ASSUME NEW s \in R PROVE Round(s) \in R
      OBVIOUS
    <2>1. s.status \in {"ok", "hang"} /\ s.list \in Seq(Vsa) /\ Built(s.list) /\ s.i \in Nat \ {0}
      BY <1>2
    <2>2. CASE ~(s.status = "ok" /\ s.i <= Len(s.list))
      BY <1>6, <2>2
    <2>3. CASE s.status = "ok" /\ s.i <= Len(s.list)
      <3>1. Len(s.list) \in Nat
        BY <2>1, LenProperties
      <3>2. s.i \in 1..Len(s.list) /\ s.i + 1 \in Nat \ {0}
        BY <2>1, <2>3, <3>1
      <3>3. Built(RemoveAt(s.list, s.i)) /\ RemoveAt(s.list, s.i) \in Seq(Vsa)
        BY <2>1, <3>2, BuiltRemoval DEF Built
      <3> QED
        BY <1>2, <1>6, <2>1, <2>3, <3>2, <3>3
    <2> QED
      BY <2>2, <2>3
  <1>8. PICK body \in [R -> R] : \A s \in R : body[s] = Round(s)
    <2>1. [s \in R |-> Round(s)] \in [R -> R]
      BY <1>7
    <2> QED
      BY <2>1
  <1>9. start \in R
    BY <1>1, <1>2 DEF EditFrom
  <1>10. start.status = "ok" /\ start.i = 1 /\ start.list = l
    BY DEF EditFrom
  <1> HIDE DEF start
  <1>11. \E f : Is(f)
    <2>1. PICK f : f = Run(body, start, n)
      OBVIOUS
    <2>2. f \in [0..n -> R] /\ f[0] = start /\ Turns(body, n, f)
      BY <1>9, <2>1, LoopRuns
    <2>3. \A k \in 0..n : f[k] = IF k = 0 THEN start ELSE Round(f[k - 1])
      BY <1>8, <2>2 DEF Turns
    <2> QED
      BY <2>2, <2>3
  <1>12. Is(A)
    <2> HIDE DEF Is
    <2> QED
      BY <1>3, <1>11
  <1>13. A[0] = start /\ \A k \in 1..n : A[k] = Round(A[k - 1])
    BY <1>12
  <1>14. (\A k \in 0..n : A[k] \in R) /\ Turns(body, n, A)
    <2>1. \A k \in 1..n : A[k - 1] \in R => A[k] = body[A[k - 1]]
      BY <1>8, <1>13
    <2>2. A[0] \in R
      BY <1>9, <1>13
    <2> QED
      BY <2>1, <2>2, LoopStates
  <1> DEFINE Keeps(s)   == \A u : u # typ => GetsVendor(s.list, u) = GetsVendor(l, u)
             Clear(s)   == \A j \in 1..(s.i - 1) : Part(s.list[j], typ) = << >>
             Passed(s)  == \A j \in 1..(s.i - 1) : s.list[j].vendor = Redback
             Told(k, s) == /\ Keeps(s)
                           /\ s.status = "ok" => /\ s.i + n = Len(s.list) + 1 + k /\ Clear(s)
                                                /\ Passed(s) /\ (AllOurs(s.list) => AllOurs(l))
                           /\ AllOurs(l) => s.status = "ok" /\ AllOurs(s.list)
             T == {k \in 0..n : Told(k, A[k])}
  <1>15. 0 \in T
    <2>1. Told(0, start)
      BY <1>1, <1>10
    <2> HIDE DEF Told
    <2> QED
      BY <1>13, <2>1
  <1>16. ASSUME NEW k \in 1..n, k - 1 \in T PROVE k \in T
    <2>1. k - 1 \in 0..n /\ k \in 0..n /\ Told(k - 1, A[k - 1])
      BY <1>16
    <2>2. PICK s \in R : s = A[k - 1] /\ A[k] = Round(s)
      BY <1>13, <1>14, <2>1
    <2>3. Told(k - 1, s)
      BY <2>1, <2>2
    <2>4. s.status \in {"ok", "hang"} /\ s.list \in Seq(Vsa) /\ Built(s.list) /\ s.i \in Nat \ {0}
      BY <1>2
    <2>5. PICK m \in Seq(Vsa) : m = s.list /\ Built(m) /\ Len(m) \in Nat
      BY <2>4, LenProperties
    <2>6. PICK t : t = Round(s)
      OBVIOUS
    <2>7. Told(k, t)
      <3>1. CASE s.status # "ok"
        <4>1. t = s
          BY <1>6, <2>6, <3>1
        <4> QED
          BY <2>3, <3>1, <4>1
      <3>2. CASE s.status = "ok"
        <4>1. /\ s.i + n = Len(m) + 1 + (k - 1) /\ Clear(s)
              /\ Passed(s) /\ (AllOurs(m) => AllOurs(l))
          BY <2>3, <2>5, <3>2
        <4>2. PICK i \in 1..Len(m) : i = s.i
          BY <2>4, <2>5, <4>1
        <4>3. s.i <= Len(s.list)
          BY <2>5, <4>2
        <4>4. CASE ~Ours(m[i]) /\ t = [status |-> "hang", list |-> s.list, i |-> s.i]
          <5>1. ~AllOurs(l)
            <6>1. m[i].vendor # Redback
              BY <2>5, <4>4, BuiltPart
            <6> QED
              BY <2>3, <2>5, <6>1 DEF AllOurs
          <5>2. t.status # "ok" /\ t.list = s.list
            BY <4>4
          <5> QED
            BY <2>3, <5>1, <5>2
        <4>5. CASE /\ Ours(m[i]) /\ \A u : u # typ => Part(m[i], u) = << >>
                   /\ t = [status |-> "ok", list |-> RemoveAt(s.list, s.i), i |-> s.i]
          <5>1. PICK q : q = RemoveAt(m, i)
            OBVIOUS
          <5>2. /\ Built(q) /\ Len(q) = Len(m) - 1
                /\ \A j \in 1..(i - 1) : q[j] = m[j]
                /\ AllOurs(m) => AllOurs(q)
                /\ m[i].vendor = Redback /\ AllOurs(q) => AllOurs(m)
            BY <2>5, <5>1, BuiltRemoval
          <5>3. t.status = "ok" /\ t.list = q /\ t.i = i
            BY <2>5, <4>2, <4>5, <5>1
          <5>4. \A u : u # typ => GetsVendor(q, u) = GetsVendor(m, u)
            BY <4>5, <5>1, GetsOfRemoval
          <5>5. Keeps(t)
            BY <2>3, <2>5, <5>3, <5>4
          <5>6. Clear(t)
            BY <2>5, <4>1, <4>2, <5>2, <5>3
          <5>7. t.i + n = Len(t.list) + 1 + k
            <6>1. i + n = Len(m) + 1 + (k - 1) /\ Len(m) \in Nat
              BY <2>5, <4>1, <4>2
            <6>2. i + n = (Len(m) - 1) + 1 + k
              BY <1>1, <6>1
            <6> QED
              BY <5>2, <5>3, <6>2
          <5>8. AllOurs(l) => AllOurs(t.list)
            BY <2>3, <2>5, <5>2, <5>3
          <5>9. m[i].vendor = Redback
            BY <4>5 DEF Ours
          <5>10. AllOurs(t.list) => AllOurs(l)
            BY <4>1, <5>2, <5>3, <5>9
          <5>11. Passed(t)
            BY <2>5, <4>1, <4>2, <5>2, <5>3
          <5> HIDE DEF Keeps, Clear, Passed
          <5> QED
            BY <5>3, <5>5, <5>6, <5>7, <5>8, <5>10, <5>11
        <4>6. CASE /\ Ours(m[i]) /\ Part(m[i], typ) = << >>
                   /\ t = [status |-> "ok", list |-> s.list, i |-> s.i + 1]
          <5>1. t.status = "ok" /\ t.list = m /\ t.i = i + 1
            BY <2>5, <4>2, <4>6
          <5>2. Clear(t)
            <6>1. \A j \in 1..((i + 1) - 1) : j = i \/ j \in 1..(i - 1)
              OBVIOUS
            <6> QED
              BY <2>5, <4>1, <4>2, <4>6, <5>1, <6>1
          <5>3. t.i + n = Len(t.list) + 1 + k
            <6>1. i + n = Len(m) + 1 + (k - 1)
              BY <4>1, <4>2
            <6>2. (i + 1) + n = Len(m) + 1 + k
              BY <2>5, <6>1
            <6> QED
              BY <5>1, <6>2
          <5>4. Keeps(t)
            BY <2>3, <2>5, <5>1
          <5>5. AllOurs(l) <=> AllOurs(t.list)
            BY <2>3, <2>5, <4>1, <5>1
          <5>6. m[i].vendor = Redback
            BY <4>6 DEF Ours
          <5>7. Passed(t)
            <6>1. \A j \in 1..((i + 1) - 1) : j = i \/ j \in 1..(i - 1)
              OBVIOUS
            <6> QED
              BY <2>5, <4>1, <4>2, <5>1, <5>6, <6>1
          <5> HIDE DEF Keeps, Clear, Passed
          <5> QED
            BY <5>1, <5>2, <5>3, <5>4, <5>5, <5>7
        <4> QED
          BY <1>6, <2>5, <2>6, <3>2, <4>2, <4>3, <4>4, <4>5, <4>6
      <3> QED
        BY <3>1, <3>2
    <2> HIDE DEF Told
    <2> QED
      BY <2>1, <2>2, <2>6, <2>7
  <1>17. Told(n, end)
    <2>1. n \in 0..n
      OBVIOUS
    <2>2. n \in T
      <3> HIDE DEF T
      <3> QED
        BY <1>15, <1>16, <2>1, FromRoundToRound
    <2> HIDE DEF Told
    <2> QED
      BY <1>4, <2>2
  <1>18. end \in R
    BY <1>4, <1>14
  <1>19. PICK m \in Seq(Vsa) : m = end.list /\ Built(m) /\ Len(m) \in Nat
    BY <1>2, <1>18, LenProperties
  <1>20. end.status = "ok" => GetsVendor(m, typ) = << >>
    <2> SUFFICES ASSUME end.status = "ok" PROVE \A j \in 1..Len(m) : Part(m[j], typ) = << >>
      BY GetsNothing
    <2>1. end.i + n = Len(m) + 1 + n /\ Clear(end) /\ end.i \in Nat
      BY <1>2, <1>17, <1>18, <1>19
    <2>2. end.i - 1 = Len(m)
      BY <1>19, <2>1
    <2> QED
      BY <1>19, <2>1, <2>2
  <1>21. r.status = end.status /\ r.list = m
    BY <1>5, <1>19
  <1>22. end.status \in {"ok", "hang"}
    BY <1>2, <1>18
  <1>23. \A u : u # typ => GetsVendor(m, u) = GetsVendor(l, u)
    BY <1>17, <1>19
  <1>24. AllOurs(l) => end.status = "ok"
    BY <1>17
  <1>25. ASSUME end.status = "ok" PROVE AllOurs(l)
    <2>1. end.i + n = Len(m) + 1 + n /\ Passed(end) /\ end.i \in Nat /\ (AllOurs(m) => AllOurs(l))
      BY <1>2, <1>17, <1>18, <1>19, <1>25
    <2>2. end.i - 1 = Len(m)
      BY <1>19, <2>1
    <2>3. AllOurs(m)
      BY <1>19, <2>1, <2>2 DEF AllOurs
    <2> QED
      BY <2>1, <2>3
  <1> QED
    BY <1>19, <1>20, <1>21, <1>22, <1>23, <1>24, <1>25

-----------------------------------------------------------------------------
(* The dictionary: the types of each encoding. *)
IPAddressTypes == {
    1, 2, 82, 83, 99, 100, 132, 160}
IntegerTypes == {
    3, 10, 11, 12, 13, 14, 15, 18, 19, 20, 21, 22, 23, 24, 25, 26, 29, 31, 32, 33, 34, 35,
    37, 38, 39, 41, 42, 43, 44, 52, 53, 54, 57, 61, 62, 65, 66, 67, 68, 72, 73, 74, 84, 86,
    95, 98, 103, 111, 137, 138, 139, 140, 142, 144, 147, 148, 149, 150, 158, 159, 161, 162,
    166, 167, 168, 169, 170, 171, 172, 173, 174, 175, 176, 177, 178, 179, 180, 181, 182,
    183, 185, 198, 199, 206}
TaggedIntegerTypes == {
    85, 191, 193}
Integer64Types == {
    128, 129, 130, 131, 133, 134, 135, 136}
OctetsTypes == {
    4, 5, 6, 7, 8, 9, 16, 17, 27, 28, 30, 36, 40, 45, 46, 47, 48, 49, 50, 51, 55, 56, 58,
    59, 60, 63, 64, 69, 70, 71, 75, 78, 79, 80, 81, 87, 88, 89, 90, 91, 92, 93, 94, 96, 97,
    101, 104, 105, 106, 107, 108, 109, 110, 112, 113, 114, 121, 122, 123, 124, 125, 126,
    127, 141, 143, 145, 146, 151, 156, 157, 163, 164, 165, 184, 186, 187, 188, 189, 195,
    196, 197, 200, 201, 202, 203, 205}
TaggedOctetsTypes == {
    190, 192, 194, 204}

LEMMA DictionaryKinds ==
  ASSUME NEW a \in Dictionary
  PROVE  \/ a = IPAddress(a.typ) /\ a.typ \in IPAddressTypes
         \/ a = Integer(a.typ) /\ a.typ \in IntegerTypes
         \/ a = TaggedInteger(a.typ) /\ a.typ \in TaggedIntegerTypes
         \/ a = Integer64(a.typ) /\ a.typ \in Integer64Types
         \/ a = Octets(a.typ) /\ a.typ \in OctetsTypes
         \/ a = TaggedOctets(a.typ) /\ a.typ \in TaggedOctetsTypes
  BY DEF Dictionary, IPAddress, Integer, TaggedInteger, Integer64, Octets, TaggedOctets,
     IPAddressTypes, IntegerTypes, TaggedIntegerTypes, Integer64Types, OctetsTypes, TaggedOctetsTypes,
     ClientDNSPri, ClientDNSSec, DHCPMaxLeases, ContextName, BridgeGroup, BGAgingTime,
     BGPathCost, BGSpanDis, BGTransBPDU, RateLimitRate, RateLimitBurst, PoliceRate,
     PoliceBurst, SourceValidation, TunnelDomain, TunnelLocalName, TunnelRemoteName,
     TunnelFunction, TunnelFlowControl, TunnelStatic, TunnelMaxSessions, TunnelMaxTunnels,
     TunnelSessionAuth, TunnelWindow, TunnelRetransmit, TunnelCmdTimeout, PPPOEURL,
     PPPOEMOTM, TunnelGroup, TunnelContext, TunnelAlgorithm, TunnelDeadtime, McastSend,
     McastReceive, McastMaxGroups, IPAddressPoolName, TunnelDNIS, MediumType,
     PVCEncapsulationType, PVCProfileName, PVCCircuitPadding, BindType, BindAuthProtocol,
     BindAuthMaxSessions, BindBypassBypass, BindAuthContext, BindAuthServiceGrp,
     BindBypassContext, BindIntContext, BindTunContext, BindSesContext, BindDot1qSlot,
     BindDot1qPort, BindDot1qVlanTagID, BindIntInterfaceName, BindL2TPTunnelName,
     BindL2TPFlowControl, BindSubUserAtContext, BindSubPassword, IPHostAddr, IPTOSField,
     NASRealPort, TunnelSessionAuthCtx, TunnelSessionAuthServiceGrp, TunnelRateLimitRate,
     TunnelRateLimitBurst, TunnelPoliceRate, TunnelPoliceBurst, TunnelL2FSecondPassword,
     ACLDefinition, PPPoEIPRouteAdd, TTYLevelMax, TTYLevelStart, TunnelChecksum,
     TunnelProfile, TunnelClientVPN, TunnelServerVPN, TunnelClientRhost, TunnelServerRhost,
     TunnelClientIntAddr, TunnelServerIntAddr, PPPCompression, TunnelHelloTimer,
     RedbackReason, QosPolicingProfileName, QosMeteringProfileName, QosPolicyQueuing,
     IGMPServiceProfileName, SubscriberProfileName, ForwardPolicy, RemotePort, Reauth,
     ReauthMore, AgentRemoteID, AgentCircuitID, PlatformType, ClientNBNSPri, ClientNBNSSec,
     ShapingProfileName, BGCctAddrMax, IPInterfaceName, NATPolicyName, RBNPMServiceID,
     HTTPRedirectProfileName, BindAutoSubUser, BindAutoSubContext, BindAutoSubPassword,
     CircuitProtocolEncap, OSVersion, SessionTrafficLimit, QOSReference,
     RateLimitExcessBurst, PoliceExcessBurst, TunnelRateLimitExcessBurst,
     TunnelPoliceExcessBurst, DHCPVendorClassID, QosRate, DHCPVendorEncapOption,
     AcctInputOctets64, AcctOutputOctets64, AcctInputPackets64, AcctOutputPackets64,
     AssignedIPAddress, AcctMcastInOctets64, AcctMcastOutOctets64, AcctMcastInPackets64,
     AcctMcastOutPackets64, LACPort, LACRealPort, LACPortType, LACRealPortType,
     AcctDynAcEnt, SessionErrorCode, SessionErrorMsg, AcctUpdateReason, MacAddr,
     VlanSourceInfo, AcctMcastInOctets, AcctMcastOutOctets, AcctMcastInPackets,
     AcctMcastOutPackets, ReauthSessionID, QOSRateInbound, QOSRateOutbound, RouteTag, LIID,
     LIMdAddress, LIMdPort, LIAction, LIProfile, DynamicPolicyFilter, HTTPRedirectURL,
     DSLActualRateUp, DSLActualRateDown, DSLMinRateUp, DSLMinRateDown, DSLAttainableRateUp,
     DSLAttainableRateDown, DSLMaxRateUp, DSLMaxRateDown, DSLMinLowPowerRateUp,
     DSLMinLowPowerRateDown, DSLMaxInterDelayUp, DSLActualInterDelayUp,
     DSLMaxInterDelayDown, DSLActualInterDelayDown, DSLLineState, DSLL2Encapsulation,
     DSLTransmissionSystem, DSLPPPOAPPPOEInterWorkFlag, DSLActualRateDownFactor,
     DSLCombinedLineInfo, ClassVolumeLimit, ClassVolumeInCounter, ClassVolumeOutCounter,
     FlowFACProfile, ServiceName, ServiceAction, ServiceParameter, ServiceErrorCause,
     DeactivateServiceName, QosProfileOverhead, DynamicQoSParam, AcctAltSessionID,
     IdleTimeoutThreshold, DoubleAuthentication, SBCAdjacency, DHCPField, DHCPOption,
     SecurityService, ReauthServiceName, FlowIPProfile, RadiusThrottleWatermark

(* No type has two encodings. *)
LEMMA KindsApart ==
  ASSUME NEW t
  PROVE  /\ t \in IPAddressTypes => t \notin IntegerTypes \cup TaggedIntegerTypes \cup Integer64Types \cup OctetsTypes \cup TaggedOctetsTypes
         /\ t \in IntegerTypes => t \notin TaggedIntegerTypes \cup Integer64Types \cup OctetsTypes \cup TaggedOctetsTypes
         /\ t \in TaggedIntegerTypes => t \notin Integer64Types \cup OctetsTypes \cup TaggedOctetsTypes
         /\ t \in Integer64Types => t \notin OctetsTypes \cup TaggedOctetsTypes
         /\ t \in OctetsTypes => t \notin TaggedOctetsTypes
  BY DEF IPAddressTypes, IntegerTypes, TaggedIntegerTypes, Integer64Types, OctetsTypes, TaggedOctetsTypes

LEMMA TypeIsByte ==
  ASSUME NEW a \in Dictionary
  PROVE  a.typ \in Byte
  BY DictionaryKinds DEF Byte, IPAddressTypes, IntegerTypes, TaggedIntegerTypes,
     Integer64Types, OctetsTypes, TaggedOctetsTypes

(* An attribute is known by its type. *)
LEMMA OneAttributePerType ==
  ASSUME NEW a \in Dictionary, NEW b \in Dictionary, a.typ = b.typ
  PROVE  a = b
  <1>1. PICK t : t = a.typ /\ t = b.typ
    OBVIOUS
  <1>2. CASE a = IPAddress(t) /\ t \in IPAddressTypes
    <2>1. b = IPAddress(t)
      BY <1>1, <1>2, DictionaryKinds, KindsApart
    <2> QED
      BY <1>2, <2>1
  <1>3. CASE a = Integer(t) /\ t \in IntegerTypes
    <2>1. b = Integer(t)
      BY <1>1, <1>3, DictionaryKinds, KindsApart
    <2> QED
      BY <1>3, <2>1
  <1>4. CASE a = TaggedInteger(t) /\ t \in TaggedIntegerTypes
    <2>1. b = TaggedInteger(t)
      BY <1>1, <1>4, DictionaryKinds, KindsApart
    <2> QED
      BY <1>4, <2>1
  <1>5. CASE a = Integer64(t) /\ t \in Integer64Types
    <2>1. b = Integer64(t)
      BY <1>1, <1>5, DictionaryKinds, KindsApart
    <2> QED
      BY <1>5, <2>1
  <1>6. CASE a = Octets(t) /\ t \in OctetsTypes
    <2>1. b = Octets(t)
      BY <1>1, <1>6, DictionaryKinds, KindsApart
    <2> QED
      BY <1>6, <2>1
  <1>7. CASE a = TaggedOctets(t) /\ t \in TaggedOctetsTypes
    <2>1. b = TaggedOctets(t)
      BY <1>1, <1>7, DictionaryKinds, KindsApart
    <2> QED
      BY <1>7, <2>1
  <1> QED
    BY <1>1, <1>2, <1>3, <1>4, <1>5, <1>6, <1>7, DictionaryKinds

-----------------------------------------------------------------------------
(* Encodings. *)
LEMMA FourBytes ==
  ASSUME NEW v \in [1..4 -> Byte]
  PROVE  v \in Seq(Byte) /\ Len(v) = 4 /\ v # << >> /\ v # Refused
  <1>1. v \in Seq(Byte)
    <2>1. \E n \in Nat : v \in [1..n -> Byte]
      OBVIOUS
    <2> QED
      BY <2>1, SeqDef, Zenon
  <1>2. Len(v) = 4
    <2>1. PICK n \in Nat : n = Len(v) /\ DOMAIN v = 1..n
      BY <1>1, LenProperties
    <2>2. 1..n = 1..4
      BY <2>1
    <2>3. n = 4
      <3>1. n \in 1..4 <=> n \in 1..n
        BY <2>2
      <3>2. 4 \in 1..n
        BY <2>2
      <3> QED
        BY <3>1, <3>2
    <2> QED
      BY <2>1, <2>3
  <1>3. Len(Refused) = 1 /\ Len(<< >>) = 0
    BY DEF Refused
  <1>4. v # << >>
    BY <1>2, <1>3
  <1>5. v # Refused
    <2>1. PICK r : r = Refused
      OBVIOUS
    <2>2. Len(r) = 1
      BY <1>3, <2>1
    <2>3. v # r
      BY <1>2, <2>2
    <2> QED
      BY <2>1, <2>3
  <1> QED
    BY <1>1, <1>2, <1>4, <1>5

LEMMA FirstByte ==
  ASSUME NEW v \in [1..4 -> Byte], NEW x \in Byte
  PROVE  /\ [v EXCEPT ![1] = x] \in [1..4 -> Byte]
         /\ [v EXCEPT ![1] = x][1] = x
         /\ v[1] = 0 => [[v EXCEPT ![1] = x] EXCEPT ![1] = 0] = v
  <1>1. PICK w : w = [v EXCEPT ![1] = x]
    OBVIOUS
  <1>2. w \in [1..4 -> Byte]
    BY <1>1
  <1>3. w[1] = x
    BY <1>1
  <1>4. ASSUME v[1] = 0
        PROVE  [w EXCEPT ![1] = 0] = v
    <2>1. PICK u : u = [w EXCEPT ![1] = 0]
      OBVIOUS
    <2>2. 0 \in Byte
      BY DEF Byte
    <2>3. u \in [1..4 -> Byte]
      BY <1>2, <2>1, <2>2
    <2>4. \A i \in 1..4 : u[i] = v[i]
      BY <1>1, <1>2, <1>4, <2>1
    <2>5. u = v
      BY <2>3, <2>4
    <2> QED
      BY <2>1, <2>5
  <1> QED
    BY <1>1, <1>2, <1>3, <1>4

LEMMA ValuesAreBytes ==
  ASSUME NEW a \in Dictionary, NEW v \in Values(a)
  PROVE  /\ v \in Seq(Byte)
         /\ a.kind \in {"ip", "integer", "integer64", "octets"}
         /\ a.kind = "integer" => v \in [1..4 -> Byte]
         /\ a.kind = "integer64" => Len(v) = 8
  <1>1. a.kind \in {"ip", "integer", "integer64", "octets"}
    BY DictionaryKinds DEF IPAddress, Integer, TaggedInteger, Integer64, Octets, TaggedOctets
  <1>2. CASE a.kind = "ip"
    <2>1. v = <<10, 0, 0, 1>> \/ v = [i \in 1..16 |-> 254]
      BY <1>2 DEF Values
    <2>2. <<10, 0, 0, 1>> \in Seq(Byte)
      <3>1. 10 \in Byte /\ 0 \in Byte /\ 1 \in Byte
        BY DEF Byte
      <3> QED
        BY <3>1
    <2>3. [i \in 1..16 |-> 254] \in Seq(Byte)
      <3>1. 254 \in Byte
        BY DEF Byte
      <3>2. [i \in 1..16 |-> 254] \in [1..16 -> Byte]
        BY <3>1
      <3>3. PICK f : f = [i \in 1..16 |-> 254]
        OBVIOUS
      <3>4. \E n \in Nat : f \in [1..n -> Byte]
        BY <3>2, <3>3
      <3>5. f \in Seq(Byte)
        BY <3>4, SeqDef, Zenon
      <3> QED
        BY <3>3, <3>5
    <2> QED
      BY <1>2, <2>1, <2>2, <2>3
  <1>3. CASE a.kind = "integer"
    <2>1. v \in [1..4 -> Byte]
      BY <1>3, ValuesAssumption DEF Values
    <2> QED
      BY <1>3, <2>1, FourBytes
  <1>4. CASE a.kind = "integer64"
    <2>1. PICK n \in [1..4 -> Byte] : v = <<0, 0, 0, 0>> \o n
      BY <1>4, ValuesAssumption DEF Values
    <2>2. PICK z \in Seq(Byte) : z = <<0, 0, 0, 0>> /\ Len(z) = 4
      <3>1. 0 \in Byte
        BY DEF Byte
      <3>2. <<0, 0, 0, 0>> \in Seq(Byte)
        BY <3>1
      <3> QED
        BY <3>2
    <2>3. n \in Seq(Byte) /\ Len(n) = 4
      BY FourBytes
    <2>4. z \o n \in Seq(Byte) /\ Len(z \o n) = Len(z) + Len(n)
      BY <2>3, ConcatProperties
    <2> QED
      BY <1>4, <2>1, <2>2, <2>3, <2>4
  <1>5. CASE a.kind = "octets"
    <2>1. v \in Strings
      BY <1>5 DEF Values
    <2> QED
      BY <1>5, <2>1, ValuesAssumption
  <1> QED
    BY <1>1, <1>2, <1>3, <1>4, <1>5

(* What an accessor writes is bytes, and decodes to what it was given, but for *)
(* what the tag takes. *)
LEMMA EncodeDecode ==
  ASSUME NEW a \in Dictionary, NEW tag \in Byte, NEW v \in Values(a), Encode(a, tag, v) # Refused
  PROVE  LET b == Encode(a, tag, v)  d == Decode(a, b)  e == [tag |-> tag, value |-> v] IN
         /\ b \in Seq(Byte)
         /\ b # << >> => ~d.err
         /\ b # << >> /\ Kept(a, e) => d.value = v /\ (a.tagged => d.tag = tag)
  <1>1. PICK b : b = Encode(a, tag, v)
    OBVIOUS
  <1>2. PICK d : d = Decode(a, b)
    OBVIOUS
  <1>3. PICK e : e = [tag |-> tag, value |-> v]
    OBVIOUS
  <1> DEFINE Good == /\ b \in Seq(Byte)
                     /\ b # << >> => ~d.err
                     /\ b # << >> /\ Kept(a, e) => d.value = v /\ (a.tagged => d.tag = tag)
  <1>4. v \in Seq(Byte)
    BY ValuesAreBytes
  <1>5. ASSUME ~a.tagged
        PROVE  d = [err |-> Len(b) # CASE a.kind \in {"ip", "integer"} -> 4
                                       [] a.kind = "integer64"         -> 8
                                       [] OTHER                        -> Len(b),
                    tag |-> 0, value |-> b]
    BY <1>2, <1>5, Zenon DEF Decode
  <1>6. ASSUME a = IPAddress(a.typ) PROVE Good
    <2>1. a.kind = "ip" /\ ~a.tagged
      BY <1>6 DEF IPAddress
    <2>2. b = v /\ Len(v) = 4
      BY <1>1, <2>1 DEF Encode
    <2>3. d.err = (Len(b) # 4) /\ d.value = b
      BY <1>5, <2>1
    <2> QED
      BY <1>4, <2>1, <2>2, <2>3
  <1>7. ASSUME a = Integer(a.typ) PROVE Good
    <2>1. a.kind = "integer" /\ ~a.tagged
      BY <1>7 DEF Integer
    <2>2. b = v /\ Len(v) = 4
      BY <1>1, <2>1, ValuesAreBytes, FourBytes DEF Encode
    <2>3. d.err = (Len(b) # 4) /\ d.value = b
      BY <1>5, <2>1
    <2> QED
      BY <1>4, <2>1, <2>2, <2>3
  <1>8. ASSUME a = Integer64(a.typ) PROVE Good
    <2>1. a.kind = "integer64" /\ ~a.tagged
      BY <1>8 DEF Integer64
    <2>2. b = v /\ Len(v) = 8
      BY <1>1, <2>1, ValuesAreBytes DEF Encode
    <2>3. d.err = (Len(b) # 8) /\ d.value = b
      BY <1>5, <2>1
    <2> QED
      BY <1>4, <2>1, <2>2, <2>3
  <1>9. ASSUME a = Octets(a.typ) PROVE Good
    <2>1. a.kind = "octets" /\ ~a.tagged
      BY <1>9 DEF Octets
    <2>2. b = v
      BY <1>1, <2>1 DEF Encode
    <2>3. d.err = (Len(b) # Len(b)) /\ d.value = b
      BY <1>5, <2>1
    <2> QED
      BY <1>4, <2>1, <2>2, <2>3
  <1>10. ASSUME a = TaggedInteger(a.typ) PROVE Good
    <2>1. a.kind = "integer" /\ a.tagged
      BY <1>10 DEF TaggedInteger
    <2>2. v \in [1..4 -> Byte]
      BY <2>1, ValuesAreBytes
    <2>3. PICK x \in Byte : x = (IF tag \in 1..31 THEN tag ELSE 0) /\ x <= 31
      BY DEF Byte
    <2>4. b = [v EXCEPT ![1] = x]
      BY <1>1, <2>1, <2>3 DEF Encode
    <2>5. b \in [1..4 -> Byte] /\ b[1] = x /\ (v[1] = 0 => [b EXCEPT ![1] = 0] = v)
      BY <2>2, <2>4, FirstByte
    <2>6. b \in Seq(Byte) /\ b # << >> /\ HasTag(b)
      BY <2>3, <2>5, FourBytes DEF HasTag
    <2>7. d = [err |-> Len([b EXCEPT ![1] = 0]) # 4, tag |-> x, value |-> [b EXCEPT ![1] = 0]]
      BY <1>2, <2>1, <2>5, <2>6 DEF Decode
    <2>8. Len([b EXCEPT ![1] = 0]) = 4
      <3>1. 0 \in Byte
        BY DEF Byte
      <3> QED
        BY <2>5, <3>1, FirstByte, FourBytes
    <2>9. Kept(a, e) => d.value = v /\ d.tag = tag
      <3>1. Kept(a, e) => tag \in 0..31 /\ v[1] = 0
        BY <1>3, <2>1 DEF Kept
      <3>2. tag \in 0..31 => x = tag
        BY <2>3
      <3> QED
        BY <2>5, <2>7, <3>1, <3>2
    <2> QED
      BY <2>6, <2>7, <2>8, <2>9
  <1>11. ASSUME a = TaggedOctets(a.typ) PROVE Good
    <2>1. a.kind = "octets" /\ a.tagged
      BY <1>11 DEF TaggedOctets
    <2>2. b = IF tag <= 31 THEN <<tag>> \o v ELSE v
      BY <1>1, <2>1 DEF Encode
    <2>3. PICK w : w = IF HasTag(b) THEN Tail(b) ELSE b
      OBVIOUS
    <2>4. d = [err |-> Len(w) # Len(w), tag |-> IF HasTag(b) THEN b[1] ELSE 0, value |-> w]
      BY <1>2, <2>1, <2>3 DEF Decode
    <2>5. CASE tag <= 31
      <3>0. <<tag>> \in Seq(Byte)
        OBVIOUS
      <3>1. PICK o \in Seq(Byte) : o = <<tag>> /\ Len(o) = 1 /\ o[1] = tag
        BY <3>0
      <3>2. o \o v \in Seq(Byte) /\ Len(o \o v) = 1 + Len(v)
        BY <1>4, <3>1, ConcatProperties
      <3>3. \A i \in 1..(1 + Len(v)) : (o \o v)[i] = IF i <= 1 THEN o[i] ELSE v[i - 1]
        BY <1>4, <3>1, ConcatProperties
      <3>9. b = o \o v
        BY <2>2, <2>5, <3>1
      <3>10. 1 \in 1..(1 + Len(v)) /\ 1 <= 1
        BY <1>4
      <3>11. (o \o v)[1] = tag
        BY <3>1, <3>3, <3>10
      <3>4. PICK c \in Seq(Byte) : c = b /\ Len(c) = 1 + Len(v) /\ c[1] = tag
        BY <3>2, <3>9, <3>11, Zenon
      <3>5. c # << >>
        BY <1>4, <3>4
      <3>6. HasTag(b)
        BY <2>5, <3>4, <3>5 DEF HasTag
      <3>7. Tail(c) = v
        <4>1. /\ Tail(c) \in Seq(Byte) /\ Len(Tail(c)) = Len(c) - 1
              /\ \A i \in 1..Len(Tail(c)) : Tail(c)[i] = c[i + 1]
          BY <3>5, HeadTailProperties
        <4>2. \A i \in 1..Len(v) : c[i + 1] = v[i]
          <5> SUFFICES ASSUME NEW i \in 1..Len(v) PROVE c[i + 1] = v[i]
            OBVIOUS
          <5>1. i + 1 \in 1..(1 + Len(v)) /\ ~(i + 1 <= 1) /\ (i + 1) - 1 = i
            BY <1>4
          <5> QED
            BY <2>2, <2>5, <3>1, <3>3, <3>4, <5>1
        <4>3. Len(Tail(c)) = Len(v)
          BY <1>4, <3>4, <4>1
        <4>4. \A i \in 1..Len(v) : Tail(c)[i] = v[i]
          BY <4>1, <4>2, <4>3
        <4> QED
          BY <1>4, <4>1, <4>3, <4>4, SeqEqual
      <3>8. d.value = v /\ d.tag = tag /\ ~d.err
        BY <2>3, <2>4, <3>4, <3>6, <3>7
      <3> QED
        BY <3>4, <3>8
    <2>6. CASE ~(tag <= 31)
      <3>1. ~Kept(a, e)
        BY <1>3, <2>1, <2>6 DEF Kept
      <3>2. ~d.err
        BY <2>4
      <3> QED
        BY <1>4, <2>2, <2>6, <3>1, <3>2
    <2> QED
      BY <2>5, <2>6
  <1>12. Good
    BY <1>6, <1>7, <1>8, <1>9, <1>10, <1>11, DictionaryKinds
  <1> QED
    BY <1>1, <1>2, <1>3, <1>12

-----------------------------------------------------------------------------
(* What AddVendor appends. *)
Sub(typ, b) == <<typ, (Len(b) + 2) % 256>> \o b

LEMMA SubAttribute ==
  ASSUME NEW typ \in Byte, NEW b \in Seq(Byte), Len(b) + 2 <= 249,
         NEW d, d = Sub(typ, b)
  PROVE  /\ Filled(d) /\ d[1] = typ /\ Len(d) = Len(b) + 2
         /\ SubSeq(d, 3, Len(d)) = b
  <1>1. PICK n \in Nat : n = Len(b) /\ n <= 247
    BY LenProperties
  <1>2. (Len(b) + 2) % 256 = n + 2 /\ n + 2 \in Byte
    <2>1. n + 2 \in 0..255
      <3>1. n <= 247
        BY <1>1
      <3> QED
        BY ONLY n \in Nat, <3>1
    <2>2. (n + 2) % 256 = n + 2
      BY <1>1
    <2> QED
      BY <1>1, <2>1, <2>2 DEF Byte
  <1>3. PICK h \in Seq(Byte) : h = <<typ, n + 2>> /\ Len(h) = 2 /\ h[1] = typ /\ h[2] = n + 2
    <2>1. <<typ, n + 2>> \in Seq(Byte)
      BY <1>2
    <2> QED
      BY <2>1
  <1>4. d = h \o b
    BY <1>2, <1>3, Zenon DEF Sub
  <1>5. d \in Seq(Byte) /\ Len(d) = Len(h) + Len(b)
    BY <1>4, ConcatProperties
  <1>6. \A i \in 1..Len(h) + Len(b) : d[i] = IF i <= Len(h) THEN h[i] ELSE b[i - Len(h)]
    BY <1>4, ConcatProperties
  <1>7. Len(d) = n + 2 /\ d[1] = typ /\ d[2] = n + 2
    BY <1>1, <1>3, <1>5, <1>6
  <1>8. Filled(d)
    <2>1. n + 2 \in 2..249
      <3>1. n <= 247
        BY <1>1
      <3> QED
        BY ONLY n \in Nat, <3>1
    <2>2. Len(d) \in 2..249 /\ d[2] = Len(d)
      BY <1>7, <2>1
    <2> QED
      BY <1>5, <2>2, Zenon DEF Filled
  <1>9. SubSeq(d, 3, Len(d)) = b
    <2>1. PICK e : e = SubSeq(d, 3, Len(d))
      OBVIOUS
    <2>2. \A i \in 3..Len(d) : d[i] \in Byte
      <3>1. 3..Len(d) \subseteq 1..Len(d)
        BY <1>7
      <3> QED
        BY <1>5, <3>1, ElementOfSeq
    <2>3. /\ e \in Seq(Byte)
          /\ Len(e) = IF 3 <= Len(d) THEN Len(d) - 3 + 1 ELSE 0
          /\ \A i \in 1..Len(d) - 3 + 1 : e[i] = d[3 + i - 1]
      <3>1. 3 \in Int /\ Len(d) \in Int
        BY <1>7
      <3> QED
        BY <2>1, <2>2, <3>1, SubSeqProperties
    <2>4. Len(e) = n /\ \A i \in 1..n : e[i] = d[i + 2]
      <3>1. Len(e) = n /\ 1..Len(d) - 3 + 1 = 1..n
        BY <1>7, <2>3
      <3>2. \A i \in 1..n : 3 + i - 1 = i + 2
        OBVIOUS
      <3> QED
        BY <2>3, <3>1, <3>2
    <2>5. \A i \in 1..n : d[i + 2] = b[i]
      <3> SUFFICES ASSUME NEW i \in 1..n PROVE d[i + 2] = b[i]
        OBVIOUS
      <3>1. i + 2 \in 1..Len(h) + Len(b) /\ ~(i + 2 <= Len(h)) /\ (i + 2) - Len(h) = i
        BY <1>1, <1>3
      <3> QED
        BY <1>6, <3>1
    <2>6. e = b
      BY <1>1, <2>3, <2>4, <2>5, SeqEqual
    <2> QED
      BY <2>1, <2>6
  <1> QED
    BY <1>1, <1>7, <1>8, <1>9

Gains(m, l, b, t) == \A u : GetsVendor(m, u) = GetsVendor(l, u) \o IF b # << >> /\ u = t THEN <<b>> ELSE << >>

LEMMA AddToBuilt ==
  ASSUME NEW l, Built(l), NEW vendor \in {Redback, Mikrotik, Unknown}, NEW typ \in Byte,
         NEW b \in Seq(Byte), NEW r, r = AddVendor(l, vendor, typ, b)
  PROVE  /\ r.status \in {"ok", "error"} /\ Built(r.list)
         /\ r.status = "error" => r.list = l
         /\ vendor = Redback /\ r.status = "ok" => Gains(r.list, l, b, typ)
         /\ vendor # Redback => \A u : GetsVendor(r.list, u) = GetsVendor(l, u)
  <1>1. CASE Len(b) + 2 > 249
    <2>1. r = [status |-> "error", list |-> l]
      BY <1>1, Zenon DEF AddVendor
    <2> QED
      BY <2>1
  <1>2. CASE ~(Len(b) + 2 > 249)
    <2>1. PICK d : d = Sub(typ, b)
      OBVIOUS
    <2>2. Len(b) + 2 <= 249 /\ Len(b) \in Nat
      <3>1. Len(b) \in Nat
        BY LenProperties
      <3> QED
        BY <1>2, <3>1
    <2>3. Filled(d) /\ d[1] = typ /\ Len(d) = Len(b) + 2 /\ SubSeq(d, 3, Len(d)) = b
      BY <2>1, <2>2, SubAttribute
    <2>4. PICK x : x = [vendor |-> vendor, data |-> d]
      OBVIOUS
    <2>5. x \in Vsa /\ x.vendor = vendor /\ x.data = d
      BY <2>3, <2>4 DEF Vsa, Filled
    <2>6. r = [status |-> "ok", list |-> Append(l, x)]
      BY <1>2, <2>1, <2>4, Zenon DEF AddVendor, Sub
    <2>7. PICK m : m = Append(l, x)
      OBVIOUS
    <2>8. l \in Seq(Vsa) /\ \A i \in 1..Len(l) : Filled(l[i].data)
      BY DEF Built
    <2>9. /\ m \in Seq(Vsa) /\ Len(m) = Len(l) + 1
          /\ \A i \in 1..Len(l) : m[i] = l[i]
          /\ m[Len(l) + 1] = x
      <3>1. PICK S : S = Vsa
        OBVIOUS
      <3>2. l \in Seq(S) /\ x \in S
        BY <2>5, <2>8, <3>1
      <3>3. m \in Seq(S) /\ Len(m) = Len(l) + 1 /\ (\A i \in 1..Len(l) : m[i] = l[i]) /\ m[Len(l) + 1] = x
        BY <2>7, <3>2
      <3> QED
        BY <3>1, <3>3
    <2>10. Built(m)
      <3>1. ASSUME NEW i \in 1..Len(m)
            PROVE  Filled(m[i].data)
        <4>1. i \in 1..Len(l) \/ i = Len(l) + 1
          <5>1. PICK n \in Nat : n = Len(l)
            BY <2>8, LenProperties
          <5> QED
            BY <2>9, <5>1
        <4>2. CASE i \in 1..Len(l)
          BY <2>8, <2>9, <4>2
        <4>3. CASE i = Len(l) + 1
          BY <2>3, <2>5, <2>9, <4>3
        <4> QED
          BY <4>1, <4>2, <4>3
      <3> QED
        BY <2>9, <3>1 DEF Built
    <2>11. ASSUME NEW u
           PROVE  /\ GetsVendor(m, u) = GetsVendor(l, u) \o Part(x, u)
                  /\ vendor # Redback => Part(x, u) = << >>
                  /\ vendor = Redback => Part(x, u) = IF b # << >> /\ u = typ THEN <<b>> ELSE << >>
      <3>1. GetsVendor(m, u) = GetsVendor(l, u) \o Part(x, u)
        BY <2>5, <2>7, <2>8, GetsOfAppend
      <3>2. d # << >>
        <4>1. Len(<< >>) = 0 /\ Len(d) # 0
          BY <2>2, <2>3
        <4> QED
          BY <4>1
      <3>3. Ours(x) <=> vendor = Redback
        BY <2>5, <3>2 DEF Ours
      <3>4. Holds(d, u) <=> b # << >> /\ u = typ
        <4>1. b # << >> <=> Len(b) # 0
          <5>1. b # << >> => Len(b) \in Nat \ {0}
            BY EmptySeq
          <5>2. Len(<< >>) = 0
            BY EmptySeq
          <5> QED
            BY <5>1, <5>2
        <4>2. Len(d) > 2 <=> Len(b) # 0
          BY <2>2, <2>3
        <4> QED
          BY <2>3, <4>1, <4>2 DEF Holds
      <3>5. ValuesIn(d, u) = IF Holds(d, u) THEN <<b>> ELSE << >>
        BY <2>3, FilledValues
      <3>6. Part(x, u) = IF Ours(x) THEN ValuesIn(d, u) ELSE << >>
        BY <2>5 DEF Part
      <3>7. Part(x, u) = IF vendor = Redback THEN (IF b # << >> /\ u = typ THEN <<b>> ELSE << >>) ELSE << >>
        BY <3>3, <3>4, <3>5, <3>6
      <3> QED
        BY <3>1, <3>7, Zenon
    <2>12. ASSUME vendor = Redback
           PROVE  Gains(m, l, b, typ)
      BY <2>11, <2>12, Zenon DEF Gains
    <2>13. ASSUME vendor # Redback, NEW u
           PROVE  GetsVendor(m, u) = GetsVendor(l, u)
      <3>1. GetsVendor(m, u) = GetsVendor(l, u) \o << >>
        BY <2>11, <2>13, Zenon
      <3>2. PICK g, B : g = GetsVendor(l, u) /\ B = Seq(Byte)
        OBVIOUS
      <3>3. g \in Seq(B)
        BY <2>8, <3>2, GetsVendorType
      <3>4. g \o << >> = g
        BY <3>3, ConcatEmptySeq
      <3> QED
        BY <3>1, <3>2, <3>4, Zenon
    <2> QED
      <3>1. r.status = "ok" /\ r.list = m
        BY <2>6, <2>7
      <3> QED
        BY <2>10, <2>12, <2>13, <3>1
  <1> QED
    BY <1>1, <1>2

-----------------------------------------------------------------------------
(* What the callers were told, as bytes. *)
Entries == [tag : Byte, value : Seq(Byte)]

Keeps(a, e) == e.value \in Values(a) /\ Encode(a, e.tag, e.value) \notin {Refused, << >>}

Told(a, s) == [i \in 1..Len(s) |-> Encode(a, s[i].tag, s[i].value)]

(* The history of each attribute is typed and holds what could be stored; ... *)
Kind(st, names) ==
    /\ st \in [names -> Seq(Entries)]
    /\ \A a \in names : \A i \in 1..Len(st[a]) : Keeps(a, st[a][i])

(* ... and reads of the list give it. *)
Agrees(l, st, names) == \A a \in names : GetsVendor(l, a.typ) = Told(a, st[a])

LEMMA EncodedType ==
  ASSUME NEW a \in Dictionary, NEW tag \in Byte, NEW v \in Values(a), Encode(a, tag, v) # Refused
  PROVE  Encode(a, tag, v) \in Seq(Byte)
  BY EncodeDecode, Zenon

LEMMA ToldNothing == \A a : Told(a, << >>) = << >>
  <1> SUFFICES ASSUME NEW a PROVE Told(a, << >>) = << >>
    OBVIOUS
  <1>1. PICK s : s = << >>
    OBVIOUS
  <1>2. Len(s) = 0 /\ 1..0 = {}
    BY <1>1
  <1>3. PICK t : t = Told(a, s)
    OBVIOUS
  <1>4. t = [i \in {} |-> Encode(a, s[i].tag, s[i].value)]
    BY <1>2, <1>3 DEF Told
  <1>5. t \in [{} -> Seq(Byte)]
    BY <1>4
  <1>6. t = << >>
    BY <1>5
  <1> QED
    BY <1>1, <1>3, <1>6

LEMMA ToldType ==
  ASSUME NEW a \in Dictionary, NEW s \in Seq(Entries), \A i \in 1..Len(s) : Keeps(a, s[i])
  PROVE  /\ Told(a, s) \in Seq(Seq(Byte)) /\ Len(Told(a, s)) = Len(s)
         /\ \A i \in 1..Len(s) : Told(a, s)[i] = Encode(a, s[i].tag, s[i].value)
  <1>1. PICK n \in Nat : n = Len(s)
    BY LenProperties
  <1>2. ASSUME NEW i \in 1..n
        PROVE  Encode(a, s[i].tag, s[i].value) \in Seq(Byte)
    <2>1. s[i] \in Entries
      BY <1>1, ElementOfSeq
    <2>2. s[i].tag \in Byte
      BY <2>1 DEF Entries
    <2>3. s[i].value \in Values(a) /\ Encode(a, s[i].tag, s[i].value) # Refused
      BY <1>1 DEF Keeps
    <2> QED
      BY <2>2, <2>3, EncodedType
  <1>3. PICK t : t = Told(a, s)
    OBVIOUS
  <1>4. t = [i \in 1..n |-> Encode(a, s[i].tag, s[i].value)]
    BY <1>1, <1>3, Zenon DEF Told
  <1>5. PICK B : B = Seq(Byte)
    OBVIOUS
  <1>6. t \in [1..n -> B]
    BY <1>2, <1>4, <1>5
  <1>7. t \in Seq(B)
    BY <1>6, SeqDef, Zenon
  <1>8. Len(t) = n
    BY <1>6
  <1>9. \A i \in 1..n : t[i] = Encode(a, s[i].tag, s[i].value)
    BY <1>4, Zenon
  <1> QED
    BY <1>1, <1>3, <1>5, <1>7, <1>8, <1>9

LEMMA ToldMore ==
  ASSUME NEW a \in Dictionary, NEW s \in Seq(Entries), \A i \in 1..Len(s) : Keeps(a, s[i]),
         NEW e \in Entries, Keeps(a, e)
  PROVE  /\ s \o <<e>> \in Seq(Entries)
         /\ \A i \in 1..Len(s \o <<e>>) : Keeps(a, (s \o <<e>>)[i])
         /\ Told(a, s \o <<e>>) = Told(a, s) \o <<Encode(a, e.tag, e.value)>>
  <1>1. PICK n \in Nat : n = Len(s)
    BY LenProperties
  <1>2. PICK c : c = s \o <<e>>
    OBVIOUS
  <1>3. PICK E : E = Entries
    OBVIOUS
  <1>4. s \in Seq(E) /\ e \in E
    BY <1>3
  <1>5. PICK o : o = <<e>>
    OBVIOUS
  <1>6. o \in Seq(E) /\ Len(o) = 1 /\ o[1] = e
    BY <1>4, <1>5
  <1>7. c = s \o o
    BY <1>2, <1>5
  <1>8. /\ c \in Seq(E) /\ Len(c) = Len(s) + Len(o)
        /\ \A i \in 1..Len(s) + Len(o) : c[i] = IF i <= Len(s) THEN s[i] ELSE o[i - Len(s)]
    BY <1>4, <1>6, <1>7, ConcatProperties
  <1>9. Len(c) = n + 1 /\ c[n + 1] = e /\ \A i \in 1..n : c[i] = s[i]
    <2>1. Len(c) = n + 1
      BY <1>1, <1>6, <1>8
    <2>2. c[n + 1] = e
      <3>1. n + 1 \in 1..Len(s) + Len(o) /\ ~(n + 1 <= Len(s)) /\ (n + 1) - Len(s) = 1
        BY <1>1, <1>6
      <3> QED
        BY <1>6, <1>8, <3>1
    <2>3. ASSUME NEW i \in 1..n PROVE c[i] = s[i]
      <3>1. i \in 1..Len(s) + Len(o) /\ i <= Len(s)
        BY <1>1, <1>6
      <3> QED
        BY <1>8, <3>1
    <2> QED
      BY <2>1, <2>2, <2>3
  <1>10. ASSUME NEW i \in 1..Len(c)
         PROVE  Keeps(a, c[i])
    <2>1. i \in 1..n \/ i = n + 1
      BY <1>9
    <2>2. CASE i \in 1..n
      BY <1>1, <1>9, <2>2
    <2>3. CASE i = n + 1
      BY <1>9, <2>3
    <2> QED
      BY <2>1, <2>2, <2>3
  <1>11. /\ Told(a, c) \in Seq(Seq(Byte)) /\ Len(Told(a, c)) = Len(c)
         /\ \A i \in 1..Len(c) : Told(a, c)[i] = Encode(a, c[i].tag, c[i].value)
    BY <1>3, <1>8, <1>10, ToldType
  <1>12. /\ Told(a, s) \in Seq(Seq(Byte)) /\ Len(Told(a, s)) = Len(s)
         /\ \A i \in 1..Len(s) : Told(a, s)[i] = Encode(a, s[i].tag, s[i].value)
    BY ToldType
  <1>13. PICK x : x = Encode(a, e.tag, e.value)
    OBVIOUS
  <1>14. x \in Seq(Byte)
    <2>1. e.tag \in Byte
      BY DEF Entries
    <2>2. e.value \in Values(a) /\ Encode(a, e.tag, e.value) # Refused
      BY DEF Keeps
    <2> QED
      BY <1>13, <2>1, <2>2, EncodedType
  <1>15. PICK B : B = Seq(Byte)
    OBVIOUS
  <1>16. PICK t, u, y : t = Told(a, c) /\ u = Told(a, s) /\ y = <<x>>
    OBVIOUS
  <1>17. t \in Seq(B) /\ u \in Seq(B) /\ y \in Seq(B) /\ Len(t) = n + 1 /\ Len(u) = n /\ Len(y) = 1 /\ y[1] = x
    <2>1. x \in B
      BY <1>14, <1>15
    <2>2. y \in Seq(B) /\ Len(y) = 1 /\ y[1] = x
      BY <1>16, <2>1
    <2> QED
      BY <1>1, <1>9, <1>11, <1>12, <1>15, <1>16, <2>2
  <1>18. /\ u \o y \in Seq(B) /\ Len(u \o y) = Len(u) + Len(y)
         /\ \A i \in 1..Len(u) + Len(y) : (u \o y)[i] = IF i <= Len(u) THEN u[i] ELSE y[i - Len(u)]
    BY <1>17, ConcatProperties
  <1>19. ASSUME NEW i \in 1..n + 1
         PROVE  t[i] = (u \o y)[i]
    <2>1. i \in 1..Len(u) + Len(y)
      BY <1>17
    <2>2. CASE i <= n
      <3>1. i \in 1..n /\ i \in 1..Len(c)
        BY <1>9, <2>2
      <3>2. t[i] = u[i]
        BY <1>1, <1>9, <1>11, <1>12, <1>16, <3>1
      <3> QED
        BY <1>17, <1>18, <2>1, <2>2, <3>2
    <2>3. CASE ~(i <= n)
      <3>1. i = n + 1 /\ i - n = 1 /\ i \in 1..Len(c)
        BY <1>9, <2>3
      <3>2. t[i] = x
        BY <1>9, <1>11, <1>13, <1>16, <3>1
      <3> QED
        BY <1>17, <1>18, <2>1, <2>3, <3>1, <3>2
    <2> QED
      BY <2>2, <2>3
  <1>20. t = u \o y
    <2>1. Len(t) = Len(u \o y)
      BY <1>17, <1>18
    <2>2. \A i \in 1..Len(t) : t[i] = (u \o y)[i]
      BY <1>17, <1>19
    <2> QED
      BY <1>17, <1>18, <2>1, <2>2, SeqEqual
  <1> QED
    BY <1>2, <1>3, <1>8, <1>10, <1>13, <1>16, <1>20, Zenon

-----------------------------------------------------------------------------
(* One operation: what the list gains, and what the history does. *)
Extended(st, a, es) == [st EXCEPT ![a] = @ \o es]

LEMMA SameReads ==
  ASSUME NEW l \in Seq(Vsa), NEW m, NEW b, NEW t, Gains(m, l, b, t), NEW u, b = << >> \/ u # t
  PROVE  GetsVendor(m, u) = GetsVendor(l, u)
  <1>1. PICK g : g = GetsVendor(l, u)
    OBVIOUS
  <1>2. ~(b # << >> /\ u = t)
    OBVIOUS
  <1>3. GetsVendor(m, u) = g \o << >>
    BY <1>1, <1>2, Zenon DEF Gains
  <1>4. g \in Seq(Seq(Byte))
    BY <1>1, GetsVendorType
  <1>5. PICK B : B = Seq(Byte)
    OBVIOUS
  <1>6. g \in Seq(B)
    BY <1>4, <1>5
  <1>7. g \o << >> = g
    BY <1>6, ConcatEmptySeq
  <1> QED
    BY <1>1, <1>3, <1>7, Zenon

LEMMA HistoryKept ==
  ASSUME NEW l, Built(l), NEW names, NEW st, Agrees(l, st, names),
         NEW m, \A u : GetsVendor(m, u) = GetsVendor(l, u)
  PROVE  Agrees(m, st, names)
  BY Zenon DEF Agrees

LEMMA NothingTold ==
  ASSUME NEW l, NEW names \in SUBSET Dictionary, NEW st, Kind(st, names), Agrees(l, st, names), NEW a \in names
  PROVE  GetsVendor(l, a.typ) = << >> <=> st[a] = << >>
  <1>1. /\ a \in Dictionary /\ st[a] \in Seq(Entries)
        /\ \A i \in 1..Len(st[a]) : Keeps(a, st[a][i])
    BY DEF Kind
  <1>2. PICK t : t = Told(a, st[a])
    OBVIOUS
  <1>3. t \in Seq(Seq(Byte)) /\ Len(t) = Len(st[a])
    BY <1>1, <1>2, ToldType
  <1>4. GetsVendor(l, a.typ) = t
    BY <1>2 DEF Agrees
  <1>5. PICK s : s = st[a]
    OBVIOUS
  <1>6. PICK B, E : B = Seq(Byte) /\ E = Entries
    OBVIOUS
  <1>7. t \in Seq(B) /\ s \in Seq(E) /\ Len(t) = Len(s)
    BY <1>1, <1>3, <1>5, <1>6
  <1>8. t = << >> <=> s = << >>
    <2>1. t # << >> => Len(t) \in Nat \ {0}
      BY <1>7, EmptySeq
    <2>2. s # << >> => Len(s) \in Nat \ {0}
      BY <1>7, EmptySeq
    <2>3. Len(<< >>) = 0
      BY EmptySeq
    <2> QED
      BY <1>7, <2>1, <2>2, <2>3
  <1> QED
    BY <1>4, <1>5, <1>8

LEMMA HistoryAdded ==
  ASSUME NEW l, Built(l), NEW names \in SUBSET Dictionary, NEW st, Kind(st, names), Agrees(l, st, names),
         NEW a \in names, NEW tag \in Byte, NEW v \in Values(a), Encode(a, tag, v) # Refused,
         NEW m, Gains(m, l, Encode(a, tag, v), a.typ)
  PROVE  /\ Kind(Extended(st, a, Entry(a, tag, v)), names)
         /\ Agrees(m, Extended(st, a, Entry(a, tag, v)), names)
  <1>1. PICK b : b = Encode(a, tag, v)
    OBVIOUS
  <1>2. PICK s2 : s2 = Extended(st, a, Entry(a, tag, v))
    OBVIOUS
  <1>3. /\ a \in Dictionary /\ st[a] \in Seq(Entries)
        /\ \A i \in 1..Len(st[a]) : Keeps(a, st[a][i])
    BY DEF Kind
  <1>4. l \in Seq(Vsa)
    BY DEF Built
  <1>5. st \in [names -> Seq(Entries)]
    BY DEF Kind
  <1>6. PICK x : x = st[a] \o Entry(a, tag, v)
    OBVIOUS
  <1>7. s2 = [st EXCEPT ![a] = x]
    BY <1>2, <1>6, Zenon DEF Extended
  <1>8. GetsVendor(l, a.typ) = Told(a, st[a])
    BY DEF Agrees
  <1>9. /\ x \in Seq(Entries) /\ (\A i \in 1..Len(x) : Keeps(a, x[i]))
        /\ GetsVendor(m, a.typ) = Told(a, x)
    <2>1. CASE b = << >>
      <3>1. Entry(a, tag, v) = << >>
        BY <1>1, <2>1, Zenon DEF Entry
      <3>2. PICK E, s : E = Entries /\ s = st[a]
        OBVIOUS
      <3>3. s \in Seq(E)
        BY <1>3, <3>2
      <3>4. s \o << >> = s
        BY <3>3, ConcatEmptySeq
      <3>5. x = st[a]
        BY <1>6, <3>1, <3>2, <3>4, Zenon
      <3>6. GetsVendor(m, a.typ) = GetsVendor(l, a.typ)
        BY <1>1, <1>4, <2>1, SameReads
      <3> QED
        BY <1>3, <1>8, <3>5, <3>6
    <2>2. CASE b # << >>
      <3>1. PICK e : e = [tag |-> tag, value |-> v]
        OBVIOUS
      <3>2. e.tag = tag /\ e.value = v
        BY <3>1
      <3>3. v \in Seq(Byte)
        BY <1>3, ValuesAreBytes
      <3>4. e \in Entries
        BY <3>1, <3>3 DEF Entries
      <3>5. Keeps(a, e)
        BY <1>1, <2>2, <3>2, Zenon DEF Keeps
      <3>6. Entry(a, tag, v) = <<e>>
        BY <1>1, <2>2, <3>1, Zenon DEF Entry
      <3>7. x = st[a] \o <<e>>
        BY <1>6, <3>6, Zenon
      <3>8. PICK s : s = st[a]
        OBVIOUS
      <3>9. s \in Seq(Entries) /\ \A i \in 1..Len(s) : Keeps(a, s[i])
        BY <1>3, <3>8, Zenon
      <3>10. /\ s \o <<e>> \in Seq(Entries)
             /\ \A i \in 1..Len(s \o <<e>>) : Keeps(a, (s \o <<e>>)[i])
             /\ Told(a, s \o <<e>>) = Told(a, s) \o <<Encode(a, e.tag, e.value)>>
        BY <1>3, <3>4, <3>5, <3>9, ToldMore
      <3>11. GetsVendor(m, a.typ) = GetsVendor(l, a.typ) \o <<b>>
        BY <1>1, <2>2, Zenon DEF Gains
      <3> QED
        BY <1>1, <1>8, <3>2, <3>7, <3>8, <3>10, <3>11, Zenon
    <2> QED
      BY <2>1, <2>2
  <1>10. s2 \in [names -> Seq(Entries)] /\ s2[a] = x /\ \A c \in names : c # a => s2[c] = st[c]
    BY <1>5, <1>7, <1>9
  <1>11. ASSUME NEW c \in names
         PROVE  (\A i \in 1..Len(s2[c]) : Keeps(c, s2[c][i])) /\ GetsVendor(m, c.typ) = Told(c, s2[c])
    <2>1. CASE c = a
      BY <1>9, <1>10, <2>1, Zenon
    <2>2. CASE c # a
      <3>1. c.typ # a.typ
        BY <2>2, OneAttributePerType
      <3>2. GetsVendor(m, c.typ) = GetsVendor(l, c.typ)
        BY <1>4, <3>1, SameReads
      <3>3. s2[c] = st[c]
        BY <1>10, <2>2
      <3>4. GetsVendor(l, c.typ) = Told(c, st[c])
        BY DEF Agrees
      <3>5. \A i \in 1..Len(st[c]) : Keeps(c, st[c][i])
        BY DEF Kind
      <3> QED
        BY <3>2, <3>3, <3>4, <3>5
    <2> QED
      BY <2>1, <2>2
  <1>12. Kind(s2, names) /\ Agrees(m, s2, names)
    BY <1>10, <1>11, Zenon DEF Kind, Agrees
  <1> QED
    BY <1>2, <1>12, Zenon

(* A first value takes the place of nothing. *)
LEMMA ExtendedFirst ==
  ASSUME NEW names \in SUBSET Dictionary, NEW st, Kind(st, names), NEW a \in names, NEW tag \in Byte, NEW v \in Values(a),
         st[a] = << >>
  PROVE  [st EXCEPT ![a] = Entry(a, tag, v)] = Extended(st, a, Entry(a, tag, v))
  <1>1. Entry(a, tag, v) \in Seq(Entries)
    <2>1. v \in Seq(Byte)
      BY ValuesAreBytes
    <2>2. PICK e : e = [tag |-> tag, value |-> v]
      OBVIOUS
    <2>3. e \in Entries
      BY <2>1, <2>2 DEF Entries
    <2>4. << >> \in Seq(Entries) /\ <<e>> \in Seq(Entries)
      <3>1. PICK E : E = Entries
        OBVIOUS
      <3>2. << >> \in Seq(E) /\ <<e>> \in Seq(E)
        BY <2>3, <3>1
      <3> QED
        BY <3>1, <3>2
    <2>5. Entry(a, tag, v) = << >> \/ Entry(a, tag, v) = <<e>>
      BY <2>2, Zenon DEF Entry
    <2> QED
      BY <2>4, <2>5, Zenon
  <1>2. PICK x, E : x = Entry(a, tag, v) /\ E = Entries
    OBVIOUS
  <1>3. x \in Seq(E)
    BY <1>1, <1>2
  <1>4. << >> \o x = x
    BY <1>3, ConcatEmptySeq
  <1>5. st[a] \o x = x
    BY <1>4, Zenon
  <1>6. [st EXCEPT ![a] = st[a] \o x] = [st EXCEPT ![a] = x]
    BY <1>5, Zenon
  <1> QED
    BY <1>2, <1>6, Zenon DEF Extended

LEMMA HistoryDeleted ==
  ASSUME NEW l, Built(l), NEW names \in SUBSET Dictionary, NEW st, Kind(st, names), Agrees(l, st, names),
         NEW a \in names, NEW m, GetsVendor(m, a.typ) = << >>,
         \A u : u # a.typ => GetsVendor(m, u) = GetsVendor(l, u)
  PROVE  /\ Kind([st EXCEPT ![a] = << >>], names)
         /\ Agrees(m, [st EXCEPT ![a] = << >>], names)
  <1>1. PICK s2 : s2 = [st EXCEPT ![a] = << >>]
    OBVIOUS
  <1>2. st \in [names -> Seq(Entries)]
    BY DEF Kind
  <1>3. << >> \in Seq(Entries)
    <2>1. PICK E : E = Entries
      OBVIOUS
    <2>2. << >> \in Seq(E)
      BY EmptySeq
    <2> QED
      BY <2>1, <2>2
  <1>4. s2 \in [names -> Seq(Entries)] /\ s2[a] = << >> /\ \A c \in names : c # a => s2[c] = st[c]
    BY <1>1, <1>2, <1>3
  <1>5. ASSUME NEW c \in names
        PROVE  (\A i \in 1..Len(s2[c]) : Keeps(c, s2[c][i])) /\ GetsVendor(m, c.typ) = Told(c, s2[c])
    <2>1. CASE c = a
      <3>1. Len(s2[c]) = 0 /\ 1..0 = {}
        BY <1>4, <2>1
      <3>2. Told(c, s2[c]) = << >>
        BY <1>4, <2>1, ToldNothing, Zenon
      <3>3. \A i \in 1..Len(s2[c]) : Keeps(c, s2[c][i])
        BY <3>1
      <3> QED
        BY <2>1, <3>2, <3>3
    <2>2. CASE c # a
      <3>1. c.typ # a.typ
        BY <2>2, OneAttributePerType
      <3>2. GetsVendor(m, c.typ) = GetsVendor(l, c.typ)
        BY <3>1
      <3>3. s2[c] = st[c]
        BY <1>4, <2>2
      <3>4. GetsVendor(l, c.typ) = Told(c, st[c])
        BY DEF Agrees
      <3>5. \A i \in 1..Len(st[c]) : Keeps(c, st[c][i])
        BY DEF Kind
      <3> QED
        BY <3>2, <3>3, <3>4, <3>5
    <2> QED
      BY <2>1, <2>2
  <1>6. Kind(s2, names) /\ Agrees(m, s2, names)
    BY <1>4, <1>5, Zenon DEF Kind, Agrees
  <1> QED
    BY <1>1, <1>6, Zenon

-----------------------------------------------------------------------------
(* The inductive invariant: the history is what could be stored; a packet of *)
(* ours is made of filled attributes whose reads give the history as long as *)
(* no operation panicked or hangs; a received one stays as it came. *)
Names == attributes \cup {ContextName}

IInv ==
    /\ status \in {"ok", "error", "panic", "hang"} /\ left \in Nat
    /\ received \in BOOLEAN /\ attributes \subseteq Dictionary
    /\ Kind(stored, Names)
    /\ received => left = 0 /\ list \in Received
    /\ ~received => Built(list)
    /\ Usable => Agrees(list, stored, Names)

LEMMA NamesAreAttributes ==
  ASSUME IInv
  PROVE  Names \in SUBSET Dictionary /\ ContextName \in Names /\ attributes \subseteq Names
  <1>1. ContextName \in Dictionary
    BY DEF Dictionary
  <1> QED
    BY <1>1 DEF IInv, Names

LEMMA Start == Init => IInv
  <1> SUFFICES ASSUME Init PROVE IInv
    OBVIOUS
  <1>1. /\ status = "ok" /\ received \in BOOLEAN /\ stored = [a \in Names |-> << >>]
        /\ received => list \in Received /\ attributes = Asked /\ left = 0
        /\ ~received => list = << >> /\ \E h \in Histories : attributes = h.attributes /\ left = h.ops
    BY DEF Init, Names
  <1>2. left \in Nat /\ attributes \subseteq Dictionary
    BY <1>1, AttributesAssumption
  <1>3. Kind(stored, Names)
    <2>1. << >> \in Seq(Entries)
      <3>1. PICK E : E = Entries
        OBVIOUS
      <3>2. << >> \in Seq(E)
        BY EmptySeq
      <3> QED
        BY <3>1, <3>2
    <2>2. stored \in [Names -> Seq(Entries)] /\ \A a \in Names : stored[a] = << >>
      BY <1>1, <2>1
    <2>3. ASSUME NEW a \in Names PROVE \A i \in 1..Len(stored[a]) : Keeps(a, stored[a][i])
      <3>1. Len(stored[a]) = 0 /\ 1..0 = {}
        BY <2>2
      <3> QED
        BY <3>1
    <2> QED
      BY <2>2, <2>3 DEF Kind
  <1>4. ASSUME ~received
        PROVE  Built(list) /\ Agrees(list, stored, Names)
    <2>1. PICK l : l = << >>
      OBVIOUS
    <2>2. l \in Seq(Vsa) /\ Len(l) = 0
      <3>1. PICK E : E = Vsa
        OBVIOUS
      <3>2. l \in Seq(E) /\ Len(l) = 0
        BY <2>1, EmptySeq
      <3> QED
        BY <3>1, <3>2
    <2>3. 1..Len(l) = {}
      BY <2>2
    <2>4. Built(l)
      BY <2>2, <2>3 DEF Built
    <2>5. ASSUME NEW a \in Names
          PROVE  GetsVendor(l, a.typ) = Told(a, stored[a])
      <3>1. GetsVendor(l, a.typ) = << >>
        BY <2>2, <2>3, GetsNothing
      <3>2. stored[a] = << >>
        BY <1>1
      <3> QED
        BY <3>1, <3>2, ToldNothing, Zenon
    <2>6. l = list
      BY <1>1, <1>4, <2>1
    <2> QED
      BY <2>4, <2>5, <2>6, Zenon DEF Agrees
  <1> QED
    BY <1>1, <1>2, <1>3, <1>4 DEF IInv, Usable

(* What every operation does. *)
LEMMA Takes ==
  ASSUME IInv, NEW r, Apply(r)
  PROVE  /\ ~received /\ Built(list) /\ Kind(stored, Names) /\ Agrees(list, stored, Names)
         /\ left' \in Nat /\ received' = received /\ attributes' = attributes
         /\ list' = r.list /\ status' = r.status
  <1>1. ~received
    BY DEF IInv, Apply
  <1>2. Usable
    BY <1>1 DEF Usable, Apply
  <1>3. left' \in Nat
    BY DEF IInv, Apply
  <1> QED
    BY <1>1, <1>2, <1>3 DEF IInv, Apply

LEMMA Keeping ==
  ASSUME IInv, NEW r, Apply(r), r.status \in {"ok", "error", "panic", "hang"}, Built(r.list),
         Kind(stored', Names), r.status \in {"ok", "error"} => Agrees(r.list, stored', Names)
  PROVE  IInv'
  <1>1. /\ ~received
        /\ left' \in Nat /\ received' = received /\ attributes' = attributes
        /\ list' = r.list /\ status' = r.status
    BY Takes
  <1>2. Names' = Names
    BY <1>1 DEF Names
  <1>3. Kind(stored, Names)'
    BY <1>2 DEF Kind
  <1>4. Built(list)'
    BY <1>1 DEF Built
  <1>5. (status \in {"ok", "error"})' => Agrees(list, stored, Names)'
    BY <1>1, <1>2 DEF Agrees
  <1> QED
    BY <1>1, <1>2, <1>3, <1>4, <1>5 DEF IInv, Usable

-----------------------------------------------------------------------------
LEMMA RefuseKeeps ==
  ASSUME IInv, Apply(Refuse), stored' = stored
  PROVE  IInv'
  <1>1. PICK r : r = Refuse
    OBVIOUS
  <1>2. Apply(r) /\ r.status = "error" /\ r.list = list
    BY <1>1 DEF Refuse
  <1>3. Built(list) /\ Kind(stored, Names) /\ Agrees(list, stored, Names)
    BY <1>2, Takes
  <1> QED
    BY <1>2, <1>3, Keeping

(* A value of ours is appended: under a name, ... *)
LEMMA AppendKeeps ==
  ASSUME IInv, NEW a \in Names, NEW tag \in Byte, NEW v \in Values(a), Encode(a, tag, v) # Refused,
         NEW r, r = AddVendor(list, Redback, a.typ, Encode(a, tag, v)), Apply(r),
         stored' = IF status' = "ok" THEN Extended(stored, a, Entry(a, tag, v)) ELSE stored
  PROVE  IInv'
  <1>1. PICK b : b = Encode(a, tag, v)
    OBVIOUS
  <1>2. Names \in SUBSET Dictionary /\ a \in Dictionary
    BY NamesAreAttributes
  <1>3. /\ Built(list) /\ Kind(stored, Names) /\ Agrees(list, stored, Names)
        /\ list' = r.list /\ status' = r.status
    BY Takes
  <1>4. b \in Seq(Byte) /\ a.typ \in Byte
    BY <1>1, <1>2, EncodedType, TypeIsByte
  <1>5. Redback \in {Redback, Mikrotik, Unknown}
    OBVIOUS
  <1>6. r = AddVendor(list, Redback, a.typ, b)
    BY <1>1
  <1>7. /\ r.status \in {"ok", "error"} /\ Built(r.list)
        /\ r.status = "error" => r.list = list
        /\ r.status = "ok" => Gains(r.list, list, b, a.typ)
    BY <1>3, <1>4, <1>5, <1>6, AddToBuilt
  <1>8. CASE r.status = "ok"
    <2>1. PICK m : m = r.list
      OBVIOUS
    <2>2. Gains(m, list, Encode(a, tag, v), a.typ)
      BY <1>1, <1>7, <1>8, <2>1
    <2>3. PICK s2 : s2 = Extended(stored, a, Entry(a, tag, v))
      OBVIOUS
    <2>4. Kind(s2, Names) /\ Agrees(m, s2, Names)
      BY <1>2, <1>3, <2>2, <2>3, HistoryAdded
    <2>5. stored' = s2
      BY <1>3, <1>8, <2>3, Zenon
    <2>6. Kind(stored', Names) /\ Agrees(r.list, stored', Names)
      BY <2>1, <2>4, <2>5
    <2> QED
      BY <1>7, <2>6, Keeping
  <1>9. CASE r.status = "error"
    <2>1. stored' = stored /\ r.list = list
      BY <1>3, <1>7, <1>9
    <2>2. Kind(stored', Names) /\ Agrees(r.list, stored', Names)
      BY <1>3, <2>1
    <2> QED
      BY <1>7, <2>2, Keeping
  <1> QED
    BY <1>7, <1>8, <1>9

(* ... or another vendor's. *)
LEMMA ForeignKeeps ==
  ASSUME IInv, NEW vendor \in {Mikrotik, Unknown}, NEW typ \in Byte, NEW v \in Seq(Byte),
         NEW r, r = AddVendor(list, vendor, typ, v), Apply(r), stored' = stored
  PROVE  IInv'
  <1>1. vendor \in {Redback, Mikrotik, Unknown} /\ vendor # Redback
    BY VendorAssumption
  <1>2. Built(list) /\ Kind(stored, Names) /\ Agrees(list, stored, Names)
    BY Takes
  <1>3. /\ r.status \in {"ok", "error"} /\ Built(r.list)
        /\ \A u : GetsVendor(r.list, u) = GetsVendor(list, u)
    BY <1>1, <1>2, AddToBuilt
  <1>4. Agrees(r.list, stored', Names)
    BY <1>2, <1>3, HistoryKept
  <1> QED
    BY <1>2, <1>3, <1>4, Keeping

LEMMA AddStep ==
  ASSUME IInv, NEW a \in attributes, NEW tag \in Tags, NEW v \in Values(a), Add(a, tag, v)
  PROVE  IInv'
  <1>1. a \in Names /\ tag \in Byte
    BY NamesAreAttributes, ValuesAssumption
  <1>2. CASE Encode(a, tag, v) = Refused
    <2>1. Apply(Refuse)
      BY <1>2, Zenon DEF Add
    <2>2. status' = "error"
      BY <2>1 DEF Apply, Refuse
    <2>3. stored' = stored
      BY <2>2, Zenon DEF Add
    <2> QED
      BY <2>1, <2>3, RefuseKeeps
  <1>3. CASE Encode(a, tag, v) # Refused
    <2>1. PICK r : r = AddVendor(list, Redback, a.typ, Encode(a, tag, v))
      OBVIOUS
    <2>2. Apply(r)
      BY <1>3, <2>1, Zenon DEF Add
    <2>3. stored' = IF status' = "ok" THEN Extended(stored, a, Entry(a, tag, v)) ELSE stored
      BY Zenon DEF Add, Extended
    <2> QED
      BY <1>1, <1>3, <2>1, <2>2, <2>3, AppendKeeps
  <1> QED
    BY <1>2, <1>3

LEMMA SetStep ==
  ASSUME IInv, NEW a \in attributes, NEW tag \in Tags, NEW v \in Values(a), Set(a, tag, v)
  PROVE  IInv'
  <1>1. a \in Names /\ tag \in Byte /\ Names \in SUBSET Dictionary
    BY NamesAreAttributes, ValuesAssumption
  <1>2. CASE Encode(a, tag, v) = Refused
    <2>1. Apply(Refuse)
      BY <1>2, Zenon DEF Set
    <2>2. status' = "error"
      BY <2>1 DEF Apply, Refuse
    <2>3. stored' = stored
      BY <2>2, Zenon DEF Set
    <2> QED
      BY <2>1, <2>3, RefuseKeeps
  <1>3. CASE Encode(a, tag, v) # Refused
    <2>1. PICK r : r = SetVendor(list, a.typ, Encode(a, tag, v))
      OBVIOUS
    <2>2. Apply(r)
      BY <1>3, <2>1, Zenon DEF Set
    <2>3. /\ Built(list) /\ Kind(stored, Names) /\ Agrees(list, stored, Names)
          /\ status' = r.status
      BY <2>2, Takes
    <2>4. r = IF GetsVendor(list, a.typ) = << >> THEN AddVendor(list, Redback, a.typ, Encode(a, tag, v))
              ELSE [status |-> "panic", list |-> list]
      BY <2>1, <2>3, BuiltSet
    <2>5. CASE GetsVendor(list, a.typ) = << >>
      <3>1. r = AddVendor(list, Redback, a.typ, Encode(a, tag, v))
        BY <2>4, <2>5, Zenon
      <3>2. stored[a] = << >>
        BY <1>1, <2>3, <2>5, NothingTold
      <3>3. [stored EXCEPT ![a] = Entry(a, tag, v)] = Extended(stored, a, Entry(a, tag, v))
        BY <1>1, <2>3, <3>2, ExtendedFirst
      <3>4. stored' = IF status' = "ok" THEN Extended(stored, a, Entry(a, tag, v)) ELSE stored
        BY <3>3, Zenon DEF Set
      <3> QED
        BY <1>1, <1>3, <2>2, <3>1, <3>4, AppendKeeps
    <2>6. CASE GetsVendor(list, a.typ) # << >>
      <3>1. r = [status |-> "panic", list |-> list]
        BY <2>4, <2>6, Zenon
      <3>2. r.status = "panic" /\ r.list = list
        BY <3>1
      <3>3. status' # "ok"
        BY <2>3, <3>2
      <3>4. stored' = stored
        BY <3>3, Zenon DEF Set
      <3> QED
        BY <2>2, <2>3, <3>2, <3>4, Keeping
    <2> QED
      BY <2>5, <2>6
  <1> QED
    BY <1>2, <1>3

LEMMA DelStep ==
  ASSUME IInv, NEW a \in attributes, Del(a)
  PROVE  IInv'
  <1>1. a \in Names /\ Names \in SUBSET Dictionary
    BY NamesAreAttributes
  <1>2. PICK r : r = DelVendor(list, a.typ)
    OBVIOUS
  <1>3. Apply(r)
    BY <1>2 DEF Del
  <1>4. /\ Built(list) /\ Kind(stored, Names) /\ Agrees(list, stored, Names)
        /\ status' = r.status
    BY <1>3, Takes
  <1>5. /\ r.status \in {"ok", "hang"} /\ Built(r.list)
        /\ r.status = "ok" => /\ GetsVendor(r.list, a.typ) = << >>
                              /\ \A u : u # a.typ => GetsVendor(r.list, u) = GetsVendor(list, u)
    BY <1>2, <1>4, BuiltDel
  <1>6. CASE r.status = "ok"
    <2>1. PICK s2 : s2 = [stored EXCEPT ![a] = << >>]
      OBVIOUS
    <2>2. Kind(s2, Names) /\ Agrees(r.list, s2, Names)
      BY <1>1, <1>4, <1>5, <1>6, <2>1, HistoryDeleted
    <2>3. stored' = s2
      BY <1>4, <1>6, <2>1, Zenon DEF Del
    <2> QED
      BY <1>3, <1>5, <2>2, <2>3, Keeping
  <1>7. CASE r.status = "hang"
    <2>1. status' # "ok"
      BY <1>4, <1>7
    <2>2. stored' = stored
      BY <2>1, Zenon DEF Del
    <2> QED
      BY <1>3, <1>4, <1>5, <1>7, <2>2, Keeping
  <1> QED
    BY <1>5, <1>6, <1>7

LEMMA ContextNameStep ==
  ASSUME IInv, NEW v \in Strings, SetContextName(v)
  PROVE  IInv'
  <1>1. ContextName \in Names /\ 0 \in Byte /\ v \in Seq(Byte)
    BY NamesAreAttributes, ValuesAssumption DEF Byte
  <1>2. ContextName.kind = "octets" /\ ContextName.tagged = FALSE /\ ContextName.typ = ContextNameType
    BY DEF ContextName, Octets, ContextNameType
  <1>3. v \in Values(ContextName)
    BY <1>2 DEF Values
  <1>4. CASE Len(v) > 253
    <2>1. Apply(Refuse)
      BY <1>4, Zenon DEF SetContextName
    <2>2. status' = "error"
      BY <2>1 DEF Apply, Refuse
    <2>3. stored' = stored
      BY <2>2, Zenon DEF SetContextName
    <2> QED
      BY <2>1, <2>3, RefuseKeeps
  <1>5. CASE ~(Len(v) > 253)
    <2>1. PICK r : r = AddVendor(list, Redback, ContextNameType, v)
      OBVIOUS
    <2>2. Apply(r)
      BY <1>5, <2>1, Zenon DEF SetContextName
    <2>3. Encode(ContextName, 0, v) = v
      BY <1>2, <1>5 DEF Encode
    <2>4. v # Refused
      <3>1. PICK w : w = Refused
        OBVIOUS
      <3>2. w[1] = 256 /\ Len(w) = 1
        BY <3>1 DEF Refused
      <3>3. 256 \notin Byte /\ 1 \in 1..1
        BY DEF Byte
      <3>4. v # w
        BY <1>1, <3>2, <3>3, ElementOfSeq
      <3> QED
        BY <3>1, <3>4
    <2>5. stored' = IF status' = "ok" THEN Extended(stored, ContextName, Entry(ContextName, 0, v)) ELSE stored
      BY Zenon DEF SetContextName, Extended
    <2>6. r = AddVendor(list, Redback, ContextName.typ, Encode(ContextName, 0, v))
      BY <1>2, <2>1, <2>3, Zenon
    <2>7. Encode(ContextName, 0, v) # Refused
      BY <2>3, <2>4, Zenon
    <2> QED
      BY <1>1, <1>3, <2>2, <2>5, <2>6, <2>7, AppendKeeps
  <1> QED
    BY <1>4, <1>5

LEMMA ForeignStep ==
  ASSUME IInv, NEW a \in attributes, NEW v \in Strings,
         SetMikrotik(a.typ, v) \/ AddVendorSub(a.typ, v)
  PROVE  IInv'
  <1>1. v \in Seq(Byte) /\ a.typ \in Byte
    BY ValuesAssumption, TypeIsByte DEF IInv
  <1>2. Mikrotik \in {Mikrotik, Unknown} /\ Unknown \in {Mikrotik, Unknown}
    OBVIOUS
  <1>3. CASE SetMikrotik(a.typ, v)
    <2>1. stored' = stored
      BY <1>3 DEF SetMikrotik
    <2>2. CASE Len(v) > 253
      <3>1. Apply(Refuse)
        BY <1>3, <2>2, Zenon DEF SetMikrotik
      <3> QED
        BY <2>1, <3>1, RefuseKeeps
    <2>3. CASE ~(Len(v) > 253)
      <3>1. Apply(AddVendor(list, Mikrotik, a.typ, v))
        BY <1>3, <2>3, Zenon DEF SetMikrotik
      <3> QED
        BY <1>1, <1>2, <2>1, <3>1, ForeignKeeps
    <2> QED
      BY <2>2, <2>3
  <1>4. CASE AddVendorSub(a.typ, v)
    <2>1. stored' = stored /\ Apply(AddVendor(list, Unknown, a.typ, v))
      BY <1>4 DEF AddVendorSub
    <2> QED
      BY <1>1, <1>2, <2>1, ForeignKeeps
  <1> QED
    BY <1>3, <1>4

LEMMA StutterKeeps ==
  ASSUME IInv, UNCHANGED vars
  PROVE  IInv'
  <1>1. /\ list' = list /\ status' = status /\ stored' = stored
        /\ received' = received /\ attributes' = attributes /\ left' = left
    BY DEF vars
  <1>2. Names' = Names
    BY <1>1 DEF Names
  <1>3. Kind(stored, Names)' /\ (Built(list)' <=> Built(list)) /\ (Agrees(list, stored, Names)' <=> Agrees(list, stored, Names))
    BY <1>1, <1>2 DEF Kind, Built, Agrees, IInv
  <1> QED
    BY <1>1, <1>3 DEF IInv, Usable

LEMMA Step == IInv /\ [Next]_vars => IInv'
  <1> SUFFICES ASSUME IInv, [Next]_vars PROVE IInv'
    OBVIOUS
  <1>1. ASSUME NEW a \in attributes, NEW tag \in Tags, NEW v \in Values(a), Add(a, tag, v) PROVE IInv'
    BY <1>1, AddStep
  <1>2. ASSUME NEW a \in attributes, NEW tag \in Tags, NEW v \in Values(a), Set(a, tag, v) PROVE IInv'
    BY <1>2, SetStep
  <1>3. ASSUME NEW a \in attributes, Del(a) PROVE IInv'
    BY <1>3, DelStep
  <1>4. ASSUME NEW v \in Strings, SetContextName(v) PROVE IInv'
    BY <1>4, ContextNameStep
  <1>5. ASSUME NEW v \in Strings, NEW a \in attributes, SetMikrotik(a.typ, v) \/ AddVendorSub(a.typ, v) PROVE IInv'
    BY <1>5, ForeignStep
  <1>6. CASE UNCHANGED vars
    BY <1>6, StutterKeeps
  <1> QED
    BY <1>1, <1>2, <1>3, <1>4, <1>5, <1>6 DEF Next

-----------------------------------------------------------------------------
(* What the invariant gives.  Types first. *)
LEMMA Typed == IInv => TypeOK
  <1> SUFFICES ASSUME IInv PROVE TypeOK
    OBVIOUS
  <1>1. stored \in [attributes \cup {ContextName} -> Seq([tag : Byte, value : Seq(Byte)])]
    BY DEF IInv, Kind, Names, Entries
  <1>2. ASSUME received PROVE list \in OnTheWire
    BY <1>2, ReceivedAssumption DEF IInv
  <1>3. ASSUME ~received
        PROVE  list \in OnTheWire /\ \A i \in DOMAIN list : list[i].data[2] = Len(list[i].data)
    <2>1. list \in Seq(Vsa) /\ \A i \in 1..Len(list) : Filled(list[i].data)
      BY <1>3 DEF IInv, Built
    <2>2. DOMAIN list = 1..Len(list)
      BY <2>1, LenProperties
    <2>3. ASSUME NEW i \in DOMAIN list
          PROVE  Len(list[i].data) <= 249 /\ list[i].data[2] = Len(list[i].data)
      <3>1. Filled(list[i].data)
        BY <2>1, <2>2
      <3> QED
        BY <3>1, FilledFacts
    <2> QED
      BY <2>1, <2>3 DEF OnTheWire, Vsa
  <1> QED
    BY <1>1, <1>2, <1>3 DEF IInv, TypeOK

LEMMA DecodesBack ==
  ASSUME NEW a \in Dictionary, NEW e \in Entries, Keeps(a, e), NEW d, d = Decode(a, Encode(a, e.tag, e.value))
  PROVE  /\ ~d.err
         /\ Kept(a, e) => d.value = e.value /\ (a.tagged => d.tag = e.tag)
  <1>1. PICK tag, v : tag = e.tag /\ v = e.value
    OBVIOUS
  <1>2. e = [tag |-> tag, value |-> v] /\ tag \in Byte
    BY <1>1 DEF Entries
  <1>3. v \in Values(a) /\ Encode(a, tag, v) # Refused /\ Encode(a, tag, v) # << >>
    BY <1>1, Zenon DEF Keeps
  <1>4. PICK b : b = Encode(a, tag, v)
    OBVIOUS
  <1>5. /\ b # << >> => ~Decode(a, b).err
        /\ b # << >> /\ Kept(a, [tag |-> tag, value |-> v]) =>
              Decode(a, b).value = v /\ (a.tagged => Decode(a, b).tag = tag)
    BY <1>2, <1>3, <1>4, EncodeDecode, Zenon
  <1>6. d = Decode(a, b) /\ b # << >>
    BY <1>1, <1>3, <1>4, Zenon
  <1> QED
    BY <1>1, <1>2, <1>5, <1>6

(* Values that all decode are all returned. *)
LEMMA GetsAll ==
  ASSUME NEW a, NEW raw \in Seq(Seq(Byte)), raw = GetsVendor(list, a.typ),
         \A i \in 1..Len(raw) : ~Decode(a, raw[i]).err
  PROVE  Len(Gets(a)) = Len(raw) /\ \A i \in 1..Len(raw) : Gets(a)[i] = Decode(a, raw[i])
  <1>1. PICK n \in Nat : n = Len(raw) /\ DOMAIN raw = 1..n
    BY LenProperties
  <1>2. PICK all : all = [i \in DOMAIN raw |-> Decode(a, raw[i])]
    OBVIOUS
  <1>3. PICK D : D = {Decode(a, raw[i]) : i \in 1..n}
    OBVIOUS
  <1>4. all = [i \in 1..n |-> Decode(a, raw[i])]
    BY <1>1, <1>2, Zenon
  <1>5. \A i \in 1..n : all[i] = Decode(a, raw[i])
    BY <1>4, Zenon
  <1>6. all \in [1..n -> D]
    BY <1>3, <1>4
  <1>7. all \in Seq(D)
    <2>1. all \in UNION {[1..k -> D] : k \in Nat}
      BY <1>6
    <2>2. Seq(D) = UNION {[1..k -> D] : k \in Nat}
      BY SeqDef
    <2> QED
      BY <2>1, <2>2, Zenon
  <1>8. Len(all) = n
    BY <1>6
  <1>9. PICK good : good = {k \in 0..Len(all) : \A i \in 1..k : ~all[i].err}
    OBVIOUS
  <1>10. \A i \in 1..n : ~all[i].err
    BY <1>1, <1>5
  <1>11. good = 0..n
    <2>1. ASSUME NEW k \in 0..n PROVE \A i \in 1..k : ~all[i].err
      <3>1. \A i \in 1..k : i \in 1..n
        OBVIOUS
      <3> QED
        BY <1>10, <3>1
    <2>2. good \subseteq 0..n
      BY <1>8, <1>9
    <2>3. 0..n \subseteq good
      BY <1>8, <1>9, <2>1
    <2> QED
      BY <2>2, <2>3
  <1>12. (CHOOSE m \in good : \A k \in good : k <= m) = n
    <2>1. n \in good /\ \A k \in good : k <= n
      BY <1>11
    <2>2. ASSUME NEW m \in good, \A k \in good : k <= m PROVE m = n
      <3>1. m \in 0..n
        BY <1>11
      <3>2. n <= m
        BY <2>1, <2>2
      <3> QED
        BY <3>1, <3>2
    <2> QED
      BY <2>1, <2>2
  <1>13. Gets(a) = SubSeq(all, 1, CHOOSE m \in good : \A k \in good : k <= m)
    BY <1>2, <1>9, Zenon DEF Gets
  <1>14. SubSeq(all, 1, n) = all
    BY <1>7, <1>8, SubSeqFull
  <1>15. Gets(a) = all
    BY <1>12, <1>13, <1>14, Zenon
  <1> QED
    BY <1>1, <1>5, <1>8, <1>15, Zenon

LEMMA ReadBack == IInv => ReadsBack
  <1> SUFFICES ASSUME IInv, Usable, NEW a \in Names
               PROVE  LET told == stored[a]  got == Gets(a) IN
                      /\ Len(got) = Len(told)
                      /\ \A i \in DOMAIN told : Kept(a, told[i]) =>
                            /\ got[i].value = told[i].value
                            /\ a.tagged => got[i].tag = told[i].tag
                      /\ IF told = << >> THEN Lookup(a).err ELSE Lookup(a) = got[1]
    BY DEF ReadsBack, Names
  <1>1. PICK told, got : told = stored[a] /\ got = Gets(a)
    OBVIOUS
  <1>2. /\ a \in Dictionary /\ Names \in SUBSET Dictionary
        /\ Kind(stored, Names) /\ Agrees(list, stored, Names) /\ list \in Seq(Vsa)
    BY NamesAreAttributes DEF IInv, Built, Usable
  <1>3. told \in Seq(Entries) /\ \A i \in 1..Len(told) : Keeps(a, told[i])
    BY <1>1, <1>2 DEF Kind
  <1>4. PICK raw : raw = Told(a, told)
    OBVIOUS
  <1>5. /\ raw \in Seq(Seq(Byte)) /\ Len(raw) = Len(told)
        /\ \A i \in 1..Len(told) : raw[i] = Encode(a, told[i].tag, told[i].value)
    BY <1>2, <1>3, <1>4, ToldType
  <1>6. raw = GetsVendor(list, a.typ)
    BY <1>1, <1>2, <1>4 DEF Agrees
  <1>7. ASSUME NEW i \in 1..Len(told)
        PROVE  /\ ~Decode(a, raw[i]).err
               /\ Kept(a, told[i]) => /\ Decode(a, raw[i]).value = told[i].value
                                      /\ a.tagged => Decode(a, raw[i]).tag = told[i].tag
    <2>1. PICK e : e = told[i]
      OBVIOUS
    <2>2. e \in Entries /\ Keeps(a, e)
      BY <1>3, <2>1, ElementOfSeq
    <2>3. PICK d : d = Decode(a, Encode(a, e.tag, e.value))
      OBVIOUS
    <2>4. /\ ~d.err
          /\ Kept(a, e) => d.value = e.value /\ (a.tagged => d.tag = e.tag)
      BY <1>2, <2>2, <2>3, DecodesBack
    <2>5. d = Decode(a, raw[i])
      BY <1>5, <2>1, <2>3
    <2> QED
      BY <2>1, <2>4, <2>5
  <1>8. Len(got) = Len(raw) /\ \A i \in 1..Len(raw) : got[i] = Decode(a, raw[i])
    BY <1>1, <1>5, <1>6, <1>7, GetsAll
  <1>9. DOMAIN told = 1..Len(told)
    BY <1>3, LenProperties
  <1>10. told = << >> <=> raw = << >>
    <2>1. PICK E, B : E = Entries /\ B = Seq(Byte)
      OBVIOUS
    <2>2. told \in Seq(E) /\ raw \in Seq(B) /\ Len(raw) = Len(told)
      BY <1>3, <1>5, <2>1
    <2>3. told # << >> => Len(told) \in Nat \ {0}
      BY <2>2, EmptySeq
    <2>4. raw # << >> => Len(raw) \in Nat \ {0}
      BY <2>2, EmptySeq
    <2>5. Len(<< >>) = 0
      BY EmptySeq
    <2> QED
      BY <2>2, <2>3, <2>4, <2>5
  <1>11. LookupVendor(list, a.typ) = FirstOf(raw)
    BY <1>2, <1>6, LookupIsFirst
  <1>12. CASE told = << >>
    <2>1. LookupVendor(list, a.typ) = << >>
      BY <1>10, <1>11, <1>12, Zenon DEF FirstOf
    <2>2. Lookup(a) = [err |-> TRUE]
      BY <2>1, Zenon DEF Lookup
    <2>3. Lookup(a).err
      BY <2>2
    <2> QED
      BY <1>1, <1>5, <1>7, <1>8, <1>9, <1>12, <2>3
  <1>13. CASE told # << >>
    <2>1. LookupVendor(list, a.typ) = <<Head(raw)>> /\ raw # << >>
      BY <1>10, <1>11, <1>13, Zenon DEF FirstOf
    <2>2. <<Head(raw)>> # << >> /\ <<Head(raw)>>[1] = Head(raw)
      BY OneIsSome
    <2>3. Lookup(a) = Decode(a, Head(raw))
      BY <2>1, <2>2, Zenon DEF Lookup
    <2>4. Head(raw) = raw[1] /\ 1 \in 1..Len(raw)
      <3>1. PICK B : B = Seq(Byte)
        OBVIOUS
      <3>2. raw \in Seq(B) /\ raw # << >>
        BY <1>5, <2>1, <3>1
      <3> QED
        BY <3>2
    <2>5. Lookup(a) = got[1]
      BY <1>8, <2>3, <2>4, Zenon
    <2> QED
      BY <1>1, <1>5, <1>7, <1>8, <1>9, <1>13, <2>5
  <1> QED
    BY <1>12, <1>13

LEMMA Safe == IInv => ChangesAreSafe
  <1> SUFFICES ASSUME IInv PROVE ChangesAreSafe
    OBVIOUS
  <1>1. Names \in SUBSET Dictionary /\ attributes \subseteq Names
    BY NamesAreAttributes
  <1>2. ASSUME Usable, NEW a \in attributes
        PROVE  SetVendor(list, a.typ, <<1>>) =
                  IF stored[a] = << >> THEN AddVendor(list, Redback, a.typ, <<1>>)
                  ELSE [status |-> "panic", list |-> list]
    <2>1. Built(list) /\ Kind(stored, Names) /\ Agrees(list, stored, Names)
      BY <1>2 DEF IInv, Usable
    <2>2. GetsVendor(list, a.typ) = << >> <=> stored[a] = << >>
      BY <1>1, <1>2, <2>1, NothingTold
    <2>3. SetVendor(list, a.typ, <<1>>) =
            IF GetsVendor(list, a.typ) = << >> THEN AddVendor(list, Redback, a.typ, <<1>>)
            ELSE [status |-> "panic", list |-> list]
      BY <2>1, BuiltSet, Zenon
    <2> QED
      BY <2>2, <2>3, Zenon
  <1>3. ASSUME Usable, NEW a \in attributes
        PROVE  DelVendor(list, a.typ).status =
                  IF \E i \in DOMAIN list : list[i].vendor # Redback THEN "hang" ELSE "ok"
    <2>1. Built(list)
      BY <1>3 DEF IInv, Usable
    <2>2. DOMAIN list = 1..Len(list)
      BY <2>1, LenProperties DEF Built
    <2>3. AllOurs(list) <=> ~\E i \in DOMAIN list : list[i].vendor # Redback
      BY <2>2 DEF AllOurs
    <2>4. PICK r : r = DelVendor(list, a.typ)
      OBVIOUS
    <2>5. r.status \in {"ok", "hang"} /\ (AllOurs(list) <=> r.status = "ok")
      BY <2>1, <2>4, BuiltDel
    <2> QED
      BY <2>3, <2>4, <2>5
  <1> QED
    BY <1>2, <1>3 DEF ChangesAreSafe, SetAddsOrPanics, DelHangsAtForeign

-----------------------------------------------------------------------------
(* Received bytes.  The rounds of a reader that goes as far as it can. *)
Reads(A, data, typ) ==
    /\ A \in [0..Len(data) -> Readers(data)] /\ A[0] = AtFirst
    /\ \A k \in 1..Len(data) : A[k] = ValuesRound(data, typ, A[k - 1])
    /\ ValuesRound(data, typ, A[Len(data)]) = A[Len(data)]

LEMMA RoundMoves ==
  ASSUME NEW data \in Seq(Byte), NEW typ, NEW A, Reads(A, data, typ), NEW k \in 1..Len(data),
         NEW s, s = A[k - 1], NEW t, t = A[k]
  PROVE  /\ s \in Readers(data) /\ t \in Readers(data)
         /\ ~Whole(data, s.at) => t = s
         /\ Whole(data, s.at) =>
               /\ t.at = s.at + data[s.at + 2] /\ t.at >= s.at + 3
               /\ t.found = IF data[s.at + 1] = typ THEN Append(s.found, ValueAt(data, s.at)) ELSE s.found
  <1>1. PICK n \in Nat : n = Len(data)
    BY LenProperties
  <1>2. k - 1 \in 0..n /\ k \in 0..n
    BY <1>1
  <1>3. s \in Readers(data) /\ t \in Readers(data)
    BY <1>1, <1>2 DEF Reads
  <1>4. t = ValuesRound(data, typ, s)
    BY DEF Reads
  <1>5. CASE ~Whole(data, s.at)
    <2>1. t = s
      BY <1>4, <1>5, Zenon DEF ValuesRound
    <2> QED
      BY <1>3, <1>5, <2>1
  <1>6. CASE Whole(data, s.at)
    <2>1. t = Past(data, typ, s)
      BY <1>4, <1>6, Zenon DEF ValuesRound
    <2>2. t.at = s.at + data[s.at + 2] /\ t.at >= s.at + 3
      BY <1>3, <1>6, <2>1, PastType
    <2>3. t.found = IF data[s.at + 1] = typ THEN Append(s.found, ValueAt(data, s.at)) ELSE s.found
      BY <2>1 DEF Past
    <2> QED
      BY <1>3, <1>6, <2>2, <2>3
  <1> QED
    BY <1>5, <1>6

LEMMA ReaderState ==
  ASSUME NEW data \in Seq(Byte), NEW typ, NEW A, Reads(A, data, typ), NEW k \in 0..Len(data)
  PROVE  A[k].at \in 0..Len(data) /\ A[k].at \in Nat /\ A[k].found \in Seq(Seq(Byte))
  <1>1. A[k] \in Readers(data)
    BY DEF Reads
  <1>2. Len(data) \in Nat
    BY LenProperties
  <1> QED
    BY <1>1, <1>2 DEF Readers

LEMMA OnlyForward ==
  ASSUME NEW data \in Seq(Byte), NEW typ, NEW A, Reads(A, data, typ),
         NEW j \in 0..Len(data), NEW i \in 0..j
  PROVE  A[i].at <= A[j].at
  <1>1. PICK n \in Nat : n = Len(data)
    BY LenProperties
  <1>2. i \in 0..n /\ i \in Nat /\ n - i \in Nat
    BY <1>1
  <1> DEFINE T == {m \in 0..n - i : A[i].at <= A[i + m].at}
  <1>3. 0 \in T
    <2>1. A[i].at \in Nat
      BY <1>1, <1>2, ReaderState
    <2>2. 0 \in 0..n - i /\ i + 0 = i
      BY <1>2
    <2> QED
      BY <2>1, <2>2
  <1>4. ASSUME NEW m \in 1..n - i, m - 1 \in T
        PROVE  m \in T
    <2>1. PICK k \in 1..n : k = i + m /\ i + (m - 1) = k - 1 /\ k - 1 \in 0..n /\ k \in 0..n
      BY <1>2
    <2>2. PICK s, t : s = A[k - 1] /\ t = A[k]
      OBVIOUS
    <2>3. s.at \in Nat /\ t.at \in Nat
      BY <1>1, <2>1, <2>2, ReaderState
    <2>4. t = s \/ t.at >= s.at + 3
      BY <1>1, <2>2, RoundMoves
    <2>5. A[i].at <= s.at
      BY <1>4, <2>1, <2>2
    <2>6. A[i].at \in Nat
      BY <1>1, <1>2, ReaderState
    <2>7. A[i].at <= t.at
      BY <2>3, <2>4, <2>5, <2>6
    <2>8. m \in 0..n - i
      OBVIOUS
    <2> QED
      BY <2>1, <2>2, <2>7, <2>8
  <1> HIDE DEF T
  <1>5. \A m \in 0..n - i : m \in T
    BY <1>2, <1>3, <1>4, FromRoundToRound
  <1>6. j - i \in 0..n - i /\ i + (j - i) = j
    BY <1>1
  <1> USE DEF T
  <1> QED
    BY <1>5, <1>6

LEMMA EndsBroken ==
  ASSUME NEW data \in Seq(Byte), NEW typ, NEW A, Reads(A, data, typ)
  PROVE  ~Whole(data, A[Len(data)].at)
  <1>1. PICK n \in Nat : n = Len(data)
    BY LenProperties
  <1>2. PICK s : s = A[n]
    OBVIOUS
  <1>3. s \in Readers(data) /\ ValuesRound(data, typ, s) = s
    BY <1>1, <1>2 DEF Reads
  <1>4. s.at \in Nat
    BY <1>1, <1>3 DEF Readers
  <1>5. ASSUME Whole(data, s.at) PROVE FALSE
    <2>1. Past(data, typ, s) = s
      BY <1>3, <1>5, Zenon DEF ValuesRound
    <2>2. Past(data, typ, s).at >= s.at + 3
      BY <1>3, <1>5, PastType
    <2> QED
      BY <1>4, <2>1, <2>2
  <1> QED
    BY <1>1, <1>2, <1>5

(* Where the sub-attribute at a reader's place, counted from one, is whole. *)
LEMMA WholeAtPlace ==
  ASSUME NEW data \in Seq(Byte), NEW at \in 0..Len(data)
  PROVE  /\ WholeAt(data, at + 1) <=> Whole(data, at)
         /\ Whole(data, at) => SubSeq(data, (at + 1) + 2, (at + 1) + data[(at + 1) + 1] - 1) = ValueAt(data, at)
  <1>1. PICK n \in Nat : n = Len(data)
    BY LenProperties
  <1>2. at \in Nat /\ (at + 1) + 1 = at + 2 /\ (at + 1) + 2 = at + 3
    BY <1>1
  <1>3. at + 3 <= n => data[at + 2] \in Nat
    <2> HAVE at + 3 <= n
    <2>1. at + 2 \in 1..n
      BY <1>2
    <2>2. data[at + 2] \in Byte
      BY <1>1, <2>1, ElementOfSeq
    <2> QED
      BY <2>2, ByteRange
  <1>4. PICK x : x = data[at + 2]
    OBVIOUS
  <1>5. at + 3 <= n => x \in Nat
    BY <1>3, <1>4
  <1>6. WholeAt(data, at + 1) <=> at + 3 <= n /\ x >= 3 /\ at + 1 + x - 1 <= n
    BY <1>1, <1>2, <1>4, Zenon DEF WholeAt
  <1>7. Whole(data, at) <=> ~(at + 3 > n) /\ x >= 3 /\ at + x <= n
    BY <1>1, <1>4, Zenon DEF Whole, Over
  <1>8. (at + 3 <= n /\ x >= 3 /\ at + 1 + x - 1 <= n) <=> (~(at + 3 > n) /\ x >= 3 /\ at + x <= n)
    BY <1>1, <1>2, <1>5
  <1>9. ASSUME Whole(data, at)
        PROVE  SubSeq(data, (at + 1) + 2, (at + 1) + data[(at + 1) + 1] - 1) = ValueAt(data, at)
    <2>1. x \in Nat
      BY <1>2, <1>5, <1>7, <1>9
    <2>2. (at + 1) + x - 1 = at + x
      BY <1>2, <2>1
    <2> QED
      BY <1>2, <1>4, <2>2 DEF ValueAt
  <1> QED
    BY <1>6, <1>7, <1>8, <1>9

Moves(data, s, t) ==
    /\ s.at \in 0..Len(data) /\ s.at \in Nat /\ t.at \in Nat
    /\ ~Whole(data, s.at) => t = s
    /\ Whole(data, s.at) => t.at >= s.at + 3 /\ (s.at + 1) + data[(s.at + 1) + 1] = t.at + 1

LEMMA RoundPlaces ==
  ASSUME NEW data \in Seq(Byte), NEW typ, NEW A, Reads(A, data, typ), NEW k \in 1..Len(data)
  PROVE  Moves(data, A[k - 1], A[k])
  <1>0. PICK s, t : s = A[k - 1] /\ t = A[k]
    OBVIOUS
  <1>1. PICK n \in Nat : n = Len(data)
    BY LenProperties
  <1>2. k - 1 \in 0..n /\ k \in 0..n
    BY <1>1
  <1>3. s.at \in 0..n /\ s.at \in Nat /\ t.at \in Nat
    BY <1>0, <1>1, <1>2, ReaderState
  <1>4. ~Whole(data, s.at) => t = s
    BY <1>0, RoundMoves
  <1>5. ASSUME Whole(data, s.at)
        PROVE  t.at >= s.at + 3 /\ (s.at + 1) + data[(s.at + 1) + 1] = t.at + 1
    <2>1. PICK x : x = data[s.at + 2]
      OBVIOUS
    <2>2. data[s.at + 2] \in Byte
      BY <1>1, <1>3, <1>5, WholeType
    <2>3. x \in Nat
      BY <2>1, <2>2, ByteRange
    <2>4. t.at = s.at + x /\ t.at >= s.at + 3
      BY <1>0, <1>5, <2>1, RoundMoves
    <2>5. (s.at + 1) + 1 = s.at + 2 /\ (s.at + 1) + x = t.at + 1
      <3>1. PICK u, v : u = s.at /\ v = t.at
        OBVIOUS
      <3>2. u \in Nat /\ v = u + x
        BY <1>3, <2>4, <3>1
      <3>3. (u + 1) + 1 = u + 2 /\ (u + 1) + x = v + 1
        BY <2>3, <3>2
      <3> QED
        BY <3>1, <3>3, Zenon
    <2>6. data[(s.at + 1) + 1] = x
      BY <2>1, <2>5, Zenon
    <2>7. t.at >= s.at + 3
      BY <2>4
    <2> QED
      BY <2>5, <2>6, <2>7, Zenon
  <1>6. Moves(data, s, t)
    BY <1>1, <1>3, <1>4, <1>5 DEF Moves
  <1> QED
    BY <1>0, <1>6

-----------------------------------------------------------------------------
(* A path of lengths leads from the first byte to q. *)
Leads(path, data, q) ==
    /\ path \in SUBSET (1..q)
    /\ {1, q} \subseteq path
    /\ \A p \in path \ {q} : WholeAt(data, p) /\ p + data[p + 1] \in path
    /\ \A p \in path \ {1} : \E r \in path : p = r + data[r + 1]

LEMMA StartsByPath ==
  \A data, q : q \in Starts(data) <=> q \in 1..Len(data) /\ \E path : Leads(path, data, q)
  BY Zenon DEF Starts, Leads

(* A reader comes to every place where a sub-attribute begins ... *)
LEMMA StartIsReached ==
  ASSUME NEW data \in Seq(Byte), NEW typ, NEW A, Reads(A, data, typ), NEW q \in Starts(data)
  PROVE  \E k \in 0..Len(data) : q = A[k].at + 1
  <1>1. PICK n \in Nat : n = Len(data)
    BY LenProperties
  <1>2. q \in 1..n /\ \E path : Leads(path, data, q)
    BY <1>1, StartsByPath
  <1>3. PICK path : Leads(path, data, q)
    BY <1>2
  <1>4. /\ path \in SUBSET (1..q) /\ 1 \in path /\ q \in path
        /\ \A p \in path \ {q} : WholeAt(data, p) /\ p + data[p + 1] \in path
    BY <1>3 DEF Leads
  <1> DEFINE T == {k \in 0..n : A[k].at + 1 <= q => A[k].at + 1 \in path}
  <1>5. 0 \in T
    <2>1. A[0].at = 0
      BY DEF Reads, AtFirst
    <2> QED
      BY <1>1, <1>4, <2>1
  <1>6. ASSUME NEW k \in 1..n, k - 1 \in T
        PROVE  k \in T
    <2>1. k - 1 \in 0..n /\ k \in 0..n
      OBVIOUS
    <2>2. PICK s, t : s = A[k - 1] /\ t = A[k]
      OBVIOUS
    <2>3. /\ s.at \in 0..n /\ s.at \in Nat /\ t.at \in Nat
          /\ ~Whole(data, s.at) => t = s
          /\ Whole(data, s.at) => t.at >= s.at + 3 /\ (s.at + 1) + data[(s.at + 1) + 1] = t.at + 1
      <3>1. k \in 1..Len(data) /\ s = A[k - 1] /\ t = A[k]
        BY <1>1, <2>2
      <3>2. Moves(data, s, t)
        BY <3>1, RoundPlaces
      <3> QED
        BY <1>1, <3>2, Zenon DEF Moves
    <2>4. s.at + 1 <= q => s.at + 1 \in path
      BY <1>6, <2>2
    <2>5. ASSUME t.at + 1 <= q PROVE t.at + 1 \in path
      <3>1. CASE ~Whole(data, s.at)
        BY <2>3, <2>4, <2>5, <3>1
      <3>2. CASE Whole(data, s.at)
        <4>1. s.at + 1 <= q /\ s.at + 1 # q
          BY <1>2, <2>3, <2>5, <3>2
        <4>2. (s.at + 1) + data[(s.at + 1) + 1] \in path
          BY <1>4, <2>4, <4>1
        <4> QED
          BY <2>3, <3>2, <4>2
      <3> QED
        BY <3>1, <3>2
    <2> QED
      BY <2>1, <2>2, <2>5
  <1>7. \A k \in 0..n : k \in T
    <2> HIDE DEF T
    <2> QED
      BY <1>5, <1>6, FromRoundToRound
  <1>8. \A k \in 0..n : A[k].at + 1 <= q => A[k].at + 1 \in path
    BY <1>7
  <1> HIDE DEF T
  <1> DEFINE G == {k \in 0..n : A[k].at + 1 >= q}
  <1>9. n \in G
    <2>1. A[n].at \in 0..n /\ A[n].at \in Nat
      BY <1>1, ReaderState
    <2>2. ASSUME A[n].at + 1 < q PROVE FALSE
      <3>1. A[n].at + 1 \in path \ {q}
        BY <1>2, <1>8, <2>1, <2>2
      <3>2. WholeAt(data, A[n].at + 1)
        BY <1>4, <3>1
      <3>3. Whole(data, A[n].at)
        BY <1>1, <2>1, <3>2, WholeAtPlace
      <3> QED
        BY <1>1, <3>3, EndsBroken
    <2> QED
      BY <1>2, <2>1, <2>2
  <1>10. PICK k \in G : \A i \in G : k <= i
    <2>1. G \in SUBSET Nat /\ G # {}
      BY <1>9
    <2> HIDE DEF G
    <2> QED
      BY <2>1, LeastExists
  <1>11. k \in 0..n /\ A[k].at + 1 >= q /\ A[k].at \in Nat
    BY <1>1, <1>10, ReaderState
  <1>12. CASE k = 0
    <2>1. A[0].at = 0
      BY DEF Reads, AtFirst
    <2>2. q = A[k].at + 1
      BY <1>2, <1>11, <1>12, <2>1
    <2> QED
      BY <1>1, <1>11, <2>2
  <1>13. CASE k # 0
    <2>1. k \in 1..n /\ k - 1 \in 0..n /\ ~(k <= k - 1)
      BY <1>11, <1>13
    <2>2. k - 1 \notin G
      BY <1>10, <2>1
    <2>3. PICK s, t : s = A[k - 1] /\ t = A[k]
      OBVIOUS
    <2>4. /\ s.at \in 0..n /\ s.at \in Nat /\ t.at \in Nat
          /\ ~Whole(data, s.at) => t = s
          /\ Whole(data, s.at) => t.at >= s.at + 3 /\ (s.at + 1) + data[(s.at + 1) + 1] = t.at + 1
      <3>1. k \in 1..Len(data) /\ s = A[k - 1] /\ t = A[k]
        BY <1>1, <2>1, <2>3
      <3>2. Moves(data, s, t)
        BY <3>1, RoundPlaces
      <3> QED
        BY <1>1, <3>2, Zenon DEF Moves
    <2>5. s.at + 1 < q
      BY <1>2, <2>1, <2>2, <2>3, <2>4
    <2>6. s.at + 1 \in path \ {q}
      BY <1>2, <1>8, <2>1, <2>3, <2>4, <2>5
    <2>7. Whole(data, s.at) /\ (s.at + 1) + data[(s.at + 1) + 1] \in path
      BY <1>1, <1>4, <2>4, <2>6, WholeAtPlace
    <2>11. t.at + 1 \in path
      BY <2>4, <2>7
    <2>12. t.at + 1 <= q
      <3>1. t.at + 1 \in 1..q
        BY <1>4, <2>11
      <3> QED
        BY <1>2, <2>4, <3>1
    <2>13. q = A[k].at + 1
      BY <1>2, <1>11, <2>3, <2>4, <2>12
    <2> QED
      BY <1>1, <1>11, <2>13
  <1> QED
    BY <1>12, <1>13

(* ... and to no other. *)
LEMMA ReachedIsStart ==
  ASSUME NEW data \in Seq(Byte), NEW typ, NEW A, Reads(A, data, typ), NEW j \in 0..Len(data),
         A[j].at + 1 <= Len(data)
  PROVE  A[j].at + 1 \in Starts(data)
  <1>1. PICK n \in Nat : n = Len(data)
    BY LenProperties
  <1> DEFINE T == {k \in 0..n : A[k].at + 1 <= n => \E path : Leads(path, data, A[k].at + 1)}
  <1>2. 0 \in T
    <2>1. A[0].at + 1 = 1
      BY DEF Reads, AtFirst
    <2>2. Leads({1}, data, 1)
      BY DEF Leads
    <2> QED
      BY <2>1, <2>2
  <1>3. ASSUME NEW k \in 1..n, k - 1 \in T
        PROVE  k \in T
    <2>1. k - 1 \in 0..n /\ k \in 0..n
      OBVIOUS
    <2>2. PICK s, t : s = A[k - 1] /\ t = A[k]
      OBVIOUS
    <2>3. /\ s.at \in 0..n /\ s.at \in Nat /\ t.at \in Nat
          /\ ~Whole(data, s.at) => t = s
          /\ Whole(data, s.at) => t.at >= s.at + 3 /\ (s.at + 1) + data[(s.at + 1) + 1] = t.at + 1
      <3>1. k \in 1..Len(data) /\ s = A[k - 1] /\ t = A[k]
        BY <1>1, <2>2
      <3>2. Moves(data, s, t)
        BY <3>1, RoundPlaces
      <3> QED
        BY <1>1, <3>2, Zenon DEF Moves
    <2>4. s.at + 1 <= n => \E path : Leads(path, data, s.at + 1)
      BY <1>3, <2>2
    <2>5. ASSUME t.at + 1 <= n PROVE \E path : Leads(path, data, t.at + 1)
      <3>1. CASE ~Whole(data, s.at)
        BY <2>3, <2>4, <2>5, <3>1
      <3>2. CASE Whole(data, s.at)
        <4>1. PICK p \in Nat, q \in Nat : p = s.at + 1 /\ q = t.at + 1 /\ p < q
          BY <2>3, <3>2
        <4>2. p <= n /\ p >= 1 /\ q <= n
          BY <2>3, <2>5, <4>1
        <4>3. PICK old : Leads(old, data, p)
          BY <2>4, <4>1, <4>2
        <4>4. /\ old \in SUBSET (1..p) /\ 1 \in old /\ p \in old
              /\ \A o \in old \ {p} : WholeAt(data, o) /\ o + data[o + 1] \in old
              /\ \A o \in old \ {1} : \E r \in old : o = r + data[r + 1]
          BY <4>3 DEF Leads
        <4>5. WholeAt(data, p)
          BY <1>1, <2>3, <3>2, <4>1, WholeAtPlace
        <4>6. p + data[p + 1] = q
          <5>1. (s.at + 1) + data[(s.at + 1) + 1] = t.at + 1
            BY <2>3, <3>2
          <5> QED
            BY <4>1, <5>1, Zenon
        <4>7. PICK new : new = old \cup {q}
          OBVIOUS
        <4>8. new \in SUBSET (1..q)
          <5>1. q \in 1..q /\ 1..p \subseteq 1..q
            BY <4>1, <4>2
          <5> QED
            BY <4>4, <4>7, <5>1, Zenon
        <4>9. {1, q} \subseteq new
          BY <4>4, <4>7
        <4>10. ASSUME NEW o \in new \ {q}
               PROVE  WholeAt(data, o) /\ o + data[o + 1] \in new
          <5>1. o \in old
            BY <4>7
          <5>2. CASE o = p
            BY <4>5, <4>6, <4>7, <5>2
          <5>3. CASE o # p
            BY <4>4, <4>7, <5>1, <5>3
          <5> QED
            BY <5>2, <5>3
        <4>11. ASSUME NEW o \in new \ {1}
               PROVE  \E r \in new : o = r + data[r + 1]
          <5>1. CASE o = q
            BY <4>4, <4>6, <4>7, <5>1
          <5>2. CASE o # q
            BY <4>4, <4>7, <5>2
          <5> QED
            BY <5>1, <5>2
        <4>12. Leads(new, data, q)
          BY <4>8, <4>9, <4>10, <4>11 DEF Leads
        <4> QED
          BY <4>1, <4>12
      <3> QED
        BY <3>1, <3>2
    <2> QED
      BY <2>1, <2>2, <2>5
  <1>4. \A k \in 0..n : k \in T
    <2> HIDE DEF T
    <2> QED
      BY <1>2, <1>3, FromRoundToRound
  <1>5. \E path : Leads(path, data, A[j].at + 1)
    BY <1>1, <1>4
  <1>6. A[j].at + 1 \in 1..Len(data)
    <2>1. A[j].at \in Nat
      BY ReaderState
    <2> QED
      BY <1>1, <2>1
  <1> QED
    BY <1>5, <1>6, StartsByPath

-----------------------------------------------------------------------------
(* The sub-attributes of a type, in their order. *)
HitsIn(data, typ) == {q \in Starts(data) : WholeAt(data, q) /\ data[q] = typ}

Before(H, x) == {y \in H : y < x}

ValueOf(data, q) == SubSeq(data, q + 2, q + data[q + 1] - 1)

LEMMA BeforeMember == \A H, x, y : y \in Before(H, x) <=> y \in H /\ y < x
  BY DEF Before

(* Where a reader is, counted from one. *)
Place(A, k) == A[k].at + 1

LEMMA PlacesForward ==
  ASSUME NEW data \in Seq(Byte), NEW typ, NEW A, Reads(A, data, typ),
         NEW j \in 0..Len(data), NEW i \in 0..j
  PROVE  Place(A, i) \in Nat /\ Place(A, j) \in Nat /\ Place(A, i) <= Place(A, j)
  <1>1. i \in 0..Len(data)
    BY LenProperties
  <1>2. PICK u, v : u = A[i].at /\ v = A[j].at
    OBVIOUS
  <1>3. u \in Nat /\ v \in Nat
    BY <1>1, <1>2, ReaderState
  <1>4. u <= v
    BY <1>2, OnlyForward
  <1>5. u + 1 \in Nat /\ v + 1 \in Nat /\ u + 1 <= v + 1
    BY <1>3, <1>4
  <1> QED
    BY <1>2, <1>5, Zenon DEF Place

LEMMA HitsType ==
  ASSUME NEW data \in Seq(Byte), NEW typ, NEW H, H = HitsIn(data, typ)
  PROVE  /\ H \subseteq 1..Len(data) /\ IsFiniteSet(H) /\ Cardinality(H) \in Nat
         /\ \A x : IsFiniteSet(Before(H, x)) /\ Cardinality(Before(H, x)) \in Nat
  <1>1. PICK n \in Nat : n = Len(data)
    BY LenProperties
  <1>2. H \subseteq 1..n
    BY <1>1, StartsByPath DEF HitsIn
  <1>3. IsFiniteSet(1..n)
    BY FS_Interval
  <1>4. IsFiniteSet(H)
    BY <1>2, <1>3, FS_Subset
  <1>5. \A x : Before(H, x) \subseteq H
    BY DEF Before
  <1>6. \A x : IsFiniteSet(Before(H, x))
    BY <1>4, <1>5, FS_Subset
  <1>7. Cardinality(H) \in Nat /\ \A x : Cardinality(Before(H, x)) \in Nat
    BY <1>4, <1>6, FS_CardinalityType
  <1> QED
    BY <1>1, <1>2, <1>4, <1>6, <1>7

LEMMA BeforeGrows ==
  ASSUME NEW data \in Seq(Byte), NEW typ, NEW H, H = HitsIn(data, typ), NEW x \in H, NEW y \in Nat, x < y
  PROVE  Cardinality(Before(H, x)) < Cardinality(Before(H, y))
  <1>1. x \in Nat
    <2>1. H \subseteq 1..Len(data)
      BY HitsType
    <2> QED
      BY <2>1
  <1>2. PICK a, b : a = Before(H, x) /\ b = Before(H, y)
    OBVIOUS
  <1>3. \A z \in H : z \in Nat
    <2>1. H \subseteq 1..Len(data)
      BY HitsType
    <2> QED
      BY <2>1
  <1>4. a \cup {x} \subseteq b /\ x \notin a
    <2>1. ASSUME NEW z \in a PROVE z \in b
      <3>1. z \in H /\ z < x
        BY <1>2, <2>1, BeforeMember, Zenon
      <3>2. z \in Nat
        BY <1>3, <3>1
      <3>3. z < y
        BY <1>1, <3>1, <3>2
      <3> QED
        BY <1>2, <3>1, <3>3, BeforeMember, Zenon
    <2>2. x \in b
      BY <1>2, BeforeMember, Zenon
    <2>3. ~(x < x)
      BY <1>1
    <2>4. x \notin a
      BY <1>2, <2>3, BeforeMember, Zenon
    <2> QED
      BY <2>1, <2>2, <2>4
  <1>5. IsFiniteSet(a) /\ IsFiniteSet(b) /\ Cardinality(a) \in Nat /\ Cardinality(b) \in Nat
    BY <1>2, HitsType
  <1>6. IsFiniteSet(a \cup {x}) /\ Cardinality(a \cup {x}) = Cardinality(a) + 1
    BY <1>4, <1>5, FS_AddElement
  <1>7. Cardinality(a \cup {x}) <= Cardinality(b)
    BY <1>4, <1>5, FS_Subset
  <1> QED
    BY <1>2, <1>5, <1>6, <1>7

(* One round passes at most one of them. *)
LEMMA HitsPassed ==
  ASSUME NEW data \in Seq(Byte), NEW typ, NEW A, Reads(A, data, typ), NEW k \in 1..Len(data),
         NEW H, H = HitsIn(data, typ), NEW p, p = Place(A, k - 1), NEW q, q = Place(A, k),
         Whole(data, A[k - 1].at)
  PROVE  /\ p \in Nat /\ q \in Nat /\ p \in 1..Len(data)
         /\ p \in H <=> data[p] = typ
         /\ data[p] = typ => Before(H, q) = Before(H, p) \cup {p}
         /\ data[p] # typ => Before(H, q) = Before(H, p)
  <1>1. PICK n \in Nat : n = Len(data)
    BY LenProperties
  <1>2. PICK s, t : s = A[k - 1] /\ t = A[k]
    OBVIOUS
  <1>3. k - 1 \in 0..n /\ k \in 0..n
    BY <1>1
  <1>4. Moves(data, s, t)
    BY <1>1, <1>2, RoundPlaces
  <1>5. PICK u, v : u = s.at /\ v = t.at
    OBVIOUS
  <1>6. u \in 0..n /\ u \in Nat /\ v \in Nat /\ v >= u + 3 /\ Whole(data, u)
    BY <1>1, <1>2, <1>4, <1>5 DEF Moves
  <1>7. p = u + 1 /\ q = v + 1
    BY <1>2, <1>5, Zenon DEF Place
  <1>8. p \in Nat /\ q \in Nat /\ p < q
    BY <1>6, <1>7
  <1>9. p <= n
    <2>1. u + 1 <= Len(data)
      BY <1>1, <1>6, WholeType
    <2> QED
      BY <1>1, <1>7, <2>1
  <1>10. p \in Starts(data)
    <2>1. A[k - 1].at + 1 <= Len(data) /\ A[k - 1].at + 1 = p /\ k - 1 \in 0..Len(data)
      BY <1>1, <1>2, <1>3, <1>5, <1>7, <1>9, Zenon
    <2> QED
      BY <2>1, ReachedIsStart, Zenon
  <1>11. WholeAt(data, p)
    BY <1>1, <1>6, <1>7, WholeAtPlace
  <1>12. p \in H <=> data[p] = typ
    BY <1>10, <1>11 DEF HitsIn
  <1>13. ASSUME NEW z \in H, z < q
         PROVE  z = p \/ z < p
    <2>1. z \in Starts(data)
      BY DEF HitsIn
    <2>2. PICK i \in 0..n : z = A[i].at + 1
      BY <1>1, <2>1, StartIsReached
    <2>3. z = Place(A, i)
      BY <2>2, Zenon DEF Place
    <2>4. CASE i \in 0..k - 1
      <3>1. Place(A, i) \in Nat /\ Place(A, i) <= Place(A, k - 1)
        BY <1>1, <1>3, <2>4, PlacesForward
      <3>2. z \in Nat /\ z <= p
        BY <2>3, <3>1, Zenon
      <3> QED
        BY <1>8, <3>2
    <2>5. CASE i \notin 0..k - 1
      <3>1. k \in 0..i
        BY <1>3, <2>5
      <3>2. Place(A, i) \in Nat /\ Place(A, k) <= Place(A, i)
        BY <1>1, <3>1, PlacesForward
      <3>3. z \in Nat /\ q <= z
        BY <2>3, <3>2, Zenon
      <3> QED
        BY <1>8, <1>13, <3>3
    <2> QED
      BY <2>4, <2>5
  <1>14. \A z \in H : z < p => z < q
    <2>1. H \subseteq 1..Len(data)
      BY HitsType
    <2>2. \A z \in H : z \in Nat
      BY <2>1
    <2> QED
      BY <1>8, <2>2
  <1>15. PICK b, c : b = Before(H, q) /\ c = Before(H, p)
    OBVIOUS
  <1>16. /\ \A z : z \in b <=> z \in H /\ z < q
         /\ \A z : z \in c <=> z \in H /\ z < p
    BY <1>15, BeforeMember, Zenon
  <1>17. p < q
    BY <1>8
  <1>18. ASSUME data[p] = typ PROVE b = c \cup {p}
    <2>1. p \in H
      BY <1>12, <1>18
    <2>2. p \in b
      BY <1>16, <1>17, <2>1, Zenon
    <2>3. \A z \in b : z \in c \/ z = p
      BY <1>13, <1>16, Zenon
    <2>4. \A z \in c : z \in b
      BY <1>14, <1>16, Zenon
    <2> QED
      BY <2>2, <2>3, <2>4
  <1>19. ASSUME data[p] # typ PROVE b = c
    <2>1. p \notin H
      BY <1>12, <1>19
    <2>2. \A z \in b : z \in c
      BY <1>13, <1>16, <2>1, Zenon
    <2>3. \A z \in c : z \in b
      BY <1>14, <1>16, Zenon
    <2> QED
      BY <2>2, <2>3
  <1>20. p \in 1..Len(data)
    <2>1. 1 <= p
      BY <1>6, <1>7
    <2> QED
      BY <1>1, <1>8, <1>9, <2>1
  <1> QED
    BY <1>8, <1>12, <1>15, <1>18, <1>19, <1>20, Zenon

-----------------------------------------------------------------------------
(* What has been read so far: the values of those before the reader's place, *)
(* each at its rank. *)
Ranked(f, H, x, data) ==
    /\ Len(f) = Cardinality(Before(H, x))
    /\ \A j \in 1..Len(f) :
          \E y \in Before(H, x) : Cardinality(Before(H, y)) = j - 1 /\ f[j] = ValueOf(data, y)

LEMMA OneMoreRead ==
  ASSUME NEW data \in Seq(Byte), NEW typ, NEW H, H = HitsIn(data, typ), NEW f \in Seq(Seq(Byte)),
         NEW x \in Nat, NEW z, Ranked(f, H, x, data), Before(H, z) = Before(H, x) \cup {x},
         NEW v \in Seq(Byte), v = ValueOf(data, x)
  PROVE  Ranked(Append(f, v), H, z, data)
  <1>1. PICK n \in Nat : n = Len(f)
    BY LenProperties
  <1>2. PICK B : B = Seq(Byte)
    OBVIOUS
  <1>3. PICK g : g = Append(f, v)
    OBVIOUS
  <1>4. Len(g) = n + 1 /\ g[n + 1] = v /\ \A j \in 1..n : g[j] = f[j]
    <2>1. f \in Seq(B) /\ v \in B
      BY <1>2
    <2> QED
      BY <1>1, <1>3, <2>1
  <1>5. PICK b, c : b = Before(H, z) /\ c = Before(H, x)
    OBVIOUS
  <1>6. b = c \cup {x} /\ x \notin c
    <2>1. ~(x < x)
      OBVIOUS
    <2> QED
      BY <1>5, <2>1, BeforeMember, Zenon
  <1>7. IsFiniteSet(c) /\ Cardinality(c) = n
    BY <1>1, <1>5, HitsType DEF Ranked
  <1>8. Cardinality(b) = n + 1
    BY <1>6, <1>7, FS_AddElement
  <1>9. ASSUME NEW j \in 1..n + 1
        PROVE  \E y \in b : Cardinality(Before(H, y)) = j - 1 /\ g[j] = ValueOf(data, y)
    <2>1. CASE j \in 1..n
      <3>1. PICK y \in c : Cardinality(Before(H, y)) = j - 1 /\ f[j] = ValueOf(data, y)
        BY <1>1, <1>5, <2>1 DEF Ranked
      <3>2. y \in b /\ g[j] = ValueOf(data, y)
        BY <1>4, <1>6, <2>1, <3>1
      <3> QED
        BY <3>1, <3>2
    <2>2. CASE j \notin 1..n
      <3>1. j = n + 1 /\ j - 1 = n
        BY <2>2
      <3>2. Cardinality(Before(H, x)) = j - 1
        BY <1>5, <1>7, <3>1
      <3>3. g[j] = ValueOf(data, x)
        BY <1>4, <3>1
      <3>4. x \in b
        BY <1>6
      <3> QED
        BY <3>2, <3>3, <3>4
    <2> QED
      BY <2>1, <2>2
  <1>10. Ranked(g, H, z, data)
    BY <1>4, <1>5, <1>8, <1>9, Zenon DEF Ranked
  <1> QED
    BY <1>3, <1>10

LEMMA ReadsInOrder ==
  ASSUME NEW data \in Seq(Byte), NEW typ, NEW A, Reads(A, data, typ), NEW j \in 0..Len(data),
         NEW H, H = HitsIn(data, typ)
  PROVE  Ranked(A[j].found, H, Place(A, j), data)
  <1>1. PICK n \in Nat : n = Len(data)
    BY LenProperties
  <1>2. H \subseteq 1..n
    BY <1>1, HitsType
  <1> DEFINE T == {k \in 0..n : Ranked(A[k].found, H, Place(A, k), data)}
  <1>3. 0 \in T
    <2>1. PICK f : f = A[0].found
      OBVIOUS
    <2>2. f = << >> /\ Place(A, 0) = 1
      BY <2>1 DEF Reads, AtFirst, Place
    <2>3. Len(f) = 0 /\ 1..0 = {}
      BY <2>2
    <2>4. Before(H, 1) = {}
      <3>1. \A y \in H : ~(y < 1)
        BY <1>2
      <3> QED
        BY <3>1, BeforeMember
    <2>5. Cardinality(Before(H, 1)) = 0
      BY <2>4, FS_EmptySet
    <2>6. Ranked(f, H, 1, data)
      BY <2>3, <2>5 DEF Ranked
    <2>7. Ranked(A[0].found, H, Place(A, 0), data)
      BY <2>1, <2>2, <2>6, Zenon
    <2>8. 0 \in 0..n
      OBVIOUS
    <2> QED
      BY <2>7, <2>8
  <1>4. ASSUME NEW k \in 1..n, k - 1 \in T
        PROVE  k \in T
    <2>1. k - 1 \in 0..n /\ k \in 0..n
      OBVIOUS
    <2>2. PICK s, t : s = A[k - 1] /\ t = A[k]
      OBVIOUS
    <2>3. PICK p, q : p = Place(A, k - 1) /\ q = Place(A, k)
      OBVIOUS
    <2>4. Ranked(s.found, H, p, data)
      BY <1>4, <2>2, <2>3
    <2>5. /\ s \in Readers(data)
          /\ ~Whole(data, s.at) => t = s
          /\ Whole(data, s.at) =>
                t.found = IF data[s.at + 1] = typ THEN Append(s.found, ValueAt(data, s.at)) ELSE s.found
      BY <1>1, <2>2, RoundMoves
    <2>6. s.at \in 0..n /\ s.at \in Nat /\ s.found \in Seq(Seq(Byte))
      BY <1>1, <2>1, <2>2, ReaderState
    <2>7. p = s.at + 1
      BY <2>2, <2>3, Zenon DEF Place
    <2>8. CASE ~Whole(data, s.at)
      <3>1. t = s /\ q = p
        BY <2>2, <2>3, <2>5, <2>8, Zenon DEF Place
      <3>2. Ranked(t.found, H, q, data)
        BY <2>4, <3>1
      <3> QED
        BY <2>1, <2>2, <2>3, <3>2
    <2>9. CASE Whole(data, s.at)
      <3>1. /\ p \in Nat
            /\ data[p] = typ => Before(H, q) = Before(H, p) \cup {p}
            /\ data[p] # typ => Before(H, q) = Before(H, p)
        BY <1>1, <2>2, <2>3, <2>9, HitsPassed
      <3>2. CASE data[p] = typ
        <4>1. t.found = Append(s.found, ValueAt(data, s.at))
          BY <2>5, <2>7, <2>9, <3>2
        <4>2. ValueAt(data, s.at) \in Seq(Byte)
          BY <1>1, <2>6, <2>9, WholeType
        <4>3. ValueAt(data, s.at) = ValueOf(data, p)
          BY <1>1, <2>6, <2>7, <2>9, WholeAtPlace DEF ValueOf
        <4>4. PICK f, v : f = s.found /\ v = ValueAt(data, s.at)
          OBVIOUS
        <4>5. Ranked(Append(f, v), H, q, data)
          BY <2>4, <2>6, <3>1, <3>2, <4>2, <4>3, <4>4, OneMoreRead
        <4> QED
          BY <2>1, <2>2, <2>3, <4>1, <4>4, <4>5
      <3>3. CASE data[p] # typ
        <4>1. t.found = s.found
          BY <2>5, <2>7, <2>9, <3>3
        <4>2. Ranked(s.found, H, q, data)
          BY <2>4, <3>1, <3>3, Zenon DEF Ranked
        <4> QED
          BY <2>1, <2>2, <2>3, <4>1, <4>2
      <3> QED
        BY <3>2, <3>3
    <2> QED
      BY <2>8, <2>9
  <1>5. \A k \in 0..n : k \in T
    <2> HIDE DEF T
    <2> QED
      BY <1>3, <1>4, FromRoundToRound
  <1> QED
    BY <1>1, <1>5

(* All of them are read, each at its rank. *)
InOrder(f, H, data) ==
    /\ f \in Seq(Seq(Byte)) /\ Len(f) = Cardinality(H)
    /\ \A j \in 1..Len(f) : \E y \in H : Cardinality(Before(H, y)) = j - 1 /\ f[j] = ValueOf(data, y)

LEMMA AllAreRead ==
  ASSUME NEW data \in Seq(Byte), NEW typ
  PROVE  InOrder(ValuesIn(data, typ), HitsIn(data, typ), data)
  <1>0. PICK f, H : f = ValuesIn(data, typ) /\ H = HitsIn(data, typ)
    OBVIOUS
  <1>1. PICK n \in Nat : n = Len(data)
    BY LenProperties
  <1>2. PICK A \in [0..n -> Readers(data)] :
            /\ A[0] = AtFirst
            /\ \A k \in 1..n : A[k] = ValuesRound(data, typ, A[k - 1])
            /\ ValuesRound(data, typ, A[n]) = A[n]
            /\ f = A[n].found
    BY <1>0, <1>1, ValuesRuns
  <1>3. Reads(A, data, typ)
    BY <1>1, <1>2, Zenon DEF Reads
  <1>4. n \in 0..n
    OBVIOUS
  <1>5. Ranked(f, H, Place(A, n), data)
    BY <1>1, <1>2, <1>3, <1>4, <1>0, ReadsInOrder
  <1>6. A[n].at \in 0..n /\ f \in Seq(Seq(Byte))
    BY <1>1, <1>2, <1>3, <1>4, ReaderState
  <1>7. ASSUME NEW y \in H PROVE y < Place(A, n)
    <2>1. y \in Starts(data) /\ WholeAt(data, y)
      BY <1>0 DEF HitsIn
    <2>2. PICK i \in 0..n : y = A[i].at + 1
      BY <1>1, <1>3, <2>1, StartIsReached
    <2>3. y = Place(A, i)
      BY <2>2, Zenon DEF Place
    <2>4. Place(A, i) \in Nat /\ Place(A, n) \in Nat /\ Place(A, i) <= Place(A, n)
      BY <1>1, <1>3, <1>4, PlacesForward
    <2>5. ~WholeAt(data, Place(A, n))
      <3>1. ~Whole(data, A[n].at)
        BY <1>1, <1>3, EndsBroken
      <3>2. ~WholeAt(data, A[n].at + 1)
        BY <1>1, <1>6, <3>1, WholeAtPlace
      <3> QED
        BY <3>2, Zenon DEF Place
    <2>6. Place(A, i) # Place(A, n)
      BY <2>1, <2>3, <2>5, Zenon
    <2>7. PICK u, w : u = Place(A, i) /\ w = Place(A, n)
      OBVIOUS
    <2>8. u < w
      BY <2>4, <2>6, <2>7
    <2> QED
      BY <2>3, <2>7, <2>8, Zenon
  <1>8. Before(H, Place(A, n)) = H
    <2>1. PICK b : b = Before(H, Place(A, n))
      OBVIOUS
    <2>2. \A y : y \in b <=> y \in H
      BY <1>7, <2>1, BeforeMember, Zenon
    <2>3. b = H
      BY <2>2
    <2> QED
      BY <2>1, <2>3
  <1>9. /\ Len(f) = Cardinality(H)
        /\ \A j \in 1..Len(f) : \E y \in H : Cardinality(Before(H, y)) = j - 1 /\ f[j] = ValueOf(data, y)
    BY <1>5, <1>8, Zenon DEF Ranked
  <1>10. InOrder(f, H, data)
    BY <1>6, <1>9, Zenon DEF InOrder
  <1> QED
    BY <1>0, <1>10, Zenon

ReadAs(data, typ) ==
    ValuesIn(data, typ) = [k \in 1..Cardinality(HitsIn(data, typ)) |->
        ValueOf(data, CHOOSE x \in HitsIn(data, typ) : Cardinality(Before(HitsIn(data, typ), x)) = k - 1)]

LEMMA WholePrefix ==
  ASSUME NEW data \in Seq(Byte), NEW typ
  PROVE  ReadAs(data, typ)
  <1>1. PICK H : H = HitsIn(data, typ)
    OBVIOUS
  <1>2. PICK f : f = ValuesIn(data, typ)
    OBVIOUS
  <1>3. /\ f \in Seq(Seq(Byte)) /\ Len(f) = Cardinality(H)
        /\ \A j \in 1..Len(f) : \E y \in H : Cardinality(Before(H, y)) = j - 1 /\ f[j] = ValueOf(data, y)
    <2>1. InOrder(f, H, data)
      BY <1>1, <1>2, AllAreRead, Zenon
    <2> QED
      BY <2>1, Zenon DEF InOrder
  <1>4. PICK n \in Nat : n = Len(f)
    BY <1>3, LenProperties
  <1>5. PICK B : B = Seq(Byte)
    OBVIOUS
  <1>6. f \in [1..n -> B]
    BY <1>3, <1>4, <1>5, LenProperties
  <1>7. \A y \in H : y \in Nat
    <2>1. H \subseteq 1..Len(data)
      BY <1>1, HitsType
    <2> QED
      BY <2>1
  <1>8. ASSUME NEW y \in H, NEW x \in H, Cardinality(Before(H, y)) = Cardinality(Before(H, x))
        PROVE  x = y
    <2>1. x \in Nat /\ y \in Nat
      BY <1>7
    <2>2. Cardinality(Before(H, y)) \in Nat
      BY <1>1, HitsType
    <2>3. ~(x < y)
      <3> SUFFICES ASSUME x < y PROVE FALSE
        OBVIOUS
      <3>1. Cardinality(Before(H, x)) < Cardinality(Before(H, y))
        BY <1>1, <2>1, BeforeGrows
      <3> QED
        BY <1>8, <2>2, <3>1
    <2>4. ~(y < x)
      <3> SUFFICES ASSUME y < x PROVE FALSE
        OBVIOUS
      <3>1. Cardinality(Before(H, y)) < Cardinality(Before(H, x))
        BY <1>1, <2>1, BeforeGrows
      <3> QED
        BY <1>8, <2>2, <3>1
    <2> QED
      BY <2>1, <2>3, <2>4
  <1>9. ASSUME NEW k \in 1..n
        PROVE  f[k] = ValueOf(data, CHOOSE x \in H : Cardinality(Before(H, x)) = k - 1)
    <2>1. PICK y \in H : Cardinality(Before(H, y)) = k - 1 /\ f[k] = ValueOf(data, y)
      BY <1>3, <1>4
    <2>2. PICK m : m = k - 1
      OBVIOUS
    <2>3. PICK c : c = CHOOSE x \in H : Cardinality(Before(H, x)) = m
      OBVIOUS
    <2>4. c \in H /\ Cardinality(Before(H, c)) = m
      BY <2>1, <2>2, <2>3, Zenon
    <2>5. c = y
      BY <1>8, <2>1, <2>2, <2>4, Zenon
    <2> QED
      BY <2>1, <2>2, <2>3, <2>5, Zenon
  <1>10. PICK want : want = [k \in 1..n |-> ValueOf(data, CHOOSE x \in H : Cardinality(Before(H, x)) = k - 1)]
    OBVIOUS
  <1>11. f = want
    <2>1. DOMAIN f = 1..n /\ f = [k \in 1..n |-> f[k]]
      BY <1>6
    <2> QED
      BY <1>9, <1>10, <2>1, Zenon
  <1>12. want = [k \in 1..Cardinality(H) |-> ValueOf(data, CHOOSE x \in H : Cardinality(Before(H, x)) = k - 1)]
    BY <1>3, <1>4, <1>10, Zenon
  <1> QED
    BY <1>1, <1>2, <1>11, <1>12, Zenon DEF ReadAs

LEMMA ReceivedList ==
  ASSUME received, IInv
  PROVE  list \in Seq(Vsa) /\ DOMAIN list = 1..Len(list)
  <1>1. list \in OnTheWire
    BY ReceivedAssumption DEF IInv
  <1>2. list \in Seq(Vsa)
    BY <1>1 DEF OnTheWire, Vsa
  <1> QED
    BY <1>2, LenProperties

LEMMA ReadWhole == IInv => ReadsWholePrefix
  <1> SUFFICES ASSUME IInv PROVE ReadsWholePrefix
    OBVIOUS
  <1>1. ASSUME received, NEW i \in DOMAIN list, NEW a \in attributes
        PROVE  ReadAs(list[i].data, a.typ)
    <2>1. list[i] \in Vsa
      BY <1>1, ReceivedList, ElementOfSeq
    <2>2. list[i].data \in Seq(Byte)
      BY <2>1 DEF Vsa
    <2> QED
      BY <2>2, WholePrefix
  <1> QED
    BY <1>1, Zenon DEF ReadsWholePrefix, ReadAs, HitsIn, Before, ValueOf

LEMMA ReadLocal == IInv => ReadsAreLocal
  <1> SUFFICES ASSUME IInv, received, NEW a \in attributes
               PROVE  /\ LET all == GetsVendor(list, a.typ) IN
                         LookupVendor(list, a.typ) = IF all = << >> THEN all ELSE <<Head(all)>>
                      /\ \A i \in DOMAIN list :
                            (~Ours(list[i]) \/ Starts(list[i].data) = {1}) /\ ValuesIn(list[i].data, a.typ) = << >> =>
                                GetsVendor(RemoveAt(list, i), a.typ) = GetsVendor(list, a.typ)
    BY Zenon DEF ReadsAreLocal
  <1>1. list \in Seq(Vsa) /\ DOMAIN list = 1..Len(list)
    BY ReceivedList
  <1>2. LookupVendor(list, a.typ) = FirstOf(GetsVendor(list, a.typ))
    BY <1>1, LookupIsFirst
  <1>3. PICK all : all = GetsVendor(list, a.typ)
    OBVIOUS
  <1>4. LookupVendor(list, a.typ) = IF all = << >> THEN all ELSE <<Head(all)>>
    <2>1. CASE all = << >>
      BY <1>2, <1>3, <2>1, Zenon DEF FirstOf
    <2>2. CASE all # << >>
      BY <1>2, <1>3, <2>2, Zenon DEF FirstOf
    <2> QED
      BY <2>1, <2>2
  <1>5. ASSUME NEW i \in DOMAIN list, ValuesIn(list[i].data, a.typ) = << >>
        PROVE  GetsVendor(RemoveAt(list, i), a.typ) = GetsVendor(list, a.typ)
    <2>1. Part(list[i], a.typ) = << >>
      BY <1>5, Zenon DEF Part
    <2> QED
      BY <1>1, <2>1, GetsOfRemoval
  <1> QED
    BY <1>3, <1>4, <1>5, Zenon

-----------------------------------------------------------------------------
LEMMA Invariance == Spec => []IInv
  <1>1. Init => IInv
    BY Start
  <1>2. IInv /\ [Next]_vars => IInv'
    BY Step
  <1> QED
    BY <1>1, <1>2, PTL DEF Spec

(* Whatever the accessors, the extra attributes and other vendors have put *)
(* into a packet, every attribute of the dictionary reads back as what was *)
(* stored under its name, for every history, value and tag. *)
THEOREM WhatIsWrittenReadsBack == Spec => []WritesReadBack
  <1>1. IInv => WritesReadBack
    BY Typed, ReadBack DEF WritesReadBack
  <1> QED
    BY <1>1, Invariance, PTL

(* Set of an attribute that is not there adds it, Set of one that is there *)
(* panics with the packet as it was; Del ends if and only if every attribute *)
(* is ours: for every history, value, tag and length of the packet. *)
THEOREM SetAndDelAreSafe == Spec => []ChangesAreSafe
  BY Safe, Invariance, PTL

(* Whatever bytes a NAS sent, the values of an attribute are those of its *)
(* whole sub-attributes up to the first broken one, in order; Lookup is the *)
(* first of them, and a broken or foreign attribute hides nothing of others. *)
THEOREM ReceivedPrefixIsRead == Spec => []ReceivedIsRead
  <1>1. IInv => ReceivedIsRead
    BY ReadWhole, ReadLocal DEF ReceivedIsRead
  <1> QED
    BY <1>1, Invariance, PTL
=============================================================================
