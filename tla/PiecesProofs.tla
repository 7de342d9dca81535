---------------------------- MODULE PiecesProofs ----------------------------
(***************************************************************************)
(* Facts about the pieces of a sequence.  Each is shown by looking at the  *)
(* first place where it would fail.                                        *)
(***************************************************************************)
EXTENDS Pieces, WellFoundedInduction, TLAPS

\* A set of numbers that is not empty has a least one.
LEMMA Least ==
  ASSUME NEW S \in SUBSET Nat, S # {}
  PROVE  \E least \in S : \A k \in S : least <= k
<1>1. PICK least \in S : \A k \in S : <<k, least>> \notin OpToRel(<, Nat)
  BY WFMin, NatLessThanWellFounded, Zenon
<1>2. ASSUME NEW k \in S PROVE least <= k
  <2>1. ~(k < least)
    BY <1>1, Zenon DEF OpToRel
  <2> QED
    BY <2>1
<1> QED
  BY <1>2

\* upTo of InOrder.
Grows(upTo, piece, n) ==
  upTo = [i \in 0..n |-> IF i = 0 THEN <<>>
                         ELSE IF i \in DOMAIN piece THEN Append(upTo[i - 1], piece[i]) ELSE upTo[i - 1]]

LEMMA GrowsExists ==
  ASSUME NEW piece, NEW n \in Nat
  PROVE  \E upTo : Grows(upTo, piece, n)
<1> DEFINE bad == {m \in Nat : ~\E upTo : Grows(upTo, piece, m)}
<1>1. SUFFICES ASSUME bad # {} PROVE FALSE
  OBVIOUS
<1>2. PICK m \in bad : \A k \in bad : m <= k
  <2> HIDE DEF bad
  <2>1. bad \subseteq Nat
    BY DEF bad
  <2> QED
    BY <1>1, <2>1, Least
<1>3. m # 0
  <2>1. Grows([i \in 0..0 |-> <<>>], piece, 0)
    BY DEF Grows
  <2> QED
    BY <2>1
<1>4. PICK before \in Nat : m = before + 1
  <2>1. m \in Nat /\ m - 1 \in Nat /\ m = (m - 1) + 1
    BY <1>3
  <2> QED
    BY <2>1
<1>5. PICK upTo : Grows(upTo, piece, before)
  BY <1>2, <1>4
<1> DEFINE next == [i \in 0..m |->
                     IF i < m THEN upTo[i]
                     ELSE IF m \in DOMAIN piece THEN Append(upTo[before], piece[m]) ELSE upTo[before]]
<1>6. \A i \in 0..m : i # 0 => i - 1 \in 0..before /\ next[i - 1] = upTo[i - 1]
  BY <1>4
<1>7. ASSUME NEW i \in 0..m
      PROVE  next[i] = IF i = 0 THEN <<>>
                       ELSE IF i \in DOMAIN piece THEN Append(next[i - 1], piece[i]) ELSE next[i - 1]
  <2>1. CASE i < m
    <3>1. i \in 0..before /\ next[i] = upTo[i]
      BY <1>4, <2>1
    <3>2. upTo[i] = IF i = 0 THEN <<>>
                    ELSE IF i \in DOMAIN piece THEN Append(upTo[i - 1], piece[i]) ELSE upTo[i - 1]
      BY <1>5, <3>1 DEF Grows
    <3> HIDE DEF next
    <3> QED
      BY <1>6, <3>1, <3>2
  <2>2. CASE i = m
    <3>1. i - 1 = before /\ i # 0
      BY <1>4, <2>2
    <3>2. next[i] = IF m \in DOMAIN piece THEN Append(upTo[before], piece[m]) ELSE upTo[before]
      BY <2>2
    <3> HIDE DEF next
    <3> QED
      BY <1>6, <2>2, <3>1, <3>2
  <2> QED
    BY <2>1, <2>2
<1>8. next = [i \in 0..m |-> next[i]]
  OBVIOUS
<1> HIDE DEF next
<1>9. Grows(next, piece, m)
  BY <1>7, <1>8 DEF Grows
<1> QED
  BY <1>9

LEMMA InOrderGrows ==
  ASSUME NEW piece, NEW n \in Nat
  PROVE  \E upTo : Grows(upTo, piece, n) /\ InOrder(piece, n) = upTo[n]
<1> DEFINE it == CHOOSE upTo : Grows(upTo, piece, n)
<1>1. Grows(it, piece, n)
  BY GrowsExists
<1>2. InOrder(piece, n) = it[n]
  BY DEF InOrder, Grows
<1> QED
  BY <1>1, <1>2

\* What it depends on: the pieces up to n.
Agree(piece, other, n) ==
  \A i \in 1..n : (i \in DOMAIN piece <=> i \in DOMAIN other) /\ (i \in DOMAIN piece => piece[i] = other[i])

LEMMA GrowsAgree ==
  ASSUME NEW piece, NEW other, NEW n \in Nat, NEW m \in Nat, NEW k \in Nat, k <= n, k <= m,
         Agree(piece, other, k), NEW f, Grows(f, piece, n), NEW g, Grows(g, other, m)
  PROVE  f[k] = g[k]
<1> DEFINE bad == {i \in 0..k : f[i] # g[i]}
<1>1. SUFFICES ASSUME bad # {} PROVE FALSE
  OBVIOUS
<1>2. PICK i \in bad : \A j \in bad : i <= j
  <2> HIDE DEF bad
  <2>1. bad \subseteq Nat
    BY DEF bad
  <2> QED
    BY <1>1, <2>1, Least
<1>3. i \in 0..k /\ i \in 0..n /\ i \in 0..m /\ f[i] # g[i]
  OBVIOUS
<1>4. /\ f[i] = IF i = 0 THEN <<>>
                ELSE IF i \in DOMAIN piece THEN Append(f[i - 1], piece[i]) ELSE f[i - 1]
      /\ g[i] = IF i = 0 THEN <<>>
                ELSE IF i \in DOMAIN other THEN Append(g[i - 1], other[i]) ELSE g[i - 1]
  BY <1>3 DEF Grows
<1>5. i # 0
  BY <1>3, <1>4
<1>6. i \in 1..k /\ i - 1 \in 0..k /\ ~(i <= i - 1)
  BY <1>3, <1>5
<1>7. f[i - 1] = g[i - 1]
  BY <1>2, <1>6
<1> QED
  BY <1>3, <1>4, <1>5, <1>6, <1>7 DEF Agree

LEMMA InOrderAgree ==
  ASSUME NEW piece, NEW other, NEW n \in Nat, Agree(piece, other, n)
  PROVE  InOrder(piece, n) = InOrder(other, n)
<1>1. PICK f : Grows(f, piece, n) /\ InOrder(piece, n) = f[n]
  BY InOrderGrows
<1>2. PICK g : Grows(g, other, n) /\ InOrder(other, n) = g[n]
  BY InOrderGrows
<1>3. n <= n
  OBVIOUS
<1>4. f[n] = g[n]
  BY <1>1, <1>2, <1>3, GrowsAgree
<1> QED
  BY <1>1, <1>2, <1>4

LEMMA InOrderEmpty ==
  ASSUME NEW piece
  PROVE  InOrder(piece, 0) = <<>>
<1>1. PICK f : Grows(f, piece, 0) /\ InOrder(piece, 0) = f[0]
  BY InOrderGrows
<1> QED
  BY <1>1 DEF Grows

\* One place more.
LEMMA InOrderStep ==
  ASSUME NEW piece, NEW n \in Nat, NEW next, next = n + 1
  PROVE  InOrder(piece, next) = IF next \in DOMAIN piece THEN Append(InOrder(piece, n), piece[next])
                                                         ELSE InOrder(piece, n)
<1>1. PICK f : Grows(f, piece, next) /\ InOrder(piece, next) = f[next]
  BY InOrderGrows
<1>2. PICK g : Grows(g, piece, n) /\ InOrder(piece, n) = g[n]
  BY InOrderGrows
<1>3. Agree(piece, piece, n) /\ next \in Nat /\ n <= next /\ n <= n
  BY DEF Agree
<1>4. f[n] = g[n]
  BY <1>1, <1>2, <1>3, GrowsAgree
<1>5. next \in 0..next /\ next # 0 /\ next - 1 = n
  OBVIOUS
<1>6. f[next] = IF next \in DOMAIN piece THEN Append(f[n], piece[next]) ELSE f[n]
  BY <1>1, <1>5 DEF Grows
<1> QED
  BY <1>1, <1>2, <1>4, <1>6

LEMMA InOrderType ==
  ASSUME NEW S, NEW piece, NEW n \in Nat, \A i \in 1..n : i \in DOMAIN piece => piece[i] \in S
  PROVE  InOrder(piece, n) \in Seq(S)
<1> DEFINE bad == {i \in 0..n : InOrder(piece, i) \notin Seq(S)}
<1>1. SUFFICES ASSUME bad # {} PROVE FALSE
  OBVIOUS
<1>2. PICK i \in bad : \A j \in bad : i <= j
  <2> HIDE DEF bad
  <2>1. bad \subseteq Nat
    BY DEF bad
  <2> QED
    BY <1>1, <2>1, Least
<1>3. i # 0
  <2>1. InOrder(piece, i) \notin Seq(S)
    OBVIOUS
  <2> HIDE DEF bad
  <2>2. <<>> \in Seq(S)
    OBVIOUS
  <2>3. InOrder(piece, 0) \in Seq(S)
    BY <2>2, InOrderEmpty, Zenon
  <2> QED
    BY <2>1, <2>3
<1>4. PICK k \in Nat : i = k + 1
  <2>1. i - 1 \in Nat /\ i = (i - 1) + 1
    BY <1>3
  <2> QED
    BY <2>1
<1>5. InOrder(piece, k) \in Seq(S)
  BY <1>2, <1>4
<1>6. InOrder(piece, i) = IF i \in DOMAIN piece THEN Append(InOrder(piece, k), piece[i])
                                                 ELSE InOrder(piece, k)
  BY <1>4, InOrderStep
<1>7. i \in 1..n /\ InOrder(piece, i) \notin Seq(S)
  BY <1>3
<1> QED
  BY <1>5, <1>6, <1>7

IsStart(s, t) == Len(s) <= Len(t) /\ \A i \in DOMAIN s : i \in DOMAIN t /\ t[i] = s[i]

\* What stands up to a place is a beginning of what stands up to a later one.
LEMMA InOrderStart ==
  ASSUME NEW S, NEW piece, NEW n \in Nat, NEW m \in Nat, n <= m,
         \A i \in 1..m : i \in DOMAIN piece => piece[i] \in S
  PROVE  IsStart(InOrder(piece, n), InOrder(piece, m))
<1> DEFINE bad == {i \in n..m : ~IsStart(InOrder(piece, n), InOrder(piece, i))}
<1>1. SUFFICES ASSUME bad # {} PROVE FALSE
  OBVIOUS
<1>2. PICK i \in bad : \A j \in bad : i <= j
  <2> HIDE DEF bad
  <2>1. bad \subseteq Nat
    BY DEF bad
  <2> QED
    BY <1>1, <2>1, Least
<1>3. InOrder(piece, n) \in Seq(S)
  BY InOrderType
<1>4. i # n
  <2>1. IsStart(InOrder(piece, n), InOrder(piece, n))
    BY <1>3 DEF IsStart
  <2> QED
    BY <2>1
<1>5. PICK k \in Nat : i = k + 1
  <2>1. i - 1 \in Nat /\ i = (i - 1) + 1
    BY <1>4
  <2> QED
    BY <2>1
<1>6. InOrder(piece, k) \in Seq(S)
  BY <1>5, InOrderType
<1>7. IsStart(InOrder(piece, n), InOrder(piece, k))
  BY <1>2, <1>4, <1>5
<1>8. InOrder(piece, i) = IF i \in DOMAIN piece THEN Append(InOrder(piece, k), piece[i])
                                                 ELSE InOrder(piece, k)
  BY <1>5, InOrderStep
<1>9. IsStart(InOrder(piece, n), InOrder(piece, i))
  <2> DEFINE s == InOrder(piece, n)
             t == InOrder(piece, k)
  <2>1. CASE i \in DOMAIN piece
    <3>1. piece[i] \in S
      BY <1>4, <2>1
    <3>2. s \in Seq(S) /\ t \in Seq(S) /\ IsStart(s, t) /\ InOrder(piece, i) = Append(t, piece[i])
      BY <1>3, <1>6, <1>7, <1>8, <2>1
    <3> HIDE DEF s, t
    <3>3. IsStart(s, Append(t, piece[i]))
      BY <3>1, <3>2 DEF IsStart
    <3> QED
      BY <3>2, <3>3 DEF s
  <2>2. CASE i \notin DOMAIN piece
    BY <1>7, <1>8, <2>2
  <2> QED
    BY <2>1, <2>2
<1> QED
  BY <1>9

\* Places without a piece add nothing.
LEMMA InOrderIdle ==
  ASSUME NEW piece, NEW n \in Nat, NEW m \in Nat, n <= m,
         \A i \in DOMAIN piece : i \notin (n + 1)..m
  PROVE  InOrder(piece, m) = InOrder(piece, n)
<1> DEFINE bad == {i \in n..m : InOrder(piece, i) # InOrder(piece, n)}
<1>1. SUFFICES ASSUME bad # {} PROVE FALSE
  OBVIOUS
<1>2. PICK i \in bad : \A j \in bad : i <= j
  <2> HIDE DEF bad
  <2>1. bad \subseteq Nat
    BY DEF bad
  <2> QED
    BY <1>1, <2>1, Least
<1>3. i \in n..m /\ i # n /\ InOrder(piece, i) # InOrder(piece, n)
  OBVIOUS
<1>4. PICK k \in Nat : i = k + 1
  <2>1. i - 1 \in Nat /\ i = (i - 1) + 1
    BY <1>3
  <2> QED
    BY <2>1
<1>5. InOrder(piece, k) = InOrder(piece, n)
  BY <1>2, <1>3, <1>4
<1>6. i \in (n + 1)..m
  BY <1>3
<1>7. InOrder(piece, i) = InOrder(piece, k)
  BY <1>4, <1>6, InOrderStep
<1> QED
  BY <1>3, <1>5, <1>7

\* Places without a piece in front of the others only shift those.
LEMMA InOrderShift ==
  ASSUME NEW piece, NEW other, NEW n \in Nat, NEW m \in Nat,
         \A i \in DOMAIN piece : i \notin 1..n,
         \A i \in 1..m : /\ n + i \in DOMAIN piece <=> i \in DOMAIN other
                         /\ i \in DOMAIN other => piece[n + i] = other[i]
  PROVE  InOrder(piece, n + m) = InOrder(other, m)
<1> DEFINE bad == {i \in 0..m : InOrder(piece, n + i) # InOrder(other, i)}
<1>1. SUFFICES ASSUME bad # {} PROVE FALSE
  OBVIOUS
<1>2. PICK i \in bad : \A j \in bad : i <= j
  <2> HIDE DEF bad
  <2>1. bad \subseteq Nat
    BY DEF bad
  <2> QED
    BY <1>1, <2>1, Least
<1>3. i # 0
  <2>1. \A j \in DOMAIN piece : j \notin (0 + 1)..n
    OBVIOUS
  <2>2. InOrder(piece, n) = InOrder(piece, 0)
    BY <2>1, InOrderIdle
  <2>3. InOrder(piece, n) = InOrder(other, 0)
    BY <2>2, InOrderEmpty
  <2>4. n + 0 = n
    OBVIOUS
  <2> QED
    BY <2>3, <2>4
<1>4. PICK k \in Nat : i = k + 1
  <2>1. i - 1 \in Nat /\ i = (i - 1) + 1
    BY <1>3
  <2> QED
    BY <2>1
<1>5. InOrder(piece, n + k) = InOrder(other, k)
  BY <1>2, <1>4
<1>6. PICK p \in Nat, q \in Nat : p = n + k /\ q = n + i /\ q = p + 1
  BY <1>4
<1>7. InOrder(piece, q) = IF q \in DOMAIN piece THEN Append(InOrder(piece, p), piece[q])
                                                ELSE InOrder(piece, p)
  BY <1>6, InOrderStep
<1>8. InOrder(other, i) = IF i \in DOMAIN other THEN Append(InOrder(other, k), other[i])
                                                ELSE InOrder(other, k)
  BY <1>4, InOrderStep
<1>9. i \in 1..m
  BY <1>3
<1>10. /\ q \in DOMAIN piece <=> i \in DOMAIN other
       /\ i \in DOMAIN other => piece[q] = other[i]
  BY <1>6, <1>9
<1>11. InOrder(piece, q) = InOrder(other, i)
  BY <1>5, <1>6, <1>7, <1>8, <1>10
<1> QED
  BY <1>2, <1>6, <1>11

-----------------------------------------------------------------------------
(* Groups: the pieces between marks.                                       *)

\* The pieces that Between puts in order.
Those(piece, marks, k) ==
  [i \in {j \in DOMAIN piece : j < k /\ \A m \in marks : ~(j <= m /\ m < k)} |-> piece[i]]

LEMMA BetweenFirst ==
  ASSUME NEW piece, NEW marks
  PROVE  Between(piece, marks, 1) = <<>>
BY InOrderEmpty DEF Between

\* What it depends on: the pieces and the marks in front of k.
LEMMA BetweenAgree ==
  ASSUME NEW piece, NEW other, NEW marks \in SUBSET Nat, NEW others \in SUBSET Nat,
         NEW n \in Nat, NEW k, k = n + 1,
         Agree(piece, other, n), \A i \in 1..n : i \in marks <=> i \in others
  PROVE  Between(piece, marks, k) = Between(other, others, k)
<1>1. ASSUME NEW i \in 1..n
      PROVE  /\ i \in DOMAIN Those(piece, marks, k) <=> i \in DOMAIN Those(other, others, k)
             /\ i \in DOMAIN Those(piece, marks, k)
                  => Those(piece, marks, k)[i] = Those(other, others, k)[i]
  <2>1. \A m \in marks : (i <= m /\ m < k) => m \in 1..n
    OBVIOUS
  <2>2. \A m \in others : (i <= m /\ m < k) => m \in 1..n
    OBVIOUS
  <2>3. (\A m \in marks : ~(i <= m /\ m < k)) <=> (\A m \in others : ~(i <= m /\ m < k))
    BY <2>1, <2>2
  <2>4. i \in DOMAIN piece <=> i \in DOMAIN other
    BY DEF Agree
  <2>5. i \in DOMAIN piece => piece[i] = other[i]
    BY DEF Agree
  <2> QED
    BY <2>3, <2>4, <2>5 DEF Those
<1>2. Agree(Those(piece, marks, k), Those(other, others, k), n)
  BY <1>1 DEF Agree
<1>3. InOrder(Those(piece, marks, k), n) = InOrder(Those(other, others, k), n)
  BY <1>2, InOrderAgree
<1>4. k - 1 = n
  OBVIOUS
<1> QED
  BY <1>3, <1>4 DEF Between, Those

\* One place more: a mark ends the group, a piece belongs to it.
LEMMA BetweenStep ==
  ASSUME NEW piece, NEW marks \in SUBSET Nat, NEW k \in Nat, k > 0, NEW next, next = k + 1
  PROVE  /\ k \in marks => Between(piece, marks, next) = <<>>
         /\ k \notin marks /\ k \in DOMAIN piece
              => Between(piece, marks, next) = Append(Between(piece, marks, k), piece[k])
         /\ k \notin marks /\ k \notin DOMAIN piece
              => Between(piece, marks, next) = Between(piece, marks, k)
<1>0. PICK n \in Nat : k = n + 1
  <2>1. k - 1 \in Nat /\ k = (k - 1) + 1
    OBVIOUS
  <2> QED
    BY <2>1
<1>1. next - 1 = k /\ k - 1 = n
  BY <1>0
<1>2. Between(piece, marks, next) = InOrder(Those(piece, marks, next), k)
  BY <1>1 DEF Between, Those
<1>3. Between(piece, marks, k) = InOrder(Those(piece, marks, k), n)
  BY <1>1 DEF Between, Those
<1>4. CASE k \in marks
  <2>1. ASSUME NEW i \in DOMAIN Those(piece, marks, next) PROVE i \notin (0 + 1)..k
    <3>1. i < next /\ ~(i <= k /\ k < next)
      BY <1>4 DEF Those
    <3>2. k < next
      OBVIOUS
    <3> QED
      BY <3>1, <3>2
  <2>2. InOrder(Those(piece, marks, next), k) = InOrder(Those(piece, marks, next), 0)
    <3>1. 0 \in Nat /\ 0 <= k
      OBVIOUS
    <3> QED
      BY <1>1, <2>1, <3>1, InOrderIdle
  <2> QED
    BY <1>2, <1>4, <2>2, InOrderEmpty
<1>5. CASE k \notin marks
  <2>1. ASSUME NEW i \in 1..k
        PROVE  (\A m \in marks : ~(i <= m /\ m < next)) <=> (\A m \in marks : ~(i <= m /\ m < k))
    <3>1. \A m \in marks : m < next <=> m < k
      BY <1>1, <1>5
    <3> QED
      BY <3>1
  <2>2. ASSUME NEW i \in 1..n
        PROVE  /\ i \in DOMAIN Those(piece, marks, next) <=> i \in DOMAIN Those(piece, marks, k)
               /\ i \in DOMAIN Those(piece, marks, next)
                    => Those(piece, marks, next)[i] = Those(piece, marks, k)[i]
    <3>1. i \in 1..k /\ i < next /\ i < k
      BY <1>0
    <3> QED
      BY <2>1, <3>1 DEF Those
  <2>3. InOrder(Those(piece, marks, next), n) = InOrder(Those(piece, marks, k), n)
    <3>1. Agree(Those(piece, marks, next), Those(piece, marks, k), n)
      BY <2>2 DEF Agree
    <3> QED
      BY <3>1, InOrderAgree
  <2>4. InOrder(Those(piece, marks, next), k) =
          IF k \in DOMAIN Those(piece, marks, next)
          THEN Append(InOrder(Those(piece, marks, next), n), Those(piece, marks, next)[k])
          ELSE InOrder(Those(piece, marks, next), n)
    BY <1>0, InOrderStep
  <2>5. /\ k \in DOMAIN Those(piece, marks, next) <=> k \in DOMAIN piece
        /\ k \in DOMAIN piece => Those(piece, marks, next)[k] = piece[k]
    <3>1. k < next /\ \A m \in marks : ~(k <= m /\ m < next)
      BY <1>1, <1>5
    <3> QED
      BY <3>1 DEF Those
  <2> QED
    BY <1>2, <1>3, <1>5, <2>3, <2>4, <2>5
<1> QED
  BY <1>4, <1>5

LEMMA BetweenType ==
  ASSUME NEW S, NEW piece, NEW marks, NEW n \in Nat, NEW k, k = n + 1,
         \A i \in 1..n : i \in DOMAIN piece => piece[i] \in S
  PROVE  Between(piece, marks, k) \in Seq(S)
<1>1. \A i \in 1..n : i \in DOMAIN Those(piece, marks, k) => Those(piece, marks, k)[i] \in S
  BY DEF Those
<1>2. k - 1 = n
  OBVIOUS
<1> QED
  BY <1>1, <1>2, InOrderType DEF Between, Those

\* The groups that marks end.
Ended(piece, marks) == [k \in marks |-> Between(piece, marks, k)]

LEMMA EndedAgree ==
  ASSUME NEW piece, NEW other, NEW marks \in SUBSET Nat, NEW others \in SUBSET Nat, NEW n \in Nat,
         Agree(piece, other, n), \A i \in 1..n : i \in marks <=> i \in others
  PROVE  InOrder(Ended(piece, marks), n) = InOrder(Ended(other, others), n)
<1>1. ASSUME NEW i \in 1..n, i \in marks
      PROVE  Ended(piece, marks)[i] = Ended(other, others)[i]
  <2>1. PICK m \in Nat : i = m + 1
    <3>1. i - 1 \in Nat /\ i = (i - 1) + 1
      OBVIOUS
    <3> QED
      BY <3>1
  <2>2. Agree(piece, other, m) /\ \A j \in 1..m : j \in marks <=> j \in others
    <3>1. \A j \in 1..m : j \in 1..n
      BY <2>1
    <3> QED
      BY <3>1 DEF Agree
  <2>3. Between(piece, marks, i) = Between(other, others, i)
    BY <2>1, <2>2, BetweenAgree
  <2> QED
    BY <1>1, <2>3 DEF Ended
<1>2. Agree(Ended(piece, marks), Ended(other, others), n)
  BY <1>1 DEF Agree, Ended
<1> QED
  BY <1>2, InOrderAgree

LEMMA EndedType ==
  ASSUME NEW S, NEW piece, NEW marks \in SUBSET Nat, NEW n \in Nat,
         \A i \in 1..n : i \in DOMAIN piece => piece[i] \in S
  PROVE  InOrder(Ended(piece, marks), n) \in Seq(Seq(S))
<1>1. ASSUME NEW i \in 1..n, i \in marks
      PROVE  Ended(piece, marks)[i] \in Seq(S)
  <2>1. PICK m \in Nat : i = m + 1
    <3>1. i - 1 \in Nat /\ i = (i - 1) + 1
      OBVIOUS
    <3> QED
      BY <3>1
  <2>2. \A j \in 1..m : j \in DOMAIN piece => piece[j] \in S
    BY <2>1
  <2>3. Between(piece, marks, i) \in Seq(S)
    BY <2>1, <2>2, BetweenType
  <2> QED
    BY <1>1, <2>3 DEF Ended
<1>2. \A i \in 1..n : i \in DOMAIN Ended(piece, marks) => Ended(piece, marks)[i] \in Seq(S)
  BY <1>1 DEF Ended
<1> QED
  BY <1>2, InOrderType

\* The groups are those that have ended and the one that has not.
LEMMA GroupsParts ==
  ASSUME NEW S, NEW piece, NEW marks \in SUBSET Nat, NEW n \in Nat, NEW k, k = n + 1,
         \A i \in 1..n : i \in DOMAIN piece => piece[i] \in S
  PROVE  /\ Groups(piece, marks, n) = Append(InOrder(Ended(piece, marks), n), Between(piece, marks, k))
         /\ InOrder(Ended(piece, marks), n) \in Seq(Seq(S))
         /\ Between(piece, marks, k) \in Seq(S)
BY EndedType, BetweenType DEF Groups, Ended

LEMMA GroupsFirst ==
  ASSUME NEW piece, NEW marks \in SUBSET Nat
  PROVE  Groups(piece, marks, 0) = << <<>> >>
<1>1. Between(piece, marks, 0 + 1) = <<>>
  <2>1. 0 + 1 = 1
    OBVIOUS
  <2> QED
    BY <2>1, BetweenFirst, Zenon
<1>2. InOrder(Ended(piece, marks), 0) = <<>>
  BY InOrderEmpty
<1>3. Groups(piece, marks, 0) = Append(<<>>, <<>>)
  BY <1>1, <1>2, Zenon DEF Groups, Ended
<1> QED
  BY <1>3

LEMMA GroupsAgree ==
  ASSUME NEW piece, NEW other, NEW marks \in SUBSET Nat, NEW others \in SUBSET Nat, NEW n \in Nat,
         Agree(piece, other, n), \A i \in 1..n : i \in marks <=> i \in others
  PROVE  Groups(piece, marks, n) = Groups(other, others, n)
<1>1. PICK k : k = n + 1
  OBVIOUS
<1>2. Between(piece, marks, k) = Between(other, others, k)
  BY <1>1, BetweenAgree
<1>3. InOrder(Ended(piece, marks), n) = InOrder(Ended(other, others), n)
  BY EndedAgree
<1> QED
  BY <1>1, <1>2, <1>3 DEF Groups, Ended

\* One place more: what it makes of the groups `ended` and the one `open` behind them.
GroupsFrom(piece, marks, n, k, ended, open) ==
  /\ Groups(piece, marks, n) = Append(ended, open)
  /\ k \in marks => Groups(piece, marks, k) = Append(Append(ended, open), <<>>)
  /\ k \notin marks /\ k \in DOMAIN piece
       => Groups(piece, marks, k) = Append(ended, Append(open, piece[k]))
  /\ k \notin marks /\ k \notin DOMAIN piece => Groups(piece, marks, k) = Append(ended, open)

LEMMA GroupsStep ==
  ASSUME NEW piece, NEW marks \in SUBSET Nat, NEW n \in Nat, NEW k, k = n + 1
  PROVE  GroupsFrom(piece, marks, n, k, InOrder(Ended(piece, marks), n), Between(piece, marks, k))
<1> DEFINE ended == InOrder(Ended(piece, marks), n)
           open == Between(piece, marks, k)
<1>1. PICK next : next = k + 1
  OBVIOUS
<1>2. Groups(piece, marks, n) = Append(ended, open)
  BY DEF Groups, Ended
<1>3. Groups(piece, marks, k) = Append(InOrder(Ended(piece, marks), k), Between(piece, marks, next))
  BY <1>1 DEF Groups, Ended
<1>4. InOrder(Ended(piece, marks), k) = IF k \in marks THEN Append(ended, open) ELSE ended
  <2>1. InOrder(Ended(piece, marks), k) =
          IF k \in DOMAIN Ended(piece, marks)
          THEN Append(InOrder(Ended(piece, marks), n), Ended(piece, marks)[k])
          ELSE InOrder(Ended(piece, marks), n)
    BY InOrderStep
  <2>2. DOMAIN Ended(piece, marks) = marks /\ (k \in marks => Ended(piece, marks)[k] = open)
    BY DEF Ended
  <2> QED
    BY <2>1, <2>2
<1>5. k \in Nat /\ k > 0
  OBVIOUS
<1>6. /\ k \in marks => Between(piece, marks, next) = <<>>
      /\ k \notin marks /\ k \in DOMAIN piece
           => Between(piece, marks, next) = Append(Between(piece, marks, k), piece[k])
      /\ k \notin marks /\ k \notin DOMAIN piece => Between(piece, marks, next) = Between(piece, marks, k)
  BY <1>1, <1>5, BetweenStep
<1> QED
  BY <1>2, <1>3, <1>4, <1>6 DEF GroupsFrom
=============================================================================
