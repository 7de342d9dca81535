------------------------- MODULE ConversationProofs -------------------------
(***************************************************************************)
(* Lemmas about the operators of Conversation: what joining, cutting and   *)
(* compacting message sequences does to their validity.                    *)
(***************************************************************************)
EXTENDS Conversation, FiniteSetTheorems, SequenceTheorems, WellFoundedInduction, TLAPS

-----------------------------------------------------------------------------
(***************************************************************************)
(* The least and the greatest of a set of numbers.                         *)
(***************************************************************************)

\* Among any natural numbers one is the least.
LEMMA LeastOf ==
  ASSUME NEW S \in SUBSET Nat, S # {}
  PROVE  \E n \in S : \A k \in S : n <= k
<1>1. PICK n \in S : \A k \in S : <<k, n>> \notin OpToRel(<, Nat)
  BY WFMin, NatLessThanWellFounded, Zenon
<1>2. ASSUME NEW k \in S PROVE n <= k
  <2>1. <<k, n>> \notin OpToRel(<, Nat)
    BY <1>1
  <2>2. ~(k < n)
    BY <2>1, Zenon DEF OpToRel
  <2>3. QED  BY <2>2
<1>3. QED  BY <1>2

\* Among bounded natural numbers one is the greatest.
LEMMA MaxOf ==
  ASSUME NEW S \in SUBSET Nat, S # {}, NEW b \in Nat, \A k \in S : k <= b
  PROVE  Max(S) \in S /\ \A k \in S : k <= Max(S)
<1> DEFINE gaps == {b - k : k \in S}
<1>1. gaps \in SUBSET Nat /\ gaps # {}
  <2>1. \A k \in S : b - k \in Nat
    OBVIOUS
  <2>2. QED  BY <2>1
<1>2. PICK g \in gaps : \A h \in gaps : g <= h
  BY <1>1, LeastOf, Zenon
<1>3. PICK m \in S : g = b - m
  OBVIOUS
<1>4. \A k \in S : m >= k
  <2>1. \A k \in S : g <= b - k
    BY <1>2
  <2>2. QED  BY <1>3, <2>1
<1>5. QED  BY <1>4 DEF Max

\* The greatest of a set is named by being in it and not below any other.
LEMMA MaxIs ==
  ASSUME NEW S \in SUBSET Nat, NEW m \in S, \A k \in S : k <= m
  PROVE  Max(S) = m
<1>1. Max(S) \in S /\ \A k \in S : Max(S) >= k
  BY DEF Max
<1>2. PICK n \in S : n = Max(S)
  BY <1>1
<1>3. n >= m /\ n <= m /\ n \in Nat /\ m \in Nat
  BY <1>1, <1>2
<1>4. QED  BY <1>2, <1>3

-----------------------------------------------------------------------------
(***************************************************************************)
(* Which calls are pending.                                                *)
(***************************************************************************)

\* While there have been tool messages only, no call is pending.
LEMMA PendingFirst ==
  ASSUME NEW s, NEW i \in Nat, \A j \in 1..(i - 1) : s[j].kind = "tool"
  PROVE  PendingAt(s, i) = {}
BY DEF PendingAt

\* The last message that is no tool message decides what is pending.
LEMMA PendingBehind ==
  ASSUME NEW s, NEW i \in Nat, NEW a \in 1..(i - 1), s[a].kind # "tool",
         \A j \in (a + 1)..(i - 1) : s[j].kind = "tool"
  PROVE  PendingAt(s, i) = ToSet(s[a].calls) \ {s[j].call : j \in (a + 1)..(i - 1)}
<1> DEFINE askers == {j \in 1..(i - 1) : s[j].kind # "tool"}
<1>1. askers \in SUBSET Nat /\ a \in askers /\ \A k \in askers : k <= a
  OBVIOUS
<1>2. Max(askers) = a
  BY <1>1, MaxIs
<1> HIDE DEF askers
<1>3. askers # {}
  BY <1>1
<1>4. QED  BY <1>2, <1>3 DEF PendingAt, askers

\* Unless there have been tool messages only, there is such a message.
LEMMA AskerBehind ==
  ASSUME NEW s, NEW i \in Nat, NEW b \in 1..(i - 1), s[b].kind # "tool"
  PROVE  \E a \in b..(i - 1) : /\ s[a].kind # "tool"
                               /\ \A j \in (a + 1)..(i - 1) : s[j].kind = "tool"
<1> DEFINE askers == {j \in 1..(i - 1) : s[j].kind # "tool"}
<1>1. askers \in SUBSET Nat /\ b \in askers /\ \A k \in askers : k <= i
  OBVIOUS
<1> HIDE DEF askers
<1>2. Max(askers) \in askers /\ \A k \in askers : k <= Max(askers)
  BY <1>1, MaxOf
<1>3. PICK a \in askers : \A k \in askers : k <= a
  BY <1>2
<1>4. /\ a \in b..(i - 1) /\ s[a].kind # "tool"
      /\ \A j \in (a + 1)..(i - 1) : j \notin askers
  BY <1>1, <1>3 DEF askers
<1>5. \A j \in (a + 1)..(i - 1) : s[j].kind = "tool"
  BY <1>4 DEF askers
<1>6. QED  BY <1>4, <1>5

-----------------------------------------------------------------------------
(***************************************************************************)
(* Joining: where the second part does not begin with an answer, both      *)
(* parts are valid on their own, and the calls pending are those of the    *)
(* part a message stands in.                                               *)
(***************************************************************************)

\* What is pending in the first part does not depend on the second.
LEMMA PendingInFirst ==
  ASSUME NEW p \in Seq(Message), NEW t \in Seq(Message), NEW i \in 1..(Len(p) + 1)
  PROVE  PendingAt(p \o t, i) = PendingAt(p, i)
<1> DEFINE s == p \o t
<1>1. i \in Nat /\ \A j \in 1..(i - 1) : s[j] = p[j]
  OBVIOUS
<1> SUFFICES PendingAt(s, i) = PendingAt(p, i)
  OBVIOUS
<1> HIDE DEF s
<1>2. CASE \A j \in 1..(i - 1) : p[j].kind = "tool"
  BY <1>1, <1>2, PendingFirst
<1>3. CASE \E j \in 1..(i - 1) : p[j].kind # "tool"
  <2>1. PICK b \in 1..(i - 1) : p[b].kind # "tool"
    BY <1>3
  <2>2. PICK a \in b..(i - 1) : /\ p[a].kind # "tool"
                                /\ \A j \in (a + 1)..(i - 1) : p[j].kind = "tool"
    BY <1>1, <2>1, AskerBehind
  <2>3. a \in 1..(i - 1) /\ \A j \in (a + 1)..(i - 1) : j \in 1..(i - 1)
    OBVIOUS
  <2>4. PendingAt(p, i) = ToSet(p[a].calls) \ {p[j].call : j \in (a + 1)..(i - 1)}
    BY <1>1, <2>2, <2>3, PendingBehind, SMTT(60)
  <2>5. PendingAt(s, i)
          = ToSet(s[a].calls) \ {s[j].call : j \in (a + 1)..(i - 1)}
    BY <1>1, <2>2, <2>3, PendingBehind
  <2>6. {s[j].call : j \in (a + 1)..(i - 1)} = {p[j].call : j \in (a + 1)..(i - 1)}
    BY <1>1, <2>3
  <2>7. QED  BY <1>1, <2>3, <2>4, <2>5, <2>6
<1>4. QED  BY <1>2, <1>3

\* What is pending behind the start of the second part does not depend on the first.
LEMMA PendingInSecond ==
  ASSUME NEW p \in Seq(Message), NEW t \in Seq(Message), t # <<>>, t[1].kind # "tool",
         NEW i \in 2..(Len(t) + 1)
  PROVE  PendingAt(p \o t, Len(p) + i) = PendingAt(t, i)
<1> DEFINE n == Len(p)
           s == p \o t
<1>1. n \in Nat /\ Len(t) \in Nat /\ s \in Seq(Message) /\ \A j \in 1..Len(t) : s[n + j] = t[j]
      /\ i \in Nat /\ 1 \in 1..(i - 1)
  OBVIOUS
<1>2. PICK a \in 1..(i - 1) : /\ t[a].kind # "tool"
                              /\ \A j \in (a + 1)..(i - 1) : t[j].kind = "tool"
  <2>1. PICK b \in 1..(i - 1) : b = 1
    BY <1>1
  <2> i \in Nat /\ t[b].kind # "tool"
    BY <1>1, <2>1
  <2> HIDE DEF s, n
  <2>2. \E a \in b..(i - 1) : /\ t[a].kind # "tool"
                               /\ \A j \in (a + 1)..(i - 1) : t[j].kind = "tool"
    BY AskerBehind
  <2>3. QED  BY <2>1, <2>2
<1>3. PendingAt(t, i) = ToSet(t[a].calls) \ {t[j].call : j \in (a + 1)..(i - 1)}
  BY <1>1, <1>2, PendingBehind
<1> SUFFICES PendingAt(s, n + i) = PendingAt(t, i)
  OBVIOUS
<1> HIDE DEF n, s
<1>4. PICK k \in Nat : k = n + i
  BY <1>1
<1>5. PICK m \in 1..(k - 1) : m = n + a
  BY <1>1, <1>4
<1>6. s[m] = t[a]
  BY <1>1, <1>5
<1>7. ASSUME NEW j \in (m + 1)..(k - 1)
      PROVE  \E l \in (a + 1)..(i - 1) : s[j] = t[l]
  <2>1. PICK l \in (a + 1)..(i - 1) : j = n + l
    BY <1>1, <1>4, <1>5
  <2>2. l \in 1..Len(t)
    BY <1>1
  <2>3. QED  BY <1>1, <2>1, <2>2
<1>8. ASSUME NEW l \in (a + 1)..(i - 1)
      PROVE  \E j \in (m + 1)..(k - 1) : s[j] = t[l]
  <2>1. PICK j \in (m + 1)..(k - 1) : j = n + l
    BY <1>1, <1>4, <1>5
  <2>2. l \in 1..Len(t)
    BY <1>1
  <2>3. QED  BY <1>1, <2>1, <2>2
<1>9. \A j \in (m + 1)..(k - 1) : s[j].kind = "tool"
  BY <1>2, <1>7
<1>10. PendingAt(s, k) = ToSet(s[m].calls) \ {s[j].call : j \in (m + 1)..(k - 1)}
  BY <1>2, <1>6, <1>9, PendingBehind
<1>11. {s[j].call : j \in (m + 1)..(k - 1)} = {t[j].call : j \in (a + 1)..(i - 1)}
  <2>1. \A j \in (m + 1)..(k - 1) : s[j].call \in {t[l].call : l \in (a + 1)..(i - 1)}
    BY <1>7
  <2>2. \A l \in (a + 1)..(i - 1) : t[l].call \in {s[j].call : j \in (m + 1)..(k - 1)}
    BY <1>8
  <2>3. QED  BY <2>1, <2>2, Zenon
<1>12. QED  BY <1>3, <1>4, <1>6, <1>10, <1>11

\* A sequence that is cut in front of a message that is no answer is valid if and
\* only if both parts are.
LEMMA ValidJoin ==
  ASSUME NEW p \in Seq(Message), NEW t \in Seq(Message), t # <<>>, t[1].kind # "tool"
  PROVE  ValidSequence(p \o t) <=> ValidSequence(p) /\ ValidSequence(t)
<1> DEFINE s == p \o t
           Fits(q, i) == IF q[i].kind = "tool" THEN q[i].call \in PendingAt(q, i)
                                               ELSE PendingAt(q, i) = {}
<1> SUFFICES ValidSequence(s) <=> ValidSequence(p) /\ ValidSequence(t)
  OBVIOUS
<1>1. /\ Len(p) \in Nat /\ Len(t) \in Nat \ {0} /\ DOMAIN p = 1..Len(p) /\ DOMAIN t = 1..Len(t)
      /\ s \in Seq(Message) /\ Len(s) = Len(p) + Len(t) /\ DOMAIN s = 1..(Len(p) + Len(t))
      /\ \A i \in 1..Len(p) : s[i] = p[i]
      /\ \A i \in 1..Len(t) : s[Len(p) + i] = t[i]
  OBVIOUS
<1>2. \A i \in 1..(Len(p) + 1) : PendingAt(s, i) = PendingAt(p, i)
  BY PendingInFirst
<1>3. \A i \in 2..(Len(t) + 1) : PendingAt(s, Len(p) + i) = PendingAt(t, i)
  BY PendingInSecond
<1> HIDE DEF s
<1>4. \A i \in DOMAIN p : Fits(s, i) <=> Fits(p, i)
  <2> TAKE i \in DOMAIN p
  <2>1. i \in 1..(Len(p) + 1) /\ i \in 1..Len(p)
    BY <1>1
  <2>2. s[i] = p[i] /\ PendingAt(s, i) = PendingAt(p, i)
    BY <1>1, <1>2, <2>1
  <2>3. QED  BY <2>2
<1>5. Fits(s, Len(p) + 1) <=> PendingAt(p, Len(p) + 1) = {}
  <2>1. s[Len(p) + 1] = t[1]
    BY <1>1
  <2>2. PendingAt(s, Len(p) + 1) = PendingAt(p, Len(p) + 1)
    BY <1>1, <1>2
  <2>3. QED  BY <2>1, <2>2
<1>6. Fits(t, 1)
  BY PendingFirst
<1>7. \A i \in 2..Len(t) : Fits(s, Len(p) + i) <=> Fits(t, i)
  <2> TAKE i \in 2..Len(t)
  <2>1. i \in 1..Len(t) /\ i \in 2..(Len(t) + 1)
    BY <1>1
  <2>2. s[Len(p) + i] = t[i] /\ PendingAt(s, Len(p) + i) = PendingAt(t, i)
    BY <1>1, <1>3, <2>1
  <2>3. QED  BY <2>2
<1>8. PendingAt(s, Len(s) + 1) = PendingAt(t, Len(t) + 1)
  <2>1. PICK i \in 2..(Len(t) + 1) : i = Len(t) + 1
    BY <1>1
  <2>2. Len(s) + 1 = Len(p) + i
    BY <1>1, <2>1
  <2>3. QED  BY <1>3, <2>1, <2>2
<1>9. \A q : ValidSequence(q) <=> (\A i \in DOMAIN q : Fits(q, i)) /\ PendingAt(q, Len(q) + 1) = {}
  BY DEF ValidSequence
<1> HIDE DEF Fits
<1>10. (\A i \in DOMAIN s : Fits(s, i)) <=>
         /\ \A i \in DOMAIN p : Fits(s, i)
         /\ Fits(s, Len(p) + 1)
         /\ \A i \in 2..Len(t) : Fits(s, Len(p) + i)
  <2>1. \A i \in DOMAIN s : i \in DOMAIN p \/ i = Len(p) + 1
                               \/ \E j \in 2..Len(t) : i = Len(p) + j
    <3> TAKE i \in DOMAIN s
    <3>1. CASE i > Len(p) + 1
      <4>1. i - Len(p) \in 2..Len(t) /\ i = Len(p) + (i - Len(p))
        BY <1>1, <3>1
      <4>2. QED  BY <4>1
    <3>2. CASE i <= Len(p) + 1
      BY <1>1, <3>2
    <3>3. QED  BY <1>1, <3>1, <3>2
  <2>2. /\ DOMAIN p \subseteq DOMAIN s /\ Len(p) + 1 \in DOMAIN s
        /\ \A j \in 2..Len(t) : Len(p) + j \in DOMAIN s
    BY <1>1
  <2>3. QED  BY <2>1, <2>2
<1>11. (\A i \in DOMAIN t : Fits(t, i)) <=> \A i \in 2..Len(t) : Fits(t, i)
  <2>1. \A i \in DOMAIN t : i = 1 \/ i \in 2..Len(t)
    BY <1>1
  <2>2. \A i \in 2..Len(t) : i \in DOMAIN t
    BY <1>1
  <2>3. QED  BY <1>6, <2>1, <2>2
<1>12. QED  BY <1>4, <1>5, <1>7, <1>8, <1>9, <1>10, <1>11

\* A valid sequence does not begin with an answer.
LEMMA ValidBegins ==
  ASSUME NEW s \in Seq(Message), s # <<>>, ValidSequence(s)
  PROVE  s[1].kind # "tool"
<1>1. 1 \in DOMAIN s
  OBVIOUS
<1>2. PendingAt(s, 1) = {}
  BY PendingFirst
<1>3. QED  BY <1>1, <1>2 DEF ValidSequence

\* Messages that ask for nothing and answer nothing are valid.
LEMMA ValidPlain ==
  ASSUME NEW s \in Seq(Message),
         \A i \in DOMAIN s : s[i].kind # "tool" /\ s[i].calls = <<>>
  PROVE  ValidSequence(s)
<1>1. Len(s) \in Nat /\ DOMAIN s = 1..Len(s)
  OBVIOUS
<1>2. ASSUME NEW i \in 1..(Len(s) + 1) PROVE PendingAt(s, i) = {}
  <2>1. CASE i = 1
    BY <2>1, PendingFirst
  <2>2. CASE i # 1
    <3>1. PICK a \in 1..(i - 1) : a = i - 1
      BY <1>1, <2>2
    <3>2. a \in DOMAIN s
      BY <1>1, <3>1
    <3>3. s[a].kind # "tool" /\ s[a].calls = <<>>
      BY <3>2
    <3>4. i \in Nat /\ \A j \in (a + 1)..(i - 1) : FALSE
      BY <1>1, <3>1
    <3>5. PendingAt(s, i) = ToSet(s[a].calls) \ {s[j].call : j \in (a + 1)..(i - 1)}
      BY <3>3, <3>4, PendingBehind
    <3>6. ToSet(s[a].calls) = {}
      BY <3>3 DEF ToSet
    <3>7. QED  BY <3>5, <3>6
  <2>3. QED  BY <2>1, <2>2
<1>3. QED  BY <1>1, <1>2 DEF ValidSequence

-----------------------------------------------------------------------------
(***************************************************************************)
(* Cutting.                                                                *)
(***************************************************************************)

\* The messages of a program: only assistant messages ask, and a system message
\* comes first.
WellFormed(s) ==
  \A i \in DOMAIN s : /\ s[i].calls # <<>> => s[i].kind = "assistant"
                      /\ s[i].kind = "system" => i = 1

\* The messages up to a place and those behind it make up the sequence.
LEMMA CutAt ==
  ASSUME NEW s \in Seq(Message), NEW n \in 0..Len(s)
  PROVE  /\ SubSeq(s, 1, n) \in Seq(Message) /\ Len(SubSeq(s, 1, n)) = n
         /\ SubSeq(s, n + 1, Len(s)) \in Seq(Message)
         /\ Len(SubSeq(s, n + 1, Len(s))) = Len(s) - n
         /\ \A i \in 1..n : SubSeq(s, 1, n)[i] = s[i]
         /\ \A i \in 1..(Len(s) - n) : SubSeq(s, n + 1, Len(s))[i] = s[n + i]
         /\ s = SubSeq(s, 1, n) \o SubSeq(s, n + 1, Len(s))
<1>1. /\ SubSeq(s, 1, n) \in Seq(Message) /\ Len(SubSeq(s, 1, n)) = n
      /\ \A i \in 1..n : SubSeq(s, 1, n)[i] = s[i]
  OBVIOUS
<1>2. /\ SubSeq(s, n + 1, Len(s)) \in Seq(Message)
      /\ Len(SubSeq(s, n + 1, Len(s))) = Len(s) - n
      /\ \A i \in 1..(Len(s) - n) : SubSeq(s, n + 1, Len(s))[i] = s[n + i]
  <2>1. n + 1 \in Int /\ Len(s) \in Int /\ \A i \in (n + 1)..Len(s) : s[i] \in Message
    OBVIOUS
  <2>2. /\ SubSeq(s, n + 1, Len(s)) \in Seq(Message)
        /\ Len(SubSeq(s, n + 1, Len(s)))
             = IF n + 1 <= Len(s) THEN Len(s) - (n + 1) + 1 ELSE 0
        /\ \A i \in 1..(Len(s) - (n + 1) + 1) :
             SubSeq(s, n + 1, Len(s))[i] = s[n + 1 + i - 1]
    BY <2>1, SubSeqProperties
  <2>3. QED  BY <2>1, <2>2
<1>3. s = SubSeq(s, 1, n) \o SubSeq(s, n + 1, Len(s))
  <2> DEFINE p == SubSeq(s, 1, n)
             t == SubSeq(s, n + 1, Len(s))
  <2> SUFFICES s = p \o t
    OBVIOUS
  <2>1. /\ p \in Seq(Message) /\ Len(p) = n /\ t \in Seq(Message) /\ Len(t) = Len(s) - n
        /\ Len(s) \in Nat /\ DOMAIN s = 1..Len(s)
        /\ \A i \in 1..n : p[i] = s[i]
        /\ \A i \in 1..(Len(s) - n) : t[i] = s[n + i]
    BY <1>1, <1>2
  <2> HIDE DEF p, t
  <2>2. /\ p \o t \in Seq(Message) /\ Len(p \o t) = Len(p) + Len(t)
        /\ \A i \in 1..(Len(p) + Len(t)) :
             (p \o t)[i] = IF i <= Len(p) THEN p[i] ELSE t[i - Len(p)]
    BY <2>1, ConcatProperties
  <2>3. n \in Nat /\ n <= Len(s)
    BY <2>1
  <2>4. Len(p \o t) = Len(s) /\ p \o t \in Seq(Message)
    BY <2>1, <2>2, <2>3
  <2>5. ASSUME NEW i \in 1..Len(s)
        PROVE  (p \o t)[i] = s[i]
    <3>1. CASE i <= n
      BY <2>1, <2>2, <2>3, <3>1
    <3>2. CASE i > n
      <4>1. i - n \in 1..(Len(s) - n) /\ n + (i - n) = i
        BY <2>1, <2>3, <3>2
      <4>2. (p \o t)[i] = t[i - n]
        BY <2>1, <2>2, <2>3, <3>2
      <4>3. QED  BY <2>1, <4>1, <4>2
    <3>3. QED  BY <2>1, <2>3, <3>1, <3>2
  <2>6. QED  BY <2>4, <2>5, SeqEqual
<1>4. QED  BY <1>1, <1>2, <1>3

\* What stands behind a cut in front of a message that is no answer is valid.
LEMMA ValidSuffix ==
  ASSUME NEW s \in Seq(Message), ValidSequence(s), NEW n \in 0..Len(s),
         n < Len(s) => s[n + 1].kind # "tool"
  PROVE  ValidSequence(SubSeq(s, n + 1, Len(s)))
<1> DEFINE p == SubSeq(s, 1, n)
           t == SubSeq(s, n + 1, Len(s))
<1>1. CASE n = Len(s)
  <2>1. t \in Seq(Message) /\ Len(t) = 0
    BY <1>1, CutAt
  <2>2. DOMAIN t = {}
    BY <2>1
  <2>3. QED  BY <2>1, <2>2, ValidPlain
<1>2. CASE n < Len(s)
  <2>1. /\ p \in Seq(Message) /\ t \in Seq(Message) /\ s = p \o t /\ Len(t) = Len(s) - n
        /\ \A i \in 1..(Len(s) - n) : t[i] = s[n + i]
    BY CutAt
  <2> HIDE DEF p, t
  <2>2. 1 \in 1..(Len(s) - n)
    BY <1>2
  <2>3. t[1].kind # "tool" /\ t # <<>>
    BY <1>2, <2>1, <2>2
  <2>4. ValidSequence(p \o t)
    BY <2>1
  <2>5. ValidSequence(t)
    BY <2>1, <2>3, <2>4, ValidJoin
  <2>6. QED  BY <2>5 DEF t
<1>3. QED  BY <1>1, <1>2

\* Two cuts are one.
LEMMA CutTwice ==
  ASSUME NEW s \in Seq(Message), NEW n \in 0..Len(s), NEW k \in 0..(Len(s) - n)
  PROVE  SubSeq(SubSeq(s, n + 1, Len(s)), k + 1, Len(s) - n) = SubSeq(s, n + k + 1, Len(s))
<1> DEFINE r == SubSeq(s, n + 1, Len(s))
           t == SubSeq(r, k + 1, Len(r))
           u == SubSeq(s, n + k + 1, Len(s))
<1>1. /\ r \in Seq(Message) /\ Len(r) = Len(s) - n
      /\ \A i \in 1..(Len(s) - n) : r[i] = s[n + i]
  BY CutAt
<1> SUFFICES t = u
  BY <1>1
<1> HIDE DEF r
<1>2. /\ t \in Seq(Message) /\ Len(t) = Len(r) - k
      /\ \A i \in 1..(Len(r) - k) : t[i] = r[k + i]
  <2>1. k \in 0..Len(r)
    BY <1>1
  <2>2. QED  BY <1>1, <2>1, CutAt
<1>3. /\ u \in Seq(Message) /\ Len(u) = Len(s) - (n + k)
      /\ \A i \in 1..(Len(s) - (n + k)) : u[i] = s[n + k + i]
  <2>1. n + k \in 0..Len(s)
    OBVIOUS
  <2>2. QED  BY <2>1, CutAt
<1> HIDE DEF t, u
<1>4. Len(t) = Len(u)
  BY <1>1, <1>2, <1>3
<1>5. ASSUME NEW i \in 1..Len(t) PROVE t[i] = u[i]
  <2>1. i \in 1..(Len(r) - k) /\ k + i \in 1..(Len(s) - n) /\ i \in 1..(Len(s) - (n + k))
    BY <1>1, <1>2
  <2>2. t[i] = s[n + (k + i)] /\ u[i] = s[n + k + i]
    BY <1>1, <1>2, <1>3, <2>1
  <2>3. QED  BY <2>2
<1>6. QED  BY <1>2, <1>3, <1>4, <1>5, SeqEqual

\* The system message and what comes behind it.
LEMMA SystemCut ==
  ASSUME NEW s \in Seq(Message)
  PROVE  \E n \in 0..Len(s) :
           /\ n = IF s # <<>> /\ s[1].kind = "system" THEN 1 ELSE 0
           /\ Len(SystemPart(s)) = n /\ SystemPart(s) \in Seq(Message)
           /\ \A i \in 1..n : SystemPart(s)[i] = s[i]
           /\ AfterSystem(s) = SubSeq(s, n + 1, Len(s))
<1>1. CASE s # <<>> /\ s[1].kind = "system"
  <2>1. SystemPart(s) = <<s[1]>> /\ s[1] \in Message /\ 1 \in 0..Len(s)
    BY <1>1 DEF SystemPart
  <2>2. QED  BY <1>1, <2>1 DEF AfterSystem
<1>2. CASE ~(s # <<>> /\ s[1].kind = "system")
  <2>1. SystemPart(s) = <<>> /\ 0 \in 0..Len(s)
    BY <1>2 DEF SystemPart
  <2>2. QED  BY <1>2, <2>1 DEF AfterSystem
<1>3. QED  BY <1>1, <1>2

\* The turns stand at the end of the sequence.
LEMMA TurnsCut ==
  ASSUME NEW s \in Seq(Message)
  PROVE  /\ \E n \in 0..Len(s) : RealTurns(s) = SubSeq(s, n + 1, Len(s))
         /\ RealTurns(s) \in Seq(Message)
<1>1. PICK n \in 0..Len(s) : AfterSystem(s) = SubSeq(s, n + 1, Len(s))
  BY SystemCut
<1> DEFINE r == AfterSystem(s)
<1>2. /\ r \in Seq(Message) /\ Len(r) = Len(s) - n
      /\ \A i \in 1..Len(r) : r[i] = s[n + i]
  BY <1>1, CutAt
<1> HIDE DEF r
<1>3. PICK m \in 0..Len(r) : m = SummaryLength(r)
  <2>1. r = <<>> \/ Len(r) >= 1
    BY <1>2
  <2>2. QED  BY <1>2, <2>1 DEF SummaryLength
<1>4. RealTurns(s) = SubSeq(r, m + 1, Len(r))
  BY <1>3 DEF RealTurns, r
<1>5. RealTurns(s) = SubSeq(SubSeq(s, n + 1, Len(s)), m + 1, Len(s) - n)
  BY <1>1, <1>2, <1>4 DEF r
<1>6. m \in 0..(Len(s) - n)
  BY <1>2
<1>7. RealTurns(s) = SubSeq(s, n + m + 1, Len(s))
  BY <1>5, <1>6, CutTwice
<1>8. PICK k \in 0..Len(s) : k = n + m
  BY <1>6
<1>9. RealTurns(s) = SubSeq(s, k + 1, Len(s))
  BY <1>7, <1>8
<1>10. SubSeq(s, k + 1, Len(s)) \in Seq(Message)
  BY CutAt
<1>11. QED  BY <1>9, <1>10

-----------------------------------------------------------------------------
(***************************************************************************)
(* Compaction.                                                             *)
(***************************************************************************)

\* Of a set of numbers that has n elements or more, the last n begin somewhere.
LEMMA LastOf ==
  ASSUME NEW S \in SUBSET Nat, IsFiniteSet(S), NEW n \in Nat \ {0}, Cardinality(S) >= n,
         NEW b \in Nat, \A j \in S : j <= b
  PROVE  \E i \in S : Cardinality({j \in S : j >= i}) = n
<1> DEFINE From(i) == {j \in S : j >= i}
           starts == {i \in S : Cardinality(From(i)) >= n}
<1>1. \A i \in S : IsFiniteSet(From(i)) /\ Cardinality(From(i)) \in Nat
  <2> TAKE i \in S
  <2>1. From(i) \in SUBSET S
    OBVIOUS
  <2>2. IsFiniteSet(From(i))
    BY <2>1, FS_Subset
  <2>3. QED  BY <2>2, FS_CardinalityType
<1>2. starts # {}
  <2>1. S # {}
    BY FS_EmptySet
  <2>2. PICK i \in S : \A k \in S : i <= k
    BY <2>1, LeastOf
  <2>3. From(i) = S
    BY <2>2
  <2>4. QED  BY <2>3
<1>3. PICK i \in starts : \A k \in starts : k <= i
  <2>1. starts \in SUBSET Nat /\ \A k \in starts : k <= b
    OBVIOUS
  <2> HIDE DEF starts
  <2>2. QED  BY <1>2, <2>1, MaxOf
<1>4. CASE Cardinality(From(i)) # n
  <2>1. Cardinality(From(i)) > n
    BY <1>1, <1>4
  <2>2. IsFiniteSet(From(i)) /\ i \in From(i)
    BY <1>1
  <2>3. /\ IsFiniteSet(From(i) \ {i})
        /\ Cardinality(From(i) \ {i}) = Cardinality(From(i)) - 1
    BY <2>2, FS_RemoveElement
  <2>4. Cardinality(From(i) \ {i}) >= n
    BY <1>1, <2>1, <2>3
  <2>5. From(i) \ {i} # {}
    BY <2>3, <2>4, FS_EmptySet
  <2>6. PICK k \in From(i) \ {i} : \A j \in From(i) \ {i} : k <= j
    BY <2>5, LeastOf
  <2>7. k \in S /\ k > i /\ From(k) = From(i) \ {i}
    <3>1. k \in S /\ k > i /\ i \in Nat /\ k \in Nat
      BY <2>6
    <3>2. \A j \in S : j >= k <=> j >= i /\ j # i
      BY <2>6, <3>1
    <3>3. \A j : j \in From(k) <=> j \in From(i) \ {i}
      BY <3>2, Zenon
    <3>4. QED  BY <3>1, <3>3, Zenon
  <2>8. k \in starts
    BY <2>4, <2>7
  <2>9. QED  BY <1>3, <2>7, <2>8
<1>5. QED  BY <1>4

\* Compaction keeps the turns from a user message on, as many as it must retain.
LEMMA KeptCut ==
  ASSUME NEW s \in Seq(Message), Compactable(s)
  PROVE  \E k \in 0..Len(RealTurns(s)) :
           /\ k < Len(RealTurns(s)) /\ IsUser(RealTurns(s)[k + 1])
           /\ KeptTurns(s) = SubSeq(RealTurns(s), k + 1, Len(RealTurns(s)))
           /\ Cardinality(TurnStarts(KeptTurns(s))) = RetainedTurns
<1> DEFINE r == RealTurns(s)
           starts == TurnStarts(r)
           From(i) == {j \in starts : j >= i}
           k == KeptFrom(r)
<1>1. /\ r \in Seq(Message) /\ Len(r) \in Nat /\ DOMAIN r = 1..Len(r)
      /\ starts \subseteq 1..Len(r) /\ Cardinality(starts) > RetainedTurns
      /\ RetainedTurns \in Nat \ {0}
  BY TurnsCut, RetainedTurnsAssumption, SMTT(60) DEF TurnStarts, Compactable
<1>2. IsFiniteSet(starts) /\ Cardinality(starts) \in Nat /\ starts \in SUBSET Nat
      /\ \A j \in starts : j <= Len(r)
  <2> HIDE DEF starts, r
  <2>1. IsFiniteSet(1..Len(r)) /\ starts \in SUBSET (1..Len(r))
    BY <1>1, FS_Interval
  <2>2. IsFiniteSet(starts)
    BY <2>1, FS_Subset
  <2>3. QED  BY <1>1, <2>2, FS_CardinalityType
<1> SUFFICES \E i \in 0..Len(r) :
               /\ i < Len(r) /\ IsUser(r[i + 1])
               /\ KeptTurns(s) = SubSeq(r, i + 1, Len(r))
               /\ Cardinality(TurnStarts(KeptTurns(s))) = RetainedTurns
  OBVIOUS
<1>3. k \in starts /\ Cardinality(From(k)) = RetainedTurns
  <2>1. \E i \in starts : Cardinality(From(i)) = RetainedTurns
    <3> HIDE DEF starts, r
    <3>1. Cardinality(starts) >= RetainedTurns
      BY <1>1, <1>2
    <3>2. QED  BY <1>1, <1>2, <3>1, LastOf
  <2>2. QED  BY <2>1 DEF KeptFrom
<1>4. KeptTurns(s) = SubSeq(r, k, Len(r))
  BY DEF KeptTurns
<1>5. k # 1 /\ k \in 1..Len(r)
  <2>1. From(1) = starts
    BY <1>1
  <2> HIDE DEF starts, r, k, From
  <2>2. Cardinality(From(1)) # RetainedTurns
    BY <1>1, <1>2, <2>1
  <2>3. QED  BY <1>1, <1>3, <2>2
<1>6. IsUser(r[k])
  BY <1>3, <1>5 DEF TurnStarts
<1>7. PICK i \in 0..Len(r) : i < Len(r) /\ k = i + 1
  <2>1. k - 1 \in 0..Len(r) /\ k - 1 < Len(r) /\ k = (k - 1) + 1
    BY <1>1, <1>5
  <2>2. QED  BY <2>1
<1> DEFINE t == SubSeq(r, i + 1, Len(r))
<1>8. /\ t \in Seq(Message) /\ Len(t) = Len(r) - i /\ DOMAIN t = 1..Len(t)
      /\ \A j \in 1..(Len(r) - i) : t[j] = r[i + j]
  <2>1. r \in Seq(Message)
    BY <1>1
  <2> HIDE DEF r
  <2>2. QED  BY <2>1, CutAt
<1> HIDE DEF t, r, k
<1>9. Cardinality(TurnStarts(t)) = RetainedTurns
  <2> DEFINE shift == [j \in TurnStarts(t) |-> i + j]
  <2>1. \A j \in TurnStarts(t) : i + j \in From(k)
    <3> TAKE j \in TurnStarts(t)
    <3>1. /\ j \in 1..(Len(r) - i) /\ (j = 1 \/ IsUser(t[j])) /\ t[j] = r[i + j]
          /\ i + j \in DOMAIN r
      BY <1>1, <1>8 DEF TurnStarts
    <3>2. IsUser(r[i + j])
      BY <1>6, <1>7, <3>1
    <3>3. QED  BY <1>7, <3>1, <3>2 DEF TurnStarts
  <2>2. \A l \in From(k) : \E j \in TurnStarts(t) : l = i + j
    <3> TAKE l \in From(k)
    <3>1. l \in 1..Len(r) /\ l >= k /\ IsUser(r[l])
      BY <1>1, <1>5 DEF TurnStarts
    <3>2. PICK j \in 1..(Len(r) - i) : l = i + j
      <4>1. l - i \in 1..(Len(r) - i) /\ l = i + (l - i)
        BY <1>1, <1>7, <3>1
      <4>2. QED  BY <4>1
    <3>3. IsUser(t[j]) /\ j \in DOMAIN t
      BY <1>8, <3>1, <3>2
    <3>4. QED  BY <3>2, <3>3 DEF TurnStarts
  <2>3. TurnStarts(t) \subseteq Nat
    BY <1>8 DEF TurnStarts
  <2>4. shift \in Bijection(TurnStarts(t), From(k))
    <3> HIDE DEF starts
    <3>1. shift \in [TurnStarts(t) -> From(k)]
      BY <2>1
    <3>2. \A a, b \in TurnStarts(t) : shift[a] = shift[b] => a = b
      BY <2>3
    <3>3. \A l \in From(k) : \E j \in TurnStarts(t) : shift[j] = l
      BY <2>2
    <3>4. QED  BY <3>1, <3>2, <3>3 DEF Bijection, Injection, Surjection, IsInjective
  <2>5. IsFiniteSet(TurnStarts(t))
    <3>1. TurnStarts(t) \in SUBSET (1..Len(t)) /\ Len(t) \in Nat
      BY <1>8 DEF TurnStarts
    <3>2. IsFiniteSet(1..Len(t))
      BY <3>1, FS_Interval
    <3>3. QED  BY <3>1, <3>2, FS_Subset
  <2>6. ExistsBijection(TurnStarts(t), From(k))
    BY <2>4 DEF ExistsBijection
  <2>7. Cardinality(From(k)) = Cardinality(TurnStarts(t))
    BY <2>5, <2>6, FS_Bijection
  <2>8. QED  BY <1>3, <2>7
<1>10. QED  BY <1>4, <1>6, <1>7, <1>9 DEF t

\* The messages that compaction keeps are a suffix of the conversation.
LEMMA KeptSuffix ==
  ASSUME NEW s \in Seq(Message), Compactable(s)
  PROVE  \E m \in 0..Len(s) : /\ m < Len(s) /\ IsUser(s[m + 1])
                              /\ KeptTurns(s) = SubSeq(s, m + 1, Len(s))
<1> DEFINE r == RealTurns(s)
<1>1. PICK n \in 0..Len(s) : r = SubSeq(s, n + 1, Len(s))
  BY TurnsCut
<1>2. PICK k \in 0..Len(r) : /\ k < Len(r) /\ IsUser(r[k + 1])
                             /\ KeptTurns(s) = SubSeq(r, k + 1, Len(r))
  BY KeptCut
<1> HIDE DEF r
<1>3. Len(r) = Len(s) - n /\ \A i \in 1..(Len(s) - n) : r[i] = s[n + i]
  BY <1>1, CutAt
<1>4. k \in 0..(Len(s) - n)
  BY <1>3
<1>5. KeptTurns(s) = SubSeq(s, n + k + 1, Len(s))
  BY <1>1, <1>2, <1>3, <1>4, CutTwice
<1>6. r[k + 1] = s[n + k + 1]
  <2>1. k + 1 \in 1..(Len(s) - n)
    BY <1>2, <1>3, <1>4
  <2>2. QED  BY <1>3, <2>1
<1>7. PICK m \in 0..Len(s) : m = n + k /\ m < Len(s)
  BY <1>2, <1>3, <1>4
<1>8. QED  BY <1>2, <1>5, <1>6, <1>7

\* Messages without calls are messages.
LEMMA PlainTypes ==
  ASSUME NEW t \in Nat,
         NEW kind \in {"system", "user", "assistant", "tool", "summary", "ack"}
  PROVE  Plain(kind, t) \in Message
<1>1. NoCall \in CallId /\ <<>> \in Seq(CallId)
  BY DEF NoCall, CallId
<1>2. QED  BY <1>1 DEF Plain, Message

\* What compaction puts in front of the turns it keeps.
LEMMA CompactedHead ==
  ASSUME NEW s \in Seq(Message), NEW h, h = SystemPart(s) \o SummaryPair
  PROVE  /\ h \in Seq(Message) /\ Len(h) = Len(SystemPart(s)) + 2
         /\ Len(SystemPart(s)) \in {0, 1}
         /\ Len(SystemPart(s)) = 1 => h[1] = s[1] /\ s[1].kind = "system" /\ 1 \in DOMAIN s
         /\ h[Len(SystemPart(s)) + 1] = Plain("summary", 0)
         /\ h[Len(SystemPart(s)) + 2] = Plain("ack", 0)
<1>1. PICK n \in 0..Len(s) :
        /\ n = IF s # <<>> /\ s[1].kind = "system" THEN 1 ELSE 0
        /\ Len(SystemPart(s)) = n /\ SystemPart(s) \in Seq(Message)
        /\ \A i \in 1..n : SystemPart(s)[i] = s[i]
  BY SystemCut
<1>2. /\ SummaryPair \in Seq(Message) /\ Len(SummaryPair) = 2
      /\ SummaryPair[1] = Plain("summary", 0) /\ SummaryPair[2] = Plain("ack", 0)
  <2>1. Plain("summary", 0) \in Message /\ Plain("ack", 0) \in Message
    BY PlainTypes
  <2>2. QED  BY <2>1 DEF SummaryPair
<1>3. /\ h \in Seq(Message) /\ Len(h) = n + 2
      /\ \A i \in 1..(n + 2) : h[i] = IF i <= n THEN SystemPart(s)[i] ELSE SummaryPair[i - n]
  <2>1. SystemPart(s) \in Seq(Message) /\ Len(SystemPart(s)) = n /\ n \in Nat
    BY <1>1
  <2>2. /\ h \in Seq(Message) /\ Len(h) = Len(SystemPart(s)) + Len(SummaryPair)
        /\ \A i \in 1..(Len(SystemPart(s)) + Len(SummaryPair)) :
             h[i] = IF i <= Len(SystemPart(s)) THEN SystemPart(s)[i]
                                               ELSE SummaryPair[i - Len(SystemPart(s))]
    BY <1>2, <2>1, ConcatProperties
  <2>3. QED  BY <1>2, <2>1, <2>2
<1>4. CASE n = 1
  BY <1>1, <1>2, <1>3, <1>4
<1>5. CASE n = 0
  BY <1>1, <1>2, <1>3, <1>5
<1>6. QED  BY <1>1, <1>4, <1>5

\* A compacted conversation, taken apart.
LEMMA CompactedParts ==
  ASSUME NEW s \in Seq(Message), Compactable(s)
  PROVE  \E h, t \in Seq(Message), m \in 0..Len(s) :
           /\ h = SystemPart(s) \o SummaryPair /\ t = KeptTurns(s)
           /\ Compacted(s) = h \o t /\ Compacted(s) \in Seq(Message)
           /\ m < Len(s) /\ t = SubSeq(s, m + 1, Len(s)) /\ Len(t) = Len(s) - m
           /\ \A i \in 1..(Len(s) - m) : t[i] = s[m + i]
           /\ t # <<>> /\ IsUser(t[1])
<1>1. PICK m \in 0..Len(s) : /\ m < Len(s) /\ IsUser(s[m + 1])
                             /\ KeptTurns(s) = SubSeq(s, m + 1, Len(s))
  BY KeptSuffix
<1>2. PICK h \in Seq(Message) : h = SystemPart(s) \o SummaryPair
  BY CompactedHead
<1>3. PICK t \in Seq(Message) : /\ t = KeptTurns(s) /\ Len(t) = Len(s) - m
                                /\ \A i \in 1..(Len(s) - m) : t[i] = s[m + i]
  BY <1>1, CutAt
<1>4. t # <<>> /\ IsUser(t[1])
  <2>1. 1 \in 1..(Len(s) - m)
    BY <1>1
  <2>2. t[1] = s[m + 1]
    BY <1>3, <2>1
  <2>3. Len(t) # 0
    BY <1>3, <2>1
  <2>4. QED  BY <1>1, <2>2, <2>3
<1>5. Compacted(s) = h \o t
  BY <1>2, <1>3 DEF Compacted
<1>6. h \o t \in Seq(Message)
  OBVIOUS
<1>7. QED  BY <1>1, <1>2, <1>3, <1>4, <1>5, <1>6

\* Compaction leaves the messages well formed.
LEMMA CompactedWellFormed ==
  ASSUME NEW s \in Seq(Message), Compactable(s), WellFormed(s)
  PROVE  Compacted(s) \in Seq(Message) /\ WellFormed(Compacted(s))
<1>1. PICK h, t \in Seq(Message), m \in 0..Len(s) :
        /\ h = SystemPart(s) \o SummaryPair
        /\ Compacted(s) = h \o t /\ Compacted(s) \in Seq(Message)
        /\ m < Len(s) /\ Len(t) = Len(s) - m
        /\ \A i \in 1..(Len(s) - m) : t[i] = s[m + i]
        /\ IsUser(t[1])
  BY CompactedParts
<1>2. PICK n \in {0, 1} :
        /\ Len(h) = n + 2
        /\ n = 1 => h[1] = s[1] /\ 1 \in DOMAIN s
        /\ h[n + 1] = Plain("summary", 0) /\ h[n + 2] = Plain("ack", 0)
  BY <1>1, CompactedHead
<1> DEFINE c == h \o t
<1>3. /\ Len(c) = Len(h) + Len(t) /\ DOMAIN c = 1..Len(c)
      /\ \A i \in 1..Len(h) : c[i] = h[i]
      /\ \A i \in 1..Len(t) : c[Len(h) + i] = t[i]
  OBVIOUS
<1> HIDE DEF c
<1>4. ASSUME NEW i \in DOMAIN c
      PROVE  (c[i].calls # <<>> => c[i].kind = "assistant") /\ (c[i].kind = "system" => i = 1)
  <2>1. CASE i <= n
    <3>1. i = 1 /\ n = 1 /\ i \in 1..Len(h)
      BY <1>2, <1>3, <2>1
    <3>2. c[i] = s[1] /\ 1 \in DOMAIN s
      BY <1>2, <1>3, <3>1
    <3>3. QED  BY <3>1, <3>2 DEF WellFormed
  <2>2. CASE i \in {n + 1, n + 2}
    <3>1. i \in 1..Len(h)
      BY <1>2, <2>2
    <3>2. c[i] \in {Plain("summary", 0), Plain("ack", 0)}
      BY <1>2, <1>3, <2>2, <3>1
    <3>3. QED  BY <3>2 DEF Plain
  <2>3. CASE i > n + 2
    <3>1. PICK j \in 1..Len(t) : i = Len(h) + j
      <4>1. Len(h) \in Nat /\ Len(t) \in Nat /\ i \in 1..(Len(h) + Len(t)) /\ i > Len(h)
        BY <1>2, <1>3, <2>3
      <4>2. i - Len(h) \in 1..Len(t) /\ i = Len(h) + (i - Len(h))
        BY <4>1
      <4>3. QED  BY <4>2
    <3>2. c[i] = t[j] /\ t[j] = s[m + j] /\ m + j \in DOMAIN s
      BY <1>1, <1>3, <3>1
    <3>3. s[m + j].kind # "system"
      <4>1. CASE m + j = 1
        <5>1. j = 1
          BY <4>1
        <5>2. QED  BY <1>1, <3>2, <5>1 DEF IsUser
      <4>2. QED  BY <3>2, <4>1 DEF WellFormed
    <3>4. QED  BY <3>2, <3>3 DEF WellFormed
  <2>4. QED  BY <1>2, <1>3, <2>1, <2>2, <2>3
<1>5. WellFormed(c)
  BY <1>4 DEF WellFormed
<1>6. QED  BY <1>1, <1>5 DEF c

\* The head of a compacted conversation is valid on its own, and so are the turns
\* that are kept.
LEMMA CompactedValid ==
  ASSUME NEW s \in Seq(Message), Compactable(s), WellFormed(s), ValidSequence(s)
  PROVE  ValidSequence(Compacted(s))
<1>1. PICK h, t \in Seq(Message), m \in 0..Len(s) :
        /\ h = SystemPart(s) \o SummaryPair /\ Compacted(s) = h \o t
        /\ m < Len(s) /\ t = SubSeq(s, m + 1, Len(s)) /\ Len(t) = Len(s) - m
        /\ \A i \in 1..(Len(s) - m) : t[i] = s[m + i]
        /\ t # <<>> /\ IsUser(t[1])
  BY CompactedParts
<1>2. PICK n \in {0, 1} :
        /\ Len(h) = n + 2
        /\ n = 1 => h[1] = s[1] /\ s[1].kind = "system" /\ 1 \in DOMAIN s
        /\ h[n + 1] = Plain("summary", 0) /\ h[n + 2] = Plain("ack", 0)
  BY <1>1, CompactedHead
<1>3. t[1] = s[m + 1] /\ t[1].kind # "tool"
  <2>1. 1 \in 1..(Len(s) - m)
    BY <1>1
  <2>2. QED  BY <1>1, <2>1 DEF IsUser
<1>4. ValidSequence(t)
  BY <1>1, <1>3, ValidSuffix
<1>5. ValidSequence(h)
  <2>1. ASSUME NEW i \in DOMAIN h PROVE h[i].kind # "tool" /\ h[i].calls = <<>>
    <3>1. CASE i = 1 /\ n = 1
      BY <1>2, <3>1 DEF WellFormed
    <3>2. CASE i \in {n + 1, n + 2}
      BY <1>2, <3>2 DEF Plain
    <3>3. QED  BY <1>2, <3>1, <3>2
  <2>2. QED  BY <2>1, ValidPlain
<1>6. ValidSequence(h \o t)
  <2>1. t # <<>> /\ t[1].kind # "tool"
    BY <1>1, <1>3
  <2>2. QED  BY <1>4, <1>5, <2>1, ValidJoin
<1>7. QED  BY <1>1, <1>6

\* The turns of a compacted conversation are those that were kept: its summary is
\* none of them.
LEMMA CompactedTurns ==
  ASSUME NEW s \in Seq(Message), Compactable(s)
  PROVE  RealTurns(Compacted(s)) = KeptTurns(s)
<1>1. PICK h, t \in Seq(Message) :
        /\ h = SystemPart(s) \o SummaryPair /\ t = KeptTurns(s)
        /\ Compacted(s) = h \o t /\ Compacted(s) \in Seq(Message)
  BY CompactedParts
<1>2. PICK n \in {0, 1} :
        /\ Len(h) = n + 2
        /\ n = 1 => h[1].kind = "system"
        /\ h[n + 1] = Plain("summary", 0) /\ h[n + 2] = Plain("ack", 0)
  BY <1>1, CompactedHead
<1> DEFINE c == h \o t
           r == SubSeq(c, n + 1, Len(c))
           u == SubSeq(c, n + 2 + 1, Len(c))
<1> SUFFICES RealTurns(c) = t
  BY <1>1
<1>3. /\ c \in Seq(Message) /\ Len(c) = n + 2 + Len(t) /\ c # <<>>
      /\ \A i \in 1..(n + 2) : c[i] = h[i]
      /\ \A i \in 1..Len(t) : c[n + 2 + i] = t[i]
  <2>1. /\ c \in Seq(Message) /\ Len(c) = Len(h) + Len(t)
        /\ Len(h) # 0 => c # <<>>
        /\ \A i \in 1..Len(h) : c[i] = h[i]
        /\ \A i \in 1..Len(t) : c[Len(h) + i] = t[i]
    OBVIOUS
  <2>2. Len(h) # 0
    BY <1>2
  <2> HIDE DEF c
  <2>3. QED  BY <1>2, <2>1, <2>2
<1> HIDE DEF c
<1>4. c[1].kind = "system" <=> n = 1
  <2>1. c[1] = h[1]
    BY <1>3
  <2>2. CASE n = 1
    BY <1>2, <2>1, <2>2
  <2>3. CASE n = 0
    BY <1>2, <2>1, <2>3 DEF Plain
  <2>4. QED  BY <2>2, <2>3
<1>5. AfterSystem(c) = r
  BY <1>3, <1>4, SystemCut
<1>6. /\ r \in Seq(Message) /\ Len(r) = Len(t) + 2
      /\ \A i \in 1..(Len(t) + 2) : r[i] = c[n + i]
  <2>1. n \in 0..Len(c) /\ Len(c) - n = Len(t) + 2
    BY <1>3
  <2>2. QED  BY <1>3, <2>1, CutAt, SMTT(60)
<1> HIDE DEF r
<1>7. SummaryLength(r) = 2
  <2>1. r[1] = Plain("summary", 0) /\ r[2] = Plain("ack", 0) /\ r # <<>> /\ Len(r) > 1
    <3>1. Len(t) \in Nat /\ 1 \in 1..(Len(t) + 2) /\ 2 \in 1..(Len(t) + 2)
      OBVIOUS
    <3>2. r[1] = c[n + 1] /\ r[2] = c[n + 2]
      BY <1>6, <3>1
    <3>3. c[n + 1] = h[n + 1] /\ c[n + 2] = h[n + 2]
      BY <1>3
    <3>4. r # <<>> /\ Len(r) > 1
      BY <1>6, <3>1
    <3>5. QED  BY <1>2, <3>2, <3>3, <3>4
  <2>2. QED  BY <2>1 DEF SummaryLength, Plain
<1>8. RealTurns(c) = SubSeq(r, 2 + 1, Len(c) - n)
  BY <1>3, <1>5, <1>6, <1>7 DEF RealTurns
<1>9. RealTurns(c) = u
  <2>1. n \in 0..Len(c) /\ 2 \in 0..(Len(c) - n)
    BY <1>3
  <2>2. QED  BY <1>3, <1>8, <2>1, CutTwice DEF r
<1>10. /\ u \in Seq(Message) /\ Len(u) = Len(t)
       /\ \A i \in 1..Len(t) : u[i] = c[n + 2 + i]
  <2>1. n + 2 \in 0..Len(c) /\ Len(c) - (n + 2) = Len(t)
    BY <1>3
  <2>2. QED  BY <1>3, <2>1, CutAt
<1> HIDE DEF u
<1>11. u = t
  BY <1>3, <1>10, SeqEqual
<1>12. QED  BY <1>9, <1>11

\* A compacted conversation need not be compacted again.
LEMMA CompactedOnce ==
  ASSUME NEW s \in Seq(Message), Compactable(s)
  PROVE  ~Compactable(Compacted(s))
<1>1. Cardinality(TurnStarts(KeptTurns(s))) = RetainedTurns
  BY KeptCut
<1>2. QED  BY <1>1, CompactedTurns, RetainedTurnsAssumption DEF Compactable

-----------------------------------------------------------------------------
(***************************************************************************)
(* Contexts.                                                               *)
(***************************************************************************)

\* An answer in a valid sequence belongs to the cluster of the call it answers.
LEMMA AnswerInCluster ==
  ASSUME NEW r \in Seq(Message), ValidSequence(r), NEW i \in DOMAIN r, r[i].kind = "tool",
         \A j \in DOMAIN r : r[j].calls # <<>> => r[j].kind = "assistant"
  PROVE  InToolCluster(r, i)
<1>1. i \in 1..Len(r) /\ i \in Nat /\ r[i].call \in PendingAt(r, i)
  BY DEF ValidSequence
<1>2. \E j \in 1..(i - 1) : r[j].kind # "tool"
  BY <1>1, PendingFirst
<1>3. PICK b \in 1..(i - 1) : r[b].kind # "tool"
  BY <1>2
<1>4. PICK a \in b..(i - 1) : /\ r[a].kind # "tool"
                              /\ \A j \in (a + 1)..(i - 1) : r[j].kind = "tool"
  BY <1>1, <1>3, AskerBehind
<1>5. a \in 1..(i - 1) /\ a \in DOMAIN r
  BY <1>1
<1>6. PendingAt(r, i) = ToSet(r[a].calls) \ {r[j].call : j \in (a + 1)..(i - 1)}
  BY <1>1, <1>4, <1>5, PendingBehind
<1>7. r[a].calls # <<>>
  BY <1>1, <1>6 DEF ToSet
<1>8. \A j \in (a + 1)..i : j \in (a + 1)..(i - 1) \/ j = i
  BY <1>1
<1>9. QED  BY <1>4, <1>5, <1>7, <1>8 DEF InToolCluster

\* Where the latest interaction begins.
LEMMA LatestIs ==
  ASSUME NEW r \in Seq(Message)
  PROVE  /\ LatestFrom(r) \in Nat \ {0}
         /\ r # <<>> => LatestFrom(r) \in DOMAIN r
         /\ LatestFrom(r) = 1 \/ (LatestFrom(r) \in DOMAIN r /\ IsUser(r[LatestFrom(r)]))
         /\ \A j \in DOMAIN r : IsUser(r[j]) => j <= LatestFrom(r)
<1> DEFINE users == {i \in DOMAIN r : IsUser(r[i])}
<1>1. DOMAIN r = 1..Len(r) /\ Len(r) \in Nat /\ (r # <<>> => Len(r) # 0)
  OBVIOUS
<1>2. CASE users = {}
  <2>1. LatestFrom(r) = 1
    BY <1>2 DEF LatestFrom
  <2>2. QED  BY <1>1, <1>2, <2>1
<1>3. CASE users # {}
  <2>1. users \in SUBSET Nat /\ \A j \in users : j <= Len(r)
    BY <1>1
  <2>2. LatestFrom(r) = Max(users)
    BY <1>3 DEF LatestFrom
  <2> HIDE DEF users
  <2>3. LatestFrom(r) \in users /\ \A j \in users : j <= LatestFrom(r)
    BY <1>1, <1>3, <2>1, <2>2, MaxOf
  <2>4. QED  BY <1>1, <2>1, <2>3 DEF users
<1>4. QED  BY <1>2, <1>3

\* A context is the system message and a suffix of the messages behind it that
\* begins in front of the latest interaction and with no answer.
LEMMA ContextCut ==
  ASSUME NEW s \in Seq(Message), WellFormed(s), ValidSequence(s), NEW c \in Contexts(s)
  PROVE  \E t \in Seq(Message), n \in 0..Len(s), k \in 0..Len(s) :
           /\ n = IF s # <<>> /\ s[1].kind = "system" THEN 1 ELSE 0
           /\ n <= k /\ k - n < LatestFrom(AfterSystem(s))
           /\ c = <<SystemMsg>> \o t /\ t = SubSeq(s, k + 1, Len(s))
           /\ t # <<>> => t[1].kind # "tool"
<1> DEFINE r == AfterSystem(s)
<1>1. PICK n \in 0..Len(s) : /\ n = IF s # <<>> /\ s[1].kind = "system" THEN 1 ELSE 0
                             /\ r = SubSeq(s, n + 1, Len(s))
  BY SystemCut
<1>2. /\ r \in Seq(Message) /\ Len(r) = Len(s) - n /\ DOMAIN r = 1..Len(r)
      /\ \A i \in 1..(Len(s) - n) : r[i] = s[n + i]
  <2> HIDE DEF r
  <2>1. r \in Seq(Message) /\ Len(r) = Len(s) - n
        /\ \A i \in 1..(Len(s) - n) : r[i] = s[n + i]
    BY <1>1, CutAt
  <2>2. QED  BY <2>1
<1>3. PICK i \in ClusterStarts(r) \union {LatestFrom(r)} :
        c = <<SystemMsg>> \o SubSeq(r, i, Len(r))
  BY DEF Contexts
<1> HIDE DEF r
<1>4. i \in Nat \ {0} /\ i <= LatestFrom(r) /\ LatestFrom(r) \in Nat \ {0}
      /\ (r # <<>> => LatestFrom(r) \in DOMAIN r)
  BY <1>2, LatestIs DEF ClusterStarts
<1>5. ASSUME r # <<>> PROVE i \in DOMAIN r /\ r[i].kind # "tool"
  <2>1. i \in DOMAIN r
    BY <1>2, <1>4, <1>5
  <2>2. ValidSequence(r)
    <3>1. n < Len(s) => s[n + 1].kind # "tool"
      <4>1. CASE n = 0
        BY <4>1, ValidBegins
      <4>2. CASE n = 1 /\ 1 < Len(s)
        <5>1. s[1].calls = <<>> /\ s[1].kind = "system" /\ 1 \in DOMAIN s /\ 2 \in DOMAIN s
          BY <1>1, <4>2 DEF WellFormed
        <5>2. PendingAt(s, 2) = ToSet(s[1].calls) \ {s[j].call : j \in (1 + 1)..(2 - 1)}
          BY <5>1, PendingBehind
        <5>3. PendingAt(s, 2) = {}
          BY <5>1, <5>2 DEF ToSet
        <5>4. QED  BY <4>2, <5>1, <5>3 DEF ValidSequence
      <4>3. QED  BY <1>1, <4>1, <4>2
    <3>2. QED  BY <1>1, <3>1, ValidSuffix
  <2>3. \A j \in DOMAIN r : r[j].calls # <<>> => r[j].kind = "assistant"
    <3> TAKE j \in DOMAIN r
    <3>1. r[j] = s[n + j] /\ n + j \in DOMAIN s
      BY <1>2
    <3>2. QED  BY <3>1 DEF WellFormed
  <2>4. CASE i = LatestFrom(r)
    <3>1. i = 1 \/ IsUser(r[i])
      BY <1>2, <2>4, LatestIs
    <3>2. r[1].kind # "tool"
      BY <1>2, <1>5, <2>2, ValidBegins
    <3>3. QED  BY <2>1, <3>1, <3>2 DEF IsUser
  <2>5. CASE i \in ClusterStarts(r)
    <3>1. ~InToolCluster(r, i)
      BY <2>5 DEF ClusterStarts
    <3>2. QED  BY <1>2, <2>1, <2>2, <2>3, <3>1, AnswerInCluster
  <2>6. QED  BY <2>1, <2>4, <2>5
<1>6. PICK l \in Nat : i = l + 1 /\ l \in 0..(Len(s) - n)
  <2>1. i - 1 \in Nat /\ i = (i - 1) + 1
    BY <1>4
  <2>2. CASE r = <<>>
    <3>1. Len(r) = 0 /\ DOMAIN r = {}
      BY <1>2, <2>2
    <3>2. LatestFrom(r) = 1
      BY <1>2, <3>1, LatestIs
    <3>3. QED  BY <1>4, <2>1, <3>2
  <2>3. CASE r # <<>>
    BY <1>2, <1>5, <2>1, <2>3
  <2>4. QED  BY <2>2, <2>3
<1>7. SubSeq(r, i, Len(r)) = SubSeq(s, n + l + 1, Len(s))
  <2>1. SubSeq(SubSeq(s, n + 1, Len(s)), l + 1, Len(s) - n) = SubSeq(s, n + l + 1, Len(s))
    BY <1>6, CutTwice
  <2>2. QED  BY <1>1, <1>2, <1>6, <2>1
<1>8. PICK k \in 0..Len(s) : k = n + l
  BY <1>6
<1>9. PICK t \in Seq(Message) : /\ t = SubSeq(s, k + 1, Len(s)) /\ Len(t) = Len(s) - k
                                /\ \A j \in 1..(Len(s) - k) : t[j] = s[k + j]
  BY CutAt
<1>10. t # <<>> => t[1].kind # "tool"
  <2> SUFFICES ASSUME t # <<>> PROVE t[1].kind # "tool"
    OBVIOUS
  <2>1. 1 \in 1..(Len(s) - k)
    BY <1>9
  <2>2. t[1] = s[k + 1] /\ r # <<>>
    BY <1>2, <1>8, <1>9, <2>1
  <2>3. r[i] = s[n + i] /\ n + i = k + 1
    BY <1>2, <1>5, <1>6, <1>8, <2>2
  <2>4. QED  BY <1>5, <2>2, <2>3
<1>11. c = <<SystemMsg>> \o t /\ n <= k /\ k - n < LatestFrom(r)
  <2>1. c = <<SystemMsg>> \o t
    BY <1>3, <1>7, <1>8, <1>9
  <2>2. n <= k /\ k - n < LatestFrom(r)
    BY <1>4, <1>6, <1>8
  <2>3. QED  BY <2>1, <2>2
<1>12. QED  BY <1>1, <1>9, <1>10, <1>11 DEF r

\* A context of a valid conversation is valid, has the one system message at its
\* beginning, and all of the latest interaction.
LEMMA ContextSound ==
  ASSUME NEW s \in Seq(Message), WellFormed(s), ValidSequence(s), NEW c \in Contexts(s)
  PROVE  /\ ValidSequence(c)
         /\ \A i \in DOMAIN c : c[i].kind = "system" <=> i = 1
         /\ \A i \in DOMAIN s :
              /\ \A j \in DOMAIN s : j >= i /\ IsUser(s[j]) => j = i
              /\ s[i].kind # "system"
              => s[i] \in ToSet(c)
<1>1. PICK t \in Seq(Message), n \in 0..Len(s), k \in 0..Len(s) :
        /\ n = IF s # <<>> /\ s[1].kind = "system" THEN 1 ELSE 0
        /\ n <= k /\ k - n < LatestFrom(AfterSystem(s))
        /\ c = <<SystemMsg>> \o t /\ t = SubSeq(s, k + 1, Len(s))
        /\ t # <<>> => t[1].kind # "tool"
  BY ContextCut
<1>2. Len(t) = Len(s) - k /\ \A j \in 1..(Len(s) - k) : t[j] = s[k + j]
  BY <1>1, CutAt
<1> DEFINE h == <<SystemMsg>>
<1>3. /\ h \in Seq(Message) /\ Len(h) = 1 /\ h[1] = SystemMsg
      /\ SystemMsg.kind = "system" /\ SystemMsg.calls = <<>>
  <2>1. SystemMsg \in Message
    BY PlainTypes DEF SystemMsg
  <2>2. QED  BY <2>1 DEF SystemMsg, Plain
<1>4. c = h \o t
  BY <1>1
<1> HIDE DEF h
<1>5. /\ c \in Seq(Message) /\ Len(c) = Len(t) + 1 /\ DOMAIN c = 1..(Len(t) + 1)
      /\ c[1] = SystemMsg /\ \A j \in 1..Len(t) : c[j + 1] = t[j]
  <2>1. /\ c \in Seq(Message) /\ Len(c) = Len(h) + Len(t)
        /\ \A i \in 1..(Len(h) + Len(t)) : c[i] = IF i <= Len(h) THEN h[i] ELSE t[i - Len(h)]
    BY <1>3, <1>4, ConcatProperties
  <2>2. Len(t) \in Nat
    OBVIOUS
  <2>3. QED  BY <1>3, <2>1, <2>2
<1>6. ValidSequence(c)
  <2>1. ValidSequence(h)
    <3>1. DOMAIN h = {1}
      BY <1>3
    <3>2. QED  BY <1>3, <3>1, ValidPlain
  <2>2. k < Len(s) => s[k + 1].kind # "tool"
    <3> SUFFICES ASSUME k < Len(s) PROVE s[k + 1].kind # "tool"
      OBVIOUS
    <3>1. 1 \in 1..(Len(s) - k)
      OBVIOUS
    <3>2. t[1] = s[k + 1] /\ Len(t) # 0
      BY <1>2, <3>1
    <3>3. QED  BY <1>1, <3>2
  <2>3. ValidSequence(t)
    BY <1>1, <2>2, ValidSuffix
  <2>4. CASE t = <<>>
    <3>1. c = h
      BY <1>3, <1>4, <2>4
    <3>2. QED  BY <2>1, <3>1
  <2>5. CASE t # <<>>
    <3>1. t[1].kind # "tool"
      BY <1>1, <2>5
    <3>2. QED  BY <1>3, <1>4, <2>1, <2>3, <2>5, <3>1, ValidJoin
  <2>6. QED  BY <2>4, <2>5
<1>7. ASSUME NEW i \in DOMAIN c PROVE c[i].kind = "system" <=> i = 1
  <2>1. CASE i # 1
    <3>1. PICK j \in 1..(Len(s) - k) : i = j + 1
      <4>1. i - 1 \in 1..(Len(s) - k) /\ i = (i - 1) + 1
        BY <1>2, <1>5, <2>1
      <4>2. QED  BY <4>1
    <3>2. c[i] = s[k + j] /\ k + j \in DOMAIN s
      <4>1. j \in 1..Len(t) /\ k + j \in DOMAIN s
        BY <1>2
      <4>2. c[j + 1] = t[j] /\ t[j] = s[k + j]
        BY <1>2, <1>5, <4>1
      <4>3. QED  BY <3>1, <4>1, <4>2
    <3>3. ASSUME s[k + j].kind = "system" PROVE FALSE
      <4>1. k + j = 1
        BY <3>2, <3>3 DEF WellFormed
      <4>2. s # <<>> /\ k = 0
        BY <3>1, <3>2, <4>1
      <4>3. QED  BY <1>1, <3>3, <4>1, <4>2
    <3>4. QED  BY <2>1, <3>2, <3>3
  <2>2. QED  BY <1>3, <1>5, <2>1
<1>8. ASSUME NEW i \in DOMAIN s, \A j \in DOMAIN s : j >= i /\ IsUser(s[j]) => j = i,
             s[i].kind # "system"
      PROVE  s[i] \in ToSet(c)
  <2> DEFINE r == AfterSystem(s)
  <2>1. r = SubSeq(s, n + 1, Len(s))
    BY <1>1, SystemCut
  <2> HIDE DEF r
  <2>2. /\ r \in Seq(Message) /\ Len(r) = Len(s) - n
        /\ \A j \in 1..(Len(s) - n) : r[j] = s[n + j]
    BY <2>1, CutAt
  <2>3. PICK l \in Nat \ {0} : /\ l = LatestFrom(r)
                               /\ l = 1 \/ (l \in DOMAIN r /\ IsUser(r[l]))
    BY <2>2, LatestIs
  <2>4. i > k
    <3>1. CASE l = 1
      <4>1. k = n
        BY <1>1, <2>3, <3>1 DEF r
      <4>2. n = 1 => i # 1
        BY <1>1, <1>8
      <4>3. QED  BY <1>1, <4>1, <4>2
    <3>2. CASE l \in DOMAIN r /\ IsUser(r[l])
      <4>1. l \in 1..(Len(s) - n)
        BY <2>2, <3>2
      <4>2. n + l \in DOMAIN s /\ IsUser(s[n + l])
        BY <2>2, <3>2, <4>1
      <4>3. n + l >= i => n + l = i
        BY <1>8, <4>2
      <4>4. k < n + l
        BY <1>1, <2>3 DEF r
      <4>5. QED  BY <4>2, <4>3, <4>4
    <3>3. QED  BY <2>3, <3>1, <3>2
  <2>5. PICK j \in 1..(Len(s) - k) : i = k + j
    <3>1. i - k \in 1..(Len(s) - k) /\ i = k + (i - k)
      BY <2>4
    <3>2. QED  BY <3>1
  <2>6. s[i] = c[j + 1] /\ j + 1 \in DOMAIN c
    BY <1>2, <1>5, <2>5
  <2>7. QED  BY <2>6 DEF ToSet
<1>9. QED  BY <1>6, <1>7, <1>8

-----------------------------------------------------------------------------
(***************************************************************************)
(* Answers in the order of the calls.                                      *)
(***************************************************************************)

\* Message i answers its call behind the message a that asked, as all messages in
\* between do.
Answers(s, a, i) ==
  /\ i - a <= Len(s[a].calls)
  /\ \A j \in (a + 1)..i : s[j] = ToolMsg(s[a].turn, s[a].calls[j - a])

AnswersFollow(s) ==
  \A i \in DOMAIN s : s[i].kind = "tool" => \E a \in 1..(i - 1) : Answers(s, a, i)

\* The last message that asked still waits for the answer to call c, the next one.
AwaitsAnswer(s, t, c) ==
  \E a \in DOMAIN s : /\ s[a].turn = t /\ Answers(s, a, Len(s))
                      /\ Len(s) - a < Len(s[a].calls)
                      /\ s[a].calls[Len(s) - a + 1] = c

\* Whether messages are answers does not depend on what stands around them.
LEMMA AnswersShift ==
  ASSUME NEW s, NEW t, NEW n \in Int, NEW a \in Nat, NEW i \in Nat,
         \A j \in a..i : t[j] = s[n + j], a <= i, Answers(s, n + a, n + i)
  PROVE  Answers(t, a, i)
<1>1. t[a] = s[n + a]
  OBVIOUS
<1>2. i - a = (n + i) - (n + a)
  OBVIOUS
<1>3. ASSUME NEW j \in (a + 1)..i
      PROVE  t[j] = ToolMsg(t[a].turn, t[a].calls[j - a])
  <2>1. PICK l \in (n + a + 1)..(n + i) : l = n + j
    OBVIOUS
  <2>2. t[j] = s[l] /\ l - (n + a) = j - a
    BY <2>1
  <2>3. s[l] = ToolMsg(s[n + a].turn, s[n + a].calls[l - (n + a)])
    BY DEF Answers
  <2>4. QED  BY <1>1, <2>2, <2>3
<1>4. i - a <= Len(t[a].calls)
  BY <1>1, <1>2 DEF Answers
<1>5. QED  BY <1>3, <1>4 DEF Answers

\* A sequence without answers is in order.
LEMMA FollowPlain ==
  ASSUME NEW s, \A i \in DOMAIN s : s[i].kind # "tool"
  PROVE  AnswersFollow(s)
BY DEF AnswersFollow

\* The first messages of a sequence in order are in order.
LEMMA FollowPrefix ==
  ASSUME NEW s \in Seq(Message), AnswersFollow(s), NEW n \in 0..Len(s)
  PROVE  AnswersFollow(SubSeq(s, 1, n))
<1> DEFINE t == SubSeq(s, 1, n)
<1>1. t \in Seq(Message) /\ Len(t) = n /\ \A i \in 1..n : t[i] = s[i]
  BY CutAt
<1> SUFFICES AnswersFollow(t)
  OBVIOUS
<1> HIDE DEF t
<1>2. ASSUME NEW i \in DOMAIN t, t[i].kind = "tool"
      PROVE  \E a \in 1..(i - 1) : Answers(t, a, i)
  <2>1. i \in DOMAIN s /\ i \in 1..n /\ s[i].kind = "tool"
    BY <1>1, <1>2
  <2>2. PICK a \in 1..(i - 1) : Answers(s, a, i)
    BY <2>1 DEF AnswersFollow
  <2>3. /\ a \in Nat /\ i \in Nat /\ a <= i /\ 0 \in Int
        /\ 0 + a = a /\ 0 + i = i /\ \A j \in a..i : t[j] = s[0 + j]
    <3>1. a \in Nat /\ i \in Nat /\ a <= i
      BY <2>1
    <3>2. \A j \in a..i : j \in 1..n /\ 0 + j = j
      BY <2>1
    <3>3. QED  BY <1>1, <3>1, <3>2
  <2>4. Answers(s, 0 + a, 0 + i)
    BY <2>2, <2>3
  <2>5. Answers(t, a, i)
    BY <2>3, <2>4, AnswersShift
  <2>6. QED  BY <2>5
<1>3. QED  BY <1>2 DEF AnswersFollow

\* So are the last ones, if the first of them is no answer.
LEMMA FollowSuffix ==
  ASSUME NEW s \in Seq(Message), AnswersFollow(s), NEW m \in 0..Len(s),
         m < Len(s) => s[m + 1].kind # "tool"
  PROVE  AnswersFollow(SubSeq(s, m + 1, Len(s)))
<1> DEFINE t == SubSeq(s, m + 1, Len(s))
<1>1. t \in Seq(Message) /\ Len(t) = Len(s) - m /\ \A i \in 1..(Len(s) - m) : t[i] = s[m + i]
  BY CutAt
<1> SUFFICES AnswersFollow(t)
  OBVIOUS
<1> HIDE DEF t
<1>2. ASSUME NEW i \in DOMAIN t, t[i].kind = "tool"
      PROVE  \E a \in 1..(i - 1) : Answers(t, a, i)
  <2>1. i \in 1..(Len(s) - m) /\ m + i \in DOMAIN s /\ s[m + i].kind = "tool"
    <3>1. DOMAIN t = 1..(Len(s) - m) /\ Len(s) \in Nat /\ DOMAIN s = 1..Len(s)
      BY <1>1
    <3>2. i \in 1..(Len(s) - m) /\ m + i \in 1..Len(s)
      BY <3>1
    <3>3. t[i] = s[m + i]
      BY <1>1, <3>2
    <3>4. QED  BY <1>2, <3>1, <3>2, <3>3
  <2>2. PICK b \in 1..(m + i - 1) : Answers(s, b, m + i)
    BY <2>1 DEF AnswersFollow
  <2>3. b > m
    <3>1. CASE b <= m
      <4>1. m + 1 \in (b + 1)..(m + i) /\ m < Len(s)
        BY <2>1, <3>1
      <4>2. \A j \in (b + 1)..(m + i) : s[j].kind = "tool"
        <5>1. \A x, y : ToolMsg(x, y).kind = "tool"
          BY DEF ToolMsg
        <5>2. QED  BY <2>2, <5>1 DEF Answers
      <4>3. QED  BY <4>1, <4>2
    <3>2. QED  BY <3>1
  <2>4. PICK a \in 1..(i - 1) : b = m + a
    <3>1. b - m \in 1..(i - 1) /\ b = m + (b - m)
      BY <2>1, <2>3
    <3>2. QED  BY <3>1
  <2>5. /\ a \in Nat /\ i \in Nat /\ a <= i /\ m \in Int
        /\ \A j \in a..i : t[j] = s[m + j]
    <3>1. a \in Nat /\ i \in Nat /\ a <= i /\ m \in Int
      BY <2>1
    <3>2. \A j \in a..i : j \in 1..(Len(s) - m)
      BY <2>1
    <3>3. QED  BY <1>1, <3>1, <3>2
  <2>6. Answers(t, a, i)
    BY <2>2, <2>4, <2>5, AnswersShift
  <2>7. QED  BY <2>6
<1>3. QED  BY <1>2 DEF AnswersFollow

\* Two sequences in order are one.
LEMMA FollowJoin ==
  ASSUME NEW p \in Seq(Message), NEW t \in Seq(Message), AnswersFollow(p), AnswersFollow(t)
  PROVE  AnswersFollow(p \o t)
<1> DEFINE c == p \o t
<1>1. /\ c \in Seq(Message) /\ Len(c) = Len(p) + Len(t) /\ DOMAIN c = 1..(Len(p) + Len(t))
      /\ \A i \in 1..Len(p) : c[i] = p[i]
      /\ \A i \in 1..Len(t) : c[Len(p) + i] = t[i]
      /\ Len(p) \in Nat /\ Len(t) \in Nat /\ DOMAIN p = 1..Len(p) /\ DOMAIN t = 1..Len(t)
  OBVIOUS
<1> SUFFICES AnswersFollow(c)
  OBVIOUS
<1> HIDE DEF c
<1>2. ASSUME NEW i \in DOMAIN c, c[i].kind = "tool"
      PROVE  \E a \in 1..(i - 1) : Answers(c, a, i)
  <2>1. CASE i <= Len(p)
    <3>1. i \in DOMAIN p /\ i \in 1..Len(p) /\ p[i].kind = "tool"
      BY <1>1, <1>2, <2>1
    <3>2. PICK a \in 1..(i - 1) : Answers(p, a, i)
      BY <3>1 DEF AnswersFollow
    <3>3. /\ a \in Nat /\ i \in Nat /\ a <= i /\ 0 \in Int /\ 0 + a = a /\ 0 + i = i
      BY <3>1
    <3>4. \A j \in a..i : c[j] = p[0 + j]
      <4>1. \A j \in a..i : j \in 1..Len(p) /\ 0 + j = j
        BY <3>1
      <4>2. QED  BY <1>1, <4>1
    <3>5. Answers(p, 0 + a, 0 + i)
      BY <3>2, <3>3
    <3>6. Answers(c, a, i)
      BY <3>3, <3>4, <3>5, AnswersShift
    <3>7. QED  BY <3>6
  <2>2. CASE i > Len(p)
    <3>1. PICK l \in 1..Len(t) : i = Len(p) + l
      <4>1. i - Len(p) \in 1..Len(t) /\ i = Len(p) + (i - Len(p))
        BY <1>1, <2>2
      <4>2. QED  BY <4>1
    <3>2. l \in DOMAIN t /\ t[l].kind = "tool"
      BY <1>1, <1>2, <3>1
    <3>3. PICK b \in 1..(l - 1) : Answers(t, b, l)
      BY <3>2 DEF AnswersFollow
    <3>4. PICK n \in Int : n = 0 - Len(p)
      BY <1>1
    <3>5. PICK a \in 1..(i - 1) : a = Len(p) + b
      BY <1>1, <3>1
    <3>6. a \in Nat /\ i \in Nat /\ a <= i /\ n + a = b /\ n + i = l
      BY <1>1, <3>1, <3>4, <3>5
    <3>7. \A j \in a..i : c[j] = t[n + j]
      <4> TAKE j \in a..i
      <4>1. PICK k \in 1..Len(t) : k = n + j /\ j = Len(p) + k
        BY <1>1, <3>1, <3>4, <3>5
      <4>2. QED  BY <1>1, <4>1
    <3>8. Answers(t, n + a, n + i)
      BY <3>3, <3>6
    <3>9. Answers(c, a, i)
      BY <3>6, <3>7, <3>8, AnswersShift
    <3>10. QED  BY <3>9
  <2>3. QED  BY <1>1, <2>1, <2>2
<1>3. QED  BY <1>2 DEF AnswersFollow

\* The answer a conversation waits for is in order.
LEMMA FollowAnswer ==
  ASSUME NEW s \in Seq(Message), AnswersFollow(s), NEW t, NEW c, AwaitsAnswer(s, t, c),
         ToolMsg(t, c) \in Message
  PROVE  AnswersFollow(Append(s, ToolMsg(t, c)))
<1> DEFINE q == Append(s, ToolMsg(t, c))
<1>1. /\ q \in Seq(Message) /\ Len(q) = Len(s) + 1 /\ DOMAIN q = 1..(Len(s) + 1)
      /\ Len(s) \in Nat /\ DOMAIN s = 1..Len(s)
      /\ \A i \in 1..Len(s) : q[i] = s[i]
      /\ q[Len(s) + 1] = ToolMsg(t, c)
  OBVIOUS
<1> SUFFICES AnswersFollow(q)
  OBVIOUS
<1> HIDE DEF q
<1>2. ASSUME NEW i \in DOMAIN q, q[i].kind = "tool"
      PROVE  \E a \in 1..(i - 1) : Answers(q, a, i)
  <2>1. CASE i <= Len(s)
    <3>1. i \in DOMAIN s /\ i \in 1..Len(s) /\ s[i].kind = "tool"
      BY <1>1, <1>2, <2>1
    <3>2. PICK a \in 1..(i - 1) : Answers(s, a, i)
      BY <3>1 DEF AnswersFollow
    <3>3. /\ a \in Nat /\ i \in Nat /\ a <= i /\ 0 \in Int /\ 0 + a = a /\ 0 + i = i
      BY <3>1
    <3>4. \A j \in a..i : q[j] = s[0 + j]
      <4>1. \A j \in a..i : j \in 1..Len(s) /\ 0 + j = j
        BY <3>1
      <4>2. QED  BY <1>1, <4>1
    <3>5. Answers(s, 0 + a, 0 + i)
      BY <3>2, <3>3
    <3>6. Answers(q, a, i)
      BY <3>3, <3>4, <3>5, AnswersShift
    <3>7. QED  BY <3>6
  <2>2. CASE i = Len(s) + 1
    <3>1. PICK a \in DOMAIN s : /\ s[a].turn = t /\ Answers(s, a, Len(s))
                                /\ Len(s) - a < Len(s[a].calls)
                                /\ s[a].calls[Len(s) - a + 1] = c
      BY DEF AwaitsAnswer
    <3>2. a \in 1..(i - 1) /\ q[a] = s[a] /\ Len(s[a].calls) \in Nat
      BY <1>1, <2>2 DEF Message
    <3>3. i - a <= Len(q[a].calls)
      BY <1>1, <2>2, <3>1, <3>2
    <3>4. ASSUME NEW j \in (a + 1)..i
          PROVE  q[j] = ToolMsg(q[a].turn, q[a].calls[j - a])
      <4>1. CASE j = i
        <5>1. j = Len(s) + 1 /\ j - a = Len(s) - a + 1
          BY <1>1, <2>2, <3>2, <4>1
        <5>2. QED  BY <1>1, <3>1, <3>2, <5>1
      <4>2. CASE j # i
        <5>1. j \in (a + 1)..Len(s) /\ j \in 1..Len(s)
          BY <1>1, <2>2, <3>2, <4>2
        <5>2. QED  BY <1>1, <3>1, <3>2, <5>1 DEF Answers
      <4>3. QED  BY <4>1, <4>2
    <3>5. Answers(q, a, i)
      BY <3>3, <3>4 DEF Answers
    <3>6. QED  BY <3>2, <3>5
  <2>3. QED  BY <1>1, <2>1, <2>2
<1>3. QED  BY <1>2 DEF AnswersFollow

\* Compaction keeps the order.
LEMMA FollowCompacted ==
  ASSUME NEW s \in Seq(Message), AnswersFollow(s), Compactable(s)
  PROVE  AnswersFollow(Compacted(s))
<1>1. PICK h, t \in Seq(Message), m \in 0..Len(s) :
        /\ h = SystemPart(s) \o SummaryPair /\ Compacted(s) = h \o t
        /\ m < Len(s) /\ t = SubSeq(s, m + 1, Len(s)) /\ Len(t) = Len(s) - m
        /\ \A i \in 1..(Len(s) - m) : t[i] = s[m + i]
        /\ IsUser(t[1])
  BY CompactedParts
<1>2. PICK n \in {0, 1} :
        /\ Len(h) = n + 2
        /\ n = 1 => h[1] = s[1] /\ s[1].kind = "system"
        /\ h[n + 1] = Plain("summary", 0) /\ h[n + 2] = Plain("ack", 0)
  BY <1>1, CompactedHead
<1>3. AnswersFollow(h)
  <2>1. ASSUME NEW i \in DOMAIN h PROVE h[i].kind # "tool"
    <3>1. CASE i = 1 /\ n = 1
      BY <1>2, <3>1
    <3>2. CASE i \in {n + 1, n + 2}
      BY <1>2, <3>2 DEF Plain
    <3>3. QED  BY <1>2, <3>1, <3>2
  <2>2. QED  BY <2>1, FollowPlain
<1>4. AnswersFollow(t)
  <2>1. 1 \in 1..(Len(s) - m)
    BY <1>1
  <2>2. s[m + 1].kind # "tool"
    BY <1>1, <2>1 DEF IsUser
  <2>3. QED  BY <1>1, <2>2, FollowSuffix
<1>5. AnswersFollow(h \o t)
  BY <1>3, <1>4, FollowJoin
<1>6. QED  BY <1>1, <1>5

-----------------------------------------------------------------------------
(***************************************************************************)
(* The loop over the messages.                                             *)
(***************************************************************************)

Allowed(s, i) == IF s[i].kind = "tool" THEN s[i].call \in PendingAt(s, i) ELSE PendingAt(s, i) = {}

\* What the loop knows after i messages.
Known(s, i) == [ok |-> \A j \in 1..i : Allowed(s, j), pending |-> PendingAt(s, i + 1)]

\* after of CheckedByLoop.
Loops(after, s) ==
  after = [i \in 0..Len(s) |-> IF i = 0 THEN [ok |-> TRUE, pending |-> {}]
                               ELSE CheckMessage(after[i - 1], s[i])]

LEMMA PendingStep ==
  ASSUME NEW s, NEW i \in Nat, i # 0
  PROVE  PendingAt(s, i + 1) = IF s[i].kind = "tool" THEN PendingAt(s, i) \ {s[i].call} ELSE ToSet(s[i].calls)
<1>1. PICK n \in Nat : n = i + 1 /\ n - 1 = i
  OBVIOUS
<1>2. CASE s[i].kind # "tool"
  <2>1. i \in 1..(n - 1) /\ (i + 1)..(n - 1) = {}
    BY <1>1
  <2>2. PendingAt(s, n) = ToSet(s[i].calls) \ {s[j].call : j \in (i + 1)..(n - 1)}
    BY <1>2, <2>1, PendingBehind
  <2>3. {s[j].call : j \in (i + 1)..(n - 1)} = {}
    BY <2>1
  <2> QED
    BY <1>1, <1>2, <2>2, <2>3
<1>3. CASE s[i].kind = "tool" /\ \A j \in 1..(i - 1) : s[j].kind = "tool"
  <2>1. \A j \in 1..(n - 1) : s[j].kind = "tool"
    <3>1. 1..(n - 1) = 1..(i - 1) \union {i}
      BY <1>1
    <3> QED
      BY <1>3, <3>1
  <2> QED
    BY <1>1, <1>3, <2>1, PendingFirst
<1>4. CASE s[i].kind = "tool" /\ \E b \in 1..(i - 1) : s[b].kind # "tool"
  <2>1. PICK b \in 1..(i - 1) : s[b].kind # "tool"
    BY <1>4
  <2>2. PICK a \in b..(i - 1) : s[a].kind # "tool" /\ \A j \in (a + 1)..(i - 1) : s[j].kind = "tool"
    BY <2>1, AskerBehind
  <2>3. a \in 1..(i - 1) /\ a \in 1..(n - 1) /\ (a + 1)..(n - 1) = (a + 1)..(i - 1) \union {i}
    BY <1>1, <2>1, <2>2
  <2>4. \A j \in (a + 1)..(n - 1) : s[j].kind = "tool"
    BY <1>4, <2>2, <2>3
  <2>5. PendingAt(s, i) = ToSet(s[a].calls) \ {s[j].call : j \in (a + 1)..(i - 1)}
    BY <2>2, <2>3, PendingBehind
  <2>6. PendingAt(s, n) = ToSet(s[a].calls) \ {s[j].call : j \in (a + 1)..(n - 1)}
    BY <2>2, <2>3, <2>4, PendingBehind
  <2>7. {s[j].call : j \in (a + 1)..(n - 1)} = {s[j].call : j \in (a + 1)..(i - 1)} \union {s[i].call}
    BY <2>3
  <2> QED
    BY <1>1, <1>4, <2>5, <2>6, <2>7
<1> QED
  BY <1>2, <1>3, <1>4

LEMMA KnownStep ==
  ASSUME NEW s, NEW i \in Nat, i # 0
  PROVE  Known(s, i) = CheckMessage(Known(s, i - 1), s[i])
<1>1. PICK m \in Nat : m = i - 1 /\ i = m + 1
  OBVIOUS
<1>2. PICK ok, before, pending :
        /\ ok = (\A j \in 1..m : Allowed(s, j)) /\ ok \in BOOLEAN
        /\ before = PendingAt(s, i) /\ pending = PendingAt(s, i + 1)
  OBVIOUS
<1>3. Known(s, m) = [ok |-> ok, pending |-> before]
  BY <1>1, <1>2 DEF Known
<1>4. (\A j \in 1..i : Allowed(s, j)) = (ok /\ Allowed(s, i))
  <2>1. 1..i = 1..m \union {i}
    BY <1>1
  <2> QED
    BY <1>2, <2>1
<1>5. Known(s, i) = [ok |-> ok /\ Allowed(s, i), pending |-> pending]
  BY <1>2, <1>4 DEF Known
<1>6. pending = IF s[i].kind = "tool" THEN before \ {s[i].call} ELSE ToSet(s[i].calls)
  BY <1>2, PendingStep
<1>7. Allowed(s, i) = IF s[i].kind = "tool" THEN s[i].call \in before ELSE before = {}
  BY <1>2 DEF Allowed
<1>8. PICK acc, last : acc = Known(s, m) /\ last = s[i]
  OBVIOUS
<1>9. acc.ok = ok /\ acc.pending = before
  BY <1>3, <1>8
<1>10. CASE last.kind = "tool"
  <2>1. Known(s, i) = [ok |-> ok /\ last.call \in before, pending |-> before \ {last.call}]
    BY <1>5, <1>6, <1>7, <1>8, <1>10
  <2>2. CheckMessage(acc, last) = [ok |-> ok /\ last.call \in before, pending |-> before \ {last.call}]
    BY <1>9, <1>10, Zenon DEF CheckMessage
  <2> QED
    BY <1>1, <1>8, <2>1, <2>2
<1>11. CASE last.kind # "tool"
  <2>1. Known(s, i) = [ok |-> ok /\ before = {}, pending |-> ToSet(last.calls)]
    BY <1>5, <1>6, <1>7, <1>8, <1>11
  <2>2. CheckMessage(acc, last) = [ok |-> ok /\ before = {}, pending |-> ToSet(last.calls)]
    BY <1>9, <1>11, Zenon DEF CheckMessage
  <2> QED
    BY <1>1, <1>8, <2>1, <2>2
<1> QED
  BY <1>10, <1>11

\* The loop is at what it knows, at every message: the first one where it was not
\* would be a step after one where it was.
LEMMA LoopKnows ==
  ASSUME NEW s \in Seq(Message), NEW after, Loops(after, s)
  PROVE  after[Len(s)] = Known(s, Len(s))
<1>1. PICK n \in Nat : n = Len(s)
  OBVIOUS
<1> DEFINE bad == {i \in 0..n : after[i] # Known(s, i)}
<1>2. SUFFICES bad = {}
  BY <1>1
<1>3. ASSUME bad # {} PROVE FALSE
  <2>1. PICK i \in bad : \A k \in bad : i <= k
    <3>1. bad \in SUBSET Nat
      OBVIOUS
    <3> HIDE DEF bad
    <3> QED
      BY <1>3, <3>1, LeastOf
  <2>2. CASE i = 0
    <3>1. after[0] = [ok |-> TRUE, pending |-> {}]
      BY <1>1 DEF Loops
    <3>2. (\A j \in 1..0 : Allowed(s, j)) = TRUE
      OBVIOUS
    <3>3. PendingAt(s, 0 + 1) = {}
      BY PendingFirst
    <3>4. Known(s, 0) = [ok |-> TRUE, pending |-> {}]
      BY <3>2, <3>3 DEF Known
    <3> QED
      BY <2>1, <2>2, <3>1, <3>4
  <2>3. CASE i # 0
    <3>1. PICK m \in 0..n : m = i - 1
      BY <2>1, <2>3
    <3>2. after[m] = Known(s, m)
      BY <2>1, <3>1
    <3>3. after[i] = CheckMessage(after[i - 1], s[i])
      BY <1>1, <2>1, <2>3 DEF Loops
    <3>4. Known(s, i) = CheckMessage(Known(s, i - 1), s[i])
      BY <2>1, <2>3, KnownStep
    <3> QED
      BY <2>1, <3>1, <3>2, <3>3, <3>4
  <2> QED
    BY <2>2, <2>3
<1> QED
  BY <1>3

LEMMA LoopExists ==
  ASSUME NEW s \in Seq(Message)
  PROVE  \E after : Loops(after, s)
<1>1. PICK n \in Nat : n = Len(s)
  OBVIOUS
<1>2. PICK after : after = [i \in 0..n |-> Known(s, i)]
  OBVIOUS
<1>3. Known(s, 0) = [ok |-> TRUE, pending |-> {}]
  <2>1. (\A j \in 1..0 : Allowed(s, j)) = TRUE
    OBVIOUS
  <2>2. PendingAt(s, 0 + 1) = {}
    BY PendingFirst
  <2> QED
    BY <2>1, <2>2 DEF Known
<1>4. ASSUME NEW i \in 0..n
      PROVE  Known(s, i) = IF i = 0 THEN [ok |-> TRUE, pending |-> {}] ELSE CheckMessage(after[i - 1], s[i])
  <2>1. CASE i # 0
    <3>1. i - 1 \in 0..n /\ after[i - 1] = Known(s, i - 1)
      BY <1>2, <2>1
    <3> QED
      BY <2>1, <3>1, KnownStep
  <2> QED
    BY <1>3, <2>1
<1>5. Loops(after, s)
  BY <1>1, <1>2, <1>4 DEF Loops
<1> QED
  BY <1>5

\* The code's loop and the definition by positions decide the same.
LEMMA LoopDecides ==
  ASSUME NEW s \in Seq(Message)
  PROVE  CheckedByLoop(s) <=> ValidSequence(s)
<1> DEFINE after == CHOOSE it : Loops(it, s)
<1>1. Loops(after, s)
  BY LoopExists
<1>2. CheckedByLoop(s) <=> after[Len(s)].ok /\ after[Len(s)].pending = {}
  BY DEF CheckedByLoop, Loops
<1> HIDE DEF after
<1>3. after[Len(s)] = Known(s, Len(s))
  BY <1>1, LoopKnows
<1>4. Known(s, Len(s)).ok = (\A j \in 1..Len(s) : Allowed(s, j)) /\ Known(s, Len(s)).pending = PendingAt(s, Len(s) + 1)
  BY DEF Known
<1> QED
  BY <1>2, <1>3, <1>4 DEF ValidSequence, Allowed
=============================================================================
