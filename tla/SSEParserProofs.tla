--------------------------- MODULE SSEParserProofs ---------------------------
(***************************************************************************)
(* Theorems about SSEParser for any streams, however they are cut.  What   *)
(* the operators do with one more character is shown first; the rest is    *)
(* induction over the characters that a call adds.                         *)
(***************************************************************************)
EXTENDS SSEParser, PiecesProofs, SequenceTheorems

Chars   == Tokens \ {"tail"}
Content == Tokens \ {"tail", "CR", "LF"}
String  == Seq(Chars)
Line    == Seq(Content)

-----------------------------------------------------------------------------
(* Sequences.                                                              *)

\* What holds of the empty sequence and is kept by appending holds of every sequence.
LEMMA SeqInduct ==
  ASSUME NEW S, NEW G, <<>> \in G, \A y \in Seq(S), a \in S : y \in G => Append(y, a) \in G,
         NEW t \in Seq(S)
  PROVE  t \in G
<1> DEFINE bad == {k \in 0..Len(t) : SubSeq(t, 1, k) \notin G}
<1>1. SubSeq(t, 1, 0) = <<>> /\ SubSeq(t, 1, Len(t)) = t /\ Len(t) \in Nat
  OBVIOUS
<1>2. SUFFICES ASSUME bad # {} PROVE FALSE
  <2>1. Len(t) \in 0..Len(t)
    BY <1>1
  <2>2. bad = {} => SubSeq(t, 1, Len(t)) \in G
    BY <2>1
  <2> QED
    BY <1>1, <2>2
<1>3. PICK k \in bad : \A j \in bad : k <= j
  <2> HIDE DEF bad
  <2>1. bad \in SUBSET Nat
    BY <1>1 DEF bad
  <2> QED
    BY <1>2, <2>1, Least
<1>4. k \in 0..Len(t) /\ k # 0
  BY <1>1
<1>5. PICK m \in Nat : k = m + 1
  <2>1. k - 1 \in Nat /\ k = (k - 1) + 1
    BY <1>1, <1>4
  <2> QED
    BY <2>1
<1>6. SubSeq(t, 1, m) \in G
  BY <1>1, <1>3, <1>4, <1>5
<1>7. SubSeq(t, 1, m) \in Seq(S) /\ t[k] \in S
  BY <1>1, <1>4, <1>5
<1>8. SubSeq(t, 1, k) = Append(SubSeq(t, 1, m), t[k])
  BY <1>1, <1>4, <1>5
<1>9. Append(SubSeq(t, 1, m), t[k]) \in G
  BY <1>6, <1>7
<1> QED
  BY <1>3, <1>8, <1>9

LEMMA AppendFacts ==
  ASSUME NEW S, NEW y \in Seq(S), NEW a \in S
  PROVE  /\ Append(y, a) \in Seq(S) /\ Append(y, a) # <<>> /\ Len(Append(y, a)) = Len(y) + 1
         /\ y # <<>> => Append(y, a)[1] = y[1]
         /\ y = <<>> => Append(y, a)[1] = a
<1>1. Append(y, a) \in Seq(S) /\ Len(Append(y, a)) = Len(y) + 1 /\ Len(y) \in Nat
  OBVIOUS
<1>2. Append(y, a) # <<>>
  BY <1>1
<1>3. ASSUME y # <<>> PROVE Append(y, a)[1] = y[1]
  BY <1>3
<1>4. ASSUME y = <<>> PROVE Append(y, a)[1] = a
  BY <1>4
<1> QED
  BY <1>1, <1>2, <1>3, <1>4

LEMMA JoinAppend ==
  ASSUME NEW S, NEW s \in Seq(S), NEW y \in Seq(S), NEW a \in S
  PROVE  s \o Append(y, a) = Append(s \o y, a) /\ s \o y \in Seq(S)
OBVIOUS

LEMMA JoinEmpty ==
  ASSUME NEW S, NEW s \in Seq(S)
  PROVE  s \o <<>> = s /\ <<>> \o s = s
OBVIOUS

LEMMA JoinThree ==
  ASSUME NEW S, NEW s \in Seq(S), NEW t \in Seq(S), NEW u \in Seq(S)
  PROVE  (s \o t) \o u = s \o (t \o u)
OBVIOUS

(* The conclusions of the next two lemmas, under a name the provers match.  *)
Regroups(s, t, u) == (s \o t) \o u = s \o (t \o u)

AppendsLast(s, y, a) == s \o Append(y, a) = Append(s \o y, a)

LEMMA CharsJoin ==
  ASSUME NEW s \in Seq(Chars), NEW t \in Seq(Chars), NEW u \in Seq(Chars)
  PROVE  Regroups(s, t, u)
BY JoinThree DEF Regroups

LEMMA CharsAppend ==
  ASSUME NEW s \in Seq(Chars), NEW y \in Seq(Chars), NEW a \in Chars
  PROVE  AppendsLast(s, y, a) /\ s \o y \in Seq(Chars)
BY JoinAppend DEF AppendsLast

-----------------------------------------------------------------------------
(* The characters of bytes.                                                *)

LEMMA TextStep ==
  ASSUME NEW s \in Seq(Tokens), NEW a \in Tokens
  PROVE  Text(Append(s, a)) = IF a = "tail" THEN Text(s) ELSE Append(Text(s), a)
<1> DEFINE p == [i \in {j \in DOMAIN s : s[j] # "tail"} |-> s[i]]
           t == Append(s, a)
           q == [i \in {j \in DOMAIN t : t[j] # "tail"} |-> t[i]]
<1>1. PICK n \in Nat : n = Len(s)
  OBVIOUS
<1>2. PICK k \in Nat : k = n + 1
  OBVIOUS
<1>3. Len(t) = k /\ DOMAIN t = 1..k /\ DOMAIN s = 1..n /\ t[k] = a /\ \A i \in 1..n : t[i] = s[i]
  BY <1>1, <1>2
<1>4. Agree(p, q, n)
  BY <1>2, <1>3 DEF Agree
<1>5. k \in DOMAIN q <=> a # "tail"
  BY <1>2, <1>3
<1>6. a # "tail" => q[k] = a
  BY <1>3, <1>5
<1>7. Text(s) = InOrder(p, n) /\ Text(t) = InOrder(q, k)
  BY <1>1, <1>3 DEF Text
<1> HIDE DEF p, q, t
<1>8. InOrder(q, k) = IF k \in DOMAIN q THEN Append(InOrder(q, n), q[k]) ELSE InOrder(q, n)
  BY <1>2, InOrderStep
<1>9. InOrder(q, n) = InOrder(p, n)
  BY <1>4, InOrderAgree
<1> QED
  BY <1>5, <1>6, <1>7, <1>8, <1>9 DEF t

LEMMA TextFirst == Text(<<>>) = <<>>
BY InOrderEmpty DEF Text

LEMMA TextType ==
  ASSUME NEW s \in Seq(Tokens)
  PROVE  Text(s) \in Seq(Chars)
<1> DEFINE p == [i \in {j \in DOMAIN s : s[j] # "tail"} |-> s[i]]
<1>1. Len(s) \in Nat /\ \A i \in 1..Len(s) : i \in DOMAIN p => p[i] \in Chars
  BY DEF Chars
<1> HIDE DEF p
<1>2. InOrder(p, Len(s)) \in Seq(Chars)
  BY <1>1, InOrderType
<1> QED
  BY <1>2 DEF Text, p

\* Bytes join as their characters do, and make no more characters than they are.
LEMMA TextJoin ==
  ASSUME NEW s \in Seq(Tokens), NEW t \in Seq(Tokens)
  PROVE  Text(s \o t) = Text(s) \o Text(t)
<1> DEFINE G == {y \in Seq(Tokens) : Text(s \o y) = Text(s) \o Text(y)}
<1>1. <<>> \in G
  BY TextType, TextFirst, JoinEmpty
<1>2. ASSUME NEW y \in Seq(Tokens), NEW a \in Tokens, y \in G PROVE Append(y, a) \in G
  <2>1. Append(y, a) \in Seq(Tokens) /\ s \o Append(y, a) = Append(s \o y, a) /\ s \o y \in Seq(Tokens)
    BY JoinAppend
  <2>2. Text(s) \in Seq(Chars) /\ Text(y) \in Seq(Chars) /\ Text(s \o y) = Text(s) \o Text(y)
    BY <1>2, TextType
  <2>3. Text(s \o Append(y, a)) = IF a = "tail" THEN Text(s) \o Text(y) ELSE Append(Text(s) \o Text(y), a)
    BY <2>1, <2>2, TextStep
  <2>4. Text(Append(y, a)) = IF a = "tail" THEN Text(y) ELSE Append(Text(y), a)
    BY TextStep
  <2>5. a # "tail" => Append(Text(s) \o Text(y), a) = Text(s) \o Append(Text(y), a)
    <3>1. a # "tail" => a \in Chars
      BY DEF Chars
    <3> QED
      BY <2>2, <3>1, JoinAppend
  <2> QED
    BY <2>1, <2>3, <2>4, <2>5
<1> HIDE DEF G
<1>3. t \in G
  BY <1>1, <1>2, SeqInduct
<1> QED
  BY <1>3 DEF G

LEMMA TextLength ==
  ASSUME NEW s \in Seq(Tokens)
  PROVE  Len(Text(s)) <= Len(s)
<1> DEFINE G == {y \in Seq(Tokens) : Len(Text(y)) <= Len(y)}
<1>1. <<>> \in G
  BY TextFirst
<1>2. ASSUME NEW y \in Seq(Tokens), NEW a \in Tokens, y \in G PROVE Append(y, a) \in G
  <2>1. Append(y, a) \in Seq(Tokens) /\ Len(Append(y, a)) = Len(y) + 1 /\ Len(y) \in Nat
    OBVIOUS
  <2>2. Text(y) \in Seq(Chars) /\ Len(Text(y)) <= Len(y)
    BY <1>2, TextType
  <2>3. Len(Text(y)) \in Nat /\ Len(Append(Text(y), a)) = Len(Text(y)) + 1
    BY <2>2
  <2>4. Len(Text(Append(y, a))) <= Len(Text(y)) + 1
    BY <2>3, TextStep
  <2> QED
    BY <2>1, <2>2, <2>3, <2>4
<1> HIDE DEF G
<1>3. s \in G
  BY <1>1, <1>2, SeqInduct
<1> QED
  BY <1>3 DEF G

-----------------------------------------------------------------------------
(* Lines.  Splitting the normalized text makes the lines of the text, since *)
(* both start with one empty line and do the same with one more character. *)

EndsInReturn(t) == t # <<>> /\ t[Len(t)] = "CR"

\* The second half of a line end, which does nothing more.
Half(t, c) == c = "LF" /\ EndsInReturn(t)

\* What a character does to the lines `ended` and the line `open` behind them.
Extended(ended, open, c) ==
  IF c \in {"CR", "LF"} THEN Append(Append(ended, open), <<>>) ELSE Append(ended, Append(open, c))

\* The places of LinesOf.
Ends(text) == {i \in DOMAIN text : text[i] \in {"CR", "LF"} /\ ~IsReturn(text, i)}
Written(text) == [i \in {j \in DOMAIN text : text[j] \notin {"CR", "LF"}} |-> text[i]]

LEMMA LinesFirst == LinesOf(<<>>) = << <<>> >>
<1>1. Ends(<<>>) \in SUBSET Nat /\ LinesOf(<<>>) = Groups(Written(<<>>), Ends(<<>>), 0)
  BY DEF LinesOf, Ends, Written
<1> QED
  BY <1>1, GroupsFirst

\* The last character does not matter to what stands in front of it, except for a
\* carriage return in front of a line feed.
LEMMA EndsStep ==
  ASSUME NEW t \in Seq(Chars), NEW c \in Chars, NEW n \in Nat, n = Len(t), NEW k \in Nat, k = n + 1
  PROVE  LET u == Append(t, c) IN
         /\ Ends(t) \in SUBSET Nat /\ Ends(u) \in SUBSET Nat
         /\ Agree(Written(t), Written(u), n)
         /\ \A i \in 1..n : (i < n \/ c # "LF" \/ ~EndsInReturn(t)) => (i \in Ends(t) <=> i \in Ends(u))
         /\ c = "LF" /\ EndsInReturn(t) => n \in Ends(t) /\ n \notin Ends(u)
         /\ k \in Ends(u) <=> c \in {"CR", "LF"}
         /\ k \in DOMAIN Written(u) <=> c \notin {"CR", "LF"}
         /\ c \notin {"CR", "LF"} => Written(u)[k] = c
         /\ EndsInReturn(t) => n \notin DOMAIN Written(u)
         /\ LinesOf(u) = Groups(Written(u), Ends(u), k)
         /\ LinesOf(t) = Groups(Written(t), Ends(t), n)
<1> DEFINE u == Append(t, c)
<1>1. Len(u) = k /\ DOMAIN u = 1..k /\ DOMAIN t = 1..n /\ u[k] = c /\ \A i \in 1..n : u[i] = t[i]
  OBVIOUS
<1>2. t \in Seq(Chars) /\ u \in Seq(Chars)
  OBVIOUS
<1> HIDE DEF u
<1>3. Ends(t) \in SUBSET Nat /\ Ends(u) \in SUBSET Nat
  BY <1>1 DEF Ends
<1>4. Agree(Written(t), Written(u), n)
  BY <1>1 DEF Agree, Written
<1>5. ASSUME NEW i \in 1..n, i < n \/ c # "LF" \/ ~EndsInReturn(t)
      PROVE  i \in Ends(t) <=> i \in Ends(u)
  <2>1. u[i] = t[i] /\ i \in DOMAIN u /\ i \in DOMAIN t
    BY <1>1
  <2>2. CASE i < n
    <3>1. i + 1 \in 1..n /\ i < Len(t) /\ i < Len(u)
      BY <1>1, <2>2
    <3>2. u[i + 1] = t[i + 1]
      BY <1>1, <3>1
    <3> QED
      BY <2>1, <3>1, <3>2 DEF Ends, IsReturn
  <2>3. CASE i = n
    <3>1. ~(i < Len(t)) /\ i + 1 = k /\ i < Len(u)
      BY <1>1, <2>3
    <3>2. ~IsReturn(t, i)
      BY <3>1 DEF IsReturn
    <3>3. ~IsReturn(u, i)
      <4>1. t # <<>>
        BY <1>1
      <4>2. c # "LF" \/ t[n] # "CR"
        BY <1>5, <2>3, <4>1 DEF EndsInReturn
      <4> QED
        BY <1>1, <2>1, <2>3, <3>1, <4>2 DEF IsReturn
    <3> QED
      BY <2>1, <3>2, <3>3 DEF Ends
  <2> QED
    BY <2>2, <2>3
<1>6. ASSUME c = "LF", EndsInReturn(t) PROVE n \in Ends(t) /\ n \notin Ends(u)
  <2>1. n \in 1..n /\ t[n] = "CR" /\ ~(n < Len(t)) /\ n < Len(u) /\ n + 1 = k
    BY <1>1, <1>6 DEF EndsInReturn
  <2>2. ~IsReturn(t, n) /\ IsReturn(u, n)
    BY <1>1, <1>6, <2>1 DEF IsReturn
  <2> QED
    BY <1>1, <2>1, <2>2 DEF Ends
<1>7. k \in Ends(u) <=> c \in {"CR", "LF"}
  <2>1. ~IsReturn(u, k)
    BY <1>1 DEF IsReturn
  <2> QED
    BY <1>1, <2>1 DEF Ends
<1>8. (k \in DOMAIN Written(u) <=> c \notin {"CR", "LF"}) /\ (c \notin {"CR", "LF"} => Written(u)[k] = c)
  BY <1>1 DEF Written
<1>9. EndsInReturn(t) => n \notin DOMAIN Written(u)
  BY <1>1 DEF Written, EndsInReturn
<1>10. LinesOf(u) = Groups(Written(u), Ends(u), k) /\ LinesOf(t) = Groups(Written(t), Ends(t), n)
  BY <1>1 DEF LinesOf, Written, Ends
<1> QED
  BY <1>3, <1>4, <1>5, <1>6, <1>7, <1>8, <1>9, <1>10 DEF u

LEMMA WrittenType ==
  ASSUME NEW t \in Seq(Chars), NEW i \in DOMAIN Written(t)
  PROVE  Written(t)[i] \in Content
BY DEF Written, Chars, Content

LEMMA LinesStep ==
  ASSUME NEW t \in Seq(Chars), NEW c \in Chars
  PROVE  \E ended \in Seq(Line), open \in Line :
           /\ LinesOf(t) = Append(ended, open)
           /\ LinesOf(Append(t, c)) = IF Half(t, c) THEN Append(ended, open) ELSE Extended(ended, open, c)
<1> DEFINE u == Append(t, c)
           p == Written(t)
           q == Written(u)
           d == Ends(t)
           e == Ends(u)
<1>1. PICK n \in Nat : n = Len(t)
  OBVIOUS
<1>2. PICK k \in Nat : k = n + 1
  OBVIOUS
<1>3. t \in Seq(Chars) /\ u \in Seq(Chars)
  OBVIOUS
<1>4. /\ d \in SUBSET Nat /\ e \in SUBSET Nat
      /\ Agree(p, q, n)
      /\ \A i \in 1..n : (i < n \/ c # "LF" \/ ~EndsInReturn(t)) => (i \in d <=> i \in e)
      /\ c = "LF" /\ EndsInReturn(t) => n \in d /\ n \notin e
      /\ k \in e <=> c \in {"CR", "LF"}
      /\ k \in DOMAIN q <=> c \notin {"CR", "LF"}
      /\ c \notin {"CR", "LF"} => q[k] = c
      /\ EndsInReturn(t) => n \notin DOMAIN q
      /\ LinesOf(u) = Groups(q, e, k)
      /\ LinesOf(t) = Groups(p, d, n)
  BY <1>1, <1>2, EndsStep
<1>5. ASSUME NEW j \in Nat
      PROVE  /\ \A i \in 1..j : i \in DOMAIN p => p[i] \in Content
             /\ \A i \in 1..j : i \in DOMAIN q => q[i] \in Content
  BY <1>3, WrittenType
<1>6. SUFFICES \E ended \in Seq(Seq(Content)), open \in Seq(Content) :
                 /\ LinesOf(t) = Append(ended, open)
                 /\ LinesOf(u) = IF Half(t, c) THEN Append(ended, open) ELSE Extended(ended, open, c)
  BY DEF Line
<1> HIDE DEF u, p, q, d, e
<1>11. ASSUME NEW j \in Nat, NEW l \in Nat, l = j + 1
       PROVE  \E ended \in Seq(Seq(Content)), open \in Seq(Content) : GroupsFrom(q, e, j, l, ended, open)
  <2>1. e \in SUBSET Nat /\ \A i \in 1..j : i \in DOMAIN q => q[i] \in Content
    BY <1>4, <1>5
  <2>2. InOrder(Ended(q, e), j) \in Seq(Seq(Content)) /\ Between(q, e, l) \in Seq(Content)
    BY <1>11, <2>1, GroupsParts
  <2>3. GroupsFrom(q, e, j, l, InOrder(Ended(q, e), j), Between(q, e, l))
    BY <1>11, <2>1, GroupsStep
  <2> QED
    BY <2>2, <2>3
<1>12. ASSUME NEW j \in Nat, NEW l \in Nat, l = j + 1
       PROVE  \E ended \in Seq(Seq(Content)), open \in Seq(Content) : GroupsFrom(p, d, j, l, ended, open)
  <2>1. d \in SUBSET Nat /\ \A i \in 1..j : i \in DOMAIN p => p[i] \in Content
    BY <1>4, <1>5
  <2>2. InOrder(Ended(p, d), j) \in Seq(Seq(Content)) /\ Between(p, d, l) \in Seq(Content)
    BY <1>12, <2>1, GroupsParts
  <2>3. GroupsFrom(p, d, j, l, InOrder(Ended(p, d), j), Between(p, d, l))
    BY <1>12, <2>1, GroupsStep
  <2> QED
    BY <2>2, <2>3
<1>7. CASE ~(c = "LF" /\ EndsInReturn(t))
  <2>1. Groups(p, d, n) = Groups(q, e, n)
    BY <1>4, <1>7, GroupsAgree
  <2>2. PICK ended \in Seq(Seq(Content)), open \in Seq(Content) : GroupsFrom(q, e, n, k, ended, open)
    BY <1>2, <1>11
  <2>3. LinesOf(u) = IF Half(t, c) THEN Append(ended, open) ELSE Extended(ended, open, c)
    <3>1. c \in {"CR", "LF"} => LinesOf(u) = Append(Append(ended, open), <<>>)
      BY <1>4, <2>2 DEF GroupsFrom
    <3>2. c \notin {"CR", "LF"} => LinesOf(u) = Append(ended, Append(open, c))
      BY <1>4, <2>2 DEF GroupsFrom
    <3> QED
      BY <1>7, <3>1, <3>2 DEF Extended, Half
  <2>4. LinesOf(t) = Append(ended, open)
    BY <1>4, <2>1, <2>2 DEF GroupsFrom
  <2> QED
    BY <2>3, <2>4
<1>8. CASE c = "LF" /\ EndsInReturn(t)
  <2>1. PICK m \in Nat : n = m + 1
    <3>1. n - 1 \in Nat /\ n = (n - 1) + 1
      BY <1>1, <1>8 DEF EndsInReturn
    <3> QED
      BY <3>1
  <2>2. Agree(p, q, m) /\ \A i \in 1..m : i \in d <=> i \in e
    BY <1>4, <2>1 DEF Agree
  <2>3. Groups(p, d, m) = Groups(q, e, m)
    BY <1>4, <2>2, GroupsAgree
  <2>4. PICK ended \in Seq(Seq(Content)), open \in Seq(Content) : GroupsFrom(q, e, m, n, ended, open)
    BY <2>1, <1>11
  <2>5. Groups(p, d, n) = Append(Append(ended, open), <<>>)
    <3>1. PICK ended1 \in Seq(Seq(Content)), open1 \in Seq(Content) : GroupsFrom(p, d, m, n, ended1, open1)
      BY <2>1, <1>12
    <3>2. n \in d /\ Append(ended1, open1) = Append(ended, open)
      BY <1>4, <1>8, <2>3, <2>4, <3>1 DEF GroupsFrom
    <3> QED
      BY <3>1, <3>2 DEF GroupsFrom
  <2>6. Groups(q, e, k) = Append(Append(ended, open), <<>>)
    <3>1. PICK ended1 \in Seq(Seq(Content)), open1 \in Seq(Content) : GroupsFrom(q, e, n, k, ended1, open1)
      BY <1>2, <1>11
    <3>2. k \in e /\ n \notin e /\ n \notin DOMAIN q
      BY <1>4, <1>8
    <3>3. Groups(q, e, n) = Append(ended, open)
      BY <2>4, <3>2 DEF GroupsFrom
    <3>4. Groups(q, e, k) = Append(Append(ended1, open1), <<>>) /\ Groups(q, e, n) = Append(ended1, open1)
      BY <3>1, <3>2 DEF GroupsFrom
    <3> QED
      BY <3>3, <3>4
  <2>7. Append(ended, open) \in Seq(Seq(Content)) /\ <<>> \in Seq(Content)
    OBVIOUS
  <2>8. LinesOf(u) = IF Half(t, c) THEN Append(Append(ended, open), <<>>)
                     ELSE Extended(Append(ended, open), <<>>, c)
    BY <1>4, <1>8, <2>6 DEF Extended, Half
  <2> QED
    BY <1>4, <2>5, <2>7, <2>8
<1> QED
  BY <1>7, <1>8

LEMMA AppendFront ==
  ASSUME NEW S, NEW s \in Seq(S), NEW a \in S
  PROVE  Front(Append(s, a)) = s /\ Last(Append(s, a)) = a
BY DEF Front, Last

\* The places of Normalized.
Kept(text) ==
  [i \in {j \in DOMAIN text : ~IsReturn(text, j)} |-> IF text[i] = "CR" THEN "LF" ELSE text[i]]

LEMMA NormalizedStep ==
  ASSUME NEW t \in Seq(Chars), NEW c \in Chars
  PROVE  Normalized(Append(t, c)) = IF c = "LF" /\ EndsInReturn(t) THEN Normalized(t)
                                    ELSE Append(Normalized(t), IF c = "CR" THEN "LF" ELSE c)
<1> DEFINE u == Append(t, c)
           p == Kept(t)
           q == Kept(u)
<1>1. PICK n \in Nat : n = Len(t)
  OBVIOUS
<1>2. PICK k \in Nat : k = n + 1
  OBVIOUS
<1>3. Len(u) = k /\ DOMAIN u = 1..k /\ DOMAIN t = 1..n /\ u[k] = c /\ \A i \in 1..n : u[i] = t[i]
  BY <1>1, <1>2
<1>4. Normalized(t) = InOrder(p, n) /\ Normalized(u) = InOrder(q, k)
  BY <1>1, <1>3 DEF Normalized, Kept
<1> HIDE DEF u
<1>5. k \in DOMAIN q /\ q[k] = IF c = "CR" THEN "LF" ELSE c
  BY <1>2, <1>3 DEF Kept, IsReturn
<1>6. ASSUME NEW i \in 1..n, i < n \/ ~(c = "LF" /\ EndsInReturn(t))
      PROVE  /\ i \in DOMAIN p <=> i \in DOMAIN q
             /\ i \in DOMAIN p => p[i] = q[i]
  <2>1. u[i] = t[i] /\ i \in DOMAIN u /\ i \in DOMAIN t
    BY <1>2, <1>3
  <2>2. IsReturn(t, i) <=> IsReturn(u, i)
    <3>1. CASE i < n
      <4>1. i + 1 \in 1..n /\ i < Len(t) /\ i < Len(u)
        BY <1>1, <1>2, <1>3, <3>1
      <4>2. u[i + 1] = t[i + 1]
        BY <1>3, <4>1
      <4> QED
        BY <2>1, <4>1, <4>2 DEF IsReturn
    <3>2. CASE i = n
      <4>1. ~(i < Len(t)) /\ i + 1 = k /\ t # <<>>
        BY <1>1, <1>2, <1>3, <3>2
      <4>2. c # "LF" \/ t[i] # "CR"
        BY <1>1, <1>6, <3>2, <4>1 DEF EndsInReturn
      <4> QED
        BY <1>3, <2>1, <4>1, <4>2 DEF IsReturn
    <3> QED
      BY <3>1, <3>2
  <2> QED
    BY <2>1, <2>2 DEF Kept
<1>7. ASSUME c = "LF", EndsInReturn(t)
      PROVE  n \in DOMAIN p /\ p[n] = "LF" /\ n \notin DOMAIN q
  <2>1. n \in 1..n /\ t[n] = "CR" /\ ~(n < Len(t)) /\ n < Len(u) /\ n + 1 = k
    BY <1>1, <1>2, <1>3, <1>7 DEF EndsInReturn
  <2>2. ~IsReturn(t, n) /\ IsReturn(u, n)
    BY <1>3, <1>7, <2>1 DEF IsReturn
  <2> QED
    BY <1>3, <2>1, <2>2 DEF Kept
<1> HIDE DEF p, q
<1>8. InOrder(q, k) = Append(InOrder(q, n), q[k])
  BY <1>2, <1>5, InOrderStep
<1>9. CASE ~(c = "LF" /\ EndsInReturn(t))
  <2>1. Agree(p, q, n)
    BY <1>6, <1>9 DEF Agree
  <2>2. InOrder(p, n) = InOrder(q, n)
    BY <2>1, InOrderAgree
  <2> QED
    BY <1>4, <1>5, <1>8, <1>9, <2>2 DEF u
<1>10. CASE c = "LF" /\ EndsInReturn(t)
  <2>1. PICK m \in Nat : n = m + 1
    <3>1. n - 1 \in Nat /\ n = (n - 1) + 1
      BY <1>1, <1>10 DEF EndsInReturn
    <3> QED
      BY <3>1
  <2>2. Agree(p, q, m)
    <3>1. ASSUME NEW i \in 1..m
          PROVE  /\ i \in DOMAIN p <=> i \in DOMAIN q
                 /\ i \in DOMAIN p => p[i] = q[i]
      <4>1. i \in 1..n /\ i < n
        BY <2>1
      <4> QED
        BY <1>6, <4>1
    <3> QED
      BY <3>1 DEF Agree
  <2>3. InOrder(p, m) = InOrder(q, m)
    BY <2>2, InOrderAgree
  <2>4. InOrder(p, n) = Append(InOrder(p, m), "LF")
    BY <1>7, <1>10, <2>1, InOrderStep
  <2>5. InOrder(q, n) = InOrder(q, m)
    BY <1>7, <1>10, <2>1, InOrderStep
  <2>6. q[k] = "LF"
    BY <1>5, <1>10
  <2>7. Normalized(u) = Normalized(t)
    BY <1>4, <1>8, <2>3, <2>4, <2>5, <2>6
  <2> QED
    BY <1>10, <2>7 DEF u
<1> QED
  BY <1>9, <1>10

LEMMA NormalizedType ==
  ASSUME NEW t \in Seq(Chars)
  PROVE  Normalized(t) \in Seq(Chars \ {"CR"})
<1>1. Len(t) \in Nat /\ \A i \in 1..Len(t) : i \in DOMAIN Kept(t) => Kept(t)[i] \in Chars \ {"CR"}
  BY DEF Kept, Chars, Tokens
<1>2. InOrder(Kept(t), Len(t)) \in Seq(Chars \ {"CR"})
  BY <1>1, InOrderType
<1> QED
  BY <1>2 DEF Normalized, Kept

LEMMA PartsStep ==
  ASSUME NEW t \in Seq(Chars), NEW c \in Chars
  PROVE  \E ended \in Seq(String), open \in String :
           /\ Parts(t) = Append(ended, open)
           /\ Parts(Append(t, c)) = IF c = "LF" THEN Append(Append(ended, open), <<>>)
                                               ELSE Append(ended, Append(open, c))
<1> DEFINE u == Append(t, c)
           d == {i \in DOMAIN t : t[i] = "LF"}
           e == {i \in DOMAIN u : u[i] = "LF"}
<1>1. PICK n \in Nat : n = Len(t)
  OBVIOUS
<1>2. PICK k \in Nat : k = n + 1
  OBVIOUS
<1>3. Len(u) = k /\ DOMAIN u = 1..k /\ DOMAIN t = 1..n /\ u[k] = c /\ \A i \in 1..n : u[i] = t[i]
  BY <1>1, <1>2
<1>4. d \in SUBSET Nat /\ e \in SUBSET Nat /\ (\A i \in 1..n : i \in d <=> i \in e) /\ (k \in e <=> c = "LF")
  BY <1>2, <1>3
<1>5. Agree(t, u, n)
  BY <1>2, <1>3 DEF Agree
<1>6. Parts(t) = Groups(t, d, n) /\ Parts(u) = Groups(u, e, k)
  BY <1>1, <1>3 DEF Parts
<1>7. \A i \in 1..n : i \in DOMAIN u => u[i] \in Chars
  BY <1>3
<1> HIDE DEF u, d, e
<1>8. InOrder(Ended(u, e), n) \in Seq(Seq(Chars)) /\ Between(u, e, k) \in Seq(Chars)
  BY <1>2, <1>4, <1>7, GroupsParts
<1>9. GroupsFrom(u, e, n, k, InOrder(Ended(u, e), n), Between(u, e, k))
  BY <1>2, <1>4, GroupsStep
<1>10. PICK ended \in Seq(Seq(Chars)), open \in Seq(Chars) : GroupsFrom(u, e, n, k, ended, open)
  BY <1>8, <1>9
<1>11. Parts(t) = Append(ended, open)
  <2>1. Groups(t, d, n) = Groups(u, e, n)
    BY <1>4, <1>5, GroupsAgree
  <2> QED
    BY <1>6, <1>10, <2>1 DEF GroupsFrom
<1>12. Parts(u) = IF c = "LF" THEN Append(Append(ended, open), <<>>) ELSE Append(ended, Append(open, c))
  <2>1. k \in DOMAIN u /\ u[k] = c
    BY <1>2, <1>3
  <2> QED
    BY <1>4, <1>6, <1>10, <2>1 DEF GroupsFrom
<1> QED
  BY <1>11, <1>12 DEF u, String

\* Splitting what is normalized makes the lines.
LEMMA SplitIsLines ==
  ASSUME NEW t \in Seq(Chars)
  PROVE  Parts(Normalized(t)) = LinesOf(t)
<1> DEFINE G == {y \in Seq(Chars) : Parts(Normalized(y)) = LinesOf(y)}
<1>1. <<>> \in G
  <2>1. Normalized(<<>>) = <<>>
    BY InOrderEmpty DEF Normalized
  <2>2. Parts(<<>>) = << <<>> >>
    <3>1. {i \in DOMAIN <<>> : <<>>[i] = "LF"} \in SUBSET Nat /\ Len(<<>>) = 0
      OBVIOUS
    <3> QED
      BY <3>1, GroupsFirst DEF Parts
  <2> QED
    BY <2>1, <2>2, LinesFirst
<1>2. ASSUME NEW y \in Seq(Chars), NEW a \in Chars, y \in G PROVE Append(y, a) \in G
  <2> DEFINE c == IF a = "CR" THEN "LF" ELSE a
  <2>1. Append(y, a) \in Seq(Chars) /\ Parts(Normalized(y)) = LinesOf(y)
    BY <1>2
  <2>2. PICK ended \in Seq(Line), open \in Line :
          /\ LinesOf(y) = Append(ended, open)
          /\ LinesOf(Append(y, a)) = IF Half(y, a) THEN Append(ended, open) ELSE Extended(ended, open, a)
    BY LinesStep
  <2>3. c \in Chars /\ (a \in {"CR", "LF"} <=> c = "LF") /\ (c # "LF" => c = a)
    BY DEF Chars, Tokens
  <2>4. Normalized(y) \in Seq(Chars)
    BY NormalizedType
  <2>5. PICK ended1 \in Seq(String), open1 \in String :
           /\ Parts(Normalized(y)) = Append(ended1, open1)
           /\ Parts(Append(Normalized(y), c)) = IF c = "LF" THEN Append(Append(ended1, open1), <<>>)
                                                ELSE Append(ended1, Append(open1, c))
    <3> HIDE DEF c
    <3> QED
      BY <2>3, <2>4, PartsStep
  <2>6. ended1 = ended /\ open1 = open
    <3>1. Line \in SUBSET String
      BY DEF Line, String, Content, Chars
    <3>2. ended \in Seq(String) /\ open \in String
      BY <3>1
    <3>3. Append(ended1, open1) = Append(ended, open)
      BY <2>1, <2>2, <2>5
    <3>4. Front(Append(ended1, open1)) = ended1 /\ Last(Append(ended1, open1)) = open1
      BY AppendFront
    <3>5. Front(Append(ended, open)) = ended /\ Last(Append(ended, open)) = open
      BY <3>2, AppendFront
    <3> QED
      BY <3>3, <3>4, <3>5
  <2>7. CASE a = "LF" /\ EndsInReturn(y)
    <3>1. Normalized(Append(y, a)) = Normalized(y)
      BY <2>7, NormalizedStep
    <3>2. LinesOf(Append(y, a)) = LinesOf(y)
      BY <2>2, <2>7 DEF Extended, Half
    <3> QED
      BY <2>1, <3>1, <3>2
  <2>8. CASE ~(a = "LF" /\ EndsInReturn(y))
    <3>1. Normalized(Append(y, a)) = Append(Normalized(y), c)
      BY <2>8, NormalizedStep
    <3>2. LinesOf(Append(y, a)) = IF c = "LF" THEN Append(Append(ended, open), <<>>)
                                  ELSE Append(ended, Append(open, c))
      <4> HIDE DEF c
      <4> QED
        BY <2>2, <2>3, <2>8 DEF Extended, Half
    <3> QED
      BY <2>1, <2>5, <2>6, <3>1, <3>2
  <2> QED
    BY <2>7, <2>8
<1> HIDE DEF G
<1>3. t \in G
  BY <1>1, <1>2, SeqInduct
<1> QED
  BY <1>3 DEF G

LEMMA LinesParts ==
  ASSUME NEW t \in Seq(Chars)
  PROVE  \E ended \in Seq(Line), open \in Line : LinesOf(t) = Append(ended, open)
<1>1. "p" \in Chars
  BY DEF Chars, Tokens
<1> QED
  BY <1>1, LinesStep

LEMMA LineMore ==
  ASSUME NEW open \in Line, NEW a \in Chars, a \notin {"CR", "LF"}
  PROVE  Append(open, a) \in Line
BY DEF Line, Content, Chars

LEMMA LineIsString ==
  ASSUME NEW b \in Line
  PROVE  b \in Seq(Chars) /\ ~EndsInReturn(b) /\ \A i \in 1..Len(b) : b[i] \in Content
BY DEF Line, Content, Chars, EndsInReturn

LEMMA NoLine == <<>> \in Line /\ <<>> \in Seq(Line) /\ Line \in SUBSET Seq(Chars)
BY DEF Line, Content, Chars

LEMMA LineJoin ==
  ASSUME NEW before \in Seq(Line), NEW ended \in Seq(Line), NEW open \in Line
  PROVE  /\ before \o Append(ended, open) = Append(before \o ended, open)
         /\ before \o ended \in Seq(Line) /\ Append(ended, open) \in Seq(Line)
BY JoinAppend

LEMMA PlainLine ==
  ASSUME NEW b \in Line
  PROVE  LinesOf(b) = Append(<<>>, b)
<1> DEFINE G == {y \in Seq(Content) : LinesOf(y) = Append(<<>>, y)}
<1>1. <<>> \in G
  BY LinesFirst
<1>2. ASSUME NEW y \in Seq(Content), NEW a \in Content, y \in G PROVE Append(y, a) \in G
  <2>1. Append(y, a) \in Seq(Content) /\ LinesOf(y) = Append(<<>>, y) /\ y \in Seq(Chars) /\ a \in Chars
    BY <1>2 DEF Content, Chars
  <2>2. PICK ended \in Seq(Line), open \in Line :
          /\ LinesOf(y) = Append(ended, open)
          /\ LinesOf(Append(y, a)) = IF Half(y, a) THEN Append(ended, open) ELSE Extended(ended, open, a)
    BY <2>1, LinesStep
  <2>3. y \in Line /\ <<>> \in Seq(Line)
    BY DEF Line
  <2> HIDE DEF G
  <2>4. ended = <<>> /\ open = y
    <3>1. PICK none \in Seq(Line) : none = <<>>
      BY <2>3
    <3>2. Append(ended, open) = Append(none, y)
      BY <2>1, <2>2, <3>1
    <3>3. Front(Append(ended, open)) = ended /\ Last(Append(ended, open)) = open
      BY AppendFront
    <3>4. Front(Append(none, y)) = none /\ Last(Append(none, y)) = y
      BY <2>3, AppendFront
    <3> QED
      BY <3>1, <3>2, <3>3, <3>4
  <2>5. a \notin {"CR", "LF"}
    BY DEF Content
  <2>6. LinesOf(Append(y, a)) = Append(<<>>, Append(y, a))
    BY <2>2, <2>4, <2>5 DEF Extended, Half
  <2> QED
    BY <2>1, <2>6 DEF G
<1> HIDE DEF G
<1>3. b \in Seq(Content)
  BY DEF Line
<1>4. b \in G
  BY <1>1, <1>2, <1>3, SeqInduct
<1> QED
  BY <1>4 DEF G

(* A character after the lines ended changes nothing of lines before them.  *)
ExtendsLater(before, ended, open, a) ==
  Extended(before \o ended, open, a) = before \o Extended(ended, open, a)

LEMMA ExtendedJoin ==
  ASSUME NEW before \in Seq(Line), NEW ended \in Seq(Line), NEW open \in Line, NEW a \in Chars
  PROVE  ExtendsLater(before, ended, open, a)
<1>1. Append(before \o ended, open) = before \o Append(ended, open) /\ Append(ended, open) \in Seq(Line)
  BY LineJoin
<1>2. CASE a \in {"CR", "LF"}
  <2>1. Append(before \o Append(ended, open), <<>>) = before \o Append(Append(ended, open), <<>>)
    BY <1>1, NoLine, LineJoin
  <2> QED
    BY <1>1, <1>2, <2>1 DEF Extended, ExtendsLater
<1>3. CASE a \notin {"CR", "LF"}
  <2>1. Append(open, a) \in Line
    BY <1>3, LineMore
  <2>2. Append(before \o ended, Append(open, a)) = before \o Append(ended, Append(open, a))
    BY <2>1, LineJoin
  <2> QED
    BY <1>3, <2>2 DEF Extended, ExtendsLater
<1> QED
  BY <1>2, <1>3

LEMMA ReturnJoin ==
  ASSUME NEW s \in Seq(Chars), NEW y \in Seq(Chars)
  PROVE  /\ y # <<>> => (EndsInReturn(s \o y) <=> EndsInReturn(y))
         /\ y = <<>> => (EndsInReturn(s \o y) <=> EndsInReturn(s))
<1>1. CASE y = <<>>
  BY <1>1, JoinEmpty
<1>2. CASE y # <<>>
  <2>1. Len(y) \in Nat /\ Len(y) # 0 /\ Len(s) \in Nat /\ Len(s \o y) = Len(s) + Len(y)
    BY <1>2
  <2>2. (s \o y)[Len(s) + Len(y)] = y[Len(y)] /\ s \o y # <<>>
    BY <2>1
  <2> QED
    BY <1>2, <2>1, <2>2 DEF EndsInReturn
<1> QED
  BY <1>1, <1>2

\* What comes after a text makes the lines it makes after its last line, unless it
\* begins with the second half of a line end.
Splits(c, z) == EndsInReturn(c) /\ z # <<>> /\ z[1] = "LF"

\* What follows is added to the last line, and to what comes after it.
JoinsLater(c, before, b, z) == LinesOf(c \o z) = before \o LinesOf(b \o z)

LEMMA LinesJoin ==
  ASSUME NEW c \in Seq(Chars), NEW before \in Seq(Line), NEW b \in Line, LinesOf(c) = Append(before, b),
         NEW z \in Seq(Chars), ~Splits(c, z)
  PROVE  JoinsLater(c, before, b, z)
<1> DEFINE G == {y \in Seq(Chars) : Splits(c, y) \/ LinesOf(c \o y) = before \o LinesOf(b \o y)}
<1>0. b \in Seq(Chars) /\ ~EndsInReturn(b)
  BY LineIsString
<1>1. <<>> \in G
  <2>1. c \o <<>> = c /\ b \o <<>> = b
    BY <1>0, JoinEmpty
  <2>2. before \o Append(<<>>, b) = Append(before \o <<>>, b) /\ before \o <<>> = before
    BY NoLine, LineJoin, JoinEmpty
  <2>3. LinesOf(c \o <<>>) = before \o LinesOf(b \o <<>>)
    <3>1. LinesOf(b) = Append(<<>>, b)
      BY PlainLine
    <3> QED
      BY <2>1, <2>2, <3>1
  <2> QED
    BY <2>3
<1>2. ASSUME NEW y \in Seq(Chars), NEW a \in Chars, y \in G PROVE Append(y, a) \in G
  <2>1. /\ Append(y, a) \in Seq(Chars) /\ Append(y, a) # <<>>
        /\ y # <<>> => Append(y, a)[1] = y[1]
        /\ y = <<>> => Append(y, a)[1] = a
    <3> HIDE DEF G
    <3>1. Append(y, a) \in Seq(Chars) /\ Append(y, a) # <<>>
      BY AppendFacts
    <3>2. y # <<>> => Append(y, a)[1] = y[1]
      BY AppendFacts
    <3>3. y = <<>> => Append(y, a)[1] = a
      BY AppendFacts
    <3> QED
      BY <3>1, <3>2, <3>3
  <2>2. SUFFICES ASSUME ~Splits(c, Append(y, a))
                 PROVE  LinesOf(c \o Append(y, a)) = before \o LinesOf(b \o Append(y, a))
    BY <2>1
  <2>3. LinesOf(c \o y) = before \o LinesOf(b \o y)
    BY <1>2, <2>1, <2>2 DEF Splits
  <2> HIDE DEF G
  <2>4. /\ c \o Append(y, a) = Append(c \o y, a) /\ c \o y \in Seq(Chars)
        /\ b \o Append(y, a) = Append(b \o y, a) /\ b \o y \in Seq(Chars)
    <3>1. AppendsLast(c, y, a) /\ c \o y \in Seq(Chars)
      BY <1>0, CharsAppend
    <3>2. AppendsLast(b, y, a) /\ b \o y \in Seq(Chars)
      BY <1>0, CharsAppend
    <3> QED
      BY <3>1, <3>2 DEF AppendsLast
  <2>5. PICK ended1 \in Seq(Line), open1 \in Line :
          /\ LinesOf(c \o y) = Append(ended1, open1)
          /\ LinesOf(Append(c \o y, a)) =
               IF Half(c \o y, a) THEN Append(ended1, open1) ELSE Extended(ended1, open1, a)
    BY <2>4, LinesStep
  <2>6. PICK ended2 \in Seq(Line), open2 \in Line :
          /\ LinesOf(b \o y) = Append(ended2, open2)
          /\ LinesOf(Append(b \o y, a)) =
               IF Half(b \o y, a) THEN Append(ended2, open2) ELSE Extended(ended2, open2, a)
    BY <2>4, LinesStep
  <2>7. before \o Append(ended2, open2) = Append(before \o ended2, open2) /\ before \o ended2 \in Seq(Line)
    BY LineJoin
  <2>8. ended1 = before \o ended2 /\ open1 = open2
    <3>1. PICK all \in Seq(Line) : all = before \o ended2
      BY <2>7
    <3>2. Append(ended1, open1) = Append(all, open2)
      BY <2>3, <2>5, <2>6, <2>7, <3>1
    <3>3. Front(Append(ended1, open1)) = ended1 /\ Last(Append(ended1, open1)) = open1
      BY AppendFront
    <3>4. Front(Append(all, open2)) = all /\ Last(Append(all, open2)) = open2
      BY AppendFront
    <3> QED
      BY <3>1, <3>2, <3>3, <3>4
  <2>9. a = "LF" => (EndsInReturn(c \o y) <=> EndsInReturn(b \o y))
    <3>1. y = <<>> /\ a = "LF" => ~EndsInReturn(c)
      BY <2>1, <2>2 DEF Splits
    <3> QED
      BY <1>0, <3>1, ReturnJoin
  <2>10. Extended(before \o ended2, open2, a) = before \o Extended(ended2, open2, a)
    <3>1. ExtendsLater(before, ended2, open2, a)
      BY ExtendedJoin
    <3> QED
      BY <3>1 DEF ExtendsLater
  <2>11. Half(c \o y, a) <=> Half(b \o y, a)
    BY <2>9 DEF Half
  <2> QED
    BY <2>4, <2>5, <2>6, <2>7, <2>8, <2>10, <2>11
<1> HIDE DEF G
<1>3. z \in G
  BY <1>1, <1>2, SeqInduct
<1> QED
  BY <1>3 DEF G, JoinsLater

\* More text leaves the lines that are complete, and the next one as long as it is.
LEMMA LinesGrow ==
  ASSUME NEW c \in Seq(Chars), NEW before \in Seq(Line), NEW b \in Line, LinesOf(c) = Append(before, b),
         NEW z \in Seq(Chars)
  PROVE  \E more \in Seq(Line), open \in Line : LinesOf(c \o z) = Append(before \o more, open)
<1> DEFINE G == {y \in Seq(Chars) :
                   \E more \in Seq(Line), open \in Line : LinesOf(c \o y) = Append(before \o more, open)}
<1>1. <<>> \in G
  <2>1. c \o <<>> = c /\ before \o <<>> = before
    BY JoinEmpty
  <2> QED
    BY <2>1, NoLine
<1>2. ASSUME NEW y \in Seq(Chars), NEW a \in Chars, y \in G PROVE Append(y, a) \in G
  <2>1. PICK more \in Seq(Line), open \in Line : LinesOf(c \o y) = Append(before \o more, open)
    BY <1>2
  <2>2. Append(y, a) \in Seq(Chars)
    OBVIOUS
  <2>3. SUFFICES \E more1 \in Seq(Line), open1 \in Line :
                   LinesOf(c \o Append(y, a)) = Append(before \o more1, open1)
    BY <2>2
  <2> HIDE DEF G
  <2>4. c \o Append(y, a) = Append(c \o y, a) /\ c \o y \in Seq(Chars)
    BY JoinAppend
  <2>5. PICK ended \in Seq(Line), last \in Line :
          /\ LinesOf(c \o y) = Append(ended, last)
          /\ LinesOf(Append(c \o y, a)) =
               IF Half(c \o y, a) THEN Append(ended, last) ELSE Extended(ended, last, a)
    BY <2>4, LinesStep
  <2>6. before \o more \in Seq(Line)
    BY LineJoin
  <2>7. ended = before \o more /\ last = open
    <3>1. PICK all \in Seq(Line) : all = before \o more
      BY <2>6
    <3>2. Append(ended, last) = Append(all, open)
      BY <2>1, <2>5, <3>1
    <3>3. Front(Append(ended, last)) = ended /\ Last(Append(ended, last)) = last
      BY AppendFront
    <3>4. Front(Append(all, open)) = all /\ Last(Append(all, open)) = open
      BY AppendFront
    <3> QED
      BY <3>1, <3>2, <3>3, <3>4
  <2>8. Extended(before \o more, open, a) = before \o Extended(more, open, a)
    <3>1. ExtendsLater(before, more, open, a)
      BY ExtendedJoin
    <3> QED
      BY <3>1 DEF ExtendsLater
  <2>9. PICK more1 \in Seq(Line), open1 \in Line : Extended(more, open, a) = Append(more1, open1)
    <3>1. Append(more, open) \in Seq(Line)
      OBVIOUS
    <3>2. a \notin {"CR", "LF"} => Append(open, a) \in Line
      BY LineMore
    <3> QED
      BY <3>1, <3>2, NoLine DEF Extended
  <2>10. before \o Append(more1, open1) = Append(before \o more1, open1)
    BY LineJoin
  <2>11. CASE Half(c \o y, a)
    BY <2>4, <2>5, <2>7, <2>11
  <2>12. CASE ~Half(c \o y, a)
    BY <2>4, <2>5, <2>7, <2>8, <2>9, <2>10, <2>12
  <2> QED
    BY <2>11, <2>12
<1> HIDE DEF G
<1>3. z \in G
  BY <1>1, <1>2, SeqInduct
<1> QED
  BY <1>3 DEF G

LEMMA FirstGrows ==
  ASSUME NEW b \in Line, NEW z \in Seq(Chars)
  PROVE  LinesOf(b \o z) # <<>> /\ Len(b) <= Len(LinesOf(b \o z)[1])
<1> DEFINE G == {y \in Seq(Chars) : LinesOf(b \o y) # <<>> /\ Len(b) <= Len(LinesOf(b \o y)[1])}
<1>0. b \in Seq(Chars) /\ Len(b) \in Nat
  BY LineIsString
<1>1. <<>> \in G
  <2>1. b \o <<>> = b
    BY <1>0, JoinEmpty
  <2>2. Append(<<>>, b) # <<>> /\ Append(<<>>, b)[1] = b
    OBVIOUS
  <2> QED
    BY <1>0, <2>1, <2>2, PlainLine
<1>2. ASSUME NEW y \in Seq(Chars), NEW a \in Chars, y \in G PROVE Append(y, a) \in G
  <2>1. LinesOf(b \o y) # <<>> /\ Len(b) <= Len(LinesOf(b \o y)[1])
    BY <1>2
  <2>2. Append(y, a) \in Seq(Chars)
    OBVIOUS
  <2>3. SUFFICES LinesOf(b \o Append(y, a)) # <<>> /\ Len(b) <= Len(LinesOf(b \o Append(y, a))[1])
    BY <2>2
  <2> HIDE DEF G
  <2>4. b \o Append(y, a) = Append(b \o y, a) /\ b \o y \in Seq(Chars)
    BY <1>0, JoinAppend
  <2>5. PICK ended \in Seq(Line), open \in Line :
          /\ LinesOf(b \o y) = Append(ended, open)
          /\ LinesOf(Append(b \o y, a)) =
               IF Half(b \o y, a) THEN Append(ended, open) ELSE Extended(ended, open, a)
    BY <2>4, LinesStep
  <2>6. Len(open) \in Nat /\ Len(Append(open, a)) = Len(open) + 1
    BY LineIsString
  <2>7. CASE ended = <<>>
    <3>1. Len(b) <= Len(open)
      BY <2>1, <2>5, <2>7
    <3>2. /\ Append(<<>>, open)[1] = open /\ Append(<<>>, open) # <<>>
          /\ Append(Append(<<>>, open), <<>>)[1] = open /\ Append(Append(<<>>, open), <<>>) # <<>>
          /\ Append(<<>>, Append(open, a))[1] = Append(open, a) /\ Append(<<>>, Append(open, a)) # <<>>
      OBVIOUS
    <3> QED
      BY <1>0, <2>4, <2>5, <2>6, <2>7, <3>1, <3>2 DEF Extended, Half
  <2>8. CASE ended # <<>>
    <3>1. ASSUME NEW x PROVE Append(ended, x)[1] = ended[1] /\ Append(ended, x) # <<>>
      BY <2>8
    <3>2. Append(Append(ended, open), <<>>)[1] = ended[1] /\ Append(Append(ended, open), <<>>) # <<>>
      BY <2>8
    <3>3. Len(b) <= Len(ended[1])
      <4>1. LinesOf(b \o y)[1] = ended[1]
        BY <2>5, <2>8
      <4> QED
        BY <2>1, <4>1
    <3> QED
      BY <2>4, <2>5, <3>1, <3>2, <3>3 DEF Extended, Half
  <2> QED
    BY <2>7, <2>8
<1> HIDE DEF G
<1>3. z \in G
  BY <1>1, <1>2, SeqInduct
<1> QED
  BY <1>3 DEF G

-----------------------------------------------------------------------------
(* Events: what one line more does to them.                                *)

\* The places of EventsOf, and the data behind the last blank line.
Blanks(lines) == {k \in DOMAIN lines : lines[k] = <<>>}
DataAt(lines) == [k \in {j \in DOMAIN lines \ Blanks(lines) : lines[j][1] = "data"} |-> Tail(lines[k])]
EventAt(lines) == [b \in {k \in Blanks(lines) : Between(DataAt(lines), Blanks(lines), k) # <<>>}
                     |-> Between(DataAt(lines), Blanks(lines), b)]
DataOf(lines) == Between(DataAt(lines), Blanks(lines), Len(lines) + 1)

LEMMA EventsAre ==
  ASSUME NEW lines
  PROVE  EventsOf(lines) = InOrder(EventAt(lines), Len(lines))
BY DEF EventsOf, EventAt, DataAt, Blanks

\* The lines in front of the new one are looked at as before.
LEMMA EventPlaces ==
  ASSUME NEW lines \in Seq(Line), NEW l \in Line, NEW n \in Nat, n = Len(lines), NEW k \in Nat, k = n + 1
  PROVE  LET u == Append(lines, l) IN
         /\ Blanks(lines) \in SUBSET Nat /\ Blanks(u) \in SUBSET Nat
         /\ Agree(DataAt(lines), DataAt(u), n)
         /\ \A i \in 1..n : i \in Blanks(lines) <=> i \in Blanks(u)
         /\ k \in Blanks(u) <=> l = <<>>
         /\ k \in DOMAIN DataAt(u) <=> l # <<>> /\ l[1] = "data"
         /\ k \in DOMAIN DataAt(u) => DataAt(u)[k] = Tail(l)
         /\ Len(u) = k
<1> DEFINE u == Append(lines, l)
<1>1. Len(u) = k /\ DOMAIN u = 1..k /\ DOMAIN lines = 1..n /\ u[k] = l /\ \A i \in 1..n : u[i] = lines[i]
  OBVIOUS
<1> HIDE DEF u
<1>2. \A i \in 1..n : i \in 1..k /\ i # k
  OBVIOUS
<1>3. Blanks(lines) \in SUBSET Nat /\ Blanks(u) \in SUBSET Nat
  BY <1>1 DEF Blanks
<1>4. \A i \in 1..n : i \in Blanks(lines) <=> i \in Blanks(u)
  BY <1>1, <1>2 DEF Blanks
<1>5. k \in DOMAIN u
  BY <1>1
<1>6. k \in Blanks(u) <=> l = <<>>
  BY <1>1, <1>5 DEF Blanks
<1>7. /\ k \in DOMAIN DataAt(u) <=> l # <<>> /\ l[1] = "data"
      /\ k \in DOMAIN DataAt(u) => DataAt(u)[k] = Tail(l)
  BY <1>1, <1>5, <1>6 DEF DataAt
<1>8. Agree(DataAt(lines), DataAt(u), n)
  BY <1>1, <1>2, <1>4 DEF Agree, DataAt
<1> QED
  BY <1>1, <1>3, <1>4, <1>6, <1>7, <1>8 DEF u

LEMMA EventsStep ==
  ASSUME NEW lines \in Seq(Line), NEW l \in Line
  PROVE  /\ DataOf(Append(lines, l)) =
              IF l = <<>> THEN <<>>
              ELSE IF l[1] = "data" THEN Append(DataOf(lines), Tail(l)) ELSE DataOf(lines)
         /\ EventsOf(Append(lines, l)) =
              IF l = <<>> /\ DataOf(lines) # <<>> THEN Append(EventsOf(lines), DataOf(lines))
              ELSE EventsOf(lines)
<1> DEFINE u == Append(lines, l)
           p == DataAt(lines)
           q == DataAt(u)
           d == Blanks(lines)
           e == Blanks(u)
<1>1. PICK n \in Nat : n = Len(lines)
  OBVIOUS
<1>2. PICK k \in Nat : k = n + 1
  OBVIOUS
<1>3. PICK next \in Nat : next = k + 1
  OBVIOUS
<1>4. /\ d \in SUBSET Nat /\ e \in SUBSET Nat
      /\ Agree(p, q, n)
      /\ \A i \in 1..n : i \in d <=> i \in e
      /\ k \in e <=> l = <<>>
      /\ k \in DOMAIN q <=> l # <<>> /\ l[1] = "data"
      /\ k \in DOMAIN q => q[k] = Tail(l)
      /\ Len(u) = k
  BY <1>1, <1>2, EventPlaces
<1>5. /\ DataOf(lines) = Between(p, d, k) /\ DataOf(u) = Between(q, e, next)
      /\ EventsOf(lines) = InOrder(EventAt(lines), n) /\ EventsOf(u) = InOrder(EventAt(u), k)
  BY <1>1, <1>2, <1>3, <1>4, EventsAre DEF DataOf
<1>6. /\ DOMAIN EventAt(lines) = {b \in d : Between(p, d, b) # <<>>}
      /\ \A b \in DOMAIN EventAt(lines) : EventAt(lines)[b] = Between(p, d, b)
      /\ DOMAIN EventAt(u) = {b \in e : Between(q, e, b) # <<>>}
      /\ \A b \in DOMAIN EventAt(u) : EventAt(u)[b] = Between(q, e, b)
  BY DEF EventAt
<1> HIDE DEF u, p, q, d, e
<1>7. Between(q, e, k) = DataOf(lines)
  <2>1. Between(p, d, k) = Between(q, e, k)
    BY <1>2, <1>4, BetweenAgree
  <2> QED
    BY <1>5, <2>1
<1>8. DataOf(u) = IF l = <<>> THEN <<>>
                  ELSE IF l[1] = "data" THEN Append(DataOf(lines), Tail(l)) ELSE DataOf(lines)
  <2>1. k \in Nat /\ k > 0 /\ e \in SUBSET Nat
    BY <1>2, <1>4
  <2>2. /\ k \in e => Between(q, e, next) = <<>>
        /\ k \notin e /\ k \in DOMAIN q => Between(q, e, next) = Append(Between(q, e, k), q[k])
        /\ k \notin e /\ k \notin DOMAIN q => Between(q, e, next) = Between(q, e, k)
    BY <1>3, <2>1, BetweenStep
  <2> QED
    BY <1>4, <1>5, <1>7, <2>2
<1>9. Agree(EventAt(lines), EventAt(u), n)
  <2>1. ASSUME NEW i \in 1..n PROVE Between(p, d, i) = Between(q, e, i)
    <3>1. PICK j \in Nat : i = j + 1 /\ j <= n
      <4>1. i - 1 \in Nat /\ i = (i - 1) + 1 /\ i - 1 <= n
        BY <2>1
      <4> QED
        BY <4>1
    <3>2. Agree(p, q, j) /\ \A h \in 1..j : h \in d <=> h \in e
      BY <1>4, <3>1 DEF Agree
    <3> QED
      BY <1>4, <3>1, <3>2, BetweenAgree
  <2>2. ASSUME NEW i \in 1..n
        PROVE  /\ i \in DOMAIN EventAt(lines) <=> i \in DOMAIN EventAt(u)
               /\ i \in DOMAIN EventAt(lines) => EventAt(lines)[i] = EventAt(u)[i]
    BY <1>4, <1>6, <2>1
  <2> QED
    BY <2>2 DEF Agree
<1>10. InOrder(EventAt(lines), n) = InOrder(EventAt(u), n)
  BY <1>9, InOrderAgree
<1>11. InOrder(EventAt(u), k) = IF k \in DOMAIN EventAt(u) THEN Append(InOrder(EventAt(u), n), EventAt(u)[k])
                                                            ELSE InOrder(EventAt(u), n)
  BY <1>2, InOrderStep
<1>12. (k \in DOMAIN EventAt(u) <=> l = <<>> /\ DataOf(lines) # <<>>) /\
       (k \in DOMAIN EventAt(u) => EventAt(u)[k] = DataOf(lines))
  BY <1>4, <1>6, <1>7
<1>13. EventsOf(u) = IF l = <<>> /\ DataOf(lines) # <<>> THEN Append(EventsOf(lines), DataOf(lines))
                                                           ELSE EventsOf(lines)
  BY <1>5, <1>10, <1>11, <1>12
<1> QED
  BY <1>8, <1>13 DEF u

LEMMA EventsFirst == DataOf(<<>>) = <<>> /\ EventsOf(<<>>) = <<>>
<1>1. Len(<<>>) = 0 /\ Len(<<>>) + 1 = 1
  OBVIOUS
<1>2. DataOf(<<>>) = <<>>
  BY <1>1, BetweenFirst DEF DataOf
<1>3. EventsOf(<<>>) = <<>>
  BY <1>1, EventsAre, InOrderEmpty
<1> QED
  BY <1>2, <1>3

LEMMA LineTail ==
  ASSUME NEW l \in Line, l # <<>>
  PROVE  Tail(l) \in Line
BY DEF Line

Event == Seq(Line)

LEMMA EventsType ==
  ASSUME NEW lines \in Seq(Line)
  PROVE  DataOf(lines) \in Event /\ EventsOf(lines) \in Seq(Event)
<1> DEFINE G == {y \in Seq(Line) : DataOf(y) \in Event /\ EventsOf(y) \in Seq(Event)}
<1>1. <<>> \in G
  <2>1. <<>> \in Event /\ <<>> \in Seq(Event) /\ <<>> \in Seq(Line)
    BY DEF Event
  <2> QED
    BY <2>1, EventsFirst
<1>2. ASSUME NEW y \in Seq(Line), NEW l \in Line, y \in G PROVE Append(y, l) \in G
  <2>1. Append(y, l) \in Seq(Line) /\ DataOf(y) \in Event /\ EventsOf(y) \in Seq(Event)
    BY <1>2
  <2>2. l # <<>> => Append(DataOf(y), Tail(l)) \in Event
    BY <2>1, LineTail DEF Event
  <2>3. <<>> \in Event /\ Append(EventsOf(y), DataOf(y)) \in Seq(Event)
    BY <2>1 DEF Event
  <2>4. DataOf(Append(y, l)) \in Event
    BY <2>1, <2>2, <2>3, EventsStep
  <2>5. EventsOf(Append(y, l)) \in Seq(Event)
    BY <2>1, <2>3, EventsStep
  <2> QED
    BY <2>1, <2>4, <2>5
<1> HIDE DEF G
<1>3. lines \in G
  BY <1>1, <1>2, SeqInduct
<1> QED
  BY <1>3 DEF G

-----------------------------------------------------------------------------
(* Sizes, and runs of ProcessLine: the recursive functions exist, and their *)
(* value depends on nothing but the lines.                                  *)

\* upTo of SizeOf.
Sums(f, lines) == f = [i \in 0..Len(lines) |-> IF i = 0 THEN 0 ELSE f[i - 1] + Len(lines[i])]

LEMMA SumsCut ==
  ASSUME NEW y \in Seq(Line), NEW l \in Line, NEW f, Sums(f, Append(y, l)), NEW n \in Nat, n = Len(y)
  PROVE  Sums([i \in 0..n |-> f[i]], y) /\ f[n + 1] = f[n] + Len(l)
<1> DEFINE u == Append(y, l)
           g == [i \in 0..n |-> f[i]]
<1>1. Len(u) = n + 1 /\ u[n + 1] = l /\ \A i \in 1..n : u[i] = y[i]
  OBVIOUS
<1> HIDE DEF u
<1>2. \A i \in 0..(n + 1) : f[i] = IF i = 0 THEN 0 ELSE f[i - 1] + Len(u[i])
  BY <1>1 DEF Sums, u
<1>3. f[n + 1] = f[n] + Len(l)
  <2>1. n + 1 \in 0..(n + 1) /\ n + 1 # 0 /\ (n + 1) - 1 = n
    OBVIOUS
  <2> QED
    BY <1>1, <1>2, <2>1
<1>4. ASSUME NEW i \in 0..n PROVE g[i] = IF i = 0 THEN 0 ELSE g[i - 1] + Len(y[i])
  <2>1. g[i] = f[i] /\ i \in 0..(n + 1) /\ (i # 0 => i - 1 \in 0..n /\ i \in 1..n)
    OBVIOUS
  <2>2. i # 0 => g[i - 1] = f[i - 1] /\ u[i] = y[i]
    BY <1>1, <2>1
  <2> HIDE DEF g
  <2>3. CASE i = 0
    BY <1>2, <2>1, <2>3
  <2>4. CASE i # 0
    BY <1>2, <2>1, <2>2, <2>4
  <2> QED
    BY <2>3, <2>4
<1>5. g = [i \in 0..n |-> IF i = 0 THEN 0 ELSE g[i - 1] + Len(y[i])]
  <2>1. g = [i \in 0..n |-> g[i]]
    OBVIOUS
  <2> HIDE DEF g
  <2> QED
    BY <1>4, <2>1
<1> HIDE DEF g
<1>6. Sums(g, y)
  BY <1>5 DEF Sums
<1> QED
  BY <1>3, <1>6 DEF g

LEMMA SumsMore ==
  ASSUME NEW y \in Seq(Line), NEW l \in Line, NEW f, Sums(f, y)
  PROVE  \E g : Sums(g, Append(y, l))
<1>1. PICK n \in Nat : n = Len(y)
  OBVIOUS
<1> DEFINE u == Append(y, l)
           g == [i \in 0..(n + 1) |-> IF i <= n THEN f[i] ELSE f[n] + Len(l)]
<1>2. Len(u) = n + 1 /\ u[n + 1] = l /\ \A i \in 1..n : u[i] = y[i]
  BY <1>1
<1> HIDE DEF u
<1>3. \A i \in 0..n : f[i] = IF i = 0 THEN 0 ELSE f[i - 1] + Len(y[i])
  BY <1>1 DEF Sums
<1>4. ASSUME NEW i \in 0..(n + 1) PROVE g[i] = IF i = 0 THEN 0 ELSE g[i - 1] + Len(u[i])
  <2>1. CASE i <= n
    <3>1. g[i] = f[i] /\ i \in 0..n /\ (i # 0 => i - 1 \in 0..n /\ i \in 1..n /\ g[i - 1] = f[i - 1])
      BY <2>1
    <3>2. i # 0 => u[i] = y[i]
      BY <1>2, <3>1
    <3> HIDE DEF g
    <3>3. CASE i = 0
      BY <1>3, <3>1, <3>3
    <3>4. CASE i # 0
      BY <1>3, <3>1, <3>2, <3>4
    <3> QED
      BY <3>3, <3>4
  <2>2. CASE i = n + 1
    <3>1. ~(i <= n) /\ i # 0 /\ i - 1 = n /\ n \in 0..(n + 1) /\ n <= n
      BY <2>2
    <3>2. g[i] = f[n] + Len(l) /\ g[n] = f[n]
      BY <3>1
    <3> HIDE DEF g
    <3> QED
      BY <1>2, <2>2, <3>1, <3>2
  <2> QED
    BY <2>1, <2>2
<1>5. g = [i \in 0..(n + 1) |-> IF i = 0 THEN 0 ELSE g[i - 1] + Len(u[i])]
  <2>1. g = [i \in 0..(n + 1) |-> g[i]]
    OBVIOUS
  <2> HIDE DEF g
  <2> QED
    BY <1>4, <2>1
<1> HIDE DEF g
<1>6. Sums(g, u)
  BY <1>2, <1>5 DEF Sums
<1> QED
  BY <1>6 DEF u

LEMMA SumsUnique ==
  ASSUME NEW lines \in Seq(Line)
  PROVE  (\E f : Sums(f, lines)) /\ \A f, g : Sums(f, lines) /\ Sums(g, lines) => f[Len(lines)] = g[Len(lines)]
<1> DEFINE Same(y) == \A f, g : Sums(f, y) /\ Sums(g, y) => f[Len(y)] = g[Len(y)]
           G == {y \in Seq(Line) : (\E f : Sums(f, y)) /\ Same(y)}
<1>1. <<>> \in G
  <2>1. Sums([i \in 0..0 |-> 0], <<>>)
    BY DEF Sums
  <2>2. \A f : Sums(f, <<>>) => f[0] = 0
    BY DEF Sums
  <2> QED
    BY <2>1, <2>2
<1>2. ASSUME NEW y \in Seq(Line), NEW l \in Line, y \in G PROVE Append(y, l) \in G
  <2>1. PICK n \in Nat : n = Len(y)
    OBVIOUS
  <2>2. Append(y, l) \in Seq(Line) /\ Len(Append(y, l)) = n + 1
    BY <2>1
  <2>3. \E f : Sums(f, Append(y, l))
    BY <1>2, SumsMore
  <2>4. ASSUME NEW f, NEW g, Sums(f, Append(y, l)), Sums(g, Append(y, l))
        PROVE  f[n + 1] = g[n + 1]
    <3>1. Sums([i \in 0..n |-> f[i]], y) /\ f[n + 1] = f[n] + Len(l)
      BY <2>1, <2>4, SumsCut
    <3>2. Sums([i \in 0..n |-> g[i]], y) /\ g[n + 1] = g[n] + Len(l)
      BY <2>1, <2>4, SumsCut
    <3>3. [i \in 0..n |-> f[i]][n] = [i \in 0..n |-> g[i]][n]
      BY <1>2, <2>1, <3>1, <3>2
    <3>4. f[n] = g[n]
      BY <3>3
    <3> QED
      BY <3>1, <3>2, <3>4
  <2> QED
    BY <2>2, <2>3, <2>4
<1> HIDE DEF G
<1>3. lines \in G
  BY <1>1, <1>2, SeqInduct
<1> QED
  BY <1>3 DEF G

LEMMA SizeSums ==
  ASSUME NEW lines \in Seq(Line)
  PROVE  \E f : Sums(f, lines) /\ SizeOf(lines) = f[Len(lines)]
<1> DEFINE it == CHOOSE f : Sums(f, lines)
<1>1. Sums(it, lines)
  BY SumsUnique
<1>2. SizeOf(lines) = it[Len(lines)]
  BY DEF SizeOf, Sums
<1> QED
  BY <1>1, <1>2

LEMMA SizeFirst == SizeOf(<<>>) = 0
<1>1. PICK f : Sums(f, <<>>) /\ SizeOf(<<>>) = f[Len(<<>>)]
  BY NoLine, SizeSums
<1>2. f[0] = 0
  BY <1>1 DEF Sums
<1> QED
  BY <1>1, <1>2

LEMMA SizeStep ==
  ASSUME NEW lines \in Seq(Line), NEW l \in Line
  PROVE  SizeOf(Append(lines, l)) = SizeOf(lines) + Len(l)
<1>1. PICK n \in Nat : n = Len(lines)
  OBVIOUS
<1>2. Append(lines, l) \in Seq(Line) /\ Len(Append(lines, l)) = n + 1
  BY <1>1
<1>3. PICK f : Sums(f, Append(lines, l)) /\ SizeOf(Append(lines, l)) = f[n + 1]
  BY <1>2, SizeSums
<1>4. PICK g : Sums(g, lines) /\ SizeOf(lines) = g[n]
  BY <1>1, SizeSums
<1>5. Sums([i \in 0..n |-> f[i]], lines) /\ f[n + 1] = f[n] + Len(l)
  BY <1>1, <1>3, SumsCut
<1>6. [i \in 0..n |-> f[i]][n] = g[n]
  BY <1>1, <1>4, <1>5, SumsUnique
<1> QED
  BY <1>3, <1>4, <1>5, <1>6

LEMMA SizeType ==
  ASSUME NEW lines \in Seq(Line)
  PROVE  SizeOf(lines) \in Nat
<1> DEFINE G == {y \in Seq(Line) : SizeOf(y) \in Nat}
<1>1. <<>> \in G
  BY NoLine, SizeFirst
<1>2. ASSUME NEW y \in Seq(Line), NEW l \in Line, y \in G PROVE Append(y, l) \in G
  <2>1. Append(y, l) \in Seq(Line) /\ SizeOf(y) \in Nat /\ Len(l) \in Nat
    BY <1>2, LineIsString
  <2> QED
    BY <2>1, SizeStep
<1> HIDE DEF G
<1>3. lines \in G
  BY <1>1, <1>2, SeqInduct
<1> QED
  BY <1>3 DEF G

\* after of ProcessLines.
Start == [data |-> dataLines, out |-> <<>>, done |-> isDone, large |-> FALSE]
Runs(f, lines) == f = [i \in 0..Len(lines) |-> IF i = 0 THEN Start ELSE ProcessLine(f[i - 1], lines[i])]

LEMMA RunsCut ==
  ASSUME NEW y \in Seq(Line), NEW l \in Line, NEW f, Runs(f, Append(y, l)), NEW n \in Nat, n = Len(y)
  PROVE  Runs([i \in 0..n |-> f[i]], y) /\ f[n + 1] = ProcessLine(f[n], l)
<1> DEFINE u == Append(y, l)
           g == [i \in 0..n |-> f[i]]
<1>1. Len(u) = n + 1 /\ u[n + 1] = l /\ \A i \in 1..n : u[i] = y[i]
  OBVIOUS
<1> HIDE DEF u
<1>2. \A i \in 0..(n + 1) : f[i] = IF i = 0 THEN Start ELSE ProcessLine(f[i - 1], u[i])
  BY <1>1 DEF Runs, u
<1>3. f[n + 1] = ProcessLine(f[n], l)
  <2>1. n + 1 \in 0..(n + 1) /\ n + 1 # 0 /\ (n + 1) - 1 = n
    OBVIOUS
  <2> QED
    BY <1>1, <1>2, <2>1
<1>4. ASSUME NEW i \in 0..n PROVE g[i] = IF i = 0 THEN Start ELSE ProcessLine(g[i - 1], y[i])
  <2>1. g[i] = f[i] /\ i \in 0..(n + 1) /\ (i # 0 => i - 1 \in 0..n /\ i \in 1..n)
    OBVIOUS
  <2>2. i # 0 => g[i - 1] = f[i - 1] /\ u[i] = y[i]
    BY <1>1, <2>1
  <2> HIDE DEF g
  <2>3. CASE i = 0
    BY <1>2, <2>1, <2>3
  <2>4. CASE i # 0
    BY <1>2, <2>1, <2>2, <2>4
  <2> QED
    BY <2>3, <2>4
<1>5. g = [i \in 0..n |-> IF i = 0 THEN Start ELSE ProcessLine(g[i - 1], y[i])]
  <2>1. g = [i \in 0..n |-> g[i]]
    OBVIOUS
  <2> HIDE DEF g
  <2> QED
    BY <1>4, <2>1
<1> HIDE DEF g
<1>6. Runs(g, y)
  BY <1>5 DEF Runs
<1> QED
  BY <1>3, <1>6 DEF g

LEMMA RunsMore ==
  ASSUME NEW y \in Seq(Line), NEW l \in Line, NEW f, Runs(f, y)
  PROVE  \E g : Runs(g, Append(y, l))
<1>1. PICK n \in Nat : n = Len(y)
  OBVIOUS
<1> DEFINE u == Append(y, l)
           g == [i \in 0..(n + 1) |-> IF i <= n THEN f[i] ELSE ProcessLine(f[n], l)]
<1>2. Len(u) = n + 1 /\ u[n + 1] = l /\ \A i \in 1..n : u[i] = y[i]
  BY <1>1
<1> HIDE DEF u
<1>3. \A i \in 0..n : f[i] = IF i = 0 THEN Start ELSE ProcessLine(f[i - 1], y[i])
  BY <1>1 DEF Runs
<1>4. ASSUME NEW i \in 0..(n + 1) PROVE g[i] = IF i = 0 THEN Start ELSE ProcessLine(g[i - 1], u[i])
  <2>1. CASE i <= n
    <3>1. g[i] = f[i] /\ i \in 0..n /\ (i # 0 => i - 1 \in 0..n /\ i \in 1..n /\ g[i - 1] = f[i - 1])
      BY <2>1
    <3>2. i # 0 => u[i] = y[i]
      BY <1>2, <3>1
    <3> HIDE DEF g
    <3>3. CASE i = 0
      BY <1>3, <3>1, <3>3
    <3>4. CASE i # 0
      BY <1>3, <3>1, <3>2, <3>4
    <3> QED
      BY <3>3, <3>4
  <2>2. CASE i = n + 1
    <3>1. ~(i <= n) /\ i # 0 /\ i - 1 = n /\ n \in 0..(n + 1) /\ n <= n
      BY <2>2
    <3>2. g[i] = ProcessLine(f[n], l) /\ g[n] = f[n]
      BY <3>1
    <3> HIDE DEF g
    <3> QED
      BY <1>2, <2>2, <3>1, <3>2
  <2> QED
    BY <2>1, <2>2
<1>5. g = [i \in 0..(n + 1) |-> IF i = 0 THEN Start ELSE ProcessLine(g[i - 1], u[i])]
  <2>1. g = [i \in 0..(n + 1) |-> g[i]]
    OBVIOUS
  <2> HIDE DEF g
  <2> QED
    BY <1>4, <2>1
<1> HIDE DEF g
<1>6. Runs(g, u)
  BY <1>2, <1>5 DEF Runs
<1> QED
  BY <1>6 DEF u

LEMMA RunsUnique ==
  ASSUME NEW lines \in Seq(Line)
  PROVE  (\E f : Runs(f, lines)) /\ \A f, g : Runs(f, lines) /\ Runs(g, lines) => f[Len(lines)] = g[Len(lines)]
<1> DEFINE Same(y) == \A f, g : Runs(f, y) /\ Runs(g, y) => f[Len(y)] = g[Len(y)]
           G == {y \in Seq(Line) : (\E f : Runs(f, y)) /\ Same(y)}
<1>1. <<>> \in G
  <2>1. Runs([i \in 0..0 |-> Start], <<>>)
    BY DEF Runs
  <2>2. \A f : Runs(f, <<>>) => f[0] = Start
    BY DEF Runs
  <2> QED
    BY <2>1, <2>2
<1>2. ASSUME NEW y \in Seq(Line), NEW l \in Line, y \in G PROVE Append(y, l) \in G
  <2>1. PICK n \in Nat : n = Len(y)
    OBVIOUS
  <2>2. Append(y, l) \in Seq(Line) /\ Len(Append(y, l)) = n + 1
    BY <2>1
  <2>3. \E f : Runs(f, Append(y, l))
    BY <1>2, RunsMore
  <2>4. ASSUME NEW f, NEW g, Runs(f, Append(y, l)), Runs(g, Append(y, l))
        PROVE  f[n + 1] = g[n + 1]
    <3>1. Runs([i \in 0..n |-> f[i]], y) /\ f[n + 1] = ProcessLine(f[n], l)
      BY <2>1, <2>4, RunsCut
    <3>2. Runs([i \in 0..n |-> g[i]], y) /\ g[n + 1] = ProcessLine(g[n], l)
      BY <2>1, <2>4, RunsCut
    <3>3. [i \in 0..n |-> f[i]][n] = [i \in 0..n |-> g[i]][n]
      BY <1>2, <2>1, <3>1, <3>2
    <3>4. f[n] = g[n]
      BY <3>3
    <3> QED
      BY <3>1, <3>2, <3>4
  <2> QED
    BY <2>2, <2>3, <2>4
<1> HIDE DEF G
<1>3. lines \in G
  BY <1>1, <1>2, SeqInduct
<1> QED
  BY <1>3 DEF G

LEMMA RunIs ==
  ASSUME NEW lines \in Seq(Line)
  PROVE  \E f : Runs(f, lines) /\ ProcessLines(lines) = f[Len(lines)]
<1> DEFINE it == CHOOSE f : Runs(f, lines)
<1>1. Runs(it, lines)
  BY RunsUnique
<1>2. ProcessLines(lines) = it[Len(lines)]
  BY DEF ProcessLines, Runs, Start
<1> QED
  BY <1>1, <1>2

LEMMA RunFirst == ProcessLines(<<>>) = Start
<1>1. PICK f : Runs(f, <<>>) /\ ProcessLines(<<>>) = f[Len(<<>>)]
  BY NoLine, RunIs
<1>2. f[0] = Start
  BY <1>1 DEF Runs
<1> QED
  BY <1>1, <1>2

LEMMA RunStep ==
  ASSUME NEW lines \in Seq(Line), NEW l \in Line
  PROVE  ProcessLines(Append(lines, l)) = ProcessLine(ProcessLines(lines), l)
<1>1. PICK n \in Nat : n = Len(lines)
  OBVIOUS
<1>2. Append(lines, l) \in Seq(Line) /\ Len(Append(lines, l)) = n + 1
  BY <1>1
<1>3. PICK f : Runs(f, Append(lines, l)) /\ ProcessLines(Append(lines, l)) = f[n + 1]
  BY <1>2, RunIs
<1>4. PICK g : Runs(g, lines) /\ ProcessLines(lines) = g[n]
  BY <1>1, RunIs
<1>5. Runs([i \in 0..n |-> f[i]], lines) /\ f[n + 1] = ProcessLine(f[n], l)
  BY <1>1, <1>3, RunsCut
<1>6. [i \in 0..n |-> f[i]][n] = g[n]
  BY <1>1, <1>4, <1>5, RunsUnique
<1>7. f[n] = g[n]
  BY <1>6
<1> QED
  BY <1>3, <1>4, <1>5, <1>7

-----------------------------------------------------------------------------
(* A run of ProcessLine follows the events of the lines, and an event that *)
(* is too big stays too big.                                               *)

BigEvent(lines) == \E k \in DOMAIN EventsOf(lines) : SizeOf(EventsOf(lines)[k]) > MaxEventSize
Big(lines) == SizeOf(DataOf(lines)) > MaxEventSize \/ BigEvent(lines)

LEMMA EventSize ==
  ASSUME NEW event \in Event
  PROVE  /\ SizeOf(event) \in Nat
         /\ \A l \in Line : /\ SizeOf(Append(event, l)) = SizeOf(event) + Len(l)
                            /\ SizeOf(event) <= SizeOf(Append(event, l))
<1>1. event \in Seq(Line) /\ \A l \in Line : Len(l) \in Nat
  BY LineIsString DEF Event
<1>2. SizeOf(event) \in Nat
  BY <1>1, SizeType
<1>3. ASSUME NEW l \in Line PROVE SizeOf(Append(event, l)) = SizeOf(event) + Len(l)
  BY <1>1, SizeStep
<1> QED
  BY <1>1, <1>2, <1>3

LEMMA BigStays ==
  ASSUME NEW lines \in Seq(Line), NEW l \in Line, Big(lines)
  PROVE  /\ Big(Append(lines, l))
         /\ l = <<>> => BigEvent(Append(lines, l))
<1> DEFINE u == Append(lines, l)
<1>1. DataOf(lines) \in Event /\ EventsOf(lines) \in Seq(Event)
  BY EventsType
<1>2. /\ DataOf(u) = IF l = <<>> THEN <<>>
                     ELSE IF l[1] = "data" THEN Append(DataOf(lines), Tail(l)) ELSE DataOf(lines)
      /\ EventsOf(u) = IF l = <<>> /\ DataOf(lines) # <<>> THEN Append(EventsOf(lines), DataOf(lines))
                                                           ELSE EventsOf(lines)
  BY EventsStep
<1> HIDE DEF u
<1>3. CASE BigEvent(lines)
  <2>1. PICK k \in DOMAIN EventsOf(lines) : SizeOf(EventsOf(lines)[k]) > MaxEventSize
    BY <1>3 DEF BigEvent
  <2>2. k \in DOMAIN EventsOf(u) /\ EventsOf(u)[k] = EventsOf(lines)[k]
    <3>1. k \in DOMAIN Append(EventsOf(lines), DataOf(lines))
            /\ Append(EventsOf(lines), DataOf(lines))[k] = EventsOf(lines)[k]
      BY <1>1
    <3> QED
      BY <1>2, <3>1
  <2> QED
    BY <2>1, <2>2 DEF BigEvent, Big, u
<1>4. CASE SizeOf(DataOf(lines)) > MaxEventSize /\ l = <<>>
  <2>1. DataOf(lines) # <<>>
    <3>1. ~(0 > MaxEventSize)
      BY SSEAssumption
    <3> QED
      BY <1>4, <3>1, SizeFirst
  <2>2. EventsOf(u) = Append(EventsOf(lines), DataOf(lines))
    BY <1>2, <1>4, <2>1
  <2>3. PICK k : k = Len(EventsOf(lines)) + 1
    OBVIOUS
  <2>4. k \in DOMAIN EventsOf(u) /\ EventsOf(u)[k] = DataOf(lines)
    BY <1>1, <2>2, <2>3
  <2> QED
    BY <1>4, <2>4 DEF BigEvent, Big, u
<1>5. CASE SizeOf(DataOf(lines)) > MaxEventSize /\ l # <<>>
  <2>1. Tail(l) \in Line
    BY <1>5, LineTail
  <2>2. SizeOf(DataOf(lines)) <= SizeOf(Append(DataOf(lines), Tail(l)))
          /\ SizeOf(DataOf(lines)) \in Nat /\ SizeOf(Append(DataOf(lines), Tail(l))) \in Nat
    <3>1. Append(DataOf(lines), Tail(l)) \in Event
      BY <1>1, <2>1 DEF Event
    <3> QED
      BY <1>1, <2>1, <3>1, EventSize
  <2>3. MaxEventSize \in Nat
    BY SSEAssumption
  <2>4. SizeOf(DataOf(u)) > MaxEventSize
    BY <1>2, <1>5, <2>2, <2>3
  <2> QED
    BY <1>5, <2>4 DEF Big, u
<1> QED
  BY <1>3, <1>4, <1>5 DEF Big

LEMMA BigJoin ==
  ASSUME NEW lines \in Seq(Line), NEW more \in Seq(Line), Big(lines)
  PROVE  Big(lines \o more)
<1> DEFINE G == {y \in Seq(Line) : Big(lines \o y)}
<1>1. <<>> \in G
  <2>1. lines \o <<>> = lines
    BY JoinEmpty
  <2> QED
    BY <2>1, NoLine
<1>2. ASSUME NEW y \in Seq(Line), NEW l \in Line, y \in G PROVE Append(y, l) \in G
  <2>1. lines \o Append(y, l) = Append(lines \o y, l) /\ lines \o y \in Seq(Line) /\ Append(y, l) \in Seq(Line)
    BY LineJoin
  <2>2. Big(Append(lines \o y, l))
    BY <1>2, <2>1, BigStays
  <2> QED
    BY <2>1, <2>2
<1> HIDE DEF G
<1>3. more \in G
  BY <1>1, <1>2, SeqInduct
<1> QED
  BY <1>3 DEF G

Done == << <<"done">> >>
Run == [data : Event, out : Seq(Event), done : BOOLEAN, large : BOOLEAN]

\* What a run behind the lines `before` has done when it has seen `all` of them.
Follows(acc, before, all) ==
  /\ acc.large => Big(all)
  /\ ~acc.large => /\ acc.data = DataOf(all)
                   /\ EventsOf(before) \o acc.out = EventsOf(all)
                   /\ acc.done <=> Contains(EventsOf(all), Done)

LEMMA ContainsStep ==
  ASSUME NEW S, NEW s \in Seq(S), NEW e \in S, NEW x
  PROVE  Contains(Append(s, e), x) <=> Contains(s, x) \/ e = x
<1>1. PICK n \in Nat : n = Len(s)
  OBVIOUS
<1>2. Len(Append(s, e)) = n + 1 /\ Append(s, e)[n + 1] = e /\ \A i \in 1..n : Append(s, e)[i] = s[i]
  BY <1>1
<1>3. \A i \in 1..(n + 1) : i \in 1..n \/ i = n + 1
  OBVIOUS
<1>4. 1..n \in SUBSET 1..(n + 1) /\ n + 1 \in 1..(n + 1)
  OBVIOUS
<1> QED
  BY <1>1, <1>2, <1>3, <1>4 DEF Contains

LEMMA FollowsStep ==
  ASSUME NEW acc \in Run, NEW before \in Seq(Line), NEW all \in Seq(Line), NEW l \in Line,
         Follows(acc, before, all)
  PROVE  ProcessLine(acc, l) \in Run /\ Follows(ProcessLine(acc, l), before, Append(all, l))
<1> DEFINE u == Append(all, l)
           next == ProcessLine(acc, l)
<1>1. /\ DataOf(u) = IF l = <<>> THEN <<>>
                     ELSE IF l[1] = "data" THEN Append(DataOf(all), Tail(l)) ELSE DataOf(all)
      /\ EventsOf(u) = IF l = <<>> /\ DataOf(all) # <<>> THEN Append(EventsOf(all), DataOf(all))
                                                         ELSE EventsOf(all)
  BY EventsStep
<1>2. /\ acc.data \in Event /\ acc.out \in Seq(Event) /\ acc.done \in BOOLEAN /\ acc.large \in BOOLEAN
      /\ EventsOf(before) \in Seq(Event) /\ EventsOf(all) \in Seq(Event) /\ DataOf(all) \in Event
  BY EventsType DEF Run
<1> HIDE DEF u
<1>3. CASE acc.large
  <2>1. next = acc
    BY <1>3 DEF ProcessLine
  <2>2. Big(u)
    BY <1>3, BigStays DEF Follows, u
  <2> QED
    BY <1>3, <2>1, <2>2 DEF Follows, u
<1>4. CASE ~acc.large /\ l = <<>> /\ acc.data = <<>>
  <2>1. next = acc
    BY <1>4 DEF ProcessLine, Dispatch
  <2>2. DataOf(u) = <<>> /\ EventsOf(u) = EventsOf(all)
    BY <1>1, <1>4 DEF Follows
  <2> QED
    BY <1>4, <2>1, <2>2 DEF Follows, u
<1>5. CASE ~acc.large /\ l = <<>> /\ acc.data # <<>>
  <2>1. next = [acc EXCEPT !.out = Append(acc.out, acc.data), !.data = <<>>,
                           !.done = acc.done \/ acc.data = Done]
    BY <1>5 DEF ProcessLine, Dispatch, Done
  <2>2. <<>> \in Event /\ Append(acc.out, acc.data) \in Seq(Event) /\ (acc.done \/ acc.data = Done) \in BOOLEAN
    BY <1>2 DEF Event
  <2>3. /\ next.data = <<>> /\ next.out = Append(acc.out, acc.data) /\ next.large = FALSE
        /\ next.done <=> acc.done \/ acc.data = Done
    BY <1>2, <1>5, <2>1 DEF Run
  <2>4. next \in Run
    BY <1>2, <2>1, <2>2 DEF Run
  <2>5. DataOf(u) = <<>> /\ EventsOf(u) = Append(EventsOf(all), acc.data)
    BY <1>1, <1>5 DEF Follows
  <2>6. EventsOf(before) \o Append(acc.out, acc.data) = Append(EventsOf(before) \o acc.out, acc.data)
    <3>1. PICK e \in Seq(Event), o \in Seq(Event), d \in Event :
             e = EventsOf(before) /\ o = acc.out /\ d = acc.data
      BY <1>2
    <3>2. e \o Append(o, d) = Append(e \o o, d)
      BY JoinAppend
    <3> QED
      BY <3>1, <3>2
  <2>7. EventsOf(before) \o next.out = EventsOf(u)
    BY <1>5, <2>3, <2>5, <2>6 DEF Follows
  <2>8. Contains(EventsOf(u), Done) <=> Contains(EventsOf(all), Done) \/ acc.data = Done
    BY <1>2, <2>5, ContainsStep
  <2>9. next.done <=> Contains(EventsOf(u), Done)
    BY <1>5, <2>3, <2>8 DEF Follows
  <2> HIDE DEF next
  <2>10. Follows(next, before, u)
    BY <2>3, <2>5, <2>7, <2>9 DEF Follows
  <2> QED
    BY <2>4, <2>10 DEF u, next
<1>6. CASE ~acc.large /\ l # <<>> /\ l[1] # "data"
  <2>1. next = acc
    BY <1>6 DEF ProcessLine
  <2>2. DataOf(u) = DataOf(all) /\ EventsOf(u) = EventsOf(all)
    BY <1>1, <1>6
  <2> QED
    BY <1>6, <2>1, <2>2 DEF Follows, u
<1>7. CASE ~acc.large /\ l # <<>> /\ l[1] = "data"
  <2> DEFINE more == Append(acc.data, Tail(l))
  <2>1. next = [acc EXCEPT !.data = more, !.large = SizeOf(more) > MaxEventSize]
    BY <1>7 DEF ProcessLine
  <2>2. more \in Event
    BY <1>2, <1>7, LineTail DEF Event
  <2>3. DataOf(u) = more /\ EventsOf(u) = EventsOf(all)
    BY <1>1, <1>7 DEF Follows
  <2> HIDE DEF more
  <2>4. (SizeOf(more) > MaxEventSize) \in BOOLEAN
    OBVIOUS
  <2>5. /\ next.data = more /\ next.out = acc.out /\ next.done = acc.done
        /\ next.large = (SizeOf(more) > MaxEventSize)
    BY <1>2, <2>1 DEF Run
  <2>6. next \in Run
    BY <1>2, <2>1, <2>2, <2>4 DEF Run
  <2> HIDE DEF next
  <2>7. next.large => Big(u)
    BY <2>3, <2>5 DEF Big
  <2>8. Follows(next, before, u)
    BY <1>7, <2>3, <2>5, <2>7 DEF Follows
  <2> QED
    BY <2>6, <2>8 DEF u, next
<1> QED
  BY <1>2, <1>3, <1>4, <1>5, <1>6, <1>7

LEMMA RunFollows ==
  ASSUME NEW before \in Seq(Line), dataLines = DataOf(before), isDone \in BOOLEAN,
         isDone <=> Contains(EventsOf(before), Done), NEW lines \in Seq(Line)
  PROVE  ProcessLines(lines) \in Run /\ Follows(ProcessLines(lines), before, before \o lines)
<1> DEFINE G == {y \in Seq(Line) : ProcessLines(y) \in Run /\ Follows(ProcessLines(y), before, before \o y)}
<1>1. <<>> \in G
  <2>1. DataOf(before) \in Event /\ EventsOf(before) \in Seq(Event)
    BY EventsType
  <2>2. before \o <<>> = before /\ EventsOf(before) \o <<>> = EventsOf(before)
    BY <2>1, JoinEmpty
  <2>3. Start \in Run
    BY <2>1 DEF Start, Run
  <2>4. Follows(Start, before, before)
    BY <2>2 DEF Start, Follows
  <2> QED
    BY <2>2, <2>3, <2>4, NoLine, RunFirst
<1>2. ASSUME NEW y \in Seq(Line), NEW l \in Line, y \in G PROVE Append(y, l) \in G
  <2>1. /\ before \o Append(y, l) = Append(before \o y, l)
        /\ before \o y \in Seq(Line) /\ Append(y, l) \in Seq(Line)
    BY LineJoin
  <2>2. ProcessLines(y) \in Run /\ Follows(ProcessLines(y), before, before \o y)
    BY <1>2
  <2>3. ProcessLines(Append(y, l)) = ProcessLine(ProcessLines(y), l)
    BY RunStep
  <2>4. PICK acc \in Run : acc = ProcessLines(y)
    BY <2>2
  <2>5. PICK all \in Seq(Line) : all = before \o y
    BY <2>1
  <2>6. ProcessLine(acc, l) \in Run /\ Follows(ProcessLine(acc, l), before, Append(all, l))
    BY <2>2, <2>4, <2>5, FollowsStep
  <2> QED
    BY <2>1, <2>3, <2>4, <2>5, <2>6
<1> HIDE DEF G
<1>3. lines \in G
  BY <1>1, <1>2, SeqInduct
<1> QED
  BY <1>3 DEF G

-----------------------------------------------------------------------------
(* One call of feed.                                                       *)

Pending == {<<>>, <<"CR">>}

LEMMA PendingType ==
  ASSUME NEW w \in Pending
  PROVE  w \in Seq(Chars) /\ Len(w) <= 1 /\ Len(w) \in Nat
<1>1. "CR" \in Chars
  BY DEF Chars, Tokens
<1>2. <<"CR">> \in Seq(Chars) /\ Len(<<"CR">>) = 1
  BY <1>1
<1>3. <<>> \in Seq(Chars) /\ Len(<<>>) = 0
  OBVIOUS
<1>4. CASE w = <<>>
  BY <1>3, <1>4
<1>5. CASE w = <<"CR">>
  BY <1>2, <1>5
<1> QED
  BY <1>4, <1>5 DEF Pending

\* Characters are decoded bytes and the half that waits, and no more than the bytes fed.
LEMMA Decoding ==
  ASSUME NEW half \in {<<>>, <<"head">>}, NEW sub \in Seq(Tokens), NEW bytes, bytes = half \o sub
  PROVE  /\ Decoded(bytes) \in Seq(Chars) /\ Undecoded(bytes) \in {<<>>, <<"head">>}
         /\ Decoded(bytes) \o Undecoded(bytes) = half \o Text(sub)
         /\ ValidBytes(bytes) /\ sub # <<>> => Len(Decoded(bytes)) <= Len(sub)
<1>1. "head" \in Tokens /\ "tail" \in Tokens /\ "head" \in Chars
  BY DEF Tokens, Chars
<1>2. half \in Seq(Tokens) /\ bytes \in Seq(Tokens) /\ half \in Seq(Chars)
  <2>1. <<"head">> \in Seq(Tokens) /\ <<"head">> \in Seq(Chars)
    BY <1>1
  <2>2. <<>> \in Seq(Tokens) /\ <<>> \in Seq(Chars)
    OBVIOUS
  <2>3. half \in Seq(Tokens) /\ half \in Seq(Chars)
    BY <2>1, <2>2
  <2> QED
    BY <2>3
<1>3. Text(half) = half
  <2>1. <<"head">> = Append(<<>>, "head") /\ <<>> \in Seq(Tokens)
    OBVIOUS
  <2>2. Text(Append(<<>>, "head")) = Append(Text(<<>>), "head")
    BY <1>1, <2>1, TextStep
  <2>3. Text(<<"head">>) = <<"head">>
    BY <2>1, <2>2, TextFirst
  <2> QED
    BY <2>3, TextFirst
<1>4. Text(bytes) = half \o Text(sub)
  BY <1>2, <1>3, TextJoin
<1>5. Decoded(bytes) \in Seq(Chars) /\ Undecoded(bytes) \in {<<>>, <<"head">>}
        /\ Decoded(bytes) \o Undecoded(bytes) = Text(bytes)
  <2>1. CASE Undecoded(bytes) = <<>>
    <3>1. SubSeq(bytes, 1, Len(bytes) - Len(Undecoded(bytes))) = bytes
      BY <1>2, <2>1
    <3>2. Decoded(bytes) = Text(bytes)
      BY <3>1 DEF Decoded
    <3>3. Text(bytes) \in Seq(Chars)
      BY <1>2, TextType
    <3> QED
      BY <2>1, <3>2, <3>3, JoinEmpty
  <2>2. CASE Undecoded(bytes) # <<>>
    <3>1. bytes # <<>> /\ bytes[Len(bytes)] = "head" /\ Undecoded(bytes) = <<"head">>
      BY <2>2 DEF Undecoded, Last
    <3>2. PICK k \in Nat : Len(bytes) = k + 1
      <4>1. Len(bytes) \in Nat /\ Len(bytes) # 0
        BY <1>2, <3>1
      <4>2. Len(bytes) - 1 \in Nat /\ Len(bytes) = (Len(bytes) - 1) + 1
        BY <4>1
      <4> QED
        BY <4>2
    <3>3. PICK front \in Seq(Tokens) : front = SubSeq(bytes, 1, k)
      <4>1. \A i \in 1..k : i \in 1..Len(bytes)
        BY <3>2
      <4>2. SubSeq(bytes, 1, k) \in Seq(Tokens)
        BY <1>2, <3>2, <4>1
      <4> QED
        BY <4>2
    <3>4. bytes = Append(front, "head")
      BY <1>2, <3>1, <3>2, <3>3
    <3>5. Decoded(bytes) = Text(front)
      <4>1. Len(bytes) - Len(Undecoded(bytes)) = k
        BY <3>1, <3>2
      <4> QED
        BY <3>3, <4>1 DEF Decoded
    <3>6. Text(front) \in Seq(Chars) /\ Text(bytes) = Append(Text(front), "head")
      BY <1>1, <3>4, TextType, TextStep
    <3>7. Text(front) \o <<"head">> = Append(Text(front), "head")
      BY <3>6
    <3> QED
      BY <3>1, <3>5, <3>6, <3>7
  <2> QED
    BY <2>1, <2>2
<1>6. ASSUME ValidBytes(bytes), sub # <<>> PROVE Len(Decoded(bytes)) <= Len(sub)
  <2>1. Text(sub) \in Seq(Chars) /\ Len(Text(sub)) <= Len(sub) /\ Len(sub) \in Nat /\ Len(Text(sub)) \in Nat
    BY TextType, TextLength
  <2>2. Len(Decoded(bytes)) \in Nat /\ Len(Decoded(bytes)) <= Len(half \o Text(sub))
    <3>1. Len(Decoded(bytes) \o Undecoded(bytes)) = Len(Decoded(bytes)) + Len(Undecoded(bytes))
      BY <1>5
    <3>2. Len(Undecoded(bytes)) \in Nat /\ Len(Decoded(bytes)) \in Nat
      BY <1>5
    <3> QED
      BY <1>4, <1>5, <3>1, <3>2
  <2>3. CASE half = <<>>
    BY <2>1, <2>2, <2>3
  <2>4. CASE half = <<"head">>
    <3>1. Len(bytes) = Len(sub) + 1 /\ bytes[1] = "head" /\ bytes[2] = sub[1] /\ Len(sub) # 0
      BY <1>6, <2>1, <2>4
    <3>2. sub[1] = "tail"
      <4>1. 1 \in DOMAIN bytes /\ 1 < Len(bytes) /\ 1 + 1 = 2
        BY <1>2, <2>1, <3>1
      <4> QED
        BY <1>6, <3>1, <4>1 DEF ValidBytes
    <3>3. PICK rest \in Seq(Tokens) : rest = Tail(sub)
      <4>1. Tail(sub) \in Seq(Tokens)
        BY <1>6
      <4> QED
        BY <4>1
    <3>4. sub = <<"tail">> \o rest /\ Len(rest) = Len(sub) - 1
      BY <1>6, <2>1, <3>2, <3>3
    <3>5. Text(<<"tail">>) = <<>>
      <4>1. <<"tail">> = Append(<<>>, "tail") /\ <<>> \in Seq(Tokens)
        OBVIOUS
      <4> QED
        BY <1>1, <4>1, TextStep, TextFirst
    <3>6. Text(sub) = Text(rest)
      <4>1. <<"tail">> \in Seq(Tokens) /\ Text(rest) \in Seq(Chars)
        BY <1>1, TextType
      <4>2. Text(sub) = <<>> \o Text(rest)
        BY <3>4, <3>5, <4>1, TextJoin
      <4> QED
        BY <4>1, <4>2, JoinEmpty
    <3>7. Len(Text(sub)) <= Len(sub) - 1
      BY <3>4, <3>6, TextLength
    <3>8. Len(half \o Text(sub)) = Len(Text(sub)) + 1
      BY <2>1, <2>4
    <3> QED
      BY <2>1, <2>2, <3>7, <3>8
  <2> QED
    BY <2>3, <2>4
<1> QED
  BY <1>4, <1>5, <1>6

\* What is read is `certain`, whose lines are `lines` and then `b`; w is the carriage
\* return that waits.
Place(certain, w, lines, b) ==
  /\ LinesOf(certain) = Append(lines, b)
  /\ w = <<>> => ~EndsInReturn(certain)

LEMMA NoSplit ==
  ASSUME NEW certain \in Seq(Chars), NEW w \in Pending, NEW lines \in Seq(Line), NEW b \in Line,
         Place(certain, w, lines, b), NEW x \in Seq(Chars)
  PROVE  /\ ~Splits(certain, w \o x) /\ w \o x \in Seq(Chars)
         /\ w # <<>> => w \o x # <<>> /\ (w \o x)[1] = "CR"
<1>1. "CR" \in Chars
  BY DEF Chars, Tokens
<1>2. CASE w = <<>>
  BY <1>2, JoinEmpty DEF Splits, Place
<1>3. CASE w = <<"CR">>
  <2>1. (w \o x)[1] = "CR" /\ w \o x \in Seq(Chars) /\ w \o x # <<>>
    BY <1>1, <1>3
  <2> QED
    BY <2>1 DEF Splits
<1> QED
  BY <1>2, <1>3 DEF Pending

\* A line that is longer than the limit allows.
LongLine(lines) == \E k \in DOMAIN lines : Len(lines[k]) + 1 + MaxChunk > MaxEventSize

LEMMA LongStays ==
  ASSUME NEW certain \in Seq(Chars), NEW w \in Pending, NEW lines \in Seq(Line), NEW b \in Line,
         Place(certain, w, lines, b), NEW new \in Seq(Chars), NEW und \in Seq(Chars),
         Len(new) <= MaxChunk, TooLong((b \o w) \o new)
  PROVE  LongLine(LinesOf((certain \o w) \o (new \o und)))
<1>1. w \in Seq(Chars) /\ Len(w) <= 1 /\ Len(w) \in Nat
  BY PendingType
<1>2. b \in Seq(Chars) /\ Len(b) \in Nat /\ Len(new) \in Nat
  BY LineIsString
<1>0. PICK x \in Seq(Chars) : x = new \o und
  <2>1. new \o und \in Seq(Chars)
    OBVIOUS
  <2> QED
    BY <2>1
<1>3. PICK y \in Seq(Chars) : y = w \o x
  <2>1. w \o x \in Seq(Chars)
    BY <1>1
  <2> QED
    BY <2>1
<1>4. (certain \o w) \o (new \o und) = certain \o y
  <2>1. (certain \o w) \o x = certain \o (w \o x)
    <3>1. Regroups(certain, w, x)
      BY <1>1, CharsJoin
    <3> QED
      BY <3>1 DEF Regroups
  <2> QED
    BY <1>0, <1>3, <2>1
<1>5. ~Splits(certain, y)
  BY <1>3, NoSplit
<1>6. LinesOf(certain \o y) = lines \o LinesOf(b \o y)
  <2>1. LinesOf(certain) = Append(lines, b)
    BY DEF Place
  <2>2. JoinsLater(certain, lines, b, y)
    BY <1>5, <2>1, LinesJoin
  <2> QED
    BY <2>2 DEF JoinsLater
<1>7. PICK ended \in Seq(Line), open \in Line : LinesOf(b \o y) = Append(ended, open)
  <2>1. b \o y \in Seq(Chars)
    BY <1>2
  <2> QED
    BY <2>1, LinesParts
<1>8. PICK tail \in Seq(Line) : tail = LinesOf(b \o y)
  <2>1. Append(ended, open) \in Seq(Line)
    OBVIOUS
  <2> QED
    BY <1>7, <2>1
<1>9. tail # <<>> /\ Len(b) <= Len(tail[1]) /\ Len(tail[1]) \in Nat
  <2>1. tail # <<>> /\ Len(b) <= Len(tail[1])
    BY <1>8, FirstGrows
  <2>2. tail[1] \in Line
    BY <2>1
  <2> QED
    BY <2>1, <2>2, LineIsString
<1>10. PICK k \in Nat : k = Len(lines) + 1
  OBVIOUS
<1>11. k \in DOMAIN (lines \o tail) /\ (lines \o tail)[k] = tail[1]
  BY <1>9, <1>10
<1>12. Len(b) + Len(w) + Len(new) > MaxEventSize
  <2>1. Len((b \o w) \o new) = Len(b) + Len(w) + Len(new)
    BY <1>1, <1>2
  <2> QED
    BY <2>1 DEF TooLong
<1>13. Len(tail[1]) + 1 + MaxChunk > MaxEventSize
  BY <1>1, <1>2, <1>9, <1>12, SSEAssumption
<1> QED
  BY <1>4, <1>6, <1>8, <1>11, <1>13 DEF LongLine

LEMMA ReturnIsLast ==
  ASSUME NEW x \in Seq(Chars)
  PROVE  /\ PendingReturn(x) = IF EndsInReturn(x) THEN <<"CR">> ELSE <<>>
         /\ EndsInReturn(x) => \E z \in Seq(Chars) : x = z \o <<"CR">>
<1>1. PendingReturn(x) = IF EndsInReturn(x) THEN <<"CR">> ELSE <<>>
  BY DEF PendingReturn, EndsInReturn, Last
<1>2. ASSUME EndsInReturn(x) PROVE \E z \in Seq(Chars) : x = z \o <<"CR">>
  <2>1. PICK k \in Nat : Len(x) = k + 1
    <3>1. Len(x) \in Nat /\ Len(x) # 0
      BY <1>2 DEF EndsInReturn
    <3>2. Len(x) - 1 \in Nat /\ Len(x) = (Len(x) - 1) + 1
      BY <3>1
    <3> QED
      BY <3>2
  <2>2. PICK z \in Seq(Chars) : z = SubSeq(x, 1, k)
    <3>1. \A i \in 1..k : i \in 1..Len(x)
      BY <2>1
    <3>2. SubSeq(x, 1, k) \in Seq(Chars)
      BY <2>1, <3>1
    <3> QED
      BY <3>2
  <2>3. x[k + 1] = "CR"
    BY <1>2, <2>1 DEF EndsInReturn
  <2>4. x = z \o <<"CR">>
    BY <2>1, <2>2, <2>3
  <2> QED
    BY <2>4
<1> QED
  BY <1>1, <1>2

LEMMA CutPending ==
  ASSUME NEW s \in Seq(Chars), NEW w \in Pending
  PROVE  SubSeq(s \o w, 1, Len(s \o w) - Len(w)) = s
<1>1. w \in Seq(Chars) /\ Len(w) \in Nat
  BY PendingType
<1>2. Len(s \o w) - Len(w) = Len(s)
  BY <1>1
<1>3. SubSeq(s \o w, 1, Len(s)) = s
  BY <1>1
<1> QED
  BY <1>2, <1>3

\* The place a chunk's characters leave the parser at: the lines it ends
\* follow those known, and what is kept is the last line with its return.
Moves(certain, w, lines, b, new) ==
  \E z \in Seq(Chars), w2 \in Pending, more \in Seq(Line), open \in Line :
    /\ (certain \o w) \o new = (certain \o z) \o w2
    /\ Place(certain \o z, w2, lines \o more, open)
    /\ Complete((b \o w) \o new) = more /\ Rest((b \o w) \o new) = open \o w2

\* The lines that a call completes, and what it leaves in the buffer.
LEMMA FeedLines ==
  ASSUME NEW certain \in Seq(Chars), NEW w \in Pending, NEW lines \in Seq(Line), NEW b \in Line,
         Place(certain, w, lines, b), NEW new \in Seq(Chars)
  PROVE  Moves(certain, w, lines, b, new)
<1>1. w \in Seq(Chars) /\ b \in Seq(Chars) /\ ~EndsInReturn(b)
  BY PendingType, LineIsString
<1>2. PICK x \in Seq(Chars) : x = w \o new
  BY NoSplit
<1>3. (certain \o w) \o new = certain \o x /\ (b \o w) \o new = b \o x
  <2>1. (certain \o w) \o new = certain \o (w \o new)
    <3>1. Regroups(certain, w, new)
      BY <1>1, CharsJoin
    <3> QED
      BY <3>1 DEF Regroups
  <2>2. (b \o w) \o new = b \o (w \o new)
    <3>1. Regroups(b, w, new)
      BY <1>1, CharsJoin
    <3> QED
      BY <3>1 DEF Regroups
  <2> QED
    BY <1>2, <2>1, <2>2
<1>4. w # <<>> => x # <<>> /\ x[1] = "CR"
  BY <1>2, NoSplit
<1>5. PICK z \in Seq(Chars), w2 \in Pending :
         /\ x = z \o w2 /\ (w2 = <<>> <=> ~EndsInReturn(x))
         /\ z # <<>> => x # <<>> /\ z[1] = x[1]
  <2>1. CASE EndsInReturn(x)
    <3>1. PICK z \in Seq(Chars) : x = z \o <<"CR">>
      BY <2>1, ReturnIsLast
    <3>2. z # <<>> => x # <<>> /\ z[1] = x[1]
      <4>1. ASSUME z # <<>> PROVE 1 \in 1..Len(z)
        BY <4>1
      <4>2. ASSUME z # <<>> PROVE x # <<>> /\ z[1] = x[1]
        BY <3>1, <4>1, <4>2
      <4> QED
        BY <4>2
    <3>3. <<"CR">> \in Pending /\ <<"CR">> # <<>>
      BY DEF Pending
    <3> QED
      BY <2>1, <3>1, <3>2, <3>3
  <2>2. CASE ~EndsInReturn(x)
    <3>1. <<>> \in Pending /\ x = x \o <<>>
      BY JoinEmpty DEF Pending
    <3> QED
      BY <2>2, <3>1
  <2> QED
    BY <2>1, <2>2
<1>6. ~Splits(certain, z)
  <2>1. CASE w = <<>>
    BY <2>1 DEF Place, Splits
  <2>2. CASE w # <<>>
    BY <1>4, <1>5, <2>2 DEF Splits
  <2> QED
    BY <2>1, <2>2
<1>7. LinesOf(certain \o z) = lines \o LinesOf(b \o z)
  BY <1>6, LinesJoin DEF Place, JoinsLater
<1>8. b \o z \in Seq(Chars) /\ certain \o z \in Seq(Chars)
  BY <1>1
<1>9. PICK more \in Seq(Line), open \in Line : LinesOf(b \o z) = Append(more, open)
  BY <1>8, LinesParts
<1>10. LinesOf(certain \o z) = Append(lines \o more, open)
  <2>1. lines \o Append(more, open) = Append(lines \o more, open)
    BY LineJoin
  <2> QED
    BY <1>7, <1>9, <2>1
<1>11. w2 = <<>> => ~EndsInReturn(certain \o z)
  <2>1. SUFFICES ASSUME w2 = <<>> PROVE ~EndsInReturn(certain \o z)
    OBVIOUS
  <2>2. x = z /\ ~EndsInReturn(x)
    BY <1>5, <2>1, JoinEmpty
  <2>3. CASE x = <<>>
    <3>1. ~EndsInReturn(certain)
      BY <1>4, <2>3 DEF Place
    <3> QED
      BY <2>2, <2>3, <3>1, ReturnJoin
  <2>4. CASE x # <<>>
    BY <2>2, <2>4, ReturnJoin
  <2> QED
    BY <2>3, <2>4
<1>12. (certain \o w) \o new = (certain \o z) \o w2 /\ (b \o w) \o new = (b \o z) \o w2
  <2>1. w2 \in Seq(Chars)
    BY PendingType
  <2>2. (certain \o z) \o w2 = certain \o (z \o w2)
    <3>1. Regroups(certain, z, w2)
      BY <2>1, CharsJoin
    <3> QED
      BY <3>1 DEF Regroups
  <2>3. (b \o z) \o w2 = b \o (z \o w2)
    <3>1. PICK s \in Seq(Chars) : s = b
      BY <1>1
    <3>2. (s \o z) \o w2 = s \o (z \o w2)
      <4>1. Regroups(s, z, w2)
        BY <2>1, CharsJoin
      <4> QED
        BY <4>1 DEF Regroups
    <3> QED
      BY <3>1, <3>2
  <2> QED
    BY <1>3, <1>5, <2>2, <2>3
<1>13. PICK text \in Seq(Chars) : text = b \o x
  <2>1. b \o x \in Seq(Chars)
    BY <1>1
  <2> QED
    BY <2>1
<1>14. PendingReturn(text) = w2
  <2>1. EndsInReturn(text) <=> EndsInReturn(x)
    <3>1. x = <<>> => ~EndsInReturn(x)
      BY DEF EndsInReturn
    <3> QED
      BY <1>1, <1>13, <3>1, ReturnJoin
  <2>2. w2 = IF EndsInReturn(x) THEN <<"CR">> ELSE <<>>
    BY <1>5 DEF Pending
  <2> QED
    BY <2>1, <2>2, ReturnIsLast
<1>15. SplitAt(text) = Append(more, open)
  <2>1. text = (b \o z) \o w2
    BY <1>3, <1>12, <1>13
  <2>2. SubSeq(text, 1, Len(text) - Len(w2)) = b \o z
    BY <1>8, <2>1, CutPending
  <2>3. Parts(Normalized(b \o z)) = Append(more, open)
    BY <1>8, <1>9, SplitIsLines
  <2> QED
    BY <1>14, <2>2, <2>3 DEF SplitAt
<1>16. Complete(text) = more /\ Rest(text) = open \o w2
  <2>1. Front(Append(more, open)) = more /\ Last(Append(more, open)) = open
    BY AppendFront
  <2> QED
    BY <1>14, <1>15, <2>1 DEF Complete, Rest
<1>17. Place(certain \o z, w2, lines \o more, open)
  BY <1>10, <1>11 DEF Place
<1>18. (certain \o w) \o new = (certain \o z) \o w2
  BY <1>12
<1>19. Complete((b \o w) \o new) = more /\ Rest((b \o w) \o new) = open \o w2
  BY <1>3, <1>13, <1>16
<1> QED
  BY <1>17, <1>18, <1>19 DEF Moves

\* An event that is too big is one of the whole stream.
LEMMA BigInText ==
  ASSUME NEW c \in Seq(Chars), NEW all \in Seq(Line), NEW open \in Line, LinesOf(c) = Append(all, open),
         Big(all), NEW z \in Seq(Chars)
  PROVE  BigEvent(Append(LinesOf(c \o z), <<>>))
<1>1. PICK more \in Seq(Line), last \in Line : LinesOf(c \o z) = Append(all \o more, last)
  BY LinesGrow
<1>2. PICK lines \in Seq(Line) : lines = all \o more
  BY LineJoin
<1>3. Big(lines)
  BY <1>2, BigJoin
<1>4. Big(Append(lines, last)) /\ Append(lines, last) \in Seq(Line)
  BY <1>3, BigStays
<1>5. PICK whole \in Seq(Line) : whole = LinesOf(c \o z) /\ Big(whole)
  BY <1>1, <1>2, <1>4
<1>6. BigEvent(Append(whole, <<>>))
  BY <1>5, NoLine, BigStays
<1> QED
  BY <1>5, <1>6

\* What close makes of the buffer.
Remaining(text) == IF text = <<>> THEN <<>> ELSE Parts(Normalized(text))

LEMMA CloseLines ==
  ASSUME NEW certain \in Seq(Chars), NEW w \in Pending, NEW lines \in Seq(Line), NEW b \in Line,
         Place(certain, w, lines, b)
  PROVE  /\ Remaining(b \o w) \in Seq(Line)
         /\ EventsOf(Append(LinesOf(certain \o w), <<>>)) = EventsOf(Append(lines \o Remaining(b \o w), <<>>))
<1>1. w \in Seq(Chars) /\ b \in Seq(Chars) /\ b \o w \in Seq(Chars)
  <2>1. w \in Seq(Chars) /\ b \in Seq(Chars)
    BY PendingType, LineIsString
  <2> QED
    BY <2>1
<1>2. CASE b \o w = <<>>
  <2>1. b = <<>> /\ w = <<>>
    <3>1. Len(b \o w) = Len(b) + Len(w) /\ Len(b) \in Nat /\ Len(w) \in Nat /\ Len(b \o w) = 0
      BY <1>1, <1>2
    <3>2. Len(b) = 0 /\ Len(w) = 0
      BY <3>1
    <3> QED
      BY <1>1, <3>2
  <2>2. LinesOf(certain \o w) = Append(lines, <<>>)
    BY <2>1, JoinEmpty DEF Place
  <2>3. PICK all \in Seq(Line) : all = Append(lines, <<>>)
    <3>1. Append(lines, <<>>) \in Seq(Line)
      BY NoLine
    <3> QED
      BY <3>1
  <2>4. DataOf(all) = <<>>
    BY <2>3, NoLine, EventsStep
  <2>5. EventsOf(Append(all, <<>>)) = EventsOf(all)
    BY <2>4, NoLine, EventsStep
  <2>6. Remaining(b \o w) = <<>> /\ lines \o <<>> = lines
    BY <1>2, JoinEmpty DEF Remaining
  <2> QED
    BY <2>2, <2>3, <2>5, <2>6, NoLine
<1>3. CASE b \o w # <<>>
  <2>1. Remaining(b \o w) = LinesOf(b \o w)
    BY <1>1, <1>3, SplitIsLines DEF Remaining
  <2>2. ~Splits(certain, w)
    <3>1. <<>> \in Seq(Chars) /\ w \o <<>> = w
      BY <1>1, JoinEmpty
    <3>2. ~Splits(certain, w \o <<>>)
      BY <3>1, NoSplit
    <3> QED
      BY <3>1, <3>2
  <2>3. LinesOf(certain \o w) = lines \o LinesOf(b \o w)
    BY <1>1, <2>2, LinesJoin DEF Place, JoinsLater
  <2>4. PICK ended \in Seq(Line), open \in Line : LinesOf(b \o w) = Append(ended, open)
    BY <1>1, LinesParts
  <2>5. Append(ended, open) \in Seq(Line)
    OBVIOUS
  <2> QED
    BY <2>1, <2>3, <2>4, <2>5
<1> QED
  BY <1>2, <1>3

-----------------------------------------------------------------------------
(* The inductive invariant: while the parser is open, what it has read     *)
(* splits into characters whose lines are certain, a carriage return that  *)
(* may be half of a line end, and half a character.                        *)

Reading(certain, w, lines, b) ==
  /\ Text(Received) = (certain \o w) \o decoder
  /\ Place(certain, w, lines, b)
  /\ buffer = b \o w
  /\ dataLines = DataOf(lines)
  /\ delivered = EventsOf(lines)
  /\ isDone <=> Contains(EventsOf(lines), Done)

AllRead ==
  status = "closed" => /\ delivered = EventsOf(Append(LinesOf(Text(Received)), <<>>))
                       /\ isDone <=> Contains(delivered, Done)

StreamInv ==
  /\ TypeOKB
  /\ status = "open" => \E certain \in Seq(Chars), w \in Pending, lines \in Seq(Line), b \in Line :
                          Reading(certain, w, lines, b)
  /\ AllRead
  /\ LimitSparesSmallEvents

LEMMA BufferType ==
  ASSUME NEW b \in Line, NEW w \in Pending
  PROVE  /\ b \o w \in Seq(Tokens \ {"tail", "LF"})
         /\ \A i \in 1..(Len(b \o w) - 1) : (b \o w)[i] # "CR"
<1>1. Line \in SUBSET Seq(Tokens \ {"tail", "LF"})
  BY DEF Line, Content
<1>2. b \in Seq(Tokens \ {"tail", "LF"}) /\ Len(b) \in Nat /\ \A i \in 1..Len(b) : b[i] # "CR"
  BY <1>1, LineIsString DEF Content
<1>3. "CR" \in Tokens \ {"tail", "LF"}
  BY DEF Tokens
<1>4. CASE w = <<>>
  BY <1>2, <1>4
<1>5. CASE w = <<"CR">>
  <2>1. b \o w \in Seq(Tokens \ {"tail", "LF"}) /\ Len(b \o w) = Len(b) + 1
    BY <1>2, <1>3, <1>5
  <2>2. \A i \in 1..Len(b) : (b \o w)[i] = b[i]
    BY <1>2, <1>5
  <2> QED
    BY <1>2, <2>1, <2>2
<1> QED
  BY <1>4, <1>5 DEF Pending

LEMMA EventTokens ==
  /\ Event \in SUBSET Seq(Seq(Tokens))
  /\ Seq(Event) \in SUBSET Seq(Seq(Seq(Tokens)))
<1>1. Line \in SUBSET Seq(Tokens)
  BY DEF Line, Content
<1>2. Event \in SUBSET Seq(Seq(Tokens))
  BY <1>1 DEF Event
<1> QED
  BY <1>2

LEMMA Fed ==
  ASSUME NEW n \in Nat, TypeOKB, fed + n <= Len(wire)
  PROVE  /\ Received \in Seq(Tokens) /\ SubSeq(wire, fed + 1, fed + n) \in Seq(Tokens)
         /\ Len(SubSeq(wire, fed + 1, fed + n)) = n
         /\ SubSeq(wire, 1, fed + n) = Received \o SubSeq(wire, fed + 1, fed + n)
<1>1. PICK s \in Seq(Tokens) : s = wire
  BY SSEAssumption DEF TypeOKB
<1>2. PICK f \in Nat : f = fed
  BY <1>1 DEF TypeOKB
<1>3. f + n <= Len(s) /\ Len(s) \in Nat
  BY <1>1, <1>2
<1>4. SubSeq(s, 1, f) \in Seq(Tokens) /\ Len(SubSeq(s, 1, f)) = f
        /\ \A i \in 1..f : SubSeq(s, 1, f)[i] = s[i]
  <2>1. \A i \in 1..f : i \in 1..Len(s)
    BY <1>3
  <2> QED
    BY <1>3, <2>1
<1>5. SubSeq(s, f + 1, f + n) \in Seq(Tokens) /\ Len(SubSeq(s, f + 1, f + n)) = n
        /\ \A i \in 1..n : SubSeq(s, f + 1, f + n)[i] = s[f + i]
  <2>1. \A i \in (f + 1)..(f + n) : i \in 1..Len(s)
    BY <1>3
  <2> QED
    BY <1>3, <2>1
<1>6. SubSeq(s, 1, f + n) = SubSeq(s, 1, f) \o SubSeq(s, f + 1, f + n)
  <2>1. SubSeq(s, 1, f + n) \in Seq(Tokens) /\ Len(SubSeq(s, 1, f + n)) = f + n
          /\ \A i \in 1..(f + n) : SubSeq(s, 1, f + n)[i] = s[i]
    <3>1. \A i \in 1..(f + n) : i \in 1..Len(s)
      BY <1>3
    <3> QED
      BY <1>3, <3>1
  <2> DEFINE both == SubSeq(s, 1, f) \o SubSeq(s, f + 1, f + n)
  <2>2. both \in Seq(Tokens) /\ Len(both) = f + n
    BY <1>4, <1>5
  <2>3. ASSUME NEW i \in 1..(f + n) PROVE both[i] = s[i]
    <3>1. CASE i <= f
      BY <1>4, <1>5, <3>1
    <3>2. CASE i > f
      <4>1. i - f \in 1..n /\ f + (i - f) = i
        BY <3>2
      <4>2. both[i] = SubSeq(s, f + 1, f + n)[i - f]
        BY <1>4, <1>5, <3>2
      <4> QED
        BY <1>5, <4>1, <4>2
    <3> QED
      BY <3>1, <3>2
  <2> HIDE DEF both
  <2>4. SubSeq(s, 1, f + n) = both
    BY <2>1, <2>2, <2>3
  <2> QED
    BY <2>4 DEF both
<1> QED
  BY <1>1, <1>2, <1>4, <1>5, <1>6 DEF Received

LEMMA StreamInit == Init => StreamInv
<1>1. SUFFICES ASSUME Init PROVE StreamInv
  OBVIOUS
<1>2. wire \in Seq(Tokens)
  BY <1>1, SSEAssumption DEF Init
<1>3. Received = <<>>
  BY <1>1, <1>2 DEF Init, Received
<1>4. TypeOKB
  <2>1. 0 \in 0..Len(wire)
    BY <1>2
  <2>2. \A i \in 1..(Len(<<>>) - 1) : <<>>[i] # "CR"
    OBVIOUS
  <2>3. <<>> \in Seq(Tokens \ {"tail", "LF"}) /\ <<>> \in Seq(Seq(Tokens)) /\ <<>> \in Seq(Seq(Seq(Tokens)))
    OBVIOUS
  <2> QED
    BY <1>1, <2>1, <2>2, <2>3 DEF Init, TypeOKB
<1>5. <<>> \in Seq(Chars) /\ <<>> \in Pending
  BY DEF Pending
<1>6. LinesOf(<<>>) = Append(<<>>, <<>>)
  BY LinesFirst
<1>7. ~Contains(<<>>, Done)
  BY DEF Contains
<1>8. Reading(<<>>, <<>>, <<>>, <<>>)
  <2>1. Text(Received) = (<<>> \o <<>>) \o decoder
    BY <1>1, <1>3, TextFirst DEF Init
  <2>2. Place(<<>>, <<>>, <<>>, <<>>)
    BY <1>6 DEF Place, EndsInReturn
  <2> QED
    BY <1>1, <1>7, <2>1, <2>2, EventsFirst DEF Reading, Init
<1>9. \E certain \in Seq(Chars), w \in Pending, lines \in Seq(Line), b \in Line : Reading(certain, w, lines, b)
  BY <1>5, <1>8, NoLine
<1> QED
  BY <1>1, <1>4, <1>9 DEF StreamInv, AllRead, LimitSparesSmallEvents, Init

LEMMA FeedKeeps == StreamInv /\ Feed => StreamInv'
<1>1. SUFFICES ASSUME StreamInv, Feed PROVE StreamInv'
  OBVIOUS
<1>2. TypeOKB /\ status = "open" /\ wire' = wire
  BY <1>1 DEF StreamInv, Feed
<1>3. PICK certain \in Seq(Chars), w \in Pending, lines \in Seq(Line), b \in Line :
        Reading(certain, w, lines, b)
  BY <1>1, <1>2 DEF StreamInv
<1>4. PICK n \in 1..MaxChunk :
       LET bytes == decoder \o SubSeq(wire, fed + 1, fed + n)
           text  == buffer \o Decoded(bytes)
           acc   == ProcessLines(Complete(text))
       IN /\ fed + n <= Len(wire)
          /\ fed' = fed + n
          /\ IF ~ValidBytes(bytes) THEN Raise("INVALID_UTF8")
             ELSE IF TooLong(text) \/ acc.large THEN Raise("EVENT_TOO_LARGE")
             ELSE /\ decoder' = Undecoded(bytes)
                  /\ buffer' = Rest(text)
                  /\ dataLines' = acc.data /\ isDone' = acc.done
                  /\ delivered' = delivered \o acc.out
                  /\ UNCHANGED status
  BY <1>1 DEF Feed
<1>5. n \in Nat /\ n # 0 /\ n <= MaxChunk
  BY SSEAssumption
<1>6. PICK sub \in Seq(Tokens) : sub = SubSeq(wire, fed + 1, fed + n) /\ Len(sub) = n
  BY <1>2, <1>4, <1>5, Fed
<1>7. PICK bytes : bytes = decoder \o sub
  OBVIOUS
<1>8. PICK new \in Seq(Chars) : new = Decoded(bytes)
  BY <1>2, <1>6, <1>7, Decoding DEF TypeOKB
<1>9. PICK und \in {<<>>, <<"head">>} : und = Undecoded(bytes)
  BY <1>2, <1>6, <1>7, Decoding DEF TypeOKB
<1>10. new \o und = decoder \o Text(sub) /\ (ValidBytes(bytes) => Len(new) <= n)
  <2>1. decoder \in {<<>>, <<"head">>} /\ sub # <<>>
    BY <1>2, <1>5, <1>6 DEF TypeOKB
  <2>2. PICK half \in {<<>>, <<"head">>} : half = decoder
    BY <2>1
  <2>3. bytes = half \o sub
    BY <1>7, <2>2
  <2>4. Decoded(bytes) \o Undecoded(bytes) = half \o Text(sub)
    BY <2>3, Decoding
  <2>5. ValidBytes(bytes) => Len(Decoded(bytes)) <= Len(sub)
    BY <2>1, <2>3, Decoding
  <2>6. Len(sub) = n
    BY <1>6
  <2> QED
    BY <1>8, <1>9, <2>2, <2>4, <2>5, <2>6
<1>11. PICK text : text = buffer \o new
  OBVIOUS
<1>12. PICK acc : acc = ProcessLines(Complete(text))
  OBVIOUS
<1>13. /\ fed + n <= Len(wire) /\ fed' = fed + n
       /\ IF ~ValidBytes(bytes) THEN Raise("INVALID_UTF8")
          ELSE IF TooLong(text) \/ acc.large THEN Raise("EVENT_TOO_LARGE")
          ELSE /\ decoder' = und
               /\ buffer' = Rest(text)
               /\ dataLines' = acc.data /\ isDone' = acc.done
               /\ delivered' = delivered \o acc.out
               /\ UNCHANGED status
  BY <1>4, <1>6, <1>7, <1>8, <1>9, <1>11, <1>12
<1>14. PICK rec \in Seq(Tokens) : rec = Received' /\ rec = Received \o sub /\ Received \in Seq(Tokens)
  <2>1. Received \in Seq(Tokens) /\ SubSeq(wire, 1, fed + n) = Received \o SubSeq(wire, fed + 1, fed + n)
    BY <1>2, <1>5, <1>13, Fed
  <2>2. Received' = SubSeq(wire, 1, fed + n)
    BY <1>2, <1>13 DEF Received
  <2>3. Received \o sub \in Seq(Tokens)
    BY <2>1
  <2> QED
    BY <1>6, <2>1, <2>2, <2>3
<1>15. w \in Seq(Chars) /\ und \in Seq(Chars) /\ certain \o w \in Seq(Chars) /\ decoder \in Seq(Chars)
         /\ Text(sub) \in Seq(Chars)
  <2>1. <<"head">> \in Seq(Chars) /\ <<>> \in Seq(Chars)
    BY DEF Chars, Tokens
  <2>2. w \in Seq(Chars)
    BY PendingType
  <2>3. certain \o w \in Seq(Chars)
    BY <2>2
  <2>4. decoder \in Seq(Chars) /\ und \in Seq(Chars)
    BY <1>2, <2>1 DEF TypeOKB
  <2> QED
    BY <2>2, <2>3, <2>4, TextType
<1>16. Text(rec) = (certain \o w) \o (new \o und)
  <2>1. Text(rec) = Text(Received) \o Text(sub)
    BY <1>14, TextJoin
  <2>2. Text(Received) = (certain \o w) \o decoder
    BY <1>3 DEF Reading
  <2>3. PICK s \in Seq(Chars) : s = certain \o w
    BY <1>15
  <2>4. PICK t \in Seq(Chars) : t = Text(sub)
    BY <1>15
  <2>5. (s \o decoder) \o t = s \o (decoder \o t)
    <3>1. PICK d \in Seq(Chars) : d = decoder
      BY <1>15
    <3>2. Regroups(s, d, t)
      BY CharsJoin
    <3> QED
      BY <3>1, <3>2 DEF Regroups
  <2> QED
    BY <1>10, <2>1, <2>2, <2>3, <2>4, <2>5
<1>17. Place(certain, w, lines, b) /\ buffer = b \o w /\ text = (b \o w) \o new
  BY <1>3, <1>11 DEF Reading
<1>18. PICK z \in Seq(Chars), w2 \in Pending, more \in Seq(Line), open \in Line :
           /\ (certain \o w) \o new = (certain \o z) \o w2
           /\ Place(certain \o z, w2, lines \o more, open)
           /\ Complete((b \o w) \o new) = more /\ Rest((b \o w) \o new) = open \o w2
  <2>1. Moves(certain, w, lines, b, new)
    BY <1>17, FeedLines
  <2> QED
    BY <2>1 DEF Moves
<1>19. PICK all \in Seq(Line) : all = lines \o more
  BY LineJoin
<1>20. PICK known \in Seq(Chars) : known = certain \o z
  <2>1. certain \o z \in Seq(Chars)
    OBVIOUS
  <2> QED
    BY <2>1
<1>21. acc \in Run /\ Follows(acc, lines, all)
  <2>1. dataLines = DataOf(lines) /\ isDone \in BOOLEAN /\ (isDone <=> Contains(EventsOf(lines), Done))
    BY <1>2, <1>3 DEF Reading, TypeOKB
  <2>2. ProcessLines(more) \in Run /\ Follows(ProcessLines(more), lines, lines \o more)
    BY <2>1, RunFollows
  <2>3. acc = ProcessLines(more)
    BY <1>12, <1>17, <1>18
  <2> QED
    BY <1>19, <2>2, <2>3
<1>22. Text(rec) = (known \o w2) \o und /\ w2 \in Seq(Chars)
  <2>1. PICK s \in Seq(Chars) : s = certain \o w
    BY <1>15
  <2>2. (s \o new) \o und = s \o (new \o und)
    <3>1. PICK u \in Seq(Chars) : u = und
      BY <1>15
    <3>2. Regroups(s, new, u)
      BY CharsJoin
    <3> QED
      BY <3>1, <3>2 DEF Regroups
  <2> QED
    BY <1>16, <1>18, <1>20, <2>1, <2>2, PendingType
<1>23. Place(known, w2, all, open)
  BY <1>18, <1>19, <1>20
<1>24. fed' \in 0..Len(wire')
  BY <1>2, <1>5, <1>13 DEF TypeOKB
<1>25. CASE ~ValidBytes(bytes)
  <2>1. status' = "INVALID_UTF8" /\ UNCHANGED <<decoder, buffer, dataLines, isDone, delivered>>
    BY <1>13, <1>25 DEF Raise, parserVars
  <2>2. TypeOKB'
    BY <1>2, <1>24, <2>1 DEF TypeOKB
  <2> QED
    BY <2>1, <2>2 DEF StreamInv, AllRead, LimitSparesSmallEvents
<1>26. CASE ValidBytes(bytes) /\ (TooLong(text) \/ acc.large)
  <2>1. status' = "EVENT_TOO_LARGE" /\ UNCHANGED <<decoder, buffer, dataLines, isDone, delivered>>
    BY <1>13, <1>26 DEF Raise, parserVars
  <2>2. TypeOKB'
    BY <1>2, <1>24, <2>1 DEF TypeOKB
  <2>3. LongLine(LinesOf(Text(rec))) \/ BigEvent(Append(LinesOf(Text(rec)), <<>>))
    <3>1. CASE TooLong(text)
      <4>1. Len(new) \in Nat /\ MaxChunk \in Nat /\ Len(new) <= n
        BY <1>10, <1>26, SSEAssumption
      <4>2. Len(new) <= MaxChunk
        BY <1>5, <4>1
      <4>3. LongLine(LinesOf((certain \o w) \o (new \o und)))
        BY <1>15, <1>17, <3>1, <4>2, LongStays
      <4> QED
        BY <1>16, <4>3
    <3>2. CASE acc.large
      <4>1. Big(all)
        BY <1>21, <3>2 DEF Follows
      <4>2. PICK y \in Seq(Chars) : y = w2 \o und
        <5>1. w2 \o und \in Seq(Chars)
          BY <1>15, <1>22
        <5> QED
          BY <5>1
      <4>3. (known \o w2) \o und = known \o y
        <5>1. (known \o w2) \o und = known \o (w2 \o und)
          <6>1. PICK u \in Seq(Chars), v \in Seq(Chars) : u = und /\ v = w2
            BY <1>15, <1>22
          <6>2. Regroups(known, v, u)
            BY CharsJoin
          <6> QED
            BY <6>1, <6>2 DEF Regroups
        <5> QED
          BY <4>2, <5>1
      <4>4. BigEvent(Append(LinesOf(known \o y), <<>>))
        BY <1>23, <4>1, BigInText DEF Place
      <4> QED
        BY <1>22, <4>3, <4>4
    <3> QED
      BY <1>26, <3>1, <3>2
  <2>4. LimitSparesSmallEvents'
    BY <1>14, <2>3 DEF LimitSparesSmallEvents, LongLine, BigEvent
  <2> QED
    BY <2>1, <2>2, <2>4 DEF StreamInv, AllRead
<1>27. CASE ValidBytes(bytes) /\ ~TooLong(text) /\ ~acc.large
  <2>1. /\ decoder' = und /\ buffer' = open \o w2
        /\ dataLines' = acc.data /\ isDone' = acc.done
        /\ delivered' = delivered \o acc.out /\ status' = "open"
    BY <1>2, <1>13, <1>17, <1>18, <1>27
  <2>2. /\ acc.data = DataOf(all) /\ EventsOf(lines) \o acc.out = EventsOf(all)
        /\ acc.done <=> Contains(EventsOf(all), Done)
        /\ acc.done \in BOOLEAN
    BY <1>21, <1>27 DEF Follows, Run
  <2>3. delivered' = EventsOf(all)
    BY <1>3, <2>1, <2>2 DEF Reading
  <2>4. Reading(known, w2, all, open)'
    <3>1. Text(Received') = (known \o w2) \o decoder'
      BY <1>14, <1>22, <2>1
    <3> QED
      BY <1>23, <2>1, <2>2, <2>3, <3>1 DEF Reading
  <2>5. TypeOKB'
    <3>1. buffer' \in Seq(Tokens \ {"tail", "LF"}) /\ \A i \in 1..(Len(buffer') - 1) : buffer'[i] # "CR"
      BY <2>1, BufferType
    <3>2. dataLines' \in Seq(Seq(Tokens)) /\ delivered' \in Seq(Seq(Seq(Tokens)))
      BY <2>1, <2>2, <2>3, EventsType, EventTokens
    <3> QED
      BY <1>2, <1>24, <2>1, <2>2, <3>1, <3>2 DEF TypeOKB
  <2>6. \E c \in Seq(Chars), v \in Pending, l \in Seq(Line), o \in Line : Reading(c, v, l, o)'
    BY <2>4
  <2> QED
    BY <2>1, <2>5, <2>6 DEF StreamInv, AllRead, LimitSparesSmallEvents
<1> QED
  BY <1>25, <1>26, <1>27

LEMMA BlankDispatches ==
  ASSUME NEW acc \in Run, ~acc.large
  PROVE  ProcessLine(acc, <<>>) = Dispatch(acc) /\ ~Dispatch(acc).large
<1>1. ProcessLine(acc, <<>>) = Dispatch(acc)
  BY DEF ProcessLine
<1>2. ~Dispatch(acc).large
  BY DEF Dispatch, Run
<1> QED
  BY <1>1, <1>2

LEMMA CloseKeeps == StreamInv /\ Close => StreamInv'
<1>1. SUFFICES ASSUME StreamInv, Close PROVE StreamInv'
  OBVIOUS
<1>2. TypeOKB /\ status = "open" /\ wire' = wire /\ fed' = fed
  BY <1>1 DEF StreamInv, Close
<1>3. PICK certain \in Seq(Chars), w \in Pending, lines \in Seq(Line), b \in Line :
        Reading(certain, w, lines, b)
  BY <1>1, <1>2 DEF StreamInv
<1>4. PICK rest : rest = Remaining(buffer)
  OBVIOUS
<1>5. PICK acc : acc = ProcessLines(rest)
  OBVIOUS
<1>6. IF decoder # <<>> THEN Raise("INVALID_UTF8")
      ELSE IF acc.large THEN Raise("EVENT_TOO_LARGE")
      ELSE /\ status' = "closed"
           /\ buffer' = <<>> /\ dataLines' = Dispatch(acc).data /\ isDone' = Dispatch(acc).done
           /\ delivered' = delivered \o Dispatch(acc).out
           /\ UNCHANGED decoder
  BY <1>1, <1>4, <1>5 DEF Close, Remaining
<1>7. Received' = Received /\ fed' \in 0..Len(wire')
  BY <1>2 DEF Received, TypeOKB
<1>8. PICK before \in Seq(Line) : before = rest
        /\ EventsOf(Append(LinesOf(certain \o w), <<>>)) = EventsOf(Append(lines \o rest, <<>>))
  BY <1>3, <1>4, CloseLines DEF Reading
<1>9. PICK all \in Seq(Line) : all = lines \o rest
  BY <1>8, LineJoin
<1>10. acc \in Run /\ Follows(acc, lines, all)
  <2>1. dataLines = DataOf(lines) /\ isDone \in BOOLEAN /\ (isDone <=> Contains(EventsOf(lines), Done))
    BY <1>2, <1>3 DEF Reading, TypeOKB
  <2>2. ProcessLines(before) \in Run /\ Follows(ProcessLines(before), lines, lines \o before)
    BY <2>1, RunFollows
  <2> QED
    BY <1>5, <1>8, <1>9, <2>2
<1>11. decoder = <<>> => Text(Received) = certain \o w
  <2>1. certain \o w \in Seq(Chars)
    <3>1. w \in Seq(Chars)
      BY PendingType
    <3> QED
      BY <3>1
  <2>2. (certain \o w) \o <<>> = certain \o w
    BY <2>1, JoinEmpty
  <2> QED
    BY <1>3, <2>2 DEF Reading
<1>12. CASE decoder # <<>>
  <2>1. status' = "INVALID_UTF8" /\ UNCHANGED <<decoder, buffer, dataLines, isDone, delivered>>
    BY <1>6, <1>12 DEF Raise, parserVars
  <2>2. TypeOKB'
    BY <1>2, <1>7, <2>1 DEF TypeOKB
  <2> QED
    BY <2>1, <2>2 DEF StreamInv, AllRead, LimitSparesSmallEvents
<1>13. CASE decoder = <<>> /\ acc.large
  <2>1. status' = "EVENT_TOO_LARGE" /\ UNCHANGED <<decoder, buffer, dataLines, isDone, delivered>>
    BY <1>6, <1>13 DEF Raise, parserVars
  <2>2. TypeOKB'
    BY <1>2, <1>7, <2>1 DEF TypeOKB
  <2>3. BigEvent(Append(all, <<>>))
    <3>1. Big(all)
      BY <1>10, <1>13 DEF Follows
    <3> QED
      BY <3>1, NoLine, BigStays
  <2>4. BigEvent(Append(LinesOf(Text(Received)), <<>>))
    BY <1>8, <1>9, <1>11, <1>13, <2>3 DEF BigEvent
  <2>5. LimitSparesSmallEvents'
    BY <1>7, <2>4 DEF LimitSparesSmallEvents, BigEvent
  <2> QED
    BY <2>1, <2>2, <2>5 DEF StreamInv, AllRead
<1>14. CASE decoder = <<>> /\ ~acc.large
  <2>1. PICK end : end = Dispatch(acc)
    OBVIOUS
  <2>2. /\ status' = "closed"
        /\ buffer' = <<>> /\ dataLines' = end.data /\ isDone' = end.done
        /\ delivered' = delivered \o end.out
        /\ UNCHANGED decoder
    BY <1>6, <1>14, <2>1
  <2>3. end \in Run /\ Follows(end, lines, Append(all, <<>>)) /\ ~end.large
    <3>1. ProcessLine(acc, <<>>) \in Run /\ Follows(ProcessLine(acc, <<>>), lines, Append(all, <<>>))
      BY <1>10, NoLine, FollowsStep
    <3> QED
      BY <1>10, <1>14, <2>1, <3>1, BlankDispatches
  <2>4. PICK whole \in Seq(Line) : whole = Append(all, <<>>)
    <3>1. Append(all, <<>>) \in Seq(Line)
      BY NoLine
    <3> QED
      BY <3>1
  <2>5. /\ end.data = DataOf(whole) /\ EventsOf(lines) \o end.out = EventsOf(whole)
        /\ end.done <=> Contains(EventsOf(whole), Done)
        /\ end.done \in BOOLEAN
    BY <2>3, <2>4 DEF Follows, Run
  <2>6. delivered' = EventsOf(whole)
    BY <1>3, <2>2, <2>5 DEF Reading
  <2>7. EventsOf(whole) = EventsOf(Append(LinesOf(Text(Received)), <<>>))
    BY <1>8, <1>9, <1>11, <1>14, <2>4
  <2>8. AllRead'
    BY <1>7, <2>2, <2>5, <2>6, <2>7 DEF AllRead
  <2>9. TypeOKB'
    <3>1. buffer' \in Seq(Tokens \ {"tail", "LF"}) /\ \A i \in 1..(Len(buffer') - 1) : buffer'[i] # "CR"
      BY <2>2
    <3>2. dataLines' \in Seq(Seq(Tokens)) /\ delivered' \in Seq(Seq(Seq(Tokens)))
      BY <2>2, <2>5, <2>6, EventsType, EventTokens
    <3> QED
      BY <1>2, <1>7, <2>2, <2>5, <3>1, <3>2 DEF TypeOKB
  <2> QED
    BY <2>2, <2>8, <2>9 DEF StreamInv, LimitSparesSmallEvents
<1> QED
  BY <1>12, <1>13, <1>14

LEMMA StreamStep == StreamInv /\ [Next]_vars => StreamInv'
<1>1. SUFFICES ASSUME StreamInv, [Next]_vars PROVE StreamInv'
  OBVIOUS
<1>2. CASE Feed
  BY <1>1, <1>2, FeedKeeps
<1>3. CASE Close
  BY <1>1, <1>3, CloseKeeps
<1>4. CASE UNCHANGED vars
  <2>1. UNCHANGED <<wire, fed, decoder, buffer, dataLines, isDone, delivered, status>>
    BY <1>4 DEF vars, parserVars
  <2>2. Received' = Received
    BY <2>1 DEF Received
  <2>3. TypeOKB'
    BY <1>1, <2>1 DEF StreamInv, TypeOKB
  <2>4. ASSUME NEW certain, NEW w, NEW lines, NEW b, Reading(certain, w, lines, b)
        PROVE  Reading(certain, w, lines, b)'
    BY <2>1, <2>2, <2>4 DEF Reading
  <2>5. AllRead' /\ LimitSparesSmallEvents'
    BY <1>1, <2>1, <2>2 DEF StreamInv, AllRead, LimitSparesSmallEvents
  <2> QED
    BY <1>1, <2>1, <2>3, <2>4, <2>5 DEF StreamInv
<1> QED
  BY <1>1, <1>2, <1>3, <1>4 DEF Next

LEMMA StreamAlways == Spec => []StreamInv
BY StreamInit, StreamStep, PTL DEF Spec

\* While the parser is open, what it has read says what is certain of it.
LEMMA ReadingIsSent == StreamInv => EventsAsSent
<1>1. SUFFICES ASSUME StreamInv PROVE EventsAsSent
  OBVIOUS
<1>2. isDone \in BOOLEAN /\ decoder \in {<<>>, <<"head">>}
  BY <1>1 DEF StreamInv, TypeOKB
<1>3. CASE status = "open"
  <2>1. PICK certain \in Seq(Chars), w \in Pending, lines \in Seq(Line), b \in Line :
          Reading(certain, w, lines, b)
    BY <1>1, <1>3 DEF StreamInv
  <2>2. w \in Seq(Chars)
    BY PendingType
  <2>3. PICK decoded \in Seq(Chars) : decoded = certain \o w
    <3>1. certain \o w \in Seq(Chars)
      BY <2>2
    <3> QED
      BY <3>1
  <2>4. SubSeq(Text(Received), 1, Len(Text(Received)) - Len(decoder)) = decoded
    <3>1. Text(Received) = decoded \o decoder
      BY <2>1, <2>3 DEF Reading
    <3>2. decoder \in Seq(Chars) /\ Len(decoder) \in Nat
      <4>1. <<"head">> \in Seq(Chars) /\ <<>> \in Seq(Chars)
        BY DEF Chars, Tokens
      <4>2. decoder \in Seq(Chars)
        BY <1>2, <4>1
      <4> QED
        BY <4>2
    <3>3. Len(decoded \o decoder) - Len(decoder) = Len(decoded)
      BY <3>2
    <3>4. SubSeq(decoded \o decoder, 1, Len(decoded)) = decoded
      BY <3>2
    <3> QED
      BY <3>1, <3>3, <3>4
  <2>5. (IF decoded # <<>> /\ Last(decoded) = "CR" THEN Front(decoded) ELSE decoded) = certain
    <3>1. CASE w = <<>>
      <4>1. decoded = certain /\ ~EndsInReturn(certain)
        BY <2>1, <2>3, <3>1, JoinEmpty DEF Reading, Place
      <4> QED
        BY <4>1 DEF EndsInReturn, Last
    <3>2. CASE w = <<"CR">>
      <4>1. "CR" \in Chars /\ decoded = Append(certain, "CR")
        BY <2>3, <3>2 DEF Chars, Tokens
      <4>2. decoded # <<>>
        BY <4>1, AppendFacts
      <4>3. Front(decoded) = certain /\ Last(decoded) = "CR"
        BY <4>1, AppendFront
      <4> QED
        BY <4>2, <4>3
    <3> QED
      BY <3>1, <3>2 DEF Pending
  <2>6. Front(LinesOf(certain)) = lines
    BY <2>1, AppendFront DEF Reading, Place
  <2>7. delivered = EventsOf(lines) /\ (isDone = Contains(delivered, Done))
    BY <1>2, <2>1 DEF Reading, Contains
  <2> QED
    BY <1>3, <2>4, <2>5, <2>6, <2>7 DEF EventsAsSent, Done
<1>4. CASE status = "closed"
  <2>1. delivered = EventsOf(Append(LinesOf(Text(Received)), <<>>)) /\ (isDone = Contains(delivered, Done))
    BY <1>1, <1>2, <1>4 DEF StreamInv, AllRead, Contains
  <2> QED
    BY <1>4, <2>1 DEF EventsAsSent, Done
<1>5. CASE status \notin {"open", "closed"}
  BY <1>5 DEF EventsAsSent
<1> QED
  BY <1>3, <1>4, <1>5

-----------------------------------------------------------------------------
\* Typing, and that the buffer holds no line end but one carriage return that waits for
\* the character behind it (SSEParser._buffer), for all streams, cuts and limits.
THEOREM TypeCorrectB == Spec => []TypeOKB
BY StreamAlways, PTL DEF StreamInv

\* However a stream is cut into chunks, inside a character or between the halves of a line
\* end, feed returns the payloads of the lines that are certain, and feed and close
\* together those of the whole stream; is_done says whether [DONE] was among them.
THEOREM EventsAsSentHolds == Spec => []EventsAsSent
BY StreamAlways, ReadingIsSent, PTL

\* EVENT_TOO_LARGE is raised only for a stream that has an event over the limit, or a line
\* that is over it together with one chunk.
THEOREM LimitSparesHolds == Spec => []LimitSparesSmallEvents
BY StreamAlways, PTL DEF StreamInv
=============================================================================
