------------------------------- MODULE Pieces -------------------------------
(***************************************************************************)
(* What a specification means by "the texts of these events, in order":    *)
(* the pieces that stand at some of the places of a sequence.              *)
(***************************************************************************)
EXTENDS Integers, Sequences

\* The pieces at the places up to n that have one, in order.
InOrder(piece, n) ==
  LET upTo[i \in 0..n] ==
        IF i = 0 THEN <<>>
        ELSE IF i \in DOMAIN piece THEN Append(upTo[i - 1], piece[i]) ELSE upTo[i - 1]
  IN  upTo[n]

\* The pieces between place k and the last mark in front of it.
Between(piece, marks, k) ==
  InOrder([i \in {j \in DOMAIN piece : j < k /\ \A m \in marks : ~(j <= m /\ m < k)} |-> piece[i]], k - 1)

\* The groups that marks make of the pieces at n places: one in front of each mark and
\* one behind the last.
Groups(piece, marks, n) ==
  Append(InOrder([k \in marks |-> Between(piece, marks, k)], n), Between(piece, marks, n + 1))
=============================================================================
