------------------------------ MODULE Spelling ------------------------------
(***************************************************************************)
(* Words as sequences of letters, and the order strings have: the engines' *)
(* sorted lists, bisections and tie-breaks rest on it.  A letter is a      *)
(* number.                                                                 *)
(***************************************************************************)
EXTENDS Integers, Sequences, FiniteSets

Beginnings(w) == {SubSeq(w, 1, i) : i \in 1..Len(w)}
StartsWith(w, p) == Len(p) <= Len(w) /\ SubSeq(w, 1, Len(p)) = p

\* v comes before w: it is a proper beginning of w, or smaller at the first
\* letter they differ in.
Before(v, w) ==
    \E i \in 1..Len(w) :
        /\ i <= Len(v) + 1 /\ SubSeq(v, 1, i - 1) = SubSeq(w, 1, i - 1)
        /\ i = Len(v) + 1 \/ v[i] < w[i]

\* The first k of S in a strict order, as a sequence.
FirstBy(k, S, Ahead(_, _)) ==
    LET n == IF Cardinality(S) < k THEN Cardinality(S) ELSE k
    IN [i \in 1..n |-> CHOOSE x \in S : Cardinality({y \in S : Ahead(y, x)}) = i - 1]
=============================================================================
