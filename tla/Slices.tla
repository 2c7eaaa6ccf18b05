------------------------------- MODULE Slices -------------------------------
(* What loops of the code that filter a slice, and sorts, make of it.      *)
EXTENDS Integers, Sequences, FiniteSets

\* What a slice is: so many elements.
Sequence(s) == Len(s) \in Nat /\ s = [i \in 1 .. Len(s) |-> s[i]]

\* The elements of s that are kept, when n are through.
Selected(s, keep) ==
  LET selected[n \in 0 .. Len(s)] ==
        IF n = 0 THEN <<>>
        ELSE IF keep[n] THEN Append(selected[n - 1], s[n]) ELSE selected[n - 1]
  IN  selected

\* The elements of a finite set in their order: the i-th has i - 1 before it.
InOrder(S, Before(_, _)) ==
  [i \in 1 .. Cardinality(S) |->
     CHOOSE e \in S : Cardinality({f \in S : Before(f, e)}) = i - 1]
=============================================================================
