------------------------------- MODULE MCFetch -------------------------------
(* Instances of Fetch for TLC. *)
EXTENDS Fetch, TLC

CONSTANTS main, dev

Three == 1 .. 3
TwoNotes == 11 .. 12

\* An empty commit first, then one file and two.
Files == [n \in TxIds |-> n - 1]
=============================================================================
