------------------------------- MODULE MCPush -------------------------------
(* Instances of Push for TLC. *)
EXTENDS Push, TLC

CONSTANTS c1, c2, p1, p2, main, dev

\* Amounts are in units of the anchor's minimum: 1 pays for an anchor, 2 for
\* a node batch.
Coin(n, a) == [txid |-> 0, vout |-> n, amount |-> a]

\* One process in one clone.
Alone == [p \in {p1} |-> c1]

\* Two processes in one clone, which start from the same file.
Together == [p \in {p1, p2} |-> c1]

\* Two outputs, so that the best fit matters; three to compete for a head.
Two == [c \in {c1} |-> {Coin(1, 2), Coin(2, 1)}]
Three == [c \in {c1} |-> {Coin(n, 1) : n \in 1 .. 3}]

\* One process in each of two clones of the repository.
Apart == [p \in {p1, p2} |-> IF p = p1 THEN c1 ELSE c2]
Own == [c \in {c1, c2} |-> {IF c = c1 THEN Coin(1, 2) ELSE Coin(2, 1)}]

Positions == 1 .. 4

\* What decides the steps to come: all but the reports and the history.
Core == <<chain, limbo, disk, pc, mem, todo, files, cur, tree>>

Interchangeable == Permutations({p1, p2})
=============================================================================
