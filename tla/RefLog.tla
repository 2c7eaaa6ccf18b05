------------------------------- MODULE RefLog -------------------------------
(***************************************************************************)
(* What the anchors on the chain promise to a reader: each is the first of *)
(* a history or extends the newest anchor of a history of the same ref, so *)
(* that from any anchor WalkAnchorChain finds one line of ancestors        *)
(* (internal/chain/reader.go) and no two anchors continue the same one.    *)
(* Nothing is promised about how many histories a ref has.                 *)
(***************************************************************************)
EXTENDS Integers

CONSTANTS
  Refs,   \* ref names
  TxIds   \* transaction ids, positive, in the order of acceptance

VARIABLE anchors   \* the published anchors

Anchor == [id: TxIds, ref: Refs, parent: TxIds \cup {0}]

\* The anchors of r that no other anchor continues.
Tips(r) ==
  {a \in anchors : a.ref = r /\ \A b \in anchors : b.parent # a.id}

Publish(n, r, parent) ==
  /\ \A a \in anchors : a.id < n
  /\ parent \in {0} \cup {a.id : a \in Tips(r)}
  /\ anchors' = anchors \cup {[id |-> n, ref |-> r, parent |-> parent]}

Init == anchors = {}
Next == \E n \in TxIds, r \in Refs : \E parent \in TxIds \cup {0} :
          Publish(n, r, parent)
Spec == Init /\ [][Next]_anchors
=============================================================================
