---------------------------- MODULE OutcomeProofs ----------------------------
(***************************************************************************)
(* Proofs about what the pushes of Push leave behind: the trees that       *)
(* anchors name, the fee pools, and the results that git is told.          *)
(***************************************************************************)
EXTENDS PushProofs

-----------------------------------------------------------------------------
(* The steps, taken apart.                                                 *)

\* The steps that touch neither the chain nor limbo, nor the fees of a pool.
Quiet(p) ==
  \/ \E W \in SUBSET Refs, F \in SUBSET Refs : Export(p, W, F)
  \/ \E r \in Refs : PickRef(p, r) \/ PrepareFails(p, r)
  \/ \E s \in {"nodes", "anchor"} : \E min : NoFeeUTXO(p, s, min)
  \/ SaveOk(p) \/ SaveFails(p) \/ Report(p)

\* Those that pay with an output of the pool.
Pays(p, u, a) ==
  \/ PushNodesOk(p, u, a) \/ PushNodesFails(p, u, a)
  \/ PushAnchorOk(p, u, a) \/ PushAnchorFails(p, u, a)

\* Every step is one of these.
LEMMA Steps ==
  ASSUME TypeOK, Next
  PROVE  \/ \E t \in limbo : Land(t)
         \/ \E p \in Procs :
              \/ LoadOk(p) \/ LoadFails(p) \/ Stop(p) \/ Quiet(p)
              \/ \E u \in mem[p].fee : \E a \in Nat : u \in UTXO /\ Pays(p, u, a)
<1>1. ASSUME NEW p \in Procs, PushNodes(p)
      PROVE  \/ Quiet(p)
             \/ \E u \in mem[p].fee : \E a \in Nat : u \in UTXO /\ Pays(p, u, a)
  <2>1. CASE NoFeeUTXO(p, "nodes", NodeFeeMin)
    BY <2>1 DEF Quiet
  <2>2. ASSUME NEW u \in FeeCandidates(mem[p], NodeFeeMin), NEW a \in 0 .. u.amount,
               PushNodesOk(p, u, a) \/ PushNodesFails(p, u, a)
        PROVE  u \in mem[p].fee /\ a \in Nat /\ u \in UTXO /\ Pays(p, u, a)
    BY <2>2, CandidateInPool DEF Pays, TypeOK
  <2> QED
    BY <1>1, <2>1, <2>2 DEF PushNodes
<1>2. ASSUME NEW p \in Procs, PushAnchor(p)
      PROVE  \/ Quiet(p)
             \/ \E u \in mem[p].fee : \E a \in Nat : u \in UTXO /\ Pays(p, u, a)
  <2>1. CASE NoFeeUTXO(p, "anchor", AnchorFeeMin)
    BY <2>1 DEF Quiet
  <2>2. ASSUME NEW u \in FeeCandidates(mem[p], AnchorFeeMin), NEW a \in 0 .. u.amount,
               PushAnchorOk(p, u, a) \/ PushAnchorFails(p, u, a)
        PROVE  u \in mem[p].fee /\ a \in Nat /\ u \in UTXO /\ Pays(p, u, a)
    BY <2>2, CandidateInPool DEF Pays, TypeOK
  <2> QED
    BY <1>2, <2>1, <2>2 DEF PushAnchor
<1>3. ASSUME NEW p \in Procs, NEW W \in SUBSET Refs, NEW F \in SUBSET W, Export(p, W, F)
      PROVE  Quiet(p)
  BY <1>3 DEF Quiet
<1>4. ASSUME NEW p \in Procs, Work(p)
      PROVE  \/ Quiet(p)
             \/ \E u \in mem[p].fee : \E a \in Nat : u \in UTXO /\ Pays(p, u, a)
  <2>1. ASSUME NEW r \in Refs, PickRef(p, r) \/ PrepareFails(p, r) PROVE Quiet(p)
    BY <2>1 DEF Quiet
  <2>2. ASSUME SaveOk(p) \/ SaveFails(p) \/ Report(p) PROVE Quiet(p)
    BY <2>2 DEF Quiet
  <2> QED
    BY <1>1, <1>2, <1>4, <2>1, <2>2 DEF Work
<1> QED
  BY <1>3, <1>4 DEF Next

-----------------------------------------------------------------------------
(* Trees.  A batch is named by the anchor of its own push, and until there  *)
(* is one by the process at work or by an anchor in limbo, never by two.   *)

GoodTree(n, r) == n \in DOMAIN chain /\ chain[n].kind = "nodes" /\ chain[n].ref = r

ChainTrees ==
  \A i \in Anchors : chain[i].tree # 0 =>
    /\ GoodTree(chain[i].tree, chain[i].ref) /\ chain[i].tree < i
    /\ \A j \in Anchors : chain[j].tree = chain[i].tree => j = i

LimboTrees ==
  \A t \in limbo : t.kind = "anchor" /\ t.tree # 0 =>
    /\ GoodTree(t.tree, t.ref)
    /\ \A i \in Anchors : chain[i].tree # t.tree
    /\ \A u \in limbo : u.kind = "anchor" /\ u.tree = t.tree => u = t

ProcTrees ==
  \A p \in Procs :
    /\ pc[p] \notin {"anchor", "save"} => tree[p] = 0
    /\ pc[p] = "anchor" /\ tree[p] # 0 =>
         /\ GoodTree(tree[p], cur[p])
         /\ \A i \in Anchors : chain[i].tree # tree[p]
         /\ \A t \in limbo : t.kind = "anchor" => t.tree # tree[p]
         /\ \A q \in Procs : pc[q] = "anchor" /\ tree[q] = tree[p] => q = p

TreeInv == ChainTrees /\ LimboTrees /\ ProcTrees

\* What a process does to its own place and tree, all others being as before.
TreeMove(p) ==
  /\ \A q \in Procs \ {p} : pc'[q] = pc[q] /\ tree'[q] = tree[q] /\ cur'[q] = cur[q]
  /\ pc'[p] \notin {"anchor", "save"} => tree'[p] = 0
  /\ pc'[p] = "anchor" => tree'[p] = 0

\* A process that leaves the chain alone and starts or ends a ref.
LEMMA TreeFrame ==
  ASSUME TreeInv, chain' = chain, limbo' = limbo, NEW p \in Procs, TreeMove(p)
  PROVE  TreeInv'
<1>1. ChainTrees' /\ LimboTrees'
  BY DEF TreeInv, ChainTrees, LimboTrees, GoodTree, Anchors
<1>2. ProcTrees'
  BY DEF TreeInv, ProcTrees, GoodTree, Anchors, TreeMove
<1> QED
  BY <1>1, <1>2 DEF TreeInv

\* Record ends a ref.
LEMMA RecordMoves ==
  ASSUME TypeOK, NEW p \in Procs, NEW r, NEW res, Record(p, r, res)
  PROVE  TreeMove(p) /\ pc'[p] = "loop"
BY DEF Record, Goto, TypeOK, TreeMove

\* The steps of a process that leave chain and limbo alone keep the trees.
LEMMA QuietTrees ==
  ASSUME TypeOK, TreeInv, NEW p \in Procs, Quiet(p)
  PROVE  TreeInv'
<1>1. ASSUME NEW r, NEW res, Record(p, r, res), chain' = chain, limbo' = limbo
      PROVE  TreeInv'
  BY <1>1, RecordMoves, TreeFrame
<1>2. ASSUME NEW W, NEW F, Export(p, W, F) PROVE TreeInv'
  <2>1. TreeMove(p)
    BY <1>2 DEF Export, Goto, At, TypeOK, TreeMove, TreeInv, ProcTrees
  <2> QED
    BY <1>2, <2>1, TreeFrame DEF Export
<1>3. ASSUME NEW r, PickRef(p, r) PROVE TreeInv'
  <2>1. TreeMove(p)
    BY <1>3 DEF PickRef, Goto, At, TypeOK, TreeMove, TreeInv, ProcTrees
  <2> QED
    BY <1>3, <2>1, TreeFrame DEF PickRef
<1>4. CASE Report(p)
  <2>1. TreeMove(p)
    BY <1>4 DEF Report, Goto, At, TypeOK, TreeMove, TreeInv, ProcTrees
  <2> QED
    BY <1>4, <2>1, TreeFrame DEF Report
<1>5. ASSUME NEW r, PrepareFails(p, r) PROVE TreeInv'
  BY <1>1, <1>5 DEF PrepareFails
<1>6. ASSUME NEW s, NEW min, NoFeeUTXO(p, s, min) PROVE TreeInv'
  BY <1>1, <1>6 DEF NoFeeUTXO
<1>7. CASE SaveOk(p) \/ SaveFails(p)
  BY <1>1, <1>7 DEF SaveOk, SaveFails
<1> QED
  BY <1>2, <1>3, <1>4, <1>5, <1>6, <1>7 DEF Quiet

\* A transaction joins the chain: what was said of trees goes on holding.
LEMMA TreesGrow ==
  ASSUME chain \in Seq(Tx), NEW t \in Tx, chain' = Append(chain, t)
  PROVE  \A n, r : GoodTree(n, r) => GoodTree(n, r)' /\ n # NewTxid /\ n < NewTxid
BY AppendFacts DEF GoodTree

\* An anchor joins the chain that names no batch, or one that none names.
LEMMA AnchorJoins ==
  ASSUME TypeOK, ChainTrees, NEW t \in Tx, chain' = Append(chain, t),
         t.kind = "anchor" /\ t.tree # 0 =>
           GoodTree(t.tree, t.ref) /\ \A i \in Anchors : chain[i].tree # t.tree
  PROVE  ChainTrees'
<1>1. PICK n : /\ n = NewTxid /\ n \notin DOMAIN chain
               /\ DOMAIN chain' = DOMAIN chain \cup {n}
               /\ \A i \in DOMAIN chain : i \in Nat /\ i < n /\ chain'[i] = chain[i]
               /\ chain'[n] = t
  BY AppendFacts DEF TypeOK
<1>2. \A m, r : GoodTree(m, r) => GoodTree(m, r)' /\ m < n
  BY <1>1, TreesGrow DEF TypeOK
<1>3. /\ \A i \in Anchors' : i # n => i \in Anchors /\ chain'[i] = chain[i]
      /\ n \in Anchors' => t.kind = "anchor"
  BY <1>1 DEF Anchors
<1>4. ASSUME NEW i \in Anchors', NEW m, NEW r,
             m = chain'[i].tree, r = chain'[i].ref, m # 0
      PROVE  /\ GoodTree(m, r)' /\ m < i
             /\ \A j \in Anchors' : chain'[j].tree = m => j = i
  <2>1. CASE i = n
    <3>1. GoodTree(m, r) /\ \A j \in Anchors : chain[j].tree # m
      BY <1>1, <1>3, <1>4, <2>1
    <3>2. GoodTree(m, r)' /\ m < n
      BY <1>2, <3>1
    <3> QED
      BY <1>3, <2>1, <3>1, <3>2
  <2>2. CASE i # n
    <3>1. /\ i \in Anchors /\ GoodTree(m, r) /\ m < i
          /\ \A j \in Anchors : chain[j].tree = m => j = i
      BY <1>3, <1>4, <2>2 DEF ChainTrees
    <3>2. n \in Anchors' => t.tree # m
      BY <1>3, <1>4, <2>2, <3>1
    <3>3. GoodTree(m, r)'
      BY <1>2, <3>1
    <3> QED
      BY <1>1, <1>3, <3>1, <3>2, <3>3
  <2> QED
    BY <2>1, <2>2
<1> QED
  BY <1>4 DEF ChainTrees, GoodTree

\* An anchor that lands late takes its batch from limbo to the chain.
LEMMA LandTrees ==
  ASSUME TypeOK, TreeInv, NEW t \in limbo, Land(t)
  PROVE  TreeInv'
<1>1. t \in Tx /\ chain' = Append(chain, t) /\ limbo' = limbo \ {t} /\ UNCHANGED procVars
  BY DEF Land, TypeOK
<1>2. ChainTrees'
  BY <1>1, AnchorJoins DEF TreeInv, LimboTrees
<1>3. PICK n : /\ n = NewTxid /\ n \notin DOMAIN chain
               /\ DOMAIN chain' = DOMAIN chain \cup {n}
               /\ \A i \in DOMAIN chain : chain'[i] = chain[i]
               /\ chain'[n] = t
  BY <1>1, AppendFacts DEF TypeOK
<1>4. /\ \A i \in Anchors' : i # n => i \in Anchors /\ chain'[i] = chain[i]
      /\ n \in Anchors' => t.kind = "anchor"
  BY <1>3 DEF Anchors
<1>5. \A m, r : GoodTree(m, r) => GoodTree(m, r)'
  BY <1>1, TreesGrow DEF TypeOK
<1>6. LimboTrees'
  <2> SUFFICES ASSUME NEW l \in limbo', l.kind = "anchor", l.tree # 0
               PROVE  /\ GoodTree(l.tree, l.ref)'
                      /\ \A i \in Anchors' : chain'[i].tree # l.tree
                      /\ \A u \in limbo' : u.kind = "anchor" /\ u.tree = l.tree => u = l
    BY DEF LimboTrees
  <2>1. /\ GoodTree(l.tree, l.ref) /\ l # t /\ l \in limbo
        /\ \A i \in Anchors : chain[i].tree # l.tree
        /\ \A u \in limbo : u.kind = "anchor" /\ u.tree = l.tree => u = l
    BY <1>1 DEF TreeInv, LimboTrees
  <2>2. GoodTree(l.tree, l.ref)'
    BY <1>5, <2>1
  <2>3. \A i \in Anchors' : chain'[i].tree # l.tree
    BY <1>3, <1>4, <2>1
  <2> QED
    BY <1>1, <2>1, <2>2, <2>3
<1>7. ProcTrees'
  <2>1. \A p \in Procs : pc[p] = "anchor" /\ tree[p] # 0 =>
          \A i \in Anchors' : chain'[i].tree # tree[p]
    BY <1>3, <1>4 DEF TreeInv, ProcTrees
  <2>2. ASSUME NEW p \in Procs, pc[p] = "anchor", tree[p] # 0
        PROVE  GoodTree(tree[p], cur[p])'
    <3>1. PICK m, r : m = tree[p] /\ r = cur[p]
      OBVIOUS
    <3>2. GoodTree(m, r)'
      BY <1>5, <2>2, <3>1 DEF TreeInv, ProcTrees
    <3> QED
      BY <1>1, <3>1, <3>2 DEF procVars
  <2> QED
    BY <1>1, <2>1, <2>2 DEF TreeInv, ProcTrees, procVars
<1> QED
  BY <1>2, <1>6, <1>7 DEF TreeInv

\* A batch and the anchor that names it, broadcast with any outcome.
LEMMA PayTrees ==
  ASSUME TypeOK, TreeInv, NEW p \in Procs, NEW u \in UTXO, NEW a \in Nat, Pays(p, u, a)
  PROVE  TreeInv'
<1>1. ASSUME PushNodesFails(p, u, a) PROVE TreeInv'
  <2>1. /\ chain' = chain /\ limbo' \subseteq limbo \cup {NodesTx(p, u, a)}
        /\ Record(p, cur[p], "error")
    BY <1>1 DEF PushNodesFails, TxFails, BroadcastError
  <2>2. \A t \in limbo' : t.kind = "anchor" => t \in limbo
    BY <2>1 DEF NodesTx
  <2>3. TreeMove(p) /\ pc'[p] = "loop"
    BY <2>1, RecordMoves
  <2>4. ChainTrees' /\ LimboTrees'
    BY <2>1, <2>2 DEF TreeInv, ChainTrees, LimboTrees, GoodTree, Anchors
  <2>5. ProcTrees'
    BY <2>1, <2>2, <2>3 DEF TreeInv, ProcTrees, GoodTree, Anchors, TreeMove
  <2> QED
    BY <2>4, <2>5 DEF TreeInv
<1>2. ASSUME PushAnchorFails(p, u, a) PROVE TreeInv'
  <2>1. PICK t : t = AnchorTx(p, u, a)
    BY SMTT(60)
  <2>2. /\ chain' = chain /\ limbo' \subseteq limbo \cup {t}
        /\ Record(p, cur[p], "error") /\ pc[p] = "anchor"
        /\ t.kind = "anchor" /\ t.tree = tree[p] /\ t.ref = cur[p]
    BY <1>2, <2>1 DEF PushAnchorFails, TxFails, BroadcastError, AnchorTx, At
  <2>3. TreeMove(p) /\ pc'[p] = "loop"
    BY <2>2, RecordMoves
  <2>4. ChainTrees'
    BY <2>2 DEF TreeInv, ChainTrees, GoodTree, Anchors
  <2>5. t.tree # 0 =>
          /\ GoodTree(t.tree, t.ref)
          /\ \A i \in Anchors : chain[i].tree # t.tree
          /\ \A l \in limbo : l.kind = "anchor" => l.tree # t.tree
          /\ \A q \in Procs : pc[q] = "anchor" /\ tree[q] = t.tree => q = p
    BY <2>2 DEF TreeInv, ProcTrees
  <2>6. LimboTrees'
    BY <2>2, <2>5 DEF TreeInv, LimboTrees, GoodTree, Anchors
  <2>7. ProcTrees'
    BY <2>2, <2>3, <2>5, SMTT(60) DEF TreeInv, ProcTrees, GoodTree, Anchors, TreeMove
  <2> QED
    BY <2>4, <2>6, <2>7 DEF TreeInv
<1>3. ASSUME PushAnchorOk(p, u, a) PROVE TreeInv'
  <2>1. PICK t : t = AnchorTx(p, u, a)
    OBVIOUS
  <2>2. /\ chain' = Append(chain, t) /\ limbo' = limbo /\ tree' = tree /\ cur' = cur
        /\ pc[p] = "anchor" /\ pc' = [pc EXCEPT ![p] = "save"]
        /\ t.kind = "anchor" /\ t.tree = tree[p] /\ t.ref = cur[p]
    BY <1>3, <2>1 DEF PushAnchorOk, TxAccepted, AnchorTx, At, Goto
  <2>3. t \in Tx
    BY <2>1, <2>2, TxTypes DEF TypeOK
  <2>4. t.tree # 0 =>
          /\ GoodTree(t.tree, t.ref)
          /\ \A i \in Anchors : chain[i].tree # t.tree
          /\ \A l \in limbo : l.kind = "anchor" => l.tree # t.tree
          /\ \A q \in Procs : pc[q] = "anchor" /\ tree[q] = t.tree => q = p
    BY <2>2 DEF TreeInv, ProcTrees
  <2>5. ChainTrees'
    BY <2>2, <2>3, <2>4, AnchorJoins DEF TreeInv
  <2>6. PICK n : /\ n \notin DOMAIN chain
                 /\ DOMAIN chain' = DOMAIN chain \cup {n}
                 /\ \A i \in DOMAIN chain : chain'[i] = chain[i]
                 /\ chain'[n] = t
    BY <2>2, <2>3, AppendFacts DEF TypeOK
  <2>7. \A i \in Anchors' : i # n => i \in Anchors /\ chain'[i] = chain[i]
    BY <2>6 DEF Anchors
  <2>8. \A m, r : GoodTree(m, r) => GoodTree(m, r)'
    BY <2>2, <2>3, TreesGrow DEF TypeOK
  <2>9. LimboTrees'
    <3> SUFFICES ASSUME NEW l \in limbo, l.kind = "anchor", l.tree # 0
                 PROVE  /\ GoodTree(l.tree, l.ref)'
                        /\ \A i \in Anchors' : chain'[i].tree # l.tree
                        /\ \A v \in limbo : v.kind = "anchor" /\ v.tree = l.tree => v = l
      BY <2>2 DEF LimboTrees
    <3>1. /\ GoodTree(l.tree, l.ref)
          /\ \A i \in Anchors : chain[i].tree # l.tree
          /\ \A v \in limbo : v.kind = "anchor" /\ v.tree = l.tree => v = l
      BY DEF TreeInv, LimboTrees
    <3>2. GoodTree(l.tree, l.ref)'
      BY <2>8, <3>1
    <3>3. t.tree # l.tree
      BY <2>4
    <3> QED
      BY <2>6, <2>7, <3>1, <3>2, <3>3
  <2>10. ProcTrees'
    <3>1. ASSUME NEW q \in Procs, pc'[q] = "anchor", tree[q] # 0
          PROVE  /\ GoodTree(tree[q], cur[q])'
                 /\ \A i \in Anchors' : chain'[i].tree # tree[q]
      <4>1. PICK m, r : m = tree[q] /\ r = cur[q]
        OBVIOUS
      <4>2. q # p /\ pc[q] = "anchor"
        BY <2>2, <3>1 DEF TypeOK
      <4>3. GoodTree(m, r) /\ \A i \in Anchors : chain[i].tree # m
        BY <3>1, <4>1, <4>2 DEF TreeInv, ProcTrees
      <4>4. GoodTree(m, r)'
        BY <2>8, <4>3
      <4>5. t.tree # m
        BY <2>4, <3>1, <4>1, <4>2
      <4> QED
        BY <2>2, <2>6, <2>7, <4>1, <4>3, <4>4, <4>5
    <3> QED
      BY <2>2, <3>1 DEF TreeInv, ProcTrees, TypeOK
  <2> QED
    BY <2>5, <2>9, <2>10 DEF TreeInv
<1>4. ASSUME PushNodesOk(p, u, a) PROVE TreeInv'
  <2>1. PICK t, n : t = NodesTx(p, u, a) /\ n = NewTxid
    OBVIOUS
  <2>2. /\ chain' = Append(chain, t) /\ limbo' = limbo /\ cur' = cur
        /\ pc[p] = "nodes" /\ pc' = [pc EXCEPT ![p] = "anchor"]
        /\ tree' = [tree EXCEPT ![p] = n]
        /\ t.kind = "nodes" /\ t.tree = 0 /\ t.ref = cur[p]
    BY <1>4, <2>1 DEF PushNodesOk, TxAccepted, NodesTx, At, Goto
  <2>3. t \in Tx
    BY <2>1, <2>2, TxTypes DEF TypeOK
  <2>4. ChainTrees'
    BY <2>2, <2>3, AnchorJoins DEF TreeInv
  <2>5. /\ n \notin DOMAIN chain
        /\ DOMAIN chain' = DOMAIN chain \cup {n}
        /\ \A i \in DOMAIN chain : chain'[i] = chain[i]
        /\ chain'[n] = t
    BY <2>1, <2>2, <2>3, AppendFacts DEF TypeOK
  <2>6. Anchors' = Anchors /\ \A i \in Anchors : chain'[i] = chain[i]
    BY <2>2, <2>5 DEF Anchors
  <2>7. \A m, r : GoodTree(m, r) => GoodTree(m, r)' /\ m # n
    BY <2>1, <2>2, <2>3, TreesGrow DEF TypeOK
  <2>8. LimboTrees'
    BY <2>2, <2>6, <2>7, ZenonT(60) DEF TreeInv, LimboTrees
  <2>9. ProcTrees'
    <3>1. \A m : (\E r : GoodTree(m, r)) => m # n
      BY <2>7
    <3>2. \A i \in Anchors : chain[i].tree # 0 => chain[i].tree # n
      BY <3>1 DEF TreeInv, ChainTrees
    <3>3. \A l \in limbo : l.kind = "anchor" /\ l.tree # 0 => l.tree # n
      BY <3>1 DEF TreeInv, LimboTrees
    <3>4. \A q \in Procs : pc[q] = "anchor" /\ tree[q] # 0 => tree[q] # n
      BY <3>1 DEF TreeInv, ProcTrees
    <3>5. n # 0
      BY <2>1 DEF NewTxid, TypeOK
    <3>6. ASSUME NEW q \in Procs
          PROVE  /\ pc'[q] \notin {"anchor", "save"} => tree'[q] = 0
                 /\ pc'[q] = "anchor" /\ tree'[q] # 0 =>
                      /\ \A i \in Anchors : chain[i].tree # tree'[q]
                      /\ \A l \in limbo : l.kind = "anchor" => l.tree # tree'[q]
                      /\ \A v \in Procs : pc'[v] = "anchor" /\ tree'[v] = tree'[q] => v = q
      <4>1. CASE q = p
        BY <2>2, <3>2, <3>3, <3>4, <3>5, <4>1 DEF TypeOK
      <4>2. CASE q # p
        BY <2>2, <3>4, <4>2 DEF TypeOK, TreeInv, ProcTrees
      <4> QED
        BY <4>1, <4>2
    <3>7. ASSUME NEW q \in Procs, pc'[q] = "anchor", tree'[q] # 0,
                 NEW m, NEW r, m = tree'[q], r = cur'[q]
          PROVE  GoodTree(m, r)'
      <4>1. CASE q = p
        <5>1. m = n /\ r = cur[p]
          BY <2>2, <3>7, <4>1 DEF TypeOK
        <5> QED
          BY <2>2, <2>5, <5>1 DEF GoodTree
      <4>2. CASE q # p
        <5>1. pc[q] = "anchor" /\ m = tree[q] /\ r = cur[q] /\ m # 0
          BY <2>2, <3>7, <4>2 DEF TypeOK
        <5>2. GoodTree(m, r)
          BY <5>1 DEF TreeInv, ProcTrees
        <5> QED
          BY <2>7, <5>2
      <4> QED
        BY <4>1, <4>2
    <3>8. ASSUME NEW q \in Procs, pc'[q] = "anchor", tree'[q] # 0
          PROVE  /\ tree'[q] \in DOMAIN chain' /\ chain'[tree'[q]].kind = "nodes"
                 /\ chain'[tree'[q]].ref = cur'[q]
      BY <3>7, <3>8, Zenon DEF GoodTree
    <3>9. \A q \in Procs : pc'[q] = "anchor" /\ tree'[q] # 0 =>
            \A i \in Anchors' : chain'[i].tree # tree'[q]
      BY <2>6, <3>6
    <3> QED
      BY <2>2, <3>6, <3>8, <3>9 DEF ProcTrees, GoodTree
  <2> QED
    BY <2>4, <2>8, <2>9 DEF TreeInv
<1> QED
  BY <1>1, <1>2, <1>3, <1>4 DEF Pays

\* Every anchor names a batch of its own ref, and of its own push alone,
\* whatever fails between batch and anchor and whatever limbo lands.
THEOREM TreesEver == Spec => []TreeOfPush
<1>1. Init => TreeInv
  BY DEF Init, TreeInv, ChainTrees, LimboTrees, ProcTrees, Anchors
<1>2. ASSUME TypeOK, TreeInv, [Next]_vars PROVE TreeInv'
  <2>1. ASSUME NEW t \in limbo, Land(t) PROVE TreeInv'
    BY <1>2, <2>1, LandTrees
  <2>2. ASSUME NEW p \in Procs, LoadOk(p) \/ LoadFails(p) \/ Stop(p) PROVE TreeInv'
    <3>1. CASE Stop(p)
      <4>1. TreeMove(p) /\ chain' = chain /\ limbo' = limbo
        BY <1>2, <3>1 DEF Stop, Goto, TypeOK, TreeMove
      <4> QED
        BY <1>2, <4>1, TreeFrame
    <3>2. ASSUME NEW s, Load(p, s) PROVE TreeInv'
      <4>1. TreeMove(p) /\ chain' = chain /\ limbo' = limbo
        BY <1>2, <3>2 DEF Load, Goto, At, TypeOK, TreeMove, TreeInv, ProcTrees
      <4> QED
        BY <1>2, <4>1, TreeFrame
    <3> QED
      BY <2>2, <3>1, <3>2 DEF LoadOk, LoadFails
  <2>3. ASSUME NEW p \in Procs, Quiet(p) PROVE TreeInv'
    BY <1>2, <2>3, QuietTrees
  <2>4. ASSUME NEW p \in Procs, NEW u \in UTXO, NEW a \in Nat, Pays(p, u, a) PROVE TreeInv'
    BY <1>2, <2>4, PayTrees
  <2>5. CASE UNCHANGED vars
    BY <1>2, <2>5 DEF vars, procVars, TreeInv, ChainTrees, LimboTrees, ProcTrees,
                      GoodTree, Anchors
  <2> QED
    BY <1>2, <2>1, <2>2, <2>3, <2>4, <2>5, Steps
<1>3. TreeInv => TreeOfPush
  BY DEF TreeInv, ChainTrees, GoodTree, TreeOfPush
<1> QED
  BY <1>1, <1>2, <1>3, TypeCorrect, PTL DEF Spec

-----------------------------------------------------------------------------
(* Results.  An "ok" needs an anchor, which the step before Save provides;  *)
(* a ref whose commits modify files gets to its anchor only with a tree.   *)

Anchored(p, r) ==
  \E i \in mine[p] \cap Anchors :
    /\ chain[i].ref = r /\ mem[p].head[r].anchor = i
    /\ r \in files[p] => chain[i].tree # 0

OkOf(p) ==
  /\ \A r \in Refs : results[p][r] = "ok" => Anchored(p, r)
  /\ pc[p] = "idle" => \A r \in Refs : results[p][r] = "none"
  /\ pc[p] = "save" => Anchored(p, cur[p])
  /\ pc[p] = "anchor" /\ cur[p] \in files[p] => tree[p] # 0

OkInv == \A p \in Procs : OkOf(p)

\* The chain keeps what it holds.
Kept == \A i \in DOMAIN chain : i \in DOMAIN chain' /\ chain'[i] = chain[i]

\* What a process says of its refs and keeps for them.
SameOutcome(p) ==
  /\ results'[p] = results[p] /\ files'[p] = files[p] /\ mine'[p] = mine[p]
  /\ mem'[p].head = mem[p].head

SamePlace(p) == pc'[p] = pc[p] /\ cur'[p] = cur[p] /\ tree'[p] = tree[p]

\* The chain only ever grows at its end.
LEMMA KeptByAppend ==
  ASSUME TypeOK, chain' = chain \/ \E t \in Tx : chain' = Append(chain, t)
  PROVE  Kept
BY AppendFacts DEF TypeOK, Kept

\* An anchor goes on answering for its ref.
LEMMA AnchoredKept ==
  ASSUME Kept, NEW p, NEW r, Anchored(p, r), SameOutcome(p)
  PROVE  Anchored(p, r)'
BY DEF Kept, Anchored, SameOutcome, Anchors

\* A process that does not move keeps the grounds of its answers.
LEMMA OkOther ==
  ASSUME Kept, NEW p \in Procs, OkOf(p), SameOutcome(p), SamePlace(p)
  PROVE  OkOf(p)'
<1>1. \A r : Anchored(p, r) => Anchored(p, r)'
  BY AnchoredKept
<1>2. PICK c : c = cur[p] /\ c = cur'[p]
  BY DEF SamePlace
<1>3. pc'[p] = "save" => Anchored(p, c)'
  BY <1>1, <1>2 DEF OkOf, SamePlace
<1> QED
  BY <1>1, <1>2, <1>3 DEF OkOf, SameOutcome, SamePlace, Anchored

\* A result is recorded: "ok" only by a process that has come to Save.
LEMMA OkRecord ==
  ASSUME TypeOK, Kept, NEW p \in Procs, OkOf(p), NEW r \in Refs, NEW res,
         Record(p, r, res), res = "ok" => pc[p] = "save" /\ r = cur[p],
         files' = files, mine' = mine, mem'[p].head = mem[p].head
  PROVE  OkOf(p)'
<1>1. \A q : Anchored(p, q) => Anchored(p, q)'
  BY DEF Kept, Anchored, Anchors
<1>2. pc'[p] = "loop"
  BY DEF Record, Goto, TypeOK
<1>3. ASSUME NEW q \in Refs, results'[p][q] = "ok" PROVE Anchored(p, q)
  <2>1. results'[p] = [results[p] EXCEPT ![r] = res]
    BY DEF Record, TypeOK
  <2>2. CASE q = r
    BY <1>3, <2>1, <2>2 DEF TypeOK, OkOf
  <2>3. CASE q # r
    BY <1>3, <2>1, <2>3 DEF TypeOK, OkOf
  <2> QED
    BY <2>2, <2>3
<1> QED
  BY <1>1, <1>2, <1>3 DEF OkOf

\* A step of one process leaves the others as they are.
LEMMA OkStepOf ==
  ASSUME Kept, OkInv, NEW p \in Procs, OkOf(p)',
         \A q \in Procs \ {p} : SameOutcome(q) /\ SamePlace(q)
  PROVE  OkInv'
<1>1. ASSUME NEW q \in Procs \ {p} PROVE OkOf(q)'
  BY OkOther DEF OkInv
<1> QED
  BY <1>1 DEF OkInv

\* Steps without a broadcast keep the answers right.
LEMMA QuietOk ==
  ASSUME TypeOK, OkInv, NEW p \in Procs, Quiet(p)
  PROVE  OkInv'
<1>0. OkOf(p)
  BY DEF OkInv
<1>1. ASSUME NEW r \in Refs, NEW res, Record(p, r, res),
             res = "ok" => pc[p] = "save" /\ r = cur[p],
             UNCHANGED <<chain, mem, files, mine>>
      PROVE  OkInv'
  <2>1. Kept
    BY <1>1 DEF Kept
  <2>2. OkOf(p)'
    BY <1>0, <1>1, <2>1, OkRecord
  <2>3. \A q \in Procs \ {p} : SameOutcome(q) /\ SamePlace(q)
    BY <1>1 DEF Record, Goto, TypeOK, SameOutcome, SamePlace
  <2> QED
    BY <2>1, <2>2, <2>3, OkStepOf
<1>2. ASSUME NEW W, NEW F, Export(p, W, F) PROVE OkInv'
  <2>1. Kept /\ OkOf(p)'
    BY <1>2 DEF Export, Goto, TypeOK, Kept, OkOf
  <2>2. \A q \in Procs \ {p} : SameOutcome(q) /\ SamePlace(q)
    BY <1>2 DEF Export, Goto, TypeOK, SameOutcome, SamePlace
  <2> QED
    BY <2>1, <2>2, OkStepOf
<1>3. ASSUME NEW r \in Refs, PickRef(p, r) PROVE OkInv'
  <2>1. Kept /\ SameOutcome(p)
    BY <1>3 DEF PickRef, Kept, SameOutcome
  <2>2. \A q : Anchored(p, q) => Anchored(p, q)'
    BY <2>1, AnchoredKept
  <2>3. /\ pc'[p] \notin {"idle", "save"}
        /\ pc'[p] = "anchor" => cur'[p] \notin files'[p]
    BY <1>3 DEF PickRef, Goto, TypeOK
  <2>4. OkOf(p)'
    BY <1>0, <2>1, <2>2, <2>3 DEF OkOf, SameOutcome
  <2>5. \A q \in Procs \ {p} : SameOutcome(q) /\ SamePlace(q)
    BY <1>3 DEF PickRef, Goto, TypeOK, SameOutcome, SamePlace
  <2> QED
    BY <2>1, <2>4, <2>5, OkStepOf
<1>4. CASE Report(p)
  <2>1. Kept /\ SameOutcome(p)
    BY <1>4 DEF Report, Kept, SameOutcome
  <2>2. \A q : Anchored(p, q) => Anchored(p, q)'
    BY <2>1, AnchoredKept
  <2>3. pc'[p] = "ready"
    BY <1>4 DEF Report, Goto, TypeOK
  <2>4. OkOf(p)'
    BY <1>0, <2>1, <2>2, <2>3 DEF OkOf, SameOutcome
  <2>5. \A q \in Procs \ {p} : SameOutcome(q) /\ SamePlace(q)
    BY <1>4 DEF Report, Goto, TypeOK, SameOutcome, SamePlace
  <2> QED
    BY <2>1, <2>4, <2>5, OkStepOf
<1>5. ASSUME NEW r \in Refs, PrepareFails(p, r) PROVE OkInv'
  BY <1>1, <1>5 DEF PrepareFails
<1>6. ASSUME NEW s \in {"nodes", "anchor"}, NEW min, NoFeeUTXO(p, s, min) PROVE OkInv'
  BY <1>1, <1>6 DEF NoFeeUTXO, At, TypeOK
<1>7. CASE SaveOk(p) \/ SaveFails(p)
  BY <1>1, <1>7 DEF SaveOk, SaveFails, At, TypeOK
<1> QED
  BY <1>2, <1>3, <1>4, <1>5, <1>6, <1>7 DEF Quiet

\* A process comes to Save by an accepted anchor, and keeps what it answered.
LEMMA PayOk ==
  ASSUME TypeOK, OkInv, NEW p \in Procs, NEW u \in UTXO, NEW a \in Nat, Pays(p, u, a)
  PROVE  OkInv'
<1>0. OkOf(p)
  BY DEF OkInv
<1>1. ASSUME NEW t, TxFails(p, u, t), cur[p] \in Refs PROVE OkInv'
  <2>1. /\ Record(p, cur[p], "error") /\ chain' = chain /\ files' = files /\ mine' = mine
        /\ mem' = [mem EXCEPT ![p] = TakeFeeUTXO(@, u)]
    BY <1>1 DEF TxFails
  <2>2. Kept
    BY <2>1 DEF Kept
  <2>3. mem'[p].head = mem[p].head
    BY <2>1, StoreOperations DEF TypeOK
  <2>4. OkOf(p)'
    BY <1>0, <1>1, <2>1, <2>2, <2>3, OkRecord
  <2>5. \A q \in Procs \ {p} : SameOutcome(q) /\ SamePlace(q)
    BY <2>1 DEF Record, Goto, TypeOK, SameOutcome, SamePlace
  <2> QED
    BY <2>2, <2>4, <2>5, OkStepOf
<1>2. CASE PushNodesFails(p, u, a)
  BY <1>1, <1>2 DEF PushNodesFails, At, TypeOK
<1>3. CASE PushAnchorFails(p, u, a)
  BY <1>1, <1>3 DEF PushAnchorFails, At, TypeOK
<1>4. ASSUME PushNodesOk(p, u, a) PROVE OkInv'
  <2>1. PICK t, n : t = NodesTx(p, u, a) /\ n = NewTxid
    OBVIOUS
  <2>2. /\ chain' = Append(chain, t) /\ files' = files /\ cur' = cur /\ results' = results
        /\ mine' = [mine EXCEPT ![p] = @ \cup {n}]
        /\ pc[p] = "nodes" /\ pc' = [pc EXCEPT ![p] = "anchor"]
        /\ tree' = [tree EXCEPT ![p] = n]
        /\ mem' = [mem EXCEPT ![p] = AddFeeUTXOs(TakeFeeUTXO(@, u), Change(n, a))]
    BY <1>4, <2>1 DEF PushNodesOk, TxAccepted, At, Goto
  <2>3. t \in Tx /\ n \in Nat \ {0}
    BY <2>1, <2>2, TxTypes DEF TypeOK, NewTxid
  <2>4. Kept
    BY <2>2, <2>3, KeptByAppend
  <2>5. mem'[p].head = mem[p].head
    <3>1. Change(n, a) \in SUBSET UTXO /\ mem[p] \in State
      BY <2>3, OutputTypes DEF TypeOK
    <3>2. mem'[p] = AddFeeUTXOs(TakeFeeUTXO(mem[p], u), Change(n, a))
      BY <2>2 DEF TypeOK
    <3> QED
      BY <3>1, <3>2, PaidHeads
  <2>6. mine[p] \subseteq mine'[p]
    BY <2>2 DEF TypeOK
  <2>7. \A q : Anchored(p, q) => Anchored(p, q)'
    BY <2>2, <2>4, <2>5, <2>6 DEF Kept, Anchored, Anchors
  <2>8. pc'[p] = "anchor" /\ tree'[p] # 0
    BY <2>2, <2>3 DEF TypeOK
  <2>9. OkOf(p)'
    BY <1>0, <2>2, <2>7, <2>8 DEF OkOf
  <2>10. \A q \in Procs \ {p} : SameOutcome(q) /\ SamePlace(q)
    BY <2>2 DEF TypeOK, SameOutcome, SamePlace
  <2> QED
    BY <2>4, <2>9, <2>10, OkStepOf
<1>5. ASSUME PushAnchorOk(p, u, a) PROVE OkInv'
  <2>1. PICK t, n, r, h : /\ t = AnchorTx(p, u, a) /\ n = NewTxid /\ r = cur[p]
                          /\ h = [out |-> HeadOut(n), anchor |-> n]
    OBVIOUS
  <2>2. /\ chain' = Append(chain, t) /\ files' = files /\ cur' = cur /\ results' = results
        /\ mine' = [mine EXCEPT ![p] = @ \cup {n}] /\ tree' = tree
        /\ pc[p] = "anchor" /\ pc' = [pc EXCEPT ![p] = "save"]
        /\ mem' = [mem EXCEPT ![p] =
                     SetRefUTXO(AddFeeUTXOs(TakeFeeUTXO(@, u), Change(n, a)), r, h)]
        /\ t.kind = "anchor" /\ t.ref = r /\ t.tree = tree[p]
    BY <1>5, <2>1 DEF PushAnchorOk, TxAccepted, At, Goto, AnchorTx
  <2>3. t \in Tx /\ n \in Nat \ {0} /\ r \in Refs
    BY <2>1, <2>2, TxTypes DEF TypeOK, NewTxid
  <2>4. Kept
    BY <2>2, <2>3, KeptByAppend
  <2>5. n \in DOMAIN chain' /\ chain'[n] = t
    BY <2>1, <2>2, <2>3, AppendFacts DEF TypeOK
  <2>6. mem'[p].head = [mem[p].head EXCEPT ![r] = h] /\ h.anchor = n
    <3>1. Change(n, a) \in SUBSET UTXO /\ h \in RefUTXO /\ mem[p] \in State
      BY <2>1, <2>3, OutputTypes DEF RefUTXO, TypeOK
    <3>2. PICK s \in State : /\ s = AddFeeUTXOs(TakeFeeUTXO(mem[p], u), Change(n, a))
                             /\ s.head = mem[p].head
      BY <3>1, PaidHeads
    <3>3. SetRefUTXO(s, r, h).head = [s.head EXCEPT ![r] = h]
      BY <2>3, <3>1, StoreOperations
    <3>4. mem'[p] = SetRefUTXO(s, r, h)
      BY <2>2, <3>2 DEF TypeOK
    <3> QED
      BY <2>1, <3>2, <3>3, <3>4
  <2>7. mem[p].head \in [Refs -> RefUTXO \cup {None}]
    BY DEF TypeOK, State
  <2>8. Anchored(p, r)'
    <3>1. n \in mine'[p] /\ n \in Anchors'
      BY <2>2, <2>5 DEF TypeOK, Anchors
    <3>2. mem'[p].head[r].anchor = n
      BY <2>3, <2>6, <2>7
    <3>3. r \in files'[p] => chain'[n].tree # 0
      BY <1>0, <2>1, <2>2, <2>5 DEF OkOf
    <3> QED
      BY <2>2, <2>5, <3>1, <3>2, <3>3 DEF Anchored
  <2>9. \A q \in Refs : Anchored(p, q) => Anchored(p, q)'
    <3> SUFFICES ASSUME NEW q \in Refs, q # r, Anchored(p, q) PROVE Anchored(p, q)'
      BY <2>8
    <3>1. PICK i \in mine[p] \cap Anchors :
            /\ chain[i].ref = q /\ mem[p].head[q].anchor = i
            /\ q \in files[p] => chain[i].tree # 0
      BY DEF Anchored
    <3>2. i \in mine'[p] /\ i \in Anchors' /\ chain'[i] = chain[i]
      BY <2>2, <2>4, <3>1 DEF TypeOK, Kept, Anchors
    <3>3. mem'[p].head[q] = mem[p].head[q]
      BY <2>6, <2>7
    <3> QED
      BY <2>2, <3>1, <3>2, <3>3 DEF Anchored
  <2>10. pc'[p] = "save" /\ cur'[p] = r
    BY <2>1, <2>2 DEF TypeOK
  <2>11. OkOf(p)'
    <3>1. \A q \in Refs : results'[p][q] = "ok" => Anchored(p, q)'
      BY <1>0, <2>2, <2>9 DEF OkOf
    <3>2. Anchored(p, cur[p])'
      BY <2>8, <2>10 DEF Anchored
    <3> QED
      BY <2>10, <3>1, <3>2 DEF OkOf
  <2>12. \A q \in Procs \ {p} : SameOutcome(q) /\ SamePlace(q)
    BY <2>2 DEF TypeOK, SameOutcome, SamePlace
  <2> QED
    BY <2>4, <2>11, <2>12, OkStepOf
<1> QED
  BY <1>2, <1>3, <1>4, <1>5 DEF Pays

\* git is told "ok" only of a ref that this process has anchored, at the head
\* it keeps and with a tree if there are files, however the broadcasts and Save
\* of this and other refs end.
THEOREM OkEver == Spec => []OkIsAnchored
<1>1. Init => OkInv
  BY DEF Init, OkInv, OkOf
<1>2. ASSUME TypeOK, OkInv, [Next]_vars PROVE OkInv'
  <2>1. ASSUME Kept, \A q \in Procs : SameOutcome(q) /\ SamePlace(q) PROVE OkInv'
    BY <1>2, <2>1, OkOther DEF OkInv
  <2>2. ASSUME NEW t \in limbo, Land(t) PROVE OkInv'
    <3>1. Kept
      BY <1>2, <2>2, KeptByAppend DEF Land, TypeOK
    <3>2. \A q \in Procs : SameOutcome(q) /\ SamePlace(q)
      BY <2>2 DEF Land, procVars, SameOutcome, SamePlace
    <3> QED
      BY <2>1, <3>1, <3>2
  <2>3. ASSUME NEW p \in Procs, NEW s, Load(p, s) PROVE OkInv'
    <3>1. Kept
      BY <2>3 DEF Load, Kept
    <3>2. OkOf(p)'
      <4>1. pc'[p] = "ready" /\ \A r \in Refs : results'[p][r] = "none"
        BY <1>2, <2>3 DEF Load, At, Goto, TypeOK, OkInv, OkOf
      <4> QED
        BY <4>1 DEF OkOf
    <3>3. \A q \in Procs \ {p} : SameOutcome(q) /\ SamePlace(q)
      BY <1>2, <2>3 DEF Load, Goto, TypeOK, SameOutcome, SamePlace
    <3> QED
      BY <1>2, <3>1, <3>2, <3>3, OkStepOf
  <2>4. ASSUME NEW p \in Procs, Stop(p) PROVE OkInv'
    <3>1. Kept
      BY <2>4 DEF Stop, Kept
    <3>2. OkOf(p)'
      BY <1>2, <2>4 DEF Stop, Goto, TypeOK, OkOf
    <3>3. \A q \in Procs \ {p} : SameOutcome(q) /\ SamePlace(q)
      BY <1>2, <2>4 DEF Stop, Goto, TypeOK, SameOutcome, SamePlace
    <3> QED
      BY <1>2, <3>1, <3>2, <3>3, OkStepOf
  <2>5. CASE UNCHANGED vars
    BY <2>1, <2>5 DEF vars, procVars, Kept, SameOutcome, SamePlace
  <2> QED
    BY <1>2, <2>2, <2>3, <2>4, <2>5, QuietOk, PayOk, Steps DEF LoadOk, LoadFails
<1>3. OkInv => OkIsAnchored
  BY DEF OkInv, OkOf, Anchored, OkIsAnchored
<1> QED
  BY <1>1, <1>2, <1>3, TypeCorrect, PTL DEF Spec

-----------------------------------------------------------------------------
(* Fee pools.  No pool ever holds a branch head output, and no transaction  *)
(* spends an output of a later one: that is what keeps the head an anchor   *)
(* spends, and what was spent before, apart from the change that comes in. *)

Own(p) == base[p] \cup UNION {Change(i, chain[i].change) : i \in mine[p]}
Gone(p) == UNION {chain[i].ins : i \in mine[p]}

NoHead == {o \in UTXO : o.txid = 0 \/ o.vout # 1}

PoolOf(p) ==
  /\ mine[p] \subseteq DOMAIN chain /\ base[p] \subseteq NoHead
  /\ mem[p].fee \subseteq Own(p) \ Gone(p)
  /\ clean[p] => mem[p].fee = Own(p) \ Gone(p)

SpentLater == \A i \in DOMAIN chain : \A o \in chain[i].ins : o.txid < i

PoolInv ==
  /\ \A p \in Procs : PoolOf(p)
  /\ \A c \in Clones : disk[c].fee \subseteq NoHead
  /\ SpentLater

\* Change is not a head output, and new.
LEMMA ChangeFacts ==
  ASSUME NEW n \in Nat, NEW a \in Nat
  PROVE  Change(n, a) \subseteq NoHead /\ \A o \in Change(n, a) : o.txid = n
BY DEF Change, ChangeOut, NoHead, UTXO

\* The transactions of the chain are transactions.
LEMMA ChainTypes ==
  ASSUME TypeOK, NEW i \in DOMAIN chain
  PROVE  /\ i \in Nat \ {0} /\ chain[i].change \in Nat
         /\ \A o \in chain[i].ins : o.txid \in Nat
<1>1. i \in Nat \ {0} /\ chain[i] \in Tx
  BY DEF TypeOK
<1>2. chain[i].change \in Nat /\ chain[i].ins \subseteq UTXO
  BY <1>1 DEF Tx
<1> QED
  BY <1>1, <1>2 DEF UTXO

\* What a process owns has no head output.
LEMMA OwnNoHead ==
  ASSUME TypeOK, NEW p \in Procs, PoolOf(p)
  PROVE  Own(p) \subseteq NoHead /\ mem[p].fee \subseteq NoHead
<1>1. ASSUME NEW i \in mine[p] PROVE Change(i, chain[i].change) \subseteq NoHead
  <2>1. i \in Nat /\ chain[i].change \in Nat
    BY ChainTypes DEF PoolOf
  <2> QED
    BY <2>1, ChangeFacts
<1> QED
  BY <1>1 DEF PoolOf, Own

\* A transaction that the network accepts spends outputs of earlier ones.
LEMMA SpendsEarlier ==
  ASSUME TypeOK, NEW t, Acceptable(t)
  PROVE  \A o \in t.ins : o.txid < NewTxid
<1>1. ASSUME NEW o \in Outputs PROVE o.txid < NewTxid
  <2>1. Len(chain) \in Nat /\ DOMAIN chain = 1 .. Len(chain)
    BY DEF TypeOK
  <2>2. ASSUME NEW c \in Clones, o \in Wallet[c] PROVE o.txid = 0
    BY <2>2, PushAssumption
  <2>3. ASSUME NEW i \in Anchors, o = HeadOut(i) PROVE o.txid = i /\ i \in DOMAIN chain
    BY <2>3 DEF HeadOut, Anchors
  <2>4. ASSUME NEW i \in DOMAIN chain, o \in Change(i, chain[i].change)
        PROVE  o.txid = i
    BY <2>4 DEF Change, ChangeOut
  <2>5. \/ \E c \in Clones : o \in Wallet[c]
        \/ \E i \in Anchors : o = HeadOut(i)
        \/ \E i \in DOMAIN chain : o \in Change(i, chain[i].change)
    <3> DEFINE A == UNION {Wallet[c] : c \in Clones}
               B == {HeadOut(i) : i \in Anchors}
               C == UNION {Change(i, chain[i].change) : i \in DOMAIN chain}
    <3>1. Outputs = A \cup B \cup C
      BY DEF Outputs
    <3>2. o \in A => \E c \in Clones : o \in Wallet[c]
      OBVIOUS
    <3>3. o \in B => \E i \in Anchors : o = HeadOut(i)
      OBVIOUS
    <3>4. o \in C => \E i \in DOMAIN chain : o \in Change(i, chain[i].change)
      OBVIOUS
    <3> HIDE DEF A, B, C
    <3> QED
      BY <3>1, <3>2, <3>3, <3>4
  <2>6. o.txid = 0 \/ o.txid \in DOMAIN chain
    BY <2>2, <2>3, <2>4, <2>5
  <2> QED
    BY <2>1, <2>6 DEF NewTxid
<1> QED
  BY <1>1 DEF Acceptable

\* What a transaction spends is older than the transaction.
LEMMA SpentLaterStep ==
  ASSUME TypeOK, SpentLater, NEW t \in Tx, Acceptable(t), chain' = Append(chain, t)
  PROVE  SpentLater'
<1>1. PICK n : /\ n = NewTxid
               /\ DOMAIN chain' = DOMAIN chain \cup {n}
               /\ \A i \in DOMAIN chain : chain'[i] = chain[i]
               /\ chain'[n] = t
  BY AppendFacts DEF TypeOK
<1>2. \A o \in t.ins : o.txid < n
  BY <1>1, SpendsEarlier
<1> QED
  BY <1>1, <1>2 DEF SpentLater

\* What a process has and has spent stays while the chain grows.
LEMMA PoolKept ==
  ASSUME Kept, NEW p, PoolOf(p), mine'[p] = mine[p], base'[p] = base[p],
         mem'[p].fee \subseteq mem[p].fee,
         clean'[p] => clean[p] /\ mem'[p].fee = mem[p].fee
  PROVE  PoolOf(p)'
<1>1. Own(p)' = Own(p) /\ Gone(p)' = Gone(p)
  BY DEF Kept, Own, Gone, PoolOf
<1>2. mine'[p] \subseteq DOMAIN chain'
  BY DEF Kept, PoolOf
<1> QED
  BY <1>1, <1>2 DEF PoolOf

SamePool(p) ==
  mem'[p] = mem[p] /\ mine'[p] = mine[p] /\ base'[p] = base[p] /\ clean'[p] = clean[p]

\* A step of one process that leaves the pools of the others alone.
LEMMA PoolStepOf ==
  ASSUME Kept, SpentLater', \A q \in Procs : PoolOf(q),
         \A c \in Clones : disk'[c].fee \subseteq NoHead, NEW p \in Procs, PoolOf(p)',
         \A q \in Procs \ {p} : SamePool(q)
  PROVE  PoolInv'
<1>1. ASSUME NEW q \in Procs \ {p} PROVE PoolOf(q)'
  BY PoolKept DEF SamePool
<1> QED
  BY <1>1 DEF PoolInv

\* Steps without a broadcast keep the pools exact.
LEMMA QuietPool ==
  ASSUME TypeOK, PoolInv, NEW p \in Procs, Quiet(p)
  PROVE  PoolInv'
<1>1. ASSUME UNCHANGED <<chain, mem, mine, base, clean>>,
             \A c \in Clones : disk'[c].fee \subseteq NoHead
      PROVE  PoolInv'
  <2>1. Kept /\ SpentLater'
    BY <1>1 DEF Kept, PoolInv, SpentLater
  <2>2. PoolOf(p)'
    BY <1>1, <2>1, PoolKept DEF PoolInv
  <2> QED
    BY <1>1, <2>1, <2>2, PoolStepOf DEF PoolInv, SamePool
<1>2. CASE SaveOk(p)
  <2>1. mem[p].fee \subseteq NoHead
    BY OwnNoHead DEF PoolInv
  <2>2. disk' = [disk EXCEPT ![cloneOf[p]] = mem[p]]
    BY <1>2 DEF SaveOk
  <2>3. \A c \in Clones : disk'[c].fee \subseteq NoHead
    BY <2>1, <2>2 DEF PoolInv, TypeOK
  <2> QED
    BY <1>1, <1>2, <2>3 DEF SaveOk
<1> QED
  BY <1>1, <1>2
  DEF Quiet, Export, PickRef, PrepareFails, NoFeeUTXO, SaveFails, Report, PoolInv

\* A payment: the outputs that leave the pool are those that are spent.
LEMMA Payment ==
  ASSUME TypeOK, PoolInv, NEW p \in Procs, NEW t \in Tx, NEW u, NEW a \in Nat,
         TxAccepted(p, t), t.change = a, u \in t.ins, t.ins \cap NoHead \subseteq {u},
         mem'[p].fee = (mem[p].fee \ {u}) \cup Change(NewTxid, a),
         \A q \in Procs \ {p} : mem'[q] = mem[q],
         UNCHANGED <<disk, base, clean>>
  PROVE  PoolInv'
<1>1. PICK n : n = NewTxid
  OBVIOUS
<1>2. /\ chain' = Append(chain, t) /\ Acceptable(t)
      /\ mine' = [mine EXCEPT ![p] = @ \cup {n}]
  BY <1>1 DEF TxAccepted
<1>3. /\ n \in Nat \ {0} /\ n \notin DOMAIN chain
      /\ DOMAIN chain' = DOMAIN chain \cup {n}
      /\ \A i \in DOMAIN chain : i < n /\ chain'[i] = chain[i]
      /\ chain'[n] = t
  BY <1>1, <1>2, AppendFacts DEF TypeOK
<1>4. Kept /\ SpentLater'
  BY <1>2, KeptByAppend, SpentLaterStep DEF PoolInv
<1>5. PoolOf(p) /\ mine'[p] = mine[p] \cup {n}
  BY <1>2 DEF PoolInv, TypeOK
<1>6. Own(p)' = Own(p) \cup Change(n, a)
  BY <1>3, <1>5 DEF Own, PoolOf
<1>7. Gone(p)' = Gone(p) \cup t.ins
  BY <1>3, <1>5 DEF Gone, PoolOf
<1>8. \A o \in Gone(p) \cup t.ins : o \notin Change(n, a)
  <2>1. \A o \in t.ins : o.txid < n
    BY <1>1, <1>2, SpendsEarlier
  <2>2. ASSUME NEW i \in mine[p], NEW o \in chain[i].ins PROVE o.txid # n
    <3>1. i \in DOMAIN chain /\ i \in Nat /\ i < n /\ o.txid < i /\ o.txid \in Nat
      BY <1>3, <1>5, ChainTypes DEF PoolOf, PoolInv, SpentLater
    <3> QED
      BY <1>3, <3>1
  <2>3. \A o \in Change(n, a) : o.txid = n
    BY <1>3, ChangeFacts
  <2>4. \A o \in t.ins : o.txid # n
    BY <1>3, <2>1 DEF Tx, UTXO
  <2> QED
    BY <2>2, <2>3, <2>4 DEF Gone
<1>9. Own(p) \cap t.ins \subseteq {u}
  BY <1>5, OwnNoHead
<1>10. mine'[p] \subseteq DOMAIN chain' /\ base'[p] \subseteq NoHead
  BY <1>3, <1>5 DEF PoolOf
<1>11. mem'[p].fee \subseteq Own(p)' \ Gone(p)'
  BY <1>1, <1>5, <1>6, <1>7, <1>8, <1>9 DEF PoolOf
<1>12. clean[p] => mem'[p].fee = Own(p)' \ Gone(p)'
  BY <1>1, <1>5, <1>6, <1>7, <1>8, <1>9 DEF PoolOf
<1>13. PoolOf(p)'
  BY <1>10, <1>11, <1>12 DEF PoolOf
<1>14. \A q \in Procs \ {p} : SamePool(q)
  BY <1>2 DEF SamePool, TypeOK
<1> QED
  BY <1>4, <1>13, <1>14, PoolStepOf DEF PoolInv

\* A broadcast takes what it spends out of the pool, whatever its outcome.
LEMMA PayPool ==
  ASSUME BranchInv, PoolInv, NEW p \in Procs, NEW u \in UTXO, NEW a \in Nat,
         u \in mem[p].fee, Pays(p, u, a)
  PROVE  PoolInv'
<1>0. TypeOK
  BY DEF BranchInv
<1>1. ASSUME NEW t, TxFails(p, u, t) PROVE PoolInv'
  <2>1. /\ chain' = chain /\ disk' = disk /\ mine' = mine /\ base' = base
        /\ mem' = [mem EXCEPT ![p] = TakeFeeUTXO(@, u)]
        /\ clean' = [clean EXCEPT ![p] = FALSE]
    BY <1>1 DEF TxFails
  <2>2. Kept /\ SpentLater'
    BY <2>1 DEF Kept, PoolInv, SpentLater
  <2>3. mem'[p].fee = mem[p].fee \ {u} /\ ~clean'[p]
    BY <1>0, <2>1 DEF TypeOK, State, TakeFeeUTXO
  <2>4. PoolOf(p)'
    BY <2>1, <2>2, <2>3, PoolKept DEF PoolInv
  <2>5. \A q \in Procs \ {p} : SamePool(q)
    BY <1>0, <2>1 DEF SamePool, TypeOK
  <2> QED
    BY <2>1, <2>2, <2>4, <2>5, PoolStepOf DEF PoolInv
<1>2. ASSUME PushNodesOk(p, u, a) PROVE PoolInv'
  <2>1. PICK t, n : t = NodesTx(p, u, a) /\ n = NewTxid
    OBVIOUS
  <2>2. /\ TxAccepted(p, t) /\ UNCHANGED <<disk, base, clean>>
        /\ mem' = [mem EXCEPT ![p] = AddFeeUTXOs(TakeFeeUTXO(@, u), Change(n, a))]
        /\ t.change = a /\ t.ins = {u} /\ cur[p] \in Refs
    BY <1>0, <1>2, <2>1 DEF PushNodesOk, NodesTx, At, TypeOK
  <2>3. t \in Tx
    BY <1>0, <2>1, <2>2, TxTypes
  <2>4. mem'[p].fee = (mem[p].fee \ {u}) \cup Change(n, a)
    BY <1>0, <2>2 DEF TypeOK, State, AddFeeUTXOs, TakeFeeUTXO
  <2>5. \A q \in Procs \ {p} : mem'[q] = mem[q]
    BY <1>0, <2>2 DEF TypeOK
  <2> QED
    BY <1>0, <2>1, <2>2, <2>3, <2>4, <2>5, Payment
<1>3. ASSUME PushAnchorOk(p, u, a) PROVE PoolInv'
  <2>1. PICK t, n, r, h, known :
          /\ t = AnchorTx(p, u, a) /\ n = NewTxid /\ r = cur[p]
          /\ h = [out |-> HeadOut(n), anchor |-> n] /\ known = mem[p].head[r]
    OBVIOUS
  <2>2. /\ TxAccepted(p, t) /\ UNCHANGED <<disk, base, clean>>
        /\ mem' = [mem EXCEPT ![p] =
                     SetRefUTXO(AddFeeUTXOs(TakeFeeUTXO(@, u), Change(n, a)), r, h)]
        /\ t.change = a /\ r \in Refs
        /\ t.ins = {u} \cup (IF known = None THEN {} ELSE {known.out})
    BY <1>0, <1>3, <2>1 DEF PushAnchorOk, AnchorTx, At, TypeOK
  <2>3. t \in Tx
    BY <1>0, <2>1, <2>2, TxTypes
  <2>4. known # None => known.out \notin NoHead
    <3>1. ValidHead(r, known)
      BY <2>1, <2>2 DEF BranchInv, HeadsOnChain
    <3>2. known # None => \E i \in Anchors : known.out = HeadOut(i)
      BY <3>1 DEF ValidHead
    <3>3. ASSUME NEW i \in Anchors PROVE HeadOut(i) \notin NoHead
      <4>1. i # 0
        BY <1>0, ChainTypes DEF Anchors
      <4>2. HeadOut(i).txid = i /\ HeadOut(i).vout = 1
        BY DEF HeadOut
      <4> QED
        BY <4>1, <4>2 DEF NoHead
    <3> QED
      BY <3>2, <3>3
  <2>5. mem'[p].fee = (mem[p].fee \ {u}) \cup Change(n, a)
    <3>1. PICK s : s = AddFeeUTXOs(TakeFeeUTXO(mem[p], u), Change(n, a))
      OBVIOUS
    <3>2. s.fee = (mem[p].fee \ {u}) \cup Change(n, a)
      BY <1>0, <3>1 DEF TypeOK, State, AddFeeUTXOs, TakeFeeUTXO
    <3>3. Change(n, a) \in SUBSET UTXO
      BY <1>0, <2>1, OutputTypes DEF TypeOK, NewTxid
    <3>4. s \in State
      BY <1>0, <3>1, <3>3, PaidHeads DEF TypeOK
    <3>5. SetRefUTXO(s, r, h).fee = s.fee
      BY <3>4 DEF SetRefUTXO, State
    <3>6. mem'[p] = SetRefUTXO(s, r, h)
      BY <1>0, <2>2, <3>1 DEF TypeOK
    <3> QED
      BY <3>2, <3>5, <3>6
  <2>6. \A q \in Procs \ {p} : mem'[q] = mem[q]
    BY <1>0, <2>2 DEF TypeOK
  <2>7. u \in t.ins /\ t.ins \cap NoHead \subseteq {u}
    BY <2>2, <2>4
  <2> QED
    BY <1>0, <2>1, <2>2, <2>3, <2>5, <2>6, <2>7, Payment
<1> QED
  BY <1>1, <1>2, <1>3 DEF Pays, PushNodesFails, PushAnchorFails

\* The pool of a process is what it loaded and the change of its transactions
\* without what those spent, as long as none of them failed, and never more:
\* AllocateFeeUTXO never offers an output twice.
THEOREM FeePoolEver == Spec => []FeePoolExact
<1>1. Init => PoolInv
  <2> SUFFICES ASSUME Init PROVE PoolInv
    OBVIOUS
  <2>1. /\ DOMAIN chain = {}
        /\ \A p \in Procs : mem[p].fee = {} /\ mine[p] = {} /\ base[p] = {}
        /\ \A c \in Clones : disk[c].fee = Wallet[c]
    <3>1. \A c \in Clones : disk[c] = [EmptyState EXCEPT !.fee = Wallet[c]]
      BY DEF Init
    <3>2. \A c \in Clones : disk[c].fee = Wallet[c]
      BY <3>1 DEF EmptyState
    <3>3. \A p \in Procs : mem[p] = EmptyState /\ mine[p] = {} /\ base[p] = {}
      BY DEF Init
    <3>4. \A p \in Procs : mem[p].fee = {}
      BY <3>3 DEF EmptyState
    <3>5. DOMAIN chain = {}
      BY DEF Init
    <3> QED
      BY <3>2, <3>3, <3>4, <3>5
  <2>2. \A c \in Clones : Wallet[c] \subseteq NoHead
    BY PushAssumption DEF NoHead, UTXO
  <2> QED
    BY <2>1, <2>2 DEF PoolInv, PoolOf, Own, Gone, SpentLater
<1>2. ASSUME BranchInv, PoolInv, [Next]_vars PROVE PoolInv'
  <2>0. TypeOK
    BY <1>2 DEF BranchInv
  <2>1. ASSUME Kept, SpentLater', disk' = disk, \A q \in Procs : SamePool(q)
        PROVE  PoolInv'
    BY <1>2, <2>1, PoolKept DEF PoolInv, SamePool
  <2>2. ASSUME NEW t \in limbo, Land(t) PROVE PoolInv'
    <3>1. t \in Tx /\ Acceptable(t) /\ chain' = Append(chain, t)
      BY <2>0, <2>2 DEF Land, TypeOK
    <3>2. Kept /\ SpentLater'
      BY <1>2, <2>0, <3>1, KeptByAppend, SpentLaterStep DEF PoolInv
    <3>3. disk' = disk /\ \A q \in Procs : SamePool(q)
      BY <2>2 DEF Land, procVars, SamePool
    <3> QED
      BY <2>1, <3>2, <3>3
  <2>3. ASSUME NEW p \in Procs, NEW s \in State, Load(p, s), s.fee \subseteq NoHead
        PROVE  PoolInv'
    <3>1. Kept /\ SpentLater' /\ disk' = disk
      BY <1>2, <2>3 DEF Load, Kept, PoolInv, SpentLater
    <3>2. mine'[p] = {} /\ base'[p] = s.fee /\ mem'[p].fee = s.fee
      BY <2>0, <2>3 DEF Load, TypeOK
    <3>3. PoolOf(p)'
      BY <2>3, <3>2 DEF PoolOf, Own, Gone
    <3>4. \A q \in Procs \ {p} : SamePool(q)
      BY <2>0, <2>3 DEF Load, TypeOK, SamePool
    <3> QED
      BY <1>2, <3>1, <3>3, <3>4, PoolStepOf DEF PoolInv
  <2>4. ASSUME NEW p \in Procs, LoadOk(p) \/ LoadFails(p) PROVE PoolInv'
    <3>1. /\ disk[cloneOf[p]] \in State /\ disk[cloneOf[p]].fee \subseteq NoHead
          /\ EmptyState \in State /\ EmptyState.fee = {}
      BY <1>2, <2>0, PushAssumption, EmptyStateType DEF TypeOK, PoolInv, EmptyState
    <3> QED
      BY <2>3, <2>4, <3>1 DEF LoadOk, LoadFails
  <2>5. ASSUME NEW p \in Procs, Stop(p) PROVE PoolInv'
    <3>1. Kept /\ SpentLater' /\ disk' = disk
      BY <1>2, <2>5 DEF Stop, Kept, PoolInv, SpentLater
    <3>2. mine'[p] = {} /\ base'[p] = {} /\ mem'[p].fee = {}
      BY <2>0, <2>5 DEF Stop, TypeOK, EmptyState
    <3>3. PoolOf(p)'
      BY <3>2 DEF PoolOf, Own, Gone
    <3>4. \A q \in Procs \ {p} : SamePool(q)
      BY <2>0, <2>5 DEF Stop, TypeOK, SamePool
    <3> QED
      BY <1>2, <3>1, <3>3, <3>4, PoolStepOf DEF PoolInv
  <2>6. CASE UNCHANGED vars
    BY <1>2, <2>1, <2>6 DEF vars, procVars, Kept, SamePool, PoolInv, SpentLater
  <2> QED
    BY <1>2, <2>0, <2>2, <2>4, <2>5, <2>6, QuietPool, PayPool, Steps
<1>3. PoolInv => FeePoolExact
  BY DEF PoolInv, PoolOf, Own, Gone, FeePoolExact
<1> QED
  BY <1>1, <1>2, <1>3, BranchInvariant, PTL DEF Spec
==============================================================================
