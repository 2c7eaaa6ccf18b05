----------------------------- MODULE PushProofs -----------------------------
(***************************************************************************)
(* Proofs about Push for any number of clones, processes, refs and coins.  *)
(***************************************************************************)
EXTENDS Push, Recursion

-----------------------------------------------------------------------------
(* Operators.                                                              *)

\* Appending keeps what the chain holds and gives its end to the new one.
LEMMA AppendFacts ==
  ASSUME chain \in Seq(Tx), NEW t \in Tx, chain' = Append(chain, t)
  PROVE  /\ chain' \in Seq(Tx)
         /\ NewTxid \in Nat \ {0}
         /\ NewTxid \notin DOMAIN chain
         /\ DOMAIN chain' = DOMAIN chain \cup {NewTxid}
         /\ \A i \in DOMAIN chain : i \in Nat /\ i < NewTxid /\ chain'[i] = chain[i]
         /\ chain'[NewTxid] = t
BY DEF NewTxid

\* The outputs of a transaction are outputs.
LEMMA OutputTypes ==
  ASSUME NEW n \in Nat, NEW a \in Nat
  PROVE  HeadOut(n) \in UTXO /\ Change(n, a) \subseteq UTXO
BY DEF HeadOut, Change, ChangeOut, UTXO, DustLimit

LEMMA EmptyStateType == EmptyState \in State
BY DEF EmptyState, State

\* What AllocateFeeUTXO may return is in the pool.
LEMMA CandidateInPool ==
  ASSUME NEW s \in State, NEW min, NEW u \in FeeCandidates(s, min)
  PROVE  u \in s.fee /\ u \in UTXO /\ u.amount \in Nat
BY DEF FeeCandidates, State, UTXO

\* The store operations keep a store a store, and only SetRefUTXO touches the
\* branch heads, one of them.
LEMMA StoreOperations ==
  ASSUME NEW s \in State
  PROVE  /\ \A u : /\ TakeFeeUTXO(s, u) \in State
                   /\ TakeFeeUTXO(s, u).head = s.head
         /\ \A us \in SUBSET UTXO : /\ AddFeeUTXOs(s, us) \in State
                                    /\ AddFeeUTXOs(s, us).head = s.head
         /\ \A r \in Refs, h \in RefUTXO :
              /\ SetRefUTXO(s, r, h) \in State
              /\ SetRefUTXO(s, r, h).head = [s.head EXCEPT ![r] = h]
BY DEF TakeFeeUTXO, AddFeeUTXOs, SetRefUTXO, State

-----------------------------------------------------------------------------
(* Types.                                                                  *)

\* The transactions of pushRef are transactions.
LEMMA TxTypes ==
  ASSUME TypeOK, NEW p \in Procs, cur[p] \in Refs, NEW u \in UTXO, NEW a \in Nat
  PROVE  NodesTx(p, u, a) \in Tx /\ AnchorTx(p, u, a) \in Tx
<1>1. NodesTx(p, u, a) \in Tx
  BY DEF NodesTx, Tx
<1>2. AnchorTx(p, u, a) \in Tx
  <2> DEFINE known == mem[p].head[cur[p]]
  <2>1. known \in RefUTXO \cup {None}
    BY DEF TypeOK, State
  <2>2. CASE known = None
    BY <2>2 DEF AnchorTx, Tx, TypeOK
  <2>3. CASE known \in RefUTXO
    <3>1. known # None
      BY <2>3, NoneAssumption
    <3>2. known.out \in UTXO /\ known.anchor \in Nat
      BY <2>3 DEF RefUTXO
    <3> QED
      BY <3>1, <3>2 DEF AnchorTx, Tx, TypeOK
  <2> QED
    BY <2>1, <2>2, <2>3
<1> QED
  BY <1>1, <1>2

LEMMA RecordTypes ==
  ASSUME TypeOK, NEW p \in Procs, NEW r \in Refs, NEW res \in Results,
         Record(p, r, res)
  PROVE  /\ pc' \in [Procs -> PCs]
         /\ todo' \in [Procs -> SUBSET Refs]
         /\ cur' \in [Procs -> Refs \cup {None}]
         /\ \A q \in Procs : pc'[q] \in {"nodes", "anchor", "save"} => cur'[q] \in Refs
         /\ tree' \in [Procs -> Nat]
         /\ results' \in [Procs -> [Refs -> Results]]
BY DEF Record, TypeOK, Goto, PCs

LEMMA LoadTypes ==
  ASSUME TypeOK, NEW p \in Procs, NEW s \in State, Load(p, s)
  PROVE  TypeOK'
BY DEF Load, TypeOK, Goto, At, PCs, State

LEMMA TxFailsTypes ==
  ASSUME TypeOK, NEW p \in Procs, cur[p] \in Refs, NEW u \in UTXO, NEW t \in Tx,
         TxFails(p, u, t)
  PROVE  TypeOK'
<1>1. mem' \in [Procs -> State]
  BY StoreOperations DEF TxFails, TypeOK
<1>2. limbo' \subseteq Tx
  BY DEF TxFails, BroadcastError, TypeOK
<1>3. clean' \in [Procs -> BOOLEAN]
  BY DEF TxFails, TypeOK
<1>4. Record(p, cur[p], "error") /\ "error" \in Results
  BY DEF TxFails, Results
<1> QED
  BY <1>1, <1>2, <1>3, <1>4, RecordTypes DEF TypeOK, TxFails

\* Type correctness is kept by every step.
LEMMA TypeStep == TypeOK /\ [Next]_vars => TypeOK'
<1> SUFFICES ASSUME TypeOK, [Next]_vars PROVE TypeOK'
  OBVIOUS
<1>1. ASSUME NEW t \in limbo, Land(t) PROVE TypeOK'
  BY <1>1, AppendFacts DEF Land, TypeOK, procVars
<1>2. ASSUME NEW p \in Procs, LoadOk(p) \/ LoadFails(p) PROVE TypeOK'
  <2>1. disk[cloneOf[p]] \in State /\ EmptyState \in State
    BY PushAssumption, EmptyStateType DEF TypeOK
  <2> QED
    BY <1>2, <2>1, LoadTypes DEF LoadOk, LoadFails
<1>3. ASSUME NEW p \in Procs, NEW W \in SUBSET Refs, NEW F \in SUBSET W,
             Export(p, W, F)
      PROVE  TypeOK'
  BY <1>3 DEF Export, TypeOK, Goto, PCs, Results
<1>4. ASSUME NEW p \in Procs, NEW r \in Refs, PickRef(p, r) PROVE TypeOK'
  BY <1>4 DEF PickRef, TypeOK, Goto, PCs
<1>5. ASSUME NEW p \in Procs, NEW r \in Refs, PrepareFails(p, r) PROVE TypeOK'
  <2>1. Record(p, r, "error") /\ "error" \in Results
    BY <1>5 DEF PrepareFails, Results
  <2> QED
    BY <1>5, <2>1, RecordTypes DEF PrepareFails, TypeOK
<1>6. ASSUME NEW p \in Procs, NEW s \in {"nodes", "anchor"}, NEW min,
             NoFeeUTXO(p, s, min)
      PROVE  TypeOK'
  <2>1. Record(p, cur[p], "error") /\ "error" \in Results /\ cur[p] \in Refs
    BY <1>6 DEF NoFeeUTXO, Results, At, TypeOK
  <2> QED
    BY <1>6, <2>1, RecordTypes DEF NoFeeUTXO, TypeOK
<1>7. ASSUME NEW p \in Procs, PushNodes(p) PROVE TypeOK'
  <2>1. ASSUME NEW u \in FeeCandidates(mem[p], NodeFeeMin), NEW a \in 0 .. u.amount,
               PushNodesOk(p, u, a) \/ PushNodesFails(p, u, a)
        PROVE  TypeOK'
    <3>1. u \in UTXO /\ u.amount \in Nat /\ a \in Nat /\ cur[p] \in Refs
      BY <2>1, CandidateInPool DEF TypeOK, PushNodesOk, PushNodesFails, At
    <3>2. NodesTx(p, u, a) \in Tx
      BY <3>1, TxTypes
    <3>3. CASE PushNodesFails(p, u, a)
      BY <3>1, <3>2, <3>3, TxFailsTypes DEF PushNodesFails
    <3>4. CASE PushNodesOk(p, u, a)
      <4>1. chain' \in Seq(Tx) /\ NewTxid \in Nat
        BY <3>2, <3>4, AppendFacts DEF PushNodesOk, TxAccepted, TypeOK
      <4>2. mem' \in [Procs -> State]
        BY <3>1, <3>4, <4>1, StoreOperations, OutputTypes DEF PushNodesOk, TypeOK
      <4> QED
        BY <3>1, <3>4, <4>1, <4>2 DEF PushNodesOk, TxAccepted, TypeOK, Goto, PCs
    <3> QED
      BY <2>1, <3>3, <3>4
  <2> QED
    BY <1>6, <1>7, <2>1 DEF PushNodes
<1>8. ASSUME NEW p \in Procs, PushAnchor(p) PROVE TypeOK'
  <2>1. ASSUME NEW u \in FeeCandidates(mem[p], AnchorFeeMin),
               NEW a \in 0 .. u.amount,
               PushAnchorOk(p, u, a) \/ PushAnchorFails(p, u, a)
        PROVE  TypeOK'
    <3>1. u \in UTXO /\ u.amount \in Nat /\ a \in Nat /\ cur[p] \in Refs
      BY <2>1, CandidateInPool DEF TypeOK, PushAnchorOk, PushAnchorFails, At
    <3>2. AnchorTx(p, u, a) \in Tx
      BY <3>1, TxTypes
    <3>3. CASE PushAnchorFails(p, u, a)
      BY <3>1, <3>2, <3>3, TxFailsTypes DEF PushAnchorFails
    <3>4. CASE PushAnchorOk(p, u, a)
      <4>1. chain' \in Seq(Tx) /\ NewTxid \in Nat
        BY <3>2, <3>4, AppendFacts DEF PushAnchorOk, TxAccepted, TypeOK
      <4>2. [out |-> HeadOut(NewTxid), anchor |-> NewTxid] \in RefUTXO
        BY <4>1, OutputTypes DEF RefUTXO
      <4>3. mem' \in [Procs -> State]
        BY <3>1, <3>4, <4>1, <4>2, StoreOperations, OutputTypes
        DEF PushAnchorOk, TypeOK
      <4> QED
        BY <3>1, <3>4, <4>1, <4>3 DEF PushAnchorOk, TxAccepted, TypeOK, Goto, PCs
    <3> QED
      BY <2>1, <3>3, <3>4
  <2> QED
    BY <1>6, <1>8, <2>1 DEF PushAnchor
<1>9. ASSUME NEW p \in Procs, SaveOk(p) \/ SaveFails(p) PROVE TypeOK'
  <2>1. Record(p, cur[p], "ok") /\ "ok" \in Results /\ cur[p] \in Refs
    BY <1>9 DEF SaveOk, SaveFails, Results, At, TypeOK
  <2> QED
    BY <1>9, <2>1, RecordTypes DEF SaveOk, SaveFails, TypeOK
<1>10. ASSUME NEW p \in Procs, Report(p) PROVE TypeOK'
  BY <1>10 DEF Report, TypeOK, Goto, PCs
<1>11. ASSUME NEW p \in Procs, Stop(p) PROVE TypeOK'
  BY <1>11, EmptyStateType DEF Stop, TypeOK, Goto, PCs, Results
<1>12. CASE UNCHANGED vars
  BY <1>12 DEF vars, procVars, TypeOK
<1> QED
  BY <1>1, <1>2, <1>3, <1>4, <1>5, <1>7, <1>8, <1>9, <1>10, <1>11, <1>12
  DEF Next, Work

LEMMA TypeInit == Init => TypeOK
<1> SUFFICES ASSUME Init PROVE TypeOK
  OBVIOUS
<1>1. \A c \in Clones : Wallet[c] \subseteq UTXO
  BY PushAssumption DEF UTXO
<1>2. disk \in [Clones -> State]
  BY <1>1 DEF Init, EmptyState, State
<1> QED
  BY <1>2, EmptyStateType DEF Init, TypeOK, PCs, Results

\* Every variable of Push keeps its type.
THEOREM TypeCorrect == Spec => []TypeOK
BY TypeInit, TypeStep, PTL DEF Spec

-----------------------------------------------------------------------------
(* The inductive invariant.  NoFork alone is not inductive: it follows from *)
(* two facts, that an anchor spends the head output of the parent it names *)
(* and that no output is spent twice.  The first holds because a store     *)
(* keeps the head output and the txid of one and the same anchor, and it   *)
(* must hold of the transactions in limbo as well.                         *)

SpendsParent(t) ==
  t.kind = "anchor" /\ t.parent # 0 =>
    /\ t.parent \in Anchors
    /\ chain[t.parent].ref = t.ref
    /\ HeadOut(t.parent) \in t.ins

LimboSpendsParent == \A t \in limbo : SpendsParent(t)

ChainSpendsParent ==
  \A i \in Anchors : /\ SpendsParent(chain[i])
                     /\ chain[i].parent # 0 => chain[i].parent < i

SpentOnce ==
  \A i, j \in DOMAIN chain : i # j => chain[i].ins \cap chain[j].ins = {}

BranchInv ==
  /\ TypeOK /\ HeadsOnChain /\ LimboSpendsParent /\ ChainSpendsParent
  /\ SpentOnce /\ DOMAIN chain \subseteq TxIds

\* The chain only grows, by transactions the network accepts.
Grows(t) ==
  t \in Tx /\ Acceptable(t) /\ SpendsParent(t) /\ chain' = Append(chain, t)

\* The transaction that pushRef builds spends the parent it names.
LEMMA BuildsOnHead ==
  ASSUME TypeOK, HeadsOnChain, NEW p \in Procs, cur[p] \in Refs,
         NEW u, NEW a
  PROVE  SpendsParent(NodesTx(p, u, a)) /\ SpendsParent(AnchorTx(p, u, a))
<1>1. SpendsParent(NodesTx(p, u, a))
  BY DEF SpendsParent, NodesTx
<1>2. ASSUME mem[p].head[cur[p]] # None PROVE SpendsParent(AnchorTx(p, u, a))
  <2>1. PICK i \in Anchors :
          /\ chain[i].ref = cur[p]
          /\ mem[p].head[cur[p]] = [out |-> HeadOut(i), anchor |-> i]
    BY <1>2 DEF HeadsOnChain, ValidHead
  <2> QED
    BY <1>2, <2>1 DEF SpendsParent, AnchorTx
<1>3. ASSUME mem[p].head[cur[p]] = None PROVE SpendsParent(AnchorTx(p, u, a))
  BY <1>3 DEF SpendsParent, AnchorTx
<1> QED
  BY <1>1, <1>2, <1>3

\* What a step does to the chain and to the transactions in limbo.
LEMMA ChainStep ==
  ASSUME BranchInv, [Next]_vars
  PROVE  /\ chain' = chain \/ \E t : Grows(t)
         /\ \A t \in limbo' : SpendsParent(t)
<1> USE DEF BranchInv
<1>1. ASSUME NEW t \in limbo, Land(t)
      PROVE  Grows(t) /\ \A l \in limbo' : SpendsParent(l)
  BY <1>1 DEF Land, Grows, TypeOK, LimboSpendsParent
<1>2. ASSUME chain' = chain, limbo' = limbo
      PROVE  chain' = chain /\ \A l \in limbo' : SpendsParent(l)
  BY <1>2 DEF LimboSpendsParent
<1>3. ASSUME NEW p \in Procs, NEW u, NEW t, SpendsParent(t), TxFails(p, u, t)
      PROVE  chain' = chain /\ \A l \in limbo' : SpendsParent(l)
  BY <1>3 DEF TxFails, BroadcastError, LimboSpendsParent
<1>4. ASSUME NEW p \in Procs, PushNodes(p)
      PROVE  /\ chain' = chain \/ \E t : Grows(t)
             /\ \A l \in limbo' : SpendsParent(l)
  <2>1. CASE NoFeeUTXO(p, "nodes", NodeFeeMin)
    BY <2>1, <1>2 DEF NoFeeUTXO
  <2>2. ASSUME NEW u \in FeeCandidates(mem[p], NodeFeeMin), NEW a \in 0 .. u.amount,
               PushNodesOk(p, u, a) \/ PushNodesFails(p, u, a)
        PROVE  /\ chain' = chain \/ \E t : Grows(t)
               /\ \A l \in limbo' : SpendsParent(l)
    <3>1. u \in UTXO /\ a \in Nat /\ cur[p] \in Refs
      BY <2>2, CandidateInPool DEF TypeOK, PushNodesOk, PushNodesFails, At
    <3>2. NodesTx(p, u, a) \in Tx /\ SpendsParent(NodesTx(p, u, a))
      BY <3>1, TxTypes, BuildsOnHead
    <3>3. CASE PushNodesFails(p, u, a)
      BY <3>2, <3>3, <1>3 DEF PushNodesFails
    <3>4. CASE PushNodesOk(p, u, a)
      <4>1. Grows(NodesTx(p, u, a)) /\ limbo' = limbo
        BY <3>2, <3>4 DEF PushNodesOk, TxAccepted, Grows
      <4> QED
        BY <4>1 DEF LimboSpendsParent
    <3> QED
      BY <2>2, <3>3, <3>4
  <2> QED
    BY <1>4, <2>1, <2>2 DEF PushNodes
<1>5. ASSUME NEW p \in Procs, PushAnchor(p)
      PROVE  /\ chain' = chain \/ \E t : Grows(t)
             /\ \A l \in limbo' : SpendsParent(l)
  <2>1. CASE NoFeeUTXO(p, "anchor", AnchorFeeMin)
    BY <2>1, <1>2 DEF NoFeeUTXO
  <2>2. ASSUME NEW u \in FeeCandidates(mem[p], AnchorFeeMin),
               NEW a \in 0 .. u.amount,
               PushAnchorOk(p, u, a) \/ PushAnchorFails(p, u, a)
        PROVE  /\ chain' = chain \/ \E t : Grows(t)
               /\ \A l \in limbo' : SpendsParent(l)
    <3>1. u \in UTXO /\ a \in Nat /\ cur[p] \in Refs
      BY <2>2, CandidateInPool DEF TypeOK, PushAnchorOk, PushAnchorFails, At
    <3>2. AnchorTx(p, u, a) \in Tx /\ SpendsParent(AnchorTx(p, u, a))
      BY <3>1, TxTypes, BuildsOnHead
    <3>3. CASE PushAnchorFails(p, u, a)
      BY <3>2, <3>3, <1>3 DEF PushAnchorFails
    <3>4. CASE PushAnchorOk(p, u, a)
      <4>1. Grows(AnchorTx(p, u, a)) /\ limbo' = limbo
        BY <3>2, <3>4 DEF PushAnchorOk, TxAccepted, Grows
      <4> QED
        BY <4>1 DEF LimboSpendsParent
    <3> QED
      BY <2>2, <3>3, <3>4
  <2> QED
    BY <1>5, <2>1, <2>2 DEF PushAnchor
<1>6. ASSUME NEW p \in Procs, LoadOk(p) \/ LoadFails(p)
      PROVE  chain' = chain /\ limbo' = limbo
  BY <1>6 DEF LoadOk, LoadFails, Load
<1>7. ASSUME NEW p \in Procs, NEW W, NEW F, Export(p, W, F)
      PROVE  chain' = chain /\ limbo' = limbo
  BY <1>7 DEF Export
<1>8. ASSUME NEW p \in Procs, NEW r, PickRef(p, r) \/ PrepareFails(p, r)
      PROVE  chain' = chain /\ limbo' = limbo
  BY <1>8 DEF PickRef, PrepareFails
<1>9. ASSUME NEW p \in Procs, SaveOk(p) \/ SaveFails(p) \/ Report(p) \/ Stop(p)
      PROVE  chain' = chain /\ limbo' = limbo
  BY <1>9 DEF SaveOk, SaveFails, Report, Stop
<1>10. CASE UNCHANGED vars
  BY <1>2, <1>10 DEF vars
<1> QED
  BY <1>1, <1>2, <1>4, <1>5, <1>6, <1>7, <1>8, <1>9, <1>10 DEF Next, Work

\* What holds of the chain goes on holding as it grows.
LEMMA Monotone ==
  ASSUME TypeOK, chain' = chain \/ \E t : Grows(t)
  PROVE  /\ \A i \in Anchors : i \in Anchors' /\ chain'[i] = chain[i]
         /\ \A t : SpendsParent(t) => SpendsParent(t)'
         /\ \A r, h : ValidHead(r, h) => ValidHead(r, h)'
<1>1. \A i \in DOMAIN chain : i \in DOMAIN chain' /\ chain'[i] = chain[i]
  BY AppendFacts DEF Grows, TypeOK
<1>2. \A i \in Anchors : i \in Anchors' /\ chain'[i] = chain[i]
  BY <1>1 DEF Anchors
<1>3. \A t : SpendsParent(t) => SpendsParent(t)'
  BY <1>2 DEF SpendsParent
<1>4. \A r, h : ValidHead(r, h) => ValidHead(r, h)'
  BY <1>2 DEF ValidHead
<1> QED
  BY <1>2, <1>3, <1>4

\* What a transaction joining the chain leaves true of the chain.
LEMMA ChainInvStep ==
  ASSUME BranchInv, chain' = chain \/ \E t : Grows(t)
  PROVE  ChainSpendsParent' /\ SpentOnce' /\ (DOMAIN chain \subseteq TxIds)'
<1> USE DEF BranchInv
<1>1. CASE chain' = chain
  BY <1>1 DEF ChainSpendsParent, SpentOnce, Anchors, SpendsParent
<1>2. ASSUME NEW t, Grows(t)
      PROVE  ChainSpendsParent' /\ SpentOnce' /\ (DOMAIN chain \subseteq TxIds)'
  <2>1. PICK n : /\ n = NewTxid
                 /\ n \notin DOMAIN chain
                 /\ DOMAIN chain' = DOMAIN chain \cup {n}
                 /\ \A i \in DOMAIN chain :
                      i \in Nat /\ i < n /\ chain'[i] = chain[i]
                 /\ chain'[n] = t
    BY <1>2, AppendFacts DEF Grows, TypeOK
  <2>2. \A s : SpendsParent(s) => SpendsParent(s)'
    BY <1>2, Monotone
  <2>3. \A i \in Anchors' : i \in Anchors \/ i = n
    BY <2>1 DEF Anchors
  <2>4. ASSUME NEW i \in Anchors
        PROVE  SpendsParent(chain[i])' /\ (chain[i].parent # 0 => chain[i].parent < i)'
    <3>1. chain'[i] = chain[i]
      BY <2>1 DEF Anchors
    <3>2. /\ SpendsParent(chain[i])
          /\ chain[i].parent # 0 => chain[i].parent < i
      BY DEF ChainSpendsParent
    <3> QED
      BY <2>2, <3>1, <3>2 DEF SpendsParent
  <2>5. ASSUME n \in Anchors'
        PROVE  SpendsParent(chain[n])' /\ (chain[n].parent # 0 => chain[n].parent < n)'
    <3>1. t.kind = "anchor" /\ SpendsParent(t) /\ SpendsParent(t)'
      BY <1>2, <2>1, <2>2, <2>5 DEF Grows, Anchors
    <3>2. t.parent # 0 => t.parent < n
      BY <2>1, <3>1 DEF SpendsParent, Anchors
    <3> QED
      BY <2>1, <3>1, <3>2 DEF SpendsParent
  <2>6. ChainSpendsParent'
    BY <2>3, <2>4, <2>5 DEF ChainSpendsParent
  <2>7. \A i \in DOMAIN chain : t.ins \cap chain[i].ins = {}
    BY <1>2 DEF Grows, Acceptable, Spent
  <2>8. SpentOnce'
    BY <2>1, <2>7 DEF SpentOnce
  <2>9. (DOMAIN chain \subseteq TxIds)'
    BY <1>2, <2>1 DEF Grows, Acceptable
  <2> QED
    BY <2>6, <2>8, <2>9
<1> QED
  BY <1>1, <1>2

\* Paying for a transaction leaves the heads of the store alone.
LEMMA PaidHeads ==
  ASSUME NEW s \in State, NEW u, NEW us \in SUBSET UTXO
  PROVE  /\ AddFeeUTXOs(TakeFeeUTXO(s, u), us) \in State
         /\ AddFeeUTXOs(TakeFeeUTXO(s, u), us).head = s.head
<1>1. TakeFeeUTXO(s, u) \in State /\ TakeFeeUTXO(s, u).head = s.head
  BY StoreOperations
<1> QED
  BY <1>1, StoreOperations

\* The heads that a step puts into a store, or moves between memory and disk,
\* are heads of accepted anchors.
LEMMA HeadsStep ==
  ASSUME BranchInv, [Next]_vars, TypeOK', chain' = chain \/ \E t : Grows(t)
  PROVE  HeadsOnChain'
<1> USE DEF BranchInv
<1>1. \A r, h : ValidHead(r, h) => ValidHead(r, h)'
  BY Monotone
<1> DEFINE Diskwise == \A c \in Clones, r \in Refs : disk'[c].head[r] = disk[c].head[r]
           Memwise == \A p \in Procs, r \in Refs : mem'[p].head[r] = mem[p].head[r]
<1>2. ASSUME Diskwise, Memwise PROVE HeadsOnChain'
  BY <1>1, <1>2 DEF HeadsOnChain
<1> HIDE DEF Diskwise, Memwise
<1>3. ASSUME NEW p \in Procs, NEW u, NEW t, TxFails(p, u, t) PROVE HeadsOnChain'
  BY <1>2, <1>3, StoreOperations DEF TxFails, TypeOK, Diskwise, Memwise
<1>4. ASSUME NEW p \in Procs, NEW s \in State, Load(p, s),
             \A r \in Refs : ValidHead(r, s.head[r])
      PROVE  HeadsOnChain'
  BY <1>1, <1>4 DEF Load, HeadsOnChain, TypeOK
<1>5. ASSUME NEW p \in Procs, PushNodes(p) PROVE HeadsOnChain'
  <2>1. CASE NoFeeUTXO(p, "nodes", NodeFeeMin)
    BY <1>2, <2>1 DEF NoFeeUTXO, Diskwise, Memwise
  <2>2. ASSUME NEW u \in FeeCandidates(mem[p], NodeFeeMin),
               NEW a \in 0 .. u.amount, PushNodesOk(p, u, a)
        PROVE  HeadsOnChain'
    <3>1. u \in UTXO /\ a \in Nat /\ NewTxid \in Nat
      BY <2>2, CandidateInPool DEF TypeOK, NewTxid
    <3>2. Change(NewTxid, a) \in SUBSET UTXO
      BY <3>1, OutputTypes
    <3>3. mem'[p].head = mem[p].head
      <4>1. mem'[p] = AddFeeUTXOs(TakeFeeUTXO(mem[p], u), Change(NewTxid, a))
        BY <2>2 DEF PushNodesOk, TypeOK
      <4>2. mem[p] \in State
        BY DEF TypeOK
      <4> QED
        BY <3>2, <4>1, <4>2, PaidHeads
    <3>4. Memwise
      BY <2>2, <3>3 DEF PushNodesOk, TypeOK, Memwise
    <3> QED
      BY <1>2, <2>2, <3>4 DEF PushNodesOk, Diskwise
  <2> QED
    BY <1>3, <1>5, <2>1, <2>2 DEF PushNodes, PushNodesFails
<1>6. ASSUME NEW p \in Procs, PushAnchor(p) PROVE HeadsOnChain'
  <2>1. CASE NoFeeUTXO(p, "anchor", AnchorFeeMin)
    BY <1>2, <2>1 DEF NoFeeUTXO, Diskwise, Memwise
  <2>2. ASSUME NEW u \in FeeCandidates(mem[p], AnchorFeeMin),
               NEW a \in 0 .. u.amount, PushAnchorOk(p, u, a)
        PROVE  HeadsOnChain'
    <3>1. PICK n, ref : n = NewTxid /\ ref = cur[p]
      OBVIOUS
    <3> DEFINE h == [out |-> HeadOut(n), anchor |-> n]
    <3>2. u \in UTXO /\ a \in Nat /\ n \in Nat /\ ref \in Refs
      BY <2>2, <3>1, CandidateInPool DEF TypeOK, NewTxid, PushAnchorOk, At
    <3>3. Change(n, a) \in SUBSET UTXO /\ h \in RefUTXO
      BY <3>2, OutputTypes DEF RefUTXO
    <3>4. ValidHead(ref, h)'
      <4>1. AnchorTx(p, u, a) \in Tx /\ AnchorTx(p, u, a).kind = "anchor"
            /\ AnchorTx(p, u, a).ref = ref
        BY <3>1, <3>2, TxTypes DEF AnchorTx
      <4>2. n \in DOMAIN chain' /\ chain'[n] = AnchorTx(p, u, a)
        BY <2>2, <3>1, <4>1, AppendFacts DEF PushAnchorOk, TxAccepted, TypeOK
      <4> QED
        BY <4>1, <4>2 DEF ValidHead, Anchors
    <3>5. mem'[p].head = [mem[p].head EXCEPT ![ref] = h]
      <4>1. PICK s \in State : /\ s = AddFeeUTXOs(TakeFeeUTXO(mem[p], u), Change(n, a))
                               /\ s.head = mem[p].head
        BY <3>3, PaidHeads DEF TypeOK
      <4>2. SetRefUTXO(s, ref, h).head = [s.head EXCEPT ![ref] = h]
        BY <3>2, <3>3, StoreOperations
      <4>3. mem'[p] = SetRefUTXO(s, ref, h)
        BY <2>2, <3>1, <4>1 DEF PushAnchorOk, TypeOK
      <4> QED
        BY <4>1, <4>2, <4>3
    <3>6. ASSUME NEW q \in Procs, NEW r \in Refs
          PROVE  \/ mem'[q].head[r] = mem[q].head[r]
                 \/ r = ref /\ mem'[q].head[r] = h
      <4>1. mem[p].head \in [Refs -> RefUTXO \cup {None}]
        BY DEF TypeOK, State
      <4>2. q # p => mem'[q] = mem[q]
        BY <2>2 DEF PushAnchorOk, TypeOK
      <4> HIDE DEF h
      <4> QED
        BY <3>5, <4>1, <4>2
    <3>7. disk' = disk
      BY <2>2 DEF PushAnchorOk
    <3> HIDE DEF h
    <3> QED
      BY <1>1, <3>4, <3>6, <3>7 DEF HeadsOnChain
  <2> QED
    BY <1>3, <1>6, <2>1, <2>2 DEF PushAnchor, PushAnchorFails
<1>7. ASSUME NEW p \in Procs, LoadOk(p) PROVE HeadsOnChain'
  BY <1>4, <1>7, PushAssumption DEF LoadOk, TypeOK, HeadsOnChain
<1>8. ASSUME NEW p \in Procs, LoadFails(p) PROVE HeadsOnChain'
  BY <1>4, <1>8, EmptyStateType DEF LoadFails, EmptyState, ValidHead
<1>9. ASSUME NEW p \in Procs, NEW W, NEW F, Export(p, W, F) PROVE HeadsOnChain'
  BY <1>2, <1>9 DEF Export, Diskwise, Memwise
<1>10. ASSUME NEW p \in Procs, NEW r, PickRef(p, r) \/ PrepareFails(p, r)
       PROVE  HeadsOnChain'
  BY <1>2, <1>10 DEF PickRef, PrepareFails, Diskwise, Memwise
<1>11. ASSUME NEW p \in Procs, SaveOk(p) PROVE HeadsOnChain'
  BY <1>1, <1>11 DEF SaveOk, HeadsOnChain, TypeOK
<1>12. ASSUME NEW p \in Procs, SaveFails(p) \/ Report(p) PROVE HeadsOnChain'
  BY <1>2, <1>12 DEF SaveFails, Report, Diskwise, Memwise
<1>13. ASSUME NEW p \in Procs, Stop(p) PROVE HeadsOnChain'
  <2>1. ASSUME NEW q \in Procs, NEW r \in Refs
        PROVE  mem'[q].head[r] = mem[q].head[r] \/ mem'[q].head[r] = None
    BY <1>13 DEF Stop, TypeOK, EmptyState
  <2>2. \A r : ValidHead(r, None)'
    BY DEF ValidHead
  <2> QED
    BY <1>1, <1>13, <2>1, <2>2 DEF Stop, HeadsOnChain
<1>14. ASSUME NEW t \in limbo, Land(t) PROVE HeadsOnChain'
  BY <1>2, <1>14 DEF Land, procVars, Diskwise, Memwise
<1>15. CASE UNCHANGED vars
  BY <1>2, <1>15 DEF vars, procVars, Diskwise, Memwise
<1> QED
  BY <1>5, <1>6, <1>7, <1>8, <1>9, <1>10, <1>11, <1>12, <1>13, <1>14, <1>15
  DEF Next, Work

LEMMA BranchInvStep == BranchInv /\ [Next]_vars => BranchInv'
<1> SUFFICES ASSUME BranchInv, [Next]_vars PROVE BranchInv'
  OBVIOUS
<1>1. TypeOK'
  BY TypeStep DEF BranchInv
<1>2. /\ chain' = chain \/ \E t : Grows(t)
      /\ \A t \in limbo' : SpendsParent(t)
  BY ChainStep
<1>3. LimboSpendsParent'
  BY <1>2, Monotone DEF LimboSpendsParent, BranchInv
<1> QED
  BY <1>1, <1>2, <1>3, ChainInvStep, HeadsStep DEF BranchInv

\* The invariant holds at first.
LEMMA BranchInvInit == Init => BranchInv
<1> SUFFICES ASSUME Init PROVE BranchInv
  OBVIOUS
<1>1. DOMAIN chain = {} /\ limbo = {}
  BY DEF Init
<1>2. HeadsOnChain
  BY DEF Init, HeadsOnChain, ValidHead, EmptyState
<1> QED
  BY <1>1, <1>2, TypeInit
  DEF BranchInv, LimboSpendsParent, ChainSpendsParent, SpentOnce, Anchors

\* The branch invariant holds always.
THEOREM BranchInvariant == Spec => []BranchInv
BY BranchInvInit, BranchInvStep, PTL DEF Spec

-----------------------------------------------------------------------------
(* What follows.                                                           *)

\* No anchor is ever continued twice, whatever races, fails, crashes or is
\* answered late.
THEOREM NoForkEver == Spec => []NoFork
<1>1. ASSUME BranchInv PROVE NoFork
  <2> SUFFICES ASSUME NEW i \in Anchors, NEW j \in Anchors,
                      chain[i].parent = chain[j].parent, chain[i].parent # 0
               PROVE  i = j
    BY DEF NoFork
  <2>1. /\ HeadOut(chain[i].parent) \in chain[i].ins
        /\ HeadOut(chain[i].parent) \in chain[j].ins
    BY <1>1 DEF BranchInv, ChainSpendsParent, SpendsParent, Anchors
  <2>2. i \in DOMAIN chain /\ j \in DOMAIN chain
    BY DEF Anchors
  <2> QED
    BY <1>1, <2>1, <2>2 DEF BranchInv, SpentOnce
<1> QED
  BY <1>1, BranchInvariant, PTL

\* The ancestry of every anchor stays on its ref and leads to earlier anchors.
THEOREM AncestryEver == Spec => []AncestryOfRef
<1>1. ASSUME BranchInv PROVE AncestryOfRef
  BY <1>1
  DEF BranchInv, ChainSpendsParent, SpendsParent, AncestryOfRef, Anchors
<1> QED
  BY <1>1, BranchInvariant, PTL

\* Every head in a store belongs to an accepted anchor of its ref, together
\* with that anchor's txid.
THEOREM HeadsEver == Spec => []HeadsOnChain
BY BranchInvariant, PTL DEF BranchInv

\* The anchors on the chain are a RefLog: every step publishes one anchor, as
\* the first of a history or after the newest of one, or publishes nothing.
THEOREM ImplementsRefLog == Spec => Publishes
<1> DEFINE anchorsOf ==
      {[id |-> i, ref |-> chain[i].ref, parent |-> chain[i].parent] : i \in Anchors}
<1>1. Init => Log!Init
  BY DEF Init, Log!Init, Anchors
<1>2. ASSUME BranchInv, [Next]_vars PROVE [Log!Next]_anchorsOf
  <2>1. chain' = chain \/ \E t : Grows(t)
    BY <1>2, ChainStep
  <2>2. CASE chain' = chain
    BY <2>2 DEF Anchors
  <2>3. ASSUME NEW t, Grows(t) PROVE [Log!Next]_anchorsOf
    <3>1. PICK n : /\ n = NewTxid
                   /\ n \notin DOMAIN chain
                   /\ DOMAIN chain' = DOMAIN chain \cup {n}
                   /\ \A i \in DOMAIN chain :
                        i \in Nat /\ i < n /\ chain'[i] = chain[i]
                   /\ chain'[n] = t
      BY <1>2, <2>3, AppendFacts DEF Grows, BranchInv, TypeOK
    <3>2. CASE t.kind # "anchor"
      <4>1. Anchors' = Anchors
        BY <3>1, <3>2 DEF Anchors
      <4>2. \A i \in Anchors : chain'[i] = chain[i]
        BY <3>1 DEF Anchors
      <4> QED
        BY <4>1, <4>2
    <3>3. CASE t.kind = "anchor"
      <4> DEFINE new == [id |-> n, ref |-> t.ref, parent |-> t.parent]
      <4>1. Anchors' = Anchors \cup {n}
        BY <3>1, <3>3 DEF Anchors
      <4>2. \A i \in Anchors : chain'[i] = chain[i]
        BY <3>1 DEF Anchors
      <4>3. anchorsOf' = anchorsOf \cup {new}
        BY <3>1, <4>1, <4>2
      <4>4. \A a \in anchorsOf : a.id < n
        BY <3>1 DEF Anchors
      <4>5. t.ref \in Refs /\ n \in TxIds
        BY <2>3, <3>1 DEF Grows, Tx, Acceptable
      <4>6. t.parent \in {0} \cup {a.id : a \in Log!Tips(t.ref)}
        <5>1. CASE t.parent = 0
          BY <5>1
        <5>2. CASE t.parent # 0
          <6> DEFINE m == t.parent
                     tip == [id |-> m, ref |-> chain[m].ref,
                             parent |-> chain[m].parent]
          <6>1. m \in Anchors /\ chain[m].ref = t.ref /\ HeadOut(m) \in t.ins
            BY <2>3, <3>3, <5>2 DEF Grows, SpendsParent
          <6>2. tip \in anchorsOf /\ tip.ref = t.ref
            BY <6>1
          <6>3. ASSUME NEW i \in Anchors PROVE chain[i].parent # m
            <7>1. HeadOut(m) \notin chain[i].ins
              BY <2>3, <6>1 DEF Grows, Acceptable, Spent, Anchors
            <7> QED
              BY <1>2, <5>2, <7>1
              DEF BranchInv, ChainSpendsParent, SpendsParent, Anchors
          <6>4. tip \in Log!Tips(t.ref)
            BY <6>2, <6>3 DEF Log!Tips
          <6> QED
            BY <6>4
        <5> QED
          BY <5>1, <5>2
      <4>7. t.parent \in TxIds \cup {0}
        BY <1>2, <2>3, <3>3 DEF Grows, SpendsParent, BranchInv, Anchors
      <4> QED
        BY <4>3, <4>4, <4>5, <4>6, <4>7 DEF Log!Next, Log!Publish
    <3> QED
      BY <3>2, <3>3
  <2> QED
    BY <2>1, <2>2, <2>3
<1> QED
  BY <1>1, <1>2, BranchInvariant, PTL DEF Spec, Publishes, Log!Spec

-----------------------------------------------------------------------------
(* Ancestry.  The recursion of Ancestors ends because a parent is an       *)
(* earlier transaction, which of a batch has to be said as well.           *)

ParentEarlier(ch) == \A i \in DOMAIN ch : ch[i].parent < i

AncestorsOf(ch) ==
  CHOOSE f : f = [n \in 0 .. Len(ch) |-> IF n = 0 THEN {} ELSE {n} \cup f[ch[n].parent]]

\* Ancestors is a function that goes from each transaction to its parent.
LEMMA AncestorsFacts ==
  ASSUME NEW ch \in Seq(Tx), ParentEarlier(ch)
  PROVE  /\ AncestorsOf(ch)[0] = {}
         /\ \A n \in DOMAIN ch : AncestorsOf(ch)[n] = {n} \cup AncestorsOf(ch)[ch[n].parent]
<1>1. PICK N \in Nat : N = Len(ch) /\ DOMAIN ch = 1 .. N
  OBVIOUS
<1>2. PICK up : up = [n \in 1 .. N |-> ch[n].parent]
  OBVIOUS
<1>3. \A n \in 1 .. N : up[n] \in 0 .. n - 1
  <2> SUFFICES ASSUME NEW n \in 1 .. N PROVE up[n] \in 0 .. n - 1
    OBVIOUS
  <2>1. ch[n] \in Tx
    BY <1>1
  <2>2. ch[n].parent \in Nat /\ ch[n].parent < n
    BY <1>1, <2>1 DEF Tx, ParentEarlier
  <2> QED
    BY <1>2, <2>2
<1> DEFINE Up(f, m) == /\ f[0] = {}
                       /\ \A n \in 1 .. m : f[n] = {n} \cup f[up[n]]
           T == {m \in 0 .. N : \E f : DOMAIN f = 0 .. m /\ Up(f, m)}
<1>4. 0 \in T
  <2>1. PICK f : f = [n \in 0 .. 0 |-> {}]
    OBVIOUS
  <2>2. DOMAIN f = 0 .. 0 /\ f[0] = {} /\ 1 .. 0 = {}
    BY <2>1
  <2> QED
    BY <2>2
<1>5. ASSUME NEW m \in 0 .. N, m \in T, m < N PROVE m + 1 \in T
  <2>1. PICK f : DOMAIN f = 0 .. m /\ Up(f, m)
    BY <1>5
  <2>2. PICK g : g = [n \in 0 .. m + 1 |-> IF n = m + 1 THEN {n} \cup f[up[n]] ELSE f[n]]
    OBVIOUS
  <2>3. DOMAIN g = 0 .. m + 1 /\ g[0] = {}
    BY <2>1, <2>2
  <2>4. ASSUME NEW n \in 1 .. m + 1 PROVE g[n] = {n} \cup g[up[n]]
    <3>1. n \in 1 .. N /\ up[n] \in 0 .. n - 1
      BY <1>3, <1>5
    <3>2. up[n] \in 0 .. m + 1 /\ up[n] # m + 1
      BY <3>1
    <3>3. g[up[n]] = f[up[n]]
      BY <2>2, <3>2
    <3>4. CASE n = m + 1
      <4>1. n \in 0 .. m + 1
        OBVIOUS
      <4>2. g[n] = {n} \cup f[up[n]]
        BY <2>2, <3>4, <4>1
      <4> QED
        BY <3>3, <4>2
    <3>5. CASE n # m + 1
      <4>1. n \in 1 .. m /\ g[n] = f[n]
        BY <2>2, <3>5
      <4> QED
        BY <2>1, <3>3, <4>1
    <3> QED
      BY <3>4, <3>5
  <2>5. m + 1 \in 0 .. N
    BY <1>5
  <2> QED
    BY <2>3, <2>4, <2>5
<1>6. PICK f : DOMAIN f = 0 .. N /\ Up(f, N)
  <2>1. N \in 0 .. N
    OBVIOUS
  <2> HIDE DEF T
  <2>2. N \in T
    BY <1>4, <1>5, <2>1, UpTo
  <2> QED
    BY <2>2 DEF T
<1> DEFINE F(x) == x = [n \in 0 .. Len(ch) |-> IF n = 0 THEN {} ELSE {n} \cup x[ch[n].parent]]
<1>7. F(f)
  <2>0. PICK d : d = [n \in 0 .. N |-> f[n]]
    OBVIOUS
  <2>1. PICK h : h = [n \in 0 .. N |-> IF n = 0 THEN {} ELSE {n} \cup f[ch[n].parent]]
    OBVIOUS
  <2>2. \A n \in 0 .. N : n = 0 \/ n \in 1 .. N
    OBVIOUS
  <2>3. \A n \in 0 .. N : f[n] = h[n]
    BY <1>2, <1>6, <2>1, <2>2
  <2>4. d = h
    BY <2>0, <2>1, <2>3
  <2> QED
    BY <1>1, <1>6, <2>0, <2>1, <2>4
<1>8. PICK e : e = AncestorsOf(ch)
  OBVIOUS
<1>9. e = CHOOSE x : F(x)
  BY <1>8 DEF AncestorsOf
<1>10. F(e)
  <2> HIDE DEF F
  <2> QED
    BY <1>7, <1>9
<1>11. e[0] = {} /\ \A n \in 1 .. N : e[n] = {n} \cup e[ch[n].parent]
  <2>1. PICK h : h = [n \in 0 .. N |-> IF n = 0 THEN {} ELSE {n} \cup e[ch[n].parent]]
    OBVIOUS
  <2>2. e = h
    BY <1>1, <1>10, <2>1
  <2>3. h[0] = {}
    BY <2>1
  <2>4. ASSUME NEW n \in 1 .. N PROVE h[n] = {n} \cup e[ch[n].parent]
    <3>1. n \in 0 .. N /\ n # 0
      OBVIOUS
    <3> QED
      BY <2>1, <3>1
  <2> QED
    BY <2>2, <2>3, <2>4
<1> QED
  BY <1>1, <1>8, <1>11

\* A transaction that joins the chain has the ancestors of its parent, and the
\* others keep theirs.
LEMMA AncestorsGrow ==
  ASSUME NEW ch \in Seq(Tx), ParentEarlier(ch), NEW t \in Tx, t.parent < Len(ch) + 1
  PROVE  /\ ParentEarlier(Append(ch, t))
         /\ \A n \in 0 .. Len(ch) : AncestorsOf(Append(ch, t))[n] = AncestorsOf(ch)[n]
         /\ AncestorsOf(Append(ch, t))[Len(ch) + 1] =
              {Len(ch) + 1} \cup AncestorsOf(ch)[t.parent]
<1>1. PICK N \in Nat : N = Len(ch) /\ DOMAIN ch = 1 .. N
  OBVIOUS
<1>2. PICK d : d = Append(ch, t)
  OBVIOUS
<1>3. /\ d \in Seq(Tx) /\ DOMAIN d = 1 .. N + 1
      /\ \A n \in 1 .. N : d[n] = ch[n]
      /\ d[N + 1] = t
  BY <1>1, <1>2
<1>4. \A n \in 1 .. N + 1 : n \in 1 .. N \/ n = N + 1
  OBVIOUS
<1>5. ParentEarlier(d)
  BY <1>1, <1>3, <1>4 DEF ParentEarlier
<1>6. PICK e, f : e = AncestorsOf(ch) /\ f = AncestorsOf(d)
  OBVIOUS
<1>7. /\ e[0] = {} /\ f[0] = {}
      /\ \A n \in 1 .. N : e[n] = {n} \cup e[ch[n].parent]
      /\ \A n \in 1 .. N + 1 : f[n] = {n} \cup f[d[n].parent]
  BY <1>1, <1>3, <1>5, <1>6, AncestorsFacts
<1>8. \A n \in 0 .. N : f[n] = e[n]
  <2> SUFFICES ASSUME ~\A n \in 0 .. N : f[n] = e[n] PROVE FALSE
    OBVIOUS
  <2>1. PICK T : T = {n \in 0 .. N : f[n] # e[n]}
    OBVIOUS
  <2>2. T \subseteq Nat /\ T # {}
    BY <2>1
  <2>3. PICK c \in T : \A n \in T : c <= n
    BY <2>2, LeastNumber, Zenon
  <2>4. c \in 1 .. N /\ f[c] # e[c]
    <3>1. c \in 0 .. N /\ f[c] # e[c]
      BY <2>1
    <3>2. c # 0
      BY <1>7, <3>1
    <3> QED
      BY <3>1, <3>2
  <2>5. ch[c] \in Tx
    BY <1>1, <2>4
  <2>6. ch[c].parent \in Nat /\ ch[c].parent < c
    BY <1>1, <2>4, <2>5 DEF Tx, ParentEarlier
  <2>7. ch[c].parent \in 0 .. N /\ ch[c].parent \notin T
    BY <2>2, <2>3, <2>4, <2>6
  <2>8. f[ch[c].parent] = e[ch[c].parent]
    BY <2>1, <2>7
  <2>9. c \in 1 .. N + 1 /\ d[c] = ch[c]
    BY <1>3, <2>4
  <2>10. e[c] = {c} \cup e[ch[c].parent]
    BY <1>7, <2>4
  <2>11. f[c] = {c} \cup f[ch[c].parent]
    BY <1>7, <2>9
  <2> QED
    BY <2>4, <2>8, <2>10, <2>11
<1>9. f[N + 1] = {N + 1} \cup e[t.parent]
  <2>1. t.parent \in 0 .. N
    BY <1>1 DEF Tx
  <2>2. N + 1 \in 1 .. N + 1
    OBVIOUS
  <2> QED
    BY <1>3, <1>7, <1>8, <2>1, <2>2
<1> QED
  BY <1>1, <1>2, <1>5, <1>6, <1>8, <1>9

-----------------------------------------------------------------------------
(* What a file knows of its branches.  The invariant is that the store of  *)
(* a process knows at least as much, or it has no fee output to get a      *)
(* transaction through with, so that it comes to no Save: that is what a   *)
(* process is left with that could not read the file.                      *)

\* A batch has no parent.
Rootless(t) == t.kind = "nodes" => t.parent = 0

LineInv == ParentEarlier(chain) /\ \A t \in limbo : Rootless(t)

\* Head new is head old or was pushed on top of it.
Behind(old, new, ancestors) ==
  old # None => new # None /\ old.anchor \in ancestors[new.anchor]

Ahead(p) ==
  \A r \in Refs : Behind(disk[cloneOf[p]].head[r], mem[p].head[r], Ancestors)

AheadOrIdle(p) == Ahead(p) \/ (mem[p].fee = {} /\ pc[p] # "save")

DiskInv == BranchInv /\ LineInv /\ \A p \in Procs : AheadOrIdle(p)

OneProcess == \A p, q \in Procs : cloneOf[p] = cloneOf[q] => p = q

\* Where the transactions come from that join the chain or go to limbo.
LEMMA ChainSources ==
  ASSUME [Next]_vars
  PROVE  \/ chain' = chain /\ limbo' = limbo
         \/ \E t \in limbo : Land(t)
         \/ \E p \in Procs : \E u, a : \E t \in {NodesTx(p, u, a), AnchorTx(p, u, a)} :
              \/ chain' = Append(chain, t) /\ limbo' = limbo
              \/ chain' = chain /\ BroadcastError(t)
<1>1. ASSUME NEW p \in Procs, PushNodes(p)
      PROVE  \/ chain' = chain /\ limbo' = limbo
             \/ \E u, a : \E t \in {NodesTx(p, u, a), AnchorTx(p, u, a)} :
                  \/ chain' = Append(chain, t) /\ limbo' = limbo
                  \/ chain' = chain /\ BroadcastError(t)
  BY <1>1 DEF PushNodes, NoFeeUTXO, PushNodesOk, PushNodesFails, TxAccepted, TxFails
<1>2. ASSUME NEW p \in Procs, PushAnchor(p)
      PROVE  \/ chain' = chain /\ limbo' = limbo
             \/ \E u, a : \E t \in {NodesTx(p, u, a), AnchorTx(p, u, a)} :
                  \/ chain' = Append(chain, t) /\ limbo' = limbo
                  \/ chain' = chain /\ BroadcastError(t)
  BY <1>2 DEF PushAnchor, NoFeeUTXO, PushAnchorOk, PushAnchorFails, TxAccepted, TxFails
<1>3. ASSUME NEW p \in Procs,
             \/ LoadOk(p) \/ LoadFails(p) \/ SaveOk(p) \/ SaveFails(p) \/ Report(p) \/ Stop(p)
             \/ \E W, F : Export(p, W, F)
             \/ \E r : PickRef(p, r) \/ PrepareFails(p, r)
      PROVE  chain' = chain /\ limbo' = limbo
  BY <1>3 DEF LoadOk, LoadFails, Load, SaveOk, SaveFails, Report, Stop, Export, PickRef,
              PrepareFails
<1>4. CASE UNCHANGED vars
  BY <1>4 DEF vars
<1>5. ASSUME NEW p \in Procs, Work(p)
      PROVE  \/ PushNodes(p) \/ PushAnchor(p) \/ SaveOk(p) \/ SaveFails(p) \/ Report(p)
             \/ \E r : PickRef(p, r) \/ PrepareFails(p, r)
  BY <1>5 DEF Work
<1> QED
  BY <1>1, <1>2, <1>3, <1>4, <1>5 DEF Next

\* Each transaction of the chain, and each one to come, has an earlier parent
\* or none.
LEMMA LineStep ==
  ASSUME BranchInv, LineInv, [Next]_vars
  PROVE  /\ LineInv'
         /\ chain' = chain \/ \E t : Grows(t) /\ t.parent < Len(chain) + 1
<1> USE DEF LineInv, BranchInv
<1>1. chain' = chain \/ \E t : Grows(t)
  BY ChainStep
<1>2. \A p, u, a : Rootless(NodesTx(p, u, a)) /\ Rootless(AnchorTx(p, u, a))
  BY DEF Rootless, NodesTx, AnchorTx
<1>3. \A t \in limbo' : Rootless(t)
  BY <1>2, ChainSources DEF Land, BroadcastError
<1>4. ASSUME NEW t, Grows(t)
      PROVE  t.parent < Len(chain) + 1
  <2>1. Rootless(t)
    <3>1. PICK s : chain' = Append(chain, s) /\ Rootless(s)
      <4>1. chain' # chain
        BY <1>4 DEF Grows, TypeOK
      <4> QED
        BY <1>2, <4>1, ChainSources DEF Land
    <3>2. s = t
      <4>1. chain' = Append(chain, t) /\ chain \in Seq(Tx)
        BY <1>4 DEF Grows, TypeOK
      <4>2. \A x : Append(chain, x)[Len(chain) + 1] = x
        BY <4>1
      <4>3. PICK c : c = Append(chain, s) /\ c = Append(chain, t)
        BY <3>1, <4>1
      <4>4. c[Len(chain) + 1] = s /\ c[Len(chain) + 1] = t
        BY <4>2, <4>3
      <4> QED
        BY <4>4
    <3> QED
      BY <3>1, <3>2
  <2>2. t \in Tx /\ SpendsParent(t) /\ Len(chain) \in Nat /\ DOMAIN chain = 1 .. Len(chain)
    BY <1>4 DEF Grows, TypeOK
  <2>3. t.parent = 0 \/ t.parent \in Anchors
    BY <2>1, <2>2 DEF Tx, Rootless, SpendsParent
  <2> QED
    BY <2>2, <2>3 DEF Anchors
<1>5. ParentEarlier(chain')
  <2>1. CASE chain' = chain
    BY <2>1
  <2>2. CASE \E t : Grows(t)
    <3>1. PICK t : Grows(t)
      BY <2>2
    <3>2. t \in Tx /\ chain \in Seq(Tx) /\ t.parent < Len(chain) + 1 /\ chain' = Append(chain, t)
      BY <1>4, <3>1 DEF Grows, TypeOK
    <3> QED
      BY <3>2, AncestorsGrow
  <2> QED
    BY <1>1, <2>1, <2>2
<1> QED
  BY <1>1, <1>3, <1>4, <1>5

\* The function of the model is the one the lemmas above are about.
LEMMA AncestorsIs == Ancestors = AncestorsOf(chain) /\ Ancestors' = AncestorsOf(chain')
BY DEF Ancestors, AncestorsOf

\* A head is behind itself, and what is behind it stays behind it as the chain
\* grows.
LEMMA BehindFacts ==
  ASSUME BranchInv, LineInv, [Next]_vars
  PROVE  \A r, h : ValidHead(r, h) =>
           /\ Behind(h, h, Ancestors) /\ Behind(h, h, Ancestors')
           /\ \A old : Behind(old, h, Ancestors) => Behind(old, h, Ancestors')
<1> SUFFICES ASSUME NEW r, NEW h, ValidHead(r, h), h # None
             PROVE  /\ h.anchor \in Ancestors[h.anchor]
                    /\ Ancestors'[h.anchor] = Ancestors[h.anchor]
  BY DEF Behind
<1>1. PICK i \in Anchors : h.anchor = i
  BY DEF ValidHead
<1>2. chain \in Seq(Tx) /\ ParentEarlier(chain) /\ i \in DOMAIN chain
  BY DEF BranchInv, TypeOK, LineInv, Anchors
<1>3. i \in Ancestors[i]
  BY <1>2, AncestorsFacts, AncestorsIs
<1>4. i \in 0 .. Len(chain)
  BY <1>2
<1>5. Ancestors'[i] = Ancestors[i]
  <2>1. CASE chain' = chain
    BY <2>1, AncestorsIs
  <2>2. CASE \E t : Grows(t) /\ t.parent < Len(chain) + 1
    <3>1. PICK t : Grows(t) /\ t.parent < Len(chain) + 1
      BY <2>2
    <3>2. t \in Tx /\ chain' = Append(chain, t)
      BY <3>1 DEF Grows
    <3> QED
      BY <1>2, <1>4, <3>1, <3>2, AncestorsGrow, AncestorsIs
  <2> QED
    BY <2>1, <2>2, LineStep
<1> QED
  BY <1>1, <1>3, <1>5

\* A process and a file that a step leaves alone stay as they stand to each
\* other.
LEMMA AheadKept ==
  ASSUME DiskInv, [Next]_vars, NEW q \in Procs,
         disk'[cloneOf[q]] = disk[cloneOf[q]], mem'[q].head = mem[q].head
  PROVE  Ahead(q) => Ahead(q)'
<1> SUFFICES ASSUME Ahead(q), NEW r \in Refs
             PROVE  Behind(disk'[cloneOf[q]].head[r], mem'[q].head[r], Ancestors')
  BY DEF Ahead, Behind
<1>1. PICK old, new : old = disk[cloneOf[q]].head[r] /\ new = mem[q].head[r]
  OBVIOUS
<1>2. ValidHead(r, new) /\ Behind(old, new, Ancestors)
  BY <1>1 DEF DiskInv, BranchInv, HeadsOnChain, Ahead
<1>3. Behind(old, new, Ancestors')
  BY <1>2, BehindFacts DEF DiskInv
<1> QED
  BY <1>1, <1>3

\* The same when a process does no more than move on.
LEMMA IdleKept ==
  ASSUME DiskInv, [Next]_vars, NEW q \in Procs,
         disk'[cloneOf[q]] = disk[cloneOf[q]], mem'[q] = mem[q],
         pc'[q] = pc[q] \/ pc'[q] # "save"
  PROVE  AheadOrIdle(q)'
<1>1. CASE Ahead(q)
  BY <1>1, AheadKept DEF AheadOrIdle
<1>2. CASE mem[q].fee = {} /\ pc[q] # "save"
  BY <1>2 DEF AheadOrIdle
<1> QED
  BY <1>1, <1>2 DEF DiskInv, AheadOrIdle

\* A process that has just loaded or saved knows what its file knows.
LEMMA SameHeads ==
  ASSUME DiskInv, [Next]_vars, NEW q \in Procs,
         disk'[cloneOf[q]] = mem'[q],
         \A r \in Refs : ValidHead(r, (mem'[q]).head[r])
  PROVE  AheadOrIdle(q)'
<1> SUFFICES ASSUME NEW r \in Refs
             PROVE  Behind(disk'[cloneOf[q]].head[r], mem'[q].head[r], Ancestors')
  BY DEF AheadOrIdle, Ahead, Behind
<1> QED
  BY BehindFacts DEF DiskInv

\* A transaction of pushRef that is answered by an error.
LEMMA TxFailsAhead ==
  ASSUME DiskInv, [Next]_vars, OneProcess, NEW p \in Procs, NEW u \in mem[p].fee, NEW t,
         TxFails(p, u, t)
  PROVE  \A q \in Procs : AheadOrIdle(q)'
<1>1. disk' = disk /\ \A q \in Procs : q # p => mem'[q] = mem[q] /\ pc'[q] = pc[q]
  BY DEF TxFails, Record, Goto, DiskInv, BranchInv, TypeOK
<1>2. mem'[p].head = mem[p].head
  BY StoreOperations DEF TxFails, DiskInv, BranchInv, TypeOK
<1>3. Ahead(p)
  BY DEF DiskInv, AheadOrIdle
<1>4. AheadOrIdle(p)'
  BY <1>1, <1>2, <1>3, AheadKept DEF AheadOrIdle
<1> QED
  BY <1>1, <1>4, IdleKept

\* A batch that is accepted.
LEMMA PushNodesOkAhead ==
  ASSUME DiskInv, [Next]_vars, NEW p \in Procs, NEW u \in mem[p].fee, NEW a \in Nat,
         PushNodesOk(p, u, a)
  PROVE  \A q \in Procs : AheadOrIdle(q)'
<1>1. disk' = disk /\ \A q \in Procs : q # p => mem'[q] = mem[q] /\ pc'[q] = pc[q]
  BY DEF PushNodesOk, Goto, DiskInv, BranchInv, TypeOK
<1>2. mem'[p].head = mem[p].head
  <2>1. Change(NewTxid, a) \in SUBSET UTXO
    BY OutputTypes DEF NewTxid, DiskInv, BranchInv, TypeOK
  <2>2. mem'[p] = AddFeeUTXOs(TakeFeeUTXO(mem[p], u), Change(NewTxid, a)) /\ mem[p] \in State
    BY DEF PushNodesOk, DiskInv, BranchInv, TypeOK
  <2> QED
    BY <2>1, <2>2, PaidHeads
<1>3. Ahead(p)
  BY DEF DiskInv, AheadOrIdle
<1>4. AheadOrIdle(p)'
  BY <1>1, <1>2, <1>3, AheadKept DEF AheadOrIdle
<1> QED
  BY <1>1, <1>4, IdleKept

\* An anchor that is accepted is a head on top of the one that was known.
LEMMA PushAnchorOkAhead ==
  ASSUME DiskInv, [Next]_vars, NEW p \in Procs, NEW u \in mem[p].fee, NEW a \in Nat,
         PushAnchorOk(p, u, a)
  PROVE  \A q \in Procs : AheadOrIdle(q)'
<1>1. disk' = disk /\ \A q \in Procs : q # p => mem'[q] = mem[q] /\ pc'[q] = pc[q]
  BY DEF PushAnchorOk, Goto, DiskInv, BranchInv, TypeOK
<1>2. PICK n, ref, h : n = NewTxid /\ ref = cur[p] /\ h = [out |-> HeadOut(n), anchor |-> n]
  OBVIOUS
<1>3. u \in UTXO /\ n \in Nat /\ ref \in Refs /\ chain \in Seq(Tx) /\ n = Len(chain) + 1
  BY <1>2 DEF DiskInv, BranchInv, TypeOK, State, NewTxid, PushAnchorOk, At
<1>4. Change(n, a) \in SUBSET UTXO /\ h \in RefUTXO
  BY <1>2, <1>3, OutputTypes DEF RefUTXO
<1>5. mem'[p].head = [mem[p].head EXCEPT ![ref] = h]
  <2>1. PICK s \in State : /\ s = AddFeeUTXOs(TakeFeeUTXO(mem[p], u), Change(n, a))
                           /\ s.head = mem[p].head
    BY <1>4, PaidHeads DEF DiskInv, BranchInv, TypeOK
  <2>2. SetRefUTXO(s, ref, h).head = [s.head EXCEPT ![ref] = h]
    BY <1>3, <1>4, StoreOperations
  <2>3. mem'[p] = SetRefUTXO(s, ref, h)
    BY <1>2, <2>1 DEF PushAnchorOk, DiskInv, BranchInv, TypeOK
  <2> QED
    BY <2>1, <2>2, <2>3
<1>6. mem[p].head \in [Refs -> RefUTXO \cup {None}]
  BY DEF DiskInv, BranchInv, TypeOK, State
<1>7. Ahead(p)
  BY DEF DiskInv, AheadOrIdle
<1>8. ASSUME NEW r \in Refs, r # ref
      PROVE  Behind(disk[cloneOf[p]].head[r], mem'[p].head[r], Ancestors')
  <2>1. mem'[p].head[r] = mem[p].head[r]
    BY <1>5, <1>6, <1>8
  <2>2. ValidHead(r, mem[p].head[r]) /\ Behind(disk[cloneOf[p]].head[r], mem[p].head[r], Ancestors)
    BY <1>7 DEF DiskInv, BranchInv, HeadsOnChain, Ahead
  <2> QED
    BY <2>1, <2>2, BehindFacts DEF DiskInv
<1>9. Behind(disk[cloneOf[p]].head[ref], mem'[p].head[ref], Ancestors')
  <2>1. PICK old, known : old = disk[cloneOf[p]].head[ref] /\ known = mem[p].head[ref]
    OBVIOUS
  <2>2. Behind(old, known, Ancestors)
    BY <1>3, <1>7, <2>1 DEF Ahead
  <2>3. mem'[p].head[ref] = h /\ h # None /\ h.anchor = n
    BY <1>2, <1>3, <1>4, <1>5, <1>6, NoneAssumption
  <2>4. ASSUME old # None PROVE old.anchor \in Ancestors'[n]
    <3>1. known # None /\ old.anchor \in Ancestors[known.anchor]
      BY <2>2, <2>4 DEF Behind
    <3>2. PICK t : t = AnchorTx(p, u, a)
      OBVIOUS
    <3>3. t \in Tx /\ t.parent = known.anchor /\ chain' = Append(chain, t)
      <4>1. AnchorTx(p, u, a) \in Tx
        BY <1>2, <1>3, TxTypes DEF DiskInv, BranchInv
      <4> QED
        BY <1>2, <2>1, <3>1, <3>2, <4>1 DEF PushAnchorOk, TxAccepted, AnchorTx
    <3>4. t.parent < Len(chain) + 1
      <4>1. ValidHead(ref, known)
        BY <1>3, <2>1 DEF DiskInv, BranchInv, HeadsOnChain
      <4>2. t.parent \in DOMAIN chain
        BY <3>1, <3>3, <4>1 DEF ValidHead, Anchors
      <4> QED
        BY <1>3, <4>2
    <3>5. Ancestors'[n] = {n} \cup Ancestors[t.parent]
      BY <1>3, <3>3, <3>4, AncestorsGrow, AncestorsIs DEF DiskInv, LineInv
    <3> QED
      BY <3>1, <3>3, <3>5
  <2> QED
    BY <2>1, <2>3, <2>4 DEF Behind
<1>10. AheadOrIdle(p)'
  <2>1. \A r \in Refs : Behind(disk[cloneOf[p]].head[r], mem'[p].head[r], Ancestors')
    BY <1>8, <1>9
  <2> QED
    BY <1>1, <2>1 DEF AheadOrIdle, Ahead, Behind
<1> QED
  BY <1>1, <1>10, IdleKept

\* No step of a process breaks the invariant, when no other shares its file.
LEMMA AheadStep ==
  ASSUME DiskInv, [Next]_vars, OneProcess
  PROVE  \A q \in Procs : AheadOrIdle(q)'
<1>1. /\ pc \in [Procs -> PCs] /\ mem \in [Procs -> State] /\ disk \in [Clones -> State]
      /\ cloneOf \in [Procs -> Clones]
  BY PushAssumption DEF DiskInv, BranchInv, TypeOK
<1>2. ASSUME NEW p \in Procs, disk' = disk, mem' = mem, \E s : s # "save" /\ Goto(p, s)
      PROVE  \A q \in Procs : AheadOrIdle(q)'
  <2>1. \A q \in Procs : pc'[q] = pc[q] \/ pc'[q] # "save"
    BY <1>1, <1>2 DEF Goto
  <2> QED
    BY <1>2, <2>1, IdleKept
<1>3. ASSUME NEW p \in Procs, NEW s \in State, Load(p, s),
             s = EmptyState \/ s = disk[cloneOf[p]]
      PROVE  \A q \in Procs : AheadOrIdle(q)'
  <2>1. /\ disk' = disk /\ mem'[p] = s /\ pc'[p] = "ready"
        /\ \A q \in Procs : q # p => mem'[q] = mem[q] /\ pc'[q] = pc[q]
    BY <1>1, <1>3 DEF Load, Goto
  <2>2. ASSUME s = EmptyState PROVE AheadOrIdle(p)'
    BY <2>1, <2>2 DEF AheadOrIdle, EmptyState
  <2>3. ASSUME s = disk[cloneOf[p]] PROVE AheadOrIdle(p)'
    <3>1. \A r \in Refs : ValidHead(r, s.head[r])
      BY <1>1, <2>3 DEF DiskInv, BranchInv, HeadsOnChain
    <3> QED
      BY <2>1, <2>3, <3>1, SameHeads
  <2>4. AheadOrIdle(p)'
    BY <1>3, <2>2, <2>3
  <2> QED
    BY <2>1, <2>4, IdleKept
<1>4. ASSUME NEW p \in Procs, LoadOk(p) \/ LoadFails(p)
      PROVE  \A q \in Procs : AheadOrIdle(q)'
  <2>1. EmptyState \in State /\ disk[cloneOf[p]] \in State
    BY <1>1, EmptyStateType
  <2> QED
    BY <1>3, <1>4, <2>1 DEF LoadOk, LoadFails
<1>5. ASSUME NEW p \in Procs, NEW W, NEW F, Export(p, W, F)
      PROVE  \A q \in Procs : AheadOrIdle(q)'
  BY <1>2, <1>5 DEF Export
<1>6. ASSUME NEW p \in Procs, NEW r, PickRef(p, r)
      PROVE  \A q \in Procs : AheadOrIdle(q)'
  BY <1>2, <1>6 DEF PickRef
<1>7. ASSUME NEW p \in Procs, NEW r, PrepareFails(p, r)
      PROVE  \A q \in Procs : AheadOrIdle(q)'
  BY <1>2, <1>7 DEF PrepareFails, Record
<1>8. ASSUME NEW p \in Procs, NEW s, NEW min, NoFeeUTXO(p, s, min)
      PROVE  \A q \in Procs : AheadOrIdle(q)'
  BY <1>2, <1>8 DEF NoFeeUTXO, Record
<1>9. ASSUME NEW p \in Procs, PushNodes(p)
      PROVE  \A q \in Procs : AheadOrIdle(q)'
  <2>1. ASSUME NEW u \in FeeCandidates(mem[p], NodeFeeMin), NEW a \in 0 .. u.amount,
               PushNodesOk(p, u, a) \/ PushNodesFails(p, u, a)
        PROVE  \A q \in Procs : AheadOrIdle(q)'
    <3>1. u \in mem[p].fee /\ a \in Nat
      BY <1>1, CandidateInPool
    <3> QED
      BY <2>1, <3>1, TxFailsAhead, PushNodesOkAhead DEF PushNodesFails
  <2> QED
    BY <1>8, <1>9, <2>1 DEF PushNodes
<1>10. ASSUME NEW p \in Procs, PushAnchor(p)
       PROVE  \A q \in Procs : AheadOrIdle(q)'
  <2>1. ASSUME NEW u \in FeeCandidates(mem[p], AnchorFeeMin), NEW a \in 0 .. u.amount,
               PushAnchorOk(p, u, a) \/ PushAnchorFails(p, u, a)
        PROVE  \A q \in Procs : AheadOrIdle(q)'
    <3>1. u \in mem[p].fee /\ a \in Nat
      BY <1>1, CandidateInPool
    <3> QED
      BY <2>1, <3>1, TxFailsAhead, PushAnchorOkAhead DEF PushAnchorFails
  <2> QED
    BY <1>8, <1>10, <2>1 DEF PushAnchor
<1>11. ASSUME NEW p \in Procs, SaveOk(p)
       PROVE  \A q \in Procs : AheadOrIdle(q)'
  <2>1. /\ mem' = mem /\ disk' = [disk EXCEPT ![cloneOf[p]] = mem[p]]
        /\ \A q \in Procs : q # p => pc'[q] = pc[q]
    BY <1>1, <1>11 DEF SaveOk, Record, Goto
  <2>2. disk'[cloneOf[p]] = mem'[p]
    BY <1>1, <2>1
  <2>3. \A r \in Refs : ValidHead(r, (mem'[p]).head[r])
    BY <2>1 DEF DiskInv, BranchInv, HeadsOnChain
  <2>4. AheadOrIdle(p)'
    BY <2>2, <2>3, SameHeads
  <2>5. \A q \in Procs : q # p => disk'[cloneOf[q]] = disk[cloneOf[q]]
    BY <1>1, <2>1 DEF OneProcess
  <2> QED
    BY <2>1, <2>4, <2>5, IdleKept
<1>12. ASSUME NEW p \in Procs, SaveFails(p) \/ Report(p)
       PROVE  \A q \in Procs : AheadOrIdle(q)'
  BY <1>2, <1>12 DEF SaveFails, Report, Record
<1>13. ASSUME NEW p \in Procs, Stop(p)
       PROVE  \A q \in Procs : AheadOrIdle(q)'
  <2>1. /\ disk' = disk /\ mem'[p] = EmptyState /\ pc'[p] = "idle"
        /\ \A q \in Procs : q # p => mem'[q] = mem[q] /\ pc'[q] = pc[q]
    BY <1>1, <1>13 DEF Stop, Goto
  <2>2. AheadOrIdle(p)'
    BY <2>1 DEF AheadOrIdle, EmptyState
  <2> QED
    BY <2>1, <2>2, IdleKept
<1>14. ASSUME UNCHANGED <<disk, mem, pc>>
       PROVE  \A q \in Procs : AheadOrIdle(q)'
  BY <1>14, IdleKept
<1>15. ASSUME NEW p \in Procs, Work(p)
       PROVE  \A q \in Procs : AheadOrIdle(q)'
  BY <1>6, <1>7, <1>9, <1>10, <1>11, <1>12, <1>15 DEF Work
<1>16. ASSUME (\E t \in limbo : Land(t)) \/ UNCHANGED vars
       PROVE  \A q \in Procs : AheadOrIdle(q)'
  BY <1>14, <1>16 DEF Land, vars, procVars
<1> QED
  BY <1>4, <1>5, <1>13, <1>15, <1>16 DEF Next

\* A step that writes a file writes the store of its only process.
LEMMA DiskStep ==
  ASSUME DiskInv, [Next]_vars
  PROVE  disk' = disk \/ \E p \in Procs : SaveOk(p)
<1>1. ASSUME NEW p \in Procs, PushNodes(p) \/ PushAnchor(p) PROVE disk' = disk
  BY <1>1 DEF PushNodes, PushAnchor, NoFeeUTXO, PushNodesOk, PushNodesFails, PushAnchorOk,
              PushAnchorFails, TxFails
<1>2. ASSUME NEW p \in Procs,
             \/ LoadOk(p) \/ LoadFails(p) \/ SaveFails(p) \/ Report(p) \/ Stop(p)
             \/ \E W, F : Export(p, W, F)
             \/ \E r : PickRef(p, r) \/ PrepareFails(p, r)
      PROVE  disk' = disk
  BY <1>2 DEF LoadOk, LoadFails, Load, SaveFails, Report, Stop, Export, PickRef, PrepareFails
<1>3. ASSUME (\E t \in limbo : Land(t)) \/ UNCHANGED vars PROVE disk' = disk
  BY <1>3 DEF Land, vars
<1>4. ASSUME NEW p \in Procs, Work(p)
      PROVE  \/ PushNodes(p) \/ PushAnchor(p) \/ SaveOk(p) \/ SaveFails(p) \/ Report(p)
             \/ \E r : PickRef(p, r) \/ PrepareFails(p, r)
  BY <1>4 DEF Work
<1> QED
  BY <1>1, <1>2, <1>3, <1>4 DEF Next

\* What state.json knows of a branch is never lost and never goes back, if one
\* helper at a time works in a clone: whatever fails, is answered late or dies,
\* and although a process that could not read the file goes on with an empty
\* store.  (With two helpers in one clone the later Save wins, which the model
\* allows and the run push_race is about.)
THEOREM DiskForwardAlone ==
  ASSUME OneProcess
  PROVE  Spec => DiskMovesForward
<1>1. Init => DiskInv
  <2> SUFFICES ASSUME Init PROVE DiskInv
    OBVIOUS
  <2>1. LineInv
    BY DEF Init, LineInv, ParentEarlier
  <2>2. \A p \in Procs : AheadOrIdle(p)
    BY DEF Init, AheadOrIdle, EmptyState
  <2> QED
    BY <2>1, <2>2, BranchInvInit DEF DiskInv
<1>2. DiskInv /\ [Next]_vars => DiskInv'
  <2> SUFFICES ASSUME DiskInv, [Next]_vars PROVE DiskInv'
    OBVIOUS
  <2>1. BranchInv' /\ LineInv'
    BY BranchInvStep, LineStep DEF DiskInv
  <2> QED
    BY <2>1, AheadStep DEF DiskInv
<1>3. DiskInv /\ [Next]_vars =>
        \A c \in Clones, r \in Refs :
          LET old == disk[c].head[r]
              new == disk'[c].head[r]
          IN  old # None => new # None /\ old.anchor \in Ancestors[new.anchor]
  <2> SUFFICES ASSUME DiskInv, [Next]_vars, NEW c \in Clones, NEW r \in Refs
               PROVE  Behind(disk[c].head[r], disk'[c].head[r], Ancestors)
    BY DEF Behind
  <2>1. CASE disk' = disk
    BY <2>1, BehindFacts DEF DiskInv, BranchInv, HeadsOnChain
  <2>2. ASSUME NEW p \in Procs, SaveOk(p)
        PROVE  Behind(disk[c].head[r], disk'[c].head[r], Ancestors)
    <3>1. disk \in [Clones -> State] /\ disk' = [disk EXCEPT ![cloneOf[p]] = mem[p]]
      BY <2>2 DEF SaveOk, DiskInv, BranchInv, TypeOK
    <3>2. CASE c = cloneOf[p]
      <4>1. Ahead(p)
        BY <2>2 DEF SaveOk, At, DiskInv, AheadOrIdle
      <4> QED
        BY <3>1, <3>2, <4>1 DEF Ahead
    <3>3. CASE c # cloneOf[p]
      <4>1. disk'[c] = disk[c]
        BY <3>1, <3>3
      <4> QED
        BY <4>1, BehindFacts DEF DiskInv, BranchInv, HeadsOnChain
    <3> QED
      BY <3>2, <3>3
  <2> QED
    BY <2>1, <2>2, DiskStep
<1> QED
  BY <1>1, <1>2, <1>3, PTL DEF Spec, DiskMovesForward
=============================================================================
