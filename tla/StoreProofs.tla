----------------------------- MODULE StoreProofs -----------------------------
(***************************************************************************)
(* Proofs about the slices of UtxoStore: no order of the methods of any    *)
(* number of processes puts two entries for one thing into a store.        *)
(***************************************************************************)
EXTENDS UtxoStore, Recursion

-----------------------------------------------------------------------------
(* Slices.                                                                 *)

\* No two positions of a slice have one key.
Distinct(s) == \A i, j \in DOMAIN s : s[i].key = s[j].key => i = j

\* No two positions of a slice hold one element.
Injective(s) == \A i, j \in DOMAIN s : s[i] = s[j] => i = j

\* What SwapRemove leaves: each position holds what it held, but position i
\* holds the last element, which is gone from its place.
LEMMA SwapRemoveFacts ==
  ASSUME NEW S, NEW s \in Seq(S), NEW i
  PROVE  /\ SwapRemove(s, i) \in Seq(S)
         /\ DOMAIN SwapRemove(s, i) = 1 .. Len(s) - 1
         /\ \A j \in 1 .. Len(s) - 1 :
              SwapRemove(s, i)[j] = IF j = i THEN s[Len(s)] ELSE s[j]
<1>1. PICK e : e = s[Len(s)]
  OBVIOUS
<1>2. PICK t : t = [s EXCEPT ![i] = e]
  OBVIOUS
<1>3. SwapRemove(s, i) = SubSeq(t, 1, Len(t) - 1)
  BY <1>1, <1>2 DEF SwapRemove, Front, ReplaceAt, Last
<1>4. Len(s) \in Nat /\ DOMAIN s = 1 .. Len(s)
  OBVIOUS
<1>5. t \in Seq(S) /\ Len(t) = Len(s)
  <2>1. CASE s = <<>>
    <3>1. DOMAIN s = {} /\ DOMAIN t = {}
      BY <1>2, <2>1
    <3>2. t = s
      BY <1>2, <3>1
    <3> QED
      BY <3>2
  <2>2. CASE s # <<>>
    <3>1. e \in S
      BY <1>1, <1>4, <2>2
    <3>2. \A j \in 1 .. Len(s) : s[j] \in S
      BY <1>4
    <3>3. t = [j \in 1 .. Len(s) |-> IF j = i THEN e ELSE s[j]]
      BY <1>2, <1>4
    <3>4. t \in [1 .. Len(s) -> S]
      BY <3>1, <3>2, <3>3
    <3> QED
      BY <1>4, <3>4
  <2> QED
    BY <2>1, <2>2
<1>6. \A j \in 1 .. Len(s) : t[j] = IF j = i THEN e ELSE s[j]
  BY <1>2, <1>4
<1> QED
  BY <1>1, <1>3, <1>4, <1>5, <1>6

\* Removing keeps a slice without repetitions.
LEMMA SwapRemoveKeeps ==
  ASSUME NEW S, NEW s \in Seq(S), NEW i
  PROVE  /\ Injective(s) => Injective(SwapRemove(s, i))
         /\ Distinct(s) => Distinct(SwapRemove(s, i))
<1>1. PICK t : t = SwapRemove(s, i)
  OBVIOUS
<1>2. /\ DOMAIN t = 1 .. Len(s) - 1
      /\ \A j \in 1 .. Len(s) - 1 : t[j] = IF j = i THEN s[Len(s)] ELSE s[j]
  BY <1>1, SwapRemoveFacts
<1>3. Len(s) \in Nat /\ DOMAIN s = 1 .. Len(s)
  OBVIOUS
<1>4. \A j, k \in DOMAIN t : j # k =>
        \E m, n \in DOMAIN s : m # n /\ t[j] = s[m] /\ t[k] = s[n]
  <2> SUFFICES ASSUME NEW j \in DOMAIN t, NEW k \in DOMAIN t, j # k
               PROVE  \E m, n \in DOMAIN s : m # n /\ t[j] = s[m] /\ t[k] = s[n]
    OBVIOUS
  <2>1. PICK m, n : m = (IF j = i THEN Len(s) ELSE j) /\ n = (IF k = i THEN Len(s) ELSE k)
    OBVIOUS
  <2>2. m \in DOMAIN s /\ n \in DOMAIN s /\ m # n
    BY <1>2, <1>3, <2>1
  <2>3. t[j] = s[m] /\ t[k] = s[n]
    BY <1>2, <2>1
  <2> QED
    BY <2>2, <2>3
<1> QED
  BY <1>1, <1>4 DEF Injective, Distinct

\* IndexOf finds an entry with the key, if there is one.
LEMMA IndexOfFacts ==
  ASSUME NEW S, NEW s \in Seq(S), NEW k
  PROVE  /\ IndexOf(s, k) \in Nat
         /\ IndexOf(s, k) = 0 => \A i \in DOMAIN s : s[i].key # k
         /\ IndexOf(s, k) # 0 => IndexOf(s, k) \in DOMAIN s /\ s[IndexOf(s, k)].key = k
<1> DEFINE I == {i \in 1 .. Len(s) : s[i].key = k}
<1>1. IndexOf(s, k) = IF I # {} THEN Min(I) ELSE 0
  BY DEF IndexOf, SelectInSeq
<1>2. DOMAIN s = 1 .. Len(s) /\ Len(s) \in Nat
  OBVIOUS
<1>3. ASSUME I # {} PROVE Min(I) \in I
  <2>1. I \subseteq Nat
    BY <1>2
  <2>2. PICK c \in I : \A d \in I : c <= d
    BY <1>3, <2>1, LeastNumber, Zenon
  <2> HIDE DEF I
  <2> QED
    BY <2>2 DEF Min
<1>4. \A i \in I : i \in Nat \ {0} /\ i \in DOMAIN s /\ s[i].key = k
  BY <1>2
<1>5. I = {} => \A i \in DOMAIN s : s[i].key # k
  BY <1>2
<1> HIDE DEF I
<1> QED
  BY <1>1, <1>3, <1>4, <1>5

Entry(K) == [key: K, txid: Txids]

\* Set and Remove keep a table a table.
LEMMA TableKept ==
  ASSUME NEW K, NEW s \in Seq(Entry(K)), Distinct(s), NEW k \in K
  PROVE  /\ RemoveEntry(s, k) \in Seq(Entry(K)) /\ Distinct(RemoveEntry(s, k))
         /\ \A v \in Txids : /\ SetEntry(s, k, v) \in Seq(Entry(K))
                             /\ Distinct(SetEntry(s, k, v))
<1>1. PICK i : i = IndexOf(s, k)
  OBVIOUS
<1>2. /\ i \in Nat
      /\ i = 0 => \A j \in DOMAIN s : s[j].key # k
      /\ i # 0 => i \in DOMAIN s /\ s[i].key = k
  BY <1>1, IndexOfFacts
<1>3. Len(s) \in Nat /\ DOMAIN s = 1 .. Len(s)
  OBVIOUS
<1>4. RemoveEntry(s, k) \in Seq(Entry(K)) /\ Distinct(RemoveEntry(s, k))
  BY <1>1, <1>2, SwapRemoveFacts, SwapRemoveKeeps DEF RemoveEntry
<1>5. ASSUME NEW v \in Txids
      PROVE  SetEntry(s, k, v) \in Seq(Entry(K)) /\ Distinct(SetEntry(s, k, v))
  <2>1. PICK e : e = [key |-> k, txid |-> v]
    OBVIOUS
  <2>2. e \in Entry(K) /\ e.key = k
    BY <2>1 DEF Entry
  <2>3. CASE i = 0
    <3>1. SetEntry(s, k, v) = Append(s, e)
      BY <1>1, <2>1, <2>3 DEF SetEntry
    <3>2. PICK t : t = Append(s, e)
      OBVIOUS
    <3>3. /\ t \in Seq(Entry(K)) /\ DOMAIN t = 1 .. Len(s) + 1
          /\ \A j \in 1 .. Len(s) : t[j] = s[j]
          /\ t[Len(s) + 1] = e
      BY <1>3, <2>2, <3>2
    <3>4. Distinct(t)
      <4>1. \A a \in 1 .. Len(s) : t[a].key # t[Len(s) + 1].key
        BY <1>2, <1>3, <2>2, <2>3, <3>3
      <4>2. \A a, b \in 1 .. Len(s) : t[a].key = t[b].key => a = b
        BY <1>3, <3>3 DEF Distinct
      <4>3. \A a \in DOMAIN t : a \in 1 .. Len(s) \/ a = Len(s) + 1
        BY <1>3, <3>3
      <4> QED
        BY <4>1, <4>2, <4>3 DEF Distinct
    <3> QED
      BY <3>1, <3>2, <3>3, <3>4
  <2>4. CASE i # 0
    <3>1. SetEntry(s, k, v) = [s EXCEPT ![i] = e]
      BY <1>1, <2>1, <2>4 DEF SetEntry, ReplaceAt
    <3>2. PICK t : t = [s EXCEPT ![i] = e]
      OBVIOUS
    <3>3. /\ DOMAIN t = DOMAIN s
          /\ \A j \in DOMAIN s : t[j] = IF j = i THEN e ELSE s[j]
      BY <3>2
    <3>4. t \in [1 .. Len(s) -> Entry(K)]
      <4>1. \A j \in 1 .. Len(s) : s[j] \in Entry(K)
        BY <1>3
      <4>2. t = [j \in 1 .. Len(s) |-> IF j = i THEN e ELSE s[j]]
        BY <1>3, <3>2
      <4> QED
        BY <2>2, <4>1, <4>2
    <3>5. Distinct(t)
      BY <1>2, <2>2, <2>4, <3>3 DEF Distinct
    <3> QED
      BY <1>3, <3>1, <3>2, <3>4, <3>5
  <2> QED
    BY <2>3, <2>4
<1> QED
  BY <1>4, <1>5

-----------------------------------------------------------------------------
(* The inductive invariant: what is in memory, in the file and on its way  *)
(* there is a state without repetitions.                                   *)

Good ==
  {st \in [fees: Seq(Coins), nodes: Seq(Entry(PNodes)), refs: Seq(Entry(Refs))] :
     Injective(st.fees) /\ Distinct(st.nodes) /\ Distinct(st.refs)}

StoreInv ==
  /\ state \in [Procs -> Good]
  /\ file \in Good \cup {None}
  /\ temp \in [Procs -> Good \cup {None, Torn}]

\* An empty state repeats nothing.
LEMMA NewStateGood == NewState \in Good
BY DEF NewState, Good, Injective, Distinct

\* A method of a process changes its state to a good one.
LEMMA CallStep ==
  ASSUME StoreInv, NEW p \in Procs, NEW st \in Good, UNCHANGED <<file, temp>>,
         state' = [state EXCEPT ![p] = st]
  PROVE  StoreInv'
BY DEF StoreInv

\* Adding and allocating fee outputs keeps the invariant.
LEMMA FeesStep ==
  ASSUME StoreInv, NEW p \in Procs,
         \/ \E u \in Coins : AddFeeUTXO(p, u)
         \/ \E min \in Minima : AllocateFeeUTXO(p, min)
  PROVE  StoreInv'
<1>1. PICK st \in Good : st = state[p]
  BY DEF StoreInv
<1>2. /\ st.fees \in Seq(Coins) /\ Injective(st.fees)
      /\ \A f : f \in Seq(Coins) /\ Injective(f) => [st EXCEPT !.fees = f] \in Good
  BY DEF Good
<1>3. ASSUME NEW f, f \in Seq(Coins), Injective(f), UNCHANGED <<file, temp>>,
             state' = [state EXCEPT ![p].fees = f]
      PROVE  StoreInv'
  <2>1. [st EXCEPT !.fees = f] \in Good
    BY <1>2, <1>3
  <2>2. state' = [state EXCEPT ![p] = [st EXCEPT !.fees = f]]
    BY <1>1, <1>3 DEF StoreInv
  <2> QED
    BY <1>3, <2>1, <2>2, CallStep
<1>4. ASSUME NEW u \in Coins, AddFeeUTXO(p, u) PROVE StoreInv'
  <2>1. PICK f : f = Append(st.fees, u)
    OBVIOUS
  <2>2. \A i \in DOMAIN st.fees : st.fees[i] # u
    BY <1>1, <1>2, <1>4 DEF AddFeeUTXO, Contains
  <2>3. f \in Seq(Coins) /\ Injective(f)
    <3>1. PICK s \in Seq(Coins) : s = st.fees
      BY <1>2
    <3>2. Len(s) \in Nat /\ DOMAIN s = 1 .. Len(s)
      OBVIOUS
    <3>3. /\ f \in Seq(Coins) /\ DOMAIN f = 1 .. Len(s) + 1
          /\ \A j \in 1 .. Len(s) : f[j] = s[j]
          /\ f[Len(s) + 1] = u
      BY <2>1, <3>1, <3>2
    <3>4. \A a \in 1 .. Len(s) : f[a] # f[Len(s) + 1]
      BY <2>2, <3>1, <3>2, <3>3
    <3>5. \A a, b \in 1 .. Len(s) : f[a] = f[b] => a = b
      BY <1>2, <3>1, <3>2, <3>3 DEF Injective
    <3>6. \A a \in DOMAIN f : a \in 1 .. Len(s) \/ a = Len(s) + 1
      BY <3>2, <3>3
    <3> QED
      BY <3>3, <3>4, <3>5, <3>6 DEF Injective
  <2>4. state' = [state EXCEPT ![p].fees = f] /\ UNCHANGED <<file, temp>>
    BY <1>1, <1>4, <2>1 DEF AddFeeUTXO, Call, StoreInv
  <2> QED
    BY <1>3, <2>3, <2>4
<1>5. ASSUME NEW min \in Minima, AllocateFeeUTXO(p, min) PROVE StoreInv'
  <2>1. UNCHANGED <<file, temp>>
    BY <1>5 DEF AllocateFeeUTXO, Call
  <2>2. CASE state' = state
    BY <2>1, <2>2 DEF StoreInv
  <2>3. CASE state' # state
    <3>1. PICK i : i = BestIdx(st.fees, min)
      OBVIOUS
    <3>2. PICK f : f = SwapRemove(st.fees, i)
      OBVIOUS
    <3>3. state' = [state EXCEPT ![p].fees = f]
      BY <1>1, <1>5, <2>3, <3>1, <3>2 DEF AllocateFeeUTXO, StoreInv
    <3>4. f \in Seq(Coins) /\ Injective(f)
      BY <1>2, <3>2, SwapRemoveFacts, SwapRemoveKeeps
    <3> QED
      BY <1>3, <2>1, <3>3, <3>4
  <2> QED
    BY <2>2, <2>3
<1> QED
  BY <1>4, <1>5

\* Setting and removing nodes keeps the invariant.
LEMMA NodesStep ==
  ASSUME StoreInv, NEW p \in Procs, NEW k \in PNodes,
         RemoveNodeUTXO(p, k) \/ \E v \in Txids : SetNodeUTXO(p, k, v)
  PROVE  StoreInv'
<1>1. PICK st \in Good : st = state[p]
  BY DEF StoreInv
<1>2. /\ st.nodes \in Seq(Entry(PNodes)) /\ Distinct(st.nodes)
      /\ \A s : s \in Seq(Entry(PNodes)) /\ Distinct(s) => [st EXCEPT !.nodes = s] \in Good
  BY DEF Good
<1>3. ASSUME NEW s, s \in Seq(Entry(PNodes)), Distinct(s), UNCHANGED <<file, temp>>,
             state' = [state EXCEPT ![p].nodes = s]
      PROVE  StoreInv'
  <2>1. [st EXCEPT !.nodes = s] \in Good
    BY <1>2, <1>3
  <2>2. state' = [state EXCEPT ![p] = [st EXCEPT !.nodes = s]]
    BY <1>1, <1>3 DEF StoreInv
  <2> QED
    BY <1>3, <2>1, <2>2, CallStep
<1>4. CASE RemoveNodeUTXO(p, k)
  <2>1. PICK s : s = RemoveEntry(st.nodes, k)
    OBVIOUS
  <2>2. s \in Seq(Entry(PNodes)) /\ Distinct(s)
    BY <1>2, <2>1, TableKept
  <2>3. state' = [state EXCEPT ![p].nodes = s] /\ UNCHANGED <<file, temp>>
    BY <1>1, <1>4, <2>1 DEF RemoveNodeUTXO, Call, StoreInv
  <2> QED
    BY <1>3, <2>2, <2>3
<1>5. ASSUME NEW v \in Txids, SetNodeUTXO(p, k, v) PROVE StoreInv'
  <2>1. PICK s : s = SetEntry(st.nodes, k, v)
    OBVIOUS
  <2>2. s \in Seq(Entry(PNodes)) /\ Distinct(s)
    BY <1>2, <2>1, TableKept
  <2>3. state' = [state EXCEPT ![p].nodes = s] /\ UNCHANGED <<file, temp>>
    BY <1>1, <1>5, <2>1 DEF SetNodeUTXO, Call, StoreInv
  <2> QED
    BY <1>3, <2>2, <2>3
<1> QED
  BY <1>4, <1>5

\* The same of refs.
LEMMA RefsStep ==
  ASSUME StoreInv, NEW p \in Procs, NEW k \in Refs,
         RemoveRefUTXO(p, k) \/ \E v \in Txids : SetRefUTXO(p, k, v)
  PROVE  StoreInv'
<1>1. PICK st \in Good : st = state[p]
  BY DEF StoreInv
<1>2. /\ st.refs \in Seq(Entry(Refs)) /\ Distinct(st.refs)
      /\ \A s : s \in Seq(Entry(Refs)) /\ Distinct(s) => [st EXCEPT !.refs = s] \in Good
  BY DEF Good
<1>3. ASSUME NEW s, s \in Seq(Entry(Refs)), Distinct(s), UNCHANGED <<file, temp>>,
             state' = [state EXCEPT ![p].refs = s]
      PROVE  StoreInv'
  <2>1. [st EXCEPT !.refs = s] \in Good
    BY <1>2, <1>3
  <2>2. state' = [state EXCEPT ![p] = [st EXCEPT !.refs = s]]
    BY <1>1, <1>3 DEF StoreInv
  <2> QED
    BY <1>3, <2>1, <2>2, CallStep
<1>4. CASE RemoveRefUTXO(p, k)
  <2>1. PICK s : s = RemoveEntry(st.refs, k)
    OBVIOUS
  <2>2. s \in Seq(Entry(Refs)) /\ Distinct(s)
    BY <1>2, <2>1, TableKept
  <2>3. state' = [state EXCEPT ![p].refs = s] /\ UNCHANGED <<file, temp>>
    BY <1>1, <1>4, <2>1 DEF RemoveRefUTXO, Call, StoreInv
  <2> QED
    BY <1>3, <2>2, <2>3
<1>5. ASSUME NEW v \in Txids, SetRefUTXO(p, k, v) PROVE StoreInv'
  <2>1. PICK s : s = SetEntry(st.refs, k, v)
    OBVIOUS
  <2>2. s \in Seq(Entry(Refs)) /\ Distinct(s)
    BY <1>2, <2>1, TableKept
  <2>3. state' = [state EXCEPT ![p].refs = s] /\ UNCHANGED <<file, temp>>
    BY <1>1, <1>5, <2>1 DEF SetRefUTXO, Call, StoreInv
  <2> QED
    BY <1>3, <2>2, <2>3
<1> QED
  BY <1>4, <1>5

\* Loading, saving and restarting move whole states between memory and file.
LEMMA FileStep ==
  ASSUME StoreInv, NEW p \in Procs,
         \/ Restart(p) \/ Load(p)
         \/ CreateTemp(p) \/ WriteTemp(p) \/ Rename(p) \/ SaveFails(p)
  PROVE  StoreInv'
<1>1. CASE Restart(p)
  BY <1>1, NewStateGood DEF StoreInv, Restart
<1>2. CASE Load(p)
  <2>1. PICK st : st = IF file = None THEN NewState ELSE file
    OBVIOUS
  <2>2. st \in Good
    BY <2>1, NewStateGood DEF StoreInv
  <2>3. CASE state' = [state EXCEPT ![p] = st]
    BY <1>2, <2>2, <2>3, CallStep DEF Load, Call
  <2>4. CASE UNCHANGED state
    BY <1>2, <2>4 DEF Load, Call, StoreInv
  <2> QED
    BY <1>2, <2>1, <2>3, <2>4 DEF Load
<1>3. CASE CreateTemp(p)
  BY <1>3 DEF StoreInv, CreateTemp
<1>4. CASE WriteTemp(p)
  BY <1>4 DEF StoreInv, WriteTemp
<1>5. CASE Rename(p)
  BY <1>5 DEF StoreInv, Rename
<1>6. CASE SaveFails(p)
  BY <1>6 DEF StoreInv, SaveFails
<1> QED
  BY <1>1, <1>2, <1>3, <1>4, <1>5, <1>6

\* The invariant implies the property.
LEMMA StoreInvKeys == StoreInv => KeysUnique
<1> SUFFICES ASSUME StoreInv, NEW p \in Procs
             PROVE  /\ IsInjective(state[p].fees)
                    /\ \A s \in {state[p].nodes, state[p].refs} :
                         IsInjective([i \in DOMAIN s |-> s[i].key])
  BY DEF KeysUnique
<1>1. PICK st \in Good : st = state[p]
  BY DEF StoreInv
<1>2. Injective(st.fees) /\ Distinct(st.nodes) /\ Distinct(st.refs)
  BY DEF Good
<1>3. ASSUME NEW s, Distinct(s) PROVE IsInjective([i \in DOMAIN s |-> s[i].key])
  BY <1>3 DEF Distinct, IsInjective
<1> QED
  BY <1>1, <1>2, <1>3 DEF Injective, IsInjective

\* No step breaks the invariant.
LEMMA StoreInvStep == StoreInv /\ [Next]_vars => StoreInv'
<1> SUFFICES ASSUME StoreInv, [Next]_vars PROVE StoreInv'
  OBVIOUS
<1>1. CASE UNCHANGED vars
  BY <1>1 DEF vars, StoreInv
<1>2. ASSUME NEW p \in Procs,
             \/ Restart(p) \/ Load(p)
             \/ CreateTemp(p) \/ WriteTemp(p) \/ Rename(p) \/ SaveFails(p)
      PROVE  StoreInv'
  BY <1>2, FileStep
<1>3. ASSUME NEW p \in Procs,
             \/ \E u \in Coins : AddFeeUTXO(p, u)
             \/ \E min \in Minima : AllocateFeeUTXO(p, min)
      PROVE  StoreInv'
  BY <1>3, FeesStep
<1> QED
  BY <1>1, <1>2, <1>3, NodesStep, RefsStep DEF Next

\* Whatever order of Set, Remove, Add and Allocate, of loads, failed saves and
\* restarts, and however many processes share the file: no slice of a store
\* holds two entries for one thing (the loops of store.go stop at the first).
THEOREM KeysUniqueEver == Spec => []KeysUnique
<1>1. Init => StoreInv
  BY NewStateGood DEF Init, StoreInv
<1>2. StoreInv /\ [Next]_vars => StoreInv'
  BY StoreInvStep
<1>3. StoreInv => KeysUnique
  BY StoreInvKeys
<1> QED
  BY <1>1, <1>2, <1>3, PTL DEF Spec
==============================================================================
