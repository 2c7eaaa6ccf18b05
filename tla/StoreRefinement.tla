-------------------------- MODULE StoreRefinement --------------------------
(***************************************************************************)
(* Proof that UtxoStore implements StoreSpec: the slices are the sets and  *)
(* tables that the callers of the store take them for, and a Save is one   *)
(* step of the file.                                                       *)
(***************************************************************************)
EXTENDS StoreProofs

-----------------------------------------------------------------------------
(* AllocateFeeUTXO.                                                        *)

\* The loop of AllocateFeeUTXO: at each index the best so far.
Better(fees, min, i, best) ==
  /\ fees[i].amount >= min
  /\ best = 0 \/ fees[i].amount < fees[best].amount

\* The loop ends with an index that it went through, one step after another.
LEMMA BestIdxLoop ==
  ASSUME NEW fees \in Seq(Coins), NEW min
  PROVE  \E f \in [0 .. Len(fees) -> 0 .. Len(fees)] :
           /\ f[0] = 0
           /\ \A n \in 1 .. Len(fees) :
                f[n] = IF Better(fees, min, n, f[n - 1]) THEN n ELSE f[n - 1]
           /\ BestIdx(fees, min) = f[Len(fees)]
<1>1. PICK N \in Nat : N = Len(fees)
  OBVIOUS
<1>2. PICK g : g = [ss \in (1 .. N) \X (0 .. N) |->
                      IF Better(fees, min, ss[1], ss[2]) THEN ss[1] ELSE ss[2]]
  OBVIOUS
<1>3. g \in [(1 .. N) \X (0 .. N) -> 0 .. N]
  <2>1. \A ss \in (1 .. N) \X (0 .. N) : ss[1] \in 0 .. N /\ ss[2] \in 0 .. N
    OBVIOUS
  <2> QED
    BY <1>2, <2>1
<1>4. PICK f \in [0 .. N -> 0 .. N] : f[0] = 0 /\ \A n \in 1 .. N : f[n] = g[<<n, f[n - 1]>>]
  <2>1. 0 \in 0 .. N /\ g \in StepFunctions(N, 0 .. N)
    BY <1>3 DEF StepFunctions
  <2>2. PICK f : GoesOn(f, N, 0 .. N, 0, g)
    BY <2>1, RecursionExists
  <2> QED
    BY <2>2 DEF GoesOn
<1>5. \A n \in 1 .. N : f[n] = IF Better(fees, min, n, f[n - 1]) THEN n ELSE f[n - 1]
  <2> SUFFICES ASSUME NEW n \in 1 .. N
               PROVE  f[n] = IF Better(fees, min, n, f[n - 1]) THEN n ELSE f[n - 1]
    OBVIOUS
  <2>1. PICK m \in 0 .. N : m = f[n - 1]
    OBVIOUS
  <2>2. f[n] = g[<<n, m>>]
    BY <1>4, <2>1
  <2>3. PICK ss \in (1 .. N) \X (0 .. N) : ss = <<n, m>>
    OBVIOUS
  <2>4. g[ss] = IF Better(fees, min, ss[1], ss[2]) THEN ss[1] ELSE ss[2]
    BY <1>2
  <2> QED
    BY <2>1, <2>2, <2>3, <2>4
<1>6. PICK h : h = [n \in 0 .. N |-> IF n = 0 THEN 0 ELSE
                      IF Better(fees, min, n, f[n - 1]) THEN n ELSE f[n - 1]]
  OBVIOUS
<1>7. \A n \in 0 .. N : n = 0 \/ n \in 1 .. N
  OBVIOUS
<1>8. \A n \in 0 .. N : f[n] = h[n]
  BY <1>4, <1>5, <1>6, <1>7
<1>9. f = h
  BY <1>6, <1>8
<1>10. f = [n \in 0 .. N |-> IF n = 0 THEN 0 ELSE
                      IF Better(fees, min, n, f[n - 1]) THEN n ELSE f[n - 1]]
  BY <1>6, <1>9
<1> DEFINE F(e) == e = [n \in 0 .. N |-> IF n = 0 THEN 0 ELSE
                          IF Better(fees, min, n, e[n - 1]) THEN n ELSE e[n - 1]]
<1>11. F(f)
  BY <1>10
<1>12. PICK e : e = CHOOSE x : F(x)
  OBVIOUS
<1>13. F(e)
  <2> HIDE DEF F
  <2> QED
    BY <1>11, <1>12
<1>14. BestIdx(fees, min) = e[N]
  BY <1>1, <1>12 DEF BestIdx, Better
<1>15. ASSUME NEW a, F(a) PROVE a[N] = f[N]
  <2>1. PICK T : T = {n \in 0 .. N : a[n] = f[n]}
    OBVIOUS
  <2>2. /\ a[0] = 0
        /\ \A n \in 1 .. N : a[n] = IF Better(fees, min, n, a[n - 1]) THEN n ELSE a[n - 1]
    <3>1. PICK b : b = [n \in 0 .. N |-> IF n = 0 THEN 0 ELSE
                          IF Better(fees, min, n, a[n - 1]) THEN n ELSE a[n - 1]]
      OBVIOUS
    <3>2. a = b
      BY <1>15, <3>1
    <3>3. b[0] = 0
      BY <3>1
    <3>4. ASSUME NEW n \in 1 .. N
          PROVE  b[n] = IF Better(fees, min, n, a[n - 1]) THEN n ELSE a[n - 1]
      <4>1. n \in 0 .. N /\ n # 0
        OBVIOUS
      <4> QED
        BY <3>1, <4>1
    <3> QED
      BY <3>2, <3>3, <3>4
  <2>3. 0 \in T
    BY <1>4, <2>1, <2>2
  <2>4. ASSUME NEW n \in 0 .. N, n \in T, n < N PROVE n + 1 \in T
    <3>1. n + 1 \in 1 .. N /\ (n + 1) - 1 = n
      BY <2>4
    <3>2. PICK m \in 1 .. N : m = n + 1 /\ m - 1 = n
      BY <3>1
    <3>3. a[m - 1] = f[m - 1]
      BY <2>1, <2>4, <3>2
    <3>4. a[m] = f[m]
      <4> HIDE DEF F
      <4> QED
        BY <1>5, <2>2, <3>3
    <3> QED
      BY <2>1, <3>2, <3>4
  <2> HIDE DEF F
  <2>5. \A n \in 0 .. N : n \in T
    BY <2>3, <2>4, UpTo
  <2>6. N \in 0 .. N
    OBVIOUS
  <2> QED
    BY <2>1, <2>5, <2>6
<1>16. BestIdx(fees, min) = f[N]
  <2> HIDE DEF F
  <2> QED
    BY <1>13, <1>14, <1>15
<1> QED
  BY <1>1, <1>4, <1>5, <1>16

\* BestIdx is 0 if no output suffices, and else finds a smallest that does.
LEMMA BestIdxFacts ==
  ASSUME NEW fees \in Seq(Coins), NEW min \in Nat
  PROVE  /\ BestIdx(fees, min) \in 0 .. Len(fees)
         /\ BestIdx(fees, min) = 0 => \A i \in 1 .. Len(fees) : ~(fees[i].amount >= min)
         /\ BestIdx(fees, min) # 0 =>
              /\ fees[BestIdx(fees, min)].amount >= min
              /\ \A i \in 1 .. Len(fees) : fees[i].amount >= min
                    => fees[BestIdx(fees, min)].amount <= fees[i].amount
<1>1. PICK N \in Nat : N = Len(fees)
  OBVIOUS
<1>2. PICK a : a = [i \in 1 .. N |-> fees[i].amount]
  OBVIOUS
<1>3. \A i \in 1 .. N : a[i] \in Nat /\ a[i] = fees[i].amount
  BY <1>1, <1>2, StoreAssumption
<1>4. PICK f \in [0 .. N -> 0 .. N] :
        /\ f[0] = 0
        /\ \A n \in 1 .. N : f[n] = IF Better(fees, min, n, f[n - 1]) THEN n ELSE f[n - 1]
        /\ BestIdx(fees, min) = f[N]
  BY <1>1, BestIdxLoop
<1> DEFINE Best(n, b) ==
      /\ b \in 0 .. n
      /\ b = 0 => \A i \in 1 .. n : ~(a[i] >= min)
      /\ b # 0 => a[b] >= min /\ \A i \in 1 .. n : a[i] >= min => a[b] <= a[i]
<1>5. PICK T : T = {n \in 0 .. N : Best(n, f[n])}
  OBVIOUS
<1>6. 0 \in T
  BY <1>4, <1>5
<1>7. ASSUME NEW n \in 0 .. N, n \in T, n < N PROVE n + 1 \in T
  <2>1. PICK m \in 1 .. N : m = n + 1
    BY <1>7
  <2>2. m - 1 = n /\ Best(n, f[n])
    BY <1>5, <1>7, <2>1
  <2>3. PICK b \in 0 .. N : b = f[n]
    OBVIOUS
  <2>4. PICK c \in 0 .. N : c = f[m]
    OBVIOUS
  <2>5. Best(n, b)
    BY <2>2, <2>3
  <2>6. \A i \in 1 .. m : i \in 1 .. n \/ i = m
    BY <2>1
  <2>7. c = IF a[m] >= min /\ (b = 0 \/ a[m] < a[b]) THEN m ELSE b
    <3>1. b # 0 => b \in 1 .. N
      OBVIOUS
    <3> QED
      BY <1>3, <1>4, <2>2, <2>3, <2>4, <3>1 DEF Better
  <2>8. Best(m, c)
    <3>1. m \in 1 .. m /\ \A i \in 1 .. m : a[i] \in Nat
      BY <1>3
    <3>2. n \in Nat /\ m = n + 1
      BY <2>1
    <3>3. CASE a[m] >= min /\ (b = 0 \/ a[m] < a[b])
      <4>1. c = m
        BY <2>7, <3>3
      <4>2. ASSUME NEW i \in 1 .. m, a[i] >= min PROVE a[m] <= a[i]
        <5>1. CASE i = m
          BY <3>1, <5>1, SMTT(60)
        <5>2. CASE i \in 1 .. n
          <6>1. b # 0 /\ a[b] <= a[i]
            BY <2>5, <4>2, <5>2
          <6>2. b \in 1 .. m /\ a[m] < a[b]
            BY <2>5, <3>2, <3>3, <6>1
          <6> QED
            <7>1. a[m] \in Nat /\ a[i] \in Nat /\ a[b] \in Nat
              BY <3>1, <6>2
            <7>2. \A x, y, z \in Nat : x < y /\ y <= z => x <= z
              OBVIOUS
            <7> QED
              BY <6>1, <6>2, <7>1, <7>2, Zenon
        <5> QED
          BY <2>6, <5>1, <5>2
      <4> QED
        BY <3>2, <3>3, <4>1, <4>2
    <3>4. CASE ~(a[m] >= min /\ (b = 0 \/ a[m] < a[b]))
      <4>1. c = b
        BY <2>7, <3>4
      <4>2. CASE b = 0
        BY <2>5, <2>6, <3>2, <3>4, <4>1, <4>2, SMTT(60)
      <4>3. CASE b # 0
        <5>1. b \in 1 .. n /\ a[b] >= min
          BY <2>5, <4>3
        <5>2. b \in 1 .. m
          BY <3>2, <5>1
        <5>3. a[m] >= min => a[b] <= a[m]
          <6>1. a[m] \in Nat /\ a[b] \in Nat
            BY <3>1, <5>2
          <6>2. \A x, y \in Nat : ~(x < y) => y <= x
            OBVIOUS
          <6> QED
            BY <3>4, <4>3, <6>1, <6>2, Zenon
        <5>4. \A i \in 1 .. m : a[i] >= min => a[b] <= a[i]
          BY <2>5, <2>6, <4>3, <5>3
        <5> QED
          BY <3>2, <4>1, <4>3, <5>1, <5>2, <5>4
      <4> QED
        BY <4>2, <4>3
    <3> QED
      BY <3>3, <3>4
  <2> HIDE DEF Best
  <2> QED
    BY <1>5, <2>1, <2>4, <2>8
<1>8. PICK b : b = f[N]
  OBVIOUS
<1>9. Best(N, b)
  <2>1. N \in T
    <3>1. N \in 0 .. N
      OBVIOUS
    <3> HIDE DEF Best
    <3> QED
      BY <1>6, <1>7, <3>1, UpTo
  <2> HIDE DEF Best
  <2> QED
    BY <1>5, <1>8, <2>1
<1> QED
  BY <1>1, <1>3, <1>4, <1>8, <1>9

-----------------------------------------------------------------------------
(* Slices as sets.                                                         *)

\* Removing a position of a slice without repetitions removes one element.
LEMMA SwapRemoveSet ==
  ASSUME NEW S, NEW s \in Seq(S), Injective(s), NEW i \in 1 .. Len(s)
  PROVE  ToSet(SwapRemove(s, i)) = ToSet(s) \ {s[i]}
<1>1. PICK t : t = SwapRemove(s, i)
  OBVIOUS
<1>2. PICK N \in Nat : N = Len(s) /\ N # 0
  OBVIOUS
<1>3. DOMAIN s = 1 .. N /\ DOMAIN t = 1 .. N - 1
  BY <1>1, <1>2, SwapRemoveFacts
<1>4. \A j \in 1 .. N - 1 : t[j] = IF j = i THEN s[N] ELSE s[j]
  BY <1>1, <1>2, SwapRemoveFacts
<1>5. i \in 1 .. N /\ \A j, k \in 1 .. N : s[j] = s[k] => j = k
  BY <1>2, <1>3 DEF Injective
<1>6. ASSUME NEW j \in DOMAIN t PROVE t[j] \in {s[k] : k \in DOMAIN s} \ {s[i]}
  <2>1. PICK k : k = IF j = i THEN N ELSE j
    OBVIOUS
  <2>2. k \in 1 .. N /\ k # i /\ t[j] = s[k]
    BY <1>2, <1>3, <1>4, <1>5, <1>6, <2>1
  <2>3. s[k] # s[i]
    BY <1>5, <2>2
  <2> QED
    BY <1>3, <2>2, <2>3
<1>7. ASSUME NEW k \in DOMAIN s, s[k] # s[i] PROVE \E j \in DOMAIN t : t[j] = s[k]
  <2>1. PICK j : j = IF k = N THEN i ELSE k
    OBVIOUS
  <2>2. j \in 1 .. N - 1
    BY <1>2, <1>3, <1>5, <1>7, <2>1
  <2>3. t[j] = s[k]
    BY <1>3, <1>4, <1>7, <2>1, <2>2
  <2> QED
    BY <1>3, <2>2, <2>3
<1>8. {t[j] : j \in DOMAIN t} = {s[k] : k \in DOMAIN s} \ {s[i]}
  BY <1>6, <1>7
<1> QED
  BY <1>1, <1>8 DEF ToSet

\* Appending adds one element.
LEMMA AppendSet ==
  ASSUME NEW S, NEW s \in Seq(S), NEW e \in S
  PROVE  ToSet(Append(s, e)) = ToSet(s) \cup {e}
<1>1. PICK N \in Nat : N = Len(s) /\ DOMAIN s = 1 .. N
  OBVIOUS
<1>2. PICK t : t = Append(s, e)
  OBVIOUS
<1>3. /\ DOMAIN t = 1 .. N + 1
      /\ \A j \in 1 .. N : t[j] = s[j]
      /\ t[N + 1] = e
  BY <1>1, <1>2
<1>4. \A a \in DOMAIN t : a \in 1 .. N \/ a = N + 1
  BY <1>1, <1>3
<1>5. 1 .. N \subseteq DOMAIN t /\ N + 1 \in DOMAIN t
  BY <1>1, <1>3
<1>6. \A a \in DOMAIN t : t[a] \in {s[k] : k \in DOMAIN s} \cup {e}
  BY <1>1, <1>3, <1>4
<1>7. \A k \in DOMAIN s : s[k] \in {t[a] : a \in DOMAIN t}
  BY <1>1, <1>3, <1>5
<1>8. e \in {t[a] : a \in DOMAIN t}
  BY <1>3, <1>5
<1>9. {t[a] : a \in DOMAIN t} = {s[k] : k \in DOMAIN s} \cup {e}
  BY <1>6, <1>7, <1>8
<1> QED
  BY <1>2, <1>9 DEF ToSet

-----------------------------------------------------------------------------
(* Slices as tables.                                                       *)

\* What a table holds for a key.
LEMMA GetEntryFacts ==
  ASSUME NEW S, NEW s \in Seq(S), Distinct(s), NEW k
  PROVE  /\ (\A i \in DOMAIN s : s[i].key # k) => GetEntry(s, k) = None
         /\ \A i \in DOMAIN s : s[i].key = k => GetEntry(s, k) = s[i].txid
<1>1. PICK i : i = IndexOf(s, k)
  OBVIOUS
<1>2. /\ i = 0 => \A j \in DOMAIN s : s[j].key # k
      /\ i # 0 => i \in DOMAIN s /\ s[i].key = k
  BY <1>1, IndexOfFacts
<1>3. GetEntry(s, k) = IF i = 0 THEN None ELSE s[i].txid
  BY <1>1 DEF GetEntry
<1>4. \A j \in DOMAIN s : s[j].key = k => i # 0 /\ i = j
  BY <1>2 DEF Distinct
<1> QED
  BY <1>2, <1>3, <1>4

\* Set changes one entry of the table.
LEMMA SetEntryTable ==
  ASSUME NEW K, NEW s \in Seq(Entry(K)), Distinct(s), NEW k \in K, NEW v \in Txids, NEW j \in K
  PROVE  GetEntry(SetEntry(s, k, v), j) = IF j = k THEN v ELSE GetEntry(s, j)
<1>1. PICK i : i = IndexOf(s, k)
  OBVIOUS
<1>2. /\ i = 0 => \A n \in DOMAIN s : s[n].key # k
      /\ i # 0 => i \in DOMAIN s /\ s[i].key = k
  BY <1>1, IndexOfFacts
<1>3. PICK e : e = [key |-> k, txid |-> v]
  OBVIOUS
<1>4. e \in Entry(K) /\ e.key = k /\ e.txid = v
  BY <1>3 DEF Entry
<1>5. PICK t : t = SetEntry(s, k, v)
  OBVIOUS
<1>6. t \in Seq(Entry(K)) /\ Distinct(t)
  BY <1>5, TableKept
<1>7. t = IF i = 0 THEN Append(s, e) ELSE [s EXCEPT ![i] = e]
  BY <1>1, <1>3, <1>5 DEF SetEntry, ReplaceAt
<1>8. PICK N \in Nat : N = Len(s) /\ DOMAIN s = 1 .. N
  OBVIOUS
<1>9. PICK at : at = IF i = 0 THEN N + 1 ELSE i
  OBVIOUS
<1>10. DOMAIN t = DOMAIN s \cup {at}
  <2>1. CASE i = 0
    <3>1. DOMAIN t = 1 .. N + 1
      BY <1>4, <1>7, <1>8, <2>1
    <3>2. 1 .. N + 1 = (1 .. N) \cup {N + 1}
      BY <1>8
    <3> QED
      BY <1>8, <1>9, <2>1, <3>1, <3>2
  <2>2. CASE i # 0
    BY <1>2, <1>7, <1>9, <2>2
  <2> QED
    BY <2>1, <2>2
<1>11. t[at] = e
  <2>1. CASE i = 0
    BY <1>4, <1>7, <1>8, <1>9, <2>1
  <2>2. CASE i # 0
    BY <1>2, <1>7, <1>9, <2>2
  <2> QED
    BY <2>1, <2>2
<1>12. \A n \in DOMAIN s : n # at => t[n] = s[n]
  <2>1. CASE i = 0
    BY <1>4, <1>7, <1>8, <1>9, <2>1
  <2>2. CASE i # 0
    BY <1>7, <1>9, <2>2
  <2> QED
    BY <2>1, <2>2
<1>13. at \in DOMAIN s => s[at].key = k
  BY <1>2, <1>8, <1>9
<1>14. CASE j = k
  <2>1. GetEntry(t, j) = t[at].txid
    BY <1>4, <1>6, <1>10, <1>11, <1>14, GetEntryFacts
  <2> QED
    BY <1>4, <1>5, <1>11, <1>14, <2>1
<1>15. CASE j # k
  <2>1. CASE \E n \in DOMAIN s : s[n].key = j
    <3>1. PICK n \in DOMAIN s : s[n].key = j
      BY <2>1
    <3>2. n # at /\ n \in DOMAIN t /\ t[n] = s[n]
      BY <1>10, <1>12, <1>13, <1>15, <3>1
    <3>3. GetEntry(t, j) = t[n].txid
      BY <1>6, <3>1, <3>2, GetEntryFacts
    <3>4. GetEntry(s, j) = s[n].txid
      BY <3>1, GetEntryFacts
    <3> QED
      BY <1>5, <1>15, <3>2, <3>3, <3>4
  <2>2. CASE \A n \in DOMAIN s : s[n].key # j
    <3>1. \A n \in DOMAIN t : t[n].key # j
      BY <1>4, <1>10, <1>11, <1>12, <1>15, <2>2
    <3>2. GetEntry(t, j) = None
      BY <1>6, <3>1, GetEntryFacts
    <3>3. GetEntry(s, j) = None
      BY <2>2, GetEntryFacts
    <3> QED
      BY <1>5, <1>15, <3>2, <3>3
  <2> QED
    BY <2>1, <2>2
<1> QED
  BY <1>14, <1>15

\* Remove takes one entry out of the table.
LEMMA RemoveEntryTable ==
  ASSUME NEW K, NEW s \in Seq(Entry(K)), Distinct(s), NEW k \in K, NEW j \in K
  PROVE  GetEntry(RemoveEntry(s, k), j) = IF j = k THEN None ELSE GetEntry(s, j)
<1>1. PICK i : i = IndexOf(s, k)
  OBVIOUS
<1>2. /\ i \in Nat
      /\ i = 0 => \A n \in DOMAIN s : s[n].key # k
      /\ i # 0 => i \in DOMAIN s /\ s[i].key = k
  BY <1>1, IndexOfFacts
<1>3. CASE i = 0
  <2>1. RemoveEntry(s, k) = s
    BY <1>1, <1>3 DEF RemoveEntry
  <2>2. GetEntry(s, k) = None
    BY <1>2, <1>3, GetEntryFacts
  <2> QED
    BY <2>1, <2>2
<1>4. CASE i # 0
  <2>1. PICK t : t = SwapRemove(s, i)
    OBVIOUS
  <2>2. RemoveEntry(s, k) = t
    BY <1>1, <1>4, <2>1 DEF RemoveEntry
  <2>3. t \in Seq(Entry(K)) /\ Distinct(t)
    BY <2>2, TableKept
  <2>4. PICK N \in Nat : N = Len(s) /\ DOMAIN s = 1 .. N
    OBVIOUS
  <2>5. /\ DOMAIN t = 1 .. N - 1
        /\ \A n \in 1 .. N - 1 : t[n] = IF n = i THEN s[N] ELSE s[n]
    BY <2>1, <2>4, SwapRemoveFacts
  <2>6. i \in 1 .. N /\ s[i].key = k /\ \A m, n \in 1 .. N : s[m].key = s[n].key => m = n
    BY <1>2, <1>4, <2>4 DEF Distinct
  <2>7. \A n \in DOMAIN t : \E m \in 1 .. N : m # i /\ t[n] = s[m]
    <3> SUFFICES ASSUME NEW n \in DOMAIN t
                 PROVE  \E m \in 1 .. N : m # i /\ t[n] = s[m]
      OBVIOUS
    <3>1. PICK m : m = IF n = i THEN N ELSE n
      OBVIOUS
    <3>2. m \in 1 .. N /\ m # i /\ t[n] = s[m]
      BY <2>4, <2>5, <3>1
    <3> QED
      BY <3>2
  <2>8. \A m \in 1 .. N : m # i => \E n \in DOMAIN t : t[n] = s[m]
    <3> SUFFICES ASSUME NEW m \in 1 .. N, m # i
                 PROVE  \E n \in DOMAIN t : t[n] = s[m]
      OBVIOUS
    <3>1. PICK n : n = IF m = N THEN i ELSE m
      OBVIOUS
    <3>2. n \in 1 .. N - 1
      BY <2>6, <3>1
    <3>3. t[n] = s[m]
      BY <2>5, <3>1, <3>2
    <3> QED
      BY <2>5, <3>2, <3>3
  <2>9. CASE j = k
    <3>1. \A n \in DOMAIN t : t[n].key # k
      BY <2>6, <2>7
    <3> QED
      BY <2>2, <2>3, <2>9, <3>1, GetEntryFacts
  <2>10. CASE j # k
    <3>1. CASE \E m \in DOMAIN s : s[m].key = j
      <4>1. PICK m \in DOMAIN s : s[m].key = j
        BY <3>1
      <4>2. PICK n \in DOMAIN t : t[n] = s[m]
        BY <2>4, <2>6, <2>8, <2>10, <4>1
      <4>3. GetEntry(t, j) = t[n].txid
        BY <2>3, <4>1, <4>2, GetEntryFacts
      <4>4. GetEntry(s, j) = s[m].txid
        BY <4>1, GetEntryFacts
      <4> QED
        BY <2>2, <2>10, <4>2, <4>3, <4>4
    <3>2. CASE \A m \in DOMAIN s : s[m].key # j
      <4>1. \A n \in DOMAIN t : t[n].key # j
        BY <2>4, <2>7, <3>2
      <4>2. GetEntry(t, j) = None
        BY <2>3, <4>1, GetEntryFacts
      <4>3. GetEntry(s, j) = None
        BY <3>2, GetEntryFacts
      <4> QED
        BY <2>2, <2>10, <4>2, <4>3
    <3> QED
      BY <3>1, <3>2
  <2> QED
    BY <2>9, <2>10
<1> QED
  BY <1>3, <1>4

-----------------------------------------------------------------------------
(* The steps.  What Save writes is still the state of its process when the *)
(* file is renamed, because the process does nothing else meanwhile.       *)

SavingInv == \A p \in Procs : temp[p] \notin {None, Torn} => temp[p] = state[p]

RefineInv == StoreInv /\ SavingInv

\* The states in memory and in the file, as the callers see them.
Mem == [p \in Procs |-> Seen(state[p])]
Disk == Seen(IF file = None THEN NewState ELSE file)

\* A method changes what the callers of its process see, and nothing else.
LEMMA SeenStep ==
  ASSUME StoreInv, NEW p \in Procs, NEW st, state' = [state EXCEPT ![p] = st],
         UNCHANGED file
  PROVE  /\ Mem' = [Mem EXCEPT ![p] = Seen(st)]
         /\ Disk' = Disk
<1>1. PICK s \in [Procs -> Good] : s = state
  BY DEF StoreInv
<1>2. state' = [s EXCEPT ![p] = st]
  BY <1>1
<1>3. \A q \in Procs : (state')[q] = IF q = p THEN st ELSE s[q]
  BY <1>2
<1>4. Mem = [q \in Procs |-> Seen(s[q])]
  BY <1>1 DEF Mem
<1>5. Mem' = [q \in Procs |-> Seen((state')[q])]
  BY DEF Mem, Seen
<1>6. Mem' = [q \in Procs |-> IF q = p THEN Seen(st) ELSE Seen(s[q])]
  BY <1>3, <1>5
<1> QED
  BY <1>4, <1>6 DEF Disk, Seen

\* An empty state is seen as one.
LEMMA SeenNew == Seen(NewState) = Promise!Empty
<1>1. \A k : GetEntry(<<>>, k) = None
  <2>1. <<>> \in Seq({}) /\ Distinct(<<>>) /\ DOMAIN <<>> = {}
    BY DEF Distinct
  <2> QED
    BY <2>1, GetEntryFacts
<1>2. ToSet(<<>>) = {}
  BY DEF ToSet
<1> QED
  BY <1>1, <1>2 DEF Seen, NewState, Promise!Empty, Promise!EmptyState

\* The three parts of what is seen.
LEMMA SeenParts ==
  ASSUME NEW st
  PROVE  Seen(st) = [fee |-> ToSet(st.fees),
                     node |-> [k \in PNodes |-> GetEntry(st.nodes, k)],
                     head |-> [k \in Refs |-> GetEntry(st.refs, k)]]
BY DEF Seen

\* Another slice of fees is seen as another pool, and as nothing else.
LEMMA SeenFees ==
  ASSUME NEW st \in Good, NEW f
  PROVE  Seen([st EXCEPT !.fees = f]) = [Seen(st) EXCEPT !.fee = ToSet(f)]
<1>1. PICK t : t = [st EXCEPT !.fees = f]
  OBVIOUS
<1>2. t.fees = f /\ t.nodes = st.nodes /\ t.refs = st.refs
  BY <1>1 DEF Good
<1>3. PICK n, h, a, b : /\ n = [k \in PNodes |-> GetEntry(st.nodes, k)]
                        /\ h = [k \in Refs |-> GetEntry(st.refs, k)]
                        /\ a = ToSet(st.fees) /\ b = ToSet(f)
  OBVIOUS
<1>4. Seen(st) = [fee |-> a, node |-> n, head |-> h]
  BY <1>3, SeenParts
<1>5. Seen(t) = [fee |-> b, node |-> n, head |-> h]
  BY <1>2, <1>3, SeenParts
<1>6. [[fee |-> a, node |-> n, head |-> h] EXCEPT !.fee = b] = [fee |-> b, node |-> n, head |-> h]
  OBVIOUS
<1> QED
  BY <1>1, <1>3, <1>4, <1>5, <1>6

\* Adding a fee output adds it to the pool.
LEMMA AddFeeStep ==
  ASSUME StoreInv, NEW p \in Procs, NEW u \in Coins, AddFeeUTXO(p, u)
  PROVE  Promise!AddFeeUTXO(p, u)
<1>1. PICK st \in Good : st = state[p]
  BY DEF StoreInv
<1>2. PICK f : f = Append(st.fees, u)
  OBVIOUS
<1>3. ToSet(f) = ToSet(st.fees) \cup {u}
  BY <1>2, AppendSet DEF Good
<1>4. state' = [state EXCEPT ![p] = [st EXCEPT !.fees = f]]
  BY <1>1, <1>2 DEF AddFeeUTXO, StoreInv
<1>5. Seen([st EXCEPT !.fees = f]) = [Seen(st) EXCEPT !.fee = @ \cup {u}]
  <2>1. Seen(st).fee = ToSet(st.fees)
    BY DEF Seen
  <2> QED
    BY <1>3, <2>1, SeenFees
<1>6. UNCHANGED <<out, file>>
  BY DEF AddFeeUTXO, Call
<1>7. Mem' = [Mem EXCEPT ![p] = Seen([st EXCEPT !.fees = f])] /\ Disk' = Disk
  BY <1>4, <1>6, SeenStep
<1>8. Mem[p] = Seen(st)
  BY <1>1 DEF Mem
<1> QED
  BY <1>5, <1>6, <1>7, <1>8 DEF Promise!AddFeeUTXO, Promise!AddFeeUTXOs, Mem, Disk

\* Allocating takes a smallest of the outputs that suffice out of the pool, or
\* none when none does.
LEMMA AllocateFeeStep ==
  ASSUME StoreInv, NEW p \in Procs, NEW min \in Minima, AllocateFeeUTXO(p, min)
  PROVE  Promise!AllocateFeeUTXO(p, min)
<1>1. PICK st \in Good : st = state[p]
  BY DEF StoreInv
<1>2. PICK s \in Seq(Coins) : s = st.fees /\ Injective(s)
  BY DEF Good
<1>3. PICK i : i = BestIdx(s, min)
  OBVIOUS
<1>4. /\ i \in 0 .. Len(s)
      /\ i = 0 => \A j \in 1 .. Len(s) : ~(s[j].amount >= min)
      /\ i # 0 => /\ s[i].amount >= min
                  /\ \A j \in 1 .. Len(s) : s[j].amount >= min => s[i].amount <= s[j].amount
  <2>1. min \in Nat
    BY StoreAssumption
  <2> QED
    BY <1>3, <2>1, BestIdxFacts
<1>5. Mem[p] = Seen(st) /\ Seen(st).fee = ToSet(s)
  BY <1>1, <1>2 DEF Mem, Seen
<1>6. DOMAIN s = 1 .. Len(s)
  BY <1>2
<1>7. Promise!FeeCandidates(Mem[p], min) =
        {u \in ToSet(s) : /\ u.amount >= min
                          /\ \A v \in ToSet(s) : v.amount >= min => u.amount <= v.amount}
  BY <1>5 DEF Promise!FeeCandidates
<1>8. UNCHANGED <<file, temp>>
  BY DEF AllocateFeeUTXO, Call
<1>9. CASE i = 0
  <2>1. Promise!FeeCandidates(Mem[p], min) = {}
    BY <1>4, <1>6, <1>7, <1>9 DEF ToSet
  <2>2. out' = [out EXCEPT ![p] = None] /\ UNCHANGED state
    BY <1>1, <1>2, <1>3, <1>9 DEF AllocateFeeUTXO
  <2> QED
    BY <1>8, <2>1, <2>2 DEF Promise!AllocateFeeUTXO, Mem, Disk
<1>10. CASE i # 0
  <2>1. PICK u : u = s[i]
    OBVIOUS
  <2>2. i \in 1 .. Len(s) /\ u \in ToSet(s)
    BY <1>4, <1>6, <1>10, <2>1 DEF ToSet
  <2>3. u \in Promise!FeeCandidates(Mem[p], min)
    BY <1>4, <1>6, <1>7, <1>10, <2>1, <2>2 DEF ToSet
  <2>4. PICK f : f = SwapRemove(s, i)
    OBVIOUS
  <2>5. ToSet(f) = ToSet(s) \ {u}
    BY <1>2, <2>1, <2>2, <2>4, SwapRemoveSet
  <2>6. out' = [out EXCEPT ![p] = u] /\ state' = [state EXCEPT ![p] = [st EXCEPT !.fees = f]]
    BY <1>1, <1>2, <1>3, <1>10, <2>1, <2>4 DEF AllocateFeeUTXO, StoreInv
  <2>7. Seen([st EXCEPT !.fees = f]) = [Seen(st) EXCEPT !.fee = @ \ {u}]
    <3>1. Seen([st EXCEPT !.fees = f]) = [Seen(st) EXCEPT !.fee = ToSet(f)]
      BY SeenFees
    <3>2. Seen(st).fee \ {u} = ToSet(f)
      BY <1>5, <2>5
    <3> QED
      BY <3>1, <3>2
  <2>8. Mem' = [Mem EXCEPT ![p] = Seen([st EXCEPT !.fees = f])] /\ Disk' = Disk
    BY <1>8, <2>6, SeenStep
  <2>9. Mem' = [Mem EXCEPT ![p] = Promise!TakeFeeUTXO(@, u)]
    BY <1>5, <2>7, <2>8 DEF Promise!TakeFeeUTXO
  <2> QED
    BY <1>8, <2>3, <2>6, <2>8, <2>9 DEF Promise!AllocateFeeUTXO, Mem, Disk
<1> QED
  BY <1>9, <1>10

\* A change of the node slice is a change of the node table.
LEMMA NodesSeen ==
  ASSUME StoreInv, NEW p \in Procs, NEW k \in PNodes, NEW v, NEW s,
         \A j \in PNodes : GetEntry(s, j) = IF j = k THEN v ELSE GetEntry(state[p].nodes, j),
         state' = [state EXCEPT ![p].nodes = s], UNCHANGED <<out, file>>
  PROVE  Promise!PutNode(p, k, v)
<1>1. PICK st \in Good : st = state[p]
  BY DEF StoreInv
<1>2. state' = [state EXCEPT ![p] = [st EXCEPT !.nodes = s]]
  BY <1>1 DEF StoreInv
<1>3. PICK t : t = [st EXCEPT !.nodes = s]
  OBVIOUS
<1>4. t.nodes = s /\ t.fees = st.fees /\ t.refs = st.refs
  BY <1>3 DEF Good
<1>5. Seen(t) = [Seen(st) EXCEPT !.node[k] = v]
  <2>1. PICK n, m, h, a : /\ n = [j \in PNodes |-> GetEntry(st.nodes, j)]
                          /\ m = [j \in PNodes |-> GetEntry(s, j)]
                          /\ h = [j \in Refs |-> GetEntry(st.refs, j)]
                          /\ a = ToSet(st.fees)
    OBVIOUS
  <2>2. Seen(st) = [fee |-> a, node |-> n, head |-> h]
    BY <2>1, SeenParts
  <2>3. Seen(t) = [fee |-> a, node |-> m, head |-> h]
    BY <1>4, <2>1, SeenParts
  <2>4. m = [n EXCEPT ![k] = v]
    BY <1>1, <2>1
  <2> QED
    BY <2>2, <2>3, <2>4
<1>6. Mem' = [Mem EXCEPT ![p] = Seen(t)] /\ Disk' = Disk
  BY <1>2, <1>3, SeenStep
<1>7. Mem[p] = Seen(st)
  BY <1>1 DEF Mem
<1> QED
  BY <1>5, <1>6, <1>7 DEF Promise!PutNode, Mem, Disk

\* A change of the ref slice is a change of the table of branch heads.
LEMMA RefsSeen ==
  ASSUME StoreInv, NEW p \in Procs, NEW k \in Refs, NEW v, NEW s,
         \A j \in Refs : GetEntry(s, j) = IF j = k THEN v ELSE GetEntry(state[p].refs, j),
         state' = [state EXCEPT ![p].refs = s], UNCHANGED <<out, file>>
  PROVE  Promise!PutRef(p, k, v)
<1>1. PICK st \in Good : st = state[p]
  BY DEF StoreInv
<1>2. state' = [state EXCEPT ![p] = [st EXCEPT !.refs = s]]
  BY <1>1 DEF StoreInv
<1>3. PICK t : t = [st EXCEPT !.refs = s]
  OBVIOUS
<1>4. t.nodes = st.nodes /\ t.fees = st.fees /\ t.refs = s
  BY <1>3 DEF Good
<1>5. Seen(t) = [Seen(st) EXCEPT !.head[k] = v]
  <2>1. PICK n, h, g, a : /\ n = [j \in PNodes |-> GetEntry(st.nodes, j)]
                          /\ h = [j \in Refs |-> GetEntry(st.refs, j)]
                          /\ g = [j \in Refs |-> GetEntry(s, j)]
                          /\ a = ToSet(st.fees)
    OBVIOUS
  <2>2. Seen(st) = [fee |-> a, node |-> n, head |-> h]
    BY <2>1, SeenParts
  <2>3. Seen(t) = [fee |-> a, node |-> n, head |-> g]
    BY <1>4, <2>1, SeenParts
  <2>4. g = [h EXCEPT ![k] = v]
    BY <1>1, <2>1
  <2> QED
    BY <2>2, <2>3, <2>4
<1>6. Mem' = [Mem EXCEPT ![p] = Seen(t)] /\ Disk' = Disk
  BY <1>2, <1>3, SeenStep
<1>7. Mem[p] = Seen(st)
  BY <1>1 DEF Mem
<1> QED
  BY <1>5, <1>6, <1>7 DEF Promise!PutRef, Promise!SetRefUTXO, Mem, Disk

\* The methods of the two tables change one entry.
LEMMA TableStep ==
  ASSUME StoreInv, NEW p \in Procs
  PROVE  /\ \A k \in PNodes : /\ RemoveNodeUTXO(p, k) => Promise!PutNode(p, k, None)
                              /\ \A v \in Txids : SetNodeUTXO(p, k, v) => Promise!PutNode(p, k, v)
         /\ \A k \in Refs : /\ RemoveRefUTXO(p, k) => Promise!PutRef(p, k, None)
                            /\ \A v \in Txids : SetRefUTXO(p, k, v) => Promise!PutRef(p, k, v)
<1>1. PICK st \in Good : st = state[p]
  BY DEF StoreInv
<1>2. /\ st.nodes \in Seq(Entry(PNodes)) /\ Distinct(st.nodes)
      /\ st.refs \in Seq(Entry(Refs)) /\ Distinct(st.refs)
  BY DEF Good
<1>3. ASSUME NEW k \in PNodes, RemoveNodeUTXO(p, k) PROVE Promise!PutNode(p, k, None)
  <2>1. PICK s : s = RemoveEntry(st.nodes, k)
    OBVIOUS
  <2>2. \A j \in PNodes : GetEntry(s, j) = IF j = k THEN None ELSE GetEntry(st.nodes, j)
    BY <1>2, <2>1, RemoveEntryTable
  <2>3. state' = [state EXCEPT ![p].nodes = s] /\ UNCHANGED <<out, file>>
    BY <1>1, <1>3, <2>1 DEF RemoveNodeUTXO, Call, StoreInv
  <2> QED
    BY <1>1, <2>2, <2>3, NodesSeen
<1>4. ASSUME NEW k \in PNodes, NEW v \in Txids, SetNodeUTXO(p, k, v)
      PROVE  Promise!PutNode(p, k, v)
  <2>1. PICK s : s = SetEntry(st.nodes, k, v)
    OBVIOUS
  <2>2. \A j \in PNodes : GetEntry(s, j) = IF j = k THEN v ELSE GetEntry(st.nodes, j)
    BY <1>2, <2>1, SetEntryTable
  <2>3. state' = [state EXCEPT ![p].nodes = s] /\ UNCHANGED <<out, file>>
    BY <1>1, <1>4, <2>1 DEF SetNodeUTXO, Call, StoreInv
  <2> QED
    BY <1>1, <2>2, <2>3, NodesSeen
<1>5. ASSUME NEW k \in Refs, RemoveRefUTXO(p, k) PROVE Promise!PutRef(p, k, None)
  <2>1. PICK s : s = RemoveEntry(st.refs, k)
    OBVIOUS
  <2>2. \A j \in Refs : GetEntry(s, j) = IF j = k THEN None ELSE GetEntry(st.refs, j)
    BY <1>2, <2>1, RemoveEntryTable
  <2>3. state' = [state EXCEPT ![p].refs = s] /\ UNCHANGED <<out, file>>
    BY <1>1, <1>5, <2>1 DEF RemoveRefUTXO, Call, StoreInv
  <2> QED
    BY <1>1, <2>2, <2>3, RefsSeen
<1>6. ASSUME NEW k \in Refs, NEW v \in Txids, SetRefUTXO(p, k, v)
      PROVE  Promise!PutRef(p, k, v)
  <2>1. PICK s : s = SetEntry(st.refs, k, v)
    OBVIOUS
  <2>2. \A j \in Refs : GetEntry(s, j) = IF j = k THEN v ELSE GetEntry(st.refs, j)
    BY <1>2, <2>1, SetEntryTable
  <2>3. state' = [state EXCEPT ![p].refs = s] /\ UNCHANGED <<out, file>>
    BY <1>1, <1>6, <2>1 DEF SetRefUTXO, Call, StoreInv
  <2> QED
    BY <1>1, <2>2, <2>3, RefsSeen
<1> QED
  BY <1>3, <1>4, <1>5, <1>6

\* A restart forgets what was in memory, and a Load that works puts the file
\* there; one that fails is no step.
LEMMA MemoryStep ==
  ASSUME StoreInv, NEW p \in Procs
  PROVE  /\ Restart(p) => Promise!Crash(p)
         /\ Load(p) => Promise!Load(p) \/ UNCHANGED Promise!vars
<1>1. ASSUME Restart(p) PROVE Promise!Crash(p)
  <2>1. /\ state' = [state EXCEPT ![p] = NewState]
        /\ out' = [out EXCEPT ![p] = None] /\ UNCHANGED file
    BY <1>1 DEF Restart
  <2>2. Mem' = [Mem EXCEPT ![p] = Promise!Empty] /\ Disk' = Disk
    BY <2>1, SeenStep, SeenNew
  <2> QED
    BY <2>1, <2>2 DEF Promise!Crash, Mem, Disk
<1>2. ASSUME Load(p) PROVE Promise!Load(p) \/ UNCHANGED Promise!vars
  <2>1. PICK st : st = IF file = None THEN NewState ELSE file
    OBVIOUS
  <2>2. UNCHANGED <<out, file>>
    BY <1>2 DEF Load, Call
  <2>3. CASE state' = [state EXCEPT ![p] = st]
    <3>1. Mem' = [Mem EXCEPT ![p] = Seen(st)] /\ Disk' = Disk
      BY <2>2, <2>3, SeenStep
    <3>2. Disk = Seen(st)
      BY <2>1 DEF Disk
    <3> QED
      BY <2>2, <3>1, <3>2 DEF Promise!Load, Mem, Disk
  <2>4. CASE UNCHANGED state
    BY <2>2, <2>4 DEF Promise!vars, Seen
  <2> QED
    BY <1>2, <2>1, <2>3, <2>4 DEF Load
<1> QED
  BY <1>1, <1>2

\* Of the steps of Save only the rename shows, and it puts into the file what
\* the process has in memory.
LEMMA SaveStep ==
  ASSUME RefineInv, NEW p \in Procs
  PROVE  /\ CreateTemp(p) \/ WriteTemp(p) \/ SaveFails(p) => UNCHANGED Promise!vars
         /\ Rename(p) => Promise!Save(p)
<1>1. ASSUME CreateTemp(p) \/ WriteTemp(p) \/ SaveFails(p) PROVE UNCHANGED Promise!vars
  <2>1. UNCHANGED <<state, out, file>>
    BY <1>1 DEF CreateTemp, WriteTemp, SaveFails
  <2> QED
    BY <2>1 DEF Promise!vars, Seen
<1>2. ASSUME Rename(p) PROVE Promise!Save(p)
  <2>1. /\ temp[p] \notin {None, Torn}
        /\ file' = temp[p]
        /\ UNCHANGED <<state, out>>
    BY <1>2 DEF Rename
  <2>2. file' = state[p] /\ file' # None
    BY <2>1 DEF RefineInv, SavingInv
  <2>3. Mem' = Mem
    BY <2>1 DEF Mem, Seen
  <2>4. Disk' = Seen(file')
    BY <2>2 DEF Disk, Seen
  <2>5. Mem[p] = Seen(state[p])
    BY DEF Mem
  <2>6. Disk' = Mem[p]
    BY <2>2, <2>4, <2>5
  <2> QED
    BY <2>1, <2>3, <2>6 DEF Promise!Save, Mem, Disk
<1> QED
  BY <1>1, <1>2

\* The state of a process that saves does not change before the rename.
LEMMA SavingStep ==
  ASSUME RefineInv, Next
  PROVE  SavingInv'
<1>1. /\ state \in [Procs -> Good]
      /\ temp \in [Procs -> Good \cup {None, Torn}]
      /\ \A q \in Procs : temp[q] \notin {None, Torn} => temp[q] = state[q]
  BY DEF RefineInv, StoreInv, SavingInv
<1>2. ASSUME NEW p \in Procs, UNCHANGED temp, temp[p] = None,
             \A q \in Procs \ {p} : (state')[q] = state[q]
      PROVE  SavingInv'
  BY <1>1, <1>2 DEF SavingInv
<1>3. ASSUME NEW p \in Procs, Call(p), state' = state \/ \E st : state' = [state EXCEPT ![p] = st]
      PROVE  SavingInv'
  BY <1>1, <1>2, <1>3 DEF Call, Idle
<1>4. ASSUME NEW p \in Procs, Load(p) PROVE SavingInv'
  BY <1>3, <1>4 DEF Load
<1>5. ASSUME NEW p \in Procs, NEW u \in Coins, AddFeeUTXO(p, u) PROVE SavingInv'
  BY <1>1, <1>3, <1>5 DEF AddFeeUTXO
<1>6. ASSUME NEW p \in Procs, NEW min \in Minima, AllocateFeeUTXO(p, min) PROVE SavingInv'
  BY <1>1, <1>3, <1>6 DEF AllocateFeeUTXO
<1>7. ASSUME NEW p \in Procs, NEW k \in PNodes,
             RemoveNodeUTXO(p, k) \/ \E v \in Txids : SetNodeUTXO(p, k, v)
      PROVE  SavingInv'
  BY <1>1, <1>3, <1>7 DEF RemoveNodeUTXO, SetNodeUTXO
<1>8. ASSUME NEW p \in Procs, NEW k \in Refs,
             RemoveRefUTXO(p, k) \/ \E v \in Txids : SetRefUTXO(p, k, v)
      PROVE  SavingInv'
  BY <1>1, <1>3, <1>8 DEF RemoveRefUTXO, SetRefUTXO
<1>9. ASSUME NEW p \in Procs,
             Restart(p) \/ CreateTemp(p) \/ WriteTemp(p) \/ Rename(p) \/ SaveFails(p)
      PROVE  SavingInv'
  <2>1. CASE Restart(p)
    BY <1>1, <2>1 DEF Restart, SavingInv
  <2>2. CASE CreateTemp(p)
    BY <1>1, <2>2 DEF CreateTemp, SavingInv
  <2>3. CASE WriteTemp(p)
    BY <1>1, <2>3 DEF WriteTemp, SavingInv
  <2>4. CASE Rename(p)
    BY <1>1, <2>4 DEF Rename, SavingInv
  <2>5. CASE SaveFails(p)
    BY <1>1, <2>5 DEF SaveFails, SavingInv
  <2> QED
    BY <1>9, <2>1, <2>2, <2>3, <2>4, <2>5
<1> QED
  BY <1>4, <1>5, <1>6, <1>7, <1>8, <1>9 DEF Next

-----------------------------------------------------------------------------
\* The store implements what its callers take it for: over the slices of
\* store.go AllocateFeeUTXO returns a smallest output that suffices and removes
\* that one, Set and Remove act on one entry, Load and a restart replace the
\* whole state, and a Save, whatever call of it fails and wherever the process
\* dies, puts the whole state of its process into the file in one step or not
\* at all; for any number of processes on the path and any outputs and keys.
THEOREM StoreKeepsPromise == Spec => KeepsPromise
<1>1. Init => RefineInv /\ Promise!Init
  <2> SUFFICES ASSUME Init PROVE RefineInv /\ Promise!Init
    OBVIOUS
  <2>1. RefineInv
    BY NewStateGood DEF Init, RefineInv, StoreInv, SavingInv
  <2>2. Mem = [p \in Procs |-> Promise!Empty] /\ Disk = Promise!Empty
    BY SeenNew DEF Init, Mem, Disk
  <2> QED
    BY <2>1, <2>2 DEF Init, Promise!Init, Mem, Disk
<1>2. RefineInv /\ [Next]_vars => RefineInv'
  <2> SUFFICES ASSUME RefineInv, [Next]_vars PROVE RefineInv'
    OBVIOUS
  <2>1. StoreInv'
    BY StoreInvStep DEF RefineInv
  <2>2. SavingInv'
    <3>1. CASE Next
      BY <3>1, SavingStep
    <3>2. CASE UNCHANGED vars
      BY <3>2 DEF vars, RefineInv, SavingInv
    <3> QED
      BY <3>1, <3>2
  <2> QED
    BY <2>1, <2>2 DEF RefineInv
<1>3. RefineInv /\ [Next]_vars => [Promise!Next]_(Promise!vars)
  <2> SUFFICES ASSUME RefineInv, [Next]_vars PROVE [Promise!Next]_(Promise!vars)
    OBVIOUS
  <2>1. CASE UNCHANGED vars
    BY <2>1 DEF vars, Promise!vars, Seen
  <2>2. ASSUME NEW p \in Procs, Restart(p) \/ Load(p) PROVE [Promise!Next]_(Promise!vars)
    BY <2>2, MemoryStep DEF Promise!Next, RefineInv
  <2>3. ASSUME NEW p \in Procs, NEW u \in Coins, AddFeeUTXO(p, u)
        PROVE  [Promise!Next]_(Promise!vars)
    BY <2>3, AddFeeStep DEF Promise!Next, RefineInv
  <2>4. ASSUME NEW p \in Procs, NEW min \in Minima, AllocateFeeUTXO(p, min)
        PROVE  [Promise!Next]_(Promise!vars)
    BY <2>4, AllocateFeeStep DEF Promise!Next, RefineInv
  <2>5. ASSUME NEW p \in Procs, NEW k \in PNodes,
               RemoveNodeUTXO(p, k) \/ \E v \in Txids : SetNodeUTXO(p, k, v)
        PROVE  [Promise!Next]_(Promise!vars)
    BY <2>5, TableStep DEF Promise!Next, RefineInv
  <2>6. ASSUME NEW p \in Procs, NEW k \in Refs,
               RemoveRefUTXO(p, k) \/ \E v \in Txids : SetRefUTXO(p, k, v)
        PROVE  [Promise!Next]_(Promise!vars)
    BY <2>6, TableStep DEF Promise!Next, RefineInv
  <2>7. ASSUME NEW p \in Procs, CreateTemp(p) \/ WriteTemp(p) \/ Rename(p) \/ SaveFails(p)
        PROVE  [Promise!Next]_(Promise!vars)
    BY <2>7, SaveStep DEF Promise!Next
  <2> QED
    BY <2>1, <2>2, <2>3, <2>4, <2>5, <2>6, <2>7 DEF Next
<1> QED
  BY <1>1, <1>2, <1>3, PTL DEF Spec, KeepsPromise, Promise!Spec
=============================================================================
