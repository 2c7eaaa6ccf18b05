----------------------------- MODULE Recursion -----------------------------
(***************************************************************************)
(* Recursive functions on the first natural numbers: a loop of the code    *)
(* that goes once over a slice is one.  The theorems of the library take   *)
(* the step of the recursion as an operator; these take it as a function.  *)
(* And what follows from them about sequences: flattened, selected from,   *)
(* put together.                                                           *)
(***************************************************************************)
EXTENDS Slices, SequencesExt, WellFoundedInduction, TLAPS

Less == {ss \in Nat \X Nat : ss[1] < ss[2]}

\* A set of natural numbers that is not empty has a least element.
LEMMA LeastNumber ==
  ASSUME NEW T, T \subseteq Nat, T # {}
  PROVE  \E c \in T : \A d \in T : c <= d
<1>1. IsWellFoundedOn(Less, Nat)
  BY NatLessThanWellFounded DEF Less, OpToRel
<1>2. PICK c \in T : \A d \in T : <<d, c>> \notin Less
  BY <1>1, WFMin, Zenon
<1>3. ASSUME NEW d \in T PROVE c <= d
  <2>1. c \in Nat /\ d \in Nat
    OBVIOUS
  <2>2. d < c => <<d, c>> \in Less
    BY <2>1 DEF Less
  <2> QED
    BY <1>2, <2>1, <2>2
<1> QED
  BY <1>3

\* A set that has 0, and with each number below N the next, has all up to N.
LEMMA UpTo ==
  ASSUME NEW N \in Nat, NEW T, 0 \in T, \A n \in 0 .. N : n \in T /\ n < N => n + 1 \in T
  PROVE  \A n \in 0 .. N : n \in T
<1> SUFFICES ASSUME ~\A n \in 0 .. N : n \in T PROVE FALSE
  OBVIOUS
<1>1. PICK B : B = {n \in 0 .. N : n \notin T}
  OBVIOUS
<1>2. B \subseteq Nat /\ B # {}
  BY <1>1
<1>3. PICK c \in B : \A d \in B : c <= d
  BY <1>2, LeastNumber, Zenon
<1>4. c \in 1 .. N /\ c \notin T
  BY <1>1
<1>5. c - 1 \in 0 .. N /\ c - 1 \notin B
  BY <1>2, <1>3, <1>4
<1>6. c - 1 \in T
  BY <1>1, <1>5
<1>7. (c - 1) + 1 = c /\ c - 1 < N
  BY <1>4
<1> QED
  BY <1>4, <1>5, <1>6, <1>7

\* The step from one value of D to the next, for each of N numbers.
StepFunctions(N, D) == [(1 .. N) \X D -> D]

\* f starts with d and goes on with g.
GoesOn(f, N, D, d, g) ==
  f \in [0 .. N -> D] /\ f[0] = d /\ \A n \in 1 .. N : f[n] = g[<<n, f[n - 1]>>]

\* There is such a function.
LEMMA RecursionExists ==
  ASSUME NEW N \in Nat, NEW D, NEW d \in D, NEW g \in StepFunctions(N, D)
  PROVE  \E f : GoesOn(f, N, D, d, g)
<1>1. PICK T : T = {m \in 0 .. N : \E f \in [0 .. m -> D] :
                      f[0] = d /\ \A n \in 1 .. m : f[n] = g[<<n, f[n - 1]>>]}
  OBVIOUS
<1>2. 0 \in T
  <2>1. PICK f : f = [i \in 0 .. 0 |-> d]
    OBVIOUS
  <2>2. f \in [0 .. 0 -> D] /\ f[0] = d /\ 1 .. 0 = {}
    BY <2>1
  <2> QED
    BY <1>1, <2>2
<1>3. ASSUME NEW m \in 0 .. N, m \in T, m < N PROVE m + 1 \in T
  <2>1. PICK f \in [0 .. m -> D] : f[0] = d /\ \A n \in 1 .. m : f[n] = g[<<n, f[n - 1]>>]
    BY <1>1, <1>3
  <2>2. m + 1 \in 1 .. N /\ f[m] \in D
    BY <1>3
  <2>3. PICK e \in D : e = g[<<m + 1, f[m]>>]
    BY <2>2 DEF StepFunctions
  <2>4. PICK h : h = [i \in 0 .. m + 1 |-> IF i = m + 1 THEN e ELSE f[i]]
    OBVIOUS
  <2>5. h \in [0 .. m + 1 -> D]
    BY <2>4
  <2>6. h[0] = d
    BY <2>1, <2>4
  <2>7. ASSUME NEW n \in 1 .. m + 1 PROVE h[n] = g[<<n, h[n - 1]>>]
    <3>1. n - 1 \in 0 .. m /\ h[n - 1] = f[n - 1]
      BY <2>4
    <3>2. CASE n = m + 1
      <4>1. n - 1 = m /\ h[n] = e
        BY <2>4, <3>2
      <4> QED
        BY <2>3, <3>1, <3>2, <4>1
    <3>3. CASE n # m + 1
      <4>1. n \in 1 .. m /\ h[n] = f[n]
        BY <2>4, <3>3
      <4> QED
        BY <2>1, <3>1, <4>1
    <3> QED
      BY <3>2, <3>3
  <2> QED
    BY <1>1, <2>2, <2>5, <2>6, <2>7
<1>4. N \in T
  BY <1>2, <1>3, UpTo
<1> QED
  BY <1>1, <1>4 DEF GoesOn

-----------------------------------------------------------------------------
(* Running sums, and sequences of sequences.                               *)

\* b, and after each of the numbers of s what they add up to.
RunningSum(b, s) ==
  LET sum[n \in 0 .. Len(s)] == IF n = 0 THEN b ELSE sum[n - 1] + s[n]
  IN  sum

AddsUp(sum, b, s) ==
  /\ sum \in [0 .. Len(s) -> Nat]
  /\ sum[0] = b
  /\ \A n \in 1 .. Len(s) : sum[n] = sum[n - 1] + s[n]

\* A running sum is what its name says.
LEMMA RunningSumFacts ==
  ASSUME NEW s \in Seq(Nat), NEW b \in Nat
  PROVE  AddsUp(RunningSum(b, s), b, s)
<1>1. PICK N \in Nat : N = Len(s)
  OBVIOUS
<1>2. PICK g : g = [ss \in (1 .. N) \X Nat |-> ss[2] + s[ss[1]]]
  OBVIOUS
<1>3. g \in StepFunctions(N, Nat)
  <2>1. \A ss \in (1 .. N) \X Nat : ss[2] \in Nat /\ s[ss[1]] \in Nat
    BY <1>1
  <2> QED
    BY <1>2, <2>1 DEF StepFunctions
<1>4. PICK f \in [0 .. N -> Nat] : f[0] = b /\ \A n \in 1 .. N : f[n] = g[<<n, f[n - 1]>>]
  <2>1. PICK f : GoesOn(f, N, Nat, b, g)
    BY <1>3, RecursionExists
  <2> QED
    BY <2>1 DEF GoesOn
<1>5. ASSUME NEW n \in 1 .. N PROVE f[n] = f[n - 1] + s[n]
  <2>1. PICK c \in Nat : c = f[n - 1]
    OBVIOUS
  <2>2. f[n] = g[<<n, c>>]
    BY <1>4, <2>1
  <2>3. PICK ss \in (1 .. N) \X Nat : ss = <<n, c>>
    OBVIOUS
  <2>4. g[ss] = ss[2] + s[ss[1]]
    BY <1>2
  <2> QED
    BY <2>1, <2>2, <2>3, <2>4
<1>6. PICK h : h = [n \in 0 .. N |-> IF n = 0 THEN b ELSE f[n - 1] + s[n]]
  OBVIOUS
<1>7. \A n \in 0 .. N : n = 0 \/ n \in 1 .. N
  OBVIOUS
<1>8. \A n \in 0 .. N : f[n] = h[n]
  BY <1>4, <1>5, <1>6, <1>7
<1>9. f = h
  BY <1>6, <1>8
<1> DEFINE F(e) == e = [n \in 0 .. N |-> IF n = 0 THEN b ELSE e[n - 1] + s[n]]
<1>10. F(f)
  BY <1>6, <1>9
<1>11. PICK e : e = CHOOSE x : F(x)
  OBVIOUS
<1>12. F(e)
  <2> HIDE DEF F
  <2> QED
    BY <1>10, <1>11
<1>13. RunningSum(b, s) = e
  BY <1>1, <1>11 DEF RunningSum
<1>14. PICK k : k = [n \in 0 .. N |-> IF n = 0 THEN b ELSE e[n - 1] + s[n]]
  OBVIOUS
<1>15. e = k
  BY <1>12, <1>14
<1> HIDE DEF F
<1>16. k[0] = b
  BY <1>14
<1>17. ASSUME NEW n \in 1 .. N PROVE k[n] = e[n - 1] + s[n]
  <2>1. n \in 0 .. N /\ n # 0
    OBVIOUS
  <2> QED
    BY <1>14, <2>1
<1>18. PICK T : T = {n \in 0 .. N : k[n] \in Nat}
  OBVIOUS
<1>19. 0 \in T
  BY <1>16, <1>18
<1>20. ASSUME NEW n \in 0 .. N, n \in T, n < N PROVE n + 1 \in T
  <2>1. PICK m \in 1 .. N : m = n + 1 /\ m - 1 = n
    BY <1>20
  <2>2. k[m] = k[n] + s[m]
    BY <1>15, <1>17, <2>1
  <2>3. k[n] \in Nat /\ s[m] \in Nat
    BY <1>1, <1>18, <1>20
  <2> QED
    BY <1>18, <2>1, <2>2, <2>3, SMTT(60)
<1>21. \A n \in 0 .. N : n \in T
  BY <1>19, <1>20, UpTo
<1>22. \A n \in 0 .. N : k[n] \in Nat
  BY <1>18, <1>21
<1>23. k \in [0 .. N -> Nat]
  BY <1>14, <1>22
<1>24. \A n \in 1 .. N : k[n] = k[n - 1] + s[n]
  BY <1>15, <1>17
<1> QED
  BY <1>1, <1>13, <1>15, <1>16, <1>23, <1>24 DEF AddsUp

\* Running sums do not fall.
LEMMA SumsGrow ==
  ASSUME NEW N \in Nat, NEW f \in [0 .. N -> Nat], \A n \in 1 .. N : f[n - 1] <= f[n],
         NEW i \in 0 .. N, NEW j \in i .. N
  PROVE  f[i] <= f[j]
<1>1. PICK T : T = {n \in 0 .. N : n < i \/ f[i] <= f[n]}
  OBVIOUS
<1>2. 0 \in T
  BY <1>1
<1>3. ASSUME NEW n \in 0 .. N, n \in T, n < N PROVE n + 1 \in T
  <2>1. PICK m \in 1 .. N : m = n + 1 /\ m - 1 = n
    BY <1>3
  <2>2. f[n] <= f[m] /\ f[n] \in Nat /\ f[m] \in Nat /\ f[i] \in Nat
    BY <2>1
  <2>3. CASE n < i
    <3>1. m < i \/ m = i
      BY <2>1, <2>3
    <3> QED
      BY <1>1, <2>1, <2>2, <3>1
  <2>4. CASE f[i] <= f[n]
    <3>1. \A x, y, z \in Nat : x <= y /\ y <= z => x <= z
      OBVIOUS
    <3>2. f[i] <= f[m]
      BY <2>2, <2>4, <3>1, Zenon
    <3> QED
      BY <1>1, <2>1, <3>2
  <2> QED
    BY <1>1, <1>3, <2>3, <2>4
<1>4. \A n \in 0 .. N : n \in T
  BY <1>2, <1>3, UpTo
<1>5. j \in T /\ ~(j < i)
  BY <1>4
<1> QED
  BY <1>1, <1>5

\* FlattenSeq appends one sequence after the other.
LEMMA FlattenLoop ==
  ASSUME NEW S, NEW s \in Seq(Seq(S)), Len(s) > 0
  PROVE  \E e : /\ FlattenSeq(s) = e[Len(s)] /\ e[1] = s[1]
                /\ \A i \in 2 .. Len(s) : e[i] = e[i - 1] \o s[i]
<1>1. PICK N \in Nat : N = Len(s)
  OBVIOUS
<1>2. PICK M \in Nat : M = N - 1
  <2>1. N > 0
    BY <1>1, Zenon
  <2>2. \A n \in Nat : n > 0 => n - 1 \in Nat
    OBVIOUS
  <2> QED
    BY <2>1, <2>2, Zenon
<1>3. PICK D : D = Seq(S)
  OBVIOUS
<1>4. PICK g : g = [ss \in (1 .. M) \X D |-> ss[2] \o s[ss[1] + 1]]
  OBVIOUS
<1>5. g \in StepFunctions(M, D)
  <2>1. \A ss \in (1 .. M) \X D : ss[1] + 1 \in 1 .. N /\ ss[2] \in Seq(S)
    BY <1>2, <1>3
  <2>2. \A ss \in (1 .. M) \X D : ss[2] \o s[ss[1] + 1] \in Seq(S)
    BY <1>1, <2>1
  <2> QED
    BY <1>3, <1>4, <2>2 DEF StepFunctions
<1>6. PICK d \in D : d = s[1]
  BY <1>1, <1>3
<1>7. PICK f \in [0 .. M -> D] : f[0] = d /\ \A n \in 1 .. M : f[n] = g[<<n, f[n - 1]>>]
  <2>1. PICK f : GoesOn(f, M, D, d, g)
    BY <1>5, RecursionExists
  <2> QED
    BY <2>1 DEF GoesOn
<1>8. ASSUME NEW n \in 1 .. M PROVE f[n] = f[n - 1] \o s[n + 1]
  <2>1. PICK c \in D : c = f[n - 1]
    BY <1>2
  <2>2. f[n] = g[<<n, c>>]
    BY <1>7, <2>1
  <2>3. PICK ss \in (1 .. M) \X D : ss = <<n, c>>
    OBVIOUS
  <2>4. g[ss] = ss[2] \o s[ss[1] + 1]
    BY <1>4
  <2> QED
    BY <2>1, <2>2, <2>3, <2>4
<1>9. PICK h : h = [i \in 1 .. N |-> f[i - 1]]
  OBVIOUS
<1>10. PICK k : k = [i \in 1 .. N |-> IF i = 1 THEN s[i] ELSE h[i - 1] \o s[i]]
  OBVIOUS
<1>11. ASSUME NEW i \in 1 .. N PROVE h[i] = k[i]
  <2>1. CASE i = 1
    BY <1>6, <1>7, <1>9, <1>10, <2>1
  <2>2. CASE i # 1
    <3>1. i - 1 \in 1 .. M /\ i - 1 \in 1 .. N /\ (i - 1) + 1 = i
      BY <1>2, <2>2
    <3>2. h[i] = f[i - 1] /\ h[i - 1] = f[(i - 1) - 1]
      BY <1>9, <3>1
    <3> QED
      BY <1>8, <1>10, <2>2, <3>1, <3>2
  <2> QED
    BY <2>1, <2>2
<1>12. h = k
  BY <1>9, <1>10, <1>11
<1> DEFINE F(e) == e = [i \in 1 .. N |-> IF i = 1 THEN s[i] ELSE e[i - 1] \o s[i]]
<1>13. F(h)
  BY <1>10, <1>12
<1>14. PICK e : e = CHOOSE x : F(x)
  OBVIOUS
<1>15. F(e)
  <2> HIDE DEF F
  <2> QED
    BY <1>13, <1>14
<1>16. FlattenSeq(s) = e[N]
  BY <1>1, <1>14 DEF FlattenSeq
<1>17. PICK b : b = [i \in 1 .. N |-> IF i = 1 THEN s[i] ELSE e[i - 1] \o s[i]]
  OBVIOUS
<1>18. e = b
  BY <1>15, <1>17
<1> HIDE DEF F
<1>19. b[1] = s[1]
  BY <1>1, <1>17
<1>20. ASSUME NEW i \in 2 .. N PROVE b[i] = e[i - 1] \o s[i]
  <2>1. i \in 1 .. N /\ i # 1
    OBVIOUS
  <2> QED
    BY <1>17, <2>1
<1>21. FlattenSeq(s) = b[N] /\ b[1] = s[1] /\ \A i \in 2 .. N : b[i] = b[i - 1] \o s[i]
  BY <1>16, <1>18, <1>19, <1>20
<1> QED
  BY <1>1, <1>21

\* F is the sequences of s one after the other, of which the i-th ends at
\* off[i] if F starts at b.
Joins(F, s, b, off) ==
  /\ off[Len(s)] = b + Len(F)
  /\ \A i \in 1 .. Len(s) : \A q \in 1 .. Len(s[i]) :
       /\ off[i - 1] - b + q \in 1 .. Len(F)
       /\ F[off[i - 1] - b + q] = s[i][q]

\* The running sums of the lengths say where flattening leaves each sequence.
LEMMA FlattenFacts ==
  ASSUME NEW S, NEW s \in Seq(Seq(S)),
         NEW b \in Nat, NEW off \in [0 .. Len(s) -> Nat], off[0] = b,
         \A i \in 1 .. Len(s) : off[i] = off[i - 1] + Len(s[i])
  PROVE  FlattenSeq(s) \in Seq(S) /\ Joins(FlattenSeq(s), s, b, off)
<1>1. PICK N \in Nat : N = Len(s)
  OBVIOUS
<1>2. CASE N = 0
  <2>1. s = <<>>
    <3>1. Len(s) = 0
      BY <1>1, <1>2, Zenon
    <3> QED
      BY <3>1
  <2>2. FlattenSeq(s) = <<>>
    BY <1>1, <1>2, <2>1 DEF FlattenSeq
  <2> QED
    BY <1>1, <1>2, <2>2 DEF Joins
<1>3. CASE N # 0
  <2>1. PICK e : /\ FlattenSeq(s) = e[N] /\ e[1] = s[1]
                 /\ \A i \in 2 .. N : e[i] = e[i - 1] \o s[i]
    <3>1. Len(s) > 0
      BY <1>1, <1>3
    <3>2. \E e : /\ FlattenSeq(s) = e[Len(s)] /\ e[1] = s[1]
                 /\ \A i \in 2 .. Len(s) : e[i] = e[i - 1] \o s[i]
      BY <3>1, FlattenLoop, Zenon
    <3> QED
      BY <1>1, <3>2, Zenon
  <2> DEFINE Flat(t, n) ==
        /\ t \in Seq(S) /\ off[n] = b + Len(t)
        /\ \A i \in 1 .. n : \A q \in 1 .. Len(s[i]) :
             off[i - 1] - b + q \in 1 .. Len(t) /\ t[off[i - 1] - b + q] = s[i][q]
  <2>2. PICK T : T = {n \in 0 .. N : n = 0 \/ Flat(e[n], n)}
    OBVIOUS
  <2>3. ASSUME NEW n \in 0 .. N, n \in T, n < N PROVE n + 1 \in T
    <3>1. PICK m \in 1 .. N : m = n + 1 /\ m - 1 = n
      BY <2>3
    <3>2. PICK t : t = e[m]
      OBVIOUS
    <3>3. PICK r \in Seq(S) : r = s[m]
      BY <1>1
    <3>4. PICK c \in Nat : c = off[n]
      BY <1>1
    <3>5. off[m] = c + Len(r)
      BY <1>1, <3>1, <3>3, <3>4
    <3>6. CASE n = 0
      <4>1. m = 1 /\ t = r /\ c = b
        BY <2>1, <3>1, <3>2, <3>3, <3>4, <3>6
      <4>2. Flat(t, m)
        <5>1. \A q \in 1 .. Len(t) : off[0] - b + q = q
          BY <3>4, <3>6, <4>1
        <5>2. \A i \in 1 .. m : i = m /\ i - 1 = 0
          BY <3>6, <4>1
        <5> QED
          BY <3>3, <3>5, <4>1, <5>1, <5>2
      <4> QED
        BY <2>2, <3>1, <3>2, <4>2
    <3>7. CASE n # 0
      <4>1. PICK u : u = e[n]
        OBVIOUS
      <4>2. Flat(u, n)
        BY <2>2, <2>3, <3>7, <4>1
      <4>3. t = u \o r
        <5>1. m \in 2 .. N
          BY <3>1, <3>7
        <5>2. e[m] = e[m - 1] \o s[m]
          BY <2>1, <5>1
        <5> QED
          BY <3>1, <3>2, <3>3, <4>1, <5>2
      <4>4. u \in Seq(S) /\ c = b + Len(u)
        BY <3>4, <4>2
      <4>5. t \in Seq(S) /\ Len(t) = Len(u) + Len(r)
        BY <4>3, <4>4
      <4>6. \A q \in 1 .. Len(u) : t[q] = u[q]
        BY <4>3, <4>4
      <4>7. \A q \in 1 .. Len(r) : t[Len(u) + q] = r[q]
        BY <4>3, <4>4
      <4>8. ASSUME NEW i \in 1 .. m, NEW q \in 1 .. Len(s[i])
            PROVE  off[i - 1] - b + q \in 1 .. Len(t) /\ t[off[i - 1] - b + q] = s[i][q]
        <5>1. CASE i = m
          <6>1. off[i - 1] = c /\ q \in 1 .. Len(r)
            BY <3>1, <3>3, <3>4, <5>1
          <6>2. c - b + q = Len(u) + q /\ Len(u) + q \in 1 .. Len(t)
            BY <4>4, <4>5, <6>1
          <6> QED
            BY <3>3, <4>7, <5>1, <6>1, <6>2
        <5>2. CASE i # m
          <6>1. i \in 1 .. n
            BY <3>1, <5>2
          <6>2. off[i - 1] - b + q \in 1 .. Len(u) /\ u[off[i - 1] - b + q] = s[i][q]
            BY <4>2, <6>1
          <6>3. PICK z \in 1 .. Len(u) : z = off[i - 1] - b + q
            BY <6>2
          <6>4. z \in 1 .. Len(t) /\ t[z] = s[i][q]
            BY <4>4, <4>5, <4>6, <6>2, <6>3, SMTT(60)
          <6> QED
            BY <6>3, <6>4
        <5> QED
          BY <5>1, <5>2
      <4>9. off[m] = b + Len(t)
        BY <3>5, <4>4, <4>5
      <4>10. Flat(t, m)
        BY <4>5, <4>8, <4>9
      <4> QED
        BY <2>2, <3>1, <3>2, <4>10
    <3> QED
      BY <3>6, <3>7
  <2>4. 0 \in T
    BY <2>2
  <2>5. N \in T
    <3> HIDE DEF Flat
    <3>1. \A n \in 0 .. N : n \in T /\ n < N => n + 1 \in T
      BY <2>3
    <3>2. \A n \in 0 .. N : n \in T
      BY <2>4, <3>1, UpTo, Zenon
    <3>3. N \in 0 .. N
      BY <1>1, SMTT(30)
    <3> QED
      BY <3>2, <3>3, Zenon
  <2>6. Flat(FlattenSeq(s), N)
    BY <1>3, <2>1, <2>2, <2>5
  <2> QED
    BY <1>1, <2>6 DEF Joins
<1> QED
  BY <1>2, <1>3

-----------------------------------------------------------------------------
(* Sequences of anything.                                                  *)

\* A sequence, as a member of a set of sequences.
LEMMA SequenceSet ==
  ASSUME NEW s, Sequence(s)
  PROVE  s \in Seq({s[i] : i \in 1 .. Len(s)}) /\ DOMAIN s = 1 .. Len(s)
BY DEF Sequence

\* Members of such sets are sequences.
LEMMA SequenceOf ==
  ASSUME NEW S, NEW s \in Seq(S)
  PROVE  Sequence(s)
BY DEF Sequence

\* Selecting is what its name says; it yields sequences of elements of s.
LEMMA SelectedFacts ==
  ASSUME NEW s, Sequence(s), NEW keep, NEW S, \A i \in 1 .. Len(s) : s[i] \in S
  PROVE  /\ Selected(s, keep) \in [0 .. Len(s) -> Seq(S)]
         /\ Selected(s, keep)[0] = <<>>
         /\ \A n \in 1 .. Len(s) :
              /\ keep[n] => Selected(s, keep)[n] = Append(Selected(s, keep)[n - 1], s[n])
              /\ ~keep[n] => Selected(s, keep)[n] = Selected(s, keep)[n - 1]
<1>1. PICK N \in Nat : N = Len(s)
  BY DEF Sequence
<1>2. PICK D : D = Seq(S)
  OBVIOUS
<1>3. PICK g : g = [ss \in (1 .. N) \X D |->
                      IF keep[ss[1]] THEN Append(ss[2], s[ss[1]]) ELSE ss[2]]
  OBVIOUS
<1>4. g \in StepFunctions(N, D)
  <2>1. \A ss \in (1 .. N) \X D : ss[2] \in D /\ Append(ss[2], s[ss[1]]) \in D
    BY <1>1, <1>2
  <2> QED
    BY <1>3, <2>1 DEF StepFunctions
<1>5. PICK d \in D : d = <<>>
  <2>1. <<>> \in Seq(S)
    OBVIOUS
  <2> QED
    BY <1>2, <2>1, Zenon
<1>6. PICK f \in [0 .. N -> D] : f[0] = d /\ \A n \in 1 .. N : f[n] = g[<<n, f[n - 1]>>]
  <2>1. PICK f : GoesOn(f, N, D, d, g)
    BY <1>4, RecursionExists
  <2> QED
    BY <2>1 DEF GoesOn
<1>7. ASSUME NEW n \in 1 .. N
      PROVE  f[n] = IF keep[n] THEN Append(f[n - 1], s[n]) ELSE f[n - 1]
  <2>1. PICK c \in D : c = f[n - 1]
    OBVIOUS
  <2>2. f[n] = g[<<n, c>>]
    BY <1>6, <2>1
  <2>3. PICK ss \in (1 .. N) \X D : ss = <<n, c>>
    OBVIOUS
  <2>4. g[ss] = IF keep[ss[1]] THEN Append(ss[2], s[ss[1]]) ELSE ss[2]
    BY <1>3
  <2> QED
    BY <2>1, <2>2, <2>3, <2>4
<1>8. PICK h : h = [n \in 0 .. N |-> IF n = 0 THEN <<>> ELSE
                      IF keep[n] THEN Append(f[n - 1], s[n]) ELSE f[n - 1]]
  OBVIOUS
<1>9. \A n \in 0 .. N : n = 0 \/ n \in 1 .. N
  OBVIOUS
<1>10. \A n \in 0 .. N : f[n] = h[n]
  BY <1>5, <1>6, <1>7, <1>8, <1>9
<1>11. f = h
  BY <1>8, <1>10
<1> DEFINE F(e) == e = [n \in 0 .. N |-> IF n = 0 THEN <<>> ELSE
                          IF keep[n] THEN Append(e[n - 1], s[n]) ELSE e[n - 1]]
<1>12. F(f)
  BY <1>8, <1>11
<1>13. PICK e : e = CHOOSE x : F(x)
  OBVIOUS
<1>14. F(e)
  <2> HIDE DEF F
  <2> QED
    BY <1>12, <1>13
<1>15. Selected(s, keep) = e
  BY <1>1, <1>13 DEF Selected
<1>16. PICK k : k = [n \in 0 .. N |-> IF n = 0 THEN <<>> ELSE
                       IF keep[n] THEN Append(e[n - 1], s[n]) ELSE e[n - 1]]
  OBVIOUS
<1>17. e = k
  BY <1>14, <1>16
<1> HIDE DEF F
<1>18. k[0] = <<>>
  BY <1>16
<1>19. ASSUME NEW n \in 1 .. N
       PROVE  /\ keep[n] => k[n] = Append(k[n - 1], s[n])
              /\ ~keep[n] => k[n] = k[n - 1]
  <2>1. n \in 0 .. N /\ n # 0
    OBVIOUS
  <2>2. k[n] = IF keep[n] THEN Append(e[n - 1], s[n]) ELSE e[n - 1]
    BY <1>16, <2>1
  <2> QED
    BY <1>17, <2>2
<1>20. PICK T : T = {n \in 0 .. N : k[n] \in Seq(S)}
  OBVIOUS
<1>21. 0 \in T
  BY <1>18, <1>20
<1>22. ASSUME NEW n \in 0 .. N, n \in T, n < N PROVE n + 1 \in T
  <2>1. PICK m \in 1 .. N : m = n + 1 /\ m - 1 = n
    BY <1>22
  <2>2. k[m] = Append(k[n], s[m]) \/ k[m] = k[n]
    BY <1>19, <2>1
  <2>3. k[n] \in Seq(S) /\ s[m] \in S
    BY <1>1, <1>20, <1>22
  <2>4. k[m] \in Seq(S)
    <3>1. \A c \in Seq(S) : \A x \in S : Append(c, x) \in Seq(S)
      OBVIOUS
    <3> QED
      BY <2>2, <2>3, <3>1, Zenon
  <2> QED
    BY <1>20, <2>1, <2>4
<1>23. \A n \in 0 .. N : n \in T
  BY <1>21, <1>22, UpTo
<1>24. \A n \in 0 .. N : k[n] \in Seq(S)
  BY <1>20, <1>23
<1>25. k \in [0 .. N -> Seq(S)]
  BY <1>16, <1>24
<1> QED
  BY <1>1, <1>15, <1>17, <1>18, <1>19, <1>25

\* s is the beginning of t.
Begins(s, t) ==
  /\ Sequence(s) /\ Sequence(t) /\ Len(s) <= Len(t)
  /\ \A i \in 1 .. Len(s) : s[i] = t[i]

\* What is selected of the first is the beginning of all that is selected.
LEMMA SelectedGrows ==
  ASSUME NEW s, Sequence(s), NEW keep, NEW i \in 0 .. Len(s), NEW j \in i .. Len(s)
  PROVE  Begins(Selected(s, keep)[i], Selected(s, keep)[j])
<1>1. PICK N \in Nat : N = Len(s)
  BY DEF Sequence
<1>2. PICK S : S = {s[n] : n \in 1 .. Len(s)}
  OBVIOUS
<1>3. PICK f : f = Selected(s, keep)
  OBVIOUS
<1>4. \A n \in 1 .. Len(s) : s[n] \in S
  BY <1>2
<1>5. /\ \A n \in 0 .. N : f[n] \in Seq(S)
      /\ \A n \in 1 .. N : f[n] = Append(f[n - 1], s[n]) \/ f[n] = f[n - 1]
  <2>1. /\ f \in [0 .. Len(s) -> Seq(S)]
        /\ \A n \in 1 .. Len(s) : /\ keep[n] => f[n] = Append(f[n - 1], s[n])
                                  /\ ~keep[n] => f[n] = f[n - 1]
    BY <1>3, <1>4, SelectedFacts, ZenonT(60)
  <2>2. \A n \in 1 .. Len(s) : f[n] = Append(f[n - 1], s[n]) \/ f[n] = f[n - 1]
    BY <2>1, Zenon
  <2>3. \A n \in 0 .. Len(s) : f[n] \in Seq(S)
    BY <2>1
  <2> QED
    BY <1>1, <2>2, <2>3, Zenon
<1>6. PICK t \in Seq(S) : t = f[i]
  BY <1>1, <1>5
<1> DEFINE After(u) == Len(t) <= Len(u) /\ \A a \in 1 .. Len(t) : t[a] = u[a]
<1>7. PICK T : T = {n \in 0 .. N : n < i \/ After(f[n])}
  OBVIOUS
<1>8. i \in 0 .. N /\ j \in 0 .. N /\ i <= j
  BY <1>1
<1>9. ASSUME NEW n \in 0 .. N, n \in T, n < N PROVE n + 1 \in T
  <2>1. PICK m \in 1 .. N : m = n + 1 /\ m - 1 = n
    BY <1>9
  <2>2. CASE m < i
    BY <1>7, <2>1, <2>2
  <2>3. CASE m = i
    BY <1>6, <1>7, <2>1, <2>3
  <2>4. CASE m > i
    <3>1. ~(n < i)
      BY <1>8, <2>1, <2>4
    <3>2. PICK u \in Seq(S) : u = f[n]
      BY <1>5
    <3>3. PICK v : v = f[m]
      OBVIOUS
    <3>4. After(u)
      BY <1>7, <1>9, <3>1, <3>2
    <3>5. v = Append(u, s[m]) \/ v = u
      BY <1>5, <2>1, <3>2, <3>3
    <3>6. s[m] \in S
      BY <1>1, <1>4
    <3>7. After(v)
      <4>1. Len(u) <= Len(v) /\ \A a \in 1 .. Len(u) : v[a] = u[a]
        BY <3>5, <3>6, SMTT(60)
      <4>2. Len(v) \in Nat
        BY <3>5, <3>6
      <4>3. \A a \in 1 .. Len(t) : a \in 1 .. Len(u)
        BY <3>4
      <4>4. Len(t) <= Len(v)
        BY <3>4, <4>1, <4>2
      <4> QED
        BY <3>4, <4>1, <4>3, <4>4
    <3> QED
      BY <1>7, <2>1, <3>3, <3>7
  <2> QED
    BY <1>8, <2>1, <2>2, <2>3, <2>4
<1>10. 0 \in T
  BY <1>6, <1>7, <1>8
<1>11. \A n \in 0 .. N : n \in T
  <2> HIDE DEF After
  <2> QED
    BY <1>9, <1>10, UpTo
<1>12. After(f[j])
  BY <1>7, <1>8, <1>11, SMTT(60)
<1>13. Sequence(t) /\ Sequence(f[j])
  BY <1>5, <1>6, <1>8, SequenceOf
<1> QED
  BY <1>3, <1>6, <1>12, <1>13 DEF Begins

\* u is s and then t.
IsConcat(u, s, t) ==
  /\ Sequence(u) /\ Len(u) = Len(s) + Len(t)
  /\ \A i \in 1 .. Len(s) : u[i] = s[i]
  /\ \A i \in 1 .. Len(t) : u[Len(s) + i] = t[i]

\* Concatenation.
LEMMA ConcatFacts ==
  ASSUME NEW s, NEW t, Sequence(s), Sequence(t)
  PROVE  IsConcat(s \o t, s, t) /\ Sequence(s \o t)
<1>1. PICK S : S = {s[i] : i \in 1 .. Len(s)} \cup {t[i] : i \in 1 .. Len(t)}
  OBVIOUS
<1>2. s \in Seq(S)
  BY <1>1 DEF Sequence
<1>3. t \in Seq(S)
  BY <1>1 DEF Sequence
<1>4. s \o t \in Seq(S)
  BY <1>2, <1>3
<1>5. Sequence(s \o t)
  BY <1>4, SequenceOf
<1>6. Len(s \o t) = Len(s) + Len(t)
  BY <1>2, <1>3
<1>7. \A i \in 1 .. Len(s) : (s \o t)[i] = s[i]
  BY <1>2, <1>3
<1>8. \A i \in 1 .. Len(t) : (s \o t)[Len(s) + i] = t[i]
  BY <1>2, <1>3
<1> QED
  BY <1>5, <1>6, <1>7, <1>8 DEF IsConcat

\* Appending one element.
LEMMA AppendElement ==
  ASSUME NEW s, Sequence(s), NEW e
  PROVE  /\ Sequence(Append(s, e)) /\ Len(Append(s, e)) = Len(s) + 1
         /\ \A i \in 1 .. Len(s) : Append(s, e)[i] = s[i]
         /\ Append(s, e)[Len(s) + 1] = e
<1>1. PICK S : S = {s[i] : i \in 1 .. Len(s)} \cup {e}
  OBVIOUS
<1>2. s \in Seq(S) /\ e \in S
  BY <1>1 DEF Sequence
<1>3. Append(s, e) \in Seq(S)
  BY <1>2
<1>4. Sequence(Append(s, e))
  BY <1>3, SequenceOf
<1> QED
  BY <1>2, <1>4

\* Parts of a sequence.
LEMMA PartFacts ==
  ASSUME NEW s, Sequence(s), NEW m \in Nat, NEW n \in Nat, 1 <= m, n <= Len(s)
  PROVE  /\ Sequence(SubSeq(s, m, n))
         /\ Len(SubSeq(s, m, n)) = IF n < m THEN 0 ELSE n - m + 1
         /\ \A i \in 1 .. Len(SubSeq(s, m, n)) : SubSeq(s, m, n)[i] = s[m + i - 1]
<1>1. PICK S : S = {s[i] : i \in 1 .. Len(s)}
  OBVIOUS
<1>2. s \in Seq(S)
  BY <1>1 DEF Sequence
<1>3. \A i \in m .. n : i \in 1 .. Len(s)
  BY <1>2
<1>4. SubSeq(s, m, n) \in Seq(S)
  BY <1>2, <1>3
<1>5. Sequence(SubSeq(s, m, n))
  BY <1>4, SequenceOf
<1>6. Len(SubSeq(s, m, n)) = IF n < m THEN 0 ELSE n - m + 1
  BY <1>2
<1>7. \A i \in 1 .. Len(SubSeq(s, m, n)) : SubSeq(s, m, n)[i] = s[m + i - 1]
  BY <1>2
<1> QED
  BY <1>5, <1>6, <1>7

\* All but the first element.
LEMMA TailFacts ==
  ASSUME NEW s, Sequence(s), Len(s) > 0
  PROVE  /\ Sequence(Tail(s)) /\ Len(Tail(s)) = Len(s) - 1
         /\ \A i \in 1 .. Len(s) - 1 : Tail(s)[i] = s[i + 1]
         /\ Tail(s) = SubSeq(s, 2, Len(s))
<1>1. PICK S : S = {s[i] : i \in 1 .. Len(s)}
  OBVIOUS
<1>2. s \in Seq(S) /\ s # <<>>
  BY <1>1 DEF Sequence
<1>3. Tail(s) \in Seq(S)
  BY <1>2
<1>4. Sequence(Tail(s))
  BY <1>3, SequenceOf
<1> QED
  BY <1>2, <1>4

\* Sequences are equal if their elements are.
LEMMA SameSequence ==
  ASSUME NEW s, NEW t, Sequence(s), Sequence(t), Len(s) = Len(t),
         \A i \in 1 .. Len(s) : s[i] = t[i]
  PROVE  s = t
BY DEF Sequence

\* The short ones.
LEMMA ShortSequences ==
  ASSUME NEW e
  PROVE  /\ Sequence(<<>>) /\ Len(<<>>) = 0
         /\ Sequence(<<e>>) /\ Len(<<e>>) = 1 /\ <<e>>[1] = e
         /\ \A s : Sequence(s) => (s = <<>> <=> Len(s) = 0)
BY DEF Sequence

-----------------------------------------------------------------------------
(* Flattening, and what selecting keeps.                                   *)

\* The sequences of s are in F one after the other, each place of F in one of them.
Flattened(F, s, off) ==
  /\ Sequence(F) /\ off \in [0 .. Len(s) -> Nat]
  /\ off[0] = 0 /\ off[Len(s)] = Len(F)
  /\ \A i \in 1 .. Len(s) : off[i] = off[i - 1] + Len(s[i])
  /\ \A i \in 1 .. Len(s) : \A q \in 1 .. Len(s[i]) :
       off[i - 1] + q \in 1 .. Len(F) /\ F[off[i - 1] + q] = s[i][q]
  /\ \A z \in 1 .. Len(F) :
       \E i \in 1 .. Len(s) : \E q \in 1 .. Len(s[i]) : z = off[i - 1] + q

\* Flattening puts every element of every sequence in a place, and nothing else.
LEMMA FlattenPlaces ==
  ASSUME NEW S, NEW s \in Seq(Seq(S))
  PROVE  FlattenSeq(s) \in Seq(S) /\ \E off : Flattened(FlattenSeq(s), s, off)
<1>1. PICK N \in Nat : N = Len(s)
  OBVIOUS
<1>2. PICK l : l = [i \in 1 .. N |-> Len(s[i])]
  OBVIOUS
<1>3. l \in Seq(Nat) /\ Len(l) = N
  <2>1. \A i \in 1 .. N : s[i] \in Seq(S)
    BY <1>1
  <2>2. \A i \in 1 .. N : Len(s[i]) \in Nat
    BY <2>1
  <2> QED
    BY <1>2, <2>2
<1>4. PICK off : off = RunningSum(0, l)
  OBVIOUS
<1>5. AddsUp(off, 0, l)
  BY <1>3, <1>4, RunningSumFacts
<1>6. /\ off \in [0 .. N -> Nat] /\ off[0] = 0
      /\ \A i \in 1 .. N : off[i] = off[i - 1] + Len(s[i])
  BY <1>2, <1>3, <1>5 DEF AddsUp
<1>7. PICK F : F = FlattenSeq(s)
  OBVIOUS
<1>8. F \in Seq(S) /\ Joins(F, s, 0, off)
  BY <1>1, <1>6, <1>7, FlattenFacts
<1>9. Sequence(F) /\ Len(F) \in Nat
  BY <1>8, SequenceOf
<1>10. off[N] = Len(F)
  BY <1>1, <1>8, <1>9 DEF Joins
<1>11. \A i \in 1 .. N : off[i - 1] \in Nat /\ Len(s[i]) \in Nat
  <2>1. \A i \in 1 .. N : s[i] \in Seq(S)
    BY <1>1
  <2>2. \A i \in 1 .. N : i - 1 \in 0 .. N
    OBVIOUS
  <2>3. \A i \in 1 .. N : Len(s[i]) \in Nat
    BY <2>1
  <2> QED
    BY <1>6, <2>2, <2>3, Zenon
<1>12. ASSUME NEW i \in 1 .. N, NEW q \in 1 .. Len(s[i])
       PROVE  off[i - 1] + q \in 1 .. Len(F) /\ F[off[i - 1] + q] = s[i][q]
  <2>1. off[i - 1] - 0 + q \in 1 .. Len(F) /\ F[off[i - 1] - 0 + q] = s[i][q]
    BY <1>1, <1>8 DEF Joins
  <2>2. off[i - 1] - 0 + q = off[i - 1] + q
    BY <1>11
  <2> QED
    BY <2>1, <2>2
<1>13. ASSUME NEW z \in 1 .. Len(F)
       PROVE  \E i \in 1 .. N : \E q \in 1 .. Len(s[i]) : z = off[i - 1] + q
  <2>1. PICK T : T = {i \in 0 .. N : z <= off[i]}
    OBVIOUS
  <2>2. N \in T
    BY <1>9, <1>10, <2>1
  <2>3. T \subseteq Nat /\ T # {}
    <3>1. T \subseteq 0 .. N
      BY <2>1
    <3>2. 0 .. N \subseteq Nat
      OBVIOUS
    <3> QED
      BY <2>2, <3>1, <3>2
  <2>4. PICK i \in T : \A j \in T : i <= j
    BY <2>3, LeastNumber, Zenon
  <2>5. i \in 1 .. N /\ z <= off[i]
    BY <1>6, <2>1, <2>4
  <2>6. i - 1 \in 0 .. N /\ i - 1 \notin T
    BY <2>4, <2>5
  <2>7. ~(z <= off[i - 1])
    BY <2>1, <2>6
  <2>8. off[i] = off[i - 1] + Len(s[i]) /\ off[i - 1] \in Nat /\ Len(s[i]) \in Nat
    BY <1>6, <1>11, <2>5
  <2>9. z - off[i - 1] \in 1 .. Len(s[i]) /\ z = off[i - 1] + (z - off[i - 1])
    BY <2>5, <2>7, <2>8, SMTT(60)
  <2> QED
    BY <2>5, <2>9
<1>14. Flattened(F, s, off)
  BY <1>1, <1>6, <1>9, <1>10, <1>12, <1>13 DEF Flattened
<1> QED
  BY <1>7, <1>8, <1>14

\* Its elements are those of its sequences.
LEMMA FlattenElements ==
  ASSUME NEW S, NEW s \in Seq(Seq(S))
  PROVE  /\ \A z \in 1 .. Len(FlattenSeq(s)) :
              \E i \in 1 .. Len(s) : \E q \in 1 .. Len(s[i]) : FlattenSeq(s)[z] = s[i][q]
         /\ \A i \in 1 .. Len(s) : \A q \in 1 .. Len(s[i]) :
              \E z \in 1 .. Len(FlattenSeq(s)) : FlattenSeq(s)[z] = s[i][q]
<1>1. PICK off : Flattened(FlattenSeq(s), s, off)
  BY FlattenPlaces
<1>2. PICK F : F = FlattenSeq(s)
  OBVIOUS
<1>3. /\ \A i \in 1 .. Len(s) : \A q \in 1 .. Len(s[i]) :
           off[i - 1] + q \in 1 .. Len(F) /\ F[off[i - 1] + q] = s[i][q]
      /\ \A z \in 1 .. Len(F) :
           \E i \in 1 .. Len(s) : \E q \in 1 .. Len(s[i]) : z = off[i - 1] + q
  BY <1>1, <1>2 DEF Flattened
<1>4. \A z \in 1 .. Len(F) :
        \E i \in 1 .. Len(s) : \E q \in 1 .. Len(s[i]) : F[z] = s[i][q]
  <2>1. TAKE z \in 1 .. Len(F)
  <2>2. PICK i \in 1 .. Len(s) : \E q \in 1 .. Len(s[i]) : z = off[i - 1] + q
    BY <1>3, Zenon
  <2>3. PICK q \in 1 .. Len(s[i]) : z = off[i - 1] + q
    BY <2>2
  <2>4. F[off[i - 1] + q] = s[i][q]
    BY <1>3, Zenon
  <2> QED
    BY <2>3, <2>4
<1>5. \A i \in 1 .. Len(s) : \A q \in 1 .. Len(s[i]) :
        \E z \in 1 .. Len(F) : F[z] = s[i][q]
  BY <1>3, Zenon
<1> QED
  BY <1>2, <1>4, <1>5

\* An earlier place is in an earlier sequence, or earlier in the same one.
LEMMA PlacesInOrder ==
  ASSUME NEW F, NEW S, NEW s \in Seq(Seq(S)), NEW off, Flattened(F, s, off),
         NEW i \in 1 .. Len(s), NEW q \in 1 .. Len(s[i]),
         NEW j \in 1 .. Len(s), NEW r \in 1 .. Len(s[j])
  PROVE  off[i - 1] + q < off[j - 1] + r <=> i < j \/ (i = j /\ q < r)
<1>1. PICK N \in Nat : N = Len(s)
  OBVIOUS
<1>2. off \in [0 .. N -> Nat] /\ \A k \in 1 .. N : off[k] = off[k - 1] + Len(s[k])
  BY <1>1 DEF Flattened
<1>3. \A k \in 1 .. N : Len(s[k]) \in Nat /\ off[k - 1] \in Nat /\ off[k] \in Nat
  <2>1. \A k \in 1 .. N : s[k] \in Seq(S)
    BY <1>1
  <2>2. \A k \in 1 .. N : k - 1 \in 0 .. N /\ k \in 0 .. N
    OBVIOUS
  <2>3. \A k \in 1 .. N : Len(s[k]) \in Nat
    BY <2>1
  <2> QED
    BY <1>2, <2>2, <2>3, Zenon
<1>4. \A k \in 1 .. N : off[k - 1] <= off[k]
  <2>1. \A a, b, c \in Nat : a = b + c => b <= a
    OBVIOUS
  <2> QED
    BY <1>2, <1>3, <2>1, Zenon
<1>5. i \in 1 .. N /\ j \in 1 .. N
  BY <1>1
<1>6. i < j => off[i] <= off[j - 1]
  <2>1. SUFFICES ASSUME i < j PROVE off[i] <= off[j - 1]
    OBVIOUS
  <2>2. i \in 0 .. N /\ j - 1 \in i .. N
    BY <1>5, <2>1
  <2> QED
    BY <1>2, <1>4, <2>2, SumsGrow
<1>7. j < i => off[j] <= off[i - 1]
  <2>1. SUFFICES ASSUME j < i PROVE off[j] <= off[i - 1]
    OBVIOUS
  <2>2. j \in 0 .. N /\ i - 1 \in j .. N
    BY <1>5, <2>1
  <2> QED
    BY <1>2, <1>4, <2>2, SumsGrow
<1>8. PICK a \in Nat, b \in Nat, c \in Nat, d \in Nat :
        a = off[i - 1] /\ b = off[i] /\ c = off[j - 1] /\ d = off[j]
  BY <1>3, <1>5
<1>9. PICK k \in Nat, l \in Nat : k = Len(s[i]) /\ l = Len(s[j])
  BY <1>3, <1>5
<1>10. b = a + k /\ d = c + l /\ q \in 1 .. k /\ r \in 1 .. l
  BY <1>2, <1>5, <1>8, <1>9
<1>11. i = j => a = c
  BY <1>8
<1>12. (i < j => b <= c) /\ (j < i => d <= a)
  BY <1>6, <1>7, <1>8
<1>13. i \in Nat /\ j \in Nat /\ k \in Nat /\ l \in Nat /\ q \in Nat /\ r \in Nat
  BY <1>5, <1>9, <1>10
<1>14. 1 <= q /\ q <= k /\ 1 <= r /\ r <= l
  BY <1>10
<1>15. a + q < c + r <=> i < j \/ (i = j /\ q < r)
  <2>1. CASE i = j
    BY <1>11, <1>13, <2>1
  <2>2. CASE i < j
    BY <1>10, <1>12, <1>13, <1>14, <2>2
  <2>3. CASE j < i
    BY <1>10, <1>12, <1>13, <1>14, <2>3
  <2> QED
    BY <1>13, <2>1, <2>2, <2>3
<1> QED
  BY <1>8, <1>15

\* One more sequence at the end of s is one more at the end of it all.
LEMMA FlattenAppend ==
  ASSUME NEW S, NEW s \in Seq(Seq(S)), NEW t \in Seq(S)
  PROVE  FlattenSeq(Append(s, t)) = FlattenSeq(s) \o t
<1>1. PICK N \in Nat : N = Len(s)
  OBVIOUS
<1>2. PICK u \in Seq(Seq(S)) : u = Append(s, t)
  <2>1. PICK D : D = Seq(S)
    OBVIOUS
  <2>2. s \in Seq(D) /\ t \in D
    BY <2>1
  <2>3. Append(s, t) \in Seq(D)
    BY <2>2
  <2> QED
    BY <2>1, <2>3
<1>3. Len(u) = N + 1 /\ u[N + 1] = t /\ \A i \in 1 .. N : u[i] = s[i]
  BY <1>1, <1>2
<1>4. PICK e : /\ FlattenSeq(u) = e[N + 1] /\ e[1] = u[1]
               /\ \A i \in 2 .. N + 1 : e[i] = e[i - 1] \o u[i]
  <2>1. Len(u) > 0
    BY <1>1, <1>3
  <2>2. \E e : /\ FlattenSeq(u) = e[Len(u)] /\ e[1] = u[1]
               /\ \A i \in 2 .. Len(u) : e[i] = e[i - 1] \o u[i]
    BY <2>1, FlattenLoop, Zenon
  <2> QED
    BY <1>3, <2>2, Zenon
<1>5. CASE N = 0
  <2>1. s = <<>>
    <3>1. Len(s) = 0
      BY <1>1, <1>5, Zenon
    <3> QED
      BY <3>1
  <2>2. FlattenSeq(s) = <<>>
    BY <1>1, <1>5, <2>1 DEF FlattenSeq
  <2>3. FlattenSeq(u) = t
    BY <1>3, <1>4, <1>5
  <2> QED
    BY <1>2, <2>2, <2>3
<1>6. CASE N # 0
  <2>1. PICK f : /\ FlattenSeq(s) = f[N] /\ f[1] = s[1]
                 /\ \A i \in 2 .. N : f[i] = f[i - 1] \o s[i]
    <3>1. Len(s) > 0
      BY <1>1, <1>6
    <3> QED
      BY <1>1, <3>1, FlattenLoop
  <2>2. PICK T : T = {n \in 0 .. N : n = 0 \/ e[n] = f[n]}
    OBVIOUS
  <2>3. ASSUME NEW n \in 0 .. N, n \in T, n < N PROVE n + 1 \in T
    <3>1. n + 1 \in 1 .. N
      BY <2>3
    <3>2. CASE n = 0
      BY <1>3, <1>4, <2>1, <2>2, <3>1, <3>2
    <3>3. CASE n # 0
      <4>1. n + 1 \in 2 .. N /\ n + 1 \in 2 .. N + 1 /\ (n + 1) - 1 = n
        BY <2>3, <3>3
      <4>2. e[n + 1] = e[n] \o u[n + 1] /\ f[n + 1] = f[n] \o s[n + 1]
        BY <1>4, <2>1, <4>1
      <4>3. e[n] = f[n] /\ u[n + 1] = s[n + 1]
        BY <1>3, <2>2, <2>3, <3>1, <3>3
      <4> QED
        <5>1. e[n + 1] = f[n + 1] /\ n + 1 \in 0 .. N
          BY <3>1, <4>2, <4>3
        <5> QED
          BY <2>2, <5>1
    <3> QED
      BY <3>2, <3>3
  <2>4. 0 \in T
    BY <2>2
  <2>5. N \in T
    <3>1. \A n \in 0 .. N : n \in T
      BY <2>3, <2>4, UpTo
    <3> QED
      BY <3>1
  <2>6. e[N] = f[N]
    BY <1>6, <2>2, <2>5
  <2>7. e[N + 1] = e[N] \o u[N + 1]
    <3>1. N + 1 \in 2 .. N + 1 /\ (N + 1) - 1 = N
      BY <1>6
    <3> QED
      BY <1>4, <3>1
  <2> QED
    BY <1>2, <1>3, <1>4, <2>1, <2>6, <2>7
<1> QED
  BY <1>5, <1>6

\* What is selected of s stands where w says: the elements kept, in order.
Picks(t, s, keep, w) ==
  /\ Sequence(t) /\ w \in [1 .. Len(t) -> 1 .. Len(s)]
  /\ \A k \in 1 .. Len(t) : keep[w[k]] /\ t[k] = s[w[k]]
  /\ \A k, l \in 1 .. Len(t) : k < l => w[k] < w[l]
  /\ \A i \in 1 .. Len(s) : keep[i] => \E k \in 1 .. Len(t) : w[k] = i

\* Selecting picks.
LEMMA SelectedPicks ==
  ASSUME NEW s, Sequence(s), NEW keep
  PROVE  \E w : Picks(Selected(s, keep)[Len(s)], s, keep, w)
<1>1. PICK N \in Nat : N = Len(s)
  BY DEF Sequence
<1>2. PICK S : S = {s[i] : i \in 1 .. N}
  OBVIOUS
<1>3. PICK f : f = Selected(s, keep)
  OBVIOUS
<1>4. /\ \A n \in 0 .. N : f[n] \in Seq(S)
      /\ f[0] = <<>>
      /\ \A n \in 1 .. N : /\ keep[n] => f[n] = Append(f[n - 1], s[n])
                           /\ ~keep[n] => f[n] = f[n - 1]
  <2>1. \A i \in 1 .. Len(s) : s[i] \in S
    BY <1>1, <1>2
  <2>2. /\ f \in [0 .. Len(s) -> Seq(S)]
        /\ f[0] = <<>>
        /\ \A n \in 1 .. Len(s) : /\ keep[n] => f[n] = Append(f[n - 1], s[n])
                                  /\ ~keep[n] => f[n] = f[n - 1]
    BY <1>3, <2>1, SelectedFacts, ZenonT(60)
  <2> QED
    BY <1>1, <2>2
<1> DEFINE Up(t, n, w) ==
      /\ w \in [1 .. Len(t) -> 1 .. n]
      /\ \A k \in 1 .. Len(t) : keep[w[k]] /\ t[k] = s[w[k]]
      /\ \A k, l \in 1 .. Len(t) : k < l => w[k] < w[l]
      /\ \A i \in 1 .. n : keep[i] => \E k \in 1 .. Len(t) : w[k] = i
<1>5. PICK T : T = {n \in 0 .. N : \E w : Up(f[n], n, w)}
  OBVIOUS
<1>6. 0 \in T
  <2>1. PICK w : w = [k \in {} |-> 0]
    OBVIOUS
  <2>2. Len(f[0]) = 0 /\ 1 .. 0 = {}
    BY <1>4
  <2>3. w \in [{} -> {}]
    BY <2>1
  <2>4. Up(f[0], 0, w)
    BY <2>2, <2>3
  <2> QED
    BY <1>5, <2>4
<1>7. ASSUME NEW n \in 0 .. N, n \in T, n < N PROVE n + 1 \in T
  <2>1. PICK w : Up(f[n], n, w)
    BY <1>5, <1>7
  <2>2. PICK m \in 1 .. N : m = n + 1 /\ m - 1 = n
    BY <1>7
  <2>3. PICK t \in Seq(S) : t = f[n]
    BY <1>4
  <2>4. PICK L \in Nat : L = Len(t)
    OBVIOUS
  <2>5. /\ w \in [1 .. L -> 1 .. n]
        /\ \A k \in 1 .. L : keep[w[k]] /\ t[k] = s[w[k]]
        /\ \A k, l \in 1 .. L : k < l => w[k] < w[l]
        /\ \A i \in 1 .. n : keep[i] => \E k \in 1 .. L : w[k] = i
    BY <2>1, <2>3, <2>4
  <2>6. CASE ~keep[m]
    <3>1. f[m] = t
      BY <1>4, <2>2, <2>3, <2>6
    <3>2. w \in [1 .. L -> 1 .. m]
      BY <2>2, <2>5
    <3>3. \A i \in 1 .. m : keep[i] => \E k \in 1 .. L : w[k] = i
      <4>1. \A i \in 1 .. m : i = m \/ i \in 1 .. n
        BY <2>2
      <4> QED
        BY <2>5, <2>6, <4>1, Zenon
    <3>4. Up(t, m, w)
      BY <2>4, <2>5, <3>2, <3>3
    <3> QED
      BY <1>5, <2>2, <3>1, <3>4, SMTT(60)
  <2>7. CASE keep[m]
    <3>1. PICK u \in Seq(S) : u = Append(t, s[m])
      <4>1. s[m] \in S
        BY <1>2, <2>2
      <4>2. Append(t, s[m]) \in Seq(S)
        BY <4>1
      <4> QED
        BY <4>2
    <3>2. f[m] = u
      BY <1>4, <2>2, <2>3, <2>7, <3>1
    <3>3. Len(u) = L + 1 /\ u[L + 1] = s[m] /\ \A k \in 1 .. L : u[k] = t[k]
      <4>1. s[m] \in S
        BY <1>2, <2>2
      <4> QED
        BY <2>4, <3>1, <4>1
    <3>4. PICK v : v = [k \in 1 .. L + 1 |-> IF k = L + 1 THEN m ELSE w[k]]
      OBVIOUS
    <3>5. v[L + 1] = m /\ \A k \in 1 .. L : v[k] = w[k] /\ v[k] \in 1 .. n
      BY <2>5, <3>4
    <3>6. v \in [1 .. L + 1 -> 1 .. m]
      <4>1. \A k \in 1 .. L + 1 : k = L + 1 \/ k \in 1 .. L
        OBVIOUS
      <4>2. m \in 1 .. m /\ \A k \in 1 .. n : k \in 1 .. m
        BY <2>2
      <4>3. \A k \in 1 .. L + 1 : v[k] \in 1 .. m
        BY <3>5, <4>1, <4>2, Zenon
      <4> QED
        BY <3>4, <4>3
    <3>7. \A k \in 1 .. L + 1 : keep[v[k]] /\ u[k] = s[v[k]]
      <4>1. \A k \in 1 .. L + 1 : k = L + 1 \/ k \in 1 .. L
        OBVIOUS
      <4> QED
        BY <2>5, <2>7, <3>3, <3>5, <4>1
    <3>8. \A k, l \in 1 .. L + 1 : k < l => v[k] < v[l]
      <4>1. TAKE k, l \in 1 .. L + 1
      <4>2. HAVE k < l
      <4>3. k \in 1 .. L
        BY <4>2
      <4>4. CASE l = L + 1
        BY <2>2, <3>5, <4>3, <4>4
      <4>5. CASE l # L + 1
        <5>1. l \in 1 .. L
          BY <4>5
        <5> QED
          BY <2>5, <3>5, <4>2, <4>3, <5>1
      <4> QED
        BY <4>4, <4>5
    <3>9. ASSUME NEW i \in 1 .. m, keep[i] PROVE \E k \in 1 .. L + 1 : v[k] = i
      <4>1. CASE i = m
        BY <3>5, <4>1
      <4>2. CASE i # m
        <5>1. i \in 1 .. n
          BY <2>2, <4>2
        <5>2. PICK k \in 1 .. L : w[k] = i
          BY <2>5, <3>9, <5>1
        <5>3. k \in 1 .. L + 1
          OBVIOUS
        <5> QED
          BY <3>5, <5>2, <5>3
      <4> QED
        BY <4>1, <4>2
    <3>10. Up(u, m, v)
      BY <3>3, <3>6, <3>7, <3>8, <3>9
    <3> QED
      BY <1>5, <2>2, <3>2, <3>10, SMTT(60)
  <2> QED
    BY <2>6, <2>7
<1>8. N \in T
  <2> HIDE DEF Up
  <2>1. \A n \in 0 .. N : n \in T
    BY <1>6, <1>7, UpTo
  <2> QED
    BY <2>1
<1>9. PICK w : Up(f[N], N, w)
  BY <1>5, <1>8
<1>10. Sequence(f[N])
  BY <1>4, SequenceOf
<1> QED
  BY <1>1, <1>3, <1>9, <1>10 DEF Picks

\* Flattening two sequences of sequences, one after the other.
LEMMA FlattenConcat ==
  ASSUME NEW S, NEW a \in Seq(Seq(S)), NEW b \in Seq(Seq(S))
  PROVE  FlattenSeq(a \o b) = FlattenSeq(a) \o FlattenSeq(b)
<1>1. PICK N \in Nat : N = Len(b)
  OBVIOUS
<1> DEFINE Right(k) == FlattenSeq(a \o SubSeq(b, 1, k))
                         = FlattenSeq(a) \o FlattenSeq(SubSeq(b, 1, k))
<1>2. PICK T : T = {k \in 0 .. N : Right(k)}
  OBVIOUS
<1>3. PICK A \in Seq(S) : A = FlattenSeq(a)
  BY FlattenPlaces
<1>4. 0 \in T
  <2>1. SubSeq(b, 1, 0) = <<>>
    OBVIOUS
  <2>2. a \o <<>> = a /\ A \o <<>> = A
    OBVIOUS
  <2>3. FlattenSeq(<<>>) = <<>>
    BY DEF FlattenSeq
  <2>4. Right(0)
    BY <1>3, <2>1, <2>2, <2>3
  <2> QED
    BY <1>2, <2>4
<1>5. ASSUME NEW k \in 0 .. N, k \in T, k < N PROVE k + 1 \in T
  <2>1. PICK m \in 1 .. N : m = k + 1
    BY <1>5
  <2>2. PICK c \in Seq(Seq(S)) : c = SubSeq(b, 1, k)
    <3>1. SubSeq(b, 1, k) \in Seq(Seq(S))
      BY <1>1
    <3> QED
      BY <3>1
  <2>3. PICK e \in Seq(S) : e = b[m]
    BY <1>1
  <2>4. PICK d \in Seq(Seq(S)) : d = Append(c, e)
    <3>1. Append(c, e) \in Seq(Seq(S))
      OBVIOUS
    <3> QED
      BY <3>1
  <2>5. SubSeq(b, 1, m) = d
    BY <1>1, <2>1, <2>2, <2>3, <2>4
  <2>6. PICK ac \in Seq(Seq(S)) : ac = a \o c
    <3>1. a \o c \in Seq(Seq(S))
      OBVIOUS
    <3> QED
      BY <3>1
  <2>7. a \o d = Append(ac, e)
    BY <2>4, <2>6, SMTT(60)
  <2>8. PICK C \in Seq(S) : C = FlattenSeq(c)
    BY FlattenPlaces
  <2>9. FlattenSeq(ac) = A \o C
    BY <1>2, <1>3, <1>5, <2>2, <2>6, <2>8
  <2>10. FlattenSeq(a \o d) = (A \o C) \o e
    BY <2>7, <2>9, FlattenAppend
  <2>11. FlattenSeq(d) = C \o e
    BY <2>4, <2>8, FlattenAppend
  <2>12. (A \o C) \o e = A \o (C \o e)
    BY SMTT(60)
  <2>13. Right(m)
    BY <1>3, <2>5, <2>10, <2>11, <2>12
  <2> QED
    BY <1>2, <2>1, <2>13
<1>6. N \in T
  <2> HIDE DEF Right
  <2>1. \A k \in 0 .. N : k \in T
    BY <1>4, <1>5, UpTo
  <2> QED
    BY <2>1
<1>7. SubSeq(b, 1, N) = b
  BY <1>1
<1> QED
  BY <1>2, <1>6, <1>7

\* Flattening twice, from the outside or from the inside.
LEMMA FlattenTwice ==
  ASSUME NEW S, NEW s \in Seq(Seq(Seq(S)))
  PROVE  FlattenSeq(FlattenSeq(s)) = FlattenSeq([n \in 1 .. Len(s) |-> FlattenSeq(s[n])])
<1>1. PICK N \in Nat : N = Len(s)
  OBVIOUS
<1> DEFINE Right(k) == FlattenSeq(FlattenSeq(SubSeq(s, 1, k)))
                         = FlattenSeq([n \in 1 .. k |-> FlattenSeq(s[n])])
<1>2. PICK T : T = {k \in 0 .. N : Right(k)}
  OBVIOUS
<1>3. 0 \in T
  <2>1. SubSeq(s, 1, 0) = <<>> /\ [n \in 1 .. 0 |-> FlattenSeq(s[n])] = <<>>
    OBVIOUS
  <2>2. FlattenSeq(<<>>) = <<>>
    BY DEF FlattenSeq
  <2>3. Right(0)
    BY <2>1, <2>2
  <2> QED
    BY <1>2, <2>3
<1>4. ASSUME NEW k \in 0 .. N, k \in T, k < N PROVE k + 1 \in T
  <2>1. PICK m \in 1 .. N : m = k + 1
    BY <1>4
  <2>2. PICK c \in Seq(Seq(Seq(S))) : c = SubSeq(s, 1, k)
    <3>1. SubSeq(s, 1, k) \in Seq(Seq(Seq(S)))
      BY <1>1
    <3> QED
      BY <3>1
  <2>3. PICK e \in Seq(Seq(S)) : e = s[m]
    BY <1>1
  <2>4. SubSeq(s, 1, m) = Append(c, e)
    BY <1>1, <2>1, <2>2, <2>3
  <2>5. FlattenSeq(Append(c, e)) = FlattenSeq(c) \o e
    BY FlattenAppend
  <2>6. PICK C \in Seq(Seq(S)) : C = FlattenSeq(c)
    BY FlattenPlaces
  <2>7. FlattenSeq(C \o e) = FlattenSeq(C) \o FlattenSeq(e)
    BY FlattenConcat
  <2>8. PICK E \in Seq(S) : E = FlattenSeq(e)
    BY FlattenPlaces
  <2>9. PICK g : g = [n \in 1 .. k |-> FlattenSeq(s[n])]
    OBVIOUS
  <2>10. g \in Seq(Seq(S))
    <3>1. ASSUME NEW n \in 1 .. k PROVE g[n] \in Seq(S)
      <4>1. s[n] \in Seq(Seq(S))
        BY <1>1
      <4>2. FlattenSeq(s[n]) \in Seq(S)
        BY <4>1, FlattenPlaces
      <4> QED
        BY <2>9, <4>2
    <3> QED
      BY <2>9, <3>1
  <2>11. [n \in 1 .. m |-> FlattenSeq(s[n])] = Append(g, E)
    <3>1. PICK h : h = [n \in 1 .. m |-> FlattenSeq(s[n])]
      OBVIOUS
    <3>2. Sequence(h) /\ Len(h) = m
      BY <3>1 DEF Sequence
    <3>3. Sequence(g) /\ Len(g) = k
      BY <2>9 DEF Sequence
    <3>4. PICK a : a = Append(g, E)
      OBVIOUS
    <3>5. Sequence(a) /\ Len(a) = m /\ a[m] = E /\ \A n \in 1 .. k : a[n] = g[n]
      BY <2>1, <3>3, <3>4, AppendElement
    <3>6. \A n \in 1 .. m : n = m \/ n \in 1 .. k
      BY <2>1
    <3>7. \A n \in 1 .. m : h[n] = a[n]
      BY <2>3, <2>8, <2>9, <3>1, <3>5, <3>6
    <3>8. h = a
      BY <3>2, <3>5, <3>7, SameSequence
    <3> QED
      BY <3>1, <3>4, <3>8
  <2>12. FlattenSeq(Append(g, E)) = FlattenSeq(g) \o E
    BY <2>10, FlattenAppend
  <2>13. FlattenSeq(C) = FlattenSeq(g)
    BY <1>2, <1>4, <2>2, <2>6, <2>9
  <2>14. Right(m)
    BY <2>4, <2>5, <2>6, <2>7, <2>8, <2>11, <2>12, <2>13
  <2> QED
    BY <1>2, <2>1, <2>14
<1>5. N \in T
  <2> HIDE DEF Right
  <2>1. \A k \in 0 .. N : k \in T
    BY <1>3, <1>4, UpTo
  <2> QED
    BY <2>1
<1>6. SubSeq(s, 1, N) = s
  BY <1>1
<1> QED
  BY <1>1, <1>2, <1>5, <1>6
=============================================================================
