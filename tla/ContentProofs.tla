---------------------------- MODULE ContentProofs ----------------------------
(***************************************************************************)
(* Proofs about Content, for any paths, files, attribute lines and bounds. *)
(***************************************************************************)
EXTENDS Content, Recursion, FiniteSetTheorems

-----------------------------------------------------------------------------
(* Sorting.                                                                *)

\* R puts the elements of S in a line.
Line(R, S) ==
  /\ \A a \in S : <<a, a>> \notin R
  /\ \A a, b, c \in S : <<a, b>> \in R /\ <<b, c>> \in R => <<a, c>> \in R
  /\ \A a, b \in S : <<a, b>> \in R \/ a = b \/ <<b, a>> \in R

\* How many elements of S are before e.
Rank(R, S, e) == Cardinality({f \in S : <<f, e>> \in R})

\* seq is S in the order R.
Sorted(seq, S, R) ==
  /\ Sequence(seq) /\ Len(seq) = Cardinality(S)
  /\ \A i \in 1 .. Len(seq) : seq[i] \in S
  /\ \A i, j \in 1 .. Len(seq) : i < j => <<seq[i], seq[j]>> \in R
  /\ \A e \in S : \E i \in 1 .. Len(seq) : seq[i] = e

\* The elements of a line have different ranks, in their order.
LEMMA RanksGrow ==
  ASSUME NEW S, IsFiniteSet(S), NEW R, Line(R, S)
  PROVE  /\ \A e \in S : Rank(R, S, e) \in 0 .. Cardinality(S) - 1
         /\ \A a, b \in S : <<a, b>> \in R => Rank(R, S, a) < Rank(R, S, b)
<1>1. PICK N \in Nat : N = Cardinality(S)
  BY FS_CardinalityType
<1>2. ASSUME NEW e \in S, NEW Q \in SUBSET S, NEW b \in S, b \notin Q
      PROVE  Cardinality(Q) \in Nat /\ Cardinality(Q) < N
  <2>1. /\ IsFiniteSet(Q) /\ Cardinality(Q) <= Cardinality(S)
        /\ Cardinality(S) = Cardinality(Q) => S = Q
    BY FS_Subset
  <2>2. Cardinality(Q) \in Nat
    BY <2>1, FS_CardinalityType
  <2>3. Q # S
    BY <1>2
  <2> QED
    BY <1>1, <2>1, <2>2, <2>3
<1>3. ASSUME NEW e \in S PROVE Rank(R, S, e) \in 0 .. N - 1
  <2>1. PICK Q \in SUBSET S : Q = {f \in S : <<f, e>> \in R}
    OBVIOUS
  <2>2. e \notin Q
    BY <2>1 DEF Line
  <2>3. Cardinality(Q) \in Nat /\ Cardinality(Q) < N
    BY <1>2, <2>2
  <2> QED
    BY <2>1, <2>3 DEF Rank
<1>4. ASSUME NEW a \in S, NEW b \in S, <<a, b>> \in R PROVE Rank(R, S, a) < Rank(R, S, b)
  <2>1. PICK Q \in SUBSET S : Q = {f \in S : <<f, a>> \in R}
    OBVIOUS
  <2>2. PICK P \in SUBSET S : P = {f \in S : <<f, b>> \in R}
    OBVIOUS
  <2>3. a \in P /\ a \notin Q
    BY <1>4, <2>1, <2>2 DEF Line
  <2>4. Q \subseteq P
    BY <1>4, <2>1, <2>2 DEF Line
  <2>5. IsFiniteSet(P)
    BY FS_Subset
  <2>6. /\ IsFiniteSet(Q) /\ Cardinality(Q) <= Cardinality(P)
        /\ Cardinality(P) = Cardinality(Q) => P = Q
    BY <2>4, <2>5, FS_Subset
  <2>7. Cardinality(P) \in Nat /\ Cardinality(Q) \in Nat
    BY <2>5, <2>6, FS_CardinalityType
  <2>8. Cardinality(Q) < Cardinality(P)
    BY <2>3, <2>6, <2>7
  <2> QED
    BY <2>1, <2>2, <2>8 DEF Rank
<1> QED
  BY <1>1, <1>3, <1>4

\* Every rank there can be is the one of some element.
LEMMA RanksExist ==
  ASSUME NEW S, IsFiniteSet(S), NEW R, Line(R, S), NEW i \in 1 .. Cardinality(S)
  PROVE  \E e \in S : Rank(R, S, e) = i - 1
<1>1. PICK N \in Nat : N = Cardinality(S)
  BY FS_CardinalityType
<1>2. PICK f : f = [e \in S |-> Rank(R, S, e)]
  OBVIOUS
<1>3. PICK T : T = 0 .. N - 1
  OBVIOUS
<1>4. IsFiniteSet(T) /\ Cardinality(T) = N
  BY <1>1, <1>3, FS_Interval
<1>5. \A e \in S : Rank(R, S, e) \in T
  BY <1>1, <1>3, RanksGrow
<1>6. f \in [S -> T]
  BY <1>2, <1>5
<1>7. \A a, b \in S : a # b => f[a] # f[b]
  <2>1. TAKE a, b \in S
  <2>2. HAVE a # b
  <2>3. <<a, b>> \in R \/ <<b, a>> \in R
    BY <2>2 DEF Line
  <2>4. Rank(R, S, a) < Rank(R, S, b) \/ Rank(R, S, b) < Rank(R, S, a)
    BY <2>3, RanksGrow
  <2>5. Rank(R, S, a) \in Int /\ Rank(R, S, b) \in Int
    BY <1>3, <1>5
  <2>6. Rank(R, S, a) # Rank(R, S, b)
    BY <2>4, <2>5
  <2> QED
    BY <1>2, <2>6
<1>8. f \in Injection(S, T)
  BY <1>6, <1>7 DEF Injection, IsInjective
<1>9. f \in Surjection(S, T)
  BY <1>1, <1>4, <1>8, FS_Injection
<1>10. i - 1 \in T
  BY <1>1, <1>3
<1> QED
  BY <1>2, <1>9, <1>10 DEF Surjection

\* A sequence that has at each place the element of that rank is sorted.
LEMMA RankedIsSorted ==
  ASSUME NEW S, IsFiniteSet(S), NEW R, Line(R, S), NEW seq,
         seq = [i \in 1 .. Cardinality(S) |-> seq[i]],
         \A i \in 1 .. Cardinality(S) : seq[i] \in S /\ Rank(R, S, seq[i]) = i - 1
  PROVE  Sorted(seq, S, R)
<1>1. PICK N \in Nat : N = Cardinality(S)
  BY FS_CardinalityType
<1>2. \A i \in 1 .. N : seq[i] \in S /\ Rank(R, S, seq[i]) = i - 1
  BY <1>1
<1>3. seq \in Seq(S) /\ Len(seq) = N
  BY <1>1, <1>2
<1>4. Sequence(seq)
  BY <1>3, SequenceOf
<1>5. \A e \in S : Rank(R, S, e) \in 0 .. N - 1
  BY <1>1, RanksGrow
<1>6. \A a, b \in S : <<a, b>> \in R => Rank(R, S, a) < Rank(R, S, b)
  BY RanksGrow
<1>7. ASSUME NEW i \in 1 .. N, NEW j \in 1 .. N, i < j PROVE <<seq[i], seq[j]>> \in R
  <2>1. PICK a \in S, b \in S : a = seq[i] /\ b = seq[j]
    BY <1>2
  <2>2. Rank(R, S, a) = i - 1 /\ Rank(R, S, b) = j - 1
    BY <1>2, <2>1
  <2>3. a # b
    BY <1>7, <2>2
  <2>4. ~(<<b, a>> \in R)
    BY <1>6, <1>7, <2>2
  <2> QED
    BY <2>1, <2>3, <2>4 DEF Line
<1>8. ASSUME NEW e \in S PROVE \E i \in 1 .. N : seq[i] = e
  <2>1. PICK i \in 1 .. N : Rank(R, S, e) = i - 1
    <3>1. Rank(R, S, e) \in 0 .. N - 1
      BY <1>5
    <3>2. Rank(R, S, e) + 1 \in 1 .. N /\ Rank(R, S, e) = (Rank(R, S, e) + 1) - 1
      BY <3>1
    <3> QED
      BY <3>2
  <2>2. PICK a \in S : a = seq[i]
    BY <1>2
  <2>3. Rank(R, S, a) = Rank(R, S, e)
    BY <1>2, <2>1, <2>2
  <2>4. ~(<<a, e>> \in R) /\ ~(<<e, a>> \in R)
    BY <1>3, <1>5, <1>6, <2>3
  <2>5. a = e
    BY <2>4 DEF Line
  <2> QED
    BY <2>2, <2>5
<1> QED
  BY <1>1, <1>2, <1>3, <1>4, <1>7, <1>8 DEF Sorted

-----------------------------------------------------------------------------
(* The three orders of the code.                                           *)

\* The orders of numbers, of paths and of directories.
NumberOrder(S) == {ss \in S \X S : ss[1] < ss[2]}
PathOrder(S) == {ss \in S \X S : PathBefore(ss[1], ss[2])}
DirectoryOrder(S) == {ss \in S \X S : DirBefore(ss[1], ss[2])}

\* Numbers are sorted.
LEMMA NumbersInOrder ==
  ASSUME NEW S, IsFiniteSet(S), S \subseteq Nat
  PROVE  Sorted(InOrder(S, <), S, NumberOrder(S))
<1>1. PICK R : R = NumberOrder(S)
  OBVIOUS
<1>2. \A a, b \in S : <<a, b>> \in R <=> a < b
  BY <1>1 DEF NumberOrder
<1>3. Line(R, S)
  BY <1>2 DEF Line
<1>4. PICK seq : seq = InOrder(S, <)
  OBVIOUS
<1> DEFINE Place(i) == CHOOSE e \in S : Cardinality({f \in S : f < e}) = i - 1
<1>5. seq = [i \in 1 .. Cardinality(S) |-> Place(i)]
  BY <1>4 DEF InOrder
<1>6. ASSUME NEW i \in 1 .. Cardinality(S) PROVE seq[i] \in S /\ Rank(R, S, seq[i]) = i - 1
  <2>1. PICK e \in S : Rank(R, S, e) = i - 1
    BY <1>3, RanksExist
  <2>2. \A d \in S : {f \in S : f < d} = {f \in S : <<f, d>> \in R}
    BY <1>2
  <2>3. \A d \in S : Cardinality({f \in S : f < d}) = Rank(R, S, d)
    BY <2>2 DEF Rank
  <2>4. seq[i] = CHOOSE d \in S : Cardinality({f \in S : f < d}) = i - 1
    BY <1>5
  <2>5. seq[i] \in S /\ Cardinality({f \in S : f < seq[i]}) = i - 1
    BY <2>1, <2>3, <2>4
  <2> QED
    BY <2>3, <2>5
<1>7. seq = [i \in 1 .. Cardinality(S) |-> seq[i]]
  <2> HIDE DEF Place
  <2> QED
    BY <1>5
<1> QED
  BY <1>1, <1>3, <1>4, <1>6, <1>7, RankedIsSorted

\* Texts are in a line: each has a place of its own.
LEMMA PathsInLine ==
  ASSUME NEW S, S \subseteq DOMAIN textPlace
  PROVE  Line(PathOrder(S), S)
<1>1. PICK R : R = PathOrder(S)
  OBVIOUS
<1>2. \A a, b \in S : <<a, b>> \in R <=> textPlace[a] < textPlace[b]
  BY <1>1 DEF PathOrder, PathBefore
<1>3. \A a \in S : textPlace[a] \in Nat
  BY ContentAssumption DEF ContentAssumption
<1>4. \A a, b \in S : textPlace[a] = textPlace[b] => a = b
  BY ContentAssumption DEF ContentAssumption
<1>5. ASSUME NEW a \in S, NEW b \in S PROVE <<a, b>> \in R \/ a = b \/ <<b, a>> \in R
  <2>1. textPlace[a] < textPlace[b] \/ textPlace[a] = textPlace[b] \/ textPlace[b] < textPlace[a]
    BY <1>3
  <2> QED
    BY <1>2, <1>4, <2>1
<1>6. ASSUME NEW a \in S, NEW b \in S, NEW c \in S, <<a, b>> \in R, <<b, c>> \in R
      PROVE  <<a, c>> \in R
  BY <1>2, <1>3, <1>6
<1>7. ASSUME NEW a \in S PROVE <<a, a>> \notin R
  BY <1>2, <1>3
<1> QED
  BY <1>1, <1>5, <1>6, <1>7 DEF Line

\* Paths are sorted.
LEMMA PathsInOrder ==
  ASSUME NEW S, IsFiniteSet(S), S \subseteq DOMAIN textPlace
  PROVE  Sorted(InOrder(S, PathBefore), S, PathOrder(S))
<1>1. PICK R : R = PathOrder(S)
  OBVIOUS
<1>2. \A a, b \in S : <<a, b>> \in R <=> PathBefore(a, b)
  BY <1>1 DEF PathOrder
<1>3. Line(R, S)
  BY <1>1, PathsInLine
<1>4. PICK seq : seq = InOrder(S, PathBefore)
  OBVIOUS
<1> DEFINE Place(i) == CHOOSE e \in S : Cardinality({f \in S : PathBefore(f, e)}) = i - 1
<1>5. seq = [i \in 1 .. Cardinality(S) |-> Place(i)]
  BY <1>4 DEF InOrder
<1>6. ASSUME NEW i \in 1 .. Cardinality(S) PROVE seq[i] \in S /\ Rank(R, S, seq[i]) = i - 1
  <2>1. PICK e \in S : Rank(R, S, e) = i - 1
    BY <1>3, RanksExist
  <2>2. \A d \in S : {f \in S : PathBefore(f, d)} = {f \in S : <<f, d>> \in R}
    BY <1>2
  <2>3. \A d \in S : Cardinality({f \in S : PathBefore(f, d)}) = Rank(R, S, d)
    BY <2>2 DEF Rank
  <2>4. seq[i] = CHOOSE d \in S : Cardinality({f \in S : PathBefore(f, d)}) = i - 1
    BY <1>5
  <2>5. seq[i] \in S /\ Cardinality({f \in S : PathBefore(f, seq[i])}) = i - 1
    BY <2>1, <2>3, <2>4
  <2> QED
    BY <2>3, <2>5
<1>7. seq = [i \in 1 .. Cardinality(S) |-> seq[i]]
  <2> HIDE DEF Place
  <2> QED
    BY <1>5
<1> QED
  BY <1>1, <1>3, <1>4, <1>6, <1>7, RankedIsSorted

\* Directories, the deepest first, are in a line.
LEMMA DirectoriesInLine ==
  ASSUME NEW S, S \subseteq Seq(Nat), S \subseteq DOMAIN textPlace
  PROVE  Line(DirectoryOrder(S), S)
<1>1. PICK R : R = DirectoryOrder(S)
  OBVIOUS
<1>2. PICK P : P = PathOrder(S)
  OBVIOUS
<1>3. Line(P, S)
  BY <1>2, PathsInLine
<1>4. \A a \in S : Slashes(a) \in Int
  <2>1. \A a \in S : Len(a) \in Nat
    OBVIOUS
  <2> QED
    BY <2>1 DEF Slashes
<1>5. \A a, b \in S : <<a, b>> \in R <=> \/ Slashes(a) > Slashes(b)
                                         \/ Slashes(a) = Slashes(b) /\ <<a, b>> \in P
  BY <1>1, <1>2 DEF DirectoryOrder, PathOrder, DirBefore
<1>6. ASSUME NEW a \in S PROVE <<a, a>> \notin R
  <2>1. <<a, a>> \notin P
    BY <1>3 DEF Line
  <2>2. ~(Slashes(a) > Slashes(a))
    BY <1>4
  <2> QED
    BY <1>5, <2>1, <2>2
<1>7. ASSUME NEW a \in S, NEW b \in S PROVE <<a, b>> \in R \/ a = b \/ <<b, a>> \in R
  <2>1. <<a, b>> \in P \/ a = b \/ <<b, a>> \in P
    BY <1>3 DEF Line
  <2>2. Slashes(a) > Slashes(b) \/ Slashes(b) > Slashes(a) \/ Slashes(a) = Slashes(b)
    BY <1>4
  <2> QED
    BY <1>5, <2>1, <2>2
<1>8. ASSUME NEW a \in S, NEW b \in S, NEW c \in S, <<a, b>> \in R, <<b, c>> \in R
      PROVE  <<a, c>> \in R
  <2>1. <<a, b>> \in P /\ <<b, c>> \in P => <<a, c>> \in P
    BY <1>3 DEF Line
  <2>2. Slashes(a) \in Int /\ Slashes(b) \in Int /\ Slashes(c) \in Int
    BY <1>4
  <2> QED
    BY <1>5, <1>8, <2>1, <2>2
<1> QED
  BY <1>1, <1>6, <1>7, <1>8 DEF Line

\* Directories are sorted.
LEMMA DirectoriesInOrder ==
  ASSUME NEW S, IsFiniteSet(S), S \subseteq Seq(Nat), S \subseteq DOMAIN textPlace
  PROVE  Sorted(InOrder(S, DirBefore), S, DirectoryOrder(S))
<1>1. PICK R : R = DirectoryOrder(S)
  OBVIOUS
<1>2. \A a, b \in S : <<a, b>> \in R <=> DirBefore(a, b)
  BY <1>1 DEF DirectoryOrder
<1>3. Line(R, S)
  BY <1>1, DirectoriesInLine
<1>4. PICK seq : seq = InOrder(S, DirBefore)
  OBVIOUS
<1> DEFINE Place(i) == CHOOSE e \in S : Cardinality({f \in S : DirBefore(f, e)}) = i - 1
<1>5. seq = [i \in 1 .. Cardinality(S) |-> Place(i)]
  BY <1>4 DEF InOrder
<1>6. ASSUME NEW i \in 1 .. Cardinality(S) PROVE seq[i] \in S /\ Rank(R, S, seq[i]) = i - 1
  <2>1. PICK e \in S : Rank(R, S, e) = i - 1
    BY <1>3, RanksExist
  <2>2. \A d \in S : {f \in S : DirBefore(f, d)} = {f \in S : <<f, d>> \in R}
    BY <1>2
  <2>3. \A d \in S : Cardinality({f \in S : DirBefore(f, d)}) = Rank(R, S, d)
    BY <2>2 DEF Rank
  <2>4. seq[i] = CHOOSE d \in S : Cardinality({f \in S : DirBefore(f, d)}) = i - 1
    BY <1>5
  <2>5. seq[i] \in S /\ Cardinality({f \in S : DirBefore(f, seq[i])}) = i - 1
    BY <2>1, <2>3, <2>4
  <2> QED
    BY <2>3, <2>5
<1>7. seq = [i \in 1 .. Cardinality(S) |-> seq[i]]
  <2> HIDE DEF Place
  <2> QED
    BY <1>5
<1> QED
  BY <1>1, <1>3, <1>4, <1>6, <1>7, RankedIsSorted

-----------------------------------------------------------------------------
(* Commits.                                                                *)

\* Every change a commit may have.
Ops == {op \in [path : Paths, file : (UNION {FilesAt[p] : p \in Paths}) \cup {None}] :
          op.file \in FilesAt[op.path] \cup {None}}

\* What commits may be, one after the other.
Commits == Seq(Seq(Ops))

\* The i-th is the last of the changes at p.
LastAt(ops, i, p) ==
  ops[i].path = p /\ \A j \in i + 1 .. Len(ops) : ops[j].path # p

\* The changes lead from the files old to the files new.
Brings(ops, old, new) ==
  \A p \in Paths :
    \/ new[p] = old[p] /\ \A i \in 1 .. Len(ops) : ops[i].path # p
    \/ \E i \in 1 .. Len(ops) : LastAt(ops, i, p) /\ ops[i].file = new[p]

\* Nothing has happened.
LEMMA BringsNothing ==
  ASSUME NEW t
  PROVE  Brings(<<>>, t, t)
BY DEF Brings

\* First one, then the other.
LEMMA BringsOn ==
  ASSUME NEW a \in Seq(Ops), NEW b \in Seq(Ops), NEW s, NEW t, NEW u,
         Brings(a, s, t), Brings(b, t, u)
  PROVE  Brings(a \o b, s, u)
<1>1. PICK k \in Nat, l \in Nat : k = Len(a) /\ l = Len(b)
  OBVIOUS
<1>2. PICK c \in Seq(Ops) : c = a \o b
  <2>1. a \o b \in Seq(Ops)
    OBVIOUS
  <2> QED
    BY <2>1
<1>3. Len(c) = k + l /\ (\A i \in 1 .. k : c[i] = a[i]) /\ (\A i \in 1 .. l : c[k + i] = b[i])
  BY <1>1, <1>2
<1>4. SUFFICES ASSUME NEW p \in Paths
               PROVE  \/ u[p] = s[p] /\ \A i \in 1 .. k + l : c[i].path # p
                      \/ \E i \in 1 .. k + l : LastAt(c, i, p) /\ c[i].file = u[p]
  BY <1>2, <1>3 DEF Brings
<1>5. \A i \in 1 .. k + l : i \in 1 .. k \/ (i - k \in 1 .. l /\ c[i] = b[i - k])
  <2>1. \A i \in 1 .. k + l : i \in 1 .. k \/ (i - k \in 1 .. l /\ k + (i - k) = i)
    OBVIOUS
  <2> QED
    BY <1>3, <2>1
<1>6. CASE \E i \in 1 .. l : LastAt(b, i, p) /\ b[i].file = u[p]
  <2>1. PICK i \in 1 .. l : LastAt(b, i, p) /\ b[i].file = u[p]
    BY <1>6
  <2>2. k + i \in 1 .. k + l /\ c[k + i] = b[i]
    BY <1>3
  <2>3. ASSUME NEW j \in k + i + 1 .. k + l PROVE c[j].path # p
    <3>1. j \in 1 .. k + l /\ j \notin 1 .. k /\ j - k \in i + 1 .. l
      OBVIOUS
    <3>2. c[j] = b[j - k]
      BY <1>5, <3>1
    <3> QED
      BY <1>1, <2>1, <3>1, <3>2 DEF LastAt
  <2>4. LastAt(c, k + i, p)
    BY <1>3, <2>1, <2>2, <2>3 DEF LastAt
  <2> QED
    BY <2>1, <2>2, <2>4
<1>7. CASE u[p] = t[p] /\ \A i \in 1 .. l : b[i].path # p
  <2>1. CASE t[p] = s[p] /\ \A i \in 1 .. k : a[i].path # p
    <3>1. \A i \in 1 .. k + l : c[i].path # p
      BY <1>3, <1>5, <1>7, <2>1
    <3> QED
      BY <1>7, <2>1, <3>1
  <2>2. CASE \E i \in 1 .. k : LastAt(a, i, p) /\ a[i].file = t[p]
    <3>1. PICK i \in 1 .. k : LastAt(a, i, p) /\ a[i].file = t[p]
      BY <2>2
    <3>2. i \in 1 .. k + l /\ c[i] = a[i]
      BY <1>3
    <3>3. ASSUME NEW j \in i + 1 .. k + l PROVE c[j].path # p
      <4>1. j \in 1 .. k + l
        OBVIOUS
      <4>2. CASE j \in 1 .. k
        <5>1. j \in i + 1 .. k
          BY <4>2
        <5> QED
          BY <1>1, <1>3, <3>1, <4>2, <5>1 DEF LastAt
      <4>3. CASE j \notin 1 .. k
        BY <1>5, <1>7, <4>1, <4>3
      <4> QED
        BY <4>2, <4>3
    <3>4. LastAt(c, i, p)
      BY <1>3, <3>1, <3>2, <3>3 DEF LastAt
    <3> QED
      BY <1>7, <3>1, <3>2, <3>4
  <2>3. (t[p] = s[p] /\ \A i \in 1 .. k : a[i].path # p)
        \/ (\E i \in 1 .. k : LastAt(a, i, p) /\ a[i].file = t[p])
    BY <1>1 DEF Brings
  <2> QED
    BY <2>1, <2>2, <2>3
<1>8. (u[p] = t[p] /\ \A i \in 1 .. l : b[i].path # p)
      \/ (\E i \in 1 .. l : LastAt(b, i, p) /\ b[i].file = u[p])
  BY <1>1 DEF Brings
<1> QED
  BY <1>6, <1>7, <1>8

\* A commit changes each path once, into what the new tree has there.
LEMMA OpsOfBrings ==
  ASSUME NEW old \in Trees, NEW new \in Trees
  PROVE  OpsOf(old, new) \in Seq(Ops) /\ Brings(OpsOf(old, new), old, new)
<1>1. PICK C : C = Changes(old, new)
  OBVIOUS
<1>2. C \subseteq Paths /\ \A p \in Paths : p \in C <=> old[p] # new[p]
  BY <1>1 DEF Changes
<1>3. IsFiniteSet(C) /\ C \subseteq DOMAIN textPlace
  BY <1>2, ContentAssumption, FS_Subset DEF ContentAssumption
<1>4. PICK order : order = InOrder(C, PathBefore)
  OBVIOUS
<1>5. Sorted(order, C, PathOrder(C))
  BY <1>3, <1>4, PathsInOrder
<1>6. PICK N \in Nat : N = Len(order)
  BY <1>5 DEF Sorted, Sequence
<1>7. DOMAIN order = 1 .. N /\ \A i \in 1 .. N : order[i] \in Paths
  BY <1>2, <1>5, <1>6 DEF Sorted, Sequence
<1>8. PICK ops : ops = [i \in 1 .. N |-> [path |-> order[i], file |-> new[order[i]]]]
  OBVIOUS
<1>9. OpsOf(old, new) = ops
  BY <1>1, <1>4, <1>7, <1>8 DEF OpsOf
<1>10. \A p \in Paths : new[p] \in FilesAt[p] \cup {None}
  BY DEF Trees
<1>11. \A p \in Paths : [path |-> p, file |-> new[p]] \in Ops
  BY <1>10 DEF Ops
<1>12. ops \in Seq(Ops)
  BY <1>7, <1>8, <1>11
<1>13. Len(ops) = N /\ \A i \in 1 .. N : ops[i].path = order[i] /\ ops[i].file = new[order[i]]
  BY <1>8
<1>14. ASSUME NEW p \in Paths
       PROVE  \/ new[p] = old[p] /\ \A i \in 1 .. N : ops[i].path # p
              \/ \E i \in 1 .. N : LastAt(ops, i, p) /\ ops[i].file = new[p]
  <2>1. CASE p \notin C
    BY <1>2, <1>5, <1>6, <1>13, <2>1 DEF Sorted
  <2>2. CASE p \in C
    <3>1. PICK i \in 1 .. N : order[i] = p
      BY <1>5, <1>6, <2>2 DEF Sorted
    <3>2. ASSUME NEW j \in i + 1 .. N PROVE order[j] # p
      <4>1. j \in 1 .. N /\ i < j
        OBVIOUS
      <4>2. <<order[i], order[j]>> \in PathOrder(C)
        BY <1>5, <1>6, <4>1 DEF Sorted
      <4>3. <<p, p>> \notin PathOrder(C)
        BY <1>3, <2>2, PathsInLine DEF Line
      <4> QED
        BY <3>1, <4>2, <4>3
    <3>3. LastAt(ops, i, p)
      <4>1. \A j \in i + 1 .. N : j \in 1 .. N
        OBVIOUS
      <4> QED
        BY <1>13, <3>1, <3>2, <4>1 DEF LastAt
    <3> QED
      BY <1>13, <3>1, <3>3
  <2> QED
    BY <2>1, <2>2
<1> QED
  BY <1>9, <1>12, <1>13, <1>14 DEF Brings

-----------------------------------------------------------------------------
(* The M commands of a push.                                               *)

\* A change that is not a deletion.
Mods == {op \in Ops : op.file # None}

\* mods are the M commands among ops, where w says.
ModsOf(mods, ops, w) ==
  /\ mods \in Seq(Mods) /\ w \in [1 .. Len(mods) -> 1 .. Len(ops)]
  /\ \A k \in 1 .. Len(mods) : mods[k] = ops[w[k]]
  /\ \A k, l \in 1 .. Len(mods) : k < l => w[k] < w[l]
  /\ \A i \in 1 .. Len(ops) : ops[i].file # None => \E k \in 1 .. Len(mods) : w[k] = i

\* Modifies selects them.
LEMMA ModifiesFacts ==
  ASSUME NEW commits \in Commits
  PROVE  /\ FlattenSeq(commits) \in Seq(Ops)
         /\ \E w : ModsOf(Modifies(commits), FlattenSeq(commits), w)
<1>1. PICK ops \in Seq(Ops) : ops = FlattenSeq(commits)
  BY FlattenPlaces DEF Commits
<1>2. PICK keep : keep = [i \in DOMAIN ops |-> ops[i].file # None]
  OBVIOUS
<1>3. PICK mods : mods = Modifies(commits)
  OBVIOUS
<1>4. mods = Selected(ops, keep)[Len(ops)]
  BY <1>1, <1>2, <1>3 DEF Modifies
<1>5. PICK w : Picks(mods, ops, keep, w)
  BY <1>4, SequenceOf, SelectedPicks
<1>6. PICK N \in Nat, M \in Nat : N = Len(ops) /\ M = Len(mods)
  BY <1>5 DEF Picks, Sequence
<1>7. \A i \in 1 .. N : keep[i] <=> ops[i].file # None
  <2>1. DOMAIN ops = 1 .. N
    BY <1>6
  <2> QED
    BY <1>2, <2>1, Zenon
<1>8. /\ w \in [1 .. M -> 1 .. N]
      /\ \A k \in 1 .. M : keep[w[k]] /\ mods[k] = ops[w[k]]
      /\ \A k, l \in 1 .. M : k < l => w[k] < w[l]
      /\ \A i \in 1 .. N : keep[i] => \E k \in 1 .. M : w[k] = i
  BY <1>5, <1>6 DEF Picks
<1>9. \A k \in 1 .. M : mods[k] \in Mods
  <2>1. \A k \in 1 .. M : ops[w[k]] \in Ops
    BY <1>6, <1>8
  <2> QED
    BY <1>7, <1>8, <2>1, ZenonT(60) DEF Mods
<1>10. mods \in Seq(Mods)
  <2>1. mods = [i \in 1 .. M |-> mods[i]]
    BY <1>5, <1>6 DEF Picks, Sequence
  <2> QED
    BY <1>9, <2>1
<1>11. ModsOf(mods, ops, w)
  BY <1>6, <1>7, <1>8, <1>10 DEF ModsOf
<1> QED
  BY <1>1, <1>3, <1>11

\* What an M command is made of.
LEMMA ModType ==
  ASSUME NEW op \in Mods
  PROVE  op \in Ops /\ op.path \in Paths /\ op.file \in FilesAt[op.path] /\ op.file # None
BY DEF Mods, Ops

\* The directory and the last name of a path.
LEMMA FrontFacts ==
  ASSUME NEW d \in Seq(Nat), d # Root
  PROVE  /\ Len(d) \in Nat \ {0} /\ Front(d) \in Seq(Nat) /\ Last(d) \in Nat
         /\ Len(Front(d)) = Len(d) - 1 /\ d = Append(Front(d), Last(d))
         /\ \A j \in 1 .. Len(d) - 1 : Front(d)[j] = d[j]
<1>1. PICK m \in Nat : m = Len(d)
  OBVIOUS
<1>2. m # 0
  BY <1>1 DEF Root
<1>3. PICK e : e = SubSeq(d, 1, m - 1)
  OBVIOUS
<1>4. e \in Seq(Nat) /\ Len(e) = m - 1 /\ \A i \in 1 .. m - 1 : e[i] = d[i]
  BY <1>1, <1>2, <1>3
<1>5. Front(d) = e /\ Last(d) = d[m] /\ d[m] \in Nat
  BY <1>1, <1>2, <1>3 DEF Front, Last
<1>6. PICK f \in Seq(Nat) : f = Append(e, d[m])
  <2>1. Append(e, d[m]) \in Seq(Nat)
    BY <1>4, <1>5
  <2> QED
    BY <2>1
<1>7. Len(f) = m /\ \A i \in 1 .. m : f[i] = d[i]
  <2>1. \A i \in 1 .. m : i = m \/ i \in 1 .. m - 1
    OBVIOUS
  <2> QED
    BY <1>4, <1>5, <1>6, <2>1
<1>8. f = d
  BY <1>1, <1>7, SequenceOf, SameSequence
<1> QED
  BY <1>1, <1>2, <1>4, <1>5, <1>6, <1>8

\* A path has both.
LEMMA PathType ==
  ASSUME NEW p \in Paths
  PROVE  p \in Seq(Nat) /\ p # Root /\ Len(p) \in Nat \ {0}
BY ContentAssumption, FrontFacts DEF ContentAssumption, Root

-----------------------------------------------------------------------------
(* The directories of a push.                                              *)

\* The paths of the files of a push, and their directories.
PathsOf(mods) == ToSet([i \in DOMAIN mods |-> mods[i].path])
DirsOf(mods) == Dirs(PathsOf(mods))

\* d is a directory above p.
Above(d, p) == Len(d) < Len(p) /\ \A j \in 1 .. Len(d) : d[j] = p[j]

\* The paths of a push are finitely many paths.
LEMMA PathsOfFacts ==
  ASSUME NEW mods \in Seq(Mods)
  PROVE  /\ PathsOf(mods) = {mods[i].path : i \in 1 .. Len(mods)}
         /\ PathsOf(mods) \subseteq Paths /\ IsFiniteSet(PathsOf(mods))
<1>1. DOMAIN mods = 1 .. Len(mods)
  OBVIOUS
<1>2. PathsOf(mods) = {mods[i].path : i \in 1 .. Len(mods)}
  BY <1>1 DEF PathsOf, ToSet
<1>3. \A i \in 1 .. Len(mods) : mods[i].path \in Paths
  <2>1. \A i \in 1 .. Len(mods) : mods[i] \in Mods
    OBVIOUS
  <2> QED
    BY <2>1, ModType
<1>4. PathsOf(mods) \subseteq Paths
  BY <1>2, <1>3
<1> QED
  BY <1>2, <1>4, ContentAssumption, FS_Subset DEF ContentAssumption

\* The beginnings of a path are the directories above it.
LEMMA Beginnings ==
  ASSUME NEW p \in Paths, NEW d
  PROVE  d \in {SubSeq(p, 1, k) : k \in 0 .. Len(p) - 1} <=> d \in Seq(Nat) /\ Above(d, p)
<1>1. PICK m \in Nat : m = Len(p) /\ p \in Seq(Nat)
  BY PathType
<1>2. ASSUME NEW k \in 0 .. m - 1
      PROVE  /\ SubSeq(p, 1, k) \in Seq(Nat) /\ Len(SubSeq(p, 1, k)) = k
             /\ \A j \in 1 .. k : SubSeq(p, 1, k)[j] = p[j]
  BY <1>1
<1>3. ASSUME NEW k \in 0 .. m - 1, d = SubSeq(p, 1, k) PROVE d \in Seq(Nat) /\ Above(d, p)
  BY <1>1, <1>2, <1>3 DEF Above
<1>4. ASSUME d \in Seq(Nat), Above(d, p) PROVE \E k \in 0 .. m - 1 : d = SubSeq(p, 1, k)
  <2>1. PICK k \in 0 .. m - 1 : k = Len(d)
    BY <1>1, <1>4 DEF Above
  <2>2. PICK e : e = SubSeq(p, 1, k)
    OBVIOUS
  <2>3. e \in Seq(Nat) /\ Len(e) = k /\ \A j \in 1 .. k : e[j] = d[j]
    BY <1>2, <1>4, <2>1, <2>2 DEF Above
  <2>4. e = d
    BY <1>4, <2>1, <2>3, SequenceOf, SameSequence
  <2> QED
    BY <2>2, <2>4
<1> QED
  BY <1>1, <1>3, <1>4

\* The directories of a push.
LEMMA DirsFacts ==
  ASSUME NEW mods \in Seq(Mods)
  PROVE  /\ DirsOf(mods) \subseteq Seq(Nat) /\ Root \in DirsOf(mods)
         /\ \A d \in DirsOf(mods) : d # Root => \E i \in 1 .. Len(mods) : Above(d, mods[i].path)
         /\ \A d \in Seq(Nat) : \A i \in 1 .. Len(mods) :
              Above(d, mods[i].path) => d \in DirsOf(mods)
<1>1. PICK P : P = PathsOf(mods)
  OBVIOUS
<1>2. P = {mods[i].path : i \in 1 .. Len(mods)} /\ P \subseteq Paths
  BY <1>1, PathsOfFacts
<1> DEFINE Tops(p) == {SubSeq(p, 1, k) : k \in 0 .. Len(p) - 1}
<1>3. \A p \in P : \A d : d \in Tops(p) <=> d \in Seq(Nat) /\ Above(d, p)
  BY <1>2, Beginnings
<1>4. DirsOf(mods) = {Root} \cup UNION {Tops(p) : p \in P}
  BY <1>1 DEF DirsOf, Dirs
<1> HIDE DEF Tops
<1>5. \A d : d \in DirsOf(mods) <=> d = Root \/ \E p \in P : d \in Seq(Nat) /\ Above(d, p)
  BY <1>3, <1>4
<1>6. Root \in Seq(Nat)
  BY DEF Root
<1> QED
  BY <1>2, <1>5, <1>6

\* The texts of all of them are sorted.
LEMMA DirsPlaced ==
  ASSUME NEW mods \in Seq(Mods)
  PROVE  DirsOf(mods) \subseteq DOMAIN textPlace
<1>1. PathsOf(mods) \subseteq Paths
  BY PathsOfFacts
<1>2. DirsOf(mods) \subseteq Dirs(Paths)
  BY <1>1 DEF DirsOf, Dirs
<1>3. Dirs(Paths) \subseteq DOMAIN textPlace
  BY ContentAssumption DEF ContentAssumption
<1> QED
  BY <1>2, <1>3

\* A finite set of paths has a longest one.
LEMMA LongestPath ==
  /\ MaxDepth \in Nat
  /\ \A p \in Paths : Len(p) <= MaxDepth
<1>1. PICK L : L = {Len(p) : p \in Paths}
  OBVIOUS
<1>2. PICK f : f = [p \in Paths |-> Len(p)]
  OBVIOUS
<1>3. f \in Surjection(Paths, L)
  BY <1>1, <1>2 DEF Surjection
<1>4. IsFiniteSet(L)
  BY <1>3, ContentAssumption, FS_Surjection DEF ContentAssumption
<1>5. L \subseteq Nat
  BY <1>1, PathType
<1>6. L # {}
  BY <1>1, ContentAssumption DEF ContentAssumption
<1>7. PICK seq : Sorted(seq, L, NumberOrder(L))
  BY <1>4, <1>5, NumbersInOrder
<1>8. PICK N \in Nat : N = Len(seq)
  BY <1>7 DEF Sorted, Sequence
<1>9. /\ \A i \in 1 .. N : seq[i] \in L
      /\ \A i, j \in 1 .. N : i < j => <<seq[i], seq[j]>> \in NumberOrder(L)
      /\ \A e \in L : \E i \in 1 .. N : seq[i] = e
  BY <1>7, <1>8 DEF Sorted
<1>10. N # 0
  BY <1>6, <1>9
<1>11. PICK m \in L : m = seq[N]
  BY <1>9, <1>10
<1>12. \A e \in L : e <= m
  <2>1. TAKE e \in L
  <2>2. PICK i \in 1 .. N : seq[i] = e
    BY <1>9
  <2>3. CASE i = N
    BY <1>5, <1>11, <2>2, <2>3
  <2>4. CASE i # N
    <3>1. <<e, m>> \in NumberOrder(L)
      BY <1>9, <1>10, <1>11, <2>2, <2>4
    <3> QED
      BY <1>5, <3>1 DEF NumberOrder
  <2> QED
    BY <2>3, <2>4
<1>13. \A p \in Paths : Len(p) \in L
  BY <1>1
<1>14. \A p \in Paths : Len(p) <= m
  BY <1>12, <1>13
<1>15. PICK x : x = MaxDepth
  OBVIOUS
<1>16. x \in L /\ \A p \in Paths : Len(p) <= x
  BY <1>1, <1>14, <1>15 DEF MaxDepth
<1> QED
  BY <1>5, <1>15, <1>16

\* They are finitely many.
LEMMA DirsFinite ==
  ASSUME NEW mods \in Seq(Mods)
  PROVE  IsFiniteSet(DirsOf(mods))
<1>1. PICK P : P = PathsOf(mods)
  OBVIOUS
<1>2. P \subseteq Paths /\ IsFiniteSet(P)
  BY <1>1, PathsOfFacts
<1>3. PICK K : K = 0 .. MaxDepth
  OBVIOUS
<1>4. IsFiniteSet(K)
  BY <1>3, LongestPath, FS_Interval
<1>5. IsFiniteSet(P \X K)
  BY <1>2, <1>4, FS_Product
<1>6. PICK f : f = [pk \in P \X K |-> SubSeq(pk[1], 1, pk[2])]
  OBVIOUS
<1>7. PICK T : T = {f[pk] : pk \in P \X K}
  OBVIOUS
<1>8. f \in Surjection(P \X K, T)
  BY <1>6, <1>7 DEF Surjection
<1>9. IsFiniteSet(T)
  BY <1>5, <1>8, FS_Surjection
<1>10. IsFiniteSet(T \cup {Root})
  BY <1>9, FS_AddElement
<1>11. \A p \in P : \A k \in 0 .. Len(p) - 1 : SubSeq(p, 1, k) \in T
  <2>1. TAKE p \in P
  <2>2. TAKE k \in 0 .. Len(p) - 1
  <2>3. k \in K
    BY <1>2, <1>3, LongestPath, PathType
  <2>4. <<p, k>> \in P \X K
    BY <2>3
  <2>5. f[<<p, k>>] = SubSeq(p, 1, k)
    BY <1>6, <2>4
  <2> QED
    BY <1>7, <2>4, <2>5
<1> DEFINE Tops(p) == {SubSeq(p, 1, k) : k \in 0 .. Len(p) - 1}
<1>12. DirsOf(mods) \subseteq T \cup {Root}
  <2>1. DirsOf(mods) = {Root} \cup UNION {Tops(p) : p \in P}
    BY <1>1 DEF DirsOf, Dirs
  <2>2. \A p \in P : Tops(p) \subseteq T
    BY <1>11
  <2> HIDE DEF Tops
  <2> QED
    BY <2>1, <2>2
<1> QED
  BY <1>10, <1>12, FS_Subset

\* Every file and every directory but the root is in a directory of the push.
LEMMA FrontsAreDirs ==
  ASSUME NEW mods \in Seq(Mods)
  PROVE  /\ \A i \in 1 .. Len(mods) : Front(mods[i].path) \in DirsOf(mods)
         /\ \A d \in DirsOf(mods) : d # Root => Front(d) \in DirsOf(mods)
<1>1. \A i \in 1 .. Len(mods) : mods[i].path \in Paths
  <2>1. \A i \in 1 .. Len(mods) : mods[i] \in Mods
    OBVIOUS
  <2> QED
    BY <2>1, ModType
<1>2. \A p \in Paths : p \in Seq(Nat) /\ p # Root
  BY ContentAssumption DEF ContentAssumption, Root
<1>3. ASSUME NEW p \in Seq(Nat), p # Root PROVE Front(p) \in Seq(Nat) /\ Above(Front(p), p)
  BY <1>3, FrontFacts DEF Above
<1>4. ASSUME NEW i \in 1 .. Len(mods) PROVE Front(mods[i].path) \in DirsOf(mods)
  <2>1. PICK p : p = mods[i].path
    OBVIOUS
  <2>2. Front(p) \in Seq(Nat) /\ Above(Front(p), p)
    BY <1>1, <1>2, <1>3, <2>1
  <2> QED
    BY <2>1, <2>2, DirsFacts
<1>5. ASSUME NEW d \in DirsOf(mods), d # Root PROVE Front(d) \in DirsOf(mods)
  <2>1. d \in Seq(Nat)
    BY DirsFacts
  <2>2. PICK i \in 1 .. Len(mods) : Above(d, mods[i].path)
    BY <1>5, DirsFacts
  <2>3. PICK p \in Seq(Nat) : p = mods[i].path
    BY <1>1, <1>2
  <2>4. PICK e \in Seq(Nat) : e = Front(d)
    BY <1>5, <2>1, FrontFacts
  <2>5. Len(d) \in Nat \ {0} /\ Len(e) = Len(d) - 1 /\ \A j \in 1 .. Len(d) - 1 : e[j] = d[j]
    BY <1>5, <2>1, <2>4, FrontFacts
  <2>6. Len(p) \in Nat /\ Len(d) < Len(p) /\ \A j \in 1 .. Len(d) : d[j] = p[j]
    BY <2>2, <2>3 DEF Above
  <2>7. \A j \in 1 .. Len(d) - 1 : j \in 1 .. Len(d)
    BY <2>5
  <2>8. Above(e, p)
    BY <2>5, <2>6, <2>7 DEF Above
  <2> QED
    BY <2>3, <2>4, <2>8, DirsFacts
<1> QED
  BY <1>4, <1>5

-----------------------------------------------------------------------------
(* The nodes of a push.                                                    *)

\* e is the entry of the i-th file in the directory d.
FileEntry(e, n, mods, i, d) ==
  /\ Front(mods[i].path) = d
  /\ e = [name |-> Last(mods[i].path), type |-> "file", key |-> <<n, i>>]

\* e is the entry of the j-th directory in the directory d.
DirEntry(e, n, mods, order, j, d) ==
  /\ order[j] # Root /\ Front(order[j]) = d
  /\ e = [name |-> Last(order[j]), type |-> "dir", key |-> <<n, Len(mods) + j>>]

\* Everything that is in the directory d has an entry, once, the files in order.
Enters(ch, n, mods, order, d) ==
  /\ Sequence(ch)
  /\ \A c \in 1 .. Len(ch) :
       \/ \E i \in 1 .. Len(mods) : FileEntry(ch[c], n, mods, i, d)
       \/ \E j \in 1 .. Len(order) : DirEntry(ch[c], n, mods, order, j, d)
  /\ \A i \in 1 .. Len(mods) : Front(mods[i].path) = d =>
       \E c \in 1 .. Len(ch) : FileEntry(ch[c], n, mods, i, d)
  /\ \A j \in 1 .. Len(order) : order[j] # Root /\ Front(order[j]) = d =>
       \E c \in 1 .. Len(ch) : DirEntry(ch[c], n, mods, order, j, d)
  /\ \A a, b \in 1 .. Len(ch) : \A i, k \in 1 .. Len(mods) :
       a < b /\ FileEntry(ch[a], n, mods, i, d) /\ FileEntry(ch[b], n, mods, k, d) => i < k
  /\ \A a, b \in 1 .. Len(ch) : \A j \in 1 .. Len(order) :
       a < b => ~(DirEntry(ch[a], n, mods, order, j, d) /\ DirEntry(ch[b], n, mods, order, j, d))

\* order has every directory of the push once.
Ordered(mods, order) ==
  /\ Sequence(order) /\ Len(order) = Cardinality(DirsOf(mods))
  /\ \A j \in 1 .. Len(order) : order[j] \in DirsOf(mods)
  /\ \A j, k \in 1 .. Len(order) : order[j] = order[k] => j = k
  /\ \A d \in DirsOf(mods) : \E j \in 1 .. Len(order) : order[j] = d

\* The nodes are the files, then the directories, each with its entries.
Whole(batch, n, mods, order) ==
  /\ Ordered(mods, order)
  /\ Sequence(batch.nodes) /\ Len(batch.nodes) = Len(mods) + Len(order)
  /\ \A i \in 1 .. Len(mods) : batch.nodes[i] = FileNode(n, i, mods[i], Policy(mods))
  /\ \A j \in 1 .. Len(order) :
       /\ batch.nodes[Len(mods) + j].type = "dir"
       /\ batch.nodes[Len(mods) + j].key = <<n, Len(mods) + j>>
       /\ Enters(batch.nodes[Len(mods) + j].children, n, mods, order, order[j])
  /\ \E r \in 1 .. Len(order) : order[r] = Root /\ batch.root = <<n, Len(mods) + r>>

\* The directories in their order.
LEMMA DirOrderFacts ==
  ASSUME NEW mods \in Seq(Mods)
  PROVE  Ordered(mods, DirOrder(PathsOf(mods)))
<1>1. PICK D : D = DirsOf(mods)
  OBVIOUS
<1>2. IsFiniteSet(D) /\ D \subseteq Seq(Nat) /\ D \subseteq DOMAIN textPlace
  BY <1>1, DirsFinite, DirsFacts, DirsPlaced
<1>3. PICK order : order = DirOrder(PathsOf(mods))
  OBVIOUS
<1>4. order = InOrder(D, DirBefore)
  BY <1>1, <1>3 DEF DirOrder, DirsOf
<1>5. Sorted(order, D, DirectoryOrder(D))
  BY <1>2, <1>4, DirectoriesInOrder
<1>6. ASSUME NEW j \in 1 .. Len(order), NEW k \in 1 .. Len(order), order[j] = order[k]
      PROVE  j = k
  <2>1. \A a, b \in 1 .. Len(order) : a < b => order[a] # order[b]
    <3>1. \A d \in D : <<d, d>> \notin DirectoryOrder(D)
      BY <1>2, DirectoriesInLine DEF Line
    <3> QED
      BY <1>5, <3>1 DEF Sorted
  <2> QED
    BY <1>6, <2>1
<1> QED
  BY <1>1, <1>3, <1>5, <1>6 DEF Sorted, Ordered

\* A directory's key is its place in that order, after the files.
LEMMA DirKeyFacts ==
  ASSUME NEW mods \in Seq(Mods), NEW n, NEW order, order = DirOrder(PathsOf(mods)),
         NEW j \in 1 .. Len(order)
  PROVE  DirKey(n, mods, order[j]) = <<n, Len(mods) + j>>
<1>1. Ordered(mods, order)
  BY DirOrderFacts
<1>2. PICK I : I = {i \in 1 .. Len(order) : order[i] = order[j]}
  OBVIOUS
<1>3. I = {j}
  BY <1>1, <1>2 DEF Ordered
<1>4. SelectInSeq(order, LAMBDA e : e = order[j]) = Min(I)
  BY <1>2, <1>3 DEF SelectInSeq
<1>5. Min(I) = j
  BY <1>3 DEF Min
<1> QED
  BY <1>4, <1>5 DEF DirKey, PathsOf

\* The entries of the files of a directory.
LEMMA FileChildrenFacts ==
  ASSUME NEW mods \in Seq(Mods), NEW n, NEW d
  PROVE  \E here : /\ Sorted(here, {i \in 1 .. Len(mods) : Front(mods[i].path) = d},
                             NumberOrder({i \in 1 .. Len(mods) : Front(mods[i].path) = d}))
                   /\ Sequence(FileChildren(n, mods, d))
                   /\ Len(FileChildren(n, mods, d)) = Len(here)
                   /\ \A c \in 1 .. Len(here) :
                        FileEntry(FileChildren(n, mods, d)[c], n, mods, here[c], d)
<1>1. PICK I : I = {i \in 1 .. Len(mods) : Front(mods[i].path) = d}
  OBVIOUS
<1>2. I \subseteq 1 .. Len(mods) /\ I \subseteq Nat
  BY <1>1
<1>3. IsFiniteSet(I)
  <2>1. IsFiniteSet(1 .. Len(mods))
    BY FS_Interval
  <2> QED
    BY <1>2, <2>1, FS_Subset
<1>4. PICK here : here = InOrder(I, <)
  OBVIOUS
<1>5. Sorted(here, I, NumberOrder(I))
  BY <1>2, <1>3, <1>4, NumbersInOrder
<1>6. PICK N \in Nat : N = Len(here)
  BY <1>5 DEF Sorted, Sequence
<1>7. DOMAIN here = 1 .. N /\ \A c \in 1 .. N : here[c] \in I
  BY <1>5, <1>6 DEF Sorted, Sequence
<1>8. PICK ch : ch = FileChildren(n, mods, d)
  OBVIOUS
<1>9. ch = [c \in 1 .. N |->
              [name |-> Last(mods[here[c]].path), type |-> "file", key |-> <<n, here[c]>>]]
  <2>1. DOMAIN mods = 1 .. Len(mods)
    OBVIOUS
  <2> QED
    BY <1>1, <1>4, <1>7, <1>8, <2>1 DEF FileChildren, ChildEntry, FileKey
<1>10. Sequence(ch) /\ Len(ch) = N
  BY <1>9 DEF Sequence
<1>11. \A c \in 1 .. N : FileEntry(ch[c], n, mods, here[c], d)
  BY <1>1, <1>7, <1>9 DEF FileEntry
<1> QED
  BY <1>1, <1>5, <1>6, <1>8, <1>10, <1>11

\* The entries of the subdirectories of a directory.
LEMMA DirChildrenFacts ==
  ASSUME NEW mods \in Seq(Mods), NEW n, NEW d, NEW order, order = DirOrder(PathsOf(mods))
  PROVE  LET ch == DirChildren(n, mods, d, DirsOf(mods))
         IN  /\ Sequence(ch)
             /\ \A c \in 1 .. Len(ch) :
                  \E j \in 1 .. Len(order) : DirEntry(ch[c], n, mods, order, j, d)
             /\ \A j \in 1 .. Len(order) : order[j] # Root /\ Front(order[j]) = d =>
                  \E c \in 1 .. Len(ch) : DirEntry(ch[c], n, mods, order, j, d)
             /\ \A a, b \in 1 .. Len(ch) : \A j \in 1 .. Len(order) : a < b =>
                  ~(DirEntry(ch[a], n, mods, order, j, d) /\ DirEntry(ch[b], n, mods, order, j, d))
<1>1. PICK D : D = {s \in DirsOf(mods) \ {Root} : Front(s) = d}
  OBVIOUS
<1>2. IsFiniteSet(D) /\ D \subseteq DOMAIN textPlace
  <2>1. D \subseteq DirsOf(mods)
    BY <1>1
  <2> QED
    BY <2>1, DirsFinite, DirsPlaced, FS_Subset
<1>3. PICK here : here = InOrder(D, PathBefore)
  OBVIOUS
<1>4. Sorted(here, D, PathOrder(D))
  BY <1>2, <1>3, PathsInOrder
<1>5. PICK N \in Nat : N = Len(here)
  BY <1>4 DEF Sorted, Sequence
<1>6. DOMAIN here = 1 .. N /\ \A c \in 1 .. N : here[c] \in D
  BY <1>4, <1>5 DEF Sorted, Sequence
<1>7. Ordered(mods, order)
  BY DirOrderFacts
<1>8. PICK ch : ch = DirChildren(n, mods, d, DirsOf(mods))
  OBVIOUS
<1>9. ch = [c \in 1 .. N |->
              [name |-> Last(here[c]), type |-> "dir", key |-> DirKey(n, mods, here[c])]]
  BY <1>1, <1>3, <1>6, <1>8 DEF DirChildren, ChildEntry
<1>10. Sequence(ch) /\ Len(ch) = N
  BY <1>9 DEF Sequence
<1>11. ASSUME NEW c \in 1 .. N, NEW j \in 1 .. Len(order), order[j] = here[c]
       PROVE  DirEntry(ch[c], n, mods, order, j, d)
  <2>1. DirKey(n, mods, here[c]) = <<n, Len(mods) + j>>
    BY <1>11, DirKeyFacts
  <2>2. here[c] # Root /\ Front(here[c]) = d
    BY <1>1, <1>6
  <2> QED
    BY <1>9, <1>11, <2>1, <2>2 DEF DirEntry
<1>12. ASSUME NEW c \in 1 .. N
       PROVE  \E j \in 1 .. Len(order) : DirEntry(ch[c], n, mods, order, j, d)
  <2>1. here[c] \in DirsOf(mods)
    BY <1>1, <1>6
  <2>2. PICK j \in 1 .. Len(order) : order[j] = here[c]
    BY <1>7, <2>1 DEF Ordered
  <2> QED
    BY <1>11, <2>2
<1>13. ASSUME NEW j \in 1 .. Len(order), order[j] # Root, Front(order[j]) = d
       PROVE  \E c \in 1 .. N : DirEntry(ch[c], n, mods, order, j, d)
  <2>1. order[j] \in D
    BY <1>1, <1>7, <1>13 DEF Ordered
  <2>2. PICK c \in 1 .. N : here[c] = order[j]
    BY <1>4, <1>5, <2>1 DEF Sorted
  <2> QED
    BY <1>11, <2>2
<1>14. ASSUME NEW c \in 1 .. N, NEW j \in 1 .. Len(order), DirEntry(ch[c], n, mods, order, j, d)
       PROVE  order[j] = here[c]
  <2>1. PICK k \in 1 .. Len(order) : order[k] = here[c]
    <3>1. here[c] \in DirsOf(mods)
      BY <1>1, <1>6
    <3> QED
      BY <1>7, <3>1 DEF Ordered
  <2>2. DirEntry(ch[c], n, mods, order, k, d)
    BY <1>11, <2>1
  <2>3. Len(mods) + k = Len(mods) + j
    <3>1. \A e, i : DirEntry(e, n, mods, order, i, d) => e.key[2] = Len(mods) + i
      BY DEF DirEntry
    <3> QED
      BY <1>14, <2>2, <3>1
  <2>4. Len(mods) \in Nat
    OBVIOUS
  <2>5. k = j
    BY <2>3, <2>4
  <2> QED
    BY <2>1, <2>5
<1>15. ASSUME NEW a \in 1 .. N, NEW b \in 1 .. N, NEW j \in 1 .. Len(order), a < b
       PROVE  ~(DirEntry(ch[a], n, mods, order, j, d) /\ DirEntry(ch[b], n, mods, order, j, d))
  <2>1. <<here[a], here[b]>> \in PathOrder(D)
    BY <1>4, <1>5, <1>15 DEF Sorted
  <2>2. \A s \in D : <<s, s>> \notin PathOrder(D)
    BY <1>2, PathsInLine DEF Line
  <2>3. here[a] # here[b]
    BY <1>6, <2>1, <2>2
  <2> QED
    BY <1>14, <2>3
<1>16. /\ Sequence(ch)
       /\ \A c \in 1 .. Len(ch) : \E j \in 1 .. Len(order) : DirEntry(ch[c], n, mods, order, j, d)
       /\ \A j \in 1 .. Len(order) : order[j] # Root /\ Front(order[j]) = d =>
            \E c \in 1 .. Len(ch) : DirEntry(ch[c], n, mods, order, j, d)
       /\ \A a, b \in 1 .. Len(ch) : \A j \in 1 .. Len(order) : a < b =>
            ~(DirEntry(ch[a], n, mods, order, j, d) /\ DirEntry(ch[b], n, mods, order, j, d))
  BY <1>10, <1>12, <1>13, <1>15
<1> QED
  BY <1>8, <1>16

\* Both together.
LEMMA ChildrenFacts ==
  ASSUME NEW mods \in Seq(Mods), NEW n, NEW d, NEW order, order = DirOrder(PathsOf(mods))
  PROVE  Enters(FileChildren(n, mods, d) \o DirChildren(n, mods, d, DirsOf(mods)),
                n, mods, order, d)
<1>1. PICK I : I = {i \in 1 .. Len(mods) : Front(mods[i].path) = d}
  OBVIOUS
<1>2. PICK s : s = FileChildren(n, mods, d)
  OBVIOUS
<1>3. PICK here : /\ Sorted(here, I, NumberOrder(I)) /\ Sequence(s) /\ Len(s) = Len(here)
                  /\ \A c \in 1 .. Len(here) : FileEntry(s[c], n, mods, here[c], d)
  BY <1>1, <1>2, FileChildrenFacts
<1>4. PICK t : t = DirChildren(n, mods, d, DirsOf(mods))
  OBVIOUS
<1>5. /\ Sequence(t)
      /\ \A c \in 1 .. Len(t) : \E j \in 1 .. Len(order) : DirEntry(t[c], n, mods, order, j, d)
      /\ \A j \in 1 .. Len(order) : order[j] # Root /\ Front(order[j]) = d =>
           \E c \in 1 .. Len(t) : DirEntry(t[c], n, mods, order, j, d)
      /\ \A a, b \in 1 .. Len(t) : \A j \in 1 .. Len(order) : a < b =>
           ~(DirEntry(t[a], n, mods, order, j, d) /\ DirEntry(t[b], n, mods, order, j, d))
  BY <1>4, DirChildrenFacts, SMTT(60)
<1>6. PICK k \in Nat, l \in Nat : k = Len(s) /\ l = Len(t)
  BY <1>3, <1>5 DEF Sequence
<1>7. PICK u : u = s \o t
  OBVIOUS
<1>8. IsConcat(u, s, t)
  BY <1>3, <1>5, <1>7, ConcatFacts
<1>9. /\ Sequence(u) /\ Len(u) = k + l
      /\ \A c \in 1 .. k : u[c] = s[c]
      /\ \A c \in 1 .. l : u[k + c] = t[c]
  BY <1>6, <1>8 DEF IsConcat
<1>10. \A c \in 1 .. k + l : c \in 1 .. k \/ (c - k \in 1 .. l /\ u[c] = t[c - k])
  <2>1. \A c \in 1 .. k + l : c \in 1 .. k \/ (c - k \in 1 .. l /\ k + (c - k) = c)
    OBVIOUS
  <2> QED
    BY <1>9, <2>1
<1>11. \A c \in 1 .. k : c \in 1 .. k + l
  OBVIOUS
<1>12. \A c \in 1 .. l : k + c \in 1 .. k + l
  OBVIOUS
<1>13. \A c \in 1 .. k : here[c] \in 1 .. Len(mods) /\ FileEntry(u[c], n, mods, here[c], d)
  BY <1>1, <1>3, <1>6, <1>9 DEF Sorted
<1>14. \A e, i, j : ~(FileEntry(e, n, mods, i, d) /\ DirEntry(e, n, mods, order, j, d))
  <2>1. "file" # "dir"
    OBVIOUS
  <2>2. \A e, i : FileEntry(e, n, mods, i, d) => e.type = "file"
    BY DEF FileEntry
  <2>3. \A e, j : DirEntry(e, n, mods, order, j, d) => e.type = "dir"
    BY DEF DirEntry
  <2> QED
    BY <2>1, <2>2, <2>3
<1>15. \A e, i, j : FileEntry(e, n, mods, i, d) /\ FileEntry(e, n, mods, j, d) => i = j
  <2>1. \A e, i : FileEntry(e, n, mods, i, d) => e.key[2] = i
    BY DEF FileEntry
  <2> QED
    BY <2>1
<1>16. ASSUME NEW c \in 1 .. k + l
       PROVE  \/ \E i \in 1 .. Len(mods) : FileEntry(u[c], n, mods, i, d)
              \/ \E j \in 1 .. Len(order) : DirEntry(u[c], n, mods, order, j, d)
  BY <1>5, <1>6, <1>10, <1>13
<1>17. ASSUME NEW i \in 1 .. Len(mods), Front(mods[i].path) = d
       PROVE  \E c \in 1 .. k + l : FileEntry(u[c], n, mods, i, d)
  <2>1. i \in I
    BY <1>1, <1>17
  <2>2. PICK c \in 1 .. k : here[c] = i
    BY <1>3, <1>6, <2>1 DEF Sorted
  <2> QED
    BY <1>11, <1>13, <2>2
<1>18. ASSUME NEW j \in 1 .. Len(order), order[j] # Root, Front(order[j]) = d
       PROVE  \E c \in 1 .. k + l : DirEntry(u[c], n, mods, order, j, d)
  <2>1. PICK c \in 1 .. l : DirEntry(t[c], n, mods, order, j, d)
    BY <1>5, <1>6, <1>18
  <2> QED
    BY <1>9, <1>12, <2>1
<1>19. ASSUME NEW c \in 1 .. k + l, NEW i, FileEntry(u[c], n, mods, i, d)
       PROVE  c \in 1 .. k /\ here[c] = i
  <2>1. c \in 1 .. k
    BY <1>5, <1>6, <1>10, <1>14, <1>19
  <2> QED
    BY <1>13, <1>15, <1>19, <2>1
<1>20. ASSUME NEW a \in 1 .. k + l, NEW b \in 1 .. k + l, NEW i \in 1 .. Len(mods),
              NEW j \in 1 .. Len(mods), a < b,
              FileEntry(u[a], n, mods, i, d), FileEntry(u[b], n, mods, j, d)
       PROVE  i < j
  <2>1. a \in 1 .. k /\ b \in 1 .. k /\ here[a] = i /\ here[b] = j
    BY <1>19, <1>20
  <2>2. <<here[a], here[b]>> \in NumberOrder(I)
    BY <1>3, <1>6, <1>20, <2>1 DEF Sorted
  <2> QED
    BY <2>1, <2>2 DEF NumberOrder
<1>21. ASSUME NEW c \in 1 .. k + l, NEW j, DirEntry(u[c], n, mods, order, j, d)
       PROVE  c - k \in 1 .. l /\ DirEntry(t[c - k], n, mods, order, j, d)
  BY <1>10, <1>13, <1>14, <1>21
<1>22. ASSUME NEW a \in 1 .. k + l, NEW b \in 1 .. k + l, NEW j \in 1 .. Len(order), a < b,
              DirEntry(u[a], n, mods, order, j, d), DirEntry(u[b], n, mods, order, j, d)
       PROVE  FALSE
  <2>1. a - k \in 1 .. l /\ DirEntry(t[a - k], n, mods, order, j, d)
    BY <1>21, <1>22
  <2>2. b - k \in 1 .. l /\ DirEntry(t[b - k], n, mods, order, j, d)
    BY <1>21, <1>22
  <2>3. a - k < b - k
    BY <1>22
  <2> QED
    BY <1>5, <1>6, <2>1, <2>2, <2>3
<1> QED
  BY <1>2, <1>4, <1>7, <1>9, <1>16, <1>17, <1>18, <1>20, <1>22 DEF Enters

\* A push that has files publishes such a tree.
LEMMA BatchIsWhole ==
  ASSUME NEW mods \in Seq(Mods), mods # <<>>, NEW n
  PROVE  Whole(Batch(n, mods), n, mods, DirOrder(PathsOf(mods)))
<1>1. PICK order : order = DirOrder(PathsOf(mods))
  OBVIOUS
<1>2. Ordered(mods, order)
  BY <1>1, DirOrderFacts
<1>3. PICK M \in Nat, N \in Nat : M = Len(mods) /\ N = Len(order)
  BY <1>2 DEF Ordered, Sequence
<1>4. DOMAIN mods = 1 .. M /\ DOMAIN order = 1 .. N
  BY <1>2, <1>3 DEF Ordered, Sequence
<1>5. PICK batch : batch = Batch(n, mods)
  OBVIOUS
<1>6. PICK s : s = [i \in 1 .. M |-> FileNode(n, i, mods[i], Policy(mods))]
  OBVIOUS
<1>7. PICK t : t = BuildDirTree(n, mods)
  OBVIOUS
<1>8. t = [j \in 1 .. N |->
             [type |-> "dir", key |-> <<n, M + j>>,
              children |-> FileChildren(n, mods, order[j])
                           \o DirChildren(n, mods, order[j], DirsOf(mods))]]
  BY <1>1, <1>3, <1>4, <1>7 DEF BuildDirTree, PathsOf, DirsOf
<1>9. batch = [nodes |-> s \o t, root |-> DirKey(n, mods, Root)]
  BY <1>4, <1>5, <1>6, <1>7 DEF Batch
<1>10. Sequence(s) /\ Len(s) = M /\ \A i \in 1 .. M : s[i] = FileNode(n, i, mods[i], Policy(mods))
  BY <1>6 DEF Sequence
<1>11. Sequence(t) /\ Len(t) = N
  BY <1>8 DEF Sequence
<1>12. PICK u : u = s \o t
  OBVIOUS
<1>13. IsConcat(u, s, t)
  BY <1>10, <1>11, <1>12, ConcatFacts
<1>14. /\ Sequence(u) /\ Len(u) = M + N
       /\ \A i \in 1 .. M : u[i] = s[i]
       /\ \A j \in 1 .. N : u[M + j] = t[j]
  BY <1>10, <1>11, <1>13 DEF IsConcat
<1>15. ASSUME NEW j \in 1 .. N
       PROVE  /\ u[M + j].type = "dir" /\ u[M + j].key = <<n, M + j>>
              /\ Enters(u[M + j].children, n, mods, order, order[j])
  <2>1. u[M + j] = [type |-> "dir", key |-> <<n, M + j>>,
                    children |-> FileChildren(n, mods, order[j])
                                 \o DirChildren(n, mods, order[j], DirsOf(mods))]
    BY <1>8, <1>14
  <2>2. Enters(FileChildren(n, mods, order[j]) \o DirChildren(n, mods, order[j], DirsOf(mods)),
               n, mods, order, order[j])
    BY <1>1, ChildrenFacts
  <2> QED
    BY <2>1, <2>2
<1>16. PICK r \in 1 .. N : order[r] = Root
  BY <1>2, <1>3, DirsFacts DEF Ordered
<1>17. DirKey(n, mods, Root) = <<n, M + r>>
  BY <1>1, <1>3, <1>16, DirKeyFacts
<1>18. batch.nodes = u /\ batch.root = <<n, M + r>>
  BY <1>9, <1>12, <1>17
<1>19. Whole(batch, n, mods, order)
  BY <1>2, <1>3, <1>10, <1>14, <1>15, <1>16, <1>18 DEF Whole
<1> QED
  BY <1>1, <1>5, <1>19

-----------------------------------------------------------------------------
(* Lists of files.                                                         *)

\* The i-th file as a clone reads it.
FileAt(mods, i) ==
  [path |-> mods[i].path, data |-> mods[i].file.data, mode |-> Regular]

\* All of them.
FilesOf(mods) == {FileAt(mods, i) : i \in 1 .. Len(mods)}

\* files are those of mods that I has, where w says, in order if they are at one path.
ListsBy(files, mods, I, w) ==
  /\ files \in Seq(FilesOf(mods)) /\ w \in [1 .. Len(files) -> I] /\ I \subseteq 1 .. Len(mods)
  /\ \A k \in 1 .. Len(files) : files[k] = FileAt(mods, w[k])
  /\ \A i \in I : \E k \in 1 .. Len(files) : w[k] = i
  /\ \A k, l \in 1 .. Len(files) : k < l /\ files[k].path = files[l].path => w[k] <= w[l]

\* files lists the files of I in some way.
Lists(files, mods, I) == \E w : ListsBy(files, mods, I, w)

\* Lists one after the other, each of a part of I, are a list of I.
LEMMA ListsTogether ==
  ASSUME NEW mods, NEW s, Sequence(s), NEW part, NEW I, I \subseteq 1 .. Len(mods),
         Len(mods) \in Nat,
         \A c \in 1 .. Len(s) : Lists(s[c], mods, part[c]) /\ part[c] \subseteq I,
         \A i \in I : \E c \in 1 .. Len(s) : i \in part[c],
         \A a, b \in 1 .. Len(s) : a < b => \A i \in part[a], k \in part[b] :
           mods[i].path = mods[k].path => i <= k
  PROVE  Lists(FlattenSeq(s), mods, I)
<1>1. PICK S : S = FilesOf(mods)
  OBVIOUS
<1>2. PICK L \in Nat : L = Len(s)
  BY DEF Sequence
<1>3. PICK W : W = [c \in 1 .. L |-> CHOOSE w : ListsBy(s[c], mods, part[c], w)]
  OBVIOUS
<1>4. ASSUME NEW c \in 1 .. L PROVE ListsBy(s[c], mods, part[c], W[c])
  <2>1. \E w : ListsBy(s[c], mods, part[c], w)
    BY <1>2 DEF Lists
  <2> QED
    BY <1>3, <2>1
<1>5. s \in Seq(Seq(S))
  <2>1. \A c \in 1 .. L : s[c] \in Seq(S)
    BY <1>1, <1>4 DEF ListsBy
  <2> QED
    BY <1>2, <2>1 DEF Sequence
<1>6. PICK F \in Seq(S) : F = FlattenSeq(s)
  BY <1>5, FlattenPlaces
<1>7. PICK off : Flattened(F, s, off)
  BY <1>5, <1>6, FlattenPlaces
<1>8. PICK Z \in Nat : Z = Len(F)
  BY <1>6
<1>9. /\ \A c \in 1 .. L : \A q \in 1 .. Len(s[c]) :
           off[c - 1] + q \in 1 .. Z /\ F[off[c - 1] + q] = s[c][q]
      /\ \A z \in 1 .. Z : \E c \in 1 .. L : \E q \in 1 .. Len(s[c]) : z = off[c - 1] + q
  BY <1>2, <1>7, <1>8 DEF Flattened
<1>10. \A c \in 1 .. L : \A q \in 1 .. Len(s[c]) :
         W[c][q] \in part[c] /\ s[c][q] = FileAt(mods, W[c][q])
  BY <1>4 DEF ListsBy
<1> DEFINE Right(z, i) == \E c \in 1 .. L : \E q \in 1 .. Len(s[c]) :
             z = off[c - 1] + q /\ i = W[c][q]
<1>11. PICK w : w = [z \in 1 .. Z |-> CHOOSE i : Right(z, i)]
  OBVIOUS
<1>12. ASSUME NEW z \in 1 .. Z PROVE Right(z, w[z])
  <2>1. \E i : Right(z, i)
    BY <1>9, ZenonT(60)
  <2> HIDE DEF Right
  <2> QED
    BY <1>11, <2>1
<1>13. ASSUME NEW c \in 1 .. L, NEW q \in 1 .. Len(s[c]),
              NEW a \in 1 .. L, NEW r \in 1 .. Len(s[a])
       PROVE  off[c - 1] + q < off[a - 1] + r <=> c < a \/ (c = a /\ q < r)
  <2>1. c \in 1 .. Len(s) /\ a \in 1 .. Len(s)
    BY <1>2
  <2> QED
    BY <1>5, <1>7, <2>1, PlacesInOrder, SMTT(60)
<1>14. \A c \in 1 .. L : Len(s[c]) \in Nat
  <2>1. \A c \in 1 .. L : s[c] \in Seq(S)
    BY <1>2, <1>5
  <2> QED
    BY <2>1
<1>15. ASSUME NEW z \in 1 .. Z PROVE w[z] \in I /\ F[z] = FileAt(mods, w[z])
  <2>1. PICK c \in 1 .. L : \E q \in 1 .. Len(s[c]) : z = off[c - 1] + q /\ w[z] = W[c][q]
    BY <1>12
  <2>2. PICK q \in 1 .. Len(s[c]) : z = off[c - 1] + q /\ w[z] = W[c][q]
    BY <2>1
  <2>3. w[z] \in part[c] /\ F[z] = s[c][q] /\ s[c][q] = FileAt(mods, w[z])
    BY <1>9, <1>10, <2>2
  <2> QED
    BY <1>2, <2>3
<1>16. ASSUME NEW i \in I PROVE \E z \in 1 .. Z : w[z] = i
  <2>1. PICK c \in 1 .. L : i \in part[c]
    BY <1>2
  <2>2. PICK q \in 1 .. Len(s[c]) : W[c][q] = i
    BY <1>4, <2>1 DEF ListsBy
  <2>3. PICK z \in 1 .. Z : z = off[c - 1] + q
    BY <1>9
  <2>4. PICK a \in 1 .. L : \E r \in 1 .. Len(s[a]) : z = off[a - 1] + r /\ w[z] = W[a][r]
    BY <1>12
  <2>5. PICK r \in 1 .. Len(s[a]) : z = off[a - 1] + r /\ w[z] = W[a][r]
    BY <2>4
  <2>6. ~(c < a \/ (c = a /\ q < r)) /\ ~(a < c \/ (a = c /\ r < q))
    <3>1. ~(z < z)
      OBVIOUS
    <3>2. off[c - 1] + q < off[a - 1] + r <=> c < a \/ (c = a /\ q < r)
      BY <1>13
    <3>3. off[a - 1] + r < off[c - 1] + q <=> a < c \/ (a = c /\ r < q)
      BY <1>13
    <3> QED
      BY <2>3, <2>5, <3>1, <3>2, <3>3
  <2>7. c = a /\ q = r
    BY <1>14, <2>6
  <2> QED
    BY <2>2, <2>5, <2>7
<1>17. ASSUME NEW y \in 1 .. Z, NEW z \in 1 .. Z, y < z, F[y].path = F[z].path
       PROVE  w[y] <= w[z]
  <2>1. PICK c \in 1 .. L : \E q \in 1 .. Len(s[c]) : y = off[c - 1] + q /\ w[y] = W[c][q]
    BY <1>12
  <2>2. PICK q \in 1 .. Len(s[c]) : y = off[c - 1] + q /\ w[y] = W[c][q]
    BY <2>1
  <2>3. PICK a \in 1 .. L : \E r \in 1 .. Len(s[a]) : z = off[a - 1] + r /\ w[z] = W[a][r]
    BY <1>12
  <2>4. PICK r \in 1 .. Len(s[a]) : z = off[a - 1] + r /\ w[z] = W[a][r]
    BY <2>3
  <2>5. c < a \/ (c = a /\ q < r)
    BY <1>13, <1>17, <2>2, <2>4
  <2>6. F[y] = s[c][q] /\ F[z] = s[a][r]
    BY <1>9, <2>2, <2>4
  <2>7. CASE c = a /\ q < r
    <3>1. s[c][q].path = s[c][r].path
      BY <1>17, <2>6, <2>7
    <3>2. \A k, l \in 1 .. Len(s[c]) : k < l /\ s[c][k].path = s[c][l].path => W[c][k] <= W[c][l]
      BY <1>4 DEF ListsBy
    <3> QED
      BY <2>2, <2>4, <2>7, <3>1, <3>2
  <2>8. CASE c < a
    <3>1. w[y] \in part[c] /\ w[z] \in part[a]
      BY <1>10, <2>2, <2>4
    <3>2. F[y] = FileAt(mods, w[y]) /\ F[z] = FileAt(mods, w[z])
      BY <1>15
    <3>3. mods[w[y]].path = mods[w[z]].path
      BY <1>17, <3>2 DEF FileAt
    <3> QED
      BY <1>2, <2>8, <3>1, <3>3
  <2> QED
    BY <2>5, <2>7, <2>8
<1>18. w \in [1 .. Z -> I]
  <2> HIDE DEF Right
  <2> QED
    BY <1>11, <1>15
<1>19. ListsBy(F, mods, I, w)
  BY <1>1, <1>6, <1>8, <1>15, <1>16, <1>17, <1>18 DEF ListsBy
<1> QED
  BY <1>6, <1>19 DEF Lists

-----------------------------------------------------------------------------
(* Reading.                                                                *)

\* How a reading may end.
Outcomes == {"done", "failed", "endless"}

\* One reading after the other is done if each of them is.
LEMMA ReadAllFacts ==
  ASSUME NEW reads, Sequence(reads)
  PROVE  /\ (\A i \in 1 .. Len(reads) : reads[i].status = "done") =>
              ReadAll(reads) = Read("done", FlattenSeq([i \in DOMAIN reads |-> reads[i].files]))
         /\ \A i \in 1 .. Len(reads) : reads[i].status # "done" =>
              \E k \in 1 .. Len(reads) :
                reads[k].status # "done" /\ ReadAll(reads) = Read(reads[k].status, <<>>)
<1>1. PICK T : T = {i \in 1 .. Len(reads) : reads[i].status # "done"}
  OBVIOUS
<1>2. PICK f : f = SelectInSeq(reads, LAMBDA r : r.status # "done")
  OBVIOUS
<1>3. f = IF T # {} THEN Min(T) ELSE 0
  BY <1>1, <1>2 DEF SelectInSeq
<1>4. ASSUME T # {} PROVE f \in T /\ f # 0
  <2>1. T \subseteq Nat /\ T # {}
    <3>1. \A i \in 1 .. Len(reads) : i \in Nat
      OBVIOUS
    <3> QED
      BY <1>1, <1>4, <3>1
  <2>2. PICK c \in T : \A d \in T : c <= d
    BY <2>1, LeastNumber, Zenon
  <2>3. Min(T) \in T
    BY <2>2 DEF Min
  <2>4. 0 \notin T
    BY <1>1
  <2> QED
    BY <1>3, <1>4, <2>3, <2>4
<1>5. ReadAll(reads) =
        IF f = 0 THEN Read("done", FlattenSeq([i \in DOMAIN reads |-> reads[i].files]))
        ELSE Read(reads[f].status, <<>>)
  BY <1>2 DEF ReadAll
<1>6. (\A i \in 1 .. Len(reads) : reads[i].status = "done") => f = 0
  BY <1>1, <1>3
<1>7. ASSUME NEW i \in 1 .. Len(reads), reads[i].status # "done"
      PROVE  \E k \in 1 .. Len(reads) :
               reads[k].status # "done" /\ ReadAll(reads) = Read(reads[k].status, <<>>)
  <2>1. T # {}
    BY <1>1, <1>7
  <2>2. f \in T /\ f # 0
    BY <1>4, <2>1
  <2> QED
    BY <1>1, <1>5, <2>2
<1> QED
  BY <1>5, <1>6, <1>7

\* Reading with left levels to go, from the bottom up.
ReadsUp(read, how, privKey, m) ==
  /\ \A at \in TxIDs \X Seq(Nat) : read[0][at] = Read("endless", <<>>)
  /\ \A left \in 1 .. m : \A at \in TxIDs \X Seq(Nat) :
       read[left][at] = ReadDir(how, privKey, at[1], at[2], read[left - 1])

\* ReadTree reads like that.
LEMMA ReadTreeLoop ==
  ASSUME NEW how, NEW privKey, NEW id
  PROVE  \E read : /\ ReadTree(how, privKey, id) = read[MaxDepth + 1][<<id, <<>>>>]
                   /\ ReadsUp(read, how, privKey, MaxDepth + 1)
<1>1. PICK N \in Nat : N = MaxDepth + 1
  BY LongestPath
<1>2. PICK A : A = TxIDs \X Seq(Nat)
  OBVIOUS
<1> DEFINE Level(f, left) ==
      [at \in A |-> IF left = 0 THEN Read("endless", <<>>)
                    ELSE ReadDir(how, privKey, at[1], at[2], f[left - 1])]
<1>3. PICK T : T = {m \in 0 .. N : \E f : /\ f = [left \in 0 .. m |-> f[left]]
                                          /\ \A left \in 0 .. m : f[left] = Level(f, left)}
  OBVIOUS
<1>4. 0 \in T
  <2>1. PICK f : f = [left \in 0 .. 0 |-> [at \in A |-> Read("endless", <<>>)]]
    OBVIOUS
  <2>2. \A left \in 0 .. 0 : left = 0
    OBVIOUS
  <2>3. \A left \in 0 .. 0 : f[left] = Level(f, left)
    BY <2>1, <2>2
  <2>4. f = [left \in 0 .. 0 |-> f[left]]
    BY <2>1
  <2> QED
    BY <1>1, <1>3, <2>3, <2>4
<1>5. ASSUME NEW m \in 0 .. N, m \in T, m < N PROVE m + 1 \in T
  <2>1. PICK f : /\ f = [left \in 0 .. m |-> f[left]]
                 /\ \A left \in 0 .. m : f[left] = Level(f, left)
    BY <1>3, <1>5
  <2>2. PICK top : top = [at \in A |-> ReadDir(how, privKey, at[1], at[2], f[m])]
    OBVIOUS
  <2>3. PICK h : h = [left \in 0 .. m + 1 |-> IF left = m + 1 THEN top ELSE f[left]]
    OBVIOUS
  <2>4. h = [left \in 0 .. m + 1 |-> h[left]]
    BY <2>3
  <2>5. ASSUME NEW left \in 0 .. m + 1 PROVE h[left] = Level(h, left)
    <3>1. CASE left = m + 1
      <4>1. left # 0 /\ left - 1 = m /\ h[m] = f[m] /\ h[left] = top
        BY <2>3, <3>1
      <4> QED
        BY <2>2, <4>1
    <3>2. CASE left # m + 1 /\ left # 0
      <4>1. left \in 0 .. m /\ left - 1 \in 0 .. m /\ left # 0
        BY <3>2
      <4>2. h[left] = f[left] /\ h[left - 1] = f[left - 1]
        BY <2>3, <4>1
      <4>3. Level(h, left) = Level(f, left)
        BY <4>1, <4>2
      <4> HIDE DEF Level
      <4> QED
        BY <2>1, <4>1, <4>2, <4>3
    <3>3. CASE left = 0
      <4>1. h[0] = f[0] /\ f[0] = Level(f, 0)
        BY <2>1, <2>3
      <4>2. Level(f, 0) = Level(h, 0)
        OBVIOUS
      <4> QED
        BY <3>3, <4>1, <4>2
    <3> QED
      BY <3>1, <3>2, <3>3
  <2>6. m + 1 \in 0 .. N
    BY <1>5
  <2> HIDE DEF Level
  <2> QED
    BY <1>3, <2>4, <2>5, <2>6
<1>6. N \in T
  <2> HIDE DEF Level
  <2>1. \A m \in 0 .. N : m \in T
    BY <1>4, <1>5, UpTo
  <2> QED
    BY <2>1
<1> DEFINE F(e) == e = [left \in 0 .. N |-> Level(e, left)]
<1>7. \E f : F(f)
  <2>1. PICK f : /\ f = [left \in 0 .. N |-> f[left]]
                 /\ \A left \in 0 .. N : f[left] = Level(f, left)
    BY <1>3, <1>6
  <2> HIDE DEF Level
  <2>2. PICK h : h = [left \in 0 .. N |-> Level(f, left)]
    OBVIOUS
  <2>3. f = h
    BY <2>1, <2>2
  <2> QED
    BY <2>2, <2>3
<1>8. PICK e : e = CHOOSE x : F(x)
  OBVIOUS
<1>9. F(e)
  <2> HIDE DEF F
  <2> QED
    BY <1>7, <1>8
<1>10. ReadTree(how, privKey, id) = e[N][<<id, <<>>>>]
  BY <1>1, <1>2, <1>8 DEF ReadTree
<1>11. \A left \in 0 .. N : e[left] = Level(e, left)
  <2>1. PICK k : k = [left \in 0 .. N |-> Level(e, left)]
    OBVIOUS
  <2>2. e = k
    BY <1>9, <2>1
  <2> HIDE DEF Level, F
  <2> QED
    BY <2>1, <2>2
<1> HIDE DEF F
<1>12. \A at \in A : e[0][at] = Read("endless", <<>>)
  <2>1. e[0] = Level(e, 0)
    BY <1>11
  <2> QED
    BY <2>1
<1>13. ASSUME NEW left \in 1 .. N, NEW at \in A
       PROVE  e[left][at] = ReadDir(how, privKey, at[1], at[2], e[left - 1])
  <2>1. left \in 0 .. N /\ left # 0
    OBVIOUS
  <2>2. e[left] = Level(e, left)
    BY <1>11, <2>1
  <2> QED
    BY <2>1, <2>2
<1>14. ReadsUp(e, how, privKey, N)
  BY <1>2, <1>12, <1>13 DEF ReadsUp
<1> QED
  BY <1>1, <1>10, <1>14

-----------------------------------------------------------------------------
(* Reading a tree.                                                         *)

\* The files below a directory.
Below(mods, d) == {i \in 1 .. Len(mods) : Above(d, mods[i].path)}

\* All may read them.
AllFree(mods) == \A i \in 1 .. Len(mods) : GetAccess(Policy(mods), mods[i].path) = "free"

\* r is what a reading gives that must list the files of I, and can if all are free.
Gives(r, mods, I, enough) ==
  /\ r.status \in Outcomes
  /\ r.status = "done" => Lists(r.files, mods, I)
  /\ AllFree(mods) /\ enough => r.status = "done"

\* A file is read as it was written, or not at all.
LEMMA ReadFileFacts ==
  ASSUME NEW n, NEW mods \in Seq(Mods), NEW i \in 1 .. Len(mods), NEW privKey
  PROVE  Gives(ReadFile(FileNode(n, i, mods[i], Policy(mods)), mods[i].path, privKey),
               mods, {i}, TRUE)
<1>1. PICK node : node = FileNode(n, i, mods[i], Policy(mods))
  OBVIOUS
<1>2. node.data = mods[i].file.data /\ node.access = GetAccess(Policy(mods), mods[i].path)
  BY <1>1 DEF FileNode
<1>3. PICK r : r = ReadFile(node, mods[i].path, privKey)
  OBVIOUS
<1>4. PICK files : files = <<FileAt(mods, i)>>
  OBVIOUS
<1>5. r = Read("done", files) \/ r = Read("failed", <<>>)
  BY <1>2, <1>3, <1>4 DEF ReadFile, FileAt
<1>6. AllFree(mods) => r = Read("done", files)
  BY <1>2, <1>3, <1>4 DEF AllFree, ReadFile, FileAt
<1>7. Lists(files, mods, {i})
  <2>1. PICK w : w = [k \in 1 .. 1 |-> i]
    OBVIOUS
  <2>2. files \in Seq(FilesOf(mods)) /\ Len(files) = 1 /\ files[1] = FileAt(mods, i)
    BY <1>4 DEF FilesOf
  <2>3. \A k \in 1 .. 1 : k = 1
    OBVIOUS
  <2>4. w \in [1 .. 1 -> {i}] /\ w[1] = i
    BY <2>1
  <2>5. ListsBy(files, mods, {i}, w)
    BY <2>2, <2>3, <2>4 DEF ListsBy
  <2> QED
    BY <2>5 DEF Lists
<1> QED
  BY <1>1, <1>3, <1>5, <1>6, <1>7 DEF Gives, Read, Outcomes

\* What a directory's entry of a file leads to.
LEMMA FileLeads ==
  ASSUME NEW mods \in Seq(Mods), NEW n, NEW order, Whole(batches[n], n, mods, order), NEW e,
         NEW i \in 1 .. Len(mods), NEW d, FileEntry(e, n, mods, i, d)
  PROVE  /\ e.type = "file" /\ Append(d, e.name) = mods[i].path
         /\ NodeByPubKey(e.key) = FileNode(n, i, mods[i], Policy(mods))
<1>1. mods[i].path \in Seq(Nat) /\ mods[i].path # Root
  <2>1. mods[i] \in Mods
    OBVIOUS
  <2> QED
    BY <2>1, ModType, PathType
<1>2. Append(Front(mods[i].path), Last(mods[i].path)) = mods[i].path
  BY <1>1, FrontFacts
<1>3. batches[n].nodes[i] = FileNode(n, i, mods[i], Policy(mods))
  BY DEF Whole
<1> QED
  BY <1>2, <1>3 DEF FileEntry, NodeByPubKey

\* The entry e of the directory d leads to node, which is the directory p.
LeadsTo(e, d, p, node) ==
  /\ e.type = "dir" /\ Append(d, e.name) = p
  /\ Len(p) = Len(d) + 1 /\ Len(d) \in Nat
  /\ NodeByPubKey(e.key) = node

\* An entry of a directory is that of a subdirectory.
LEMMA DirLeads ==
  ASSUME NEW mods \in Seq(Mods), NEW n, NEW order, Whole(batches[n], n, mods, order), NEW e,
         NEW k \in 1 .. Len(order), NEW d, DirEntry(e, n, mods, order, k, d)
  PROVE  LeadsTo(e, d, order[k], batches[n].nodes[Len(mods) + k])
<1>1. order[k] \in Seq(Nat) /\ order[k] # Root
  BY DirsFacts DEF Whole, Ordered, DirEntry
<1>2. /\ Append(Front(order[k]), Last(order[k])) = order[k]
      /\ Len(order[k]) \in Nat /\ Len(Front(order[k])) = Len(order[k]) - 1
      /\ Front(order[k]) \in Seq(Nat)
  BY <1>1, FrontFacts
<1> QED
  BY <1>2 DEF DirEntry, NodeByPubKey, LeadsTo

\* A path and its directory, which is one shorter.
LEMMA OneShorter ==
  ASSUME NEW p \in Seq(Nat), p # Root, NEW m \in Nat, Len(p) = m + 1 \/ Len(Front(p)) = m
  PROVE  /\ Len(p) = m + 1 /\ Front(p) \in Seq(Nat) /\ Len(Front(p)) = m
         /\ \A q \in 1 .. m : Front(p)[q] = p[q]
<1>1. PICK f : f = Front(p)
  OBVIOUS
<1>2. PICK l \in Nat : l = Len(p)
  OBVIOUS
<1>3. f \in Seq(Nat) /\ Len(f) = l - 1 /\ \A q \in 1 .. l - 1 : f[q] = p[q]
  BY <1>1, <1>2, FrontFacts
<1>4. l = m + 1
  BY <1>1, <1>2, <1>3
<1> QED
  BY <1>1, <1>2, <1>3, <1>4

\* The file or the files that an entry leads to.
PartOf(e, n, mods, order, d) ==
  {i \in 1 .. Len(mods) :
     \/ FileEntry(e, n, mods, i, d)
     \/ \E k \in 1 .. Len(order) :
          DirEntry(e, n, mods, order, k, d) /\ Above(order[k], mods[i].path)}

\* Parts of I, one after the other in the order of the files.
Parts(part, L, mods, I) ==
  /\ \A c \in 1 .. L : part[c] \subseteq I
  /\ \A i \in I : \E c \in 1 .. L : i \in part[c]
  /\ \A a, b \in 1 .. L : a < b => \A i \in part[a], k \in part[b] :
       mods[i].path = mods[k].path => i <= k

\* The entries of a directory lead to all that is below it, in order.
LEMMA PartsOfDir ==
  ASSUME NEW mods \in Seq(Mods), NEW n, NEW order, Ordered(mods, order),
         NEW j \in 1 .. Len(order), NEW ch, Enters(ch, n, mods, order, order[j])
  PROVE  Parts([c \in 1 .. Len(ch) |-> PartOf(ch[c], n, mods, order, order[j])], Len(ch), mods,
               Below(mods, order[j]))
<1>1. PICK d \in Seq(Nat) : d = order[j]
  BY DirsFacts DEF Ordered
<1>2. PICK m \in Nat : m = Len(d)
  OBVIOUS
<1>3. PICK Part : Part = [c \in 1 .. Len(ch) |-> PartOf(ch[c], n, mods, order, d)]
  OBVIOUS
<1>4. \A i \in 1 .. Len(mods) : mods[i].path \in Seq(Nat) /\ mods[i].path # Root
  <2>1. \A i \in 1 .. Len(mods) : mods[i] \in Mods
    OBVIOUS
  <2> QED
    BY <2>1, ModType, PathType
<1>5. \A k \in 1 .. Len(order) : order[k] \in Seq(Nat)
  BY DirsFacts DEF Ordered
<1>6. ASSUME NEW p \in Seq(Nat), p # Root, Front(p) = d
      PROVE  Len(p) = m + 1 /\ Above(d, p)
  <2>1. Len(p) = m + 1 /\ \A q \in 1 .. m : d[q] = p[q]
    BY <1>2, <1>6, OneShorter
  <2> QED
    BY <1>2, <2>1 DEF Above
<1>7. ASSUME NEW e \in Seq(Nat), e # Root, Front(e) = d, NEW p \in Seq(Nat), Above(e, p)
      PROVE  Len(e) = m + 1 /\ Len(p) \in Nat /\ Len(p) > m + 1 /\ Above(d, p)
  <2>1. Len(e) = m + 1 /\ \A q \in 1 .. m : d[q] = e[q]
    BY <1>2, <1>7, OneShorter
  <2>2. Len(p) \in Nat /\ m + 1 < Len(p) /\ \A q \in 1 .. m + 1 : e[q] = p[q]
    BY <1>7, <2>1, SMTT(60) DEF Above
  <2>3. \A q \in 1 .. m : d[q] = p[q]
    BY <2>1, <2>2, SMTT(60)
  <2> QED
    BY <1>2, <2>1, <2>2, <2>3 DEF Above
<1>8. ASSUME NEW c \in 1 .. Len(ch), NEW i \in Part[c]
      PROVE  /\ i \in 1 .. Len(mods)
             /\ \/ FileEntry(ch[c], n, mods, i, d)
                \/ \E k \in 1 .. Len(order) :
                     DirEntry(ch[c], n, mods, order, k, d) /\ Above(order[k], mods[i].path)
  BY <1>3 DEF PartOf
<1>9. ASSUME NEW c \in 1 .. Len(ch), NEW i \in Part[c] PROVE i \in Below(mods, d)
  <2>1. i \in 1 .. Len(mods)
    BY <1>8
  <2>2. CASE FileEntry(ch[c], n, mods, i, d)
    BY <1>4, <1>6, <2>1, <2>2 DEF FileEntry, Below
  <2>3. ASSUME NEW k \in 1 .. Len(order), DirEntry(ch[c], n, mods, order, k, d),
               Above(order[k], mods[i].path)
        PROVE  i \in Below(mods, d)
    BY <1>4, <1>5, <1>7, <2>1, <2>3 DEF DirEntry, Below
  <2> QED
    BY <1>8, <2>2, <2>3
<1>10. ASSUME NEW i \in Below(mods, d) PROVE \E c \in 1 .. Len(ch) : i \in Part[c]
  <2>1. i \in 1 .. Len(mods) /\ Above(d, mods[i].path)
    BY DEF Below
  <2>2. PICK p \in Seq(Nat) : p = mods[i].path /\ p # Root
    BY <1>4, <2>1
  <2>3. PICK l \in Nat : l = Len(p)
    OBVIOUS
  <2>4. m < l /\ \A q \in 1 .. m : d[q] = p[q]
    BY <1>2, <2>1, <2>2, <2>3 DEF Above
  <2>5. CASE l = m + 1
    <3>1. Front(p) \in Seq(Nat) /\ Len(Front(p)) = m /\ \A q \in 1 .. m : Front(p)[q] = p[q]
      BY <2>2, <2>3, <2>5, OneShorter
    <3>2. Front(p) = d
      BY <1>2, <2>4, <3>1, SequenceOf, SameSequence
    <3>3. PICK c \in 1 .. Len(ch) : FileEntry(ch[c], n, mods, i, d)
      BY <1>1, <2>1, <2>2, <3>2 DEF Enters
    <3> QED
      BY <1>3, <2>1, <3>3 DEF PartOf
  <2>6. CASE l # m + 1
    <3>1. m + 1 \in Nat /\ m + 1 <= l /\ Sequence(p)
      BY <2>4, SequenceOf
    <3>2. PICK e : e = SubSeq(p, 1, m + 1)
      OBVIOUS
    <3>3. e \in Seq(Nat) /\ Len(e) = m + 1 /\ \A q \in 1 .. m + 1 : e[q] = p[q]
      BY <2>3, <3>1, <3>2, SMTT(60)
    <3>4. Above(e, p)
      BY <2>3, <2>4, <2>6, <3>3 DEF Above
    <3>5. e # Root
      BY <3>3 DEF Root
    <3>6. Front(e) \in Seq(Nat) /\ Len(Front(e)) = m /\ \A q \in 1 .. m : Front(e)[q] = e[q]
      BY <3>3, <3>5, OneShorter
    <3>7. \A q \in 1 .. m : q \in 1 .. m + 1
      OBVIOUS
    <3>8. Front(e) = d
      BY <1>2, <2>4, <3>3, <3>6, <3>7, SequenceOf, SameSequence
    <3>9. e \in DirsOf(mods)
      BY <2>1, <2>2, <3>3, <3>4, DirsFacts
    <3>10. PICK k \in 1 .. Len(order) : order[k] = e
      BY <3>9 DEF Ordered
    <3>11. PICK c \in 1 .. Len(ch) : DirEntry(ch[c], n, mods, order, k, d)
      BY <1>1, <3>5, <3>8, <3>10 DEF Enters
    <3> QED
      BY <1>3, <2>1, <2>2, <3>4, <3>10, <3>11 DEF PartOf
  <2> QED
    BY <2>5, <2>6
<1>11. ASSUME NEW a \in 1 .. Len(ch), NEW b \in 1 .. Len(ch), a < b,
              NEW i \in Part[a], NEW k \in Part[b], mods[i].path = mods[k].path
       PROVE  i <= k
  <2>1. i \in 1 .. Len(mods) /\ k \in 1 .. Len(mods)
    BY <1>8
  <2>2. PICK p \in Seq(Nat) : p = mods[i].path /\ p = mods[k].path /\ p # Root
    BY <1>4, <1>11, <2>1
  <2>3. \A e : FileEntry(e, n, mods, i, d) \/ FileEntry(e, n, mods, k, d) => Len(p) = m + 1
    BY <1>6, <2>2 DEF FileEntry
  <2>4. \A e : \A r \in 1 .. Len(order) :
          DirEntry(e, n, mods, order, r, d) /\ Above(order[r], p)
            => Len(order[r]) = m + 1 /\ Len(p) \in Nat /\ Len(p) > m + 1
    BY <1>5, <1>7 DEF DirEntry
  <2>5. CASE FileEntry(ch[a], n, mods, i, d) /\ FileEntry(ch[b], n, mods, k, d)
    <3>1. i < k
      BY <1>1, <1>11, <2>1, <2>5 DEF Enters
    <3> QED
      BY <2>1, <3>1
  <2>6. ASSUME NEW r \in 1 .. Len(order), DirEntry(ch[a], n, mods, order, r, d), Above(order[r], p),
               NEW q \in 1 .. Len(order), DirEntry(ch[b], n, mods, order, q, d), Above(order[q], p)
        PROVE  FALSE
    <3>1. Len(order[r]) = m + 1 /\ Len(order[q]) = m + 1
      BY <2>4, <2>6
    <3>2. \A z \in 1 .. m + 1 : order[r][z] = order[q][z]
      BY <2>6, <3>1 DEF Above
    <3>3. order[r] = order[q]
      BY <1>5, <3>1, <3>2, SequenceOf, SameSequence
    <3>4. r = q
      BY <3>3 DEF Ordered
    <3> QED
      BY <1>1, <1>11, <2>6, <3>4 DEF Enters
  <2>7. \/ FileEntry(ch[a], n, mods, i, d)
        \/ \E r \in 1 .. Len(order) : DirEntry(ch[a], n, mods, order, r, d) /\ Above(order[r], p)
    BY <1>8, <2>2
  <2>8. \/ FileEntry(ch[b], n, mods, k, d)
        \/ \E r \in 1 .. Len(order) : DirEntry(ch[b], n, mods, order, r, d) /\ Above(order[r], p)
    BY <1>8, <2>2
  <2>9. ~(m + 1 > m + 1)
    OBVIOUS
  <2> QED
    BY <2>3, <2>4, <2>5, <2>6, <2>7, <2>8, <2>9
<1>12. Parts(Part, Len(ch), mods, Below(mods, d))
  BY <1>9, <1>10, <1>11 DEF Parts
<1> QED
  BY <1>1, <1>3, <1>12

-----------------------------------------------------------------------------
(* Reading the directories of a batch.                                     *)

\* There are more levels to go than directories below this one.
Enough(left, d) == left > MaxDepth - Len(d)

\* A directory is read right if its subdirectories are.
LEMMA ReadDirFacts ==
  ASSUME NEW mods \in Seq(Mods), NEW n, NEW order, Whole(batches[n], n, mods, order),
         NEW how, NEW privKey, NEW id, NEW j \in 1 .. Len(order),
         NodeByTxID(id) = batches[n].nodes[Len(mods) + j],
         NEW sub, NEW left \in Int,
         \A k \in 1 .. Len(order) : order[k] # Root /\ Front(order[k]) = order[j] =>
           Gives(sub[<<TxIDOf(how, batches[n].nodes[Len(mods) + k]), order[k]>>], mods,
                 Below(mods, order[k]), Enough(left - 1, order[k]))
  PROVE  Gives(ReadDir(how, privKey, id, order[j], sub), mods,
               Below(mods, order[j]), Enough(left, order[j]))
<1>1. PICK d \in Seq(Nat) : d = order[j]
  BY DirsFacts DEF Whole, Ordered
<1>2. PICK m \in Nat : m = Len(d)
  OBVIOUS
<1>3. PICK dir : dir = NodeByTxID(id)
  OBVIOUS
<1>4. PICK ch : ch = dir.children
  OBVIOUS
<1>5. dir.type = "dir" /\ Enters(ch, n, mods, order, d)
  BY <1>1, <1>3, <1>4 DEF Whole
<1>6. PICK L \in Nat : L = Len(ch)
  BY <1>5 DEF Enters, Sequence
<1>7. DOMAIN ch = 1 .. L
  BY <1>5, <1>6 DEF Enters, Sequence
<1> DEFINE Child(c) == IF c.type = "file"
                        THEN ReadFile(NodeByPubKey(c.key), Append(d, c.name), privKey)
                       ELSE sub[<<TxIDOf(how, NodeByPubKey(c.key)), Append(d, c.name)>>]
<1>8. PICK reads : reads = [c \in 1 .. L |-> Child(ch[c])]
  BY Zenon
<1>9. PICK r : r = ReadDir(how, privKey, id, d, sub)
  OBVIOUS
<1>10. r = ReadAll(reads)
  BY <1>3, <1>4, <1>5, <1>7, <1>8, <1>9, Zenon DEF ReadDir
<1>11. Sequence(reads) /\ Len(reads) = L /\ DOMAIN reads = 1 .. L
  BY <1>8 DEF Sequence
<1>12. PICK part : part = [c \in 1 .. L |-> PartOf(ch[c], n, mods, order, d)]
  OBVIOUS
<1>13. Ordered(mods, order)
  BY DEF Whole
<1>14. ASSUME NEW c \in 1 .. L
       PROVE  Gives(reads[c], mods, part[c], Enough(left, d))
  <2>1. reads[c] = Child(ch[c])
    BY <1>8
  <2>2. part[c] = PartOf(ch[c], n, mods, order, d)
    BY <1>12
  <2>3. ASSUME NEW i \in 1 .. Len(mods), FileEntry(ch[c], n, mods, i, d)
        PROVE  Gives(reads[c], mods, part[c], Enough(left, d))
    <3>1. /\ ch[c].type = "file" /\ Append(d, ch[c].name) = mods[i].path
          /\ NodeByPubKey(ch[c].key) = FileNode(n, i, mods[i], Policy(mods))
      BY <2>3, FileLeads
    <3>2. reads[c] = ReadFile(FileNode(n, i, mods[i], Policy(mods)), mods[i].path, privKey)
      BY <2>1, <3>1
    <3>3. Gives(reads[c], mods, {i}, TRUE)
      BY <3>2, ReadFileFacts
    <3>4. \A k : FileEntry(ch[c], n, mods, k, d) => k = i
      <4>1. \A k : FileEntry(ch[c], n, mods, k, d) => ch[c].key[2] = k
        BY DEF FileEntry
      <4> QED
        BY <2>3, <4>1
    <3>5. \A k : ~DirEntry(ch[c], n, mods, order, k, d)
      <4>1. \A k : DirEntry(ch[c], n, mods, order, k, d) => ch[c].type = "dir"
        BY DEF DirEntry
      <4> QED
        BY <3>1, <4>1
    <3>6. part[c] = {i}
      BY <2>2, <2>3, <3>4, <3>5 DEF PartOf
    <3> QED
      BY <3>3, <3>6 DEF Gives
  <2>4. ASSUME NEW k \in 1 .. Len(order), DirEntry(ch[c], n, mods, order, k, d)
        PROVE  Gives(reads[c], mods, part[c], Enough(left, d))
    <3>1. LeadsTo(ch[c], d, order[k], batches[n].nodes[Len(mods) + k])
      BY <2>4, DirLeads
    <3>2. /\ ch[c].type = "dir" /\ Append(d, ch[c].name) = order[k]
          /\ Len(order[k]) = m + 1
          /\ NodeByPubKey(ch[c].key) = batches[n].nodes[Len(mods) + k]
      BY <1>2, <3>1 DEF LeadsTo
    <3>3. order[k] # Root /\ Front(order[k]) = order[j]
      BY <1>1, <2>4 DEF DirEntry
    <3>4. reads[c] = sub[<<TxIDOf(how, batches[n].nodes[Len(mods) + k]), order[k]>>]
      <4>1. "dir" # "file"
        OBVIOUS
      <4> QED
        BY <2>1, <3>2, <4>1
    <3>5. Gives(reads[c], mods, Below(mods, order[k]), Enough(left - 1, order[k]))
      BY <3>3, <3>4
    <3>6. Enough(left - 1, order[k]) <=> Enough(left, d)
      BY <1>2, <3>2, LongestPath, SMTT(60) DEF Enough
    <3>7. \A i : ~FileEntry(ch[c], n, mods, i, d)
      <4>1. \A i : FileEntry(ch[c], n, mods, i, d) => ch[c].type = "file"
        BY DEF FileEntry
      <4> QED
        BY <3>2, <4>1
    <3>8. \A i \in 1 .. Len(order) : DirEntry(ch[c], n, mods, order, i, d) => i = k
      <4>1. \A i : DirEntry(ch[c], n, mods, order, i, d) => ch[c].key[2] = Len(mods) + i
        BY DEF DirEntry
      <4>2. ASSUME NEW i \in 1 .. Len(order), DirEntry(ch[c], n, mods, order, i, d) PROVE i = k
        <5>1. Len(mods) + i = Len(mods) + k /\ Len(mods) \in Nat
          BY <2>4, <4>1, <4>2
        <5> QED
          BY <5>1
      <4> QED
        BY <4>2
    <3>9. part[c] = Below(mods, order[k])
      BY <2>2, <2>4, <3>7, <3>8 DEF PartOf, Below
    <3> QED
      BY <3>5, <3>6, <3>9 DEF Gives
  <2> QED
    BY <1>5, <1>6, <2>3, <2>4 DEF Enters
<1> HIDE DEF Child
<1>15. CASE \A c \in 1 .. L : reads[c].status = "done"
  <2>1. PICK s : s = [c \in 1 .. L |-> reads[c].files]
    OBVIOUS
  <2>2. Sequence(s) /\ Len(s) = L
    BY <2>1 DEF Sequence
  <2>3. r = Read("done", FlattenSeq(s))
    BY <1>10, <1>11, <1>15, <2>1, ReadAllFacts
  <2>4. \A c \in 1 .. L : Lists(s[c], mods, part[c])
    BY <1>14, <1>15, <2>1 DEF Gives
  <2>5. PICK I : I = Below(mods, d)
    OBVIOUS
  <2>6. I \subseteq 1 .. Len(mods) /\ Len(mods) \in Nat
    BY <2>5 DEF Below
  <2>7. /\ \A c \in 1 .. L : part[c] \subseteq I
        /\ \A i \in I : \E c \in 1 .. L : i \in part[c]
        /\ \A a, b \in 1 .. L : a < b => \A i \in part[a], k \in part[b] :
             mods[i].path = mods[k].path => i <= k
    <3>1. Enters(ch, n, mods, order, order[j])
      BY <1>1, <1>5
    <3>2. Parts([c \in 1 .. Len(ch) |-> PartOf(ch[c], n, mods, order, order[j])], Len(ch), mods,
                Below(mods, order[j]))
      BY <1>13, <3>1, PartsOfDir
    <3>3. Parts(part, L, mods, I)
      BY <1>1, <1>6, <1>12, <2>5, <3>2
    <3> QED
      BY <3>3 DEF Parts
  <2>8. Lists(FlattenSeq(s), mods, I)
    BY <2>2, <2>4, <2>6, <2>7, ListsTogether
  <2> QED
    BY <1>1, <1>9, <2>3, <2>5, <2>8 DEF Gives, Read, Outcomes
<1>16. CASE ~(\A c \in 1 .. L : reads[c].status = "done")
  <2>1. PICK k \in 1 .. L : reads[k].status # "done" /\ r = Read(reads[k].status, <<>>)
    BY <1>10, <1>11, <1>16, ReadAllFacts
  <2>2. r.status = reads[k].status
    BY <2>1 DEF Read
  <2>3. Gives(reads[k], mods, part[k], Enough(left, d))
    BY <1>14
  <2> QED
    BY <1>1, <1>9, <2>1, <2>2, <2>3 DEF Gives
<1> QED
  BY <1>15, <1>16

\* The ids of directories when they have one each, or when there is only the root.
LEMMA OwnIds ==
  ASSUME NEW mods \in Seq(Mods), NEW n \in Nat, NEW order, Whole(batches[n], n, mods, order),
         NEW k \in 1 .. Len(order)
  PROVE  /\ TxIDOf("own", batches[n].nodes[Len(mods) + k]) \in TxIDs
         /\ NodeByTxID(TxIDOf("own", batches[n].nodes[Len(mods) + k]))
              = batches[n].nodes[Len(mods) + k]
<1>1. PICK node : node = batches[n].nodes[Len(mods) + k]
  OBVIOUS
<1>2. node.key = <<n, Len(mods) + k>>
  BY <1>1 DEF Whole
<1>3. k \in Nat /\ Len(mods) \in Nat
  BY DEF Whole, Ordered, Sequence
<1>4. node.key \in Nat \X Nat /\ node.key[1] = n /\ node.key[2] = Len(mods) + k
  BY <1>2, <1>3
<1>5. node.key # None
  BY <1>4, ContentAssumption DEF ContentAssumption
<1>6. PICK id : id = TxIDOf("own", node)
  OBVIOUS
<1>7. id = [batch |-> n, key |-> node.key]
  BY <1>4, <1>6 DEF TxIDOf
<1>8. id \in TxIDs
  BY <1>4, <1>7, SMTT(60) DEF TxIDs
<1>9. NodeByTxID(id) = node
  BY <1>1, <1>4, <1>5, <1>7 DEF NodeByTxID, NodeByPubKey
<1> QED
  BY <1>1, <1>6, <1>8, <1>9

\* With a TxID for each node every directory is read right.
LEMMA OwnReads ==
  ASSUME NEW mods \in Seq(Mods), NEW n \in Nat, NEW order, Whole(batches[n], n, mods, order),
         NEW privKey, NEW read, ReadsUp(read, "own", privKey, MaxDepth + 1),
         NEW id \in TxIDs, NEW j \in 1 .. Len(order),
         NodeByTxID(id) = batches[n].nodes[Len(mods) + j]
  PROVE  Gives(read[MaxDepth + 1][<<id, order[j]>>], mods, Below(mods, order[j]),
               Enough(MaxDepth + 1, order[j]))
<1>1. PICK N \in Nat : N = MaxDepth + 1
  BY LongestPath
<1>2. \A k \in 1 .. Len(order) : order[k] \in Seq(Nat)
  BY DirsFacts DEF Whole, Ordered
<1> DEFINE Right(left) ==
      \A k \in 1 .. Len(order) : \A at \in TxIDs :
        NodeByTxID(at) = batches[n].nodes[Len(mods) + k] =>
          Gives(read[left][<<at, order[k]>>], mods, Below(mods, order[k]), Enough(left, order[k]))
<1>3. PICK T : T = {left \in 0 .. N : Right(left)}
  OBVIOUS
<1>4. 0 \in T
  <2>1. ASSUME NEW k \in 1 .. Len(order), NEW at \in TxIDs
        PROVE  Gives(read[0][<<at, order[k]>>], mods, Below(mods, order[k]), Enough(0, order[k]))
    <3>1. <<at, order[k]>> \in TxIDs \X Seq(Nat)
      BY <1>2
    <3>2. read[0][<<at, order[k]>>] = Read("endless", <<>>)
      BY <3>1 DEF ReadsUp
    <3>3. ~Enough(0, order[k])
      <4>1. Len(order[k]) \in Nat /\ Len(order[k]) <= MaxDepth /\ MaxDepth \in Nat
        <5>1. CASE order[k] = Root
          BY <5>1, LongestPath DEF Root
        <5>2. CASE order[k] # Root
          <6>1. PICK i \in 1 .. Len(mods) : Above(order[k], mods[i].path)
            BY <5>2, DirsFacts DEF Whole, Ordered
          <6>2. mods[i].path \in Paths
            <7>1. mods[i] \in Mods
              OBVIOUS
            <7> QED
              BY <7>1, ModType
          <6>3. Len(mods[i].path) <= MaxDepth /\ Len(mods[i].path) \in Nat
            BY <6>2, LongestPath, PathType
          <6>4. Len(order[k]) \in Nat
            BY <1>2
          <6> QED
            BY <6>1, <6>3, <6>4, LongestPath DEF Above
        <5> QED
          BY <5>1, <5>2
      <4> QED
        BY <4>1 DEF Enough
    <3> QED
      BY <3>2, <3>3 DEF Gives, Read, Outcomes
  <2> QED
    BY <1>3, <2>1
<1>5. ASSUME NEW left \in 0 .. N, left \in T, left < N PROVE left + 1 \in T
  <2>1. PICK m \in 1 .. N : m = left + 1 /\ m - 1 = left
    BY <1>5
  <2>2. Right(left)
    BY <1>3, <1>5
  <2>3. ASSUME NEW k \in 1 .. Len(order), NEW at \in TxIDs,
               NodeByTxID(at) = batches[n].nodes[Len(mods) + k]
        PROVE  Gives(read[m][<<at, order[k]>>], mods, Below(mods, order[k]), Enough(m, order[k]))
    <3>1. <<at, order[k]>> \in TxIDs \X Seq(Nat)
      BY <1>2
    <3>2. read[m][<<at, order[k]>>] = ReadDir("own", privKey, at, order[k], read[left])
      BY <1>1, <2>1, <3>1 DEF ReadsUp
    <3>3. PICK sub : sub = read[left]
      OBVIOUS
    <3>4. ASSUME NEW l \in 1 .. Len(order)
          PROVE  Gives(sub[<<TxIDOf("own", batches[n].nodes[Len(mods) + l]), order[l]>>], mods,
                       Below(mods, order[l]), Enough(m - 1, order[l]))
      BY <2>1, <2>2, <3>3, OwnIds
    <3>5. Gives(ReadDir("own", privKey, at, order[k], sub), mods, Below(mods, order[k]),
                Enough(m, order[k]))
      <4>1. \A l \in 1 .. Len(order) : order[l] # Root /\ Front(order[l]) = order[k] =>
              Gives(sub[<<TxIDOf("own", batches[n].nodes[Len(mods) + l]), order[l]>>], mods,
                    Below(mods, order[l]), Enough(m - 1, order[l]))
        BY <3>4
      <4>2. m \in Int
        OBVIOUS
      <4> QED
        BY <2>3, <4>1, <4>2, ReadDirFacts
    <3> QED
      BY <3>2, <3>3, <3>5
  <2>4. Right(m)
    BY <2>3
  <2> HIDE DEF Right
  <2> QED
    BY <1>3, <2>1, <2>4
<1>6. N \in T
  <2> HIDE DEF Right
  <2>1. \A left \in 0 .. N : left \in T
    BY <1>4, <1>5, UpTo
  <2> QED
    BY <2>1
<1>7. Right(N)
  BY <1>3, <1>6
<1> QED
  BY <1>1, <1>7

\* With one TxID for all of them a subdirectory is the root again, and no end to it.
LEMMA BatchReads ==
  ASSUME NEW mods \in Seq(Mods), NEW n \in Nat, NEW order, Whole(batches[n], n, mods, order),
         NEW privKey, NEW read, ReadsUp(read, "batch", privKey, MaxDepth + 1),
         NEW k \in 1 .. Len(order), order[k] # Root, Front(order[k]) = Root
  PROVE  LET r == read[MaxDepth + 1][<<[batch |-> n, key |-> None], Root>>]
         IN  r.status \in Outcomes /\ r.status # "done"
<1>1. PICK N \in Nat : N = MaxDepth + 1
  BY LongestPath
<1>2. PICK id \in TxIDs : id = [batch |-> n, key |-> None]
  BY DEF TxIDs
<1>3. PICK j \in 1 .. Len(order) : order[j] = Root /\ batches[n].root = <<n, Len(mods) + j>>
  BY DEF Whole
<1>4. NodeByTxID(id) = batches[n].nodes[Len(mods) + j]
  BY <1>2, <1>3 DEF NodeByTxID, NodeByPubKey
<1>5. ASSUME NEW l \in 1 .. Len(order) PROVE TxIDOf("batch", batches[n].nodes[Len(mods) + l]) = id
  <2>1. batches[n].nodes[Len(mods) + l].key = <<n, Len(mods) + l>>
    BY DEF Whole
  <2> QED
    BY <1>2, <2>1 DEF TxIDOf
<1> DEFINE Bad(left) == \A prefix \in Seq(Nat) :
             read[left][<<id, prefix>>].status \in {"failed", "endless"}
<1>6. PICK T : T = {left \in 0 .. N : Bad(left)}
  OBVIOUS
<1>7. 0 \in T
  <2>1. \A prefix \in Seq(Nat) : read[0][<<id, prefix>>] = Read("endless", <<>>)
    BY DEF ReadsUp
  <2> QED
    BY <1>6, <2>1 DEF Read
<1>8. PICK ch : ch = batches[n].nodes[Len(mods) + j].children
  OBVIOUS
<1>9. Enters(ch, n, mods, order, Root) /\ batches[n].nodes[Len(mods) + j].type = "dir"
  BY <1>3, <1>8 DEF Whole
<1>10. PICK L \in Nat : L = Len(ch)
  BY <1>9 DEF Enters, Sequence
<1>11. DOMAIN ch = 1 .. L
  BY <1>9, <1>10 DEF Enters, Sequence
<1>12. ASSUME NEW left \in 0 .. N, left \in T, left < N PROVE left + 1 \in T
  <2>1. PICK m \in 1 .. N : m = left + 1 /\ m - 1 = left
    BY <1>12
  <2>2. PICK sub : sub = read[left]
    OBVIOUS
  <2>3. \A prefix \in Seq(Nat) : sub[<<id, prefix>>].status \in {"failed", "endless"}
    BY <1>6, <1>12, <2>2
  <2>4. ASSUME NEW prefix \in Seq(Nat)
        PROVE  read[m][<<id, prefix>>].status \in {"failed", "endless"}
    <3>1. read[m][<<id, prefix>>] = ReadDir("batch", privKey, id, prefix, sub)
      <4>1. <<id, prefix>> \in TxIDs \X Seq(Nat)
        OBVIOUS
      <4> QED
        BY <1>1, <2>1, <2>2, <4>1 DEF ReadsUp
    <3> DEFINE Child(c) ==
          IF c.type = "file" THEN ReadFile(NodeByPubKey(c.key), Append(prefix, c.name), privKey)
          ELSE sub[<<TxIDOf("batch", NodeByPubKey(c.key)), Append(prefix, c.name)>>]
    <3>2. PICK reads : reads = [c \in 1 .. L |-> Child(ch[c])]
      BY Zenon
    <3>3. read[m][<<id, prefix>>] = ReadAll(reads)
      BY <1>4, <1>8, <1>9, <1>11, <3>1, <3>2, Zenon DEF ReadDir
    <3>4. Sequence(reads) /\ Len(reads) = L
      BY <3>2 DEF Sequence
    <3>5. ASSUME NEW c \in 1 .. L, NEW l \in 1 .. Len(order),
                 DirEntry(ch[c], n, mods, order, l, Root)
          PROVE  reads[c].status \in {"failed", "endless"}
      <4>1. ch[c].type = "dir" /\ NodeByPubKey(ch[c].key) = batches[n].nodes[Len(mods) + l]
        <5>1. LeadsTo(ch[c], Root, order[l], batches[n].nodes[Len(mods) + l])
          BY <3>5, DirLeads
        <5> QED
          BY <5>1 DEF LeadsTo
      <4>2. ch[c].name \in Nat
        <5>1. order[l] \in Seq(Nat) /\ order[l] # Root /\ ch[c].name = Last(order[l])
          BY <3>5, DirsFacts DEF Whole, Ordered, DirEntry
        <5> QED
          BY <5>1, FrontFacts
      <4>3. Append(prefix, ch[c].name) \in Seq(Nat)
        BY <4>2
      <4>4. reads[c] = sub[<<id, Append(prefix, ch[c].name)>>]
        <5>1. "dir" # "file"
          OBVIOUS
        <5>2. reads[c] = sub[<<TxIDOf("batch", NodeByPubKey(ch[c].key)),
                               Append(prefix, ch[c].name)>>]
          BY <3>2, <4>1, <5>1
        <5> QED
          BY <1>5, <4>1, <5>2
      <4> QED
        BY <2>3, <4>3, <4>4
    <3>6. ASSUME NEW c \in 1 .. L, NEW i \in 1 .. Len(mods), FileEntry(ch[c], n, mods, i, Root)
          PROVE  reads[c].status \in {"done", "failed"}
      <4>1. ch[c].type = "file"
        BY <3>6, FileLeads
      <4>2. reads[c] = ReadFile(NodeByPubKey(ch[c].key), Append(prefix, ch[c].name), privKey)
        BY <3>2, <4>1
      <4> QED
        BY <4>2 DEF ReadFile, Read
    <3> HIDE DEF Child
    <3>7. \A c \in 1 .. L : reads[c].status \in {"done", "failed", "endless"}
      BY <1>9, <1>10, <3>5, <3>6 DEF Enters
    <3>8. PICK c \in 1 .. L : DirEntry(ch[c], n, mods, order, k, Root)
      BY <1>9, <1>10 DEF Enters
    <3>9. reads[c].status # "done"
      BY <3>5, <3>8
    <3>10. PICK b \in 1 .. L :
             reads[b].status # "done" /\ ReadAll(reads) = Read(reads[b].status, <<>>)
      BY <3>4, <3>9, ReadAllFacts
    <3> QED
      BY <3>3, <3>7, <3>10 DEF Read
  <2> QED
    BY <1>6, <2>1, <2>4
<1>13. N \in T
  <2> HIDE DEF Bad
  <2>1. \A left \in 0 .. N : left \in T
    BY <1>7, <1>12, UpTo
  <2> QED
    BY <2>1
<1>14. Bad(N)
  BY <1>6, <1>13
<1>15. Root \in Seq(Nat)
  BY DEF Root
<1> QED
  BY <1>1, <1>2, <1>14, <1>15 DEF Outcomes

-----------------------------------------------------------------------------
(* The tree of an anchor.                                                  *)

\* All the files of the root directory.
AllInRoot(mods) == \A i \in 1 .. Len(mods) : Front(mods[i].path) = Root

\* The tree of an anchor: it lists all the files of its push, if it is read.
LEMMA TreeFacts ==
  ASSUME NEW mods \in Seq(Mods), NEW n \in Nat, batches[n] = Batch(n, mods),
         NEW how \in Readers, NEW privKey
  PROVE  Gives(AnchorTree(how, privKey, batches[n]), mods, 1 .. Len(mods),
               how = "own" \/ AllInRoot(mods))
<1>1. PICK t : t = AnchorTree(how, privKey, batches[n])
  OBVIOUS
<1>2. CASE mods = <<>>
  <2>1. batches[n].root = None
    BY <1>2 DEF Batch
  <2>2. t = Read("done", <<>>)
    BY <1>1, <2>1 DEF AnchorTree
  <2>3. PICK w : w = [k \in 1 .. 0 |-> None]
    OBVIOUS
  <2>4. ListsBy(<<>>, mods, 1 .. Len(mods), w)
    BY <1>2, <2>3 DEF ListsBy
  <2>5. Lists(<<>>, mods, 1 .. Len(mods))
    BY <2>4 DEF Lists
  <2> QED
    BY <1>1, <2>2, <2>5 DEF Gives, Read, Outcomes
<1>3. CASE mods # <<>>
  <2>1. PICK order : Whole(batches[n], n, mods, order)
    BY <1>3, BatchIsWhole
  <2>2. PICK j \in 1 .. Len(order) : order[j] = Root /\ batches[n].root = <<n, Len(mods) + j>>
    BY <2>1 DEF Whole
  <2>3. PICK M \in Nat, l \in Nat : M = Len(mods) /\ l = Len(order)
    <3>1. Len(order) \in Nat
      BY <2>1 DEF Whole, Ordered, Sequence
    <3> QED
      BY <3>1
  <2>4. batches[n].root \in Nat \X Nat /\ batches[n].root[1] = n
    BY <2>2, <2>3
  <2>5. batches[n].root # None
    BY <2>4, ContentAssumption DEF ContentAssumption
  <2>6. PICK id \in TxIDs : id = [batch |-> n, key |-> None]
    BY DEF TxIDs
  <2>7. t = ReadTree(how, privKey, id)
    BY <1>1, <2>4, <2>5, <2>6 DEF AnchorTree
  <2>8. NodeByTxID(id) = batches[n].nodes[Len(mods) + j]
    BY <2>2, <2>6 DEF NodeByTxID, NodeByPubKey
  <2>9. PICK read : /\ t = read[MaxDepth + 1][<<id, Root>>]
                    /\ ReadsUp(read, how, privKey, MaxDepth + 1)
    BY <2>7, ReadTreeLoop DEF Root
  <2>10. Below(mods, Root) = 1 .. Len(mods)
    <3>1. ASSUME NEW i \in 1 .. Len(mods) PROVE Above(Root, mods[i].path)
      <4>1. mods[i] \in Mods
        OBVIOUS
      <4>2. Len(mods[i].path) \in Nat \ {0}
        BY <4>1, ModType, PathType
      <4> QED
        BY <4>2 DEF Above, Root
    <3> QED
      BY <3>1 DEF Below
  <2>11. Enough(MaxDepth + 1, Root)
    BY LongestPath DEF Enough, Root
  <2>12. CASE how = "own"
    <3>1. Gives(read[MaxDepth + 1][<<id, order[j]>>], mods, Below(mods, order[j]),
                Enough(MaxDepth + 1, order[j]))
      BY <2>1, <2>8, <2>9, <2>12, OwnReads
    <3> QED
      BY <1>1, <2>2, <2>9, <2>10, <2>11, <3>1 DEF Gives
  <2>13. CASE how = "batch" /\ \E k \in 1 .. Len(order) : order[k] # Root
    <3>1. PICK d \in Seq(Nat), i \in 1 .. Len(mods) :
            d # Root /\ Above(d, mods[i].path) /\ d \in DirsOf(mods)
      BY <2>1, <2>13, DirsFacts DEF Whole, Ordered
    <3>2. PICK p \in Seq(Nat) : p = mods[i].path /\ p # Root
      <4>1. mods[i] \in Mods
        OBVIOUS
      <4> QED
        BY <4>1, ModType, PathType
    <3>3. Len(p) \in Nat /\ Len(d) \in Nat \ {0} /\ Len(d) < Len(p)
      BY <3>1, <3>2, FrontFacts DEF Above
    <3>4. PICK e : e = SubSeq(p, 1, 1)
      OBVIOUS
    <3>5. e \in Seq(Nat) /\ Len(e) = 1 /\ e[1] = p[1]
      BY <3>3, <3>4, SMTT(60)
    <3>6. e # Root
      <4>1. Len(Root) = 0
        BY DEF Root
      <4>2. Len(e) = 1
        BY <3>5
      <4>3. Len(e) # Len(Root)
        BY <4>1, <4>2
      <4> QED
        BY <4>3, Zenon
    <3>7. Front(e) = Root
      <4>1. Front(e) \in Seq(Nat) /\ Len(Front(e)) = 0
        <5>1. PICK m \in Nat : m = 0
          OBVIOUS
        <5>2. e \in Seq(Nat) /\ Len(e) = m + 1
          BY <3>5, <5>1
        <5> QED
          BY <3>6, <5>1, <5>2, OneShorter
      <4> QED
        BY <4>1 DEF Root
    <3>8. Above(e, p)
      BY <3>3, <3>5 DEF Above
    <3>9. e \in DirsOf(mods)
      BY <3>2, <3>5, <3>8, DirsFacts
    <3>10. PICK k \in 1 .. Len(order) : order[k] = e
      BY <2>1, <3>9 DEF Whole, Ordered
    <3>11. t.status \in Outcomes /\ t.status # "done"
      BY <2>1, <2>6, <2>9, <2>13, <3>6, <3>7, <3>10, BatchReads, SMTT(60)
    <3>12. ~AllInRoot(mods)
      <4>1. Len(Front(p)) = Len(p) - 1
        BY <3>2, FrontFacts
      <4>2. Len(Root) = 0
        BY DEF Root
      <4> QED
        BY <3>2, <3>3, <4>1, <4>2 DEF AllInRoot
    <3>13. how # "own"
      BY <2>13
    <3> QED
      BY <1>1, <3>11, <3>12, <3>13 DEF Gives
  <2>14. CASE how = "batch" /\ \A k \in 1 .. Len(order) : order[k] = Root
    <3>1. PICK N \in Nat : N = MaxDepth
      BY LongestPath
    <3>2. PICK sub : sub = read[N]
      OBVIOUS
    <3>3. t = ReadDir(how, privKey, id, Root, sub)
      <4>1. Root \in Seq(Nat)
        BY DEF Root
      <4>2. <<id, Root>> \in TxIDs \X Seq(Nat)
        BY <4>1
      <4>3. N + 1 \in 1 .. N + 1 /\ N + 1 - 1 = N
        OBVIOUS
      <4> QED
        BY <2>9, <3>1, <3>2, <4>2, <4>3 DEF ReadsUp
    <3>4. PICK left \in Int : left = N + 1
      OBVIOUS
    <3>5. \A k \in 1 .. Len(order) : order[k] # Root /\ Front(order[k]) = order[j] =>
            Gives(sub[<<TxIDOf(how, batches[n].nodes[Len(mods) + k]), order[k]>>], mods,
                  Below(mods, order[k]), Enough(left - 1, order[k]))
      BY <2>14
    <3>6. Gives(ReadDir(how, privKey, id, order[j], sub), mods, Below(mods, order[j]),
                Enough(left, order[j]))
      BY <2>1, <2>8, <3>5, ReadDirFacts
    <3> QED
      BY <1>1, <2>2, <2>10, <2>11, <3>1, <3>3, <3>6, <3>4 DEF Gives
  <2> QED
    BY <2>12, <2>13, <2>14 DEF Readers
<1> QED
  BY <1>2, <1>3

-----------------------------------------------------------------------------
(* Writing files.                                                          *)

\* Of the first n M commands, none after the i-th is in the way of its file.
Stands(ms, n, i) ==
  \A j \in i + 1 .. n : ~IsPrefix(ms[i].path, ms[j].path) /\ ~IsPrefix(ms[j].path, ms[i].path)

\* The files are those that stand after the first n M commands.
Holds(files, ms, n) ==
  /\ \A p \in DOMAIN files : \E i \in 1 .. n :
       Stands(ms, n, i) /\ ms[i].path = p /\ files[p].data = ms[i].data
  /\ \A i \in 1 .. n : Stands(ms, n, i) => ms[i].path \in DOMAIN files

\* One M command more.
LEMMA WriteHolds ==
  ASSUME NEW ms, NEW n \in Nat, NEW files, Holds(files, ms, n)
  PROVE  Holds(Write(files, ms[n + 1]), ms, n + 1)
<1>1. PICK m \in Nat : m = n + 1
  OBVIOUS
<1>2. PICK f : f = ms[m]
  OBVIOUS
<1>3. PICK kept : kept = {p \in DOMAIN files : ~IsPrefix(p, f.path) /\ ~IsPrefix(f.path, p)}
  OBVIOUS
<1>4. PICK new : new = Write(files, f)
  OBVIOUS
<1>5. new = [p \in kept \cup {f.path} |->
               IF p = f.path THEN [data |-> f.data, mode |-> f.mode] ELSE files[p]]
  BY <1>3, <1>4 DEF Write
<1>6. IsPrefix(f.path, f.path)
  BY DEF IsPrefix
<1>7. \A i \in 1 .. n : i + 1 .. m = (i + 1 .. n) \cup {m}
  BY <1>1
<1>8. \A i \in 1 .. n :
        Stands(ms, m, i) <=>
          Stands(ms, n, i) /\ ~IsPrefix(ms[i].path, f.path) /\ ~IsPrefix(f.path, ms[i].path)
  BY <1>2, <1>7 DEF Stands
<1>9. m \in 1 .. m /\ m + 1 .. m = {} /\ \A i \in 1 .. m : i \in 1 .. n \/ i = m
  BY <1>1
<1>10. Stands(ms, m, m)
  BY <1>9 DEF Stands
<1>11. ASSUME NEW p \in DOMAIN new
       PROVE  \E i \in 1 .. m : Stands(ms, m, i) /\ ms[i].path = p /\ new[p].data = ms[i].data
  <2>1. CASE p = f.path
    BY <1>2, <1>5, <1>9, <1>10, <2>1
  <2>2. CASE p # f.path
    <3>1. p \in kept /\ new[p] = files[p]
      BY <1>5, <2>2
    <3>2. PICK i \in 1 .. n : Stands(ms, n, i) /\ ms[i].path = p /\ files[p].data = ms[i].data
      BY <1>3, <3>1 DEF Holds
    <3>3. Stands(ms, m, i)
      BY <1>3, <1>8, <3>1, <3>2
    <3>4. i \in 1 .. m
      BY <1>1
    <3> QED
      BY <3>1, <3>2, <3>3, <3>4
  <2> QED
    BY <2>1, <2>2
<1>12. ASSUME NEW i \in 1 .. m, Stands(ms, m, i) PROVE ms[i].path \in DOMAIN new
  <2>1. CASE i = m
    BY <1>2, <1>5, <2>1
  <2>2. CASE i \in 1 .. n
    <3>1. /\ Stands(ms, n, i) /\ ~IsPrefix(ms[i].path, f.path)
          /\ ~IsPrefix(f.path, ms[i].path)
      BY <1>8, <1>12, <2>2
    <3>2. ms[i].path \in DOMAIN files
      BY <2>2, <3>1 DEF Holds
    <3> QED
      BY <1>3, <1>5, <3>1, <3>2
  <2> QED
    BY <1>9, <2>1, <2>2
<1> QED
  BY <1>1, <1>2, <1>4, <1>11, <1>12 DEF Holds

\* The files after all M commands.
LEMMA WrittenFacts ==
  ASSUME NEW ms, Len(ms) \in Nat
  PROVE  Holds(Written(ms)[Len(ms)], ms, Len(ms))
<1>1. PICK N \in Nat : N = Len(ms)
  OBVIOUS
<1> DEFINE Step(f, n) == IF n = 0 THEN [p \in {} |-> None] ELSE Write(f[n - 1], ms[n])
<1>2. PICK T : T = {m \in 0 .. N : \E f : /\ f = [n \in 0 .. m |-> f[n]]
                                          /\ \A n \in 0 .. m : f[n] = Step(f, n)}
  OBVIOUS
<1>3. 0 \in T
  <2>1. PICK f : f = [n \in 0 .. 0 |-> [p \in {} |-> None]]
    OBVIOUS
  <2>2. \A n \in 0 .. 0 : n = 0
    OBVIOUS
  <2>3. \A n \in 0 .. 0 : f[n] = Step(f, n)
    BY <2>1, <2>2
  <2>4. f = [n \in 0 .. 0 |-> f[n]]
    BY <2>1
  <2> QED
    BY <1>1, <1>2, <2>3, <2>4
<1>4. ASSUME NEW m \in 0 .. N, m \in T, m < N PROVE m + 1 \in T
  <2>1. PICK f : /\ f = [n \in 0 .. m |-> f[n]]
                 /\ \A n \in 0 .. m : f[n] = Step(f, n)
    BY <1>2, <1>4
  <2>2. PICK top : top = Write(f[m], ms[m + 1])
    OBVIOUS
  <2>3. PICK h : h = [n \in 0 .. m + 1 |-> IF n = m + 1 THEN top ELSE f[n]]
    OBVIOUS
  <2>4. h = [n \in 0 .. m + 1 |-> h[n]]
    BY <2>3
  <2>5. ASSUME NEW n \in 0 .. m + 1 PROVE h[n] = Step(h, n)
    <3>1. CASE n = m + 1
      <4>1. n # 0 /\ n - 1 = m /\ h[m] = f[m] /\ h[n] = top
        BY <2>3, <3>1
      <4> QED
        BY <2>2, <3>1, <4>1
    <3>2. CASE n # m + 1 /\ n # 0
      <4>1. n \in 0 .. m /\ n - 1 \in 0 .. m /\ n # 0
        BY <3>2
      <4>2. h[n] = f[n] /\ h[n - 1] = f[n - 1]
        BY <2>3, <4>1
      <4>3. Step(h, n) = Step(f, n)
        BY <4>1, <4>2
      <4> HIDE DEF Step
      <4> QED
        BY <2>1, <4>1, <4>2, <4>3
    <3>3. CASE n = 0
      <4>1. h[0] = f[0] /\ f[0] = Step(f, 0)
        BY <2>1, <2>3
      <4>2. Step(f, 0) = Step(h, 0)
        OBVIOUS
      <4> QED
        BY <3>3, <4>1, <4>2
    <3> QED
      BY <3>1, <3>2, <3>3
  <2>6. m + 1 \in 0 .. N
    BY <1>4
  <2> HIDE DEF Step
  <2> QED
    BY <1>2, <2>4, <2>5, <2>6
<1>5. N \in T
  <2> HIDE DEF Step
  <2>1. \A m \in 0 .. N : m \in T
    BY <1>3, <1>4, UpTo
  <2> QED
    BY <2>1
<1> DEFINE F(e) == e = [n \in 0 .. N |-> Step(e, n)]
<1>6. \E f : F(f)
  <2>1. PICK f : /\ f = [n \in 0 .. N |-> f[n]]
                 /\ \A n \in 0 .. N : f[n] = Step(f, n)
    BY <1>2, <1>5
  <2> HIDE DEF Step
  <2>2. PICK h : h = [n \in 0 .. N |-> Step(f, n)]
    OBVIOUS
  <2>3. f = h
    BY <2>1, <2>2
  <2> QED
    BY <2>2, <2>3
<1>7. PICK e : e = CHOOSE x : F(x)
  OBVIOUS
<1>8. F(e)
  <2> HIDE DEF F
  <2> QED
    BY <1>6, <1>7
<1>9. Written(ms)[Len(ms)] = e[N]
  BY <1>1, <1>7 DEF Written
<1>10. \A n \in 0 .. N : e[n] = Step(e, n)
  <2>1. PICK k : k = [n \in 0 .. N |-> Step(e, n)]
    OBVIOUS
  <2>2. e = k
    BY <1>8, <2>1
  <2> HIDE DEF Step, F
  <2> QED
    BY <2>1, <2>2
<1> HIDE DEF F
<1>11. PICK U : U = {n \in 0 .. N : Holds(e[n], ms, n)}
  OBVIOUS
<1>12. 0 \in U
  <2>1. e[0] = [p \in {} |-> None]
    BY <1>10
  <2>2. DOMAIN e[0] = {} /\ 1 .. 0 = {}
    BY <2>1
  <2>3. Holds(e[0], ms, 0)
    BY <2>2 DEF Holds
  <2> QED
    BY <1>11, <2>3
<1>13. ASSUME NEW n \in 0 .. N, n \in U, n < N PROVE n + 1 \in U
  <2>1. n + 1 \in 0 .. N /\ n + 1 # 0 /\ n + 1 - 1 = n /\ n \in Nat
    BY <1>13
  <2>2. e[n + 1] = Write(e[n], ms[n + 1])
    BY <1>10, <2>1
  <2>3. Holds(e[n], ms, n)
    BY <1>11, <1>13
  <2>4. Holds(Write(e[n], ms[n + 1]), ms, n + 1)
    BY <2>1, <2>3, WriteHolds
  <2> QED
    BY <1>11, <2>1, <2>2, <2>4
<1>14. \A n \in 0 .. N : n \in U
  BY <1>12, <1>13, UpTo
<1>15. Holds(e[N], ms, N)
  BY <1>11, <1>14
<1> QED
  BY <1>1, <1>9, <1>15

-----------------------------------------------------------------------------
(* The history of the pushes.                                              *)

\* What log may be.
Histories == Seq([commits : Commits, tip : Trees])

\* All the changes of the pushes of L.
PushedIn(L) == FlattenSeq(FlattenSeq([n \in DOMAIN L |-> L[n].commits]))

\* The changes of the n-th push, and those of each.
PushOf(L, n) == FlattenSeq(L[n].commits)
PushesOf(L) == [n \in 1 .. Len(L) |-> PushOf(L, n)]

\* The commits of the pushes.
LEMMA HistoryCommits ==
  ASSUME NEW L \in Histories
  PROVE  /\ Len(L) \in Nat /\ DOMAIN L = 1 .. Len(L)
         /\ [n \in DOMAIN L |-> L[n].commits] \in Seq(Seq(Seq(Ops)))
         /\ \A n \in 1 .. Len(L) : L[n].commits \in Commits /\ L[n].tip \in Trees
<1>1. Len(L) \in Nat /\ DOMAIN L = 1 .. Len(L)
  BY DEF Histories
<1>2. \A n \in 1 .. Len(L) : L[n] \in [commits : Commits, tip : Trees]
  <2>1. PICK E : E = [commits : Commits, tip : Trees]
    OBVIOUS
  <2>2. L \in Seq(E)
    BY <2>1 DEF Histories
  <2>3. \A n \in 1 .. Len(L) : L[n] \in E
    BY <2>2
  <2> QED
    BY <2>1, <2>3
<1>3. \A n \in 1 .. Len(L) : L[n].commits \in Commits /\ L[n].tip \in Trees
  BY <1>2
<1>4. \A n \in 1 .. Len(L) : L[n].commits \in Seq(Seq(Ops))
  BY <1>3 DEF Commits
<1>5. [n \in DOMAIN L |-> L[n].commits] \in Seq(Seq(Seq(Ops)))
  <2>1. PICK m \in Nat : m = Len(L)
    BY <1>1
  <2>2. [n \in 1 .. m |-> L[n].commits] \in Seq(Seq(Seq(Ops)))
    BY <1>4, <2>1
  <2> QED
    BY <1>1, <2>1, <2>2, SMTT(60)
<1> QED
  BY <1>1, <1>3, <1>5

\* The changes of the pushes stand one push after the other.
LEMMA PushedPlaces ==
  ASSUME NEW L \in Histories
  PROVE  /\ PushedIn(L) \in Seq(Ops)
         /\ \E off : Flattened(PushedIn(L), PushesOf(L), off)
<1>1. PICK s \in Seq(Seq(Seq(Ops))) : s = [n \in DOMAIN L |-> L[n].commits]
  BY HistoryCommits
<1>2. PICK N \in Nat : N = Len(L) /\ N = Len(s) /\ DOMAIN L = 1 .. N
  BY <1>1, HistoryCommits
<1>3. PICK t : t = PushesOf(L)
  OBVIOUS
<1>4. [n \in 1 .. Len(s) |-> FlattenSeq(s[n])] = t
  BY <1>1, <1>2, <1>3 DEF PushesOf, PushOf
<1>5. PushedIn(L) = FlattenSeq(t)
  <2>1. FlattenSeq(FlattenSeq(s)) = FlattenSeq([n \in 1 .. Len(s) |-> FlattenSeq(s[n])])
    BY FlattenTwice
  <2> QED
    BY <1>1, <1>4, <2>1 DEF PushedIn
<1>6. t \in Seq(Seq(Ops))
  <2>1. ASSUME NEW n \in 1 .. N PROVE t[n] \in Seq(Ops)
    <3>1. s[n] \in Seq(Seq(Ops))
      BY <1>2
    <3>2. FlattenSeq(s[n]) \in Seq(Ops)
      BY <3>1, FlattenPlaces
    <3> QED
      BY <1>2, <1>4, <3>2
  <2>2. t = [n \in 1 .. N |-> t[n]]
    BY <1>2, <1>3 DEF PushesOf
  <2> QED
    BY <2>1, <2>2
<1>7. FlattenSeq(t) \in Seq(Ops) /\ \E off : Flattened(FlattenSeq(t), t, off)
  BY <1>6, FlattenPlaces
<1> QED
  BY <1>3, <1>5, <1>7

\* One push more.
LEMMA PushedAppend ==
  ASSUME NEW L \in Histories, NEW e \in [commits : Commits, tip : Trees]
  PROVE  PushedIn(Append(L, e)) = PushedIn(L) \o FlattenSeq(e.commits)
<1>1. PICK s \in Seq(Seq(Seq(Ops))) : s = [n \in DOMAIN L |-> L[n].commits]
  BY HistoryCommits
<1>2. PICK c \in Seq(Seq(Ops)) : c = e.commits
  BY DEF Commits
<1>3. PICK M \in Histories : M = Append(L, e)
  <2>1. Append(L, e) \in Histories
    BY DEF Histories
  <2> QED
    BY <2>1
<1>4. PICK N \in Nat : N = Len(L) /\ N = Len(s) /\ DOMAIN L = 1 .. N
  BY <1>1, HistoryCommits
<1>5. Len(M) = N + 1 /\ M[N + 1] = e /\ \A n \in 1 .. N : M[n] = L[n]
  BY <1>3, <1>4 DEF Histories
<1>6. PICK t : t = [n \in DOMAIN M |-> M[n].commits]
  OBVIOUS
<1>7. t = Append(s, c)
  <2>1. DOMAIN M = 1 .. N + 1
    BY <1>5, HistoryCommits
  <2>2. Sequence(t) /\ Len(t) = N + 1
    BY <1>6, <2>1 DEF Sequence
  <2>3. Sequence(s)
    BY SequenceOf
  <2>4. PICK a : a = Append(s, c)
    OBVIOUS
  <2>5. Sequence(a) /\ Len(a) = N + 1 /\ a[N + 1] = c /\ \A n \in 1 .. N : a[n] = s[n]
    BY <1>4, <2>3, <2>4, AppendElement
  <2>6. \A n \in 1 .. N + 1 : n = N + 1 \/ n \in 1 .. N
    OBVIOUS
  <2>7. \A n \in 1 .. N + 1 : t[n] = a[n]
    BY <1>1, <1>2, <1>4, <1>5, <1>6, <2>1, <2>5, <2>6
  <2>8. t = a
    BY <2>2, <2>5, <2>7, SameSequence
  <2> QED
    BY <2>4, <2>8
<1>8. FlattenSeq(t) = FlattenSeq(s) \o c
  BY <1>7, FlattenAppend
<1>9. PICK S \in Seq(Seq(Ops)) : S = FlattenSeq(s)
  BY FlattenPlaces
<1>10. FlattenSeq(S \o c) = FlattenSeq(S) \o FlattenSeq(c)
  BY FlattenConcat
<1> QED
  BY <1>1, <1>2, <1>3, <1>6, <1>8, <1>9, <1>10 DEF PushedIn

-----------------------------------------------------------------------------
(* What an import lists.                                                   *)

\* The M commands among the changes ops, up to the m-th.
Writing(ops, m) == {i \in 1 .. m : ops[i].file # None}

\* What I has of mods, J has of ops at the places that g says, in the same order.
Moves(mods, I, ops, J, g) ==
  /\ J \subseteq 1 .. Len(ops) /\ g \in [I -> J]
  /\ \A i \in I : FileAt(mods, i) = FileAt(ops, g[i])
  /\ \A i, k \in I : i <= k => g[i] <= g[k]
  /\ \A j \in J : \E i \in I : g[i] = j

\* The same list of files, of another sequence.
LEMMA ListsElsewhere ==
  ASSUME NEW files, NEW mods, NEW I, Lists(files, mods, I),
         NEW ops, NEW J, NEW g, Moves(mods, I, ops, J, g)
  PROVE  Lists(files, ops, J)
<1>1. /\ J \subseteq 1 .. Len(ops) /\ g \in [I -> J]
      /\ \A i \in I : FileAt(mods, i) = FileAt(ops, g[i])
      /\ \A i, k \in I : i <= k => g[i] <= g[k]
      /\ \A j \in J : \E i \in I : g[i] = j
  BY DEF Moves
<1>2. PICK w : ListsBy(files, mods, I, w)
  BY DEF Lists
<1>3. PICK N \in Nat : N = Len(files)
  <2>1. Len(files) \in Nat
    BY <1>2 DEF ListsBy
  <2> QED
    BY <2>1
<1>4. /\ w \in [1 .. N -> I] /\ \A k \in 1 .. N : files[k] = FileAt(mods, w[k])
      /\ \A i \in I : \E k \in 1 .. N : w[k] = i
      /\ \A k, l \in 1 .. N : k < l /\ files[k].path = files[l].path => w[k] <= w[l]
  BY <1>2, <1>3 DEF ListsBy
<1>5. PICK v : v = [k \in 1 .. N |-> g[w[k]]]
  OBVIOUS
<1>6. v \in [1 .. N -> J]
  BY <1>1, <1>4, <1>5
<1>7. \A k \in 1 .. N : files[k] = FileAt(ops, v[k])
  BY <1>1, <1>4, <1>5
<1>8. \A j \in J : \E k \in 1 .. N : v[k] = j
  BY <1>1, <1>4, <1>5
<1>9. \A k, l \in 1 .. N : k < l /\ files[k].path = files[l].path => v[k] <= v[l]
  BY <1>1, <1>4, <1>5
<1>10. files \in Seq(FilesOf(ops))
  <2>1. \A k \in 1 .. N : v[k] \in 1 .. Len(ops)
    BY <1>1, <1>6
  <2>2. \A k \in 1 .. N : files[k] \in FilesOf(ops)
    BY <1>7, <2>1 DEF FilesOf
  <2>3. files = [k \in 1 .. N |-> files[k]]
    BY <1>2, <1>3 DEF ListsBy
  <2> QED
    BY <2>2, <2>3
<1>11. ListsBy(files, ops, J, v)
  BY <1>1, <1>3, <1>6, <1>7, <1>8, <1>9, <1>10 DEF ListsBy
<1> QED
  BY <1>11 DEF Lists

\* The files of one push, as some of the changes of all of them.
LEMMA ListsPushed ==
  ASSUME NEW files, NEW mods, NEW ops \in Seq(Ops), NEW w, ModsOf(mods, ops, w),
         Lists(files, mods, 1 .. Len(mods)),
         NEW all \in Seq(Ops), NEW b \in Nat,
         \A q \in 1 .. Len(ops) : b + q \in 1 .. Len(all) /\ all[b + q] = ops[q]
  PROVE  Lists(files, all, {b + q : q \in Writing(ops, Len(ops))})
<1>1. PICK M \in Nat, N \in Nat : M = Len(mods) /\ N = Len(ops)
  BY DEF ModsOf
<1>2. /\ w \in [1 .. M -> 1 .. N]
      /\ \A k \in 1 .. M : mods[k] = ops[w[k]] /\ mods[k] \in Mods
      /\ \A k, l \in 1 .. M : k < l => w[k] < w[l]
      /\ \A i \in 1 .. N : ops[i].file # None => \E k \in 1 .. M : w[k] = i
  BY <1>1 DEF ModsOf
<1>3. PICK J : J = {b + q : q \in Writing(ops, N)}
  OBVIOUS
<1>4. PICK g : g = [k \in 1 .. M |-> b + w[k]]
  OBVIOUS
<1>5. \A k \in 1 .. M : w[k] \in 1 .. N /\ w[k] \in Writing(ops, N)
  <2>1. \A k \in 1 .. M : ops[w[k]].file # None
    BY <1>2, ModType
  <2> QED
    BY <1>2, <2>1 DEF Writing
<1>6. g \in [1 .. M -> J]
  BY <1>3, <1>4, <1>5
<1>7. J \subseteq 1 .. Len(all)
  BY <1>1, <1>3 DEF Writing
<1>8. \A k \in 1 .. M : FileAt(mods, k) = FileAt(all, g[k])
  <2>1. \A k \in 1 .. M : all[g[k]] = mods[k]
    BY <1>1, <1>2, <1>4, <1>5
  <2> QED
    BY <2>1 DEF FileAt
<1>9. ASSUME NEW k \in 1 .. M, NEW l \in 1 .. M, k <= l PROVE g[k] <= g[l]
  <2>1. g[k] = b + w[k] /\ g[l] = b + w[l] /\ w[k] \in Int /\ w[l] \in Int
    BY <1>4, <1>5
  <2>2. w[k] <= w[l]
    <3>1. CASE k = l
      BY <2>1, <3>1
    <3>2. CASE k < l
      BY <1>2, <2>1, <3>2
    <3> QED
      BY <1>9, <3>1, <3>2
  <2> QED
    BY <2>1, <2>2
<1>10. \A j \in J : \E k \in 1 .. M : g[k] = j
  BY <1>2, <1>3, <1>4 DEF Writing
<1>11. Lists(files, all, J)
  <2>1. PICK I : I = 1 .. M
    OBVIOUS
  <2>2. Lists(files, mods, I)
    BY <1>1, <2>1
  <2>3. g \in [I -> J] /\ \A i \in I : FileAt(mods, i) = FileAt(all, g[i])
    BY <1>6, <1>8, <2>1
  <2>4. \A i, k \in I : i <= k => g[i] <= g[k]
    BY <1>9, <2>1
  <2>5. \A j \in J : \E i \in I : g[i] = j
    BY <1>10, <2>1
  <2>6. Moves(mods, I, all, J, g)
    BY <1>7, <2>3, <2>4, <2>5 DEF Moves
  <2> QED
    BY <2>2, <2>6, ListsElsewhere
<1> QED
  BY <1>1, <1>3, <1>11

-----------------------------------------------------------------------------
(* Importing.                                                              *)

\* The first reading that is not done, or 0.
LEMMA FirstFailed ==
  ASSUME NEW reads, Sequence(reads), NEW f, f = SelectInSeq(reads, LAMBDA t : t.status # "done")
  PROVE  /\ f \in 0 .. Len(reads)
         /\ f # 0 => reads[f].status # "done"
         /\ \A j \in 1 .. Len(reads) : f = 0 \/ j < f => reads[j].status = "done"
<1>1. PICK N \in Nat : N = Len(reads)
  BY DEF Sequence
<1>2. PICK T : T = {i \in 1 .. N : reads[i].status # "done"}
  OBVIOUS
<1>3. f = IF T # {} THEN Min(T) ELSE 0
  BY <1>1, <1>2 DEF SelectInSeq
<1>4. CASE T = {}
  BY <1>1, <1>2, <1>3, <1>4
<1>5. CASE T # {}
  <2>1. T \subseteq Nat
    <3>1. \A i \in 1 .. N : i \in Nat
      OBVIOUS
    <3> QED
      BY <1>2, <3>1
  <2>2. PICK c \in T : \A d \in T : c <= d
    BY <1>5, <2>1, LeastNumber, Zenon
  <2>3. f \in T /\ \A d \in T : f <= d
    BY <1>3, <1>5, <2>2 DEF Min
  <2>4. f \in 1 .. N /\ f # 0 /\ reads[f].status # "done"
    BY <1>2, <2>3
  <2>5. ASSUME NEW j \in 1 .. N, j < f PROVE reads[j].status = "done"
    <3>1. ~(f <= j)
      BY <2>4, <2>5
    <3> QED
      BY <1>2, <2>3, <3>1
  <2> QED
    BY <1>1, <2>4, <2>5
<1> QED
  BY <1>4, <1>5

\* An import writes the files of the pushes ops up to some point, all if it is done.
Imports(imp, ops) ==
  /\ imp.status \in Outcomes
  /\ \E ms, m : /\ m \in 0 .. Len(ops) /\ Lists(ms, ops, Writing(ops, m))
                /\ imp.files = Written(ms)[Len(ms)]
                /\ imp.status = "done" => m = Len(ops)

\* The trees of the first pushes list their files.
LEMMA TreesList ==
  ASSUME NEW L \in Histories, NEW ops, ops = PushedIn(L),
         NEW off, Flattened(ops, PushesOf(L), off),
         NEW k \in 0 .. Len(L), NEW s, Sequence(s), Len(s) = k,
         \A n \in 1 .. k : Lists(s[n], Modifies(L[n].commits), 1 .. Len(Modifies(L[n].commits)))
  PROVE  off[k] \in 0 .. Len(ops) /\ Lists(FlattenSeq(s), ops, Writing(ops, off[k]))
<1>1. PICK N \in Nat : N = Len(L)
  BY HistoryCommits
<1>2. ops \in Seq(Ops)
  BY PushedPlaces
<1>3. PICK Z \in Nat : Z = Len(ops)
  BY <1>2
<1>4. PICK t : t = [n \in 1 .. N |-> PushOf(L, n)]
  OBVIOUS
<1>5. \A n \in 1 .. N : t[n] \in Seq(Ops) /\ \E w : ModsOf(Modifies(L[n].commits), t[n], w)
  BY <1>1, <1>4, HistoryCommits, ModifiesFacts DEF PushOf
<1>6. Flattened(ops, t, off) /\ Len(t) = N
  BY <1>1, <1>4 DEF PushesOf
<1>7. /\ off \in [0 .. N -> Nat] /\ off[0] = 0 /\ off[N] = Z
      /\ \A n \in 1 .. N : off[n] = off[n - 1] + Len(t[n])
      /\ \A n \in 1 .. N : \A q \in 1 .. Len(t[n]) :
           off[n - 1] + q \in 1 .. Z /\ ops[off[n - 1] + q] = t[n][q]
      /\ \A z \in 1 .. Z : \E n \in 1 .. N : \E q \in 1 .. Len(t[n]) : z = off[n - 1] + q
  BY <1>3, <1>6 DEF Flattened
<1>8. \A n \in 1 .. N : Len(t[n]) \in Nat /\ off[n - 1] \in Nat /\ off[n] \in Nat
  <2>1. \A n \in 1 .. N : n - 1 \in 0 .. N /\ n \in 0 .. N
    OBVIOUS
  <2> QED
    BY <1>5, <1>7, <2>1, SMTT(60)
<1>9. ASSUME NEW i \in 0 .. N, NEW j \in i .. N PROVE off[i] <= off[j]
  <2>1. ASSUME NEW n \in 1 .. N PROVE off[n - 1] <= off[n]
    <3>1. PICK x \in Nat, l \in Nat : x = off[n - 1] /\ l = Len(t[n])
      BY <1>8
    <3>2. off[n] = x + l
      BY <1>7, <3>1
    <3> QED
      BY <3>1, <3>2
  <2> QED
    BY <1>7, <2>1, SumsGrow
<1>10. k \in 0 .. N /\ off[k] \in Nat /\ off[k] <= Z
  <2>1. k \in 0 .. N /\ N \in k .. N
    BY <1>1
  <2> QED
    BY <1>7, <1>9, <2>1
<1>11. PICK part : part = [n \in 1 .. k |-> {off[n - 1] + q : q \in Writing(t[n], Len(t[n]))}]
  OBVIOUS
<1>12. ASSUME NEW n \in 1 .. k PROVE Lists(s[n], ops, part[n])
  <2>1. n \in 1 .. N
    BY <1>10
  <2>2. PICK w : ModsOf(Modifies(L[n].commits), t[n], w)
    BY <1>5, <2>1
  <2>3. PICK b \in Nat : b = off[n - 1]
    BY <1>8, <2>1
  <2>4. PICK push \in Seq(Ops) : push = t[n]
    BY <1>5, <2>1
  <2>5. \A q \in 1 .. Len(push) : b + q \in 1 .. Len(ops) /\ ops[b + q] = push[q]
    BY <1>3, <1>7, <2>1, <2>3, <2>4
  <2>6. PICK mods : mods = Modifies(L[n].commits)
    OBVIOUS
  <2>7. Lists(s[n], mods, 1 .. Len(mods)) /\ ModsOf(mods, push, w)
    BY <2>2, <2>4, <2>6
  <2>8. Lists(s[n], ops, {b + q : q \in Writing(push, Len(push))})
    BY <1>2, <2>5, <2>7, ListsPushed, ZenonT(60)
  <2> QED
    BY <1>11, <2>3, <2>4, <2>8
<1>13. PICK I : I = Writing(ops, off[k])
  OBVIOUS
<1>14. I \subseteq 1 .. Len(ops)
  BY <1>3, <1>10, <1>13 DEF Writing
<1>15. ASSUME NEW n \in 1 .. k, NEW z \in part[n]
       PROVE  z \in I /\ z \in Nat /\ off[n - 1] < z /\ z <= off[n]
  <2>1. n \in 1 .. N /\ n \in 0 .. N /\ k \in n .. N
    BY <1>10
  <2>2. PICK q \in 1 .. Len(t[n]) : z = off[n - 1] + q /\ t[n][q].file # None
    BY <1>11 DEF Writing
  <2>3. z \in 1 .. Z /\ ops[z].file # None
    BY <1>7, <2>1, <2>2
  <2>4. off[n - 1] < z /\ z <= off[n]
    <3>1. PICK x \in Nat, l \in Nat : x = off[n - 1] /\ l = Len(t[n])
      BY <1>8, <2>1
    <3>2. off[n] = x + l /\ z = x + q /\ q \in 1 .. l
      BY <1>7, <2>1, <2>2, <3>1
    <3> QED
      BY <3>1, <3>2, SMTT(60)
  <2>5. off[n] <= off[k]
    BY <1>9, <2>1
  <2>6. z \in 1 .. off[k]
    BY <1>8, <1>10, <2>1, <2>3, <2>4, <2>5, SMTT(60)
  <2> QED
    BY <1>13, <2>3, <2>4, <2>6 DEF Writing
<1>16. ASSUME NEW z \in I PROVE \E n \in 1 .. k : z \in part[n]
  <2>1. z \in 1 .. off[k] /\ z \in 1 .. Z /\ ops[z].file # None
    BY <1>10, <1>13 DEF Writing
  <2>2. PICK n \in 1 .. N : \E q \in 1 .. Len(t[n]) : z = off[n - 1] + q
    BY <1>7, <2>1
  <2>3. PICK q \in 1 .. Len(t[n]) : z = off[n - 1] + q
    BY <2>2
  <2>4. t[n][q].file # None
    BY <1>7, <2>1, <2>3
  <2>5. n \in 1 .. k
    <3>1. SUFFICES ASSUME k < n PROVE FALSE
      BY <1>10
    <3>2. k \in 0 .. N /\ n - 1 \in k .. N
      BY <1>10, <3>1
    <3>3. off[k] <= off[n - 1]
      BY <1>9, <3>2
    <3>4. PICK x \in Nat, l \in Nat : x = off[n - 1] /\ l = Len(t[n])
      BY <1>8
    <3>5. z = x + q /\ q \in 1 .. l /\ off[k] <= x /\ z <= off[k]
      BY <1>10, <2>1, <2>3, <3>3, <3>4
    <3> QED
      BY <1>10, <3>4, <3>5
  <2> QED
    BY <1>11, <2>3, <2>4, <2>5 DEF Writing
<1>17. ASSUME NEW a \in 1 .. k, NEW b \in 1 .. k, a < b, NEW i \in part[a], NEW j \in part[b]
       PROVE  i <= j
  <2>1. i \in Nat /\ i <= off[a] /\ j \in Nat /\ off[b - 1] < j
    BY <1>15
  <2>2. a \in 0 .. N /\ b - 1 \in a .. N /\ a \in 1 .. N /\ b \in 1 .. N
    BY <1>10, <1>17
  <2>3. off[a] <= off[b - 1]
    BY <1>9, <2>2
  <2> QED
    BY <1>8, <2>1, <2>2, <2>3, SMTT(60)
<1>18. Lists(FlattenSeq(s), ops, I)
  <2>1. \A c \in 1 .. Len(s) : Lists(s[c], ops, part[c]) /\ part[c] \subseteq I
    BY <1>12, <1>15
  <2>2. \A i \in I : \E c \in 1 .. Len(s) : i \in part[c]
    BY <1>16
  <2>3. \A a, b \in 1 .. Len(s) : a < b => \A i \in part[a], j \in part[b] :
          ops[i].path = ops[j].path => i <= j
    BY <1>17
  <2>4. Len(ops) \in Nat
    BY <1>3
  <2> QED
    BY <1>14, <2>1, <2>2, <2>3, <2>4, ListsTogether
<1> QED
  BY <1>3, <1>10, <1>13, <1>18

\* What an import makes of the trees of all anchors.
LEMMA ImportTreesFacts ==
  ASSUME NEW L \in Histories, NEW trees, Sequence(trees), Len(trees) = Len(L), NEW enough,
         \A n \in 1 .. Len(L) :
           Gives(trees[n], Modifies(L[n].commits), 1 .. Len(Modifies(L[n].commits)), enough[n])
  PROVE  /\ Imports(ImportTrees(trees), PushedIn(L))
         /\ (\A n \in 1 .. Len(L) : AllFree(Modifies(L[n].commits)) /\ enough[n])
              => ImportTrees(trees).status = "done"
<1>1. PICK N \in Nat : N = Len(L)
  BY HistoryCommits
<1>2. PICK ops : ops = PushedIn(L)
  OBVIOUS
<1>3. PICK off : Flattened(ops, PushesOf(L), off)
  BY <1>2, PushedPlaces
<1>4. PICK f : f = SelectInSeq(trees, LAMBDA t : t.status # "done")
  OBVIOUS
<1>5. /\ f \in 0 .. N /\ (f # 0 => trees[f].status # "done")
      /\ \A j \in 1 .. N : f = 0 \/ j < f => trees[j].status = "done"
  BY <1>1, <1>4, FirstFailed
<1>6. PICK k : k = IF f = 0 THEN N ELSE f - 1
  OBVIOUS
<1>7. k \in 0 .. N /\ \A j \in 1 .. k : j \in 1 .. N /\ trees[j].status = "done"
  BY <1>5, <1>6
<1>8. PICK s : s = [n \in 1 .. k |-> trees[n].files]
  OBVIOUS
<1>9. PICK imp : imp = ImportTrees(trees)
  OBVIOUS
<1>10. PICK ms : ms = FlattenSeq(s)
  OBVIOUS
<1>11. imp = Read(IF f = 0 THEN "done" ELSE trees[f].status, Written(ms)[Len(ms)])
  BY <1>1, <1>4, <1>6, <1>8, <1>9, <1>10 DEF ImportTrees
<1>12. imp.status = (IF f = 0 THEN "done" ELSE trees[f].status) /\ imp.files = Written(ms)[Len(ms)]
  BY <1>11 DEF Read
<1>13. off[k] \in 0 .. Len(ops) /\ Lists(ms, ops, Writing(ops, off[k]))
  <2>1. Sequence(s) /\ Len(s) = k
    BY <1>7, <1>8 DEF Sequence
  <2>2. \A n \in 1 .. k :
          Lists(s[n], Modifies(L[n].commits), 1 .. Len(Modifies(L[n].commits)))
    BY <1>1, <1>7, <1>8 DEF Gives
  <2>3. k \in 0 .. Len(L)
    BY <1>1, <1>7
  <2> QED
    BY <1>2, <1>3, <1>10, <2>1, <2>2, <2>3, TreesList
<1>14. imp.status = "done" => off[k] = Len(ops)
  <2>1. imp.status = "done" => k = N
    BY <1>5, <1>6, <1>12
  <2>2. off[N] = Len(ops)
    <3>1. Len(PushesOf(L)) = N
      BY <1>1 DEF PushesOf
    <3> QED
      BY <1>3, <3>1 DEF Flattened
  <2> QED
    BY <2>1, <2>2
<1>15. imp.status \in Outcomes
  <2>1. f # 0 => trees[f].status \in Outcomes
    BY <1>1, <1>5 DEF Gives
  <2> QED
    BY <1>12, <2>1 DEF Outcomes
<1>16. Imports(imp, ops)
  BY <1>12, <1>13, <1>14, <1>15 DEF Imports
<1>17. ASSUME \A n \in 1 .. N : AllFree(Modifies(L[n].commits)) /\ enough[n]
       PROVE  imp.status = "done"
  <2>1. \A n \in 1 .. N : trees[n].status = "done"
    BY <1>1, <1>17 DEF Gives
  <2>2. f = 0
    <3>1. f # 0 => f \in 1 .. N
      BY <1>5
    <3> QED
      BY <1>5, <2>1, <3>1
  <2> QED
    BY <1>12, <2>2
<1> QED
  BY <1>1, <1>2, <1>9, <1>16, <1>17

-----------------------------------------------------------------------------
(* The invariant.                                                          *)

\* The tip that the n-th push brought, and what it published.
NoFiles == [p \in Paths |-> None]
TipOf(L, n) == IF n = 0 THEN NoFiles ELSE L[n].tip
BatchOf(L, n) == Batch(n, Modifies(L[n].commits))

\* The pushes L published the batches B; the changes of each of them, of all
\* of them and of the commits c that follow bring the files that they should.
Grown(L, B, c, t) ==
  /\ L \in Histories /\ c \in Commits /\ t \in Trees
  /\ B = [n \in 1 .. Len(L) |-> BatchOf(L, n)]
  /\ \A n \in 1 .. Len(L) : Brings(PushOf(L, n), TipOf(L, n - 1), L[n].tip)
  /\ Brings(PushedIn(L), NoFiles, TipOf(L, Len(L)))
  /\ Brings(FlattenSeq(c), TipOf(L, Len(L)), t)

\* Everything pushed can be read without a key.
Readable(L, how) ==
  \A n \in 1 .. Len(L) : /\ AllFree(Modifies(L[n].commits))
                         /\ how = "own" \/ AllInRoot(Modifies(L[n].commits))

\* What is known of an import g of the pushes L.
Gotten(g, L) ==
  g # None => /\ Len(L) > 0 /\ Imports(g.import, PushedIn(L))
              /\ Readable(L, g.how) => g.import.status = "done"

\* The inductive invariant.
IInv ==
  /\ Grown(log, batches, pending, work)
  /\ result \in {"none", "ok", "error"}
  /\ Gotten(got, log)

\* Nothing is committed and nothing pushed.
LEMMA GrownInit == Grown(<<>>, <<>>, <<>>, NoFiles)
<1>1. NoFiles \in Trees
  BY DEF NoFiles, Trees
<1>2. <<>> \in Histories /\ <<>> \in Commits
  BY DEF Histories, Commits
<1>3. FlattenSeq(<<>>) = <<>>
  BY DEF FlattenSeq
<1>4. PushedIn(<<>>) = <<>>
  <2>1. [n \in DOMAIN <<>> |-> <<>>[n].commits] = <<>>
    OBVIOUS
  <2> QED
    BY <1>3, <2>1 DEF PushedIn
<1>5. Len(<<>>) = 0 /\ 1 .. 0 = {}
  OBVIOUS
<1>6. TipOf(<<>>, 0) = NoFiles
  BY DEF TipOf
<1>7. <<>> = [n \in 1 .. 0 |-> BatchOf(<<>>, n)]
  OBVIOUS
<1>8. Brings(<<>>, NoFiles, NoFiles)
  BY BringsNothing
<1> QED
  BY <1>1, <1>2, <1>3, <1>4, <1>5, <1>6, <1>7, <1>8 DEF Grown

\* A commit is added.
LEMMA GrownCommit ==
  ASSUME NEW L, NEW B, NEW c, NEW t, Grown(L, B, c, t), NEW new \in Trees
  PROVE  Grown(L, B, Append(c, OpsOf(t, new)), new)
<1>1. c \in Seq(Seq(Ops)) /\ t \in Trees
  BY DEF Grown, Commits
<1>2. PICK ops \in Seq(Ops) : ops = OpsOf(t, new) /\ Brings(ops, t, new)
  BY <1>1, OpsOfBrings
<1>3. Append(c, ops) \in Commits
  BY <1>1, <1>2 DEF Commits
<1>4. FlattenSeq(Append(c, ops)) = FlattenSeq(c) \o ops
  BY <1>1, FlattenAppend
<1>5. PICK all \in Seq(Ops) : all = FlattenSeq(c)
  BY <1>1, FlattenPlaces
<1>6. PICK old : old = TipOf(L, Len(L))
  OBVIOUS
<1>7. Brings(all, old, t)
  BY <1>5, <1>6 DEF Grown
<1>8. Brings(all \o ops, old, new)
  BY <1>2, <1>7, BringsOn
<1> QED
  BY <1>2, <1>3, <1>4, <1>5, <1>6, <1>8 DEF Grown

\* The commits are pushed.
LEMMA GrownPush ==
  ASSUME NEW L, NEW B, NEW c, NEW t, Grown(L, B, c, t)
  PROVE  Grown(Append(L, [commits |-> c, tip |-> t]), Append(B, Batch(Len(B) + 1, Modifies(c))),
               <<>>, t)
<1>1. L \in Histories /\ c \in Commits /\ t \in Trees /\ c \in Seq(Seq(Ops))
  BY DEF Grown, Commits
<1>2. PICK e \in [commits : Commits, tip : Trees] : e = [commits |-> c, tip |-> t]
  BY <1>1
<1>3. PICK M \in Histories : M = Append(L, e)
  <2>1. Append(L, e) \in Histories
    BY <1>1 DEF Histories
  <2> QED
    BY <2>1
<1>4. PICK N \in Nat : N = Len(L)
  BY <1>1, HistoryCommits
<1>5. PICK m \in Nat : m = N + 1 /\ m # 0
  OBVIOUS
<1>6. Len(M) = m /\ M[m] = e /\ \A n \in 1 .. N : M[n] = L[n]
  BY <1>1, <1>3, <1>4, <1>5 DEF Histories
<1>7. \A n \in 1 .. m : n = m \/ n \in 1 .. N
  BY <1>5
<1>8. PICK ops \in Seq(Ops) : ops = FlattenSeq(c)
  BY <1>1, FlattenPlaces
<1>9. Append(B, Batch(Len(B) + 1, Modifies(c))) = [n \in 1 .. m |-> BatchOf(M, n)]
  <2>1. B = [n \in 1 .. N |-> BatchOf(L, n)]
    BY <1>4 DEF Grown
  <2>2. Sequence(B) /\ Len(B) = N
    BY <2>1 DEF Sequence
  <2>3. PICK b : b = Batch(m, Modifies(c))
    OBVIOUS
  <2>4. PICK A : A = Append(B, b)
    OBVIOUS
  <2>5. Sequence(A) /\ Len(A) = m /\ A[m] = b /\ \A n \in 1 .. N : A[n] = B[n]
    BY <1>5, <2>2, <2>4, AppendElement
  <2>6. PICK Z : Z = [n \in 1 .. m |-> BatchOf(M, n)]
    OBVIOUS
  <2>7. Sequence(Z) /\ Len(Z) = m
    BY <2>6 DEF Sequence
  <2>8. BatchOf(M, m) = b
    BY <1>2, <1>6, <2>3 DEF BatchOf
  <2>9. \A n \in 1 .. N : BatchOf(M, n) = BatchOf(L, n)
    BY <1>6 DEF BatchOf
  <2>10. \A n \in 1 .. m : A[n] = Z[n]
    BY <1>7, <2>1, <2>5, <2>6, <2>8, <2>9
  <2>11. A = Z
    BY <2>5, <2>7, <2>10, SameSequence
  <2> QED
    BY <1>5, <2>2, <2>3, <2>4, <2>6, <2>11
<1>10. TipOf(M, m) = t
  BY <1>2, <1>5, <1>6 DEF TipOf
<1>11. \A n \in 0 .. N : TipOf(M, n) = TipOf(L, n)
  <2>1. \A n \in 0 .. N : n = 0 \/ n \in 1 .. N
    OBVIOUS
  <2> QED
    BY <1>6, <2>1 DEF TipOf
<1>12. PICK old : old = TipOf(L, N)
  OBVIOUS
<1>13. Brings(ops, old, t)
  BY <1>4, <1>8, <1>12 DEF Grown
<1>14. ASSUME NEW n \in 1 .. m PROVE Brings(PushOf(M, n), TipOf(M, n - 1), M[n].tip)
  <2>1. CASE n = m
    <3>1. PushOf(M, n) = ops /\ M[n].tip = t
      BY <1>2, <1>6, <1>8, <2>1 DEF PushOf
    <3>2. n - 1 = N /\ N \in 0 .. N
      BY <1>5, <2>1
    <3>3. TipOf(M, n - 1) = old
      BY <1>11, <1>12, <3>2
    <3> QED
      BY <1>13, <3>1, <3>3
  <2>2. CASE n \in 1 .. N
    <3>1. n - 1 \in 0 .. N
      BY <2>2
    <3>2. PushOf(M, n) = PushOf(L, n) /\ M[n] = L[n] /\ TipOf(M, n - 1) = TipOf(L, n - 1)
      BY <1>6, <1>11, <2>2, <3>1 DEF PushOf
    <3>3. Brings(PushOf(L, n), TipOf(L, n - 1), L[n].tip)
      BY <1>4, <2>2 DEF Grown
    <3> QED
      BY <3>2, <3>3
  <2> QED
    BY <1>7, <2>1, <2>2
<1>15. Brings(PushedIn(M), NoFiles, t)
  <2>1. PICK all \in Seq(Ops) : all = PushedIn(L)
    BY <1>1, PushedPlaces
  <2>2. PushedIn(M) = all \o ops
    BY <1>1, <1>2, <1>3, <1>8, <2>1, PushedAppend
  <2>3. Brings(all, NoFiles, old)
    BY <1>4, <1>12, <2>1 DEF Grown
  <2>4. Brings(all \o ops, NoFiles, t)
    BY <1>13, <2>3, BringsOn
  <2> QED
    BY <2>2, <2>4
<1>16. Brings(FlattenSeq(<<>>), t, t)
  <2>1. FlattenSeq(<<>>) = <<>>
    BY DEF FlattenSeq
  <2> QED
    BY <2>1, BringsNothing
<1>17. <<>> \in Commits
  BY DEF Commits
<1> QED
  BY <1>1, <1>2, <1>3, <1>6, <1>9, <1>10, <1>14, <1>15, <1>16, <1>17 DEF Grown

\* An import gets what Gotten says.
LEMMA ImportGets ==
  ASSUME Grown(log, batches, pending, work), NEW how \in Readers, NEW privKey
  PROVE  /\ Imports(ImportRef(how, privKey), PushedIn(log))
         /\ Readable(log, how) => ImportRef(how, privKey).status = "done"
<1>1. log \in Histories /\ batches = [n \in 1 .. Len(log) |-> BatchOf(log, n)]
  BY DEF Grown
<1>2. PICK N \in Nat : N = Len(log)
  BY <1>1, HistoryCommits
<1>3. PICK trees : trees = [n \in 1 .. N |-> AnchorTree(how, privKey, batches[n])]
  OBVIOUS
<1>4. ImportRef(how, privKey) = ImportTrees(trees)
  BY <1>1, <1>2, <1>3 DEF ImportRef
<1>5. Sequence(trees) /\ Len(trees) = N
  BY <1>3 DEF Sequence
<1>6. PICK enough : enough = [n \in 1 .. N |-> (how = "own" \/ AllInRoot(Modifies(log[n].commits)))]
  OBVIOUS
<1>7. \A n \in 1 .. N : enough[n] <=> how = "own" \/ AllInRoot(Modifies(log[n].commits))
  <2>1. DOMAIN enough = 1 .. N
    BY <1>6
  <2> QED
    BY <1>6, <2>1, Zenon
<1>8. ASSUME NEW n \in 1 .. N
      PROVE  Gives(trees[n], Modifies(log[n].commits), 1 .. Len(Modifies(log[n].commits)),
                   enough[n])
  <2>1. PICK mods \in Seq(Mods) : mods = Modifies(log[n].commits)
    BY <1>1, <1>2, HistoryCommits, ModifiesFacts DEF ModsOf
  <2>2. batches[n] = Batch(n, mods) /\ n \in Nat
    BY <1>1, <1>2, <2>1 DEF BatchOf
  <2>3. Gives(AnchorTree(how, privKey, batches[n]), mods, 1 .. Len(mods),
              how = "own" \/ AllInRoot(mods))
    BY <2>2, TreeFacts
  <2> QED
    BY <1>3, <1>7, <2>1, <2>3 DEF Gives
<1>9. /\ Imports(ImportTrees(trees), PushedIn(log))
      /\ (\A n \in 1 .. N : AllFree(Modifies(log[n].commits)) /\ enough[n])
           => ImportTrees(trees).status = "done"
  BY <1>1, <1>2, <1>5, <1>8, ImportTreesFacts
<1>10. Readable(log, how) => \A n \in 1 .. N : AllFree(Modifies(log[n].commits)) /\ enough[n]
  BY <1>2, <1>7 DEF Readable
<1> QED
  BY <1>4, <1>9, <1>10

\* IInv holds of every state of the behaviours.
THEOREM Invariance == Spec => []IInv
<1>1. Init => IInv
  BY GrownInit DEF Init, IInv, Gotten, NoFiles
<1>2. IInv /\ [Next]_vars => IInv'
  <2>1. SUFFICES ASSUME IInv, [Next]_vars PROVE IInv'
    OBVIOUS
  <2>2. Grown(log, batches, pending, work) /\ result \in {"none", "ok", "error"} /\ Gotten(got, log)
    BY <2>1 DEF IInv
  <2>3. ASSUME NEW new \in Trees, Commit(new) PROVE IInv'
    <3>1. /\ pending' = Append(pending, OpsOf(work, new)) /\ work' = new /\ got' = None
          /\ batches' = batches /\ log' = log /\ result' = result
      BY <2>3 DEF Commit
    <3>2. Grown(log, batches, Append(pending, OpsOf(work, new)), new)
      BY <2>2, GrownCommit
    <3> QED
      BY <2>2, <3>1, <3>2 DEF IInv, Gotten
  <2>4. CASE Push
    <3>1. /\ batches' = Append(batches, Batch(Len(batches) + 1, Modifies(pending)))
          /\ log' = Append(log, [commits |-> pending, tip |-> work])
          /\ pending' = <<>> /\ result' = "ok" /\ got' = None /\ work' = work
      BY <2>4 DEF Push
    <3>2. Grown(Append(log, [commits |-> pending, tip |-> work]),
                Append(batches, Batch(Len(batches) + 1, Modifies(pending))), <<>>, work)
      BY <2>2, GrownPush
    <3> QED
      BY <3>1, <3>2 DEF IInv, Gotten
  <2>5. CASE PushRefused
    <3>1. /\ work' = work /\ pending' = pending /\ batches' = batches /\ log' = log /\ got' = got
          /\ result' = "error"
      BY <2>5 DEF PushRefused
    <3> QED
      BY <2>2, <3>1 DEF IInv
  <2>6. ASSUME NEW how \in Readers, NEW privKey \in {None, VaultKey}, Import(how, privKey)
        PROVE  IInv'
    <3>1. PICK imp : imp = ImportRef(how, privKey)
      OBVIOUS
    <3>2. /\ got' = [how |-> how, privKey |-> privKey, import |-> imp] /\ batches # <<>>
          /\ work' = work /\ pending' = pending /\ batches' = batches /\ log' = log
          /\ result' = result
      BY <2>6, <3>1 DEF Import
    <3>3. got'.how = how /\ got'.import = imp
      BY <3>2
    <3>4. Imports(imp, PushedIn(log)) /\ (Readable(log, how) => imp.status = "done")
      BY <2>2, <3>1, ImportGets
    <3>5. Len(log) > 0
      <4>1. log \in Histories /\ batches = [n \in 1 .. Len(log) |-> BatchOf(log, n)]
        BY <2>2 DEF Grown
      <4>2. Len(log) \in Nat
        BY <4>1, HistoryCommits
      <4>3. Len(log) # 0
        <5>1. SUFFICES ASSUME Len(log) = 0 PROVE FALSE
          OBVIOUS
        <5>2. batches = [n \in 1 .. 0 |-> BatchOf(log, n)]
          BY <4>1, <5>1
        <5> QED
          BY <3>2, <5>2
      <4> QED
        BY <4>2, <4>3
    <3>6. Gotten(got', log)
      BY <3>3, <3>4, <3>5 DEF Gotten
    <3> QED
      BY <2>2, <3>2, <3>6 DEF IInv
  <2>7. CASE UNCHANGED vars
    BY <2>2, <2>7 DEF IInv, vars
  <2> QED
    BY <2>1, <2>3, <2>4, <2>5, <2>6, <2>7 DEF Next
<1> QED
  BY <1>1, <1>2, PTL DEF Spec

-----------------------------------------------------------------------------
(* What the invariant says of the clones.                                  *)

\* The greatest of some numbers.
LEMMA GreatestNumber ==
  ASSUME NEW N \in Nat, NEW T, T \subseteq 1 .. N, T # {}
  PROVE  \E c \in T : \A d \in T : d <= c
<1>1. PICK U : U = {N - d : d \in T}
  OBVIOUS
<1>2. \A d \in T : d \in 1 .. N /\ N - d \in Nat
  OBVIOUS
<1>3. U \subseteq Nat /\ U # {}
  <2>1. \A u \in U : u \in Nat
    BY <1>1, <1>2
  <2> QED
    BY <1>1, <2>1
<1>4. PICK u \in U : \A v \in U : u <= v
  BY <1>3, LeastNumber, Zenon
<1>5. PICK c \in T : u = N - c
  BY <1>1
<1>6. ASSUME NEW d \in T PROVE d <= c
  <2>1. N - c <= N - d
    BY <1>1, <1>4, <1>5
  <2> QED
    BY <1>2, <2>1
<1> QED
  BY <1>6

\* The list of files and the files of an import.
LEMMA ImportList ==
  ASSUME NEW imp, NEW ops \in Seq(Ops), Imports(imp, ops)
  PROVE  \E ms, m, w : /\ m \in 0 .. Len(ops) /\ ListsBy(ms, ops, Writing(ops, m), w)
                       /\ Len(ms) \in Nat /\ Holds(imp.files, ms, Len(ms))
                       /\ imp.status = "done" => m = Len(ops)
<1>1. PICK ms, m : /\ m \in 0 .. Len(ops) /\ Lists(ms, ops, Writing(ops, m))
                   /\ imp.files = Written(ms)[Len(ms)]
                   /\ imp.status = "done" => m = Len(ops)
  BY DEF Imports
<1>2. PICK w : ListsBy(ms, ops, Writing(ops, m), w)
  BY <1>1 DEF Lists
<1>3. Len(ms) \in Nat
  BY <1>2 DEF ListsBy
<1>4. Holds(imp.files, ms, Len(ms))
  BY <1>1, <1>3, WrittenFacts
<1> QED
  BY <1>1, <1>2, <1>3, <1>4

\* Every file of an import is one that was pushed.
LEMMA ImportInvents ==
  ASSUME NEW imp, NEW ops \in Seq(Ops), Imports(imp, ops), NEW p \in DOMAIN imp.files
  PROVE  \E i \in 1 .. Len(ops) :
           ops[i].path = p /\ ops[i].file # None /\ ops[i].file.data = imp.files[p].data
<1>1. PICK ms, m, w : /\ m \in 0 .. Len(ops) /\ ListsBy(ms, ops, Writing(ops, m), w)
                      /\ Holds(imp.files, ms, Len(ms))
  BY ImportList
<1>2. PICK k \in 1 .. Len(ms) : ms[k].path = p /\ imp.files[p].data = ms[k].data
  BY <1>1 DEF Holds
<1>3. w[k] \in Writing(ops, m) /\ ms[k] = FileAt(ops, w[k])
  BY <1>1 DEF ListsBy
<1>4. w[k] \in 1 .. Len(ops) /\ ops[w[k]].file # None
  BY <1>1, <1>3 DEF Writing
<1> QED
  BY <1>2, <1>3, <1>4 DEF FileAt

\* A file of the tip comes with an import that is done, if nothing is in its way.
LEMMA ImportBrings ==
  ASSUME NEW imp, NEW ops \in Seq(Ops), Imports(imp, ops), imp.status = "done",
         NEW tip, Brings(ops, NoFiles, tip), NEW p \in Paths, tip[p] # None,
         \A i \in 1 .. Len(ops) :
           \/ ops[i].file = None
           \/ ~IsStrictPrefix(p, ops[i].path) /\ ~IsStrictPrefix(ops[i].path, p)
  PROVE  p \in DOMAIN imp.files /\ imp.files[p].data = tip[p].data
<1>1. PICK ms, w : /\ ListsBy(ms, ops, Writing(ops, Len(ops)), w)
                   /\ Len(ms) \in Nat /\ Holds(imp.files, ms, Len(ms))
  BY ImportList
<1>2. PICK N \in Nat, Z \in Nat : N = Len(ms) /\ Z = Len(ops)
  BY <1>1
<1>3. /\ w \in [1 .. N -> Writing(ops, Z)]
      /\ \A k \in 1 .. N : ms[k] = FileAt(ops, w[k])
      /\ \A i \in Writing(ops, Z) : \E k \in 1 .. N : w[k] = i
      /\ \A k, l \in 1 .. N : k < l /\ ms[k].path = ms[l].path => w[k] <= w[l]
  BY <1>1, <1>2 DEF ListsBy
<1>4. PICK i \in 1 .. Z : LastAt(ops, i, p) /\ ops[i].file = tip[p]
  BY <1>2 DEF Brings, NoFiles
<1>5. i \in Writing(ops, Z)
  BY <1>4 DEF Writing
<1>6. PICK k \in 1 .. N : w[k] = i
  BY <1>3, <1>5
<1>7. \A l \in 1 .. N : /\ w[l] \in 1 .. Z /\ ops[w[l]].file # None
                        /\ ms[l].path = ops[w[l]].path
  <2>1. TAKE l \in 1 .. N
  <2>2. w[l] \in Writing(ops, Z) /\ ms[l] = FileAt(ops, w[l])
    BY <1>3
  <2>3. w[l] \in 1 .. Z /\ ops[w[l]].file # None
    BY <2>2 DEF Writing
  <2>4. ms[l].path = ops[w[l]].path
    BY <2>2 DEF FileAt
  <2> QED
    BY <2>3, <2>4
<1>8. ms[k].path = p
  BY <1>4, <1>6, <1>7 DEF LastAt
<1>9. PICK T : T = {l \in 1 .. N : ms[l].path = p}
  OBVIOUS
<1>10. PICK K \in T : \A l \in T : l <= K
  <2>1. T \subseteq 1 .. N /\ T # {}
    BY <1>8, <1>9
  <2> QED
    BY <2>1, GreatestNumber
<1>11. K \in 1 .. N /\ ms[K].path = p /\ k <= K
  BY <1>8, <1>9, <1>10
<1>12. w[K] = i
  <2>1. i <= w[K]
    <3>1. CASE k = K
      BY <1>6, <3>1
    <3>2. CASE k < K
      BY <1>3, <1>6, <1>8, <1>11, <3>2
    <3> QED
      BY <1>11, <3>1, <3>2
  <2>2. w[K] \in 1 .. Z /\ ops[w[K]].path = p
    BY <1>7, <1>11
  <2>3. w[K] \notin i + 1 .. Z
    BY <1>2, <1>4, <2>2 DEF LastAt
  <2> QED
    BY <2>1, <2>2, <2>3
<1>13. IsPrefix(p, p)
  <2>1. Len(p) \in Nat
    BY PathType
  <2> QED
    BY <2>1 DEF IsPrefix
<1>14. ASSUME NEW j \in K + 1 .. N PROVE ~IsPrefix(p, ms[j].path) /\ ~IsPrefix(ms[j].path, p)
  <2>1. j \in 1 .. N /\ ~(j <= K)
    BY <1>11
  <2>2. ms[j].path # p
    BY <1>9, <1>10, <2>1
  <2>3. ~IsStrictPrefix(p, ms[j].path) /\ ~IsStrictPrefix(ms[j].path, p)
    BY <1>2, <1>7, <2>1
  <2> QED
    BY <2>2, <2>3 DEF IsStrictPrefix
<1>15. Stands(ms, N, K)
  BY <1>11, <1>14 DEF Stands
<1>16. p \in DOMAIN imp.files
  BY <1>1, <1>2, <1>11, <1>15 DEF Holds
<1>17. PICK j \in 1 .. N : Stands(ms, N, j) /\ ms[j].path = p /\ imp.files[p].data = ms[j].data
  BY <1>1, <1>2, <1>16 DEF Holds
<1>18. j = K
  <2>1. j <= K
    BY <1>9, <1>10, <1>17
  <2>2. ~(j < K)
    <3>1. SUFFICES ASSUME j < K PROVE FALSE
      OBVIOUS
    <3>2. K \in j + 1 .. N
      BY <1>11, <3>1
    <3> QED
      BY <1>11, <1>13, <1>17, <3>2 DEF Stands
  <2> QED
    BY <1>11, <2>1, <2>2
<1>19. ms[K].data = tip[p].data
  <2>1. ms[K] = FileAt(ops, i)
    BY <1>3, <1>11, <1>12
  <2> QED
    BY <1>4, <2>1 DEF FileAt
<1> QED
  BY <1>16, <1>17, <1>18, <1>19

\* Without deletions it brings no other files, and all of these.
LEMMA ImportIsTip ==
  ASSUME NEW imp, NEW ops \in Seq(Ops), Imports(imp, ops), imp.status = "done",
         NEW tip \in Trees, Brings(ops, NoFiles, tip),
         \A i \in 1 .. Len(ops) : ops[i].file # None
  PROVE  DOMAIN imp.files = {p \in Paths : tip[p] # None}
<1>1. \A i \in 1 .. Len(ops) : ops[i].path \in Paths
  <2>1. \A i \in 1 .. Len(ops) : ops[i] \in Ops
    OBVIOUS
  <2> QED
    BY <2>1 DEF Ops
<1>2. ASSUME NEW i \in 1 .. Len(ops) PROVE tip[ops[i].path] # None
  BY <1>1 DEF Brings
<1>3. ASSUME NEW p \in DOMAIN imp.files PROVE p \in Paths /\ tip[p] # None
  <2>1. PICK i \in 1 .. Len(ops) : ops[i].path = p
    BY ImportInvents
  <2> QED
    BY <1>1, <1>2, <2>1
<1>4. ASSUME NEW p \in Paths, tip[p] # None PROVE p \in DOMAIN imp.files
  <2>1. ASSUME NEW i \in 1 .. Len(ops)
        PROVE  ~IsStrictPrefix(p, ops[i].path) /\ ~IsStrictPrefix(ops[i].path, p)
    <3>1. ops[i].path \in Paths /\ tip[ops[i].path] # None
      BY <1>1, <1>2
    <3> QED
      BY <1>4, <3>1 DEF Trees
  <2> QED
    BY <1>4, <2>1, ImportBrings
<1> QED
  BY <1>3, <1>4

\* What the properties call Pushed.
LEMMA PushedFacts ==
  ASSUME IInv
  PROVE  /\ Pushed = PushedIn(log) /\ Pushed \in Seq(Ops) /\ DOMAIN Pushed = 1 .. Len(Pushed)
         /\ log \in Histories /\ Len(log) \in Nat /\ DOMAIN log = 1 .. Len(log)
         /\ Brings(Pushed, NoFiles, TipOf(log, Len(log)))
<1>1. log \in Histories /\ Brings(PushedIn(log), NoFiles, TipOf(log, Len(log)))
  BY DEF IInv, Grown
<1>2. Pushed = PushedIn(log)
  BY DEF Pushed, PushedIn
<1>3. PushedIn(log) \in Seq(Ops)
  BY <1>1, PushedPlaces
<1>4. PICK s \in Seq(Ops) : s = Pushed
  BY <1>2, <1>3
<1>5. DOMAIN s = 1 .. Len(s)
  OBVIOUS
<1> QED
  BY <1>1, <1>2, <1>4, <1>5, HistoryCommits

\* Nothing comes to a clone that was not pushed, after failures too.
THEOREM ContentNothingInvented == Spec => []NothingInvented
<1>1. IInv => NothingInvented
  <2>1. SUFFICES ASSUME IInv, got # None, NEW p \in DOMAIN Clone
                 PROVE  \E i \in DOMAIN Pushed :
                          /\ Pushed[i].path = p /\ Pushed[i].file # None
                          /\ Pushed[i].file.data = Clone[p].data
    BY DEF NothingInvented
  <2>2. Pushed \in Seq(Ops) /\ DOMAIN Pushed = 1 .. Len(Pushed) /\ Pushed = PushedIn(log)
    BY <2>1, PushedFacts
  <2>3. Imports(got.import, Pushed)
    BY <2>1, <2>2 DEF IInv, Gotten
  <2>4. PICK imp : imp = got.import
    OBVIOUS
  <2>5. PICK ops \in Seq(Ops) : ops = Pushed
    BY <2>2
  <2>6. Imports(imp, ops) /\ p \in DOMAIN imp.files
    BY <2>1, <2>3, <2>4, <2>5 DEF Clone
  <2>7. \E i \in 1 .. Len(ops) :
          ops[i].path = p /\ ops[i].file # None /\ ops[i].file.data = imp.files[p].data
    BY <2>6, ImportInvents
  <2> QED
    BY <2>2, <2>4, <2>7, <2>5 DEF Clone
<1> QED
  BY <1>1, Invariance, PTL

\* A clone has the branch's files, with their content.
THEOREM ContentCloneIsTip == Spec => []CloneIsTip
<1>1. IInv => CloneIsTip
  <2>1. SUFFICES ASSUME IInv, Imported PROVE CloneIsTip
    BY DEF CloneIsTip
  <2>2. got # None /\ got.import.status = "done"
    BY <2>1 DEF Imported
  <2>3. /\ Pushed \in Seq(Ops) /\ DOMAIN Pushed = 1 .. Len(Pushed) /\ Pushed = PushedIn(log)
        /\ log \in Histories /\ Len(log) \in Nat
        /\ Brings(Pushed, NoFiles, TipOf(log, Len(log)))
    BY <2>1, PushedFacts
  <2>4. Imports(got.import, Pushed) /\ Len(log) > 0
    BY <2>1, <2>2, <2>3 DEF IInv, Gotten
  <2>5. TipOf(log, Len(log)) = Tip /\ Tip \in Trees
    <3>1. Len(log) \in 1 .. Len(log) /\ Len(log) # 0
      BY <2>3, <2>4
    <3>2. log[Len(log)].tip \in Trees
      BY <2>3, <3>1, HistoryCommits
    <3> QED
      BY <3>1, <3>2 DEF TipOf, Tip
  <2>6. PICK imp : imp = got.import
    OBVIOUS
  <2>7. PICK ops \in Seq(Ops) : ops = Pushed
    BY <2>3
  <2>8. PICK tip \in Trees : tip = Tip
    BY <2>5
  <2>9. imp = got.import /\ ops = Pushed /\ tip = Tip
    BY <2>6, <2>7, <2>8
  <2>10. /\ Imports(imp, ops) /\ imp.status = "done" /\ Brings(ops, NoFiles, tip)
         /\ Clone = imp.files /\ DOMAIN Pushed = 1 .. Len(ops)
    BY <2>2, <2>3, <2>4, <2>5, <2>9 DEF Clone
  <2>11. ASSUME NEW p \in Paths, Tip[p] # None,
                \A i \in DOMAIN Pushed : \/ Pushed[i].file = None
                                         \/ ~IsStrictPrefix(p, Pushed[i].path)
                                            /\ ~IsStrictPrefix(Pushed[i].path, p)
         PROVE  p \in DOMAIN Clone /\ Clone[p].data = Tip[p].data
    <3>1. \A i \in 1 .. Len(ops) :
            \/ ops[i].file = None
            \/ ~IsStrictPrefix(p, ops[i].path) /\ ~IsStrictPrefix(ops[i].path, p)
      BY <2>9, <2>10, <2>11
    <3>2. tip[p] # None
      BY <2>9, <2>11
    <3>3. p \in DOMAIN imp.files /\ imp.files[p].data = tip[p].data
      BY <2>10, <3>1, <3>2, ImportBrings
    <3> QED
      BY <2>9, <2>10, <3>3
  <2>12. ASSUME \A i \in DOMAIN Pushed : Pushed[i].file # None
         PROVE  DOMAIN Clone = {p \in Paths : Tip[p] # None}
    <3>1. \A i \in 1 .. Len(ops) : ops[i].file # None
      BY <2>9, <2>10, <2>12
    <3>2. DOMAIN imp.files = {p \in Paths : tip[p] # None}
      BY <2>10, <3>1, ImportIsTip
    <3> QED
      BY <2>9, <2>10, <3>2
  <2> QED
    BY <2>11, <2>12 DEF CloneIsTip
<1> QED
  BY <1>1, Invariance, PTL

\* What all may read is read.
THEOREM ContentReadableIsRead == Spec => []ReadableIsRead
<1>1. IInv => ReadableIsRead
  <2>1. SUFFICES ASSUME IInv, got # None,
                        \A n \in DOMAIN log :
                          LET mods == Modifies(log[n].commits)
                          IN  \A i \in DOMAIN mods :
                                /\ GetAccess(Policy(mods), mods[i].path) = "free"
                                /\ got.how = "own" \/ Front(mods[i].path) = Root
                 PROVE  got.import.status = "done"
    BY DEF ReadableIsRead
  <2>2. log \in Histories /\ DOMAIN log = 1 .. Len(log)
    BY <2>1, PushedFacts
  <2>3. ASSUME NEW n \in 1 .. Len(log)
        PROVE  /\ AllFree(Modifies(log[n].commits))
               /\ got.how = "own" \/ AllInRoot(Modifies(log[n].commits))
    <3>1. PICK mods \in Seq(Mods) : mods = Modifies(log[n].commits)
      BY <2>2, HistoryCommits, ModifiesFacts DEF ModsOf
    <3>2. DOMAIN mods = 1 .. Len(mods)
      OBVIOUS
    <3>3. \A i \in 1 .. Len(mods) : /\ GetAccess(Policy(mods), mods[i].path) = "free"
                                    /\ got.how = "own" \/ Front(mods[i].path) = Root
      BY <2>1, <2>2, <3>1, <3>2
    <3> QED
      BY <3>1, <3>3 DEF AllFree, AllInRoot
  <2>4. Readable(log, got.how)
    BY <2>3 DEF Readable
  <2> QED
    BY <2>1, <2>4 DEF IInv, Gotten
<1> QED
  BY <1>1, Invariance, PTL

-----------------------------------------------------------------------------
(* Access.                                                                 *)

\* The last place of some, or 0.
LEMMA LastPlace ==
  ASSUME NEW N \in Nat, NEW T, T \subseteq 1 .. N, NEW r, r = IF T # {} THEN Max(T) ELSE 0
  PROVE  /\ T = {} <=> r = 0
         /\ r # 0 => r \in T /\ r = Max(T) /\ \A d \in T : d <= r
<1>1. CASE T = {}
  BY <1>1
<1>2. CASE T # {}
  <2>1. PICK c \in T : \A d \in T : d <= c
    BY <1>2, GreatestNumber
  <2>2. \A d \in T : d \in Int
    OBVIOUS
  <2>3. \A d \in T : c >= d
    BY <2>1, <2>2
  <2>4. Max(T) \in T /\ \A d \in T : Max(T) >= d
    BY <2>1, <2>3 DEF Max
  <2>5. r = Max(T)
    BY <1>2
  <2>6. r \in T /\ \A d \in T : d <= r
    BY <2>2, <2>4, <2>5
  <2>7. r # 0
    BY <2>6
  <2> QED
    BY <1>2, <2>5, <2>6, <2>7
<1> QED
  BY <1>1, <1>2

\* The lines that say something of p; the attributes of a line that give an access.
Matching(lines, p) ==
  {l \in DOMAIN lines : lines[l].attrs # <<>> /\ MatchPattern(lines[l].pattern, p)}
Given(line) == {a \in DOMAIN line.attrs : line.attrs[a] # Other}

\* The last matching line gives the access, by the last attribute that does.
Decides(lines, p, access) ==
  IF Matching(lines, p) = {} THEN access = "private"
  ELSE \E l \in Matching(lines, p) :
         /\ \A k \in Matching(lines, p) : k <= l
         /\ IF Given(lines[l]) = {} THEN access = "private"
            ELSE access = lines[l].attrs[Max(Given(lines[l]))]

\* What ParseAttributes makes of a line.
RuleOf(line) ==
  LET i == SelectLastInSeq(line.attrs, LAMBDA a : a # Other)
  IN  [pattern |-> line.pattern, access |-> IF i = 0 THEN "private" ELSE line.attrs[i]]

\* The rules of the lines decide.
LEMMA LinesDecide ==
  ASSUME NEW lines, Sequence(lines), \A l \in 1 .. Len(lines) : Sequence(lines[l].attrs), NEW p
  PROVE  Decides(lines, p, GetAccess(ParseAttributes(lines), p))
<1>1. PICK N \in Nat : N = Len(lines) /\ DOMAIN lines = 1 .. N
  BY DEF Sequence
<1>2. PICK R : R = [l \in 1 .. N |-> RuleOf(lines[l])]
  OBVIOUS
<1>3. PICK keep : keep = [l \in 1 .. N |-> lines[l].attrs # <<>>]
  OBVIOUS
<1>4. PICK rules : rules = ParseAttributes(lines)
  OBVIOUS
<1>5. Sequence(R) /\ Len(R) = N
  BY <1>2 DEF Sequence
<1>6. rules = Selected(R, keep)[Len(R)]
  BY <1>1, <1>2, <1>3, <1>4, <1>5 DEF ParseAttributes, RuleOf
<1>7. PICK v : Picks(rules, R, keep, v)
  BY <1>5, <1>6, SelectedPicks
<1>8. PICK M \in Nat : M = Len(rules)
  BY <1>7 DEF Picks, Sequence
<1>9. \A l \in 1 .. N : keep[l] <=> lines[l].attrs # <<>>
  <2>1. DOMAIN keep = 1 .. N
    BY <1>3
  <2> QED
    BY <1>3, <2>1, Zenon
<1>10. /\ v \in [1 .. M -> 1 .. N]
       /\ \A k \in 1 .. M : keep[v[k]] /\ rules[k] = R[v[k]]
       /\ \A k, l \in 1 .. M : k < l => v[k] < v[l]
       /\ \A l \in 1 .. N : keep[l] => \E k \in 1 .. M : v[k] = l
  BY <1>5, <1>7, <1>8 DEF Picks
<1>11. ASSUME NEW k \in 1 .. M
       PROVE  v[k] \in 1 .. N /\ lines[v[k]].attrs # <<>> /\ rules[k] = RuleOf(lines[v[k]])
  BY <1>2, <1>9, <1>10
<1>12. \A k \in 1 .. M : rules[k].pattern = lines[v[k]].pattern
  <2>1. \A line : RuleOf(line).pattern = line.pattern
    BY DEF RuleOf
  <2> QED
    BY <1>11, <2>1
<1>13. PICK T : T = {k \in 1 .. M : MatchPattern(rules[k].pattern, p)}
  OBVIOUS
<1>14. PICK r : r = IF T # {} THEN Max(T) ELSE 0
  OBVIOUS
<1>15. GetAccess(rules, p) = IF r = 0 THEN "private" ELSE rules[r].access
  BY <1>8, <1>13, <1>14 DEF GetAccess, SelectLastInSeq
<1>16. /\ T = {} <=> r = 0
       /\ r # 0 => r \in T /\ \A d \in T : d <= r
  BY <1>13, <1>14, LastPlace
<1>17. PICK of : of = Matching(lines, p)
  OBVIOUS
<1>18. \A k \in T : v[k] \in of
  BY <1>1, <1>11, <1>12, <1>13, <1>17 DEF Matching
<1>19. ASSUME NEW l \in of PROVE \E k \in T : v[k] = l
  <2>1. l \in 1 .. N /\ lines[l].attrs # <<>> /\ MatchPattern(lines[l].pattern, p)
    BY <1>1, <1>17 DEF Matching
  <2>2. PICK k \in 1 .. M : v[k] = l
    BY <1>9, <1>10, <2>1
  <2> QED
    BY <1>12, <1>13, <2>1, <2>2
<1>20. CASE of = {}
  <2>1. r = 0
    BY <1>16, <1>18, <1>20
  <2> QED
    BY <1>4, <1>15, <1>17, <1>20, <2>1 DEF Decides
<1>21. CASE of # {}
  <2>1. r # 0 /\ r \in T /\ (\A d \in T : d <= r) /\ r \in 1 .. M
    BY <1>13, <1>16, <1>19, <1>21
  <2>2. PICK l \in of : l = v[r]
    BY <1>18, <2>1
  <2>3. ASSUME NEW k \in of PROVE k <= l
    <3>1. PICK d \in T : v[d] = k
      BY <1>19
    <3>2. d <= r /\ d \in 1 .. M
      BY <1>13, <2>1
    <3>3. v[d] \in 1 .. N /\ v[r] \in 1 .. N
      BY <1>11, <2>1, <3>2
    <3>4. CASE d = r
      BY <2>2, <3>1, <3>3, <3>4
    <3>5. CASE d < r
      <4>1. v[d] < v[r]
        BY <1>10, <2>1, <3>2, <3>5
      <4> QED
        BY <2>2, <3>1, <3>3, <4>1
    <3> QED
      BY <2>1, <3>2, <3>4, <3>5
  <2>4. rules[r] = RuleOf(lines[l]) /\ l \in 1 .. N
    BY <1>11, <2>1, <2>2
  <2>5. PICK attrs : attrs = lines[l].attrs
    OBVIOUS
  <2>6. Sequence(attrs) /\ DOMAIN attrs = 1 .. Len(attrs) /\ Len(attrs) \in Nat
    BY <1>1, <2>4, <2>5 DEF Sequence
  <2>7. PICK A : A = {a \in 1 .. Len(attrs) : attrs[a] # Other}
    OBVIOUS
  <2>8. A = Given(lines[l])
    BY <2>5, <2>6, <2>7 DEF Given
  <2>9. PICK i : i = IF A # {} THEN Max(A) ELSE 0
    OBVIOUS
  <2>10. rules[r].access = IF i = 0 THEN "private" ELSE attrs[i]
    BY <2>4, <2>5, <2>7, <2>9 DEF RuleOf, SelectLastInSeq
  <2>11. (A = {} <=> i = 0) /\ (i # 0 => i = Max(A))
    BY <2>6, <2>7, <2>9, LastPlace
  <2>12. GetAccess(rules, p) = rules[r].access
    BY <1>15, <2>1
  <2>13. IF Given(lines[l]) = {} THEN GetAccess(rules, p) = "private"
         ELSE GetAccess(rules, p) = lines[l].attrs[Max(Given(lines[l]))]
    BY <2>5, <2>8, <2>10, <2>11, <2>12
  <2> QED
    BY <1>4, <1>17, <1>21, <2>3, <2>13 DEF Decides
<1> QED
  BY <1>20, <1>21

\* The attributes a push writes that can be parsed.
Parsed(mods) == {i \in DOMAIN mods : mods[i].path = AttrPath /\ Scans(mods[i].file.data)}

\* The policy of a push is that of the last ones that can be parsed, which are
\* those at its tip, if they can be.
LEMMA PolicyFacts ==
  ASSUME NEW mods, NEW ops \in Seq(Ops), NEW w, ModsOf(mods, ops, w),
         NEW old, NEW tip, Brings(ops, old, tip)
  PROVE  /\ Parsed(mods) = {} => Policy(mods) = DefaultPolicy
         /\ Parsed(mods) # {} =>
              /\ Policy(mods) = ParseAttributes(mods[Max(Parsed(mods))].file.data)
              /\ Max(Parsed(mods)) \in Parsed(mods)
         /\ Parsed(mods) # {} /\ tip[AttrPath] # None /\ Scans(tip[AttrPath].data) =>
              mods[Max(Parsed(mods))].file = tip[AttrPath]
<1>1. PICK M \in Nat, N \in Nat : M = Len(mods) /\ N = Len(ops)
  BY DEF ModsOf
<1>2. /\ w \in [1 .. M -> 1 .. N]
      /\ \A k \in 1 .. M : mods[k] = ops[w[k]]
      /\ \A k, l \in 1 .. M : k < l => w[k] < w[l]
      /\ \A i \in 1 .. N : ops[i].file # None => \E k \in 1 .. M : w[k] = i
  BY <1>1 DEF ModsOf
<1>3. PICK T : T = Parsed(mods)
  OBVIOUS
<1>4. T = {i \in 1 .. M : mods[i].path = AttrPath /\ Scans(mods[i].file.data)}
  BY <1>1, <1>3 DEF Parsed, ModsOf
<1>5. PICK r : r = IF T # {} THEN Max(T) ELSE 0
  OBVIOUS
<1>6. Policy(mods) = IF r = 0 THEN DefaultPolicy ELSE ParseAttributes(mods[r].file.data)
  BY <1>1, <1>4, <1>5 DEF Policy, SelectLastInSeq
<1>7. /\ T = {} <=> r = 0
      /\ r # 0 => r \in T /\ r = Max(T) /\ \A d \in T : d <= r
  BY <1>4, <1>5, LastPlace
<1>8. ASSUME T # {}, tip[AttrPath] # None, Scans(tip[AttrPath].data)
      PROVE  mods[r].file = tip[AttrPath]
  <2>1. r # 0 /\ r \in 1 .. M /\ mods[r].path = AttrPath /\ \A d \in T : d <= r
    BY <1>4, <1>7, <1>8
  <2>2. w[r] \in 1 .. N /\ ops[w[r]].path = AttrPath
    BY <1>2, <2>1
  <2>3. PICK i \in 1 .. N : LastAt(ops, i, AttrPath) /\ ops[i].file = tip[AttrPath]
    BY <1>1, <2>2, ContentAssumption DEF Brings, ContentAssumption
  <2>4. PICK k \in 1 .. M : w[k] = i
    BY <1>2, <1>8, <2>3
  <2>5. k \in T
    BY <1>2, <1>4, <1>8, <2>3, <2>4 DEF LastAt
  <2>6. i <= w[r]
    <3>1. k <= r
      BY <2>1, <2>5
    <3>2. CASE k = r
      BY <2>4, <3>2
    <3>3. CASE k < r
      BY <1>2, <2>1, <2>2, <2>4, <3>3
    <3> QED
      BY <2>1, <3>1, <3>2, <3>3
  <2>7. w[r] \notin i + 1 .. N
    BY <1>1, <2>2, <2>3 DEF LastAt
  <2>8. w[r] = i
    BY <2>2, <2>6, <2>7
  <2> QED
    BY <1>2, <2>1, <2>3, <2>8
<1> QED
  BY <1>3, <1>6, <1>7, <1>8

\* What the invariant says of the n-th push.
LEMMA PushFacts ==
  ASSUME IInv, NEW n \in DOMAIN batches
  PROVE  /\ n \in 1 .. Len(log) /\ n \in Nat /\ DOMAIN batches = DOMAIN log
         /\ log[n].commits \in Commits /\ log[n].tip \in Trees
         /\ Modifies(log[n].commits) \in Seq(Mods)
         /\ batches[n] = Batch(n, Modifies(log[n].commits))
         /\ Brings(FlattenSeq(log[n].commits), TipOf(log, n - 1), log[n].tip)
<1>1. /\ log \in Histories /\ batches = [k \in 1 .. Len(log) |-> BatchOf(log, k)]
      /\ \A k \in 1 .. Len(log) : Brings(PushOf(log, k), TipOf(log, k - 1), log[k].tip)
  BY DEF IInv, Grown
<1>2. Len(log) \in Nat /\ DOMAIN log = 1 .. Len(log)
  BY <1>1, HistoryCommits
<1>3. DOMAIN batches = 1 .. Len(log) /\ n \in 1 .. Len(log) /\ n \in Nat
  BY <1>1, <1>2
<1>4. log[n].commits \in Commits /\ log[n].tip \in Trees
  BY <1>1, <1>3, HistoryCommits
<1>5. Modifies(log[n].commits) \in Seq(Mods)
  BY <1>4, ModifiesFacts DEF ModsOf
<1>6. batches[n] = Batch(n, Modifies(log[n].commits))
  BY <1>1, <1>3 DEF BatchOf
<1> QED
  BY <1>1, <1>2, <1>3, <1>4, <1>5, <1>6 DEF PushOf

\* The nodes of a batch: as many as there are files and directories, or none.
LEMMA NodesOf ==
  ASSUME NEW mods \in Seq(Mods), NEW n
  PROVE  /\ \A i \in DOMAIN Batch(n, mods).nodes : Batch(n, mods).nodes[i].key = <<n, i>>
         /\ \A i \in 1 .. Len(mods) :
              Batch(n, mods).nodes[i] = FileNode(n, i, mods[i], Policy(mods))
<1>1. PICK b : b = Batch(n, mods)
  OBVIOUS
<1>2. CASE mods = <<>>
  <2>1. b.nodes = <<>>
    BY <1>1, <1>2 DEF Batch
  <2>2. DOMAIN b.nodes = {} /\ 1 .. Len(mods) = {}
    BY <1>2, <2>1
  <2> QED
    BY <1>1, <2>2
<1>3. CASE mods # <<>>
  <2>1. PICK order : Whole(b, n, mods, order)
    BY <1>1, <1>3, BatchIsWhole
  <2>2. PICK M \in Nat : M = Len(mods)
    OBVIOUS
  <2>3. Len(order) \in Nat /\ Sequence(b.nodes) /\ Len(b.nodes) = M + Len(order)
    BY <2>1, <2>2 DEF Whole, Ordered, Sequence
  <2>4. PICK l \in Nat : l = Len(order)
    BY <2>3
  <2>5. DOMAIN b.nodes = 1 .. M + l
    BY <2>3, <2>4 DEF Sequence
  <2>6. \A i \in 1 .. M : b.nodes[i] = FileNode(n, i, mods[i], Policy(mods))
    BY <2>1, <2>2 DEF Whole
  <2>7. \A j \in 1 .. l : b.nodes[M + j].key = <<n, M + j>>
    BY <2>1, <2>2, <2>4 DEF Whole
  <2>8. ASSUME NEW i \in 1 .. M + l PROVE b.nodes[i].key = <<n, i>>
    <3>1. CASE i \in 1 .. M
      <4>1. b.nodes[i] = FileNode(n, i, mods[i], Policy(mods))
        BY <2>6, <3>1
      <4> QED
        BY <4>1 DEF FileNode, FileKey
    <3>2. CASE i \notin 1 .. M
      <4>1. PICK j \in 1 .. l : i = M + j
        <5>1. i - M \in 1 .. l /\ i = M + (i - M)
          BY <3>2
        <5> QED
          BY <5>1
      <4> QED
        BY <2>7, <4>1
    <3> QED
      BY <3>1, <3>2
  <2> QED
    BY <1>1, <2>2, <2>5, <2>6, <2>8
<1> QED
  BY <1>2, <1>3

\* Every variable has its type.
THEOREM ContentTypeOK == Spec => []TypeOK
<1>1. IInv => TypeOK
  <2>1. SUFFICES ASSUME IInv PROVE TypeOK
    OBVIOUS
  <2>2. work \in Trees /\ result \in {"none", "ok", "error"}
    BY <2>1 DEF IInv, Grown
  <2>3. DOMAIN batches = DOMAIN log
    <3>1. /\ log \in Histories /\ batches = [k \in 1 .. Len(log) |-> BatchOf(log, k)]
      BY <2>1 DEF IInv, Grown
    <3> QED
      BY <3>1, HistoryCommits
  <2>4. ASSUME NEW n \in DOMAIN batches, NEW i \in DOMAIN batches[n].nodes
        PROVE  batches[n].nodes[i].key = <<n, i>>
    <3>1. /\ Modifies(log[n].commits) \in Seq(Mods)
          /\ batches[n] = Batch(n, Modifies(log[n].commits))
      BY <2>1, PushFacts
    <3> QED
      BY <2>4, <3>1, NodesOf
  <2>5. got = None \/ got.import.status \in {"done", "failed", "endless"}
    BY <2>1 DEF IInv, Gotten, Imports, Outcomes
  <2> QED
    BY <2>2, <2>3, <2>4, <2>5 DEF TypeOK
<1> QED
  BY <1>1, Invariance, PTL

\* What AccessFollowsAttributes says of the access of one file, at p, of a push.
LinesFor(mods, attributes) ==
  IF attributes # None /\ Scans(attributes.data) THEN attributes.data
  ELSE mods[Max(Parsed(mods))].file.data
Follows(mods, attributes, p, access) ==
  LET lines == LinesFor(mods, attributes)
  IN  IF Parsed(mods) = {} \/ Matching(lines, p) = {} THEN access = "private"
      ELSE \E l \in Matching(lines, p) :
             /\ \A k \in Matching(lines, p) : k <= l
             /\ IF Given(lines[l]) = {} THEN access = "private"
                ELSE access = lines[l].attrs[Max(Given(lines[l]))]

\* A file is published under the access that the attributes of the branch give it.
THEOREM ContentAccessFollowsAttributes == Spec => []AccessFollowsAttributes
<1>1. IInv => AccessFollowsAttributes
  <2>1. SUFFICES ASSUME IInv, NEW n \in DOMAIN batches, NEW i \in DOMAIN Modifies(log[n].commits)
                 PROVE  Follows(Modifies(log[n].commits), log[n].tip[AttrPath],
                                Modifies(log[n].commits)[i].path, batches[n].nodes[i].access)
    BY Zenon DEF AccessFollowsAttributes, Follows, LinesFor, Parsed, Matching, Given
  <2>2. PICK commits \in Commits : commits = log[n].commits
    BY <2>1, PushFacts
  <2>3. PICK mods \in Seq(Mods) : mods = Modifies(log[n].commits)
    BY <2>1, PushFacts
  <2>4. PICK ops \in Seq(Ops) : ops = FlattenSeq(commits)
    BY <2>2, ModifiesFacts
  <2>5. PICK w : ModsOf(mods, ops, w)
    BY <2>2, <2>3, <2>4, ModifiesFacts
  <2>6. PICK tip \in Trees : tip = log[n].tip
    BY <2>1, PushFacts
  <2>7. Brings(ops, TipOf(log, n - 1), tip)
    BY <2>1, <2>2, <2>4, <2>6, PushFacts
  <2>8. DOMAIN mods = 1 .. Len(mods)
    OBVIOUS
  <2>9. PICK T, m : T = Parsed(mods) /\ m = Max(T)
    OBVIOUS
  <2>10. /\ T = {} => Policy(mods) = DefaultPolicy
         /\ T # {} => Policy(mods) = ParseAttributes(mods[m].file.data) /\ m \in T
         /\ T # {} /\ tip[AttrPath] # None /\ Scans(tip[AttrPath].data) =>
              mods[m].file = tip[AttrPath]
    BY <2>5, <2>7, <2>9, PolicyFacts
  <2>11. \A k \in DOMAIN mods :
           batches[n].nodes[k].access = GetAccess(Policy(mods), mods[k].path)
    <3>1. batches[n] = Batch(n, mods)
      BY <2>1, <2>3, PushFacts
    <3>2. \A k \in 1 .. Len(mods) : batches[n].nodes[k] = FileNode(n, k, mods[k], Policy(mods))
      BY <3>1, NodesOf
    <3>3. \A k, op : FileNode(n, k, op, Policy(mods)).access = GetAccess(Policy(mods), op.path)
      BY DEF FileNode
    <3> QED
      BY <2>8, <3>2, <3>3
  <2>12. \A p : GetAccess(DefaultPolicy, p) = "private"
    BY DEF GetAccess, DefaultPolicy, SelectLastInSeq
  <2>13. PICK access, p : access = batches[n].nodes[i].access /\ p = mods[i].path
    OBVIOUS
  <2>14. PICK attributes : attributes = tip[AttrPath]
    OBVIOUS
  <2>15. access = GetAccess(Policy(mods), p)
    BY <2>1, <2>3, <2>11, <2>13
  <2>16. CASE T = {}
    <3>1. access = "private"
      BY <2>10, <2>12, <2>15, <2>16
    <3>2. Follows(mods, attributes, p, access)
      BY <2>9, <2>16, <3>1 DEF Follows
    <3> QED
      BY <2>3, <2>6, <2>13, <2>14, <3>2
  <2>17. CASE T # {}
    <3>1. PICK lines : lines = mods[m].file.data
      OBVIOUS
    <3>2. LinesFor(mods, attributes) = lines
      BY <2>9, <2>10, <2>14, <2>17, <3>1 DEF LinesFor
    <3>3. mods[m].file \in FilesAt[AttrPath]
      <4>1. m \in DOMAIN mods /\ mods[m].path = AttrPath
        BY <2>9, <2>10, <2>17 DEF Parsed
      <4>2. mods[m] \in Mods
        BY <2>8, <4>1
      <4> QED
        BY <4>1, <4>2 DEF Mods, Ops
    <3>4. Sequence(lines) /\ \A k \in DOMAIN lines : Sequence(lines[k].attrs)
      BY <3>1, <3>3, ContentAssumption DEF ContentAssumption
    <3>5. \A k \in 1 .. Len(lines) : Sequence(lines[k].attrs)
      <4>1. DOMAIN lines = 1 .. Len(lines)
        BY <3>4 DEF Sequence
      <4> QED
        BY <3>4, <4>1
    <3>6. Decides(lines, p, access)
      <4>1. Decides(lines, p, GetAccess(ParseAttributes(lines), p))
        BY <3>4, <3>5, LinesDecide
      <4>2. access = GetAccess(ParseAttributes(lines), p)
        BY <2>10, <2>15, <2>17, <3>1
      <4> QED
        BY <4>1, <4>2
    <3>7. Follows(mods, attributes, p, access)
      BY <2>9, <2>17, <3>2, <3>6 DEF Follows, Decides
    <3> QED
      BY <2>3, <2>6, <2>13, <2>14, <3>7
  <2> QED
    BY <2>16, <2>17
<1> QED
  BY <1>1, Invariance, PTL

-----------------------------------------------------------------------------
(* The entries of a batch.                                                 *)

\* The key has one entry, in the directory above d, with the last name of d.
EnteredOnce(batch, key, M, order, d, type) ==
  \E a \in 1 .. Len(order), c \in Nat :
    /\ order[a] = Front(d) /\ Entries(batch.nodes, key) = {<<M + a, c>>}
    /\ batch.nodes[M + a].children[c].name = Last(d)
    /\ batch.nodes[M + a].children[c].type = type

\* E are the entries of the key: places of it in lists of children, those of the
\* a-th directory ch[a], whose node is M + a.
EntriesAre(E, key, M, l, ch) ==
  \A e : e \in E <=> \E a \in 1 .. l : \E c \in 1 .. Len(ch[a]) :
                         e = <<M + a, c>> /\ ch[a][c].key = key

\* Which pairs are entries.
LEMMA EntriesFacts ==
  ASSUME NEW mods \in Seq(Mods), NEW n, NEW batch, NEW order, Whole(batch, n, mods, order), NEW key,
         NEW M \in Nat, M = Len(mods), NEW l \in Nat, l = Len(order),
         NEW ch, ch = [a \in 1 .. l |-> batch.nodes[M + a].children],
         NEW E, E = Entries(batch.nodes, key)
  PROVE  EntriesAre(E, key, M, l, ch)
<1>1. M = Len(mods)
  OBVIOUS
<1>2. PICK nodes : nodes = batch.nodes
  OBVIOUS
<1>3. Len(order) \in Nat /\ Sequence(nodes) /\ Len(nodes) = M + Len(order)
  BY <1>1, <1>2 DEF Whole, Ordered, Sequence
<1>4. l = Len(order)
  OBVIOUS
<1>5. DOMAIN nodes = 1 .. M + l
  BY <1>3, <1>4 DEF Sequence
<1>6. PICK D : D = {j \in DOMAIN nodes : nodes[j].type = "dir"}
  OBVIOUS
<1>7. \A j : j \in D <=> \E a \in 1 .. l : j = M + a
  <2>1. ASSUME NEW j \in D PROVE \E a \in 1 .. l : j = M + a
    <3>1. j \in 1 .. M + l /\ nodes[j].type = "dir"
      BY <1>5, <1>6
    <3>2. j \notin 1 .. M
      <4>1. SUFFICES ASSUME j \in 1 .. M PROVE FALSE
        OBVIOUS
      <4>2. nodes[j] = FileNode(n, j, mods[j], Policy(mods))
        BY <1>1, <1>2, <4>1 DEF Whole
      <4>3. nodes[j].type = "file"
        BY <4>2 DEF FileNode
      <4> QED
        BY <3>1, <4>3
    <3>3. j - M \in 1 .. l /\ j = M + (j - M)
      BY <3>1, <3>2
    <3> QED
      BY <3>3
  <2>2. ASSUME NEW a \in 1 .. l PROVE M + a \in D
    <3>1. nodes[M + a].type = "dir"
      BY <1>1, <1>2, <1>4 DEF Whole
    <3>2. M + a \in 1 .. M + l
      OBVIOUS
    <3> QED
      BY <1>5, <1>6, <3>1, <3>2
  <2> QED
    BY <2>1, <2>2
<1>8. PICK all : all = UNION {{j} \X DOMAIN nodes[j].children : j \in D}
  OBVIOUS
<1>9. \A e : e \in all <=> \E a \in 1 .. l : e \in {M + a} \X DOMAIN nodes[M + a].children
  BY <1>7, <1>8
<1>10. ASSUME NEW a \in 1 .. l
       PROVE  DOMAIN nodes[M + a].children = 1 .. Len(nodes[M + a].children)
  <2>1. Sequence(nodes[M + a].children)
    BY <1>1, <1>2, <1>4 DEF Whole, Enters
  <2> QED
    BY <2>1 DEF Sequence
<1>11. E = Entries(nodes, key)
  BY <1>2
<1>12. E = {e \in all : nodes[e[1]].children[e[2]].key = key}
  BY <1>6, <1>8, <1>11 DEF Entries
<1>13. ASSUME NEW e \in E
       PROVE  \E a \in 1 .. l : \E c \in 1 .. Len(nodes[M + a].children) :
                e = <<M + a, c>> /\ nodes[M + a].children[c].key = key
  <2>1. PICK a \in 1 .. l : e \in {M + a} \X DOMAIN nodes[M + a].children
    BY <1>9, <1>12
  <2>2. PICK c \in 1 .. Len(nodes[M + a].children) : e = <<M + a, c>>
    BY <1>10, <2>1
  <2>3. nodes[M + a].children[c].key = key
    BY <1>12, <2>2
  <2> QED
    BY <2>2, <2>3
<1>14. ASSUME NEW a \in 1 .. l, NEW c \in 1 .. Len(nodes[M + a].children),
              nodes[M + a].children[c].key = key
       PROVE  <<M + a, c>> \in E
  <2>1. PICK e : e = <<M + a, c>>
    OBVIOUS
  <2>2. e \in {M + a} \X DOMAIN nodes[M + a].children /\ e[1] = M + a /\ e[2] = c
    BY <1>10, <2>1
  <2>3. e \in all
    BY <1>9, <2>2
  <2> QED
    BY <1>12, <1>14, <2>1, <2>2, <2>3
<1>15. \A a \in 1 .. l : ch[a] = nodes[M + a].children
  BY <1>2
<1>16. ASSUME NEW e \in E
       PROVE  \E a \in 1 .. l : \E c \in 1 .. Len(ch[a]) : e = <<M + a, c>> /\ ch[a][c].key = key
  <2>1. PICK a \in 1 .. l :
          \E c \in 1 .. Len(nodes[M + a].children) :
            e = <<M + a, c>> /\ nodes[M + a].children[c].key = key
    BY <1>13
  <2>2. PICK here : here = nodes[M + a].children
    OBVIOUS
  <2>3. ch[a] = here
    BY <1>15, <2>2
  <2> QED
    BY <2>1, <2>2, <2>3
<1>17. ASSUME NEW a \in 1 .. l, NEW c \in 1 .. Len(ch[a]), ch[a][c].key = key,
              NEW e, e = <<M + a, c>>
       PROVE  e \in E
  <2>1. PICK here : here = nodes[M + a].children
    OBVIOUS
  <2>2. ch[a] = here
    BY <1>15, <2>1
  <2>3. c \in 1 .. Len(nodes[M + a].children) /\ nodes[M + a].children[c].key = key
    BY <1>17, <2>1, <2>2
  <2> QED
    BY <1>14, <1>17, <2>3
<1> DEFINE At(e) == \E a \in 1 .. l : \E c \in 1 .. Len(ch[a]) :
                      e = <<M + a, c>> /\ ch[a][c].key = key
<1>18. ASSUME NEW e, At(e) PROVE e \in E
  <2>1. PICK a \in 1 .. l : \E c \in 1 .. Len(ch[a]) : e = <<M + a, c>> /\ ch[a][c].key = key
    BY <1>18
  <2>2. PICK c \in 1 .. Len(ch[a]) : e = <<M + a, c>> /\ ch[a][c].key = key
    BY <2>1
  <2> QED
    BY <1>17, <2>2
<1>19. \A e : e \in E <=> At(e)
  <2>1. \A e \in E : At(e)
    BY <1>16
  <2> HIDE DEF At
  <2> QED
    BY <1>18, <2>1
<1> QED
  BY <1>19, Zenon DEF EntriesAre

\* A file is entered once.
LEMMA FileEnteredOnce ==
  ASSUME NEW mods \in Seq(Mods), NEW n, NEW batch, NEW order, Whole(batch, n, mods, order),
         NEW i \in 1 .. Len(mods)
  PROVE  EnteredOnce(batch, <<n, i>>, Len(mods), order, mods[i].path, "file")
<1>1. PICK M \in Nat : M = Len(mods)
  OBVIOUS
<1>2. PICK l \in Nat : l = Len(order)
  <2>1. Len(order) \in Nat
    BY DEF Whole, Ordered, Sequence
  <2> QED
    BY <2>1
<1>3. PICK ch : ch = [a \in 1 .. l |-> batch.nodes[M + a].children]
  OBVIOUS
<1>4. \A a \in 1 .. l : Enters(ch[a], n, mods, order, order[a])
  BY <1>1, <1>2, <1>3 DEF Whole
<1>5. PICK a \in 1 .. l : order[a] = Front(mods[i].path)
  BY <1>2, FrontsAreDirs DEF Whole, Ordered
<1>6. PICK c \in 1 .. Len(ch[a]) : FileEntry(ch[a][c], n, mods, i, order[a])
  BY <1>4, <1>5 DEF Enters
<1>7. /\ ch[a][c].key = <<n, i>> /\ ch[a][c].name = Last(mods[i].path)
      /\ ch[a][c].type = "file"
  BY <1>6 DEF FileEntry
<1>8. ASSUME NEW b \in 1 .. l, NEW e \in 1 .. Len(ch[b]), ch[b][e].key = <<n, i>>
      PROVE  b = a /\ e = c
  <2>1. FileEntry(ch[b][e], n, mods, i, order[b])
    <3>1. CASE \E k \in 1 .. Len(mods) : FileEntry(ch[b][e], n, mods, k, order[b])
      <4>1. PICK k \in 1 .. Len(mods) : FileEntry(ch[b][e], n, mods, k, order[b])
        BY <3>1
      <4>2. <<n, k>> = <<n, i>>
        BY <1>8, <4>1 DEF FileEntry
      <4>3. k = i
        BY <4>2
      <4> QED
        BY <4>1, <4>3
    <3>2. CASE \E k \in 1 .. Len(order) : DirEntry(ch[b][e], n, mods, order, k, order[b])
      <4>1. PICK k \in 1 .. Len(order) : DirEntry(ch[b][e], n, mods, order, k, order[b])
        BY <3>2
      <4>2. <<n, M + k>> = <<n, i>>
        BY <1>1, <1>8, <4>1 DEF DirEntry
      <4>3. M + k = i
        BY <4>2
      <4>4. k \in 1 .. l /\ i \in 1 .. M
        BY <1>1, <1>2
      <4> QED
        BY <4>3, <4>4
    <3> QED
      BY <1>4, <3>1, <3>2 DEF Enters
  <2>2. order[b] = order[a]
    BY <1>5, <2>1 DEF FileEntry
  <2>3. b = a
    BY <1>2, <2>2 DEF Whole, Ordered
  <2>4. Sequence(ch[a]) /\ ~(i < i)
    BY <1>4 DEF Enters
  <2>5. \A x, y \in 1 .. Len(ch[a]) :
          x < y => ~(FileEntry(ch[a][x], n, mods, i, order[a])
                     /\ FileEntry(ch[a][y], n, mods, i, order[a]))
    BY <1>4, <2>4 DEF Enters
  <2>6. ~(e < c) /\ ~(c < e)
    BY <1>6, <2>1, <2>3, <2>5
  <2>7. e \in Int /\ c \in Int
    BY <2>3
  <2> QED
    BY <2>3, <2>6, <2>7
<1>9. PICK E : E = Entries(batch.nodes, <<n, i>>)
  OBVIOUS
<1>10. EntriesAre(E, <<n, i>>, M, l, ch)
  BY <1>1, <1>2, <1>3, <1>9, EntriesFacts
<1>11. E = {<<M + a, c>>}
  BY <1>7, <1>8, <1>10, ZenonT(60) DEF EntriesAre
<1>12. c \in Nat
  OBVIOUS
<1> QED
  BY <1>1, <1>2, <1>3, <1>5, <1>7, <1>9, <1>11, <1>12 DEF EnteredOnce

\* A directory is entered once, but for the root.
LEMMA DirEnteredOnce ==
  ASSUME NEW mods \in Seq(Mods), NEW n, NEW batch, NEW order, Whole(batch, n, mods, order),
         NEW j \in 1 .. Len(order)
  PROVE  IF order[j] = Root THEN Entries(batch.nodes, <<n, Len(mods) + j>>) = {}
         ELSE EnteredOnce(batch, <<n, Len(mods) + j>>, Len(mods), order, order[j], "dir")
<1>1. PICK M \in Nat : M = Len(mods)
  OBVIOUS
<1>2. PICK l \in Nat : l = Len(order)
  <2>1. Len(order) \in Nat
    BY DEF Whole, Ordered, Sequence
  <2> QED
    BY <2>1
<1>3. PICK ch : ch = [a \in 1 .. l |-> batch.nodes[M + a].children]
  OBVIOUS
<1>4. \A a \in 1 .. l : Enters(ch[a], n, mods, order, order[a])
  BY <1>1, <1>2, <1>3 DEF Whole
<1>5. ASSUME NEW b \in 1 .. l, NEW e \in 1 .. Len(ch[b]), ch[b][e].key = <<n, M + j>>
      PROVE  DirEntry(ch[b][e], n, mods, order, j, order[b])
  <2>1. CASE \E k \in 1 .. Len(order) : DirEntry(ch[b][e], n, mods, order, k, order[b])
    <3>1. PICK k \in 1 .. Len(order) : DirEntry(ch[b][e], n, mods, order, k, order[b])
      BY <2>1
    <3>2. <<n, M + k>> = <<n, M + j>>
      BY <1>1, <1>5, <3>1 DEF DirEntry
    <3>3. M + k = M + j
      BY <3>2
    <3>4. k = j
      BY <1>2, <3>3
    <3> QED
      BY <3>1, <3>4
  <2>2. CASE \E k \in 1 .. Len(mods) : FileEntry(ch[b][e], n, mods, k, order[b])
    <3>1. PICK k \in 1 .. Len(mods) : FileEntry(ch[b][e], n, mods, k, order[b])
      BY <2>2
    <3>2. <<n, k>> = <<n, M + j>>
      BY <1>5, <3>1 DEF FileEntry
    <3>3. k = M + j
      BY <3>2
    <3>4. j \in 1 .. l /\ k \in 1 .. M
      BY <1>1, <1>2
    <3> QED
      BY <3>3, <3>4
  <2> QED
    BY <1>4, <2>1, <2>2 DEF Enters
<1>6. PICK E : E = Entries(batch.nodes, <<n, M + j>>)
  OBVIOUS
<1>7. EntriesAre(E, <<n, M + j>>, M, l, ch)
  BY <1>1, <1>2, <1>3, <1>6, EntriesFacts
<1>8. CASE order[j] = Root
  <2>1. E = {}
    BY <1>5, <1>7, <1>8 DEF DirEntry, EntriesAre
  <2> QED
    BY <1>1, <1>6, <1>8, <2>1
<1>9. CASE order[j] # Root
  <2>1. PICK a \in 1 .. l : order[a] = Front(order[j])
    BY <1>2, <1>9, FrontsAreDirs DEF Whole, Ordered
  <2>2. PICK c \in 1 .. Len(ch[a]) : DirEntry(ch[a][c], n, mods, order, j, order[a])
    BY <1>4, <1>9, <2>1 DEF Enters
  <2>3. /\ ch[a][c].key = <<n, M + j>> /\ ch[a][c].name = Last(order[j])
        /\ ch[a][c].type = "dir"
    BY <1>1, <2>2 DEF DirEntry
  <2>4. ASSUME NEW b \in 1 .. l, NEW e \in 1 .. Len(ch[b]), ch[b][e].key = <<n, M + j>>
        PROVE  b = a /\ e = c
    <3>1. DirEntry(ch[b][e], n, mods, order, j, order[b])
      BY <1>5, <2>4
    <3>2. order[b] = order[a]
      BY <2>1, <3>1 DEF DirEntry
    <3>3. b = a
      BY <1>2, <3>2 DEF Whole, Ordered
    <3>4. \A x, y \in 1 .. Len(ch[a]) :
            x < y => ~(DirEntry(ch[a][x], n, mods, order, j, order[a])
                       /\ DirEntry(ch[a][y], n, mods, order, j, order[a]))
      BY <1>4 DEF Enters
    <3>5. ~(e < c) /\ ~(c < e)
      BY <2>2, <3>1, <3>3, <3>4
    <3>6. e \in Int /\ c \in Int
      BY <3>3
    <3> QED
      BY <3>3, <3>5, <3>6
  <2>5. E = {<<M + a, c>>}
    BY <1>7, <2>3, <2>4, ZenonT(60) DEF EntriesAre
  <2>6. c \in Nat
    OBVIOUS
  <2>7. EnteredOnce(batch, <<n, M + j>>, M, order, order[j], "dir")
    BY <1>2, <1>3, <1>6, <2>1, <2>3, <2>5, <2>6 DEF EnteredOnce
  <2> QED
    BY <1>1, <1>9, <2>7
<1> QED
  BY <1>8, <1>9

-----------------------------------------------------------------------------
(* Climbing from a file to the root.                                       *)

\* One entry up from where one is, but not above the root.
UpOne(batch, here) ==
  LET e == CHOOSE e \in Entries(batch.nodes, here.key) : TRUE
      dir == batch.nodes[e[1]]
  IN  IF here.key = batch.root THEN here
      ELSE [key |-> dir.key, path |-> <<dir.children[e[2]].name>> \o here.path]

\* climb goes up one by one from the key.
Climbs(climb, batch, key, N) ==
  /\ climb[0] = [key |-> key, path |-> <<>>]
  /\ \A k \in 0 .. N : k # 0 => climb[k] = UpOne(batch, climb[k - 1])

\* Climb does.
LEMMA ClimbClimbs ==
  ASSUME NEW batch, NEW key, NEW N \in Nat, N = Len(batch.nodes)
  PROVE  Climbs(Climb(batch, key), batch, key, N)
<1> DEFINE Step(f, k) == IF k = 0 THEN [key |-> key, path |-> <<>>] ELSE UpOne(batch, f[k - 1])
<1>1. PICK T : T = {m \in 0 .. N : \E f : /\ f = [n \in 0 .. m |-> f[n]]
                                          /\ \A n \in 0 .. m : f[n] = Step(f, n)}
  OBVIOUS
<1>2. 0 \in T
  <2>1. PICK f : f = [n \in 0 .. 0 |-> [key |-> key, path |-> <<>>]]
    OBVIOUS
  <2>2. \A n \in 0 .. 0 : n = 0
    OBVIOUS
  <2>3. \A n \in 0 .. 0 : f[n] = Step(f, n)
    BY <2>1, <2>2
  <2>4. f = [n \in 0 .. 0 |-> f[n]]
    BY <2>1
  <2> QED
    BY <1>1, <2>3, <2>4
<1>3. ASSUME NEW m \in 0 .. N, m \in T, m < N PROVE m + 1 \in T
  <2>1. PICK f : /\ f = [n \in 0 .. m |-> f[n]]
                 /\ \A n \in 0 .. m : f[n] = Step(f, n)
    BY <1>1, <1>3
  <2>2. PICK top : top = UpOne(batch, f[m])
    OBVIOUS
  <2>3. PICK h : h = [n \in 0 .. m + 1 |-> IF n = m + 1 THEN top ELSE f[n]]
    OBVIOUS
  <2>4. h = [n \in 0 .. m + 1 |-> h[n]]
    BY <2>3
  <2>5. ASSUME NEW n \in 0 .. m + 1 PROVE h[n] = Step(h, n)
    <3>1. CASE n = m + 1
      <4>1. n # 0 /\ n - 1 = m /\ h[m] = f[m] /\ h[n] = top
        BY <2>3, <3>1
      <4> QED
        BY <2>2, <3>1, <4>1
    <3>2. CASE n # m + 1 /\ n # 0
      <4>1. n \in 0 .. m /\ n - 1 \in 0 .. m /\ n # 0
        BY <3>2
      <4>2. h[n] = f[n] /\ h[n - 1] = f[n - 1]
        BY <2>3, <4>1
      <4>3. Step(h, n) = Step(f, n)
        BY <4>1, <4>2
      <4> HIDE DEF Step
      <4> QED
        BY <2>1, <4>1, <4>2, <4>3
    <3>3. CASE n = 0
      <4>1. h[0] = f[0] /\ f[0] = Step(f, 0)
        BY <2>1, <2>3, SMTT(60)
      <4>2. Step(f, 0) = Step(h, 0)
        OBVIOUS
      <4> QED
        BY <3>3, <4>1, <4>2
    <3> QED
      BY <3>1, <3>2, <3>3
  <2>6. m + 1 \in 0 .. N
    BY <1>3
  <2> HIDE DEF Step
  <2> QED
    BY <1>1, <2>4, <2>5, <2>6
<1>4. N \in T
  <2> HIDE DEF Step
  <2>1. \A m \in 0 .. N : m \in T
    BY <1>2, <1>3, UpTo
  <2> QED
    BY <2>1
<1> DEFINE F(e) == e = [n \in 0 .. N |-> Step(e, n)]
<1>5. \E f : F(f)
  <2>1. PICK f : /\ f = [n \in 0 .. N |-> f[n]]
                 /\ \A n \in 0 .. N : f[n] = Step(f, n)
    BY <1>1, <1>4
  <2> HIDE DEF Step
  <2>2. PICK h : h = [n \in 0 .. N |-> Step(f, n)]
    OBVIOUS
  <2>3. f = h
    BY <2>1, <2>2
  <2> QED
    BY <2>2, <2>3
<1>6. PICK e : e = CHOOSE x : F(x)
  OBVIOUS
<1>7. F(e)
  <2> HIDE DEF F
  <2> QED
    BY <1>5, <1>6
<1>8. Climb(batch, key) = e
  BY <1>6, Zenon DEF Climb, UpOne
<1>9. \A n \in 0 .. N : e[n] = Step(e, n)
  <2>1. PICK k : k = [n \in 0 .. N |-> Step(e, n)]
    OBVIOUS
  <2>2. e = k
    BY <1>7, <2>1
  <2> HIDE DEF Step, F
  <2> QED
    BY <2>1, <2>2
<1> HIDE DEF F
<1>10. Climbs(e, batch, key, N)
  BY <1>9 DEF Climbs
<1> QED
  BY <1>8, <1>10

\* k entries above the i-th file is the directory whose path is what its path
\* leaves without the last k names, and the entries spell those.
Reached(here, n, mods, order, i, p, k) ==
  /\ IF k = 0 THEN here.key = <<n, i>>
     ELSE \E j \in 1 .. Len(order) :
            /\ here.key = <<n, Len(mods) + j>>
            /\ Len(order[j]) = Len(p) - k /\ \A x \in 1 .. Len(p) - k : order[j][x] = p[x]
  /\ here = [key |-> here.key, path |-> here.path]
  /\ here.path \in Seq(Nat) /\ Len(here.path) = k
  /\ \A x \in 1 .. k : here.path[x] = p[Len(p) - k + x]

\* The a-th directory, there, is where one comes from here, up from d.
Above1(there, here, n, M, order, d, a) ==
  /\ order[a] = Front(d)
  /\ there = [key |-> <<n, M + a>>, path |-> <<Last(d)>> \o here.path]

\* The way up from something that is entered once.
LEMMA UpFromEntered ==
  ASSUME NEW mods \in Seq(Mods), NEW n, NEW batch, NEW order, Whole(batch, n, mods, order),
         NEW M \in Nat, M = Len(mods), NEW d, NEW type, NEW key, NEW here, here.key = key,
         EnteredOnce(batch, key, M, order, d, type), key # batch.root,
         NEW there, there = UpOne(batch, here)
  PROVE  \E a \in 1 .. Len(order) : Above1(there, here, n, M, order, d, a)
<1>1. PICK a \in 1 .. Len(order), c \in Nat :
        /\ order[a] = Front(d) /\ Entries(batch.nodes, key) = {<<M + a, c>>}
        /\ batch.nodes[M + a].children[c].name = Last(d)
  BY DEF EnteredOnce
<1>2. PICK e : e = CHOOSE x \in Entries(batch.nodes, key) : TRUE
  OBVIOUS
<1>3. e = <<M + a, c>>
  BY <1>1, <1>2
<1>4. PICK dir : dir = batch.nodes[M + a]
  OBVIOUS
<1>5. dir.key = <<n, M + a>>
  BY <1>4 DEF Whole
<1>6. there = [key |-> batch.nodes[e[1]].key,
               path |-> <<batch.nodes[e[1]].children[e[2]].name>> \o here.path]
  BY <1>2 DEF UpOne
<1>7. e[1] = M + a /\ e[2] = c
  BY <1>3
<1>8. there = [key |-> dir.key, path |-> <<dir.children[c].name>> \o here.path]
  BY <1>4, <1>6, <1>7
<1>9. dir.children[c].name = Last(d)
  BY <1>1, <1>4
<1> QED
  BY <1>1, <1>5, <1>8, <1>9 DEF Above1

\* What one is at, below the root, has one entry; d is what p leaves without
\* its last k names.
EnteredAt(batch, key, M, order, p, k, d, type) ==
  /\ EnteredOnce(batch, key, M, order, d, type) /\ key # batch.root
  /\ Len(d) = Len(p) - k /\ \A x \in 1 .. Len(p) - k : d[x] = p[x]

\* Where one is k entries above a file is entered once, but for the root.
LEMMA EnteredAbove ==
  ASSUME NEW mods \in Seq(Mods), NEW n, NEW batch, NEW order, Whole(batch, n, mods, order),
         NEW i \in 1 .. Len(mods), NEW p, p = mods[i].path, NEW m \in Nat, m = Len(p),
         NEW k \in 0 .. m, NEW here, Reached(here, n, mods, order, i, p, k), k < m
  PROVE  \E d \in Seq(Nat) : \E type :
           EnteredAt(batch, here.key, Len(mods), order, p, k, d, type)
<1>1. PICK M \in Nat : M = Len(mods)
  OBVIOUS
<1>2. PICK l \in Nat : l = Len(order)
  <2>1. Len(order) \in Nat
    BY DEF Whole, Ordered, Sequence
  <2> QED
    BY <2>1
<1>3. PICK r \in 1 .. l : order[r] = Root /\ batch.root = <<n, M + r>>
  BY <1>1, <1>2 DEF Whole
<1>4. CASE k = 0
  <2>1. here.key = <<n, i>>
    BY <1>4 DEF Reached
  <2>2. EnteredOnce(batch, <<n, i>>, Len(mods), order, mods[i].path, "file")
    BY FileEnteredOnce
  <2>3. i # M + r
    BY <1>1, <1>3
  <2>4. <<n, i>> # <<n, M + r>>
    BY <2>3
  <2>5. p \in Seq(Nat)
    BY ModType, PathType
  <2>6. EnteredAt(batch, here.key, Len(mods), order, p, k, p, "file")
    BY <1>3, <1>4, <2>1, <2>2, <2>4 DEF EnteredAt
  <2> QED
    BY <2>5, <2>6
<1>5. CASE k # 0
  <2>1. PICK j \in 1 .. l : /\ here.key = <<n, M + j>>
                            /\ Len(order[j]) = m - k /\ \A x \in 1 .. m - k : order[j][x] = p[x]
    BY <1>1, <1>2, <1>5 DEF Reached
  <2>2. order[j] \in Seq(Nat)
    <3>1. order[j] \in DirsOf(mods)
      BY <1>2 DEF Whole, Ordered
    <3> QED
      BY <3>1, DirsFacts
  <2>3. order[j] # Root
    <3>1. Len(order[j]) # 0
      BY <2>1
    <3>2. Len(Root) = 0
      BY DEF Root
    <3>3. Len(order[j]) # Len(Root)
      BY <3>1, <3>2
    <3> QED
      BY <3>3, Zenon
  <2>4. j # r
    BY <1>3, <2>3
  <2>5. <<n, M + j>> # <<n, M + r>>
    BY <2>4
  <2>6. j \in 1 .. Len(order)
    BY <1>2
  <2>7. EnteredOnce(batch, <<n, M + j>>, Len(mods), order, order[j], "dir")
    BY <1>1, <2>3, <2>6, DirEnteredOnce
  <2>8. here.key # batch.root
    BY <1>3, <2>1, <2>5
  <2>9. EnteredAt(batch, here.key, Len(mods), order, p, k, order[j], "dir")
    BY <1>1, <2>1, <2>7, <2>8 DEF EnteredAt
  <2> QED
    BY <2>2, <2>9
<1> QED
  BY <1>4, <1>5

\* One entry further.
LEMMA ReachedNext ==
  ASSUME NEW mods \in Seq(Mods), NEW n, NEW batch, NEW order, Whole(batch, n, mods, order),
         NEW i \in 1 .. Len(mods), NEW p, p = mods[i].path, NEW m \in Nat, m = Len(p),
         NEW k \in 0 .. m, NEW here, Reached(here, n, mods, order, i, p, k), k < m,
         NEW there, there = UpOne(batch, here)
  PROVE  Reached(there, n, mods, order, i, p, k + 1)
<1>1. PICK M \in Nat : M = Len(mods)
  OBVIOUS
<1>2. PICK d \in Seq(Nat) :
        \E type : EnteredAt(batch, here.key, Len(mods), order, p, k, d, type)
  BY EnteredAbove
<1>3. PICK type : EnteredAt(batch, here.key, M, order, p, k, d, type)
  BY <1>1, <1>2
<1>4. /\ EnteredOnce(batch, here.key, M, order, d, type) /\ here.key # batch.root
      /\ Len(d) = m - k /\ \A x \in 1 .. m - k : d[x] = p[x]
  BY <1>3 DEF EnteredAt
<1>5. PICK key : key = here.key
  OBVIOUS
<1>6. PICK a \in 1 .. Len(order) : Above1(there, here, n, M, order, d, a)
  BY <1>1, <1>4, <1>5, UpFromEntered
<1>7. d # Root
  <2>1. Len(d) # 0
    BY <1>4
  <2>2. Len(Root) = 0
    BY DEF Root
  <2>3. Len(d) # Len(Root)
    BY <2>1, <2>2
  <2> QED
    BY <2>3, Zenon
<1>8. /\ Front(d) \in Seq(Nat) /\ Last(d) \in Nat /\ Len(Front(d)) = m - k - 1
      /\ \A x \in 1 .. m - k - 1 : Front(d)[x] = d[x]
      /\ Last(d) = p[m - k]
  <2>1. /\ Front(d) \in Seq(Nat) /\ Last(d) \in Nat /\ Len(Front(d)) = Len(d) - 1
        /\ \A x \in 1 .. Len(d) - 1 : Front(d)[x] = d[x]
    BY <1>7, FrontFacts
  <2>2. Last(d) = d[m - k]
    BY <1>4 DEF Last
  <2>3. m - k \in 1 .. m - k
    OBVIOUS
  <2>4. d[m - k] = p[m - k]
    BY <1>4, <2>3
  <2> QED
    BY <1>4, <2>1, <2>2, <2>4
<1>9. PICK b : b = order[a]
  OBVIOUS
<1>10. Len(b) = m - (k + 1) /\ \A x \in 1 .. m - (k + 1) : b[x] = p[x]
  <2>1. b = Front(d)
    BY <1>6, <1>9 DEF Above1
  <2> QED
    BY <1>4, <1>8, <2>1, SMTT(60)
<1>11. PICK last \in Nat : last = Last(d)
  BY <1>8
<1>12. PICK path \in Seq(Nat) : path = here.path
  BY DEF Reached
<1>13. Len(path) = k /\ \A x \in 1 .. k : path[x] = p[m - k + x]
  BY <1>12 DEF Reached
<1>14. there.key = <<n, M + a>> /\ there.path = <<last>> \o path
  <2>1. there = [key |-> <<n, M + a>>, path |-> <<last>> \o path]
    BY <1>6, <1>11, <1>12 DEF Above1
  <2> QED
    BY <2>1, SMTT(60)
<1>15. PICK up : up = <<last>> \o path
  OBVIOUS
<1>16. /\ up \in Seq(Nat) /\ Len(up) = k + 1 /\ up[1] = last
       /\ \A x \in 2 .. k + 1 : up[x] = path[x - 1]
  BY <1>11, <1>12, <1>13, <1>15, SMTT(60)
<1>17. ASSUME NEW x \in 1 .. k + 1 PROVE up[x] = p[m - (k + 1) + x]
  <2>1. CASE x = 1
    <3>1. m - (k + 1) + x = m - k
      BY <2>1
    <3> QED
      BY <1>8, <1>11, <1>16, <2>1, <3>1
  <2>2. CASE x # 1
    <3>1. x \in 2 .. k + 1 /\ x - 1 \in 1 .. k /\ m - k + (x - 1) = m - (k + 1) + x
      BY <2>2
    <3>2. path[x - 1] = p[m - k + (x - 1)]
      BY <1>13, <3>1
    <3> QED
      BY <1>16, <3>1, <3>2
  <2> QED
    BY <2>1, <2>2
<1>18. k + 1 # 0
  OBVIOUS
<1>19. there = [key |-> there.key, path |-> there.path]
  BY <1>6 DEF Above1
<1> QED
  BY <1>1, <1>9, <1>10, <1>14, <1>15, <1>16, <1>17, <1>18, <1>19, ZenonT(60) DEF Reached

\* Paths are not longer than a push has directories.
LEMMA DeepEnough ==
  ASSUME NEW mods \in Seq(Mods), NEW order, Ordered(mods, order), NEW i \in 1 .. Len(mods),
         NEW m \in Nat, m = Len(mods[i].path), NEW l \in Nat, l = Len(order)
  PROVE  m <= l
<1>1. PICK p \in Paths : p = mods[i].path
  <2>1. mods[i] \in Mods
    OBVIOUS
  <2> QED
    BY <2>1, ModType
<1>2. p \in Seq(Nat) /\ Len(p) = m /\ m # 0
  BY <1>1, PathType
<1>3. ASSUME NEW q \in 0 .. m - 1 PROVE \E j \in 1 .. l : Len(order[j]) = q
  <2>1. PICK d \in Seq(Nat) : d = SubSeq(p, 1, q)
    <3>1. SubSeq(p, 1, q) \in Seq(Nat)
      BY <1>2, SMTT(60)
    <3> QED
      BY <3>1
  <2>2. Len(d) = q /\ \A x \in 1 .. q : d[x] = p[x]
    BY <1>2, <2>1
  <2>3. Above(d, mods[i].path)
    BY <1>1, <1>2, <2>2 DEF Above
  <2>4. d \in DirsOf(mods)
    BY <2>3, DirsFacts
  <2>5. PICK j \in 1 .. l : order[j] = d
    BY <2>4 DEF Ordered
  <2> QED
    BY <2>2, <2>5
<1>4. PICK f : f = [q \in 0 .. m - 1 |-> CHOOSE j \in 1 .. l : Len(order[j]) = q]
  OBVIOUS
<1>5. \A q \in 0 .. m - 1 : f[q] \in 1 .. l /\ Len(order[f[q]]) = q
  BY <1>3, <1>4
<1>6. f \in Injection(0 .. m - 1, 1 .. l)
  <2>1. f \in [0 .. m - 1 -> 1 .. l] /\ DOMAIN f = 0 .. m - 1
    BY <1>4, <1>5
  <2>2. \A a, b \in 0 .. m - 1 : f[a] = f[b] => a = b
    <3>1. ASSUME NEW a \in 0 .. m - 1, NEW b \in 0 .. m - 1, f[a] = f[b] PROVE a = b
      <4>1. Len(order[f[a]]) = a /\ Len(order[f[b]]) = b
        BY <1>5
      <4> QED
        BY <3>1, <4>1, Zenon
    <3> QED
      BY <3>1
  <2> QED
    BY <2>1, <2>2 DEF Injection, IsInjective
<1>7. Cardinality(0 .. m - 1) = m /\ Cardinality(1 .. l) = l /\ IsFiniteSet(1 .. l)
  <2>1. 0 \in Int /\ 1 \in Int /\ m - 1 \in Int /\ l \in Int
    OBVIOUS
  <2>2. Cardinality(0 .. m - 1) = IF 0 > m - 1 THEN 0 ELSE m - 1 - 0 + 1
    BY <2>1, FS_Interval
  <2>3. IsFiniteSet(1 .. l) /\ Cardinality(1 .. l) = IF 1 > l THEN 0 ELSE l - 1 + 1
    BY <2>1, FS_Interval
  <2> QED
    BY <1>2, <2>2, <2>3
<1>8. Cardinality(0 .. m - 1) <= Cardinality(1 .. l)
  BY <1>6, <1>7, FS_Injection
<1> QED
  BY <1>7, <1>8

\* From a file one climbs to the root, along its path.
LEMMA ClimbsToRoot ==
  ASSUME NEW mods \in Seq(Mods), NEW n, NEW batch, NEW order, Whole(batch, n, mods, order),
         NEW i \in 1 .. Len(mods)
  PROVE  Climb(batch, <<n, i>>)[Len(batch.nodes)] = [key |-> batch.root, path |-> mods[i].path]
<1>1. PICK M \in Nat : M = Len(mods)
  OBVIOUS
<1>2. PICK l \in Nat : l = Len(order)
  <2>1. Len(order) \in Nat
    BY DEF Whole, Ordered, Sequence
  <2> QED
    BY <2>1
<1>3. PICK N \in Nat : N = Len(batch.nodes) /\ N = M + l
  <2>1. Len(batch.nodes) = M + l
    BY <1>1, <1>2 DEF Whole
  <2> QED
    BY <2>1
<1>4. PICK p \in Paths : p = mods[i].path
  <2>1. mods[i] \in Mods
    OBVIOUS
  <2> QED
    BY <2>1, ModType
<1>5. PICK m \in Nat : m = Len(p) /\ m # 0 /\ p \in Seq(Nat)
  BY <1>4, PathType
<1>6. m <= N
  <2>1. Ordered(mods, order)
    BY DEF Whole
  <2>2. m <= l
    BY <1>2, <1>4, <1>5, <2>1, DeepEnough
  <2> QED
    BY <1>3, <2>2
<1>7. PICK climb : climb = Climb(batch, <<n, i>>)
  OBVIOUS
<1>8. Climbs(climb, batch, <<n, i>>, N)
  <2>1. PICK key : key = <<n, i>>
    OBVIOUS
  <2>2. Climbs(Climb(batch, key), batch, key, N)
    BY <1>3, ClimbClimbs
  <2> QED
    BY <1>7, <2>1, <2>2
<1>9. climb[0] = [key |-> <<n, i>>, path |-> <<>>]
  BY <1>8 DEF Climbs
<1>10. \A k \in 0 .. N : k # 0 => climb[k] = UpOne(batch, climb[k - 1])
  BY <1>8 DEF Climbs
<1>11. PICK U : U = {k \in 0 .. m : Reached(climb[k], n, mods, order, i, p, k)}
  OBVIOUS
<1>12. 0 \in U
  <2>1. PICK here : here = climb[0]
    OBVIOUS
  <2>2. here.key = <<n, i>> /\ here.path = <<>> /\ here = [key |-> <<n, i>>, path |-> <<>>]
    BY <1>9, <2>1
  <2>3. <<>> \in Seq(Nat) /\ Len(<<>>) = 0 /\ 1 .. 0 = {}
    OBVIOUS
  <2>4. Reached(here, n, mods, order, i, p, 0)
    BY <2>2, <2>3 DEF Reached
  <2> QED
    BY <1>11, <2>1, <2>4
<1>13. ASSUME NEW k \in 0 .. m, k \in U, k < m PROVE k + 1 \in U
  <2>1. k + 1 \in 0 .. m /\ k + 1 \in 0 .. N /\ k + 1 # 0 /\ k + 1 - 1 = k
    BY <1>6, <1>13
  <2>2. PICK here, there : here = climb[k] /\ there = climb[k + 1]
    OBVIOUS
  <2>3. there = UpOne(batch, here)
    BY <1>10, <2>1, <2>2
  <2>4. Reached(here, n, mods, order, i, p, k)
    BY <1>11, <1>13, <2>2
  <2>5. Reached(there, n, mods, order, i, p, k + 1)
    BY <1>4, <1>5, <1>13, <2>3, <2>4, ReachedNext
  <2> QED
    BY <1>11, <2>1, <2>2, <2>5
<1>14. \A k \in 0 .. m : k \in U
  BY <1>12, <1>13, UpTo
<1>15. PICK top : top = climb[m]
  OBVIOUS
<1>16. Reached(top, n, mods, order, i, p, m)
  BY <1>11, <1>14, <1>15
<1>17. PICK r \in 1 .. l : order[r] = Root /\ batch.root = <<n, M + r>>
  BY <1>1, <1>2 DEF Whole
<1>18. top.key = batch.root
  <2>1. PICK j \in 1 .. l : top.key = <<n, M + j>> /\ Len(order[j]) = m - m
    BY <1>1, <1>2, <1>5, <1>16 DEF Reached
  <2>2. order[j] \in Seq(Nat)
    <3>1. order[j] \in DirsOf(mods)
      BY <1>2 DEF Whole, Ordered
    <3> QED
      BY <3>1, DirsFacts
  <2>3. Len(order[j]) = 0
    BY <2>1
  <2>4. order[j] = Root
    BY <2>2, <2>3, FrontFacts
  <2>5. j = r
    BY <1>2, <1>17, <2>4 DEF Whole, Ordered
  <2> QED
    BY <1>17, <2>1, <2>5
<1>19. top.path = p
  <2>1. PICK path \in Seq(Nat) : path = top.path
    BY <1>16 DEF Reached
  <2>2. Len(path) = m /\ \A x \in 1 .. m : path[x] = p[m - m + x]
    BY <1>5, <1>16, <2>1 DEF Reached
  <2>3. \A x \in 1 .. m : path[x] = p[x]
    BY <2>2
  <2>4. path = p
    BY <1>5, <2>2, <2>3, SequenceOf, SameSequence
  <2> QED
    BY <2>1, <2>4
<1>20. top = [key |-> batch.root, path |-> p]
  <2>1. top = [key |-> top.key, path |-> top.path]
    BY <1>16 DEF Reached
  <2> QED
    BY <1>18, <1>19, <2>1
<1>21. PICK rest \in Nat : rest = N - m
  BY <1>6
<1>22. PICK W : W = {k \in 0 .. rest : climb[m + k] = top}
  OBVIOUS
<1>23. 0 \in W
  BY <1>15, <1>22
<1>24. ASSUME NEW k \in 0 .. rest, k \in W, k < rest PROVE k + 1 \in W
  <2>1. /\ k + 1 \in 0 .. rest /\ m + (k + 1) \in 0 .. N /\ m + (k + 1) # 0
        /\ m + (k + 1) - 1 = m + k
    BY <1>21, <1>24
  <2>2. climb[m + (k + 1)] = UpOne(batch, climb[m + k])
    BY <1>10, <2>1
  <2>3. climb[m + k] = top
    BY <1>22, <1>24
  <2>4. UpOne(batch, top) = top
    BY <1>18 DEF UpOne
  <2> QED
    BY <1>22, <2>1, <2>2, <2>3, <2>4
<1>25. \A k \in 0 .. rest : k \in W
  BY <1>23, <1>24, UpTo
<1>26. climb[m + rest] = top
  <2>1. rest \in W
    BY <1>25
  <2> QED
    BY <1>22, <2>1
<1>27. climb[N] = top
  BY <1>21, <1>26
<1> QED
  BY <1>3, <1>4, <1>7, <1>20, <1>27

\* What TreeIsWhole says of the j-th node of a batch.
Entered(batch, j) ==
  LET here == Entries(batch.nodes, batch.nodes[j].key)
  IN  IF batch.nodes[j].key = batch.root THEN here = {}
      ELSE \E e \in here :
             /\ here = {e}
             /\ batch.nodes[e[1]].children[e[2]].type = batch.nodes[j].type

\* A node that is entered once, with its type.
LEMMA OnceIsEntered ==
  ASSUME NEW batch, NEW M, NEW order, NEW j, NEW key, key = batch.nodes[j].key,
         key # batch.root, NEW d, NEW type, type = batch.nodes[j].type,
         EnteredOnce(batch, key, M, order, d, type)
  PROVE  Entered(batch, j)
<1>1. PICK a \in 1 .. Len(order), c \in Nat :
        /\ Entries(batch.nodes, key) = {<<M + a, c>>}
        /\ batch.nodes[M + a].children[c].type = type
  BY DEF EnteredOnce
<1>2. PICK e : e = <<M + a, c>>
  OBVIOUS
<1>3. e[1] = M + a /\ e[2] = c
  BY <1>2
<1>4. Entries(batch.nodes, key) = {e} /\ batch.nodes[e[1]].children[e[2]].type = type
  BY <1>1, <1>2, <1>3
<1>5. e \in Entries(batch.nodes, key)
  BY <1>4
<1> QED
  BY <1>4, <1>5 DEF Entered

\* Every node of a batch is entered once, but for the root.
LEMMA EveryNodeEntered ==
  ASSUME NEW mods \in Seq(Mods), NEW n, NEW batch, NEW order, Whole(batch, n, mods, order),
         NEW j \in DOMAIN batch.nodes
  PROVE  Entered(batch, j)
<1>1. PICK M \in Nat : M = Len(mods)
  OBVIOUS
<1>2. PICK l \in Nat : l = Len(order)
  <2>1. Len(order) \in Nat
    BY DEF Whole, Ordered, Sequence
  <2> QED
    BY <2>1
<1>3. j \in 1 .. M + l
  BY <1>1, <1>2 DEF Whole, Sequence
<1>4. PICK r \in 1 .. l : order[r] = Root /\ batch.root = <<n, M + r>>
  BY <1>1, <1>2 DEF Whole
<1>5. CASE j \in 1 .. M
  <2>1. batch.nodes[j] = FileNode(n, j, mods[j], Policy(mods))
    BY <1>1, <1>5 DEF Whole
  <2>2. batch.nodes[j].key = <<n, j>> /\ batch.nodes[j].type = "file"
    BY <2>1 DEF FileNode, FileKey
  <2>3. j \in 1 .. Len(mods)
    BY <1>1, <1>5
  <2>4. EnteredOnce(batch, <<n, j>>, Len(mods), order, mods[j].path, "file")
    BY <2>3, FileEnteredOnce
  <2>5. j # M + r
    BY <1>5
  <2>6. <<n, j>> # batch.root
    BY <1>4, <2>5
  <2> QED
    BY <2>2, <2>4, <2>6, OnceIsEntered
<1>6. CASE j \notin 1 .. M
  <2>1. PICK k \in 1 .. l : j = M + k
    <3>1. j - M \in 1 .. l /\ j = M + (j - M)
      BY <1>3, <1>6
    <3> QED
      BY <3>1
  <2>2. batch.nodes[j].key = <<n, M + k>> /\ batch.nodes[j].type = "dir"
    BY <1>1, <1>2, <2>1 DEF Whole
  <2>3. k \in 1 .. Len(order)
    BY <1>2
  <2>4. CASE order[k] = Root
    <3>1. k = r
      <4>1. order[k] = order[r] /\ r \in 1 .. Len(order)
        BY <1>2, <1>4, <2>4
      <4> QED
        BY <2>3, <4>1 DEF Whole, Ordered
    <3>2. Entries(batch.nodes, <<n, M + k>>) = {}
      BY <1>1, <2>3, <2>4, DirEnteredOnce
    <3> QED
      BY <1>4, <2>2, <3>1, <3>2 DEF Entered
  <2>5. CASE order[k] # Root
    <3>1. EnteredOnce(batch, <<n, M + k>>, Len(mods), order, order[k], "dir")
      BY <1>1, <2>3, <2>5, DirEnteredOnce
    <3>2. k # r
      BY <1>4, <2>5
    <3>3. <<n, M + k>> # batch.root
      BY <1>4, <3>2
    <3> QED
      BY <2>2, <3>1, <3>3, OnceIsEntered
  <2> QED
    BY <2>4, <2>5
<1> QED
  BY <1>5, <1>6

\* Every node of a batch is entered in one directory, once, with its type, but
\* for the root, and from the root down to a file the entries spell its path.
THEOREM ContentTreeIsWhole == Spec => []TreeIsWhole
<1>1. IInv => TreeIsWhole
  <2>1. ASSUME IInv, NEW n \in DOMAIN batches
        PROVE  /\ \A j \in DOMAIN batches[n].nodes : Entered(batches[n], j)
               /\ \A i \in DOMAIN Modifies(log[n].commits) :
                    Climb(batches[n], <<n, i>>)[Len(batches[n].nodes)]
                      = [key |-> batches[n].root, path |-> Modifies(log[n].commits)[i].path]
    <3>1. PICK mods \in Seq(Mods) : mods = Modifies(log[n].commits)
      BY <2>1, PushFacts
    <3>2. PICK batch : batch = batches[n]
      OBVIOUS
    <3>3. batch = Batch(n, mods)
      BY <2>1, <3>1, <3>2, PushFacts
    <3>4. CASE mods = <<>>
      <4>1. batch.nodes = <<>>
        BY <3>3, <3>4 DEF Batch
      <4>2. DOMAIN batch.nodes = {} /\ DOMAIN mods = {}
        BY <3>4, <4>1
      <4> QED
        BY <3>1, <3>2, <4>2
    <3>5. CASE mods # <<>>
      <4>1. PICK order : Whole(batch, n, mods, order)
        BY <3>3, <3>5, BatchIsWhole
      <4>2. \A j \in DOMAIN batch.nodes : Entered(batch, j)
        BY <4>1, EveryNodeEntered
      <4>3. \A i \in 1 .. Len(mods) :
              Climb(batch, <<n, i>>)[Len(batch.nodes)]
                = [key |-> batch.root, path |-> mods[i].path]
        BY <4>1, ClimbsToRoot
      <4>4. DOMAIN mods = 1 .. Len(mods)
        OBVIOUS
      <4> QED
        BY <3>1, <3>2, <4>2, <4>3, <4>4
    <3> QED
      BY <3>4, <3>5
  <2> QED
    BY <2>1 DEF TreeIsWhole, Entered
<1> QED
  BY <1>1, Invariance, PTL
==============================================================================
