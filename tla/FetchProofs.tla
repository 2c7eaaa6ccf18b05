----------------------------- MODULE FetchProofs -----------------------------
(***************************************************************************)
(* Proofs about Fetch for any refs, anchors, notes and numbers of files.   *)
(***************************************************************************)
EXTENDS Fetch, FiniteSetTheorems, WellFoundedInduction, TLAPS

-----------------------------------------------------------------------------
(* Operators.                                                              *)

Less == {ss \in Nat \X Nat : ss[1] < ss[2]}

\* SmallestOf is one of the elements, if there are any.
LEMMA SmallestIsOne ==
  ASSUME NEW S \in SUBSET Nat, S # {}
  PROVE  SmallestOf(S) \in S
<1>1. \E c \in S : \A d \in S : c <= d
  <2>1. IsWellFoundedOn(Less, Nat)
    BY NatLessThanWellFounded DEF Less, OpToRel
  <2>2. PICK c \in S : \A d \in S : <<d, c>> \notin Less
    BY <2>1, WFMin, Zenon
  <2>3. ASSUME NEW d \in S PROVE c <= d
    <3>1. c \in Nat /\ d \in Nat
      OBVIOUS
    <3>2. d < c => <<d, c>> \in Less
      BY <3>1 DEF Less
    <3> QED
      BY <2>2, <3>1, <3>2
  <2> QED
    BY <2>3
<1> QED
  BY <1>1 DEF SmallestOf

\* The refs of an import, in any order: a sequence that names each once.
LEMMA Requests ==
  ASSUME NEW R \in SUBSET Refs, NEW refs \in SetToSeqs(R)
  PROVE  /\ refs \in Seq(Refs)
         /\ \A i, j \in DOMAIN refs : i # j => refs[i] # refs[j]
<1>1. IsFiniteSet(R)
  BY FetchAssumption, FS_Subset
<1>2. Cardinality(R) \in Nat
  BY <1>1, FS_CardinalityType
<1>3. refs \in [1 .. Cardinality(R) -> R]
  BY DEF SetToSeqs
<1>4. refs \in Seq(Refs)
  BY <1>2, <1>3
<1> QED
  BY <1>4 DEF SetToSeqs

-----------------------------------------------------------------------------
(* The chain and the notes.                                                *)

IdsOf(r) == {a.id : a \in {b \in anchors : b.ref = r}}
NotedAt(n, r) == \E c \in DOMAIN notes : notes[c].anchor = n /\ notes[c].ref \in {None, r}

LogInv ==
  /\ anchors \subseteq Log!Anchor
  /\ \A a, b \in anchors : a.id = b.id => a = b
  /\ \A a \in anchors : a.parent # 0 => a.parent \in IdsOf(a.ref)

NotesInv ==
  /\ DOMAIN notes \subseteq Commits
  /\ \A c \in DOMAIN notes : notes[c].ref \in Refs \cup {None} /\ notes[c].anchor \in TxIds

\* The parent that the walk reads is that of the anchor.
LEMMA ParentIs ==
  ASSUME LogInv, NEW a \in anchors
  PROVE  ParentOf(a.id) = a.parent
<1>1. \E b \in anchors : b.id = a.id
  OBVIOUS
<1>2. (CHOOSE b \in anchors : b.id = a.id) = a
  BY <1>1 DEF LogInv
<1> QED
  BY <1>2 DEF ParentOf

\* A parent is an anchor of the same ref.
LEMMA ParentFacts ==
  ASSUME LogInv, NEW r \in Refs, NEW n \in IdsOf(r)
  PROVE  /\ n \in TxIds
         /\ ParentOf(n) = 0 \/ ParentOf(n) \in IdsOf(r)
<1>1. PICK a \in anchors : a.ref = r /\ a.id = n
  BY DEF IdsOf
<1>2. ParentOf(n) = a.parent
  BY <1>1, ParentIs
<1> QED
  BY <1>1, <1>2 DEF LogInv, Log!Anchor

\* What everybody else does, and what it leaves as it was.
World ==
  \/ \E n \in TxIds, r \in Refs : \E parent \in TxIds \cup {0} : Publish(n, r, parent)
  \/ \E c \in Commits, a \in anchors : \E r \in {a.ref, None} : Annotate(c, a, r)

Grown ==
  /\ \A r : \A n \in IdsOf(r) : n \in IdsOf(r)' /\ ParentOf(n)' = ParentOf(n)
  /\ \A n, r : NotedAt(n, r) => NotedAt(n, r)'
  /\ \A c \in DOMAIN notes : c \in DOMAIN notes' /\ notes'[c] = notes[c]

session == <<pc, known, listed, asked, queue, walk, marks, stream>>

\* A push or a note changes neither the session nor what the chain and the notes
\* said before.
LEMMA WorldStep ==
  ASSUME LogInv, NotesInv, World
  PROVE  LogInv' /\ NotesInv' /\ Grown /\ UNCHANGED session
<1>1. ASSUME NEW n \in TxIds, NEW r \in Refs, NEW parent \in TxIds \cup {0},
             Publish(n, r, parent)
      PROVE  LogInv' /\ NotesInv' /\ Grown /\ UNCHANGED session
  <2> DEFINE new == [id |-> n, ref |-> r, parent |-> parent]
  <2>1. /\ anchors' = anchors \cup {new}
        /\ \A a \in anchors : a.id < n
        /\ parent \in {0} \cup {a.id : a \in Log!Tips(r)}
    BY <1>1 DEF Publish, Log!Publish
  <2>2. notes' = notes /\ UNCHANGED session
    BY <1>1 DEF Publish, session, walk
  <2>3. \A q : IdsOf(q) \subseteq IdsOf(q)'
    BY <2>1 DEF IdsOf
  <2>4. parent # 0 => parent \in IdsOf(r)
    BY <2>1 DEF Log!Tips, IdsOf
  <2>5. LogInv'
    <3>1. anchors' \subseteq Log!Anchor
      BY <2>1 DEF LogInv, Log!Anchor
    <3>2. \A a, b \in anchors' : a.id = b.id => a = b
      <4>1. \A a \in anchors : a.id \in Nat
        BY FetchAssumption DEF LogInv, Log!Anchor
      <4> QED
        BY <2>1, <4>1, FetchAssumption DEF LogInv
    <3>3. \A a \in anchors' : a.parent # 0 => a.parent \in IdsOf(a.ref)'
      BY <2>1, <2>3, <2>4 DEF LogInv
    <3> QED
      BY <3>1, <3>2, <3>3 DEF LogInv
  <2>6. ASSUME NEW q, NEW m \in IdsOf(q) PROVE ParentOf(m)' = ParentOf(m)
    <3>1. PICK a \in anchors : a.id = m
      BY DEF IdsOf
    <3>2. ParentOf(m) = a.parent
      BY <3>1, ParentIs
    <3>3. a \in anchors' /\ \A b \in anchors' : b.id = m => b = a
      BY <2>1, <2>5, <3>1 DEF LogInv
    <3>4. (CHOOSE b \in anchors' : b.id = m) = a
      BY <3>1, <3>3
    <3> QED
      BY <3>2, <3>4 DEF ParentOf
  <2>7. NotesInv' /\ \A m, q : NotedAt(m, q) => NotedAt(m, q)'
    BY <2>2 DEF NotesInv, NotedAt
  <2> QED
    BY <2>2, <2>3, <2>5, <2>6, <2>7 DEF Grown
<1>2. ASSUME NEW c \in Commits, NEW a \in anchors, NEW r \in {a.ref, None},
             Annotate(c, a, r)
      PROVE  LogInv' /\ NotesInv' /\ Grown /\ UNCHANGED session
  <2>1. /\ anchors' = anchors /\ UNCHANGED session
        /\ c \notin DOMAIN notes
        /\ notes' = [d \in DOMAIN notes \cup {c} |->
                       IF d = c THEN [ref |-> r, anchor |-> a.id] ELSE notes[d]]
    BY <1>2 DEF Annotate, session, walk
  <2>2. LogInv'
    BY <2>1 DEF LogInv, IdsOf
  <2>3. \A d \in DOMAIN notes : d \in DOMAIN notes' /\ notes'[d] = notes[d]
    BY <2>1
  <2>4. NotesInv'
    <3>1. a.ref \in Refs /\ a.id \in TxIds
      BY DEF LogInv, Log!Anchor
    <3> QED
      BY <2>1, <3>1 DEF NotesInv
  <2>5. \A n, q : NotedAt(n, q) => NotedAt(n, q)'
    BY <2>3 DEF NotedAt
  <2>6. \A q : \A n \in IdsOf(q) : n \in IdsOf(q)' /\ ParentOf(n)' = ParentOf(n)
    BY <2>1 DEF IdsOf, ParentOf
  <2> QED
    BY <2>1, <2>2, <2>3, <2>4, <2>5, <2>6 DEF Grown
<1> QED
  BY <1>1, <1>2 DEF World

\* Any other step leaves the chain and the notes as they were.
LEMMA RepoStep ==
  ASSUME LogInv, NotesInv, UNCHANGED repo
  PROVE  LogInv' /\ NotesInv' /\ Grown
BY DEF repo, LogInv, NotesInv, Grown, IdsOf, ParentOf, NotedAt

\* Where the walk is told to stop, a note says that git has that anchor.
LEMMA LastImportedIsNoted ==
  ASSUME NotesInv, NEW r \in Refs, NEW readable \in Readable
  PROVE  LET n == LastImported(r, readable)
         IN  n \in TxIds \cup {0} /\ (n # 0 => NotedAt(n, r))
<1> DEFINE S == {d \in readable : notes[d].ref \in {None, r}}
           c == SmallestOf(S)
<1>1. S \in SUBSET Nat /\ S \subseteq Commits /\ S \subseteq DOMAIN notes
  BY FetchAssumption DEF NotesInv, Readable
<1>2. CASE S = {}
  <2>1. c = None
    BY <1>2 DEF SmallestOf
  <2> QED
    BY <2>1 DEF LastImported
<1>3. CASE S # {}
  <2>1. c \in S
    BY <1>1, <1>3, SmallestIsOne
  <2>2. c # None
    BY <1>1, <2>1, FetchAssumption
  <2>3. LastImported(r, readable) = notes[c].anchor
    BY <2>2 DEF LastImported
  <2> QED
    BY <1>1, <2>1, <2>3 DEF NotesInv, NotedAt
<1> QED
  BY <1>2, <1>3

\* A commit that list finds for an anchor has a note that names the anchor.
LEMMA LookupFindsNote ==
  ASSUME NotesInv, NEW n, NEW readable \in Readable, LookupCommit(n, readable) # None
  PROVE  LET c == LookupCommit(n, readable)
         IN  c \in DOMAIN notes /\ c \in Commits /\ notes[c].anchor = n
<1> DEFINE S == {c \in readable : notes[c].anchor = n}
<1>1. S \in SUBSET Nat /\ S \subseteq Commits /\ S \subseteq DOMAIN notes
  BY FetchAssumption DEF NotesInv, Readable
<1>2. S # {}
  BY DEF LookupCommit, SmallestOf
<1>3. SmallestOf(S) \in S
  BY <1>1, <1>2, SmallestIsOne
<1> QED
  BY <1>1, <1>3 DEF LookupCommit

-----------------------------------------------------------------------------
(* The inductive invariant.  The walk keeps a path of parents from the     *)
(* branch head; what an import has written of a ref ends where the path    *)
(* that is left begins; a ref is waiting, at work or complete.             *)

HeadsInv ==
  /\ queue \in Seq(Refs) /\ asked \subseteq Refs
  /\ \A r \in Refs : head[r] # 0 => head[r] \in IdsOf(r)
  /\ \A r \in Refs : known[r] # 0 => known[r] \in IdsOf(r)

ListInv ==
  /\ pc = "new" => listed = None
  /\ listed # None =>
    \A r \in Refs : listed[r] \in Commits =>
      listed[r] \in DOMAIN notes /\ notes[listed[r]].anchor = known[r]

Entry == [ref: Refs, anchor: TxIds, blobs: SUBSET Nat, mark: Nat, from: Nat]

StreamInv ==
  /\ stream \in Seq(Entry)
  /\ pc = "new" => stream = <<>>
  /\ \A i \in DOMAIN stream :
       /\ stream[i].anchor \in IdsOf(stream[i].ref)
       /\ stream[i].mark # 0
       /\ pc # "failed" => /\ stream[i].ref \in asked /\ known[stream[i].ref] # 0
                           /\ stream[i].mark <= marks
                           /\ stream[i].blobs \subseteq 1 .. marks

NoneOf(r) == \A i \in DOMAIN stream : stream[i].ref # r

Complete(r) ==
  \/ NoneOf(r) /\ NotedAt(known[r], r)
  \/ \E i \in DOMAIN stream :
       /\ stream[i].ref = r /\ stream[i].anchor = known[r]
       /\ \A j \in DOMAIN stream : stream[j].ref = r => j <= i

InQueue(r) == \E i \in DOMAIN queue : queue[i] = r
AtWork(r) == pc \in {"walk", "emit"} /\ cur = r

QueueInv ==
  pc \in {"next", "walk", "emit", "done"} =>
    /\ \A i, j \in DOMAIN queue : i # j => queue[i] # queue[j]
    /\ \A i \in DOMAIN queue : queue[i] \in asked
    /\ pc = "done" => queue = <<>>
    /\ \A r \in asked : known[r] # 0 =>
         IF InQueue(r) THEN NoneOf(r) ELSE AtWork(r) \/ Complete(r)

PathInv ==
  pc \in {"walk", "emit"} =>
    /\ cur \in asked /\ known[cur] # 0 /\ ~InQueue(cur)
    /\ \A i \in DOMAIN found : found[i] \in IdsOf(cur)
    /\ \A i, j \in DOMAIN found : j = i + 1 => ParentOf(found[i]) = found[j]
    /\ found # <<>> => found[1] = known[cur]

WalkInv ==
  pc = "walk" =>
    /\ at \in IdsOf(cur)
    /\ at = IF found = <<>> THEN known[cur] ELSE ParentOf(found[Len(found)])
    /\ stop # 0 => NotedAt(stop, cur)
    /\ prev = 0 /\ NoneOf(cur)

\* Where the import of a ref has to go on: after a commit or a noted anchor.
EmitInv ==
  pc = "emit" =>
    LET next == IF found = <<>> THEN known[cur] ELSE ParentOf(found[Len(found)])
        last == stream[Len(stream)]
    IN  IF prev = 0
        THEN NoneOf(cur) /\ (next = 0 \/ NotedAt(next, cur))
        ELSE /\ stream # <<>>
             /\ last.mark = prev /\ last.ref = cur /\ last.anchor = next

Inv == /\ LogInv /\ NotesInv /\ TypeOK /\ HeadsInv /\ ListInv
       /\ StreamInv /\ MarksGivenOnce /\ CommitsFollowAnchors
       /\ QueueInv /\ PathInv /\ WalkInv /\ EmitInv

-----------------------------------------------------------------------------
(* Frames: what a step keeps that leaves these variables alone.            *)

\* What was written stays right while the chain and the notes grow, also after a
\* failure.
LEMMA StreamFrame ==
  ASSUME StreamInv, MarksGivenOnce, CommitsFollowAnchors, Grown, stream' = stream,
         pc' # "new",
         pc' # "failed" => pc # "failed" /\ UNCHANGED <<asked, known, marks>>
  PROVE  StreamInv' /\ MarksGivenOnce' /\ CommitsFollowAnchors'
<1>1. StreamInv'
  BY DEF StreamInv, Grown
<1>2. MarksGivenOnce'
  BY DEF MarksGivenOnce
<1>3. CommitsFollowAnchors'
  <2> SUFFICES ASSUME NEW i \in DOMAIN stream, NEW parent,
                      parent = ParentOf(stream[i].anchor)'
               PROVE  IF stream[i].from = 0
                      THEN parent = 0 \/ NotedAt(parent, stream[i].ref)'
                      ELSE /\ \A j \in IndexOfMark(stream[i].from) :
                                /\ j < i /\ stream[j].ref = stream[i].ref
                                /\ stream[j].anchor = parent
                           /\ IndexOfMark(stream[i].from) # {}
    BY DEF CommitsFollowAnchors, NotedAt, IndexOfMark
  <2>1. ParentOf(stream[i].anchor)' = ParentOf(stream[i].anchor)
    BY DEF StreamInv, Grown
  <2>2. stream[i].from = 0 /\ ParentOf(stream[i].anchor) # 0
        => NotedAt(ParentOf(stream[i].anchor), stream[i].ref)
    BY DEF CommitsFollowAnchors, NotedAt
  <2>3. ASSUME NEW n, NEW r, NotedAt(n, r) PROVE NotedAt(n, r)'
    BY <2>3 DEF Grown
  <2>4. stream[i].from # 0 =>
          /\ \A j \in IndexOfMark(stream[i].from) :
               /\ j < i /\ stream[j].ref = stream[i].ref
               /\ stream[j].anchor = ParentOf(stream[i].anchor)
          /\ IndexOfMark(stream[i].from) # {}
    BY DEF CommitsFollowAnchors
  <2> QED
    BY <2>1, <2>2, <2>3, <2>4
<1> QED
  BY <1>1, <1>2, <1>3

\* The invariant survives what everybody else does.
LEMMA SessionFrame ==
  ASSUME Inv, Grown, LogInv', NotesInv', UNCHANGED session,
         head' \in [Refs -> TxIds \cup {0}],
         \A r \in Refs : head'[r] # 0 => head'[r] \in IdsOf(r)'
  PROVE  Inv'
<1> USE DEF Inv, session, walk
<1>1. TypeOK' /\ HeadsInv' /\ ListInv'
  <2>1. TypeOK'
    BY DEF TypeOK, NotesInv
  <2>2. HeadsInv'
    <3>1. queue' = queue /\ asked' = asked /\ known' = known
      OBVIOUS
    <3>2. \A r \in Refs : known[r] # 0 => known[r] \in IdsOf(r)'
      BY DEF HeadsInv, Grown
    <3> HIDE DEF Inv, session, walk
    <3> QED
      BY <3>1, <3>2 DEF HeadsInv, Inv
  <2>3. ListInv'
    BY DEF ListInv, Grown
  <2> QED
    BY <2>1, <2>2, <2>3
<1>2. StreamInv' /\ MarksGivenOnce' /\ CommitsFollowAnchors'
  <2>1. CASE pc = "new"
    BY <2>1 DEF StreamInv, MarksGivenOnce, CommitsFollowAnchors
  <2>2. CASE pc # "new"
    BY <2>2, StreamFrame
  <2> QED
    BY <2>1, <2>2
<1>3. QueueInv'
  BY DEF QueueInv, InQueue, NoneOf, AtWork, Complete, Grown
<1>4. PathInv'
  BY DEF PathInv, InQueue, Grown
<1>5. WalkInv'
  BY DEF WalkInv, PathInv, NoneOf, Grown, TypeOK
<1>6. EmitInv'
  <2> DEFINE next == IF found = <<>> THEN known[cur] ELSE ParentOf(found[Len(found)])
  <2>1. pc = "emit" => next' = next
    BY DEF PathInv, Grown, TypeOK
  <2>2. NoneOf(cur)' = NoneOf(cur)
    BY DEF NoneOf
  <2> QED
    BY <2>1, <2>2 DEF EmitInv, Grown
<1> QED
  BY <1>1, <1>2, <1>3, <1>4, <1>5, <1>6

\* A step of the session sees the chain and the notes as they are.
LEMMA SameRepo ==
  ASSUME UNCHANGED repo
  PROVE  /\ \A r : IdsOf(r)' = IdsOf(r)
         /\ \A n : ParentOf(n)' = ParentOf(n)
         /\ \A n, r : NotedAt(n, r)' = NotedAt(n, r)
BY DEF repo, IdsOf, ParentOf, NotedAt

\* A queue that names each ref once, without its head.
LEMMA TailOfQueue ==
  ASSUME NEW s \in Seq(Refs), s # <<>>,
         \A i, j \in DOMAIN s : i # j => s[i] # s[j]
  PROVE  /\ Head(s) \in Refs /\ \E i \in DOMAIN s : s[i] = Head(s)
         /\ Tail(s) \in Seq(Refs)
         /\ \A r : (\E i \in DOMAIN Tail(s) : Tail(s)[i] = r)
                   <=> (\E i \in DOMAIN s : s[i] = r) /\ r # Head(s)
         /\ \A i, j \in DOMAIN Tail(s) : i # j => Tail(s)[i] # Tail(s)[j]
<1>1. /\ Len(s) \in Nat \ {0} /\ DOMAIN s = 1 .. Len(s)
      /\ Head(s) = s[1] /\ s[1] \in Refs /\ Tail(s) \in Seq(Refs)
  OBVIOUS
<1>2. /\ DOMAIN Tail(s) = 1 .. Len(s) - 1
      /\ \A i \in DOMAIN Tail(s) : Tail(s)[i] = s[i + 1]
  OBVIOUS
<1>3. ASSUME NEW r, NEW j \in DOMAIN s, s[j] = r, r # Head(s)
      PROVE  \E i \in DOMAIN Tail(s) : Tail(s)[i] = r
  <2>1. j - 1 \in DOMAIN Tail(s) /\ Tail(s)[j - 1] = s[j]
    BY <1>1, <1>2, <1>3
  <2> QED
    BY <1>3, <2>1
<1>4. ASSUME NEW r, NEW i \in DOMAIN Tail(s), Tail(s)[i] = r
      PROVE  (\E j \in DOMAIN s : s[j] = r) /\ r # Head(s)
  <2>1. i + 1 \in DOMAIN s /\ 1 \in DOMAIN s /\ i + 1 # 1 /\ s[i + 1] = r
    BY <1>1, <1>2, <1>4
  <2> QED
    BY <1>1, <2>1
<1>5. \A i, j \in DOMAIN Tail(s) : i # j => Tail(s)[i] # Tail(s)[j]
  BY <1>1, <1>2
<1>6. \E i \in DOMAIN s : s[i] = Head(s)
  BY <1>1
<1> QED
  BY <1>1, <1>3, <1>4, <1>5, <1>6

-----------------------------------------------------------------------------
(* The steps of a session.                                                 *)

\* Open loads heads that are anchors of their refs, or none.
LEMMA OpenStep ==
  ASSUME Inv, Open
  PROVE  Inv'
<1>1. /\ pc = "new" /\ pc' = "ready" /\ known' \in {head, [r \in Refs |-> 0]}
      /\ UNCHANGED <<repo, listed, asked, queue, walk, marks, stream>>
  BY DEF Open, At
<1>2. LogInv' /\ NotesInv' /\ Grown
  BY <1>1, RepoStep DEF Inv
<1>3. TypeOK'
  BY <1>1 DEF Inv, TypeOK, repo, walk
<1>4. HeadsInv'
  BY <1>1, <1>2, SameRepo DEF Inv, HeadsInv, repo
<1>5. ListInv'
  BY <1>1 DEF Inv, ListInv
<1>6. StreamInv' /\ MarksGivenOnce' /\ CommitsFollowAnchors'
  BY <1>1 DEF Inv, StreamInv, MarksGivenOnce, CommitsFollowAnchors
<1>7. QueueInv' /\ PathInv' /\ WalkInv' /\ EmitInv'
  BY <1>1 DEF QueueInv, PathInv, WalkInv, EmitInv
<1> QED
  BY <1>2, <1>3, <1>4, <1>5, <1>6, <1>7 DEF Inv

\* List answers commits whose notes name the known heads.
LEMMA ListStep ==
  ASSUME Inv, NEW readable \in Readable, NEW discovered, List(readable, discovered)
  PROVE  Inv'
<1> DEFINE fromStore == {r \in Refs : known[r] # 0 /\ LookupCommit(known[r], readable) # None}
<1>1. /\ pc \in {"ready", "done"} /\ listed = None
      /\ listed' = [r \in Refs |->
           IF r \in fromStore THEN LookupCommit(known[r], readable)
           ELSE IF fromStore = {} /\ r \in discovered THEN Found ELSE None]
      /\ UNCHANGED <<repo, pc, known, asked, queue, walk, marks, stream>>
  BY DEF List, Ready
<1>2. LogInv' /\ NotesInv' /\ Grown
  BY <1>1, RepoStep DEF Inv
<1>3. \A r \in fromStore : /\ listed'[r] \in Commits /\ listed'[r] \in DOMAIN notes
                           /\ notes[listed'[r]].anchor = known[r]
  BY <1>1, LookupFindsNote DEF Inv
<1>4. \A r \in Refs \ fromStore : listed'[r] \in {Found, None}
  BY <1>1
<1>5. TypeOK'
  <2>1. listed' \in [Refs -> Commits \cup {Found, None}]
    BY <1>1, <1>3, <1>4
  <2> QED
    BY <1>1, <2>1 DEF Inv, TypeOK, repo, walk
<1>6. HeadsInv'
  BY <1>1, SameRepo DEF Inv, HeadsInv, repo
<1>7. ListInv'
  <2>1. \A r \in Refs : listed'[r] \in Commits => r \in fromStore
    BY <1>4, FetchAssumption
  <2> QED
    BY <1>1, <1>3, <2>1 DEF ListInv, repo
<1>8. StreamInv' /\ MarksGivenOnce' /\ CommitsFollowAnchors'
  BY <1>1, <1>2, StreamFrame DEF Inv
<1>9. QueueInv' /\ PathInv' /\ WalkInv' /\ EmitInv'
  <2>1. QueueInv'
    BY <1>1, SameRepo DEF Inv, QueueInv, InQueue, NoneOf, AtWork, Complete, walk
  <2> QED
    BY <1>1, <2>1 DEF PathInv, WalkInv, EmitInv
<1> QED
  BY <1>2, <1>5, <1>6, <1>7, <1>8, <1>9 DEF Inv

\* Import starts with every ref in the queue and an empty stream.
LEMMA ImportStep ==
  ASSUME Inv, NEW R \in SUBSET Refs, NEW refs \in SetToSeqs(R), Import(refs)
  PROVE  Inv'
<1>1. /\ pc \in {"ready", "done"} /\ pc' = "next"
      /\ asked' = ToSet(refs) /\ queue' = refs
      /\ marks' = 0 /\ stream' = <<>>
      /\ UNCHANGED <<repo, known, listed, walk>>
  BY DEF Import, Ready
<1>2. LogInv' /\ NotesInv' /\ Grown
  BY <1>1, RepoStep DEF Inv
<1>3. /\ refs \in Seq(Refs)
      /\ \A i, j \in DOMAIN refs : i # j => refs[i] # refs[j]
  BY Requests
<1>4. /\ asked' \subseteq Refs
      /\ \A r \in asked' : \E i \in DOMAIN refs : refs[i] = r
      /\ \A i \in DOMAIN refs : refs[i] \in asked'
  BY <1>1, <1>3 DEF ToSet
<1>5. TypeOK'
  BY <1>1 DEF Inv, TypeOK, repo, walk
<1>6. HeadsInv'
  BY <1>1, <1>3, <1>4, SameRepo DEF Inv, HeadsInv, repo
<1>7. ListInv'
  BY <1>1 DEF Inv, ListInv, repo
<1>8. StreamInv' /\ MarksGivenOnce' /\ CommitsFollowAnchors'
  BY <1>1 DEF StreamInv, MarksGivenOnce, CommitsFollowAnchors
<1>9. QueueInv'
  BY <1>1, <1>3, <1>4 DEF QueueInv, InQueue, NoneOf
<1>10. PathInv' /\ WalkInv' /\ EmitInv'
  BY <1>1 DEF PathInv, WalkInv, EmitInv
<1> QED
  BY <1>2, <1>5, <1>6, <1>7, <1>8, <1>9, <1>10 DEF Inv

\* A ref without a head leaves the queue.
LEMMA SkipStep ==
  ASSUME Inv, SkipRef
  PROVE  Inv'
<1>1. /\ pc = "next" /\ pc' = "next" /\ queue # <<>> /\ known[Head(queue)] = 0
      /\ queue' = Tail(queue)
      /\ UNCHANGED <<repo, pc, known, listed, asked, walk, marks, stream>>
  BY DEF SkipRef, At
<1>2. LogInv' /\ NotesInv' /\ Grown
  BY <1>1, RepoStep DEF Inv
<1>3. /\ queue \in Seq(Refs) /\ \A i, j \in DOMAIN queue : i # j => queue[i] # queue[j]
  BY <1>1 DEF Inv, HeadsInv, QueueInv
<1>4. TypeOK'
  BY <1>1 DEF Inv, TypeOK, repo, walk
<1>5. HeadsInv'
  BY <1>1, <1>3, TailOfQueue, SameRepo DEF Inv, HeadsInv, repo
<1>6. ListInv'
  BY <1>1 DEF Inv, ListInv, repo
<1>7. StreamInv' /\ MarksGivenOnce' /\ CommitsFollowAnchors'
  BY <1>1, <1>2, StreamFrame DEF Inv
<1>8. QueueInv'
  <2>1. \A i, j \in DOMAIN queue' : i # j => queue'[i] # queue'[j]
    BY <1>1, <1>3, TailOfQueue
  <2>2. \A r : InQueue(r)' <=> InQueue(r) /\ r # Head(queue)
    <3>1. \A r : (\E i \in DOMAIN Tail(queue) : Tail(queue)[i] = r)
                 <=> (\E i \in DOMAIN queue : queue[i] = r) /\ r # Head(queue)
      BY <1>1, <1>3, TailOfQueue
    <3> QED
      BY <1>1, <3>1 DEF InQueue
  <2>3. \A i \in DOMAIN queue' : queue'[i] \in asked'
    BY <1>1, <2>2 DEF Inv, QueueInv, InQueue
  <2>4. ASSUME NEW r, known[r] # 0, InQueue(r)' PROVE InQueue(r)
    BY <1>1, <2>2, <2>4
  <2>5. ASSUME NEW r, known[r] # 0, InQueue(r) PROVE InQueue(r)'
    BY <1>1, <2>2, <2>5
  <2>6. \A r : (NoneOf(r) => NoneOf(r)') /\ (Complete(r) => Complete(r)')
    BY <1>1, SameRepo DEF NoneOf, Complete
  <2>7. \A r : ~AtWork(r)
    BY <1>1 DEF AtWork
  <2> QED
    BY <1>1, <2>1, <2>3, <2>4, <2>5, <2>6, <2>7 DEF Inv, QueueInv
<1>9. PathInv' /\ WalkInv' /\ EmitInv'
  BY <1>1 DEF PathInv, WalkInv, EmitInv
<1> QED
  BY <1>2, <1>4, <1>5, <1>6, <1>7, <1>8, <1>9 DEF Inv

\* A ref leaves the queue for the walk, at its head, towards a noted anchor.
LEMMA BeginStep ==
  ASSUME Inv, NEW readable \in Readable, BeginRef(readable)
  PROVE  Inv'
<1>0. PICK r : r = Head(queue)
  OBVIOUS
<1>1. /\ pc = "next" /\ pc' = "walk" /\ queue # <<>> /\ known[r] # 0
      /\ queue' = Tail(queue)
      /\ cur' = r /\ at' = known[r] /\ found' = <<>> /\ prev' = 0
      /\ stop' = LastImported(r, readable)
      /\ UNCHANGED <<repo, known, listed, asked, marks, stream>>
  BY <1>0 DEF BeginRef, At
<1>2. LogInv' /\ NotesInv' /\ Grown
  BY <1>1, RepoStep DEF Inv
<1>3. /\ queue \in Seq(Refs) /\ \A i, j \in DOMAIN queue : i # j => queue[i] # queue[j]
  BY <1>1 DEF Inv, HeadsInv, QueueInv
<1>4. /\ r \in Refs /\ InQueue(r) /\ r \in asked /\ NoneOf(r)
      /\ known[r] \in IdsOf(r) /\ known[r] \in TxIds
  BY <1>0, <1>1, <1>3, TailOfQueue DEF Inv, HeadsInv, QueueInv, InQueue, TypeOK
<1>5. stop' \in TxIds \cup {0} /\ (stop' # 0 => NotedAt(stop', r))
  BY <1>1, <1>4, LastImportedIsNoted DEF Inv
<1>6. /\ \A q : InQueue(q)' <=> InQueue(q) /\ q # r
      /\ \A i, j \in DOMAIN queue' : i # j => queue'[i] # queue'[j]
      /\ \A i \in DOMAIN queue' : queue'[i] \in asked'
  <2>1. \A q : InQueue(q)' <=> InQueue(q) /\ q # r
    <3>1. \A q : (\E i \in DOMAIN Tail(queue) : Tail(queue)[i] = q)
                 <=> (\E i \in DOMAIN queue : queue[i] = q) /\ q # r
      BY <1>0, <1>1, <1>3, TailOfQueue
    <3> QED
      BY <1>1, <3>1 DEF InQueue
  <2>2. \A i, j \in DOMAIN queue' : i # j => queue'[i] # queue'[j]
    BY <1>1, <1>3, TailOfQueue
  <2>3. \A i \in DOMAIN queue' : queue'[i] \in asked'
    BY <1>1, <2>1 DEF Inv, QueueInv, InQueue
  <2> QED
    BY <2>1, <2>2, <2>3
<1>7. TypeOK'
  BY <1>1, <1>4, <1>5 DEF Inv, TypeOK, repo
<1>8. HeadsInv'
  BY <1>1, <1>3, TailOfQueue, SameRepo DEF Inv, HeadsInv, repo
<1>9. ListInv'
  BY <1>1 DEF Inv, ListInv, repo
<1>10. StreamInv' /\ MarksGivenOnce' /\ CommitsFollowAnchors'
  BY <1>1, <1>2, StreamFrame DEF Inv
<1>11. QueueInv'
  <2>1. \A q : (NoneOf(q) => NoneOf(q)') /\ (Complete(q) => Complete(q)')
    BY <1>1, SameRepo DEF NoneOf, Complete
  <2>2. AtWork(r)'
    BY <1>1 DEF AtWork
  <2>3. \A q : ~AtWork(q)
    BY <1>1 DEF AtWork
  <2> QED
    BY <1>1, <1>6, <2>1, <2>2, <2>3 DEF Inv, QueueInv
<1>12. PathInv' /\ WalkInv' /\ EmitInv'
  <2>1. PathInv'
    BY <1>1, <1>4, <1>6 DEF PathInv
  <2>2. WalkInv'
    BY <1>1, <1>4, <1>5, SameRepo DEF WalkInv, NoneOf
  <2> QED
    BY <1>1, <2>1, <2>2 DEF EmitInv
<1> QED
  BY <1>2, <1>7, <1>8, <1>9, <1>10, <1>11, <1>12 DEF Inv

\* What the steps of a walk and of an emission leave alone.
LEMMA StayFrame ==
  ASSUME Inv, pc \in {"walk", "emit"}, pc' \in {"walk", "emit"},
         UNCHANGED <<repo, known, listed, asked, queue, cur>>
  PROVE  /\ LogInv' /\ NotesInv' /\ Grown /\ HeadsInv' /\ ListInv'
         /\ stream' = stream => QueueInv'
<1>1. LogInv' /\ NotesInv' /\ Grown
  BY RepoStep DEF Inv
<1>2. HeadsInv'
  BY SameRepo DEF Inv, HeadsInv, repo
<1>3. ListInv'
  BY DEF Inv, ListInv, repo
<1>4. ASSUME stream' = stream PROVE QueueInv'
  <2>1. \A q : /\ NoneOf(q) => NoneOf(q)'
               /\ Complete(q) => Complete(q)'
    BY <1>4, SameRepo DEF NoneOf, Complete
  <2>2. \A q : AtWork(q) => AtWork(q)'
    BY DEF AtWork
  <2>3. \A q : InQueue(q)' <=> InQueue(q)
    BY DEF InQueue
  <2> QED
    BY <2>1, <2>2, <2>3 DEF Inv, QueueInv
<1> QED
  BY <1>1, <1>2, <1>3, <1>4

\* The walk stops where a note says that git goes on.
LEMMA StopsStep ==
  ASSUME Inv, WalkStops
  PROVE  Inv'
<1>1. /\ pc = "walk" /\ pc' = "emit" /\ at = stop /\ stop' = 0 /\ at' = 0
      /\ UNCHANGED <<repo, known, listed, asked, queue, cur, prev, marks, stream, found>>
  BY DEF WalkStops, WalkEnds, Stay, At
<1>2. LogInv' /\ NotesInv' /\ Grown /\ HeadsInv' /\ ListInv' /\ QueueInv'
  BY <1>1, StayFrame
<1>3. TypeOK'
  BY <1>1 DEF Inv, TypeOK, repo
<1>4. StreamInv' /\ MarksGivenOnce' /\ CommitsFollowAnchors'
  BY <1>1, <1>2, StreamFrame DEF Inv
<1>5. PathInv'
  BY <1>1, SameRepo DEF Inv, PathInv, InQueue
<1>6. EmitInv'
  <2>1. at # 0
    <3>1. cur \in Refs /\ at \in IdsOf(cur)
      BY <1>1 DEF Inv, WalkInv, PathInv, HeadsInv
    <3> QED
      BY <3>1, ParentFacts, FetchAssumption DEF Inv
  <2>2. prev = 0 /\ NoneOf(cur) /\ NotedAt(at, cur)
    BY <1>1, <2>1 DEF Inv, WalkInv
  <2>3. at = IF found = <<>> THEN known[cur] ELSE ParentOf(found[Len(found)])
    BY <1>1 DEF Inv, WalkInv
  <2> QED
    BY <1>1, <2>2, <2>3, SameRepo DEF EmitInv, NoneOf
<1> QED
  BY <1>1, <1>2, <1>3, <1>4, <1>5, <1>6 DEF Inv, WalkInv

\* The walk goes on to the parent, or ends at the first anchor.
LEMMA ReadsStep ==
  ASSUME Inv, WalkReads
  PROVE  Inv'
<1>1. /\ pc = "walk" /\ pc' \in {"walk", "emit"} /\ at # stop
      /\ found' = Append(found, at)
      /\ UNCHANGED <<repo, known, listed, asked, queue, cur, prev, marks, stream>>
      /\ \/ ParentOf(at) = 0 /\ pc' = "emit" /\ stop' = 0 /\ at' = 0
         \/ ParentOf(at) # 0 /\ at' = ParentOf(at) /\ pc' = "walk" /\ stop' = stop
  BY DEF WalkReads, WalkEnds, Stay, At
<1>2. LogInv' /\ NotesInv' /\ Grown /\ HeadsInv' /\ ListInv' /\ QueueInv'
  BY <1>1, StayFrame
<1>3. /\ cur \in Refs /\ at \in IdsOf(cur) /\ at \in TxIds
      /\ ParentOf(at) # 0 => (ParentOf(at) \in IdsOf(cur) /\ ParentOf(at) \in TxIds)
  <2>1. cur \in Refs /\ at \in IdsOf(cur)
    BY <1>1 DEF Inv, WalkInv, PathInv, HeadsInv
  <2> QED
    BY <2>1, ParentFacts DEF Inv
<1>4. /\ found \in Seq(TxIds) /\ found' \in Seq(TxIds) /\ Len(found) \in Nat
      /\ Len(found') = Len(found) + 1 /\ found' # <<>>
      /\ found'[Len(found')] = at
      /\ \A i \in DOMAIN found : found'[i] = found[i]
      /\ DOMAIN found' = 1 .. Len(found) + 1 /\ DOMAIN found = 1 .. Len(found)
  BY <1>1, <1>3 DEF Inv, TypeOK
<1>5. TypeOK'
  BY <1>1, <1>3, <1>4 DEF Inv, TypeOK, repo
<1>6. StreamInv' /\ MarksGivenOnce' /\ CommitsFollowAnchors'
  BY <1>1, <1>2, StreamFrame DEF Inv
<1>7. at = IF found = <<>> THEN known[cur] ELSE ParentOf(found[Len(found)])
  BY <1>1 DEF Inv, WalkInv
<1>8. PathInv'
  <2>1. cur \in asked /\ known[cur] # 0 /\ ~InQueue(cur)
    BY <1>1 DEF Inv, PathInv
  <2>2. \A i \in DOMAIN found' : found'[i] \in IdsOf(cur)
    <3>1. \A i \in DOMAIN found : found[i] \in IdsOf(cur)
      BY <1>1 DEF Inv, PathInv
    <3> QED
      BY <1>3, <1>4, <3>1
  <2>3. ASSUME NEW i \in DOMAIN found', NEW j \in DOMAIN found', j = i + 1
        PROVE  ParentOf(found'[i]) = found'[j]
    <3>1. CASE j = Len(found')
      BY <1>4, <1>7, <2>3, <3>1
    <3>2. CASE j # Len(found')
      <4>1. i \in DOMAIN found /\ j \in DOMAIN found
        BY <1>4, <2>3, <3>2
      <4>2. ParentOf(found[i]) = found[j]
        BY <1>1, <2>3, <4>1 DEF Inv, PathInv
      <4> QED
        BY <1>4, <4>1, <4>2
    <3> QED
      BY <3>1, <3>2
  <2>4. found'[1] = known[cur]
    <3>1. CASE found = <<>>
      BY <1>4, <1>7, <3>1
    <3>2. CASE found # <<>>
      <4>1. 1 \in DOMAIN found /\ found[1] = known[cur]
        BY <1>1, <1>4, <3>2 DEF Inv, PathInv
      <4> QED
        BY <1>4, <4>1
    <3> QED
      BY <3>1, <3>2
  <2>5. \A n : ParentOf(n)' = ParentOf(n)
    BY <1>1, SameRepo
  <2> QED
    BY <1>1, <2>1, <2>2, <2>3, <2>4, <2>5, SameRepo DEF PathInv, InQueue
<1>9. prev = 0 /\ NoneOf(cur) /\ NoneOf(cur)' /\ (stop # 0 => NotedAt(stop, cur))
  BY <1>1 DEF Inv, WalkInv, NoneOf
<1>10. WalkInv'
  BY <1>1, <1>3, <1>4, <1>9, SameRepo DEF WalkInv
<1>11. EmitInv'
  <2>1. pc' = "emit" => ParentOf(found'[Len(found')]) = 0
    BY <1>1, <1>4
  <2> QED
    BY <1>1, <1>4, <1>9, <2>1, SameRepo DEF EmitInv
<1> QED
  BY <1>2, <1>5, <1>6, <1>8, <1>10, <1>11 DEF Inv

\* A failing walk or tree leaves nothing but what was written.
LEMMA FailStep ==
  ASSUME Inv, WalkFails \/ TreeFails
  PROVE  Inv'
<1>1. pc' = "failed" /\ UNCHANGED <<repo, stream>> /\ Forget
  BY DEF WalkFails, TreeFails
<1>2. LogInv' /\ NotesInv' /\ Grown
  BY <1>1, RepoStep DEF Inv
<1>3. TypeOK' /\ HeadsInv' /\ ListInv'
  <2>1. TypeOK'
    BY <1>1 DEF Inv, TypeOK, repo, Forget
  <2>2. HeadsInv'
    BY <1>1, SameRepo DEF Inv, HeadsInv, repo, Forget
  <2>3. ListInv'
    BY <1>1 DEF ListInv, Forget
  <2> QED
    BY <2>1, <2>2, <2>3
<1>4. StreamInv' /\ MarksGivenOnce' /\ CommitsFollowAnchors'
  BY <1>1, <1>2, StreamFrame DEF Inv
<1>5. QueueInv' /\ PathInv' /\ WalkInv' /\ EmitInv'
  BY <1>1 DEF QueueInv, PathInv, WalkInv, EmitInv
<1> QED
  BY <1>2, <1>3, <1>4, <1>5 DEF Inv

\* A new process has a new session.
LEMMA RestartStep ==
  ASSUME Inv, Restart
  PROVE  Inv'
<1>1. pc' = "new" /\ stream' = <<>> /\ UNCHANGED repo /\ Forget
  BY DEF Restart
<1>2. LogInv' /\ NotesInv' /\ Grown
  BY <1>1, RepoStep DEF Inv
<1>3. TypeOK' /\ HeadsInv' /\ ListInv'
  <2>1. TypeOK'
    BY <1>1 DEF Inv, TypeOK, repo, Forget
  <2>2. HeadsInv'
    BY <1>1, SameRepo DEF Inv, HeadsInv, repo, Forget
  <2>3. ListInv'
    BY <1>1 DEF ListInv, Forget
  <2> QED
    BY <2>1, <2>2, <2>3
<1>4. StreamInv' /\ MarksGivenOnce' /\ CommitsFollowAnchors'
  BY <1>1 DEF StreamInv, MarksGivenOnce, CommitsFollowAnchors
<1>5. QueueInv' /\ PathInv' /\ WalkInv' /\ EmitInv'
  BY <1>1 DEF QueueInv, PathInv, WalkInv, EmitInv
<1> QED
  BY <1>2, <1>3, <1>4, <1>5 DEF Inv

\* A ref whose anchors are all written is complete.
LEMMA EndStep ==
  ASSUME Inv, EndRef
  PROVE  Inv'
<1>1. /\ pc = "emit" /\ pc' = "next" /\ found = <<>> /\ cur' = None
      /\ UNCHANGED <<repo, known, listed, asked, queue, stop, at, found, prev, marks, stream>>
  BY DEF EndRef, At
<1>2. LogInv' /\ NotesInv' /\ Grown
  BY <1>1, RepoStep DEF Inv
<1>3. TypeOK'
  BY <1>1 DEF Inv, TypeOK, repo
<1>4. HeadsInv'
  BY <1>1, SameRepo DEF Inv, HeadsInv, repo
<1>5. ListInv'
  BY <1>1 DEF Inv, ListInv, repo
<1>6. StreamInv' /\ MarksGivenOnce' /\ CommitsFollowAnchors'
  BY <1>1, <1>2, StreamFrame DEF Inv
<1>7. Complete(cur)
  <2>1. cur \in Refs /\ known[cur] # 0
    BY <1>1 DEF Inv, PathInv, HeadsInv
  <2>2. CASE prev = 0
    BY <1>1, <2>1, <2>2 DEF Inv, EmitInv, Complete
  <2>3. CASE prev # 0
    <3>1. /\ stream # <<>> /\ stream[Len(stream)].ref = cur
          /\ stream[Len(stream)].anchor = known[cur]
      BY <1>1, <2>3 DEF Inv, EmitInv
    <3>2. DOMAIN stream = 1 .. Len(stream) /\ Len(stream) \in Nat \ {0}
      BY <3>1 DEF Inv, StreamInv
    <3> QED
      BY <3>1, <3>2 DEF Complete
  <2> QED
    BY <2>2, <2>3
<1>8. QueueInv'
  <2>1. \A q : /\ NoneOf(q) => NoneOf(q)'
               /\ Complete(q) => Complete(q)'
    BY <1>1, SameRepo DEF NoneOf, Complete
  <2>2. \A q : AtWork(q) => Complete(q)
    BY <1>7 DEF AtWork
  <2>3. \A q : InQueue(q)' <=> InQueue(q)
    BY <1>1 DEF InQueue
  <2> QED
    BY <1>1, <2>1, <2>2, <2>3 DEF Inv, QueueInv
<1>9. PathInv' /\ WalkInv' /\ EmitInv'
  BY <1>1 DEF PathInv, WalkInv, EmitInv
<1> QED
  BY <1>2, <1>3, <1>4, <1>5, <1>6, <1>8, <1>9 DEF Inv

\* Done changes nothing that the invariant is about.
LEMMA DoneStep ==
  ASSUME Inv, Done
  PROVE  Inv'
<1>1. /\ pc = "next" /\ pc' = "done" /\ queue = <<>>
      /\ UNCHANGED <<repo, known, listed, asked, queue, walk, marks, stream>>
  BY DEF Done, At
<1>2. LogInv' /\ NotesInv' /\ Grown
  BY <1>1, RepoStep DEF Inv
<1>3. TypeOK'
  BY <1>1 DEF Inv, TypeOK, repo, walk
<1>4. HeadsInv'
  BY <1>1, SameRepo DEF Inv, HeadsInv, repo
<1>5. ListInv'
  BY <1>1 DEF Inv, ListInv, repo
<1>6. StreamInv' /\ MarksGivenOnce' /\ CommitsFollowAnchors'
  BY <1>1, <1>2, StreamFrame DEF Inv
<1>7. QueueInv'
  <2>1. \A q : /\ NoneOf(q) => NoneOf(q)'
               /\ Complete(q) => Complete(q)'
    BY <1>1, SameRepo DEF NoneOf, Complete
  <2>2. \A q : ~AtWork(q)
    BY <1>1 DEF AtWork
  <2>3. \A q : InQueue(q)' <=> InQueue(q)
    BY <1>1 DEF InQueue
  <2> QED
    BY <1>1, <2>1, <2>2, <2>3 DEF Inv, QueueInv
<1>8. PathInv' /\ WalkInv' /\ EmitInv'
  BY <1>1 DEF PathInv, WalkInv, EmitInv
<1> QED
  BY <1>2, <1>3, <1>4, <1>5, <1>6, <1>7, <1>8 DEF Inv

\* The commit of the oldest anchor left is written, from the one before.
LEMMA ImportAnchorStep ==
  ASSUME Inv, ImportAnchor
  PROVE  Inv'
<1>0. PICK a, mark, blobs, n :
        /\ a = Last(found) /\ mark = marks + filesOf[a] + 1
        /\ blobs = marks + 1 .. mark - 1 /\ n = Len(stream)
  OBVIOUS
<1>1. /\ pc = "emit" /\ pc' = "emit" /\ found # <<>>
      /\ found' = Front(found)
      /\ stream' = Append(stream, Written(a, mark, blobs))
      /\ marks' = mark /\ prev' = mark
      /\ UNCHANGED <<repo, known, listed, asked, queue, cur, stop, at>>
  BY <1>0 DEF ImportAnchor, At
<1>2. LogInv' /\ NotesInv' /\ Grown /\ HeadsInv' /\ ListInv'
  BY <1>1, StayFrame
<1>3. /\ cur \in Refs /\ cur \in asked /\ known[cur] # 0 /\ ~InQueue(cur)
      /\ \A i \in DOMAIN found : found[i] \in IdsOf(cur)
      /\ \A i, j \in DOMAIN found : j = i + 1 => ParentOf(found[i]) = found[j]
      /\ found[1] = known[cur]
  BY <1>1 DEF Inv, PathInv, HeadsInv
<1>4. /\ found \in Seq(TxIds) /\ Len(found) \in Nat \ {0}
      /\ DOMAIN found = 1 .. Len(found)
      /\ a = found[Len(found)] /\ a \in IdsOf(cur) /\ a \in TxIds
      /\ found' \in Seq(TxIds) /\ Len(found') = Len(found) - 1
      /\ DOMAIN found' = 1 .. Len(found) - 1
      /\ \A i \in DOMAIN found' : found'[i] = found[i]
  <2>1. /\ found \in Seq(TxIds) /\ Len(found) \in Nat \ {0}
        /\ DOMAIN found = 1 .. Len(found)
    BY <1>1 DEF Inv, TypeOK
  <2>2. a = found[Len(found)] /\ a \in IdsOf(cur) /\ a \in TxIds
    BY <1>0, <1>3, <2>1 DEF Last
  <2>3. found' = SubSeq(found, 1, Len(found) - 1)
    BY <1>1 DEF Front
  <2>4. /\ found' \in Seq(TxIds) /\ Len(found') = Len(found) - 1
        /\ DOMAIN found' = 1 .. Len(found) - 1
        /\ \A i \in DOMAIN found' : found'[i] = found[i]
    BY <2>1, <2>3
  <2> QED
    BY <2>1, <2>2, <2>4
<1>5. /\ marks \in Nat /\ mark \in Nat /\ mark > marks /\ mark # 0
      /\ blobs \in SUBSET Nat /\ prev \in Nat
      /\ \A b \in blobs : marks < b /\ b < mark
  <2>1. marks \in Nat /\ prev \in Nat
    BY DEF Inv, TypeOK
  <2>2. filesOf[a] \in Nat
    BY <1>4, FetchAssumption
  <2>3. mark \in Nat /\ mark > marks /\ mark # 0
    BY <1>0, <2>1, <2>2, SMTT(60)
  <2>4. \A b \in blobs : b \in Nat /\ marks < b /\ b < mark
    BY <1>0, <2>1, <2>3
  <2> QED
    BY <2>1, <2>3, <2>4
<1>6. PICK new : /\ new \in Entry /\ stream' = Append(stream, new)
                 /\ new.ref = cur /\ new.anchor = a /\ new.blobs = blobs
                 /\ new.mark = mark /\ new.from = prev
  <2>1. Written(a, mark, blobs) \in Entry
    BY <1>3, <1>4, <1>5 DEF Written, Entry
  <2> QED
    BY <1>1, <2>1 DEF Written
<1>7. /\ stream \in Seq(Entry) /\ stream' \in Seq(Entry) /\ n \in Nat
      /\ DOMAIN stream = 1 .. n /\ DOMAIN stream' = 1 .. n + 1
      /\ Len(stream') = n + 1 /\ stream'[n + 1] = new /\ stream' # <<>>
      /\ \A i \in 1 .. n : stream'[i] = stream[i]
  BY <1>0, <1>6 DEF Inv, StreamInv
<1>8. \A i \in 1 .. n : /\ stream[i].anchor \in IdsOf(stream[i].ref)
                        /\ stream[i].mark \in Nat /\ stream[i].mark # 0
                        /\ stream[i].from \in Nat
                        /\ stream[i].ref \in asked /\ known[stream[i].ref] # 0
                        /\ stream[i].mark <= marks
                        /\ stream[i].blobs \subseteq 1 .. marks
  <2>1. \A i \in 1 .. n : stream[i].mark \in Nat /\ stream[i].from \in Nat
    <3>1. \A i \in 1 .. n : stream[i] \in Entry
      BY <1>7
    <3>2. \A e \in Entry : e.mark \in Nat /\ e.from \in Nat
      BY DEF Entry
    <3> QED
      BY <3>1, <3>2
  <2>2. ASSUME NEW i \in 1 .. n
        PROVE  /\ stream[i].anchor \in IdsOf(stream[i].ref) /\ stream[i].mark # 0
               /\ stream[i].ref \in asked /\ known[stream[i].ref] # 0
               /\ stream[i].mark <= marks /\ stream[i].blobs \subseteq 1 .. marks
    BY <1>1, <1>7 DEF Inv, StreamInv
  <2> QED
    BY <2>1, <2>2
<1>9. TypeOK'
  BY <1>1, <1>4, <1>5 DEF Inv, TypeOK, repo
<1>10. StreamInv'
  <2>1. ASSUME NEW i \in 1 .. n + 1
        PROVE  /\ stream'[i].anchor \in IdsOf(stream'[i].ref)
               /\ stream'[i].mark # 0
               /\ stream'[i].ref \in asked /\ known[stream'[i].ref] # 0
               /\ stream'[i].mark <= mark
               /\ stream'[i].blobs \subseteq 1 .. mark
    <3>1. CASE i \in 1 .. n
      BY <1>5, <1>7, <1>8, <3>1
    <3>2. CASE i = n + 1
      <4>1. blobs \subseteq 1 .. mark /\ mark <= mark
        BY <1>5
      <4> QED
        BY <1>3, <1>4, <1>5, <1>6, <1>7, <3>2, <4>1
    <3> QED
      BY <1>7, <3>1, <3>2
  <2> QED
    BY <1>1, <1>7, <2>1, SameRepo DEF StreamInv
<1>11. MarksGivenOnce'
  <2>1. \A i, j \in 1 .. n :
          /\ stream[i].mark \notin stream[j].blobs
          /\ i # j => /\ stream[i].mark # stream[j].mark
                      /\ stream[i].blobs \cap stream[j].blobs = {}
    BY <1>7 DEF Inv, MarksGivenOnce
  <2>2. \A i \in 1 .. n : /\ stream[i].mark \notin blobs
                          /\ mark \notin stream[i].blobs
                          /\ stream[i].mark # mark
                          /\ stream[i].blobs \cap blobs = {}
    BY <1>5, <1>8
  <2>3. mark \notin blobs
    BY <1>5
  <2>4. ASSUME NEW i \in 1 .. n + 1, NEW j \in 1 .. n + 1
        PROVE  /\ stream'[i].mark \notin stream'[j].blobs
               /\ i # j => /\ stream'[i].mark # stream'[j].mark
                           /\ stream'[i].blobs \cap stream'[j].blobs = {}
    <3>1. CASE i \in 1 .. n /\ j \in 1 .. n
      BY <1>7, <2>1, <3>1
    <3>2. CASE i \in 1 .. n /\ j = n + 1
      BY <1>6, <1>7, <2>2, <3>2
    <3>3. CASE i = n + 1 /\ j \in 1 .. n
      BY <1>6, <1>7, <2>2, <3>3
    <3>4. CASE i = n + 1 /\ j = n + 1
      BY <1>6, <1>7, <2>3, <3>4
    <3> QED
      BY <1>7, <3>1, <3>2, <3>3, <3>4
  <2> QED
    BY <1>7, <2>4 DEF MarksGivenOnce
<1>12. /\ prev = 0 => NoneOf(cur) /\ (ParentOf(a) = 0 \/ NotedAt(ParentOf(a), cur))
       /\ prev # 0 => /\ n \in 1 .. n
                      /\ stream[n].mark = prev /\ stream[n].ref = cur
                      /\ stream[n].anchor = ParentOf(a)
  BY <1>0, <1>1, <1>4, <1>7 DEF Inv, EmitInv
<1>13. CommitsFollowAnchors'
  <2>1. ASSUME NEW i \in 1 .. n + 1
        PROVE  LET s == stream'[i]
                   parent == ParentOf(s.anchor)
               IN  IF s.from = 0
                   THEN parent = 0 \/ NotedAt(parent, s.ref)
                   ELSE /\ \A j \in 1 .. n + 1 : stream'[j].mark = s.from =>
                             j < i /\ stream'[j].ref = s.ref /\ stream'[j].anchor = parent
                        /\ \E j \in 1 .. n + 1 : stream'[j].mark = s.from
    <3>1. CASE i \in 1 .. n
      <4>1. CASE stream[i].from = 0
        BY <1>7, <3>1, <4>1 DEF Inv, CommitsFollowAnchors, NotedAt
      <4>2. CASE stream[i].from # 0
        <5>1. /\ \A j \in 1 .. n : stream[j].mark = stream[i].from =>
                    /\ j < i /\ stream[j].ref = stream[i].ref
                    /\ stream[j].anchor = ParentOf(stream[i].anchor)
              /\ \E j \in 1 .. n : stream[j].mark = stream[i].from
          BY <1>7, <3>1, <4>2, SMTT(60) DEF Inv, CommitsFollowAnchors, IndexOfMark
        <5>2. stream'[n + 1].mark # stream[i].from
          BY <1>5, <1>6, <1>7, <1>8, <5>1
        <5>3. /\ \A j \in 1 .. n + 1 : stream'[j].mark = stream[i].from =>
                    /\ j < i /\ stream'[j].ref = stream[i].ref
                    /\ stream'[j].anchor = ParentOf(stream[i].anchor)
              /\ \E j \in 1 .. n + 1 : stream'[j].mark = stream[i].from
          BY <1>7, <5>1, <5>2
        <5> QED
          BY <1>7, <3>1, <4>2, <5>3
      <4> QED
        BY <4>1, <4>2
    <3>2. CASE i = n + 1
      <4>1. CASE prev = 0
        BY <1>6, <1>7, <1>12, <3>2, <4>1
      <4>2. CASE prev # 0
        <5>1. \A j \in 1 .. n + 1 : stream'[j].mark = prev => j = n
          <6>1. \A j \in 1 .. n : stream[j].mark = prev => j = n
            BY <1>7, <1>12, <4>2 DEF Inv, MarksGivenOnce
          <6>2. prev # mark
            BY <1>5, <1>8, <1>12, <4>2
          <6> QED
            BY <1>6, <1>7, <6>1, <6>2
        <5>2. /\ stream'[n].mark = prev /\ stream'[n].ref = cur
              /\ stream'[n].anchor = ParentOf(a) /\ n \in 1 .. n + 1 /\ n < n + 1
          BY <1>7, <1>12, <4>2
        <5> QED
          BY <1>6, <1>7, <3>2, <4>2, <5>1, <5>2
      <4> QED
        BY <4>1, <4>2
    <3> QED
      BY <1>7, <3>1, <3>2
  <2>2. /\ \A m : ParentOf(m)' = ParentOf(m)
        /\ \A m, r : NotedAt(m, r)' = NotedAt(m, r)
    BY <1>1, SameRepo
  <2> QED
    BY <1>1, <1>7, <2>1, <2>2, SMTT(60) DEF CommitsFollowAnchors, NotedAt, IndexOfMark, repo
<1>14. QueueInv'
  <2>1. \A r : r # cur /\ NoneOf(r) => NoneOf(r)'
    BY <1>6, <1>7 DEF NoneOf
  <2>2. \A r : r # cur /\ Complete(r) => Complete(r)'
    <3>1. ASSUME NEW r, r # cur, NEW i \in 1 .. n,
                 stream[i].ref = r, stream[i].anchor = known[r],
                 \A j \in 1 .. n : stream[j].ref = r => j <= i
          PROVE  Complete(r)'
      <4>1. /\ i \in 1 .. n + 1 /\ stream'[i].ref = r /\ stream'[i].anchor = known'[r]
            /\ \A j \in 1 .. n + 1 : stream'[j].ref = r => j <= i
        BY <1>1, <1>6, <1>7, <3>1
      <4> QED
        BY <1>7, <4>1 DEF Complete
    <3>2. ASSUME NEW r, r # cur, NoneOf(r), NotedAt(known[r], r)
          PROVE  Complete(r)'
      BY <1>1, <2>1, <3>2, SameRepo DEF Complete
    <3> QED
      BY <1>7, <3>1, <3>2 DEF Complete
  <2>3. \A r : InQueue(r)' <=> InQueue(r)
    BY <1>1 DEF InQueue
  <2>4. \A r : AtWork(r)' <=> r = cur
    BY <1>1 DEF AtWork
  <2>5. \A r : AtWork(r) <=> r = cur
    BY <1>1 DEF AtWork
  <2> QED
    BY <1>1, <1>3, <2>1, <2>2, <2>3, <2>4, <2>5 DEF Inv, QueueInv
<1>15. PathInv'
  BY <1>1, <1>3, <1>4, SameRepo, SMTT(60) DEF PathInv, InQueue
<1>16. WalkInv'
  BY <1>1 DEF WalkInv
<1>17. EmitInv'
  <2>1. a = IF found' = <<>> THEN known[cur] ELSE ParentOf(found'[Len(found')])
    <3>1. CASE Len(found) = 1
      BY <1>3, <1>4, <3>1
    <3>2. CASE Len(found) # 1
      <4>1. /\ Len(found) - 1 \in DOMAIN found' /\ Len(found) - 1 \in DOMAIN found
            /\ Len(found) \in DOMAIN found /\ found' # <<>>
        BY <1>4, <3>2
      <4> QED
        BY <1>3, <1>4, <4>1
    <3> QED
      BY <3>1, <3>2
  <2> QED
    BY <1>1, <1>5, <1>6, <1>7, <2>1, SameRepo DEF EmitInv
<1> QED
  BY <1>2, <1>9, <1>10, <1>11, <1>13, <1>14, <1>15, <1>16, <1>17 DEF Inv

-----------------------------------------------------------------------------
(* The theorems.                                                           *)

\* The initial state satisfies the invariant.
LEMMA InvInit ==
  ASSUME Init
  PROVE  Inv
<1>1. /\ anchors = {} /\ notes = <<>> /\ pc = "new" /\ listed = None
      /\ head = [r \in Refs |-> 0] /\ known = [r \in Refs |-> 0]
      /\ asked = {} /\ queue = <<>> /\ cur = None /\ stop = 0 /\ at = 0
      /\ found = <<>> /\ prev = 0 /\ marks = 0 /\ stream = <<>>
  BY DEF Init, Log!Init
<1>2. LogInv /\ NotesInv
  BY <1>1 DEF LogInv, NotesInv
<1>3. TypeOK
  BY <1>1 DEF TypeOK
<1>4. HeadsInv /\ ListInv
  BY <1>1 DEF HeadsInv, ListInv
<1>5. StreamInv /\ MarksGivenOnce /\ CommitsFollowAnchors
  BY <1>1 DEF StreamInv, MarksGivenOnce, CommitsFollowAnchors
<1>6. QueueInv /\ PathInv /\ WalkInv /\ EmitInv
  BY <1>1 DEF QueueInv, PathInv, WalkInv, EmitInv
<1> QED
  BY <1>2, <1>3, <1>4, <1>5, <1>6 DEF Inv

\* Every step keeps the invariant.
LEMMA InvStep ==
  ASSUME Inv, [Next]_vars
  PROVE  Inv'
<1>1. CASE UNCHANGED vars
  <2>1. UNCHANGED repo /\ UNCHANGED session
    BY <1>1 DEF vars, session
  <2>2. LogInv' /\ NotesInv' /\ Grown
    BY <2>1, RepoStep DEF Inv
  <2>3. /\ head' \in [Refs -> TxIds \cup {0}]
        /\ \A r \in Refs : head'[r] # 0 => head'[r] \in IdsOf(r)'
    BY <2>1, SameRepo DEF Inv, TypeOK, HeadsInv, repo
  <2> QED
    BY <2>1, <2>2, <2>3, SessionFrame
<1>2. CASE World
  <2>1. LogInv' /\ NotesInv' /\ Grown /\ UNCHANGED session
    BY <1>2, WorldStep DEF Inv
  <2>2. /\ head' \in [Refs -> TxIds \cup {0}]
        /\ \A r \in Refs : head'[r] # 0 => head'[r] \in IdsOf(r)'
    <3>1. CASE head' = head
      BY <2>1, <3>1 DEF Inv, TypeOK, HeadsInv, Grown
    <3>2. CASE head' # head
      <4>1. PICK n \in TxIds, r \in Refs, parent \in TxIds \cup {0} :
              Publish(n, r, parent)
        BY <1>2, <3>2 DEF World, Annotate
      <4>2. /\ head' = [head EXCEPT ![r] = n]
            /\ anchors' = anchors \cup {[id |-> n, ref |-> r, parent |-> parent]}
        BY <3>2, <4>1 DEF Publish, Log!Publish
      <4>3. n \in IdsOf(r)'
        <5> DEFINE new == [id |-> n, ref |-> r, parent |-> parent]
        <5>1. new \in {b \in anchors' : b.ref = r} /\ new.id = n
          BY <4>2
        <5> HIDE DEF new
        <5> QED
          BY <5>1 DEF IdsOf
      <4> QED
        <5>1. head \in [Refs -> TxIds \cup {0}]
          BY DEF Inv, TypeOK
        <5>2. head' \in [Refs -> TxIds \cup {0}]
          BY <4>2, <5>1
        <5>3. ASSUME NEW q \in Refs, head'[q] # 0 PROVE head'[q] \in IdsOf(q)'
          <6>1. CASE q = r
            BY <4>2, <4>3, <5>1, <6>1
          <6>2. CASE q # r
            BY <2>1, <4>2, <5>1, <5>3, <6>2 DEF Inv, HeadsInv, Grown
          <6> QED
            BY <6>1, <6>2
        <5> QED
          BY <5>2, <5>3
    <3> QED
      BY <3>1, <3>2
  <2> QED
    BY <2>1, <2>2, SessionFrame
<1>3. CASE Open
  BY <1>3, OpenStep
<1>4. ASSUME NEW readable \in Readable, NEW discovered, List(readable, discovered)
      PROVE  Inv'
  BY <1>4, ListStep
<1>5. ASSUME NEW R \in SUBSET Refs, NEW refs \in SetToSeqs(R), Import(refs)
      PROVE  Inv'
  BY <1>5, ImportStep
<1>6. CASE Work
  <2>1. CASE SkipRef
    BY <2>1, SkipStep
  <2>2. ASSUME NEW readable \in Readable, BeginRef(readable)
        PROVE  Inv'
    BY <2>2, BeginStep
  <2>3. CASE WalkStops
    BY <2>3, StopsStep
  <2>4. CASE WalkReads
    BY <2>4, ReadsStep
  <2>5. CASE WalkFails \/ TreeFails
    BY <2>5, FailStep
  <2>6. CASE ImportAnchor
    BY <2>6, ImportAnchorStep
  <2>7. CASE EndRef
    BY <2>7, EndStep
  <2>8. CASE Done
    BY <2>8, DoneStep
  <2> QED
    BY <1>6, <2>1, <2>2, <2>3, <2>4, <2>5, <2>6, <2>7, <2>8 DEF Work
<1>7. CASE Restart
  BY <1>7, RestartStep
<1> QED
  BY <1>1, <1>2, <1>3, <1>4, <1>5, <1>6, <1>7 DEF Next, World

\* In every behaviour of Fetch the inductive invariant holds.
THEOREM Invariance == Spec => []Inv
<1>1. Init => Inv
  BY InvInit
<1>2. Inv /\ [Next]_vars => Inv'
  BY InvStep
<1> QED
  BY <1>1, <1>2, PTL DEF Spec

\* Every variable of the session keeps its type.
THEOREM TypeCorrect == Spec => []TypeOK
<1>1. Inv => TypeOK
  BY DEF Inv
<1> QED
  BY <1>1, Invariance, PTL

\* A commit's parent in the stream of an import stands for the parent of its
\* anchor, or a note says that git has that one: importRef and importAnchor
\* keep the ancestry, with any refs, chains, failures and pushes meanwhile.
THEOREM AncestryKept == Spec => []CommitsFollowAnchors
<1>1. Inv => CommitsFollowAnchors
  BY DEF Inv
<1> QED
  BY <1>1, Invariance, PTL

\* importHandler gives no mark twice in a stream, however many files the
\* anchors have.
THEOREM MarksUnique == Spec => []MarksGivenOnce
<1>1. Inv => MarksGivenOnce
  BY DEF Inv
<1> QED
  BY <1>1, Invariance, PTL

\* When handleImport writes "done", every known ref that was asked for has come
\* to its branch head.
THEOREM ImportComplete == Spec => []DoneIsComplete
<1>1. Inv => DoneIsComplete
  <2> SUFFICES ASSUME Inv, pc = "done", NEW r \in asked, known[r] # 0
               PROVE  LET mine == {i \in DOMAIN stream : stream[i].ref = r}
                      IN  IF mine = {}
                          THEN \E c \in DOMAIN notes :
                                 notes[c].anchor = known[r] /\ notes[c].ref \in {None, r}
                          ELSE \E i \in mine : /\ \A j \in mine : j <= i
                                               /\ stream[i].anchor = known[r]
    BY DEF DoneIsComplete
  <2>1. Complete(r)
    BY DEF Inv, QueueInv, InQueue, AtWork
  <2> QED
    BY <2>1 DEF Complete, NoneOf, NotedAt
<1> QED
  BY <1>1, Invariance, PTL

\* The commit that handleList names for a ref has the note of the last anchor
\* that an import of the same session writes for the ref.
THEOREM ListImportAgree == Spec => []ListAgreesWithImport
<1>1. Inv => ListAgreesWithImport
  <2> SUFFICES ASSUME Inv, pc = "done", listed # None, NEW r \in Refs,
                      NEW i \in DOMAIN stream, listed[r] \in Commits,
                      stream[i].ref = r,
                      \A j \in i + 1 .. Len(stream) : stream[j].ref # r
               PROVE  notes[listed[r]].anchor = stream[i].anchor
    BY DEF ListAgreesWithImport
  <2>1. r \in asked /\ known[r] # 0
    BY DEF Inv, StreamInv
  <2>2. Complete(r)
    BY <2>1 DEF Inv, QueueInv, InQueue, AtWork
  <2>3. PICK k \in DOMAIN stream :
          /\ stream[k].ref = r /\ stream[k].anchor = known[r]
          /\ \A j \in DOMAIN stream : stream[j].ref = r => j <= k
    BY <2>2 DEF Complete, NoneOf
  <2>4. k = i
    <3>1. DOMAIN stream = 1 .. Len(stream)
      BY DEF Inv, StreamInv
    <3> QED
      BY <2>3, <3>1
  <2> QED
    BY <2>3, <2>4 DEF Inv, ListInv
<1> QED
  BY <1>1, Invariance, PTL
=============================================================================
