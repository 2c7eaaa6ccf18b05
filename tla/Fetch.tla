-------------------------------- MODULE Fetch --------------------------------
(***************************************************************************)
(* list and import: internal/helper/list.go and import.go with the anchor  *)
(* walk of internal/chain/reader.go and the notes of internal/mapper.      *)
(*                                                                         *)
(* The chain is RefLog's, which Push implements.  One helper process       *)
(* answers the list and import commands of a session from the branch heads *)
(* it loaded, while pushes of this clone and of others go on and other     *)
(* programs write notes (the helper itself writes none).  An import writes *)
(* a stream of commits, one per anchor; content is left out, except for    *)
(* the marks that blobs use up.  A chain reader is configured.             *)
(***************************************************************************)
EXTENDS Integers, Sequences, SequencesExt, FiniteSets

CONSTANTS
  Refs,     \* ref names
  TxIds,    \* transaction ids, in the order of acceptance
  Commits,  \* git commits that may get a note: numbers, in the order ListNotes
            \* returns them
  filesOf,  \* how many files ReadTree returns for an anchor
  MaxNews,  \* bound on anchors and notes together
  None,     \* no ref, no commit
  Found     \* a commit that only the ChainRefLister knows

ASSUME FetchAssumption ==
  /\ IsFiniteSet(Refs)
  /\ TxIds \subseteq Nat \ {0}
  /\ Commits \subseteq Nat
  /\ filesOf \in [TxIds -> Nat]
  /\ MaxNews \in Nat
  /\ {None, Found} \cap (Refs \cup Commits) = {}

VARIABLES
  anchors,  \* the published anchors
  head,     \* state.json: AnchorTxID of every ref, 0 if it has no RefUTXO
  notes,    \* refs/notes/bitfs: the ref (or none) and the anchor of a commit
  pc,
  known,    \* the branch heads in the memory of the process
  listed,   \* what list answered, None before: a commit for each ref, or Found by
            \* the lister, or None
  asked,    \* refs of the running import
  queue,    \* those still to be imported
  cur,      \* the ref importRef works on
  stop,     \* stopTxID of its walk, 0 for nil
  at,       \* currentTxID of the walk
  found,    \* the anchors walked over, newest first
  prev,     \* prevCommitMark, 0 for ""
  marks,    \* markCounter
  stream    \* the commits written to git

repo == <<anchors, head, notes>>
walk == <<cur, stop, at, found, prev>>
vars == <<repo, pc, known, listed, asked, queue, walk, marks, stream>>

Log == INSTANCE RefLog

ParentOf(n) == (CHOOSE a \in anchors : a.id = n).parent

-----------------------------------------------------------------------------
(* Everybody else.                                                         *)

MoreNews == Cardinality(anchors) + Cardinality(DOMAIN notes) < MaxNews

\* A push, of this clone when state.json moves: then it extends the head that
\* state.json had.
Publish(n, r, parent) ==
  /\ MoreNews
  /\ Log!Publish(n, r, parent)
  /\ \/ UNCHANGED head
     \/ parent = head[r] /\ head' = [head EXCEPT ![r] = n]
  /\ UNCHANGED <<notes, pc, known, listed, asked, queue, walk, marks, stream>>

\* Another program records the anchor of a commit; NoteData.Ref is optional.
Annotate(c, a, r) ==
  /\ MoreNews /\ c \notin DOMAIN notes
  /\ notes' = [d \in DOMAIN notes \cup {c} |->
                 IF d = c THEN [ref |-> r, anchor |-> a.id] ELSE notes[d]]
  /\ UNCHANGED <<anchors, head, pc, known, listed, asked, queue, walk, marks, stream>>

-----------------------------------------------------------------------------
(* A session.                                                              *)

At(s) == pc = s
Ready == pc \in {"ready", "done"}

\* initUTXOStore, by the first command that needs it; a failed Load leaves the
\* store empty.
Open ==
  /\ At("new")
  /\ pc' = "ready"
  /\ known' \in {head, [r \in Refs |-> 0]}
  /\ UNCHANGED <<repo, listed, asked, queue, walk, marks, stream>>

\* ListNotes fails, or GetNote for some commits: the notes that can be read.
Readable == SUBSET DOMAIN notes

SmallestOf(S) == IF S = {} THEN None ELSE CHOOSE c \in S : \A d \in S : c <= d

\* lookupCommitSHA: the first commit whose note names the anchor.
LookupCommit(a, readable) == SmallestOf({c \in readable : notes[c].anchor = a})

\* handleList.  The refs of the store with the commit of their anchor, and if
\* there are none those that a ChainRefLister, if there is one, finds.  git asks
\* once in a session.
List(readable, discovered) ==
  LET fromStore == {r \in Refs : known[r] # 0 /\ LookupCommit(known[r], readable) # None}
  IN  /\ Ready /\ listed = None
      /\ listed' = [r \in Refs |->
           IF r \in fromStore THEN LookupCommit(known[r], readable)
           ELSE IF fromStore = {} /\ r \in discovered THEN Found ELSE None]
      /\ UNCHANGED <<repo, pc, known, asked, queue, walk, marks, stream>>

\* Mutant: every command loads the store.
ImportReloads(refs) ==
  /\ Ready
  /\ pc' = "next"
  /\ known' = head
  /\ asked' = ToSet(refs) /\ queue' = refs
  /\ marks' = 0 /\ stream' = <<>>
  /\ UNCHANGED <<repo, listed, walk>>

\* handleImport: the refs of its command lines, a new importHandler.
Import(refs) ==
  /\ Ready
  /\ pc' = "next"
  /\ asked' = ToSet(refs) /\ queue' = refs
  /\ marks' = 0 /\ stream' = <<>>
  /\ UNCHANGED <<repo, known, listed, walk>>

\* Mutant: the case that there is no such note is forgotten.
LastImportedUnchecked(r, readable) ==
  SmallestOf({d \in readable : notes[d].ref \in {None, r}})

\* findLastImportedAnchor: the first note of the ref, or of no ref.
LastImported(r, readable) ==
  LET c == SmallestOf({d \in readable : notes[d].ref \in {None, r}})
  IN  IF c = None THEN 0 ELSE notes[c].anchor

\* importRef of a ref that the store does not know.
SkipRef ==
  /\ At("next") /\ queue # <<>>
  /\ known[Head(queue)] = 0
  /\ queue' = Tail(queue)
  /\ UNCHANGED <<repo, pc, known, listed, asked, walk, marks, stream>>

\* Mutant: prevCommitMark outlives its ref.
BeginRefKeepsMark(readable) ==
  LET r == Head(queue)
  IN  /\ At("next") /\ queue # <<>> /\ known[r] # 0
      /\ pc' = "walk"
      /\ queue' = Tail(queue)
      /\ cur' = r /\ at' = known[r] /\ found' = <<>>
      /\ stop' = LastImported(r, readable)
      /\ UNCHANGED <<repo, known, listed, asked, prev, marks, stream>>

BeginRef(readable) ==
  LET r == Head(queue)
  IN  /\ At("next") /\ queue # <<>> /\ known[r] # 0
      /\ pc' = "walk"
      /\ queue' = Tail(queue)
      /\ cur' = r /\ at' = known[r] /\ found' = <<>> /\ prev' = 0
      /\ stop' = LastImported(r, readable)
      /\ UNCHANGED <<repo, known, listed, asked, marks, stream>>

-----------------------------------------------------------------------------
(* WalkAnchorChain.                                                        *)

Stay == UNCHANGED <<repo, known, listed, asked, queue, cur, prev, marks, stream>>

\* The memory of the process is gone.
Forget ==
  /\ known' = [r \in Refs |-> 0] /\ listed' = None
  /\ asked' = {} /\ queue' = <<>>
  /\ cur' = None /\ stop' = 0 /\ at' = 0 /\ found' = <<>> /\ prev' = 0
  /\ marks' = 0

\* The walk returns.
WalkEnds ==
  /\ pc' = "emit"
  /\ stop' = 0 /\ at' = 0
  /\ Stay

WalkStops ==
  /\ At("walk") /\ at = stop
  /\ WalkEnds
  /\ UNCHANGED found

WalkReads ==
  /\ At("walk") /\ at # stop
  /\ found' = Append(found, at)
  /\ \/ ParentOf(at) = 0 /\ WalkEnds
     \/ ParentOf(at) # 0 /\ at' = ParentOf(at) /\ UNCHANGED <<pc, stop>> /\ Stay

\* Mutants: an anchor that cannot be read ends the walk; or starts it anew.
WalkFailsEnds ==
  /\ At("walk") /\ at # stop
  /\ WalkEnds
  /\ UNCHANGED found

WalkFailsRetries ==
  /\ At("walk") /\ at # stop
  /\ at' = known[cur] /\ found' = <<>>
  /\ UNCHANGED <<pc, stop>> /\ Stay

\* ReadAnchor fails: so does the import, and Run returns.
WalkFails ==
  /\ At("walk") /\ at # stop
  /\ pc' = "failed" /\ Forget
  /\ UNCHANGED <<repo, stream>>

-----------------------------------------------------------------------------
(* importAnchor, oldest anchor first.                                      *)

Written(a, mark, blobs) ==
  [ref |-> cur, anchor |-> a, blobs |-> blobs, mark |-> mark, from |-> prev]

\* Mutant: blobs take no marks from the counter.
ImportAnchorReusesMarks ==
  LET a == Last(found)
      mark == marks + 1
  IN  /\ At("emit") /\ found # <<>>
      /\ found' = Front(found)
      /\ stream' = Append(stream, Written(a, mark, marks + 1 .. marks + filesOf[a]))
      /\ marks' = mark /\ prev' = mark
      /\ UNCHANGED <<repo, pc, known, listed, asked, queue, cur, stop, at>>

ImportAnchor ==
  LET a == Last(found)
      mark == marks + filesOf[a] + 1
  IN  /\ At("emit") /\ found # <<>>
      /\ found' = Front(found)
      /\ stream' = Append(stream, Written(a, mark, marks + 1 .. mark - 1))
      /\ marks' = mark /\ prev' = mark
      /\ UNCHANGED <<repo, pc, known, listed, asked, queue, cur, stop, at>>

\* Mutant: an anchor whose tree cannot be read is passed over.
TreeFailsSkips ==
  /\ At("emit") /\ found # <<>>
  /\ found' = Front(found)
  /\ UNCHANGED <<pc, stop, at>> /\ Stay

\* ReadTree fails, before anything of this anchor is written.
TreeFails ==
  /\ At("emit") /\ found # <<>>
  /\ pc' = "failed" /\ Forget
  /\ UNCHANGED <<repo, stream>>

EndRef ==
  /\ At("emit") /\ found = <<>>
  /\ pc' = "next" /\ cur' = None
  /\ UNCHANGED <<repo, known, listed, asked, queue, stop, at, found, prev, marks, stream>>

\* WriteDone; Run reads the next command.
Done ==
  /\ At("next") /\ queue = <<>>
  /\ pc' = "done"
  /\ UNCHANGED <<repo, known, listed, asked, queue, walk, marks, stream>>

\* The session ends, the process dies, or git starts another after a failure.
Restart ==
  /\ ~At("new")
  /\ pc' = "new" /\ Forget /\ stream' = <<>>
  /\ UNCHANGED repo

-----------------------------------------------------------------------------
Init ==
  /\ Log!Init
  /\ head = [r \in Refs |-> 0]
  /\ notes = <<>>
  /\ pc = "new"
  /\ known = [r \in Refs |-> 0] /\ listed = None
  /\ asked = {} /\ queue = <<>>
  /\ cur = None /\ stop = 0 /\ at = 0 /\ found = <<>> /\ prev = 0
  /\ marks = 0 /\ stream = <<>>

\* The steps of an import that has begun.
Work ==
  \/ SkipRef
  \/ \E readable \in Readable : BeginRef(readable)
  \/ WalkStops \/ WalkReads \/ WalkFails
  \/ ImportAnchor \/ TreeFails \/ EndRef
  \/ Done

Next ==
  \/ \E n \in TxIds, r \in Refs : \E parent \in TxIds \cup {0} : Publish(n, r, parent)
  \/ \E c \in Commits, a \in anchors : \E r \in {a.ref, None} : Annotate(c, a, r)
  \/ Open
  \/ \E readable \in Readable, discovered \in {{}, {a.ref : a \in anchors}} :
       List(readable, discovered)
  \/ \E R \in (SUBSET Refs) \ {{}} : \E refs \in SetToSeqs(R) : Import(refs)
  \/ Work
  \/ Restart

Spec == Init /\ [][Next]_vars

\* The code of an import is sequential; reads of the chain and of notes are
\* assumed to answer.
FairSpec == Spec /\ WF_vars(Work)
-----------------------------------------------------------------------------
(* Properties.                                                             *)

IndexOfMark(m) == {i \in DOMAIN stream : stream[i].mark = m}

\* Every variable of the session has its type.
TypeOK ==
  /\ pc \in {"new", "ready", "next", "walk", "emit", "done", "failed"}
  /\ head \in [Refs -> TxIds \cup {0}]
  /\ known \in [Refs -> TxIds \cup {0}]
  /\ listed \in [Refs -> Commits \cup {Found, None}] \cup {None}
  /\ DOMAIN notes \subseteq Commits
  /\ cur \in Refs \cup {None}
  /\ at \in TxIds \cup {0} /\ stop \in TxIds \cup {0}
  /\ found \in Seq(TxIds)
  /\ marks \in Nat /\ prev \in Nat

\* The commits git reads have the ancestry of the anchors they stand for: a
\* commit's parent in the stream is the commit written before it for the
\* parent of its anchor, on the same ref; the first of a ref has none, and
\* then its anchor starts a history or continues one that a note, of this ref
\* or of no ref, says git has.  Also with several refs in a stream, failing
\* walks, and pushes that go on meanwhile.
CommitsFollowAnchors ==
  \A i \in DOMAIN stream :
    LET s == stream[i]
        parent == ParentOf(s.anchor)
    IN  IF s.from = 0
        THEN \/ parent = 0
             \/ \E c \in DOMAIN notes :
                  notes[c].anchor = parent /\ notes[c].ref \in {None, s.ref}
        ELSE /\ \A j \in IndexOfMark(s.from) :
                  j < i /\ stream[j].ref = s.ref /\ stream[j].anchor = parent
             /\ IndexOfMark(s.from) # {}

\* A mark is given once in a stream, to a blob or to a commit, whatever ref
\* it belongs to: git takes the last object of a mark for all uses of it.
MarksGivenOnce ==
  \A i, j \in DOMAIN stream :
    /\ stream[i].mark \notin stream[j].blobs
    /\ i # j => /\ stream[i].mark # stream[j].mark
                /\ stream[i].blobs \cap stream[j].blobs = {}

\* "done" is written only when every ref that was asked for and is known has
\* come to its branch head: the last commit of the ref is that anchor's, or
\* none was written and a note says that git has it.  With
\* CommitsFollowAnchors: no anchor is left out on the way.
DoneIsComplete ==
  pc = "done" =>
    \A r \in asked : known[r] # 0 =>
      LET mine == {i \in DOMAIN stream : stream[i].ref = r}
      IN  IF mine = {}
          THEN \E c \in DOMAIN notes :
                 notes[c].anchor = known[r] /\ notes[c].ref \in {None, r}
          ELSE \E i \in mine : /\ \A j \in mine : j <= i
                               /\ stream[i].anchor = known[r]

\* list and import of one session agree although pushes move state.json in
\* between: the commit that list names for a ref is that of the last anchor
\* an import then writes for it.
ListAgreesWithImport ==
  pc = "done" /\ listed # None =>
    \A r \in Refs : \A i \in DOMAIN stream :
      /\ listed[r] \in Commits
      /\ stream[i].ref = r
      /\ \A j \in i + 1 .. Len(stream) : stream[j].ref # r
      => notes[listed[r]].anchor = stream[i].anchor

\* git gets an end of every import, be it "done" or the end of the helper:
\* every walk over parents ends, although the chain grows.
ImportAnswered ==
  pc \in {"next", "walk", "emit"} ~> pc \in {"done", "failed", "new"}

-----------------------------------------------------------------------------
(* What comments of the source say and the code does not keep.             *)

\* internal/helper/import.go: "The handler reads all requested refs, fetches
\* objects from chain".  A ref of which this clone's state.json has no head,
\* that list discovered on the chain and git then asked for, is in the stream
\* when "done" is written.  (A head never goes away again, so there was none
\* when the store was loaded.)
DiscoveredIsFetched ==
  [][Done /\ listed # None =>
       \A r \in asked : head[r] = 0 /\ listed[r] = Found
         => \E i \in DOMAIN stream : stream[i].ref = r]_vars
=============================================================================
