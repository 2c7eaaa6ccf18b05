------------------------------- MODULE Content -------------------------------
(***************************************************************************)
(* What becomes of the files of a branch: commits, the nodes that pushRef  *)
(* publishes for them (internal/helper/export.go, internal/config), and    *)
(* what ReadTree and importAnchor make of those nodes in another clone     *)
(* (internal/chain/reader.go, internal/helper/import.go).                  *)
(*                                                                         *)
(* One ref, pushed from one clone: that its anchors form a chain, and what *)
(* happens when a push fails half way, is the business of RefLog and Push. *)
(* An import walks the chain from its beginning: no notes stop it.         *)
(***************************************************************************)
EXTENDS Attributes, DirTree

CONSTANTS
  Paths,     \* the paths a branch may have
  FilesAt,   \* FilesAt[p]: what a commit may put there, data and a mode of git's
  AttrPath,  \* the path .bitfsattributes, whose data are attribute lines
  Regular,   \* the mode 100644
  None,      \* no file; no key
  VaultKey,  \* the key DeriveVaultRootKey returns: no node's key
  MaxCommits, MaxChanges  \* bounds on the commits and on the files they change

ASSUME ContentAssumption ==
  /\ Paths \subseteq Seq(Nat) \ {<<>>} /\ IsFiniteSet(Paths)
  /\ \A p \in Paths : None \notin FilesAt[p]
  /\ AttrPath \in Paths
  /\ \A f \in FilesAt[AttrPath] :
       Sequence(f.data) /\ \A i \in DOMAIN f.data : Sequence(f.data[i].attrs)
  /\ DOMAIN textPlace = Paths \cup Dirs(Paths)
  /\ \A p \in DOMAIN textPlace : textPlace[p] \in Nat
  /\ \A p, q \in DOMAIN textPlace : textPlace[p] = textPlace[q] => p = q
  /\ VaultKey # None /\ {VaultKey, None} \cap (Nat \X Nat) = {}
  /\ MaxCommits \in Nat /\ MaxChanges \in Nat

VARIABLES
  work,     \* the files at the tip of the branch
  pending,  \* its commits that were not pushed yet, each a sequence of changes
  batches,  \* what the n-th push published: nodes, and TreeRootPNode
  log,      \* history: the commits of the n-th push, and the tip it brought
  result,   \* of the last push
  got       \* the last import: how it went and the files of the clone, or None

vars == <<work, pending, batches, log, result, got>>

-----------------------------------------------------------------------------
(* Commits, as git fast-export gives them.                                 *)

\* The trees of git: a path is a file or a directory, not both.
Trees ==
  {t \in [Paths -> (UNION {FilesAt[p] : p \in Paths}) \cup {None}] :
     \A p \in Paths : /\ t[p] \in FilesAt[p] \cup {None}
                      /\ \A q \in Paths : IsStrictPrefix(p, q) => None \in {t[p], t[q]}}

Changes(old, new) == {p \in Paths : old[p] # new[p]}

\* One change for each path, in the order of the paths.
OpsOf(old, new) ==
  LET order == InOrder(Changes(old, new), PathBefore)
  IN  [i \in DOMAIN order |-> [path |-> order[i], file |-> new[order[i]]]]

History == FlattenSeq([n \in DOMAIN log |-> log[n].commits]) \o pending

Commit(new) ==
  /\ Len(History) < MaxCommits /\ new # work
  /\ Len(FlattenSeq(History)) + Cardinality(Changes(work, new)) <= MaxChanges
  /\ work' = new
  /\ pending' = Append(pending, OpsOf(work, new))
  /\ got' = None
  /\ UNCHANGED <<batches, log, result>>

-----------------------------------------------------------------------------
(* pushRef.                                                                *)

\* The M commands of all commits; D commands are passed over.
Modifies(commits) ==
  LET ops == FlattenSeq(commits)
  IN  Selected(ops, [i \in DOMAIN ops |-> ops[i].file # None])[Len(ops)]

\* Mutant: the first .bitfsattributes of the push is kept.
PolicyFirst(mods) ==
  LET i == SelectInSeq(mods, LAMBDA op : op.path = AttrPath /\ Scans(op.file.data))
  IN  IF i = 0 THEN DefaultPolicy ELSE ParseAttributes(mods[i].file.data)

\* The last .bitfsattributes that a commit of this push writes and that can be
\* parsed.
Policy(mods) ==
  LET i == SelectLastInSeq(mods, LAMBDA op : op.path = AttrPath /\ Scans(op.file.data))
  IN  IF i = 0 THEN DefaultPolicy ELSE ParseAttributes(mods[i].file.data)

\* Mutant: every node is marked as private.
FileNodePrivate(n, i, op, policy) ==
  [type |-> "file", key |-> FileKey(n, i), data |-> op.file.data,
   access |-> "private"]

\* buildFileNodeOp: the node's own new key encrypts; the mode is not kept.
FileNode(n, i, op, policy) ==
  [type |-> "file", key |-> FileKey(n, i), data |-> op.file.data,
   access |-> GetAccess(policy, op.path)]

\* EncryptFile refuses any other access mode.
Accesses == {"free", "private", "paid"}
Encrypts(mods) ==
  \A i \in DOMAIN mods : GetAccess(Policy(mods), mods[i].path) \in Accesses

\* The batch and what the anchor says of its tree: nothing without files.
Batch(n, mods) ==
  IF mods = <<>> THEN [nodes |-> <<>>, root |-> None]
  ELSE [nodes |-> [i \in DOMAIN mods |-> FileNode(n, i, mods[i], Policy(mods))]
                  \o BuildDirTree(n, mods),
        root |-> DirKey(n, mods, Root)]

Push ==
  /\ pending # <<>>
  /\ Encrypts(Modifies(pending))
  /\ batches' = Append(batches, Batch(Len(batches) + 1, Modifies(pending)))
  /\ log' = Append(log, [commits |-> pending, tip |-> work])
  /\ pending' = <<>>
  /\ result' = "ok"
  /\ got' = None
  /\ UNCHANGED work

\* Nothing is published; git sends the same commits again with the next push.
PushRefused ==
  /\ pending # <<>>
  /\ ~Encrypts(Modifies(pending))
  /\ result' = "error"
  /\ UNCHANGED <<work, pending, batches, log, got>>

-----------------------------------------------------------------------------
(* The ChainReader, an interface without an implementation here.  All the  *)
(* nodes of a push have the txid of its batch, which it answers with the   *)
(* root.  Its nodes may nevertheless have a TxID each, as those of the     *)
(* tests do ("own"), or the one of the batch ("batch").                    *)

Readers == {"own", "batch"}

TxIDs == [batch : Nat, key : (Nat \X Nat) \cup {None}]

NodeByPubKey(k) == batches[k[1]].nodes[k[2]]

TxIDOf(how, node) ==
  [batch |-> node.key[1], key |-> IF how = "own" THEN node.key ELSE None]

NodeByTxID(id) ==
  NodeByPubKey(IF id.key # None THEN id.key ELSE batches[id.batch].root)

-----------------------------------------------------------------------------
(* ReadTree.                                                               *)

Read(status, files) == [status |-> status, files |-> files]

\* Mutant: the path of a file is its name.
ReadFileByName(node, path, privKey) ==
  IF node.access = "free" \/ (node.access = "private" /\ privKey = node.key)
  THEN Read("done", <<[path |-> <<Last(path)>>, data |-> node.data, mode |-> Regular]>>)
  ELSE Read("failed", <<>>)

\* readFileByPubKey and decryptFileNode: a private file needs the key that
\* encrypted it, a paid one is refused.
ReadFile(node, path, privKey) ==
  IF node.access = "free" \/ (node.access = "private" /\ privKey = node.key)
  THEN Read("done", <<[path |-> path, data |-> node.data, mode |-> Regular]>>)
  ELSE Read("failed", <<>>)

\* Directories nest no deeper than paths are long: a read that is deeper than
\* that is going round in a circle and does not come back.
MaxDepth == CHOOSE n \in {Len(p) : p \in Paths} : \A p \in Paths : Len(p) <= n

\* One reading after the other, up to the first error.
ReadAll(reads) ==
  LET failed == SelectInSeq(reads, LAMBDA r : r.status # "done")
  IN  IF failed = 0 THEN Read("done", FlattenSeq([i \in DOMAIN reads |-> reads[i].files]))
      ELSE Read(reads[failed].status, <<>>)

\* readTreeRecursive, which reads a subdirectory as sub does.
ReadDir(how, privKey, id, prefix, sub) ==
  LET dir == NodeByTxID(id)
      child(c) ==
        LET node == NodeByPubKey(c.key)
            path == Append(prefix, c.name)
        IN  IF c.type = "file" THEN ReadFile(node, path, privKey)
            ELSE sub[<<TxIDOf(how, node), path>>]
  IN  IF dir.type # "dir" THEN Read("failed", <<>>)
      ELSE ReadAll([i \in DOMAIN dir.children |-> child(dir.children[i])])

\* The directories at most left - 1 levels below one are read.
ReadTree(how, privKey, id) ==
  LET read[left \in 0 .. MaxDepth + 1] ==
        [at \in TxIDs \X Seq(Nat) |->
           IF left = 0 THEN Read("endless", <<>>)
           ELSE ReadDir(how, privKey, at[1], at[2], read[left - 1])]
  IN  read[MaxDepth + 1][<<id, <<>>>>]

-----------------------------------------------------------------------------
(* Import into a clone that has nothing of the ref yet.                    *)

\* An M command of git fast-import: what is in the way of the path goes.
Write(files, f) ==
  LET kept == {p \in DOMAIN files : ~IsPrefix(p, f.path) /\ ~IsPrefix(f.path, p)}
  IN  [p \in kept \cup {f.path} |->
         IF p = f.path THEN [data |-> f.data, mode |-> f.mode] ELSE files[p]]

\* The files after each of the M commands ms.
Written(ms) ==
  LET written[n \in 0 .. Len(ms)] ==
        IF n = 0 THEN [p \in {} |-> None] ELSE Write(written[n - 1], ms[n])
  IN  written

\* Each anchor's tree is M commands on top of the commit before it; an error
\* ends the import after the commits written.
ImportTrees(trees) ==
  LET failed == SelectInSeq(trees, LAMBDA t : t.status # "done")
      through == IF failed = 0 THEN Len(trees) ELSE failed - 1
      ms == FlattenSeq([n \in 1 .. through |-> trees[n].files])
  IN  Read(IF failed = 0 THEN "done" ELSE trees[failed].status, Written(ms)[Len(ms)])

AnchorTree(how, privKey, batch) ==
  IF batch.root = None THEN Read("done", <<>>)
  ELSE ReadTree(how, privKey, [batch |-> batch.root[1], key |-> None])

\* Mutant: the anchors are taken in the order of the walk.
ImportRefNewestFirst(how, privKey) ==
  ImportTrees(Reverse([n \in DOMAIN batches |-> AnchorTree(how, privKey, batches[n])]))

\* importRef and importAnchor.
ImportRef(how, privKey) ==
  ImportTrees([n \in DOMAIN batches |-> AnchorTree(how, privKey, batches[n])])

\* handleImport, with the vault root key if there is a wallet.
Import(how, privKey) ==
  /\ batches # <<>> /\ got = None
  /\ got' = [how |-> how, privKey |-> privKey, import |-> ImportRef(how, privKey)]
  /\ UNCHANGED <<work, pending, batches, log, result>>

-----------------------------------------------------------------------------
Init ==
  /\ work = [p \in Paths |-> None]
  /\ pending = <<>> /\ batches = <<>> /\ log = <<>>
  /\ result = "none" /\ got = None

Next ==
  \/ \E new \in Trees : Commit(new)
  \/ Push
  \/ PushRefused
  \/ \E how \in Readers, privKey \in {None, VaultKey} : Import(how, privKey)

Spec == Init /\ [][Next]_vars
-----------------------------------------------------------------------------
(* Properties.                                                             *)

Pushed == FlattenSeq(FlattenSeq([n \in DOMAIN log |-> log[n].commits]))
Tip == log[Len(log)].tip
Imported == got # None /\ got.import.status = "done"
Clone == got.import.files

\* The entries of a key, each by its directory and its place there.
Entries(nodes, key) ==
  LET all == UNION {{j} \X DOMAIN nodes[j].children :
                      j \in {j \in DOMAIN nodes : nodes[j].type = "dir"}}
  IN  {e \in all : nodes[e[1]].children[e[2]].key = key}

\* From a node k entries up, if there are so many above it: where that is, and
\* what the entries spell.
Climb(batch, key) ==
  LET climb[k \in 0 .. Len(batch.nodes)] ==
        IF k = 0 THEN [key |-> key, path |-> <<>>]
        ELSE LET here == climb[k - 1]
                 e == CHOOSE e \in Entries(batch.nodes, here.key) : TRUE
                 dir == batch.nodes[e[1]]
             IN  IF here.key = batch.root THEN here
                 ELSE [key |-> dir.key, path |-> <<dir.children[e[2]].name>> \o here.path]
  IN  climb

\* Every variable has its type; a push is published with its commits.
TypeOK ==
  /\ work \in Trees
  /\ result \in {"none", "ok", "error"}
  /\ DOMAIN batches = DOMAIN log
  /\ \A n \in DOMAIN batches : \A i \in DOMAIN batches[n].nodes :
       batches[n].nodes[i].key = <<n, i>>
  /\ got = None \/ got.import.status \in {"done", "failed", "endless"}

\* buildDirTree numbers files and directories apart and sorts them anew, and
\* still every node of a batch is entered in one directory, once, with its
\* type, but for the root, which is in none; and from the root down to a file
\* the entries spell the path of its M command.
TreeIsWhole ==
  \A n \in DOMAIN batches :
    LET batch == batches[n]
        mods == Modifies(log[n].commits)
    IN  /\ \A j \in DOMAIN batch.nodes :
             LET here == Entries(batch.nodes, batch.nodes[j].key)
             IN  IF batch.nodes[j].key = batch.root THEN here = {}
                 ELSE \E e \in here :
                        /\ here = {e}
                        /\ batch.nodes[e[1]].children[e[2]].type = batch.nodes[j].type
        /\ \A i \in DOMAIN mods :
             LET top == Climb(batch, <<n, i>>)[Len(batch.nodes)]
             IN  top = [key |-> batch.root, path |-> mods[i].path]

\* A new clone has the branch's files: each file of the last tip, with its
\* content, unless a push also wrote something at a path above or below it;
\* and no other file as long as no pushed commit deletes one.  Although a push
\* puts the files of all its commits into one tree, repeated paths included,
\* and the import knows nothing of deletions.
CloneIsTip ==
  Imported =>
    /\ \A p \in Paths :
         Tip[p] # None /\ (\A i \in DOMAIN Pushed :
                             \/ Pushed[i].file = None
                             \/ ~IsStrictPrefix(p, Pushed[i].path)
                                /\ ~IsStrictPrefix(Pushed[i].path, p))
         => p \in DOMAIN Clone /\ Clone[p].data = Tip[p].data
    /\ (\A i \in DOMAIN Pushed : Pushed[i].file # None)
         => DOMAIN Clone = {p \in Paths : Tip[p] # None}

\* What all may read is read: an import without any key succeeds if the
\* attributes of every push make all its files free, even in subdirectories if
\* their nodes have a TxID each.
ReadableIsRead ==
  /\ got # None
  /\ \A n \in DOMAIN log :
       LET mods == Modifies(log[n].commits)
       IN  \A i \in DOMAIN mods : /\ GetAccess(Policy(mods), mods[i].path) = "free"
                                  /\ got.how = "own" \/ Front(mods[i].path) = Root
  => got.import.status = "done"

\* A file is published under the access that the attributes of the branch give
\* it: the last line of .bitfsattributes that matches its path and has an
\* attribute.  That is the file at the tip if this push writes it, whichever of
\* its commits does; if it is gone there or cannot be parsed, the one that this
\* push wrote before and that can be; and without any the access is private,
\* whatever the branch has.
AccessFollowsAttributes ==
  \A n \in DOMAIN batches :
    LET mods == Modifies(log[n].commits)
        attributes == log[n].tip[AttrPath]
        parsed == {i \in DOMAIN mods : mods[i].path = AttrPath /\ Scans(mods[i].file.data)}
        lines == IF attributes # None /\ Scans(attributes.data) THEN attributes.data
                 ELSE mods[Max(parsed)].file.data
        matching(p) == {l \in DOMAIN lines : /\ lines[l].attrs # <<>>
                                            /\ MatchPattern(lines[l].pattern, p)}
        given(l) == {a \in DOMAIN lines[l].attrs : lines[l].attrs[a] # Other}
    IN  \A i \in DOMAIN mods :
          LET access == batches[n].nodes[i].access
              of == matching(mods[i].path)
          IN  IF parsed = {} \/ of = {} THEN access = "private"
              ELSE \E l \in of : /\ \A k \in of : k <= l
                                 /\ IF given(l) = {} THEN access = "private"
                                    ELSE access = lines[l].attrs[Max(given(l))]

\* Nothing comes to a clone that was not pushed: each of its files has a
\* content that some pushed commit put at that path, after failures too.
NothingInvented ==
  got # None =>
    \A p \in DOMAIN Clone :
      \E i \in DOMAIN Pushed :
        Pushed[i].path = p /\ Pushed[i].file # None /\ Pushed[i].file.data = Clone[p].data

-----------------------------------------------------------------------------
(* What comments of the source say and the code does not keep.             *)

\* internal/chain/writer.go: 'For access="private": uses the node's private key,
\* only owner can decrypt.'  An import with the owner's wallet reads files that
\* are free or private.
OwnerReadsBack ==
  /\ got # None /\ got.how = "own" /\ got.privKey = VaultKey
  /\ \A n \in DOMAIN batches : \A i \in DOMAIN batches[n].nodes :
       LET node == batches[n].nodes[i]
       IN  node.type = "file" => node.access \in {"free", "private"}
  => got.import.status # "failed"
=============================================================================
