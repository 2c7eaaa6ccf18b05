------------------------------- MODULE DirTree -------------------------------
(***************************************************************************)
(* buildDirTree of internal/helper/export.go: from the files of a push, in *)
(* the order of their M commands, to the nodes of a batch transaction.     *)
(*                                                                         *)
(* A path is a nonempty sequence of names, which are numbers; <<>> is the  *)
(* root directory, ".".  A node's key stands for its P_node: every node    *)
(* gets a fresh key pair, so the transaction and the place in it name the  *)
(* node.                                                                   *)
(***************************************************************************)
EXTENDS Integers, Sequences, SequencesExt, FiniteSets, Slices

CONSTANT textPlace  \* the place of each path's text, "/" and all, among the texts

Root == <<>>

\* Mutant: only the directory a file is in, not the ones above it.
DirsNearest(paths) == {Root} \cup {Front(p) : p \in paths}

\* The directories of a set of paths: all their ancestors.
Dirs(paths) == {Root} \cup UNION {{SubSeq(p, 1, k) : k \in 0 .. Len(p) - 1} : p \in paths}

\* sort.Strings: whole texts are compared, so that "d-a" is before "d/a".
PathBefore(a, b) == textPlace[a] < textPlace[b]

\* strings.Count(path, "/"): none in the root nor in its subdirectories.
Slashes(d) == IF d = Root THEN 0 ELSE Len(d) - 1

DirBefore(a, b) ==
  \/ Slashes(a) > Slashes(b)
  \/ Slashes(a) = Slashes(b) /\ PathBefore(a, b)

\* allDirNames, deepest first.
DirOrder(paths) == InOrder(Dirs(paths), DirBefore)

\* A batch: the files in their order, then the directories.
FileKey(n, i) == <<n, i>>
DirKey(n, files, d) ==
  LET order == DirOrder(ToSet([i \in DOMAIN files |-> files[i].path]))
  IN  <<n, Len(files) + SelectInSeq(order, LAMBDA e : e = d)>>

ChildEntry(path, type, key) == [name |-> Last(path), type |-> type, key |-> key]

\* Mutant: a directory has one entry for a name.
FileChildrenOnce(n, files, d) ==
  LET here == {i \in DOMAIN files : Front(files[i].path) = d}
      first == {i \in here : \A j \in here : files[j].path = files[i].path => i <= j}
      sorted == InOrder(first, <)
  IN  [j \in DOMAIN sorted |->
         ChildEntry(files[sorted[j]].path, "file", FileKey(n, sorted[j]))]

\* Entries of files, one for each M command even if it repeats a path.
FileChildren(n, files, d) ==
  LET here == InOrder({i \in DOMAIN files : Front(files[i].path) = d}, <)
  IN  [j \in DOMAIN here |->
         ChildEntry(files[here[j]].path, "file", FileKey(n, here[j]))]

\* Entries of subdirectories follow, in the order of their names.
DirChildren(n, files, d, dirs) ==
  LET here == InOrder({s \in dirs \ {Root} : Front(s) = d}, PathBefore)
  IN  [j \in DOMAIN here |->
         ChildEntry(here[j], "dir", DirKey(n, files, here[j]))]

\* Mutant: the places of directories are counted anew.
BuildDirTreeAnew(n, files) ==
  LET paths == ToSet([i \in DOMAIN files |-> files[i].path])
      order == DirOrder(paths)
  IN  [j \in DOMAIN order |->
         [type |-> "dir", key |-> <<n, j>>,
          children |-> FileChildren(n, files, order[j])
                       \o DirChildren(n, files, order[j], Dirs(paths))]]

\* buildDirTree: the directory nodes of the n-th batch.
BuildDirTree(n, files) ==
  LET paths == ToSet([i \in DOMAIN files |-> files[i].path])
      order == DirOrder(paths)
  IN  [j \in DOMAIN order |->
         [type |-> "dir", key |-> <<n, Len(files) + j>>,
          children |-> FileChildren(n, files, order[j])
                       \o DirChildren(n, files, order[j], Dirs(paths))]]
=============================================================================
