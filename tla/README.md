# A TLA+ model of git-remote-bitfs

`git-remote-bitfs` is a git remote helper. git starts it, talks to it over
stdin and stdout in the remote-helper protocol, and it keeps the repository as
transactions on a blockchain: file and directory nodes in batch transactions,
and one *anchor* per push and ref that spends the ref's *branch head output*
and names the anchor before it. This directory holds TLA+ modules that model
the program, TLC configurations that check them on small instances, and proofs
checked by TLAPS. Paths below are relative to `src/internal` unless they start
with `src`.

`PROJECT.json` maps every definition to the lines it stands for and lists the
runs, mutants, hazards, findings and theorems.

## 1. Inventory

| Component | Source | State | Operations | Talks to |
|---|---|---|---|---|
| Command | `src/cmd/git-remote-bitfs/main.go` | none | read arguments and environment, run the helper; configures no blockchain and no wallet | Helper |
| Helper loop | `helper/helper.go` | store and notes, created lazily | capabilities, list, import, export until an empty line or EOF | git by pipes; all handlers |
| Export protocol | `helper/export.go` 63-167 | blobs, commits, resets, tags of one stream | parse all, push, report one line per ref | parser, ref push |
| Ref push | `helper/export.go` 171-416 | locals of `pushRef`, `refResults` | per ref: nodes, batch, anchor, store update, Save | writer, anchor builder, store |
| Directory tree, file nodes | `helper/export.go` 419-650 | none | encrypt a file, build directory nodes | policy, writer |
| Batch writer | `chain/writer.go` | none | build, sign, broadcast a batch | BlockchainService |
| Anchor builder | `chain/anchor.go` | none | build, sign, broadcast an anchor; the multi-ref anchor is never called | BlockchainService |
| UTXO store | `utxo/` | three slices behind a mutex; `state.json` | Load, Save (temp file and rename), Add/Allocate fee, Set/Get/Remove node and ref | file system |
| Chain reader | `chain/reader.go` | none | ReadAnchor, WalkAnchorChain, ReadTree | ChainReader |
| Import | `helper/import.go` | mark counter | per ref: find the head, walk to the last imported anchor, write blobs and commits | store, notes, reader, generator |
| List | `helper/list.go` | none | refs of the store with the commit its note names, or those a ChainRefLister finds | store, notes |
| Notes, path index | `mapper/` | git notes; a map | Get/Set/Remove/List by running git; put and look up paths | git |
| Fast-export parser | `stream/parser.go` | read-ahead buffer | next command | export |
| Fast-import generator | `stream/generator.go` | none | write blob, commit, reset, done | import |
| Access policy | `config/attributes.go` | list of rules | parse, look up a path | export |
| URL, wallet configuration | `config/url.go`, `config/wallet.go` | none | parse, read a file | command |

BlockchainService, ChainReader and ChainRefLister, the transaction builder and
the wallet are interfaces or code of another repository (`libbitfs-go`); they
are modelled from how this code uses them and marked external.

### How the components interact

git writes one command line after the other. `list` and `import` read the store
(loaded once per process from `.git/bitfs/state.json`), the notes and the chain;
`export` parses a whole fast-export stream, then pushes ref by ref. There is one
goroutine per process. Concurrency comes from several helper processes, in one
clone or in several, that meet at the chain and at `state.json`, and from the
network, where a transaction may be accepted after its broadcast was reported
failed.

### What makes each component correct, and what is hard about it

* **Ref push.** No two anchors continue the same one; parents lead back through
  one ref's anchors; an anchor names the tree of its own push; `ok` means
  anchored; the fee pool offers no output twice; `state.json` never goes back;
  every export is answered. Hard: refs come in random map order and share a store
  and a fee pool; any broadcast or Save may fail, be answered wrongly or be cut
  by a crash between any two steps; two processes start from the same head.
* **UTXO store.** Memory is a set of outputs and two tables, the file is always
  a whole state. Hard: swap-remove, ties and slice aliasing; Save is four file
  system calls.
* **Import and list.** The commits git reads have the ancestry of the anchors;
  `done` means complete; marks are used once; `list` and `import` agree; every
  walk ends. Hard: reads that fail half way, notes that are missing, unreadable
  or in the wrong order, a head that pushes move meanwhile.
* **Directory tree, file nodes, ReadTree.** What is written can be read back:
  every node is in one directory, every file under its path, and a new clone has
  the files of the tip. Hard: the order of the batch, one txid for all nodes of
  a batch, fresh random keys, duplicates when several commits touch one path,
  an import without deletions.
* **Fast-export parser, generator.** The parser gives what git or the generator
  wrote, nothing more, and every command of git's is answered in turn. Hard:
  read-ahead, data of any form, unknown headers, quoting, a stream that breaks
  off.
* **Access policy.** A file is published under the access its branch's rules
  give it: the last matching rule wins, and an unknown mode is refused before
  anything is published.

The hazards are listed with their lines in `PROJECT.json`.

## 2. Modules

| Module | Models | Used by |
|---|---|---|
| `UtxoState` | the value of a `utxo.State` as a set and a function, and the store operations a push uses | `Push`, `StoreSpec` |
| `Push` | `pushToChain`, `pushRef`, the writer, the anchor builder, the chain, `state.json`, processes that crash and restart | `MCPush`, `PushProofs` |
| `RefLog` | abstract: anchors start a history or extend the newest anchor of one | `Push` implements it, `Fetch` reads it |
| `UtxoStore` | `store.go` on slices, Save call by call, several processes on one path | `MCUtxoStore`, `StoreProofs` |
| `StoreSpec` | abstract: the store over `UtxoState`'s operations with an atomic Save | `UtxoStore` implements it |
| `Fetch` | `handleList`, `handleImport`, `importRef`, `WalkAnchorChain`, `importAnchor`, reading notes | `MCFetch`, `FetchProofs` |
| `Slices` | what loops that filter a slice, and sorts, make of it | `Attributes`, `DirTree`, `Stream`, `Recursion` |
| `Attributes` | `.bitfsattributes`: parsing, patterns, the rule that wins | `Content` |
| `DirTree` | `buildDirTree`: from paths to the nodes of a batch | `Content` |
| `Content` | files from commit to clone: the batch of a push, `ReadTree`, the M commands of an import | `MCContent` |
| `Stream` | the fast-export parser with its buffer, the generator, `handleExport` around the parser, the command loop around `handleExport`, git at the other end of the pipe | `MCStream` |
| `PushProofs`, `OutcomeProofs` | theorems about `Push` | |
| `FetchProofs`, `StoreProofs` | theorems about `Fetch` and `UtxoStore` | `StoreRefinement` |
| `StoreRefinement` | that `UtxoStore` implements `StoreSpec` | |
| `StreamProofs` | theorems about `Stream` | |
| `ContentProofs` | theorems about `Content`, `DirTree` and `Attributes` | |
| `Recursion` | what recursive functions compute: existence, sums, concatenations, selections | `PushProofs`, `StoreProofs`, `StreamProofs`, `ContentProofs` |
| `MCPush`, `MCUtxoStore`, `MCFetch`, `MCContent`, `MCStream` | instances for TLC | |

The layers fit together: `UtxoStore` implements `StoreSpec`, whose pool and heads
are the operators of `UtxoState` that `Push` is built on; `Push` implements
`RefLog`, and `RefLog` is the chain that `Fetch` walks. `Content` fills the
anchors of one ref, whose order `RefLog` has settled, with files, built with
`DirTree` and `Attributes`. `Stream` is what comes before a push: its `out` is
what `Export` of `Push` and `Push` of `Content` begin with.

Operators whose comment begins with "Mutant" are no part of a specification.
Each is a bug that the definition after it could plausibly have had;
`PROJECT.json` says which property fails when it takes that definition's place.

### Push: state and actions

`chain` is the sequence of accepted transactions, a txid is an index of it, and
`Acceptable` is the ledger's rule: inputs exist and are unspent. `limbo` holds
transactions whose broadcast was answered with an error and that may still be
accepted (`Land`). `disk[c]` is a clone's `state.json`, `mem[p]` the store of a
process. `pc[p]` is where the process is: `idle`, `ready` (in `Helper.Run`),
`loop` (in `pushToChain`), and in `pushRef` before the batch (`nodes`), before
the anchor (`anchor`) and before Save (`save`).

| Action | Code |
|---|---|
| `LoadOk`, `LoadFails` | `initUTXOStore`; a failed Load leaves an empty store |
| `Export` | `handleExport` after `parse`: the refs with commits, and those of them whose commits modify files |
| `PickRef`, `PrepareFails` | the next ref of the map; any early return before the first allocation |
| `PushNodesOk`, `PushNodesFails`, `NoFeeUTXO` | allocation, batch, change; every early return |
| `PushAnchorOk`, `PushAnchorFails`, `NoFeeUTXO` | allocation, anchor on the known head, `SetRefUTXO`, change |
| `SaveOk`, `SaveFails` | Save; its error is a warning and the ref is `ok` |
| `Report` | the answer to git |
| `Stop` | the end of the session, or a crash at any point |

Each action runs from one broadcast or file access to the next, which is where
other processes, the network and crashes come in; what lies between touches
only the memory of the process. A broadcast that fails, for whatever reason
from a script that does not sign to a lost answer, takes the allocated output
out of memory and ends `pushRef` without Save. Fees are a choice: the change of
a transaction is any smaller amount, none when it would be dust. Keys, payloads,
the tree's content and `Force` (never set) are left out. A txid is the position
of acceptance, because all that matters of it here is that it is new.

`mine`, `base` and `clean` are history variables; no guard reads them.

### UtxoStore

Slices are sequences, and every method is one step because it holds the mutex.
Save holds it as well, so no method runs between `CreateTemp`, `WriteTemp` and
`Rename`; other processes do. `temp[p]` is p's own temporary file. `Seen` maps
the slices to the set and the tables of `StoreSpec`, as Get would find them. A
state has at most one fee entry per output because each is the change of a new
transaction: `AddFeeUTXO` has this as its guard, and `Push` has it in
`FeePoolExact`.

### Fetch

`head` is `state.json` as pushes move it, `known` is what the session loaded.
`BeginRef` takes the head and the stop point, `WalkReads` is one turn of the
walk's loop, `ImportAnchor` writes the blobs and the commit of one anchor. Notes
are written by other programs (`Annotate`): `pushRef` builds one and drops it,
and `SetNote` has no caller. `Readable` are the notes for which `git notes list`
and `git notes show` succeed. Commits are numbers in the order in which
`git notes list` gives them, that of their object ids, unrelated to time. git
lists once in a session. A process that fails or ends loses its memory
(`Forget`); what it wrote to git stays written.

### Content, DirTree, Attributes

`Commit` is git's work: any tree follows any tree, and `pending` holds what
fast-export will send. `Push` is `pushRef` from the commits to the batch: all M
commands of all commits become file nodes (`FileNode`, with the access that
`Policy` gives them), `BuildDirTree` adds the directories. D commands are passed
over, as in the code. `PushRefused` is an access mode that `EncryptFile` does not
know. A key stands for a P_node and the key pair behind it; every node has a
fresh one, so it is the place of the node: batch and index.

`Import` walks the anchors from the oldest, reads each tree and writes M commands
on top of the commit before it. `Write` is git fast-import, which is external: a
new file removes what is in its way. The ChainReader has no implementation in the
repository. `NodeByTxID` answers a batch's txid with its root; `Readers` are the
two ways its nodes may carry a TxID, one for each as in the tests, or that of
their batch. With the second a subdirectory is read as the root again and the recursion does
not end. `ReadTree` is a recursive function of the levels that are left, one more
than the longest path has names (`MaxDepth`): a tree is never deeper, and what is
not read by then is being read in a circle and gives `endless`. `Written` is the
clone after each M command, `ImportTrees` takes the M commands of the trees up to
the first one that cannot be read.

`InOrder` of `Slices` gives a sorted slice by what it satisfies, each element at
the place that the number of those before it says; that the orders of the code
are total, so that there is one, is proved (`PathsInLine`, `DirectoriesInLine`).

Directories are sorted as text, "/" included, for the entries of a directory and
within one depth for the batch; so `DirTree` has the place of each text among
the others as a constant, `textPlace`.

In `Attributes` a pattern is its kind and, for each segment, the set of names
its glob matches. `MatchPattern` keeps the code's forms: `**/x` compares the rest
with the end of the path as text and with the last name as a glob. A line is
`long` if it does not fit the scanner's 64 KB; a file with one cannot be parsed
(`Scans`), and the push keeps the policy it had before.

### Stream

Text is a sequence of lines and of pieces without a newline. `pipe` is what git
has written and the helper has not read; `ahead` is what the parser's `bufio`
holds, a peeked line included. `Fill` reads any amount, whenever a line or data
are not complete (`Wants`), and every other action of the parser is one turn of
the loops in `Next`, `parseBlob`, `parseCommit`, `parseReset` and `parseTag`.
Data may look like anything, and may be followed by a newline or not. git writes
an export, another command and the end of the session; it waits for an answer
before the next command (`plan.waits`), and it may close the pipe anywhere, also
in the middle of a line (`GitCloses`, `CutForms`) or of data. Of git's a reset
without `from` is one line, with no empty line after it, and only the next
command ends it. `Run` takes a command with its newline only (`HasCommand`): what
is left of a torn one ends the session as the end of the pipe does.

## 3. Runs

| Run | Question | Bounds |
|---|---|---|
| `push_session` | do refs that share a handler, a pool and a file get mixed up, under failures, late transactions, crashes? | 1 process, 2 refs, 2 outputs, 1 transaction in limbo |
| `push_race` | can two processes with the same head both continue it? | 2 processes, 1 clone, 1 ref, 3 outputs |
| `push_live` | is every export answered; does the chain grow as `RefLog` allows? | 1 process, 2 refs, 2 outputs |
| `store_slices` | are the slices a set and tables, is Save atomic? | 1 process, 3 outputs with a tie, 2 refs |
| `store_shared` | what does a file shared by two processes hold? | 2 processes, 1 node, 1 ref, 2 values |
| `fetch_session` | is the stream right for several refs while pushes go on and reads fail; does every import end? | 3 anchors, 2 refs, 2 notes, at most 4 of anchors and notes |
| `content` | does a new clone get what was pushed, under the access the attributes give? | 5 paths, 3 commits, 4 changes |
| `stream` | does the parser read what git and the generator write, however it arrives and wherever it breaks off; is each command answered? | 2 commands out of 11 of git's or 5 of the generator's |
| `doc_cas`, `doc_clone`, `doc_readback`, `doc_truncated` | counterexamples to comments of the source, section 4 | as small as shows them |

What the passing runs show, beside types:

* `push_session`: heads in memory and in the file are head outputs of accepted
  anchors of their ref (`HeadsOnChain`); parents stay in the ref
  (`AncestryOfRef`); an anchor names its own batch, and no other does
  (`TreeOfPush`); the pool is exact (`FeePoolExact`); `ok` means anchored
  (`OkIsAnchored`); the file does not go back (`DiskMovesForward`).
* `push_race`: no two anchors continue one (`NoFork`).
* `push_live`: exports are answered (`ExportAnswered`), and `Push` implements
  `RefLog` (`Publishes`).
* `store_slices`, `store_shared`: no key is twice in a slice (`KeysUnique`);
  `UtxoStore` implements `StoreSpec` (`KeepsPromise`).
* `fetch_session`: the commits in the stream have the ancestry of the anchors
  (`CommitsFollowAnchors`); marks are given once (`MarksGivenOnce`); `done` means
  complete (`DoneIsComplete`); `list` names the commit of the anchor that an
  import ends with (`ListAgreesWithImport`); imports end (`ImportAnswered`).
* `content`: each node is in one directory and each file under its path
  (`TreeIsWhole`); a new clone has the files of the tip, and only those while
  nothing is deleted (`CloneIsTip`); what is free can be read without a key
  (`ReadableIsRead`); the access is that of the last matching line of the
  attributes at the tip, if this push writes them and they can be parsed, else of
  the last ones it writes that can; without any it is private
  (`AccessFollowsAttributes`); a failed import brings nothing that was not
  pushed (`NothingInvented`).
* `stream`: the commands that were written come out, whole and in order
  (`ParsedAsWritten`); of a broken stream no more than was written
  (`NothingMadeUp`), and only a broken one is refused (`FailsOnlyIfBroken`);
  each command has one answer (`AnsweredInTurn`), which names the right refs
  (`RefsAnswered`); neither side waits for ever (`ExportEnds`).

**Why the bounds are enough.** Amounts are in units of the anchor's minimum
(5000 sat): 1 pays an anchor, 2 a node batch (10000 sat). Every transaction
spends at least one unit, so the wallets bound the chain, and `TxIds` never cuts
a behaviour short. Two outputs (2 and 1) allow a batch with its anchor and one
more anchor; a pool that runs dry in the middle, best fit and change that is
spent again all happen. Three outputs allow an anchor and two that compete to
continue it, which is what a fork takes; forks by a lost answer instead of a race
need three outputs and limbo, too many states for two processes, and are covered
by the theorem `NoForkEver`, which has no bounds. Limbo bounds how many lost
transactions wait at a time, not how many there are.

Three anchors allow one ref to have a history of three, with a stop point inside
it and a commit after it, or a history of two beside another ref; the number of
files per anchor, 0, 1 and 2, differs between anchors so that marks can clash.
`MaxNews` = 4 allows three anchors with a note or two anchors with two; the
theorems of section 5 have no such bound.

The five paths of `content` are the attributes, two files at the top, of which
one may be a directory instead, a file in it, and a file two levels deep: a file
that becomes a directory and back, a directory with a subdirectory, the same
name in three directories. Three commits with four changes allow a push of two
commits that touch one path and a push before or after it, or a deletion in
between; the four versions of the attributes have each kind of pattern, a line
without attributes, two values on one line, a misspelt mode, and a line that is
too long to be read. In the order of the texts (`Places`) a name comes between
a directory and what is in it, as `d-a` between `d` and `d/a`.

The commands of `stream` have each header the parser knows and one it does not,
each file change, data that are empty, look like `done`, `data` or `reset`, or
end without a newline, and names that are quoted, contain a space or begin with
a quotation mark. Two commands are enough because the parser keeps nothing from
one command to the next but the peeked line and the buffer, which the first
hands to the second.

`push_race` uses a VIEW that leaves out `results`, `mine`, `base` and `clean`:
no guard reads them, and `NoFork` is about `chain` alone. Its symmetry exchanges
the processes, which share one clone and appear in no constant. Neither is used
with a liveness property. `push_session` has one process on
`state.json`: with two, updates are lost and `DiskMovesForward` fails (a hazard
listed).

**Deadlock** is checked in the runs of `Push`, `UtxoStore` and `Fetch`, where a
process can always stop and load again. `Content` stops when its commits are
used up, pushed and imported, and `Stream` when the session is over or the helper
has failed; what must not stop there is `ExportEnds`.

**Fairness.** `push_live` assumes WF of `Work(p)`, the steps of `pushToChain`
and `pushRef`; `fetch_session` of `Work`, the steps of an import; `stream` of
`Helper`, the steps of the parser and the command loop, and of `GitWrites`: git
writes what it may write, or closes the pipe, of which nothing is assumed. The
helper is sequential code that waits only for a broadcast, the file system, a
chain read or git, each of which is assumed to answer, with success or an error.
Nothing is assumed about new commands, about limbo, about which outcome a call
has, or about crashes. The source sets no deadline on a broadcast
(`context.Background`); a node that never answers blocks the helper, and the
model does not say otherwise.

## 4. Where the code does not do what a comment says

Four runs each end in a counterexample to a line of the source:

* `doc_cas`: `RefUTXO` is "for CAS consistency" (`utxo/types.go:23`). It is from
  the second push of a clone on. A first push has no RefUTXO and creates a root
  without asking the chain: two clones give a ref two histories.
* `doc_clone`: import "reads all requested refs, fetches objects from chain"
  (`helper/import.go:43`). A ref that only the ChainRefLister knows is skipped,
  and `done` follows. The property asks for it only of a ref of which `state.json`
  has no head when `done` is written, so the store was loaded and had none, as
  that of a fresh clone.
* `doc_readback`: 'For access="private": uses the node's private key, only owner
  can decrypt' (`chain/writer.go:183`). That key is random and stored nowhere, an
  import tries the vault root key, and the owner cannot read the file. Private is
  the default.
* `doc_truncated`: "parse reads the entire fast-export stream, collecting blobs
  and commits" (`helper/export.go:143`). The end of the pipe is taken for `done`
  between commands, and for the end of the commit within one
  (`stream/parser.go:187`). In the trace only the first line of a commit comes;
  what is collected has no message, parents or file changes, and its ref is
  answered for: with a chain the part goes to `pushToChain`, without one it is
  reported `ok`. An export of which no command came names no ref and is not
  counted.

Met while modelling; the models contain these behaviours, and the properties are
stated so that they hold beside them:

* When Save fails the ref is reported `ok` and `state.json` keeps the anchor
  before, so that every later push of the ref from this clone builds on a spent
  head (`utxo/types.go:31` calls it the latest anchor). A crash between broadcast
  and Save does the same.
* `list` leaves out pushed refs that have no note (`helper/list.go:25`), and a push
  writes none; the walk stops at the first matching note in the order of object
  ids, which need not be the last imported anchor (`helper/import.go:256`), so
  anchors may be imported again.
* A push whose commits do not change `.bitfsattributes` forgets the rules: its
  files are private.
* Deleted files stay in every clone, because D commands are passed over and an
  import writes no `deleteall` (`helper/import.go:224` says it does). A path that was a
  file and then a directory within one push is in the tree as both.
* `FileMode` of a file node is never set: executable files come back as regular.
* The root directory is not always last in its batch (`helper/export.go:577`): a
  directory directly below it has the same depth and sorts after it.
* A commit header the parser does not know (`gpgsig`, `encoding`) ends the commit;
  its message lines are then read as commands. A negative byte count in `data`
  reaches `make`.
* Refs that are only reset are answered without a chain and not answered with one.

## 5. Proofs

The theorems hold for all sets of clones, processes, refs, commits, notes, paths
and files, all
wallets of the shape that `PushAssumption` gives, all minima and any limit on
limbo. The assumptions are those of the modules: in `Push`, every process has a
clone, wallet outputs are those of txid 0, txids are positive, `AnchorFeeMin` is
positive (5000 in the code), None is no RefUTXO; in `Fetch`, there are finitely
many refs, txids are positive, commits are numbers; in `UtxoStore`, amounts are
numbers. `StreamAssumption` says what `Plans` consists of, any number of plans of
any length: sequences of commands of the four types, or lines the parser skips,
each with the headers of its type in any number, any data, any file changes (a
submodule has no data of its own) and any paths; and that a value that was cut
can be told from a count and from a path. It describes what git and the
generator write and excludes no data. `ContentAssumption` says that there are
finitely many paths, nonempty sequences of names, among them that of the
attributes, whose data are lines with attributes each, some too long to be read;
that paths and directories have places in the order of their texts, no two the
same; and that "no file" is no
file and neither "no key" nor the vault root key the key of a node, which are
random. Paths may be of any length and in any number, and one may be a beginning of
another. `DiskForwardAlone` has a hypothesis of
its own, that no two processes share a clone; with two the property is false.
TLC evaluates the assumptions in every run.

| Module | Theorem | States | Checked by |
|---|---|---|---|
| `PushProofs` | `TypeCorrect` | `Spec => []TypeOK` | `push_race` |
| | `BranchInvariant` | `Spec => []BranchInv` | |
| | `NoForkEver` | `Spec => []NoFork` | `push_race` |
| | `AncestryEver` | `Spec => []AncestryOfRef` | `push_session` |
| | `HeadsEver` | `Spec => []HeadsOnChain` | `push_session` |
| | `ImplementsRefLog` | `Spec => Publishes`, the refinement | `push_live` |
| | `DiskForwardAlone` | `OneProcess` implies `Spec => DiskMovesForward` | `push_session` |
| `OutcomeProofs` | `TreesEver` | `Spec => []TreeOfPush` | `push_session` |
| | `OkEver` | `Spec => []OkIsAnchored` | `push_session` |
| | `FeePoolEver` | `Spec => []FeePoolExact` | `push_session` |
| `FetchProofs` | `Invariance` | `Spec => []Inv` | |
| | `TypeCorrect` | `Spec => []TypeOK` | `fetch_session` |
| | `AncestryKept` | `Spec => []CommitsFollowAnchors` | `fetch_session` |
| | `MarksUnique` | `Spec => []MarksGivenOnce` | `fetch_session` |
| | `ImportComplete` | `Spec => []DoneIsComplete` | `fetch_session` |
| | `ListImportAgree` | `Spec => []ListAgreesWithImport` | `fetch_session` |
| `StoreProofs` | `KeysUniqueEver` | `Spec => []KeysUnique` | `store_slices` |
| `StoreRefinement` | `StoreKeepsPromise` | `Spec => KeepsPromise`, the refinement | `store_slices`, `store_shared` |
| `StreamProofs` | `SessionStands` | `Spec => []StreamInv` | |
| | `StreamIsTyped` | `Spec => []TypeOK` | `stream` |
| | `ExportIsParsed` | `Spec => []ParsedAsWritten` | `stream` |
| | `NothingIsMadeUp` | `Spec => []NothingMadeUp` | `stream` |
| | `FailureIsBreak` | `Spec => []FailsOnlyIfBroken` | `stream` |
| | `TurnsAreAnswered` | `Spec => []AnsweredInTurn` | `stream` |
| | `RefsAreAnswered` | `Spec => []RefsAnswered` | `stream` |
| `ContentProofs` | `Invariance` | `Spec => []IInv` | |
| | `ContentTypeOK` | `Spec => []TypeOK` | `content` |
| | `ContentTreeIsWhole` | `Spec => []TreeIsWhole` | `content` |
| | `ContentCloneIsTip` | `Spec => []CloneIsTip` | `content` |
| | `ContentReadableIsRead` | `Spec => []ReadableIsRead` | `content` |
| | `ContentAccessFollowsAttributes` | `Spec => []AccessFollowsAttributes` | `content` |
| | `ContentNothingInvented` | `Spec => []NothingInvented` | `content` |

**Forks.** A fork is excluded because an anchor that names a parent spends the
parent's head output, and an output is spent once; the first half needs that a
store holds a head output together with the txid of the very anchor that made it;
and because lost transactions land later, the same has to hold of limbo.
`BranchInv` is the conjunction: types, `HeadsOnChain`, "a transaction in limbo
spends the head of its parent" (`LimboSpendsParent`), the same of the chain
(`ChainSpendsParent`), no output is spent by two transactions (`SpentOnce`), and
positions of the chain are `TxIds`. The chain grows by an acceptable transaction
that spends its parent's head or does not grow (`ChainStep`), accepted anchors
stay (`Monotone`), and `HeadsStep` goes through the actions for the heads.
`NoFork` follows because two anchors with one parent would spend one output. For
the refinement, an accepted anchor's parent is a tip: were there another anchor
on it, its head would be spent and the transaction not acceptable.

**Outcomes of a push.** Each of the three invariants has a strengthening.
`TreeInv`: a batch is named by at most one of: an accepted anchor, an anchor in
limbo, a process that is about to name it; this is what keeps a retry, or a late
anchor, from naming it again. `OkInv`: a result is `ok` only for a ref whose
head in memory is an anchor this process got accepted, with a tree if files
changed, and a process before Save has such an anchor for the ref it works on, so that the one step that says `ok` may say it. `PoolInv`:
pools, in memory and in files, hold no head outputs, and no transaction spends an
output of a later one; so a transaction takes out of the pool just what it
spends, and its change is new. `Steps` takes `Next` apart into steps without a
broadcast, payments and the rest, and each invariant goes through these.

**Import.** `Inv` describes the moment between two steps. While the walk goes on
`found` is a path of parents from the head, and `at` is the parent of its last
anchor (`PathInv`, `WalkInv`). While commits are written, the last one of
the ref is that of the parent of the anchor that comes next; before the first,
the path starts at a root or after a noted anchor (`EmitInv`). And every ref that
was asked for is in the queue with nothing written, at work, or complete
(`QueueInv`), which gives `DoneIsComplete` when the queue is empty. Marks written
so far are at most the counter (`StreamInv`). The frame lemmas say that all this
stays true while others publish anchors and notes, which only grow.

**The file.** `DiskForwardAlone` says more than that the file holds accepted
heads: it never goes back to an older one, although Save writes whatever is in
memory. `LineInv` says that the parents of an anchor lead to no later one, and
`AheadOrIdle`, of every process with a session, that the head it has in memory
for a ref is the one in its file or descends from it; so whenever it saves, the
file moves along the chain. That no other process writes the same file in
between is the hypothesis.

**Slices.** `SwapRemoveFacts` says what removing by swapping leaves, position by
position, `IndexOfFacts` what the searching loops find; so Set and Remove keep a
table one (`TableKept`), and `StoreInv` says that memory, file and temporary
files of all processes hold only states without repetitions. It does not matter
which output the best-fit loop picks. For the refinement it does:
`BestIdxFacts` says that the loop ends at the first of the smallest outputs that
suffice, or at none if none suffices. `SeenParts` and the lemmas before it take
the slices to the set and tables that `StoreSpec` has, operation by operation;
there the first half is used that no key is twice in a slice, because
removing one entry of two would not remove the key. The three calls of a Save
are stutters but for the last.

**Functions by recursion.** `BestIdx`, the running sums and the concatenations
are recursive functions, and none of the provers does an induction over data.
`Recursion` goes another way: a set of numbers that is not empty has a least
member (`LeastNumber`), so whatever is false of some n is false of a first n, and
what the step before it gives is a contradiction (`UpTo`). `RecursionExists`
gets from it that a function with the recursive equation exists, from which the
equation follows for the one that the definition chooses.

**The stream.** The proof numbers the units of what git writes in a session: the
export's text, the next command, the empty line. `Tape(m, at)` says that m units
are written, that the helper has used the first `at`, and that buffer and pipe
hold the others in their order, the last one perhaps torn; `Fill`, `GitWrites`
and `GitCloses` move units along the tape or tear one. `Sound` adds where the
helper is in the text, which is what it must know there: before the export,
between commands (`AtNext`, where in a message that is skipped nothing looks
like a command, which is what `Harmless` says), within one (`AtBody`), after
"done", after an answer. Within a command `InBody` gives what is parsed of it
after x of its units. `CommandText` and the lemmas before it lay out the units
of a command, with its data, which may look like anything, and `BodyUnits` says
which unit may come next at each place, or that only the next command ends this
one (`EndsOpen`); so for each action there is one lemma
that it goes to the next place, or that the stream has broken off (`Broken`) and
the last command is short. The buffer that `Report` drops is empty of everything
but what a git that does not wait has written; one that waits has written
nothing (`plan.waits` in `Sound`), and that is why `AnsweredInTurn` holds.

**The files.** None of the six properties of `Content` is inductive: they speak of
batches and clones, and what a clone has comes from all the pushes before it.
`IInv` is about commits instead. `Brings(ops, old, new)` says that a file is the
same in both trees and no change of ops is about its path, or the last change
of its path gives what is in the new one. `Grown`: the changes of each push bring
its tip from the tip before it, those of all pushes bring the last tip from
nothing, those pending bring the work tree; and the batch of a push is the one
of its commits (`BatchOf`). `Gotten`: an import is a list of the files of the
pushes up to some M command, written in that order up to repetitions of a path
(`Imports`), to the last one if it is done; and it is done if all may read
everything. A commit and a push keep `Grown`, as `BringsOn` says that what brings
one tree and then another brings the second, and `FlattenTwice` that it does not
matter whether changes are put together commit by commit or push by push.

For `Gotten`, the tree of each push has to be read as it was built. `RanksGrow`,
`RanksExist` and `RankedIsSorted` say what `InOrder` of a total order is,
`DirsFacts` which directories a push has, and `BatchIsWhole` what its batch is
(`Whole`): files, then directories, each with the entries of what is in it, once
(`Enters`). `ReadAllFacts` and `ReadDirFacts` say what one level reads,
`OwnReads` and `BatchReads` go down the levels for the two readers, and
`TreeFacts` has the result: if a tree is read, it lists each M command of its push
(`Lists`), those of one path in the order of the commits. The order of different
paths is that of the directories, not that of the commits, which is why `Lists`
does not say more and `CloneIsTip` has its exception for a path that was both
file and directory: there the last one written wins. `WrittenFacts` says which
files stand after so many M commands (`Holds`): those that no later one was in the
way of.

From `IInv`: a file of the clone was pushed (`ImportInvents`); one of the tip is
there, with the content of the last change of its path (`ImportBrings`,
`ImportIsTip`), because no later M command of its path or in its way follows. For
`AccessFollowsAttributes`, `LinesDecide` goes from the last rule that matches to the
last line that matches and has an attribute, and `PolicyFacts` from the last
M command of attributes that can be parsed to the tip, which `Brings` says it gave
if the tip's can be. For
`TreeIsWhole`, `FileEnteredOnce` and `DirEnteredOnce` find the one entry of a key
in `Whole`, although several files may have one path, and `ClimbsToRoot` goes up
one entry at a time (`ReachedNext`): k entries up one is at the directory that is
left of the path without its last k names. A path has no more names than its
push has directories (`DeepEnough`, by counting them), so `Climb` arrives.

**Only model-checked.** The liveness properties `ExportAnswered`,
`ImportAnswered` and `ExportEnds`, which the prover cannot do. Every safety
property that a passing run checks is proved, `DiskMovesForward` under its
hypothesis. TLC does not evaluate `IInv`, which quantifies over all lists of
M commands; it checks what follows from it.

## 6. Not modelled

* Signing, keys, encryption, payloads, Merkle roots, prices, MIME types, times:
  data here, and mostly code of another repository. (The fee output's key never
  reaches the signer and no change address is set; in this model such a failure
  is a broadcast error.)
* `BuildMultiRefAnchor`, `PathIndex`, `SetNote`, `RemoveNote`, `ReadFileNode` and
  `PushAnchor` of `ChainPusher`: no caller in the program. (Neither has the node
  table of the store, which is in `UtxoStore`.)
* A power loss between rename and write-back: Save does not sync. A model of it
  would be one of the file system.
* Command line, URL and wallet file: sequential parsing of one input, no state
  and nothing else that runs; the tests cover it input by input.
* A negative or overflowing byte count in the stream: it ends the program, and
  git does not write one.

## 7. Plan

Done: 1. `UtxoState`, `Push`, `RefLog` and their proofs. 2. `UtxoStore` against
`StoreSpec`. 3. `Fetch` over `RefLog`. 4. `Attributes`, `DirTree`, `Content`.
5. `Stream`. 6. Proofs of every safety property of `Push`, `Fetch`, `UtxoStore`,
`Stream` and `Content` that a run checks, and of the refinements `Publishes` and
`KeepsPromise`.

What is left: the multi-ref anchor, once the program calls it, would be an
alternative to `PushAnchorOk` in `Push`; notes written by a push would make
`Annotate` a step of this program. Neither changes an invariant that is proved
here, and both would have to be shown to keep it.
