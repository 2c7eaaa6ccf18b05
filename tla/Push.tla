-------------------------------- MODULE Push --------------------------------
(***************************************************************************)
(* Pushing refs to the blockchain: internal/helper/export.go with the      *)
(* writer and the anchor builder of internal/chain and the UTXO store.     *)
(*                                                                         *)
(* Several helper processes push from several clones.  A process loads its *)
(* clone's state.json, then pushes each ref of an export stream: one batch *)
(* transaction with the file and directory nodes, then one anchor that     *)
(* spends the branch head output it knows, then Save.  Between any two of  *)
(* these steps other processes move, the process may die, and an earlier   *)
(* transaction whose broadcast was answered with an error may be accepted. *)
(***************************************************************************)
EXTENDS UtxoState, Sequences, FiniteSets

CONSTANTS
  Clones,        \* git directories, each with a bitfs/state.json
  Procs,         \* helper processes that may be running
  cloneOf,       \* the clone a process works in
  Wallet,        \* the fee outputs a clone's state.json starts with
  NodeFeeMin,    \* AllocateFeeUTXO's minimum for a node batch (10000 sat)
  AnchorFeeMin,  \* and for an anchor (5000 sat)
  TxIds,         \* transaction ids: positions on the chain
  MaxLimbo       \* bound on transactions in limbo at a time

ASSUME PushAssumption ==
  /\ cloneOf \in [Procs -> Clones]
  /\ Wallet \in [Clones -> SUBSET [txid: {0}, vout: Nat, amount: Nat]]
  /\ NodeFeeMin \in Nat
  /\ AnchorFeeMin \in Nat \ {0}
  /\ TxIds \subseteq Nat \ {0}
  /\ MaxLimbo \in Nat

VARIABLES
  chain,    \* the accepted transactions; a txid is an index of this sequence
  limbo,    \* transactions the caller was told failed, that may yet be accepted
  disk,     \* disk[c] is the content of state.json
  pc,       \* where process p is
  mem,      \* mem[p] is the state of p's Store
  todo,     \* refs of commitsByRef still to be pushed
  files,    \* refs whose commits modify files
  cur,      \* the ref pushRef is working on
  tree,     \* TreeRootTxID of this pushRef: its node batch, 0 if none
  results,  \* refResults
  mine,     \* history: the transactions acknowledged to p since it loaded
  base,     \* history: the fee outputs p loaded
  clean     \* history: no output allocated by p has been lost since it loaded

procVars == <<pc, mem, todo, files, cur, tree, results, mine, base, clean>>
vars == <<chain, limbo, disk, procVars>>

-----------------------------------------------------------------------------
(* The blockchain, as the code uses it.                                    *)

DustLimit == 546
HeadOut(n) == [txid |-> n, vout |-> 1, amount |-> DustLimit]
ChangeOut(n, a) == [txid |-> n, vout |-> 2, amount |-> a]

\* The change output of transaction n: nil when the remainder is dust.
Change(n, a) == IF a = 0 THEN {} ELSE {ChangeOut(n, a)}

Tx == [kind: {"nodes", "anchor"}, ref: Refs, parent: Nat, tree: Nat,
       ins: SUBSET UTXO, change: Nat]

Anchors == {i \in DOMAIN chain : chain[i].kind = "anchor"}
Spent == UNION {chain[i].ins : i \in DOMAIN chain}
Outputs == (UNION {Wallet[c] : c \in Clones})
           \cup {HeadOut(i) : i \in Anchors}
           \cup UNION {Change(i, chain[i].change) : i \in DOMAIN chain}

NewTxid == Len(chain) + 1
Acceptable(t) == t.ins \subseteq Outputs \ Spent /\ NewTxid \in TxIds

\* BroadcastTx answers with an error: the transaction was never seen, was
\* rejected, or the answer was lost and the network may accept it later.
BroadcastError(t) ==
  \/ UNCHANGED limbo
  \/ /\ Cardinality(limbo) < MaxLimbo
     /\ limbo' = limbo \cup {t}

Land(t) ==
  /\ Acceptable(t)
  /\ chain' = Append(chain, t)
  /\ limbo' = limbo \ {t}
  /\ UNCHANGED <<disk, procVars>>

-----------------------------------------------------------------------------
(* A helper process.                                                       *)

At(p, s) == pc[p] = s
Goto(p, s) == pc' = [pc EXCEPT ![p] = s]

\* initUTXOStore: the first command that needs the store loads the file.
\* When Load fails the process goes on with an empty state.
Load(p, s) ==
  /\ At(p, "idle")
  /\ Goto(p, "ready")
  /\ mem' = [mem EXCEPT ![p] = s]
  /\ mine' = [mine EXCEPT ![p] = {}]
  /\ base' = [base EXCEPT ![p] = s.fee]
  /\ clean' = [clean EXCEPT ![p] = TRUE]
  /\ UNCHANGED <<chain, limbo, disk, todo, files, cur, tree, results>>

LoadOk(p) == Load(p, disk[cloneOf[p]])
LoadFails(p) == Load(p, EmptyState)

\* handleExport: the parsed stream has commits for the refs W; those of the
\* refs F modify files.
Export(p, W, F) ==
  /\ At(p, "ready")
  /\ Goto(p, "loop")
  /\ todo' = [todo EXCEPT ![p] = W]
  /\ files' = [files EXCEPT ![p] = F]
  /\ results' = [results EXCEPT ![p] = [r \in Refs |-> "none"]]
  /\ UNCHANGED <<chain, limbo, disk, mem, cur, tree, mine, base, clean>>

\* Mutants: pushResult outlives the pushRef that set it; a ref that failed is
\* tried again at once.
RecordKeepsTree(p, r, res) ==
  /\ results' = [results EXCEPT ![p][r] = res]
  /\ todo' = [todo EXCEPT ![p] = @ \ {r}]
  /\ cur' = [cur EXCEPT ![p] = None]
  /\ UNCHANGED tree
  /\ Goto(p, "loop")

RecordRetries(p, r, res) ==
  /\ results' = [results EXCEPT ![p][r] = res]
  /\ todo' = [todo EXCEPT ![p] = IF res = "ok" THEN @ \ {r} ELSE @]
  /\ cur' = [cur EXCEPT ![p] = None]
  /\ tree' = [tree EXCEPT ![p] = 0]
  /\ Goto(p, "loop")

\* pushToChain records what pushRef returned, whose variables are gone, and
\* takes the next ref.
Record(p, r, res) ==
  /\ results' = [results EXCEPT ![p][r] = res]
  /\ todo' = [todo EXCEPT ![p] = @ \ {r}]
  /\ cur' = [cur EXCEPT ![p] = None]
  /\ tree' = [tree EXCEPT ![p] = 0]
  /\ Goto(p, "loop")

\* Mutant: pushRef starts without the ref it works on.
PickRefUnset(p, r) ==
  /\ At(p, "loop")
  /\ r \in todo[p]
  /\ Goto(p, IF r \in files[p] THEN "nodes" ELSE "anchor")
  /\ UNCHANGED <<chain, limbo, disk, mem, todo, files, cur, tree, results, mine,
                 base, clean>>

\* The map commitsByRef is ranged over in any order.
PickRef(p, r) ==
  /\ At(p, "loop")
  /\ r \in todo[p]
  /\ cur' = [cur EXCEPT ![p] = r]
  /\ Goto(p, IF r \in files[p] THEN "nodes" ELSE "anchor")
  /\ UNCHANGED <<chain, limbo, disk, mem, todo, files, tree, results, mine,
                 base, clean>>

\* pushRef returns before it allocates anything: no branch key, a blob that
\* is missing, an unknown access mode, a payload that does not serialize.
PrepareFails(p, r) ==
  /\ At(p, "loop")
  /\ r \in todo[p]
  /\ Record(p, r, "error")
  /\ UNCHANGED <<chain, limbo, disk, mem, files, mine, base, clean>>

\* Mutant: pushRef saves the store on its way out, failed or not.
NoFeeUTXOSaves(p, s, min) ==
  /\ At(p, s)
  /\ FeeCandidates(mem[p], min) = {}
  /\ disk' = [disk EXCEPT ![cloneOf[p]] = mem[p]]
  /\ Record(p, cur[p], "error")
  /\ UNCHANGED <<chain, limbo, mem, files, mine, base, clean>>

\* AllocateFeeUTXO returns nil.
NoFeeUTXO(p, s, min) ==
  /\ At(p, s)
  /\ FeeCandidates(mem[p], min) = {}
  /\ Record(p, cur[p], "error")
  /\ UNCHANGED <<chain, limbo, disk, mem, files, mine, base, clean>>

\* Mutant: a broadcast error is only a warning, as an error of Save is.
TxFailsWarns(p, u, t) ==
  /\ BroadcastError(t)
  /\ mem' = [mem EXCEPT ![p] = TakeFeeUTXO(@, u)]
  /\ clean' = [clean EXCEPT ![p] = FALSE]
  /\ Record(p, cur[p], "ok")
  /\ UNCHANGED <<chain, disk, files, mine, base>>

\* A transaction that does not get through: the allocated output is not put
\* back, and pushRef returns without saving.
TxFails(p, u, t) ==
  /\ BroadcastError(t)
  /\ mem' = [mem EXCEPT ![p] = TakeFeeUTXO(@, u)]
  /\ clean' = [clean EXCEPT ![p] = FALSE]
  /\ Record(p, cur[p], "error")
  /\ UNCHANGED <<chain, disk, files, mine, base>>

\* A transaction that is accepted and whose txid reaches the caller.
TxAccepted(p, t) ==
  /\ Acceptable(t)
  /\ chain' = Append(chain, t)
  /\ mine' = [mine EXCEPT ![p] = @ \cup {NewTxid}]

NodesTx(p, u, a) ==
  [kind |-> "nodes", ref |-> cur[p], parent |-> 0, tree |-> 0,
   ins |-> {u}, change |-> a]

PushNodesOk(p, u, a) ==
  /\ At(p, "nodes")
  /\ TxAccepted(p, NodesTx(p, u, a))
  /\ mem' = [mem EXCEPT ![p] =
               AddFeeUTXOs(TakeFeeUTXO(@, u), Change(NewTxid, a))]
  /\ tree' = [tree EXCEPT ![p] = NewTxid]
  /\ Goto(p, "anchor")
  /\ UNCHANGED <<limbo, disk, todo, files, cur, results, base, clean>>

PushNodesFails(p, u, a) ==
  /\ At(p, "nodes")
  /\ TxFails(p, u, NodesTx(p, u, a))

PushNodes(p) ==
  \/ NoFeeUTXO(p, "nodes", NodeFeeMin)
  \/ \E u \in FeeCandidates(mem[p], NodeFeeMin) : \E a \in 0 .. u.amount :
       /\ a < u.amount
       /\ PushNodesOk(p, u, a) \/ PushNodesFails(p, u, a)

\* Mutant: a forced push, which spends no branch head but names the parent.
AnchorTxForced(p, u, a) ==
  LET known == mem[p].head[cur[p]]
  IN  [kind |-> "anchor", ref |-> cur[p], tree |-> tree[p], change |-> a,
       parent |-> IF known = None THEN 0 ELSE known.anchor,
       ins |-> {u}]

\* BuildAnchor: spend the known branch head and name its anchor as parent; a
\* first push has neither.
AnchorTx(p, u, a) ==
  LET known == mem[p].head[cur[p]]
  IN  [kind |-> "anchor", ref |-> cur[p], tree |-> tree[p], change |-> a,
       parent |-> IF known = None THEN 0 ELSE known.anchor,
       ins |-> {u} \cup (IF known = None THEN {} ELSE {known.out})]

PushAnchorOk(p, u, a) ==
  /\ At(p, "anchor")
  /\ TxAccepted(p, AnchorTx(p, u, a))
  /\ mem' = [mem EXCEPT ![p] =
               SetRefUTXO(AddFeeUTXOs(TakeFeeUTXO(@, u), Change(NewTxid, a)),
                          cur[p], [out |-> HeadOut(NewTxid), anchor |-> NewTxid])]
  /\ Goto(p, "save")
  /\ UNCHANGED <<limbo, disk, todo, files, cur, tree, results, base, clean>>

PushAnchorFails(p, u, a) ==
  /\ At(p, "anchor")
  /\ TxFails(p, u, AnchorTx(p, u, a))

PushAnchor(p) ==
  \/ NoFeeUTXO(p, "anchor", AnchorFeeMin)
  \/ \E u \in FeeCandidates(mem[p], AnchorFeeMin) : \E a \in 0 .. u.amount :
       /\ a < u.amount
       /\ PushAnchorOk(p, u, a) \/ PushAnchorFails(p, u, a)

\* Store.Save replaces the file; when it fails pushRef only warns, and the
\* ref is reported ok all the same.
SaveOk(p) ==
  /\ At(p, "save")
  /\ disk' = [disk EXCEPT ![cloneOf[p]] = mem[p]]
  /\ Record(p, cur[p], "ok")
  /\ UNCHANGED <<chain, limbo, mem, files, mine, base, clean>>

SaveFails(p) ==
  /\ At(p, "save")
  /\ Record(p, cur[p], "ok")
  /\ UNCHANGED <<chain, limbo, disk, mem, files, mine, base, clean>>

\* handleExport writes the results and Run waits for the next command.
Report(p) ==
  /\ At(p, "loop")
  /\ todo[p] = {}
  /\ Goto(p, "ready")
  /\ UNCHANGED <<chain, limbo, disk, mem, todo, files, cur, tree, results,
                 mine, base, clean>>

\* The end of the session, or the death of the process at any other point:
\* what is not on disk is gone.
Stop(p) ==
  /\ ~At(p, "idle")
  /\ Goto(p, "idle")
  /\ mem' = [mem EXCEPT ![p] = EmptyState]
  /\ todo' = [todo EXCEPT ![p] = {}]
  /\ files' = [files EXCEPT ![p] = {}]
  /\ cur' = [cur EXCEPT ![p] = None]
  /\ tree' = [tree EXCEPT ![p] = 0]
  /\ results' = [results EXCEPT ![p] = [r \in Refs |-> "none"]]
  /\ mine' = [mine EXCEPT ![p] = {}]
  /\ base' = [base EXCEPT ![p] = {}]
  /\ clean' = [clean EXCEPT ![p] = TRUE]
  /\ UNCHANGED <<chain, limbo, disk>>

-----------------------------------------------------------------------------
Init ==
  /\ chain = <<>>
  /\ limbo = {}
  /\ disk = [c \in Clones |-> [EmptyState EXCEPT !.fee = Wallet[c]]]
  /\ pc = [p \in Procs |-> "idle"]
  /\ mem = [p \in Procs |-> EmptyState]
  /\ todo = [p \in Procs |-> {}]
  /\ files = [p \in Procs |-> {}]
  /\ cur = [p \in Procs |-> None]
  /\ tree = [p \in Procs |-> 0]
  /\ results = [p \in Procs |-> [r \in Refs |-> "none"]]
  /\ mine = [p \in Procs |-> {}]
  /\ base = [p \in Procs |-> {}]
  /\ clean = [p \in Procs |-> TRUE]

\* One step of pushToChain and pushRef.
Work(p) ==
  \/ \E r \in Refs : PickRef(p, r) \/ PrepareFails(p, r)
  \/ PushNodes(p)
  \/ PushAnchor(p)
  \/ SaveOk(p)
  \/ SaveFails(p)
  \/ Report(p)

Next ==
  \/ \E t \in limbo : Land(t)
  \/ \E p \in Procs :
       \/ LoadOk(p)
       \/ LoadFails(p)
       \/ \E W \in (SUBSET Refs) \ {{}} : \E F \in SUBSET W : Export(p, W, F)
       \/ Work(p)
       \/ Stop(p)

Spec == Init /\ [][Next]_vars

\* pushRef is sequential code that waits only for BroadcastTx and the file
\* system; both are assumed to answer.  Nothing is assumed of new commands,
\* of the network's limbo, or of crashes.
FairSpec == Spec /\ \A p \in Procs : WF_vars(Work(p))

-----------------------------------------------------------------------------
(* Properties.                                                             *)

PCs == {"idle", "ready", "loop", "nodes", "anchor", "save"}
Results == {"none", "ok", "error"}

\* Every variable has its type; a process in pushRef works on some ref.
TypeOK ==
  /\ chain \in Seq(Tx)
  /\ limbo \subseteq Tx
  /\ disk \in [Clones -> State]
  /\ pc \in [Procs -> PCs]
  /\ mem \in [Procs -> State]
  /\ todo \in [Procs -> SUBSET Refs]
  /\ files \in [Procs -> SUBSET Refs]
  /\ cur \in [Procs -> Refs \cup {None}]
  /\ \A p \in Procs : pc[p] \in {"nodes", "anchor", "save"} => cur[p] \in Refs
  /\ tree \in [Procs -> Nat]
  /\ results \in [Procs -> [Refs -> Results]]
  /\ mine \in [Procs -> SUBSET Nat]
  /\ base \in [Procs -> SUBSET UTXO]
  /\ clean \in [Procs -> BOOLEAN]

\* An anchor is continued at most once: however many clones and processes
\* push a ref, whatever is lost on the way, the branch head output of
\* BuildAnchor lets one of them win.
NoFork ==
  \A i, j \in Anchors :
    chain[i].parent = chain[j].parent /\ chain[i].parent # 0 => i = j

\* WalkAnchorChain over parents stays on the ref and ends: a parent is an
\* earlier anchor of the same ref.
AncestryOfRef ==
  \A i \in Anchors :
    LET n == chain[i].parent
    IN  n # 0 => n \in Anchors /\ n < i /\ chain[n].ref = chain[i].ref

\* An anchor names the tree of its own push: TreeRootTxID is an earlier batch
\* of the same ref that no other anchor names, also when one process pushes
\* several refs and some of them fail between batch and anchor.
TreeOfPush ==
  \A i \in Anchors :
    LET n == chain[i].tree
    IN  \/ n = 0
        \/ /\ n \in DOMAIN chain /\ n < i
           /\ chain[n].kind = "nodes" /\ chain[n].ref = chain[i].ref
           /\ \A j \in Anchors : chain[j].tree = n => j = i

\* A branch head in a store, in memory or on disk, is the head output of an
\* accepted anchor of that ref, stored together with that anchor's txid.
ValidHead(r, h) ==
  h = None \/ \E i \in Anchors :
                chain[i].ref = r /\ h = [out |-> HeadOut(i), anchor |-> i]

HeadsOnChain ==
  \A r \in Refs :
    /\ \A c \in Clones : ValidHead(r, disk[c].head[r])
    /\ \A p \in Procs : ValidHead(r, mem[p].head[r])

\* The fee pool of a running process: what it loaded and the change of its
\* own transactions, without what those spent.  It never offers an output
\* twice, and misses none unless a transaction failed.
FeePoolExact ==
  \A p \in Procs :
    LET own == base[p] \cup UNION {Change(i, chain[i].change) : i \in mine[p]}
        gone == UNION {chain[i].ins : i \in mine[p]}
    IN  /\ mem[p].fee \subseteq own \ gone
        /\ clean[p] => mem[p].fee = own \ gone

\* "ok" is reported for a ref only when this process has an acknowledged
\* anchor for it, which is the head it keeps and names a tree if the commits
\* modify files.
OkIsAnchored ==
  \A p \in Procs, r \in Refs :
    results[p][r] = "ok" =>
      \E i \in mine[p] \cap Anchors :
        /\ chain[i].ref = r
        /\ mem[p].head[r].anchor = i
        /\ r \in files[p] => chain[i].tree # 0

\* The anchors WalkAnchorChain returns from n, as a set.
Ancestors[n \in 0 .. Len(chain)] ==
  IF n = 0 THEN {} ELSE {n} \cup Ancestors[chain[n].parent]

\* What state.json knows of a branch is never lost and never goes back: Save
\* replaces a head only by a descendant, although a process that could not
\* read the file goes on with an empty store, and pushRef saves nothing when
\* it fails.  (With one process per clone at a time.)
DiskMovesForward ==
  [][\A c \in Clones, r \in Refs :
       LET old == disk[c].head[r]
           new == disk'[c].head[r]
       IN  old # None => new # None /\ old.anchor \in Ancestors[new.anchor]]_vars

\* Every export is answered, whatever the network and the disk answer: the
\* loop over commitsByRef ends and handleExport reports, unless the process
\* dies.
ExportAnswered ==
  \A p \in Procs : pc[p] = "loop" ~> pc[p] \in {"ready", "idle"}

\* The history of every ref grows as RefLog allows.
Log == INSTANCE RefLog WITH
  anchors <- {[id |-> i, ref |-> chain[i].ref, parent |-> chain[i].parent] :
                i \in Anchors}
Publishes == Log!Spec

-----------------------------------------------------------------------------
(* What the comments of the source say and the code does not keep.         *)

\* internal/utxo/types.go, RefUTXO: "a branch head reference UTXO (for CAS
\* consistency)".  A compare-and-swap on the branch head leaves a ref one
\* history: all its anchors but the first have a parent.
OneHistory ==
  \A i, j \in Anchors :
    /\ chain[i].ref = chain[j].ref
    /\ chain[i].parent = 0 /\ chain[j].parent = 0
    => i = j
=============================================================================
