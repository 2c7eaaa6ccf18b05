----------------------------- MODULE StoreSpec -----------------------------
(***************************************************************************)
(* What internal/utxo promises its callers: each process has a pool of fee *)
(* outputs and a table of node outputs and of branch heads in memory, one  *)
(* file holds a whole state of one of them, and Save replaces the file in  *)
(* a single step or not at all.  The pool and the heads are those of       *)
(* UtxoState, on which Push is built.                                      *)
(***************************************************************************)
EXTENDS UtxoState

CONSTANTS
  Procs,     \* processes with a Store on the same path
  Coins,     \* fee outputs: records with an amount
  PNodes,    \* keys of the node table
  Txids,     \* what tells two entries with one key apart
  Minima     \* the amounts that are asked for

VARIABLES
  mem,   \* mem[p]: the state in p's memory
  out,   \* out[p]: what p's last AllocateFeeUTXO returned
  file   \* the state in the file

vars == <<mem, out, file>>

Empty == [fee |-> EmptyState.fee, head |-> EmptyState.head,
          node |-> [k \in PNodes |-> None]]

Crash(p) ==
  /\ mem' = [mem EXCEPT ![p] = Empty]
  /\ out' = [out EXCEPT ![p] = None]
  /\ UNCHANGED file

Load(p) ==
  /\ mem' = [mem EXCEPT ![p] = file]
  /\ UNCHANGED <<out, file>>

Save(p) ==
  /\ file' = mem[p]
  /\ UNCHANGED <<mem, out>>

AddFeeUTXO(p, u) ==
  /\ mem' = [mem EXCEPT ![p] = AddFeeUTXOs(@, {u})]
  /\ UNCHANGED <<out, file>>

\* The smallest output that suffices leaves the pool and is returned.
AllocateFeeUTXO(p, min) ==
  \/ /\ FeeCandidates(mem[p], min) = {}
     /\ out' = [out EXCEPT ![p] = None]
     /\ UNCHANGED <<mem, file>>
  \/ \E u \in FeeCandidates(mem[p], min) :
       /\ out' = [out EXCEPT ![p] = u]
       /\ mem' = [mem EXCEPT ![p] = TakeFeeUTXO(@, u)]
       /\ UNCHANGED file

\* Set and Remove on the table of nodes and on that of branch heads.
PutNode(p, k, v) ==
  /\ mem' = [mem EXCEPT ![p].node[k] = v]
  /\ UNCHANGED <<out, file>>

PutRef(p, k, v) ==
  /\ mem' = [mem EXCEPT ![p] = SetRefUTXO(@, k, v)]
  /\ UNCHANGED <<out, file>>

Init ==
  /\ mem = [p \in Procs |-> Empty]
  /\ out = [p \in Procs |-> None]
  /\ file = Empty

Next == \E p \in Procs :
  \/ Crash(p) \/ Load(p) \/ Save(p)
  \/ \E u \in Coins : AddFeeUTXO(p, u)
  \/ \E min \in Minima : AllocateFeeUTXO(p, min)
  \/ \E k \in PNodes, v \in Txids \cup {None} : PutNode(p, k, v)
  \/ \E k \in Refs, v \in Txids \cup {None} : PutRef(p, k, v)

Spec == Init /\ [][Next]_vars
=============================================================================
