----------------------------- MODULE UtxoState -----------------------------
(***************************************************************************)
(* The value that a utxo.Store keeps and that state.json holds             *)
(* (internal/utxo/types.go), with the store operations a push uses, over   *)
(* sets: slice order is abstracted away (UtxoStore.tla keeps it and is     *)
(* shown to implement these operations).                                   *)
(*                                                                         *)
(* An output is named by its txid and vout; its amount is a function of    *)
(* the two, so an output record serves as the outpoint.  Txid 0 stands for *)
(* the transactions that funded the wallet.                                *)
(***************************************************************************)
EXTENDS Integers

CONSTANTS
  Refs,   \* ref names, e.g. refs/heads/main
  None    \* "no such entry": the nil that GetRefUTXO returns

UTXO == [txid: Nat, vout: Nat, amount: Nat]

\* RefUTXO: the branch head output and the anchor transaction it names.
RefUTXO == [out: UTXO, anchor: Nat]

ASSUME NoneAssumption == None \notin RefUTXO

State == [fee: SUBSET UTXO, head: [Refs -> RefUTXO \cup {None}]]

\* NewStore, a missing file, and what is left in memory when Load fails.
EmptyState == [fee |-> {}, head |-> [r \in Refs |-> None]]

\* The outputs AllocateFeeUTXO(min) may return: the smallest that suffice.
\* Empty when it returns nil; ties are broken by slice order.
FeeCandidates(s, min) ==
  {u \in s.fee : /\ u.amount >= min
                 /\ \A v \in s.fee : v.amount >= min => u.amount <= v.amount}

\* Mutant: what AllocateFeeUTXO returns stays in the pool.
KeepFeeUTXO(s, u) == s

\* AllocateFeeUTXO also removes what it returns.
TakeFeeUTXO(s, u) == [s EXCEPT !.fee = @ \ {u}]

\* AddFeeUTXO, called once per non-nil change output.
AddFeeUTXOs(s, us) == [s EXCEPT !.fee = @ \cup us]

\* Mutant: the search for the entry to replace does not compare ref names.
SetAnyRefUTXO(s, r, u) == [s EXCEPT !.head = [q \in Refs |-> u]]

SetRefUTXO(s, r, u) == [s EXCEPT !.head[r] = u]
=============================================================================
