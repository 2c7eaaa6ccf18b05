----------------------------- MODULE UtxoStore -----------------------------
(***************************************************************************)
(* internal/utxo/store.go: the slices of a State, the methods of Store and *)
(* the file they share.  Every method holds the mutex of its Store, so     *)
(* that within a process they are atomic; several processes may have a     *)
(* Store on the same path, and Save is interleaved with them at each call  *)
(* it makes to the file system.                                            *)
(***************************************************************************)
EXTENDS Integers, Sequences, SequencesExt

CONSTANTS Procs, Coins, PNodes, Refs, Txids, Minima, None, Torn

ASSUME StoreAssumption ==
  /\ \A u \in Coins : u.amount \in Nat
  /\ Minima \subseteq Nat
  /\ None \notin Coins \cup Txids

VARIABLES
  state,   \* state[p]: the State of p's Store
  out,     \* out[p]: what p's last AllocateFeeUTXO returned
  file,    \* the content of the file at path, None while there is none
  temp     \* temp[p]: the file of p's running Save: None, Torn or a State

vars == <<state, out, file, temp>>

NewState == [fees |-> <<>>, nodes |-> <<>>, refs |-> <<>>]

\* Every method but Save is one step, taken while p does not save.
Idle(p) == temp[p] = None

\* Mutant: Save gives the mutex back before it renames.
CallUnlocked(p) == UNCHANGED <<file, temp>>

Call(p) == Idle(p) /\ UNCHANGED <<file, temp>>

-----------------------------------------------------------------------------
(* Slices.                                                                 *)

\* Remove by swapping with the last element.
SwapRemove(s, i) == Front(ReplaceAt(s, i, Last(s)))

\* The first entry with key k, 0 if there is none.
IndexOf(s, k) == SelectInSeq(s, LAMBDA e : e.key = k)

\* Mutant: an entry is always appended.
SetEntryAppends(s, k, v) == Append(s, [key |-> k, txid |-> v])

SetEntry(s, k, v) ==
  LET e == [key |-> k, txid |-> v]
      i == IndexOf(s, k)
  IN  IF i = 0 THEN Append(s, e) ELSE ReplaceAt(s, i, e)

GetEntry(s, k) == LET i == IndexOf(s, k) IN IF i = 0 THEN None ELSE s[i].txid

RemoveEntry(s, k) == LET i == IndexOf(s, k) IN IF i = 0 THEN s ELSE SwapRemove(s, i)

\* The loop of AllocateFeeUTXO: the first of the smallest that suffice.
BestIdx(fees, min) ==
  LET better(i, best) ==
        /\ fees[i].amount >= min
        /\ best = 0 \/ fees[i].amount < fees[best].amount
      upTo[n \in 0 .. Len(fees)] ==
        IF n = 0 THEN 0 ELSE IF better(n, upTo[n - 1]) THEN n ELSE upTo[n - 1]
  IN  upTo[Len(fees)]

-----------------------------------------------------------------------------
(* Methods.                                                                *)

\* A process starts with NewStore; what a dead one was writing is never read.
Restart(p) ==
  /\ state' = [state EXCEPT ![p] = NewState]
  /\ out' = [out EXCEPT ![p] = None]
  /\ temp' = [temp EXCEPT ![p] = None]
  /\ UNCHANGED file

\* An error of ReadFile or of Unmarshal leaves the state as it was.
Load(p) ==
  /\ Call(p)
  /\ \/ state' = [state EXCEPT ![p] = IF file = None THEN NewState ELSE file]
     \/ UNCHANGED state
  /\ UNCHANGED out

\* Outputs are new to the pool: each is the change of a new transaction.
AddFeeUTXO(p, u) ==
  /\ Call(p)
  /\ ~Contains(state[p].fees, u)
  /\ state' = [state EXCEPT ![p].fees = Append(@, u)]
  /\ UNCHANGED out

AllocateFeeUTXO(p, min) ==
  LET fees == state[p].fees
      best == BestIdx(fees, min)
  IN  /\ Call(p)
      /\ IF best = 0
         THEN out' = [out EXCEPT ![p] = None] /\ UNCHANGED state
         ELSE /\ out' = [out EXCEPT ![p] = fees[best]]
              /\ state' = [state EXCEPT ![p].fees = SwapRemove(@, best)]

SetNodeUTXO(p, k, v) ==
  /\ Call(p)
  /\ state' = [state EXCEPT ![p].nodes = SetEntry(@, k, v)]
  /\ UNCHANGED out

RemoveNodeUTXO(p, k) ==
  /\ Call(p)
  /\ state' = [state EXCEPT ![p].nodes = RemoveEntry(@, k)]
  /\ UNCHANGED out

SetRefUTXO(p, k, v) ==
  /\ Call(p)
  /\ state' = [state EXCEPT ![p].refs = SetEntry(@, k, v)]
  /\ UNCHANGED out

RemoveRefUTXO(p, k) ==
  /\ Call(p)
  /\ state' = [state EXCEPT ![p].refs = RemoveEntry(@, k)]
  /\ UNCHANGED out

-----------------------------------------------------------------------------
(* Save.                                                                   *)

\* CreateTemp makes an empty file of a name of its own.  (When it fails, or
\* MkdirAll does, nothing has happened.)
CreateTemp(p) ==
  /\ Idle(p)
  /\ temp' = [temp EXCEPT ![p] = Torn]
  /\ UNCHANGED <<state, out, file>>

\* Write and Close.
WriteTemp(p) ==
  /\ temp[p] = Torn
  /\ temp' = [temp EXCEPT ![p] = state[p]]
  /\ UNCHANGED <<state, out, file>>

Rename(p) ==
  /\ temp[p] \notin {None, Torn}
  /\ file' = temp[p]
  /\ temp' = [temp EXCEPT ![p] = None]
  /\ UNCHANGED <<state, out>>

\* Write, Close or Rename fails, and the temporary file is removed.
SaveFails(p) ==
  /\ ~Idle(p)
  /\ temp' = [temp EXCEPT ![p] = None]
  /\ UNCHANGED <<state, out, file>>

-----------------------------------------------------------------------------
Init ==
  /\ state = [p \in Procs |-> NewState]
  /\ out = [p \in Procs |-> None]
  /\ file = None
  /\ temp = [p \in Procs |-> None]

Next == \E p \in Procs :
  \/ Restart(p) \/ Load(p)
  \/ \E u \in Coins : AddFeeUTXO(p, u)
  \/ \E min \in Minima : AllocateFeeUTXO(p, min)
  \/ \E k \in PNodes : RemoveNodeUTXO(p, k) \/ \E v \in Txids : SetNodeUTXO(p, k, v)
  \/ \E k \in Refs : RemoveRefUTXO(p, k) \/ \E v \in Txids : SetRefUTXO(p, k, v)
  \/ CreateTemp(p) \/ WriteTemp(p) \/ Rename(p) \/ SaveFails(p)

Spec == Init /\ [][Next]_vars
-----------------------------------------------------------------------------
(* Properties.                                                             *)

\* No slice holds two entries for one outpoint, one node or one ref, whatever
\* order of Set, Remove and Allocate produced it: Get and Remove look no
\* further than the first.
KeysUnique ==
  \A p \in Procs :
    /\ IsInjective(state[p].fees)
    /\ \A s \in {state[p].nodes, state[p].refs} :
         IsInjective([i \in DOMAIN s |-> s[i].key])

\* The state that a caller of the store sees.
Seen(st) ==
  [fee |-> ToSet(st.fees),
   node |-> [k \in PNodes |-> GetEntry(st.nodes, k)],
   head |-> [k \in Refs |-> GetEntry(st.refs, k)]]

\* The store is the set of outputs and the two tables its callers take it for:
\* AllocateFeeUTXO returns the best fit and removes that one, Set and Remove
\* act on one entry, and Save puts the state of its process into the file at
\* once or not at all, whichever call fails and wherever the process dies.
Promise == INSTANCE StoreSpec WITH
  mem <- [p \in Procs |-> Seen(state[p])],
  file <- Seen(IF file = None THEN NewState ELSE file)
KeepsPromise == Promise!Spec
=============================================================================
