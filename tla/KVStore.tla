------------------------------ MODULE KVStore ------------------------------
(***************************************************************************)
(* What the layered key-value caches promise to the ledger: one map, which *)
(* a block changes as a whole, and which goes back to what it was before   *)
(* the block when the block is disconnected.                               *)
(***************************************************************************)
EXTENDS Sequences, SequencesExt

CONSTANTS
  Key,    \* keys of the ledger
  Value,  \* values that are not empty
  Empty   \* the empty value: the key is not there

VARIABLES
  store,  \* the ledger after the last connected block
  past,   \* the ledger before each connected block
  open,   \* a block is being connected
  view    \* the ledger as the block being connected sees it

vars == <<store, past, open, view>>

Init ==
  /\ store = [k \in Key |-> Empty]
  /\ past = <<>>
  /\ open = FALSE
  /\ view = store

Begin ==
  /\ ~open
  /\ open' = TRUE
  /\ UNCHANGED <<store, past, view>>

Put(k, v) ==
  /\ open
  /\ view' = [view EXCEPT ![k] = v]
  /\ UNCHANGED <<store, past, open>>

Commit ==
  /\ open
  /\ open' = FALSE
  /\ store' = view
  /\ past' = Append(past, store)
  /\ UNCHANGED view

Abort ==
  /\ open
  /\ open' = FALSE
  /\ view' = store
  /\ UNCHANGED <<store, past>>

Revert ==
  /\ ~open
  /\ past # <<>>
  /\ store' = Last(past)
  /\ past' = Front(past)
  /\ view' = store'
  /\ UNCHANGED open

Next ==
  \/ Begin
  \/ \E k \in Key, v \in Value \cup {Empty} : Put(k, v)
  \/ Commit
  \/ Abort
  \/ Revert

Spec == Init /\ [][Next]_vars
=============================================================================
