------------------------------ MODULE KVLayers ------------------------------
(***************************************************************************)
(* The layers behind the ledger and what they promise: LevelDB, the global *)
(* caches of CCacheDBManager (base) and the overlay of a CCacheWrapper,    *)
(* each level a CCompositeKVCache (a CSimpleKVCache is one with a single   *)
(* key).  Reads copy what they find into every layer they pass, an empty   *)
(* value in a layer hides what is below it, and every write logs the value *)
(* it replaces, from which DisconnectBlock undoes a block.  KVCache says   *)
(* what is done with them.                                                 *)
(***************************************************************************)
EXTENDS Integers, Sequences, SequencesExt

CONSTANTS
  Key,     \* keys of all caches
  Value,   \* values that are not empty
  Empty,   \* the empty value (db_util::IsEmpty)
  Absent   \* no entry in mapData

LayersAssumption ==
  /\ Empty \notin Value
  /\ Absent \notin Value \cup {Empty}

VARIABLES
  db,    \* the databases; Empty where there is no record
  base,  \* mapData of the global caches
  over,  \* mapData of the overlay in use
  mode,  \* what the overlay is in use for
  log,   \* dbOpLogMap of each transaction so far, or what is left to undo
  undo,  \* the undo data of the connected blocks, in rev files
  past   \* history: the ledger before each connected block

Stored == Value \cup {Empty}
Layer  == [Key -> Stored \cup {Absent}]

NoEntry == [k \in Key |-> Absent]

-----------------------------------------------------------------------------
(* Reading. *)

(* GetDataIt on a global cache: a record of the database becomes an entry. *)
BaseWith(k) ==
  IF base[k] = Absent /\ db[k] # Empty THEN [base EXCEPT ![k] = db[k]] ELSE base

(* GetDataIt on the overlay: an entry of the base, empty or not, is copied. *)
OverWith(k) ==
  IF over[k] = Absent THEN [over EXCEPT ![k] = BaseWith(k)[k]] ELSE over

OrEmpty(v) == IF v = Absent THEN Empty ELSE v

(* The value that GetData finds from the base, and through the overlay. *)
BaseValue(k) == OrEmpty(BaseWith(k)[k])
OverValue(k) == OrEmpty(OverWith(k)[k])

-----------------------------------------------------------------------------
(* What the layers promise. *)

(* The ledger, and the ledger as the overlay in use shows it. *)
Ledger  == [k \in Key |-> BaseValue(k)]
Overlay == [k \in Key |-> OverValue(k)]

(***************************************************************************)
(* The layers implement one map: reads and flushes at any time change      *)
(* nothing, an erased key does not come back from below, a block takes     *)
(* effect as a whole, and DisconnectTip returns the ledger that ConnectTip *)
(* found.                                                                  *)
(***************************************************************************)
Promise ==
  INSTANCE KVStore WITH
    store <- Ledger,
    open  <- mode = "connect",
    view  <- IF mode = "connect" THEN Overlay ELSE Ledger

ImplementsStore == Promise!Spec

(* The value of k before the writes of l, when it is v after them. *)
Before(l, k, v) ==
  LET ops == {i \in DOMAIN l : l[i].key = k}
  IN  IF ops = {} THEN v ELSE l[CHOOSE i \in ops : \A j \in ops : i <= j].old

(***************************************************************************)
(* The log is enough to undo a block at every moment: in the middle of     *)
(* CBlockUndoExecutor::Execute, with the caches of a transaction undone in *)
(* any order, what is left of it still leads back to the ledger before the *)
(* block, and so does the log of a block that is not committed yet.        *)
(***************************************************************************)
LogLeadsBack ==
  \A k \in Key :
    /\ mode = "connect" => Before(log, k, OverValue(k)) = BaseValue(k)
    /\ mode = "disconnect" => Before(log, k, OverValue(k)) = Last(past)[k]

(* The undo data of every connected block leads back to the block below. *)
UndoChains ==
  /\ Len(past) = Len(undo) + (IF mode = "disconnect" THEN 1 ELSE 0)
  /\ \A b \in DOMAIN undo, k \in Key :
       Before(undo[b], k, IF b = Len(past) THEN BaseValue(k) ELSE past[b + 1][k])
         = past[b][k]

(* From the middle of a block on, the logs lead back to the first ledger.   *)
UndoLeadsBack == LogLeadsBack /\ UndoChains
=============================================================================
