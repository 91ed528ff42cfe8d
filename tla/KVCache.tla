------------------------------ MODULE KVCache ------------------------------
(***************************************************************************)
(* Connecting and disconnecting blocks on the layers of KVLayers: writes   *)
(* of transactions to the overlay, flushes of the overlay and of the       *)
(* global caches, and the undo log.                                        *)
(*                                                                         *)
(* The layers are used under cs_main.  Restarts are not modelled: what the *)
(* databases hold after one is a question about all of them together.      *)
(***************************************************************************)
EXTENDS KVLayers

CONSTANTS
  Prefix,    \* Prefix[k]: the cache (dbk::PrefixType) that k belongs to
  MaxBlock,  \* bound on the connected blocks
  MaxTx,     \* bound on the transactions of a block
  MaxOp      \* bound on the writes of a block

CacheAssumption ==
  /\ LayersAssumption
  /\ Key \subseteq DOMAIN Prefix
  /\ MaxBlock \in Nat
  /\ MaxTx \in Nat
  /\ MaxOp \in Nat

vars == <<db, base, over, mode, log, undo, past>>

OpLog == [tx : 1 .. MaxTx, key : Key, old : Stored]

TypeOK ==
  /\ db \in [Key -> Stored]
  /\ base \in Layer
  /\ over \in Layer
  /\ mode \in {"idle", "connect", "disconnect"}
  /\ log \in Seq(OpLog)
  /\ undo \in Seq(Seq(OpLog))
  /\ past \in Seq([Key -> Stored])

-----------------------------------------------------------------------------
(* Writing and flushing. *)

(* The value that SetData and EraseData replace. *)
OldValue(k) == OverValue(k)

(* Flush of the overlay: SetDataToSelf of every entry on the base. *)
FlushedOver == [k \in Key |-> IF over[k] = Absent THEN base[k] ELSE over[k]]

(* Mutant: erased keys stay in the database. *)
FlushedBaseKeepsErased ==
  [k \in Key |-> IF base[k] \in {Absent, Empty} THEN db[k] ELSE base[k]]

(* Flush of the base: a batch that writes or erases the key of every entry. *)
FlushedBase == [k \in Key |-> IF base[k] = Absent THEN db[k] ELSE base[k]]

(* The transactions of a block run one after the other. *)
MayLog(t) ==
  /\ Len(log) < MaxOp
  /\ log # <<>> => t >= Last(log).tx

Begin(m) ==
  /\ mode = "idle"
  /\ mode' = m
  /\ over' = NoEntry
  /\ UNCHANGED <<db, base, past>>

(* ConnectTip and ConnectBlock: a new overlay, and no undo data yet. *)
BeginConnect ==
  /\ Len(undo) < MaxBlock
  /\ log' = <<>>
  /\ Begin("connect")
  /\ UNCHANGED undo

GetData(k) ==
  /\ mode # "idle"
  /\ base' = BaseWith(k)
  /\ over' = OverWith(k)
  /\ UNCHANGED <<db, mode, log, undo, past>>

(* SetData by transaction t; v may be a value that counts as empty. *)
SetData(t, k, v) ==
  /\ mode = "connect"
  /\ MayLog(t)
  /\ base' = BaseWith(k)
  /\ over' = [over EXCEPT ![k] = v]
  /\ log' = Append(log, [tx |-> t, key |-> k, old |-> OldValue(k)])
  /\ UNCHANGED <<db, mode, undo, past>>

(* EraseData by transaction t; without a value it only reads. *)
EraseData(t, k) ==
  /\ mode = "connect"
  /\ MayLog(t)
  /\ OverValue(k) # Empty
  /\ base' = BaseWith(k)
  /\ over' = [over EXCEPT ![k] = Empty]
  /\ log' = Append(log, [tx |-> t, key |-> k, old |-> OldValue(k)])
  /\ UNCHANGED <<db, mode, undo, past>>

(* The CBlockUndo that ConnectBlock writes to disk. *)
BlockUndo == log

(* The end of ConnectTip: the undo data is on disk, the overlay is flushed. *)
CommitBlock ==
  /\ mode = "connect"
  /\ mode' = "idle"
  /\ base' = FlushedOver
  /\ over' = NoEntry
  /\ log' = <<>>
  /\ undo' = Append(undo, BlockUndo)
  /\ past' = Append(past, [k \in Key |-> BaseValue(k)])
  /\ UNCHANGED db

(* ConnectBlock has failed: the overlay is dropped with its log. *)
DropOverlay ==
  /\ mode = "connect"
  /\ mode' = "idle"
  /\ over' = NoEntry
  /\ log' = <<>>
  /\ UNCHANGED <<db, base, undo, past>>

(***************************************************************************)
(* WriteChainState and CCacheDBManager::Flush.  Nothing ties the moment to *)
(* the overlays in use: that of the memory pool is open across it.         *)
(***************************************************************************)
FlushBase ==
  /\ db' = FlushedBase
  /\ base' = NoEntry
  /\ UNCHANGED <<over, mode, log, undo, past>>

-----------------------------------------------------------------------------
(* Undoing a block. *)

BeginDisconnect ==
  /\ undo # <<>>
  /\ log' = Last(undo)
  /\ undo' = Front(undo)
  /\ Begin("disconnect")

(* Mutant: the oldest write of a cache is undone first. *)
NextUndoOldest(i) ==
  \A j \in DOMAIN log :
    /\ log[j].tx <= log[i].tx
    /\ j < i /\ log[j].tx = log[i].tx => Prefix[log[j].key] # Prefix[log[i].key]

(***************************************************************************)
(* CBlockUndoExecutor::Execute goes through the transactions backwards; in *)
(* one of them it takes one cache after the other, in the order of the     *)
(* prefixes, which is left open, and through each cache's log backwards.   *)
(***************************************************************************)
NextUndo(i) ==
  \A j \in DOMAIN log :
    /\ log[j].tx <= log[i].tx
    /\ j > i /\ log[j].tx = log[i].tx => Prefix[log[j].key] # Prefix[log[i].key]

(* UndoData: SetDataToSelf with the old value, whatever is below. *)
UndoData(i) ==
  /\ mode = "disconnect"
  /\ NextUndo(i)
  /\ over' = [over EXCEPT ![log[i].key] = log[i].old]
  /\ log' = RemoveAt(log, i)
  /\ UNCHANGED <<db, base, mode, undo, past>>

(* The end of DisconnectTip: the overlay is flushed. *)
EndDisconnect ==
  /\ mode = "disconnect"
  /\ log = <<>>
  /\ mode' = "idle"
  /\ base' = FlushedOver
  /\ over' = NoEntry
  /\ past' = Front(past)
  /\ UNCHANGED <<db, log, undo>>

-----------------------------------------------------------------------------

Init ==
  /\ db = [k \in Key |-> Empty]
  /\ base = NoEntry
  /\ over = NoEntry
  /\ mode = "idle"
  /\ log = <<>>
  /\ undo = <<>>
  /\ past = <<>>

ConnectNext ==
  \/ BeginConnect
  \/ \E t \in 1 .. MaxTx, k \in Key, v \in Stored : SetData(t, k, v)
  \/ \E t \in 1 .. MaxTx, k \in Key : EraseData(t, k)
  \/ CommitBlock
  \/ DropOverlay

DisconnectNext ==
  \/ BeginDisconnect
  \/ \E i \in DOMAIN log : UndoData(i)
  \/ EndDisconnect

Next ==
  \/ ConnectNext
  \/ DisconnectNext
  \/ \E k \in Key : GetData(k)
  \/ FlushBase

Spec == Init /\ [][Next]_vars
=============================================================================
