----------------------------- MODULE ChainDisk -----------------------------
(***************************************************************************)
(* The chain state of a node, in its caches and on disk, and what a        *)
(* restart may rely on (cachewrapper.cpp, main.cpp, init.cpp).  There are  *)
(* sixteen databases, of which the block database names the best block.    *)
(* ChainPersist says what is done with them.                               *)
(*                                                                         *)
(* What a database holds is named by the block whose execution on it was   *)
(* the last one; Corrupt stands for every content that the execution or    *)
(* the undo of a block on a wrong ledger leaves.  Block files, undo files  *)
(* and index entries are written at once and are not among the databases.  *)
(***************************************************************************)
EXTENDS BlockTree, Sequences

CONSTANTS
  FlushOrder,  \* the databases in the order of CCacheDBManager::Flush
  BlockDb,     \* the one of CBlockDBCache
  Corrupt      \* a ledger that is no block's

Part == {FlushOrder[i] : i \in DOMAIN FlushOrder}

VARIABLES
  index,     \* blocks with an index entry and their data on disk
  hasUndo,   \* those with undo data on disk
  tip,       \* chainActive.Tip()
  mem,       \* what each cache reads as
  disk,      \* what each database holds
  pc,        \* what the holder of cs_main is doing
  written,   \* number of databases the flush under way has written
  newTip,    \* the block that UpdateTip is about to set
  lagging,   \* history: a flush was left out, and there was none since
  torn       \* history: a kill has left databases of different blocks

(***************************************************************************)
(* Every block is executed and undone exactly where it belongs: the caches *)
(* hold the ledger of the tip ("Apply the block atomically to the chain    *)
(* state"), across restarts too.                                           *)
(***************************************************************************)
LedgerFollowsTip == pc = "idle" => \A p \in Part : mem[p] = tip

(***************************************************************************)
(* A restart finds a best block that is indexed and that it can disconnect *)
(* down to genesis, whenever the process is killed: LoadBlockIndexDB and   *)
(* VerifyDB refuse anything else and have the node reindex.                *)
(***************************************************************************)
BestBlockUsable ==
  /\ disk[BlockDb] \in index
  /\ Chain[disk[BlockDb]] \ {Genesis} \subseteq hasUndo

(***************************************************************************)
(* The caches are at the tip whenever the node is at rest, unless it was   *)
(* ever killed between two databases of a flush, or when WriteChainState   *)
(* had left one out; the best block is usable in any case.                 *)
(***************************************************************************)
RestartIsConsistent == (~torn => LedgerFollowsTip) /\ BestBlockUsable
=============================================================================
