------------------------------ MODULE TxReplay ------------------------------
(***************************************************************************)
(* Replay protection.  A transaction names the height around which it is   *)
(* valid, and the node remembers the transactions of its last              *)
(* TxCacheHeight blocks (CTxMemCache): together they must keep a           *)
(* transaction from being confirmed twice.  The module follows the cache   *)
(* and the memory pool through connection, disconnection, reorganisation   *)
(* and start-up.                                                           *)
(*                                                                         *)
(* Everything here runs under cs_main.  Which chain is activated is left   *)
(* open: any branch from any height may be the target, so that the         *)
(* properties do not rest on fork choice (module FinalityNode).            *)
(***************************************************************************)
EXTENDS Integers, FiniteSets, Sequences, SequencesExt

CONSTANTS
  Tx,             \* the transactions subject to IsValidHeight, named by hash
  ValidHeight,    \* ValidHeight[t]: t's valid_height
  TxCacheHeight,  \* SysCfg().GetTxCacheHeight
  CrashAllowed,   \* TRUE: the process may be killed and restarted
  MaxHeight,      \* bound on the height of a chain
  MaxBlockTx      \* bound on the transactions of a block

ASSUME ReplayAssumption ==
  /\ ValidHeight \in [Tx -> Int]
  /\ TxCacheHeight \in Nat \ {0}
  /\ CrashAllowed \in BOOLEAN
  /\ MaxHeight \in Nat
  /\ MaxBlockTx \in Nat

VARIABLES
  chain,    \* chainActive above genesis: the transactions of each block
  txCache,  \* pCdMan->pTxCache
  memPool,  \* mempool.memPoolTxs
  fork,     \* height at which chainMostWork leaves the active chain
  branch,   \* the blocks of chainMostWork that are not connected yet
  phase,    \* where ActivateBestChain is
  started   \* AppInit has loaded the transaction cache

vars == <<chain, txCache, memPool, fork, branch, phase, started>>

(* Transactions in one block are distinct: CheckBlock, "bad-tx-duplicated". *)
BlockContent == {S \in SUBSET Tx : Cardinality(S) <= MaxBlockTx}

ChainHeight == Len(chain)

TypeOK ==
  /\ chain \in Seq(SUBSET Tx)
  /\ txCache \subseteq Tx
  /\ memPool \subseteq Tx
  /\ fork \in 0 .. ChainHeight
  /\ branch \in Seq(SUBSET Tx)
  /\ phase \in {"idle", "find", "activate"}
  /\ started \in BOOLEAN

-----------------------------------------------------------------------------

(* The transactions of block h of the chain c; genesis has none of these. *)
BlockTxs(c, h) == IF h \in DOMAIN c THEN c[h] ELSE {}

ChainTxs(c) == UNION {c[h] : h \in DOMAIN c}

(* What the cache stands for: the transactions of the last n blocks of c. *)
LastBlocks(c, n) == UNION {c[h] : h \in {i \in DOMAIN c : i > Len(c) - n}}

(* Mutant: half the range is as long as the cache. *)
HalfRangeWhole == TxCacheHeight

HalfRange == TxCacheHeight \div 2

(* CBaseTx::IsValidHeight; the exempt types are not in Tx. *)
IsValidHeight(t, h) == ValidHeight[t] \in (h - HalfRange) .. (h + HalfRange)

(* ConnectBlock's tests of a block's transactions, at the height below it. *)
PassesReplayTests(b) ==
  \A t \in b : t \notin txCache /\ IsValidHeight(t, ChainHeight)

(* Mutant: what is confirmed already is not looked up. *)
MayEnterPoolUnchecked(t, c, tc) == IsValidHeight(t, Len(c) + 1)

(* CheckTxInMemPool's tests before the rehearsal, on chain c with cache tc. *)
MayEnterPool(t, c, tc) == t \notin tc /\ IsValidHeight(t, Len(c) + 1)

(***************************************************************************)
(* ReScanMemPoolTx of pool p: a transaction stays if it passes the tests   *)
(* and its rehearsal, whose result depends on the ledger and is left open. *)
(***************************************************************************)
ReScanned(p, c, tc) == SUBSET {t \in p : MayEnterPool(t, c, tc)}

(* Mutant: nothing leaves the cache. *)
CacheConnectedKeeps(tc, c, b) == tc \cup b

(***************************************************************************)
(* The cache after ConnectBlock of b on chain c: b's transactions enter,   *)
(* those of the block TxCacheHeight below it leave.                        *)
(***************************************************************************)
CacheConnected(tc, c, b) ==
  (tc \cup b) \ BlockTxs(c, Len(c) + 1 - TxCacheHeight)

(* Mutants: the block that leaves keeps its entries; the window is not     *)
(* filled from below.                                                      *)
CacheDisconnectedKeeps(tc, c) ==
  tc \cup BlockTxs(c, Len(c) - TxCacheHeight)
CacheDisconnectedUnfilled(tc, c) == tc \ c[Len(c)]

(* The cache after DisconnectBlock of the last block of chain c. *)
CacheDisconnected(tc, c) ==
  (tc \ c[Len(c)]) \cup BlockTxs(c, Len(c) - TxCacheHeight)

-----------------------------------------------------------------------------
(* Block processing. *)

(***************************************************************************)
(* A block arrives and its index entry is written; the chain it ends, from *)
(* height f with blocks bs, is the new chainMostWork.                      *)
(***************************************************************************)
AcceptBlock(f, bs) ==
  /\ started
  /\ phase = "idle"
  /\ bs # <<>>
  /\ f + Len(bs) \in ChainHeight + 1 .. MaxHeight
  /\ fork' = f
  /\ branch' = bs
  /\ phase' = "activate"
  /\ UNCHANGED <<chain, txCache, memPool, started>>

(* The tip is not on the chain to be activated. *)
OffMostWork == ChainHeight > fork

(***************************************************************************)
(* DisconnectTip.  Each transaction of the block goes back to the pool if  *)
(* AcceptToMemoryPool takes it; the pool is rescanned once the tip is on   *)
(* the chain to be activated.                                              *)
(***************************************************************************)
DisconnectTip ==
  /\ phase = "activate"
  /\ OffMostWork
  /\ chain' = Front(chain)
  /\ txCache' = CacheDisconnected(txCache, chain)
  /\ \E back \in SUBSET {t \in Last(chain) \ memPool :
                           MayEnterPool(t, chain', txCache')} :
       LET pool == (memPool \ Last(chain)) \cup back
       IN  IF ChainHeight - 1 = fork
             THEN memPool' \in ReScanned(pool, chain', txCache')
             ELSE memPool' = pool
  /\ UNCHANGED <<fork, branch, phase, started>>

(* ConnectTip, when ConnectBlock accepts the next block of the branch. *)
ConnectTip ==
  /\ phase = "activate"
  /\ ChainHeight = fork
  /\ branch # <<>>
  /\ PassesReplayTests(Head(branch))
  /\ chain' = Append(chain, Head(branch))
  /\ txCache' = CacheConnected(txCache, chain, Head(branch))
  /\ fork' = fork + 1
  /\ branch' = Tail(branch)
  /\ LET pool == memPool \ Head(branch)
     IN  IF branch' = <<>>
           THEN phase' = "idle" /\ memPool' \in ReScanned(pool, chain', txCache')
           ELSE phase' = phase /\ memPool' = pool
  /\ UNCHANGED started

(***************************************************************************)
(* ConnectTip, when ConnectBlock rejects it: by the tests above, or while  *)
(* executing a transaction, on which the model is silent.  The overlay     *)
(* cache is dropped, the block is marked failed.                           *)
(***************************************************************************)
ConnectTipFails ==
  /\ phase = "activate"
  /\ ChainHeight = fork
  /\ branch # <<>>
  /\ branch' = <<>>
  /\ phase' = "find"
  /\ UNCHANGED <<chain, txCache, memPool, fork, started>>

(***************************************************************************)
(* FindMostWorkChain after a failure: another branch no lower than the     *)
(* active chain, maybe back to the blocks that were disconnected.          *)
(***************************************************************************)
FindMostWorkChain(f, bs) ==
  /\ phase = "find"
  /\ bs # <<>>
  /\ f + Len(bs) \in ChainHeight .. MaxHeight
  /\ fork' = f
  /\ branch' = bs
  /\ phase' = "activate"
  /\ UNCHANGED <<chain, txCache, memPool, started>>

(***************************************************************************)
(* The active chain is the best one left.  Only ConnectBlockOnFinChain     *)
(* rescans the pool in this case.                                          *)
(***************************************************************************)
ActivationEnds ==
  /\ phase = "find"
  /\ phase' = "idle"
  /\ fork' = ChainHeight
  /\ memPool' \in {memPool} \cup ReScanned(memPool, chain, txCache)
  /\ UNCHANGED <<chain, txCache, branch, started>>

-----------------------------------------------------------------------------
(* The memory pool and the RPC commands. *)

(* AcceptToMemoryPool from a peer, the wallet or an RPC. *)
AcceptToMemoryPool(t) ==
  /\ started
  /\ phase = "idle"
  /\ t \notin memPool
  /\ MayEnterPool(t, chain, txCache)
  /\ memPool' = memPool \cup {t}
  /\ UNCHANGED <<chain, txCache, fork, branch, phase, started>>

(* droptxfrommempool; JSON-RPC runs it under cs_main. *)
DropTxFromMemPool(t) ==
  /\ started
  /\ phase = "idle"
  /\ t \in memPool
  /\ memPool' \in ReScanned(memPool \ {t}, chain, txCache)
  /\ UNCHANGED <<chain, txCache, fork, branch, phase, started>>

(* reloadtxcache: one block more than ConnectBlock keeps. *)
ReloadTxCache ==
  /\ started
  /\ phase = "idle"
  /\ txCache' = LastBlocks(chain, TxCacheHeight + 1)
  /\ UNCHANGED <<chain, memPool, fork, branch, phase, started>>

-----------------------------------------------------------------------------
(* Start-up. *)

(***************************************************************************)
(* The process is killed and started again.  Neither the cache nor the     *)
(* pool is on disk; the block index is, so ActivateBestChain goes on with  *)
(* the branch it was connecting.  Blocks are flushed as they are connected *)
(* (outside initial block download).                                       *)
(***************************************************************************)
Restart ==
  /\ CrashAllowed
  /\ txCache' = {}
  /\ memPool' = {}
  /\ started' = FALSE
  /\ UNCHANGED <<chain, fork, branch, phase>>

(* AppInit fills the cache after its call of ActivateBestChain. *)
LoadTxCache ==
  /\ ~started
  /\ phase = "idle"
  /\ txCache' = txCache \cup LastBlocks(chain, TxCacheHeight)
  /\ started' = TRUE
  /\ UNCHANGED <<chain, memPool, fork, branch, phase>>

-----------------------------------------------------------------------------

Init ==
  /\ chain = <<>>
  /\ txCache = {}
  /\ memPool = {}
  /\ fork = 0
  /\ branch = <<>>
  /\ phase = "idle"
  /\ started = FALSE

Branches == BoundedSeq(BlockContent, MaxHeight)

ActivateNext ==
  \/ DisconnectTip
  \/ ConnectTip
  \/ ConnectTipFails
  \/ \E f \in 0 .. ChainHeight, bs \in Branches : FindMostWorkChain(f, bs)
  \/ ActivationEnds

PoolNext ==
  \/ \E t \in Tx : AcceptToMemoryPool(t)
  \/ \E t \in Tx : DropTxFromMemPool(t)
  \/ ReloadTxCache

Next ==
  \/ \E f \in 0 .. ChainHeight, bs \in Branches : AcceptBlock(f, bs)
  \/ ActivateNext
  \/ PoolNext
  \/ Restart
  \/ LoadTxCache

Spec == Init /\ [][Next]_vars

-----------------------------------------------------------------------------
(* What replay protection promises. *)

(***************************************************************************)
(* No transaction is confirmed by two blocks of the active chain           *)
(* (ConnectBlock: "txid=%s duplicated"), although the cache forgets        *)
(* everything older than TxCacheHeight blocks.                             *)
(***************************************************************************)
NoReplay ==
  \A i, j \in DOMAIN chain : i # j => chain[i] \cap chain[j] = {}

(***************************************************************************)
(* Once the node is up, the cache holds the transactions of the last       *)
(* TxCacheHeight blocks, whatever was connected and disconnected: removing *)
(* the block that falls out of the window takes nothing else with it.      *)
(***************************************************************************)
CacheCoversWindow == started => LastBlocks(chain, TxCacheHeight) \subseteq txCache

(***************************************************************************)
(* The cache holds nothing that is not on the active chain, so that a      *)
(* transaction a reorganisation has undone can be confirmed again: not     *)
(* after reloadtxcache with its extra block, nor after a restart that      *)
(* reorganised with an empty cache.                                        *)
(***************************************************************************)
CacheOnChain == txCache \subseteq ChainTxs(chain)

(***************************************************************************)
(* The memory pool holds no confirmed transaction, in the middle of a      *)
(* reorganisation included: what DisconnectTip resurrects and ConnectTip   *)
(* confirms on the other branch is erased again.                           *)
(***************************************************************************)
PoolUnconfirmed == memPool \cap ChainTxs(chain) = {}

(***************************************************************************)
(* A restarted node has the cache of one that was never stopped: the last  *)
(* TxCacheHeight blocks and nothing else, although ActivateBestChain may   *)
(* have disconnected and connected blocks on an empty cache before.        *)
(***************************************************************************)
RestartRestoresCache ==
  [][~started /\ started' => txCache' = LastBlocks(chain', TxCacheHeight)]_vars

(***************************************************************************)
(* Every transaction of the pool would be accepted in the next block, as   *)
(* CTxMemPool's comment says of what it stores.                            *)
(***************************************************************************)
PoolIncludable == phase = "idle" => PassesReplayTests(memPool)
=============================================================================
