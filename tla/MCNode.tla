------------------------------- MODULE MCNode -------------------------------
(***************************************************************************)
(* Small instances of the modules about what a node stores and fetches.    *)
(* They share no state, so each behaviour is one of one instance, named by *)
(* part; the variables of the others stay as they were at first.           *)
(*                                                                         *)
(*   "chain"     TxReplay, without restarts (the configuration's constants)*)
(*   "restart"   TxReplay, killed anywhere                                 *)
(*   "caches"    KVCache                                                   *)
(*   "copies"    ForkCache, with an operator's commands                    *)
(*   "stale"     ForkCache, while initial download comes and goes          *)
(*   "kills"     ChainPersist, stopped in order and killed anywhere        *)
(*   "peers"     BlockDownload, with peers that come, stall and go         *)
(*               (the configuration's constants)                           *)
(*   "races"     BlockDownload, peers destroyed within AddBlockToQueue     *)
(***************************************************************************)
EXTENDS MCTxReplay, KVLayers, ChainDisk, BlockDownload

VARIABLES
  part,
  rChain, rTxCache, rMemPool, rFork, rBranch, rPhase, rStarted,
  order, failed, valid, fHasUndo, fUndo, fTip, mostWork, main, below,
  forkCache, ibd, fPc, bad, invalidated,
  rcConnected, rcClosing, rcToDownload, rcInFlight, rcMapToDownload, rcMapInFlight,
  rcAsked, rcHave, rcThread, rcCrashed

replayVars   == vars
restartVars  == <<rChain, rTxCache, rMemPool, rFork, rBranch, rPhase, rStarted>>
cacheVars    == <<db, base, over, mode, log, undo, past>>
forkVars     == <<order, failed, valid, fHasUndo, fUndo, fTip, mostWork, main,
                  below, forkCache, ibd, fPc, bad, invalidated>>
persistVars  == <<index, hasUndo, tip, mem, disk, pc, written, newTip, lagging, torn>>
raceVars     == <<rcConnected, rcClosing, rcToDownload, rcInFlight, rcMapToDownload,
                  rcMapInFlight, rcAsked, rcHave, rcThread, rcCrashed>>
peerVars     == <<downloadVars, raceVars>>
nodeVars == <<part, replayVars, restartVars, cacheVars, forkVars, persistVars, peerVars>>

-----------------------------------------------------------------------------
(* TxReplay again, on shorter chains. *)
Restarted ==
  INSTANCE TxReplay
    WITH CrashAllowed <- TRUE, MaxHeight <- 4,
         chain <- rChain, txCache <- rTxCache, memPool <- rMemPool, fork <- rFork,
         branch <- rBranch, phase <- rPhase, started <- rStarted

(* Two keys, each in a cache of its own, so that the caches of one          *)
(* transaction may be undone in either order.                               *)
CacheOf == [k \in Key |-> IF k = "c" THEN 2 ELSE 1]

Caches ==
  INSTANCE KVCache
    WITH Prefix <- CacheOf, MaxBlock <- 2, MaxTx <- 2, MaxOp <- 2

-----------------------------------------------------------------------------
(* Two branches on a common root, the second one longer by a block and      *)
(* forked itself.  "reward" is a key of the block database, "acct" one of   *)
(* the account database.                                                    *)
ForkParent == [g |-> "g", r |-> "g", a1 |-> "r", a2 |-> "a1",
               b1 |-> "r", b2 |-> "b1", b3 |-> "b2", c2 |-> "b1"]
ForkHeight == [g |-> 0, r |-> 1, a1 |-> 2, a2 |-> 3, b1 |-> 2, b2 |-> 3, b3 |-> 4,
               c2 |-> 3]
ForkChain  == [g |-> {"g"}, r |-> {"g", "r"}, a1 |-> {"g", "r", "a1"},
               a2 |-> {"g", "r", "a1", "a2"}, b1 |-> {"g", "r", "b1"},
               b2 |-> {"g", "r", "b1", "b2"}, b3 |-> {"g", "r", "b1", "b2", "b3"},
               c2 |-> {"g", "r", "b1", "c2"}]
ForkWrites == [g |-> {"best", "reward", "acct"}, r |-> {"best", "acct"},
               a1 |-> {"best", "acct"}, a2 |-> {"best", "reward", "acct"},
               b1 |-> {"best", "acct"}, b2 |-> {"best", "reward", "acct"},
               b3 |-> {"best", "acct"}, c2 |-> {"best", "reward"}]

Copies ==
  INSTANCE ForkCache
    WITH Block <- DOMAIN ForkParent, Genesis <- "g", Parent <- ForkParent,
         Height <- ForkHeight, Chain <- ForkChain,
         Key <- ForkWrites["g"], BlockKey <- {"best", "reward"}, Best <- "best",
         Writes <- ForkWrites, Invalid <- {"b3"}, MaxForkHeight <- 3,
         InitialDownload <- FALSE, Disputed <- {"b1", "a1"}, Unset <- "unset",
         undo <- fUndo, db <- below, hasUndo <- fHasUndo, tip <- fTip, pc <- fPc

StaleCopies ==
  INSTANCE ForkCache
    WITH Block <- DOMAIN ForkParent, Genesis <- "g", Parent <- ForkParent,
         Height <- ForkHeight, Chain <- ForkChain,
         Key <- ForkWrites["g"], BlockKey <- {"best", "reward"}, Best <- "best",
         Writes <- ForkWrites, Invalid <- {"b3"}, MaxForkHeight <- 3,
         InitialDownload <- TRUE, Disputed <- {}, Unset <- "unset",
         undo <- fUndo, db <- below, hasUndo <- fHasUndo, tip <- fTip, pc <- fPc

-----------------------------------------------------------------------------
(* Two branches; two databases before the block database, one after it. *)
DiskBlock  == DOMAIN ForkParent \ {"r", "c2"}
DiskParent == [b \in DiskBlock |-> IF b \in {"a1", "b1"} THEN "g" ELSE ForkParent[b]]
DiskHeight == [b \in DiskBlock |-> IF b = "g" THEN 0 ELSE ForkHeight[b] - 1]
DiskChain  == [b \in DiskBlock |-> ForkChain[b] \ {"r"}]

Flushes == <<"account", "dex", "block", "utxo">>

Disks == INSTANCE ChainPersist WITH InitialDownload <- TRUE

-----------------------------------------------------------------------------
(* BlockDownload again, with the race. *)
Races ==
  INSTANCE BlockDownload
    WITH RaceAllowed <- TRUE,
         connected <- rcConnected, closing <- rcClosing, toDownload <- rcToDownload,
         inFlight <- rcInFlight, mapToDownload <- rcMapToDownload,
         mapInFlight <- rcMapInFlight, asked <- rcAsked, have <- rcHave,
         thread <- rcThread, crashed <- rcCrashed

-----------------------------------------------------------------------------
ASSUME NodeAssumptions ==
  /\ Caches!CacheAssumption
  /\ Copies!ForkCacheAssumption /\ StaleCopies!ForkCacheAssumption
  /\ Disks!ChainPersistAssumption
  /\ DownloadAssumption /\ Races!DownloadAssumption

-----------------------------------------------------------------------------
NodeInit ==
  /\ part \in {"chain", "restart", "caches", "copies", "stale", "kills",
               "peers", "races"}
  /\ Init /\ Restarted!Init /\ Caches!Init
  /\ IF part = "stale" THEN StaleCopies!ForkInit ELSE Copies!ForkInit
  /\ Disks!PersistInit /\ DownloadInit /\ Races!DownloadInit

ReplayNext ==
  /\ \/ part = "chain" /\ Next /\ UNCHANGED restartVars
     \/ part = "restart" /\ Restarted!Next /\ UNCHANGED replayVars
  /\ UNCHANGED <<part, cacheVars, forkVars, persistVars, peerVars>>

CachesNext ==
  /\ part = "caches" /\ Caches!Next
  /\ UNCHANGED <<part, replayVars, restartVars, forkVars, persistVars, peerVars>>

ForkNext ==
  /\ \/ part = "copies" /\ Copies!ForkNext
     \/ part = "stale" /\ StaleCopies!ForkNext
  /\ UNCHANGED <<part, replayVars, restartVars, cacheVars, persistVars, peerVars>>

PersistNext ==
  /\ part = "kills" /\ Disks!PersistNext
  /\ UNCHANGED <<part, replayVars, restartVars, cacheVars, forkVars, peerVars>>

PeersNext ==
  /\ \/ part = "peers" /\ DownloadNext /\ UNCHANGED raceVars
     \/ part = "races" /\ Races!DownloadNext /\ UNCHANGED downloadVars
  /\ UNCHANGED <<part, replayVars, restartVars, cacheVars, forkVars, persistVars>>

NodeNext == ReplayNext \/ CachesNext \/ ForkNext \/ PersistNext \/ PeersNext

NodeSpec == NodeInit /\ [][NodeNext]_nodeVars

-----------------------------------------------------------------------------
(* When start-up is over, a killed node has the transaction cache of one    *)
(* that was never stopped (AppInit loads the last TxCacheHeight blocks).    *)
RestartedCacheRestored == Restarted!RestartRestoresCache

(* Also when a peer is destroyed between count() and operator[] of          *)
(* AddBlockToQueue: the entry without a place in a list that is then made   *)
(* is that of the block being announced, and no handler but the call that   *)
(* has made it meets it; all other entries and lists agree.                 *)
RaceIsConfined == Races!RaceHitsOneBlock

(* ProcessForkedChain judges side branches by their own ledgers, whatever   *)
(* the operator invalidates and in initial download (see ForkCache).        *)
ForksAreJudgedRight ==
  /\ part = "copies" => Copies!ForksAreJudgedRight
  /\ part = "stale"  => StaleCopies!ForksAreJudgedRight
=============================================================================
