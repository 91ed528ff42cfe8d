# A formal model of the DragonBallChain node

DragonBallChain is a delegated-proof-of-stake chain whose node is a C++ program
in the Bitcoin tradition: LevelDB databases under layered caches, one thread
that reads messages, one that mines, a global lock `cs_main`. On top of fork
choice by height it has a PBFT-like finality, a stable coin with price feeds,
an exchange, governance and contracts.

This directory holds TLA+ modules that model parts of that node, TLC
configurations that check them on small instances, and proofs that TLAPS
checks for every instance. Paths below are relative to `src/` of the
repository. Every definition that stands for code is listed in `PROJECT.json`
under `map` with its file and lines.

    tlc -workers 2 -config Node.cfg MCNode          # check a run
    tlapm TxReplayProofs.tla                        # check proofs

## 1. Inventory

### Parts modelled

**PBFT finality** (`miner/pbftmanager.cpp`, `pbftcontext.h`, vote messages in
`p2p/chainmessage.cpp`). *State:* `localFinIndex`, `localFinLastUpdate`,
`globalFinIndex`, `globalFinHash`; the votes received per block, the votes seen,
the blocks announced, the miners recorded per block; the finality block in the
block database. *Operations:* receive a confirm or a finality vote, look for a
new final block after a block has been accepted, cast own votes, restart.
*Interacts* with fork choice in both directions: fork choice refuses to revert
final blocks, and finality reads `chainActive`. *Hard:* of the steps that handle
a vote only the first takes `cs_main`; searches re-read the chain by height;
heights are unsigned; global finality is persisted with the next flush only.
*Correct means:* final blocks stay on the active chain, a final block has its
quorum, own votes do not contradict each other.

**Fork choice** (`main.cpp`: `AcceptBlock`, `AddToBlockIndex`,
`ActivateBestChain`, `FindMostWorkChain`, `ConnectTip`, `DisconnectTip`,
`InvalidBlockFound`, `WriteChainState`, `LoadBlockIndexDB`). *State:* the block
index, failed flags, `chainActive`, `chainMostWork`, best block on disk. *Hard:*
the walk that protects finality, failures in the middle of a reorganisation,
being killed between any two steps. *Correct means:* activation ends, and the
databases always hold a state that fork choice can go on from.

**Replay protection and memory pool** (`persistence/txdb.cpp`,
`tx/txmempool.cpp`, `tx/tx.cpp`, parts of `main.cpp` and `init.cpp`). *State:*
the transactions of the last `TxCacheHeight` blocks, in memory; the pool.
*Operations:* connect and disconnect a block, accept, rescan, drop, reload, start
up. *Hard:* a transaction is valid for a range of heights exactly as wide as the
cache is long; reorganisations deeper than the cache; start-up, which activates
a chain before it loads the cache. *Correct means:* nothing is confirmed twice,
and the pool holds nothing confirmed.

**Persistence caches and undo log** (`persistence/dbaccess.h`,
`cachewrapper.cpp`, `blockundo.cpp`). *State:* database, global caches, the
overlay of a block, operation logs, undo data. *Operations:* get, set, erase,
flush, undo. *Hard:* reads copy values into every layer they pass; an erased
key is an entry; a block writes the same key many times and its logs are split
by transaction and by cache. *Correct means:* the layers are one map, and a
disconnected block leaves the ledger as it found it.

**Price feeds and block median price** (`persistence/pricefeeddb.cpp`,
`tx/pricefeedtx.cpp`, `tx/blockpricemediantx.cpp`). *State:* the prices fed in
the last blocks, in memory, with a block overlay; the number of blocks is a
governance parameter. *Operations:* push and undo a block, load at start-up,
compute the median, reject a block with another median. *Hard:* the cache is
moved one block at a time while the window may change; nodes with different
histories must compute the same median. *Correct means:* no valid block is
rejected.

**Chain databases on disk** (`persistence/cachewrapper.cpp`, `main.cpp`,
`init.cpp`). *State:* sixteen databases, block files, undo files, index entries.
*Operations:* `Flush` writes the databases in turn; `Shutdown`;
`LoadBlockIndexDB` and `VerifyDB`. *Hard:* a kill between two writes; the block
database, which names the best block, is also flushed alone. *Correct means:* a
restart goes on from a ledger that is some block's.

**Fork cache** (`main.cpp`: `ProcessForkedChain`, `mapForkCache`,
`setBlockIndexValid`; `invalidateblock`, `reconsiderblock`). *State:* ledger
copies of side branches above the same database as the active chain, undo records,
failed flags, candidates. *Hard:* the copies live on while the active chain moves
and flushes; a block is rehearsed on a copy first and connected later. *Correct
means:* a side branch is judged by its own ledger, no better chain is forgotten.

**Delegates** (`chain/blockdelegates.cpp`, `tx/delegatetx.cpp`,
`persistence/delegatedb.cpp`). *State:* votes given and received, the index by
votes, the pending and the active list, the two parameters on them.
*Operations:* vote, register, end of a block, proposals. *Hard:* three sets of
rules by height; a list is counted, waits, and is activated; a vote cast in
between. *Correct means:* no vote is made or lost, the list is never empty and
follows the votes.

**Block production** (`miner/miner.cpp`, `miner.h`).
*State:* the producing thread's idea of tip, time, turn; the set of transactions
to pack. *Hard:* the thread lets `cs_main` go between looking, asking and
producing; `TxPriority::operator<` is no ordering. *Correct means:* one block an
interval, nobody has two turns in a round, a node accepts its own blocks, every
transaction is packed in the end.

**Block download and orphans** (`p2p/chainmessage.cpp`, `p2p/node.cpp`,
`main.cpp`). *State:* per peer the lists of blocks to fetch and in flight, two
global maps of them; three containers of orphans. *Hard:* two threads; peers that
stall or leave with a block in their queue; a set ordered by height alone.
*Correct means:* maps and lists agree, every announced block arrives.

**Debt positions** (`tx/cdptx.cpp`, `persistence/cdpdb.cpp`,
`tx/blockpricemediantx.cpp`). *State:* positions by id, owner, ratio, height, and
totals; the reserve. *Operations:* stake, redeem, liquidate, settle interest,
forced liquidation. *Correct means:* the five places agree, pledges and debt back
each other, the riskiest goes first and the limits hold.

**Exchange** (`tx/dextx.cpp`, `tx/dexoperatortx.cpp`, `persistence/dexdb.cpp`).
*State:* orders, frozen amounts, operators and their owners. *Hard:* amounts are
rounded at every deal of an order dealt in parts; terms change between order and
deal. *Correct means:* what is frozen is what orders may spend, no coin is made.

**Governance and minting of mirrored coins** (`tx/proposaltx.cpp`,
`entities/proposal.cpp`). *State:* proposals, approvals, and what they set.
*Hard:* what was checked at the request has changed by the last approval.
*Correct means:* executed once, by enough governors, on what holds then.

### Parts not modelled

| Part | Why |
|---|---|
| Peer connections, addresses (`net.cpp`, `p2p/addrman.cpp`) | sockets and threads are input and output; `addrman` has no part in consensus |
| Transaction relay messages | the pool they feed is in `TxReplay`; what they add is a cache of what a peer knows |
| Coin outputs with conditions (`tx/coinutxotx.cpp`) | one transaction spends an output at once: no interplay of steps |
| Accounts, assets, stakes (`entities/account.cpp`) | moved by `Cdp`, `DexOrders`, `Governance`, `Delegates` where they matter; their own transactions are left out |
| Contracts (Lua, WebAssembly) | interpreter state is out of TLC's reach; their cache effects are in `KVCache` |
| Execution log and receipts, wallet, RPC interface, start-up options | records, keys, input and output; commands that change the chain are actions of `ForkCache` and `TxReplay`, the order of `AppInit` is in `TxReplay`, `FinalityNode`, `PriceWindow`, `ChainPersist` |
| Cryptography, LevelDB, Lua, eos-vm, serialisation, tests | vendored code or pure functions |

`PROJECT.json` lists all parts as components with what is left out of each, and
under `hazards` what is hard to test in this code, line by line, with the
properties that cover it, or a note why none does.

## 2. Plan

The order follows what a mistake would cost: finality and replay decide whether
the chain can be trusted, the caches decide whether nodes agree at all, then who
produces blocks, then the money.

| Step | Modules | Status |
|---|---|---|
| 1 | `BlockTree`, `FinalityNode`, `FinalityNodeProofs` | checked, safety proved |
| 2 | `TxReplay`, `TxReplayProofs` | checked, proved |
| 3 | `KVStore` (abstract), `KVLayers`, `KVCache` implementing it, `NodeProofs` | checked, refinement proved |
| 4 | `PriceWindow`, `PriceWindowProofs` | checked, proved |
| 5 | `ChainDisk`, `ChainPersist`, `NodeProofs`; `ForkCache`, `ForkProofs` | checked, proved |
| 6 | `Delegates`, `Producer`, `Packing`, `ProducerProofs` | checked, proved |
| 7 | `BlockDownload`, `Orphans`, `NodeProofs` | checked; the queues of `BlockDownload` and the safety of `Orphans` proved |
| 8 | `Cdp`, `CdpSettle`, `Governance`, `DexOperators`, `DexOrders`, `SumTheorems`, `MoneyProofs` | checked; `Cdp`, the exchange and `Governance` proved |
| 9 | `FinalityAgreement`, `FinalityNet` (several nodes), `ForkProofs` | checked, agreement proved |
| 10 | proof of `ListWithinLimit` (`CdpSettle`); the limits of `pbftlimitmap.h`; the pool's own overlay | left |

Abstract specifications: `KVStore` (there); an abstract ledger that
`ChainPersist` implements across kills.

## 3. Modules

Four components come in two modules: the state with what it promises
(`FinalityAgreement`, `KVLayers`, `ChainDisk`; `KVStore` is abstract), and the
operations that extend it. A suite of runs (below) extends the first and the
proofs extend both, so that a run checks the very definition a theorem states.

### BlockTree, FinalityNode, FinalityAgreement, FinalityNet, MCFinalityNode, MCFinalityNet

`BlockTree` is the set of all blocks that can ever arrive, with `Parent`,
`Height` and `Chain` (a tip's ancestors). A `CChain` is named by its tip.

`FinalityNode` is one node with two threads. The *chain thread* is whoever holds
`cs_main` to process a block; `chainPc` says where it is:

| Action | Code |
|---|---|
| `AcceptBlock(b)` | `AcceptBlock` up to the new index entry |
| `FindMostWorkChain` | the top of `ActivateBestChain`'s loop: choose a target, walk down the blocks to be reverted, stop at a final one |
| `ConnectBlockOnFinChain` | the way out when finality forbids the reorganisation |
| `DisconnectTip`, `ConnectTip`, `Activated` | the loop itself |
| `FlushBlockCache` | the end of `AddToBlockIndex` |
| `PostAccept(recent)` | the end of `AcceptBlock`: own confirm vote, search for local finality, own finality vote, search for global finality |

The *message thread* handles a vote in the steps `CheckMessage` (which takes
`cs_main`), `SaveMessage`, `UpdateLocalFinBlock` or `UpdateGlobalFinBlock`, and
`AnnounceFinality`. With `Concurrent = FALSE` blocks come through the message
thread only, so the two alternate; with `TRUE` (miner, import, RPC threads) the
later steps of a vote interleave with a reorganisation. Any delegate may vote
for any block at any time: votes are lost, duplicated and reordered freely.
`LocalFinExpires` is the 60-second timer. `Restart` kills the process between
any two steps and resumes from `disk`.

`FinalityNet` is several such nodes, each with the key of one delegate, and
delegates that vote for everything. A node is a record; an action is a whole
handler of one node (`AcceptBlock` with `ActivateBestChain` and the end of the
code's `AcceptBlock`, `ProcessBlockConfirmMessage`, `ProcessBlockFinalityMessage`,
the timer). Messages are not held in a channel: a vote, once cast, may reach any
node at any later time or never, and because only votes for the tip are taken
(`OnlyTipVotes`), all that matters of a node's store is whether it has a quorum
for a block (`counted`). A quorum may also be completed by the node's own vote,
which is stored and triggers nothing (`FinalityVotes`). Left out: restarts, invalid
blocks, a second thread, lists that change, blocks older than 60 s when they
arrive (not confirmed by their receiver).

Abstractions: work is height (every block adds the same work); a block's
validity is fixed (`Invalid`); votes are signed correctly; `everFinal` and
`loosened` are history variables. The store limits of 500 entries are not
modelled, and neither is initial block download. The fork a block leaves is
rehearsed by `ProcessForkedChain`, of which only the result is kept here
(`Invalid`); `ForkCache` models the rehearsal.

### TxReplay

One node under `cs_main`. `chain` is the transactions of each block; `txCache`
and `memPool` are the two sets the code keeps. `AcceptBlock` sets a target: any
branch from any height, so that nothing rests on fork choice. `DisconnectTip`,
`ConnectTip`, `ConnectTipFails`, `FindMostWorkChain` and `ActivationEnds` are the
steps of `ActivateBestChain`, each with its effect on the cache
(`CacheConnected`, `CacheDisconnected`) and on the pool (resurrection, removal,
rescan). `AcceptToMemoryPool`, `DropTxFromMemPool` and `ReloadTxCache` are the
pool's entry and two RPC commands; `Restart` and `LoadTxCache` are start-up,
which activates first and loads the cache afterwards. Whether a transaction
executes is left open: a rescan may drop any transaction, a block may fail.
Types of transactions that are exempt from `IsValidHeight` are left out.

### KVStore, KVLayers, KVCache

`KVStore` is the promise: one map that a block changes as a whole (`Begin`,
`Put`, `Commit`, `Abort`) and that `Revert` takes back. `KVLayers` is the layers,
how they are read, and the promise as a property of them; `KVCache` is what is done
with them: `db`, `base` and `over` are LevelDB, the `mapData` of the global caches and of a
block's overlay; `GetData`, `SetData`, `EraseData` read through, write and log.
`CommitBlock` builds the undo data and flushes the overlay, `DropOverlay` forgets
a failed block, `FlushBase` writes the global caches to disk at any time,
`BeginDisconnect`, `UndoData`, `EndDisconnect` run a block's undo log backwards.
The abstract specification is the property `ImplementsStore`, by

    Promise == INSTANCE KVStore WITH store <- Ledger, open <- mode = "connect",
                 view <- IF mode = "connect" THEN Overlay ELSE Ledger

A `CSimpleKVCache` is a cache with one key. Iterators, size limits and restarts
are not modelled.

### PriceWindow, MCPriceWindow

One coin pair. A block is its feeds, its median and the window in force after
it. `prices` is `CPricePointMemCache`; a block's overlay exists within a step
only, so `AddPrice`, `DeleteBlock`, `BatchWrite` are operators on two layers,
including the code's asymmetry that an emptied height hides the one below from
`GetBlockUserPrices` but not from `ExistBlockUserPrice`. `NextBlock` is what every
other node holds valid: its median follows from the chain. `ConnectTip` accepts
it if the cached prices say so too, otherwise `ConnectTipFails` marks it invalid.
`DisconnectTip` reads the window after the parameter has been undone, as
`DisconnectBlock` does. `Restart` empties the cache, `ReleadBlocks` fills it,
blocks may be connected in between. The feeds lead the block, where the miner
puts them; price 0 is excluded by `CheckTx`. Any window may follow any other,
which is what a governance proposal may do within the parameter's range.

### ForkCache

The caches of the active chain are `main`, the database below them `db`, the
copies of side branches `forkCache`; what a key holds is named by the block that
wrote it last, so that a ledger is right when it equals `LedgerAt` of its block.
`Key` is split into those of `CBlockDBCache`, which `AddToBlockIndex` flushes on
its own, and the rest. `AcceptForkBlock` is `AcceptBlock` with
`ProcessForkedChain`: `CopyFor` finds the copy nearest below the fork or rolls one
back, `ForkConnects` executes the branch on it, `WriteUndo` records undo data on
the way, `StatusReset` is what line 1795 does to `nStatus`. `FindMostWorkChain`,
`Disconnect`, `ConnectTip`, `Activated` are the loop of `ActivateBestChain` with
its effect on candidates, `MarkInvalid` is `InvalidBlockFound`.
`InvalidateBlock`, `InvalidateTip`, `Invalidated`, `ReconsiderBlock` are the two
commands step by step; `InitialDownloadChanges` turns the skipping of flushes on
and off. Left out: transactions (`TxReplay`), prices, finality.

### ChainDisk, ChainPersist

What a database holds is named by the block whose execution on it was the last
one, or `Corrupt` for whatever executing or undoing a block on a wrong ledger
leaves. `FlushNext` is one database of `CCacheDBManager::Flush`, `UpdateTip` its
end, `Activated` the flush of the block cache alone, `Shutdown` and `Restart` stop
and start the process; a kill is a `Restart` from anywhere. `lagging` is history:
initial download has left a flush out and none has made up for it; `torn`: a kill
fell between two databases of a flush, or while `lagging`. Block files and index
entries are written at once.

### Delegates

`VoteTx` is `CDelegateVoteTx::ExecuteTx` with the three rules on how coins are
locked, `EndBlock` is `ProcessBlockDelegates` with the switch of rules at V2
(`RevokeVotes`), V3 (slots, delay) and V35 (only revocations, no minimum).
A candidate may have votes before it has a `CRegID`; `SetDelegateVotes` then puts
nothing into the index, and registering does not either. The next step that changes
its votes does: `Reindexed` for a vote, `EntriesSet` for the revocation
(`main.cpp:958`). `ElectionsSeeVotes` says that no such step leaves it out.
`ExecuteBpSize` and `ExecuteMinVote` are the two proposals. `settled` is a
history variable. Interest on votes, fees and undo are left out. A list
(`VoteDelegateVector`) is the set of its pairs of votes and delegate: its order is
that of the index, so two lists are equal when they have the same pairs. `Leading`
is the loop of `GetTopVoteDelegates`: the first of the index, as far as they have the
minimum. `ActiveIsFresh` speaks of a chain on which somebody has voted, or the
minimum has changed, since the rules last changed: when V35 comes after a count that
found nobody, the list that the votes then give waits for the next vote (section 4).

### Producer, Packing

`Producer` is `ThreadBlockProducing` on one node: `Look`, `GetMiner` and `Produce`
are its lock-free steps, `Receive`, `Reorganise`, `Tick` and `Restart` its
environment. `GetCurrentDelegate` shuffles the list of the height asked for;
`Accepted` is what every node checks of time and producer. The clock has seconds,
`Patience` is the hour after which no block is made on a tip, the list depends on
the height only, and the intervals are those after V3.

`Packing` is `CreateNewBlock` for the releases after V3: `Collect` puts the pool
into the `std::set`, `PushMedian` and `PushSettle` add the two transactions of the
producer, `Pack` takes from the end what executes and fits, `Finish` checks the
work and rescans the pool, `Foreign` is a block of somebody else. Since
`TxPriority::operator<` is no ordering, where a tree puts an element depends on
the tree: `Gaps` has every place that some tree gives, `PlacesAreCertain` says
that ascending hashes leave one. The genesis block of the stable coin, R1 packing,
fuel rates and rewards are left out.

### BlockDownload, Orphans

`BlockDownload` has the message thread, with `AddBlockToQueue` split into its four
unprotected reads and its locked end, and the socket thread (`FinalizeNode`).
An entry is new until its `Timeout`. `RaceAllowed` lets `FinalizeNode` run between
those reads; `RaceHitsOneBlock` says what is then still true. `Honest` peers stay connected and answer. The blocks are named by
their hashes (`Hash`); `RemoveFirst` takes a block from the one place the entry's
iterator points to.

`Orphans` is `ProcessBlock` with `PruneOrphanBlocks`. `ordered` is
`setOrphanBlock` with its comparator by height alone: two blocks of a height are
one to it, erasing either erases the one that is there.

### Cdp, CdpSettle

`Cdp` has every transaction on positions (`StakeNew`, `StakeMore`, `Redeem`,
`LiquidateAll`, `LiquidatePart`, `SettleInterest`) and the block's `MedianPrices`, which
closes positions out of the reserve. `store` has the five places in which
`CCdpDBCache` keeps a position; `SaveCdpIndexData`, `EraseCdpIndexData`,
`UpdateCDP` are its functions in their order. System orders are reduced to the
amounts they freeze. The logarithm in the interest rate is one constant rate,
governance changes none of the ratios, the log of closed positions is left out.

`CdpSettle` is the producer's choice of positions whose interest is due, with the
`uint32_t` counter that is decremented before it is tested. `MCLiveness` has
an instance with one pair, and one with two that share the counter: there interest
is settled unless the counter wraps and `CheckTx` refuses the list. In the second
nobody closes a position, and a cycle is long enough for the first pair not to be
due in every block, which would starve the second.

### Governance

The proposals that depend on each other: who governs, ratios of a coin pair,
transfers, swaps in and out, and what is switched on and off. `Request` checks
(`Acceptable`) and fixes expiry and the number of approvals; `Approve` counts, and
with the last approval checks again (`StillAcceptable`) and executes. Enabling the
first governor replaces the one of the genesis block; disabling that one while
nothing is stored changes nothing. The kinds left out set one value each.

### DexOperators, DexOrders

`DexOperators`: registration, update, activation (never of operator 0), the fee's
split, and the map of owners, in which operator 0 is not until it is stored. `DexOrders` extends it by
orders of one pair, WUSD for WGRT: `PlaceOrder` freezes, `Settle` is one deal of
`CDealItemExecuter` with match fees and friction fees, whose coins make a system
order; `CancelOrder` is that of owner and governors, `Transfer` a coin transfer,
whose friction fee makes the same kind of order. A settlement of several deals is
several steps. Fees of transactions and the index of orders by block are left out.

### Suites

`MCNode`, `MCProduction`, `MCMoney`, `MCLiveness` (and `MCFinalityNet`, one node with
two threads beside several nodes) each check several instances at once. The
instances share no state, so a behaviour is one of one instance, named by the
variable `part`; the variables of the others keep their initial values. A suite
extends the modules whose properties it names as they are (`MCNode` `TxReplay`,
`KVLayers`, `ChainDisk` and `BlockDownload`, `MCProduction` `Producer` and `Delegates`, `MCMoney`
`DexOrders`, `Governance` and `Cdp`, `MCFinalityNet` `FinalityAgreement`); they hold in the initial
values too, so they need no `part`. The other instances are `INSTANCE`s, and a
property of theirs is a conjunction of the named invariants that belong to one
question, under its `part` where the initial values would not do. A suite says nothing about the modules together:
modules that interact are composed where they do (`DexOrders` extends
`DexOperators`, `FinalityNode` has fork choice in it, `FinalityNet` is several
nodes).

| Suite | Instances |
|---|---|
| `MCNode` | `TxReplay` without and with kills; `KVCache`; `ForkCache` with an operator's commands and in initial download; `ChainPersist` stopped in order and killed anywhere, initial download included; `BlockDownload` without and with the race |
| `MCProduction` | `Delegates` with votes and revocations across V2, V3 and V35, and with proposals across V3 and V35; `Producer` with one list and with lists that votes change; `Packing` with every order of hashes |
| `MCMoney` | `Cdp` with one pair before R3, and with two pairs after it; `Governance` on ratios, and on swaps; `DexOperators`; `DexOrders` within an operator, and across two |
| `MCLiveness` | `FinalityNode` with failing branches; `BlockDownload` with an honest peer; `Orphans`; `CdpSettle` with one pair and with two; `Packing` without a limit of time |

## 4. Runs

| Run | Question | Result | Distinct states |
|---|---|---|---|
| `finality_relay` | node with one delegate's key, one thread: final blocks stay, own votes are for one chain, only votes for the tip count | holds | 953,462 |
| `finality_crash` | the same, killed anywhere, with an invalid heavier branch: what is on disk is always usable, persisted finality never goes back | holds | 1,350,138 |
| `finality_together` | blocks also from other threads: global finality still rests on a quorum for that block; several nodes: their final blocks are on one chain but for nodes that dropped a local finality | holds | 1,668,666 |
| `node` | what a node stores and fetches | holds | 595,328 |
| `price_median` | price cache never ahead of the chain, complete while the window has not grown, medians agree | holds | 1,111,136 |
| `production` | who makes blocks and what is in them | holds | 572,940 |
| `money` | where the money is | holds | 636,571 |
| `liveness` | what must happen in the end | holds | 39,855 |
| `finality_crash_reversal` | a globally final block is never replaced, across restarts | violated | |
| `finality_race` | local finality stays on the chain, with other threads | violated | |
| `pool_includable` | what the pool holds may be in the next block | violated | |
| `price_startup` | a block with the right median is never marked invalid | violated | |

What the properties of the suites are made of:

| Property | It says |
|---|---|
| `NoReplay`, `CacheCoversWindow`, `CacheOnChain`, `PoolUnconfirmed`, `RestartedCacheRestored` | no transaction twice, the cache covers its window and nothing else, the pool holds nothing confirmed, start-up restores what a running node has |
| `ImplementsStore`, `UndoLeadsBack` | `KVCache` implements `KVStore`; the operation log leads back to the ledger before the block at every moment, the undo data from block to block |
| `ForksAreJudgedRight` | copies and caches read as the replay of their chains whatever is invalidated; in initial download all but the block database's keys do; undo records lead back; no failed block is a candidate and, without commands, no better chain is forgotten |
| `RestartIsConsistent` | every cache is at the tip at rest, across orderly stops and kills, unless a kill ever fell between two databases of a flush or came when initial download had left a flush out; after any kill the best block on disk is indexed and can be disconnected |
| `QueuesAgree` | the maps of block download say what the peers' lists say, a block is listed once; nothing the node has is fetched; all this while no peer is destroyed within `AddBlockToQueue` |
| `RaceIsConfined` | with that race: an entry without a place in a list is that of the block being announced, and only the call that made it meets it; the rest agrees |
| `VotesAgree` | received votes are those given, locked coins those voted with, the index is that of the accounts, across V2, V3, V35 |
| `ListsAreFresh` | a list that the votes have given for two counting intervals and the delay is active |
| `TurnsAreKept` | one block an interval, a delegate has its turn of each round and no more, the node accepts its own blocks although it asks without the lock |
| `PackedBlocksStand` | ascending hashes give every transaction one place, dearer ones first, the proposed block passes other nodes' checks |
| `ElectionsSeeVotes` | a registered candidate whose votes change is in the index with its new votes from then on, also if it was voted for before it registered |
| `ProducersGoOn` | the active list is never lost, no interval of an own turn is waited out |
| `PositionsAreBacked`, `LiquidationsInOrder` | the five places of a position agree, pledges and coins add up; a locked pair stays, the riskiest goes first, limits hold over all pairs |
| `ProposalsActRight` | single changes keep the ratios ordered, nothing is minted for twice, what is minted is shared out, what is signed for is burnt |
| `FrozenBacksOrders`, `ExchangeBalances` | frozen is what active orders may spend; owners are found, fees change hands, no coin is made by rounding, a limit buy lasts for its last part |
| `ActivationEnds`, `EveryBlockArrives`, `DueIsSettled`, `EveryTxIsPacked` | liveness, see *Fairness*; `EveryBlockArrives` is of the download and of the pool of orphans; `DueIsSettled` holds of one pair without exception, of two that share the counter as long as it does not wrap |
| `WaitingIsBounded` | the pool of orphans, its ordered set, and, with one pair, the producer's list stay within their bounds |

### What the violations show

* **`finality_crash_reversal`.** `UpdateGlobalFinBlock` writes the finality
  block into the block cache; it reaches the disk with the next flush. A node
  killed in between has announced finality, forgets it, and at start-up
  reorganises to the heavier branch, although the code says "globalfinality
  block can't be reverse" (`main.cpp:1536`). The disk itself stays consistent:
  `DiskFinOnDiskChain` and `DiskFinAdvances` hold in `finality_crash`.
* **`finality_race`.** The steps of a confirm vote after `CheckPBFTMessage` read
  `chainActive` without `cs_main`. A reorganisation that has passed the finality
  walk can be reverting the very block that becomes locally final. Global
  finality survives, since it may only follow a local one that is on the chain
  at that moment (`GlobalFinBacked` in `finality_together`), and a stale local one blocks it.
* **`pool_includable`.** `CheckTxInMemPool` tests the range of heights at tip
  height plus one, `ConnectBlock` at the tip's. A transaction whose range begins
  with the next block enters the pool; the miner does not test it and makes a
  block that is rejected.
* **`price_startup`.** `AppInit` calls `ActivateBestChain` at `init.cpp:816` and
  loads the transaction cache at 819-833 and the price cache at 836. A block
  whose index entry is on disk but which was not connected when the process was
  killed is connected on empty caches: its median is found wrong and it is
  marked invalid on disk. The same order makes `NoReplay` false in `TxReplay`
  with `CrashAllowed = TRUE`: such a block may repeat a confirmed transaction.

`Agreement` says that only a node which dropped a local finality and voted again
can make two nodes finalise contradicting blocks. It does happen: with one faulty
delegate of four and one node whose local finality expires between the two
votes, TLC refutes the plain statement (without `Reneged`) in 11 steps. The 60
seconds of `ActivateBestChain` (`main.cpp:1526`) are thus what agreement rests
on: a node that finds no global finality within them counts as faulty.

Beside these, `OnlyTipVotes` (in `finality_relay`) documents a surprising fact
that the code does not mention: `msg.height - chainActive.Height()` is unsigned,
so a vote for any block below the tip is out of range and dropped. And
`RejectsOnlyAfterGap` says exactly when medians may disagree: when governance
makes the window longer, or a reorganisation reverts a change that made it
shorter, the blocks that come back into the window are not loaded, and a node
that restarts has prices that a running one lacks.

### Further disagreements the models show

Each of these definitions stands in its module, beside those that hold, and TLC
refutes it with the constants named here; no run is kept for them.

| Definition | Constants | What happens |
|---|---|---|
| `ForkCache!ForkLedgerRight` | `InitialDownload = TRUE` | `AddToBlockIndex` flushes the block cache after every block (`main.cpp:1639`) while `WriteChainState` leaves its flush and `mapForkCache.clear()` out: copies read values of the active branch through the database |
| `ForkCache!InvalidatedStaysOff` | blocks in `Disputed` | `nStatus \| BLOCK_FAILED_MASK` (`main.cpp:1795`) is never zero: the next child of an invalidated block clears its flag, although `invalidateblock` "Permanently marks a block as invalid" |
| `ForkCache!UnfailedAreCandidates` | the same | flags are cleared there without putting the blocks back among the candidates (`main.cpp:60`: "must contain those who aren't failed") |
| `ChainDisk!LedgerFollowsTip` | any, after a kill in a flush | `Flush` has no batch over the databases (`cachewrapper.cpp:261`): some are a block ahead of the best block after a kill and execute it again |
| the same | `InitialDownload = TRUE`, after a kill between blocks | the block database is flushed alone (`main.cpp:1639`): the best block on disk is ahead of every other database |
| `Delegates!ActiveHaveMinimum` | a minimum above a delegate's votes | no count at V3, and an empty count keeps the old list (`blockdelegates.cpp:109`), although `sysparams.h:94` says "the min votes of delegate to be bp" |
| `Delegates!ActiveIsFresh` without its second premise | `V35` reached after a count that found nobody with the minimum, and no vote since | everybody qualifies from then on and nobody counts: neither the last vote nor the size of the list has changed (`blockdelegates.cpp:109`) |
| `BlockDownload!NoDanglingEntry` | `RaceAllowed = TRUE` | `AddBlockToQueue` asks `count()` and then `operator[]` without `cs_mapNodeState` (`chainmessage.cpp:206`); when the socket thread takes the entry out in between, `operator[]` makes one with a null list position, which `MarkBlockAsReceived` erases. `node.h:84` says "protected by cs_main", which that thread does not take |
| `Orphans!PrunedHasNoDependents` | any | the victim may have a dependent that `setOrphanBlock` left out (`main.cpp:372`: "does not have any dependent orphans") |
| `Cdp!ScoinsAreOwed` | `R3 = TRUE` | coins minted for interest in a further stake are owed by nobody (`cdptx.cpp:345`) |
| `CdpSettle!InterestBecomesDebt` | two pairs | `count--` precedes the test for zero (`cdptx.cpp:1014`): the counter wraps, the list is refused for its size in every block, although `scoin.h:99` says "after 30 days, unpaid interest will be converted into debt" |
| `Governance!RatiosOrdered` | a proposal with two ratios | each is checked against the stored value of the other (`proposal.cpp:377`) |
| `Packing!ByPriority` | any fees | within a window of 1000 fees decide, so the settlement of interest, fee 0, is tried last (`miner.h:51`) |

### Bounds, and why they are enough

* *Finality:* two branches on a common root, one a block longer (7 blocks), three
  delegates, quorum two. Equal heights, a tie, an overtaking branch, a reverted
  quorum and a partial walk all occur. `LocalWindow = 2` and `GlobalWindow = 3`
  are shorter than the chains, so that windows cut. Four votes are a local and a
  global quorum; three suffice where the node casts the first of each itself.
  `Modulus` is 2^16 instead of 2^32: what matters is that it exceeds all heights.
  `SYMMETRY` exchanges delegates whose keys the node does not hold; the liveness
  run does not use it.
* *Several nodes:* three nodes and a faulty delegate, three votes of four: two
  quorums share the faulty one and one node, the least in which an honest node
  matters. One block against a branch of three, since a node that comes from the
  other branch has no list to count votes for the second block against and can
  count them for the third. Behaviours begin when both first blocks are out and
  each node has one as its tip: a block or vote that is late is the same as one
  that is not acted on. `MaxStale = 1` node drops a local finality; with the
  faulty delegate that is as many as contradicting blocks need.
* *Replay:* a cache of two blocks and chains of up to five (four with restarts),
  so that blocks leave the window, come back, and reorganisations go deeper than
  it. Transaction `a` is valid from genesis, `b` one later, so both ends of a
  range occur on every chain. One transaction in a block: transactions do not
  interact.
* *Caches:* two keys in two caches, one value and the empty one, two blocks of two
  transactions, two writes a block: a key written twice in a block, by one or two
  transactions, is the case the order of undoing is about.
* *Forks:* three branches, one of them invalid at its end; a block key that is
  flushed alone and an account key; both branches' first blocks can be
  invalidated. *Databases:* four, two before the block database and one after.
* *Prices:* one feeder, two prices whose mean is neither, windows of one to three
  blocks on chains of five: shorter than, as long as and close to the chain.
* *Votes:* two voters, three candidates of which one registers late, all three forks within six blocks; for
  the lists eighteen blocks, V3 at 4 and V35 at 12, with intervals and delay of two:
  the two intervals and the delay `ActiveIsFresh` asks for pass between the two
  forks, and after V35. Two transactions: a vote and a change of the minimum or of
  the number of delegates.
* *Production:* turns of one and of two intervals, three delegates at most, lists
  that change at two heights in a row. *Packing:* four transactions of which one
  needs another, every order of the hashes that can matter, limits that the four
  exceed together.
* *Download:* two peers, two blocks, one slot per peer, with the race as without
  it. *Orphans:* two chains of
  four, one refused block, room for two (and the one more that the code allows).
* *Debt:* two users, three positions in two pairs, prices at which pairs lock,
  liquidate, and close by force; a reserve that pays for some of them only.
  *Interest:* one pair with a position more than a list holds; two pairs, each with
  as many as a list holds, and a counter of four bits instead of 32.
* *Governance:* three proposals side by side, four accounts, one expiry, the
  governors growing from one to two while a proposal is open. The ids of proposals
  are exchanged by `SYMMETRY`; nothing in the suite orders them.
* *Exchange:* three orders, prices in halves and amounts to six, so that every deal
  rounds; `RatioBoost = 4`, so that fees round too.

`CHECK_DEADLOCK FALSE` is set where the system may stop: in the finality runs and
in `liveness` blocks and votes may run out, in `node` blocks and commands, in
`production` and `money` heights, votes, orders and proposals are bounded.

Every property of a passing run has a mutant of the code, in the same modules
and marked so, that breaks it (`PROJECT.json`, `mutants`).

### Fairness

* `FinalityNode`: weak fairness on the chain thread's actions, which holds
  `cs_main` and is not blocked by another thread. Nothing is assumed of peers,
  votes, timers or restarts.
* `BlockDownload`: a step of the message thread that has begun ends (weak). Strong,
  because other peers' steps disable them again and again: a timeout passes at a
  moment when no announcement is being handled; an honest peer's queue is sent
  before it is robbed (polls are tenths of a second apart, timeouts seconds); an
  honest peer answers, and announces a block that is not being fetched, since
  every new block makes the node send getblocks. Without an honest peer nothing is
  promised.
* `Orphans`: weak fairness on the arrival of every block: peers have every block
  and send it as often as the node's getblocks leads them to.
* `CdpSettle`: blocks in which nobody closes a position are produced (weak), with
  one pair and with two.
* `Packing`: the producer goes on (weak); no fairness of arrivals.

## 5. Proofs

All theorems hold for every value of the constants that the named assumptions
allow, and the runs evaluate those assumptions on their instances. A hypothesis
beyond them is named with the theorem; each is one a node can meet, and the runs
show what happens when it does not hold. Lemmas stand before the theorems that
need them, one per action where an invariant is carried over a step.

**FinalityNodeProofs.** `IInv` adds to the two properties on chains: `Alternate`
(a vote is handled only between blocks), `MessageCounted` (a vote on its way to
an update was counted on the active chain), `TargetKeepsFin` (past the walk, the
target holds both final blocks: this is what carries finality through a
reorganisation in several steps), `CacheCurrent` and `DiskFinBehind` (memory,
cache and disk in order), `MinersAboveFin` (after a restart, when the guards of
`UpdateGlobalFinBlock` know no finality, a block with a recorded miner list is
above the persisted one).

* For `~Concurrent` (blocks come through the message thread), kills included:
  `LocalFinalityOnChain`, `GlobalFinalityOnChain`, `DiskIsConsistent`,
  `PersistedFinalityAdvances`, and without kills also `FinalityIrreversible`.
  With other threads the first is false, which is what `finality_race` shows.
* `LocalFinalityBacked` and `GlobalFinalityBacked`: what is final has a quorum of
  its own miners. The code takes the threshold from the tip's list and counts the
  ancestor's (`pbftmanager.cpp:123`), so these need `OneSize`: the lists all have
  the same number of miners, which the number of delegates is while governance
  leaves it alone. `UpdateBacked` carries the quorum from the count of a vote to
  its update, `OneThreshold` takes the tip's threshold to be the ancestor's.
* `OwnVotesOnOneChain` adds to that what the node itself has voted for
  and when (`ConfirmedIsFinal`, `SavedVote` in `VInv`), for a process that is not
  killed, since no record of votes survives.
* `TypeCorrect` and `VotesOnlyForTip` hold for every interleaving of the threads
  and every kill. The second asks that heights stay below the modulus of the
  unsigned subtraction by more than the slack: heights are `int32_t`, so they do.

`BlockTreeAssumption` states the facts on trees that would follow by induction
over a tree; TLC evaluates it on every instance.

**ForkProofs**, on finality. `NetInvariance`, for any number of nodes and faulty
delegates: each node's index holds whole chains, what it counts was cast, and
until it drops a local finality, the blocks it has voted final and the blocks it
has a confirm quorum for are on the chain of its locally final block (`Keeps`);
every final block has a quorum of finality votes (`Supported`). From there
`FinalBlocksAgree`: two quorums of more than two thirds share a delegate that is
not faulty when less than a third are, and that one's blocks are on one chain
unless it has reneged. `FinalBlocksAgreeStrictly` drops the "unless" and counts
the nodes whose local finality may expire (`MaxStale`) with the faulty ones: the
60 seconds of `ActivateBestChain` cost agreement exactly that.

**ForkProofs**, on ledger copies. `ForksAlwaysJudgedRight` is `ForksAreJudgedRight`
for every tree, whatever is written, invalid or invalidated. `ConnectedReads` and
`DisconnectedReads` say that a copy that reads as the replay of one chain still
does so after blocks are connected on it or taken off; `StateWritten`, that a flush
changes no reading. `ForkInv` adds to the promises that every record the index
knows of is right, also off the active chain (`RecordsRight`): a copy that is
stale in initial download makes `ProcessForkedChain` write wrong ones, but the
reset of `nStatus` forgets them in the same step, and `ForkProcessed` shows that
none of those blocks is on the active chain. `Flushed` (outside initial download
nothing stays above the databases) is why the flush of the block cache alone is
harmless there. `BestFound` is the order of `CBlockIndexWorkComparator`: heights
do not exceed positions in the index, so there is a best candidate. The last part
of the property has the hypothesis `Disputed = {}`, no operator's commands: then
every flag stands for an invalid block (`Candidates`), and what `ProcessForkedChain`
clears was never set. With commands it does not hold between them, for the reason
`UnfailedAreCandidates` is violated. The theorem is about `ForkCache`'s definition;
`MCNode`'s of the same name is that formula of its two instances.

**TxReplayProofs.**
`IInv == TypeOK /\ ValidChain /\ Unrepeated /\ Covers /\ PoolUnconfirmed`.
`NoReplay` is not inductive: that a block does not repeat a transaction depends
on the cache covering its window (`Covers`), and on every confirmed transaction
having been in its range when it was included (`ValidChain`). The central lemma
`FreshIsNew` puts the two together: a transaction valid at this height that is
confirmed at all was confirmed in the last `TxCacheHeight` blocks, because half
the range, twice, is no more than the cache's length; so it is in the cache.
`Disconnected` and `Connected` show what the cache covers after each step.
Results: `NeverReplayed`, `CacheComplete`, `PoolNeverConfirmed` under
`~CrashAllowed` (with restarts the first two are false or empty during
start-up), and without assumption `TypeCorrect`, `CacheNeverStale`,
`RestartIsExact`; the last needs `CacheWithin`, that an unloaded cache stays
inside the window.

**NodeProofs**, on caches. `Reads` turns a read, which copies as it goes, into what the
layers hold from the top down; with it no copy and no flush changes a read.
`CacheInv` is `UndoLeadsBack` with `InOrder`, that the transactions of a log run
one after the other: undoing the last transaction, its caches in any order, then
always undoes the last write of a key, and what is left of the log leads back to
the same value. Results: `LayersUndo` (the undo data of a block leads back from
every moment of it, block below block), and `LayersImplementStore`: the
refinement. Each action is shown to be a step of `KVStore` or to leave its state
alone; `EndDisconnect` is `Revert` because the log has led back.

**NodeProofs**, on disks. `DiskInv` has the block each cache and database may be
at by where the flush is (`CachesAtTip`, `DisksFollow`), that every block the node
calls its best has undo data down to genesis (`AllUsable`), and that the index is
closed (`IndexClosed`). `RestartsConsistent` needs no hypothesis on kills: that a
kill fell in a flush, or after one left out, is part of the state (`torn`), and
the best block is usable even then.

**NodeProofs**, on block download. `Queue` is a list without repetition; `Erased`,
`Pushed`, `Parted`, `Joined` say what erasing, appending, splitting and joining do
to one. `Fetching` says of a map and the lists that every list has exactly the
blocks of its peer's entries, each once: stronger than `Mirrors`, and each of the
operations on maps is one lemma (`Received`, `Queued`, `Taken`, `InFlight`,
`Finalized`, `Aged`, `TouchedIsThere`). `ThreadHeld` is what `AddBlockToQueue`
carries from its unlocked reads to its lock: the block is still unknown, the peer
still there, and an entry it has counted is there when it is read. Result:
`QueuesKept`, for `~RaceAllowed`. With the race the entry may be gone, and
`NoDanglingEntry` is refuted by TLC, and what is left of `QueuesAgree` is `RaceIsConfined` (run `node`).

**NodeProofs**, on orphans. `PoolInv` adds to `OrphansAgree` that the pool is finite
and the genesis block indexed. That no orphan's parent is indexed is kept because
`Drained` takes out with a block everything that waits for it at any distance, as
far as a refused block (`AcceptHolds`); that the ordered set has an element while
the pool is full, because every insertion leaves one in it (`KeepHolds`) and a block
accepted either leaves the pool as it is or leaves room in it. The highest element and the root of a chain of
orphans are `CHOOSE`n: `HighestIsThere` and `RootIsThere` show that there is one,
each by a least counterexample. Result: `OrphansKept`.

**PriceWindowProofs**, without assumption on restarts or windows.
`IInv == Shape /\ PricesOnChain /\ WindowComplete`. Each half needs the other's
first step: `PricesOnChain` makes the next block's height empty, so none of its
feeds is refused, and lets a block that returns to the window find its own feeds
or none, so that merging equals loading; `WindowComplete` then follows for the
block that is pushed or undone. `Pushed`, `Deleted`, `Refilled` are lemmas on the
two layers. Results: `CacheNeverAhead`, `WindowKept`, and `MediansAgree`: a loaded
node whose window has not grown accepts every block whose median follows from the
chain, since the median depends on the window's feeds only and `SeenOwn` shows
which ones the block's own transaction sees. `MediansAreBounded` is about the
median itself: with finitely many feeders every list of prices has a k-th
smallest (`RankedIsPrice`, by a least counterexample), so the median is 0 or
between two prices fed, and whole.

**ProducerProofs**, on producers. First comes `ShuffleDelegates`. The fold it is made of
is the choice of a function that satisfies a recursive equation; that there is
one, and what it keeps, is shown set by set with a least counterexample. So the
list stays a list of the same delegates, none twice, whatever is drawn. The
invariant is `Lawful` (the blocks of the chain, and of the chain the thread has
looked at, are an interval apart and made in their turns) and `Working` (what the
thread carries from one unlocked step to the next: the chain has not become
shorter than the one it looked at, and is the same if it has that length; the time
it read is one a block may have; the delegate it was given has that turn). Result:
`ProducersKeepTurns`.

**ProducerProofs**, on turns that are tried. `TriedInv` adds what the thread leaves
behind when it puts a slot off: it sleeps in a turn of its own only if it has tried
it or waits for a slot further on (`Rested`), and whatever interval that slot passes
over ends in somebody else's turn (`Skipped`). The turn is asked for at one second
of an interval and waited out at the last; `TurnOfInterval` says that all seconds
and heights have the same answer, which needs `OneList`: the lists of all heights are the
same. With a list that changes a slot may be put off by the turns of the old
one. Result: `TurnsAreTried`.

**ProducerProofs**, on votes. `VotesInv` is `VotesAgree` with the types it needs. A vote
transaction folds its votes twice, over what the voter has given and over what the
candidates and the index have; both folds are unfolded into sequences of states
(`VoteSteps`), and `Together` says that after every vote the two have moved by the
same amounts, and that a registered candidate that was in the index or whose votes have
changed is in it. So no entry is left behind when a candidate is named twice.
`StillListed` covers the steps that change no votes. That no more is locked than there are coins, and that a total counts no
candidate twice, are sums (`TotalIsEnough`). A revocation leaves a voter his largest vote, whose sum
and whose maximum are the same number (`TotalOfOne`, `TotalOfLargest`): the rule
may change in the next block without moving a coin (`RevocationKeeps`). Results:
`VotesAlwaysAgree`; `ElectionsAlwaysSeeVotes`, the step property
`CandidatesStayListed` from the same invariant; and `DelegatesStayActive`: a count that finds nobody leaves the
list it found, and a list once active has been pending with somebody in it.

**ProducerProofs**, on lists. `ListsAreFresh` says that what the votes have given long
enough is active; `ListsInv` is what makes it inductive. A waiting list waits less than
the delay, and otherwise the active list is the one counted last (`WaitIsShort`). What
was counted last is a list of some length of the index as it is, if nobody has voted
since, and is the top list if that is as old as the count (`CountIsTop`). So a slot is
skipped only when nothing would come of it: the list counted last has the wanted length, and
the lists of one length are the same list (`LeadersByNumber`), since who leads the
index is a matter of how many are ahead of him (`MoreAhead`, `LeadersLead`); nor does
somebody lead one length of list and nobody another (`NobodyLeads`).
`ChangesTakeEffect` then bounds how long a list may have been on top without being
active: to the end of the slot, and one interval and the delay more while another list waits,
provided that the delay is no longer than the interval (both are 100,
`config/const.h:225`). Before V3, and from V35 until the next vote, it says nothing.
Result: `ListsAlwaysFresh`.

**ProducerProofs**, on packing. The comparison of the code is no ordering; `Precedes`
is one: by class of priority (those of `scoin.h` are in three classes further apart
than the window), then fee, then hash. `New` says when a transaction compares with
one that is there as `Precedes` does, either way round: they are of two classes, it
has the higher hash, or it pays nothing. What the pool gives is new because its
hashes ascend (`PoolIsNew`), the median because it is a class of its own, the
settlement because it has no fee (`OwnAreNew`). A new transaction finds one place in
whatever tree (`OneGap`) and leaves the set in order (`EmplacedInOrder`). `BlockInv`
says that the block is in the opposite order and above all of the set, within the
limits, with what it needs; so feeds come before the median. That the rescan decides
of every transaction is shown by the highest hash (`ReScanIsPart`). Result:
`PackedBlocksAlwaysStand`.

**SumTheorems.** A sum over a finite set is the choice of a recursive function,
which is unfolded by induction over sets of subsets, in first-order form: it
exists, it does not depend on the order, and a change of one or of two entries
changes it by that much (`SumTwoAndRest`, `SumAtLeast`, `SumOnlyOne`). The same for
a fold over a sequence (`FoldExists`) and for the largest of a finite set.

**MoneyProofs.** Each movement of money is a change of two entries with total
zero, and rounding down is superadditive (`FloorAdds`). `OrdersInv` is `OperatorsInv`
(the map of owners, and the fees), that amounts are naturals (`IsMoney`), that
active orders are numbered, have something to deal and are `Covered` (`GoodBook`),
that what is frozen of an account is the sum of the claims of its active orders
(`Backs`), and that coins are conserved (`Balanced`). `Covered` is about limit buys
dealt in rounded parts: no more was paid than the limit price of what was got, and
what was paid together with the limit price of the rest, rounded down, is within
what was frozen. Rounding down being superadditive (`FloorAdds`), this survives
every partial deal. Results: `OperatorsAreFound`,
`OrdersAreBacked`, `ExchangeKeepsBalances`.

**MoneyProofs**, on proposals. `GovernanceInv` keeps apart what proposals set
(`EffectsInv`) and what is stored of them (`Stored`: `EntryKept` for each), and
joins the two by sums and records: the supply is the sum of what each proposal
has added (`Flows`: nothing before the approval that completes the number), and
who has been minted for is on record (`MintsOnRecord`). Each kind of proposal has
a lemma; `SwapInKept` adds up approvers, gateway and receiver, of whom one account
may be all three, to the amount minted, and `FeesAreShared` that no part of it is
negative. `FlowsAreAmounts` needs that every approval of a swap out has its
signature: then what enough have signed for is what was executed. Result:
`ProposalsAlwaysActRight`, under `SingleRatios`, that no proposal changes two
ratios; `OneIsSet` is the fold of one. A proposal of two may leave them unordered,
as said above.

**MoneyProofs**, on debt positions. The five places of `CCdpDBCache` are one function
of the set of positions (`StoreOf`), and each operation on the store is that function
of the set it leaves; so `CdpInv` is about a set. Its parts are that the set has
one position for each id and for each owner and pair (`PositionSet`), types, that what
is pledged of an account is what its positions hold (`Backed`), that coins are
conserved, that no debt is without collateral, and, before R3, `ScoinsAreOwed`. Redemption
and partial liquidation round down; `QuoteCovers` says that what a liquidator pays
is no less than the debt, which is what `CdpAssumption` asks of the ratios
(`CheckCdpParam` keeps them so), and `RatioBound` that a part of an amount is no
more than it. Forced liquidation is a fold over pairs. `FirstFit` and `PairTakes` show what
is taken of a pair: all positions up to one in the order of the index, no more than
the reserve pays for or what is left of the limit; `ClosedOnePairMore` and `LoopEnds`
carry that over the pairs. What the closed positions release is summed by owner and by position;
`UsersAdd` counts it both ways, so that it is what the reserve puts on sale. Results:
`PositionsStayBacked` and `LiquidationsStayInOrder`.

### Only model-checked

* Liveness and `ENABLED`, out of the proof system's reach: the temporal
  properties of `MCLiveness`. The half of its `WaitingIsBounded` about `CdpSettle` is
  not proved. The two halves of
  `ProducersGoOn` are, the one about turns under `OneList`.
* Under `Concurrent = TRUE`: `GlobalFinBacked` (`finality_together`); everything
  else on chains is proved without other threads and false, or meaningless, with
  them.
* `RestartedCacheRestored` is `RestartRestoresCache` of an instance of `TxReplay`;
  the theorem on it (`RestartIsExact`) is about the module itself.
* `CdpSettle`, with one pair and with two, and `BlockDownload` with `RaceAllowed`
  (`RaceIsConfined`).

The `TypeOK` of `FinalityNode`, `TxReplay`, `FinalityNet`, `PriceWindow`, `KVCache`,
`ChainPersist`, `Producer` and `DexOrders` are proved and in no run.

## 6. What is left out

* Data races on `chainActive`'s vector in the unlocked reads of the message
  thread: `FinalityNode` takes each such read as atomic. Initial download is in
  `ForkCache` and `ChainPersist` only.
* The stores of votes and miner lists keep 500 entries (`pbftlimitmap.h:56`);
  `FinalityNode` has no limit, its chains being shorter.
* Heights in `TxReplay` and `PriceWindow` come from arbitrary branches, which is
  more than fork choice allows; a property that holds here holds there. The
  violations found do not depend on it: they use one branch and no
  reorganisation.
* Delegate lists may differ per block in `FinalityNode` and in the proofs; the
  runs use one list.
* Feeds behind other transactions in a block (`pricefeeddb.cpp:170`, `:185`).
* Reindex and import; fees, fuel and rewards of transactions, except where a
  module names them.
