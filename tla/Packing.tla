------------------------------ MODULE Packing ------------------------------
(***************************************************************************)
(* What a delegate packs into its block, and in which order.               *)
(*                                                                         *)
(* The transactions of the memory pool are put into a std::set ordered by  *)
(* TxPriority::operator<, which is no ordering: within a window of         *)
(* priorities, a is less than b when its fee is lower or else its hash is, *)
(* and both a < b and b < a may hold.  Where std::set puts an element, and *)
(* whether it takes it, may then depend on the tree it has built so far.   *)
(* The model does not build trees: Gaps has every place some tree gives.   *)
(*                                                                         *)
(* The set is packed from its end.  Each transaction is executed on a      *)
(* cache of its own, which is flushed into the cache of the block only     *)
(* when the transaction is taken.  cs_main and the pool are locked all     *)
(* along, so transactions arrive only between two blocks.  Every new tip   *)
(* makes the pool execute what it has again.                               *)
(***************************************************************************)
EXTENDS Integers, Sequences, SequencesExt, FiniteSets, Functions

CONSTANTS
  Tx,          \* the transactions that may enter the pool
  Median,      \* CBlockPriceMedianTx of the block
  Settle,      \* CCDPInterestForceSettleTx of the block
  Priority,    \* GetPriority of each
  FeePerKb,    \* fees without fuel, by size
  Size,        \* GetSerializeSize
  Fuel,        \* fuel burnt by the execution
  Needs,       \* transactions without which a transaction fails
  Hashes,      \* the possible orders of the transactions' hashes
  MaxSize,     \* nBlockMaxSize, less the block's header and reward
  MaxFuel,     \* MAX_BLOCK_FUEL
  TimeLimit    \* -isminingtimelimit

All == Tx \cup {Median, Settle}

(* fabs(priority - other.priority) <= 1000                                  *)
Window == 1000

(* Priorities are those of scoin.h: a price feed's, or less than a ceiling; *)
(* the transactions of the block itself pay no fee.                         *)
PackingAssumption ==
  /\ IsFiniteSet(Tx) /\ Median \notin Tx /\ Settle \notin Tx /\ Median # Settle
  /\ Needs \in [Tx -> SUBSET Tx]
  /\ {Priority, FeePerKb, Size, Fuel} \subseteq [All -> Nat]
  /\ \A t \in Tx : Priority[t] \in 0..1000 \/ Priority[t] = 20000
  /\ Priority[Median] = 10000 /\ Priority[Settle] = 1000
  /\ FeePerKb[Median] = 0 /\ FeePerKb[Settle] = 0
  /\ Hashes \subseteq {h \in [All -> Nat] : IsInjective(h)}
  /\ MaxSize \in Nat \ {0} /\ MaxFuel \in Nat \ {0} /\ TimeLimit \in BOOLEAN

VARIABLES
  hash,       \* the hash of each transaction, as a rank
  pool,       \* memPoolTxs
  confirmed,  \* transactions of earlier blocks
  phase,      \* "idle", "collect", "median", "settle", "pack"
  todo,       \* of the pool, not yet put into the set
  order,      \* txPriorities, in its order
  block,      \* vptx after the reward
  rejected     \* the last block was not proposed

packingVars == <<hash, pool, confirmed, phase, todo, order, block, rejected>>

Near(a, b) == Priority[a] - Priority[b] \in -Window..Window

(* TxPriority::operator<                                                    *)
Less(a, b) ==
  IF Near(a, b)
    THEN FeePerKb[a] < FeePerKb[b] \/ hash[a] < hash[b]
    ELSE Priority[a] < Priority[b]

(* The places where a search from the root of some tree over order may end. *)
Gaps(x) ==
  {g \in 0..Len(order) : /\ g > 0 => ~Less(x, order[g])
                         /\ g < Len(order) => Less(x, order[g + 1])}

(* emplace: the element before the place decides whether x is a new one.    *)
Emplaced(x) ==
  {IF g = 0 \/ Less(order[g], x) THEN InsertAt(order, g + 1, x) ELSE order : g \in Gaps(x)}

(* Mutant: the pool is walked in no particular order.                       *)
AnyOf(set) == set

(* memPoolTxs is a map by hash: the lowest hash comes first.                *)
FirstOf(set) == {t \in set : \A u \in set : hash[t] <= hash[u]}

SumOver(f, s) == SumFunctionOnSet([i \in DOMAIN s |-> f[s[i]]], DOMAIN s)

PackingInit ==
  /\ hash \in Hashes
  /\ pool = {} /\ confirmed = {}
  /\ phase = "idle" /\ todo = {} /\ order = <<>> /\ block = <<>>
  /\ rejected = FALSE
-----------------------------------------------------------------------------
(* A transaction enters the pool when it executes over what is in it.       *)
Submit(t) ==
  /\ phase = "idle" /\ t \notin pool \cup confirmed
  /\ Needs[t] \subseteq pool \cup confirmed
  /\ pool' = pool \cup {t}
  /\ UNCHANGED <<hash, confirmed, phase, todo, order, block, rejected>>

Begin ==
  /\ phase = "idle"
  /\ phase' = "collect" /\ todo' = pool \ confirmed
  /\ order' = <<>> /\ block' = <<>>
  /\ UNCHANGED <<hash, pool, confirmed, rejected>>

(* GetPriorityTx                                                            *)
Collect ==
  /\ phase = "collect"
  /\ \/ /\ todo = {} /\ phase' = "median" /\ UNCHANGED <<todo, order>>
     \/ /\ \E t \in FirstOf(todo) : todo' = todo \ {t} /\ order' \in Emplaced(t)
        /\ UNCHANGED phase
  /\ UNCHANGED <<hash, pool, confirmed, block, rejected>>

PushMedian ==
  /\ phase = "median"
  /\ order' \in Emplaced(Median)
  /\ phase' = "settle"
  /\ UNCHANGED <<hash, pool, confirmed, todo, block, rejected>>

(* Only when there are CDPs to settle.                                      *)
PushSettle ==
  /\ phase = "settle"
  /\ order' \in Emplaced(Settle) \cup {order}
  /\ phase' = "pack"
  /\ UNCHANGED <<hash, pool, confirmed, todo, block, rejected>>

(* CheckAndExecuteTx on a cache over what the block has flushed so far.     *)
Executes(t) == t \in Tx => Needs[t] \subseteq confirmed \cup Range(block)

Fits(t) ==
  /\ SumOver(Size, block) + Size[t] < MaxSize
  /\ Executes(t)
  /\ SumOver(Fuel, block) + Fuel[t] < MaxFuel

(* Mutant: the first transaction that does not fit ends the block.          *)
NothingAfter(rest) == <<>>

(* One that does not fit is passed over.                                    *)
AfterMisfit(rest) == rest

Pack ==
  /\ phase = "pack" /\ order # <<>>
  /\ IF Fits(Last(order))
       THEN block' = Append(block, Last(order)) /\ order' = Front(order)
       ELSE block' = block /\ order' = AfterMisfit(Front(order))
  /\ UNCHANGED <<hash, pool, confirmed, phase, todo, rejected>>

(* CheckPackBlockTime: the rest is left for a later block.                  *)
TimeUp ==
  /\ TimeLimit /\ phase = "pack" /\ order # <<>>
  /\ order' = <<>>
  /\ UNCHANGED <<hash, pool, confirmed, phase, todo, block, rejected>>

(* CheckWork: a block without a median is not proposed.                     *)
CheckWork(b) == Median \in Range(b)

LeftInPool(b) == pool \ Range(b)

(* ReScanMemPoolTx executes what is left anew, the lowest hash first, and   *)
(* drops what fails: a transaction, too, that comes before one it needs.    *)
ReScan(left, conf) ==
  CHOOSE kept \in SUBSET left :
    \A t \in left :
      t \in kept <=> Needs[t] \subseteq conf \cup {u \in kept : hash[u] < hash[t]}

(* ProcessBlock connects the block; its transactions leave the pool.        *)
Finish ==
  /\ phase = "pack" /\ order = <<>>
  /\ phase' = "idle"
  /\ IF CheckWork(block)
       THEN /\ confirmed' = confirmed \cup (Range(block) \ {Median, Settle})
            /\ pool' = ReScan(LeftInPool(block), confirmed')
            /\ rejected' = FALSE
       ELSE rejected' = TRUE /\ UNCHANGED <<confirmed, pool>>
  /\ UNCHANGED <<hash, todo, order, block>>

(* A block of another delegate, which has packed some of the pool.          *)
Foreign ==
  /\ phase = "idle"
  /\ \E s \in (SUBSET pool) \ {{}} :
       /\ \A t \in s : Needs[t] \subseteq confirmed \cup s
       /\ confirmed' = confirmed \cup s
       /\ pool' = ReScan(pool \ s, confirmed')
  /\ block' = <<>> /\ rejected' = FALSE
  /\ UNCHANGED <<hash, phase, todo, order>>

PackBlock == Begin \/ Collect \/ PushMedian \/ PushSettle \/ Pack \/ Finish

PackingNext == PackBlock \/ TimeUp \/ Foreign \/ \E t \in Tx : Submit(t)

PackingSpec == PackingInit /\ [][PackingNext]_packingVars

(* A delegate goes on producing.                                            *)
PackingFairSpec == PackingSpec /\ WF_packingVars(PackBlock)
-----------------------------------------------------------------------------
(* Types; no transaction waits in the pool that a block of the chain has.    *)
PackingTypeOK ==
  /\ hash \in Hashes /\ pool \subseteq Tx /\ confirmed \subseteq Tx
  /\ todo \subseteq pool /\ pool \cap confirmed = {}
  /\ phase \in {"idle", "collect", "median", "settle", "pack"}
  /\ order \in Seq(All) /\ block \in Seq(All) /\ rejected \in BOOLEAN

(* The comparison is no ordering, but by ascending hash it puts every       *)
(* transaction in one place whatever the tree, and drops none.              *)
Certain(x) == Cardinality(Gaps(x)) = 1 /\ \A o \in Emplaced(x) : x \in Range(o)

PlacesAreCertain ==
  /\ phase = "collect" => \A t \in FirstOf(todo) : Certain(t)
  /\ phase = "median" => Certain(Median)
  /\ phase = "settle" => Certain(Settle)

(* Transactions of one class wait in the order of their fees: none with a   *)
(* lower fee is tried before one with a higher.                             *)
DearerFirst ==
  \A i, j \in DOMAIN order :
    (i < j /\ Near(order[i], order[j])) => FeePerKb[order[i]] <= FeePerKb[order[j]]

(* A proposed block stands the checks of other nodes: it is within the      *)
(* limits, has one median, and every price fed in it is fed before that.    *)
ProposedBlockIsValid ==
  (phase = "idle" /\ block # <<>> /\ ~rejected) =>
    /\ SumOver(Size, block) < MaxSize /\ SumOver(Fuel, block) < MaxFuel
    /\ IsInjective(block)
    /\ \E m \in DOMAIN block :
         /\ block[m] = Median
         /\ \A i \in DOMAIN block : Priority[block[i]] > Priority[Median] => i < m
    /\ \A i \in DOMAIN block :
         block[i] \in Tx => Needs[block[i]] \subseteq confirmed

(* Without a limit of time no transaction waits for ever, not even one that *)
(* is tried before the one it needs: it gets into a block or, only if it    *)
(* needs another that is not in a block yet, is dropped by a rescan.        *)
EveryTxIsPacked ==
  \A t \in Tx : t \in pool ~> t \in confirmed \/ (Needs[t] # {} /\ t \notin pool)

(* What a delegate packs: places in the set are certain, dearer ones are    *)
(* tried first, and the block stands the checks of other nodes.             *)
PackedBlocksStand ==
  PackingTypeOK /\ PlacesAreCertain /\ DearerFirst /\ ProposedBlockIsValid

(* "Sort transactions by priority and fee to decide priority orders to      *)
(* process transactions": one of higher priority is tried first.            *)
ByPriority ==
  \A i, j \in DOMAIN order : i < j => Priority[order[i]] <= Priority[order[j]]
=============================================================================
