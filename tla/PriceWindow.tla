---------------------------- MODULE PriceWindow ----------------------------
(***************************************************************************)
(* The price feed window.  Delegates feed prices, every block carries the  *)
(* median of the prices of the last blocks, and a node that computes       *)
(* another median rejects the block.  The prices are kept in memory only,  *)
(* in CPricePointMemCache: pushed and undone block by block under cs_main, *)
(* loaded from the last blocks by AppInit.  The number of blocks is a      *)
(* system parameter that governance may change.                            *)
(*                                                                         *)
(* One coin pair is modelled, pairs do not interact.  Price feeds lead the *)
(* block, where the miner's order puts them, and the median transaction    *)
(* follows them, ahead of a transaction that changes the parameter.  Which *)
(* chain is activated is left open.                                        *)
(***************************************************************************)
EXTENDS Integers, FiniteSets, Sequences, SequencesExt

CONSTANTS
  Feeder,         \* delegates that feed prices, named by CRegID
  Price,          \* the prices they feed
  Window,         \* values of MEDIAN_PRICE_SLIDE_WINDOW_BLOCKCOUNT
  InitialWindow,  \* its value in the genesis block
  CrashAllowed,   \* TRUE: the process may be killed and restarted
  MaxHeight       \* bound on the height of a chain

(* The range of the parameter is 1 .. 1000, and CheckTx refuses price 0. *)
ASSUME PriceAssumption ==
  /\ IsFiniteSet(Feeder)
  /\ Price \subseteq Nat \ {0}
  /\ Window \subseteq Nat \ {0}
  /\ InitialWindow \in Window
  /\ CrashAllowed \in BOOLEAN
  /\ MaxHeight \in Nat

VARIABLES
  chain,    \* chainActive above genesis
  prices,   \* pCdMan->pPpCache: the feeds it holds for each height
  loaded,   \* AppInit has called ReleadBlocks
  gap,      \* the window has grown since the cache was loaded
  rejected  \* a block with the right median was marked invalid

vars == <<chain, prices, loaded, gap, rejected>>

Heights == 1 .. MaxHeight

Feeds == SUBSET (Feeder \X Price)

(* A feeder feeds once in a block: AddPrice, "duplicated-pricefeed". *)
BlockFeeds == {F \in Feeds : \A x, y \in F : x[1] = y[1] => x = y}

(* A block: its feeds, its median price, the parameter when it is executed. *)
Block == [feeds : Feeds, median : Nat, window : Window]

TypeOK ==
  /\ chain \in Seq(Block)
  /\ Len(chain) <= MaxHeight
  /\ \A k \in DOMAIN chain :
       \/ chain[k].median = 0
       \/ \E p, q \in Price : p <= chain[k].median /\ chain[k].median <= q
  /\ prices \in [Heights -> Feeds]
  /\ loaded \in BOOLEAN
  /\ gap \in BOOLEAN
  /\ rejected \in BOOLEAN

Height == Len(chain)

(* MEDIAN_PRICE_SLIDE_WINDOW_BLOCKCOUNT and the median after chain c. *)
WindowOf(c) == IF c = <<>> THEN InitialWindow ELSE Last(c).window
MedianOf(c) == IF c = <<>> THEN 0 ELSE Last(c).median

-----------------------------------------------------------------------------
(* The median. *)

(* The k-th smallest price of the entries S, triples height, feeder, price. *)
Ranked(S, k) ==
  CHOOSE p \in Price :
    /\ Cardinality({e \in S : e[3] < p}) < k
    /\ Cardinality({e \in S : e[3] <= p}) >= k

(* The mean of the two middle prices, which are one if S is odd. *)
ComputeMedianNumber(S) ==
  LET n == Cardinality(S)
  IN  (Ranked(S, (n + 1) \div 2) + Ranked(S, n \div 2 + 1)) \div 2

(* The entries of the w heights up to h of ps, which maps heights to feeds. *)
InWindow(ps, h, w) ==
  {e \in Heights \X Feeder \X Price :
     h - w < e[1] /\ e[1] <= h /\ <<e[2], e[3]>> \in ps[e[1]]}

(* The median for height h; without prices the last one is used again. *)
GetMedianPrice(ps, h, w, last) ==
  LET S == InWindow(ps, h, w)
  IN  IF S = {} THEN last ELSE ComputeMedianNumber(S)

(* The feeds of chain c and of a block above it, by height. *)
ChainPrices(c, feeds) ==
  [k \in Heights |->
     IF k \in DOMAIN c THEN c[k].feeds
     ELSE IF k = Len(c) + 1 THEN feeds ELSE {}]

(* The next block, as the chain determines it. *)
NextBlock(feeds, w) ==
  [feeds  |-> feeds,
   median |-> GetMedianPrice(ChainPrices(chain, feeds), Height + 1,
                             WindowOf(chain), MedianOf(chain)),
   window |-> w]

-----------------------------------------------------------------------------
(* The two layers of the cache.  A block's overlay holds some heights only; *)
(* a height it holds without feeds is to be deleted.                       *)

Users(F) == {x[1] : x \in F}

NoOverlay == [k \in {} |-> {}]

With(over, h, F) ==
  [k \in DOMAIN over \cup {h} |-> IF k = h THEN F ELSE over[k]]

(* GetBlockUserPrices: a height of the overlay hides the one below. *)
Seen(over, base) ==
  [k \in Heights |-> IF k \in DOMAIN over THEN over[k] ELSE base[k]]

(* The feeds F at height h without those AddPrice refuses: a deleted height *)
(* of the overlay does not hide the one below (ExistBlockUserPrice).       *)
NewFeeds(over, base, h, F) ==
  {x \in F : x[1] \notin Users(Seen(over, base)[h]) \cup Users(base[h])}

AddPrice(over, base, h, F) ==
  LET new == NewFeeds(over, base, h, F)
  IN  IF new = {} THEN over
      ELSE With(over, h, IF h \in DOMAIN over THEN over[h] \cup new ELSE new)

(* DeleteBlockFromCache: the height is emptied for the pairs the block     *)
(* feeds and for those the overlay knows.                                  *)
DeleteBlock(over, h, F) ==
  IF F = {} /\ DOMAIN over = {} THEN over ELSE With(over, h, {})

(* BatchWrite: a deleted height is erased below, an added feed does not    *)
(* replace one that is there.                                              *)
BatchWrite(base, over) ==
  [k \in Heights |->
     IF k \notin DOMAIN over THEN base[k]
     ELSE IF over[k] = {} THEN {}
     ELSE base[k] \cup {x \in over[k] : x[1] \notin Users(base[k])}]

(* Mutant: the block that leaves is one block too high. *)
PushBlockEarly(over, c) ==
  LET h == Len(c)
      old == h - WindowOf(c) + 1
  IN  IF h > WindowOf(c) THEN DeleteBlock(over, old, c[old].feeds) ELSE over

(* PushBlock of the last block of c: the block w below it leaves. *)
PushBlock(over, c) ==
  LET h == Len(c)
      old == h - WindowOf(c)
  IN  IF h > WindowOf(c) THEN DeleteBlock(over, old, c[old].feeds) ELSE over

(* Mutant: the reverted block keeps its feeds. *)
UndoBlockKeeps(over, base, c) ==
  LET h == Len(c)
      w == WindowOf(Front(c))
  IN  IF h > w THEN AddPrice(over, base, h - w, c[h - w].feeds) ELSE over

(***************************************************************************)
(* UndoBlock of the last block of c.  The parameter has been undone        *)
(* already: the window is the one of the block before.                     *)
(***************************************************************************)
UndoBlock(over, base, c) ==
  LET h == Len(c)
      w == WindowOf(Front(c))
      deleted == DeleteBlock(over, h, Last(c).feeds)
  IN  IF h > w THEN AddPrice(deleted, base, h - w, c[h - w].feeds)
      ELSE deleted

-----------------------------------------------------------------------------

(* What a block's transactions leave in its overlay. *)
Executed(feeds) == AddPrice(NoOverlay, prices, Height + 1, feeds)

(* Mutant: the median is computed before the block's own feeds. *)
AcceptedWithoutOwn(b) ==
  /\ NewFeeds(NoOverlay, prices, Height + 1, b.feeds) = b.feeds
  /\ b.median = GetMedianPrice(prices, Height + 1, WindowOf(chain),
                               MedianOf(chain))

(***************************************************************************)
(* The block's transactions succeed: no feed is refused, and the median is *)
(* the one the node computes (EqualToCalculatedPrices).                    *)
(***************************************************************************)
Accepted(b) ==
  /\ NewFeeds(NoOverlay, prices, Height + 1, b.feeds) = b.feeds
  /\ b.median = GetMedianPrice(Seen(Executed(b.feeds), prices), Height + 1,
                               WindowOf(chain), MedianOf(chain))

(* The change from window v to window w leaves blocks out of the cache. *)
Grows(v, w) == w > v

(* ConnectTip of a block that other nodes hold valid. *)
ConnectTip(feeds, w) ==
  LET b == NextBlock(feeds, w)
      c == Append(chain, b)
  IN  /\ Height < MaxHeight
      /\ Accepted(b)
      /\ chain' = c
      /\ prices' = BatchWrite(prices, PushBlock(Executed(feeds), c))
      /\ gap' = (gap \/ Grows(WindowOf(chain), w))
      /\ UNCHANGED <<loaded, rejected>>

(* The same block fails, is marked invalid and its overlay is dropped. *)
ConnectTipFails(feeds, w) ==
  /\ Height < MaxHeight
  /\ ~Accepted(NextBlock(feeds, w))
  /\ rejected' = TRUE
  /\ UNCHANGED <<chain, prices, loaded, gap>>

DisconnectTip ==
  /\ Height > 0
  /\ chain' = Front(chain)
  /\ prices' = BatchWrite(prices, UndoBlock(NoOverlay, prices, chain))
  /\ gap' = (gap \/ Grows(WindowOf(chain), WindowOf(Front(chain))))
  /\ UNCHANGED <<loaded, rejected>>

(***************************************************************************)
(* The process is killed and started again.  The last blocks may not have  *)
(* been flushed; ActivateBestChain then connects what the index holds.     *)
(***************************************************************************)
Restart(h) ==
  /\ CrashAllowed
  /\ chain' = SubSeq(chain, 1, h)
  /\ prices' = [k \in Heights |-> {}]
  /\ loaded' = FALSE
  /\ gap' = FALSE
  /\ UNCHANGED rejected

(* The cache with the feeds of the last blocks of c added. *)
Reloaded(c) ==
  [k \in Heights |->
     IF k \in DOMAIN c /\ k > Len(c) - WindowOf(c)
     THEN prices[k] \cup {x \in c[k].feeds : x[1] \notin Users(prices[k])}
     ELSE prices[k]]

(* AppInit, after ActivateBestChain. *)
ReleadBlocks ==
  /\ ~loaded
  /\ prices' = Reloaded(chain)
  /\ loaded' = TRUE
  /\ gap' = FALSE
  /\ UNCHANGED <<chain, rejected>>

(* A node that has just made its genesis block. *)
Init ==
  /\ chain = <<>>
  /\ prices = [k \in Heights |-> {}]
  /\ loaded = TRUE
  /\ gap = FALSE
  /\ rejected = FALSE

Next ==
  \/ \E feeds \in BlockFeeds, w \in Window :
       ConnectTip(feeds, w) \/ ConnectTipFails(feeds, w)
  \/ DisconnectTip
  \/ \E h \in 0 .. Height : Restart(h)
  \/ ReleadBlocks

Spec == Init /\ [][Next]_vars

-----------------------------------------------------------------------------
(* Properties. *)

(***************************************************************************)
(* PushBlock, UndoBlock, BatchWrite: whatever was disconnected or          *)
(* restarted, the cache holds no feed that the active chain does not hold  *)
(* at that height.  A feed left over from a reverted block would make the  *)
(* same delegate's feed in the block that replaces it a duplicate.         *)
(***************************************************************************)
PricesOnChain ==
  \A k \in Heights :
    prices[k] # {} => k \in DOMAIN chain /\ prices[k] = chain[k].feeds

(***************************************************************************)
(* Once loaded, and unless the window has grown since, the cache holds     *)
(* every feed of the window that the next median is computed from, after   *)
(* reorganisations of any depth and after the window has shrunk.           *)
(***************************************************************************)
WindowComplete ==
  loaded /\ ~gap =>
    \A k \in DOMAIN chain :
      k > Height - WindowOf(chain) => prices[k] = chain[k].feeds

(***************************************************************************)
(* ConnectTip, EqualToCalculatedPrices: nodes with different histories     *)
(* agree.  A node that is loaded rejects no block whose median follows     *)
(* from the chain, unless the window has grown.                            *)
(***************************************************************************)
RejectsOnlyAfterGap ==
  [][loaded /\ ~gap => rejected' = rejected]_vars

(***************************************************************************)
(* "scan for better chains in the block chain database, that are not yet   *)
(* connected in the active best chain" (init.cpp:814): a block that is     *)
(* right by the chain's own prices is connected, not marked invalid.       *)
(***************************************************************************)
ValidBlocksConnected == ~rejected
=============================================================================
