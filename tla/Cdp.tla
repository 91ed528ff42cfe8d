-------------------------------- MODULE Cdp --------------------------------
(***************************************************************************)
(* Collateralised debt positions.  A user pledges bcoins and is given      *)
(* stable coins (scoins) for them; interest is owed by the day.  A         *)
(* position is                                                             *)
(*   - staked into, redeemed by its owner, or liquidated by anyone at a    *)
(*     discount once its ratio is low (the transactions of cdptx.cpp);     *)
(*   - charged its interest by the block producer after a cycle of days;   *)
(*   - closed out of the reserve, the riskiest position first, by the      *)
(*     transaction that sets the block's prices (blockpricemediantx.cpp).  *)
(* CCdpDBCache keeps every position in five places that must move          *)
(* together: by id, by owner, by ratio, by height, and in the totals.      *)
(*                                                                         *)
(* Amounts are small integers and ratios per cent.  A transaction that     *)
(* fails leaves no trace, so its error paths are guards.  There is one     *)
(* stable coin, WUSD, so a coin pair is its bcoin.  Price 0 stands for a   *)
(* price that is missing or no longer fed.  An id may be used again after  *)
(* its position is closed: it stands for the id of a new transaction.      *)
(***************************************************************************)
EXTENDS Integers, Sequences, FiniteSets, FiniteSetsExt, SequencesExt, Functions

CONSTANTS
  User, CdpId,
  PairOrder,      \* the bcoins, in the order in which pairs are liquidated
  R3,             \* TRUE from MAJOR_VER_R3 on
  Floor, Start, LiquidateRatio, NonReturn, ForceRatio, \* ratios of scoin.h, in per cent
  Discount,       \* CDP_LIQUIDATE_DISCOUNT_RATIO
  Ceiling,        \* CDP_GLOBAL_COLLATERAL_CEILING_AMOUNT
  MinStake,       \* CDP_BCOINSTOSTAKE_AMOUNT_MIN_IN_SCOIN
  Rate,           \* interest of a block, in per cent
  Cycle,          \* blocks after which unpaid interest becomes debt
  SettleLimit,    \* CDP_SETTLE_INTEREST_MAX_COUNT
  ForceLimit,     \* CDP_FORCE_LIQUIDATE_MAX_COUNT
  PenaltyMin,     \* CDP_SYSORDER_PENALTY_FEE_MIN
  Holdings,       \* bcoins of each kind each user starts with
  Purse,          \* scoins a user starts with
  InitialReserve, \* scoins the reserve starts with
  Prices,         \* the medians of all bcoins a block may have
  Stakes, Mints, Repays, Bids, \* values the inputs range over
  LastHeight      \* bound on the height

Bcoin == Range(PairOrder)

BcoinsListedOnce == PairOrder \in Seq(Range(PairOrder)) /\ IsInjective(PairOrder)

(* The ratios are ordered as CheckCdpParam keeps them: what a liquidation   *)
(* costs is no less than the debt.                                          *)
CdpAssumption ==
  /\ R3 \in BOOLEAN /\ CdpId \subseteq Nat /\ IsFiniteSet(User)
  /\ BcoinsListedOnce
  /\ \A n \in {Floor, Start, LiquidateRatio, NonReturn, ForceRatio, Discount, Ceiling, MinStake,
               Rate, Cycle, SettleLimit, ForceLimit, PenaltyMin, InitialReserve, LastHeight} :
       n \in Nat
  /\ Start > 0 /\ NonReturn * Discount >= 10000 /\ ForceRatio * Discount >= 10000
  /\ Purse \in [User -> Nat] /\ Holdings \in [User -> [Bcoin -> Nat]]
  /\ Prices \subseteq [Bcoin -> Nat]
  /\ \A set \in {Stakes, Mints, Repays, Bids} : set \subseteq Nat

VARIABLES
  store,        \* CCdpDBCache: main, user, ratio, heights, totals
  scoins,       \* free WUSD of each user
  bcoins,       \* free_amount of each user and bcoin
  pledged,      \* pledged_amount
  reserve,      \* free WUSD of the fcoin genesis account
  scoinsFrozen, \* its WUSD frozen for system buy orders
  onSale,       \* its bcoins frozen for system sell orders
  fcoins,       \* its inflated WGRT, by their value, frozen for sale
  price,        \* median price of each bcoin
  cdpHeight

cdpVars ==
  <<store, scoins, bcoins, pledged, reserve, scoinsFrozen, onSale, fcoins, price, cdpHeight>>

----------------------------------------------------------------------------
(* The ratios of a position and of a pair.                                 *)

Infinite == 1000000

Percent(staked, owed, p) == IF owed = 0 THEN Infinite ELSE (100 * staked * p) \div owed

(* collateral_ratio_base, boosted to an integer as in the index key.        *)
BaseRatio(c) == IF c.owed = 0 THEN Infinite ELSE (10000 * c.staked) \div c.owed

(* CheckGlobalCollateralRatioFloorReached at price p.                       *)
FloorReached(s, b, p) == Percent(s.totals[b].staked, s.totals[b].owed, p) < Floor

CeilingReached(b, amount) == amount + store.totals[b].staked > Ceiling

(* The least stake, in bcoins at price p.                                   *)
LeastStake(p) == MinStake \div p

Interest(c) ==
  LET days == IF cdpHeight > c.height THEN cdpHeight - c.height ELSE 1
  IN  (c.owed * days * Rate) \div 100

----------------------------------------------------------------------------
(* CCdpDBCache.  An index is the set of its values: an entry replaces, and *)
(* an erasure removes, the entry with the same key.                        *)

RatioKey(c)  == <<c.bcoin, BaseRatio(c), c.height, c.id>>
HeightKey(c) == <<c.bcoin, c.height, c.id>>

Without(index, Key(_), c) == {e \in index : Key(e) # Key(c)}
With(index, Key(_), c)    == Without(index, Key, c) \cup {c}

IdOf(c)    == c.id
OwnerOf(c) == <<c.owner, c.bcoin>>

SaveCdpIndexData(s, c) ==
  [s EXCEPT !.totals[c.bcoin] = [staked |-> @.staked + c.staked, owed |-> @.owed + c.owed],
            !.ratio = With(@, RatioKey, c), !.heights = With(@, HeightKey, c)]

EraseCdpIndexData(s, c) ==
  [s EXCEPT !.totals[c.bcoin] = [staked |-> @.staked - c.staked, owed |-> @.owed - c.owed],
            !.ratio = Without(@, RatioKey, c), !.heights = Without(@, HeightKey, c)]

NewCDP(s, c) ==
  SaveCdpIndexData([s EXCEPT !.main = With(@, IdOf, c),
                             !.user = With(@, OwnerOf, [owner |-> c.owner, bcoin |-> c.bcoin,
                                                        id |-> c.id])], c)

EraseCDP(s, c) ==
  EraseCdpIndexData([s EXCEPT !.main = Without(@, IdOf, c),
                              !.user = Without(@, OwnerOf, c)], c)

(* Mutant: the new entries are saved before the old ones are erased.        *)
UpdateSavingFirst(s, old, new) ==
  EraseCdpIndexData(SaveCdpIndexData([s EXCEPT !.main = With(@, IdOf, new)], new), old)

UpdateCDP(s, old, new) ==
  SaveCdpIndexData(EraseCdpIndexData([s EXCEPT !.main = With(@, IdOf, new)], old), new)

HasCdp(u, b) == \E e \in store.user : e.owner = u /\ e.bcoin = b

AddStake(c, amount, minted) ==
  [c EXCEPT !.height = cdpHeight, !.staked = @ + amount, !.owed = @ + minted]

----------------------------------------------------------------------------
(* CCDPStakeTx                                                              *)

CanStake(b, amount) ==
  /\ price[b] > 0
  /\ ~FloorReached(store, b, price[b])
  /\ ~CeilingReached(b, amount)

Pledge(u, b, amount) ==
  /\ bcoins[u][b] >= amount
  /\ bcoins' = [bcoins EXCEPT ![u][b] = @ - amount]
  /\ pledged' = [pledged EXCEPT ![u][b] = @ + amount]

StakeNew(u, id, b, amount, mint) ==
  LET c == [id |-> id, owner |-> u, bcoin |-> b, height |-> cdpHeight,
            staked |-> amount, owed |-> mint]
  IN  /\ CanStake(b, amount)
      /\ amount > 0 /\ mint > 0
      /\ \A e \in store.main : e.id # id
      /\ ~HasCdp(u, b)
      /\ Percent(amount, mint, price[b]) >= Start
      /\ amount >= LeastStake(price[b])
      /\ store' = NewCDP(store, c)
      /\ Pledge(u, b, amount)
      /\ scoins' = [scoins EXCEPT ![u] = @ + mint]
      /\ UNCHANGED <<reserve, scoinsFrozen, onSale, fcoins, price, cdpHeight>>

(* From R3 on, scoins are minted for the interest the owner cannot pay.     *)
MintedForInterest(u, interest) ==
  IF R3 /\ interest > scoins[u] THEN interest - scoins[u] ELSE 0

(* They count for the ratio, and not for the debt.                          *)
StakeMore(c, amount, mint) ==
  LET u         == c.owner
      interest  == Interest(c)
      forgiven  == MintedForInterest(u, interest)
      p         == price[c.bcoin]
  IN  /\ CanStake(c.bcoin, amount)
      /\ \/ Percent(amount, mint + forgiven, p) >= Start
         \/ Percent(c.staked + amount, c.owed + mint + forgiven, p) >= Start
      /\ scoins[u] + forgiven >= interest
      /\ store' = UpdateCDP(store, c, AddStake(c, amount, mint))
      /\ Pledge(u, c.bcoin, amount)
      /\ scoins' = [scoins EXCEPT ![u] = @ + forgiven - interest + mint]
      /\ scoinsFrozen' = scoinsFrozen + interest
      /\ UNCHANGED <<reserve, onSale, fcoins, price, cdpHeight>>

----------------------------------------------------------------------------
(* CCDPRedeemTx                                                             *)

Finished(c) == c.staked = 0 /\ c.owed = 0

(* What an unfinished position must still be after bcoins were taken out.   *)
MayTake(c, amount) ==
  amount # 0 => /\ Percent(c.staked, c.owed, price[c.bcoin]) >= Start
                /\ c.staked >= LeastStake(price[c.bcoin])

Redeem(c, repay, amount) ==
  LET u        == c.owner
      b        == c.bcoin
      interest == Interest(c)
      taken    == IF amount > c.staked THEN c.staked ELSE amount
      repaid   == IF repay > c.owed THEN c.owed ELSE repay
      rest     == [c EXCEPT !.height = cdpHeight, !.staked = @ - taken, !.owed = @ - repaid]
  IN  /\ price[b] > 0
      /\ ~FloorReached(store, b, price[b])
      /\ scoins[u] >= interest + repay
      /\ pledged[u][b] >= taken
      /\ \/ Finished(rest) /\ store' = EraseCDP(store, c)
         \/ /\ ~Finished(rest)
            /\ MayTake(rest, taken)
            /\ store' = UpdateCDP(store, c, rest)
      /\ scoins' = [scoins EXCEPT ![u] = @ - interest - repaid]
      /\ scoinsFrozen' = scoinsFrozen + interest
      /\ bcoins' = [bcoins EXCEPT ![u][b] = @ + taken]
      /\ pledged' = [pledged EXCEPT ![u][b] = @ - taken]
      /\ UNCHANGED <<reserve, onSale, fcoins, price, cdpHeight>>

----------------------------------------------------------------------------
(* CCDPLiquidateTx                                                          *)

(* What a liquidation of all of c costs, and what it returns to whom.       *)
Quote(c, p) ==
  LET ratio == Percent(c.staked, c.owed, p)
      most  == (c.owed * NonReturn) \div (100 * p)
  IN  IF ratio > NonReturn
      THEN [bcoins |-> most, toOwner |-> c.staked - most,
            scoins |-> (c.owed * NonReturn * Discount) \div 10000]
      ELSE [bcoins |-> c.staked, toOwner |-> 0,
            scoins |-> IF ratio > ForceRatio THEN (c.staked * p * Discount) \div 100 ELSE c.owed]

(* ProcessPenaltyFees: half to the reserve, half to a system buy order.     *)
Penalty(fee) ==
  IF ~R3 /\ fee <= PenaltyMin
  THEN reserve' = reserve + fee /\ UNCHANGED scoinsFrozen
  ELSE reserve' = reserve + fee \div 2 /\ scoinsFrozen' = scoinsFrozen + (fee - fee \div 2)

(* The owner's pledge is released; what the liquidator bought leaves him.   *)
HandOver(u, c, bought, returned) ==
  LET b    == c.bcoin
      sold == [bcoins EXCEPT ![u][b] = @ + bought]
  IN  /\ pledged[c.owner][b] >= bought + returned
      /\ pledged' = [pledged EXCEPT ![c.owner][b] = @ - bought - returned]
      /\ bcoins' = [sold EXCEPT ![c.owner][b] = @ + returned]

Liquidatable(u, c, offer) ==
  /\ offer > 0
  /\ scoins[u] >= offer
  /\ price[c.bcoin] > 0
  /\ ~FloorReached(store, c.bcoin, price[c.bcoin])
  /\ Percent(c.staked, c.owed, price[c.bcoin]) <= LiquidateRatio

LiquidateAll(u, c, offer) ==
  LET q == Quote(c, price[c.bcoin])
  IN  /\ Liquidatable(u, c, offer)
      /\ offer >= q.scoins
      /\ scoins' = [scoins EXCEPT ![u] = @ - q.scoins]
      /\ HandOver(u, c, q.bcoins, q.toOwner)
      /\ Penalty(q.scoins - c.owed)
      /\ store' = EraseCDP(store, c)
      /\ UNCHANGED <<onSale, fcoins, price, cdpHeight>>

PartialFee(c, offer, closed) == offer - closed

(* The height stays: later interest is counted from it (PartialLiquidate).  *)
LiquidatePart(u, c, offer) ==
  LET q        == Quote(c, price[c.bcoin])
      bought   == (q.bcoins * offer) \div q.scoins
      returned == (q.toOwner * offer) \div q.scoins
      closed   == (c.owed * offer) \div q.scoins
      rest     == [c EXCEPT !.staked = @ - bought - returned, !.owed = @ - closed]
  IN  /\ Liquidatable(u, c, offer)
      /\ offer < q.scoins
      /\ rest.staked >= LeastStake(price[c.bcoin])
      /\ scoins' = [scoins EXCEPT ![u] = @ - offer]
      /\ HandOver(u, c, bought, returned)
      /\ Penalty(PartialFee(c, offer, closed))
      /\ store' = UpdateCDP(store, c, rest)
      /\ UNCHANGED <<onSale, fcoins, price, cdpHeight>>

----------------------------------------------------------------------------
(* CCDPInterestForceSettleTx: the interest of every position of the list   *)
(* is minted to its owner, paid at once, and added to the debt.            *)

SettleOne(s, id) ==
  LET c  == CHOOSE e \in s.store.main : e.id = id
      ok == /\ s.ok
            /\ \E e \in s.store.main : e.id = id
            /\ price[c.bcoin] > 0
            /\ ~FloorReached(s.store, c.bcoin, price[c.bcoin])
            /\ cdpHeight > c.height /\ cdpHeight - c.height >= Cycle
  IN  IF ~ok THEN [s EXCEPT !.ok = FALSE]
      ELSE [s EXCEPT !.store = UpdateCDP(s.store, c, AddStake(c, 0, Interest(c))),
                     !.paid = @ + Interest(c)]

SettleInterest(list) ==
  LET end == FoldLeft(SettleOne, [ok |-> TRUE, store |-> store, paid |-> 0], list)
  IN  /\ R3
      /\ Len(list) \in 1 .. SettleLimit
      /\ end.ok
      /\ store' = end.store
      /\ scoinsFrozen' = scoinsFrozen + end.paid
      /\ UNCHANGED <<scoins, bcoins, pledged, reserve, onSale, fcoins, price, cdpHeight>>

----------------------------------------------------------------------------
(* CBlockPriceMedianTx: the prices of the block, and the positions closed  *)
(* out of the reserve at these prices.                                     *)

(* The order of the ratio index within a pair.                              *)
NotAfter(c, d) ==
  \/ BaseRatio(c) < BaseRatio(d)
  \/ BaseRatio(c) = BaseRatio(d) /\ c.height < d.height
  \/ BaseRatio(c) = BaseRatio(d) /\ c.height = d.height /\ c.id <= d.id

Owed(set)   == SumFunctionOnSet([c \in set |-> c.owed], set)
Staked(set) == SumFunctionOnSet([c \in set |-> c.staked], set)

(* GetCdpListByCollateralRatio                                              *)
Due(b, p) == {e \in store.ratio : e.bcoin = b /\ BaseRatio(e) <= (100 * ForceRatio) \div p}

(* Those of due that come up to e in the index.                             *)
Upto(due, e) == {f \in due : NotAfter(f, e)}

(* Mutant: every pair has the limit of the block for itself.                *)
LiquidatePairOwnLimit(prices, s, b) ==
  IF prices[b] = 0 \/ FloorReached(store, b, prices[b]) THEN s
  ELSE LET due   == Due(b, prices[b])
           taken == {e \in due : /\ Cardinality(Upto(due, e)) <= ForceLimit
                                 /\ Owed(Upto(due, e)) <= s.reserve}
       IN  [s EXCEPT !.closed = @ \cup taken, !.reserve = @ - Owed(taken)]

(* CCdpForceLiquidator::Execute for one pair: the due positions in order,   *)
(* until the reserve does not cover one or the limit of the block is hit.   *)
LiquidatePair(prices, s, b) ==
  IF prices[b] = 0 \/ FloorReached(store, b, prices[b]) THEN s
  ELSE LET due   == Due(b, prices[b])
           taken == {e \in due : /\ Cardinality(Upto(due, e)) <= s.left
                                 /\ Owed(Upto(due, e)) <= s.reserve}
           count == IF taken = due THEN Cardinality(due) ELSE Cardinality(taken) + 1
       IN  [closed  |-> s.closed \cup taken,
            reserve |-> s.reserve - Owed(taken),
            left    |-> IF count >= s.left THEN 0 ELSE s.left - count]

(* What the bcoins of a position do not cover.                              *)
Shortfall(prices, c) ==
  LET value == c.staked * prices[c.bcoin] IN IF value < c.owed THEN c.owed - value ELSE 0

OfUser(set, u, b) == {c \in set : c.owner = u /\ c.bcoin = b}
OfPair(set, b)    == {c \in set : c.bcoin = b}

Released(closed, u, b) == Staked(OfUser(closed, u, b))

(* Nothing is liquidated while the price of the fcoin is not known.         *)
MedianPrices(prices, fcoinPriced) ==
  LET start == [closed |-> {}, reserve |-> reserve, left |-> ForceLimit]
      end   == IF fcoinPriced
               THEN FoldLeft(LAMBDA s, b : LiquidatePair(prices, s, b), start, PairOrder)
               ELSE start
  IN  /\ cdpHeight < LastHeight
      /\ cdpHeight' = cdpHeight + 1
      /\ price' = prices
      /\ \A u \in User, b \in Bcoin : pledged[u][b] >= Released(end.closed, u, b)
      /\ store' = FoldSet(LAMBDA c, s : EraseCDP(s, c), store, end.closed)
      /\ reserve' = end.reserve
      /\ pledged' = [u \in User |-> [b \in Bcoin |-> pledged[u][b] - Released(end.closed, u, b)]]
      /\ onSale' = [b \in Bcoin |-> onSale[b] + Staked(OfPair(end.closed, b))]
      /\ fcoins' = fcoins + SumFunctionOnSet([c \in end.closed |-> Shortfall(prices, c)],
                                             end.closed)
      /\ UNCHANGED <<scoins, bcoins, scoinsFrozen>>

----------------------------------------------------------------------------
CdpInit ==
  /\ store = [main |-> {}, user |-> {}, ratio |-> {}, heights |-> {},
              totals |-> [b \in Bcoin |-> [staked |-> 0, owed |-> 0]]]
  /\ scoins = Purse
  /\ bcoins = [u \in User |-> [b \in Bcoin |-> Holdings[u][b]]]
  /\ pledged = [u \in User |-> [b \in Bcoin |-> 0]]
  /\ reserve = InitialReserve /\ scoinsFrozen = 0
  /\ onSale = [b \in Bcoin |-> 0] /\ fcoins = 0
  /\ price = [b \in Bcoin |-> 0]
  /\ cdpHeight = 0

CdpNext ==
  \/ \E u \in User, id \in CdpId, b \in Bcoin, amount \in Stakes, mint \in Mints :
       StakeNew(u, id, b, amount, mint)
  \/ \E c \in store.main, amount \in Stakes, mint \in Mints : StakeMore(c, amount, mint)
  \/ \E c \in store.main, repay \in Repays, amount \in Stakes : Redeem(c, repay, amount)
  \/ \E u \in User, c \in store.main, offer \in Bids :
       LiquidateAll(u, c, offer) \/ LiquidatePart(u, c, offer)
  \/ \E list \in UNION {[1 .. n -> CdpId] : n \in 1 .. SettleLimit} :
       IsInjective(list) /\ SettleInterest(list)
  \/ \E prices \in Prices, fcoinPriced \in BOOLEAN :
       MedianPrices(prices, fcoinPriced)

CdpSpec == CdpInit /\ [][CdpNext]_cdpVars

----------------------------------------------------------------------------
Position ==
  [id : CdpId, owner : User, bcoin : Bcoin, height : 0 .. LastHeight, staked : Nat, owed : Nat]

(* The types of the variables.                                              *)
CdpTypeOK ==
  /\ store.main \subseteq Position /\ store.ratio \subseteq Position
  /\ store.heights \subseteq Position
  /\ store.user \subseteq [owner : User, bcoin : Bcoin, id : CdpId]
  /\ store.totals \in [Bcoin -> [staked : Nat, owed : Nat]]
  /\ scoins \in [User -> Nat]
  /\ bcoins \in [User -> [Bcoin -> Nat]] /\ pledged \in [User -> [Bcoin -> Nat]]
  /\ {reserve, scoinsFrozen, fcoins} \subseteq Nat /\ onSale \in [Bcoin -> Nat]
  /\ price \in [Bcoin -> Nat] /\ cdpHeight \in 0 .. LastHeight

(* The five places of CCdpDBCache agree: the indexes hold the positions as *)
(* they are, the owner's index leads to each, the totals are their sums.   *)
StoreAgrees ==
  /\ store.ratio = store.main /\ store.heights = store.main
  /\ store.user = {[owner |-> c.owner, bcoin |-> c.bcoin, id |-> c.id] : c \in store.main}
  /\ \A b \in Bcoin :
       store.totals[b] = [staked |-> Staked(OfPair(store.main, b)),
                          owed   |-> Owed(OfPair(store.main, b))]

(* Every bcoin in a position is pledged by its owner, and nothing else is: *)
(* otherwise a liquidation fails, and with it the block that sets prices.  *)
PledgesBackPositions ==
  \A u \in User, b \in Bcoin : pledged[u][b] = Staked(OfUser(store.main, u, b))

(* What all users have of a bcoin, free or pledged.                         *)
InAccounts(b) ==
  SumFunctionOnSet([u \in User |-> bcoins[u][b] + pledged[u][b]], User)

(* What there was of either at the start.                                   *)
BcoinsInWorld == [b \in Bcoin |-> SumFunctionOnSet([u \in User |-> Holdings[u][b]], User)]
ScoinsInWorld == InitialReserve + SumFunctionOnSet(Purse, User)

(* No bcoin is made or lost: what leaves an owner reaches the liquidator   *)
(* or the reserve's sell order.                                            *)
BcoinsConserved == \A b \in Bcoin : onSale[b] + InAccounts(b) = BcoinsInWorld[b]

(* Scoins in the world less the debt of all positions stays what it was:   *)
(* every scoin minted is owed, every one repaid is burnt (cdp.h: "total    *)
(* minted - total redempted").                                             *)
ScoinsAreOwed ==
  SumFunctionOnSet(scoins, User) + reserve + scoinsFrozen
    = Owed(store.main) + ScoinsInWorld

(* There is no debt with nothing pledged for it.                            *)
DebtIsCollateralised == \A c \in store.main : c.staked > 0

(* While a pair is below its global floor, none of its positions changes,  *)
(* by whatever transaction.                                                *)
LockedPairKept ==
  \A b \in Bcoin : FloorReached(store, b, price'[b]) =>
    {c \in store'.main : c.bcoin = b} = {c \in store.main : c.bcoin = b}

(* A position closed out of the reserve has none below it in ratio left.    *)
Riskiest ==
  cdpHeight' # cdpHeight =>
    \A c, d \in store.main :
      c.bcoin = d.bcoin /\ c \notin store'.main /\ BaseRatio(d) < BaseRatio(c)
        => d \notin store'.main

(* All pairs together, a block closes no more than its limit.               *)
WithinLimit ==
  cdpHeight' # cdpHeight => Cardinality(store.main \ store'.main) <= ForceLimit

(* The five places of CCdpDBCache agree (SaveCdpIndexData,                  *)
(* EraseCdpIndexData); what is pledged of an account is what its positions  *)
(* hold, what leaves a pledge reaches the liquidator or the sell order, and *)
(* there is no debt with nothing pledged for it.  Before MAJOR_VER_R3 every *)
(* stable coin minted is owed and every one repaid is burnt.                *)
PositionsAreBacked ==
  /\ CdpTypeOK /\ StoreAgrees /\ PledgesBackPositions /\ BcoinsConserved
  /\ DebtIsCollateralised /\ (R3 \/ ScoinsAreOwed)

(* A pair below its global floor stays as it is (cdptx.cpp); the reserve    *)
(* closes the riskiest position of a pair first, and no more positions in a *)
(* block than the limit, all pairs together (ForceLiquidateCdps).           *)
LiquidationsInOrder == [][LockedPairKept /\ Riskiest /\ WithinLimit]_cdpVars
=============================================================================
