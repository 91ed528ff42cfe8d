------------------------------ MODULE DexOrders ------------------------------
(***************************************************************************)
(* Orders of the on-chain exchange, for one pair of a coin and an asset.   *)
(* An order freezes what it may spend.  It is dealt, in parts and with     *)
(* any number of others, by the matching service, which names the two      *)
(* orders, the price and the amounts of each deal; it is taken back by its *)
(* owner or by the governors; it is done when its residual is zero.  Every *)
(* deal charges friction fees, of which the coins buy the reserve's asset  *)
(* with a system order, and match fees of the orders' operators.           *)
(*                                                                         *)
(* The asset is WGRT, so that system orders are matched with those of      *)
(* users.  The frozen amounts are those of orders only.  A settlement of   *)
(* several deals is as many steps here: one that fails takes the others    *)
(* back with it, and every prefix of a good one is a settlement too.  The  *)
(* index of orders by block holds the same orders.  Fees of transactions   *)
(* are left out, prices are per PriceBoost and amounts small integers.     *)
(***************************************************************************)
EXTENDS DexOperators

CONSTANTS
  Bp,            \* the producer of the block
  FrictionRatio, \* DEX_FRICTION_FEE_RATIO, of RatioBoost
  TransferRatio, \* TRANSFER_SCOIN_FRICTION_FEE_RATIO, of RatioBoost
  PriceBoost,    \* PRICE_BOOST
  Offers,        \* the orders that may be placed
  DealPrices, DealCoins, DealAssets, \* of the deals that may be named
  Transfers,     \* coin transfers: from, to, amount
  MaxOrders      \* bound on the orders ever made, an order's number is its place

DexOrder == [user : Account, gen : {"user", "system"}, type : {"limit", "market"},
             side : {"buy", "sell"}, price : Nat, coin : Nat, asset : Nat, dex : DexId,
             terms : Seq(Terms), dealtCoin : Nat, dealtAsset : Nat]

(* What may be placed has nothing dealt and something to deal.              *)
DexOrdersAssumption ==
  /\ Bp \in Account /\ PriceBoost \in Nat \ {0}
  /\ {FrictionRatio, TransferRatio, MaxOrders} \subseteq Nat
  /\ FrictionRatio <= RatioBoost /\ TransferRatio <= RatioBoost
  /\ UNION {DealPrices, DealCoins, DealAssets} \subseteq Nat \ {0}
  /\ \A offer \in Offers :
       /\ offer \in DexOrder /\ offer.gen = "user" /\ offer.dealtCoin = 0 /\ offer.dealtAsset = 0
       /\ IF offer.side = "buy" /\ offer.type = "market" THEN offer.coin > 0 ELSE offer.asset > 0
  /\ Transfers \subseteq [from : Account, to : Account, amount : Nat]

VARIABLES
  orders,    \* activeOrderCache
  frozen,    \* frozen_amount of each account and token
  lastOrder  \* the number of orders ever made

vars == <<operatorVars, free, orders, frozen, lastOrder>>

----------------------------------------------------------------------------
CalcAmountByRatio(amount, ratio, boost) == (amount * ratio) \div boost

CalcCoinAmount(asset, price) == (asset * price) \div PriceBoost

Active == DOMAIN orders

TokenOf(side) == IF side = "buy" THEN "coin" ELSE "asset"

(* What an order still holds frozen of the token it spends.                 *)
Remaining(o) == IF o.side = "buy" THEN o.coin - o.dealtCoin ELSE o.asset - o.dealtAsset

(* What is left to deal: a market buy is measured in coins.                 *)
Residual(o) ==
  IF o.side = "buy" /\ o.type = "market" THEN o.coin - o.dealtCoin ELSE o.asset - o.dealtAsset

(* The order's own terms if it has any, or those its operator has now.      *)
TermsOf(o) == IF o.terms # << >> THEN Head(o.terms) ELSE GetDexOperator(o.dex).terms

SystemOrder(coins) ==
  [user |-> Fcoin, gen |-> "system", type |-> "market", side |-> "buy", price |-> 0,
   coin |-> coins, asset |-> 0, dex |-> 0,
   terms |-> <<[open |-> "public", maker |-> 0, taker |-> 0]>>, dealtCoin |-> 0, dealtAsset |-> 0]

(* The orders made when a friction fee buys the reserve's asset.            *)
WithFrictionOrder(book, coins) ==
  IF coins = 0 THEN book ELSE Put(book, lastOrder + 1, SystemOrder(coins))

FrictionFits(coins) == coins > 0 => lastOrder < MaxOrders

----------------------------------------------------------------------------
(* An order of a user: CDEXOrderBaseTx.                                     *)
PlaceOrder(offer) ==
  LET coins == IF offer.side = "buy" /\ offer.type = "limit"
                 THEN CalcCoinAmount(offer.asset, offer.price) ELSE offer.coin
      order == [offer EXCEPT !.coin = coins]
      what  == Move(offer.user, TokenOf(offer.side), Remaining(order)) IN
    /\ lastOrder < MaxOrders
    /\ HaveDexOperator(offer.dex) /\ GetDexOperator(offer.dex).activated
    /\ offer.terms # << >> => GetDexOperator(offer.dex).receiver # offer.user
    /\ free[offer.user][TokenOf(offer.side)] >= Remaining(order)
    /\ free' = Moved(free, <<[what EXCEPT !.amount = -@]>>)
    /\ frozen' = Moved(frozen, <<what>>)
    /\ orders' = Put(orders, lastOrder + 1, order)
    /\ lastOrder' = lastOrder + 1
    /\ UNCHANGED operatorVars

(* What is unfrozen when an order is cancelled.                             *)
CancelAmount(o) == IF o.side = "buy" THEN o.coin - o.dealtCoin ELSE o.asset - o.dealtAsset

(* The owner takes an order back, CDEXCancelOrderTx, or the governors do,   *)
(* CGovCancelOrderProposal.                                                 *)
CancelOrder(id) ==
  LET o == orders[id] what == Move(o.user, TokenOf(o.side), CancelAmount(o)) IN
    /\ o.gen = "user"
    /\ frozen[o.user][TokenOf(o.side)] >= CancelAmount(o)
    /\ free' = Moved(free, <<what>>)
    /\ frozen' = Moved(frozen, <<[what EXCEPT !.amount = -@]>>)
    /\ orders' = Restrict(orders, Active \ {id})
    /\ UNCHANGED <<operatorVars, lastOrder>>

----------------------------------------------------------------------------
(* A deal: CDealItemExecuter, d names the orders, the price and amounts.    *)

PriceMatches(buy, sell, price) ==
  CASE buy.type = "limit" /\ sell.type = "limit"  -> sell.price <= price /\ price <= buy.price
    [] buy.type = "limit" /\ sell.type = "market" -> price = buy.price
    [] buy.type = "market" /\ sell.type = "limit" -> price = sell.price
    [] OTHER -> TRUE

(* A market order takes, and of two of a kind the later one.                *)
TakerSide(d) ==
  LET buy == orders[d.buy] sell == orders[d.sell] IN
    IF buy.type # sell.type THEN (IF buy.type = "market" THEN "buy" ELSE "sell")
    ELSE IF d.buy < d.sell THEN "sell" ELSE "buy"

(* Across operators the maker's order must be open to the taker's.          *)
OpenTo(d) ==
  LET buy == orders[d.buy] sell == orders[d.sell]
      maker == IF TakerSide(d) = "buy" THEN sell ELSE buy
      taker == IF TakerSide(d) = "buy" THEN buy ELSE sell
      shared == GetDexOperator(maker.dex).shared IN
    buy.dex # sell.dex =>
      TermsOf(maker).open = "public" /\ (shared = {} \/ taker.dex \in shared)

Distance(m, n) == IF m < n THEN n - m ELSE m - n

(* Mutant: a limit buy may miss the price by a coin too. *)
NearlyMatches(buy, d) ==
  Distance(CalcCoinAmount(d.asset, d.price), d.coin)
    <= (IF d.price < PriceBoost THEN 1 ELSE d.price \div PriceBoost)

CoinsMatch(buy, d) ==
  LET missed == Distance(CalcCoinAmount(d.asset, d.price), d.coin)
      most   == d.price \div PriceBoost IN
    IF buy.type = "market" THEN missed <= (IF most < 1 THEN 1 ELSE most) ELSE missed = 0

Dealt(o, d) == [o EXCEPT !.dealtCoin = @ + d.coin, !.dealtAsset = @ + d.asset]

MatchFee(o, d, amount) ==
  CalcAmountByRatio(amount, IF o.side = TakerSide(d) THEN TermsOf(o).taker ELSE TermsOf(o).maker,
                    PriceBoost)

Friction(d, amount) ==
  IF "system" \in {orders[d.buy].gen, orders[d.sell].gen} THEN 0
  ELSE CalcAmountByRatio(amount, FrictionRatio, RatioBoost)

(* Mutant: a limit buy that got its asset keeps what it saved frozen. *)
NothingSaved(buy) == 0

(* What a limit buy that has got its asset saved below its limit.           *)
Saved(buy) ==
  IF buy.type = "limit" /\ Residual(buy) = 0 THEN buy.coin - buy.dealtCoin ELSE 0

Settle(d) ==
  LET buy  == Dealt(orders[d.buy], d)
      sell == Dealt(orders[d.sell], d)
      coinFriction  == Friction(d, d.coin)
      assetFriction == Friction(d, d.asset)
      coinFee  == MatchFee(sell, d, d.coin - coinFriction)
      assetFee == MatchFee(buy, d, d.asset - assetFriction)
      book == WithFrictionOrder([orders EXCEPT ![d.buy] = buy, ![d.sell] = sell], coinFriction)
      done == {id \in {d.buy, d.sell} : Residual(IF id = d.buy THEN buy ELSE sell) = 0}
  IN
    /\ orders[d.buy].side = "buy" /\ orders[d.sell].side = "sell"
    /\ PriceMatches(buy, sell, d.price) /\ OpenTo(d) /\ CoinsMatch(buy, d)
    /\ Residual(buy) >= 0 /\ Residual(sell) >= 0
    /\ d.coin > coinFriction + coinFee /\ d.asset > assetFriction + assetFee
    /\ frozen[buy.user]["coin"] >= d.coin + Saved(buy)
    /\ frozen[sell.user]["asset"] >= d.asset
    /\ FrictionFits(coinFriction)
    /\ free' = Moved(free,
         <<Move(sell.user, "coin", d.coin - coinFriction - coinFee),
           Move(GetDexOperator(sell.dex).receiver, "coin", coinFee),
           Move(buy.user, "asset", d.asset - assetFriction - assetFee),
           Move(Bp, "asset", assetFriction),
           Move(GetDexOperator(buy.dex).receiver, "asset", assetFee),
           Move(buy.user, "coin", Saved(buy))>>)
    /\ frozen' = Moved(frozen,
         <<Move(buy.user, "coin", -(d.coin + Saved(buy))), Move(sell.user, "asset", -d.asset),
           Move(Fcoin, "coin", coinFriction)>>)
    /\ orders' = Restrict(book, DOMAIN book \ done)
    /\ lastOrder' = lastOrder + (IF coinFriction > 0 THEN 1 ELSE 0)
    /\ UNCHANGED operatorVars

(* A transfer of stable coins pays a friction fee that buys the reserve's   *)
(* asset: CCoinTransferTx.                                                  *)
Transfer(t) ==
  LET fee == CalcAmountByRatio(t.amount, TransferRatio, RatioBoost) IN
    /\ free[t.from]["coin"] >= t.amount
    /\ FrictionFits(fee)
    /\ free' = Moved(free, <<Move(t.from, "coin", -t.amount), Move(t.to, "coin", t.amount - fee)>>)
    /\ frozen' = Moved(frozen, <<Move(Fcoin, "coin", fee)>>)
    /\ orders' = WithFrictionOrder(orders, fee)
    /\ lastOrder' = lastOrder + (IF fee > 0 THEN 1 ELSE 0)
    /\ UNCHANGED operatorVars

----------------------------------------------------------------------------
OrdersInit ==
  /\ orders = << >> /\ lastOrder = 0
  /\ frozen = [a \in Account |-> [t \in Token |-> 0]]

Init == OperatorsInit /\ OrdersInit

Next ==
  \/ OperatorsNext /\ UNCHANGED <<orders, frozen, lastOrder>>
  \/ \E offer \in Offers : PlaceOrder(offer)
  \/ \E id \in Active : CancelOrder(id)
  \/ \E buy, sell \in Active, p \in DealPrices, c \in DealCoins, n \in DealAssets :
       Settle([buy |-> buy, sell |-> sell, price |-> p, coin |-> c, asset |-> n])
  \/ \E t \in Transfers : Transfer(t)

Spec == Init /\ [][Next]_vars

----------------------------------------------------------------------------
(* Amounts are never negative, and an active order still has to be dealt.   *)
TypeOK ==
  /\ OperatorsTypeOK
  /\ frozen \in [Account -> [Token -> Nat]]
  /\ Active \subseteq 1..lastOrder /\ lastOrder \in 0..MaxOrders
  /\ \A id \in Active : Residual(orders[id]) > 0

(* What order o holds frozen of token t of account a.                       *)
Claim(o, a, t) == IF o.user = a /\ TokenOf(o.side) = t THEN Remaining(o) ELSE 0

(* What is frozen of an account is exactly what its active orders may still *)
(* spend: no deal of theirs fails for want of it, nothing stays behind, and *)
(* no order spends what another one froze.                                  *)
FrozenBacksOrders ==
  \A a \in Account, t \in Token :
    frozen[a][t] = SumFunction([id \in Active |-> Claim(orders[id], a, t)])

(* What there is of each token at the start.                                *)
InWorld == [t \in Token |-> SumFunction([a \in Account |-> InitialFree[a][t]])]

(* Orders, deals, fees and system orders make no coin and lose none.        *)
MoneyConserved ==
  \A t \in Token : SumFunction([a \in Account |-> free[a][t] + frozen[a][t]]) = InWorld[t]

(* A limit buy that is dealt in parts, each rounded, never pays more than   *)
(* its limit for what it got, and its coins last for all it has to get: the *)
(* assertion where its deal is completed.                                   *)
LimitBuysCovered ==
  \A id \in Active :
    LET o == orders[id] IN
      o.side = "buy" /\ o.type = "limit" =>
        /\ o.dealtCoin * PriceBoost <= o.dealtAsset * o.price
        /\ o.dealtCoin + CalcCoinAmount(o.asset - o.dealtAsset, o.price) <= o.coin

ExchangeBalances == OwnersAreFound /\ LimitBuysCovered /\ MoneyConserved
=============================================================================
