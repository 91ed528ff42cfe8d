------------------------------ MODULE MCMoney ------------------------------
(***************************************************************************)
(* Small instances of the modules that keep the money of the chain.  They  *)
(* share no state, apart from operators and orders of the exchange; each   *)
(* behaviour is one of one instance, named by part, and the variables of   *)
(* the others stay as they were.  The parts of the exchange have the same  *)
(* accounts and holdings, those of the government the same accounts, ids   *)
(* and switches, those on positions the same users, pairs, holdings and    *)
(* limits, so what their modules say holds in each of them.                *)
(*                                                                         *)
(*   "store"    Cdp: one pair, every transaction on positions              *)
(*   "reserve"  Cdp: two pairs, from MAJOR_VER_R3 on, closed when prices   *)
(*              fall                                                       *)
(*   "ratios"   Governance: ratios changed one at a time by governors      *)
(*              whose number grows                                         *)
(*   "swaps"    Governance: swaps in and out, the switch, the governors    *)
(*              (the configuration's constants)                            *)
(*   "owners"   DexOperators: two operators handed over and changed        *)
(*   "book"     DexOrders: limit and market orders of one operator         *)
(*   "cross"    DexOrders: orders of two operators, closed and open (the   *)
(*              configuration's constants)                                 *)
(***************************************************************************)
EXTENDS DexOrders, Governance, Cdp, TLC

CONSTANTS p1, p2, p3  \* the ids of proposals

VARIABLE part

-----------------------------------------------------------------------------
(* u1 borrows WICC, in two steps if need be; u2 can buy a whole position,   *)
(* and open one of its own; either has some WETH.                          *)
Borrowers == {"u1", "u2"}
Pairs     == <<"WICC", "WETH">>
Purses    == [u1 |-> 0, u2 |-> 110]
Held(w, e) == [WICC |-> w, WETH |-> e]
Holds     == [u1 |-> Held(40, 20), u2 |-> Held(20, 20)]

(* WETH has no price.                                                       *)
Store ==
  INSTANCE Cdp
    WITH CdpId <- {1, 2}, Cycle <- 2, Prices <- {Held(w, 0) : w \in {10, 6, 4, 3}},
         Stakes <- {0, 20}, Mints <- {0, 90}, Repays <- {0, 90}, Bids <- {40, 110}

(* Every position is opened with one of two debts.                          *)
Reserve ==
  INSTANCE Cdp
    WITH R3 <- TRUE, Cycle <- 1, Prices <- {Held(w, e) : w, e \in {10, 4, 3}},
         Stakes <- {20}, Mints <- {90, 100}, Repays <- {}, Bids <- {}

-----------------------------------------------------------------------------
Defaults == [start |-> 1900, liquidate |-> 1500, force |-> 1040, discount |-> 970]

Param(t, v)     == [type |-> t, value |-> v]
CdpParam(param) == [kind |-> "cdp", params |-> <<param>>]
Governor(o, a)  == [kind |-> "bpmc", op |-> o, regid |-> a]
Turn(o, n)      == [kind |-> "switch", op |-> o, name |-> n]
In(t, a, n)     == [kind |-> "axcin", tx |-> t, to |-> a, amount |-> n]

(* 1031 is acceptable for "force" with a discount of 970 or more.           *)
RatioInputs ==
  {CdpParam(Param("force", 1031)), CdpParam(Param("discount", 962)),
   CdpParam(Param("discount", 990)), CdpParam(Param("liquidate", 1800)),
   Governor("enable", "b"), Turn("enable", "feed")}

SwapInputs ==
  {In("x", "b", 10), In("x", "g", 20),
   [kind |-> "axcout", from |-> "b", amount |-> 5],
   Turn("disable", "swap"), [kind |-> "transfer", from |-> "b", to |-> "c", amount |-> 4],
   Governor("enable", "b"), Governor("disable", "b")}

Governing == {"g", "b", "c", "gw"}
NoneOrThree == {{}, {"g", "b", "c"}}

Ratios ==
  INSTANCE Governance
    WITH RegId <- Governing, ProposalId <- {p1, p2, p3}, Genesis <- "g",
         Gateway <- "gw", StoredGovernors <- NoneOrThree, Switch <- {"swap", "feed"},
         Elections <- <<{"g", "b"}>>, Inputs <- RatioInputs, FeeRatio <- 400,
         ExpireBlocks <- 0, MaxSupply <- 100, InitialRatios <- Defaults, MaxHeight <- 1

(* What the configuration gives Governance are the constants of the swaps.  *)
Chosen == <<{"g", "b"}, {"b", "c", "gw"}>>

-----------------------------------------------------------------------------
Fees(open, maker, taker) == [open |-> open, maker |-> maker, taker |-> taker]

(* Who owns, sells and buys; prices are halves.                             *)
Trader     == {"o", "b", "s", "f"}
Topmost    == <<"o">>
TraderFree == [a \in Trader |->
                 [coin |-> CASE a = "b" -> 12 [] a = "s" -> 4 [] OTHER -> 0,
                  asset |-> IF a \in {"b", "s"} THEN 6 ELSE 0, WICC |-> 8]]
TakerPays  == Fees("public", 0, 1)

Registration(owner, receiver, shared) ==
  LET fee == IF owner = receiver THEN 0 ELSE 1 IN
    [owner |-> owner, receiver |-> receiver, activated |-> FALSE, shared |-> shared,
     terms |-> Fees("private", fee, fee)]

OwnersChanges ==
  [field : {"owner"}, value : {"o", "b", "s"}]
    \cup [field : {"terms"}, value : {Fees("private", 0, 0)}]
    \cup [field : {"shared"}, value : {{1}}]

Owners ==
  INSTANCE DexOperators
    WITH Delegates <- <<"b", "s">>, OperatorFee <- 7, RiskFeeRatio <- 4000,
         RatioBoost <- 10000, DefaultTerms <- Fees("public", 0, 0),
         Registrations <- {Registration("o", "o", {}), Registration("b", "b", {0}),
                           Registration("s", "s", {})},
         Changes <- OwnersChanges

Offer(u, t, d, p, c, n, dex, terms) ==
  [user |-> u, gen |-> "user", type |-> t, side |-> d, price |-> p, coin |-> c, asset |-> n,
   dex |-> dex, terms |-> terms, dealtCoin |-> 0, dealtAsset |-> 0]

(* Own and operator's terms, both sides of one user.                        *)
BookOffers ==
  {Offer("b", "limit", "buy", 3, 0, 5, 0, << >>),
   Offer("b", "market", "buy", 0, 4, 0, 0, <<Fees("public", 0, 0)>>),
   Offer("s", "limit", "sell", 3, 0, 4, 0, << >>),
   Offer("s", "market", "sell", 0, 0, 5, 0, << >>),
   Offer("b", "limit", "sell", 2, 0, 3, 0, << >>)}

Book ==
  INSTANCE DexOrders
    WITH MaxDexId <- 0, Registrations <- {}, Changes <- {}, FrictionRatio <- 1,
         Offers <- BookOffers, Transfers <- [from : {"s"}, to : {"b"}, amount : {3}]

CrossOffers ==
  {Offer("b", "limit", "buy", 3, 0, 5, 1, << >>),
   Offer("s", "limit", "sell", 2, 0, 4, 0, << >>),
   Offer("s", "market", "sell", 0, 0, 3, 1, << >>)}
CrossRegistrations == {Registration("b", "s", {0})}
CrossChanges ==
  [field : {"terms"}, value : {TakerPays}] \cup [field : {"receiver"}, value : {"f"}]

ASSUME MoneyAssumptions ==
  /\ Store!CdpAssumption /\ Reserve!CdpAssumption /\ CdpAssumption
  /\ Ratios!GovernanceAssumption /\ Ratios!SingleRatios
  /\ GovernanceAssumption /\ SingleRatios
  /\ Owners!DexOperatorsAssumption
  /\ Book!DexOperatorsAssumption /\ Book!DexOrdersAssumption
  /\ DexOperatorsAssumption /\ DexOrdersAssumption

-----------------------------------------------------------------------------
Governs == part \in {"ratios", "swaps"}

MoneyInit ==
  /\ part \in {"store", "reserve", "ratios", "swaps", "owners", "book", "cross"}
  /\ CdpInit
  /\ IF part = "swaps" THEN GovernanceInit ELSE Ratios!GovernanceInit
  /\ ~Governs => governors = {}
  /\ Init

MoneyNext ==
  \/ /\ \/ part = "store" /\ Store!CdpNext
        \/ part = "reserve" /\ Reserve!CdpNext
     /\ UNCHANGED <<part, governanceVars, vars>>
  \/ /\ \/ part = "ratios" /\ Ratios!GovernanceNext
        \/ part = "swaps" /\ GovernanceNext
     /\ UNCHANGED <<part, cdpVars, vars>>
  \/ /\ \/ part = "owners" /\ Owners!OperatorsNext /\ UNCHANGED <<orders, frozen, lastOrder>>
        \/ part = "book" /\ Book!Next
        \/ part = "cross" /\ Next
     /\ UNCHANGED <<part, cdpVars, governanceVars>>

MoneySpec == MoneyInit /\ [][MoneyNext]_<<part, cdpVars, governanceVars, vars>>

(* Proposals differ by their ids only.                                      *)
Symmetry == Permutations({p1, p2, p3})

=============================================================================
