---------------------------- MODULE MCProduction ----------------------------
(***************************************************************************)
(* Small instances of the modules that say who makes blocks and what is in *)
(* them.  They share no state; each behaviour is one of one instance,      *)
(* named by part, and the variables of the others stay as they were.       *)
(*                                                                         *)
(*   "votes"    Delegates: two voters and three candidates across V2, V3   *)
(*              and V35                                                    *)
(*   "lists"    Delegates across V3 and V35: slots, the delay, new         *)
(*              parameters                                                 *)
(*   "turns"    Producer: one list, turns of one interval                  *)
(*   "elected"  Producer: votes change the list, turns of two intervals    *)
(*   "packing"  Packing: every order of hashes, limits that bite           *)
(*                                                                         *)
(* The configuration's constants are those of lists, elected and packing;  *)
(* the parts on delegates have the same accounts, coins, slots and V2, so  *)
(* what their module says holds in both.                                   *)
(***************************************************************************)
EXTENDS Producer, Delegates, Packing

VARIABLES
  part,
  tChain, tClock, tPc, tPrev, tStart, tMiner, tNextSlot, tAsleep, tTried, tRefused

turnVars == <<tChain, tClock, tPc, tPrev, tStart, tMiner, tNextSlot, tAsleep,
              tTried, tRefused>>

-----------------------------------------------------------------------------
(* Votes in three blocks before V3 and one of V35.                          *)
Votes ==
  INSTANCE Delegates
    WITH V3 <- 5, V35 <- 6, NewBpsSize <- {}, MinVotes <- {0}, MaxOps <- 2, MaxTxs <- 3,
         MaxHeight <- 6

-----------------------------------------------------------------------------
(* A shuffle that differs by round. *)
Draws == [r \in 0 .. 9 |-> IF r % 2 = 0 THEN <<0, 1, 2>> ELSE <<1, 1, 1>>]

(* One list for all heights; lists that votes change at 2 and again at 3. *)
OneList  == [h \in 1 .. 4 |-> <<"a", "b">>]
NewLists == <<<<"a", "b">>, <<"c", "a">>, <<"b", "a">>, <<"b", "a">>>>

Turns ==
  INSTANCE Producer
    WITH ListAt <- OneList, Continuous <- 1, MaxTime <- 10,
         chain <- tChain, clock <- tClock, pc <- tPc, prev <- tPrev, start <- tStart,
         miner <- tMiner, nextSlot <- tNextSlot, asleep <- tAsleep, tried <- tTried,
         refused <- tRefused

-----------------------------------------------------------------------------
(* A price feed and three others: one pays most but needs the one that pays *)
(* least, one burns much and pays as the last does.                         *)
PackedTx == {"feed", "rich", "heavy", "poor"}

Table(f, r, h, p, m, s) ==
  [feed |-> f, rich |-> r, heavy |-> h, poor |-> p, median |-> m, settle |-> s]

(* PRICE_FEED, ordinary ones by size, PRICE_MEDIAN, the ceiling. *)
PackedPriority == Table(20000, 4, 5, 3, 10000, 1000)
PackedFees     == Table(1, 2, 1, 0, 0, 0)
PackedSize     == Table(2, 2, 2, 3, 1, 1)
PackedFuel     == Table(0, 1, 4, 1, 0, 0)
PackedNeeds    == [t \in PackedTx |-> IF t = "rich" THEN {"poor"} ELSE {}]

(* The median's hash never matters: no other priority is near its own. *)
PackedHashes ==
  {h \in [DOMAIN PackedFees -> 1 .. 6] :
     /\ h["median"] = 6
     /\ \A t, u \in DOMAIN PackedFees : t # u => h[t] # h[u]}

ASSUME ProductionAssumptions ==
  /\ DelegatesAssumption /\ Votes!DelegatesAssumption
  /\ ProducerAssumption /\ Turns!ProducerAssumption
  /\ PackingAssumption

-----------------------------------------------------------------------------
ProductionInit ==
  /\ part \in {"votes", "lists", "turns", "elected", "packing"}
  /\ DelegatesInit
  /\ part # "lists" => minVote = 0
  /\ Init /\ Turns!Init /\ PackingInit
  /\ part # "packing" => hash = Table(1, 2, 3, 4, 6, 5)

ProductionNext ==
  \/ /\ \/ part = "votes" /\ Votes!DelegatesNext
        \/ part = "lists" /\ DelegatesNext
     /\ UNCHANGED <<part, vars, turnVars, packingVars>>
  \/ /\ part = "turns" /\ Turns!Next
     /\ UNCHANGED <<part, vars, delegateVars, packingVars>>
  \/ /\ part = "elected" /\ Next
     /\ UNCHANGED <<part, delegateVars, turnVars, packingVars>>
  \/ /\ part = "packing" /\ PackingNext
     /\ UNCHANGED <<part, vars, delegateVars, turnVars>>

ProductionSpec ==
  ProductionInit
    /\ [][ProductionNext]_<<part, vars, delegateVars, turnVars, packingVars>>

-----------------------------------------------------------------------------
(* There is always somebody to make the next block, and he does: a chain    *)
(* that has active delegates never loses them all (GenPendingDelegates),    *)
(* and the thread tries every turn that is its own and in which a block may *)
(* be made (CoinMiner).                                                     *)
ProducersGoOn ==
  [][SomeStayActive /\ Turns!TurnTried]_<<delegateVars, turnVars>>
=============================================================================
