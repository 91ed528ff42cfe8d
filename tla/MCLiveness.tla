----------------------------- MODULE MCLiveness -----------------------------
(***************************************************************************)
(* Small instances of the modules that promise that something happens in   *)
(* the end.  They share no state; each behaviour is one of one instance,   *)
(* named by part, and the variables of the others stay as they were.       *)
(*                                                                         *)
(*   "activation"  FinalityNode (the constants of the configuration)       *)
(*   "arrival"     BlockDownload, with an honest peer                      *)
(*   "orphans"     Orphans                                                 *)
(*   "interest"    CdpSettle, with one pair of coins                       *)
(*   "pairs"       CdpSettle, with two that share the counter              *)
(*   "packing"     Packing, without a limit of time                        *)
(***************************************************************************)
EXTENDS MCFinalityNode

VARIABLES
  part,
  cdp, tx,  \* the position and the transaction whose promise is checked
  connected, closing, toDownload, inFlight, mapToDownload, mapInFlight,
  asked, have, thread, crashed,
  indexed, orphans, ordered, emptied,
  heights, age,
  hash, pool, confirmed, phase, todo, order, block, rejected

nodeVars     == vars
downloadVars == <<connected, closing, toDownload, inFlight, mapToDownload,
                  mapInFlight, asked, have, thread, crashed>>
orphanVars   == <<indexed, orphans, ordered, emptied>>
interestVars == <<heights, age>>
packingVars  == <<hash, pool, confirmed, phase, todo, order, block, rejected>>

-----------------------------------------------------------------------------
Arrival ==
  INSTANCE BlockDownload
    WITH Peer <- {"p1", "p2"}, Hash <- {"b1", "b2"}, Honest <- {"p1"},
         MaxInTransit <- 1, RaceAllowed <- FALSE, Nobody <- "nobody"

(* Two chains of four blocks; 5 is refused, and waited for by 6 and 7.      *)
OrphanParent == [b \in 0 .. 8 |-> IF b \in {0, 1} THEN 0 ELSE IF b = 5 THEN 1 ELSE b - 1]
OrphanHeight == [b \in 0 .. 8 |-> IF b < 5 THEN b ELSE b - 3]
OrphanChain  == [b \in 0 .. 8 |-> IF b < 5 THEN 0 .. b ELSE {0, 1} \cup 5 .. b]

Pool ==
  INSTANCE Orphans
    WITH Block <- 0 .. 8, Genesis <- 0, Parent <- OrphanParent,
         Height <- OrphanHeight, Chain <- OrphanChain, Bad <- {5}, MaxOrphans <- 2

(* One pair, and one position more than a list holds.                       *)
PairOfEach == [c \in 1 .. 3 |-> "WICC"]

Interest ==
  INSTANCE CdpSettle
    WITH Position <- 1 .. 3, Pairs <- <<"WICC">>, PairOf <- PairOfEach,
         Cycle <- 3, SettleLimit <- 2, Wrap <- 16, index <- heights

(* Two pairs, either with as many positions as a list holds.  Nobody closes *)
(* one (with one pair they do), so the two of a pair can change places: one *)
(* promise of each pair is enough.                                          *)
PairOfTwo == [c \in 1 .. 4 |-> IF c <= 2 THEN "WICC" ELSE "WETH"]

Wrapping ==
  INSTANCE CdpSettle
    WITH Position <- 1 .. 4, Pairs <- <<"WICC", "WETH">>, PairOf <- PairOfTwo,
         Cycle <- 4, SettleLimit <- 2, Wrap <- 16, index <- heights

(* A price feed and three others: one pays most but needs another one, one  *)
(* burns much; all but the feed pay something.                              *)
PackedTx == {"feed", "rich", "heavy", "poor"}

Table(f, r, h, p, m, s) ==
  [feed |-> f, rich |-> r, heavy |-> h, poor |-> p, median |-> m, settle |-> s]

PackedPriority == Table(20000, 4, 5, 3, 10000, 1000)
PackedFees     == Table(1, 2, 1, 1, 0, 0)
PackedSize     == Table(2, 2, 2, 3, 1, 1)
PackedFuel     == Table(0, 1, 4, 1, 0, 0)
PackedNeeds    == [t \in PackedTx |-> IF t = "rich" THEN {"poor"} ELSE {}]
Ascending      == Table(1, 2, 3, 4, 5, 6)
PackedHashes   == {Ascending, Table(6, 5, 4, 3, 2, 1)}

Drain ==
  INSTANCE Packing
    WITH Tx <- PackedTx, Median <- "median", Settle <- "settle",
         Priority <- PackedPriority, FeePerKb <- PackedFees, Size <- PackedSize,
         Fuel <- PackedFuel, Needs <- PackedNeeds, Hashes <- PackedHashes,
         MaxSize <- 7, MaxFuel <- 5, TimeLimit <- FALSE

ASSUME LivenessAssumptions ==
  /\ Arrival!DownloadAssumption
  /\ Pool!OrphansAssumption
  /\ Interest!CdpSettleAssumption /\ Wrapping!CdpSettleAssumption
  /\ Drain!PackingAssumption

-----------------------------------------------------------------------------
LiveInit ==
  /\ part \in {"activation", "arrival", "orphans", "interest", "pairs", "packing"}
  /\ Init /\ Arrival!DownloadInit /\ Pool!OrphansInit /\ Drain!PackingInit
  /\ IF part = "pairs" THEN Wrapping!Init ELSE Interest!Init
  /\ part # "packing" => hash = Ascending
  /\ cdp \in CASE part = "interest" -> 1 .. 3 [] part = "pairs" -> {1, 3} [] OTHER -> {1}
  /\ tx \in IF part = "packing" THEN PackedTx ELSE {"feed"}

LiveNext ==
  \/ /\ part = "activation" /\ Next
     /\ UNCHANGED <<part, cdp, tx, downloadVars, orphanVars, interestVars, packingVars>>
  \/ /\ part = "arrival" /\ Arrival!DownloadNext
     /\ UNCHANGED <<part, cdp, tx, nodeVars, orphanVars, interestVars, packingVars>>
  \/ /\ part = "orphans" /\ Pool!OrphansNext
     /\ UNCHANGED <<part, cdp, tx, nodeVars, downloadVars, interestVars, packingVars>>
  \/ /\ \/ part = "interest" /\ Interest!Next
        \/ part = "pairs" /\ (Wrapping!ProduceBlock({}) \/ \E c \in 1 .. 4 : Wrapping!Touch(c))
     /\ UNCHANGED <<part, cdp, tx, nodeVars, downloadVars, orphanVars, packingVars>>
  \/ /\ part = "packing" /\ Drain!PackingNext
     /\ UNCHANGED <<part, cdp, tx, nodeVars, downloadVars, orphanVars, interestVars>>

(* The fairness of each module, of the part that runs.                      *)
ArrivalFairness ==
  /\ WF_downloadVars(part = "arrival" /\ Arrival!AddBlockToQueue)
  /\ SF_downloadVars(part = "arrival" /\ Arrival!SendMessages("p1"))
  /\ \A b \in {"b1", "b2"} :
       /\ SF_downloadVars(part = "arrival" /\ Arrival!Timeout(b) /\ thread = Arrival!Idle)
       /\ SF_downloadVars(part = "arrival" /\ Arrival!Inv("p1", b) /\ Arrival!Wanted(b))
       /\ SF_downloadVars(part = "arrival" /\ Arrival!Receive("p1", b)
                            /\ <<"p1", b>> \in asked)

OrphanFairness ==
  \A b \in 1 .. 8 : WF_orphanVars(part = "orphans" /\ Pool!ProcessBlock(b))

LiveSpec ==
  /\ LiveInit /\ [][LiveNext]_<<part, cdp, tx, nodeVars, downloadVars, orphanVars, interestVars,
                               packingVars>>
  /\ Fairness
  /\ ArrivalFairness
  /\ OrphanFairness
  /\ WF_interestVars(\/ part = "interest" /\ Interest!ProduceBlock({})
                     \/ part = "pairs" /\ Wrapping!ProduceBlock({}))
  /\ WF_packingVars(part = "packing" /\ Drain!PackBlock)

-----------------------------------------------------------------------------
(* The pool of orphans holds one block more than MAX_ORPHAN_BLOCKS at most, *)
(* the ordered set that PruneOrphanBlocks reads holds nothing freed and is  *)
(* not empty when its last element is read, and no orphan waits for a block *)
(* the node has.  With one pair the producer makes no list of CDPs that     *)
(* CheckTx refuses for its size.                                            *)
WaitingIsBounded ==
  /\ part = "orphans" => Pool!OrphansAgree
  /\ part = "interest" => Interest!TypeOK /\ Interest!ListWithinLimit

(* A peer that stalls, or leaves with a block in its queue, delays a block  *)
(* but never keeps it away from a node with an honest peer (SendMessages).  *)
(* In whatever order blocks arrive and whatever is dropped, every block     *)
(* with no refused ancestor is indexed in the end (ProcessBlock).           *)
EveryBlockArrives ==
  /\ part = "arrival" ~> {"b1", "b2"} \subseteq have
  /\ part = "orphans" ~> 1 .. 4 \subseteq indexed

Overdue ==
  \/ part = "interest" /\ Interest!Open(cdp) /\ Interest!Due(cdp)
  \/ part = "pairs" /\ Wrapping!Open(cdp) /\ Wrapping!Due(cdp)

(* The counter has wrapped, and CheckTx refuses the list for its size.      *)
Wrapped == part = "pairs" /\ ~Wrapping!ListWithinLimit

(* Interest unpaid for a cycle is converted into debt in the end (scoin.h,  *)
(* CDP_CONVERT_INTEREST_TO_DEBT_DAYS); with one pair always, with two that  *)
(* share the counter unless it wraps: nothing else keeps interest unpaid.   *)
DueIsSettled == Overdue ~> ~Overdue \/ Wrapped

Waits == part = "packing" /\ tx \in pool

(* Every transaction gets into a block, also one that is tried before the   *)
(* one it needs, unless a rescan drops it for what it needs.                *)
EveryTxIsPacked ==
  Waits ~> tx \in confirmed \/ (tx = "rich" /\ ~Waits)
=============================================================================
