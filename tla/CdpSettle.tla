----------------------------- MODULE CdpSettle -----------------------------
(***************************************************************************)
(* The choice of the positions whose interest a block turns into debt.     *)
(* The producer walks the height index of each coin pair, oldest first,    *)
(* and puts what is due into one CCDPInterestForceSettleTx.  The           *)
(* transaction is taken or refused as a whole; when it is refused, the     *)
(* block is made without it and the next one tries again.                  *)
(*                                                                         *)
(* The limit is a uint32_t counter shared by the pairs, which is           *)
(* decremented before it is tested: a pair that stops at zero lets the     *)
(* next one wrap it around.  Heights are kept as ages, and an index as the *)
(* sequence of its positions.  All prices are fed and no pair is below its *)
(* floor.                                                                  *)
(***************************************************************************)
EXTENDS Integers, Sequences, FiniteSets, FiniteSetsExt, SequencesExt

CONSTANTS
  Position,    \* numbered in the order of their ids
  Pairs,       \* sequence of the coin pairs, in the order of their set
  PairOf,      \* the pair of each position
  Cycle,       \* blocks after which interest is due
  SettleLimit, \* CDP_SETTLE_INTEREST_MAX_COUNT
  Wrap         \* 2^w, the width of the counter

Pair == Range(Pairs)

CdpSettleAssumption ==
  /\ Position \subseteq Nat /\ PairOf \in [Position -> Pair]
  /\ Cycle \in Nat \ {0} /\ SettleLimit \in Nat \ {0}
  /\ Wrap \in Nat /\ Wrap > SettleLimit /\ Wrap > Cardinality(Position)

VARIABLES
  index, \* the height index of each pair
  age    \* blocks since the last settlement, at most Cycle

vars == <<index, age>>

Due(c) == age[c] = Cycle

DueIn(p) == SelectSeq(index[p], Due)

(* GetSettledInterestCdps of one pair.  The positions that are due come    *)
(* first in the index; count-- makes 2^w - 1 of 0.                         *)
Collect(s, p) ==
  LET due   == DueIn(p)
      steps == IF s.count = 0 THEN Wrap ELSE s.count
  IN  IF Len(due) < steps
      THEN [list |-> s.list \o due, count |-> (s.count - Len(due)) % Wrap]
      ELSE [list |-> s.list \o SubSeq(due, 1, steps - 1), count |-> 0]

(* Mutant: one less than the limit to begin with.                           *)
OneLess == SettleLimit - 1

FirstCount == SettleLimit

CdpList == FoldLeft(Collect, [list |-> <<>>, count |-> FirstCount], Pairs).list

(* CheckTx and ExecuteTx: all of the list, or nothing.                      *)
Accepted(list, closed) ==
  Len(list) \in 1 .. SettleLimit /\ \A i \in DOMAIN list : list[i] \notin closed

Rekeyed(seq, settled) ==
  SelectSeq(seq, LAMBDA c : c \notin settled) \o SelectSeq(seq, LAMBDA c : c \in settled)

(* A block.  Its first transactions set prices and may close a position    *)
(* that the list, which was made before, still names.                      *)
ProduceBlock(closed) ==
  LET settled == IF Accepted(CdpList, closed) THEN Range(CdpList) ELSE {}
      left(p) == SelectSeq(index[p], LAMBDA c : c \notin closed)
  IN  /\ index' = [p \in Pair |-> Rekeyed(left(p), settled)]
      /\ age' = [c \in Position |-> IF c \in settled THEN 1 ELSE Min({age[c] + 1, Cycle})]

Produce ==
  \E closed \in {{}} \cup {{c} : c \in Position} :
    closed \subseteq UNION {Range(index[p]) : p \in Pair} /\ ProduceBlock(closed)

(* The owner stakes or redeems, and pays his interest himself.              *)
Touch(c) ==
  LET p == PairOf[c]
  IN  /\ c \in Range(index[p])
      /\ index' = [index EXCEPT ![p] = Rekeyed(@, {c})]
      /\ age' = [age EXCEPT ![c] = 0]

(* All positions of a pair are opened in one block; Touch spreads them.     *)
Init ==
  /\ age = [c \in Position |-> 0]
  /\ index = [p \in Pair |-> SetToSortSeq({c \in Position : PairOf[c] = p}, <)]

Next == Produce \/ \E c \in Position : Touch(c)

Spec == Init /\ [][Next]_vars

(* The delegates go on producing blocks, and nobody has to be liquidated.   *)
FairSpec == Spec /\ WF_vars(ProduceBlock({}))

----------------------------------------------------------------------------
Open(c) == c \in Range(index[PairOf[c]])

(* The types, and the order of the indexes: by height, oldest first.        *)
TypeOK ==
  /\ age \in [Position -> 0 .. Cycle]
  /\ DOMAIN index = Pair
  /\ \A p \in Pair :
       /\ IsInjective(index[p]) /\ \A c \in Range(index[p]) : PairOf[c] = p
       /\ \A i, j \in DOMAIN index[p] : i < j => age[index[p][i]] >= age[index[p][j]]

(* The producer never makes a list that CheckTx refuses for its size.       *)
ListWithinLimit == Len(CdpList) <= SettleLimit

(* Interest unpaid for a cycle is in the end converted into debt (scoin.h, *)
(* CDP_CONVERT_INTEREST_TO_DEBT_DAYS).                                      *)
InterestBecomesDebt == \A c \in Position : (Open(c) /\ Due(c)) ~> (~Open(c) \/ ~Due(c))
=============================================================================
