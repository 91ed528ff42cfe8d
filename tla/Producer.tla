------------------------------ MODULE Producer ------------------------------
(***************************************************************************)
(* Whose turn it is to produce a block, and the thread of a node that      *)
(* produces when the turn is its own.                                      *)
(*                                                                         *)
(* Time is cut into intervals, and Continuous intervals are a turn.  The   *)
(* turns go round the list of active delegates, which is shuffled anew for *)
(* every round.  A block is accepted only an interval or more after its    *)
(* parent and only from the delegate whose turn it is by its time.         *)
(*                                                                         *)
(* ThreadBlockProducing takes its decisions in three steps, with cs_main   *)
(* free in between: it reads the tip and the time, asks with the delegates *)
(* active then whose turn it is, and produces.  The chain may have moved   *)
(* between any two of them.                                                *)
(*                                                                         *)
(* The model is of one release after version 3: the interval and the       *)
(* number of intervals in a turn do not change with the height.  A chain   *)
(* is the sequence of its blocks after the genesis block, at time 0.  What *)
(* a block packs is in Packing.                                            *)
(***************************************************************************)
EXTENDS Integers, Sequences, SequencesExt, FiniteSets, FiniteSetsExt

CONSTANTS
  ListAt,      \* the delegates active for the block of each height
  Draw,        \* the numbers drawn from the hash of each seed
  Mine,        \* the delegates whose keys are in the wallet
  Interval,    \* GetBlockInterval, in seconds
  Continuous,  \* GetContinuousBlockProduceCount
  Patience,    \* an hour: no block is made on a tip older than that
  MaxTime      \* bound: seconds of the model

VARIABLES
  chain,     \* the active chain
  clock,     \* the time of the node
  pc,        \* the step of the thread: "look", "ask" or "produce"
  prev,      \* pPrevIndex: the chain the thread has looked at
  start,     \* startMiningMs, in seconds
  miner,     \* spMiner->delegate
  nextSlot,  \* nextSlotTime
  asleep,    \* the thread has looked at this second and this tip
  tried,     \* the last interval the thread tried to produce in
  refused    \* a block of the thread has been refused by its own node

vars == <<chain, clock, pc, prev, start, miner, nextSlot, asleep, tried, refused>>
thread == <<pc, prev, start, miner, nextSlot, tried, refused>>

TipTime(ch) == IF ch = <<>> THEN 0 ELSE Last(ch).time

(* The turns before a time; they are the seed of the shuffle.               *)
GetShuffleOriginSeed(h, t) == (t \div Interval) \div Continuous

(* The numbers of the rounds: a round begins with the second turn of the    *)
(* list, for the seed is divided by the number of delegates rounding up.    *)
Round(seed, n) == (seed \div n) + (IF seed % n > 0 THEN 1 ELSE 0)

(* Lists have delegates and none twice; numbers are drawn for every round.  *)
ProducerAssumption ==
  /\ Interval \in Nat \ {0} /\ Continuous \in Nat \ {0} /\ MaxTime \in Nat
  /\ Patience \in Nat
  /\ ListAt \in Seq(Range(ListAt))
  /\ \A h \in DOMAIN ListAt :
       /\ ListAt[h] \in Seq(Range(ListAt[h])) /\ ListAt[h] # <<>> /\ IsInjective(ListAt[h])
       /\ \A t \in 0 .. MaxTime, i \in 1 .. Len(ListAt[h]) :
            Draw[Round(GetShuffleOriginSeed(h, t), Len(ListAt[h]))][i] \in Nat

Swapped(s, i, j) == [s EXCEPT ![i] = s[j], ![j] = s[i]]

(* Every place but each fifth changes with a drawn one.                     *)
ShuffleDelegates(list, h, t) ==
  LET n == Len(list)
      drawn == Draw[Round(GetShuffleOriginSeed(h, t), n)]
  IN  FoldLeft(LAMBDA s, i : IF i % 5 = 0 THEN s ELSE Swapped(s, i, (drawn[i] % n) + 1),
               list, [i \in 1..n |-> i])

GetCurrentDelegate(list, h, t) ==
  LET turn == (t \div Interval) \div Continuous
  IN  ShuffleDelegates(list, h, t)[(turn % Len(list)) + 1]

TooEarly(ch, b) == b.time <= TipTime(ch) \/ b.time - TipTime(ch) < Interval

(* VerifyRewardTx: the delegate of the turn, and not twice in an interval.  *)
VerifyRewardTx(ch, b) ==
  /\ b.by = GetCurrentDelegate(ListAt[Len(ch) + 1], Len(ch) + 1, b.time)
  /\ ch # <<>> /\ b.time - TipTime(ch) < Interval => Last(ch).by # b.by

(* ProcessBlock of a block on top of ch: CheckBlock, AcceptBlock and        *)
(* ConnectBlock, as far as time and producer go.                            *)
Accepted(ch, b) ==
  /\ Len(ch) + 1 \in DOMAIN ListAt
  /\ b.time <= clock + Interval + 2
  /\ ~TooEarly(ch, b)
  /\ VerifyRewardTx(ch, b)

Blocks == [time : 0..MaxTime, by : UNION {Range(ListAt[h]) : h \in DOMAIN ListAt}]

Extensions(ch) == {b \in Blocks : Accepted(ch, b)}

Init ==
  /\ chain = <<>> /\ clock = 0
  /\ pc = "look" /\ prev = <<>> /\ start = 0 /\ nextSlot = 0
  /\ miner = ListAt[1][1]
  /\ asleep = FALSE /\ tried = -1 /\ refused = FALSE
-----------------------------------------------------------------------------
(* What the loop has read is forgotten at its end.                           *)
LoopAgain == pc' = "look" /\ prev' = <<>> /\ start' = 0 /\ miner' = ListAt[1][1]

(* The thread reads tip and time, and waits for the next slot.              *)
SlotTime(ch) == Max({nextSlot, TipTime(ch) + Interval})

(* A tip that old is taken for that of a node which is out of touch.        *)
Obsolete(ch) == Len(ch) > 1 /\ clock - TipTime(ch) > Patience

Look ==
  /\ pc = "look" /\ ~asleep
  /\ Len(chain) + 1 \in DOMAIN ListAt
  /\ IF Obsolete(chain) \/ clock < SlotTime(chain)
       THEN asleep' = TRUE /\ UNCHANGED <<pc, prev, start>>
       ELSE pc' = "ask" /\ prev' = chain /\ start' = clock /\ UNCHANGED asleep
  /\ UNCHANGED <<chain, clock, miner, nextSlot, tried, refused>>

(* miner key not in the wallet: on to the next slot.                        *)
SkipSlot(slot) == Max({slot + Interval, start - (start % Interval)})

(* GetMiner: the delegates are those of the tip, which may have moved, the  *)
(* height is that of the tip looked at.                                     *)
GetMiner ==
  /\ pc = "ask"
  /\ Len(chain) + 1 \in DOMAIN ListAt
  /\ LET d == GetCurrentDelegate(ListAt[Len(chain) + 1], Len(prev) + 1, start)
     IN  \/ /\ d \in Mine
            /\ pc' = "produce" /\ miner' = d
            /\ UNCHANGED <<prev, start, nextSlot, asleep>>
         \/ /\ d \notin Mine
            /\ nextSlot' = SkipSlot(SlotTime(prev))
            /\ asleep' = (start = clock)
            /\ LoopAgain
  /\ UNCHANGED <<chain, clock, tried, refused>>

(* Mutant: the tip is not compared with the one looked at.                  *)
NeverMoved == FALSE

TipHasMoved == prev # chain

(* CheckPackBlockTime, at the beginning of ProduceBlock.                    *)
TimeIsUp == clock - start > Max({1, Interval - 1})

NewBlock == [time |-> start, by |-> miner]

(* The block is built on the tip and processed like one from a peer.        *)
Produce ==
  /\ pc = "produce"
  /\ IF TipHasMoved
       THEN UNCHANGED <<chain, asleep, tried, refused>>
       ELSE /\ tried' = start \div Interval
            /\ \/ /\ ~TimeIsUp /\ Accepted(chain, NewBlock)
                  /\ chain' = Append(chain, NewBlock)
                  /\ UNCHANGED <<asleep, refused>>
               \/ /\ TimeIsUp \/ ~Accepted(chain, NewBlock)
                  /\ refused' = (refused \/ ~TimeIsUp)
                  /\ asleep' = (start = clock)
                  /\ UNCHANGED chain
  /\ LoopAgain
  /\ UNCHANGED <<clock, nextSlot>>
-----------------------------------------------------------------------------
(* A block of a peer arrives; also one of an own delegate, which another    *)
(* node with the same key or this node before a restart has made.           *)
Receive ==
  /\ \E b \in Extensions(chain) : chain' = Append(chain, b)
  /\ asleep' = FALSE
  /\ UNCHANGED <<clock, thread>>

(* The last block gives way to two others.                                  *)
Reorganise ==
  /\ chain # <<>>
  /\ \E b \in Extensions(Front(chain)) \ {Last(chain)} :
       \E d \in Extensions(Append(Front(chain), b)) :
         chain' = Front(chain) \o <<b, d>>
  /\ asleep' = FALSE
  /\ UNCHANGED <<clock, thread>>

(* A second passes.  A thread that waits looks ten times a second, one that *)
(* is at work may be slow.                                                  *)
Tick ==
  /\ clock < MaxTime
  /\ asleep \/ pc # "look"
  /\ clock' = clock + 1
  /\ asleep' = FALSE
  /\ UNCHANGED <<chain, thread>>

(* The node is stopped and started; blocks not yet on disk are lost.        *)
Restart(n) ==
  /\ chain' = SubSeq(chain, 1, n)
  /\ LoopAgain
  /\ nextSlot' = 0 /\ asleep' = FALSE
  /\ UNCHANGED <<clock, tried, refused>>

Next ==
  \/ Look \/ GetMiner \/ Produce
  \/ Receive \/ Reorganise \/ Tick
  \/ \E n \in 0..Len(chain) : Restart(n)

Spec == Init /\ [][Next]_vars
-----------------------------------------------------------------------------
(* Types; the thread makes blocks for its own delegates only, and never puts *)
(* itself off by more than an interval from now.                            *)
TypeOK ==
  /\ chain \in Seq(Blocks) /\ Len(chain) <= Cardinality(DOMAIN ListAt)
  /\ clock \in 0..MaxTime /\ start \in 0..clock
  /\ pc \in {"look", "ask", "produce"}
  /\ asleep \in BOOLEAN /\ refused \in BOOLEAN
  /\ nextSlot \in 0..(clock + Interval)
  /\ tried \in -1..(MaxTime \div Interval)
  /\ pc = "produce" => miner \in Mine

(* A chain has at most one block of any interval, whatever the delegates    *)
(* do and however their lists change: the comment of VerifyRewardTx, one    *)
(* delegate no more than one block at the same slot, for all delegates.     *)
OneBlockPerInterval ==
  \A i, j \in DOMAIN chain :
    i # j => chain[i].time \div Interval # chain[j].time \div Interval

(* While the list of delegates stays, nobody gets more than his turn in a   *)
(* round: a delegate has at most Continuous blocks of each round.           *)
RoundsAreFair ==
  \A i \in DOMAIN chain :
    LET n == Len(ListAt[i])
        Of(j) == Round((chain[j].time \div Interval) \div Continuous, n)
    IN  Cardinality({j \in DOMAIN chain : /\ ListAt[j] = ListAt[i]
                                          /\ Of(j) = Of(i)
                                          /\ chain[j].by = chain[i].by}) <= Continuous

(* The thread asks whose turn it is without the lock and with delegates     *)
(* that may not be those of the tip it has looked at.  A block it goes on   *)
(* to make is never refused by the checks of its own node.                  *)
OwnBlocksStand == ~refused

(* Turns are kept by all, and the node keeps to its own.                    *)
TurnsAreKept == OneBlockPerInterval /\ RoundsAreFair /\ OwnBlocksStand

(* A block could be made now, in a turn of the wallet's.                    *)
MyTurn ==
  /\ Len(chain) + 1 \in DOMAIN ListAt
  /\ ~Obsolete(chain) /\ TipTime(chain) + Interval <= clock
  /\ GetCurrentDelegate(ListAt[Len(chain) + 1], Len(chain) + 1, clock) \in Mine

(* The thread waits out no interval of its turn: when the clock leaves one  *)
(* in which a block could still have been made, the thread has tried to.    *)
TurnTried ==
  (clock' # clock /\ clock' % Interval = 0 /\ pc = "look" /\ MyTurn)
    => tried = clock \div Interval
=============================================================================
