------------------------- MODULE FinalityNodeProofs -------------------------
(***************************************************************************)
(* Finality inside one node, for every block tree, every set of delegates  *)
(* and every choice of the windows and limits.  Types, and which votes a   *)
(* node sends, are proved for every way its threads interleave; where the  *)
(* final blocks lie and what backs them, for blocks processed by the       *)
(* message thread only (with other threads it is not so: FinalityNode).    *)
(***************************************************************************)
EXTENDS FinalityNode, FiniteSetTheorems, TLAPS

(* A vote is handled only while no block is being processed. *)
Alternate == msgPc # "idle" => chainPc = "idle"

(* A vote that is on its way to an update was counted on the active chain. *)
MessageCounted ==
  /\ msgPc \in {"save", "update"} => msg \in Vote
  /\ msgPc = "update" => /\ msg.block \in Chain[tip]
                         /\ Parent[msg.block] \in minersOf

(* Past the walk, the target of a reorganisation holds both final blocks. *)
TargetKeepsFin ==
  chainPc = "activate" =>
    /\ mostWork \in Block
    /\ localFin \in Chain[mostWork]
    /\ GlobalFinHash \in Chain[mostWork]

(* What UpdateGlobalFinBlock writes goes to the memory and to the cache. *)
CacheCurrent == globalFin # NoBlock => finCache = globalFin

(***************************************************************************)
(* After a restart the guards of UpdateGlobalFinBlock know no finality; a  *)
(* block whose parent has a miner list is still above the persisted one.   *)
(***************************************************************************)
MinersAboveFin == globalFin = NoBlock => \A m \in minersOf : finCache \in Chain[m]

(* The cache is never behind the disk. *)
DiskFinBehind == disk.fin \in Chain[finCache]

(* The parts of it that types need, and that hold whatever other threads do. *)
Typed ==
  /\ msgPc \in {"save", "update"} => msg \in Vote
  /\ chainPc = "activate" => mostWork \in Block

IInv ==
  /\ TypeOK
  /\ Alternate
  /\ MessageCounted
  /\ LocalFinOnChain
  /\ GlobalFinOnChain
  /\ TargetKeepsFin
  /\ CacheCurrent
  /\ DiskFinOnDiskChain
  /\ MinersAboveFin
  /\ DiskFinBehind

(* Without restarts, the current final block is above all earlier ones. *)
FinalGrows == everFinal \subseteq Chain[GlobalFinIndex] /\ GlobalFinIndex = GlobalFinHash
-----------------------------------------------------------------------------
(* Chains. *)

(* Every chain continues its parent's chain: what pprev stands for. *)
LEMMA ParentChain ==
  ASSUME NEW b \in Block
  PROVE  Parent[b] \in Block /\ Chain[Parent[b]] \subseteq Chain[b]
<1>1. CASE b = Genesis
  BY <1>1, BlockTreeAssumption
<1>2. CASE b # Genesis
  BY <1>2, BlockTreeAssumption
<1> QED
  BY <1>1, <1>2

(* Chains consist of blocks. *)
LEMMA ChainBlocks ==
  ASSUME NEW t \in Block, NEW b \in Chain[t]
  PROVE  b \in Block
BY BlockTreeAssumption

(* CChain::operator[] returns the block of that height. *)
LEMMA AtHeight ==
  ASSUME NEW t \in Block, NEW h \in 0 .. Height[t]
  PROVE  At(t, h) \in Chain[t] /\ Height[At(t, h)] = h
<1>1. PICK c \in Chain[t] : Height[c] = h
  BY BlockTreeAssumption
<1> QED
  BY <1>1 DEF At

(* The one block of a height on a chain is what CChain::operator[] returns. *)
LEMMA AtSelf ==
  ASSUME NEW t \in Block, NEW b \in Chain[t]
  PROVE  At(t, Height[b]) = b
<1>1. b \in Block /\ Height[b] \in 0 .. Height[t]
  BY BlockTreeAssumption
<1>2. At(t, Height[b]) \in Chain[t] /\ Height[At(t, Height[b])] = Height[b]
  BY <1>1, AtHeight
<1> QED
  BY <1>2, BlockTreeAssumption

(* ConnectTip's next block continues the active chain towards the target. *)
LEMMA NextBlock ==
  ASSUME NEW m \in Block, NEW t \in Chain[m], t # m
  PROVE  /\ At(m, Height[t] + 1) \in Block
         /\ Chain[t] \subseteq Chain[At(m, Height[t] + 1)]
<1> DEFINE n == At(m, Height[t] + 1)
<1>1. t \in Block /\ m \in Chain[m] /\ Height[t] <= Height[m]
  BY BlockTreeAssumption
<1>2. Height[t] \in Nat /\ Height[m] \in Nat
  BY <1>1, BlockTreeAssumption
<1>3. Height[t] # Height[m]
  BY <1>1, BlockTreeAssumption
<1>4. Height[t] + 1 \in 0 .. Height[m]
  BY <1>1, <1>2, <1>3
<1>5. n \in Chain[m] /\ Height[n] = Height[t] + 1
  BY <1>4, AtHeight
<1>6. n \in Block
  BY <1>5, ChainBlocks
<1>7. t \in Chain[n]
  BY <1>2, <1>5, BlockTreeAssumption
<1> QED
  BY <1>6, <1>7, BlockTreeAssumption

(* The search returns a member of the set, or the default. *)
LEMMA HighestOrMember ==
  ASSUME NEW S, NEW none, NEW c \in HighestOr(S, none)
  PROVE  c \in S \/ (S = {} /\ c = none)
BY DEF HighestOr

(* The searches only return blocks of the active chain with a miner list. *)
LEMMA FoundMember ==
  ASSUME NEW vs, NEW kind, NEW fin, NEW window,
         NEW c \in Found(vs, kind, fin, window)
  PROVE  c \in Chain[tip] /\ Parent[c] \in minersOf /\ c # Genesis
BY DEF Found, Quorum

(***************************************************************************)
(* A block that passes UpdateGlobalFinBlock's guards is above the block    *)
(* that GetGlobalFinBlockHash returned before.                             *)
(***************************************************************************)
LEMMA FinalizesAbove ==
  ASSUME TypeOK, GlobalFinOnChain, CacheCurrent, MinersAboveFin,
         NEW b \in Chain[tip], Parent[b] \in minersOf,
         Height[b] > Height[GlobalFinIndex]
  PROVE  GlobalFinHash \in Chain[b]
<1>1. b \in Block /\ tip \in Block
  BY ChainBlocks DEF TypeOK
<1>2. CASE globalFin = NoBlock
  BY <1>1, <1>2, ParentChain DEF GlobalFinHash, MinersAboveFin
<1>3. CASE globalFin # NoBlock
  <2>1. globalFin \in Chain[tip] /\ Height[b] > Height[globalFin]
    BY <1>3 DEF GlobalFinHash, GlobalFinIndex, GlobalFinOnChain
  <2>2. Height[globalFin] \in Nat /\ Height[b] \in Nat
    BY <1>1, <2>1, ChainBlocks, BlockTreeAssumption
  <2> QED
    BY <1>1, <1>3, <2>1, <2>2, BlockTreeAssumption DEF GlobalFinHash
<1> QED
  BY <1>2, <1>3
-----------------------------------------------------------------------------
(* Types. *)

(* An own vote is a vote. *)
LEMMA OwnVotesType ==
  ASSUME NEW kind \in Kind, NEW b \in Block
  PROVE  OwnVotes(kind, b) \subseteq Vote
BY NodeAssumption, BlockTreeAssumption DEF OwnVotes, Vote

(* FindMostWorkChain returns a block, or nullptr. *)
LEMMA MostWorkType ==
  ASSUME TypeOK, NEW m \in MostWorkChoices
  PROVE  m \in Block \cup {NoBlock}
<1> DEFINE popped  == mostWork # NoBlock /\ mostWork \in failed
           current == IF popped THEN Parent[mostWork] ELSE mostWork
<1>1. current \in Block \cup {NoBlock}
  BY BlockTreeAssumption DEF TypeOK
<1>2. Heaviest \subseteq Block
  BY DEF Heaviest, Candidates, TypeOK
<1>3. m \in Heaviest \cup {current}
  BY Zenon DEF MostWorkChoices
<1> QED
  BY <1>1, <1>2, <1>3

(* Finalize keeps the types. *)
LEMMA FinalizeType ==
  ASSUME TypeOK, NEW b \in Block, NEW allowed, Finalize(b, allowed)
  PROVE  /\ globalFin' \in Block \cup {NoBlock}
         /\ finCache' \in Block
         /\ everFinal' \subseteq Block
BY DEF Finalize, TypeOK

(* Every step keeps the types. *)
LEMMA TypeStep ==
  ASSUME TypeOK, [Next]_vars, Typed
  PROVE  TypeOK'
<1> USE DEF TypeOK, ChainPc, MsgPc, chainVars, finVars, voteVars, msgVars
<1>1. ASSUME NEW b \in Block, AcceptBlock(b) PROVE TypeOK'
  BY <1>1 DEF AcceptBlock
<1>2. CASE FindMostWorkChain
  <2>1. mostWork' \in Block
    BY <1>2, MostWorkType DEF FindMostWorkChain
  <2>2. localFin' \in Block /\ loosened' \in BOOLEAN /\ chainPc' \in ChainPc
    BY <1>2, BlockTreeAssumption DEF FindMostWorkChain
  <2> QED
    BY <1>2, <2>1, <2>2 DEF FindMostWorkChain
<1>3. CASE ConnectBlockOnFinChain
  BY <1>3 DEF ConnectBlockOnFinChain, MarkFailed, FlushWithTip
<1>4. CASE DisconnectTip
  BY <1>4, BlockTreeAssumption DEF DisconnectTip, FlushWithTip
<1>5. CASE ConnectTip
  <2>1. At(mostWork, Height[tip] + 1) \in Block
    BY <1>5, NextBlock DEF ConnectTip, ChainContains, Typed
  <2> QED
    BY <1>5, <2>1 DEF ConnectTip, MarkFailed, FlushWithTip
<1>6. CASE Activated
  BY <1>6 DEF Activated
<1>7. CASE FlushBlockCache
  BY <1>7 DEF FlushBlockCache, FlushWithTip
<1>8. ASSUME NEW recent \in BOOLEAN, PostAccept(recent) PROVE TypeOK'
  <2>1. CASE tip # newBlock
    BY <1>8, <2>1 DEF PostAccept
  <2>2. CASE tip = newBlock
    <3> DEFINE confirm == recent /\ MayAnnounce("confirm", tip)
               votes1  == IF confirm THEN votes \cup OwnVotes("confirm", tip) ELSE votes
               locals  == Found(votes1, "confirm", localFin, LocalWindow)
               vote    == VoteForTip(locals)
               votes2  == IF vote THEN votes1 \cup OwnVotes("finality", tip) ELSE votes1
               globals == Found(votes2, "finality", GlobalFinIndex, GlobalWindow)
    <3>1. /\ votes' = votes2
          /\ announced' = announced
               \cup (IF confirm THEN {<<"confirm", tip>>} ELSE {})
               \cup (IF vote THEN {<<"finality", tip>>} ELSE {})
          /\ localFin' \in HighestOr(locals, localFin)
          /\ stale' = (stale /\ locals = {})
          /\ minersOf' = minersOf \cup {tip}
      BY <1>8, <2>2 DEF PostAccept
    <3>2. PICK g \in HighestOr(globals, Genesis) :
            Finalize(g, locals # {} /\ MayFinalize(Height[g], localFin'))
      BY <1>8, <2>2 DEF PostAccept
    <3>3. votes2 \subseteq Vote
      BY OwnVotesType DEF Kind
    <3>4. localFin' \in Block
      BY <3>1, HighestOrMember, FoundMember, ChainBlocks
    <3>5. g \in Block
      BY <3>2, HighestOrMember, FoundMember, ChainBlocks, BlockTreeAssumption
    <3>6. /\ globalFin' \in Block \cup {NoBlock}
          /\ finCache' \in Block
          /\ everFinal' \subseteq Block
      BY <3>2, <3>5, FinalizeType
    <3>7. announced' \subseteq Kind \X Block
      BY <3>1 DEF Kind
    <3> HIDE DEF confirm, votes1, locals, vote, votes2, globals
    <3> QED
      BY <1>8, <2>2, <3>1, <3>3, <3>4, <3>6, <3>7 DEF PostAccept
  <2> QED
    BY <2>1, <2>2
<1>9. ASSUME NEW v \in Vote, CheckMessage(v) PROVE TypeOK'
  BY <1>9 DEF CheckMessage
<1>10. CASE SaveMessage
  BY <1>10 DEF SaveMessage, Typed
<1>11. CASE UpdateLocalFinBlock
  <2>1. /\ msg \in Vote
        /\ Height[msg.block] \in Nat
        /\ Height[localFin] \in Nat
        /\ Height[tip] \in Nat
    BY <1>11, BlockTreeAssumption DEF UpdateLocalFinBlock, Typed, Vote
  <2>2. Height[msg.block] <= Height[tip] => At(tip, Height[msg.block]) \in Block
    BY <2>1, AtHeight, ChainBlocks
  <2> QED
    BY <1>11, <2>2 DEF UpdateLocalFinBlock
<1>12. CASE UpdateGlobalFinBlock
  <2> DEFINE b == At(tip, Height[msg.block])
             allowed == MayFinalize(Height[msg.block], localFin)
  <2>0. Height[msg.block] \in Nat /\ Height[tip] \in Nat
    BY <1>12, BlockTreeAssumption DEF UpdateGlobalFinBlock, Typed, Vote
  <2>1. allowed => b \in Block
    BY <2>0, AtHeight, ChainBlocks DEF MayFinalize
  <2>2. Finalize(b, allowed)
    BY <1>12 DEF UpdateGlobalFinBlock
  <2>3. /\ globalFin' \in Block \cup {NoBlock}
        /\ finCache' \in Block
        /\ everFinal' \subseteq Block
    <3> HIDE DEF b, allowed
    <3> QED
      BY <2>1, <2>2 DEF Finalize
  <2> QED
    BY <1>12, <2>3 DEF UpdateGlobalFinBlock
<1>13. CASE AnnounceFinality
  BY <1>13, OwnVotesType DEF AnnounceFinality, Kind
<1>14. CASE LocalFinExpires
  BY <1>14 DEF LocalFinExpires
<1>15. CASE Restart
  BY <1>15, BlockTreeAssumption DEF Restart
<1>16. CASE UNCHANGED vars
  BY <1>16 DEF vars
<1> QED
  BY <1>1, <1>2, <1>3, <1>4, <1>5, <1>6, <1>7, <1>8, <1>9, <1>10, <1>11, <1>12,
     <1>13, <1>14, <1>15, <1>16 DEF Next, ChainNext, MessageNext
(* Each thread keeps the types of what it has read, whatever the other does. *)
LEMMA TypedStep ==
  ASSUME TypeOK, [Next]_vars, Typed
  PROVE  Typed'
<1> USE DEF Typed, chainVars, finVars, voteVars, msgVars
<1>1. ASSUME NEW b \in Block, AcceptBlock(b) PROVE Typed'
  BY <1>1 DEF AcceptBlock
<1>2. CASE FindMostWorkChain
  <2>1. mostWork' \in Block
    BY <1>2, MostWorkType DEF FindMostWorkChain
  <2> QED
    BY <1>2, <2>1 DEF FindMostWorkChain
<1>3. CASE PostAccept(TRUE) \/ PostAccept(FALSE)
  BY <1>3 DEF PostAccept
<1>4. CASE ConnectBlockOnFinChain \/ DisconnectTip \/ ConnectTip \/ Activated
           \/ FlushBlockCache
  BY <1>4 DEF ConnectBlockOnFinChain, DisconnectTip, ConnectTip, Activated, FlushBlockCache
<1>5. ASSUME NEW v \in Vote, CheckMessage(v) PROVE Typed'
  BY <1>5 DEF CheckMessage
<1>6. CASE SaveMessage
  BY <1>6 DEF SaveMessage
<1>7. CASE UpdateLocalFinBlock \/ UpdateGlobalFinBlock \/ AnnounceFinality
  BY <1>7 DEF UpdateLocalFinBlock, UpdateGlobalFinBlock, AnnounceFinality
<1>8. CASE LocalFinExpires \/ Restart \/ UNCHANGED vars
  BY <1>8 DEF LocalFinExpires, Restart, vars
<1> QED
  BY <1>1, <1>2, <1>3, <1>4, <1>5, <1>6, <1>7, <1>8 DEF Next, ChainNext, MessageNext
-----------------------------------------------------------------------------
(* The invariant of a node that processes blocks in its message thread.    *)

(* The finality block that a flush writes is on the active chain. *)
LEMMA FinCacheOnChain ==
  ASSUME GlobalFinOnChain, CacheCurrent
  PROVE  GlobalFinHash = finCache /\ finCache \in Chain[tip]
BY DEF GlobalFinOnChain, CacheCurrent, GlobalFinHash

(* A flush, if there is one, writes a consistent state. *)
LEMMA FlushStep ==
  ASSUME IInv, finCache' = finCache, finCache \in Chain[tip'],
         disk' = disk \/ disk' = [tip |-> tip', fin |-> finCache]
  PROVE  DiskFinOnDiskChain' /\ DiskFinBehind'
<1>1. CASE disk' = disk
  BY <1>1 DEF IInv, DiskFinOnDiskChain, DiskFinBehind
<1>2. CASE disk' = [tip |-> tip', fin |-> finCache]
  <2>1. disk'.tip = tip' /\ disk'.fin = finCache /\ finCache \in Block
    BY <1>2 DEF IInv, TypeOK
  <2> QED
    BY <2>1, BlockTreeAssumption DEF DiskFinOnDiskChain, DiskFinBehind
<1> QED
  BY <1>1, <1>2

(* What PostAccept leaves of the two finality blocks and of the miner lists. *)
LEMMA PostAcceptFin ==
  ASSUME IInv, NEW recent \in BOOLEAN, PostAccept(recent)
  PROVE  /\ LocalFinOnChain' /\ GlobalFinOnChain'
         /\ CacheCurrent' /\ MinersAboveFin' /\ finCache \in Chain[finCache']
<1>1. CASE tip # newBlock
  BY <1>1, BlockTreeAssumption
  DEF PostAccept, IInv, TypeOK, finVars, LocalFinOnChain, GlobalFinOnChain,
      CacheCurrent, MinersAboveFin, GlobalFinHash
<1>2. CASE tip = newBlock
  <2> DEFINE confirm == recent /\ MayAnnounce("confirm", tip)
             votes1  == IF confirm THEN votes \cup OwnVotes("confirm", tip) ELSE votes
             locals  == Found(votes1, "confirm", localFin, LocalWindow)
             vote    == VoteForTip(locals)
             votes2  == IF vote THEN votes1 \cup OwnVotes("finality", tip) ELSE votes1
             globals == Found(votes2, "finality", GlobalFinIndex, GlobalWindow)
  <2>1. /\ localFin' \in HighestOr(locals, localFin)
        /\ minersOf' = minersOf \cup {tip}
        /\ tip' = tip
    BY <1>2 DEF PostAccept
  <2>2. PICK g \in HighestOr(globals, Genesis) :
          Finalize(g, locals # {} /\ MayFinalize(Height[g], localFin'))
    BY <1>2 DEF PostAccept
  <2>3. localFin' \in Chain[tip]
    BY <2>1, HighestOrMember, FoundMember DEF IInv, LocalFinOnChain
  <2>4. ASSUME MayFinalize(Height[g], localFin')
        PROVE  g \in Chain[tip] /\ Parent[g] \in minersOf
    <3>1. GlobalFinIndex \in Block /\ Height[GlobalFinIndex] \in Nat
      BY BlockTreeAssumption DEF IInv, TypeOK, GlobalFinIndex
    <3>2. g # Genesis
      BY <2>4, <3>1, BlockTreeAssumption DEF MayFinalize
    <3> QED
      BY <2>2, <3>2, HighestOrMember, FoundMember
  <2>5. ASSUME MayFinalize(Height[g], localFin')
        PROVE  GlobalFinHash \in Chain[g] /\ g \in Chain[tip]
    BY <2>4, <2>5, FinalizesAbove DEF IInv, MayFinalize
  <2>6. \/ /\ globalFin' = g /\ finCache' = g /\ g \in Chain[tip] /\ g \in Block
           /\ GlobalFinHash \in Chain[g]
        \/ globalFin' = globalFin /\ finCache' = finCache
    BY <2>2, <2>5, ChainBlocks DEF Finalize, IInv, TypeOK
  <2>7. GlobalFinHash = finCache
    BY DEF IInv, CacheCurrent, GlobalFinHash
  <2> HIDE DEF confirm, votes1, locals, vote, votes2, globals
  <2>8. LocalFinOnChain'
    BY <2>1, <2>3 DEF LocalFinOnChain
  <2>9. CacheCurrent'
    BY <2>6 DEF IInv, CacheCurrent
  <2>10. GlobalFinOnChain'
    BY <2>1, <2>6, <2>9 DEF IInv, GlobalFinOnChain, GlobalFinHash, CacheCurrent
  <2>11. finCache \in Chain[finCache']
    BY <2>6, <2>7, BlockTreeAssumption DEF IInv, TypeOK
  <2>12. ASSUME globalFin' = NoBlock, NEW m \in minersOf'
         PROVE  finCache' \in Chain[m]
    <3>1. globalFin = NoBlock /\ finCache' = finCache
      BY <2>6, <2>12, NodeAssumption
    <3> QED
      BY <2>1, <2>7, <2>12, <3>1 DEF IInv, MinersAboveFin, GlobalFinOnChain
  <2> QED
    BY <2>8, <2>9, <2>10, <2>11, <2>12 DEF MinersAboveFin
<1> QED
  BY <1>1, <1>2

(* The message thread's update of the global finality. *)
LEMMA UpdateGlobalFin ==
  ASSUME IInv, UpdateGlobalFinBlock
  PROVE  GlobalFinOnChain' /\ CacheCurrent' /\ MinersAboveFin' /\ finCache \in Chain[finCache']
<1> DEFINE b == msg.block
<1>1. b \in Chain[tip] /\ Parent[b] \in minersOf /\ At(tip, Height[b]) = b
  BY AtSelf DEF IInv, TypeOK, UpdateGlobalFinBlock, MessageCounted
<1>2. b \in Block
  BY <1>1, ChainBlocks DEF IInv, TypeOK
<1>3. GlobalFinHash = finCache
  BY DEF IInv, CacheCurrent, GlobalFinHash
<1>4. Finalize(b, MayFinalize(Height[b], localFin)) /\ tip' = tip /\ minersOf' = minersOf
  BY <1>1 DEF UpdateGlobalFinBlock, chainVars, voteVars
<1>5. MayFinalize(Height[b], localFin) => finCache \in Chain[b]
  BY <1>1, <1>3, FinalizesAbove DEF IInv, MayFinalize
<1>6. \/ globalFin' = b /\ finCache' = b /\ finCache \in Chain[b]
      \/ globalFin' = globalFin /\ finCache' = finCache
  BY <1>4, <1>5 DEF Finalize
<1>7. CacheCurrent'
  BY <1>6 DEF IInv, CacheCurrent
<1>8. GlobalFinOnChain'
  BY <1>1, <1>3, <1>4, <1>6, <1>7 DEF IInv, GlobalFinOnChain, GlobalFinHash, CacheCurrent
<1>9. finCache \in Chain[finCache']
  BY <1>6, BlockTreeAssumption DEF IInv, TypeOK
<1>10. MinersAboveFin'
  BY <1>2, <1>4, <1>6, NodeAssumption DEF IInv, MinersAboveFin
<1> QED
  BY <1>7, <1>8, <1>9, <1>10

(* The initial state satisfies the invariant. *)
LEMMA InvInit == Init => IInv
<1> SUFFICES ASSUME Init PROVE IInv
  OBVIOUS
<1>1. TypeOK
  BY BlockTreeAssumption DEF Init, TypeOK, ChainPc, MsgPc
<1> QED
  BY <1>1, BlockTreeAssumption
  DEF Init, IInv, Alternate, MessageCounted, LocalFinOnChain, GlobalFinOnChain,
      TargetKeepsFin, CacheCurrent, DiskFinOnDiskChain, MinersAboveFin,
      DiskFinBehind, GlobalFinHash

(***************************************************************************)
(* Every step keeps the invariant when no other thread processes blocks.   *)
(* A step that moves the tip moves it within the target's chain, which     *)
(* holds both final blocks since the walk; a step that moves a finality    *)
(* block leaves the tip alone.                                             *)
(***************************************************************************)
LEMMA InvStep ==
  ASSUME IInv, [Next]_vars, ~Concurrent
  PROVE  IInv'
<1>0. TypeOK'
  BY TypeStep DEF IInv, Typed, MessageCounted, TargetKeepsFin
<1> DEFINE Rest == /\ Alternate /\ MessageCounted /\ LocalFinOnChain
                   /\ GlobalFinOnChain /\ TargetKeepsFin /\ CacheCurrent
                   /\ DiskFinOnDiskChain /\ MinersAboveFin /\ DiskFinBehind
<1> USE DEF IInv, Alternate, MessageCounted, LocalFinOnChain, GlobalFinOnChain,
            TargetKeepsFin, CacheCurrent, DiskFinOnDiskChain, MinersAboveFin,
            DiskFinBehind, GlobalFinHash, chainVars, finVars, voteVars, msgVars
<1> SUFFICES Rest'
  BY <1>0
<1>1. ASSUME NEW b \in Block, AcceptBlock(b) PROVE Rest'
  BY <1>1 DEF AcceptBlock, ChainThreadFree
<1>2. CASE FindMostWorkChain
  <2>1. PICK m \in MostWorkChoices \ {NoBlock} :
          LET timeout == LocalFinHit(m) /\ stale
              refused == GlobalFinHit(m) \/ (LocalFinHit(m) /\ ~stale)
          IN  /\ mostWork' = m
              /\ localFin' = IF timeout THEN Genesis ELSE localFin
              /\ chainPc' = IF refused THEN "finchain" ELSE "activate"
    BY <1>2 DEF FindMostWorkChain
  <2>2. m \in Block /\ tip \in Block
    BY <2>1, MostWorkType DEF TypeOK
  <2>3. localFin' \in Chain[tip]
    BY <2>1, <2>2, BlockTreeAssumption
  <2>4. ASSUME chainPc' = "activate"
        PROVE  localFin' \in Chain[m] /\ GlobalFinHash \in Chain[m]
    <3>1. ~GlobalFinHit(m) /\ ~(LocalFinHit(m) /\ ~stale)
      BY <2>1, <2>4
    <3>2. GlobalFinHash \in Chain[m]
      BY <3>1 DEF GlobalFinHit, Reverted
    <3>3. CASE LocalFinHit(m)
      <4>1. localFin' = Genesis
        BY <2>1, <3>1, <3>3, Zenon
      <4> QED
        BY <2>2, <3>2, <4>1, BlockTreeAssumption
    <3>4. CASE ~LocalFinHit(m)
      <4>1. localFin' = localFin
        BY <2>1, <3>4, Zenon
      <4>2. localFin \in Chain[m]
        BY <3>1, <3>4 DEF LocalFinHit, Reverted
      <4> QED
        BY <3>2, <4>1, <4>2
    <3> QED
      BY <3>2, <3>3, <3>4
  <2> QED
    BY <1>2, <2>1, <2>2, <2>3, <2>4 DEF FindMostWorkChain
<1>3. CASE ConnectBlockOnFinChain
  <2>1. tip' = tip \/ (tip' \in Block /\ tip = Parent[tip'])
    BY <1>3 DEF ConnectBlockOnFinChain, TypeOK
  <2>2. Chain[tip] \subseteq Chain[tip']
    BY <2>1, ParentChain
  <2>3. disk' = disk \/ disk' = [tip |-> tip', fin |-> finCache]
    BY <1>3 DEF ConnectBlockOnFinChain, FlushWithTip
  <2>4. /\ chainPc = "finchain" /\ chainPc' = "flush"
        /\ UNCHANGED <<localFin, globalFin, finCache, minersOf, msgPc, msg>>
    BY <1>3 DEF ConnectBlockOnFinChain
  <2>5. DiskFinOnDiskChain' /\ DiskFinBehind'
    <3>1. finCache \in Chain[tip'] /\ finCache' = finCache
      BY <2>2, <2>4, FinCacheOnChain
    <3> QED
      BY <2>3, <3>1, FlushStep
  <2> QED
    BY <2>2, <2>4, <2>5
<1>4. CASE DisconnectTip
  <2>1. mostWork \in Block /\ tip \in Block /\ tip \notin Chain[mostWork]
    BY <1>4 DEF DisconnectTip, ChainContains, TypeOK
  <2>2. tip # Genesis /\ localFin # tip /\ GlobalFinHash # tip
    BY <1>4, <2>1, BlockTreeAssumption DEF DisconnectTip
  <2>3. localFin \in Chain[Parent[tip]] /\ GlobalFinHash \in Chain[Parent[tip]]
    BY <2>1, <2>2, BlockTreeAssumption
  <2>4. /\ chainPc = "activate" /\ tip' = Parent[tip]
        /\ disk' = [tip |-> tip', fin |-> finCache]
        /\ UNCHANGED <<mostWork, chainPc, localFin, globalFin, finCache, minersOf,
                       msgPc, msg>>
    BY <1>4 DEF DisconnectTip, FlushWithTip
  <2>5. DiskFinOnDiskChain' /\ DiskFinBehind'
    <3>1. finCache \in Chain[tip'] /\ finCache' = finCache
      BY <2>3, <2>4, FinCacheOnChain
    <3> QED
      BY <2>4, <3>1, FlushStep
  <2> QED
    BY <2>3, <2>4, <2>5
<1>5. CASE ConnectTip
  <2> DEFINE next == At(mostWork, Height[tip] + 1)
  <2>1. next \in Block /\ Chain[tip] \subseteq Chain[next]
    BY <1>5, NextBlock DEF ConnectTip, ChainContains
  <2>2. \/ tip' = tip /\ disk' = disk /\ chainPc' = "find"
        \/ tip' = next /\ disk' = [tip |-> next, fin |-> finCache] /\ chainPc' = "activate"
    BY <1>5 DEF ConnectTip, FlushWithTip
  <2>3. /\ chainPc = "activate"
        /\ UNCHANGED <<mostWork, localFin, globalFin, finCache, minersOf, msgPc, msg>>
    BY <1>5 DEF ConnectTip
  <2> HIDE DEF next
  <2>4. DiskFinOnDiskChain' /\ DiskFinBehind'
    <3>1. finCache \in Chain[tip'] /\ finCache' = finCache
      BY <2>1, <2>2, <2>3, FinCacheOnChain
    <3> QED
      BY <2>2, <3>1, FlushStep
  <2> QED
    BY <2>1, <2>2, <2>3, <2>4
<1>6. CASE Activated
  BY <1>6 DEF Activated
<1>7. CASE FlushBlockCache
  <2>1. /\ chainPc = "flush" /\ chainPc' \in {"idle", "post"}
        /\ disk' = disk \/ disk' = [tip |-> tip, fin |-> finCache]
        /\ UNCHANGED <<tip, mostWork, localFin, globalFin, finCache, minersOf,
                       msgPc, msg>>
    BY <1>7 DEF FlushBlockCache, FlushWithTip
  <2>2. DiskFinOnDiskChain' /\ DiskFinBehind'
    <3>1. finCache \in Chain[tip'] /\ finCache' = finCache /\ tip' = tip
      BY <2>1, FinCacheOnChain
    <3> QED
      BY <2>1, <3>1, FlushStep
  <2> QED
    BY <2>1, <2>2
<1>8. ASSUME NEW recent \in BOOLEAN, PostAccept(recent) PROVE Rest'
  <2>1. /\ LocalFinOnChain' /\ GlobalFinOnChain' /\ CacheCurrent'
        /\ MinersAboveFin' /\ finCache \in Chain[finCache']
    BY <1>8, PostAcceptFin
  <2>2. /\ tip' = tip /\ chainPc' = "idle" /\ chainPc = "post" /\ disk' = disk
        /\ msgPc' = msgPc
    BY <1>8 DEF PostAccept
  <2>3. DiskFinBehind'
    BY <2>1, <2>2, BlockTreeAssumption, <1>0 DEF TypeOK
  <2> QED
    BY <2>1, <2>2, <2>3
<1>9. ASSUME NEW v \in Vote, CheckMessage(v) PROVE Rest'
  BY <1>9 DEF CheckMessage
<1>10. CASE SaveMessage
  <2>1. msgPc' = "update" => /\ msg' = msg /\ msg.block \in Chain[tip]
                             /\ Parent[msg.block] \in minersOf
    BY <1>10 DEF SaveMessage, ChainContains, Quorum
  <2> QED
    BY <1>10, <2>1 DEF SaveMessage
<1>11. CASE UpdateLocalFinBlock
  <2>1. At(tip, Height[msg.block]) \in Chain[tip]
    BY <1>11, AtSelf DEF UpdateLocalFinBlock, TypeOK
  <2> QED
    BY <1>11, <2>1 DEF UpdateLocalFinBlock
<1>12. CASE UpdateGlobalFinBlock
  <2>1. /\ GlobalFinOnChain' /\ CacheCurrent' /\ MinersAboveFin'
        /\ finCache \in Chain[finCache']
    BY <1>12, UpdateGlobalFin
  <2>2. /\ tip' = tip /\ chainPc' = chainPc /\ disk' = disk /\ msgPc' = "idle"
        /\ msgPc # "idle" /\ localFin' = localFin
    BY <1>12 DEF UpdateGlobalFinBlock
  <2>3. DiskFinBehind'
    BY <2>1, <2>2, BlockTreeAssumption, <1>0 DEF TypeOK
  <2> QED
    BY <2>1, <2>2, <2>3
<1>13. CASE AnnounceFinality
  BY <1>13 DEF AnnounceFinality
<1>14. CASE LocalFinExpires
  BY <1>14 DEF LocalFinExpires
<1>15. CASE Restart
  BY <1>15, BlockTreeAssumption DEF Restart, TypeOK
<1>16. CASE UNCHANGED vars
  BY <1>16 DEF vars
<1> QED
  BY <1>1, <1>2, <1>3, <1>4, <1>5, <1>6, <1>7, <1>8, <1>9, <1>10, <1>11, <1>12,
     <1>13, <1>14, <1>15, <1>16 DEF Next, ChainNext, MessageNext
-----------------------------------------------------------------------------
(* What follows for every behaviour. *)

(* The invariant holds throughout when no other thread processes blocks. *)
THEOREM Invariance ==
  ASSUME ~Concurrent
  PROVE  Spec => []IInv
<1>1. Init => IInv
  BY InvInit
<1>2. IInv /\ [Next]_vars => IInv'
  BY InvStep
<1> QED
  BY <1>1, <1>2, PTL DEF Spec

(***************************************************************************)
(* Type correctness: the variables of pbftmanager.h and main.cpp hold what *)
(* their declarations say, also when other threads process blocks between  *)
(* the steps of a vote and a height is looked up on the chain of then.     *)
(***************************************************************************)
THEOREM TypeCorrect == Spec => [](TypeOK /\ Typed)
<1>1. Init => TypeOK /\ Typed
  <2> SUFFICES ASSUME Init PROVE TypeOK /\ Typed
    OBVIOUS
  <2>1. TypeOK
    BY BlockTreeAssumption DEF Init, TypeOK, ChainPc, MsgPc
  <2> QED
    BY <2>1 DEF Init, Typed
<1>2. TypeOK /\ Typed /\ [Next]_vars => (TypeOK /\ Typed)'
  BY TypeStep, TypedStep
<1> QED
  BY <1>1, <1>2, PTL DEF Spec

(***************************************************************************)
(* Fork choice (ActivateBestChain) gives a locally final block up before   *)
(* it reverts it, whatever blocks, votes, time-outs and crashes come.      *)
(***************************************************************************)
THEOREM LocalFinalityOnChain ==
  ASSUME ~Concurrent
  PROVE  Spec => []LocalFinOnChain
<1>1. IInv => LocalFinOnChain
  BY DEF IInv
<1> QED
  BY <1>1, Invariance, PTL

(***************************************************************************)
(* Fork choice never leaves the chain of the block that                    *)
(* GetGlobalFinBlockHash returns, before and after any restart.            *)
(***************************************************************************)
THEOREM GlobalFinalityOnChain ==
  ASSUME ~Concurrent
  PROVE  Spec => []GlobalFinOnChain
<1>1. IInv => GlobalFinOnChain
  BY DEF IInv
<1> QED
  BY <1>1, Invariance, PTL

(***************************************************************************)
(* Whenever the process dies, the finality block in the database is on the *)
(* chain that ends in the best block in the database.                      *)
(***************************************************************************)
THEOREM DiskIsConsistent ==
  ASSUME ~Concurrent
  PROVE  Spec => []DiskFinOnDiskChain
<1>1. IInv => DiskFinOnDiskChain
  BY DEF IInv
<1> QED
  BY <1>1, Invariance, PTL

(* Below zero, an unsigned distance is a large one. *)
LEMMA UnsignedDistance ==
  ASSUME NEW x \in Int, NEW m \in Nat, -m < x, x < 0
  PROVE  x % m = x + m
OBVIOUS

(***************************************************************************)
(* A peer's vote is only taken for the current tip (CheckPBFTMessage),     *)
(* other threads or not: heights are int32_t, so none comes within         *)
(* HeightSlack of the modulus of a vote's uint32_t.                        *)
(***************************************************************************)
THEOREM VotesOnlyForTip ==
  ASSUME \A b \in Block : Height[b] + HeightSlack < Modulus
  PROVE  Spec => OnlyTipVotes
<1> DEFINE A == msg' # NoBlock /\ msg = NoBlock => msg'.block = tip
<1>1. ASSUME TypeOK, NEW v \in Vote, CheckMessage(v) PROVE v.block = tip
  <2> DEFINE h == Height[v.block]
  <2>1. v.block \in Chain[tip] /\ tip \in Block /\ v.block \in Block
    BY <1>1 DEF CheckMessage, ChainContains, TypeOK, Vote
  <2>2. h \in Nat /\ Height[tip] \in Nat /\ h <= Height[tip]
    BY <2>1, BlockTreeAssumption
  <2>3. (h - Height[tip]) % Modulus <= HeightSlack
    BY <1>1 DEF CheckMessage, InRange
  <2>4. Modulus \in Nat /\ HeightSlack \in Nat /\ Height[tip] + HeightSlack < Modulus
    BY <2>1, NodeAssumption
  <2>5. h - Height[tip] < 0 => (h - Height[tip]) % Modulus = h - Height[tip] + Modulus
    BY <2>2, <2>4, UnsignedDistance
  <2>6. h = Height[tip]
    BY <2>2, <2>3, <2>4, <2>5
  <2> QED
    BY <2>1, <2>6, BlockTreeAssumption
<1>2. ASSUME TypeOK, Typed, Next PROVE A
  <2>1. \/ \E v \in Vote : CheckMessage(v)
        \/ msg' \in {msg, NoBlock}
    BY <1>2 DEF Next, ChainNext, MessageNext, AcceptBlock, FindMostWorkChain,
       ConnectBlockOnFinChain, DisconnectTip, ConnectTip, Activated, FlushBlockCache,
       PostAccept, SaveMessage, UpdateLocalFinBlock, UpdateGlobalFinBlock,
       AnnounceFinality, LocalFinExpires, Restart, msgVars
  <2>2. ASSUME NEW v \in Vote, CheckMessage(v) PROVE A
    BY <1>1, <1>2, <2>2 DEF CheckMessage
  <2> QED
    BY <2>1, <2>2
<1>3. TypeOK /\ Typed /\ [Next]_vars => [A]_vars
  BY <1>2
<1> QED
  BY <1>3, TypeCorrect, PTL DEF Spec, OnlyTipVotes

(***************************************************************************)
(* The finality block in the database only moves up its own chain, though  *)
(* UpdateGlobalFinBlock compares with genesis after a restart.             *)
(***************************************************************************)
THEOREM PersistedFinalityAdvances ==
  ASSUME ~Concurrent
  PROVE  Spec => DiskFinAdvances
<1>1. ASSUME IInv, [Next]_vars
      PROVE  disk' = disk \/ disk'.fin = finCache
  <2> DEFINE Written == \E t : FlushWithTip(t)
  <2>1. CASE Written
    BY <2>1 DEF FlushWithTip
  <2>2. CASE disk' = disk
    BY <2>2
  <2>3. ConnectBlockOnFinChain => Written \/ disk' = disk
    BY DEF ConnectBlockOnFinChain
  <2>4. DisconnectTip => Written
    BY DEF DisconnectTip
  <2>5. ConnectTip => Written \/ disk' = disk
    BY DEF ConnectTip
  <2>6. FlushBlockCache => Written \/ disk' = disk
    BY DEF FlushBlockCache
  <2>7. \/ disk' = disk \/ ConnectBlockOnFinChain \/ DisconnectTip
        \/ ConnectTip \/ FlushBlockCache
    BY <1>1 DEF Next, ChainNext, MessageNext, AcceptBlock, FindMostWorkChain,
       Activated, PostAccept, CheckMessage, SaveMessage, UpdateLocalFinBlock,
       UpdateGlobalFinBlock, AnnounceFinality, LocalFinExpires, Restart, vars
  <2> HIDE DEF Written
  <2> QED
    BY <2>1, <2>2, <2>3, <2>4, <2>5, <2>6, <2>7
<1>2. IInv /\ [Next]_vars => [disk.fin \in Chain[disk'.fin]]_vars
  <2> SUFFICES ASSUME IInv, [Next]_vars PROVE disk.fin \in Chain[disk'.fin]
    OBVIOUS
  <2>1. disk.fin \in Block /\ disk.fin \in Chain[finCache]
    BY DEF IInv, TypeOK, DiskFinBehind
  <2> QED
    BY <1>1, <2>1, BlockTreeAssumption
<1> QED
  BY <1>2, Invariance, PTL DEF Spec, DiskFinAdvances

(* Without restarts, a step of UpdateGlobalFinBlock moves up its chain. *)
LEMMA FinalGrowsStep ==
  ASSUME IInv, FinalGrows, [Next]_vars, ~Concurrent, ~CrashAllowed
  PROVE  FinalGrows'
<1>0. IInv'
  BY InvStep
<1>1. CASE UNCHANGED <<globalFin, finCache, everFinal>>
  BY <1>1 DEF FinalGrows, GlobalFinIndex, GlobalFinHash
<1>2. ASSUME NEW b \in Block, b = globalFin', finCache' = b,
             everFinal' = everFinal \cup {b}, finCache \in Chain[b]
      PROVE  FinalGrows'
  <2>1. GlobalFinIndex = finCache
    BY DEF FinalGrows, IInv, CacheCurrent, GlobalFinHash
  <2>2. GlobalFinIndex' = b /\ GlobalFinHash' = b
    BY <1>2, NodeAssumption DEF GlobalFinIndex, GlobalFinHash
  <2> QED
    BY <1>2, <2>1, <2>2, BlockTreeAssumption DEF FinalGrows
<1>3. ASSUME NEW recent \in BOOLEAN, PostAccept(recent) PROVE FinalGrows'
  <2>1. finCache \in Chain[finCache'] /\ CacheCurrent'
    BY <1>3, PostAcceptFin
  <2>2. \/ UNCHANGED <<globalFin, finCache, everFinal>>
        \/ \E b : /\ globalFin' = b /\ finCache' = b
                  /\ everFinal' = everFinal \cup {b}
    BY <1>3 DEF PostAccept, Finalize, finVars
  <2>3. finCache' \in Block
    BY <1>0 DEF IInv, TypeOK
  <2> QED
    BY <1>1, <1>2, <2>1, <2>2, <2>3
<1>4. CASE UpdateGlobalFinBlock
  <2>1. finCache \in Chain[finCache']
    BY <1>4, UpdateGlobalFin
  <2>2. \/ UNCHANGED <<globalFin, finCache, everFinal>>
        \/ \E b : /\ globalFin' = b /\ finCache' = b
                  /\ everFinal' = everFinal \cup {b}
    BY <1>4 DEF UpdateGlobalFinBlock, Finalize
  <2>3. finCache' \in Block
    BY <1>0 DEF IInv, TypeOK
  <2> QED
    BY <1>1, <1>2, <2>1, <2>2, <2>3
<1>5. CASE ~(\E recent \in BOOLEAN : PostAccept(recent)) /\ ~UpdateGlobalFinBlock
  BY <1>1, <1>5 DEF Next, ChainNext, MessageNext, AcceptBlock, FindMostWorkChain,
     ConnectBlockOnFinChain, DisconnectTip, ConnectTip, Activated, FlushBlockCache,
     CheckMessage, SaveMessage, UpdateLocalFinBlock, AnnounceFinality,
     LocalFinExpires, Restart, finVars, vars
<1> QED
  BY <1>3, <1>4, <1>5

(***************************************************************************)
(* While the process lives, no block that was ever globally final is       *)
(* replaced by another block of its height (main.cpp, "globalfinality      *)
(* block can't be reverse").                                               *)
(***************************************************************************)
THEOREM FinalityIrreversible ==
  ASSUME ~Concurrent, ~CrashAllowed
  PROVE  Spec => []NoFinalReversed
<1>1. Init => FinalGrows
  BY BlockTreeAssumption DEF Init, FinalGrows, GlobalFinIndex, GlobalFinHash
<1>2. IInv /\ FinalGrows /\ [Next]_vars => FinalGrows'
  BY FinalGrowsStep
<1>3. IInv /\ FinalGrows => NoFinalReversed
  <2> SUFFICES ASSUME IInv, FinalGrows,
                      NEW b \in everFinal, NEW c \in Chain[tip], Height[c] = Height[b]
               PROVE  c = b
    BY DEF NoFinalReversed
  <2>1. tip \in Block /\ GlobalFinHash \in Chain[tip]
    BY DEF IInv, TypeOK, GlobalFinOnChain
  <2>2. b \in Chain[tip]
    BY <2>1, BlockTreeAssumption DEF FinalGrows
  <2> QED
    BY <2>1, <2>2, BlockTreeAssumption
<1> QED
  BY <1>1, <1>2, <1>3, Invariance, PTL DEF Spec
-----------------------------------------------------------------------------
(* What is indexed. *)

(***************************************************************************)
(* mapBlockIndex holds whole chains, and everything that names a block     *)
(* names one that it holds, in memory and on disk.                         *)
(***************************************************************************)
Indexed ==
  /\ {tip, localFin, disk.tip} \subseteq index
  /\ \A b \in index : Chain[b] \subseteq index
  /\ {mostWork, newBlock} \ {NoBlock} \subseteq index
  /\ \A v \in votes : v.block \in index
  /\ msgPc \in {"save", "update"} => msg.block \in index

(* A block that is being accepted has no child yet. *)
NewIsLeaf ==
  newBlock # NoBlock => /\ newBlock # Genesis
                        /\ \A b \in index : Parent[b] # newBlock

(* The target of ActivateBestChain is indexed. *)
LEMMA MostWorkIndexed ==
  ASSUME TypeOK, Indexed, NEW m \in MostWorkChoices, m # NoBlock
  PROVE  m \in index
<1> DEFINE popped  == mostWork # NoBlock /\ mostWork \in failed
           current == IF popped THEN Parent[mostWork] ELSE mostWork
<1>1. Heaviest \subseteq index
  BY DEF Heaviest, Candidates
<1>2. m \in Heaviest \cup {current}
  BY Zenon DEF MostWorkChoices
<1>3. current # NoBlock => current \in index
  <2>1. mostWork # NoBlock => mostWork \in index /\ Parent[mostWork] \in index
    BY ParentChain, BlockTreeAssumption DEF Indexed, TypeOK
  <2> QED
    BY <2>1
<1> QED
  BY <1>1, <1>2, <1>3

(* Own votes for an indexed block. *)
LEMMA OwnVotesBlock ==
  ASSUME NEW kind, NEW b, NEW v \in OwnVotes(kind, b)
  PROVE  v.kind = kind /\ v.block = b
BY DEF OwnVotes

(* Every step keeps whole chains in the index, other threads or not. *)
LEMMA IndexedStep ==
  ASSUME TypeOK, Typed, Indexed, [Next]_vars
  PROVE  Indexed'
<1> USE DEF chainVars, finVars, voteVars, msgVars
<1>0. tip \in Block /\ tip \in index /\ Chain[tip] \subseteq index
  BY DEF Indexed, TypeOK
<1>1. ASSUME NEW b \in Block, AcceptBlock(b) PROVE Indexed'
  <2>1. Chain[b] \subseteq index'
    BY <1>1, BlockTreeAssumption DEF AcceptBlock, Indexed
  <2> QED
    BY <1>1, <2>1 DEF AcceptBlock, Indexed
<1>2. CASE FindMostWorkChain
  <2>1. mostWork' \in index
    BY <1>2, MostWorkIndexed DEF FindMostWorkChain
  <2>2. localFin' \in {localFin, Genesis} /\ Genesis \in index
    BY <1>0, <1>2, BlockTreeAssumption DEF FindMostWorkChain
  <2> QED
    BY <1>2, <2>1, <2>2 DEF FindMostWorkChain, Indexed
<1>3. CASE ConnectBlockOnFinChain
  <2>1. \/ tip' = tip /\ disk' = disk
        \/ tip' \in index /\ disk' = [tip |-> tip', fin |-> finCache]
    BY <1>3 DEF ConnectBlockOnFinChain, FlushWithTip, Indexed
  <2>2. UNCHANGED <<index, mostWork, newBlock, localFin, votes, msgPc, msg>>
    BY <1>3 DEF ConnectBlockOnFinChain
  <2>3. tip' \in index /\ disk'.tip \in index
    BY <2>1 DEF Indexed
  <2> QED
    BY <2>2, <2>3 DEF Indexed
<1>4. CASE DisconnectTip
  <2>1. Parent[tip] \in index
    BY <1>0, ParentChain, BlockTreeAssumption
  <2> QED
    BY <1>4, <2>1 DEF DisconnectTip, FlushWithTip, Indexed
<1>5. CASE ConnectTip
  <2> DEFINE next == At(mostWork, Height[tip] + 1)
  <2>1. mostWork \in Block /\ mostWork \in index /\ tip \in Chain[mostWork] /\ tip # mostWork
    BY <1>5, NodeAssumption DEF ConnectTip, ChainContains, Typed, Indexed
  <2>2. next \in index
    <3>1. Height[tip] \in Nat /\ Height[mostWork] \in Nat /\ Height[tip] < Height[mostWork]
      BY <1>0, <2>1, BlockTreeAssumption
    <3>2. next \in Chain[mostWork]
      BY <2>1, <3>1, AtHeight
    <3> QED
      BY <2>1, <3>2 DEF Indexed
  <2>3. UNCHANGED <<index, mostWork, newBlock, localFin, votes, msgPc, msg>>
    BY <1>5 DEF ConnectTip
  <2>4. \/ tip' = tip /\ disk' = disk
        \/ tip' = next /\ disk' = [tip |-> next, fin |-> finCache]
    BY <1>5 DEF ConnectTip, FlushWithTip
  <2> HIDE DEF next
  <2>5. tip' \in index /\ disk'.tip \in index
    BY <2>2, <2>4 DEF Indexed
  <2> QED
    BY <2>3, <2>5 DEF Indexed
<1>6. CASE Activated \/ FlushBlockCache
  BY <1>6 DEF Activated, FlushBlockCache, FlushWithTip, Indexed
<1>7. ASSUME NEW recent \in BOOLEAN, PostAccept(recent) PROVE Indexed'
  <2>1. CASE tip # newBlock
    BY <1>7, <2>1 DEF PostAccept, Indexed
  <2>2. CASE tip = newBlock
    <3> DEFINE confirm == recent /\ MayAnnounce("confirm", tip)
               votes1  == IF confirm THEN votes \cup OwnVotes("confirm", tip) ELSE votes
               locals  == Found(votes1, "confirm", localFin, LocalWindow)
               vote    == VoteForTip(locals)
               votes2  == IF vote THEN votes1 \cup OwnVotes("finality", tip) ELSE votes1
    <3>1. /\ votes' = votes2
          /\ localFin' \in HighestOr(locals, localFin)
      BY <1>7, <2>2 DEF PostAccept
    <3>2. \A v \in votes2 : v \in votes \/ v.block = tip
      BY OwnVotesBlock
    <3>3. localFin' \in index
      BY <1>0, <3>1, HighestOrMember, FoundMember DEF Indexed
    <3> HIDE DEF confirm, votes1, locals, vote, votes2
    <3> QED
      BY <1>0, <1>7, <3>1, <3>2, <3>3 DEF PostAccept, Indexed
  <2> QED
    BY <2>1, <2>2
<1>8. ASSUME NEW v \in Vote, CheckMessage(v) PROVE Indexed'
  BY <1>0, <1>8 DEF CheckMessage, ChainContains, Indexed
<1>9. CASE SaveMessage
  BY <1>9 DEF SaveMessage, Indexed
<1>10. CASE UpdateLocalFinBlock
  <2>1. Height[msg.block] \in Nat /\ Height[tip] \in Nat
    BY <1>10, BlockTreeAssumption DEF UpdateLocalFinBlock, Typed, TypeOK, Vote
  <2>2. Height[msg.block] <= Height[tip] => At(tip, Height[msg.block]) \in index
    BY <1>0, <2>1, AtHeight
  <2> QED
    BY <1>10, <2>2 DEF UpdateLocalFinBlock, Indexed
<1>11. CASE UpdateGlobalFinBlock
  BY <1>11 DEF UpdateGlobalFinBlock, Indexed
<1>12. CASE AnnounceFinality
  BY <1>12, OwnVotesBlock DEF AnnounceFinality, Indexed
<1>13. CASE LocalFinExpires
  BY <1>13 DEF LocalFinExpires, Indexed
<1>14. CASE Restart
  <2>1. disk.tip \in index /\ Genesis \in index
    BY <1>0, BlockTreeAssumption DEF Indexed
  <2> QED
    BY <1>14, <2>1 DEF Restart, Indexed
<1>15. CASE UNCHANGED vars
  BY <1>15 DEF vars, Indexed
<1> QED
  BY <1>1, <1>2, <1>3, <1>4, <1>5, <1>6, <1>7, <1>8, <1>9, <1>10, <1>11, <1>12,
     <1>13, <1>14, <1>15 DEF Next, ChainNext, MessageNext

(* A block that is being accepted stays a leaf of the index. *)
LEMMA LeafStep ==
  ASSUME TypeOK, Indexed, NewIsLeaf, [Next]_vars
  PROVE  NewIsLeaf'
<1>1. ASSUME NEW b \in Block, AcceptBlock(b) PROVE NewIsLeaf'
  <2>1. tip \in Block /\ Genesis \in index
    BY BlockTreeAssumption DEF Indexed, TypeOK
  <2>2. b # Genesis /\ Parent[b] # b
    <3>1. b # Genesis
      BY <1>1, <2>1 DEF AcceptBlock
    <3>2. Height[b] = Height[Parent[b]] + 1 /\ Height[Parent[b]] \in Nat
      BY <3>1, BlockTreeAssumption
    <3> QED
      BY <3>1, <3>2
  <2>3. \A c \in index : Parent[c] # b
    <3> SUFFICES ASSUME NEW c \in index PROVE Parent[c] \in index
      BY <1>1 DEF AcceptBlock
    <3>1. c \in Block
      BY DEF TypeOK
    <3>2. Parent[c] \in Chain[c]
      BY <3>1, ParentChain, BlockTreeAssumption
    <3> QED
      BY <3>2 DEF Indexed
  <2> QED
    BY <1>1, <2>2, <2>3 DEF AcceptBlock, NewIsLeaf
<1>2. CASE UNCHANGED <<index, newBlock>>
  BY <1>2 DEF NewIsLeaf
<1>3. CASE newBlock' = NoBlock
  BY <1>3 DEF NewIsLeaf
<1>4. \/ \E b \in Block : AcceptBlock(b)
      \/ UNCHANGED <<index, newBlock>>
      \/ newBlock' = NoBlock
  BY DEF Next, ChainNext, MessageNext, FindMostWorkChain, ConnectBlockOnFinChain,
     DisconnectTip, ConnectTip, Activated, FlushBlockCache, PostAccept, CheckMessage,
     SaveMessage, UpdateLocalFinBlock, UpdateGlobalFinBlock, AnnounceFinality,
     LocalFinExpires, Restart, vars, chainVars
<1> QED
  BY <1>1, <1>2, <1>3, <1>4
-----------------------------------------------------------------------------
(* Quorums. *)

(***************************************************************************)
(* All miner lists have one size, as GetDelegatesNum has it between two    *)
(* hard forks.  The searches of UpdateLocalFinBlock and                    *)
(* UpdateGlobalFinBlock apply the tip's threshold to its ancestors, and    *)
(* what they find need not have two thirds of a list of another size.      *)
(***************************************************************************)
OneSize == \E n \in Nat \ {0} : \A b \in Block : Cardinality(MinerList[b]) = n

(* A vote about to be acted upon belongs to a quorum for its block. *)
UpdateBacked ==
  msgPc = "update" => Quorum(votes, msg.kind, msg.block, TwoThirds(msg.block))

(* The thresholds are numbers. *)
LEMMA ThresholdType ==
  ASSUME NEW b \in Block
  PROVE  /\ IsFiniteSet(MinerList[b])
         /\ Cardinality(MinerList[b]) \in Nat
         /\ TwoThirds(b) \in Int
<1>1. Parent[b] \in Block /\ MinerList[b] \subseteq Delegate /\ MinerList[Parent[b]] \subseteq Delegate
  BY BlockTreeAssumption, NodeAssumption
<1>2. IsFiniteSet(MinerList[b]) /\ IsFiniteSet(MinerList[Parent[b]])
  BY <1>1, NodeAssumption, FS_Subset
<1>3. Cardinality(MinerList[b]) \in Nat /\ Cardinality(MinerList[Parent[b]]) \in Nat
  BY <1>2, FS_CardinalityType
<1> QED
  BY <1>2, <1>3 DEF TwoThirds

(* The votes of one kind for a block are what makes its quorum. *)
LEMMA SignersGrow ==
  ASSUME NEW vs, NEW ws, NEW kind, NEW b \in Block, NEW n \in Int,
         \A v \in vs : v \in ws \/ v.kind # kind \/ v.block # b,
         Cardinality(Signers(vs, kind, b)) >= n
  PROVE  Cardinality(Signers(ws, kind, b)) >= n
<1>1. Parent[b] \in Block
  BY BlockTreeAssumption
<1>2. /\ Signers(vs, kind, b) \subseteq Signers(ws, kind, b)
      /\ Signers(ws, kind, b) \subseteq MinerList[Parent[b]]
  <2> SUFFICES ASSUME NEW d \in Signers(vs, kind, b) PROVE d \in Signers(ws, kind, b)
    BY DEF Signers
  <2> DEFINE v == [kind |-> kind, miner |-> d, block |-> b]
  <2>1. v \in vs /\ v.kind = kind /\ v.block = b /\ d \in MinerList[Parent[b]]
    BY DEF Signers
  <2>2. v \in ws
    BY <2>1
  <2> QED
    BY <2>1, <2>2 DEF Signers
<1>3. IsFiniteSet(Signers(ws, kind, b)) /\ IsFiniteSet(Signers(vs, kind, b))
  BY <1>1, <1>2, ThresholdType, FS_Subset
<1>4. /\ Cardinality(Signers(vs, kind, b)) <= Cardinality(Signers(ws, kind, b))
      /\ Cardinality(Signers(vs, kind, b)) \in Nat
      /\ Cardinality(Signers(ws, kind, b)) \in Nat
  BY <1>2, <1>3, FS_Subset, FS_CardinalityType
<1> QED
  BY <1>4

(* A quorum stays one while votes and miner lists are only added. *)
LEMMA QuorumKept ==
  ASSUME votes \subseteq votes', minersOf \subseteq minersOf',
         NEW kind, NEW b \in Block, Quorum(votes, kind, b, TwoThirds(b))
  PROVE  Quorum(votes, kind, b, TwoThirds(b))'
BY SignersGrow, ThresholdType DEF Quorum

(* The threshold that a vote's handler takes is that of its block. *)
LEMMA OwnThreshold ==
  ASSUME NEW b, Parent[b] \in minersOf
  PROVE  Need(Parent[b]) = TwoThirds(b)
BY DEF Need, TwoThirds

(* Under lists of one size it is the one that the searches take as well. *)
LEMMA OneThreshold ==
  ASSUME OneSize, TypeOK, NEW p \in Block, NEW b \in Block
  PROVE  Need(p) = TwoThirds(b)
<1>1. Parent[b] \in Block /\ tip \in Block
  BY BlockTreeAssumption DEF TypeOK
<1> QED
  BY <1>1 DEF OneSize, Need, TwoThirds

(* What a search finds has two thirds of its own miners behind it. *)
LEMMA FoundBacked ==
  ASSUME OneSize, TypeOK, NEW vs, NEW kind, NEW fin, NEW window,
         NEW c \in Found(vs, kind, fin, window)
  PROVE  /\ c \in Block /\ c # Genesis /\ Parent[c] \in minersOf
         /\ Cardinality(Signers(vs, kind, c)) >= TwoThirds(c)
<1>1. /\ c \in Chain[tip] /\ c # Genesis /\ Parent[c] \in minersOf
      /\ Cardinality(Signers(vs, kind, c)) >= Need(Parent[tip])
  BY DEF Found, Quorum
<1>2. c \in Block /\ Parent[tip] \in Block
  BY <1>1, ChainBlocks, BlockTreeAssumption DEF TypeOK
<1> QED
  BY <1>1, <1>2, OneThreshold

Backed == LocalFinBacked /\ GlobalFinBacked /\ UpdateBacked

(***************************************************************************)
(* Every step keeps both finality blocks backed: the handlers find the     *)
(* block that was counted at its height, as no other thread has moved the  *)
(* chain, and the searches find blocks with a quorum.                      *)
(***************************************************************************)
LEMMA BackedStep ==
  ASSUME OneSize, ~Concurrent, IInv, Backed, [Next]_vars
  PROVE  Backed'
<1> USE DEF Backed, LocalFinBacked, GlobalFinBacked, UpdateBacked,
            chainVars, finVars, voteVars, msgVars
<1>0. /\ localFin \in Block /\ tip \in Block
      /\ globalFin # NoBlock => globalFin \in Block
      /\ msgPc = "update" => /\ msg \in Vote /\ msg.block \in Block
                             /\ At(tip, Height[msg.block]) = msg.block
  BY ChainBlocks, AtSelf DEF IInv, TypeOK, MessageCounted
<1>1. ASSUME votes \subseteq votes', minersOf \subseteq minersOf',
             localFin' \in {localFin, Genesis}, globalFin' = globalFin,
             msgPc' = "update" => msgPc = "update" /\ msg' = msg
      PROVE  Backed'
  BY <1>0, <1>1, QuorumKept, Zenon
<1>2. CASE SaveMessage
  <2>1. /\ msg \in Vote /\ msg.kind \in Kind /\ msg.block \in Block
        /\ votes \subseteq votes' /\ UNCHANGED <<minersOf, localFin, globalFin>>
    BY <1>2 DEF SaveMessage, IInv, MessageCounted, Vote
  <2>2. LocalFinBacked' /\ GlobalFinBacked'
    BY <1>0, <2>1, QuorumKept, Zenon
  <2>3. msgPc' = "update" => /\ msg' = msg
                             /\ Quorum(votes', msg.kind, msg.block, Need(Parent[msg.block]))
    BY <1>2 DEF SaveMessage
  <2>4. UpdateBacked'
    BY <2>1, <2>3, OwnThreshold DEF Quorum, TwoThirds
  <2> QED
    BY <2>2, <2>4
<1>3. CASE UpdateLocalFinBlock
  <2>1. /\ UNCHANGED <<votes, minersOf, globalFin>> /\ msgPc' # "update"
        /\ localFin' \in {localFin, msg.block} /\ msgPc = "update"
        /\ msg.kind = "confirm"
    BY <1>0, <1>3 DEF UpdateLocalFinBlock
  <2>2. CASE localFin' = localFin
    BY <1>1, <2>1, <2>2
  <2>3. CASE localFin' = msg.block
    <3>1. LocalFinBacked'
      BY <1>0, <2>1, <2>3 DEF Quorum, TwoThirds
    <3>2. GlobalFinBacked'
      BY <1>0, <2>1, QuorumKept, Zenon
    <3> QED
      BY <2>1, <3>1, <3>2
  <2> QED
    BY <2>1, <2>2, <2>3
<1>4. CASE UpdateGlobalFinBlock
  <2>1. /\ UNCHANGED <<votes, minersOf, localFin>> /\ msgPc' # "update"
        /\ globalFin' \in {globalFin, msg.block} /\ msgPc = "update"
        /\ msg.kind = "finality"
    BY <1>0, <1>4 DEF UpdateGlobalFinBlock, Finalize
  <2>2. CASE globalFin' = globalFin
    BY <1>1, <2>1, <2>2
  <2>3. CASE globalFin' = msg.block
    <3>1. GlobalFinBacked'
      BY <1>0, <2>1, <2>3 DEF Quorum, TwoThirds
    <3>2. LocalFinBacked'
      BY <1>0, <2>1, QuorumKept, Zenon
    <3> QED
      BY <2>1, <3>1, <3>2
  <2> QED
    BY <2>1, <2>2, <2>3
<1>5. ASSUME NEW recent \in BOOLEAN, PostAccept(recent), tip = newBlock PROVE Backed'
  <2> DEFINE confirm == recent /\ MayAnnounce("confirm", tip)
             votes1  == IF confirm THEN votes \cup OwnVotes("confirm", tip) ELSE votes
             locals  == Found(votes1, "confirm", localFin, LocalWindow)
             vote    == VoteForTip(locals)
             votes2  == IF vote THEN votes1 \cup OwnVotes("finality", tip) ELSE votes1
             globals == Found(votes2, "finality", GlobalFinIndex, GlobalWindow)
  <2>1. /\ votes' = votes2 /\ minersOf' = minersOf \cup {tip}
        /\ localFin' \in HighestOr(locals, localFin)
        /\ msgPc' = msgPc /\ msg' = msg
    BY <1>5 DEF PostAccept
  <2>2. PICK g \in HighestOr(globals, Genesis) :
          Finalize(g, locals # {} /\ MayFinalize(Height[g], localFin'))
    BY <1>5 DEF PostAccept
  <2>3. votes \subseteq votes1 /\ votes1 \subseteq votes'
    BY <2>1
  <2>4. UpdateBacked'
    BY <1>0, <2>1, <2>3, QuorumKept, Zenon
  <2>5. LocalFinBacked'
    <3>1. CASE localFin' = localFin
      BY <1>0, <2>1, <2>3, <3>1, QuorumKept, Zenon
    <3>2. CASE localFin' \in locals
      <4>1. /\ localFin' \in Block /\ localFin' # Genesis /\ Parent[localFin'] \in minersOf
            /\ Cardinality(Signers(votes1, "confirm", localFin')) >= TwoThirds(localFin')
        BY <3>2, FoundBacked DEF IInv
      <4>2. Cardinality(Signers(votes', "confirm", localFin')) >= TwoThirds(localFin')
        BY <2>3, <4>1, SignersGrow, ThresholdType
      <4> QED
        BY <2>1, <4>1, <4>2 DEF Quorum, TwoThirds
    <3> QED
      BY <2>1, <3>1, <3>2, HighestOrMember
  <2>6. GlobalFinBacked'
    <3>1. CASE globalFin' = globalFin
      BY <1>0, <2>1, <2>3, <3>1, QuorumKept, Zenon
    <3>2. CASE globalFin' = g /\ MayFinalize(Height[g], localFin')
      <4>1. GlobalFinIndex \in Block /\ Height[GlobalFinIndex] \in Nat
        BY BlockTreeAssumption DEF IInv, TypeOK, GlobalFinIndex
      <4>2. g # Genesis
        BY <3>2, <4>1, BlockTreeAssumption DEF MayFinalize
      <4>3. g \in globals
        BY <2>2, <4>2, HighestOrMember
      <4>4. /\ g \in Block /\ g # Genesis /\ Parent[g] \in minersOf
            /\ Cardinality(Signers(votes2, "finality", g)) >= TwoThirds(g)
        BY <4>3, FoundBacked DEF IInv
      <4> HIDE DEF votes2
      <4> QED
        BY <2>1, <3>2, <4>4 DEF Quorum, TwoThirds
    <3> QED
      BY <2>2, <3>1, <3>2 DEF Finalize
  <2> QED
    BY <2>4, <2>5, <2>6
<1>6. ASSUME NEW recent \in BOOLEAN, PostAccept(recent), tip # newBlock PROVE Backed'
  BY <1>1, <1>6 DEF PostAccept
<1>7. CASE Restart
  BY <1>7, NodeAssumption DEF Restart
<1>8. CASE FindMostWorkChain
  BY <1>1, <1>8 DEF FindMostWorkChain
<1>9. ASSUME NEW v \in Vote, CheckMessage(v) PROVE Backed'
  BY <1>1, <1>9 DEF CheckMessage
<1>10. CASE AnnounceFinality
  BY <1>1, <1>10 DEF AnnounceFinality
<1>11. CASE \/ \E b \in Block : AcceptBlock(b)
            \/ ConnectBlockOnFinChain \/ DisconnectTip \/ ConnectTip \/ Activated
            \/ FlushBlockCache \/ LocalFinExpires \/ UNCHANGED vars
  <2>1. UNCHANGED <<votes, minersOf, localFin, globalFin, msgPc, msg>>
    BY <1>11 DEF AcceptBlock, ConnectBlockOnFinChain, DisconnectTip, ConnectTip,
       Activated, FlushBlockCache, LocalFinExpires, vars
  <2> QED
    BY <1>1, <2>1
<1> QED
  BY <1>2, <1>3, <1>4, <1>5, <1>6, <1>7, <1>8, <1>9, <1>10, <1>11
  DEF Next, ChainNext, MessageNext

(* Backing holds throughout. *)
LEMMA BackedAlways ==
  ASSUME OneSize, ~Concurrent
  PROVE  Spec => [](IInv /\ Backed)
<1>1. Init => IInv /\ Backed
  <2>1. Init => Backed
    BY DEF Init, Backed, LocalFinBacked, GlobalFinBacked, UpdateBacked
  <2> QED
    BY <2>1, InvInit
<1>2. IInv /\ Backed /\ [Next]_vars => (IInv /\ Backed)'
  BY InvStep, BackedStep
<1> QED
  BY <1>1, <1>2, PTL DEF Spec

(***************************************************************************)
(* The block that is locally final has confirm votes of two thirds of its  *)
(* own miners, by UpdateLocalFinBlock(msg) and by AcceptBlock's search     *)
(* alike, restarts included.                                               *)
(***************************************************************************)
THEOREM LocalFinalityBacked ==
  ASSUME OneSize, ~Concurrent
  PROVE  Spec => []LocalFinBacked
<1>1. Backed => LocalFinBacked
  BY DEF Backed
<1> QED
  BY <1>1, BackedAlways, PTL

(***************************************************************************)
(* The block that is globally final has finality votes of two thirds of    *)
(* its own miners, though UpdateGlobalFinBlock takes a height.             *)
(***************************************************************************)
THEOREM GlobalFinalityBacked ==
  ASSUME OneSize, ~Concurrent
  PROVE  Spec => []GlobalFinBacked
<1>1. Backed => GlobalFinBacked
  BY DEF Backed
<1> QED
  BY <1>1, BackedAlways, PTL
-----------------------------------------------------------------------------
(* The node's own finality votes. *)

(***************************************************************************)
(* As long as no local finality was dropped, every block with a quorum of  *)
(* confirm votes is locally final or below the locally final block, but    *)
(* for the one whose quorum is just being acted upon.                      *)
(***************************************************************************)
ConfirmedIsFinal ==
  loosened \/ \A c \in Block :
    Quorum(votes, "confirm", c, TwoThirds(c)) =>
      \/ c \in Chain[localFin]
      \/ msgPc = "update" /\ msg.kind = "confirm" /\ c = msg.block

(***************************************************************************)
(* A vote that is being saved is for a block of the active chain, and if   *)
(* it is one of the node's own votes, it was cast.                         *)
(***************************************************************************)
SavedVote ==
  msgPc = "save" => msg.block \in Chain[tip] /\ (msg.miner \in Own => msg \in votes)

(* The invariant of a node that does not restart. *)
VInv ==
  /\ IInv
  /\ Typed
  /\ Indexed
  /\ NewIsLeaf
  /\ SavedVote
  /\ ConfirmedIsFinal
  /\ VotesAreLocallyFinal

(* A quorum has a voter, as lists are not empty. *)
LEMMA QuorumHasVoter ==
  ASSUME OneSize, NEW vs, NEW kind, NEW b \in Block,
         Cardinality(Signers(vs, kind, b)) >= TwoThirds(b)
  PROVE  \E v \in vs : v.kind = kind /\ v.block = b
<1>1. Parent[b] \in Block
  BY BlockTreeAssumption
<1>2. PICK n \in Nat \ {0} : Cardinality(MinerList[Parent[b]]) = n
  BY <1>1 DEF OneSize
<1>3. TwoThirds(b) > 0
  BY <1>2 DEF TwoThirds
<1>4. Signers(vs, kind, b) # {}
  <2>1. SUFFICES ASSUME Signers(vs, kind, b) = {} PROVE FALSE
    OBVIOUS
  <2>2. Cardinality(Signers(vs, kind, b)) = 0
    BY <2>1, FS_EmptySet
  <2> QED
    BY <1>3, <2>2, ThresholdType
<1>5. PICK d \in MinerList[Parent[b]] : [kind |-> kind, miner |-> d, block |-> b] \in vs
  BY <1>4 DEF Signers
<1> QED
  BY <1>5

(* Two blocks of a chain are ordered by their heights. *)
LEMMA Lower ==
  ASSUME NEW t \in Block, NEW b \in Chain[t], NEW c \in Chain[t], ~(Height[c] > Height[b])
  PROVE  c \in Chain[b]
<1>1. b \in Block /\ c \in Block
  BY ChainBlocks
<1>2. Height[b] \in Nat /\ Height[c] \in Nat
  BY <1>1, BlockTreeAssumption
<1> QED
  BY <1>2, BlockTreeAssumption

(* A new local finality is above the old one. *)
LEMMA LocalFinMoves ==
  ASSUME IInv, NEW b \in Chain[tip], Height[b] > Height[localFin]
  PROVE  Chain[localFin] \subseteq Chain[b]
<1>1. tip \in Block /\ b \in Block /\ localFin \in Block /\ localFin \in Chain[tip]
  BY ChainBlocks DEF IInv, TypeOK, LocalFinOnChain
<1>2. Height[b] \in Nat /\ Height[localFin] \in Nat
  BY <1>1, BlockTreeAssumption
<1>3. localFin \in Chain[b]
  BY <1>1, <1>2, BlockTreeAssumption
<1> QED
  BY <1>1, <1>3, BlockTreeAssumption

(***************************************************************************)
(* What AcceptBlock's end does to a node that has dropped no finality: as  *)
(* all confirmed ancestors are final already, it can only find the tip.    *)
(***************************************************************************)
LEMMA PostAcceptVotes ==
  ASSUME OneSize, ~Concurrent, VInv, ~loosened,
         NEW recent \in BOOLEAN, PostAccept(recent), tip = newBlock
  PROVE  /\ localFin' \in {localFin, tip}
         /\ \A v \in votes' : v \in votes \/ v.block = tip
         /\ \A v \in votes' \ votes : v.kind = "finality" => localFin' = tip
         /\ /\ Parent[tip] \in minersOf /\ tip # Genesis
            /\ Cardinality(Signers(votes', "confirm", tip)) >= TwoThirds(tip)
            => localFin' = tip
<1> DEFINE confirm == recent /\ MayAnnounce("confirm", tip)
           votes1  == IF confirm THEN votes \cup OwnVotes("confirm", tip) ELSE votes
           locals  == Found(votes1, "confirm", localFin, LocalWindow)
           vote    == VoteForTip(locals)
           votes2  == IF vote THEN votes1 \cup OwnVotes("finality", tip) ELSE votes1
<1>1. votes' = votes2 /\ localFin' \in HighestOr(locals, localFin)
  BY DEF PostAccept
<1>2. /\ tip \in Block /\ localFin \in Block /\ localFin \in Chain[tip]
      /\ Height[tip] \in Nat /\ Height[localFin] \in Nat
      /\ msgPc = "idle"
  BY BlockTreeAssumption DEF VInv, IInv, TypeOK, LocalFinOnChain, Alternate, PostAccept
<1>3. /\ \A v \in votes1 : v \in votes \/ (v.kind = "confirm" /\ v.block = tip)
      /\ \A v \in votes2 : v \in votes1 \/ (v.kind = "finality" /\ v.block = tip)
  BY OwnVotesBlock
<1>4. ASSUME NEW c \in locals PROVE c = tip
  <2> SUFFICES ASSUME c # tip PROVE FALSE
    OBVIOUS
  <2>1. /\ c \in Block /\ c # Genesis /\ Parent[c] \in minersOf
        /\ Cardinality(Signers(votes1, "confirm", c)) >= TwoThirds(c)
    BY FoundBacked DEF VInv, IInv
  <2>2. Cardinality(Signers(votes, "confirm", c)) >= TwoThirds(c)
    <3> HIDE DEF votes1
    <3> QED
      BY <1>3, <2>1, SignersGrow, ThresholdType
  <2>3. c \in Chain[localFin]
    BY <1>2, <2>1, <2>2 DEF VInv, ConfirmedIsFinal, Quorum
  <2>4. Height[c] > Height[localFin] /\ Height[c] <= Height[localFin] /\ Height[c] \in Nat
    BY <1>2, <2>1, <2>3, BlockTreeAssumption DEF Found
  <2> QED
    BY <1>2, <2>4
<1>5. localFin' \in {localFin, tip} /\ (locals # {} => localFin' = tip)
  <2> HIDE DEF locals
  <2> QED
    BY <1>1, <1>4 DEF HighestOr
<1>6. \A v \in votes' \ votes : v.kind = "finality" => localFin' = tip
  <2>1. vote => locals # {}
    BY DEF VoteForTip
  <2>2. votes' # votes1 => vote
    BY <1>1
  <2> HIDE DEF vote, votes1, votes2, locals
  <2> QED
    BY <1>1, <1>3, <1>5, <2>1, <2>2
<1>7. ASSUME Parent[tip] \in minersOf, tip # Genesis,
             Cardinality(Signers(votes', "confirm", tip)) >= TwoThirds(tip)
      PROVE  localFin' = tip
  <2>1. CASE Height[tip] > Height[localFin]
    <3>1. Cardinality(Signers(votes1, "confirm", tip)) >= TwoThirds(tip)
      <4> HIDE DEF votes1, votes2
      <4> QED
        BY <1>1, <1>2, <1>3, <1>7, SignersGrow, ThresholdType
    <3>2. tip \in Chain[tip] /\ Height[tip] > Height[tip] - LocalWindow
      BY <1>2, BlockTreeAssumption, NodeAssumption
    <3>3. Need(Parent[tip]) = TwoThirds(tip)
      BY <1>7, OwnThreshold
    <3>4. tip \in locals
      BY <1>7, <2>1, <3>1, <3>2, <3>3 DEF Found, Quorum
    <3> QED
      BY <1>5, <3>4
  <2>2. CASE ~(Height[tip] > Height[localFin])
    <3>1. tip \in Chain[localFin] /\ localFin \in Chain[tip]
      BY <1>2, <2>2, Lower, BlockTreeAssumption
    <3>2. Height[tip] = Height[localFin]
      <4>1. Height[localFin] <= Height[tip]
        BY <1>2, BlockTreeAssumption
      <4> QED
        BY <1>2, <2>2, <4>1
    <3>3. tip = localFin
      BY <1>2, <3>1, <3>2, BlockTreeAssumption
    <3> QED
      BY <1>5, <3>3
  <2> QED
    BY <2>1, <2>2
<1> HIDE DEF votes1, votes2, locals, vote
<1> QED
  BY <1>1, <1>3, <1>5, <1>6, <1>7

(* Every step keeps what is confirmed final. *)
LEMMA ConfirmedStep ==
  ASSUME OneSize, ~Concurrent, ~CrashAllowed, VInv, [Next]_vars
  PROVE  ConfirmedIsFinal'
<1> USE DEF chainVars, finVars, voteVars, msgVars
<1>0. /\ localFin \in Block /\ tip \in Block /\ localFin \in Chain[tip]
      /\ msgPc = "update" => /\ msg \in Vote /\ msg.block \in Block
                             /\ At(tip, Height[msg.block]) = msg.block
                             /\ msg.block \in Chain[tip]
  BY ChainBlocks, AtSelf DEF VInv, IInv, TypeOK, MessageCounted, LocalFinOnChain
<1>1. ASSUME \A v \in votes' : v \in votes \/ v.kind = "finality",
             minersOf' = minersOf, localFin' = localFin \/ loosened',
             loosened => loosened',
             msgPc = "update" /\ msg.kind = "confirm" => msgPc' = msgPc /\ msg' = msg
      PROVE  ConfirmedIsFinal'
  <2> SUFFICES ASSUME ~loosened', NEW c \in Block,
                      Quorum(votes, "confirm", c, TwoThirds(c))'
               PROVE  \/ c \in Chain[localFin']
                      \/ msgPc' = "update" /\ msg'.kind = "confirm" /\ c = msg'.block
    BY DEF ConfirmedIsFinal
  <2>1. /\ c # Genesis /\ Parent[c] \in minersOf
        /\ Cardinality(Signers(votes', "confirm", c)) >= TwoThirds(c)
    BY <1>1 DEF Quorum, TwoThirds
  <2>2. Cardinality(Signers(votes, "confirm", c)) >= TwoThirds(c)
    BY <1>1, <2>1, SignersGrow, ThresholdType
  <2> QED
    BY <1>1, <2>1, <2>2 DEF VInv, ConfirmedIsFinal, Quorum
<1>2. CASE SaveMessage
  <2>1. /\ msg \in Vote /\ msg.block \in Chain[tip] /\ msgPc = "save"
        /\ votes' = votes \cup {msg} /\ UNCHANGED <<minersOf, localFin, loosened>>
    BY <1>2 DEF SaveMessage, VInv, IInv, MessageCounted, SavedVote
  <2> SUFFICES ASSUME ~loosened', NEW c \in Block,
                      Quorum(votes, "confirm", c, TwoThirds(c))'
               PROVE  \/ c \in Chain[localFin']
                      \/ msgPc' = "update" /\ msg'.kind = "confirm" /\ c = msg'.block
    BY DEF ConfirmedIsFinal
  <2>2. /\ c # Genesis /\ Parent[c] \in minersOf
        /\ Cardinality(Signers(votes', "confirm", c)) >= TwoThirds(c)
    BY <2>1 DEF Quorum, TwoThirds
  <2>3. CASE msg.kind # "confirm" \/ c # msg.block
    <3>1. \A v \in votes' : v \in votes \/ v.kind # "confirm" \/ v.block # c
      BY <2>1, <2>3
    <3>2. Cardinality(Signers(votes, "confirm", c)) >= TwoThirds(c)
      BY <2>2, <3>1, SignersGrow, ThresholdType
    <3> QED
      BY <2>1, <2>2, <3>2 DEF VInv, ConfirmedIsFinal, Quorum
  <2>4. CASE msg.kind = "confirm" /\ c = msg.block
    <3>1. CASE Height[c] > Height[localFin]
      <4>1. Quorum(votes', "confirm", c, Need(Parent[c]))
        BY <2>2, OwnThreshold DEF Quorum
      <4>2. msgPc' = "update" /\ msg' = msg
        BY <1>2, <2>1, <2>4, <3>1, <4>1 DEF SaveMessage, ChainContains
      <4> QED
        BY <2>4, <4>2
    <3>2. CASE ~(Height[c] > Height[localFin])
      BY <1>0, <2>1, <2>4, <3>2, Lower
    <3> QED
      BY <3>1, <3>2
  <2> QED
    BY <2>3, <2>4
<1>3. CASE UpdateLocalFinBlock
  <2>1. /\ UNCHANGED <<votes, minersOf, loosened>>
        /\ msgPc = "update" /\ msg.kind = "confirm"
        /\ Height[msg.block] \in Nat /\ Height[tip] \in Nat
        /\ Height[msg.block] <= Height[tip]
    BY <1>0, <1>3, BlockTreeAssumption DEF UpdateLocalFinBlock
  <2>2. Chain[localFin] \subseteq Chain[localFin'] /\ msg.block \in Chain[localFin']
    <3>1. CASE Height[msg.block] > Height[localFin]
      <4>1. localFin' = msg.block
        BY <1>0, <1>3, <2>1, <3>1 DEF UpdateLocalFinBlock
      <4>2. msg.block \in Chain[tip] /\ msg.block \in Chain[msg.block]
        BY <1>0, <2>1, BlockTreeAssumption
      <4> QED
        BY <3>1, <4>1, <4>2, LocalFinMoves DEF VInv
    <3>2. CASE ~(Height[msg.block] > Height[localFin])
      <4>1. localFin' = localFin
        BY <1>3, <3>2 DEF UpdateLocalFinBlock
      <4> QED
        BY <1>0, <2>1, <3>2, <4>1, Lower
    <3> QED
      BY <3>1, <3>2
  <2> QED
    BY <2>1, <2>2 DEF VInv, ConfirmedIsFinal, Quorum, TwoThirds
<1>4. ASSUME NEW recent \in BOOLEAN, PostAccept(recent), tip = newBlock, ~loosened
      PROVE  ConfirmedIsFinal'
  <2>1. /\ minersOf' = minersOf \cup {tip} /\ msgPc' = msgPc /\ msgPc = "idle"
        /\ loosened' = loosened
    BY <1>4 DEF PostAccept, VInv, IInv, Alternate
  <2>2. /\ localFin' \in {localFin, tip}
        /\ \A v \in votes' : v \in votes \/ v.block = tip
        /\ /\ Parent[tip] \in minersOf /\ tip # Genesis
           /\ Cardinality(Signers(votes', "confirm", tip)) >= TwoThirds(tip)
           => localFin' = tip
    BY <1>4, PostAcceptVotes
  <2>3. Chain[localFin] \subseteq Chain[localFin'] /\ tip \in Chain[tip]
    BY <1>0, <2>2, BlockTreeAssumption
  <2> SUFFICES ASSUME NEW c \in Block, Quorum(votes, "confirm", c, TwoThirds(c))'
               PROVE  c \in Chain[localFin']
    BY DEF ConfirmedIsFinal
  <2>4. /\ c # Genesis /\ Parent[c] \in minersOf \cup {tip}
        /\ Cardinality(Signers(votes', "confirm", c)) >= TwoThirds(c)
    BY <2>1 DEF Quorum, TwoThirds
  <2>5. Parent[c] # tip
    <3>1. PICK v \in votes' : v.block = c
      BY <2>4, QuorumHasVoter
    <3>2. c \in index
      BY <2>2, <3>1 DEF VInv, Indexed
    <3> QED
      BY <1>4, <3>2, <1>0, NodeAssumption DEF VInv, NewIsLeaf
  <2>6. CASE c = tip
    BY <2>2, <2>3, <2>4, <2>5, <2>6
  <2>7. CASE c # tip
    <3>1. Cardinality(Signers(votes, "confirm", c)) >= TwoThirds(c)
      BY <2>2, <2>4, <2>7, SignersGrow, ThresholdType
    <3>2. c \in Chain[localFin]
      BY <1>4, <2>1, <2>4, <2>5, <3>1 DEF VInv, ConfirmedIsFinal, Quorum
    <3> QED
      BY <2>3, <3>2
  <2> QED
    BY <2>6, <2>7
<1>5. ASSUME NEW recent \in BOOLEAN, PostAccept(recent), tip # newBlock PROVE ConfirmedIsFinal'
  BY <1>1, <1>5 DEF PostAccept
<1>6. ASSUME NEW recent \in BOOLEAN, PostAccept(recent), tip = newBlock, loosened
      PROVE  ConfirmedIsFinal'
  BY <1>6 DEF PostAccept, ConfirmedIsFinal
<1>7. CASE FindMostWorkChain
  BY <1>1, <1>7 DEF FindMostWorkChain
<1>8. ASSUME NEW v \in Vote, CheckMessage(v) PROVE ConfirmedIsFinal'
  BY <1>1, <1>8 DEF CheckMessage
<1>9. CASE AnnounceFinality
  BY <1>1, <1>9, OwnVotesBlock DEF AnnounceFinality
<1>10. CASE UpdateGlobalFinBlock
  BY <1>1, <1>10 DEF UpdateGlobalFinBlock
<1>11. CASE \/ \E b \in Block : AcceptBlock(b)
            \/ ConnectBlockOnFinChain \/ DisconnectTip \/ ConnectTip \/ Activated
            \/ FlushBlockCache \/ LocalFinExpires \/ UNCHANGED vars
  <2>1. UNCHANGED <<votes, minersOf, localFin, loosened, msgPc, msg>>
    BY <1>11 DEF AcceptBlock, ConnectBlockOnFinChain, DisconnectTip, ConnectTip,
       Activated, FlushBlockCache, LocalFinExpires, vars
  <2> QED
    BY <1>1, <2>1
<1> QED
  BY <1>2, <1>3, <1>4, <1>5, <1>6, <1>7, <1>8, <1>9, <1>10, <1>11
  DEF Next, ChainNext, MessageNext, Restart

(* Every step keeps what is known of a vote that is being saved. *)
LEMMA SavedStep ==
  ASSUME ~Concurrent, ~CrashAllowed, VInv, [Next]_vars
  PROVE  SavedVote'
<1> USE DEF chainVars, finVars, voteVars, msgVars
<1>1. ASSUME NEW v \in Vote, CheckMessage(v) PROVE SavedVote'
  BY <1>1 DEF CheckMessage, ChainContains, SavedVote
<1>2. CASE msgPc' # "save"
  BY <1>2 DEF SavedVote
<1>3. CASE UNCHANGED <<tip, votes, msgPc, msg>>
  BY <1>3 DEF VInv, SavedVote
<1>4. CASE chainPc # "idle" /\ UNCHANGED <<msgPc, msg>>
  BY <1>4 DEF VInv, IInv, Alternate, SavedVote
<1>5. \/ \E v \in Vote : CheckMessage(v)
      \/ msgPc' # "save"
      \/ UNCHANGED <<tip, votes, msgPc, msg>>
      \/ chainPc # "idle" /\ UNCHANGED <<msgPc, msg>>
  BY DEF Next, ChainNext, MessageNext, AcceptBlock, FindMostWorkChain,
     ConnectBlockOnFinChain, DisconnectTip, ConnectTip, Activated, FlushBlockCache,
     PostAccept, SaveMessage, UpdateLocalFinBlock, UpdateGlobalFinBlock,
     AnnounceFinality, LocalFinExpires, Restart, vars
<1> QED
  BY <1>1, <1>2, <1>3, <1>4, <1>5

(* Every step keeps the own finality votes below the locally final block. *)
LEMMA OwnVotesStep ==
  ASSUME OneSize, ~Concurrent, ~CrashAllowed, VInv, [Next]_vars
  PROVE  VotesAreLocallyFinal'
<1> USE DEF VotesAreLocallyFinal, OwnFinality, chainVars, finVars, voteVars, msgVars
<1>0. /\ localFin \in Block /\ tip \in Block /\ localFin \in Chain[tip]
      /\ localFin \in Chain[localFin] /\ tip \in Chain[tip]
  BY BlockTreeAssumption DEF VInv, IInv, TypeOK, LocalFinOnChain
<1>1. ASSUME \A v \in votes' \ votes :
               v.kind = "finality" /\ v.miner \in Own => v.block \in Chain[localFin'],
             Chain[localFin] \subseteq Chain[localFin'] \/ loosened',
             loosened => loosened'
      PROVE  VotesAreLocallyFinal'
  BY <1>1 DEF VInv
<1>2. CASE SaveMessage
  BY <1>1, <1>2 DEF SaveMessage, VInv, SavedVote
<1>3. CASE UpdateLocalFinBlock
  <2>1. /\ msg.block \in Chain[tip] /\ At(tip, Height[msg.block]) = msg.block
    BY <1>0, <1>3, AtSelf DEF UpdateLocalFinBlock, VInv, IInv, MessageCounted
  <2>2. Chain[localFin] \subseteq Chain[localFin']
    BY <1>3, <2>1, LocalFinMoves DEF UpdateLocalFinBlock, VInv
  <2> QED
    BY <1>1, <1>3, <2>2 DEF UpdateLocalFinBlock
<1>4. CASE AnnounceFinality
  BY <1>0, <1>1, <1>4, OwnVotesBlock DEF AnnounceFinality
<1>5. ASSUME NEW recent \in BOOLEAN, PostAccept(recent), tip = newBlock, ~loosened
      PROVE  VotesAreLocallyFinal'
  <2>1. /\ localFin' \in {localFin, tip}
        /\ \A v \in votes' : v \in votes \/ v.block = tip
        /\ \A v \in votes' \ votes : v.kind = "finality" => localFin' = tip
    BY <1>5, PostAcceptVotes
  <2>2. Chain[localFin] \subseteq Chain[localFin']
    BY <1>0, <2>1, BlockTreeAssumption
  <2> QED
    BY <1>0, <1>1, <1>5, <2>1, <2>2 DEF PostAccept
<1>6. ASSUME NEW recent \in BOOLEAN, PostAccept(recent), tip # newBlock PROVE VotesAreLocallyFinal'
  BY <1>1, <1>6 DEF PostAccept
<1>7. ASSUME NEW recent \in BOOLEAN, PostAccept(recent), tip = newBlock, loosened
      PROVE  VotesAreLocallyFinal'
  BY <1>7 DEF PostAccept
<1>8. CASE FindMostWorkChain
  BY <1>1, <1>8 DEF FindMostWorkChain
<1>9. CASE \/ \E v \in Vote : CheckMessage(v)
           \/ \E b \in Block : AcceptBlock(b)
           \/ ConnectBlockOnFinChain \/ DisconnectTip \/ ConnectTip \/ Activated
           \/ FlushBlockCache \/ UpdateGlobalFinBlock \/ LocalFinExpires
           \/ UNCHANGED vars
  <2>1. UNCHANGED <<votes, localFin, loosened>>
    BY <1>9 DEF CheckMessage, AcceptBlock, ConnectBlockOnFinChain, DisconnectTip,
       ConnectTip, Activated, FlushBlockCache, UpdateGlobalFinBlock, LocalFinExpires,
       vars
  <2> QED
    BY <1>1, <2>1
<1> QED
  BY <1>2, <1>3, <1>4, <1>5, <1>6, <1>7, <1>8, <1>9
  DEF Next, ChainNext, MessageNext, Restart

(***************************************************************************)
(* A node that has not given up a local finality has voted only for the    *)
(* finality of blocks it holds to be locally final, so for blocks of one   *)
(* chain, although AcceptBlock votes for the tip whichever ancestor was    *)
(* found and no record is kept of past votes.                              *)
(***************************************************************************)
THEOREM OwnVotesOnOneChain ==
  ASSUME OneSize, ~Concurrent, ~CrashAllowed
  PROVE  Spec => []VotesAreLocallyFinal
<1>1. Init => VInv
  <2> SUFFICES ASSUME Init PROVE VInv
    OBVIOUS
  <2>1. IInv /\ Typed
    BY InvInit DEF Init, Typed
  <2>2. Indexed /\ NewIsLeaf
    BY BlockTreeAssumption DEF Init, Indexed, NewIsLeaf
  <2>3. SavedVote /\ ConfirmedIsFinal /\ VotesAreLocallyFinal
    BY DEF Init, SavedVote, ConfirmedIsFinal, VotesAreLocallyFinal, OwnFinality, Quorum
  <2> QED
    BY <2>1, <2>2, <2>3 DEF VInv
<1>2. VInv /\ [Next]_vars => VInv'
  <2> SUFFICES ASSUME VInv, [Next]_vars PROVE VInv'
    OBVIOUS
  <2>1. IInv' /\ Typed'
    BY InvStep, TypedStep DEF VInv, IInv
  <2>2. Indexed' /\ NewIsLeaf'
    BY IndexedStep, LeafStep DEF VInv, IInv
  <2> QED
    BY <2>1, <2>2, ConfirmedStep, SavedStep, OwnVotesStep DEF VInv
<1>3. VInv => VotesAreLocallyFinal
  BY DEF VInv
<1> QED
  BY <1>1, <1>2, <1>3, PTL DEF Spec
=============================================================================
