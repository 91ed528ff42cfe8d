---------------------------- MODULE FinalityNode ----------------------------
(***************************************************************************)
(* PBFT finality inside one node, and its interplay with fork choice.      *)
(*                                                                         *)
(* Two threads share the state.  The chain thread is whoever holds cs_main *)
(* to process a block (ProcessBlock, AcceptBlock, ActivateBestChain): the  *)
(* message thread itself, and with Concurrent also the miner thread, the   *)
(* import thread or an RPC thread.  The message thread handles one confirm *)
(* or finality vote at a time; only its first step (CheckPBFTMessage)      *)
(* takes cs_main, so with Concurrent the later steps interleave with a     *)
(* reorganisation.                                                         *)
(***************************************************************************)
EXTENDS BlockTree, FiniteSets

CONSTANTS
  Delegate,       \* every delegate that may sign votes
  MinerList,      \* MinerList[b]: the active delegates after block b is connected
  Own,            \* delegates whose keys are in this node's wallet; {} without -genblock
  Invalid,        \* blocks that ConnectBlock rejects
  Concurrent,     \* TRUE: blocks are also processed outside the message thread
  CrashAllowed,   \* TRUE: the process may be killed and restarted
  MaxForkHeight,  \* SysCfg().GetMaxForkHeight
  LocalWindow,    \* 10: how far below the tip a new local finality is looked for
  GlobalWindow,   \* 50: the same for global finality
  HeightSlack,    \* 500: how far above the tip a vote's block may be
  Modulus,        \* 2^32: heights in votes are uint32_t
  MaxMessages,    \* bound on the votes received between two restarts
  NoBlock         \* nullptr

ASSUME NodeAssumption ==
  /\ IsFiniteSet(Delegate)
  /\ MinerList \in [Block -> SUBSET Delegate]
  /\ Own \subseteq Delegate
  /\ Invalid \subseteq Block \ {Genesis}
  /\ Concurrent \in BOOLEAN
  /\ CrashAllowed \in BOOLEAN
  /\ MaxForkHeight \in Nat
  /\ LocalWindow \in Nat \ {0}
  /\ GlobalWindow \in Nat
  /\ HeightSlack \in Nat
  /\ Modulus \in Nat /\ Modulus > HeightSlack
  /\ MaxMessages \in Nat
  /\ NoBlock \notin Block

VARIABLES
  index,      \* mapBlockIndex; each entry is on disk as soon as it is made
  failed,     \* entries with BLOCK_FAILED_VALID, on disk as well
  tip,        \* chainActive.Tip()
  mostWork,   \* chainMostWork.Tip()
  chainPc,    \* where the chain thread is
  newBlock,   \* pIndexNew of AddToBlockIndex, NoBlock during start-up
  localFin,   \* localFinIndex, Genesis for nullptr
  stale,      \* more than 60 s have passed since localFinLastUpdate
  globalFin,  \* globalFinIndex
  finCache,   \* pBlockCache's finality block, Genesis when there is none
  minersOf,   \* blocks with an entry in pbftContext.blockMinerListMap
  votes,      \* confirmMessageMan / finalityMessageMan.blockMessagesMap
  known,      \* messageKnown of both
  announced,  \* broadcastedBlockHashSet of both
  msgPc,      \* where the message thread is
  msg,        \* the vote it handles
  disk,       \* best block and finality block in the block database
  everFinal,  \* history: every block that was ever globalFinIndex
  loosened    \* history: the node has dropped its local finality

chainVars == <<index, failed, tip, mostWork, chainPc, newBlock>>
finVars   == <<localFin, stale, globalFin, finCache, everFinal, loosened>>
voteVars  == <<minersOf, votes, known, announced>>
msgVars   == <<msgPc, msg>>
vars      == <<chainVars, finVars, voteVars, msgVars, disk>>

Kind == {"confirm", "finality"}
Vote == [kind : Kind, miner : Delegate, block : Block]

ChainPc == {"idle", "find", "finchain", "activate", "flush", "post"}
MsgPc   == {"idle", "save", "update", "announce"}

TypeOK ==
  /\ index \subseteq Block
  /\ failed \subseteq Block
  /\ tip \in Block
  /\ mostWork \in Block \cup {NoBlock}
  /\ chainPc \in ChainPc
  /\ newBlock \in Block \cup {NoBlock}
  /\ localFin \in Block
  /\ stale \in BOOLEAN
  /\ globalFin \in Block \cup {NoBlock}
  /\ finCache \in Block
  /\ minersOf \subseteq Block
  /\ votes \subseteq Vote
  /\ known \subseteq Vote
  /\ announced \subseteq Kind \X Block
  /\ msgPc \in MsgPc
  /\ msg \in Vote \cup {NoBlock}
  /\ disk \in [tip : Block, fin : Block]
  /\ everFinal \subseteq Block
  /\ loosened \in BOOLEAN

-----------------------------------------------------------------------------
(* Finality thresholds and the two indexes. *)

(* Mutant: one vote less. *)
NeedOneLess(parent) ==
  LET n == Cardinality(MinerList[IF parent \in minersOf THEN parent ELSE tip])
  IN  n - n \div 3 - 1

(***************************************************************************)
(* GetFinalBlockMinerCount: two thirds, rounded up, of the miners recorded *)
(* after the parent block, or of the current delegates when none are.      *)
(***************************************************************************)
Need(parent) ==
  LET n == Cardinality(MinerList[IF parent \in minersOf THEN parent ELSE tip])
  IN  n - n \div 3

(* GetGlobalFinIndex: genesis stands in for nullptr. *)
GlobalFinIndex == IF globalFin = NoBlock THEN Genesis ELSE globalFin

(* Mutant: what is persisted is not consulted. *)
GlobalFinHashMemoryOnly == IF globalFin = NoBlock THEN Genesis ELSE globalFin

(* GetGlobalFinBlockHash: what is persisted stands in for nullptr. *)
GlobalFinHash == IF globalFin = NoBlock THEN finCache ELSE globalFin

(* The votes of one kind for b by delegates that may finalise it. *)
Signers(vs, kind, b) ==
  {d \in MinerList[Parent[b]] : [kind |-> kind, miner |-> d, block |-> b] \in vs}

(***************************************************************************)
(* Whether the votes vs make a quorum of at least n for b.  The miners of  *)
(* b's parent must be on record; a chain has no parent below genesis.      *)
(***************************************************************************)
Quorum(vs, kind, b, n) ==
  /\ b # Genesis
  /\ Parent[b] \in minersOf
  /\ Cardinality(Signers(vs, kind, b)) >= n

(***************************************************************************)
(* The search of UpdateLocalFinBlock(pIndex) and UpdateGlobalFinBlock      *)
(* (pIndex): from the tip down to the current finality height, at most a   *)
(* window of blocks, the first block with a quorum.  The threshold is that *)
(* of the tip throughout.                                                  *)
(***************************************************************************)
Found(vs, kind, fin, window) ==
  {c \in Chain[tip] : /\ Height[c] > Height[fin]
                      /\ Height[c] > Height[tip] - window
                      /\ Quorum(vs, kind, c, Need(Parent[tip]))}

(* The highest block of S, or the one given when there is none. *)
HighestOr(S, none) ==
  IF S = {} THEN {none} ELSE {c \in S : \A d \in S : Height[d] <= Height[c]}

(***************************************************************************)
(* UpdateGlobalFinBlock(height): the guards under cs_finblock, with lfin   *)
(* the local finality at that moment.                                      *)
(***************************************************************************)
MayFinalize(h, lfin) ==
  /\ h <= Height[lfin]
  /\ h > Height[GlobalFinIndex]
  /\ GlobalFinIndex \in Chain[tip]
  /\ h <= Height[tip]

(* globalFinIndex, globalFinHash and WriteGlobalFinBlock, if the guards hold. *)
Finalize(b, allowed) ==
  IF allowed
    THEN globalFin' = b /\ finCache' = b /\ everFinal' = everFinal \cup {b}
    ELSE UNCHANGED <<globalFin, finCache, everFinal>>

(* The votes a node casts for b: those of its own delegates among b's miners. *)
OwnVotes(kind, b) ==
  IF Parent[b] \in minersOf
    THEN [kind : {kind}, miner : Own \cap MinerList[Parent[b]], block : {b}]
    ELSE {}

(* BroadcastBlockConfirm and BroadcastBlockFinality return early on these. *)
MayAnnounce(kind, b) == Own # {} /\ b # Genesis /\ <<kind, b>> \notin announced

(* Mutant: the tip is voted final without a local finality. *)
VoteForTipAlways(locals) == MayAnnounce("finality", tip)

(* AcceptBlock votes for the tip when some local finality was found. *)
VoteForTip(locals) == locals # {} /\ MayAnnounce("finality", tip)

-----------------------------------------------------------------------------
(* The chain thread. *)

(* The lock cs_main is free, and no vote is being handled by this thread. *)
ChainThreadFree == chainPc = "idle" /\ (Concurrent \/ msgPc = "idle")

(***************************************************************************)
(* AcceptBlock up to AddToBlockIndex: a new block whose parent is indexed. *)
(* A block off the active tip passes ProcessForkedChain, which bounds how  *)
(* deep the fork is and connects the fork up to b's parent, not b itself.  *)
(***************************************************************************)
AcceptBlock(b) ==
  /\ ChainThreadFree
  /\ b \in Block \ index
  /\ Parent[b] \in index
  /\ \/ Parent[b] = tip
     \/ /\ Height[tip] - Height[ForkPoint(tip, Parent[b])] <= MaxForkHeight
        /\ Chain[Parent[b]] \cap Invalid = {}
  /\ index' = index \cup {b}
  /\ newBlock' = b
  /\ chainPc' = "find"
  /\ UNCHANGED <<failed, tip, mostWork, finVars, voteVars, msgVars, disk>>

(* Blocks whose path from the active chain holds no failed block. *)
Candidates ==
  {c \in index : (Chain[c] \ Chain[tip]) \cap failed = {} /\ c \notin failed}

Heaviest == {c \in Candidates : \A d \in Candidates : Height[d] <= Height[c]}

(***************************************************************************)
(* FindMostWorkChain: the best known chain, kept unless a higher one is    *)
(* known.  Between equals the one received first wins: that is the current *)
(* one, unless it has just been popped because its tip failed.             *)
(***************************************************************************)
MostWorkChoices ==
  LET popped  == mostWork # NoBlock /\ mostWork \in failed
      current == IF popped THEN Parent[mostWork] ELSE mostWork
      better  == {c \in Heaviest : current = NoBlock \/ Height[c] > Height[current]}
      ties    == {c \in Heaviest : popped /\ Height[c] = Height[current]}
  IN  IF better # {} THEN better ELSE ties \cup {current}

(* The blocks that the walk down the active chain visits for a target m. *)
Reverted(m) == Chain[tip] \ Chain[m]

(* Mutants: the walk looks at the tip only. *)
LocalFinHitTipOnly(m) == localFin \in Reverted(m) /\ localFin = tip
GlobalFinHitTipOnly(m) == GlobalFinHash \in Reverted(m) /\ GlobalFinHash = tip

(***************************************************************************)
(* The walk towards a target m meets the global finality block, or meets   *)
(* the local one no later than the global one.                             *)
(***************************************************************************)
GlobalFinHit(m) == GlobalFinHash \in Reverted(m)

LocalFinHit(m) ==
  /\ localFin \in Reverted(m)
  /\ GlobalFinHit(m) => Height[GlobalFinHash] <= Height[localFin]

(***************************************************************************)
(* The top of ActivateBestChain's loop: choose the target, then walk down  *)
(* the blocks to be reverted.  The local finality block stops the walk for *)
(* 60 s and is dropped afterwards; the global one always stops it.         *)
(***************************************************************************)
FindMostWorkChain ==
  /\ chainPc = "find"
  /\ \E m \in MostWorkChoices \ {NoBlock} :
       LET timeout == LocalFinHit(m) /\ stale
           refused == GlobalFinHit(m) \/ (LocalFinHit(m) /\ ~stale)
       IN  /\ mostWork' = m
           /\ localFin' = IF timeout THEN Genesis ELSE localFin
           /\ loosened' = (loosened \/ timeout)
           /\ chainPc' = IF refused THEN "finchain" ELSE "activate"
  /\ UNCHANGED <<index, failed, tip, newBlock, stale, globalFin, finCache,
                 everFinal, voteVars, msgVars, disk>>

(* Mutant: the failure is forgotten. *)
MarkFailedNot(b) == UNCHANGED failed

(* InvalidBlockFound: the failure is written to the block index at once. *)
MarkFailed(b) == failed' = failed \cup {b}

(* Mutant: the best block is left out of the flush. *)
FlushFinOnly(t) == disk' = [tip |-> disk.tip, fin |-> finCache]

(* WriteChainState and pBlockCache->Flush: the block database takes over t. *)
FlushWithTip(t) == disk' = [tip |-> t, fin |-> finCache]

(***************************************************************************)
(* ConnectBlockOnFinChain: the reorganisation is refused, the new block is *)
(* connected if it extends the active chain.                               *)
(***************************************************************************)
ConnectBlockOnFinChain ==
  /\ chainPc = "finchain"
  /\ IF newBlock # NoBlock /\ tip = Parent[newBlock]
       THEN IF newBlock \in Invalid
              THEN MarkFailed(newBlock) /\ UNCHANGED <<tip, disk>>
              ELSE tip' = newBlock /\ FlushWithTip(newBlock) /\ UNCHANGED failed
       ELSE UNCHANGED <<failed, tip, disk>>
  /\ chainPc' = "flush"
  /\ UNCHANGED <<index, mostWork, newBlock, finVars, voteVars, msgVars>>

(* DisconnectTip: the state is flushed before chainActive is updated. *)
DisconnectTip ==
  /\ chainPc = "activate"
  /\ ~ChainContains(mostWork, tip)
  /\ tip' = Parent[tip]
  /\ FlushWithTip(Parent[tip])
  /\ UNCHANGED <<index, failed, mostWork, chainPc, newBlock, finVars, voteVars,
                 msgVars>>

(* ConnectTip: the next block towards the target, or start over if it is bad. *)
ConnectTip ==
  /\ chainPc = "activate"
  /\ ChainContains(mostWork, tip)
  /\ tip # mostWork
  /\ LET next == At(mostWork, Height[tip] + 1)
     IN  IF next \in Invalid
           THEN /\ MarkFailed(next)
                /\ chainPc' = "find"
                /\ UNCHANGED <<tip, disk>>
           ELSE /\ tip' = next
                /\ FlushWithTip(next)
                /\ UNCHANGED <<failed, chainPc>>
  /\ UNCHANGED <<index, mostWork, newBlock, finVars, voteVars, msgVars>>

(* ActivateBestChain returns: the active chain is the most-work one. *)
Activated ==
  /\ chainPc = "activate"
  /\ tip = mostWork
  /\ chainPc' = "flush"
  /\ UNCHANGED <<index, failed, tip, mostWork, newBlock, finVars, voteVars,
                 msgVars, disk>>

(* The end of AddToBlockIndex; at start-up there is no new block to add. *)
FlushBlockCache ==
  /\ chainPc = "flush"
  /\ IF newBlock = NoBlock
       THEN UNCHANGED disk /\ chainPc' = "idle"
       ELSE FlushWithTip(tip) /\ chainPc' = "post"
  /\ UNCHANGED <<index, failed, tip, mostWork, newBlock, finVars, voteVars, msgVars>>

(***************************************************************************)
(* The end of AcceptBlock, when the new block has become the tip: record   *)
(* its miners, vote to confirm it (recent: it is at most 60 s old), look   *)
(* for a new local finality, and then vote for the finality of the tip and *)
(* look for a new global finality.                                         *)
(***************************************************************************)
PostAccept(recent) ==
  /\ chainPc = "post"
  /\ chainPc' = "idle"
  /\ newBlock' = NoBlock
  /\ UNCHANGED <<index, failed, tip, mostWork, known, msgVars, disk>>
  /\ IF tip # newBlock
       THEN UNCHANGED <<finVars, minersOf, votes, announced>>
       ELSE LET confirm == recent /\ MayAnnounce("confirm", tip)
                votes1  == IF confirm THEN votes \cup OwnVotes("confirm", tip) ELSE votes
                locals  == Found(votes1, "confirm", localFin, LocalWindow)
                vote    == VoteForTip(locals)
                votes2  == IF vote THEN votes1 \cup OwnVotes("finality", tip) ELSE votes1
                globals == Found(votes2, "finality", GlobalFinIndex, GlobalWindow)
            IN  /\ minersOf' = minersOf \cup {tip}
                /\ votes' = votes2
                /\ announced' = announced
                     \cup (IF confirm THEN {<<"confirm", tip>>} ELSE {})
                     \cup (IF vote THEN {<<"finality", tip>>} ELSE {})
                /\ localFin' \in HighestOr(locals, localFin)
                /\ stale' = (stale /\ locals = {})
                /\ \E g \in HighestOr(globals, Genesis) :
                     Finalize(g, locals # {} /\ MayFinalize(Height[g], localFin'))
                /\ UNCHANGED loosened

-----------------------------------------------------------------------------
(* The message thread: ProcessBlockConfirmMessage, ProcessBlockFinalityMessage. *)

(* Mutant: the distance to the tip is a signed number. *)
InRangeSigned(h) ==
  /\ h - Height[tip] <= HeightSlack
  /\ h >= Height[localFin]

(***************************************************************************)
(* The range test on a vote's height.  msg.height is a uint32_t, and so is *)
(* msg.height - chainActive.Height(): below the tip it wraps around.       *)
(***************************************************************************)
InRange(h) ==
  /\ (h - Height[tip]) % Modulus <= HeightSlack
  /\ h >= Height[localFin]

(***************************************************************************)
(* A vote that is new and passes CheckPBFTMessage, which takes cs_main.    *)
(* Any delegate may vote for any block, at any time and in any order; a    *)
(* vote that fails the test leaves no trace.  The node's own votes are     *)
(* echoed by its peers once cast, maybe before a restart.                  *)
(***************************************************************************)
CheckMessage(v) ==
  /\ msgPc = "idle"
  /\ chainPc = "idle"
  /\ Cardinality(known) < MaxMessages
  /\ v \notin known
  /\ v.miner \in Own => v \in votes \/ CrashAllowed
  /\ InRange(Height[v.block])
  /\ ChainContains(tip, v.block)
  /\ msg' = v
  /\ msgPc' = "save"
  /\ UNCHANGED <<chainVars, finVars, voteVars, disk>>

(***************************************************************************)
(* SaveMessageByBlock and the test of the public UpdateLocalFinBlock(msg)  *)
(* or UpdateGlobalFinBlock(msg), which reads chainActive without cs_main.  *)
(***************************************************************************)
SaveMessage ==
  /\ msgPc = "save"
  /\ known' = known \cup {msg}
  /\ votes' = votes \cup {msg}
  /\ LET fin == IF msg.kind = "confirm" THEN localFin ELSE GlobalFinIndex
     IN  msgPc' = IF /\ Height[msg.block] > Height[fin]
                     /\ ChainContains(tip, msg.block)
                     /\ Quorum(votes', msg.kind, msg.block, Need(Parent[msg.block]))
                    THEN "update" ELSE "idle"
  /\ msg' = IF msgPc' = "idle" THEN NoBlock ELSE msg
  /\ UNCHANGED <<chainVars, finVars, minersOf, announced, disk>>

(* The private UpdateLocalFinBlock(height): whatever is at that height now. *)
UpdateLocalFinBlock ==
  /\ msgPc = "update"
  /\ msg.kind = "confirm"
  /\ LET h == Height[msg.block]
     IN  IF h > Height[localFin] /\ h <= Height[tip]
           THEN /\ localFin' = At(tip, h)
                /\ stale' = FALSE
                /\ msgPc' = "announce"
           ELSE /\ msgPc' = "idle"
                /\ UNCHANGED <<localFin, stale>>
  /\ msg' = NoBlock
  /\ UNCHANGED <<chainVars, globalFin, finCache, everFinal, loosened, voteVars, disk>>

(* The private UpdateGlobalFinBlock(height). *)
UpdateGlobalFinBlock ==
  /\ msgPc = "update"
  /\ msg.kind = "finality"
  /\ msgPc' = "idle"
  /\ LET h == Height[msg.block]
     IN  Finalize(At(tip, h), MayFinalize(h, localFin))
  /\ msg' = NoBlock
  /\ UNCHANGED <<chainVars, localFin, stale, loosened, voteVars, disk>>

(* BroadcastBlockFinality(GetLocalFinIndex()). *)
AnnounceFinality ==
  /\ msgPc = "announce"
  /\ msgPc' = "idle"
  /\ IF MayAnnounce("finality", localFin)
       THEN /\ votes' = votes \cup OwnVotes("finality", localFin)
            /\ announced' = announced \cup {<<"finality", localFin>>}
       ELSE UNCHANGED <<votes, announced>>
  /\ UNCHANGED <<chainVars, finVars, minersOf, known, msg, disk>>

-----------------------------------------------------------------------------
(* The environment. *)

(* Sixty seconds pass after an update of the local finality. *)
LocalFinExpires ==
  /\ ~stale
  /\ stale' = TRUE
  /\ UNCHANGED <<chainVars, localFin, globalFin, finCache, everFinal, loosened,
                 voteVars, msgVars, disk>>

(***************************************************************************)
(* The process is killed; LoadBlockIndexDB takes the tip and the finality  *)
(* block from the database, and start-up runs ActivateBestChain.           *)
(***************************************************************************)
Restart ==
  /\ CrashAllowed
  /\ tip' = disk.tip
  /\ finCache' = disk.fin
  /\ mostWork' = NoBlock
  /\ newBlock' = NoBlock
  /\ chainPc' = "find"
  /\ localFin' = Genesis
  /\ stale' = TRUE
  /\ globalFin' = NoBlock
  /\ minersOf' = {}
  /\ votes' = {}
  /\ known' = {}
  /\ announced' = {}
  /\ msgPc' = "idle"
  /\ msg' = NoBlock
  /\ loosened' = TRUE
  /\ UNCHANGED <<index, failed, disk, everFinal>>

-----------------------------------------------------------------------------

(* A node on an empty data directory: genesis is connected, not accepted. *)
Init ==
  /\ index = {Genesis}
  /\ failed = {}
  /\ tip = Genesis
  /\ mostWork = Genesis
  /\ chainPc = "idle"
  /\ newBlock = NoBlock
  /\ localFin = Genesis
  /\ stale = TRUE
  /\ globalFin = NoBlock
  /\ finCache = Genesis
  /\ minersOf = {}
  /\ votes = {}
  /\ known = {}
  /\ announced = {}
  /\ msgPc = "idle"
  /\ msg = NoBlock
  /\ disk = [tip |-> Genesis, fin |-> Genesis]
  /\ everFinal = {}
  /\ loosened = FALSE

ChainNext ==
  \/ \E b \in Block : AcceptBlock(b)
  \/ FindMostWorkChain
  \/ ConnectBlockOnFinChain
  \/ DisconnectTip
  \/ ConnectTip
  \/ Activated
  \/ FlushBlockCache
  \/ \E recent \in BOOLEAN : PostAccept(recent)

MessageNext ==
  \/ \E v \in Vote : CheckMessage(v)
  \/ SaveMessage
  \/ UpdateLocalFinBlock
  \/ UpdateGlobalFinBlock
  \/ AnnounceFinality

Next == ChainNext \/ MessageNext \/ LocalFinExpires \/ Restart

Spec == Init /\ [][Next]_vars

(* A thread that holds cs_main runs until it has processed its block. *)
Fairness ==
  /\ WF_vars(FindMostWorkChain)
  /\ WF_vars(ConnectBlockOnFinChain)
  /\ WF_vars(DisconnectTip)
  /\ WF_vars(ConnectTip)
  /\ WF_vars(Activated)
  /\ WF_vars(FlushBlockCache)
  /\ WF_vars(\E recent \in BOOLEAN : PostAccept(recent))

FairSpec == Spec /\ Fairness

-----------------------------------------------------------------------------
(* What finality promises. *)

(***************************************************************************)
(* The block that is locally final is on the active chain: fork choice     *)
(* (main.cpp, ActivateBestChain) gives it up before it reverts it.         *)
(***************************************************************************)
LocalFinOnChain == localFin \in Chain[tip]

(***************************************************************************)
(* The block that fork choice protects for good, GetGlobalFinBlockHash(),  *)
(* is on the active chain, in memory and after a restart.                  *)
(***************************************************************************)
GlobalFinOnChain == GlobalFinHash \in Chain[tip]

(***************************************************************************)
(* The block database is consistent whenever the process dies: the stored  *)
(* finality block is on the chain that ends in the stored best block, so   *)
(* that LoadBlockIndexDB starts from a state that fork choice can keep.    *)
(***************************************************************************)
DiskFinOnDiskChain == disk.fin \in Chain[disk.tip]

(***************************************************************************)
(* No block that was ever globally final is replaced by another block of   *)
(* its height ("globalfinality block can't be reverse").                   *)
(***************************************************************************)
NoFinalReversed ==
  \A b \in everFinal, c \in Chain[tip] : Height[c] = Height[b] => c = b

(* Two thirds of b's miners. *)
TwoThirds(b) ==
  LET n == Cardinality(MinerList[Parent[b]]) IN n - n \div 3

(***************************************************************************)
(* A globally final block carries the finality votes of two thirds of its  *)
(* own miners, although UpdateGlobalFinBlock(height) re-reads chainActive  *)
(* by height after the votes were counted for a hash.                      *)
(***************************************************************************)
GlobalFinBacked ==
  globalFin # NoBlock => Quorum(votes, "finality", globalFin, TwoThirds(globalFin))

(* The same for the locally final block and confirm votes. *)
LocalFinBacked ==
  localFin # Genesis => Quorum(votes, "confirm", localFin, TwoThirds(localFin))

(* The finality votes of the node's own delegates. *)
OwnFinality == {v \in votes : v.kind = "finality" /\ v.miner \in Own}

(***************************************************************************)
(* A node that has not given up a local finality has voted only for the    *)
(* finality of blocks it holds to be locally final, although AcceptBlock   *)
(* votes for the tip whichever ancestor has just become final, and no      *)
(* record is kept of past votes: so they are all for blocks of one chain.  *)
(***************************************************************************)
VotesAreLocallyFinal ==
  \/ loosened
  \/ \A v \in OwnFinality : v.block \in Chain[localFin]

(***************************************************************************)
(* The persisted finality height never goes back, even though globalFin is *)
(* lost in a restart and UpdateGlobalFinBlock then starts from genesis.    *)
(***************************************************************************)
DiskFinAdvances == [][disk.fin \in Chain[disk'.fin]]_vars

(***************************************************************************)
(* ActivateBestChain's loop ends: a branch that turns out to be invalid is *)
(* left for good, whatever was disconnected on the way, and cs_main is     *)
(* released.                                                               *)
(***************************************************************************)
ActivationEnds == chainPc # "idle" ~> chainPc = "idle"

(***************************************************************************)
(* A peer's vote is only taken for the current tip: the unsigned distance  *)
(* to the tip drops the late votes that the ten-block and fifty-block      *)
(* searches of UpdateLocalFinBlock and UpdateGlobalFinBlock could use.     *)
(***************************************************************************)
OnlyTipVotes == [][msg' # NoBlock /\ msg = NoBlock => msg'.block = tip]_vars
=============================================================================
