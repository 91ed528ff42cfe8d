----------------------------- MODULE ForkCache -----------------------------
(***************************************************************************)
(* The ledger below fork choice: the caches a block is connected on, the   *)
(* undo records it leaves, and mapForkCache, the ledger copies that a node *)
(* keeps for blocks that are not on its active chain (main.cpp).           *)
(*                                                                         *)
(* A ledger maps keys to values; the value of a key is named by the block  *)
(* that wrote it last, so a copy is right for a block exactly if it reads  *)
(* as the replay of that block's chain.  A view is an overlay, where Unset *)
(* means that the layer below is read, above the databases.                *)
(*                                                                         *)
(* Finality is left to FinalityNode.  One thread holds cs_main at a time.  *)
(***************************************************************************)
EXTENDS BlockTree, Sequences

CONSTANTS
  Key,             \* every key of the ledger
  BlockKey,        \* the keys that CBlockDBCache holds
  Best,            \* the best block's hash, a key that every block writes
  Writes,          \* Writes[b]: the keys block b changes
  Invalid,         \* blocks that ConnectBlock rejects
  MaxForkHeight,   \* SysCfg().GetMaxForkHeight
  InitialDownload, \* TRUE: IsInitialBlockDownload() may hold
  Disputed,        \* blocks the operator may invalidate and reconsider
  Unset            \* an overlay has no value for the key

ForkCacheAssumption ==
  /\ BlockKey \subseteq Key
  /\ Best \in BlockKey
  /\ Writes \in [Block -> SUBSET Key]
  /\ Writes[Genesis] = Key
  /\ \A b \in Block : Best \in Writes[b]
  /\ Invalid \subseteq Block \ {Genesis}
  /\ MaxForkHeight \in Nat
  /\ InitialDownload \in BOOLEAN
  /\ Disputed \subseteq Block \ {Genesis}
  /\ Unset \notin Block

VARIABLES
  order,       \* mapBlockIndex, in the order of nSequenceId
  failed,      \* entries with a BLOCK_FAILED_MASK flag in memory
  valid,       \* setBlockIndexValid
  hasUndo,     \* entries with BLOCK_HAVE_UNDO in memory
  undo,        \* undo[b]: the undo record last written for b
  tip,         \* chainActive.Tip()
  mostWork,    \* chainMostWork.Tip()
  main,        \* the overlay that pCdMan's caches hold
  db,          \* the databases below
  forkCache,   \* mapForkCache
  ibd,         \* IsInitialBlockDownload()
  pc,          \* what the holder of cs_main is doing
  bad,         \* the block that InvalidateBlock is taking off the chain
  invalidated  \* history: blocks an operator invalidated for good

indexVars  == <<order, failed, valid, hasUndo>>
ledgerVars == <<undo, tip, main, db, forkCache>>
forkVars == <<indexVars, ledgerVars, mostWork, ibd, pc, bad, invalidated>>

(* The blocks that are indexed. *)
index == {order[i] : i \in DOMAIN order}

Overlay == [Key -> Block \cup {Unset}]

ForkTypeOK ==
  /\ order \in Seq(Block)
  /\ failed \subseteq index
  /\ valid \subseteq index
  /\ hasUndo \subseteq index
  /\ undo \in [Block -> Overlay]
  /\ tip \in index
  /\ mostWork \in index
  /\ main \in Overlay
  /\ db \in [Key -> Block]
  /\ DOMAIN forkCache \subseteq index
  /\ \A f \in DOMAIN forkCache : forkCache[f] \in Overlay
  /\ ibd \in BOOLEAN
  /\ pc \in {"idle", "find", "activate", "invalidate"}
  /\ bad \in Block \cup {Unset}
  /\ invalidated \subseteq index

-----------------------------------------------------------------------------
(* Ledgers and overlays. *)

LowestOf(S)  == CHOOSE c \in S : \A d \in S : Height[c] <= Height[d]
HighestOf(S) == CHOOSE c \in S : \A d \in S : Height[d] <= Height[c]

(* What reading the overlay o finds under each key. *)
View(o) == [k \in Key |-> IF o[k] = Unset THEN db[k] ELSE o[k]]

(* The ledger after the chain that ends in b has been replayed. *)
LedgerAt(b) == [k \in Key |-> HighestOf({c \in Chain[b] : k \in Writes[c]})]

(* ConnectBlock on the overlay o of the blocks of path, lowest first. *)
Connected(o, path) ==
  [k \in Key |-> LET w == {c \in path : k \in Writes[c]}
                 IN  IF w = {} THEN o[k] ELSE HighestOf(w)]

(* CBlockUndo of c, connected on o after the blocks of path below it. *)
UndoOf(c, o, path) ==
  [k \in Key |->
     IF k \in Writes[c]
       THEN View(Connected(o, {d \in path : Height[d] < Height[c]}))[k]
       ELSE Unset]

(* DisconnectBlock on the overlay o of the blocks of path, highest first. *)
Disconnected(o, path) ==
  [k \in Key |-> LET w == {c \in path : k \in Writes[c]}
                 IN  IF w = {} THEN o[k] ELSE undo[LowestOf(w)][k]]

(* CCacheDBManager::Flush of the keys of S: the caches at o go to the databases. *)
FlushKeys(o, S) ==
  /\ db' = [k \in Key |-> IF k \in S THEN View(o)[k] ELSE db[k]]
  /\ main' = [k \in Key |-> IF k \in S THEN Unset ELSE o[k]]

(* Mutant: the copies outlive the databases they were made on. *)
WriteChainStateKeeps(o) ==
  \/ FlushKeys(o, Key) /\ UNCHANGED forkCache
  \/ ibd /\ main' = o /\ UNCHANGED <<db, forkCache>>

(***************************************************************************)
(* WriteChainState with the caches at o: all databases are written and     *)
(* mapForkCache is cleared; during initial download only if the caches are *)
(* full or a minute has passed.                                            *)
(***************************************************************************)
WriteChainState(o) ==
  \/ FlushKeys(o, Key) /\ forkCache' = << >>
  \/ ibd /\ main' = o /\ UNCHANGED <<db, forkCache>>

-----------------------------------------------------------------------------
(* A new block. *)

(***************************************************************************)
(* nStatus of the blocks of path, which ProcessForkedChain has connected:  *)
(* nStatus | BLOCK_FAILED_MASK is never 0, so each goes back to            *)
(* BLOCK_VALID_TRANSACTIONS | BLOCK_HAVE_DATA, without BLOCK_HAVE_UNDO.    *)
(***************************************************************************)
StatusReset(path) ==
  /\ failed' = failed \ path
  /\ hasUndo' = hasUndo \ path

(* Undo records are written where the index says there is none. *)
WriteUndo(path, o) ==
  undo' = [c \in Block |-> IF c \in path \ hasUndo THEN UndoOf(c, o, path)
                                                   ELSE undo[c]]

(* mapForkCache without the entry for f, and with o for c. *)
Replace(cache, f, c, o) ==
  [d \in (DOMAIN cache \ {f}) \cup {c} |-> IF d = c THEN o ELSE cache[d]]

(* NewCopyFrom(pCdMan), rolled back to the fork point f, unless it is cached. *)
CopyFor(f) ==
  IF f \in DOMAIN forkCache THEN forkCache[f]
                            ELSE Disconnected(main, Chain[tip] \ Chain[f])

(***************************************************************************)
(* The ledger copy that ProcessForkedChain starts from for a block on p:   *)
(* that of the highest cached block between p and the fork point, or the   *)
(* one for the fork point.                                                 *)
(***************************************************************************)
CopyBlock(p) ==
  LET cached == (Chain[p] \ Chain[tip]) \cap DOMAIN forkCache
  IN  IF cached = {} THEN ForkPoint(tip, p) ELSE HighestOf(cached)

(***************************************************************************)
(* ProcessForkedChain for a block on p, once the fork is not too deep: all *)
(* blocks up to p are connected on an overlay of the copy, which is thrown *)
(* away if one of them fails.  Undo records and flags change either way.   *)
(***************************************************************************)
ProcessForkedChain(p) ==
  LET f      == CopyBlock(p)
      copy   == CopyFor(f)
      path   == Chain[p] \ Chain[f]
      good   == {c \in path : Chain[c] \cap path \cap Invalid = {}}
      cached == Replace(forkCache, f, f, copy)
  IN  /\ WriteUndo(good, copy)
      /\ StatusReset(good)
      /\ forkCache' = IF good = path /\ path # {}
                        THEN Replace(cached, f, p, Connected(copy, path))
                        ELSE cached

(* The blocks up to p can be connected. *)
ForkConnects(p) == (Chain[p] \ Chain[CopyBlock(p)]) \cap Invalid = {}

(***************************************************************************)
(* AcceptBlock up to ActivateBestChain in AddToBlockIndex.  A block off    *)
(* the tip is also refused by VerifyRewardTx on the ledger copy; that      *)
(* leaves the copy, the undo records and the flags.                        *)
(***************************************************************************)
AcceptForkBlock(b) ==
  /\ pc = "idle"
  /\ b \in Block \ index
  /\ Parent[b] \in index
  /\ \/ /\ Parent[b] = tip
        /\ UNCHANGED <<failed, hasUndo, undo, forkCache>>
     \/ /\ Parent[b] # tip
        /\ Height[tip] - Height[ForkPoint(tip, Parent[b])] <= MaxForkHeight
        /\ ProcessForkedChain(Parent[b])
  /\ \/ /\ Parent[b] = tip \/ ForkConnects(Parent[b])
        /\ order' = Append(order, b)
        /\ valid' = valid \cup {b}
        /\ pc' = "find"
     \/ /\ Parent[b] # tip
        /\ UNCHANGED <<order, valid, pc>>
  /\ UNCHANGED <<tip, mostWork, main, db, ibd, bad, invalidated>>

-----------------------------------------------------------------------------
(* ActivateBestChain. *)

(* nSequenceId of an indexed block. *)
Position(b) == CHOOSE i \in DOMAIN order : order[i] = b

(* CBlockIndexWorkComparator: the higher block, or of equals the earlier one. *)
Better(b, c) ==
  \/ Height[b] > Height[c]
  \/ Height[b] = Height[c] /\ Position(b) < Position(c)

BestOf(S) == CHOOSE c \in S : \A d \in S \ {c} : Better(c, d)

(* The failed blocks between the active chain and c. *)
FailedOnPath(c) == (Chain[c] \ Chain[tip]) \cap failed

(* The blocks that are flagged BLOCK_FAILED_CHILD when candidate c is tried. *)
FailedChildren(c) ==
  {d \in Chain[c] : Height[d] > Height[HighestOf(FailedOnPath(c))]}

(* chainMostWork without the failed blocks at its end. *)
Unfailed ==
  HighestOf({c \in Chain[mostWork] \ failed :
             \A d \in Chain[mostWork] : Height[d] > Height[c] => d \in failed})

(***************************************************************************)
(* FindMostWorkChain: candidates are tried from the best one down until    *)
(* one has no failed block on its path; the others are dropped, with their *)
(* ancestors above the failed block.                                       *)
(***************************************************************************)
FindMostWorkChain ==
  /\ pc = "find"
  /\ LET clean   == {c \in valid : FailedOnPath(c) = {}}
         new     == IF clean = {} THEN Unfailed ELSE BestOf(clean)
         tried   == {c \in valid \ clean : clean = {} \/ Better(c, new)}
         flagged == UNION {FailedChildren(c) : c \in tried}
     IN  /\ failed' = failed \cup flagged
         /\ valid' = valid \ flagged
         /\ mostWork' = IF Better(new, Unfailed) THEN new ELSE Unfailed
  /\ pc' = "activate"
  /\ UNCHANGED <<order, hasUndo, ledgerVars, ibd, bad, invalidated>>

(* DisconnectTip: DisconnectBlock on an overlay, its flush, WriteChainState. *)
DisconnectTip ==
  /\ tip' = Parent[tip]
  /\ WriteChainState(Disconnected(main, {tip}))
  /\ UNCHANGED <<order, hasUndo, undo, mostWork, ibd, invalidated>>

Disconnect ==
  /\ pc = "activate"
  /\ ~ChainContains(mostWork, tip)
  /\ DisconnectTip
  /\ UNCHANGED <<failed, valid, pc, bad>>

(* InvalidBlockFound and InvalidateBlockIndex. *)
MarkInvalid(b) ==
  /\ failed' = failed \cup {b}
  /\ valid' = valid \ {b}

(***************************************************************************)
(* ConnectTip: the block is connected on an overlay that is flushed into   *)
(* the caches, or thrown away if the block is bad.  ConnectBlock writes    *)
(* the undo record unless the index entry has one.                         *)
(***************************************************************************)
ConnectTip ==
  /\ pc = "activate"
  /\ ChainContains(mostWork, tip)
  /\ tip # mostWork
  /\ LET next == At(mostWork, Height[tip] + 1)
     IN  IF next \in Invalid
           THEN /\ MarkInvalid(next)
                /\ pc' = "find"
                /\ UNCHANGED <<hasUndo, ledgerVars>>
           ELSE /\ WriteUndo({next}, main)
                /\ hasUndo' = hasUndo \cup {next}
                /\ WriteChainState(Connected(main, {next}))
                /\ tip' = next
                /\ UNCHANGED <<failed, valid, pc>>
  /\ UNCHANGED <<order, mostWork, ibd, bad, invalidated>>

(* ActivateBestChain ends; AddToBlockIndex flushes the block cache alone. *)
Activated ==
  /\ pc = "activate"
  /\ tip = mostWork
  /\ FlushKeys(main, BlockKey)
  /\ pc' = "idle"
  /\ UNCHANGED <<indexVars, undo, tip, forkCache, mostWork, ibd, bad, invalidated>>

-----------------------------------------------------------------------------
(* The operator's commands, and the environment. *)

(* invalidateblock: InvalidateBlock marks b, then disconnects down to it. *)
InvalidateBlock(b) ==
  /\ pc = "idle"
  /\ b \in index \cap Disputed
  /\ MarkInvalid(b)
  /\ bad' = b
  /\ pc' = "invalidate"
  /\ invalidated' = invalidated \cup {b}
  /\ UNCHANGED <<order, hasUndo, ledgerVars, mostWork, ibd>>

(* The loop of InvalidateBlock: the tip is marked and disconnected. *)
InvalidateTip ==
  /\ pc = "invalidate"
  /\ ChainContains(tip, bad)
  /\ MarkInvalid(tip)
  /\ DisconnectTip
  /\ UNCHANGED <<pc, bad>>

(* InvalidateBlock returns; the command goes on to ActivateBestChain. *)
Invalidated ==
  /\ pc = "invalidate"
  /\ ~ChainContains(tip, bad)
  /\ bad' = Unset
  /\ pc' = "find"
  /\ UNCHANGED <<indexVars, ledgerVars, mostWork, ibd, invalidated>>

(***************************************************************************)
(* reconsiderblock: the flags of b and its ancestors, and with children of *)
(* its descendants, are cleared, and those blocks are candidates again.    *)
(***************************************************************************)
ReconsiderBlock(b, children) ==
  /\ pc = "idle"
  /\ b \in index \cap Disputed
  /\ LET cleared == {c \in failed : c \in Chain[b] \/ (children /\ b \in Chain[c])}
     IN  /\ failed' = failed \ cleared
         /\ valid' = valid \cup cleared
         /\ invalidated' = invalidated \ cleared
  /\ pc' = "find"
  /\ UNCHANGED <<order, hasUndo, ledgerVars, mostWork, ibd, bad>>

(* The tip is old and has just changed, or no longer so. *)
InitialDownloadChanges ==
  /\ InitialDownload
  /\ ibd' = ~ibd
  /\ UNCHANGED <<indexVars, ledgerVars, mostWork, pc, bad, invalidated>>

-----------------------------------------------------------------------------

ForkInit ==
  /\ order = <<Genesis>>
  /\ failed = {}
  /\ valid = {Genesis}
  /\ hasUndo = {}
  /\ undo = [b \in Block |-> [k \in Key |-> Unset]]
  /\ tip = Genesis
  /\ mostWork = Genesis
  /\ main = [k \in Key |-> Unset]
  /\ db = [k \in Key |-> Genesis]
  /\ forkCache = << >>
  /\ ibd = InitialDownload
  /\ pc = "idle"
  /\ bad = Unset
  /\ invalidated = {}

ActivationNext ==
  \/ FindMostWorkChain
  \/ Disconnect
  \/ ConnectTip
  \/ Activated

OperatorNext ==
  \/ \E b \in Block : InvalidateBlock(b)
  \/ InvalidateTip
  \/ Invalidated
  \/ \E b \in Block, children \in BOOLEAN : ReconsiderBlock(b, children)

ForkNext ==
  \/ \E b \in Block : AcceptForkBlock(b)
  \/ ActivationNext
  \/ OperatorNext
  \/ InitialDownloadChanges

ForkSpec == ForkInit /\ [][ForkNext]_forkVars

-----------------------------------------------------------------------------
(* What the copies and the records promise. *)

(***************************************************************************)
(* Every ledger copy in mapForkCache is the ledger after its block,        *)
(* however the active chain moved on and whatever was flushed below the    *)
(* copy since ("Rollback the active chain to the forked point").           *)
(***************************************************************************)
ForkLedgerRight == \A f \in DOMAIN forkCache : View(forkCache[f]) = LedgerAt(f)

(* The same but for the keys of CBlockDBCache, which is flushed on its own. *)
ForkAccountsRight ==
  \A f \in DOMAIN forkCache, k \in Key \ BlockKey :
    View(forkCache[f])[k] = LedgerAt(f)[k]

(* The caches always hold the ledger of the active chain. *)
MainLedgerRight == View(main) = LedgerAt(tip)

(***************************************************************************)
(* Each block of the active chain has an undo record that leads back to    *)
(* the ledger before it, although a first record may have been written     *)
(* while the block was connected to a copy in ProcessForkedChain.          *)
(***************************************************************************)
UndoLeadsBack ==
  \A c \in Chain[tip] \ {Genesis} :
    /\ c \in hasUndo
    /\ \A k \in Writes[c] : undo[c][k] = LedgerAt(Parent[c])[k]

(***************************************************************************)
(* No candidate is itself flagged as failed: FindMostWorkChain flags the   *)
(* blocks above the first failed one, and would try such a candidate for   *)
(* ever, holding cs_main.                                                  *)
(***************************************************************************)
NoFailedCandidate == valid \cap failed = {}

(***************************************************************************)
(* Every block that is not flagged is a candidate (setBlockIndexValid      *)
(* "must contain those who aren't failed").                                *)
(***************************************************************************)
UnfailedAreCandidates == \A c \in index : c \notin failed => c \in valid

(***************************************************************************)
(* A block the operator has invalidated is not on the active chain until   *)
(* it is reconsidered ("Permanently marks a block as invalid").            *)
(***************************************************************************)
InvalidatedStaysOff == pc = "idle" => Chain[tip] \cap invalidated = {}

(***************************************************************************)
(* Between commands the active chain is as high as any indexed chain none  *)
(* of whose blocks is flagged, whatever was flagged, popped, reconsidered  *)
(* or refused before: no such chain is forgotten by setBlockIndexValid.    *)
(***************************************************************************)
BestChainActive ==
  pc = "idle" => \A c \in index : FailedOnPath(c) = {} => Height[c] <= Height[tip]

(***************************************************************************)
(* ProcessForkedChain judges a side branch by its own ledger.  The copies  *)
(* in mapForkCache and the caches of the active chain read as the replay   *)
(* of their chains, whatever is flushed or invalidated: where there may be *)
(* initial download, all but the keys of CBlockDBCache, which is flushed   *)
(* under the copies.  The undo records lead back all the same, no failed   *)
(* block is a candidate, and while no operator interferes no better chain  *)
(* is forgotten.                                                           *)
(***************************************************************************)
ForksAreJudgedRight ==
  /\ ForkTypeOK /\ MainLedgerRight /\ UndoLeadsBack /\ NoFailedCandidate
  /\ ForkAccountsRight
  /\ InitialDownload \/ ForkLedgerRight
  /\ Disputed # {} \/ BestChainActive
=============================================================================
