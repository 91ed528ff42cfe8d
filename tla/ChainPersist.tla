---------------------------- MODULE ChainPersist ----------------------------
(***************************************************************************)
(* How the chain state of ChainDisk comes to disk and back:                *)
(* CCacheDBManager::Flush writes one database after another, in            *)
(* WriteChainState and Shutdown; the block database is also flushed alone. *)
(* The process may be killed at any moment.  A kill takes what is in       *)
(* memory; what was written stays written.                                 *)
(***************************************************************************)
EXTENDS ChainDisk

CONSTANT
  InitialDownload  \* TRUE: IsInitialBlockDownload() may hold

ChainPersistAssumption ==
  /\ FlushOrder \in Seq(Part)
  /\ BlockDb \in Part
  /\ InitialDownload \in BOOLEAN
  /\ Corrupt \notin Block

persistVars == <<index, hasUndo, tip, mem, disk, pc, written, newTip, lagging, torn>>

Databases == [Part -> Block \cup {Corrupt}]

PersistTypeOK ==
  /\ index \subseteq Block
  /\ hasUndo \subseteq index
  /\ tip \in Block
  /\ mem \in Databases
  /\ disk \in Databases
  /\ pc \in {"idle", "activate", "flush"}
  /\ written \in 0 .. Len(FlushOrder)
  /\ newTip \in Block
  /\ lagging \in BOOLEAN
  /\ torn \in BOOLEAN

-----------------------------------------------------------------------------

(* ConnectBlock of c on a ledger. *)
Executed(c, ledger) == IF ledger = Parent[c] THEN c ELSE Corrupt

(***************************************************************************)
(* DisconnectBlock of c: its undo data sets what c wrote to what it was    *)
(* before, which changes nothing where c was not executed.                 *)
(***************************************************************************)
Undone(c, ledger) == IF ledger \in {c, Parent[c]} THEN Parent[c] ELSE Corrupt

(* The best known block; between equals the current tip stays. *)
MostWork ==
  LET best == {c \in index : \A d \in index : Height[d] <= Height[c]}
  IN  IF tip \in best THEN {tip} ELSE best

(* WriteChainState: during initial download the flush may be left out. *)
WriteChainState(t) ==
  /\ newTip' = t
  /\ \/ pc' = "flush" /\ written' = 0 /\ UNCHANGED <<tip, lagging>>
     \/ /\ InitialDownload
        /\ pc' = "activate" /\ tip' = t /\ lagging' = TRUE
        /\ UNCHANGED written

(* ProcessBlock puts orphans aside. *)
MayIndex(b) == b \in Block \ index /\ Parent[b] \in index

(* AcceptBlock and AddToBlockIndex up to ActivateBestChain. *)
AcceptBlock(b) ==
  /\ pc = "idle"
  /\ MayIndex(b)
  /\ index' = index \cup {b}
  /\ pc' = "activate"
  /\ UNCHANGED <<hasUndo, tip, mem, disk, written, newTip, lagging, torn>>

(* ConnectBlock writes the undo data and the index entry that points to it. *)
WriteUndo(c) == hasUndo' = hasUndo \cup {c}

(* ConnectTip up to UpdateTip, towards the best known block: every cache    *)
(* executes c, the block cache's best block is set outright by SetBestBlock. *)
ConnectTip ==
  /\ pc = "activate"
  /\ \E m \in MostWork :
       /\ tip # m /\ ChainContains(m, tip)
       /\ LET c == At(m, Height[tip] + 1)
          IN  /\ WriteUndo(c)
              /\ mem' = [p \in Part |-> IF p = BlockDb THEN c ELSE Executed(c, mem[p])]
              /\ WriteChainState(c)
  /\ UNCHANGED <<index, disk, torn>>

(* DisconnectTip up to UpdateTip. *)
DisconnectTip ==
  /\ pc = "activate"
  /\ \E m \in MostWork : ~ChainContains(m, tip)
  /\ mem' = [p \in Part |-> IF p = BlockDb THEN Parent[tip] ELSE Undone(tip, mem[p])]
  /\ WriteChainState(Parent[tip])
  /\ UNCHANGED <<index, hasUndo, disk, torn>>

(* CCacheDBManager::Flush writes the next database. *)
FlushNext ==
  /\ pc = "flush"
  /\ written < Len(FlushOrder)
  /\ LET p == FlushOrder[written + 1]
     IN  disk' = [disk EXCEPT ![p] = mem[p]]
  /\ written' = written + 1
  /\ UNCHANGED <<index, hasUndo, tip, mem, pc, newTip, lagging, torn>>

(* The flush is over: UpdateTip, and ActivateBestChain goes on. *)
UpdateTip ==
  /\ pc = "flush"
  /\ written = Len(FlushOrder)
  /\ tip' = newTip
  /\ pc' = "activate"
  /\ lagging' = FALSE
  /\ UNCHANGED <<index, hasUndo, mem, disk, written, newTip, torn>>

(* AddToBlockIndex ends with a flush of the block cache alone. *)
Activated ==
  /\ pc = "activate"
  /\ MostWork = {tip}
  /\ disk' = [disk EXCEPT ![BlockDb] = mem[BlockDb]]
  /\ pc' = "idle"
  /\ UNCHANGED <<index, hasUndo, tip, mem, written, newTip, lagging, torn>>

-----------------------------------------------------------------------------

(* Mutant: the first database is taken for written. *)
BeginShutdownLate ==
  /\ pc' = "flush"
  /\ written' = 1

(* Shutdown starts with the first database. *)
BeginShutdown ==
  /\ pc' = "flush"
  /\ written' = 0

(* Shutdown flushes all caches under cs_main. *)
Shutdown ==
  /\ pc = "idle"
  /\ BeginShutdown
  /\ newTip' = tip
  /\ UNCHANGED <<index, hasUndo, tip, mem, disk, lagging, torn>>

(* The databases are those of one block, as far as the flushes go.          *)
NothingMissed ==
  IF pc = "flush" THEN written = Len(FlushOrder) \/ (written = 0 /\ ~lagging)
  ELSE ~lagging

(***************************************************************************)
(* The process has stopped: in Shutdown, which leaves the caches as they   *)
(* are on disk, or killed.  LoadBlockIndexDB takes the best block for the  *)
(* tip, VerifyDB runs on a throw-away overlay, ActivateBestChain follows.  *)
(***************************************************************************)
Restart ==
  /\ disk[BlockDb] # Corrupt
  /\ mem' = disk
  /\ tip' = disk[BlockDb]
  /\ pc' = "activate"
  /\ written' = 0
  /\ newTip' = disk[BlockDb]
  /\ lagging' = FALSE
  /\ torn' = (torn \/ ~NothingMissed)
  /\ UNCHANGED <<index, hasUndo, disk>>

PersistInit ==
  /\ index = {Genesis}
  /\ hasUndo = {}
  /\ tip = Genesis
  /\ mem = [p \in Part |-> Genesis]
  /\ disk = [p \in Part |-> Genesis]
  /\ pc = "idle"
  /\ written = 0
  /\ newTip = Genesis
  /\ lagging = FALSE
  /\ torn = FALSE

PersistNext ==
  \/ \E b \in Block : AcceptBlock(b)
  \/ ConnectTip
  \/ DisconnectTip
  \/ FlushNext
  \/ UpdateTip
  \/ Activated
  \/ Shutdown
  \/ Restart

PersistSpec == PersistInit /\ [][PersistNext]_persistVars
=============================================================================
