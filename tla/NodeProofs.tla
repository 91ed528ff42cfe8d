----------------------------- MODULE NodeProofs -----------------------------
(***************************************************************************)
(* What a node may rely on of what it stores and fetches:                  *)
(*                                                                         *)
(*   what a restart finds on disk, for every tree of blocks, every set and *)
(*   order of databases, and a process that may be killed anywhere         *)
(*   (ChainPersist);                                                       *)
(*   the queues of block download, for any peers and blocks and any        *)
(*   announcements, answers and time-outs, when no peer is destroyed while *)
(*   an announcement is handled (BlockDownload);                           *)
(*   the pool of blocks that wait for their parents, for any order of      *)
(*   arrival and any limit (Orphans);                                      *)
(*   that the layered caches implement one map (KVStore), for any keys,    *)
(*   values, caches and blocks of any length (KVCache).                    *)
(*                                                                         *)
(* A read of the caches is what the layers hold from the top down, so      *)
(* copies and flushes change no read.  The undo of a block rests on the    *)
(* order of its log: of the writes of one key, the last one that is left   *)
(* is always undone next, so what is left of the log leads back to the     *)
(* same value.                                                             *)
(***************************************************************************)
EXTENDS ChainPersist, BlockDownload, Orphans, KVCache, SequenceTheorems, FiniteSetTheorems,
        NaturalsInduction, WellFoundedInduction, TLAPS

(* A set of naturals that is not empty has a least element. *)
LEMMA LeastNatural ==
  ASSUME NEW T \in SUBSET Nat, T # {}
  PROVE  \E n \in T : \A m \in T : n <= m
<1>1. PICK n \in T : \A m \in T : <<m, n>> \notin OpToRel(<, Nat)
  BY WFMin, NatLessThanWellFounded, Zenon
<1>2. \A m \in T : ~(m < n)
  BY <1>1, Zenon DEF OpToRel
<1>3. QED  BY <1>2

-----------------------------------------------------------------------------
(* Databases and restarts. *)

(* A block the node can go back from: indexed, with undo data all the way   *)
(* down to genesis.                                                         *)
Usable(b) ==
  /\ b \in index
  /\ Chain[b] \ {Genesis} \subseteq hasUndo

(* Every block the node calls its best is usable: the tip, the one about to *)
(* become it, and the best blocks of the block cache and of its database.   *)
AllUsable ==
  /\ Usable(tip)
  /\ Usable(newTip)
  /\ Usable(mem[BlockDb])
  /\ Usable(disk[BlockDb])

IndexClosed == \A b \in index : Chain[b] \subseteq index

(* Between two blocks the caches are at the tip, and during a flush at the  *)
(* block that is about to be the tip.                                       *)
CachesAtTip ==
  /\ pc # "flush" => \A p \in Part : mem[p] = tip
  /\ pc = "flush" => \A p \in Part : mem[p] = newTip

(* What a flush has written is as the caches are, and so is everything      *)
(* between two flushes; before a flush has begun to write, the databases    *)
(* are still those of one block.  Both but for flushes that were left out.  *)
DisksFollow ==
  /\ pc = "flush" => \A i \in 1 .. written : disk[FlushOrder[i]] = mem[FlushOrder[i]]
  /\ pc # "flush" /\ ~lagging => disk = mem
  /\ pc = "flush" /\ written = 0 /\ ~lagging => \A p \in Part : disk[p] = disk[BlockDb]

(* The part that holds wherever the process was killed. *)
KInv == PersistTypeOK /\ AllUsable /\ IndexClosed

DiskInv == KInv /\ (~torn => CachesAtTip /\ DisksFollow)

-----------------------------------------------------------------------------

(* The block ConnectTip connects is the child of the tip. *)
LEMMA NextIsChild ==
  ASSUME NEW t \in Block, NEW m \in Block, t # m, t \in Chain[m]
  PROVE  /\ At(m, Height[t] + 1) \in Chain[m]
         /\ At(m, Height[t] + 1) # Genesis
         /\ Parent[At(m, Height[t] + 1)] = t
  <1> DEFINE c == At(m, Height[t] + 1)
  <1>1. Height[t] \in Nat /\ Height[m] \in Nat /\ m \in Chain[m]
    BY BlockTreeAssumption
  <1>2. Height[t] # Height[m] /\ Height[t] <= Height[m]
    BY <1>1, BlockTreeAssumption
  <1>3. Height[t] + 1 \in 0 .. Height[m]
    BY <1>1, <1>2
  <1>4. \E d \in Chain[m] : Height[d] = Height[t] + 1
    BY <1>3, BlockTreeAssumption
  <1>5. c \in Chain[m] /\ Height[c] = Height[t] + 1
    BY <1>4 DEF At
  <1>6. c \in Block /\ c # Genesis /\ c # t
    BY <1>1, <1>5, BlockTreeAssumption
  <1>7. t \in Chain[c]
    BY <1>1, <1>5, BlockTreeAssumption
  <1>8. Parent[c] \in Block /\ Chain[c] = Chain[Parent[c]] \cup {c}
           /\ Height[c] = Height[Parent[c]] + 1
    BY <1>6, BlockTreeAssumption
  <1>9. Height[Parent[c]] = Height[t] /\ Parent[c] \in Chain[c]
    <2>1. Height[Parent[c]] \in Nat /\ Parent[c] \in Chain[Parent[c]]
      BY <1>8, BlockTreeAssumption
    <2> QED BY <1>1, <1>5, <1>8, <2>1
  <1>10. Parent[c] = t
    BY <1>6, <1>7, <1>9, BlockTreeAssumption
  <1> QED BY <1>5, <1>6, <1>10

(* The parent of a block one can go back from is one, too. *)
LEMMA ParentUsable ==
  ASSUME PersistTypeOK, IndexClosed, NEW b \in Block, Usable(b)
  PROVE  Parent[b] \in Block /\ Usable(Parent[b])
  <1>1. CASE b = Genesis
    BY <1>1, BlockTreeAssumption
  <1>2. CASE b # Genesis
    <2>1. Parent[b] \in Block /\ Chain[b] = Chain[Parent[b]] \cup {b}
      BY <1>2, BlockTreeAssumption
    <2>2. Parent[b] \in Chain[Parent[b]]
      BY <2>1, BlockTreeAssumption
    <2> QED BY <2>1, <2>2 DEF Usable, IndexClosed
  <1> QED BY <1>1, <1>2

(* The child of the tip on an indexed branch is usable once its undo data   *)
(* are written, and what was usable stays so.                               *)
LEMMA ChildUsable ==
  ASSUME PersistTypeOK, IndexClosed, NEW t \in Block, Usable(t),
         NEW c \in index, c # Genesis, Parent[c] = t,
         index' = index, hasUndo' = hasUndo \cup {c}
  PROVE  /\ Usable(c)'
         /\ \A b : Usable(b) => (b \in index' /\ Chain[b] \ {Genesis} \subseteq hasUndo')
  <1>1. c \in Block
    BY DEF PersistTypeOK
  <1>2. Chain[c] = Chain[t] \cup {c}
    BY <1>1, BlockTreeAssumption
  <1> QED BY <1>2 DEF Usable

-----------------------------------------------------------------------------

(* Whatever MostWork is, it is made of indexed blocks. *)
LEMMA MostWorkIndexed == PersistTypeOK /\ tip \in index => MostWork \subseteq index
  BY DEF MostWork

(* ConnectTip keeps the types and what is usable. *)
LEMMA ConnectKeeps == ASSUME ChainPersistAssumption PROVE KInv /\ ConnectTip => KInv'
  <1> SUFFICES ASSUME KInv, ConnectTip PROVE KInv'
    OBVIOUS
  <1> USE DEF ChainPersistAssumption, KInv
  <1>1. PICK m \in MostWork :
          /\ tip # m /\ ChainContains(m, tip)
          /\ LET c == At(m, Height[tip] + 1)
             IN  /\ WriteUndo(c)
                 /\ mem' = [p \in Part |-> IF p = BlockDb THEN c ELSE Executed(c, mem[p])]
                 /\ WriteChainState(c)
    BY DEF ConnectTip
  <1>2. m \in index /\ m \in Block /\ tip \in Block
    BY MostWorkIndexed DEF PersistTypeOK, AllUsable, Usable
  <1>3. PICK c \in Chain[m] : c = At(m, Height[tip] + 1) /\ c # Genesis /\ Parent[c] = tip
    BY <1>1, <1>2, NextIsChild DEF ChainContains
  <1>4. c \in index /\ c \in Block
    BY <1>2, <1>3 DEF IndexClosed, PersistTypeOK
  <1>5. /\ index' = index /\ hasUndo' = hasUndo \cup {c} /\ disk' = disk /\ newTip' = c
        /\ mem' = [p \in Part |-> IF p = BlockDb THEN c ELSE Executed(c, mem[p])]
        /\ pc' \in {"flush", "activate"}
        /\ written' \in {0, written} /\ tip' \in {tip, c}
        /\ lagging' \in {lagging, TRUE} /\ torn' = torn
    BY <1>1, <1>3 DEF ConnectTip, WriteUndo, WriteChainState
  <1>6. Usable(tip) /\ Usable(disk[BlockDb])
    BY DEF AllUsable
  <1>7. /\ Usable(c)'
        /\ \A b : Usable(b) => (b \in index' /\ Chain[b] \ {Genesis} \subseteq hasUndo')
    BY <1>2, <1>3, <1>4, <1>5, <1>6, ChildUsable
  <1>8. PersistTypeOK'
    <2>1. mem' \in Databases
      BY <1>4, <1>5 DEF PersistTypeOK, Databases, Executed
    <2>2. Len(FlushOrder) \in Nat /\ 0 \in 0 .. Len(FlushOrder)
      OBVIOUS
    <2>3. lagging' \in BOOLEAN /\ torn' \in BOOLEAN
      BY <1>5 DEF PersistTypeOK
    <2> QED BY <1>4, <1>5, <2>1, <2>2, <2>3 DEF PersistTypeOK
  <1>9. AllUsable'
    <2>1. mem'[BlockDb] = c
      BY <1>5
    <2> QED BY <1>5, <1>6, <1>7, <2>1 DEF AllUsable, Usable
  <1>10. IndexClosed'
    BY <1>5 DEF IndexClosed
  <1> QED BY <1>8, <1>9, <1>10

(* So does DisconnectTip. *)
LEMMA DisconnectKeeps == ASSUME ChainPersistAssumption PROVE KInv /\ DisconnectTip => KInv'
  <1> SUFFICES ASSUME KInv, DisconnectTip PROVE KInv'
    OBVIOUS
  <1> USE DEF ChainPersistAssumption, KInv
  <1>1. /\ index' = index /\ hasUndo' = hasUndo /\ disk' = disk /\ newTip' = Parent[tip]
        /\ mem' = [p \in Part |-> IF p = BlockDb THEN Parent[tip] ELSE Undone(tip, mem[p])]
        /\ pc' \in {"flush", "activate"}
        /\ written' \in {0, written} /\ tip' \in {tip, Parent[tip]}
        /\ lagging' \in {lagging, TRUE} /\ torn' = torn
    BY DEF DisconnectTip, WriteChainState
  <1>2. Parent[tip] \in Block /\ Usable(Parent[tip])
    BY ParentUsable DEF PersistTypeOK, AllUsable
  <1>3. PersistTypeOK'
    <2>1. mem' \in Databases
      BY <1>1, <1>2 DEF PersistTypeOK, Databases, Undone
    <2>2. Len(FlushOrder) \in Nat /\ 0 \in 0 .. Len(FlushOrder)
      OBVIOUS
    <2>3. lagging' \in BOOLEAN /\ torn' \in BOOLEAN
      BY <1>1 DEF PersistTypeOK
    <2> QED BY <1>1, <1>2, <2>1, <2>2, <2>3 DEF PersistTypeOK
  <1>4. AllUsable'
    <2>1. mem'[BlockDb] = Parent[tip]
      BY <1>1
    <2> QED BY <1>1, <1>2, <2>1 DEF AllUsable, Usable
  <1>5. IndexClosed'
    BY <1>1 DEF IndexClosed
  <1> QED BY <1>3, <1>4, <1>5

(* A new index entry keeps the index closed. *)
LEMMA AcceptKeeps == ASSUME ChainPersistAssumption, NEW b \in Block PROVE KInv /\ AcceptBlock(b) => KInv'
  <1> SUFFICES ASSUME KInv, AcceptBlock(b) PROVE KInv'
    OBVIOUS
  <1> USE DEF KInv
  <1>1. /\ index' = index \cup {b} /\ b \notin index /\ Parent[b] \in index /\ pc' = "activate"
        /\ UNCHANGED <<hasUndo, tip, mem, disk, written, newTip, lagging, torn>>
    BY DEF AcceptBlock, MayIndex
  <1>2. PersistTypeOK'
    BY <1>1 DEF PersistTypeOK
  <1>3. AllUsable'
    BY <1>1 DEF AllUsable, Usable
  <1>4. Chain[b] \subseteq index \cup {b}
    <2>1. CASE b = Genesis
      BY <2>1, BlockTreeAssumption
    <2>2. CASE b # Genesis
      BY <2>2, <1>1, BlockTreeAssumption DEF IndexClosed
    <2> QED BY <2>1, <2>2
  <1>5. IndexClosed'
    BY <1>1, <1>4 DEF IndexClosed
  <1> QED BY <1>2, <1>3, <1>5

(* The steps of a flush, and start-up, take over blocks that are usable. *)
LEMMA FlushKeeps ==
  ASSUME ChainPersistAssumption
  PROVE  KInv /\ (FlushNext \/ UpdateTip \/ Activated \/ Shutdown \/ Restart) => KInv'
  <1> SUFFICES ASSUME KInv PROVE FlushNext \/ UpdateTip \/ Activated \/ Shutdown \/ Restart => KInv'
    OBVIOUS
  <1> USE DEF ChainPersistAssumption, KInv, PersistTypeOK
  <1>0. Len(FlushOrder) \in Nat
    OBVIOUS
  <1>1. ASSUME FlushNext PROVE KInv'
    <2>1. written + 1 \in 1 .. Len(FlushOrder)
      BY <1>0, <1>1 DEF FlushNext
    <2>2. FlushOrder[written + 1] \in Part
      BY <2>1
    <2>3. \/ disk'[BlockDb] = disk[BlockDb]
          \/ disk'[BlockDb] = mem[BlockDb]
      BY <1>1, <2>2 DEF FlushNext, Databases
    <2>4. disk' \in Databases
      BY <1>1, <2>2 DEF FlushNext, Databases
    <2> QED BY <1>0, <1>1, <2>1, <2>3, <2>4 DEF FlushNext, AllUsable, Usable, IndexClosed
  <1>2. ASSUME UpdateTip PROVE KInv'
    BY <1>2 DEF UpdateTip, AllUsable, Usable, IndexClosed
  <1>3. ASSUME Activated PROVE KInv'
    <2>1. disk' \in Databases /\ disk'[BlockDb] = mem[BlockDb]
      BY <1>3 DEF Activated, Databases
    <2> QED BY <1>3, <2>1 DEF Activated, AllUsable, Usable, IndexClosed
  <1>4. ASSUME Shutdown PROVE KInv'
    BY <1>0, <1>4 DEF Shutdown, BeginShutdown, AllUsable, Usable, IndexClosed
  <1>5. ASSUME Restart PROVE KInv'
    <2>1. disk[BlockDb] \in Block
      BY <1>5 DEF AllUsable, Usable
    <2>2. lagging' \in BOOLEAN /\ torn' \in BOOLEAN
      BY <1>5, Zenon DEF Restart
    <2> QED BY <1>0, <1>5, <2>1, <2>2 DEF Restart, AllUsable, Usable, IndexClosed
  <1> QED BY <1>1, <1>2, <1>3, <1>4, <1>5

(* PersistInit has it. *)
LEMMA InitUsable == ASSUME ChainPersistAssumption PROVE PersistInit => DiskInv
  <1> SUFFICES ASSUME PersistInit PROVE DiskInv
    OBVIOUS
  <1> USE BlockTreeAssumption DEF PersistInit, ChainPersistAssumption
  <1>1. PersistTypeOK
    <2>1. mem \in Databases /\ disk \in Databases /\ Len(FlushOrder) \in Nat
      BY DEF Databases
    <2>2. lagging \in BOOLEAN /\ torn \in BOOLEAN
      BY Zenon
    <2> QED BY <2>1, <2>2 DEF PersistTypeOK
  <1>2. AllUsable
    BY DEF AllUsable, Usable
  <1>3. IndexClosed
    BY DEF IndexClosed
  <1>4. CachesAtTip
    BY DEF CachesAtTip
  <1>5. DisksFollow
    BY DEF DisksFollow
  <1> QED BY <1>1, <1>2, <1>3, <1>4, <1>5 DEF DiskInv, KInv

(* Every step keeps it. *)
LEMMA KInvStep == ASSUME ChainPersistAssumption PROVE KInv /\ [PersistNext]_persistVars => KInv'
  <1> SUFFICES ASSUME KInv, [PersistNext]_persistVars PROVE KInv'
    OBVIOUS
  <1>1. CASE UNCHANGED persistVars
    BY <1>1 DEF KInv, persistVars, PersistTypeOK, AllUsable, Usable, IndexClosed
  <1>2. CASE PersistNext
    BY <1>2, ConnectKeeps, DisconnectKeeps, AcceptKeeps, FlushKeeps DEF PersistNext
  <1> QED BY <1>1, <1>2

-----------------------------------------------------------------------------

(* A block is executed, and undone, on caches that are where it belongs. *)
LEMMA StepOnTip ==
  ASSUME ChainPersistAssumption, KInv, CachesAtTip, DisksFollow, ConnectTip \/ DisconnectTip
  PROVE  CachesAtTip' /\ DisksFollow'
  <1> USE DEF ChainPersistAssumption, KInv
  <1>0. pc = "activate" /\ \A p \in Part : mem[p] = tip
    BY DEF ConnectTip, DisconnectTip, CachesAtTip
  <1>1. PICK c \in Block :
          /\ WriteChainState(c)
          /\ \A p \in Part : mem'[p] = c
    <2>1. CASE ConnectTip
      <3>1. PICK m \in MostWork :
              /\ tip # m /\ ChainContains(m, tip)
              /\ mem' = [p \in Part |-> IF p = BlockDb THEN At(m, Height[tip] + 1)
                                        ELSE Executed(At(m, Height[tip] + 1), mem[p])]
              /\ WriteChainState(At(m, Height[tip] + 1))
        BY <2>1 DEF ConnectTip
      <3>2. m \in Block /\ tip \in Block
        BY MostWorkIndexed DEF PersistTypeOK, AllUsable, Usable
      <3>3. At(m, Height[tip] + 1) \in Chain[m] /\ Parent[At(m, Height[tip] + 1)] = tip
        BY <3>1, <3>2, NextIsChild DEF ChainContains
      <3>4. At(m, Height[tip] + 1) \in Block
        BY <3>2, <3>3, BlockTreeAssumption
      <3> QED BY <1>0, <3>1, <3>3, <3>4 DEF Executed
    <2>2. CASE DisconnectTip
      <3>1. Parent[tip] \in Block
        BY BlockTreeAssumption DEF PersistTypeOK
      <3> QED BY <1>0, <2>2, <3>1 DEF DisconnectTip, Undone
    <2> QED BY <2>1, <2>2
  <1>2. CASE pc' = "flush" /\ written' = 0 /\ newTip' = c /\ lagging' = lagging
    <2>1. disk' = disk
      BY DEF ConnectTip, DisconnectTip
    <2>2. ~lagging => \A p \in Part : disk[p] = tip
      BY <1>0 DEF DisksFollow
    <2> QED BY <1>1, <1>2, <2>1, <2>2 DEF CachesAtTip, DisksFollow
  <1>3. CASE pc' = "activate" /\ tip' = c /\ lagging'
    BY <1>1, <1>3 DEF CachesAtTip, DisksFollow
  <1> QED BY <1>1, <1>2, <1>3 DEF WriteChainState

(* A flush brings the disk to the caches, database by database. *)
LEMMA FlushOnTip ==
  ASSUME ChainPersistAssumption, KInv, CachesAtTip, DisksFollow,
         FlushNext \/ UpdateTip \/ Activated \/ Shutdown
  PROVE  CachesAtTip' /\ DisksFollow'
  <1> USE DEF ChainPersistAssumption, KInv, PersistTypeOK
  <1>0. Len(FlushOrder) \in Nat /\ \A i \in 1 .. Len(FlushOrder) : FlushOrder[i] \in Part
    OBVIOUS
  <1>1. CASE FlushNext
    <2>1. /\ pc = "flush" /\ pc' = "flush" /\ mem' = mem /\ newTip' = newTip
          /\ written' = written + 1 /\ lagging' = lagging
          /\ disk' = [disk EXCEPT ![FlushOrder[written + 1]] = mem[FlushOrder[written + 1]]]
      BY <1>1 DEF FlushNext
    <2>2. written + 1 \in 1 .. Len(FlushOrder)
      BY <1>0, <1>1 DEF FlushNext
    <2>3. ASSUME NEW i \in 1 .. written' PROVE disk'[FlushOrder[i]] = mem'[FlushOrder[i]]
      <3>1. i \in 1 .. Len(FlushOrder) /\ (i = written + 1 \/ i \in 1 .. written)
        BY <1>0, <2>1, <2>2
      <3>2. FlushOrder[i] \in Part /\ FlushOrder[written + 1] \in Part
        BY <1>0, <2>2, <3>1
      <3>3. CASE FlushOrder[i] = FlushOrder[written + 1]
        BY <2>1, <3>2, <3>3 DEF Databases
      <3>4. CASE FlushOrder[i] # FlushOrder[written + 1]
        BY <2>1, <3>1, <3>2, <3>4 DEF Databases, DisksFollow
      <3> QED BY <3>3, <3>4
    <2> QED BY <2>1, <2>3 DEF CachesAtTip, DisksFollow
  <1>2. CASE UpdateTip
    <2>1. \A i \in 1 .. Len(FlushOrder) : disk[FlushOrder[i]] = mem[FlushOrder[i]]
      BY <1>0, <1>2 DEF UpdateTip, DisksFollow
    <2>2. \A p \in Part : disk[p] = mem[p]
      BY <2>1 DEF Part
    <2>3. disk = mem
      BY <2>2 DEF Databases
    <2> QED BY <1>2, <2>3 DEF UpdateTip, CachesAtTip, DisksFollow
  <1>3. CASE Activated
    <2>1. ~lagging => disk' = disk
      BY <1>3 DEF Activated, DisksFollow, Databases
    <2> QED BY <1>3, <2>1 DEF Activated, CachesAtTip, DisksFollow
  <1>4. CASE Shutdown
    BY <1>4 DEF Shutdown, BeginShutdown, CachesAtTip, DisksFollow
  <1> QED BY <1>1, <1>2, <1>3, <1>4

(* A node that was killed with nothing missed finds databases of one block. *)
LEMMA RestartOnTip ==
  ASSUME ChainPersistAssumption, KInv, CachesAtTip, DisksFollow, NothingMissed, Restart
  PROVE  CachesAtTip' /\ DisksFollow'
  <1> USE DEF ChainPersistAssumption, KInv, PersistTypeOK
  <1>0. /\ mem' = disk /\ disk' = disk /\ tip' = disk[BlockDb]
        /\ pc' = "activate" /\ lagging' = FALSE
    BY DEF Restart
  <1>1. \A p \in Part : disk[p] = disk[BlockDb]
    <2>1. CASE pc = "flush" /\ written = Len(FlushOrder)
      BY <2>1 DEF CachesAtTip, DisksFollow, Part
    <2>2. CASE pc = "flush" /\ written = 0 /\ ~lagging
      BY <2>2 DEF DisksFollow
    <2>3. CASE pc # "flush" /\ ~lagging
      BY <2>3 DEF CachesAtTip, DisksFollow
    <2> QED BY <2>1, <2>2, <2>3 DEF NothingMissed
  <1> QED BY <1>0, <1>1 DEF CachesAtTip, DisksFollow

(* The whole invariant is inductive. *)
LEMMA DiskStep == ASSUME ChainPersistAssumption PROVE DiskInv /\ [PersistNext]_persistVars => DiskInv'
  <1> SUFFICES ASSUME DiskInv, [PersistNext]_persistVars PROVE DiskInv'
    OBVIOUS
  <1>1. KInv /\ KInv'
    BY KInvStep DEF DiskInv
  <1>2. ASSUME ~torn' PROVE CachesAtTip' /\ DisksFollow'
    <2>1. CASE UNCHANGED persistVars
      BY <1>2, <2>1 DEF DiskInv, persistVars, CachesAtTip, DisksFollow
    <2>2. ASSUME NEW b \in Block, AcceptBlock(b) PROVE CachesAtTip' /\ DisksFollow'
      BY <1>2, <2>2 DEF DiskInv, AcceptBlock, CachesAtTip, DisksFollow
    <2>3. CASE ConnectTip \/ DisconnectTip
      <3>1. CachesAtTip /\ DisksFollow
        BY <1>2, <2>3 DEF DiskInv, ConnectTip, DisconnectTip
      <3> QED BY <1>1, <2>3, <3>1, StepOnTip
    <2>4. CASE FlushNext \/ UpdateTip \/ Activated \/ Shutdown
      <3>1. CachesAtTip /\ DisksFollow
        BY <1>2, <2>4 DEF DiskInv, FlushNext, UpdateTip, Activated, Shutdown
      <3> QED BY <1>1, <2>4, <3>1, FlushOnTip
    <2>5. CASE Restart
      <3>1. CachesAtTip /\ DisksFollow /\ NothingMissed
        BY <1>2, <2>5 DEF DiskInv, Restart
      <3> QED BY <1>1, <2>5, <3>1, RestartOnTip
    <2> QED BY <2>1, <2>2, <2>3, <2>4, <2>5 DEF PersistNext
  <1> QED BY <1>1, <1>2 DEF DiskInv

-----------------------------------------------------------------------------

(* Wherever the process is killed, in the middle of a flush too, the node   *)
(* starts from a best block that is indexed and that it can disconnect down *)
(* to genesis (LoadBlockIndexDB, VerifyDB); and every cache is at the tip   *)
(* whenever the node is at rest, unless a kill ever fell between two        *)
(* databases of a flush, or came when a flush had been left out.            *)
THEOREM RestartsConsistent ==
  ASSUME ChainPersistAssumption
  PROVE  PersistSpec => [](PersistTypeOK /\ RestartIsConsistent)
  <1>1. PersistSpec => []DiskInv
    BY InitUsable, DiskStep, PTL DEF PersistSpec
  <1>2. DiskInv => PersistTypeOK /\ RestartIsConsistent
    BY DEF DiskInv, KInv, AllUsable, Usable, CachesAtTip, BestBlockUsable,
           LedgerFollowsTip, RestartIsConsistent
  <1> QED BY <1>1, <1>2, PTL

-----------------------------------------------------------------------------
(* Block download: lists without repetition. *)

Queue(s) ==
  /\ s \in Seq(Hash)
  /\ \A i, j \in DOMAIN s : s[i] = s[j] => i = j

LEMMA EmptyQueue == Queue(<<>>) /\ ToSet(<<>>) = {} /\ Len(<<>>) = 0
BY EmptySeq, LenProperties DEF Queue, ToSet

LEMMA QueueFacts ==
  ASSUME NEW s, Queue(s)
  PROVE  /\ Len(s) \in Nat /\ DOMAIN s = 1 .. Len(s)
         /\ \A i \in 1 .. Len(s) : s[i] \in Hash
         /\ ToSet(s) \subseteq Hash
         /\ s = <<>> => ToSet(s) = {}
<1>1. Len(s) \in Nat /\ DOMAIN s = 1 .. Len(s)
  BY LenProperties DEF Queue
<1>2. \A i \in 1 .. Len(s) : s[i] \in Hash
  BY <1>1, ElementOfSeq DEF Queue
<1>3. QED  BY <1>1, <1>2, EmptyQueue DEF ToSet

(* erase() of the one place of b.                                           *)
LEMMA QueueErased ==
  ASSUME NEW s, Queue(s), NEW b
  PROVE  /\ Queue(RemoveFirst(s, b))
         /\ ToSet(RemoveFirst(s, b)) = ToSet(s) \ {b}
         /\ Len(RemoveFirst(s, b)) <= Len(s)
<1> DEFINE n == Len(s)
<1>1. n \in Nat /\ DOMAIN s = 1 .. n /\ \A i \in 1 .. n : s[i] \in Hash
  BY QueueFacts
<1>2. CASE ~\E i \in 1 .. n : s[i] = b
  <2>1. RemoveFirst(s, b) = s /\ b \notin ToSet(s)
    BY <1>1, <1>2 DEF RemoveFirst, ToSet
  <2>2. QED  BY <2>1, <1>1
<1>3. ASSUME NEW i \in 1 .. n, s[i] = b
      PROVE  /\ Queue(RemoveFirst(s, b))
             /\ ToSet(RemoveFirst(s, b)) = ToSet(s) \ {b}
             /\ Len(RemoveFirst(s, b)) <= Len(s)
  <2> DEFINE r == [k \in 1 .. n - 1 |-> IF k < i THEN s[k] ELSE s[k + 1]]
             head == SubSeq(s, 1, i - 1)
             tail == SubSeq(s, i + 1, n)
  <2>1. {k \in 1 .. n : s[k] = b} = {i}
    BY <1>1, <1>3 DEF Queue
  <2>2. SelectInSeq(s, LAMBDA v : v = b) = i
    <3>1. Min({i}) = i
      BY <1>3 DEF Min
    <3>2. QED  BY <2>1, <3>1 DEF SelectInSeq
  <2>3. RemoveFirst(s, b) = head \o tail
    BY <1>3, <2>2 DEF RemoveFirst, RemoveAt
  <2>4. /\ head \in Seq(Hash) /\ Len(head) = i - 1
        /\ \A k \in 1 .. i - 1 : head[k] = s[k]
    BY <1>1, <1>3, SubSeqProperties
  <2>5. /\ tail \in Seq(Hash) /\ Len(tail) = n - i
        /\ \A k \in 1 .. n - i : tail[k] = s[k + i]
    <3>1. i + 1 \in Int /\ n \in Int /\ \A k \in i + 1 .. n : s[k] \in Hash
      BY <1>1
    <3>2. /\ tail \in Seq(Hash)
          /\ Len(tail) = IF i + 1 <= n THEN n - (i + 1) + 1 ELSE 0
          /\ \A k \in 1 .. n - (i + 1) + 1 : tail[k] = s[(i + 1) + k - 1]
      BY <3>1, SubSeqProperties
    <3> HIDE DEF tail
    <3>3. ASSUME NEW k \in 1 .. n - i PROVE tail[k] = s[k + i]
      <4>1. k \in 1 .. n - (i + 1) + 1 /\ (i + 1) + k - 1 = k + i
        BY <1>1
      <4>2. tail[k] = s[(i + 1) + k - 1]
        BY <3>2, <4>1
      <4>3. QED  BY <4>1, <4>2
    <3>4. Len(tail) = n - i
      <4>1. Len(tail) = IF i + 1 <= n THEN n - (i + 1) + 1 ELSE 0
        BY <3>2
      <4>2. n \in Nat /\ i \in 1 .. n
        BY <1>1
      <4> HIDE DEF n
      <4>3. CASE i + 1 <= n
        BY <4>1, <4>2, <4>3
      <4>4. CASE i = n
        BY <4>1, <4>2, <4>4
      <4>5. QED  BY <4>2, <4>3, <4>4
    <3>5. QED  BY <3>2, <3>3, <3>4
  <2> HIDE DEF head, tail
  <2>6. /\ head \o tail \in Seq(Hash)
        /\ Len(head \o tail) = n - 1
        /\ \A k \in 1 .. n - 1 : (head \o tail)[k] = r[k]
    <3>1. head \o tail \in Seq(Hash) /\ Len(head \o tail) = Len(head) + Len(tail)
      BY <2>4, <2>5, ConcatProperties
    <3>2. \A k \in 1 .. Len(head) + Len(tail) :
            (head \o tail)[k] = IF k <= Len(head) THEN head[k] ELSE tail[k - Len(head)]
      BY <2>4, <2>5, ConcatProperties
    <3>3. ASSUME NEW k \in 1 .. n - 1 PROVE (head \o tail)[k] = r[k]
      <4>1. CASE k < i
        BY <4>1, <3>2, <2>4, <2>5, <1>1
      <4>2. CASE k >= i
        <5>1. (head \o tail)[k] = tail[k - (i - 1)]
          BY <4>2, <3>2, <2>4, <2>5, <1>1
        <5>2. k - (i - 1) \in 1 .. n - i /\ k - (i - 1) + i = k + 1
          BY <4>2, <1>1
        <5>3. tail[k - (i - 1)] = s[k - (i - 1) + i]
          BY <5>2, <2>5
        <5>4. r[k] = s[k + 1]
          BY <4>2, <1>1
        <5> HIDE DEF r
        <5>5. QED  BY <5>1, <5>2, <5>3, <5>4
      <4>3. k < i \/ k >= i
        BY <1>1
      <4> HIDE DEF r
      <4>4. QED  BY <4>1, <4>2, <4>3
    <3>4. QED  BY <3>1, <3>3, <2>4, <2>5, <1>1
  <2>7. DOMAIN (head \o tail) = 1 .. n - 1
    BY <2>6, LenProperties
  <2> DEFINE c == head \o tail
             pos(k) == IF k < i THEN k ELSE k + 1
  <2>a. ASSUME NEW k \in 1 .. n - 1
        PROVE  pos(k) \in 1 .. n /\ pos(k) # i /\ c[k] = s[pos(k)]
    BY <2>6, <1>1
  <2>b. \A k, l \in 1 .. n - 1 : pos(k) = pos(l) => k = l
    BY <1>1
  <2>8. Queue(head \o tail)
    <3> HIDE DEF c, pos
    <3>1. \A k, l \in 1 .. n - 1 : c[k] = c[l] => pos(k) = pos(l)
      BY <2>a, <1>1 DEF Queue
    <3>2. \A k, l \in 1 .. n - 1 : c[k] = c[l] => k = l
      BY <2>b, <3>1
    <3>3. c \in Seq(Hash) /\ DOMAIN c = 1 .. n - 1
      BY <2>6, <2>7 DEF c
    <3>4. Queue(c)
      BY <3>2, <3>3 DEF Queue
    <3>5. QED  BY <3>4 DEF c
  <2>9. ToSet(head \o tail) = ToSet(s) \ {b}
    <3>1. ASSUME NEW k \in 1 .. n - 1
          PROVE  (head \o tail)[k] \in ToSet(s) \ {b}
      <4> HIDE DEF pos
      <4>1. c[k] = s[pos(k)] /\ pos(k) \in 1 .. n /\ pos(k) # i
        BY <2>a
      <4> HIDE DEF c
      <4>2. c[k] # b /\ c[k] \in ToSet(s)
        BY <4>1, <1>1, <1>3 DEF ToSet, Queue
      <4>3. QED  BY <4>2 DEF c
    <3>2. ASSUME NEW k \in 1 .. n, k # i
          PROVE  s[k] \in ToSet(head \o tail)
      <4>1. CASE k < i
        <5>1. k \in 1 .. n - 1 /\ r[k] = s[k]
          BY <4>1, <1>1, <1>3
        <5>2. QED  BY <5>1, <2>6, <2>7 DEF ToSet
      <4>2. CASE k > i
        <5>1. k - 1 \in 1 .. n - 1 /\ r[k - 1] = s[k]
          BY <4>2, <1>1, <1>3
        <5>2. QED  BY <5>1, <2>6, <2>7 DEF ToSet
      <4>3. QED  BY <4>1, <4>2, <3>2, <1>1
    <3>3. QED  BY <3>1, <3>2, <2>7, <1>1, <1>3 DEF ToSet
  <2>10. QED  BY <2>3, <2>6, <2>8, <2>9, <1>1
<1>4. QED  BY <1>2, <1>3

(* push_back of what is not there.                                          *)
LEMMA Pushed ==
  ASSUME NEW s, Queue(s), NEW b \in Hash, b \notin ToSet(s)
  PROVE  Queue(Append(s, b)) /\ ToSet(Append(s, b)) = ToSet(s) \cup {b}
<1>1. Len(s) \in Nat /\ DOMAIN s = 1 .. Len(s)
  BY QueueFacts
<1>2. /\ Append(s, b) \in Seq(Hash) /\ Len(Append(s, b)) = Len(s) + 1
      /\ \A k \in 1 .. Len(s) : Append(s, b)[k] = s[k]
      /\ Append(s, b)[Len(s) + 1] = b
  BY AppendProperties DEF Queue
<1>3. DOMAIN Append(s, b) = 1 .. Len(s) + 1
  BY <1>2, LenProperties
<1>4. QED  BY <1>1, <1>2, <1>3 DEF Queue, ToSet

(* The first n blocks of a queue, and the rest.                             *)
LEMMA Parted ==
  ASSUME NEW s, Queue(s), NEW n \in 0 .. Len(s)
  PROVE  LET t == SubSeq(s, 1, n)
             u == SubSeq(s, n + 1, Len(s))
         IN  /\ Queue(t) /\ Len(t) = n
             /\ Queue(u)
             /\ ToSet(u) = ToSet(s) \ ToSet(t)
             /\ ToSet(t) \subseteq ToSet(s)
<1> DEFINE t == SubSeq(s, 1, n)
           u == SubSeq(s, n + 1, Len(s))
<1>1. Len(s) \in Nat /\ DOMAIN s = 1 .. Len(s) /\ \A i \in 1 .. Len(s) : s[i] \in Hash
  BY QueueFacts
<1>2. t \in Seq(Hash) /\ Len(t) = n /\ \A k \in 1 .. n : t[k] = s[k]
  BY <1>1, SubSeqProperties
<1>3. /\ u \in Seq(Hash) /\ Len(u) = Len(s) - n
      /\ \A k \in 1 .. Len(s) - n : u[k] = s[k + n]
  <2>1. n + 1 \in Int /\ Len(s) \in Int /\ \A k \in n + 1 .. Len(s) : s[k] \in Hash
    BY <1>1
  <2>2. /\ u \in Seq(Hash)
        /\ Len(u) = IF n + 1 <= Len(s) THEN Len(s) - (n + 1) + 1 ELSE 0
        /\ \A k \in 1 .. Len(s) - (n + 1) + 1 : u[k] = s[(n + 1) + k - 1]
    BY <2>1, SubSeqProperties
  <2> HIDE DEF u
  <2>3. ASSUME NEW k \in 1 .. Len(s) - n PROVE u[k] = s[k + n]
    <3>1. k \in 1 .. Len(s) - (n + 1) + 1 /\ (n + 1) + k - 1 = k + n
      BY <1>1
    <3>2. u[k] = s[(n + 1) + k - 1]
      BY <2>2, <3>1
    <3>3. QED  BY <3>1, <3>2
  <2>4. Len(u) = Len(s) - n
    <3>1. Len(u) = IF n + 1 <= Len(s) THEN Len(s) - (n + 1) + 1 ELSE 0
      BY <2>2
    <3>2. CASE n + 1 <= Len(s)
      BY <3>1, <3>2, <1>1
    <3>3. CASE ~(n + 1 <= Len(s))
      <4>1. Len(u) = 0
        BY <3>1, <3>3
      <4>2. Len(s) - n = 0
        <5>1. Len(s) \in Nat /\ n \in Nat /\ n <= Len(s)
          BY <1>1
        <5>2. Len(s) < n + 1
          BY <5>1, <3>3
        <5>3. QED  BY <5>1, <5>2
      <4>3. QED  BY <4>1, <4>2
    <3>4. QED  BY <3>2, <3>3
  <2>5. QED  BY <2>2, <2>3, <2>4
<1>4. DOMAIN t = 1 .. n /\ DOMAIN u = 1 .. Len(s) - n
  BY <1>2, <1>3, LenProperties
<1> HIDE DEF t, u
<1>5. Queue(t) /\ ToSet(t) \subseteq ToSet(s)
  BY <1>1, <1>2, <1>4 DEF Queue, ToSet
<1>6. Queue(u)
  <2> SUFFICES ASSUME NEW i \in 1 .. Len(s) - n, NEW j \in 1 .. Len(s) - n, u[i] = u[j]
               PROVE  i = j
    BY <1>3, <1>4 DEF Queue
  <2>1. i + n \in 1 .. Len(s) /\ j + n \in 1 .. Len(s) /\ s[i + n] = s[j + n]
    BY <1>1, <1>3
  <2>2. i + n = j + n
    BY <2>1, <1>1 DEF Queue
  <2>3. QED  BY <2>2
<1>7. ToSet(u) = ToSet(s) \ ToSet(t)
  <2>1. ASSUME NEW k \in 1 .. Len(s) - n PROVE u[k] \in ToSet(s) \ ToSet(t)
    <3>1. k + n \in 1 .. Len(s) /\ u[k] = s[k + n]
      BY <1>1, <1>3
    <3>2. \A j \in 1 .. n : j \in 1 .. Len(s) /\ t[j] = s[j] /\ j # k + n
      BY <1>1, <1>2
    <3>3. \A j \in 1 .. n : t[j] # u[k]
      BY <3>1, <3>2, <1>1 DEF Queue
    <3>4. QED  BY <3>1, <3>3, <1>1, <1>4 DEF ToSet
  <2>2. ASSUME NEW k \in 1 .. Len(s) PROVE s[k] \in ToSet(t) \cup ToSet(u)
    <3>1. CASE k <= n
      <4>1. k \in 1 .. n /\ t[k] = s[k]
        BY <1>2, <3>1
      <4>2. QED  BY <4>1, <1>4 DEF ToSet
    <3>2. CASE k > n
      <4>1. k - n \in 1 .. Len(s) - n /\ u[k - n] = s[k]
        BY <1>1, <1>3, <3>2
      <4>2. QED  BY <4>1, <1>4 DEF ToSet
    <3>3. QED  BY <3>1, <3>2
  <2>3. QED  BY <2>1, <2>2, <1>1, <1>4 DEF ToSet
<1>8. QED  BY <1>2, <1>5, <1>6, <1>7 DEF t, u

(* Two queues that have nothing in common, one behind the other.            *)
LEMMA Joined ==
  ASSUME NEW s, Queue(s), NEW t, Queue(t), ToSet(s) \cap ToSet(t) = {}
  PROVE  /\ Queue(s \o t) /\ ToSet(s \o t) = ToSet(s) \cup ToSet(t)
         /\ Len(s \o t) = Len(s) + Len(t)
<1> DEFINE m == Len(s)
           n == Len(t)
           c == s \o t
<1>1. m \in Nat /\ DOMAIN s = 1 .. m /\ n \in Nat /\ DOMAIN t = 1 .. n
  BY QueueFacts
<1>2. c \in Seq(Hash) /\ Len(c) = m + n
  BY ConcatProperties DEF Queue
<1>3. \A k \in 1 .. m + n : c[k] = IF k <= m THEN s[k] ELSE t[k - m]
  BY ConcatProperties DEF Queue
<1>4. DOMAIN c = 1 .. m + n
  BY <1>2, LenProperties
<1> HIDE DEF c, m, n
<1>5. ASSUME NEW k \in 1 .. m + n
      PROVE  /\ k <= m => k \in 1 .. m /\ c[k] = s[k] /\ c[k] \in ToSet(s)
             /\ k > m => k - m \in 1 .. n /\ c[k] = t[k - m] /\ c[k] \in ToSet(t)
  BY <1>1, <1>3 DEF ToSet
<1>6. \A i, j \in 1 .. m + n : c[i] = c[j] => i = j
  <2> SUFFICES ASSUME NEW i \in 1 .. m + n, NEW j \in 1 .. m + n, c[i] = c[j]
               PROVE  i = j
    OBVIOUS
  <2>1. CASE i <= m /\ j <= m
    BY <2>1, <1>1, <1>5 DEF Queue
  <2>2. CASE i > m /\ j > m
    <3>1. i - m \in 1 .. n /\ j - m \in 1 .. n /\ t[i - m] = t[j - m]
      BY <2>2, <1>5
    <3>2. i - m = j - m
      BY <3>1, <1>1 DEF Queue
    <3>3. QED  BY <3>2, <1>1
  <2>3. CASE (i <= m) # (j <= m)
    BY <2>3, <1>1, <1>5
  <2>4. QED  BY <2>1, <2>2, <2>3, <1>1
<1>7. ToSet(c) = ToSet(s) \cup ToSet(t)
  <2>1. ASSUME NEW k \in 1 .. m PROVE s[k] \in ToSet(c)
    <3>1. k \in 1 .. m + n /\ c[k] = s[k]
      BY <1>1, <1>3
    <3>2. QED  BY <3>1, <1>4 DEF ToSet
  <2>2. ASSUME NEW k \in 1 .. n PROVE t[k] \in ToSet(c)
    <3>1. k + m \in 1 .. m + n /\ c[k + m] = t[k]
      BY <1>1, <1>3
    <3>2. QED  BY <3>1, <1>4 DEF ToSet
  <2>3. \A k \in 1 .. m + n : c[k] \in ToSet(s) \cup ToSet(t)
    BY <1>1, <1>5
  <2>4. QED  BY <2>1, <2>2, <2>3, <1>1, <1>4 DEF ToSet
<1>8. QED  BY <1>2, <1>4, <1>6, <1>7 DEF Queue, c, m, n

-----------------------------------------------------------------------------
(* Block download: a map and the lists of the peers. *)

(* The blocks whose entry names peer p.                                     *)
EntriesOf(map, p) == {b \in DOMAIN map : map[b].peer = p}

(* Every entry names a peer, and a peer's list holds the blocks of its      *)
(* entries, each once.                                                      *)
Fetching(map, list) ==
  /\ DOMAIN map \subseteq Hash
  /\ \A b \in DOMAIN map : map[b] \in [peer : Peer, late : BOOLEAN]
  /\ list \in [Peer -> Seq(Hash)]
  /\ \A p \in Peer : Queue(list[p]) /\ ToSet(list[p]) = EntriesOf(map, p)

LEMMA FetchingMirrors ==
  ASSUME DownloadAssumption, NEW map, NEW list, Fetching(map, list)
  PROVE  Mirrors(map, list) /\ \A b \in DOMAIN map : map[b] \in Entry
<1>1. ASSUME NEW b \in DOMAIN map
      PROVE  map[b] \in Entry /\ map[b].peer # Nobody /\ Contains(list[map[b].peer], b)
  <2>1. map[b].peer \in Peer /\ map[b] \in [peer : Peer, late : BOOLEAN]
    BY DEF Fetching
  <2>2. b \in ToSet(list[map[b].peer])
    BY <2>1 DEF Fetching, EntriesOf
  <2>3. map[b] \in Entry
    BY <2>1 DEF Entry
  <2>4. QED  BY <2>1, <2>2, <2>3 DEF DownloadAssumption, Contains, ToSet
<1>2. ASSUME NEW p \in Peer, NEW i \in DOMAIN list[p], NEW j \in DOMAIN list[p]
      PROVE  /\ list[p][i] = list[p][j] => i = j
             /\ list[p][i] \in DOMAIN map /\ map[list[p][i]].peer = p
  <2>1. list[p][i] \in EntriesOf(map, p)
    BY DEF Fetching, ToSet
  <2>2. QED  BY <2>1 DEF Fetching, Queue, EntriesOf
<1>3. QED  BY <1>1, <1>2 DEF Mirrors

(* The list of one peer changes, and the entries with it.                   *)
LEMMA OnePeer ==
  ASSUME NEW map, NEW list, Fetching(map, list), NEW p \in Peer,
         NEW other, NEW s, Queue(s), DOMAIN other \subseteq Hash,
         \A b \in DOMAIN other : other[b] \in [peer : Peer, late : BOOLEAN],
         ToSet(s) = EntriesOf(other, p),
         \A q \in Peer : q # p => EntriesOf(other, q) = EntriesOf(map, q)
  PROVE  Fetching(other, [list EXCEPT ![p] = s])
<1> DEFINE new == [list EXCEPT ![p] = s]
<1>1. list \in [Peer -> Seq(Hash)] /\ s \in Seq(Hash)
  BY DEF Fetching, Queue
<1>2. /\ new \in [Peer -> Seq(Hash)] /\ new[p] = s
      /\ \A q \in Peer : q # p => new[q] = list[q]
  BY <1>1
<1> HIDE DEF new
<1>3. ASSUME NEW q \in Peer
      PROVE  Queue(new[q]) /\ ToSet(new[q]) = EntriesOf(other, q)
  <2>1. CASE q = p
    BY <2>1, <1>2
  <2>2. CASE q # p
    BY <2>2, <1>2 DEF Fetching
  <2>3. QED  BY <2>1, <2>2
<1>4. Fetching(other, new)
  BY <1>2, <1>3 DEF Fetching
<1>5. QED  BY <1>4 DEF new

(* No list of left is longer than it was, and an empty one stays empty.     *)
Shrunk(list, left) ==
  \A p \in Peer : /\ Len(left[p]) <= Len(list[p])
                  /\ list[p] = <<>> => left[p] = <<>>

(* MarkBlockAsReceived.                                                     *)
LEMMA Received ==
  ASSUME DownloadAssumption, NEW map, NEW list, Fetching(map, list), NEW b
  PROVE  /\ Fetching(Unmapped(map, b), Unlisted(list, map, b))
         /\ DOMAIN Unmapped(map, b) = DOMAIN map \ {b}
         /\ Shrunk(list, Unlisted(list, map, b))
<1> DEFINE rest == Unmapped(map, b)
           left == Unlisted(list, map, b)
<1>1. /\ DOMAIN rest = DOMAIN map \ {b}
      /\ \A x \in DOMAIN map \ {b} : rest[x] = map[x]
  BY DEF Unmapped, Restrict
<1> HIDE DEF rest
<1>2. DOMAIN rest \subseteq Hash /\ \A x \in DOMAIN rest : rest[x] \in [peer : Peer, late : BOOLEAN]
  BY <1>1 DEF Fetching
<1>3. \A q \in Peer : Len(list[q]) \in Nat
  BY QueueFacts DEF Fetching
<1>4. CASE b \notin DOMAIN map
  <2>1. left = list
    BY <1>4 DEF Unlisted
  <2>2. \A q \in Peer : EntriesOf(rest, q) = EntriesOf(map, q)
    BY <1>1, <1>4 DEF EntriesOf
  <2>3. Fetching(rest, left)
    BY <1>2, <2>1, <2>2 DEF Fetching
  <2>4. QED  BY <1>1, <1>3, <2>1, <2>3 DEF rest, Shrunk
<1>5. CASE b \in DOMAIN map
  <2> DEFINE p == map[b].peer
             s == RemoveFirst(list[p], b)
  <2>1. p \in Peer /\ p # Nobody
    BY <1>5 DEF Fetching, DownloadAssumption
  <2>2. Queue(list[p]) /\ ToSet(list[p]) = EntriesOf(map, p)
    BY <2>1 DEF Fetching
  <2> HIDE DEF p
  <2>3. Queue(s) /\ ToSet(s) = ToSet(list[p]) \ {b} /\ Len(s) <= Len(list[p])
    BY <2>2, QueueErased
  <2>4. left = [list EXCEPT ![p] = s]
    BY <1>5, <2>1 DEF Unlisted, p
  <2> HIDE DEF s
  <2>5. ToSet(s) = EntriesOf(rest, p)
    BY <1>1, <2>2, <2>3 DEF EntriesOf
  <2>6. \A q \in Peer : q # p => EntriesOf(rest, q) = EntriesOf(map, q)
    BY <1>1 DEF EntriesOf, p
  <2>7. Fetching(rest, [list EXCEPT ![p] = s])
    BY <1>2, <2>1, <2>3, <2>5, <2>6, OnePeer
  <2>8. list[p] # <<>>
    <3>1. b \in EntriesOf(map, p)
      BY <1>5 DEF EntriesOf, p
    <3>2. QED  BY <2>2, <3>1, QueueFacts
  <2>9. ASSUME NEW q \in Peer
        PROVE  Len(left[q]) <= Len(list[q]) /\ (list[q] = <<>> => left[q] = <<>>)
    <3>0. list \in [Peer -> Seq(Hash)]
      BY DEF Fetching
    <3>1. left[p] = s /\ (q # p => left[q] = list[q])
      BY <3>0, <2>1, <2>4
    <3> HIDE DEF left
    <3>2. CASE q = p
      BY <3>1, <3>2, <2>3, <2>8
    <3>3. CASE q # p
      BY <3>1, <3>3, <1>3
    <3>4. QED  BY <3>2, <3>3
  <2>10. QED  BY <1>1, <2>4, <2>7, <2>9 DEF rest, Shrunk
<1>6. QED  BY <1>4, <1>5

(* AddBlockToQueue, of a block that has no entry left.                      *)
LEMMA Queued ==
  ASSUME NEW map, NEW list, Fetching(map, list),
         NEW p \in Peer, NEW b \in Hash, b \notin DOMAIN map
  PROVE  /\ Fetching(Listed(map, b, p), [list EXCEPT ![p] = Append(@, b)])
         /\ DOMAIN Listed(map, b, p) = DOMAIN map \cup {b}
<1> DEFINE more == Listed(map, b, p)
<1>1. /\ DOMAIN more = DOMAIN map \cup {b}
      /\ more[b] = New(p)
      /\ \A x \in DOMAIN map : more[x] = map[x]
  BY DEF Listed
<1> HIDE DEF more
<1>2. New(p) \in [peer : Peer, late : BOOLEAN] /\ New(p).peer = p
  BY DEF New
<1>3. DOMAIN more \subseteq Hash /\ \A x \in DOMAIN more : more[x] \in [peer : Peer, late : BOOLEAN]
  BY <1>1, <1>2 DEF Fetching
<1>4. Queue(list[p]) /\ ToSet(list[p]) = EntriesOf(map, p)
  BY DEF Fetching
<1>5. b \notin ToSet(list[p])
  BY <1>4 DEF EntriesOf
<1>6. Queue(Append(list[p], b)) /\ ToSet(Append(list[p], b)) = ToSet(list[p]) \cup {b}
  BY <1>4, <1>5, Pushed
<1>7. ToSet(Append(list[p], b)) = EntriesOf(more, p)
  BY <1>1, <1>2, <1>4, <1>6 DEF EntriesOf
<1>8. \A q \in Peer : q # p => EntriesOf(more, q) = EntriesOf(map, q)
  BY <1>1, <1>2 DEF EntriesOf
<1>9. Fetching(more, [list EXCEPT ![p] = Append(list[p], b)])
  BY <1>3, <1>6, <1>7, <1>8, OnePeer
<1>10. QED  BY <1>1, <1>9 DEF more

(* The first blocks of a queue leave it.                                    *)
LEMMA Taken ==
  ASSUME NEW map, NEW list, Fetching(map, list),
         NEW p \in Peer, NEW taken, NEW rest, Queue(rest),
         ToSet(taken) \subseteq ToSet(list[p]),
         ToSet(rest) = ToSet(list[p]) \ ToSet(taken)
  PROVE  /\ Fetching(Restrict(map, DOMAIN map \ ToSet(taken)), [list EXCEPT ![p] = rest])
         /\ DOMAIN Restrict(map, DOMAIN map \ ToSet(taken)) = DOMAIN map \ ToSet(taken)
<1> DEFINE less == Restrict(map, DOMAIN map \ ToSet(taken))
<1>1. /\ DOMAIN less = DOMAIN map \ ToSet(taken)
      /\ \A x \in DOMAIN less : less[x] = map[x]
  BY DEF Restrict
<1> HIDE DEF less
<1>2. DOMAIN less \subseteq Hash /\ \A x \in DOMAIN less : less[x] \in [peer : Peer, late : BOOLEAN]
  BY <1>1 DEF Fetching
<1>3. ToSet(list[p]) = EntriesOf(map, p)
  BY DEF Fetching
<1>4. ToSet(rest) = EntriesOf(less, p)
  BY <1>1, <1>3 DEF EntriesOf
<1>5. ASSUME NEW q \in Peer, q # p PROVE EntriesOf(less, q) = EntriesOf(map, q)
  <2>1. EntriesOf(map, q) \cap ToSet(taken) = {}
    BY <1>3, <1>5 DEF EntriesOf
  <2>2. QED  BY <1>1, <2>1 DEF EntriesOf
<1>6. Fetching(less, [list EXCEPT ![p] = rest])
  BY <1>2, <1>4, <1>5, OnePeer
<1>7. QED  BY <1>1, <1>6 DEF less

(* MarkBlockAsInFlight, for every block that leaves the queue.              *)
Asked(map, p, new) ==
  [x \in DOMAIN map \cup new |-> IF x \in new THEN New(p) ELSE map[x]]

LEMMA InFlight ==
  ASSUME NEW map, NEW list, Fetching(map, list),
         NEW p \in Peer, NEW taken, Queue(taken), ToSet(taken) \cap DOMAIN map = {}
  PROVE  /\ Fetching(Asked(map, p, ToSet(taken)), [list EXCEPT ![p] = list[p] \o taken])
         /\ Len(list[p] \o taken) = Len(list[p]) + Len(taken)
<1> DEFINE new == ToSet(taken)
           more == Asked(map, p, new)
<1>1. /\ DOMAIN more = DOMAIN map \cup new
      /\ \A x \in new : more[x] = New(p)
      /\ \A x \in DOMAIN map : more[x] = map[x]
  BY DEF Asked
<1>2. new \subseteq Hash
  BY QueueFacts
<1> HIDE DEF more, new
<1>3. New(p) \in [peer : Peer, late : BOOLEAN] /\ New(p).peer = p
  BY DEF New
<1>4. DOMAIN more \subseteq Hash /\ \A x \in DOMAIN more : more[x] \in [peer : Peer, late : BOOLEAN]
  BY <1>1, <1>2, <1>3 DEF Fetching
<1>5. Queue(list[p]) /\ ToSet(list[p]) = EntriesOf(map, p)
  BY DEF Fetching
<1>6. ToSet(list[p]) \cap ToSet(taken) = {}
  BY <1>5 DEF EntriesOf, new
<1>7. /\ Queue(list[p] \o taken) /\ ToSet(list[p] \o taken) = ToSet(list[p]) \cup new
      /\ Len(list[p] \o taken) = Len(list[p]) + Len(taken)
  BY <1>5, <1>6, Joined DEF new
<1>8. ToSet(list[p] \o taken) = EntriesOf(more, p)
  BY <1>1, <1>3, <1>5, <1>7 DEF EntriesOf
<1>9. \A q \in Peer : q # p => EntriesOf(more, q) = EntriesOf(map, q)
  BY <1>1, <1>3 DEF EntriesOf
<1>10. Fetching(more, [list EXCEPT ![p] = list[p] \o taken])
  BY <1>4, <1>7, <1>8, <1>9, OnePeer
<1>11. QED  BY <1>7, <1>10 DEF more, new

(* FinalizeNode, one list: every block of it loses its entry.               *)
LEMMA Finalized ==
  ASSUME NEW map, NEW list, Fetching(map, list), NEW p \in Peer
  PROVE  /\ Fetching(Restrict(map, DOMAIN map \ ToSet(list[p])), [list EXCEPT ![p] = <<>>])
         /\ DOMAIN Restrict(map, DOMAIN map \ ToSet(list[p])) \subseteq DOMAIN map
<1>1. Queue(<<>>) /\ ToSet(<<>>) = ToSet(list[p]) \ ToSet(list[p])
  BY EmptyQueue
<1>2. /\ Fetching(Restrict(map, DOMAIN map \ ToSet(list[p])), [list EXCEPT ![p] = <<>>])
      /\ DOMAIN Restrict(map, DOMAIN map \ ToSet(list[p])) = DOMAIN map \ ToSet(list[p])
  BY <1>1, Taken
<1>3. QED  BY <1>2

(* Entries that name the same peers as before.                              *)
LEMMA SamePeers ==
  ASSUME NEW map, NEW list, Fetching(map, list), NEW other, DOMAIN other = DOMAIN map,
         \A b \in DOMAIN map : /\ other[b] \in [peer : Peer, late : BOOLEAN]
                               /\ other[b].peer = map[b].peer
  PROVE  Fetching(other, list)
<1>1. \A p \in Peer : EntriesOf(other, p) = EntriesOf(map, p)
  BY DEF EntriesOf
<1>2. QED  BY <1>1 DEF Fetching

(* operator[] of an entry that is there changes nothing.                    *)
LEMMA TouchedIsThere ==
  ASSUME NEW map, NEW list, Fetching(map, list), NEW b \in DOMAIN map
  PROVE  Fetching(Touched(map, b), list) /\ DOMAIN Touched(map, b) = DOMAIN map
<1>1. DOMAIN Touched(map, b) = DOMAIN map
  BY DEF Touched
<1>2. \A x \in DOMAIN map : Touched(map, b)[x] = map[x]
  BY DEF Touched
<1>3. \A x \in DOMAIN map : /\ Touched(map, b)[x] \in [peer : Peer, late : BOOLEAN]
                            /\ Touched(map, b)[x].peer = map[x].peer
  BY <1>2 DEF Fetching
<1>4. Fetching(Touched(map, b), list)
  BY <1>1, <1>3, SamePeers
<1>5. QED  BY <1>1, <1>4

(* A timeout passes.                                                        *)
LEMMA Aged ==
  ASSUME NEW map, NEW list, Fetching(map, list), NEW b \in DOMAIN map
  PROVE  /\ Fetching([map EXCEPT ![b].late = TRUE], list)
         /\ DOMAIN [map EXCEPT ![b].late = TRUE] = DOMAIN map
<1> DEFINE other == [map EXCEPT ![b].late = TRUE]
<1>1. DOMAIN other = DOMAIN map
  OBVIOUS
<1>2. map[b] \in [peer : Peer, late : BOOLEAN]
  BY DEF Fetching
<1>3. other[b] = [map[b] EXCEPT !.late = TRUE] /\ \A x \in DOMAIN map : x # b => other[x] = map[x]
  OBVIOUS
<1>4. /\ [map[b] EXCEPT !.late = TRUE] \in [peer : Peer, late : BOOLEAN]
      /\ [map[b] EXCEPT !.late = TRUE].peer = map[b].peer
  BY <1>2
<1> HIDE DEF other
<1>5. \A x \in DOMAIN map : other[x] \in [peer : Peer, late : BOOLEAN] /\ other[x].peer = map[x].peer
  BY <1>3, <1>4 DEF Fetching
<1>6. Fetching(other, list)
  BY <1>1, <1>5, SamePeers
<1>7. QED  BY <1>1, <1>6 DEF other

-----------------------------------------------------------------------------
(* Block download: what every step keeps. *)

(* A peer is served, or being destroyed, or gone with nothing listed.       *)
PeersHeld ==
  /\ connected \subseteq Peer /\ closing \subseteq Peer \ connected
  /\ \A p \in Peer \ (connected \cup closing) :
       toDownload[p] = <<>> /\ inFlight[p] = <<>>

(* Both maps with their lists, and no block in both.                        *)
ListsHeld ==
  /\ Fetching(mapToDownload, toDownload)
  /\ Fetching(mapInFlight, inFlight)
  /\ DOMAIN mapToDownload \cap DOMAIN mapInFlight = {}
  /\ \A p \in Peer : Len(inFlight[p]) <= MaxInTransit

AskedHeld == asked \subseteq Peer \X Hash /\ have \subseteq Hash

(* An announcement is of a block the node does not have, from a peer that   *)
(* stays while it is handled; an entry AddBlockToQueue has counted is still *)
(* there when it reads it.                                                  *)
ThreadHeld ==
  thread # Idle =>
    /\ thread \in [at : {"countQueue", "readQueue", "countFlight", "readFlight", "lock"},
                   peer : connected, hash : Hash \ have]
    /\ thread.at = "readQueue" => thread.hash \in DOMAIN mapToDownload
    /\ thread.at = "readFlight" => thread.hash \in DOMAIN mapInFlight

QueueInv == PeersHeld /\ ListsHeld /\ AskedHeld /\ ThreadHeld /\ HeldIsNotFetched

LEMMA QueueInvInit ==
  ASSUME DownloadAssumption, DownloadInit
  PROVE  QueueInv
<1>1. \A p \in Peer : toDownload[p] = <<>> /\ inFlight[p] = <<>>
  BY DEF DownloadInit
<1>2. DOMAIN mapToDownload = {} /\ DOMAIN mapInFlight = {}
  BY DEF DownloadInit
<1>3. toDownload \in [Peer -> Seq(Hash)] /\ inFlight \in [Peer -> Seq(Hash)]
  BY EmptyQueue DEF DownloadInit, Queue
<1>4. Fetching(mapToDownload, toDownload) /\ Fetching(mapInFlight, inFlight)
  BY <1>1, <1>2, <1>3, EmptyQueue DEF Fetching, EntriesOf
<1>5. ListsHeld
  BY <1>1, <1>2, <1>4, EmptyQueue DEF ListsHeld, DownloadAssumption
<1>6. PeersHeld /\ AskedHeld /\ ThreadHeld /\ HeldIsNotFetched
  BY <1>1, <1>2 DEF DownloadInit, PeersHeld, AskedHeld, ThreadHeld, HeldIsNotFetched
<1>7. QED  BY <1>5, <1>6 DEF QueueInv

LEMMA InvKept ==
  ASSUME QueueInv, NEW p \in Peer, NEW b \in Hash, Inv(p, b)
  PROVE  QueueInv'
<1>1. p \in connected /\ b \in Hash \ have
  BY DEF Inv, Serving
<1>2. UNCHANGED <<connected, closing, toDownload, inFlight, mapToDownload, mapInFlight, asked, have>>
  BY DEF Inv, lists, maps
<1>3. thread' = [at |-> "countQueue", peer |-> p, hash |-> b]
  BY DEF Inv
<1>4. /\ thread' \in [at : {"countQueue", "readQueue", "countFlight", "readFlight", "lock"},
                     peer : connected, hash : Hash \ have]
      /\ thread'.at = "countQueue"
  BY <1>1, <1>3
<1>5. ThreadHeld'
  BY <1>2, <1>4 DEF ThreadHeld
<1>6. PeersHeld' /\ ListsHeld' /\ AskedHeld' /\ HeldIsNotFetched'
  BY <1>2 DEF QueueInv, PeersHeld, ListsHeld, AskedHeld, HeldIsNotFetched
<1>7. QED  BY <1>5, <1>6 DEF QueueInv

(* The steps of AddBlockToQueue before the lock: the thread moves on, or    *)
(* leaves, and no entry appears.                                            *)
LEMMA LooksKept ==
  ASSUME QueueInv, CountQueue \/ ReadQueue \/ CountFlight \/ ReadFlight
  PROVE  QueueInv'
<1>1. thread # Idle
  BY DEF CountQueue, ReadQueue, CountFlight, ReadFlight, Idle
<1>2. /\ thread \in [at : {"countQueue", "readQueue", "countFlight", "readFlight", "lock"},
                    peer : connected, hash : Hash \ have]
      /\ thread.at = "readQueue" => thread.hash \in DOMAIN mapToDownload
      /\ thread.at = "readFlight" => thread.hash \in DOMAIN mapInFlight
  BY <1>1 DEF QueueInv, ThreadHeld
<1>3. UNCHANGED <<connected, closing, toDownload, inFlight, asked, have>>
  BY DEF CountQueue, ReadQueue, CountFlight, ReadFlight, Go, Ignore, lists
<1>4. /\ Fetching(mapToDownload, toDownload)' /\ Fetching(mapInFlight, inFlight)'
      /\ DOMAIN mapToDownload' = DOMAIN mapToDownload
      /\ DOMAIN mapInFlight' = DOMAIN mapInFlight
  <2>0. Fetching(mapToDownload, toDownload) /\ Fetching(mapInFlight, inFlight)
    BY DEF QueueInv, ListsHeld
  <2>1. CASE UNCHANGED maps
    BY <2>0, <2>1, <1>3 DEF maps
  <2>2. CASE ReadQueue /\ ~UNCHANGED maps
    <3>1. /\ thread.hash \in DOMAIN mapToDownload
          /\ mapToDownload' = Touched(mapToDownload, thread.hash)
          /\ mapInFlight' = mapInFlight
      BY <2>2, <1>2 DEF ReadQueue, Ignore
    <3>2. QED  BY <2>0, <3>1, <1>3, TouchedIsThere
  <2>3. CASE ReadFlight /\ ~UNCHANGED maps
    <3>1. /\ thread.hash \in DOMAIN mapInFlight
          /\ mapInFlight' = Touched(mapInFlight, thread.hash)
          /\ mapToDownload' = mapToDownload
      BY <2>3, <1>2 DEF ReadFlight, Ignore
    <3>2. QED  BY <2>0, <3>1, <1>3, TouchedIsThere
  <2>4. QED  BY <2>1, <2>2, <2>3 DEF CountQueue, CountFlight
<1>5. ThreadHeld'
  <2>1. CASE thread' = Idle
    BY <2>1 DEF ThreadHeld
  <2>2. CASE thread' # Idle
    <3>1. PICK at \in {"readQueue", "countFlight", "readFlight", "lock"} :
            /\ Go(at)
            /\ at = "readQueue" => thread.hash \in DOMAIN mapToDownload
            /\ at = "readFlight" => thread.hash \in DOMAIN mapInFlight
      BY <2>2 DEF CountQueue, ReadQueue, CountFlight, ReadFlight, Ignore
    <3>2. thread' = [thread EXCEPT !.at = at]
      BY <3>1 DEF Go
    <3>3. /\ thread' \in [at : {"countQueue", "readQueue", "countFlight", "readFlight", "lock"},
                         peer : connected, hash : Hash \ have]
          /\ thread'.at = at /\ thread'.hash = thread.hash
      BY <3>2, <1>2
    <3>4. QED  BY <3>1, <3>3, <1>3, <1>4 DEF ThreadHeld
  <2>3. QED  BY <2>1, <2>2
<1>6. PeersHeld' /\ AskedHeld'
  BY <1>3 DEF QueueInv, PeersHeld, AskedHeld
<1>7. ListsHeld' /\ HeldIsNotFetched'
  BY <1>3, <1>4 DEF QueueInv, ListsHeld, HeldIsNotFetched
<1>8. QED  BY <1>5, <1>6, <1>7 DEF QueueInv

(* MarkBlockAsReceived for both maps, as Enqueue and Receive begin.         *)
LEMMA ReceivedTwice ==
  ASSUME DownloadAssumption, QueueInv, NEW b
  PROVE  /\ Fetching(Unmapped(mapToDownload, b), Unlisted(toDownload, mapToDownload, b))
         /\ Fetching(Unmapped(mapInFlight, b), Unlisted(inFlight, mapInFlight, b))
         /\ DOMAIN Unmapped(mapToDownload, b) = DOMAIN mapToDownload \ {b}
         /\ DOMAIN Unmapped(mapInFlight, b) = DOMAIN mapInFlight \ {b}
         /\ \A p \in Peer : Len(Unlisted(inFlight, mapInFlight, b)[p]) <= MaxInTransit
         /\ \A p \in Peer \ (connected \cup closing) :
              /\ Unlisted(toDownload, mapToDownload, b)[p] = <<>>
              /\ Unlisted(inFlight, mapInFlight, b)[p] = <<>>
<1>1. Fetching(mapToDownload, toDownload) /\ Fetching(mapInFlight, inFlight)
  BY DEF QueueInv, ListsHeld
<1>2. /\ Fetching(Unmapped(mapToDownload, b), Unlisted(toDownload, mapToDownload, b))
      /\ DOMAIN Unmapped(mapToDownload, b) = DOMAIN mapToDownload \ {b}
      /\ Shrunk(toDownload, Unlisted(toDownload, mapToDownload, b))
  BY <1>1, Received
<1>3. /\ Fetching(Unmapped(mapInFlight, b), Unlisted(inFlight, mapInFlight, b))
      /\ DOMAIN Unmapped(mapInFlight, b) = DOMAIN mapInFlight \ {b}
      /\ Shrunk(inFlight, Unlisted(inFlight, mapInFlight, b))
  BY <1>1, Received
<1>4. \A p \in Peer : /\ Len(inFlight[p]) \in Nat
                     /\ Len(Unlisted(inFlight, mapInFlight, b)[p]) \in Nat
  BY <1>1, <1>3, QueueFacts DEF Fetching
<1>5. \A p \in Peer : Len(Unlisted(inFlight, mapInFlight, b)[p]) <= MaxInTransit
  BY <1>3, <1>4 DEF QueueInv, ListsHeld, DownloadAssumption, Shrunk
<1>6. QED  BY <1>2, <1>3, <1>5 DEF QueueInv, PeersHeld, Shrunk

LEMMA EnqueueKept ==
  ASSUME DownloadAssumption, QueueInv, Enqueue
  PROVE  QueueInv'
<1> DEFINE b == thread.hash
           p == thread.peer
           list == Unlisted(toDownload, mapToDownload, b)
           rest == Unmapped(mapToDownload, b)
<1>1. thread # Idle
  BY DEF Enqueue, Idle
<1>2. p \in connected /\ b \in Hash \ have
  BY <1>1 DEF QueueInv, ThreadHeld
<1>3. p \in Peer
  BY <1>2 DEF QueueInv, PeersHeld
<1>4. /\ toDownload' = [list EXCEPT ![p] = Append(@, b)]
      /\ mapToDownload' = Listed(rest, b, p)
      /\ inFlight' = Unlisted(inFlight, mapInFlight, b)
      /\ mapInFlight' = Unmapped(mapInFlight, b)
      /\ thread' = Idle
      /\ UNCHANGED <<connected, closing, asked, have>>
  BY DEF Enqueue
<1> HIDE DEF b, p
<1>5. /\ Fetching(rest, list)
      /\ Fetching(Unmapped(mapInFlight, b), Unlisted(inFlight, mapInFlight, b))
      /\ DOMAIN rest = DOMAIN mapToDownload \ {b}
      /\ DOMAIN Unmapped(mapInFlight, b) = DOMAIN mapInFlight \ {b}
      /\ \A q \in Peer : Len(Unlisted(inFlight, mapInFlight, b)[q]) <= MaxInTransit
      /\ \A q \in Peer \ (connected \cup closing) :
           list[q] = <<>> /\ Unlisted(inFlight, mapInFlight, b)[q] = <<>>
  BY ReceivedTwice
<1> HIDE DEF list, rest
<1>6. /\ Fetching(Listed(rest, b, p), [list EXCEPT ![p] = Append(@, b)])
      /\ DOMAIN Listed(rest, b, p) = DOMAIN rest \cup {b}
  <2>1. b \notin DOMAIN rest /\ b \in Hash
    BY <1>2, <1>5
  <2>2. QED  BY <2>1, <1>3, <1>5, Queued
<1>7. ListsHeld'
  <2>1. Fetching(mapToDownload', toDownload')
    BY <1>4, <1>6
  <2>2. Fetching(mapInFlight', inFlight')
    BY <1>4, <1>5
  <2>3. DOMAIN mapToDownload' \cap DOMAIN mapInFlight' = {}
    BY <1>4, <1>5, <1>6 DEF QueueInv, ListsHeld
  <2>4. \A q \in Peer : Len(inFlight'[q]) <= MaxInTransit
    BY <1>4, <1>5
  <2>5. QED  BY <2>1, <2>2, <2>3, <2>4 DEF ListsHeld
<1>8. PeersHeld'
  <2>1. list \in [Peer -> Seq(Hash)]
    BY <1>5 DEF Fetching
  <2>2. \A q \in Peer \ (connected \cup closing) : toDownload'[q] = list[q]
    BY <2>1, <1>2, <1>4
  <2>3. QED  BY <2>2, <1>4, <1>5 DEF QueueInv, PeersHeld
<1>9. AskedHeld' /\ ThreadHeld'
  BY <1>4 DEF QueueInv, AskedHeld, ThreadHeld
<1>10. HeldIsNotFetched'
  BY <1>2, <1>4, <1>5, <1>6 DEF QueueInv, HeldIsNotFetched
<1>11. QED  BY <1>7, <1>8, <1>9, <1>10 DEF QueueInv

LEMMA ReceiveKept ==
  ASSUME DownloadAssumption, QueueInv, NEW p \in Peer, NEW b \in Hash, Receive(p, b)
  PROVE  QueueInv'
<1>1. /\ Fetching(mapToDownload', toDownload') /\ Fetching(mapInFlight', inFlight')
      /\ DOMAIN mapToDownload' = DOMAIN mapToDownload \ {b}
      /\ DOMAIN mapInFlight' = DOMAIN mapInFlight \ {b}
      /\ \A q \in Peer : Len(inFlight'[q]) <= MaxInTransit
      /\ \A q \in Peer \ (connected \cup closing) : toDownload'[q] = <<>> /\ inFlight'[q] = <<>>
  BY ReceivedTwice DEF Receive
<1>2. /\ thread = Idle /\ have' = have \cup {b} /\ asked' \subseteq asked
      /\ UNCHANGED <<connected, closing, thread>>
  BY DEF Receive, Serving
<1>3. PeersHeld' /\ AskedHeld' /\ ThreadHeld'
  BY <1>1, <1>2 DEF QueueInv, PeersHeld, AskedHeld, ThreadHeld
<1>4. ListsHeld' /\ HeldIsNotFetched'
  BY <1>1, <1>2 DEF QueueInv, ListsHeld, HeldIsNotFetched
<1>5. QED  BY <1>3, <1>4 DEF QueueInv

LEMMA SendMessagesKept ==
  ASSUME DownloadAssumption, QueueInv, NEW p \in Peer, SendMessages(p)
  PROVE  QueueInv'
<1> DEFINE n     == IF Len(toDownload[p]) < Room(p) THEN Len(toDownload[p]) ELSE Room(p)
           taken == SubSeq(toDownload[p], 1, n)
           rest  == SubSeq(toDownload[p], n + 1, Len(toDownload[p]))
           new   == ToSet(taken)
<1>1. Fetching(mapToDownload, toDownload) /\ Fetching(mapInFlight, inFlight)
  BY DEF QueueInv, ListsHeld
<1>2. /\ Serving(p) /\ n > 0
      /\ toDownload' = [toDownload EXCEPT ![p] = rest]
      /\ inFlight' = [inFlight EXCEPT ![p] = @ \o taken]
      /\ mapToDownload' = Restrict(mapToDownload, DOMAIN mapToDownload \ new)
      /\ mapInFlight' = [x \in DOMAIN mapInFlight \cup new |->
                           IF x \in new THEN New(p) ELSE mapInFlight[x]]
      /\ asked' = asked \cup {<<p, b>> : b \in new}
      /\ UNCHANGED <<connected, closing, have, thread>>
  BY DEF SendMessages
<1>3. Queue(toDownload[p]) /\ Queue(inFlight[p]) /\ ToSet(toDownload[p]) \subseteq DOMAIN mapToDownload
  BY <1>1 DEF Fetching, EntriesOf
<1>4. Len(toDownload[p]) \in Nat /\ Len(inFlight[p]) \in Nat
  BY <1>3, QueueFacts
<1>5. n \in 0 .. Len(toDownload[p]) /\ Len(inFlight[p]) + n <= MaxInTransit
  <2>1. MaxInTransit \in Nat /\ Room(p) = MaxInTransit - Len(inFlight[p])
    BY DEF Room, DownloadAssumption
  <2>2. CASE Len(toDownload[p]) < Room(p)
    <3>1. n = Len(toDownload[p])
      BY <2>2
    <3> HIDE DEF n
    <3>2. Len(toDownload[p]) < MaxInTransit - Len(inFlight[p])
      BY <2>1, <2>2
    <3>3. Len(inFlight[p]) + Len(toDownload[p]) <= MaxInTransit
      <4>1. \A i, j, m \in Nat : i < m - j => j + i <= m
        OBVIOUS
      <4>2. QED  BY <2>1, <3>2, <1>4, <4>1
    <3>4. n \in 0 .. Len(toDownload[p])
      BY <3>1, <1>4
    <3>5. QED  BY <3>1, <3>3, <3>4
  <2>3. CASE ~(Len(toDownload[p]) < Room(p))
    <3>1. n = Room(p) /\ n > 0
      BY <2>3, <1>2
    <3> HIDE DEF n
    <3>2. QED  BY <2>1, <2>3, <3>1, <1>4
  <2>4. QED  BY <2>2, <2>3
<1> HIDE DEF n
<1>6. /\ Queue(taken) /\ Len(taken) = n
      /\ Queue(rest)
      /\ ToSet(rest) = ToSet(toDownload[p]) \ new
      /\ new \subseteq ToSet(toDownload[p])
  BY <1>3, <1>5, Parted
<1> HIDE DEF taken, rest
<1>7. /\ Fetching(mapToDownload', toDownload')
      /\ DOMAIN mapToDownload' = DOMAIN mapToDownload \ new
  BY <1>1, <1>2, <1>6, Taken
<1>8. new \subseteq DOMAIN mapToDownload /\ new \cap DOMAIN mapInFlight = {} /\ new \subseteq Hash
  BY <1>1, <1>3, <1>6 DEF QueueInv, ListsHeld, Fetching
<1>9. /\ Fetching(mapInFlight', inFlight')
      /\ Len(inFlight[p] \o taken) = Len(inFlight[p]) + n
  <2>1. Queue(taken) /\ ToSet(taken) \cap DOMAIN mapInFlight = {}
    BY <1>6, <1>8
  <2>2. /\ Fetching(Asked(mapInFlight, p, ToSet(taken)),
                   [inFlight EXCEPT ![p] = inFlight[p] \o taken])
        /\ Len(inFlight[p] \o taken) = Len(inFlight[p]) + Len(taken)
    BY <2>1, <1>1, InFlight
  <2>3. mapInFlight' = Asked(mapInFlight, p, ToSet(taken))
    BY <1>2 DEF Asked
  <2>4. inFlight' = [inFlight EXCEPT ![p] = inFlight[p] \o taken]
    BY <1>2
  <2>5. QED  BY <2>2, <2>3, <2>4, <1>6
<1>10. DOMAIN mapInFlight' = DOMAIN mapInFlight \cup new
  BY <1>2
<1> HIDE DEF new
<1>11. /\ inFlight'[p] = inFlight[p] \o taken
       /\ \A q \in Peer : q # p => inFlight'[q] = inFlight[q] /\ toDownload'[q] = toDownload[q]
  <2>1. inFlight \in [Peer -> Seq(Hash)] /\ toDownload \in [Peer -> Seq(Hash)]
    BY <1>1 DEF Fetching
  <2>2. QED  BY <2>1, <1>2
<1>12. ListsHeld'
  <2>1. \A q \in Peer : Len(inFlight'[q]) <= MaxInTransit
    BY <1>5, <1>9, <1>11 DEF QueueInv, ListsHeld
  <2>2. DOMAIN mapToDownload' \cap DOMAIN mapInFlight' = {}
    BY <1>7, <1>10 DEF QueueInv, ListsHeld
  <2>3. QED  BY <1>7, <1>9, <2>1, <2>2 DEF ListsHeld
<1>13. PeersHeld'
  <2>1. p \in connected
    BY <1>2 DEF Serving
  <2>2. QED  BY <2>1, <1>2, <1>11 DEF QueueInv, PeersHeld
<1>14. AskedHeld'
  BY <1>2, <1>8 DEF QueueInv, AskedHeld
<1>15. ThreadHeld'
  BY <1>2 DEF Serving, ThreadHeld
<1>16. HeldIsNotFetched'
  BY <1>2, <1>7, <1>8, <1>10 DEF QueueInv, HeldIsNotFetched
<1>17. QED  BY <1>12, <1>13, <1>14, <1>15, <1>16 DEF QueueInv

LEMMA TimeoutKept ==
  ASSUME QueueInv, NEW b \in Hash, Timeout(b)
  PROVE  QueueInv'
<1>1. Fetching(mapToDownload, toDownload) /\ Fetching(mapInFlight, inFlight)
  BY DEF QueueInv, ListsHeld
<1>2. UNCHANGED <<connected, closing, toDownload, inFlight, asked, have, thread>>
  BY DEF Timeout, lists
<1>3. /\ Fetching(mapToDownload', toDownload') /\ Fetching(mapInFlight', inFlight')
      /\ DOMAIN mapToDownload' = DOMAIN mapToDownload
      /\ DOMAIN mapInFlight' = DOMAIN mapInFlight
  <2>1. CASE /\ NewEntry(mapToDownload, b)
             /\ mapToDownload' = [mapToDownload EXCEPT ![b].late = TRUE]
             /\ UNCHANGED mapInFlight
    <3>1. b \in DOMAIN mapToDownload
      BY <2>1 DEF NewEntry
    <3>2. QED  BY <3>1, <2>1, <1>1, <1>2, Aged
  <2>2. CASE /\ NewEntry(mapInFlight, b)
             /\ mapInFlight' = [mapInFlight EXCEPT ![b].late = TRUE]
             /\ UNCHANGED mapToDownload
    <3>1. b \in DOMAIN mapInFlight
      BY <2>2 DEF NewEntry
    <3>2. QED  BY <3>1, <2>2, <1>1, <1>2, Aged
  <2>3. QED  BY <2>1, <2>2 DEF Timeout
<1>4. PeersHeld' /\ AskedHeld'
  BY <1>2 DEF QueueInv, PeersHeld, AskedHeld
<1>5. ListsHeld' /\ HeldIsNotFetched' /\ ThreadHeld'
  BY <1>2, <1>3 DEF QueueInv, ListsHeld, HeldIsNotFetched, ThreadHeld
<1>6. QED  BY <1>4, <1>5 DEF QueueInv

(* Peers that come, and peers that go and keep what they have listed until  *)
(* they are destroyed.                                                      *)
LEMMA PeersComeAndGo ==
  ASSUME QueueInv, NEW p \in Peer, Connect(p) \/ Disconnect(p)
  PROVE  QueueInv'
<1>1. UNCHANGED <<toDownload, inFlight, mapToDownload, mapInFlight, asked, have, thread>>
  BY DEF Connect, Disconnect, lists, maps
<1>2. ListsHeld' /\ AskedHeld' /\ HeldIsNotFetched'
  BY <1>1 DEF QueueInv, ListsHeld, AskedHeld, HeldIsNotFetched
<1>3. CASE Connect(p)
  <2>1. PeersHeld'
    BY <1>1, <1>3 DEF QueueInv, PeersHeld, Connect
  <2>2. ThreadHeld'
    <3>1. SUFFICES ASSUME thread # Idle PROVE ThreadHeld'
      BY <1>1 DEF ThreadHeld
    <3>2. /\ thread \in [at : {"countQueue", "readQueue", "countFlight", "readFlight", "lock"},
                        peer : connected, hash : Hash \ have]
          /\ thread.at = "readQueue" => thread.hash \in DOMAIN mapToDownload
          /\ thread.at = "readFlight" => thread.hash \in DOMAIN mapInFlight
      BY <3>1 DEF QueueInv, ThreadHeld
    <3>3. connected \subseteq connected'
      BY <1>3 DEF Connect
    <3>4. thread \in [at : {"countQueue", "readQueue", "countFlight", "readFlight", "lock"},
                     peer : connected', hash : Hash \ have]
      BY <3>2, <3>3
    <3>5. QED  BY <1>1, <3>2, <3>4 DEF ThreadHeld
  <2>3. QED  BY <1>2, <2>1, <2>2 DEF QueueInv
<1>4. CASE Disconnect(p)
  <2>1. PeersHeld'
    BY <1>1, <1>4 DEF QueueInv, PeersHeld, Disconnect, Serving
  <2>2. ThreadHeld'
    BY <1>1, <1>4 DEF ThreadHeld, Disconnect, Serving
  <2>3. QED  BY <1>2, <2>1, <2>2 DEF QueueInv
<1>5. QED  BY <1>3, <1>4

(* A peer is destroyed between two announcements.                           *)
LEMMA FinalizeKept ==
  ASSUME DownloadAssumption, ~RaceAllowed, QueueInv, NEW p \in Peer, FinalizeNode(p)
  PROVE  QueueInv'
<1>1. Fetching(mapToDownload, toDownload) /\ Fetching(mapInFlight, inFlight)
  BY DEF QueueInv, ListsHeld
<1>2. /\ thread = Idle /\ p \in closing /\ closing' = closing \ {p}
      /\ mapInFlight' = Restrict(mapInFlight, DOMAIN mapInFlight \ ToSet(inFlight[p]))
      /\ mapToDownload' = Restrict(mapToDownload, DOMAIN mapToDownload \ ToSet(toDownload[p]))
      /\ toDownload' = [toDownload EXCEPT ![p] = <<>>]
      /\ inFlight' = [inFlight EXCEPT ![p] = <<>>]
      /\ asked' \subseteq asked
      /\ UNCHANGED <<connected, have, thread>>
  BY DEF FinalizeNode
<1>3. Fetching(mapToDownload', toDownload') /\ DOMAIN mapToDownload' \subseteq DOMAIN mapToDownload
  BY <1>1, <1>2, Finalized
<1>4. Fetching(mapInFlight', inFlight') /\ DOMAIN mapInFlight' \subseteq DOMAIN mapInFlight
  BY <1>1, <1>2, Finalized
<1>5. /\ toDownload'[p] = <<>> /\ inFlight'[p] = <<>>
      /\ \A q \in Peer : q # p => inFlight'[q] = inFlight[q] /\ toDownload'[q] = toDownload[q]
  <2>1. inFlight \in [Peer -> Seq(Hash)] /\ toDownload \in [Peer -> Seq(Hash)]
    BY <1>1 DEF Fetching
  <2>2. QED  BY <2>1, <1>2
<1>6. \A q \in Peer : Len(inFlight'[q]) <= MaxInTransit
  BY <1>5, EmptyQueue DEF QueueInv, ListsHeld, DownloadAssumption
<1>7. ListsHeld' /\ HeldIsNotFetched'
  BY <1>2, <1>3, <1>4, <1>6 DEF QueueInv, ListsHeld, HeldIsNotFetched
<1>8. PeersHeld' /\ AskedHeld' /\ ThreadHeld'
  BY <1>2, <1>5 DEF QueueInv, PeersHeld, AskedHeld, ThreadHeld
<1>9. QED  BY <1>7, <1>8 DEF QueueInv

LEMMA QueueStep ==
  ASSUME DownloadAssumption, ~RaceAllowed, QueueInv, [DownloadNext]_downloadVars
  PROVE  QueueInv'
<1>1. CASE UNCHANGED downloadVars
  BY <1>1 DEF downloadVars, lists, maps, QueueInv, PeersHeld, ListsHeld, AskedHeld, ThreadHeld,
              HeldIsNotFetched
<1>2. CASE AddBlockToQueue
  BY <1>2, LooksKept, EnqueueKept DEF AddBlockToQueue
<1>3. ASSUME NEW p \in Peer, NEW b \in Hash, Inv(p, b) \/ Receive(p, b) PROVE QueueInv'
  BY <1>3, InvKept, ReceiveKept
<1>4. ASSUME NEW p \in Peer,
             SendMessages(p) \/ Connect(p) \/ Disconnect(p) \/ FinalizeNode(p)
      PROVE  QueueInv'
  BY <1>4, SendMessagesKept, PeersComeAndGo, FinalizeKept
<1>5. ASSUME NEW b \in Hash, Timeout(b) PROVE QueueInv'
  BY <1>5, TimeoutKept
<1>6. QED  BY <1>1, <1>2, <1>3, <1>4, <1>5 DEF DownloadNext

LEMMA QueueInvMeans ==
  ASSUME DownloadAssumption, QueueInv
  PROVE  QueuesAgree
<1>1. /\ Mirrors(mapToDownload, toDownload) /\ \A b \in DOMAIN mapToDownload : mapToDownload[b] \in Entry
      /\ Mirrors(mapInFlight, inFlight) /\ \A b \in DOMAIN mapInFlight : mapInFlight[b] \in Entry
  BY FetchingMirrors DEF QueueInv, ListsHeld
<1>2. DownloadTypeOK
  BY <1>1 DEF QueueInv, PeersHeld, ListsHeld, AskedHeld, Fetching, DownloadTypeOK
<1>3. MapsMirrorLists
  BY <1>1 DEF QueueInv, PeersHeld, ListsHeld, MapsMirrorLists
<1>4. QED  BY <1>2, <1>3 DEF QueueInv, QueuesAgree

(* Every block being fetched is listed once, with the peer its entry names, *)
(* in the queue or in flight and never in both; no peer is sent more        *)
(* requests than allowed; what the node has is never fetched again; and a   *)
(* peer that has been destroyed has left nothing behind: for any peers, any *)
(* blocks and any order of announcements, answers, timeouts and departures, *)
(* when no peer is destroyed while an announcement is handled.  When one    *)
(* may be, AddBlockToQueue can meet an entry that has no place in a list    *)
(* (BlockDownload!NoDanglingEntry).                                         *)
THEOREM QueuesKept ==
  ASSUME DownloadAssumption, ~RaceAllowed
  PROVE  DownloadSpec => []QueuesAgree
<1>1. DownloadInit => QueueInv
  BY QueueInvInit
<1>2. QueueInv /\ [DownloadNext]_downloadVars => QueueInv'
  BY QueueStep
<1>3. QueueInv => QueuesAgree
  BY QueueInvMeans
<1>4. QED  BY <1>1, <1>2, <1>3, PTL DEF DownloadSpec

-----------------------------------------------------------------------------
(* Orphan blocks. *)

(* The pool is finite, and no orphan waits for a block the node has. *)
PoolInv ==
  /\ OrphansTypeOK /\ PoolBounded /\ VictimExists /\ ~emptied
  /\ IsFiniteSet(orphans)
  /\ Genesis \in indexed
  /\ \A o \in orphans : Parent[o] \notin indexed

(* The last element of setOrphanBlock is the highest block there: the one   *)
(* with the fewest above it.                                                *)
LEMMA HighestIsThere ==
  ASSUME PoolInv, ordered # {}
  PROVE  Highest \in ordered
<1> DEFINE above(o) == {c \in ordered : Height[c] > Height[o]}
           sizes == {Cardinality(above(o)) : o \in ordered}
<1>1. ordered \subseteq orphans /\ orphans \subseteq Block
  BY DEF PoolInv, OrphansTypeOK
<1>2. IsFiniteSet(ordered)
  BY <1>1, FS_Subset DEF PoolInv
<1>3. \A o \in ordered : IsFiniteSet(above(o)) /\ Cardinality(above(o)) \in Nat
  <2>1. \A o \in ordered : above(o) \in SUBSET ordered
    OBVIOUS
  <2> HIDE DEF above
  <2>2. QED  BY <1>2, <2>1, FS_Subset, FS_CardinalityType
<1>4. \A o \in ordered : Height[o] \in Nat
  BY <1>1, BlockTreeAssumption
<1>5. PICK o \in ordered : \A c \in ordered : Cardinality(above(o)) <= Cardinality(above(c))
  <2>1. sizes \in SUBSET Nat /\ sizes # {}
    BY <1>3
  <2>2. PICK n \in sizes : \A m \in sizes : n <= m
    <3> HIDE DEF sizes
    <3>1. QED  BY <2>1, LeastNatural
  <2>3. QED  BY <2>2
<1>6. ASSUME NEW c \in ordered, Height[c] > Height[o] PROVE FALSE
  <2>1. above(c) \in SUBSET above(o)
    BY <1>4, <1>6
  <2>2. c \in above(o) /\ c \notin above(c)
    BY <1>4, <1>6
  <2>3. Cardinality(above(c)) <= Cardinality(above(o)) /\ Cardinality(above(c)) # Cardinality(above(o))
    <3> HIDE DEF above
    <3>1. QED  BY <1>3, <2>1, <2>2, FS_Subset
  <2>4. Cardinality(above(c)) \in Nat /\ Cardinality(above(o)) \in Nat
    BY <1>3
  <2>5. Cardinality(above(o)) <= Cardinality(above(c))
    BY <1>5
  <2> HIDE DEF above
  <2>6. QED  BY <2>3, <2>4, <2>5
<1>7. \A c \in ordered : Height[c] <= Height[o]
  BY <1>4, <1>6
<1>8. QED  BY <1>7 DEF Highest

(* setOrphanBlock after an insertion: one block of a height, and not empty. *)
LEMMA InsertedSet ==
  ASSUME NEW S, NEW b, \A o, c \in S : Height[o] = Height[c] => o = c
  PROVE  /\ Inserted(S, b) \subseteq S \cup {b} /\ Inserted(S, b) # {}
         /\ \A o, c \in Inserted(S, b) : Height[o] = Height[c] => o = c
  BY DEF Inserted

(* What is left after an erasure. *)
LEMMA ErasedSet ==
  ASSUME NEW S, NEW gone
  PROVE  Erased(S, gone) \subseteq (S \ gone) /\ (gone = {} => Erased(S, gone) = S)
  BY DEF Erased

(* A block is kept, in the place of the highest one if there is no room;    *)
(* and there always is one to take the place of.                            *)
LEMMA KeepHolds ==
  ASSUME OrphansAssumption, PoolInv, NEW b \in Block, b \notin indexed \cup orphans,
         Parent[b] \notin indexed, Keep(b)
  PROVE  PoolInv'
<1>1. Cardinality(orphans) \in Nat /\ MaxOrphans \in Nat /\ IsFiniteSet(orphans)
  BY FS_CardinalityType DEF PoolInv, OrphansAssumption
<1>2. \A o, c \in ordered : Height[o] = Height[c] => o = c
  BY DEF PoolInv, OrphansTypeOK
<1>3. CASE ~Full /\ orphans' = orphans \cup {b} /\ ordered' = Inserted(ordered, b)
           /\ UNCHANGED <<indexed, emptied>>
  <2>1. IsFiniteSet(orphans') /\ Cardinality(orphans') = Cardinality(orphans) + 1
    BY <1>1, <1>3, FS_AddElement
  <2>2. PoolBounded' /\ VictimExists'
    BY <1>1, <1>2, <1>3, <2>1, InsertedSet DEF PoolBounded, VictimExists, Full
  <2>3. OrphansTypeOK'
    <3>1. ordered' \subseteq orphans' /\ \A o, c \in ordered' : Height[o] = Height[c] => o = c
      BY <1>2, <1>3, InsertedSet DEF PoolInv, OrphansTypeOK
    <3>2. QED  BY <1>3, <3>1 DEF PoolInv, OrphansTypeOK
  <2>4. QED  BY <1>3, <2>1, <2>2, <2>3 DEF PoolInv
<1>4. CASE /\ Full /\ ordered # {}
           /\ orphans' = (orphans \ {Highest}) \cup {b}
           /\ ordered' = Inserted(Erased(ordered, {Highest}), b)
           /\ UNCHANGED <<indexed, emptied>>
  <2> DEFINE rest == Erased(ordered, {Highest})
  <2>1. Highest \in ordered /\ ordered \subseteq orphans
    BY <1>4, HighestIsThere DEF PoolInv, OrphansTypeOK
  <2>2. rest \subseteq ordered \ {Highest} /\ \A o, c \in rest : Height[o] = Height[c] => o = c
    BY <1>2, ErasedSet
  <2> HIDE DEF rest
  <2>3. /\ Inserted(rest, b) \subseteq rest \cup {b} /\ Inserted(rest, b) # {}
        /\ \A o, c \in Inserted(rest, b) : Height[o] = Height[c] => o = c
    BY <2>2, InsertedSet
  <2>4. ordered' = Inserted(rest, b)
    BY <1>4 DEF rest
  <2>5. IsFiniteSet(orphans \ {Highest}) /\ Cardinality(orphans \ {Highest}) = Cardinality(orphans) - 1
    BY <1>1, <2>1, FS_RemoveElement
  <2>6. IsFiniteSet(orphans') /\ Cardinality(orphans') = Cardinality(orphans)
    <3> DEFINE others == orphans \ {Highest}
    <3>1. IsFiniteSet(others) /\ b \notin others /\ orphans' = others \cup {b}
      BY <1>4, <2>5
    <3> HIDE DEF others
    <3>2. IsFiniteSet(orphans') /\ Cardinality(orphans') = Cardinality(others) + 1
      BY <3>1, FS_AddElement
    <3>3. Cardinality(others) = Cardinality(orphans) - 1
      BY <2>5 DEF others
    <3>4. QED  BY <1>1, <3>2, <3>3
  <2>7. PoolBounded' /\ VictimExists'
    BY <1>4, <2>3, <2>4, <2>6 DEF PoolInv, PoolBounded, VictimExists, Full
  <2>8. OrphansTypeOK'
    <3>1. ordered' \subseteq orphans' /\ \A o, c \in ordered' : Height[o] = Height[c] => o = c
      BY <1>4, <2>1, <2>2, <2>3, <2>4
    <3>2. QED  BY <1>4, <3>1 DEF PoolInv, OrphansTypeOK
  <2>9. QED  BY <1>4, <2>6, <2>7, <2>8 DEF PoolInv
<1>5. CASE Full /\ ordered = {}
  BY <1>5 DEF PoolInv, VictimExists
<1>6. QED  BY <1>3, <1>4, <1>5 DEF Keep

(* The parent of a block is the only one of its chain just below it. *)
LEMMA ParentOnChain ==
  ASSUME NEW o \in Block, o # Genesis
  PROVE  /\ Parent[o] \in Chain[o] /\ Parent[o] # o /\ Parent[o] \in Block
         /\ Chain[o] = Chain[Parent[o]] \cup {o}
         /\ Height[o] = Height[Parent[o]] + 1
<1>1. Parent[o] \in Block /\ Height[o] = Height[Parent[o]] + 1
      /\ Chain[o] = Chain[Parent[o]] \cup {o}
  BY BlockTreeAssumption
<1>2. Parent[o] \in Chain[Parent[o]] /\ Height[Parent[o]] \in Nat
  BY <1>1, BlockTreeAssumption
<1>3. QED  BY <1>1, <1>2

(* An orphan that stays in the pool still waits for its parent: ProcessBlock *)
(* has taken out everything that waited for what it accepted.               *)
LEMMA AcceptHolds ==
  ASSUME OrphansAssumption, PoolInv, NEW b \in Block, b \notin indexed \cup orphans,
         Parent[b] \in indexed, Accept(b)
  PROVE  PoolInv'
<1>1. Cardinality(orphans) \in Nat /\ MaxOrphans \in Nat /\ IsFiniteSet(orphans)
      /\ orphans \subseteq Block \ indexed /\ indexed \subseteq Block /\ Genesis \in indexed
  BY FS_CardinalityType DEF PoolInv, OrphansAssumption, OrphansTypeOK
<1>2. /\ indexed' = indexed \cup (({b} \cup Drained(b)) \ Bad)
      /\ orphans' = orphans \ Drained(b)
      /\ ordered' = Erased(ordered, Drained(b))
      /\ emptied' = emptied
  BY DEF Accept
<1>3. Drained(b) \subseteq orphans
  BY DEF Drained
<1>4. OrphansTypeOK'
  <2>1. ordered' \subseteq (ordered \ Drained(b))
    BY <1>2, ErasedSet
  <2>2. QED  BY <1>1, <1>2, <1>3, <2>1 DEF PoolInv, OrphansTypeOK
<1>5. /\ IsFiniteSet(orphans') /\ Cardinality(orphans') \in Nat
      /\ Cardinality(orphans') <= Cardinality(orphans)
      /\ (Cardinality(orphans') = Cardinality(orphans) => orphans' = orphans)
  <2>1. orphans' \in SUBSET orphans
    BY <1>2
  <2>2. QED  BY <1>1, <2>1, FS_Subset, FS_CardinalityType
<1>6. PoolBounded'
  BY <1>1, <1>5 DEF PoolInv, PoolBounded
<1>7. VictimExists'
  <2> SUFFICES ASSUME Full' PROVE ordered' # {}
    BY DEF VictimExists
  <2>1. Cardinality(orphans') > MaxOrphans /\ Cardinality(orphans) <= MaxOrphans + 1
    BY DEF Full, PoolInv, PoolBounded
  <2>2. orphans' = orphans /\ Full
    BY <1>1, <1>5, <2>1 DEF Full
  <2>3. Drained(b) = {}
    BY <1>2, <1>3, <2>2
  <2>4. ordered' = ordered
    BY <1>2, <2>3, ErasedSet
  <2>5. QED  BY <2>2, <2>4 DEF PoolInv, VictimExists
<1>8. ASSUME NEW o \in orphans' PROVE Parent[o] \notin indexed'
  <2>1. o \in Block /\ o # Genesis /\ o \in orphans /\ o \notin Drained(b) /\ o # b
        /\ Parent[o] \notin indexed
    BY <1>1, <1>2 DEF PoolInv
  <2>2. /\ Parent[o] \in Chain[o] /\ Parent[o] # o /\ Parent[o] \in Block
        /\ Chain[o] = Chain[Parent[o]] \cup {o}
    BY <2>1, ParentOnChain
  <2>3. ASSUME Parent[o] = b PROVE FALSE
    <3>1. b \in Chain[o] \ {o} /\ Chain[o] \ (Chain[b] \cup {o}) = {}
      BY <2>2, <2>3
    <3>2. QED  BY <2>1, <3>1 DEF WaitsFor, Drained
  <2>4. ASSUME Parent[o] \in Drained(b) \ Bad PROVE FALSE
    <3> DEFINE d == Parent[o]
    <3>1. d \in orphans \ Bad /\ b \in Chain[d] \ {d}
          /\ \A c \in Chain[d] \ (Chain[b] \cup {d}) : c \in orphans \ Bad
      BY <2>4 DEF Drained, WaitsFor
    <3>2. b \in Chain[o] \ {o}
      BY <2>1, <2>2, <3>1
    <3>3. \A c \in Chain[o] \ (Chain[b] \cup {o}) : c \in orphans \ Bad
      BY <2>2, <3>1
    <3>4. QED  BY <2>1, <3>2, <3>3 DEF WaitsFor, Drained
  <2>5. QED  BY <1>2, <2>1, <2>3, <2>4
<1>9. Genesis \in indexed' /\ ~emptied'
  BY <1>1, <1>2 DEF PoolInv
<1>10. QED  BY <1>4, <1>5, <1>6, <1>7, <1>8, <1>9 DEF PoolInv

LEMMA PoolStep ==
  ASSUME OrphansAssumption, PoolInv, [OrphansNext]_orphanVars
  PROVE  PoolInv'
<1>1. ASSUME UNCHANGED orphanVars PROVE PoolInv'
  BY <1>1 DEF orphanVars, PoolInv, OrphansTypeOK, PoolBounded, VictimExists, Full
<1>2. ASSUME NEW b \in Block, ProcessBlock(b) PROVE PoolInv'
  BY <1>2, KeepHolds, AcceptHolds DEF ProcessBlock
<1>3. QED  BY <1>1, <1>2 DEF OrphansNext

(* GetOrphanRoot has a block to return: the lowest of those above which the *)
(* chain is all orphans.                                                    *)
LEMMA RootIsThere ==
  ASSUME PoolInv, NEW o \in orphans
  PROVE  GetOrphanRoot(o) \in orphans /\ Parent[GetOrphanRoot(o)] \notin orphans
<1> DEFINE clear(r) == \A c \in Chain[o] : Height[c] >= Height[r] => c \in orphans
           heights == {Height[r] : r \in {c \in Chain[o] : clear(c)}}
<1>1. o \in Block /\ Genesis \notin orphans /\ Chain[o] \subseteq Block /\ o \in Chain[o]
  BY BlockTreeAssumption DEF PoolInv, OrphansTypeOK
<1>2. \A c \in Chain[o] : Height[c] \in Nat /\ Height[c] <= Height[o]
  BY <1>1, BlockTreeAssumption
<1>3. \A c, d \in Chain[o] : Height[c] = Height[d] => c = d
  BY <1>1, BlockTreeAssumption
<1>4. clear(o)
  BY <1>1, <1>2, <1>3
<1>5. PICK r \in Chain[o] : clear(r) /\ \A c \in Chain[o] : clear(c) => Height[r] <= Height[c]
  <2>1. heights \in SUBSET Nat /\ heights # {}
    BY <1>1, <1>2, <1>4
  <2>2. PICK n \in heights : \A m \in heights : n <= m
    <3> HIDE DEF heights
    <3>1. QED  BY <2>1, LeastNatural
  <2>3. PICK r \in Chain[o] : clear(r) /\ n = Height[r]
    BY <2>2
  <2>4. \A c \in Chain[o] : clear(c) => Height[r] <= Height[c]
    BY <2>2, <2>3
  <2>5. QED  BY <2>3, <2>4
<1>6. r \in orphans /\ r \in Block /\ r # Genesis
  BY <1>1, <1>2, <1>5
<1>7. Parent[r] \in Chain[o] /\ Height[r] = Height[Parent[r]] + 1
  <2>1. Parent[r] \in Chain[r] /\ Height[r] = Height[Parent[r]] + 1
    BY <1>6, ParentOnChain
  <2>2. Chain[r] \subseteq Chain[o]
    BY <1>1, BlockTreeAssumption
  <2>3. QED  BY <2>1, <2>2
<1>8. Parent[r] \notin orphans
  <2> SUFFICES ASSUME Parent[r] \in orphans PROVE FALSE
    OBVIOUS
  <2>1. ASSUME NEW c \in Chain[o], Height[c] >= Height[Parent[r]] PROVE c \in orphans
    <3>1. Height[c] >= Height[r] \/ Height[c] = Height[Parent[r]]
      BY <1>2, <1>7, <2>1
    <3>2. QED  BY <1>3, <1>5, <1>7, <2>1, <3>1
  <2>2. clear(Parent[r])
    BY <2>1
  <2>3. Height[r] <= Height[Parent[r]]
    BY <1>5, <1>7, <2>2
  <2>4. QED  BY <1>2, <1>7, <2>3
<1>9. \A c \in Chain[o] : Height[c] > Height[r] => c \in orphans
  BY <1>2, <1>5
<1>10. QED  BY <1>1, <1>6, <1>8, <1>9 DEF GetOrphanRoot

(* The pool of orphans never holds more than one block above its limit; the *)
(* set that PruneOrphanBlocks picks its victim from holds nothing that has  *)
(* been freed and is not empty when its last element is read; and no orphan *)
(* waits for a block the node has, nor does the node ask a peer for one:    *)
(* for every tree of blocks, every order of arrival, every limit and any    *)
(* blocks that AcceptBlock refuses.                                         *)
THEOREM OrphansKept ==
  ASSUME OrphansAssumption
  PROVE  OrphansSpec => []OrphansAgree
<1>1. OrphansInit => PoolInv
  <2>1. IsFiniteSet({}) /\ Cardinality({}) = 0
    BY FS_EmptySet
  <2>2. ~(0 > MaxOrphans) /\ 0 <= MaxOrphans + 1
    BY DEF OrphansAssumption
  <2> SUFFICES ASSUME OrphansInit PROVE PoolInv
    OBVIOUS
  <2>3. OrphansTypeOK
    BY BlockTreeAssumption DEF OrphansInit, OrphansTypeOK
  <2>4. PoolBounded /\ VictimExists
    BY <2>1, <2>2 DEF OrphansInit, PoolBounded, VictimExists, Full
  <2>5. QED  BY <2>1, <2>3, <2>4 DEF OrphansInit, PoolInv
<1>2. PoolInv /\ [OrphansNext]_orphanVars => PoolInv'
  BY PoolStep
<1>3. PoolInv => OrphansAgree
  <2> SUFFICES ASSUME PoolInv PROVE OrphansAgree
    OBVIOUS
  <2>1. ASSUME NEW o \in orphans
        PROVE  Parent[o] \notin indexed /\ Parent[GetOrphanRoot(o)] \notin indexed \cup orphans
    BY RootIsThere DEF PoolInv
  <2>2. QED  BY <2>1 DEF PoolInv, OrphansAgree, ParentsAwaited
<1>4. QED  BY <1>1, <1>2, <1>3, PTL DEF OrphansSpec

-----------------------------------------------------------------------------
(* Layered caches. *)

(* The transactions of a log run one after the other. *)
InOrder(l) == \A i, j \in DOMAIN l : i < j => l[i].tx <= l[j].tx

(* What a read finds in the layers, from the top down. *)
ReadsDown ==
  \A k \in Key :
    /\ BaseValue(k) = (IF base[k] = Absent THEN db[k] ELSE base[k])
    /\ OverValue(k) = (IF over[k] = Absent THEN BaseValue(k) ELSE over[k])
    /\ BaseValue(k) \in Stored /\ OverValue(k) \in Stored

CacheInv ==
  /\ TypeOK
  /\ LogLeadsBack
  /\ UndoChains
  /\ InOrder(log)
  /\ \A b \in DOMAIN undo : InOrder(undo[b])

-----------------------------------------------------------------------------
(* Reads. *)

(* Types of the constants, and that the three kinds of entry differ. *)
LEMMA KeyFacts ==
  ASSUME CacheAssumption
  PROVE  /\ Empty \in Stored /\ Absent \notin Stored
         /\ MaxTx \in Nat
BY DEF CacheAssumption, LayersAssumption, Stored

(* Copying on the way does not change what is read. *)
LEMMA Reads ==
  ASSUME CacheAssumption
  PROVE  TypeOK => ReadsDown
<1> SUFFICES ASSUME TypeOK, NEW k \in Key
             PROVE  /\ BaseValue(k) = (IF base[k] = Absent THEN db[k] ELSE base[k])
                    /\ OverValue(k) = (IF over[k] = Absent THEN BaseValue(k) ELSE over[k])
                    /\ BaseValue(k) \in Stored /\ OverValue(k) \in Stored
  BY DEF ReadsDown
<1>1. /\ db[k] \in Stored /\ base[k] \in Stored \cup {Absent}
      /\ over[k] \in Stored \cup {Absent} /\ Empty \in Stored /\ Absent \notin Stored
      /\ base \in [Key -> Stored \cup {Absent}] /\ over \in [Key -> Stored \cup {Absent}]
  BY KeyFacts DEF TypeOK, Layer
<1>2. BaseWith(k)[k] = (IF base[k] = Absent /\ db[k] # Empty THEN db[k] ELSE base[k])
  BY <1>1 DEF BaseWith
<1>3. OverWith(k)[k] = (IF over[k] = Absent THEN BaseWith(k)[k] ELSE over[k])
  BY <1>1 DEF OverWith
<1>4. BaseValue(k) = (IF base[k] = Absent THEN db[k] ELSE base[k])
  BY <1>1, <1>2 DEF BaseValue, OrEmpty
<1>5. OverValue(k) = (IF over[k] = Absent THEN BaseValue(k) ELSE over[k])
  BY <1>1, <1>3 DEF OverValue, BaseValue, OrEmpty
<1> QED
  BY <1>1, <1>4, <1>5

(* The same of the reads after a step. *)
LEMMA ReadsNext ==
  ASSUME CacheAssumption
  PROVE  TypeOK' => ReadsDown'
<1>1. TypeOK => ReadsDown
  BY Reads
<1> QED
  BY <1>1, PTL

(* Copies of what a read finds are entries of the layer. *)
LEMMA CopiesTyped ==
  ASSUME CacheAssumption, TypeOK, NEW k \in Key
  PROVE  /\ BaseWith(k) \in Layer /\ OverWith(k) \in Layer
         /\ \A j \in Key : BaseWith(k)[j] =
              (IF j = k /\ base[k] = Absent /\ db[k] # Empty THEN db[k] ELSE base[j])
         /\ \A j \in Key : OverWith(k)[j] =
              (IF j = k /\ over[k] = Absent THEN BaseWith(k)[k] ELSE over[j])
<1>1. /\ db[k] \in Stored
      /\ base \in [Key -> Stored \cup {Absent}] /\ over \in [Key -> Stored \cup {Absent}]
  BY DEF TypeOK, Layer
<1>2. BaseWith(k) \in Layer
  BY <1>1 DEF BaseWith, Layer
<1>3. BaseWith(k)[k] \in Stored \cup {Absent}
  BY <1>2 DEF Layer
<1>4. OverWith(k) \in Layer
  BY <1>1, <1>3 DEF OverWith, Layer
<1>5. \A j \in Key : BaseWith(k)[j] =
        (IF j = k /\ base[k] = Absent /\ db[k] # Empty THEN db[k] ELSE base[j])
  BY <1>1 DEF BaseWith
<1>6. \A j \in Key : OverWith(k)[j] =
        (IF j = k /\ over[k] = Absent THEN BaseWith(k)[k] ELSE over[j])
  BY <1>1 DEF OverWith
<1> QED
  BY <1>2, <1>4, <1>5, <1>6
-----------------------------------------------------------------------------
(* Operation logs. *)


(* The write n of a log is its first one of k. *)
IsFirst(l, k, n) ==
  n \in 1 .. Len(l) /\ l[n].key = k /\ \A j \in 1 .. Len(l) : l[j].key = k => n <= j

(* A log without writes of k leads from a value of k to itself. *)
LEMMA BeforeNone ==
  ASSUME NEW l \in Seq(OpLog), NEW k, NEW v, \A i \in 1 .. Len(l) : l[i].key # k
  PROVE  Before(l, k, v) = v
BY LenProperties DEF Before

(* An empty log is one. *)
LEMMA BeforeEmpty ==
  ASSUME NEW k, NEW v
  PROVE  Before(<<>>, k, v) = v
BY DEF Before

(* A log with writes of k leads to what the first write of k replaced. *)
LEMMA BeforeFirst ==
  ASSUME NEW l \in Seq(OpLog), NEW k, NEW v, NEW n, IsFirst(l, k, n)
  PROVE  Before(l, k, v) = l[n].old
<1> DEFINE ops == {j \in DOMAIN l : l[j].key = k}
<1>1. n \in ops /\ \A j \in ops : n <= j
  BY LenProperties DEF IsFirst
<1>2. \A j \in ops : j \in Nat
  BY LenProperties
<1>3. ASSUME NEW c \in ops, \A j \in ops : c <= j PROVE c = n
  BY <1>1, <1>2, <1>3
<1>4. (CHOOSE c \in ops : \A j \in ops : c <= j) = n
  BY <1>1, <1>3
<1> QED
  BY <1>1, <1>4 DEF Before

(* There is a first write of k if there is any. *)
LEMMA FirstWrite ==
  ASSUME NEW l \in Seq(OpLog), NEW k, NEW n \in 1 .. Len(l), l[n].key = k
  PROVE  \E f : IsFirst(l, k, f)
<1> DEFINE ops == {j \in 1 .. Len(l) : l[j].key = k}
<1>1. ops \in SUBSET Nat /\ ops # {}
  BY LenProperties
<1>2. PICK f \in ops : \A j \in ops : f <= j
  BY <1>1, LeastNatural
<1> QED
  BY <1>2 DEF IsFirst

(* A write appended to a log leads back to the value it replaced. *)
LEMMA BeforeAppend ==
  ASSUME NEW l \in Seq(OpLog), NEW op \in OpLog, NEW k, NEW v
  PROVE  Before(Append(l, op), k, v) = Before(l, k, IF op.key = k THEN op.old ELSE v)
<1> DEFINE m == Append(l, op)
<1>1. /\ m \in Seq(OpLog) /\ Len(m) = Len(l) + 1 /\ m[Len(l) + 1] = op
      /\ \A i \in 1 .. Len(l) : m[i] = l[i]
      /\ DOMAIN m = 1 .. Len(l) + 1 /\ DOMAIN l = 1 .. Len(l) /\ Len(l) \in Nat
  BY AppendProperties, LenProperties
<1> HIDE DEF m
<1>2. CASE \E n \in 1 .. Len(l) : l[n].key = k
  <2>1. PICK f : IsFirst(l, k, f)
    BY <1>2, FirstWrite
  <2>2. f \in 1 .. Len(l) /\ f \in 1 .. Len(m) /\ m[f] = l[f] /\ m[f].key = k
    BY <1>1, <2>1 DEF IsFirst
  <2>3. ASSUME NEW j \in 1 .. Len(m), m[j].key = k PROVE f <= j
    <3>1. CASE j \in 1 .. Len(l)
      BY <1>1, <2>1, <2>3, <3>1 DEF IsFirst
    <3>2. CASE j = Len(l) + 1
      BY <1>1, <2>2, <3>2
    <3> QED
      BY <1>1, <3>1, <3>2
  <2>4. IsFirst(m, k, f)
    BY <2>2, <2>3 DEF IsFirst
  <2>5. Before(m, k, v) = m[f].old
    BY <1>1, <2>4, BeforeFirst
  <2>6. Before(l, k, IF op.key = k THEN op.old ELSE v) = l[f].old
    BY <2>1, BeforeFirst
  <2> QED
    BY <2>2, <2>5, <2>6 DEF m
<1>3. CASE (\A n \in 1 .. Len(l) : l[n].key # k) /\ op.key = k
  <2>1. PICK f \in 1 .. Len(m) : f = Len(l) + 1
    BY <1>1
  <2>2. m[f] = op /\ IsFirst(m, k, f)
    BY <1>1, <1>3, <2>1 DEF IsFirst
  <2>3. Before(m, k, v) = op.old
    BY <1>1, <2>2, BeforeFirst
  <2> QED
    BY <1>3, <2>3, BeforeNone DEF m
<1>4. CASE (\A n \in 1 .. Len(l) : l[n].key # k) /\ op.key # k
  <2>1. \A j \in 1 .. Len(m) : m[j].key # k
    BY <1>1, <1>4
  <2>2. Before(m, k, v) = v
    BY <1>1, <2>1, BeforeNone
  <2>3. Before(l, k, v) = v
    BY <1>4, BeforeNone
  <2> QED
    BY <1>4, <2>2, <2>3 DEF m
<1> QED
  BY <1>2, <1>3, <1>4

(* A sequence without its element i. *)
LEMMA RemoveAtProperties ==
  ASSUME NEW S, NEW l \in Seq(S), NEW i \in DOMAIN l
  PROVE  /\ RemoveAt(l, i) \in Seq(S)
         /\ Len(RemoveAt(l, i)) = Len(l) - 1
         /\ \A j \in 1 .. Len(l) - 1 :
              RemoveAt(l, i)[j] = (IF j < i THEN l[j] ELSE l[j + 1])
<1> DEFINE s == SubSeq(l, 1, i - 1)
           t == SubSeq(l, i + 1, Len(l))
<1>1. Len(l) \in Nat /\ i \in 1 .. Len(l) /\ \A j \in 1 .. Len(l) : l[j] \in S
  BY LenProperties, ElementOfSeq
<1>2. /\ s \in Seq(S) /\ Len(s) = i - 1
      /\ \A j \in 1 .. i - 1 : s[j] = l[j]
  BY <1>1, SubSeqProperties
<1>3. /\ t \in Seq(S) /\ Len(t) = Len(l) - i
      /\ \A j \in 1 .. Len(l) - i : t[j] = l[i + j]
  <2>1. /\ t \in Seq(S) /\ Len(t) = (IF i + 1 <= Len(l) THEN Len(l) - (i + 1) + 1 ELSE 0)
        /\ \A j \in 1 .. Len(l) - (i + 1) + 1 : t[j] = l[(i + 1) + j - 1]
    BY <1>1, SubSeqProperties
  <2> HIDE DEF t
  <2> QED
    BY <1>1, <2>1
<1> HIDE DEF s, t
<1>4. /\ s \o t \in Seq(S) /\ Len(s \o t) = Len(s) + Len(t)
      /\ \A j \in 1 .. Len(s) + Len(t) :
           (s \o t)[j] = (IF j <= Len(s) THEN s[j] ELSE t[j - Len(s)])
  BY <1>2, <1>3, ConcatProperties
<1>5. \A j \in 1 .. Len(l) - 1 : (s \o t)[j] = (IF j < i THEN l[j] ELSE l[j + 1])
  <2> SUFFICES ASSUME NEW j \in 1 .. Len(l) - 1
               PROVE  (s \o t)[j] = (IF j < i THEN l[j] ELSE l[j + 1])
    OBVIOUS
  <2> DEFINE n == Len(l)
  <2>0. /\ n \in Nat /\ i \in 1 .. n /\ j \in 1 .. n - 1
        /\ Len(s) = i - 1 /\ Len(t) = n - i /\ j \in 1 .. Len(s) + Len(t)
    BY <1>1, <1>2, <1>3
  <2>3. (s \o t)[j] = (IF j <= i - 1 THEN s[j] ELSE t[j - (i - 1)])
    BY <1>4, <2>0
  <2> HIDE DEF n
  <2>1. CASE j < i
    <3>1. j \in 1 .. i - 1
      BY <2>0, <2>1
    <3> QED
      BY <1>2, <2>1, <2>3, <3>1
  <2>2. CASE ~(j < i)
    <3>1. /\ j - (i - 1) \in 1 .. Len(l) - i
          /\ i + (j - (i - 1)) = j + 1
      BY <1>1, <2>2
    <3>2. t[j - (i - 1)] = l[j + 1]
      BY <1>3, <3>1
    <3> QED
      BY <2>0, <2>2, <2>3, <3>2
  <2> QED
    BY <2>1, <2>2
<1>6. RemoveAt(l, i) = s \o t
  BY DEF RemoveAt, s, t
<1>7. Len(s \o t) = Len(l) - 1
  BY <1>1, <1>2, <1>3, <1>4
<1> QED
  BY <1>4, <1>5, <1>6, <1>7

(***************************************************************************)
(* The last write of a key that is left may be undone at once: the rest of *)
(* the log leads back from the value it replaced to the same value.        *)
(***************************************************************************)
LEMMA BeforeRemove ==
  ASSUME NEW l \in Seq(OpLog), NEW i \in 1 .. Len(l),
         \A j \in 1 .. Len(l) : j > i => l[j].key # l[i].key,
         NEW k, NEW v
  PROVE  Before(RemoveAt(l, i), k, IF k = l[i].key THEN l[i].old ELSE v) = Before(l, k, v)
<1> DEFINE m == RemoveAt(l, i)
           w == IF k = l[i].key THEN l[i].old ELSE v
<1>1. /\ m \in Seq(OpLog) /\ Len(m) = Len(l) - 1 /\ Len(l) \in Nat
      /\ \A j \in 1 .. Len(l) - 1 : m[j] = (IF j < i THEN l[j] ELSE l[j + 1])
  <2>1. i \in DOMAIN l /\ Len(l) \in Nat
    BY LenProperties
  <2> QED
    BY <2>1, RemoveAtProperties
<1> HIDE DEF m, w
<1>2. ASSUME NEW f, IsFirst(l, k, f), f # i
      PROVE  Before(m, k, w) = l[f].old
  <2>0. f \in 1 .. Len(l) /\ l[f].key = k /\ \A j \in 1 .. Len(l) : l[j].key = k => f <= j
    BY <1>2 DEF IsFirst
  <2>1. CASE f < i
    <3>1. f \in 1 .. Len(m) /\ m[f] = l[f]
      BY <1>1, <2>0, <2>1
    <3>2. ASSUME NEW j \in 1 .. Len(m), m[j].key = k PROVE f <= j
      <4>1. CASE j < i
        <5>1. m[j] = l[j] /\ j \in 1 .. Len(l)
          BY <1>1, <4>1
        <5> QED
          BY <2>0, <3>2, <5>1
      <4>2. CASE ~(j < i)
        BY <2>0, <2>1, <4>2
      <4> QED
        BY <4>1, <4>2
    <3>3. IsFirst(m, k, f)
      BY <2>0, <3>1, <3>2 DEF IsFirst
    <3>4. Before(m, k, w) = m[f].old
      BY <1>1, <3>3, BeforeFirst
    <3> QED
      BY <3>1, <3>4
  <2>2. CASE f > i
    <3>1. PICK g \in 1 .. Len(m) : g = f - 1
      BY <1>1, <2>0, <2>2
    <3>2. m[g] = l[f]
      BY <1>1, <2>0, <2>2, <3>1
    <3>3. ASSUME NEW j \in 1 .. Len(m), m[j].key = k PROVE g <= j
      <4>1. CASE j < i
        <5>1. m[j] = l[j] /\ j \in 1 .. Len(l)
          BY <1>1, <4>1
        <5> QED
          BY <2>0, <3>1, <3>3, <5>1
      <4>2. CASE ~(j < i)
        <5>1. m[j] = l[j + 1] /\ j + 1 \in 1 .. Len(l)
          BY <1>1, <4>2
        <5>2. f <= j + 1
          BY <2>0, <3>3, <5>1
        <5> QED
          BY <2>0, <3>1, <5>2
      <4> QED
        BY <4>1, <4>2
    <3>4. IsFirst(m, k, g)
      BY <2>0, <3>2, <3>3 DEF IsFirst
    <3>5. Before(m, k, w) = m[g].old
      BY <1>1, <3>4, BeforeFirst
    <3> QED
      BY <3>2, <3>5
  <2> QED
    BY <1>2, <2>0, <2>1, <2>2
<1>3. CASE IsFirst(l, k, i)
  <2>0. l[i].key = k /\ \A j \in 1 .. Len(l) : l[j].key = k => i <= j
    BY <1>3 DEF IsFirst
  <2>1. \A j \in 1 .. Len(m) : m[j].key # k
    <3> SUFFICES ASSUME NEW j \in 1 .. Len(m), m[j].key = k PROVE FALSE
      OBVIOUS
    <3>1. CASE j < i
      <4>1. m[j] = l[j] /\ j \in 1 .. Len(l)
        BY <1>1, <3>1
      <4> QED
        BY <2>0, <3>1, <4>1
    <3>2. CASE ~(j < i)
      <4>1. m[j] = l[j + 1] /\ j + 1 \in 1 .. Len(l) /\ j + 1 > i
        BY <1>1, <3>2
      <4> QED
        BY <2>0, <4>1
    <3> QED
      BY <3>1, <3>2
  <2>2. Before(m, k, w) = l[i].old
    BY <1>1, <2>0, <2>1, BeforeNone DEF w
  <2>3. Before(l, k, v) = l[i].old
    BY <1>3, BeforeFirst
  <2> QED
    BY <2>2, <2>3 DEF m, w
<1>4. CASE ~IsFirst(l, k, i) /\ \E n \in 1 .. Len(l) : l[n].key = k
  <2>1. PICK f : IsFirst(l, k, f)
    BY <1>4, FirstWrite
  <2>2. f # i
    BY <1>4, <2>1
  <2>3. Before(m, k, w) = l[f].old
    BY <1>2, <2>1, <2>2
  <2>4. Before(l, k, v) = l[f].old
    BY <2>1, BeforeFirst
  <2> QED
    BY <2>3, <2>4 DEF m, w
<1>5. CASE \A n \in 1 .. Len(l) : l[n].key # k
  <2>1. \A j \in 1 .. Len(m) : m[j].key # k
    <3> SUFFICES ASSUME NEW j \in 1 .. Len(m) PROVE m[j].key # k
      OBVIOUS
    <3>1. \E n \in 1 .. Len(l) : m[j] = l[n]
      BY <1>1
    <3> QED
      BY <1>5, <3>1
  <2>2. Before(m, k, w) = w /\ Before(l, k, v) = v
    BY <1>1, <1>5, <2>1, BeforeNone
  <2> QED
    BY <1>5, <2>2 DEF m, w
<1> QED
  BY <1>3, <1>4, <1>5

(* The write that is undone next is the last one of its key. *)
LEMMA NextUndoIsLast ==
  ASSUME NEW l \in Seq(OpLog), l = log, InOrder(l), NEW i \in 1 .. Len(l), NextUndo(i)
  PROVE  \A j \in 1 .. Len(l) : j > i => l[j].key # l[i].key
<1> SUFFICES ASSUME NEW j \in 1 .. Len(l), j > i, l[j].key = l[i].key PROVE FALSE
  OBVIOUS
<1>1. i \in DOMAIN l /\ j \in DOMAIN l /\ l[i] \in OpLog /\ l[j] \in OpLog
  BY LenProperties, ElementOfSeq
<1>2. l[i].tx <= l[j].tx /\ l[j].tx <= l[i].tx
  BY <1>1 DEF InOrder, NextUndo
<1>3. l[i].tx = l[j].tx
  BY <1>1, <1>2 DEF OpLog
<1> QED
  BY <1>1, <1>3 DEF NextUndo

(* A log stays in order when a write is undone. *)
LEMMA RemoveInOrder ==
  ASSUME NEW l \in Seq(OpLog), InOrder(l), NEW i \in 1 .. Len(l)
  PROVE  InOrder(RemoveAt(l, i)) /\ RemoveAt(l, i) \in Seq(OpLog)
<1> DEFINE m == RemoveAt(l, i)
<1>1. /\ m \in Seq(OpLog) /\ Len(m) = Len(l) - 1 /\ Len(l) \in Nat
      /\ DOMAIN m = 1 .. Len(m) /\ DOMAIN l = 1 .. Len(l)
      /\ \A j \in 1 .. Len(l) - 1 : m[j] = (IF j < i THEN l[j] ELSE l[j + 1])
  <2>1. i \in DOMAIN l /\ Len(l) \in Nat
    BY LenProperties
  <2> QED
    BY <2>1, RemoveAtProperties, LenProperties
<1> HIDE DEF m
<1>2. ASSUME NEW a \in 1 .. Len(m), NEW b \in 1 .. Len(m), a < b
      PROVE  m[a].tx <= m[b].tx
  <2>1. PICK x \in 1 .. Len(l) : m[a] = l[x] /\ x = (IF a < i THEN a ELSE a + 1)
    BY <1>1
  <2>2. PICK y \in 1 .. Len(l) : m[b] = l[y] /\ y = (IF b < i THEN b ELSE b + 1)
    BY <1>1
  <2>3. x < y
    BY <1>2, <2>1, <2>2
  <2> QED
    BY <1>1, <2>1, <2>2, <2>3 DEF InOrder
<1> QED
  BY <1>1, <1>2 DEF InOrder, m

(* And when a write of the running transaction or a later one is appended. *)
LEMMA AppendInOrder ==
  ASSUME CacheAssumption, NEW l \in Seq(OpLog), InOrder(l), NEW op \in OpLog,
         l # <<>> => op.tx >= Last(l).tx
  PROVE  InOrder(Append(l, op)) /\ Append(l, op) \in Seq(OpLog)
<1> DEFINE m == Append(l, op)
<1>1. /\ m \in Seq(OpLog) /\ Len(m) = Len(l) + 1 /\ Len(l) \in Nat
      /\ m[Len(l) + 1] = op /\ \A i \in 1 .. Len(l) : m[i] = l[i]
      /\ DOMAIN m = 1 .. Len(l) + 1 /\ DOMAIN l = 1 .. Len(l)
  BY AppendProperties, LenProperties
<1>2. \A i \in 1 .. Len(l) : l[i] \in OpLog /\ l[i].tx \in Nat
  <2>1. \A op2 \in OpLog : op2.tx \in Nat
    BY DEF OpLog
  <2> QED
    BY <2>1, ElementOfSeq
<1>3. op.tx \in Nat
  BY DEF OpLog
<1> HIDE DEF m
<1>4. ASSUME NEW a \in 1 .. Len(l) + 1, NEW b \in 1 .. Len(l) + 1, a < b
      PROVE  m[a].tx <= m[b].tx
  <2>1. a \in 1 .. Len(l) /\ m[a] = l[a]
    BY <1>1, <1>4
  <2>2. CASE b \in 1 .. Len(l)
    BY <1>1, <1>4, <2>1, <2>2 DEF InOrder
  <2>3. CASE b = Len(l) + 1
    <3>1. l # <<>> /\ Len(l) \in 1 .. Len(l)
      BY <1>1, <2>1
    <3>2. l[Len(l)].tx <= op.tx /\ l[Len(l)].tx \in Nat
      BY <1>2, <1>3, <3>1 DEF Last
    <3>3. l[a].tx <= l[Len(l)].tx
      <4>1. CASE a = Len(l)
        BY <3>2, <4>1
      <4>2. CASE a < Len(l)
        BY <1>1, <2>1, <3>1, <4>2 DEF InOrder
      <4> QED
        BY <1>1, <2>1, <4>1, <4>2
    <3> QED
      BY <1>1, <1>2, <1>3, <2>1, <2>3, <3>2, <3>3
  <2> QED
    BY <1>1, <2>2, <2>3
<1> QED
  BY <1>1, <1>4 DEF InOrder, m

(* The last element of a sequence and the others. *)
LEMMA FrontLast ==
  ASSUME NEW S, NEW s \in Seq(S), s # <<>>
  PROVE  /\ Front(s) \in Seq(S) /\ Len(Front(s)) = Len(s) - 1 /\ Len(s) \in Nat \ {0}
         /\ \A i \in 1 .. Len(s) - 1 : Front(s)[i] = s[i]
         /\ DOMAIN Front(s) = 1 .. Len(s) - 1
         /\ Last(s) = s[Len(s)] /\ Last(s) \in S
<1>1. Len(s) \in Nat \ {0} /\ \A j \in 1 .. Len(s) : s[j] \in S
  BY EmptySeq, ElementOfSeq
<1>2. /\ Front(s) \in Seq(S) /\ Len(Front(s)) = Len(s) - 1
      /\ \A i \in 1 .. Len(s) - 1 : Front(s)[i] = s[i]
  <2> DEFINE n == Len(s) - 1
             f == SubSeq(s, 1, n)
  <2>1. n \in Nat /\ \A i \in 1 .. n : s[i] \in S
    BY <1>1
  <2> HIDE DEF n
  <2>2. /\ f \in Seq(S) /\ Len(f) = (IF 1 <= n THEN n - 1 + 1 ELSE 0)
        /\ \A i \in 1 .. n - 1 + 1 : f[i] = s[1 + i - 1]
    BY <2>1, SubSeqProperties
  <2> HIDE DEF f
  <2>3. f \in Seq(S) /\ Len(f) = n /\ \A i \in 1 .. n : f[i] = s[i]
    BY <2>1, <2>2
  <2> QED
    BY <2>3 DEF Front, f, n
<1> QED
  BY <1>1, <1>2, LenProperties DEF Last
-----------------------------------------------------------------------------
(* Steps. *)

LogVars == <<mode, log, undo, past>>

(* A step that changes no read and no log changes nothing of the promise. *)
LEMMA SameReads ==
  ASSUME CacheInv, TypeOK', UNCHANGED LogVars,
         \A k \in Key : BaseValue(k)' = BaseValue(k) /\ OverValue(k)' = OverValue(k)
  PROVE  CacheInv' /\ UNCHANGED Promise!vars
<1>1. mode' = mode /\ log' = log /\ undo' = undo /\ past' = past
  BY DEF LogVars
<1>2. LogLeadsBack'
  BY <1>1 DEF CacheInv, LogLeadsBack
<1>3. UndoChains'
  BY <1>1 DEF CacheInv, UndoChains
<1>4. Ledger' = Ledger /\ Overlay' = Overlay
  BY DEF Ledger, Overlay
<1> QED
  BY <1>1, <1>2, <1>3, <1>4 DEF CacheInv, InOrder, Promise!vars

(* GetData *)
LEMMA GetDataStep ==
  ASSUME CacheAssumption, CacheInv, NEW k \in Key, GetData(k)
  PROVE  CacheInv' /\ UNCHANGED Promise!vars
<1>1. /\ base' = BaseWith(k) /\ over' = OverWith(k) /\ UNCHANGED LogVars /\ db' = db
      /\ TypeOK
  BY DEF GetData, LogVars, CacheInv
<1>2. TypeOK'
  BY <1>1, CopiesTyped DEF TypeOK, LogVars
<1>3. ReadsDown /\ ReadsDown'
  BY <1>1, <1>2, Reads, ReadsNext
<1>4. \A j \in Key : BaseValue(j)' = BaseValue(j)
  BY <1>1, <1>3, CopiesTyped, KeyFacts DEF ReadsDown
<1>5. \A j \in Key : OverValue(j)' = OverValue(j)
  BY <1>1, <1>3, <1>4, CopiesTyped, KeyFacts DEF ReadsDown
<1> QED
  BY <1>1, <1>2, <1>4, <1>5, SameReads

(* FlushBase *)
LEMMA FlushStep ==
  ASSUME CacheAssumption, CacheInv, FlushBase
  PROVE  CacheInv' /\ UNCHANGED Promise!vars
<1>1. /\ base' = NoEntry /\ over' = over /\ UNCHANGED LogVars /\ db' = FlushedBase
      /\ TypeOK
  BY DEF FlushBase, LogVars, CacheInv
<1>2. TypeOK'
  BY <1>1 DEF TypeOK, LogVars, FlushedBase, NoEntry, Layer
<1>3. ReadsDown /\ ReadsDown'
  BY <1>1, <1>2, Reads, ReadsNext
<1>4. \A j \in Key : BaseValue(j)' = BaseValue(j)
  BY <1>1, <1>3 DEF ReadsDown, NoEntry, FlushedBase
<1>5. \A j \in Key : OverValue(j)' = OverValue(j)
  BY <1>1, <1>3, <1>4 DEF ReadsDown
<1> QED
  BY <1>1, <1>2, <1>4, <1>5, SameReads

(* BeginConnect *)
LEMMA BeginConnectStep ==
  ASSUME CacheAssumption, CacheInv, BeginConnect
  PROVE  CacheInv' /\ Promise!Begin
<1>1. /\ mode = "idle" /\ mode' = "connect" /\ over' = NoEntry /\ log' = <<>>
      /\ db' = db /\ base' = base /\ past' = past /\ undo' = undo /\ TypeOK
  BY DEF BeginConnect, Begin, CacheInv
<1>2. TypeOK'
  BY <1>1, EmptySeq DEF TypeOK, NoEntry, Layer
<1>3. ReadsDown /\ ReadsDown'
  BY <1>1, <1>2, Reads, ReadsNext
<1>4. \A j \in Key : BaseValue(j)' = BaseValue(j) /\ OverValue(j)' = BaseValue(j)
  BY <1>1, <1>3 DEF ReadsDown, NoEntry
<1>6. LogLeadsBack'
  <2>1. ASSUME NEW k \in Key PROVE Before(<<>>, k, OverValue(k)') = OverValue(k)'
    BY BeforeEmpty
  <2> QED
    BY <1>1, <1>4, <2>1 DEF LogLeadsBack
<1>7. UndoChains'
  BY <1>1, <1>4 DEF CacheInv, UndoChains
<1>8. InOrder(log') /\ \A b \in DOMAIN undo' : InOrder(undo'[b])
  BY <1>1 DEF CacheInv, InOrder
<1>9. Ledger' = Ledger /\ Overlay' = Ledger
  BY <1>4 DEF Ledger, Overlay
<1> QED
  BY <1>1, <1>2, <1>6, <1>7, <1>8, <1>9 DEF CacheInv, Promise!Begin

(* SetData and EraseData *)
LEMMA WriteStep ==
  ASSUME CacheAssumption, CacheInv, NEW t \in 1 .. MaxTx, NEW k \in Key, NEW v \in Stored,
         SetData(t, k, v) \/ (EraseData(t, k) /\ v = Empty)
  PROVE  CacheInv' /\ Promise!Put(k, v)
<1> DEFINE op == [tx |-> t, key |-> k, old |-> OldValue(k)]
<1>1. /\ mode = "connect" /\ mode' = mode /\ MayLog(t)
      /\ base' = BaseWith(k) /\ over' = [over EXCEPT ![k] = v] /\ log' = Append(log, op)
      /\ db' = db /\ undo' = undo /\ past' = past /\ TypeOK
  BY DEF SetData, EraseData, CacheInv
<1>2. ReadsDown
  BY <1>1, Reads
<1>3. op \in OpLog /\ op.tx = t /\ op.key = k /\ op.old = OverValue(k)
  BY <1>2 DEF OpLog, OldValue, ReadsDown
<1> HIDE DEF op
<1>4. log \in Seq(OpLog) /\ InOrder(log) /\ (log # <<>> => op.tx >= Last(log).tx)
  BY <1>1, <1>3 DEF CacheInv, TypeOK, MayLog
<1>5. InOrder(log') /\ log' \in Seq(OpLog)
  BY <1>1, <1>3, <1>4, AppendInOrder
<1>6. over' \in Layer /\ \A j \in Key : over'[j] = (IF j = k THEN v ELSE over[j])
  BY <1>1 DEF TypeOK, Layer
<1>7. TypeOK'
  BY <1>1, <1>5, <1>6, CopiesTyped DEF TypeOK
<1>8. ReadsDown'
  BY <1>7, ReadsNext
<1>9. \A j \in Key : BaseValue(j)' = BaseValue(j)
  BY <1>1, <1>2, <1>8, CopiesTyped, KeyFacts DEF ReadsDown
<1>10. \A j \in Key : OverValue(j)' = (IF j = k THEN v ELSE OverValue(j))
  BY <1>2, <1>6, <1>8, <1>9, KeyFacts DEF ReadsDown
<1>11. LogLeadsBack'
  <2>1. ASSUME NEW j \in Key PROVE Before(log', j, OverValue(j)') = BaseValue(j)'
    <3>1. Before(log', j, OverValue(j)')
            = Before(log, j, IF k = j THEN OverValue(k) ELSE OverValue(j)')
      BY <1>1, <1>3, <1>4, BeforeAppend
    <3>2. (IF k = j THEN OverValue(k) ELSE OverValue(j)') = OverValue(j)
      BY <1>10
    <3>3. Before(log, j, OverValue(j)) = BaseValue(j)
      BY <1>1 DEF CacheInv, LogLeadsBack
    <3> QED
      BY <1>9, <3>1, <3>2, <3>3
  <2> QED
    BY <1>1, <2>1 DEF LogLeadsBack
<1>12. UndoChains'
  BY <1>1, <1>9 DEF CacheInv, UndoChains
<1>13. \A b \in DOMAIN undo' : InOrder(undo'[b])
  BY <1>1 DEF CacheInv, InOrder
<1>14. Ledger' = Ledger /\ Overlay' = [Overlay EXCEPT ![k] = v]
  BY <1>9, <1>10 DEF Ledger, Overlay
<1> QED
  BY <1>1, <1>5, <1>7, <1>11, <1>12, <1>13, <1>14 DEF CacheInv, Promise!Put

(* DropOverlay *)
LEMMA DropStep ==
  ASSUME CacheAssumption, CacheInv, DropOverlay
  PROVE  CacheInv' /\ Promise!Abort
<1>1. /\ mode = "connect" /\ mode' = "idle" /\ over' = NoEntry /\ log' = <<>>
      /\ db' = db /\ base' = base /\ past' = past /\ undo' = undo /\ TypeOK
  BY DEF DropOverlay, CacheInv
<1>2. TypeOK'
  BY <1>1, EmptySeq DEF TypeOK, NoEntry, Layer
<1>3. ReadsDown /\ ReadsDown'
  BY <1>1, <1>2, Reads, ReadsNext
<1>4. \A j \in Key : BaseValue(j)' = BaseValue(j)
  BY <1>1, <1>3 DEF ReadsDown
<1>5. LogLeadsBack'
  BY <1>1 DEF LogLeadsBack
<1>6. UndoChains'
  BY <1>1, <1>4 DEF CacheInv, UndoChains
<1>7. InOrder(log') /\ \A b \in DOMAIN undo' : InOrder(undo'[b])
  BY <1>1 DEF CacheInv, InOrder
<1>8. Ledger' = Ledger
  BY <1>4 DEF Ledger
<1> QED
  BY <1>1, <1>2, <1>5, <1>6, <1>7, <1>8 DEF CacheInv, Promise!Abort

(* The overlay is flushed: the ledger becomes what the overlay shows. *)
LEMMA FlushedReads ==
  ASSUME CacheAssumption, TypeOK, TypeOK', base' = FlushedOver, db' = db
  PROVE  \A k \in Key : BaseValue(k)' = OverValue(k)
<1>1. ReadsDown /\ ReadsDown'
  BY Reads, ReadsNext
<1> QED
  BY <1>1 DEF ReadsDown, FlushedOver

(* CommitBlock *)
LEMMA CommitStep ==
  ASSUME CacheAssumption, CacheInv, CommitBlock
  PROVE  CacheInv' /\ Promise!Commit
<1>1. /\ mode = "connect" /\ mode' = "idle" /\ base' = FlushedOver /\ over' = NoEntry
      /\ log' = <<>> /\ undo' = Append(undo, log) /\ past' = Append(past, Ledger)
      /\ db' = db /\ TypeOK
  BY DEF CommitBlock, BlockUndo, Ledger, CacheInv
<1>2. ReadsDown
  BY <1>1, Reads
<1>3. /\ log \in Seq(OpLog) /\ undo \in Seq(Seq(OpLog)) /\ past \in Seq([Key -> Stored])
      /\ Ledger \in [Key -> Stored] /\ \A k \in Key : Ledger[k] = BaseValue(k)
  BY <1>1, <1>2 DEF TypeOK, Ledger, ReadsDown
<1>4. FlushedOver \in Layer
  BY <1>1 DEF TypeOK, FlushedOver, Layer
<1>5. /\ undo' \in Seq(Seq(OpLog)) /\ Len(undo') = Len(undo) + 1 /\ Len(undo) \in Nat
      /\ undo'[Len(undo) + 1] = log /\ \A b \in 1 .. Len(undo) : undo'[b] = undo[b]
      /\ DOMAIN undo' = 1 .. Len(undo) + 1 /\ DOMAIN undo = 1 .. Len(undo)
  BY <1>1, <1>3, AppendProperties, LenProperties
<1>6. /\ past' \in Seq([Key -> Stored]) /\ Len(past') = Len(past) + 1 /\ Len(past) \in Nat
      /\ past'[Len(past) + 1] = Ledger /\ \A b \in 1 .. Len(past) : past'[b] = past[b]
  BY <1>1, <1>3, AppendProperties, LenProperties
<1>7. TypeOK'
  BY <1>1, <1>4, <1>5, <1>6, EmptySeq DEF TypeOK, NoEntry, Layer
<1>8. \A k \in Key : BaseValue(k)' = OverValue(k)
  BY <1>1, <1>7, FlushedReads
<1>9. LogLeadsBack'
  BY <1>1 DEF LogLeadsBack
<1>10. Len(past) = Len(undo)
  BY <1>1, <1>5 DEF CacheInv, UndoChains
<1>11. UndoChains'
  <2>1. Len(past') = Len(undo') + 0
    BY <1>5, <1>6, <1>10
  <2>2. ASSUME NEW b \in DOMAIN undo', NEW k \in Key
        PROVE  Before(undo'[b], k, IF b = Len(past') THEN BaseValue(k)' ELSE past'[b + 1][k])
                 = past'[b][k]
    <3>1. CASE b = Len(undo) + 1
      <4>1. Before(log, k, OverValue(k)) = BaseValue(k)
        BY <1>1 DEF CacheInv, LogLeadsBack
      <4> QED
        BY <1>3, <1>5, <1>6, <1>8, <1>10, <3>1, <4>1
    <3>2. CASE b \in 1 .. Len(undo)
      <4>1. Before(undo[b], k, IF b = Len(past) THEN BaseValue(k) ELSE past[b + 1][k])
              = past[b][k]
        BY <1>5, <3>2 DEF CacheInv, UndoChains
      <4>2. past'[b + 1][k] = (IF b = Len(past) THEN BaseValue(k) ELSE past[b + 1][k])
        <5>1. CASE b = Len(past)
          BY <1>3, <1>6, <5>1
        <5>2. CASE b # Len(past)
          <6>1. b + 1 \in 1 .. Len(past)
            BY <1>5, <1>10, <3>2, <5>2
          <6> QED
            BY <1>6, <5>2, <6>1
        <5> QED
          BY <5>1, <5>2
      <4>3. b # Len(past') /\ undo'[b] = undo[b] /\ past'[b] = past[b]
        BY <1>5, <1>6, <1>10, <3>2
      <4> QED
        BY <4>1, <4>2, <4>3
    <3> QED
      BY <1>5, <3>1, <3>2
  <2> QED
    BY <1>1, <2>1, <2>2 DEF UndoChains
<1>12. InOrder(log') /\ \A b \in DOMAIN undo' : InOrder(undo'[b])
  BY <1>1, <1>5 DEF CacheInv, InOrder
<1>13. Ledger' = Overlay
  BY <1>8 DEF Ledger, Overlay
<1> QED
  BY <1>1, <1>7, <1>9, <1>11, <1>12, <1>13 DEF CacheInv, Promise!Commit

(* BeginDisconnect *)
LEMMA BeginDisconnectStep ==
  ASSUME CacheAssumption, CacheInv, BeginDisconnect
  PROVE  CacheInv' /\ UNCHANGED Promise!vars
<1>1. /\ mode = "idle" /\ mode' = "disconnect" /\ over' = NoEntry /\ undo # <<>>
      /\ log' = Last(undo) /\ undo' = Front(undo) /\ past' = past
      /\ db' = db /\ base' = base /\ TypeOK
  BY DEF BeginDisconnect, Begin, CacheInv
<1>2. undo \in Seq(Seq(OpLog)) /\ past \in Seq([Key -> Stored])
  BY <1>1 DEF TypeOK
<1>3. /\ undo' \in Seq(Seq(OpLog)) /\ Len(undo') = Len(undo) - 1 /\ Len(undo) \in Nat \ {0}
      /\ \A b \in 1 .. Len(undo) - 1 : undo'[b] = undo[b]
      /\ DOMAIN undo' = 1 .. Len(undo) - 1 /\ DOMAIN undo = 1 .. Len(undo)
      /\ log' = undo[Len(undo)] /\ log' \in Seq(OpLog)
  BY <1>1, <1>2, FrontLast, LenProperties
<1>4. TypeOK'
  BY <1>1, <1>3 DEF TypeOK, NoEntry, Layer
<1>5. ReadsDown /\ ReadsDown'
  BY <1>1, <1>4, Reads, ReadsNext
<1>6. \A j \in Key : BaseValue(j)' = BaseValue(j) /\ OverValue(j)' = BaseValue(j)
  BY <1>1, <1>5 DEF ReadsDown, NoEntry
<1>7. Len(past) = Len(undo) /\ Last(past) = past[Len(past)]
  BY <1>1, <1>3 DEF CacheInv, UndoChains, Last
<1>8. LogLeadsBack'
  <2>1. ASSUME NEW k \in Key PROVE Before(log', k, OverValue(k)') = Last(past')[k]
    <3>1. Len(undo) \in DOMAIN undo
      BY <1>3
    <3>2. Before(undo[Len(undo)], k, BaseValue(k)) = past[Len(undo)][k]
      BY <1>7, <3>1 DEF CacheInv, UndoChains
    <3> QED
      BY <1>1, <1>3, <1>6, <1>7, <3>2
  <2> QED
    BY <1>1, <2>1 DEF LogLeadsBack
<1>9. UndoChains'
  <2>1. ASSUME NEW b \in DOMAIN undo', NEW k \in Key
        PROVE  Before(undo'[b], k, IF b = Len(past') THEN BaseValue(k)' ELSE past'[b + 1][k])
                 = past'[b][k]
    <3>1. b \in DOMAIN undo /\ b # Len(past) /\ undo'[b] = undo[b]
      BY <1>3, <1>7
    <3>2. Before(undo[b], k, past[b + 1][k]) = past[b][k]
      BY <3>1 DEF CacheInv, UndoChains
    <3> QED
      BY <1>1, <3>1, <3>2
  <2>2. Len(past') = Len(undo') + 1
    BY <1>1, <1>3, <1>7
  <2> QED
    BY <1>1, <2>1, <2>2 DEF UndoChains
<1>10. InOrder(log') /\ \A b \in DOMAIN undo' : InOrder(undo'[b])
  <2>1. Len(undo) \in DOMAIN undo /\ \A b \in DOMAIN undo' : b \in DOMAIN undo
    BY <1>3
  <2> QED
    BY <1>3, <2>1 DEF CacheInv
<1>11. Ledger' = Ledger
  BY <1>6 DEF Ledger
<1> QED
  BY <1>1, <1>4, <1>8, <1>9, <1>10, <1>11 DEF CacheInv, Promise!vars

(* UndoData: whatever the order of the caches, what is left leads back. *)
LEMMA UndoStep ==
  ASSUME CacheAssumption, CacheInv, NEW i \in DOMAIN log, UndoData(i)
  PROVE  CacheInv' /\ UNCHANGED Promise!vars
<1> DEFINE key == log[i].key
           old == log[i].old
<1>1. /\ mode = "disconnect" /\ mode' = mode /\ NextUndo(i)
      /\ over' = [over EXCEPT ![key] = old] /\ log' = RemoveAt(log, i)
      /\ db' = db /\ base' = base /\ undo' = undo /\ past' = past /\ TypeOK
  BY DEF UndoData, CacheInv
<1>2. /\ log \in Seq(OpLog) /\ i \in 1 .. Len(log) /\ log[i] \in OpLog /\ InOrder(log)
      /\ log[i].key = key /\ log[i].old = old
  BY <1>1, LenProperties, ElementOfSeq DEF TypeOK, CacheInv
<1>3. key \in Key /\ old \in Stored
  BY <1>2 DEF OpLog
<1> HIDE DEF key, old
<1>4. \A j \in 1 .. Len(log) : j > i => log[j].key # log[i].key
  BY <1>1, <1>2, NextUndoIsLast
<1>5. InOrder(log') /\ log' \in Seq(OpLog)
  BY <1>1, <1>2, RemoveInOrder
<1>6. over' \in Layer /\ \A j \in Key : over'[j] = (IF j = key THEN old ELSE over[j])
  BY <1>1, <1>3 DEF TypeOK, Layer
<1>7. TypeOK'
  BY <1>1, <1>5, <1>6 DEF TypeOK
<1>8. ReadsDown /\ ReadsDown'
  BY <1>1, <1>7, Reads, ReadsNext
<1>9. \A j \in Key : BaseValue(j)' = BaseValue(j)
  BY <1>1, <1>8 DEF ReadsDown
<1>10. \A j \in Key : OverValue(j)' = (IF j = key THEN old ELSE OverValue(j))
  BY <1>3, <1>6, <1>8, <1>9, KeyFacts DEF ReadsDown
<1>11. LogLeadsBack'
  <2>1. ASSUME NEW k \in Key PROVE Before(log', k, OverValue(k)') = Last(past')[k]
    <3>1. OverValue(k)' = (IF k = log[i].key THEN log[i].old ELSE OverValue(k))
      BY <1>2, <1>10
    <3>2. Before(log', k, OverValue(k)') = Before(log, k, OverValue(k))
      BY <1>1, <1>2, <1>4, <3>1, BeforeRemove
    <3>3. Before(log, k, OverValue(k)) = Last(past)[k]
      BY <1>1 DEF CacheInv, LogLeadsBack
    <3> QED
      BY <1>1, <3>2, <3>3
  <2> QED
    BY <1>1, <2>1 DEF LogLeadsBack
<1>12. UndoChains'
  BY <1>1, <1>9 DEF CacheInv, UndoChains
<1>13. \A b \in DOMAIN undo' : InOrder(undo'[b])
  BY <1>1 DEF CacheInv, InOrder
<1>14. Ledger' = Ledger
  BY <1>9 DEF Ledger
<1> QED
  BY <1>1, <1>5, <1>7, <1>11, <1>12, <1>13, <1>14 DEF CacheInv, Promise!vars

(* EndDisconnect: nothing is left of the log, the ledger is the one before. *)
LEMMA EndDisconnectStep ==
  ASSUME CacheAssumption, CacheInv, EndDisconnect
  PROVE  CacheInv' /\ Promise!Revert
<1>1. /\ mode = "disconnect" /\ mode' = "idle" /\ log = <<>> /\ log' = log
      /\ base' = FlushedOver /\ over' = NoEntry /\ past' = Front(past)
      /\ db' = db /\ undo' = undo /\ TypeOK
  BY DEF EndDisconnect, CacheInv
<1>2. /\ undo \in Seq(Seq(OpLog)) /\ past \in Seq([Key -> Stored]) /\ Len(undo) \in Nat
      /\ DOMAIN undo = 1 .. Len(undo)
  BY <1>1, LenProperties DEF TypeOK
<1>3. Len(past) = Len(undo) + 1 /\ past # <<>>
  <2>1. Len(past) = Len(undo) + 1
    BY <1>1 DEF CacheInv, UndoChains
  <2> QED
    BY <1>2, <2>1, EmptySeq
<1>4. /\ past' \in Seq([Key -> Stored]) /\ Len(past') = Len(past) - 1
      /\ \A b \in 1 .. Len(past) - 1 : past'[b] = past[b]
      /\ Last(past) = past[Len(past)] /\ Last(past) \in [Key -> Stored]
  BY <1>1, <1>2, <1>3, FrontLast
<1>5. FlushedOver \in Layer
  BY <1>1 DEF TypeOK, FlushedOver, Layer
<1>6. TypeOK'
  BY <1>1, <1>4, <1>5 DEF TypeOK, NoEntry, Layer
<1>7. \A k \in Key : BaseValue(k)' = OverValue(k)
  BY <1>1, <1>6, FlushedReads
<1>8. ASSUME NEW k \in Key PROVE OverValue(k) = Last(past)[k]
  <2>1. Before(log, k, OverValue(k)) = Last(past)[k]
    BY <1>1 DEF CacheInv, LogLeadsBack
  <2>2. log \in Seq(OpLog) /\ \A i \in 1 .. Len(log) : log[i].key # k
    BY <1>1, EmptySeq
  <2> QED
    BY <2>1, <2>2, BeforeNone
<1>9. LogLeadsBack'
  BY <1>1 DEF LogLeadsBack
<1>10. UndoChains'
  <2>1. ASSUME NEW b \in DOMAIN undo', NEW k \in Key
        PROVE  Before(undo'[b], k, IF b = Len(past') THEN BaseValue(k)' ELSE past'[b + 1][k])
                 = past'[b][k]
    <3>1. b \in DOMAIN undo /\ b # Len(past) /\ past'[b] = past[b] /\ undo'[b] = undo[b]
      BY <1>1, <1>2, <1>3, <1>4
    <3>2. Before(undo[b], k, past[b + 1][k]) = past[b][k]
      BY <3>1 DEF CacheInv, UndoChains
    <3>3. (IF b = Len(past') THEN BaseValue(k)' ELSE past'[b + 1][k]) = past[b + 1][k]
      <4>1. CASE b = Len(past')
        BY <1>2, <1>3, <1>4, <1>7, <1>8, <4>1
      <4>2. CASE b # Len(past')
        <5>1. b + 1 \in 1 .. Len(past) - 1
          BY <1>1, <1>2, <1>3, <1>4, <4>2
        <5> QED
          BY <1>4, <4>2, <5>1
      <4> QED
        BY <4>1, <4>2
    <3> QED
      BY <3>1, <3>2, <3>3
  <2>2. Len(past') = Len(undo') + 0
    BY <1>1, <1>2, <1>3, <1>4
  <2> QED
    BY <1>1, <2>1, <2>2 DEF UndoChains
<1>11. InOrder(log') /\ \A b \in DOMAIN undo' : InOrder(undo'[b])
  BY <1>1 DEF CacheInv, InOrder
<1>12. Ledger' = Last(past)
  BY <1>4, <1>7, <1>8 DEF Ledger
<1> QED
  BY <1>1, <1>3, <1>6, <1>9, <1>10, <1>11, <1>12
     DEF CacheInv, Promise!Revert, Promise!Last, Promise!Front, Last, Front
-----------------------------------------------------------------------------
(* Results. *)

(* Every step keeps the invariant, and is a step of the promise or none. *)
LEMMA CacheStep ==
  ASSUME CacheAssumption, CacheInv, [Next]_vars
  PROVE  CacheInv' /\ [Promise!Next]_Promise!vars
<1>1. CASE BeginConnect
  BY <1>1, BeginConnectStep DEF Promise!Next
<1>2. ASSUME NEW t \in 1 .. MaxTx, NEW k \in Key, NEW v \in Stored, SetData(t, k, v)
      PROVE  CacheInv' /\ [Promise!Next]_Promise!vars
  BY <1>2, WriteStep DEF Promise!Next, Stored
<1>3. ASSUME NEW t \in 1 .. MaxTx, NEW k \in Key, EraseData(t, k)
      PROVE  CacheInv' /\ [Promise!Next]_Promise!vars
  BY <1>3, WriteStep, KeyFacts DEF Promise!Next, Stored
<1>4. CASE CommitBlock
  BY <1>4, CommitStep DEF Promise!Next
<1>5. CASE DropOverlay
  BY <1>5, DropStep DEF Promise!Next
<1>6. CASE BeginDisconnect
  BY <1>6, BeginDisconnectStep
<1>7. ASSUME NEW i \in DOMAIN log, UndoData(i)
      PROVE  CacheInv' /\ [Promise!Next]_Promise!vars
  BY <1>7, UndoStep
<1>8. CASE EndDisconnect
  BY <1>8, EndDisconnectStep DEF Promise!Next
<1>9. ASSUME NEW k \in Key, GetData(k)
      PROVE  CacheInv' /\ [Promise!Next]_Promise!vars
  BY <1>9, GetDataStep
<1>10. CASE FlushBase
  BY <1>10, FlushStep
<1>11. CASE UNCHANGED vars
  <2>1. UNCHANGED LogVars /\ db' = db /\ base' = base /\ over' = over /\ TypeOK
    BY <1>11 DEF vars, LogVars, CacheInv
  <2>2. TypeOK'
    BY <2>1 DEF TypeOK, LogVars
  <2>3. ReadsDown /\ ReadsDown'
    BY <2>1, <2>2, Reads, ReadsNext
  <2>4. \A k \in Key : BaseValue(k)' = BaseValue(k) /\ OverValue(k)' = OverValue(k)
    BY <2>1, <2>3 DEF ReadsDown
  <2> QED
    BY <2>1, <2>2, <2>4, SameReads
<1> QED
  BY <1>1, <1>2, <1>3, <1>4, <1>5, <1>6, <1>7, <1>8, <1>9, <1>10, <1>11
     DEF Next, ConnectNext, DisconnectNext

(* At first the layers and the promise are empty. *)
LEMMA CacheInit ==
  ASSUME CacheAssumption, Init
  PROVE  CacheInv /\ Promise!Init
<1>1. TypeOK
  BY KeyFacts, EmptySeq DEF Init, TypeOK, NoEntry, Layer
<1>2. LogLeadsBack /\ UndoChains
  BY DEF Init, LogLeadsBack, UndoChains
<1>3. InOrder(log) /\ \A b \in DOMAIN undo : InOrder(undo[b])
  BY DEF Init, InOrder
<1>4. Ledger = [k \in Key |-> Empty]
  BY <1>1, Reads DEF Init, ReadsDown, Ledger, NoEntry
<1> QED
  BY <1>1, <1>2, <1>3, <1>4 DEF CacheInv, Init, Promise!Init

(***************************************************************************)
(* At every moment the log leads back to the ledger before the block that  *)
(* is connected or disconnected, and the undo data of the connected blocks *)
(* from there, block by block (CDBOpLogMap, CBlockUndoExecutor::Execute):  *)
(* for any caches, and any number of blocks, transactions and writes.      *)
(***************************************************************************)
THEOREM LayersUndo ==
  ASSUME CacheAssumption
  PROVE  Spec => [](TypeOK /\ UndoLeadsBack)
<1>1. Init => CacheInv
  BY CacheInit
<1>2. CacheInv /\ [Next]_vars => CacheInv'
  BY CacheStep
<1>3. CacheInv => TypeOK /\ UndoLeadsBack
  BY DEF CacheInv, UndoLeadsBack
<1> QED
  BY <1>1, <1>2, <1>3, PTL DEF Spec

(***************************************************************************)
(* The layers implement one map: whatever reads copy and whenever the      *)
(* caches are flushed, a block takes effect as a whole, an erased key does *)
(* not come back, and a disconnected block leaves no trace (ConnectTip,     *)
(* DisconnectTip, CCacheDBManager::Flush).                                 *)
(***************************************************************************)
THEOREM LayersImplementStore ==
  ASSUME CacheAssumption
  PROVE  Spec => ImplementsStore
<1>1. Init => CacheInv /\ Promise!Init
  BY CacheInit
<1>2. CacheInv /\ [Next]_vars => CacheInv' /\ [Promise!Next]_Promise!vars
  BY CacheStep
<1> QED
  BY <1>1, <1>2, PTL DEF Spec, ImplementsStore, Promise!Spec

=============================================================================
