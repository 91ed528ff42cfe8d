------------------------------ MODULE Orphans ------------------------------
(***************************************************************************)
(* Blocks that arrive before their parents.  ProcessBlock keeps them until *)
(* the parent is accepted and then accepts what waited for it.  The pool   *)
(* is bounded: PruneOrphanBlocks makes room by dropping the highest block. *)
(*                                                                         *)
(* Three containers hold the pool.  mapOrphanBlocks and                    *)
(* mapOrphanBlocksByPrev have the same blocks.  setOrphanBlock, which      *)
(* PruneOrphanBlocks picks its victim from, is a set ordered by height     *)
(* alone: two blocks of a height are equal to it, it keeps the one that    *)
(* came first, and erasing either of them erases that one.                 *)
(***************************************************************************)
EXTENDS BlockTree, FiniteSets, FiniteSetsExt

CONSTANTS
  Bad,       \* blocks that AcceptBlock refuses
  MaxOrphans \* MAX_ORPHAN_BLOCKS

OrphansAssumption ==
  Bad \subseteq Block \ {Genesis} /\ MaxOrphans \in Nat

VARIABLES
  indexed,  \* mapBlockIndex
  orphans,  \* mapOrphanBlocks, and mapOrphanBlocksByPrev
  ordered,  \* setOrphanBlock
  emptied   \* the last element of an empty set was read

orphanVars == <<indexed, orphans, ordered, emptied>>

(* setOrphanBlock.insert and erase, by the comparator.                      *)
Inserted(set, b) == IF \E o \in set : Height[o] = Height[b] THEN set ELSE set \cup {b}

Erased(set, gone) == {o \in set : \A g \in gone : Height[g] # Height[o]}

(* Blocks that wait for b, at any distance, with no refused block between.  *)
WaitsFor(o, b) ==
  /\ b \in Chain[o] \ {o}
  /\ \A c \in Chain[o] \ (Chain[b] \cup {o}) : c \in orphans \ Bad

(* Mutant: only the blocks that wait for b itself are taken out.            *)
DrainedChildren(b) == {o \in orphans : Parent[o] = b}

(* The blocks taken out of the pool after b has been accepted.              *)
Drained(b) == {o \in orphans : WaitsFor(o, b)}

Full == Cardinality(orphans) > MaxOrphans

Highest == CHOOSE o \in ordered : \A c \in ordered : Height[c] <= Height[o]

(* Mutant: a block that takes the place of another is not put in order.     *)
KeepUnordered(b) ==
  \/ /\ ~Full
     /\ orphans' = orphans \cup {b}
     /\ ordered' = Inserted(ordered, b)
     /\ UNCHANGED <<indexed, emptied>>
  \/ /\ Full /\ Height[Highest] > Height[b]
     /\ orphans' = (orphans \ {Highest}) \cup {b}
     /\ ordered' = Erased(ordered, {Highest})
     /\ UNCHANGED <<indexed, emptied>>

(* The newcomer takes the place of the highest block of all, or is          *)
(* abandoned if no block is higher.                                         *)
Keep(b) ==
  \/ /\ ~Full
     /\ orphans' = orphans \cup {b}
     /\ ordered' = Inserted(ordered, b)
     /\ UNCHANGED <<indexed, emptied>>
  \/ /\ Full /\ ordered # {}
     /\ Height[Highest] > Height[b]
     /\ orphans' = (orphans \ {Highest}) \cup {b}
     /\ ordered' = Inserted(Erased(ordered, {Highest}), b)
     /\ UNCHANGED <<indexed, emptied>>
  \/ /\ Full /\ ordered = {}
     /\ emptied' = TRUE
     /\ UNCHANGED <<indexed, orphans, ordered>>

(* AcceptBlock on b and on what waited for it.  A refused orphan leaves the *)
(* pool and is not indexed; what waits for it stays.                        *)
Accept(b) ==
  /\ b \notin Bad
  /\ indexed' = indexed \cup (({b} \cup Drained(b)) \ Bad)
  /\ orphans' = orphans \ Drained(b)
  /\ ordered' = Erased(ordered, Drained(b))
  /\ UNCHANGED emptied

(* ProcessBlock for a block from a peer.                                    *)
ProcessBlock(b) ==
  /\ b \notin indexed \cup orphans
  /\ IF Parent[b] \in indexed THEN Accept(b) ELSE Keep(b)

OrphansInit ==
  /\ indexed = {Genesis}
  /\ orphans = {} /\ ordered = {}
  /\ emptied = FALSE

OrphansNext == ~emptied /\ \E b \in Block : ProcessBlock(b)

OrphansSpec == OrphansInit /\ [][OrphansNext]_orphanVars

(* Peers have every block, and send it as often as it is asked for.         *)
FairOrphansSpec == OrphansSpec /\ \A b \in Block : WF_orphanVars(ProcessBlock(b))

-----------------------------------------------------------------------------
(* GetOrphanRoot: the first block of the orphan chain that b ends; the      *)
(* blocks up to it are what the peer is asked for.                          *)
GetOrphanRoot(b) ==
  CHOOSE r \in Chain[b] :
    /\ \A c \in Chain[b] : Height[c] > Height[r] => c \in orphans
    /\ r \in orphans \cup {b}
    /\ Parent[r] \notin orphans

(* Types, and the ordered set holds nothing that has been freed, one block  *)
(* of a height.                                                             *)
OrphansTypeOK ==
  /\ indexed \subseteq Block /\ orphans \subseteq Block \ indexed
  /\ ordered \subseteq orphans
  /\ \A o, c \in ordered : Height[o] = Height[c] => o = c
  /\ emptied \in BOOLEAN

(* The pool holds one block more than MAX_ORPHAN_BLOCKS at most: the test   *)
(* comes before the insertion.                                              *)
PoolBounded == Cardinality(orphans) <= MaxOrphans + 1

(* The pool can be full of blocks the ordered set does not have; still the  *)
(* ordered set is never empty when PruneOrphanBlocks reads its last         *)
(* element, because the block whose insertion filled the pool has put an    *)
(* element of its height in.                                                *)
VictimExists == Full => ordered # {}

(* An orphan never waits for a block the node has: it would wait for good,  *)
(* since a second copy is refused as a duplicate.  What is asked for is the *)
(* parent of the first block of the chain.                                  *)
ParentsAwaited ==
  \A o \in orphans : /\ Parent[o] \notin indexed
                     /\ Parent[GetOrphanRoot(o)] \notin indexed \cup orphans

(* What the node relies on of its orphans, and the last element of an empty *)
(* set is never read.                                                       *)
OrphansAgree ==
  OrphansTypeOK /\ PoolBounded /\ VictimExists /\ ParentsAwaited /\ ~emptied

(* "Remove a random orphan block (which does not have any dependent         *)
(* orphans)": what PruneOrphanBlocks drops is the parent of no orphan.      *)
PrunedHasNoDependents ==
  [][\A o \in orphans \ orphans' :
        Parent[o] \notin indexed' => \A c \in orphans' : Parent[c] # o]_orphanVars

(* In whatever order blocks arrive and whatever is dropped, every block     *)
(* with no refused ancestor is indexed in the end.                          *)
GoodBlocksArrive ==
  \A b \in Block : Chain[b] \cap Bad = {} => <>(b \in indexed)
=============================================================================
