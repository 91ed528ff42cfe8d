----------------------------- MODULE BlockTree -----------------------------
(***************************************************************************)
(* The tree of block index entries (CBlockIndex) that mapBlockIndex holds, *)
(* and the chains (CChain) that can be taken out of it.  A chain is named  *)
(* by its tip: Chain[t] is the set of blocks that CChain::SetTip(t) puts   *)
(* in vChain, one for each height from 0 to Height[t].                     *)
(***************************************************************************)
EXTENDS Integers

CONSTANTS
  Block,    \* every block that can ever be received
  Genesis,  \* the genesis block
  Parent,   \* Parent[b] is b's pprev; Parent[Genesis] = Genesis stands for nullptr
  Height,   \* Height[b]
  Chain     \* Chain[b] is the set of ancestors of b, b included

(***************************************************************************)
(* The constants describe a tree.  The last six conjuncts follow from the  *)
(* one on Chain by induction on heights; they are stated because they are  *)
(* what reasoning about chains uses.                                       *)
(***************************************************************************)
ASSUME BlockTreeAssumption ==
  /\ Genesis \in Block
  /\ Parent \in [Block -> Block]
  /\ Height \in [Block -> Nat]
  /\ Chain \in [Block -> SUBSET Block]
  /\ Parent[Genesis] = Genesis
  /\ Height[Genesis] = 0
  /\ Chain[Genesis] = {Genesis}
  /\ \A b \in Block \ {Genesis} :
       /\ Height[b] = Height[Parent[b]] + 1
       /\ Chain[b] = Chain[Parent[b]] \cup {b}
  /\ \A b \in Block : b \in Chain[b] /\ Genesis \in Chain[b]
  /\ \A b \in Block : \A c \in Chain[b] : Chain[c] \subseteq Chain[b]
  /\ \A b \in Block : \A c \in Chain[b], d \in Chain[b] :
       Height[c] <= Height[d] => c \in Chain[d]
  /\ \A b \in Block : \A c \in Chain[b] : Height[c] <= Height[b]
  /\ \A b \in Block : \A c \in Chain[b], d \in Chain[b] :
       Height[c] = Height[d] => c = d
  /\ \A b \in Block : \A h \in 0 .. Height[b] : \E c \in Chain[b] : Height[c] = h

(***************************************************************************)
(* CChain::operator[]: the block at height h of the chain with tip t.      *)
(* Callers test for nullptr, that is h > Height[t], before they use it.    *)
(***************************************************************************)
At(t, h) == CHOOSE c \in Chain[t] : Height[c] = h

(* CChain::Contains *)
ChainContains(t, b) == b \in Chain[t]

(* The last common block of the chains with tips s and t. *)
ForkPoint(s, t) ==
  CHOOSE f \in Chain[s] \cap Chain[t] :
    \A c \in Chain[s] \cap Chain[t] : Height[c] <= Height[f]

(* Two blocks are on one chain. *)
Comparable(b, c) == b \in Chain[c] \/ c \in Chain[b]
=============================================================================
