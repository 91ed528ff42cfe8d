------------------------- MODULE FinalityAgreement -------------------------
(***************************************************************************)
(* What several nodes owe each other, whatever they do: the blocks that    *)
(* are ever globally final in any of them are on one chain, unless a node  *)
(* drops a local finality.  FinalityNet says what they do.                 *)
(***************************************************************************)
EXTENDS BlockTree

CONSTANT Node  \* the nodes, by their delegates

VARIABLES
  node,  \* the state of each node
  final  \* history: the blocks that were ever globally final in each node

(* Node n has dropped a local finality and voted for the finality of both. *)
Reneged(n, b, c) ==
  /\ node[n].loosened
  /\ {<<"finality", b>>, <<"finality", c>>} \subseteq node[n].cast

(***************************************************************************)
(* Blocks that are ever globally final in any two nodes are on one chain,  *)
(* but for what nodes have brought about that dropped a local finality     *)
(* after 60 s and voted again (UpdateGlobalFinBlock,                       *)
(* BroadcastBlockFinality, ActivateBestChain): votes late by less, lost    *)
(* votes, faulty delegates below a third, and a vote for the tip when an   *)
(* ancestor has become final (AcceptBlock) do not part them.               *)
(***************************************************************************)
Agreement ==
  \A n, m \in Node : \A b \in final[n], c \in final[m] :
    Comparable(b, c) \/ \E x \in Node : Reneged(x, b, c)
=============================================================================
