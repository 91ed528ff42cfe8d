--------------------------- MODULE MCFinalityNet ---------------------------
(***************************************************************************)
(* One node whose blocks are processed by another thread than its votes,   *)
(* and three nodes and a faulty delegate that exchange blocks and votes.   *)
(* They share no state, so each behaviour is one of one instance, named by *)
(* part; the variables of the other stay as they were at first.            *)
(***************************************************************************)
EXTENDS MCFinalityNode, FinalityAgreement

VARIABLE part

(* Two branches; three votes of four make a quorum.  Their blocks are on   *)
(* one chain, or not, as in the tree of the one node, in which Agreement   *)
(* compares them.                                                          *)
NetBlock  == {"g", "a1", "b1", "b2", "b3"}
NetParent == [b \in NetBlock |-> IF b \in {"a1", "b1"} THEN "g" ELSE MCParent[b]]
NetHeight == [b \in NetBlock |-> IF b = "g" THEN 0 ELSE MCHeight[b] - 1]
NetChain  == [b \in NetBlock |-> MCChain[b] \ {"r"}]

Net ==
  INSTANCE FinalityNet
    WITH Block <- NetBlock, Parent <- NetParent, Height <- NetHeight,
         Chain <- NetChain, Faulty <- {"f"}, MaxStale <- 1

ASSUME NetInstance == Net!NetAssumption

TogetherInit ==
  /\ part \in {"threads", "nodes"}
  /\ Init /\ Net!Init
  /\ part = "threads" => \A n \in Node : node[n].tip = "a1"

TogetherNext ==
  \/ part = "threads" /\ Next /\ UNCHANGED <<part, node, final>>
  \/ part = "nodes" /\ Net!Next /\ UNCHANGED <<part, vars>>

TogetherSpec == TogetherInit /\ [][TogetherNext]_<<part, vars, node, final>>
=============================================================================
