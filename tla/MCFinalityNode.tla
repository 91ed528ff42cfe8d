--------------------------- MODULE MCFinalityNode ---------------------------
(* Two branches on a common root, the second one longer by a block. *)
EXTENDS FinalityNode, TLC

MCBlock  == {"g", "r", "a1", "a2", "b1", "b2", "b3"}
MCParent == [g |-> "g", r |-> "g", a1 |-> "r", a2 |-> "a1",
             b1 |-> "r", b2 |-> "b1", b3 |-> "b2"]
MCHeight == [g |-> 0, r |-> 1, a1 |-> 2, a2 |-> 3, b1 |-> 2, b2 |-> 3, b3 |-> 4]
MCChain  == [g |-> {"g"}, r |-> {"g", "r"}, a1 |-> {"g", "r", "a1"},
             a2 |-> {"g", "r", "a1", "a2"}, b1 |-> {"g", "r", "b1"},
             b2 |-> {"g", "r", "b1", "b2"}, b3 |-> {"g", "r", "b1", "b2", "b3"}]

CONSTANTS d1, d2, d3
MCDelegate  == {d1, d2, d3}
MCMinerList == [b \in MCBlock |-> MCDelegate]

(* One delegate is a quorum: two votes make a block final. *)
MCSole      == {d1}
MCSoleMiner == [b \in MCBlock |-> MCSole]

(* Delegates differ only in whether the node holds their key. *)
Symmetry == Permutations(MCDelegate \ Own)
=============================================================================
