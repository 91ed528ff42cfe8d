----------------------------- MODULE MCTxReplay -----------------------------
(***************************************************************************)
(* Small instances of TxReplay: a cache of two blocks and three            *)
(* transactions whose valid heights are one apart.                         *)
(***************************************************************************)
EXTENDS TxReplay

MCValidHeight == [t \in Tx |-> IF t = "a" THEN 1 ELSE IF t = "b" THEN 2 ELSE 3]
=============================================================================
