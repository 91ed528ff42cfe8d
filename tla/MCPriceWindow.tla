--------------------------- MODULE MCPriceWindow ---------------------------
(***************************************************************************)
(* A small instance of PriceWindow: windows shorter than, as long as and   *)
(* close to the length of the chains.                                      *)
(***************************************************************************)
EXTENDS PriceWindow
=============================================================================
