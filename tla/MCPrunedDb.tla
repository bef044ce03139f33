----------------------------- MODULE MCPrunedDb -----------------------------
(* Two stripes of two blocks, three last blocks and transactions of version 1
   in both stripes.                                                         *)
EXTENDS PrunedDb
=============================================================================
