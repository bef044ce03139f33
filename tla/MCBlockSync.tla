---------------------------- MODULE MCBlockSync -----------------------------
(* Instances of BlockSync for TLC. *)
EXTENDS BlockSync

CONSTANTS p, p2, g, a1, a2, b2

(* Two peers on one chain, the second behind; two peers that agree up to a1, the second on a branch
   this node refuses at b2.                                                  *)
OneChain == [c \in {p, p2} |-> IF c = p THEN <<g, a1, a2>> ELSE <<g, a1>>]
Branches == [c \in {p, p2} |-> IF c = p THEN <<g, a1, a2>> ELSE <<g, a1, b2>>]
=============================================================================
