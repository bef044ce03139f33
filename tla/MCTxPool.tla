------------------------------ MODULE MCTxPool ------------------------------
(***************************************************************************)
(* Small instances of TxPool.  a and b spend a common key image; c spends  *)
(* an output of a.                                                         *)
(***************************************************************************)
EXTENDS TxPool, TLC

CONSTANTS a, b, c

MCInputs == (a :> <<"k1">>) @@ (b :> <<"k2", "k1">>) @@ (c :> <<"k3">>)
MCParents == (a :> {}) @@ (b :> {}) @@ (c :> {a})
MCFee == (a :> 3) @@ (b :> 2) @@ (c :> 4)
MCWeight == (a :> 1) @@ (b :> 2) @@ (c :> 1)

OfferedBlocks == {{a}, {c}, {a, b}} \cap SUBSET Txs

InputsOf == Restrict(MCInputs, Txs)
ParentsOf == Restrict(MCParents, Txs)
FeeOf == Restrict(MCFee, Txs)
WeightOf == Restrict(MCWeight, Txs)
=============================================================================
