----------------------------- MODULE MCTxRelay ------------------------------
(* Small instances of TxRelay: bad fails verification                      *)
EXTENDS TxRelay, TLC

CONSTANTS good, bad, c1, c2

Peers == Permutations({c1, c2})

MCMessages == {<<good>>, <<good, bad>>}
=============================================================================
