----------------------------- MODULE MCHardFork -----------------------------
(* Instances of HardFork for TLC.                                          *)
EXTENDS HardFork

Fork(v, h, t) == [version |-> v, height |-> h, threshold |-> t]

(* Forks by height alone, as deployed; forks that need 50% and 75% of the   *)
(* window; each in two successive binaries.  A scheduled table may also be   *)
(* followed by one whose next fork is voted on.                              *)
MCTables ==
  { <<Fork(1, 1, 0), Fork(2, 2, 0)>>,
    <<Fork(1, 1, 0), Fork(2, 2, 0), Fork(3, 3, 0)>>,
    <<Fork(1, 1, 0), Fork(2, 2, 0), Fork(3, 3, 75)>>,
    <<Fork(1, 1, 0), Fork(2, 2, 50)>>,
    <<Fork(1, 1, 0), Fork(2, 2, 50), Fork(3, 3, 75)>> }
=============================================================================
