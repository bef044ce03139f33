---------------------------- MODULE MCThreadpool ----------------------------
(* Instances of Threadpool for TLC. *)
EXTENDS Threadpool

CONSTANTS c1, c2, w1, j1, j2, j3, j4, l1, l2

(* Two callers.  A job j1 with a waiter of its own, a nested job j3 and leaves,
   next to a job j2 that waits for a leaf; c1 waits twice on one waiter.      *)
MCBody ==
  [u \in {c1, c2, j1, j2, j3, j4, l1, l2} |->
     CASE u = c1 -> <<j1, WAIT, j4>>
       [] u = c2 -> <<j2>>
       [] u = j1 -> <<j3, l1>>
       [] u = j2 -> <<l2>>
       [] OTHER -> <<>>]
=============================================================================
