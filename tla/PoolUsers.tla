----------------------------- MODULE PoolUsers ------------------------------
(***************************************************************************)
(* Who uses the thread pool: callers outside of it and jobs.  What a user  *)
(* does is given by Body: the jobs it submits and the points at which it   *)
(* waits.  Its waiter is a local object, so leaving the body, also by an   *)
(* exception, waits once more (the destructor).                            *)
(***************************************************************************)
EXTENDS Integers, Sequences

CONSTANTS
  Callers,   \* threads outside the pool that use it
  Workers,   \* threads of the pool
  Jobs,
  Body,      \* Body[u]: sequence of jobs of u and WAIT
  Leaf,      \* jobs submitted with leaf = true
  Throwing,  \* jobs that may end by an exception
  WAIT

Users == Callers \cup Jobs
Threads == Callers \cup Workers
Given(u) == {Body[u][i] : i \in DOMAIN Body[u]} \ {WAIT}

(* Jobs form a forest: each belongs to the one user that submits it.  A leaf
   job does not use the pool: submit refuses to be called from one.         *)
ASSUME BodyAssumption ==
  /\ Callers \cap Jobs = {} /\ Callers \cap Workers = {} /\ WAIT \notin Jobs
  /\ Leaf \subseteq Jobs /\ Throwing \subseteq Jobs
  /\ Body \in [Users -> Seq(Jobs \cup {WAIT})]
  /\ \A j \in Leaf : Body[j] = <<>>
  /\ \A u, v \in Users : u # v => Given(u) \cap Given(v) = {}
  /\ \A u \in Users : \A i, k \in DOMAIN Body[u] :
        Body[u][i] = Body[u][k] => i = k \/ Body[u][i] = WAIT
  /\ \A j \in Jobs : \E u \in Users : j \in Given(u)

Owner == [j \in Jobs |-> CHOOSE u \in Users : j \in Given(u)]

(* A frame: who runs, how it was called, how far it is in its body and what
   it is doing.  flush and wait are the two halves of waiter::wait, leave is
   the end of an iteration of run after dec; thrown marks an exception on
   its way out.                                                            *)
Frame(u, how) == [who |-> u, how |-> how, i |-> 0, at |-> "body", thrown |-> FALSE]

Front(s) == SubSeq(s, 1, Len(s) - 1)
=============================================================================
