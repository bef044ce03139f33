----------------------------- MODULE JobGroups -----------------------------
(***************************************************************************)
(* What the thread pool promises its users: a job handed over runs once,   *)
(* and a wait (tools::threadpool::waiter::wait) returns only when every    *)
(* job handed over through that waiter has ended.  Threads, queue and      *)
(* counters do not occur here; Threadpool implements this.                 *)
(***************************************************************************)
EXTENDS Naturals

CONSTANTS
  Callers,   \* threads outside the pool that use it
  Jobs,      \* jobs they, and jobs themselves, hand to the pool
  Owner      \* Owner[j] is the caller or the job whose waiter counts j

Users == Callers \cup Jobs

VARIABLES
  status,    \* of each job: "new", "given" to the pool or "ended"
  waits      \* number of waits of each user that have returned

vars == <<status, waits>>

KidsEnded(u) == \A j \in Jobs : Owner[j] = u => status[j] # "given"
Alive(u) == u \in Jobs => status[u] = "given"

Init ==
  /\ status = [j \in Jobs |-> "new"]
  /\ waits = [u \in Users |-> 0]

Give(j) ==
  /\ status[j] = "new" /\ Alive(Owner[j])
  /\ status' = [status EXCEPT ![j] = "given"]
  /\ UNCHANGED waits

End(j) ==
  /\ status[j] = "given" /\ KidsEnded(j)
  /\ status' = [status EXCEPT ![j] = "ended"]
  /\ UNCHANGED waits

Wait(u) ==
  /\ Alive(u) /\ KidsEnded(u)
  /\ waits' = [waits EXCEPT ![u] = @ + 1]
  /\ UNCHANGED status

Next ==
  \/ \E j \in Jobs : Give(j) \/ End(j)
  \/ \E u \in Users : Wait(u)

Spec == Init /\ [][Next]_vars
=============================================================================
