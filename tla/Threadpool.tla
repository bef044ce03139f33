----------------------------- MODULE Threadpool -----------------------------
(***************************************************************************)
(* The global thread pool of common/threadpool.cpp: a deque of jobs, max-1 *)
(* workers, and waiters whose owner helps with the queue before it blocks. *)
(* Jobs may use the pool themselves; one that is submitted from inside a   *)
(* job, or while every thread is busy, runs on the submitting thread.      *)
(***************************************************************************)
EXTENDS PoolUsers, FiniteSets

max == Cardinality(Workers) + 1

VARIABLES
  queue,      \* jobs handed over and not yet taken
  active,     \* how many jobs taken off the queue are running
  num,        \* of each user's waiter
  error_flag, \* of each user's waiter
  depth,      \* thread-local: jobs on the thread's stack
  is_leaf,    \* thread-local: the job on top is a leaf
  stack,      \* of each thread: frames of users, the running one last
  asleep,     \* workers waiting on has_work
  status,     \* history: of each job, "new", "given" or "ended"
  waits,      \* history: waits of each user that have returned
  threw       \* history: users that ended by an exception

vars == <<queue, active, num, error_flag, depth, is_leaf, stack, asleep, status, waits, threw>>

-----------------------------------------------------------------------------
Busy(t) == stack[t] # <<>>
Top(t) == stack[t][Len(stack[t])]
WithTop(t, f) == [stack EXCEPT ![t] = Append(Front(@), f)]

(* has_work.notify_one() wakes one of the sleeping workers, if there is one. *)
NotifyOne ==
  \/ asleep = {} /\ UNCHANGED asleep
  \/ \E w \in asleep : asleep' = asleep \ {w}

RunsInline(t, j) == j \notin Leaf /\ ((active = max /\ queue # <<>>) \/ depth[t] > 0)

Enqueue(j) == IF j \in Leaf THEN <<j>> \o queue ELSE Append(queue, j)

(* threadpool::submit *)
submit(t) ==
  /\ Busy(t) /\ Top(t).at = "body" /\ ~Top(t).thrown
  /\ LET f == Top(t)
         b == Body[f.who]
     IN  /\ f.i < Len(b) /\ b[f.i + 1] # WAIT
         /\ LET j == b[f.i + 1]
                g == [f EXCEPT !.i = @ + 1]
            IN  /\ IF RunsInline(t, j)
                   THEN /\ stack' = [WithTop(t, g) EXCEPT ![t] = Append(@, Frame(j, "inline"))]
                        /\ depth' = [depth EXCEPT ![t] = @ + 1]
                        /\ is_leaf' = [is_leaf EXCEPT ![t] = FALSE]
                        /\ UNCHANGED <<queue, num, asleep>>
                   ELSE /\ num' = [num EXCEPT ![f.who] = @ + 1]
                        /\ queue' = Enqueue(j)
                        /\ stack' = WithTop(t, g)
                        /\ NotifyOne
                        /\ UNCHANGED <<depth, is_leaf>>
                /\ status' = [status EXCEPT ![j] = "given"]
  /\ UNCHANGED <<active, error_flag, waits, threw>>

(* Mutant: wait blocks at once and leaves the queue to the others. *)
CallWaitNoHelp(t) ==
  /\ Busy(t) /\ Top(t).at = "body"
  /\ LET f == Top(t)
         b == Body[f.who]
     IN  /\ b # <<>>
         /\ \/ f.thrown \/ f.i = Len(b)
            \/ f.i < Len(b) /\ b[f.i + 1] = WAIT
         /\ stack' = WithTop(t, [f EXCEPT !.at = "wait"])
  /\ UNCHANGED <<queue, active, num, error_flag, depth, is_leaf, asleep, status, waits, threw>>

(* The body calls wait, or ends and its waiter's destructor does.  *)
CallWait(t) ==
  /\ Busy(t) /\ Top(t).at = "body"
  /\ LET f == Top(t)
         b == Body[f.who]
     IN  /\ b # <<>>
         /\ \/ f.thrown \/ f.i = Len(b)
            \/ f.i < Len(b) /\ b[f.i + 1] = WAIT
         /\ stack' = WithTop(t, [f EXCEPT !.at = "flush"])
  /\ UNCHANGED <<queue, active, num, error_flag, depth, is_leaf, asleep, status, waits, threw>>

(* The part of run under the lock, by thread t whose stack below run is rest:
   the first job of the queue starts, or a worker goes to sleep on has_work,
   or the owner of a waiter has emptied the queue and blocks in wait.       *)
Loop(t, rest, running) ==
  IF queue # <<>>
  THEN /\ active' = running + 1
       /\ queue' = Tail(queue)
       /\ stack' = [stack EXCEPT ![t] = Append(rest, Frame(Head(queue), "queue"))]
       /\ depth' = [depth EXCEPT ![t] = @ + 1]
       /\ is_leaf' = [is_leaf EXCEPT ![t] = Head(queue) \in Leaf]
       /\ UNCHANGED asleep
  ELSE /\ active' = running
       /\ stack' = [stack EXCEPT ![t] =
            IF rest = <<>> THEN rest
            ELSE Append(Front(rest), [rest[Len(rest)] EXCEPT !.at = "wait"])]
       /\ asleep' = IF rest = <<>> THEN asleep \cup {t} ELSE asleep
       /\ UNCHANGED <<queue, depth, is_leaf>>

(* threadpool::run, entered by a worker, by a waiter or after a job. *)
run(t) ==
  /\ \/ t \in Workers \ asleep /\ ~Busy(t) /\ Loop(t, <<>>, active)
     \/ Busy(t) /\ Top(t).at = "flush" /\ Loop(t, stack[t], active)
     \/ Busy(t) /\ Top(t).at = "leave" /\ Loop(t, Front(stack[t]), active - 1)
  /\ UNCHANGED <<num, error_flag, status, waits, threw>>

(* A wait on has_work may end without a notification. *)
SpuriousWake(w) ==
  /\ w \in asleep
  /\ asleep' = asleep \ {w}
  /\ UNCHANGED <<queue, active, num, error_flag, depth, is_leaf, stack, status, waits, threw>>

(* Mutant: wait returns once the queue is empty.  *)
WaitForQueueOnly(t) ==
  /\ Busy(t) /\ Top(t).at = "wait"
  /\ LET f == Top(t)
         last == f.thrown \/ f.i = Len(Body[f.who])
     IN  stack' = WithTop(t, [f EXCEPT !.at = IF last THEN "end" ELSE "body",
                                       !.i = IF last THEN @ ELSE @ + 1])
  /\ waits' = [waits EXCEPT ![Top(t).who] = @ + 1]
  /\ UNCHANGED <<queue, active, num, error_flag, depth, is_leaf, asleep, status, threw>>

(* The rest of waiter::wait: the body goes on, or has ended.  *)
WaitReturn(t) ==
  /\ Busy(t) /\ Top(t).at = "wait" /\ num[Top(t).who] = 0
  /\ LET f == Top(t)
         last == f.thrown \/ f.i = Len(Body[f.who])
     IN  stack' = WithTop(t, [f EXCEPT !.at = IF last THEN "end" ELSE "body",
                                       !.i = IF last THEN @ ELSE @ + 1])
  /\ waits' = [waits EXCEPT ![Top(t).who] = @ + 1]
  /\ UNCHANGED <<queue, active, num, error_flag, depth, is_leaf, asleep, status, threw>>

(* A job's function throws. *)
Throw(t) ==
  /\ Busy(t) /\ Top(t).at = "body" /\ ~Top(t).thrown /\ Top(t).who \in Throwing
  /\ stack' = WithTop(t, [Top(t) EXCEPT !.thrown = TRUE])
  /\ UNCHANGED <<queue, active, num, error_flag, depth, is_leaf, asleep, status, waits, threw>>

AtEnd(t) ==
  /\ Busy(t)
  /\ Top(t).at = "end" \/ (Top(t).at = "body" /\ Body[Top(t).who] = <<>>)

Ended(f) ==
  /\ status' = IF f.who \in Jobs THEN [status EXCEPT ![f.who] = "ended"] ELSE status
  /\ threw' = IF f.thrown THEN threw \cup {f.who} ELSE threw

(* Mutant: an exception of a job is swallowed. *)
EndQueuedNoError(t) ==
  /\ AtEnd(t) /\ Top(t).how = "queue"
  /\ LET f == Top(t)
     IN  /\ num' = [num EXCEPT ![Owner[f.who]] = @ - 1]
         /\ stack' = WithTop(t, [f EXCEPT !.at = "leave"])
         /\ Ended(f)
  /\ depth' = [depth EXCEPT ![t] = @ - 1]
  /\ is_leaf' = [is_leaf EXCEPT ![t] = FALSE]
  /\ UNCHANGED <<queue, active, error_flag, asleep, waits>>

(* A job taken off the queue ends: run catches its exception and dec follows;
   the loop of run goes on once it has the lock.                            *)
EndQueued(t) ==
  /\ AtEnd(t) /\ Top(t).how = "queue"
  /\ LET f == Top(t)
         o == Owner[f.who]
     IN  /\ error_flag' = [error_flag EXCEPT ![o] = @ \/ f.thrown]
         /\ num' = [num EXCEPT ![o] = @ - 1]
         /\ stack' = WithTop(t, [f EXCEPT !.at = "leave"])
         /\ Ended(f)
  /\ depth' = [depth EXCEPT ![t] = @ - 1]
  /\ is_leaf' = [is_leaf EXCEPT ![t] = FALSE]
  /\ UNCHANGED <<queue, active, asleep, waits>>

(* A job run by submit ends.  Its exception is not caught there: it passes on
   to the submitting body and leaves the thread's depth where it was.       *)
EndInline(t) ==
  /\ AtEnd(t) /\ Top(t).how = "inline"
  /\ LET f == Top(t)
         below == Front(stack[t])
     IN  /\ stack' = [stack EXCEPT ![t] =
              IF f.thrown THEN Append(Front(below), [below[Len(below)] EXCEPT !.thrown = TRUE])
              ELSE below]
         /\ depth' = IF f.thrown THEN depth ELSE [depth EXCEPT ![t] = @ - 1]
         /\ Ended(f)
  /\ is_leaf' = [is_leaf EXCEPT ![t] = FALSE]
  /\ UNCHANGED <<queue, active, num, error_flag, asleep, waits>>

(* A caller is done with the pool. *)
EndCall(t) ==
  /\ AtEnd(t) /\ Top(t).how = "call"
  /\ stack' = [stack EXCEPT ![t] = <<>>]
  /\ Ended(Top(t))
  /\ UNCHANGED <<queue, active, num, error_flag, depth, is_leaf, asleep, waits>>

-----------------------------------------------------------------------------
Init ==
  /\ queue = <<>> /\ active = 0 /\ asleep = {} /\ threw = {}
  /\ num = [u \in Users |-> 0]
  /\ error_flag = [u \in Users |-> FALSE]
  /\ depth = [t \in Threads |-> 0]
  /\ is_leaf = [t \in Threads |-> FALSE]
  /\ stack = [t \in Threads |-> IF t \in Callers THEN <<Frame(t, "call")>> ELSE <<>>]
  /\ status = [j \in Jobs |-> "new"]
  /\ waits = [u \in Users |-> 0]

(* What thread t does by itself, the exception of a job aside. *)
Step(t) ==
  \/ submit(t) \/ CallWait(t) \/ run(t) \/ WaitReturn(t)
  \/ EndQueued(t) \/ EndInline(t) \/ EndCall(t)

Next ==
  \/ \E t \in Threads : Step(t) \/ Throw(t)
  \/ \E w \in Workers : SpuriousWake(w)

(* Every thread that can run is scheduled in the end. *)
Spec == Init /\ [][Next]_vars /\ \A t \in Threads : WF_vars(Step(t))

-----------------------------------------------------------------------------
Frames(t) == {stack[t][k] : k \in DOMAIN stack[t]}

TypeOK ==
  /\ queue \in Seq(Jobs) /\ active \in 0 .. Cardinality(Threads) * Cardinality(Jobs)
  /\ num \in [Users -> Nat] /\ error_flag \in [Users -> BOOLEAN]
  /\ depth \in [Threads -> Nat] /\ is_leaf \in [Threads -> BOOLEAN]
  /\ asleep \subseteq Workers /\ threw \subseteq Users
  /\ \A t \in Threads : \A f \in Frames(t) :
        /\ f.who \in Users /\ f.how \in {"call", "queue", "inline"}
        /\ f.at \in {"body", "flush", "wait", "end", "leave"}
        /\ f.i \in 0 .. Len(Body[f.who])
  /\ status \in [Jobs -> {"new", "given", "ended"}] /\ waits \in [Users -> Nat]

(* An exception is never lost: it is in the waiter's error flag, or on its way
   through the body that submitted the job (run's catch, submit's lack of one). *)
ExceptionIsReported ==
  \A j \in threw \cap Jobs :
    \/ error_flag[Owner[j]] \/ Owner[j] \in threw
    \/ \E t \in Threads : \E f \in Frames(t) : f.who = Owner[j] /\ f.thrown

(* Every use of the pool ends: however jobs wait inside jobs and bury what
   they pick up meanwhile under their own wait, some thread goes on (wait
   empties the queue before it blocks; notify_one in submit and dec).       *)
CallersReturn == \A c \in Callers : <>(stack[c] = <<>>)

(* The pool keeps the promise of JobGroups. *)
Abstract ==
  INSTANCE JobGroups WITH Callers <- Callers, Jobs <- Jobs, Owner <- Owner,
                          status <- status, waits <- waits
ImplementsJobGroups == Abstract!Spec
=============================================================================
