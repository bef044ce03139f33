-------------------------- MODULE ThreadpoolProofs --------------------------
(***************************************************************************)
(* Every step of the pool keeps the invariant of ThreadpoolInv and is a    *)
(* step of JobGroups or none, so that the pool implements JobGroups; and   *)
(* it loses no exception.                                                  *)
(***************************************************************************)
EXTENDS Threadpool, ThreadpoolInv

(* The invariant, of the state of the pool. *)
PoolInv == PoolOk(stack, status, queue, num)

(* submit puts a leaf job at the front of the queue and others at its end.  *)
LEMMA EnqueueFacts ==
  ASSUME queue \in Seq(Jobs), NEW j \in Jobs, \A p \in 1..Len(queue) : queue[p] # j,
         \A p, r \in 1..Len(queue) : queue[p] = queue[r] => p = r
  PROVE  Joined(queue, j, Enqueue(j))
<1> DEFINE e == Enqueue(j)
<1>1. CASE j \in Leaf
  <2>1. e = <<j>> \o queue
    BY <1>1 DEF Enqueue
  <2>2. e \in Seq(Jobs) /\ Len(e) = Len(queue) + 1 /\ Len(queue) \in Nat /\ e[1] = j
    BY <2>1
  <2>3. \A p \in 2..(Len(queue) + 1) : p - 1 \in 1..Len(queue) /\ e[p] = queue[p - 1]
    BY <2>1
  <2> HIDE DEF e
  <2>4. \A p \in 1..Len(e) : p = 1 \/ p \in 2..(Len(queue) + 1)
    BY <2>2
  <2>5. \A p \in 1..Len(e) : e[p] = j \/ \E r \in 1..Len(queue) : e[p] = queue[r]
    BY <2>2, <2>3, <2>4, SMTT(30)
  <2>6. ASSUME NEW p \in 1..Len(e), NEW r \in 1..Len(e), e[p] = e[r] PROVE p = r
    <3>1. CASE p = 1 \/ r = 1
      <4>1. \A k \in 2..(Len(queue) + 1) : e[k] # j
        BY <2>3, Zenon
      <4> QED BY <2>2, <2>4, <2>6, <3>1, <4>1
    <3>2. CASE p \in 2..(Len(queue) + 1) /\ r \in 2..(Len(queue) + 1)
      <4>1. p - 1 = r - 1
        BY <2>3, <2>6, <3>2, SMTT(30)
      <4> QED BY <3>2, <4>1
    <3> QED BY <2>4, <3>1, <3>2, Zenon
  <2> QED BY <2>2, <2>5, <2>6, Zenon DEF e, Joined
<1>2. CASE j \notin Leaf
  <2>1. e = Append(queue, j)
    BY <1>2, Zenon DEF Enqueue
  <2>2. /\ e \in Seq(Jobs) /\ Len(e) = Len(queue) + 1 /\ Len(queue) \in Nat
        /\ \A p \in 1..Len(queue) : e[p] = queue[p]
        /\ e[Len(queue) + 1] = j
    BY <2>1, AppendFacts
  <2> HIDE DEF e
  <2>3. \A p \in 1..Len(e) : p = Len(queue) + 1 \/ p \in 1..Len(queue)
    BY <2>2
  <2>4. \A p \in 1..Len(e) : e[p] = j \/ \E r \in 1..Len(queue) : e[p] = queue[r]
    BY <2>2, <2>3, Zenon
  <2>5. \A p, r \in 1..Len(e) : e[p] = e[r] => p = r
    BY <2>2, <2>3, Zenon
  <2> QED BY <2>2, <2>4, <2>5 DEF e, Joined
<1> QED BY <1>1, <1>2, Zenon

(* A step of the pool keeps the invariant and is a step of JobGroups, or
   changes nothing there.                                                   *)
StepIsGood == PoolInv' /\ [Abstract!Next]_(Abstract!vars)

(* A user on top of a stack that has not left it is alive. *)
LEMMA TopIsAlive ==
  ASSUME PoolInv, NEW t \in Threads, Busy(t), Top(t).at # "leave"
  PROVE  /\ Top(t) = Top_(stack, t) /\ stack[t] # <<>> /\ Top(t) \in FrameType
         /\ Top(t).who \in Users /\ Abstract!Alive(Top(t).who)
<1>1. stack \in [Threads -> Seq(FrameType)] /\ FramesOk(stack, status)
  BY Zenon DEF PoolInv, PoolOk, Typed
<1>2. stack[t] # <<>> /\ Top(t) = Top_(stack, t)
  BY Zenon DEF Busy, Top, Top_
<1>3. Len(stack[t]) \in 1..Len(stack[t]) /\ Top(t) \in FrameType
  BY <1>1, <1>2, TopFacts
<1>4. FrameOk(stack, status, t, Len(stack[t]))
  BY <1>1, <1>3, Zenon DEF FramesOk
<1>5. Top(t).who \in Jobs => status[Top(t).who] = "given"
  BY <1>4, Zenon DEF FrameOk, Top
<1> QED BY <1>2, <1>3, <1>5, FrameFields, Zenon DEF Abstract!Alive

(* Steps that move the running user on: they change one frame and no job.   *)
LEMMA CallWaitIsGood ==
  ASSUME PoolInv, NEW t \in Threads, CallWait(t) PROVE StepIsGood
<1> DEFINE f == Top(t)
           g == [f EXCEPT !.at = "flush"]
<1>1. Busy(t) /\ f.at = "body" /\ stack' = WithTop(t, g)
      /\ UNCHANGED <<queue, num, status, waits>>
  BY DEF CallWait
<1>2. f = Top_(stack, t) /\ stack[t] # <<>> /\ f \in FrameType /\ f.i \in Nat
  BY <1>1, TopIsAlive, FrameFields, ZenonT(60)
<1> HIDE DEF f
<1>3. g \in FrameType /\ g.who = f.who /\ g.how = f.how /\ g.i = f.i /\ g.at = "flush"
  <2>1. g \in FrameType
    BY <1>2 DEF FrameType
  <2>2. g.who = f.who /\ g.how = f.how /\ g.i = f.i /\ g.at = "flush"
    BY <1>2, FrameFields
  <2> QED BY <2>1, <2>2, Zenon
<1>4. stack' = SetTop(stack, t, g)
  BY <1>1, Zenon DEF WithTop, SetTop
<1> HIDE DEF g
<1>5. PoolOk(SetTop(stack, t, g), status, queue, num)
  <2>1. PoolOk(stack, status, queue, num)
    BY Zenon DEF PoolInv
  <2>2. g.i >= f.i
    BY <1>2, <1>3
  <2> QED BY <1>1, <1>2, <1>3, <2>1, <2>2, GoesOn, Zenon
<1> QED BY <1>1, <1>4, <1>5, Zenon DEF StepIsGood, PoolInv, Abstract!vars

(* A job throws: only its frame is marked.                                  *)
LEMMA ThrowIsGood ==
  ASSUME PoolInv, NEW t \in Threads, Throw(t) PROVE StepIsGood
<1> DEFINE f == Top(t)
           g == [f EXCEPT !.thrown = TRUE]
<1>1. Busy(t) /\ f.at = "body" /\ stack' = WithTop(t, g)
      /\ UNCHANGED <<queue, num, status, waits>>
  BY Zenon DEF Throw
<1>2. f = Top_(stack, t) /\ stack[t] # <<>> /\ f \in FrameType /\ f.i \in Nat
  BY <1>1, TopIsAlive, FrameFields, Zenon
<1> HIDE DEF f
<1>3. g \in FrameType /\ g.who = f.who /\ g.how = f.how /\ g.i = f.i /\ g.at = f.at
  <2>1. g \in FrameType
    BY <1>2, Zenon DEF FrameType
  <2>2. g.who = f.who /\ g.how = f.how /\ g.i = f.i /\ g.at = f.at
    BY <1>2, FrameFields
  <2> QED BY <2>1, <2>2, Zenon
<1>4. stack' = SetTop(stack, t, g)
  BY <1>1, Zenon DEF WithTop, SetTop
<1> HIDE DEF g
<1>5. PoolOk(SetTop(stack, t, g), status, queue, num)
  <2>1. PoolOk(stack, status, queue, num)
    BY Zenon DEF PoolInv
  <2>2. g.i >= f.i
    BY <1>2, <1>3
  <2> QED BY <1>1, <1>2, <1>3, <2>1, <2>2, GoesOn, Zenon
<1> QED BY <1>1, <1>4, <1>5, Zenon DEF StepIsGood, PoolInv, Abstract!vars

(* wait returns: every job of its user has ended.                           *)
LEMMA WaitReturnIsGood ==
  ASSUME PoolInv, NEW t \in Threads, WaitReturn(t) PROVE StepIsGood
<1> DEFINE f == Top(t)
           last == f.thrown \/ f.i = Len(Body[f.who])
           g == [f EXCEPT !.at = IF last THEN "end" ELSE "body", !.i = IF last THEN @ ELSE @ + 1]
<1>1. /\ Busy(t) /\ f.at = "wait" /\ num[f.who] = 0 /\ stack' = WithTop(t, g)
      /\ waits' = [waits EXCEPT ![f.who] = @ + 1]
      /\ UNCHANGED <<queue, num, status>>
  BY Zenon DEF WaitReturn
<1>2. /\ f = Top_(stack, t) /\ stack[t] # <<>> /\ f \in FrameType /\ f.i \in Nat
      /\ f.who \in Users /\ Abstract!Alive(f.who)
  BY <1>1, TopIsAlive, FrameFields, Zenon
<1>3. PoolOk(stack, status, queue, num)
  BY Zenon DEF PoolInv
<1>4. \A j \in Kids(f.who) : status[j] # "given"
  BY <1>1, <1>2, <1>3, ZeroMeansEnded, Zenon
<1> HIDE DEF f
<1>5. /\ g \in FrameType /\ g.who = f.who /\ g.how = f.how /\ g.i >= f.i
      /\ g.at \in {"end", "body"}
  <2> DEFINE a == IF last THEN "end" ELSE "body"
             i == IF last THEN f.i ELSE f.i + 1
  <2>1. g = [f EXCEPT !.at = a, !.i = i]
    OBVIOUS
  <2>2. a \in {"end", "body"} /\ i \in Nat /\ i >= f.i
    BY <1>2
  <2> HIDE DEF a, i, last, g
  <2>3. a \in {"body", "flush", "wait", "end", "leave"}
    BY <2>2
  <2>4. g \in FrameType
    BY <1>2, <2>1, <2>2, <2>3, FrameFacts, Zenon
  <2>5. g.who = f.who /\ g.how = f.how /\ g.i = i /\ g.at = a
    BY <1>2, <2>1, FrameFields
  <2> QED BY <2>2, <2>4, <2>5, Zenon
<1>6. stack' = SetTop(stack, t, g)
  BY <1>1, Zenon DEF WithTop, SetTop
<1> HIDE DEF g, last
<1>7. PoolOk(SetTop(stack, t, g), status, queue, num)
  <2>1. (g.at = "leave") <=> (f.at = "leave")
    BY <1>1, <1>5, Zenon
  <2>2. g.at = "end" /\ f.at # "end" => \A j \in Kids(g.who) : status[j] # "given"
    BY <1>4, <1>5, Zenon
  <2> QED BY <1>2, <1>3, <1>5, <2>1, <2>2, GoesOn, Zenon
<1>8. Abstract!KidsEnded(f.who)
  BY <1>4, Zenon DEF Abstract!KidsEnded, Kids
<1>9. f.who \in Abstract!Users
  BY <1>2, Zenon DEF Abstract!Users, Users
<1>10. Abstract!Wait(f.who)
  BY <1>1, <1>2, <1>8, Zenon DEF Abstract!Wait
<1> QED BY <1>1, <1>6, <1>7, <1>9, <1>10, ZenonT(60) DEF StepIsGood, PoolInv, Abstract!Next

(* submit hands over a job that was new, for a user that is alive.          *)
LEMMA SubmitIsGood ==
  ASSUME PoolInv, NEW t \in Threads, submit(t) PROVE StepIsGood
<1> DEFINE f == Top(t)
           j == Body[f.who][f.i + 1]
           g == [f EXCEPT !.i = @ + 1]
<1>1. /\ Busy(t) /\ f.at = "body" /\ f.i < Len(Body[f.who]) /\ j # WAIT
      /\ status' = [status EXCEPT ![j] = "given"] /\ UNCHANGED waits
      /\ \/ /\ stack' = [WithTop(t, g) EXCEPT ![t] = Append(@, Frame(j, "inline"))]
            /\ UNCHANGED <<queue, num>>
         \/ /\ num' = [num EXCEPT ![f.who] = @ + 1] /\ queue' = Enqueue(j)
            /\ stack' = WithTop(t, g)
  BY ZenonT(60) DEF submit
<1>2. /\ f = Top_(stack, t) /\ stack[t] # <<>> /\ f \in FrameType /\ f.i \in Nat
      /\ f.who \in Users /\ Abstract!Alive(f.who)
  BY <1>1, TopIsAlive, FrameFields, ZenonT(60)
<1>3. f.i + 1 \in DOMAIN Body[f.who]
  <2>1. Body[f.who] \in Seq(Jobs \cup {WAIT})
    BY <1>2, BodyAssumption, Zenon
  <2>2. DOMAIN Body[f.who] = 1..Len(Body[f.who]) /\ Len(Body[f.who]) \in Nat
    BY <2>1
  <2> DEFINE i == f.i  n == Len(Body[f.who])
  <2>3. i \in Nat /\ n \in Nat /\ i < n
    BY <1>1, <1>2, <2>2, Zenon
  <2> HIDE DEF i, n
  <2>4. i + 1 \in 1..n
    BY <2>3, SMT
  <2> QED BY <2>2, <2>4, Zenon DEF i, n
<1>4. PoolOk(stack, status, queue, num)
  BY DEF PoolInv
<1> DEFINE L == SetTop(stack, t, g)
           st2 == [status EXCEPT ![j] = "given"]
<1>5. Handed(stack, status, queue, num, t, j, L, st2)
  <2>1. /\ Top_(stack, t).at = "body" /\ Top_(stack, t).i + 1 \in DOMAIN Body[Top_(stack, t).who]
        /\ j = Body[Top_(stack, t).who][Top_(stack, t).i + 1]
        /\ L = SetTop(stack, t, [Top_(stack, t) EXCEPT !.i = @ + 1])
    BY <1>1, <1>2, <1>3, ZenonT(60)
  <2> HIDE DEF L, j, f, g
  <2> QED BY <1>1, <1>2, <1>4, <2>1, Hands, Zenon
<1>6. WithTop(t, g) = L /\ status' = st2
  BY <1>1, SMTT(30) DEF WithTop, SetTop
<1>7. Owner[j] = f.who /\ j \in Jobs /\ status[j] = "new"
  BY <1>2, <1>5, Zenon DEF Handed
<1> HIDE DEF f, g, j, L, st2
<1>8. PoolOk(stack', status', queue', num')
  <2>1. CASE /\ stack' = [WithTop(t, g) EXCEPT ![t] = Append(@, Frame(j, "inline"))]
             /\ UNCHANGED <<queue, num>>
    <3>1. stack' = Push(L, t, Frame(j, "inline"))
      BY <1>6, <2>1, Zenon DEF Push
    <3>2. PoolOk(Push(L, t, Frame(j, "inline")), st2, queue, num)
      BY <1>5, GivesInline, Zenon
    <3> QED BY <1>6, <2>1, <3>1, <3>2, Zenon
  <2>2. CASE /\ num' = [num EXCEPT ![f.who] = @ + 1] /\ queue' = Enqueue(j)
             /\ stack' = WithTop(t, g)
    <3>1. /\ queue \in Seq(Jobs) /\ \A p \in 1..Len(queue) : queue[p] # j
          /\ \A p, r \in 1..Len(queue) : queue[p] = queue[r] => p = r
      BY <1>5, Zenon DEF Handed, Typed, QueueOk
    <3>2. Joined(queue, j, Enqueue(j))
      BY <1>7, <3>1, EnqueueFacts, Zenon
    <3>3. PoolOk(L, st2, Enqueue(j), [num EXCEPT ![Owner[j]] = @ + 1])
      BY <1>5, <3>2, GivesQueued, Zenon
    <3> QED BY <1>6, <1>7, <2>2, <3>3, ZenonT(60)
  <2> QED BY <1>1, <2>1, <2>2, Zenon
<1>9. Abstract!Give(j)
  BY <1>1, <1>2, <1>7, ZenonT(60) DEF Abstract!Give
<1> QED BY <1>7, <1>8, <1>9, ZenonT(60) DEF StepIsGood, PoolInv, Abstract!Next

(* The two ways through the locked part of run: a job starts above the stacks
   K, or the wait on top of them blocks.                                    *)
LEMMA LoopStarts ==
  ASSUME NEW t \in Threads, NEW K, PoolOk(K, status, queue, num), queue # <<>>,
         K[t] # <<>> => Top_(K, t).at = "flush",
         stack' = Push(K, t, Frame(Head(queue), "queue")), queue' = Tail(queue),
         UNCHANGED <<num, status, waits>>
  PROVE  StepIsGood
<1>1. PoolOk(Push(K, t, Frame(Head(queue), "queue")), status, Tail(queue), num)
  BY Starts, Zenon
<1> QED BY <1>1, Zenon DEF StepIsGood, PoolInv, Abstract!vars

(* run finds the queue empty: a worker sleeps, a waiter blocks.             *)
LEMMA LoopBlocks ==
  ASSUME NEW t \in Threads, NEW K, PoolOk(K, status, queue, num),
         K[t] # <<>> , Top_(K, t).at = "flush",
         stack' = SetTop(K, t, [Top_(K, t) EXCEPT !.at = "wait"]),
         UNCHANGED <<queue, num, status, waits>>
  PROVE  StepIsGood
<1> DEFINE f == Top_(K, t)
           g == [f EXCEPT !.at = "wait"]
<1>1. K \in [Threads -> Seq(FrameType)] /\ f.at = "flush" /\ stack' = SetTop(K, t, g)
  BY Zenon DEF PoolOk, Typed
<1>2. f \in FrameType /\ f.i \in Nat
  BY <1>1, TopFacts, FrameFields, Zenon
<1> HIDE DEF f
<1>3. g \in FrameType
  BY <1>2, Zenon DEF FrameType
<1>4. g.who = f.who /\ g.how = f.how /\ g.i >= f.i /\ g.at = "wait"
  BY <1>2, FrameFields
<1> HIDE DEF g
<1>5. PoolOk(SetTop(K, t, g), status, queue, num)
  BY <1>1, <1>3, <1>4, GoesOn, Zenon DEF f
<1> QED BY <1>1, <1>5, Zenon DEF StepIsGood, PoolInv, Abstract!vars

(* run takes jobs off the queue and leaves frames of jobs that have ended.  *)
LEMMA RunIsGood ==
  ASSUME PoolInv, NEW t \in Threads, run(t) PROVE StepIsGood
<1>1. /\ PoolOk(stack, status, queue, num) /\ stack \in [Threads -> Seq(FrameType)]
      /\ FramesOk(stack, status)
  BY Zenon DEF PoolInv, PoolOk, Typed
<1>2. UNCHANGED <<num, status, waits>>
  BY Zenon DEF run
<1>3. CASE ~Busy(t) /\ Loop(t, <<>>, active)
  <2>1. stack[t] = <<>>
    BY <1>3, Zenon DEF Busy
  <2>2. CASE queue # <<>>
    <3>1. stack' = [stack EXCEPT ![t] = Append(<<>>, Frame(Head(queue), "queue"))]
          /\ queue' = Tail(queue)
      BY <1>3, <2>2, Zenon DEF Loop
    <3>2. stack' = Push(stack, t, Frame(Head(queue), "queue"))
      BY <2>1, <3>1, Zenon DEF Push
    <3> QED BY <1>1, <1>2, <2>1, <2>2, <3>1, <3>2, LoopStarts, ZenonT(60)
  <2>3. CASE queue = <<>>
    <3>1. stack' = [stack EXCEPT ![t] = <<>>] /\ queue' = queue
      BY <1>3, <2>3, ZenonT(60) DEF Loop
    <3>2. stack' = stack
      BY <1>1, <2>1, <3>1, Zenon
    <3> QED BY <1>1, <1>2, <3>1, <3>2, ZenonT(60) DEF StepIsGood, PoolInv, Abstract!vars
  <2> QED BY <2>2, <2>3, Zenon
<1>4. CASE Busy(t) /\ Top(t).at = "flush" /\ Loop(t, stack[t], active)
  <2>1. stack[t] # <<>> /\ Top_(stack, t).at = "flush"
    BY <1>4, Zenon DEF Busy, Top, Top_
  <2>2. CASE queue # <<>>
    <3>1. stack' = Push(stack, t, Frame(Head(queue), "queue")) /\ queue' = Tail(queue)
      BY <1>4, <2>2, Zenon DEF Loop, Push
    <3> QED BY <1>1, <1>2, <2>1, <2>2, <3>1, LoopStarts, Zenon
  <2>3. CASE queue = <<>>
    <3>1. stack' = SetTop(stack, t, [Top_(stack, t) EXCEPT !.at = "wait"]) /\ queue' = queue
      BY <1>4, <2>1, <2>3, ZenonT(60) DEF Loop, SetTop, Top_
    <3> QED BY <1>1, <1>2, <2>1, <3>1, LoopBlocks, Zenon
  <2> QED BY <2>2, <2>3, Zenon
<1>5. CASE Busy(t) /\ Top(t).at = "leave" /\ Loop(t, Front(stack[t]), active - 1)
  <2> DEFINE K == Pop(stack, t)
  <2>1. stack[t] # <<>> /\ Top_(stack, t).at = "leave"
    BY <1>5, Zenon DEF Busy, Top, Top_
  <2>2. PoolOk(K, status, queue, num)
    BY <1>1, <2>1, IsLeft, ZenonT(60)
  <2>3. K[t] = Front(stack[t])
    BY <1>1, Zenon DEF Pop
  <2>4. K[t] # <<>> => Top_(K, t).at = "flush"
    <3>1. /\ Len(stack[t]) \in Nat \ {0} /\ Len(K[t]) = Len(stack[t]) - 1
          /\ \A k \in 1..(Len(stack[t]) - 1) : K[t][k] = stack[t][k]
          /\ K[t] \in Seq(FrameType)
      BY <1>1, <2>1, <2>3, FrontFacts
    <3>2. Len(stack[t]) \in 1..Len(stack[t]) /\ Top_(stack, t) = stack[t][Len(stack[t])]
      BY <3>1 DEF Top_
    <3>3. FrameOk(stack, status, t, Len(stack[t]))
      BY <1>1, <3>2, Zenon DEF FramesOk
    <3>4. Len(stack[t]) > 1 => stack[t][Len(stack[t]) - 1].at = "flush"
      BY <2>1, <3>2, <3>3, ZenonT(60) DEF FrameOk
    <3> HIDE DEF K
    <3>5. ASSUME K[t] # <<>> PROVE Top_(K, t).at = "flush"
      <4>1. Len(K[t]) # 0 /\ Len(K[t]) \in Nat
        BY <3>1, <3>5, EmptyIsEmpty, Zenon
      <4>2. Len(stack[t]) > 1 /\ Len(K[t]) \in 1..(Len(stack[t]) - 1)
        <5> DEFINE a == Len(K[t])
                   b == Len(stack[t])
        <5>1. a \in Nat /\ a # 0 /\ b \in Nat /\ a = b - 1
          BY <3>1, <4>1
        <5> HIDE DEF a, b
        <5>2. b > 1 /\ a \in 1..(b - 1)
          BY <5>1
        <5> QED BY <5>2 DEF a, b
      <4> QED BY <3>1, <3>4, <4>2, SMTT(30) DEF Top_
    <3> QED BY <3>5, Zenon
  <2>5. CASE queue # <<>>
    <3>1. stack' = [stack EXCEPT ![t] = Append(Front(stack[t]), Frame(Head(queue), "queue"))]
          /\ queue' = Tail(queue)
      BY <1>5, <2>5, Zenon DEF Loop
    <3>2. stack' = Push(K, t, Frame(Head(queue), "queue"))
      BY <1>1, <3>1, Zenon DEF Push, Pop
    <3> HIDE DEF K
    <3> QED BY <1>2, <2>2, <2>4, <2>5, <3>1, <3>2, LoopStarts, ZenonT(60)
  <2>6. CASE queue = <<>> /\ K[t] = <<>>
    <3>1. stack' = [stack EXCEPT ![t] = Front(stack[t])] /\ queue' = queue
      BY <1>5, <2>3, <2>6, ZenonT(60) DEF Loop
    <3>2. stack' = K
      BY <1>1, <3>1, Zenon DEF Pop
    <3> HIDE DEF K
    <3> QED BY <1>2, <2>2, <3>1, <3>2, Zenon DEF StepIsGood, PoolInv, Abstract!vars
  <2>7. CASE queue = <<>> /\ K[t] # <<>>
    <3>1. /\ stack' = [stack EXCEPT ![t] =
                Append(Front(K[t]), [K[t][Len(K[t])] EXCEPT !.at = "wait"])]
          /\ queue' = queue
      BY <1>5, <2>3, <2>7, ZenonT(60) DEF Loop
    <3>2. [stack EXCEPT ![t] = Append(Front(K[t]), [K[t][Len(K[t])] EXCEPT !.at = "wait"])]
          = [K EXCEPT ![t] = Append(Front(@), [K[t][Len(K[t])] EXCEPT !.at = "wait"])]
      BY <1>1, Zenon DEF Pop
    <3>3. stack' = SetTop(K, t, [Top_(K, t) EXCEPT !.at = "wait"])
      BY <3>1, <3>2, Zenon DEF SetTop, Top_
    <3> HIDE DEF K
    <3> QED BY <1>2, <2>2, <2>4, <2>7, <3>1, <3>3, LoopBlocks, Zenon
  <2> QED BY <2>5, <2>6, <2>7, Zenon
<1> QED BY <1>3, <1>4, <1>5, ZenonT(60) DEF run

(* A body that is at its end has nothing running.                           *)
LEMMA AtEndFacts ==
  ASSUME PoolInv, NEW t \in Threads, AtEnd(t)
  PROVE  /\ Top(t) = Top_(stack, t) /\ stack[t] # <<>> /\ Top(t) \in FrameType
         /\ Top(t).at # "leave" /\ Top(t).who \in Users
         /\ Top(t).how # "call" =>
              /\ Top(t).who \in Jobs /\ status[Top(t).who] = "given"
              /\ Abstract!KidsEnded(Top(t).who)
<1> DEFINE f == Top(t)
<1>1. Busy(t) /\ f.at # "leave" /\ (f.at = "end" \/ Body[f.who] = <<>>)
  BY Zenon DEF AtEnd
<1>2. /\ f = Top_(stack, t) /\ stack[t] # <<>> /\ f \in FrameType
      /\ f.who \in Users /\ Abstract!Alive(f.who)
  BY <1>1, TopIsAlive, Zenon
<1>3. stack \in [Threads -> Seq(FrameType)] /\ FramesOk(stack, status)
  BY Zenon DEF PoolInv, PoolOk, Typed
<1>4. Len(stack[t]) \in 1..Len(stack[t]) /\ f = stack[t][Len(stack[t])]
  BY <1>2, <1>3, TopFacts DEF Top_
<1>5. FrameOk(stack, status, t, Len(stack[t]))
  BY <1>3, <1>4, Zenon DEF FramesOk
<1> HIDE DEF f
<1>6. f.how # "call" => f.who \in Jobs
  BY <1>4, <1>5, Zenon DEF FrameOk
<1>7. \A j \in Kids(f.who) : status[j] # "given"
  <2>1. CASE f.at = "end"
    BY <1>4, <1>5, <2>1, Zenon DEF FrameOk
  <2>2. CASE Body[f.who] = <<>>
    <3>1. ASSUME NEW j \in Kids(f.who) PROVE FALSE
      <4>1. PICK i \in DOMAIN Body[f.who] : Body[f.who][i] = j
        BY <3>1, OwnerIsUser, Zenon DEF Kids
      <4> QED BY <2>2, <4>1
    <3> QED BY <3>1, Zenon
  <2> QED BY <1>1, <2>1, <2>2, Zenon
<1> QED BY <1>1, <1>2, <1>6, <1>7, ZenonT(60) DEF Abstract!Alive, Abstract!KidsEnded, Kids, f

(* A job from the queue ends and waiter::dec follows.                       *)
LEMMA EndQueuedIsGood ==
  ASSUME PoolInv, NEW t \in Threads, EndQueued(t) PROVE StepIsGood
<1> DEFINE f == Top(t)
           j == f.who
<1>1. /\ AtEnd(t) /\ f.how = "queue"
      /\ num' = [num EXCEPT ![Owner[j]] = @ - 1]
      /\ stack' = WithTop(t, [f EXCEPT !.at = "leave"])
      /\ status' = IF j \in Jobs THEN [status EXCEPT ![j] = "ended"] ELSE status
      /\ UNCHANGED <<queue, waits>>
  BY DEF EndQueued, Ended
<1>2. /\ f = Top_(stack, t) /\ stack[t] # <<>> /\ f.at # "leave"
      /\ j \in Jobs /\ status[j] = "given" /\ Abstract!KidsEnded(j)
  BY <1>1, AtEndFacts, Zenon
<1>3. /\ stack' = SetTop(stack, t, [Top_(stack, t) EXCEPT !.at = "leave"])
      /\ status' = [status EXCEPT ![j] = "ended"]
  BY <1>1, <1>2, Zenon DEF WithTop, SetTop
<1>4. j = Top_(stack, t).who /\ Top_(stack, t).how = "queue" /\ Top_(stack, t).at # "leave"
  BY <1>1, <1>2, Zenon
<1>5. PoolOk(stack, status, queue, num)
  BY Zenon DEF PoolInv
<1> HIDE DEF f, j
<1>6. PoolOk(SetTop(stack, t, [Top_(stack, t) EXCEPT !.at = "leave"]),
             [status EXCEPT ![j] = "ended"], queue, [num EXCEPT ![Owner[j]] = @ - 1])
  BY <1>2, <1>4, <1>5, EndsQueued, Zenon
<1>7. Abstract!End(j)
  BY <1>1, <1>2, <1>3, Zenon DEF Abstract!End
<1> QED BY <1>1, <1>2, <1>3, <1>6, <1>7, ZenonT(60) DEF StepIsGood, PoolInv, Abstract!Next

(* A job that submit called returns or throws.                              *)
LEMMA EndInlineIsGood ==
  ASSUME PoolInv, NEW t \in Threads, EndInline(t) PROVE StepIsGood
<1> DEFINE f == Top(t)
           j == f.who
           K == Pop(stack, t)
           st2 == [status EXCEPT ![j] = "ended"]
<1>1. /\ AtEnd(t) /\ f.how = "inline"
      /\ stack' = [stack EXCEPT ![t] =
              IF f.thrown
              THEN Append(Front(Front(stack[t])),
                          [Front(stack[t])[Len(Front(stack[t]))] EXCEPT !.thrown = TRUE])
              ELSE Front(stack[t])]
      /\ status' = IF j \in Jobs THEN [status EXCEPT ![j] = "ended"] ELSE status
      /\ UNCHANGED <<queue, num, waits>>
  BY Zenon DEF EndInline, Ended
<1>2. /\ f = Top_(stack, t) /\ stack[t] # <<>>
      /\ j \in Jobs /\ status[j] = "given" /\ Abstract!KidsEnded(j)
  BY <1>1, AtEndFacts, Zenon
<1>3. PoolOk(stack, status, queue, num) /\ stack \in [Threads -> Seq(FrameType)]
  BY Zenon DEF PoolInv, PoolOk, Typed
<1>4. PoolOk(K, st2, queue, num) /\ K[t] # <<>>
  <2>1. j = Top_(stack, t).who /\ Top_(stack, t).how = "inline"
    BY <1>1, <1>2, Zenon
  <2> HIDE DEF j, f
  <2> QED BY <1>2, <1>3, <2>1, EndsInline
<1>5. status' = st2
  BY <1>1, <1>2, Zenon
<1>6. PoolOk(stack', st2, queue, num)
  <2>1. CASE ~f.thrown
    <3>1. stack' = K
      BY <1>1, <2>1, Zenon DEF Pop
    <3> QED BY <1>4, <3>1, Zenon
  <2>2. CASE f.thrown
    <3> DEFINE h == Top_(K, t)
               g == [h EXCEPT !.thrown = TRUE]
    <3>1. K[t] = Front(stack[t])
      BY <1>3, Zenon DEF Pop
    <3>2. stack' = [stack EXCEPT ![t] = Append(Front(K[t]), g)]
      BY <1>1, <2>2, <3>1, Zenon DEF Top_
    <3>3. stack' = SetTop(K, t, g)
      BY <1>3, <3>2, Zenon DEF SetTop, Pop
    <3> HIDE DEF K, st2
    <3>4. h \in FrameType /\ h.i \in Nat
      BY <1>4, TopFacts, FrameFields, Zenon DEF PoolOk, Typed
    <3> HIDE DEF h
    <3>5. g \in FrameType
      BY <3>4, Zenon DEF FrameType
    <3>6. g.who = h.who /\ g.how = h.how /\ g.i >= h.i /\ g.at = h.at
      BY <3>4, FrameFields
    <3> HIDE DEF g
    <3>7. PoolOk(SetTop(K, t, g), st2, queue, num)
      BY <1>4, <3>5, <3>6, GoesOn, Zenon DEF h
    <3> QED BY <3>3, <3>7, Zenon
  <2> QED BY <2>1, <2>2, Zenon
<1>7. Abstract!End(j)
  BY <1>1, <1>2, Zenon DEF Abstract!End
<1> QED BY <1>1, <1>2, <1>5, <1>6, <1>7, ZenonT(60) DEF StepIsGood, PoolInv, Abstract!Next

(* A caller is done with the pool.                                          *)
LEMMA EndCallIsGood ==
  ASSUME PoolInv, NEW t \in Threads, EndCall(t) PROVE StepIsGood
<1> DEFINE f == Top(t)
<1>1. /\ AtEnd(t) /\ f.how = "call" /\ stack' = [stack EXCEPT ![t] = <<>>]
      /\ status' = IF f.who \in Jobs THEN [status EXCEPT ![f.who] = "ended"] ELSE status
      /\ UNCHANGED <<queue, num, waits>>
  BY Zenon DEF EndCall, Ended
<1>2. f = Top_(stack, t) /\ stack[t] # <<>>
  BY <1>1, AtEndFacts, Zenon
<1>3. PoolOk(stack, status, queue, num)
  BY Zenon DEF PoolInv
<1>4. PoolOk([stack EXCEPT ![t] = <<>>], status, queue, num) /\ f.who \notin Jobs
  BY <1>1, <1>2, <1>3, EndsCall, Zenon
<1> QED BY <1>1, <1>4, Zenon DEF StepIsGood, PoolInv, Abstract!vars

(* At the start every caller is at the beginning of its body.               *)
LEMMA PoolStarts ==
  ASSUME Init PROVE PoolInv /\ Abstract!Init
<1>1. /\ queue = <<>> /\ num = [u \in Users |-> 0] /\ status = [j \in Jobs |-> "new"]
      /\ stack = [t \in Threads |-> IF t \in Callers THEN <<Frame(t, "call")>> ELSE <<>>]
      /\ waits = [u \in Users |-> 0]
  BY Zenon DEF Init
<1>2. \A c \in Callers : /\ Frame(c, "call") \in FrameType /\ Frame(c, "call").who = c
                         /\ Frame(c, "call").how = "call" /\ Frame(c, "call").i = 0
                         /\ Frame(c, "call").at = "body" /\ c \in Users
  BY NewFrame, ZenonT(60) DEF Users
<1>3. ASSUME NEW t \in Threads
      PROVE  /\ stack[t] \in Seq(FrameType)
             /\ \A k \in 1..Len(stack[t]) : t \in Callers /\ k = 1 /\ stack[t][k] = Frame(t, "call")
  <2>1. CASE t \in Callers
    <3>1. stack[t] = <<Frame(t, "call")>>
      BY <1>1, <2>1
    <3> QED BY <1>2, <2>1, <3>1
  <2>2. CASE t \notin Callers
    <3>1. stack[t] = <<>>
      BY <1>1, <2>2
    <3> QED BY <3>1
  <2> QED BY <2>1, <2>2
<1>4. Typed(stack, status, queue, num)
  <2>1. stack \in [Threads -> Seq(FrameType)]
    BY <1>1, <1>3
  <2> QED BY <1>1, <2>1 DEF Typed
<1>5. OneFrame(stack)
  BY <1>2, <1>3 DEF OneFrame
<1>6. FramesOk(stack, status)
  <2> SUFFICES ASSUME NEW t \in Threads, NEW k \in 1..Len(stack[t])
               PROVE  FrameOk(stack, status, t, k)
    BY Zenon DEF FramesOk
  <2>1. t \in Callers /\ k = 1 /\ stack[t][k] = Frame(t, "call") /\ t \notin Jobs
    BY <1>3, BodyAssumption
  <2>2. \A m \in DOMAIN Body[t] : Body[t][m] # WAIT => Body[t][m] \in Jobs
    BY <1>2, <2>1, OwnerFacts, Zenon
  <2> QED BY <1>1, <1>2, <2>1, <2>2 DEF FrameOk
<1>7. QueueOk(stack, status, queue) /\ NotStarted(status, queue)
  <2>1. Len(queue) = 0
    BY <1>1, Zenon
  <2>2. \A p \in 1..Len(queue) : FALSE
    BY <2>1
  <2> QED BY <1>1, <2>2, Zenon DEF QueueOk, NotStarted, Kids
<1>8. CountOk(stack, status, num)
  <2>1. \A u : Counted(stack, status, u) = {}
    BY <1>1, Zenon DEF Counted, Kids
  <2> QED BY <1>1, <2>1, NoneIsEmpty, Zenon DEF CountOk
<1>9. Abstract!Init
  BY <1>1, Zenon DEF Abstract!Init, Abstract!Users, Users
<1> QED BY <1>4, <1>5, <1>6, <1>7, <1>8, <1>9, Zenon DEF PoolInv, PoolOk

(* Every step of the pool keeps the invariant and is allowed by JobGroups.  *)
LEMMA NextIsGood ==
  ASSUME PoolInv, [Next]_vars PROVE StepIsGood
<1>1. CASE UNCHANGED vars
  BY <1>1, Zenon DEF vars, StepIsGood, PoolInv, Abstract!vars
<1>2. ASSUME NEW t \in Threads, Step(t) PROVE StepIsGood
  BY <1>2, SubmitIsGood, CallWaitIsGood, RunIsGood, WaitReturnIsGood, EndQueuedIsGood,
     EndInlineIsGood, EndCallIsGood DEF Step
<1>3. ASSUME NEW t \in Threads, Throw(t) PROVE StepIsGood
  BY <1>3, ThrowIsGood, Zenon
<1>4. ASSUME NEW w \in Workers, SpuriousWake(w) PROVE StepIsGood
  BY <1>4, Zenon DEF SpuriousWake, StepIsGood, PoolInv, Abstract!vars
<1> QED BY <1>1, <1>2, <1>3, <1>4, Zenon DEF Next

-----------------------------------------------------------------------------
(* Exceptions.  A user with an exception on its way out keeps it until its
   frame goes, and is then among those that ended by one.                   *)
IsThrown(K, u) == \E t \in Threads : \E k \in 1..Len(K[t]) : K[t][k].who = u /\ K[t][k].thrown

LeftOk(K, th) ==
  \A t \in Threads : \A k \in 1..Len(K[t]) :
    K[t][k].at = "leave" /\ K[t][k].thrown => K[t][k].who \in th

Reported(K, fl, th) ==
  \A j \in th \cap Jobs : fl[Owner[j]] \/ Owner[j] \in th \/ IsThrown(K, Owner[j])

ReportInv ==
  /\ error_flag \in [Users -> BOOLEAN]
  /\ LeftOk(stack, threw) /\ Reported(stack, error_flag, threw)

(* The invariant says what ExceptionIsReported says of the frames.          *)
LEMMA ReportedIsReported ==
  ASSUME PoolInv, ReportInv PROVE ExceptionIsReported
<1>1. stack \in [Threads -> Seq(FrameType)]
  BY Zenon DEF PoolInv, PoolOk, Typed
<1>2. ASSUME NEW u, IsThrown(stack, u)
      PROVE  \E t \in Threads : \E f \in Frames(t) : f.who = u /\ f.thrown
  <2>1. PICK t \in Threads : \E k \in 1..Len(stack[t]) : stack[t][k].who = u /\ stack[t][k].thrown
    BY <1>2, Zenon DEF IsThrown
  <2>2. PICK k \in 1..Len(stack[t]) : stack[t][k].who = u /\ stack[t][k].thrown
    BY <2>1, Zenon
  <2>3. k \in DOMAIN stack[t]
    BY <1>1
  <2>4. stack[t][k] \in Frames(t)
    BY <2>3, Zenon DEF Frames
  <2> QED BY <2>2, <2>4, Zenon
<1> QED BY <1>2 DEF ExceptionIsReported, ReportInv, Reported

(* A step that takes no exception away, but for users that end by it, and
   reports the new ones, keeps all of them reported.                        *)
LEMMA ReportsKept ==
  ASSUME NEW K, NEW L, NEW fl, NEW fl2, NEW th, NEW th2, Reported(K, fl, th),
         th \subseteq th2, \A u \in Users : fl[u] => fl2[u],
         \A u : IsThrown(K, u) => IsThrown(L, u) \/ u \in th2,
         \A j \in (th2 \ th) \cap Jobs : fl2[Owner[j]] \/ IsThrown(L, Owner[j])
  PROVE  Reported(L, fl2, th2)
<1> SUFFICES ASSUME NEW j \in th2 \cap Jobs
             PROVE  fl2[Owner[j]] \/ Owner[j] \in th2 \/ IsThrown(L, Owner[j])
  BY Zenon DEF Reported
<1>1. Owner[j] \in Users
  BY OwnerIsUser, Zenon
<1>2. CASE j \in th
  BY <1>1, <1>2, Zenon DEF Reported
<1>3. CASE j \notin th
  BY <1>3, Zenon
<1> QED BY <1>2, <1>3, Zenon

(* How exceptions travel when a frame is replaced, pushed or popped.        *)
LEMMA SetTopThrown ==
  ASSUME NEW K \in [Threads -> Seq(FrameType)], NEW t \in Threads, K[t] # <<>>,
         NEW g \in FrameType, g.who = Top_(K, t).who, Top_(K, t).thrown => g.thrown,
         NEW th, LeftOk(K, th), g.at = "leave" /\ g.thrown => g.who \in th
  PROVE  /\ LeftOk(SetTop(K, t, g), th)
         /\ \A u : IsThrown(K, u) => IsThrown(SetTop(K, t, g), u)
         /\ g.thrown => IsThrown(SetTop(K, t, g), g.who)
<1> DEFINE L == SetTop(K, t, g)
<1>1. /\ L \in [Threads -> Seq(FrameType)]
      /\ \A s \in Threads : Len(L[s]) = Len(K[s])
      /\ \A s \in Threads : \A k \in 1..Len(K[s]) :
           L[s][k] = IF s = t /\ k = Len(K[t]) THEN g ELSE K[s][k]
  <2>1. Replaced(K, t, g, SetTop(K, t, g))
    BY SetTopFacts, Zenon
  <2> QED BY <2>1, Zenon DEF Replaced
<1> HIDE DEF L
<1>2. LeftOk(L, th)
  BY <1>1 DEF LeftOk
<1>3. ASSUME NEW u, IsThrown(K, u) PROVE IsThrown(L, u)
  <2>1. PICK s \in Threads : \E k \in 1..Len(K[s]) : K[s][k].who = u /\ K[s][k].thrown
    BY <1>3, Zenon DEF IsThrown
  <2>2. PICK k \in 1..Len(K[s]) : K[s][k].who = u /\ K[s][k].thrown
    BY <2>1, Zenon
  <2>3. k \in 1..Len(L[s]) /\ L[s][k].who = u /\ L[s][k].thrown
    BY <1>1, <2>2 DEF Top_
  <2> QED BY <2>3, SMTT(30) DEF IsThrown
<1>4. ASSUME g.thrown PROVE IsThrown(L, g.who)
  <2>1. Len(K[t]) \in 1..Len(K[t])
    BY TopFacts
  <2>2. Len(K[t]) \in 1..Len(L[t]) /\ L[t][Len(K[t])] = g
    BY <1>1, <2>1, Zenon
  <2> QED BY <1>4, <2>2, Zenon DEF IsThrown
<1> QED BY <1>2, <1>3, <1>4, Zenon DEF L

(* A new frame carries no exception and hides none.                         *)
LEMMA PushThrown ==
  ASSUME NEW K \in [Threads -> Seq(FrameType)], NEW t \in Threads, NEW f \in FrameType,
         f.at = "body", NEW th, LeftOk(K, th)
  PROVE  /\ LeftOk(Push(K, t, f), th)
         /\ \A u : IsThrown(K, u) => IsThrown(Push(K, t, f), u)
<1> DEFINE L == Push(K, t, f)
<1>1. /\ L \in [Threads -> Seq(FrameType)] /\ Len(K[t]) \in Nat
      /\ \A s \in Threads : Len(L[s]) = IF s = t THEN Len(K[t]) + 1 ELSE Len(K[s])
      /\ \A s \in Threads : \A k \in 1..Len(K[s]) : L[s][k] = K[s][k]
      /\ L[t][Len(K[t]) + 1] = f
  <2>1. Pushed(K, t, f, L)
    BY PushFacts, Zenon
  <2> QED BY <2>1, Zenon DEF Pushed
<1> HIDE DEF L
<1>2. \A s \in Threads : Len(K[s]) \in Nat
  OBVIOUS
<1>3. ASSUME NEW s \in Threads, NEW k \in 1..Len(L[s])
      PROVE  (k \in 1..Len(K[s]) /\ L[s][k] = K[s][k]) \/ L[s][k] = f
  <2>1. CASE s = t
    BY <1>1, <2>1
  <2>2. CASE s # t
    BY <1>1, <2>2, Zenon
  <2> QED BY <2>1, <2>2, Zenon
<1>4. \A s \in Threads : 1..Len(K[s]) \subseteq 1..Len(L[s])
  BY <1>1, <1>2
<1>5. LeftOk(L, th)
  BY <1>3, Zenon DEF LeftOk
<1>6. ASSUME NEW u, IsThrown(K, u) PROVE IsThrown(L, u)
  <2>1. PICK s \in Threads : \E k \in 1..Len(K[s]) : K[s][k].who = u /\ K[s][k].thrown
    BY <1>6, Zenon DEF IsThrown
  <2>2. PICK k \in 1..Len(K[s]) : K[s][k].who = u /\ K[s][k].thrown
    BY <2>1, Zenon
  <2>3. k \in 1..Len(L[s]) /\ L[s][k] = K[s][k]
    BY <1>1, <1>4, Zenon
  <2> QED BY <2>2, <2>3, Zenon DEF IsThrown
<1> QED BY <1>5, <1>6, Zenon DEF L

(* A frame that is left takes only its own exception with it.               *)
LEMMA PopThrown ==
  ASSUME NEW K \in [Threads -> Seq(FrameType)], NEW t \in Threads, K[t] # <<>>,
         NEW th, LeftOk(K, th), NEW th2, th \subseteq th2,
         Top_(K, t).thrown => Top_(K, t).who \in th2
  PROVE  /\ LeftOk(Pop(K, t), th2)
         /\ \A u : IsThrown(K, u) => IsThrown(Pop(K, t), u) \/ u \in th2
<1> DEFINE L == Pop(K, t)
<1>1. /\ L \in [Threads -> Seq(FrameType)] /\ Len(K[t]) \in Nat \ {0}
      /\ \A s \in Threads : Len(L[s]) = IF s = t THEN Len(K[t]) - 1 ELSE Len(K[s])
      /\ \A s \in Threads : \A k \in 1..Len(L[s]) : L[s][k] = K[s][k]
  BY PopFacts, ZenonT(60)
<1> HIDE DEF L
<1>2. \A s \in Threads : Len(K[s]) \in Nat
  OBVIOUS
<1>3. \A s \in Threads : \A k \in 1..Len(L[s]) : k \in 1..Len(K[s]) /\ L[s][k] = K[s][k]
  BY <1>1, <1>2
<1>4. LeftOk(L, th2)
  BY <1>3, Zenon DEF LeftOk
<1>5. ASSUME NEW u, IsThrown(K, u), u \notin th2 PROVE IsThrown(L, u)
  <2>1. PICK s \in Threads : \E k \in 1..Len(K[s]) : K[s][k].who = u /\ K[s][k].thrown
    BY <1>5, Zenon DEF IsThrown
  <2>2. PICK k \in 1..Len(K[s]) : K[s][k].who = u /\ K[s][k].thrown
    BY <2>1, Zenon
  <2>3. ~(s = t /\ k = Len(K[t]))
    BY <1>5, <2>2, Zenon DEF Top_
  <2>4. k \in 1..Len(L[s])
    BY <1>1, <1>2, <2>3
  <2> QED BY <1>3, <2>2, <2>4, Zenon DEF IsThrown
<1> QED BY <1>4, <1>5, Zenon DEF L

(* The step of a user that keeps its frame, and its exception if it has one. *)
LEMMA TopChangeReported ==
  ASSUME PoolInv, ReportInv, NEW t \in Threads, stack[t] # <<>>,
         NEW g \in FrameType, g.who = Top_(stack, t).who,
         Top_(stack, t).thrown => g.thrown, g.at # "leave",
         stack' = SetTop(stack, t, g), UNCHANGED <<error_flag, threw>>
  PROVE  ReportInv'
<1>1. stack \in [Threads -> Seq(FrameType)]
  BY Zenon DEF PoolInv, PoolOk, Typed
<1>2. LeftOk(SetTop(stack, t, g), threw)
      /\ \A u : IsThrown(stack, u) => IsThrown(SetTop(stack, t, g), u)
  BY <1>1, SetTopThrown, Zenon DEF ReportInv
<1>3. Reported(SetTop(stack, t, g), error_flag, threw)
  BY <1>2, ReportsKept, Zenon DEF ReportInv
<1> QED BY <1>2, <1>3, Zenon DEF ReportInv

(* The same, above stacks K that lost no exception.                         *)
LEMMA RunReported ==
  ASSUME ReportInv, NEW t \in Threads, NEW K \in [Threads -> Seq(FrameType)],
         LeftOk(K, threw), \A u : IsThrown(stack, u) => IsThrown(K, u) \/ u \in threw,
         \/ stack' = K
         \/ \E f \in FrameType : f.at = "body" /\ stack' = Push(K, t, f)
         \/ \E g \in FrameType : /\ K[t] # <<>> /\ stack' = SetTop(K, t, g) /\ g.at # "leave"
                                 /\ g.who = Top_(K, t).who /\ (Top_(K, t).thrown => g.thrown),
         UNCHANGED <<error_flag, threw>>
  PROVE  ReportInv'
<1>1. LeftOk(stack', threw) /\ \A u : IsThrown(K, u) => IsThrown(stack', u)
  <2>1. CASE stack' = K
    BY <2>1, Zenon
  <2>2. ASSUME NEW f \in FrameType, f.at = "body", stack' = Push(K, t, f)
        PROVE  LeftOk(stack', threw) /\ \A u : IsThrown(K, u) => IsThrown(stack', u)
    BY <2>2, PushThrown, Zenon
  <2>3. ASSUME NEW g \in FrameType, K[t] # <<>>, stack' = SetTop(K, t, g), g.at # "leave",
               g.who = Top_(K, t).who, Top_(K, t).thrown => g.thrown
        PROVE  LeftOk(stack', threw) /\ \A u : IsThrown(K, u) => IsThrown(stack', u)
    <3>1. LeftOk(SetTop(K, t, g), threw) /\ \A u : IsThrown(K, u) => IsThrown(SetTop(K, t, g), u)
      BY <2>3, SetTopThrown, Zenon
    <3> QED BY <2>3, <3>1, SMTT(30)
  <2> QED BY <2>1, <2>2, <2>3, Zenon
<1>2. \A u : IsThrown(stack, u) => IsThrown(stack', u) \/ u \in threw
  BY <1>1, Zenon
<1>3. Reported(stack', error_flag, threw)
  BY <1>2, ReportsKept, Zenon DEF ReportInv
<1> QED BY <1>1, <1>3, Zenon DEF ReportInv

(* A job that ended by an exception is reported: in the flag of its waiter when
   run caught it, through its owner's frame when submit did not.            *)
LEMMA EndReported ==
  ASSUME PoolInv, ReportInv, NEW t \in Threads, EndQueued(t) \/ EndInline(t) \/ EndCall(t)
  PROVE  ReportInv'
<1> DEFINE f == Top(t)
<1>1. /\ stack \in [Threads -> Seq(FrameType)] /\ PoolOk(stack, status, queue, num)
      /\ error_flag \in [Users -> BOOLEAN] /\ LeftOk(stack, threw)
      /\ Reported(stack, error_flag, threw)
  BY Zenon DEF PoolInv, PoolOk, Typed, ReportInv
<1>2. AtEnd(t) /\ threw' = IF f.thrown THEN threw \cup {f.who} ELSE threw
  BY Zenon DEF EndQueued, EndInline, EndCall, Ended
<1>3. /\ f = Top_(stack, t) /\ stack[t] # <<>> /\ f \in FrameType /\ f.who \in Users
      /\ f.thrown \in BOOLEAN /\ (f.how # "call" => f.who \in Jobs)
  BY <1>2, AtEndFacts, FrameFields, Zenon
<1>4. threw \subseteq threw' /\ (f.thrown => f.who \in threw')
      /\ \A j \in threw' \ threw : j = f.who /\ f.thrown
  BY <1>2, SMTT(30)
<1>5. CASE EndQueued(t)
  <2> DEFINE g == [f EXCEPT !.at = "leave"]
  <2>1. /\ f.how = "queue" /\ stack' = SetTop(stack, t, g)
        /\ error_flag' = [error_flag EXCEPT ![Owner[f.who]] = @ \/ f.thrown]
    BY <1>5, Zenon DEF EndQueued, WithTop, SetTop
  <2> HIDE DEF f
  <2>2. g \in FrameType
    BY <1>3, Zenon DEF FrameType
  <2>3. g.who = f.who /\ g.thrown = f.thrown
    BY <1>3, FrameFields, SMTT(30)
  <2>4. LeftOk(stack, threw')
    BY <1>1, <1>4, Zenon DEF LeftOk
  <2>5. LeftOk(stack', threw') /\ \A u : IsThrown(stack, u) => IsThrown(stack', u)
    <3>1. /\ g.who = Top_(stack, t).who /\ (Top_(stack, t).thrown => g.thrown)
          /\ (g.at = "leave" /\ g.thrown => g.who \in threw')
      BY <1>3, <1>4, <2>3, SMTT(30)
    <3> HIDE DEF g
    <3>2. LeftOk(SetTop(stack, t, g), threw')
          /\ \A u : IsThrown(stack, u) => IsThrown(SetTop(stack, t, g), u)
      BY <1>1, <1>3, <2>2, <2>4, <3>1, SetTopThrown
    <3> QED BY <2>1, <3>2, Zenon
  <2>6. Owner[f.who] \in Users
    BY <1>3, <2>1, OwnerIsUser, Zenon
  <2>7. /\ error_flag' \in [Users -> BOOLEAN]
        /\ \A u \in Users : error_flag[u] => error_flag'[u]
        /\ f.thrown => error_flag'[Owner[f.who]]
    BY <1>1, <1>3, <2>1, <2>6, Zenon
  <2>8. \A j \in (threw' \ threw) \cap Jobs : error_flag'[Owner[j]]
    BY <1>4, <2>7, SMTT(30)
  <2>9. Reported(stack', error_flag', threw')
    BY <1>1, <1>4, <2>5, <2>7, <2>8, ReportsKept, SMTT(30)
  <2> QED BY <2>5, <2>7, <2>9, Zenon DEF ReportInv
<1>6. CASE EndInline(t)
  <2> DEFINE K == Pop(stack, t)
             h == Top_(K, t)
             g == [h EXCEPT !.thrown = TRUE]
  <2>1. /\ f.how = "inline" /\ error_flag' = error_flag
        /\ stack' = [stack EXCEPT ![t] =
              IF f.thrown
              THEN Append(Front(Front(stack[t])),
                          [Front(stack[t])[Len(Front(stack[t]))] EXCEPT !.thrown = TRUE])
              ELSE Front(stack[t])]
    BY <1>6, Zenon DEF EndInline
  <2>2. K[t] = Front(stack[t])
    BY <1>1, Zenon DEF Pop
  <2>3. ~f.thrown => stack' = K
    BY <2>1, Zenon DEF Pop
  <2>4. f.thrown => stack' = SetTop(K, t, g)
    <3>1. ASSUME f.thrown PROVE stack' = [stack EXCEPT ![t] = Append(Front(K[t]), g)]
      BY <2>1, <2>2, <3>1, Zenon DEF Top_
    <3>2. [stack EXCEPT ![t] = Append(Front(K[t]), g)] = SetTop(K, t, g)
      BY <1>1, Zenon DEF SetTop, Pop
    <3> QED BY <3>1, <3>2, Zenon
  <2>5. K \in [Threads -> Seq(FrameType)]
    BY <1>1, <1>3, PopFacts, Zenon
  <2>6. K[t] # <<>> /\ h.who = Owner[f.who]
    <3> DEFINE j == f.who
    <3>1. j = Top_(stack, t).who /\ Top_(stack, t).how = "inline"
      BY <1>3, <2>1, SMTT(30)
    <3> HIDE DEF j, f, K
    <3>2. PoolOk(Pop(stack, t), [status EXCEPT ![j] = "ended"], queue, num)
          /\ Pop(stack, t)[t] # <<>> /\ Top_(Pop(stack, t), t).who = Owner[j]
      BY <1>1, <1>3, <3>1, EndsInline
    <3> QED BY <3>2, Zenon DEF j, K
  <2>7. LeftOk(K, threw') /\ \A u : IsThrown(stack, u) => IsThrown(K, u) \/ u \in threw'
    <3>1. Top_(stack, t).thrown => Top_(stack, t).who \in threw'
      BY <1>3, <1>4, Zenon
    <3> HIDE DEF f
    <3> QED BY <1>1, <1>3, <1>4, <3>1, PopThrown, Zenon
  <2> HIDE DEF K
  <2>8. h \in FrameType
    BY <2>5, <2>6, TopFacts, Zenon
  <2> HIDE DEF h
  <2>9. g \in FrameType
    BY <2>8, Zenon DEF FrameType
  <2>10. g.who = h.who /\ g.thrown = TRUE /\ g.at = h.at
    BY <2>8, FrameFields
  <2> HIDE DEF g
  <2>11. /\ LeftOk(stack', threw')
         /\ \A u : IsThrown(K, u) => IsThrown(stack', u)
         /\ f.thrown => IsThrown(stack', Owner[f.who])
    <3>1. CASE ~f.thrown
      BY <2>3, <2>7, <3>1, SMTT(30)
    <3>2. CASE f.thrown
      <4>1. h.at # "leave"
        <5>1. /\ stack[t] \in Seq(FrameType) /\ Len(stack[t]) \in Nat \ {0}
              /\ Len(K[t]) = Len(stack[t]) - 1
              /\ \A k \in 1..(Len(stack[t]) - 1) : K[t][k] = stack[t][k]
          BY <1>1, <1>3, <2>2, FrontFacts
        <5>2. Len(K[t]) \in Nat \ {0}
          BY <2>5, <2>6, TopFacts, Zenon
        <5>3. Len(stack[t]) \in 1..Len(stack[t]) /\ Len(stack[t]) > 1
              /\ Len(stack[t]) - 1 \in 1..(Len(stack[t]) - 1)
          <6> DEFINE a == Len(K[t])
                     b == Len(stack[t])
          <6>1. a \in Nat \ {0} /\ b \in Nat /\ a = b - 1
            BY <5>1, <5>2, Zenon
          <6> HIDE DEF a, b
          <6>2. b \in 1..b /\ b > 1 /\ b - 1 \in 1..(b - 1)
            BY <6>1
          <6> QED BY <6>2, Zenon DEF b
        <5>4. FrameOk(stack, status, t, Len(stack[t]))
          BY <1>1, <5>3, Zenon DEF PoolOk, FramesOk
        <5>5. stack[t][Len(stack[t])].how = "inline"
          BY <1>3, <2>1, SMTT(30) DEF Top_
        <5>6. stack[t][Len(stack[t]) - 1].at = "body"
          BY <5>4, <5>5, Zenon DEF FrameOk
        <5>7. h = stack[t][Len(stack[t]) - 1]
          BY <5>1, <5>3, SMTT(30) DEF h, Top_
        <5> QED BY <5>6, <5>7, SMTT(30)
      <4>2. /\ LeftOk(SetTop(K, t, g), threw')
            /\ \A u : IsThrown(K, u) => IsThrown(SetTop(K, t, g), u)
            /\ IsThrown(SetTop(K, t, g), g.who)
        BY <2>5, <2>6, <2>7, <2>9, <2>10, <4>1, SetTopThrown, Zenon DEF h
      <4> QED BY <2>4, <2>6, <2>10, <3>2, <4>2, Zenon
    <3> QED BY <3>1, <3>2, Zenon
  <2>12. \A u : IsThrown(stack, u) => IsThrown(stack', u) \/ u \in threw'
    BY <2>7, <2>11, Zenon
  <2>13. \A j \in (threw' \ threw) \cap Jobs : IsThrown(stack', Owner[j])
    BY <1>4, <2>11, SMTT(30)
  <2>14. Reported(stack', error_flag', threw')
    BY <1>1, <1>4, <2>1, <2>12, <2>13, ReportsKept, ZenonT(60)
  <2> QED BY <1>1, <2>1, <2>11, <2>14, Zenon DEF ReportInv
<1>7. CASE EndCall(t)
  <2> DEFINE K == Pop(stack, t)
  <2>1. f.how = "call" /\ error_flag' = error_flag /\ stack' = [stack EXCEPT ![t] = <<>>]
    BY <1>7 DEF EndCall
  <2>2. Len(stack[t]) = 1 /\ f.who \notin Jobs
    <3>1. Len(stack[t]) \in 1..Len(stack[t])
      BY <1>1, <1>3, TopFacts
    <3>2. FrameOk(stack, status, t, Len(stack[t]))
      BY <1>1, <3>1, Zenon DEF PoolOk, FramesOk
    <3> QED BY <1>3, <2>1, <3>2, BodyAssumption, Zenon DEF FrameOk, Top_
  <2>3. K \in [Threads -> Seq(FrameType)] /\ Len(K[t]) = Len(stack[t]) - 1
    BY <1>1, <1>3, PopFacts, Zenon
  <2>4. K[t] = <<>>
    BY <2>2, <2>3, EmptyIsEmpty
  <2>5. stack' = K
    BY <1>1, <2>1, <2>4, SMTT(30) DEF Pop
  <2>6. LeftOk(K, threw') /\ \A u : IsThrown(stack, u) => IsThrown(K, u) \/ u \in threw'
    <3>1. Top_(stack, t).thrown => Top_(stack, t).who \in threw'
      BY <1>3, <1>4, SMTT(30)
    <3> HIDE DEF f
    <3> QED BY <1>1, <1>3, <1>4, <3>1, PopThrown, SMTT(30)
  <2> HIDE DEF K
  <2>7. \A j \in (threw' \ threw) \cap Jobs : error_flag'[Owner[j]] \/ IsThrown(stack', Owner[j])
    BY <1>4, <2>2, Zenon
  <2>8. \A u : IsThrown(stack, u) => IsThrown(stack', u) \/ u \in threw'
    BY <2>5, <2>6, SMTT(30)
  <2>9. Reported(stack', error_flag', threw')
    BY <1>1, <1>4, <2>1, <2>7, <2>8, ReportsKept, Zenon
  <2> QED BY <1>1, <2>1, <2>5, <2>6, <2>9, Zenon DEF ReportInv
<1> QED BY <1>5, <1>6, <1>7, Zenon

(* Between its start and its end a user keeps its frame and its exception.  *)
LEMMA BodyReported ==
  ASSUME PoolInv, ReportInv, NEW t \in Threads,
         submit(t) \/ CallWait(t) \/ WaitReturn(t) \/ Throw(t)
  PROVE  ReportInv'
<1> DEFINE f == Top(t)
<1>1. /\ stack \in [Threads -> Seq(FrameType)] /\ LeftOk(stack, threw)
      /\ Reported(stack, error_flag, threw)
  BY Zenon DEF PoolInv, PoolOk, Typed, ReportInv
<1>2. Busy(t) /\ f.at # "leave" /\ UNCHANGED <<error_flag, threw>>
  BY DEF submit, CallWait, WaitReturn, Throw
<1>3. /\ f = Top_(stack, t) /\ stack[t] # <<>> /\ f \in FrameType /\ f.who \in Users
      /\ f.i \in Nat /\ f.thrown \in BOOLEAN
  BY <1>2, TopIsAlive, FrameFields, SMTT(30)
<1>4. ASSUME NEW g \in FrameType, g.who = f.who, f.thrown => g.thrown, g.at # "leave",
             stack' = WithTop(t, g)
      PROVE  ReportInv'
  <2>1. stack' = SetTop(stack, t, g)
    BY <1>4, Zenon DEF WithTop, SetTop
  <2> QED BY <1>2, <1>3, <1>4, <2>1, TopChangeReported
<1>5. CASE CallWait(t)
  <2> DEFINE g == [f EXCEPT !.at = "flush"]
  <2>1. stack' = WithTop(t, g)
    BY <1>5, Zenon DEF CallWait
  <2> HIDE DEF f
  <2>2. g \in FrameType
    BY <1>3, Zenon DEF FrameType
  <2>3. g.who = f.who /\ g.thrown = f.thrown /\ g.at = "flush"
    BY <1>3, FrameFields
  <2> QED BY <1>4, <2>1, <2>2, <2>3, Zenon
<1>6. CASE Throw(t)
  <2> DEFINE g == [f EXCEPT !.thrown = TRUE]
  <2>1. stack' = WithTop(t, g)
    BY <1>6, Zenon DEF Throw
  <2> HIDE DEF f
  <2>2. g \in FrameType
    BY <1>3, Zenon DEF FrameType
  <2>3. g.who = f.who /\ g.thrown = TRUE /\ g.at = f.at
    BY <1>3, FrameFields
  <2> QED BY <1>2, <1>4, <2>1, <2>2, <2>3, Zenon
<1>7. CASE WaitReturn(t)
  <2> DEFINE last == f.thrown \/ f.i = Len(Body[f.who])
             a == IF last THEN "end" ELSE "body"
             i == IF last THEN f.i ELSE f.i + 1
             g == [f EXCEPT !.at = a, !.i = i]
  <2>1. stack' = WithTop(t, g)
    BY <1>7, SMTT(30) DEF WaitReturn
  <2>2. a \in {"end", "body"} /\ i \in Nat
    BY <1>3
  <2> HIDE DEF f, last, a, i
  <2>3. g \in FrameType
    BY <1>3, <2>2, Zenon DEF FrameType
  <2>4. g.who = f.who /\ g.thrown = f.thrown /\ g.at = a
    BY <1>3, FrameFields
  <2> QED BY <1>4, <2>1, <2>2, <2>3, <2>4, Zenon
<1>8. CASE submit(t)
  <2> DEFINE j == Body[f.who][f.i + 1]
             g == [f EXCEPT !.i = @ + 1]
             K == SetTop(stack, t, g)
  <2>1. /\ f.i < Len(Body[f.who]) /\ j # WAIT /\ f.at = "body"
        /\ \/ stack' = [WithTop(t, g) EXCEPT ![t] = Append(@, Frame(j, "inline"))]
           \/ stack' = WithTop(t, g)
    BY <1>8, Zenon DEF submit
  <2>2. WithTop(t, g) = K
    BY Zenon DEF WithTop, SetTop
  <2>3. j \in Jobs
    <3>1. Body[f.who] \in Seq(Jobs \cup {WAIT})
      BY <1>3, BodyAssumption, SMTT(30)
    <3>2. DOMAIN Body[f.who] = 1..Len(Body[f.who]) /\ Len(Body[f.who]) \in Nat
      BY <3>1
    <3>3. f.i + 1 \in DOMAIN Body[f.who]
      BY <1>3, <2>1, <3>2
    <3> QED BY <1>3, <2>1, <3>3, OwnerFacts, SMTT(30)
  <2> HIDE DEF f, j
  <2>4. g \in FrameType
    BY <1>3 DEF FrameType
  <2>5. g.who = f.who /\ g.thrown = f.thrown /\ g.at = f.at
    BY <1>3, SMTT(30) DEF FrameType
  <2> HIDE DEF g
  <2>6. K \in [Threads -> Seq(FrameType)]
    BY <1>1, <1>3, <2>4, SetTopFacts, SMTT(30) DEF Replaced
  <2>7. LeftOk(K, threw) /\ \A u : IsThrown(stack, u) => IsThrown(K, u)
    BY <1>1, <1>2, <1>3, <2>4, <2>5, SetTopThrown, Zenon
  <2>8. Frame(j, "inline") \in FrameType /\ Frame(j, "inline").at = "body"
    <3>1. j \in Users
      BY <2>3, SMTT(30) DEF Users
    <3> QED BY <3>1, NewFrame, ZenonT(60)
  <2> HIDE DEF K
  <2>9. CASE stack' = WithTop(t, g)
    BY <1>2, <2>2, <2>6, <2>7, <2>9, RunReported, SMTT(30)
  <2>10. CASE stack' = [WithTop(t, g) EXCEPT ![t] = Append(@, Frame(j, "inline"))]
    <3>1. stack' = Push(K, t, Frame(j, "inline"))
      BY <2>2, <2>10, SMTT(30) DEF Push
    <3> QED BY <1>2, <2>6, <2>7, <2>8, <3>1, RunReported, Zenon
  <2> QED BY <2>1, <2>9, <2>10, SMTT(30)
<1> QED BY <1>5, <1>6, <1>7, <1>8

(* A frame that run leaves or starts takes no exception with it.            *)
LEMMA RunStepReported ==
  ASSUME PoolInv, ReportInv, NEW t \in Threads, run(t)
  PROVE  ReportInv'
<1>1. /\ stack \in [Threads -> Seq(FrameType)] /\ LeftOk(stack, threw)
      /\ queue \in Seq(Jobs)
  BY SMTT(30) DEF PoolInv, PoolOk, Typed, ReportInv
<1>2. UNCHANGED <<error_flag, threw>>
  BY Zenon DEF run
<1>3. ASSUME NEW K \in [Threads -> Seq(FrameType)], NEW running, Loop(t, K[t], running),
             LeftOk(K, threw), \A u : IsThrown(stack, u) => IsThrown(K, u) \/ u \in threw,
             \A x : [stack EXCEPT ![t] = x] = [K EXCEPT ![t] = x]
      PROVE  ReportInv'
  <2>1. CASE queue # <<>>
    <3> DEFINE f == Frame(Head(queue), "queue")
    <3>1. stack' = [stack EXCEPT ![t] = Append(K[t], f)]
      BY <1>3, <2>1, Zenon DEF Loop
    <3>2. Head(queue) \in Users
      BY <1>1, <2>1, TailFacts, Zenon DEF Users
    <3>3. f \in FrameType /\ f.at = "body"
      BY <3>2, NewFrame, Zenon
    <3> HIDE DEF f
    <3>4. stack' = Push(K, t, f)
      BY <1>3, <3>1, Zenon DEF Push
    <3> QED BY <1>2, <1>3, <3>3, <3>4, RunReported, Zenon
  <2>2. CASE queue = <<>> /\ K[t] = <<>>
    <3>1. stack' = [stack EXCEPT ![t] = K[t]]
      BY <1>3, <2>2, Zenon DEF Loop
    <3>2. stack' = K
      BY <1>3, <3>1, SMTT(30)
    <3> QED BY <1>2, <1>3, <3>2, RunReported, Zenon
  <2>3. CASE queue = <<>> /\ K[t] # <<>>
    <3> DEFINE h == Top_(K, t)
               g == [h EXCEPT !.at = "wait"]
    <3>1. stack' = [stack EXCEPT ![t] = Append(Front(K[t]), g)]
      BY <1>3, <2>3, Zenon DEF Loop, Top_
    <3>2. stack' = SetTop(K, t, g)
      BY <1>3, <3>1, Zenon DEF SetTop
    <3>3. h \in FrameType
      BY <2>3, TopFacts, Zenon
    <3> HIDE DEF h
    <3>4. g \in FrameType
      BY <3>3, Zenon DEF FrameType
    <3>5. g.who = h.who /\ g.thrown = h.thrown /\ g.at = "wait"
      BY <3>3, FrameFields
    <3> HIDE DEF g
    <3> QED BY <1>2, <1>3, <2>3, <3>2, <3>4, <3>5, RunReported, Zenon DEF h
  <2> QED BY <2>1, <2>2, <2>3, SMTT(30)
<1>4. CASE ~Busy(t) /\ Loop(t, <<>>, active)
  <2>1. stack[t] = <<>>
    BY <1>4, Zenon DEF Busy
  <2> QED BY <1>1, <1>3, <1>4, <2>1, Zenon
<1>5. CASE Busy(t) /\ Loop(t, stack[t], active)
  BY <1>1, <1>3, <1>5, Zenon
<1>6. CASE Busy(t) /\ Top(t).at = "leave" /\ Loop(t, Front(stack[t]), active - 1)
  <2> DEFINE K == Pop(stack, t)
  <2>1. stack[t] # <<>> /\ Top_(stack, t).at = "leave"
    BY <1>6, Zenon DEF Busy, Top, Top_
  <2>2. K \in [Threads -> Seq(FrameType)]
    BY <1>1, <2>1, PopFacts, Zenon
  <2>3. K[t] = Front(stack[t]) /\ \A x : [stack EXCEPT ![t] = x] = [K EXCEPT ![t] = x]
    BY <1>1, Zenon DEF Pop
  <2>4. Top_(stack, t).thrown => Top_(stack, t).who \in threw
    <3>1. Len(stack[t]) \in 1..Len(stack[t])
      BY <1>1, <2>1, TopFacts
    <3> QED BY <1>1, <2>1, <3>1, Zenon DEF LeftOk, Top_
  <2>5. LeftOk(K, threw) /\ \A u : IsThrown(stack, u) => IsThrown(K, u) \/ u \in threw
    BY <1>1, <2>1, <2>4, PopThrown, Zenon
  <2> HIDE DEF K
  <2> QED BY <1>3, <1>6, <2>2, <2>3, <2>5, Zenon
<1> QED BY <1>4, <1>5, <1>6, Zenon DEF run

(* The pool implements JobGroups: a job is given once and ends once, by then
   everything it submitted has ended, and a wait returns only when all that
   was handed over through its waiter has ended (threadpool::submit and run,
   waiter::wait and dec).                                                   *)
THEOREM PoolImplementsJobGroups == Spec => ImplementsJobGroups
<1>1. Init => PoolInv /\ Abstract!Init
  BY PoolStarts, Zenon
<1>2. PoolInv /\ [Next]_vars => PoolInv' /\ [Abstract!Next]_(Abstract!vars)
  BY NextIsGood, Zenon DEF StepIsGood
<1> QED BY <1>1, <1>2, PTL DEF Spec, ImplementsJobGroups, Abstract!Spec

(* An exception is never lost: run's catch puts it into the flag of the job's
   waiter, and past submit it goes through the body that submitted the job. *)
THEOREM ExceptionSafety == Spec => []ExceptionIsReported
<1>1. Init => PoolInv /\ ReportInv
  <2> SUFFICES ASSUME Init PROVE ReportInv
    BY PoolStarts, Zenon
  <2>1. error_flag \in [Users -> BOOLEAN] /\ threw = {}
    BY Zenon DEF Init
  <2>2. ASSUME NEW t \in Threads, NEW k \in 1..Len(stack[t]) PROVE stack[t][k].at = "body"
    <3>1. stack[t] = IF t \in Callers THEN <<Frame(t, "call")>> ELSE <<>>
      BY Zenon DEF Init
    <3>2. CASE t \in Callers
      BY <3>1, <3>2 DEF Frame
    <3>3. CASE t \notin Callers
      BY <3>1, <3>3
    <3> QED BY <3>2, <3>3, Zenon
  <2> QED BY <2>1, <2>2, Zenon DEF ReportInv, LeftOk, Reported
<1>2. PoolInv /\ ReportInv /\ [Next]_vars => PoolInv' /\ ReportInv'
  <2> SUFFICES ASSUME PoolInv, ReportInv, [Next]_vars PROVE ReportInv'
    BY NextIsGood, Zenon DEF StepIsGood
  <2>1. CASE UNCHANGED vars
    BY <2>1, Zenon DEF vars, ReportInv
  <2>2. ASSUME NEW t \in Threads, Step(t) \/ Throw(t) PROVE ReportInv'
    BY <2>2, BodyReported, RunStepReported, EndReported DEF Step
  <2>3. ASSUME NEW w \in Workers, SpuriousWake(w) PROVE ReportInv'
    BY <2>3, Zenon DEF SpuriousWake, ReportInv
  <2> QED BY <2>1, <2>2, <2>3, Zenon DEF Next
<1>3. PoolInv /\ ReportInv => ExceptionIsReported
  BY ReportedIsReported
<1> QED BY <1>1, <1>2, <1>3, PTL DEF Spec
=============================================================================
