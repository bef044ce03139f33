---------------------------- MODULE ThreadpoolInv ----------------------------
(***************************************************************************)
(* The inductive invariant of Threadpool, and what the operations on the   *)
(* threads' stacks and on the queue do to it, for any number of callers,   *)
(* workers and jobs and whatever the jobs submit and throw.                *)
(***************************************************************************)
EXTENDS PoolUsers, TLAPS

FrameType ==
  [who : Users, how : {"call", "queue", "inline"}, i : Nat,
   at : {"body", "flush", "wait", "end", "leave"}, thrown : BOOLEAN]

Kids(u) == {j \in Jobs : Owner[j] = u}

-----------------------------------------------------------------------------
(* The forest of jobs: a job is an entry of its owner's body, and of no other
   (BodyAssumption).                                                        *)
LEMMA OwnerFacts ==
  ASSUME NEW u \in Users, NEW i \in DOMAIN Body[u], Body[u][i] # WAIT
  PROVE  Body[u][i] \in Jobs /\ Owner[Body[u][i]] = u
<1>1. Body[u] \in Seq(Jobs \cup {WAIT})
  BY BodyAssumption
<1>2. Body[u][i] \in Jobs
  BY <1>1
<1>3. Body[u][i] \in Given(u)
  BY Zenon DEF Given
<1>4. \A v \in Users : Body[u][i] \in Given(v) => v = u
  BY <1>3, BodyAssumption
<1>5. (CHOOSE v \in Users : Body[u][i] \in Given(v)) = u
  BY <1>3, <1>4
<1> QED BY <1>2, <1>5 DEF Owner

(* Every job has an owner, in whose body it is.                             *)
LEMMA OwnerIsUser ==
  ASSUME NEW j \in Jobs
  PROVE  Owner[j] \in Users /\ \E i \in DOMAIN Body[Owner[j]] : Body[Owner[j]][i] = j
<1>1. Owner[j] \in Users /\ j \in Given(Owner[j])
  BY BodyAssumption DEF Owner
<1> QED BY <1>1 DEF Given

(* S has n elements: 1..n numbers them. *)
HasSize(S, n) ==
  \E f \in [1..n -> S] :
    /\ \A x \in S : \E i \in 1..n : f[i] = x
    /\ \A i, k \in 1..n : f[i] = f[k] => i = k

(* A set that nothing numbers is empty.  *)
LEMMA NoneIsEmpty ==
  /\ HasSize({}, 0)
  /\ \A S : HasSize(S, 0) => S = {}
<1>1. [i \in 1..0 |-> i] \in [1..0 -> {}]
  OBVIOUS
<1> QED BY <1>1, Zenon DEF HasSize

(* One more element. *)
LEMMA AddOne ==
  ASSUME NEW S, NEW n \in Nat, HasSize(S, n), NEW x, x \notin S
  PROVE  HasSize(S \cup {x}, n + 1)
<1>1. PICK f \in [1..n -> S] : /\ \A y \in S : \E i \in 1..n : f[i] = y
                               /\ \A i, k \in 1..n : f[i] = f[k] => i = k
  BY DEF HasSize
<1> DEFINE g == [i \in 1..(n + 1) |-> IF i = n + 1 THEN x ELSE f[i]]
<1>2. g \in [1..(n + 1) -> S \cup {x}]
  OBVIOUS
<1>3. \A y \in S \cup {x} : \E i \in 1..(n + 1) : g[i] = y
  BY <1>1
<1>4. \A i, k \in 1..(n + 1) : g[i] = g[k] => i = k
  BY <1>1
<1> QED BY <1>2, <1>3, <1>4, Zenon DEF HasSize

(* One element less. *)
LEMMA RemoveOne ==
  ASSUME NEW S, NEW n \in Nat, HasSize(S, n), NEW x \in S
  PROVE  n > 0 /\ HasSize(S \ {x}, n - 1)
<1>1. PICK f \in [1..n -> S] : /\ \A y \in S : \E i \in 1..n : f[i] = y
                               /\ \A i, k \in 1..n : f[i] = f[k] => i = k
  BY Zenon DEF HasSize
<1>2. PICK p \in 1..n : f[p] = x
  BY <1>1, Zenon
<1> DEFINE g == [i \in 1..(n - 1) |-> IF i = p THEN f[n] ELSE f[i]]
<1>3. g \in [1..(n - 1) -> S \ {x}]
  BY <1>1, <1>2
<1>4. ASSUME NEW y \in S \ {x} PROVE \E i \in 1..(n - 1) : g[i] = y
  <2>1. PICK i \in 1..n : f[i] = y /\ i # p
    BY <1>1, <1>2, Zenon
  <2>2. CASE i = n
    BY <2>1, <2>2
  <2>3. CASE i # n
    BY <2>1, <2>3
  <2> QED BY <2>2, <2>3
<1>5. \A i, k \in 1..(n - 1) : g[i] = g[k] => i = k
  BY <1>1
<1>6. n - 1 \in Nat
  BY <1>2
<1> HIDE DEF g
<1>7. HasSize(S \ {x}, n - 1)
  BY <1>3, <1>4, <1>5, Zenon DEF HasSize
<1> QED BY <1>6, <1>7

(* A sequence without elements is the empty one.                            *)
LEMMA EmptyIsEmpty ==
  ASSUME NEW S, NEW s \in Seq(S) PROVE Len(s) \in Nat /\ (Len(s) = 0 <=> s = <<>>)
OBVIOUS

(* The places of a sequence: the last one and the one before a later one.   *)
LEMMA LastPlace ==
  ASSUME NEW n \in Nat \ {0} PROVE n \in 1..n
OBVIOUS

(* The place before one that is not the first (the frame below another).    *)
LEMMA PlaceBefore ==
  ASSUME NEW n \in Nat, NEW k \in 1..n, k > 1 PROVE k - 1 \in 1..n /\ k - 1 # n
OBVIOUS

(* What is at a place of a sequence (a queued job, a frame).                *)
LEMMA AtPlace ==
  ASSUME NEW S, NEW s \in Seq(S), NEW k \in 1..Len(s) PROVE s[k] \in S
OBVIOUS

(* A place of a body that comes after the next one (what submit has not
   reached yet).                                                            *)
LEMMA LaterPlace ==
  ASSUME NEW u \in Users, NEW m \in DOMAIN Body[u], NEW i \in Nat, m > i + 1
  PROVE  m \in Int /\ m > i /\ m # i + 1
<1>1. m \in Nat
  BY BodyAssumption
<1> QED BY <1>1

(* The sequence operators that stacks are built with.                       *)
LEMMA FrontFacts ==
  ASSUME NEW S, NEW s \in Seq(S), s # <<>>
  PROVE  /\ Len(s) \in Nat \ {0} /\ s[Len(s)] \in S
         /\ Front(s) \in Seq(S) /\ Len(Front(s)) = Len(s) - 1
         /\ \A k \in 1..(Len(s) - 1) : Front(s)[k] = s[k]
<1>1. Len(s) \in Nat \ {0} /\ s[Len(s)] \in S
  BY EmptyIsEmpty
<1>2. Front(s) = [k \in 1..(Len(s) - 1) |-> s[k]]
  BY <1>1 DEF Front
<1> QED BY <1>1, <1>2

(* Pushing a frame: the rest of the stack stays (run and submit call a job).*)
LEMMA AppendFacts ==
  ASSUME NEW S, NEW s \in Seq(S), NEW x \in S
  PROVE  /\ Append(s, x) \in Seq(S) /\ Len(Append(s, x)) = Len(s) + 1 /\ Len(s) \in Nat
         /\ \A k \in 1..Len(s) : Append(s, x)[k] = s[k]
         /\ Append(s, x)[Len(s) + 1] = x
OBVIOUS

(* What the updates of a frame change and what they leave.                  *)
LEMMA FrameFacts ==
  ASSUME NEW f \in FrameType, NEW a \in {"body", "flush", "wait", "end", "leave"},
         NEW n \in Nat, NEW b \in BOOLEAN, NEW g,
         g \in {[f EXCEPT !.at = a, !.i = n], [f EXCEPT !.at = a], [f EXCEPT !.i = n],
                [f EXCEPT !.thrown = b]}
  PROVE  g \in FrameType
<1>1. CASE g = [f EXCEPT !.at = a, !.i = n]
  BY <1>1, Zenon DEF FrameType
<1>2. CASE g = [f EXCEPT !.at = a]
  BY <1>2 DEF FrameType
<1>3. CASE g = [f EXCEPT !.i = n]
  BY <1>3 DEF FrameType
<1>4. CASE g = [f EXCEPT !.thrown = b]
  BY <1>4 DEF FrameType
<1> QED BY <1>1, <1>2, <1>3, <1>4

(* The fields of an updated frame.                                          *)
LEMMA FrameFields ==
  ASSUME NEW f \in FrameType, NEW a, NEW n, NEW b
  PROVE  /\ f.who \in Users /\ f.i \in Nat /\ f.thrown \in BOOLEAN
         /\ LET g == [f EXCEPT !.at = a, !.i = n]
            IN  g.who = f.who /\ g.how = f.how /\ g.i = n /\ g.at = a /\ g.thrown = f.thrown
         /\ LET g == [f EXCEPT !.at = a]
            IN  g.who = f.who /\ g.how = f.how /\ g.i = f.i /\ g.at = a /\ g.thrown = f.thrown
         /\ LET g == [f EXCEPT !.i = n]
            IN  g.who = f.who /\ g.how = f.how /\ g.i = n /\ g.at = f.at /\ g.thrown = f.thrown
         /\ LET g == [f EXCEPT !.thrown = b]
            IN  g.who = f.who /\ g.how = f.how /\ g.i = f.i /\ g.at = f.at /\ g.thrown = b
BY DEF FrameType

-----------------------------------------------------------------------------
(* The invariant, of stacks K, states st of the jobs, a queue q and counts n. *)
Top_(K, t) == K[t][Len(K[t])]
SetTop(K, t, f) == [K EXCEPT ![t] = Append(Front(@), f)]
Push(K, t, f) == [K EXCEPT ![t] = Append(@, f)]
Pop(K, t) == [K EXCEPT ![t] = Front(@)]

Typed(K, st, q, n) ==
  /\ K \in [Threads -> Seq(FrameType)]
  /\ st \in [Jobs -> {"new", "given", "ended"}]
  /\ q \in Seq(Jobs) /\ n \in [Users -> Int]

(* A user runs in one place. *)
OneFrame(K) ==
  \A t, s \in Threads : \A k \in 1..Len(K[t]), l \in 1..Len(K[s]) :
    K[t][k].who = K[s][l].who => t = s /\ k = l

(* A job runs until its frame is left: above the submit of its owner when it
   runs in line, above a wait when one helps with the queue.
   What the rest of a body submits is new; at the end of a body nothing of it
   is left.                                                                 *)
FrameOk(K, st, t, k) ==
  LET f == K[t][k]
  IN  /\ f.who \in Jobs => st[f.who] = IF f.at = "leave" THEN "ended" ELSE "given"
      /\ f.how = "call" => f.who \in Callers /\ k = 1
      /\ f.how # "call" => f.who \in Jobs
      /\ f.how = "inline" => k > 1 /\ K[t][k - 1].who = Owner[f.who] /\ K[t][k - 1].at = "body"
      /\ f.how = "queue" /\ k > 1 => K[t][k - 1].at = "flush"
      /\ f.at = "leave" => f.how = "queue"
      /\ f.at = "end" => \A j \in Kids(f.who) : st[j] # "given"
      /\ \A m \in DOMAIN Body[f.who] :
           m > f.i /\ Body[f.who][m] # WAIT => st[Body[f.who][m]] = "new"

FramesOk(K, st) == \A t \in Threads : \A k \in 1..Len(K[t]) : FrameOk(K, st, t, k)

(* A queued job is given, waits once, and is not running yet. *)
QueueOk(K, st, q) ==
  /\ \A p \in 1..Len(q) :
       /\ st[q[p]] = "given"
       /\ \A t \in Threads : \A k \in 1..Len(K[t]) : K[t][k].who # q[p]
  /\ \A p, r \in 1..Len(q) : q[p] = q[r] => p = r

(* A job that has not started has submitted nothing. *)
NotStarted(st, q) ==
  \A j \in Jobs : st[j] = "new" \/ (\E p \in 1..Len(q) : q[p] = j) =>
    \A i \in Kids(j) : st[i] = "new"

(* A waiter counts the jobs it was handed, without those that run in line. *)
Inline(K, j) ==
  \E t \in Threads : \E k \in 1..Len(K[t]) : K[t][k].who = j /\ K[t][k].how = "inline"
Counted(K, st, u) == {j \in Kids(u) : st[j] = "given" /\ ~Inline(K, j)}
CountOk(K, st, n) == \A u \in Users : n[u] \in Nat /\ HasSize(Counted(K, st, u), n[u])

PoolOk(K, st, q, n) ==
  /\ Typed(K, st, q, n) /\ OneFrame(K) /\ FramesOk(K, st)
  /\ QueueOk(K, st, q) /\ NotStarted(st, q) /\ CountOk(K, st, n)


-----------------------------------------------------------------------------
(* Two frames of one user are one frame.                                    *)
LEMMA OnlyFrame ==
  ASSUME NEW K, OneFrame(K), NEW t \in Threads, Len(K[t]) \in 1..Len(K[t]),
         NEW s \in Threads, NEW k \in 1..Len(K[s]), K[s][k].who = K[t][Len(K[t])].who
  PROVE  s = t /\ k = Len(K[t])
BY ZenonT(60) DEF OneFrame

(* A job that is queued has no frame.                                       *)
LEMMA QueuedHasNone ==
  ASSUME NEW K, NEW st, NEW q, QueueOk(K, st, q), NEW p \in 1..Len(q),
         NEW t \in Threads, NEW k \in 1..Len(K[t])
  PROVE  K[t][k].who # q[p]
BY Zenon DEF QueueOk

(* The queue of a pool whose threads run nothing new (run leaves a job, a
   caller returns).                                                         *)
LEMMA FewerFrames ==
  ASSUME NEW K, NEW L, NEW st, NEW q, QueueOk(K, st, q),
         \A s \in Threads : \A k \in 1..Len(L[s]) : k \in 1..Len(K[s]) /\ L[s][k] = K[s][k]
  PROVE  QueueOk(L, st, q)
<1>1. ASSUME NEW p \in 1..Len(q), NEW s \in Threads, NEW k \in 1..Len(L[s])
      PROVE  L[s][k].who # q[p]
  <2>1. k \in 1..Len(K[s]) /\ L[s][k] = K[s][k]
    BY Zenon
  <2>2. K[s][k].who # q[p]
    BY ONLY <2>1, QueueOk(K, st, q), p \in 1..Len(q), s \in Threads, QueuedHasNone, ZenonT(60)
  <2> QED BY <2>1, <2>2, Zenon
<1> QED BY <1>1, Zenon DEF QueueOk

(* Stacks L are K with f on top of t. *)
Replaced(K, t, f, L) ==
  /\ L \in [Threads -> Seq(FrameType)]
  /\ \A s \in Threads : Len(L[s]) = Len(K[s])
  /\ \A s \in Threads : \A k \in 1..Len(K[s]) :
       L[s][k] = IF s = t /\ k = Len(K[t]) THEN f ELSE K[s][k]

(* Stacks L are K with f pushed on t. *)
Pushed(K, t, f, L) ==
  /\ L \in [Threads -> Seq(FrameType)] /\ Len(K[t]) \in Nat
  /\ \A s \in Threads : Len(L[s]) = IF s = t THEN Len(K[t]) + 1 ELSE Len(K[s])
  /\ \A s \in Threads : \A k \in 1..Len(K[s]) : L[s][k] = K[s][k]
  /\ L[t][Len(K[t]) + 1] = f

(* What the three changes of a stack make of it, frame by frame (submit and
   run push, replace and pop frames of one thread).                         *)
LEMMA TopFacts ==
  ASSUME NEW K \in [Threads -> Seq(FrameType)], NEW t \in Threads, K[t] # <<>>
  PROVE  Len(K[t]) \in Nat \ {0} /\ Top_(K, t) \in FrameType
BY FrontFacts DEF Top_

(* Replacing the frame on top (a body goes on, waits or ends).              *)
LEMMA SetTopFacts ==
  ASSUME NEW K \in [Threads -> Seq(FrameType)], NEW t \in Threads, K[t] # <<>>,
         NEW f \in FrameType
  PROVE  Replaced(K, t, f, SetTop(K, t, f))
<1>1. Front(K[t]) \in Seq(FrameType) /\ Len(Front(K[t])) = Len(K[t]) - 1
      /\ Len(K[t]) \in Nat \ {0} /\ \A k \in 1..(Len(K[t]) - 1) : Front(K[t])[k] = K[t][k]
  BY FrontFacts
<1> DEFINE new == Append(Front(K[t]), f)
<1>2. new \in Seq(FrameType) /\ Len(new) = Len(K[t]) /\ new[Len(K[t])] = f
      /\ \A k \in 1..(Len(K[t]) - 1) : new[k] = K[t][k]
  BY <1>1, AppendFacts
<1>3. \A s \in Threads : SetTop(K, t, f)[s] = IF s = t THEN new ELSE K[s]
  BY DEF SetTop
<1>4. DOMAIN SetTop(K, t, f) = Threads
  BY Zenon DEF SetTop
<1>5. SetTop(K, t, f) = [s \in Threads |-> IF s = t THEN new ELSE K[s]]
  BY Zenon DEF SetTop
<1> HIDE DEF new
<1>6. \A s \in Threads : \A k \in 1..Len(K[s]) :
        SetTop(K, t, f)[s][k] = IF s = t /\ k = Len(K[t]) THEN f ELSE K[s][k]
  <2> SUFFICES ASSUME NEW s \in Threads, NEW k \in 1..Len(K[s])
               PROVE  SetTop(K, t, f)[s][k] = IF s = t /\ k = Len(K[t]) THEN f ELSE K[s][k]
    BY Zenon
  <2>1. CASE s = t
    <3>1. k = Len(K[t]) \/ k \in 1..(Len(K[t]) - 1)
      BY ONLY <1>1, <2>1, k \in 1..Len(K[s])
    <3> QED BY <1>1, <1>2, <1>3, <2>1, <3>1, Zenon
  <2>2. CASE s # t
    BY <1>3, <2>2, Zenon
  <2> QED BY <2>1, <2>2, Zenon
<1> QED BY <1>2, <1>3, <1>5, <1>6 DEF Replaced

(* Pushing a frame (submit or run calls a job).                             *)
LEMMA PushFacts ==
  ASSUME NEW K \in [Threads -> Seq(FrameType)], NEW t \in Threads, NEW f \in FrameType
  PROVE  Pushed(K, t, f, Push(K, t, f))
<1> DEFINE new == Append(K[t], f)
<1>1. new \in Seq(FrameType) /\ Len(new) = Len(K[t]) + 1 /\ new[Len(K[t]) + 1] = f
      /\ Len(K[t]) \in Nat /\ \A k \in 1..Len(K[t]) : new[k] = K[t][k]
  BY AppendFacts
<1>2. Push(K, t, f) = [s \in Threads |-> IF s = t THEN new ELSE K[s]]
  BY Zenon DEF Push
<1> HIDE DEF new
<1> QED BY <1>1, <1>2 DEF Pushed

(* Dropping the frame on top (a job returns).                               *)
LEMMA PopFacts ==
  ASSUME NEW K \in [Threads -> Seq(FrameType)], NEW t \in Threads, K[t] # <<>>
  PROVE  /\ Pop(K, t) \in [Threads -> Seq(FrameType)] /\ Len(K[t]) \in Nat \ {0}
         /\ \A s \in Threads : Len(Pop(K, t)[s]) = IF s = t THEN Len(K[t]) - 1 ELSE Len(K[s])
         /\ \A s \in Threads : \A k \in 1..Len(Pop(K, t)[s]) : Pop(K, t)[s][k] = K[s][k]
<1> DEFINE new == Front(K[t])
<1>1. new \in Seq(FrameType) /\ Len(new) = Len(K[t]) - 1
      /\ Len(K[t]) \in Nat \ {0} /\ \A k \in 1..Len(new) : new[k] = K[t][k]
  BY FrontFacts
<1>2. Pop(K, t) = [s \in Threads |-> IF s = t THEN new ELSE K[s]]
  BY Zenon DEF Pop
<1> HIDE DEF new
<1> QED BY <1>1, <1>2, Zenon

-----------------------------------------------------------------------------
(* Stacks that run the same users the same way have the same counts and leave
   the queue and the jobs that have not started as they are.                *)
LEMMA SameRunners ==
  ASSUME NEW K, NEW st, NEW q, NEW n, PoolOk(K, st, q, n),
         NEW L \in [Threads -> Seq(FrameType)],
         \A t \in Threads : Len(L[t]) = Len(K[t]),
         \A t \in Threads : \A k \in 1..Len(K[t]) :
           L[t][k].who = K[t][k].who /\ L[t][k].how = K[t][k].how
  PROVE  /\ Typed(L, st, q, n) /\ OneFrame(L) /\ QueueOk(L, st, q) /\ CountOk(L, st, n)
         /\ \A j : Inline(L, j) <=> Inline(K, j)
<1>1. ASSUME NEW j PROVE Inline(L, j) <=> Inline(K, j)
  <2>1. ASSUME Inline(L, j) PROVE Inline(K, j)
    <3>0. PICK t \in Threads : \E k \in 1..Len(L[t]) : L[t][k].who = j /\ L[t][k].how = "inline"
      BY <2>1, Zenon DEF Inline
    <3>1. PICK k \in 1..Len(L[t]) : L[t][k].who = j /\ L[t][k].how = "inline"
      BY <3>0, Zenon
    <3>2. k \in 1..Len(K[t])
      OBVIOUS
    <3> QED BY <3>1, <3>2 DEF Inline
  <2>2. ASSUME Inline(K, j) PROVE Inline(L, j)
    <3>0. PICK t \in Threads : \E k \in 1..Len(K[t]) : K[t][k].who = j /\ K[t][k].how = "inline"
      BY <2>2 DEF Inline
    <3>1. PICK k \in 1..Len(K[t]) : K[t][k].who = j /\ K[t][k].how = "inline"
      BY <3>0
    <3>2. k \in 1..Len(L[t])
      OBVIOUS
    <3> QED BY <3>1, <3>2 DEF Inline
  <2> QED BY <2>1, <2>2
<1>2. \A u : Counted(L, st, u) = Counted(K, st, u)
  BY <1>1 DEF Counted
<1>3. CountOk(L, st, n)
  BY <1>2, Zenon DEF PoolOk, CountOk
<1>4. OneFrame(L)
  BY DEF PoolOk, OneFrame
<1>5. QueueOk(L, st, q)
  BY DEF PoolOk, QueueOk
<1> QED BY <1>1, <1>3, <1>4, <1>5, Zenon DEF PoolOk, Typed

(* The running user goes on: calls wait, returns from it, throws.           *)
LEMMA GoesOn ==
  ASSUME NEW K, NEW st, NEW q, NEW n, PoolOk(K, st, q, n),
         NEW t \in Threads, K[t] # <<>>, NEW g \in FrameType,
         g.who = Top_(K, t).who, g.how = Top_(K, t).how, g.i >= Top_(K, t).i,
         g.at = "leave" <=> Top_(K, t).at = "leave",
         g.at = "end" /\ Top_(K, t).at # "end" => \A j \in Kids(g.who) : st[j] # "given"
  PROVE  PoolOk(SetTop(K, t, g), st, q, n)
<1> DEFINE L == SetTop(K, t, g)
<1>1. K \in [Threads -> Seq(FrameType)]
  BY Zenon DEF PoolOk, Typed
<1>2. /\ L \in [Threads -> Seq(FrameType)]
      /\ \A s \in Threads : Len(L[s]) = Len(K[s])
      /\ \A s \in Threads : \A k \in 1..Len(K[s]) :
           L[s][k] = IF s = t /\ k = Len(K[t]) THEN g ELSE K[s][k]
  <2>1. Replaced(K, t, g, L)
    BY <1>1, SetTopFacts, Zenon
  <2> QED BY <2>1, Zenon DEF Replaced
<1> HIDE DEF L
<1>3. \A s \in Threads : \A k \in 1..Len(K[s]) :
        L[s][k].who = K[s][k].who /\ L[s][k].how = K[s][k].how
  BY <1>2, ZenonT(60) DEF Top_
<1>4. Typed(L, st, q, n) /\ OneFrame(L) /\ QueueOk(L, st, q) /\ CountOk(L, st, n)
  BY <1>2, <1>3, SameRunners
<1>5. FramesOk(L, st)
  <2> SUFFICES ASSUME NEW s \in Threads, NEW k \in 1..Len(K[s]) PROVE FrameOk(L, st, s, k)
    BY <1>2, Zenon DEF FramesOk
  <2>1. FrameOk(K, st, s, k)
    BY DEF PoolOk, FramesOk
  <2>2. ASSUME k > 1 PROVE L[s][k - 1] = K[s][k - 1]
    <3>1. Len(K[s]) \in Nat /\ k - 1 \in 1..Len(K[s]) /\ k - 1 # Len(K[s])
      BY <1>1, <2>2
    <3> QED BY <1>2, <3>1
  <2>3. CASE s = t /\ k = Len(K[t])
    <3>1. L[s][k] = g /\ K[s][k] = Top_(K, t)
      BY <1>2, <2>3 DEF Top_
    <3>2. Top_(K, t).i \in Nat /\ g.i \in Nat /\ g.who \in Users
      BY <1>1, TopFacts, FrameFields, Zenon
    <3>3. \A m \in DOMAIN Body[g.who] : m \in Int
      BY ONLY <3>2, BodyAssumption, SMTT(30), Z3T(30)
    <3>4. ASSUME NEW m \in DOMAIN Body[g.who], m > g.i PROVE m > Top_(K, t).i
      BY <3>2, <3>3, <3>4, SMT
    <3> QED BY <2>1, <2>2, <3>1, <3>4, ZenonT(60) DEF FrameOk
  <2>4. CASE ~(s = t /\ k = Len(K[t]))
    <3>1. L[s][k] = K[s][k]
      BY <1>2, <2>4, Zenon
    <3> QED BY <2>1, <2>2, <3>1, ZenonT(60) DEF FrameOk
  <2> QED BY <2>3, <2>4
<1> QED BY <1>4, <1>5, Zenon DEF PoolOk, L

(* A new frame on a stack makes its user run; nobody else changes place.    *)
LEMMA PushedFrames ==
  ASSUME NEW K \in [Threads -> Seq(FrameType)], OneFrame(K), NEW t \in Threads,
         NEW f \in FrameType,
         \A s \in Threads : \A k \in 1..Len(K[s]) : K[s][k].who # f.who
  PROVE  /\ OneFrame(Push(K, t, f))
         /\ \A j : Inline(Push(K, t, f), j) <=> (Inline(K, j) \/ (f.how = "inline" /\ f.who = j))
<1> DEFINE L == Push(K, t, f)
<1>1. /\ L \in [Threads -> Seq(FrameType)] /\ Len(K[t]) \in Nat
      /\ \A s \in Threads : Len(L[s]) = IF s = t THEN Len(K[t]) + 1 ELSE Len(K[s])
      /\ \A s \in Threads : \A k \in 1..Len(K[s]) : L[s][k] = K[s][k]
      /\ L[t][Len(K[t]) + 1] = f
  <2>1. Pushed(K, t, f, L)
    BY PushFacts
  <2> QED BY <2>1, Zenon DEF Pushed
<1> HIDE DEF L
<1>2. \A s \in Threads : Len(K[s]) \in Nat
  OBVIOUS
<1>3. ASSUME NEW s \in Threads, NEW k \in 1..Len(L[s])
      PROVE  (k \in 1..Len(K[s]) /\ L[s][k] = K[s][k])
             \/ (s = t /\ k = Len(K[t]) + 1 /\ L[s][k] = f)
  <2>1. CASE s = t
    BY <1>1, <2>1
  <2>2. CASE s # t
    BY <1>1, <2>2
  <2> QED BY <2>1, <2>2
<1>4. \A s \in Threads : 1..Len(K[s]) \subseteq 1..Len(L[s])
  BY <1>1, <1>2
<1>5. Len(K[t]) + 1 \in 1..Len(L[t])
  BY <1>1
<1>6. OneFrame(L)
  <2> SUFFICES ASSUME NEW r \in Threads, NEW s \in Threads,
                      NEW k \in 1..Len(L[r]), NEW l \in 1..Len(L[s]),
                      L[r][k].who = L[s][l].who
               PROVE  r = s /\ k = l
    BY Zenon DEF OneFrame
  <2>1. CASE k \in 1..Len(K[r]) /\ L[r][k] = K[r][k] /\ l \in 1..Len(K[s]) /\ L[s][l] = K[s][l]
    BY <2>1 DEF OneFrame
  <2> QED BY <1>3, <2>1, ZenonT(60)
<1>7. ASSUME NEW j PROVE Inline(L, j) <=> (Inline(K, j) \/ (f.how = "inline" /\ f.who = j))
  <2>1. ASSUME Inline(L, j), ~(f.how = "inline" /\ f.who = j) PROVE Inline(K, j)
    <3>0. PICK s \in Threads : \E k \in 1..Len(L[s]) : L[s][k].who = j /\ L[s][k].how = "inline"
      BY <2>1, Zenon DEF Inline
    <3>1. PICK k \in 1..Len(L[s]) : L[s][k].who = j /\ L[s][k].how = "inline"
      BY <3>0, Zenon
    <3>2. k \in 1..Len(K[s]) /\ L[s][k] = K[s][k]
      BY <1>3, <2>1, <3>1
    <3> QED BY <3>1, <3>2 DEF Inline
  <2>2. ASSUME Inline(K, j) PROVE Inline(L, j)
    <3>0. PICK s \in Threads : \E k \in 1..Len(K[s]) : K[s][k].who = j /\ K[s][k].how = "inline"
      BY <2>2, Zenon DEF Inline
    <3>1. PICK k \in 1..Len(K[s]) : K[s][k].who = j /\ K[s][k].how = "inline"
      BY <3>0, Zenon
    <3>2. k \in 1..Len(L[s]) /\ L[s][k] = K[s][k]
      BY <1>1, <1>4, Zenon
    <3> QED BY <3>1, <3>2 DEF Inline
  <2>3. ASSUME f.how = "inline" /\ f.who = j PROVE Inline(L, j)
    BY <1>1, <1>5, <2>3 DEF Inline
  <2> QED BY <2>1, <2>2, <2>3
<1> QED BY <1>6, <1>7, Zenon DEF L

(* The frames below the one that is left stay as they are.                  *)
LEMMA PoppedFrames ==
  ASSUME NEW K \in [Threads -> Seq(FrameType)], OneFrame(K), NEW t \in Threads, K[t] # <<>>
  PROVE  /\ OneFrame(Pop(K, t))
         /\ \A s \in Threads : \A k \in 1..Len(Pop(K, t)[s]) :
              /\ k \in 1..Len(K[s]) /\ Pop(K, t)[s][k] = K[s][k]
              /\ k > 1 => Pop(K, t)[s][k - 1] = K[s][k - 1]
              /\ Pop(K, t)[s][k].who # Top_(K, t).who
         /\ \A j : Inline(Pop(K, t), j) <=>
                (Inline(K, j) /\ ~(Top_(K, t).how = "inline" /\ Top_(K, t).who = j))
<1> DEFINE L == Pop(K, t)
<1>1. /\ L \in [Threads -> Seq(FrameType)] /\ Len(K[t]) \in Nat \ {0}
      /\ \A s \in Threads : Len(L[s]) = IF s = t THEN Len(K[t]) - 1 ELSE Len(K[s])
      /\ \A s \in Threads : \A k \in 1..Len(L[s]) : L[s][k] = K[s][k]
  BY PopFacts, ZenonT(60)
<1> HIDE DEF L
<1>2. \A s \in Threads : Len(K[s]) \in Nat
  OBVIOUS
<1>3. ASSUME NEW s \in Threads, NEW k \in 1..Len(L[s])
      PROVE  k \in 1..Len(K[s]) /\ L[s][k] = K[s][k] /\ (s = t => k # Len(K[t]))
  BY <1>1, <1>2
<1>4. ASSUME NEW s \in Threads, NEW k \in 1..Len(L[s]), k > 1
      PROVE  L[s][k - 1] = K[s][k - 1]
  <2>1. Len(L[s]) \in Nat
    BY <1>1
  <2>2. k - 1 \in 1..Len(L[s])
    BY <1>4, <2>1
  <2> QED BY <1>1, <2>2
<1>5. ASSUME NEW s \in Threads, NEW k \in 1..Len(L[s]) PROVE L[s][k].who # Top_(K, t).who
  <2>1. Len(K[t]) \in 1..Len(K[t])
    BY <1>1
  <2>2. K[s][k].who = K[t][Len(K[t])].who => s = t /\ k = Len(K[t])
    BY <1>3, <2>1 DEF OneFrame
  <2> QED BY <1>3, <2>2, Zenon DEF Top_
<1>6. OneFrame(L)
  <2> SUFFICES ASSUME NEW r \in Threads, NEW s \in Threads,
                      NEW k \in 1..Len(L[r]), NEW l \in 1..Len(L[s]),
                      L[r][k].who = L[s][l].who
               PROVE  r = s /\ k = l
    BY Zenon DEF OneFrame
  <2>1. k \in 1..Len(K[r]) /\ l \in 1..Len(K[s]) /\ K[r][k].who = K[s][l].who
    BY <1>3, Zenon
  <2> QED BY <2>1 DEF OneFrame
<1>7. ASSUME NEW j
      PROVE  Inline(L, j) <=> (Inline(K, j) /\ ~(Top_(K, t).how = "inline" /\ Top_(K, t).who = j))
  <2>1. ASSUME Inline(L, j) PROVE Inline(K, j) /\ Top_(K, t).who # j
    <3>0. PICK s \in Threads : \E k \in 1..Len(L[s]) : L[s][k].who = j /\ L[s][k].how = "inline"
      BY <2>1, Zenon DEF Inline
    <3>1. PICK k \in 1..Len(L[s]) : L[s][k].who = j /\ L[s][k].how = "inline"
      BY <3>0, Zenon
    <3>2. k \in 1..Len(K[s]) /\ L[s][k] = K[s][k]
      BY <1>3
    <3> QED BY <1>5, <3>1, <3>2, ZenonT(60) DEF Inline
  <2>2. ASSUME Inline(K, j), ~(Top_(K, t).how = "inline" /\ Top_(K, t).who = j) PROVE Inline(L, j)
    <3>0. PICK s \in Threads : \E k \in 1..Len(K[s]) : K[s][k].who = j /\ K[s][k].how = "inline"
      BY <2>2, Zenon DEF Inline
    <3>1. PICK k \in 1..Len(K[s]) : K[s][k].who = j /\ K[s][k].how = "inline"
      BY <3>0, Zenon
    <3>2. ~(s = t /\ k = Len(K[t]))
      BY <2>2, <3>1, Zenon DEF Top_
    <3>3. k \in 1..Len(L[s])
      BY <1>1, <1>2, <3>2
    <3> QED BY <1>3, <3>1, <3>3 DEF Inline
  <2> QED BY <2>1, <2>2, Zenon
<1> QED BY <1>3, <1>4, <1>5, <1>6, <1>7 DEF L

(* The frame of a job that has ended is left (run, after dec).              *)
LEMMA IsLeft ==
  ASSUME NEW K, NEW st, NEW q, NEW n, PoolOk(K, st, q, n),
         NEW t \in Threads, K[t] # <<>>, Top_(K, t).at = "leave"
  PROVE  PoolOk(Pop(K, t), st, q, n)
<1> DEFINE L == Pop(K, t)
<1>1. K \in [Threads -> Seq(FrameType)] /\ OneFrame(K)
  BY DEF PoolOk, Typed
<1>2. L \in [Threads -> Seq(FrameType)] /\ Len(K[t]) \in Nat \ {0}
  BY <1>1, PopFacts
<1>3. /\ OneFrame(L)
      /\ \A s \in Threads : \A k \in 1..Len(L[s]) :
           /\ k \in 1..Len(K[s]) /\ L[s][k] = K[s][k]
           /\ k > 1 => L[s][k - 1] = K[s][k - 1]
           /\ L[s][k].who # Top_(K, t).who
      /\ \A j : Inline(L, j) <=> (Inline(K, j) /\ ~(Top_(K, t).how = "inline" /\ Top_(K, t).who = j))
  BY <1>1, PoppedFrames, ZenonT(60)
<1> HIDE DEF L
<1>4. QueueOk(L, st, q)
  <2>1. \A s \in Threads : \A k \in 1..Len(L[s]) : k \in 1..Len(K[s]) /\ L[s][k] = K[s][k]
    BY <1>3, Zenon
  <2>2. QueueOk(K, st, q)
    BY DEF PoolOk
  <2> QED BY <2>1, <2>2, FewerFrames, ZenonT(60)
<1>5. Top_(K, t).how = "queue"
  <2>1. FrameOk(K, st, t, Len(K[t]))
    BY <1>2, LastPlace, Zenon DEF PoolOk, FramesOk
  <2> QED BY <2>1, Zenon DEF FrameOk, Top_
<1>6. CountOk(L, st, n)
  <2>1. \A u : Counted(L, st, u) = Counted(K, st, u)
    BY <1>3, <1>5, ZenonT(60) DEF Counted
  <2> QED BY <2>1 DEF PoolOk, CountOk
<1>7. FramesOk(L, st)
  <2> SUFFICES ASSUME NEW s \in Threads, NEW k \in 1..Len(L[s]) PROVE FrameOk(L, st, s, k)
    BY DEF FramesOk
  <2>1. FrameOk(K, st, s, k)
    BY <1>3, ZenonT(60) DEF PoolOk, FramesOk
  <2>2. L[s][k] = K[s][k] /\ (k > 1 => L[s][k - 1] = K[s][k - 1])
    BY <1>3, Zenon
  <2> QED BY <2>1, <2>2, ZenonT(60) DEF FrameOk
<1> QED BY <1>2, <1>3, <1>4, <1>6, <1>7, Zenon DEF PoolOk, Typed, L

(* The first of a sequence and the rest of it.                              *)
LEMMA TailFacts ==
  ASSUME NEW S, NEW s \in Seq(S), s # <<>>
  PROVE  /\ Head(s) = s[1] /\ Head(s) \in S /\ Tail(s) \in Seq(S)
         /\ Len(s) \in Nat \ {0} /\ Len(Tail(s)) = Len(s) - 1
         /\ \A p \in 1..Len(Tail(s)) : p + 1 \in 1..Len(s) /\ Tail(s)[p] = s[p + 1]
BY EmptyIsEmpty

(* What a job at the start of its body is.                                  *)
LEMMA NewFrame ==
  ASSUME NEW j \in Users, NEW how \in {"call", "queue", "inline"}
  PROVE  /\ Frame(j, how) \in FrameType /\ Frame(j, how).who = j /\ Frame(j, how).how = how
         /\ Frame(j, how).i = 0 /\ Frame(j, how).at = "body" /\ Frame(j, how).thrown = FALSE
BY DEF Frame, FrameType

(* The first job of the queue starts on a free worker, or above a wait (run). *)
LEMMA Starts ==
  ASSUME NEW K, NEW st, NEW q, NEW n, PoolOk(K, st, q, n), q # <<>>,
         NEW t \in Threads, K[t] # <<>> => Top_(K, t).at = "flush"
  PROVE  PoolOk(Push(K, t, Frame(Head(q), "queue")), st, Tail(q), n)
<1> DEFINE j == Head(q)
           f == Frame(j, "queue")
           L == Push(K, t, f)
<1>1. /\ K \in [Threads -> Seq(FrameType)] /\ OneFrame(K) /\ q \in Seq(Jobs)
      /\ st \in [Jobs -> {"new", "given", "ended"}] /\ n \in [Users -> Int]
      /\ FramesOk(K, st) /\ QueueOk(K, st, q) /\ NotStarted(st, q) /\ CountOk(K, st, n)
  BY Zenon DEF PoolOk, Typed
<1>2. /\ j = q[1] /\ j \in Jobs /\ Tail(q) \in Seq(Jobs)
      /\ Len(q) \in Nat \ {0} /\ Len(Tail(q)) = Len(q) - 1
      /\ \A p \in 1..Len(Tail(q)) : p + 1 \in 1..Len(q) /\ Tail(q)[p] = q[p + 1]
  BY <1>1, TailFacts, Zenon
<1>3. j \in Users
  BY <1>2, Zenon DEF Users
<1>4. f \in FrameType /\ f.who = j /\ f.how = "queue" /\ f.i = 0 /\ f.at = "body"
  BY <1>3, NewFrame, ZenonT(60)
<1>5. /\ st[j] = "given"
      /\ \A s \in Threads : \A k \in 1..Len(K[s]) : K[s][k].who # j
  BY <1>1, <1>2 DEF QueueOk
<1>5a. \A s \in Threads : \A k \in 1..Len(K[s]) : K[s][k].who # f.who
  BY <1>4, <1>5
<1>6. \A i \in Kids(j) : st[i] = "new"
  BY <1>1, <1>2 DEF NotStarted
<1>7. /\ L \in [Threads -> Seq(FrameType)] /\ Len(K[t]) \in Nat
      /\ \A s \in Threads : Len(L[s]) = IF s = t THEN Len(K[t]) + 1 ELSE Len(K[s])
      /\ \A s \in Threads : \A k \in 1..Len(K[s]) : L[s][k] = K[s][k]
      /\ L[t][Len(K[t]) + 1] = f
  <2>1. Pushed(K, t, f, L)
    BY <1>1, <1>4, PushFacts, Zenon
  <2> QED BY <2>1, Zenon DEF Pushed
<1>8. /\ OneFrame(L)
      /\ \A i : Inline(L, i) <=> (Inline(K, i) \/ (f.how = "inline" /\ f.who = i))
  BY <1>1, <1>4, <1>5a, PushedFrames, ZenonT(60)
<1> HIDE DEF j, f, L
<1>9. ASSUME NEW s \in Threads, NEW k \in 1..Len(L[s])
      PROVE  \/ k \in 1..Len(K[s]) /\ L[s][k] = K[s][k]
             \/ s = t /\ k = Len(K[t]) + 1 /\ L[s][k] = f
  <2>1. CASE s = t
    BY <1>7, <2>1
  <2>2. CASE s # t
    BY <1>7, <2>2
  <2> QED BY <2>1, <2>2, Zenon
<1>10. ASSUME NEW s \in Threads, NEW k \in 1..Len(L[s]) PROVE FrameOk(L, st, s, k)
  <2>1. CASE k \in 1..Len(K[s]) /\ L[s][k] = K[s][k]
    <3>1. FrameOk(K, st, s, k)
      BY <1>1, <2>1, Zenon DEF FramesOk
    <3>2. ASSUME k > 1 PROVE L[s][k - 1] = K[s][k - 1]
      <4>1. Len(K[s]) \in Nat
        BY <1>1
      <4>2. k - 1 \in 1..Len(K[s])
        BY <2>1, <3>2, <4>1, PlaceBefore, Zenon
      <4> QED BY <1>7, <4>2, Zenon
    <3> QED BY <2>1, <3>1, <3>2, ZenonT(60) DEF FrameOk
  <2>2. CASE s = t /\ k = Len(K[t]) + 1 /\ L[s][k] = f
    <3>1. k > 1 => L[t][k - 1].at = "flush"
      <4>1. CASE K[t] = <<>>
        BY <2>2, <4>1
      <4>2. CASE K[t] # <<>>
        BY <1>7, <2>2, <4>2 DEF Top_
      <4> QED BY <4>1, <4>2, Zenon
    <3>2. \A m \in DOMAIN Body[j] : Body[j][m] # WAIT => Body[j][m] \in Kids(j)
      BY <1>3, OwnerFacts DEF Kids
    <3>3. \A m \in DOMAIN Body[f.who] : Body[f.who][m] # WAIT => st[Body[f.who][m]] = "new"
      BY <1>4, <1>6, <3>2, Zenon
    <3>4. f.how = "queue" /\ f.at = "body" /\ f.who \in Jobs /\ st[f.who] = "given"
      BY <1>2, <1>4, <1>5, Zenon
    <3> QED BY <2>2, <3>1, <3>3, <3>4, ZenonT(60) DEF FrameOk
  <2> QED BY <1>9, <2>1, <2>2, ZenonT(60)
<1>11. QueueOk(L, st, Tail(q))
  <2>1. ASSUME NEW p \in 1..Len(Tail(q)), NEW s \in Threads, NEW k \in 1..Len(L[s])
        PROVE  L[s][k].who # Tail(q)[p]
    <3>1. p + 1 \in 1..Len(q) /\ 1 \in 1..Len(q) /\ p + 1 # 1 /\ Tail(q)[p] = q[p + 1]
      BY <1>2
    <3>2. q[p + 1] # q[1]
      BY <1>1, <3>1 DEF QueueOk
    <3>3. \A r \in Threads : \A l \in 1..Len(K[r]) : K[r][l].who # q[p + 1]
      BY <1>1, <3>1, Zenon DEF QueueOk
    <3> QED BY <1>2, <1>4, <1>9, <3>1, <3>2, <3>3, ZenonT(60)
  <2>2. ASSUME NEW p \in 1..Len(Tail(q)) PROVE st[Tail(q)[p]] = "given"
    BY <1>1, <1>2 DEF QueueOk
  <2>3. ASSUME NEW p \in 1..Len(Tail(q)), NEW r \in 1..Len(Tail(q)), Tail(q)[p] = Tail(q)[r]
        PROVE  p = r
    <3>1. p + 1 \in 1..Len(q) /\ r + 1 \in 1..Len(q) /\ q[p + 1] = q[r + 1]
      BY <1>2, <2>3, Zenon
    <3>2. p + 1 = r + 1
      BY <1>1, <3>1, Zenon DEF QueueOk
    <3> QED BY <1>2, <3>2
  <2> QED BY <2>1, <2>2, <2>3 DEF QueueOk
<1>12. NotStarted(st, Tail(q))
  BY <1>1, <1>2 DEF NotStarted
<1>13. CountOk(L, st, n)
  <2>1. \A u : Counted(L, st, u) = Counted(K, st, u)
    BY <1>4, <1>8, ZenonT(60) DEF Counted
  <2> QED BY <1>1, <2>1, Zenon DEF CountOk
<1> QED BY <1>1, <1>2, <1>7, <1>8, <1>10, <1>11, <1>12, <1>13, Zenon DEF PoolOk, Typed, FramesOk, L, f, j

(* Halfway through submit: job j of the user on top of t is given, and is
   neither queued nor called yet.                                           *)
Handed(K, st, q, n, t, j, L, st2) ==
  /\ j \in Jobs /\ Owner[j] = Top_(K, t).who /\ st[j] = "new"
  /\ Typed(K, st, q, n) /\ CountOk(K, st, n)
  /\ Typed(L, st2, q, n) /\ OneFrame(L) /\ FramesOk(L, st2)
  /\ QueueOk(L, st2, q) /\ NotStarted(st2, q)
  /\ \A p \in 1..Len(q) : q[p] # j
  /\ \A s \in Threads : \A k \in 1..Len(L[s]) : L[s][k].who # j
  /\ \A i \in Kids(j) : st2[i] = "new"
  /\ \A i \in Jobs : st2[i] = IF i = j THEN "given" ELSE st[i]
  /\ \A i : Inline(L, i) <=> Inline(K, i)
  /\ L[t] # <<>> /\ Top_(L, t).who = Owner[j] /\ Top_(L, t).at = "body"

(* The common part of both ways through submit: the next job of the running
   body is given, before it is queued or called.                            *)
LEMMA Hands ==
  ASSUME NEW K, NEW st, NEW q, NEW n, PoolOk(K, st, q, n),
         NEW t \in Threads, K[t] # <<>>, Top_(K, t).at = "body",
         Top_(K, t).i + 1 \in DOMAIN Body[Top_(K, t).who],
         NEW j, j = Body[Top_(K, t).who][Top_(K, t).i + 1], j # WAIT,
         NEW L, L = SetTop(K, t, [Top_(K, t) EXCEPT !.i = @ + 1]),
         NEW st2, st2 = [st EXCEPT ![j] = "given"]
  PROVE  Handed(K, st, q, n, t, j, L, st2)
<1> DEFINE f == Top_(K, t)
           g == [f EXCEPT !.i = @ + 1]
<1>1. /\ K \in [Threads -> Seq(FrameType)] /\ OneFrame(K) /\ q \in Seq(Jobs)
      /\ st \in [Jobs -> {"new", "given", "ended"}] /\ n \in [Users -> Int]
      /\ FramesOk(K, st) /\ QueueOk(K, st, q) /\ NotStarted(st, q) /\ CountOk(K, st, n)
  BY Zenon DEF PoolOk, Typed
<1>2. Len(K[t]) \in Nat \ {0} /\ f \in FrameType /\ f.who \in Users /\ f.i \in Nat
  BY <1>1, TopFacts, FrameFields, Zenon
<1>3. g \in FrameType /\ g.who = f.who /\ g.how = f.how /\ g.i = f.i + 1 /\ g.at = f.at
  <2>1. g = [f EXCEPT !.i = f.i + 1] /\ f.i + 1 \in Nat
    BY ONLY <1>2, SMTT(30), Z3T(30)
  <2> HIDE DEF f, g
  <2>2. g \in FrameType
    BY <1>2, <2>1, FrameFacts, Zenon
  <2>3. g.who = f.who /\ g.how = f.how /\ g.i = f.i + 1 /\ g.at = f.at
    BY <1>2, <2>1, FrameFields
  <2> QED BY <2>2, <2>3, Zenon
<1>3a. L = SetTop(K, t, g)
  BY Zenon
<1>4. /\ L \in [Threads -> Seq(FrameType)]
      /\ \A s \in Threads : Len(L[s]) = Len(K[s])
      /\ \A s \in Threads : \A k \in 1..Len(K[s]) :
           L[s][k] = IF s = t /\ k = Len(K[t]) THEN g ELSE K[s][k]
  <2> HIDE DEF f, g
  <2>1. Replaced(K, t, g, SetTop(K, t, g))
    BY <1>1, <1>3, SetTopFacts
  <2> QED BY <1>3a, <2>1, ZenonT(60) DEF Replaced
<1>5. j \in Jobs /\ Owner[j] = f.who
  BY <1>2, OwnerFacts, ZenonT(60)
<1>6. Len(K[t]) \in 1..Len(K[t]) /\ K[t][Len(K[t])] = f
  BY <1>2, LastPlace, Zenon DEF Top_
<1>7. FrameOk(K, st, t, Len(K[t]))
  BY <1>1, <1>6, Zenon DEF FramesOk
<1>8. st[j] = "new" /\ (f.who \in Jobs => st[f.who] = "given")
  <2>1. f.i + 1 > f.i
    BY <1>2
  <2> QED BY <1>6, <1>7, <2>1, ZenonT(60) DEF FrameOk
<1> HIDE DEF f, g
<1>9. \A s \in Threads : \A k \in 1..Len(K[s]) :
        /\ L[s][k].who = K[s][k].who /\ L[s][k].how = K[s][k].how /\ L[s][k].at = K[s][k].at
        /\ L[s][k].who # j
  <2> SUFFICES ASSUME NEW s \in Threads, NEW k \in 1..Len(K[s])
               PROVE  /\ L[s][k].who = K[s][k].who /\ L[s][k].how = K[s][k].how
                      /\ L[s][k].at = K[s][k].at /\ L[s][k].who # j
    BY Zenon
  <2>1. L[s][k].who = K[s][k].who /\ L[s][k].how = K[s][k].how /\ L[s][k].at = K[s][k].at
    BY <1>3, <1>4, <1>6, ZenonT(60)
  <2>2. K[s][k].who # j
    <3>1. FrameOk(K, st, s, k)
      BY <1>1, Zenon DEF FramesOk
    <3>2. K[s][k].who \in Jobs => st[K[s][k].who] # "new"
      BY <3>1, Zenon DEF FrameOk
    <3> QED BY <1>5, <1>8, <3>2, Zenon
  <2> QED BY <2>1, <2>2, Zenon
<1>10. /\ Typed(L, st, q, n) /\ OneFrame(L) /\ QueueOk(L, st, q)
       /\ \A i : Inline(L, i) <=> Inline(K, i)
  <2>1. \A s \in Threads : \A k \in 1..Len(K[s]) :
          L[s][k].who = K[s][k].who /\ L[s][k].how = K[s][k].how
    BY <1>9, Zenon
  <2> QED BY ONLY <1>4, <2>1, SameRunners, PoolOk(K, st, q, n)
<1>11. st2 \in [Jobs -> {"new", "given", "ended"}]
       /\ \A i \in Jobs : st2[i] = IF i = j THEN "given" ELSE st[i]
  BY <1>1, <1>5, ZenonT(60)
<1>12. \A p \in 1..Len(q) : q[p] \in Jobs /\ q[p] # j
  BY <1>1, <1>8 DEF QueueOk
<1>13. QueueOk(L, st2, q)
  BY <1>10, <1>11, <1>12, ZenonT(60) DEF QueueOk
<1>14. \A i \in Kids(j) : i \in Jobs /\ i # j /\ st2[i] = "new"
  <2>1. \A i \in Kids(j) : i \in Jobs /\ st[i] = "new"
    BY <1>1, <1>5, <1>8, Zenon DEF NotStarted, Kids
  <2>2. f.who # j
    BY <1>5, <1>8, Zenon
  <2>3. j \notin Kids(j)
    BY <1>5, <2>2, Zenon DEF Kids
  <2> QED BY <1>11, <2>1, <2>3, ZenonT(60)
<1>15. NotStarted(st2, q)
  <2> SUFFICES ASSUME NEW x \in Jobs, st2[x] = "new" \/ (\E p \in 1..Len(q) : q[p] = x),
                      NEW i \in Kids(x)
               PROVE  st2[i] = "new"
    BY Zenon DEF NotStarted
  <2>1. i \in Jobs /\ Owner[i] = x
    BY Zenon DEF Kids
  <2>2. x # f.who
    <3>1. \A p \in 1..Len(q) : q[p] # f.who
      BY <1>1, <1>6, Zenon DEF QueueOk
    <3>2. CASE f.who = j
      BY <1>8, <1>5, <3>2, Zenon
    <3>3. CASE f.who # j
      <4>1. f.who \in Jobs => st2[f.who] # "new"
        BY <1>8, <1>11, <3>3, Zenon
      <4> QED BY <3>1, <4>1, Zenon
    <3> QED BY <3>2, <3>3, Zenon
  <2>3. i # j
    BY <1>5, <2>1, <2>2, Zenon
  <2>4. st[i] = "new"
    <3>1. st[x] = "new" \/ (\E p \in 1..Len(q) : q[p] = x)
      BY <1>11, Zenon
    <3> QED BY <1>1, <3>1, Zenon DEF NotStarted
  <2> QED BY <1>11, <2>1, <2>3, <2>4, Zenon
<1>16. ASSUME NEW s \in Threads, NEW k \in 1..Len(L[s]) PROVE FrameOk(L, st2, s, k)
  <2>1. k \in 1..Len(K[s]) /\ FrameOk(K, st, s, k)
    BY <1>1, <1>4, Zenon DEF FramesOk
  <2>2. L[s][k].who # j /\ L[s][k].who = K[s][k].who /\ L[s][k].how = K[s][k].how
        /\ L[s][k].at = K[s][k].at /\ K[s][k] \in FrameType /\ K[s][k].who \in Users
    <3>1. K[s][k] \in FrameType
      BY <1>1, <2>1
    <3>2. K[s][k].who \in Users
      BY ONLY <3>1, FrameFields, Zenon
    <3> QED BY <1>9, <2>1, <3>1, <3>2, ZenonT(60)
  <2>3. ASSUME k > 1 PROVE L[s][k - 1].who = K[s][k - 1].who /\ L[s][k - 1].at = K[s][k - 1].at
    <3>1. Len(K[s]) \in Nat
      BY <1>1
    <3>2. k - 1 \in 1..Len(K[s])
      BY <2>1, <2>3, <3>1, PlaceBefore, Zenon
    <3> QED BY <1>9, <3>2, ZenonT(60)
  <2>4. CASE s = t /\ k = Len(K[t])
    <3>1. L[s][k] = g /\ K[s][k] = f
      BY <1>4, <1>6, <2>4, Zenon
    <3>2. ASSUME NEW m \in DOMAIN Body[f.who], m > f.i + 1, Body[f.who][m] # WAIT
          PROVE  st2[Body[f.who][m]] = "new"
      <4>1. m \in Int /\ m > f.i /\ m # f.i + 1
        BY <1>2, <3>2, LaterPlace, Zenon
      <4>2. Body[f.who][m] # j
        BY <1>2, <3>2, <4>1, BodyAssumption, Zenon DEF f
      <4>3. st[Body[f.who][m]] = "new"
        BY <2>1, <3>1, <3>2, <4>1, Zenon DEF FrameOk
      <4>4. Body[f.who][m] \in Jobs
        BY <1>2, <3>2, OwnerFacts, Zenon
      <4> QED BY <1>11, <4>2, <4>3, <4>4
    <3>3. g.at = "body"
      BY <1>3, Zenon DEF f
    <3>4. g.who \in Jobs => st2[g.who] = "given"
      BY <1>3, <1>8, <1>11, <2>2, <3>1, ZenonT(60)
    <3>5. /\ g.how = "call" => g.who \in Callers /\ k = 1
          /\ g.how # "call" => g.who \in Jobs
          /\ g.how = "inline" => k > 1 /\ K[s][k - 1].who = Owner[g.who] /\ K[s][k - 1].at = "body"
          /\ g.how = "queue" /\ k > 1 => K[s][k - 1].at = "flush"
      BY <1>3, <2>1, <3>1 DEF FrameOk
    <3>6. \A m \in DOMAIN Body[g.who] :
            m > g.i /\ Body[g.who][m] # WAIT => st2[Body[g.who][m]] = "new"
      BY <1>3, <3>2, ZenonT(60)
    <3> QED BY <2>3, <3>1, <3>3, <3>4, <3>5, <3>6, ZenonT(60) DEF FrameOk
  <2>5. CASE ~(s = t /\ k = Len(K[t]))
    <3>1. L[s][k] = K[s][k]
      BY <1>4, <2>1, <2>5, Zenon
    <3>2. K[s][k].who # f.who
      BY <1>1, <1>6, <2>1, <2>5 DEF OneFrame
    <3>3. j \notin Kids(K[s][k].who)
      BY <1>5, <3>2, Zenon DEF Kids
    <3>4. ASSUME NEW m \in DOMAIN Body[K[s][k].who], Body[K[s][k].who][m] # WAIT
          PROVE  Body[K[s][k].who][m] \in Kids(K[s][k].who)
      BY <2>2, <3>4, OwnerFacts, ZenonT(60) DEF Kids
    <3>5. \A i \in Kids(K[s][k].who) : i \in Jobs /\ i # j /\ st2[i] = st[i]
      BY <1>11, <3>3, ZenonT(60) DEF Kids
    <3>6. K[s][k].who \in Jobs => st2[K[s][k].who] = st[K[s][k].who]
      BY <1>11, <2>2, ZenonT(60)
    <3>7. \A m \in DOMAIN Body[K[s][k].who] : m > K[s][k].i /\ Body[K[s][k].who][m] # WAIT =>
            st2[Body[K[s][k].who][m]] = "new"
      BY <2>1, <3>4, <3>5, ZenonT(60) DEF FrameOk
    <3>8. K[s][k].at = "end" => \A i \in Kids(K[s][k].who) : st2[i] # "given"
      BY <2>1, <3>5, ZenonT(60) DEF FrameOk
    <3> QED BY <2>1, <2>3, <3>1, <3>6, <3>7, <3>8, ZenonT(60) DEF FrameOk
  <2> QED BY <2>4, <2>5, Zenon
<1>17. L[t] # <<>> /\ Len(L[t]) = Len(K[t]) /\ Top_(L, t) = g
  BY <1>2, <1>4, <1>6, Zenon DEF Top_
<1>18. Typed(L, st2, q, n)
  BY <1>10, <1>11, Zenon DEF Typed
<1>19. \A s \in Threads : \A k \in 1..Len(L[s]) : L[s][k].who # j
  BY <1>4, <1>9, ZenonT(60)
<1>20. g.who = Owner[j] /\ g.at = "body" /\ Owner[j] = Top_(K, t).who
  BY <1>3, <1>5 DEF f
<1> QED BY <1>5, <1>8, <1>10, <1>12, <1>13, <1>14, <1>15, <1>16, <1>17, <1>18, <1>19, <1>20,
           <1>1, <1>11, ZenonT(60) DEF FramesOk, Handed, Typed

(* Queue q2 is q and j. *)
Joined(q, j, q2) ==
  /\ q2 \in Seq(Jobs)
  /\ \A p \in 1..Len(q2) : q2[p] = j \/ \E r \in 1..Len(q) : q2[p] = q[r]
  /\ \A p, r \in 1..Len(q2) : q2[p] = q2[r] => p = r

(* submit to the queue: a job joins one of its ends and its waiter counts it. *)
LEMMA GivesQueued ==
  ASSUME NEW K, NEW st, NEW q, NEW n, NEW t \in Threads, NEW j, NEW L, NEW st2,
         Handed(K, st, q, n, t, j, L, st2),
         NEW q2, Joined(q, j, q2)
  PROVE  PoolOk(L, st2, q2, [n EXCEPT ![Owner[j]] = @ + 1])
<1> DEFINE u == Owner[j]
           n2 == [n EXCEPT ![u] = @ + 1]
<1>1. /\ j \in Jobs /\ Owner[j] = u /\ st[j] = "new"
      /\ Typed(L, st2, q, n) /\ OneFrame(L) /\ FramesOk(L, st2)
      /\ QueueOk(L, st2, q) /\ NotStarted(st2, q)
      /\ \A s \in Threads : \A k \in 1..Len(L[s]) : L[s][k].who # j
      /\ \A i \in Kids(j) : st2[i] = "new"
      /\ \A i : Inline(L, i) <=> Inline(K, i)
  BY DEF Handed
<1> HIDE DEF u
<1>2. u \in Users
  BY <1>1, OwnerIsUser, Zenon
<1>3. /\ n \in [Users -> Int] /\ st \in [Jobs -> {"new", "given", "ended"}]
      /\ q \in Seq(Jobs) /\ CountOk(K, st, n)
  BY DEF Handed, Typed
<1>4. n2 \in [Users -> Int] /\ \A v \in Users : n2[v] = IF v = u THEN n[v] + 1 ELSE n[v]
  BY <1>2, <1>3
<1>5. \A i \in Jobs : st2[i] = IF i = j THEN "given" ELSE st[i]
  BY Zenon DEF Handed
<1> HIDE DEF n2
<1>6. Typed(L, st2, q2, n2)
  BY <1>1, <1>4, Zenon DEF Typed, Joined
<1>7. QueueOk(L, st2, q2)
  <2>1. ASSUME NEW p \in 1..Len(q2)
        PROVE  st2[q2[p]] = "given" /\ \A s \in Threads : \A k \in 1..Len(L[s]) : L[s][k].who # q2[p]
    <3>1. CASE q2[p] = j
      BY <1>1, <1>5, <3>1, ZenonT(60)
    <3>2. CASE \E r \in 1..Len(q) : q2[p] = q[r]
      <4>1. PICK r \in 1..Len(q) : q2[p] = q[r]
        BY <3>2
      <4>2. st2[q[r]] = "given" /\ \A s \in Threads : \A k \in 1..Len(L[s]) : L[s][k].who # q[r]
        BY <1>1, Zenon DEF QueueOk
      <4> QED BY <4>1, <4>2, Zenon
    <3> QED BY <3>1, <3>2, Zenon DEF Joined
  <2> QED BY <2>1, Zenon DEF QueueOk, Joined
<1>8. NotStarted(st2, q2)
  <2> SUFFICES ASSUME NEW x \in Jobs, st2[x] = "new" \/ (\E p \in 1..Len(q2) : q2[p] = x),
                      NEW i \in Kids(x)
               PROVE  st2[i] = "new"
    BY ZenonT(60) DEF NotStarted
  <2>1. CASE x = j
    BY <1>1, <2>1, ZenonT(60)
  <2>2. CASE x # j
    <3>1. st2[x] = "new" \/ (\E p \in 1..Len(q) : q[p] = x)
      BY <2>2, Zenon DEF Joined
    <3> QED BY <1>1, <3>1, ZenonT(60) DEF NotStarted
  <2> QED BY <2>1, <2>2
<1>9. CountOk(L, st2, n2)
  <2> SUFFICES ASSUME NEW v \in Users PROVE n2[v] \in Nat /\ HasSize(Counted(L, st2, v), n2[v])
    BY Zenon DEF CountOk
  <2>1. n[v] \in Nat /\ HasSize(Counted(K, st, v), n[v])
    BY <1>3 DEF CountOk
  <2>2. CASE v = u
    <3>1. ~Inline(L, j)
      BY <1>1, ZenonT(60) DEF Inline
    <3>2. Counted(L, st2, v) = Counted(K, st, v) \cup {j}
      BY <1>1, <1>5, <2>2, <3>1, ZenonT(60) DEF Counted, Kids
    <3>3. j \notin Counted(K, st, v)
      BY <1>1 DEF Counted
    <3>4. HasSize(Counted(K, st, v) \cup {j}, n[v] + 1)
      BY <2>1, <3>3, AddOne, Zenon
    <3> QED BY <1>4, <2>1, <2>2, <3>2, <3>4
  <2>3. CASE v # u
    <3>1. Counted(L, st2, v) = Counted(K, st, v)
      BY <1>1, <1>5, <2>3, ZenonT(60) DEF Counted, Kids
    <3> QED BY <1>4, <2>1, <2>3, <3>1
  <2> QED BY <2>2, <2>3, Zenon
<1> QED BY <1>1, <1>6, <1>7, <1>8, <1>9 DEF PoolOk, n2, u

(* submit on the spot: the job runs above the body that submits it.         *)
LEMMA GivesInline ==
  ASSUME NEW K, NEW st, NEW q, NEW n, NEW t \in Threads, NEW j, NEW L, NEW st2,
         Handed(K, st, q, n, t, j, L, st2)
  PROVE  PoolOk(Push(L, t, Frame(j, "inline")), st2, q, n)
<1> DEFINE f == Frame(j, "inline")
           M == Push(L, t, f)
<1>1. /\ j \in Jobs /\ Owner[j] = Top_(K, t).who /\ st[j] = "new"
      /\ Typed(L, st2, q, n) /\ OneFrame(L) /\ FramesOk(L, st2)
      /\ QueueOk(L, st2, q) /\ NotStarted(st2, q)
      /\ \A p \in 1..Len(q) : q[p] # j
      /\ \A s \in Threads : \A k \in 1..Len(L[s]) : L[s][k].who # j
      /\ \A i \in Kids(j) : st2[i] = "new"
      /\ \A i : Inline(L, i) <=> Inline(K, i)
      /\ L[t] # <<>> /\ Top_(L, t).who = Owner[j] /\ Top_(L, t).at = "body"
  BY ZenonT(60) DEF Handed
<1>2. j \in Users /\ L \in [Threads -> Seq(FrameType)]
  BY <1>1 DEF Users, Typed
<1>3. f \in FrameType /\ f.who = j /\ f.how = "inline" /\ f.i = 0 /\ f.at = "body"
  BY <1>2, NewFrame, ZenonT(60)
<1> HIDE DEF f
<1>4. \A s \in Threads : \A k \in 1..Len(L[s]) : L[s][k].who # f.who
  BY <1>1, <1>3
<1>5. /\ M \in [Threads -> Seq(FrameType)] /\ Len(L[t]) \in Nat
      /\ \A s \in Threads : Len(M[s]) = IF s = t THEN Len(L[t]) + 1 ELSE Len(L[s])
      /\ \A s \in Threads : \A k \in 1..Len(L[s]) : M[s][k] = L[s][k]
      /\ M[t][Len(L[t]) + 1] = f
  <2>1. Pushed(L, t, f, M)
    BY <1>2, <1>3, PushFacts
  <2> QED BY <2>1, Zenon DEF Pushed
<1>6. OneFrame(M) /\ \A i : Inline(M, i) <=> (Inline(L, i) \/ (f.how = "inline" /\ f.who = i))
  BY ONLY <1>1, <1>2, <1>3, <1>4, t \in Threads, PushedFrames, ZenonT(60)
<1> HIDE DEF M
<1>7. ASSUME NEW s \in Threads, NEW k \in 1..Len(M[s])
      PROVE  \/ k \in 1..Len(L[s]) /\ M[s][k] = L[s][k]
             \/ s = t /\ k = Len(L[t]) + 1 /\ M[s][k] = f
  <2>1. CASE s = t
    BY <1>5, <2>1
  <2>2. CASE s # t
    BY <1>5, <2>2
  <2> QED BY <2>1, <2>2
<1>8. st \in [Jobs -> {"new", "given", "ended"}] /\ n \in [Users -> Int] /\ CountOk(K, st, n)
  BY Zenon DEF Handed, Typed
<1>9. \A i \in Jobs : st2[i] = IF i = j THEN "given" ELSE st[i]
  BY Zenon DEF Handed
<1>10. ASSUME NEW s \in Threads, NEW k \in 1..Len(M[s]) PROVE FrameOk(M, st2, s, k)
  <2>1. CASE k \in 1..Len(L[s]) /\ M[s][k] = L[s][k]
    <3>1. FrameOk(L, st2, s, k)
      BY <1>1, <2>1, ZenonT(60) DEF FramesOk
    <3>2. ASSUME k > 1 PROVE M[s][k - 1] = L[s][k - 1]
      <4>1. Len(L[s]) \in Nat
        BY <1>2
      <4>2. k - 1 \in 1..Len(L[s])
        BY <2>1, <3>2, <4>1, PlaceBefore, Zenon
      <4> QED BY <1>5, <4>2, Zenon
    <3> QED BY <2>1, <3>1, <3>2, ZenonT(60) DEF FrameOk
  <2>2. CASE s = t /\ k = Len(L[t]) + 1 /\ M[s][k] = f
    <3>1. k > 1 /\ M[t][k - 1].who = Owner[j] /\ M[t][k - 1].at = "body"
      <4>0. Len(L[t]) \in Nat \ {0}
        BY <1>1, <1>2, TopFacts, Zenon
      <4>1. Len(L[t]) > 0
        BY ONLY <4>0
      <4>2. Len(L[t]) \in 1..Len(L[t]) /\ k - 1 = Len(L[t]) /\ k > 1
        BY <1>5, <2>2, <4>1
      <4> QED BY <1>1, <1>5, <4>2, ZenonT(60) DEF Top_
    <3>2. \A m \in DOMAIN Body[j] : Body[j][m] # WAIT => Body[j][m] \in Kids(j)
      BY <1>2, OwnerFacts, ZenonT(60) DEF Kids
    <3>3. st2[j] = "given"
      BY <1>1, <1>9, ZenonT(60)
    <3> QED BY <1>1, <1>3, <2>2, <3>1, <3>2, <3>3, ZenonT(60) DEF FrameOk
  <2> QED BY <1>7, <2>1, <2>2
<1>11. QueueOk(M, st2, q)
  <2>1. ASSUME NEW p \in 1..Len(q), NEW s \in Threads, NEW k \in 1..Len(M[s])
        PROVE  M[s][k].who # q[p]
    <3>1. M[s][k].who = j \/ (k \in 1..Len(L[s]) /\ M[s][k] = L[s][k])
      BY <1>3, <1>7, Zenon
    <3> QED BY <1>1, <3>1, ZenonT(60) DEF QueueOk
  <2> QED BY <1>1, <2>1, ZenonT(60) DEF QueueOk
<1>12. CountOk(M, st2, n)
  <2>1. ASSUME NEW v PROVE Counted(M, st2, v) = Counted(K, st, v)
    BY <1>1, <1>3, <1>6, <1>9 DEF Counted, Kids
  <2> QED BY <1>8, <2>1 DEF CountOk
<1> QED BY <1>1, <1>5, <1>6, <1>10, <1>11, <1>12, ZenonT(60) DEF PoolOk, Typed, FramesOk, M, f

(* Stacks L are K but for the frame of j. *)
OthersKept(K, L, st, j) ==
  \A s \in Threads : \A k \in 1..Len(L[s]) :
    \/ /\ k \in 1..Len(K[s]) /\ L[s][k] = K[s][k] /\ L[s][k].who # j
       /\ k > 1 => L[s][k - 1] = K[s][k - 1]
    \/ L[s][k].who = j /\ FrameOk(L, st, s, k)

(* With stacks L and states st2, job j, which runs in K, has ended. *)
HasEnded(K, st, q, j, L, st2) ==
  /\ j \in Jobs /\ st[j] = "given" /\ \A p \in 1..Len(q) : q[p] # j
  /\ L \in [Threads -> Seq(FrameType)] /\ OneFrame(L)
  /\ \A i \in Jobs : st2[i] = IF i = j THEN "ended" ELSE st[i]
  /\ OthersKept(K, L, st2, j)

(* A job that runs ends: the frames of the others, the queue and what has not
   started are as they were.                                                *)
LEMMA EndsJob ==
  ASSUME NEW K, NEW st, NEW q, NEW n, PoolOk(K, st, q, n),
         NEW j, NEW L, NEW st2, HasEnded(K, st, q, j, L, st2)
  PROVE  FramesOk(L, st2) /\ QueueOk(L, st2, q) /\ NotStarted(st2, q)
<1> j \in Jobs /\ st[j] = "given" /\ (\A p \in 1..Len(q) : q[p] # j)
    /\ L \in [Threads -> Seq(FrameType)] /\ OneFrame(L) /\ OthersKept(K, L, st2, j)
  BY DEF HasEnded
<1>1. /\ K \in [Threads -> Seq(FrameType)] /\ OneFrame(K) /\ q \in Seq(Jobs)
      /\ st \in [Jobs -> {"new", "given", "ended"}]
      /\ FramesOk(K, st) /\ QueueOk(K, st, q) /\ NotStarted(st, q)
  BY ZenonT(60) DEF PoolOk, Typed
<1>2. \A i \in Jobs : st2[i] = IF i = j THEN "ended" ELSE st[i]
  BY Zenon DEF HasEnded
<1>3. \A s \in Threads : \A k \in 1..Len(L[s]) :
           \/ /\ k \in 1..Len(K[s]) /\ L[s][k] = K[s][k] /\ L[s][k].who # j
              /\ k > 1 => L[s][k - 1] = K[s][k - 1]
           \/ L[s][k].who = j /\ FrameOk(L, st2, s, k)
  BY Zenon DEF OthersKept
<1>4. QueueOk(L, st2, q)
  <2>1. ASSUME NEW p \in 1..Len(q)
        PROVE  st2[q[p]] = "given" /\ \A s \in Threads : \A k \in 1..Len(L[s]) : L[s][k].who # q[p]
    <3>1. q[p] \in Jobs /\ q[p] # j /\ st[q[p]] = "given"
      BY <1>1, AtPlace, Zenon DEF QueueOk
    <3>2. \A s \in Threads : \A k \in 1..Len(K[s]) : K[s][k].who # q[p]
      BY <1>1, Zenon DEF QueueOk
    <3> QED BY <1>2, <1>3, <3>1, <3>2
  <2> QED BY <1>1, <2>1, ZenonT(60) DEF QueueOk
<1>5. NotStarted(st2, q)
  <2> SUFFICES ASSUME NEW x \in Jobs, st2[x] = "new" \/ (\E p \in 1..Len(q) : q[p] = x),
                      NEW i \in Kids(x)
               PROVE  st2[i] = "new"
    BY Zenon DEF NotStarted
  <2>1. st[x] = "new" \/ (\E p \in 1..Len(q) : q[p] = x)
    BY <1>2, ZenonT(60)
  <2>2. i \in Jobs /\ st[i] = "new"
    BY <1>1, <2>1 DEF NotStarted, Kids
  <2> QED BY <1>2, <2>2, Zenon
<1>6. ASSUME NEW s \in Threads, NEW k \in 1..Len(L[s]) PROVE FrameOk(L, st2, s, k)
  <2>1. CASE /\ k \in 1..Len(K[s]) /\ L[s][k] = K[s][k] /\ L[s][k].who # j
             /\ k > 1 => L[s][k - 1] = K[s][k - 1]
    <3> DEFINE f == K[s][k]
    <3>1. FrameOk(K, st, s, k) /\ f \in FrameType /\ f.who \in Users
      <4>1. f \in FrameType
        BY <1>1, <2>1, AtPlace, ZenonT(60)
      <4> QED BY <1>1, <2>1, <4>1, FrameFields, ZenonT(60) DEF FramesOk
    <3>2. f.who \in Jobs => st2[f.who] = st[f.who]
      BY <1>2, <2>1
    <3>3. \A i \in Kids(f.who) : st[i] # "given" => st2[i] # "given"
      BY <1>2, ZenonT(60) DEF Kids
    <3>4. f.at = "end" => \A i \in Kids(f.who) : st2[i] # "given"
      BY <3>1, <3>3, ZenonT(60) DEF FrameOk
    <3>5. ASSUME NEW m \in DOMAIN Body[f.who], m > f.i, Body[f.who][m] # WAIT
          PROVE  st2[Body[f.who][m]] = "new"
      <4>1. Body[f.who][m] \in Jobs
        BY <3>1, <3>5, OwnerFacts, ZenonT(60)
      <4>2. st[Body[f.who][m]] = "new"
        BY <3>1, <3>5, ZenonT(60) DEF FrameOk
      <4> QED BY <1>2, <4>1, <4>2, Zenon
    <3>6. /\ f.how = "call" => f.who \in Callers /\ k = 1
          /\ f.how # "call" => f.who \in Jobs
          /\ f.how = "inline" => k > 1 /\ L[s][k - 1].who = Owner[f.who] /\ L[s][k - 1].at = "body"
          /\ f.how = "queue" /\ k > 1 => L[s][k - 1].at = "flush"
          /\ f.at = "leave" => f.how = "queue"
          /\ f.who \in Jobs => st[f.who] = IF f.at = "leave" THEN "ended" ELSE "given"
      BY <2>1, <3>1, ZenonT(60) DEF FrameOk
    <3>7. L[s][k] = f
      BY <2>1, Zenon
    <3> HIDE DEF f
    <3> QED BY <3>2, <3>4, <3>5, <3>6, <3>7 DEF FrameOk
  <2> QED BY <1>3, <2>1, ZenonT(60)
<1> QED BY <1>4, <1>5, <1>6, ZenonT(60) DEF FramesOk

(* A job taken off the queue ends and its waiter counts it no more (run, dec). *)
LEMMA EndsQueued ==
  ASSUME NEW K, NEW st, NEW q, NEW n, PoolOk(K, st, q, n),
         NEW t \in Threads, K[t] # <<>>, NEW j, j = Top_(K, t).who,
         Top_(K, t).how = "queue", Top_(K, t).at # "leave"
  PROVE  PoolOk(SetTop(K, t, [Top_(K, t) EXCEPT !.at = "leave"]), [st EXCEPT ![j] = "ended"],
                q, [n EXCEPT ![Owner[j]] = @ - 1])
<1> DEFINE f == Top_(K, t)
           g == [f EXCEPT !.at = "leave"]
           L == SetTop(K, t, g)
           st2 == [st EXCEPT ![j] = "ended"]
           n2 == [n EXCEPT ![Owner[j]] = @ - 1]
<1>1. /\ K \in [Threads -> Seq(FrameType)] /\ OneFrame(K) /\ q \in Seq(Jobs)
      /\ st \in [Jobs -> {"new", "given", "ended"}] /\ n \in [Users -> Int]
      /\ FramesOk(K, st) /\ QueueOk(K, st, q) /\ NotStarted(st, q) /\ CountOk(K, st, n)
  BY Zenon DEF PoolOk, Typed
<1>2. Len(K[t]) \in Nat \ {0} /\ f \in FrameType /\ f.i \in Nat
  BY <1>1, TopFacts, FrameFields, ZenonT(60)
<1>3. f.who = j /\ f.how = "queue" /\ f.at # "leave"
  BY Zenon
<1>4. Len(K[t]) \in 1..Len(K[t]) /\ K[t][Len(K[t])] = f
  BY <1>2 DEF Top_
<1> HIDE DEF f
<1>5. g \in FrameType /\ g.who = j /\ g.how = "queue" /\ g.i = f.i /\ g.at = "leave"
  BY <1>2, <1>3, FrameFacts, FrameFields, ZenonT(60)
<1> HIDE DEF g
<1>6. /\ L \in [Threads -> Seq(FrameType)]
      /\ \A s \in Threads : Len(L[s]) = Len(K[s])
      /\ \A s \in Threads : \A k \in 1..Len(K[s]) :
           L[s][k] = IF s = t /\ k = Len(K[t]) THEN g ELSE K[s][k]
  <2>1. Replaced(K, t, g, L)
    BY <1>1, <1>5, SetTopFacts, Zenon
  <2> QED BY <2>1, Zenon DEF Replaced
<1> HIDE DEF L
<1>7. \A s \in Threads : \A k \in 1..Len(K[s]) :
        L[s][k].who = K[s][k].who /\ L[s][k].how = K[s][k].how
  BY <1>3, <1>4, <1>5, <1>6
<1>8. OneFrame(L) /\ \A i : Inline(L, i) <=> Inline(K, i)
  BY ONLY <1>6, <1>7, SameRunners, PoolOk(K, st, q, n)
<1>9. FrameOk(K, st, t, Len(K[t]))
  BY <1>1, <1>4, ZenonT(60) DEF FramesOk
<1>10. j \in Jobs /\ st[j] = "given"
  BY <1>3, <1>4, <1>9, ZenonT(60) DEF FrameOk
<1>11. \A p \in 1..Len(q) : q[p] # j
  BY <1>1, <1>3, <1>4 DEF QueueOk
<1>12. /\ st2 \in [Jobs -> {"new", "given", "ended"}]
       /\ \A i \in Jobs : st2[i] = IF i = j THEN "ended" ELSE st[i]
  BY <1>1, <1>10, ZenonT(60)
<1> HIDE DEF st2
<1>13. ASSUME NEW s \in Threads, NEW k \in 1..Len(L[s])
       PROVE  \/ /\ k \in 1..Len(K[s]) /\ L[s][k] = K[s][k] /\ L[s][k].who # j
                 /\ k > 1 => L[s][k - 1] = K[s][k - 1]
              \/ L[s][k].who = j /\ FrameOk(L, st2, s, k)
  <2>1. k \in 1..Len(K[s])
    BY <1>6
  <2>2. ASSUME k > 1 PROVE L[s][k - 1] = K[s][k - 1]
    <3>1. Len(K[s]) \in Nat
      BY <1>1
    <3>2. k - 1 \in 1..Len(K[s]) /\ k - 1 # Len(K[s])
      BY <2>1, <2>2, <3>1, PlaceBefore, Zenon
    <3> QED BY <1>6, <3>2
  <2>3. CASE s = t /\ k = Len(K[t])
    <3>1. L[s][k] = g
      BY <1>6, <2>1, <2>3, ZenonT(60)
    <3>2. k > 1 => K[s][k - 1].at = "flush"
      BY <1>3, <1>4, <1>9, <2>3 DEF FrameOk
    <3>3. ASSUME NEW m \in DOMAIN Body[j], m > g.i, Body[j][m] # WAIT
          PROVE  st2[Body[j][m]] = "new"
      <4>1. j \in Users
        BY <1>10, Zenon DEF Users
      <4>2. Body[j][m] \in Jobs
        BY <3>3, <4>1, OwnerFacts, ZenonT(60)
      <4>3. st[Body[j][m]] = "new"
        BY <1>3, <1>4, <1>5, <1>9, <3>3, ZenonT(60) DEF FrameOk
      <4> QED BY <1>10, <1>12, <4>2, <4>3, Zenon
    <3> QED BY <1>5, <1>10, <1>12, <2>2, <3>1, <3>2, <3>3, ZenonT(60) DEF FrameOk
  <2>4. CASE ~(s = t /\ k = Len(K[t]))
    <3>1. L[s][k] = K[s][k]
      BY <1>6, <2>1, <2>4, Zenon
    <3>2. K[s][k].who # j
      <4>1. K[s][k].who = K[t][Len(K[t])].who => s = t /\ k = Len(K[t])
        BY <1>1, <1>4, <2>1, OnlyFrame, ZenonT(60)
      <4> QED BY <1>3, <1>4, <2>4, <4>1, Zenon
    <3> QED BY <2>1, <2>2, <3>1, <3>2, Zenon
  <2> QED BY <2>3, <2>4, ZenonT(60)
<1>14. FramesOk(L, st2) /\ QueueOk(L, st2, q) /\ NotStarted(st2, q)
  <2>1. OthersKept(K, L, st2, j)
    BY <1>13 DEF OthersKept
  <2>2. HasEnded(K, st, q, j, L, st2)
    BY <1>6, <1>8, <1>10, <1>11, <1>12, <2>1, ZenonT(60) DEF HasEnded
  <2> QED BY <2>2, EndsJob, ZenonT(60)
<1>15. Owner[j] \in Users
  BY <1>10, OwnerIsUser, Zenon
<1>16. n2 \in [Users -> Int] /\ \A v \in Users : n2[v] = IF v = Owner[j] THEN n[v] - 1 ELSE n[v]
  BY <1>1, <1>15
<1> HIDE DEF n2
<1>17. ASSUME NEW v \in Users PROVE n2[v] \in Nat /\ HasSize(Counted(L, st2, v), n2[v])
  <2>1. n[v] \in Nat /\ HasSize(Counted(K, st, v), n[v])
    BY <1>1, ZenonT(60) DEF CountOk
  <2>2. CASE v = Owner[j]
    <3>1. ~Inline(K, j)
      <4>1. ASSUME NEW s \in Threads, NEW k \in 1..Len(K[s]), K[s][k].who = j
            PROVE  s = t /\ k = Len(K[t])
        <5>1. K[s][k].who = K[t][Len(K[t])].who
          BY <1>3, <1>4, <4>1, ZenonT(60)
        <5> QED BY <1>1, <1>4, <5>1, OnlyFrame, Zenon
      <4> QED BY <1>3, <1>4, <4>1, Zenon DEF Inline
    <3>2. Counted(L, st2, v) = Counted(K, st, v) \ {j}
      BY <1>8, <1>12, Zenon DEF Counted, Kids
    <3>3. j \in Counted(K, st, v)
      BY <1>10, <2>2, <3>1, Zenon DEF Counted, Kids
    <3>4. n[v] > 0 /\ HasSize(Counted(K, st, v) \ {j}, n[v] - 1)
      BY <2>1, <3>3, RemoveOne, ZenonT(60)
    <3>5. n2[v] = n[v] - 1
      BY <1>16, <2>2, Zenon
    <3>6. n[v] - 1 \in Nat
      BY ONLY <2>1, <3>4
    <3> QED BY <3>2, <3>4, <3>5, <3>6, Zenon
  <2>3. CASE v # Owner[j]
    <3>1. Counted(L, st2, v) = Counted(K, st, v)
      BY <1>8, <1>12, <2>3, ZenonT(60) DEF Counted, Kids
    <3> QED BY <1>16, <2>1, <2>3, <3>1, Zenon
  <2> QED BY <2>2, <2>3, Zenon
<1> QED BY <1>1, <1>6, <1>8, <1>12, <1>14, <1>16, <1>17, Zenon DEF PoolOk, Typed, CountOk, L, g, f, st2, n2

(* A job that submit called ends: it was not counted.                       *)
LEMMA EndsInline ==
  ASSUME NEW K, NEW st, NEW q, NEW n, PoolOk(K, st, q, n),
         NEW t \in Threads, K[t] # <<>>, NEW j, j = Top_(K, t).who,
         Top_(K, t).how = "inline"
  PROVE  /\ PoolOk(Pop(K, t), [st EXCEPT ![j] = "ended"], q, n)
         /\ Pop(K, t)[t] # <<>> /\ Top_(Pop(K, t), t).who = Owner[j]
<1> DEFINE f == Top_(K, t)
           L == Pop(K, t)
           st2 == [st EXCEPT ![j] = "ended"]
<1>1. /\ K \in [Threads -> Seq(FrameType)] /\ OneFrame(K) /\ q \in Seq(Jobs)
      /\ st \in [Jobs -> {"new", "given", "ended"}] /\ n \in [Users -> Int]
      /\ FramesOk(K, st) /\ QueueOk(K, st, q) /\ NotStarted(st, q) /\ CountOk(K, st, n)
  BY Zenon DEF PoolOk, Typed
<1>2. Len(K[t]) \in Nat \ {0} /\ f.who = j /\ f.how = "inline"
  BY <1>1, TopFacts, Zenon
<1>3. Len(K[t]) \in 1..Len(K[t]) /\ K[t][Len(K[t])] = f
  BY <1>2 DEF Top_
<1>4. /\ L \in [Threads -> Seq(FrameType)] /\ Len(L[t]) = Len(K[t]) - 1
      /\ \A s \in Threads : \A k \in 1..Len(L[s]) : L[s][k] = K[s][k]
  BY <1>1, PopFacts, ZenonT(60)
<1>5. /\ OneFrame(L)
      /\ \A s \in Threads : \A k \in 1..Len(L[s]) :
           /\ k \in 1..Len(K[s]) /\ L[s][k] = K[s][k]
           /\ k > 1 => L[s][k - 1] = K[s][k - 1]
           /\ L[s][k].who # f.who
      /\ \A i : Inline(L, i) <=> (Inline(K, i) /\ ~(f.how = "inline" /\ f.who = i))
  BY <1>1, PoppedFrames, ZenonT(60)
<1> HIDE DEF f, L
<1>6. FrameOk(K, st, t, Len(K[t]))
  BY <1>1, <1>3 DEF FramesOk
<1>7. /\ j \in Jobs /\ st[j] = "given" /\ Len(K[t]) > 1
      /\ K[t][Len(K[t]) - 1].who = Owner[j]
  BY <1>2, <1>3, <1>6, Zenon DEF FrameOk
<1>8. \A p \in 1..Len(q) : q[p] # j
  BY ONLY <1>1, <1>2, <1>3, t \in Threads, QueuedHasNone, SMTT(30), Z3T(30)
<1>9. /\ st2 \in [Jobs -> {"new", "given", "ended"}]
      /\ \A i \in Jobs : st2[i] = IF i = j THEN "ended" ELSE st[i]
  BY <1>1, <1>7, ZenonT(60)
<1> HIDE DEF st2
<1>10. FramesOk(L, st2) /\ QueueOk(L, st2, q) /\ NotStarted(st2, q)
  <2>1. OthersKept(K, L, st2, j)
    BY <1>2, <1>5, ZenonT(60) DEF OthersKept
  <2>2. HasEnded(K, st, q, j, L, st2)
    BY <1>4, <1>5, <1>7, <1>8, <1>9, <2>1, Zenon DEF HasEnded
  <2> QED BY <2>2, EndsJob, Zenon
<1>11. CountOk(L, st2, n)
  <2>1. Inline(K, j)
    BY <1>2, <1>3, ZenonT(60) DEF Inline
  <2>2. ASSUME NEW v PROVE Counted(L, st2, v) = Counted(K, st, v)
    BY <1>2, <1>5, <1>9, <2>1, ZenonT(60) DEF Counted, Kids
  <2> QED BY <1>1, <2>2, ZenonT(60) DEF CountOk
<1>12. L[t] # <<>> /\ Top_(L, t).who = Owner[j]
  <2>1. Len(L[t]) \in 1..Len(L[t]) /\ Len(L[t]) = Len(K[t]) - 1
    BY <1>2, <1>4, <1>7
  <2>2. L[t] # <<>>
    BY <1>4, <2>1, EmptyIsEmpty
  <2>3. L[t][Len(L[t])] = K[t][Len(K[t]) - 1]
    BY <1>5, <2>1, ZenonT(60)
  <2> QED BY <1>7, <2>2, <2>3, Zenon DEF Top_
<1> QED BY <1>1, <1>4, <1>5, <1>9, <1>10, <1>11, <1>12, Zenon DEF PoolOk, Typed, L, st2

(* A caller is done: its frame was the only one of its thread.              *)
LEMMA EndsCall ==
  ASSUME NEW K, NEW st, NEW q, NEW n, PoolOk(K, st, q, n),
         NEW t \in Threads, K[t] # <<>>, Top_(K, t).how = "call"
  PROVE  PoolOk([K EXCEPT ![t] = <<>>], st, q, n) /\ Top_(K, t).who \notin Jobs
<1> DEFINE f == Top_(K, t)
           L == Pop(K, t)
<1>1. /\ K \in [Threads -> Seq(FrameType)] /\ OneFrame(K)
      /\ FramesOk(K, st) /\ CountOk(K, st, n)
  BY DEF PoolOk, Typed
<1>2. Len(K[t]) \in 1..Len(K[t]) /\ K[t][Len(K[t])] = f
  <2>1. Len(K[t]) \in Nat \ {0}
    BY <1>1, TopFacts, Zenon
  <2> QED BY <2>1, LastPlace, Zenon DEF Top_
<1>3. FrameOk(K, st, t, Len(K[t]))
  BY <1>1, <1>2, Zenon DEF FramesOk
<1>4. f.how = "call"
  BY Zenon
<1>5. f.who \in Callers /\ Len(K[t]) = 1
  BY <1>2, <1>3, <1>4, Zenon DEF FrameOk
<1>6. f.who \notin Jobs
  BY <1>5, BodyAssumption, Zenon
<1>7. /\ L \in [Threads -> Seq(FrameType)] /\ Len(L[t]) = Len(K[t]) - 1
  BY <1>1, PopFacts
<1>8. /\ OneFrame(L)
      /\ \A s \in Threads : \A k \in 1..Len(L[s]) :
           /\ k \in 1..Len(K[s]) /\ L[s][k] = K[s][k]
           /\ k > 1 => L[s][k - 1] = K[s][k - 1]
           /\ L[s][k].who # f.who
      /\ \A i : Inline(L, i) <=> (Inline(K, i) /\ ~(f.how = "inline" /\ f.who = i))
  BY <1>1, PoppedFrames, ZenonT(60)
<1>9. L[t] = <<>>
  BY <1>5, <1>7, EmptyIsEmpty
<1>10. [K EXCEPT ![t] = <<>>] = L
  BY <1>1, <1>9, ZenonT(60) DEF Pop
<1> HIDE DEF f, L
<1>11. ASSUME NEW s \in Threads, NEW k \in 1..Len(L[s]) PROVE FrameOk(L, st, s, k)
  <2>1. FrameOk(K, st, s, k)
    BY <1>1, <1>8, ZenonT(60) DEF FramesOk
  <2>2. L[s][k] = K[s][k] /\ (k > 1 => L[s][k - 1] = K[s][k - 1])
    BY <1>8, Zenon
  <2> QED BY <2>1, <2>2 DEF FrameOk
<1>12. QueueOk(L, st, q)
  <2>1. \A s \in Threads : \A k \in 1..Len(L[s]) : k \in 1..Len(K[s]) /\ L[s][k] = K[s][k]
    BY <1>8
  <2>2. QueueOk(K, st, q)
    BY DEF PoolOk
  <2> QED BY <2>1, <2>2, FewerFrames, ZenonT(60)
<1>13. CountOk(L, st, n)
  <2>1. \A u : Counted(L, st, u) = Counted(K, st, u)
    BY <1>4, <1>8, Zenon DEF Counted
  <2> QED BY <1>1, <2>1, Zenon DEF CountOk
<1>14. PoolOk(L, st, q, n)
  BY <1>7, <1>8, <1>11, <1>12, <1>13, Zenon DEF PoolOk, Typed, FramesOk
<1> QED BY <1>6, <1>10, <1>14, Zenon DEF f

(* A waiter whose count is zero waits for nobody: what it was handed has
   ended, as a job that runs in line runs above its owner, who is not waiting. *)
LEMMA ZeroMeansEnded ==
  ASSUME NEW K, NEW st, NEW q, NEW n, PoolOk(K, st, q, n),
         NEW t \in Threads, K[t] # <<>>, n[Top_(K, t).who] = 0
  PROVE  \A j \in Kids(Top_(K, t).who) : st[j] # "given"
<1> DEFINE u == Top_(K, t).who
<1>1. /\ K \in [Threads -> Seq(FrameType)] /\ OneFrame(K)
      /\ FramesOk(K, st) /\ CountOk(K, st, n)
  BY Zenon DEF PoolOk, Typed
<1>2. Len(K[t]) \in 1..Len(K[t]) /\ K[t][Len(K[t])].who = u /\ u \in Users
  BY <1>1, TopFacts, FrameFields DEF Top_
<1>3. Counted(K, st, u) = {}
  <2>1. HasSize(Counted(K, st, u), 0)
    BY <1>1, <1>2, Zenon DEF CountOk
  <2> QED BY <2>1, NoneIsEmpty, Zenon
<1> HIDE DEF u
<1>4. ASSUME NEW j \in Kids(u), st[j] = "given" PROVE FALSE
  <2>1. Inline(K, j) /\ Owner[j] = u
    BY <1>3, <1>4, Zenon DEF Counted, Kids
  <2>2. PICK s \in Threads : \E k \in 1..Len(K[s]) : K[s][k].who = j /\ K[s][k].how = "inline"
    BY <2>1, Zenon DEF Inline
  <2>3. PICK k \in 1..Len(K[s]) : K[s][k].who = j /\ K[s][k].how = "inline"
    BY <2>2, Zenon
  <2>4. FrameOk(K, st, s, k)
    BY <1>1, ZenonT(60) DEF FramesOk
  <2>5. k > 1 /\ K[s][k - 1].who = u
    BY <2>1, <2>3, <2>4, ZenonT(60) DEF FrameOk
  <2>6. Len(K[s]) \in Nat
    BY <1>1
  <2>7. k - 1 \in 1..Len(K[s]) /\ k - 1 # Len(K[s])
    BY <2>5, <2>6
  <2>8. K[s][k - 1].who = K[t][Len(K[t])].who
    BY <1>2, <2>5
  <2>9. s = t /\ k - 1 = Len(K[t])
    BY <1>1, <1>2, <2>7, <2>8, OnlyFrame, Zenon
  <2> QED BY <2>7, <2>9, Zenon
<1> QED BY <1>4, Zenon DEF u
=============================================================================
