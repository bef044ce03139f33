--------------------------- MODULE TxRelayProofs ----------------------------
(***************************************************************************)
(* Theorems about the relay of transactions, for any transactions, peers,  *)
(* messages, delays and times.                                             *)
(***************************************************************************)
EXTENDS TxRelay, WellFoundedInduction, TLAPS

(* The earliest of a set of times. *)
LEMMA MinOf ==
  ASSUME NEW S, S \subseteq Nat, S # {}
  PROVE  Min(S) \in S /\ \A y \in S : Min(S) <= y
<1>1. \E x \in S : \A y \in S : ~(<<y, x>> \in OpToRel(<, Nat))
  BY NatLessThanWellFounded, WFMin, Zenon
<1>2. \E x \in S : \A y \in S : x <= y
  <2>1. PICK x \in S : \A y \in S : ~(<<y, x>> \in OpToRel(<, Nat))
    BY <1>1, Zenon
  <2>2. ASSUME NEW y \in S PROVE x <= y
    <3>1. ~(y < x)
      BY <2>1, Zenon DEF OpToRel
    <3> QED BY <3>1
  <2> QED BY <2>2
<1> QED BY <1>2, Zenon DEF Min

-----------------------------------------------------------------------------
(* The handlers of the timer that were posted and have not run. *)
Posted(f) == f.expired + f.canceled
Counts == [expired : Nat, canceled : Nat]
Waiting(t) == IF t.waiting THEN 1 ELSE 0

(* A connection with something queued has a flush time, and handlers of the
   timer are to come, the last of them by then. *)
Armed(c) ==
  fluff_txs[c] # {} =>
    flush_time[c] \in Nat /\ flush_callbacks > 0 /\ timer.expiry <= flush_time[c]

ZoneInv ==
  /\ now \in Nat
  /\ DOMAIN fluff_txs = Conns /\ DOMAIN flush_time = Conns
  /\ fired \in Counts /\ timer \in [expiry : Nat, waiting : BOOLEAN]
  /\ flush_callbacks = Posted(fired) + Waiting(timer)
  /\ \A c \in Conns : Armed(c)

(* fluff_flush::queue counts the handler it adds, and the one of a wait it
   cancels has been posted.                                                 *)
LEMMA QueueCounts ==
  ASSUME timer \in [expiry : Nat, waiting : BOOLEAN], NEW n, NEW f \in Counts, NEW time \in Nat,
         n = Posted(f) + Waiting(timer), Queue(n, f, time)
  PROVE  /\ fired' \in Counts /\ timer' \in [expiry : Nat, waiting : BOOLEAN]
         /\ flush_callbacks' = Posted(fired') + Waiting(timer')
         /\ flush_callbacks' > 0 /\ timer'.expiry = time
<1>1. timer' = [expiry |-> time, waiting |-> TRUE] /\ flush_callbacks' = n + 1
  BY DEF Queue
<1>2. CASE timer.waiting
  BY <1>1, <1>2 DEF Queue, Counts, Posted, Waiting
<1>3. CASE ~timer.waiting
  BY <1>1, <1>3 DEF Queue, Counts, Posted, Waiting
<1> QED BY <1>2, <1>3

(* fluff_notify::run *)
LEMMA NotifyArms ==
  ASSUME ZoneInv, NEW txs, NEW source, fluff_notify(txs, source), UNCHANGED now
  PROVE  ZoneInv'
<1> DEFINE receivers == Conns \ {source}
           empty == {c \in receivers : fluff_txs[c] = {}}
<1>1. PICK delay \in [empty -> FlushDelays] :
        LET time == [c \in Conns |-> IF c \in DOMAIN delay THEN now + delay[c] ELSE flush_time[c]]
            next_flush == Min({time[c] : c \in receivers})
        IN  /\ flush_time' = time
            /\ fluff_txs' = [c \in Conns |-> IF c \in receivers THEN fluff_txs[c] \cup txs
                                                                ELSE fluff_txs[c]]
            /\ IF receivers # {} /\ Sooner(next_flush)
                 THEN Queue(flush_callbacks, fired, next_flush)
                 ELSE UNCHANGED <<flush_callbacks, timer, fired>>
  BY Zenon DEF fluff_notify
<1> DEFINE time == [c \in Conns |-> IF c \in empty THEN now + delay[c] ELSE flush_time[c]]
           next == Min({time[c] : c \in receivers})
<1>2. DOMAIN delay = empty
  BY Zenon
<1>3. /\ flush_time' = time
      /\ fluff_txs' = [c \in Conns |-> IF c \in receivers THEN fluff_txs[c] \cup txs ELSE fluff_txs[c]]
      /\ IF receivers # {} /\ Sooner(next)
           THEN Queue(flush_callbacks, fired, next)
           ELSE UNCHANGED <<flush_callbacks, timer, fired>>
  BY <1>1, <1>2, Zenon
<1>4. \A c \in receivers : time[c] \in Nat
  <2>1. \A c \in empty : delay[c] \in Nat
    BY DelaysAssumption, Zenon
  <2>2. ASSUME NEW c \in receivers PROVE time[c] \in Nat
    <3>1. CASE c \in empty
      BY <2>1, <3>1 DEF ZoneInv
    <3>2. CASE c \notin empty
      BY <3>2, Zenon DEF ZoneInv, Armed
    <3> QED BY <3>1, <3>2, Zenon
  <2> QED BY <2>2, Zenon
<1>5. \A c \in Conns \ receivers : time[c] = flush_time[c] /\ fluff_txs'[c] = fluff_txs[c]
  BY <1>3, Zenon
<1>6. receivers # {} => next \in Nat /\ \A c \in receivers : next <= time[c]
  <2> SUFFICES ASSUME receivers # {} PROVE next \in Nat /\ \A c \in receivers : next <= time[c]
    BY Zenon
  <2> DEFINE S == {time[c] : c \in receivers}
  <2>1. S \subseteq Nat /\ S # {}
    BY <1>4, ZenonT(60)
  <2>2. Min(S) \in S /\ \A y \in S : Min(S) <= y
    BY <2>1, MinOf, Zenon
  <2> QED BY <2>1, <2>2, Zenon
<1>7. DOMAIN fluff_txs' = Conns /\ DOMAIN flush_time' = Conns /\ flush_time' = time
  BY <1>3
<1> HIDE DEF time, next
<1>8. CASE receivers # {} /\ Sooner(next)
  <2>1. /\ fired' \in Counts /\ timer' \in [expiry : Nat, waiting : BOOLEAN]
        /\ flush_callbacks' = Posted(fired') + Waiting(timer')
        /\ flush_callbacks' > 0 /\ timer'.expiry = next
    BY <1>3, <1>6, <1>8, QueueCounts DEF ZoneInv
  <2>2. ASSUME NEW c \in receivers PROVE Armed(c)'
    BY <1>4, <1>6, <1>7, <1>8, <2>1, Zenon DEF Armed
  <2>3. ASSUME NEW c \in Conns \ receivers PROVE Armed(c)'
    <3>1. fluff_txs[c] # {} => flush_time[c] \in Nat /\ next < timer.expiry
                               /\ timer.expiry <= flush_time[c] /\ timer.expiry \in Nat
      BY <1>8 DEF Armed, ZoneInv, Sooner
    <3> QED BY <1>5, <1>6, <1>7, <1>8, <2>1, <3>1 DEF Armed
  <2> QED BY <1>7, <2>1, <2>2, <2>3 DEF ZoneInv
<1>9. CASE ~(receivers # {} /\ Sooner(next))
  <2>1. UNCHANGED <<flush_callbacks, timer, fired>>
    BY <1>3, <1>9, Zenon
  <2>2. ASSUME NEW c \in receivers PROVE Armed(c)'
    <3>1. flush_callbacks # 0 /\ ~(next < timer.expiry)
      BY <1>9, <2>2, Zenon DEF Sooner
    <3> QED BY <1>4, <1>6, <1>7, <2>1, <2>2, <3>1 DEF Armed, ZoneInv, Waiting, Posted, Counts
  <2>3. ASSUME NEW c \in Conns \ receivers PROVE Armed(c)'
    BY <1>5, <1>7, <2>1, Zenon DEF Armed, ZoneInv
  <2> QED BY <1>7, <2>1, <2>2, <2>3, Zenon DEF ZoneInv
<1> QED BY <1>8, <1>9

(* fluff_flush::operator(): the last handler flushes what is due, and the timer
   is set for the rest; an earlier one is only counted.                     *)
LEMMA FlushArms ==
  ASSUME ZoneInv, NEW kind \in {"expired", "canceled"}, fluff_flush(kind)
  PROVE  ZoneInv'
<1> DEFINE posted == [fired EXCEPT ![kind] = @ - 1]
           filled == {c \in Conns : fluff_txs[c] # {}}
           due == {c \in filled : flush_time[c] <= now \/ kind = "canceled"}
           rest == filled \ due
<1>1. fired \in Counts /\ fired[kind] > 0 /\ UNCHANGED now
  BY Zenon DEF fluff_flush, ZoneInv
<1>2. posted \in Counts /\ Posted(fired) = Posted(posted) + 1
  <2>1. CASE kind = "expired"
    BY <1>1, <2>1 DEF Counts, Posted
  <2>2. CASE kind = "canceled"
    BY <1>1, <2>2 DEF Counts, Posted
  <2> QED BY <2>1, <2>2, Zenon
<1>3. \/ flush_callbacks = 1 /\ Flush(kind, posted)
      \/ /\ flush_callbacks # 1
         /\ flush_callbacks' = IF flush_callbacks = 0 THEN 0 ELSE flush_callbacks - 1
         /\ fired' = posted /\ UNCHANGED <<fluff_txs, flush_time, timer>>
  BY Zenon DEF fluff_flush
<1>4. Posted(posted) \in Nat /\ Waiting(timer) \in {0, 1}
  BY <1>2 DEF Counts, Posted, Waiting
<1>5. timer \in [expiry : Nat, waiting : BOOLEAN] /\ flush_callbacks = Posted(fired) + Waiting(timer)
  BY Zenon DEF ZoneInv
<1> HIDE DEF posted
<1>6. CASE flush_callbacks = 1 /\ Flush(kind, posted)
  <2>1. Posted(posted) = 0 /\ Waiting(timer) = 0
    BY <1>2, <1>4, <1>5, <1>6
  <2>2. /\ fluff_txs' = [c \in Conns |-> IF c \in due THEN {} ELSE fluff_txs[c]]
        /\ flush_time' = [c \in Conns |-> IF c \in rest THEN flush_time[c] ELSE Never]
        /\ IF rest = {}
             THEN flush_callbacks' = 0 /\ fired' = posted /\ timer' = NotSet
             ELSE Queue(0, posted, Min({flush_time[c] : c \in rest}))
    BY <1>6, Zenon DEF Flush
  <2>3. DOMAIN fluff_txs' = Conns /\ DOMAIN flush_time' = Conns
    BY <2>2, Zenon
  <2>4. \A c \in Conns : fluff_txs'[c] # {} => c \in rest /\ flush_time'[c] = flush_time[c]
    BY <2>2, Zenon
  <2>5. \A c \in rest : flush_time[c] \in Nat
    BY Zenon DEF ZoneInv, Armed
  <2> HIDE DEF rest
  <2>6. CASE rest = {}
    <3>1. timer' \in [expiry : Nat, waiting : BOOLEAN] /\ Waiting(timer') = 0
      <4>1. timer' = [expiry |-> 0, waiting |-> FALSE]
        BY <2>2, <2>6, Zenon DEF NotSet
      <4> QED BY <4>1, Zenon DEF Waiting
    <3>2. fired' \in Counts /\ flush_callbacks' = Posted(fired') + Waiting(timer')
      BY <1>2, <2>1, <2>2, <2>6, <3>1
    <3> QED BY <1>1, <2>3, <2>4, <2>6, <3>1, <3>2, Zenon DEF ZoneInv, Armed
  <2>7. CASE rest # {}
    <3> DEFINE S == {flush_time[c] : c \in rest}
    <3>1. S \subseteq Nat /\ S # {}
      BY <2>5, <2>7, Zenon
    <3>2. Min(S) \in S /\ \A y \in S : Min(S) <= y
      BY <3>1, MinOf, Zenon
    <3>3. Queue(0, posted, Min(S))
      BY <2>2, <2>7, Zenon
    <3>4. \A c \in rest : Min(S) <= flush_time[c]
      BY <3>2, Zenon
    <3> DEFINE m == Min(S)
    <3>5. m \in Nat
      BY <3>1, <3>2, Zenon
    <3> HIDE DEF m, S
    <3>6. 0 = Posted(posted) + Waiting(timer)
      BY <2>1
    <3>7. /\ fired' \in Counts /\ timer' \in [expiry : Nat, waiting : BOOLEAN]
          /\ flush_callbacks' = Posted(fired') + Waiting(timer')
          /\ flush_callbacks' > 0 /\ timer'.expiry = m
      BY <1>2, <1>5, <3>3, <3>5, <3>6, QueueCounts, Zenon DEF m
    <3>8. ASSUME NEW c \in Conns PROVE Armed(c)'
      BY <2>4, <2>5, <3>4, <3>7, Zenon DEF Armed, m
    <3> QED BY <1>1, <2>3, <3>7, <3>8, Zenon DEF ZoneInv
  <2> QED BY <2>6, <2>7, Zenon
<1>7. CASE /\ flush_callbacks # 1
           /\ flush_callbacks' = IF flush_callbacks = 0 THEN 0 ELSE flush_callbacks - 1
           /\ fired' = posted /\ UNCHANGED <<fluff_txs, flush_time, timer>>
  <2>1. flush_callbacks' = Posted(fired') + Waiting(timer')
    BY <1>2, <1>4, <1>5, <1>7
  <2>2. flush_callbacks' > 0
    BY <1>2, <1>4, <1>5, <1>7
  <2> QED BY <1>1, <1>2, <1>7, <2>1, <2>2, Zenon DEF ZoneInv, Armed
<1> QED BY <1>3, <1>6, <1>7, Zenon

(* The wait ends, or a connection is replaced. *)
LEMMA ZoneStepArms == ASSUME ZoneInv, ZoneStep PROVE ZoneInv'
<1>1. CASE TimerExpires
  <2>1. timer' = [expiry |-> timer.expiry, waiting |-> FALSE] /\ timer.waiting = TRUE
        /\ timer.expiry \in Nat
    BY <1>1, Zenon DEF TimerExpires, ZoneInv
  <2>2. fired' \in Counts /\ Posted(fired') = Posted(fired) + 1 /\ Posted(fired) \in Nat
    BY <1>1 DEF TimerExpires, ZoneInv, Counts, Posted
  <2>3. flush_callbacks' = Posted(fired') + Waiting(timer')
    BY <1>1, <2>1, <2>2 DEF TimerExpires, ZoneInv, Waiting
  <2> QED BY <1>1, <2>1, <2>2, <2>3, Zenon DEF TimerExpires, ZoneInv, Armed
<1>2. ASSUME NEW c \in Conns, Reconnect(c) PROVE ZoneInv'
  BY <1>2, Zenon DEF Reconnect, ZoneInv, Armed
<1> QED BY <1>1, <1>2, FlushArms, Zenon DEF ZoneStep

(* Nothing happens to the zone while time goes by. *)
LEMMA QuietArms == ASSUME ZoneInv, UNCHANGED flushVars, now' \in {now, now + 1} PROVE ZoneInv'
BY DEF ZoneInv, Armed, flushVars

(* Every step: transactions reach the zone by fluff_notify alone. *)
LEMMA ZoneStays == ASSUME ZoneInv, [Next]_vars PROVE ZoneInv'
<1>1. CASE UNCHANGED vars
  BY <1>1, QuietArms, Zenon DEF vars, zoneVars
<1>2. ASSUME NEW msg, NEW method, NEW c, handle_notify_new_transactions(msg, method, c) PROVE ZoneInv'
  BY <1>2, QuietArms, Zenon DEF handle_notify_new_transactions, ReceiveOne, zoneVars
<1>3. CASE ReceiveNext
  BY <1>3, QuietArms, Zenon DEF ReceiveNext, ReceiveOne, zoneVars
<1>4. ASSUME NEW t, on_send_raw_tx(t) \/ AddKeptByBlock(t) \/ Mine(t) PROVE ZoneInv'
  BY <1>4, QuietArms, Zenon DEF on_send_raw_tx, AddKeptByBlock, Mine, zoneVars
<1>5. CASE relay_txpool_transactions
  BY <1>5, QuietArms, Zenon DEF relay_txpool_transactions, zoneVars
<1>6. ASSUME NEW th, send_txs(th) PROVE ZoneInv'
  BY <1>6, QuietArms, Zenon DEF send_txs
<1>7. CASE RunFluffNotify
  BY <1>7, NotifyArms, Zenon DEF RunFluffNotify
<1>8. CASE dandelionpp_notify
  <2>1. CASE FluffInstead
    BY <2>1, NotifyArms, Zenon DEF FluffInstead
  <2> QED BY <1>8, <2>1, QuietArms, Zenon DEF dandelionpp_notify
<1>9. CASE Restart
  <2>1. timer' = [expiry |-> 0, waiting |-> FALSE] /\ fired' = [expired |-> 0, canceled |-> 0]
        /\ flush_callbacks' = 0
    BY <1>9, Zenon DEF Restart, ResetZone, NotSet
  <2>2. fired' \in Counts /\ timer' \in [expiry : Nat, waiting : BOOLEAN]
        /\ Posted(fired') = 0 /\ Waiting(timer') = 0
    BY <2>1 DEF Counts, Posted, Waiting
  <2>3. fluff_txs' = [c \in Conns |-> {}] /\ flush_time' = [c \in Conns |-> Never] /\ now' = now
    BY <1>9, Zenon DEF Restart, ResetZone
  <2> QED BY <2>1, <2>2, <2>3 DEF ZoneInv, Armed
<1>10. CASE Tick
  BY <1>10, QuietArms, Zenon DEF Tick, zoneVars
<1> QED BY <1>1, <1>2, <1>3, <1>4, <1>5, <1>6, <1>7, <1>8, <1>9, <1>10, ZoneStepArms, Zenon DEF Next

(* The timer of the zone, for any connections, delays and order of calls, waits
   and canceled waits: every queued transaction is flushed by a handler that is
   posted or a wait that ends in time, and flush_callbacks counts the handlers
   to come exactly (fluff_notify::run, fluff_flush::operator()).            *)
THEOREM FlushSafety == Spec => []FlushArmed
<1>1. Init => ZoneInv
  <2> SUFFICES ASSUME Init PROVE ZoneInv
    BY Zenon
  <2>1. timer = [expiry |-> 0, waiting |-> FALSE] /\ fired = [expired |-> 0, canceled |-> 0]
        /\ flush_callbacks = 0
    BY Zenon DEF Init, InitZone, NotSet
  <2>2. fired \in Counts /\ timer \in [expiry : Nat, waiting : BOOLEAN]
        /\ Posted(fired) = 0 /\ Waiting(timer) = 0
    BY <2>1 DEF Counts, Posted, Waiting
  <2>3. now \in Nat
    BY TimesAssumption, Zenon DEF Init
  <2> QED BY <2>1, <2>2, <2>3 DEF ZoneInv, Armed, Init, InitZone
<1>2. ZoneInv /\ [Next]_vars => ZoneInv'
  BY ZoneStays, Zenon
<1>3. ZoneInv => FlushArmed
  BY DEF ZoneInv, Armed, FlushArmed, Posted, Waiting, Counts
<1> QED BY <1>1, <1>2, <1>3, PTL DEF Spec

-----------------------------------------------------------------------------
(* The types of what the handlers of transactions work with. *)
Sources == Conns \cup {NoConn}
Methods == {"stem", "fluff", "forward", "local", "block"}
Rows == [relay : Methods, last : 0 .. Latest, receive : Nat]
Jobs == [todo : Seq(Txs), relay : {"none", "stem", "fluff", "forward"}, source : Sources,
         stem : SUBSET Txs, fluff : SUBSET Txs]
Calls == [txs : SUBSET Txs, source : Sources, relay : {"stem", "fluff", "local"}]
Entries == [kind : {"fluff_notify", "dandelionpp_notify"}, txs : SUBSET Txs, source : Sources,
            phase : {"waiting", "sending"}]

PoolType ==
  /\ now \in StartTime .. MaxTime
  /\ DOMAIN txpool \subseteq Txs /\ \A t \in DOMAIN txpool : txpool[t] \in Rows
  /\ m_next_check \in Nat /\ net \in Jobs
  /\ sends \in [Threads -> Seq(Calls)] /\ strand \in Seq(Entries)

(* What has been public is in the chain or public in the pool. *)
PublicRows == {t \in DOMAIN txpool : IsPublic(txpool[t].relay)}

(* Transactions do not leave the pool but for the chain, and do not come back. *)
Here == DOMAIN txpool \cup mined

PublicInv ==
  /\ public = mined \cup PublicRows
  /\ \A t \in mined : t \notin DOMAIN txpool
  /\ net.stem \subseteq Here /\ net.fluff \subseteq public
  /\ \A th \in Threads : \A call \in Range(sends[th]) : call.txs \subseteq Here
  /\ \A e \in Range(strand) : e.txs \subseteq IF e.kind = "fluff_notify" THEN public ELSE Here
  /\ \A c \in Conns : fluff_txs[c] \subseteq public

(* A message is handed over at its end. *)
NetInv ==
  net # Idle => /\ net.todo # <<>> /\ net.relay \in {"stem", "fluff", "forward"}
                /\ sends["net"] = <<>>

(* A thread is going to hand t over, or the strand to decide about it. *)
InFlight(t) ==
  \/ \E th \in Threads : \E call \in Range(sends[th]) : t \in call.txs
  \/ \E e \in Range(strand) : e.kind = "dandelionpp_notify" /\ e.phase = "waiting" /\ t \in e.txs

(* get_relay_delay, of a row of an age. *)
Delay(age) == Min({((age + MinRelay) \div MinRelay) * MinRelay, MaxRelay})

(* The relay loop looks at a waiting row in time, and at another one before its
   delay is over by more than the time between two looks, when its next check is
   at that time.                                                            *)
Looked(row, time, check) ==
  IF Waits(row)
    THEN row.last < Latest /\ (check <= row.last \/ check <= time)
    ELSE \/ check <= time
         \/ IF row.last = Latest THEN check <= row.receive + CheckEvery
                                 ELSE check <= row.last + Delay(time - row.receive) + CheckEvery

RowOk(t) ==
  LET row == txpool[t]
  IN  /\ row.receive <= now
      /\ row.relay = "forward" => row.last < Latest
      /\ Waits(row) \/ row.last = Latest \/ row.last <= now
      /\ \/ Looked(row, now, m_next_check) \/ InFlight(t) \/ ~Young(row)
         \/ row.relay = "stem" /\ (t \in forgotten \/ (row.last = Latest /\ t \in net.stem))

ScheduleInv == m_next_check <= now + CheckEvery /\ \A t \in DOMAIN txpool : RowOk(t)

RelayInv == PoolType /\ NetInv /\ PublicInv /\ ScheduleInv

-----------------------------------------------------------------------------
(* Queues of calls: what they hold after their first element is taken, and
   another one added.                                                       *)
LEMMA TailHolds ==
  ASSUME NEW S, NEW s \in Seq(S), s # <<>>
  PROVE  /\ Tail(s) \in Seq(S) /\ Head(s) \in S
         /\ Range(s) = {Head(s)} \cup Range(Tail(s))
<1>1. Tail(s) \in Seq(S) /\ Head(s) \in S /\ Len(s) \in Nat \ {0} /\ DOMAIN s = 1 .. Len(s)
      /\ Head(s) = s[1] /\ DOMAIN Tail(s) = 1 .. Len(s) - 1
  OBVIOUS
<1>2. \A k \in 1 .. Len(s) - 1 : Tail(s)[k] = s[k + 1]
  OBVIOUS
<1>3. ASSUME NEW x \in Range(s) PROVE x = Head(s) \/ x \in Range(Tail(s))
  <2>1. PICK k \in 1 .. Len(s) : x = s[k]
    BY <1>1, <1>3, Zenon DEF Range
  <2>2. k # 1 => k - 1 \in 1 .. Len(s) - 1 /\ Tail(s)[k - 1] = x
    BY <1>1, <1>2, <2>1
  <2> QED BY <1>1, <2>1, <2>2, Zenon DEF Range
<1>4. ASSUME NEW x, x = Head(s) \/ x \in Range(Tail(s)) PROVE x \in Range(s)
  <2>1. CASE x = Head(s)
    BY <1>1, <2>1 DEF Range
  <2>2. CASE x \in Range(Tail(s))
    <3>1. PICK k \in 1 .. Len(s) - 1 : x = Tail(s)[k]
      BY <1>1, <2>2, Zenon DEF Range
    <3>2. k + 1 \in 1 .. Len(s) /\ x = s[k + 1]
      BY <1>1, <1>2, <3>1
    <3> QED BY <1>1, <3>2, Zenon DEF Range
  <2> QED BY <1>4, <2>1, <2>2, Zenon
<1> QED BY <1>1, <1>3, <1>4, Zenon

(* A call added at the end (dispatch to the strand). *)
LEMMA AppendHolds ==
  ASSUME NEW s \in Seq(Entries), NEW e \in Entries
  PROVE  Append(s, e) \in Seq(Entries) /\ Range(Append(s, e)) = Range(s) \cup {e}
<1>1. /\ Append(s, e) \in Seq(Entries) /\ Len(s) \in Nat
      /\ DOMAIN Append(s, e) = 1 .. Len(s) + 1 /\ DOMAIN s = 1 .. Len(s)
      /\ Append(s, e)[Len(s) + 1] = e
  OBVIOUS
<1>2. \A k \in 1 .. Len(s) : Append(s, e)[k] = s[k]
  OBVIOUS
<1>3. \A k \in 1 .. Len(s) + 1 : k \in 1 .. Len(s) \/ k = Len(s) + 1
  BY <1>1
<1>4. \A k \in 1 .. Len(s) : k \in 1 .. Len(s) + 1
  BY <1>1
<1>5. Len(s) + 1 \in 1 .. Len(s) + 1
  BY <1>1
<1> QED BY <1>1, <1>2, <1>3, <1>4, <1>5, ZenonT(60) DEF Range

(* The calls of several sets of transactions, one after the other. *)
LEMMA ConcatHolds ==
  ASSUME NEW a \in Seq(Calls), NEW b \in Seq(Calls)
  PROVE  a \o b \in Seq(Calls) /\ Range(a \o b) = Range(a) \cup Range(b)
<1>1. /\ a \o b \in Seq(Calls) /\ Len(a) \in Nat /\ Len(b) \in Nat
      /\ DOMAIN a = 1 .. Len(a) /\ DOMAIN b = 1 .. Len(b)
      /\ DOMAIN (a \o b) = 1 .. Len(a) + Len(b)
  OBVIOUS
<1>2. /\ \A k \in 1 .. Len(a) : (a \o b)[k] = a[k] /\ k \in 1 .. Len(a) + Len(b)
      /\ \A k \in 1 .. Len(b) : (a \o b)[k + Len(a)] = b[k] /\ k + Len(a) \in 1 .. Len(a) + Len(b)
  BY <1>1
<1>3. \A k \in 1 .. Len(a) + Len(b) :
        k \in 1 .. Len(a) \/ (k - Len(a) \in 1 .. Len(b) /\ k = (k - Len(a)) + Len(a))
  BY <1>1
<1> HIDE DEF Range
<1>4. ASSUME NEW x \in Range(a \o b) PROVE x \in Range(a) \/ x \in Range(b)
  BY <1>1, <1>2, <1>3, <1>4 DEF Range
<1>5. ASSUME NEW x, x \in Range(a) \/ x \in Range(b) PROVE x \in Range(a \o b)
  BY <1>1, <1>2, <1>5, ZenonT(60) DEF Range
<1> QED BY <1>1, <1>4, <1>5, Zenon

(* The calls a thread has to make for a set of transactions: one, or none. *)
LEMMA SendHolds ==
  ASSUME NEW txs \in SUBSET Txs, NEW source \in Sources, NEW method \in {"stem", "fluff", "local"}
  PROVE  /\ Send(txs, source, method) \in Seq(Calls)
         /\ \A call \in Range(Send(txs, source, method)) : call.txs = txs
         /\ \A t \in txs : \E call \in Range(Send(txs, source, method)) : t \in call.txs
<1> DEFINE c == [txs |-> txs, source |-> source, relay |-> method]
<1>1. c \in Calls /\ c.txs = txs
  BY Zenon DEF Calls
<1> HIDE DEF c
<1>2. <<c>> \in Seq(Calls) /\ Range(<<c>>) = {c}
  BY <1>1 DEF Range
<1>3. <<>> \in Seq(Calls) /\ Range(<<>>) = {}
  BY DEF Range
<1>4. Send(txs, source, method) = IF txs = {} THEN <<>> ELSE <<c>>
  BY Zenon DEF Send, c
<1> QED BY <1>1, <1>2, <1>3, <1>4, Zenon

(* The entry at the head of the strand goes on to send. *)
LEMMA SendingHolds ==
  ASSUME NEW s \in Seq(Entries), s # <<>>
  PROVE  LET u == [s EXCEPT ![1].phase = "sending"]
             e == [Head(s) EXCEPT !.phase = "sending"]
         IN  u \in Seq(Entries) /\ Range(u) = {e} \cup Range(Tail(s))
<1> DEFINE u == [s EXCEPT ![1].phase = "sending"]
           e == [Head(s) EXCEPT !.phase = "sending"]
<1>1. Head(s) \in Entries /\ Head(s) = s[1] /\ Len(s) \in Nat \ {0} /\ DOMAIN s = 1 .. Len(s)
  OBVIOUS
<1>2. e \in Entries
  BY <1>1, Zenon DEF Entries
<1>3. u = [s EXCEPT ![1] = e]
  BY <1>1, Zenon
<1> HIDE DEF u, e
<1>4. u \in Seq(Entries) /\ DOMAIN u = DOMAIN s /\ u[1] = e /\ \A k \in DOMAIN s : k # 1 => u[k] = s[k]
  BY <1>1, <1>2, <1>3
<1>5. Len(u) = Len(s) /\ u # <<>> /\ Head(u) = e
  BY <1>1, <1>4
<1>6. Tail(u) = Tail(s)
  BY <1>1, <1>4, <1>5
<1>7. Range(u) = {e} \cup Range(Tail(s))
  BY <1>4, <1>5, <1>6, TailHolds, ZenonT(60)
<1> QED BY <1>4, <1>7, ZenonT(60) DEF u, e

-----------------------------------------------------------------------------
(* The delay grows with the age of a row, up to its bound. *)
LEMMA DelayGrows ==
  ASSUME NEW a \in Nat, NEW b \in Nat, a <= b
  PROVE  Delay(a) \in Nat /\ Delay(a) <= Delay(b) /\ Delay(a) <= MaxRelay
<1> DEFINE D(x) == ((x + MinRelay) \div MinRelay) * MinRelay
<1>1. MinRelay \in Nat \ {0} /\ MaxRelay \in Nat
  BY TimesAssumption, Zenon
<1>2. D(a) \in Nat /\ D(b) \in Nat /\ D(a) <= D(b)
  <2> DEFINE p == (a + MinRelay) \div MinRelay
             q == (b + MinRelay) \div MinRelay
  <2>1. p \in Nat /\ q \in Nat /\ p <= q
    BY <1>1
  <2> HIDE DEF p, q
  <2>2. p * MinRelay <= q * MinRelay /\ p * MinRelay \in Nat /\ q * MinRelay \in Nat
    BY <1>1, <2>1
  <2> QED BY <2>2, Zenon DEF p, q
<1> HIDE DEF D
<1>3. ASSUME NEW x \in {a, b}
      PROVE  LET S == {D(x), MaxRelay} IN Delay(x) = Min(S) /\ Min(S) \in S /\ \A y \in S : Min(S) <= y
  <2>1. {D(x), MaxRelay} \subseteq Nat /\ {D(x), MaxRelay} # {}
    BY <1>1, <1>2, Zenon
  <2>2. Delay(x) = Min({D(x), MaxRelay})
    BY Zenon DEF Delay, D
  <2> QED BY <2>1, <2>2, MinOf, Zenon
<1>4. /\ Delay(a) \in {D(a), MaxRelay} /\ Delay(a) <= D(a) /\ Delay(a) <= MaxRelay
      /\ Delay(b) \in {D(b), MaxRelay}
  BY <1>3, Zenon
<1> QED BY <1>1, <1>2, <1>4

(* What a step may leave a row to: nothing of its schedule gets later. *)
RowIsKept(t) ==
  /\ txpool'[t] = txpool[t] /\ m_next_check' <= m_next_check
  /\ InFlight(t) => InFlight(t)'
  /\ t \in forgotten => t \in forgotten'
  /\ txpool[t].relay = "stem" /\ txpool[t].last = Latest /\ t \in net.stem =>
       t \in net'.stem \/ InFlight(t)' \/ t \in forgotten'

(* A row that a step leaves stays scheduled. *)
LEMMA KeptIsOk ==
  ASSUME NEW t, txpool[t] \in Rows, RowOk(t), RowIsKept(t), now \in Nat, UNCHANGED now,
         m_next_check \in Nat, m_next_check' \in Nat
  PROVE  RowOk(t)'
<1> DEFINE row == txpool[t]
<1>1. row.last \in Nat /\ row.receive \in Nat /\ Delay(now - row.receive) \in Nat /\ Latest \in Int
  <2>1. row.last \in Nat /\ row.receive \in Nat /\ row.receive <= now
    BY DEF Rows, RowOk
  <2>2. now - row.receive \in Nat
    BY <2>1
  <2> QED BY <2>1, <2>2, DelayGrows, TimesAssumption DEF Latest
<1>2. Looked(row, now, m_next_check) => Looked(row, now, m_next_check')
  BY <1>1, TimesAssumption DEF Looked, Latest, RowIsKept
<1> QED BY <1>2, TimesAssumption, ZenonT(60) DEF RowOk, RowIsKept, Young, MaxAge, Waits

-----------------------------------------------------------------------------
(* A row of t is there, new, upgraded to the method, or as it was. *)
Stored(t, m) ==
  /\ DOMAIN txpool' = DOMAIN txpool \cup {t}
  /\ \A u \in DOMAIN txpool \ {t} : txpool'[u] = txpool[u]
  /\ m_next_check' \in Nat /\ m_next_check' <= m_next_check
  /\ public' = IF IsPublic(m) THEN public \cup {t} ELSE public
  /\ \A u \in forgotten : u # t => u \in forgotten'
  /\ \/ /\ t \in DOMAIN txpool /\ txpool'[t] = txpool[t] /\ Rank[m] <= Rank[txpool[t].relay]
        /\ forgotten' = forgotten
     \/ /\ t \in DOMAIN txpool => Rank[txpool[t].relay] < Rank[m]
        /\ txpool'[t] \in Rows /\ txpool'[t].relay = m /\ txpool'[t].receive = now
        /\ IF m = "forward" THEN txpool'[t].last < Latest /\ m_next_check' <= txpool'[t].last
           ELSE txpool'[t].last = Latest \/ (m = "block" /\ txpool'[t].last = now)

(* The ranks of relay_method, in its order. *)
LEMMA RankFacts ==
  /\ DOMAIN Rank = {"none", "local", "forward", "stem", "fluff", "block"}
  /\ Rank["none"] = 0 /\ Rank["local"] = 1 /\ Rank["forward"] = 2
  /\ Rank["stem"] = 3 /\ Rank["fluff"] = 4 /\ Rank["block"] = 5
BY Zenon DEF Rank

(* The times of a row that is stored or relayed now. *)
LEMMA TimeFacts ==
  ASSUME PoolType
  PROVE  /\ now \in Nat /\ now <= MaxTime /\ StartTime <= now /\ Latest \in Nat /\ now < Latest
         /\ m_next_check \in Nat /\ CheckEvery \in Nat
         /\ \A d \in Embargo \cup ForwardDelay : d \in Nat /\ now + d \in Nat /\ now + d < Latest
<1>1. now \in Nat /\ now <= MaxTime /\ StartTime <= now /\ MaxTime \in Nat /\ TimeRange \in Nat
      /\ MaxRelay \in Nat /\ m_next_check \in Nat /\ CheckEvery \in Nat
  BY TimesAssumption DEF PoolType
<1>2. MaxTime + MaxRelay < TimeRange - 1
  BY TimesAssumption, Zenon
<1>3. \A d \in Embargo \cup ForwardDelay : d \in Nat /\ MaxTime + d < TimeRange - 1
  BY TimesAssumption, Zenon
<1> QED BY <1>1, <1>2, <1>3 DEF Latest

(* add_tx *)
LEMMA AddTxStores ==
  ASSUME PoolType, NEW t, NEW m \in Methods, add_tx(t, m)
  PROVE  Stored(t, m)
<1> DEFINE known == t \in DOMAIN txpool
           upgraded == IF known THEN Rank[txpool[t].relay] < Rank[m] ELSE TRUE
           Row(time) == [relay |-> m, last |-> time, receive |-> now]
<1>1. /\ \/ /\ upgraded /\ m = "forward"
            /\ \E d \in ForwardDelay :
                 txpool' = SetRow(t, Row(now + d)) /\ m_next_check' = Min({m_next_check, now + d})
         \/ upgraded /\ m # "forward" /\ txpool' = SetRow(t, Row(Latest)) /\ UNCHANGED m_next_check
         \/ ~upgraded /\ UNCHANGED <<txpool, m_next_check>>
      /\ public' = IF IsPublic(m) THEN public \cup {t} ELSE public
      /\ forgotten' = IF upgraded THEN forgotten \ {t} ELSE forgotten
  BY Zenon DEF add_tx
<1>2. ASSUME NEW time, time \in 0 .. Latest
      PROVE  Row(time) \in Rows /\ Row(time).relay = m /\ Row(time).receive = now /\ Row(time).last = time
  BY <1>2, TimeFacts, RankFacts, Zenon DEF Rows, Methods
<1>3. ASSUME NEW row, txpool' = SetRow(t, row)
      PROVE  /\ DOMAIN txpool' = DOMAIN txpool \cup {t} /\ txpool'[t] = row
             /\ \A u \in DOMAIN txpool \ {t} : txpool'[u] = txpool[u]
  BY <1>3, ZenonT(60) DEF SetRow
<1>4. CASE ~upgraded
  <2>1. known /\ ~(Rank[txpool[t].relay] < Rank[m]) /\ UNCHANGED <<txpool, m_next_check>>
    BY <1>1, <1>4, ZenonT(60)
  <2>2. Rank[m] <= Rank[txpool[t].relay]
    <3>1. txpool[t].relay \in Methods
      BY <2>1, Zenon DEF PoolType, Rows
    <3> QED BY <2>1, <3>1, RankFacts DEF Methods
  <2>3. m_next_check' \in Nat /\ m_next_check' <= m_next_check
    <3>1. m_next_check \in Nat /\ m_next_check' = m_next_check
      BY <2>1, TimeFacts, Zenon
    <3> QED BY <3>1, SMT
  <2>4. forgotten' = forgotten /\ txpool' = txpool
    BY <1>1, <1>4, <2>1, ZenonT(60)
  <2>5. DOMAIN txpool' = DOMAIN txpool \cup {t} /\ txpool'[t] = txpool[t]
    BY <2>1, <2>4, ZenonT(60)
  <2> QED BY <1>1, <2>1, <2>2, <2>3, <2>4, <2>5, ZenonT(60) DEF Stored
<1>5. CASE upgraded /\ m = "forward"
  <2>1. PICK d \in ForwardDelay :
          txpool' = SetRow(t, Row(now + d)) /\ m_next_check' = Min({m_next_check, now + d})
    BY <1>1, <1>5, Zenon
  <2>2. now + d \in 0 .. Latest /\ now + d < Latest /\ now + d \in Nat
    BY TimeFacts
  <2>3. m_next_check' \in Nat /\ m_next_check' <= m_next_check /\ m_next_check' <= now + d
    <3>1. {m_next_check, now + d} \subseteq Nat /\ {m_next_check, now + d} # {}
      BY <2>2, TimeFacts
    <3> QED BY <2>1, <3>1, MinOf
  <2> HIDE DEF Row
  <2> QED BY <1>1, <1>2, <1>3, <1>5, <2>1, <2>2, <2>3, ZenonT(60) DEF Stored
<1>6. CASE upgraded /\ m # "forward"
  <2>1. txpool' = SetRow(t, Row(Latest)) /\ UNCHANGED m_next_check
    BY <1>1, <1>6, ZenonT(60)
  <2>2. Latest \in 0 .. Latest /\ m_next_check \in Nat
    BY TimeFacts
  <2>3. m_next_check' \in Nat /\ m_next_check' <= m_next_check
    BY <2>1, <2>2, SMT
  <2> HIDE DEF Row
  <2> QED BY <1>1, <1>2, <1>3, <1>6, <2>1, <2>2, <2>3, ZenonT(60) DEF Stored
<1> QED BY <1>4, <1>5, <1>6, Zenon

(* A row is looked at soon enough when it was stored or relayed now. *)
LEMMA RecentIsLooked ==
  ASSUME NEW row \in Rows, ~Waits(row), NEW time \in Nat, NEW check \in Nat,
         check <= time + CheckEvery,
         \/ row.last = Latest /\ row.receive = time
         \/ row.last # Latest /\ row.last = time /\ row.receive <= time
  PROVE  Looked(row, time, check)
<1>1. row.receive \in Nat /\ row.last \in Nat /\ time - row.receive \in Nat /\ CheckEvery \in Nat
  BY TimesAssumption DEF Rows
<1>2. Delay(time - row.receive) \in Nat
  BY <1>1, DelayGrows
<1> QED BY <1>1, <1>2 DEF Looked

(* A stored row is scheduled, one for the stem phase by its handler. *)
LEMMA StoredIsOk ==
  ASSUME PoolType, m_next_check <= now + CheckEvery, UNCHANGED now, NEW t, NEW m \in Methods,
         Stored(t, m), m = "stem" => t \in net'.stem \/ InFlight(t)',
         t \in DOMAIN txpool => RowOk(t) /\ (InFlight(t) => InFlight(t)'),
         t \in DOMAIN txpool /\ t \in net.stem => t \in net'.stem \/ InFlight(t)'
  PROVE  RowOk(t)'
<1>1. CASE t \in DOMAIN txpool /\ txpool'[t] = txpool[t] /\ forgotten' = forgotten
  <2>1. RowIsKept(t)
    BY <1>1, Zenon DEF RowIsKept, Stored
  <2> QED BY <1>1, <2>1, KeptIsOk, TimeFacts, Zenon DEF PoolType, Stored
<1>2. CASE /\ txpool'[t] \in Rows /\ txpool'[t].relay = m /\ txpool'[t].receive = now
           /\ IF m = "forward" THEN txpool'[t].last < Latest /\ m_next_check' <= txpool'[t].last
              ELSE txpool'[t].last = Latest \/ (m = "block" /\ txpool'[t].last = now)
  <2> DEFINE row == txpool'[t]
  <2>1. Latest' = Latest /\ now' = now /\ now \in Nat /\ now < Latest
    BY TimeFacts, ZenonT(60) DEF Latest
  <2>2. row.receive <= now' /\ (row.relay = "forward" => row.last < Latest)
        /\ (m \in {"stem", "forward"} \/ row.last = Latest \/ row.last <= now')
    BY <1>2, <2>1
  <2>3. Waits(row) <=> m \in {"stem", "forward"}
    BY <1>2, Zenon DEF Waits
  <2>4. CASE m = "stem"
    <3>1. row.relay = "stem" /\ row.last = Latest
      BY <1>2, <2>4, Zenon
    <3> QED BY <2>1, <2>2, <2>3, <2>4, <3>1, ZenonT(60) DEF RowOk
  <2>5. CASE m = "forward"
    <3>1. Looked(row, now', m_next_check')
      BY <1>2, <2>1, <2>3, <2>5, ZenonT(60) DEF Looked
    <3> QED BY <2>1, <2>2, <2>3, <2>5, <3>1, ZenonT(60) DEF RowOk
  <2>6. CASE m \notin {"stem", "forward"}
    <3>1. Looked(row, now', m_next_check')
      <4>1. ~Waits(row) /\ now' \in Nat /\ m_next_check' \in Nat /\ m_next_check' <= now' + CheckEvery
        <5>1. m_next_check' \in Nat /\ m_next_check' <= m_next_check
          BY Zenon DEF Stored
        <5>2. m_next_check \in Nat /\ now \in Nat /\ CheckEvery \in Nat
          BY TimeFacts, Zenon
        <5>3. m_next_check' <= now + CheckEvery
          BY <5>1, <5>2, SMT
        <5> QED BY <2>1, <2>3, <2>6, <5>1, <5>3, Zenon
      <4>2. \/ row.last = Latest /\ row.receive = now'
            \/ row.last # Latest /\ row.last = now' /\ row.receive <= now'
        BY <1>2, <2>1, <2>6
      <4> QED BY <1>2, <4>1, <4>2, RecentIsLooked, Zenon
    <3> QED BY <2>1, <2>2, <2>3, <2>6, <3>1, Zenon DEF RowOk
  <2> QED BY <2>4, <2>5, <2>6, ZenonT(60)
<1> QED BY <1>1, <1>2, Zenon DEF Stored

(* The rows of transactions that were just relayed. *)
Relayed(txs, m) ==
  /\ DOMAIN txpool' = DOMAIN txpool
  /\ \A u \in DOMAIN txpool \ txs : txpool'[u] = txpool[u]
  /\ m_next_check' \in Nat /\ m_next_check' <= m_next_check
  /\ public' = public \cup {t \in txs \cap DOMAIN txpool : IsPublic(txpool'[t].relay)}
  /\ \A u \in forgotten : u \notin txs => u \in forgotten'
  /\ \A t \in txs \cap DOMAIN txpool :
       /\ txpool'[t] \in Rows /\ txpool'[t].receive = txpool[t].receive
       /\ txpool'[t].relay = Upgrade(txpool[t].relay, m)
       /\ IF txpool'[t].relay = "stem"
            THEN txpool'[t].last < Latest /\ m_next_check' <= txpool'[t].last
            ELSE txpool'[t].last = now

(* upgrade_relay_method, by the two methods transactions are sent with. *)
LEMMA UpgradeFacts ==
  ASSUME NEW r \in Methods, NEW m \in {"stem", "fluff"}
  PROVE  /\ Upgrade(r, m) \in {"stem", "fluff", "block"}
         /\ m = "fluff" \/ IsPublic(r) => IsPublic(Upgrade(r, m))
BY RankFacts DEF Upgrade, IsPublic, Methods

(* set_relayed *)
LEMMA SetRelayedRelays ==
  ASSUME PoolType, NEW txs, NEW m \in {"stem", "fluff"}, set_relayed(txs, m)
  PROVE  Relayed(txs, m)
<1> DEFINE rows == txs \cap DOMAIN txpool
           R(t) == Upgrade(txpool[t].relay, m)
           stems == {t \in rows : R(t) = "stem"}
<1>1. PICK embargo \in [stems -> Embargo] :
        /\ txpool' = [t \in DOMAIN txpool |->
             IF t \in rows
               THEN [txpool[t] EXCEPT !.relay = R(t),
                                      !.last = IF t \in stems THEN now + embargo[t] ELSE now]
               ELSE txpool[t]]
        /\ m_next_check' = NextCheckWith(stems, embargo)
        /\ public' = public \cup {t \in rows : IsPublic(R(t))}
        /\ forgotten' = forgotten \ rows
  BY Zenon DEF set_relayed
<1>2. DOMAIN txpool' = DOMAIN txpool /\ \A u \in DOMAIN txpool \ txs : txpool'[u] = txpool[u]
  BY <1>1, Zenon
<1>3. \A t \in stems : embargo[t] \in Embargo
  BY Zenon
<1>4. \A t \in stems : now + embargo[t] \in Nat /\ now + embargo[t] < Latest
  BY <1>3, TimeFacts, Zenon
<1>5. m_next_check' \in Nat /\ m_next_check' <= m_next_check
      /\ \A t \in stems : m_next_check' <= now + embargo[t]
  <2> DEFINE S == {m_next_check} \cup {now + embargo[t] : t \in stems}
  <2>1. S \subseteq Nat /\ S # {}
    BY <1>4, TimeFacts, Zenon
  <2>2. m_next_check' = Min(S)
    BY <1>1, Zenon DEF NextCheckWith
  <2>3. Min(S) \in S /\ \A y \in S : Min(S) <= y
    BY <2>1, MinOf, ZenonT(60)
  <2>4. m_next_check \in S /\ \A t \in stems : now + embargo[t] \in S
    OBVIOUS
  <2> HIDE DEF S
  <2> QED BY <2>1, <2>2, <2>3, <2>4, Zenon
<1>6. ASSUME NEW t \in rows
      PROVE  /\ txpool'[t] \in Rows /\ txpool'[t].receive = txpool[t].receive
             /\ txpool'[t].relay = R(t)
             /\ txpool'[t].last = IF t \in stems THEN now + embargo[t] ELSE now
  <2> DEFINE x == IF t \in stems THEN now + embargo[t] ELSE now
  <2>1. txpool'[t] = [txpool[t] EXCEPT !.relay = R(t), !.last = x] /\ txpool[t] \in Rows
    BY <1>1, ZenonT(60) DEF PoolType
  <2>2. x \in 0 .. Latest
    BY <1>4, TimeFacts
  <2>3. R(t) \in Methods
    <3>1. txpool[t].relay \in Methods
      BY <2>1, Zenon DEF Rows
    <3> QED BY <3>1, UpgradeFacts, Zenon DEF Methods
  <2> HIDE DEF x, R
  <2> QED BY <2>1, <2>2, <2>3, ZenonT(60) DEF Rows, x
<1>7. public' = public \cup {t \in rows : IsPublic(txpool'[t].relay)}
  BY <1>1, <1>6, ZenonT(60)
<1>8. ASSUME NEW t \in rows
      PROVE  IF txpool'[t].relay = "stem"
               THEN txpool'[t].last < Latest /\ m_next_check' <= txpool'[t].last
               ELSE txpool'[t].last = now
  <2>1. CASE t \in stems
    BY <1>4, <1>5, <1>6, <2>1, Zenon
  <2>2. CASE t \notin stems
    BY <1>6, <2>2, SMTT(30)
  <2> QED BY <2>1, <2>2, Zenon
<1>9. \A u \in forgotten : u \notin txs => u \in forgotten'
  BY <1>1, ZenonT(60)
<1> QED BY <1>2, <1>5, <1>6, <1>7, <1>8, <1>9, Zenon DEF Relayed

(* A row that was just relayed is scheduled again. *)
LEMMA RelayedIsOk ==
  ASSUME PoolType, m_next_check <= now + CheckEvery, UNCHANGED now, NEW txs,
         NEW m \in {"stem", "fluff"}, Relayed(txs, m), NEW t \in txs \cap DOMAIN txpool, RowOk(t)
  PROVE  RowOk(t)'
<1> DEFINE row == txpool'[t]
<1>1. txpool[t].relay \in Methods /\ txpool[t].receive <= now
  BY Zenon DEF PoolType, Rows, RowOk
<1>2. row \in Rows /\ row.relay \in {"stem", "fluff", "block"} /\ row.receive <= now'
  BY <1>1, UpgradeFacts, Zenon DEF Relayed
<1>3. IF row.relay = "stem" THEN row.last < Latest /\ m_next_check' <= row.last ELSE row.last = now
  BY Zenon DEF Relayed
<1>4. now < Latest /\ now \in Nat /\ m_next_check' \in Nat /\ m_next_check' <= now' + CheckEvery
  BY TimeFacts DEF Relayed
<1>5. Looked(row, now', m_next_check')
  <2>1. CASE row.relay = "stem"
    BY <1>3, <2>1, Zenon DEF Looked, Waits
  <2>2. CASE row.relay # "stem"
    <3>1. ~Waits(row) /\ row.last # Latest /\ row.last = now'
      BY <1>2, <1>3, <1>4, <2>2 DEF Waits
    <3> QED BY <1>2, <1>4, <3>1, RecentIsLooked, ZenonT(60)
  <2> QED BY <2>1, <2>2, Zenon
<1> HIDE DEF row
<1>6. RowOk(t)' <=> /\ row.receive <= now'
                    /\ row.relay = "forward" => row.last < Latest
                    /\ Waits(row) \/ row.last = Latest \/ row.last <= now'
                    /\ \/ Looked(row, now', m_next_check') \/ InFlight(t)' \/ ~Young(txpool[t])'
                       \/ row.relay = "stem" /\ (t \in forgotten' \/ (row.last = Latest /\ t \in net'.stem))
  BY Zenon DEF RowOk, row
<1> QED BY <1>2, <1>3, <1>4, <1>5, <1>6 DEF Waits

(* What has been public stays so, and what was here. *)
PublicGrows ==
  /\ public' = mined' \cup PublicRows' /\ \A u \in mined' : u \notin DOMAIN txpool'
  /\ Here \subseteq Here' /\ public \subseteq public'
RowsTyped == DOMAIN txpool \subseteq Txs /\ \A u \in DOMAIN txpool : txpool[u] \in Rows

(* add_tx makes nothing less public, and a transaction that it stores for
   fluffing is public.                                                      *)
LEMMA StoredIsPublic ==
  ASSUME PoolType, PublicInv, NEW t \in Txs, NEW m \in Methods, Stored(t, m), t \notin mined,
         UNCHANGED mined
  PROVE  PublicGrows /\ RowsTyped' /\ t \in Here' /\ (m = "fluff" => t \in public')
<1>1. /\ public = mined \cup PublicRows /\ \A u \in mined : u \notin DOMAIN txpool
      /\ DOMAIN txpool' = DOMAIN txpool \cup {t}
      /\ \A u \in DOMAIN txpool \ {t} : txpool'[u] = txpool[u]
      /\ public' = IF IsPublic(m) THEN public \cup {t} ELSE public
  BY Zenon DEF PublicInv, Stored
<1>2. RowsTyped'
  BY <1>1, ZenonT(60) DEF RowsTyped, PoolType, Stored
<1>3. t \in DOMAIN txpool /\ IsPublic(txpool[t].relay) => IsPublic(txpool'[t].relay)
  BY RankFacts DEF Stored, IsPublic, PoolType, Rows, Methods
<1>4. IsPublic(txpool'[t].relay) <=> IsPublic(m) \/ (t \in DOMAIN txpool /\ IsPublic(txpool[t].relay))
  BY RankFacts DEF Stored, IsPublic, PoolType, Rows, Methods
<1>5. t \in PublicRows' <=> IsPublic(m) \/ t \in PublicRows
  BY <1>1, <1>4, Zenon DEF PublicRows
<1>6. \A u : u # t => (u \in PublicRows' <=> u \in PublicRows)
  BY <1>1, Zenon DEF PublicRows
<1>7. public' = mined' \cup PublicRows'
  BY <1>1, <1>5, <1>6, Zenon
<1>8. m = "fluff" => t \in public'
  BY <1>1, Zenon DEF IsPublic
<1> QED BY <1>1, <1>2, <1>7, <1>8, Zenon DEF PublicGrows, Here

(* set_relayed makes nothing less public; what it marks as fluffed, and has not
   left the node, is public.                                                *)
LEMMA RelayedIsPublic ==
  ASSUME PoolType, PublicInv, NEW txs, NEW m \in {"stem", "fluff"}, Relayed(txs, m), UNCHANGED mined
  PROVE  PublicGrows /\ RowsTyped' /\ (m = "fluff" /\ txs \subseteq Here => txs \subseteq public')
<1>1. /\ public = mined \cup PublicRows /\ \A u \in mined : u \notin DOMAIN txpool
      /\ DOMAIN txpool' = DOMAIN txpool
      /\ \A u \in DOMAIN txpool \ txs : txpool'[u] = txpool[u]
      /\ public' = public \cup {t \in txs \cap DOMAIN txpool : IsPublic(txpool'[t].relay)}
  BY Zenon DEF PublicInv, Relayed
<1>2. RowsTyped'
  BY <1>1, Zenon DEF RowsTyped, PoolType, Relayed
<1>3. \A t \in txs \cap DOMAIN txpool : txpool[t].relay \in Methods
  BY DEF PoolType, Rows
<1>4. \A t \in txs \cap DOMAIN txpool :
        m = "fluff" \/ IsPublic(txpool[t].relay) => IsPublic(txpool'[t].relay)
  BY <1>3, UpgradeFacts, Zenon DEF Relayed
<1>5. public' = mined' \cup PublicRows'
  <2>1. ASSUME NEW u \in txs PROVE u \in public' <=> u \in mined' \/ u \in PublicRows'
    BY <1>1, <1>4, <2>1, Zenon DEF PublicRows
  <2>2. ASSUME NEW u, u \notin txs PROVE u \in public' <=> u \in mined' \/ u \in PublicRows'
    BY <1>1, <2>2, Zenon DEF PublicRows
  <2> QED BY <2>1, <2>2, Zenon
<1>6. Here' = Here
  BY <1>1, Zenon DEF Here
<1>7. mined \subseteq public /\ public \subseteq public'
  BY <1>1, Zenon
<1>8. m = "fluff" /\ txs \subseteq Here => txs \subseteq public'
  BY <1>1, <1>4, <1>7, ZenonT(60) DEF Here
<1> QED BY <1>1, <1>2, <1>5, <1>6, <1>7, <1>8, Zenon DEF PublicGrows

(* No message is being handled. *)
LEMMA IdleIsJob == Idle \in Jobs /\ Idle.stem = {} /\ Idle.fluff = {} /\ Idle.todo = <<>>
BY DEF Idle, Jobs, Sources

(* A message goes on, or its transactions are handed to the thread. *)
Handed(n) ==
  /\ net' \in Jobs /\ sends' \in [Threads -> Seq(Calls)] /\ NetInv'
  /\ net'.stem \subseteq n.stem /\ net'.fluff \subseteq n.fluff
  /\ \A th \in Threads : Range(sends[th]) \subseteq Range(sends'[th])
  /\ \A th \in Threads : \A call \in Range(sends'[th]) :
       call \in Range(sends[th]) \/ call.txs \subseteq n.stem \cup n.fluff
  /\ \A t \in n.stem : t \in net'.stem \/ \E th \in Threads : \E call \in Range(sends'[th]) : t \in call.txs

(* After the last transaction of a message its two sets become calls. *)
LEMMA HandledHands ==
  ASSUME sends \in [Threads -> Seq(Calls)], sends["net"] = <<>>, NEW n \in Jobs,
         n.relay \in {"stem", "fluff", "forward"}, Handled(n)
  PROVE  Handed(n)
<1>1. CASE n.todo # <<>>
  <2>1. net' = n /\ UNCHANGED sends
    BY <1>1, Zenon DEF Handled
  <2> QED BY <1>1, <2>1, Zenon DEF Handed, NetInv
<1>2. CASE n.todo = <<>>
  <2> DEFINE a == Send(n.stem, n.source, "stem")
             b == Send(n.fluff, n.source, "fluff")
  <2>1. net' = Idle /\ sends' = [sends EXCEPT !["net"] = a \o b]
    BY <1>2, Zenon DEF Handled
  <2>2. n.stem \in SUBSET Txs /\ n.fluff \in SUBSET Txs /\ n.source \in Sources
    BY DEF Jobs
  <2>3. /\ a \in Seq(Calls) /\ \A call \in Range(a) : call.txs = n.stem
        /\ \A t \in n.stem : \E call \in Range(a) : t \in call.txs
    BY <2>2, SendHolds, Zenon
  <2>4. b \in Seq(Calls) /\ \A call \in Range(b) : call.txs = n.fluff
    BY <2>2, SendHolds, Zenon
  <2> HIDE DEF a, b
  <2>5. a \o b \in Seq(Calls) /\ Range(a \o b) = Range(a) \cup Range(b)
    BY <2>3, <2>4, ConcatHolds, Zenon
  <2> DEFINE q == a \o b
  <2> HIDE DEF q
  <2>6. /\ sends' \in [Threads -> Seq(Calls)] /\ sends'["net"] = q
        /\ sends'["idle"] = sends["idle"] /\ "net" \in Threads
    BY <2>1, <2>5, Zenon DEF Threads, q
  <2>7. Range(sends["net"]) = {}
    BY DEF Range
  <2>8. \A th \in Threads : th = "net" \/ th = "idle"
    BY DEF Threads
  <2>9. \A call \in Range(q) : call.txs = n.stem \/ call.txs = n.fluff
    BY <2>3, <2>4, <2>5, Zenon DEF q
  <2>10. \A t \in n.stem : \E call \in Range(q) : t \in call.txs
    BY <2>3, <2>5, Zenon DEF q
  <2>11. \A th \in Threads : \A call \in Range(sends'[th]) :
       call \in Range(sends[th]) \/ call.txs \subseteq n.stem \cup n.fluff
    BY <2>6, <2>8, <2>9, Zenon
  <2>12. \A th \in Threads : Range(sends[th]) \subseteq Range(sends'[th])
    BY <2>6, <2>7, <2>8, Zenon
  <2>13. net' \in Jobs /\ net'.stem = {} /\ net'.fluff = {} /\ NetInv'
    BY <2>1, IdleIsJob, Zenon DEF NetInv, Idle
  <2> QED BY <2>6, <2>10, <2>11, <2>12, <2>13, ZenonT(60) DEF Handed
<1> QED BY <1>1, <1>2, Zenon

-----------------------------------------------------------------------------
(* What a step adds to the calls, to the strand and to the connections' queues
   is here, and public where it is going to be fluffed. *)
NewHere ==
  /\ net'.stem \subseteq Here' /\ net'.fluff \subseteq public'
  /\ \A th \in Threads : \A call \in Range(sends'[th]) :
       call \in Range(sends[th]) \/ call.txs \subseteq Here'
  /\ \A e \in Range(strand') :
       e \in Range(strand) \/ e.txs \subseteq IF e.kind = "fluff_notify" THEN public' ELSE Here'
  /\ \A c \in Conns : fluff_txs'[c] \subseteq fluff_txs[c] \cup public'

(* A step that keeps public what was public, and adds nothing that is not, keeps
   the invariant.                                                           *)
LEMMA PublicStays == ASSUME PublicInv, PublicGrows, NewHere PROVE PublicInv'
<1>1. /\ public' = mined' \cup PublicRows' /\ \A u \in mined' : u \notin DOMAIN txpool'
      /\ net'.stem \subseteq Here' /\ net'.fluff \subseteq public'
  BY Zenon DEF PublicGrows, NewHere
<1>2. ASSUME NEW th \in Threads, NEW call \in Range(sends'[th]) PROVE call.txs \subseteq Here'
  BY Zenon DEF PublicInv, PublicGrows, NewHere
<1>3. ASSUME NEW e \in Range(strand')
      PROVE  e.txs \subseteq IF e.kind = "fluff_notify" THEN public' ELSE Here'
  BY Zenon DEF PublicInv, PublicGrows, NewHere
<1>4. ASSUME NEW c \in Conns PROVE fluff_txs'[c] \subseteq public'
  BY Zenon DEF PublicInv, PublicGrows, NewHere
<1> QED BY <1>1, <1>2, <1>3, <1>4, Zenon DEF PublicInv

(* Nothing is public that is not here. *)
LEMMA PublicIsHere == ASSUME PublicInv PROVE public \subseteq Here /\ mined \subseteq public
BY Zenon DEF PublicInv, Here, PublicRows

(* A step that leaves the rows and the chain leaves what is public. *)
LEMMA SameIsPublic ==
  ASSUME PoolType, PublicInv, UNCHANGED <<txpool, mined, public>>
  PROVE  PublicGrows /\ RowsTyped' /\ Here' = Here
<1>1. PublicRows' = PublicRows /\ Here' = Here
  BY Zenon DEF PublicRows, Here
<1>2. RowsTyped'
  BY Zenon DEF RowsTyped, PoolType
<1> QED BY <1>1, <1>2, Zenon DEF PublicGrows, PublicInv

(* A transaction that a call or the strand holds is still held when those that
   hold it are there.                                                       *)
LEMMA FlightKept ==
  ASSUME NEW t, \A th \in Threads : \A call \in Range(sends[th]) :
                  t \in call.txs => call \in Range(sends'[th]) \/ InFlight(t)',
         \A e \in Range(strand) : e.kind = "dandelionpp_notify" /\ e.phase = "waiting" /\ t \in e.txs =>
                  e \in Range(strand'),
         InFlight(t)
  PROVE  InFlight(t)'
<1>1. CASE \E th \in Threads : \E call \in Range(sends[th]) : t \in call.txs
  BY <1>1, Zenon DEF InFlight
<1>2. CASE \E e \in Range(strand) : e.kind = "dandelionpp_notify" /\ e.phase = "waiting" /\ t \in e.txs
  BY <1>2, Zenon DEF InFlight
<1> QED BY <1>1, <1>2, Zenon DEF InFlight

(* The rows a message leaves. *)
LEMMA OthersOk ==
  ASSUME PoolType, ScheduleInv, UNCHANGED now, m_next_check' \in Nat, NEW t \in DOMAIN txpool,
         RowIsKept(t)
  PROVE  RowOk(t)'
BY KeptIsOk, TimeFacts, Zenon DEF PoolType, ScheduleInv

(* The parts of the invariant together. *)
LEMMA StepIsOk ==
  ASSUME PoolType, PublicInv, ScheduleInv, UNCHANGED now, RowsTyped', PublicGrows, NewHere, NetInv',
         net' \in Jobs, sends' \in [Threads -> Seq(Calls)], strand' \in Seq(Entries),
         m_next_check' \in Nat, m_next_check' <= m_next_check \/ m_next_check' <= now + CheckEvery,
         \A t \in DOMAIN txpool' : RowOk(t)'
  PROVE  RelayInv'
<1>1. PublicInv'
  BY PublicStays, Zenon
<1>2. PoolType'
  BY Zenon DEF PoolType, RowsTyped
<1>3. m_next_check' <= now' + CheckEvery
  BY TimeFacts DEF ScheduleInv
<1> QED BY <1>1, <1>2, <1>3, Zenon DEF RelayInv, ScheduleInv

-----------------------------------------------------------------------------
(* What a message in progress holds is kept by a step of its handler: a call, a
   place among those to be handed over, or among those it forgot.           *)
LEMMA HandedKeeps ==
  ASSUME NEW n, Handed(n), UNCHANGED strand, NEW t
  PROVE  /\ InFlight(t) => InFlight(t)'
         /\ t \in n.stem => t \in net'.stem \/ InFlight(t)'
<1>1. InFlight(t) => InFlight(t)'
  BY FlightKept, Zenon DEF Handed
<1>2. t \in n.stem => t \in net'.stem \/ InFlight(t)'
  BY Zenon DEF Handed, InFlight
<1> QED BY <1>1, <1>2, Zenon

(* What the handler of a message hands over is here, or public.             *)
LEMMA HandedIsHere ==
  ASSUME NEW n, Handed(n), UNCHANGED <<strand, fluff_txs>>, PublicInv, PublicGrows,
         n.stem \subseteq Here', n.fluff \subseteq public'
  PROVE  NewHere
<1>1. public' \subseteq Here'
  BY Zenon DEF PublicGrows, Here, PublicRows
<1>2. net'.stem \subseteq Here' /\ net'.fluff \subseteq public'
  BY Zenon DEF Handed
<1>3. ASSUME NEW th \in Threads, NEW call \in Range(sends'[th])
      PROVE  call \in Range(sends[th]) \/ call.txs \subseteq Here'
  <2>1. call \in Range(sends[th]) \/ call.txs \subseteq n.stem \cup n.fluff
    BY Zenon DEF Handed
  <2> QED BY <1>1, <2>1, Zenon
<1> QED BY <1>2, <1>3, Zenon DEF NewHere

(* The message a step of its handler leaves: the first transaction is done. *)
LEMMA RestIsJob ==
  ASSUME NEW n \in Jobs, n.todo # <<>>
  PROVE  LET rest == [n EXCEPT !.todo = Tail(@)]
         IN  /\ Head(n.todo) \in Txs /\ rest \in Jobs
             /\ rest.stem = n.stem /\ rest.fluff = n.fluff /\ rest.relay = n.relay
<1>1. n.todo \in Seq(Txs)
  BY Zenon DEF Jobs
<1>2. Tail(n.todo) \in Seq(Txs) /\ Head(n.todo) \in Txs
  BY <1>1
<1> QED BY <1>2, Zenon DEF Jobs

(* A transaction joins those to be relayed. *)
LEMMA JoinIsJob ==
  ASSUME NEW n \in Jobs, NEW t \in Txs
  PROVE  /\ LET r == [n EXCEPT !.stem = @ \cup {t}]
            IN  r \in Jobs /\ r.stem = n.stem \cup {t} /\ r.fluff = n.fluff /\ r.relay = n.relay
         /\ LET r == [n EXCEPT !.fluff = @ \cup {t}]
            IN  r \in Jobs /\ r.stem = n.stem /\ r.fluff = n.fluff \cup {t} /\ r.relay = n.relay
<1>1. n.stem \cup {t} \in SUBSET Txs /\ n.fluff \cup {t} \in SUBSET Txs
  BY DEF Jobs
<1> QED BY <1>1, Zenon DEF Jobs

(* One transaction of a message: handle_notify_new_transactions refuses it, has
   it, or adds it.                                                          *)
LEMMA MessageKeeps ==
  ASSUME PoolType, PublicInv, ScheduleInv, sends["net"] = <<>>, NEW n \in Jobs, n.todo # <<>>,
         n.relay \in {"stem", "fluff", "forward"}, n.stem = net.stem, n.fluff = net.fluff,
         ReceiveOne(n)
  PROVE  RelayInv'
<1> DEFINE t == Head(n.todo)
           m == MethodOf(t, n.relay)
           rest == [n EXCEPT !.todo = Tail(@)]
           more == CASE m = "stem"  -> [rest EXCEPT !.stem = @ \cup {t}]
                     [] m = "fluff" -> [rest EXCEPT !.fluff = @ \cup {t}]
                     [] OTHER       -> rest
<1>1. /\ UNCHANGED <<now, zoneVars, mined>>
      /\ \/ /\ t \in Invalid /\ net' = Idle
            /\ forgotten' = forgotten \cup
                 {u \in n.stem \cap DOMAIN txpool : txpool[u].last = Latest}
            /\ UNCHANGED <<txpool, m_next_check, public, sends>>
         \/ AlreadyHave(t) /\ Handled(rest) /\ UNCHANGED poolVars
         \/ ~AlreadyHave(t) /\ add_tx(t, m) /\ Handled(more)
  BY Zenon DEF ReceiveOne
<1>2. t \in Txs /\ rest \in Jobs /\ rest.stem = n.stem /\ rest.fluff = n.fluff /\ rest.relay = n.relay
  BY RestIsJob, Zenon
<1>3. m \in {"stem", "fluff", "forward"} /\ m \in Methods
  BY Zenon DEF MethodOf, Methods
<1>4. /\ more \in Jobs /\ more.relay = n.relay
      /\ more.stem = IF m = "stem" THEN n.stem \cup {t} ELSE n.stem
      /\ more.fluff = IF m = "fluff" THEN n.fluff \cup {t} ELSE n.fluff
  <2> HIDE DEF rest, m, t
  <2>1. CASE m = "stem"
    <3>1. more = [rest EXCEPT !.stem = @ \cup {t}]
      BY <2>1, Zenon
    <3> HIDE DEF more
    <3>2. /\ more \in Jobs /\ more.relay = rest.relay
          /\ more.stem = rest.stem \cup {t} /\ more.fluff = rest.fluff
      BY <1>2, <3>1, JoinIsJob, Zenon
    <3> QED BY <1>2, <2>1, <3>2, Zenon
  <2>2. CASE m = "fluff"
    <3>1. more = [rest EXCEPT !.fluff = @ \cup {t}]
      BY <2>2, Zenon
    <3> HIDE DEF more
    <3>2. /\ more \in Jobs /\ more.relay = rest.relay
          /\ more.fluff = rest.fluff \cup {t} /\ more.stem = rest.stem
      BY <1>2, <3>1, JoinIsJob, Zenon
    <3> QED BY <1>2, <2>2, <3>2, Zenon
  <2>3. CASE m = "forward"
    <3>1. more = rest
      BY <2>3, Zenon
    <3> HIDE DEF more
    <3> QED BY <1>2, <2>3, <3>1, Zenon
  <2> QED BY <1>3, <2>1, <2>2, <2>3, Zenon
<1> HIDE DEF t, m, rest, more
<1>5. /\ sends \in [Threads -> Seq(Calls)] /\ strand' \in Seq(Entries) /\ now' = now
      /\ strand' = strand /\ fluff_txs' = fluff_txs /\ mined' = mined
      /\ net.stem \subseteq Here /\ net.fluff \subseteq public
  BY <1>1, Zenon DEF PoolType, zoneVars, flushVars, PublicInv
<1>6. CASE /\ t \in Invalid /\ net' = Idle
           /\ forgotten' = forgotten \cup
                {u \in n.stem \cap DOMAIN txpool : txpool[u].last = Latest}
           /\ UNCHANGED <<txpool, m_next_check, public, sends>>
  <2>1. net' \in Jobs /\ net'.stem = {} /\ net'.fluff = {} /\ NetInv'
    BY <1>6, IdleIsJob, Zenon DEF NetInv
  <2>2. PublicGrows /\ RowsTyped' /\ NewHere
    BY <1>5, <1>6, <2>1, SameIsPublic, Zenon DEF NewHere
  <2>3. m_next_check' \in Nat /\ m_next_check' <= m_next_check
    BY <1>6, TimeFacts
  <2>4. ASSUME NEW u \in DOMAIN txpool' PROVE RowOk(u)'
    <3>1. u \in DOMAIN txpool /\ (InFlight(u) => InFlight(u)')
      BY <1>5, <1>6, Zenon DEF InFlight
    <3>2. RowIsKept(u)
      BY <1>6, <2>3, <3>1, Zenon DEF RowIsKept
    <3> QED BY <1>5, <2>3, <3>1, <3>2, OthersOk, Zenon
  <2> QED BY <1>5, <1>6, <2>1, <2>2, <2>3, <2>4, StepIsOk, Zenon
<1>7. CASE AlreadyHave(t) /\ Handled(rest) /\ UNCHANGED poolVars
  <2>1. UNCHANGED <<txpool, m_next_check, public, forgotten>>
    BY <1>7, Zenon DEF poolVars
  <2>2. Handed(rest)
    BY <1>2, <1>5, <1>7, HandledHands, Zenon
  <2>3. PublicGrows /\ RowsTyped' /\ Here' = Here
    BY <1>5, <2>1, SameIsPublic, Zenon
  <2>4. NewHere
    BY <1>2, <1>5, <2>1, <2>2, <2>3, HandedIsHere, Zenon
  <2>5. m_next_check' \in Nat /\ m_next_check' <= m_next_check
    BY <2>1, TimeFacts
  <2>6. ASSUME NEW u \in DOMAIN txpool' PROVE RowOk(u)'
    <3>1. /\ InFlight(u) => InFlight(u)'
          /\ u \in net.stem => u \in net'.stem \/ InFlight(u)'
      BY <1>2, <1>5, <2>2, HandedKeeps, Zenon
    <3>2. RowIsKept(u)
      BY <2>1, <2>5, <3>1, Zenon DEF RowIsKept
    <3> QED BY <1>5, <2>1, <2>5, <3>2, OthersOk, Zenon
  <2> QED BY <1>5, <2>2, <2>3, <2>4, <2>5, <2>6, StepIsOk, Zenon DEF Handed
<1>8. CASE ~AlreadyHave(t) /\ add_tx(t, m) /\ Handled(more)
  <2>1. Stored(t, m)
    BY <1>3, <1>8, AddTxStores, Zenon
  <2>2. Handed(more)
    BY <1>4, <1>5, <1>8, HandledHands, Zenon
  <2>3. t \notin mined
    BY <1>8, Zenon DEF AlreadyHave
  <2>4. PublicGrows /\ RowsTyped' /\ t \in Here' /\ (m = "fluff" => t \in public')
    BY <1>2, <1>3, <1>5, <2>1, <2>3, StoredIsPublic, Zenon
  <2>5. more.stem \subseteq Here' /\ more.fluff \subseteq public'
    BY <1>4, <1>5, <2>4, Zenon DEF PublicGrows
  <2>6. NewHere
    BY <1>5, <2>2, <2>4, <2>5, HandedIsHere, Zenon
  <2>7. m_next_check' \in Nat /\ m_next_check' <= m_next_check
    BY <2>1, Zenon DEF Stored
  <2>8. ASSUME NEW u
        PROVE  /\ InFlight(u) => InFlight(u)'
               /\ u \in more.stem => u \in net'.stem \/ InFlight(u)'
    BY <1>5, <2>2, HandedKeeps, Zenon
  <2>9. net.stem \subseteq more.stem /\ (m = "stem" => t \in more.stem)
    BY <1>4, Zenon
  <2>10. ASSUME NEW u \in DOMAIN txpool', u # t PROVE RowOk(u)'
    <3>1. u \in DOMAIN txpool /\ RowIsKept(u)
      BY <2>1, <2>7, <2>8, <2>9, <2>10, Zenon DEF Stored, RowIsKept
    <3> QED BY <1>5, <2>7, <3>1, OthersOk, Zenon
  <2>11. RowOk(t)'
    <3>1. m = "stem" => t \in net'.stem \/ InFlight(t)'
      BY <2>8, <2>9, Zenon
    <3>2. t \in DOMAIN txpool => RowOk(t) /\ (InFlight(t) => InFlight(t)')
      BY <2>8, Zenon DEF ScheduleInv
    <3>3. t \in DOMAIN txpool /\ t \in net.stem => t \in net'.stem \/ InFlight(t)'
      BY <2>8, <2>9, Zenon
    <3> QED BY <1>3, <1>5, <2>1, <3>1, <3>2, <3>3, StoredIsOk, Zenon DEF ScheduleInv
  <2> QED BY <1>5, <2>2, <2>4, <2>6, <2>7, <2>10, <2>11, StepIsOk, Zenon DEF Handed
<1> QED BY <1>1, <1>6, <1>7, <1>8, Zenon

-----------------------------------------------------------------------------
(* The calls of one thread are replaced by others that hold what they held. *)
LEMMA SendsKeep ==
  ASSUME sends \in [Threads -> Seq(Calls)], NEW th \in Threads, NEW q \in Seq(Calls),
         sends' = [sends EXCEPT ![th] = q], Range(sends[th]) \subseteq Range(q)
  PROVE  /\ sends' \in [Threads -> Seq(Calls)] /\ sends'[th] = q
         /\ \A o \in Threads : o # th => sends'[o] = sends[o]
         /\ \A o \in Threads : Range(sends[o]) \subseteq Range(sends'[o])
<1>1. /\ sends' \in [Threads -> Seq(Calls)] /\ sends'[th] = q
      /\ \A o \in Threads : o # th => sends'[o] = sends[o]
  BY Zenon
<1> QED BY <1>1, Zenon

(* A thread without calls. *)
LEMMA NoCalls == Range(<<>>) = {}
BY DEF Range

(* A transaction of a wallet: on_send_raw_tx. *)
LEMMA SubmitKeeps ==
  ASSUME RelayInv, NEW t \in Txs, on_send_raw_tx(t) PROVE RelayInv'
<1> USE DEF RelayInv
<1> DEFINE q == Send({t}, NoConn, "local")
<1>1. /\ net = Idle /\ sends["net"] = <<>> /\ ~AlreadyHave(t) /\ add_tx(t, "local")
      /\ sends' = [sends EXCEPT !["net"] = q]
      /\ now' = now /\ strand' = strand /\ fluff_txs' = fluff_txs /\ mined' = mined /\ net' = net
  BY Zenon DEF on_send_raw_tx, zoneVars, flushVars
<1>2. Stored(t, "local")
  BY <1>1, AddTxStores, Zenon DEF Methods
<1>3. q \in Seq(Calls) /\ \A call \in Range(q) : call.txs = {t}
  BY SendHolds, Zenon DEF Sources
<1> HIDE DEF q
<1>4. "net" \in Threads /\ sends \in [Threads -> Seq(Calls)] /\ net' \in Jobs /\ strand' \in Seq(Entries)
  BY <1>1, Zenon DEF Threads, PoolType
<1>5. /\ sends' \in [Threads -> Seq(Calls)] /\ sends'["net"] = q
      /\ \A o \in Threads : o # "net" => sends'[o] = sends[o]
      /\ \A o \in Threads : Range(sends[o]) \subseteq Range(sends'[o])
  BY <1>1, <1>3, <1>4, NoCalls, SendsKeep, Zenon
<1>6. PublicGrows /\ RowsTyped' /\ t \in Here'
  BY <1>1, <1>2, StoredIsPublic, Zenon DEF AlreadyHave, Methods
<1>7. NewHere
  <2>1. net'.stem \subseteq Here' /\ net'.fluff \subseteq public'
    BY <1>1, <1>6, Zenon DEF PublicInv, PublicGrows
  <2>2. ASSUME NEW th \in Threads, NEW call \in Range(sends'[th])
        PROVE  call \in Range(sends[th]) \/ call.txs \subseteq Here'
    BY <1>3, <1>5, <1>6, Zenon
  <2> QED BY <1>1, <2>1, <2>2, Zenon DEF NewHere
<1>8. NetInv'
  BY <1>1, Zenon DEF NetInv, Idle
<1>9. m_next_check' \in Nat /\ m_next_check' <= m_next_check
  BY <1>2, Zenon DEF Stored
<1>10. ASSUME NEW u PROVE InFlight(u) => InFlight(u)'
  BY <1>1, <1>5, FlightKept, Zenon
<1>11. ASSUME NEW u \in DOMAIN txpool', u # t PROVE RowOk(u)'
  <2>1. u \in DOMAIN txpool /\ RowIsKept(u)
    BY <1>1, <1>2, <1>9, <1>10, <1>11, Zenon DEF Stored, RowIsKept
  <2> QED BY <1>1, <1>9, <2>1, OthersOk, Zenon
<1>12. RowOk(t)'
  <2>1. t \in DOMAIN txpool => RowOk(t) /\ (InFlight(t) => InFlight(t)')
    BY <1>10, Zenon DEF ScheduleInv
  <2>2. "local" \in Methods /\ "local" # "stem"
    BY Zenon DEF Methods
  <2> QED BY <1>1, <1>2, <2>1, <2>2, StoredIsOk, Zenon DEF ScheduleInv
<1> QED BY <1>1, <1>4, <1>5, <1>6, <1>7, <1>8, <1>9, <1>11, <1>12, StepIsOk, Zenon

(* A step that leaves the messages, the calls and the notifier. *)
PoolOnly ==
  now' = now /\ net' = net /\ sends' = sends /\ strand' = strand /\ fluff_txs' = fluff_txs

(* Such a step keeps what is in flight and what is here.                    *)
LEMMA PoolOnlyKeeps ==
  ASSUME RelayInv, PoolOnly, PublicGrows
  PROVE  /\ NewHere /\ NetInv' /\ net' \in Jobs /\ sends' \in [Threads -> Seq(Calls)]
         /\ strand' \in Seq(Entries) /\ \A u : InFlight(u)' <=> InFlight(u)
<1>1. net'.stem \subseteq Here' /\ net'.fluff \subseteq public'
  BY Zenon DEF RelayInv, PublicInv, PublicGrows, PoolOnly
<1>2. NewHere
  BY <1>1, Zenon DEF NewHere, PoolOnly
<1>3. NetInv' /\ net' \in Jobs /\ sends' \in [Threads -> Seq(Calls)] /\ strand' \in Seq(Entries)
  BY Zenon DEF RelayInv, NetInv, PoolType, PoolOnly
<1>4. \A u : InFlight(u)' <=> InFlight(u)
  BY Zenon DEF InFlight, PoolOnly
<1> QED BY <1>2, <1>3, <1>4, Zenon

(* A transaction of a block: handle_incoming_tx. *)
LEMMA BlockKeeps ==
  ASSUME RelayInv, NEW t \in Txs, AddKeptByBlock(t) PROVE RelayInv'
<1> USE DEF RelayInv
<1>1. /\ ~AlreadyHave(t) /\ PoolOnly /\ mined' = mined
      /\ \/ add_tx(t, "block")
         \/ /\ t \notin DOMAIN txpool
            /\ txpool' = SetRow(t, [relay |-> "block", last |-> now, receive |-> now])
            /\ public' = public \cup {t}
            /\ UNCHANGED <<m_next_check, forgotten>>
  BY Zenon DEF AddKeptByBlock, zoneVars, flushVars, PoolOnly
<1>2. "block" \in Methods /\ IsPublic("block")
  BY DEF Methods, IsPublic
<1>3. Stored(t, "block")
  <2>1. CASE add_tx(t, "block")
    BY <1>2, <2>1, AddTxStores, Zenon
  <2>2. CASE /\ t \notin DOMAIN txpool
             /\ txpool' = SetRow(t, [relay |-> "block", last |-> now, receive |-> now])
             /\ public' = public \cup {t}
             /\ UNCHANGED <<m_next_check, forgotten>>
    <3> DEFINE row == [relay |-> "block", last |-> now, receive |-> now]
    <3>1. row \in Rows /\ row.relay = "block" /\ row.last = now /\ row.receive = now
      BY <1>2, TimeFacts DEF Rows
    <3> HIDE DEF row
    <3>2. /\ DOMAIN txpool' = DOMAIN txpool \cup {t} /\ txpool'[t] = row
          /\ \A u \in DOMAIN txpool \ {t} : txpool'[u] = txpool[u]
      BY <2>2, Zenon DEF SetRow, row
    <3>3. m_next_check' \in Nat /\ m_next_check' <= m_next_check
      BY <2>2, TimeFacts
    <3> QED BY <1>2, <2>2, <3>1, <3>2, <3>3 DEF Stored
  <2> QED BY <1>1, <2>1, <2>2, Zenon
<1>4. PublicGrows /\ RowsTyped'
  BY <1>1, <1>2, <1>3, StoredIsPublic, Zenon DEF AlreadyHave
<1>5. m_next_check' \in Nat /\ m_next_check' <= m_next_check
  BY <1>3, Zenon DEF Stored
<1>6. /\ NewHere /\ NetInv' /\ net' \in Jobs /\ sends' \in [Threads -> Seq(Calls)]
      /\ strand' \in Seq(Entries) /\ \A u : InFlight(u)' <=> InFlight(u)
  BY <1>1, <1>4, PoolOnlyKeeps, Zenon
<1>7. ASSUME NEW u \in DOMAIN txpool', u # t PROVE RowOk(u)'
  <2>1. u \in DOMAIN txpool /\ RowIsKept(u)
    BY <1>1, <1>3, <1>5, <1>6, <1>7, Zenon DEF Stored, RowIsKept, PoolOnly
  <2> QED BY <1>1, <1>5, <2>1, OthersOk, Zenon DEF PoolOnly
<1>8. RowOk(t)'
  <2>1. t \in DOMAIN txpool => RowOk(t) /\ (InFlight(t) => InFlight(t)')
    BY <1>6, Zenon DEF ScheduleInv
  <2>2. "block" # "stem" /\ now' = now /\ net' = net
    BY <1>1, Zenon DEF PoolOnly
  <2> QED BY <1>2, <1>3, <2>1, <2>2, StoredIsOk, Zenon DEF ScheduleInv
<1> QED BY <1>1, <1>4, <1>5, <1>6, <1>7, <1>8, StepIsOk, Zenon DEF PoolOnly

(* A block with the transaction is added: take_tx. *)
LEMMA MineKeeps ==
  ASSUME RelayInv, NEW t, Mine(t) PROVE RelayInv'
<1> USE DEF RelayInv
<1>1. /\ t \in DOMAIN txpool /\ mined' = mined \cup {t} /\ public' = public \cup {t}
      /\ txpool' = [u \in DOMAIN txpool \ {t} |-> txpool[u]]
      /\ forgotten' = forgotten \ {t} /\ PoolOnly /\ m_next_check' = m_next_check
  BY Zenon DEF Mine, zoneVars, flushVars, PoolOnly
<1>2. DOMAIN txpool' = DOMAIN txpool \ {t} /\ \A u \in DOMAIN txpool \ {t} : txpool'[u] = txpool[u]
  BY <1>1, Zenon
<1>3. RowsTyped'
  BY <1>2, Zenon DEF RowsTyped, PoolType
<1>4. PublicRows' = PublicRows \ {t}
  <2>1. ASSUME NEW u PROVE u \in PublicRows' <=> u \in PublicRows /\ u # t
    BY <1>2, Zenon DEF PublicRows
  <2> QED BY <2>1, Zenon
<1>5. PublicGrows
  <2>1. public' = mined' \cup PublicRows'
    BY <1>1, <1>4, Zenon DEF PublicInv
  <2>2. \A u \in mined' : u \notin DOMAIN txpool'
    BY <1>1, <1>2, Zenon DEF PublicInv
  <2>3. Here \subseteq Here' /\ public \subseteq public'
    BY <1>1, <1>2, Zenon DEF Here
  <2> QED BY <2>1, <2>2, <2>3, Zenon DEF PublicGrows
<1>6. m_next_check' \in Nat /\ m_next_check' <= m_next_check
  BY <1>1, TimeFacts
<1>7. /\ NewHere /\ NetInv' /\ net' \in Jobs /\ sends' \in [Threads -> Seq(Calls)]
      /\ strand' \in Seq(Entries) /\ \A u : InFlight(u)' <=> InFlight(u)
  BY <1>1, <1>5, PoolOnlyKeeps, Zenon
<1>8. ASSUME NEW u \in DOMAIN txpool' PROVE RowOk(u)'
  <2>1. u \in DOMAIN txpool /\ u # t /\ RowIsKept(u)
    BY <1>1, <1>2, <1>6, <1>7, Zenon DEF RowIsKept, PoolOnly
  <2> QED BY <1>1, <1>6, <2>1, OthersOk, Zenon DEF PoolOnly
<1> QED BY <1>1, <1>3, <1>5, <1>6, <1>7, <1>8, StepIsOk, Zenon DEF PoolOnly

-----------------------------------------------------------------------------
(* get_relayable_transactions looks again at the next end of an embargo, and
   after the usual time.                                                    *)
LEMMA NextCheckFacts ==
  ASSUME PoolType
  PROVE  /\ NextCheck \in Nat /\ NextCheck <= now + CheckEvery
         /\ \A t \in DOMAIN txpool :
              Waits(txpool[t]) /\ txpool[t].last > now => NextCheck <= txpool[t].last
<1> DEFINE later == {t \in DOMAIN txpool : Waits(txpool[t]) /\ txpool[t].last > now}
           S == {now + CheckEvery} \cup {txpool[t].last : t \in later}
<1>1. now + CheckEvery \in Nat
  BY TimeFacts
<1>2. \A t \in DOMAIN txpool : txpool[t].last \in Nat
  BY DEF PoolType, Rows
<1>3. S \subseteq Nat /\ S # {} /\ now + CheckEvery \in S /\ \A t \in later : txpool[t].last \in S
  BY <1>1, <1>2, Zenon
<1>4. NextCheck = Min(S)
  BY Zenon DEF NextCheck
<1>5. Min(S) \in S /\ \A y \in S : Min(S) <= y
  BY <1>3, MinOf, Zenon
<1>6. \A t \in later : NextCheck <= txpool[t].last
  BY <1>3, <1>4, <1>5, Zenon
<1> HIDE DEF S
<1> QED BY <1>3, <1>4, <1>5, <1>6, Zenon

(* The delay of a row is get_relay_delay of its age. *)
LEMMA DelayIs == ASSUME NEW r PROVE RelayDelay(r) = Delay(now - r)
BY Zenon DEF RelayDelay, Delay

(* Unsigned times do not wrap below the range. *)
LEMMA NoWrap ==
  ASSUME NEW range \in Nat, NEW x \in Nat, x < range
  PROVE  x % range = x /\ (x - range) % range = x
OBVIOUS

(* The test of get_relayable_transactions on unsigned times: the latest time is
   long ago, and any other one that has come is as long ago as it is.       *)
LEMMA OverdueFacts ==
  ASSUME PoolType, NEW row \in Rows, row.receive <= now
  PROVE  /\ row.last = Latest => Overdue(row)
         /\ row.last <= now /\ ~Overdue(row) => now <= row.last + Delay(now - row.receive)
<1>1. /\ row.receive \in Nat /\ row.last \in Nat /\ now \in Nat /\ now - row.receive \in Nat
      /\ TimeRange \in Nat /\ now < TimeRange - 1 /\ MaxRelay < now + 1
      /\ MaxRelay \in Nat
  BY TimeFacts, TimesAssumption DEF Rows, Latest
<1>2. Delay(now - row.receive) \in Nat /\ Delay(now - row.receive) <= MaxRelay
  BY <1>1, DelayGrows
<1> DEFINE since == (now - row.last) % TimeRange
           delay == Delay(now - row.receive)
<1>3. Overdue(row) <=> since > delay
  BY DelayIs, Zenon DEF Overdue
<1>4. row.last = Latest => since = now + 1
  <2>1. row.last = Latest => now - row.last = (now + 1) - TimeRange
    BY <1>1 DEF Latest
  <2>2. ((now + 1) - TimeRange) % TimeRange = now + 1
    <3>1. now + 1 \in Nat /\ now + 1 < TimeRange
      BY <1>1
    <3> QED BY <1>1, <3>1, NoWrap, Zenon
  <2> QED BY <2>1, <2>2, Zenon
<1>5. row.last <= now => since = now - row.last
  <2>1. row.last <= now => now - row.last \in Nat /\ now - row.last < TimeRange
    BY <1>1
  <2> QED BY <1>1, <2>1, NoWrap, Zenon
<1> HIDE DEF since, delay
<1>6. delay \in Nat /\ delay <= MaxRelay
  BY <1>2, Zenon DEF delay
<1>7. row.last = Latest => Overdue(row)
  BY <1>1, <1>3, <1>4, <1>6
<1>8. row.last <= now /\ ~Overdue(row) => now <= row.last + delay
  BY <1>1, <1>3, <1>5, <1>6
<1> QED BY <1>7, <1>8, Zenon DEF delay

(* The relay loop relays a row, or looks at it again in time.               *)
LEMMA LoopLooks ==
  ASSUME PoolType, NEW t \in DOMAIN txpool, RowOk(t)
  PROVE  \/ Relayable(txpool[t]) \/ ~Young(txpool[t]) \/ Looked(txpool[t], now, NextCheck)
         \/ txpool[t].relay = "stem" /\ txpool[t].last = Latest
<1> DEFINE row == txpool[t]
<1>1. row \in Rows
  BY Zenon DEF PoolType
<1>2. /\ row.receive <= now /\ (row.relay = "forward" => row.last < Latest)
      /\ Waits(row) \/ row.last = Latest \/ row.last <= now
  BY Zenon DEF RowOk
<1>3. row.relay \in Methods /\ row.last \in Nat /\ row.receive \in Nat /\ row.last <= Latest
      /\ now \in Nat /\ Latest \in Nat
  BY <1>1, TimeFacts DEF Rows
<1>4. NextCheck \in Nat /\ NextCheck <= now + CheckEvery
      /\ (Waits(row) /\ row.last > now => NextCheck <= row.last)
  BY NextCheckFacts, Zenon
<1>5. /\ row.last = Latest => Overdue(row)
      /\ row.last <= now /\ ~Overdue(row) => now <= row.last + Delay(now - row.receive)
  BY <1>1, <1>2, OverdueFacts, Zenon
<1>6. Delay(now - row.receive) \in Nat /\ CheckEvery \in Nat
  <2>1. now - row.receive \in Nat
    BY <1>2, <1>3
  <2> QED BY <2>1, DelayGrows, TimeFacts
<1>7. Relayable(row) <=> Young(row) /\ IF Waits(row) THEN row.last <= now
                                                      ELSE row.relay # "none" /\ Overdue(row)
  BY Zenon DEF Relayable
<1> HIDE DEF row
<1>8. CASE Waits(row)
  <2>1. CASE row.last <= now
    BY <1>7, <1>8, <2>1, Zenon DEF row
  <2>2. CASE row.last > now
    <3>1. row.relay = "stem" \/ row.relay = "forward"
      BY <1>8, Zenon DEF Waits
    <3>2. row.last = Latest \/ (row.last < Latest /\ NextCheck <= row.last)
      BY <1>3, <1>4, <1>8, <2>2
    <3> QED BY <1>2, <1>3, <1>8, <3>1, <3>2 DEF Looked, row
  <2> QED BY <1>3, <2>1, <2>2
<1>9. CASE ~Waits(row)
  <2>1. CASE Overdue(row)
    <3>1. row.relay # "none"
      BY <1>3, Zenon DEF Methods
    <3> QED BY <1>7, <1>9, <2>1, <3>1, Zenon DEF row
  <2>2. CASE ~Overdue(row)
    <3>1. row.last <= now /\ row.last # Latest /\ now <= row.last + Delay(now - row.receive)
      BY <1>2, <1>5, <1>9, <2>2, Zenon
    <3>2. NextCheck <= row.last + Delay(now - row.receive) + CheckEvery
      BY <1>3, <1>4, <1>6, <3>1
    <3>3. Looked(row, now, NextCheck)
      BY <1>9, <3>1, <3>2, Zenon DEF Looked
    <3> QED BY <3>3, Zenon DEF row
  <2> QED BY <2>1, <2>2, Zenon
<1> QED BY <1>8, <1>9, Zenon

(* The calls of the relay loop: one for each of three sets.                 *)
LoopCalls(A, B, C) ==
  Send(A, NoConn, "fluff") \o Send(B, NoConn, "local") \o Send(C, NoConn, "stem")

(* Calls that hold these transactions and no others. *)
CallsFor(q, txs) ==
  /\ q \in Seq(Calls) /\ \A call \in Range(q) : call.txs \subseteq txs
  /\ \A t \in txs : \E call \in Range(q) : t \in call.txs

(* They hold the transactions of the sets.                                  *)
LEMMA ThreeCalls ==
  ASSUME NEW A \in SUBSET Txs, NEW B \in SUBSET Txs, NEW C \in SUBSET Txs
  PROVE  CallsFor(LoopCalls(A, B, C), A \cup B \cup C)
<1> DEFINE a == Send(A, NoConn, "fluff")
           b == Send(B, NoConn, "local")
           c == Send(C, NoConn, "stem")
<1>1. NoConn \in Sources
  BY Zenon DEF Sources
<1>2. /\ a \in Seq(Calls) /\ \A call \in Range(a) : call.txs = A
      /\ \A t \in A : \E call \in Range(a) : t \in call.txs
  BY <1>1, SendHolds, Zenon
<1>3. /\ b \in Seq(Calls) /\ \A call \in Range(b) : call.txs = B
      /\ \A t \in B : \E call \in Range(b) : t \in call.txs
  BY <1>1, SendHolds, Zenon
<1>4. /\ c \in Seq(Calls) /\ \A call \in Range(c) : call.txs = C
      /\ \A t \in C : \E call \in Range(c) : t \in call.txs
  BY <1>1, SendHolds, Zenon
<1> HIDE DEF a, b, c
<1> DEFINE p == a \o b
<1>5. p \in Seq(Calls) /\ Range(p) = Range(a) \cup Range(b)
  BY <1>2, <1>3, ConcatHolds, Zenon
<1> HIDE DEF p
<1> DEFINE q == p \o c
<1>6. q \in Seq(Calls) /\ Range(q) = Range(p) \cup Range(c)
  BY <1>4, <1>5, ConcatHolds, Zenon
<1>7. LoopCalls(A, B, C) = q
  BY Zenon DEF LoopCalls, p, a, b, c
<1> HIDE DEF q
<1>8. Range(q) = Range(a) \cup Range(b) \cup Range(c)
  BY <1>5, <1>6, Zenon
<1>9. \A call \in Range(q) : call.txs \subseteq A \cup B \cup C
  BY <1>2, <1>3, <1>4, <1>8, Zenon
<1>10. \A t \in A \cup B \cup C : \E call \in Range(q) : t \in call.txs
  BY <1>2, <1>3, <1>4, <1>8, Zenon
<1>11. CallsFor(q, A \cup B \cup C)
  BY <1>6, <1>9, <1>10, Zenon DEF CallsFor
<1> QED BY <1>7, <1>11, Zenon

(* core::relay_txpool_transactions *)
LEMMA LoopKeeps == ASSUME RelayInv, relay_txpool_transactions PROVE RelayInv'
<1> USE DEF RelayInv
<1> DEFINE Of(methods) ==
             {t \in DOMAIN txpool : txpool[t].relay \in methods /\ Relayable(txpool[t])}
           A == Of({"block", "fluff", "stem"})
           B == Of({"local"})
           C == Of({"forward"})
           q == LoopCalls(A, B, C)
<1>1. /\ sends["idle"] = <<>> /\ m_next_check' = NextCheck /\ sends' = [sends EXCEPT !["idle"] = q]
      /\ now' = now /\ strand' = strand /\ fluff_txs' = fluff_txs /\ txpool' = txpool
      /\ mined' = mined /\ net' = net /\ public' = public /\ forgotten' = forgotten
  BY Zenon DEF relay_txpool_transactions, LoopCalls, zoneVars, flushVars
<1>2. A \in SUBSET Txs /\ B \in SUBSET Txs /\ C \in SUBSET Txs
      /\ A \cup B \cup C \subseteq DOMAIN txpool
  BY Zenon DEF PoolType
<1>3. ASSUME NEW t \in DOMAIN txpool, Relayable(txpool[t]) PROVE t \in A \cup B \cup C
  <2>1. txpool[t].relay \in Methods
    BY DEF PoolType, Rows
  <2> QED BY <1>3, <2>1, Zenon DEF Methods
<1> HIDE DEF A, B, C
<1>4. /\ q \in Seq(Calls) /\ \A call \in Range(q) : call.txs \subseteq A \cup B \cup C
      /\ \A t \in A \cup B \cup C : \E call \in Range(q) : t \in call.txs
  <2>1. CallsFor(q, A \cup B \cup C)
    BY <1>2, ThreeCalls, Zenon
  <2> HIDE DEF q
  <2> QED BY <2>1, Zenon DEF CallsFor
<1> HIDE DEF q
<1>5. /\ "idle" \in Threads /\ "net" \in Threads /\ "net" # "idle"
      /\ sends \in [Threads -> Seq(Calls)] /\ net' \in Jobs /\ strand' \in Seq(Entries)
  BY <1>1, Zenon DEF Threads, PoolType
<1>6. /\ sends' \in [Threads -> Seq(Calls)] /\ sends'["idle"] = q
      /\ \A o \in Threads : o # "idle" => sends'[o] = sends[o]
      /\ \A o \in Threads : Range(sends[o]) \subseteq Range(sends'[o])
  BY <1>1, <1>4, <1>5, NoCalls, SendsKeep, Zenon
<1>7. PublicGrows /\ RowsTyped' /\ Here' = Here
  BY <1>1, SameIsPublic, Zenon
<1>8. NewHere
  <2>1. net'.stem \subseteq Here' /\ net'.fluff \subseteq public'
    BY <1>1, <1>7, Zenon DEF PublicInv
  <2>2. ASSUME NEW th \in Threads, NEW call \in Range(sends'[th])
        PROVE  call \in Range(sends[th]) \/ call.txs \subseteq Here'
    <3>1. CASE th = "idle"
      BY <1>2, <1>4, <1>6, <1>7, <3>1, Zenon DEF Here
    <3>2. CASE th # "idle"
      BY <1>6, <3>2, Zenon
    <3> QED BY <3>1, <3>2, Zenon
  <2> QED BY <1>1, <2>1, <2>2, Zenon DEF NewHere
<1>9. NetInv'
  BY <1>1, <1>5, <1>6, Zenon DEF NetInv, Idle
<1>10. m_next_check' \in Nat /\ m_next_check' <= now + CheckEvery
  BY <1>1, NextCheckFacts, Zenon
<1>11. ASSUME NEW t \in DOMAIN txpool' PROVE RowOk(t)'
  <2> DEFINE row == txpool[t]
  <2>1. t \in DOMAIN txpool /\ RowOk(t) /\ txpool'[t] = row
    BY <1>1, Zenon DEF ScheduleInv
  <2>2. InFlight(t) => InFlight(t)'
    BY <1>1, <1>6, FlightKept, Zenon
  <2>3. Relayable(row) => InFlight(t)'
    BY <1>3, <1>4, <1>5, <1>6, <2>1, Zenon DEF InFlight
  <2>4. Relayable(row) \/ ~Young(row) \/ Looked(row, now, NextCheck)
        \/ (row.relay = "stem" /\ row.last = Latest)
    BY <2>1, LoopLooks, Zenon
  <2>5. /\ row.receive <= now
        /\ row.relay = "forward" => row.last < Latest
        /\ Waits(row) \/ row.last = Latest \/ row.last <= now
        /\ \/ Looked(row, now, m_next_check) \/ InFlight(t) \/ ~Young(row)
           \/ row.relay = "stem" /\ (t \in forgotten \/ (row.last = Latest /\ t \in net.stem))
    BY <2>1, Zenon DEF RowOk
  <2>6. row.relay = "stem" /\ row.last = Latest => ~Looked(row, now, m_next_check)
    <3>1. ~(Latest < Latest)
      BY TimeFacts
    <3> QED BY <3>1, Zenon DEF Looked, Waits
  <2>7. \/ Looked(row, now, NextCheck) \/ InFlight(t)' \/ ~Young(row)
        \/ row.relay = "stem" /\ (t \in forgotten \/ (row.last = Latest /\ t \in net.stem))
    BY <2>2, <2>3, <2>4, <2>5, <2>6, Zenon
  <2> QED BY <1>1, <2>1, <2>5, <2>7, Zenon DEF RowOk, Young, MaxAge, Latest, Waits
<1> QED BY <1>1, <1>5, <1>6, <1>7, <1>8, <1>9, <1>10, <1>11, StepIsOk, Zenon

-----------------------------------------------------------------------------
(* The rows after on_transactions_relayed: those it marks are scheduled again,
   the others are left.                                                     *)
LEMMA RelayedRows ==
  ASSUME PoolType, ScheduleInv, now' = now, net' = net, NEW txs, NEW m \in {"stem", "fluff"},
         Relayed(txs, m), \A u : u \notin txs /\ InFlight(u) => InFlight(u)'
  PROVE  /\ m_next_check' \in Nat /\ m_next_check' <= m_next_check
         /\ \A u \in DOMAIN txpool' : RowOk(u)'
<1>1. /\ m_next_check' \in Nat /\ m_next_check' <= m_next_check /\ DOMAIN txpool' = DOMAIN txpool
      /\ \A u \in DOMAIN txpool \ txs : txpool'[u] = txpool[u]
      /\ \A u \in forgotten : u \notin txs => u \in forgotten'
  BY Zenon DEF Relayed
<1>2. ASSUME NEW u \in DOMAIN txpool', u \in txs PROVE RowOk(u)'
  BY <1>1, <1>2, RelayedIsOk, Zenon DEF ScheduleInv
<1>3. ASSUME NEW u \in DOMAIN txpool', u \notin txs PROVE RowOk(u)'
  <2>1. RowIsKept(u)
    BY <1>1, <1>3, Zenon DEF RowIsKept
  <2> QED BY <1>1, <2>1, OthersOk, Zenon
<1> QED BY <1>1, <1>2, <1>3, Zenon

(* fluff_notify adds the transactions to queues of connections. *)
LEMMA NotifyQueues ==
  ASSUME NEW txs, NEW source, fluff_notify(txs, source), NEW c \in Conns
  PROVE  fluff_txs'[c] \subseteq fluff_txs[c] \cup txs
<1>1. fluff_txs' = [d \in Conns |-> IF d \in Conns \ {source} THEN fluff_txs[d] \cup txs ELSE fluff_txs[d]]
  BY Zenon DEF fluff_notify
<1> QED BY <1>1, Zenon

(* relay_transactions and notify::send_txs *)
LEMMA SendKeeps == ASSUME RelayInv, NEW th \in Threads, send_txs(th) PROVE RelayInv'
<1> USE DEF RelayInv
<1> DEFINE call == Head(sends[th])
           rest == Tail(sends[th])
           Entry(kind) == [kind |-> kind, txs |-> call.txs, source |-> call.source, phase |-> "waiting"]
<1>1. /\ sends[th] # <<>> /\ sends' = [sends EXCEPT ![th] = rest]
      /\ now' = now /\ fluff_txs' = fluff_txs /\ mined' = mined /\ net' = net
      /\ \/ set_relayed(call.txs, "fluff") /\ strand' = Append(strand, Entry("fluff_notify"))
         \/ strand' = Append(strand, Entry("dandelionpp_notify")) /\ UNCHANGED poolVars
  BY Zenon DEF send_txs, flushVars, Dispatch
<1>2. sends \in [Threads -> Seq(Calls)] /\ net' \in Jobs /\ strand \in Seq(Entries) /\ sends[th] \in Seq(Calls)
  BY <1>1, Zenon DEF PoolType
<1>3. rest \in Seq(Calls) /\ call \in Calls /\ Range(sends[th]) = {call} \cup Range(rest)
  BY <1>1, <1>2, TailHolds, Zenon
<1>4. call.txs \in SUBSET Txs /\ call.source \in Sources
  BY <1>3, Zenon DEF Calls
<1>5. ASSUME NEW kind \in {"fluff_notify", "dandelionpp_notify"}
      PROVE  /\ Entry(kind) \in Entries /\ Entry(kind).txs = call.txs /\ Entry(kind).kind = kind
             /\ Entry(kind).phase = "waiting"
  BY <1>4, Zenon DEF Entries
<1> HIDE DEF call, rest, Entry
<1>6. call.txs \subseteq Here
  BY <1>3, Zenon DEF PublicInv
<1>7. /\ sends' \in [Threads -> Seq(Calls)] /\ sends'[th] = rest
      /\ \A o \in Threads : o # th => sends'[o] = sends[o]
  BY <1>1, <1>2, <1>3, Zenon
<1>8. \A o \in Threads : \A x \in Range(sends'[o]) : x \in Range(sends[o])
  BY <1>3, <1>7, Zenon
<1>9. \A o \in Threads : \A x \in Range(sends[o]) : x = call \/ x \in Range(sends'[o])
  BY <1>3, <1>7, Zenon
<1>10. NetInv'
  BY <1>1, <1>7, Zenon DEF NetInv, Idle, Threads
<1>11. ASSUME NEW e \in Entries, strand' = Append(strand, e)
       PROVE  strand' \in Seq(Entries) /\ Range(strand') = Range(strand) \cup {e}
  <2>1. Append(strand, e) \in Seq(Entries) /\ Range(Append(strand, e)) = Range(strand) \cup {e}
    BY <1>2, AppendHolds, Zenon
  <2> QED BY <1>11, <2>1, Zenon
<1>12. CASE set_relayed(call.txs, "fluff") /\ strand' = Append(strand, Entry("fluff_notify"))
  <2>1. Relayed(call.txs, "fluff")
    BY <1>12, SetRelayedRelays, Zenon
  <2>2. PublicGrows /\ RowsTyped' /\ call.txs \subseteq public'
    BY <1>1, <1>6, <2>1, RelayedIsPublic, Zenon
  <2>3. strand' \in Seq(Entries) /\ Range(strand') = Range(strand) \cup {Entry("fluff_notify")}
    BY <1>5, <1>11, <1>12, Zenon
  <2>4. ASSUME NEW u, u \notin call.txs, InFlight(u) PROVE InFlight(u)'
    BY <1>9, <2>3, <2>4, FlightKept, Zenon
  <2>5. /\ m_next_check' \in Nat /\ m_next_check' <= m_next_check
        /\ \A u \in DOMAIN txpool' : RowOk(u)'
    BY <1>1, <2>1, <2>4, RelayedRows, Zenon
  <2>6. NewHere
    <3>1. net'.stem \subseteq Here' /\ net'.fluff \subseteq public'
      BY <1>1, <2>2, Zenon DEF PublicInv, PublicGrows
    <3>2. Entry("fluff_notify").txs \subseteq public'
      BY <1>5, <2>2, Zenon
    <3>3. Entry("fluff_notify").kind = "fluff_notify"
      BY <1>5, Zenon
    <3> QED BY <1>1, <1>8, <2>3, <3>1, <3>2, <3>3, Zenon DEF NewHere
  <2> QED BY <1>1, <1>2, <1>7, <1>10, <2>2, <2>3, <2>5, <2>6, StepIsOk, Zenon
<1>13. CASE strand' = Append(strand, Entry("dandelionpp_notify")) /\ UNCHANGED poolVars
  <2> DEFINE e == Entry("dandelionpp_notify")
  <2>1. UNCHANGED <<txpool, m_next_check, public, forgotten>>
    BY <1>13, Zenon DEF poolVars
  <2>2. PublicGrows /\ RowsTyped' /\ Here' = Here
    BY <1>1, <2>1, SameIsPublic, Zenon
  <2>3. strand' \in Seq(Entries) /\ Range(strand') = Range(strand) \cup {e}
    BY <1>5, <1>11, <1>13, Zenon
  <2>4. e.txs = call.txs /\ e.kind = "dandelionpp_notify" /\ e.phase = "waiting"
    BY <1>5, Zenon
  <2> HIDE DEF e
  <2>5. ASSUME NEW u \in call.txs PROVE InFlight(u)'
    BY <2>3, <2>4, Zenon DEF InFlight
  <2>6. ASSUME NEW u, InFlight(u) PROVE InFlight(u)'
    BY <1>9, <2>3, <2>5, <2>6, FlightKept, Zenon
  <2>7. NewHere
    <3>1. net'.stem \subseteq Here' /\ net'.fluff \subseteq public'
      BY <1>1, <2>2, Zenon DEF PublicInv, PublicGrows
    <3>2. e.txs \subseteq Here' /\ e.kind # "fluff_notify"
      BY <1>6, <2>2, <2>4, Zenon
    <3> QED BY <1>1, <1>8, <2>3, <3>1, <3>2, Zenon DEF NewHere
  <2>8. m_next_check' \in Nat /\ m_next_check' <= m_next_check
    BY <2>1, TimeFacts
  <2>9. ASSUME NEW u \in DOMAIN txpool' PROVE RowOk(u)'
    <3>1. u \in DOMAIN txpool /\ RowIsKept(u)
      BY <1>1, <2>1, <2>6, <2>8, Zenon DEF RowIsKept
    <3> QED BY <1>1, <2>8, <3>1, OthersOk, Zenon
  <2> QED BY <1>1, <1>2, <1>7, <1>10, <2>2, <2>3, <2>7, <2>8, <2>9, StepIsOk, Zenon
<1> QED BY <1>1, <1>12, <1>13, Zenon

(* A step of the strand that leaves the messages and the calls. *)
StrandOnly == now' = now /\ mined' = mined /\ net' = net /\ sends' = sends

(* What such a step keeps.                                                  *)
LEMMA StrandOnlyKeeps ==
  ASSUME RelayInv, StrandOnly, PublicGrows
  PROVE  /\ NetInv' /\ net' \in Jobs /\ sends' \in [Threads -> Seq(Calls)]
         /\ net'.stem \subseteq Here' /\ net'.fluff \subseteq public'
         /\ \A th \in Threads : \A call \in Range(sends'[th]) : call \in Range(sends[th])
<1>1. NetInv' /\ net' \in Jobs /\ sends' \in [Threads -> Seq(Calls)]
  BY Zenon DEF RelayInv, StrandOnly, NetInv, PoolType
<1>2. net'.stem \subseteq Here' /\ net'.fluff \subseteq public'
  BY Zenon DEF RelayInv, StrandOnly, PublicInv, PublicGrows
<1> QED BY <1>1, <1>2, Zenon DEF StrandOnly

(* The head of the strand. *)
LEMMA HeadFacts ==
  ASSUME RelayInv, strand # <<>>
  PROVE  /\ Tail(strand) \in Seq(Entries) /\ Head(strand) \in Entries
         /\ Range(strand) = {Head(strand)} \cup Range(Tail(strand))
         /\ Head(strand).txs \subseteq IF Head(strand).kind = "fluff_notify" THEN public ELSE Here
<1>1. strand \in Seq(Entries)
  BY Zenon DEF RelayInv, PoolType
<1>2. /\ Tail(strand) \in Seq(Entries) /\ Head(strand) \in Entries
      /\ Range(strand) = {Head(strand)} \cup Range(Tail(strand))
  BY <1>1, TailHolds, Zenon
<1> QED BY <1>2, Zenon DEF RelayInv, PublicInv

(* The strand fluffs transactions that are public. *)
LEMMA FluffKeeps == ASSUME RelayInv, RunFluffNotify PROVE RelayInv'
<1> USE DEF RelayInv
<1>1. /\ strand # <<>> /\ Head(strand).kind = "fluff_notify" /\ strand' = Tail(strand)
      /\ fluff_notify(Head(strand).txs, Head(strand).source) /\ StrandOnly
      /\ UNCHANGED <<txpool, m_next_check, public, forgotten>>
  BY Zenon DEF RunFluffNotify, At, StrandOnly, poolVars
<1>2. PublicGrows /\ RowsTyped' /\ Here' = Here
  BY <1>1, SameIsPublic, Zenon DEF StrandOnly
<1>3. /\ strand' \in Seq(Entries) /\ Range(strand) = {Head(strand)} \cup Range(strand')
      /\ Head(strand).txs \subseteq public
  BY <1>1, HeadFacts, Zenon
<1>4. /\ NetInv' /\ net' \in Jobs /\ sends' \in [Threads -> Seq(Calls)]
      /\ net'.stem \subseteq Here' /\ net'.fluff \subseteq public'
      /\ \A th \in Threads : \A call \in Range(sends'[th]) : call \in Range(sends[th])
  BY <1>1, <1>2, StrandOnlyKeeps, Zenon
<1>5. NewHere
  <2>1. \A c \in Conns : fluff_txs'[c] \subseteq fluff_txs[c] \cup public'
    BY <1>1, <1>3, NotifyQueues, Zenon
  <2> QED BY <1>3, <1>4, <2>1, Zenon DEF NewHere
<1>6. ASSUME NEW u, InFlight(u) PROVE InFlight(u)'
  <2>1. Head(strand).kind # "dandelionpp_notify"
    BY <1>1, Zenon
  <2> QED BY <1>1, <1>3, <1>6, <2>1, FlightKept, Zenon DEF StrandOnly
<1>7. m_next_check' \in Nat /\ m_next_check' <= m_next_check
  BY <1>1, TimeFacts
<1>8. ASSUME NEW u \in DOMAIN txpool' PROVE RowOk(u)'
  <2>1. u \in DOMAIN txpool /\ RowIsKept(u)
    BY <1>1, <1>6, <1>7, Zenon DEF RowIsKept, StrandOnly
  <2> QED BY <1>1, <1>7, <2>1, OthersOk, Zenon DEF StrandOnly
<1> QED BY <1>1, <1>2, <1>3, <1>4, <1>5, <1>7, <1>8, StepIsOk, Zenon DEF StrandOnly

(* dandelionpp_notify fluffs after all. *)
LEMMA InsteadKeeps ==
  ASSUME RelayInv, strand # <<>>, Head(strand).kind = "dandelionpp_notify", FluffInstead
  PROVE  RelayInv'
<1> USE DEF RelayInv
<1> DEFINE txs == Head(strand).txs
<1>1. /\ set_relayed(txs, "fluff") /\ fluff_notify(txs, Head(strand).source)
      /\ strand' = Tail(strand) /\ StrandOnly
  BY Zenon DEF FluffInstead, StrandOnly
<1>2. /\ strand' \in Seq(Entries) /\ Range(strand) = {Head(strand)} \cup Range(strand')
      /\ txs \subseteq Here
  BY <1>1, HeadFacts, PublicIsHere, Zenon
<1>3. Relayed(txs, "fluff")
  BY <1>1, SetRelayedRelays, Zenon
<1>4. PublicGrows /\ RowsTyped' /\ txs \subseteq public'
  BY <1>1, <1>2, <1>3, RelayedIsPublic, Zenon DEF StrandOnly
<1>5. /\ NetInv' /\ net' \in Jobs /\ sends' \in [Threads -> Seq(Calls)]
      /\ net'.stem \subseteq Here' /\ net'.fluff \subseteq public'
      /\ \A th \in Threads : \A call \in Range(sends'[th]) : call \in Range(sends[th])
  BY <1>1, <1>4, StrandOnlyKeeps, Zenon
<1>6. NewHere
  <2>1. \A c \in Conns : fluff_txs'[c] \subseteq fluff_txs[c] \cup public'
    BY <1>1, <1>4, NotifyQueues, Zenon
  <2> QED BY <1>2, <1>5, <2>1, Zenon DEF NewHere
<1>7. ASSUME NEW u, u \notin txs, InFlight(u) PROVE InFlight(u)'
  BY <1>1, <1>2, <1>7, FlightKept, Zenon DEF StrandOnly
<1>8. /\ m_next_check' \in Nat /\ m_next_check' <= m_next_check
      /\ \A u \in DOMAIN txpool' : RowOk(u)'
  BY <1>1, <1>3, <1>7, RelayedRows, Zenon DEF StrandOnly
<1> QED BY <1>1, <1>2, <1>4, <1>5, <1>6, <1>8, StepIsOk, Zenon DEF StrandOnly

(* In a stem epoch the rows are marked before the transactions are sent. *)
LEMMA StemKeeps ==
  ASSUME RelayInv, strand # <<>>, Head(strand).kind = "dandelionpp_notify", StrandOnly,
         fluff_txs' = fluff_txs, set_relayed(Head(strand).txs, "stem"),
         strand' = [strand EXCEPT ![1].phase = "sending"]
  PROVE  RelayInv'
<1> USE DEF RelayInv
<1> DEFINE txs == Head(strand).txs
           e == [Head(strand) EXCEPT !.phase = "sending"]
<1>1. strand \in Seq(Entries) /\ Head(strand) \in Entries /\ txs \subseteq Here
      /\ Range(strand) = {Head(strand)} \cup Range(Tail(strand))
  BY HeadFacts, PublicIsHere, Zenon DEF PoolType
<1>2. e.txs = txs /\ e.kind = "dandelionpp_notify"
  BY <1>1, Zenon DEF Entries
<1>3. strand' \in Seq(Entries) /\ Range(strand') = {e} \cup Range(Tail(strand))
  BY <1>1, SendingHolds, Zenon
<1> HIDE DEF e
<1>4. Relayed(txs, "stem")
  BY SetRelayedRelays, Zenon
<1>5. PublicGrows /\ RowsTyped'
  BY <1>4, RelayedIsPublic, Zenon DEF StrandOnly
<1>6. /\ NetInv' /\ net' \in Jobs /\ sends' \in [Threads -> Seq(Calls)]
      /\ net'.stem \subseteq Here' /\ net'.fluff \subseteq public'
      /\ \A th \in Threads : \A call \in Range(sends'[th]) : call \in Range(sends[th])
  BY <1>5, StrandOnlyKeeps, Zenon
<1>7. NewHere
  <2>1. e.txs \subseteq Here' /\ e.kind # "fluff_notify"
    BY <1>1, <1>2, <1>5, Zenon DEF PublicGrows
  <2> QED BY <1>1, <1>3, <1>6, <2>1, Zenon DEF NewHere
<1>8. ASSUME NEW u, u \notin txs, InFlight(u) PROVE InFlight(u)'
  BY <1>1, <1>3, <1>8, FlightKept, Zenon DEF StrandOnly
<1>9. /\ m_next_check' \in Nat /\ m_next_check' <= m_next_check
      /\ \A u \in DOMAIN txpool' : RowOk(u)'
  BY <1>4, <1>8, RelayedRows, Zenon DEF StrandOnly
<1> QED BY <1>3, <1>5, <1>6, <1>7, <1>9, StepIsOk, Zenon DEF StrandOnly

(* The transactions have been sent to the peer of the stem. *)
LEMMA SentKeeps ==
  ASSUME RelayInv, strand # <<>>, Head(strand).phase = "sending", StrandOnly,
         fluff_txs' = fluff_txs, strand' = Tail(strand),
         UNCHANGED <<txpool, m_next_check, public, forgotten>>
  PROVE  RelayInv'
<1> USE DEF RelayInv
<1>1. strand' \in Seq(Entries) /\ Range(strand) = {Head(strand)} \cup Range(strand')
  BY HeadFacts, Zenon
<1>2. PublicGrows /\ RowsTyped' /\ Here' = Here
  BY SameIsPublic, Zenon DEF StrandOnly
<1>3. /\ NetInv' /\ net' \in Jobs /\ sends' \in [Threads -> Seq(Calls)]
      /\ net'.stem \subseteq Here' /\ net'.fluff \subseteq public'
      /\ \A th \in Threads : \A call \in Range(sends'[th]) : call \in Range(sends[th])
  BY <1>2, StrandOnlyKeeps, Zenon
<1>4. NewHere
  BY <1>1, <1>3, Zenon DEF NewHere
<1>5. ASSUME NEW u, InFlight(u) PROVE InFlight(u)'
  <2>1. Head(strand).phase # "waiting"
    BY Zenon
  <2> QED BY <1>1, <1>5, <2>1, FlightKept, Zenon DEF StrandOnly
<1>6. m_next_check' \in Nat /\ m_next_check' <= m_next_check
  BY TimeFacts
<1>7. ASSUME NEW u \in DOMAIN txpool' PROVE RowOk(u)'
  <2>1. u \in DOMAIN txpool /\ RowIsKept(u)
    BY <1>5, <1>6, Zenon DEF RowIsKept, StrandOnly
  <2> QED BY <1>6, <2>1, OthersOk, Zenon DEF StrandOnly
<1> QED BY <1>1, <1>2, <1>3, <1>4, <1>6, <1>7, StepIsOk, Zenon DEF StrandOnly

(* dandelionpp_notify::operator() *)
LEMMA DandelionKeeps == ASSUME RelayInv, dandelionpp_notify PROVE RelayInv'
<1>1. \/ At("dandelionpp_notify", "waiting") /\ FluffInstead
      \/ /\ At("dandelionpp_notify", "waiting") /\ set_relayed(Head(strand).txs, "stem")
         /\ strand' = [strand EXCEPT ![1].phase = "sending"]
         /\ StrandOnly /\ fluff_txs' = fluff_txs
      \/ /\ At("dandelionpp_notify", "sending") /\ strand' = Tail(strand)
         /\ StrandOnly /\ fluff_txs' = fluff_txs
         /\ UNCHANGED <<txpool, m_next_check, public, forgotten>>
      \/ At("dandelionpp_notify", "sending") /\ FluffInstead
  BY Zenon DEF dandelionpp_notify, StrandOnly, flushVars, poolVars
<1> QED BY <1>1, InsteadKeeps, StemKeeps, SentKeeps, Zenon DEF At

-----------------------------------------------------------------------------
(* The record of a message when it begins. *)
Begun(msg, method, c) == [Idle EXCEPT !.todo = msg, !.relay = method, !.source = c]

(* It has no transactions to be relayed yet.                                *)
LEMMA BeginIsJob ==
  ASSUME NEW msg \in Seq(Txs), NEW method \in {"stem", "fluff", "forward"}, NEW c \in Sources
  PROVE  /\ Begun(msg, method, c) \in Jobs /\ Begun(msg, method, c).todo = msg
         /\ Begun(msg, method, c).relay = method
         /\ Begun(msg, method, c).stem = {} /\ Begun(msg, method, c).fluff = {}
<1>1. Idle \in Jobs /\ Idle.stem = {} /\ Idle.fluff = {}
  BY IdleIsJob, Zenon
<1> QED BY <1>1, Zenon DEF Jobs, Begun

(* handle_notify_new_transactions begins with a message. *)
LEMMA FirstKeeps ==
  ASSUME RelayInv, NEW msg \in Messages, NEW method \in {"stem", "fluff", "forward"},
         NEW c \in Conns \cup {NoConn}, handle_notify_new_transactions(msg, method, c)
  PROVE  RelayInv'
<1> DEFINE n == Begun(msg, method, c)
<1>1. net = Idle /\ sends["net"] = <<>> /\ ReceiveOne(n)
  BY Zenon DEF handle_notify_new_transactions, Begun
<1>2. msg \in Seq(Txs) /\ msg # <<>>
  BY MessagesAssumption, Zenon
<1>3. n \in Jobs /\ n.todo = msg /\ n.relay = method /\ n.stem = {} /\ n.fluff = {}
  <2>1. c \in Sources
    BY Zenon DEF Sources
  <2> QED BY <1>2, <2>1, BeginIsJob
<1> HIDE DEF n
<1>4. n.stem = net.stem /\ n.fluff = net.fluff
  BY <1>1, <1>3, IdleIsJob, Zenon
<1> QED BY <1>1, <1>2, <1>3, <1>4, MessageKeeps, Zenon DEF RelayInv

(* It goes on with the next transaction of the message. *)
LEMMA NextKeeps == ASSUME RelayInv, ReceiveNext PROVE RelayInv'
<1>1. net # Idle /\ ReceiveOne(net)
  BY Zenon DEF ReceiveNext
<1>2. /\ net.todo # <<>> /\ net.relay \in {"stem", "fluff", "forward"}
      /\ sends["net"] = <<>> /\ net \in Jobs
  BY <1>1, Zenon DEF RelayInv, NetInv, PoolType
<1> QED BY <1>1, <1>2, MessageKeeps, Zenon DEF RelayInv

(* The timer and the connections: queues are only emptied. *)
LEMMA ZoneEmpties ==
  ASSUME ZoneInv, ZoneStep
  PROVE  now' = now /\ strand' = strand /\ \A c \in Conns : fluff_txs'[c] \subseteq fluff_txs[c]
<1>1. CASE TimerExpires
  BY <1>1, Zenon DEF TimerExpires
<1>2. ASSUME NEW kind, fluff_flush(kind)
      PROVE  now' = now /\ strand' = strand /\ \A c \in Conns : fluff_txs'[c] \subseteq fluff_txs[c]
  <2>1. now' = now /\ strand' = strand
        /\ (fluff_txs' = fluff_txs \/ Flush(kind, [fired EXCEPT ![kind] = @ - 1]))
    BY <1>2, Zenon DEF fluff_flush
  <2>2. ASSUME NEW p, Flush(kind, p) PROVE \A c \in Conns : fluff_txs'[c] \subseteq fluff_txs[c]
    <3> DEFINE filled == {c \in Conns : fluff_txs[c] # {}}
               due == {c \in filled : flush_time[c] <= now \/ kind = "canceled"}
    <3>1. fluff_txs' = [c \in Conns |-> IF c \in due THEN {} ELSE fluff_txs[c]]
      BY <2>2, Zenon DEF Flush
    <3> HIDE DEF due
    <3> QED BY <3>1, Zenon
  <2> QED BY <2>1, <2>2, Zenon
<1>3. ASSUME NEW d \in Conns, Reconnect(d)
      PROVE  now' = now /\ strand' = strand /\ \A c \in Conns : fluff_txs'[c] \subseteq fluff_txs[c]
  <2>1. now' = now /\ strand' = strand /\ fluff_txs' = [fluff_txs EXCEPT ![d] = {}]
    BY <1>3, Zenon DEF Reconnect
  <2>2. DOMAIN fluff_txs = Conns
    BY Zenon DEF ZoneInv
  <2> QED BY <2>1, <2>2, Zenon
<1> QED BY <1>1, <1>2, <1>3, Zenon DEF ZoneStep

(* So they leave the rest as it is. *)
LEMMA ZoneKeeps ==
  ASSUME ZoneInv, RelayInv, ZoneStep,
         UNCHANGED <<txpool, mined, m_next_check, net, sends, public, forgotten>>
  PROVE  RelayInv'
<1>1. now' = now /\ strand' = strand /\ \A c \in Conns : fluff_txs'[c] \subseteq fluff_txs[c]
  BY ZoneEmpties, Zenon
<1>2. PublicInv'
  <2>1. PublicRows' = PublicRows /\ Here' = Here
    BY Zenon DEF PublicRows, Here
  <2> QED BY <1>1, <2>1, Zenon DEF RelayInv, PublicInv
<1>3. PoolType' /\ NetInv'
  BY <1>1, Zenon DEF RelayInv, PoolType, NetInv
<1>4. ASSUME NEW u \in DOMAIN txpool' PROVE RowOk(u)'
  <2>1. InFlight(u) => InFlight(u)'
    BY <1>1, Zenon DEF InFlight
  <2>2. m_next_check' \in Nat /\ m_next_check' <= m_next_check
    BY TimeFacts DEF RelayInv
  <2>3. u \in DOMAIN txpool /\ RowIsKept(u)
    BY <2>1, <2>2, Zenon DEF RowIsKept
  <2> QED BY <1>1, <2>2, <2>3, OthersOk, Zenon DEF RelayInv
<1>5. ScheduleInv'
  BY <1>1, <1>4, Zenon DEF RelayInv, ScheduleInv
<1> QED BY <1>2, <1>3, <1>5, Zenon DEF RelayInv

(* After a restart the loop looks at every row at once; those for the stem phase
   that were not sent have a time that does not come.                       *)
LEMMA RestartKeeps == ASSUME RelayInv, Restart PROVE RelayInv'
<1> USE DEF RelayInv
<1>1. /\ strand' = <<>> /\ fluff_txs' = [c \in Conns |-> {}] /\ net' = Idle
      /\ sends' = [th \in Threads |-> <<>>] /\ m_next_check' = now
      /\ forgotten' = forgotten \cup
           {t \in DOMAIN txpool : txpool[t].relay = "stem" /\ txpool[t].last = Latest}
      /\ now' = now /\ txpool' = txpool /\ mined' = mined /\ public' = public
  BY Zenon DEF Restart, ResetZone
<1>2. PublicGrows /\ RowsTyped'
  BY <1>1, SameIsPublic, Zenon
<1>3. net' \in Jobs /\ net'.stem = {} /\ net'.fluff = {} /\ NetInv'
  BY <1>1, IdleIsJob, Zenon DEF NetInv
<1>4. <<>> \in Seq(Calls) /\ <<>> \in Seq(Entries)
  OBVIOUS
<1>5. /\ sends' \in [Threads -> Seq(Calls)] /\ strand' \in Seq(Entries)
      /\ \A th \in Threads : sends'[th] = <<>>
  BY <1>1, <1>4, Zenon
<1>6. NewHere
  <2>1. \A th \in Threads : Range(sends'[th]) = {}
    BY <1>5, NoCalls, Zenon
  <2>2. Range(strand') = {}
    BY <1>1, NoCalls, Zenon
  <2>3. \A c \in Conns : fluff_txs'[c] = {}
    BY <1>1, Zenon
  <2> QED BY <1>3, <2>1, <2>2, <2>3, Zenon DEF NewHere
<1>7. m_next_check' \in Nat /\ m_next_check' <= now + CheckEvery /\ m_next_check' <= now'
  BY <1>1, TimeFacts
<1>8. ASSUME NEW u \in DOMAIN txpool' PROVE RowOk(u)'
  <2> DEFINE row == txpool[u]
  <2>1. u \in DOMAIN txpool /\ txpool'[u] = row /\ row \in Rows
        /\ row.receive <= now /\ (row.relay = "forward" => row.last < Latest)
        /\ (Waits(row) \/ row.last = Latest \/ row.last <= now)
    BY <1>1, Zenon DEF ScheduleInv, RowOk, PoolType
  <2>2. row.last = Latest \/ row.last < Latest
    BY <2>1, TimeFacts DEF Rows
  <2>3. Looked(row, now', m_next_check') \/ (row.relay = "stem" /\ u \in forgotten')
    <3>1. CASE ~Waits(row)
      BY <1>7, <3>1, Zenon DEF Looked
    <3>2. CASE Waits(row) /\ row.last < Latest
      BY <1>7, <3>2, Zenon DEF Looked
    <3>3. CASE Waits(row) /\ row.last = Latest
      <4>1. row.relay = "stem"
        BY <2>1, <3>3, TimeFacts DEF Waits
      <4> QED BY <1>1, <2>1, <3>3, <4>1, Zenon
    <3> QED BY <2>2, <3>1, <3>2, <3>3, Zenon
  <2> QED BY <1>1, <2>1, <2>3, Zenon DEF RowOk
<1> QED BY <1>1, <1>2, <1>3, <1>5, <1>6, <1>7, <1>8, StepIsOk, Zenon

(* A row while time goes by before the next check. *)
LEMMA LaterIsLooked ==
  ASSUME NEW row \in Rows, NEW time \in Nat, NEW check \in Nat, row.receive <= time, time < check,
         Looked(row, time, check)
  PROVE  Looked(row, time + 1, check)
<1>1. row.last \in Nat /\ row.receive \in Nat /\ CheckEvery \in Nat /\ ~(check <= time)
  BY TimesAssumption DEF Rows
<1>2. time - row.receive \in Nat /\ (time + 1) - row.receive \in Nat
      /\ time - row.receive <= (time + 1) - row.receive
  BY <1>1
<1>3. /\ Delay(time - row.receive) \in Nat
      /\ Delay(time - row.receive) <= Delay((time + 1) - row.receive)
  BY <1>2, DelayGrows, Zenon
<1>4. Delay((time + 1) - row.receive) \in Nat
  BY <1>2, DelayGrows
<1>5. CASE Waits(row)
  BY <1>1, <1>5, Zenon DEF Looked
<1>6. CASE ~Waits(row) /\ row.last = Latest
  BY <1>1, <1>6, Zenon DEF Looked
<1>7. CASE ~Waits(row) /\ row.last # Latest
  <2>1. check <= row.last + Delay(time - row.receive) + CheckEvery
    BY <1>1, <1>7, Zenon DEF Looked
  <2> DEFINE a == Delay(time - row.receive)
             b == Delay((time + 1) - row.receive)
  <2> HIDE DEF a, b
  <2>2. a \in Nat /\ b \in Nat /\ a <= b /\ check <= row.last + a + CheckEvery
    BY <1>3, <1>4, <2>1, Zenon DEF a, b
  <2>3. check <= row.last + b + CheckEvery
    BY <1>1, <2>2
  <2>4. check <= row.last + Delay((time + 1) - row.receive) + CheckEvery
    BY <2>3, Zenon DEF b
  <2> QED BY <1>7, <2>4, Zenon DEF Looked
<1> QED BY <1>5, <1>6, <1>7, Zenon

(* Time goes by. *)
LEMMA TickKeeps == ASSUME RelayInv, Tick PROVE RelayInv'
<1> USE DEF RelayInv
<1>1. /\ now < MaxTime /\ now < m_next_check /\ now' = now + 1
      /\ UNCHANGED <<strand, fluff_txs, txpool, mined, m_next_check, net, sends, public, forgotten>>
  BY Zenon DEF Tick, zoneVars, flushVars
<1>2. now' \in StartTime .. MaxTime
  BY <1>1, TimesAssumption DEF PoolType
<1>3. PoolType' /\ NetInv'
  BY <1>1, <1>2, Zenon DEF PoolType, NetInv
<1>4. PublicInv'
  <2>1. PublicRows' = PublicRows /\ Here' = Here
    BY <1>1, Zenon DEF PublicRows, Here
  <2> QED BY <1>1, <2>1, Zenon DEF PublicInv
<1>5. m_next_check' <= now' + CheckEvery
  BY <1>1, TimeFacts DEF ScheduleInv
<1>6. ASSUME NEW u \in DOMAIN txpool' PROVE RowOk(u)'
  <2> DEFINE row == txpool[u]
  <2>1. u \in DOMAIN txpool /\ txpool'[u] = row /\ row \in Rows
    BY <1>1, Zenon DEF PoolType
  <2>2. /\ row.receive <= now /\ (row.relay = "forward" => row.last < Latest)
        /\ Waits(row) \/ row.last = Latest \/ row.last <= now
        /\ \/ Looked(row, now, m_next_check) \/ InFlight(u) \/ ~Young(row)
           \/ row.relay = "stem" /\ (u \in forgotten \/ (row.last = Latest /\ u \in net.stem))
    BY <2>1, Zenon DEF ScheduleInv, RowOk
  <2>3. row.receive \in Nat /\ row.last \in Nat /\ now \in Nat /\ m_next_check \in Nat
    BY <2>1, TimeFacts DEF Rows
  <2>4. row.receive <= now' /\ (row.last <= now => row.last <= now')
    BY <1>1, <2>2, <2>3
  <2>5. Looked(row, now, m_next_check) => Looked(row, now', m_next_check')
    BY <1>1, <2>1, <2>2, <2>3, LaterIsLooked, Zenon
  <2>6. InFlight(u) => InFlight(u)'
    BY <1>1, Zenon DEF InFlight
  <2>7. ~Young(row) => ~Young(txpool[u])'
    <3> DEFINE half == MaxAge(row) \div 2
    <3>1. half \in Int
      BY TimesAssumption DEF MaxAge
    <3>2. Young(row) <=> now - row.receive <= half
      BY Zenon DEF Young
    <3>3. Young(txpool[u])' <=> now' - row.receive <= half
      BY <2>1, Zenon DEF Young, MaxAge
    <3> HIDE DEF half
    <3> QED BY <1>1, <2>3, <3>1, <3>2, <3>3
  <2> HIDE DEF row
  <2>8. RowOk(u)' <=> /\ row.receive <= now'
                      /\ row.relay = "forward" => row.last < Latest
                      /\ Waits(row) \/ row.last = Latest \/ row.last <= now'
                      /\ \/ Looked(row, now', m_next_check') \/ InFlight(u)' \/ ~Young(txpool[u])'
                         \/ row.relay = "stem" /\ (u \in forgotten' \/ (row.last = Latest /\ u \in net'.stem))
    BY <2>1, Zenon DEF RowOk
  <2> QED BY <1>1, <2>2, <2>4, <2>5, <2>6, <2>7, <2>8, Zenon
<1> QED BY <1>3, <1>4, <1>5, <1>6, Zenon DEF ScheduleInv

(* Nothing happens. *)
LEMMA QuietKeeps == ASSUME RelayInv, UNCHANGED vars PROVE RelayInv'
<1>1. /\ now' = now /\ txpool' = txpool /\ mined' = mined /\ m_next_check' = m_next_check
      /\ net' = net /\ sends' = sends /\ public' = public /\ forgotten' = forgotten
      /\ strand' = strand /\ fluff_txs' = fluff_txs
  BY Zenon DEF vars, zoneVars, flushVars
<1>2. PoolType' /\ NetInv'
  BY <1>1, Zenon DEF RelayInv, PoolType, NetInv
<1>3. PublicInv'
  <2>1. PublicRows' = PublicRows /\ Here' = Here
    BY <1>1, Zenon DEF PublicRows, Here
  <2> QED BY <1>1, <2>1, Zenon DEF RelayInv, PublicInv
<1>4. ASSUME NEW u \in DOMAIN txpool' PROVE RowOk(u)'
  <2>1. InFlight(u) => InFlight(u)'
    BY <1>1, Zenon DEF InFlight
  <2>2. m_next_check' \in Nat /\ m_next_check' <= m_next_check
    BY <1>1, TimeFacts DEF RelayInv
  <2>3. u \in DOMAIN txpool /\ RowIsKept(u)
    BY <1>1, <2>1, <2>2, Zenon DEF RowIsKept
  <2> QED BY <1>1, <2>2, <2>3, OthersOk, Zenon DEF RelayInv
<1> QED BY <1>1, <1>2, <1>3, <1>4, Zenon DEF RelayInv, ScheduleInv

(* Every step of every thread, of the strand and of time keeps the invariant. *)
LEMMA RelayStays == ASSUME ZoneInv, RelayInv, [Next]_vars PROVE RelayInv'
<1>1. ASSUME NEW msg \in Messages, NEW method \in {"stem", "fluff", "forward"},
             NEW c \in Conns \cup {NoConn}, handle_notify_new_transactions(msg, method, c)
      PROVE  RelayInv'
  BY <1>1, FirstKeeps, Zenon
<1>2. ASSUME NEW t \in Txs, on_send_raw_tx(t) \/ AddKeptByBlock(t) \/ Mine(t) PROVE RelayInv'
  BY <1>2, SubmitKeeps, BlockKeeps, MineKeeps, Zenon
<1>3. ASSUME NEW th \in Threads, send_txs(th) PROVE RelayInv'
  BY <1>3, SendKeeps, Zenon
<1>4. CASE ReceiveNext \/ relay_txpool_transactions \/ RunFluffNotify \/ dandelionpp_notify
  BY <1>4, NextKeeps, LoopKeeps, FluffKeeps, DandelionKeeps, Zenon
<1>5. CASE ZoneStep /\ UNCHANGED <<txpool, mined, m_next_check, net, sends, public, forgotten>>
  BY <1>5, ZoneKeeps, Zenon
<1>6. CASE Restart \/ Tick \/ UNCHANGED vars
  BY <1>6, RestartKeeps, TickKeeps, QuietKeeps, Zenon
<1> QED BY <1>1, <1>2, <1>3, <1>4, <1>5, <1>6, Zenon DEF Next

(* At the start the pool is empty. *)
LEMMA RelayStarts == ASSUME Init PROVE ZoneInv /\ RelayInv
<1>1. /\ strand = <<>> /\ fluff_txs = [c \in Conns |-> {}] /\ now = StartTime
      /\ flush_time = [c \in Conns |-> Never] /\ flush_callbacks = 0
      /\ txpool = <<>> /\ mined = {} /\ m_next_check = StartTime /\ net = Idle
      /\ sends = [th \in Threads |-> <<>>] /\ public = {} /\ forgotten = {}
      /\ timer = [expiry |-> 0, waiting |-> FALSE] /\ fired = [expired |-> 0, canceled |-> 0]
  BY Zenon DEF Init, InitZone, NotSet
<1>2. ZoneInv
  <2>1. fired \in Counts /\ timer \in [expiry : Nat, waiting : BOOLEAN]
        /\ Posted(fired) = 0 /\ Waiting(timer) = 0
    BY <1>1 DEF Counts, Posted, Waiting
  <2>2. now \in Nat
    BY <1>1, TimesAssumption, Zenon
  <2>3. flush_callbacks = Posted(fired) + Waiting(timer)
    BY <1>1, <2>1
  <2> QED BY <1>1, <2>1, <2>2, <2>3, Zenon DEF ZoneInv, Armed
<1>3. DOMAIN txpool = {}
  BY <1>1
<1>4. net \in Jobs /\ net.stem = {} /\ net.fluff = {}
  BY <1>1, IdleIsJob, Zenon
<1>5. <<>> \in Seq(Calls) /\ <<>> \in Seq(Entries)
  OBVIOUS
<1>6. now \in StartTime .. MaxTime /\ m_next_check \in Nat /\ m_next_check <= now + CheckEvery
  BY <1>1, TimesAssumption
<1>7. PoolType
  BY <1>1, <1>3, <1>4, <1>5, <1>6, Zenon DEF PoolType
<1>8. PublicInv
  <2>1. \A th \in Threads : Range(sends[th]) = {}
    BY <1>1, NoCalls, Zenon
  <2>2. Range(strand) = {}
    BY <1>1, NoCalls, Zenon
  <2>3. public = mined \cup PublicRows
    BY <1>1, <1>3, Zenon DEF PublicRows
  <2>4. \A c \in Conns : fluff_txs[c] = {}
    BY <1>1, Zenon
  <2> QED BY <1>1, <1>3, <1>4, <2>1, <2>2, <2>3, <2>4, Zenon DEF PublicInv
<1>9. NetInv /\ ScheduleInv
  BY <1>1, <1>3, <1>6, Zenon DEF NetInv, ScheduleInv
<1> QED BY <1>2, <1>7, <1>8, <1>9, Zenon DEF RelayInv

(* Both invariants hold throughout. *)
LEMMA RelayAlways == Spec => [](ZoneInv /\ RelayInv)
<1>1. Init => ZoneInv /\ RelayInv
  BY RelayStarts, Zenon
<1>2. ZoneInv /\ RelayInv /\ [Next]_vars => ZoneInv' /\ RelayInv'
  BY ZoneStays, RelayStays, Zenon
<1> QED BY <1>1, <1>2, PTL DEF Spec

(* For any transactions, messages, connections and delays, nothing is queued
   for all connections that the pool has not made public or the chain holds:
   on_transactions_relayed comes before fluff_notify on every path, also when
   a transaction is mined, comes in a block, or the node restarts in between. *)
THEOREM FluffSafety == Spec => []FluffIsPublic
<1>1. RelayInv => FluffIsPublic
  BY Zenon DEF RelayInv, PublicInv, FluffIsPublic
<1> QED BY <1>1, RelayAlways, PTL

-----------------------------------------------------------------------------
(* A thread that holds a transaction is about to relay it. *)
LEMMA FlightIsPending == ASSUME NEW t, InFlight(t) PROVE Pending(t)
<1>1. ASSUME NEW th \in Threads, NEW call \in Range(sends[th]), t \in call.txs PROVE Pending(t)
  <2>1. PICK k \in DOMAIN sends[th] : call = sends[th][k]
    BY <1>1, Zenon DEF Range
  <2> QED BY <1>1, <2>1, Zenon DEF Pending
<1>2. ASSUME NEW e \in Range(strand), t \in e.txs PROVE Pending(t)
  <2>1. PICK k \in DOMAIN strand : e = strand[k]
    BY <1>2, Zenon DEF Range
  <2> QED BY <1>2, <2>1, Zenon DEF Pending
<1> QED BY <1>1, <1>2, Zenon DEF InFlight

(* The later of two times. *)
LEMMA MaxOf ==
  ASSUME NEW a \in Nat, NEW b \in Nat
  PROVE  LET m == Max({a, b}) IN m \in Nat /\ a <= m /\ b <= m
<1>1. \E x \in {a, b} : \A y \in {a, b} : x >= y
  <2>1. CASE a <= b
    BY <2>1
  <2>2. CASE b <= a
    BY <2>2
  <2> QED BY <2>1, <2>2
<1>2. Max({a, b}) \in {a, b} /\ \A y \in {a, b} : Max({a, b}) >= y
  BY <1>1, Zenon DEF Max
<1> QED BY <1>2, Zenon

(* No transaction is lost in the stem phase, for any times, embargoes and order
   of the calls: a thread or the strand has it, or the relay loop looks at it
   by the end of its embargo (set_relayed, add_tx and
   get_relayable_transactions set m_next_check in any order).               *)
THEOREM StemSafety == Spec => []StemIsScheduled
<1>1. RelayInv => StemIsScheduled
  <2> SUFFICES ASSUME RelayInv, NEW t \in DOMAIN txpool, Waits(txpool[t])
               PROVE  \/ Pending(t) \/ t \in forgotten \/ ~Young(txpool[t])
                      \/ txpool[t].last < Latest /\ m_next_check <= Max({txpool[t].last, now})
    BY Zenon DEF StemIsScheduled
  <2> DEFINE row == txpool[t]
  <2>1. row.last \in Nat /\ now \in Nat /\ m_next_check \in Nat
    BY TimeFacts DEF RelayInv, PoolType, Rows
  <2>2. \/ Looked(row, now, m_next_check) \/ InFlight(t) \/ ~Young(row)
        \/ t \in forgotten \/ t \in net.stem
    BY Zenon DEF RelayInv, ScheduleInv, RowOk
  <2>3. InFlight(t) \/ t \in net.stem => Pending(t)
    BY FlightIsPending, Zenon DEF Pending
  <2>4. Looked(row, now, m_next_check) =>
          row.last < Latest /\ (m_next_check <= row.last \/ m_next_check <= now)
    BY Zenon DEF Looked
  <2> DEFINE m == Max({row.last, now})
  <2>5. m \in Nat /\ row.last <= m /\ now <= m
    BY <2>1, MaxOf, Zenon
  <2> HIDE DEF m, row
  <2>6. m_next_check <= row.last \/ m_next_check <= now => m_next_check <= m
    BY <2>1, <2>5
  <2> QED BY <2>2, <2>3, <2>4, <2>6, Zenon DEF m, row
<1> QED BY <1>1, RelayAlways, PTL

(* A public transaction, or one of this node's own, is relayed again and again,
   for any times and order of the calls: the relay loop looks at it before its
   delay is over by more than max_relayable_check.                          *)
THEOREM RepeatSafety == Spec => []PublicIsRepeated
<1>1. RelayInv => PublicIsRepeated
  <2> SUFFICES ASSUME RelayInv, NEW t \in DOMAIN txpool, ~Waits(txpool[t]), Young(txpool[t])
               PROVE  \/ Pending(t) \/ m_next_check <= now
                      \/ IF txpool[t].last = Latest
                           THEN now - txpool[t].receive < CheckEvery
                           ELSE now - txpool[t].last < RelayDelay(txpool[t].receive) + CheckEvery
    BY Zenon DEF PublicIsRepeated
  <2> DEFINE row == txpool[t]
             d == Delay(now - row.receive)
  <2>1. row.last \in Nat /\ row.receive \in Nat /\ now \in Nat /\ m_next_check \in Nat
        /\ CheckEvery \in Nat
    BY TimeFacts DEF RelayInv, PoolType, Rows
  <2>2. row.relay # "stem" /\ row.receive <= now
    BY Zenon DEF RelayInv, ScheduleInv, RowOk, Waits
  <2>3. Looked(row, now, m_next_check) \/ InFlight(t)
    BY <2>2, Zenon DEF RelayInv, ScheduleInv, RowOk
  <2>4. InFlight(t) => Pending(t)
    BY FlightIsPending, Zenon
  <2>5. Looked(row, now, m_next_check) =>
          \/ m_next_check <= now
          \/ IF row.last = Latest THEN m_next_check <= row.receive + CheckEvery
                                  ELSE m_next_check <= row.last + d + CheckEvery
    BY Zenon DEF Looked
  <2>6. d \in Nat
    <3>1. now - row.receive \in Nat
      BY <2>1, <2>2
    <3> QED BY <3>1, DelayGrows
  <2>7. RelayDelay(row.receive) = d
    BY DelayIs, Zenon
  <2> HIDE DEF d, row
  <2>8. /\ m_next_check <= row.receive + CheckEvery => m_next_check <= now \/ now - row.receive < CheckEvery
        /\ m_next_check <= row.last + d + CheckEvery => m_next_check <= now \/ now - row.last < d + CheckEvery
    BY <2>1, <2>6
  <2>9. \/ Pending(t) \/ m_next_check <= now
        \/ IF row.last = Latest THEN now - row.receive < CheckEvery
                                ELSE now - row.last < RelayDelay(row.receive) + CheckEvery
    BY <2>3, <2>4, <2>5, <2>7, <2>8, Zenon
  <2> QED BY <2>9, Zenon DEF row
<1> QED BY <1>1, RelayAlways, PTL
=============================================================================
