-------------------------- MODULE BlockSyncProofs ---------------------------
(***************************************************************************)
(* Theorems about block synchronisation, for any peers, chains, bounds and *)
(* order of reservations, answers, flushes and losses.                     *)
(***************************************************************************)
EXTENDS BlockSync, TLAPS

(* The shape of spans and queues: an update of a field keeps the others.    *)
IsSpan(s) ==
  s = [start |-> s.start, n |-> s.n, conn |-> s.conn, hashes |-> s.hashes,
       blocks |-> s.blocks, late |-> s.late]
IsRecord(q) == q = [spans |-> q.spans, requested |-> q.requested, have |-> q.have]

(* What holds of the queue between any two operations. *)
QueueOk(q) == IsRecord(q) /\ (\A s \in q.spans : IsSpan(s)) /\ Covered(q)

(* A hash is one of a set of spans when some span of the set has it.        *)
LEMMA HashOf ==
  ASSUME NEW S, NEW h PROVE h \in Hashes(S) <=> \E s \in S : h \in Elems(s.hashes)
BY DEF Hashes

(* A span that add_blocks schedules.                                        *)
LEMMA SpanFacts ==
  ASSUME NEW a, NEW n, NEW c
  PROVE  IsSpan(Span(a, n, c)) /\ Span(a, n, c).start = a /\ Span(a, n, c).conn = c
         /\ Span(a, n, c).hashes = <<>>
BY DEF IsSpan, Span

(* set_span_hashes changes one field of a span.                             *)
LEMMA SpanHashes ==
  ASSUME NEW s, IsSpan(s), NEW x
  PROVE  /\ IsSpan([s EXCEPT !.hashes = x]) /\ [s EXCEPT !.hashes = x].start = s.start
         /\ [s EXCEPT !.hashes = x].conn = s.conn /\ [s EXCEPT !.hashes = x].hashes = x
BY DEF IsSpan

(* add_blocks fills a span.                                                 *)
LEMMA SpanBlocks ==
  ASSUME NEW s, IsSpan(s), NEW x
  PROVE  /\ IsSpan([s EXCEPT !.blocks = x]) /\ [s EXCEPT !.blocks = x].start = s.start
         /\ [s EXCEPT !.blocks = x].conn = s.conn /\ [s EXCEPT !.blocks = x].hashes = s.hashes
BY DEF IsSpan

(* reset_next_span_time and the time that goes by change its age.           *)
LEMMA SpanLate ==
  ASSUME NEW s, IsSpan(s), NEW x
  PROVE  /\ IsSpan([s EXCEPT !.late = x]) /\ [s EXCEPT !.late = x].start = s.start
         /\ [s EXCEPT !.late = x].conn = s.conn /\ [s EXCEPT !.late = x].hashes = s.hashes
BY DEF IsSpan

(* Changes of the spans, and of what is requested and there, are all there are
   of a queue.                                                              *)
LEMMA QueueUpdates ==
  ASSUME NEW q, IsRecord(q), NEW S, NEW R
  PROVE  /\ [q EXCEPT !.spans = S] = [spans |-> S, requested |-> q.requested, have |-> q.have]
         /\ [q EXCEPT !.spans = S, !.requested = R]
              = [spans |-> S, requested |-> R, have |-> q.have]
         /\ [q EXCEPT !.requested = S, !.have = R]
              = [spans |-> q.spans, requested |-> S, have |-> R]
<1>1. ASSUME NEW u, u = [q EXCEPT !.spans = S]
      PROVE  IsRecord(u) /\ u.spans = S /\ u.requested = q.requested /\ u.have = q.have
  BY <1>1, Zenon DEF IsRecord
<1>2. ASSUME NEW u, u = [q EXCEPT !.spans = S, !.requested = R]
      PROVE  IsRecord(u) /\ u.spans = S /\ u.requested = R /\ u.have = q.have
  BY <1>2, Zenon DEF IsRecord
<1>3. ASSUME NEW u, u = [q EXCEPT !.requested = S, !.have = R]
      PROVE  IsRecord(u) /\ u.spans = q.spans /\ u.requested = S /\ u.have = R
  BY <1>3, Zenon DEF IsRecord
<1> QED BY <1>1, <1>2, <1>3, ZenonT(60) DEF IsRecord

(* erase_block takes the hashes of the spans along.                         *)
LEMMA EraseIsOk ==
  ASSUME NEW q, QueueOk(q), NEW S PROVE QueueOk(erase_block(q, S))
<1>1. IsRecord(erase_block(q, S)) /\ \A s \in erase_block(q, S).spans : IsSpan(s)
  BY DEF QueueOk, IsRecord, erase_block
<1>2. ASSUME NEW h, h \in q.requested \/ h \in q.have, h \notin Hashes(S)
      PROVE  h \in Hashes(q.spans \ S)
  <2>1. h \in Hashes(q.spans)
    BY <1>2 DEF QueueOk, Covered
  <2> QED BY <1>2, <2>1, HashOf
<1> QED BY <1>1, <1>2, Zenon DEF QueueOk, Covered, erase_block

(* A flush takes spans of a connection, or of lost ones; remove_spans those up
   to a height.                                                             *)
LEMMA FlushIsOk ==
  ASSUME NEW q, QueueOk(q), NEW c, NEW x
  PROVE  /\ QueueOk(flush_spans(q, c, x)) /\ QueueOk(flush_stale_spans(q, x))
         /\ QueueOk(remove_spans(q, c, x))
BY EraseIsOk DEF flush_spans, flush_stale_spans, remove_spans

(* set_span_hashes, when all hashes but those it is about to set are covered. *)
LEMMA SetHashesIsOk ==
  ASSUME NEW q, IsRecord(q), \A s \in q.spans : IsSpan(s), NEW start, NEW c, NEW hs,
         \A h : h \in q.requested \/ h \in q.have =>
                h \in Hashes(q.spans) \/
                (h \in Elems(hs) /\ \E s \in At(q, start) : s.conn = c)
  PROVE  QueueOk(set_span_hashes(q, start, c, hs))
<1> DEFINE own == {s \in At(q, start) : s.conn = c}
           e == erase_block(q, own)
           new == {[s EXCEPT !.hashes = hs] : s \in own}
           r == set_span_hashes(q, start, c, hs)
<1>1. CASE own = {}
  BY <1>1 DEF set_span_hashes, QueueOk, Covered
<1>2. CASE own # {}
  <2>1. IsRecord(e) /\ e.spans = q.spans \ own
        /\ e.requested = q.requested \ Hashes(own) /\ e.have = q.have \ Hashes(own)
    BY DEF erase_block, IsRecord
  <2>2. r = [e EXCEPT !.spans = e.spans \cup new, !.requested = e.requested \cup Elems(hs)]
    BY <1>2, Zenon DEF set_span_hashes
  <2>3. \A s \in own : IsSpan(s) /\ s \in q.spans
    BY DEF At
  <2> DEFINE S == e.spans \cup new
             R == e.requested \cup Elems(hs)
  <2>4. IsRecord(r) /\ r.spans = (q.spans \ own) \cup new
        /\ r.requested = (q.requested \ Hashes(own)) \cup Elems(hs)
        /\ r.have = q.have \ Hashes(own)
    <3> HIDE DEF e, r, S, R
    <3>1. IsRecord(r) /\ r.spans = S /\ r.requested = R /\ r.have = e.have
      <4>1. r = [e EXCEPT !.spans = S, !.requested = R]
        BY <2>2, SMTT(30) DEF S, R
      <4>2. r = [spans |-> S, requested |-> R, have |-> e.have]
        BY <2>1, <4>1, QueueUpdates, ZenonT(60)
      <4> QED BY <4>2 DEF IsRecord
    <3> QED BY <2>1, <3>1 DEF S, R
  <2> HIDE DEF e, r, S, R
  <2>5. \A s \in r.spans : IsSpan(s)
    <3>1. ASSUME NEW s \in own PROVE IsSpan([s EXCEPT !.hashes = hs])
      BY <2>3, SpanHashes
    <3> QED BY <2>4, <3>1
  <2>6. \A h \in Elems(hs) : h \in Hashes(r.spans)
    <3>1. PICK s \in own : TRUE
      BY <1>2
    <3>2. [s EXCEPT !.hashes = hs] \in r.spans /\ [s EXCEPT !.hashes = hs].hashes = hs
      BY <2>3, <2>4, SpanHashes, Zenon
    <3> QED BY <3>2, HashOf, Zenon
  <2>7. ASSUME NEW h, h \in q.requested \/ h \in q.have, h \notin Hashes(own)
        PROVE  h \in Hashes(r.spans)
    <3>1. CASE h \in Hashes(q.spans)
      <4>1. PICK s \in q.spans : h \in Elems(s.hashes)
        BY <3>1, HashOf, Zenon
      <4>2. s \notin own
        BY <2>7, <4>1, HashOf, Zenon
      <4> QED BY <2>4, <4>1, <4>2, HashOf, Zenon
    <3>2. CASE h \in Elems(hs)
      BY <2>6, <3>2
    <3> QED BY <2>7, <3>1, <3>2, Zenon
  <2>8. Covered(r)
    BY <2>4, <2>6, <2>7, Zenon DEF Covered
  <2> QED BY <2>4, <2>5, <2>8, Zenon DEF QueueOk, r
<1> QED BY <1>1, <1>2

(* A filled span takes over the hashes of the one at its height.            *)
LEMMA AddFilledIsOk ==
  ASSUME NEW q, QueueOk(q), NEW start, NEW blocks, NEW c
  PROVE  QueueOk(add_filled(q, start, blocks, c))
<1> DEFINE old == At(q, start)
           e == erase_block(q, old)
           new == [Span(start, Len(blocks), c) EXCEPT !.blocks = blocks]
           i == [e EXCEPT !.spans = Insert(@, new)]
           hs == (CHOOSE s \in old : TRUE).hashes
           j == [i EXCEPT !.requested = @ \cup Elems(hs), !.have = @ \cup Elems(hs)]
<1>1. add_filled(q, start, blocks, c) = IF old = {} THEN i ELSE set_span_hashes(j, start, c, hs)
  BY DEF add_filled
<1>2. IsSpan(new) /\ new.start = start /\ new.conn = c /\ new.hashes = <<>>
  <2>1. IsSpan(Span(start, Len(blocks), c))
    BY SpanFacts
  <2> DEFINE z == Span(start, Len(blocks), c)
  <2>2. z.start = start /\ z.conn = c /\ z.hashes = <<>>
    BY SpanFacts
  <2> HIDE DEF z
  <2> QED BY <2>1, <2>2, SpanBlocks, Zenon DEF z
<1>3. QueueOk(e) /\ e.spans = q.spans \ old
  BY EraseIsOk, Zenon DEF erase_block
<1>4. \A t \in e.spans : t.start # start
  BY <1>3 DEF At
<1> HIDE DEF new, e
<1>5. Insert(e.spans, new) = e.spans \cup {new}
  BY <1>2, <1>4 DEF Insert
<1>6. IsRecord(i) /\ i.spans = e.spans \cup {new} /\ i.requested = e.requested /\ i.have = e.have
  <2>1. i = [e EXCEPT !.spans = e.spans \cup {new}]
    BY <1>5
  <2>2. i = [spans |-> e.spans \cup {new}, requested |-> e.requested, have |-> e.have]
    BY <1>3, <2>1, QueueUpdates, Zenon DEF QueueOk
  <2> HIDE DEF i
  <2> QED BY <2>2 DEF IsRecord
<1>7. \A s \in i.spans : IsSpan(s)
  BY <1>2, <1>3, <1>6 DEF QueueOk
<1>8. \A h : h \in e.requested \/ h \in e.have => h \in Hashes(i.spans)
  BY <1>3, <1>6, HashOf, Zenon DEF QueueOk, Covered
<1> HIDE DEF i
<1>9. CASE old = {}
  <2>1. Covered(i)
    BY <1>6, <1>8, Zenon DEF Covered
  <2>2. QueueOk(i)
    BY <1>6, <1>7, <2>1, Zenon DEF QueueOk
  <2> QED BY <1>1, <1>9, <2>2, Zenon
<1>10. CASE old # {}
  <2> HIDE DEF hs
  <2>1. IsRecord(j) /\ j.spans = i.spans /\ j.requested = i.requested \cup Elems(hs)
        /\ j.have = i.have \cup Elems(hs)
    <3>1. j = [spans |-> i.spans, requested |-> i.requested \cup Elems(hs),
               have |-> i.have \cup Elems(hs)]
      <4> DEFINE R == i.requested \cup Elems(hs)
                 H == i.have \cup Elems(hs)
      <4>1. j = [i EXCEPT !.requested = R, !.have = H]
        OBVIOUS
      <4> HIDE DEF j, R, H
      <4>2. j = [spans |-> i.spans, requested |-> R, have |-> H]
        BY <1>6, <4>1, QueueUpdates, ZenonT(60)
      <4> QED BY <4>2 DEF R, H
    <3> HIDE DEF j
    <3> QED BY <3>1 DEF IsRecord
  <2> HIDE DEF j
  <2>2. new \in At(j, start)
    BY <1>2, <1>6, <2>1 DEF At
  <2>3. QueueOk(set_span_hashes(j, start, c, hs))
    <3>1. \A h : h \in j.requested \/ h \in j.have =>
                h \in Hashes(j.spans) \/
                (h \in Elems(hs) /\ \E s \in At(j, start) : s.conn = c)
      BY <1>2, <1>6, <1>8, <2>1, <2>2, Zenon
    <3>2. \A s \in j.spans : IsSpan(s)
      BY <1>7, <2>1, Zenon
    <3> QED BY <2>1, <3>1, <3>2, SetHashesIsOk
  <2> QED BY <1>1, <1>10, <2>3
<1> QED BY <1>9, <1>10

(* A span is scheduled for hashes that were not requested.                  *)
LEMMA ReserveIsOk ==
  ASSUME NEW q, QueueOk(q), NEW l, NEW m, NEW c, NEW needed
  PROVE  QueueOk(reserve_span(q, l, m, c, needed).q)
<1>1. ASSUME NEW start, NEW n, NEW hs
      PROVE  QueueOk(set_span_hashes(add_scheduled(q, start, n, c), start, c, hs))
  <2> DEFINE a == add_scheduled(q, start, n, c)
             S == Insert(q.spans, Span(start, n, c))
  <2>1. \A s \in S : s \in q.spans \/ s = Span(start, n, c)
    BY DEF Insert
  <2>2. q.spans \subseteq S
    BY DEF Insert
  <2>3. a = [q EXCEPT !.spans = S]
    BY Zenon DEF add_scheduled
  <2> HIDE DEF S, a
  <2>4. IsRecord(a) /\ a.spans = S /\ a.requested = q.requested /\ a.have = q.have
    <3>1. a = [spans |-> S, requested |-> q.requested, have |-> q.have]
      BY <2>3, QueueUpdates, Zenon DEF QueueOk
    <3> QED BY <3>1 DEF IsRecord
  <2>5. \A s \in a.spans : IsSpan(s)
    BY <2>1, <2>4, SpanFacts DEF QueueOk
  <2>6. \A h : h \in a.requested \/ h \in a.have => h \in Hashes(a.spans)
    BY <2>2, <2>4, HashOf, Zenon DEF QueueOk, Covered
  <2>7. QueueOk(set_span_hashes(a, start, c, hs))
    BY <2>4, <2>5, <2>6, SetHashesIsOk, Zenon
  <2> QED BY <2>7, Zenon DEF a
<1> QED BY <1>1 DEF reserve_span

(* Only the age of a span changes.                                          *)
LEMMA SetLateIsOk ==
  ASSUME NEW q, QueueOk(q), NEW late
  PROVE  QueueOk(SetLate(q, late))
<1> DEFINE New(s) == IF \A t \in q.spans : s.start <= t.start THEN [s EXCEPT !.late = late] ELSE s
           S == {New(s) : s \in q.spans}
<1>1. \A s \in q.spans : IsSpan(New(s)) /\ New(s).hashes = s.hashes
  BY SpanLate DEF QueueOk
<1>2. SetLate(q, late) = [q EXCEPT !.spans = S]
  BY Zenon DEF SetLate
<1>3. (\A s \in S : IsSpan(s)) /\ \A h : h \in Hashes(q.spans) => h \in Hashes(S)
  <2> HIDE DEF New
  <2> QED BY <1>1, HashOf
<1> HIDE DEF S
<1>4. SetLate(q, late) = [spans |-> S, requested |-> q.requested, have |-> q.have]
  BY <1>2, QueueUpdates, Zenon DEF QueueOk
<1> QED BY <1>3, <1>4 DEF QueueOk, Covered, IsRecord

-----------------------------------------------------------------------------
(* A connection is dropped, or found to be of no more use.                  *)
LEMMA DropIsOk ==
  ASSUME NEW q, QueueOk(q), NEW c, NEW all, NEW y, Drop(c, q, all) \/ NoMoreFrom(c, q, y)
  PROVE  QueueOk(queue')
BY FlushIsOk, Zenon DEF Drop, NoMoreFrom

(* The queue after any step is the one before it or what one of its operations
   made of it (the locked sections of the handlers, timers and closing
   connections).                                                            *)
LEMMA QueueStaysOk ==
  ASSUME QueueOk(queue), [Next]_vars PROVE QueueOk(queue')
<1>1. CASE UNCHANGED vars
  BY <1>1 DEF vars
<1>2. ASSUME NEW c \in Conns,
             \/ TryLock(c) \/ AddBlock(c) \/ AfterAdding(c) \/ ForceNext(c)
             \/ Connect(c) \/ TimedSync(c) \/ kick_idle_peers(c) \/ check_standby_peers(c) \/ Lose(c)
      PROVE  QueueOk(queue')
  BY <1>2, Zenon DEF TryLock, AddBlock, AfterAdding, ForceNext, Connect, TimedSync, kick_idle_peers,
              check_standby_peers, Lose
<1>3. ASSUME NEW c \in Conns, Close(c) PROVE QueueOk(queue')
  BY <1>3, FlushIsOk, Zenon DEF Close
<1>4. ASSUME NEW c \in Conns, on_callback(c) PROVE QueueOk(queue')
  <2>1. queue' = queue \/ queue' = flush_spans(queue, c, FALSE)
    BY <1>4, Zenon DEF on_callback
  <2> QED BY <2>1, FlushIsOk, Zenon
<1>5. ASSUME NEW c \in Conns, handle_response_chain_entry(c) PROVE QueueOk(queue')
  BY <1>5, DropIsOk, Zenon DEF handle_response_chain_entry
<1>6. ASSUME NEW c \in Conns, handle_response_get_objects(c) PROVE QueueOk(queue')
  <2>1. Drop(c, queue, FALSE) \/ \E m : queue' = add_filled(queue, HeightOf[m.blocks[1]], m.blocks, c)
    BY <1>6, Zenon DEF handle_response_get_objects
  <2> QED BY <2>1, DropIsOk, AddFilledIsOk, Zenon
<1>7. ASSUME NEW c \in Conns, NextSpan(c) PROVE QueueOk(queue')
  BY <1>7, FlushIsOk, Zenon DEF NextSpan
<1>8. ASSUME NEW c \in Conns, RemoveAdded(c) PROVE QueueOk(queue')
  BY <1>8, FlushIsOk DEF RemoveAdded
<1>9. ASSUME NEW c \in Conns, FailSpan(c) PROVE QueueOk(queue')
  BY <1>9, FlushIsOk, Zenon DEF FailSpan
<1>10. ASSUME NEW c \in Conns, Request(c) PROVE QueueOk(queue')
  <2> DEFINE q == flush_stale_spans(queue, {d \in Conns : Open(d)})
  <2>1. QueueOk(q)
    BY FlushIsOk
  <2>2. PICK early \in BOOLEAN, wedged \in BOOLEAN : Decide(c, early, wedged)
    BY <1>10, Zenon DEF Request
  <2>3. queue' = q \/ Drop(c, q, FALSE) \/ \E y : NoMoreFrom(c, q, y)
    BY <2>2, Zenon DEF Decide
  <2> QED BY <2>1, <2>3, DropIsOk, Zenon
<1>11. ASSUME NEW c \in Conns, ResetNextSpanTime(c) PROVE QueueOk(queue')
  BY <1>11, SetLateIsOk, Zenon DEF ResetNextSpanTime, reset_next_span_time
<1>12. ASSUME NEW c \in Conns, Reserve(c) PROVE QueueOk(queue')
  <2>1. \/ queue' = queue \/ Drop(c, queue, FALSE) \/ \E y : NoMoreFrom(c, queue, y)
        \/ \E y : queue' = reserve_span(queue, y.lrh, SyncSize, c, y.needed).q
    BY <1>12, Zenon DEF Reserve
  <2> QED BY <2>1, DropIsOk, ReserveIsOk, Zenon
<1>13. ASSUME NEW c \in Conns, NeedHashes(c) PROVE QueueOk(queue')
  BY <1>13, DropIsOk, Zenon DEF NeedHashes
<1>14. CASE Age
  BY <1>14, SetLateIsOk, Zenon DEF Age
<1> QED BY <1>1, <1>2, <1>3, <1>4, <1>5, <1>6, <1>7, <1>8, <1>9, <1>10, <1>11, <1>12, <1>13, <1>14, Zenon
        DEF Next, Handler, Receive, Timer

(* No hash stays requested, or counted as downloaded, that no queued span
   covers, whatever spans are reserved, asked for twice, filled, flushed and
   removed (erase_block, set_span_hashes, add_blocks, reserve_span).        *)
THEOREM CoverSafety == Spec => []RequestedIsCovered
<1>1. Init => QueueOk(queue)
  BY DEF Init, EmptyQueue, QueueOk, IsRecord, Covered
<1>2. QueueOk(queue) /\ [Next]_vars => QueueOk(queue)'
  BY QueueStaysOk, Zenon
<1>3. QueueOk(queue) => RequestedIsCovered
  BY Zenon DEF QueueOk, RequestedIsCovered
<1> QED BY <1>1, <1>2, <1>3, PTL DEF Spec

-----------------------------------------------------------------------------
(* The fields of a context and of a handler. *)
CtxFields ==
  {"link", "state", "needed", "lrh", "requested", "expect", "eheight", "timed", "cb", "kicked",
   "anew", "last", "numreq", "score", "cut"}
ThreadFields == {"pc", "via", "force", "span", "i"}
IsCtx(x) == DOMAIN x = CtxFields
IsThread(t) == DOMAIN t = ThreadFields

(* Something is left to move a connection on that is synchronising. *)
Awake(x) == x.link = "open" /\ x.state = "sync" => x.timed \/ x.cb \/ x.cut

(* What a locked section leaves of a connection. *)
IsLeft(x, t) == IsCtx(x) /\ IsThread(t) /\ (t.pc = "idle" => Awake(x))

ConnInv ==
  /\ DOMAIN ctx = Conns /\ DOMAIN th = Conns
  /\ \A c \in Conns : IsLeft(ctx[c], th[c])

(* The other connections are as they were. *)
LEMMA SetKeeps ==
  ASSUME ConnInv, NEW c \in Conns, NEW x, NEW t, IsLeft(x, t), Set(c, x, t)
  PROVE  ConnInv'
BY Zenon DEF ConnInv, Set

(* A step of a handler that goes on. *)
LEMMA CtxKeeps ==
  ASSUME ConnInv, NEW c \in Conns, NEW x, IsLeft(x, th[c]),
         ctx' = [ctx EXCEPT ![c] = x], UNCHANGED th
  PROVE  ConnInv'
BY DEF ConnInv

(* A step of a handler that leaves the context alone. *)
LEMMA ThreadKeeps ==
  ASSUME ConnInv, NEW c \in Conns, NEW t, IsLeft(ctx[c], t),
         th' = [th EXCEPT ![c] = t], UNCHANGED ctx
  PROVE  ConnInv'
BY DEF ConnInv

(* A handler that has returned. *)
LEMMA IdleShape == IsThread(IdleThread) /\ IdleThread.pc = "idle"
BY Zenon DEF IsThread, ThreadFields, IdleThread

(* A handler may return with something left to wake its connection. *)
LEMMA ReturnKeeps ==
  ASSUME ConnInv, NEW c \in Conns, NEW x, IsCtx(x), Awake(x), Return(c, x)
  PROVE  ConnInv'
<1> DEFINE y == [x EXCEPT !.numreq = @ /\ th[c].via # "chain"]
<1>1. IsCtx(y) /\ Awake(y)
  BY DEF IsCtx, Awake, CtxFields
<1> HIDE DEF y
<1>2. IsLeft(y, IdleThread)
  BY <1>1, IdleShape, Zenon DEF IsLeft
<1>3. Set(c, y, IdleThread)
  BY Zenon DEF Return, y
<1> QED BY <1>2, <1>3, SetKeeps, Zenon

(* drop_connection closes the connection. *)
LEMMA DropKeeps ==
  ASSUME ConnInv, NEW c \in Conns, NEW q, NEW all, Drop(c, q, all)
  PROVE  ConnInv'
<1> DEFINE y == [ctx[c] EXCEPT !.link = "closing"]
<1>1. IsCtx(y) /\ Awake(y)
  BY Zenon DEF IsCtx, Awake, CtxFields, ConnInv, IsLeft
<1> HIDE DEF y
<1>2. IsLeft(y, IdleThread)
  BY <1>1, IdleShape, Zenon DEF IsLeft
<1>3. Set(c, y, IdleThread)
  BY Zenon DEF Drop, y
<1> QED BY <1>2, <1>3, SetKeeps, Zenon

(* A request notes its time. *)
LEMMA AskIsAwake ==
  ASSUME NEW x, IsCtx(x), NEW f, NEW start, NEW hs
  PROVE  /\ IsCtx(AskChain(x, f)) /\ Awake(AskChain(x, f))
         /\ IsCtx(AskObjects(x, start, hs)) /\ Awake(AskObjects(x, start, hs))
         /\ \A n : LET z == [AskObjects(x, start, hs) EXCEPT !.needed = n] IN IsCtx(z) /\ Awake(z)
BY DEF IsCtx, Awake, AskChain, AskObjects, CtxFields

(* Only a connection in state_synchronizing needs waking; one in standby is
   called back (check_standby_peers). *)
LEMMA StateUpdates ==
  ASSUME NEW x, IsCtx(x)
  PROVE  /\ \A v : IsCtx([x EXCEPT !.state = v]) /\ [x EXCEPT !.state = v].state = v
         /\ \A v : v # "sync" => Awake([x EXCEPT !.state = v])
         /\ IsCtx(WithCallback([x EXCEPT !.state = "standby"]))
         /\ Awake(WithCallback([x EXCEPT !.state = "standby"]))
BY DEF IsCtx, Awake, WithCallback, CtxFields

(* skip_unneeded_hashes changes what is needed and the last known hash. *)
LEMMA SkipShape ==
  ASSUME NEW x, IsCtx(x), NEW b PROVE IsCtx(Skip(x, b))
BY Zenon DEF IsCtx, Skip

(* process_payload_sync_data asks for a callback, or for nothing more. *)
LEMMA SyncDataKeeps ==
  ASSUME ConnInv, NEW c \in Conns, NEW x, IsCtx(x), SyncData(c, x), UNCHANGED th
  PROVE  ConnInv'
<1> DEFINE n == [x EXCEPT !.state = "normal"]
           s == [x EXCEPT !.state = "sync", !.cb = TRUE, !.numreq = FALSE]
<1>1. IsCtx(n) /\ Awake(n) /\ IsCtx(s) /\ Awake(s)
  BY DEF IsCtx, Awake, CtxFields
<1> HIDE DEF n, s
<1>2. ctx' = [ctx EXCEPT ![c] = n] \/ ctx' = [ctx EXCEPT ![c] = s]
  BY Zenon DEF SyncData, n, s
<1>3. IsLeft(n, th[c]) /\ IsLeft(s, th[c])
  BY <1>1, Zenon DEF ConnInv, IsLeft
<1> QED BY <1>2, <1>3, CtxKeeps, Zenon

(* A peer of no more use to request_missing_objects is dropped or normal. *)
LEMMA NoMoreKeeps ==
  ASSUME ConnInv, NEW c \in Conns, NEW q, NEW y, IsCtx(y), NoMoreFrom(c, q, y)
  PROVE  ConnInv'
<1>1. IsCtx([y EXCEPT !.state = "normal"]) /\ Awake([y EXCEPT !.state = "normal"])
  BY StateUpdates, Zenon
<1>2. Drop(c, q, FALSE) \/ Return(c, [y EXCEPT !.state = "normal"])
  BY Zenon DEF NoMoreFrom
<1> QED BY <1>1, <1>2, DropKeeps, ReturnKeeps, Zenon

(* What happens to a connection by itself, and the steps of a handler that
   leave its context alone.                                                 *)
LEMMA TimersKeep ==
  ASSUME ConnInv, NEW c \in Conns, Timer(c) \/ Lose(c) PROVE ConnInv'
<1>1. IsCtx(Fresh("open")) /\ IsCtx(Fresh("gone")) /\ Fresh("gone").link = "gone"
  BY Zenon DEF Fresh, IsCtx, CtxFields
<1>2. IsLeft(ctx[c], th[c])
  BY Zenon DEF ConnInv
<1>3. CASE Connect(c)
  BY <1>1, <1>3, SyncDataKeeps, Zenon DEF Connect
<1>4. CASE TimedSync(c)
  BY <1>2, <1>4, SyncDataKeeps, Zenon DEF TimedSync, IsLeft
<1>5. CASE Lose(c)
  <2>1. ctx' = [ctx EXCEPT ![c] = [ctx[c] EXCEPT !.link = "closing"]]
    BY <1>5, Zenon DEF Lose
  <2>2. IsLeft([ctx[c] EXCEPT !.link = "closing"], th[c])
    BY <1>2 DEF IsLeft, IsCtx, Awake, CtxFields
  <2> QED BY <1>5, <2>1, <2>2, CtxKeeps, ZenonT(60) DEF Lose
<1>6. CASE Close(c)
  <2>1. IsLeft(Fresh("gone"), th[c])
    BY <1>1, <1>2, Zenon DEF IsLeft, Awake
  <2> QED BY <1>6, <2>1, CtxKeeps, Zenon DEF Close
<1>7. CASE kick_idle_peers(c)
  <2>1. ctx' = [ctx EXCEPT ![c] = [ctx[c] EXCEPT !.kicked = TRUE, !.anew = FALSE, !.cb = TRUE]]
    BY <1>7, Zenon DEF kick_idle_peers, ConnInv
  <2>2. IsLeft([ctx[c] EXCEPT !.kicked = TRUE, !.anew = FALSE, !.cb = TRUE], th[c])
    BY <1>2 DEF IsLeft, IsCtx, Awake, CtxFields
  <2> QED BY <1>7, <2>1, <2>2, CtxKeeps, Zenon DEF kick_idle_peers
<1>8. CASE check_standby_peers(c)
  <2>1. ctx' = [ctx EXCEPT ![c] = [ctx[c] EXCEPT !.cb = TRUE]]
    BY <1>8, Zenon DEF check_standby_peers
  <2>2. IsLeft([ctx[c] EXCEPT !.cb = TRUE], th[c])
    BY <1>2 DEF IsLeft, IsCtx, Awake, CtxFields
  <2> QED BY <1>8, <2>1, <2>2, CtxKeeps, Zenon DEF check_standby_peers
<1> QED BY <1>3, <1>4, <1>5, <1>6, <1>7, <1>8, ZenonT(60) DEF Timer

(* on_callback asks for the chain, tries to add blocks, waits in standby, drops
   the connection, or leaves a request on its way.                          *)
LEMMA CallbackKeeps ==
  ASSUME ConnInv, NEW c \in Conns, on_callback(c) PROVE ConnInv'
<1> DEFINE x == [ctx[c] EXCEPT !.cb = FALSE, !.kicked = FALSE, !.anew = FALSE]
           z == [x EXCEPT !.score = @ - 1, !.timed = FALSE, !.expect = "none",
                          !.eheight = 0, !.state = "standby"]
           try == [IdleThread EXCEPT !.pc = "try", !.via = "callback"]
           gone == [x EXCEPT !.link = "closing"]
<1>1. IsCtx(ctx[c])
  BY Zenon DEF ConnInv, IsLeft
<1>2. IsCtx(x) /\ IsCtx(z) /\ IsCtx(gone) /\ Awake(gone)
  BY <1>1, Zenon DEF IsCtx, CtxFields, Awake
<1>3. IsThread(try) /\ try.pc = "try"
  BY Zenon DEF IsThread, ThreadFields, IdleThread
<1>4. \/ Set(c, gone, IdleThread)
      \/ \E y \in {x, z} :
           \/ Set(c, AskChain(y, None), IdleThread)
           \/ Set(c, [y EXCEPT !.state = "sync"], try)
           \/ (y.state = "sync" => y.timed) /\ Set(c, y, IdleThread)
  BY Zenon DEF on_callback
<1> HIDE DEF x, z, try, gone
<1>5. CASE Set(c, gone, IdleThread)
  BY <1>2, <1>5, IdleShape, SetKeeps, Zenon DEF IsLeft
<1>6. ASSUME NEW y, IsCtx(y), Set(c, AskChain(y, None), IdleThread) PROVE ConnInv'
  <2>1. IsLeft(AskChain(y, None), IdleThread)
    BY <1>6, IdleShape, AskIsAwake, Zenon DEF IsLeft
  <2> QED BY <1>6, <2>1, SetKeeps, Zenon
<1>7. ASSUME NEW y, IsCtx(y), Set(c, [y EXCEPT !.state = "sync"], try) PROVE ConnInv'
  <2>1. IsLeft([y EXCEPT !.state = "sync"], try)
    BY <1>3, <1>7, StateUpdates, Zenon DEF IsLeft
  <2> QED BY <1>7, <2>1, SetKeeps, Zenon
<1>8. ASSUME NEW y, IsCtx(y), y.state = "sync" => y.timed, Set(c, y, IdleThread) PROVE ConnInv'
  <2>1. IsLeft(y, IdleThread)
    BY <1>8, IdleShape, Zenon DEF IsLeft, Awake
  <2> QED BY <1>8, <2>1, SetKeeps, Zenon
<1> QED BY <1>2, <1>4, <1>5, <1>6, <1>7, <1>8, Zenon

(* An answer is taken by a handler that goes on, or ends the connection. *)
LEMMA ReceiveKeeps ==
  ASSUME ConnInv, NEW c \in Conns, Receive(c) PROVE ConnInv'
<1>1. IsCtx(ctx[c])
  BY DEF ConnInv, IsLeft
<1>2. ASSUME NEW y, IsCtx(y), NEW p, NEW v, p # "idle",
             Set(c, y, [IdleThread EXCEPT !.pc = p, !.via = v])
      PROVE  ConnInv'
  <2>1. IsLeft(y, [IdleThread EXCEPT !.pc = p, !.via = v])
    BY <1>2 DEF IsLeft, IsThread, ThreadFields, IdleThread
  <2> QED BY <1>2, <2>1, SetKeeps, Zenon
<1>3. CASE handle_response_chain_entry(c)
  <2>1. \/ Drop(c, queue, FALSE)
        \/ \E l, n : Set(c, [ctx[c] EXCEPT !.expect = "none", !.timed = FALSE, !.lrh = l, !.needed = n],
                            [IdleThread EXCEPT !.pc = "request", !.via = "chain"])
    BY <1>3, Zenon DEF handle_response_chain_entry
  <2>2. \A l, n : IsCtx([ctx[c] EXCEPT !.expect = "none", !.timed = FALSE, !.lrh = l, !.needed = n])
    BY <1>1, SMTT(30) DEF IsCtx
  <2> QED BY <1>2, <2>1, <2>2, DropKeeps, Zenon
<1>4. CASE handle_response_get_objects(c)
  <2>1. \/ Drop(c, queue, FALSE)
        \/ \E h : Set(c, [ctx[c] EXCEPT !.expect = "none", !.timed = FALSE, !.requested = {}, !.last = h],
                         [IdleThread EXCEPT !.pc = "try", !.via = "objects"])
    BY <1>4, Zenon DEF handle_response_get_objects
  <2>2. \A h : IsCtx([ctx[c] EXCEPT !.expect = "none", !.timed = FALSE, !.requested = {}, !.last = h])
    BY <1>1, Zenon DEF IsCtx
  <2> QED BY <1>2, <2>1, <2>2, DropKeeps, Zenon
<1> QED BY <1>3, <1>4, Zenon DEF Receive

(* The loop of try_add_next_blocks is left for request_missing_objects, or by
   one of its early returns.                                                *)
LEMMA AddingKeeps ==
  ASSUME ConnInv, NEW c \in Conns,
         \/ TryLock(c) \/ NextSpan(c) \/ AddBlock(c) \/ RemoveAdded(c) \/ FailSpan(c) \/ AfterAdding(c)
  PROVE  ConnInv'
<1>1. IsLeft(ctx[c], th[c])
  BY DEF ConnInv
<1>2. ASSUME NEW t, IsThread(t), t.pc # "idle", th' = [th EXCEPT ![c] = t], UNCHANGED ctx
      PROVE  ConnInv'
  <2>1. IsLeft(ctx[c], t)
    BY <1>1, <1>2, Zenon DEF IsLeft
  <2> QED BY <1>2, <2>1, ThreadKeeps, Zenon
<1>3. CASE TryLock(c)
  <2>1. \E p \in {"loop", "request"} : th' = [th EXCEPT ![c] = [th[c] EXCEPT !.pc = p]]
    BY <1>3 DEF TryLock
  <2>2. \A p \in {"loop", "request"} :
          IsThread([th[c] EXCEPT !.pc = p]) /\ [th[c] EXCEPT !.pc = p].pc # "idle"
    BY <1>1 DEF IsLeft, IsThread, ThreadFields
  <2> QED BY <1>2, <1>3, <2>1, <2>2, Zenon DEF TryLock
<1>4. CASE NextSpan(c)
  <2> DEFINE x == [ctx[c] EXCEPT !.needed = <<>>, !.lrh = 0]
  <2>1. \/ /\ \E p \in {"after", "request"} : th' = [th EXCEPT ![c] = [th[c] EXCEPT !.pc = p]]
           /\ UNCHANGED ctx
        \/ UNCHANGED <<ctx, th>>
        \/ Set(c, x, [th[c] EXCEPT !.pc = "request"])
        \/ \E s : /\ th' = [th EXCEPT ![c] = [th[c] EXCEPT !.pc = "add", !.span = s, !.i = 1]]
                  /\ UNCHANGED ctx
    BY <1>4, ZenonT(60) DEF NextSpan, Set, ConnInv
  <2>2. /\ \A p \in {"after", "request"} :
             IsThread([th[c] EXCEPT !.pc = p]) /\ [th[c] EXCEPT !.pc = p].pc # "idle"
        /\ \A s : LET t == [th[c] EXCEPT !.pc = "add", !.span = s, !.i = 1]
                   IN  IsThread(t) /\ t.pc # "idle"
    BY <1>1 DEF IsLeft, IsThread, ThreadFields
  <2>3. IsCtx(x)
    BY <1>1 DEF IsLeft, IsCtx
  <2>4. IsLeft(x, [th[c] EXCEPT !.pc = "request"])
    BY <2>2, <2>3, Zenon DEF IsLeft
  <2>5. CASE UNCHANGED <<ctx, th>>
    BY <2>5 DEF ConnInv
  <2> QED BY <1>2, <2>1, <2>2, <2>4, <2>5, SetKeeps, ZenonT(60)
<1>5. CASE AddBlock(c)
  <2>1. \/ \E p \in {"fail", "remove"} : th' = [th EXCEPT ![c] = [th[c] EXCEPT !.pc = p]]
        \/ \E i : th' = [th EXCEPT ![c] = [th[c] EXCEPT !.i = i]]
    BY <1>5, ZenonT(60) DEF AddBlock
  <2>2. /\ \A p \in {"fail", "remove"} :
             IsThread([th[c] EXCEPT !.pc = p]) /\ [th[c] EXCEPT !.pc = p].pc # "idle"
        /\ \A i : IsThread([th[c] EXCEPT !.i = i]) /\ [th[c] EXCEPT !.i = i].pc # "idle"
    BY <1>1, <1>5, Zenon DEF IsLeft, IsThread, ThreadFields, AddBlock, Pc
  <2>3. UNCHANGED ctx
    BY <1>5, Zenon DEF AddBlock
  <2> QED BY <1>2, <2>1, <2>2, <2>3, Zenon
<1>6. CASE RemoveAdded(c)
  <2> DEFINE t == [th[c] EXCEPT !.pc = "loop", !.span = NoSpan, !.i = 0]
  <2>1. th' = [th EXCEPT ![c] = t] /\ UNCHANGED ctx
    BY <1>6, Zenon DEF RemoveAdded, ConnInv
  <2>2. IsThread(t) /\ t.pc # "idle"
    BY <1>1, Zenon DEF IsLeft, IsThread, ThreadFields
  <2> QED BY <1>2, <2>1, <2>2, Zenon
<1>7. CASE AfterAdding(c)
  <2> DEFINE t == [th[c] EXCEPT !.pc = "request", !.force = ShouldDownload(c, FALSE)]
  <2>1. th' = [th EXCEPT ![c] = t] /\ UNCHANGED ctx
    BY <1>7, Zenon DEF AfterAdding, ConnInv
  <2>2. IsThread(t) /\ t.pc # "idle"
    BY <1>1, ZenonT(60) DEF IsLeft, IsThread, ThreadFields
  <2> QED BY <1>2, <2>1, <2>2, Zenon
<1>8. CASE FailSpan(c)
  <2> DEFINE d == th[c].span.conn
             l == IF Open(d) THEN "closing" ELSE ctx[d].link
  <2>1. ctx' = [ctx EXCEPT ![c].cut = TRUE, ![d].link = IF Open(d) THEN "closing" ELSE @]
        /\ th' = [th EXCEPT ![c] = IdleThread]
    BY <1>8, Zenon DEF FailSpan
  <2>2. /\ \A e \in Conns : IsCtx(ctx'[e]) /\ (Awake(ctx[e]) => Awake(ctx'[e]))
        /\ ctx'[c].cut
    <3> DEFINE u == [ctx EXCEPT ![c] = [ctx[c] EXCEPT !.cut = TRUE]]
    <3>1. DOMAIN u = Conns /\ \A e \in Conns : IsCtx(u[e]) /\ (Awake(ctx[e]) => Awake(u[e]))
      BY DEF ConnInv, IsLeft, IsCtx, Awake, CtxFields
    <3>2. u[c].cut
      BY DEF ConnInv, IsLeft, IsCtx, CtxFields
    <3> DEFINE m == IF Open(d) THEN "closing" ELSE u[d].link
    <3>3. ctx' = [u EXCEPT ![d] = [u[d] EXCEPT !.link = m]]
      <4> HIDE DEF d
      <4> QED BY <2>1, Zenon
    <3> HIDE DEF u, d, m
    <3>4. d \in Conns => m = "closing" \/ m = u[d].link
      BY Zenon DEF m
    <3> QED BY <3>1, <3>2, <3>3, <3>4 DEF IsCtx, Awake, CtxFields
  <2>3. DOMAIN ctx' = Conns /\ DOMAIN th' = Conns
        /\ \A e \in Conns : th'[e] = IF e = c THEN IdleThread ELSE th[e]
    BY <2>1, Zenon DEF ConnInv
  <2>4. Awake(ctx'[c])
    BY <2>2, Zenon DEF Awake
  <2> QED BY <2>2, <2>3, <2>4, IdleShape, SMTT(30) DEF ConnInv, IsLeft
<1> QED BY <1>3, <1>4, <1>5, <1>6, <1>7, <1>8, ZenonT(60)

(* request_missing_objects returns with a request on its way, with a connection
   in normal or standby, or without the connection.                         *)
LEMMA RequestKeeps ==
  ASSUME ConnInv, NEW c \in Conns, Request(c) PROVE ConnInv'
<1> DEFINE q == flush_stale_spans(queue, {d \in Conns : Open(d)})
           x == ctx[c]
           y == Skip(x, TRUE)
           Goes(p) == [th[c] EXCEPT !.pc = p, !.force = p = "force"]
           standby == [y EXCEPT !.state = "standby"]
<1>1. IsCtx(x) /\ IsCtx(y) /\ IsThread(th[c])
  BY SkipShape, Zenon DEF ConnInv, IsLeft
<1>2. PICK early \in BOOLEAN, wedged \in BOOLEAN : Decide(c, early, wedged)
  BY Zenon DEF Request
<1>3. \/ \E p \in {"force", "chain", "reserve"} :
          Set(c, x, Goes(p)) \/ Set(c, [y EXCEPT !.state = "sync"], Goes(p))
      \/ NoMoreFrom(c, q, y)
      \/ Return(c, WithCallback(standby)) \/ Return(c, standby)
      \/ Drop(c, q, FALSE)
  BY <1>2, Zenon DEF Decide
<1>4. \A p \in {"force", "chain", "reserve"} : IsThread(Goes(p)) /\ Goes(p).pc # "idle"
  BY <1>1, Zenon DEF IsThread, ThreadFields
<1>5. IsCtx([y EXCEPT !.state = "sync"]) /\ IsCtx(standby) /\ Awake(standby)
      /\ IsCtx(WithCallback(standby)) /\ Awake(WithCallback(standby))
  <2> HIDE DEF y
  <2> QED BY <1>1, StateUpdates
<1>6. \A p \in {"force", "chain", "reserve"} :
         IsLeft(x, Goes(p)) /\ IsLeft([y EXCEPT !.state = "sync"], Goes(p))
  BY <1>1, <1>4, <1>5, Zenon DEF IsLeft
<1> HIDE DEF q, x, y, Goes, standby
<1> QED BY <1>1, <1>3, <1>5, <1>6, SetKeeps, NoMoreKeeps, ReturnKeeps, DropKeeps, Zenon

(* A reserved span is asked for, with its time noted; the other ends of
   request_missing_objects are those above.                                 *)
LEMMA ReserveKeeps ==
  ASSUME ConnInv, NEW c \in Conns, Reserve(c) PROVE ConnInv'
<1> DEFINE x == ctx[c]
           y == Skip(x, FALSE)
           more == [x EXCEPT !.needed = <<>>, !.lrh = 0]
           t == [th[c] EXCEPT !.pc = "chain"]
           done == [y EXCEPT !.state = "normal"]
<1>1. IsCtx(x) /\ IsCtx(y) /\ IsThread(th[c])
  BY SkipShape, Zenon DEF ConnInv, IsLeft
<1>2. \/ Set(c, more, t)
      \/ NoMoreFrom(c, queue, y)
      \/ \E start, hs, n : Return(c, [AskObjects(y, start, hs) EXCEPT !.needed = n])
      \/ Return(c, done)
      \/ Drop(c, queue, FALSE)
  BY ZenonT(60) DEF Reserve
<1>3. IsLeft(more, t)
  <2>1. IsThread(t) /\ t.pc = "chain"
    BY <1>1, Zenon DEF IsThread, ThreadFields
  <2>2. IsCtx(more)
    BY <1>1 DEF IsCtx
  <2> QED BY <2>1, <2>2 DEF IsLeft
<1> HIDE DEF x, y, more, t
<1>4. IsCtx(done) /\ Awake(done)
  BY <1>1, StateUpdates, Zenon
<1>5. ASSUME NEW start, NEW hs, NEW n, Return(c, [AskObjects(y, start, hs) EXCEPT !.needed = n])
      PROVE  ConnInv'
  <2> DEFINE z == [AskObjects(y, start, hs) EXCEPT !.needed = n]
  <2>1. IsCtx(z) /\ Awake(z)
    BY <1>1, AskIsAwake, Zenon
  <2> HIDE DEF z
  <2> QED BY <1>5, <2>1, ReturnKeeps, Zenon DEF z
<1> HIDE DEF done
<1> QED BY <1>1, <1>2, <1>3, <1>4, <1>5, SetKeeps, NoMoreKeeps, ReturnKeeps, DropKeeps, Zenon

(* More hashes are asked for, or the connection goes to standby or normal, or
   is dropped.                                                              *)
LEMMA NeedHashesKeeps ==
  ASSUME ConnInv, NEW c \in Conns, NeedHashes(c) PROVE ConnInv'
<1> DEFINE x == [ctx[c] EXCEPT !.needed = <<>>]
           standby == [x EXCEPT !.state = "standby"]
           done == [x EXCEPT !.state = "normal"]
<1>1. IsCtx(x)
  BY DEF ConnInv, IsLeft, IsCtx
<1>2. \/ Return(c, WithCallback(standby)) \/ Return(c, AskChain(x, x.last))
      \/ Return(c, done) \/ Drop(c, queue, FALSE)
  BY Zenon DEF NeedHashes
<1> HIDE DEF x
<1>3. IsCtx(WithCallback(standby)) /\ Awake(WithCallback(standby)) /\ IsCtx(done) /\ Awake(done)
  BY <1>1, StateUpdates, Zenon
<1>4. IsCtx(AskChain(x, x.last)) /\ Awake(AskChain(x, x.last))
  BY <1>1, AskIsAwake, Zenon
<1> HIDE DEF standby, done
<1> QED BY <1>2, <1>3, <1>4, ReturnKeeps, DropKeeps, Zenon

(* The scheduled span asked for again; the exception of reset_next_span_time
   cuts a callback short and ends a connection that was reading.            *)
LEMMA ForceKeeps ==
  ASSUME ConnInv, NEW c \in Conns, ForceNext(c) \/ ResetNextSpanTime(c) PROVE ConnInv'
<1>1. IsCtx(ctx[c]) /\ IsThread(th[c])
  BY DEF ConnInv, IsLeft
<1>2. CASE ForceNext(c)
  <2>1. \/ Set(c, ctx[c], [th[c] EXCEPT !.pc = "reserve"])
        \/ \E s, r : Set(c, [ctx[c] EXCEPT !.requested = r], [th[c] EXCEPT !.pc = "reset", !.span = s])
    BY <1>2, Zenon DEF ForceNext
  <2>2. IsLeft(ctx[c], [th[c] EXCEPT !.pc = "reserve"])
    BY <1>1 DEF IsLeft, IsThread, ThreadFields
  <2>3. ASSUME NEW s, NEW r
        PROVE  IsLeft([ctx[c] EXCEPT !.requested = r], [th[c] EXCEPT !.pc = "reset", !.span = s])
    <3>1. IsCtx([ctx[c] EXCEPT !.requested = r])
      BY <1>1 DEF IsCtx
    <3>2. IsThread([th[c] EXCEPT !.pc = "reset", !.span = s])
          /\ [th[c] EXCEPT !.pc = "reset", !.span = s].pc # "idle"
      BY <1>1, Zenon DEF IsThread, ThreadFields
    <3> QED BY <3>1, <3>2, Zenon DEF IsLeft
  <2> QED BY <2>1, <2>2, <2>3, SetKeeps, Zenon
<1>3. CASE ResetNextSpanTime(c)
  <2> DEFINE s == th[c].span
             cut == [ctx[c] EXCEPT !.cut = TRUE]
             gone == [ctx[c] EXCEPT !.link = "closing"]
  <2>1. \/ Set(c, cut, IdleThread) \/ Set(c, gone, IdleThread)
        \/ Return(c, AskObjects(ctx[c], s.start, s.hashes))
    BY <1>3, Zenon DEF ResetNextSpanTime
  <2>2. IsCtx(cut) /\ Awake(cut) /\ IsCtx(gone) /\ Awake(gone)
    BY <1>1, Zenon DEF IsCtx, Awake, CtxFields
  <2>3. IsLeft(cut, IdleThread) /\ IsLeft(gone, IdleThread)
    BY <2>2, IdleShape, Zenon DEF IsLeft
  <2>4. IsCtx(AskObjects(ctx[c], s.start, s.hashes)) /\ Awake(AskObjects(ctx[c], s.start, s.hashes))
    BY <1>1, AskIsAwake, Zenon
  <2> HIDE DEF cut, gone
  <2> QED BY <2>1, <2>3, <2>4, SetKeeps, ReturnKeeps, Zenon
<1> QED BY <1>2, <1>3, Zenon

(* Every step of every connection, and the time that goes by.               *)
LEMMA ConnStays ==
  ASSUME ConnInv, [Next]_vars PROVE ConnInv'
<1>1. CASE UNCHANGED vars
  BY <1>1, Zenon DEF vars, ConnInv
<1>2. CASE Age
  BY <1>2 DEF Age, ConnInv
<1>3. ASSUME NEW c \in Conns, Handler(c) PROVE ConnInv'
  BY <1>3, AddingKeeps, RequestKeeps, ForceKeeps, ReserveKeeps, NeedHashesKeeps, Zenon DEF Handler
<1> QED BY <1>1, <1>2, <1>3, ReceiveKeeps, CallbackKeeps, TimersKeep, Zenon DEF Next

(* A connection that is synchronising is never left behind: between two calls it
   waits for an answer or for a callback, whichever handlers, kicks, timed syncs
   and losses came before, unless one of the two early ends of a handler cut it
   off (request_missing_objects, on_callback, kick_idle_peers).             *)
THEOREM WakeSafety == Spec => []NoneForgotten
<1>1. Init => ConnInv
  <2>1. IsCtx(Fresh("gone")) /\ Fresh("gone").link = "gone"
    BY DEF Fresh, IsCtx, CtxFields
  <2>2. IsLeft(Fresh("gone"), IdleThread)
    BY <2>1, IdleShape, Zenon DEF IsLeft, Awake
  <2> QED BY <2>2, ZenonT(60) DEF Init, ConnInv
<1>2. ConnInv /\ [Next]_vars => ConnInv'
  BY ConnStays, Zenon
<1>3. ConnInv => NoneForgotten
  BY DEF ConnInv, IsLeft, Awake, NoneForgotten, Open, Idle
<1> QED BY <1>1, <1>2, <1>3, PTL DEF Spec
=============================================================================
