----------------------------- MODULE BlockSync ------------------------------
(***************************************************************************)
(* Block synchronisation of the protocol handler: the connections of a     *)
(* node share the block download queue, the chain and m_sync_lock.  The    *)
(* handlers of one connection run one after the other, those of different  *)
(* connections interleave between the locked sections they consist of.     *)
(*                                                                         *)
(* A peer has a fixed chain and answers every request, in order; when an   *)
(* answer arrives is open.  The core is what Blockchain promises: a block  *)
(* whose parent is known is stored and the longest chain is followed.      *)
(* Peers are not pruned.                                                   *)
(***************************************************************************)
EXTENDS BlockQueue, FiniteSets

CONSTANTS
  Conns,      \* connections, each to a peer of its own
  Chain,      \* Chain[c]: the hashes of the peer's chain, genesis first
  Invalid,    \* blocks this node refuses
  Flaky,      \* peers that may answer after the kick time, or go away
  SyncSize,   \* count_limit: blocks asked for at once
  NSpans,     \* BLOCK_QUEUE_NSPANS_THRESHOLD, the size threshold being reached
  Near,       \* BLOCK_QUEUE_FORCE_DOWNLOAD_NEAR_BLOCKS
  None

Inf == 100   \* beyond every height
Hash == UNION {Elems(Chain[c]) : c \in Conns}
HeightOf == [h \in Hash |->
  CHOOSE k \in 0 .. Inf - 1 : \E c \in Conns : k < Len(Chain[c]) /\ Chain[c][k + 1] = h]
Parent == [h \in Hash |->
  IF HeightOf[h] = 0 THEN None
  ELSE Chain[CHOOSE c \in Conns : h \in Elems(Chain[c])][HeightOf[h]]]
Larger(a, b) == IF a > b THEN a ELSE b

ASSUME ChainAssumption ==
  /\ Flaky \subseteq Conns /\ Invalid \subseteq Hash
  /\ SyncSize \in Nat \ {0} /\ NSpans \in Nat /\ Near \in Nat
  /\ \A c \in Conns : Len(Chain[c]) \in 1 .. Inf - 1
  /\ \A c, d \in Conns : \A i \in DOMAIN Chain[c], j \in DOMAIN Chain[d] :
        Chain[c][i] = Chain[d][j] => i = j /\ SubSeq(Chain[c], 1, i) = SubSeq(Chain[d], 1, i)

VARIABLES
  queue,      \* m_block_queue
  sync_lock,  \* m_sync_lock: its owner or None
  known,      \* blocks of the main chain and its alternatives
  refused,    \* m_invalid_blocks
  tip,        \* top block of the main chain
  target,     \* m_target_blockchain_height
  ctx,        \* of each connection, its context
  th,         \* of each connection, where its handler is
  inbox       \* of each connection, answers on their way

vars == <<queue, sync_lock, known, refused, tip, target, ctx, th, inbox>>

height == HeightOf[tip] + 1
HaveBlock(h) == h \in known \cup refused
Remote(c) == Len(Chain[c])
Open(c) == ctx[c].link = "open"
Idle(c) == th[c].pc = "idle"
Pc(c, p) == th[c].pc = p
CallbackDue(c) == Idle(c) /\ ctx[c].cb
AnswerDue(c) == Open(c) /\ Idle(c) /\ inbox[c] # <<>>

(* A context.  lrh, last and eheight are m_last_response_height,
   m_last_known_hash and m_expect_height; timed: m_last_request_time is set;
   cb: a callback was requested; kicked: m_idle_peer_notification; numreq:
   m_num_requested is not 0.  anew: the last request is newer than the kick.
   cut is history: a handler returned early and left nothing to wake the
   connection.                                                              *)
Fresh(link) ==
  [link |-> link, state |-> "sync", needed |-> <<>>, lrh |-> 0, requested |-> {},
   expect |-> "none", eheight |-> 0, timed |-> FALSE, cb |-> FALSE, kicked |-> FALSE, anew |-> FALSE,
   last |-> None, numreq |-> FALSE, score |-> 0, cut |-> FALSE]
IdleThread == [pc |-> "idle", via |-> "none", force |-> FALSE, span |-> NoSpan, i |-> 0]

-----------------------------------------------------------------------------
(* How a locked section of c's handler leaves c: x is the context, t the
   handler.  A callback is asked for, and a message sent, on an open
   connection only.                                                        *)
Set(c, x, t) == ctx' = [ctx EXCEPT ![c] = x] /\ th' = [th EXCEPT ![c] = t]
WithCallback(x) == [x EXCEPT !.cb = @ \/ x.link = "open"]
Send(c, msg) == inbox' = IF Open(c) THEN [inbox EXCEPT ![c] = Append(@, msg)] ELSE inbox

(* The handler of c returns; the one of a chain entry has two things left to do. *)
Return(c, x) ==
  /\ Set(c, [x EXCEPT !.numreq = @ /\ th[c].via # "chain"], IdleThread)
  /\ target' = IF th[c].via = "chain" THEN Larger(target, Remote(c)) ELSE target

(* drop_connection *)
Drop(c, q, all) ==
  /\ queue' = flush_spans(q, c, all)
  /\ Set(c, [ctx[c] EXCEPT !.link = "closing"], IdleThread)
  /\ inbox' = [inbox EXCEPT ![c] = <<>>]
  /\ UNCHANGED target

(* NOTIFY_REQUEST_CHAIN, from the block front or else from the main chain, and
   the peer's answer (handle_request_chain).                                 *)
MainHashes == LET c == CHOOSE d \in Conns : tip \in Elems(Chain[d])
              IN  Elems(SubSeq(Chain[c], 1, height))
ChainEntry(c, front) ==
  LET common == {k \in 1 .. Remote(c) : Chain[c][k] \in MainHashes}
      k == IF front \in Elems(Chain[c]) THEN HeightOf[front] + 1
           ELSE CHOOSE i \in common : \A j \in common : j <= i
  IN  [type |-> "chain", start |-> k - 1, ids |-> SubSeq(Chain[c], k, Remote(c))]
AskChain(x, front) ==
  [x EXCEPT !.needed = <<>>, !.expect = "chain", !.timed = TRUE, !.anew = x.kicked,
            !.eheight = IF front \in {None, tip} THEN height ELSE Inf]

(* NOTIFY_REQUEST_GET_OBJECTS of the span that begins at start, and the blocks
   the peer has of it.                                                       *)
Objects(c, hashes) ==
  [type |-> "objects", blocks |-> SelectSeq(hashes, LAMBDA h : h \in Elems(Chain[c]))]
(* Mutant: the time of the request is not noted. *)
AskObjectsUntimed(x, start, hashes) ==
  [x EXCEPT !.requested = @ \cup Elems(hashes), !.expect = "objects", !.anew = x.kicked,
            !.eheight = start, !.numreq = TRUE]
AskObjects(x, start, hashes) ==
  [x EXCEPT !.requested = @ \cup Elems(hashes), !.expect = "objects", !.timed = TRUE, !.anew = x.kicked,
            !.eheight = start, !.numreq = TRUE]

(* process_payload_sync_data, at the handshake and with every timed sync. *)
SyncData(c, x) ==
  LET top == Chain[c][Remote(c)]
      t == IF target = 0 THEN height ELSE target
  IN  IF HaveBlock(top)
      THEN /\ ctx' = [ctx EXCEPT ![c] = [x EXCEPT !.state = "normal"]]
           /\ UNCHANGED target
      ELSE /\ ctx' = [ctx EXCEPT ![c] = [x EXCEPT !.state = "sync", !.cb = TRUE, !.numreq = FALSE]]
           /\ target' = IF Remote(c) > t THEN Remote(c) ELSE target

Connect(c) ==
  /\ ctx[c].link = "gone"
  /\ SyncData(c, Fresh("open"))
  /\ UNCHANGED <<queue, sync_lock, known, refused, tip, th, inbox>>

TimedSync(c) ==
  /\ Open(c) /\ Idle(c) /\ ctx[c].state # "sync"
  /\ SyncData(c, ctx[c])
  /\ UNCHANGED <<queue, sync_lock, known, refused, tip, th, inbox>>

(* The peer goes away. *)
Lose(c) ==
  /\ c \in Flaky /\ Open(c)
  /\ ctx' = [ctx EXCEPT ![c].link = "closing"]
  /\ inbox' = [inbox EXCEPT ![c] = <<>>]
  /\ UNCHANGED <<queue, sync_lock, known, refused, tip, target, th>>

(* on_connection_close, when no handler or callback needs the connection. *)
Close(c) ==
  /\ ctx[c].link = "closing" /\ Idle(c) /\ ~ctx[c].cb
  /\ LET others == {0} \cup {Remote(d) : d \in {e \in Conns \ {c} : Open(e)}}
         t == CHOOSE n \in others : \A k \in others : k <= n
     IN  target' = IF t < target THEN t ELSE target
  /\ queue' = flush_spans(queue, c, FALSE)
  /\ ctx' = [ctx EXCEPT ![c] = Fresh("gone")]
  /\ UNCHANGED <<sync_lock, known, refused, tip, th, inbox>>

(* Timers: kick_idle_peers and check_standby_peers. *)
kick_idle_peers(c) ==
  /\ c \in Flaky /\ Open(c) /\ ctx[c].state = "sync" /\ ctx[c].timed
  /\ ctx' = [ctx EXCEPT ![c].kicked = TRUE, ![c].anew = FALSE, ![c].cb = TRUE]
  /\ UNCHANGED <<queue, sync_lock, known, refused, tip, target, th, inbox>>

check_standby_peers(c) ==
  /\ Open(c) /\ ctx[c].state = "standby"
  /\ ctx' = [ctx EXCEPT ![c].cb = TRUE]
  /\ UNCHANGED <<queue, sync_lock, known, refused, tip, target, th, inbox>>

(* on_callback.  A kicked peer that is late, as it is unless it was asked for
   something since, goes on in standby once, and is dropped the second time. *)
on_callback(c) ==
  /\ CallbackDue(c)
  /\ LET x == [ctx[c] EXCEPT !.cb = FALSE, !.kicked = FALSE, !.anew = FALSE]
         Late == ctx[c].kicked /\ x.state = "sync" /\ x.timed
         Go(y) ==
           IF y.state = "sync" /\ ~y.timed
           THEN /\ Set(c, AskChain(y, None), IdleThread)
                /\ Send(c, ChainEntry(c, None))
                /\ UNCHANGED <<queue, target>>
           ELSE /\ IF y.state = "standby"
                   THEN Set(c, [y EXCEPT !.state = "sync"],
                            [IdleThread EXCEPT !.pc = "try", !.via = "callback"])
                   ELSE Set(c, y, IdleThread)
                /\ UNCHANGED <<queue, target, inbox>>
     IN  \/ Late /\ x.score >= 0
            /\ Go([x EXCEPT !.score = @ - 1, !.timed = FALSE, !.expect = "none",
                            !.eheight = 0, !.state = "standby"])
         \/ Late /\ x.score < 0
            /\ queue' = flush_spans(queue, c, FALSE)
            /\ Set(c, [x EXCEPT !.link = "closing"], IdleThread)
            /\ inbox' = [inbox EXCEPT ![c] = <<>>]
            /\ UNCHANGED target
         \/ (Late => ctx[c].anew) /\ Go(x)
  /\ UNCHANGED <<sync_lock, known, refused, tip>>

(* handle_response_chain_entry *)
handle_response_chain_entry(c) ==
  /\ AnswerDue(c) /\ Head(inbox[c]).type = "chain"
  /\ LET m == Head(inbox[c])
     IN  IF ctx[c].expect # "chain" \/ m.start + 1 > ctx[c].eheight
         THEN Drop(c, queue, FALSE)
         ELSE /\ Set(c, [ctx[c] EXCEPT !.expect = "none", !.timed = FALSE,
                           !.lrh = m.start + Len(m.ids) - 1, !.needed = m.ids],
                     [IdleThread EXCEPT !.pc = "request", !.via = "chain"])
              /\ inbox' = [inbox EXCEPT ![c] = Tail(@)]
              /\ UNCHANGED <<queue, target>>
  /\ UNCHANGED <<sync_lock, known, refused, tip>>

(* The checks of handle_response_get_objects: the answer was expected, is not
   ahead of what was asked for, and is everything that was asked for.       *)
Accepts(x, m) ==
  /\ x.expect = "objects" /\ m.blocks # <<>>
  /\ HeightOf[m.blocks[1]] <= x.eheight
  /\ x.requested = Elems(m.blocks)

handle_response_get_objects(c) ==
  /\ AnswerDue(c) /\ Head(inbox[c]).type = "objects"
  /\ LET m == Head(inbox[c])
     IN  IF ~Accepts(ctx[c], m) THEN Drop(c, queue, FALSE)
         ELSE /\ queue' = add_filled(queue, HeightOf[m.blocks[1]], m.blocks, c)
              /\ Set(c, [ctx[c] EXCEPT !.expect = "none", !.timed = FALSE,
                           !.requested = {}, !.last = m.blocks[Len(m.blocks)]],
                     [IdleThread EXCEPT !.pc = "try", !.via = "objects"])
              /\ target' = Larger(target, Remote(c))
              /\ inbox' = [inbox EXCEPT ![c] = Tail(@)]
  /\ UNCHANGED <<sync_lock, known, refused, tip>>

-----------------------------------------------------------------------------
(* try_add_next_blocks.  m_sync_lock is tried, never waited for. *)
TryLock(c) ==
  /\ Pc(c, "try")
  /\ IF sync_lock = None
     THEN sync_lock' = c /\ th' = [th EXCEPT ![c].pc = "loop"]
     ELSE th' = [th EXCEPT ![c].pc = "request"] /\ UNCHANGED sync_lock
  /\ UNCHANGED <<queue, known, refused, tip, target, ctx, inbox>>

(* Look at the first filled span: nothing to add, old blocks, blocks whose
   parent is not here, or blocks to add, copied out of the queue.          *)
NextSpan(c) ==
  /\ Pc(c, "loop")
  /\ LET s == get_next_span(queue)
         old == HaveBlock(s.blocks[Len(s.blocks)])
         parent == Parent[s.blocks[1]]
     IN  \/ /\ s = NoSpan
            /\ th' = [th EXCEPT ![c].pc = "after"]
            /\ UNCHANGED <<queue, sync_lock, ctx>>
         \/ /\ s # NoSpan /\ old
            /\ queue' = remove_spans(queue, s.conn, s.start)
            /\ UNCHANGED <<sync_lock, ctx, th>>
         \/ /\ s # NoSpan /\ ~old /\ ~HaveBlock(parent) /\ parent \in queue.requested
            /\ th' = [th EXCEPT ![c].pc = "after"]
            /\ UNCHANGED <<queue, sync_lock, ctx>>
         \/ /\ s # NoSpan /\ ~old /\ ~HaveBlock(parent) /\ parent \notin queue.requested
            /\ sync_lock' = None
            /\ IF s.start > height THEN UNCHANGED <<queue, ctx>>
               ELSE /\ queue' = remove_spans(queue, s.conn, s.start)
                    /\ ctx' = [ctx EXCEPT ![c].needed = <<>>, ![c].lrh = 0]
            /\ th' = [th EXCEPT ![c].pc = "request"]
         \/ /\ s # NoSpan /\ ~old /\ HaveBlock(parent)
            /\ th' = [th EXCEPT ![c].pc = "add", ![c].span = s, ![c].i = 1]
            /\ UNCHANGED <<queue, sync_lock, ctx>>
  /\ UNCHANGED <<known, refused, tip, target, inbox>>

(* handle_incoming_block of the next block of the copied span. *)
AddBlock(c) ==
  /\ Pc(c, "add")
  /\ LET b == th[c].span.blocks
         h == b[th[c].i]
         ok == HaveBlock(h) \/ (Parent[h] \in known /\ h \notin Invalid)
     IN  /\ known' = IF ok /\ ~HaveBlock(h) THEN known \cup {h} ELSE known
         /\ tip' = IF ok /\ ~HaveBlock(h) /\ HeightOf[h] > HeightOf[tip] THEN h ELSE tip
         /\ refused' = IF ~ok /\ Parent[h] \in known THEN refused \cup {h} ELSE refused
         /\ th' = IF ~ok THEN [th EXCEPT ![c].pc = "fail"]
                  ELSE IF th[c].i = Len(b) THEN [th EXCEPT ![c].pc = "remove"]
                  ELSE [th EXCEPT ![c].i = @ + 1]
  /\ UNCHANGED <<queue, sync_lock, target, ctx, inbox>>

(* The span was added: it leaves the queue, found by connection and height. *)
RemoveAdded(c) ==
  /\ Pc(c, "remove")
  /\ queue' = remove_spans(queue, th[c].span.conn, th[c].span.start)
  /\ th' = [th EXCEPT ![c].pc = "loop", ![c].span = NoSpan, ![c].i = 0]
  /\ UNCHANGED <<sync_lock, known, refused, tip, target, ctx, inbox>>

(* A block was refused or is an orphan: the connection the span came from is
   dropped with everything it brought, and the handler returns.            *)
FailSpan(c) ==
  /\ Pc(c, "fail")
  /\ LET d == th[c].span.conn
         q == IF Open(d) THEN flush_spans(queue, d, TRUE) ELSE queue
     IN  /\ queue' = remove_spans(q, d, th[c].span.start)
         /\ ctx' = [ctx EXCEPT ![c].cut = TRUE, ![d].link = IF Open(d) THEN "closing" ELSE @]
         /\ inbox' = IF Open(d) THEN [inbox EXCEPT ![d] = <<>>] ELSE inbox
  /\ sync_lock' = None
  /\ th' = [th EXCEPT ![c] = IdleThread]
  /\ UNCHANGED <<known, refused, tip, target>>

(* Mutant: a span that was scheduled is left to the peer it was asked of. *)
NeverLate(c, early) == Remote(c) > height /\ ~has_next_span(queue, height)

(* should_download_next_span.  A peer that would be idle may ask for a span
   early, when it looks faster than the one asked.                          *)
ShouldDownload(c, early) ==
  /\ Remote(c) > height
  /\ \/ ~has_next_span(queue, height)
     \/ ~Filled(FirstSpan(queue)) /\ (FirstSpan(queue).late \/ early)

AfterAdding(c) ==
  /\ Pc(c, "after")
  /\ th' = [th EXCEPT ![c].pc = "request", ![c].force = ShouldDownload(c, FALSE)]
  /\ sync_lock' = None
  /\ UNCHANGED <<queue, known, refused, tip, target, ctx, inbox>>

-----------------------------------------------------------------------------
(* skip_unneeded_hashes: leading hashes that are here already go. *)
Skip(x, inQueue) ==
  LET wanted == {i \in DOMAIN x.needed : ~HaveBlock(x.needed[i])
                                         /\ ~(inQueue /\ x.needed[i] \in queue.have)}
      k == IF wanted = {} THEN Len(x.needed) + 1
           ELSE CHOOSE i \in wanted : \A j \in wanted : i <= j
  IN  [x EXCEPT !.needed = SubSeq(@, k, Len(@)),
                !.last = IF wanted = {} /\ x.needed # <<>> THEN x.needed[Len(x.needed)] ELSE @]
NothingLeft(x, y) == x.needed # <<>> /\ y.needed = <<>> /\ ~x.numreq

(* Nothing more to ask this peer for: it is done, or not of use. *)
NoMoreFrom(c, q, y) ==
  IF Remote(c) > get_next_needed_height(q, height)
  THEN Drop(c, q, FALSE)
  ELSE Return(c, [y EXCEPT !.state = "normal"]) /\ queue' = q /\ UNCHANGED inbox

(* request_missing_objects up to the choice of what to ask for: the next span
   again, some of the needed blocks, more hashes, or nothing for now.       *)
Decide(c, early, wedged) ==
  LET q == flush_stale_spans(queue, {d \in Conns : Open(d)})
      x == ctx[c]
      y == Skip(x, TRUE)
      needed_height == get_next_needed_height(q, height)
      next == IF y.needed = <<>> THEN needed_height ELSE y.lrh - Len(y.needed) + 1
      main == next < height + Near \/ needed_height < height + Near
      proceed == main \/ Cardinality({s \in q.spans : Filled(s)}) < NSpans
      To(p, z) == /\ Set(c, z, [th[c] EXCEPT !.pc = p, !.force = p = "force"])
                  /\ queue' = q /\ UNCHANGED <<target, inbox>>
  IN  IF th[c].force THEN To("force", x)
      ELSE IF NothingLeft(x, y) THEN NoMoreFrom(c, q, y)
      ELSE IF main /\ ShouldDownload(c, early) THEN To("force", [y EXCEPT !.state = "sync"])
      ELSE IF proceed
      THEN To(IF y.needed = <<>> THEN "chain" ELSE "reserve", [y EXCEPT !.state = "sync"])
      ELSE IF sync_lock = None /\ has_next_span(q, height) /\ Filled(FirstSpan(q))
      THEN /\ Return(c, WithCallback([y EXCEPT !.state = "standby"]))
           /\ queue' = q /\ UNCHANGED inbox
      ELSE IF sync_lock = None /\ wedged THEN Drop(c, q, FALSE)
      ELSE Return(c, [y EXCEPT !.state = "standby"]) /\ queue' = q /\ UNCHANGED inbox

Request(c) ==
  /\ Pc(c, "request")
  /\ \E early, wedged \in BOOLEAN : Decide(c, early, wedged)
  /\ UNCHANGED <<sync_lock, known, refused, tip>>

(* The next span is scheduled with another connection: ask c for it too. *)
ForceNext(c) ==
  /\ Pc(c, "force")
  /\ LET s == get_next_span_if_scheduled(queue)
     IN  IF s = NoSpan THEN Set(c, ctx[c], [th[c] EXCEPT !.pc = "reserve"])
         ELSE Set(c, [ctx[c] EXCEPT !.requested = @ \cup Elems(s.hashes)],
                  [th[c] EXCEPT !.pc = "reset", !.span = s])
  /\ UNCHANGED <<queue, sync_lock, known, refused, tip, target, inbox>>

(* reset_next_span_time throws when the next span was filled or removed since.
   The exception ends the handler; a connection that was reading is closed.  *)
ResetNextSpanTime(c) ==
  /\ Pc(c, "reset")
  /\ LET s == th[c].span
     IN  IF get_next_span_if_scheduled(queue) = NoSpan
         THEN /\ Set(c, IF th[c].via = "callback" THEN [ctx[c] EXCEPT !.cut = TRUE]
                        ELSE [ctx[c] EXCEPT !.link = "closing"], IdleThread)
              /\ inbox' = IF th[c].via = "callback" THEN inbox ELSE [inbox EXCEPT ![c] = <<>>]
              /\ UNCHANGED <<queue, target>>
         ELSE /\ queue' = reset_next_span_time(queue)
              /\ Return(c, AskObjects(ctx[c], s.start, s.hashes))
              /\ Send(c, Objects(c, s.hashes))
  /\ UNCHANGED <<sync_lock, known, refused, tip>>

(* Ask for a span of needed blocks nobody was asked for; if there is none, for
   the next span that is scheduled; if there is none, the peer is done or
   dropped.                                                                  *)
Reserve(c) ==
  /\ Pc(c, "reserve")
  /\ LET x == ctx[c]
         y == Skip(x, FALSE)
         r == reserve_span(queue, y.lrh, SyncSize, c, y.needed)
         skip == r.start - (y.lrh - Len(y.needed) + 1)
         hs == SubSeq(y.needed, skip + 1, skip + r.n)
         s == get_next_span_if_scheduled(queue)
         rest == SelectSeq(y.needed, LAMBDA h : h \notin Elems(s.hashes))
     IN  IF x.lrh + 1 < Len(x.needed)
         THEN /\ Set(c, [x EXCEPT !.needed = <<>>, !.lrh = 0], [th[c] EXCEPT !.pc = "chain"])
              /\ UNCHANGED <<queue, target, inbox>>
         ELSE IF NothingLeft(x, y) THEN NoMoreFrom(c, queue, y)
         ELSE IF r.n > 0
         THEN /\ queue' = r.q
              /\ Return(c, [AskObjects(y, r.start, hs) EXCEPT
                              !.needed = SubSeq(@, skip + r.n + 1, Len(@))])
              /\ Send(c, Objects(c, hs))
         ELSE IF ~th[c].force /\ s # NoSpan
         THEN /\ Return(c, [AskObjects(y, s.start, s.hashes) EXCEPT !.needed = rest])
              /\ Send(c, Objects(c, s.hashes))
              /\ UNCHANGED queue
         ELSE IF Larger(height, get_next_needed_height(queue, height)) >= target
         THEN Return(c, [y EXCEPT !.state = "normal"]) /\ UNCHANGED <<queue, inbox>>
         ELSE Drop(c, queue, FALSE)
  /\ UNCHANGED <<sync_lock, known, refused, tip>>

(* Ask for more hashes, unless there is something to add; with all hashes
   received, the connection is synchronised.                               *)
NeedHashes(c) ==
  /\ Pc(c, "chain")
  /\ LET x == [ctx[c] EXCEPT !.needed = <<>>]
     IN  IF height < target /\ sync_lock = None /\ get_next_span(queue) # NoSpan
         THEN Return(c, WithCallback([x EXCEPT !.state = "standby"])) /\ UNCHANGED <<queue, inbox>>
         ELSE IF x.lrh < Remote(c) - 1
         THEN /\ Return(c, AskChain(x, x.last))
              /\ Send(c, ChainEntry(c, x.last))
              /\ UNCHANGED queue
         ELSE IF x.requested = {}
         THEN Return(c, [x EXCEPT !.state = "normal"]) /\ UNCHANGED <<queue, inbox>>
         ELSE Drop(c, queue, FALSE)
  /\ UNCHANGED <<sync_lock, known, refused, tip>>

(* REQUEST_NEXT_SCHEDULED_SPAN_THRESHOLD goes by; only the next span's age is
   ever looked at.                                                          *)
Age ==
  /\ get_next_span_if_scheduled(queue) # NoSpan /\ ~FirstSpan(queue).late
  /\ queue' = SetLate(queue, TRUE)
  /\ UNCHANGED <<sync_lock, known, refused, tip, target, ctx, th, inbox>>

-----------------------------------------------------------------------------
Genesis == Chain[CHOOSE c \in Conns : TRUE][1]

Init ==
  /\ queue = EmptyQueue /\ sync_lock = None
  /\ known = {Genesis} /\ refused = {} /\ tip = Genesis /\ target = 0
  /\ ctx = [c \in Conns |-> Fresh("gone")]
  /\ th = [c \in Conns |-> IdleThread]
  /\ inbox = [c \in Conns |-> <<>>]

(* What the node does for connection c once it has been called. *)
Handler(c) ==
  \/ TryLock(c) \/ NextSpan(c) \/ AddBlock(c) \/ RemoveAdded(c) \/ FailSpan(c)
  \/ AfterAdding(c) \/ Request(c) \/ ForceNext(c) \/ ResetNextSpanTime(c)
  \/ Reserve(c) \/ NeedHashes(c)

Receive(c) == handle_response_chain_entry(c) \/ handle_response_get_objects(c)

(* What happens to a connection by itself. *)
Timer(c) ==
  Connect(c) \/ Close(c) \/ TimedSync(c) \/ kick_idle_peers(c) \/ check_standby_peers(c)

Next ==
  \/ \E c \in Conns : Handler(c) \/ Receive(c) \/ on_callback(c) \/ Timer(c) \/ Lose(c)
  \/ Age

(* Threads are scheduled, time goes by, the node keeps connecting to peers, and
   peers that are not flaky answer.  A peer in standby is called back every
   100 ms and synced with every 60 s, so the timed sync, which also ends its
   standby, does not come first every time.

   The last four conjuncts are WF of Handler(c), on_callback(c) and Receive(c)
   and SF of on_callback(c) in standby, each with its ENABLED written out.   *)
Fairness ==
  /\ WF_vars(Age)
  /\ \A c \in Conns :
       /\ WF_vars(Timer(c))
       /\ []<>Idle(c) \/ []<><<Handler(c)>>_vars
       /\ []<>~CallbackDue(c) \/ []<><<on_callback(c)>>_vars
       /\ <>[]~(CallbackDue(c) /\ ctx[c].state = "standby")
            \/ []<><<on_callback(c) /\ ctx[c].state = "standby">>_vars
       /\ c \in Flaky \/ []<>~AnswerDue(c) \/ []<><<Receive(c)>>_vars

Spec == Init /\ [][Next]_vars
FairSpec == Spec /\ Fairness

-----------------------------------------------------------------------------
TypeOK ==
  /\ queue.requested \subseteq Hash /\ queue.have \subseteq Hash
  /\ \A s \in queue.spans : s.conn \in Conns /\ s.n \in 1 .. Inf /\ s.start \in 1 .. Inf
                             /\ Elems(s.hashes) \cup Elems(s.blocks) \subseteq Hash
  /\ sync_lock \in Conns \cup {None} /\ tip \in known
  /\ known \cup refused \subseteq Hash /\ target \in 0 .. Inf
  /\ \A c \in Conns :
        /\ ctx[c].link \in {"open", "closing", "gone"}
        /\ ctx[c].state \in {"sync", "standby", "normal"}
        /\ ctx[c].expect \in {"none", "chain", "objects"} /\ ctx[c].lrh \in 0 .. Inf
        /\ Elems(ctx[c].needed) \cup ctx[c].requested \subseteq Hash

(* No hash is left behind as requested or downloaded by a span that is gone:
   it would never be asked for again (erase_block, set_span_hashes,
   add_blocks, in any order of reservations, answers and flushes).          *)
RequestedIsCovered == Covered(queue)

(* Blocks downloaded are not lost: a filled span leaves the queue only when its
   blocks are in the chains, for another span at its height, or with all that
   came from a connection that brought a bad block.  It outlives its own
   connection (flush_spans, flush_stale_spans, remove_spans).               *)
FilledSpansAreUsed ==
  [][\A s \in queue.spans :
       Filled(s) /\ s \notin queue'.spans =>
         \/ HaveBlock(s.blocks[Len(s.blocks)])
         \/ \E t \in queue'.spans : t.start = s.start
         \/ \E c \in Conns : Pc(c, "fail") /\ th[c].span.conn = s.conn]_vars

(* A connection that is synchronising waits for an answer or for a callback:
   nothing else would ever move it on.  Only the two early ends of a handler
   leave one behind (kick_idle_peers, on_callback, try_add_next_blocks).     *)
NoneForgotten ==
  \A c \in Conns : Open(c) /\ Idle(c) /\ ctx[c].state = "sync" =>
    ctx[c].timed \/ ctx[c].cb \/ ctx[c].cut

(* Flaky peers are no longer lost or dropped. *)
Settled == <>[](\A c \in Flaky : ctx[c].link # "closing")

(* Once that is so, the node has all blocks of a peer that answers, and was not
   left behind, in its chains or downloaded, whatever was reserved, asked for
   twice, kicked and flushed before (request_missing_objects, kick_idle_peers,
   should_download_next_span).                                              *)
Downloads ==
  Settled =>
    \A c \in Conns \ Flaky : <>[](ctx[c].cut \/ Elems(Chain[c]) \subseteq known \cup queue.have)

(* request_missing_objects: "Nothing to get from this peer, and it's not ahead
   of us, all done".  The blocks of a peer that answers, and that was put back
   in state_normal, are in the chains in the end, and not only downloaded.  *)
AllDone ==
  Settled =>
    \A c \in Conns \ Flaky :
      Open(c) /\ ctx[c].state = "normal" ~> ctx[c].cut \/ Elems(Chain[c]) \subseteq known

(* reset_next_span_time: "No next span to reset time", "Next span is not empty".
   The span found scheduled by request_missing_objects still is when its time
   is reset.                                                                 *)
NextSpanStillScheduled ==
  \A c \in Conns : Pc(c, "reset") => get_next_span_if_scheduled(queue) # NoSpan
=============================================================================
