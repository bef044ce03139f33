----------------------------- MODULE BlockQueue -----------------------------
(***************************************************************************)
(* The block download queue of cryptonote_protocol/block_queue.cpp.        *)
(* A queue is a record of its spans, the hashes requested and the hashes   *)
(* of blocks it has; every operation, which the code runs under the lock   *)
(* of the queue, is an operator from queues to queues.  A span starts at a *)
(* height, is of one connection, and holds blocks once it is filled; late  *)
(* says that it was scheduled, or its time reset, long ago.                *)
(***************************************************************************)
EXTENDS Integers, Sequences

Span(start, n, conn) ==
  [start |-> start, n |-> n, conn |-> conn, hashes |-> <<>>, blocks |-> <<>>, late |-> FALSE]
NoSpan == Span(0, 0, "none")
EmptyQueue == [spans |-> {}, requested |-> {}, have |-> {}]

Elems(s) == {s[i] : i \in DOMAIN s}
Hashes(S) == UNION {Elems(s.hashes) : s \in S}
Filled(s) == s.blocks # <<>>

(* block_map is a set ordered and identified by the start height alone. *)
Insert(S, s) == IF \E t \in S : t.start = s.start THEN S ELSE S \cup {s}

(* Mutant: the hashes of an erased span stay requested. *)
EraseKeepsRequested(q, S) ==
  [q EXCEPT !.spans = @ \ S, !.have = @ \ Hashes(S)]

erase_block(q, S) ==
  [spans |-> q.spans \ S, requested |-> q.requested \ Hashes(S), have |-> q.have \ Hashes(S)]

At(q, start) == {s \in q.spans : s.start = start}

set_span_hashes(q, start, conn, hashes) ==
  LET own == {s \in At(q, start) : s.conn = conn}
      e == erase_block(q, own)
  IN  IF own = {} THEN q
      ELSE [e EXCEPT !.spans = @ \cup {[s EXCEPT !.hashes = hashes] : s \in own},
                     !.requested = @ \cup Elems(hashes)]

(* add_blocks of a filled span: it takes the place, and the hashes, of the one
   that starts at the same height.                                          *)
add_filled(q, start, blocks, conn) ==
  LET old == At(q, start)
      e == erase_block(q, old)
      new == [Span(start, Len(blocks), conn) EXCEPT !.blocks = blocks]
      i == [e EXCEPT !.spans = Insert(@, new)]
      hs == (CHOOSE s \in old : TRUE).hashes
  IN  IF old = {} THEN i
      ELSE set_span_hashes([i EXCEPT !.requested = @ \cup Elems(hs), !.have = @ \cup Elems(hs)],
                           start, conn, hs)

add_scheduled(q, start, n, conn) == [q EXCEPT !.spans = Insert(@, Span(start, n, conn))]

flush_spans(q, conn, all) ==
  erase_block(q, {s \in q.spans : s.conn = conn /\ (all \/ ~Filled(s))})

(* Mutant: spans of lost connections go, with their blocks. *)
FlushFilledStale(q, live) == erase_block(q, {s \in q.spans : s.conn \notin live})
flush_stale_spans(q, live) == erase_block(q, {s \in q.spans : ~Filled(s) /\ s.conn \notin live})

remove_spans(q, conn, start) == erase_block(q, {s \in q.spans : s.conn = conn /\ s.start <= start})

(* The first span of a set, and whether there is one. *)
First(S) == CHOOSE s \in S : \A t \in S : s.start <= t.start
FirstSpan(q) == IF q.spans = {} THEN NoSpan ELSE First(q.spans)

get_next_span(q) ==
  LET F == {s \in q.spans : Filled(s)} IN IF F = {} THEN NoSpan ELSE First(F)

get_next_span_if_scheduled(q) ==
  IF q.spans = {} \/ Filled(FirstSpan(q)) THEN NoSpan ELSE FirstSpan(q)

(* The age of the first span, there being one. *)
SetLate(q, late) ==
  [q EXCEPT !.spans = {IF \A t \in q.spans : s.start <= t.start THEN [s EXCEPT !.late = late] ELSE s :
                       s \in q.spans}]
reset_next_span_time(q) == SetLate(q, FALSE)

has_next_span(q, height) == q.spans # {} /\ FirstSpan(q).start <= height

(* The height after the unbroken run of spans that begins at the chain's
   height; its first span has to be filled.                                *)
get_next_needed_height(q, height) ==
  LET End(s) == s.start + s.n
      ahead == {s \in q.spans : End(s) - 1 >= height}
      Before(s) == {t \in ahead : t.start < s.start}
      Follows(s) == IF Before(s) = {} THEN s.start = height /\ Filled(s)
                    ELSE \E t \in Before(s) : /\ \A u \in Before(s) : u.start <= t.start
                                              /\ s.start = End(t)
      run == {s \in ahead : \A t \in Before(s) \cup {s} : Follows(t)}
  IN  IF run = {} THEN height ELSE End(CHOOSE s \in run : \A t \in run : t.start <= s.start)

(* reserve_span for a peer without pruning: the leading hashes that were not
   requested yet, max of them at most.  Gives the queue and the span.       *)
reserve_span(q, last_height, max, conn, needed) ==
  LET new == {i \in DOMAIN needed : needed[i] \notin q.requested}
      k == CHOOSE i \in new : \A j \in new : i <= j
      start == last_height - Len(needed) + k
      hs == SubSeq(needed, k, IF k + max - 1 < Len(needed) THEN k + max - 1 ELSE Len(needed))
  IN  IF new = {} \/ max = 0 \/ Len(needed) > last_height
      THEN [q |-> q, start |-> 0, n |-> 0]
      ELSE [q |-> set_span_hashes(add_scheduled(q, start, Len(hs), conn), start, conn, hs),
            start |-> start, n |-> Len(hs)]

(* Every hash that counts as requested or as downloaded is one of a span that
   is still queued.  reserve_span skips requested hashes for every connection,
   so one that no span covers would never be asked for again.               *)
Covered(q) == q.requested \subseteq Hashes(q.spans) /\ q.have \subseteq Hashes(q.spans)
=============================================================================
