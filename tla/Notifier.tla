------------------------------ MODULE Notifier ------------------------------
(***************************************************************************)
(* levin::notify for the public zone: the strand on which transactions are *)
(* sent, the queue of transactions each connection is going to be sent     *)
(* ("fluffing"), and the one timer of the zone that flushes them.          *)
(*                                                                         *)
(* A connection has a flush time of its own.  The timer is set to the      *)
(* earliest; setting it again cancels the wait in progress, whose handler  *)
(* then runs with an error.  flush_callbacks counts handlers that have not *)
(* run, and only the last of them does anything.                           *)
(***************************************************************************)
EXTENDS Naturals, Sequences, FiniteSetsExt

CONSTANTS
  Txs,          \* transactions
  Conns,        \* connections with other nodes, all with a finished handshake
  NoConn,       \* the nil uuid: this node
  FlushDelays,  \* outcomes of the random delays before a flush
  Never         \* time_point::max()

ASSUME DelaysAssumption == FlushDelays \subseteq Nat

VARIABLES
  now,              \* the clock
  strand,           \* calls waiting for zone->strand
  fluff_txs,        \* fluff_txs[c]: transactions to be sent to c
  flush_time,       \* flush_time[c]: when they are to be sent
  flush_callbacks,  \* handlers of the timer that have not run
  timer,            \* flush_txs: its expiry, and whether a wait is in progress
  fired             \* handlers posted by the timer: expired and canceled

flushVars == <<fluff_txs, flush_time, flush_callbacks, timer, fired>>
zoneVars == <<strand, flushVars>>

\* The expiry of a timer without handlers is never looked at.
NotSet == [expiry |-> 0, waiting |-> FALSE]

InitZone ==
  /\ strand = <<>>
  /\ fluff_txs = [c \in Conns |-> {}]
  /\ flush_time = [c \in Conns |-> Never]
  /\ flush_callbacks = 0
  /\ timer = NotSet
  /\ fired = [expired |-> 0, canceled |-> 0]

\* A process that starts has a notifier in its initial state.
ResetZone ==
  /\ strand' = <<>>
  /\ fluff_txs' = [c \in Conns |-> {}]
  /\ flush_time' = [c \in Conns |-> Never]
  /\ flush_callbacks' = 0
  /\ timer' = NotSet
  /\ fired' = [expired |-> 0, canceled |-> 0]

\* zone->fluffing: start_epoch and change_channels begin a new epoch, for
\* fluffing or not, at any time, so a call on the strand may find either.
Epochs == BOOLEAN

----------------------------------------------------------------------------
(* Flushing.                                                               *)

\* fluff_flush::queue, where callbacks and posted are the count and the
\* posted handlers so far.  expires_at cancels a wait in progress.
Queue(callbacks, posted, time) ==
  /\ flush_callbacks' = callbacks + 1
  /\ fired' = IF timer.waiting THEN [posted EXCEPT !.canceled = @ + 1] ELSE posted
  /\ timer' = [expiry |-> time, waiting |-> TRUE]

\* Mutant: a timer that is set is not set to an earlier time.
SoonerIgnored(next_flush) == flush_callbacks = 0

\* fluff_notify sets the timer when there is none, or to an earlier time.
Sooner(next_flush) == flush_callbacks = 0 \/ next_flush < timer.expiry

\* fluff_notify::run
fluff_notify(txs, source) ==
  LET receivers == Conns \ {source}
  IN  \E delay \in [{c \in receivers : fluff_txs[c] = {}} -> FlushDelays] :
        LET time == [c \in Conns |-> IF c \in DOMAIN delay THEN now + delay[c]
                                                           ELSE flush_time[c]]
            next_flush == Min({time[c] : c \in receivers})
        IN  /\ flush_time' = time
            /\ fluff_txs' = [c \in Conns |-> IF c \in receivers THEN fluff_txs[c] \cup txs
                                                                ELSE fluff_txs[c]]
            /\ IF receivers # {} /\ Sooner(next_flush)
                 THEN Queue(flush_callbacks, fired, next_flush)
                 ELSE UNCHANGED <<flush_callbacks, timer, fired>>

\* The strand is in the middle of a call.
Running == strand # <<>> /\ Head(strand).phase = "sending"

\* The wait ends and its handler is posted to the strand.
TimerExpires ==
  /\ timer.waiting /\ timer.expiry <= now
  /\ timer' = [timer EXCEPT !.waiting = FALSE]
  /\ fired' = [fired EXCEPT !.expired = @ + 1]
  /\ UNCHANGED <<now, strand, fluff_txs, flush_time, flush_callbacks>>

\* fluff_flush::operator(), by a handler that is the last one.  A canceled
\* wait flushes every connection.
Flush(kind, posted) ==
  LET filled == {c \in Conns : fluff_txs[c] # {}}
      due == {c \in filled : flush_time[c] <= now \/ kind = "canceled"}
      rest == filled \ due
  IN  /\ fluff_txs' = [c \in Conns |-> IF c \in due THEN {} ELSE fluff_txs[c]]
      /\ flush_time' = [c \in Conns |-> IF c \in rest THEN flush_time[c] ELSE Never]
      /\ IF rest = {}
           THEN flush_callbacks' = 0 /\ fired' = posted /\ timer' = NotSet
           ELSE Queue(0, posted, Min({flush_time[c] : c \in rest}))

\* fluff_flush::operator()
fluff_flush(kind) ==
  /\ ~Running
  /\ fired[kind] > 0
  /\ LET posted == [fired EXCEPT ![kind] = @ - 1]
     IN  \/ /\ flush_callbacks = 1
            /\ Flush(kind, posted)
         \/ /\ flush_callbacks # 1
            /\ flush_callbacks' = IF flush_callbacks = 0 THEN 0 ELSE flush_callbacks - 1
            /\ fired' = posted
            /\ UNCHANGED <<fluff_txs, flush_time, timer>>
  /\ UNCHANGED <<now, strand>>

\* A connection closes and another takes its place, with nothing queued.
Reconnect(c) ==
  /\ fluff_txs' = [fluff_txs EXCEPT ![c] = {}]
  /\ flush_time' = [flush_time EXCEPT ![c] = Never]
  /\ UNCHANGED <<now, strand, flush_callbacks, timer, fired>>

ZoneStep ==
  \/ TimerExpires
  \/ \E kind \in {"expired", "canceled"} : fluff_flush(kind)
  \/ \E c \in Conns : Reconnect(c)

----------------------------------------------------------------------------
\* No queued transaction waits for a timer that is not set, or set too late:
\* flush_callbacks counts the handlers to come exactly, across waits that are
\* canceled before or after they ended, and while a connection has something
\* queued a handler is posted or the timer ends by the connection's flush
\* time (fluff_notify::run, fluff_flush).
FlushArmed ==
  /\ flush_callbacks = fired.expired + fired.canceled + (IF timer.waiting THEN 1 ELSE 0)
  /\ \A c \in Conns : fluff_txs[c] # {} =>
       \/ fired.expired + fired.canceled > 0
       \/ timer.waiting /\ timer.expiry <= flush_time[c]
=============================================================================
