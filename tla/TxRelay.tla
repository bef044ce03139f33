------------------------------ MODULE TxRelay -------------------------------
(***************************************************************************)
(* When transactions are relayed: the relay fields of the pool's rows, the *)
(* handlers that store transactions and hand them to the notifier, the     *)
(* relay loop of the idle thread, and the Dandelion++ task of the          *)
(* notifier's strand, which answers by updating the rows.                  *)
(*                                                                         *)
(* A transaction in the stem phase is sent to one peer and put under an    *)
(* embargo; when it ends and the transaction has not come back as public,  *)
(* the node makes it public itself.  Times are unsigned and wrap at        *)
(* TimeRange.                                                              *)
(***************************************************************************)
EXTENDS Notifier

CONSTANTS
  Invalid,      \* transactions that fail verification
  Messages,     \* sequences of transactions peers send
  Embargo,      \* outcomes of dandelionpp_embargo_average
  ForwardDelay, \* outcomes of forward_delay_average
  CheckEvery,   \* max_relayable_check
  MinRelay,     \* MIN_RELAY_TIME
  MaxRelay,     \* MAX_RELAY_TIME
  LiveTime,     \* CRYPTONOTE_MEMPOOL_TX_LIVETIME
  AltLiveTime,  \* CRYPTONOTE_MEMPOOL_TX_FROM_ALT_BLOCK_LIVETIME
  StartTime,    \* the clock when the model begins, later than any delay
  TimeRange,    \* bound: times are below it (2^64)
  MaxStrand,    \* bound: calls waiting for the strand
  MaxTime       \* bound: the clock stops here, before anything expires

ASSUME TimesAssumption ==
  /\ MaxTime \in Nat /\ StartTime \in Nat /\ TimeRange \in Nat
  /\ MinRelay \in Nat \ {0} /\ MaxRelay \in Nat /\ CheckEvery \in Nat
  /\ LiveTime \in Nat /\ AltLiveTime \in Nat
  /\ Embargo \subseteq Nat /\ ForwardDelay \subseteq Nat
  /\ MaxRelay < StartTime /\ StartTime <= MaxTime
  /\ MaxTime - StartTime < Min({LiveTime, AltLiveTime})
  /\ \A d \in Embargo \cup ForwardDelay \cup {MaxRelay} : MaxTime + d < TimeRange - 1

ASSUME MessagesAssumption == Messages \subseteq Seq(Txs) \ {<<>>} /\ NoConn \notin Conns

VARIABLES
  txpool,        \* rows: relay method, last_relayed_time and receive_time
  mined,         \* transactions of the chain
  m_next_check,  \* when the relay loop looks at the pool again
  net,           \* the message a network thread is handling
  sends,         \* sends[th]: calls of relay_transactions thread th has to make
  public,        \* history: transactions that have been public
  forgotten      \* history: stored for the stem phase, and dropped by its handler

poolVars == <<txpool, m_next_check, public, forgotten>>
vars == <<now, zoneVars, txpool, mined, m_next_check, net, sends, public, forgotten>>

\* A network or RPC thread, and the thread of core::on_idle.
Threads == {"net", "idle"}

Latest == TimeRange - 1
Idle == [todo |-> <<>>, relay |-> "none", source |-> NoConn, stem |-> {}, fluff |-> {}]

----------------------------------------------------------------------------
(* Rows.                                                                   *)

\* relay_method, in its order.
Rank == [none |-> 0, local |-> 1, forward |-> 2, stem |-> 3, fluff |-> 4, block |-> 5]

\* upgrade_relay_method
Upgrade(old, method) == IF Rank[old] < Rank[method] THEN method ELSE old

\* relay_category::legacy
IsPublic(relay) == relay \in {"fluff", "block"}

Waits(row) == row.relay \in {"stem", "forward"}

\* get_relay_delay
RelayDelay(received) ==
  Min({((now - received + MinRelay) \div MinRelay) * MinRelay, MaxRelay})

SetRow(t, row) ==
  [u \in DOMAIN txpool \cup {t} |-> IF u = t THEN row ELSE txpool[u]]

\* add_tx, for a transaction that passes verification.
add_tx(t, method) ==
  LET known == t \in DOMAIN txpool
      upgraded == IF known THEN Rank[txpool[t].relay] < Rank[method] ELSE TRUE
      row(time) == [relay |-> method, last |-> time, receive |-> now]
  IN  /\ \/ /\ upgraded /\ method = "forward"
            /\ \E d \in ForwardDelay :
                 /\ txpool' = SetRow(t, row(now + d))
                 /\ m_next_check' = Min({m_next_check, now + d})
         \/ /\ upgraded /\ method # "forward"
            /\ txpool' = SetRow(t, row(Latest))
            /\ UNCHANGED m_next_check
         \/ /\ ~upgraded
            /\ UNCHANGED <<txpool, m_next_check>>
      /\ public' = IF IsPublic(method) THEN public \cup {t} ELSE public
      /\ forgotten' = IF upgraded THEN forgotten \ {t} ELSE forgotten

\* The method add_tx uses: a stem transaction that comes back has looped.
MethodOf(t, method) ==
  IF method = "stem" /\ t \in DOMAIN txpool /\ txpool[t].relay = "stem"
    THEN "fluff" ELSE method

\* add_new_tx leaves early
AlreadyHave(t) == t \in mined \/ (t \in DOMAIN txpool /\ IsPublic(txpool[t].relay))

\* Mutant: the check is not moved forward to the end of an embargo.
EmbargoNotChecked(txs, embargo) == m_next_check

\* set_if_less, at the end of set_relayed
NextCheckWith(txs, embargo) == Min({m_next_check} \cup {now + embargo[t] : t \in txs})

\* tx_memory_pool::set_relayed, called by on_transactions_relayed
set_relayed(txs, method) ==
  LET rows == txs \cap DOMAIN txpool
      relay(t) == Upgrade(txpool[t].relay, method)
      stems == {t \in rows : relay(t) = "stem"}
  IN  \E embargo \in [stems -> Embargo] :
        /\ txpool' = [t \in DOMAIN txpool |->
             IF t \in rows
               THEN [txpool[t] EXCEPT !.relay = relay(t),
                                      !.last = IF t \in stems THEN now + embargo[t] ELSE now]
               ELSE txpool[t]]
        /\ m_next_check' = NextCheckWith(stems, embargo)
        /\ public' = public \cup {t \in rows : IsPublic(relay(t))}
        /\ forgotten' = forgotten \ rows

----------------------------------------------------------------------------
(* Transactions arrive.                                                    *)

Send(txs, source, method) ==
  IF txs = {} THEN <<>> ELSE <<[txs |-> txs, source |-> source, relay |-> method]>>

\* A transaction of the message is done; after the last one those to be
\* relayed are handed over.
Handled(n) ==
  IF n.todo # <<>>
    THEN net' = n /\ UNCHANGED sends
    ELSE /\ net' = Idle
         /\ sends' = [sends EXCEPT !["net"] = Send(n.stem, n.source, "stem")
                                                \o Send(n.fluff, n.source, "fluff")]

\* One transaction of the message n: it is refused and the connection
\* dropped, known already, or added.
ReceiveOne(n) ==
  /\ LET t == Head(n.todo)
         m == MethodOf(t, n.relay)
         rest == [n EXCEPT !.todo = Tail(@)]
     IN  \/ /\ t \in Invalid
            /\ net' = Idle
            /\ forgotten' = forgotten \cup
                 {u \in n.stem \cap DOMAIN txpool : txpool[u].last = Latest}
            /\ UNCHANGED <<txpool, m_next_check, public, sends>>
         \/ /\ t \notin Invalid /\ AlreadyHave(t)
            /\ Handled(rest)
            /\ UNCHANGED poolVars
         \/ /\ t \notin Invalid /\ ~AlreadyHave(t)
            /\ add_tx(t, m)
            /\ Handled(CASE m = "stem"  -> [rest EXCEPT !.stem = @ \cup {t}]
                         [] m = "fluff" -> [rest EXCEPT !.fluff = @ \cup {t}]
                         [] OTHER       -> rest)
  /\ UNCHANGED <<now, zoneVars, mined>>

\* handle_notify_new_transactions, with the first transaction.  A message
\* from the public zone is for the stem phase unless marked; one from a hidden
\* service, here with no connection of this zone, is forwarded after a delay.
handle_notify_new_transactions(msg, method, source) ==
  /\ net = Idle /\ sends["net"] = <<>>
  /\ method = "stem" => source # NoConn
  /\ method = "forward" => source = NoConn
  /\ ReceiveOne([Idle EXCEPT !.todo = msg, !.relay = method, !.source = source])

ReceiveNext == net # Idle /\ ReceiveOne(net)

\* on_send_raw_tx
on_send_raw_tx(t) ==
  /\ net = Idle /\ sends["net"] = <<>>
  /\ t \notin Invalid /\ ~AlreadyHave(t)
  /\ add_tx(t, "local")
  /\ sends' = [sends EXCEPT !["net"] = Send({t}, NoConn, "local")]
  /\ UNCHANGED <<now, zoneVars, mined, net>>

\* handle_incoming_tx for a transaction of a block.  Its inputs may fail to
\* check, in which case the row of a new one has the present time.
AddKeptByBlock(t) ==
  /\ t \notin Invalid /\ ~AlreadyHave(t)
  /\ \/ add_tx(t, "block")
     \/ /\ t \notin DOMAIN txpool
        /\ txpool' = SetRow(t, [relay |-> "block", last |-> now, receive |-> now])
        /\ public' = public \cup {t}
        /\ UNCHANGED <<m_next_check, forgotten>>
  /\ UNCHANGED <<now, zoneVars, mined, net, sends>>

\* A block with t is added: take_tx.
Mine(t) ==
  /\ t \in DOMAIN txpool
  /\ mined' = mined \cup {t}
  /\ public' = public \cup {t}
  /\ txpool' = [u \in DOMAIN txpool \ {t} |-> txpool[u]]
  /\ forgotten' = forgotten \ {t}
  /\ UNCHANGED <<now, zoneVars, m_next_check, net, sends>>

----------------------------------------------------------------------------
(* The relay loop.                                                         *)

MaxAge(row) == IF row.relay = "block" THEN AltLiveTime ELSE LiveTime

Young(row) == now - row.receive <= MaxAge(row) \div 2

\* Mutant: a time in the future counts as just relayed.
OverdueSaturates(row) == row.last < now /\ now - row.last > RelayDelay(row.receive)

\* The test for transactions that do not wait; last_relayed_time is unsigned,
\* so the latest time of all is long ago.
Overdue(row) == (now - row.last) % TimeRange > RelayDelay(row.receive)

Relayable(row) ==
  /\ Young(row)
  /\ IF Waits(row) THEN row.last <= now ELSE row.relay # "none" /\ Overdue(row)

\* When get_relayable_transactions is to look again.
NextCheck ==
  LET later == {t \in DOMAIN txpool : Waits(txpool[t]) /\ txpool[t].last > now}
  IN  Min({now + CheckEvery} \cup {txpool[t].last : t \in later})

\* get_relayable_transactions and core::relay_txpool_transactions.  The new
\* times of waiting rows are in a write transaction that is not committed.
relay_txpool_transactions ==
  /\ sends["idle"] = <<>>
  /\ m_next_check <= now
  /\ m_next_check' = NextCheck
  /\ LET relayable(methods) ==
           {t \in DOMAIN txpool : txpool[t].relay \in methods /\ Relayable(txpool[t])}
     IN  sends' = [sends EXCEPT !["idle"] =
           Send(relayable({"block", "fluff", "stem"}), NoConn, "fluff")
             \o Send(relayable({"local"}), NoConn, "local")
             \o Send(relayable({"forward"}), NoConn, "stem")]
  /\ UNCHANGED <<now, zoneVars, txpool, mined, net, public, forgotten>>

----------------------------------------------------------------------------
(* The notifier.                                                           *)

Dispatch(kind, call) ==
  strand' = Append(strand, [kind |-> kind, txs |-> call.txs, source |-> call.source,
                            phase |-> "waiting"])

\* relay_transactions and notify::send_txs: public transactions are marked
\* as relayed and fluffed, others go through Dandelion++.
send_txs(th) ==
  /\ sends[th] # <<>> /\ Len(strand) < MaxStrand
  /\ LET call == Head(sends[th])
     IN  \/ /\ call.relay = "fluff"
            /\ set_relayed(call.txs, "fluff")
            /\ Dispatch("fluff_notify", call)
         \/ /\ call.relay # "fluff"
            /\ Dispatch("dandelionpp_notify", call)
            /\ UNCHANGED poolVars
  /\ sends' = [sends EXCEPT ![th] = Tail(@)]
  /\ UNCHANGED <<now, flushVars, mined, net>>

At(kind, phase) ==
  strand # <<>> /\ Head(strand).kind = kind /\ Head(strand).phase = phase

RunFluffNotify ==
  /\ At("fluff_notify", "waiting")
  /\ fluff_notify(Head(strand).txs, Head(strand).source)
  /\ strand' = Tail(strand)
  /\ UNCHANGED <<now, mined, net, sends, poolVars>>

\* Mutant: a transaction that cannot be sent on the stem is fluffed, and
\* marked as sent on the stem.
FluffStaysStem ==
  /\ set_relayed(Head(strand).txs, "stem")
  /\ fluff_notify(Head(strand).txs, Head(strand).source)
  /\ strand' = Tail(strand)
  /\ UNCHANGED <<now, mined, net, sends>>

\* The end of dandelionpp_notify::operator().
FluffInstead ==
  /\ set_relayed(Head(strand).txs, "fluff")
  /\ fluff_notify(Head(strand).txs, Head(strand).source)
  /\ strand' = Tail(strand)
  /\ UNCHANGED <<now, mined, net, sends>>

\* dandelionpp_notify::operator(): in a stem epoch the rows are marked and
\* the transactions sent to one peer; sending fails when no outgoing
\* connection is left.
dandelionpp_notify ==
  \/ \E fluffing \in Epochs :
       /\ At("dandelionpp_notify", "waiting")
       /\ \/ fluffing /\ FluffInstead
          \/ /\ ~fluffing
             /\ set_relayed(Head(strand).txs, "stem")
             /\ strand' = [strand EXCEPT ![1].phase = "sending"]
             /\ UNCHANGED <<now, flushVars, mined, net, sends>>
  \/ /\ At("dandelionpp_notify", "sending")
     /\ strand' = Tail(strand)
     /\ UNCHANGED <<now, flushVars, mined, net, sends, poolVars>>
  \/ At("dandelionpp_notify", "sending") /\ FluffInstead

----------------------------------------------------------------------------
\* The process ends and starts again.
Restart ==
  /\ ResetZone
  /\ net' = Idle
  /\ sends' = [th \in Threads |-> <<>>]
  /\ m_next_check' = now
  /\ forgotten' = forgotten \cup
       {t \in DOMAIN txpool : txpool[t].relay = "stem" /\ txpool[t].last = Latest}
  /\ UNCHANGED <<now, txpool, mined, public>>

\* The idle thread calls the relay loop every second, so the clock does not
\* pass a check that is due.
Tick ==
  /\ now < MaxTime
  /\ now < m_next_check
  /\ now' = now + 1
  /\ UNCHANGED <<zoneVars, txpool, mined, m_next_check, net, sends, public, forgotten>>

Init ==
  /\ InitZone
  /\ now = StartTime
  /\ txpool = <<>>
  /\ mined = {}
  /\ m_next_check = StartTime
  /\ net = Idle
  /\ sends = [th \in Threads |-> <<>>]
  /\ public = {}
  /\ forgotten = {}

Next ==
  \/ \E msg \in Messages, method \in {"stem", "fluff", "forward"}, c \in Conns \cup {NoConn} :
       handle_notify_new_transactions(msg, method, c)
  \/ ReceiveNext
  \/ \E t \in Txs : on_send_raw_tx(t) \/ AddKeptByBlock(t) \/ Mine(t)
  \/ relay_txpool_transactions
  \/ \E th \in Threads : send_txs(th)
  \/ RunFluffNotify
  \/ dandelionpp_notify
  \/ ZoneStep /\ UNCHANGED <<txpool, mined, m_next_check, net, sends, public, forgotten>>
  \/ Restart
  \/ Tick

Spec == Init /\ [][Next]_vars

----------------------------------------------------------------------------
(* Properties.                                                             *)

Pending(t) ==
  \/ t \in net.stem \cup net.fluff
  \/ \E th \in Threads : \E k \in DOMAIN sends[th] : t \in sends[th][k].txs
  \/ \E k \in DOMAIN strand : t \in strand[k].txs

\* A transaction in the stem phase, or held back before it, does not stay
\* there: a thread is about to relay it, or the relay loop looks at the pool
\* by the end of its embargo.  set_relayed, add_tx and the loop set
\* m_next_check in any order.  Not so after a restart or a refused
\* transaction later in the same message (see the README), and not in the
\* second half of the pool's life time, when nothing is relayed.
StemIsScheduled ==
  \A t \in DOMAIN txpool : Waits(txpool[t]) =>
    \/ Pending(t) \/ t \in forgotten \/ ~Young(txpool[t])
    \/ txpool[t].last < Latest /\ m_next_check <= Max({txpool[t].last, now})

\* Only transactions that the pool has made public, or that are in the chain,
\* are queued for every connection: on_transactions_relayed comes first, on
\* every path to fluff_notify, also when the stem fails.
FluffIsPublic ==
  \A c \in Conns : fluff_txs[c] \subseteq public

\* A transaction that is public, or this node's own, is relayed again and
\* again: unless a check is due, the time since it was is shorter than
\* its delay and the time between two checks.  One that was stored and not
\* relayed, by a crash or because it came in a block, is relayed at the next
\* check.
PublicIsRepeated ==
  \A t \in DOMAIN txpool :
    LET row == txpool[t]
    IN  ~Waits(row) /\ Young(row) =>
          \/ Pending(t) \/ m_next_check <= now
          \/ IF row.last = Latest THEN now - row.receive < CheckEvery
                                  ELSE now - row.last < RelayDelay(row.receive) + CheckEvery
=============================================================================
