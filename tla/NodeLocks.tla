----------------------------- MODULE NodeLocks -----------------------------
(***************************************************************************)
(* The locks of a running node and the LMDB transactions they protect.     *)
(* Threads of the protocol handler, the RPC server, the miner and the idle *)
(* loop call into core, Blockchain and tx_memory_pool.  An entry point is  *)
(* the sequence of lock and transaction operations its code performs; an   *)
(* early return is a second sequence.  A thread runs one such sequence at  *)
(* a time, one operation per step.                                         *)
(*                                                                         *)
(* LMDB's map can grow only while no transaction is open in the process.   *)
(* mdb_txn_safe counts transactions and closes a gate to new ones during a *)
(* resize; the transactions of db_rtxn_guard are not counted, and rely on  *)
(* m_blockchain_lock.                                                      *)
(***************************************************************************)
EXTENDS Naturals, Sequences, SequencesExt

CONSTANTS
  Threads,     \* threads that call the node's entry points
  Workers,     \* threads of the thread pool
  NoThread,    \* "nobody"
  Entries,     \* Entries[t]: the entry points thread t calls
  MaxCalls     \* bound: calls a thread makes

ASSUME ThreadsAssumption ==
  /\ Threads \cap Workers = {}
  /\ NoThread \notin Threads \cup Workers
  /\ DOMAIN Entries = Threads

VARIABLES
  todo,        \* todo[t]: the operations left of t's call
  calls,       \* calls[t]: calls t has made
  locks,       \* locks[l]: owner and depth of a recursive mutex
  frames,      \* frames[t]: what each open scope of t began: TRUE if it did
  batch,       \* the thread of m_write_batch_txn, while m_batch_active
  gate,        \* the thread that closed creation_gate
  active,      \* num_active_txns
  rtxn,        \* rtxn[t]: t's m_ti_rtxn is open (m_rf_txn)
  info,        \* info[t]: t's m_tinfo exists
  pausers      \* m_pausers_count of the miner

vars == <<todo, calls, locks, frames, batch, gate, active, rtxn, info, pausers>>
lockVars == <<locks, pausers>>
dbVars == <<frames, batch, gate, active, rtxn, info>>

All == Threads \cup Workers

\* m_incoming_tx_lock, tx_memory_pool::m_transactions_lock,
\* m_blockchain_lock and m_synchronization_lock, all recursive, and the
\* writer mutex inside LMDB, which is not.
Mutexes == {"incoming", "pool", "chain", "sync", "writer"}

----------------------------------------------------------------------------
(* Operations, and the scopes built from them.                             *)

Op(o) == <<[op |-> o, arg |-> "none"]>>
OpOn(o, a) == <<[op |-> o, arg |-> a]>>

Lock(l) == OpOn("lock", l)
Unlock(l) == OpOn("unlock", l)
Region(l, body) == Lock(l) \o body \o Unlock(l)

\* TXN_PREFIX_RDONLY: the constructor of mdb_txn_safe, block_rtxn_start, and
\* the destructor at the end of the scope around `body`.
Reading(body) == Op("txn_safe") \o Op("rtxn_start") \o body \o Op("end_txn_safe")
Read == Reading(<<>>)

\* db_rtxn_guard around `body`, closed by its destructor.
Guarded(body) == Op("guard") \o body \o Op("end_guard")

\* db_rtxn_guard closed by an explicit stop() after `body`.
GuardedUntilStop(body) == Op("guard") \o body \o Op("stop_guard")

\* A write transaction of its own, outside any batch (prune_worker).
OwnTxn ==
  Op("txn_safe") \o OpOn("lock_writer", "writer") \o Unlock("writer") \o Op("uncount")

\* A scope that starts a batch if it can and ends the one it started.
InBatch(body) == OpOn("batch_start", "unsized") \o body \o Op("batch_end")

LockedTXN(body) == InBatch(body)

----------------------------------------------------------------------------
(* Entry points of tx_memory_pool and of the reading side of Blockchain.   *)

have_tx == Region("pool", Region("chain", Read))

prune == Region("pool", Region("chain", LockedTXN(Read \o Op("write"))))

add_tx ==
  Region("pool",
    Region("chain", Read) \o Region("chain", LockedTXN(Read \o Op("write"))) \o prune)

take_tx == Region("pool", Region("chain", LockedTXN(Read \o Op("write"))))

RemoveStuckWithoutPoolLock ==
  Region("chain", Read \o LockedTXN(Op("write")))

remove_stuck_transactions ==
  Region("pool", Region("chain", Read \o LockedTXN(Op("write"))))

get_relayable_transactions ==
  Region("pool", Region("chain", LockedTXN(Reading(Read) \o Op("write"))))

fill_block_template ==
  Region("pool", Region("chain", LockedTXN(Read \o Op("write"))))

TemplateChainLockFirst ==
  Region("chain", Region("pool", Read \o fill_block_template))

create_block_template ==
  Region("pool", Region("chain", Read \o fill_block_template))

SupplementWithoutChainLock == Guarded(Read)

find_blockchain_supplement == Region("chain", Guarded(Read))

\* Blockchain::have_tx reads one table without m_blockchain_lock.
blockchain_have_tx == Read

\* get_output_histogram opens a transaction and calls height(),
\* get_output_tx_and_index() and others inside it, each with its own
\* mdb_txn_safe.  The RPC server calls it without m_blockchain_lock.
get_output_histogram == Reading(Read)

pop_blocks ==
  Region("pool", Region("chain", InBatch(Read \o Op("write") \o add_tx)))

store_blockchain == Region("sync", Op("sync"))

update_blockchain_pruning == Region("pool", Region("chain", OwnTxn))

check_against_checkpoints == Region("chain", InBatch(Read))

----------------------------------------------------------------------------
(* Adding blocks: prepare, transactions, blocks, cleanup.                  *)

handle_block_to_main_chain ==
  Region("chain", GuardedUntilStop(Read \o take_tx) \o Op("write"))

add_new_block ==
  Region("pool", Region("chain", GuardedUntilStop(Read) \o handle_block_to_main_chain))

\* m_tx_pool.lock() is released by cleanup, the chain lock at the return.
\* The outputs the blocks spend are looked up by jobs of the thread pool.
blockchain_prepare(scans) ==
  Lock("pool")
    \o Region("chain", OpOn("batch_start", "sized") \o Read \o (IF scans THEN Op("submit") ELSE <<>>))

blockchain_cleanup(force_sync) ==
  Region("chain", Op("batch_end") \o (IF force_sync THEN store_blockchain ELSE <<>>))
    \o Unlock("pool") \o update_blockchain_pruning

core_cleanup(force_sync) == blockchain_cleanup(force_sync) \o Unlock("incoming")

core_prepare(scans) == Lock("incoming") \o blockchain_prepare(scans)

PrepareFailsKeepingLocks == core_prepare(FALSE)

\* prepare returned false after it had started its batch.
core_prepare_fails == core_prepare(FALSE) \o core_cleanup(FALSE)

output_scan_worker == Read

handle_incoming_txs ==
  Region("incoming", have_tx \o blockchain_have_tx \o add_tx)

handle_incoming_block(template) ==
  check_against_checkpoints \o add_new_block
    \o (IF template THEN create_block_template ELSE <<>>)

Paused(body) == Op("pause") \o body \o Op("resume")

\* The early returns of each handler are sequences of their own.
handle_notify_new_block ==
  {Paused(core_prepare_fails),
   Paused(core_prepare(TRUE) \o handle_incoming_txs \o core_cleanup(FALSE)),
   Paused(core_prepare(TRUE) \o handle_incoming_txs
            \o handle_incoming_block(TRUE) \o core_cleanup(TRUE))}

\* The loop reads the height of the chain first.
try_add_next_blocks ==
  {Paused(Read \o core_prepare_fails),
   Paused(Read \o core_prepare(FALSE) \o core_cleanup(FALSE)),
   Paused(Read \o core_prepare(TRUE) \o handle_incoming_txs \o core_cleanup(FALSE)),
   Paused(Read \o core_prepare(TRUE) \o handle_incoming_txs
            \o handle_incoming_block(FALSE) \o core_cleanup(FALSE))}

\* A block without transactions reads nothing before prepare.
handle_block_found ==
  {Paused(have_tx),
   Paused(core_prepare_fails),
   Paused(core_prepare(TRUE) \o add_new_block \o core_cleanup(TRUE)
            \o create_block_template)}

Paths ==
  [handle_notify_new_block |-> handle_notify_new_block,
   try_add_next_blocks     |-> try_add_next_blocks,
   handle_block_found      |-> handle_block_found,
   handle_incoming_txs     |-> {handle_incoming_txs},
   on_idle                 |-> {remove_stuck_transactions, get_relayable_transactions},
   create_block_template   |-> {create_block_template},
   find_blockchain_supplement |-> {find_blockchain_supplement},
   have_tx                 |-> {have_tx, blockchain_have_tx},
   pop_blocks              |-> {pop_blocks},
   store_blockchain        |-> {store_blockchain},
   get_output_histogram    |-> {get_output_histogram}]

----------------------------------------------------------------------------
(* Steps: one operation of one thread.                                     *)

At(t, o) == todo[t] # <<>> /\ Head(todo[t]).op = o
Arg(t) == Head(todo[t]).arg
Advance(t) == todo' = [todo EXCEPT ![t] = Tail(@)]
Expand(t, ops) == todo' = [todo EXCEPT ![t] = ops \o Tail(@)]
Open(t, began) == frames' = [frames EXCEPT ![t] = <<began>> \o @]
Close(t) == frames' = [frames EXCEPT ![t] = Tail(@)]
Began(t) == Head(frames[t])
Free == [owner |-> NoThread, depth |-> 0]
Released(l) ==
  IF locks[l].depth = 1 THEN Free ELSE [locks[l] EXCEPT !.depth = @ - 1]

\* block_rtxn_start returns false: the thread has a write transaction, or a
\* read transaction that is already open, and uses it.
Nested(t) == batch = t \/ rtxn[t]

Init ==
  /\ todo = [t \in All |-> <<>>]
  /\ calls = [t \in Threads |-> 0]
  /\ locks = [l \in Mutexes |-> Free]
  /\ frames = [t \in All |-> <<>>]
  /\ batch = NoThread
  /\ gate = NoThread
  /\ active = 0
  /\ rtxn = [t \in All |-> FALSE]
  /\ info = [t \in All |-> FALSE]
  /\ pausers = 0

Call(t) ==
  /\ todo[t] = <<>>
  /\ calls[t] < MaxCalls
  /\ \E e \in Entries[t] : \E path \in Paths[e] : todo' = [todo EXCEPT ![t] = path]
  /\ calls' = [calls EXCEPT ![t] = @ + 1]
  /\ UNCHANGED <<lockVars, dbVars>>

LockStep(t) ==
  /\ \/ At(t, "lock") /\ locks[Arg(t)].owner \in {NoThread, t}
     \/ At(t, "lock_writer") /\ locks["writer"].owner = NoThread
  /\ locks' = [locks EXCEPT ![Arg(t)] = [owner |-> t, depth |-> @.depth + 1]]
  /\ Advance(t)
  /\ UNCHANGED <<calls, pausers, dbVars>>

UnlockStep(t) ==
  /\ At(t, "unlock")
  /\ locks' = [locks EXCEPT ![Arg(t)] = Released(Arg(t))]
  /\ Advance(t)
  /\ UNCHANGED <<calls, pausers, dbVars>>

pause(t) ==
  /\ At(t, "pause")
  /\ pausers' = pausers + 1
  /\ Advance(t)
  /\ UNCHANGED <<calls, locks, dbVars>>

resume(t) ==
  /\ At(t, "resume")
  /\ pausers' = IF pausers = 0 THEN 0 ELSE pausers - 1
  /\ Advance(t)
  /\ UNCHANGED <<calls, locks, dbVars>>

\* output_scan_worker on a thread of the pool; the caller waits for it.
submit(t) ==
  /\ At(t, "submit")
  /\ \E w \in Workers :
       /\ todo[w] = <<>>
       /\ todo' = [todo EXCEPT ![w] = output_scan_worker,
                               ![t] = OpOn("wait", w) \o Tail(@)]
  /\ UNCHANGED <<calls, lockVars, dbVars>>

wait(t) ==
  /\ At(t, "wait")
  /\ todo[Arg(t)] = <<>>
  /\ Advance(t)
  /\ UNCHANGED <<calls, lockVars, dbVars>>

\* Statements that change no lock and no transaction: a write through
\* m_write_txn, and mdb_env_sync.
Work(t) ==
  /\ At(t, "write") \/ At(t, "sync")
  /\ Advance(t)
  /\ UNCHANGED <<calls, lockVars, dbVars>>

\* The constructor spins until the gate is open, then counts itself.
txn_safe(t) ==
  /\ At(t, "txn_safe")
  /\ gate = NoThread
  /\ active' = active + 1
  /\ Advance(t)
  /\ UNCHANGED <<calls, lockVars, frames, batch, gate, rtxn, info>>

\* The destructor of a transaction that block_rtxn_start did not begin.
uncount(t) ==
  /\ At(t, "uncount")
  /\ active' = active - 1
  /\ Advance(t)
  /\ UNCHANGED <<calls, lockVars, frames, batch, gate, rtxn, info>>

\* block_rtxn_start; a nested one unchecks its mdb_txn_safe.
rtxn_start(t) ==
  /\ At(t, "rtxn_start")
  /\ Open(t, ~Nested(t))
  /\ active' = IF Nested(t) THEN active - 1 ELSE active
  /\ rtxn' = [rtxn EXCEPT ![t] = @ \/ batch # t]
  /\ info' = [info EXCEPT ![t] = @ \/ batch # t]
  /\ Advance(t)
  /\ UNCHANGED <<calls, lockVars, batch, gate>>

end_txn_safe(t) ==
  /\ At(t, "end_txn_safe")
  /\ Close(t)
  /\ active' = IF Began(t) THEN active - 1 ELSE active
  /\ rtxn' = [rtxn EXCEPT ![t] = @ /\ ~Began(t)]
  /\ Advance(t)
  /\ UNCHANGED <<calls, lockVars, batch, gate, info>>

\* db_rtxn_guard: block_rtxn_start without an mdb_txn_safe.
guard(t) ==
  /\ At(t, "guard")
  /\ Open(t, ~Nested(t))
  /\ rtxn' = [rtxn EXCEPT ![t] = @ \/ batch # t]
  /\ info' = [info EXCEPT ![t] = @ \/ batch # t]
  /\ Advance(t)
  /\ UNCHANGED <<calls, lockVars, batch, gate, active>>

end_guard(t) ==
  /\ At(t, "end_guard")
  /\ Close(t)
  /\ rtxn' = [rtxn EXCEPT ![t] = @ /\ ~Began(t)]
  /\ Advance(t)
  /\ UNCHANGED <<calls, lockVars, batch, gate, active, info>>

\* stop() calls block_rtxn_stop whether or not the guard began anything.
stop_guard(t) ==
  /\ At(t, "stop_guard")
  /\ Close(t)
  /\ rtxn' = [rtxn EXCEPT ![t] = FALSE]
  /\ Advance(t)
  /\ UNCHANGED <<calls, lockVars, batch, gate, active, info>>

do_resize ==
  Region("sync", Op("prevent_new_txns") \o Op("wait_no_active_txns")
                   \o Op("set_mapsize") \o Op("allow_new_txns"))

ResizeWithoutEstimate(size, need_resize) ==
  IF need_resize THEN do_resize ELSE <<>>

\* get_estimated_batch_size reads the height when the blocks are known.
check_and_resize_for_batch(size, need_resize) ==
  (IF size = "sized" THEN Read ELSE <<>>) \o (IF need_resize THEN do_resize ELSE <<>>)

\* prepare lets go of the chain and pool locks, sleeps and tries again.
PrepareRetry ==
  Unlock("chain") \o Unlock("pool") \o Lock("pool") \o Lock("chain")
    \o OpOn("batch_start", "sized")

\* While a batch exists batch_start returns false.
batch_start(t) ==
  /\ At(t, "batch_start")
  /\ \/ /\ batch = NoThread
        /\ \E need_resize \in BOOLEAN :
             Expand(t, check_and_resize_for_batch(Arg(t), need_resize)
                         \o Op("txn_safe") \o OpOn("lock_writer", "writer")
                         \o Op("begin_batch"))
        /\ UNCHANGED frames
     \/ /\ batch # NoThread
        /\ Expand(t, IF Arg(t) = "sized" THEN PrepareRetry ELSE <<>>)
        /\ IF Arg(t) = "sized" THEN UNCHANGED frames ELSE Open(t, FALSE)
  /\ UNCHANGED <<calls, lockVars, batch, gate, active, rtxn, info>>

begin_batch(t) ==
  /\ At(t, "begin_batch")
  /\ batch' = t
  /\ Open(t, TRUE)
  /\ rtxn' = [rtxn EXCEPT ![t] = FALSE]
  /\ Advance(t)
  /\ UNCHANGED <<calls, lockVars, gate, active, info>>

\* batch_stop or batch_abort, by the scope that began the batch.
batch_end(t) ==
  /\ At(t, "batch_end")
  /\ Close(t)
  /\ batch' = IF Began(t) THEN NoThread ELSE batch
  /\ locks' = IF Began(t) THEN [locks EXCEPT !["writer"] = Free] ELSE locks
  /\ active' = IF Began(t) THEN active - 1 ELSE active
  /\ Advance(t)
  /\ UNCHANGED <<calls, pausers, gate, rtxn, info>>

prevent_new_txns(t) ==
  /\ At(t, "prevent_new_txns")
  /\ gate = NoThread
  /\ gate' = t
  /\ Advance(t)
  /\ UNCHANGED <<calls, lockVars, frames, batch, active, rtxn, info>>

wait_no_active_txns(t) ==
  /\ At(t, "wait_no_active_txns")
  /\ active = 0
  /\ Advance(t)
  /\ UNCHANGED <<calls, lockVars, dbVars>>

set_mapsize(t) ==
  /\ At(t, "set_mapsize")
  /\ Advance(t)
  /\ UNCHANGED <<calls, lockVars, dbVars>>

allow_new_txns(t) ==
  /\ At(t, "allow_new_txns")
  /\ gate' = NoThread
  /\ Advance(t)
  /\ UNCHANGED <<calls, lockVars, frames, batch, active, rtxn, info>>

Step(t) ==
  \/ LockStep(t) \/ UnlockStep(t) \/ pause(t) \/ resume(t)
  \/ submit(t) \/ wait(t) \/ Work(t)
  \/ txn_safe(t) \/ uncount(t) \/ rtxn_start(t) \/ end_txn_safe(t)
  \/ guard(t) \/ end_guard(t) \/ stop_guard(t)
  \/ batch_start(t) \/ begin_batch(t) \/ batch_end(t)
  \/ prevent_new_txns(t) \/ wait_no_active_txns(t) \/ set_mapsize(t) \/ allow_new_txns(t)

Next == (\E t \in All : Step(t)) \/ (\E t \in Threads : Call(t))

Fairness == \A t \in All : WF_vars(Step(t))

Spec == Init /\ [][Next]_vars /\ Fairness

----------------------------------------------------------------------------
(* Properties.                                                             *)

TypeOK ==
  /\ calls \in [Threads -> 0..MaxCalls]
  /\ locks \in [Mutexes -> [owner : All \cup {NoThread}, depth : Nat]]
  /\ \A t \in All : frames[t] \in Seq(BOOLEAN)
  /\ {batch, gate} \subseteq All \cup {NoThread}
  /\ {active, pausers} \subseteq Nat
  /\ {rtxn, info} \subseteq [All -> BOOLEAN]

\* Every call returns: no thread waits for ever for a mutex, for the gate or
\* for the count of open transactions, whatever the others are doing.
CallsReturn == \A t \in All : []<>(todo[t] = <<>>)

\* LockedTXN's promise: a thread that writes to the database does so in its
\* own batch, never in one that another thread began and may abort.
WritesAreOwn == \A t \in All : At(t, "write") => batch = t

\* The map is replaced (mdb_env_set_mapsize) only while no transaction is
\* open in the process, counted or not, and no mdb_env_sync is running.
MapIsStill ==
  \A t \in All : At(t, "set_mapsize") =>
    /\ batch = NoThread
    /\ \A u \in All : ~rtxn[u] /\ ~At(u, "sync")

\* db_rtxn_guard::stop resets the thread's read transaction, so the thread
\* has one even when all its own reads went through the write transaction.
StoppedReadExists == \A t \in All : At(t, "stop_guard") => info[t]

\* Between calls a thread holds no mutex and has no transaction open, on
\* every early return; with no call running the count of transactions is
\* back at zero and the miner is not left paused.
NothingKept ==
  /\ \A t \in All : todo[t] = <<>> =>
       /\ \A l \in Mutexes : locks[l].owner # t
       /\ frames[t] = <<>> /\ ~rtxn[t] /\ t \notin {batch, gate}
  /\ (\A t \in All : todo[t] = <<>>) => active = 0 /\ pausers = 0

\* "this should be sufficient" (creation_gate): a thread that has a counted
\* transaction open never waits at the gate for a resize that waits for it.
GateSuffices ==
  ~ \E t, u \in All :
      /\ At(t, "wait_no_active_txns") /\ gate = t /\ active > 0
      /\ At(u, "txn_safe") /\ rtxn[u]
=============================================================================
