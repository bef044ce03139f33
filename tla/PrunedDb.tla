------------------------------ MODULE PrunedDb ------------------------------
(* The database of a node that prunes (db_lmdb.cpp): blocks are added and
   popped, prune_worker goes through the transactions and deletes the prunable
   part of those outside the node's stripe.  It writes in one database
   transaction and commits it after every CommitEvery deletions, so an
   exception or the end of the process leaves what was committed last.  The
   locks of Blockchain keep adding, popping and pruning apart.

   A transaction is known by its height: prune_worker asks for nothing else
   but its version, and the heights in V1 stand for transactions of version 1. *)
EXTENDS Pruning, FiniteSetsExt

CONSTANTS
  V1,           \* heights whose transaction has version 1, which is never pruned
  CommitEvery,  \* deletions between two commits (4096)
  MaxHeight     \* bound on the height

ASSUME DbAssumption ==
  V1 \subseteq Nat /\ CommitEvery \in Nat \ {0} /\ MaxHeight \in Nat \ {0}

VARIABLES
  db,           \* [height, prunable, tip, seed]: the tables as their writer sees them
  worker,       \* the run of prune_worker in progress, or NoWorker
  top,          \* history: the greatest height at which prune_worker ran
  interrupted   \* history: the first prune was cut short after a commit

vars == <<db, worker, top, interrupted>>

NoWorker == [mode |-> "none"]
Idle == worker = NoWorker

add_transaction_data ==
  /\ Idle /\ db.height < MaxHeight
  /\ db' = [db EXCEPT !.height = @ + 1, !.prunable = @ \cup {db.height},
                      !.tip = IF db.seed # 0 THEN @ \cup {db.height} ELSE @]
  /\ UNCHANGED <<worker, top, interrupted>>

remove_transaction_data ==
  /\ Idle /\ db.height > 1
  /\ LET h == db.height - 1
     IN  db' = [db EXCEPT !.height = h, !.prunable = @ \ {h}, !.tip = @ \ {h}]
  /\ UNCHANGED <<worker, top, interrupted>>

(* prune_worker up to its loop; the seed it writes is committed with the rest. *)
StartWorker(mode, seed, todo) ==
  /\ Idle
  /\ db' = [db EXCEPT !.seed = seed]
  /\ worker' = [mode |-> mode, todo |-> todo, commit_counter |-> 0, saved |-> db,
                first |-> db.seed = 0]
  /\ top' = Max({top, db.height})
  /\ UNCHANGED interrupted

(* Asked for the seed it has or for none in particular, prune_blockchain goes
   through all transactions again; asked for another it throws.             *)
prune_blockchain ==
  \E seed \in Seeds :
    db.seed \in {0, seed} /\ StartWorker("prune", seed, 0 .. db.height - 1)

update_pruning == db.seed # 0 /\ StartWorker("update", db.seed, db.tip)

-----------------------------------------------------------------------------
(* Mutant: a transaction is out of the tip one block too early. *)
AgedEarly(h) == h + TipBlocks <= db.height

Aged(h) == h + TipBlocks < db.height

(* Mutant: the version of a transaction is not looked at. *)
DoomedAnyVersion(h) == ~has_unpruned_block(h, db.height, db.seed)

Doomed(h) == ~has_unpruned_block(h, db.height, db.seed) /\ h \notin V1

(* The tables after prune_worker has seen the transaction of height h. *)
TipSeen(h) ==
  IF Aged(h)
  THEN [db EXCEPT !.prunable = @ \ {x \in {h} : Doomed(x)}, !.tip = @ \ {h}]
  ELSE db

IndexSeen(h) ==
  [db EXCEPT !.prunable = @ \ {x \in {h} : Doomed(x)},
             !.tip = IF Aged(h) THEN @ ELSE @ \cup {h}]

(* One round of the loop.  At a commit the cursors are opened anew: the one of
   the index is put back in its place, the one of the tip starts over.      *)
Round(h, after, reopened) ==
  LET deleted == Cardinality(db.prunable \ after.prunable)
      rest == [worker EXCEPT !.todo = @ \ {h}, !.commit_counter = @ + deleted]
  IN  /\ db' = after
      /\ worker' = IF rest.commit_counter >= CommitEvery
                   THEN [rest EXCEPT !.todo = reopened, !.commit_counter = 0, !.saved = after]
                   ELSE rest

(* The tip table is in the order of the chain. *)
prune_tip ==
  /\ worker.mode = "update" /\ worker.todo # {}
  /\ LET h == Min(worker.todo) IN Round(h, TipSeen(h), TipSeen(h).tip)
  /\ UNCHANGED <<top, interrupted>>

(* The index is in the order of the hashes. *)
prune_index ==
  /\ worker.mode = "prune"
  /\ \E h \in worker.todo : Round(h, IndexSeen(h), worker.todo \ {h})
  /\ UNCHANGED <<top, interrupted>>

finish ==
  /\ ~Idle /\ worker.todo = {}
  /\ worker' = NoWorker
  /\ interrupted' = (interrupted /\ worker.mode # "prune")
  /\ UNCHANGED <<db, top>>

(* An exception out of prune_worker, or the end of the process. *)
crash ==
  /\ ~Idle
  /\ db' = worker.saved /\ worker' = NoWorker
  /\ interrupted' = (interrupted \/ (worker.first /\ worker.saved.seed # 0))
  /\ UNCHANGED top

Init ==
  /\ db = [height |-> 1, prunable |-> {0}, tip |-> {}, seed |-> 0]
  /\ worker = NoWorker /\ top = 0 /\ interrupted = FALSE

Next ==
  \/ add_transaction_data \/ remove_transaction_data
  \/ prune_blockchain \/ update_pruning
  \/ prune_tip \/ prune_index \/ finish \/ crash

Spec == Init /\ [][Next]_vars

-----------------------------------------------------------------------------
Heights == 0 .. db.height - 1

(* Types; the tables hold heights of the chain. *)
TypeOK ==
  /\ db.height \in 1 .. MaxHeight /\ db.seed \in Seeds \cup {0}
  /\ db.prunable \subseteq Heights /\ db.tip \subseteq Heights
  /\ Idle \/ (worker.todo \subseteq Heights /\ worker.commit_counter < CommitEvery)

(* What is gone is what the seed told the others would go: prunable data is
   missing only for transactions of version 2 outside the node's stripe, and
   outside the last blocks of the longest chain it pruned at.  This holds in
   the middle of a run and after one that was cut short.  Right after blocks
   were popped has_unpruned_block promises more than there is.              *)
MissingIsPruned ==
  \A h \in Heights \ db.prunable :
    h \notin V1 /\ ~has_unpruned_block(h, top, db.seed)

(* update_pruning looks at the tip table alone, so what is to be pruned some
   day has to be in it: a transaction may be missing there only if it left the
   last blocks before some run and is pruned, of the node's stripe or of
   version 1.  One exception is part of the code: a first prune that was cut
   short after a commit is continued by no update, only by another
   prune_blockchain.                                                        *)
TipIsComplete ==
  Idle /\ db.seed # 0 /\ ~interrupted =>
    \A h \in Heights \ db.tip :
      /\ h + TipBlocks < top
      /\ \/ h \in V1 \/ h \notin db.prunable
         \/ has_unpruned_block(h, top, db.seed)

(* get_next_unpruned_block_height returns the first height from the given one
   on that the peer of a seed has, and up to get_next_pruned_block_height the
   peer has all: what reserve_span asks a peer for is there, and no peer is
   passed over.                                                             *)
NextUnprunedIsNext ==
  Idle => \A h \in 0 .. db.height + 1, seed \in Seeds \cup {0} :
    LET next == get_next_unpruned_block_height(h, db.height, seed)
        until == get_next_pruned_block_height(h, db.height, seed)
    IN  /\ next = Min({k \in h .. h + db.height : has_unpruned_block(k, db.height, seed)})
        /\ \A k \in h .. until - 1 : has_unpruned_block(k, db.height, seed)
        /\ has_unpruned_block(until, db.height, seed) => until + TipBlocks >= db.height
=============================================================================
