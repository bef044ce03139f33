--------------------------- MODULE PrunedDbProofs ---------------------------
(* MissingIsPruned for every stripe size, number of stripes, tip, interval of
   commits and height.                                                      *)
EXTENDS PrunedDb, TLAPS

IsDb(d) ==
  /\ DOMAIN d = {"height", "prunable", "tip", "seed"}
  /\ d.height \in Nat /\ d.seed \in Seeds \cup {0}

(* What d has lost was to go at the height top. *)
Lost(d) ==
  \A h \in 0 .. d.height - 1 :
    h \in d.prunable \/ (h \notin V1 /\ ~has_unpruned_block(h, top, d.seed))

(* The tables a crash returns to have to be safe as well, and a run never
   works at a height above top.                                             *)
PruneInv ==
  /\ top \in Nat /\ IsDb(db) /\ Lost(db)
  /\ ~Idle => /\ DOMAIN worker = {"mode", "todo", "commit_counter", "saved", "first"}
              /\ IsDb(worker.saved) /\ Lost(worker.saved)
              /\ db.height <= top

(* A block that is pruned at one height of the chain is pruned at every
   greater one (has_unpruned_block, get_pruning_stripe).                    *)
LEMMA PrunedStaysPruned ==
  ASSUME NEW h \in Nat, NEW low \in Nat, NEW high \in Nat, NEW seed,
         low <= high, ~has_unpruned_block(h, low, seed)
  PROVE  ~has_unpruned_block(h, high, seed)
BY PruningAssumption DEF has_unpruned_block, get_pruning_stripe

(* Once out of the last blocks a block that is kept is kept for good
   (has_unpruned_block, get_pruning_stripe).                                *)
LEMMA KeptStaysKept ==
  ASSUME NEW h \in Nat, NEW low \in Nat, NEW high \in Nat, NEW seed,
         low <= high, h + TipBlocks < low, has_unpruned_block(h, low, seed)
  PROVE  has_unpruned_block(h, high, seed)
BY PruningAssumption DEF has_unpruned_block, get_pruning_stripe

(* A node without a seed is asked for everything (has_unpruned_block).      *)
LEMMA UnprunedHasAll ==
  ASSUME NEW h, NEW height PROVE has_unpruned_block(h, height, 0)
BY DEF has_unpruned_block, SeedStripe

(* The greatest of two numbers is one of them and not below either (Max).  *)
LEMMA MaxOfTwo ==
  ASSUME NEW a \in Nat, NEW b \in Nat
  PROVE  Max({a, b}) \in Nat /\ Max({a, b}) >= a /\ Max({a, b}) >= b
<1>1. \E x \in {a, b} : \A y \in {a, b} : x >= y
  <2>1. CASE a >= b BY <2>1
  <2>2. CASE b >= a BY <2>2
  <2> QED BY <2>1, <2>2
<1>2. Max({a, b}) \in {a, b} /\ \A y \in {a, b} : Max({a, b}) >= y
  BY <1>1, Zenon DEF Max
<1> QED BY <1>2

(* prune_worker's start keeps the invariant: it may raise top and write the
   seed into tables from which nothing is missing yet.                      *)
LEMMA StartKeeps ==
  ASSUME PruneInv, NEW mode, NEW seed \in Seeds, NEW todo, db.seed \in {0, seed},
         StartWorker(mode, seed, todo)
  PROVE  PruneInv'
<1>1. top' \in Nat /\ top' >= top /\ top' >= db.height
  BY MaxOfTwo DEF StartWorker, PruneInv, IsDb
<1>2. IsDb(db)' /\ db'.height = db.height /\ db'.prunable = db.prunable /\ db'.seed = seed
  BY DEF StartWorker, PruneInv, IsDb
<1>3. worker' = [mode |-> mode, todo |-> todo, commit_counter |-> 0, saved |-> db,
                 first |-> db.seed = 0]
  BY Zenon DEF StartWorker
<1>4. ASSUME NEW h \in 0 .. db.height - 1, h \notin db.prunable
      PROVE  h \notin V1 /\ ~has_unpruned_block(h, top', seed)
             /\ ~has_unpruned_block(h, top', db.seed)
  <2>1. h \notin V1 /\ ~has_unpruned_block(h, top, db.seed)
    BY <1>4 DEF PruneInv, Lost
  <2>2. db.seed = seed
    BY <2>1, UnprunedHasAll, Zenon
  <2>3. h \in Nat
    BY DEF PruneInv, IsDb
  <2> QED BY <2>1, <2>2, <2>3, <1>1, PrunedStaysPruned DEF PruneInv
<1>5. Lost(db)' /\ Lost(worker.saved)'
  BY <1>2, <1>3, <1>4, Zenon DEF Lost
<1>6. IsDb(worker.saved)' /\ db'.height <= top'
      /\ DOMAIN worker' = {"mode", "todo", "commit_counter", "saved", "first"}
  BY <1>1, <1>2, <1>3 DEF PruneInv, IsDb
<1> QED BY <1>1, <1>2, <1>5, <1>6, Zenon DEF PruneInv

(* A round of the loop keeps it: what it deletes is doomed at the height of
   the chain, so also at top.                                               *)
LEMMA RoundKeeps ==
  ASSUME PruneInv, ~Idle, NEW h, NEW reopened, NEW after, IsDb(after),
         after.height = db.height, after.seed = db.seed,
         \A k \in db.prunable \ after.prunable : Doomed(k),
         Round(h, after, reopened), UNCHANGED top
  PROVE  PruneInv'
<1>1. Lost(after)
  <2> SUFFICES ASSUME NEW k \in 0 .. db.height - 1, k \notin after.prunable
               PROVE  k \notin V1 /\ ~has_unpruned_block(k, top, db.seed)
    BY DEF Lost
  <2>1. CASE k \notin db.prunable
    BY <2>1 DEF PruneInv, Lost
  <2>2. CASE k \in db.prunable
    <3>1. k \notin V1 /\ ~has_unpruned_block(k, db.height, db.seed)
      BY <2>2, Zenon DEF Doomed
    <3> QED BY <3>1, PrunedStaysPruned DEF PruneInv, IsDb
  <2> QED BY <2>1, <2>2, Zenon
<1>2. db' = after /\ worker'.saved \in {worker.saved, after}
      /\ DOMAIN worker' = DOMAIN worker
  BY DEF Round, PruneInv
<1>3. Lost(db)' /\ Lost(worker.saved)'
  BY <1>1, <1>2 DEF Lost, PruneInv
<1> QED BY <1>1, <1>2, <1>3 DEF PruneInv

(* Every step keeps the invariant.                                          *)
LEMMA StepKeeps == PruneInv /\ [Next]_vars => PruneInv'
<1> SUFFICES ASSUME PruneInv, [Next]_vars PROVE PruneInv'
  BY Zenon
<1>1. CASE add_transaction_data
  <2>1. IsDb(db)' /\ db'.height = db.height + 1 /\ db'.seed = db.seed
        /\ db'.prunable = db.prunable \cup {db.height}
    BY <1>1 DEF add_transaction_data, PruneInv, IsDb
  <2>2. Lost(db)'
    BY <1>1, <2>1 DEF add_transaction_data, PruneInv, Lost, IsDb
  <2> QED BY <1>1, <2>1, <2>2, Zenon DEF add_transaction_data, PruneInv, Idle
<1>2. CASE remove_transaction_data
  <2>1. IsDb(db)' /\ db'.height = db.height - 1 /\ db'.seed = db.seed
        /\ db'.prunable = db.prunable \ {db.height - 1}
    BY <1>2 DEF remove_transaction_data, PruneInv, IsDb
  <2>2. Lost(db)'
    BY <1>2, <2>1 DEF remove_transaction_data, PruneInv, Lost, IsDb
  <2> QED BY <1>2, <2>1, <2>2, Zenon DEF remove_transaction_data, PruneInv, Idle
<1>3. CASE prune_blockchain
  BY <1>3, StartKeeps DEF prune_blockchain
<1>4. CASE update_pruning
  BY <1>4, StartKeeps DEF update_pruning, PruneInv, IsDb
<1>5. CASE prune_tip
  <2>1. ~Idle
    BY <1>5 DEF prune_tip, Idle, NoWorker
  <2>2. PICK h : Round(h, TipSeen(h), TipSeen(h).tip)
    BY <1>5, Zenon DEF prune_tip
  <2>3. /\ IsDb(TipSeen(h))
        /\ TipSeen(h).height = db.height /\ TipSeen(h).seed = db.seed
        /\ \A k \in db.prunable \ TipSeen(h).prunable : Doomed(k)
    BY DEF TipSeen, PruneInv, IsDb
  <2> QED BY <1>5, <2>1, <2>2, <2>3, RoundKeeps DEF prune_tip
<1>6. CASE prune_index
  <2>1. ~Idle
    BY <1>6 DEF prune_index, Idle, NoWorker
  <2>2. PICK h \in worker.todo : Round(h, IndexSeen(h), worker.todo \ {h})
    BY <1>6, Zenon DEF prune_index
  <2>3. /\ IsDb(IndexSeen(h))
        /\ IndexSeen(h).height = db.height /\ IndexSeen(h).seed = db.seed
        /\ \A k \in db.prunable \ IndexSeen(h).prunable : Doomed(k)
    BY DEF IndexSeen, PruneInv, IsDb
  <2> QED BY <1>6, <2>1, <2>2, <2>3, RoundKeeps, Zenon DEF prune_index
<1>7. CASE finish
  BY <1>7 DEF finish, PruneInv, Idle, Lost
<1>8. CASE crash
  BY <1>8 DEF crash, PruneInv, Idle, Lost
<1>9. CASE UNCHANGED vars
  BY <1>9 DEF vars, PruneInv, Idle, Lost
<1> QED BY <1>1, <1>2, <1>3, <1>4, <1>5, <1>6, <1>7, <1>8, <1>9, Zenon DEF Next

(* prune_worker deletes nothing but what the seed announces, whatever is added
   and popped between its runs and wherever a run is cut short.             *)
THEOREM PruningSafety == Spec => []MissingIsPruned
<1>1. Init => PruneInv
  BY DEF Init, PruneInv, IsDb, Lost, Idle
<1>2. PruneInv => MissingIsPruned
  BY Zenon DEF PruneInv, MissingIsPruned, Lost, Heights
<1> QED BY <1>1, <1>2, StepKeeps, PTL DEF Spec

-----------------------------------------------------------------------------
(* A transaction that no update has to see, now or later. *)
Settled(d, h) ==
  \/ h \in d.tip
  \/ /\ h + TipBlocks < top
     /\ \/ h \in V1 \/ h \notin d.prunable
        \/ has_unpruned_block(h, top, d.seed)

Complete(d) == d.seed # 0 => \A h \in 0 .. d.height - 1 : Settled(d, h)

(* While prune_blockchain runs the transactions it has seen are settled; the
   rest may not be, which is why a crash after a commit can leave some behind
   when it is the first prune, and cannot when all were settled before.     *)
TipInv ==
  /\ Idle /\ ~interrupted => Complete(db)
  /\ ~Idle =>
       /\ worker.mode \in {"prune", "update"}
       /\ worker.first \in BOOLEAN
       /\ ~interrupted /\ ~worker.first => Complete(db) /\ Complete(worker.saved)
       /\ worker.mode = "update" => ~worker.first
       /\ worker.mode = "prune" =>
            \A h \in 0 .. db.height - 1 : h \in worker.todo \/ Settled(db, h)

(* A start of prune_worker raises top at most: what was settled stays so.   *)
LEMMA StartKeepsTip ==
  ASSUME PruneInv, TipInv, NEW mode \in {"prune", "update"}, NEW seed \in Seeds, NEW todo,
         db.seed \in {0, seed}, mode = "update" => db.seed = seed /\ seed # 0,
         mode = "prune" => todo = 0 .. db.height - 1,
         StartWorker(mode, seed, todo)
  PROVE  TipInv'
<1>1. top' \in Nat /\ top' >= top
  BY MaxOfTwo, Zenon DEF StartWorker, PruneInv, IsDb
<1>2. db'.height = db.height /\ db'.prunable = db.prunable /\ db'.tip = db.tip
      /\ db'.seed = seed
  BY DEF StartWorker, PruneInv, IsDb
<1>3. worker' = [mode |-> mode, todo |-> todo, commit_counter |-> 0, saved |-> db,
                 first |-> (db.seed = 0)]
  BY Zenon DEF StartWorker
<1>4. ~Idle'
  BY <1>3, Zenon DEF Idle, NoWorker
<1>5. ASSUME ~interrupted', ~worker'.first
      PROVE  Complete(db)' /\ Complete(worker.saved)'
  <2>1. db.seed = seed /\ worker'.saved = db /\ db.seed # 0
    BY <1>3, <1>5, Zenon
  <2>2. \A h \in 0 .. db.height - 1 : Settled(db, h)
    BY <1>5, <2>1, Zenon DEF StartWorker, TipInv, Complete
  <2>3. \A h \in 0 .. db.height - 1 : h \in Nat
    BY DEF PruneInv, IsDb
  <2>4. \A h \in 0 .. db.height - 1 : h + TipBlocks < top =>
          /\ h + TipBlocks < top'
          /\ has_unpruned_block(h, top, seed) => has_unpruned_block(h, top', seed)
    <3>1. top \in Nat /\ top' \in Nat /\ top <= top' /\ TipBlocks \in Nat
      BY <1>1, PruningAssumption DEF PruneInv
    <3>2. ASSUME NEW h \in Nat, h + TipBlocks < top
          PROVE  /\ h + TipBlocks < top'
                 /\ has_unpruned_block(h, top, seed) => has_unpruned_block(h, top', seed)
      <4>1. h + TipBlocks < top'
        BY ONLY <3>1, <3>2
      <4> QED BY <3>1, <3>2, <4>1, KeptStaysKept, Zenon
    <3> QED BY <2>3, <3>2, Zenon
  <2> QED BY <1>2, <2>1, <2>2, <2>4 DEF Complete, Settled
<1>6. worker'.mode = mode /\ worker'.first = (db.seed = 0) /\ worker'.todo = todo
  BY <1>3
<1>7. mode = "prune" => \A h \in 0 .. db'.height - 1 : h \in worker'.todo
  BY <1>2, <1>6, Zenon
<1> QED BY <1>4, <1>5, <1>6, <1>7, Zenon DEF TipInv

(* A transaction out of the last blocks that is not doomed, or has lost its
   data, is settled (Aged, Doomed).                                         *)
LEMMA AgedIsSettled ==
  ASSUME PruneInv, db.height <= top, NEW k \in 0 .. db.height - 1, Aged(k),
         NEW after, after.seed = db.seed, k \in after.prunable => ~Doomed(k)
  PROVE  Settled(after, k)
<1>1. k \in Nat /\ k + TipBlocks < db.height /\ k + TipBlocks < top
  BY PruningAssumption DEF Aged, PruneInv, IsDb
<1>2. CASE k \notin after.prunable
  BY <1>1, <1>2, Zenon DEF Settled
<1>3. CASE k \in V1
  BY <1>1, <1>3, Zenon DEF Settled
<1>4. CASE has_unpruned_block(k, db.height, db.seed)
  <2>1. has_unpruned_block(k, top, db.seed)
    BY <1>1, <1>4, KeptStaysKept DEF PruneInv, IsDb
  <2> QED BY <1>1, <2>1, Zenon DEF Settled
<1> QED BY <1>2, <1>3, <1>4, Zenon DEF Doomed

(* A round over the tip table leaves what was settled settled (TipSeen).    *)
LEMMA TipSeenSettles ==
  ASSUME PruneInv, db.height <= top, NEW h
  PROVE  \A k \in 0 .. db.height - 1 : Settled(db, k) => Settled(TipSeen(h), k)
<1> SUFFICES ASSUME NEW k \in 0 .. db.height - 1, Settled(db, k)
             PROVE  Settled(TipSeen(h), k)
  OBVIOUS
<1>1. CASE ~Aged(h)
  BY <1>1, Zenon DEF TipSeen
<1>2. CASE Aged(h)
  <2>1. /\ TipSeen(h).prunable = db.prunable \ {x \in {h} : Doomed(x)}
        /\ TipSeen(h).tip = db.tip \ {h} /\ TipSeen(h).seed = db.seed
    BY <1>2, Zenon DEF TipSeen, PruneInv, IsDb
  <2>2. CASE k # h
    BY <2>1, <2>2 DEF Settled
  <2>3. CASE k = h
    BY <1>2, <2>1, <2>3, AgedIsSettled, Zenon
  <2> QED BY <2>2, <2>3, Zenon
<1> QED BY <1>1, <1>2, Zenon

(* A round over the index settles its transaction too (IndexSeen).          *)
LEMMA IndexSeenSettles ==
  ASSUME PruneInv, db.height <= top, NEW h
  PROVE  \A k \in 0 .. db.height - 1 :
           k = h \/ Settled(db, k) => Settled(IndexSeen(h), k)
<1> SUFFICES ASSUME NEW k \in 0 .. db.height - 1, k = h \/ Settled(db, k)
             PROVE  Settled(IndexSeen(h), k)
  BY Zenon
<1>1. /\ IndexSeen(h).prunable = db.prunable \ {x \in {h} : Doomed(x)}
      /\ IndexSeen(h).tip = (IF Aged(h) THEN db.tip ELSE db.tip \cup {h})
      /\ IndexSeen(h).seed = db.seed
  BY Zenon DEF IndexSeen, PruneInv, IsDb
<1>2. CASE k # h
  BY <1>1, <1>2, Zenon DEF Settled
<1>3. CASE k = h /\ ~Aged(h)
  BY <1>1, <1>3 DEF Settled
<1>4. CASE k = h /\ Aged(h)
  BY <1>1, <1>4, AgedIsSettled
<1> QED BY <1>2, <1>3, <1>4, Zenon

(* What a round leaves in the worker (Round).                               *)
LEMMA RoundWorker ==
  ASSUME PruneInv, ~Idle, NEW h, NEW after, NEW reopened, Round(h, after, reopened)
  PROVE  /\ db' = after
         /\ worker'.mode = worker.mode /\ worker'.first = worker.first
         /\ worker'.saved \in {worker.saved, after}
         /\ worker'.todo \in {worker.todo \ {h}, reopened}
<1>1. DOMAIN worker = {"mode", "todo", "commit_counter", "saved", "first"}
  BY Zenon DEF PruneInv
<1> QED BY <1>1, Zenon DEF Round

(* Every step keeps what the tip table has to hold.                         *)
LEMMA StepKeepsTip == PruneInv /\ PruneInv' /\ TipInv /\ [Next]_vars => TipInv'
<1> SUFFICES ASSUME PruneInv, PruneInv', TipInv, [Next]_vars PROVE TipInv'
  BY Zenon
<1>1. CASE add_transaction_data
  <2>1. /\ db'.height = db.height + 1 /\ db'.seed = db.seed
        /\ db'.prunable = db.prunable \cup {db.height}
        /\ db.seed # 0 => db'.tip = db.tip \cup {db.height}
    BY <1>1 DEF add_transaction_data, PruneInv, IsDb
  <2>2. Idle /\ Idle' /\ UNCHANGED <<top, interrupted>>
    BY <1>1, Zenon DEF add_transaction_data, Idle
  <2>3. ASSUME ~interrupted, db.seed # 0, NEW h \in 0 .. db'.height - 1
        PROVE  Settled(db, h)'
    <3>1. CASE h = db.height
      BY <2>1, <2>3, <3>1, Zenon DEF Settled
    <3>2. CASE h \in 0 .. db.height - 1
      <4>1. Settled(db, h)
        BY <2>2, <2>3, <3>2, Zenon DEF TipInv, Complete
      <4>2. h # db.height
        BY <3>2 DEF PruneInv, IsDb
      <4> QED BY <2>1, <2>2, <2>3, <4>1, <4>2, Zenon DEF Settled
    <3> QED BY <2>1, <3>1, <3>2 DEF PruneInv, IsDb
  <2> QED BY <2>1, <2>2, <2>3, Zenon DEF TipInv, Complete
<1>2. CASE remove_transaction_data
  <2>1. /\ db'.height = db.height - 1 /\ db'.seed = db.seed
        /\ db'.prunable = db.prunable \ {db.height - 1}
        /\ db'.tip = db.tip \ {db.height - 1}
    BY <1>2 DEF remove_transaction_data, PruneInv, IsDb
  <2>2. Idle /\ Idle' /\ UNCHANGED <<top, interrupted>>
    BY <1>2, Zenon DEF remove_transaction_data, Idle
  <2>3. ASSUME ~interrupted, db.seed # 0, NEW h \in 0 .. db'.height - 1
        PROVE  Settled(db, h)'
    <3>1. h \in 0 .. db.height - 1 /\ h # db.height - 1
      BY <2>1 DEF PruneInv, IsDb
    <3>2. Settled(db, h)
      BY <2>2, <2>3, <3>1, Zenon DEF TipInv, Complete
    <3> QED BY <2>1, <2>2, <3>1, <3>2, Zenon DEF Settled
  <2> QED BY <2>1, <2>2, <2>3, Zenon DEF TipInv, Complete
<1>3. CASE prune_blockchain
  BY <1>3, StartKeepsTip DEF prune_blockchain
<1>4. CASE update_pruning
  BY <1>4, StartKeepsTip DEF update_pruning, PruneInv, IsDb
<1>5. CASE prune_tip
  <2>1. ~Idle /\ worker.mode = "update"
    BY <1>5 DEF prune_tip, Idle, NoWorker
  <2>2. PICK h : Round(h, TipSeen(h), TipSeen(h).tip)
    BY <1>5, Zenon DEF prune_tip
  <2>3. /\ db' = TipSeen(h) /\ worker'.mode = "update" /\ worker'.first = worker.first
        /\ worker'.saved \in {worker.saved, TipSeen(h)}
    BY <2>1, <2>2, RoundWorker
  <2>4. TipSeen(h).height = db.height /\ TipSeen(h).seed = db.seed
    BY Zenon DEF TipSeen, PruneInv, IsDb
  <2>5. UNCHANGED <<top, interrupted>> /\ ~Idle'
    BY <1>5, <2>3 DEF prune_tip, Idle, NoWorker
  <2>6. worker.first = FALSE /\ (~interrupted => Complete(db) /\ Complete(worker.saved))
    BY <2>1, Zenon DEF TipInv
  <2>7. Complete(db) => Complete(TipSeen(h))
    BY <2>1, <2>4, TipSeenSettles, Zenon DEF Complete, PruneInv
  <2>8. ~interrupted' => Complete(db)' /\ Complete(worker.saved)'
    BY <2>3, <2>5, <2>6, <2>7, Zenon DEF Complete, Settled
  <2> QED BY <2>3, <2>5, <2>6, <2>8, Zenon DEF TipInv
<1>6. CASE prune_index
  <2>1. ~Idle /\ worker.mode = "prune"
    BY <1>6 DEF prune_index, Idle, NoWorker
  <2>2. PICK h \in worker.todo : Round(h, IndexSeen(h), worker.todo \ {h})
    BY <1>6, Zenon DEF prune_index
  <2>3. /\ db' = IndexSeen(h) /\ worker'.mode = "prune" /\ worker'.first = worker.first
        /\ worker'.saved \in {worker.saved, IndexSeen(h)}
        /\ worker'.todo = worker.todo \ {h}
    BY <2>1, <2>2, RoundWorker
  <2>4. IndexSeen(h).height = db.height /\ IndexSeen(h).seed = db.seed
    BY DEF IndexSeen, PruneInv, IsDb
  <2>5. UNCHANGED <<top, interrupted>> /\ ~Idle'
    BY <1>6, <2>3 DEF prune_index, Idle, NoWorker
  <2>6. /\ worker.first \in BOOLEAN
        /\ ~interrupted /\ ~worker.first => Complete(db) /\ Complete(worker.saved)
        /\ \A k \in 0 .. db.height - 1 : k \in worker.todo \/ Settled(db, k)
    BY <2>1, Zenon DEF TipInv
  <2>7. \A k \in 0 .. db.height - 1 : k = h \/ Settled(db, k) => Settled(IndexSeen(h), k)
    BY <2>1, IndexSeenSettles DEF PruneInv
  <2>8. Complete(db) => Complete(IndexSeen(h))
    BY <2>4, <2>7, Zenon DEF Complete
  <2>9. ~interrupted' /\ ~worker'.first => Complete(db)' /\ Complete(worker.saved)'
    BY <2>3, <2>5, <2>6, <2>8, Zenon DEF Complete, Settled
  <2>10. \A k \in 0 .. db'.height - 1 : k \in worker'.todo \/ Settled(IndexSeen(h), k)
    BY <2>3, <2>4, <2>6, <2>7, Zenon
  <2>11. \A k \in 0 .. db'.height - 1 : k \in worker'.todo \/ Settled(db, k)'
    BY <2>3, <2>5, <2>10, Zenon DEF Settled
  <2> QED BY <2>3, <2>5, <2>6, <2>9, <2>11 DEF TipInv
<1>7. CASE finish
  <2>1. ~Idle /\ Idle' /\ UNCHANGED <<db, top>> /\ worker.todo = {}
        /\ interrupted' = (interrupted /\ worker.mode # "prune")
    BY <1>7, Zenon DEF finish, Idle
  <2>2. ASSUME ~interrupted' PROVE Complete(db)
    <3>1. CASE worker.mode = "prune"
      BY <2>1, <3>1, Zenon DEF TipInv, Complete
    <3>2. CASE worker.mode = "update"
      BY <2>1, <2>2, <3>2, Zenon DEF TipInv
    <3> QED BY <2>1, <3>1, <3>2, Zenon DEF TipInv
  <2> QED BY <2>1, <2>2, Zenon DEF TipInv, Complete, Settled
<1>8. CASE crash
  <2>1. ~Idle /\ Idle' /\ db' = worker.saved /\ top' = top
        /\ interrupted' = (interrupted \/ (worker.first /\ worker.saved.seed # 0))
    BY <1>8 DEF crash, Idle
  <2>2. ASSUME ~interrupted' PROVE Complete(worker.saved)
    BY <2>1, <2>2, Zenon DEF TipInv, Complete
  <2> QED BY <2>1, <2>2, Zenon DEF TipInv, Complete, Settled
<1>9. CASE UNCHANGED vars
  BY <1>9 DEF vars, TipInv, Idle, Complete, Settled
<1> QED BY <1>1, <1>2, <1>3, <1>4, <1>5, <1>6, <1>7, <1>8, <1>9, Zenon DEF Next

(* update_pruning, which looks at the tip table alone, misses nothing, unless
   the first prune was cut short after a commit.                            *)
THEOREM TipSafety == Spec => []TipIsComplete
<1>1. Init => PruneInv /\ TipInv
  BY DEF Init, PruneInv, IsDb, Lost, Idle, TipInv, Complete
<1>2. TipInv => TipIsComplete
  BY DEF TipInv, TipIsComplete, Complete, Settled, Heights
<1> QED BY <1>1, <1>2, StepKeeps, StepKeepsTip, PTL DEF Spec
=============================================================================
