---------------------------- MODULE TxPoolProofs ----------------------------
(***************************************************************************)
(* Proofs about TxPool for any set of transactions, any key images, limits *)
(* and bounds: the key image index is exact, a restart finds a pool it can *)
(* list, and nothing is mined twice or both mined and pooled.              *)
(***************************************************************************)
EXTENDS TxPool, TLAPS

(* Without and With change the domain as their names say.  *)
LEMMA PoolUpdates ==
  ASSUME NEW f, NEW S, NEW x, NEW y
  PROVE  /\ DOMAIN Without(f, S) = DOMAIN f \ S
         /\ DOMAIN With(f, x, y) = DOMAIN f \cup {x}
         /\ With(f, x, y)[x] = y
         /\ \A z \in DOMAIN f : z # x => With(f, x, y)[z] = f[z]
         /\ \A z \in DOMAIN f \ S : Without(f, S)[z] = f[z]
  BY DEF Without, With, Restrict

(* The inputs of a transaction as the pool's loops walk them.  *)
LEMMA InputFacts ==
  ASSUME NEW t \in Txs
  PROVE  /\ \A i \in DOMAIN Inputs[t] : Inputs[t][i] \in KeyImages
         /\ \A k : k \in KeysOf(t) <=> \E i \in DOMAIN Inputs[t] : Inputs[t][i] = k
         /\ \A i \in DOMAIN Inputs[t] : i \in Nat /\ 1..i \subseteq DOMAIN Inputs[t]
<1> DEFINE s == Inputs[t]
<1>1. s \in Seq(KeyImages)
  BY TxPoolAssumption, Zenon
<1> HIDE DEF s
<1>2. DOMAIN s = 1..Len(s) /\ Len(s) \in Nat /\ \A i \in DOMAIN s : s[i] \in KeyImages
  BY <1>1, SMT
<1>3. \A i \in DOMAIN s : i \in Nat /\ 1..i \subseteq DOMAIN s
  BY <1>2, SMT
<1>4. \A k : k \in KeysOf(t) <=> \E i \in DOMAIN s : s[i] = k
  BY Zenon DEF KeysOf, Range, s
<1> QED BY <1>2, <1>3, <1>4, Zenon DEF s

(* What insert_key_images makes of an exact index when nothing is refused. *)
LEMMA InsertExact ==
  ASSUME NEW t \in Txs, NEW method, KeyImageIndexExact, Refused(t, method) = {}
  PROVE  \A k \in KeyImages :
           insert_key_images(t, method)[k] =
             {u \in DOMAIN txpool \cup {t} : k \in KeysOf(u)}
  BY InputFacts DEF KeyImageIndexExact, insert_key_images

(* A transaction that is already pooled changes nothing in an exact index. *)
LEMMA InsertKnown ==
  ASSUME NEW t \in Txs, NEW method, KeyImageIndexExact, t \in DOMAIN txpool
  PROVE  \A k \in KeyImages : insert_key_images(t, method)[k] = m_spent_key_images[k]
<1> SUFFICES ASSUME NEW k \in KeyImages, \E i \in DOMAIN Inputs[t] : Inputs[t][i] = k
             PROVE  m_spent_key_images[k] \cup {t} = m_spent_key_images[k]
  BY Zenon DEF insert_key_images
<1>1. t \in m_spent_key_images[k]
  BY InputFacts DEF KeyImageIndexExact
<1> QED BY <1>1

(* The key images of a block's transaction are refused only if it is pooled. *)
LEMMA RefusedIsKnown ==
  ASSUME NEW t \in Txs, Refused(t, "block") # {}
  PROVE  t \in DOMAIN txpool
  BY DEF Refused, Legacy

(* have_tx_keyimges_as_spent catches everything insert_key_images refuses. *)
LEMMA UnspentIsNotRefused ==
  ASSUME NEW t \in Txs, NEW method, ~have_tx_keyimges_as_spent(t), ~Legacy(txpool, t)
  PROVE  Refused(t, method) = {}
  BY InputFacts DEF Refused, have_tx_keyimges_as_spent

(* Removing pooled transactions from an exact index leaves it exact.  *)
LEMMA RemoveExact ==
  ASSUME NEW S, S \subseteq DOMAIN txpool, DOMAIN txpool \subseteq Txs, KeyImageIndexExact
  PROVE  \A k \in KeyImages :
           remove_transaction_keyimages(S)[k] =
             {u \in DOMAIN txpool \ S : k \in KeysOf(u)}
<1> SUFFICES ASSUME NEW k \in KeyImages, NEW t
             PROVE  t \in remove_transaction_keyimages(S)[k] <=>
                      t \in DOMAIN txpool \ S /\ k \in KeysOf(t)
  BY Zenon
<1>1. t \in remove_transaction_keyimages(S)[k] <=>
        /\ t \in m_spent_key_images[k]
        /\ ~(t \in S /\ \E i \in DOMAIN Inputs[t] :
               Inputs[t][i] = k /\ \A j \in 1..i : t \in m_spent_key_images[Inputs[t][j]])
  BY Zenon DEF remove_transaction_keyimages
<1>2. t \in m_spent_key_images[k] <=> t \in DOMAIN txpool /\ k \in KeysOf(t)
  BY Zenon DEF KeyImageIndexExact
<1>3. ASSUME t \in S, k \in KeysOf(t)
      PROVE  \E i \in DOMAIN Inputs[t] :
               Inputs[t][i] = k /\ \A j \in 1..i : t \in m_spent_key_images[Inputs[t][j]]
  <2>1. t \in Txs /\ t \in DOMAIN txpool
    BY <1>3, Zenon
  <2>2. PICK i \in DOMAIN Inputs[t] : Inputs[t][i] = k
    BY <1>3, <2>1, InputFacts, Zenon
  <2>3. ASSUME NEW j \in 1..i PROVE t \in m_spent_key_images[Inputs[t][j]]
    BY <2>1, <2>2, InputFacts DEF KeyImageIndexExact
  <2> QED BY <2>2, <2>3, Zenon
<1> QED BY <1>1, <1>2, <1>3, Zenon

-----------------------------------------------------------------------------
(* The inductive invariant behind KeyImageIndex: rows belong to transactions,
   in the database as in what an abort would restore, and whoever holds the
   pool between two of its steps has a write transaction open.             *)
IndexInv ==
  /\ DOMAIN txpool \subseteq Txs
  /\ \A s \in saved : DOMAIN s.txpool \subseteq Txs
  /\ job # Idle \/ prune_it # {} => saved # {}
  /\ KeyImageIndex

(* The end of add_tx keeps the rows' domain and opens a write transaction
   when prune has something to do.  *)
LEMMA FinishAddFacts ==
  ASSUME IndexInv, NEW t, NEW pool, NEW sorted, DOMAIN pool \subseteq Txs,
         FinishAdd(t, pool, sorted)
  PROVE  /\ DOMAIN txpool' \subseteq Txs
         /\ \A s \in saved' : DOMAIN s.txpool \subseteq Txs
         /\ saved # {} \/ prune_it' # {} => saved' # {}
<1> DEFINE needed == AddedWeight(t) > MaxPoolWeight /\ Cardinality(sorted) > 1
<1>1. /\ txpool' = pool
      /\ prune_it' = IF needed THEN {LastOf(sorted)} ELSE {}
      /\ saved' = IF needed /\ saved = {}
                  THEN {[txpool |-> pool, chain |-> chain]} ELSE saved
  BY Zenon DEF FinishAdd
<1> HIDE DEF needed
<1>2. \A s \in saved' : DOMAIN s.txpool \subseteq Txs
  BY <1>1 DEF IndexInv
<1> QED BY <1>1, <1>2, Zenon

(* add_tx storing a row whose key images were all inserted keeps the index.  *)
LEMMA StoreIndex ==
  ASSUME IndexInv, NEW t \in Txs, NEW method, NEW used, Refused(t, method) = {},
         StoreTx(t, method, used), diverged' = diverged
  PROVE  /\ DOMAIN txpool' \subseteq Txs
         /\ \A s \in saved' : DOMAIN s.txpool \subseteq Txs
         /\ saved # {} \/ prune_it' # {} => saved' # {}
         /\ KeyImageIndex'
<1> DEFINE row == [relay |-> method, receive_time |-> now,
                   max_used |-> used, last_failed |-> {}]
           sorted == m_txs_by_fee_and_receive_time \cup {[tx |-> t, time |-> now]}
<1>1. DOMAIN With(txpool, t, row) = DOMAIN txpool \cup {t}
  BY PoolUpdates, Zenon
<1>2. FinishAdd(t, With(txpool, t, row), sorted)
  BY Zenon DEF StoreTx
<1>3. DOMAIN With(txpool, t, row) \subseteq Txs
  BY <1>1, Zenon DEF IndexInv
<1>4. KeyImageIndex'
  <2> SUFFICES ASSUME ~diverged PROVE KeyImageIndexExact'
    BY Zenon DEF KeyImageIndex
  <2>1. KeyImageIndexExact
    BY Zenon DEF IndexInv, KeyImageIndex
  <2>2. txpool' = With(txpool, t, row) /\ m_spent_key_images' = insert_key_images(t, method)
    BY <1>2, Zenon DEF StoreTx, FinishAdd
  <2> QED BY <1>1, <2>1, <2>2, InsertExact DEF KeyImageIndexExact
<1> HIDE DEF row, sorted
<1> QED BY <1>2, <1>3, <1>4, FinishAddFacts, Zenon

(* add_tx returning early because an input was refused keeps the index.  *)
LEMMA RefuseIndex ==
  ASSUME IndexInv, NEW t \in Txs, NEW method, t \in DOMAIN txpool,
         RefuseTx(t, method), diverged' = diverged
  PROVE  /\ DOMAIN txpool' \subseteq Txs
         /\ \A s \in saved' : DOMAIN s.txpool \subseteq Txs
         /\ saved # {} \/ prune_it' # {} => saved' # {}
         /\ KeyImageIndex'
<1>1. ASSUME ~diverged PROVE KeyImageIndexExact'
  BY <1>1, InsertKnown, Zenon DEF IndexInv, KeyImageIndex, KeyImageIndexExact, RefuseTx
<1> QED BY <1>1, Zenon DEF IndexInv, RefuseTx, KeyImageIndex

(* add_tx with valid inputs keeps the index, whichever way it ends.  *)
LEMMA AddValidIndex ==
  ASSUME IndexInv, NEW t \in Txs, NEW method, AddValid(t, method), diverged' = diverged,
         method = "block" \/ (~have_tx_keyimges_as_spent(t) /\ ~Legacy(txpool, t))
  PROVE  /\ DOMAIN txpool' \subseteq Txs
         /\ \A s \in saved' : DOMAIN s.txpool \subseteq Txs
         /\ saved # {} \/ prune_it' # {} => saved' # {}
         /\ KeyImageIndex'
<1> DEFINE known == t \in DOMAIN txpool
           relay == IF method = "stem" /\ known /\ txpool[t].relay = "stem"
                    THEN "fluff" ELSE method
           unchanged == known /\ Rank[relay] <= Rank[txpool[t].relay]
<1>1. CASE /\ UNCHANGED m_spent_key_images
           /\ FinishAdd(t, txpool, m_txs_by_fee_and_receive_time)
  <2>1. txpool' = txpool /\ m_spent_key_images' = m_spent_key_images
    BY <1>1, Zenon DEF FinishAdd
  <2>2. KeyImageIndex'
    BY <2>1, Zenon DEF IndexInv, KeyImageIndex, KeyImageIndexExact
  <2> QED BY <1>1, <2>2, FinishAddFacts, Zenon DEF IndexInv
<1>2. CASE Refused(t, relay) = {} /\ StoreTx(t, relay, MaxUsed(t))
  <2> HIDE DEF relay
  <2> QED BY <1>2, StoreIndex, Zenon
<1>3. CASE Refused(t, relay) # {} /\ RefuseTx(t, relay)
  <2>1. method = "block" /\ relay = "block"
    BY <1>3, UnspentIsNotRefused, Zenon
  <2>2. t \in DOMAIN txpool
    BY <1>3, <2>1, RefusedIsKnown, Zenon
  <2> HIDE DEF relay
  <2> QED BY <1>3, <2>2, RefuseIndex, Zenon
<1> QED BY <1>1, <1>2, <1>3, Zenon DEF AddValid

(* add_tx for a transaction of a block keeps the index.  *)
LEMMA AddKeptIndex ==
  ASSUME IndexInv, NEW t \in Txs, AddKeptByBlock(t), diverged' = diverged
  PROVE  /\ DOMAIN txpool' \subseteq Txs
         /\ \A s \in saved' : DOMAIN s.txpool \subseteq Txs
         /\ saved # {} \/ prune_it' # {} => saved' # {}
         /\ KeyImageIndex'
<1>1. CASE AddValid(t, "block")
  BY <1>1, AddValidIndex, Zenon
<1>2. CASE Refused(t, "block") = {} /\ StoreTx(t, "block", 0)
  BY <1>2, StoreIndex, Zenon
<1>3. CASE (Refused(t, "block") # {} \/ t \in DOMAIN txpool) /\ RefuseTx(t, "block")
  BY <1>3, RefuseIndex, RefusedIsKnown, Zenon
<1> QED BY <1>1, <1>2, <1>3, Zenon DEF AddKeptByBlock

(* Removing one pooled row with its key images keeps the index.  *)
LEMMA TakenIndex ==
  ASSUME IndexInv, NEW t \in DOMAIN txpool, diverged' = diverged,
         txpool' = Without(txpool, {t}),
         m_spent_key_images' = remove_transaction_keyimages({t})
  PROVE  DOMAIN txpool' \subseteq Txs /\ KeyImageIndex'
<1>1. DOMAIN txpool' = DOMAIN txpool \ {t}
  BY PoolUpdates, Zenon
<1>2. ASSUME ~diverged PROVE KeyImageIndexExact'
  BY <1>1, <1>2, RemoveExact DEF IndexInv, KeyImageIndex, KeyImageIndexExact
<1> QED BY <1>1, <1>2 DEF IndexInv, KeyImageIndex

(* Steps that leave the rows' domain, the index and the flags of the invariant
   alone keep it.                                                          *)
LEMMA QuietIndex ==
  ASSUME IndexInv, DOMAIN txpool' = DOMAIN txpool, diverged' = diverged,
         m_spent_key_images' = m_spent_key_images
  PROVE  DOMAIN txpool' \subseteq Txs /\ KeyImageIndex'
  BY Zenon DEF IndexInv, KeyImageIndex, KeyImageIndexExact

(* Every iteration of prune keeps the invariant, the one that returns early
   and so aborts prune's own write transaction included.  *)
LEMMA PruneIndex ==
  ASSUME IndexInv, prune
  PROVE  IndexInv'
<1>1. PICK e \in prune_it : prune!(e)
  BY Zenon DEF prune
<1>2. saved # {} /\ job' = job
  BY <1>1, Zenon DEF IndexInv
<1> DEFINE above == {f \in m_txs_by_fee_and_receive_time : Before(f, e)}
<1>3. CASE /\ prune_it' = {}
           /\ saved' = IF job = Idle THEN {} ELSE saved
           /\ UNCHANGED <<txpool, memory, diverged>>
  BY <1>2, <1>3, QuietIndex, Zenon DEF IndexInv, memory
<1>4. CASE /\ prune_it' = {}
           /\ saved' = IF job = Idle THEN {} ELSE saved
           /\ txpool' = IF job = Idle THEN (CHOOSE s \in saved : TRUE).txpool ELSE txpool
           /\ diverged' = (diverged \/ txpool' # txpool)
           /\ UNCHANGED memory
  <2>1. DOMAIN txpool' \subseteq Txs
    BY <1>2, <1>4, Zenon DEF IndexInv
  <2>2. ASSUME ~diverged' PROVE KeyImageIndexExact'
    <3>1. ~diverged /\ txpool' = txpool /\ m_spent_key_images' = m_spent_key_images
      BY <1>4, <2>2, Zenon DEF memory
    <3> QED BY <3>1, Zenon DEF IndexInv, KeyImageIndex, KeyImageIndexExact
  <2> QED BY <1>2, <1>4, <2>1, <2>2, Zenon DEF IndexInv, KeyImageIndex
<1>5. CASE /\ e.tx \in DOMAIN txpool
           /\ prune_it' = {LastOf(above)}
           /\ IF txpool[e.tx].relay = "block"
              THEN UNCHANGED <<txpool, memory, m_btc>>
              ELSE PruneRemoves(e)
           /\ UNCHANGED <<saved, diverged>>
  <2>1. DOMAIN txpool' \subseteq Txs /\ KeyImageIndex'
    <3>1. CASE txpool[e.tx].relay = "block"
      BY <1>5, <3>1, QuietIndex, Zenon DEF memory
    <3>2. CASE txpool[e.tx].relay # "block"
      BY <1>5, <3>2, TakenIndex, Zenon DEF PruneRemoves
    <3> QED BY <3>1, <3>2, Zenon
  <2> QED BY <1>2, <1>5, <2>1, Zenon DEF IndexInv
<1> QED BY <1>1, <1>3, <1>4, <1>5, Zenon

(* remove_stuck_transactions keeps the invariant.  *)
LEMMA StuckIndex ==
  ASSUME IndexInv, remove_stuck_transactions
  PROVE  IndexInv'
<1>1. DOMAIN txpool' = DOMAIN txpool \ Outdated
  BY PoolUpdates, Zenon DEF remove_stuck_transactions
<1>2. Outdated \subseteq DOMAIN txpool
  BY Zenon DEF Outdated
<1>3. ASSUME ~diverged PROVE KeyImageIndexExact'
  <2>1. KeyImageIndexExact /\ DOMAIN txpool \subseteq Txs
    BY <1>3, Zenon DEF IndexInv, KeyImageIndex
  <2>2. m_spent_key_images' = remove_transaction_keyimages(Outdated)
    BY Zenon DEF remove_stuck_transactions
  <2> HIDE DEF Outdated
  <2> QED BY <1>1, <1>2, <2>1, <2>2, RemoveExact DEF KeyImageIndexExact
<1> QED BY <1>1, <1>3, Zenon DEF IndexInv, KeyImageIndex, remove_stuck_transactions

(* init and validate rebuild the index from what the database holds.  *)
LEMMA RestartIndex ==
  ASSUME IndexInv, restart
  PROVE  IndexInv'
<1> DEFINE db == Durable
           kept == {t \in DOMAIN db.txpool :
                      Weight[t] <= TxWeightLimit /\ t \notin Mined(db.chain)}
<1>1. DOMAIN db.txpool \subseteq Txs
  BY Zenon DEF Durable, IndexInv
<1>2. /\ txpool' = Restrict(db.txpool, kept) /\ saved' = {}
      /\ m_spent_key_images' = [k \in KeyImages |-> {t \in kept : k \in KeysOf(t)}]
      /\ job' = Idle /\ prune_it' = {}
  BY Zenon DEF restart
<1>3. kept \subseteq DOMAIN db.txpool
  BY Zenon
<1> HIDE DEF db, kept
<1>4. DOMAIN txpool' = kept
  BY <1>2, <1>3, Zenon DEF Restrict
<1> QED BY <1>1, <1>2, <1>3, <1>4, Zenon DEF IndexInv, KeyImageIndex, KeyImageIndexExact

(* Every step of the pool, of the block handling and of a restart keeps the
   invariant.                                                              *)
LEMMA NextIndex ==
  ASSUME IndexInv, [Next]_vars
  PROVE  IndexInv'
<1>1. CASE UNCHANGED vars
  BY <1>1, Zenon DEF IndexInv, KeyImageIndex, KeyImageIndexExact, vars, memory
<1>2. ASSUME NEW t \in Txs, NEW m \in Arrivals, add_new_tx(t, m) PROVE IndexInv'
  <2>1. /\ job = Idle /\ job' = job /\ prune_it = {}
        /\ diverged' = diverged /\ ~Legacy(txpool, t)
    BY <1>2, Zenon DEF add_new_tx, Unlocked
  <2>2. AddLoose(t, m)
    BY <1>2, Zenon DEF add_new_tx
  <2>3. CASE ~have_tx_keyimges_as_spent(t) /\ AddValid(t, m)
    BY <2>1, <2>3, AddValidIndex, Zenon DEF IndexInv
  <2>4. CASE UNCHANGED <<txpool, saved, memory, prune_it>>
    BY <2>1, <2>4, QuietIndex, Zenon DEF IndexInv, memory
  <2> QED BY <2>2, <2>3, <2>4, Zenon DEF AddLoose
<1>3. ASSUME NEW t \in Txs, NEW m \in Arrivals, set_relayed(t, m) PROVE IndexInv'
  <2>1. DOMAIN txpool' = DOMAIN txpool
    BY <1>3, Zenon DEF set_relayed
  <2> QED BY <1>3, <2>1, QuietIndex, Zenon DEF IndexInv, set_relayed, memory
<1>4. ASSUME NEW t \in Txs, flush_tx(t) PROVE IndexInv'
  <2>1. DOMAIN txpool' \subseteq Txs /\ KeyImageIndex'
    BY <1>4, TakenIndex, Zenon DEF flush_tx, Taken
  <2> QED BY <1>4, <2>1, Zenon DEF IndexInv, flush_tx
<1>5. ASSUME NEW t \in Txs, handle_incoming_tx(t) PROVE IndexInv'
  <2>1. AddKeptByBlock(t) /\ diverged' = diverged /\ saved # {}
    BY <1>5, Zenon DEF handle_incoming_tx, InBatch, IndexInv, Batch, Idle
  <2> QED BY <2>1, AddKeptIndex, Zenon DEF IndexInv
<1>6. ASSUME NEW t \in Txs, TakeOne(t) PROVE IndexInv'
  <2>1. /\ diverged' = diverged /\ saved' = saved /\ prune_it' = prune_it
        /\ job # Idle
    BY <1>6 DEF TakeOne, Idle
  <2>2. DOMAIN txpool' \subseteq Txs /\ KeyImageIndex'
    <3>1. CASE t \in Mined(chain) \/ t \notin DOMAIN txpool
      BY <1>6, <2>1, <3>1, QuietIndex, Zenon DEF TakeOne, memory
    <3>2. CASE ~(t \in Mined(chain) \/ t \notin DOMAIN txpool)
      BY <1>6, <2>1, <3>2, TakenIndex, Zenon DEF TakeOne, Taken
    <3> QED BY <3>1, <3>2, Zenon
  <2> QED BY <2>1, <2>2, Zenon DEF IndexInv
<1>7. ASSUME NEW t \in Txs, ReturnOne(t) \/ RepoolOne(t) PROVE IndexInv'
  <2>1. AddKeptByBlock(t) /\ diverged' = diverged /\ job # Idle
    BY <1>7 DEF ReturnOne, RepoolOne, Idle
  <2> QED BY <2>1, AddKeptIndex DEF IndexInv
<1>8. CASE prune
  BY <1>8, PruneIndex, Zenon
<1>9. CASE remove_stuck_transactions
  BY <1>9, StuckIndex, Zenon
<1>10. ASSUME NEW from_block \in BOOLEAN, create_block_template(from_block) PROVE IndexInv'
  <2>1. DOMAIN txpool' = DOMAIN txpool
    BY <1>10, Zenon DEF create_block_template, fill_block_template
  <2> QED BY <1>10, <2>1, QuietIndex, Zenon DEF IndexInv, create_block_template, memory
<1>11. CASE prepare_handle_incoming_blocks
  <2>1. /\ saved' = {[txpool |-> txpool, chain |-> chain]}
        /\ UNCHANGED <<txpool, diverged, m_spent_key_images>>
    BY <1>11, Zenon DEF prepare_handle_incoming_blocks, memory, Snapshot
  <2>2. DOMAIN txpool' \subseteq Txs /\ KeyImageIndex'
    BY <2>1, QuietIndex, Zenon
  <2>3. saved' # {} /\ \A s \in saved' : DOMAIN s.txpool \subseteq Txs
    BY <2>1, <2>2
  <2> QED BY <2>2, <2>3, Zenon DEF IndexInv
<1>12. CASE cleanup_handle_incoming_blocks
  <2>1. /\ job' = Idle /\ saved' = {} /\ prune_it' = {}
        /\ m_spent_key_images' = m_spent_key_images
    BY <1>12, Zenon DEF cleanup_handle_incoming_blocks, InBatch, memory
  <2>2. CASE UNCHANGED <<txpool, diverged>>
    BY <2>1, <2>2, QuietIndex, Zenon DEF IndexInv
  <2>3. ASSUME NEW s \in saved, txpool' = s.txpool,
               diverged' = (diverged \/ DOMAIN s.txpool # DOMAIN txpool)
        PROVE  IndexInv'
    <3>1. DOMAIN txpool' \subseteq Txs
      BY <2>3, Zenon DEF IndexInv
    <3>2. ASSUME ~diverged' PROVE KeyImageIndexExact'
      <4>1. ~diverged /\ DOMAIN txpool' = DOMAIN txpool
        BY <2>3, <3>2, Zenon
      <4> QED BY <2>1, <4>1 DEF IndexInv, KeyImageIndex, KeyImageIndexExact
    <3> QED BY <2>1, <3>1, <3>2, Zenon DEF IndexInv, KeyImageIndex
  <2> QED BY <1>12, <2>2, <2>3, Zenon DEF cleanup_handle_incoming_blocks
<1>13. ASSUME NEW B \in Blocks, handle_block_to_main_chain(B) PROVE IndexInv'
  BY <1>13, QuietIndex, ZenonT(60)
  DEF IndexInv, handle_block_to_main_chain, memory, InBatch, Batch, Idle
<1>14. CASE FinishBlock \/ pop_block_from_blockchain \/ FinishPop
  BY <1>14, QuietIndex
  DEF IndexInv, FinishBlock, pop_block_from_blockchain, FinishPop, memory, InBatch, Batch, Idle
<1>15. CASE restart
  BY <1>15, RestartIndex, Zenon
<1>16. CASE Tick
  BY <1>16, QuietIndex DEF IndexInv, Tick, memory
<1> QED BY <1>1, <1>2, <1>3, <1>4, <1>5, <1>6, <1>7, <1>8, <1>9, <1>10, <1>11, <1>12,
          <1>13, <1>14, <1>15, <1>16, Zenon DEF Next

(* tx_memory_pool's m_spent_key_images lists exactly the key images of the
   pooled transactions, whatever blocks, reorganisations, prunings and crashes
   happen, unless an aborted write transaction undid rows behind its back. *)
THEOREM IndexSafety == Spec => []KeyImageIndex
<1>1. Init => IndexInv
  BY DEF Init, IndexInv, KeyImageIndex, KeyImageIndexExact
<1>2. IndexInv /\ [Next]_vars => IndexInv'
  BY NextIndex, Zenon
<1>3. IndexInv => KeyImageIndex
  BY Zenon DEF IndexInv
<1> QED BY <1>1, <1>2, <1>3, PTL DEF Spec

-----------------------------------------------------------------------------
(* No two loose transactions, those not kept by a block, conflict, in the
   database as in what an abort or a crash would restore; a row is a record
   with a relay method.                                                    *)
Loose(pool) == {t \in DOMAIN pool : pool[t].relay # "block"}
Rows(pool) == \A t \in DOMAIN pool : "relay" \in DOMAIN pool[t] /\ pool[t].relay \in Methods
Listable(pool) == Rows(pool) /\ (~diverged => ~ConflictingTxs(Loose(pool)))
RestartInv ==
  /\ IndexInv
  /\ Listable(txpool)
  /\ \A s \in saved : Listable(s.txpool)

(* Fewer loose transactions cannot conflict more.  *)
LEMMA FewerLoose ==
  ASSUME NEW p, NEW q, ~ConflictingTxs(Loose(p)), Loose(q) \subseteq Loose(p)
  PROVE  ~ConflictingTxs(Loose(q))
  BY Zenon DEF ConflictingTxs

(* Removing rows keeps the rest as they are.  *)
LEMMA WithoutListable ==
  ASSUME NEW pool, NEW S, Listable(pool)
  PROVE  Listable(Without(pool, S))
<1>1. DOMAIN Without(pool, S) = DOMAIN pool \ S
  BY PoolUpdates, Zenon
<1>2. \A z \in DOMAIN pool \ S : Without(pool, S)[z] = pool[z]
  BY PoolUpdates, ZenonT(60)
<1>3. Loose(Without(pool, S)) \subseteq Loose(pool)
  BY <1>1, <1>2 DEF Loose
<1>4. Rows(Without(pool, S))
  BY <1>1, <1>2 DEF Rows, Listable
<1> QED BY <1>3, <1>4, FewerLoose, Zenon DEF Listable

(* The row add_tx writes: one from a block is not loose, and any other has
   passed have_tx_keyimges_as_spent, so it conflicts with nothing pooled.  *)
LEMMA WithListable ==
  ASSUME RestartInv, NEW t \in Txs, NEW row, "relay" \in DOMAIN row, row.relay \in Methods,
         row.relay = "block" \/ ~have_tx_keyimges_as_spent(t)
  PROVE  Listable(With(txpool, t, row))
<1> DEFINE new == With(txpool, t, row)
<1>1. /\ DOMAIN new = DOMAIN txpool \cup {t} /\ new[t] = row
      /\ \A z \in DOMAIN txpool : z # t => new[z] = txpool[z]
  BY DEF With
<1> HIDE DEF new
<1>2. Rows(new)
  BY <1>1 DEF Rows, RestartInv, Listable
<1>3. ASSUME ~diverged PROVE ~ConflictingTxs(Loose(new))
  <2>1. ~ConflictingTxs(Loose(txpool)) /\ KeyImageIndexExact
    BY <1>3, Zenon DEF RestartInv, Listable, IndexInv, KeyImageIndex
  <2>2. CASE row.relay = "block"
    <3>1. Loose(new) \subseteq Loose(txpool)
      BY <1>1, <2>2, Zenon DEF Loose
    <3> QED BY <2>1, <3>1, FewerLoose, Zenon
  <2>3. CASE ~have_tx_keyimges_as_spent(t)
    <3>1. Loose(new) \subseteq Loose(txpool) \cup {t}
      BY <1>1, Zenon DEF Loose
    <3>2. ASSUME NEW u \in Loose(txpool), u # t PROVE KeysOf(t) \cap KeysOf(u) = {}
      <4>1. SUFFICES ASSUME NEW k \in KeysOf(t), k \in KeysOf(u) PROVE FALSE
        BY Zenon
      <4>2. k \in KeyImages
        BY InputFacts
      <4>3. u \in m_spent_key_images[k]
        BY <2>1, <3>2, <4>1, <4>2, Zenon DEF KeyImageIndexExact, Loose
      <4> QED BY <2>3, <3>2, <4>1, <4>3 DEF have_tx_keyimges_as_spent
    <3> QED BY <2>1, <3>1, <3>2 DEF ConflictingTxs
  <2> QED BY <2>2, <2>3
<1> QED BY <1>2, <1>3 DEF Listable, new

(* The end of add_tx, whatever rows it stored.  *)
LEMMA FinishListable ==
  ASSUME RestartInv, NEW t, NEW pool, NEW sorted, Listable(pool),
         FinishAdd(t, pool, sorted), diverged' = diverged
  PROVE  Listable(txpool)' /\ \A s \in saved' : Listable(s.txpool)'
<1> DEFINE needed == AddedWeight(t) > MaxPoolWeight /\ Cardinality(sorted) > 1
<1>1. /\ txpool' = pool
      /\ saved' = IF needed /\ saved = {}
                  THEN {[txpool |-> pool, chain |-> chain]} ELSE saved
  BY Zenon DEF FinishAdd
<1> HIDE DEF needed
<1>2. \A s \in saved' : Listable(s.txpool)
  BY <1>1 DEF RestartInv
<1> QED BY <1>1, <1>2, Zenon DEF Listable

(* add_tx with valid inputs.  *)
LEMMA AddValidListable ==
  ASSUME RestartInv, NEW t \in Txs, NEW method \in Methods, AddValid(t, method),
         diverged' = diverged, method = "block" \/ ~have_tx_keyimges_as_spent(t)
  PROVE  Listable(txpool)' /\ \A s \in saved' : Listable(s.txpool)'
<1> DEFINE relay == IF method = "stem" /\ t \in DOMAIN txpool /\ txpool[t].relay = "stem"
                    THEN "fluff" ELSE method
<1>1. CASE FinishAdd(t, txpool, m_txs_by_fee_and_receive_time)
  BY <1>1, FinishListable, Zenon DEF RestartInv
<1>2. CASE StoreTx(t, relay, MaxUsed(t))
  <2>1. relay \in Methods /\ (relay = "block" \/ ~have_tx_keyimges_as_spent(t))
    BY Zenon DEF Methods
  <2> HIDE DEF relay
  <2> DEFINE row == [relay |-> relay, receive_time |-> now,
                     max_used |-> MaxUsed(t), last_failed |-> {}]
  <2>2. Listable(With(txpool, t, row))
    BY <2>1, WithListable, Zenon
  <2> QED BY <1>2, <2>2, FinishListable, Zenon DEF StoreTx
<1>3. CASE RefuseTx(t, relay)
  BY <1>3, Zenon DEF RefuseTx, RestartInv, Listable
<1> QED BY <1>1, <1>2, <1>3, Zenon DEF AddValid

(* add_tx for a transaction of a block.  *)
LEMMA AddKeptListable ==
  ASSUME RestartInv, NEW t \in Txs, AddKeptByBlock(t), diverged' = diverged
  PROVE  Listable(txpool)' /\ \A s \in saved' : Listable(s.txpool)'
<1>1. CASE AddValid(t, "block")
  BY <1>1, AddValidListable, Zenon DEF Methods
<1>2. CASE StoreTx(t, "block", 0)
  <2> DEFINE row == [relay |-> "block", receive_time |-> now,
                     max_used |-> 0, last_failed |-> {}]
  <2>1. Listable(With(txpool, t, row))
    BY WithListable, Zenon DEF Methods
  <2> QED BY <1>2, <2>1, FinishListable, Zenon DEF StoreTx
<1>3. CASE RefuseTx(t, "block")
  BY <1>3, Zenon DEF RefuseTx, RestartInv, Listable
<1> QED BY <1>1, <1>2, <1>3, Zenon DEF AddKeptByBlock

(* Rows whose relay method changes, but never from "block", keep the pool
   listable.                                                               *)
LEMMA SameRelayListable ==
  ASSUME NEW p, NEW q, Listable(p), DOMAIN q = DOMAIN p, Rows(q),
         \A t \in DOMAIN p : p[t].relay = "block" => q[t].relay = "block"
  PROVE  Listable(q)
<1>1. Loose(q) \subseteq Loose(p)
  BY Zenon DEF Loose
<1> QED BY <1>1, FewerLoose, Zenon DEF Listable

(* Every step keeps the pool listable.  *)
LEMMA NextRestart ==
  ASSUME RestartInv, [Next]_vars
  PROVE  RestartInv'
<1> DEFINE Kept == Listable(txpool)' /\ \A s \in saved' : Listable(s.txpool)'
<1>a. IndexInv'
  BY NextIndex, Zenon DEF RestartInv
<1>b. SUFFICES Kept
  BY <1>a, Zenon DEF RestartInv
<1>c. ASSUME Listable(txpool'), saved' = saved, diverged' = diverged PROVE Kept
  BY <1>c, Zenon DEF RestartInv, Listable
<1>d. ASSUME txpool' = txpool, saved' \in {saved, {}}, diverged' = diverged PROVE Kept
  BY <1>d, Zenon DEF RestartInv, Listable
<1>1. CASE UNCHANGED vars
  BY <1>1, <1>d, Zenon DEF vars
<1>2. ASSUME NEW t \in Txs, NEW m \in Arrivals, add_new_tx(t, m) PROVE Kept
  <2>1. diverged' = diverged /\ AddLoose(t, m) /\ m \in Methods
    BY <1>2, TxPoolAssumption, Zenon DEF add_new_tx
  <2>3. CASE ~have_tx_keyimges_as_spent(t) /\ AddValid(t, m)
    BY <2>1, <2>3, AddValidListable, Zenon
  <2>4. CASE UNCHANGED <<txpool, saved>>
    BY <2>1, <2>4, <1>d, Zenon
  <2> QED BY <2>1, <2>3, <2>4, Zenon DEF AddLoose
<1>3. ASSUME NEW t \in Txs, NEW m \in Arrivals, set_relayed(t, m) PROVE Kept
  <2>1. /\ t \in DOMAIN txpool /\ saved' = saved /\ diverged' = diverged
        /\ txpool' = [txpool EXCEPT ![t].relay = Upgrade(@, m)]
    BY <1>3 DEF set_relayed
  <2>2. "relay" \in DOMAIN txpool[t] /\ txpool[t].relay \in Methods /\ m \in Methods
    BY <2>1, TxPoolAssumption, ZenonT(60) DEF RestartInv, Listable, Rows
  <2> DEFINE up == Upgrade(txpool[t].relay, m)
  <2>3. up \in Methods /\ (txpool[t].relay = "block" => up = "block")
    BY <2>2 DEF Upgrade, Rank, Methods
  <2>4. /\ DOMAIN txpool' = DOMAIN txpool
        /\ \A z \in DOMAIN txpool : z # t => txpool'[z] = txpool[z]
        /\ txpool'[t] = [txpool[t] EXCEPT !.relay = up]
    BY <2>1
  <2> HIDE DEF up
  <2>5. DOMAIN txpool'[t] = DOMAIN txpool[t] /\ txpool'[t].relay = up
    BY <2>2, <2>4
  <2>6. Rows(txpool')
    BY <2>2, <2>3, <2>4, <2>5 DEF Rows, RestartInv, Listable
  <2>7. Listable(txpool')
    BY <2>3, <2>4, <2>5, <2>6, SameRelayListable, Zenon DEF RestartInv
  <2> QED BY <2>1, <2>7, <1>c
<1>4. ASSUME NEW t \in Txs, flush_tx(t) PROVE Kept
  BY <1>4, <1>c, WithoutListable, Zenon DEF flush_tx, Taken, RestartInv
<1>5. ASSUME NEW t \in Txs, handle_incoming_tx(t) \/ ReturnOne(t) \/ RepoolOne(t) PROVE Kept
  BY <1>5, AddKeptListable, Zenon DEF handle_incoming_tx, ReturnOne, RepoolOne
<1>6. ASSUME NEW t \in Txs, TakeOne(t) PROVE Kept
  <2>1. CASE t \in Mined(chain) \/ t \notin DOMAIN txpool
    BY <1>6, <2>1, <1>d, Zenon DEF TakeOne
  <2>2. CASE ~(t \in Mined(chain) \/ t \notin DOMAIN txpool)
    BY <1>6, <2>2, <1>c, WithoutListable, Zenon DEF TakeOne, Taken, RestartInv
  <2> QED BY <2>1, <2>2
<1>8. CASE prune
  <2>1. PICK e \in prune_it : prune!(e)
    BY <1>8, Zenon DEF prune
  <2>2. CASE /\ saved' = IF job = Idle THEN {} ELSE saved
             /\ UNCHANGED <<txpool, diverged>>
    BY <2>2, <1>d, Zenon
  <2>3. CASE /\ saved' = IF job = Idle THEN {} ELSE saved
             /\ txpool' = IF job = Idle THEN (CHOOSE s \in saved : TRUE).txpool ELSE txpool
             /\ diverged' = (diverged \/ txpool' # txpool)
    <3>1. CASE job = Idle
      <4>1. saved # {}
        BY <2>1, Zenon DEF RestartInv, IndexInv
      <4>2. Listable(txpool')
        BY <2>3, <3>1, <4>1, Zenon DEF RestartInv
      <4>3. ~diverged' => ~diverged
        BY <2>3, Zenon
      <4> QED BY <2>3, <3>1, <4>2, <4>3, ZenonT(60) DEF Listable
    <3>2. CASE job # Idle
      <4>1. txpool' = txpool /\ saved' = saved /\ (~diverged' => ~diverged)
        BY <2>3, <3>2, Zenon
      <4> QED BY <4>1 DEF RestartInv, Listable
    <3> QED BY <3>1, <3>2, Zenon
  <2>4. CASE /\ IF txpool[e.tx].relay = "block"
                THEN UNCHANGED <<txpool, memory, m_btc>>
                ELSE PruneRemoves(e)
             /\ UNCHANGED <<saved, diverged>>
    <3>1. CASE txpool[e.tx].relay = "block"
      BY <2>4, <3>1, <1>d, Zenon
    <3>2. CASE txpool[e.tx].relay # "block"
      BY <2>4, <3>2, <1>c, WithoutListable, Zenon DEF PruneRemoves, RestartInv
    <3> QED BY <3>1, <3>2, Zenon
  <2> QED BY <2>1, <2>2, <2>3, <2>4, ZenonT(60)
<1>9. CASE remove_stuck_transactions
  BY <1>9, <1>c, WithoutListable, Zenon DEF remove_stuck_transactions, RestartInv
<1>10. ASSUME NEW from_block \in BOOLEAN, create_block_template(from_block) PROVE Kept
  <2>1. PICK T, poor \in SUBSET DOMAIN txpool : fill_block_template(T, poor)
    BY <1>10 DEF create_block_template
  <2>2. PICK checked : txpool' = [t \in DOMAIN txpool |->
                                    IF t \in checked THEN Rechecked(t) ELSE txpool[t]]
    BY <2>1, Zenon DEF fill_block_template
  <2>3. \A t \in DOMAIN txpool :
          /\ DOMAIN Rechecked(t) = DOMAIN txpool[t]
          /\ "relay" \in DOMAIN txpool[t] => Rechecked(t).relay = txpool[t].relay
    BY Zenon DEF Rechecked
  <2>4. Rows(txpool') /\ DOMAIN txpool' = DOMAIN txpool
    BY <2>2, <2>3, Zenon DEF Rows, RestartInv, Listable
  <2>5. \A t \in DOMAIN txpool : txpool[t].relay = "block" => txpool'[t].relay = "block"
    BY <2>2, <2>3, Zenon DEF Rows, RestartInv, Listable
  <2>6. Listable(txpool')
    BY <2>4, <2>5, SameRelayListable, ZenonT(60) DEF RestartInv
  <2> QED BY <1>10, <2>6, <1>c, ZenonT(60) DEF create_block_template
<1>11. CASE prepare_handle_incoming_blocks
  BY <1>11 DEF prepare_handle_incoming_blocks, Snapshot, RestartInv, Listable
<1>12. CASE cleanup_handle_incoming_blocks
  <2>1. saved' = {}
    BY <1>12, Zenon DEF cleanup_handle_incoming_blocks
  <2>2. CASE UNCHANGED <<txpool, diverged>>
    BY <2>1, <2>2, <1>d, Zenon
  <2>3. ASSUME NEW s \in saved, txpool' = s.txpool, ~diverged' => ~diverged
        PROVE  Kept
    <3>1. Listable(txpool')
      BY <2>3, Zenon DEF RestartInv
    <3> QED BY <2>1, <2>3, <3>1, Zenon DEF Listable
  <2> QED BY <1>12, <2>2, <2>3, Zenon DEF cleanup_handle_incoming_blocks
<1>13. ASSUME NEW B \in Blocks, handle_block_to_main_chain(B) PROVE Kept
  BY <1>13, <1>d, Zenon DEF handle_block_to_main_chain
<1>14. CASE FinishBlock \/ pop_block_from_blockchain \/ FinishPop
  BY <1>14, <1>d, Zenon DEF FinishBlock, pop_block_from_blockchain, FinishPop
<1>15. CASE restart
  <2> DEFINE db == Durable
             kept == {t \in DOMAIN db.txpool :
                        Weight[t] <= TxWeightLimit /\ t \notin Mined(db.chain)}
  <2>1. /\ txpool' = Restrict(db.txpool, kept) /\ saved' = {}
        /\ InitSucceeds(db.txpool)
    BY <1>15, Zenon DEF restart
  <2>2. kept \subseteq DOMAIN db.txpool /\ Rows(db.txpool)
    BY Zenon DEF Durable, RestartInv, Listable
  <2>3. ~ConflictingTxs(Loose(db.txpool))
    BY <2>1, Zenon DEF InitSucceeds, Loose
  <2> HIDE DEF db, kept
  <2>4. DOMAIN txpool' = kept /\ \A t \in kept : txpool'[t] = db.txpool[t]
    BY <2>1, <2>2, Zenon DEF Restrict
  <2>5. Loose(txpool') \subseteq Loose(db.txpool) /\ Rows(txpool')
    BY <2>2, <2>4, Zenon DEF Loose, Rows
  <2>6. ~ConflictingTxs(Loose(txpool'))
    BY <2>3, <2>5, FewerLoose, ZenonT(60)
  <2> QED BY <2>1, <2>5, <2>6, Zenon DEF Listable
<1>16. CASE Tick
  BY <1>16, <1>d DEF Tick
<1> QED BY <1>1, <1>2, <1>3, <1>4, <1>5, <1>6, <1>8, <1>9, <1>10, <1>11, <1>12,
          <1>13, <1>14, <1>15, <1>16, Zenon DEF Next

(* Whenever the node stops, tx_memory_pool::init can list what the database
   then holds: it never meets two transactions outside blocks with the same
   key image, unless an aborted write transaction undid rows before.       *)
THEOREM RestartSafety == Spec => []RestartSucceeds
<1>1. Init => RestartInv
  BY DEF Init, RestartInv, IndexInv, KeyImageIndex, KeyImageIndexExact, Listable, Rows,
         Loose, ConflictingTxs
<1>2. RestartInv /\ [Next]_vars => RestartInv'
  BY NextRestart, Zenon
<1>3. RestartInv => RestartSucceeds
  BY Zenon DEF RestartInv, RestartSucceeds, RestartAlwaysSucceeds, InitSucceeds, Loose, Listable,
         Durable
<1> QED BY <1>1, <1>2, <1>3, PTL DEF Spec

-----------------------------------------------------------------------------
(* What is on the way between pool and chain is in neither: a transaction
   taken for a block is no longer pooled and not yet mined, one to be put back
   is not mined.  What an abort or a crash restores is as sound as the present,
   and outside a batch it is the present chain.                            *)
Chains == Seq(SUBSET Txs)
Sound(pool, c) == c \in Chains /\ SpendsOnce(c) /\ DOMAIN pool \cap Mined(c) = {}
Jobs == [op : {"idle", "batch", "take", "return", "pop"}, todo : SUBSET Txs,
         taken : SUBSET Txs]
JobSound ==
  /\ job \in Jobs
  /\ job.op # "take" => job.taken = {} /\ job.todo \cap Mined(chain) = {}
  /\ job.taken \cap DOMAIN txpool = {} /\ job.taken \cap Mined(chain) = {}
MinedInv ==
  /\ Sound(txpool, chain)
  /\ \A s \in saved : Sound(s.txpool, s.chain)
  /\ job = Idle => \A s \in saved : s.chain = chain
  /\ prune_it # {} => saved # {}
  /\ JobSound

(* Membership in Mined, and what the chain's two updates make of it.  *)
LEMMA MinedMember ==
  ASSUME NEW c, NEW t
  PROVE  t \in Mined(c) <=> \E i \in DOMAIN c : t \in c[i]
  BY Zenon DEF Mined, Range

(* add_block puts a block's transactions into the chain, and nothing else.  *)
LEMMA AppendMined ==
  ASSUME NEW c \in Chains, NEW S \in SUBSET Txs
  PROVE  Append(c, S) \in Chains /\ Mined(Append(c, S)) = Mined(c) \cup S
<1>1. /\ DOMAIN c = 1..Len(c) /\ Len(c) \in Nat /\ Append(c, S) \in Chains
      /\ DOMAIN Append(c, S) = 1..(Len(c) + 1)
      /\ \A i \in 1..Len(c) : Append(c, S)[i] = c[i]
      /\ Append(c, S)[Len(c) + 1] = S
  BY DEF Chains
<1>2. ASSUME NEW t PROVE t \in Mined(Append(c, S)) <=> t \in Mined(c) \/ t \in S
  <2>1. t \in Mined(Append(c, S)) <=> \E i \in 1..(Len(c) + 1) : t \in Append(c, S)[i]
    BY <1>1, MinedMember, Zenon
  <2>2. t \in Mined(c) <=> \E i \in 1..Len(c) : t \in c[i]
    BY <1>1, MinedMember, Zenon
  <2> QED BY <1>1, <2>1, <2>2
<1> QED BY <1>1, <1>2, Zenon

(* pop_block takes exactly the last block's transactions out of the chain.  *)
LEMMA FrontMined ==
  ASSUME NEW c \in Chains, c # <<>>, SpendsOnce(c)
  PROVE  /\ Front(c) \in Chains /\ SpendsOnce(Front(c)) /\ Mined(Front(c)) \subseteq Mined(c)
         /\ Last(c) \subseteq Txs /\ Last(c) \cap Mined(Front(c)) = {}
<1>1. /\ DOMAIN c = 1..Len(c) /\ Len(c) \in Nat \ {0} /\ Front(c) \in Chains
      /\ Last(c) = c[Len(c)] /\ Last(c) \subseteq Txs
  BY DEF Chains, Front, Last
<1>2. /\ DOMAIN Front(c) = 1..(Len(c) - 1)
      /\ \A i \in 1..(Len(c) - 1) : Front(c)[i] = c[i] /\ i \in DOMAIN c /\ i # Len(c)
  <2>1. Len(c) - 1 \in Nat /\ c \in Seq(SUBSET Txs)
    BY <1>1 DEF Chains
  <2>2. Len(Front(c)) = Len(c) - 1
    BY <1>1, <2>1 DEF Front
  <2>3. DOMAIN Front(c) = 1..(Len(c) - 1)
    BY <1>1, <2>2 DEF Chains
  <2>4. \A i \in 1..(Len(c) - 1) : Front(c)[i] = c[i]
    BY <1>1, <2>1 DEF Front
  <2>5. \A i \in 1..(Len(c) - 1) : i \in 1..Len(c) /\ i # Len(c)
    <3>1. \A n \in Nat : \A i \in 1..(n - 1) : i \in 1..n /\ i # n
      OBVIOUS
    <3> QED BY <1>1, <3>1, Zenon
  <2>6. \A i \in 1..(Len(c) - 1) : i \in DOMAIN c
    BY <1>1, <2>5, ZenonT(60)
  <2> QED BY <2>3, <2>4, <2>5, <2>6, ZenonT(60)
<1>3. SpendsOnce(Front(c))
  BY <1>2 DEF SpendsOnce
<1>4. ASSUME NEW t, t \in Mined(Front(c)) PROVE t \in Mined(c) /\ t \notin Last(c)
  <2>1. PICK i \in 1..(Len(c) - 1) : t \in c[i]
    BY <1>2, <1>4, MinedMember, Zenon
  <2>2. i \in DOMAIN c /\ Len(c) \in DOMAIN c /\ i # Len(c)
    <3>1. i \in DOMAIN c /\ i # Len(c)
      BY <1>2, Zenon
    <3>2. Len(c) \in 1..Len(c)
      BY <1>1
    <3> QED BY <1>1, <3>1, <3>2, Zenon
  <2>3. t \in Mined(c)
    BY <2>1, <2>2, MinedMember, Zenon
  <2>4. t \notin c[Len(c)]
    BY <2>1, <2>2, Zenon DEF SpendsOnce
  <2> QED BY <1>1, <2>3, <2>4, Zenon
<1> QED BY <1>1, <1>3, <1>4, Zenon

(* A block whose insertion does not throw leaves every key image spent once. *)
LEMMA AppendSpendsOnce ==
  ASSUME NEW S \in SUBSET Txs, chain \in Chains, SpendsOnce(chain),
         S \cap Mined(chain) = {}, ~AddBlockThrows(S)
  PROVE  SpendsOnce(Append(chain, S))
<1> DEFINE new == Append(chain, S)
           n == Len(chain) + 1
<1>1. /\ DOMAIN new = DOMAIN chain \cup {n}
      /\ \A i \in DOMAIN chain : new[i] = chain[i] /\ i # n
      /\ new[n] = S
  BY DEF Chains
<1> HIDE DEF new, n
<1>2. ASSUME NEW i \in DOMAIN chain, NEW t \in chain[i], NEW u \in S
      PROVE  t # u /\ KeysOf(t) \cap KeysOf(u) = {} /\ KeysOf(u) \cap KeysOf(t) = {}
  <2>1. t \in Mined(chain)
    BY MinedMember, Zenon
  <2>2. KeysOf(t) \subseteq SpentIn(chain)
    BY <2>1, Zenon DEF SpentIn
  <2>3. KeysOf(u) \cap SpentIn(chain) = {}
    BY Zenon DEF AddBlockThrows
  <2> QED BY <2>1, <2>2, <2>3, Zenon
<1>3. ASSUME NEW t \in S, NEW u \in S PROVE t = u \/ (t # u /\ KeysOf(t) \cap KeysOf(u) = {})
  BY Zenon DEF AddBlockThrows, ConflictingTxs
<1>4. ASSUME NEW i \in DOMAIN new, NEW j \in DOMAIN new, NEW t \in new[i], NEW u \in new[j]
      PROVE  (i = j /\ t = u) \/ (t # u /\ KeysOf(t) \cap KeysOf(u) = {})
  <2>1. CASE i \in DOMAIN chain /\ j \in DOMAIN chain
    BY <1>1, <2>1 DEF SpendsOnce
  <2>2. CASE i \in DOMAIN chain /\ j = n
    BY <1>1, <1>2, <2>2, Zenon
  <2>3. CASE i = n /\ j \in DOMAIN chain
    BY <1>1, <1>2, <2>3, Zenon
  <2>4. CASE i = n /\ j = n
    BY <1>1, <1>3, <2>4, Zenon
  <2> QED BY <1>1, <2>1, <2>2, <2>3, <2>4, ZenonT(60)
<1> QED BY <1>4, Zenon DEF SpendsOnce, new

(* The pool changes of add_tx: at most t is added, a write transaction may be
   opened whose snapshot has the present chain.                            *)
LEMMA AddKeepsMined ==
  ASSUME MinedInv, NEW t, NEW method, NEW used, t \notin Mined(chain),
         \/ AddValid(t, method)
         \/ StoreTx(t, method, used)
         \/ RefuseTx(t, method)
         \/ UNCHANGED <<txpool, saved, prune_it>>
  PROVE  /\ DOMAIN txpool' \subseteq DOMAIN txpool \cup {t}
         /\ Sound(txpool', chain)
         /\ \A s \in saved' : Sound(s.txpool, s.chain)
         /\ \A s \in saved' \ saved : s.chain = chain
         /\ prune_it' # {} => saved' # {}
         /\ saved # {} => saved' = saved
<1> DEFINE Goal == /\ DOMAIN txpool' \subseteq DOMAIN txpool \cup {t}
                   /\ Sound(txpool', chain)
                   /\ \A s \in saved' : Sound(s.txpool, s.chain)
                   /\ \A s \in saved' \ saved : s.chain = chain
                   /\ prune_it' # {} => saved' # {}
                   /\ saved # {} => saved' = saved
<1>a. SUFFICES Goal
  BY Zenon
<1>1. ASSUME NEW pool, NEW sorted, FinishAdd(t, pool, sorted),
             DOMAIN pool \subseteq DOMAIN txpool \cup {t}
      PROVE  Goal
  <2> DEFINE needed == AddedWeight(t) > MaxPoolWeight /\ Cardinality(sorted) > 1
  <2>1. /\ txpool' = pool
        /\ prune_it' = IF needed THEN {LastOf(sorted)} ELSE {}
        /\ saved' = IF needed /\ saved = {}
                    THEN {[txpool |-> pool, chain |-> chain]} ELSE saved
    BY <1>1, Zenon DEF FinishAdd
  <2>2. Sound(pool, chain)
    BY <1>1, Zenon DEF Sound, MinedInv
  <2> HIDE DEF needed
  <2>3. CASE needed /\ saved = {}
    <3>1. saved' = {[txpool |-> pool, chain |-> chain]}
      BY <2>1, <2>3, Zenon
    <3>2. \A s \in saved' : Sound(s.txpool, s.chain) /\ s.chain = chain
      BY <2>2, <3>1
    <3>3. saved' # {}
      BY <3>1, Zenon
    <3> QED BY <1>1, <2>1, <2>2, <2>3, <3>2, <3>3, Zenon
  <2>4. CASE ~(needed /\ saved = {})
    <3>1. saved' = saved
      BY <2>1, <2>4, Zenon
    <3> QED BY <1>1, <2>1, <2>2, <2>4, <3>1, Zenon DEF MinedInv
  <2> QED BY <2>3, <2>4, Zenon
<1>2. ASSUME NEW m, NEW u, StoreTx(t, m, u) PROVE Goal
  <2> DEFINE row == [relay |-> m, receive_time |-> now, max_used |-> u, last_failed |-> {}]
  <2>1. DOMAIN With(txpool, t, row) = DOMAIN txpool \cup {t}
    BY Zenon DEF With
  <2> QED BY <1>1, <1>2, <2>1, Zenon DEF StoreTx
<1>3. ASSUME UNCHANGED <<txpool, saved, prune_it>> PROVE Goal
  BY <1>3, Zenon DEF MinedInv
<1>4. ASSUME NEW m, RefuseTx(t, m) PROVE Goal
  BY <1>3, <1>4, Zenon DEF RefuseTx
<1> HIDE DEF Goal
<1>5. CASE AddValid(t, method)
  <2>1. \/ FinishAdd(t, txpool, m_txs_by_fee_and_receive_time)
        \/ \E m : StoreTx(t, m, MaxUsed(t)) \/ RefuseTx(t, m)
    BY <1>5, Zenon DEF AddValid
  <2>2. CASE FinishAdd(t, txpool, m_txs_by_fee_and_receive_time)
    BY <1>1, <2>2, Zenon
  <2> QED BY <1>2, <1>4, <2>1, <2>2, Zenon
<1> QED BY <1>2, <1>3, <1>4, <1>5, Zenon

(* add_tx for a transaction of a block, as AddKeepsMined.  *)
LEMMA KeptKeepsMined ==
  ASSUME MinedInv, NEW t, t \notin Mined(chain), AddKeptByBlock(t)
  PROVE  /\ DOMAIN txpool' \subseteq DOMAIN txpool \cup {t}
         /\ Sound(txpool', chain)
         /\ \A s \in saved' : Sound(s.txpool, s.chain)
         /\ \A s \in saved' \ saved : s.chain = chain
         /\ prune_it' # {} => saved' # {}
         /\ saved # {} => saved' = saved
<1>1. AddValid(t, "block") \/ StoreTx(t, "block", 0) \/ RefuseTx(t, "block")
  BY Zenon DEF AddKeptByBlock
<1> QED BY <1>1, AddKeepsMined, Zenon

(* Jobs as the block handling sets them.  *)
LEMMA JobForms ==
  ASSUME NEW S, NEW T, S \subseteq Txs, T \subseteq Txs
  PROVE  /\ Idle \in Jobs /\ Idle.op = "idle" /\ Idle.todo = {} /\ Idle.taken = {}
         /\ Batch \in Jobs /\ Batch.op = "batch" /\ Batch.todo = {} /\ Batch.taken = {}
         /\ ReturnJob(S) \in Jobs /\ ReturnJob(S).op # "take" /\ ReturnJob(S).op # "idle"
         /\ ReturnJob(S).todo = S /\ ReturnJob(S).taken = {}
         /\ \A op \in {"idle", "batch", "take", "return", "pop"} :
              [op |-> op, todo |-> S, taken |-> T] \in Jobs
  BY Zenon DEF Idle, Batch, Jobs, ReturnJob

(* Nothing but the clock, the templates, the input cache or relay methods.  *)
LEMMA QuietMined ==
  ASSUME MinedInv, DOMAIN txpool' = DOMAIN txpool, UNCHANGED <<chain, saved, job>>,
         prune_it' \in {prune_it, {}}
  PROVE  MinedInv'
  BY DEF MinedInv, Sound, JobSound

(* Without only removes.  *)
LEMMA WithoutSmaller ==
  ASSUME NEW f, NEW S
  PROVE  DOMAIN Without(f, S) \subseteq DOMAIN f
  BY Zenon DEF Without, Restrict

(* Rows leave the pool while the job stays as it is.  *)
LEMMA RemoveMined ==
  ASSUME MinedInv, DOMAIN txpool' \subseteq DOMAIN txpool, UNCHANGED <<chain, saved, job>>,
         prune_it' # {} => saved # {}
  PROVE  MinedInv'
  BY Zenon DEF MinedInv, Sound, JobSound

(* Every step keeps MinedInv.  *)
LEMMA NextMined ==
  ASSUME MinedInv, [Next]_vars
  PROVE  MinedInv'
<1>1. CASE UNCHANGED vars
  BY <1>1, QuietMined, Zenon DEF vars
<1>2. ASSUME NEW t \in Txs, NEW m \in Arrivals, add_new_tx(t, m) PROVE MinedInv'
  <2>1. /\ job = Idle /\ UNCHANGED <<chain, job>>
        /\ t \notin Mined(chain) /\ AddLoose(t, m)
    BY <1>2, Zenon DEF add_new_tx, Unlocked
  <2>2. AddValid(t, m) \/ UNCHANGED <<txpool, saved, prune_it>>
    BY <2>1 DEF AddLoose
  <2>3. /\ Sound(txpool', chain)
        /\ \A s \in saved' : Sound(s.txpool, s.chain)
        /\ \A s \in saved' \ saved : s.chain = chain
        /\ prune_it' # {} => saved' # {}
    BY <2>1, <2>2, AddKeepsMined, Zenon
  <2>4. JobSound'
    BY <2>1, JobForms, Zenon DEF MinedInv, JobSound
  <2> QED BY <2>1, <2>3, <2>4, Zenon DEF MinedInv, Sound
<1>3. ASSUME NEW t \in Txs, NEW m \in Arrivals, set_relayed(t, m) PROVE MinedInv'
  BY <1>3, QuietMined, Zenon DEF set_relayed
<1>4. ASSUME NEW t \in Txs, flush_tx(t) PROVE MinedInv'
  <2>1. DOMAIN txpool' \subseteq DOMAIN txpool
    BY <1>4, WithoutSmaller, Zenon DEF flush_tx, Taken
  <2> QED BY <1>4, <2>1, RemoveMined, Zenon DEF flush_tx, MinedInv
<1>5. ASSUME NEW t \in Txs, handle_incoming_tx(t) PROVE MinedInv'
  <2>1. /\ job = Batch /\ UNCHANGED <<chain, job>>
        /\ t \notin Mined(chain) /\ AddKeptByBlock(t)
    BY <1>5, Zenon DEF handle_incoming_tx, InBatch
  <2>2. /\ Sound(txpool', chain)
        /\ \A s \in saved' : Sound(s.txpool, s.chain)
        /\ prune_it' # {} => saved' # {}
    BY <2>1, KeptKeepsMined, Zenon
  <2>3. JobSound' /\ job' # Idle
    BY <2>1, JobForms, Zenon DEF MinedInv, JobSound
  <2> QED BY <2>1, <2>2, <2>3, Zenon DEF MinedInv, Sound
<1>6. ASSUME NEW t \in Txs, TakeOne(t) PROVE MinedInv'
  <2>1. /\ job.op = "take" /\ t \in job.todo /\ UNCHANGED <<chain, saved, prune_it>>
        /\ job \in Jobs
    BY <1>6, Zenon DEF TakeOne, MinedInv, JobSound
  <2>2. CASE t \in Mined(chain) \/ t \notin DOMAIN txpool
    <3>1. job' = ReturnJob(job.taken) /\ UNCHANGED txpool
      BY <1>6, <2>2, Zenon DEF TakeOne
    <3>2. job.taken \subseteq Txs
      BY <2>1 DEF Jobs
    <3>3. JobSound' /\ job' # Idle
      BY <2>1, <3>1, <3>2, JobForms, ZenonT(60) DEF MinedInv, JobSound
    <3> QED BY <2>1, <3>1, <3>3, Zenon DEF MinedInv, Sound
  <2>3. CASE ~(t \in Mined(chain) \/ t \notin DOMAIN txpool)
    <3>1. /\ txpool' = Without(txpool, {t})
          /\ job' = IF InputsOk(chain, t)
                    THEN [job EXCEPT !.todo = @ \ {t}, !.taken = @ \cup {t}]
                    ELSE ReturnJob(job.taken \cup {t})
      BY <1>6, <2>3 DEF TakeOne, Taken
    <3>2. DOMAIN txpool' = DOMAIN txpool \ {t}
      BY <3>1, PoolUpdates, Zenon
    <3>3. job.taken \cup {t} \subseteq Txs
      BY <2>1, Zenon DEF Jobs
    <3>4. CASE InputsOk(chain, t)
      <4>1. /\ job' \in Jobs /\ job'.op = "take" /\ job'.taken = job.taken \cup {t}
        BY <2>1, <3>1, <3>4, Zenon DEF Jobs
      <4>2. Mined(chain)' = Mined(chain)
        BY <2>1, Zenon DEF Mined
      <4>3. job.taken \cap DOMAIN txpool = {} /\ job.taken \cap Mined(chain) = {}
        BY Zenon DEF MinedInv, JobSound
      <4>4. job'.taken \cap DOMAIN txpool' = {} /\ job'.taken \cap Mined(chain) = {}
        BY <2>3, <3>2, <4>1, <4>3, Zenon
      <4>5. JobSound'
        BY <4>1, <4>2, <4>4, Zenon DEF JobSound
      <4>6. job' # Idle
        BY <4>1 DEF Idle
      <4> QED BY <2>1, <3>2, <4>5, <4>6, Zenon DEF MinedInv, Sound
    <3>5. CASE ~InputsOk(chain, t)
      <4>1. /\ job' \in Jobs /\ job'.op # "idle" /\ job'.todo = job.taken \cup {t}
            /\ job'.taken = {}
        BY <3>1, <3>3, <3>5, JobForms, Zenon
      <4>2. (job.taken \cup {t}) \cap Mined(chain') = {}
        BY <2>1, <2>3, Zenon DEF MinedInv, JobSound
      <4>3. JobSound' /\ job' # Idle
        BY <4>1, <4>2, JobForms, Zenon DEF JobSound
      <4> QED BY <2>1, <3>2, <4>3, Zenon DEF MinedInv, Sound
    <3> QED BY <3>4, <3>5
  <2> QED BY <2>2, <2>3, Zenon
<1>7. ASSUME NEW t \in Txs, ReturnOne(t) \/ RepoolOne(t) PROVE MinedInv'
  <2>1. /\ job.op # "take" /\ job.op # "idle" /\ job \in Jobs /\ t \in job.todo
        /\ AddKeptByBlock(t) /\ UNCHANGED chain
    BY <1>7, Zenon DEF ReturnOne, RepoolOne, MinedInv, JobSound
  <2>2. t \notin Mined(chain) /\ job.taken = {} /\ job.todo \cap Mined(chain) = {}
    BY <2>1, Zenon DEF MinedInv, JobSound
  <2>3. /\ Sound(txpool', chain)
        /\ \A s \in saved' : Sound(s.txpool, s.chain)
        /\ prune_it' # {} => saved' # {}
    BY <2>1, <2>2, KeptKeepsMined, Zenon
  <2>4. job.todo \ {t} \subseteq Txs
    BY <2>1 DEF Jobs
  <2>5. job' = ReturnJob(job.todo \ {t}) \/ job' = [job EXCEPT !.todo = @ \ {t}]
    BY <1>7 DEF ReturnOne, RepoolOne
  <2>6. /\ job' \in Jobs /\ job'.op # "take" /\ job'.op # "idle"
        /\ job'.todo = job.todo \ {t} /\ job'.taken = {}
    <3>1. CASE job' = ReturnJob(job.todo \ {t})
      BY <2>4, <3>1, JobForms, Zenon
    <3>2. CASE job' = [job EXCEPT !.todo = @ \ {t}]
      BY <2>1, <2>2, <3>2, Zenon DEF Jobs
    <3> QED BY <2>5, <3>1, <3>2, Zenon
  <2>7. JobSound' /\ job' # Idle
    BY <2>1, <2>2, <2>6, JobForms, Zenon DEF JobSound
  <2> QED BY <2>1, <2>3, <2>7, Zenon DEF MinedInv, Sound
<1>8. CASE prune
  <2>1. PICK e \in prune_it : prune!(e)
    BY <1>8, Zenon DEF prune
  <2>2. saved # {} /\ UNCHANGED <<chain, job>>
    BY <2>1, Zenon DEF MinedInv
  <2>3. CASE /\ saved' = IF job = Idle THEN {} ELSE saved
             /\ prune_it' = {} /\ UNCHANGED txpool
    BY <2>2, <2>3, Zenon DEF MinedInv, Sound, JobSound
  <2>4. CASE /\ saved' = IF job = Idle THEN {} ELSE saved
             /\ txpool' = IF job = Idle THEN (CHOOSE s \in saved : TRUE).txpool ELSE txpool
             /\ prune_it' = {}
    <3>1. CASE job = Idle
      <4>1. Sound(txpool', chain)
        BY <2>2, <2>4, <3>1, Zenon DEF MinedInv
      <4>2. JobSound'
        BY <2>2, <3>1, JobForms, Zenon DEF MinedInv, JobSound
      <4> QED BY <2>2, <2>4, <3>1, <4>1, <4>2, Zenon DEF MinedInv, Sound
    <3>2. CASE job # Idle
      BY <2>2, <2>4, <3>2, Zenon DEF MinedInv, Sound, JobSound
    <3> QED BY <3>1, <3>2, Zenon
  <2>5. CASE /\ IF txpool[e.tx].relay = "block"
                THEN UNCHANGED <<txpool, memory, m_btc>>
                ELSE PruneRemoves(e)
             /\ UNCHANGED saved
    <3>1. DOMAIN txpool' \subseteq DOMAIN txpool
      BY <2>5, WithoutSmaller, Zenon DEF PruneRemoves
    <3> QED BY <2>2, <2>5, <3>1, RemoveMined, Zenon
  <2> QED BY <2>1, <2>3, <2>4, <2>5, Zenon
<1>9. CASE remove_stuck_transactions
  <2>1. DOMAIN txpool' \subseteq DOMAIN txpool
    BY <1>9, WithoutSmaller, Zenon DEF remove_stuck_transactions
  <2> QED BY <1>9, <2>1, RemoveMined, Zenon DEF remove_stuck_transactions, MinedInv
<1>10. ASSUME NEW from_block \in BOOLEAN, create_block_template(from_block) PROVE MinedInv'
  <2>1. DOMAIN txpool' = DOMAIN txpool
    BY <1>10, Zenon DEF create_block_template, fill_block_template
  <2> QED BY <1>10, <2>1, QuietMined, Zenon DEF create_block_template
<1>11. CASE prepare_handle_incoming_blocks
  <2>1. /\ job' = Batch /\ saved' = {[txpool |-> txpool, chain |-> chain]}
        /\ UNCHANGED <<txpool, chain, prune_it>>
    BY <1>11, Zenon DEF prepare_handle_incoming_blocks, Snapshot
  <2>2. \A s \in saved' : Sound(s.txpool, s.chain)
    BY <2>1 DEF MinedInv
  <2>3. JobSound' /\ job' # Idle
    BY <2>1, JobForms, Zenon DEF JobSound
  <2> QED BY <2>1, <2>2, <2>3, Zenon DEF MinedInv, Sound
<1>12. CASE cleanup_handle_incoming_blocks
  <2>1. /\ job' = Idle /\ saved' = {} /\ prune_it' = {}
    BY <1>12, Zenon DEF cleanup_handle_incoming_blocks, InBatch
  <2>2. Sound(txpool', chain')
    BY <1>12 DEF cleanup_handle_incoming_blocks, MinedInv
  <2>3. JobSound'
    BY <2>1, JobForms, Zenon DEF JobSound
  <2> QED BY <2>1, <2>2, <2>3, Zenon DEF MinedInv, Sound
<1>13. ASSUME NEW B \in Blocks, handle_block_to_main_chain(B) PROVE MinedInv'
  <2>1. /\ job = Batch /\ job' = [op |-> "take", todo |-> B, taken |-> {}]
        /\ UNCHANGED <<txpool, chain, saved, prune_it>>
    BY <1>13, Zenon DEF handle_block_to_main_chain, InBatch
  <2>2. B \subseteq Txs
    BY TxPoolAssumption, Zenon
  <2>3. job' \in Jobs /\ job'.op = "take" /\ job'.taken = {} /\ job' # Idle
    BY <2>1, <2>2, Zenon DEF Jobs, Idle
  <2>4. JobSound' /\ job' # Idle
    BY <2>3, Zenon DEF JobSound
  <2> QED BY <2>1, <2>4, Zenon DEF MinedInv, Sound
<1>14. CASE FinishBlock
  <2>1. /\ job.op = "take" /\ job \in Jobs /\ UNCHANGED <<txpool, saved, prune_it>>
        /\ job.taken \subseteq Txs
    BY <1>14, Zenon DEF FinishBlock, MinedInv, JobSound, Jobs
  <2>2. CASE job' = ReturnJob(job.taken) /\ UNCHANGED chain
    <3>1. JobSound' /\ job' # Idle
      BY <2>1, <2>2, JobForms, ZenonT(60) DEF MinedInv, JobSound
    <3> QED BY <2>1, <2>2, <3>1, Zenon DEF MinedInv, Sound
  <2>3. CASE ~AddBlockThrows(job.taken) /\ chain' = Append(chain, job.taken) /\ job' = Batch
    <3>1. chain' \in Chains /\ Mined(chain') = Mined(chain) \cup job.taken
      BY <2>1, <2>3, AppendMined, Zenon DEF MinedInv, Sound
    <3>2. SpendsOnce(chain')
      BY <2>1, <2>3, AppendSpendsOnce, Zenon DEF MinedInv, Sound, JobSound
    <3>3. Sound(txpool', chain')
      BY <2>1, <3>1, <3>2, Zenon DEF MinedInv, Sound, JobSound
    <3>4. JobSound' /\ job' # Idle
      BY <2>3, JobForms, Zenon DEF JobSound
    <3> QED BY <2>1, <3>3, <3>4, Zenon DEF MinedInv, Sound
  <2> QED BY <1>14, <2>2, <2>3, Zenon DEF FinishBlock
<1>15. CASE pop_block_from_blockchain
  <2>1. /\ chain # <<>> /\ chain' = Front(chain)
        /\ job' = [op |-> "pop", todo |-> Last(chain), taken |-> {}]
        /\ UNCHANGED <<txpool, saved, prune_it>>
    BY <1>15, Zenon DEF pop_block_from_blockchain
  <2>2. /\ chain' \in Chains /\ SpendsOnce(chain') /\ Mined(chain') \subseteq Mined(chain)
        /\ Last(chain) \subseteq Txs /\ Last(chain) \cap Mined(chain') = {}
    BY <2>1, FrontMined, Zenon DEF MinedInv, Sound
  <2>3. Sound(txpool', chain')
    BY <2>1, <2>2, Zenon DEF MinedInv, Sound
  <2>4. /\ job' \in Jobs /\ job'.todo = Last(chain) /\ job'.taken = {} /\ job' # Idle
    BY <2>1, <2>2, Zenon DEF Jobs, Idle
  <2>5. JobSound' /\ job' # Idle
    BY <2>2, <2>4, Zenon DEF JobSound
  <2> QED BY <2>1, <2>3, <2>5, Zenon DEF MinedInv, Sound
<1>16. CASE FinishPop
  <2>1. job' = Batch /\ UNCHANGED <<txpool, chain, saved, prune_it>>
    BY <1>16 DEF FinishPop
  <2>2. JobSound' /\ job' # Idle
    BY <2>1, JobForms, Zenon DEF JobSound
  <2> QED BY <2>1, <2>2, Zenon DEF MinedInv, Sound
<1>17. CASE restart
  <2> DEFINE db == Durable
             kept == {t \in DOMAIN db.txpool :
                        Weight[t] <= TxWeightLimit /\ t \notin Mined(db.chain)}
  <2>1. /\ txpool' = Restrict(db.txpool, kept) /\ chain' = db.chain /\ saved' = {}
        /\ job' = Idle /\ prune_it' = {}
    BY <1>17, Zenon DEF restart
  <2>2. Sound(db.txpool, db.chain)
    BY Zenon DEF Durable, MinedInv
  <2>3. kept \subseteq DOMAIN db.txpool
    BY Zenon
  <2> HIDE DEF db, kept
  <2>4. DOMAIN txpool' = kept
    BY <2>1, <2>3, Zenon DEF Restrict
  <2>5. Sound(txpool', chain')
    BY <2>1, <2>2, <2>3, <2>4, Zenon DEF Sound
  <2>6. JobSound'
    BY <2>1, JobForms, Zenon DEF JobSound
  <2> QED BY <2>1, <2>5, <2>6, Zenon DEF MinedInv, Sound
<1>18. CASE Tick
  BY <1>18, QuietMined, Zenon DEF Tick
<1> QED BY <1>1, <1>2, <1>3, <1>4, <1>5, <1>6, <1>7, <1>8, <1>9, <1>10, <1>11, <1>12,
          <1>13, <1>14, <1>15, <1>16, <1>17, <1>18 DEF Next

(* No key image is spent twice in the main chain and no transaction is both
   pooled and mined, in the open write transaction as on disk, through block
   failures, reorganisations, prunings and crashes.                        *)
THEOREM MinedOnceSafety == Spec => []MinedOnce
<1>1. Init => MinedInv
  <2> SUFFICES ASSUME Init PROVE MinedInv
    BY Zenon
  <2>1. txpool = <<>> /\ chain = <<>> /\ saved = {} /\ job = Idle /\ prune_it = {}
    BY Zenon DEF Init
  <2>2. Sound(txpool, chain)
    BY <2>1 DEF Sound, Chains, SpendsOnce
  <2>3. JobSound
    BY <2>1, JobForms, Zenon DEF JobSound
  <2> QED BY <2>1, <2>2, <2>3, Zenon DEF MinedInv
<1>2. MinedInv /\ [Next]_vars => MinedInv'
  BY NextMined, Zenon
<1>3. MinedInv => MinedOnce
  BY DEF MinedInv, Sound, MinedOnce, Durable
<1> QED BY <1>1, <1>2, <1>3, PTL DEF Spec

=============================================================================
