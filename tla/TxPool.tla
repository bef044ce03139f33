------------------------------- MODULE TxPool -------------------------------
(***************************************************************************)
(* The transaction pool of cryptonote_core/tx_pool.cpp together with the   *)
(* database rows it keeps (txpool), the main chain as far as it decides    *)
(* whether a transaction is valid, the database write transaction that     *)
(* wraps pool and chain updates, and Blockchain's handling of blocks as    *)
(* far as it moves transactions between pool and chain.                    *)
(*                                                                         *)
(* Everything here runs under m_transactions_lock.  The loops that call    *)
(* into the pool transaction by transaction (taking the transactions of a  *)
(* block, returning them, re-adding the ones of a popped block, pruning)   *)
(* are one action per iteration, sequenced by job and prune_it; no other   *)
(* pool operation is enabled between two of them, but a crash is.          *)
(*                                                                         *)
(* A block is the set of its transactions; its id is the chain up to it.   *)
(* Genesis is not in the chain.  A transaction's rings use outputs of its  *)
(* Parents, one confirmation being enough.                                 *)
(***************************************************************************)
EXTENDS Integers, Sequences, FiniteSets, FiniteSetsExt, Functions

CONSTANTS
  Txs,            \* transactions that occur; all well formed
  KeyImages,
  Inputs,         \* Inputs[t]: the key images of t's inputs, in order
  Parents,        \* Parents[t]: transactions whose outputs t's rings use
  Weight,         \* Weight[t]
  Fee,            \* Fee[t]: the fee per weight unit, no two alike
  Accepted,       \* transactions passing the fee and ring size checks
  Blocks,         \* blocks that are offered
  Arrivals,       \* relay methods with which transactions are offered
  Mine_stem_txes, \* m_mine_stem_txes
  TxWeightLimit,  \* get_transaction_weight_limit
  MaxPoolWeight,  \* m_txpool_max_weight
  MaxBlockWeight, \* max_total_weight of fill_block_template
  LiveTime,       \* CRYPTONOTE_MEMPOOL_TX_LIVETIME
  AltLiveTime,    \* CRYPTONOTE_MEMPOOL_TX_FROM_ALT_BLOCK_LIVETIME
  SizeRange,      \* 2^w for the width of size_t
  MaxTime,        \* bound: the clock stops here
  MaxChain        \* bound: no block is added beyond this many

Methods == {"none", "local", "forward", "stem", "fluff", "block"}

ASSUME TxPoolAssumption ==
  /\ Inputs \in [Txs -> Seq(KeyImages)]
  /\ \A t \in Txs : IsInjective(Inputs[t])
  /\ Parents \in [Txs -> SUBSET Txs]
  /\ Weight \in [Txs -> Nat]
  /\ Fee \in [Txs -> Nat] /\ IsInjective(Fee)
  /\ Accepted \subseteq Txs
  /\ Blocks \subseteq SUBSET Txs
  /\ Arrivals \subseteq Methods \ {"block"}
  /\ Mine_stem_txes \in BOOLEAN
  /\ {TxWeightLimit, MaxPoolWeight, MaxBlockWeight, LiveTime, AltLiveTime,
      MaxTime, MaxChain} \subseteq Nat
  /\ SizeRange \in Nat \ {0}

VARIABLES
  txpool,      \* database: metadata of the pooled transactions
  chain,       \* database: the blocks of the main chain
  saved,       \* {} or {state of the database before the open write transaction}
  m_spent_key_images,
  m_txs_by_fee_and_receive_time,
  m_txpool_weight,
  m_timed_out_transactions,
  m_input_cache,   \* transaction -> outcome of its last input check
  m_btc,       \* {} or {the cached block template}, while m_btc_valid and the
               \* pool cookie, which only grows, is the one it was cached with
  job,         \* the block operation in progress
  prune_it,    \* {} or {the entry prune's iterator stands at}
  m_batch_success, \* TRUE also when no batch is open
  now,
  diverged     \* history: an abort undid rows whose effects in memory stayed

memory == <<m_spent_key_images, m_txs_by_fee_and_receive_time, m_txpool_weight>>
vars == <<txpool, chain, saved, memory, m_timed_out_transactions, m_input_cache,
          m_btc, job, prune_it, m_batch_success, now, diverged>>

Rank == [none |-> 0, local |-> 1, forward |-> 2, stem |-> 3, fluff |-> 4, block |-> 5]

(* matches_category(method, relay_category::legacy)  *)
IsLegacy(method) == method \in {"none", "fluff", "block"}

Legacy(pool, t) == t \in DOMAIN pool /\ IsLegacy(pool[t].relay)

(* Mutant: the relay method is overwritten.  *)
UpgradeAlways(old, method) == method

Upgrade(old, method) == IF Rank[old] < Rank[method] THEN method ELSE old

Front(s) == SubSeq(s, 1, Len(s) - 1)
Last(s) == s[Len(s)]
KeysOf(t) == Range(Inputs[t])
Mined(c) == UNION Range(c)
SpentIn(c) == UNION {KeysOf(t) : t \in Mined(c)}

(* Blockchain::check_tx_inputs: ring members exist, key images unspent.  *)
InputsOk(c, t) == Parents[t] \subseteq Mined(c) /\ KeysOf(t) \cap SpentIn(c) = {}

(* max_used_block_height: the newest block whose outputs t's rings use, 0
   when they are older than every block of the model.                      *)
MaxUsed(t) ==
  Max({0} \cup {h \in DOMAIN chain : chain[h] \cap Parents[t] # {}})

(* tx_memory_pool::check_tx_inputs for a transaction not from a block.  *)
CachedInputsOk(t) ==
  IF t \in DOMAIN m_input_cache THEN m_input_cache[t] ELSE InputsOk(chain, t)

Without(f, S) == Restrict(f, DOMAIN f \ S)
With(f, x, y) == [z \in DOMAIN f \cup {x} |-> IF z = x THEN y ELSE f[z]]

SumWeight(S) == MapThenSumSet(LAMBDA t : Weight[t], S)
Plus(w, d) == (w + d) % SizeRange

(* txCompare: greatest fee first, then earliest.  *)
Before(e, f) ==
  Fee[e.tx] > Fee[f.tx] \/ (e.tx = f.tx /\ e.time < f.time)
FirstOf(S) == CHOOSE e \in S : \A f \in S \ {e} : Before(e, f)
LastOf(S) == CHOOSE e \in S : \A f \in S \ {e} : Before(f, e)

(* erase(find_tx_in_sorted_container(t)) for every t in S: the first entry
   of each transaction goes.                                               *)
EraseSorted(sorted, S) ==
  {e \in sorted : e.tx \notin S \/ \E f \in sorted : f.tx = e.tx /\ f.time < e.time}

have_tx_keyimges_as_spent(t) ==
  \E k \in KeysOf(t) :
    /\ m_spent_key_images[k] # {}
    /\ m_spent_key_images[k] # {t} \/ Legacy(txpool, t)

(* The inputs insert_key_images would refuse, and the key images inserted
   before it meets the first of them.                                      *)
Refused(t, method) ==
  {i \in DOMAIN Inputs[t] :
    LET set == m_spent_key_images[Inputs[t][i]]
    IN  \/ method # "block" /\ set \notin {{}, {t}}
        \/ t \in set /\ Legacy(txpool, t)}
insert_key_images(t, method) ==
  [k \in KeyImages |->
    IF \E i \in DOMAIN Inputs[t] :
         Inputs[t][i] = k /\ \A j \in Refused(t, method) : i < j
    THEN m_spent_key_images[k] \cup {t} ELSE m_spent_key_images[k]]

(* Mutant: the loop ends after the first input.  *)
RemoveFirstKeyImageOnly(S) ==
  [k \in KeyImages |->
    {t \in m_spent_key_images[k] : ~(t \in S /\ Inputs[t][1] = k)}]

(* For every t in S the key images up to the first one it is not listed
   under are given back.                                                   *)
remove_transaction_keyimages(S) ==
  [k \in KeyImages |->
    {t \in m_spent_key_images[k] :
      ~(t \in S /\ \E i \in DOMAIN Inputs[t] :
           Inputs[t][i] = k /\ \A j \in 1..i : t \in m_spent_key_images[Inputs[t][j]])}]

(* ++m_cookie, and invalidate_block_template_cache.  *)
NoTemplate == {}
Idle == [op |-> "idle", todo |-> {}, taken |-> {}]
Batch == [op |-> "batch", todo |-> {}, taken |-> {}]
Snapshot == {[txpool |-> txpool, chain |-> chain]}

Unlocked == job = Idle /\ prune_it = {}
InBatch == job = Batch /\ prune_it = {}

-----------------------------------------------------------------------------
(* The end of an add_tx that returns true: the weight is added, the cookie
   moves, and prune starts if it has something to do, in a write transaction
   of its own unless one is open.                                          *)
AddedWeight(t) == Plus(m_txpool_weight, Weight[t])
FinishAdd(t, pool, sorted) ==
  LET needed == AddedWeight(t) > MaxPoolWeight /\ Cardinality(sorted) > 1
  IN  /\ txpool' = pool
      /\ m_txs_by_fee_and_receive_time' = sorted
      /\ m_txpool_weight' = AddedWeight(t)
      /\ m_btc' = NoTemplate
      /\ prune_it' = IF needed THEN {LastOf(sorted)} ELSE {}
      /\ saved' = IF needed /\ saved = {}
                  THEN {[txpool |-> pool, chain |-> chain]} ELSE saved

StoreTx(t, method, used) ==
  /\ m_spent_key_images' = insert_key_images(t, method)
  /\ FinishAdd(t,
       With(txpool, t, [relay |-> method, receive_time |-> now,
                        max_used |-> used, last_failed |-> {}]),
       m_txs_by_fee_and_receive_time \cup {[tx |-> t, time |-> now]})

RefuseTx(t, method) ==
  /\ m_spent_key_images' = insert_key_images(t, method)
  /\ m_btc' = IF Refused(t, method) = {} THEN NoTemplate ELSE m_btc
  /\ UNCHANGED <<txpool, saved, m_txs_by_fee_and_receive_time, m_txpool_weight,
                 prune_it>>

(* The checks passed and the inputs are valid.  *)
AddValid(t, method) ==
  LET known == t \in DOMAIN txpool
      relay == IF method = "stem" /\ known /\ txpool[t].relay = "stem"
               THEN "fluff" ELSE method
      unchanged == known /\ Rank[relay] <= Rank[txpool[t].relay]
  IN  \/ /\ unchanged
         /\ UNCHANGED m_spent_key_images
         /\ FinishAdd(t, txpool, m_txs_by_fee_and_receive_time)
      \/ ~unchanged /\ Refused(t, relay) = {} /\ StoreTx(t, relay, MaxUsed(t))
      \/ ~unchanged /\ Refused(t, relay) # {} /\ RefuseTx(t, relay)

(* add_tx for a transaction of a block: kept even when its inputs are not
   valid on the current chain, unless its row exists already.              *)
AddKeptByBlock(t) ==
  /\ \/ InputsOk(chain, t) /\ AddValid(t, "block")
     \/ /\ ~InputsOk(chain, t)
        /\ IF Refused(t, "block") = {} /\ t \notin DOMAIN txpool
           THEN StoreTx(t, "block", 0) ELSE RefuseTx(t, "block")
  /\ UNCHANGED m_input_cache

(* add_tx for a transaction that did not come with a block.  mark_double_spend
   moves the cookie only if it marks something, which is left open.        *)
AddLoose(t, method) ==
  \/ /\ have_tx_keyimges_as_spent(t)
     /\ m_btc' \in {m_btc, NoTemplate}
     /\ UNCHANGED <<txpool, saved, memory, prune_it, m_input_cache>>
  \/ /\ ~have_tx_keyimges_as_spent(t)
     /\ m_input_cache' = With(m_input_cache, t, CachedInputsOk(t))
     /\ \/ CachedInputsOk(t) /\ AddValid(t, method)
        \/ /\ ~CachedInputsOk(t)
           /\ UNCHANGED <<txpool, saved, memory, prune_it, m_btc>>

(* core::add_new_tx: a transaction offered by a peer, a wallet or the RPC.  *)
add_new_tx(t, method) ==
  /\ Unlocked
  /\ ~Legacy(txpool, t) /\ t \notin Mined(chain)
  /\ t \in Accepted \ m_timed_out_transactions
  /\ Weight[t] <= TxWeightLimit
  /\ AddLoose(t, method)
  /\ UNCHANGED <<chain, m_timed_out_transactions, job, m_batch_success, now, diverged>>

(* Mutant: the limit is off by one.  *)
PruneDoneOffByOne(above) == m_txpool_weight <= MaxPoolWeight + 1 \/ above = {}

PruneDone(above) == m_txpool_weight <= MaxPoolWeight \/ above = {}

(* Mutant: the iterator is moved before the entry is erased.  *)
PruneErasesNext(e) ==
  /\ txpool' = Without(txpool, {e.tx})
  /\ m_txpool_weight' = Plus(m_txpool_weight, -Weight[e.tx])
  /\ m_spent_key_images' = remove_transaction_keyimages({e.tx})
  /\ m_txs_by_fee_and_receive_time' = m_txs_by_fee_and_receive_time \
       {LastOf({f \in m_txs_by_fee_and_receive_time : Before(f, e)})}
  /\ m_btc' = NoTemplate

(* One iteration of prune's loop, from the lowest fee up.  Its write
   transaction is its own exactly when no batch is open (job is idle), and
   is then aborted by the early return.                                    *)
PruneRemoves(e) ==
  /\ txpool' = Without(txpool, {e.tx})
  /\ m_txpool_weight' = Plus(m_txpool_weight, -Weight[e.tx])
  /\ m_spent_key_images' = remove_transaction_keyimages({e.tx})
  /\ m_txs_by_fee_and_receive_time' = m_txs_by_fee_and_receive_time \ {e}
  /\ m_btc' = NoTemplate

prune ==
  \E e \in prune_it :
    LET own == job = Idle
        above == {f \in m_txs_by_fee_and_receive_time : Before(f, e)}
    IN  /\ \/ /\ PruneDone(above)
              /\ prune_it' = {}
              /\ saved' = IF own THEN {} ELSE saved
              /\ UNCHANGED <<txpool, memory, m_btc, diverged>>
           \/ /\ ~PruneDone(above)
              /\ e.tx \notin DOMAIN txpool
              /\ prune_it' = {}
              /\ saved' = IF own THEN {} ELSE saved
              /\ txpool' = IF own THEN (CHOOSE s \in saved : TRUE).txpool ELSE txpool
              /\ diverged' = (diverged \/ txpool' # txpool)
              /\ UNCHANGED <<memory, m_btc>>
           \/ /\ ~PruneDone(above)
              /\ e.tx \in DOMAIN txpool
              /\ prune_it' = {LastOf(above)}
              /\ IF txpool[e.tx].relay = "block"
                 THEN UNCHANGED <<txpool, memory, m_btc>>
                 ELSE PruneRemoves(e)
              /\ UNCHANGED <<saved, diverged>>
        /\ UNCHANGED <<chain, m_timed_out_transactions, m_input_cache, job,
                       m_batch_success, now>>

-----------------------------------------------------------------------------
(* Mutant: the cookie is not moved.  *)
TakenKeepsCookie(t) ==
  /\ txpool' = Without(txpool, {t})
  /\ m_txpool_weight' = Plus(m_txpool_weight, -Weight[t])
  /\ m_spent_key_images' = remove_transaction_keyimages({t})
  /\ m_txs_by_fee_and_receive_time' = EraseSorted(m_txs_by_fee_and_receive_time, {t})
  /\ m_btc' = m_btc

(* What take_tx does to a pooled transaction.  *)
Taken(t) ==
  /\ txpool' = Without(txpool, {t})
  /\ m_txpool_weight' = Plus(m_txpool_weight, -Weight[t])
  /\ m_spent_key_images' = remove_transaction_keyimages({t})
  /\ m_txs_by_fee_and_receive_time' = EraseSorted(m_txs_by_fee_and_receive_time, {t})
  /\ m_btc' = NoTemplate

(* flush_txes_from_pool, the operator's command.  *)
flush_tx(t) ==
  /\ Unlocked /\ t \in DOMAIN txpool
  /\ Taken(t)
  /\ UNCHANGED <<chain, saved, m_timed_out_transactions, m_input_cache, job,
                 prune_it, m_batch_success, now, diverged>>

(* tx_age is the difference of two unsigned numbers; the clock only moves
   forward here.                                                           *)
Outdated ==
  {t \in DOMAIN txpool :
     now - txpool[t].receive_time >
       (IF txpool[t].relay = "block" THEN AltLiveTime ELSE LiveTime)}

remove_stuck_transactions ==
  /\ Unlocked /\ Outdated # {}
  /\ txpool' = Without(txpool, Outdated)
  /\ m_txpool_weight' = Plus(m_txpool_weight, -SumWeight(Outdated))
  /\ m_spent_key_images' = remove_transaction_keyimages(Outdated)
  /\ m_txs_by_fee_and_receive_time' =
       EraseSorted(m_txs_by_fee_and_receive_time, Outdated)
  /\ m_timed_out_transactions' = m_timed_out_transactions \cup Outdated
  /\ m_btc' = NoTemplate
  /\ UNCHANGED <<chain, saved, m_input_cache, job, prune_it, m_batch_success,
                 now, diverged>>

(* The cookie does not move.  Relay times are not part of this module.  *)
set_relayed(t, method) ==
  /\ Unlocked /\ t \in DOMAIN txpool
  /\ txpool' = [txpool EXCEPT ![t].relay = Upgrade(@, method)]
  /\ UNCHANGED <<chain, saved, memory, m_timed_out_transactions, m_input_cache,
                 m_btc, job, prune_it, m_batch_success, now, diverged>>

-----------------------------------------------------------------------------
Minable(t) ==
  IsLegacy(txpool[t].relay) \/ (Mine_stem_txes /\ txpool[t].relay = "stem")

(* The early exits of is_transaction_ready_to_go: a ring member above the
   tip, or a failure remembered at a block that is still in the chain.  A
   null max_used_block_id behaves as a height of 0.                        *)
KnownNotReady(t) ==
  \/ txpool[t].max_used > Len(chain)
  \/ \E p \in txpool[t].last_failed :
       Len(p) <= Len(chain) /\ p = SubSeq(chain, 1, Len(p))

Rechecked(t) ==
  IF CachedInputsOk(t)
  THEN [txpool[t] EXCEPT !.max_used = MaxUsed(t)]
  ELSE [txpool[t] EXCEPT !.max_used = 0, !.last_failed = {chain}]

(* fill_block_template walks the sorted container and fills tx_hashes with T.
   poor are the transactions that would lower the coinbase too much.       *)
fill_block_template(T, poor) ==
  LET better(t) == {u \in T : Fee[u] > Fee[t]}
      checked == {t \in {e.tx : e \in m_txs_by_fee_and_receive_time} \cap DOMAIN txpool :
                    /\ Minable(t)
                    /\ SumWeight(better(t)) + Weight[t] <= MaxBlockWeight
                    /\ t \notin poor
                    /\ ~KnownNotReady(t)}
  IN  /\ T = {t \in checked :
                /\ CachedInputsOk(t)
                /\ \A u \in better(t) : KeysOf(t) \cap KeysOf(u) = {}}
      /\ txpool' = [t \in DOMAIN txpool |->
                      IF t \in checked THEN Rechecked(t) ELSE txpool[t]]
      /\ m_input_cache' = [t \in DOMAIN m_input_cache \cup checked |-> CachedInputsOk(t)]

(* A template on the tip is cached, one from an alternative block is not.
   Handing out the cached template again changes nothing.  core asks for one
   for the miner when a block was added, last thing before the batch is
   committed; it is the one made just after.  (A switch inside a switch can
   have doomed the batch by then; the outcomes m_input_cache has learnt would
   outlive it.  That case is left out.)                                    *)
create_block_template(from_block) ==
  /\ Unlocked
  /\ \E T, poor \in SUBSET DOMAIN txpool :
       /\ fill_block_template(T, poor)
       /\ m_btc' = IF from_block THEN m_btc
                   ELSE {[txs |-> T, prev |-> chain]}
  /\ UNCHANGED <<chain, saved, memory, m_timed_out_transactions, job, prune_it,
                 m_batch_success, now, diverged>>

-----------------------------------------------------------------------------
(* The lock and the batch of prepare_handle_incoming_blocks, or of pop_blocks. *)
prepare_handle_incoming_blocks ==
  /\ Unlocked
  /\ job' = Batch /\ saved' = Snapshot /\ m_batch_success' = TRUE
  /\ UNCHANGED <<txpool, chain, memory, m_timed_out_transactions, m_input_cache,
                 m_btc, prune_it, now, diverged>>

(* batch_abort puts the database back; the pool's memory stays as it is.  *)
cleanup_handle_incoming_blocks ==
  /\ InBatch
  /\ job' = Idle /\ saved' = {}
  /\ IF m_batch_success
     THEN UNCHANGED <<txpool, chain, diverged>>
     ELSE \E s \in saved : /\ txpool' = s.txpool /\ chain' = s.chain
                           /\ diverged' = (diverged \/ DOMAIN s.txpool # DOMAIN txpool)
  /\ m_batch_success' = TRUE
  /\ UNCHANGED <<memory, m_timed_out_transactions, m_input_cache, m_btc, prune_it, now>>

(* A transaction sent along with a block.  *)
handle_incoming_tx(t) ==
  /\ InBatch /\ m_batch_success
  /\ ~Legacy(txpool, t) /\ t \notin Mined(chain)
  /\ AddKeptByBlock(t)
  /\ UNCHANGED <<chain, m_timed_out_transactions, job, m_batch_success, now, diverged>>

ReturnJob(S) == IF S = {} THEN Batch ELSE [op |-> "return", todo |-> S, taken |-> {}]

(* handle_block_to_main_chain past its header checks.  *)
handle_block_to_main_chain(B) ==
  /\ InBatch /\ m_batch_success
  /\ Len(chain) < MaxChain
  /\ job' = [op |-> "take", todo |-> B, taken |-> {}]
  /\ UNCHANGED <<txpool, chain, saved, memory, m_timed_out_transactions,
                 m_input_cache, m_btc, prune_it, m_batch_success, now, diverged>>

(* Mutant: the transaction with wrong inputs is not on the list of those to
   return yet.                                                             *)
TakeOneDropsFailed(t) ==
  /\ job.op = "take" /\ t \in job.todo
  /\ IF t \in Mined(chain) \/ t \notin DOMAIN txpool
     THEN job' = ReturnJob(job.taken) /\ UNCHANGED <<txpool, memory, m_btc>>
     ELSE /\ Taken(t)
          /\ job' = IF InputsOk(chain, t)
                    THEN [job EXCEPT !.todo = @ \ {t}, !.taken = @ \cup {t}]
                    ELSE ReturnJob(job.taken)
  /\ UNCHANGED <<chain, saved, m_timed_out_transactions, m_input_cache, prune_it,
                 m_batch_success, now, diverged>>

TakeOne(t) ==
  /\ job.op = "take" /\ t \in job.todo
  /\ IF t \in Mined(chain) \/ t \notin DOMAIN txpool
     THEN job' = ReturnJob(job.taken) /\ UNCHANGED <<txpool, memory, m_btc>>
     ELSE /\ Taken(t)
          /\ job' = IF InputsOk(chain, t)
                    THEN [job EXCEPT !.todo = @ \ {t}, !.taken = @ \cup {t}]
                    ELSE ReturnJob(job.taken \cup {t})
  /\ UNCHANGED <<chain, saved, m_timed_out_transactions, m_input_cache, prune_it,
                 m_batch_success, now, diverged>>

ConflictingTxs(S) == \E t, u \in S : t # u /\ KeysOf(t) \cap KeysOf(u) # {}

(* Mutant: only the key images of earlier blocks are looked up.  *)
ThrowsForChainOnly(S) == \E t \in S : KeysOf(t) \cap SpentIn(chain) # {}

(* BlockchainDB::add_block throws KEY_IMAGE_EXISTS.  *)
AddBlockThrows(S) ==
  ConflictingTxs(S) \/ \E t \in S : KeysOf(t) \cap SpentIn(chain) # {}

(* The miner transaction may be wrong, or add_block may throw.  *)
FinishBlock ==
  /\ job.op = "take" /\ job.todo = {}
  /\ \/ /\ job' = ReturnJob(job.taken)
        /\ UNCHANGED <<chain, m_input_cache, m_btc, m_batch_success>>
     \/ /\ AddBlockThrows(job.taken)
        /\ job' = ReturnJob(job.taken) /\ m_batch_success' = FALSE
        /\ UNCHANGED <<chain, m_input_cache, m_btc>>
     \/ /\ ~AddBlockThrows(job.taken)
        /\ chain' = Append(chain, job.taken) /\ job' = Batch
        /\ m_input_cache' = <<>> /\ m_btc' = NoTemplate
        /\ UNCHANGED m_batch_success
  /\ UNCHANGED <<txpool, saved, memory, m_timed_out_transactions, prune_it, now, diverged>>

(* return_tx_to_pool, one transaction.  *)
ReturnOne(t) ==
  /\ job.op = "return" /\ prune_it = {} /\ t \in job.todo
  /\ AddKeptByBlock(t)
  /\ job' = ReturnJob(job.todo \ {t})
  /\ UNCHANGED <<chain, m_timed_out_transactions, m_batch_success, now, diverged>>

(* pop_block_from_blockchain: the block goes, its transactions come back one
   by one, then on_blockchain_dec and invalidate_block_template_cache.     *)
pop_block_from_blockchain ==
  /\ InBatch /\ m_batch_success /\ chain # <<>>
  /\ chain' = Front(chain)
  /\ job' = [op |-> "pop", todo |-> Last(chain), taken |-> {}]
  /\ UNCHANGED <<txpool, saved, memory, m_timed_out_transactions, m_input_cache,
                 m_btc, prune_it, m_batch_success, now, diverged>>

RepoolOne(t) ==
  /\ job.op = "pop" /\ prune_it = {} /\ t \in job.todo
  /\ AddKeptByBlock(t)
  /\ job' = [job EXCEPT !.todo = @ \ {t}]
  /\ UNCHANGED <<chain, m_timed_out_transactions, m_batch_success, now, diverged>>

(* Mutant: on_blockchain_dec does nothing, as its comment says.  *)
FinishPopKeepsCache ==
  /\ job.op = "pop" /\ prune_it = {} /\ job.todo = {}
  /\ job' = Batch /\ m_btc' = NoTemplate
  /\ UNCHANGED <<txpool, chain, saved, memory, m_timed_out_transactions,
                 m_input_cache, prune_it, m_batch_success, now, diverged>>

FinishPop ==
  /\ job.op = "pop" /\ prune_it = {} /\ job.todo = {}
  /\ job' = Batch /\ m_input_cache' = <<>> /\ m_btc' = NoTemplate
  /\ UNCHANGED <<txpool, chain, saved, memory, m_timed_out_transactions, prune_it,
                 m_batch_success, now, diverged>>

-----------------------------------------------------------------------------
Durable == IF saved = {} THEN [txpool |-> txpool, chain |-> chain]
           ELSE CHOOSE s \in saved : TRUE

(* init lists the transactions not kept by a block first; one whose key image
   is taken by then makes it fail, and the node does not start.            *)
InitSucceeds(pool) ==
  LET loose == {t \in DOMAIN pool : pool[t].relay # "block"}
  IN  ~ConflictingTxs(loose)

InitSorted(pool, kept) == {[tx |-> t, time |-> pool[t].receive_time] : t \in kept}

(* A crash or a shutdown at any point, then init and validate on what the
   database holds.                                                         *)
restart ==
  LET db == Durable
      kept == {t \in DOMAIN db.txpool :
                 Weight[t] <= TxWeightLimit /\ t \notin Mined(db.chain)}
  IN  /\ InitSucceeds(db.txpool)
      /\ txpool' = Restrict(db.txpool, kept) /\ chain' = db.chain /\ saved' = {}
      /\ m_spent_key_images' = [k \in KeyImages |-> {t \in kept : k \in KeysOf(t)}]
      /\ m_txs_by_fee_and_receive_time' = InitSorted(db.txpool, kept)
      /\ m_txpool_weight' = Plus(0, SumWeight(kept))
      /\ m_timed_out_transactions' = {} /\ m_input_cache' = <<>>
      /\ m_btc' = NoTemplate /\ job' = Idle /\ prune_it' = {}
      /\ m_batch_success' = TRUE /\ diverged' = FALSE
      /\ UNCHANGED now

Tick ==
  /\ now < MaxTime
  /\ now' = now + 1
  /\ UNCHANGED <<txpool, chain, saved, memory, m_timed_out_transactions,
                 m_input_cache, m_btc, job, prune_it, m_batch_success, diverged>>

Init ==
  /\ txpool = <<>> /\ chain = <<>> /\ saved = {}
  /\ m_spent_key_images = [k \in KeyImages |-> {}]
  /\ m_txs_by_fee_and_receive_time = {} /\ m_txpool_weight = 0
  /\ m_timed_out_transactions = {} /\ m_input_cache = <<>>
  /\ m_btc = NoTemplate /\ job = Idle /\ prune_it = {}
  /\ m_batch_success = TRUE /\ now = 0 /\ diverged = FALSE

Next ==
  \/ \E t \in Txs, m \in Arrivals : add_new_tx(t, m) \/ set_relayed(t, m)
  \/ \E t \in Txs : \/ flush_tx(t) \/ handle_incoming_tx(t)
                    \/ TakeOne(t) \/ ReturnOne(t) \/ RepoolOne(t)
  \/ prune
  \/ remove_stuck_transactions
  \/ \E from_block \in BOOLEAN : create_block_template(from_block)
  \/ prepare_handle_incoming_blocks
  \/ cleanup_handle_incoming_blocks
  \/ \E B \in Blocks : handle_block_to_main_chain(B)
  \/ FinishBlock
  \/ pop_block_from_blockchain
  \/ FinishPop
  \/ restart
  \/ Tick

Spec == Init /\ [][Next]_vars

-----------------------------------------------------------------------------
(* Types.  The input cache and the pool are partial functions.  *)
Meta == [relay : Methods, receive_time : 0..MaxTime, max_used : 0..MaxChain,
         last_failed : SUBSET Seq(Blocks)]
TypeOK ==
  /\ DOMAIN txpool \subseteq Txs /\ \A t \in DOMAIN txpool : txpool[t] \in Meta
  /\ chain \in Seq(Blocks) /\ Len(chain) <= MaxChain
  /\ Cardinality(saved) <= 1
  /\ m_spent_key_images \in [KeyImages -> SUBSET Txs]
  /\ m_txs_by_fee_and_receive_time \subseteq [tx : Txs, time : 0..MaxTime]
  /\ m_txpool_weight \in 0..(SizeRange - 1)
  /\ m_timed_out_transactions \subseteq Txs
  /\ DOMAIN m_input_cache \subseteq Txs /\ Range(m_input_cache) \subseteq BOOLEAN
  /\ m_btc \subseteq [txs : SUBSET Txs, prev : Seq(Blocks)]
  /\ Cardinality(m_btc) <= 1
  /\ job \in [op : {"idle", "batch", "take", "return", "pop"},
              todo : SUBSET Txs, taken : SUBSET Txs]
  /\ prune_it \subseteq m_txs_by_fee_and_receive_time /\ Cardinality(prune_it) <= 1
  /\ m_batch_success \in BOOLEAN /\ now \in 0..MaxTime /\ diverged \in BOOLEAN
  /\ (job.op = "idle" /\ prune_it = {}) <=> (saved = {})

(* tx_pool.h calls m_spent_key_images the "container for spent key images
   from the transactions in the pool": it lists exactly those.             *)
KeyImageIndexExact ==
  \A k \in KeyImages : m_spent_key_images[k] = {t \in DOMAIN txpool : k \in KeysOf(t)}

(* The key image index is exact, through adds, upgrades, takes, returns, pops,
   prunes and crashes, as long as no aborted write transaction has undone
   rows behind the pool's back.                                            *)
KeyImageIndex == ~diverged => KeyImageIndexExact

(* Whatever the moment of a crash, init finds a pool it can list: no two
   transactions that were not in a block share a key image.                *)
RestartAlwaysSucceeds == InitSucceeds(Durable.txpool)
RestartSucceeds == ~diverged => RestartAlwaysSucceeds

(* Every pooled transaction is in the sorted container, so that mining and
   pruning see it, and get_txpool_weight is "the cumulative txpool weight in
   bytes" (tx_pool.h).                                                     *)
PoolIsListed ==
  ~diverged => /\ DOMAIN txpool \subseteq {e.tx : e \in m_txs_by_fee_and_receive_time}
               /\ m_txpool_weight = Plus(0, SumWeight(DOMAIN txpool))

(* No transaction is both pooled and mined, and no key image is spent twice
   in the chain, in the open write transaction as on disk.                 *)
SpendsOnce(c) ==
  \A i, j \in DOMAIN c : \A t \in c[i], u \in c[j] :
    \/ i = j /\ t = u
    \/ t # u /\ KeysOf(t) \cap KeysOf(u) = {}
MinedOnce ==
  /\ SpendsOnce(chain) /\ SpendsOnce(Durable.chain)
  /\ DOMAIN txpool \cap Mined(chain) = {}
  /\ DOMAIN Durable.txpool \cap Mined(Durable.chain) = {}

(* A template create_block_template would hand out again is still a block
   the node itself would accept: its transactions are pooled, valid on the
   tip and spend no key image twice.                                       *)
CachedTemplateIsValid ==
  Unlocked => \A b \in m_btc : b.prev = chain =>
    /\ b.txs \subseteq DOMAIN txpool
    /\ \A t \in b.txs : InputsOk(chain, t)
    /\ ~ConflictingTxs(b.txs)

(* m_input_cache never holds an outcome the chain no longer gives, except
   while a pop is putting transactions back, when nobody reads it.         *)
InputCacheCoherent ==
  job.op # "pop" =>
    \A t \in DOMAIN m_input_cache : m_input_cache[t] = InputsOk(chain, t)

(* While blocks are handled no transaction gets lost: one taken for a block
   that fails, or out of a popped block, is in the pool again or in the chain
   when the operation ends.  Only pruning, an aborted batch and a crash, which
   put the database back, take anything away.                              *)
InFlight == job.taken \cup (IF job.op = "take" THEN {} ELSE job.todo)
Known == DOMAIN txpool \cup Mined(chain) \cup InFlight
NothingLost ==
  [][job.op # "idle" /\ prune_it = {} =>
       \/ Known \subseteq Known'
       \/ restart
       \/ cleanup_handle_incoming_blocks /\ ~m_batch_success]_vars

(* prune removes transactions "till we're not above bytes" (tx_pool.h), but
   spares those of blocks and the best one.  A crash between add_tx's commit
   and prune's leaves the pool above the limit until the next add.         *)
Bounded ==
  \/ m_txpool_weight <= MaxPoolWeight
  \/ \A e \in m_txs_by_fee_and_receive_time \ {FirstOf(m_txs_by_fee_and_receive_time)} :
       e.tx \in DOMAIN txpool /\ txpool[e.tx].relay = "block"
PruneReachesBound ==
  [][prune /\ prune_it' = {} /\ ~diverged => Bounded']_vars

=============================================================================
