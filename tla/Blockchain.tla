----------------------------- MODULE Blockchain -----------------------------
(***************************************************************************)
(* Main chain and alternative chains of cryptonote_core/blockchain.cpp:    *)
(* adding a block to either, switching to a heavier alternative chain and  *)
(* rolling a failed switch back, popping blocks, checkpoints, the cached   *)
(* difficulty window, the set of blocks known to be invalid, and the       *)
(* database write transaction (the batch) around incoming blocks.          *)
(*                                                                         *)
(* All of it runs under the pool lock and m_blockchain_lock.  One block    *)
(* moved by a switch is one step; the calls in progress are the stack      *)
(* jobs, because pushing an old block back as an alternative calls         *)
(* handle_alternative_block, which may start another switch.               *)
(*                                                                         *)
(* The pool is what blocks find their transactions in: TxPool models it in *)
(* detail.  Forks are scheduled: the fork version of a height is given.    *)
(* What HardFork keeps in memory is one version, the one asked of the next *)
(* block, which an aborted batch does not take back; HardFork models how   *)
(* it is computed.  Block heights are the code's: the block of height h is *)
(* db.blocks[h + 1] and genesis has height 0.                              *)
(***************************************************************************)
EXTENDS Integers, Sequences, FiniteSets, FiniteSetsExt, Functions

CONSTANTS
  Blocks,          \* blocks that are offered, in no particular order
  Genesis,
  Prev,            \* Prev[b]: the parent of b
  Time,            \* Time[b]: its timestamp
  Pow,             \* Pow[b]: the greatest difficulty its hash meets
  TxsOf,           \* TxsOf[b]: its transactions, in order
  Spends,          \* Spends[t]: the key images a transaction spends
  Flaw,            \* Flaw[b]: a wrong "header" (timestamp), "coinbase" (its shape),
                   \* "reward" (its amount, seen on the main chain only), "none"
  Major,           \* Major[b]: its major version
  VersionAt(_),    \* the fork version scheduled for a height
  BlocksCount,     \* BlocksCount[v]: the difficulty window of a version
  NextDifficulty(_, _),  \* next_difficulty of a version over a window; 0 on overflow
  ResetDifficulty, \* heights with a hard-wired difficulty, and that difficulty
  Points,          \* checkpoint tables that updates may bring
  MaxPops          \* bound: blocks removed by one pop_blocks

VARIABLES
  db,              \* [blocks, alt_blocks, txpool, stray]: the database as its writer sees it
  batch,           \* the database to return to on an abort; NoBatch outside a batch
  m_batch_success,
  m_invalid_blocks,
  version,         \* m_hardfork's current version
  cache,           \* [height, reset, rows]: m_timestamps, m_difficulties and their two flags
  m_checkpoints,   \* checkpoint height -> block
  m_checkpoints_updating,
  jobs,            \* switches in progress, the innermost last
  lowered,         \* history: blocks were popped by hand or checkpoints were loaded
  undone           \* history: whether an abort has undone what the last checkpoint update
                   \* did to the chain; "may" while the batch it was part of is open

vars == <<db, batch, m_batch_success, m_invalid_blocks, version, cache, m_checkpoints,
          m_checkpoints_updating, jobs, lowered, undone>>

Ids == Blocks \cup {Genesis}
Front(s) == SubSeq(s, 1, Len(s) - 1)
NoBatch == [none |-> TRUE]
NoPoints == [h \in {} |-> Genesis]
NoCache == [height |-> 0, reset |-> TRUE, rows |-> <<>>]

(* What the handlers below transform: the database and what they change in
   memory, and whether the last block reached the main chain.              *)
Now == [db |-> db, success |-> m_batch_success, invalid |-> m_invalid_blocks,
        version |-> version, cache |-> cache, added |-> FALSE]

Become(S) ==
  \E s \in {S} : /\ db' = s.db /\ m_batch_success' = s.success
                 /\ m_invalid_blocks' = s.invalid
                 /\ version' = s.version /\ cache' = s.cache

Height(S) == Len(S.db.blocks)
Tip(S) == S.db.blocks[Height(S)]
Main(S) == {S.db.blocks[i].id : i \in 1..Height(S)}
Alt(S) == DOMAIN S.db.alt_blocks
HeightOf(S, id) == (CHOOSE i \in 1..Height(S) : S.db.blocks[i].id = id) - 1
TxSet(b) == Range(TxsOf[b])
Mined(S) == S.db.stray \cup UNION {TxSet(b) : b \in Main(S) \ {Genesis}}
SpentIn(ts) == UNION {Spends[t] : t \in ts}

have_block(S, b) == b \in Main(S) \cup Alt(S) \cup S.invalid

-----------------------------------------------------------------------------
(* Difficulty.  A row is a block's timestamp and cumulative difficulty.     *)
Row(e) == [time |-> Time[e.id], cd |-> e.cd]
LastRows(rows, n) == IF Len(rows) <= n THEN rows ELSE SubSeq(rows, Len(rows) - n + 1, Len(rows))

(* The rows of the n blocks below this height, genesis never included.      *)
MainRows(S, height, n) ==
  LET lo == IF height > n THEN height - n ELSE 1
  IN  [i \in 1..(height - lo) |-> Row(S.db.blocks[lo + i])]

(* The cached rows are for the block before the tip: one row is appended.   *)
CacheSteps(S) ==
  /\ ~S.cache.reset /\ S.cache.height # 0
  /\ Height(S) = S.cache.height + 1

(* Mutant: the window of the fork version of the top block.  *)
WindowOfOldVersion(S) ==
  LET n == BlocksCount[VersionAt(Height(S) - 1)]
  IN  IF CacheSteps(S) THEN LastRows(Append(S.cache.rows, Row(Tip(S))), n)
                       ELSE MainRows(S, Height(S), n)

WindowRows(S) ==
  LET n == BlocksCount[S.version]
  IN  IF CacheSteps(S) THEN LastRows(Append(S.cache.rows, Row(Tip(S))), n)
                       ELSE MainRows(S, Height(S), n)

get_difficulty_for_next_block(S) ==
  LET height == Height(S)
      rows == WindowRows(S)
  IN  IF height \in DOMAIN ResetDifficulty
      THEN [difficulty |-> ResetDifficulty[height], cache |-> S.cache]
      ELSE [difficulty |-> NextDifficulty(S.version, rows),
            cache |-> [S.cache EXCEPT !.height = height, !.rows = rows]]

(* The alternative chain above the main chain, ending in alt_chain.  The
   version is the one asked of the main chain's next block.                *)
get_next_difficulty_for_alternative_chain(S, alt_chain, height) ==
  LET v == S.version
      n == BlocksCount[v]
      alt_rows == [i \in DOMAIN alt_chain |->
                     [time |-> Time[alt_chain[i]], cd |-> S.db.alt_blocks[alt_chain[i]].cd]]
      stop == height - Len(alt_chain)
      main_rows == MainRows(S, stop, n - Len(alt_chain))
  IN  NextDifficulty(v, IF Len(alt_chain) < n THEN main_rows \o alt_rows
                                              ELSE LastRows(alt_rows, n))

check_hash(b, difficulty) == difficulty # 0 /\ difficulty <= Pow[b]

ForgetCache(S) == [S EXCEPT !.cache.height = 0, !.cache.reset = TRUE]

-----------------------------------------------------------------------------
(* What m_hardfork does to the version, in a scheduled table.  add raises it
   to the version of the next height, on_block_popped sets it to that.     *)
Raised(v, height) == Max({v, VersionAt(height)})

(* reorganize_from_chain_height: down to the version of the block below the
   height, up to that of the height, then the blocks above it are added
   again, one of another version being passed over.                        *)
ReorganizedVersion(v, blocks, height) ==
  LET up[h \in height..Len(blocks)] ==
        IF h = height THEN Raised(Min({v, Major[blocks[height].id]}), height)
        ELSE IF Major[blocks[h].id] = up[h - 1] THEN Raised(up[h - 1], h) ELSE up[h - 1]
  IN  up[Len(blocks)]

reorganize_from_chain_height(S, height) ==
  [S EXCEPT !.version = ReorganizedVersion(@, S.db.blocks, height)]

-----------------------------------------------------------------------------
(* Checkpoints.                                                             *)
check_block(points, height, b) == height \in DOMAIN points => points[height] = b

is_alternative_block_allowed(points, blockchain_height, block_height) ==
  LET passed == {h \in DOMAIN points : h <= blockchain_height}
  IN  block_height # 0 /\ (passed = {} \/ Max(passed) < block_height)

-----------------------------------------------------------------------------
(* Adding a block to the main chain.  A block that is refused gives its
   transactions back to the pool, so only the accepted one changes it.     *)
InputsOk(S, t) == Spends[t] \cap SpentIn(Mined(S)) = {}

(* Mutant: inputs are not checked again when the block connects.  *)
TxStopsIfUnknown(S, t) == t \in Mined(S) \/ t \notin S.db.txpool

TxStops(S, t) == t \in Mined(S) \/ t \notin S.db.txpool \/ ~InputsOk(S, t)
KnownPooled(S, t) == t \notin Mined(S) /\ t \in S.db.txpool

(* Transactions of the block that spend what an earlier one of it spends:
   the database throws at the first, with the ones before it written.      *)
Clashes(b) ==
  {i \in DOMAIN TxsOf[b] : \E j \in 1..(i - 1) :
     Spends[TxsOf[b][i]] \cap Spends[TxsOf[b][j]] # {}}

Stored(S, b, difficulty) ==
  [S EXCEPT !.db.blocks = Append(@, [id |-> b, cd |-> Tip(S).cd + difficulty]),
            !.db.txpool = @ \ TxSet(b),
            !.version = Raised(@, Height(S) + 1),
            !.added = TRUE]

(* m_db->add_block threw: the batch is lost.  *)
Thrown(S, b) ==
  [S EXCEPT !.success = FALSE,
            !.db.stray = @ \cup {TxsOf[b][j] : j \in 1..(Min(Clashes(b)) - 1)}]

handle_block_to_main_chain(S, b) ==
  LET stopped == {i \in DOMAIN TxsOf[b] : TxStops(S, TxsOf[b][i])}
      target == get_difficulty_for_next_block(S)
      seen == [S EXCEPT !.cache = target.cache, !.added = FALSE]
      stored == Stored(seen, b, target.difficulty)
  IN  CASE Prev[b] # Tip(S).id \/ Major[b] # S.version \/ Flaw[b] = "header" ->
             [S EXCEPT !.added = FALSE]
        [] ~check_hash(b, target.difficulty) -> seen
        [] ~check_block(m_checkpoints, Height(S), b) \/ Flaw[b] = "coinbase" -> seen
        [] stopped # {} ->
             IF KnownPooled(S, TxsOf[b][Min(stopped)])
             THEN [seen EXCEPT !.invalid = @ \cup {b}] ELSE seen
        [] Flaw[b] = "reward" -> seen
        [] Clashes(b) # {} -> Thrown(seen, b)
        [] OTHER -> [stored EXCEPT !.cache = get_difficulty_for_next_block(stored).cache]

pop_block_from_blockchain(S) ==
  ForgetCache([S EXCEPT !.db.txpool = @ \cup TxSet(Tip(S).id),
                        !.db.blocks = Front(@),
                        !.version = VersionAt(Height(S) - 1)])

-----------------------------------------------------------------------------
(* The blocks from the first above genesis to b.                            *)
PathTo[b \in Ids] == IF b = Genesis THEN <<>> ELSE Append(PathTo[Prev[b]], b)

(* Blocks name their parent by its hash, so they form a tree above genesis:
   following Prev ends there, and PathTo is what its definition says.      *)
ASSUME TreeAssumption ==
  /\ Genesis \notin Blocks
  /\ PathTo[Genesis] = <<>>
  /\ \A b \in Blocks : /\ Prev[b] \in Ids
                      /\ PathTo[b] \in Seq(Blocks)
                      /\ PathTo[b] = Append(PathTo[Prev[b]], b)

(* Checkpoints give a block for some heights.                               *)
ASSUME PointsAssumption ==
  \A points \in Points : DOMAIN points \subseteq Nat

ASSUME BoundAssumption == MaxPops \in Nat

(* build_alt_chain: the stored alternative blocks that lead up to id.       *)
AltChain(S, id) ==
  LET path == PathTo[id]
      stop == {i \in 1..Len(path) : path[i] \notin Alt(S)}
  IN  SubSeq(path, IF stop = {} THEN 1 ELSE Max(stop) + 1, Len(path))

(* Mutant: only the heights of the two chains are compared.  *)
ConnectsByHeight(S, id) ==
  LET alt_chain == AltChain(S, id)
  IN  IF alt_chain = <<>> THEN id \in Main(S)
                          ELSE Height(S) > S.db.alt_blocks[alt_chain[1]].height

(* ... and whether they start from the main chain, at the right height.     *)
Connects(S, id) ==
  LET alt_chain == AltChain(S, id)
      base == IF alt_chain = <<>> THEN id ELSE Prev[alt_chain[1]]
  IN  /\ base \in Main(S)
      /\ alt_chain # <<>> =>
           /\ Height(S) > S.db.alt_blocks[alt_chain[1]].height
           /\ S.db.blocks[S.db.alt_blocks[alt_chain[1]].height].id = base

AltHeight(S, b) ==
  IF Prev[b] \in Alt(S) THEN S.db.alt_blocks[Prev[b]].height + 1
                        ELSE HeightOf(S, Prev[b]) + 1

AltBase(S, b) ==
  IF Prev[b] \in Alt(S) THEN S.db.alt_blocks[Prev[b]].cd
                        ELSE S.db.blocks[HeightOf(S, Prev[b]) + 1].cd

AltDifficulty(S, b) ==
  get_next_difficulty_for_alternative_chain(S, AltChain(S, Prev[b]), AltHeight(S, b))

(* The block is stored as an alternative: every check of
   handle_alternative_block before add_alt_block passes.                   *)
AltAccepted(S, b) ==
  /\ is_alternative_block_allowed(m_checkpoints, Height(S), Len(PathTo[b]))
  /\ Major[b] = VersionAt(Len(PathTo[b]))
  /\ Flaw[b] \notin {"header", "coinbase"}
  /\ Prev[b] \in Alt(S) \cup Main(S)
  /\ Connects(S, Prev[b])
  /\ check_block(m_checkpoints, AltHeight(S, b), b)
  /\ check_hash(b, AltDifficulty(S, b))
  /\ b \notin Alt(S)

(* Mutant: a block that will be switched to is not stored first.  *)
AltStoredUnlessHeavier(S, b) ==
  LET new == [height |-> AltHeight(S, b), cd |-> AltBase(S, b) + AltDifficulty(S, b)]
  IN  IF new.cd > Tip(S).cd THEN S
      ELSE [S EXCEPT !.db.alt_blocks =
              [id \in Alt(S) \cup {b} |-> IF id = b THEN new ELSE S.db.alt_blocks[id]]]

AltStored(S, b) ==
  LET new == [height |-> AltHeight(S, b), cd |-> AltBase(S, b) + AltDifficulty(S, b)]
  IN  [S EXCEPT !.db.alt_blocks =
         [id \in Alt(S) \cup {b} |-> IF id = b THEN new ELSE S.db.alt_blocks[id]]]

(* A switch to the chain that ends in the stored alternative b.  was is
   history: the main chain when the switch began.                          *)
Switch(S, b) ==
  [op |-> "pop", alt_chain |-> Append(AltChain(S, Prev[b]), b),
   discard |-> AltHeight(S, b) \in DOMAIN m_checkpoints,
   disconnected |-> <<>>, split |-> 0, n |-> 1, back |-> 1, was |-> S.db.blocks]

(* Mutant: the longer chain wins.  *)
SwitchesOnHeight(S, b) ==
  \/ AltHeight(S, b) \in DOMAIN m_checkpoints
  \/ Height(S) - 1 < AltHeight(S, b)

Switches(S, b) ==
  \/ AltHeight(S, b) \in DOMAIN m_checkpoints
  \/ Tip(S).cd < AltBase(S, b) + AltDifficulty(S, b)

(* handle_alternative_block, its switch left as the next job to run.        *)
handle_alternative_block(S, b, stack) ==
  \E fresh \in {ForgetCache(S)} :
      IF AltAccepted(fresh, b)
      THEN /\ Become(AltStored(fresh, b))
           /\ jobs' = IF Switches(fresh, b) THEN Append(stack, Switch(fresh, b)) ELSE stack
      ELSE Become(fresh) /\ jobs' = stack

-----------------------------------------------------------------------------
InBatch == batch # NoBatch
Committed == IF InBatch THEN batch ELSE db
Idle == jobs = <<>>

prepare_handle_incoming_blocks ==
  /\ Idle /\ ~InBatch
  /\ batch' = db /\ m_batch_success' = TRUE
  /\ UNCHANGED <<db, m_invalid_blocks, version, cache, m_checkpoints,
                 m_checkpoints_updating, jobs>>

(* The batch is committed or aborted; what is in memory stays as it is.     *)
cleanup_handle_incoming_blocks ==
  /\ Idle /\ InBatch
  /\ batch' = NoBatch
  /\ db' = IF m_batch_success THEN db ELSE batch
  /\ cache' = IF m_batch_success /\ cache.reset
              THEN [cache EXCEPT !.height = 0, !.reset = FALSE] ELSE cache
  /\ UNCHANGED <<m_batch_success, m_invalid_blocks, version, m_checkpoints,
                 m_checkpoints_updating, jobs>>

(* A block with its transactions, which reach the pool first; then
   add_new_block.  Nothing is asked of a block that is known already.      *)
handle_incoming_block(b) ==
  /\ Idle /\ InBatch
  /\ LET S == [Now EXCEPT !.db.txpool = @ \cup (TxSet(b) \ Mined(Now))]
     IN  CASE have_block(S, b) -> Become(S) /\ UNCHANGED jobs
           [] ~have_block(S, b) /\ Prev[b] # Tip(S).id -> handle_alternative_block(S, b, jobs)
           [] OTHER -> Become(handle_block_to_main_chain(S, b)) /\ UNCHANGED jobs
  /\ UNCHANGED <<batch, m_checkpoints, m_checkpoints_updating>>

-----------------------------------------------------------------------------
(* switch_to_alternative_blockchain and rollback_blockchain_switching, the
   innermost call first.                                                   *)
Job == jobs[Len(jobs)]
Outer == Front(jobs)
Go(j) == jobs' = Append(Outer, j)
Busy(op) == ~Idle /\ Job.op = op
SwitchFrame == UNCHANGED <<batch, m_checkpoints, m_checkpoints_updating>>

(* Mutant: the blocks popped are kept in the order of popping.  *)
SwitchPopReversed ==
  /\ Busy("pop")
  /\ IF Tip(Now).id # Prev[Job.alt_chain[1]]
     THEN /\ Become(pop_block_from_blockchain(Now))
          /\ Go([Job EXCEPT !.disconnected = Append(@, Tip(Now).id)])
     ELSE /\ Become(ForgetCache(Now))
          /\ Go([Job EXCEPT !.op = "connect", !.split = Height(Now)])
  /\ SwitchFrame

SwitchPop ==
  /\ Busy("pop")
  /\ IF Tip(Now).id # Prev[Job.alt_chain[1]]
     THEN /\ Become(pop_block_from_blockchain(Now))
          /\ Go([Job EXCEPT !.disconnected = <<Tip(Now).id>> \o @])
     ELSE /\ Become(ForgetCache(Now))
          /\ Go([Job EXCEPT !.op = "connect", !.split = Height(Now)])
  /\ SwitchFrame

SwitchConnect ==
  /\ Busy("connect")
  /\ \E S \in {handle_block_to_main_chain(Now, Job.alt_chain[Job.n])} :
         /\ Become(S)
         /\ CASE ~S.added -> Go([Job EXCEPT !.op = "rollback"])
              [] S.added /\ Job.n < Len(Job.alt_chain) -> Go([Job EXCEPT !.n = @ + 1])
              [] OTHER -> Go([Job EXCEPT !.op = "push", !.n = 1])
  /\ SwitchFrame

(* The blocks connected so far are popped ...                               *)
Rollback ==
  /\ Busy("rollback")
  /\ IF Height(Now) # Job.split
     THEN Become(pop_block_from_blockchain(Now)) /\ UNCHANGED jobs
     ELSE /\ Become(reorganize_from_chain_height(ForgetCache(Now), Job.split))
          /\ Go([Job EXCEPT !.op = "restore"])
  /\ SwitchFrame

(* Mutant: a block that is refused sends the rollback round again.  *)
RestoreRetries ==
  /\ Busy("restore")
  /\ IF Job.back > Len(Job.disconnected)
     THEN /\ Become(reorganize_from_chain_height(Now, Job.split))
          /\ Go([Job EXCEPT !.op = "mark"])
     ELSE \E S \in {handle_block_to_main_chain(Now, Job.disconnected[Job.back])} :
              /\ Become(S)
              /\ Go(IF S.added THEN [Job EXCEPT !.back = @ + 1]
                               ELSE [Job EXCEPT !.op = "rollback", !.back = 1])
  /\ SwitchFrame

(* ... and the original ones put back; one that is refused ends this.       *)
Restore ==
  /\ Busy("restore")
  /\ IF Job.back > Len(Job.disconnected)
     THEN /\ Become(reorganize_from_chain_height(Now, Job.split))
          /\ Go([Job EXCEPT !.op = "mark"])
     ELSE \E S \in {handle_block_to_main_chain(Now, Job.disconnected[Job.back])} :
              /\ Become(S)
              /\ Go(IF S.added THEN [Job EXCEPT !.back = @ + 1]
                               ELSE [Job EXCEPT !.op = "mark"])
  /\ SwitchFrame

Without(alt_blocks, ids) == [id \in DOMAIN alt_blocks \ ids |-> alt_blocks[id]]

(* The block that failed and those after it are invalid from now on.        *)
MarkInvalid ==
  /\ Busy("mark")
  /\ LET failed == {Job.alt_chain[i] : i \in Job.n..Len(Job.alt_chain)}
     IN  Become([Now EXCEPT !.invalid = @ \cup failed,
                            !.db.alt_blocks = Without(@, failed)])
  /\ jobs' = Outer
  /\ SwitchFrame

(* The old blocks become alternatives, unless a checkpoint decided.         *)
SwitchPush ==
  /\ Busy("push")
  /\ IF Job.discard \/ Job.n > Len(Job.disconnected)
     THEN Become(Now) /\ Go([Job EXCEPT !.op = "remove"])
     ELSE handle_alternative_block(Now, Job.disconnected[Job.n],
                                   Append(Outer, [Job EXCEPT !.n = @ + 1]))
  /\ SwitchFrame

(* Mutant: only the last block of the new chain leaves the alternatives.  *)
SwitchRemoveLast ==
  /\ Busy("remove")
  /\ Become([Now EXCEPT !.db.alt_blocks = Without(@, {Job.alt_chain[Len(Job.alt_chain)]})])
  /\ jobs' = Outer
  /\ SwitchFrame

SwitchRemove ==
  /\ Busy("remove")
  /\ Become(reorganize_from_chain_height(
              [Now EXCEPT !.db.alt_blocks = Without(@, Range(Job.alt_chain))], Job.split))
  /\ jobs' = Outer
  /\ SwitchFrame

SwitchStep ==
  \/ SwitchPop \/ SwitchConnect \/ Rollback \/ Restore
  \/ MarkInvalid \/ SwitchPush \/ SwitchRemove

-----------------------------------------------------------------------------
(* The n topmost blocks popped one after the other.  After that the version
   is one that reorganize_from_chain_height keeps.                         *)
Popped(S, n) ==
  LET height == Height(S) - n
      gone == {S.db.blocks[i].id : i \in (height + 1)..Height(S)}
  IN  ForgetCache([S EXCEPT !.db.blocks = SubSeq(@, 1, height),
                            !.db.txpool = @ \cup UNION {TxSet(b) : b \in gone},
                            !.version = IF n = 0 THEN @ ELSE VersionAt(height)])

(* The RPC and the console pop blocks in a batch of their own.              *)
pop_blocks(nblocks) ==
  /\ Idle /\ ~InBatch
  /\ Height(Now) > 1
  /\ Become(Popped(Now, Min({nblocks, Height(Now) - 1})))
  /\ UNCHANGED <<batch, m_checkpoints, m_checkpoints_updating, jobs>>

(* A checkpoint of height 0 or 1 asks for a rollback to a height that wraps
   around, which is above the chain: nothing is done.                      *)
FailingPoints(S, points) ==
  {h \in DOMAIN points : 1 < h /\ h < Height(S) /\ S.db.blocks[h + 1].id # points[h]}

(* After a rollback every later checkpoint below the old height asks the
   database for a block that is gone, which throws; so does popping below
   genesis.                                                                *)
CheckThrows(S, points) ==
  LET failing == FailingPoints(S, points)
  IN  /\ failing # {}
      /\ \/ Min(failing) = 2
         \/ \E h \in DOMAIN points : Min(failing) < h /\ h < Height(S)

RollbackHeight(failing) == Max({1, Min(failing) - 2})

(* Mutant: the chain is rolled back to the checkpoint instead of below it.  *)
CheckRollsBackToPoint(S, points) ==
  LET failing == FailingPoints(S, points)
  IN  IF failing = {} THEN S ELSE Popped(S, Height(S) - Min(failing) - 1)

(* check_against_checkpoints(points, true) *)
check_against_checkpoints(S, points) ==
  LET failing == FailingPoints(S, points)
  IN  IF failing = {} THEN S ELSE Popped(S, Height(S) - RollbackHeight(failing))

Agree(points, others) ==
  \A h \in DOMAIN points \cap DOMAIN others : points[h] = others[h]

Merged(points, others) ==
  [h \in DOMAIN points \cup DOMAIN others |->
     IF h \in DOMAIN points THEN points[h] ELSE others[h]]

(* core::update_checkpoints, at the head of handle_incoming_block, or at
   start-up in a batch of its own.  When the check throws, the flag that
   keeps two updates apart stays set; at start-up the node does not start.  *)
update_checkpoints(points) ==
  /\ Idle
  /\ InBatch \/ (m_checkpoints = NoPoints /\ ~CheckThrows(Now, points))
  /\ ~m_checkpoints_updating
  /\ Agree(points, m_checkpoints)
  /\ m_checkpoints' = Merged(points, m_checkpoints)
  /\ Become(check_against_checkpoints(Now, m_checkpoints'))
  /\ m_checkpoints_updating' = CheckThrows(Now, m_checkpoints')
  /\ UNCHANGED <<batch, jobs>>

(* flush_txpool, or a pooled transaction that expires.                      *)
flush_tx(t) ==
  /\ Idle /\ ~InBatch
  /\ t \in db.txpool
  /\ Become([Now EXCEPT !.db.txpool = @ \ {t}])
  /\ UNCHANGED <<batch, m_checkpoints, m_checkpoints_updating, jobs>>

(* init pops blocks that are not of the version of their height, down to the
   first that is, or where that is version 1; genesis at the latest.  Their
   transactions do not return to the pool.                                 *)
InitialPop(blocks) ==
  Max({n \in 1..Len(blocks) :
         n = 1 \/ VersionAt(n - 1) <= 1 \/ VersionAt(n - 1) = Major[blocks[n].id]})

(* HardFork::init finds the version of the last row; a reorganisation at the
   height that is left follows if blocks were popped, and changes nothing if
   none were.                                                              *)
InitialVersion(blocks, n) ==
  ReorganizedVersion(Raised(Major[blocks[Len(blocks)].id], Len(blocks)),
                     SubSeq(blocks, 1, n), n)

(* The process ends, at any point, and starts again: what was not committed
   is gone, and so is everything in memory.                                *)
restart ==
  /\ \E n \in {InitialPop(Committed.blocks)} :
       /\ db' = [Committed EXCEPT !.blocks = SubSeq(@, 1, n)]
       /\ version' = InitialVersion(Committed.blocks, n)
  /\ batch' = NoBatch /\ m_batch_success' = TRUE
  /\ m_invalid_blocks' = {} /\ cache' = NoCache
  /\ m_checkpoints' = NoPoints /\ m_checkpoints_updating' = FALSE
  /\ jobs' = <<>>

Init ==
  /\ db = [blocks |-> <<[id |-> Genesis, cd |-> 1]>>, alt_blocks |-> [b \in {} |-> {}],
           txpool |-> {}, stray |-> {}]
  /\ batch = NoBatch /\ m_batch_success = TRUE
  /\ m_invalid_blocks = {} /\ version = VersionAt(1) /\ cache = NoCache
  /\ m_checkpoints = NoPoints /\ m_checkpoints_updating = FALSE
  /\ jobs = <<>> /\ lowered = FALSE /\ undone = "no"

Next ==
  \/ /\ \/ prepare_handle_incoming_blocks
        \/ \E b \in Blocks : handle_incoming_block(b)
        \/ SwitchStep
        \/ \E t \in db.txpool : flush_tx(t)
     /\ UNCHANGED <<lowered, undone>>
  \/ /\ cleanup_handle_incoming_blocks
     /\ undone' = IF undone # "may" THEN undone ELSE IF m_batch_success THEN "no" ELSE "yes"
     /\ UNCHANGED lowered
  \/ /\ restart
     /\ undone' = "no"
     /\ lowered' = (lowered \/ Len(db'.blocks) < Len(Committed.blocks))
  \/ (\E n \in 1..MaxPops : pop_blocks(n)) /\ lowered' = TRUE /\ UNCHANGED undone
  \/ /\ \E points \in Points : update_checkpoints(points)
     /\ undone' = IF InBatch THEN "may" ELSE "no"
     /\ lowered' = TRUE

Spec == Init /\ [][Next]_vars

(* A call in progress runs on: nothing in it waits.  This is weak fairness of
   SwitchStep written out: while a switch is under way a step of it can be
   taken, and nothing else but a crash, which ends it.                     *)
FairSpec == Spec /\ (<>[](~Idle) => []<><<~Idle>>_vars)

-----------------------------------------------------------------------------
AltRow == [height : Nat, cd : Nat]
Txs == DOMAIN Spends

IsDb(d) ==
  /\ d.blocks \in Seq([id : Ids, cd : Nat]) /\ Len(d.blocks) > 0
  /\ DOMAIN d.alt_blocks \subseteq Blocks
  /\ \A b \in DOMAIN d.alt_blocks : d.alt_blocks[b] \in AltRow
  /\ d.txpool \subseteq Txs /\ d.stray \subseteq Txs

(* Types; the main chain always keeps genesis.                              *)
TypeOK ==
  /\ IsDb(db) /\ (InBatch => IsDb(batch))
  /\ m_batch_success \in BOOLEAN
  /\ m_invalid_blocks \subseteq Blocks
  /\ version \in DOMAIN BlocksCount
  /\ cache.height \in Nat /\ cache.reset \in BOOLEAN
  /\ \A h \in DOMAIN m_checkpoints : m_checkpoints[h] \in Blocks
  /\ \A i \in DOMAIN jobs :
       /\ jobs[i].op \in {"pop", "connect", "rollback", "restore", "mark", "push", "remove"}
       /\ Range(jobs[i].alt_chain) \subseteq Blocks

(* The work of a block by the definition: the difficulty of each block of its
   branch is hard-wired for its height or comes from the window of blocks
   before it in the branch, by the rule of the version the block carries.  *)
Work[b \in Ids] ==
  IF b = Genesis THEN 1
  ELSE LET path == PathTo[Prev[b]]
           height == Len(path) + 1
           v == Major[b]
           rows == [i \in DOMAIN path |-> [time |-> Time[path[i]], cd |-> Work[path[i]]]]
       IN  Work[Prev[b]] + IF height \in DOMAIN ResetDifficulty THEN ResetDifficulty[height]
                           ELSE NextDifficulty(v, LastRows(rows, BlocksCount[v]))

(* The cumulative difficulty stored with a block of the main chain is the work
   of its branch, across forks that change the window and its rule: the rows
   cached by get_difficulty_for_next_block never stand for a wrong window,
   whatever switches, rollbacks, aborted batches and crashes came in
   between.                                                                *)
MainWorkIsWork == \A i \in 1..Len(db.blocks) : db.blocks[i].cd = Work[db.blocks[i].id]

(* blockchain.cpp:1344 says get_next_difficulty_for_alternative_chain
   "calculates the difficulty target for the block being added to an
   alternate chain": the weight stored with an alternative block is the work
   of its branch.  Whether a switch happens then depends on the two branches
   only, and a switch ends on a chain as heavy as was computed for it.     *)
AltWorkIsWork == \A b \in DOMAIN db.alt_blocks : db.alt_blocks[b].cd = Work[b]

(* Every block has the version of its height.                               *)
OnSchedule(blocks) == \A n \in 2..Len(blocks) : Major[blocks[n].id] = VersionAt(n - 1)

(* A switch that fails leaves the main chain as it was before the switch,
   block for block and weight for weight, unless the database refused an
   insertion, in which case the batch will be aborted, or a block was on the
   main chain that is of another version than its height's.  One can get
   there while the version in memory is that of an aborted batch, and the
   rollback, which starts from the right version, cannot put it back.      *)
RollbackRestores ==
  m_batch_success =>
    \A i \in DOMAIN jobs :
      jobs[i].op = "mark" /\ OnSchedule(jobs[i].was) => db.blocks = jobs[i].was

(* remove_alt_block throws for a block that is not stored, which would leave
   switch_to_alternative_blockchain half done: the blocks it removes, after a
   success or a failure, are always still there, also when a nested switch
   has changed the alternatives meanwhile.                                 *)
RemovalsFindTheirBlocks ==
  /\ Busy("remove") => Range(Job.alt_chain) \subseteq Alt(Now)
  /\ Busy("mark") => Range(SubSeq(Job.alt_chain, Job.n, Len(Job.alt_chain))) \subseteq Alt(Now)

(* Between calls a block is in one place: switch_to_alternative_blockchain
   and handle_alternative_block leave no block of the main chain among the
   stored alternatives, even when a switch failed or its batch was aborted. *)
BlocksInOnePlace == Idle => Main(Now) \cap Alt(Now) = {}

(* The main chain is a branch of the block tree from genesis on, in which no
   transaction is mined twice, no key image is spent twice, and no mined
   transaction is in the pool, through switches, rollbacks, pops, aborted
   batches and crashes.                                                    *)
MainChainSound ==
  m_batch_success =>
    /\ [i \in 1..(Len(db.blocks) - 1) |-> db.blocks[i + 1].id] = PathTo[Tip(Now).id]
    /\ \A b, c \in Main(Now) \ {Genesis} : b # c =>
         /\ TxSet(b) \cap TxSet(c) = {}
         /\ SpentIn(TxSet(b)) \cap SpentIn(TxSet(c)) = {}
    /\ Mined(Now) \cap db.txpool = {}

(* The heaviest stored alternative that connects to the main chain is not
   heavier than it: a node that has stored a heavier branch is on it, also
   after failed switches, aborted batches and crashes; and a switch that is
   not forced by a checkpoint ends on a heavier chain than it left, so equal
   branches never take turns.  Where a rollback stopped half way the batch is
   still to be aborted.  Popping and checkpoints lower the main chain on
   purpose.                                                                *)
OnHeaviest ==
  /\ Idle /\ m_batch_success /\ ~lowered => \A b \in Alt(Now) :
       Connects(Now, b) => db.alt_blocks[b].cd <= Tip(Now).cd
  /\ \A i \in DOMAIN jobs :
       jobs[i].op \in {"push", "remove"} /\ ~jobs[i].discard =>
         Tip(Now).cd > jobs[i].was[Len(jobs[i].was)].cd

(* No block of the main chain contradicts a checkpoint the node has loaded,
   at no moment of a switch or a rollback either.  Two things are left out:
   update_checkpoints moves blocks in the batch of the blocks that arrive, so
   when that batch is aborted the blocks it removed are back, while the
   checkpoints stay loaded, until checkpoints are loaded again; and a
   checkpoint of height 1 removes nothing that is stored.                  *)
CheckpointsHold ==
  undone # "yes" => \A h \in DOMAIN m_checkpoints :
    1 < h /\ h < Height(Now) => db.blocks[h + 1].id = m_checkpoints[h]

(* cryptonote_core.cpp:1493 says checkpoints are loaded and verified "every
   10min/hour": the flag that guards an update is clear again after it.    *)
CheckpointsStayUpdatable == ~m_checkpoints_updating

(* Every switch comes to an end: the mutual recursion of
   switch_to_alternative_blockchain and handle_alternative_block is finite,
   also where switches nest.                                               *)
SwitchEnds == ~Idle ~> Idle
=============================================================================
