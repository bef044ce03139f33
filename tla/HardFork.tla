------------------------------ MODULE HardFork ------------------------------
(***************************************************************************)
(* The hard fork state machine of cryptonote_basic/hardfork.cpp together   *)
(* with the database rows it reads and writes (blocks, hf_versions) and    *)
(* the callers that drive it: BlockchainDB::add_block, Blockchain's        *)
(* pop_block_from_blockchain, the two users of                             *)
(* reorganize_from_chain_height, the write batch all of them run in, which *)
(* is committed or aborted when the incoming blocks are done with, and     *)
(* start-up (HardFork::init followed by the popping loop of                *)
(* Blockchain::init), which may run a newer binary whose fork table is     *)
(* longer.  An abort takes back blocks and hf_versions rows only: the      *)
(* window, the counters and the index in memory stay as they are.          *)
(*                                                                         *)
(* Heights are the code's (genesis is block 0).  The block of height h is  *)
(* chain[h + 1]; its recorded fork version is hf_versions[h + 1].  Table   *)
(* entries are numbered from 1, so current_fork_index is the code's plus   *)
(* one.                                                                    *)
(***************************************************************************)
EXTENDS Integers, Sequences, FiniteSets

CONSTANTS
  Tables,       \* fork tables a binary may carry: sequences of [version, height, threshold]
  Versions,     \* block versions and votes that occur in blocks
  Window,       \* window_size
  MaxHeight,    \* bound: no block is added beyond this chain height
  MaxMixed      \* bound: blocks added where no voting is claimed any more

OriginalVersion == 1

IsTable(T) ==
  /\ T \in Seq([version : Versions, height : Nat, threshold : 0..100])
  /\ Len(T) > 0
  /\ T[1].version = OriginalVersion
  /\ T[1].height <= 1
  /\ \A i, j \in 1..Len(T) :
        i < j => T[i].version < T[j].version /\ T[i].height < T[j].height

(* add_fork refuses tables whose versions or heights do not increase.  *)
ASSUME TablesAssumption == \A T \in Tables : IsTable(T)
ASSUME BoundsAssumption ==
  /\ Versions \subseteq Nat \ {0}
  /\ Window \in Nat \ {0}
  /\ MaxHeight \in Nat /\ MaxMixed \in Nat \ {0}

VARIABLES
  heights,            \* the fork table of the running binary
  chain,              \* database: the main chain, [major, vote] per block
  hf_versions,        \* database: fork version per height; rows survive a pop
  versions,           \* rolling window of votes, oldest first
  last_versions,      \* how often each version occurs in the window
  current_fork_index,
  scan,               \* blocks accounted for; below Len(chain) inside reorganize
  saved,              \* the blocks and rows on disk while a write batch is open
  memory,             \* history: "exact" when window and index were made from the
                      \* chain, "popped" after a pop, "undone" after an aborted batch
  mixed,              \* history: blocks added since one was added to memory that was
                      \* not exact, counted up to MaxMixed
  misled              \* history: a block came after an abort that is not its height's

vars == <<heights, chain, hf_versions, versions, last_versions,
          current_fork_index, scan, saved, memory, mixed, misled>>

(* A block as get_block_version and get_block_vote read it; the vote is
   decoded (a minor version of 0 is a vote for version 1), so never 0.     *)
Block == [major : Versions, vote : Versions]

(* generate_genesis_block.  *)
GenesisBlock == [major |-> 1, vote |-> 1]

NoVotes == [v \in Versions |-> 0]

Front(s) == SubSeq(s, 1, Len(s) - 1)

CountOf(s) == [v \in Versions |-> Cardinality({i \in DOMAIN s : s[i] = v})]

(* A vote beyond the last known fork counts as a vote for that fork.       *)
get_effective_version(T, v) ==
  IF v > T[Len(T)].version THEN T[Len(T)].version ELSE v

(* accumulated_votes when the loop of get_voted_fork_index stands at n.    *)
Accumulated(T, counts, n) ==
  LET acc[m \in 1..(Len(T) + 1)] ==
        IF m > Len(T) THEN 0 ELSE counts[T[m].version] + acc[m + 1]
  IN  acc[n]

(* Mutant: the share of the window is rounded down.  *)
ThresholdRoundedDown(T, n) == (Window * T[n].threshold) \div 100

Threshold(T, n) == (Window * T[n].threshold + 99) \div 100

(* The fork of entry n is in force at this height.  Votes are unsigned, so
   a threshold of 0 is always met.                                         *)
Enabled(T, counts, n, height) ==
  /\ height >= T[n].height
  /\ Threshold(T, n) = 0 \/ Accumulated(T, counts, n) >= Threshold(T, n)

get_voted_fork_index(T, counts, cfi, height) ==
  IF \E n \in 1..Len(T) : Enabled(T, counts, n, height)
  THEN CHOOSE n \in 1..Len(T) :
         /\ Enabled(T, counts, n, height)
         /\ \A m \in (n + 1)..Len(T) : ~Enabled(T, counts, m, height)
  ELSE cfi

Bump(T, counts, cfi, height) ==
  LET voted == get_voted_fork_index(T, counts, cfi, height)
  IN  IF voted > cfi THEN voted ELSE cfi

do_check(b) ==
  /\ b.major = heights[current_fork_index].version
  /\ b.vote >= heights[current_fork_index].version

(* get_ideal_version(height), as a table index.  *)
IdealIndex(T, height) ==
  CHOOSE n \in 1..Len(T) :
    /\ n = 1 \/ height >= T[n].height
    /\ \A m \in (n + 1)..Len(T) : height < T[m].height

get_ideal_version(T, height) == T[IdealIndex(T, height)].version

(* The effective votes of the blocks of heights lo .. hi.  *)
Votes(T, c, lo, hi) ==
  [i \in 1..(hi - lo + 1) |-> get_effective_version(T, c[lo + i].vote)]

(* The row of a height is overwritten, or appended when the height is new. *)
SetRow(rows, h, v) ==
  IF h < Len(rows) THEN [rows EXCEPT ![h + 1] = v] ELSE Append(rows, v)

-----------------------------------------------------------------------------
(* The effect of HardFork::add on the window and the index: the oldest vote
   leaves a full window, the new one enters, and the index may rise.       *)
AddEffect(b, height) ==
  LET vote == get_effective_version(heights, b.vote)
      full == Len(versions) >= Window
      kept == IF full THEN Tail(versions) ELSE versions
      less == IF full THEN [last_versions EXCEPT ![versions[1]] = @ - 1]
                      ELSE last_versions
      more == [less EXCEPT ![vote] = @ + 1]
  IN  /\ hf_versions' = SetRow(hf_versions, height, heights[current_fork_index].version)
      /\ versions' = Append(kept, vote)
      /\ last_versions' = more
      /\ current_fork_index' = Bump(heights, more, current_fork_index, height + 1)

(* The table in use activates its forks by height alone, as all the tables of
   hardforks/hardforks.cpp do.                                             *)
Scheduled == \A n \in 1..Len(heights) : heights[n].threshold = 0

(* rollback_blockchain_switching rebuilds the window before it adds blocks
   again.  switch_to_alternative_blockchain and pop_blocks do not: the
   blocks that come next are added on top of a popped window and of an index
   that "does not take voting into account" (on_block_popped), and nothing
   at all is rebuilt after an aborted batch.  The properties
   of voting are asked only while no block was added in such a state; the
   ordinary switch to a heavier branch adds blocks in one, so they say
   nothing of the chain after it.                                          *)
Votable == (Scheduled /\ ~misled) \/ mixed = 0

(* prepare_handle_incoming_blocks and pop_blocks open a batch before they
   change the database; the genesis block is stored outside of one.        *)
Began ==
  IF saved = {} /\ chain # <<>> THEN {[chain |-> chain, rows |-> hf_versions]}
                                ELSE saved

(* BlockchainDB::add_block on a block that Blockchain accepted: the block is
   stored and handed to HardFork::add.  Blockchain runs check() first.     *)
add(b) ==
  /\ scan = Len(chain) /\ Len(chain) < MaxHeight
  /\ Votable \/ mixed < MaxMixed
  /\ do_check(b)
  /\ chain' = Append(chain, b)
  /\ AddEffect(b, Len(chain))
  /\ scan' = scan + 1
  /\ saved' = Began
  /\ mixed' = IF mixed = MaxMixed \/ (mixed = 0 /\ memory = "exact")
              THEN mixed ELSE mixed + 1
  /\ misled' = \/ misled
               \/ memory = "undone" /\ b.major # get_ideal_version(heights, Len(chain))
  /\ UNCHANGED <<heights, memory>>

(* Mutant: the popped vote is not taken off its counter.  *)
PopKeepsCount ==
  /\ scan = Len(chain) /\ Len(chain) > 1
  /\ LET new_chain_height == Len(chain) - 1
         version == hf_versions[new_chain_height + 1]
     IN  /\ chain' = Front(chain)
         /\ versions' = <<version>> \o Front(versions)
         /\ last_versions' = [last_versions EXCEPT ![version] = @ + 1]
         /\ current_fork_index' = IdealIndex(heights, new_chain_height)
         /\ scan' = new_chain_height
  /\ saved' = Began
  /\ memory' = "popped"
  /\ UNCHANGED <<heights, hf_versions, mixed, misled>>

(* pop_block_from_blockchain: the block leaves the database, then
   on_block_popped(1).  The row of the popped height is still there and is
   what enters the window at its old end.                                  *)
on_block_popped ==
  /\ scan = Len(chain) /\ Len(chain) > 1
  /\ LET new_chain_height == Len(chain) - 1
         version == hf_versions[new_chain_height + 1]
         less == [last_versions EXCEPT ![versions[Len(versions)]] = @ - 1]
     IN  /\ chain' = Front(chain)
         /\ versions' = <<version>> \o Front(versions)
         /\ last_versions' = [less EXCEPT ![version] = @ + 1]
         /\ current_fork_index' = IdealIndex(heights, new_chain_height)
         /\ scan' = new_chain_height
  /\ saved' = Began
  /\ memory' = "popped"
  /\ UNCHANGED <<heights, hf_versions, mixed, misled>>

(* The while loop of reorganize_from_block_height.  *)
StepDown(T, cfi, start_version) ==
  CHOOSE n \in 1..cfi :
    /\ n = 1 \/ T[n].version <= start_version
    /\ \A m \in (n + 1)..cfi : T[m].version > start_version

(* reorganize_from_block_height up to its add loop: the window is rebuilt
   from the blocks up to this height ...                                   *)
reorganize_from_block_height(height) ==
  /\ scan = Len(chain)
  /\ height < Len(chain)
  /\ LET rescan_height == IF height >= Window - 1 THEN height - (Window - 1) ELSE 0
         start_version == IF height = 0 THEN OriginalVersion ELSE hf_versions[height + 1]
         vs == Votes(heights, chain, rescan_height, height)
         cfi == StepDown(heights, current_fork_index, start_version)
     IN  /\ versions' = vs
         /\ last_versions' = CountOf(vs)
         /\ current_fork_index' = Bump(heights, CountOf(vs), cfi, height + 1)
  /\ scan' = height + 1
  /\ saved' = Began
  /\ memory' = "exact"
  /\ UNCHANGED <<heights, chain, hf_versions, mixed, misled>>

(* ... and the add loop, one block of the chain per step.  The lock is held
   throughout, so nothing else is enabled until scan reaches the tip.  A
   block that add() refuses is passed over.                                *)
ReorganizeAdd ==
  /\ scan < Len(chain)
  /\ IF do_check(chain[scan + 1])
     THEN AddEffect(chain[scan + 1], scan)
     ELSE UNCHANGED <<hf_versions, versions, last_versions, current_fork_index>>
  /\ scan' = scan + 1
  /\ UNCHANGED <<heights, chain, saved, memory, mixed, misled>>

(* cleanup_handle_incoming_blocks, and pop_blocks at its end: the batch is
   written to disk ...                                                     *)
batch_stop ==
  /\ scan = Len(chain) /\ saved # {}
  /\ saved' = {}
  /\ UNCHANGED <<heights, chain, hf_versions, versions, last_versions,
                 current_fork_index, scan, memory, mixed, misled>>

(* ... or, when the database threw at one of its blocks, taken back.  No
   line tells the HardFork object.                                         *)
batch_abort ==
  /\ scan = Len(chain)
  /\ \E disk \in saved :
       /\ chain' = disk.chain /\ hf_versions' = disk.rows
       /\ scan' = Len(disk.chain)
       /\ memory' = IF disk.chain = chain THEN memory ELSE "undone"
  /\ saved' = {}
  /\ UNCHANGED <<heights, versions, last_versions, current_fork_index, mixed, misled>>

(* Mutant: the votes of the window are not consulted.  *)
RescanIndexIgnoresVotes(T, c, rows, counts) ==
  CHOOSE n \in 1..Len(T) : T[n].version = rows[Len(c)]

(* rescan_from_block_height's index: the entry of the last row's version
   (the last entry when the version is unknown), raised by the votes.      *)
RescanIndex(T, c, rows, counts) ==
  LET lastv == rows[Len(c)]
      found == {n \in 1..Len(T) : T[n].version = lastv}
      cfi == IF found = {} THEN Len(T) ELSE CHOOSE n \in found : TRUE
  IN  Bump(T, counts, cfi, Len(c))

RescanVotes(T, c) ==
  Votes(T, c, IF Len(c) > Window THEN Len(c) - Window ELSE 0, Len(c) - 1)

(* Mutant: the ideal version of the height below is compared.  *)
KeepsTopHeightBelow(T, c, n) ==
  LET ideal == get_ideal_version(T, IF n > 1 THEN n - 2 ELSE 0)
  IN  ideal <= 1 \/ ideal = c[n].major

(* Blockchain::init pops the blocks at the top whose major version is not
   the ideal one, down to the first that agrees or where the ideal is 1.   *)
KeepsTop(T, c, n) ==
  LET ideal == get_ideal_version(T, n - 1)
  IN  ideal <= 1 \/ ideal = c[n].major

InitialPop(T, c) ==
  CHOOSE n \in 1..Len(c) :
    /\ KeepsTop(T, c, n)
    /\ \A m \in (n + 1)..Len(c) : ~KeepsTop(T, c, m)

(* What a node that starts now finds on disk.  *)
Disk == IF saved = {} THEN [chain |-> chain, rows |-> hf_versions]
                      ELSE CHOOSE disk \in saved : TRUE

(* The state is in memory only: at start-up HardFork::init rebuilds it from
   the database, and if Blockchain::init popped blocks it is rebuilt again
   by reorganize_from_chain_height at the new height.  The node may have
   died at any point: an open batch, a reorganisation in it, is lost.      *)
init(T) ==
  /\ Disk.chain # <<>>
  /\ heights' = T
  /\ LET c == Disk.chain
         rows == Disk.rows
         cfi == RescanIndex(T, c, rows, CountOf(RescanVotes(T, c)))
         n == InitialPop(T, c)
         start_version == IF n = 1 THEN OriginalVersion ELSE rows[n]
         kept == SubSeq(c, 1, n)
         vs == RescanVotes(T, kept)
     IN  /\ chain' = kept
         /\ hf_versions' = rows
         /\ versions' = vs
         /\ last_versions' = CountOf(vs)
         /\ current_fork_index' =
              IF n = Len(c) THEN cfi
              ELSE Bump(T, CountOf(vs), StepDown(T, cfi, start_version), n)
         /\ scan' = n
  /\ saved' = {} /\ memory' = "exact"
  /\ UNCHANGED <<mixed, misled>>

(* A newer binary knows more forks and agrees on the ones already known.   *)
Extends(T, U) == Len(T) <= Len(U) /\ SubSeq(U, 1, Len(T)) = T

Restart == \E T \in Tables : Extends(heights, T) /\ init(T)

-----------------------------------------------------------------------------
Init ==
  /\ heights \in Tables
  /\ chain = <<>> /\ hf_versions = <<>>
  /\ versions = <<>> /\ last_versions = NoVotes
  /\ current_fork_index = 1
  /\ scan = 0 /\ saved = {}
  /\ memory = "exact" /\ mixed = 0 /\ misled = FALSE

Next ==
  \/ \E b \in IF chain = <<>> THEN {GenesisBlock} ELSE Block : add(b)
  \/ on_block_popped
  \/ \E height \in 0..MaxHeight : reorganize_from_block_height(height)
  \/ ReorganizeAdd
  \/ batch_stop
  \/ batch_abort
  \/ Restart

Spec == Init /\ [][Next]_vars

-----------------------------------------------------------------------------
(* Types; every block has a recorded version, and the index is in the table. *)
TypeOK ==
  /\ heights \in Tables
  /\ chain \in Seq(Block) /\ Len(chain) <= MaxHeight
  /\ hf_versions \in Seq(Versions) /\ Len(hf_versions) >= Len(chain)
  /\ versions \in Seq(Versions)
  /\ last_versions \in [Versions -> Nat]
  /\ current_fork_index \in 1..Len(heights)
  /\ scan \in 0..Len(chain)
  /\ saved \subseteq [chain : Seq(Block), rows : Seq(Versions)] /\ Cardinality(saved) <= 1
  /\ memory \in {"exact", "popped", "undone"}
  /\ mixed \in 0..MaxMixed /\ misled \in BOOLEAN

(* Every block of a chain, and every row stored for one, carries the version
   its height calls for.                                                   *)
OnSchedule(c, rows) ==
  \A h \in 0..(Len(c) - 1) :
    /\ c[h + 1].major = get_ideal_version(heights, h)
    /\ rows[h + 1] = get_ideal_version(heights, h)

(* While forks are activated by height alone, the blocks and the rows of the
   database, in an open batch as on disk, carry the ideal version of their
   own height, and the fork in force for the next block is the ideal one for
   its height: whatever the order of adds, pops, reorganisations, commits,
   aborts, crashes and restarts, upgrades of the binary included, whose
   start-up popping must remove exactly the blocks that predate a newly
   learnt fork.  After an aborted batch the fork in force is that of the
   chain taken back, until the next pop, reorganisation or restart makes it
   again; a block of the wrong version that comes in between is let in, and
   from then on (misled) nothing is claimed.                               *)
VersionFollowsSchedule ==
  Scheduled /\ ~misled =>
    /\ memory # "undone" => current_fork_index = IdealIndex(heights, scan)
    /\ OnSchedule(chain, hf_versions)
    /\ OnSchedule(Disk.chain, Disk.rows)

(* The vote counters agree with the window they summarise, across the
   incremental updates of add and on_block_popped, the rebuilds and the
   aborts that leave both alone: a count that drifts would wrap below zero
   or activate a fork without its votes.  The window never exceeds
   window_size and, unless a block was popped or a batch aborted since it
   was last rebuilt, holds exactly the effective votes of the last
   window_size blocks of the chain.                                        *)
WindowMatchesChain ==
  /\ last_versions = CountOf(versions)
  /\ Len(versions) <= Window
  /\ Votable /\ memory = "exact" /\ scan > 0 =>
       versions = RescanVotes(heights, SubSeq(chain, 1, scan))

(* A node that stops and starts again (same binary, no popping) is in the
   fork it was in before: votes are sticky in memory, and the database rows
   let a restarted node recover what earlier windows decided.              *)
RestartKeepsFork ==
  Votable /\ memory = "exact" /\ scan = Len(chain) /\ scan > 0 =>
    RescanIndex(heights, chain, hf_versions, CountOf(RescanVotes(heights, chain)))
      = current_fork_index

(* Whenever the chain's version rises to that of some fork, at least the
   fork's share of the window_size blocks before had voted for that version
   or a later one: no sequence of adds, rollbacks, aborts, restarts and
   upgrades activates a fork that the chain did not vote in.               *)
ForksWereVotedIn ==
  Votable =>
    \A h \in 1..(Len(chain) - 1), n \in 1..Len(heights) :
      /\ chain[h].major < chain[h + 1].major
      /\ chain[h + 1].major = heights[n].version
      => LET window == {k \in 1..h : k > h - Window}
             votes == {k \in window : chain[k].vote >= heights[n].version}
         IN  100 * Cardinality(votes) >= Window * heights[n].threshold
=============================================================================
