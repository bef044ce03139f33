--------------------------- MODULE HardForkProofs ---------------------------
(***************************************************************************)
(* VersionFollowsSchedule for every set of fork tables, every window size  *)
(* and every chain length, aborted batches and crashes included: it holds  *)
(* as long as the table in use activates its forks by height alone.        *)
(***************************************************************************)
EXTENDS HardFork, TLAPS, WellFoundedInduction, SequenceTheorems

(* A nonempty set of table indices has a greatest element; the loops of
   hardfork.cpp that search a table from its end find it.                  *)
LEMMA MaxExists ==
  ASSUME NEW N \in Nat, NEW S \in SUBSET (1..N), S # {}
  PROVE  \E m \in S : \A k \in S : k <= m
<1> DEFINE D == {d \in Nat : \E k \in S : d = N - k}
<1>1. D \subseteq Nat /\ D # {}
  <2>1. PICK k \in S : TRUE
    BY Zenon
  <2>2. N - k \in D
    BY <2>1
  <2> QED BY <2>2, Zenon
<1>2. IsWellFoundedOn(OpToRel(<, Nat), Nat)
  BY NatLessThanWellFounded, Zenon
<1>3. PICK x \in D : \A y \in D : ~(<<y, x>> \in OpToRel(<, Nat))
  <2> HIDE DEF D
  <2> QED BY <1>1, <1>2, WFMin, Zenon
<1>4. PICK m \in S : x = N - m
  BY <1>3, Zenon
<1>5. ASSUME NEW k \in S PROVE k <= m
  <2>1. N - k \in D
    OBVIOUS
  <2>2. ~(N - k < N - m)
    BY <1>3, <1>4, <2>1, Zenon DEF OpToRel
  <2> QED BY <2>2
<1> QED BY <1>4, <1>5, Zenon

(* What IsTable gives the provers about a single table.  *)
LEMMA TableFacts ==
  ASSUME NEW T, IsTable(T)
  PROVE  /\ Len(T) \in Nat \ {0}
         /\ \A n \in 1..Len(T) : /\ T[n].version \in Versions
                                 /\ T[n].version \in Nat
                                 /\ T[n].height \in Nat
                                 /\ T[n].threshold \in 0..100
         /\ T[1].version = 1 /\ T[1].height <= 1
         /\ \A i, j \in 1..Len(T) :
              i < j => T[i].version < T[j].version /\ T[i].height < T[j].height
<1>1. T \in Seq([version : Versions, height : Nat, threshold : 0..100])
  BY DEF IsTable
<1>2. Len(T) \in Nat \ {0}
  BY <1>1, LenProperties DEF IsTable
<1>3. ASSUME NEW n \in 1..Len(T)
      PROVE  T[n] \in [version : Versions, height : Nat, threshold : 0..100]
  BY <1>1, ElementOfSeq, Zenon
<1> QED BY <1>2, <1>3, BoundsAssumption, Zenon DEF IsTable, OriginalVersion

(* The ideal index exists, and only one index has its defining property.   *)
LEMMA IdealIndexProps ==
  ASSUME NEW T, IsTable(T), NEW h \in Nat
  PROVE  /\ IdealIndex(T, h) \in 1..Len(T)
         /\ IdealIndex(T, h) = 1 \/ h >= T[IdealIndex(T, h)].height
         /\ \A m \in (IdealIndex(T, h) + 1)..Len(T) : h < T[m].height
<1> DEFINE S == {n \in 1..Len(T) : n = 1 \/ h >= T[n].height}
<1>1. Len(T) \in Nat \ {0} /\ \A n \in 1..Len(T) : T[n].height \in Nat
  BY TableFacts, Zenon
<1>2. 1 \in S
  BY <1>1
<1>3. PICK n \in S : \A k \in S : k <= n
  BY <1>1, <1>2, MaxExists, Zenon
<1>4. \A m \in (n + 1)..Len(T) : h < T[m].height
  BY <1>1, <1>3
<1>5. \E x \in 1..Len(T) : /\ x = 1 \/ h >= T[x].height
                           /\ \A m \in (x + 1)..Len(T) : h < T[m].height
  BY <1>3, <1>4, Zenon
<1> QED BY <1>5, Zenon DEF IdealIndex

(* Only one entry of a table is the ideal one for a height.  *)
LEMMA IdealIndexUnique ==
  ASSUME NEW T, IsTable(T), NEW h \in Nat, NEW n \in 1..Len(T),
         n = 1 \/ h >= T[n].height,
         \A m \in (n + 1)..Len(T) : h < T[m].height
  PROVE  n = IdealIndex(T, h)
<1> DEFINE i == IdealIndex(T, h)
<1>1. Len(T) \in Nat \ {0} /\ \A k \in 1..Len(T) : T[k].height \in Nat
  BY TableFacts, Zenon
<1>2. /\ i \in 1..Len(T)
      /\ i = 1 \/ h >= T[i].height
      /\ \A m \in (i + 1)..Len(T) : h < T[m].height
  BY IdealIndexProps, Zenon
<1> HIDE DEF i
<1>3. ~(i < n)
  BY <1>1, <1>2
<1>4. ~(n < i)
  BY <1>1, <1>2
<1> QED BY <1>1, <1>2, <1>3, <1>4 DEF i

(* get_ideal_version never falls as the chain grows.  *)
LEMMA IdealIndexMonotone ==
  ASSUME NEW T, IsTable(T), NEW h \in Nat, NEW k \in Nat, h <= k
  PROVE  IdealIndex(T, h) <= IdealIndex(T, k)
<1> DEFINE i == IdealIndex(T, h)
           j == IdealIndex(T, k)
<1>1. Len(T) \in Nat \ {0} /\ \A n \in 1..Len(T) : T[n].height \in Nat
  BY TableFacts, Zenon
<1>2. i \in 1..Len(T) /\ (i = 1 \/ h >= T[i].height)
  BY IdealIndexProps, Zenon
<1>3. j \in 1..Len(T) /\ \A m \in (j + 1)..Len(T) : k < T[m].height
  BY IdealIndexProps, Zenon
<1> HIDE DEF i, j
<1>4. i <= j
  BY <1>1, <1>2, <1>3
<1> QED BY <1>4 DEF i, j

(* The genesis block is of the first entry, whose height is at most 1.  *)
LEMMA IdealIndexGenesis ==
  ASSUME NEW T, IsTable(T)
  PROVE  IdealIndex(T, 0) = 1
<1>1. \A m \in 2..Len(T) : 0 < T[m].height
  BY TableFacts
<1> QED BY <1>1, TableFacts, IdealIndexUnique

-----------------------------------------------------------------------------
(* With a threshold of 0 everywhere the vote counters do not matter.       *)
LEMMA VotedIsIdeal ==
  ASSUME NEW T, IsTable(T), \A n \in 1..Len(T) : T[n].threshold = 0,
         NEW counts, NEW cfi, NEW h \in Nat \ {0}
  PROVE  get_voted_fork_index(T, counts, cfi, h) = IdealIndex(T, h)
<1> DEFINE i == IdealIndex(T, h)
<1>1. /\ Len(T) \in Nat \ {0}
      /\ \A n \in 1..Len(T) : T[n].height \in Nat
      /\ T[1].height <= 1
  BY TableFacts, Zenon
<1>2. /\ i \in 1..Len(T)
      /\ i = 1 \/ h >= T[i].height
      /\ \A m \in (i + 1)..Len(T) : h < T[m].height
  BY IdealIndexProps, Zenon
<1>3. ASSUME NEW n \in 1..Len(T) PROVE Threshold(T, n) = 0
  BY BoundsAssumption DEF Threshold
<1>4. ASSUME NEW n \in 1..Len(T)
      PROVE  Enabled(T, counts, n, h) <=> h >= T[n].height
  BY <1>3, Zenon DEF Enabled
<1>5. Enabled(T, counts, i, h)
  BY <1>1, <1>2, <1>4
<1>6. ASSUME NEW m \in (i + 1)..Len(T) PROVE ~Enabled(T, counts, m, h)
  <2> HIDE DEF i
  <2>1. m \in 1..Len(T)
    BY <1>1, <1>2, SMT
  <2>2. h < T[m].height /\ T[m].height \in Nat
    BY <1>1, <1>2, <2>1, Zenon
  <2>3. ~(h >= T[m].height)
    BY <2>2, SMT
  <2> QED BY <1>4, <2>1, <2>3, Zenon
<1>7. ASSUME NEW n \in 1..Len(T), Enabled(T, counts, n, h),
             \A m \in (n + 1)..Len(T) : ~Enabled(T, counts, m, h)
      PROVE  n = i
  BY <1>1, <1>2, <1>5, <1>6, <1>7
<1> HIDE DEF i
<1> QED BY <1>2, <1>5, <1>6, <1>7, Zenon DEF get_voted_fork_index, i

(* An index at or below the schedule is raised onto it by add, by a
   reorganisation and by a rescan alike.                                   *)
LEMMA BumpIsIdeal ==
  ASSUME NEW T, IsTable(T), \A n \in 1..Len(T) : T[n].threshold = 0,
         NEW counts, NEW h \in Nat \ {0},
         NEW cfi \in Int, cfi <= IdealIndex(T, h)
  PROVE  Bump(T, counts, cfi, h) = IdealIndex(T, h)
<1>1. IdealIndex(T, h) \in Int
  BY IdealIndexProps, TableFacts
<1> QED BY <1>1, VotedIsIdeal DEF Bump

(* The loop of reorganize_from_block_height stops at or below the entry of
   the version it is given.                                                *)
LEMMA StepDownBelow ==
  ASSUME NEW T, IsTable(T), NEW cfi \in 1..Len(T), NEW j \in 1..Len(T)
  PROVE  /\ StepDown(T, cfi, T[j].version) \in 1..cfi
         /\ StepDown(T, cfi, T[j].version) <= j
<1> DEFINE v == T[j].version
           S == {n \in 1..cfi : n = 1 \/ T[n].version <= v}
           Stop(n) == /\ n = 1 \/ T[n].version <= v
                      /\ \A m \in (n + 1)..cfi : T[m].version > v
<1>1. /\ Len(T) \in Nat \ {0} /\ cfi \in Nat
      /\ \A n \in 1..Len(T) : T[n].version \in Nat
      /\ \A a, b \in 1..Len(T) : a < b => T[a].version < T[b].version
  BY TableFacts
<1>2. 1 \in S
  BY <1>1
<1>3. PICK n \in S : \A k \in S : k <= n
  BY <1>1, <1>2, MaxExists, Zenon
<1>4. \E x \in 1..cfi : Stop(x)
  <2>1. n \in 1..cfi /\ (n = 1 \/ T[n].version <= v)
    BY <1>3, Zenon
  <2>2. ASSUME NEW m \in (n + 1)..cfi PROVE T[m].version > v
    <3>1. m \in 1..cfi /\ m \in 1..Len(T) /\ ~(m <= n)
      BY <1>1, <2>1
    <3>2. ~(T[m].version <= v)
      BY <1>3, <3>1, Zenon
    <3>3. T[m].version \in Nat /\ T[j].version \in Nat
      BY <1>1, <3>1, Zenon
    <3> QED BY <3>2, <3>3
  <2> QED BY <2>1, <2>2, Zenon
<1>5. StepDown(T, cfi, v) \in 1..cfi /\ Stop(StepDown(T, cfi, v))
  BY <1>4, Zenon DEF StepDown
<1> QED BY <1>1, <1>5

-----------------------------------------------------------------------------
Follows(T, c, rows) ==
  \A h \in 0..(Len(c) - 1) : /\ c[h + 1].major = get_ideal_version(T, h)
                             /\ c[h + 1].vote >= c[h + 1].major
                             /\ rows[h + 1] = get_ideal_version(T, h)

(* A database on the schedule of table T: that every block votes at least for
   its own version is what keeps the add loop of a reorganisation from
   passing over one.                                                       *)
DbOk(T, c, rows) ==
  /\ c \in Seq(Block)
  /\ rows \in Seq(Versions)
  /\ Len(rows) >= Len(c)
  /\ Follows(T, c, rows)

(* The inductive invariant: the open database and, while a batch is open, the
   one on disk are on the schedule, and so is the index unless a batch was
   aborted since it was last computed, which is never so inside a
   reorganisation.  The window and its counters do not occur in it.        *)
ScheduleInv ==
  /\ heights \in Tables
  /\ DbOk(heights, chain, hf_versions)
  /\ \A disk \in saved : DbOk(heights, disk.chain, disk.rows)
  /\ scan \in 0..Len(chain)
  /\ current_fork_index \in 1..Len(heights)
  /\ memory # "undone" => current_fork_index = IdealIndex(heights, scan)
  /\ scan # Len(chain) => memory # "undone"

(* What DbOk gives the provers about blocks and rows.  *)
LEMMA DbFacts ==
  ASSUME NEW T, NEW c, NEW rows, DbOk(T, c, rows)
  PROVE  /\ Len(c) \in Nat /\ Len(rows) \in Nat /\ Len(rows) >= Len(c)
         /\ \A h \in 1..Len(c) : c[h] \in Block
         /\ \A h \in 1..Len(rows) : rows[h] \in Versions
<1>1. c \in Seq(Block) /\ rows \in Seq(Versions) /\ Len(rows) >= Len(c)
  BY Zenon DEF DbOk
<1>2. Len(c) \in Nat /\ Len(rows) \in Nat
  BY <1>1, LenProperties, Zenon
<1> QED BY <1>1, <1>2, ElementOfSeq, Zenon

(* What ScheduleInv gives the provers about the variables.  *)
LEMMA InvFacts ==
  ASSUME ScheduleInv
  PROVE  /\ IsTable(heights)
         /\ Len(chain) \in Nat /\ Len(hf_versions) \in Nat /\ scan \in Nat
         /\ current_fork_index \in 1..Len(heights)
         /\ \A h \in 1..Len(chain) : chain[h] \in Block
         /\ \A h \in 1..Len(hf_versions) : hf_versions[h] \in Versions
<1>1. IsTable(heights)
  BY TablesAssumption, Zenon DEF ScheduleInv
<1>2. /\ Len(chain) \in Nat /\ Len(hf_versions) \in Nat
      /\ \A h \in 1..Len(chain) : chain[h] \in Block
      /\ \A h \in 1..Len(hf_versions) : hf_versions[h] \in Versions
  BY DbFacts, Zenon DEF ScheduleInv
<1>3. scan \in 0..Len(chain) /\ current_fork_index \in 1..Len(heights)
  BY Zenon DEF ScheduleInv
<1>4. scan \in Nat
  BY <1>2, <1>3, SMT
<1> QED BY <1>1, <1>2, <1>3, <1>4, Zenon

(* The disk is on the schedule whenever the open database is: it is either
   that database or the one the batch was opened on.                       *)
LEMMA DiskOk ==
  ASSUME ScheduleInv
  PROVE  DbOk(heights, Disk.chain, Disk.rows)
<1>1. CASE saved = {}
  <2>1. Disk.chain = chain /\ Disk.rows = hf_versions
    BY <1>1 DEF Disk
  <2> QED BY <2>1, Zenon DEF ScheduleInv
<1>2. CASE saved # {}
  <2>1. Disk \in saved
    BY <1>2, Zenon DEF Disk
  <2> QED BY <2>1, Zenon DEF ScheduleInv
<1> QED BY <1>1, <1>2, Zenon

(* The database a batch is opened on is the one that was on the schedule.  *)
LEMMA BeganOk ==
  ASSUME ScheduleInv
  PROVE  \A disk \in Began : DbOk(heights, disk.chain, disk.rows)
<1>1. CASE Began = saved
  BY <1>1, Zenon DEF ScheduleInv
<1>2. CASE Began = {[chain |-> chain, rows |-> hf_versions]}
  <2> SUFFICES ASSUME NEW disk \in Began
               PROVE  DbOk(heights, disk.chain, disk.rows)
    OBVIOUS
  <2>1. disk.chain = chain /\ disk.rows = hf_versions
    BY <1>2
  <2> QED BY <2>1, Zenon DEF ScheduleInv
<1> QED BY <1>1, <1>2, Zenon DEF Began

(* get_ideal_version answers with a version of the table.  *)
LEMMA IdealVersionType ==
  ASSUME NEW T, IsTable(T), NEW h \in Nat
  PROVE  get_ideal_version(T, h) \in Versions /\ get_ideal_version(T, h) \in Nat
BY IdealIndexProps, TableFacts, Zenon DEF get_ideal_version

(* add_fork makes versions increase, so a version names one entry.  *)
LEMMA VersionInjective ==
  ASSUME NEW T, IsTable(T), NEW i \in 1..Len(T), NEW j \in 1..Len(T),
         T[i].version = T[j].version
  PROVE  i = j
<1>1. /\ Len(T) \in Nat /\ \A n \in 1..Len(T) : T[n].version \in Nat
      /\ \A a, b \in 1..Len(T) : a < b => T[a].version < T[b].version
  BY TableFacts, Zenon
<1> QED BY <1>1

(* Writing the row of a height leaves the other rows alone.  *)
LEMMA SetRowProps ==
  ASSUME NEW rows \in Seq(Versions), NEW h \in Nat, h <= Len(rows), NEW v \in Versions
  PROVE  /\ SetRow(rows, h, v) \in Seq(Versions)
         /\ Len(SetRow(rows, h, v)) \in Nat
         /\ Len(SetRow(rows, h, v)) >= Len(rows)
         /\ Len(SetRow(rows, h, v)) >= h + 1
         /\ SetRow(rows, h, v)[h + 1] = v
         /\ \A k \in 1..Len(rows) : k # h + 1 => SetRow(rows, h, v)[k] = rows[k]
<1>1. Len(rows) \in Nat
  BY LenProperties
<1>2. CASE h < Len(rows)
  <2>1. h + 1 \in 1..Len(rows)
    BY <1>1, <1>2
  <2>2. SetRow(rows, h, v) = [rows EXCEPT ![h + 1] = v]
    BY <1>2, Zenon DEF SetRow
  <2> QED BY <1>1, <2>1, <2>2, ExceptSeq
<1>3. CASE h = Len(rows)
  <2>1. SetRow(rows, h, v) = Append(rows, v)
    BY <1>1, <1>3 DEF SetRow
  <2> QED BY <1>1, <1>3, <2>1, AppendProperties
<1> QED BY <1>1, <1>2, <1>3

(* The part of AddEffect that matters here: the row written is the ideal
   version of the block's height and the index moves to the next ideal.    *)
LEMMA AddEffectIdeal ==
  ASSUME ScheduleInv, Scheduled, NEW b, AddEffect(b, scan),
         current_fork_index = IdealIndex(heights, scan)
  PROVE  /\ hf_versions' = SetRow(hf_versions, scan, get_ideal_version(heights, scan))
         /\ current_fork_index' = IdealIndex(heights, scan + 1)
<1>1. /\ IsTable(heights) /\ scan \in Nat
      /\ current_fork_index \in 1..Len(heights)
      /\ current_fork_index = IdealIndex(heights, scan)
  BY InvFacts, Zenon
<1>2. \A n \in 1..Len(heights) : heights[n].threshold = 0
  BY Zenon DEF Scheduled
<1>3. hf_versions' = SetRow(hf_versions, scan, heights[current_fork_index].version)
  BY Zenon DEF AddEffect
<1>4. PICK counts : current_fork_index' = Bump(heights, counts, current_fork_index, scan + 1)
  BY DEF AddEffect
<1>5. scan + 1 \in Nat \ {0} /\ scan + 1 \in Nat /\ scan <= scan + 1
  BY <1>1, SMT
<1>6. current_fork_index' = IdealIndex(heights, scan + 1)
  <2>1. current_fork_index <= IdealIndex(heights, scan + 1)
    BY <1>1, <1>5, IdealIndexMonotone, Zenon
  <2>2. current_fork_index \in Int
    BY <1>1, SMT
  <2> QED BY <1>1, <1>2, <1>4, <1>5, <2>1, <2>2, BumpIsIdeal, ZenonT(60)
<1> QED BY <1>1, <1>3, <1>6, Zenon DEF get_ideal_version

(* A block that is let in and is not misled carries the version of its
   height: the index was exact, after an aborted batch too, since do_check
   compared the block with it.                                             *)
LEMMA AddIndex ==
  ASSUME ScheduleInv, NEW b \in Block, add(b), ~misled'
  PROVE  current_fork_index = IdealIndex(heights, scan)
<1>1. CASE memory # "undone"
  BY <1>1, Zenon DEF ScheduleInv
<1>2. CASE memory = "undone"
  <2>1. /\ IsTable(heights) /\ scan \in Nat /\ current_fork_index \in 1..Len(heights)
    BY InvFacts, Zenon
  <2>2. b.major = get_ideal_version(heights, scan)
    BY <1>2, Zenon DEF add
  <2>3. b.major = heights[current_fork_index].version
    BY Zenon DEF add, do_check
  <2>4. IdealIndex(heights, scan) \in 1..Len(heights)
    BY <2>1, IdealIndexProps, Zenon
  <2> QED BY <2>1, <2>2, <2>3, <2>4, VersionInjective, Zenon DEF get_ideal_version
<1> QED BY <1>1, <1>2, Zenon

(* add keeps the schedule, unless it lets in a block of another version.  *)
LEMMA AddSchedule ==
  ASSUME ScheduleInv, Scheduled, NEW b \in Block, add(b), ~misled'
  PROVE  ScheduleInv'
<1>0. current_fork_index = IdealIndex(heights, scan)
  BY AddIndex, Zenon
<1>1. /\ scan = Len(chain) /\ do_check(b) /\ chain' = Append(chain, b)
      /\ AddEffect(b, scan) /\ scan' = scan + 1 /\ heights' = heights
      /\ saved' = Began
  BY Zenon DEF add
<1>2. /\ hf_versions' = SetRow(hf_versions, scan, get_ideal_version(heights, scan))
      /\ current_fork_index' = IdealIndex(heights, scan + 1)
  BY <1>0, <1>1, AddEffectIdeal, ZenonT(60)
<1>3. /\ IsTable(heights) /\ Len(chain) \in Nat /\ scan \in Nat
      /\ Len(hf_versions) \in Nat
      /\ get_ideal_version(heights, scan) \in Versions
  BY InvFacts, IdealVersionType, Zenon
<1>4. /\ chain \in Seq(Block) /\ hf_versions \in Seq(Versions)
      /\ Len(hf_versions) >= Len(chain) /\ Follows(heights, chain, hf_versions)
  BY Zenon DEF ScheduleInv, DbOk
<1>5. /\ chain' \in Seq(Block) /\ Len(chain') = Len(chain) + 1
      /\ \A i \in 1..Len(chain) : chain'[i] = chain[i]
      /\ chain'[Len(chain) + 1] = b
  BY <1>1, <1>4, AppendProperties
<1>6. /\ hf_versions' \in Seq(Versions)
      /\ Len(hf_versions') >= Len(chain')
      /\ hf_versions'[scan + 1] = get_ideal_version(heights, scan)
      /\ \A k \in 1..Len(hf_versions) : k # scan + 1 => hf_versions'[k] = hf_versions[k]
  <2> DEFINE v == get_ideal_version(heights, scan)
             r == SetRow(hf_versions, scan, v)
  <2>1. scan <= Len(hf_versions)
    BY <1>1, <1>3, <1>4, ZenonT(60)
  <2>2. /\ r \in Seq(Versions) /\ Len(r) \in Nat /\ Len(r) >= scan + 1 /\ r[scan + 1] = v
        /\ \A k \in 1..Len(hf_versions) : k # scan + 1 => r[k] = hf_versions[k]
    BY <1>3, <1>4, <2>1, SetRowProps, ZenonT(60)
  <2>3. hf_versions' = r
    BY <1>2
  <2> HIDE DEF r, v
  <2>4. Len(hf_versions') >= Len(chain')
    BY <1>1, <1>5, <2>2, <2>3, Zenon
  <2> QED BY <2>2, <2>3, <2>4, ZenonT(60) DEF v
<1>7. b.major = get_ideal_version(heights, scan) /\ b.vote >= b.major
  BY <1>0, <1>1, ZenonT(60) DEF do_check, get_ideal_version
<1>8. Follows(heights, chain', hf_versions')
  <2> SUFFICES ASSUME NEW h \in 0..(Len(chain') - 1)
               PROVE  /\ chain'[h + 1].major = get_ideal_version(heights, h)
                      /\ chain'[h + 1].vote >= chain'[h + 1].major
                      /\ hf_versions'[h + 1] = get_ideal_version(heights, h)
    BY Zenon DEF Follows
  <2>1. CASE h = scan
    BY <1>1, <1>3, <1>5, <1>6, <1>7, <2>1, Zenon
  <2>2. CASE h \in 0..(Len(chain) - 1)
    BY <1>1, <1>3, <1>4, <1>5, <1>6, <2>2 DEF Follows
  <2> QED BY <1>1, <1>3, <1>5, <2>1, <2>2
<1>9. DbOk(heights', chain', hf_versions')
  BY <1>1, <1>5, <1>6, <1>8, Zenon DEF DbOk
<1>10. \A disk \in saved' : DbOk(heights', disk.chain, disk.rows)
  BY <1>1, BeganOk, Zenon
<1>11. scan + 1 \in Nat /\ scan' \in 0..Len(chain') /\ scan' = Len(chain')
  BY <1>1, <1>3, <1>5, SMT
<1>12. current_fork_index' \in 1..Len(heights')
  BY <1>1, <1>2, <1>3, <1>11, IdealIndexProps, Zenon
<1>13. heights' \in Tables
  BY <1>1, Zenon DEF ScheduleInv
<1> QED BY <1>1, <1>2, <1>9, <1>10, <1>11, <1>12, <1>13, Zenon DEF ScheduleInv

(* on_block_popped puts the index on the schedule, whatever it was.  *)
LEMMA PopSchedule ==
  ASSUME ScheduleInv, Scheduled, on_block_popped
  PROVE  ScheduleInv'
<1>1. /\ scan = Len(chain) /\ Len(chain) > 1
      /\ chain' = Front(chain) /\ scan' = Len(chain) - 1
      /\ current_fork_index' = IdealIndex(heights, Len(chain) - 1)
      /\ heights' = heights /\ hf_versions' = hf_versions /\ saved' = Began
  BY DEF on_block_popped
<1>2. Len(chain) \in Nat /\ \A i \in 1..Len(chain) : chain[i] \in Block
  BY InvFacts, ZenonT(60)
<1>3. /\ chain' \in Seq(Block) /\ Len(chain') = Len(chain) - 1
      /\ \A i \in 1..(Len(chain) - 1) : chain'[i] = chain[i]
  BY <1>1, <1>2, SubSeqProperties DEF Front
<1>4. Follows(heights, chain', hf_versions)
  <2> SUFFICES ASSUME NEW h \in 0..(Len(chain') - 1)
               PROVE  /\ chain'[h + 1].major = get_ideal_version(heights, h)
                      /\ chain'[h + 1].vote >= chain'[h + 1].major
                      /\ hf_versions[h + 1] = get_ideal_version(heights, h)
    BY Zenon DEF Follows
  <2>1. h \in 0..(Len(chain) - 1) /\ chain'[h + 1] = chain[h + 1]
    BY <1>2, <1>3
  <2> QED BY <2>1, Zenon DEF ScheduleInv, DbOk, Follows
<1>5. /\ hf_versions \in Seq(Versions) /\ Len(hf_versions) \in Nat
      /\ Len(hf_versions) >= Len(chain) /\ heights \in Tables /\ IsTable(heights)
  BY InvFacts, Zenon DEF ScheduleInv, DbOk
<1>6. Len(hf_versions) >= Len(chain') /\ scan' \in 0..Len(chain') /\ scan' = Len(chain')
      /\ Len(chain) - 1 \in Nat
  BY <1>1, <1>2, <1>3, <1>5, SMT
<1>7. DbOk(heights', chain', hf_versions')
  BY <1>1, <1>3, <1>4, <1>5, <1>6, Zenon DEF DbOk
<1>8. \A disk \in saved' : DbOk(heights', disk.chain, disk.rows)
  BY <1>1, BeganOk, Zenon
<1>9. current_fork_index' \in 1..Len(heights')
  BY <1>1, <1>5, <1>6, IdealIndexProps, Zenon
<1> QED BY <1>1, <1>5, <1>6, <1>7, <1>8, <1>9, Zenon DEF ScheduleInv

(* reorganize_from_block_height puts the index on the schedule of the block
   it starts from: the row of that block bounds it from above.             *)
LEMMA ReorganizeSchedule ==
  ASSUME ScheduleInv, Scheduled, NEW height \in 0..MaxHeight,
         reorganize_from_block_height(height)
  PROVE  ScheduleInv'
<1> DEFINE start == IF height = 0 THEN OriginalVersion ELSE hf_versions[height + 1]
           i == IdealIndex(heights, height)
<1>1. /\ height < Len(chain) /\ scan' = height + 1
      /\ heights' = heights /\ chain' = chain /\ hf_versions' = hf_versions
      /\ saved' = Began /\ memory' = "exact"
  BY Zenon DEF reorganize_from_block_height
<1>2. PICK counts : current_fork_index' =
        Bump(heights, counts, StepDown(heights, current_fork_index, start), height + 1)
  BY Zenon DEF reorganize_from_block_height
<1>3. /\ IsTable(heights) /\ Len(chain) \in Nat /\ height \in Nat
      /\ current_fork_index \in 1..Len(heights)
      /\ \A n \in 1..Len(heights) : heights[n].threshold = 0
  BY InvFacts, BoundsAssumption DEF Scheduled, ScheduleInv
<1>4. i \in 1..Len(heights) /\ Len(heights) \in Nat
  BY <1>3, IdealIndexProps, TableFacts, Zenon
<1>5. start = heights[i].version
  <2>1. CASE height = 0
    BY <1>3, <2>1, IdealIndexGenesis, TableFacts, Zenon DEF OriginalVersion
  <2>2. CASE height # 0
    <3>1. hf_versions[height + 1] = get_ideal_version(heights, height)
      <4>1. height \in 0..(Len(chain) - 1)
        BY <1>1, <1>3, SMT
      <4> QED BY <4>1, Zenon DEF ScheduleInv, DbOk, Follows
    <3> QED BY <2>2, <3>1, ZenonT(60) DEF get_ideal_version
  <2> QED BY <2>1, <2>2, ZenonT(60)
<1>6. /\ StepDown(heights, current_fork_index, start) \in 1..current_fork_index
      /\ StepDown(heights, current_fork_index, start) <= i
  <2> HIDE DEF start, i
  <2> QED BY <1>3, <1>4, <1>5, StepDownBelow, ZenonT(60)
<1>7. i <= IdealIndex(heights, height + 1)
  <2>1. height + 1 \in Nat /\ height <= height + 1
    BY <1>3
  <2> QED BY <1>3, <2>1, IdealIndexMonotone, Zenon
<1>8. current_fork_index' = IdealIndex(heights, height + 1)
  <2> DEFINE sd == StepDown(heights, current_fork_index, start)
  <2>1. sd \in Int /\ sd <= IdealIndex(heights, height + 1)
    <3> HIDE DEF start, i
    <3>1. height + 1 \in Nat
      BY <1>3
    <3>2. IdealIndex(heights, height + 1) \in 1..Len(heights)
      BY <1>3, <3>1, IdealIndexProps, ZenonT(60)
    <3> QED BY <1>3, <1>4, <1>6, <1>7, <3>2
  <2> HIDE DEF sd, start
  <2> QED BY <1>2, <1>3, <2>1, BumpIsIdeal DEF sd
<1>9. height + 1 \in Nat /\ scan' \in 0..Len(chain')
  BY <1>1, <1>3, SMT
<1>10. current_fork_index' \in 1..Len(heights')
  BY <1>1, <1>3, <1>8, <1>9, IdealIndexProps, Zenon
<1>11. \A disk \in saved' : DbOk(heights', disk.chain, disk.rows)
  BY <1>1, BeganOk, Zenon
<1>12. heights' \in Tables /\ DbOk(heights', chain', hf_versions') /\ memory' # "undone"
  BY <1>1, Zenon DEF ScheduleInv
<1> QED BY <1>1, <1>8, <1>9, <1>10, <1>11, <1>12, Zenon DEF ScheduleInv

(* The add loop of a reorganisation accepts every block and rewrites its row
   with the version it had.                                                *)
LEMMA ReorganizeAddSchedule ==
  ASSUME ScheduleInv, Scheduled, ReorganizeAdd
  PROVE  ScheduleInv'
<1>1. /\ scan < Len(chain) /\ scan' = scan + 1
      /\ heights' = heights /\ chain' = chain
      /\ saved' = saved /\ memory' = memory
  BY Zenon DEF ReorganizeAdd
<1>2. /\ IsTable(heights) /\ Len(chain) \in Nat /\ scan \in Nat
      /\ Len(hf_versions) \in Nat
      /\ \A h \in 1..Len(chain) : chain[h] \in Block
      /\ get_ideal_version(heights, scan) \in Versions
      /\ get_ideal_version(heights, scan) \in Nat
  BY InvFacts, IdealVersionType, Zenon
<1>0. memory # "undone" /\ current_fork_index = IdealIndex(heights, scan)
  <2>1. scan # Len(chain)
    BY <1>1, <1>2, SMT
  <2> QED BY <2>1, Zenon DEF ScheduleInv
<1>3. /\ chain[scan + 1].major = get_ideal_version(heights, scan)
      /\ chain[scan + 1].vote >= chain[scan + 1].major
      /\ hf_versions[scan + 1] = get_ideal_version(heights, scan)
      /\ heights[current_fork_index].version = get_ideal_version(heights, scan)
  <2>1. scan \in 0..(Len(chain) - 1)
    BY <1>1, <1>2, SMT
  <2> QED BY <1>0, <2>1, ZenonT(60) DEF ScheduleInv, DbOk, Follows, get_ideal_version
<1>4. do_check(chain[scan + 1])
  BY <1>3 DEF do_check
<1>5. /\ hf_versions' = SetRow(hf_versions, scan, get_ideal_version(heights, scan))
      /\ current_fork_index' = IdealIndex(heights, scan + 1)
  BY <1>0, <1>4, AddEffectIdeal, Zenon DEF ReorganizeAdd
<1>6. hf_versions \in Seq(Versions) /\ scan <= Len(hf_versions)
  <2>1. hf_versions \in Seq(Versions) /\ Len(hf_versions) >= Len(chain)
    BY Zenon DEF ScheduleInv, DbOk
  <2> QED BY <1>1, <1>2, <2>1, SMT
<1>7. /\ hf_versions' \in Seq(Versions)
      /\ Len(hf_versions') >= Len(hf_versions) /\ Len(hf_versions') \in Nat
      /\ hf_versions'[scan + 1] = get_ideal_version(heights, scan)
      /\ \A k \in 1..Len(hf_versions) : k # scan + 1 => hf_versions'[k] = hf_versions[k]
  BY <1>2, <1>5, <1>6, SetRowProps, ZenonT(60)
<1>8. \A k \in 1..Len(hf_versions) : hf_versions'[k] = hf_versions[k]
  BY <1>3, <1>7, Zenon
<1>9. Len(hf_versions) >= Len(chain)
  BY Zenon DEF ScheduleInv, DbOk
<1>10. scan + 1 \in 0..Len(chain) /\ Len(hf_versions') >= Len(chain)
  BY <1>1, <1>2, <1>7, <1>9, SMT
<1>11. ASSUME NEW h \in 0..(Len(chain) - 1) PROVE h + 1 \in 1..Len(hf_versions)
  BY <1>2, <1>9, SMT
<1>12. Follows(heights, chain, hf_versions')
  BY <1>8, <1>11, ZenonT(60) DEF ScheduleInv, DbOk, Follows
<1>13. DbOk(heights', chain', hf_versions')
  BY <1>1, <1>7, <1>10, <1>12, ZenonT(60) DEF ScheduleInv, DbOk
<1>14. scan + 1 \in Nat
  BY <1>2, SMT
<1>15. current_fork_index' \in 1..Len(heights')
  BY <1>1, <1>2, <1>5, <1>14, IdealIndexProps, Zenon
<1>16. heights' \in Tables /\ \A disk \in saved' : DbOk(heights', disk.chain, disk.rows)
  BY <1>1, Zenon DEF ScheduleInv
<1> QED BY <1>0, <1>1, <1>5, <1>10, <1>13, <1>15, <1>16, ZenonT(60) DEF ScheduleInv

(* A batch that ends, either way, leaves a database that is on the schedule;
   after an abort that changed it nothing is known of the index.           *)
LEMMA BatchSchedule ==
  ASSUME ScheduleInv, batch_stop \/ batch_abort
  PROVE  ScheduleInv'
<1>1. CASE batch_stop
  <2>1. /\ saved' = {} /\ heights' = heights /\ chain' = chain /\ hf_versions' = hf_versions
        /\ scan' = scan /\ current_fork_index' = current_fork_index /\ memory' = memory
    BY <1>1, Zenon DEF batch_stop
  <2> QED BY <2>1, Zenon DEF ScheduleInv
<1>2. CASE batch_abort
  <2>1. PICK disk \in saved :
          /\ chain' = disk.chain /\ hf_versions' = disk.rows /\ scan' = Len(disk.chain)
          /\ memory' = IF disk.chain = chain THEN memory ELSE "undone"
    BY <1>2, Zenon DEF batch_abort
  <2>2. /\ saved' = {} /\ heights' = heights /\ scan = Len(chain)
        /\ current_fork_index' = current_fork_index
    BY <1>2, Zenon DEF batch_abort
  <2>3. DbOk(heights', chain', hf_versions') /\ Len(disk.chain) \in Nat
    BY <2>1, <2>2, DbFacts, Zenon DEF ScheduleInv
  <2>4. scan' \in 0..Len(chain') /\ scan' = Len(chain')
    BY <2>1, <2>3, SMT
  <2>5. memory' # "undone" => current_fork_index' = IdealIndex(heights', scan')
    BY <2>1, <2>2, Zenon DEF ScheduleInv
  <2> QED BY <2>2, <2>3, <2>4, <2>5, Zenon DEF ScheduleInv
<1> QED BY <1>1, <1>2, Zenon

(* A table and an extension of it have the same ideal index at the heights
   where the extension's index lies within the shorter table.              *)
LEMMA IdealOfExtension ==
  ASSUME NEW T, IsTable(T), NEW U, IsTable(U), Extends(T, U),
         NEW h \in Nat, IdealIndex(U, h) <= Len(T)
  PROVE  /\ IdealIndex(U, h) = IdealIndex(T, h)
         /\ get_ideal_version(U, h) = get_ideal_version(T, h)
<1> DEFINE i == IdealIndex(U, h)
<1>1. /\ Len(T) \in Nat \ {0} /\ Len(U) \in Nat \ {0} /\ Len(T) <= Len(U)
  BY TableFacts, Zenon DEF Extends
<1>2. \A n \in 1..Len(T) : T[n] = U[n]
  <2>1. SubSeq(U, 1, Len(T)) = T
    BY Zenon DEF Extends
  <2>2. U \in Seq([version : Versions, height : Nat, threshold : 0..100])
    BY ZenonT(60) DEF IsTable
  <2>3. \A n \in 1..Len(T) : SubSeq(U, 1, Len(T))[n] = U[n]
    BY <1>1, <2>2, ElementOfSeq, SubSeqProperties
  <2> QED BY <2>1, <2>3, Zenon
<1>3. /\ i \in 1..Len(U)
      /\ i = 1 \/ h >= U[i].height
      /\ \A m \in (i + 1)..Len(U) : h < U[m].height
  BY IdealIndexProps, ZenonT(60)
<1> HIDE DEF i
<1>4. i \in 1..Len(T)
  BY <1>1, <1>3 DEF i
<1>5. i = 1 \/ h >= T[i].height
  BY <1>2, <1>3, <1>4, Zenon
<1>6. \A m \in (i + 1)..Len(T) : h < T[m].height
  BY <1>1, <1>2, <1>3, <1>4
<1>7. i = IdealIndex(T, h)
  BY <1>4, <1>5, <1>6, IdealIndexUnique, Zenon
<1> QED BY <1>2, <1>4, <1>7, Zenon DEF i, get_ideal_version

(* If the block on top of the first n keeps its place under the longer table
   then the longer table agrees with the shorter one on all n heights.     *)
LEMMA KeptAgree ==
  ASSUME heights \in Tables, NEW c, NEW rows, DbOk(heights, c, rows),
         NEW T, IsTable(T), Extends(heights, T),
         NEW n \in 1..Len(c), KeepsTop(T, c, n),
         NEW h \in 0..(n - 1)
  PROVE  /\ IdealIndex(T, h) = IdealIndex(heights, h)
         /\ get_ideal_version(T, h) = get_ideal_version(heights, h)
<1> DEFINE i == IdealIndex(T, n - 1)
           j == IdealIndex(heights, n - 1)
<1>1. /\ IsTable(heights) /\ Len(c) \in Nat
      /\ n - 1 \in Nat /\ h \in Nat /\ h <= n - 1
  BY TablesAssumption, DbFacts
<1>2. /\ Len(T) \in Nat /\ Len(heights) \in Nat \ {0} /\ Len(heights) <= Len(T)
  BY <1>1, TableFacts, Zenon DEF Extends
<1>3. i \in 1..Len(T) /\ j \in 1..Len(heights)
  BY <1>1, IdealIndexProps, Zenon
<1>4. \A k \in 1..Len(heights) : heights[k] = T[k]
  <2>1. SubSeq(T, 1, Len(heights)) = heights
    BY Zenon DEF Extends
  <2>2. T \in Seq([version : Versions, height : Nat, threshold : 0..100])
    BY Zenon DEF IsTable
  <2>3. \A k \in 1..Len(heights) : SubSeq(T, 1, Len(heights))[k] = T[k]
    BY <1>2, <2>2, ElementOfSeq, SubSeqProperties
  <2> QED BY <2>1, <2>3, Zenon
<1>5. i <= Len(heights)
  <2>1. CASE T[i].version <= 1
    <3>1. T[1].version = 1 /\ T[i].version \in Versions /\ 1 \in 1..Len(T)
      BY <1>2, <1>3, TableFacts
    <3>2. T[i].version = T[1].version
      <4>1. T[i].version \in Nat \ {0}
        BY <3>1, BoundsAssumption, Zenon
      <4> HIDE DEF i
      <4> QED BY <2>1, <3>1, <4>1, SMT
    <3>3. i = 1
      BY <1>3, <3>1, <3>2, VersionInjective, ZenonT(60)
    <3> QED BY <1>2, <3>3
  <2>2. CASE T[i].version = c[n].major
    <3>1. c[n].major = heights[j].version
      <4>1. n - 1 \in 0..(Len(c) - 1) /\ (n - 1) + 1 = n
        BY <1>1
      <4> QED BY <4>1, Zenon DEF DbOk, Follows, get_ideal_version
    <3>2. j \in 1..Len(T) /\ T[i].version = T[j].version
      BY <1>2, <1>3, <1>4, <2>2, <3>1
    <3>3. i = j
      BY <1>3, <3>2, VersionInjective, Zenon
    <3> QED BY <1>2, <1>3, <3>3
  <2> QED BY <2>1, <2>2, Zenon DEF KeepsTop, get_ideal_version
<1>6. IdealIndex(T, h) <= Len(heights)
  <2>1. IdealIndex(T, h) <= i
    BY <1>1, IdealIndexMonotone, Zenon
  <2>2. IdealIndex(T, h) \in 1..Len(T)
    BY <1>1, IdealIndexProps, Zenon
  <2> QED BY <1>2, <1>3, <1>5, <2>1, <2>2
<1> QED BY <1>1, <1>6, IdealOfExtension, Zenon

(* Start-up popping always stops, at the latest at the genesis block.      *)
LEMMA InitialPopProps ==
  ASSUME NEW c, NEW rows, DbOk(heights, c, rows), Len(c) > 0, NEW T, IsTable(T)
  PROVE  /\ InitialPop(T, c) \in 1..Len(c)
         /\ KeepsTop(T, c, InitialPop(T, c))
<1> DEFINE S == {n \in 1..Len(c) : KeepsTop(T, c, n)}
<1>1. Len(c) \in Nat
  BY DbFacts, Zenon
<1>2. KeepsTop(T, c, 1)
  BY IdealIndexGenesis, TableFacts DEF KeepsTop, get_ideal_version
<1>3. 1 \in S
  BY <1>1, <1>2
<1>4. PICK n \in S : \A k \in S : k <= n
  <2> HIDE DEF S
  <2>1. S \in SUBSET (1..Len(c))
    BY Zenon DEF S
  <2> QED BY <1>1, <1>3, <2>1, MaxExists, Zenon
<1>5. \E x \in 1..Len(c) :
        /\ KeepsTop(T, c, x)
        /\ \A m \in (x + 1)..Len(c) : ~KeepsTop(T, c, m)
  BY <1>1, <1>4
<1> QED BY <1>5, Zenon DEF InitialPop

(* rescan_from_block_height finds the scheduled index when the top block
   keeps its place.                                                        *)
LEMMA RescanIndexProps ==
  ASSUME heights \in Tables, NEW c, NEW rows, DbOk(heights, c, rows),
         Len(c) > 0, NEW T \in Tables, Extends(heights, T),
         \A n \in 1..Len(T) : T[n].threshold = 0, NEW counts
  PROVE  /\ RescanIndex(T, c, rows, counts) \in 1..Len(T)
         /\ KeepsTop(T, c, Len(c)) =>
              RescanIndex(T, c, rows, counts) = IdealIndex(T, Len(c))
<1> DEFINE N == Len(c)
           lastv == rows[N]
           found == {n \in 1..Len(T) : T[n].version = lastv}
           cfi == IF found = {} THEN Len(T) ELSE CHOOSE n \in found : TRUE
<1>1. /\ IsTable(T) /\ N \in Nat \ {0} /\ Len(T) \in Nat \ {0}
      /\ \A n \in 1..Len(T) : T[n].threshold = 0
  BY TablesAssumption, DbFacts, TableFacts
<1>2. RescanIndex(T, c, rows, counts) = Bump(T, counts, cfi, N)
  BY Zenon DEF RescanIndex
<1>3. cfi \in 1..Len(T)
  BY <1>1
<1>4. IdealIndex(T, N) \in 1..Len(T)
  BY <1>1, IdealIndexProps, Zenon
<1>5. get_voted_fork_index(T, counts, cfi, N) = IdealIndex(T, N)
  <2> HIDE DEF cfi, N
  <2> QED BY <1>1, VotedIsIdeal, Zenon
<1>6. Bump(T, counts, cfi, N) \in 1..Len(T)
  <2> HIDE DEF cfi, N
  <2> QED BY <1>1, <1>3, <1>4, <1>5, Zenon DEF Bump
<1>7. ASSUME KeepsTop(T, c, N)
      PROVE  Bump(T, counts, cfi, N) = IdealIndex(T, N)
  <2> DEFINE i == IdealIndex(T, N - 1)
  <2>1. N - 1 \in 0..(N - 1) /\ (N - 1) + 1 = N /\ N \in 1..Len(c) /\ N - 1 \in Nat
    BY <1>1
  <2>2. get_ideal_version(T, N - 1) = get_ideal_version(heights, N - 1)
    <3> HIDE DEF N
    <3> QED BY <1>1, <1>7, <2>1, KeptAgree, Zenon
  <2>3. lastv = get_ideal_version(heights, N - 1)
    BY <2>1, Zenon DEF DbOk, Follows
  <2>4. i \in 1..Len(T) /\ T[i].version = lastv
    BY <1>1, <2>1, <2>2, <2>3, IdealIndexProps, Zenon DEF get_ideal_version
  <2>5. i \in found
    BY <2>4, Zenon
  <2>6. cfi \in found
    BY <2>5, Zenon
  <2>7. cfi = i
    <3> HIDE DEF cfi, i
    <3> QED BY <1>1, <2>4, <2>6, VersionInjective
  <2>8. i <= IdealIndex(T, N)
    BY <1>1, <2>1, IdealIndexMonotone
  <2> HIDE DEF cfi, i, N
  <2> QED BY <1>1, <1>3, <2>7, <2>8, BumpIsIdeal
<1> QED BY <1>2, <1>6, <1>7

(* Start-up, into a longer table or not, leads back onto the schedule.  *)
LEMMA RestartSchedule ==
  ASSUME ScheduleInv, NEW T \in Tables, Extends(heights, T), init(T),
         \A n \in 1..Len(T) : T[n].threshold = 0
  PROVE  ScheduleInv'
<1> DEFINE c == Disk.chain
           rows == Disk.rows
           n == InitialPop(T, c)
           start == IF n = 1 THEN OriginalVersion ELSE rows[n]
           i == IdealIndex(T, n - 1)
<1>0. heights \in Tables /\ DbOk(heights, c, rows)
  BY DiskOk, Zenon DEF ScheduleInv
<1>1. /\ Len(c) > 0 /\ heights' = T /\ chain' = SubSeq(c, 1, n)
      /\ scan' = n /\ hf_versions' = rows /\ saved' = {}
  <2>1. c # <<>> /\ c \in Seq(Block)
    BY <1>0, Zenon DEF init, DbOk
  <2>2. Len(c) > 0
    <3> HIDE DEF c
    <3> QED BY <2>1, EmptySeq, LenProperties
  <2> QED BY <2>2, Zenon DEF init
<1>2. PICK counts, counts2 :
        current_fork_index' =
          IF n = Len(c) THEN RescanIndex(T, c, rows, counts)
          ELSE Bump(T, counts2,
                    StepDown(T, RescanIndex(T, c, rows, counts), start), n)
  BY Zenon DEF init
<1> HIDE DEF c, rows
<1>3. /\ IsTable(T) /\ Len(T) \in Nat \ {0} /\ Len(c) \in Nat
      /\ \A k \in 1..Len(T) : T[k].threshold = 0
      /\ \A k \in 1..Len(c) : c[k] \in Block
  BY <1>0, TablesAssumption, DbFacts, TableFacts, Zenon
<1>4. n \in 1..Len(c) /\ KeepsTop(T, c, n)
  BY <1>0, <1>1, <1>3, InitialPopProps, ZenonT(60)
<1>5. \A h \in 0..(n - 1) : get_ideal_version(T, h) = get_ideal_version(heights, h)
  BY <1>0, <1>3, <1>4, KeptAgree, ZenonT(60)
<1> HIDE DEF n
<1>6. n \in Nat \ {0} /\ n - 1 \in Nat /\ n - 1 \in 0..(n - 1) /\ (n - 1) + 1 = n
  BY <1>3, <1>4
<1>7. /\ chain' \in Seq(Block) /\ Len(chain') = n
      /\ \A k \in 1..n : chain'[k] = c[k]
  BY <1>1, <1>3, <1>4, <1>6, SubSeqProperties
<1>8. Follows(T, chain', rows)
  <2> SUFFICES ASSUME NEW h \in 0..(n - 1)
               PROVE  /\ chain'[h + 1].major = get_ideal_version(T, h)
                      /\ chain'[h + 1].vote >= chain'[h + 1].major
                      /\ rows[h + 1] = get_ideal_version(T, h)
    BY <1>7, Zenon DEF Follows
  <2>1. h \in 0..(Len(c) - 1) /\ chain'[h + 1] = c[h + 1]
    BY <1>3, <1>4, <1>6, <1>7
  <2> QED BY <1>0, <1>5, <2>1, Zenon DEF DbOk, Follows
<1>9. i \in 1..Len(T) /\ start = T[i].version
  <2>1. CASE n = 1
    BY <1>3, <2>1, IdealIndexGenesis, TableFacts DEF OriginalVersion
  <2>2. CASE n # 1
    <3>1. rows[n] = get_ideal_version(T, n - 1)
      BY <1>6, <1>7, <1>8, Zenon DEF Follows
    <3> QED BY <1>3, <1>6, <2>2, <3>1, IdealIndexProps DEF get_ideal_version
  <2> QED BY <2>1, <2>2, ZenonT(60)
<1>10. current_fork_index' = IdealIndex(T, n)
  <2> DEFINE cfi == RescanIndex(T, c, rows, counts)
             sd == StepDown(T, cfi, start)
  <2>1. /\ cfi \in 1..Len(T)
        /\ KeepsTop(T, c, Len(c)) => cfi = IdealIndex(T, Len(c))
    BY <1>0, <1>1, <1>3, RescanIndexProps, ZenonT(60)
  <2> HIDE DEF cfi, start, i
  <2>2. CASE n = Len(c)
    BY <1>2, <1>4, <2>1, <2>2 DEF cfi
  <2>3. CASE n # Len(c)
    <3>1. sd \in 1..cfi /\ sd <= i
      BY <1>3, <1>9, <2>1, StepDownBelow
    <3>2. i <= IdealIndex(T, n)
      BY <1>3, <1>6, IdealIndexMonotone DEF i
    <3>3. IdealIndex(T, n) \in 1..Len(T)
      BY <1>3, <1>6, IdealIndexProps, Zenon
    <3> HIDE DEF sd
    <3>4. sd \in Int /\ sd <= IdealIndex(T, n)
      BY <1>3, <1>9, <2>1, <3>1, <3>2, <3>3
    <3> QED BY <1>2, <1>3, <1>6, <2>3, <3>4, BumpIsIdeal DEF cfi, sd
  <2> QED BY <2>2, <2>3, Zenon
<1>11. Len(rows) \in Nat /\ Len(rows) >= n
  <2>1. Len(rows) \in Nat /\ Len(rows) >= Len(c)
    BY <1>0, DbFacts, Zenon
  <2> QED BY <1>3, <1>4, <2>1, SMT
<1>12. DbOk(heights', chain', hf_versions')
  BY <1>0, <1>1, <1>7, <1>8, <1>11, Zenon DEF DbOk
<1>13. scan' \in 0..Len(chain') /\ scan' = Len(chain')
  BY <1>1, <1>6, <1>7, SMT
<1>14. current_fork_index' \in 1..Len(heights')
  BY <1>1, <1>3, <1>6, <1>10, IdealIndexProps, Zenon
<1> QED BY <1>1, <1>10, <1>12, <1>13, <1>14, Zenon DEF ScheduleInv

-----------------------------------------------------------------------------
(* Only a restart changes the table, and it keeps the entries there were: a
   table without thresholds was preceded by one without.                   *)
LEMMA ScheduledBefore ==
  ASSUME heights \in Tables, [Next]_vars, Scheduled'
  PROVE  Scheduled
<1>1. ASSUME NEW T \in Tables, Extends(heights, T), heights' = T
      PROVE  Scheduled
  <2>1. IsTable(heights) /\ IsTable(T)
    BY TablesAssumption, Zenon
  <2>2. /\ Len(heights) \in Nat /\ Len(T) \in Nat /\ Len(heights) <= Len(T)
        /\ SubSeq(T, 1, Len(heights)) = heights
    BY <1>1, <2>1, TableFacts, Zenon DEF Extends
  <2>3. T \in Seq([version : Versions, height : Nat, threshold : 0..100])
    BY <2>1, Zenon DEF IsTable
  <2>4. \A n \in 1..Len(heights) : SubSeq(T, 1, Len(heights))[n] = T[n]
    BY <2>2, <2>3, ElementOfSeq, SubSeqProperties
  <2>5. \A n \in 1..Len(T) : T[n].threshold = 0
    BY <1>1, Zenon DEF Scheduled
  <2> QED BY <2>2, <2>4, <2>5 DEF Scheduled
<1>2. CASE heights' = heights
  BY <1>2, Zenon DEF Scheduled
<1>3. CASE Restart
  BY <1>1, <1>3, Zenon DEF Restart, init
<1>4. Restart \/ heights' = heights
  BY Zenon DEF Next, add, on_block_popped, reorganize_from_block_height, ReorganizeAdd,
       batch_stop, batch_abort, vars
<1> QED BY <1>2, <1>3, <1>4, Zenon

(* The table in use is always one of the tables.  *)
LEMMA TableKept ==
  ASSUME heights \in Tables, [Next]_vars
  PROVE  heights' \in Tables
BY Zenon DEF Next, add, on_block_popped, reorganize_from_block_height, ReorganizeAdd,
       batch_stop, batch_abort, Restart, init, vars

(* No step takes back that a block of the wrong version was let in.  *)
LEMMA MisledBefore ==
  ASSUME [Next]_vars, ~misled'
  PROVE  ~misled
BY Zenon DEF Next, add, on_block_popped, reorganize_from_block_height, ReorganizeAdd,
       batch_stop, batch_abort, Restart, init, vars

(* The empty database is on every schedule.  *)
LEMMA ScheduleInvInit ==
  ASSUME Init
  PROVE  ScheduleInv
<1>1. IsTable(heights)
  BY TablesAssumption, Zenon DEF Init
<1>2. /\ chain = <<>> /\ hf_versions = <<>> /\ saved = {} /\ scan = 0
      /\ current_fork_index = 1 /\ heights \in Tables
  BY Zenon DEF Init
<1>3. IdealIndex(heights, 0) = 1 /\ 1 \in 1..Len(heights)
  BY <1>1, IdealIndexGenesis, TableFacts
<1>4. DbOk(heights, chain, hf_versions) /\ Len(chain) = 0
  BY <1>2, EmptySeq DEF DbOk, Follows
<1> QED BY <1>2, <1>3, <1>4 DEF ScheduleInv

(* Every step keeps the schedule.  *)
LEMMA ScheduleInvStep ==
  ASSUME Scheduled, Scheduled', ~misled', ScheduleInv, [Next]_vars
  PROVE  ScheduleInv'
<1>0. GenesisBlock \in Block
  <2>1. IsTable(heights)
    BY InvFacts, Zenon
  <2>2. 1 \in 1..Len(heights) /\ heights[1].version = 1 /\ heights[1].version \in Versions
    BY <2>1, TableFacts
  <2> QED BY <2>2 DEF GenesisBlock, Block
<1>1. ASSUME NEW b \in IF chain = <<>> THEN {GenesisBlock} ELSE Block, add(b)
      PROVE  ScheduleInv'
  <2>1. b \in Block
    BY <1>0, Zenon
  <2> QED BY <1>1, <2>1, AddSchedule, Zenon
<1>2. CASE on_block_popped
  BY <1>2, PopSchedule, Zenon
<1>3. ASSUME NEW height \in 0..MaxHeight, reorganize_from_block_height(height)
      PROVE  ScheduleInv'
  BY <1>3, ReorganizeSchedule, Zenon
<1>4. CASE ReorganizeAdd
  BY <1>4, ReorganizeAddSchedule, Zenon
<1>5. ASSUME NEW T \in Tables, Extends(heights, T), init(T) PROVE ScheduleInv'
  <2>1. \A n \in 1..Len(T) : T[n].threshold = 0
    BY <1>5, Zenon DEF init, Scheduled
  <2> QED BY <1>5, <2>1, RestartSchedule, Zenon
<1>6. CASE batch_stop \/ batch_abort
  BY <1>6, BatchSchedule, Zenon
<1>7. CASE UNCHANGED vars
  BY <1>7, Zenon DEF vars, ScheduleInv, DbOk, Follows
<1> QED BY <1>1, <1>2, <1>3, <1>4, <1>5, <1>6, <1>7, Zenon DEF Next, Restart

(* For every set of fork tables, every window size and any interleaving of
   add, on_block_popped, reorganize_from_block_height, commits and aborts of
   the batch they run in, crashes and restarts into longer tables: as long
   as the table in use has no voting thresholds (none that
   hardforks/hardforks.cpp deploys has), blocks and rows follow the schedule
   in the batch and on disk, and so does the fork in force, except from an
   aborted batch to the next pop, reorganisation or restart; until a block
   of another version is let in while that lasts.                          *)
THEOREM ScheduleSafety == Spec => []VersionFollowsSchedule
<1> DEFINE Inv == heights \in Tables /\ (Scheduled /\ ~misled => ScheduleInv)
<1>1. Init => Inv
  BY ScheduleInvInit, Zenon DEF Init
<1>2. Inv /\ [Next]_vars => Inv'
  BY TableKept, ScheduledBefore, MisledBefore, ScheduleInvStep, Zenon
<1>3. Inv => VersionFollowsSchedule
  <2> SUFFICES ASSUME ScheduleInv PROVE VersionFollowsSchedule
    BY Zenon DEF VersionFollowsSchedule
  <2>1. DbOk(heights, Disk.chain, Disk.rows)
    BY DiskOk, Zenon
  <2> QED BY <2>1, Zenon DEF ScheduleInv, DbOk, Follows, OnSchedule, VersionFollowsSchedule
<1> QED BY <1>1, <1>2, <1>3, PTL DEF Spec
=============================================================================
