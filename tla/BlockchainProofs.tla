-------------------------- MODULE BlockchainProofs --------------------------
(***************************************************************************)
(* Theorems about the main chain, for any tree of blocks, any transactions *)
(* and key images, any rule of difficulty and any tables of checkpoints.   *)
(***************************************************************************)
EXTENDS Blockchain, WellFoundedInduction, TLAPS

(* The lowest of a set of heights. *)
LEMMA LowestHeight ==
  ASSUME NEW S, S \subseteq Nat, S # {}
  PROVE  Min(S) \in S /\ \A y \in S : Min(S) <= y
<1>1. \E x \in S : \A y \in S : ~(<<y, x>> \in OpToRel(<, Nat))
  BY NatLessThanWellFounded, WFMin, Zenon
<1>2. \E x \in S : \A y \in S : x <= y
  <2>1. PICK x \in S : \A y \in S : ~(<<y, x>> \in OpToRel(<, Nat))
    BY <1>1, Zenon
  <2>2. ASSUME NEW y \in S PROVE x <= y
    <3>1. ~(y < x)
      BY <2>1, Zenon DEF OpToRel
    <3> QED BY <3>1
  <2> QED BY <2>2
<1> QED BY <1>2, Zenon DEF Min

(* The highest of a set of heights up to n. *)
LEMMA HighestHeight ==
  ASSUME NEW n \in Nat, NEW S, S \subseteq 1..n, S # {}
  PROVE  Max(S) \in S
<1> DEFINE R == {n - x : x \in S}
<1>1. R \subseteq Nat /\ R # {}
  <2>1. ASSUME NEW x \in S PROVE n - x \in Nat
    <3>1. x \in 1..n
      BY Zenon
    <3> QED BY <3>1
  <2> QED BY <2>1, Zenon
<1>2. Min(R) \in R /\ \A y \in R : Min(R) <= y
  <2> HIDE DEF R
  <2> QED BY <1>1, LowestHeight, Zenon
<1>3. PICK x \in S : Min(R) = n - x
  BY <1>2, Zenon
<1>4. \A y \in S : n - x <= n - y
  BY <1>2, <1>3, Zenon
<1>5. \A y \in S : x >= y
  <2> HIDE DEF R
  <2> QED BY <1>4
<1> QED BY <1>5, Zenon DEF Max

-----------------------------------------------------------------------------
(* A sequence, whatever its elements are.                                   *)
IsSeq(s) == s \in Seq({s[i] : i \in DOMAIN s})

(* The elements of a sequence over any set make it a sequence. *)
LEMMA SeqIsSeq ==
  ASSUME NEW S, NEW s \in Seq(S)
  PROVE  IsSeq(s) /\ Len(s) \in Nat /\ DOMAIN s = 1..Len(s)
<1>1. Len(s) \in Nat /\ DOMAIN s = 1..Len(s) /\ s \in [1..Len(s) -> S]
  OBVIOUS
<1> DEFINE T == {s[i] : i \in DOMAIN s}
<1>2. s \in [1..Len(s) -> T]
  BY <1>1, Zenon
<1>3. s \in Seq(T)
  <2> HIDE DEF T
  <2> QED BY <1>1, <1>2, SMT
<1> QED BY <1>1, <1>3, Zenon DEF IsSeq

(* What an element appended to a sequence gives. *)
LEMMA AppendSeq ==
  ASSUME NEW s, IsSeq(s), NEW e
  PROVE  /\ IsSeq(Append(s, e)) /\ Len(Append(s, e)) = Len(s) + 1 /\ Len(s) \in Nat
         /\ Append(s, e)[Len(s) + 1] = e
         /\ \A i \in 1..Len(s) : Append(s, e)[i] = s[i]
<1> DEFINE E == {s[i] : i \in DOMAIN s} \cup {e}
<1>1. s \in Seq(E)
  BY DEF IsSeq
<1>2. e \in E
  OBVIOUS
<1> HIDE DEF E
<1>3. Append(s, e) \in Seq(E)
  BY <1>1, <1>2
<1>4. IsSeq(Append(s, e))
  BY <1>3, SeqIsSeq, Zenon
<1>5. /\ Len(Append(s, e)) = Len(s) + 1 /\ Len(s) \in Nat
      /\ Append(s, e)[Len(s) + 1] = e
      /\ \A i \in 1..Len(s) : Append(s, e)[i] = s[i]
  BY <1>1, <1>2
<1> QED BY <1>4, <1>5, Zenon

(* What the first elements of a sequence are. *)
LEMMA PrefixSeq ==
  ASSUME NEW s, IsSeq(s), NEW n \in 0..Len(s)
  PROVE  /\ IsSeq(SubSeq(s, 1, n)) /\ Len(SubSeq(s, 1, n)) = n
         /\ \A i \in 1..n : SubSeq(s, 1, n)[i] = s[i]
<1> DEFINE E == {s[i] : i \in DOMAIN s}
<1>1. s \in Seq(E)
  BY DEF IsSeq
<1> HIDE DEF E
<1>2. SubSeq(s, 1, n) \in Seq(E)
  BY <1>1
<1>3. IsSeq(SubSeq(s, 1, n))
  BY <1>2, SeqIsSeq, Zenon
<1>4. Len(SubSeq(s, 1, n)) = n /\ \A i \in 1..n : SubSeq(s, 1, n)[i] = s[i]
  BY <1>1
<1> QED BY <1>3, <1>4, Zenon

(* Front leaves the last element out. *)
LEMMA FrontSeq ==
  ASSUME NEW s, IsSeq(s), s # <<>>
  PROVE  /\ Len(s) \in Nat \ {0} /\ IsSeq(Front(s)) /\ Len(Front(s)) = Len(s) - 1
         /\ Front(s) = SubSeq(s, 1, Len(s) - 1)
         /\ \A i \in 1..(Len(s) - 1) : Front(s)[i] = s[i]
<1> DEFINE E == {s[i] : i \in DOMAIN s}
<1>1. s \in Seq(E)
  BY Zenon DEF IsSeq
<1> HIDE DEF E
<1>2. Len(s) \in Nat \ {0}
  BY <1>1
<1>3. Len(s) - 1 \in 0..Len(s)
  BY <1>2
<1> QED BY <1>2, <1>3, PrefixSeq, Zenon DEF Front

-----------------------------------------------------------------------------
(* The blocks of a chain, and the transactions and key images in them.      *)
IdsOf(blocks) == {blocks[i].id : i \in 1..Len(blocks)}
MinedIn(d) == d.stray \cup UNION {TxSet(b) : b \in IdsOf(d.blocks) \ {Genesis}}

(* A branch of the tree of blocks, from genesis on. *)
ChainOk(blocks) ==
  /\ IsSeq(blocks) /\ Len(blocks) \in Nat \ {0}
  /\ blocks[1].id = Genesis
  /\ \A i \in 1..Len(blocks) :
       /\ blocks[i].id \in Ids
       /\ i # 1 => blocks[i].id \in Blocks
       /\ PathTo[blocks[i].id] = [j \in 1..(i - 1) |-> blocks[j + 1].id]

(* Nothing is mined or spent twice and nothing mined is in the pool. *)
Clean(d) ==
  /\ d.stray = {}
  /\ \A b, c \in IdsOf(d.blocks) \ {Genesis} : b # c =>
       /\ TxSet(b) \cap TxSet(c) = {}
       /\ SpentIn(TxSet(b)) \cap SpentIn(TxSet(c)) = {}
  /\ MinedIn(d) \cap d.txpool = {}

(* No block contradicts a checkpoint that has blocks below it. *)
PointsOk(blocks, points) ==
  \A h \in DOMAIN points : 1 < h /\ h < Len(blocks) => blocks[h + 1].id = points[h]

(* A chain has no block twice: the way to a block is as long as the block is
   high.                                                                    *)
LEMMA ChainDistinct ==
  ASSUME NEW blocks, ChainOk(blocks), NEW i \in 1..Len(blocks), NEW j \in 1..Len(blocks),
         blocks[i].id = blocks[j].id
  PROVE  i = j
<1>1. DOMAIN PathTo[blocks[i].id] = 1..(i - 1)
  BY ZenonT(60) DEF ChainOk
<1>2. DOMAIN PathTo[blocks[j].id] = 1..(j - 1)
  BY ZenonT(60) DEF ChainOk
<1>3. 1..(i - 1) = 1..(j - 1)
  BY <1>1, <1>2, Zenon
<1>4. Len(blocks) \in Nat
  BY Zenon DEF ChainOk
<1>5. i \in Nat \ {0} /\ j \in Nat \ {0}
  BY <1>4
<1> QED BY <1>3, <1>5

(* A block on top of the last one makes a longer branch. *)
LEMMA ChainAppend ==
  ASSUME NEW blocks, ChainOk(blocks), NEW e, e.id \in Blocks,
         Prev[e.id] = blocks[Len(blocks)].id
  PROVE  ChainOk(Append(blocks, e))
<1> DEFINE n == Len(blocks)  longer == Append(blocks, e)
<1>1. IsSeq(blocks) /\ n \in Nat \ {0} /\ blocks[1].id = Genesis
  BY Zenon DEF ChainOk
<1>2. /\ IsSeq(longer) /\ Len(longer) = n + 1 /\ longer[n + 1] = e
      /\ \A i \in 1..n : longer[i] = blocks[i]
  BY <1>1, AppendSeq
<1> HIDE DEF longer
<1>3. PathTo[e.id] = [j \in 1..n |-> longer[j + 1].id]
  <2>1. PathTo[blocks[n].id] = [j \in 1..(n - 1) |-> blocks[j + 1].id]
    <3>1. n \in 1..n
      BY <1>1
    <3> QED BY <3>1, Zenon DEF ChainOk
  <2>2. PathTo[e.id] = Append(PathTo[blocks[n].id], e.id) /\ PathTo[e.id] \in Seq(Blocks)
    BY TreeAssumption, Zenon
  <2>3. PathTo[blocks[n].id] \in Seq(Ids)
    <3>1. ASSUME NEW j \in 1..(n - 1) PROVE blocks[j + 1].id \in Ids
      <4>1. j + 1 \in 1..n
        BY <1>1
      <4> QED BY <4>1, Zenon DEF ChainOk
    <3> QED BY <2>1, <3>1, <1>1
  <2>4. Len(PathTo[blocks[n].id]) = n - 1
    BY <2>1, <2>3, <1>1
  <2> DEFINE p == PathTo[blocks[n].id]
  <2>5. /\ Len(PathTo[e.id]) = Len(p) + 1 /\ PathTo[e.id][Len(p) + 1] = e.id
        /\ \A i \in 1..Len(p) : PathTo[e.id][i] = p[i]
    <3>1. IsSeq(p)
      BY <2>3, SeqIsSeq, Zenon
    <3> HIDE DEF p
    <3>2. LET q == Append(p, e.id)
          IN  Len(q) = Len(p) + 1 /\ q[Len(p) + 1] = e.id /\ \A i \in 1..Len(p) : q[i] = p[i]
      BY <3>1, AppendSeq, Zenon
    <3>3. PathTo[e.id] = Append(p, e.id)
      BY <2>2, Zenon DEF p
    <3> QED BY <3>2, <3>3, Zenon
  <2>6. (n - 1) + 1 = n
    BY <1>1, SMT
  <2>7. Len(PathTo[e.id]) = n
    BY <2>4, <2>5, <2>6, Zenon
  <2>8. ASSUME NEW j \in 1..n PROVE PathTo[e.id][j] = longer[j + 1].id
    <3>1. CASE j = n
      BY <3>1, <2>4, <2>5, <2>6, <1>2, Zenon
    <3>2. CASE j # n
      <4>1. j \in 1..(n - 1) /\ j + 1 \in 1..n
        BY <3>2, <1>1
      <4>2. PathTo[e.id][j] = PathTo[blocks[n].id][j]
        BY <4>1, <2>4, <2>5, Zenon
      <4> QED BY <4>1, <4>2, <2>1, <1>2, ZenonT(60)
    <3> QED BY <3>1, <3>2, ZenonT(60)
  <2>9. PathTo[e.id] \in [1..Len(PathTo[e.id]) -> Blocks]
    <3> DEFINE q == PathTo[e.id]
    <3> HIDE DEF q
    <3>1. q \in Seq(Blocks) => q \in [1..Len(q) -> Blocks]
      BY SMT
    <3> QED BY <2>2, <3>1, Zenon DEF q
  <2> QED BY <2>7, <2>8, <2>9, ZenonT(60)
<1>4. ASSUME NEW i \in 1..Len(longer)
      PROVE  /\ longer[i].id \in Ids
             /\ i # 1 => longer[i].id \in Blocks
             /\ PathTo[longer[i].id] = [j \in 1..(i - 1) |-> longer[j + 1].id]
  <2>1. CASE i = n + 1
    <3>1. PathTo[longer[i].id] = [j \in 1..n |-> longer[j + 1].id] /\ i - 1 = n
      BY <2>1, <1>1, <1>2, <1>3
    <3>2. longer[i].id \in Ids /\ longer[i].id \in Blocks
      BY <2>1, <1>2, Zenon DEF Ids
    <3> QED BY <3>1, <3>2, Zenon
  <2>2. CASE i # n + 1
    <3>1. i \in 1..n
      BY <2>2, <1>1, <1>2
    <3>2. \A j \in 1..(i - 1) : longer[j + 1] = blocks[j + 1]
      BY <3>1, <1>1, <1>2
    <3>3. /\ blocks[i].id \in Ids
          /\ i # 1 => blocks[i].id \in Blocks
          /\ PathTo[blocks[i].id] = [j \in 1..(i - 1) |-> blocks[j + 1].id]
      BY <3>1, Zenon DEF ChainOk
    <3> QED BY <3>1, <3>2, <3>3, <1>2, Zenon
  <2> QED BY <2>1, <2>2, Zenon
<1>5. longer[1].id = Genesis /\ Len(longer) \in Nat \ {0}
  BY <1>1, <1>2
<1> QED BY <1>2, <1>4, <1>5, Zenon DEF ChainOk, longer

(* The lowest blocks of a branch are a branch. *)
LEMMA ChainPrefix ==
  ASSUME NEW blocks, ChainOk(blocks), NEW n \in 1..Len(blocks)
  PROVE  ChainOk(SubSeq(blocks, 1, n))
<1> DEFINE low == SubSeq(blocks, 1, n)
<1>1. IsSeq(blocks) /\ Len(blocks) \in Nat \ {0} /\ blocks[1].id = Genesis
  BY Zenon DEF ChainOk
<1>2. n \in 0..Len(blocks) /\ n \in Nat \ {0}
  BY <1>1
<1>3. IsSeq(low) /\ Len(low) = n /\ \A i \in 1..n : low[i] = blocks[i]
  BY <1>1, <1>2, PrefixSeq, Zenon
<1> HIDE DEF low
<1>4. ASSUME NEW i \in 1..n
      PROVE  /\ low[i].id \in Ids
             /\ i # 1 => low[i].id \in Blocks
             /\ PathTo[low[i].id] = [j \in 1..(i - 1) |-> low[j + 1].id]
  <2>1. i \in 1..Len(blocks)
    BY <1>1, <1>2
  <2>2. \A j \in 1..(i - 1) : low[j + 1] = blocks[j + 1]
    BY <1>2, <1>3
  <2>3. /\ blocks[i].id \in Ids
        /\ i # 1 => blocks[i].id \in Blocks
        /\ PathTo[blocks[i].id] = [j \in 1..(i - 1) |-> blocks[j + 1].id]
    BY <2>1, Zenon DEF ChainOk
  <2> QED BY <2>2, <2>3, <1>3, Zenon
<1>5. low[1].id = Genesis
  BY <1>1, <1>2, <1>3
<1> QED BY <1>2, <1>3, <1>4, <1>5, Zenon DEF ChainOk, low

-----------------------------------------------------------------------------
(* Transactions that are neither mined nor spend what is spent can be mined,
   when they leave the pool.                                                *)
LEMMA CleanStore ==
  ASSUME NEW d, NEW e, NEW b \in Blocks, IsSeq(d.blocks), Clean(d), NEW f,
         f.id = b,
         e.blocks = Append(d.blocks, f), e.txpool = d.txpool \ TxSet(b), e.stray = d.stray,
         \A t \in TxSet(b) : t \notin MinedIn(d) /\ Spends[t] \cap SpentIn(MinedIn(d)) = {}
  PROVE  Clean(e)
<1>1. IdsOf(e.blocks) = IdsOf(d.blocks) \cup {b}
  <2>1. /\ Len(e.blocks) = Len(d.blocks) + 1 /\ Len(d.blocks) \in Nat
        /\ e.blocks[Len(d.blocks) + 1] = f
        /\ \A i \in 1..Len(d.blocks) : e.blocks[i] = d.blocks[i]
    BY AppendSeq
  <2>2. 1..Len(e.blocks) = 1..Len(d.blocks) \cup {Len(d.blocks) + 1}
    BY <2>1
  <2>3. IdsOf(e.blocks) \subseteq IdsOf(d.blocks) \cup {b}
    BY <2>1, <2>2, Zenon DEF IdsOf
  <2>4. IdsOf(d.blocks) \cup {b} \subseteq IdsOf(e.blocks)
    BY <2>1, <2>2, ZenonT(60) DEF IdsOf
  <2> QED BY <2>3, <2>4, Zenon
<1>2. b # Genesis
  BY TreeAssumption, Zenon
<1>3. MinedIn(e) = MinedIn(d) \cup TxSet(b)
  BY <1>1, <1>2 DEF MinedIn
<1>4. \A c \in IdsOf(d.blocks) \ {Genesis} :
        TxSet(c) \subseteq MinedIn(d) /\ SpentIn(TxSet(c)) \subseteq SpentIn(MinedIn(d))
  <2>1. \A c \in IdsOf(d.blocks) \ {Genesis} : TxSet(c) \subseteq MinedIn(d)
    BY Zenon DEF MinedIn
  <2> QED BY <2>1, ZenonT(60) DEF SpentIn
<1>5. \A c \in IdsOf(d.blocks) \ {Genesis} :
        TxSet(b) \cap TxSet(c) = {} /\ SpentIn(TxSet(b)) \cap SpentIn(TxSet(c)) = {}
  <2>1. TxSet(b) \cap MinedIn(d) = {}
    BY Zenon
  <2>2. SpentIn(TxSet(b)) \cap SpentIn(MinedIn(d)) = {}
    <3>1. ASSUME NEW k \in SpentIn(TxSet(b)), k \in SpentIn(MinedIn(d)) PROVE FALSE
      <4>1. PICK t \in TxSet(b) : k \in Spends[t]
        BY ZenonT(60) DEF SpentIn
      <4> QED BY <3>1, <4>1, Zenon
    <3> QED BY <3>1, Zenon
  <2> QED BY <2>1, <2>2, <1>4, Zenon
<1>6. ASSUME NEW x \in IdsOf(e.blocks) \ {Genesis}, NEW y \in IdsOf(e.blocks) \ {Genesis}, x # y
      PROVE  TxSet(x) \cap TxSet(y) = {} /\ SpentIn(TxSet(x)) \cap SpentIn(TxSet(y)) = {}
  <2>1. CASE x = b
    BY <2>1, <1>1, <1>5, <1>6, Zenon
  <2>2. CASE y = b
    <3>1. TxSet(b) \cap TxSet(x) = {} /\ SpentIn(TxSet(b)) \cap SpentIn(TxSet(x)) = {}
      BY <2>2, <1>1, <1>5, <1>6, Zenon
    <3> QED BY <2>2, <3>1, Zenon
  <2>3. CASE x # b /\ y # b
    BY <2>3, <1>1, <1>6, Zenon DEF Clean
  <2> QED BY <2>1, <2>2, <2>3, Zenon
<1>7. MinedIn(e) \cap e.txpool = {}
  BY <1>3, Zenon DEF Clean
<1> QED BY <1>6, <1>7, Zenon DEF Clean

(* Blocks are popped and their transactions, and no others that were mined,
   go to the pool.                                                          *)
LEMMA CleanPop ==
  ASSUME NEW d, NEW e, ChainOk(d.blocks), Clean(d), NEW n \in 1..Len(d.blocks),
         e.blocks = SubSeq(d.blocks, 1, n), e.stray = d.stray,
         \A t \in e.txpool :
           t \in d.txpool \/ \E i \in (n + 1)..Len(d.blocks) : t \in TxSet(d.blocks[i].id)
  PROVE  Clean(e)
<1>1. /\ IsSeq(d.blocks) /\ Len(d.blocks) \in Nat \ {0}
      /\ d.blocks[1].id = Genesis
      /\ \A i \in 1..Len(d.blocks) : i # 1 => d.blocks[i].id \in Blocks
  BY Zenon DEF ChainOk
<1>2. n \in 0..Len(d.blocks) /\ n \in Nat \ {0}
  BY <1>1
<1>3. Len(e.blocks) = n /\ \A i \in 1..n : e.blocks[i] = d.blocks[i]
  BY <1>1, <1>2, PrefixSeq
<1>4. 1..n \subseteq 1..Len(d.blocks)
  BY <1>1, <1>2
<1>5. IdsOf(e.blocks) \subseteq IdsOf(d.blocks)
  BY <1>3, <1>4, Zenon DEF IdsOf
<1>6. MinedIn(e) \subseteq MinedIn(d)
  BY <1>5, Zenon DEF MinedIn
<1>7. ASSUME NEW t \in MinedIn(e), t \in e.txpool PROVE FALSE
  <2>1. t \notin d.txpool
    BY <1>6, <1>7, Zenon DEF Clean
  <2>2. PICK i \in (n + 1)..Len(d.blocks) : t \in TxSet(d.blocks[i].id)
    BY <1>7, <2>1, Zenon
  <2>3. t \notin e.stray
    BY Zenon DEF Clean
  <2>4. PICK c \in IdsOf(e.blocks) \ {Genesis} : t \in TxSet(c)
    BY <1>7, <2>3, Zenon DEF MinedIn
  <2>5. PICK j \in 1..n : c = d.blocks[j].id
    BY <2>4, <1>3, ZenonT(60) DEF IdsOf
  <2>6. i \in 1..Len(d.blocks) /\ j \in 1..Len(d.blocks) /\ i # j /\ i # 1
    BY <1>1, <1>2, <2>2, <2>5
  <2>7. d.blocks[i].id # c
    BY <2>5, <2>6, ChainDistinct, Zenon
  <2>8. d.blocks[i].id \in IdsOf(d.blocks) \ {Genesis} /\ c \in IdsOf(d.blocks) \ {Genesis}
    BY <2>4, <2>6, <1>1, <1>5, TreeAssumption, Zenon DEF IdsOf
  <2> QED BY <2>2, <2>4, <2>7, <2>8, Zenon DEF Clean
<1> QED BY <1>5, <1>7, Zenon DEF Clean

(* A checkpoint is looked at when its block is added ... *)
LEMMA PointsAppend ==
  ASSUME NEW blocks, NEW e, NEW points, DOMAIN points \subseteq Nat, IsSeq(blocks),
         PointsOk(blocks, points), check_block(points, Len(blocks), e.id)
  PROVE  PointsOk(Append(blocks, e), points)
<1>1. /\ Len(Append(blocks, e)) = Len(blocks) + 1 /\ Len(blocks) \in Nat
      /\ Append(blocks, e)[Len(blocks) + 1] = e
      /\ \A i \in 1..Len(blocks) : Append(blocks, e)[i] = blocks[i]
  BY AppendSeq
<1> DEFINE longer == Append(blocks, e)
<1> HIDE DEF longer
<1>2. ASSUME NEW h \in DOMAIN points, 1 < h, h < Len(longer)
      PROVE  longer[h + 1].id = points[h]
  <2>1. CASE h = Len(blocks)
    BY <2>1, <1>1, Zenon DEF check_block, longer
  <2>2. CASE h # Len(blocks)
    <3>1. h < Len(blocks) /\ h + 1 \in 1..Len(blocks)
      BY <1>1, <1>2, <2>2 DEF longer
    <3> QED BY <3>1, <1>1, <1>2, ZenonT(60) DEF PointsOk, longer
  <2> QED BY <2>1, <2>2, Zenon
<1> QED BY <1>2, Zenon DEF PointsOk, longer

(* ... and popping blocks contradicts none. *)
LEMMA PointsPrefix ==
  ASSUME NEW blocks, NEW points, DOMAIN points \subseteq Nat, IsSeq(blocks),
         Len(blocks) \in Nat, NEW n \in 0..Len(blocks), PointsOk(blocks, points)
  PROVE  PointsOk(SubSeq(blocks, 1, n), points)
<1>1. /\ Len(SubSeq(blocks, 1, n)) = n
      /\ \A i \in 1..n : SubSeq(blocks, 1, n)[i] = blocks[i]
  BY PrefixSeq, Zenon
<1>2. ASSUME NEW h \in DOMAIN points, 1 < h, h < n
      PROVE  SubSeq(blocks, 1, n)[h + 1].id = points[h]
  <2>1. h + 1 \in 1..n /\ h < Len(blocks)
    BY <1>2
  <2> QED BY <2>1, <1>1, <1>2, ZenonT(60) DEF PointsOk
<1> QED BY <1>1, <1>2, Zenon DEF PointsOk

-----------------------------------------------------------------------------
(* What the handlers transform.                                             *)
DbFields == {"blocks", "alt_blocks", "txpool", "stray"}
StateFields == {"db", "success", "invalid", "version", "cache", "added"}
IsState(S) == DOMAIN S = StateFields /\ DOMAIN S.db = DbFields
Good(S) == IsState(S) /\ ChainOk(S.db.blocks)

(* The handler made of S the state T, in which everything that has to hold of
   the chain holds as it did in S.                                          *)
KeepsClean(S, T) ==
  /\ Good(T)
  /\ DOMAIN m_checkpoints \subseteq Nat /\ PointsOk(S.db.blocks, m_checkpoints)
       => PointsOk(T.db.blocks, m_checkpoints)
  /\ Clean(S.db) => Clean(T.db)
  /\ T.success = S.success

(* ... or the database threw, so that the batch will be aborted. *)
Keeps(S, T) ==
  /\ Good(T)
  /\ DOMAIN m_checkpoints \subseteq Nat /\ PointsOk(S.db.blocks, m_checkpoints)
       => PointsOk(T.db.blocks, m_checkpoints)
  /\ \/ ~T.success
     \/ T.success = S.success /\ (Clean(S.db) => Clean(T.db))

(* Dropping the cached difficulties touches nothing else. *)
LEMMA ForgetState ==
  ASSUME NEW S, IsState(S)
  PROVE  /\ IsState(ForgetCache(S))
         /\ ForgetCache(S).db = S.db /\ ForgetCache(S).success = S.success
  BY DEF ForgetCache, IsState, StateFields

(* A reorganisation of the fork table touches the version only. *)
LEMMA ReorganizeState ==
  ASSUME NEW S, IsState(S), NEW height
  PROVE  LET T == reorganize_from_chain_height(S, height)
         IN  IsState(T) /\ T.db = S.db /\ T.success = S.success
<1> DEFINE v == ReorganizedVersion(S.version, S.db.blocks, height)
<1> HIDE DEF v
<1>1. reorganize_from_chain_height(S, height) = [S EXCEPT !.version = v]
  BY Zenon DEF reorganize_from_chain_height, v
<1> QED BY <1>1 DEF IsState, StateFields

(* Clean looks at three fields of a database. *)
LEMMA CleanFields ==
  ASSUME NEW d, NEW e, e.blocks = d.blocks, e.stray = d.stray, Clean(d),
         \A t \in e.txpool : t \in d.txpool \/ t \notin MinedIn(d)
  PROVE  Clean(e)
<1>1. MinedIn(e) = MinedIn(d)
  BY Zenon DEF MinedIn
<1>2. MinedIn(e) \cap e.txpool = {}
  BY <1>1, Zenon DEF Clean
<1> QED BY <1>2, Zenon DEF Clean

(* A state that differs in other things than blocks, and in the pool only by
   transactions that are not mined, keeps what has to hold.                 *)
LEMMA SameBlocksKeeps ==
  ASSUME NEW S, NEW T, Good(S), IsState(T), T.success = S.success,
         T.db.blocks = S.db.blocks, T.db.stray = S.db.stray,
         \A t \in T.db.txpool : t \in S.db.txpool \/ t \notin MinedIn(S.db)
  PROVE  KeepsClean(S, T)
<1>1. Clean(S.db) => Clean(T.db)
  BY CleanFields, Zenon
<1>2. Good(T)
  BY Zenon DEF Good
<1> QED BY <1>1, <1>2, Zenon DEF KeepsClean

(* ... and keeps what has to hold. *)
LEMMA ForgetKeeps ==
  ASSUME NEW S, Good(S)
  PROVE  KeepsClean(S, ForgetCache(S)) /\ ForgetCache(S).db = S.db
<1>1. IsState(S)
  BY Zenon DEF Good
<1>2. /\ IsState(ForgetCache(S))
      /\ ForgetCache(S).db = S.db /\ ForgetCache(S).success = S.success
  BY <1>1, ForgetState, Zenon
<1> QED BY <1>2, SameBlocksKeeps, Zenon

(* ... and so does this. *)
LEMMA ReorganizeKeeps ==
  ASSUME NEW S, Good(S), NEW height
  PROVE  LET T == reorganize_from_chain_height(S, height)
         IN  KeepsClean(S, T) /\ T.db = S.db
<1> DEFINE T == reorganize_from_chain_height(S, height)
<1>1. IsState(S)
  BY Zenon DEF Good
<1>2. IsState(T) /\ T.db = S.db /\ T.success = S.success
  BY <1>1, ReorganizeState, Zenon
<1> HIDE DEF T
<1>3. KeepsClean(S, T)
  BY <1>2, SameBlocksKeeps, Zenon
<1> QED BY <1>2, <1>3, Zenon DEF T

(* Blocks popped and their transactions given back to the pool. *)
LEMMA LowerKeeps ==
  ASSUME NEW S, NEW T, Good(S), IsState(T), T.success = S.success,
         NEW n \in 1..Len(S.db.blocks),
         T.db.blocks = SubSeq(S.db.blocks, 1, n), T.db.stray = S.db.stray,
         \A t \in T.db.txpool :
           t \in S.db.txpool
             \/ \E i \in (n + 1)..Len(S.db.blocks) : t \in TxSet(S.db.blocks[i].id)
  PROVE  KeepsClean(S, T)
<1>1. ChainOk(S.db.blocks) /\ IsSeq(S.db.blocks) /\ Len(S.db.blocks) \in Nat
  BY Zenon DEF Good, ChainOk
<1>2. ChainOk(T.db.blocks)
  BY <1>1, ChainPrefix, Zenon
<1>3. Clean(S.db) => Clean(T.db)
  BY <1>1, CleanPop, ZenonT(60)
<1>4. n \in 0..Len(S.db.blocks)
  BY <1>1
<1>5. DOMAIN m_checkpoints \subseteq Nat /\ PointsOk(S.db.blocks, m_checkpoints)
        => PointsOk(T.db.blocks, m_checkpoints)
  BY <1>1, <1>4, PointsPrefix, ZenonT(60)
<1> QED BY <1>2, <1>3, <1>5, Zenon DEF KeepsClean, Good

(* pop_block_from_blockchain, above genesis. *)
LEMMA PopKeeps ==
  ASSUME NEW S, Good(S), Len(S.db.blocks) > 1
  PROVE  LET T == pop_block_from_blockchain(S)
         IN  /\ KeepsClean(S, T)
             /\ T.db.blocks = SubSeq(S.db.blocks, 1, Len(S.db.blocks) - 1)
<1> DEFINE n == Len(S.db.blocks)
           v == VersionAt(Height(S) - 1)
           P == [S EXCEPT !.db.txpool = @ \cup TxSet(Tip(S).id), !.db.blocks = Front(@),
                          !.version = v]
           T == pop_block_from_blockchain(S)
<1>1. /\ IsState(P) /\ P.success = S.success /\ P.db.blocks = Front(S.db.blocks)
      /\ P.db.txpool = S.db.txpool \cup TxSet(Tip(S).id) /\ P.db.stray = S.db.stray
  <2> HIDE DEF v
  <2> QED BY Zenon DEF Good, IsState, StateFields, DbFields
<1>2. T = ForgetCache(P)
  BY Zenon DEF pop_block_from_blockchain
<1> HIDE DEF P
<1>3. IsState(T) /\ T.db = P.db /\ T.success = S.success
  BY <1>1, <1>2, ForgetState, ZenonT(60)
<1>4. IsSeq(S.db.blocks) /\ n \in Nat \ {0}
  BY Zenon DEF Good, ChainOk
<1> HIDE DEF T
<1>5. T.db.blocks = SubSeq(S.db.blocks, 1, n - 1)
  BY <1>1, <1>3, ZenonT(60) DEF Front
<1>6. n - 1 \in 1..n /\ n \in ((n - 1) + 1)..n
  <2>1. n > 1
    OBVIOUS
  <2> HIDE DEF n
  <2> QED BY <1>4, <2>1, SMT
<1>7. Tip(S).id = S.db.blocks[n].id
  BY Zenon DEF Tip, Height
<1>8. \A t \in T.db.txpool :
        t \in S.db.txpool \/ \E i \in ((n - 1) + 1)..n : t \in TxSet(S.db.blocks[i].id)
  BY <1>1, <1>3, <1>6, <1>7, Zenon
<1>9. KeepsClean(S, T)
  BY <1>1, <1>3, <1>5, <1>6, <1>8, LowerKeeps, Zenon
<1> QED BY <1>5, <1>9, Zenon DEF T

(* Popped, which leaves genesis. *)
LEMMA PoppedKeeps ==
  ASSUME NEW S, Good(S), NEW k \in 0..(Len(S.db.blocks) - 1)
  PROVE  LET T == Popped(S, k)
         IN  /\ KeepsClean(S, T)
             /\ T.db.blocks = SubSeq(S.db.blocks, 1, Len(S.db.blocks) - k)
<1> DEFINE n == Len(S.db.blocks)
           gone == {S.db.blocks[i].id : i \in ((n - k) + 1)..n}
           P == [S EXCEPT !.db.blocks = SubSeq(@, 1, n - k),
                          !.db.txpool = @ \cup UNION {TxSet(b) : b \in gone},
                          !.version = IF k = 0 THEN @ ELSE VersionAt(n - k)]
           T == Popped(S, k)
<1>1. /\ IsState(P) /\ P.success = S.success /\ P.db.blocks = SubSeq(S.db.blocks, 1, n - k)
      /\ P.db.txpool = S.db.txpool \cup UNION {TxSet(b) : b \in gone} /\ P.db.stray = S.db.stray
  <2> HIDE DEF gone
  <2> QED BY Zenon DEF Good, IsState, StateFields, DbFields
<1>2. T = ForgetCache(P)
  BY Zenon DEF Popped, Height
<1> HIDE DEF P
<1>3. IsState(T) /\ T.db = P.db /\ T.success = S.success
  BY <1>1, <1>2, ForgetState, ZenonT(60)
<1>4. n \in Nat \ {0}
  BY Zenon DEF Good, ChainOk
<1> HIDE DEF T
<1>5. n - k \in 1..n
  BY <1>4
<1>6. \A t \in T.db.txpool :
        t \in S.db.txpool \/ \E i \in ((n - k) + 1)..n : t \in TxSet(S.db.blocks[i].id)
  <2>1. ASSUME NEW t \in T.db.txpool, t \notin S.db.txpool
        PROVE  \E i \in ((n - k) + 1)..n : t \in TxSet(S.db.blocks[i].id)
    <3>1. t \in UNION {TxSet(b) : b \in gone}
      BY <2>1, <1>1, <1>3, Zenon
    <3>2. PICK b \in gone : t \in TxSet(b)
      BY <3>1, Zenon
    <3> QED BY <3>2, Zenon
  <2> QED BY <2>1, Zenon
<1>7. KeepsClean(S, T)
  BY <1>1, <1>3, <1>5, <1>6, LowerKeeps, ZenonT(60)
<1> QED BY <1>1, <1>3, <1>7, ZenonT(60) DEF T

-----------------------------------------------------------------------------
(* The block is at the top of the chain and its transactions left the pool. *)
HasStored(S, b, T) ==
  /\ IsState(T) /\ T.success = S.success
  /\ \E c : T.db.blocks = Append(S.db.blocks, [id |-> b, cd |-> c])
  /\ T.db.txpool = S.db.txpool \ TxSet(b) /\ T.db.stray = S.db.stray

(* What handle_block_to_main_chain may do to the chain: nothing; throw, with
   rows of the block left in the database; or add the block, whose parent,
   checkpoint and transactions have been checked.                           *)
MainResult(S, b, T) ==
  /\ IsState(T)
  /\ \/ /\ T.db = S.db /\ T.success = S.success
     \/ /\ ~T.success /\ T.db.blocks = S.db.blocks
     \/ /\ HasStored(S, b, T)
        /\ Prev[b] = Tip(S).id
        /\ check_block(m_checkpoints, Height(S), b)
        /\ \A i \in DOMAIN TxsOf[b] : ~TxStops(S, TxsOf[b][i])

(* The state after m_db->add_block. *)
LEMMA StoredState ==
  ASSUME NEW S, IsState(S), NEW b, NEW difficulty, NEW c
  PROVE  HasStored(S, b, [Stored(S, b, difficulty) EXCEPT !.cache = c])
<1> DEFINE e == [id |-> b, cd |-> Tip(S).cd + difficulty]
           v == Raised(S.version, Height(S) + 1)
<1> HIDE DEF e, v
<1>1. Stored(S, b, difficulty) =
        [S EXCEPT !.db.blocks = Append(@, e), !.db.txpool = @ \ TxSet(b),
                  !.version = v, !.added = TRUE]
  BY Zenon DEF Stored, e, v
<1> DEFINE A == Stored(S, b, difficulty)
<1>2. /\ IsState(A) /\ A.success = S.success
      /\ A.db.blocks = Append(S.db.blocks, e)
      /\ A.db.txpool = S.db.txpool \ TxSet(b) /\ A.db.stray = S.db.stray
  <2> DEFINE B == [S EXCEPT !.db.blocks = Append(@, e)]
             C == [B EXCEPT !.db.txpool = S.db.txpool \ TxSet(b)]
  <2>1. A = [C EXCEPT !.version = v, !.added = TRUE]
    BY <1>1, Zenon
  <2>2. /\ IsState(B) /\ B.success = S.success /\ B.db.blocks = Append(S.db.blocks, e)
        /\ B.db.txpool = S.db.txpool /\ B.db.stray = S.db.stray
    BY Zenon DEF IsState, StateFields, DbFields
  <2> HIDE DEF B
  <2>3. /\ IsState(C) /\ C.success = S.success /\ C.db.blocks = Append(S.db.blocks, e)
        /\ C.db.txpool = S.db.txpool \ TxSet(b) /\ C.db.stray = S.db.stray
    BY <2>2, Zenon DEF IsState, StateFields, DbFields
  <2> HIDE DEF C, A
  <2>4. DOMAIN A = DOMAIN C /\ A.db = C.db /\ A.success = C.success
    BY <2>1, <2>3, Zenon DEF IsState, StateFields
  <2> QED BY <2>3, <2>4, Zenon DEF IsState
<1> HIDE DEF A
<1>3. DOMAIN [A EXCEPT !.cache = c] = DOMAIN A
  BY Zenon
<1>4. [A EXCEPT !.cache = c].db = A.db /\ [A EXCEPT !.cache = c].success = A.success
  BY <1>2, Zenon DEF IsState, StateFields
<1>5. \E cd : A.db.blocks = Append(S.db.blocks, [id |-> b, cd |-> cd])
  BY <1>2, Zenon DEF e
<1> QED BY <1>2, <1>3, <1>4, <1>5, ZenonT(60) DEF IsState, HasStored, A

(* The state after m_db->add_block threw: no block was added. *)
LEMMA ThrownState ==
  ASSUME NEW S, IsState(S), NEW b
  PROVE  IsState(Thrown(S, b)) /\ ~Thrown(S, b).success
           /\ Thrown(S, b).db.blocks = S.db.blocks
<1> DEFINE left == {TxsOf[b][j] : j \in 1..(Min(Clashes(b)) - 1)}
<1> HIDE DEF left
<1>1. Thrown(S, b) = [S EXCEPT !.success = FALSE, !.db.stray = @ \cup left]
  BY Zenon DEF Thrown, left
<1> QED BY <1>1, ZenonT(60) DEF IsState, StateFields, DbFields

(* Every way through handle_block_to_main_chain. *)
LEMMA MainHandles ==
  ASSUME NEW S, IsState(S), NEW b
  PROVE  MainResult(S, b, handle_block_to_main_chain(S, b))
<1> DEFINE stopped == {i \in DOMAIN TxsOf[b] : TxStops(S, TxsOf[b][i])}
           target == get_difficulty_for_next_block(S)
           seen == [S EXCEPT !.cache = target.cache, !.added = FALSE]
           stored == Stored(seen, b, target.difficulty)
           T == handle_block_to_main_chain(S, b)
           refused == [S EXCEPT !.added = FALSE]
           marked == [seen EXCEPT !.invalid = @ \cup {b}]
           done == [stored EXCEPT !.cache = get_difficulty_for_next_block(stored).cache]
<1>1. \/ T = refused \/ T = seen \/ T = marked \/ T = Thrown(seen, b)
      \/ /\ T = done
         /\ Prev[b] = Tip(S).id /\ check_block(m_checkpoints, Height(S), b) /\ stopped = {}
  <2> HIDE DEF stopped, target, seen, stored, refused, marked, done
  <2>1. T = CASE Prev[b] # Tip(S).id \/ Major[b] # S.version \/ Flaw[b] = "header" -> refused
              [] ~check_hash(b, target.difficulty) -> seen
              [] ~check_block(m_checkpoints, Height(S), b) \/ Flaw[b] = "coinbase" -> seen
              [] stopped # {} -> IF KnownPooled(S, TxsOf[b][Min(stopped)]) THEN marked ELSE seen
              [] Flaw[b] = "reward" -> seen
              [] Clashes(b) # {} -> Thrown(seen, b)
              [] OTHER -> done
    BY Zenon DEF handle_block_to_main_chain, stopped, target, seen, stored, refused, marked, done
  <2> HIDE DEF T
  <2>2. CASE Prev[b] # Tip(S).id
    BY <2>1, <2>2
  <2>3. CASE ~check_block(m_checkpoints, Height(S), b)
    BY <2>1, <2>3
  <2>4. CASE stopped # {}
    BY <2>1, <2>4
  <2>5. CASE Prev[b] = Tip(S).id /\ check_block(m_checkpoints, Height(S), b) /\ stopped = {}
    BY <2>1, <2>5
  <2> QED BY <2>2, <2>3, <2>4, <2>5
<1>2. IsState(refused) /\ refused.db = S.db /\ refused.success = S.success
  BY Zenon DEF IsState, StateFields
<1>3. IsState(seen) /\ seen.db = S.db /\ seen.success = S.success
  <2> HIDE DEF target
  <2> QED BY Zenon DEF IsState, StateFields
<1>4. IsState(marked) /\ marked.db = S.db /\ marked.success = S.success
  <2> HIDE DEF seen
  <2> QED BY <1>3, Zenon DEF IsState, StateFields
<1>5. IsState(Thrown(seen, b)) /\ ~Thrown(seen, b).success
        /\ Thrown(seen, b).db.blocks = S.db.blocks
  <2> HIDE DEF seen
  <2> QED BY <1>3, ThrownState, Zenon
<1>6. HasStored(S, b, done)
  <2> DEFINE difficulty == target.difficulty
             c == get_difficulty_for_next_block(stored).cache
  <2> HIDE DEF seen, difficulty, c
  <2>1. done = [Stored(seen, b, difficulty) EXCEPT !.cache = c]
    BY Zenon DEF difficulty, c
  <2> HIDE DEF done
  <2>2. HasStored(seen, b, done)
    BY <2>1, <1>3, StoredState, Zenon
  <2> QED BY <2>2, <1>3, Zenon DEF HasStored
<1>7. stopped = {} => \A i \in DOMAIN TxsOf[b] : ~TxStops(S, TxsOf[b][i])
  BY Zenon
<1> HIDE DEF stopped, target, seen, stored, T, refused, marked, done
<1>8. CASE T = refused \/ T = seen \/ T = marked
  BY <1>8, <1>2, <1>3, <1>4, Zenon DEF MainResult, T
<1>9. CASE T = Thrown(seen, b)
  BY <1>9, <1>5, Zenon DEF MainResult, T
<1>10. CASE T = done /\ Prev[b] = Tip(S).id /\ check_block(m_checkpoints, Height(S), b)
            /\ stopped = {}
  <2>1. HasStored(S, b, T) /\ IsState(T)
    BY <1>10, <1>6, Zenon DEF HasStored
  <2>2. \A i \in DOMAIN TxsOf[b] : ~TxStops(S, TxsOf[b][i])
    BY <1>10, <1>7, Zenon
  <2>3. Prev[b] = Tip(S).id /\ check_block(m_checkpoints, Height(S), b)
    BY <1>10, Zenon
  <2> QED BY <2>1, <2>2, <2>3, Zenon DEF MainResult, T
<1> QED BY <1>1, <1>8, <1>9, <1>10, Zenon DEF T

(* A block that is added is checked against all that is mined and spent. *)
LEMMA MainKeeps ==
  ASSUME NEW S, Good(S), NEW b \in Blocks
  PROVE  LET T == handle_block_to_main_chain(S, b)
         IN  /\ Keeps(S, T)
             /\ \/ T.db.blocks = S.db.blocks
                \/ \E e : T.db.blocks = Append(S.db.blocks, e)
<1> DEFINE T == handle_block_to_main_chain(S, b)
<1>1. IsState(S) /\ ChainOk(S.db.blocks) /\ IsSeq(S.db.blocks)
  BY Zenon DEF Good, ChainOk
<1>2. MainResult(S, b, T)
  BY <1>1, MainHandles, Zenon
<1> HIDE DEF T
<1>3. IsState(T)
  BY <1>2, Zenon DEF MainResult
<1>4. CASE T.db = S.db /\ T.success = S.success
  BY <1>1, <1>3, <1>4, ZenonT(60) DEF Keeps, Good, T
<1>5. CASE ~T.success /\ T.db.blocks = S.db.blocks
  BY <1>1, <1>3, <1>5, Zenon DEF Keeps, Good, T
<1>6. CASE /\ HasStored(S, b, T)
           /\ Prev[b] = Tip(S).id
           /\ check_block(m_checkpoints, Height(S), b)
           /\ \A i \in DOMAIN TxsOf[b] : ~TxStops(S, TxsOf[b][i])
  <2>1. PICK c : T.db.blocks = Append(S.db.blocks, [id |-> b, cd |-> c])
    BY <1>6, Zenon DEF HasStored
  <2> DEFINE f == [id |-> b, cd |-> c]
  <2>2. f.id = b
    BY Zenon
  <2> HIDE DEF f
  <2>3. T.db.blocks = Append(S.db.blocks, f)
    BY <2>1, Zenon DEF f
  <2>4. ChainOk(Append(S.db.blocks, f))
    <3>1. Prev[f.id] = S.db.blocks[Len(S.db.blocks)].id /\ f.id \in Blocks
      BY <1>6, <2>2, Zenon DEF Tip, Height
    <3> QED BY <3>1, <1>1, ChainAppend, Zenon
  <2>5. DOMAIN m_checkpoints \subseteq Nat /\ PointsOk(S.db.blocks, m_checkpoints)
          => PointsOk(Append(S.db.blocks, f), m_checkpoints)
    <3>1. check_block(m_checkpoints, Len(S.db.blocks), f.id)
      BY <1>6, <2>2, Zenon DEF Height
    <3> QED BY <3>1, <1>1, PointsAppend, Zenon
  <2>6. \A t \in TxSet(b) : t \notin MinedIn(S.db) /\ Spends[t] \cap SpentIn(MinedIn(S.db)) = {}
    <3>1. Mined(S) = MinedIn(S.db)
      BY Zenon DEF Mined, MinedIn, Main, IdsOf, Height
    <3>2. \A t \in TxSet(b) : ~TxStops(S, t)
      BY <1>6, Zenon DEF TxSet, Range
    <3> QED BY <3>1, <3>2, Zenon DEF TxStops, InputsOk
  <2>7. T.db.txpool = S.db.txpool \ TxSet(b) /\ T.db.stray = S.db.stray /\ T.success = S.success
    BY <1>6, Zenon DEF HasStored
  <2>8. Clean(S.db) => Clean(T.db)
    BY <1>1, <2>2, <2>3, <2>6, <2>7, CleanStore, ZenonT(60)
  <2>9. Keeps(S, T)
    BY <1>3, <2>3, <2>4, <2>5, <2>7, <2>8, ZenonT(60) DEF Keeps, Good
  <2> QED BY <2>3, <2>9, Zenon DEF T
<1> QED BY <1>2, <1>4, <1>5, <1>6, Zenon DEF MainResult

-----------------------------------------------------------------------------
(* Switches in progress.                                                    *)
JobFields == {"op", "alt_chain", "discard", "disconnected", "split", "n", "back", "was"}

IsJob(j) ==
  /\ DOMAIN j = JobFields
  /\ j.alt_chain \in Seq(Blocks) /\ j.alt_chain # <<>>
  /\ j.disconnected \in Seq(Blocks)
  /\ j.split \in Nat /\ j.n \in Nat \ {0} /\ j.back \in Nat \ {0}

(* What the innermost switch needs of the chain: the block it splits off from
   is still there, and blocks are popped down to it and no further.         *)
JobOk(j, blocks) ==
  /\ IsJob(j)
  /\ j.op = "pop" => Prev[j.alt_chain[1]] \in IdsOf(blocks)
  /\ j.op \in {"connect", "rollback"} => 1 <= j.split /\ j.split <= Len(blocks)
  /\ j.op \in {"pop", "connect"} => j.n <= Len(j.alt_chain)

(* The outer switches wait while they push a block back. *)
JobsOk(js, blocks) ==
  /\ IsSeq(js)
  /\ \A i \in 1..Len(js) : IsJob(js[i]) /\ (i # Len(js) => js[i].op = "push")
  /\ js # <<>> => JobOk(js[Len(js)], blocks)

(* No switch in progress, nothing needed. *)
LEMMA NoJobs == \A blocks : JobsOk(<<>>, blocks)
<1>1. <<>> \in Seq({}) /\ Len(<<>>) = 0
  OBVIOUS
<1>2. IsSeq(<<>>)
  BY <1>1, SeqIsSeq, Zenon
<1>3. 1..Len(<<>>) = {}
  BY <1>1
<1> QED BY <1>2, <1>3, Zenon DEF JobsOk

(* A switch starts inside one that pushes a block back, or inside none. *)
LEMMA JobsStart ==
  ASSUME NEW js, NEW blocks, JobsOk(js, blocks), js # <<>> => js[Len(js)].op = "push",
         NEW j, JobOk(j, blocks)
  PROVE  JobsOk(Append(js, j), blocks)
<1> DEFINE more == Append(js, j)
<1>1. IsSeq(js) /\ \A i \in 1..Len(js) : IsJob(js[i]) /\ (i # Len(js) => js[i].op = "push")
  BY Zenon DEF JobsOk
<1>2. /\ IsSeq(more) /\ Len(more) = Len(js) + 1 /\ Len(js) \in Nat
      /\ more[Len(js) + 1] = j /\ \A i \in 1..Len(js) : more[i] = js[i]
  BY <1>1, AppendSeq
<1> HIDE DEF more
<1>3. \A i \in 1..Len(js) : js[i].op = "push"
  <2>1. ASSUME NEW i \in 1..Len(js) PROVE js # <<>>
    <3>1. js = <<>> => Len(js) = 0
      OBVIOUS
    <3> QED BY <3>1, <1>2
  <2> QED BY <2>1, <1>1, Zenon
<1>4. ASSUME NEW i \in 1..Len(more)
      PROVE  IsJob(more[i]) /\ (i # Len(more) => more[i].op = "push")
  <2>1. CASE i = Len(js) + 1
    BY <2>1, <1>2, Zenon DEF JobOk
  <2>2. CASE i # Len(js) + 1
    <3>1. i \in 1..Len(js)
      BY <2>2, <1>2
    <3> QED BY <3>1, <1>1, <1>2, <1>3, Zenon
  <2> QED BY <2>1, <2>2, Zenon
<1>5. JobOk(more[Len(more)], blocks)
  BY <1>2, Zenon
<1> QED BY <1>2, <1>4, <1>5, Zenon DEF JobsOk, more

(* The innermost switch ends: the one around it goes on with its next block. *)
LEMMA JobsEnd ==
  ASSUME NEW js, NEW blocks, JobsOk(js, blocks), js # <<>>, NEW after
  PROVE  /\ JobsOk(Front(js), after)
         /\ Front(js) # <<>> => Front(js)[Len(Front(js))].op = "push"
<1> DEFINE outer == Front(js)
<1>1. IsSeq(js) /\ \A i \in 1..Len(js) : IsJob(js[i]) /\ (i # Len(js) => js[i].op = "push")
  BY Zenon DEF JobsOk
<1>2. /\ Len(js) \in Nat \ {0} /\ IsSeq(outer) /\ Len(outer) = Len(js) - 1
      /\ \A i \in 1..(Len(js) - 1) : outer[i] = js[i]
  BY <1>1, FrontSeq, Zenon
<1> HIDE DEF outer
<1>3. ASSUME NEW i \in 1..Len(outer) PROVE IsJob(outer[i]) /\ outer[i].op = "push"
  <2>1. i \in 1..(Len(js) - 1) /\ i \in 1..Len(js) /\ i # Len(js)
    BY <1>2
  <2> QED BY <2>1, <1>1, <1>2, Zenon
<1>4. outer # <<>> => Len(outer) \in 1..Len(outer)
  <2>1. outer \in Seq({outer[i] : i \in DOMAIN outer})
    BY <1>2, Zenon DEF IsSeq
  <2> QED BY <2>1
<1>5. outer # <<>> => JobOk(outer[Len(outer)], after)
  BY <1>3, <1>4, Zenon DEF JobOk
<1>6. JobsOk(outer, after)
  BY <1>2, <1>3, <1>5, Zenon DEF JobsOk
<1> QED BY <1>3, <1>4, <1>6, Zenon DEF outer

(* The innermost switch goes on. *)
LEMMA JobsGo ==
  ASSUME NEW js, NEW blocks, JobsOk(js, blocks), js # <<>>,
         NEW after, NEW j, JobOk(j, after)
  PROVE  JobsOk(Append(Front(js), j), after)
  BY JobsEnd, JobsStart, Zenon

-----------------------------------------------------------------------------
(* The stored alternatives that lead up to a block are blocks. *)
LEMMA AltChainType ==
  ASSUME NEW S, NEW id \in Ids
  PROVE  AltChain(S, id) \in Seq(Blocks)
<1> DEFINE path == PathTo[id]
           stop == {i \in 1..Len(path) : path[i] \notin Alt(S)}
<1>1. path \in Seq(Blocks)
  <2>1. CASE id \in Blocks
    BY <2>1, TreeAssumption, Zenon
  <2>2. CASE id = Genesis
    <3>1. path = <<>>
      BY <2>2, TreeAssumption, Zenon
    <3> QED BY <3>1
  <2> QED BY <2>1, <2>2, Zenon DEF Ids
<1> HIDE DEF path
<1>2. AltChain(S, id) = SubSeq(path, IF stop = {} THEN 1 ELSE Max(stop) + 1, Len(path))
  BY Zenon DEF AltChain, path
<1>3. CASE stop = {}
  <2> HIDE DEF stop
  <2> QED BY <1>1, <1>2, <1>3
<1>4. CASE stop # {}
  <2> DEFINE left == {Len(path) - i : i \in stop}
  <2>1. Len(path) \in Nat
    BY <1>1
  <2>2. \A i \in stop : i \in 1..Len(path)
    BY Zenon
  <2> HIDE DEF stop
  <2>3. left \subseteq Nat /\ left # {}
    BY <1>4, <2>1, <2>2
  <2>4. PICK k \in stop : \A i \in stop : Len(path) - k <= Len(path) - i
    <3>1. Min(left) \in left /\ \A y \in left : Min(left) <= y
      BY <2>3, LowestHeight, Zenon
    <3> QED BY <3>1, Zenon
  <2>5. \A i \in stop : k >= i
    BY <2>1, <2>2, <2>4
  <2>6. Max(stop) \in stop
    BY <2>5, Zenon DEF Max
  <2>7. Max(stop) + 1 \in 1..(Len(path) + 1)
    BY <2>1, <2>2, <2>6
  <2> QED BY <1>1, <1>2, <1>4, <2>7
<1> QED BY <1>3, <1>4, Zenon

(* The chain a switch would go to starts from a block of the main chain. *)
LEMMA SwitchJob ==
  ASSUME NEW S, NEW b \in Blocks, AltAccepted(S, b)
  PROVE  JobOk(Switch(S, b), S.db.blocks)
<1> DEFINE below == AltChain(S, Prev[b])
           alt_chain == Append(below, b)
           j == Switch(S, b)
<1>1. Prev[b] \in Ids
  BY TreeAssumption, Zenon
<1>2. below \in Seq(Blocks)
  BY <1>1, AltChainType, Zenon
<1>3. (IF below = <<>> THEN Prev[b] ELSE Prev[below[1]]) \in Main(S)
  BY Zenon DEF AltAccepted, Connects
<1>4. /\ DOMAIN j = JobFields /\ j.op = "pop" /\ j.alt_chain = alt_chain
      /\ j.disconnected = <<>> /\ j.split = 0 /\ j.n = 1 /\ j.back = 1
  <2> DEFINE discard == AltHeight(S, b) \in DOMAIN m_checkpoints
  <2> HIDE DEF alt_chain, discard
  <2>1. j = [op |-> "pop", alt_chain |-> alt_chain, discard |-> discard,
             disconnected |-> <<>>, split |-> 0, n |-> 1, back |-> 1, was |-> S.db.blocks]
    BY Zenon DEF Switch, alt_chain, discard
  <2> HIDE DEF j
  <2>2. DOMAIN j = JobFields
    BY <2>1 DEF JobFields
  <2>3. j.op = "pop" /\ j.alt_chain = alt_chain /\ j.disconnected = <<>>
    BY <2>1, Zenon
  <2>4. j.split = 0 /\ j.n = 1 /\ j.back = 1
    BY <2>1, Zenon
  <2> QED BY <2>2, <2>3, <2>4, Zenon
<1> HIDE DEF below, j
<1>5. alt_chain \in Seq(Blocks) /\ alt_chain # <<>>
  <2>1. alt_chain \in Seq(Blocks) /\ Len(alt_chain) = Len(below) + 1 /\ Len(below) \in Nat
    BY <1>2
  <2> HIDE DEF alt_chain
  <2>2. alt_chain = <<>> => Len(alt_chain) = 0
    OBVIOUS
  <2> QED BY <2>1, <2>2
<1>6. Prev[alt_chain[1]] \in Main(S)
  <2>1. CASE below = <<>>
    BY <2>1, <1>3
  <2>2. CASE below # <<>>
    <3>1. alt_chain[1] = below[1]
      BY <2>2, <1>2
    <3> QED BY <2>2, <3>1, <1>3, Zenon
  <2> QED BY <2>1, <2>2, Zenon
<1>7. IsJob(j)
  BY <1>4, <1>5 DEF IsJob
<1>8. IdsOf(S.db.blocks) = Main(S)
  BY Zenon DEF Main, IdsOf, Height
<1>9. j.n <= Len(j.alt_chain)
  <2> HIDE DEF alt_chain
  <2> QED BY <1>4, <1>5
<1> QED BY <1>4, <1>6, <1>7, <1>8, <1>9, Zenon DEF JobOk, j

-----------------------------------------------------------------------------
(* The inductive invariant.  The database is a branch with nothing mined or
   spent twice, except after it threw; then the batch, which is like that,
   takes its place.  The checkpoints hold in both, except where the update
   that enforced them was, or may yet be, undone.                           *)
DbInv ==
  /\ DOMAIN db = DbFields /\ ChainOk(db.blocks)
  /\ m_batch_success \/ ~InBatch => Clean(db)

BatchInv == InBatch => DOMAIN batch = DbFields /\ ChainOk(batch.blocks) /\ Clean(batch)

PointsInv ==
  /\ DOMAIN m_checkpoints \subseteq Nat
  /\ undone \in {"no", "may", "yes"} /\ (undone = "may" => InBatch)
  /\ undone # "yes" => PointsOk(db.blocks, m_checkpoints)
  /\ undone = "no" /\ InBatch => PointsOk(batch.blocks, m_checkpoints)

JobsInv == JobsOk(jobs, db.blocks) /\ (~Idle => InBatch)

ChainInv == DbInv /\ BatchInv /\ PointsInv /\ JobsInv

(* The state as the handlers take it. *)
LEMMA NowState ==
  ASSUME ChainInv
  PROVE  Good(Now) /\ Now.db = db /\ Now.success = m_batch_success
<1>1. DOMAIN Now = StateFields /\ Now.db = db /\ Now.success = m_batch_success
  BY DEF Now, StateFields
<1> QED BY <1>1, Zenon DEF Good, IsState, ChainInv, DbInv

(* A step of a handler inside a batch. *)
LEMMA BatchStep ==
  ASSUME ChainInv, InBatch, NEW T, Keeps(Now, T), Become(T),
         UNCHANGED <<batch, m_checkpoints, undone>>
  PROVE  DbInv' /\ BatchInv' /\ PointsInv' /\ db' = T.db
<1>1. Now.db = db /\ Now.success = m_batch_success
  BY NowState, Zenon
<1>2. db' = T.db /\ m_batch_success' = T.success
  BY Zenon DEF Become
<1>3. batch' = batch /\ m_checkpoints' = m_checkpoints /\ undone' = undone
  BY Zenon
<1>4. InBatch' <=> InBatch
  BY <1>3, Zenon DEF InBatch
<1>5. DbInv'
  <2>1. DOMAIN T.db = DbFields /\ ChainOk(T.db.blocks)
    BY Zenon DEF Keeps, Good, IsState
  <2>2. T.success => Clean(T.db)
    BY <1>1, Zenon DEF Keeps, ChainInv, DbInv
  <2> QED BY <2>1, <2>2, <1>2, <1>4, Zenon DEF DbInv
<1>6. BatchInv'
  BY <1>3, <1>4, Zenon DEF BatchInv, ChainInv
<1>7. PointsInv'
  <2>1. DOMAIN m_checkpoints \subseteq Nat /\ PointsOk(db.blocks, m_checkpoints)
          => PointsOk(T.db.blocks, m_checkpoints)
    BY <1>1, Zenon DEF Keeps
  <2> QED BY <2>1, <1>2, <1>3, <1>4, Zenon DEF PointsInv, ChainInv
<1> QED BY <1>2, <1>5, <1>6, <1>7, Zenon

(* A step of a handler outside a batch, where nothing throws. *)
LEMMA CleanStep ==
  ASSUME ChainInv, NEW T, KeepsClean(Now, T), Become(T),
         UNCHANGED <<batch, m_checkpoints, undone>>
  PROVE  DbInv' /\ BatchInv' /\ PointsInv' /\ db' = T.db
<1>1. Now.db = db /\ Now.success = m_batch_success
  BY NowState, Zenon
<1>2. db' = T.db /\ m_batch_success' = T.success
  BY Zenon DEF Become
<1>3. batch' = batch /\ m_checkpoints' = m_checkpoints /\ undone' = undone
  BY Zenon
<1>4. InBatch' <=> InBatch
  BY <1>3, Zenon DEF InBatch
<1>5. DbInv'
  <2>1. DOMAIN T.db = DbFields /\ ChainOk(T.db.blocks)
    BY Zenon DEF KeepsClean, Good, IsState
  <2>2. (Clean(db) => Clean(T.db)) /\ T.success = m_batch_success
    BY <1>1, Zenon DEF KeepsClean
  <2> QED BY <2>1, <2>2, <1>2, <1>4, Zenon DEF DbInv, ChainInv
<1>6. BatchInv'
  BY <1>3, <1>4, Zenon DEF BatchInv, ChainInv
<1>7. PointsInv'
  <2>1. DOMAIN m_checkpoints \subseteq Nat /\ PointsOk(db.blocks, m_checkpoints)
          => PointsOk(T.db.blocks, m_checkpoints)
    BY <1>1, Zenon DEF KeepsClean
  <2> QED BY <2>1, <1>2, <1>3, <1>4, Zenon DEF PointsInv, ChainInv
<1> QED BY <1>2, <1>5, <1>6, <1>7

(* KeepsClean is the stronger of the two, and what one step keeps the next
   keeps.                                                                   *)
LEMMA KeepsLater ==
  ASSUME NEW S, NEW T, NEW U, KeepsClean(S, T)
  PROVE  /\ Keeps(S, T)
         /\ Keeps(T, U) => Keeps(S, U)
         /\ KeepsClean(T, U) => KeepsClean(S, U)
  BY Zenon DEF Keeps, KeepsClean

-----------------------------------------------------------------------------
(* handle_alternative_block: the main chain is as it was, and a switch that
   starts finds what it needs.                                              *)
LEMMA AlternativeStep ==
  ASSUME NEW S, Good(S), NEW b \in Blocks, NEW stack, JobsOk(stack, S.db.blocks),
         stack # <<>> => stack[Len(stack)].op = "push",
         handle_alternative_block(S, b, stack)
  PROVE  \E T : KeepsClean(S, T) /\ Become(T) /\ JobsOk(jobs', T.db.blocks)
<1> DEFINE fresh == ForgetCache(S)
<1>1. KeepsClean(S, fresh) /\ fresh.db = S.db
  BY ForgetKeeps, Zenon
<1>2. \/ /\ AltAccepted(fresh, b) /\ Become(AltStored(fresh, b))
         /\ jobs' = IF Switches(fresh, b) THEN Append(stack, Switch(fresh, b)) ELSE stack
      \/ Become(fresh) /\ jobs' = stack
  BY Zenon DEF handle_alternative_block
<1> HIDE DEF fresh
<1>3. CASE Become(fresh) /\ jobs' = stack
  BY <1>1, <1>3, Zenon
<1>4. CASE /\ AltAccepted(fresh, b) /\ Become(AltStored(fresh, b))
           /\ jobs' = IF Switches(fresh, b) THEN Append(stack, Switch(fresh, b)) ELSE stack
  <2> DEFINE T == AltStored(fresh, b)
  <2>1. /\ IsState(T) /\ T.success = fresh.success /\ T.db.blocks = fresh.db.blocks
        /\ T.db.txpool = fresh.db.txpool /\ T.db.stray = fresh.db.stray
    <3>1. IsState(fresh)
      BY <1>1, Zenon DEF KeepsClean, Good
    <3>2. \E alts : T = [fresh EXCEPT !.db.alt_blocks = alts]
      BY Zenon DEF AltStored
    <3> HIDE DEF T
    <3>3. PICK alts : T = [fresh EXCEPT !.db.alt_blocks = alts]
      BY <3>2, Zenon
    <3> QED BY <3>1, <3>3, Zenon DEF IsState, StateFields, DbFields
  <2> HIDE DEF T
  <2>2. Good(fresh)
    BY <1>1, Zenon DEF KeepsClean
  <2>3. KeepsClean(fresh, T)
    BY <2>1, <2>2, SameBlocksKeeps, Zenon
  <2>4. KeepsClean(S, T)
    BY <1>1, <2>3, KeepsLater, Zenon
  <2>5. JobOk(Switch(fresh, b), S.db.blocks)
    BY <1>1, <1>4, SwitchJob, Zenon
  <2>6. JobsOk(Append(stack, Switch(fresh, b)), S.db.blocks)
    BY <2>5, JobsStart, Zenon
  <2>7. JobsOk(jobs', S.db.blocks)
    BY <1>4, <2>6, Zenon
  <2>8. T.db.blocks = S.db.blocks
    BY <1>1, <2>1, Zenon
  <2> QED BY <1>4, <2>4, <2>7, <2>8, Zenon DEF T
<1> QED BY <1>2, <1>3, <1>4, Zenon

(* handle_incoming_block: the transactions of the block that are not mined
   reach the pool before the block is looked at.                            *)
LEMMA IncomingStep ==
  ASSUME ChainInv, NEW b \in Blocks, handle_incoming_block(b), undone' = undone
  PROVE  ChainInv'
<1> DEFINE S == [Now EXCEPT !.db.txpool = @ \cup (TxSet(b) \ Mined(Now))]
<1>1. Good(Now) /\ Now.db = db /\ Now.success = m_batch_success
  BY NowState, Zenon
<1>2. Idle /\ InBatch /\ UNCHANGED <<batch, m_checkpoints>>
  BY Zenon DEF handle_incoming_block
<1>3. \/ Become(S) /\ jobs' = jobs
      \/ handle_alternative_block(S, b, jobs)
      \/ Become(handle_block_to_main_chain(S, b)) /\ jobs' = jobs
  <2> HIDE DEF S
  <2>1. (CASE have_block(S, b) -> Become(S) /\ UNCHANGED jobs
           [] ~have_block(S, b) /\ Prev[b] # Tip(S).id -> handle_alternative_block(S, b, jobs)
           [] OTHER -> Become(handle_block_to_main_chain(S, b)) /\ UNCHANGED jobs)
    BY Zenon DEF handle_incoming_block, S
  <2> QED BY <2>1, Zenon
<1>4. KeepsClean(Now, S)
  <2> DEFINE new == TxSet(b) \ Mined(Now)
  <2> HIDE DEF new
  <2>1. S = [Now EXCEPT !.db.txpool = @ \cup new]
    BY Zenon DEF new
  <2> HIDE DEF S
  <2>2. IsState(Now)
    BY <1>1, Zenon DEF Good
  <2>3. /\ IsState(S) /\ S.success = Now.success /\ S.db.blocks = Now.db.blocks
        /\ S.db.txpool = Now.db.txpool \cup new /\ S.db.stray = Now.db.stray
    BY <2>1, <2>2, Zenon DEF IsState, StateFields, DbFields
  <2>4. Mined(Now) = MinedIn(Now.db)
    BY Zenon DEF Mined, MinedIn, Main, IdsOf, Height
  <2>5. \A t \in S.db.txpool : t \in Now.db.txpool \/ t \notin MinedIn(Now.db)
    BY <2>3, <2>4, Zenon DEF new
  <2> QED BY <1>1, <2>3, <2>5, SameBlocksKeeps, Zenon
<1> HIDE DEF S
<1>5. Good(S) /\ Keeps(Now, S)
  BY <1>4, KeepsLater, Zenon DEF KeepsClean
<1>6. \E T : Keeps(Now, T) /\ Become(T) /\ JobsOk(jobs', T.db.blocks)
  <2>1. \A blocks : JobsOk(jobs, blocks)
    BY <1>2, NoJobs, Zenon DEF Idle
  <2>2. CASE Become(S) /\ jobs' = jobs
    BY <1>5, <2>1, <2>2, Zenon
  <2>3. CASE handle_alternative_block(S, b, jobs)
    <3>1. PICK T : KeepsClean(S, T) /\ Become(T) /\ JobsOk(jobs', T.db.blocks)
      BY <1>2, <1>5, <2>1, <2>3, AlternativeStep, Zenon DEF Idle
    <3>2. KeepsClean(Now, T)
      BY <1>4, <3>1, KeepsLater, Zenon
    <3> QED BY <3>1, <3>2, KeepsLater, Zenon
  <2>4. CASE Become(handle_block_to_main_chain(S, b)) /\ jobs' = jobs
    <3>1. Keeps(S, handle_block_to_main_chain(S, b))
      BY <1>5, MainKeeps, Zenon
    <3>2. Keeps(Now, handle_block_to_main_chain(S, b))
      BY <1>4, <3>1, KeepsLater, Zenon
    <3> QED BY <2>1, <2>4, <3>2, Zenon
  <2> QED BY <1>3, <2>2, <2>3, <2>4, Zenon
<1>7. PICK T : Keeps(Now, T) /\ Become(T) /\ JobsOk(jobs', T.db.blocks)
  BY <1>6, Zenon
<1>8. DbInv' /\ BatchInv' /\ PointsInv' /\ db' = T.db
  BY <1>2, <1>7, BatchStep, Zenon
<1>9. JobsInv'
  BY <1>2, <1>7, <1>8, Zenon DEF JobsInv, InBatch
<1> QED BY <1>8, <1>9, Zenon DEF ChainInv

-----------------------------------------------------------------------------
(* What a step of a switch finds. *)
LEMMA BusyFacts ==
  ASSUME ChainInv, NEW op, Busy(op)
  PROVE  /\ Good(Now) /\ Now.db = db /\ ChainOk(db.blocks) /\ InBatch
         /\ jobs # <<>> /\ JobsOk(jobs, db.blocks) /\ JobOk(Job, db.blocks) /\ Job.op = op
<1>1. Good(Now) /\ Now.db = db /\ ChainOk(db.blocks)
  BY NowState, Zenon DEF Good
<1>2. jobs # <<>> /\ Job.op = op
  BY Zenon DEF Busy, Idle
<1>3. InBatch /\ JobsOk(jobs, db.blocks)
  BY <1>2, Zenon DEF ChainInv, JobsInv, Idle
<1>4. JobOk(Job, db.blocks)
  BY <1>2, <1>3, Zenon DEF JobsOk, Job
<1> QED BY <1>1, <1>2, <1>3, <1>4, Zenon

(* A step of a switch keeps the invariant when it keeps what has to hold of
   the chain and leaves switches that find what they need.                  *)
LEMMA SwitchKeeps ==
  ASSUME ChainInv, InBatch, SwitchFrame, undone' = undone,
         NEW T, Keeps(Now, T), Become(T), JobsOk(jobs', T.db.blocks)
  PROVE  ChainInv'
<1>1. UNCHANGED <<batch, m_checkpoints, undone>>
  BY Zenon DEF SwitchFrame
<1>2. DbInv' /\ BatchInv' /\ PointsInv' /\ db' = T.db
  BY <1>1, BatchStep, Zenon
<1>3. JobsInv'
  BY <1>1, <1>2, Zenon DEF JobsInv, InBatch
<1> QED BY <1>2, <1>3, Zenon DEF ChainInv

(* The main chain is popped down to the block the alternative starts from. *)
LEMMA SwitchPopStep ==
  ASSUME ChainInv, SwitchPop, undone' = undone
  PROVE  ChainInv'
<1> DEFINE blocks == db.blocks
           n == Len(blocks)
           base == Prev[Job.alt_chain[1]]
<1>1. /\ Good(Now) /\ Now.db = db /\ ChainOk(blocks) /\ InBatch
      /\ jobs # <<>> /\ JobsOk(jobs, blocks) /\ JobOk(Job, blocks) /\ Job.op = "pop"
  <2>1. Busy("pop")
    BY Zenon DEF SwitchPop
  <2> QED BY <2>1, BusyFacts, Zenon
<1>2. SwitchFrame
  BY Zenon DEF SwitchPop
<1>3. n \in Nat \ {0} /\ IsSeq(blocks) /\ base \in IdsOf(blocks) /\ IsJob(Job)
  BY <1>1, Zenon DEF ChainOk, JobOk
<1>4. Tip(Now).id = blocks[n].id /\ Height(Now) = n
  BY <1>1, Zenon DEF Tip, Height
<1>5. CASE blocks[n].id # base
  <2> DEFINE T == pop_block_from_blockchain(Now)
             j == [Job EXCEPT !.disconnected = <<blocks[n].id>> \o @]
  <2>1. Become(T) /\ jobs' = Append(Front(jobs), j)
    <3> HIDE DEF T
    <3> QED BY <1>4, <1>5, Zenon DEF SwitchPop, Go, Outer, T
  <2>2. PICK i \in 1..n : base = blocks[i].id
    BY <1>3, Zenon DEF IdsOf
  <2>3. i # n
    BY <1>5, <2>2, Zenon
  <2>4. n > 1 /\ i \in 1..(n - 1) /\ n - 1 \in 0..n /\ n \in 1..n /\ n # 1
    <3>1. n \in Nat \ {0} /\ i \in 1..n
      BY <1>3, Zenon
    <3> HIDE DEF n
    <3> QED BY <3>1, <2>3
  <2>5. KeepsClean(Now, T) /\ T.db.blocks = SubSeq(blocks, 1, n - 1)
    BY <1>1, <2>4, PopKeeps, Zenon
  <2> HIDE DEF T
  <2>6. base \in IdsOf(T.db.blocks)
    <3>1. /\ Len(SubSeq(blocks, 1, n - 1)) = n - 1
          /\ SubSeq(blocks, 1, n - 1)[i] = blocks[i]
      BY <1>3, <2>4, PrefixSeq, Zenon
    <3> QED BY <3>1, <2>2, <2>4, <2>5, Zenon DEF IdsOf
  <2>7. blocks[n].id \in Blocks
    BY <1>1, <2>4, Zenon DEF ChainOk
  <2>8. IsJob(j) /\ j.op = "pop" /\ j.alt_chain = Job.alt_chain /\ j.n = Job.n
    <3> DEFINE list == <<blocks[n].id>> \o Job.disconnected
    <3>1. list \in Seq(Blocks)
      BY <1>3, <2>7 DEF IsJob
    <3>2. j = [Job EXCEPT !.disconnected = list]
      BY Zenon
    <3> HIDE DEF list, j
    <3>3. DOMAIN j = JobFields /\ j.disconnected = list /\ j.op = Job.op
      BY <1>3, <3>2, Zenon DEF IsJob, JobFields
    <3>4. j.alt_chain = Job.alt_chain /\ j.split = Job.split /\ j.n = Job.n /\ j.back = Job.back
      BY <1>3, <3>2, Zenon DEF IsJob, JobFields
    <3> QED BY <1>1, <1>3, <3>1, <3>3, <3>4, Zenon DEF IsJob
  <2> HIDE DEF j
  <2>9. JobOk(j, T.db.blocks)
    BY <1>1, <2>6, <2>8, Zenon DEF JobOk
  <2>10. JobsOk(jobs', T.db.blocks)
    BY <1>1, <2>1, <2>9, JobsGo, Zenon
  <2>11. Keeps(Now, T)
    BY <2>5, KeepsLater, Zenon
  <2> QED BY <1>1, <1>2, <2>1, <2>10, <2>11, SwitchKeeps, Zenon
<1>6. CASE blocks[n].id = base
  <2> DEFINE T == ForgetCache(Now)
             j == [Job EXCEPT !.op = "connect", !.split = n]
  <2>1. Become(T) /\ jobs' = Append(Front(jobs), j)
    <3> HIDE DEF T
    <3> QED BY <1>4, <1>6, Zenon DEF SwitchPop, Go, Outer, T
  <2>2. KeepsClean(Now, T) /\ T.db = db
    BY <1>1, ForgetKeeps, Zenon
  <2> HIDE DEF T
  <2>3. IsJob(j) /\ j.op = "connect" /\ j.split = n /\ j.n = Job.n /\ j.alt_chain = Job.alt_chain
    <3> HIDE DEF n
    <3>1. DOMAIN j = JobFields /\ j.op = "connect" /\ j.split = n /\ j.disconnected = Job.disconnected
      BY <1>3, Zenon DEF IsJob, JobFields
    <3>2. j.alt_chain = Job.alt_chain /\ j.n = Job.n /\ j.back = Job.back
      BY <1>3, Zenon DEF IsJob, JobFields
    <3> HIDE DEF j
    <3>3. n \in Nat
      BY <1>3, Zenon
    <3> QED BY <1>3, <3>1, <3>2, <3>3, Zenon DEF IsJob
  <2> HIDE DEF j
  <2>4. 1 <= n /\ n <= n
    BY <1>3
  <2>5. Job.n <= Len(Job.alt_chain)
    BY <1>1, Zenon DEF JobOk
  <2>6. JobOk(j, T.db.blocks)
    BY <2>2, <2>3, <2>4, <2>5, Zenon DEF JobOk
  <2>7. JobsOk(jobs', T.db.blocks)
    BY <1>1, <2>1, <2>6, JobsGo, Zenon
  <2>8. Keeps(Now, T)
    BY <2>2, KeepsLater, Zenon
  <2> QED BY <1>1, <1>2, <2>1, <2>7, <2>8, SwitchKeeps, Zenon
<1> QED BY <1>5, <1>6, Zenon

(* The blocks of the alternative are connected; one that is refused sends the
   switch to its rollback.                                                  *)
LEMMA SwitchConnectStep ==
  ASSUME ChainInv, SwitchConnect, undone' = undone
  PROVE  ChainInv'
<1> DEFINE b == Job.alt_chain[Job.n]
           T == handle_block_to_main_chain(Now, b)
<1>1. /\ Good(Now) /\ Now.db = db /\ ChainOk(db.blocks) /\ InBatch
      /\ jobs # <<>> /\ JobsOk(jobs, db.blocks) /\ JobOk(Job, db.blocks) /\ Job.op = "connect"
  <2>1. Busy("connect")
    BY Zenon DEF SwitchConnect
  <2> QED BY <2>1, BusyFacts, Zenon
<1>2. SwitchFrame
  BY Zenon DEF SwitchConnect
<1>3. /\ IsJob(Job) /\ Job.n <= Len(Job.alt_chain)
      /\ 1 <= Job.split /\ Job.split <= Len(db.blocks)
      /\ Len(db.blocks) \in Nat \ {0} /\ IsSeq(db.blocks)
  BY <1>1, Zenon DEF JobOk, ChainOk
<1>4. b \in Blocks
  BY <1>3 DEF IsJob
<1>5. /\ Keeps(Now, T)
      /\ T.db.blocks = db.blocks \/ \E e : T.db.blocks = Append(db.blocks, e)
  BY <1>1, <1>4, MainKeeps, Zenon
<1>6. Len(db.blocks) <= Len(T.db.blocks) /\ Len(T.db.blocks) \in Nat
  <2> HIDE DEF T
  <2>1. Len(T.db.blocks) = Len(db.blocks) \/ Len(T.db.blocks) = Len(db.blocks) + 1
    <3>1. \A e : Len(Append(db.blocks, e)) = Len(db.blocks) + 1
      BY <1>3, AppendSeq, Zenon
    <3> QED BY <1>5, <3>1, Zenon
  <2> QED BY <2>1, <1>3
<1>7. /\ Become(T)
      /\ \/ jobs' = Append(Front(jobs), [Job EXCEPT !.op = "rollback"])
         \/ /\ Job.n < Len(Job.alt_chain)
            /\ jobs' = Append(Front(jobs), [Job EXCEPT !.n = @ + 1])
         \/ jobs' = Append(Front(jobs), [Job EXCEPT !.op = "push", !.n = 1])
  <2>1. /\ Become(T)
        /\ CASE ~T.added -> Go([Job EXCEPT !.op = "rollback"])
             [] T.added /\ Job.n < Len(Job.alt_chain) -> Go([Job EXCEPT !.n = @ + 1])
             [] OTHER -> Go([Job EXCEPT !.op = "push", !.n = 1])
    BY Zenon DEF SwitchConnect
  <2> HIDE DEF T
  <2>2. \/ Go([Job EXCEPT !.op = "rollback"])
        \/ Job.n < Len(Job.alt_chain) /\ Go([Job EXCEPT !.n = @ + 1])
        \/ Go([Job EXCEPT !.op = "push", !.n = 1])
    BY <2>1, Zenon
  <2> QED BY <2>1, <2>2, Zenon DEF Go, Outer
<1> HIDE DEF T, b
<1>8. Job.split <= Len(T.db.blocks)
  BY <1>3, <1>6 DEF IsJob
<1>9. CASE jobs' = Append(Front(jobs), [Job EXCEPT !.op = "rollback"])
  <2> DEFINE j == [Job EXCEPT !.op = "rollback"]
  <2>1. DOMAIN j = JobFields /\ j.op = "rollback" /\ j.alt_chain = Job.alt_chain
          /\ j.disconnected = Job.disconnected
    BY <1>3, Zenon DEF IsJob, JobFields
  <2>2. j.split = Job.split /\ j.n = Job.n /\ j.back = Job.back
    BY <1>3, Zenon DEF IsJob, JobFields
  <2> HIDE DEF j
  <2>3. JobOk(j, T.db.blocks)
    BY <2>1, <2>2, <1>3, <1>8, Zenon DEF JobOk, IsJob
  <2>4. JobsOk(jobs', T.db.blocks)
    BY <1>1, <1>9, <2>3, JobsGo, Zenon DEF j
  <2> QED BY <1>1, <1>2, <1>5, <1>7, <2>4, SwitchKeeps, Zenon
<1>10. CASE /\ Job.n < Len(Job.alt_chain)
            /\ jobs' = Append(Front(jobs), [Job EXCEPT !.n = @ + 1])
  <2> DEFINE m == Job.n + 1
             j == [Job EXCEPT !.n = m]
  <2>1. m \in Nat \ {0} /\ m <= Len(Job.alt_chain)
    BY <1>3, <1>10 DEF IsJob
  <2>2. jobs' = Append(Front(jobs), j)
    BY <1>10, Zenon
  <2> HIDE DEF m
  <2>3. DOMAIN j = JobFields /\ j.op = Job.op /\ j.alt_chain = Job.alt_chain
          /\ j.disconnected = Job.disconnected
    BY <1>3, Zenon DEF IsJob, JobFields
  <2>4. j.split = Job.split /\ j.n = m /\ j.back = Job.back
    BY <1>3, Zenon DEF IsJob, JobFields
  <2> HIDE DEF j
  <2>5. JobOk(j, T.db.blocks)
    BY <2>1, <2>3, <2>4, <1>1, <1>3, <1>8, Zenon DEF JobOk, IsJob
  <2>6. JobsOk(jobs', T.db.blocks)
    BY <1>1, <2>2, <2>5, JobsGo, Zenon
  <2> QED BY <1>1, <1>2, <1>5, <1>7, <2>6, SwitchKeeps, Zenon
<1>11. CASE jobs' = Append(Front(jobs), [Job EXCEPT !.op = "push", !.n = 1])
  <2> DEFINE j == [Job EXCEPT !.op = "push", !.n = 1]
  <2>1. DOMAIN j = JobFields /\ j.op = "push" /\ j.alt_chain = Job.alt_chain
          /\ j.disconnected = Job.disconnected
    BY <1>3, Zenon DEF IsJob, JobFields
  <2>2. j.split = Job.split /\ j.n = 1 /\ j.back = Job.back
    BY <1>3, Zenon DEF IsJob, JobFields
  <2>3. 1 \in Nat \ {0}
    OBVIOUS
  <2> HIDE DEF j
  <2>4. JobOk(j, T.db.blocks)
    BY <2>1, <2>2, <2>3, <1>3, Zenon DEF JobOk, IsJob
  <2>5. JobsOk(jobs', T.db.blocks)
    BY <1>1, <1>11, <2>4, JobsGo, Zenon DEF j
  <2> QED BY <1>1, <1>2, <1>5, <1>7, <2>5, SwitchKeeps, Zenon
<1> QED BY <1>7, <1>9, <1>10, <1>11, Zenon

(* The blocks a failed switch connected are popped, down to the split. *)
LEMMA RollbackStep ==
  ASSUME ChainInv, Rollback, undone' = undone
  PROVE  ChainInv'
<1> DEFINE n == Len(db.blocks)
<1>1. /\ Good(Now) /\ Now.db = db /\ ChainOk(db.blocks) /\ InBatch
      /\ jobs # <<>> /\ JobsOk(jobs, db.blocks) /\ JobOk(Job, db.blocks) /\ Job.op = "rollback"
  <2>1. Busy("rollback")
    BY Zenon DEF Rollback
  <2> QED BY <2>1, BusyFacts, Zenon
<1>2. SwitchFrame
  BY Zenon DEF Rollback
<1>3. /\ IsJob(Job) /\ 1 <= Job.split /\ Job.split <= n /\ Job.split \in Nat
      /\ n \in Nat \ {0} /\ IsSeq(db.blocks) /\ Height(Now) = n
  BY <1>1, Zenon DEF JobOk, ChainOk, IsJob, Height
<1>4. CASE n # Job.split
  <2> DEFINE T == pop_block_from_blockchain(Now)
  <2>1. Become(T) /\ jobs' = jobs
    <3> HIDE DEF T
    <3> QED BY <1>3, <1>4, Zenon DEF Rollback, T
  <2>2. n > 1 /\ n - 1 \in 0..n /\ Job.split <= n - 1
    <3> HIDE DEF n
    <3> QED BY <1>3, <1>4
  <2>3. KeepsClean(Now, T) /\ T.db.blocks = SubSeq(db.blocks, 1, n - 1)
    BY <1>1, <2>2, PopKeeps, Zenon
  <2> HIDE DEF T
  <2>4. Len(T.db.blocks) = n - 1
    <3>1. Len(SubSeq(db.blocks, 1, n - 1)) = n - 1
      BY <1>3, <2>2, PrefixSeq, Zenon
    <3> QED BY <2>3, <3>1, Zenon
  <2>5. Job.split <= Len(T.db.blocks)
    BY <2>2, <2>4, Zenon
  <2>6. Job.op \notin {"pop", "connect"}
    BY <1>1, Zenon
  <2>7. JobOk(Job, T.db.blocks)
    <3>1. Job.op # "pop"
      BY <2>6, Zenon
    <3> QED BY <1>1, <1>3, <2>5, <2>6, <3>1, Zenon DEF JobOk
  <2>8. JobsOk(jobs', T.db.blocks)
    BY <1>1, <2>1, <2>7, Zenon DEF JobsOk, Job
  <2>9. Keeps(Now, T)
    BY <2>3, KeepsLater, Zenon
  <2> QED BY <1>1, <1>2, <2>1, <2>8, <2>9, SwitchKeeps, Zenon
<1>5. CASE n = Job.split
  <2> DEFINE F == ForgetCache(Now)
             T == reorganize_from_chain_height(F, Job.split)
             j == [Job EXCEPT !.op = "restore"]
  <2>1. Become(T) /\ jobs' = Append(Front(jobs), j)
    <3> HIDE DEF T
    <3> QED BY <1>3, <1>5, Zenon DEF Rollback, Go, Outer, T
  <2>2. KeepsClean(Now, T) /\ T.db = db
    <3>1. KeepsClean(Now, F) /\ F.db = db
      BY <1>1, ForgetKeeps, Zenon
    <3> HIDE DEF F
    <3>2. KeepsClean(F, T) /\ T.db = F.db
      BY <3>1, ReorganizeKeeps, Zenon DEF KeepsClean
    <3> HIDE DEF T
    <3> QED BY <3>1, <3>2, KeepsLater, Zenon
  <2> HIDE DEF T
  <2>3. JobOk(j, T.db.blocks)
    <3>1. DOMAIN j = JobFields /\ j.op = "restore" /\ j.alt_chain = Job.alt_chain
            /\ j.disconnected = Job.disconnected
      BY <1>3, Zenon DEF IsJob, JobFields
    <3>2. j.split = Job.split /\ j.n = Job.n /\ j.back = Job.back
      BY <1>3, Zenon DEF IsJob, JobFields
    <3> HIDE DEF j
    <3> QED BY <1>3, <3>1, <3>2, Zenon DEF JobOk, IsJob
  <2> HIDE DEF j
  <2>4. JobsOk(jobs', T.db.blocks)
    BY <1>1, <2>1, <2>3, JobsGo, Zenon
  <2>5. Keeps(Now, T)
    BY <2>2, KeepsLater, Zenon
  <2> QED BY <1>1, <1>2, <2>1, <2>4, <2>5, SwitchKeeps, Zenon
<1> QED BY <1>4, <1>5, Zenon

(* A call that does nothing. *)
LEMMA NowKeeps ==
  ASSUME ChainInv
  PROVE  Keeps(Now, Now)
<1>1. Good(Now)
  BY NowState, Zenon
<1> QED BY <1>1, Zenon DEF Keeps

(* The original blocks are put back, one after the other. *)
LEMMA RestoreStep ==
  ASSUME ChainInv, Restore, undone' = undone
  PROVE  ChainInv'
<1> DEFINE b == Job.disconnected[Job.back]
           m == Job.back + 1
           R == reorganize_from_chain_height(Now, Job.split)
           T == handle_block_to_main_chain(Now, b)
           mark == [Job EXCEPT !.op = "mark"]
           next == [Job EXCEPT !.back = m]
<1>1. /\ Good(Now) /\ Now.db = db /\ ChainOk(db.blocks) /\ InBatch
      /\ jobs # <<>> /\ JobsOk(jobs, db.blocks) /\ JobOk(Job, db.blocks) /\ Job.op = "restore"
  <2>1. Busy("restore")
    BY Zenon DEF Restore
  <2> QED BY <2>1, BusyFacts, Zenon
<1>2. SwitchFrame
  BY Zenon DEF Restore
<1>3. IsJob(Job)
  BY <1>1, Zenon DEF JobOk
<1>4. \/ Become(R) /\ jobs' = Append(Front(jobs), mark)
      \/ /\ ~(Job.back > Len(Job.disconnected)) /\ Become(T)
         /\ jobs' = Append(Front(jobs), mark) \/ jobs' = Append(Front(jobs), next)
  <2> HIDE DEF R, T, mark
  <2>1. IF Job.back > Len(Job.disconnected)
        THEN Become(R) /\ Go(mark)
        ELSE Become(T) /\ Go(IF T.added THEN next ELSE mark)
    BY Zenon DEF Restore, R, T, mark
  <2> HIDE DEF next
  <2> QED BY <2>1, Zenon DEF Go, Outer
<1>5. \A blocks : JobOk(mark, blocks)
  <2>1. DOMAIN mark = JobFields /\ mark.op = "mark" /\ mark.alt_chain = Job.alt_chain
          /\ mark.disconnected = Job.disconnected
    BY <1>3, Zenon DEF IsJob, JobFields
  <2>2. mark.split = Job.split /\ mark.n = Job.n /\ mark.back = Job.back
    BY <1>3, Zenon DEF IsJob, JobFields
  <2> HIDE DEF mark
  <2> QED BY <1>3, <2>1, <2>2, Zenon DEF JobOk, IsJob
<1>6. \A blocks : JobOk(next, blocks)
  <2>1. m \in Nat \ {0}
    BY <1>3 DEF IsJob
  <2> HIDE DEF m
  <2>2. DOMAIN next = JobFields /\ next.op = "restore" /\ next.alt_chain = Job.alt_chain
          /\ next.disconnected = Job.disconnected
    BY <1>1, <1>3, Zenon DEF IsJob, JobFields
  <2>3. next.split = Job.split /\ next.n = Job.n /\ next.back = m
    BY <1>3, Zenon DEF IsJob, JobFields
  <2> HIDE DEF next
  <2> QED BY <1>3, <2>1, <2>2, <2>3, Zenon DEF JobOk, IsJob
<1> HIDE DEF mark, next
<1>7. \A blocks : /\ JobsOk(Append(Front(jobs), mark), blocks)
                  /\ JobsOk(Append(Front(jobs), next), blocks)
  BY <1>1, <1>5, <1>6, JobsGo, Zenon
<1>8. CASE Become(R) /\ jobs' = Append(Front(jobs), mark)
  <2>1. Keeps(Now, R)
    BY <1>1, ReorganizeKeeps, KeepsLater, Zenon
  <2> HIDE DEF R
  <2> QED BY <1>1, <1>2, <1>7, <1>8, <2>1, SwitchKeeps, Zenon
<1>9. CASE /\ ~(Job.back > Len(Job.disconnected)) /\ Become(T)
           /\ jobs' = Append(Front(jobs), mark) \/ jobs' = Append(Front(jobs), next)
  <2>1. b \in Blocks
    <3>1. Job.disconnected \in Seq(Blocks) /\ Job.back \in Nat \ {0}
      BY <1>3, Zenon DEF IsJob
    <3> QED BY <1>9, <3>1
  <2>2. Keeps(Now, T)
    BY <1>1, <2>1, MainKeeps, Zenon
  <2> HIDE DEF T
  <2>3. JobsOk(jobs', T.db.blocks)
    BY <1>7, <1>9, Zenon
  <2> QED BY <1>1, <1>2, <1>9, <2>2, <2>3, SwitchKeeps, Zenon
<1> QED BY <1>4, <1>8, <1>9, Zenon

(* The alternatives and the invalid blocks are all the end of a switch changes. *)
LEMMA AltKeeps ==
  ASSUME NEW S, Good(S), NEW T, IsState(T), T.success = S.success,
         T.db.blocks = S.db.blocks, T.db.stray = S.db.stray, T.db.txpool = S.db.txpool
  PROVE  Keeps(S, T)
<1>1. KeepsClean(S, T)
  BY SameBlocksKeeps, Zenon
<1> QED BY <1>1, KeepsLater, Zenon

(* A switch that failed marks its blocks as invalid and ends. *)
LEMMA MarkInvalidStep ==
  ASSUME ChainInv, MarkInvalid, undone' = undone
  PROVE  ChainInv'
<1> DEFINE failed == {Job.alt_chain[i] : i \in Job.n..Len(Job.alt_chain)}
           T == [Now EXCEPT !.invalid = @ \cup failed, !.db.alt_blocks = Without(@, failed)]
<1>1. /\ Good(Now) /\ Now.db = db /\ ChainOk(db.blocks) /\ InBatch
      /\ jobs # <<>> /\ JobsOk(jobs, db.blocks) /\ JobOk(Job, db.blocks) /\ Job.op = "mark"
  <2>1. Busy("mark")
    BY Zenon DEF MarkInvalid
  <2> QED BY <2>1, BusyFacts, Zenon
<1>2. SwitchFrame /\ Become(T) /\ jobs' = Front(jobs)
  BY Zenon DEF MarkInvalid, Outer
<1>3. Keeps(Now, T)
  <2> HIDE DEF failed
  <2>1. IsState(Now)
    BY <1>1, Zenon DEF Good
  <2>2. /\ IsState(T) /\ T.success = Now.success /\ T.db.blocks = Now.db.blocks
        /\ T.db.txpool = Now.db.txpool /\ T.db.stray = Now.db.stray
    BY <2>1, Zenon DEF IsState, StateFields, DbFields
  <2> HIDE DEF T
  <2> QED BY <1>1, <2>2, AltKeeps, Zenon
<1> HIDE DEF T
<1>4. JobsOk(jobs', T.db.blocks)
  BY <1>1, <1>2, JobsEnd, Zenon
<1> QED BY <1>1, <1>2, <1>3, <1>4, SwitchKeeps, Zenon

(* A switch that succeeded takes its blocks from the alternatives and ends. *)
LEMMA SwitchRemoveStep ==
  ASSUME ChainInv, SwitchRemove, undone' = undone
  PROVE  ChainInv'
<1> DEFINE gone == Range(Job.alt_chain)
           A == [Now EXCEPT !.db.alt_blocks = Without(@, gone)]
           T == reorganize_from_chain_height(A, Job.split)
<1>1. /\ Good(Now) /\ Now.db = db /\ ChainOk(db.blocks) /\ InBatch
      /\ jobs # <<>> /\ JobsOk(jobs, db.blocks) /\ JobOk(Job, db.blocks) /\ Job.op = "remove"
  <2>1. Busy("remove")
    BY Zenon DEF SwitchRemove
  <2> QED BY <2>1, BusyFacts, Zenon
<1>2. SwitchFrame /\ Become(T) /\ jobs' = Front(jobs)
  BY Zenon DEF SwitchRemove, Outer
<1>3. Keeps(Now, T)
  <2> HIDE DEF gone
  <2>1. IsState(Now)
    BY <1>1, Zenon DEF Good
  <2>2. /\ IsState(A) /\ A.success = Now.success /\ A.db.blocks = Now.db.blocks
        /\ A.db.txpool = Now.db.txpool /\ A.db.stray = Now.db.stray
    BY <2>1, Zenon DEF IsState, StateFields, DbFields
  <2> HIDE DEF A
  <2>3. IsState(T) /\ T.db = A.db /\ T.success = A.success
    BY <2>2, ReorganizeState, Zenon
  <2> HIDE DEF T
  <2> QED BY <1>1, <2>2, <2>3, AltKeeps, Zenon
<1> HIDE DEF T
<1>4. JobsOk(jobs', T.db.blocks)
  BY <1>1, <1>2, JobsEnd, Zenon
<1> QED BY <1>1, <1>2, <1>3, <1>4, SwitchKeeps, Zenon

(* The old blocks are handled as alternatives, one after the other; that may
   start a switch inside this one.                                          *)
LEMMA SwitchPushStep ==
  ASSUME ChainInv, SwitchPush, undone' = undone
  PROVE  ChainInv'
<1> DEFINE b == Job.disconnected[Job.n]
           m == Job.n + 1
           next == [Job EXCEPT !.n = m]
           remove == [Job EXCEPT !.op = "remove"]
           stack == Append(Front(jobs), next)
<1>1. /\ Good(Now) /\ Now.db = db /\ ChainOk(db.blocks) /\ InBatch
      /\ jobs # <<>> /\ JobsOk(jobs, db.blocks) /\ JobOk(Job, db.blocks) /\ Job.op = "push"
  <2>1. Busy("push")
    BY Zenon DEF SwitchPush
  <2> QED BY <2>1, BusyFacts, Zenon
<1>2. SwitchFrame
  BY Zenon DEF SwitchPush
<1>3. IsJob(Job)
  BY <1>1, Zenon DEF JobOk
<1>4. \/ Become(Now) /\ jobs' = Append(Front(jobs), remove)
      \/ ~(Job.n > Len(Job.disconnected)) /\ handle_alternative_block(Now, b, stack)
  <2>1. IF Job.discard \/ Job.n > Len(Job.disconnected)
        THEN Become(Now) /\ Go(remove)
        ELSE handle_alternative_block(Now, b, stack)
    BY Zenon DEF SwitchPush, Outer
  <2> HIDE DEF next, stack, remove
  <2> QED BY <2>1, Zenon DEF Go, Outer
<1>5. CASE Become(Now) /\ jobs' = Append(Front(jobs), remove)
  <2>1. JobOk(remove, db.blocks)
    <3>1. DOMAIN remove = JobFields /\ remove.op = "remove" /\ remove.alt_chain = Job.alt_chain
            /\ remove.disconnected = Job.disconnected
      BY <1>3, Zenon DEF IsJob, JobFields
    <3>2. remove.split = Job.split /\ remove.n = Job.n /\ remove.back = Job.back
      BY <1>3, Zenon DEF IsJob, JobFields
    <3> HIDE DEF remove
    <3> QED BY <1>3, <3>1, <3>2, Zenon DEF JobOk, IsJob
  <2> HIDE DEF remove
  <2>2. JobsOk(jobs', Now.db.blocks)
    BY <1>1, <1>5, <2>1, JobsGo, Zenon
  <2> QED BY <1>1, <1>2, <1>5, <2>2, NowKeeps, SwitchKeeps, Zenon
<1>6. CASE ~(Job.n > Len(Job.disconnected)) /\ handle_alternative_block(Now, b, stack)
  <2>1. b \in Blocks /\ m \in Nat \ {0}
    <3>1. Job.disconnected \in Seq(Blocks) /\ Job.n \in Nat \ {0}
      BY <1>3, Zenon DEF IsJob
    <3> QED BY <1>6, <3>1
  <2> HIDE DEF m, b
  <2>2. JobOk(next, db.blocks) /\ next.op = "push"
    <3>1. DOMAIN next = JobFields /\ next.op = "push" /\ next.alt_chain = Job.alt_chain
            /\ next.disconnected = Job.disconnected
      BY <1>1, <1>3, Zenon DEF IsJob, JobFields
    <3>2. next.split = Job.split /\ next.n = m /\ next.back = Job.back
      BY <1>3, Zenon DEF IsJob, JobFields
    <3> HIDE DEF next
    <3> QED BY <1>3, <2>1, <3>1, <3>2, Zenon DEF JobOk, IsJob
  <2> HIDE DEF next
  <2>3. JobsOk(stack, db.blocks)
    BY <1>1, <2>2, JobsGo, Zenon
  <2>4. stack[Len(stack)] = next
    <3>1. JobsOk(Front(jobs), db.blocks)
      BY <1>1, JobsEnd, Zenon
    <3>2. IsSeq(Front(jobs))
      BY <3>1, Zenon DEF JobsOk
    <3>3. Len(stack) = Len(Front(jobs)) + 1 /\ stack[Len(Front(jobs)) + 1] = next
      BY <3>2, AppendSeq, Zenon
    <3> QED BY <3>3, Zenon
  <2> HIDE DEF stack
  <2>5. PICK T : KeepsClean(Now, T) /\ Become(T) /\ JobsOk(jobs', T.db.blocks)
    BY <1>1, <1>6, <2>1, <2>2, <2>3, <2>4, AlternativeStep, Zenon
  <2>6. Keeps(Now, T)
    BY <2>5, KeepsLater, Zenon
  <2> QED BY <1>1, <1>2, <2>5, <2>6, SwitchKeeps, Zenon
<1> QED BY <1>4, <1>5, <1>6, Zenon

-----------------------------------------------------------------------------
(* A batch is opened on the database as it is. *)
LEMMA PrepareStep ==
  ASSUME ChainInv, prepare_handle_incoming_blocks, undone' = undone
  PROVE  ChainInv'
<1>1. /\ Idle /\ ~InBatch /\ batch' = db /\ db' = db
      /\ m_checkpoints' = m_checkpoints /\ jobs' = jobs
  BY Zenon DEF prepare_handle_incoming_blocks
<1>2. DOMAIN db = DbFields /\ ChainOk(db.blocks) /\ Clean(db)
  BY <1>1, Zenon DEF ChainInv, DbInv
<1>3. DbInv' /\ BatchInv'
  BY <1>1, <1>2, Zenon DEF DbInv, BatchInv
<1>4. PointsInv'
  <2>1. undone # "may" /\ (undone # "yes" => PointsOk(db.blocks, m_checkpoints))
    BY <1>1, Zenon DEF ChainInv, PointsInv
  <2> QED BY <1>1, <2>1, Zenon DEF ChainInv, PointsInv
<1>5. JobsInv'
  BY <1>1, Zenon DEF ChainInv, JobsInv, Idle
<1> QED BY <1>3, <1>4, <1>5, Zenon DEF ChainInv

(* A batch ends: its changes stay, or the database is as it was before it. *)
LEMMA CleanupStep ==
  ASSUME ChainInv, cleanup_handle_incoming_blocks,
         undone' = IF undone # "may" THEN undone ELSE IF m_batch_success THEN "no" ELSE "yes"
  PROVE  ChainInv'
<1>1. /\ Idle /\ InBatch /\ batch' = NoBatch
      /\ db' = (IF m_batch_success THEN db ELSE batch)
      /\ m_checkpoints' = m_checkpoints /\ jobs' = jobs
  BY Zenon DEF cleanup_handle_incoming_blocks
<1>2. ~InBatch'
  BY <1>1, Zenon DEF InBatch
<1>3. DOMAIN db' = DbFields /\ ChainOk(db'.blocks) /\ Clean(db')
  <2>1. CASE m_batch_success
    BY <1>1, <2>1, Zenon DEF ChainInv, DbInv
  <2>2. CASE ~m_batch_success
    BY <1>1, <2>2, Zenon DEF ChainInv, BatchInv
  <2> QED BY <2>1, <2>2, Zenon
<1>4. DbInv' /\ BatchInv'
  BY <1>2, <1>3, Zenon DEF DbInv, BatchInv
<1>5. PointsInv'
  <2>1. /\ DOMAIN m_checkpoints \subseteq Nat /\ undone \in {"no", "may", "yes"}
        /\ undone # "yes" => PointsOk(db.blocks, m_checkpoints)
        /\ undone = "no" => PointsOk(batch.blocks, m_checkpoints)
    BY <1>1, Zenon DEF ChainInv, PointsInv
  <2>2. undone' \in {"no", "yes"} /\ undone' # "may"
    BY <2>1, Zenon
  <2>3. undone' # "yes" => PointsOk(db'.blocks, m_checkpoints)
    <3>1. CASE m_batch_success
      <4>1. undone' # "yes" => undone # "yes"
        BY <3>1, Zenon
      <4> QED BY <1>1, <2>1, <3>1, <4>1, Zenon
    <3>2. CASE ~m_batch_success
      <4>1. undone' # "yes" => undone = "no"
        BY <2>1, <3>2, Zenon
      <4> QED BY <1>1, <2>1, <3>2, <4>1, Zenon
    <3> QED BY <3>1, <3>2, Zenon
  <2> QED BY <1>1, <1>2, <2>1, <2>2, <2>3, Zenon DEF PointsInv
<1>6. JobsInv'
  <2>1. JobsOk(jobs', db'.blocks)
    BY <1>1, NoJobs, Zenon DEF Idle
  <2> QED BY <1>1, <2>1, Zenon DEF JobsInv, Idle
<1> QED BY <1>4, <1>5, <1>6, Zenon DEF ChainInv

(* A handler that is not part of a switch. *)
LEMMA QuietStep ==
  ASSUME ChainInv, Idle, UNCHANGED <<batch, m_checkpoints, jobs>>, undone' = undone,
         NEW T, KeepsClean(Now, T), Become(T)
  PROVE  ChainInv'
<1>1. UNCHANGED <<batch, m_checkpoints, undone>> /\ jobs' = <<>>
  BY Zenon DEF Idle
<1>2. DbInv' /\ BatchInv' /\ PointsInv'
  BY <1>1, CleanStep, Zenon
<1>3. JobsInv'
  BY <1>1, NoJobs, Zenon DEF JobsInv, Idle
<1> QED BY <1>2, <1>3, Zenon DEF ChainInv

(* Blocks are popped by hand. *)
LEMMA PopBlocksStep ==
  ASSUME ChainInv, NEW nblocks \in 1..MaxPops, pop_blocks(nblocks), undone' = undone
  PROVE  ChainInv'
<1> DEFINE n == Len(db.blocks)
           S == {nblocks, n - 1}
           T == Popped(Now, Min(S))
<1>1. Good(Now) /\ Now.db = db /\ ChainOk(db.blocks)
  BY NowState, Zenon DEF Good
<1>2. Height(Now) = n /\ n \in Nat
  BY <1>1, Zenon DEF Height, ChainOk
<1>3. /\ Idle /\ UNCHANGED <<batch, m_checkpoints, jobs>> /\ n > 1 /\ Become(T)
  <2> HIDE DEF T
  <2> QED BY <1>2, Zenon DEF pop_blocks, T
<1>4. Min(S) \in 0..(n - 1)
  <2> HIDE DEF n
  <2>1. S \subseteq Nat /\ S # {} /\ n - 1 \in S
    BY <1>2, <1>3, BoundAssumption
  <2> HIDE DEF S
  <2>2. Min(S) \in S /\ Min(S) <= n - 1
    BY <2>1, LowestHeight, Zenon
  <2>3. Min(S) \in Nat
    BY <2>1, <2>2, Zenon
  <2> QED BY <1>2, <2>2, <2>3
<1> HIDE DEF S
<1>5. KeepsClean(Now, T)
  BY <1>1, <1>4, PoppedKeeps, Zenon
<1> HIDE DEF T
<1> QED BY <1>3, <1>5, QuietStep, Zenon

(* A transaction leaves the pool. *)
LEMMA FlushStep ==
  ASSUME ChainInv, NEW t, flush_tx(t), undone' = undone
  PROVE  ChainInv'
<1> DEFINE T == [Now EXCEPT !.db.txpool = @ \ {t}]
<1>1. Good(Now)
  BY NowState, Zenon
<1>2. Idle /\ UNCHANGED <<batch, m_checkpoints, jobs>> /\ Become(T)
  BY Zenon DEF flush_tx
<1>3. KeepsClean(Now, T)
  <2>1. IsState(Now)
    BY <1>1, Zenon DEF Good
  <2>2. /\ IsState(T) /\ T.success = Now.success /\ T.db.blocks = Now.db.blocks
        /\ T.db.txpool = Now.db.txpool \ {t} /\ T.db.stray = Now.db.stray
    BY <2>1, Zenon DEF IsState, StateFields, DbFields
  <2> HIDE DEF T
  <2>3. \A u \in T.db.txpool : u \in Now.db.txpool
    BY <2>2, Zenon
  <2> QED BY <1>1, <2>2, <2>3, SameBlocksKeeps, Zenon
<1> HIDE DEF T
<1> QED BY <1>2, <1>3, QuietStep, Zenon

-----------------------------------------------------------------------------
(* The chain is rolled back below the lowest checkpoint it contradicts, to
   genesis at the lowest.                                                   *)
LEMMA RollbackBelow ==
  ASSUME NEW m \in Nat, 1 < m
  PROVE  Max({1, m - 2}) \in 1..(m - 1)
<1> DEFINE S == {1, m - 2}
<1>1. \E x \in S : \A y \in S : x >= y
  <2>1. CASE m - 2 >= 1
    BY <2>1
  <2>2. CASE ~(m - 2 >= 1)
    BY <2>2
  <2> QED BY <2>1, <2>2, Zenon
<1>2. Max(S) \in S /\ \A y \in S : Max(S) >= y
  <2> HIDE DEF S
  <2> QED BY <1>1, Zenon DEF Max
<1>3. (Max(S) = 1 \/ Max(S) = m - 2) /\ Max(S) >= 1
  BY <1>2, Zenon
<1> QED BY <1>3

(* After check_against_checkpoints the chain contradicts no checkpoint. *)
LEMMA CheckKeeps ==
  ASSUME NEW S, Good(S), NEW points, DOMAIN points \subseteq Nat
  PROVE  LET T == check_against_checkpoints(S, points)
         IN  KeepsClean(S, T) /\ PointsOk(T.db.blocks, points)
<1> DEFINE T == check_against_checkpoints(S, points)
           failing == FailingPoints(S, points)
           blocks == S.db.blocks
           n == Len(blocks)
<1>1. n \in Nat \ {0} /\ IsSeq(blocks) /\ Height(S) = n
  BY Zenon DEF Good, ChainOk, Height
<1>2. \A h \in DOMAIN points : 1 < h /\ h < n /\ h \notin failing => blocks[h + 1].id = points[h]
  BY <1>1, Zenon DEF FailingPoints
<1>3. \A h \in failing : h \in DOMAIN points /\ 1 < h /\ h < n
  BY <1>1, Zenon DEF FailingPoints
<1>4. T = IF failing = {} THEN S ELSE Popped(S, n - RollbackHeight(failing))
  BY <1>1, Zenon DEF check_against_checkpoints
<1> HIDE DEF failing, T
<1>5. CASE failing = {}
  <2>1. T = S
    BY <1>4, <1>5, Zenon
  <2>2. PointsOk(blocks, points)
    BY <1>2, <1>5, Zenon DEF PointsOk
  <2> QED BY <2>1, <2>2, Zenon DEF KeepsClean, T
<1>6. CASE failing # {}
  <2> DEFINE m == Min(failing)
             low == RollbackHeight(failing)
             k == n - low
  <2>1. failing \subseteq Nat
    BY <1>3, Zenon
  <2>2. m \in failing /\ \A h \in failing : m <= h
    BY <1>6, <2>1, LowestHeight, Zenon
  <2>3. m \in Nat /\ 1 < m /\ m < n
    BY <1>3, <2>1, <2>2, Zenon
  <2>4. low \in 1..(m - 1)
    <3>1. low = Max({1, m - 2})
      BY Zenon DEF RollbackHeight
    <3> HIDE DEF m, low
    <3> QED BY <2>3, <3>1, RollbackBelow, Zenon
  <2> HIDE DEF m, low
  <2>5. k \in 0..(n - 1) /\ n - k = low /\ low \in 0..n
    <3> HIDE DEF n
    <3> QED BY <1>1, <2>3, <2>4
  <2>6. T = Popped(S, k)
    BY <1>4, <1>6, Zenon DEF low
  <2> HIDE DEF k
  <2>7. KeepsClean(S, T) /\ T.db.blocks = SubSeq(blocks, 1, low)
    <3>1. KeepsClean(S, Popped(S, k)) /\ Popped(S, k).db.blocks = SubSeq(blocks, 1, n - k)
      BY <2>5, PoppedKeeps, Zenon
    <3> QED BY <2>5, <2>6, <3>1, Zenon
  <2>8. /\ Len(SubSeq(blocks, 1, low)) = low
        /\ \A i \in 1..low : SubSeq(blocks, 1, low)[i] = blocks[i]
    BY <1>1, <2>5, PrefixSeq, Zenon
  <2>9. ASSUME NEW h \in DOMAIN points, 1 < h, h < low
        PROVE  SubSeq(blocks, 1, low)[h + 1].id = points[h]
    <3>1. h + 1 \in 1..low /\ h < n /\ ~(m <= h)
      <4>1. h \in Nat /\ low \in 1..(m - 1) /\ m \in Nat /\ m < n /\ n \in Nat
        BY <1>1, <2>3, <2>4, Zenon
      <4> HIDE DEF n
      <4> QED BY <2>9, <4>1
    <3>2. h \notin failing
      BY <2>2, <3>1, Zenon
    <3> QED BY <1>2, <2>8, <2>9, <3>1, <3>2, Zenon
  <2>10. PointsOk(T.db.blocks, points)
    BY <2>7, <2>8, <2>9, Zenon DEF PointsOk
  <2> QED BY <2>7, <2>10, Zenon DEF T
<1> QED BY <1>5, <1>6, Zenon

(* Checkpoints are loaded and the chain is brought in line with them, in the
   batch of the blocks that arrive or in one of its own.                    *)
LEMMA UpdateStep ==
  ASSUME ChainInv, NEW points \in Points, update_checkpoints(points),
         undone' = IF InBatch THEN "may" ELSE "no"
  PROVE  ChainInv'
<1> DEFINE all == Merged(points, m_checkpoints)
           T == check_against_checkpoints(Now, all)
<1>1. Good(Now) /\ Now.db = db /\ Now.success = m_batch_success
  BY NowState, Zenon
<1>2. /\ Idle /\ batch' = batch /\ jobs' = jobs
      /\ m_checkpoints' = all /\ Become(T)
  <2>1. /\ Idle /\ batch' = batch /\ jobs' = jobs /\ m_checkpoints' = all
        /\ Become(check_against_checkpoints(Now, m_checkpoints'))
    BY Zenon DEF update_checkpoints
  <2> HIDE DEF all
  <2> QED BY <2>1, Zenon
<1>3. DOMAIN all \subseteq Nat
  <2>1. DOMAIN points \subseteq Nat /\ DOMAIN m_checkpoints \subseteq Nat
    BY PointsAssumption, Zenon DEF ChainInv, PointsInv
  <2>2. DOMAIN all = DOMAIN points \cup DOMAIN m_checkpoints
    BY Zenon DEF Merged
  <2> HIDE DEF all
  <2> QED BY <2>1, <2>2, Zenon
<1> HIDE DEF all
<1>4. KeepsClean(Now, T) /\ PointsOk(T.db.blocks, all)
  BY <1>1, <1>3, CheckKeeps, Zenon
<1> HIDE DEF T
<1>5. db' = T.db /\ m_batch_success' = T.success
  BY <1>2, Zenon DEF Become
<1>6. InBatch' <=> InBatch
  BY <1>2, Zenon DEF InBatch
<1>7. DbInv' /\ BatchInv'
  <2>1. DOMAIN T.db = DbFields /\ ChainOk(T.db.blocks)
    BY <1>4, Zenon DEF KeepsClean, Good, IsState
  <2>2. (Clean(db) => Clean(T.db)) /\ T.success = m_batch_success
    BY <1>1, <1>4, Zenon DEF KeepsClean
  <2>3. DbInv'
    BY <2>1, <2>2, <1>5, <1>6, Zenon DEF DbInv, ChainInv
  <2> QED BY <2>3, <1>2, <1>6, Zenon DEF BatchInv, ChainInv
<1>8. PointsInv'
  <2>1. CASE InBatch
    <3>1. undone' = "may" /\ undone' # "no" /\ undone' # "yes" /\ undone' \in {"no", "may", "yes"}
      BY <2>1, Zenon
    <3> QED BY <2>1, <3>1, <1>2, <1>3, <1>4, <1>5, <1>6, Zenon DEF PointsInv
  <2>2. CASE ~InBatch
    <3>1. undone' = "no" /\ undone' # "may" /\ undone' \in {"no", "may", "yes"}
      BY <2>2, Zenon
    <3> QED BY <2>2, <3>1, <1>2, <1>3, <1>4, <1>5, <1>6, Zenon DEF PointsInv
  <2> QED BY <2>1, <2>2, Zenon
<1>9. JobsInv'
  BY <1>2, NoJobs, Zenon DEF JobsInv, Idle
<1> QED BY <1>7, <1>8, <1>9, Zenon DEF ChainInv

(* No checkpoints, nothing to hold. *)
LEMMA NoPointsHold ==
  DOMAIN NoPoints \subseteq Nat /\ \A blocks : PointsOk(blocks, NoPoints)
<1>1. DOMAIN NoPoints = {}
  BY Zenon DEF NoPoints
<1> QED BY <1>1, Zenon DEF PointsOk

(* What init leaves has at least the block of genesis. *)
LEMMA InitialPopRange ==
  ASSUME NEW blocks, Len(blocks) \in Nat \ {0}
  PROVE  InitialPop(blocks) \in 1..Len(blocks)
<1> DEFINE S == {n \in 1..Len(blocks) :
                   n = 1 \/ VersionAt(n - 1) <= 1 \/ VersionAt(n - 1) = Major[blocks[n].id]}
<1>1. 1 \in 1..Len(blocks) /\ Len(blocks) \in Nat
  OBVIOUS
<1>2. S \subseteq 1..Len(blocks) /\ S # {}
  BY <1>1, Zenon
<1>3. InitialPop(blocks) = Max(S)
  BY Zenon DEF InitialPop
<1> HIDE DEF S
<1> QED BY <1>1, <1>2, <1>3, HighestHeight, Zenon

(* The node is restarted on what was committed, less the blocks that are not
   of the version of their height.                                          *)
LEMMA RestartStep ==
  ASSUME ChainInv, restart, undone' = "no"
  PROVE  ChainInv'
<1> DEFINE d == Committed
           n == InitialPop(d.blocks)
<1>1. /\ db' = [d EXCEPT !.blocks = SubSeq(@, 1, n)]
      /\ batch' = NoBatch /\ m_checkpoints' = NoPoints /\ jobs' = <<>>
  BY Zenon DEF restart
<1>2. ~InBatch'
  BY <1>1, Zenon DEF InBatch
<1>3. DOMAIN db' = DbFields /\ ChainOk(db'.blocks) /\ Clean(db')
  <2>1. DOMAIN d = DbFields /\ ChainOk(d.blocks) /\ Clean(d)
    <3>1. CASE InBatch
      BY <3>1, Zenon DEF Committed, ChainInv, BatchInv
    <3>2. CASE ~InBatch
      BY <3>2, Zenon DEF Committed, ChainInv, DbInv
    <3> QED BY <3>1, <3>2, Zenon
  <2> HIDE DEF d
  <2>2. n \in 1..Len(d.blocks)
    BY <2>1, InitialPopRange, Zenon DEF ChainOk
  <2> HIDE DEF n
  <2>3. /\ DOMAIN db' = DbFields /\ db'.blocks = SubSeq(d.blocks, 1, n)
        /\ db'.txpool = d.txpool /\ db'.stray = d.stray
    BY <1>1, <2>1, Zenon DEF DbFields
  <2>4. ChainOk(db'.blocks)
    BY <2>1, <2>2, <2>3, ChainPrefix, Zenon
  <2>5. Clean(db')
    BY <2>1, <2>2, <2>3, CleanPop, Zenon
  <2> QED BY <2>3, <2>4, <2>5, Zenon
<1>4. DbInv' /\ BatchInv'
  BY <1>2, <1>3, Zenon DEF DbInv, BatchInv
<1>5. PointsInv'
  <2>1. undone' \in {"no", "may", "yes"} /\ undone' # "may"
    BY Zenon
  <2> QED BY <1>1, <1>2, <2>1, NoPointsHold, Zenon DEF PointsInv
<1>6. JobsInv'
  BY <1>1, NoJobs, Zenon DEF JobsInv, Idle
<1> QED BY <1>4, <1>5, <1>6, Zenon DEF ChainInv

(* A new database holds genesis. *)
LEMMA ChainInit ==
  ASSUME Init
  PROVE  ChainInv
<1> DEFINE first == [id |-> Genesis, cd |-> 1]
<1>1. /\ db = [blocks |-> <<first>>, alt_blocks |-> [b \in {} |-> {}],
                txpool |-> {}, stray |-> {}]
      /\ batch = NoBatch /\ m_checkpoints = NoPoints /\ jobs = <<>> /\ undone = "no"
  BY Zenon DEF Init
<1>2. first.id = Genesis
  BY Zenon
<1> HIDE DEF first
<1>3. DOMAIN db = DbFields
  BY <1>1, Zenon DEF DbFields
<1>4. db.blocks = <<first>> /\ db.txpool = {} /\ db.stray = {}
  BY <1>1, Zenon
<1>5. <<first>> \in Seq({first}) /\ Len(<<first>>) = 1 /\ <<first>>[1] = first
  OBVIOUS
<1> DEFINE blocks == <<first>>
<1>6. ChainOk(blocks)
  <2>1. IsSeq(blocks) /\ Len(blocks) \in Nat \ {0} /\ blocks[1].id = Genesis
    <3>1. IsSeq(blocks)
      BY <1>5, SeqIsSeq, Zenon
    <3>2. 1 \in Nat \ {0}
      OBVIOUS
    <3> QED BY <1>2, <1>5, <3>1, <3>2, Zenon
  <2>2. PathTo[Genesis] = [j \in 1..(1 - 1) |-> blocks[j + 1].id]
    <3>1. PathTo[Genesis] = <<>>
      BY TreeAssumption, Zenon
    <3> QED BY <3>1
  <2>3. ASSUME NEW i \in 1..Len(blocks)
        PROVE  /\ blocks[i].id \in Ids
               /\ i # 1 => blocks[i].id \in Blocks
               /\ PathTo[blocks[i].id] = [j \in 1..(i - 1) |-> blocks[j + 1].id]
    <3>1. i = 1
      BY <1>5
    <3> QED BY <3>1, <2>1, <2>2, Zenon DEF Ids
  <2> QED BY <2>1, <2>3, Zenon DEF ChainOk
<1>7. IdsOf(blocks) \subseteq {Genesis}
  <2>1. \A i \in 1..Len(blocks) : i = 1
    BY <1>5
  <2> QED BY <1>2, <1>5, <2>1, Zenon DEF IdsOf
<1> HIDE DEF blocks
<1>8. Clean(db)
  <2>1. IdsOf(db.blocks) \ {Genesis} = {}
    BY <1>4, <1>7, Zenon DEF blocks
  <2> QED BY <1>4, <2>1, Zenon DEF Clean
<1>9. ~InBatch
  BY <1>1, Zenon DEF InBatch
<1>10. DbInv /\ BatchInv
  BY <1>3, <1>4, <1>6, <1>8, <1>9, Zenon DEF DbInv, BatchInv, blocks
<1>11. PointsInv
  <2>1. undone \in {"no", "may", "yes"} /\ undone # "may"
    BY <1>1, Zenon
  <2> QED BY <1>1, <1>9, <2>1, NoPointsHold, Zenon DEF PointsInv
<1>12. JobsInv
  BY <1>1, NoJobs, Zenon DEF JobsInv, Idle
<1> QED BY <1>10, <1>11, <1>12, Zenon DEF ChainInv

(* Every step keeps the invariant. *)
LEMMA ChainStep ==
  ASSUME ChainInv, [Next]_vars
  PROVE  ChainInv'
<1>1. CASE prepare_handle_incoming_blocks /\ undone' = undone
  BY <1>1, PrepareStep, Zenon
<1>2. ASSUME NEW b \in Blocks, handle_incoming_block(b), undone' = undone
      PROVE  ChainInv'
  BY <1>2, IncomingStep, Zenon
<1>3. CASE SwitchStep /\ undone' = undone
  <2>1. CASE SwitchPop
    BY <1>3, <2>1, SwitchPopStep, Zenon
  <2>2. CASE SwitchConnect
    BY <1>3, <2>2, SwitchConnectStep, Zenon
  <2>3. CASE Rollback
    BY <1>3, <2>3, RollbackStep, Zenon
  <2>4. CASE Restore
    BY <1>3, <2>4, RestoreStep, Zenon
  <2>5. CASE MarkInvalid
    BY <1>3, <2>5, MarkInvalidStep, Zenon
  <2>6. CASE SwitchPush
    BY <1>3, <2>6, SwitchPushStep, Zenon
  <2>7. CASE SwitchRemove
    BY <1>3, <2>7, SwitchRemoveStep, Zenon
  <2> QED BY <1>3, <2>1, <2>2, <2>3, <2>4, <2>5, <2>6, <2>7, Zenon DEF SwitchStep
<1>4. ASSUME NEW t \in db.txpool, flush_tx(t), undone' = undone
      PROVE  ChainInv'
  BY <1>4, FlushStep, Zenon
<1>5. CASE /\ cleanup_handle_incoming_blocks
           /\ undone' = IF undone # "may" THEN undone
                        ELSE IF m_batch_success THEN "no" ELSE "yes"
  BY <1>5, CleanupStep, Zenon
<1>6. CASE restart /\ undone' = "no"
  BY <1>6, RestartStep, Zenon
<1>7. ASSUME NEW n \in 1..MaxPops, pop_blocks(n), undone' = undone
      PROVE  ChainInv'
  BY <1>7, PopBlocksStep, Zenon
<1>8. ASSUME NEW points \in Points, update_checkpoints(points),
             undone' = IF InBatch THEN "may" ELSE "no"
      PROVE  ChainInv'
  BY <1>8, UpdateStep, Zenon
<1>9. CASE UNCHANGED vars
  <2>1. /\ db' = db /\ batch' = batch /\ m_batch_success' = m_batch_success
        /\ m_checkpoints' = m_checkpoints /\ jobs' = jobs /\ undone' = undone
    BY <1>9, Zenon DEF vars
  <2>2. DbInv' /\ BatchInv'
    BY <2>1, Zenon DEF ChainInv, DbInv, BatchInv, InBatch
  <2>3. PointsInv' /\ JobsInv'
    BY <2>1, Zenon DEF ChainInv, PointsInv, JobsInv, InBatch, Idle
  <2> QED BY <2>2, <2>3, Zenon DEF ChainInv
<1> QED BY <1>1, <1>2, <1>3, <1>4, <1>5, <1>6, <1>7, <1>8, <1>9, Zenon DEF Next

(* In every state the database is a branch of the block tree, with nothing
   mined or spent twice once its batch is one that will be committed, and
   contradicts no checkpoint whose enforcement was not undone.              *)
THEOREM ChainInvariant == Spec => []ChainInv
<1>1. Init => ChainInv
  BY ChainInit, Zenon
<1>2. ChainInv /\ [Next]_vars => ChainInv'
  BY ChainStep, Zenon
<1> QED BY <1>1, <1>2, PTL DEF Spec

(* The main chain is a branch of the block tree in which no transaction is
   mined twice, no key image is spent twice and no mined transaction is in the
   pool: handle_block_to_main_chain checks what a block brings against what is
   mined, and switches, rollbacks, pops, aborted batches and crashes give back
   to the pool what they take from the chain.                               *)
THEOREM ChainSafety == Spec => []MainChainSound
<1>1. ChainInv => MainChainSound
  <2> SUFFICES ASSUME ChainInv, m_batch_success
               PROVE  MainChainSound
    BY Zenon DEF MainChainSound
  <2>1. Now.db = db /\ ChainOk(db.blocks) /\ Clean(db)
    BY NowState, Zenon DEF ChainInv, DbInv
  <2>2. Tip(Now).id = db.blocks[Len(db.blocks)].id /\ Main(Now) = IdsOf(db.blocks)
    BY <2>1, Zenon DEF Tip, Height, Main, IdsOf
  <2>3. Mined(Now) = MinedIn(db)
    BY <2>1, <2>2, Zenon DEF Mined, MinedIn
  <2>4. PathTo[Tip(Now).id] = [i \in 1..(Len(db.blocks) - 1) |-> db.blocks[i + 1].id]
    <3>1. Len(db.blocks) \in Nat \ {0}
      BY <2>1, Zenon DEF ChainOk
    <3>2. Len(db.blocks) \in 1..Len(db.blocks)
      BY <3>1
    <3> QED BY <2>1, <2>2, <3>2, Zenon DEF ChainOk
  <2>5. \A b, c \in Main(Now) \ {Genesis} : b # c =>
          /\ TxSet(b) \cap TxSet(c) = {}
          /\ SpentIn(TxSet(b)) \cap SpentIn(TxSet(c)) = {}
    BY <2>1, <2>2, Zenon DEF Clean
  <2>6. Mined(Now) \cap db.txpool = {}
    BY <2>1, <2>3, Zenon DEF Clean
  <2> QED BY <2>4, <2>5, <2>6, Zenon DEF MainChainSound
<1> QED BY <1>1, ChainInvariant, PTL

(* No block of the main chain contradicts a loaded checkpoint, in the middle of
   a switch either: a block is checked when it is added and the chain when
   checkpoints are loaded.                                                  *)
THEOREM CheckpointSafety == Spec => []CheckpointsHold
<1>1. ChainInv => CheckpointsHold
  <2> SUFFICES ASSUME ChainInv
               PROVE  CheckpointsHold
    BY Zenon
  <2>1. Height(Now) = Len(db.blocks)
    BY NowState, Zenon DEF Height
  <2>2. undone # "yes" => PointsOk(db.blocks, m_checkpoints)
    BY Zenon DEF ChainInv, PointsInv
  <2> QED BY <2>1, <2>2, Zenon DEF PointsOk, CheckpointsHold
<1> QED BY <1>1, ChainInvariant, PTL
=============================================================================
