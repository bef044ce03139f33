---------------------------- MODULE MCBlockchain ----------------------------
(* Small block trees for Blockchain.  Blocks are named by branch and height: *)
(* a1 - a2 - a3 - a4, b1 - b2 - b3 - b4 and f1 grow from genesis, c2 - c3    *)
(* from a1, c4 from a3, e2 from b1 and d4 from b3.                           *)
EXTENDS Blockchain, TLC

CONSTANTS g, a1, a2, a3, a4, b1, b2, b3, b4, c2, c3, c4, d4, e2, f1, t1, t2, t3, t4, t5

MCPrev == a1 :> g @@ a2 :> a1 @@ a3 :> a2 @@ a4 :> a3
          @@ b1 :> g @@ b2 :> b1 @@ b3 :> b2 @@ b4 :> b3
          @@ c2 :> a1 @@ c3 :> c2 @@ c4 :> a3 @@ d4 :> b3 @@ e2 :> b1 @@ f1 :> g

(* The b branch is quicker, so that it is heavier at equal length.  *)
MCTime == g :> 0 @@ a1 :> 3 @@ a2 :> 6 @@ a3 :> 12 @@ a4 :> 16
          @@ b1 :> 4 @@ b2 :> 5 @@ b3 :> 6 @@ b4 :> 7
          @@ c2 :> 7 @@ c3 :> 9 @@ c4 :> 14 @@ d4 :> 8 @@ e2 :> 8 @@ f1 :> 5

MCPow == [b \in DOMAIN MCTime |-> 100]

(* t1 is mined in both branches; t2 and t3 spend the same key image: b4    *)
(* spends what b1 has spent, c2 contains both.  c4 contains t4 and t5.     *)
MCTxsOf == g :> <<>> @@ a1 :> <<t1>> @@ a2 :> <<t2>> @@ a3 :> <<>> @@ a4 :> <<>>
           @@ b1 :> <<t3>> @@ b2 :> <<t1>> @@ b3 :> <<>> @@ b4 :> <<t2>>
           @@ c2 :> <<t2, t3>> @@ c3 :> <<>> @@ c4 :> <<t4, t5>>
           @@ d4 :> <<>> @@ e2 :> <<>> @@ f1 :> <<>>

(* b4 contains both, above the block of the checkpoint; c2, below the block *)
(* that competes with it, needs t3.                                         *)
PointTxsOf == [b \in DOMAIN MCTime |-> CASE b = c2 -> <<t3>> [] b = b4 -> <<t2, t3>>
                                        [] OTHER -> <<>>]

MCSpends == t1 :> {1} @@ t2 :> {2} @@ t3 :> {2} @@ t4 :> {3} @@ t5 :> {3}

(* The classic rule: work per time over the window, rounded up, 1 at first;  *)
(* the second version aims at slower blocks.                                 *)
MCNextDifficulty(v, rows) ==
  IF Len(rows) <= 1 THEN 1
  ELSE LET n == Len(rows)
           span == IF rows[n].time > rows[1].time THEN rows[n].time - rows[1].time ELSE 1
           work == rows[n].cd - rows[1].cd
       IN  ((IF v = 1 THEN 4 ELSE 16) * work + span - 1) \div span

NoFlaws == [b \in DOMAIN MCTime |-> "none"]
BadOffers == [NoFlaws EXCEPT ![d4] = "reward", ![f1] = "coinbase"]

OneVersion(h) == 1
AllOne == [b \in DOMAIN MCTime |-> 1]

(* a4, b4, c4 and d4 have height 4; e2 is of their version too early.       *)
TwoVersions(h) == IF h < 4 THEN 1 ELSE 2
OneEarly == [b \in DOMAIN MCTime |-> IF b \in {a4, b4, c4, d4, e2} THEN 2 ELSE 1]
MCBlocksCount == <<2, 2>>
GrowingCount == <<2, 3>>
NoResets == [h \in {} |-> 0]
OneReset == 3 :> 5
NoTables == {}
OnePoint == {3 :> b3}
=============================================================================
