------------------------------ MODULE Pruning ------------------------------
(* Which blocks a pruned node keeps (common/pruning.cpp).  Heights are cut
   into stripes, the stripes are numbered in cycles, and a node keeps one
   stripe of every cycle and all of the last blocks.  A seed packs the number
   of stripes and the node's own into one integer.                          *)
EXTENDS Integers

CONSTANTS
  StripeSize,   \* CRYPTONOTE_PRUNING_STRIPE_SIZE
  LogStripes,   \* CRYPTONOTE_PRUNING_LOG_STRIPES
  TipBlocks     \* CRYPTONOTE_PRUNING_TIP_BLOCKS

ASSUME PruningAssumption ==
  StripeSize \in Nat \ {0} /\ LogStripes \in 1 .. 7 /\ TipBlocks \in Nat

Stripes == 1 .. 2 ^ LogStripes

make_pruning_seed(stripe, log_stripes) == log_stripes * 2 ^ 7 + (stripe - 1)
get_pruning_log_stripes(seed) == (seed \div 2 ^ 7) % 2 ^ 3
SeedStripe(seed) == IF seed = 0 THEN 0 ELSE 1 + (seed % 2 ^ 7)

(* The seeds a node can have; 0 when it is not pruned. *)
Seeds == {make_pruning_seed(s, LogStripes) : s \in Stripes}

StripeAt(height, log_stripes) == ((height \div StripeSize) % 2 ^ log_stripes) + 1

get_pruning_stripe(block_height, blockchain_height, log_stripes) ==
  IF block_height + TipBlocks >= blockchain_height THEN 0
  ELSE StripeAt(block_height, log_stripes)

has_unpruned_block(block_height, blockchain_height, seed) ==
  \/ SeedStripe(seed) = 0
  \/ get_pruning_stripe(block_height, blockchain_height, get_pruning_log_stripes(seed))
       \in {0, SeedStripe(seed)}

SeedLog(seed) ==
  IF get_pruning_log_stripes(seed) # 0 THEN get_pruning_log_stripes(seed) ELSE LogStripes

(* The first height from block_height on in a given stripe. *)
StripeStart(block_height, stripe, log_stripes) ==
  LET cycles == (block_height \div StripeSize) \div 2 ^ log_stripes
      behind == IF stripe > StripeAt(block_height, log_stripes) THEN 0 ELSE 1
  IN  (cycles + behind) * StripeSize * 2 ^ log_stripes + (stripe - 1) * StripeSize

(* Mutant: the last blocks, which nobody prunes, are not considered. *)
NextUnprunedInStripe(block_height, blockchain_height, seed) ==
  IF \/ SeedStripe(seed) \in {0, StripeAt(block_height, SeedLog(seed))}
     \/ block_height + TipBlocks >= blockchain_height
  THEN block_height
  ELSE StripeStart(block_height, SeedStripe(seed), SeedLog(seed))

get_next_unpruned_block_height(block_height, blockchain_height, seed) ==
  LET stripe == SeedStripe(seed)
      start == StripeStart(block_height, stripe, SeedLog(seed))
  IN  IF \/ stripe \in {0, StripeAt(block_height, SeedLog(seed))}
         \/ block_height + TipBlocks >= blockchain_height
      THEN block_height
      ELSE IF start + TipBlocks <= blockchain_height THEN start
           ELSE IF blockchain_height < TipBlocks THEN 0 ELSE blockchain_height - TipBlocks

get_next_pruned_block_height(block_height, blockchain_height, seed) ==
  LET stripe == SeedStripe(seed)
      next_stripe == 1 + (stripe % 2 ^ SeedLog(seed))
  IN  CASE stripe = 0 \/ block_height + TipBlocks >= blockchain_height -> blockchain_height
        [] StripeAt(block_height, SeedLog(seed)) # stripe -> block_height
        [] OTHER -> get_next_unpruned_block_height(block_height, blockchain_height,
                      make_pruning_seed(next_stripe, SeedLog(seed)))

=============================================================================
