---------------------------- MODULE MCNodeLocks ----------------------------
(* Small instances of NodeLocks: a thread of the p2p server that adds      *)
(* blocks and transactions, a thread that may call anything, and a thread  *)
(* that reads, stores and maintains the pool.                              *)
EXTENDS NodeLocks

CONSTANTS p2p, any, idle, w

\* get_output_histogram, which reads inside a counted read, is left to the
\* instance below.
EveryKind ==
  [t \in {p2p, any, idle} |->
    CASE t = p2p  -> {"handle_notify_new_block", "try_add_next_blocks", "handle_incoming_txs"}
      [] t = any  -> DOMAIN Paths \ {"try_add_next_blocks", "get_output_histogram"}
      [] t = idle -> {"on_idle", "find_blockchain_supplement", "store_blockchain"}]

\* An RPC histogram while another thread asks for a block template.
HistogramAndTemplate ==
  [t \in {any, idle} |->
    IF t = any THEN {"get_output_histogram"} ELSE {"create_block_template"}]
=============================================================================
