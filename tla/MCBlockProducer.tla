--------------------------- MODULE MCBlockProducer ---------------------------
(***************************************************************************)
(* A small world for checking BlockProducer: a chain of four blocks and    *)
(* five transactions of two accounts, chosen so that batches can arrive    *)
(* against the order of their transactions, expire at or before the block, *)
(* consume the same note, and consume a note that another batch creates.   *)
(***************************************************************************)
EXTENDS BlockProducer

MCHeader(n) ==
    [block_num |-> n, chain_root |-> <<"chain", n>>,
     note_root |-> <<"notes", n>>, hash |-> <<"block", n>>]
MCChain == [n \in 0..3 |-> MCHeader(n)]
MCBlockHeaders == Range(MCChain)

MCTx(id, account, initial, final, expiration, ins, outs) ==
    [id |-> id, account_id |-> account, block_ref |-> MCHeader(1).hash,
     expiration_block_num |-> expiration,
     account_update |-> [initial_state_commitment |-> initial,
                         final_state_commitment |-> final],
     input_notes |-> ins, output_notes |-> outs]

Auth(n)   == [nullifier |-> <<"nullifier", n>>, header |-> None]
Unauth(n) == [nullifier |-> <<"nullifier", n>>,
              header |-> [id |-> n, metadata |-> "m"]]
Note(n)   == [id |-> n, metadata |-> "m"]

\* Account a1 moves through three transactions, the first of which creates
\* the note the second consumes.  The two transactions of account a2 both
\* start at its first state; one consumes the note that tx0 consumes, the
\* other the note that tx0 creates.
MCTransactions ==
    {MCTx("tx0", "a1", "s0", "s1", 2, <<Auth(1)>>, <<Note(5)>>),
     MCTx("tx1", "a1", "s1", "s2", MaxBlockNumber, <<Unauth(5)>>, <<>>),
     MCTx("tx2", "a1", "s2", "s3", 3, <<Auth(2)>>, <<>>),
     MCTx("tx3", "a2", "s0", "s1", MaxBlockNumber, <<Auth(1)>>, <<>>),
     MCTx("tx4", "a2", "s0", "s1", 3, <<Auth(5)>>, <<>>)}
=============================================================================
