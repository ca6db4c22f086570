---------------------------- MODULE ProposedBlock ----------------------------
(***************************************************************************)
(* ProposedBlock::new, the constructor one tier above the batches: it      *)
(* takes the header of the previous block and batches that are validated   *)
(* already, and returns the proposed block or the error that is fatal to   *)
(* it.  A batch is read through the accessors of the batch tier.           *)
(***************************************************************************)
EXTENDS BatchTypes

Get == INSTANCE BatchAccessors

\* Fault: the block takes the number of the block before it.
BlockNumOfPrevious(prev_block_header) == prev_block_header.block_num

\* The number of the block being proposed.
NextBlockNum(prev_block_header) == prev_block_header.block_num + 1

\* Fault: a batch is held to be alive one block past its expiration.
IsExpiredAfterLimit(batch, block_num) ==
    Get!batch_expiration_block_num(batch) + 1 < block_num

\* Fault: the limit is exclusive, a batch expires at its expiration block.
IsExpiredAtLimit(batch, block_num) ==
    Get!batch_expiration_block_num(batch) <= block_num

\* A batch may enter the block of its expiration block number, and no later.
IsExpired(batch, block_num) == Get!batch_expiration_block_num(batch) < block_num

\* The nullifiers of the input notes of the batches, batch by batch.
Nullifiers(batches) ==
    FlattenSeq([i \in DOMAIN batches |->
        [j \in DOMAIN Get!input_notes(batches[i]) |->
            Get!input_notes(batches[i])[j].nullifier]])

\* Fault: a nullifier that two batches provide is not noticed.
CollisionUnnoticed(batches) == FALSE

NullifierCollision(batches) == Repeats(Nullifiers(batches)) # {}

BlockAccounts(batches) ==
    UNION {DOMAIN Get!account_updates(batches[i]) : i \in DOMAIN batches}

\* The batches that update the account.
Holders(batches, account) ==
    {i \in DOMAIN batches : account \in DOMAIN Get!account_updates(batches[i])}

\* Fault: the updates of an account are taken in the order of the batches.
BatchOrder(batches, account) ==
    {SetToSortSeq(Holders(batches, account), <)}

\* The orders of the batches in which the updates of the account chain: each
\* update starts in the state the one before it ends in.  The batches of a
\* block are in no particular order; the chronological one is recovered.
ChainOrders(batches, account) ==
    LET update(i) == Get!account_updates(batches[i])[account]
    IN  {order \in SetToSeqs(Holders(batches, account)) :
            \A k \in 1..(Len(order) - 1) :
                update(order[k]).final_state_commitment
                    = update(order[k + 1]).initial_state_commitment}

\* The update of the account over the block, its batches taken in order.
MergeUpdates(batches, account, order) ==
    LET update(k) == Get!account_updates(batches[order[k]])[account]
    IN  [account_id               |-> account,
         initial_state_commitment |-> update(1).initial_state_commitment,
         final_state_commitment   |-> update(Len(order)).final_state_commitment,
         transactions |->
             FlattenSeq([k \in DOMAIN order |-> update(k).transactions])]

\* For every kind of error of the block tier, whether the inputs give
\* reason for it.
BlockReasons(prev_block_header, batches) ==
    [BatchExpired |->
         \E i \in DOMAIN batches :
             IsExpired(batches[i], NextBlockNum(prev_block_header)),
     DuplicateNullifier |-> NullifierCollision(batches),
     AccountUpdateError |->
         \E a \in BlockAccounts(batches) : ChainOrders(batches, a) = {}]

\* The blocks new may return: one for every choice of a chaining order.
Blocks(prev_block_header, batches) ==
    LET accounts == BlockAccounts(batches)
        orders   == {f \in [accounts -> UNION {ChainOrders(batches, a) : a \in accounts}] :
                        \A a \in accounts : f[a] \in ChainOrders(batches, a)}
    IN  {[batches             |-> batches,
          prev_block_header   |-> prev_block_header,
          block_num           |-> NextBlockNum(prev_block_header),
          updated_accounts    |-> [a \in accounts |-> MergeUpdates(batches, a, f[a])],
          created_nullifiers  |-> Range(Nullifiers(batches)),
          output_note_batches |-> [i \in DOMAIN batches |-> Get!output_notes(batches[i])]] :
         f \in orders}

\* ProposedBlock::new: the block, or an error the inputs give reason for.
ProposeBlockOutcomes(prev_block_header, batches) ==
    LET reasons    == BlockReasons(prev_block_header, batches)
        rejections == {kind \in DOMAIN reasons : reasons[kind]}
    IN  IF rejections = {}
        THEN {[ok |-> TRUE, block |-> b] : b \in Blocks(prev_block_header, batches)}
        ELSE {[ok |-> FALSE, kind |-> kind] : kind \in rejections}
=============================================================================
