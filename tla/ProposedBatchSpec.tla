-------------------------- MODULE ProposedBatchSpec --------------------------
(***************************************************************************)
(* What a proposed batch promises, stated over the arguments alone: which  *)
(* arguments are rejected and for which reasons, and what the batch of     *)
(* accepted arguments contains.  There are no phases and no loops here;    *)
(* the constructor answers in one step.                                    *)
(***************************************************************************)
EXTENDS BatchTypes

CONSTANTS ReferenceBlocks, ChainMmrs, NoteProofMaps, MaxTransactions

VARIABLES transactions, block_header, chain_mmr, unauthenticated_note_proofs,
          result

args == <<transactions, block_header, chain_mmr, unauthenticated_note_proofs>>

Consumed == FlattenSeq([i \in DOMAIN transactions |-> transactions[i].input_notes])
Created  == FlattenSeq([i \in DOMAIN transactions |-> transactions[i].output_notes])
Accounts == {tx.account_id : tx \in Range(transactions)}
TransactionsOf(account) ==
    SelectSeq(transactions, LAMBDA tx : tx.account_id = account)

\* An unauthenticated input note that a transaction of the batch creates.
ConsumedInBatch(c) ==
    c.header # None /\ \E n \in Range(Created) : n.id = c.header.id
\* An unauthenticated input note from outside the batch with a proof.
HasProof(c) ==
    /\ c.header # None /\ ~ConsumedInBatch(c)
    /\ c.header.id \in DOMAIN unauthenticated_note_proofs
ProofOf(c) == unauthenticated_note_proofs[c.header.id]
ProofVerifies(c) ==
    /\ ProofOf(c).block_num \in DOMAIN chain_mmr.blocks
    /\ VerifyPath(ProofOf(c), NoteHash(c.header),
                  chain_mmr.blocks[ProofOf(c).block_num].note_root)

\* Fault: the notes consumed within the batch stay among its input notes.
InputNotesWithErased ==
    [i \in DOMAIN Consumed |->
        IF HasProof(Consumed[i]) THEN Authenticated(Consumed[i].nullifier)
        ELSE Consumed[i]]

\* The input notes of the batch: those it does not create itself, in the
\* order of consumption, without their header once a proof authenticates them.
InputNotesOfBatch ==
    LET kept == SelectSeq(Consumed, LAMBDA c : ~ConsumedInBatch(c))
    IN  [i \in DOMAIN kept |->
            IF HasProof(kept[i]) THEN Authenticated(kept[i].nullifier) ELSE kept[i]]

\* The output notes of the batch: those no transaction of it consumes
\* unauthenticated, by ascending note id.
OutputNotesOfBatch ==
    LET left == {n \in Range(Created) :
                    \A c \in Range(Consumed) : c.header # None => c.header.id # n.id}
        ids  == SetToSortSeq({n.id : n \in left}, <)
    IN  [i \in DOMAIN ids |-> CHOOSE n \in left : n.id = ids[i]]

\* Fault: an update ends in the state after the first transaction.
AccountUpdatesOfFirst ==
    [a \in Accounts |->
        LET own == TransactionsOf(a) IN
        [FromTransaction(own[1]) EXCEPT !.transactions = BatchIdOf(own)]]

\* One update per account, from the state before its first transaction to
\* the state after its last.
AccountUpdatesOfBatch ==
    [a \in Accounts |->
        LET own == TransactionsOf(a) IN
        [account_id               |-> a,
         initial_state_commitment |-> own[1].account_update.initial_state_commitment,
         final_state_commitment   |-> Last(own).account_update.final_state_commitment,
         transactions             |-> BatchIdOf(own)]]

\* Fault: the batch expires with its first transaction.
ExpirationOfFirst == transactions[1].expiration_block_num

\* The batch expires with the transaction that expires first, and no later
\* than the largest block number.
ExpirationOfBatch ==
    Min({MaxBlockNumber} \cup {tx.expiration_block_num : tx \in Range(transactions)})

Batch ==
    [id |-> BatchIdOf(transactions),
     transactions |-> transactions,
     block_header |-> block_header,
     chain_mmr |-> chain_mmr,
     unauthenticated_note_proofs |-> unauthenticated_note_proofs,
     account_updates |-> AccountUpdatesOfBatch,
     batch_expiration_block_num |-> ExpirationOfBatch,
     input_notes |-> InputNotesOfBatch,
     output_notes |-> OutputNotesOfBatch,
     output_notes_tree |-> NoteTreeOf(OutputNotesOfBatch)]

\* The input contract on the order: a transaction of the account does not
\* start in the state that the one before it ends in.
OutOfOrder(account) ==
    LET own == TransactionsOf(account) IN
    \E i \in 1..(Len(own) - 1) :
        own[i].account_update.final_state_commitment
            # own[i + 1].account_update.initial_state_commitment

\* For every kind of error, whether the arguments give reason for it.
Reasons ==
    [EmptyTransactionBatch |-> transactions = <<>>,
     DuplicateTransaction  |-> Repeats(BatchIdOf(transactions)) # {},
     InconsistentChainLength |-> chain_mmr.chain_length # block_header.block_num,
     InconsistentChainRoot   |-> HashPeaks(chain_mmr) # block_header.chain_root,
     MissingTransactionBlockReference |->
         \E tx \in Range(transactions) :
             /\ tx.block_ref # block_header.hash
             /\ \A h \in MmrHeaders(chain_mmr) : tx.block_ref # h.hash,
     AccountUpdateError |-> \E a \in Accounts : OutOfOrder(a),
     TooManyAccountUpdates |-> Cardinality(Accounts) > MAX_ACCOUNTS_PER_BATCH,
     DuplicateInputNote  |-> Repeats([i \in DOMAIN Consumed |-> Consumed[i].nullifier]) # {},
     DuplicateOutputNote |-> Repeats([i \in DOMAIN Created |-> Created[i].id]) # {},
     NoteHashesMismatch  |->
         \E c \in Range(Consumed), n \in Range(Created) :
             c.header # None /\ c.header.id = n.id /\ NoteHash(c.header) # NoteHash(n),
     UnauthenticatedInputNoteBlockNotInChainMmr |->
         \E c \in Range(Consumed) :
             HasProof(c) /\ ProofOf(c).block_num \notin DOMAIN chain_mmr.blocks,
     UnauthenticatedNoteAuthenticationFailed |->
         \E c \in Range(Consumed) :
             /\ HasProof(c) /\ ProofOf(c).block_num \in DOMAIN chain_mmr.blocks
             /\ ~ProofVerifies(c),
     TooManyInputNotes  |-> Len(InputNotesOfBatch) > MAX_INPUT_NOTES_PER_BATCH,
     TooManyOutputNotes |-> Len(OutputNotesOfBatch) > MAX_OUTPUT_NOTES_PER_BATCH]

Rejections == {kind \in DOMAIN Reasons : Reasons[kind]}

\* Arguments without a reason for rejection yield the batch; any others
\* yield an error for which they do give reason.
Outcomes ==
    IF Rejections = {} THEN {[ok |-> TRUE, batch |-> Batch]}
    ELSE {[ok |-> FALSE, kind |-> kind] : kind \in Rejections}

Init ==
    /\ transactions \in Seq(Transactions) /\ Len(transactions) <= MaxTransactions
    /\ block_header \in ReferenceBlocks
    /\ chain_mmr \in ChainMmrs
    /\ unauthenticated_note_proofs \in NoteProofMaps
    /\ result = None

Return == result = None /\ result' # None /\ result' \in Outcomes /\ UNCHANGED args

Spec == Init /\ [][Return]_<<args, result>>
=============================================================================
