---------------------------- MODULE ProposedBatch ----------------------------
(***************************************************************************)
(* ProposedBatch::new, the constructor of a proposed batch.  The arguments *)
(* are chosen by the initial predicate and never change; the constructor   *)
(* runs through its phases in the order of the code, one iteration of a    *)
(* loop that accumulates state per step, and returns by setting `result`   *)
(* to a batch or to the first error it meets.                              *)
(***************************************************************************)
EXTENDS BatchOutputNoteTracker

CONSTANTS
    ReferenceBlocks,     \* the block headers a caller may pass as reference
    ChainMmrs,           \* the chain MMRs a caller may pass
    NoteProofMaps,       \* the maps of note inclusion proofs a caller may pass
    MaxTransactions      \* bound on the length of the submitted batch

ASSUME /\ ReferenceBlocks \subseteq BlockHeaders
       /\ \A mmr \in ChainMmrs : IsChainMmr(mmr)
       /\ MaxTransactions \in Nat

VARIABLES
    transactions, block_header, chain_mmr, unauthenticated_note_proofs,
    pc,                          \* the phase the constructor is in
    next,                        \* the position of the loop of that phase
    account_updates,             \* [AccountId -> BatchAccountUpdate]
    batch_expiration_block_num,
    input_notes,                 \* the input note commitments kept so far
    result                       \* None until the constructor returns

args       == <<transactions, block_header, chain_mmr, unauthenticated_note_proofs>>
aggregated == <<account_updates, batch_expiration_block_num>>
locals     == <<aggregated, output_notes, input_notes>>
vars       == <<args, pc, next, locals, result>>

\* The notes of all transactions in iteration order, each with its transaction.
NotesInOrder(notes(_)) ==
    FlattenSeq([i \in DOMAIN transactions |->
        [j \in DOMAIN notes(transactions[i]) |->
            [tx |-> transactions[i].id, note |-> notes(transactions[i])[j]]]])
CreatedNotes  == NotesInOrder(LAMBDA tx : tx.output_notes)
ConsumedNotes == NotesInOrder(LAMBDA tx : tx.input_notes)

Init ==
    /\ transactions \in BoundedSeq(Transactions, MaxTransactions)
    /\ block_header \in ReferenceBlocks
    /\ chain_mmr \in ChainMmrs
    /\ unauthenticated_note_proofs \in NoteProofMaps
    /\ pc = "check_transactions" /\ next = 1
    /\ account_updates = <<>> /\ batch_expiration_block_num = MaxBlockNumber
    /\ output_notes = <<>> /\ input_notes = <<>>
    /\ result = None

\* Return Err(..): every error is fatal.  Of an error the model keeps its kind.
Fail(kind) ==
    /\ pc' = "done" /\ result' = [ok |-> FALSE, kind |-> kind]
    /\ UNCHANGED <<args, next, locals>>

\* A phase that only checks hands over to the next one.
Pass(phase) ==
    /\ pc' = phase /\ next' = 1
    /\ UNCHANGED <<args, locals, result>>

\* A loop moves on to its next element, leaving the given locals as they are.
Continue(untouched) ==
    /\ next' = next + 1
    /\ UNCHANGED <<args, pc, untouched, result>>

-----------------------------------------------------------------------------
CheckTransactions ==
    /\ pc = "check_transactions"
    /\ LET ids == BatchIdOf(transactions) IN
       \/ transactions = <<>> /\ Fail("EmptyTransactionBatch")
       \/ Repeats(ids) # {} /\ Fail("DuplicateTransaction")
       \/ transactions # <<>> /\ Repeats(ids) = {} /\ Pass("check_chain")

\* Fault: the chain length is not compared with the reference block.
ChainLengthUnchecked == TRUE

ChainLengthMatches == chain_mmr.chain_length = block_header.block_num
ChainRootMatches   == HashPeaks(chain_mmr) = block_header.chain_root

CheckChain ==
    /\ pc = "check_chain"
    /\ \/ ~ChainLengthMatches /\ Fail("InconsistentChainLength")
       \/ ChainLengthMatches /\ ~ChainRootMatches /\ Fail("InconsistentChainRoot")
       \/ ChainLengthMatches /\ ChainRootMatches /\ Pass("check_block_references")

\* Fault: the hash of the reference block is not added to the references.
BlockReferencesWithoutReference == {h.hash : h \in MmrHeaders(chain_mmr)}

\* The hashes a transaction may refer to: the tracked blocks and the
\* reference block, which is not in the chain MMR yet.
BlockReferences ==
    {h.hash : h \in MmrHeaders(chain_mmr)} \cup {block_header.hash}

CheckBlockReferences ==
    /\ pc = "check_block_references"
    /\ LET missing == {tx \in Range(transactions) : tx.block_ref \notin BlockReferences}
       IN \/ missing # {} /\ Fail("MissingTransactionBlockReference")
          \/ missing = {} /\ Pass("aggregate_account_updates")

\* Fault: the update of a transaction replaces the entry of its account.
InsertAccountUpdate(tx) ==
    (tx.account_id :> FromTransaction(tx)) @@ account_updates

\* The entry of the account after tx: seeded when vacant, merged when occupied.
UpsertAccountUpdate(tx) ==
    IF tx.account_id \in DOMAIN account_updates
    THEN [account_updates EXCEPT ![tx.account_id] = MergeProvenTx(@, tx)]
    ELSE account_updates @@ (tx.account_id :> FromTransaction(tx))

\* Fault: the batch expires with its last transaction.
ExpirationOfLast(tx) == tx.expiration_block_num

ExpirationAfter(tx) == Min({batch_expiration_block_num, tx.expiration_block_num})

AggregateAccountUpdate ==
    /\ pc = "aggregate_account_updates" /\ next \in DOMAIN transactions
    /\ LET tx == transactions[next]
           occupied == tx.account_id \in DOMAIN account_updates
       IN \/ /\ occupied /\ ~CanMerge(account_updates[tx.account_id], tx)
             /\ Fail("AccountUpdateError")
          \/ /\ occupied => CanMerge(account_updates[tx.account_id], tx)
             /\ account_updates' = UpsertAccountUpdate(tx)
             /\ batch_expiration_block_num' = ExpirationAfter(tx)
             /\ Continue(<<output_notes, input_notes>>)

\* Fault: the limit on accounts is exclusive.
TooManyAccountsAtLimit ==
    Cardinality(DOMAIN account_updates) >= MAX_ACCOUNTS_PER_BATCH

TooManyAccounts == Cardinality(DOMAIN account_updates) > MAX_ACCOUNTS_PER_BATCH

CheckAccountUpdates ==
    /\ pc = "aggregate_account_updates" /\ next = Len(transactions) + 1
    /\ \/ TooManyAccounts /\ Fail("TooManyAccountUpdates")
       \/ ~TooManyAccounts /\ Pass("check_input_notes")

\* Fault: the notes consumed authenticated are left to the transaction kernel.
NullifiersOfUnauthenticated ==
    LET notes == SelectSeq(ConsumedNotes, LAMBDA e : e.note.header # None)
    IN  [i \in DOMAIN notes |-> notes[i].note.nullifier]

\* The keys of input_note_map: the nullifier of every consumed note.
ConsumedNullifiers ==
    [i \in DOMAIN ConsumedNotes |-> ConsumedNotes[i].note.nullifier]

CheckInputNotes ==
    /\ pc = "check_input_notes"
    /\ \/ Repeats(ConsumedNullifiers) # {} /\ Fail("DuplicateInputNote")
       \/ Repeats(ConsumedNullifiers) = {} /\ Pass("track_output_notes")

\* BatchOutputNoteTracker::new, one output note per step, before any input
\* note is looked at.
TrackOutputNote ==
    /\ pc = "track_output_notes"
    /\ \/ /\ next \in DOMAIN CreatedNotes
          /\ LET created == CreatedNotes[next] IN
             \/ IsTracked(created.note.id) /\ Fail("DuplicateOutputNote")
             \/ /\ InsertNote(created.tx, created.note)
                /\ Continue(<<aggregated, input_notes>>)
       \/ next = Len(CreatedNotes) + 1 /\ Pass("reconcile_input_notes")

\* Fault: the path is checked for the id of the note, not for its hash.
AuthenticateNoteIdOnly(header, proof, note_block_header) ==
    /\ proof.path.leaf[1] = header.id
    /\ proof.path.root = note_block_header.note_root

\* Fault: the path is checked for the note, under whatever root it opens.
AuthenticateAnyRoot(header, proof, note_block_header) ==
    proof.path.leaf = NoteHash(header)

\* authenticate_unauthenticated_note: the path opens the hash of the header
\* under the note root of the block.
AuthenticateUnauthenticatedNote(header, proof, note_block_header) ==
    VerifyPath(proof, NoteHash(header), note_block_header.note_root)

\* One input note: erased together with the output note it consumes,
\* authenticated by its proof, or kept as it is.
ReconcileInputNote ==
    /\ pc = "reconcile_input_notes" /\ next \in DOMAIN ConsumedNotes
    /\ LET note    == ConsumedNotes[next].note
           header  == note.header
           created == header # None /\ IsTracked(header.id)
           proven  == /\ header # None /\ ~created
                      /\ header.id \in DOMAIN unauthenticated_note_proofs
           proof   == unauthenticated_note_proofs[header.id]
           block   == GetBlock(chain_mmr, proof.block_num)
           Push(commitment) ==
               /\ input_notes' = Append(input_notes, commitment)
               /\ Continue(<<aggregated, output_notes>>)
       IN \/ created /\ RemoveNote(header) /\ Continue(<<aggregated, input_notes>>)
          \/ created /\ ~HashesMatch(header) /\ Fail("NoteHashesMismatch")
          \/ /\ proven /\ block = None
             /\ Fail("UnauthenticatedInputNoteBlockNotInChainMmr")
          \/ /\ proven /\ block # None
             /\ \/ /\ ~AuthenticateUnauthenticatedNote(header, proof, block)
                   /\ Fail("UnauthenticatedNoteAuthenticationFailed")
                \/ /\ AuthenticateUnauthenticatedNote(header, proof, block)
                   /\ Push(Authenticated(note.nullifier))
          \/ ~created /\ ~proven /\ Push(note)

\* Fault: the notes consumed within the batch count as input notes.
TooManyConsumedNotes == Len(ConsumedNotes) > MAX_INPUT_NOTES_PER_BATCH

\* Fault: the output notes are held against the limit on input notes.
TooManyOutputNotesForInputs == Len(IntoNotes) > MAX_INPUT_NOTES_PER_BATCH

TooManyInputNotes  == Len(input_notes) > MAX_INPUT_NOTES_PER_BATCH
TooManyOutputNotes == Len(IntoNotes) > MAX_OUTPUT_NOTES_PER_BATCH

\* The value the constructor returns.
Assemble ==
    [id |-> BatchIdOf(transactions),
     transactions |-> transactions,
     block_header |-> block_header,
     chain_mmr |-> chain_mmr,
     unauthenticated_note_proofs |-> unauthenticated_note_proofs,
     account_updates |-> account_updates,
     batch_expiration_block_num |-> batch_expiration_block_num,
     input_notes |-> input_notes,
     output_notes |-> IntoNotes,
     output_notes_tree |-> NoteTreeOf(IntoNotes)]

\* The size checks, the note tree and the batch.  The tree is unwrapped with
\* expect: when the notes do not fit it the constructor panics, which is a
\* state without a step and without a result.
Finish ==
    /\ pc = "reconcile_input_notes" /\ next = Len(ConsumedNotes) + 1
    /\ \/ TooManyInputNotes /\ Fail("TooManyInputNotes")
       \/ ~TooManyInputNotes /\ TooManyOutputNotes /\ Fail("TooManyOutputNotes")
       \/ /\ ~TooManyInputNotes /\ ~TooManyOutputNotes
          /\ FitsNoteTree(IntoNotes)
          /\ pc' = "done" /\ result' = [ok |-> TRUE, batch |-> Assemble]
          /\ UNCHANGED <<args, next, locals>>

\* The constructor has returned; the batch is immutable from here on.
Returned == pc = "done" /\ UNCHANGED vars

Next ==
    \/ CheckTransactions \/ CheckChain \/ CheckBlockReferences
    \/ AggregateAccountUpdate \/ CheckAccountUpdates
    \/ CheckInputNotes \/ TrackOutputNote \/ ReconcileInputNote
    \/ Finish \/ Returned

Spec == Init /\ [][Next]_vars

\* The constructor is synchronous and is never suspended: a phase that can
\* take its step takes it.
FairSpec == Spec /\ WF_vars(Next)

-----------------------------------------------------------------------------
\* The refinement mapping: the arguments and the result are those of the
\* constructor; its phase, its loop position and its locals are hidden.
Abstract == INSTANCE ProposedBatchSpec WITH
    transactions <- transactions, block_header <- block_header,
    chain_mmr <- chain_mmr,
    unauthenticated_note_proofs <- unauthenticated_note_proofs,
    result <- result

Get == INSTANCE BatchAccessors

\* ProposedBatch::new implements ProposedBatchSpec: it returns once, rejects
\* only with an error the arguments give reason for, and otherwise returns
\* exactly the batch the arguments determine.
ImplementsSpec == Abstract!Spec

Phases == {"check_transactions", "check_chain", "check_block_references",
           "aggregate_account_updates", "check_input_notes",
           "track_output_notes", "reconcile_input_notes", "done"}

\* The type invariant: every variable holds a value of its Rust type, the
\* index of the tracker maps an id to a note of that id, and the result is
\* set exactly when ProposedBatch::new has returned.
TypeOK ==
    /\ transactions \in BoundedSeq(Transactions, MaxTransactions)
    /\ block_header \in ReferenceBlocks /\ chain_mmr \in ChainMmrs
    /\ unauthenticated_note_proofs \in NoteProofMaps
    /\ pc \in Phases
    /\ next \in 1..(Max({Len(transactions), Len(CreatedNotes), Len(ConsumedNotes)}) + 1)
    /\ \A a \in DOMAIN account_updates :
         /\ a \in AccountIds /\ account_updates[a].account_id = a
         /\ account_updates[a].transactions \in Seq(TransactionIds)
    /\ batch_expiration_block_num \in BlockNumbers
    /\ \A id \in DOMAIN output_notes :
         /\ output_notes[id].tx \in TransactionIds
         /\ output_notes[id].note \in OutputNotes /\ output_notes[id].note.id = id
    /\ \A c \in Range(input_notes) : c \in InputNoteCommitments \/ c.header = None
    /\ (result = None) <=> (pc # "done")

\* What the contract says of the batch of the first n transactions.
OfFirst(n) == INSTANCE ProposedBatchSpec WITH
    transactions <- SubSeq(transactions, 1, n)

\* Account chaining and expiration (the aggregation loop of new): at every
\* moment the locals are what the contract promises of a prefix of the batch.
\* Each account of the prefix has one update, from the state before its first
\* transaction to the state after its last, listing them in batch order; each
\* of them starts where the one before it ended; and the batch expires with
\* the earliest transaction of the prefix, or never.
AccountUpdatesChain ==
    \E n \in 0..Len(transactions) :
        /\ account_updates = OfFirst(n)!AccountUpdatesOfBatch
        /\ batch_expiration_block_num = OfFirst(n)!ExpirationOfBatch
        /\ \A a \in DOMAIN account_updates : ~OfFirst(n)!OutOfOrder(a)

\* A step of the aggregation never rewrites what it has aggregated (the
\* occupied entry of account_updates is merged into, not replaced): every
\* update stays, keeps its initial state and only appends transactions.
AccountUpdatesGrowByAppend ==
    [][\A a \in DOMAIN account_updates :
          /\ a \in DOMAIN account_updates'
          /\ account_updates'[a].initial_state_commitment
                 = account_updates[a].initial_state_commitment
          /\ IsPrefix(account_updates[a].transactions,
                      account_updates'[a].transactions)]_account_updates

\* The batch that was returned, and what its transactions consume and create.
Accepted == result # None /\ result.ok
Inputs  == {e.note : e \in Range(ConsumedNotes)}
Outputs == {e.note : e \in Range(CreatedNotes)}

\* The proof given for the unauthenticated note c verifies against the note
\* root of a block of the chain MMR.
Verified(c) ==
    LET proof == unauthenticated_note_proofs[c.header.id] IN
    /\ c.header.id \in DOMAIN unauthenticated_note_proofs
    /\ \E block \in MmrHeaders(chain_mmr) :
          /\ block.block_num = proof.block_num
          /\ VerifyPath(proof, NoteHash(c.header), block.note_root)

\* Note conservation (the tracker is built from all transactions before any
\* input note is reconciled): an unauthenticated input note that some
\* transaction of the batch creates, earlier or later in the batch, is
\* neither an input note nor an output note of the batch, and every other
\* note the transactions consume or create is one.
NoteConservation ==
    Accepted =>
        LET batch  == result.batch
            erased == {c \in Inputs : c.header # None
                                      /\ \E n \in Outputs : n.id = c.header.id}
        IN  /\ {c.nullifier : c \in Range(Get!input_notes(batch))}
                  = {c.nullifier : c \in Inputs \ erased}
            /\ Range(Get!output_notes(batch))
                  = {n \in Outputs : \A c \in erased : c.header.id # n.id}

\* Header erasure marks authentication (the proof branch of the
\* reconciliation): an input note of the batch has no header only if its
\* transaction consumed it authenticated or its proof verifies against a
\* block of the chain MMR; it keeps its header only if no proof was given.
HeaderErasedIffAuthenticated ==
    Accepted =>
        \A kept \in Range(Get!input_notes(result.batch)) :
            LET c == CHOOSE c \in Inputs : c.nullifier = kept.nullifier
            IN  IF kept.header # None
                THEN kept = c /\ c.header.id \notin DOMAIN unauthenticated_note_proofs
                ELSE c.header # None => Verified(c)

\* InputNotes::new_unchecked is given what InputNotes::new would accept (the
\* SAFETY comment of new): the nullifiers were compared on the notes as the
\* transactions consume them, before the reconciliation drops some and erases
\* the header of others; the input notes of an accepted batch still have
\* pairwise distinct nullifiers, authenticated or not.
UncheckedInputNotesDistinct ==
    Accepted =>
        LET notes == Get!input_notes(result.batch)
        IN  Repeats([i \in DOMAIN notes |-> notes[i].nullifier]) = {}

\* The reference block is the newest block of the batch (the input contract
\* that new does not verify explicitly): no transaction of an accepted batch
\* refers to a block above the reference block.
ReferenceBlockIsNewest ==
    Accepted =>
        \A tx \in Range(Get!transactions(result.batch)), h \in BlockHeaders :
            h.hash = tx.block_ref => h.block_num <= block_header.block_num

\* Every proof that is used verifies (the error list of new: "the note
\* inclusion proof for an unauthenticated note fails to verify"): in an
\* accepted batch the proof given for an unauthenticated input note
\* verifies against a block of the chain MMR.
EveryProofVerified ==
    Accepted =>
        \A c \in Inputs :
            c.header # None /\ c.header.id \in DOMAIN unauthenticated_note_proofs
                => Verified(c)

\* The constructor returns (the expect on the note tree, and every loop of
\* new): whatever the arguments, it ends with a batch or an error; the size
\* checks leave nothing for the note tree to panic on, and no phase waits.
NewReturns == <>(result # None)
=============================================================================
