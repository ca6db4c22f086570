----------------------------- MODULE BatchTypes -----------------------------
(***************************************************************************)
(* The data the batch tier works on, and the contracts of the types the    *)
(* constructor of a proposed batch calls into but does not define          *)
(* (ProvenTransaction, BlockHeader, ChainMmr, NoteInclusionProof,          *)
(* BatchAccountUpdate, BatchId, BatchNoteTree).  A hash is modelled by the *)
(* value it commits to: equal hashes mean equal contents.                  *)
(***************************************************************************)
EXTENDS Integers, Sequences, FiniteSets, SequencesExt

CONSTANTS
    Transactions,                \* the proven transactions a caller can submit
    BlockHeaders,                \* the block headers that exist, on any fork
    None,                        \* the absent value of an Option
    MaxBlockNumber,              \* stands for u32::MAX, the largest BlockNumber
    MAX_ACCOUNTS_PER_BATCH,
    MAX_INPUT_NOTES_PER_BATCH,
    MAX_OUTPUT_NOTES_PER_BATCH,
    BATCH_NOTE_TREE_DEPTH        \* the depth of the tree of the output notes

TransactionIds == {tx.id : tx \in Transactions}
AccountIds     == {tx.account_id : tx \in Transactions}
BlockNumbers   == 0..MaxBlockNumber
\* The input note commitments and the output notes of all transactions.
InputNoteCommitments == UNION {Range(tx.input_notes) : tx \in Transactions}
OutputNotes          == UNION {Range(tx.output_notes) : tx \in Transactions}
NoteHeaders == {c.header : c \in InputNoteCommitments} \ {None}
NoteIds     == {h.id : h \in NoteHeaders} \cup {n.id : n \in OutputNotes}

ASSUME /\ \A s, t \in Transactions : s.id = t.id => s = t
       /\ \A g, h \in BlockHeaders : g.hash = h.hash => g = h
       /\ \A h \in BlockHeaders : h.block_num \in BlockNumbers
       /\ \A tx \in Transactions : tx.expiration_block_num \in BlockNumbers
       /\ NoteIds \subseteq Nat
       \* The limit on output notes is chosen to fit the note tree.
       /\ BATCH_NOTE_TREE_DEPTH \in Nat
       /\ MAX_OUTPUT_NOTES_PER_BATCH <= 2 ^ BATCH_NOTE_TREE_DEPTH
       \* A nullifier is derived from the note: one note, one nullifier.
       /\ \A c, d \in InputNoteCommitments :
            c.header # None /\ d.header # None /\ c.header.id = d.header.id
                => c.nullifier = d.nullifier

\* NoteHeader::hash and OutputNote::hash commit to the id and the metadata.
NoteHash(note) == <<note.id, note.metadata>>

\* InputNoteCommitment::from(nullifier): the commitment without a header.
Authenticated(nullifier) == [nullifier |-> nullifier, header |-> None]

-----------------------------------------------------------------------------
(* ChainMmr: chain_length, the peaks (by their hash) and the tracked       *)
(* headers, keyed by block number.                                         *)

IsChainMmr(mmr) ==
    /\ mmr.chain_length \in BlockNumbers
    /\ DOMAIN mmr.blocks \subseteq 0..(mmr.chain_length - 1)
    /\ \A n \in DOMAIN mmr.blocks :
         mmr.blocks[n] \in BlockHeaders /\ mmr.blocks[n].block_num = n

HashPeaks(mmr)    == mmr.peaks
MmrHeaders(mmr)   == Range(mmr.blocks)
GetBlock(mmr, n)  == IF n \in DOMAIN mmr.blocks THEN mmr.blocks[n] ELSE None

\* NoteInclusionProof: the block and a Merkle path; a path opens one leaf
\* under one root, and verifies against exactly that pair.
VerifyPath(proof, leaf, root) == proof.path = [leaf |-> leaf, root |-> root]

-----------------------------------------------------------------------------
(* BatchAccountUpdate: the aggregated state transition of one account.     *)

FromTransaction(tx) ==
    [account_id               |-> tx.account_id,
     initial_state_commitment |-> tx.account_update.initial_state_commitment,
     final_state_commitment   |-> tx.account_update.final_state_commitment,
     transactions             |-> <<tx.id>>]

\* merge_proven_tx succeeds only on top of the state the update ends in.
CanMerge(update, tx) ==
    update.final_state_commitment = tx.account_update.initial_state_commitment

MergeProvenTx(update, tx) ==
    [update EXCEPT
       !.final_state_commitment = tx.account_update.final_state_commitment,
       !.transactions = Append(@, tx.id)]

-----------------------------------------------------------------------------
\* The indices of s whose element already occurs at a smaller index.
Repeats(s) == {i \in DOMAIN s : \E k \in 1..(i - 1) : s[k] = s[i]}

\* BatchId::from_transactions commits to the ordered transaction ids.
BatchIdOf(txs) == [i \in DOMAIN txs |-> txs[i].id]

\* BatchNoteTree::with_contiguous_leaves: leaf i holds (id, metadata) of note i.
NoteTreeOf(notes) == [i \in DOMAIN notes |-> NoteHash(notes[i])]

\* What the constructor expects of with_contiguous_leaves: the notes are
\* distinct and no more than the tree has leaves.
FitsNoteTree(notes) ==
    /\ Len(notes) <= 2 ^ BATCH_NOTE_TREE_DEPTH
    /\ Repeats([i \in DOMAIN notes |-> notes[i].id]) = {}
=============================================================================
