CONSTANTS
    Transactions <- NoteTxs
    BlockHeaders <- MCBlockHeaders
    ReferenceBlocks <- MCTip
    ChainMmrs <- MCPartialMmr
    NoteProofMaps <- NoteProofs
    None = None
    MaxBlockNumber = 3
    MaxTransactions = 3
    MAX_ACCOUNTS_PER_BATCH = 3
    MAX_INPUT_NOTES_PER_BATCH = 3
    MAX_OUTPUT_NOTES_PER_BATCH = 3
    BATCH_NOTE_TREE_DEPTH = 2
SPECIFICATION Spec
INVARIANT TypeOK
INVARIANT NoteConservation
INVARIANT HeaderErasedIffAuthenticated
INVARIANT UncheckedInputNotesDistinct
PROPERTY ImplementsSpec
