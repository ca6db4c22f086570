CONSTANTS
    Transactions <- NoteTxs
    BlockHeaders <- MCBlockHeaders
    ReferenceBlocks <- MCTip
    ChainMmrs <- MCPartialMmr
    NoteProofMaps <- NoteProofs
    None = None
    MaxBlockNumber = 3
    MaxTransactions = 2
    MAX_ACCOUNTS_PER_BATCH = 2
    MAX_INPUT_NOTES_PER_BATCH = 2
    MAX_OUTPUT_NOTES_PER_BATCH = 2
    BATCH_NOTE_TREE_DEPTH = 1
SPECIFICATION Spec
INVARIANT EveryProofVerified
