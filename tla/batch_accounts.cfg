CONSTANTS
    Transactions <- AccountTxs
    BlockHeaders <- MCBlockHeaders
    ReferenceBlocks <- MCTip
    ChainMmrs <- MCFullMmr
    NoteProofMaps <- NoProofs
    None = None
    MaxBlockNumber = 3
    MaxTransactions = 3
    MAX_ACCOUNTS_PER_BATCH = 2
    MAX_INPUT_NOTES_PER_BATCH = 2
    MAX_OUTPUT_NOTES_PER_BATCH = 2
    BATCH_NOTE_TREE_DEPTH = 1
SPECIFICATION Spec
INVARIANT AccountUpdatesChain
PROPERTY AccountUpdatesGrowByAppend
PROPERTY ImplementsSpec
