CONSTANTS
    Transactions <- LimitTxs
    BlockHeaders <- MCBlockHeaders
    ReferenceBlocks <- MCTip
    ChainMmrs <- MCFullMmr
    NoteProofMaps <- NoProofs
    None = None
    MaxBlockNumber = 3
    MaxTransactions = 2
    MAX_ACCOUNTS_PER_BATCH = 2
    MAX_INPUT_NOTES_PER_BATCH = 2
    MAX_OUTPUT_NOTES_PER_BATCH = 1
    BATCH_NOTE_TREE_DEPTH = 0
SPECIFICATION FairSpec
PROPERTY NewReturns
CHECK_DEADLOCK FALSE
