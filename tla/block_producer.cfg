CONSTANTS
    Transactions <- MCTransactions
    BlockHeaders <- MCBlockHeaders
    Chain <- MCChain
    None = None
    MaxBlockNumber = 5
    MaxBatchSize = 2
    MaxBatches = 3
    MAX_ACCOUNTS_PER_BATCH = 2
    MAX_INPUT_NOTES_PER_BATCH = 2
    MAX_OUTPUT_NOTES_PER_BATCH = 2
    BATCH_NOTE_TREE_DEPTH = 1
SPECIFICATION Spec
INVARIANT TypeOK
INVARIANT NoExpiredTransactionInBlock
INVARIANT BlockAccountsChain
INVARIANT NoNullifierCreatedTwice
PROPERTY RejectedOnlyForCause
