---------------------------- MODULE BlockProducer ----------------------------
(***************************************************************************)
(* The two tiers together, as the block tests drive them: batches are      *)
(* generated from proven transactions against the tip of the chain, the    *)
(* chain seals further blocks in between, and one block is proposed from   *)
(* the batches on top of the tip of that moment.  A behaviour is one such  *)
(* script; the scripts of the tests are among them.                        *)
(***************************************************************************)
EXTENDS ProposedBlock

CONSTANTS
    Chain,           \* the headers of the chain by block number, sealed or not
    MaxBatchSize,    \* bound on the transactions of a batch
    MaxBatches       \* bound on the batches of the block

ASSUME /\ DOMAIN Chain = 0..Max(DOMAIN Chain)
       /\ \A n \in DOMAIN Chain : Chain[n] \in BlockHeaders /\ Chain[n].block_num = n
       /\ Max(DOMAIN Chain) < MaxBlockNumber
       /\ MaxBatchSize \in Nat /\ MaxBatches \in Nat

VARIABLES
    chain_tip,       \* the number of the latest sealed block
    batches,         \* the batches generated so far
    block            \* None until ProposedBlock::new has returned

vars == <<chain_tip, batches, block>>

\* ProposedBatch::new on the given arguments, as it is specified.
Batcher(txs, header, mmr) ==
    INSTANCE ProposedBatchSpec WITH
        transactions <- txs, block_header <- header, chain_mmr <- mmr,
        unauthenticated_note_proofs <- <<>>, result <- None,
        ReferenceBlocks <- Range(Chain), ChainMmrs <- {mmr},
        NoteProofMaps <- {<<>>}, MaxTransactions <- MaxBatchSize

\* The chain MMR of the tip: it tracks every block below the tip.
LatestChainMmr ==
    [chain_length |-> chain_tip, peaks |-> Chain[chain_tip].chain_root,
     blocks |-> [n \in 0..(chain_tip - 1) |-> Chain[n]]]

\* The batch as it leaves the batch tier, put together from the parts the
\* proposed batch is taken apart into.  The block tier does not read the
\* transactions; they stay for the properties.
BatchFromParts(proposed) ==
    LET parts == Get!into_parts(proposed)
    IN  [transactions |-> parts[1], id |-> parts[5],
         account_updates |-> parts[6], input_notes |-> parts[7],
         output_notes |-> parts[9], batch_expiration_block_num |-> parts[10]]

Init == chain_tip = 1 /\ batches = <<>> /\ block = None

\* generate_batch: a batch of some transactions on top of the tip.
GenerateBatch ==
    /\ block = None /\ Len(batches) < MaxBatches
    /\ \E txs \in BoundedSeq(Transactions, MaxBatchSize) :
          /\ Batcher(txs, Chain[chain_tip], LatestChainMmr)!Rejections = {}
          /\ batches' = Append(batches, BatchFromParts(
                 Batcher(txs, Chain[chain_tip], LatestChainMmr)!Batch))
    /\ UNCHANGED <<chain_tip, block>>

\* seal_next_block: the chain grows by a block that holds none of the batches.
SealNextBlock ==
    /\ block = None /\ chain_tip < Max(DOMAIN Chain)
    /\ chain_tip' = chain_tip + 1
    /\ UNCHANGED <<batches, block>>

\* ProposedBlock::new on the batches, in any order, with the tip as the
\* previous block.
ProposeBlock ==
    /\ block = None
    /\ \E order \in SetToSeqs(DOMAIN batches) :
          block' \in ProposeBlockOutcomes(Chain[chain_tip],
                                          [i \in DOMAIN order |-> batches[order[i]]])
    /\ UNCHANGED <<chain_tip, batches>>

\* The script has ended.
Proposed == block # None /\ UNCHANGED vars

Next == GenerateBatch \/ SealNextBlock \/ ProposeBlock \/ Proposed

Spec == Init /\ [][Next]_vars

-----------------------------------------------------------------------------
Accepted == block # None /\ block.ok

\* The transactions of some batches.
TxsOf(bs) == UNION {Range(Get!transactions(bs[i])) : i \in DOMAIN bs}

\* The type invariant: the tip is a block of the chain, the batches are
\* within the bound and each is based on its transactions, and the result
\* is a block on top of a block of the chain, or an error of the block tier.
TypeOK ==
    /\ chain_tip \in DOMAIN Chain
    /\ Len(batches) <= MaxBatches
    /\ \A i \in DOMAIN batches :
         /\ Get!transactions(batches[i]) \in BoundedSeq(Transactions, MaxBatchSize)
         /\ Get!id(batches[i]) = BatchIdOf(Get!transactions(batches[i]))
         /\ Get!batch_expiration_block_num(batches[i]) \in BlockNumbers
    /\ \/ block = None
       \/ ~block.ok /\ block.kind \in {"BatchExpired", "DuplicateNullifier",
                                        "AccountUpdateError"}
       \/ block.ok /\ block.block.block_num \in 2..(chain_tip + 1)
                   /\ Len(block.block.output_note_batches) = Len(block.block.batches)

\* No expired transaction enters a block (the expiration a batch takes from
\* its transactions, and the check of the block against it): every
\* transaction of every batch of a proposed block is still alive at the
\* number of the block.
NoExpiredTransactionInBlock ==
    Accepted =>
        \A tx \in TxsOf(block.block.batches) :
            tx.expiration_block_num >= block.block.block_num

\* The transactions of the account in the batches.
OwnTxs(bs, account) == {tx \in TxsOf(bs) : tx.account_id = account}

\* The orders of the given transactions in which each starts in the state
\* the one before it ends in.
TxChains(txs) ==
    {s \in SetToSeqs(txs) :
        \A k \in 1..(Len(s) - 1) :
            s[k].account_update.final_state_commitment
                = s[k + 1].account_update.initial_state_commitment}

\* The account updates of a block are one history (the aggregation of the
\* updates of the batches, which come in any order): for every account the
\* block lists all transactions of all its batches once, in an order in
\* which they chain, from the state before the first to the state after the
\* last.
BlockAccountsChain ==
    Accepted =>
        LET b == block.block
            accounts == {tx.account_id : tx \in TxsOf(b.batches)}
        IN  /\ DOMAIN b.updated_accounts = accounts
            /\ \A a \in accounts :
                 \E s \in TxChains(OwnTxs(b.batches, a)) :
                    /\ b.updated_accounts[a].transactions = BatchIdOf(s)
                    /\ b.updated_accounts[a].initial_state_commitment
                           = s[1].account_update.initial_state_commitment
                    /\ b.updated_accounts[a].final_state_commitment
                           = Last(s).account_update.final_state_commitment

\* The input notes that the transactions of a batch consume and that no
\* transaction of the same batch creates; these reach the block.
Spent(batch) ==
    LET txs == Range(Get!transactions(batch))
        created == UNION {{n.id : n \in Range(tx.output_notes)} : tx \in txs}
    IN  {c \in UNION {Range(tx.input_notes) : tx \in txs} :
            c.header = None \/ c.header.id \notin created}

\* No nullifier is created twice in a block (the nullifiers of the batches):
\* the nullifiers the block creates are those of the notes its transactions
\* consume from outside their batch, no two batches share one, and no two
\* transactions of a batch consume the same note.  A note that a batch creates
\* and consumes itself leaves no nullifier, so the block does not see another
\* batch consume it.
NoNullifierCreatedTwice ==
    Accepted =>
        LET bs == block.block.batches
            nullifiers(i) == {c.nullifier : c \in Spent(bs[i])}
        IN  /\ block.block.created_nullifiers = UNION {nullifiers(i) : i \in DOMAIN bs}
            /\ \A i, j \in DOMAIN bs : i # j => nullifiers(i) \cap nullifiers(j) = {}
            /\ \A i \in DOMAIN bs :
                 \A s, t \in Range(Get!transactions(bs[i])) :
                    s # t => \A c \in Range(s.input_notes), d \in Range(t.input_notes) :
                                 c.nullifier # d.nullifier

\* Whether the transactions of the batches give cause for an error.
Cause(kind, bs, block_num) ==
    CASE kind = "BatchExpired" ->
             \E tx \in TxsOf(bs) : tx.expiration_block_num < block_num
      [] kind = "DuplicateNullifier" ->
             \E i, j \in DOMAIN bs :
                 i # j /\ \E c \in Spent(bs[i]), d \in Spent(bs[j]) :
                              c.nullifier = d.nullifier
      [] kind = "AccountUpdateError" ->
             \E a \in {tx.account_id : tx \in TxsOf(bs)} :
                 \/ TxChains(OwnTxs(bs, a)) = {}
                 \/ \E i, j \in DOMAIN bs :
                        i # j /\ Range(Get!transactions(bs[i])) \cap Range(Get!transactions(bs[j]))
                                     \cap OwnTxs(bs, a) # {}

\* A block is rejected only for cause (the inclusive expiration limit, and
\* the recovery of the order of the account updates): when ProposedBlock::new
\* returns an error, a transaction has expired before the block, two batches
\* consume the same note, or the transactions of an account cannot be put in
\* one history.  A batch that expires at the very block, and batches that
\* arrive against the order of their transactions, are accepted.
RejectedOnlyForCause ==
    [][block' # None /\ ~block'.ok => Cause(block'.kind, batches, chain_tip + 1)]_block
=============================================================================
