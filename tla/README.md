# TLA+ models of the batch and block tiers of miden-base

This directory holds the TLA+ specifications of the batch-construction code
of the rollup and of the way its batches become a block, the TLC
configurations that check them, and `PROJECT.json`, which records which
definition models which lines of the source.

## 1. The system

A rollup block is built in two tiers: proven transactions are grouped into
*batches*, batches into *blocks*. Each tier has a *proposed* form whose
constructor does all validation, aggregation and authentication that can be
done before proving. The sources of this repository contain the batch tier in
full and the block tier through its tests.

| Part | Source | State | Operations |
|---|---|---|---|
| Proposed batch constructor | `miden-objects/src/batch/proposed_batch.rs` 111-321 | arguments `transactions`, `block_header`, `chain_mmr`, `unauthenticated_note_proofs`; locals `account_updates`, `batch_expiration_block_num`, `output_notes` (tracker), `input_notes` | `ProposedBatch::new`, eleven phases, fourteen kinds of error |
| Batch output-note tracker | same file, 403-486 | `output_notes : NoteId -> (TransactionId, OutputNote)` | `new`, `remove_note`, `into_notes` |
| Note authentication helper | same file, 488-508 | none | `authenticate_unauthenticated_note` |
| Account update aggregator | loop at 174-198; `BatchAccountUpdate` is defined elsewhere | one update per account | `from_transaction`, `merge_proven_tx` |
| Chain MMR facade | used at 134-158 and 253; defined elsewhere | chain length, peaks, tracked headers | `chain_length`, `peaks().hash_peaks()`, `block_headers`, `get_block` |
| Batch accessors, `into_parts` | same file, 323-400 | the immutable batch | seven accessors, `into_parts` |
| Proposed block constructor | only its tests, `miden-block-prover/src/tests/proposed_block_success.rs`; section 4.5 of the specification | batches, previous block header | `ProposedBlock::new` |
| Mock chain of the block tests | the same tests | the sealed blocks | `generate_batch`, `seal_next_block`, `latest_chain_mmr` |
| Kernel procedure table | `miden-lib/src/transaction/procedures/kernel_v0.rs` | a constant array | none |

How the parts interact. `ProposedBatch::new` is a sequential function. It
checks the transaction list, checks that the chain MMR fits the reference
block, checks every transaction's block reference against the MMR and the
reference block, folds the transactions into one account update per account
while lowering the expiration, rejects duplicate nullifiers, hands all
transactions to the tracker (which rejects duplicate output notes), and then
walks over the input notes again: an unauthenticated note that the tracker
holds is removed from the tracker and dropped, one with an inclusion proof is
authenticated against a block of the MMR and loses its header, any other is
kept unchanged. Only then are the sizes checked and the batch assembled.

The block tier takes batches that were built at different moments against the
tip of their moment, in no particular order, and the header of the block that
is the latest by then. It rejects batches that have expired, puts the account
updates of the batches in the order in which they chain, and collects the
nullifiers of their input notes, which must be distinct.

What is hard in it. Nothing runs concurrently and nothing is persisted; the
hard part is the *order of the phases and of the transactions*, and data that
is trusted rather than checked:

* an input note may be created by a *later* transaction, so the tracker must be
  complete before the first input note is reconciled (230, 238);
* transactions of one account must chain in batch order (186);
* the limits are applied to what is left after reconciliation (282, 289), and
  the unwrap at 302 relies on two earlier checks;
* the absence of a header is the only mark of authentication (269);
* the rule that the reference block is the newest is, in the words of the doc
  comment, "not verified explicitly" (79-81);
* a proof is looked at only on one path through the reconciliation (250);
* the expiration of a batch is never held against its reference block (196):
  `new` accepts a batch that can no longer enter any block;
* between the two tiers time passes: a batch valid when it was built may have
  expired when the block is proposed, the limit being inclusive; batches arrive
  against the order of their transactions; two batches that are each valid
  consume the same note.

What must hold: the properties of section 4.

## 2. Modules

| Module | Models | Lines |
|---|---|---|
| `BatchTypes` | the data, and the contracts of the types the constructor calls into: note hash, chain MMR, Merkle path, account update, batch id, note tree | 100 |
| `BatchOutputNoteTracker` | the tracker: variable `output_notes`, `InsertNote` (one insertion of `new`), `RemoveNote`, `IntoNotes`, and the two conditions of its errors | 46 |
| `ProposedBatch` | `ProposedBatch::new` as a state machine, and the properties | 391 |
| `ProposedBatchSpec` | what the doc comment of `new` promises, over the arguments alone, in one step | 146 |
| `BatchAccessors` | the accessors of the batch and `into_parts` | 24 |
| `ProposedBlock` | `ProposedBlock::new` after section 4.5 of the specification, as the set of its outcomes | 100 |
| `BlockProducer` | the two tiers together: batches generated while the chain grows, then a block proposed from them; the properties of the block | 191 |
| `MCProposedBatch`, `MCBlockProducer` | the small worlds the runs use | 94, 38 |

`ProposedBatch` extends `BatchOutputNoteTracker`, which extends `BatchTypes`;
the tracker's variable is one of the constructor's locals, as in the code.
`ProposedBatch` instantiates `ProposedBatchSpec` with its arguments and
`result` (`INSTANCE ... WITH`; the phase, the loop position and the locals are
hidden) and states the refinement as the property `ImplementsSpec`.

`BlockProducer` extends `ProposedBlock` and instantiates `ProposedBatchSpec`
once per call of `generate_batch`, with the transactions, the tip and the chain
MMR of the tip substituted for its variables: the block tier is composed with
what the batch tier promises, which `ImplementsSpec` shows the constructor to
deliver. Both tiers read a batch through `BatchAccessors`.

### Correspondence with the code

The arguments are chosen by `Init` and never change. `pc` names the phase, and
`next` is the position of the loop of that phase. `result` is `None` until the
function returns, then `[ok |-> TRUE, batch |-> ...]` or
`[ok |-> FALSE, kind |-> ...]` with the kind of the `ProposedBatchError`; the
fields of an error (ids, counts) are left out, no property tells them apart.

| Action | Code | Steps |
|---|---|---|
| `CheckTransactions` | 117-129 | one: empty, first repeated id, or pass |
| `CheckChain` | 131-147 | one: length, then root, or pass |
| `CheckBlockReferences` | 149-167 | one: first transaction with an unknown reference, or pass |
| `AggregateAccountUpdate` | 174-198 | one per transaction: merge error, or upsert and lower the expiration |
| `CheckAccountUpdates` | 200-202 | one, after the loop |
| `CheckInputNotes` | 204-223 | one: first repeated nullifier with both transactions, or pass |
| `TrackOutputNote` | 230, 430-449 | one per output note: duplicate, or insert |
| `ReconcileInputNote` | 233-278, 461-480, 493-508 | one per input note: seven outcomes |
| `Finish` | 280-321 | one: too many input notes, too many output notes, or the batch; no step when the `expect` at 302 panics |
| `Returned` | - | the function has returned; nothing changes |

Loops that only look for the first offender are one step, because no state is
carried from one iteration to the next; the offender is the smallest index that
offends, which is what the early `return` yields. Loops that build state are
one iteration per step, so that invariants are checked on every intermediate
state of the aggregation and of the reconciliation.

Abstraction of data. A hash is the value it commits to (`NoteHash` is the pair
of id and metadata, a block hash is a field of the header). A Merkle path is a
record of the leaf and root it opens; the position of the leaf is not told
apart. Note ids are naturals, because `into_notes` returns the notes in the
order of their ids. The largest block number, `u32::MAX`, is the constant
`MaxBlockNumber`. `remove_note` takes the entry out of the index before it
compares hashes; the model leaves the index as it is on a mismatch, which
cannot be seen since the error abandons every local.

The note tree has `2^BATCH_NOTE_TREE_DEPTH` leaves; `FitsNoteTree` is what
the `expect` at 302 relies on, distinct note ids and no more notes than leaves.
The constants are assumed to satisfy `MAX_OUTPUT_NOTES_PER_BATCH <=
2^BATCH_NOTE_TREE_DEPTH`, as the comment at 296-298 and the specification say
they are chosen. A panic is modelled as what it is to the caller: the
constructor takes no further step and never sets `result`.

### The block tier and the pipeline

`ProposedBlock::new` is not among the sources, so `ProposedBlock` is written
from the specification, and as the specification has it: `BlockReasons` says
for each kind of error whether the inputs give reason for it (an expired batch,
a nullifier provided twice, account updates that chain in no order), `Blocks`
is the block otherwise: its number, one update per account merged in a
chaining order of the batches, the nullifiers, and the output notes batch by
batch.

`BlockProducer` has the state of a block test: `chain_tip` (the mock chain, of
which only the height matters), `batches`, and `block`, the result of
`ProposedBlock::new`.

| Action | Test code | What it does |
|---|---|---|
| `Init` | `setup_chain(2)` | the chain has blocks 0 and 1 |
| `GenerateBatch` | `generate_batch(&mut chain, txs)` | any sequence of transactions that the batch tier accepts against the tip and its chain MMR becomes a batch; the batch is handed on by its parts (`into_parts`) |
| `SealNextBlock` | `chain.seal_next_block()` | the tip grows by one; the batches stay as they are |
| `ProposeBlock` | `ProposedBlock::new(block_inputs, batches)` | the batches, in any order, on top of the tip |
| `Proposed` | - | the script has ended |

A behaviour is one script. The scripts of the five tests of
`proposed_block_success.rs` are among the behaviours: no batches; two batches
of two accounts; the third transaction of an account in the first batch and
the first two in the second; batches with unauthenticated notes; a batch that
expires at the block being proposed.

The chain MMR is a record of `chain_length`, `peaks` and the tracked headers.
Its two fields `chain_length` and `peaks` are independent, as in the code: the
hash of the peaks does not cover the number of leaves, so an MMR may claim a
length its peaks do not commit to. All that is assumed of an MMR (`IsChainMmr`)
is that it tracks only blocks below its length.

## 3. The abstract specification

The definitions of `ProposedBatchSpec` are written from the documentation of
`new` and of the fields of the struct (lines 19-110), not from statements:
the lines `PROJECT.json` maps them to are comments, about 85 of the lines the
map covers. On one point the contract follows the code and not the wording of
the documentation: `HasProof` leaves out the notes that the batch creates,
as the branch at 238-250 does, where the error list (line 102) speaks of
every proof. The run `batch_unverified_proof` shows what that difference
lets through.

`ProposedBatchSpec` has the four arguments and `result`, and one action,
`Return`. `Reasons` says for each of the fourteen kinds of error whether the
arguments give reason for it, without any notion of phase. If there is no
reason, the only outcome is `Batch`: the account updates from first initial to
last final state per account, the minimum expiration, the input notes that no
transaction of the batch creates (without header when a proof is given), the
output notes that no transaction consumes (by ascending id), and the tree over
them. Otherwise the outcome is an error of one of the kinds there is reason
for; which one is left open, so the order of the checks is an implementation
choice. `ImplementsSpec` then says: the constructor returns once, never with an
error the arguments give no reason for, and an accepted batch is exactly the
batch the arguments determine.

## 4. Runs

The runs of the batch tier use `MCProposedBatch`, a chain of blocks 0, 1, 2
with a competing block at height 2, and `MaxBlockNumber = 3`. Each run takes its transactions
from a pool that varies what the run is about and fixes the rest.

| Run | Pool and arguments | Limits | States |
|---|---|---|---|
| `batch_accounts` | 3 accounts x 3 transitions (s0->s1, s1->s2, s1->s0) x expiration 1 or never; up to 3 transactions | 2 accounts | 44,996 |
| `batch_notes` | transactions with at most one input (authenticated 1, unauthenticated 1, unauthenticated 2 with either metadata) and one output note; up to 3 transactions; the MMR tracks block 1 only; 6 maps of proofs | 3 | 192,378 |
| `batch_chain` | one transaction per block, every header as reference, 28 chain MMRs of length 1-3; up to 2 transactions | 2 | 6,719 |
| `batch_limits` | transactions with up to 2 input and 2 output notes, those that consume a note they create themselves included; up to 2 transactions | 1 input, 1 output note | 72,268 |
| `batch_unverified_proof` | the pool of `batch_notes`, up to 2 transactions | 2 | violation |
| `batch_returns` | the pool of `batch_limits`; up to 2 transactions | 2 input notes, 1 output note, a tree of 1 leaf | 72,268 |
| `block_producer` | 5 transactions of 2 accounts, a chain of blocks 0-3, `MaxBlockNumber = 5`; batches of up to 2 transactions, up to 3 batches | 2 | 37,650 |

**`batch_accounts`** checks
* `AccountUpdatesChain` (invariant): on every state of the aggregation there is
  a prefix of the batch that `account_updates` and the expiration describe: one
  update per account of the prefix, its transactions in batch order, first
  initial and last final state, every transaction starting where the one before
  ended, and the expiration the minimum over the prefix. The property is
  stated through `OfFirst(n)`, the instance of `ProposedBatchSpec` for the
  first n transactions: the locals of the loop are what the contract promises
  of the batch cut off after n transactions, and that prefix is in order.
* `AccountUpdatesGrowByAppend` (action property): a step never replaces an
  update; it keeps the initial state and only appends transactions.
* `ImplementsSpec`.

Three transactions are enough for a chain s0->s1->s2, a cycle s0->s1->s0, a
break in the second or third position, and three accounts against a limit of
two.

**`batch_notes`** checks
* `TypeOK`, the type invariant, which includes that the tracker maps an id to a
  note of that id.
* `NoteConservation`: in an accepted batch, an unauthenticated input note that
  some transaction creates, earlier or later, is on neither side; every other
  consumed or created note is on its side.
* `HeaderErasedIffAuthenticated`: an input note of the batch lacks its header
  only if it was consumed authenticated or its proof verifies against a tracked
  block; it keeps its header only if no proof was given.
* `UncheckedInputNotesDistinct`: the input notes of an accepted batch have
  pairwise distinct nullifiers. `new` hands them to `InputNotes::new_unchecked`
  (line 287) on the strength of the comparison at 210-223, which was made on
  the commitments as the transactions consume them; what is handed over is what
  the reconciliation made of them, with some dropped and some stripped of
  their header.
* `ImplementsSpec`.

Two note ids with two metadata for one of them give: creation before and after
consumption, a hash mismatch, duplicate nullifiers between an authenticated and
an unauthenticated commitment, duplicate output notes, two output notes to
sort, and proofs that verify, that open another note hash, that lie in a
block the MMR does not track or in the reference block itself, and that name
block 1 while their path opens under the note root of block 0.

**`batch_chain`** checks
* `ReferenceBlockIsNewest`: no transaction of an accepted batch refers to a
  block above the reference block. The constructor has no such check; the
  property follows from the length check and `IsChainMmr`.
* `ImplementsSpec`.

The MMRs include those that are longer than the reference block's number while
their peaks match its chain root; these are the ones only the length check
rejects.

**`batch_limits`** checks `ImplementsSpec` where the limits bite: a batch with
two consumed notes of which one is created in the batch has one input note and
is accepted; two remaining notes on either side are rejected. The pool has the
transactions that consume a note they create themselves, which the constructor
does not tell from any other: such a note counts on neither side. The pool of
`batch_notes` does without them, which keeps that run at less than half the
states.

**`batch_unverified_proof`** is expected to fail. `EveryProofVerified` states
the error list of `new` ("the note inclusion proof for an unauthenticated note
fails to verify") and the input contract of the specification ("each entry in
`unauthenticated_note_proofs` must verify ... and that block must be present in
`chain_mmr`") for the proofs that belong to consumed notes. TLC finds a batch
of two transactions, one creating note 1 and one consuming it unauthenticated,
with a proof for note 1 that cannot verify. Which one TLC reports depends on
the order of its search: the proof lies in block 0, which the MMR does not
track, or it names block 1 and opens under the note root of block 0. Either
way `remove_note` succeeds, the `continue` at line 244 skips the lookup of the proof, and the
batch is returned with the unverifiable proof among its parts. Whether this
matters depends on what later stages do with `unauthenticated_note_proofs`;
the constructor's documentation does not say that such a proof goes unchecked.

**`batch_returns`** checks `NewReturns` under weak fairness, see section 5.

**`block_producer`** checks, on every script of up to three batches,
* `TypeOK`, the type invariant of the pipeline.
* `NoExpiredTransactionInBlock`: every transaction of every batch of a proposed
  block is alive at the number of the block. This needs both tiers: the batch
  must carry the minimum of its transactions, and the block must hold it
  against its own number, whatever the tip was when the batch was built.
* `BlockAccountsChain`: for every account the block lists all transactions of
  all its batches once, in an order in which they chain, from the state before
  the first to the state after the last.
* `NoNullifierCreatedTwice`: the nullifiers of the block are those of the
  notes its transactions consume from outside their own batch, no two batches
  share one, and no two transactions of a batch consume the same note. A note
  created and consumed within one batch leaves no nullifier; that another
  batch consumes the same note is not seen by the block as specified.
* `RejectedOnlyForCause` (action property): when `ProposedBlock::new` returns an
  error, a transaction has expired before the block, two batches consume the
  same note, or the transactions of an account cannot be put in one history.
  So a batch that expires at the very block, and batches that arrive against
  the order of their transactions, are accepted.

The five transactions are: three of account a1 that chain s0->s1->s2->s3, the
first creating the note that the second consumes unauthenticated, with
expirations 2, never and 3; and two of account a2 that both start at s0, one
consuming the note the first transaction of a1 consumes, one consuming the
note it creates. With blocks 1 to 3 as the tip the proposed block has number
2, 3 or 4, so every expiration is met before, at and after its limit. Three
batches are enough for each transaction of a1 in a batch of its own in any
order; two transactions per batch for a note created and consumed within a
batch while another batch consumes a note of the same id.

Every run but `batch_returns` checks for deadlock; `Returned` is the only step
of a finished constructor and `Proposed` of a finished script. Between them the
passing runs take every disjunct of every action, every kind of error included.

### Faults the properties detect

For every property of a passing run, `PROJECT.json` names a fault variant of a
definition (defined next to it) under which TLC finds the property violated:
the expiration of the last transaction instead of the minimum, an update that
is replaced instead of merged, limits that are exclusive or counted before the
reconciliation, a comparison of nullifiers that leaves out the notes consumed
authenticated, a tracker keyed by position, a note looked up but not removed, a
path check on the id instead of the hash or under any root, output notes in
descending order, a
missing chain-length check, a reference block missing from the block
references, output notes held against the limit on input notes, a block with
the number of its predecessor, an expiration limit that is off by one in
either direction, a batch that expires with its first transaction, account
updates taken in the order of the batches, and a nullifier collision that goes
unnoticed. The properties of the block that depend on both tiers
(`NoExpiredTransactionInBlock`, `BlockAccountsChain`, `NoNullifierCreatedTwice`,
`RejectedOnlyForCause`) have two fault variants each, one in the block tier and one in what the batch
tier hands on: the expiration of the first transaction, an update that ends
after the first transaction, and input notes that keep the notes consumed
within the batch.

## 5. Fairness and liveness

The constructors are synchronous and single-threaded; nothing suspends them
and they wait for nothing (section 5 of the specification). A phase that can
take its step therefore takes it, which is weak fairness of the next-state
relation: `FairSpec == Spec /\ WF_vars(Next)`. No stronger fairness is needed,
since an enabled step of the constructor stays enabled until it is taken.

Under `FairSpec` the run `batch_returns` checks `NewReturns`,
`<>(result # None)`: whatever the arguments, `ProposedBatch::new` ends with a
batch or an error. The one way in which it could fail to is the `expect` on
the note tree at line 302. The run makes the tree as small as the limit on
output notes (one leaf) and the limit on input notes larger, and offers batches
that leave zero to two output notes; the property holds because the size
check at 289 compares the notes left after the reconciliation with the limit
on output notes. In this run a state without a step is a panic, which is what
the property is about, so it is checked as a liveness property and TLC's
deadlock check is off; every other run checks for deadlock.

The pipeline has no liveness property: nothing obliges a caller to generate a
batch or to propose a block.

## 6. Not modelled

* The cryptography: hashes, Merkle paths and the MMR are modelled by what they
  commit to. Collisions are outside the model.
* `BatchAccountUpdate` beyond its state commitments and transaction list (no
  account deltas), `ProvenTransaction` beyond the fields `new` reads.
* The kernel procedure table (`kernel_v0.rs`): a generated array of 36
  constant digests with no state and no operation; there is nothing a model
  checker could explore.
* The block tier beyond section 4.5 of the specification. Its code is not
  among the sources. The specification names three witness maps (accounts,
  nullifiers, notes) among the inputs and no rule for any of them, so the
  model has none: it does not check that the first update of an account starts
  in the state the chain holds, that a nullifier is unspent on the chain, or
  that an unauthenticated note a batch hands on exists in the chain. The
  authentication test (`proposed_block_authenticating_unauthenticated_notes`)
  is covered as far as the nullifiers of such notes reaching the block.
* The notes of the mock chain (`add_pending_note`) and the block inputs built
  by `get_block_inputs`, for the same reason.
* The overflow of `block_num + 1` at `u32::MAX`: the chain of the model ends
  below `MaxBlockNumber`.

## 7. What would extend the models

The batch tier is modelled in full: every statement of `proposed_batch.rs`
that changes state or returns is part of an action, and what remains unmapped
are imports and comments. The rest depends on rules that the repository does
not contain:

1. An abstract ledger (account states, spent nullifiers, notes of the chain)
   that `BlockProducer` refines needs the rules of the three witness maps.
   Without them the ledger could only say what `BlockAccountsChain`,
   `NoNullifierCreatedTwice` and `NoExpiredTransactionInBlock` say of one block.
2. The authentication of unauthenticated notes at block time needs the rule
   for a note that is neither in the chain nor created by another batch; the
   tests show the accepting case only.
3. Inclusion proofs in the pipeline (`generate_batch` with proofs) would add
   no behaviour to the block tier as specified, which reads the nullifier of
   an input note and not its header; what the batch tier does with a proof is
   checked by `batch_notes`.
