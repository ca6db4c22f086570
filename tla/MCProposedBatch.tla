--------------------------- MODULE MCProposedBatch ---------------------------
(***************************************************************************)
(* Small worlds for checking ProposedBatch: a chain of three blocks with a *)
(* competing block at height 2, and pools of transactions that each vary   *)
(* the part of a transaction one run is about.                             *)
(***************************************************************************)
EXTENDS ProposedBatch

MCHeader(n, fork) ==
    [block_num |-> n, chain_root |-> <<"chain", n, fork>>,
     note_root |-> <<"notes", n, fork>>, hash |-> <<"block", n, fork>>]
MCBlockHeaders == {MCHeader(n, "main") : n \in 0..2} \cup {MCHeader(2, "side")}

\* The chain MMR of the first n blocks of the main chain, tracking some.
MCMmr(n, tracked) ==
    [chain_length |-> n, peaks |-> <<"chain", n, "main">>,
     blocks |-> [k \in tracked |-> MCHeader(k, "main")]]
MCTip == {MCHeader(2, "main")}
MCFullMmr == {MCMmr(2, {0, 1})}

MCTx(id, account, initial, final, ref, expiration, ins, outs) ==
    [id |-> id, account_id |-> account, block_ref |-> ref,
     expiration_block_num |-> expiration,
     account_update |-> [initial_state_commitment |-> initial,
                         final_state_commitment |-> final],
     input_notes |-> ins, output_notes |-> outs]

\* Transactions of three accounts that move between three states, expiring
\* early or never.
AccountTxs ==
    {MCTx(<<a, step, e>>, a, step[1], step[2], MCHeader(1, "main").hash, e, <<>>, <<>>) :
        a \in {"a1", "a2", "a3"},
        step \in {<<"s0", "s1">>, <<"s1", "s2">>, <<"s1", "s0">>},
        e \in {1, MaxBlockNumber}}

\* Transactions that refer to each of the blocks, one account each.
ChainTxs ==
    {MCTx(<<h.hash>>, h.hash, "s0", "s1", h.hash, MaxBlockNumber, <<>>, <<>>) :
        h \in MCBlockHeaders}

\* Chain MMRs of every length whose peaks commit to one or two blocks: the
\* hash of the peaks does not commit to the chain length.
MCAllMmrs ==
    UNION {{[MCMmr(n, t) EXCEPT !.peaks = <<"chain", m, "main">>] :
               t \in SUBSET (0..(n - 1)), m \in 1..2} : n \in 1..3}

\* Notes: an input note consumed authenticated or with its header, an
\* output note; note 2 also exists with other metadata.
Auth(n)      == [nullifier |-> <<"nullifier", n>>, header |-> None]
Unauth(n, m) == [nullifier |-> <<"nullifier", n>>,
                 header |-> [id |-> n, metadata |-> m]]
Note(n, m)   == [id |-> n, metadata |-> m]

\* A transaction of an account of its own that consumes ins and creates outs.
NoteTx(ins, outs) ==
    MCTx(<<ins, outs>>, <<ins, outs>>, "s0", "s1", MCHeader(1, "main").hash,
         MaxBlockNumber, ins, outs)

\* A transaction that consumes a note it creates itself: the pool of the
\* limits runs has these, the pool of the notes runs does without them.
ConsumesOwnNote(ins, outs) ==
    \E c \in Range(ins), n \in Range(outs) : c.header # None /\ c.header.id = n.id

\* Transactions with at most one input and one output note over notes 1, 2.
NoteTxs ==
    {NoteTx(ins, outs) :
        <<ins, outs>> \in
            {io \in BoundedSeq({Auth(1), Unauth(1, "m1"),
                                Unauth(2, "m1"), Unauth(2, "m2")}, 1)
                    \X BoundedSeq({Note(1, "m1"), Note(2, "m1"), Note(2, "m2")}, 1) :
                ~ConsumesOwnNote(io[1], io[2])}}

\* Transactions with up to two input and two output notes; among them those
\* that consume a note they create themselves.
LimitTxs ==
    {NoteTx(ins, outs) :
        <<ins, outs>> \in BoundedSeq({Auth(1), Unauth(2, "m1"), Auth(3)}, 2)
                              \X BoundedSeq({Note(2, "m1"), Note(4, "m1")}, 2)}

\* The chain MMR of the notes runs tracks block 1 and not block 0.
MCPartialMmr == {MCMmr(2, {1})}

\* A proof that note (n, m) is in block b of the main chain.
Proof(n, m, b) ==
    [block_num |-> b,
     path |-> [leaf |-> <<n, m>>, root |-> MCHeader(b, "main").note_root]]
NoProofs == {<<>>}
\* The maps of proofs: none, a good one, one for a block the chain MMR does
\* not track, one for the reference block, and one that names block 1 and
\* opens under the note root of block 0.
NoteProofs ==
    {<<>>, 1 :> Proof(1, "m1", 1), 1 :> Proof(1, "m1", 0), 2 :> Proof(2, "m1", 1),
     2 :> Proof(2, "m1", 2), 1 :> [Proof(1, "m1", 0) EXCEPT !.block_num = 1]}
=============================================================================
