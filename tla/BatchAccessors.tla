--------------------------- MODULE BatchAccessors ---------------------------
(***************************************************************************)
(* What a holder of a proposed batch can read from it: the public          *)
(* accessors, and into_parts, which gives the batch up for its parts.      *)
(* A batch is the record that ProposedBatch::new returns.  The module is   *)
(* instantiated under a name, its operators carry the names of the code.   *)
(***************************************************************************)

transactions(batch)               == batch.transactions
account_updates(batch)            == batch.account_updates
id(batch)                         == batch.id
batch_expiration_block_num(batch) == batch.batch_expiration_block_num
input_notes(batch)                == batch.input_notes
output_notes(batch)               == batch.output_notes
output_notes_tree(batch)          == batch.output_notes_tree

\* into_parts: the fields in the order of the returned tuple, which is not
\* the order of the fields of the struct.
into_parts(batch) ==
    <<batch.transactions, batch.block_header, batch.chain_mmr,
      batch.unauthenticated_note_proofs, batch.id, batch.account_updates,
      batch.input_notes, batch.output_notes_tree, batch.output_notes,
      batch.batch_expiration_block_num>>
=============================================================================
