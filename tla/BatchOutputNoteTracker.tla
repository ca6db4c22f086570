------------------------ MODULE BatchOutputNoteTracker ------------------------
(***************************************************************************)
(* The tracker of the output notes of a batch: an index from note id to    *)
(* the transaction that creates the note and the note.  It starts as the   *)
(* union of the output notes of all transactions; the constructor of the   *)
(* batch then removes the notes that the batch itself consumes.            *)
(***************************************************************************)
EXTENDS BatchTypes

VARIABLE output_notes    \* [NoteId -> [tx : TransactionId, note : OutputNote]]

IsTracked(id) == id \in DOMAIN output_notes

\* Fault: the index is keyed by the position of the note, not by its id.
InsertNoteAtPosition(tx_id, note) ==
    /\ ~IsTracked(note.id)
    /\ output_notes' = output_notes @@
           (Cardinality(DOMAIN output_notes) + 1 :> [tx |-> tx_id, note |-> note])

\* One insertion of `new`: the note of transaction tx_id enters the index.
InsertNote(tx_id, note) ==
    /\ ~IsTracked(note.id)
    /\ output_notes' = output_notes @@ (note.id :> [tx |-> tx_id, note |-> note])

HashesMatch(header) == NoteHash(output_notes[header.id].note) = NoteHash(header)

\* Fault: the note is looked up and left in the index.
LookUpNote(header) ==
    /\ IsTracked(header.id) /\ HashesMatch(header)
    /\ output_notes' = output_notes

\* remove_note returning Ok(true): the tracked note has the hash of the header.
RemoveNote(header) ==
    /\ IsTracked(header.id) /\ HashesMatch(header)
    /\ output_notes' = Restrict(output_notes, DOMAIN output_notes \ {header.id})

\* Fault: the notes are returned from the highest id down.
IntoNotesDescending ==
    LET ids == SetToSortSeq(DOMAIN output_notes, >)
    IN  [i \in DOMAIN ids |-> output_notes[ids[i]].note]

\* into_notes: the notes left, in the order of their ids.
IntoNotes ==
    LET ids == SetToSortSeq(DOMAIN output_notes, <)
    IN  [i \in DOMAIN ids |-> output_notes[ids[i]].note]
=============================================================================
