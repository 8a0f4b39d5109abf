----------------------------- MODULE NoteOrder ------------------------------
(***************************************************************************)
(* What a NoteStack promises ("A stack (LIFO) for unique Midi::Note        *)
(* numbers", note_stack.hpp:37): the held notes, each once, newest first.  *)
(***************************************************************************)
EXTENDS Naturals, Sequences, SequencesExt

CONSTANT Note

VARIABLE order

OrderInit == order = <<>>

Add(n) == n \notin ToSet(order) /\ order' = <<n>> \o order

Drop(n) == n \in ToSet(order) /\ order' = RemoveFirst(order, n)

Forget == order # <<>> /\ order' = <<>>

OrderNext == Forget \/ \E n \in Note : Add(n) \/ Drop(n)

OrderSpec == OrderInit /\ [][OrderNext]_order
=============================================================================
