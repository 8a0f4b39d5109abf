------------------------------ MODULE NoteList ------------------------------
(***************************************************************************)
(* The doubly linked list of src/src/note_stack.cpp as pure operators on a *)
(* record.  A list holds unique MIDI notes; the notes themselves index the *)
(* two arrays "next" (towards older notes) and "previous" (towards newer   *)
(* notes).  BasicNoteStack (skip_updating_extremes = true) uses BasicPush, *)
(* BasicPop and Unlink; NoteStack also keeps the lowest and highest note,  *)
(* with PushNote, PopNote and RemoveNote.                                  *)
(***************************************************************************)
EXTENDS Integers, Sequences, SequencesExt

CONSTANT Note   \* the MIDI notes that are ever played

INVALID_NOTE == 255

ASSUME NoteAssumption == Note \subseteq 0..127

OptionalNote == Note \cup {INVALID_NOTE}

List == [next : [Note -> OptionalNote], previous : [Note -> OptionalNote],
         head : OptionalNote, oldest : OptionalNote,
         lowest : OptionalNote, highest : OptionalNote]

\* mutant of EmptyList: a cached note cleared with 0, which is a note
EmptyListZeroed == [next |-> [n \in Note |-> INVALID_NOTE],
                    previous |-> [n \in Note |-> INVALID_NOTE],
                    head |-> INVALID_NOTE, oldest |-> INVALID_NOTE,
                    lowest |-> 0, highest |-> INVALID_NOTE]

EmptyList == [next |-> [n \in Note |-> INVALID_NOTE],
              previous |-> [n \in Note |-> INVALID_NOTE],
              head |-> INVALID_NOTE, oldest |-> INVALID_NOTE,
              lowest |-> INVALID_NOTE, highest |-> INVALID_NOTE]

Find(list, n) == list.head = n \/ list.previous[n] # INVALID_NOTE

\* links[at] := to, unless there is no note to write at
Link(links, at, to) ==
  IF at = INVALID_NOTE THEN links ELSE [links EXCEPT ![at] = to]

(***************************************************************************)
(* The notes met when walking from head along next, newest first: every    *)
(* loop of the class walks this way and gives up after one step per note.  *)
(***************************************************************************)
Chain(list) ==
  LET walk[k \in 0..Cardinality(Note)] ==
        IF k = 0 THEN <<>>
        ELSE LET seen == walk[k - 1]
                 n == IF seen = <<>> THEN list.head ELSE list.next[Last(seen)]
             IN  IF n = INVALID_NOTE THEN seen ELSE Append(seen, n)
  IN  walk[Cardinality(Note)]

\* mutants of Unlink: the oldest note, or the newer note's pointer, is not updated
UnlinkKeepsOldest(list, n) ==
  LET older == list.next[n]
      newer == list.previous[n]
      shared == [list EXCEPT !.previous = Link(@, older, newer)]
  IN  IF n = list.head
      THEN [shared EXCEPT !.head = older]
      ELSE [shared EXCEPT !.next = Link(Link(@, newer, older), n, INVALID_NOTE),
                          !.previous = Link(@, n, INVALID_NOTE)]

UnlinkKeepsNext(list, n) ==
  LET older == list.next[n]
      newer == list.previous[n]
      shared == [list EXCEPT !.oldest = IF @ = n THEN newer ELSE @,
                             !.previous = Link(@, older, newer)]
  IN  IF n = list.head
      THEN [shared EXCEPT !.head = older]
      ELSE [shared EXCEPT !.next = Link(@, n, INVALID_NOTE),
                          !.previous = Link(@, n, INVALID_NOTE)]

(***************************************************************************)
(* remove<false>: takes the neighbours of n off their pointers to n.  When *)
(* n is the head its own next pointer stays as it was.                     *)
(***************************************************************************)
Unlink(list, n) ==
  LET older == list.next[n]
      newer == list.previous[n]
      shared == [list EXCEPT !.oldest = IF @ = n THEN newer ELSE @,
                             !.previous = Link(@, older, newer)]
  IN  IF n = list.head
      THEN [shared EXCEPT !.head = older]
      ELSE [shared EXCEPT !.next = Link(Link(@, newer, older), n, INVALID_NOTE),
                          !.previous = Link(@, n, INVALID_NOTE)]

BasicPush(list, n) ==
  LET aged == [list EXCEPT !.oldest = IF @ = INVALID_NOTE THEN n ELSE @]
      rest == IF Find(aged, n) THEN Unlink(aged, n) ELSE aged
  IN  [rest EXCEPT !.previous = Link(@, rest.head, n),
                   !.next = Link(@, n, rest.head),
                   !.head = n]

BasicPop(list) ==
  LET older == list.next[list.head]
  IN  [list EXCEPT !.head = older,
                   !.previous = Link(@, older, INVALID_NOTE),
                   !.next = Link(@, list.head, INVALID_NOTE)]

UpdateExtremesAfterRemove(list, changed) ==
  LET held == ToSet(Chain(list))
      lows == held \cup ({list.lowest} \ {changed, INVALID_NOTE})
      highs == held \cup ({list.highest} \ {changed, INVALID_NOTE})
  IN  IF list.head = INVALID_NOTE
      THEN [list EXCEPT !.lowest = INVALID_NOTE, !.highest = INVALID_NOTE]
      ELSE IF changed \in {list.lowest, list.highest}
           THEN [list EXCEPT !.lowest = Min(lows), !.highest = Max(highs)]
           ELSE list

PushNote(list, n) ==
  LET pushed == BasicPush(list, n)
  IN  [pushed EXCEPT !.lowest = IF @ = INVALID_NOTE \/ n < @ THEN n ELSE @,
                     !.highest = IF @ = INVALID_NOTE \/ n > @ THEN n ELSE @]

PopNote(list) == UpdateExtremesAfterRemove(BasicPop(list), list.head)

RemoveNote(list, n) == UpdateExtremesAfterRemove(Unlink(list, n), n)
=============================================================================
