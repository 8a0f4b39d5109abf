----------------------------- MODULE NoteStack ------------------------------
(***************************************************************************)
(* One NoteStack object under two users.  ProxySpec is the way Proxy uses  *)
(* note_stack and its two halves: it pushes only notes that are not held,  *)
(* removes only held notes or notes of the other half (push_note_off       *)
(* removes a note from both halves), and pops only to remove the popped    *)
(* note right away (stop_all_notes).  ApiSpec calls push, pop, remove and  *)
(* clear in any order, as the unit tests of the class do.                  *)
(***************************************************************************)
EXTENDS NoteList

CONSTANT OtherHalf   \* notes of the other half: removed, never pushed

ASSUME OtherHalfAssumption == OtherHalf \subseteq Note

VARIABLE stack

StackInit == stack = EmptyList

Push(n) == stack' = PushNote(stack, n)

RemoveAny(n) == stack' = RemoveNote(stack, n)

Pop == stack.head # INVALID_NOTE /\ stack' = PopNote(stack)

Clear == stack' = EmptyList

-----------------------------------------------------------------------------
(* Proxy's use of the stack. *)

PushNew(n) == n \notin OtherHalf /\ ~Find(stack, n) /\ Push(n)

RemoveHeld(n) == Find(stack, n) /\ RemoveAny(n)

RemoveForeign(n) == n \in OtherHalf /\ RemoveAny(n)

\* an iteration of stop_all_notes: pop, then push_note_off removes that note
PopAndRemove ==
  /\ stack.head # INVALID_NOTE
  /\ stack' = RemoveNote(PopNote(stack), stack.head)

ProxyNext ==
  \/ \E n \in Note : PushNew(n) \/ RemoveHeld(n) \/ RemoveForeign(n)
  \/ PopAndRemove
  \/ Clear

ProxySpec == StackInit /\ [][ProxyNext]_stack

ApiNext == Pop \/ Clear \/ \E n \in Note : Push(n) \/ RemoveAny(n)

ApiSpec == StackInit /\ [][ApiNext]_stack

-----------------------------------------------------------------------------
(* The pointers and cached notes of the list have their types. *)
StackTypeOK == stack \in List

(***************************************************************************)
(* What the list answers without a walk is right after any sequence of     *)
(* pushes and removals: find() looks only at head and one previous pointer *)
(* and yet answers membership, and the cached lowest, highest and oldest   *)
(* notes, which voice stealing and the controller rules read, are those of *)
(* the notes that a walk from the head meets.                              *)
(***************************************************************************)
AnswersAreThoseOfTheWalk ==
  LET chain == Chain(stack)
  IN  /\ \A n \in Note : Find(stack, n) <=> n \in ToSet(chain)
      /\ IF chain = <<>>
         THEN {stack.oldest, stack.lowest, stack.highest} = {INVALID_NOTE}
         ELSE /\ stack.oldest = Last(chain)
              /\ stack.lowest = Min(ToSet(chain))
              /\ stack.highest = Max(ToSet(chain))

(***************************************************************************)
(* test_note_stack.cpp:332: "removing_note_which_is_already_removed_is_    *)
(* no_op": removing a note that is not in the list changes no answer of    *)
(* find and no note of the walk.                                           *)
(***************************************************************************)
RemovingAbsentNoteIsNoOp ==
  [][\A n \in Note \ ToSet(Chain(stack)) :
        stack' = RemoveNote(stack, n)
          => /\ Chain(stack') = Chain(stack)
             /\ \A m \in Note : Find(stack, m) <=> Find(stack, m)']_stack

(* Seen as the walk from its head, the list is the unique LIFO of NoteOrder. *)
Order == INSTANCE NoteOrder WITH order <- Chain(stack)

ImplementsNoteOrder == Order!OrderSpec
=============================================================================
