---------------------------- MODULE BoundedFifo -----------------------------
(***************************************************************************)
(* What SPSCQueue promises (src/src/spscqueue.hpp: "a lockless, waitless   *)
(* FIFO container for a single producer thread and a single consumer       *)
(* thread"), with every call taking effect in one step: a push appends its *)
(* item, unless there are Capacity items already, then it is refused; a    *)
(* pop delivers the first item, and only fails when there is none.         *)
(***************************************************************************)
EXTENDS Naturals, Sequences

CONSTANTS
  Items,         \* what the producer pushes
  Capacity,      \* how many items the queue holds
  DefaultItem    \* a default-constructed item, delivered before the first pop

VARIABLES
  queue,         \* the items pushed and not popped yet, oldest first
  push_result,   \* what the producer's last push returned
  delivered      \* what the consumer's last successful pop delivered

fifo_vars == <<queue, push_result, delivered>>

FifoInit == queue = <<>> /\ push_result = TRUE /\ delivered = DefaultItem

Put(item) ==
  /\ Len(queue) < Capacity
  /\ queue' = Append(queue, item)
  /\ push_result' = TRUE
  /\ UNCHANGED delivered

Refuse ==
  /\ Len(queue) = Capacity
  /\ push_result' = FALSE
  /\ UNCHANGED <<queue, delivered>>

Take ==
  /\ queue # <<>>
  /\ delivered' = Head(queue)
  /\ queue' = Tail(queue)
  /\ UNCHANGED push_result

FifoNext == (\E item \in Items : Put(item)) \/ Refuse \/ Take

FifoSpec == FifoInit /\ [][FifoNext]_fifo_vars
=============================================================================
