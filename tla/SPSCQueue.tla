----------------------------- MODULE SPSCQueue ------------------------------
(***************************************************************************)
(* src/src/spscqueue.cpp: a ring of capacity + 1 slots between a producer  *)
(* and a consumer thread.  Every load and store of the two atomic indices, *)
(* and every access to a slot, is a step; the atomics are sequentially     *)
(* consistent, as the code leaves the memory order at its default.         *)
(*                                                                         *)
(* The consumer pops as Proxy::process_messages and the message loops of   *)
(* the FST plugin do: length() items at most, once the length is known.    *)
(***************************************************************************)
EXTENDS Naturals, Sequences

CONSTANTS Items, Capacity, DefaultItem

ASSUME CapacityAssumption == Capacity \in Nat \ {0}
ASSUME DefaultAssumption == DefaultItem \notin Items

VARIABLES
  items,         \* the slots
  next_push,     \* the slot that the next push fills
  next_pop,      \* the slot that the next pop empties
  producer,      \* where push() is, with its local variables
  consumer,      \* where the loop around pop() is, with its local variables
  push_result,   \* what the last push returned
  delivered      \* what the last successful pop left in its argument

vars == <<items, next_push, next_pop, producer, consumer, push_result, delivered>>
producer_vars == <<next_push, producer, push_result>>
consumer_vars == <<next_pop, consumer, delivered>>

Slots == Capacity + 1
Slot == 0..Capacity
Item == Items \cup {DefaultItem}

Producers == [pc : {"idle", "load", "write", "store"}, item : Item]
Consumers == [pc : {"idle", "length", "pop", "load", "swap", "store"},
              left : 0..Capacity, item : Item]

\* mutant of Advance: one slot too far before the wrap-around
AdvanceTooFar(index) == IF index >= Slots THEN index + 1 - Slots ELSE index + 1

Advance(index) == IF index + 1 >= Slots THEN index + 1 - Slots ELSE index + 1

Length(pop, push) == IF push < pop THEN Slots + push - pop ELSE push - pop

Init ==
  /\ items = [s \in Slot |-> DefaultItem]
  /\ next_push = 0 /\ next_pop = 0
  /\ producer = [pc |-> "idle", item |-> DefaultItem]
  /\ consumer = [pc |-> "idle", left |-> 0, item |-> DefaultItem]
  /\ push_result = TRUE /\ delivered = DefaultItem

-----------------------------------------------------------------------------
(* push(item); its local old_next_push is next_push, which only it stores. *)

StartPush(item) ==
  /\ producer.pc = "idle"
  /\ producer' = [pc |-> "load", item |-> item]
  /\ UNCHANGED <<items, next_push, push_result, consumer_vars>>

\* mutant of LoadNextPop: the slot that keeps full and empty apart is filled too
LoadNextPopLate ==
  /\ producer.pc = "load"
  /\ producer' = [producer EXCEPT !.pc = "write"]
  /\ UNCHANGED <<items, next_push, push_result, consumer_vars>>

\* next_pop.load(), and return false when full
LoadNextPop ==
  /\ producer.pc = "load"
  /\ \/ /\ next_pop = Advance(next_push)
        /\ producer' = [producer EXCEPT !.pc = "idle"]
        /\ push_result' = FALSE
     \/ /\ next_pop # Advance(next_push)
        /\ producer' = [producer EXCEPT !.pc = "write"]
        /\ UNCHANGED push_result
  /\ UNCHANGED <<items, next_push, consumer_vars>>

WriteItem ==
  /\ producer.pc = "write"
  /\ items' = [items EXCEPT ![next_push] = producer.item]
  /\ producer' = [producer EXCEPT !.pc = "store"]
  /\ UNCHANGED <<next_push, push_result, consumer_vars>>

StoreNextPush ==
  /\ producer.pc = "store"
  /\ next_push' = Advance(next_push)
  /\ push_result' = TRUE
  /\ producer' = [producer EXCEPT !.pc = "idle"]
  /\ UNCHANGED <<items, consumer_vars>>

-----------------------------------------------------------------------------
(* The consumer's loop; pop()'s local next_pop is the index itself, which  *)
(* only it stores.                                                         *)

StartLoop ==
  /\ consumer.pc = "idle"
  /\ consumer' = [consumer EXCEPT !.pc = "length"]
  /\ UNCHANGED <<items, next_pop, delivered, producer_vars>>

LoopPc(left) == IF left = 0 THEN "idle" ELSE "pop"

\* mutant of LoadLength: with the item that is just being pushed
LoadLengthEarly ==
  /\ consumer.pc = "length"
  /\ LET left == Length(next_pop, IF producer.pc = "store" THEN Advance(next_push)
                                                          ELSE next_push)
     IN  consumer' = [consumer EXCEPT !.left = left, !.pc = LoopPc(left)]
  /\ UNCHANGED <<items, next_pop, delivered, producer_vars>>

\* length(): next_push.load()
LoadLength ==
  /\ consumer.pc = "length"
  /\ LET left == Length(next_pop, next_push)
     IN  consumer' = [consumer EXCEPT !.left = left, !.pc = LoopPc(left)]
  /\ UNCHANGED <<items, next_pop, delivered, producer_vars>>

StartPop ==
  /\ consumer.pc = "pop"
  /\ consumer' = [consumer EXCEPT !.pc = "load"]
  /\ UNCHANGED <<items, next_pop, delivered, producer_vars>>

\* next_push.load(), and return false when empty
LoadNextPush ==
  /\ consumer.pc = "load"
  /\ IF next_push = next_pop
       THEN consumer' = [consumer EXCEPT !.left = @ - 1, !.pc = LoopPc(consumer.left - 1)]
       ELSE consumer' = [consumer EXCEPT !.pc = "swap"]
  /\ UNCHANGED <<items, next_pop, delivered, producer_vars>>

\* mutant of SwapItem: the index is advanced before the slot is read
SwapItemAdvanced ==
  /\ consumer.pc = "swap"
  /\ items' = [items EXCEPT ![Advance(next_pop)] = DefaultItem]
  /\ consumer' = [consumer EXCEPT !.pc = "store", !.item = items[Advance(next_pop)]]
  /\ UNCHANGED <<next_pop, delivered, producer_vars>>

SwapItem ==
  /\ consumer.pc = "swap"
  /\ items' = [items EXCEPT ![next_pop] = DefaultItem]
  /\ consumer' = [consumer EXCEPT !.pc = "store", !.item = items[next_pop]]
  /\ UNCHANGED <<next_pop, delivered, producer_vars>>

\* mutant of StoreNextPop: pop() leaves its argument alone
StoreNextPopOnly ==
  /\ consumer.pc = "store"
  /\ next_pop' = Advance(next_pop)
  /\ consumer' = [consumer EXCEPT !.left = @ - 1, !.pc = LoopPc(consumer.left - 1)]
  /\ UNCHANGED <<items, delivered, producer_vars>>

StoreNextPop ==
  /\ consumer.pc = "store"
  /\ next_pop' = Advance(next_pop)
  /\ delivered' = consumer.item
  /\ consumer' = [consumer EXCEPT !.left = @ - 1, !.pc = LoopPc(consumer.left - 1)]
  /\ UNCHANGED <<items, producer_vars>>

Push == (\E item \in Items : StartPush(item)) \/ LoadNextPop \/ WriteItem \/ StoreNextPush

Pop == StartLoop \/ LoadLength \/ StartPop \/ LoadNextPush \/ SwapItem \/ StoreNextPop

Next == Push \/ Pop

Spec == Init /\ [][Next]_vars

-----------------------------------------------------------------------------
(* Properties. *)

(* Every variable keeps its type. *)
TypeOK ==
  /\ items \in [Slot -> Item]
  /\ next_push \in Slot /\ next_pop \in Slot
  /\ producer \in Producers /\ consumer \in Consumers
  /\ push_result \in BOOLEAN /\ delivered \in Item

\* how many slots the queue spans, from the one to pop to the one to push
Distance(pop, push) == IF pop <= push THEN push - pop ELSE push + Slots - pop

Count == Distance(next_pop, next_push)

\* the slot of the i-th item in the queue
SlotOf(i) ==
  IF next_pop + i > Slots THEN next_pop + i - 1 - Slots ELSE next_pop + i - 1

(***************************************************************************)
(* The queue as its promise has it.  A push takes effect when it stores    *)
(* next_push, a pop when it stores next_pop: until then the item that was  *)
(* swapped out is still the first.                                         *)
(***************************************************************************)
Contents ==
  [i \in 1..Count |-> IF i = 1 /\ consumer.pc = "store" THEN consumer.item
                                                        ELSE items[SlotOf(i)]]

Fifo == INSTANCE BoundedFifo WITH queue <- Contents

(***************************************************************************)
(* The queue is linearizable: whatever the steps of the two threads are    *)
(* between, items are delivered in the order they were pushed in, each     *)
(* once, and a push is refused only while Capacity items are in the queue. *)
(***************************************************************************)
ImplementsFifo == Fifo!FifoSpec

(***************************************************************************)
(* The producer never writes the slot that the consumer is about to swap:  *)
(* items itself is not atomic, so that would be a data race.               *)
(***************************************************************************)
NoDataRace == producer.pc = "write" /\ consumer.pc = "swap" => next_push # next_pop

(***************************************************************************)
(* The items that length() promised to the consumer's loop are there to be *)
(* popped, although the producer goes on: no pop of the loop fails.        *)
(***************************************************************************)
PromisedItemsAreThere ==
  consumer.pc \in {"pop", "load", "swap", "store"} => consumer.left \in 1..Count

PushSteps == LoadNextPop \/ WriteItem \/ StoreNextPush

(***************************************************************************)
(* A push that was called goes on, and the consumer's thread keeps running *)
(* its loop: the audio thread once per block, the GUI thread when idle.    *)
(***************************************************************************)
FairSpec == Spec /\ WF_vars(PushSteps) /\ WF_vars(Pop)

(* Every item that a push accepted is delivered at last. *)
ItemsArrive ==
  \A item \in Items :
    (\E i \in DOMAIN Contents : Contents[i] = item) ~> delivered = item
=============================================================================
