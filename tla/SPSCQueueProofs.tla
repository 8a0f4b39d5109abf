-------------------------- MODULE SPSCQueueProofs ---------------------------
(***************************************************************************)
(* SPSCQueue implements BoundedFifo, for every capacity and all items.     *)
(*                                                                         *)
(* The inductive invariant adds to the types what each thread may still    *)
(* rely on after it has loaded the other's index: the free slot that the   *)
(* producer found stays free, because only it pushes, and the items that   *)
(* the consumer counted stay there, because only it pops.                  *)
(***************************************************************************)
EXTENDS SPSCQueue, SequenceTheorems, TLAPS

ProducerInv ==
  /\ producer.pc # "idle" => producer.item \in Items
  /\ producer.pc \in {"write", "store"} => next_pop # Advance(next_push)
  /\ producer.pc = "store" => items[next_push] = producer.item

IInv == TypeOK /\ ProducerInv /\ PromisedItemsAreThere

(* The inductive invariant holds initially. *)
LEMMA InitIInv == Init => IInv
  BY CapacityAssumption
  DEF Init, IInv, TypeOK, ProducerInv, PromisedItemsAreThere, Slot, Item,
      Producers, Consumers

(* What a count of items is, and how a push and a pop change it. *)
LEMMA CountFacts ==
  ASSUME NEW pop \in Slot, NEW push \in Slot
  PROVE  /\ Length(pop, push) = Distance(pop, push)
         /\ Distance(pop, push) \in 0..Capacity
         /\ Advance(push) \in Slot
         /\ pop = Advance(push) <=> Distance(pop, push) = Capacity
         /\ pop = push <=> Distance(pop, push) = 0
         /\ pop # Advance(push) => Distance(pop, Advance(push)) = Distance(pop, push) + 1
         /\ pop # push => Distance(Advance(pop), push) = Distance(pop, push) - 1
         /\ pop # push => Advance(pop) # Advance(push)
  BY CapacityAssumption DEF Slot, Slots, Length, Distance, Advance

(* The local variables of the two threads, typed one by one. *)
LEMMA LocalsTyped ==
  ASSUME TypeOK
  PROVE  /\ producer.pc \in {"idle", "load", "write", "store"} /\ producer.item \in Item
         /\ consumer.pc \in {"idle", "length", "pop", "load", "swap", "store"}
         /\ consumer.left \in 0..Capacity /\ consumer.item \in Item
         /\ Count \in 0..Capacity
  BY CountFacts DEF TypeOK, Producers, Consumers, Count

(* The producer's steps keep the inductive invariant. *)
LEMMA PushIInv == IInv /\ Push => IInv'
<1> SUFFICES ASSUME IInv, Push PROVE IInv'
  OBVIOUS
<1> USE LocalsTyped DEF IInv
<1>1. ASSUME NEW item \in Items, StartPush(item) PROVE IInv'
  BY <1>1 DEF StartPush, TypeOK, ProducerInv, PromisedItemsAreThere, Producers,
              Item, consumer_vars, Count
<1>2. CASE LoadNextPop
  <2>1. /\ producer' \in Producers /\ producer'.item = producer.item
        /\ \/ producer'.pc = "idle"
           \/ producer'.pc = "write" /\ next_pop # Advance(next_push)
    BY <1>2 DEF LoadNextPop, TypeOK, Producers
  <2>2. TypeOK'
    BY <1>2, <2>1 DEF LoadNextPop, TypeOK, consumer_vars
  <2>3. ProducerInv'
    BY <1>2, <2>1 DEF LoadNextPop, ProducerInv, consumer_vars
  <2> QED
    BY <1>2, <2>2, <2>3 DEF LoadNextPop, PromisedItemsAreThere, Count, consumer_vars
<1>3. CASE WriteItem
  BY <1>3 DEF WriteItem, TypeOK, ProducerInv, PromisedItemsAreThere, Producers,
              Item, consumer_vars, Count
<1>4. CASE StoreNextPush
  <2>1. producer' \in Producers /\ producer'.pc = "idle"
    BY <1>4 DEF StoreNextPush, TypeOK, Producers
  <2>2. Advance(next_push) \in Slot
    BY CountFacts DEF TypeOK
  <2>3. TypeOK'
    BY <1>4, <2>1, <2>2 DEF StoreNextPush, TypeOK, consumer_vars
  <2>4. Count' = Count + 1
    BY <1>4, CountFacts DEF StoreNextPush, ProducerInv, TypeOK, Count, consumer_vars
  <2>5. PromisedItemsAreThere'
    BY <1>4, <2>4 DEF StoreNextPush, PromisedItemsAreThere, consumer_vars
  <2> QED  BY <2>1, <2>3, <2>5 DEF ProducerInv
<1> QED  BY <1>1, <1>2, <1>3, <1>4 DEF Push

(* The consumer's steps keep the inductive invariant. *)
LEMMA PopIInv == IInv /\ Pop => IInv'
<1> SUFFICES ASSUME IInv, Pop PROVE IInv'
  OBVIOUS
<1> USE LocalsTyped DEF IInv
<1>1. CASE StartLoop
  BY <1>1 DEF StartLoop, TypeOK, ProducerInv, PromisedItemsAreThere, Consumers,
              producer_vars, Count
<1>2. CASE LoadLength
  <2>1. Length(next_pop, next_push) = Count
    BY CountFacts DEF Count, TypeOK
  <2>2. consumer' = [consumer EXCEPT !.left = Count, !.pc = LoopPc(Count)]
    BY <1>2, <2>1 DEF LoadLength
  <2>3. /\ consumer' \in Consumers
        /\ consumer'.left = Count /\ consumer'.pc = LoopPc(Count)
    BY <2>2 DEF TypeOK, Consumers, LoopPc
  <2>4. TypeOK' /\ ProducerInv' /\ Count' = Count
    BY <1>2, <2>3 DEF LoadLength, TypeOK, ProducerInv, Count, producer_vars
  <2>5. PromisedItemsAreThere'
    BY <2>3, <2>4 DEF PromisedItemsAreThere, LoopPc
  <2> QED  BY <2>4, <2>5
<1>3. CASE StartPop
  BY <1>3 DEF StartPop, TypeOK, ProducerInv, PromisedItemsAreThere, Consumers,
              producer_vars, Count
<1>4. CASE LoadNextPush
  <2>1. consumer' = [consumer EXCEPT !.pc = "swap"]
    BY <1>4, CountFacts DEF LoadNextPush, PromisedItemsAreThere, Count, TypeOK
  <2>2. /\ consumer' \in Consumers
        /\ consumer'.left = consumer.left /\ consumer'.pc = "swap"
    BY <2>1 DEF TypeOK, Consumers
  <2> QED
    BY <1>4, <2>2 DEF LoadNextPush, TypeOK, ProducerInv, PromisedItemsAreThere,
                      Count, producer_vars
<1>5. CASE SwapItem
  <2>1. consumer' \in Consumers /\ consumer'.left = consumer.left
    BY <1>5 DEF SwapItem, TypeOK, Consumers
  <2>2. items' \in [Slot -> Item]
    BY <1>5 DEF SwapItem, TypeOK, Item
  <2>3. TypeOK'
    BY <1>5, <2>1, <2>2 DEF SwapItem, TypeOK, producer_vars
  <2>4. next_pop # next_push
    BY <1>5, CountFacts DEF SwapItem, PromisedItemsAreThere, Count, TypeOK
  <2>5. ProducerInv'
    BY <1>5, <2>4 DEF SwapItem, ProducerInv, TypeOK, producer_vars
  <2>6. PromisedItemsAreThere'
    BY <1>5, <2>1 DEF SwapItem, PromisedItemsAreThere, Count, producer_vars
  <2> QED  BY <2>3, <2>5, <2>6
<1>6. CASE StoreNextPop
  <2>1. consumer.left \in 1..Count
    BY <1>6 DEF StoreNextPop, PromisedItemsAreThere
  <2>2. consumer' = [consumer EXCEPT !.left = consumer.left - 1,
                                     !.pc = LoopPc(consumer.left - 1)]
    BY <1>6 DEF StoreNextPop
  <2>3. consumer'.left = consumer.left - 1 /\ consumer'.pc = LoopPc(consumer.left - 1)
    BY <2>2 DEF TypeOK, Consumers
  <2>4. consumer' \in Consumers
    <3>1. /\ consumer.left - 1 \in 0..Capacity
          /\ LoopPc(consumer.left - 1) \in {"idle", "pop"}
      BY <2>1, CapacityAssumption DEF LoopPc
    <3> QED  BY <2>2, <3>1 DEF TypeOK, Consumers
  <2>5. next_pop # next_push /\ Advance(next_pop) \in Slot
    BY <2>1, CountFacts DEF TypeOK, Count
  <2>6. TypeOK'
    BY <1>6, <2>4, <2>5 DEF StoreNextPop, TypeOK, producer_vars
  <2>7. Advance(next_pop) # Advance(next_push)
    BY <2>5, CountFacts DEF TypeOK
  <2>8. ProducerInv'
    BY <1>6, <2>7 DEF StoreNextPop, ProducerInv, TypeOK, producer_vars
  <2>9. Count' = Count - 1
    BY <1>6, <2>5, CountFacts DEF StoreNextPop, Count, TypeOK, producer_vars
  <2>10. PromisedItemsAreThere'
    BY <2>1, <2>3, <2>9 DEF PromisedItemsAreThere, LoopPc
  <2> QED  BY <2>6, <2>8, <2>10
<1> QED  BY <1>1, <1>2, <1>3, <1>4, <1>5, <1>6 DEF Pop

LEMMA StutterIInv == IInv /\ UNCHANGED vars => IInv'
  BY DEF vars, IInv, TypeOK, ProducerInv, PromisedItemsAreThere, Count

LEMMA NextIInv == IInv /\ [Next]_vars => IInv'
  BY PushIInv, PopIInv, StutterIInv DEF Next

(* Every reachable state satisfies the inductive invariant. *)
THEOREM Invariance == Spec => []IInv
  BY InitIInv, NextIInv, PTL DEF Spec

(***************************************************************************)
(* For every capacity the indices stay on the ring and each thread's place *)
(* and locals keep their types (TypeOK), however the accesses of push()    *)
(* and of the pop loop interleave.                                         *)
(***************************************************************************)
THEOREM TypeCorrect == Spec => []TypeOK
  BY Invariance, PTL DEF IInv

(* The two threads never access the same slot at a time. *)
THEOREM RaceFree == Spec => []NoDataRace
<1>1. IInv => NoDataRace
  BY LocalsTyped, CountFacts
  DEF IInv, NoDataRace, PromisedItemsAreThere, Count, TypeOK
<1> QED  BY <1>1, Invariance, PTL

(* The pops that length() promised succeed. *)
THEOREM PromiseKept == Spec => []PromisedItemsAreThere
  BY Invariance, PTL DEF IInv

-----------------------------------------------------------------------------
(* The refinement. *)

Content(i) == IF i = 1 /\ consumer.pc = "store" THEN consumer.item ELSE items[SlotOf(i)]

(* Contents is a sequence of Count items. *)
ContentsOK ==
  /\ Contents \in Seq(Item) /\ Len(Contents) = Count
  /\ \A i \in 1..Count : Contents[i] = Content(i) /\ SlotOf(i) \in Slot

LEMMA ContentsFacts == TypeOK => ContentsOK
<1> SUFFICES ASSUME TypeOK PROVE ContentsOK
  OBVIOUS
<1>1. Count \in Nat
  BY LocalsTyped, CapacityAssumption
<1>2. ASSUME NEW i \in 1..Count PROVE SlotOf(i) \in Slot /\ Content(i) \in Item
  <2>1. SlotOf(i) \in Slot
    BY <1>1, CapacityAssumption DEF TypeOK, SlotOf, Slot, Slots, Count, Distance
  <2> QED  BY <2>1, LocalsTyped DEF TypeOK, Content
<1>3. Contents \in [1..Count -> Item]
  BY <1>2, Zenon DEF Contents, Content
<1>4. Contents \in Seq(Item) /\ Len(Contents) = Count
  <2> HIDE DEF Contents
  <2> QED  BY <1>1, <1>3
<1> QED  BY <1>2, <1>4 DEF ContentsOK, Contents, Content

(* Two states have the same contents if they have the same items. *)
LEMMA SameContents ==
  ASSUME TypeOK, TypeOK', Count' = Count,
         \A i \in 1..Count : Content(i)' = Content(i)
  PROVE  Contents' = Contents
<1>1. ContentsOK /\ ContentsOK'
  BY ContentsFacts, PTL
<1> QED  BY <1>1, SeqEqual DEF ContentsOK

(* Where the items are: the next push fills the slot behind the last, and  *)
(* popping one moves the others up.                                        *)
LEMMA SlotFacts ==
  ASSUME TypeOK
  PROVE  /\ Count < Capacity => SlotOf(Count + 1) = next_push
         /\ \A i \in 1..Count : SlotOf(i) # next_push
         /\ \A i \in 2..Count : SlotOf(i) # next_pop
         /\ Count > 0 => SlotOf(1) = next_pop
  BY CapacityAssumption DEF TypeOK, Slot, Slots, SlotOf, Count, Distance

Unmoved == UNCHANGED <<Contents, push_result, delivered>>

(* Every step of the threads is a step of the promise, or none. *)
LEMMA StepSimulation ==
  IInv /\ IInv' /\ [Next]_vars => [Fifo!FifoNext]_(Fifo!fifo_vars)
<1> SUFFICES ASSUME IInv, IInv', [Next]_vars
             PROVE  [Fifo!FifoNext]_(Fifo!fifo_vars)
  OBVIOUS
<1>0. /\ TypeOK /\ TypeOK' /\ ProducerInv /\ PromisedItemsAreThere
      /\ ContentsOK /\ ContentsOK' /\ Count \in 0..Capacity
  BY ContentsFacts, LocalsTyped, PTL DEF IInv
<1>1. ASSUME NEW item \in Items, StartPush(item) PROVE Unmoved
  <2>1. Count' = Count /\ \A i \in 1..Count : Content(i)' = Content(i)
    BY <1>1 DEF StartPush, Count, Content, SlotOf, consumer_vars
  <2> QED  BY <1>0, <1>1, <2>1, SameContents DEF StartPush, consumer_vars, Unmoved
<1>2. CASE LoadNextPop
  <2>1. Count' = Count /\ \A i \in 1..Count : Content(i)' = Content(i)
    BY <1>2 DEF LoadNextPop, Count, Content, SlotOf, consumer_vars
  <2>2. Contents' = Contents /\ delivered' = delivered
    BY <1>0, <1>2, <2>1, SameContents DEF LoadNextPop, consumer_vars
  <2>3. CASE next_pop = Advance(next_push)
    <3>1. Len(Contents) = Capacity
      BY <1>0, <2>3, CountFacts DEF ContentsOK, TypeOK, Count
    <3> QED  BY <1>2, <2>2, <2>3, <3>1 DEF LoadNextPop, Fifo!FifoNext, Fifo!Refuse
  <2>4. CASE next_pop # Advance(next_push)
    BY <1>2, <2>2, <2>4 DEF LoadNextPop, Fifo!fifo_vars
  <2> QED  BY <2>3, <2>4
<1>3. ASSUME WriteItem PROVE Unmoved
  <2>1. \A i \in 1..Count : Content(i)' = Content(i)
    BY <1>0, <1>3, SlotFacts DEF WriteItem, Content, ContentsOK, TypeOK, SlotOf, consumer_vars
  <2>2. Count' = Count
    BY <1>3 DEF WriteItem, Count, consumer_vars
  <2> QED  BY <1>0, <1>3, <2>1, <2>2, SameContents DEF WriteItem, consumer_vars, Unmoved
<1>4. CASE StoreNextPush
  <2>1. Count < Capacity /\ Count' = Count + 1
    BY <1>0, <1>4, CountFacts DEF StoreNextPush, ProducerInv, TypeOK, Count, consumer_vars
  <2>2. producer.item \in Items /\ producer.item \in Item
    BY <1>0, <1>4 DEF StoreNextPush, ProducerInv, Item
  <2>3. \A i \in 1..Count : Content(i)' = Content(i)
    BY <1>4 DEF StoreNextPush, Content, SlotOf, consumer_vars
  <2> PICK last \in Nat : last = Count + 1
    BY <1>0
  <2>4. Content(last)' = producer.item
    <3>1. SlotOf(last)' = next_push
      BY <1>0, <1>4, <2>1, SlotFacts DEF StoreNextPush, SlotOf, consumer_vars
    <3>2. ~(last = 1 /\ consumer.pc = "store")
      BY <1>0 DEF PromisedItemsAreThere
    <3> QED  BY <1>0, <1>4, <3>1, <3>2 DEF StoreNextPush, Content, ProducerInv, consumer_vars
  <2>5. Contents' = Append(Contents, producer.item)
    <3> DEFINE appended == Append(Contents, producer.item)
    <3>1. /\ appended \in Seq(Item) /\ Len(appended) = last
          /\ \A i \in 1..Count : appended[i] = Content(i)
          /\ appended[last] = producer.item
      BY <1>0, <2>2, AppendProperties DEF ContentsOK
    <3>2. /\ Contents' \in Seq(Item) /\ Len(Contents') = last
          /\ \A i \in 1..last : Contents'[i] = Content(i)'
      BY <1>0, <2>1 DEF ContentsOK
    <3> HIDE DEF appended
    <3>3. ASSUME NEW i \in 1..last PROVE Contents'[i] = appended[i]
      <4>1. CASE i = last
        BY <2>4, <3>1, <3>2, <4>1
      <4>2. CASE i # last
        BY <1>0, <2>3, <3>1, <3>2, <4>2
      <4> QED  BY <4>1, <4>2
    <3> QED  BY <3>1, <3>2, <3>3, SeqEqual DEF appended
  <2>6. Fifo!Put(producer.item)
    BY <1>0, <1>4, <2>1, <2>5 DEF StoreNextPush, Fifo!Put, ContentsOK, consumer_vars
  <2> QED  BY <2>2, <2>6 DEF Fifo!FifoNext
<1>5. ASSUME StartLoop \/ LoadLength \/ StartPop \/ LoadNextPush PROVE Unmoved
  <2>1. /\ UNCHANGED <<items, next_push, next_pop, push_result, delivered>>
        /\ consumer.pc # "store" /\ consumer'.pc # "store"
    BY <1>0, <1>5 DEF StartLoop, LoadLength, StartPop, LoadNextPush, LoopPc,
       producer_vars, TypeOK, Consumers
  <2>2. Count' = Count /\ \A i \in 1..Count : Content(i)' = Content(i)
    BY <2>1 DEF Count, Content, SlotOf
  <2> QED  BY <1>0, <2>1, <2>2, SameContents DEF Unmoved
<1>6. ASSUME SwapItem PROVE Unmoved
  <2>1. consumer'.pc = "store" /\ consumer'.item = items[next_pop]
    BY <1>0, <1>6 DEF SwapItem, TypeOK, Consumers
  <2>2. Count' = Count
    BY <1>6 DEF SwapItem, Count, producer_vars
  <2>3. ASSUME NEW i \in 1..Count PROVE Content(i)' = Content(i)
    <3>1. CASE i = 1
      BY <1>0, <1>6, <2>1, <3>1, SlotFacts DEF SwapItem, Content
    <3>2. CASE i # 1
      <4>1. SlotOf(i) \in Slot /\ SlotOf(i) # next_pop
        BY <1>0, <3>2, SlotFacts DEF ContentsOK
      <4> QED  BY <1>0, <1>6, <3>2, <4>1 DEF SwapItem, Content, SlotOf, TypeOK
    <3> QED  BY <3>1, <3>2
  <2> QED  BY <1>0, <1>6, <2>2, <2>3, SameContents DEF SwapItem, producer_vars, Unmoved
<1>7. CASE StoreNextPop
  <2>1. Count \in Nat \ {0} /\ next_pop # next_push
    BY <1>0, <1>7, CountFacts DEF StoreNextPop, PromisedItemsAreThere, TypeOK, Count
  <2>2. Count' = Count - 1
    BY <1>0, <1>7, <2>1, CountFacts DEF StoreNextPop, TypeOK, Count, producer_vars
  <2>3. consumer'.pc # "store"
    BY <1>0, <1>7 DEF StoreNextPop, LoopPc, TypeOK, Consumers
  <2>4. ASSUME NEW i \in 1..Count - 1 PROVE Content(i)' = Content(i + 1)
    <3>1. next_pop' = Advance(next_pop) /\ next_pop \in Slot
      BY <1>0, <1>7 DEF StoreNextPop, TypeOK
    <3> i \in Nat /\ 1 <= i /\ i < Capacity
      BY <1>0, <2>1, CapacityAssumption
    <3>2. SlotOf(i)' = SlotOf(i + 1)
      BY <3>1, CapacityAssumption DEF SlotOf, Slot, Slots, Advance
    <3> QED  BY <1>7, <2>1, <2>3, <3>2 DEF StoreNextPop, Content
  <2>5. Contents # <<>> /\ Head(Contents) = consumer.item
    BY <1>0, <1>7, <2>1 DEF StoreNextPop, ContentsOK, Content
  <2>6. Contents' = Tail(Contents)
    <3> DEFINE rest == Tail(Contents)
    <3>1. /\ rest \in Seq(Item) /\ Len(rest) = Count - 1
          /\ \A i \in 1..Count - 1 : rest[i] = Contents[i + 1]
      BY <1>0, <2>1, <2>5, HeadTailProperties DEF ContentsOK
    <3> HIDE DEF rest
    <3>2. /\ Contents' \in Seq(Item) /\ Len(Contents') = Count - 1
          /\ \A i \in 1..Count - 1 : Contents'[i] = Content(i)'
      BY <1>0, <2>2 DEF ContentsOK
    <3>3. \A i \in 1..Count - 1 : Contents'[i] = rest[i]
      BY <1>0, <2>1, <2>4, <3>1, <3>2 DEF ContentsOK
    <3> QED  BY <3>1, <3>2, <3>3, SeqEqual DEF rest
  <2>7. Fifo!Take
    BY <1>7, <2>5, <2>6 DEF StoreNextPop, Fifo!Take, producer_vars
  <2> QED  BY <2>7 DEF Fifo!FifoNext
<1>8. ASSUME UNCHANGED vars PROVE Unmoved
  BY <1>8 DEF vars, Contents, Count, SlotOf, Unmoved
<1> QED
  BY <1>1, <1>2, <1>3, <1>4, <1>5, <1>6, <1>7, <1>8
  DEF Next, Push, Pop, Fifo!fifo_vars, Unmoved

(***************************************************************************)
(* The queue is a bounded FIFO: for every capacity, and whatever the two   *)
(* threads interleave, items arrive once and in order, and a push is       *)
(* refused only when the queue is full.                                    *)
(***************************************************************************)
THEOREM Linearizable == Spec => ImplementsFifo
<1>1. Init => Fifo!FifoInit
  <2> SUFFICES ASSUME Init PROVE Fifo!FifoInit
    OBVIOUS
  <2>1. Count = 0
    BY DEF Init, Count, Distance
  <2>2. Contents = <<>>
    BY <2>1, InitIInv, ContentsFacts, EmptySeq DEF IInv, ContentsOK
  <2> QED  BY <2>2 DEF Init, Fifo!FifoInit
<1> QED  BY <1>1, StepSimulation, Invariance, PTL DEF Spec, ImplementsFifo, Fifo!FifoSpec
=============================================================================
