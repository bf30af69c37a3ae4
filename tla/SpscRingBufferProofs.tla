------------------------ MODULE SpscRingBufferProofs ------------------------
(***************************************************************************)
(* Proofs about SpscRingBuffer for every capacity, every index range that  *)
(* is a multiple of it, and every set of elements: its safety, and that it *)
(* implements FifoQueue.                                                   *)
(***************************************************************************)
EXTENDS SpscRingBuffer, RingIndexProofs, SequenceTheorems

(* What each thread keeps to itself between two of its steps.              *)
ProducerLocals ==
    /\ Pushing => producer.item \in Items
    /\ producer.pc = "constructed" =>
           slots[SlotOf(producer.write)] = producer.item

ConsumerLocals ==
    /\ consumer.pc \in {"idle", "peeked"} => consumer.copy = NoItem
    /\ consumer.copy # NoItem => consumer.copy = slots[SlotOf(consumer.read)]

(***************************************************************************)
(* The inductive invariant.  ObservationsStayTrue bounds the distance of   *)
(* the indices, which keeps the producer's slot apart from the published   *)
(* ones; the locals say what the slot holds when it is published and what  *)
(* the consumer has read when it is released.                              *)
(***************************************************************************)
IndInv ==
    /\ TypeOK
    /\ ObservationsStayTrue
    /\ PublishedAreConstructed
    /\ ProducerLocals
    /\ ConsumerLocals

-----------------------------------------------------------------------------
(* The slot at the write index of a queue that is not full is none of the  *)
(* published ones.                                                         *)
LEMMA FreeSlotIsUnpublished ==
    ASSUME NEW write \in Index, NEW read \in Index,
           Used(write, read) < Capacity,
           NEW k \in 1 .. Used(write, read)
    PROVE  SlotOf(Advance(read, k - 1)) # SlotOf(write)
<1>1. Used(write, read) \in 0 .. Capacity - 1 /\ k - 1 \in 0 .. Capacity - 1
  BY UsedInIndex, CapacityAssumption, IndexRangeAssumption DEF Index
<1>2. k - 1 # Used(write, read)
  BY <1>1
<1>3. SlotOf(Advance(read, k - 1)) # SlotOf(Advance(read, Used(write, read)))
  BY <1>1, <1>2, SlotsDiffer
<1> QED
  BY <1>3, AdvanceUsed

(* The read index itself is the first published one.                       *)
LEMMA AdvanceNone ==
    ASSUME NEW index \in Index
    PROVE  Advance(index, 0) = index
  BY AdvanceLinear, IndexRangeAssumption, CapacityAssumption DEF Index

(* Less stays within the bounds it is used with.                           *)
LEMMA LessBounds ==
    ASSUME NEW x \in Nat, NEW n \in Nat
    PROVE  /\ Less(x, n) \in Nat
           /\ Less(x, n) <= x
           /\ \A y \in Nat : x <= y /\ n <= y => Less(x, n) <= y - n
  BY DEF Less

-----------------------------------------------------------------------------
(* Initially the queue is empty and nothing is held.                       *)
LEMMA InitIndInv == Init => IndInv
<1> SUFFICES ASSUME Init PROVE IndInv
  OBVIOUS
<1> USE CapacityAssumption, IndexRangeAssumption
<1>1. 0 \in Index /\ Used(0, 0) = 0
  BY UsedZero DEF Index
<1>2. TypeOK
  BY <1>1 DEF Init, TypeOK, Producer, Consumer
<1>3. ObservationsStayTrue
  BY <1>1 DEF Init, ObservationsStayTrue, Pushing, Holding
<1>4. PublishedAreConstructed
  BY <1>1 DEF Init, PublishedAreConstructed, Published
<1>5. ProducerLocals /\ ConsumerLocals
  BY DEF Init, ProducerLocals, ConsumerLocals, Pushing
<1> QED
  BY <1>2, <1>3, <1>4, <1>5 DEF IndInv

-----------------------------------------------------------------------------
(* Steps that leave the indices and the slots alone.                       *)
LEMMA ObservingStep ==
    ASSUME IndInv,
           \/ \E item \in Items : PushLoad(item)
           \/ FreeSpace \/ Peek \/ ReadElement \/ PopLoad \/ Size
    PROVE  IndInv'
<1> USE DEF IndInv, TypeOK, Producer, Consumer
<1> DEFINE used == Used(writeIdx, readIdx)
<1>1. /\ writeIdx \in Index /\ readIdx \in Index
      /\ writeIdx' = writeIdx /\ readIdx' = readIdx /\ slots' = slots
  BY DEF PushLoad, FreeSpace, Peek, ReadElement, PopLoad, Size
<1>2. /\ used \in Nat /\ used <= Capacity
      /\ used = 0 <=> writeIdx = readIdx
      /\ used' = used
  BY <1>1, UsedInIndex, UsedZero, IndexRangeAssumption DEF ObservationsStayTrue, Index
<1>3. PublishedAreConstructed'
  BY <1>1 DEF PublishedAreConstructed, Published
<1> USE CapacityAssumption, NoItemAssumption
<1>4. ASSUME NEW item \in Items, PushLoad(item) PROVE IndInv'
  <2> HIDE DEF used
  <2>1. used < Capacity
    <3>1. ~(used >= Capacity)
      BY <1>4 DEF PushLoad, FullFor, used
    <3> QED
      BY <1>2, <3>1
  <2>2. TypeOK' /\ ProducerLocals'
    BY <1>1, <1>4 DEF PushLoad, ProducerLocals, Pushing
  <2>3. ObservationsStayTrue'
    BY <1>1, <1>4, <2>1 DEF PushLoad, ObservationsStayTrue, Pushing, Holding, used
  <2>4. ConsumerLocals'
    BY <1>1, <1>4 DEF PushLoad, ConsumerLocals
  <2> QED
    BY <1>3, <2>2, <2>3, <2>4
<1>5. CASE FreeSpace
  <2> HIDE DEF used
  <2>1. producer' = [producer EXCEPT !.space = Capacity - used]
    BY <1>5 DEF FreeSpace, used
  <2>2. TypeOK' /\ ProducerLocals'
    BY <1>1, <1>2, <1>5, <2>1 DEF FreeSpace, ProducerLocals, Pushing
  <2>3. producer'.space = Capacity - used /\ producer'.pc = producer.pc
    BY <2>1
  <2>4. ObservationsStayTrue'
    BY <1>1, <1>2, <1>5, <2>3 DEF FreeSpace, ObservationsStayTrue, Pushing, Holding, used
  <2>5. ConsumerLocals'
    BY <1>1, <1>5 DEF FreeSpace, ConsumerLocals
  <2> QED
    BY <1>3, <2>2, <2>4, <2>5
<1>6. CASE Peek
  <2> HIDE DEF used
  <2>1. used > 0
    BY <1>1, <1>2, <1>6 DEF Peek, EmptyFor
  <2>2. TypeOK' /\ ConsumerLocals'
    BY <1>1, <1>6 DEF Peek, ConsumerLocals
  <2>3. ObservationsStayTrue'
    BY <1>1, <1>6, <2>1 DEF Peek, ObservationsStayTrue, Pushing, Holding, used
  <2>4. ProducerLocals'
    BY <1>1, <1>6 DEF Peek, ProducerLocals, Pushing
  <2> QED
    BY <1>3, <2>2, <2>3, <2>4
<1>7. CASE ReadElement
  <2>0. slots[SlotOf(consumer.read)] \in Items \cup {NoItem}
    <3>1. consumer.read \in Int
      BY IndexRangeAssumption DEF Index
    <3> QED
      BY <3>1, SlotOfInSlot
  <2>1. TypeOK'
    BY <1>1, <1>7, <2>0 DEF ReadElement
  <2>2. ObservationsStayTrue'
    BY <1>1, <1>7 DEF ReadElement, ObservationsStayTrue, Pushing, Holding
  <2>3. ProducerLocals'
    BY <1>1, <1>7 DEF ReadElement, ProducerLocals, Pushing
  <2>4. ConsumerLocals'
    BY <1>1, <1>7 DEF ReadElement, ConsumerLocals
  <2> QED
    BY <1>3, <2>1, <2>2, <2>3, <2>4
<1>8. CASE PopLoad
  <2> HIDE DEF used
  <2>1. used > 0
    BY <1>1, <1>2, <1>8 DEF PopLoad, EmptyFor
  <2>2. TypeOK'
    BY <1>1, <1>8 DEF PopLoad
  <2>3. ObservationsStayTrue'
    BY <1>1, <1>8, <2>1 DEF PopLoad, ObservationsStayTrue, Pushing, Holding, used
  <2>4. ProducerLocals'
    BY <1>1, <1>8 DEF PopLoad, ProducerLocals, Pushing
  <2>5. ConsumerLocals'
    BY <1>1, <1>8 DEF PopLoad, ConsumerLocals, ObservationsStayTrue, Holding
  <2> QED
    BY <1>3, <2>2, <2>3, <2>4, <2>5
<1>9. CASE Size
  <2> HIDE DEF used
  <2>1. consumer' = [consumer EXCEPT !.avail = used]
    BY <1>9 DEF Size, used
  <2>2. TypeOK' /\ ConsumerLocals'
    BY <1>1, <1>2, <1>9, <2>1 DEF Size, ConsumerLocals
  <2>3. consumer'.avail = used /\ consumer'.pc = consumer.pc
    BY <2>1
  <2>4. ObservationsStayTrue'
    BY <1>1, <1>2, <1>9, <2>3 DEF Size, ObservationsStayTrue, Pushing, Holding, used
  <2>5. ProducerLocals'
    BY <1>1, <1>9 DEF Size, ProducerLocals, Pushing
  <2> QED
    BY <1>3, <2>2, <2>4, <2>5
<1> QED
  BY <1>4, <1>5, <1>6, <1>7, <1>8, <1>9

-----------------------------------------------------------------------------
(* The producer writes into its slot: no published element and nothing the *)
(* consumer holds is there.                                                *)
LEMMA WritingStep ==
    ASSUME IndInv, PushConstruct \/ PushConstructed
    PROVE  IndInv'
<1> USE DEF IndInv, TypeOK, Producer, Consumer
<1> DEFINE own == SlotOf(writeIdx)
<1>1. /\ writeIdx \in Index /\ readIdx \in Index
      /\ writeIdx' = writeIdx /\ readIdx' = readIdx /\ consumer' = consumer
      /\ producer.write = writeIdx /\ producer'.write = writeIdx
      /\ producer'.space = producer.space /\ producer'.item = producer.item
      /\ producer.pc # "idle" /\ producer'.pc # "idle"
      /\ Used(writeIdx, readIdx) < Capacity
  BY DEF PushConstruct, PushConstructed, ObservationsStayTrue, Pushing
<1>2. own \in Slot
  BY <1>1, SlotOfInSlot, IndexRangeAssumption DEF Index
<1>3. \A s \in Slot : s # own => slots'[s] = slots[s]
  BY <1>1 DEF PushConstruct, PushConstructed
<1>4. slots'[own] \in Items \cup {NoItem}
  BY <1>1, <1>2 DEF PushConstruct, PushConstructed
<1>5. slots' \in [Slot -> Items \cup {NoItem}]
  BY <1>1, <1>2 DEF PushConstruct, PushConstructed
<1> HIDE DEF own
<1>6. TypeOK'
  BY <1>1, <1>5 DEF PushConstruct, PushConstructed
<1>7. ObservationsStayTrue'
  BY <1>1 DEF ObservationsStayTrue, Pushing, Holding
<1>8. PublishedAreConstructed'
  <2>1. SUFFICES ASSUME NEW k \in Published
                 PROVE  slots'[SlotOf(Advance(readIdx, k - 1))] \in Items
    BY <1>1 DEF PublishedAreConstructed, Published
  <2>2. SlotOf(Advance(readIdx, k - 1)) # own
    BY <1>1, FreeSlotIsUnpublished DEF Published, own
  <2>3. k - 1 \in 0 .. IndexRange
    BY <1>1, UsedInIndex, IndexRangeAssumption DEF Published, Index
  <2>4. Advance(readIdx, k - 1) \in Int
    BY <1>1, <2>3, AdvanceInIndex, IndexRangeAssumption DEF Index
  <2>5. SlotOf(Advance(readIdx, k - 1)) \in Slot
    BY <2>4, SlotOfInSlot
  <2> QED
    BY <1>3, <2>2, <2>5 DEF PublishedAreConstructed
<1>9. ProducerLocals'
  <2>1. CASE PushConstruct
    BY <1>1, <2>1 DEF PushConstruct, ProducerLocals, Pushing
  <2>2. CASE PushConstructed
    BY <1>1, <1>2, <2>2 DEF PushConstructed, ProducerLocals, Pushing, own
  <2> QED
    BY <2>1, <2>2
<1>10. ConsumerLocals'
  <2>1. CASE consumer.copy = NoItem
    BY <1>1, <2>1 DEF ConsumerLocals
  <2>2. CASE consumer.copy # NoItem
    <3>1. consumer.read = readIdx /\ Used(writeIdx, readIdx) > 0
      BY <2>2 DEF ConsumerLocals, ObservationsStayTrue, Holding
    <3>2. 1 \in 1 .. Used(writeIdx, readIdx)
      BY <1>1, <3>1, UsedInIndex, IndexRangeAssumption DEF Index
    <3>3. SlotOf(Advance(readIdx, 1 - 1)) # own
      BY <1>1, <3>2, FreeSlotIsUnpublished DEF own
    <3>4. SlotOf(readIdx) # own
      BY <1>1, <3>3, AdvanceNone
    <3>5. SlotOf(readIdx) \in Slot
      BY <1>1, SlotOfInSlot, IndexRangeAssumption DEF Index
    <3> QED
      BY <1>1, <1>3, <3>1, <3>4, <3>5 DEF ConsumerLocals
  <2> QED
    BY <2>1, <2>2
<1> QED
  BY <1>6, <1>7, <1>8, <1>9, <1>10

(* The release store of Push: the queue grows by the element that was just *)
(* constructed behind its end.                                             *)
LEMMA PublishStep ==
    ASSUME IndInv, PushPublish
    PROVE  /\ IndInv'
           /\ Used(writeIdx, readIdx)' = Used(writeIdx, readIdx) + 1
<1> USE DEF IndInv, TypeOK, Producer, Consumer
<1> DEFINE used == Used(writeIdx, readIdx)
<1>1. /\ writeIdx \in Index /\ readIdx \in Index
      /\ writeIdx' = Advance(writeIdx, 1) /\ readIdx' = readIdx
      /\ slots' = slots /\ consumer' = consumer
      /\ producer' = [producer EXCEPT !.pc = "idle", !.space = Less(producer.space, 1)]
      /\ used < Capacity
  BY DEF PushPublish, ObservationsStayTrue, Pushing
<1>2. used \in Nat /\ used < IndexRange - 1
  BY <1>1, UsedInIndex, CapacityAssumption, IndexRangeAssumption DEF Index
<1>3. used' = used + 1
  BY <1>1, <1>2, UsedAfterPush
<1>4. producer.space \in Nat /\ producer.space <= Capacity
  BY CapacityAssumption
<1>5. /\ Less(producer.space, 1) \in 0 .. Capacity
      /\ Less(producer.space, 1) + used + 1 <= Capacity
  BY <1>1, <1>2, <1>4, CapacityAssumption DEF Less, ObservationsStayTrue
<1>6. writeIdx' \in Index
  BY <1>1, AdvanceInIndex, IndexRangeAssumption, CapacityAssumption
<1>7. TypeOK'
  BY <1>1, <1>5, <1>6
<1>8. ObservationsStayTrue'
  <2>1. producer'.space = Less(producer.space, 1) /\ producer'.pc = "idle"
    BY <1>1
  <2> HIDE DEF used
  <2>2. used <= Capacity /\ consumer.avail <= used /\ consumer.avail \in Nat
    BY CapacityAssumption DEF ObservationsStayTrue, used
  <2>3. Holding => consumer.read = readIdx /\ used > 0
    BY DEF ObservationsStayTrue, used
  <2>4. /\ used' <= Capacity /\ consumer.avail <= used'
        /\ producer'.space + used' <= Capacity
        /\ Holding => used' > 0
    BY <1>1, <1>2, <1>3, <1>5, <2>1, <2>2, <2>3, CapacityAssumption
  <2> QED
    BY <1>1, <2>1, <2>3, <2>4 DEF ObservationsStayTrue, Pushing, Holding, used
<1>9. PublishedAreConstructed'
  <2>1. SUFFICES ASSUME NEW k \in 1 .. used + 1
                 PROVE  slots[SlotOf(Advance(readIdx, k - 1))] \in Items
    BY <1>1, <1>3 DEF PublishedAreConstructed, Published
  <2>2. CASE k \in 1 .. used
    BY <2>2 DEF PublishedAreConstructed, Published
  <2>3. CASE k = used + 1
    <3>1. Advance(readIdx, k - 1) = writeIdx
      <4>1. k - 1 = used
        BY <1>2, <2>3
      <4> QED
        BY <1>1, <4>1, AdvanceUsed
    <3> QED
      BY <1>1, <3>1 DEF PushPublish, ProducerLocals, Pushing, ObservationsStayTrue
  <2> QED
    BY <1>2, <2>2, <2>3
<1>10. ProducerLocals' /\ ConsumerLocals'
  BY <1>1 DEF ProducerLocals, ConsumerLocals, Pushing
<1> QED
  BY <1>3, <1>7, <1>8, <1>9, <1>10

(* A store to the read index that passes no more elements than wait.       *)
LEMMA SkippedAreConstructed ==
    ASSUME IndInv, NEW count \in 0 .. Used(writeIdx, readIdx),
           writeIdx' = writeIdx, slots' = slots,
           readIdx' = Advance(readIdx, count)
    PROVE  /\ readIdx' \in Index
           /\ Used(writeIdx, readIdx)' = Used(writeIdx, readIdx) - count
           /\ \A k \in 1 .. Used(writeIdx, readIdx) - count :
                 Advance(readIdx', k - 1) = Advance(readIdx, (count + k) - 1)
           /\ PublishedAreConstructed'
<1> DEFINE used == Used(writeIdx, readIdx)
<1>1. writeIdx \in Index /\ readIdx \in Index
  BY DEF IndInv, TypeOK
<1>2. used \in Nat /\ used < IndexRange /\ count \in 0 .. IndexRange
  <2>1. used \in Index
    BY <1>1, UsedInIndex
  <2> HIDE DEF used
  <2>2. count \in 0 .. used
    BY DEF used
  <2> QED
    BY <2>1, <2>2, IndexRangeAssumption DEF Index
<1>3. readIdx' \in Index
  BY <1>1, <1>2, AdvanceInIndex
<1>4. used' = used - count
  BY <1>1, UsedAfterPop
<1>5. ASSUME NEW k \in 1 .. used - count
      PROVE  Advance(readIdx', k - 1) = Advance(readIdx, (count + k) - 1)
  <2>1. k - 1 \in Nat /\ count \in Nat /\ count + (k - 1) <= IndexRange
    BY <1>2, IndexRangeAssumption
  <2>2. count + (k - 1) = (count + k) - 1
    BY <1>2
  <2> QED
    BY <1>1, <2>1, <2>2, AdvanceTwice
<1>6. PublishedAreConstructed'
  <2>1. SUFFICES ASSUME NEW k \in 1 .. used - count
                 PROVE  slots[SlotOf(Advance(readIdx', k - 1))] \in Items
    BY <1>4 DEF PublishedAreConstructed, Published
  <2>2. count + k \in Published
    BY <1>2 DEF Published
  <2> QED
    BY <1>5, <2>2 DEF IndInv, PublishedAreConstructed
<1> QED
  BY <1>3, <1>4, <1>5, <1>6

(* Pop's release store, and the skip of a recovery, shorten the queue.     *)
LEMMA ReleasingStep ==
    ASSUME IndInv,
           \/ PopRelease
           \/ \E count \in 1 .. consumer.avail : ForceAdvanceReadIndex(count)
    PROVE  IndInv'
<1> USE DEF IndInv, TypeOK, Producer, Consumer
<1> DEFINE used == Used(writeIdx, readIdx)
<1>1. PICK count \in 1 .. used :
         /\ readIdx' = Advance(readIdx, count)
         /\ consumer'.avail = Less(consumer.avail, count)
         /\ consumer' \in [pc : {"idle"}, read : Index, copy : {NoItem},
                           delivered : Items \cup {NoItem},
                           avail : {Less(consumer.avail, count)}]
  <2>1. used \in Nat /\ consumer.avail <= used /\ consumer.avail \in Nat
    BY UsedInIndex, IndexRangeAssumption, CapacityAssumption DEF ObservationsStayTrue, Index
  <2>2. CASE PopRelease
    <3>1. used > 0 /\ consumer.read = readIdx
      BY <2>2 DEF PopRelease, ObservationsStayTrue, Holding
    <3>2. 1 \in 1 .. used
      BY <2>1, <3>1
    <3> QED
      BY <2>2, <3>1, <3>2 DEF PopRelease
  <2>3. CASE \E count \in 1 .. consumer.avail : ForceAdvanceReadIndex(count)
    <3>1. PICK count \in 1 .. consumer.avail : ForceAdvanceReadIndex(count)
      BY <2>3
    <3>2. count \in 1 .. used
      BY <2>1
    <3> QED
      BY <3>1, <3>2 DEF ForceAdvanceReadIndex, ConsumerLocals
  <2> QED
    BY <2>2, <2>3
<1>2. writeIdx' = writeIdx /\ slots' = slots /\ producer' = producer
  BY DEF PopRelease, ForceAdvanceReadIndex
<1>3. used \in Nat /\ used <= Capacity /\ count \in 0 .. used
  BY UsedInIndex, IndexRangeAssumption DEF ObservationsStayTrue, Index
<1>4. /\ readIdx' \in Index /\ used' = used - count
      /\ PublishedAreConstructed'
  BY <1>1, <1>2, <1>3, SkippedAreConstructed
<1>5. consumer.avail \in Nat /\ consumer.avail <= used
  BY <1>3, CapacityAssumption DEF ObservationsStayTrue
<1>6. /\ Less(consumer.avail, count) \in 0 .. Capacity
      /\ Less(consumer.avail, count) <= used - count
  BY <1>3, <1>5, CapacityAssumption DEF Less
<1>7. TypeOK'
  BY <1>1, <1>2, <1>4, <1>6
<1>8. ObservationsStayTrue'
  <2> HIDE DEF used
  <2>1. Pushing => producer.write = writeIdx /\ used < Capacity
    BY DEF ObservationsStayTrue, used
  <2>2. producer.space + used <= Capacity /\ producer.space \in Nat
    BY CapacityAssumption DEF ObservationsStayTrue, used
  <2>3. consumer'.pc = "idle"
    BY <1>1
  <2>4. /\ used' <= Capacity /\ consumer'.avail <= used'
        /\ producer.space + used' <= Capacity
        /\ Pushing => used' < Capacity
    BY <1>1, <1>3, <1>4, <1>6, <2>1, <2>2, CapacityAssumption
  <2> QED
    BY <1>2, <2>1, <2>3, <2>4 DEF ObservationsStayTrue, Pushing, Holding, used
<1>9. ProducerLocals'
  BY <1>2 DEF ProducerLocals, Pushing
<1>10. ConsumerLocals'
  BY <1>1 DEF ConsumerLocals
<1> QED
  BY <1>4, <1>7, <1>8, <1>9, <1>10

-----------------------------------------------------------------------------
(* Every step keeps the invariant.                                         *)
LEMMA NextIndInv == IndInv /\ [Next]_vars => IndInv'
<1> SUFFICES ASSUME IndInv, [Next]_vars PROVE IndInv'
  OBVIOUS
<1>1. CASE \E item \in Items : PushLoad(item)
  BY <1>1, ObservingStep
<1>2. CASE PushConstruct \/ PushConstructed
  BY <1>2, WritingStep
<1>3. CASE PushPublish
  BY <1>3, PublishStep
<1>4. CASE FreeSpace \/ Peek \/ ReadElement \/ PopLoad \/ Size
  BY <1>4, ObservingStep
<1>5. CASE \/ PopRelease
           \/ \E count \in 1 .. consumer.avail : ForceAdvanceReadIndex(count)
  BY <1>5, ReleasingStep
<1>6. CASE UNCHANGED vars
  BY <1>6 DEF vars, IndInv, TypeOK, ObservationsStayTrue, PublishedAreConstructed,
              Published, ProducerLocals, ConsumerLocals, Pushing, Holding
<1> QED
  BY <1>1, <1>2, <1>3, <1>4, <1>5, <1>6 DEF Next, ProducerNext, ConsumerNext

(* Push, Peek, Pop and ForceAdvanceReadIndex keep the inductive invariant, *)
(* in every interleaving of the two threads.                               *)
THEOREM Invariance == Spec => []IndInv
<1> QED
  BY InitIndInv, NextIndInv, PTL DEF Spec

(* The variables keep their types: the indices stay in the range of a      *)
(* uint64_t and every slot access is inside the buffer.                    *)
THEOREM TypeCorrect == Spec => []TypeOK
<1>1. IndInv => TypeOK
  BY DEF IndInv
<1> QED
  BY <1>1, Invariance, PTL

(* What Push, Peek, Pop, FreeSpace and Size learned from the indices stays *)
(* true until the thread acts on it, for every capacity.                   *)
THEOREM ObservationsSafe == Spec => []ObservationsStayTrue
<1>1. IndInv => ObservationsStayTrue
  BY DEF IndInv
<1> QED
  BY <1>1, Invariance, PTL

(* Nothing half constructed is ever published.                             *)
THEOREM PublicationSafe == Spec => []PublishedAreConstructed
<1>1. IndInv => PublishedAreConstructed
  BY DEF IndInv
<1> QED
  BY <1>1, Invariance, PTL

(* While both threads are between their test and their store they are in   *)
(* different slots.                                                        *)
LEMMA SlotsApart == IndInv => NoSlotRace
<1> SUFFICES ASSUME IndInv, Pushing, Holding
             PROVE  SlotOf(producer.write) # SlotOf(consumer.read)
  BY DEF NoSlotRace
<1>1. /\ writeIdx \in Index /\ readIdx \in Index
      /\ producer.write = writeIdx /\ consumer.read = readIdx
      /\ Used(writeIdx, readIdx) < Capacity /\ Used(writeIdx, readIdx) > 0
  BY DEF IndInv, TypeOK, ObservationsStayTrue
<1>2. 1 \in 1 .. Used(writeIdx, readIdx)
  BY <1>1, UsedInIndex, IndexRangeAssumption DEF Index
<1>3. SlotOf(Advance(readIdx, 1 - 1)) # SlotOf(writeIdx)
  BY <1>1, <1>2, FreeSlotIsUnpublished
<1> QED
  BY <1>1, <1>3, AdvanceNone

(* There is no data race on a slot, full queue and index wrap included.    *)
THEOREM NoRace == Spec => []NoSlotRace
  BY Invariance, SlotsApart, PTL

(* The element a consumer points to does not change before it is released. *)
THEOREM HeldElementStable == Spec => HeldElementIsStable
<1> DEFINE Stable == Holding => slots'[SlotOf(consumer.read)] = slots[SlotOf(consumer.read)]
<1>1. IndInv /\ [Next]_vars => [Stable]_vars
  <2> SUFFICES ASSUME IndInv, Next, Holding
               PROVE  slots'[SlotOf(consumer.read)] = slots[SlotOf(consumer.read)]
    BY DEF Stable
  <2>1. /\ consumer.read \in Index
        /\ slots \in [Slot -> Items \cup {NoItem}]
    BY DEF IndInv, TypeOK, Consumer
  <2>2. SlotOf(consumer.read) \in Slot
    BY <2>1, SlotOfInSlot, IndexRangeAssumption DEF Index
  <2>3. CASE PushConstruct \/ PushConstructed
    <3>1. Pushing
      BY <2>3 DEF PushConstruct, PushConstructed, Pushing
    <3>2. SlotOf(producer.write) # SlotOf(consumer.read)
      BY <3>1, SlotsApart DEF NoSlotRace
    <3> QED
      BY <2>1, <2>2, <2>3, <3>2 DEF PushConstruct, PushConstructed
  <2>4. CASE ~(PushConstruct \/ PushConstructed)
    BY <2>4 DEF Next, ProducerNext, ConsumerNext, PushLoad, PushPublish, FreeSpace, Peek,
                ReadElement, PopLoad, PopRelease, Size, ForceAdvanceReadIndex
  <2> QED
    BY <2>3, <2>4
<1> QED
  BY <1>1, Invariance, PTL DEF Spec, HeldElementIsStable
-----------------------------------------------------------------------------
(***************************************************************************)
(* The refinement.  The queue is the sequence of the published slots:      *)
(* PushPublish appends to it, PopRelease takes its head, what is skipped   *)
(* is discarded, and every other step leaves it as it is.                  *)
(***************************************************************************)

(* A function on 1 .. n is a sequence of length n.                         *)
LEMMA FunctionIsSequence ==
    ASSUME NEW S, NEW n \in Nat, NEW f \in [1 .. n -> S]
    PROVE  f \in Seq(S) /\ Len(f) = n
<1>1. f \in Seq(S)
  BY SeqDef
<1>2. Len(f) \in Nat /\ 1 .. Len(f) = 1 .. n
  BY <1>1, LenProperties
<1>3. ~(Len(f) < n)
  <2>1. SUFFICES ASSUME Len(f) < n PROVE FALSE
    OBVIOUS
  <2>2. n \in 1 .. n /\ n \notin 1 .. Len(f)
    BY <1>2, <2>1
  <2> QED
    BY <1>2, <2>2
<1>4. ~(Len(f) > n)
  <2>1. SUFFICES ASSUME Len(f) > n PROVE FALSE
    OBVIOUS
  <2>2. Len(f) \in 1 .. Len(f) /\ Len(f) \notin 1 .. n
    BY <1>2, <2>1
  <2> QED
    BY <1>2, <2>2
<1> QED
  BY <1>1, <1>2, <1>3, <1>4

(* The published slots, read from the oldest, are a sequence of elements.  *)
LEMMA ContentsAreElements ==
    ASSUME IndInv
    PROVE  /\ Contents \in Seq(Items)
           /\ Len(Contents) = Used(writeIdx, readIdx)
           /\ Used(writeIdx, readIdx) \in Nat
           /\ \A k \in 1 .. Used(writeIdx, readIdx) :
                 Contents[k] = slots[SlotOf(Advance(readIdx, k - 1))]
<1>1. Used(writeIdx, readIdx) \in Nat
  BY UsedInIndex, IndexRangeAssumption DEF IndInv, TypeOK, Index
<1>2. Contents \in [1 .. Used(writeIdx, readIdx) -> Items]
  BY DEF IndInv, PublishedAreConstructed, Published, Contents
<1> QED
  BY <1>1, <1>2, FunctionIsSequence DEF Contents, Published

(* The same in the next state.                                             *)
LEMMA NextContentsAreElements ==
    ASSUME IndInv'
    PROVE  /\ Contents' \in Seq(Items)
           /\ Len(Contents') = Used(writeIdx, readIdx)'
           /\ Used(writeIdx, readIdx)' \in Nat
           /\ \A k \in 1 .. Used(writeIdx, readIdx)' :
                 Contents'[k] = slots'[SlotOf(Advance(readIdx', k - 1))]
<1>1. Used(writeIdx, readIdx)' \in Nat
  BY UsedInIndex, IndexRangeAssumption DEF IndInv, TypeOK, Index
<1>2. Contents' \in [1 .. Used(writeIdx, readIdx)' -> Items]
  BY DEF IndInv, PublishedAreConstructed, Published, Contents
<1> QED
  BY <1>1, <1>2, FunctionIsSequence DEF Contents, Published

-----------------------------------------------------------------------------
(* The queue starts empty, and nothing has been delivered.                 *)
LEMMA InitRefines == Init => Fifo!Init
<1> SUFFICES ASSUME Init PROVE Fifo!Init
  OBVIOUS
<1>1. 0 \in Index
  BY IndexRangeAssumption, CapacityAssumption DEF Index
<1>2. Contents \in Seq(Items) /\ Len(Contents) = 0
  BY <1>1, UsedZero, InitIndInv, ContentsAreElements DEF Init
<1>3. Contents = << >>
  BY <1>2, EmptySeq
<1> QED
  BY <1>3 DEF Init, Fifo!Init

(* Steps that leave both indices and all published slots alone leave the   *)
(* queue alone.                                                            *)
LEMMA ContentsUnchanged ==
    ASSUME writeIdx' = writeIdx, readIdx' = readIdx,
           \A k \in Published : slots'[SlotOf(Advance(readIdx, k - 1))]
                                    = slots[SlotOf(Advance(readIdx, k - 1))]
    PROVE  Contents' = Contents
  BY DEF Contents, Published

(* Loads, queries and reads are stutters.                                  *)
LEMMA ObservingStutters ==
    ASSUME \/ \E item \in Items : PushLoad(item)
           \/ FreeSpace \/ Peek \/ ReadElement \/ PopLoad \/ Size,
           IndInv
    PROVE  UNCHANGED Fifo!vars
<1>1. writeIdx' = writeIdx /\ readIdx' = readIdx /\ slots' = slots
  BY DEF PushLoad, FreeSpace, Peek, ReadElement, PopLoad, Size
<1>2. Contents' = Contents
  BY <1>1, ContentsUnchanged
<1>3. consumer'.delivered = consumer.delivered
  BY DEF IndInv, TypeOK, Consumer, PushLoad, FreeSpace, Peek, ReadElement, PopLoad, Size
<1> QED
  BY <1>2, <1>3 DEF Fifo!vars

(* So is the construction of an element that is not yet published.         *)
LEMMA WritingStutters ==
    ASSUME IndInv, PushConstruct \/ PushConstructed
    PROVE  UNCHANGED Fifo!vars
<1>1. /\ writeIdx \in Index /\ readIdx \in Index
      /\ writeIdx' = writeIdx /\ readIdx' = readIdx /\ consumer' = consumer
      /\ producer.write = writeIdx
      /\ slots \in [Slot -> Items \cup {NoItem}]
      /\ Used(writeIdx, readIdx) < Capacity
  BY DEF IndInv, TypeOK, PushConstruct, PushConstructed, ObservationsStayTrue, Pushing
<1>2. \A s \in Slot : s # SlotOf(writeIdx) => slots'[s] = slots[s]
  BY <1>1 DEF PushConstruct, PushConstructed
<1>3. ASSUME NEW k \in Published
      PROVE  slots'[SlotOf(Advance(readIdx, k - 1))] = slots[SlotOf(Advance(readIdx, k - 1))]
  <2>1. SlotOf(Advance(readIdx, k - 1)) # SlotOf(writeIdx)
    BY <1>1, FreeSlotIsUnpublished DEF Published
  <2>2. k - 1 \in 0 .. IndexRange
    BY <1>1, UsedInIndex, IndexRangeAssumption DEF Published, Index
  <2>3. Advance(readIdx, k - 1) \in Int
    BY <1>1, <2>2, AdvanceInIndex, IndexRangeAssumption DEF Index
  <2>4. SlotOf(Advance(readIdx, k - 1)) \in Slot
    BY <2>3, SlotOfInSlot
  <2> QED
    BY <1>2, <2>1, <2>4
<1>4. Contents' = Contents
  BY <1>1, <1>3, ContentsUnchanged
<1> QED
  BY <1>1, <1>4 DEF Fifo!vars

(* The release store of Push sends the constructed item.                   *)
LEMMA PublishSends ==
    ASSUME IndInv, PushPublish
    PROVE  producer.item \in Items /\ Fifo!Send(producer.item)
<1> DEFINE used == Used(writeIdx, readIdx)
           item == producer.item
<1>1. IndInv' /\ used' = used + 1
  BY PublishStep
<1>2. /\ item \in Items /\ used < Capacity
      /\ slots' = slots /\ readIdx' = readIdx /\ consumer' = consumer
      /\ slots[SlotOf(writeIdx)] = item
      /\ writeIdx \in Index /\ readIdx \in Index
  BY DEF IndInv, TypeOK, ProducerLocals, ObservationsStayTrue, Pushing, PushPublish
<1>3. slots[SlotOf(Advance(readIdx, (used + 1) - 1))] = item
  <2>1. Advance(readIdx, used) = writeIdx
    BY <1>2, AdvanceUsed
  <2>2. (used + 1) - 1 = used
    BY ContentsAreElements
  <2> QED
    BY <1>2, <2>1, <2>2
<1>4. /\ Contents \in Seq(Items) /\ Len(Contents) = used /\ used \in Nat
      /\ \A k \in 1 .. used : Contents[k] = slots[SlotOf(Advance(readIdx, k - 1))]
  BY ContentsAreElements
<1>5. /\ Contents' \in Seq(Items) /\ Len(Contents') = used + 1
      /\ \A k \in 1 .. used + 1 : Contents'[k] = slots[SlotOf(Advance(readIdx, k - 1))]
  BY <1>1, <1>2, NextContentsAreElements
<1> HIDE DEF used, item
<1>6. /\ Append(Contents, item) \in Seq(Items)
      /\ Len(Append(Contents, item)) = used + 1
      /\ \A k \in 1 .. used : Append(Contents, item)[k] = Contents[k]
      /\ Append(Contents, item)[used + 1] = item
  BY <1>2, <1>4, AppendProperties
<1>7. \A k \in 1 .. used + 1 : Contents'[k] = Append(Contents, item)[k]
  <2> SUFFICES ASSUME NEW k \in 1 .. used + 1
               PROVE  Contents'[k] = Append(Contents, item)[k]
    OBVIOUS
  <2>1. CASE k \in 1 .. used
    BY <1>4, <1>5, <1>6, <2>1
  <2>2. CASE k = used + 1
    BY <1>3, <1>5, <1>6, <2>2
  <2> QED
    BY <1>4, <2>1, <2>2
<1>8. Contents' = Append(Contents, item)
  BY <1>5, <1>6, <1>7, SeqEqual
<1> QED
  BY <1>2, <1>4, <1>8 DEF Fifo!Send, item

(* A store to the read index removes as many elements from the front.      *)
LEMMA ReleaseDiscards ==
    ASSUME IndInv, IndInv', NEW count \in 1 .. Used(writeIdx, readIdx),
           writeIdx' = writeIdx, slots' = slots,
           readIdx' = Advance(readIdx, count)
    PROVE  Contents' = SubSeq(Contents, count + 1, Len(Contents))
<1> DEFINE used == Used(writeIdx, readIdx)
           rest == SubSeq(Contents, count + 1, Len(Contents))
<1>1. /\ Contents \in Seq(Items) /\ Len(Contents) = used /\ used \in Nat
      /\ \A k \in 1 .. used : Contents[k] = slots[SlotOf(Advance(readIdx, k - 1))]
  BY ContentsAreElements
<1>2. count \in 0 .. used
  BY <1>1
<1>3. /\ used' = used - count
      /\ \A k \in 1 .. used - count :
            Advance(readIdx', k - 1) = Advance(readIdx, (count + k) - 1)
  BY <1>2, SkippedAreConstructed
<1>4. /\ Contents' \in Seq(Items) /\ Len(Contents') = used - count
      /\ \A k \in 1 .. used - count :
            Contents'[k] = slots[SlotOf(Advance(readIdx', k - 1))]
  BY <1>3, NextContentsAreElements
<1> HIDE DEF used
<1>5. count + 1 \in Int /\ used \in Int /\ count \in 1 .. used
  BY <1>1 DEF used
<1>6. \A i \in count + 1 .. used : Contents[i] \in Items
  BY <1>1, <1>5, ElementOfSeq
<1>7. /\ rest \in Seq(Items)
      /\ Len(rest) = IF count + 1 <= used THEN used - (count + 1) + 1 ELSE 0
      /\ \A k \in 1 .. used - (count + 1) + 1 : rest[k] = Contents[(count + 1) + k - 1]
  BY <1>1, <1>5, <1>6, SubSeqProperties
<1> HIDE DEF rest
<1>8. Len(rest) = used - count
  BY <1>5, <1>7
<1>9. ASSUME NEW k \in 1 .. used - count
      PROVE  Contents'[k] = rest[k]
  <2>1. /\ k \in 1 .. used - (count + 1) + 1
        /\ (count + 1) + k - 1 = count + k
        /\ count + k \in 1 .. used
    BY <1>5
  <2>2. rest[k] = slots[SlotOf(Advance(readIdx, (count + k) - 1))]
    BY <1>1, <1>7, <2>1
  <2> QED
    BY <1>3, <1>4, <2>2
<1>10. Contents' = rest
  BY <1>4, <1>7, <1>8, <1>9, SeqEqual
<1> QED
  BY <1>10 DEF rest

(* The release store of Pop receives the element that was read, or drops   *)
(* it if nobody read it.                                                   *)
LEMMA PopReceives ==
    ASSUME IndInv, IndInv', PopRelease
    PROVE  Fifo!Next
<1>1. /\ consumer.read = readIdx /\ Used(writeIdx, readIdx) > 0
      /\ writeIdx' = writeIdx /\ slots' = slots
      /\ readIdx' = Advance(readIdx, 1)
      /\ consumer'.delivered = IF consumer.copy = NoItem
                               THEN consumer.delivered ELSE consumer.copy
      /\ consumer.copy # NoItem => consumer.copy = slots[SlotOf(readIdx)]
      /\ readIdx \in Index
  BY DEF IndInv, TypeOK, Consumer, ObservationsStayTrue, Holding, ConsumerLocals, PopRelease
<1>2. /\ Contents \in Seq(Items) /\ Len(Contents) = Used(writeIdx, readIdx)
      /\ 1 \in 1 .. Len(Contents)
      /\ Contents[1] = slots[SlotOf(Advance(readIdx, 1 - 1))]
  BY <1>1, ContentsAreElements
<1>3. Contents' = SubSeq(Contents, 2, Len(Contents))
  BY <1>1, <1>2, ReleaseDiscards
<1>4. CASE consumer.copy = NoItem
  BY <1>1, <1>2, <1>3, <1>4 DEF Fifo!Next, Fifo!Discard
<1>5. CASE consumer.copy # NoItem
  <2>1. Contents # << >>
    BY <1>2
  <2>2. Head(Contents) = slots[SlotOf(readIdx)]
    BY <1>1, <1>2, AdvanceNone
  <2>3. Tail(Contents) = SubSeq(Contents, 2, Len(Contents))
    BY <1>2, <2>1, TailIsSubSeq
  <2> QED
    BY <1>1, <1>3, <1>5, <2>1, <2>2, <2>3 DEF Fifo!Next, Fifo!Receive
<1> QED
  BY <1>4, <1>5

(* What ForceAdvanceReadIndex skips is discarded.                          *)
LEMMA SkipDiscards ==
    ASSUME IndInv, IndInv', NEW count \in 1 .. consumer.avail,
           ForceAdvanceReadIndex(count)
    PROVE  Fifo!Next
<1>1. /\ consumer.avail \in Nat /\ consumer.avail <= Used(writeIdx, readIdx)
      /\ Used(writeIdx, readIdx) \in Nat /\ Len(Contents) = Used(writeIdx, readIdx)
  BY ContentsAreElements, CapacityAssumption DEF IndInv, TypeOK, Consumer, ObservationsStayTrue
<1>2. /\ writeIdx' = writeIdx /\ slots' = slots
      /\ readIdx' = Advance(readIdx, count)
      /\ consumer'.delivered = consumer.delivered
  BY DEF IndInv, TypeOK, Consumer, ForceAdvanceReadIndex
<1>3. count \in 1 .. Len(Contents)
  BY <1>1
<1>4. Contents' = SubSeq(Contents, count + 1, Len(Contents))
  BY <1>1, <1>2, <1>3, ReleaseDiscards
<1> QED
  BY <1>2, <1>3, <1>4 DEF Fifo!Next, Fifo!Discard

(* Every step of the ring is a step of the queue or leaves it unchanged.   *)
LEMMA NextRefines == IndInv /\ IndInv' /\ [Next]_vars => [Fifo!Next]_Fifo!vars
<1> SUFFICES ASSUME IndInv, IndInv', [Next]_vars PROVE [Fifo!Next]_Fifo!vars
  OBVIOUS
<1>1. CASE \/ \E item \in Items : PushLoad(item)
           \/ FreeSpace \/ Peek \/ ReadElement \/ PopLoad \/ Size
  BY <1>1, ObservingStutters
<1>2. CASE PushConstruct \/ PushConstructed
  BY <1>2, WritingStutters
<1>3. CASE PushPublish
  BY <1>3, PublishSends DEF Fifo!Next
<1>4. CASE PopRelease
  BY <1>4, PopReceives
<1>5. CASE \E count \in 1 .. consumer.avail : ForceAdvanceReadIndex(count)
  BY <1>5, SkipDiscards
<1>6. CASE UNCHANGED vars
  BY <1>6 DEF vars, Fifo!vars, Contents, Published
<1> QED
  BY <1>1, <1>2, <1>3, <1>4, <1>5, <1>6 DEF Next, ProducerNext, ConsumerNext

(* Push, Peek, Pop and ForceAdvanceReadIndex behave as a bounded FIFO      *)
(* queue: no element is lost, doubled, invented or overtaken, whatever the *)
(* capacity and however often the indices wrap.                            *)
THEOREM RingImplementsFifo == Spec => ImplementsFifo
<1> QED
  BY Invariance, InitRefines, NextRefines, PTL DEF Spec, ImplementsFifo, Fifo!Spec
=============================================================================
