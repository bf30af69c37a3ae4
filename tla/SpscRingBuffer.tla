--------------------------- MODULE SpscRingBuffer ---------------------------
(***************************************************************************)
(* SpscRingBuffer<T, Capacity> of include/phoenix/core/spsc_ring_buffer.hpp *)
(* used by one producer thread and one consumer thread.  SimplifiedShmLayout *)
(* carries a second copy of the same algorithm.                            *)
(*                                                                         *)
(* Every atomic load or store of an index the other thread can observe is  *)
(* a step of its own, and so are the beginning and the end of the copy of  *)
(* an element into its slot, because the two threads run in parallel.  The *)
(* release stores and acquire loads of the indices order the slot accesses *)
(* around them, so that the steps interleave as written.                   *)
(***************************************************************************)
EXTENDS RingIndex, Sequences

CONSTANTS
    Items,    \* the elements that can be pushed
    NoItem    \* contents of a slot that holds no completely constructed element

ASSUME NoItemAssumption == NoItem \notin Items

VARIABLES
    writeIdx,  \* write_idx_, stored by the producer only
    readIdx,   \* read_idx_, stored by the consumer only
    slots,     \* the external buffer
    producer,  \* the producer thread inside Push
    consumer   \* the consumer thread between Peek and Pop

vars == <<writeIdx, readIdx, slots, producer, consumer>>

Producer == [pc    : {"idle", "checked", "constructing", "constructed"},
             item  : Items \cup {NoItem},
             write : Index,           \* current_write
             space : 0 .. Capacity]   \* pushes the last FreeSpace() allows

Consumer == [pc        : {"idle", "peeked", "read", "popping"},
             read      : Index,                \* current_read
             copy      : Items \cup {NoItem},  \* what was read through the pointer
             delivered : Items \cup {NoItem},  \* the last element read and popped
             avail     : 0 .. Capacity]        \* what the last Size() left to take

TypeOK ==
    /\ writeIdx \in Index
    /\ readIdx \in Index
    /\ slots \in [Slot -> Items \cup {NoItem}]
    /\ producer \in Producer
    /\ consumer \in Consumer

\* Initialize: the indices start at 0, the memory is whatever it was.
Init ==
    /\ writeIdx = 0
    /\ readIdx = 0
    /\ slots = [s \in Slot |-> NoItem]
    /\ producer = [pc |-> "idle", item |-> NoItem, write |-> 0, space |-> 0]
    /\ consumer = [pc |-> "idle", read |-> 0, copy |-> NoItem,
                   delivered |-> NoItem, avail |-> 0]

\* x - n where the subtraction stops at 0
Less(x, n) == IF x >= n THEN x - n ELSE 0

----------------------------------------------------------------------------
\* Producer: Push(item), and PushEmplace with the item's arguments

\* Slip: off by one, a full queue takes one more.
FullForOffByOne(write, read) == Used(write, read) > Capacity

\* The test at the head of Push: no slot is free.
FullFor(write, read) == Used(write, read) >= Capacity

\* The two loads and the test.  A full queue returns false and changes nothing.
PushLoad(item) ==
    /\ producer.pc = "idle"
    /\ ~FullFor(writeIdx, readIdx)
    /\ producer' = [producer EXCEPT !.pc = "checked", !.item = item,
                                    !.write = writeIdx]
    /\ UNCHANGED <<writeIdx, readIdx, slots, consumer>>

\* The constructor has written part of the slot.
PushConstruct ==
    /\ producer.pc = "checked"
    /\ slots' = [slots EXCEPT ![SlotOf(producer.write)] = NoItem]
    /\ producer' = [producer EXCEPT !.pc = "constructing"]
    /\ UNCHANGED <<writeIdx, readIdx, consumer>>

\* The constructor has written all of it.
PushConstructed ==
    /\ producer.pc = "constructing"
    /\ slots' = [slots EXCEPT ![SlotOf(producer.write)] = producer.item]
    /\ producer' = [producer EXCEPT !.pc = "constructed"]
    /\ UNCHANGED <<writeIdx, readIdx, consumer>>

\* Slip: the index is stored before the constructor has finished (what a
\* relaxed store would allow).
PushPublishEarly ==
    /\ producer.pc = "constructing"
    /\ writeIdx' = Advance(producer.write, 1)
    /\ producer' = [producer EXCEPT !.pc = "idle",
                                    !.space = Less(producer.space, 1)]
    /\ UNCHANGED <<readIdx, slots, consumer>>

\* The release store that publishes the element.
PushPublish ==
    /\ producer.pc = "constructed"
    /\ writeIdx' = Advance(producer.write, 1)
    /\ producer' = [producer EXCEPT !.pc = "idle",
                                    !.space = Less(producer.space, 1)]
    /\ UNCHANGED <<readIdx, slots, consumer>>

\* FreeSpace() and Full(), asked by the producer between two pushes.
FreeSpace ==
    /\ producer.pc = "idle"
    /\ producer' = [producer EXCEPT !.space = Capacity - Used(writeIdx, readIdx)]
    /\ UNCHANGED <<writeIdx, readIdx, slots, consumer>>

----------------------------------------------------------------------------
\* Consumer: Peek, an access through the pointer it returned, Pop

\* The test of Peek and of Pop: nothing is published.
EmptyFor(write, read) == write = read

\* Peek returns the address of the oldest element; nullptr changes nothing.
Peek ==
    /\ consumer.pc \in {"idle", "peeked", "read"}
    /\ ~EmptyFor(writeIdx, readIdx)
    /\ consumer' = [consumer EXCEPT !.pc = "peeked", !.read = readIdx,
                                    !.copy = NoItem]
    /\ UNCHANGED <<writeIdx, readIdx, slots, producer>>

\* The caller of Peek reads the element in place.
ReadElement ==
    /\ consumer.pc = "peeked"
    /\ consumer' = [consumer EXCEPT !.pc = "read",
                                    !.copy = slots[SlotOf(consumer.read)]]
    /\ UNCHANGED <<writeIdx, readIdx, slots, producer>>

\* Slip: Pop trusts its caller and does not test.
PopLoadUntested ==
    /\ consumer.pc \in {"idle", "peeked", "read"}
    /\ consumer' = [consumer EXCEPT !.pc = "popping", !.read = readIdx,
                        !.copy = IF consumer.pc = "read" THEN @ ELSE NoItem]
    /\ UNCHANGED <<writeIdx, readIdx, slots, producer>>

\* Pop up to its test, with or without an earlier Peek; the destructor of the
\* element types in use is trivial, so the slot keeps its bytes.
PopLoad ==
    /\ consumer.pc \in {"idle", "peeked", "read"}
    /\ ~EmptyFor(writeIdx, readIdx)
    /\ consumer' = [consumer EXCEPT !.pc = "popping", !.read = readIdx,
                        !.copy = IF consumer.pc = "read" THEN @ ELSE NoItem]
    /\ UNCHANGED <<writeIdx, readIdx, slots, producer>>

\* The release store that gives the slot back to the producer.
PopRelease ==
    /\ consumer.pc = "popping"
    /\ readIdx' = Advance(consumer.read, 1)
    /\ consumer' = [consumer EXCEPT !.pc = "idle",
                        !.avail = Less(@, 1),
                        !.copy = NoItem,
                        !.delivered = IF consumer.copy = NoItem
                                      THEN @ ELSE consumer.copy]
    /\ UNCHANGED <<writeIdx, slots, producer>>

\* Slip: the operands of the unsigned subtraction swapped.
SizeSwapped ==
    /\ consumer.pc = "idle"
    /\ consumer' = [consumer EXCEPT !.avail = Used(readIdx, writeIdx)]
    /\ UNCHANGED <<writeIdx, readIdx, slots, producer>>

\* Size(), Available() and Empty(), asked by the consumer between two pops.
Size ==
    /\ consumer.pc = "idle"
    /\ consumer' = [consumer EXCEPT !.avail = Used(writeIdx, readIdx)]
    /\ UNCHANGED <<writeIdx, readIdx, slots, producer>>

\* Slip: skips the element after the counted ones too.
ForceAdvanceOneTooFar(count) ==
    /\ consumer.pc = "idle"
    /\ readIdx' = Advance(readIdx, count + 1)
    /\ consumer' = [consumer EXCEPT !.avail = Less(@, count)]
    /\ UNCHANGED <<writeIdx, slots, producer>>

\* ForceAdvanceReadIndex has no test of its own: here its caller skips no more
\* elements than its last Size() counted.  Module WorkerRecovery has the
\* caller that does not look.
ForceAdvanceReadIndex(count) ==
    /\ consumer.pc = "idle"
    /\ readIdx' = Advance(readIdx, count)
    /\ consumer' = [consumer EXCEPT !.avail = Less(@, count)]
    /\ UNCHANGED <<writeIdx, slots, producer>>

----------------------------------------------------------------------------
ProducerNext ==
    \/ \E item \in Items : PushLoad(item)
    \/ PushConstruct
    \/ PushConstructed
    \/ PushPublish
    \/ FreeSpace

ConsumerNext ==
    \/ Peek
    \/ ReadElement
    \/ PopLoad
    \/ PopRelease
    \/ Size
    \/ \E count \in 1 .. consumer.avail : ForceAdvanceReadIndex(count)

Next == ProducerNext \/ ConsumerNext

Spec == Init /\ [][Next]_vars

----------------------------------------------------------------------------
\* The published elements, oldest first.
Published == 1 .. Used(writeIdx, readIdx)
Contents  == [k \in Published |-> slots[SlotOf(Advance(readIdx, k - 1))]]

Pushing == producer.pc # "idle"
Holding == consumer.pc # "idle"

(***************************************************************************)
(* What either thread has learned from the indices stays true until it     *)
(* acts on it, whatever the other thread does meanwhile: a Push past its   *)
(* test still has a free slot, a Peek or Pop past its test still has an    *)
(* element, FreeSpace() pushes still fit and Size() elements are still     *)
(* there.  This is why Push and Pop may test first and store later.        *)
(***************************************************************************)
ObservationsStayTrue ==
    /\ Used(writeIdx, readIdx) <= Capacity
    /\ Pushing => producer.write = writeIdx /\ Used(writeIdx, readIdx) < Capacity
    /\ Holding => consumer.read = readIdx /\ Used(writeIdx, readIdx) > 0
    /\ producer.space + Used(writeIdx, readIdx) <= Capacity
    /\ consumer.avail <= Used(writeIdx, readIdx)

(***************************************************************************)
(* "Producer writes data, then updates write_idx": every slot between the  *)
(* two indices holds a completely constructed element.                     *)
(***************************************************************************)
PublishedAreConstructed ==
    \A k \in Published : slots[SlotOf(Advance(readIdx, k - 1))] \in Items

(***************************************************************************)
(* The slot Push constructs into is never the one the consumer has a       *)
(* pointer to: there is no data race on a slot, also when the queue is     *)
(* full or the indices have wrapped.                                       *)
(***************************************************************************)
NoSlotRace ==
    Pushing /\ Holding => SlotOf(producer.write) # SlotOf(consumer.read)

(***************************************************************************)
(* From Peek until Pop's release store the element the consumer points to  *)
(* does not change.                                                        *)
(***************************************************************************)
HeldElementIsStable ==
    [][Holding => slots'[SlotOf(consumer.read)] = slots[SlotOf(consumer.read)]]_vars

(***************************************************************************)
(* The ring buffer implements the queue it promises: order, no loss, no    *)
(* duplicate, bounded.                                                     *)
(***************************************************************************)
Fifo == INSTANCE FifoQueue WITH queue <- Contents,
                                delivered <- consumer.delivered,
                                None <- NoItem,
                                Bound <- Capacity

ImplementsFifo == Fifo!Spec
=============================================================================
