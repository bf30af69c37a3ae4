------------------------------ MODULE RingIndex ------------------------------
(***************************************************************************)
(* Index arithmetic of the ring buffers.  Every queue of the system keeps  *)
(* two free-running uint64_t counters, write_idx and read_idx: they are    *)
(* never reduced modulo the capacity, only the slot number is.  Unsigned   *)
(* arithmetic wraps, so all of it is modulo IndexRange, which is 2^64 in   *)
(* the code and a small multiple of the capacity under TLC.                *)
(*                                                                         *)
(* In this module and the others a definition whose comment begins with    *)
(* "Slip:" is no part of the specification: it is the definition after it  *)
(* with a plausible programming mistake, kept to show which property       *)
(* notices the mistake.                                                    *)
(***************************************************************************)
EXTENDS Integers

CONSTANTS
    Capacity,   \* kCapacity / queue_capacity: number of slots
    IndexRange  \* number of values of an index: 2^64 in the code

\* kCapacity > 0 is the static_assert of spsc_ring_buffer.hpp:37.
ASSUME CapacityAssumption == Capacity \in Nat \ {0}

\* 2^64 is a multiple of every power of two below it; the static_assert of
\* spsc_ring_buffer.hpp:38 makes kCapacity a power of two.  An index range of
\* one capacity could not tell a full queue from an empty one.
ASSUME IndexRangeAssumption ==
    /\ IndexRange \in Nat
    /\ IndexRange > Capacity
    /\ IndexRange % Capacity = 0

Index == 0 .. IndexRange - 1
Slot  == 0 .. Capacity - 1

\* index + count in uint64_t
Advance(index, count) == (index + count) % IndexRange

\* write - read in uint64_t: the number of published, unreleased elements as
\* long as read has not overtaken write, and a huge number once it has
Used(write, read) == (write - read) % IndexRange

\* Slip: the mask kCapacity - 1 taken for a modulus.
SlotOfMaskAsModulus(index) == index % (Capacity - 1)

\* BufferOffset and GetElementPtr: index & (kCapacity - 1), which is
\* index % kCapacity for a power of two
SlotOf(index) == index % Capacity

=============================================================================
