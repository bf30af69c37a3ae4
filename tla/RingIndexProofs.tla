--------------------------- MODULE RingIndexProofs ---------------------------
(***************************************************************************)
(* Facts about the index arithmetic of module RingIndex, for every         *)
(* capacity and index range.  They turn the modular operators into linear  *)
(* arithmetic, which the proofs about the queues then use.                 *)
(***************************************************************************)
EXTENDS RingIndex, TLAPS

(* A number in range is its own remainder.                                 *)
LEMMA ModSmall ==
    ASSUME NEW n \in Nat \ {0}, NEW a \in Int, 0 <= a, a < n
    PROVE  a % n = a
  OBVIOUS

(* A remainder is determined by any quotient.                              *)
LEMMA ModUnique ==
    ASSUME NEW n \in Nat \ {0}, NEW a \in Int, NEW q \in Int, NEW b \in 0 .. n - 1,
           a = n * q + b
    PROVE  a % n = b
  OBVIOUS

(* Division with remainder.                                                *)
LEMMA ModDiv ==
    ASSUME NEW n \in Nat \ {0}, NEW a \in Int
    PROVE  /\ a % n \in 0 .. n - 1
           /\ a \div n \in Int
           /\ a = n * (a \div n) + (a % n)
  OBVIOUS

(* Adding a multiple of the modulus does not change a remainder.           *)
LEMMA ModShift ==
    ASSUME NEW n \in Nat \ {0}, NEW a \in Int, NEW m \in Int
    PROVE  (a + n * m) % n = a % n
<1> DEFINE q == a \div n
           b == a % n
<1>1. q \in Int /\ b \in 0 .. n - 1 /\ a = n * q + b
  BY ModDiv
<1>2. n * q + n * m = n * (q + m) /\ n * m \in Int
  BY <1>1
<1>3. a + n * m = n * (q + m) + b
  BY <1>1, <1>2
<1>4. q + m \in Int /\ a + n * m \in Int
  BY <1>1, <1>2
<1> HIDE DEF q, b
<1>5. (a + n * m) % n = b
  BY <1>1, <1>3, <1>4, ModUnique
<1> QED
  BY <1>5 DEF b

(* In particular one modulus more, or less.                                *)
LEMMA ModPlus ==
    ASSUME NEW n \in Nat \ {0}, NEW a \in Int
    PROVE  (a + n) % n = a % n
<1>1. 1 \in Int /\ a + n * 1 = a + n
  OBVIOUS
<1>2. (a + n * 1) % n = a % n
  BY <1>1, ModShift, Zenon
<1> QED
  BY <1>1, <1>2, Zenon

(* A remainder is the same one divisor further down.                       *)
LEMMA ModMinus ==
    ASSUME NEW n \in Nat \ {0}, NEW a \in Int
    PROVE  (a - n) % n = a % n
<1>1. a - n \in Int /\ (a - n) + n = a
  OBVIOUS
<1>2. ((a - n) + n) % n = (a - n) % n
  BY <1>1, ModPlus, Zenon
<1> QED
  BY <1>1, <1>2, Zenon

-----------------------------------------------------------------------------
(* uint64_t subtraction as the distance travelled around the range.        *)
LEMMA UsedLinear ==
    ASSUME NEW write \in Index, NEW read \in Index
    PROVE  Used(write, read) = IF write >= read THEN write - read
                                                ELSE write - read + IndexRange
<1> USE CapacityAssumption, IndexRangeAssumption DEF Index, Used
<1>1. CASE write >= read
  BY <1>1, ModSmall
<1>2. CASE write < read
  <2>1. (write - read) % IndexRange = (write - read + IndexRange) % IndexRange
    <3>1. IndexRange \in Nat \ {0} /\ write - read \in Int
      OBVIOUS
    <3> QED
      BY <3>1, ModPlus, Zenon
  <2>2. (write - read + IndexRange) % IndexRange = write - read + IndexRange
    BY <1>2, ModSmall
  <2> QED
    BY <1>2, <2>1, <2>2
<1> QED
  BY <1>1, <1>2

(* uint64_t addition of at most one range.                                 *)
LEMMA AdvanceLinear ==
    ASSUME NEW index \in Index, NEW count \in 0 .. IndexRange
    PROVE  Advance(index, count) = IF index + count < IndexRange
                                   THEN index + count
                                   ELSE index + count - IndexRange
<1> USE CapacityAssumption, IndexRangeAssumption DEF Index, Advance
<1>1. CASE index + count < IndexRange
  BY <1>1, ModSmall
<1>2. CASE index + count >= IndexRange
  <2>1. (index + count - IndexRange) % IndexRange = (index + count) % IndexRange
    <3> DEFINE sum == index + count
    <3>1. IndexRange \in Nat \ {0} /\ sum \in Int
      OBVIOUS
    <3> HIDE DEF sum
    <3>2. (sum - IndexRange) % IndexRange = sum % IndexRange
      BY <3>1, ModMinus, Zenon
    <3> QED
      BY <3>2 DEF sum
  <2>2. (index + count - IndexRange) % IndexRange = index + count - IndexRange
    BY <1>2, ModSmall
  <2> QED
    BY <1>2, <2>1, <2>2
<1> QED
  BY <1>1, <1>2

(* The results are indices.                                                *)
LEMMA UsedInIndex ==
    ASSUME NEW write \in Index, NEW read \in Index
    PROVE  Used(write, read) \in Index
  BY UsedLinear, IndexRangeAssumption, CapacityAssumption DEF Index

(* What Advance returns is an index.                                       *)
LEMMA AdvanceInIndex ==
    ASSUME NEW index \in Index, NEW count \in 0 .. IndexRange
    PROVE  Advance(index, count) \in Index
  BY AdvanceLinear, IndexRangeAssumption, CapacityAssumption DEF Index

(* Empty() compares the indices, Size() subtracts them: the tests agree.   *)
LEMMA UsedZero ==
    ASSUME NEW write \in Index, NEW read \in Index
    PROVE  Used(write, read) = 0 <=> write = read
  BY UsedLinear, IndexRangeAssumption, CapacityAssumption DEF Index

(* Advancing the write index lengthens the queue by one, unless it is the  *)
(* last value before the range is used up.                                 *)
LEMMA UsedAfterPush ==
    ASSUME NEW write \in Index, NEW read \in Index,
           Used(write, read) < IndexRange - 1
    PROVE  Used(Advance(write, 1), read) = Used(write, read) + 1
<1>1. 1 \in 0 .. IndexRange
  BY IndexRangeAssumption, CapacityAssumption
<1>2. Advance(write, 1) \in Index
  BY <1>1, AdvanceInIndex
<1>3. Advance(write, 1) = IF write + 1 < IndexRange THEN write + 1
                                                   ELSE write + 1 - IndexRange
  BY <1>1, AdvanceLinear
<1>4. Used(write, read) = IF write >= read THEN write - read
                                           ELSE write - read + IndexRange
  BY UsedLinear
<1>5. Used(Advance(write, 1), read) =
         IF Advance(write, 1) >= read THEN Advance(write, 1) - read
                                      ELSE Advance(write, 1) - read + IndexRange
  BY <1>2, UsedLinear
<1> QED
  BY <1>2, <1>3, <1>4, <1>5, IndexRangeAssumption, CapacityAssumption DEF Index

(* Advancing the read index by no more than the queue holds shortens it by *)
(* as much.                                                                *)
LEMMA UsedAfterPop ==
    ASSUME NEW write \in Index, NEW read \in Index,
           NEW count \in 0 .. Used(write, read)
    PROVE  Used(write, Advance(read, count)) = Used(write, read) - count
<1>1. Used(write, read) \in Index
  BY UsedInIndex
<1>2. count \in 0 .. IndexRange
  BY <1>1, IndexRangeAssumption DEF Index
<1>3. Advance(read, count) \in Index
  BY <1>2, AdvanceInIndex
<1>4. Advance(read, count) = IF read + count < IndexRange THEN read + count
                                             ELSE read + count - IndexRange
  BY <1>2, AdvanceLinear
<1> QED
  BY <1>2, <1>3, <1>4, UsedLinear, IndexRangeAssumption, CapacityAssumption DEF Index

(* Going from the read index as far as the queue is long ends at the write *)
(* index.                                                                  *)
LEMMA AdvanceUsed ==
    ASSUME NEW write \in Index, NEW read \in Index
    PROVE  Advance(read, Used(write, read)) = write
<1>1. Used(write, read) \in Index
  BY UsedInIndex
<1>2. Used(write, read) \in 0 .. IndexRange
  BY <1>1, IndexRangeAssumption DEF Index
<1>3. Advance(read, Used(write, read)) =
         IF read + Used(write, read) < IndexRange
         THEN read + Used(write, read)
         ELSE read + Used(write, read) - IndexRange
  BY <1>2, AdvanceLinear
<1> QED
  BY <1>3, UsedLinear, IndexRangeAssumption, CapacityAssumption DEF Index

(* Two advances are one.                                                   *)
LEMMA AdvanceTwice ==
    ASSUME NEW index \in Index, NEW first \in Nat, NEW second \in Nat,
           first + second <= IndexRange
    PROVE  Advance(Advance(index, first), second) = Advance(index, first + second)
<1>1. /\ first \in 0 .. IndexRange
      /\ second \in 0 .. IndexRange
      /\ first + second \in 0 .. IndexRange
  BY IndexRangeAssumption
<1>2. Advance(index, first) \in Index
  BY <1>1, AdvanceInIndex
<1>3. Advance(index, first) = IF index + first < IndexRange THEN index + first
                                             ELSE index + first - IndexRange
  BY <1>1, AdvanceLinear
<1>4. Advance(Advance(index, first), second) =
         IF Advance(index, first) + second < IndexRange
         THEN Advance(index, first) + second
         ELSE Advance(index, first) + second - IndexRange
  BY <1>1, <1>2, AdvanceLinear
<1>5. Advance(index, first + second) =
         IF index + (first + second) < IndexRange
         THEN index + (first + second)
         ELSE index + (first + second) - IndexRange
  BY <1>1, AdvanceLinear
<1> QED
  BY <1>2, <1>3, <1>4, <1>5, IndexRangeAssumption DEF Index

-----------------------------------------------------------------------------
(* GetElementPtr stays inside the buffer.                                  *)
LEMMA SlotOfInSlot ==
    ASSUME NEW index \in Int
    PROVE  SlotOf(index) \in Slot
  BY ModDiv, CapacityAssumption DEF SlotOf, Slot

(* The wrap of an index at the end of its range does not disturb the       *)
(* sequence of slots, because the range is a multiple of the capacity.     *)
LEMMA SlotOfAdvance ==
    ASSUME NEW index \in Index, NEW count \in 0 .. IndexRange
    PROVE  SlotOf(Advance(index, count)) = SlotOf(index + count)
<1> DEFINE laps == IndexRange \div Capacity
<1>1. laps \in Int /\ IndexRange = Capacity * laps
  BY ModDiv, CapacityAssumption, IndexRangeAssumption
<1>2. CASE index + count < IndexRange
  BY <1>2, AdvanceLinear
<1>3. CASE index + count >= IndexRange
  <2>1. Advance(index, count) = index + count - IndexRange
    BY <1>3, AdvanceLinear, IndexRangeAssumption DEF Index
  <2>2. Advance(index, count) \in Int
    BY AdvanceInIndex, IndexRangeAssumption DEF Index
  <2>3. Advance(index, count) + Capacity * laps = index + count
    BY <2>1, <1>1, IndexRangeAssumption DEF Index
  <2> HIDE DEF laps
  <2>4. (Advance(index, count) + Capacity * laps) % Capacity = Advance(index, count) % Capacity
    BY <2>2, <1>1, ModShift, CapacityAssumption
  <2> QED
    BY <2>3, <2>4 DEF SlotOf
<1> QED
  BY <1>2, <1>3, IndexRangeAssumption DEF Index

(* Two different numbers with the same remainder are a modulus apart.      *)
LEMMA ModDiffer ==
    ASSUME NEW n \in Nat \ {0}, NEW a \in Int, NEW b \in Int,
           a < b, b < a + n
    PROVE  a % n # b % n
<1> SUFFICES ASSUME a % n = b % n PROVE FALSE
  OBVIOUS
<1> DEFINE p == a \div n
           q == b \div n
           r == a % n
<1>1. p \in Int /\ q \in Int /\ r \in Int /\ a = n * p + r /\ b = n * q + r
  BY ModDiv
<1> HIDE DEF p, q, r
<1>2. n * p < n * q /\ n * q < n * p + n
  BY <1>1
<1>3. n * p + n = n * (p + 1)
  BY <1>1
<1>4. p < q
  BY <1>1, <1>2
<1>5. q < p + 1
  BY <1>1, <1>2, <1>3
<1> QED
  BY <1>1, <1>4, <1>5

(* Slots less than a capacity apart are different ones.                    *)
LEMMA SlotOfApart ==
    ASSUME NEW a \in Nat, NEW b \in Nat, a < b, b - a < Capacity
    PROVE  SlotOf(a) # SlotOf(b)
<1>1. Capacity \in Nat \ {0} /\ a \in Int /\ b \in Int /\ b < a + Capacity
  BY CapacityAssumption
<1>2. a % Capacity # b % Capacity
  BY <1>1, ModDiffer
<1> QED
  BY <1>2 DEF SlotOf

(* Elements less than a capacity apart are in different slots.             *)
LEMMA SlotsDiffer ==
    ASSUME NEW index \in Index, NEW j \in 0 .. Capacity - 1,
           NEW k \in 0 .. Capacity - 1, j # k
    PROVE  SlotOf(Advance(index, j)) # SlotOf(Advance(index, k))
<1>1. j \in 0 .. IndexRange /\ k \in 0 .. IndexRange
  BY CapacityAssumption, IndexRangeAssumption
<1>2. /\ SlotOf(Advance(index, j)) = (index + j) % Capacity
      /\ SlotOf(Advance(index, k)) = (index + k) % Capacity
  BY <1>1, SlotOfAdvance DEF SlotOf
<1>3. index \in Int /\ j \in Int /\ k \in Int
  BY CapacityAssumption, IndexRangeAssumption DEF Index
<1>4. CASE j < k
  <2>1. index + j < index + k /\ index + k < index + j + Capacity
    BY <1>3, <1>4, CapacityAssumption
  <2> QED
    <3>1. index + j \in Int /\ index + k \in Int
      BY <1>3
    <3> QED
      BY <1>2, <2>1, <3>1, ModDiffer, CapacityAssumption, Zenon
<1>5. CASE k < j
  <2>1. index + k < index + j /\ index + j < index + k + Capacity
    BY <1>3, <1>5, CapacityAssumption
  <2> QED
    <3>1. index + j \in Int /\ index + k \in Int
      BY <1>3
    <3>2. (index + k) % Capacity # (index + j) % Capacity
      BY <2>1, <3>1, ModDiffer, CapacityAssumption, Zenon
    <3> QED
      BY <1>2, <3>2
<1> QED
  BY <1>3, <1>4, <1>5
=============================================================================
