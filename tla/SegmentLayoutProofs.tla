------------------------- MODULE SegmentLayoutProofs -------------------------
(***************************************************************************)
(* The placement of the queues for all numbers of workers and all          *)
(* capacities: no two rings overlap, those of the normal workers lie in    *)
(* the segment, and so do the two areas of SimplifiedShmLayout.            *)
(***************************************************************************)
EXTENDS SegmentLayout, TLAPS

(* The template parameters and sizes are natural numbers.                  *)
Parameters ==
    /\ NormalWorkerCount \in Nat /\ NormalQueueCapacity \in Nat
    /\ VipWorkerCount \in Nat /\ VipQueueCapacity \in Nat
    /\ HeaderSize \in Nat /\ LayoutSize \in Nat

(* A ring that has its buffer has it at its place, and it is large enough. *)
Placed(q) ==
    /\ start[q] = Place(IF q[1] = "normal" THEN NormalBase ELSE VipBase, q[2], q[3])
    /\ QueueCapacity(q) * HeaderSize <= BufferSize

IInv == TypeOK /\ \A q \in Queues : IsInitialized(q) => Placed(q)

(* What Queues holds, component by component.                              *)
LEMMA QueueParts ==
    ASSUME NEW q \in Queues
    PROVE  /\ q = <<q[1], q[2], q[3]>>
           /\ q[2] \in Nat
           /\ q[3] = "request" \/ q[3] = "response"
           /\ q[1] = "normal" \/ q[1] = "vip"
           /\ q[1] = "normal" /\ NormalWorkerCount \in Nat => q[2] < NormalWorkerCount
  BY DEF Queues, Sides

(* A larger index lies at least one stride further on.                     *)
LEMMA StrideOrder ==
    ASSUME NEW i \in Nat, NEW j \in Nat, NEW b \in Nat, i < j
    PROVE  i * 2 * b + 2 * b <= j * 2 * b
<1>1. PICK d \in Nat : j = i + 1 + d
  <2>1. j - i - 1 \in Nat /\ j = i + 1 + (j - i - 1)
    OBVIOUS
  <2> QED
    BY <2>1
<1>2. j * 2 * b = i * 2 * b + 2 * b + d * 2 * b
  BY <1>1
<1>3. d * 2 * b \in Nat /\ i * 2 * b \in Nat /\ 2 * b \in Nat
  OBVIOUS
<1> HIDE <1>1
<1> QED
  BY <1>2, <1>3

(* What the loops of Initialize establish, turn by turn.                   *)
LEMMA Inductive ==
    ASSUME Parameters
    PROVE  Spec => []IInv
<1>1. Init => IInv
  BY DEF Init, IInv, TypeOK, IsInitialized
<1>2. IInv /\ [Next]_vars => IInv'
  <2> SUFFICES ASSUME IInv, [Next]_vars
               PROVE  IInv'
    OBVIOUS
  <2>1. ASSUME NEW g \in {"normal", "vip"}, NEW base \in Nat,
               base = (IF g = "normal" THEN NormalBase ELSE VipBase),
               InitializeRings(g, base), worker' = worker + 1, UNCHANGED group
        PROVE  IInv'
    <3>1. BufferSize \in Nat
      BY DEF Parameters, BufferSize
    <3>2. \A q \in Queues : Place(base, worker, q[3]) \in Nat
      <4>1. worker * 2 * BufferSize \in Nat
        BY <3>1 DEF IInv, TypeOK
      <4> QED
        BY <3>1, <4>1 DEF Place
    <3>3. TypeOK'
      BY <2>1, <3>2 DEF IInv, TypeOK, InitializeRings
    <3>4. ASSUME NEW q \in Queues, IsInitialized(q)'
          PROVE  Placed(q)'
      <4>1. CASE q[1] = g /\ q[2] = worker /\ BufferSize >= QueueCapacity(q) * HeaderSize
        <5>1. start'[q] = Place(base, worker, q[3])
          BY <2>1, <4>1 DEF InitializeRings
        <5> QED
          BY <2>1, <4>1, <5>1, <3>1 DEF Placed, QueueCapacity, Parameters
      <4>2. CASE ~(q[1] = g /\ q[2] = worker /\ BufferSize >= QueueCapacity(q) * HeaderSize)
        <5>1. start'[q] = start[q]
          BY <2>1, <4>2 DEF InitializeRings
        <5> QED
          BY <3>4, <5>1 DEF IInv, Placed, IsInitialized
      <4> QED
        BY <4>1, <4>2
    <3> QED
      BY <3>3, <3>4 DEF IInv
  <2>2. CASE InitializeNormal
    <3>1. NormalBase \in Nat
      BY DEF Parameters, NormalBase
    <3>2. CASE worker < NormalWorkerCount
      BY <2>1, <2>2, <3>1, <3>2 DEF InitializeNormal
    <3>3. CASE ~(worker < NormalWorkerCount)
      BY <2>2, <3>3 DEF InitializeNormal, IInv, TypeOK, Placed, IsInitialized
    <3> QED
      BY <3>2, <3>3
  <2>3. CASE InitializeVip
    <3>1. VipBase \in Nat
      BY DEF Parameters, VipBase, BufferSize
    <3>2. CASE worker < VipWorkerCount
      BY <2>1, <2>3, <3>1, <3>2 DEF InitializeVip
    <3>3. CASE ~(worker < VipWorkerCount)
      BY <2>3, <3>3 DEF InitializeVip, IInv, TypeOK, Placed, IsInitialized
    <3> QED
      BY <3>2, <3>3
  <2>4. CASE UNCHANGED vars
    BY <2>4 DEF vars, IInv, TypeOK, Placed, IsInitialized
  <2> QED
    BY <2>2, <2>3, <2>4 DEF Next
<1> QED
  BY <1>1, <1>2, PTL DEF Spec

(* Two places of one group are at least a buffer apart.                    *)
LEMMA PlacesApart ==
    ASSUME Parameters, NEW base \in Nat, NEW i \in Nat, NEW j \in Nat,
           NEW s \in Sides, NEW t \in Sides, i # j \/ s # t
    PROVE  \/ Place(base, i, s) + BufferSize <= Place(base, j, t)
           \/ Place(base, j, t) + BufferSize <= Place(base, i, s)
<1>1. BufferSize \in Nat
  BY DEF Parameters, BufferSize
<1>2. i * 2 * BufferSize \in Nat /\ j * 2 * BufferSize \in Nat
  BY <1>1
<1>3. /\ i < j => i * 2 * BufferSize + 2 * BufferSize <= j * 2 * BufferSize
      /\ j < i => j * 2 * BufferSize + 2 * BufferSize <= i * 2 * BufferSize
  BY <1>1, StrideOrder
<1>4. i < j \/ j < i \/ (i = j /\ s # t)
  OBVIOUS
<1> QED
  BY <1>1, <1>2, <1>3, <1>4 DEF Place, Sides

(* The places of the normal workers end where those of the VIP ones begin. *)
LEMMA NormalBeforeVip ==
    ASSUME Parameters, NEW q \in Queues, q[1] = "normal"
    PROVE  /\ Place(NormalBase, q[2], q[3]) + BufferSize <= VipBase
           /\ LayoutSize <= Place(NormalBase, q[2], q[3])
<1>1. BufferSize \in Nat
  BY DEF Parameters, BufferSize
<1>2. q[2] \in Nat /\ q[2] < NormalWorkerCount
  BY QueueParts DEF Parameters
<1>3. q[2] * 2 * BufferSize + 2 * BufferSize <= NormalWorkerCount * 2 * BufferSize
  BY <1>1, <1>2, StrideOrder DEF Parameters
<1>4. q[2] * 2 * BufferSize \in Nat /\ NormalWorkerCount * 2 * BufferSize \in Nat
  BY <1>1, <1>2 DEF Parameters
<1> QED
  BY <1>1, <1>3, <1>4 DEF Place, NormalBase, VipBase, Parameters

(***************************************************************************)
(* For every number of workers and all capacities, the rings of            *)
(* PhoenixShmLayout::Initialize never share a byte with each other or with *)
(* the layout: the places of the VIP rings are too far apart, never too    *)
(* close, and a ring too large for its buffer is refused.                  *)
(***************************************************************************)
THEOREM QueuesDisjoint ==
    ASSUME Parameters
    PROVE  Spec => []BuffersDisjoint
<1>1. IInv => BuffersDisjoint
  <2> SUFFICES ASSUME IInv, NEW q \in Queues, IsInitialized(q)
               PROVE  /\ LayoutSize <= start[q]
                      /\ \A r \in Queues \ {q} :
                             IsInitialized(r) => End(q) <= start[r] \/ End(r) <= start[q]
    BY DEF BuffersDisjoint
  <2>1. NormalBase \in Nat /\ VipBase \in Nat /\ BufferSize \in Nat /\ LayoutSize <= VipBase
    BY DEF Parameters, NormalBase, VipBase, BufferSize
  <2>2. ASSUME NEW r \in Queues, IsInitialized(r)
        PROVE  /\ start[r] \in Nat /\ QueueCapacity(r) * HeaderSize \in Nat
               /\ End(r) <= start[r] + BufferSize
               /\ r[1] = "normal" => start[r] + BufferSize <= VipBase /\ LayoutSize <= start[r]
               /\ r[1] = "vip" => VipBase <= start[r]
    <3>1. Placed(r) /\ start[r] \in Nat
      BY <2>2 DEF IInv, TypeOK
    <3>2. QueueCapacity(r) * HeaderSize \in Nat
      BY DEF QueueCapacity, Parameters
    <3>3. End(r) <= start[r] + BufferSize
      BY <2>1, <3>1, <3>2 DEF Placed, End
    <3>4. ASSUME r[1] = "normal"
          PROVE  start[r] + BufferSize <= VipBase /\ LayoutSize <= start[r]
      BY <3>1, <3>4, NormalBeforeVip DEF Placed
    <3>5. ASSUME r[1] = "vip"
          PROVE  VipBase <= start[r]
      <4>1. r[2] \in Nat
        BY QueueParts
      <4>2. r[2] * 2 * BufferSize \in Nat
        BY <2>1, <4>1
      <4> QED
        BY <2>1, <3>1, <3>5, <4>2 DEF Placed, Place
    <3> QED
      BY <3>1, <3>2, <3>3, <3>4, <3>5
  <2>3. LayoutSize <= start[q]
    BY <2>1, <2>2, QueueParts DEF Parameters
  <2>4. ASSUME NEW r \in Queues \ {q}, IsInitialized(r)
        PROVE  End(q) <= start[r] \/ End(r) <= start[q]
    <3>1. CASE q[1] = r[1]
      <4>1. q[2] # r[2] \/ q[3] # r[3]
        <5>1. q = <<q[1], q[2], q[3]>> /\ r = <<r[1], r[2], r[3]>>
          BY QueueParts
        <5> QED
          BY <3>1, <5>1
      <4>2. q[2] \in Nat /\ r[2] \in Nat /\ q[3] \in Sides /\ r[3] \in Sides
        BY QueueParts DEF Sides
      <4>3. Placed(q) /\ Placed(r)
        BY <2>4 DEF IInv
      <4> DEFINE base == IF q[1] = "normal" THEN NormalBase ELSE VipBase
      <4>4. base \in Nat /\ start[q] = Place(base, q[2], q[3])
                         /\ start[r] = Place(base, r[2], r[3])
        BY <2>1, <3>1, <4>3 DEF Placed
      <4> HIDE DEF base
      <4>5. start[q] + BufferSize <= start[r] \/ start[r] + BufferSize <= start[q]
        BY <4>1, <4>2, <4>4, PlacesApart
      <4>6. End(q) <= start[q] + BufferSize /\ End(r) <= start[r] + BufferSize
            /\ start[q] \in Nat /\ start[r] \in Nat /\ End(q) \in Nat /\ End(r) \in Nat
        BY <2>2, <2>4 DEF End
      <4> QED
        BY <2>1, <4>5, <4>6
    <3>2. CASE q[1] # r[1]
      <4>1. (q[1] = "normal" /\ r[1] = "vip") \/ (q[1] = "vip" /\ r[1] = "normal")
        BY <3>2, QueueParts DEF Parameters
      <4>2. End(q) \in Nat /\ End(r) \in Nat
        BY <2>2, <2>4 DEF End
      <4> QED
        BY <2>1, <2>2, <2>4, <4>1, <4>2
    <3> QED
      BY <3>1, <3>2
  <2> QED
    BY <2>3, <2>4
<1> QED
  BY <1>1, Inductive, PTL

(***************************************************************************)
(* For every number of workers and all capacities the rings of the normal  *)
(* workers end inside the RequiredSize bytes that the server maps.  (Of    *)
(* the VIP rings this is false: run segment_vip.)                          *)
(***************************************************************************)
THEOREM NormalQueuesFit ==
    ASSUME Parameters
    PROVE  Spec => []NormalBuffersFit
<1>1. IInv => NormalBuffersFit
  <2> SUFFICES ASSUME IInv, NEW q \in Queues, q[1] = "normal", IsInitialized(q)
               PROVE  End(q) <= RequiredSize
    BY DEF NormalBuffersFit
  <2>1. Placed(q) /\ start[q] \in Nat
    BY DEF IInv, TypeOK
  <2>2. start[q] + BufferSize <= VipBase
    BY <2>1, NormalBeforeVip DEF Placed
  <2>3. BufferSize \in Nat /\ NormalWorkerCount * 2 * BufferSize \in Nat
        /\ VipWorkerCount * 2 * (VipQueueCapacity * HeaderSize) \in Nat
        /\ QueueCapacity(q) * HeaderSize \in Nat
    BY DEF Parameters, BufferSize, QueueCapacity
  <2>4. VipBase <= RequiredSize
    BY <2>3 DEF VipBase, RequiredSize, CalculateBufferSize, Parameters, BufferSize
  <2>5. End(q) <= start[q] + BufferSize
    BY <2>1, <2>3 DEF Placed, End
  <2>6. VipBase \in Nat /\ RequiredSize \in Nat /\ End(q) \in Nat
    BY <2>1, <2>3 DEF VipBase, RequiredSize, CalculateBufferSize, Parameters, BufferSize, End
  <2> QED
    BY <2>1, <2>2, <2>3, <2>4, <2>5, <2>6
<1> QED
  BY <1>1, Inductive, PTL

(***************************************************************************)
(* SimplifiedShmLayout: whatever the free-running index, GetMessage stays  *)
(* between the header and the payload buffer, and GetPayload(0) has        *)
(* payload_size bytes before the end of the segment, whose size            *)
(* CalculateSize is.                                                       *)
(***************************************************************************)
THEOREM SimplifiedAreasFit ==
    ASSUME Parameters, NEW capacity \in Nat \ {0}, NEW index \in Nat, NEW size \in Nat
    PROVE  /\ LayoutSize <= GetMessage(capacity, index)
           /\ GetMessage(capacity, index) + HeaderSize <= PayloadOffset(capacity)
           /\ PayloadOffset(capacity) + size <= CalculateSize(capacity, size)
<1>1. index % capacity \in 0 .. capacity - 1
  OBVIOUS
<1>2. PICK rest \in Nat : capacity = (index % capacity) + 1 + rest
  <2>1. capacity - 1 - (index % capacity) \in Nat
    BY <1>1
  <2> QED
    BY <1>1, <2>1
<1> DEFINE place == index % capacity
<1>3. place \in Nat
  BY <1>1
<1> HIDE DEF place
<1>4. capacity * HeaderSize = place * HeaderSize + HeaderSize + rest * HeaderSize
  BY <1>2, <1>3 DEF place, Parameters
<1>5. place * HeaderSize \in Nat /\ rest * HeaderSize \in Nat /\ capacity * HeaderSize \in Nat
  BY <1>3 DEF Parameters
<1> QED
  BY <1>3, <1>4, <1>5
  DEF place, GetMessage, PayloadOffset, CalculateSize, QueueOffset, Parameters
=============================================================================
