---------------------------- MODULE SegmentLayout ----------------------------
(***************************************************************************)
(* Where the buffers of the queues lie in a segment, in bytes from its     *)
(* start: PhoenixShmLayout::Initialize, one step per turn of its loops,    *)
(* and the two areas of SimplifiedShmLayout.                               *)
(*                                                                         *)
(* The rings of PhoenixShmLayout keep the address of their buffer in the   *)
(* segment itself.  It is an address of the process that ran Initialize;   *)
(* here it is an offset, as if every process mapped the segment there.     *)
(***************************************************************************)
EXTENDS Naturals

CONSTANTS
    NormalWorkerCount,    \* kNormalWorkerCount
    NormalQueueCapacity,  \* kNormalQueueCapacity
    VipWorkerCount,       \* kVipWorkerCount
    VipQueueCapacity,     \* kVipQueueCapacity
    HeaderSize,           \* sizeof(protocol::MsgHeader)
    LayoutSize            \* sizeof(PhoenixShmLayout), sizeof(SimplifiedShmLayout)

VARIABLES
    group,   \* the loop Initialize is in
    worker,  \* i
    start    \* buffer_start_ of each ring, 0 before its Initialize

vars == <<group, worker, start>>

Sides  == {"request", "response"}
Queues == ({"normal"} \X (0 .. NormalWorkerCount - 1) \X Sides)
     \cup ({"vip"} \X (0 .. VipWorkerCount - 1) \X Sides)

QueueCapacity(q) == IF q[1] = "normal" THEN NormalQueueCapacity ELSE VipQueueCapacity

CalculateBufferSize ==
    NormalWorkerCount * 2 * (NormalQueueCapacity * HeaderSize)
    + VipWorkerCount * 2 * (VipQueueCapacity * HeaderSize)

RequiredSize == LayoutSize + CalculateBufferSize

\* req_buffer_size, resp_buffer_size: of both groups
BufferSize == NormalQueueCapacity * HeaderSize

NormalBase == LayoutSize
VipBase    == LayoutSize + NormalWorkerCount * 2 * BufferSize

\* req_start and resp_start of the i-th worker of a group.
Place(base, i, side) == base + i * 2 * BufferSize + (IF side = "request" THEN 0 ELSE BufferSize)

TypeOK ==
    /\ group \in {"normal", "vip", "done"}
    /\ worker \in Nat
    /\ start \in [Queues -> Nat]

\* The server has mapped RequiredSize bytes, which passes the test of min_size.
Init ==
    /\ group = "normal" /\ worker = 0
    /\ start = [q \in Queues |-> 0]

\* SpscRingBuffer::Initialize for both rings of a worker.  It refuses a buffer
\* that is too small, and nobody looks at what it returns.
InitializeRings(g, base) ==
    start' = [q \in Queues |->
        IF q[1] = g /\ q[2] = worker /\ BufferSize >= QueueCapacity(q) * HeaderSize
        THEN Place(base, worker, q[3])
        ELSE start[q]]

InitializeNormal ==
    /\ group = "normal"
    /\ IF worker < NormalWorkerCount
       THEN InitializeRings("normal", NormalBase) /\ worker' = worker + 1 /\ UNCHANGED group
       ELSE group' = "vip" /\ worker' = 0 /\ UNCHANGED start

InitializeVip ==
    /\ group = "vip"
    /\ IF worker < VipWorkerCount
       THEN InitializeRings("vip", VipBase) /\ worker' = worker + 1 /\ UNCHANGED group
       ELSE group' = "done" /\ UNCHANGED <<worker, start>>

Next == InitializeNormal \/ InitializeVip

Spec == Init /\ [][Next]_vars

----------------------------------------------------------------------------
\* SimplifiedShmLayout: the queue, and the payload buffer behind it

QueueOffset == LayoutSize
PayloadOffset(queueCapacity) == QueueOffset + queueCapacity * HeaderSize
GetMessage(queueCapacity, index) == QueueOffset + (index % queueCapacity) * HeaderSize
CalculateSize(queueCapacity, payloadSize) ==
    LayoutSize + queueCapacity * HeaderSize + payloadSize

----------------------------------------------------------------------------
IsInitialized(q) == start[q] # 0

\* Behind the last byte of the ring: GetElementPtr masks the index.
End(q) == start[q] + QueueCapacity(q) * HeaderSize

(***************************************************************************)
(* No two rings use the same bytes, and none uses those of the layout      *)
(* itself (phoenix_shm_layout.hpp:98-112).                                 *)
(***************************************************************************)
BuffersDisjoint ==
    \A q \in Queues : IsInitialized(q) =>
        /\ LayoutSize <= start[q]
        /\ \A r \in Queues \ {q} :
               IsInitialized(r) => End(q) <= start[r] \/ End(r) <= start[q]

(***************************************************************************)
(* The rings of the normal workers lie within the segment.                 *)
(***************************************************************************)
NormalBuffersFit ==
    \A q \in Queues : q[1] = "normal" /\ IsInitialized(q) => End(q) <= RequiredSize

(***************************************************************************)
(* CalculateBufferSize is "the buffer size needed for all queues"          *)
(* (phoenix_shm_layout.hpp:61): every ring lies within the RequiredSize    *)
(* bytes of the segment.  Those of the VIP workers do not: Initialize      *)
(* places them with the stride of the normal ones (line 108).              *)
(***************************************************************************)
BuffersFit == \A q \in Queues : IsInitialized(q) => End(q) <= RequiredSize
=============================================================================
