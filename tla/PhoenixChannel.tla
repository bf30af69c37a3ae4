--------------------------- MODULE PhoenixChannel ---------------------------
(***************************************************************************)
(* phoenix::ipc::Producer and phoenix::ipc::Consumer over one              *)
(* SimplifiedShmLayout segment: the queue of headers, the single payload   *)
(* buffer, the blocking loops, the liveness test, process exits and        *)
(* clean-up.                                                               *)
(*                                                                         *)
(* The two processes run in parallel, so every access to the segment and   *)
(* every kill(pid, 0) is a step; memcpy moves one cell of PayloadSize per  *)
(* step and a header is torn while it is being assigned.  The k-th message *)
(* that is pushed has identity k (its func_id).                            *)
(***************************************************************************)
EXTENDS RingIndex, Sequences

CONSTANTS
    PayloadSize,  \* cells of the payload buffer, GetPayloadSize()
    Lengths,      \* the payload lengths callers of Send use
    MaxSends      \* bound on the number of pushed messages

ASSUME PayloadSizeAssumption == PayloadSize \in Nat \ {0}
ASSUME LengthsAssumption == Lengths \subseteq Nat

\* The indices of this module do not wrap: module SpscRingBuffer has that case.
ASSUME MaxSendsAssumption == MaxSends \in Nat /\ MaxSends < IndexRange

VARIABLES
    writeIdx,  \* write_idx
    readIdx,   \* read_idx
    slots,     \* the queue of MsgHeader
    payload,   \* the payload buffer: which message each cell belongs to
    alive,     \* the producer process exists
    linked,    \* the name of the segment exists in /dev/shm
    coordFile, \* the coordination file exists
    prod,      \* the Producer object and its thread inside DoSend
    cons,      \* the Consumer object and its thread inside DoReceive
    pushed,    \* history: the payloads of the pushed messages
    received   \* history: what DoReceive returned, in order

shm   == <<writeIdx, readIdx, slots, payload>>
names == <<linked, coordFile>>
vars  == <<shm, names, alive, prod, cons, pushed, received>>

Cells     == 1 .. PayloadSize
MessageId == 0 .. MaxSends                 \* 0: no message
Header    == [id : 1 .. MaxSends, len : 0 .. PayloadSize]
Torn      == [id |-> 0, len |-> 0]         \* a header seen while it is assigned

\* What Send is given: a length, and a payload or nullptr.
Payload == [len : 0 .. PayloadSize, given : BOOLEAN]

ProducerState ==
    [valid : BOOLEAN,                     \* valid
     pc    : {"idle", "waiting", "timing", "copying", "pushing", "writing", "written", "dead"},
     len   : 0 .. PayloadSize,            \* payload_len
     given : BOOLEAN,                     \* payload # nullptr
     cell  : Cells \cup {PayloadSize + 1},
     late  : BOOLEAN]                     \* now >= deadline

ConsumerState ==
    [pc     : {"detached", "idle", "polling", "testing", "timing", "rechecking", "peeking",
               "copying", "popping", "returning", "closed"},
     late   : BOOLEAN,
     wanted : BOOLEAN,                    \* payload_buffer # nullptr
     read   : Index,                      \* the header pointer, as an index
     len    : 0 .. PayloadSize,           \* header->payload_len
     cell   : Cells \cup {PayloadSize + 1},
     buffer : [Cells -> MessageId]]       \* payload_buffer

Received == [at     : 1 .. MaxSends,              \* the position that was popped
             header : Header \cup {Torn},
             wanted : BOOLEAN,
             body   : [Cells -> MessageId]]

TypeOK ==
    /\ writeIdx \in Index /\ readIdx \in Index
    /\ slots \in [Slot -> Header \cup {Torn}]
    /\ payload \in [Cells -> MessageId]
    /\ alive \in BOOLEAN /\ linked \in BOOLEAN /\ coordFile \in BOOLEAN
    /\ prod \in ProducerState
    /\ cons \in ConsumerState
    /\ pushed \in Seq(Payload)
    /\ received \in Seq(Received)

\* a consumer that is not inside DoReceive
NoCall(pc) == [pc |-> pc, late |-> FALSE, wanted |-> FALSE, read |-> 0, len |-> 0,
               cell |-> 1, buffer |-> [c \in Cells |-> 0]]

\* Producer::Create has succeeded: the layout is initialised and only then is
\* the coordination file written, so no consumer can have attached before.
Init ==
    /\ writeIdx = 0 /\ readIdx = 0
    /\ slots = [s \in Slot |-> Torn]
    /\ payload = [c \in Cells |-> 0]
    /\ alive = TRUE /\ linked = TRUE /\ coordFile = TRUE
    /\ prod = [valid |-> TRUE, pc |-> "idle", len |-> 0, given |-> FALSE, cell |-> 1,
               late |-> FALSE]
    /\ cons = NoCall("detached")
    /\ pushed = << >>
    /\ received = << >>

IsEmpty == writeIdx = readIdx

\* Slip: off by one, a full queue takes one more.
IsFullOffByOne == Used(writeIdx, readIdx) > Capacity

IsFull == Used(writeIdx, readIdx) >= Capacity

\* the message DoSend is working on
Current == Len(pushed) + 1

----------------------------------------------------------------------------
\* Producer

\* DoSend returns, whatever its result.
SendReturns ==
    prod' = [prod EXCEPT !.pc = "idle", !.len = 0, !.given = FALSE, !.cell = 1, !.late = FALSE]

\* Slip: the payload is not measured against the buffer.
SendStartUnmeasured(len, given, late) ==
    /\ prod.pc = "idle" /\ prod.valid
    /\ Len(pushed) < MaxSends
    /\ prod' = [prod EXCEPT !.pc = "waiting", !.len = len, !.given = given, !.late = late]
    /\ UNCHANGED <<shm, names, alive, cons, pushed, received>>

\* DoSend up to its loop.  A pointer to a payload of no bytes makes no
\* difference and is not told from nullptr.  A timeout of 0 is a deadline that has passed: the
\* test of timeout_ms and that of the clock are one (see CallsReturn).  A
\* closed producer (kShmClosed) and a payload larger than the buffer (kError)
\* are turned away before anything changes.
SendStart(len, given, late) ==
    /\ given => len > 0
    /\ prod.pc = "idle" /\ prod.valid /\ len <= PayloadSize
    /\ Len(pushed) < MaxSends
    /\ prod' = [prod EXCEPT !.pc = "waiting", !.len = len, !.given = given, !.late = late]
    /\ UNCHANGED <<shm, names, alive, cons, pushed, received>>

\* The clock reaches the deadline of a blocking send.
SendDeadline ==
    /\ prod.pc \in {"waiting", "timing"} /\ ~prod.late
    /\ prod' = [prod EXCEPT !.late = TRUE]
    /\ UNCHANGED <<shm, names, alive, cons, pushed, received>>

\* Slip: the loop waits for nothing.
SendFindsRoomUntested ==
    /\ prod.pc = "waiting"
    /\ prod' = [prod EXCEPT !.pc = IF prod.given /\ prod.len > 0 THEN "copying" ELSE "pushing"]
    /\ UNCHANGED <<shm, names, alive, cons, pushed, received>>

\* while (layout->IsFull()): the loop ends because there is room.
SendFindsRoom ==
    /\ prod.pc = "waiting" /\ ~IsFull
    /\ prod' = [prod EXCEPT !.pc = IF prod.given /\ prod.len > 0 THEN "copying" ELSE "pushing"]
    /\ UNCHANGED <<shm, names, alive, cons, pushed, received>>

\* It goes on because there is none.
SendFindsFull ==
    /\ prod.pc = "waiting" /\ IsFull
    /\ prod' = [prod EXCEPT !.pc = "timing"]
    /\ UNCHANGED <<shm, names, alive, cons, pushed, received>>

\* now >= deadline, room or not by now.
SendGivesUp ==
    /\ prod.pc = "timing" /\ prod.late
    /\ SendReturns
    /\ UNCHANGED <<shm, names, alive, cons, pushed, received>>

\* The brief sleep, and the loop again.
SendSleeps ==
    /\ prod.pc = "timing" /\ ~prod.late
    /\ prod' = [prod EXCEPT !.pc = "waiting"]
    /\ UNCHANGED <<shm, names, alive, cons, pushed, received>>

\* Slip: the copy stops one cell early.
SendCopiesTooLittle ==
    /\ prod.pc = "copying"
    /\ payload' = [payload EXCEPT ![prod.cell] = IF prod.cell < prod.len THEN Current ELSE @]
    /\ prod' = [prod EXCEPT !.cell = @ + 1,
                            !.pc = IF prod.cell = prod.len THEN "pushing" ELSE "copying"]
    /\ UNCHANGED <<writeIdx, readIdx, slots, names, alive, cons, pushed, received>>

\* One cell of the memcpy to GetPayload(0).
SendCopies ==
    /\ prod.pc = "copying"
    /\ payload' = [payload EXCEPT ![prod.cell] = Current]
    /\ prod' = [prod EXCEPT !.cell = @ + 1,
                            !.pc = IF prod.cell = prod.len THEN "pushing" ELSE "copying"]
    /\ UNCHANGED <<writeIdx, readIdx, slots, names, alive, cons, pushed, received>>

\* Push: its own test, and the assignment of the header begins.
PushBegins ==
    /\ prod.pc = "pushing"
    /\ IF IsFull
       THEN SendReturns /\ UNCHANGED slots
       ELSE /\ slots' = [slots EXCEPT ![SlotOf(writeIdx)] = Torn]
            /\ prod' = [prod EXCEPT !.pc = "writing"]
    /\ UNCHANGED <<writeIdx, readIdx, payload, names, alive, cons, pushed, received>>

\* Push: the header is assigned.
PushWrites ==
    /\ prod.pc = "writing"
    /\ slots' = [slots EXCEPT ![SlotOf(writeIdx)] = [id |-> Current, len |-> prod.len]]
    /\ prod' = [prod EXCEPT !.pc = "written"]
    /\ UNCHANGED <<writeIdx, readIdx, payload, names, alive, cons, pushed, received>>

\* Push: the release store, and DoSend returns.
PushPublishes ==
    /\ prod.pc = "written"
    /\ writeIdx' = Advance(writeIdx, 1)
    /\ pushed' = Append(pushed, [len |-> prod.len, given |-> prod.given])
    /\ SendReturns
    /\ UNCHANGED <<readIdx, slots, payload, names, alive, cons, received>>

\* Producer::Cleanup, also from the destructor: the process lives on, the
\* coordination file is deleted and the name of the segment is left alone.
ProducerCleanup ==
    /\ prod.pc = "idle" /\ prod.valid
    /\ prod' = [prod EXCEPT !.valid = FALSE]
    /\ coordFile' = FALSE
    /\ UNCHANGED <<shm, linked, alive, cons, pushed, received>>

\* The producer process dies anywhere, with or without an earlier Cleanup.
ProducerExit ==
    /\ alive
    /\ alive' = FALSE
    /\ prod' = [prod EXCEPT !.pc = "dead", !.len = 0, !.given = FALSE, !.cell = 1, !.late = FALSE]
    /\ UNCHANGED <<shm, names, cons, pushed, received>>

----------------------------------------------------------------------------
\* Consumer

\* DoReceive returns.
ReceiveReturns == cons' = NoCall("idle")

\* Consumer::Attach finds the coordination file, the name and a valid layout.
\* Without one of them nothing changes.
Attach ==
    /\ cons.pc = "detached" /\ coordFile /\ linked
    /\ cons' = NoCall("idle")
    /\ UNCHANGED <<shm, names, alive, prod, pushed, received>>

\* DoReceive up to its loop.
ReceiveStart(late, wanted) ==
    /\ cons.pc = "idle"
    /\ cons' = [cons EXCEPT !.pc = "polling", !.late = late, !.wanted = wanted]
    /\ UNCHANGED <<shm, names, alive, prod, pushed, received>>

ReceiveDeadline ==
    /\ cons.pc \in {"polling", "testing", "timing"} /\ ~cons.late
    /\ cons' = [cons EXCEPT !.late = TRUE]
    /\ UNCHANGED <<shm, names, alive, prod, pushed, received>>

\* "Check producer liveness first".
PollLiveness ==
    /\ cons.pc = "polling"
    /\ IF alive THEN cons' = [cons EXCEPT !.pc = "testing"]
                ELSE ReceiveReturns
    /\ UNCHANGED <<shm, names, alive, prod, pushed, received>>

\* "Check if queue has messages".
TestFindsMessage ==
    /\ cons.pc = "testing" /\ ~IsEmpty
    /\ cons' = [cons EXCEPT !.pc = "rechecking"]
    /\ UNCHANGED <<shm, names, alive, prod, pushed, received>>

TestFindsNone ==
    /\ cons.pc = "testing" /\ IsEmpty
    /\ cons' = [cons EXCEPT !.pc = "timing"]
    /\ UNCHANGED <<shm, names, alive, prod, pushed, received>>

\* Slip: the comparison with the deadline the wrong way round.
TestGivesUpReversed ==
    /\ cons.pc = "timing" /\ ~cons.late
    /\ ReceiveReturns
    /\ UNCHANGED <<shm, names, alive, prod, pushed, received>>

\* Slip: the deadline is tested before the queue.
TestGivesUpFirst ==
    /\ cons.pc = "testing" /\ cons.late
    /\ ReceiveReturns
    /\ UNCHANGED <<shm, names, alive, prod, pushed, received>>

\* now >= deadline, whatever has been pushed since the test.
TestGivesUp ==
    /\ cons.pc = "timing" /\ cons.late
    /\ ReceiveReturns
    /\ UNCHANGED <<shm, names, alive, prod, pushed, received>>

\* The brief sleep, and the loop again.
TestSleeps ==
    /\ cons.pc = "timing" /\ ~cons.late
    /\ cons' = [cons EXCEPT !.pc = "polling"]
    /\ UNCHANGED <<shm, names, alive, prod, pushed, received>>

\* "Re-check producer liveness before accessing shared memory".
RecheckLiveness ==
    /\ cons.pc = "rechecking"
    /\ IF alive THEN cons' = [cons EXCEPT !.pc = "peeking"]
                ELSE ReceiveReturns
    /\ UNCHANGED <<shm, names, alive, prod, pushed, received>>

\* Peek, and the payload length read through the pointer.
Peek ==
    /\ cons.pc = "peeking"
    /\ IF IsEmpty
       THEN ReceiveReturns
       ELSE LET len == slots[SlotOf(readIdx)].len
            IN  cons' = [cons EXCEPT !.read = readIdx, !.len = len,
                             !.pc = IF len > 0 /\ cons.wanted THEN "copying" ELSE "popping"]
    /\ UNCHANGED <<shm, names, alive, prod, pushed, received>>

\* One cell of the memcpy from GetPayload(0).
ReceiveCopies ==
    /\ cons.pc = "copying"
    /\ cons' = [cons EXCEPT !.buffer[cons.cell] = payload[cons.cell],
                    !.cell = @ + 1,
                    !.pc = IF cons.cell = cons.len THEN "popping" ELSE "copying"]
    /\ UNCHANGED <<shm, names, alive, prod, pushed, received>>

\* Slip: the index is not stored.
PopForgetsStore ==
    /\ cons.pc = "popping"
    /\ IF IsEmpty THEN ReceiveReturns
                  ELSE cons' = [cons EXCEPT !.pc = "returning"]
    /\ UNCHANGED <<shm, names, alive, prod, pushed, received>>

\* Pop: the slot is the producer's again.
Pop ==
    /\ cons.pc = "popping"
    /\ IF IsEmpty
       THEN ReceiveReturns /\ UNCHANGED readIdx
       ELSE /\ readIdx' = Advance(readIdx, 1)
            /\ cons' = [cons EXCEPT !.pc = "returning"]
    /\ UNCHANGED <<writeIdx, slots, payload, names, alive, prod, pushed, received>>

\* return *header: the pointer of Peek is read after Pop.
ReceiveCompletes ==
    /\ cons.pc = "returning"
    /\ received' = Append(received, [at |-> readIdx,
                                     header |-> slots[SlotOf(cons.read)],
                                     wanted |-> cons.wanted,
                                     body |-> cons.buffer])
    /\ ReceiveReturns
    /\ UNCHANGED <<shm, names, alive, prod, pushed>>

\* Consumer::Cleanup, also from the destructor: the name goes, the producer
\* keeps its mapping.  A Receive afterwards returns nullopt at once.
ConsumerCleanup ==
    /\ cons.pc = "idle"
    /\ cons' = NoCall("closed")
    /\ linked' = FALSE
    /\ UNCHANGED <<shm, coordFile, alive, prod, pushed, received>>

\* The consumer process dies anywhere; another one may attach.
ConsumerCrash ==
    /\ cons.pc \notin {"detached", "closed"}
    /\ cons' = NoCall("detached")
    /\ UNCHANGED <<shm, names, alive, prod, pushed, received>>

----------------------------------------------------------------------------
\* The steps a running call takes by itself.
SendStep ==
    \/ SendFindsRoom \/ SendFindsFull \/ SendGivesUp \/ SendSleeps
    \/ SendCopies \/ PushBegins \/ PushWrites \/ PushPublishes

ReceiveStep ==
    \/ PollLiveness \/ TestFindsMessage \/ TestFindsNone \/ TestGivesUp \/ TestSleeps
    \/ RecheckLiveness \/ Peek \/ ReceiveCopies \/ Pop \/ ReceiveCompletes

Next ==
    \/ SendStep
    \/ ReceiveStep
    \/ SendDeadline \/ ReceiveDeadline
    \/ \E len \in Lengths, given, late \in BOOLEAN : SendStart(len, given, late)
    \/ \E late, wanted \in BOOLEAN : ReceiveStart(late, wanted)
    \/ Attach
    \/ ProducerCleanup \/ ProducerExit
    \/ ConsumerCleanup \/ ConsumerCrash

\* The scheduler runs both threads and time passes.  Nobody has to start a
\* call, and a process may die at any moment.
Fairness ==
    /\ WF_vars(SendStep)
    /\ WF_vars(ReceiveStep)
    /\ WF_vars(SendDeadline)
    /\ WF_vars(ReceiveDeadline)

Spec == Init /\ [][Next]_vars /\ Fairness

----------------------------------------------------------------------------
\* The header of the k-th message, as it was given to Push.
HeaderOf(k) == [id |-> k, len |-> pushed[k].len]

\* What a received record says it is, as it was sent.  There is a payload if
\* both sides gave a pointer.
Intact(r) ==
    /\ r.header = HeaderOf(r.at)
    /\ pushed[r.at].given /\ r.wanted =>
           \A c \in 1 .. pushed[r.at].len : r.body[c] = r.at

\* where a send has touched nothing yet
Untouching == {"idle", "waiting", "timing"}

(***************************************************************************)
(* A message that was pushed and not popped keeps its place and its        *)
(* header, whichever of the two processes dies, detaches or cleans up at   *)
(* whatever point, and also when another consumer takes over.              *)
(***************************************************************************)
QueuedHeadersSurvive ==
    /\ Used(writeIdx, readIdx) = Len(pushed) - readIdx
    /\ Used(writeIdx, readIdx) <= Capacity
    /\ \A k \in readIdx + 1 .. Len(pushed) : slots[SlotOf(k - 1)] = HeaderOf(k)

(***************************************************************************)
(* The test that ended a loop still holds when it is used: a send that saw *)
(* room is never refused by Push, a receive that saw a message never finds *)
(* Peek or Pop empty-handed, although neither holds a lock in between.     *)
(***************************************************************************)
LoopTestsStayTrue ==
    /\ prod.pc \in {"copying", "pushing", "writing", "written"} => ~IsFull
    /\ cons.pc \in {"rechecking", "peeking", "copying", "popping"} => ~IsEmpty

(***************************************************************************)
(* Used one message at a time the channel is right: a message that was     *)
(* received while no later one had been begun has its own header and its   *)
(* own payload.                                                            *)
(***************************************************************************)
LoneMessageIntact ==
    \A i \in DOMAIN received :
        received[i].at = Len(pushed) /\ prod.pc \in Untouching
            => Intact(received[i])

(***************************************************************************)
(* Every position of the queue is handed out at most once and in order,    *)
(* also when a consumer dies inside DoReceive and its successor carries    *)
(* on; and no position is handed out that was not reached.                 *)
(***************************************************************************)
PositionsHandedOutOnce ==
    /\ \A i \in DOMAIN received : received[i].at <= readIdx
    /\ \A i, j \in DOMAIN received : i < j => received[i].at < received[j].at

(***************************************************************************)
(* A call with a timeout returns, unless its process dies: a sender facing *)
(* a full queue nobody empties, a receiver whose producer is silent, gone, *)
(* or goes away while it waits.  A timeout of 0 is no exception: the       *)
(* headers document it as "0 = no timeout" (phoenix_consumer.hpp:77,       *)
(* phoenix_producer.hpp:85), while DoReceive and DoSend give up at the     *)
(* first test then.  The property states what they do.                     *)
(***************************************************************************)
CallsReturn ==
    /\ prod.pc = "waiting" ~> prod.pc \in {"idle", "dead"}
    /\ cons.pc = "polling" ~> cons.pc \in {"idle", "detached"}

(***************************************************************************)
(* phoenix_consumer.hpp:70 has a Receive return nullopt if the queue is    *)
(* empty, while DoReceive also does so when it finds the producer's        *)
(* process gone, messages queued or not.  Those are the only reasons: with *)
(* a message queued a Receive returns one, also the one whose deadline has *)
(* passed before it looks, unless one of the two processes dies.           *)
(***************************************************************************)
ReceiveFindsMessage ==
    \A n \in 0 .. MaxSends :
        cons.pc = "polling" /\ ~IsEmpty /\ Len(received) = n
            ~> Len(received) > n \/ ~alive \/ cons.pc = "detached"

----------------------------------------------------------------------------
\* What the interface documentation promises

(***************************************************************************)
(* "Messages are received in FIFO order" (phoenix_consumer.hpp:42): the    *)
(* headers DoReceive returns have increasing identities.                   *)
(***************************************************************************)
ReceivedInFifoOrder ==
    \A i, j \in DOMAIN received :
        i < j => received[i].header.id < received[j].header.id
=============================================================================
