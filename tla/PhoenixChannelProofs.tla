-------------------------- MODULE PhoenixChannelProofs --------------------------
(***************************************************************************)
(* The safety properties of module PhoenixChannel for every capacity of    *)
(* the queue, every size of the payload buffer and any number of messages. *)
(*                                                                         *)
(* Neither process holds a lock between the tests of its loop and their    *)
(* use.  What makes that right is that each moves one index only: the      *)
(* room a producer has seen can only grow, the message a consumer has seen *)
(* can only be joined by others.  Positions says so, the other invariants  *)
(* say what is in the slots, in the payload buffer and in the consumer's   *)
(* buffer, each given those before it.                                     *)
(***************************************************************************)
EXTENDS PhoenixChannel, RingIndexProofs

(* Where the producer has seen room, where the consumer has seen a         *)
(* message, and where it uses the pointer Peek gave it.                    *)
Sending == {"copying", "pushing", "writing", "written"}
Seeing  == {"rechecking", "peeking", "copying", "popping"}
Taking  == {"copying", "popping", "returning"}

(* The indices count messages; they do not overtake each other.            *)
Positions ==
    /\ Len(pushed) = writeIdx /\ writeIdx <= MaxSends
    /\ prod.pc \notin {"idle", "dead"} => writeIdx < MaxSends
    /\ readIdx <= writeIdx /\ writeIdx - readIdx <= Capacity
    /\ prod.pc \in Sending => writeIdx - readIdx < Capacity
    /\ cons.pc \in Seeing => readIdx < writeIdx

(* Both copies begin at the first cell and stay within the message, and    *)
(* the consumer's pointer is to the message at the read index, or just     *)
(* before it once Pop has moved that.                                      *)
Cursors ==
    /\ prod.pc \in Untouching => prod.cell = 1
    /\ prod.pc = "copying" => prod.cell <= prod.len
    /\ cons.pc \notin Taking => cons.cell = 1
    /\ cons.pc = "copying" => cons.cell <= cons.len
    /\ cons.pc \in {"copying", "popping"} => cons.read = readIdx
    /\ cons.pc = "returning" => cons.read + 1 = readIdx

(* What was handed out lies behind the read index, strictly while a Pop    *)
(* that has moved the index is about to hand out its own.                  *)
Handed ==
    \A i \in DOMAIN received :
        /\ received[i].at <= readIdx
        /\ cons.pc = "returning" => received[i].at < readIdx
        /\ \A j \in DOMAIN received : i < j => received[i].at < received[j].at

(* The slots of the queued messages, the slot being published, and the     *)
(* slot of the last message, which stays until the next header is assigned.*)
SlotsHold ==
    /\ \A k \in readIdx + 1 .. writeIdx : slots[SlotOf(k - 1)] = HeaderOf(k)
    /\ prod.pc = "written" => slots[SlotOf(writeIdx)] = [id |-> writeIdx + 1, len |-> prod.len]
    /\ writeIdx > 0 /\ prod.pc \in Untouching \cup {"copying", "pushing"}
           => slots[SlotOf(writeIdx - 1)] = HeaderOf(writeIdx)

(* The payload buffer is the last message's, or the one's being sent, if   *)
(* that has a payload.                                                     *)
PayloadHolds ==
    /\ writeIdx > 0 /\ prod.pc \in Untouching /\ pushed[writeIdx].given
           => \A c \in 1 .. pushed[writeIdx].len : payload[c] = writeIdx
    /\ prod.pc = "copying" => \A c \in 1 .. prod.cell - 1 : payload[c] = writeIdx + 1
    /\ prod.pc \in {"pushing", "writing", "written"} /\ prod.given
           => \A c \in 1 .. prod.len : payload[c] = writeIdx + 1

(* The consumer works with the length of the message it points to, and     *)
(* what it has copied is the last message's if that is the one.            *)
BufferHolds ==
    cons.pc \in Taking =>
        /\ cons.len = pushed[cons.read + 1].len
        /\ /\ cons.read + 1 = writeIdx /\ prod.pc \in Untouching
           /\ pushed[cons.read + 1].given /\ cons.wanted
           => \A c \in 1 .. cons.len :
                   cons.pc # "copying" \/ c < cons.cell => cons.buffer[c] = writeIdx
-----------------------------------------------------------------------------
(* What a step can do, for all actions at once.  The invariants follow     *)
(* from these facts and never look at an action again.                     *)

ProducerStays ==
    /\ UNCHANGED <<writeIdx, slots, payload, pushed>>
    /\ \/ prod'.pc = "dead"
       \/ /\ prod'.pc = prod.pc /\ prod'.len = prod.len
          /\ prod'.given = prod.given /\ prod'.cell = prod.cell

ProducerBegins ==
    /\ prod.pc = "idle" /\ prod'.pc = "waiting" /\ prod'.cell = prod.cell
    /\ writeIdx < MaxSends
    /\ UNCHANGED <<writeIdx, slots, payload, pushed>>

ProducerLoops ==
    /\ prod.pc \in {"waiting", "timing"} /\ prod'.pc \in {"waiting", "timing"}
    /\ prod'.cell = prod.cell
    /\ UNCHANGED <<writeIdx, slots, payload, pushed>>

ProducerFindsRoom ==
    /\ prod.pc = "waiting" /\ writeIdx - readIdx < Capacity
    /\ prod'.pc = IF prod.given /\ prod.len > 0 THEN "copying" ELSE "pushing"
    /\ prod'.len = prod.len /\ prod'.given = prod.given /\ prod'.cell = prod.cell
    /\ UNCHANGED <<writeIdx, slots, payload, pushed>>

ProducerGivesUp ==
    /\ prod.pc = "timing" /\ prod'.pc = "idle" /\ prod'.cell = 1
    /\ UNCHANGED <<writeIdx, slots, payload, pushed>>

ProducerCopies ==
    /\ prod.pc = "copying"
    /\ payload' = [payload EXCEPT ![prod.cell] = writeIdx + 1]
    /\ prod'.pc = IF prod.cell = prod.len THEN "pushing" ELSE "copying"
    /\ prod'.len = prod.len /\ prod'.given = prod.given /\ prod'.cell = prod.cell + 1
    /\ UNCHANGED <<writeIdx, slots, pushed>>

ProducerOpensSlot ==
    /\ prod.pc = "pushing" /\ prod'.pc = "writing"
    /\ prod'.len = prod.len /\ prod'.given = prod.given
    /\ slots' = [slots EXCEPT ![SlotOf(writeIdx)] = Torn]
    /\ UNCHANGED <<writeIdx, payload, pushed>>

ProducerWrites ==
    /\ prod.pc = "writing" /\ prod'.pc = "written"
    /\ prod'.len = prod.len /\ prod'.given = prod.given
    /\ slots' = [slots EXCEPT ![SlotOf(writeIdx)] = [id |-> writeIdx + 1, len |-> prod.len]]
    /\ UNCHANGED <<writeIdx, payload, pushed>>

ProducerPublishes ==
    /\ prod.pc = "written" /\ prod'.pc = "idle" /\ prod'.cell = 1
    /\ writeIdx' = writeIdx + 1
    /\ pushed' = Append(pushed, [len |-> prod.len, given |-> prod.given])
    /\ UNCHANGED <<slots, payload>>

ProducerMoves ==
    /\ UNCHANGED <<readIdx, cons, received>>
    /\ \/ ProducerStays \/ ProducerBegins \/ ProducerLoops \/ ProducerFindsRoom
       \/ ProducerGivesUp \/ ProducerCopies \/ ProducerOpensSlot \/ ProducerWrites
       \/ ProducerPublishes

ConsumerLooks ==
    /\ cons'.pc \notin Taking /\ cons'.cell = 1
    /\ cons'.pc \in Seeing => readIdx < writeIdx
    /\ UNCHANGED <<readIdx, received>>

ConsumerTakes ==
    /\ cons.pc = "peeking" /\ readIdx < writeIdx
    /\ cons'.read = readIdx /\ cons'.len = slots[SlotOf(readIdx)].len
    /\ cons'.wanted = cons.wanted /\ cons'.cell = 1
    /\ cons'.pc = IF cons'.len > 0 /\ cons.wanted THEN "copying" ELSE "popping"
    /\ UNCHANGED <<readIdx, received>>

ConsumerCopies ==
    /\ cons.pc = "copying"
    /\ cons'.read = cons.read /\ cons'.len = cons.len
    /\ cons'.wanted = cons.wanted /\ cons'.cell = cons.cell + 1
    /\ cons'.buffer = [cons.buffer EXCEPT ![cons.cell] = payload[cons.cell]]
    /\ cons'.pc = IF cons.cell = cons.len THEN "popping" ELSE "copying"
    /\ UNCHANGED <<readIdx, received>>

ConsumerPops ==
    /\ cons.pc = "popping" /\ cons'.pc = "returning"
    /\ cons'.read = cons.read /\ cons'.len = cons.len
    /\ cons'.wanted = cons.wanted /\ cons'.buffer = cons.buffer
    /\ readIdx' = readIdx + 1
    /\ UNCHANGED received

ConsumerReturns ==
    /\ cons.pc = "returning" /\ cons'.pc = "idle" /\ cons'.cell = 1
    /\ received' = Append(received, [at |-> readIdx,
                                     header |-> slots[SlotOf(cons.read)],
                                     wanted |-> cons.wanted,
                                     body |-> cons.buffer])
    /\ UNCHANGED readIdx

ConsumerMoves ==
    /\ UNCHANGED <<writeIdx, slots, payload, prod, pushed>>
    /\ \/ ConsumerLooks \/ ConsumerTakes \/ ConsumerCopies
       \/ ConsumerPops \/ ConsumerReturns

Moves == ProducerMoves \/ ConsumerMoves

(* The tests and the stores in linear arithmetic: below MaxSends no index  *)
(* wraps.                                                                  *)
LEMMA Linear ==
    ASSUME TypeOK, Positions
    PROVE  /\ Used(writeIdx, readIdx) = writeIdx - readIdx
           /\ IsFull <=> writeIdx - readIdx >= Capacity
           /\ IsEmpty <=> ~(readIdx < writeIdx)
           /\ Current = writeIdx + 1
           /\ writeIdx < MaxSends => Advance(writeIdx, 1) = writeIdx + 1
           /\ readIdx < writeIdx => Advance(readIdx, 1) = readIdx + 1
<1>1. writeIdx \in Index /\ readIdx \in Index /\ writeIdx \in Nat /\ readIdx \in Nat
  BY IndexRangeAssumption DEF TypeOK, Index
<1>2. Used(writeIdx, readIdx) = writeIdx - readIdx
  BY <1>1, UsedLinear DEF Positions
<1>3. MaxSends \in Nat /\ MaxSends < IndexRange /\ IndexRange \in Nat /\ 1 \in 0 .. IndexRange
  BY MaxSendsAssumption, IndexRangeAssumption, CapacityAssumption
<1>4. writeIdx < MaxSends => Advance(writeIdx, 1) = writeIdx + 1
  BY <1>1, <1>3, AdvanceLinear
<1>5. readIdx < writeIdx => Advance(readIdx, 1) = readIdx + 1
  BY <1>1, <1>3, AdvanceLinear DEF Positions
<1> QED
  BY <1>1, <1>2, <1>4, <1>5 DEF IsFull, IsEmpty, Current, Positions

(* The fields have the types of TypeOK.                                    *)
LEMMA FieldTypes ==
    ASSUME TypeOK
    PROVE  /\ writeIdx \in Nat /\ readIdx \in Nat
           /\ prod.len \in Nat /\ prod.cell \in Nat
           /\ cons.len \in Nat /\ cons.cell \in Nat /\ cons.read \in Nat
           /\ pushed \in Seq(Payload) /\ received \in Seq(Received)
           /\ SlotOf(writeIdx) \in Slot /\ SlotOf(readIdx) \in Slot
           /\ SlotOf(cons.read) \in Slot
<1>1. writeIdx \in Nat /\ readIdx \in Nat
  BY IndexRangeAssumption DEF TypeOK, Index
<1>2. prod.len \in Nat /\ prod.cell \in Nat
  BY PayloadSizeAssumption DEF TypeOK, ProducerState, Cells
<1>3. cons.len \in Nat /\ cons.cell \in Nat /\ cons.read \in Nat
  BY PayloadSizeAssumption, IndexRangeAssumption DEF TypeOK, ConsumerState, Cells, Index
<1>4. SlotOf(writeIdx) \in Slot /\ SlotOf(readIdx) \in Slot /\ SlotOf(cons.read) \in Slot
  BY <1>1, <1>3, SlotOfInSlot
<1>5. pushed \in Seq(Payload) /\ received \in Seq(Received)
  BY DEF TypeOK
<1> QED
  BY <1>1, <1>2, <1>3, <1>4, <1>5

(* Outside a call the consumer has no message in its hands.                *)
LEMMA NoCallFields ==
    ASSUME NEW pc
    PROVE  NoCall(pc).pc = pc /\ NoCall(pc).cell = 1
  BY DEF NoCall

(* Every step is one of the moves.                                         *)
LEMMA SendStepMoves ==
    ASSUME TypeOK, Positions, SendStep
    PROVE  ProducerMoves
<1> USE Linear, FieldTypes
<1>1. prod = [valid |-> prod.valid, pc |-> prod.pc, len |-> prod.len,
              given |-> prod.given, cell |-> prod.cell, late |-> prod.late]
  BY DEF TypeOK, ProducerState
<1>2. CASE SendFindsFull \/ SendSleeps
  BY <1>1, <1>2 DEF SendFindsFull, SendSleeps, ProducerMoves, ProducerLoops, shm
<1>3. CASE SendFindsRoom
  <2>1. writeIdx - readIdx < Capacity
    BY <1>3, CapacityAssumption DEF SendFindsRoom
  <2> QED
    BY <1>1, <1>3, <2>1 DEF SendFindsRoom, ProducerMoves, ProducerFindsRoom, shm
<1>4. CASE SendGivesUp
  BY <1>1, <1>4 DEF SendGivesUp, SendReturns, ProducerMoves, ProducerGivesUp, shm
<1>5. CASE SendCopies
  BY <1>1, <1>5 DEF SendCopies, ProducerMoves, ProducerCopies
<1>6. CASE PushBegins
  <2>1. ~IsFull
    BY <1>6, CapacityAssumption DEF PushBegins, Positions, Sending
  <2> QED
    BY <1>1, <1>6, <2>1 DEF PushBegins, ProducerMoves, ProducerOpensSlot
<1>7. CASE PushWrites
  BY <1>1, <1>7 DEF PushWrites, ProducerMoves, ProducerWrites
<1>8. CASE PushPublishes
  <2>1. Advance(writeIdx, 1) = writeIdx + 1
    BY <1>8 DEF PushPublishes, Positions
  <2> QED
    BY <1>1, <1>8, <2>1 DEF PushPublishes, SendReturns, ProducerMoves, ProducerPublishes
<1> QED
  BY <1>2, <1>3, <1>4, <1>5, <1>6, <1>7, <1>8 DEF SendStep

(* A step inside DoReceive is a move of the consumer.                      *)
LEMMA ReceiveStepMoves ==
    ASSUME TypeOK, Positions, Cursors, ReceiveStep
    PROVE  ConsumerMoves
<1> USE Linear, FieldTypes, NoCallFields DEF shm
<1>1. cons = [pc |-> cons.pc, late |-> cons.late, wanted |-> cons.wanted, read |-> cons.read,
              len |-> cons.len, cell |-> cons.cell, buffer |-> cons.buffer]
  BY DEF TypeOK, ConsumerState
<1>2. cons.pc \notin Taking => cons.cell = 1
  BY DEF Cursors
<1>3. CASE PollLiveness
  BY <1>1, <1>2, <1>3 DEF PollLiveness, ReceiveReturns, ConsumerMoves, ConsumerLooks, Taking, Seeing
<1>4. CASE TestFindsMessage
  BY <1>1, <1>2, <1>4 DEF TestFindsMessage, ConsumerMoves, ConsumerLooks, Taking, Seeing
<1>12. CASE TestFindsNone
  BY <1>1, <1>2, <1>12 DEF TestFindsNone, ConsumerMoves, ConsumerLooks, Taking, Seeing
<1>5. CASE TestGivesUp
  BY <1>5 DEF TestGivesUp, ReceiveReturns, ConsumerMoves, ConsumerLooks, Taking, Seeing
<1>6. CASE TestSleeps
  BY <1>1, <1>2, <1>6 DEF TestSleeps, ConsumerMoves, ConsumerLooks, Taking, Seeing
<1>7. CASE RecheckLiveness
  <2>1. readIdx < writeIdx
    BY <1>7 DEF RecheckLiveness, Positions, Seeing
  <2> QED
    BY <1>1, <1>2, <1>7, <2>1
       DEF RecheckLiveness, ReceiveReturns, ConsumerMoves, ConsumerLooks, Taking, Seeing
<1>8. CASE Peek
  <2>1. readIdx < writeIdx /\ cons.pc = "peeking" /\ cons.cell = 1
    BY <1>2, <1>8 DEF Peek, Positions, Seeing, Taking
  <2> QED
    BY <1>1, <1>8, <2>1 DEF Peek, ConsumerMoves, ConsumerTakes
<1>9. CASE ReceiveCopies
  BY <1>1, <1>9 DEF ReceiveCopies, ConsumerMoves, ConsumerCopies
<1>10. CASE Pop
  <2>1. readIdx < writeIdx /\ Advance(readIdx, 1) = readIdx + 1
    BY <1>10 DEF Pop, Positions, Seeing
  <2> QED
    BY <1>1, <1>10, <2>1 DEF Pop, ConsumerMoves, ConsumerPops
<1>11. CASE ReceiveCompletes
  BY <1>11 DEF ReceiveCompletes, ReceiveReturns, ConsumerMoves, ConsumerReturns
<1> QED
  BY <1>3, <1>4, <1>5, <1>6, <1>7, <1>8, <1>9, <1>10, <1>11, <1>12 DEF ReceiveStep

(* Every step is one of the moves.                                         *)
LEMMA StepMoves ==
    ASSUME TypeOK, Positions, Cursors, [Next]_vars
    PROVE  Moves
<1> USE FieldTypes, NoCallFields DEF shm, Moves
<1>1. prod = [valid |-> prod.valid, pc |-> prod.pc, len |-> prod.len,
              given |-> prod.given, cell |-> prod.cell, late |-> prod.late]
  BY DEF TypeOK, ProducerState
<1>2. cons = [pc |-> cons.pc, late |-> cons.late, wanted |-> cons.wanted, read |-> cons.read,
              len |-> cons.len, cell |-> cons.cell, buffer |-> cons.buffer]
  BY DEF TypeOK, ConsumerState
<1>3. cons.pc \notin Taking => cons.cell = 1
  BY DEF Cursors
<1>4. CASE UNCHANGED vars
  BY <1>4 DEF vars, ProducerMoves, ProducerStays
<1>5. CASE ReceiveDeadline
  BY <1>2, <1>3, <1>5 DEF ReceiveDeadline, ConsumerMoves, ConsumerLooks, Taking, Seeing
<1>13. CASE SendDeadline
  BY <1>1, <1>13 DEF SendDeadline, ProducerMoves, ProducerStays
<1>6. ASSUME NEW len, NEW given, NEW late, SendStart(len, given, late) PROVE ProducerMoves
  BY <1>1, <1>6, Linear DEF SendStart, Current, Positions, ProducerMoves, ProducerBegins
<1>7. ASSUME NEW late, NEW wanted, ReceiveStart(late, wanted) PROVE ConsumerMoves
  BY <1>2, <1>3, <1>7 DEF ReceiveStart, ConsumerMoves, ConsumerLooks, Taking, Seeing
<1>8. CASE Attach
  BY <1>8 DEF Attach, ConsumerMoves, ConsumerLooks, Taking, Seeing
<1>9. CASE ProducerCleanup
  BY <1>1, <1>9 DEF ProducerCleanup, ProducerMoves, ProducerStays
<1>10. CASE ProducerExit
  BY <1>1, <1>10 DEF ProducerExit, ProducerMoves, ProducerStays
<1>11. CASE ConsumerCleanup
  BY <1>11 DEF ConsumerCleanup, ConsumerMoves, ConsumerLooks, Taking, Seeing
<1>12. CASE ConsumerCrash
  BY <1>12 DEF ConsumerCrash, ConsumerMoves, ConsumerLooks, Taking, Seeing
<1> QED
  BY <1>4, <1>5, <1>6, <1>7, <1>8, <1>9, <1>10, <1>11, <1>12, <1>13, SendStepMoves,
     ReceiveStepMoves DEF Next
-----------------------------------------------------------------------------
(* The invariants, each kept by a step given those before it.              *)

(* Each process moves its own index only, and only after its test.         *)
LEMMA PositionsStep ==
    ASSUME TypeOK, Positions, Moves
    PROVE  Positions'
<1> USE FieldTypes, CapacityAssumption, MaxSendsAssumption
<1>1. ASSUME ProducerMoves, UNCHANGED <<writeIdx, pushed>> PROVE Positions'
  BY <1>1 DEF Positions, Sending, Seeing, ProducerMoves, ProducerStays, ProducerBegins,
              ProducerLoops, ProducerFindsRoom, ProducerGivesUp, ProducerCopies, ProducerOpensSlot,
              ProducerWrites, ProducerPublishes
<1>2. ASSUME ProducerMoves, ProducerPublishes PROVE Positions'
  <2>1. Len(pushed') = Len(pushed) + 1
    BY <1>2 DEF ProducerPublishes
  <2> QED
    BY <1>2, <2>1 DEF Positions, Sending, Seeing, ProducerMoves, ProducerPublishes
<1>3. ASSUME ConsumerMoves PROVE Positions'
  BY <1>3 DEF Positions, Sending, Seeing, Taking, ConsumerMoves, ConsumerLooks, ConsumerTakes,
              ConsumerCopies, ConsumerPops, ConsumerReturns
<1>4. ProducerMoves => ProducerPublishes \/ UNCHANGED <<writeIdx, pushed>>
  BY DEF ProducerMoves, ProducerStays, ProducerBegins, ProducerLoops, ProducerFindsRoom,
         ProducerGivesUp, ProducerCopies, ProducerOpensSlot, ProducerWrites
<1> QED
  BY <1>1, <1>2, <1>3, <1>4 DEF Moves

(* Both copies start over with every call.                                 *)
LEMMA CursorsStep ==
    ASSUME TypeOK, Cursors, Moves
    PROVE  Cursors'
<1> USE FieldTypes
<1>1. ASSUME ProducerMoves PROVE Cursors'
  BY <1>1 DEF Cursors, Untouching, ProducerMoves, ProducerStays, ProducerBegins,
              ProducerLoops, ProducerFindsRoom, ProducerGivesUp, ProducerCopies, ProducerOpensSlot,
              ProducerWrites,
              ProducerPublishes
<1>2. ASSUME ConsumerMoves PROVE Cursors'
  <2>1. prod' = prod
    BY <1>2 DEF ConsumerMoves
  <2>2. CASE ConsumerLooks
    BY <2>1, <2>2 DEF Cursors, Taking, ConsumerLooks
  <2>3. CASE ConsumerTakes
    <3>1. slots[SlotOf(readIdx)].len \in Nat
      BY DEF TypeOK, Header, Torn
    <3> QED
      BY <2>1, <2>3, <3>1 DEF Cursors, Taking, ConsumerTakes
  <2>4. CASE ConsumerCopies
    BY <2>1, <2>4 DEF Cursors, Taking, ConsumerCopies
  <2>5. CASE ConsumerPops
    BY <2>1, <2>5 DEF Cursors, Taking, ConsumerPops
  <2>6. CASE ConsumerReturns
    BY <2>1, <2>6 DEF Cursors, Taking, ConsumerReturns
  <2> QED
    BY <1>2, <2>2, <2>3, <2>4, <2>5, <2>6 DEF ConsumerMoves
<1> QED
  BY <1>1, <1>2 DEF Moves

(* What DoReceive hands out lies behind everything it handed out before.   *)
LEMMA HandedStep ==
    ASSUME TypeOK, Cursors, Handed, Moves
    PROVE  Handed'
<1> USE FieldTypes
<1>1. \A i \in DOMAIN received : received[i] \in Received /\ received[i].at \in Int
  <2>1. \A i \in DOMAIN received : received[i] \in Received
    OBVIOUS
  <2> QED
    BY <2>1, MaxSendsAssumption DEF Received
<1>2. ASSUME UNCHANGED received,
             \/ readIdx' = readIdx /\ (cons'.pc = "returning" => cons.pc = "returning")
             \/ readIdx' = readIdx + 1
      PROVE  Handed'
  BY <1>1, <1>2 DEF Handed
<1>3. ASSUME ConsumerReturns PROVE Handed'
  <2> DEFINE r == [at |-> readIdx, header |-> slots[SlotOf(cons.read)],
                    wanted |-> cons.wanted, body |-> cons.buffer]
  <2>1. /\ received' = Append(received, r) /\ r.at = readIdx
        /\ readIdx' = readIdx /\ cons.pc = "returning" /\ cons'.pc # "returning"
    BY <1>3 DEF ConsumerReturns
  <2> HIDE DEF r
  <2>2. /\ DOMAIN received' = 1 .. Len(received) + 1
        /\ DOMAIN received = 1 .. Len(received) /\ Len(received) \in Nat
        /\ \A i \in DOMAIN received : received'[i] = received[i]
        /\ received'[Len(received) + 1] = r
    BY <2>1
  <2> QED
    BY <1>1, <2>1, <2>2 DEF Handed
<1>4. ProducerMoves => UNCHANGED <<received, readIdx, cons>>
  BY DEF ProducerMoves
<1>5. ConsumerMoves => \/ ConsumerReturns
                       \/ /\ UNCHANGED received
                          /\ \/ readIdx' = readIdx /\ cons'.pc # "returning"
                             \/ readIdx' = readIdx + 1
  BY DEF ConsumerMoves, ConsumerLooks, ConsumerTakes, ConsumerCopies, ConsumerPops, Taking
<1> QED
  BY <1>2, <1>3, <1>4, <1>5 DEF Moves

(* A slot is only assigned to where no message is queued.                  *)
LEMMA SlotsHoldStep ==
    ASSUME TypeOK, Positions, SlotsHold, Moves
    PROVE  SlotsHold'
<1> USE FieldTypes
<1>1. slots \in [Slot -> Header \cup {Torn}]
  BY DEF TypeOK
<1>2. \A k \in 1 .. writeIdx : k - 1 \in Nat /\ k \in DOMAIN pushed
  BY DEF Positions
<1>3. ASSUME ProducerMoves, UNCHANGED <<writeIdx, slots, pushed>>,
             prod'.pc # "written" \/ (prod.pc = "written" /\ prod'.len = prod.len),
             prod'.pc \in Untouching \cup {"copying", "pushing"}
                 => prod.pc \in Untouching \cup {"copying", "pushing"}
      PROVE  SlotsHold'
  BY <1>3 DEF SlotsHold, HeaderOf, ProducerMoves
<1>4. ASSUME NEW h, slots' = [slots EXCEPT ![SlotOf(writeIdx)] = h],
             UNCHANGED <<writeIdx, readIdx, pushed>>, writeIdx - readIdx < Capacity
      PROVE  \A k \in readIdx + 1 .. writeIdx : slots'[SlotOf(k - 1)] = HeaderOf(k)
  <2> SUFFICES ASSUME NEW k \in readIdx + 1 .. writeIdx
               PROVE  slots'[SlotOf(k - 1)] = HeaderOf(k)
    OBVIOUS
  <2>1. k - 1 \in Nat /\ k - 1 < writeIdx /\ writeIdx - (k - 1) < Capacity
    BY <1>4, CapacityAssumption
  <2>2. SlotOf(k - 1) # SlotOf(writeIdx) /\ SlotOf(k - 1) \in Slot
    BY <2>1, SlotOfApart, SlotOfInSlot
  <2>3. slots[SlotOf(k - 1)] = HeaderOf(k)
    BY DEF SlotsHold
  <2> QED
    BY <1>1, <1>4, <2>2, <2>3
<1>5. ASSUME ProducerMoves, ProducerOpensSlot PROVE SlotsHold'
  <2>1. \A k \in readIdx + 1 .. writeIdx : slots'[SlotOf(k - 1)] = HeaderOf(k)
    BY <1>4, <1>5 DEF ProducerMoves, ProducerOpensSlot, Positions, Sending
  <2> QED
    BY <1>5, <2>1 DEF SlotsHold, HeaderOf, Untouching, ProducerMoves, ProducerOpensSlot
<1>6. ASSUME ProducerMoves, ProducerWrites PROVE SlotsHold'
  <2>1. \A k \in readIdx + 1 .. writeIdx : slots'[SlotOf(k - 1)] = HeaderOf(k)
    BY <1>4, <1>6 DEF ProducerMoves, ProducerWrites, Positions, Sending
  <2>2. slots'[SlotOf(writeIdx)] = [id |-> writeIdx + 1, len |-> prod.len]
    BY <1>1, <1>6 DEF ProducerWrites
  <2> QED
    BY <1>6, <2>1, <2>2 DEF SlotsHold, HeaderOf, Untouching, ProducerMoves, ProducerWrites
<1>7. ASSUME ProducerMoves, ProducerPublishes PROVE SlotsHold'
  <2>1. /\ Len(pushed) = writeIdx
        /\ \A k \in 1 .. writeIdx : pushed'[k] = pushed[k]
        /\ pushed'[writeIdx + 1].len = prod.len
    BY <1>7 DEF ProducerPublishes, Positions
  <2>2. slots[SlotOf(writeIdx)] = [id |-> writeIdx + 1, len |-> pushed'[writeIdx + 1].len]
    BY <1>7, <2>1 DEF ProducerPublishes, SlotsHold
  <2>3. ASSUME NEW k \in readIdx + 1 .. writeIdx
        PROVE  slots[SlotOf(k - 1)] = [id |-> k, len |-> pushed'[k].len]
    BY <2>1 DEF SlotsHold, HeaderOf
  <2>4. ASSUME NEW k \in readIdx + 1 .. writeIdx + 1
        PROVE  slots[SlotOf(k - 1)] = [id |-> k, len |-> pushed'[k].len]
    <3>1. CASE k = writeIdx + 1
      BY <2>2, <3>1
    <3>2. CASE k # writeIdx + 1
      BY <2>3, <3>2
    <3> QED
      BY <3>1, <3>2
  <2>5. /\ writeIdx' = writeIdx + 1 /\ readIdx' = readIdx /\ slots' = slots
        /\ prod'.pc = "idle" /\ (writeIdx + 1) - 1 = writeIdx
    BY <1>7 DEF ProducerMoves, ProducerPublishes
  <2> QED
    BY <2>2, <2>4, <2>5 DEF SlotsHold, HeaderOf
<1>8. ASSUME ConsumerMoves PROVE SlotsHold'
  <2>1. UNCHANGED <<writeIdx, slots, prod, pushed>> /\ readIdx' \in {readIdx, readIdx + 1}
    BY <1>8 DEF ConsumerMoves, ConsumerLooks, ConsumerTakes, ConsumerCopies, ConsumerPops,
                ConsumerReturns
  <2> QED
    BY <2>1 DEF SlotsHold, HeaderOf
<1>9. CASE ProducerMoves
  BY <1>3, <1>5, <1>6, <1>7, <1>9
     DEF Untouching, ProducerMoves, ProducerStays, ProducerBegins, ProducerLoops,
         ProducerFindsRoom, ProducerGivesUp, ProducerCopies
<1> QED
  BY <1>8, <1>9 DEF Moves

(* Only a send that has gone past its loop touches the payload buffer.     *)
LEMMA PayloadHoldsStep ==
    ASSUME TypeOK, Positions, Cursors, PayloadHolds, Moves
    PROVE  PayloadHolds'
<1> USE FieldTypes
<1>1. payload \in [Cells -> MessageId]
  BY DEF TypeOK
<1>2. ASSUME ProducerMoves, ProducerCopies PROVE PayloadHolds'
  <2>1. prod.cell \in Cells /\ prod.cell <= prod.len
    BY <1>2, PayloadSizeAssumption
       DEF ProducerCopies, Cursors, TypeOK, ProducerState, Cells
  <2>2. /\ payload'[prod.cell] = writeIdx + 1
        /\ \A c \in Int : c # prod.cell => payload'[c] = payload[c]
    BY <1>1, <1>2, <2>1 DEF ProducerCopies
  <2>3. \A c \in 1 .. prod.cell : payload'[c] = writeIdx + 1
    BY <1>2, <2>2 DEF PayloadHolds, ProducerCopies
  <2> QED
    BY <1>2, <2>3 DEF PayloadHolds, Untouching, ProducerCopies
<1>3. ASSUME ProducerMoves, ProducerPublishes PROVE PayloadHolds'
  <2>1. pushed'[writeIdx + 1].len = prod.len /\ pushed'[writeIdx + 1].given = prod.given
    BY <1>3 DEF ProducerPublishes, Positions
  <2> QED
    BY <1>3, <2>1 DEF PayloadHolds, ProducerPublishes
<1>4. ASSUME ConsumerMoves PROVE PayloadHolds'
  BY <1>4 DEF ConsumerMoves, PayloadHolds
<1>5. CASE ProducerStays
  BY <1>5 DEF PayloadHolds, Untouching, ProducerStays
<1>6. CASE ProducerBegins \/ ProducerLoops \/ ProducerGivesUp
  BY <1>6 DEF PayloadHolds, Untouching, ProducerBegins, ProducerLoops, ProducerGivesUp
<1>7. CASE ProducerFindsRoom
  BY <1>7 DEF PayloadHolds, Untouching, ProducerFindsRoom, Cursors
<1>8. CASE ProducerOpensSlot \/ ProducerWrites
  BY <1>8 DEF PayloadHolds, Untouching, ProducerOpensSlot, ProducerWrites
<1> QED
  BY <1>2, <1>3, <1>4, <1>5, <1>6, <1>7, <1>8 DEF Moves, ProducerMoves

(* The payload is copied out of a buffer that is the last message's for as *)
(* long as no later send has gone past its loop.                           *)
LEMMA BufferHoldsStep ==
    ASSUME TypeOK, Positions, Cursors, SlotsHold, PayloadHolds, BufferHolds, Moves
    PROVE  BufferHolds'
<1> USE FieldTypes
<1>1. cons.pc \in Taking => cons.read + 1 \in 1 .. writeIdx
  BY DEF Positions, Cursors, Taking, Seeing
<1>2. ASSUME ProducerMoves, UNCHANGED <<writeIdx, pushed>>,
             prod'.pc \in Untouching => prod.pc \in Untouching
      PROVE  BufferHolds'
  BY <1>2 DEF BufferHolds, ProducerMoves
<1>3. ASSUME ProducerMoves, ProducerPublishes PROVE BufferHolds'
  <2>1. /\ writeIdx' = writeIdx + 1
        /\ \A k \in 1 .. writeIdx : pushed'[k] = pushed[k]
    BY <1>3 DEF ProducerPublishes, Positions
  <2> QED
    BY <1>1, <1>3, <2>1 DEF BufferHolds, ProducerMoves
<1>4. CASE ProducerMoves
  BY <1>2, <1>3, <1>4
     DEF Untouching, ProducerMoves, ProducerStays, ProducerBegins, ProducerLoops,
         ProducerFindsRoom, ProducerGivesUp, ProducerCopies, ProducerOpensSlot, ProducerWrites
<1>5. ASSUME ConsumerMoves, ConsumerTakes PROVE BufferHolds'
  <2>1. readIdx + 1 \in readIdx + 1 .. writeIdx /\ (readIdx + 1) - 1 = readIdx
    BY <1>5 DEF ConsumerTakes
  <2>2. slots[SlotOf(readIdx)] = HeaderOf(readIdx + 1)
    BY <2>1 DEF SlotsHold
  <2>3. cons'.len = pushed[readIdx + 1].len /\ pushed[readIdx + 1].len \in Nat
    <3>1. readIdx + 1 \in 1 .. Len(pushed)
      BY <1>5 DEF ConsumerTakes, Positions
    <3>2. pushed[readIdx + 1].len \in Nat
      <4>1. pushed[readIdx + 1] \in Payload
        BY <3>1
      <4> QED
        BY <4>1, PayloadSizeAssumption DEF Payload
    <3> QED
      BY <1>5, <2>2, <3>2 DEF ConsumerTakes, HeaderOf
  <2> QED
    BY <1>5, <2>3 DEF BufferHolds, ConsumerMoves, ConsumerTakes
<1>6. ASSUME ConsumerMoves, ConsumerCopies PROVE BufferHolds'
  <2>1. cons.cell \in Cells /\ cons.cell <= cons.len /\ cons.pc \in Taking
    BY <1>6, PayloadSizeAssumption
       DEF ConsumerCopies, Cursors, TypeOK, ConsumerState, Cells, Taking
  <2>2. /\ cons'.buffer[cons.cell] = payload[cons.cell]
        /\ \A c \in Int : c # cons.cell => cons'.buffer[c] = cons.buffer[c]
    <3>1. cons.buffer \in [Cells -> MessageId]
      BY DEF TypeOK, ConsumerState
    <3> QED
      BY <1>6, <2>1, <3>1 DEF ConsumerCopies
  <2>3. UNCHANGED <<writeIdx, pushed, prod>> /\ cons'.read = cons.read /\ cons'.len = cons.len
        /\ cons'.wanted = cons.wanted
    BY <1>6 DEF ConsumerMoves, ConsumerCopies
  <2>4. cons.len = pushed[cons.read + 1].len
    BY <2>1 DEF BufferHolds
  <2>5. ASSUME cons.read + 1 = writeIdx, prod.pc \in Untouching,
               pushed[cons.read + 1].given, cons.wanted,
               NEW c \in 1 .. cons.len, c < cons.cell + 1
        PROVE  cons'.buffer[c] = writeIdx
    <3>1. CASE c = cons.cell
      <4>1. payload[c] = writeIdx
        BY <1>1, <2>1, <2>4, <2>5 DEF PayloadHolds
      <4> QED
        BY <2>2, <3>1, <4>1
    <3>2. CASE c # cons.cell
      <4>1. c < cons.cell
        BY <2>1, <2>5, <3>2
      <4>2. cons.buffer[c] = writeIdx
        BY <2>1, <2>5, <4>1 DEF BufferHolds
      <4> QED
        BY <2>2, <3>2, <4>2
    <3> QED
      BY <3>1, <3>2
  <2>6. cons'.pc # "copying" \/ cons'.cell = cons.cell + 1
    BY <1>6 DEF ConsumerCopies
  <2>7. cons'.pc # "copying" => cons.cell = cons.len
    BY <1>6 DEF ConsumerCopies
  <2> QED
    BY <2>1, <2>3, <2>4, <2>5, <2>6, <2>7 DEF BufferHolds
<1>7. ASSUME ConsumerMoves, ConsumerLooks \/ ConsumerPops \/ ConsumerReturns
      PROVE  BufferHolds'
  BY <1>7 DEF BufferHolds, Taking, ConsumerMoves, ConsumerLooks, ConsumerPops, ConsumerReturns
<1> QED
  BY <1>4, <1>5, <1>6, <1>7 DEF Moves, ConsumerMoves

(* A message handed out as the last one is the one that was pushed last;   *)
(* what is pushed later makes others the last.                             *)
LEMMA LoneMessageStep ==
    ASSUME TypeOK, Positions, Cursors, Handed, SlotsHold, BufferHolds, LoneMessageIntact, Moves
    PROVE  LoneMessageIntact'
<1> USE FieldTypes
<1>1. ASSUME UNCHANGED <<pushed, received>>,
             prod'.pc \in Untouching => prod.pc \in Untouching
      PROVE  LoneMessageIntact'
  BY <1>1 DEF LoneMessageIntact, Intact, HeaderOf
<1>2. ASSUME ProducerMoves, ProducerPublishes PROVE LoneMessageIntact'
  <2>1. Len(pushed') = writeIdx + 1 /\ received' = received
    BY <1>2 DEF ProducerMoves, ProducerPublishes, Positions
  <2>2. ASSUME NEW i \in DOMAIN received PROVE received[i].at # writeIdx + 1
    <3>1. received[i].at <= readIdx /\ received[i] \in Received
      BY DEF Handed
    <3> QED
      BY <3>1, MaxSendsAssumption DEF Positions, Received
  <2> QED
    BY <2>1, <2>2 DEF LoneMessageIntact
<1>3. ASSUME ConsumerMoves, ConsumerReturns PROVE LoneMessageIntact'
  <2> DEFINE r == [at |-> readIdx, header |-> slots[SlotOf(cons.read)],
                    wanted |-> cons.wanted, body |-> cons.buffer]
  <2>1. /\ received' = Append(received, r) /\ UNCHANGED <<pushed, prod>>
        /\ cons.pc = "returning" /\ r.at = readIdx /\ r.body = cons.buffer
        /\ r.wanted = cons.wanted
        /\ r.header = slots[SlotOf(cons.read)]
    BY <1>3 DEF ConsumerMoves, ConsumerReturns
  <2> HIDE DEF r
  <2>2. /\ DOMAIN received' = 1 .. Len(received) + 1
        /\ DOMAIN received = 1 .. Len(received) /\ Len(received) \in Nat
        /\ \A i \in DOMAIN received : received'[i] = received[i]
        /\ received'[Len(received) + 1] = r
    BY <2>1
  <2>3. ASSUME readIdx = Len(pushed), prod.pc \in Untouching
        PROVE  /\ r.header = [id |-> r.at, len |-> pushed[r.at].len]
               /\ pushed[r.at].given /\ r.wanted =>
                      \A c \in 1 .. pushed[r.at].len : r.body[c] = r.at
    <3>1. cons.read + 1 = writeIdx /\ writeIdx > 0 /\ readIdx = writeIdx
          /\ cons.read = writeIdx - 1
      BY <2>1, <2>3 DEF Cursors, Positions
    <3>2. r.header = HeaderOf(writeIdx)
      BY <2>1, <2>3, <3>1 DEF SlotsHold
    <3>3. pushed[writeIdx].given /\ r.wanted =>
              \A c \in 1 .. pushed[writeIdx].len : r.body[c] = writeIdx
      BY <2>1, <2>3, <3>1 DEF BufferHolds, Taking
    <3> QED
      BY <2>1, <3>1, <3>2, <3>3 DEF HeaderOf
  <2>4. ASSUME NEW i \in DOMAIN received', received'[i].at = Len(pushed'),
               prod'.pc \in Untouching
        PROVE  /\ received'[i].header = [id |-> received'[i].at,
                                         len |-> pushed'[received'[i].at].len]
               /\ pushed'[received'[i].at].given /\ received'[i].wanted =>
                      \A c \in 1 .. pushed'[received'[i].at].len :
                          received'[i].body[c] = received'[i].at
    <3>1. CASE i = Len(received) + 1
      BY <2>1, <2>2, <2>3, <2>4, <3>1
    <3>2. CASE i \in DOMAIN received
      <4>1. received'[i] = received[i] /\ pushed' = pushed /\ prod' = prod
        BY <2>1, <2>2, <3>2
      <4>2. Intact(received[i])
        BY <2>4, <3>2, <4>1 DEF LoneMessageIntact
      <4> QED
        BY <4>1, <4>2 DEF Intact, HeaderOf
    <3> QED
      BY <2>2, <3>1, <3>2
  <2> QED
    BY <2>4 DEF LoneMessageIntact, Intact, HeaderOf
<1>4. CASE ProducerMoves
  BY <1>1, <1>2, <1>4
     DEF Untouching, ProducerMoves, ProducerStays, ProducerBegins, ProducerLoops,
         ProducerFindsRoom, ProducerGivesUp, ProducerCopies, ProducerOpensSlot, ProducerWrites
<1>5. CASE ConsumerMoves
  BY <1>1, <1>3, <1>5
     DEF ConsumerMoves, ConsumerLooks, ConsumerTakes, ConsumerCopies, ConsumerPops
<1> QED
  BY <1>4, <1>5 DEF Moves
-----------------------------------------------------------------------------
(* Type correctness of a step, by action.                                  *)

(* The consumer's fields outside a call are of their types.                *)
LEMMA NoCallTyped ==
    ASSUME NEW pc \in {"detached", "idle", "closed"}
    PROVE  NoCall(pc) \in ConsumerState
<1>1. 0 \in Index /\ 0 \in MessageId /\ 1 \in Cells /\ 0 \in 0 .. PayloadSize
  BY IndexRangeAssumption, CapacityAssumption, MaxSendsAssumption, PayloadSizeAssumption
     DEF Index, MessageId, Cells
<1> QED
  BY <1>1 DEF NoCall, ConsumerState

(* So are the producer's when DoSend returns.                              *)
LEMMA SendReturnsTyped ==
    ASSUME TypeOK, SendReturns
    PROVE  prod' \in ProducerState
<1>1. 0 \in 0 .. PayloadSize /\ 1 \in Cells
  BY PayloadSizeAssumption DEF Cells
<1> QED
  BY <1>1 DEF TypeOK, SendReturns, ProducerState

(* The steps of the producer keep its types.                               *)
LEMMA ProducerTypeStep ==
    ASSUME TypeOK, Positions, Cursors, SendStep \/ ProducerCleanup \/ ProducerExit
    PROVE  TypeOK'
<1>1. CASE SendFindsFull \/ SendSleeps
  BY <1>1 DEF SendFindsFull, SendSleeps, TypeOK, ProducerState, shm, names
<1>2. CASE SendFindsRoom
  BY <1>2 DEF SendFindsRoom, TypeOK, ProducerState, shm, names
<1>3. CASE SendGivesUp
  BY <1>3, SendReturnsTyped DEF SendGivesUp, TypeOK, shm, names
<1>4. CASE SendCopies
  <2>1. prod.cell \in Cells /\ prod.cell + 1 \in Cells \cup {PayloadSize + 1}
    BY <1>4, PayloadSizeAssumption DEF SendCopies, Cursors, TypeOK, ProducerState, Cells
  <2>2. prod' \in ProducerState
    BY <1>4, <2>1 DEF SendCopies, TypeOK, ProducerState
  <2>3. Current \in MessageId
    BY <1>4, Linear, FieldTypes, MaxSendsAssumption DEF SendCopies, Positions, MessageId
  <2>4. payload' \in [Cells -> MessageId]
    BY <1>4, <2>3 DEF SendCopies, TypeOK
  <2> QED
    BY <1>4, <2>2, <2>4 DEF SendCopies, TypeOK, names
<1>5. CASE PushBegins
  <2>1. prod' \in ProducerState
    BY <1>5, SendReturnsTyped DEF PushBegins, TypeOK, ProducerState
  <2>2. slots' \in [Slot -> Header \cup {Torn}]
    BY <1>5 DEF PushBegins, TypeOK
  <2> QED
    BY <1>5, <2>1, <2>2 DEF PushBegins, TypeOK, names
<1>6. CASE PushWrites
  <2>1. prod' \in ProducerState
    BY <1>6 DEF PushWrites, TypeOK, ProducerState
  <2>2. Current \in 1 .. MaxSends
    BY <1>6, Linear, FieldTypes, MaxSendsAssumption DEF PushWrites, Positions
  <2>3. [id |-> Current, len |-> prod.len] \in Header
    BY <2>2 DEF TypeOK, ProducerState, Header
  <2>4. slots' \in [Slot -> Header \cup {Torn}]
    BY <1>6, <2>3 DEF PushWrites, TypeOK
  <2> QED
    BY <1>6, <2>1, <2>4 DEF PushWrites, TypeOK, names
<1>7. CASE PushPublishes
  <2>1. [len |-> prod.len, given |-> prod.given] \in Payload
    BY DEF TypeOK, ProducerState, Payload
  <2>2. pushed' \in Seq(Payload)
    BY <1>7, <2>1 DEF PushPublishes, TypeOK
  <2>3. 1 \in 0 .. IndexRange
    BY IndexRangeAssumption, CapacityAssumption
  <2>4. writeIdx' \in Index
    BY <1>7, <2>3, AdvanceInIndex DEF PushPublishes, TypeOK
  <2> QED
    BY <1>7, <2>2, <2>4, SendReturnsTyped DEF PushPublishes, TypeOK, names
<1>8. CASE ProducerCleanup
  BY <1>8 DEF ProducerCleanup, TypeOK, ProducerState, shm
<1>9. CASE ProducerExit
  <2>1. prod' \in ProducerState
    <3>1. 0 \in 0 .. PayloadSize /\ 1 \in Cells
      BY PayloadSizeAssumption DEF Cells
    <3> QED
      BY <1>9, <3>1 DEF ProducerExit, TypeOK, ProducerState
  <2> QED
    BY <1>9, <2>1 DEF ProducerExit, TypeOK, shm, names
<1> QED
  BY <1>1, <1>2, <1>3, <1>4, <1>5, <1>6, <1>7, <1>8, <1>9 DEF SendStep

(* The steps of the consumer keep its types.                               *)
LEMMA ConsumerTypeStep ==
    ASSUME TypeOK, Positions, Cursors, ReceiveStep
    PROVE  TypeOK'
<1> USE NoCallTyped
<1>1. CASE PollLiveness
  <2>1. cons' \in ConsumerState
    <3>1. CASE alive
      BY <1>1, <3>1 DEF PollLiveness, TypeOK, ConsumerState
    <3>2. CASE ~alive
      BY <1>1, <3>2 DEF PollLiveness, ReceiveReturns
    <3> QED
      BY <3>1, <3>2
  <2> QED
    BY <1>1, <2>1 DEF PollLiveness, TypeOK, shm, names
<1>2. CASE TestFindsMessage
  BY <1>2 DEF TestFindsMessage, TypeOK, ConsumerState, shm, names
<1>10. CASE TestFindsNone
  BY <1>10 DEF TestFindsNone, TypeOK, ConsumerState, shm, names
<1>3. CASE TestGivesUp
  BY <1>3 DEF TestGivesUp, ReceiveReturns, TypeOK, shm, names
<1>4. CASE TestSleeps
  BY <1>4 DEF TestSleeps, TypeOK, ConsumerState, shm, names
<1>5. CASE RecheckLiveness
  BY <1>5 DEF RecheckLiveness, ReceiveReturns, TypeOK, ConsumerState, shm, names
<1>6. CASE Peek
  <2>1. slots[SlotOf(readIdx)].len \in 0 .. PayloadSize
    BY FieldTypes, PayloadSizeAssumption DEF TypeOK, Header, Torn
  <2>2. cons' \in ConsumerState
    <3>1. CASE IsEmpty
      BY <1>6, <3>1 DEF Peek, ReceiveReturns
    <3>2. CASE ~IsEmpty
      <4> DEFINE len == slots[SlotOf(readIdx)].len
                 next == IF len > 0 /\ cons.wanted THEN "copying" ELSE "popping"
      <4>1. cons' = [cons EXCEPT !.read = readIdx, !.len = len, !.pc = next]
        BY <1>6, <3>2 DEF Peek
      <4>2. len \in 0 .. PayloadSize /\ next \in {"copying", "popping"}
        BY <2>1
      <4>3. readIdx \in Index /\ cons \in ConsumerState
        BY DEF TypeOK
      <4> HIDE DEF len, next
      <4> QED
        BY <4>1, <4>2, <4>3 DEF ConsumerState
    <3> QED
      BY <3>1, <3>2
  <2> QED
    BY <1>6, <2>2 DEF Peek, TypeOK, shm, names
<1>7. CASE ReceiveCopies
  <2>1. cons.cell \in Cells /\ cons.cell + 1 \in Cells \cup {PayloadSize + 1}
    BY <1>7, PayloadSizeAssumption DEF ReceiveCopies, Cursors, TypeOK, ConsumerState, Cells
  <2>2. payload[cons.cell] \in MessageId
    BY <2>1 DEF TypeOK
  <2>3. cons' \in ConsumerState
    BY <1>7, <2>1, <2>2 DEF ReceiveCopies, TypeOK, ConsumerState
  <2> QED
    BY <1>7, <2>3 DEF ReceiveCopies, TypeOK, shm, names
<1>8. CASE Pop
  <2>1. 1 \in 0 .. IndexRange
    BY IndexRangeAssumption, CapacityAssumption
  <2>2. readIdx' \in Index
    BY <1>8, <2>1, AdvanceInIndex DEF Pop, TypeOK
  <2>3. cons' \in ConsumerState
    BY <1>8 DEF Pop, ReceiveReturns, TypeOK, ConsumerState
  <2> QED
    BY <1>8, <2>2, <2>3 DEF Pop, TypeOK, names
<1>9. CASE ReceiveCompletes
  <2> DEFINE r == [at |-> readIdx, header |-> slots[SlotOf(cons.read)],
                    wanted |-> cons.wanted, body |-> cons.buffer]
  <2>1. readIdx \in 1 .. MaxSends
    BY <1>9, FieldTypes, MaxSendsAssumption DEF ReceiveCompletes, Cursors, Positions
  <2>2. slots[SlotOf(cons.read)] \in Header \cup {Torn}
    BY FieldTypes DEF TypeOK
  <2>3. cons.buffer \in [Cells -> MessageId] /\ cons.wanted \in BOOLEAN
    BY DEF TypeOK, ConsumerState
  <2>4. r \in Received
    BY <2>1, <2>2, <2>3 DEF Received
  <2>5. received' = Append(received, r)
    BY <1>9 DEF ReceiveCompletes
  <2> HIDE DEF r
  <2>6. received' \in Seq(Received)
    BY <2>4, <2>5 DEF TypeOK
  <2> QED
    BY <1>9, <2>6 DEF ReceiveCompletes, ReceiveReturns, TypeOK, shm, names
<1> QED
  BY <1>1, <1>2, <1>3, <1>4, <1>5, <1>6, <1>7, <1>8, <1>9, <1>10 DEF ReceiveStep

(* Every step keeps the types.                                             *)
LEMMA TypeStep ==
    ASSUME TypeOK, Positions, Cursors, [Next]_vars
    PROVE  TypeOK'
<1> USE NoCallTyped DEF shm, names
<1>1. CASE UNCHANGED vars
  BY <1>1 DEF vars, TypeOK
<1>2. CASE ReceiveDeadline
  BY <1>2 DEF ReceiveDeadline, TypeOK, ConsumerState
<1>8. CASE SendDeadline
  BY <1>8 DEF SendDeadline, TypeOK, ProducerState
<1>3. ASSUME NEW len \in Lengths, NEW given \in BOOLEAN, NEW late \in BOOLEAN,
             SendStart(len, given, late)
      PROVE  TypeOK'
  <2>1. len \in 0 .. PayloadSize
    BY <1>3, PayloadSizeAssumption, LengthsAssumption DEF SendStart
  <2>2. prod' \in ProducerState
    BY <1>3, <2>1 DEF SendStart, TypeOK, ProducerState
  <2> QED
    BY <1>3, <2>2 DEF SendStart, TypeOK
<1>4. ASSUME NEW late \in BOOLEAN, NEW wanted \in BOOLEAN, ReceiveStart(late, wanted)
      PROVE  TypeOK'
  BY <1>4 DEF ReceiveStart, TypeOK, ConsumerState
<1>5. CASE Attach
  BY <1>5 DEF Attach, TypeOK
<1>6. CASE ConsumerCleanup
  BY <1>6 DEF ConsumerCleanup, TypeOK
<1>7. CASE ConsumerCrash
  BY <1>7 DEF ConsumerCrash, TypeOK
<1> QED
  BY <1>1, <1>2, <1>3, <1>4, <1>5, <1>6, <1>7, <1>8, ProducerTypeStep, ConsumerTypeStep
     DEF Next
-----------------------------------------------------------------------------
Channel == /\ TypeOK /\ Positions /\ Cursors /\ Handed /\ SlotsHold /\ PayloadHolds
           /\ BufferHolds /\ LoneMessageIntact

(* A channel that was just created, nobody attached.                       *)
LEMMA ChannelInit == Init => Channel
<1> SUFFICES ASSUME Init PROVE Channel
  OBVIOUS
<1> USE CapacityAssumption, IndexRangeAssumption, MaxSendsAssumption, PayloadSizeAssumption
<1>1. 0 \in Index /\ 0 \in MessageId /\ 1 \in Cells /\ 0 \in 0 .. PayloadSize
  BY DEF Index, MessageId, Cells
<1>2. prod \in ProducerState /\ cons \in ConsumerState
  BY <1>1, NoCallTyped DEF Init, ProducerState
<1>3. TypeOK
  BY <1>1, <1>2 DEF Init, TypeOK
<1>4. /\ writeIdx = 0 /\ readIdx = 0 /\ pushed = << >> /\ received = << >>
      /\ prod.pc = "idle" /\ prod.cell = 1 /\ cons.pc = "detached" /\ cons.cell = 1
  BY NoCallFields DEF Init
<1>5. Positions /\ Cursors
  BY <1>4 DEF Positions, Cursors, Sending, Seeing, Taking
<1>6. Handed /\ LoneMessageIntact
  BY <1>4 DEF Handed, LoneMessageIntact
<1>7. SlotsHold /\ PayloadHolds /\ BufferHolds
  BY <1>4 DEF SlotsHold, PayloadHolds, BufferHolds, Taking
<1> QED
  BY <1>3, <1>5, <1>6, <1>7 DEF Channel

(* The invariant holds in every state.                                     *)
LEMMA ChannelInvariant == Spec => []Channel
<1>1. Channel /\ [Next]_vars => Channel'
  <2> SUFFICES ASSUME Channel, [Next]_vars PROVE Channel'
    OBVIOUS
  <2>1. Moves
    BY StepMoves DEF Channel
  <2> QED
    BY <2>1, TypeStep, PositionsStep, CursorsStep, HandedStep, SlotsHoldStep,
       PayloadHoldsStep, BufferHoldsStep, LoneMessageStep DEF Channel
<1> QED
  BY ChannelInit, <1>1, PTL DEF Spec
-----------------------------------------------------------------------------
(* The indices, the lengths and cursors inside DoSend and DoReceive and    *)
(* the records DoReceive returns are of their types: no copy runs over the *)
(* end of the payload buffer.                                              *)
THEOREM TypeCorrect == Spec => []TypeOK
<1>1. Channel => TypeOK
  BY DEF Channel
<1> QED
  BY <1>1, ChannelInvariant, PTL

(* A message that Push has published keeps its place and its header until  *)
(* Pop, wherever Producer and Consumer stop, die or are replaced.          *)
THEOREM QueuedHeadersCorrect == Spec => []QueuedHeadersSurvive
<1>1. Channel => QueuedHeadersSurvive
  BY Linear DEF Channel, Positions, SlotsHold, QueuedHeadersSurvive
<1> QED
  BY <1>1, ChannelInvariant, PTL

(* The IsFull of DoSend's loop still holds in Push, the IsEmpty of         *)
(* DoReceive's loop still fails in Peek and in Pop.                        *)
THEOREM LoopTestsCorrect == Spec => []LoopTestsStayTrue
<1>1. Channel => LoopTestsStayTrue
  <2> SUFFICES ASSUME Channel PROVE LoopTestsStayTrue
    OBVIOUS
  <2>1. writeIdx \in Nat /\ readIdx \in Nat /\ Capacity \in Nat
    BY FieldTypes, CapacityAssumption DEF Channel
  <2> QED
    BY <2>1, Linear DEF Channel, Positions, Sending, Seeing, LoopTestsStayTrue
<1> QED
  BY <1>1, ChannelInvariant, PTL

(* DoReceive hands every position out at most once and in order, also when *)
(* the consumer dies between Peek and Pop or after Pop.                    *)
THEOREM PositionsCorrect == Spec => []PositionsHandedOutOnce
<1>1. Channel => PositionsHandedOutOnce
  BY DEF Channel, Handed, PositionsHandedOutOnce
<1> QED
  BY <1>1, ChannelInvariant, PTL

(* DoReceive returns the last message with its own header and payload as   *)
(* long as no later DoSend has got past its loop.                          *)
THEOREM LoneMessageCorrect == Spec => []LoneMessageIntact
<1>1. Channel => LoneMessageIntact
  BY DEF Channel
<1> QED
  BY <1>1, ChannelInvariant, PTL
=============================================================================
