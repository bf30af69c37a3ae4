-------------------------- MODULE WorkerRecoveryProofs --------------------------
(***************************************************************************)
(* The safety properties of module WorkerRecovery for any number of        *)
(* workers, dispatching threads, messages, poisonous messages and crashes, *)
(* and every capacity.                                                     *)
(*                                                                         *)
(* A queue to which two threads push at once is spoilt, and so is one that *)
(* recovery and its worker pop at once; the proofs say that nothing spoils *)
(* another one.  For that they follow each message: its number is unique,  *)
(* so it is sent to one queue and owned by that queue, and what the thread *)
(* of a worker begins and finishes, and what recovery skips, is the        *)
(* message at the front of its own queue.                                  *)
(***************************************************************************)
EXTENDS WorkerRecovery, RingIndexProofs, FiniteSetTheorems

(* What was pushed to a queue, and with what is being pushed.              *)
Sent(w) == {pushed[w][k] : k \in DOMAIN pushed[w]}
Writing(w) == {d \in Pushing(w) : dispatcher[d].pc \in {"constructing", "publishing"}}
Own(w)  == Sent(w) \cup {dispatcher[d].msg : d \in Writing(w)}

(* FindBest...Worker has returned and Push has not been entered.           *)
Chosen == {"pushing", "testing", "loading"}

(* Where a dispatching thread has got to.                                  *)
ThreadShape(d) ==
    /\ d \in Busy => dispatcher[d].msg \in 1 .. nextMessage - 1
    /\ d \notin Busy => dispatcher[d].i = 0 /\ dispatcher[d].min = 0
    /\ dispatcher[d].pc \in {"scanning", "sizing"} => dispatcher[d].i < WorkerCount
    /\ dispatcher[d].pc \in Chosen \cup {"checking"} => dispatcher[d].i > 0

DispatcherShape == \A d \in Dispatchers : ThreadShape(d)

(* No two requests have the same number.                                   *)
Numbers ==
    /\ \A d, e \in Busy : dispatcher[d].msg = dispatcher[e].msg => d = e
    /\ \A w \in Workers : \A k \in DOMAIN pushed[w] :
           /\ pushed[w][k] < nextMessage
           /\ \A d \in Busy : dispatcher[d].msg # pushed[w][k]
           /\ \A v \in Workers : \A l \in DOMAIN pushed[v] :
                  pushed[w][k] = pushed[v][l] => w = v /\ k = l

(* Whatever becomes of its queue, a worker reads only what was meant for it. *)
Belongs ==
    \A w \in Workers :
        /\ \A s \in Slot : queue[w].slots[s] \in Own(w) \cup {0}
        /\ worker[w].msg \in Own(w) \cup {0}

(* The monitors, while the workers run and while recovery goes through     *)
(* them.  Recovery is inside a queue only if its worker is dead or the     *)
(* queue is spoilt.                                                        *)
Transactions ==
    /\ \A w \in Workers :
           /\ worker[w].pc = "down" <=> ~processUp
           /\ processUp /\ w \notin mistaken => (monitor[w].status = Processing
                                                   <=> worker[w].pc \in {"begun", "done"})
    /\ supervisor.pc \in {"skipping", "storing", "ending"} =>
           \/ supervisor.w \in mistaken
           \/ ~processUp /\ monitor[supervisor.w].status = Processing
    /\ childExecs => watched = "worker"
    /\ childExecs /\ supervisor.pc # "watching" =>
           /\ ~processUp
           /\ \A w \in Workers : w < supervisor.w => monitor[w].status = Idle

Waiting(w) == queue[w].read < queue[w].write

(* The worker died inside a transaction that recovery has yet to undo.     *)
Interrupted(w) == /\ ~processUp /\ monitor[w].status = Processing
                  /\ ~(supervisor.pc = "ending" /\ supervisor.w = w)

AtWork == {"peeked", "begun", "done", "ended", "popping"}

(* The indices count messages, and the slots between them hold those.      *)
QueueShape(w) ==
    /\ queue[w].write = Len(pushed[w])
    /\ queue[w].read <= queue[w].write
    /\ queue[w].write - queue[w].read <= Capacity
    /\ \A k \in queue[w].read + 1 .. queue[w].write :
           queue[w].slots[SlotOf(k - 1)] = pushed[w][k]

(* One thread at most is inside Push, and the room it has seen is there.   *)
PushShape(w) ==
    \A d \in Pushing(w) :
        /\ \A e \in Pushing(w) : d = e
        /\ dispatcher[d].write = queue[w].write
        /\ dispatcher[d].pc # "checking" => queue[w].write - queue[w].read < Capacity
        /\ dispatcher[d].pc = "publishing" =>
               queue[w].slots[SlotOf(queue[w].write)] = dispatcher[d].msg

(* The read index recovery has loaded is that of the queue.                *)
LoadedShape(w) ==
    supervisor.pc = "storing" /\ supervisor.w = w => supervisor.read = queue[w].read

(* The message in work, or interrupted, is the one at the front, and that  *)
(* is the index Pop and ForceAdvanceReadIndex have loaded.                 *)
FrontShape(w) ==
    /\ worker[w].pc \in AtWork =>
           Waiting(w) /\ worker[w].msg = pushed[w][queue[w].read + 1]
    /\ worker[w].pc = "popping" => worker[w].read = queue[w].read
    /\ Interrupted(w) => Waiting(w)
    /\ LoadedShape(w)

QueuesSound == \A w \in Undisturbed : QueueShape(w) /\ PushShape(w) /\ FrontShape(w)

(* The message a worker has to process next.                               *)
First(w) == pushed[w][queue[w].read + 1]

(* Nothing has left a queue, or is about to, that was not begun.           *)
Attempted ==
    \A w \in Undisturbed :
        /\ \A k \in 1 .. queue[w].read : started[pushed[w][k]] > 0
        /\ worker[w].pc \in AtWork \ {"peeked"} => started[First(w)] > 0
        /\ Interrupted(w) => started[First(w)] > 0

(* What has not come to the front of its queue was not processed.          *)
Untouched ==
    /\ \A m \in Messages : m >= nextMessage => finished[m] = 0
    /\ \A d \in Busy :
           \/ dispatcher[d].pc \in {"scanning", "sizing", "checking"} \cup Chosen
           \/ dispatcher[d].best \in Undisturbed
           => finished[dispatcher[d].msg] = 0
    /\ \A w \in Undisturbed : \A k \in queue[w].read + 2 .. queue[w].write :
           finished[pushed[w][k]] = 0

(* The message at the front was finished, and is there to be processed     *)
(* again: that death is counted but the repetition is still to come.       *)
Owing(w) == /\ Waiting(w) /\ finished[First(w)] > 0
            /\ worker[w].pc \notin {"done", "ended", "popping"}

Debt(w) == IF Owing(w) THEN 1 ELSE 0

Paid == \A w \in Undisturbed :
            IsFiniteSet(Repeats(w)) /\ Cardinality(Repeats(w)) + Debt(w) <= deaths

(* What was skipped is behind the read index.                              *)
SkippedLeft ==
    Undisturbed = Workers => \A m \in skipped : \E w \in Workers :
        \E k \in 1 .. queue[w].read : pushed[w][k] = m

(* A call that no other one has overlapped is the only one,                *)
Alone == \A d \in Busy \ rivals : Busy = {d}

(* and the room it has seen has only become more since.                    *)
Sized ==
    Undisturbed = Workers => \A d \in Dispatchers \ rivals :
        /\ dispatcher[d].min <= Capacity
        /\ dispatcher[d].pc = "sizing" => dispatcher[d].write = queue[dispatcher[d].i].write
        /\ dispatcher[d].pc \in {"testing", "checking"} =>
               dispatcher[d].write = queue[dispatcher[d].best].write
        /\ dispatcher[d].pc \in {"scanning", "sizing", "checking"} \cup Chosen
               /\ dispatcher[d].i > 0 =>
               queue[dispatcher[d].best].write - queue[dispatcher[d].best].read
                   <= dispatcher[d].min

Recovery == /\ TypeOK /\ DispatcherShape /\ Numbers /\ Belongs /\ Transactions
            /\ QueuesSound /\ Attempted /\ Untouched /\ Paid /\ SkippedLeft
            /\ Alone /\ Sized
-----------------------------------------------------------------------------
(* What a step can do, field by field, for all actions at once.            *)

(* A dispatching thread: only d moves.                                     *)
Starts(d) ==
    /\ dispatcher[d].pc = "idle" /\ dispatcher'[d].pc = "scanning"
    /\ nextMessage \in Messages /\ nextMessage' = nextMessage + 1
    /\ dispatcher'[d].msg = nextMessage
    /\ dispatcher'[d].i = dispatcher[d].i /\ dispatcher'[d].min = dispatcher[d].min
    /\ rivals' = IF Busy = {} THEN rivals \ {d} ELSE rivals \cup Busy \cup {d}
    /\ UNCHANGED <<queue, pushed, overlapped>>

Loads(d) ==
    /\ dispatcher[d].pc = "scanning" /\ dispatcher'[d].pc = "sizing"
    /\ dispatcher'[d].msg = dispatcher[d].msg
    /\ dispatcher'[d].i = dispatcher[d].i /\ dispatcher'[d].min = dispatcher[d].min
    /\ dispatcher'[d].best = dispatcher[d].best
    /\ dispatcher'[d].write = queue[dispatcher[d].i].write
    /\ UNCHANGED <<queue, pushed, overlapped, nextMessage, rivals>>

Sizes(d) ==
    LET i == dispatcher[d].i
        size == Used(dispatcher[d].write, queue[i].read)
        better == i = 0 \/ size < dispatcher[d].min
    IN  /\ dispatcher[d].pc = "sizing"
        /\ dispatcher'[d].pc = IF i + 1 = WorkerCount THEN "pushing" ELSE "scanning"
        /\ dispatcher'[d].msg = dispatcher[d].msg
        /\ dispatcher'[d].i = i + 1
        /\ dispatcher'[d].min = IF better THEN size ELSE dispatcher[d].min
        /\ dispatcher'[d].best = IF better THEN i ELSE dispatcher[d].best
        /\ UNCHANGED <<queue, pushed, overlapped, nextMessage, rivals>>

GivesUp(d) ==
    /\ dispatcher[d].pc \in {"testing", "checking"} /\ dispatcher'[d] = Resting
    /\ UNCHANGED <<queue, pushed, overlapped, nextMessage, rivals>>

LoadsFull(d) ==
    /\ dispatcher[d].pc = "pushing" /\ dispatcher'[d].pc = "testing"
    /\ dispatcher'[d].msg = dispatcher[d].msg
    /\ dispatcher'[d].i = dispatcher[d].i /\ dispatcher'[d].min = dispatcher[d].min
    /\ dispatcher'[d].best = dispatcher[d].best
    /\ dispatcher'[d].write = queue[dispatcher[d].best].write
    /\ UNCHANGED <<queue, pushed, overlapped, nextMessage, rivals>>

GoesOn(d) ==
    /\ \/ dispatcher[d].pc = "testing" /\ dispatcher'[d].pc = "loading"
       \/ dispatcher[d].pc = "checking" /\ dispatcher'[d].pc = "constructing"
    /\ ~SeenFull(d)
    /\ dispatcher'[d].msg = dispatcher[d].msg
    /\ dispatcher'[d].i = dispatcher[d].i /\ dispatcher'[d].min = dispatcher[d].min
    /\ dispatcher'[d].best = dispatcher[d].best
    /\ dispatcher'[d].write = dispatcher[d].write
    /\ UNCHANGED <<queue, pushed, overlapped, nextMessage, rivals>>

Enters(d) ==
    LET w == dispatcher[d].best
    IN  /\ dispatcher[d].pc = "loading" /\ dispatcher'[d].pc = "checking"
        /\ dispatcher'[d].msg = dispatcher[d].msg
        /\ dispatcher'[d].i = dispatcher[d].i /\ dispatcher'[d].min = dispatcher[d].min
        /\ dispatcher'[d].best = w
        /\ dispatcher'[d].write = queue[w].write
        /\ overlapped' = IF Pushing(w) = {} THEN overlapped ELSE overlapped \cup {w}
        /\ UNCHANGED <<queue, pushed, nextMessage, rivals>>

Constructs(d) ==
    LET w == dispatcher[d].best
    IN  /\ dispatcher[d].pc = "constructing" /\ dispatcher'[d].pc = "publishing"
        /\ dispatcher'[d].msg = dispatcher[d].msg
        /\ dispatcher'[d].i = dispatcher[d].i /\ dispatcher'[d].min = dispatcher[d].min
        /\ dispatcher'[d].best = w
        /\ dispatcher'[d].write = dispatcher[d].write
        /\ queue'[w].write = queue[w].write /\ queue'[w].read = queue[w].read
        /\ queue'[w].slots = [queue[w].slots EXCEPT
                                 ![SlotOf(dispatcher[d].write)] = dispatcher[d].msg]
        /\ \A v \in Workers \ {w} : queue'[v] = queue[v]
        /\ UNCHANGED <<pushed, overlapped, nextMessage, rivals>>

Publishes(d) ==
    LET w == dispatcher[d].best
    IN  /\ dispatcher[d].pc = "publishing" /\ dispatcher'[d] = Resting
        /\ queue'[w].write = Advance(dispatcher[d].write, 1)
        /\ queue'[w].read = queue[w].read /\ queue'[w].slots = queue[w].slots
        /\ \A v \in Workers \ {w} : queue'[v] = queue[v]
        /\ pushed'[w] = Append(pushed[w], dispatcher[d].msg)
        /\ \A v \in Workers \ {w} : pushed'[v] = pushed[v]
        /\ UNCHANGED <<overlapped, nextMessage, rivals>>

Dispatches(d) ==
    /\ \A e \in Dispatchers \ {d} : dispatcher'[e] = dispatcher[e]
    /\ UNCHANGED <<monitor, process, watching, supervisor, dying, attempts, skipped, mistaken>>
    /\ \/ Starts(d) \/ Loads(d) \/ Sizes(d) \/ GivesUp(d) \/ LoadsFull(d) \/ GoesOn(d)
       \/ Enters(d) \/ Constructs(d) \/ Publishes(d)

(* The thread of worker w: only w moves.                                   *)
Peeks(w) ==
    /\ worker[w].pc = "idle" /\ queue[w].read # queue[w].write
    /\ monitor[w].status = Idle
    /\ worker'[w].pc = "peeked" /\ worker'[w].msg = Front(w)
    /\ UNCHANGED <<queue, monitor, attempts>>

Begins(w) ==
    /\ worker[w].pc = "peeked" /\ worker'[w].pc = "begun"
    /\ worker'[w].msg = worker[w].msg
    /\ monitor'[w].status = Processing
    /\ started' = Count(started, worker[w].msg)
    /\ UNCHANGED <<queue, finished>>

Finishes(w) ==
    /\ worker[w].pc = "begun" /\ worker'[w].pc = "done"
    /\ worker'[w].msg = worker[w].msg
    /\ finished' = Count(finished, worker[w].msg)
    /\ UNCHANGED <<queue, monitor, started>>

Ends(w) ==
    /\ worker[w].pc = "done" /\ worker'[w].pc = "ended"
    /\ worker'[w].msg = worker[w].msg
    /\ monitor'[w].status = Idle
    /\ UNCHANGED <<queue, attempts>>

Fails(w) ==
    /\ worker[w].pc = "ended" /\ worker'[w].pc = "idle" /\ worker'[w].msg = 0
    /\ RequestQueueEmpty(w)
    /\ UNCHANGED <<queue, monitor, attempts>>

LoadsIndex(w) ==
    /\ worker[w].pc = "ended" /\ worker'[w].pc = "popping"
    /\ worker'[w].msg = worker[w].msg /\ worker'[w].read = queue[w].read
    /\ UNCHANGED <<queue, monitor, attempts>>

Pops(w) ==
    /\ worker[w].pc = "popping" /\ worker'[w].pc = "idle" /\ worker'[w].msg = 0
    /\ queue'[w].write = queue[w].write /\ queue'[w].slots = queue[w].slots
    /\ queue'[w].read = Advance(worker[w].read, 1)
    /\ UNCHANGED <<monitor, attempts>>

Works(w) ==
    /\ processUp
    /\ \A v \in Workers \ {w} :
           worker'[v] = worker[v] /\ monitor'[v] = monitor[v] /\ queue'[v] = queue[v]
    /\ UNCHANGED <<sending, processUp, childExecs, watching, supervisor, dying, skipped,
                   mistaken>>
    /\ \/ Peeks(w) \/ Begins(w) \/ Finishes(w) \/ Ends(w) \/ Fails(w)
       \/ LoadsIndex(w) \/ Pops(w)

(* The process dies.                                                       *)
Death ==
    /\ processUp /\ ~processUp'
    /\ \A w \in Workers : worker'[w].pc = "down" /\ worker'[w].msg = 0
    /\ deaths' = deaths + 1
    /\ UNCHANGED <<queue, monitor, sending, childExecs, watching, supervisor, attempts,
                   skipped, mistaken>>

(* Start stores the pid.                                                   *)
Names ==
    /\ watched' = "worker"
    /\ UNCHANGED <<queue, monitor, sending, process, supervisor, dying, attempts, skipped,
                   mistaken>>

(* The supervisor.                                                         *)
Detects ==
    /\ supervisor.pc = "watching" /\ (watched = "worker" => ~processUp)
    /\ supervisor' = [pc |-> "testing", w |-> 0, read |-> 0]
    /\ UNCHANGED <<queue, monitor, process, watched, skipped, mistaken>>

Passes ==
    /\ supervisor.pc = "testing" /\ monitor[supervisor.w].status = Idle
    /\ supervisor' = NextWorker
    /\ UNCHANGED <<queue, monitor, process, watched, skipped, mistaken>>

Stops ==
    /\ supervisor.pc = "testing" /\ monitor[supervisor.w].status = Processing
    /\ supervisor'.pc = "skipping" /\ supervisor'.w = supervisor.w
    /\ mistaken' = IF processUp THEN mistaken \cup {supervisor.w} ELSE mistaken
    /\ UNCHANGED <<queue, monitor, process, watched, skipped>>

Reads ==
    /\ supervisor.pc = "skipping"
    /\ supervisor'.pc = "storing" /\ supervisor'.w = supervisor.w
    /\ supervisor'.read = queue[supervisor.w].read
    /\ UNCHANGED <<queue, monitor, process, watched, skipped, mistaken>>

Skips ==
    LET w == supervisor.w
    IN  /\ supervisor.pc = "storing"
        /\ supervisor'.pc = "ending" /\ supervisor'.w = w
        /\ queue'[w].write = queue[w].write /\ queue'[w].slots = queue[w].slots
        /\ queue'[w].read = Advance(supervisor.read, 1)
        /\ \A v \in Workers \ {w} : queue'[v] = queue[v]
        /\ skipped' = skipped \cup ({queue[w].slots[SlotOf(supervisor.read)]} \ {0})
        /\ UNCHANGED <<monitor, process, watched, mistaken>>

Closes ==
    /\ supervisor.pc = "ending"
    /\ monitor'[supervisor.w].status = Idle
    /\ \A v \in Workers \ {supervisor.w} : monitor'[v] = monitor[v]
    /\ supervisor' = NextWorker
    /\ UNCHANGED <<queue, process, watched, skipped, mistaken>>

(* The child exits at once, or it becomes the worker of a process that was *)
(* down.                                                                   *)
Returns ==
    /\ supervisor.pc = "restarting"
    /\ ~childExecs \/ watched' = "worker"
    /\ supervisor' = [pc |-> "watching", w |-> 0, read |-> 0]
    /\ \/ UNCHANGED <<processUp, worker>> /\ (~childExecs \/ processUp)
       \/ /\ childExecs /\ ~processUp /\ processUp'
          /\ \A w \in Workers : worker'[w].pc = "idle" /\ worker'[w].msg = 0
    /\ UNCHANGED <<queue, monitor, childExecs, skipped, mistaken>>

Supervises ==
    /\ UNCHANGED <<sending, dying, attempts>>
    /\ Detects \/ Passes \/ Stops \/ Reads \/ Skips \/ Closes \/ Returns

Moves == \/ \E d \in Dispatchers : Dispatches(d)
         \/ \E w \in Workers : Works(w)
         \/ Death
         \/ Names
         \/ Supervises
         \/ UNCHANGED vars

(* The fields have the types of TypeOK.                                    *)
LEMMA FieldTypes ==
    ASSUME TypeOK
    PROVE  /\ \A w \in Workers : /\ queue[w].write \in Index /\ queue[w].read \in Index
                                 /\ queue[w].write \in Nat /\ queue[w].read \in Nat
                                 /\ queue[w].slots \in [Slot -> Messages \cup {0}]
                                 /\ monitor[w].status \in {Idle, Processing}
                                 /\ worker[w].msg \in Messages \cup {0}
                                 /\ worker[w].read \in Index
                                 /\ pushed[w] \in Seq(Messages)
           /\ \A d \in Dispatchers : /\ dispatcher[d].best \in Workers
                                     /\ dispatcher[d].i \in 0 .. WorkerCount
                                     /\ dispatcher[d].min \in Index
                                     /\ dispatcher[d].write \in Index
                                     /\ dispatcher[d].msg \in Messages \cup {0}
           /\ nextMessage \in 1 .. MaxMessages + 1
           /\ supervisor.read \in Index
           /\ supervisor.pc \in {"testing", "skipping", "storing", "ending"} =>
                  supervisor.w \in Workers
           /\ Workers \subseteq Int
<1>1. Index \subseteq Nat
  BY IndexRangeAssumption DEF Index
<1>2. ASSUME NEW w \in Workers
      PROVE  /\ queue[w].write \in Index /\ queue[w].read \in Index
             /\ queue[w].slots \in [Slot -> Messages \cup {0}]
             /\ monitor[w].status \in {Idle, Processing}
             /\ worker[w].msg \in Messages \cup {0}
             /\ worker[w].read \in Index
             /\ pushed[w] \in Seq(Messages)
  BY DEF TypeOK, Queue, Monitor, Worker
<1>3. ASSUME NEW d \in Dispatchers
      PROVE  /\ dispatcher[d].best \in Workers
             /\ dispatcher[d].i \in 0 .. WorkerCount
             /\ dispatcher[d].min \in Index
             /\ dispatcher[d].write \in Index
             /\ dispatcher[d].msg \in Messages \cup {0}
  BY DEF TypeOK, Dispatcher
<1>4. Workers \subseteq Int
  BY DEF Workers
<1>5. /\ supervisor.read \in Index
      /\ supervisor.pc \in {"testing", "skipping", "storing", "ending"} =>
             supervisor.w \in Workers
  BY DEF TypeOK, Supervisor
<1> QED
  BY <1>1, <1>2, <1>3, <1>4, <1>5 DEF TypeOK

(* Every step of the dispatching threads is one of theirs.                 *)
LEMMA DispatchMoves ==
    ASSUME TypeOK, NEW d \in Dispatchers, DispatchStep(d)
    PROVE  Dispatches(d)
<1> USE DEF sending
<1>1. dispatcher \in [Dispatchers -> Dispatcher] /\ queue \in [Workers -> Queue]
      /\ pushed \in [Workers -> Seq(Messages)]
  BY DEF TypeOK
<1>2. CASE DispatchStart(d)
  <2>1. Starts(d)
    BY <1>1, <1>2 DEF DispatchStart, Starts, Dispatcher, Messages, TypeOK
  <2> QED
    BY <1>1, <1>2, <2>1 DEF DispatchStart, Dispatches
<1>3. CASE DispatchScan(d)
  <2>1. Loads(d)
    BY <1>1, <1>3 DEF DispatchScan, Loads, Dispatcher
  <2> QED
    BY <1>1, <1>3, <2>1 DEF DispatchScan, Dispatches
<1>4. CASE DispatchCompare(d)
  <2>1. Sizes(d)
    BY <1>1, <1>4 DEF DispatchCompare, DispatchSized, Sizes, Dispatcher
  <2> QED
    BY <1>1, <1>4, <2>1 DEF DispatchCompare, DispatchSized, Dispatches
<1>5. CASE PushLoad(d)
  <2>1. Enters(d)
    BY <1>1, <1>5 DEF PushLoad, Enters, Dispatcher
  <2> QED
    BY <1>1, <1>5, <2>1 DEF PushLoad, Dispatches
<1>8. CASE FullLoad(d)
  <2>1. LoadsFull(d)
    BY <1>1, <1>8 DEF FullLoad, LoadsFull, Dispatcher
  <2> QED
    BY <1>1, <1>8, <2>1 DEF FullLoad, Dispatches
<1>9. CASE FullTest(d) \/ PushTest(d)
  <2>1. PICK pc \in {"loading", "constructing"} :
            /\ Tested(d, pc)
            /\ \/ pc = "loading" /\ dispatcher[d].pc = "testing"
               \/ pc = "constructing" /\ dispatcher[d].pc = "checking"
    BY <1>9 DEF FullTest, PushTest
  <2>2. GivesUp(d) \/ GoesOn(d)
    <3>1. CASE SeenFull(d)
      BY <1>1, <2>1, <3>1 DEF Tested, GivesUp
    <3>2. CASE ~SeenFull(d)
      <4>1. dispatcher' = [dispatcher EXCEPT ![d].pc = pc]
        BY <2>1, <3>2 DEF Tested
      <4> QED
        BY <1>1, <2>1, <3>2, <4>1 DEF Tested, GoesOn, Dispatcher
    <3> QED
      BY <3>1, <3>2
  <2>3. \A e \in Dispatchers \ {d} : dispatcher'[e] = dispatcher[e]
    BY <1>1, <2>1 DEF Tested
  <2> QED
    BY <2>1, <2>2, <2>3 DEF Tested, Dispatches
<1>6. CASE PushConstruct(d)
  <2>1. dispatcher[d].best \in Workers
    BY FieldTypes
  <2>2. Constructs(d)
    BY <1>1, <1>6, <2>1 DEF PushConstruct, Constructs, Dispatcher, Queue
  <2> QED
    BY <1>1, <1>6, <2>2 DEF PushConstruct, Dispatches
<1>7. CASE PushPublish(d)
  <2>1. dispatcher[d].best \in Workers
    BY FieldTypes
  <2>2. Publishes(d)
    BY <1>1, <1>7, <2>1 DEF PushPublish, Publishes, Queue
  <2> QED
    BY <1>1, <1>7, <2>2 DEF PushPublish, Dispatches
<1> QED
  BY <1>2, <1>3, <1>4, <1>5, <1>6, <1>7, <1>8, <1>9 DEF DispatchStep

(* Every step of a worker's thread is one of its, or the death of all.     *)
LEMMA WorkerMoves ==
    ASSUME TypeOK, Transactions, NEW w \in Workers, WorkerStep(w)
    PROVE  Works(w) \/ Death
<1> USE DEF To, attempts, process
<1>1. /\ worker \in [Workers -> Worker] /\ queue \in [Workers -> Queue]
      /\ monitor \in [Workers -> Monitor]
  BY DEF TypeOK
<1>2. worker[w].pc # "down" => processUp
  BY DEF Transactions
<1>3. CASE WorkerPeek(w)
  BY <1>1, <1>2, <1>3 DEF WorkerPeek, RequestQueueEmpty, Works, Peeks, Worker
<1>4. CASE BeginTransaction(w)
  BY <1>1, <1>2, <1>4 DEF BeginTransaction, Works, Begins, Worker, Monitor
<1>5. CASE Process(w)
  BY <1>1, <1>2, <1>5 DEF Process, Works, Finishes, Worker
<1>6. CASE EndTransaction(w)
  BY <1>1, <1>2, <1>6 DEF EndTransaction, Works, Ends, Worker, Monitor
<1>7. CASE PopLoad(w)
  <2>1. CASE RequestQueueEmpty(w)
    BY <1>1, <1>2, <1>7, <2>1 DEF PopLoad, Works, Fails, Quiet
  <2>2. CASE ~RequestQueueEmpty(w)
    <3> DEFINE index == queue[w].read
    <3>1. worker' = [worker EXCEPT ![w].pc = "popping", ![w].read = index]
      BY <1>1, <1>7, <2>2 DEF PopLoad
    <3> HIDE DEF index
    <3>2. /\ worker'[w].pc = "popping" /\ worker'[w].msg = worker[w].msg
          /\ worker'[w].read = index
          /\ \A v \in Workers \ {w} : worker'[v] = worker[v]
      BY <1>1, <3>1 DEF Worker
    <3> QED
      BY <1>1, <1>2, <1>7, <3>2 DEF PopLoad, Works, LoadsIndex, index
  <2> QED
    BY <2>1, <2>2
<1>9. CASE PopStore(w)
  <2>1. /\ queue'[w].write = queue[w].write /\ queue'[w].slots = queue[w].slots
        /\ queue'[w].read = Advance(worker[w].read, 1)
        /\ \A v \in Workers \ {w} : queue'[v] = queue[v]
    BY <1>1, <1>9 DEF PopStore, StoreRead, Queue
  <2> QED
    BY <1>1, <1>2, <1>9, <2>1 DEF PopStore, Works, Pops, Quiet
<1>8. CASE PoisonCrash(w)
  BY <1>2, <1>8 DEF PoisonCrash, Dies, Death, Quiet
<1> QED
  BY <1>3, <1>4, <1>5, <1>6, <1>7, <1>8, <1>9 DEF WorkerStep

(* A step of the supervisor is one of its moves.                           *)
LEMMA SuperviseMoves ==
    ASSUME TypeOK, Supervise
    PROVE  Supervises
<1> USE DEF process
<1>1. /\ queue \in [Workers -> Queue] /\ monitor \in [Workers -> Monitor]
      /\ supervisor \in Supervisor
  BY DEF TypeOK
<1>2. supervisor.pc \in {"testing", "skipping", "storing", "ending"} =>
          supervisor.w \in Workers
  BY FieldTypes
<1>3. supervisor = [pc |-> supervisor.pc, w |-> supervisor.w, read |-> supervisor.read]
  BY <1>1 DEF Supervisor
<1>4. CASE DetectCrash
  BY <1>4 DEF DetectCrash, Supervises, Detects
<1>5. CASE RecoverTest
  <2>1. monitor[supervisor.w].status \in {Idle, Processing}
    BY <1>2, <1>5, FieldTypes DEF RecoverTest
  <2>2. CASE monitor[supervisor.w].status = Processing
    <3>1. supervisor' = [supervisor EXCEPT !.pc = "skipping"]
      BY <1>5, <2>2 DEF RecoverTest
    <3>2. supervisor'.pc = "skipping" /\ supervisor'.w = supervisor.w
      BY <1>3, <3>1
    <3> QED
      BY <1>5, <2>2, <3>2 DEF RecoverTest, Supervises, Stops, watching
  <2>3. CASE monitor[supervisor.w].status # Processing
    BY <1>5, <2>1, <2>3 DEF RecoverTest, Supervises, Passes, watching
  <2> QED
    BY <2>2, <2>3
<1>6. CASE RecoverLoad
  <2> DEFINE index == queue[supervisor.w].read
  <2>1. supervisor' = [supervisor EXCEPT !.pc = "storing", !.read = index]
    BY <1>6 DEF RecoverLoad
  <2> HIDE DEF index
  <2>2. supervisor'.pc = "storing" /\ supervisor'.w = supervisor.w /\ supervisor'.read = index
    BY <1>3, <2>1
  <2> QED
    BY <1>6, <2>2 DEF RecoverLoad, Supervises, Reads, index, watching
<1>7. CASE RecoverSkip
  <2>1. supervisor.w \in Workers
    BY <1>2, <1>7 DEF RecoverSkip, Skip
  <2>2. /\ queue'[supervisor.w].write = queue[supervisor.w].write
        /\ queue'[supervisor.w].slots = queue[supervisor.w].slots
        /\ queue'[supervisor.w].read = Advance(supervisor.read, 1)
        /\ \A v \in Workers \ {supervisor.w} : queue'[v] = queue[v]
    BY <1>1, <1>7, <2>1 DEF RecoverSkip, StoreRead, Queue
  <2>3. supervisor'.pc = "ending" /\ supervisor'.w = supervisor.w
    BY <1>3, <1>7 DEF RecoverSkip, Skip
  <2> QED
    BY <1>7, <2>2, <2>3 DEF RecoverSkip, Skip, Supervises, Skips, watching
<1>8. CASE RecoverEnd
  <2>1. supervisor.w \in Workers
    BY <1>2, <1>8 DEF RecoverEnd
  <2>2. /\ monitor'[supervisor.w].status = Idle
        /\ \A v \in Workers \ {supervisor.w} : monitor'[v] = monitor[v]
    BY <1>1, <1>8, <2>1 DEF RecoverEnd, Monitor
  <2> QED
    BY <1>8, <2>2 DEF RecoverEnd, Supervises, Closes, watching
<1>9. CASE Restart
  <2>1. CASE ~processUp /\ childExecs
    BY <1>9, <2>1 DEF Restart, Supervises, Returns, Quiet
  <2>2. CASE processUp \/ ~childExecs
    <3>1. (processUp <=> processUp') /\ worker' = worker
      BY <1>9, <2>2 DEF Restart
    <3>2. processUp \in BOOLEAN /\ processUp' \in BOOLEAN
      BY <1>9 DEF Restart, TypeOK
    <3> QED
      BY <1>9, <2>2, <3>1, <3>2 DEF Restart, Supervises, Returns
  <2> QED
    BY <2>1, <2>2 DEF TypeOK
<1> QED
  BY <1>4, <1>5, <1>6, <1>7, <1>8, <1>9 DEF Supervise

(* Every step is one of the moves.                                         *)
LEMMA StepMoves ==
    ASSUME TypeOK, Transactions, [Next]_vars
    PROVE  Moves
<1>1. CASE Crash
  BY <1>1 DEF Crash, Dies, Death, Moves, Quiet
<1>2. CASE PidStored
  BY <1>2 DEF PidStored, Names, Moves
<1> QED
  BY <1>1, <1>2, DispatchMoves, WorkerMoves, SuperviseMoves DEF Next, Moves
-----------------------------------------------------------------------------
(* Type correctness, step by step.                                         *)
LEMMA TypeDispatch ==
    ASSUME TypeOK, DispatcherShape, NEW d \in Dispatchers, DispatchStep(d)
    PROVE  TypeOK'
<1> USE DEF sending, process, watching, dying, attempts
<1>1. dispatcher \in [Dispatchers -> Dispatcher] /\ queue \in [Workers -> Queue]
      /\ pushed \in [Workers -> Seq(Messages)]
  BY DEF TypeOK
<1>2. CASE DispatchStart(d)
  <2>1. dispatcher' \in [Dispatchers -> Dispatcher]
    <3>1. nextMessage \in Messages
      BY <1>2, MaxMessagesAssumption DEF DispatchStart, Messages, TypeOK
    <3> QED
      BY <1>1, <1>2, <3>1 DEF DispatchStart, Dispatcher
  <2>2. nextMessage' \in 1 .. MaxMessages + 1
    BY <1>2, MaxMessagesAssumption DEF DispatchStart, TypeOK
  <2>3. rivals' \subseteq Dispatchers
    BY <1>2 DEF DispatchStart, Busy, TypeOK
  <2> QED
    BY <1>2, <2>1, <2>2, <2>3 DEF DispatchStart, TypeOK
<1>3. CASE DispatchScan(d)
  <2>1. dispatcher[d].i \in Workers
    BY <1>3, FieldTypes, WorkerCountAssumption DEF DispatchScan, DispatcherShape, ThreadShape, Workers
  <2>2. queue[dispatcher[d].i].write \in Index
    BY <2>1, FieldTypes
  <2>3. dispatcher' \in [Dispatchers -> Dispatcher]
    BY <1>1, <1>3, <2>2 DEF DispatchScan, Dispatcher
  <2> QED
    BY <1>3, <2>3 DEF DispatchScan, TypeOK
<1>4. CASE DispatchCompare(d)
  <2>1. dispatcher[d].i \in Workers /\ dispatcher[d].i + 1 \in 0 .. WorkerCount
    BY <1>4, FieldTypes, WorkerCountAssumption
       DEF DispatchCompare, DispatchSized, DispatcherShape, ThreadShape, Workers
  <2>2. Used(dispatcher[d].write, queue[dispatcher[d].i].read) \in Index
    BY <2>1, FieldTypes, UsedInIndex
  <2>3. 0 \in Index
    BY IndexRangeAssumption, CapacityAssumption DEF Index
  <2>4. dispatcher' \in [Dispatchers -> Dispatcher]
    <3> DEFINE i == dispatcher[d].i
               size == Used(dispatcher[d].write, queue[i].read)
               better == i = 0 \/ size < dispatcher[d].min
               best == IF better THEN i ELSE dispatcher[d].best
               min == IF better THEN size ELSE dispatcher[d].min
               pc == IF i + 1 = WorkerCount THEN "pushing" ELSE "scanning"
    <3>1. best \in Workers /\ min \in Index /\ i + 1 \in 0 .. WorkerCount
      BY <2>1, <2>2, FieldTypes
    <3>2. pc \in {"pushing", "scanning"}
      OBVIOUS
    <3> DEFINE next == [pc |-> pc, msg |-> dispatcher[d].msg, i |-> i + 1,
                        best |-> best, min |-> min, write |-> 0]
    <3>3. dispatcher' = [dispatcher EXCEPT ![d] = next]
      BY <1>1, <1>4 DEF DispatchCompare, DispatchSized, Dispatcher
    <3> HIDE DEF best, min, pc
    <3>4. next \in Dispatcher
      BY <2>3, <3>1, <3>2, FieldTypes DEF Dispatcher
    <3> HIDE DEF next
    <3> QED
      BY <1>1, <3>3, <3>4
  <2> QED
    BY <1>4, <2>4 DEF DispatchCompare, DispatchSized, TypeOK
<1>5. Resting \in Dispatcher
  <2>1. 0 \in Index /\ 0 \in Workers /\ 0 \in 0 .. WorkerCount
    BY IndexRangeAssumption, CapacityAssumption, WorkerCountAssumption DEF Index, Workers
  <2> QED
    BY <2>1 DEF Resting, Dispatcher
<1>6. CASE PushLoad(d) \/ FullLoad(d)
  <2>1. dispatcher[d].best \in Workers /\ queue[dispatcher[d].best].write \in Index
    BY FieldTypes
  <2> DEFINE write == queue[dispatcher[d].best].write
  <2>2. \/ dispatcher' = [dispatcher EXCEPT ![d].pc = "checking", ![d].write = write]
        \/ dispatcher' = [dispatcher EXCEPT ![d].pc = "testing", ![d].write = write]
    BY <1>6 DEF PushLoad, FullLoad
  <2>3. dispatcher' \in [Dispatchers -> Dispatcher]
    <3>1. write \in Index
      BY <2>1
    <3> HIDE DEF write
    <3>2. CASE dispatcher' = [dispatcher EXCEPT ![d].pc = "checking", ![d].write = write]
      BY <1>1, <3>1, <3>2 DEF Dispatcher
    <3>3. CASE dispatcher' = [dispatcher EXCEPT ![d].pc = "testing", ![d].write = write]
      BY <1>1, <3>1, <3>3 DEF Dispatcher
    <3> QED
      BY <2>2, <3>2, <3>3
  <2>4. overlapped' \subseteq Workers
    BY <1>6, <2>1 DEF PushLoad, FullLoad, TypeOK
  <2> QED
    BY <1>6, <2>3, <2>4 DEF PushLoad, FullLoad, TypeOK
<1>9. CASE FullTest(d) \/ PushTest(d)
  <2>1. PICK pc \in {"loading", "constructing"} : Tested(d, pc)
    BY <1>9 DEF FullTest, PushTest
  <2>2. dispatcher' \in [Dispatchers -> Dispatcher]
    <3>1. CASE SeenFull(d)
      BY <1>1, <1>5, <2>1, <3>1 DEF Tested
    <3>2. CASE ~SeenFull(d)
      <4>1. dispatcher' = [dispatcher EXCEPT ![d].pc = pc]
        BY <2>1, <3>2 DEF Tested
      <4> QED
        BY <1>1, <4>1 DEF Dispatcher
    <3> QED
      BY <3>1, <3>2
  <2> QED
    BY <2>1, <2>2 DEF Tested, TypeOK
<1>7. CASE PushConstruct(d)
  <2>1. dispatcher[d].best \in Workers /\ dispatcher[d].msg \in Messages \cup {0}
    BY FieldTypes
  <2>2. queue' \in [Workers -> Queue]
    BY <1>1, <1>7, <2>1 DEF PushConstruct, Queue
  <2>3. dispatcher' \in [Dispatchers -> Dispatcher]
    BY <1>1, <1>7 DEF PushConstruct, Dispatcher
  <2> QED
    BY <1>7, <2>2, <2>3 DEF PushConstruct, TypeOK
<1>8. CASE PushPublish(d)
  <2>1. dispatcher[d].best \in Workers /\ Advance(dispatcher[d].write, 1) \in Index
    BY FieldTypes, AdvanceInIndex, IndexRangeAssumption, CapacityAssumption
  <2>2. queue' \in [Workers -> Queue]
    BY <1>1, <1>8, <2>1 DEF PushPublish, Queue
  <2>3. dispatcher[d].msg \in Messages
    BY <1>8, FieldTypes, MaxMessagesAssumption
       DEF PushPublish, DispatcherShape, ThreadShape, Busy, Messages
  <2>4. pushed' \in [Workers -> Seq(Messages)]
    BY <1>1, <1>8, <2>1, <2>3 DEF PushPublish
  <2>5. dispatcher' \in [Dispatchers -> Dispatcher]
    BY <1>1, <1>5, <1>8 DEF PushPublish
  <2> QED
    BY <1>8, <2>2, <2>4, <2>5 DEF PushPublish, TypeOK
<1> QED
  BY <1>2, <1>3, <1>4, <1>6, <1>7, <1>8, <1>9 DEF DispatchStep

(* A history still counts.                                                 *)
LEMMA CountType ==
    ASSUME NEW hist \in [Messages -> Nat], NEW msg
    PROVE  Count(hist, msg) \in [Messages -> Nat]
  BY DEF Count

(* The death of the process keeps the types.                               *)
LEMMA DiesType ==
    ASSUME TypeOK, Dies, crashes' \in 0 .. MaxCrashes
    PROVE  TypeOK'
<1>1. worker' \in [Workers -> Worker]
  BY IndexRangeAssumption, CapacityAssumption DEF Dies, Quiet, Worker, Index
<1>2. deaths' \in Nat
  BY DEF Dies, TypeOK
<1> QED
  BY <1>1, <1>2 DEF Dies, TypeOK, sending, watching, attempts

(* The steps of a worker's thread do.                                      *)
LEMMA TypeWorker ==
    ASSUME TypeOK, NEW w \in Workers, WorkerStep(w)
    PROVE  TypeOK'
<1> USE DEF sending, watching, dying, attempts
<1>1. /\ worker \in [Workers -> Worker] /\ queue \in [Workers -> Queue]
      /\ monitor \in [Workers -> Monitor]
  BY DEF TypeOK
<1>2. ASSUME NEW index \in Index PROVE Advance(index, 1) \in Index
  BY AdvanceInIndex, IndexRangeAssumption, CapacityAssumption
<1>3. CASE WorkerPeek(w)
  <2>1. Front(w) \in Messages \cup {0}
    BY FieldTypes, SlotOfInSlot DEF Front
  <2>2. worker' \in [Workers -> Worker]
    BY <1>1, <1>3, <2>1 DEF WorkerPeek, Worker
  <2> QED
    BY <1>3, <2>2 DEF WorkerPeek, TypeOK
<1>4. CASE BeginTransaction(w)
  <2>1. worker' \in [Workers -> Worker] /\ monitor' \in [Workers -> Monitor]
    BY <1>1, <1>4 DEF BeginTransaction, To, Worker, Monitor
  <2> QED
    BY <1>4, <2>1, CountType DEF BeginTransaction, TypeOK
<1>5. Quiet("idle") \in Worker
  BY IndexRangeAssumption, CapacityAssumption DEF Quiet, Worker, Index
<1>6. CASE Process(w)
  <2>1. worker' \in [Workers -> Worker]
    BY <1>1, <1>6 DEF Process, To, Worker
  <2> QED
    BY <1>6, <2>1, CountType DEF Process, TypeOK
<1>7. CASE EndTransaction(w)
  <2>1. worker' \in [Workers -> Worker] /\ monitor' \in [Workers -> Monitor]
    BY <1>1, <1>7 DEF EndTransaction, To, Worker, Monitor
  <2> QED
    BY <1>7, <2>1 DEF EndTransaction, TypeOK
<1>8. CASE PopStore(w)
  <2>1. worker' \in [Workers -> Worker]
    BY <1>1, <1>5, <1>8 DEF PopStore
  <2>2. Advance(worker[w].read, 1) \in Index
    BY <1>2, FieldTypes
  <2>3. queue' \in [Workers -> Queue]
    BY <1>1, <1>8, <2>2 DEF PopStore, StoreRead, Queue
  <2> QED
    BY <1>8, <2>1, <2>3 DEF PopStore, TypeOK
<1>10. CASE PopLoad(w)
  <2>1. worker' \in [Workers -> Worker]
    <3>1. CASE RequestQueueEmpty(w)
      BY <1>1, <1>5, <1>10, <3>1 DEF PopLoad
    <3>2. CASE ~RequestQueueEmpty(w)
      <4> DEFINE index == queue[w].read
      <4>1. worker' = [worker EXCEPT ![w].pc = "popping", ![w].read = index]
        BY <1>1, <1>10, <3>2 DEF PopLoad
      <4>2. index \in Index
        BY FieldTypes
      <4> HIDE DEF index
      <4> QED
        BY <1>1, <4>1, <4>2 DEF Worker
    <3> QED
      BY <3>1, <3>2
  <2> QED
    BY <1>10, <2>1 DEF PopLoad, TypeOK
<1>9. CASE PoisonCrash(w)
  <2>1. crashes' \in 0 .. MaxCrashes
    BY <1>9 DEF PoisonCrash, TypeOK
  <2> QED
    BY <1>9, <2>1, DiesType DEF PoisonCrash
<1> QED
  BY <1>3, <1>4, <1>6, <1>7, <1>8, <1>9, <1>10 DEF WorkerStep

(* Recovery goes from one worker to the next and stops behind the last.    *)
LEMMA NextWorkerType ==
    ASSUME TypeOK, supervisor.pc \in {"testing", "ending"}
    PROVE  NextWorker \in Supervisor
<1>1. supervisor.w \in Workers /\ 0 \in Index
  BY FieldTypes, IndexRangeAssumption, CapacityAssumption DEF Index
<1>2. CASE supervisor.w + 1 = WorkerCount
  BY <1>1, <1>2 DEF NextWorker, Supervisor
<1>3. CASE supervisor.w + 1 # WorkerCount
  <2>1. supervisor.w + 1 \in Workers
    BY <1>1, <1>3, WorkerCountAssumption DEF Workers
  <2> QED
    BY <1>1, <1>3, <2>1 DEF NextWorker, Supervisor
<1> QED
  BY <1>2, <1>3

(* The steps of the supervisor keep the types.                             *)
LEMMA TypeSupervise ==
    ASSUME TypeOK, Supervise
    PROVE  TypeOK'
<1> USE DEF sending, process, watching, dying, attempts
<1>1. /\ worker \in [Workers -> Worker] /\ queue \in [Workers -> Queue]
      /\ monitor \in [Workers -> Monitor] /\ supervisor \in Supervisor
  BY DEF TypeOK
<1>2. supervisor.pc \in {"testing", "skipping", "storing", "ending"} =>
          supervisor.w \in Workers
  BY FieldTypes
<1>3. 0 \in Index
  BY IndexRangeAssumption, CapacityAssumption DEF Index
<1>4. CASE DetectCrash
  <2>1. supervisor' \in Supervisor
    BY <1>3, <1>4, WorkerCountAssumption DEF DetectCrash, Supervisor, Workers
  <2> QED
    BY <1>4, <2>1 DEF DetectCrash, TypeOK
<1>5. CASE RecoverTest
  <2>1. supervisor.pc = "testing" /\ supervisor.w \in Workers
    BY <1>2, <1>5 DEF RecoverTest
  <2>2. supervisor' \in Supervisor
    <3>1. [supervisor EXCEPT !.pc = "skipping"] \in Supervisor
      BY <1>1, <2>1 DEF Supervisor
    <3> QED
      BY <1>5, <2>1, <3>1, NextWorkerType DEF RecoverTest
  <2>3. mistaken' \subseteq Workers
    BY <1>5, <2>1 DEF RecoverTest, TypeOK
  <2> QED
    BY <1>5, <2>2, <2>3 DEF RecoverTest, TypeOK
<1>6. CASE RecoverLoad
  <2>1. supervisor.w \in Workers /\ queue[supervisor.w].read \in Index
    BY <1>2, <1>6, FieldTypes DEF RecoverLoad
  <2>2. supervisor' \in Supervisor
    BY <1>1, <1>6, <2>1 DEF RecoverLoad, Supervisor
  <2> QED
    BY <1>6, <2>2 DEF RecoverLoad, TypeOK
<1>7. CASE RecoverSkip
  <2>1. supervisor.w \in Workers
    BY <1>2, <1>7 DEF RecoverSkip, Skip
  <2>2. supervisor' \in Supervisor
    BY <1>1, <1>3, <1>7, <2>1 DEF RecoverSkip, Skip, Supervisor
  <2>3. queue' \in [Workers -> Queue]
    <3>1. Advance(supervisor.read, 1) \in Index
      BY FieldTypes, AdvanceInIndex, IndexRangeAssumption, CapacityAssumption
    <3> QED
      BY <1>1, <1>7, <2>1, <3>1 DEF RecoverSkip, StoreRead, Queue
  <2>4. queue[supervisor.w].slots[SlotOf(supervisor.read)] \in Messages \cup {0}
    <3>1. queue[supervisor.w].slots \in [Slot -> Messages \cup {0}]
      BY <2>1, FieldTypes
    <3>2. SlotOf(supervisor.read) \in Slot
      <4>1. supervisor.read \in Nat
        BY FieldTypes, IndexRangeAssumption DEF Index
      <4> QED
        BY <4>1, SlotOfInSlot
    <3> QED
      BY <3>1, <3>2
  <2> QED
    BY <1>7, <2>2, <2>3, <2>4 DEF RecoverSkip, Skip, TypeOK
<1>8. CASE RecoverEnd
  <2>1. supervisor.w \in Workers
    BY <1>2, <1>8 DEF RecoverEnd
  <2>2. monitor' \in [Workers -> Monitor]
    BY <1>1, <1>8, <2>1 DEF RecoverEnd, Monitor
  <2>3. supervisor' \in Supervisor
    BY <1>8, NextWorkerType DEF RecoverEnd
  <2> QED
    BY <1>8, <2>2, <2>3 DEF RecoverEnd, TypeOK
<1>9. CASE Restart
  <2>1. worker' \in [Workers -> Worker]
    BY <1>1, <1>3, <1>9 DEF Restart, Quiet, Worker
  <2>2. supervisor' \in Supervisor
    BY <1>3, <1>9 DEF Restart, Supervisor
  <2> QED
    BY <1>9, <2>1, <2>2 DEF Restart, TypeOK
<1> QED
  BY <1>4, <1>5, <1>6, <1>7, <1>8, <1>9 DEF Supervise

(* Every step keeps the types.                                             *)
LEMMA TypeStep ==
    ASSUME TypeOK, DispatcherShape, [Next]_vars
    PROVE  TypeOK'
<1>1. CASE Crash
  <2>1. crashes' \in 0 .. MaxCrashes
    BY <1>1, MaxCrashesAssumption DEF Crash, TypeOK
  <2> QED
    BY <1>1, <2>1, DiesType DEF Crash
<1>2. CASE UNCHANGED vars
  BY <1>2 DEF vars, sending, process, watching, dying, attempts, TypeOK
<1>3. CASE PidStored
  BY <1>3 DEF PidStored, sending, process, dying, attempts, TypeOK
<1> QED
  BY <1>1, <1>2, <1>3, TypeDispatch, TypeWorker, TypeSupervise DEF Next
-----------------------------------------------------------------------------
(* The dispatching threads keep to their loops.                            *)
LEMMA DispatcherShapeStep ==
    ASSUME TypeOK, DispatcherShape, Moves
    PROVE  DispatcherShape'
<1> SUFFICES ASSUME NEW e \in Dispatchers PROVE ThreadShape(e)'
  BY DEF DispatcherShape
<1>1. ThreadShape(e)
  BY DEF DispatcherShape
<1>2. nextMessage \in Nat /\ dispatcher[e].i \in Int
  BY FieldTypes
<1>3. CASE UNCHANGED sending
  BY <1>1, <1>3 DEF sending, ThreadShape, Busy
<1>4. ASSUME NEW d \in Dispatchers, Dispatches(d)
      PROVE  ThreadShape(e)'
  <2>1. CASE e # d
    <3>1. dispatcher'[e] = dispatcher[e]
      BY <1>4, <2>1 DEF Dispatches
    <3>2. nextMessage' \in Int /\ nextMessage' >= nextMessage
      BY <1>2, <1>4
         DEF Dispatches, Starts, Loads, Sizes, GivesUp, LoadsFull, GoesOn, Enters, Constructs,
             Publishes
    <3> QED
      BY <1>1, <1>2, <3>1, <3>2 DEF ThreadShape, Busy
  <2>2. CASE e = d
    <3> USE <2>2 DEF ThreadShape, Busy, Chosen
    <3>1. CASE Starts(d)
      BY <1>1, <1>2, <3>1, WorkerCountAssumption DEF Starts, Messages
    <3>2. CASE Loads(d)
      BY <1>1, <3>2 DEF Loads
    <3>3. CASE Sizes(d)
      BY <1>1, <1>2, <3>3, FieldTypes, WorkerCountAssumption DEF Sizes
    <3>4. CASE GivesUp(d) \/ Publishes(d)
      BY <3>4 DEF GivesUp, Publishes, Resting
    <3>5. CASE Enters(d)
      BY <1>1, <3>5 DEF Enters
    <3>6. CASE Constructs(d)
      BY <1>1, <3>6 DEF Constructs
    <3>7. CASE LoadsFull(d) \/ GoesOn(d)
      BY <1>1, <3>7 DEF LoadsFull, GoesOn
    <3> QED
      BY <1>4, <3>1, <3>2, <3>3, <3>4, <3>5, <3>6, <3>7 DEF Dispatches
  <2> QED
    BY <2>1, <2>2
<1> QED
  BY <1>3, <1>4 DEF Moves, Works, Death, Names, Supervises, vars

(* What a busy thread sends it has sent before the step, or it has taken   *)
(* the next number for it.                                                 *)
LEMMA SenderStep ==
    ASSUME TypeOK, Moves, NEW e \in Dispatchers, e \in Busy'
    PROVE  \/ e \in Busy /\ dispatcher'[e].msg = dispatcher[e].msg
           \/ Starts(e) /\ \A f \in Dispatchers \ {e} : dispatcher'[f] = dispatcher[f]
<1>1. CASE UNCHANGED sending
  BY <1>1 DEF sending, Busy
<1>2. ASSUME NEW d \in Dispatchers, Dispatches(d), d # e
      PROVE  e \in Busy /\ dispatcher'[e].msg = dispatcher[e].msg
  BY <1>2 DEF Dispatches, Busy
<1>3. ASSUME Dispatches(e)
      PROVE  \/ e \in Busy /\ dispatcher'[e].msg = dispatcher[e].msg
             \/ Starts(e)
  <2>1. CASE GivesUp(e) \/ Publishes(e)
    BY <2>1 DEF GivesUp, Publishes, Resting, Busy
  <2> QED
    BY <1>3, <2>1 DEF Dispatches, Loads, Sizes, LoadsFull, GoesOn, Enters, Constructs, Busy
<1> QED
  BY <1>1, <1>2, <1>3 DEF Moves, Works, Death, Names, Supervises, vars, Dispatches

(* A queue's history grows by what its pusher has published.               *)
LEMMA PushedStep ==
    ASSUME TypeOK, Moves, NEW w \in Workers
    PROVE  /\ Len(pushed[w]) \in Nat /\ DOMAIN pushed[w] = 1 .. Len(pushed[w])
           /\ \/ pushed'[w] = pushed[w]
              \/ \E d \in Dispatchers :
                    /\ Publishes(d) /\ Dispatches(d) /\ dispatcher[d].best = w
                    /\ Len(pushed'[w]) = Len(pushed[w]) + 1
                    /\ DOMAIN pushed'[w] = 1 .. Len(pushed[w]) + 1
                    /\ \A k \in DOMAIN pushed[w] : pushed'[w][k] = pushed[w][k]
                    /\ pushed'[w][Len(pushed[w]) + 1] = dispatcher[d].msg
<1>1. pushed[w] \in Seq(Messages)
  BY FieldTypes
<1>2. CASE UNCHANGED sending
  BY <1>1, <1>2 DEF sending
<1>3. ASSUME NEW d \in Dispatchers, Dispatches(d), pushed'[w] # pushed[w]
      PROVE  /\ Publishes(d) /\ dispatcher[d].best = w
             /\ pushed'[w] = Append(pushed[w], dispatcher[d].msg)
  <2>1. Publishes(d)
    BY <1>3
       DEF Dispatches, Starts, Loads, Sizes, GivesUp, LoadsFull, GoesOn, Enters, Constructs
  <2> QED
    BY <1>3, <2>1 DEF Publishes
<1>4. ASSUME NEW m
      PROVE  /\ Len(Append(pushed[w], m)) = Len(pushed[w]) + 1
             /\ DOMAIN Append(pushed[w], m) = 1 .. Len(pushed[w]) + 1
             /\ \A k \in DOMAIN pushed[w] : Append(pushed[w], m)[k] = pushed[w][k]
             /\ Append(pushed[w], m)[Len(pushed[w]) + 1] = m
  BY <1>1
<1>5. Len(pushed[w]) \in Nat /\ DOMAIN pushed[w] = 1 .. Len(pushed[w])
  BY <1>1
<1> QED
  BY <1>2, <1>3, <1>4, <1>5 DEF Moves, Works, Death, Names, Supervises, vars

(* No number is given twice.                                               *)
LEMMA NumbersStep ==
    ASSUME TypeOK, DispatcherShape, Numbers, Moves
    PROVE  Numbers'
<1> DEFINE Sends(e) == e \in Busy /\ dispatcher'[e].msg = dispatcher[e].msg
           Fresh(e) == /\ dispatcher'[e].msg = nextMessage /\ e \notin Busy
                       /\ nextMessage' = nextMessage + 1 /\ pushed' = pushed
                       /\ \A f \in Dispatchers \ {e} : dispatcher'[f] = dispatcher[f]
<1>1. ASSUME NEW e \in Dispatchers, e \in Busy' PROVE Sends(e) \/ Fresh(e)
  BY <1>1, SenderStep DEF Starts, Busy
<1>2. ASSUME NEW e \in Busy
      PROVE  dispatcher[e].msg \in Int /\ dispatcher[e].msg < nextMessage
  BY FieldTypes DEF DispatcherShape, ThreadShape, Busy
<1>3. nextMessage \in Int /\ nextMessage' \in Int /\ nextMessage' >= nextMessage
  <2>1. nextMessage \in Int
    BY FieldTypes
  <2>2. ASSUME NEW d \in Dispatchers, Dispatches(d)
        PROVE  nextMessage' = nextMessage \/ nextMessage' = nextMessage + 1
    BY <2>2
       DEF Dispatches, Starts, Loads, Sizes, GivesUp, LoadsFull, GoesOn, Enters, Constructs,
           Publishes
  <2>3. nextMessage' = nextMessage \/ nextMessage' = nextMessage + 1
    BY <2>2 DEF Moves, Works, Death, Names, Supervises, vars, sending
  <2> QED
    BY <2>1, <2>3
<1>4. ASSUME NEW d \in Dispatchers, d \in Busy', NEW e \in Dispatchers, e \in Busy',
             dispatcher'[d].msg = dispatcher'[e].msg
      PROVE  d = e
  <2>1. CASE Sends(d) /\ Sends(e)
    BY <1>4, <2>1 DEF Numbers
  <2>2. CASE Fresh(d)
    <3>1. d = e \/ Sends(e)
      BY <1>1, <1>4, <2>2 DEF Busy
    <3> QED
      BY <1>2, <1>3, <1>4, <2>2, <3>1
  <2>3. CASE Fresh(e)
    <3>1. d = e \/ Sends(d)
      BY <1>1, <1>4, <2>3 DEF Busy
    <3> QED
      BY <1>2, <1>3, <1>4, <2>3, <3>1
  <2> QED
    BY <1>1, <1>4, <2>1, <2>2, <2>3
<1> DEFINE Kept(w, k) == k \in DOMAIN pushed[w] /\ pushed'[w][k] = pushed[w][k]
           New(w, k) == \E d \in Busy :
                           /\ d \notin Busy' /\ pushed'[w][k] = dispatcher[d].msg
                           /\ k = Len(pushed[w]) + 1 /\ nextMessage' = nextMessage
                           /\ \A v \in Workers \ {w} : pushed'[v] = pushed[v]
<1>5. ASSUME NEW w \in Workers, NEW k \in DOMAIN pushed'[w]
      PROVE  Kept(w, k) \/ New(w, k)
  <2>1. CASE pushed'[w] = pushed[w]
    BY <2>1
  <2>2. ASSUME NEW d \in Dispatchers, Publishes(d), dispatcher[d].best = w,
               DOMAIN pushed'[w] = 1 .. Len(pushed[w]) + 1,
               DOMAIN pushed[w] = 1 .. Len(pushed[w]), Len(pushed[w]) \in Nat,
               \A l \in DOMAIN pushed[w] : pushed'[w][l] = pushed[w][l],
               pushed'[w][Len(pushed[w]) + 1] = dispatcher[d].msg
        PROVE  Kept(w, k) \/ New(w, k)
    <3>1. /\ d \in Busy /\ d \notin Busy' /\ nextMessage' = nextMessage
          /\ \A v \in Workers \ {w} : pushed'[v] = pushed[v]
      BY <2>2 DEF Publishes, Resting, Busy
    <3>2. k \in DOMAIN pushed[w] \/ k = Len(pushed[w]) + 1
      BY <2>2
    <3> QED
      BY <2>2, <3>1, <3>2
  <2> QED
    BY <2>1, <2>2, PushedStep
<1>6. ASSUME NEW w \in Workers, NEW k \in DOMAIN pushed'[w]
      PROVE  /\ pushed'[w][k] < nextMessage'
             /\ \A d \in Busy' : dispatcher'[d].msg # pushed'[w][k]
             /\ \A v \in Workers : \A l \in DOMAIN pushed'[v] :
                    pushed'[w][k] = pushed'[v][l] => w = v /\ k = l
  <2>1. CASE Kept(w, k)
    <3>1. /\ pushed[w][k] < nextMessage /\ pushed[w][k] \in Int
          /\ \A d \in Busy : dispatcher[d].msg # pushed[w][k]
          /\ \A v \in Workers : \A l \in DOMAIN pushed[v] :
                 pushed[w][k] = pushed[v][l] => w = v /\ k = l
      <4>1. pushed[w][k] \in Messages
        BY <2>1, FieldTypes
      <4> QED
        BY <2>1, <4>1 DEF Numbers, Messages
    <3>2. ASSUME NEW d \in Busy' PROVE dispatcher'[d].msg # pushed'[w][k]
      BY <1>1, <1>3, <2>1, <3>1 DEF Busy
    <3>3. ASSUME NEW v \in Workers, NEW l \in DOMAIN pushed'[v], pushed'[w][k] = pushed'[v][l]
          PROVE  w = v /\ k = l
      BY <1>5, <2>1, <3>1, <3>3
    <3> QED
      BY <1>3, <2>1, <3>1, <3>2, <3>3
  <2>2. CASE New(w, k)
    <3>1. PICK d \in Busy : /\ d \notin Busy' /\ pushed'[w][k] = dispatcher[d].msg
                            /\ k = Len(pushed[w]) + 1 /\ nextMessage' = nextMessage
                            /\ \A v \in Workers \ {w} : pushed'[v] = pushed[v]
      BY <2>2
    <3>2. ASSUME NEW e \in Busy' PROVE dispatcher'[e].msg # pushed'[w][k]
      <4>1. Sends(e)
        BY <1>1, <1>3, <3>1 DEF Busy
      <4> QED
        BY <3>1, <4>1 DEF Numbers
    <3>3. ASSUME NEW v \in Workers, NEW l \in DOMAIN pushed'[v], pushed'[w][k] = pushed'[v][l]
          PROVE  w = v /\ k = l
      <4>1. ~Kept(v, l)
        BY <3>1, <3>3 DEF Numbers
      <4>2. New(v, l) /\ v = w
        BY <1>5, <3>1, <4>1
      <4> QED
        BY <3>1, <4>2
    <3> QED
      BY <1>2, <3>1, <3>2, <3>3
  <2> QED
    BY <1>5, <2>1, <2>2
<1> QED
  BY <1>4, <1>6 DEF Numbers, Busy
-----------------------------------------------------------------------------
(* What is meant for a queue stays meant for it.                           *)
LEMMA OwnStays ==
    ASSUME TypeOK, Moves, NEW w \in Workers, NEW m \in Own(w)
    PROVE  m \in Own(w)'
<1>1. CASE m \in Sent(w)
  <2>1. PICK k \in DOMAIN pushed[w] : m = pushed[w][k]
    BY <1>1 DEF Sent
  <2>2. k \in DOMAIN pushed'[w] /\ m = pushed'[w][k]
    BY <2>1, PushedStep
  <2> QED
    BY <2>2 DEF Sent, Own
<1>2. ASSUME NEW e \in Writing(w), m = dispatcher[e].msg
      PROVE  m \in Own(w)'
  <2>1. e \in Dispatchers /\ dispatcher[e].pc \in {"constructing", "publishing"}
        /\ dispatcher[e].best = w
    BY <1>2 DEF Writing, Pushing
  <2>2. CASE dispatcher'[e] = dispatcher[e]
    BY <1>2, <2>1, <2>2 DEF Own, Writing, Pushing
  <2>3. CASE Dispatches(e)
    <3>1. Constructs(e) \/ Publishes(e)
      BY <2>1, <2>3 DEF Dispatches, Starts, Loads, Sizes, GivesUp, LoadsFull, GoesOn, Enters
    <3>2. CASE Constructs(e)
      BY <1>2, <2>1, <3>2 DEF Constructs, Own, Writing, Pushing
    <3>3. CASE Publishes(e)
      <4>1. pushed[w] \in Seq(Messages)
        BY FieldTypes
      <4>2. Len(pushed[w]) + 1 \in DOMAIN pushed'[w]
            /\ pushed'[w][Len(pushed[w]) + 1] = m
        BY <1>2, <2>1, <3>3, <4>1 DEF Publishes
      <4> QED
        BY <4>2 DEF Own, Sent
    <3> QED
      BY <3>1, <3>2, <3>3
  <2> QED
    BY <2>1, <2>2, <2>3 DEF Moves, Dispatches, Works, Death, Names, Supervises, vars, sending
<1> QED
  BY <1>1, <1>2 DEF Own

(* It is meant for no other queue.                                         *)
LEMMA OwnApart ==
    ASSUME TypeOK, Numbers, NEW w \in Workers, NEW v \in Workers,
           NEW m \in Own(w), m \in Own(v)
    PROVE  w = v
<1> USE DEF Numbers, Sent, Writing, Pushing, Busy
<1>1. CASE m \in Sent(w) /\ m \in Sent(v)
  BY <1>1
<1>2. ASSUME NEW d \in Writing(w), m = dispatcher[d].msg, m \in Sent(v) PROVE FALSE
  BY <1>2
<1>3. ASSUME NEW d \in Writing(v), m = dispatcher[d].msg, m \in Sent(w) PROVE FALSE
  BY <1>3
<1>4. ASSUME NEW d \in Writing(w), m = dispatcher[d].msg,
             NEW e \in Writing(v), m = dispatcher[e].msg
      PROVE  w = v
  <2>1. d = e
    BY <1>4
  <2> QED
    BY <1>4, <2>1
<1> QED
  BY <1>1, <1>2, <1>3, <1>4 DEF Own

(* A slot is only ever assigned what its queue is sent.                    *)
LEMMA BelongsStep ==
    ASSUME TypeOK, Belongs, Moves
    PROVE  Belongs'
<1>1. ASSUME NEW w \in Workers, NEW s \in Slot
      PROVE  queue'[w].slots[s] \in Own(w)' \cup {0}
  <2>1. queue[w].slots[s] \in Own(w) \cup {0}
    BY DEF Belongs
  <2>2. CASE queue'[w].slots[s] = queue[w].slots[s]
    BY <2>1, <2>2, OwnStays
  <2>3. ASSUME NEW d \in Dispatchers, Constructs(d), dispatcher[d].best = w,
               queue'[w].slots[s] # queue[w].slots[s]
        PROVE  queue'[w].slots[s] \in Own(w)'
    <3>1. queue[w].slots \in [Slot -> Messages \cup {0}]
      BY FieldTypes
    <3>2. queue'[w].slots[s] = dispatcher[d].msg
      BY <2>3, <3>1 DEF Constructs
    <3>3. d \in Writing(w)
      BY <2>3 DEF Constructs, Writing, Pushing
    <3> QED
      BY <3>2, <3>3, OwnStays DEF Own
  <2>4. CASE queue'[w].slots = queue[w].slots
    BY <2>2, <2>4
  <2>5. ASSUME NEW d \in Dispatchers, Dispatches(d), queue'[w].slots # queue[w].slots
        PROVE  Constructs(d) /\ dispatcher[d].best = w
    BY <2>5
       DEF Dispatches, Starts, Loads, Sizes, GivesUp, LoadsFull, GoesOn, Enters, Constructs,
           Publishes
  <2>6. ASSUME NEW v \in Workers, Works(v)
        PROVE  queue'[w].slots = queue[w].slots
    BY <2>6 DEF Works, Peeks, Begins, Finishes, Ends, Fails, LoadsIndex, Pops
  <2>7. ASSUME Supervises
        PROVE  queue'[w].slots = queue[w].slots
    BY <2>7 DEF Supervises, Detects, Passes, Stops, Reads, Skips, Closes, Returns
  <2> QED
    BY <2>2, <2>3, <2>4, <2>5, <2>6, <2>7 DEF Moves, Death, Names, vars
<1>2. ASSUME NEW w \in Workers
      PROVE  worker'[w].msg \in Own(w)' \cup {0}
  <2>1. CASE worker'[w].msg \in {0, worker[w].msg}
    BY <2>1, OwnStays DEF Belongs
  <2>2. CASE worker'[w].msg = Front(w)
    <3>1. SlotOf(queue[w].read) \in Slot
      BY FieldTypes, SlotOfInSlot
    <3>2. Front(w) \in Own(w) \cup {0}
      BY <3>1 DEF Belongs, Front
    <3> QED
      BY <2>2, <3>2, OwnStays
  <2>3. ASSUME NEW v \in Workers, Works(v)
        PROVE  worker'[w].msg \in {0, worker[w].msg, Front(w)}
    BY <2>3 DEF Works, Peeks, Begins, Finishes, Ends, Fails, LoadsIndex, Pops
  <2>4. ASSUME Supervises
        PROVE  worker'[w].msg \in {0, worker[w].msg}
    BY <2>4 DEF Supervises, Detects, Passes, Stops, Reads, Skips, Closes, Returns, process
  <2> QED
    BY <2>1, <2>2, <2>3, <2>4 DEF Moves, Death, Names, Dispatches, vars, process
<1> QED
  BY <1>1, <1>2 DEF Belongs

(* The monitors follow the threads, and recovery leaves none of them open. *)
LEMMA TransactionsStep ==
    ASSUME TypeOK, Transactions, Moves
    PROVE  Transactions'
<1>1. /\ supervisor.pc \in {"testing", "skipping", "storing", "ending"} =>
             supervisor.w \in Workers
      /\ supervisor.pc = "restarting" => supervisor.w = WorkerCount
      /\ supervisor.pc \in {"watching", "testing", "skipping", "storing", "ending", "restarting"}
  BY DEF TypeOK, Supervisor
<1>2. \A w \in Workers : w \in Int /\ w >= 0 /\ w < WorkerCount
  BY WorkerCountAssumption DEF Workers
<1>3. Idle # Processing
  BY DEF Idle, Processing
<1>4. ASSUME UNCHANGED <<monitor, process, supervisor, mistaken>>,
             watched' = watched \/ watched' = "worker"
      PROVE  Transactions'
  BY <1>4 DEF Transactions, process
<1>5. ASSUME NEW w \in Workers, Works(w) PROVE Transactions'
  <2>1. /\ processUp /\ processUp' /\ supervisor' = supervisor /\ mistaken' = mistaken
        /\ childExecs' = childExecs /\ watched' = watched
    BY <1>5 DEF Works, watching
  <2>2. worker[w].pc # "down" /\ worker'[w].pc # "down"
    BY <1>5, <2>1
       DEF Works, Peeks, Begins, Finishes, Ends, Fails, LoadsIndex, Pops, Transactions
  <2>3. w \notin mistaken =>
            (monitor'[w].status = Processing <=> worker'[w].pc \in {"begun", "done"})
    <3>1. w \notin mistaken =>
              (monitor[w].status = Processing <=> worker[w].pc \in {"begun", "done"})
      BY <2>1 DEF Transactions
    <3>2. CASE Begins(w) \/ Ends(w)
      BY <1>3, <3>2 DEF Begins, Ends
    <3>3. CASE Peeks(w) \/ Finishes(w) \/ Fails(w) \/ LoadsIndex(w) \/ Pops(w)
      BY <3>1, <3>3 DEF Peeks, Finishes, Fails, LoadsIndex, Pops
    <3> QED
      BY <1>5, <3>2, <3>3 DEF Works
  <2>4. \A v \in Workers \ {w} : worker'[v] = worker[v] /\ monitor'[v] = monitor[v]
    BY <1>5 DEF Works
  <2>5. /\ supervisor.pc \in {"skipping", "storing", "ending"} => supervisor.w \in mistaken
        /\ childExecs => watched = "worker" /\ supervisor.pc = "watching"
    BY <2>1 DEF Transactions
  <2> QED
    BY <2>1, <2>2, <2>3, <2>4, <2>5 DEF Transactions
<1>6. ASSUME Death PROVE Transactions'
  <2>1. /\ processUp /\ ~processUp' /\ monitor' = monitor /\ supervisor' = supervisor
        /\ mistaken' = mistaken /\ childExecs' = childExecs /\ watched' = watched
        /\ \A w \in Workers : worker'[w].pc = "down"
    BY <1>6 DEF Death, watching
  <2> QED
    BY <2>1 DEF Transactions
<1>7. ASSUME Supervises PROVE Transactions'
  <2> USE DEF Supervises, Transactions, process
  <2>1. CASE Detects
    BY <1>2, <1>7, <2>1 DEF Detects
  <2>2. CASE Passes
    <3>1. supervisor'.pc \in {"testing", "restarting"} /\ supervisor'.w = supervisor.w + 1
      BY <2>2 DEF Passes, NextWorker
    <3>2. childExecs => \A w \in Workers : w < supervisor.w + 1 => monitor[w].status = Idle
      BY <1>1, <1>2, <2>2 DEF Passes
    <3> QED
      BY <2>2, <3>1, <3>2 DEF Passes
  <2>3. CASE Stops
    <3>1. /\ monitor' = monitor /\ worker' = worker /\ processUp' = processUp
          /\ childExecs' = childExecs /\ watched' = watched
          /\ supervisor'.pc = "skipping" /\ supervisor'.w = supervisor.w
          /\ monitor[supervisor.w].status = Processing /\ supervisor.pc = "testing"
          /\ mistaken' = IF processUp THEN mistaken \cup {supervisor.w} ELSE mistaken
      BY <2>3 DEF Stops
    <3>2. processUp => supervisor.w \in mistaken' /\ mistaken \subseteq mistaken'
      BY <3>1
    <3> QED
      BY <3>1, <3>2
  <2>4. CASE Reads
    BY <2>4 DEF Reads
  <2>5. CASE Skips
    BY <2>5 DEF Skips
  <2>6. CASE Closes
    <3>1. supervisor'.pc \in {"testing", "restarting"} /\ supervisor'.w = supervisor.w + 1
      BY <2>6 DEF Closes, NextWorker
    <3>2. supervisor.w \in Workers /\ supervisor.pc = "ending"
      BY <1>1, <2>6 DEF Closes
    <3>3. \A w \in Workers : w < supervisor.w + 1 /\ w # supervisor.w => w < supervisor.w
      BY <1>2, <3>2
    <3>4. childExecs => \A w \in Workers : w < supervisor.w + 1 => monitor'[w].status = Idle
      BY <2>6, <3>2, <3>3 DEF Closes
    <3>5. \A w \in Workers : processUp /\ w \notin mistaken => monitor'[w] = monitor[w]
      BY <2>6, <3>2 DEF Closes
    <3> QED
      BY <2>6, <3>1, <3>4, <3>5 DEF Closes
  <2>7. CASE Returns
    <3>1. supervisor'.pc = "watching" /\ mistaken' = mistaken /\ monitor' = monitor
          /\ childExecs' = childExecs /\ (childExecs => watched' = "worker")
      BY <2>7 DEF Returns
    <3>2. CASE UNCHANGED <<processUp, worker>>
      BY <3>1, <3>2
    <3>3. CASE /\ childExecs /\ ~processUp /\ processUp'
               /\ \A w \in Workers : worker'[w].pc = "idle"
      <4>1. \A w \in Workers : monitor[w].status = Idle
        BY <1>1, <1>2, <2>7, <3>3 DEF Returns
      <4> QED
        BY <1>3, <3>1, <3>3, <4>1
    <3> QED
      BY <2>7, <3>2, <3>3 DEF Returns
  <2> QED
    BY <1>7, <2>1, <2>2, <2>3, <2>4, <2>5, <2>6, <2>7
<1>8. CASE Names
  BY <1>4, <1>8 DEF Names, process
<1>9. CASE UNCHANGED vars
  BY <1>4, <1>9 DEF vars, watching
<1>10. ASSUME NEW d \in Dispatchers, Dispatches(d) PROVE Transactions'
  BY <1>4, <1>10 DEF Dispatches, watching
<1> QED
  BY <1>5, <1>6, <1>7, <1>8, <1>9, <1>10 DEF Moves
-----------------------------------------------------------------------------
(* The first n numbers are n.                                              *)
LEMMA FirstNumbers ==
    ASSUME NEW n \in Nat
    PROVE  IsFiniteSet(1 .. n) /\ Cardinality(1 .. n) = n
  BY FS_Interval

(* A queue never gets more messages than there are numbers, so that its    *)
(* indices do not wrap.                                                    *)
LEMMA PushedFits ==
    ASSUME TypeOK, Numbers, NEW w \in Workers
    PROVE  Len(pushed[w]) <= MaxMessages
<1>1. pushed[w] \in Seq(Messages) /\ Len(pushed[w]) \in Nat
      /\ pushed[w] \in [1 .. Len(pushed[w]) -> Messages]
  BY FieldTypes
<1>2. IsFiniteSet(Messages) /\ Cardinality(Messages) = MaxMessages
  BY FS_Interval, MaxMessagesAssumption DEF Messages
<1>3. /\ IsFiniteSet(1 .. Len(pushed[w]))
      /\ Cardinality(1 .. Len(pushed[w])) = Len(pushed[w])
  BY <1>1, FirstNumbers
<1>4. SUFFICES ASSUME MaxMessages < Len(pushed[w]) PROVE FALSE
  BY <1>1, MaxMessagesAssumption
<1>5. \E j, k \in 1 .. Len(pushed[w]) : j # k /\ pushed[w][j] = pushed[w][k]
  BY <1>1, <1>2, <1>3, <1>4, FS_PigeonHole
<1> QED
  BY <1>1, <1>5 DEF Numbers

(* And one fewer while another one is being pushed.                        *)
LEMMA PushFits ==
    ASSUME TypeOK, DispatcherShape, Numbers, NEW w \in Workers, NEW d \in Pushing(w)
    PROVE  Len(pushed[w]) < MaxMessages
<1>1. /\ d \in Busy /\ dispatcher[d].msg \in Messages
      /\ \A k \in DOMAIN pushed[w] : pushed[w][k] # dispatcher[d].msg
  <2>1. d \in Dispatchers /\ d \in Busy
    BY DEF Pushing, Busy
  <2> QED
    BY <2>1, FieldTypes, MaxMessagesAssumption
       DEF DispatcherShape, ThreadShape, Numbers, Messages
<1> DEFINE Others == Messages \ {dispatcher[d].msg}
<1>2. pushed[w] \in Seq(Messages) /\ Len(pushed[w]) \in Nat
      /\ pushed[w] \in [1 .. Len(pushed[w]) -> Messages]
  BY FieldTypes
<1>3. pushed[w] \in [1 .. Len(pushed[w]) -> Others]
  BY <1>1, <1>2
<1>4. IsFiniteSet(Messages) /\ Cardinality(Messages) = MaxMessages
  BY FS_Interval, MaxMessagesAssumption DEF Messages
<1>5. IsFiniteSet(Others) /\ Cardinality(Others) = MaxMessages - 1
  BY <1>1, <1>4, FS_RemoveElement
<1>6. /\ IsFiniteSet(1 .. Len(pushed[w]))
      /\ Cardinality(1 .. Len(pushed[w])) = Len(pushed[w])
  BY <1>2, FirstNumbers
<1>7. SUFFICES ASSUME MaxMessages <= Len(pushed[w]) PROVE FALSE
  BY <1>2, MaxMessagesAssumption
<1>8. Cardinality(Others) < Cardinality(1 .. Len(pushed[w]))
  BY <1>2, <1>5, <1>6, <1>7, MaxMessagesAssumption
<1> HIDE DEF Others
<1>9. \E j, k \in 1 .. Len(pushed[w]) : j # k /\ pushed[w][j] = pushed[w][k]
  BY <1>3, <1>5, <1>6, <1>8, FS_PigeonHole
<1> QED
  BY <1>2, <1>9 DEF Numbers
-----------------------------------------------------------------------------
(* The indices of a sound queue are plain numbers.                         *)
LEMMA Linear ==
    ASSUME TypeOK, Numbers, NEW w \in Workers, QueueShape(w)
    PROVE  /\ queue[w].write \in Nat /\ queue[w].read \in Nat
           /\ queue[w].write <= MaxMessages
           /\ AvailableRequests(w) = queue[w].write - queue[w].read
           /\ RequestQueueFull(w) <=> queue[w].write - queue[w].read >= Capacity
           /\ RequestQueueEmpty(w) <=> ~Waiting(w)
           /\ Waiting(w) => Advance(queue[w].read, 1) = queue[w].read + 1
           /\ DOMAIN pushed[w] = 1 .. queue[w].write
<1> USE DEF QueueShape
<1>1. /\ queue[w].write \in Index /\ queue[w].read \in Index
      /\ queue[w].write \in Nat /\ queue[w].read \in Nat
      /\ pushed[w] \in Seq(Messages)
  BY FieldTypes
<1>2. queue[w].write <= MaxMessages
  BY PushedFits
<1>3. AvailableRequests(w) = queue[w].write - queue[w].read
  BY <1>1, UsedLinear DEF AvailableRequests
<1>4. ASSUME Waiting(w) PROVE Advance(queue[w].read, 1) = queue[w].read + 1
  <2>1. 1 \in 0 .. IndexRange /\ queue[w].read + 1 < IndexRange
    BY <1>1, <1>2, <1>4, MaxMessagesAssumption, IndexRangeAssumption DEF Waiting
  <2> QED
    BY <1>1, <2>1, AdvanceLinear
<1>5. RequestQueueEmpty(w) <=> ~Waiting(w)
  BY <1>1 DEF RequestQueueEmpty, Waiting
<1>6. DOMAIN pushed[w] = 1 .. queue[w].write
  BY <1>1
<1> QED
  BY <1>1, <1>2, <1>3, <1>4, <1>5, <1>6 DEF RequestQueueFull

(* Where nothing of a queue is touched it stays sound.                     *)
LEMMA QueueKept ==
    ASSUME NEW w \in Workers, QueueShape(w), PushShape(w), FrontShape(w),
           queue'[w] = queue[w], pushed'[w] = pushed[w],
           \A d \in Dispatchers : d \in Pushing(w)' => d \in Pushing(w) /\ dispatcher'[d] = dispatcher[d],
           worker'[w] = worker[w], Interrupted(w)' => Interrupted(w), LoadedShape(w)'
    PROVE  QueueShape(w)' /\ PushShape(w)' /\ FrontShape(w)'
<1>1. QueueShape(w)'
  BY DEF QueueShape
<1>2. PushShape(w)'
  BY DEF PushShape, Pushing
<1>3. FrontShape(w)'
  BY DEF FrontShape, Waiting
<1> QED
  BY <1>1, <1>2, <1>3

(* A thread enters Push: it is the only one there, or the queue is spoilt. *)
LEMMA QueueEntered ==
    ASSUME TypeOK, Numbers, NEW w \in Workers, NEW d \in Dispatchers,
           QueueShape(w), PushShape(w), FrontShape(w),
           Dispatches(d), Enters(d), w \in Undisturbed'
    PROVE  QueueShape(w)' /\ PushShape(w)' /\ FrontShape(w)'
<1>1. /\ queue' = queue /\ pushed' = pushed /\ worker' = worker
      /\ Interrupted(w)' <=> Interrupted(w)
      /\ LoadedShape(w)'
      /\ \A e \in Dispatchers \ {d} : dispatcher'[e] = dispatcher[e]
  BY DEF Dispatches, Enters, process, Interrupted, FrontShape, LoadedShape
<1>2. CASE dispatcher[d].best # w
  <2>1. \A e \in Dispatchers : e \in Pushing(w)' => e # d
    BY <1>2 DEF Enters, Pushing
  <2>2. \A e \in Dispatchers :
            e \in Pushing(w)' => e \in Pushing(w) /\ dispatcher'[e] = dispatcher[e]
    BY <1>1, <2>1 DEF Pushing
  <2> QED
    BY <1>1, <2>2, QueueKept
<1>3. CASE dispatcher[d].best = w
  <2>1. Pushing(w) = {}
    BY <1>3 DEF Enters, Undisturbed
  <2>2. \A e \in Pushing(w)' : e = d
    BY <1>1, <2>1 DEF Pushing
  <2>3. PushShape(w)'
    BY <1>1, <1>3, <2>2 DEF Enters, PushShape
  <2> QED
    BY <1>1, <2>3 DEF QueueShape, FrontShape, Waiting
<1> QED
  BY <1>2, <1>3

(* The room Push finds is there, because the thread is alone in it.        *)
LEMMA QueueTested ==
    ASSUME TypeOK, Numbers, NEW w \in Workers, NEW d \in Dispatchers,
           QueueShape(w), PushShape(w), FrontShape(w),
           Dispatches(d), GoesOn(d), dispatcher[d].pc = "checking", dispatcher[d].best = w
    PROVE  QueueShape(w)' /\ PushShape(w)' /\ FrontShape(w)'
<1>1. /\ queue' = queue /\ pushed' = pushed /\ worker' = worker
      /\ Interrupted(w)' <=> Interrupted(w)
      /\ LoadedShape(w)'
      /\ \A e \in Dispatchers \ {d} : dispatcher'[e] = dispatcher[e]
  BY DEF Dispatches, GoesOn, process, Interrupted, FrontShape, LoadedShape
<1>2. d \in Pushing(w)
  BY DEF Pushing
<1>3. dispatcher[d].write = queue[w].write /\ \A e \in Pushing(w) : d = e
  BY <1>2 DEF PushShape
<1>4. queue[w].write - queue[w].read < Capacity
  <2>1. AvailableRequests(w) = queue[w].write - queue[w].read
    BY Linear
  <2>2. ~(AvailableRequests(w) >= Capacity)
    BY <1>3 DEF GoesOn, SeenFull, AvailableRequests
  <2>3. queue[w].write \in Nat /\ queue[w].read \in Nat
    BY FieldTypes
  <2> QED
    BY <2>1, <2>2, <2>3, CapacityAssumption
<1>5. \A e \in Pushing(w)' : e = d
  BY <1>1, <1>3 DEF Pushing
<1>6. dispatcher'[d].write = queue[w].write /\ dispatcher'[d].pc = "constructing"
  BY <1>3 DEF GoesOn
<1>7. PushShape(w)'
  BY <1>1, <1>4, <1>5, <1>6 DEF PushShape
<1> QED
  BY <1>1, <1>7 DEF QueueShape, FrontShape, Waiting

(* The header is copied to a slot that holds no message.                   *)
LEMMA QueueConstructed ==
    ASSUME TypeOK, Numbers, NEW w \in Workers, NEW d \in Dispatchers,
           QueueShape(w), PushShape(w), FrontShape(w),
           Dispatches(d), Constructs(d), dispatcher[d].best = w
    PROVE  QueueShape(w)' /\ PushShape(w)' /\ FrontShape(w)'
<1>1. /\ pushed' = pushed /\ worker' = worker
      /\ Interrupted(w)' <=> Interrupted(w)
      /\ supervisor' = supervisor
      /\ \A e \in Dispatchers \ {d} : dispatcher'[e] = dispatcher[e]
  BY DEF Dispatches, Constructs, process, Interrupted
<1>2. d \in Pushing(w)
  BY DEF Constructs, Pushing
<1>3. /\ dispatcher[d].write = queue[w].write
      /\ queue[w].write - queue[w].read < Capacity
      /\ \A e \in Pushing(w) : d = e
  BY <1>2 DEF PushShape, Constructs
<1>4. /\ queue[w].write \in Nat /\ queue[w].read \in Nat
      /\ queue[w].slots \in [Slot -> Messages \cup {0}]
      /\ SlotOf(queue[w].write) \in Slot
  BY FieldTypes, SlotOfInSlot
<1>5. /\ queue'[w].write = queue[w].write /\ queue'[w].read = queue[w].read
      /\ queue'[w].slots = [queue[w].slots EXCEPT ![SlotOf(queue[w].write)] = dispatcher[d].msg]
  BY <1>3 DEF Constructs
<1>6. ASSUME NEW k \in queue[w].read + 1 .. queue[w].write
      PROVE  queue'[w].slots[SlotOf(k - 1)] = pushed[w][k]
  <2>1. /\ k - 1 \in Nat /\ k - 1 < queue[w].write
        /\ queue[w].write - (k - 1) < Capacity
    BY <1>3, <1>4, CapacityAssumption
  <2>2. SlotOf(k - 1) # SlotOf(queue[w].write) /\ SlotOf(k - 1) \in Slot
    BY <1>4, <2>1, SlotOfApart, SlotOfInSlot
  <2> QED
    BY <1>4, <1>5, <2>2 DEF QueueShape
<1>7. QueueShape(w)'
  BY <1>1, <1>5, <1>6 DEF QueueShape
<1>8. \A e \in Pushing(w)' : e = d
  BY <1>1, <1>3 DEF Pushing
<1>9. /\ dispatcher'[d].write = queue[w].write /\ dispatcher'[d].msg = dispatcher[d].msg
      /\ queue'[w].slots[SlotOf(queue[w].write)] = dispatcher[d].msg
  BY <1>3, <1>4, <1>5 DEF Constructs
<1>10. PushShape(w)'
  BY <1>3, <1>5, <1>8, <1>9 DEF PushShape
<1>11. FrontShape(w)'
  BY <1>1, <1>5 DEF FrontShape, LoadedShape, Waiting
<1> QED
  BY <1>7, <1>10, <1>11

(* The write index passes the slot that has just been written.             *)
LEMMA QueuePublished ==
    ASSUME TypeOK, DispatcherShape, Numbers, NEW w \in Workers, NEW d \in Dispatchers,
           QueueShape(w), PushShape(w), FrontShape(w),
           Dispatches(d), Publishes(d), dispatcher[d].best = w
    PROVE  /\ QueueShape(w)' /\ PushShape(w)' /\ FrontShape(w)'
           /\ queue'[w].write = queue[w].write + 1 /\ queue'[w].read = queue[w].read
           /\ \A k \in 1 .. queue[w].write : pushed'[w][k] = pushed[w][k]
           /\ pushed'[w][queue[w].write + 1] = dispatcher[d].msg
<1>1. /\ worker' = worker
      /\ Interrupted(w)' <=> Interrupted(w)
      /\ supervisor' = supervisor
      /\ \A e \in Dispatchers \ {d} : dispatcher'[e] = dispatcher[e]
  BY DEF Dispatches, Publishes, process, Interrupted
<1>2. d \in Pushing(w)
  BY DEF Publishes, Pushing
<1>3. /\ dispatcher[d].write = queue[w].write
      /\ queue[w].write - queue[w].read < Capacity
      /\ queue[w].slots[SlotOf(queue[w].write)] = dispatcher[d].msg
      /\ \A e \in Pushing(w) : d = e
  BY <1>2 DEF PushShape, Publishes
<1>4. /\ queue[w].write \in Nat /\ queue[w].read \in Nat /\ queue[w].write \in Index
      /\ Len(pushed[w]) = queue[w].write /\ pushed[w] \in Seq(Messages)
  BY FieldTypes DEF QueueShape
<1>5. queue[w].write + 1 < IndexRange
  BY <1>2, <1>4, PushFits, MaxMessagesAssumption, IndexRangeAssumption
<1>6. Advance(queue[w].write, 1) = queue[w].write + 1
  <2>1. 1 \in 0 .. IndexRange
    BY IndexRangeAssumption, CapacityAssumption
  <2> QED
    BY <1>4, <1>5, <2>1, AdvanceLinear
<1>7. /\ queue'[w].write = queue[w].write + 1 /\ queue'[w].read = queue[w].read
      /\ queue'[w].slots = queue[w].slots
      /\ pushed'[w] = Append(pushed[w], dispatcher[d].msg)
  BY <1>3, <1>6 DEF Publishes
<1>8. /\ Len(pushed'[w]) = queue[w].write + 1
      /\ \A k \in 1 .. queue[w].write : pushed'[w][k] = pushed[w][k]
      /\ pushed'[w][queue[w].write + 1] = dispatcher[d].msg
  BY <1>4, <1>7
<1>9. ASSUME NEW k \in queue[w].read + 1 .. queue[w].write + 1
      PROVE  queue[w].slots[SlotOf(k - 1)] = pushed'[w][k]
  <2>1. CASE k = queue[w].write + 1
    <3>1. k - 1 = queue[w].write
      BY <1>4, <2>1
    <3> QED
      BY <1>3, <1>8, <2>1, <3>1
  <2>2. CASE k # queue[w].write + 1
    <3>1. k \in queue[w].read + 1 .. queue[w].write /\ k \in 1 .. queue[w].write
      BY <1>4, <2>2
    <3> QED
      BY <1>8, <3>1 DEF QueueShape
  <2> QED
    BY <2>1, <2>2
<1>10. queue'[w].write - queue'[w].read <= Capacity /\ queue'[w].read <= queue'[w].write
  BY <1>3, <1>4, <1>7, CapacityAssumption DEF QueueShape
<1>11. QueueShape(w)'
  BY <1>7, <1>8, <1>9, <1>10 DEF QueueShape
<1>12. d \notin Pushing(w)'
  BY DEF Publishes, Resting, Pushing
<1>13. \A e \in Dispatchers : e \notin Pushing(w)'
  BY <1>1, <1>3, <1>12 DEF Pushing
<1>14. PushShape(w)'
  BY <1>13 DEF PushShape, Pushing
<1>15. FrontShape(w)'
  <2>1. Waiting(w) => Waiting(w)'
    BY <1>4, <1>7 DEF Waiting
  <2>2. ASSUME Waiting(w)
        PROVE  pushed'[w][queue'[w].read + 1] = pushed[w][queue[w].read + 1]
    <3>1. queue[w].read + 1 \in 1 .. queue[w].write
      BY <1>4, <2>2 DEF Waiting
    <3> QED
      BY <1>7, <1>8, <3>1
  <2> QED
    BY <1>1, <1>7, <2>1, <2>2 DEF FrontShape, LoadedShape
<1> QED
  BY <1>7, <1>8, <1>11, <1>14, <1>15

(* The message at the front leaves the queue.                              *)
LEMMA QueueReleased ==
    ASSUME TypeOK, Numbers, NEW w \in Workers,
           QueueShape(w), PushShape(w), Waiting(w),
           queue'[w].write = queue[w].write, queue'[w].slots = queue[w].slots,
           queue'[w].read = Advance(queue[w].read, 1),
           UNCHANGED <<pushed, dispatcher>>,
           worker'[w].pc \notin AtWork, ~Interrupted(w)', LoadedShape(w)'
    PROVE  /\ QueueShape(w)' /\ PushShape(w)' /\ FrontShape(w)'
           /\ queue'[w].read = queue[w].read + 1
<1>1. /\ queue[w].write \in Nat /\ queue[w].read \in Nat
      /\ queue'[w].read = queue[w].read + 1
  BY Linear
<1>2. QueueShape(w)'
  <2>1. /\ queue'[w].read <= queue'[w].write
        /\ queue'[w].write - queue'[w].read <= Capacity
    BY <1>1, CapacityAssumption DEF QueueShape, Waiting
  <2>2. \A k \in queue[w].read + 2 .. queue[w].write : k \in queue[w].read + 1 .. queue[w].write
    BY <1>1
  <2>3. queue'[w].read + 1 = queue[w].read + 2
    BY <1>1
  <2> QED
    BY <2>1, <2>2, <2>3 DEF QueueShape
<1>3. PushShape(w)'
  BY <1>1, CapacityAssumption DEF PushShape, Pushing
<1>4. FrontShape(w)'
  BY DEF FrontShape, AtWork
<1> QED
  BY <1>1, <1>2, <1>3, <1>4

(* A dispatching thread leaves every queue sound, or spoils it.            *)
LEMMA QueuesDispatch ==
    ASSUME TypeOK, DispatcherShape, Numbers, NEW w \in Undisturbed,
           QueueShape(w), PushShape(w), FrontShape(w),
           NEW d \in Dispatchers, Dispatches(d), w \in Undisturbed'
    PROVE  QueueShape(w)' /\ PushShape(w)' /\ FrontShape(w)'
<1>1. /\ worker' = worker /\ w \in Workers
      /\ Interrupted(w)' => Interrupted(w)
      /\ supervisor' = supervisor /\ LoadedShape(w)
      /\ \A e \in Dispatchers \ {d} : dispatcher'[e] = dispatcher[e]
  BY DEF Dispatches, process, Interrupted, Undisturbed, FrontShape
<1>2. ASSUME queue'[w] = queue[w], pushed'[w] = pushed[w], d \notin Pushing(w)'
      PROVE  QueueShape(w)' /\ PushShape(w)' /\ FrontShape(w)'
  <2>1. \A e \in Dispatchers :
            e \in Pushing(w)' => e \in Pushing(w) /\ dispatcher'[e] = dispatcher[e]
    BY <1>1, <1>2 DEF Pushing
  <2>2. LoadedShape(w)'
    BY <1>1, <1>2 DEF LoadedShape
  <2> QED
    BY <1>1, <1>2, <2>1, <2>2, QueueKept
<1>3. CASE Starts(d) \/ Loads(d) \/ GivesUp(d) \/ LoadsFull(d)
  BY <1>2, <1>3 DEF Starts, Loads, GivesUp, LoadsFull, Resting, Pushing
<1>4. CASE Sizes(d)
  BY <1>2, <1>4 DEF Sizes, Pushing
<1>5. CASE Enters(d)
  BY <1>1, <1>5, QueueEntered
<1>6. CASE Constructs(d)
  <2>1. CASE dispatcher[d].best = w
    BY <1>1, <1>6, <2>1, QueueConstructed
  <2>2. CASE dispatcher[d].best # w
    BY <1>1, <1>2, <1>6, <2>2 DEF Constructs, Pushing
  <2> QED
    BY <2>1, <2>2
<1>7. CASE Publishes(d)
  <2>1. CASE dispatcher[d].best = w
    BY <1>1, <1>7, <2>1, QueuePublished
  <2>2. CASE dispatcher[d].best # w
    BY <1>1, <1>2, <1>7, <2>2 DEF Publishes, Resting, Pushing
  <2> QED
    BY <2>1, <2>2
<1>8. CASE GoesOn(d)
  <2>1. CASE dispatcher[d].pc = "checking" /\ dispatcher[d].best = w
    BY <1>1, <1>8, <2>1, QueueTested
  <2>2. CASE dispatcher[d].pc # "checking" \/ dispatcher[d].best # w
    BY <1>2, <1>8, <2>2 DEF GoesOn, Pushing
  <2> QED
    BY <2>1, <2>2
<1> QED
  BY <1>3, <1>4, <1>5, <1>6, <1>7, <1>8 DEF Dispatches

(* So does the thread of a worker.                                         *)
LEMMA QueuesWork ==
    ASSUME TypeOK, Numbers, Transactions, NEW w \in Undisturbed,
           QueueShape(w), PushShape(w), FrontShape(w),
           NEW v \in Workers, Works(v)
    PROVE  QueueShape(w)' /\ PushShape(w)' /\ FrontShape(w)'
<1>1. /\ w \in Workers /\ processUp /\ processUp'
      /\ UNCHANGED <<pushed, dispatcher, supervisor>>
  BY DEF Works, Undisturbed, sending
<1>2. ~Interrupted(w)'
  BY <1>1 DEF Interrupted
<1>3. LoadedShape(w)'
  <2>1. ~(supervisor.pc = "storing" /\ supervisor.w = w)
    BY <1>1 DEF Transactions, Undisturbed
  <2> QED
    BY <1>1, <2>1 DEF LoadedShape
<1>4. CASE v # w
  BY <1>1, <1>2, <1>3, <1>4, QueueKept DEF Works, Pushing
<1>5. ASSUME queue'[w] = queue[w],
             worker'[w].pc \in AtWork =>
                 Waiting(w) /\ worker'[w].msg = pushed[w][queue[w].read + 1],
             worker'[w].pc = "popping" => worker'[w].read = queue[w].read
      PROVE  QueueShape(w)' /\ PushShape(w)' /\ FrontShape(w)'
  BY <1>1, <1>2, <1>3, <1>5 DEF QueueShape, PushShape, FrontShape, Pushing, Waiting
<1>6. CASE Peeks(w)
  <2>1. Waiting(w)
    BY <1>1, <1>6, Linear DEF Peeks, RequestQueueEmpty
  <2>2. Front(w) = pushed[w][queue[w].read + 1]
    <3>1. /\ queue[w].read + 1 \in queue[w].read + 1 .. queue[w].write
          /\ (queue[w].read + 1) - 1 = queue[w].read
      <4>1. queue[w].read \in Nat /\ queue[w].write \in Nat
        BY <1>1, FieldTypes
      <4> QED
        BY <2>1, <4>1 DEF Waiting
    <3> QED
      BY <3>1 DEF QueueShape, Front
  <2> QED
    BY <1>5, <1>6, <2>1, <2>2 DEF Peeks
<1>7. CASE Begins(w) \/ Finishes(w) \/ Ends(w) \/ LoadsIndex(w)
  <2>1. /\ worker[w].pc \in AtWork /\ worker'[w].msg = worker[w].msg /\ queue' = queue
        /\ worker'[w].pc = "popping" => worker'[w].read = queue[w].read
    BY <1>7 DEF Begins, Finishes, Ends, LoadsIndex, AtWork
  <2> QED
    BY <1>5, <2>1 DEF FrontShape
<1>8. CASE Fails(w)
  BY <1>5, <1>8 DEF Fails, AtWork
<1>9. CASE Pops(w)
  <2>1. Waiting(w) /\ worker'[w].pc \notin AtWork
    BY <1>9 DEF Pops, FrontShape, AtWork
  <2>2. queue'[w].read = Advance(queue[w].read, 1)
    BY <1>9 DEF Pops, FrontShape
  <2> QED
    BY <1>1, <1>2, <1>3, <1>9, <2>1, <2>2, QueueReleased DEF Pops
<1> QED
  BY <1>4, <1>6, <1>7, <1>8, <1>9 DEF Works

(* A worker that dies in a transaction leaves its message at the front.    *)
LEMMA QueuesDeath ==
    ASSUME TypeOK, Transactions, NEW w \in Undisturbed,
           QueueShape(w), PushShape(w), FrontShape(w), Death
    PROVE  QueueShape(w)' /\ PushShape(w)' /\ FrontShape(w)'
<1>1. /\ w \in Workers /\ UNCHANGED <<queue, pushed, dispatcher, monitor, supervisor>>
      /\ processUp /\ worker'[w].pc = "down"
  BY DEF Death, sending, Undisturbed
<1>2. Interrupted(w)' => Waiting(w)
  BY <1>1 DEF Interrupted, Transactions, FrontShape, AtWork, Undisturbed
<1>3. FrontShape(w)'
  BY <1>1, <1>2 DEF FrontShape, LoadedShape, AtWork, Waiting
<1> QED
  BY <1>1, <1>3 DEF QueueShape, PushShape, Pushing

(* And the supervisor takes it out without looking.                        *)
LEMMA QueuesSupervise ==
    ASSUME TypeOK, Numbers, Transactions, NEW w \in Undisturbed,
           QueueShape(w), PushShape(w), FrontShape(w), Supervises
    PROVE  QueueShape(w)' /\ PushShape(w)' /\ FrontShape(w)'
<1>1. w \in Workers /\ w \notin mistaken /\ UNCHANGED <<pushed, dispatcher>>
  BY DEF Supervises, sending, Undisturbed
<1>2. Idle # Processing
  BY DEF Idle, Processing
<1>3. \A d \in Dispatchers :
          d \in Pushing(w)' => d \in Pushing(w) /\ dispatcher'[d] = dispatcher[d]
  BY <1>1 DEF Pushing
<1>4. CASE Detects \/ Passes \/ Stops \/ Reads
  <2>1. queue' = queue /\ UNCHANGED process
    BY <1>4 DEF Detects, Passes, Stops, Reads
  <2>2. Interrupted(w)' => Interrupted(w)
    BY <1>4 DEF Detects, Passes, Stops, Reads, Interrupted, process
  <2>3. LoadedShape(w)'
    <3>1. CASE Reads
      BY <3>1 DEF Reads, LoadedShape
    <3>2. CASE Detects \/ Passes \/ Stops
      <4>1. supervisor'.pc # "storing"
        BY <3>2 DEF Detects, Passes, Stops, NextWorker
      <4> QED
        BY <4>1 DEF LoadedShape
    <3> QED
      BY <1>4, <3>1, <3>2
  <2> QED
    BY <1>1, <1>3, <2>1, <2>2, <2>3, QueueKept DEF process
<1>5. CASE Skips
  <2>1. LoadedShape(w)' /\ worker' = worker /\ processUp' = processUp
    BY <1>5 DEF Skips, LoadedShape, process
  <2>2. CASE supervisor.w = w
    <3>1. ~processUp /\ worker[w].pc = "down"
      BY <1>1, <1>5, <2>2 DEF Skips, Transactions
    <3>2. Waiting(w) /\ supervisor.read = queue[w].read
      BY <1>1, <1>5, <2>2 DEF Skips, Transactions, FrontShape, LoadedShape, Interrupted
    <3>3. ~Interrupted(w)'
      BY <1>5, <2>2 DEF Skips, Interrupted
    <3> QED
      BY <1>1, <1>5, <2>1, <2>2, <3>1, <3>2, <3>3, QueueReleased DEF Skips, AtWork
  <2>3. CASE supervisor.w # w
    <3>1. queue'[w] = queue[w]
      BY <1>1, <1>5, <2>3 DEF Skips
    <3>2. Interrupted(w)' => Interrupted(w)
      BY <1>5, <2>1, <2>3 DEF Skips, Interrupted
    <3> QED
      BY <1>1, <1>3, <2>1, <3>1, <3>2, QueueKept
  <2> QED
    BY <2>2, <2>3
<1>6. CASE Closes
  <2>1. queue' = queue /\ worker' = worker
    BY <1>6 DEF Closes, process
  <2>2. Interrupted(w)' => Interrupted(w)
    BY <1>1, <1>2, <1>6 DEF Closes, Interrupted, process
  <2>3. LoadedShape(w)'
    BY <1>6 DEF Closes, NextWorker, LoadedShape
  <2> QED
    BY <1>1, <1>3, <2>1, <2>2, <2>3, QueueKept
<1>7. CASE Returns
  <2>1. queue' = queue /\ monitor' = monitor /\ LoadedShape(w)'
    BY <1>7 DEF Returns, LoadedShape
  <2>2. CASE UNCHANGED <<processUp, worker>>
    <3>1. Interrupted(w)' => Interrupted(w)
      BY <1>7, <2>1, <2>2 DEF Returns, Interrupted
    <3> QED
      BY <1>1, <1>3, <2>1, <2>2, <3>1, QueueKept
  <2>3. CASE processUp' /\ worker'[w].pc = "idle"
    <3>1. FrontShape(w)'
      BY <2>1, <2>3 DEF FrontShape, Interrupted, AtWork
    <3> QED
      BY <1>1, <2>1, <3>1 DEF QueueShape, PushShape, Pushing
  <2> QED
    BY <1>1, <1>7, <2>2, <2>3 DEF Returns
<1> QED
  BY <1>4, <1>5, <1>6, <1>7 DEF Supervises

(* A queue that is not spoilt after a step was not before it.              *)
LEMMA UndisturbedStep ==
    ASSUME Moves, NEW w, w \in Undisturbed'
    PROVE  w \in Undisturbed
<1>1. ASSUME NEW d \in Dispatchers, Dispatches(d)
      PROVE  overlapped \subseteq overlapped' /\ mistaken' = mistaken
  BY <1>1
     DEF Dispatches, Starts, Loads, Sizes, GivesUp, LoadsFull, GoesOn, Enters, Constructs,
         Publishes
<1>2. ASSUME Supervises
      PROVE  overlapped' = overlapped /\ mistaken \subseteq mistaken'
  BY <1>2 DEF Supervises, Detects, Passes, Stops, Reads, Skips, Closes, Returns, sending
<1> QED
  BY <1>1, <1>2 DEF Moves, Works, Death, Names, vars, sending, Undisturbed

(* A queue that nothing has overlapped on is sound after every step.       *)
LEMMA QueuesStep ==
    ASSUME TypeOK, DispatcherShape, Numbers, Transactions, QueuesSound, Moves
    PROVE  QueuesSound'
<1> SUFFICES ASSUME NEW w, w \in Undisturbed'
             PROVE  QueueShape(w)' /\ PushShape(w)' /\ FrontShape(w)'
  BY DEF QueuesSound
<1>1. w \in Undisturbed
  BY UndisturbedStep
<1>2. QueueShape(w) /\ PushShape(w) /\ FrontShape(w)
  BY <1>1 DEF QueuesSound
<1>3. CASE UNCHANGED vars \/ Names
  <2>1. UNCHANGED <<queue, pushed, dispatcher, worker, processUp, monitor, supervisor>>
    BY <1>3 DEF vars, Names, sending, process
  <2> QED
    BY <1>2, <2>1 DEF QueueShape, PushShape, FrontShape, LoadedShape, Pushing, Waiting,
                      Interrupted
<1> QED
  BY <1>1, <1>2, <1>3, QueuesDispatch, QueuesWork, QueuesDeath, QueuesSupervise DEF Moves
-----------------------------------------------------------------------------
(* What an unspoilt queue looks like before a step and what the step does  *)
(* to its ends: nothing, or the front message leaves, or one is appended.  *)
LEMMA EndsStep ==
    ASSUME TypeOK, DispatcherShape, Numbers, Transactions, QueuesSound, Moves,
           NEW w, w \in Undisturbed'
    PROVE  /\ w \in Undisturbed /\ w \in Workers
           /\ queue[w].read \in Nat /\ queue[w].write \in Nat
           /\ queue[w].read <= queue[w].write
           /\ DOMAIN pushed[w] = 1 .. queue[w].write
           /\ DOMAIN pushed'[w] = 1 .. queue'[w].write
           /\ \/ queue'[w].read = queue[w].read
              \/ /\ queue'[w].read = queue[w].read + 1 /\ queue'[w].write = queue[w].write
                 /\ Waiting(w) /\ UNCHANGED <<attempts, pushed, dispatcher, nextMessage>>
                 /\ worker'[w].pc \notin AtWork /\ ~Interrupted(w)'
                 /\ worker[w].pc = "popping" \/ Interrupted(w)
           /\ \/ queue'[w].write = queue[w].write /\ pushed'[w] = pushed[w]
              \/ \E d \in Dispatchers :
                    /\ Publishes(d) /\ Dispatches(d) /\ dispatcher[d].best = w
                    /\ queue'[w].write = queue[w].write + 1
                    /\ \A k \in 1 .. queue[w].write : pushed'[w][k] = pushed[w][k]
                    /\ pushed'[w][queue[w].write + 1] = dispatcher[d].msg
<1>1. /\ w \in Undisturbed /\ w \in Workers
      /\ QueueShape(w) /\ PushShape(w) /\ FrontShape(w)
  BY UndisturbedStep DEF QueuesSound, Undisturbed
<1>2. QueueShape(w)'
  BY QueuesStep DEF QueuesSound
<1>3. /\ queue[w].read \in Nat /\ queue[w].write \in Nat
      /\ queue[w].read <= queue[w].write
      /\ DOMAIN pushed[w] = 1 .. queue[w].write
  BY <1>1, FieldTypes DEF QueueShape
<1>4. \/ queue'[w].write = queue[w].write /\ pushed'[w] = pushed[w]
      \/ \E d \in Dispatchers :
            /\ Publishes(d) /\ Dispatches(d) /\ dispatcher[d].best = w
            /\ queue'[w].write = queue[w].write + 1
            /\ DOMAIN pushed'[w] = 1 .. queue[w].write + 1
            /\ \A k \in 1 .. queue[w].write : pushed'[w][k] = pushed[w][k]
            /\ pushed'[w][queue[w].write + 1] = dispatcher[d].msg
  <2>1. queue[w].write = Len(pushed[w]) /\ queue'[w].write = Len(pushed'[w])
    BY <1>1, <1>2 DEF QueueShape
  <2> QED
    BY <1>1, <1>3, <2>1, PushedStep
<1>5. DOMAIN pushed'[w] = 1 .. queue'[w].write
  BY <1>3, <1>4
<1>6. ASSUME queue'[w].read # queue[w].read
      PROVE  /\ queue'[w].read = queue[w].read + 1 /\ queue'[w].write = queue[w].write
             /\ Waiting(w) /\ UNCHANGED <<attempts, pushed, dispatcher, nextMessage>>
             /\ worker'[w].pc \notin AtWork /\ ~Interrupted(w)'
             /\ worker[w].pc = "popping" \/ Interrupted(w)
  <2>1. ASSUME NEW d \in Dispatchers, Dispatches(d) PROVE FALSE
    BY <1>1, <1>6, <2>1
       DEF Dispatches, Starts, Loads, Sizes, GivesUp, LoadsFull, GoesOn, Enters, Constructs,
           Publishes
  <2>2. ASSUME NEW v \in Workers, Works(v)
        PROVE  /\ Pops(w) /\ Waiting(w)
               /\ queue'[w].read = Advance(queue[w].read, 1)
               /\ worker'[w].pc \notin AtWork /\ ~Interrupted(w)'
               /\ UNCHANGED <<attempts, pushed, dispatcher, nextMessage>>
    <3>1. v = w /\ Pops(w)
      BY <1>1, <1>6, <2>2 DEF Works, Peeks, Begins, Finishes, Ends, Fails, LoadsIndex
    <3>2. processUp /\ processUp'
      BY <2>2 DEF Works
    <3>3. Waiting(w)
      BY <1>1, <3>1 DEF Pops, FrontShape, AtWork
    <3>4. queue'[w].read = Advance(queue[w].read, 1)
      BY <1>1, <3>1 DEF Pops, FrontShape
    <3> QED
      BY <2>2, <3>1, <3>2, <3>3, <3>4 DEF Works, Pops, AtWork, Interrupted, sending
  <2>3. ASSUME Supervises
        PROVE  /\ Waiting(w) /\ Interrupted(w) /\ queue'[w].write = queue[w].write
               /\ queue'[w].read = Advance(queue[w].read, 1)
               /\ worker'[w].pc \notin AtWork /\ ~Interrupted(w)'
               /\ UNCHANGED <<attempts, pushed, dispatcher, nextMessage>>
    <3>1. Skips /\ supervisor.w = w
      BY <1>1, <1>6, <2>3
         DEF Supervises, Detects, Passes, Stops, Reads, Skips, Closes, Returns
    <3>2. Interrupted(w) /\ ~Interrupted(w)' /\ worker'[w].pc = "down"
      BY <1>1, <3>1 DEF Skips, Interrupted, Transactions, Undisturbed, process
    <3>3. Waiting(w) /\ supervisor.read = queue[w].read
      BY <1>1, <3>1, <3>2 DEF Skips, FrontShape, LoadedShape
    <3> QED
      BY <1>1, <2>3, <3>1, <3>2, <3>3 DEF Supervises, Skips, AtWork, sending
  <2>4. Waiting(w) => Advance(queue[w].read, 1) = queue[w].read + 1
    BY <1>1, Linear
  <2> QED
    BY <1>6, <2>1, <2>2, <2>3, <2>4 DEF Moves, Pops, Death, Names, vars
<1> QED
  BY <1>1, <1>3, <1>4, <1>5, <1>6

(* The messages of a queue are messages.                                   *)
LEMMA SentType ==
    ASSUME TypeOK, NEW w \in Workers, NEW k \in DOMAIN pushed[w]
    PROVE  pushed[w][k] \in Messages
<1>1. pushed[w] \in Seq(Messages)
  BY FieldTypes
<1> QED
  BY <1>1

(* A message that was begun stays begun.                                   *)
LEMMA StartedStep ==
    ASSUME TypeOK, Moves, NEW m \in Messages, started[m] > 0
    PROVE  started'[m] > 0
<1>1. started[m] \in Nat
  BY DEF TypeOK
<1>2. ASSUME NEW w \in Workers, Works(w)
      PROVE  started' = started \/ started' = Count(started, worker[w].msg)
  BY <1>2 DEF Works, Peeks, Begins, Finishes, Ends, Fails, LoadsIndex, Pops, attempts
<1>3. started' = started \/ \E x : started' = Count(started, x)
  BY <1>2 DEF Moves, Dispatches, Death, Names, Supervises, vars, attempts
<1> QED
  BY <1>1, <1>3 DEF Count

(* BeginTransaction comes before everything that takes a message off.      *)
LEMMA AttemptedStep ==
    ASSUME TypeOK, DispatcherShape, Numbers, Transactions, QueuesSound, Attempted, Moves
    PROVE  Attempted'
<1> SUFFICES ASSUME NEW w, w \in Undisturbed'
             PROVE  /\ \A k \in 1 .. queue'[w].read : started'[pushed'[w][k]] > 0
                    /\ worker'[w].pc \in AtWork \ {"peeked"} => started'[First(w)'] > 0
                    /\ Interrupted(w)' => started'[First(w)'] > 0
  BY DEF Attempted
<1>1. /\ w \in Undisturbed /\ w \in Workers
      /\ queue[w].read \in Nat /\ queue[w].write \in Nat
      /\ queue[w].read <= queue[w].write
      /\ DOMAIN pushed[w] = 1 .. queue[w].write
      /\ \A k \in 1 .. queue[w].write : pushed'[w][k] = pushed[w][k]
  BY EndsStep
<1>2. /\ \A k \in 1 .. queue[w].read : started[pushed[w][k]] > 0
      /\ worker[w].pc \in AtWork \ {"peeked"} => started[First(w)] > 0
      /\ Interrupted(w) => started[First(w)] > 0
  BY <1>1 DEF Attempted
<1>3. FrontShape(w) /\ FrontShape(w)'
  BY <1>1, QueuesStep DEF QueuesSound
<1>4. ASSUME NEW k \in 1 .. queue[w].write, started[pushed[w][k]] > 0
      PROVE  started'[pushed'[w][k]] > 0
  BY <1>1, <1>4, SentType, StartedStep
<1>5. Waiting(w) => queue[w].read + 1 \in 1 .. queue[w].write
  BY <1>1 DEF Waiting
<1>6. CASE queue'[w].read # queue[w].read
  <2>1. /\ queue'[w].read = queue[w].read + 1
        /\ Waiting(w) /\ worker'[w].pc \notin AtWork /\ ~Interrupted(w)'
        /\ worker[w].pc = "popping" \/ Interrupted(w)
    BY <1>6, EndsStep
  <2>2. started[pushed[w][queue[w].read + 1]] > 0
    BY <1>2, <2>1 DEF AtWork, First
  <2>3. \A k \in 1 .. queue[w].read + 1 : started[pushed[w][k]] > 0
    BY <1>1, <1>2, <2>2
  <2>4. \A k \in 1 .. queue[w].read + 1 : k \in 1 .. queue[w].write
    BY <1>1, <1>5, <2>1
  <2> QED
    BY <1>4, <2>1, <2>3, <2>4
<1>7. CASE queue'[w].read = queue[w].read
  <2>1. \A k \in 1 .. queue'[w].read : started'[pushed'[w][k]] > 0
    BY <1>1, <1>2, <1>4, <1>7
  <2>2. Waiting(w) => First(w)' = First(w)
    BY <1>1, <1>5, <1>7 DEF First
  <2>3. Waiting(w) /\ started[First(w)] > 0 => started'[First(w)'] > 0
    BY <1>4, <1>5, <1>7, <2>2 DEF First
  <2>4. ASSUME worker'[w].pc \in AtWork \ {"peeked"}
        PROVE  started'[First(w)'] > 0
    <3>1. CASE worker[w].pc \in AtWork \ {"peeked"}
      BY <1>2, <1>3, <2>3, <3>1 DEF FrontShape
    <3>2. CASE worker[w].pc \notin AtWork \ {"peeked"}
      <4>1. ASSUME NEW v \in Workers, Works(v)
            PROVE  Begins(w)
        <5>1. v = w
          BY <1>1, <2>4, <3>2, <4>1 DEF Works
        <5> QED
          BY <2>4, <3>2, <4>1, <5>1 DEF Works, Peeks, Begins, Finishes, Ends, Fails, LoadsIndex, Pops, AtWork
      <4>2. ASSUME Supervises PROVE FALSE
        BY <1>1, <2>4, <3>2, <4>2
           DEF Supervises, Detects, Passes, Stops, Reads, Skips, Closes, Returns, process,
               AtWork
      <4>3. Begins(w)
        BY <1>1, <2>4, <3>2, <4>1, <4>2 DEF Moves, Dispatches, Death, Names, vars, process, AtWork
      <4>4. Waiting(w) /\ worker[w].msg = First(w)
        BY <1>3, <4>3 DEF Begins, FrontShape, AtWork, First
      <4>5. First(w) \in Messages
        BY <1>1, <1>5, <4>4, SentType DEF First
      <4>6. started'[First(w)] = started[First(w)] + 1 /\ started[First(w)] \in Nat
        BY <4>3, <4>4, <4>5 DEF Begins, Count, TypeOK
      <4> QED
        BY <2>2, <4>4, <4>6
    <3> QED
      BY <3>1, <3>2
  <2>5. ASSUME Interrupted(w)' PROVE started'[First(w)'] > 0
    <3>1. CASE Interrupted(w)
      BY <1>2, <1>3, <2>3, <3>1 DEF FrontShape
    <3>2. CASE ~Interrupted(w)
      <4>1. CASE UNCHANGED <<monitor, processUp, supervisor>>
        BY <2>5, <3>2, <4>1 DEF Interrupted
      <4>2. ASSUME NEW v \in Workers, Works(v) PROVE FALSE
        BY <2>5, <4>2 DEF Works, Interrupted
      <4>3. ASSUME Supervises PROVE FALSE
        <5>1. Idle # Processing
          BY DEF Idle, Processing
        <5>2. CASE Detects \/ Passes \/ Stops \/ Reads \/ Skips \/ Closes
          <6>1. processUp' = processUp
            BY <5>2 DEF Detects, Passes, Stops, Reads, Skips, Closes, process
          <6>2. CASE Detects \/ Passes \/ Stops \/ Reads
            BY <2>5, <3>2, <6>1, <6>2 DEF Detects, Passes, Stops, Reads, Interrupted
          <6>3. CASE Skips
            BY <1>1, <1>7, <2>5, <3>2, <6>1, <6>3, FieldTypes DEF Skips, Interrupted
          <6>4. CASE Closes
            BY <1>1, <2>5, <3>2, <5>1, <6>1, <6>4 DEF Closes, Interrupted
          <6> QED
            BY <5>2, <6>2, <6>3, <6>4
        <5>3. CASE Returns
          BY <2>5, <3>2, <5>3 DEF Returns, Interrupted
        <5> QED
          BY <4>3, <5>2, <5>3 DEF Supervises
      <4>4. CASE Death
        <5>1. worker[w].pc \in AtWork \ {"peeked"}
          BY <1>1, <2>5, <4>4 DEF Death, Interrupted, Transactions, Undisturbed, AtWork
        <5> QED
          BY <1>2, <1>3, <2>3, <5>1 DEF FrontShape
      <4> QED
        BY <4>1, <4>2, <4>3, <4>4 DEF Moves, Dispatches, Names, vars, process
    <3> QED
      BY <3>1, <3>2
  <2> QED
    BY <2>1, <2>4, <2>5
<1> QED
  BY <1>6, <1>7
-----------------------------------------------------------------------------
(* The only step that counts a message as finished is the end of a handler. *)
LEMMA FinishedStep ==
    ASSUME TypeOK, Moves
    PROVE  \/ finished' = finished
           \/ \E v \in Workers : /\ Works(v) /\ Finishes(v)
                                 /\ UNCHANGED <<queue, sending, deaths>>
                                 /\ \A m \in Messages :
                                        finished'[m] = IF m = worker[v].msg
                                                       THEN finished[m] + 1 ELSE finished[m]
<1>1. ASSUME NEW v \in Workers, Works(v), finished' # finished
      PROVE  Finishes(v)
  BY <1>1 DEF Works, Peeks, Begins, Finishes, Ends, Fails, LoadsIndex, Pops, attempts
<1>2. ASSUME NEW v \in Workers, Works(v), Finishes(v)
      PROVE  /\ UNCHANGED <<queue, sending, deaths>>
             /\ \A m \in Messages : finished'[m] = IF m = worker[v].msg
                                                   THEN finished[m] + 1 ELSE finished[m]
  BY <1>2 DEF Works, Finishes, Count, dying
<1> QED
  BY <1>1, <1>2 DEF Moves, Dispatches, Death, Names, Supervises, vars, attempts

(* The number a worker has in work was given before.                       *)
LEMMA OwnNumbered ==
    ASSUME TypeOK, DispatcherShape, Numbers, NEW w \in Workers, NEW m \in Own(w)
    PROVE  m < nextMessage
<1>1. CASE m \in Sent(w)
  BY <1>1 DEF Sent, Numbers
<1>2. ASSUME NEW d \in Writing(w), m = dispatcher[d].msg PROVE m < nextMessage
  <2>1. dispatcher[d].msg \in 1 .. nextMessage - 1
    BY <1>2 DEF DispatcherShape, ThreadShape, Writing, Pushing, Busy
  <2> QED
    BY <1>2, <2>1, FieldTypes
<1> QED
  BY <1>1, <1>2 DEF Own

(* A handler finishes nothing but the message at the front of its queue.   *)
LEMMA UntouchedFinish ==
    ASSUME TypeOK, DispatcherShape, Numbers, Belongs, QueuesSound, Untouched,
           NEW v \in Workers, Works(v), Finishes(v), UNCHANGED <<queue, sending, deaths>>,
           \A m \in Messages : finished'[m] = IF m = worker[v].msg
                                              THEN finished[m] + 1 ELSE finished[m]
    PROVE  Untouched'
<1>1. UNCHANGED <<queue, pushed, dispatcher, overlapped, mistaken, nextMessage>>
  BY DEF Works, sending
<1>2. CASE worker[v].msg = 0
  <2>1. \A m \in Messages : finished'[m] = finished[m]
    BY <1>2, MaxMessagesAssumption DEF Messages
  <2>2. ASSUME NEW w \in Undisturbed, NEW k \in queue[w].read + 2 .. queue[w].write
        PROVE  pushed[w][k] \in Messages
    <3>1. QueueShape(w) /\ w \in Workers
      BY DEF QueuesSound, Undisturbed
    <3>2. k \in DOMAIN pushed[w]
      BY <3>1, Linear
    <3> QED
      BY <3>1, <3>2, SentType
  <2>3. \A d \in Busy : dispatcher[d].msg \in Messages
    BY FieldTypes, MaxMessagesAssumption DEF DispatcherShape, ThreadShape, Busy, Messages
  <2> QED
    BY <1>1, <2>1, <2>2, <2>3 DEF Untouched, Busy, Undisturbed
<1>3. CASE worker[v].msg # 0
  <2> DEFINE m0 == worker[v].msg
  <2>1. m0 \in Own(v)
    BY <1>3 DEF Belongs
  <2>2. \A m \in Messages : m # m0 => finished'[m] = finished[m]
    OBVIOUS
  <2>3. m0 < nextMessage /\ m0 \in Messages
    BY <1>3, <2>1, OwnNumbered, FieldTypes
  <2>4. \A m \in Messages : m >= nextMessage => finished'[m] = 0
    BY <2>2, <2>3, FieldTypes DEF Untouched, Messages
  <2>5. v \in Undisturbed => m0 = First(v) /\ queue[v].read + 1 \in DOMAIN pushed[v]
    <3>1. ASSUME v \in Undisturbed
          PROVE  QueueShape(v) /\ Waiting(v) /\ m0 = First(v)
      BY <3>1 DEF QueuesSound, FrontShape, Finishes, AtWork, First
    <3>2. ASSUME v \in Undisturbed
          PROVE queue[v].read + 1 \in DOMAIN pushed[v]
      BY <3>1, <3>2, Linear DEF Waiting
    <3> QED
      BY <3>1, <3>2
  <2>6. ASSUME NEW d \in Busy,
               \/ dispatcher[d].pc \in {"scanning", "sizing", "checking"} \cup Chosen
               \/ dispatcher[d].best \in Undisturbed
        PROVE  finished'[dispatcher[d].msg] = 0
    <3>1. dispatcher[d].msg \in Messages /\ finished[dispatcher[d].msg] = 0
      BY <2>6, FieldTypes, MaxMessagesAssumption
         DEF Untouched, DispatcherShape, ThreadShape, Busy, Messages
    <3>2. ASSUME dispatcher[d].msg = m0 PROVE FALSE
      <4>1. m0 \notin Sent(v)
        BY <3>2 DEF Sent, Numbers
      <4>2. PICK e \in Writing(v) : m0 = dispatcher[e].msg
        BY <2>1, <4>1 DEF Own
      <4>3. d = e
        BY <3>2, <4>2 DEF Numbers, Writing, Pushing, Busy
      <4>4. v \in Undisturbed
        BY <2>6, <4>2, <4>3 DEF Writing, Pushing, Chosen
      <4> QED
        BY <2>5, <4>1, <4>4 DEF Sent, First
    <3> QED
      BY <2>2, <3>1, <3>2
  <2>7. ASSUME NEW w \in Undisturbed, NEW k \in queue[w].read + 2 .. queue[w].write
        PROVE  finished'[pushed[w][k]] = 0
    <3>1. QueueShape(w) /\ w \in Workers /\ queue[w].read \in Nat
      BY FieldTypes DEF QueuesSound, Undisturbed
    <3>2. k \in DOMAIN pushed[w] /\ k # queue[w].read + 1
      BY <3>1, Linear
    <3>3. pushed[w][k] \in Messages /\ finished[pushed[w][k]] = 0
      BY <3>1, <3>2, SentType DEF Untouched
    <3>4. ASSUME pushed[w][k] = m0 PROVE FALSE
      <4>1. m0 \in Own(w)
        BY <3>2, <3>4 DEF Own, Sent
      <4>2. w = v
        BY <2>1, <3>1, <4>1, OwnApart
      <4> QED
        BY <2>5, <3>2, <3>4, <4>2 DEF Numbers, First
    <3> QED
      BY <2>2, <3>3, <3>4
  <2> QED
    BY <1>1, <2>4, <2>6, <2>7 DEF Untouched, Busy, Undisturbed
<1> QED
  BY <1>2, <1>3

(* Only the message at the front is ever processed.                        *)
LEMMA UntouchedStep ==
    ASSUME TypeOK, DispatcherShape, Numbers, Belongs, Transactions, QueuesSound,
           Untouched, Moves
    PROVE  Untouched'
<1>1. CASE finished' # finished
  BY <1>1, FinishedStep, UntouchedFinish
<1>2. CASE finished' = finished
  <2>1. nextMessage \in Int /\ (nextMessage' = nextMessage \/ nextMessage' = nextMessage + 1)
    <3>1. ASSUME NEW d \in Dispatchers, Dispatches(d)
          PROVE nextMessage' = nextMessage \/ nextMessage' = nextMessage + 1
      BY <3>1 DEF Dispatches, Starts, Loads, Sizes, GivesUp, LoadsFull, GoesOn, Enters, Constructs,
             Publishes
    <3>2. nextMessage' = nextMessage \/ nextMessage' = nextMessage + 1
      BY <3>1 DEF Moves, Works, Death, Names, Supervises, vars, sending
    <3> QED
      BY <3>2, FieldTypes
  <2>2. \A m \in Messages : m >= nextMessage' => finished'[m] = 0
    BY <1>2, <2>1 DEF Untouched, Messages
  <2>3. ASSUME NEW e \in Dispatchers, e \in Busy',
               \/ dispatcher'[e].pc \in {"scanning", "sizing", "checking"} \cup Chosen
               \/ dispatcher'[e].best \in Undisturbed'
        PROVE  finished[dispatcher'[e].msg] = 0
    <3>1. CASE Starts(e)
      BY <2>1, <3>1 DEF Starts, Untouched
    <3>2. CASE e \in Busy /\ dispatcher'[e].msg = dispatcher[e].msg
      <4>1. dispatcher'[e].best \in Undisturbed' => dispatcher'[e].best \in Undisturbed
        BY UndisturbedStep
      <4>2. CASE dispatcher'[e] = dispatcher[e]
        BY <2>3, <3>2, <4>1, <4>2 DEF Untouched
      <4>3. CASE Dispatches(e)
        <5>1. CASE \/ Loads(e) \/ Sizes(e) \/ GivesUp(e)
                   \/ LoadsFull(e) \/ GoesOn(e) \/ Enters(e)
          BY <3>2, <5>1 DEF Loads, Sizes, GivesUp, LoadsFull, GoesOn, Enters, Chosen, Untouched
        <5>2. CASE Constructs(e)
          BY <2>3, <3>2, <4>1, <5>2 DEF Constructs, Chosen, Untouched
        <5>3. ~Publishes(e) /\ ~Starts(e)
          BY <2>3, <3>2 DEF Publishes, Starts, Resting, Busy
        <5> QED
          BY <4>3, <5>1, <5>2, <5>3 DEF Dispatches
      <4> QED
        BY <4>2, <4>3 DEF Moves, Dispatches, Works, Death, Names, Supervises, vars, sending
    <3> QED
      BY <2>3, <3>1, <3>2, SenderStep
  <2>4. ASSUME NEW w, w \in Undisturbed',
               NEW k \in queue'[w].read + 2 .. queue'[w].write
        PROVE  finished[pushed'[w][k]] = 0
    <3>1. /\ w \in Undisturbed /\ w \in Workers
          /\ queue[w].read \in Nat /\ queue[w].write \in Nat
          /\ queue'[w].read = queue[w].read \/ queue'[w].read = queue[w].read + 1
      BY <2>4, EndsStep
    <3>2. \/ queue'[w].write = queue[w].write /\ pushed'[w] = pushed[w]
          \/ \E d \in Dispatchers :
                /\ Publishes(d) /\ dispatcher[d].best = w
                /\ queue'[w].write = queue[w].write + 1
                /\ \A l \in 1 .. queue[w].write : pushed'[w][l] = pushed[w][l]
                /\ pushed'[w][queue[w].write + 1] = dispatcher[d].msg
      BY <2>4, EndsStep
    <3>3. ASSUME k \in queue[w].read + 2 .. queue[w].write, pushed'[w][k] = pushed[w][k]
          PROVE  finished[pushed'[w][k]] = 0
      BY <3>1, <3>3 DEF Untouched
    <3>4. CASE queue'[w].write = queue[w].write /\ pushed'[w] = pushed[w]
      <4>1. k \in queue[w].read + 2 .. queue[w].write
        BY <3>1, <3>4
      <4> QED
        BY <3>3, <3>4, <4>1
    <3>5. ASSUME NEW d \in Dispatchers,
                 Publishes(d), dispatcher[d].best = w,
                 queue'[w].write = queue[w].write + 1,
                 \A l \in 1 .. queue[w].write : pushed'[w][l] = pushed[w][l],
                 pushed'[w][queue[w].write + 1] = dispatcher[d].msg
          PROVE  finished[pushed'[w][k]] = 0
      <4>1. CASE k = queue[w].write + 1
        <5>1. d \in Busy /\ dispatcher[d].best \in Undisturbed
          BY <3>1, <3>5 DEF Publishes, Busy
        <5> QED
          BY <3>5, <4>1, <5>1 DEF Untouched
      <4>2. CASE k # queue[w].write + 1
        <5>1. k \in queue[w].read + 2 .. queue[w].write /\ k \in 1 .. queue[w].write
          BY <3>1, <3>5, <4>2
        <5> QED
          BY <3>3, <3>5, <5>1
      <4> QED
        BY <4>1, <4>2
    <3> QED
      BY <3>2, <3>4, <3>5
  <2> QED
    BY <1>2, <2>2, <2>3, <2>4 DEF Untouched, Busy
<1> QED
  BY <1>1, <1>2
-----------------------------------------------------------------------------
(* The repetitions of a queue, pair by pair.                               *)
LEMMA RepeatsAre ==
    ASSUME NEW w
    PROVE  \A x : x \in Repeats(w) <=>
                      \E m \in Sent(w) : \E n \in 2 .. finished[m] : x = <<m, n>>
  BY DEF Repeats, Sent

(* Publishing a message that nobody has processed adds none, nor does any  *)
(* step that finishes none.                                                *)
LEMMA RepeatsKept ==
    ASSUME TypeOK, DispatcherShape, Numbers, Transactions, QueuesSound, Untouched,
           Moves, finished' = finished, NEW w, w \in Undisturbed'
    PROVE  Repeats(w)' = Repeats(w)
<1>1. /\ w \in Undisturbed /\ w \in Workers /\ queue[w].write \in Nat
      /\ DOMAIN pushed[w] = 1 .. queue[w].write
      /\ DOMAIN pushed'[w] = 1 .. queue'[w].write
      /\ \/ queue'[w].write = queue[w].write /\ pushed'[w] = pushed[w]
         \/ \E d \in Dispatchers :
               /\ Publishes(d) /\ Dispatches(d) /\ dispatcher[d].best = w
               /\ queue'[w].write = queue[w].write + 1
               /\ \A k \in 1 .. queue[w].write : pushed'[w][k] = pushed[w][k]
               /\ pushed'[w][queue[w].write + 1] = dispatcher[d].msg
  BY EndsStep
<1>2. CASE pushed'[w] = pushed[w]
  BY <1>2 DEF Repeats
<1>3. ASSUME NEW d \in Dispatchers,
             Publishes(d), dispatcher[d].best = w,
             queue'[w].write = queue[w].write + 1,
             \A k \in 1 .. queue[w].write : pushed'[w][k] = pushed[w][k],
             pushed'[w][queue[w].write + 1] = dispatcher[d].msg
      PROVE  Repeats(w)' = Repeats(w)
  <2>1. finished[dispatcher[d].msg] = 0
    <3>1. d \in Busy /\ dispatcher[d].best \in Undisturbed
      BY <1>1, <1>3 DEF Publishes, Busy
    <3> QED
      BY <1>3, <3>1 DEF Untouched
  <2>2. Sent(w)' = Sent(w) \cup {dispatcher[d].msg}
    <3>1. \A k \in DOMAIN pushed'[w] : k \in DOMAIN pushed[w] \/ k = queue[w].write + 1
      BY <1>1, <1>3
    <3>2. \A k \in DOMAIN pushed[w] : k \in DOMAIN pushed'[w] /\ pushed'[w][k] = pushed[w][k]
      BY <1>1, <1>3
    <3>3. queue[w].write + 1 \in DOMAIN pushed'[w]
      BY <1>1, <1>3
    <3> QED
      BY <1>3, <3>1, <3>2, <3>3 DEF Sent
  <2>3. \A n : n \notin 2 .. finished[dispatcher[d].msg]
    BY <2>1
  <2>4. \A x : x \in Repeats(w)' <=>
                   \E m \in Sent(w)' : \E n \in 2 .. finished[m] : x = <<m, n>>
    BY DEF Repeats, Sent
  <2>5. \A x : x \in Repeats(w)' <=> x \in Repeats(w)
    <3>1. \A m : m \in Sent(w)' => m \in Sent(w) \/ m = dispatcher[d].msg
      BY <2>2
    <3>2. \A m : m \in Sent(w) => m \in Sent(w)'
      BY <2>2
    <3> QED
      BY <2>3, <2>4, <3>1, <3>2, RepeatsAre
  <2> QED
    BY <2>5
<1> QED
  BY <1>1, <1>2, <1>3

(* The end of a handler adds one at most, for the message at the front,    *)
(* and none if it is the first time.                                       *)
LEMMA RepeatsFinish ==
    ASSUME TypeOK, Numbers, Belongs, QueuesSound,
           NEW v \in Workers, Works(v), Finishes(v), UNCHANGED <<queue, sending, deaths>>,
           \A m \in Messages : finished'[m] = IF m = worker[v].msg
                                              THEN finished[m] + 1 ELSE finished[m],
           NEW w \in Undisturbed
    PROVE  \/ Repeats(w)' = Repeats(w) /\ Debt(w)' <= Debt(w)
           \/ /\ \E x : Repeats(w)' = Repeats(w) \cup {x}
              /\ Debt(w) = 1 /\ Debt(w)' = 0
<1>1. /\ w \in Workers /\ QueueShape(w) /\ UNCHANGED <<queue, pushed>>
      /\ \A e \in Workers \ {v} : worker'[e] = worker[e]
  BY DEF sending, QueuesSound, Undisturbed, Works
<1>2. Sent(w) \subseteq Messages /\ Sent(w)' = Sent(w)
  BY <1>1, SentType DEF Sent
<1>3. \A x : x \in Repeats(w)' <=>
                 \E m \in Sent(w) : \E n \in 2 .. finished'[m] : x = <<m, n>>
  BY <1>1 DEF Repeats, Sent
<1>4. \A m \in Messages : finished[m] \in Nat
  BY DEF TypeOK
<1>5. CASE w # v
  <2>1. worker[v].msg \notin Sent(w)
    BY <1>1, <1>2, <1>5, OwnApart, MaxMessagesAssumption DEF Belongs, Own, Messages
  <2>2. \A m \in Sent(w) : finished'[m] = finished[m]
    BY <1>2, <2>1
  <2>3. Repeats(w)' = Repeats(w)
    <3>1. \A x : x \in Repeats(w)' <=> x \in Repeats(w)
      BY <1>3, <2>2, RepeatsAre
    <3> QED
      BY <3>1
  <2>4. Debt(w)' = Debt(w)
    <3>1. Waiting(w) => First(w) \in Sent(w)
      <4>1. Waiting(w) => queue[w].read + 1 \in DOMAIN pushed[w]
        BY <1>1, Linear DEF Waiting
      <4> QED
        BY <4>1 DEF First, Sent
    <3>2. First(w)' = First(w) /\ (Waiting(w)' <=> Waiting(w)) /\ worker'[w] = worker[w]
      BY <1>1, <1>5 DEF First, Waiting
    <3>3. Owing(w)' <=> Owing(w)
      BY <2>2, <3>1, <3>2 DEF Owing
    <3> QED
      BY <3>3 DEF Debt
  <2> QED
    BY <2>3, <2>4 DEF Debt
<1>6. CASE w = v
  <2> DEFINE m0 == First(w)
  <2>1. Waiting(w) /\ worker[w].msg = m0 /\ worker[w].pc = "begun"
    BY <1>6 DEF QueuesSound, FrontShape, Finishes, AtWork, First
  <2>2. queue[w].read + 1 \in DOMAIN pushed[w]
    BY <1>1, <2>1, Linear DEF Waiting
  <2>3. m0 \in Sent(w) /\ m0 \in Messages
    BY <1>2, <2>2 DEF Sent, First
  <2>4. /\ finished'[m0] = finished[m0] + 1 /\ finished[m0] \in Nat
        /\ \A m \in Sent(w) : m # m0 => finished'[m] = finished[m]
    BY <1>2, <1>4, <1>6, <2>1, <2>3
  <2>5. Debt(w)' = 0
    <3>1. worker'[w].pc = "done"
      BY <1>6 DEF Finishes
    <3>2. ~Owing(w)'
      BY <3>1 DEF Owing
    <3> QED
      BY <3>2 DEF Debt
  <2> HIDE DEF m0
  <2>6. CASE finished[m0] = 0
    <3>1. \A n : n \notin 2 .. finished'[m0] /\ n \notin 2 .. finished[m0]
      BY <2>4, <2>6
    <3>2. Repeats(w)' = Repeats(w)
      <4>1. \A x : x \in Repeats(w)' <=> x \in Repeats(w)
        BY <1>3, <2>4, <3>1, RepeatsAre
      <4> QED
        BY <4>1
    <3> QED
      BY <2>5, <3>2 DEF Debt
  <2>7. CASE finished[m0] > 0
    <3>1. Debt(w) = 1
      BY <2>1, <2>7 DEF Debt, Owing, m0
    <3>2. \A n : n \in 2 .. finished'[m0] <=> n \in 2 .. finished[m0] \/ n = finished[m0] + 1
      BY <2>4, <2>7
    <3>3. Repeats(w)' = Repeats(w) \cup {<<m0, finished[m0] + 1>>}
      BY <1>3, <2>3, <2>4, <3>2, RepeatsAre
    <3> QED
      BY <2>5, <3>1, <3>3
  <2>8. finished[m0] = 0 \/ finished[m0] > 0
    BY <2>4
  <2> QED
    BY <2>6, <2>7, <2>8, Zenon
<1> QED
  BY <1>5, <1>6

(* A step that finishes nothing leaves no more owing, unless it is a death. *)
LEMMA DebtKept ==
    ASSUME TypeOK, DispatcherShape, Numbers, Belongs, Transactions, QueuesSound, Untouched,
           Moves, ~Death, finished' = finished, NEW w, w \in Undisturbed', Owing(w)'
    PROVE  Owing(w)
<1>1. /\ w \in Undisturbed /\ w \in Workers
      /\ queue[w].read \in Nat /\ queue[w].write \in Nat
      /\ queue[w].read <= queue[w].write
      /\ \/ queue'[w].read = queue[w].read
         \/ queue'[w].read = queue[w].read + 1 /\ queue'[w].write = queue[w].write
  BY EndsStep
<1>2. Untouched'
  BY UntouchedStep
<1>3. queue'[w].read = queue[w].read
  <2>1. SUFFICES ASSUME queue'[w].read = queue[w].read + 1, queue'[w].write = queue[w].write
                 PROVE  FALSE
    BY <1>1
  <2>2. pushed' = pushed /\ queue[w].read + 2 <= queue[w].write
    BY <1>1, <2>1, EndsStep DEF Owing, Waiting
  <2>3. /\ queue[w].read + 2 \in queue[w].read + 2 .. queue[w].write
        /\ (queue[w].read + 1) + 1 = queue[w].read + 2
    BY <1>1, <2>2
  <2>4. finished[pushed[w][queue[w].read + 2]] = 0
    BY <1>1, <2>3 DEF Untouched
  <2>5. First(w)' = pushed[w][queue[w].read + 2]
    BY <2>1, <2>2, <2>3 DEF First
  <2> QED
    BY <2>4, <2>5 DEF Owing
<1>4. Waiting(w) /\ First(w)' = First(w)
  <2>1. CASE queue'[w].write = queue[w].write /\ pushed'[w] = pushed[w]
    BY <1>3, <2>1 DEF Owing, Waiting, First
  <2>2. ASSUME NEW d \in Dispatchers,
               Publishes(d), dispatcher[d].best = w,
               queue'[w].write = queue[w].write + 1,
               \A k \in 1 .. queue[w].write : pushed'[w][k] = pushed[w][k],
               pushed'[w][queue[w].write + 1] = dispatcher[d].msg
        PROVE  Waiting(w) /\ First(w)' = First(w)
    <3>1. ASSUME ~Waiting(w) PROVE FALSE
      <4>1. queue[w].read = queue[w].write
        BY <1>1, <3>1 DEF Waiting
      <4>2. First(w)' = dispatcher[d].msg
        BY <1>3, <2>2, <4>1 DEF First
      <4>3. d \in Busy /\ dispatcher[d].best \in Undisturbed
        BY <1>1, <2>2 DEF Publishes, Busy
      <4>4. finished[dispatcher[d].msg] = 0
        BY <2>2, <4>3 DEF Untouched
      <4> QED
        BY <4>2, <4>4 DEF Owing
    <3>2. queue[w].read + 1 \in 1 .. queue[w].write
      BY <1>1, <3>1 DEF Waiting
    <3> QED
      BY <1>3, <2>2, <3>1, <3>2 DEF First
  <2> QED
    BY <2>1, <2>2, EndsStep
<1>5. worker[w].pc \notin {"done", "ended", "popping"}
  <2> DEFINE Late == {"done", "ended", "popping"}
  <2>1. worker'[w].pc \notin Late
    BY DEF Owing
  <2>2. ASSUME NEW v \in Workers, Works(v), worker[w].pc \in Late
        PROVE  FALSE
    <3>1. v = w
      BY <1>1, <2>1, <2>2 DEF Works
    <3>2. Fails(w) \/ Pops(w)
      BY <2>1, <2>2, <3>1 DEF Works, Peeks, Begins, Finishes, Ends, LoadsIndex
    <3>3. Waiting(w) /\ QueueShape(w)
      BY <1>1, <3>2 DEF Fails, Pops, QueuesSound, FrontShape, AtWork
    <3>4. ~Fails(w)
      BY <1>1, <3>3, Linear DEF Fails
    <3>5. queue'[w].read = Advance(queue[w].read, 1)
      BY <1>1, <3>2, <3>4 DEF Pops, QueuesSound, FrontShape
    <3>6. queue'[w].read = queue[w].read + 1
      BY <1>1, <3>3, <3>5, Linear
    <3> QED
      BY <1>1, <1>3, <3>6
  <2>3. ASSUME Supervises, worker[w].pc \in Late
        PROVE  FALSE
    <3>1. processUp
      BY <1>1, <2>3 DEF Transactions
    <3>2. worker' = worker
      BY <2>3, <3>1
         DEF Supervises, Detects, Passes, Stops, Reads, Skips, Closes, Returns, process
    <3> QED
      BY <2>1, <2>3, <3>2
  <2> QED
    BY <2>1, <2>2, <2>3 DEF Moves, Dispatches, Names, vars, process
<1> QED
  BY <1>4, <1>5 DEF Owing

(* A repetition takes a death that was counted, and no death is used       *)
(* twice.                                                                  *)
LEMMA PaidStep ==
    ASSUME TypeOK, DispatcherShape, Numbers, Belongs, Transactions, QueuesSound, Untouched,
           Paid, Moves
    PROVE  Paid'
<1> SUFFICES ASSUME NEW w, w \in Undisturbed'
             PROVE  IsFiniteSet(Repeats(w)') /\ Cardinality(Repeats(w)') + Debt(w)' <= deaths'
  BY DEF Paid
<1>1. /\ w \in Undisturbed
      /\ IsFiniteSet(Repeats(w)) /\ Cardinality(Repeats(w)) + Debt(w) <= deaths
  BY UndisturbedStep DEF Paid
<1>2. /\ Cardinality(Repeats(w)) \in Nat /\ deaths \in Nat
      /\ Debt(w) \in {0, 1} /\ Debt(w)' \in {0, 1}
  BY <1>1, FS_CardinalityType DEF TypeOK, Debt
<1>3. CASE finished' = finished
  <2>1. Repeats(w)' = Repeats(w)
    BY <1>3, RepeatsKept
  <2>2. CASE Death
    BY <1>1, <1>2, <2>1, <2>2 DEF Death
  <2>3. CASE ~Death
    <3>1. deaths' = deaths
      BY <2>3 DEF Moves, Dispatches, Works, Names, Supervises, vars, dying
    <3>2. Debt(w)' <= Debt(w)
      BY <1>3, <2>3, DebtKept DEF Debt
    <3> QED
      BY <1>1, <1>2, <2>1, <3>1, <3>2
  <2> QED
    BY <2>2, <2>3
<1>4. CASE finished' # finished
  <2>1. /\ deaths' = deaths
        /\ \/ Repeats(w)' = Repeats(w) /\ Debt(w)' <= Debt(w)
           \/ /\ \E x : Repeats(w)' = Repeats(w) \cup {x}
              /\ Debt(w) = 1 /\ Debt(w)' = 0
    BY <1>1, <1>4, FinishedStep, RepeatsFinish
  <2>2. ASSUME NEW x, Repeats(w)' = Repeats(w) \cup {x}
        PROVE  /\ IsFiniteSet(Repeats(w)') /\ Cardinality(Repeats(w)') \in Nat
               /\ Cardinality(Repeats(w)') <= Cardinality(Repeats(w)) + 1
    BY <1>1, <1>2, <2>2, FS_AddElement
  <2>3. CASE Repeats(w)' = Repeats(w) /\ Debt(w)' <= Debt(w)
    BY <1>1, <1>2, <2>1, <2>3
  <2>4. ASSUME NEW x, Repeats(w)' = Repeats(w) \cup {x}, Debt(w) = 1, Debt(w)' = 0
        PROVE  IsFiniteSet(Repeats(w)') /\ Cardinality(Repeats(w)') + Debt(w)' <= deaths'
    BY <1>1, <1>2, <2>1, <2>2, <2>4
  <2> QED
    BY <2>1, <2>3, <2>4
<1> QED
  BY <1>3, <1>4
-----------------------------------------------------------------------------
(* What was skipped stays behind the read index.                           *)
LEMMA SkippedLeftStep ==
    ASSUME TypeOK, DispatcherShape, Numbers, Transactions, QueuesSound, SkippedLeft, Moves
    PROVE  SkippedLeft'
<1> SUFFICES ASSUME Undisturbed' = Workers, NEW m, m \in skipped'
             PROVE  \E w \in Workers : \E k \in 1 .. queue'[w].read : pushed'[w][k] = m
  BY DEF SkippedLeft
<1>1. Undisturbed = Workers
  BY UndisturbedStep DEF Undisturbed
<1>2. ASSUME NEW w \in Workers
      PROVE  /\ w \in Undisturbed /\ w \in Undisturbed'
             /\ queue[w].read \in Nat /\ queue[w].write \in Nat
             /\ queue[w].read <= queue[w].write
             /\ queue'[w].read = queue[w].read \/ queue'[w].read = queue[w].read + 1
             /\ \A k \in 1 .. queue[w].write : pushed'[w][k] = pushed[w][k]
  <2>1. w \in Undisturbed /\ w \in Undisturbed'
    BY <1>1
  <2> QED
    BY <2>1, EndsStep
<1>3. CASE m \in skipped
  <2>1. PICK w \in Workers : \E k \in 1 .. queue[w].read : pushed[w][k] = m
    BY <1>1, <1>3 DEF SkippedLeft
  <2>2. PICK k \in 1 .. queue[w].read : pushed[w][k] = m
    BY <2>1
  <2>3. k \in 1 .. queue'[w].read /\ pushed'[w][k] = m
    BY <1>2, <2>2
  <2> QED
    BY <2>3
<1>4. CASE m \notin skipped
  <2> DEFINE w == supervisor.w
  <2>1. Skips /\ m = queue[w].slots[SlotOf(supervisor.read)] /\ Supervises
    BY <1>4 DEF Moves, Dispatches, Works, Death, Names, Supervises, vars,
                Detects, Passes, Stops, Reads, Skips, Closes, Returns
  <2>2. w \in Workers
    BY <2>1, FieldTypes DEF Skips
  <2>3. Interrupted(w)
    BY <1>2, <2>1, <2>2 DEF Skips, Interrupted, Transactions, Undisturbed
  <2>4. QueueShape(w) /\ Waiting(w) /\ supervisor.read = queue[w].read
    BY <1>2, <2>1, <2>2, <2>3 DEF Skips, QueuesSound, FrontShape, LoadedShape
  <2>5. queue'[w].read = queue[w].read + 1
    BY <2>1, <2>2, <2>4, Linear DEF Skips
  <2>6. pushed'[w][queue[w].read + 1] = m
    <3>1. /\ queue[w].read + 1 \in queue[w].read + 1 .. queue[w].write
          /\ queue[w].read + 1 \in 1 .. queue[w].write
          /\ (queue[w].read + 1) - 1 = queue[w].read
      BY <1>2, <2>2, <2>4 DEF Waiting
    <3>2. queue[w].slots[SlotOf(queue[w].read)] = pushed[w][queue[w].read + 1]
      BY <2>4, <3>1 DEF QueueShape
    <3> QED
      BY <1>2, <2>1, <2>2, <2>4, <3>1, <3>2
  <2>7. queue[w].read + 1 \in 1 .. queue'[w].read
    BY <1>2, <2>2, <2>5
  <2> QED
    BY <2>2, <2>6, <2>7
<1> QED
  BY <1>3, <1>4

(* Only a new call makes the set of calls larger.                          *)
LEMMA BusyStep ==
    ASSUME Moves
    PROVE  \/ Busy' \subseteq Busy /\ rivals' = rivals
           \/ \E d \in Dispatchers :
                 /\ Starts(d) /\ Dispatches(d)
                 /\ d \notin Busy /\ Busy' = Busy \cup {d}
                 /\ rivals' = IF Busy = {} THEN rivals \ {d} ELSE rivals \cup Busy \cup {d}
<1>1. ASSUME NEW d \in Dispatchers, Dispatches(d)
      PROVE  \/ Busy' \subseteq Busy /\ rivals' = rivals
             \/ /\ Starts(d) /\ d \notin Busy /\ Busy' = Busy \cup {d}
                /\ rivals' = IF Busy = {} THEN rivals \ {d} ELSE rivals \cup Busy \cup {d}
  <2>1. CASE Starts(d)
    <3>1. d \notin Busy /\ d \in Busy'
      BY <2>1 DEF Starts, Busy
    <3>2. \A e \in Dispatchers \ {d} : e \in Busy' <=> e \in Busy
      BY <1>1 DEF Dispatches, Busy
    <3>3. Busy' = Busy \cup {d}
      <4>1. \A e : e \in Busy' <=> e \in Busy \cup {d}
        BY <3>1, <3>2 DEF Busy
      <4> QED
        BY <4>1
    <3> QED
      BY <2>1, <3>1, <3>3 DEF Starts
  <2>2. CASE ~Starts(d)
    <3>1. d \in Busy /\ rivals' = rivals
      BY <1>1, <2>2 DEF Dispatches, Loads, Sizes, GivesUp, LoadsFull, GoesOn, Enters, Constructs,
                          Publishes, Busy
    <3> QED
      BY <1>1, <3>1 DEF Dispatches, Busy
  <2> QED
    BY <2>1, <2>2
<1> QED
  BY <1>1 DEF Moves, Works, Death, Names, Supervises, vars, sending, Busy

(* A call becomes a rival when it finds another one under way.             *)
LEMMA AloneStep ==
    ASSUME Alone, Moves
    PROVE  Alone'
<1>1. CASE Busy' \subseteq Busy /\ rivals' = rivals
  BY <1>1 DEF Alone
<1>2. ASSUME NEW d \in Dispatchers, d \notin Busy, Busy' = Busy \cup {d},
             rivals' = IF Busy = {} THEN rivals \ {d} ELSE rivals \cup Busy \cup {d}
      PROVE  Alone'
  BY <1>2 DEF Alone
<1> QED
  BY <1>1, <1>2, BusyStep

(* The room a call has seen in a queue is still there.                     *)
LEMMA SizedStep ==
    ASSUME TypeOK, DispatcherShape, Numbers, Transactions, QueuesSound, Alone, Sized, Moves
    PROVE  Sized'
<1> DEFINE Room(d) ==
        /\ dispatcher[d].min <= Capacity
        /\ dispatcher[d].pc = "sizing" => dispatcher[d].write = queue[dispatcher[d].i].write
        /\ dispatcher[d].pc \in {"testing", "checking"} =>
               dispatcher[d].write = queue[dispatcher[d].best].write
        /\ dispatcher[d].pc \in {"scanning", "sizing", "checking"} \cup Chosen
               /\ dispatcher[d].i > 0 =>
               queue[dispatcher[d].best].write - queue[dispatcher[d].best].read
                   <= dispatcher[d].min
<1> SUFFICES ASSUME Undisturbed' = Workers, NEW d \in Dispatchers, d \notin rivals'
             PROVE  Room(d)'
  BY DEF Sized
<1>1. Undisturbed = Workers
  BY UndisturbedStep DEF Undisturbed
<1>2. CASE d \notin Busy'
  <2>1. DispatcherShape'
    BY DispatcherShapeStep
  <2>2. dispatcher'[d].min = 0 /\ dispatcher'[d].pc = "idle"
    BY <1>2, <2>1 DEF DispatcherShape, ThreadShape, Busy
  <2> QED
    BY <2>2, CapacityAssumption DEF Chosen
<1>3. CASE Starts(d) /\ Dispatches(d)
  <2>1. dispatcher'[d].min = 0 /\ dispatcher'[d].i = 0 /\ dispatcher'[d].pc = "scanning"
    BY <1>3 DEF Starts, DispatcherShape, ThreadShape, Busy
  <2> QED
    BY <2>1, CapacityAssumption
<1>4. CASE d \in Busy' /\ ~(Starts(d) /\ Dispatches(d))
  <2>1. d \in Busy /\ Busy = {d} /\ d \notin rivals
    <3>1. Busy' = {d}
      BY <1>4, AloneStep DEF Alone
    <3>2. CASE Busy' \subseteq Busy /\ rivals' = rivals
      BY <3>1, <3>2 DEF Alone
    <3>3. ASSUME NEW e \in Dispatchers, Starts(e), Dispatches(e),
                 e \notin Busy, Busy' = Busy \cup {e}
          PROVE  FALSE
      BY <1>4, <3>1, <3>3
    <3> QED
      BY <3>2, <3>3, BusyStep
  <2>2. Room(d)
    BY <1>1, <2>1 DEF Sized
  <2>3. ASSUME NEW e \in Dispatchers, Dispatches(e) PROVE e = d
    <3>1. e \in Busy \/ Starts(e)
      BY <2>3 DEF Dispatches, Loads, Sizes, GivesUp, LoadsFull, GoesOn, Enters, Constructs,
                          Publishes, Busy
    <3>2. Starts(e) => e \in Busy'
      BY DEF Starts, Busy
    <3>3. Busy' = {d}
      BY <1>4, AloneStep DEF Alone
    <3> QED
      BY <2>1, <3>1, <3>2, <3>3
  <2>4. \A w \in Workers : /\ QueueShape(w)
                           /\ queue[w].write \in Nat /\ queue[w].read \in Nat
                           /\ Used(queue[w].write, queue[w].read) = queue[w].write - queue[w].read
                           /\ queue[w].write - queue[w].read <= Capacity
    BY <1>1, Linear DEF QueuesSound, QueueShape, AvailableRequests
  <2>5. /\ dispatcher[d].best \in Workers /\ dispatcher[d].min \in Nat
        /\ dispatcher[d].i \in Nat
    BY FieldTypes, IndexRangeAssumption DEF Index
  <2>6. dispatcher[d].pc \in {"scanning", "sizing"} => dispatcher[d].i \in Workers
    BY <2>5, WorkerCountAssumption DEF DispatcherShape, ThreadShape, Workers
  <2>7. CASE dispatcher' = dispatcher
    <3>1. ASSUME NEW w \in Workers
          PROVE  /\ queue'[w].write = queue[w].write
                 /\ queue'[w].read \in {queue[w].read, queue[w].read + 1}
      <4>1. w \in Undisturbed'
        OBVIOUS
      <4>2. ASSUME NEW e \in Dispatchers, Publishes(e) PROVE FALSE
        BY <2>7, <4>2 DEF Publishes, Resting
      <4> QED
        BY <4>1, <4>2, EndsStep
    <3>2. queue'[dispatcher[d].best].write - queue'[dispatcher[d].best].read
              <= queue[dispatcher[d].best].write - queue[dispatcher[d].best].read
      BY <2>4, <2>5, <3>1
    <3>3. dispatcher[d].pc = "sizing" =>
              queue'[dispatcher[d].i].write = queue[dispatcher[d].i].write
      BY <2>6, <3>1
    <3>4. /\ queue'[dispatcher[d].best].write - queue'[dispatcher[d].best].read \in Int
          /\ queue[dispatcher[d].best].write - queue[dispatcher[d].best].read \in Int
      BY <2>4, <2>5, <3>1
    <3> QED
      BY <2>2, <2>5, <2>7, <3>1, <3>2, <3>3, <3>4
  <2>8. CASE Dispatches(d)
    <3>1. CASE Loads(d)
      BY <2>2, <3>1 DEF Loads, Chosen
    <3>2. CASE Sizes(d)
      <4> DEFINE i == dispatcher[d].i
                 size == queue[i].write - queue[i].read
                 better == i = 0 \/ size < dispatcher[d].min
      <4>1. i \in Workers /\ Used(dispatcher[d].write, queue[i].read) = size
            /\ size \in Int /\ size <= Capacity
        BY <2>2, <2>4, <2>6, <3>2 DEF Sizes
      <4>2. /\ dispatcher'[d].pc \in {"pushing", "scanning"}
            /\ dispatcher'[d].i = i + 1
            /\ dispatcher'[d].min = IF better THEN size ELSE dispatcher[d].min
            /\ dispatcher'[d].best = IF better THEN i ELSE dispatcher[d].best
            /\ queue' = queue /\ dispatcher[d].pc = "sizing"
        BY <3>2, <4>1 DEF Sizes
      <4>3. CASE better
        BY <4>1, <4>2, <4>3 DEF Chosen
      <4>4. CASE ~better
        <5>1. dispatcher[d].i > 0
          BY <2>5, <4>4
        <5> QED
          BY <2>2, <4>2, <4>4, <5>1 DEF Chosen
      <4> QED
        BY <4>3, <4>4
    <3>3. CASE GivesUp(d) \/ Publishes(d)
      BY <1>4, <3>3 DEF GivesUp, Publishes, Resting, Busy
    <3>4. CASE Enters(d)
      BY <2>2, <3>4 DEF Enters, Chosen
    <3>5. CASE Constructs(d)
      BY <2>2, <3>5 DEF Constructs, Chosen
    <3>6. CASE LoadsFull(d)
      BY <2>2, <3>6 DEF LoadsFull, Chosen
    <3>7. CASE GoesOn(d)
      BY <2>2, <3>7 DEF GoesOn, Chosen
    <3> QED
      BY <1>4, <2>8, <3>1, <3>2, <3>3, <3>4, <3>5, <3>6, <3>7 DEF Dispatches
  <2> QED
    BY <2>3, <2>7, <2>8 DEF Moves, Works, Death, Names, Supervises, vars, sending
<1> QED
  BY <1>2, <1>3, <1>4
-----------------------------------------------------------------------------
(* The invariant holds at the start and after every step.                  *)
LEMMA RecoveryInit ==
    ASSUME Init
    PROVE  Recovery
<1>1. /\ Workers \subseteq Int /\ 0 \in Workers /\ 0 \in 0 .. WorkerCount
      /\ 0 \in Index /\ Capacity \in Nat /\ MaxMessages \in Nat /\ MaxCrashes \in Nat
  BY WorkerCountAssumption, IndexRangeAssumption, CapacityAssumption,
     MaxMessagesAssumption, MaxCrashesAssumption DEF Workers, Index
<1>2. TypeOK
  <2>1. queue \in [Workers -> Queue]
    <3>1. [write |-> 0, read |-> 0, slots |-> [s \in Slot |-> 0]] \in Queue
      BY <1>1 DEF Queue
    <3> QED
      BY <3>1 DEF Init
  <2>2. monitor \in [Workers -> Monitor]
    BY DEF Init, Monitor
  <2>3. dispatcher \in [Dispatchers -> Dispatcher]
    <3>1. Resting \in Dispatcher
      BY <1>1 DEF Resting, Dispatcher
    <3> QED
      BY <3>1 DEF Init
  <2>4. worker \in [Workers -> Worker]
    BY <1>1 DEF Init, Worker, Quiet
  <2>5. supervisor \in Supervisor
    BY <1>1 DEF Init, Supervisor
  <2>6. pushed \in [Workers -> Seq(Messages)]
    BY DEF Init
  <2>7. nextMessage \in 1 .. MaxMessages + 1 /\ crashes \in 0 .. MaxCrashes
    BY <1>1 DEF Init
  <2> QED
    BY <2>1, <2>2, <2>3, <2>4, <2>5, <2>6, <2>7 DEF Init, TypeOK
<1>3. Busy = {}
  BY DEF Init, Busy, Resting
<1>4. \A w \in Workers : /\ Pushing(w) = {} /\ Writing(w) = {}
                         /\ pushed[w] = << >> /\ Sent(w) = {}
  BY DEF Init, Pushing, Writing, Resting, Sent
<1>5. \A w \in Workers : /\ queue[w].write = 0 /\ queue[w].read = 0
                         /\ \A s \in Slot : queue[w].slots[s] = 0
                         /\ worker[w].pc = "idle" /\ worker[w].msg = 0
                         /\ monitor[w].status = Idle
  BY DEF Init, Quiet
<1>6. DispatcherShape
  BY <1>3 DEF Init, DispatcherShape, ThreadShape, Resting, Chosen
<1>7. Numbers
  BY <1>3, <1>4 DEF Numbers
<1>8. Belongs
  BY <1>5 DEF Belongs
<1>9. Transactions
  BY <1>5 DEF Init, Transactions, Idle, Processing
<1>10. QueuesSound
  <2> SUFFICES ASSUME NEW w \in Workers
               PROVE  QueueShape(w) /\ PushShape(w) /\ FrontShape(w)
    BY DEF QueuesSound, Undisturbed
  <2>1. QueueShape(w)
    BY <1>1, <1>4, <1>5 DEF QueueShape
  <2>2. PushShape(w)
    BY <1>4 DEF PushShape
  <2>3. FrontShape(w)
    BY <1>5 DEF Init, FrontShape, LoadedShape, AtWork, Interrupted, Idle, Processing
  <2> QED
    BY <2>1, <2>2, <2>3
<1>11. Attempted
  BY <1>5 DEF Attempted, Undisturbed, AtWork, Interrupted, Idle, Processing
<1>12. Untouched
  <2>1. \A m \in Messages : finished[m] = 0
    BY DEF Init
  <2>2. \A w \in Undisturbed : \A k \in queue[w].read + 2 .. queue[w].write : FALSE
    BY <1>5 DEF Undisturbed
  <2> QED
    BY <1>3, <2>1, <2>2 DEF Untouched
<1>13. Paid
  <2> SUFFICES ASSUME NEW w \in Workers
               PROVE  IsFiniteSet(Repeats(w)) /\ Cardinality(Repeats(w)) + Debt(w) <= deaths
    BY DEF Paid, Undisturbed
  <2>1. Repeats(w) = {}
    <3>1. \A x : x \notin Repeats(w)
      BY <1>4, RepeatsAre
    <3> QED
      BY <3>1
  <2>2. Debt(w) = 0
    BY <1>5 DEF Debt, Owing, Waiting
  <2> QED
    BY <2>1, <2>2, FS_EmptySet DEF Init
<1>14. SkippedLeft /\ Alone
  BY <1>3 DEF Init, SkippedLeft, Alone
<1>15. Sized
  BY <1>1 DEF Init, Sized, Resting, Chosen
<1> QED
  BY <1>2, <1>6, <1>7, <1>8, <1>9, <1>10, <1>11, <1>12, <1>13, <1>14, <1>15 DEF Recovery

(* The invariant is inductive.                                             *)
LEMMA RecoveryStep ==
    ASSUME Recovery, [Next]_vars
    PROVE  Recovery'
<1> USE DEF Recovery
<1>1. Moves
  BY StepMoves
<1>2. TypeOK' /\ DispatcherShape' /\ Numbers' /\ Belongs' /\ Transactions'
  BY <1>1, TypeStep, DispatcherShapeStep, NumbersStep, BelongsStep, TransactionsStep
<1>3. QueuesSound' /\ Attempted' /\ Untouched' /\ Paid'
  BY <1>1, QueuesStep, AttemptedStep, UntouchedStep, PaidStep
<1>4. SkippedLeft' /\ Alone' /\ Sized'
  BY <1>1, SkippedLeftStep, AloneStep, SizedStep
<1> QED
  BY <1>2, <1>3, <1>4

(* The invariant holds in every state.                                     *)
LEMMA RecoveryAlways == Spec => []Recovery
<1>1. Init => Recovery
  BY RecoveryInit
<1>2. Recovery /\ [Next]_vars => Recovery'
  BY RecoveryStep
<1> QED
  BY <1>1, <1>2, PTL DEF Spec
-----------------------------------------------------------------------------
(* Every variable keeps its type: no loop index of FindBestWorker or of    *)
(* RecoverCrashedWorkers leaves its range, no push runs without a message. *)
THEOREM TypeCorrect == Spec => []TypeOK
<1>1. Recovery => TypeOK
  BY DEF Recovery
<1> QED
  BY <1>1, RecoveryAlways, PTL

(* However the server and its clients dispatch, the worker works, dies and *)
(* is recovered: ForceAdvanceReadIndex never drives the read index past    *)
(* the write index, and a queue inside whose Push no two threads were at   *)
(* once holds what was pushed to it, in order.                             *)
THEOREM QueuesCorrect == Spec => []QueuesIntact
<1>1. ASSUME Recovery PROVE QueuesIntact
  <2> USE <1>1 DEF Recovery
  <2> SUFFICES ASSUME NEW w \in Undisturbed PROVE QueueIntact(w)
    BY DEF QueuesIntact
  <2>1. w \in Workers /\ QueueShape(w)
    BY DEF Undisturbed, QueuesSound
  <2>2. AvailableRequests(w) = queue[w].write - queue[w].read
    BY <2>1, Linear
  <2> QED
    BY <2>1, <2>2 DEF QueueShape, QueueIntact
<1> QED
  BY <1>1, RecoveryAlways, PTL

(* At least once: Pop and recovery's skip take only what BeginTransaction  *)
(* has marked.                                                             *)
THEOREM ConsumedCorrect == Spec => []ConsumedWereAttempted
<1>1. Recovery => ConsumedWereAttempted
  BY DEF Recovery, ConsumedWereAttempted, Attempted
<1> QED
  BY <1>1, RecoveryAlways, PTL

(* A message is processed again only because a worker died between the end *)
(* of its handler and Pop, and every death costs each queue one repetition *)
(* at most.                                                                *)
THEOREM RepeatsCorrect == Spec => []RepeatsArePaidByDeaths
<1>1. ASSUME Recovery PROVE RepeatsArePaidByDeaths
  <2> USE <1>1 DEF Recovery
  <2> SUFFICES ASSUME NEW w \in Undisturbed PROVE Cardinality(Repeats(w)) <= deaths
    BY DEF RepeatsArePaidByDeaths
  <2>1. IsFiniteSet(Repeats(w)) /\ Cardinality(Repeats(w)) + Debt(w) <= deaths
    BY DEF Paid
  <2>2. Cardinality(Repeats(w)) \in Nat /\ Debt(w) \in {0, 1} /\ deaths \in Nat
    BY <2>1, FS_CardinalityType DEF Debt, TypeOK
  <2> QED
    BY <2>1, <2>2
<1> QED
  BY <1>1, RecoveryAlways, PTL

(* A monitor that says a message is being processed belongs to a thread    *)
(* that is processing the message at the front of its queue, unless the    *)
(* process is down and recovery has yet to close the transaction.          *)
THEOREM OwnersCorrect == Spec => []OpenTransactionsHaveOwners
<1>1. ASSUME Recovery PROVE OpenTransactionsHaveOwners
  <2> USE <1>1 DEF Recovery
  <2> SUFFICES ASSUME NEW w \in Undisturbed, processUp, monitor[w].status = Processing
               PROVE  /\ worker[w].pc \in {"begun", "done"}
                      /\ worker[w].msg = Front(w)
    BY DEF OpenTransactionsHaveOwners
  <2>1. w \in Workers /\ QueueShape(w) /\ FrontShape(w)
    BY DEF Undisturbed, QueuesSound
  <2>2. worker[w].pc \in {"begun", "done"}
    BY <2>1 DEF Transactions, Undisturbed
  <2>3. Waiting(w) /\ worker[w].msg = pushed[w][queue[w].read + 1]
    BY <2>1, <2>2 DEF FrontShape, AtWork
  <2>4. Front(w) = pushed[w][queue[w].read + 1]
    <3>1. queue[w].read \in Nat /\ queue[w].write \in Nat
      BY <2>1, FieldTypes
    <3>2. /\ queue[w].read + 1 \in queue[w].read + 1 .. queue[w].write
          /\ (queue[w].read + 1) - 1 = queue[w].read
      BY <2>3, <3>1 DEF Waiting
    <3> QED
      BY <2>1, <3>2 DEF QueueShape, Front
  <2> QED
    BY <2>2, <2>3, <2>4
<1> QED
  BY <1>1, RecoveryAlways, PTL

(* The sizes FindBestWorker has seen are stale, but a queue it has seen    *)
(* with room has room when a call that no other one has overlapped gets to *)
(* Push.                                                                   *)
THEOREM DispatchCorrect == Spec => []DispatchUsesRoom
<1>1. ASSUME Recovery PROVE DispatchUsesRoom
  <2> USE <1>1 DEF Recovery
  <2> SUFFICES ASSUME NEW d \in Dispatchers \ rivals, Undisturbed = Workers
               PROVE  /\ dispatcher[d].min <= Capacity
                      /\ dispatcher[d].pc \in {"testing", "checking"}
                            /\ dispatcher[d].min < Capacity => ~SeenFull(d)
    BY DEF DispatchUsesRoom
  <2>1. dispatcher[d].min <= Capacity
    BY DEF Sized
  <2>2. ASSUME dispatcher[d].pc \in {"testing", "checking"}, dispatcher[d].min < Capacity
        PROVE  ~SeenFull(d)
    <3> DEFINE w == dispatcher[d].best
    <3>1. w \in Workers /\ dispatcher[d].min \in Int /\ dispatcher[d].i \in Int
      BY FieldTypes, IndexRangeAssumption DEF Index
    <3>2. /\ dispatcher[d].write = queue[w].write
          /\ queue[w].write - queue[w].read <= dispatcher[d].min
      <4>1. dispatcher[d].i > 0
        BY <2>2 DEF DispatcherShape, ThreadShape, Chosen
      <4> QED
        BY <2>2, <4>1 DEF Sized, Chosen
    <3>3. /\ queue[w].write \in Nat /\ queue[w].read \in Nat
          /\ Used(queue[w].write, queue[w].read) = queue[w].write - queue[w].read
      BY <3>1, Linear DEF QueuesSound, AvailableRequests
    <3> QED
      BY <2>2, <3>1, <3>2, <3>3, CapacityAssumption DEF SeenFull
  <2> QED
    BY <2>1, <2>2
<1> QED
  BY <1>1, RecoveryAlways, PTL

(* What recovery has skipped is not in any queue any more, so that no      *)
(* worker begins it or finishes it again.                                  *)
THEOREM SkippedCorrect == Spec => SkippedStaySkipped
<1>1. ASSUME Recovery, [Next]_vars
      PROVE  Undisturbed = Workers =>
                 \A m \in skipped : started'[m] = started[m] /\ finished'[m] = finished[m]
  <2> USE <1>1 DEF Recovery
  <2> SUFFICES ASSUME Undisturbed = Workers, NEW m \in skipped
               PROVE  started'[m] = started[m] /\ finished'[m] = finished[m]
    OBVIOUS
  <2>1. Moves /\ m \in Messages
    BY StepMoves DEF TypeOK
  <2>2. PICK w \in Workers : \E k \in 1 .. queue[w].read : pushed[w][k] = m
    BY DEF SkippedLeft
  <2>3. PICK k \in 1 .. queue[w].read : pushed[w][k] = m
    BY <2>2
  <2>4. \A v \in Workers : QueueShape(v) /\ FrontShape(v)
    BY DEF QueuesSound
  <2>5. k \in DOMAIN pushed[w] /\ k # queue[w].read + 1
    <3>1. queue[w].read \in Nat /\ queue[w].write \in Nat /\ queue[w].read <= queue[w].write
      BY <2>4, FieldTypes DEF QueueShape
    <3> QED
      BY <2>2, <2>4, <3>1, Linear
  <2>6. ASSUME NEW v \in Workers, worker[v].pc \in AtWork, worker[v].msg = m
        PROVE  FALSE
    <3>1. Waiting(v) /\ m = pushed[v][queue[v].read + 1]
      BY <2>4, <2>6 DEF FrontShape
    <3>2. queue[v].read + 1 \in DOMAIN pushed[v]
      BY <2>4, <3>1, Linear DEF Waiting
    <3> QED
      BY <2>3, <2>5, <3>1, <3>2 DEF Numbers
  <2>7. ASSUME NEW v \in Workers, Works(v)
        PROVE  started'[m] = started[m] /\ finished'[m] = finished[m]
    <3>1. CASE Begins(v)
      BY <2>1, <2>6, <3>1 DEF Begins, Count, AtWork
    <3>2. CASE Finishes(v)
      BY <2>1, <2>6, <3>2 DEF Finishes, Count, AtWork
    <3> QED
      BY <2>7, <3>1, <3>2 DEF Works, Peeks, Ends, Fails, LoadsIndex, Pops, attempts
  <2> QED
    BY <2>1, <2>7 DEF Moves, Dispatches, Death, Names, Supervises, vars, attempts
<1> QED
  BY <1>1, RecoveryAlways, PTL DEF Spec, SkippedStaySkipped
=============================================================================
