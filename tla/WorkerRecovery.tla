--------------------------- MODULE WorkerRecovery ---------------------------
(***************************************************************************)
(* One worker group of PhoenixShmLayout: the request queues, the           *)
(* ThreadMonitors, the dispatch to the least loaded worker by the server   *)
(* and by clients, the worker process with one thread per queue, its death *)
(* at any point, and the supervisor that finds it dead, or takes it for    *)
(* dead, skips the interrupted messages and forks again.  The Normal and   *)
(* the VIP group run the same code on queues of their own.                 *)
(*                                                                         *)
(* The queues are made for one producer and one consumer.  Server and      *)
(* clients push to the same queue, and recovery moves the read index of a  *)
(* worker that may be alive: what they do is modelled load by load.  The   *)
(* worker loop is the one of test/stress_test.cpp, where a crash leaves    *)
(* the transaction open.                                                   *)
(***************************************************************************)
EXTENDS RingIndex, Sequences, FiniteSets

CONSTANTS
    WorkerCount,  \* kNormalWorkerCount / kVipWorkerCount
    MaxMessages,  \* bound on the requests that are dispatched
    MaxRivals,    \* bound on those that are dispatched by several threads
    MaxCrashes,   \* bound on the crashes no message is to blame for
    MaxAlarms,    \* bound on the recoveries that begin while the worker runs
    Poison,       \* the messages that kill the worker that processes them
    Dispatchers,  \* the threads that send: of the server and of its clients
    Server        \* one of them

ASSUME WorkerCountAssumption == WorkerCount \in Nat \ {0}
\* The indices of this module do not wrap: module SpscRingBuffer has that case.
ASSUME MaxMessagesAssumption == MaxMessages \in Nat /\ MaxMessages < IndexRange
ASSUME MaxCrashesAssumption == MaxCrashes \in Nat
ASSUME MaxAlarmsAssumption == MaxAlarms \in Nat
ASSUME MaxRivalsAssumption == MaxRivals \in Nat
ASSUME ServerAssumption == Server \in Dispatchers
ASSUME PoisonAssumption == Poison \subseteq 1 .. MaxMessages

Workers  == 0 .. WorkerCount - 1
Messages == 1 .. MaxMessages     \* in the order they were begun
Idle == "idle"
Processing == "processing"

VARIABLES
    queue,       \* request_queue of each channel: [write, read, slots]
    monitor,     \* ThreadMonitor of each worker
    nextMessage, \* the next message
    dispatcher,  \* the threads inside DispatchMessage or SendRequest
    worker,      \* the thread of each worker
    processUp,   \* the worker process runs
    childExecs,  \* the child SupervisorMain forks runs the worker program.  In
                 \* the code it does not: "Child would need to re-exec, but for
                 \* simplicity, just exit".  Both are checked.
    watched,     \* whose pid worker_pid_ is: still -1, the worker's, or that of
                 \* a child that exited at once
    stored,      \* Start has stored the pid of the worker it forked
    supervisor,  \* SupervisorMain inside RecoverFromCrash
    crashes,     \* crashes so far that no message caused
    deaths,      \* history: how often the process has died
    pushed,      \* history: what was pushed to each queue
    started,     \* history: how often each message was begun
    finished,    \* history: how often each message was processed to its end
    skipped,     \* history: the messages recovery skipped
    overlapped,  \* history: the queues to which two pushed at the same time
    rivals,      \* history: the dispatchers whose call overlapped another
    alarms,      \* history: the recoveries that began while the worker ran
    mistaken     \* history: the queues whose live worker recovery interrupted

sending == <<nextMessage, dispatcher, pushed, overlapped, rivals>>
attempts == <<started, finished>>
process == <<worker, processUp, childExecs>>
watching == <<watched, stored, alarms>>
dying == <<crashes, deaths>>
vars == <<queue, monitor, sending, process, watching, supervisor, dying, attempts,
          skipped, mistaken>>

Queue == [write : Index, read : Index, slots : [Slot -> Messages \cup {0}]]

Monitor == [status : {Idle, Processing}]   \* nothing reads the other fields

Dispatcher == [pc    : {"idle", "scanning", "sizing", "pushing", "testing", "loading",
                        "checking", "constructing", "publishing"},
               msg   : Messages \cup {0},
               i     : 0 .. WorkerCount,      \* loop index of FindBest...Worker
               best  : Workers,               \* best_index
               min   : Index,                 \* min_size
               write : Index]                 \* the write index it has loaded

Worker == [pc   : {"idle", "peeked", "begun", "done", "ended", "popping",
                   "down"},
           msg  : Messages \cup {0},
           read : Index]                  \* the read index Pop has loaded

\* read: the read index ForceAdvanceReadIndex has loaded
Supervisor == [pc : {"watching"}, w : {0}, read : Index]
         \cup [pc : {"testing", "skipping", "storing", "ending"}, w : Workers, read : Index]
         \cup [pc : {"restarting"}, w : {WorkerCount}, read : Index]

TypeOK ==
    /\ queue \in [Workers -> Queue]
    /\ monitor \in [Workers -> Monitor]
    /\ nextMessage \in 1 .. MaxMessages + 1
    /\ dispatcher \in [Dispatchers -> Dispatcher]
    /\ worker \in [Workers -> Worker]
    /\ processUp \in BOOLEAN /\ childExecs \in BOOLEAN
    /\ watched \in {"none", "worker", "child"} /\ stored \in BOOLEAN
    /\ supervisor \in Supervisor
    /\ crashes \in 0 .. MaxCrashes
    /\ deaths \in Nat
    /\ pushed \in [Workers -> Seq(Messages)]
    /\ started \in [Messages -> Nat]
    /\ finished \in [Messages -> Nat]
    /\ skipped \subseteq Messages
    /\ overlapped \subseteq Workers /\ rivals \subseteq Dispatchers
    /\ alarms \in Nat /\ mistaken \subseteq Workers

Resting == [pc |-> "idle", msg |-> 0, i |-> 0, best |-> 0, min |-> 0, write |-> 0]

\* A worker thread that does nothing, or is no more.
Quiet(pc) == [pc |-> pc, msg |-> 0, read |-> 0]

\* PhoenixShmLayout::Initialize, and Start has forked the worker.  The supervisor
\* runs since before the fork: either the pid is stored when it looks, or its
\* waitpid(-1) has found no child yet.  (The server whose child executes the
\* worker program is looked at without that race.)
Init ==
    /\ queue = [w \in Workers |-> [write |-> 0, read |-> 0, slots |-> [s \in Slot |-> 0]]]
    /\ monitor = [w \in Workers |-> [status |-> Idle]]
    /\ nextMessage = 1
    /\ dispatcher = [d \in Dispatchers |-> Resting]
    /\ worker = [w \in Workers |-> Quiet("idle")]
    /\ processUp = TRUE /\ childExecs \in BOOLEAN
    /\ watched \in {"none", "worker"} /\ stored = (watched = "worker")
    /\ childExecs => stored
    /\ supervisor = [pc |-> "watching", w |-> 0, read |-> 0]
    /\ crashes = 0 /\ deaths = 0
    /\ pushed = [w \in Workers |-> << >>]
    /\ started = [m \in Messages |-> 0]
    /\ finished = [m \in Messages |-> 0]
    /\ skipped = {}
    /\ overlapped = {} /\ rivals = {}
    /\ alarms = 0 /\ mistaken = {}

\* AvailableRequests, RequestQueueEmpty, RequestQueueFull
AvailableRequests(w) == Used(queue[w].write, queue[w].read)
RequestQueueEmpty(w) == queue[w].write = queue[w].read
RequestQueueFull(w)  == AvailableRequests(w) >= Capacity
Front(w)             == queue[w].slots[SlotOf(queue[w].read)]

\* The store to read_idx_ that ends Pop and ForceAdvanceReadIndex.
StoreRead(w, index) == queue' = [queue EXCEPT ![w].read = index]

----------------------------------------------------------------------------
\* A thread of the server in DispatchMessage, or of a client in SendRequest

Busy == {d \in Dispatchers : dispatcher[d].pc # "idle"}
Pushing(w) == {d \in Dispatchers :
                  /\ dispatcher[d].pc \in {"checking", "constructing", "publishing"}
                  /\ dispatcher[d].best = w}

\* A request with a number of its own; FindBest...Worker begins.  (Bound: all
\* threads send up to the message MaxRivals; if no two calls overlapped, Server
\* sends the rest.)
DispatchStart(d) ==
    /\ dispatcher[d].pc = "idle" /\ nextMessage <= MaxMessages
    /\ nextMessage <= MaxRivals \/ (d = Server /\ rivals \cup Busy = {})
    /\ nextMessage' = nextMessage + 1
    /\ dispatcher' = [dispatcher EXCEPT ![d].pc = "scanning", ![d].msg = nextMessage]
    /\ rivals' = IF Busy = {} THEN rivals \ {d} ELSE rivals \cup Busy \cup {d}
    /\ UNCHANGED <<queue, monitor, process, watching, supervisor, dying, attempts,
                   pushed, skipped, overlapped, mistaken>>

\* Size of the i-th queue: the load of the write index.
DispatchScan(d) ==
    /\ dispatcher[d].pc = "scanning"
    /\ dispatcher' = [dispatcher EXCEPT ![d].pc = "sizing",
                                        ![d].write = queue[dispatcher[d].i].write]
    /\ UNCHANGED <<queue, monitor, process, watching, supervisor, dying, attempts,
                   skipped, nextMessage, pushed, overlapped, rivals, mistaken>>

\* The rest of the loop body, with the queue taken as the best one or not.
DispatchSized(d, size, better) ==
    LET i == dispatcher[d].i
    IN  /\ dispatcher[d].pc = "sizing"
        /\ dispatcher' = [dispatcher EXCEPT
               ![d].best = IF better THEN i ELSE @,
               ![d].min = IF better THEN size ELSE @,
               ![d].i = i + 1,
               ![d].write = 0,
               ![d].pc = IF i + 1 = WorkerCount THEN "pushing" ELSE "scanning"]
        /\ UNCHANGED <<queue, monitor, process, watching, supervisor, dying, attempts,
                       skipped, nextMessage, pushed, overlapped, rivals, mistaken>>

\* Slip: min_size starts at zero instead of with the size of the first queue.
DispatchCompareFromZero(d) ==
    LET size == Used(dispatcher[d].write, queue[dispatcher[d].i].read)
    IN  DispatchSized(d, 0, dispatcher[d].i = 0 \/ size < dispatcher[d].min)

\* The load of the read index.  The first queue, or a strictly smaller one, wins.
DispatchCompare(d) ==
    LET size == Used(dispatcher[d].write, queue[dispatcher[d].i].read)
    IN  DispatchSized(d, size, dispatcher[d].i = 0 \/ size < dispatcher[d].min)

\* The size of the chosen queue in Full and in Push: as both compute it, with the
\* read index of now and the write index they have loaded.
SeenFull(d) == Used(dispatcher[d].write, queue[dispatcher[d].best].read) >= Capacity

\* A test that finds the queue full fails the request, or d goes on.
Tested(d, pc) ==
    /\ dispatcher' = [dispatcher EXCEPT ![d] = IF SeenFull(d) THEN Resting
                                               ELSE [@ EXCEPT !.pc = pc]]
    /\ UNCHANGED <<queue, monitor, process, watching, supervisor, dying, attempts,
                   skipped, nextMessage, pushed, overlapped, rivals, mistaken>>

\* Full: the load of the write index,
FullLoad(d) ==
    /\ dispatcher[d].pc = "pushing"
    /\ dispatcher' = [dispatcher EXCEPT ![d].pc = "testing",
                                        ![d].write = queue[dispatcher[d].best].write]
    /\ UNCHANGED <<queue, monitor, process, watching, supervisor, dying, attempts,
                   skipped, nextMessage, pushed, overlapped, rivals, mistaken>>

\* and of the read index.
FullTest(d) ==
    /\ dispatcher[d].pc = "testing"
    /\ Tested(d, "loading")

\* Push: its own load of the write index,
PushLoad(d) ==
    LET w == dispatcher[d].best
    IN  /\ dispatcher[d].pc = "loading"
        /\ dispatcher' = [dispatcher EXCEPT ![d].pc = "checking",
                                            ![d].write = queue[w].write]
        /\ overlapped' = IF Pushing(w) = {} THEN overlapped ELSE overlapped \cup {w}
        /\ UNCHANGED <<queue, monitor, process, watching, supervisor, dying, attempts,
                       skipped, nextMessage, pushed, rivals, mistaken>>

\* and of the read index.
PushTest(d) ==
    /\ dispatcher[d].pc = "checking"
    /\ Tested(d, "constructing")

\* Push: the header is copied to the slot of the index that was loaded.
PushConstruct(d) ==
    /\ dispatcher[d].pc = "constructing"
    /\ queue' = [queue EXCEPT
           ![dispatcher[d].best].slots[SlotOf(dispatcher[d].write)] = dispatcher[d].msg]
    /\ dispatcher' = [dispatcher EXCEPT ![d].pc = "publishing"]
    /\ UNCHANGED <<monitor, process, watching, supervisor, dying, attempts,
                   skipped, nextMessage, pushed, overlapped, rivals, mistaken>>

\* Push: the store of that index plus one, whatever the index is by now.
PushPublish(d) ==
    LET w == dispatcher[d].best
    IN  /\ dispatcher[d].pc = "publishing"
        /\ queue' = [queue EXCEPT ![w].write = Advance(dispatcher[d].write, 1)]
        /\ pushed' = [pushed EXCEPT ![w] = Append(@, dispatcher[d].msg)]
        /\ dispatcher' = [dispatcher EXCEPT ![d] = Resting]
        /\ UNCHANGED <<monitor, process, watching, supervisor, dying, attempts,
                       skipped, nextMessage, overlapped, rivals, mistaken>>

----------------------------------------------------------------------------
\* The thread of worker w

To(w, pc) == worker' = [worker EXCEPT ![w].pc = pc]

\* One more in a history of the messages; a slot nobody wrote holds none.
Count(hist, msg) == [m \in Messages |-> IF m = msg THEN hist[m] + 1 ELSE hist[m]]

\* Peek finds a message and the monitor is free.  (MaxMessages bounds what is
\* read from a queue that two pushes have spoilt.)
WorkerPeek(w) ==
    /\ worker[w].pc = "idle" /\ queue[w].read < MaxMessages
    /\ ~RequestQueueEmpty(w)
    /\ monitor[w].status = Idle
    /\ worker' = [worker EXCEPT ![w].pc = "peeked", ![w].msg = Front(w)]
    /\ UNCHANGED <<queue, monitor, sending, processUp, childExecs, watching,
                   supervisor, dying, attempts, skipped, mistaken>>

\* BeginTransaction: its first store is the status.  The number, the time and the
\* indices that it stores next are read by nothing.
BeginTransaction(w) ==
    /\ worker[w].pc = "peeked"
    /\ monitor' = [monitor EXCEPT ![w].status = Processing]
    /\ started' = Count(started, worker[w].msg)
    /\ To(w, "begun")
    /\ UNCHANGED <<queue, sending, processUp, childExecs, watching, supervisor,
                   dying, finished, skipped, mistaken>>

\* The handler runs to its end.
Process(w) ==
    /\ worker[w].pc = "begun" /\ worker[w].msg \notin Poison
    /\ finished' = Count(finished, worker[w].msg)
    /\ To(w, "done")
    /\ UNCHANGED <<queue, monitor, sending, processUp, childExecs, watching,
                   supervisor, dying, started, skipped, mistaken>>

EndTransaction(w) ==
    /\ worker[w].pc = "done"
    /\ monitor' = [monitor EXCEPT ![w].status = Idle]
    /\ To(w, "ended")
    /\ UNCHANGED <<queue, sending, processUp, childExecs, watching, supervisor,
                   dying, attempts, skipped, mistaken>>

\* Slip: the test of Pop the wrong way round.
PopLoadReversed(w) ==
    /\ worker[w].pc = "ended"
    /\ worker' = [worker EXCEPT ![w] = IF RequestQueueEmpty(w)
                                       THEN [@ EXCEPT !.pc = "popping", !.read = queue[w].read]
                                       ELSE Quiet("idle")]
    /\ UNCHANGED <<queue, monitor, sending, processUp, childExecs, watching,
                   supervisor, dying, attempts, skipped, mistaken>>

\* Pop: the load of the read index and the test, which an empty queue fails.
PopLoad(w) ==
    /\ worker[w].pc = "ended"
    /\ worker' = [worker EXCEPT ![w] = IF RequestQueueEmpty(w)
                                       THEN Quiet("idle")
                                       ELSE [@ EXCEPT !.pc = "popping", !.read = queue[w].read]]
    /\ UNCHANGED <<queue, monitor, sending, processUp, childExecs, watching,
                   supervisor, dying, attempts, skipped, mistaken>>

\* Pop: the store of that index plus one, whatever the index is by now.
PopStore(w) ==
    /\ worker[w].pc = "popping"
    /\ StoreRead(w, Advance(worker[w].read, 1))
    /\ worker' = [worker EXCEPT ![w] = Quiet("idle")]
    /\ UNCHANGED <<monitor, sending, processUp, childExecs, watching, supervisor,
                   dying, attempts, skipped, mistaken>>

\* The process dies, and every worker thread with it.
Dies ==
    /\ processUp' = FALSE
    /\ worker' = [w \in Workers |-> Quiet("down")]
    /\ deaths' = deaths + 1
    /\ UNCHANGED <<queue, monitor, sending, childExecs, watching, supervisor, attempts,
                   skipped, mistaken>>

\* A poisonous message is processed.
PoisonCrash(w) ==
    /\ worker[w].pc = "begun" /\ worker[w].msg \in Poison
    /\ Dies
    /\ UNCHANGED crashes

\* Anything else, at any point.
Crash ==
    /\ processUp /\ crashes < MaxCrashes
    /\ crashes' = crashes + 1
    /\ Dies

----------------------------------------------------------------------------
\* Start and the supervisor thread

\* Start stores the pid fork has returned, perhaps over that of a child the
\* supervisor has forked.
PidStored ==
    /\ ~stored
    /\ stored' = TRUE /\ watched' = "worker"
    /\ UNCHANGED <<queue, monitor, sending, process, alarms, supervisor, dying,
                   attempts, skipped, mistaken>>

\* waitpid returns what worker_pid_ holds: the pid of a process that has ended, or
\* -1; RecoverCrashedWorkers begins.  (MaxAlarms bounds how often it does so
\* while the worker runs.)
DetectCrash ==
    /\ supervisor.pc = "watching"
    /\ watched = "worker" => ~processUp
    /\ processUp => alarms < MaxAlarms
    /\ alarms' = IF processUp THEN alarms + 1 ELSE alarms
    /\ supervisor' = [pc |-> "testing", w |-> 0, read |-> 0]
    /\ UNCHANGED <<queue, monitor, sending, process, watched, stored, dying,
                   attempts, skipped, mistaken>>

\* Slip: the loop runs one worker too far.
NextWorkerTooFar == [pc |-> IF supervisor.w = WorkerCount THEN "restarting" ELSE "testing",
                     w |-> supervisor.w + 1, read |-> 0]

\* The next turn of the loop of RecoverCrashedWorkers.
NextWorker == [pc |-> IF supervisor.w + 1 = WorkerCount THEN "restarting" ELSE "testing",
               w |-> supervisor.w + 1, read |-> 0]

\* Slip: every worker is taken for interrupted.
RecoverTestAlways ==
    /\ supervisor.pc = "testing"
    /\ supervisor' = [supervisor EXCEPT !.pc = "skipping"]
    /\ mistaken' = IF processUp THEN mistaken \cup {supervisor.w} ELSE mistaken
    /\ UNCHANGED <<queue, monitor, sending, process, watching, dying, attempts,
                   skipped>>

\* if (monitors[w].IsProcessing())
RecoverTest ==
    LET interrupted == monitor[supervisor.w].status = Processing
    IN  /\ supervisor.pc = "testing"
        /\ supervisor' = IF interrupted THEN [supervisor EXCEPT !.pc = "skipping"]
                                        ELSE NextWorker
        /\ mistaken' = IF interrupted /\ processUp THEN mistaken \cup {supervisor.w}
                                                   ELSE mistaken
        /\ UNCHANGED <<queue, monitor, sending, process, watching, dying, attempts,
                       skipped>>

\* ForceAdvanceReadIndex: the load of the read index, without a look at the
\* write index.
RecoverLoad ==
    /\ supervisor.pc = "skipping"
    /\ supervisor' = [supervisor EXCEPT !.pc = "storing", !.read = queue[supervisor.w].read]
    /\ UNCHANGED <<queue, monitor, sending, process, watching, dying, attempts,
                   skipped, mistaken>>

\* The message at the index that was loaded is skipped; queue' is the caller's.
Skip ==
    /\ supervisor.pc = "storing"
    /\ skipped' = skipped \cup ({queue[supervisor.w].slots[SlotOf(supervisor.read)]} \ {0})
    /\ supervisor' = [supervisor EXCEPT !.pc = "ending", !.read = 0]
    /\ UNCHANGED <<monitor, sending, process, watching, dying, attempts, mistaken>>

\* Slip: the message stays in the queue.
RecoverSkipForgotten == Skip /\ UNCHANGED queue

\* Slip: the message behind the interrupted one is skipped as well.
RecoverSkipTwo == Skip /\ StoreRead(supervisor.w, Advance(supervisor.read, 2))

\* ForceAdvanceReadIndex(1): the store of that index plus one.
RecoverSkip == Skip /\ StoreRead(supervisor.w, Advance(supervisor.read, 1))

\* Slip: the status is not reset.
RecoverEndForgotten ==
    /\ supervisor.pc = "ending"
    /\ supervisor' = NextWorker
    /\ UNCHANGED <<queue, monitor, sending, process, watching, dying, attempts,
                   skipped, mistaken>>

\* EndTransaction on behalf of the worker.
RecoverEnd ==
    /\ supervisor.pc = "ending"
    /\ monitor' = [monitor EXCEPT ![supervisor.w].status = Idle]
    /\ supervisor' = NextWorker
    /\ UNCHANGED <<queue, sending, process, watching, dying, attempts, skipped,
                   mistaken>>

\* fork, whose pid overwrites worker_pid_: the child starts a thread per queue, or
\* exits at once and is the next death to be detected.  A worker that was alive
\* goes on.
Restart ==
    /\ supervisor.pc = "restarting"
    /\ processUp' = (processUp \/ childExecs)
    /\ worker' = IF ~processUp /\ childExecs THEN [w \in Workers |-> Quiet("idle")]
                                             ELSE worker
    /\ watched' = IF childExecs THEN "worker" ELSE "child"
    /\ supervisor' = [pc |-> "watching", w |-> 0, read |-> 0]
    /\ UNCHANGED <<queue, monitor, sending, childExecs, stored, alarms, dying,
                   attempts, skipped, mistaken>>

----------------------------------------------------------------------------
DispatchStep(d) ==
    \/ DispatchStart(d) \/ DispatchScan(d) \/ DispatchCompare(d)
    \/ FullLoad(d) \/ FullTest(d) \/ PushLoad(d) \/ PushTest(d)
    \/ PushConstruct(d) \/ PushPublish(d)

WorkerStep(w) ==
    \/ WorkerPeek(w) \/ BeginTransaction(w) \/ Process(w)
    \/ EndTransaction(w) \/ PopLoad(w) \/ PopStore(w) \/ PoisonCrash(w)

Supervise ==
    \/ DetectCrash \/ RecoverTest \/ RecoverLoad \/ RecoverSkip \/ RecoverEnd
    \/ Restart

Next ==
    \/ \E d \in Dispatchers : DispatchStep(d)
    \/ \E w \in Workers : WorkerStep(w)
    \/ Crash
    \/ PidStored
    \/ Supervise

\* The operating system runs every thread that can run; crashes need not happen.
Fairness ==
    /\ \A w \in Workers : WF_vars(WorkerStep(w))
    /\ WF_vars(Supervise)

Spec == Init /\ [][Next]_vars /\ Fairness

----------------------------------------------------------------------------
\* What waits in the queue of w is what was pushed to it and not read yet.
QueueIntact(w) ==
    /\ queue[w].read <= Len(pushed[w])
    /\ AvailableRequests(w) = Len(pushed[w]) - queue[w].read
    /\ AvailableRequests(w) <= Capacity
    /\ \A k \in queue[w].read + 1 .. Len(pushed[w]) :
           queue[w].slots[SlotOf(k - 1)] = pushed[w][k]

\* The queues with one producer and one consumer at a time so far.
Undisturbed == Workers \ (overlapped \cup mistaken)

(***************************************************************************)
(* Recovery never drives a read index past its write index, although       *)
(* ForceAdvanceReadIndex does not test: what the monitor of a dead thread  *)
(* says is being processed is still in the queue.  However many threads    *)
(* dispatch, a queue is intact as long as no two of them were inside Push  *)
(* at once; and however often recovery runs against a live process, as     *)
(* long as it did not find the thread of that queue in a transaction.      *)
(***************************************************************************)
QueuesIntact == \A w \in Undisturbed : QueueIntact(w)

(***************************************************************************)
(* README.md:551, at least once: a message that left its queue, popped or  *)
(* skipped, was begun by a worker.                                         *)
(***************************************************************************)
ConsumedWereAttempted ==
    \A w \in Undisturbed : \A k \in 1 .. queue[w].read :
        k <= Len(pushed[w]) => started[pushed[w][k]] > 0

(***************************************************************************)
(* README.md:477, a skipped message is not queued again: once it has been  *)
(* skipped no worker begins it or finishes it.                             *)
(***************************************************************************)
SkippedStaySkipped ==
    [][Undisturbed = Workers =>
           \A m \in skipped : started'[m] = started[m] /\ finished'[m] = finished[m]]_vars

\* The second and every later time a message of w's queue was finished.
Repeats(w) == UNION {{m} \X (2 .. finished[m]) : m \in {pushed[w][k] : k \in DOMAIN pushed[w]}}

(***************************************************************************)
(* README.md:479 has no message processed twice.  A worker that dies after *)
(* EndTransaction and before Pop leaves a finished message in its queue    *)
(* (stress_test.cpp:1462), and the next one processes it again: every      *)
(* death can repeat one message of each worker, and nothing else does.     *)
(***************************************************************************)
RepeatsArePaidByDeaths ==
    \A w \in Undisturbed : Cardinality(Repeats(w)) <= deaths

(***************************************************************************)
(* An open transaction belongs to a thread that is in it, unless the       *)
(* process is down: otherwise the worker would wait for its own monitor    *)
(* for ever and its queue would fill up.  (Recovery that has found such a  *)
(* thread alive takes the transaction away from it: mistaken.)             *)
(***************************************************************************)
OpenTransactionsHaveOwners ==
    \A w \in Undisturbed :
        processUp /\ monitor[w].status = Processing
            => /\ worker[w].pc \in {"begun", "done"}
               /\ worker[w].msg = Front(w)

(***************************************************************************)
(* The sizes FindBest...Worker has loaded are stale when it returns, but   *)
(* never in the wrong direction: they are sizes and no wrapped difference, *)
(* and if any queue was seen with room, neither Full nor Push finds the    *)
(* one that was chosen full.  For a call that no other one has overlapped. *)
(***************************************************************************)
DispatchUsesRoom ==
    \A d \in Dispatchers \ rivals :
        Undisturbed = Workers =>
            /\ dispatcher[d].min <= Capacity
            /\ dispatcher[d].pc \in {"testing", "checking"} /\ dispatcher[d].min < Capacity
                   => ~SeenFull(d)

(***************************************************************************)
(* "Messages queued but not processed continue to be processed"            *)
(* (README.md:479): as no more than MaxMessages come, every message leaves *)
(* its queue if the queues run empty again and again, and a poison pill    *)
(* blocks nobody behind it.  This needs a successor that runs: in the code *)
(* the first death of the worker is the end of it (ipc_server.cpp:258),    *)
(* and what is queued then stays.                                          *)
(***************************************************************************)
EveryMessageLeaves ==
    []<>(\/ \A w \in Undisturbed : RequestQueueEmpty(w)
         \/ ~processUp /\ ~childExecs)

(***************************************************************************)
(* README.md:189 recommends WorkerChannel where there are several          *)
(* producers.  Server and clients push to its request queue               *)
(* (ipc_server.cpp:306, ipc_client.cpp:314) without a lock: this would be  *)
(* QueuesIntact for every queue recovery has left alone.                   *)
(***************************************************************************)
AcceptedRequestsStay == \A w \in Workers \ mistaken : QueueIntact(w)

(***************************************************************************)
(* README.md:551, at least once, for every queue to which one thread       *)
(* pushes at a time, whether or not recovery has found its worker alive.   *)
(***************************************************************************)
AcceptedRequestsAttempted ==
    \A w \in Workers \ overlapped : \A k \in 1 .. queue[w].read :
        k <= Len(pushed[w]) => started[pushed[w][k]] > 0
=============================================================================
