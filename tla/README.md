# TLA+ models and proofs for PhoenixIPC

PhoenixIPC moves messages between processes through POSIX shared memory. This
directory holds TLA+ modules translated from its sources, the TLC
configurations that check them, and proofs checked by TLAPS. Paths below are
relative to the repository; `file:line` names the code.

Run them here:

    tlc -config MCSpscRingBuffer.cfg MCSpscRingBuffer
    tlc -config MCPhoenixChannel.cfg PhoenixChannel
    tlc -config MCWorkerRecovery.cfg WorkerRecovery
    tlc -config MCIpcServer.cfg IpcServer
    tlc -config MCIpcClient.cfg IpcClient
    tlc -config MCChannelLifecycle.cfg MCChannelLifecycle
    tlapm SpscRingBufferProofs.tla
    tlapm PhoenixChannelProofs.tla
    tlapm WorkerRecoveryProofs.tla
    tlapm ChannelLifecycleProofs.tla
    tlapm SegmentLayoutProofs.tla
    tlapm IpcServerProofs.tla
    tlapm IpcClientProofs.tla

## 1. Inventory of the system

There are two ways to communicate, built on one lock-free queue.

* **Channel** (`Producer`, `Consumer`). One process creates a segment and a
  coordination file that names it; another reads the file and attaches. The
  segment is a `SimplifiedShmLayout`: a queue of message headers and one
  payload buffer. Both sides poll.
* **Server** (`IpcServer`, `IpcClient`, worker process). The segment is a
  `PhoenixShmLayout`: four normal and two VIP workers, each with a request
  queue, a response queue and a `ThreadMonitor`. The server or a client pushes
  a request to the least loaded worker of a group. A supervisor thread watches
  the worker process, skips the messages it died on and forks it again.

| Component | State | Operations | Talks to | What is hard | Must hold |
|---|---|---|---|---|---|
| `SpscRingBuffer` | `write_idx_`, `read_idx_`, slots | Push, PushEmplace, Peek, Pop, ForceAdvanceReadIndex, Size, FreeSpace, Empty, Full | one producer and one consumer thread, by shared memory | test and store are separate steps; the pointer of Peek; index wrap | FIFO, bounded, no slot race, nothing half written is seen |
| `SimplifiedShmLayout` | the same indices, headers, one payload buffer, `producer_pid` | Initialize, Push, Peek, Pop, GetPayload, IsProducerAlive | Producer, Consumer | payload buffer shared by all queued messages | a queued header survives any death |
| `Producer` | `valid`, mapping, coordination path | Create, Send, SendBlocking, Cleanup | layout, coordination file | a full queue against a deadline; dying inside a send | a send returns; an accepted message is queued once |
| `Consumer` | mapping, `producer_pid`, segment name | Attach, Receive, ReceiveBlocking, Cleanup | layout, coordination file | polling three conditions without a lock; successors | a receive returns; each message at most once, in order, with its payload |
| `CoordinationFile` | a file | Create (temporary file and rename), Read, Touch, Delete | file system | ownership when several producers use one path | a reader sees a complete file of a live producer |
| `ThreadMonitor` | `status`, `processing_seq`, time stamp | BeginTransaction, EndTransaction, IsProcessing, Reset | worker thread, supervisor | several stores, a crash between any two | Processing means the front message is being worked on |
| `PhoenixShmLayout`, `WorkerChannel` | queues and monitors of two groups | Initialize, FindBest...Worker, ScanCrashedWorkers, RecoverCrashedWorkers | server, clients, workers | stale sizes; recovery without a look at the queue | only interrupted messages are skipped |
| `IpcServer` | `worker_pid_`, `running_`, `state_`, two threads | Start, Stop, SendAsync, Send, SupervisorMain, ResponseCollectorMain | layout, worker process, eventfd | start and stop against the supervisor; fork and waitpid | one worker at a time; requests survive its death |
| `IpcClient` | table of pending requests, poller thread | Connect, Disconnect, Call, CallAsync | layout, eventfd | late answers, several clients, disconnect during a call | each call completes once, with its own answer |
| `LinuxEventFdSignal` | an eventfd counter | Notify, Wait, TryWait, Reset | server and client threads | Reset blocks on an empty counter | a wait ends |
| worker process | a thread per queue | Peek, BeginTransaction, handler, EndTransaction, Pop | queues, monitors | dies anywhere | at least one attempt per message |

The worker program itself is not in the repository; `test/stress_test.cpp`
(1441-1469) has the loop that plays it. The HAL headers, the message header,
the examples and the build files hold no state of their own. `PROJECT.json`
lists every component with what is and is not modelled, and the hazards at
their lines.

## 2. Modules

    RingIndex              index arithmetic modulo 2^64, slot numbers
      SpscRingBuffer       the lock-free queue, load by load     INSTANCEs FifoQueue
        MCSpscRingBuffer   small instance for TLC
        SpscRingBufferProofs  safety, and that the queue implements FifoQueue
      PhoenixChannel       Producer and Consumer over SimplifiedShmLayout
        PhoenixChannelProofs
      WorkerRecovery       one worker group: dispatchers, crash and recovery
        WorkerRecoveryProofs
      RingIndexProofs      the arithmetic, for the three modules of proofs above
    ChannelLifecycle       Create, Attach and the clean-ups over names and files
      MCChannelLifecycle   small instance for TLC
      ChannelLifecycleProofs
    SegmentLayout          where the buffers of the queues lie, in bytes
      SegmentLayoutProofs
    IpcServer              Start, Stop and the supervisor over the worker's pid
      IpcServerProofs
    IpcClient              calls, the table of pending requests and the poller
      IpcClientProofs
    FifoQueue              what a queue promises

Definitions whose comment begins with "Slip:" are not part of the
specification. Each is the definition after it with a plausible mistake (a
dropped test, an off-by-one, a forgotten store); putting it in that
definition's place makes TLC refute the property `PROJECT.json` names under
"mutants". They record what each property is sensitive to.

### RingIndex and SpscRingBuffer

`include/phoenix/core/spsc_ring_buffer.hpp`. The indices are free-running
64-bit numbers; `Advance` and `Used` compute modulo `IndexRange` (2^64), and
`SlotOf` is the mask. The assumptions are the two `static_assert`s (the
capacity divides the index range) and that the range exceeds the capacity.

Every access to an index that the *other* thread stores is a step. Push is
`PushLoad` (both loads and the test), `PushConstruct` and `PushConstructed`
(the element is being written, and is), `PushPublish` (the release store). Pop
is `PopLoad` and `PopRelease`; `Peek` leaves the consumer with a pointer and
`ReadElement` reads through it. An index a thread stores itself can be loaded
with the other one in a single step because nobody changes it in between. The
release and acquire orders of the code make the interleaving of these steps
the whole behaviour: a thread that loads an index sees every slot access that
came before the store. A failed operation (full, empty) returns and changes
nothing, so it is a guard.

`FifoQueue` is the abstract specification: a sequence, an append, a head, a
discard. `ImplementsFifo` maps the published slots to the sequence.

### PhoenixChannel

`src/ipc/phoenix_producer.cpp`, `src/ipc/phoenix_consumer.cpp` and
`include/phoenix/layout/simplified_shm_layout.hpp`. `prod` and `cons` hold the
position inside `DoSend` and `DoReceive`. The code's order is kept step by
step: liveness test, queue test, liveness test again, Peek, copy of the
payload cell by cell, Pop, and only then the read of the header through the
old pointer (`phoenix_consumer.cpp:165`). A loop's test of the queue and its test
of the deadline are two steps. Send is given a payload or nullptr, Receive a buffer
or nullptr; a copy takes both a pointer and a length. Either process can die anywhere; the
producer can clean up; a consumer that died can be succeeded by another. Time
is one bit per call: the deadline has passed or not. A timeout of 0 is a
deadline that has passed at the start: the code returns at its first test
(`phoenix_producer.cpp:143`, `phoenix_consumer.cpp:129`), although the headers
document it as "0 = no timeout" (section 4).

What comes before `Producer::Create` has succeeded, and other producers, are in
`ChannelLifecycle`. With one producer no consumer attaches earlier, because the
coordination file is written last: that is `PublishedIsComplete` there.

### ChannelLifecycle

`src/ipc/phoenix_producer.cpp`, `src/ipc/phoenix_consumer.cpp`,
`src/coordination/coordination_file.cpp` and the factory and `Initialize` of
`simplified_shm_layout.hpp`. A segment and its name are kept apart, as the
operating system keeps them: `linked` is `/dev/shm`, `segment` the header of each
segment, which lives on when its name is gone. `file` says whose metadata each
coordination file holds. `producer` and `consumer` are the objects, with their
position inside `Create` and `Attach`.

Create is one step per system call and per group of stores that `IsValid` and
`GetProducerPid` can tell apart: name, `shm_open` (which opens an existing segment,
as there is no `O_EXCL`), `ftruncate`, the clearing by placement new, the stores up
to the capacity, the pid, and the rename that publishes the file. Attach is:
read, `shm_open`, `IsValid`, the copy of the pid. `CreateFails` and `OpenFails` are the
failures of the system calls with the clean-up each runs, which deletes a file or
unlinks a name that may be somebody else's. A process can die between any two
steps. `Tick` is `time(nullptr)`, the other half of a segment's name.

`HasTwin(q)` says that another producer was given the same name. Most of what can go
wrong goes wrong between twins, and the properties say that it goes no further.

### SegmentLayout

`PhoenixShmLayout::Initialize` and `CalculateBufferSize`: one step per turn of the two
loops, each placing the two rings of a worker, with `start` the offset of each ring.
The two areas of `SimplifiedShmLayout` are operators next to it. The code keeps
addresses of the process that ran Initialize in the segment
(`spsc_ring_buffer.hpp:325`); the module takes them for offsets, that is, as if every
process mapped the segment at one place.

### WorkerRecovery

`include/phoenix/layout/phoenix_shm_layout.hpp`, `thread_monitor.hpp`,
`worker_channel.hpp`, the dispatch and the supervisor of
`src/ipc/ipc_server.cpp`, and the worker loop of the tests. One group is
modelled; the other has the same code and queues of its own. Several threads
dispatch, of the server and of clients: `DispatchScan` and `DispatchCompare` are the
two loads of `Size` for one queue, `FullLoad` and `FullTest` those of `Full`,
`PushLoad` and `PushTest` those of Push, `PushConstruct` and `PushPublish` its
stores, so that two calls can overlap anywhere. `overlapped` remembers the queues
on which two pushes did, and `rivals` the threads whose calls did: the properties
say what holds of the others. BeginTransaction is its first store, the status:
nothing reads the ones that follow. Pop (`PopLoad`, `PopStore`) and
ForceAdvanceReadIndex (`RecoverLoad`, `RecoverSkip`) each load the read index and
store it plus one; each stores what it has loaded, whatever the index is by then.
(PopLoad takes the load of the write index along: between the two nobody can
change what the test finds.)

Recovery starts when `waitpid` returns what `worker_pid_` holds. That need not
mean that the worker is dead: before Start has stored the pid both are -1, and
after the supervisor has forked, the pid is that of its own child, which exits at
once (`ipc_server.cpp:257`), so that every round of the supervisor finds a death
while a worker whose pid was overwritten runs on. `watched` says whose pid it is, and
`DetectCrash` asks that the process is down only if it is the worker's. `alarms`
counts the recoveries that began while the worker ran (bounded by `MaxAlarms`), and
`mistaken` remembers the queues whose thread such a recovery found in a transaction.
A queue is `Undisturbed` if it is in neither `overlapped` nor `mistaken`.

A crash can fall between any two steps, of the worker and of the dispatchers.
`deaths` counts the deaths of the process, those a poison message caused and the
others; a spoilt queue can hold the poison message twice and cause more of them
than there are poison messages, so nothing smaller than this count bounds the
repetitions. The supervisor tests, skips and resets worker by worker.

`childExecs` separates the code from its intention, and Init allows both: in the
code the forked child exits at once (`ipc_server.cpp:257`) and is the next death;
otherwise it runs the worker, and the pid is taken for stored from the start. The
safety properties hold of both; what
`EveryMessageLeaves` promises is excepted once the worker is down and its child
does not run it.

### IpcServer

`src/ipc/ipc_server.cpp` again, this time its threads. `main` is the thread in
`Start` or `Stop`, `supervisor` the one in `SupervisorMain`, and every access of
either to `worker_pid_` is a step, as is every system call; the argument of a
waiting waitpid is the pid as it was when it was called. `child` is what the
operating system knows of the children; `WaitOutcomes`, `Fork` and `Terminated`
are waitpid, fork and kill, with -1 meaning what it means there. `workers` are
the children that execute the worker program; those of the supervisor exit at
once. `forgotten` are the workers over whose pid the supervisor has stored another
one. Reset blocks on an empty descriptor, so `Unmap` stands for a signal handler
of the program that interrupts it, and nothing obliges it to.

Not modelled: a caller of `SendAsync` or `GetStats` before Start or during Stop.
A Start after a Stop that returned at its first test would end the process
(`std::thread` assignment) and is left out.

### IpcClient

`src/ipc/ipc_client.cpp`. `life` is the position in Connect and Disconnect, from
which `Running`, `Connected` and `Mapped` follow; `poller` the position in
`ResponsePollerMain`; `call` one record for each call. `Steps` is the order in
which the two kinds of call send and register: `Call` registers only after the
request is in the queue (`ipc_client.cpp:152`, `337`). A header stands for the
call it was made for and carries its `seq_id`; the poller looks up the number.
Pop is two steps because the pollers of two clients can meet in one response
queue. The deadline is a step that may come at any time once the call waits,
also after the promise was set. `SendAsync` is the server as a sender
(`ipc_server.cpp:168`): its requests go into the same queues, numbered by the
server's own `next_seq_id_`, and nobody waits for the answers, which the clients'
pollers find. `Senders` are the clients and the server.

`Notified` separates the code from its intention, like `childExecs`: no
statement of the program notifies `response_signal_`, so the code is `FALSE` and
its poller never leaves `Wait`. With `TRUE` the rest of the poller can be
checked. The safety properties do not depend on it; liveness does.

## 3. What the runs check

| Run | Instance | Checks |
|---|---|---|
| `ring` | 4 slots, indices modulo 8, two elements | `ObservationsStayTrue`, `PublishedAreConstructed`, `NoSlotRace`, `HeldElementIsStable`, `ImplementsFifo` |
| `channel` | 2 slots, 2 payload cells, 3 messages | `QueuedHeadersSurvive`, `LoopTestsStayTrue`, `LoneMessageIntact`, `PositionsHandedOutOnce`, `CallsReturn`, `ReceiveFindsMessage` |
| `channel_fifo` | the same | refutes "received in FIFO order" |
| `workers` | 2 workers, 2 slots, 5 requests of which 2 by two threads, 1 poison, 1 other crash, 1 recovery of a live worker | `QueuesIntact`, `ConsumedWereAttempted`, `RepeatsArePaidByDeaths`, `OpenTransactionsHaveOwners`, `DispatchUsesRoom`, `SkippedStaySkipped`, `EveryMessageLeaves` |
| `workers_pushers` | 2 requests, 2 threads | refutes that an accepted request stays queued |
| `workers_live` | 1 worker, 2 slots, 2 requests, 1 thread, no crash, 1 recovery of a live worker | refutes that what leaves a queue was attempted |
| `lifecycle` | 3 producers in 2 processes, 2 consumers, 1 file, 2 seconds | `SegmentsSharedOnlyByTwins`, `PublishedIsComplete`, `AttachedWatchesOwner`, `StaleFilesAreOfTheDead`, `LostFilesWereContested`, `UnlinkedWasRead` |
| `segment_vip` | the constants of the code | refutes that all rings lie in the segment |
| `client` | 1 client and the server, 2 connections, 2 channels, 2 calls, 2 answers | `AnswersMatchCalls`, `PromisesSetOnce`, `EntriesHaveCallers`, `AsyncAnswersArrive`, `PollerStaysMapped`, `AnsweredCallsComplete` |
| `client_silent` | the same, 1 connection, no notifications | refutes that the future of an answered call is set |
| `client_numbers` | 1 client and the server, 1 channel with room for 2, no notifications | refutes that a number tells which call an answer belongs to |
| `server` | 3 pids, 2 starts, 1 failing fork | `RecoveryWhileMapped`, `StopKillsWorker`, `StopReachesReset`, `DeathsAreDetected` |

**Bounds.** The ring needs none: it is finite because its indices wrap, and two
rounds of four slots contain a full ring, a wrap of the ring and a wrap of the
index, in every combination. Two element values tell an old element from a new
one in the same slot. In the channel three messages over two slots are one more
than fit, which is what it takes to reuse a slot (and the payload buffer) while
the consumer is at work; two cells tell a complete copy from a partial one, and
the lengths 0, 2 and 3 are no payload, one that fills the buffer and one too long
for it (480,000 states). In the worker group two workers are what dispatch needs to choose
wrongly, five requests are one more than both queues hold, the poison message
forces at least one recovery and the crash out of the blue falls into every other
step, the steps of a second recovery included. Two threads send the first two
requests (`MaxRivals`), in every interleaving; afterwards one thread sends the rest,
and only if no calls overlapped. One recovery of a live worker (`MaxAlarms`) can
begin at any moment at which the code allows it and meets each step of the worker and of
a dispatcher (2.3 million states). In the life cycle two producers of one process are what a
twin takes, the third one has a process of its own; two consumers are needed for one
to unlink while the other attaches; a clock that turns once gives twins of the same
second and producers of different ones. Producers of one process and consumers are
interchangeable, so the run uses symmetry (1.55 million states); nothing in the module
chooses among them, and its properties are all invariants. It was run once without
symmetry among the consumers (5.6 million) and once with two files and one consumer
(3.8 million). `SegmentLayout` has no bounds: its numbers are those of the code,
sizes as the compiler gives them. `MaxSends` and `MaxMessages` are smaller than
`IndexRange`, so in these two modules the indices do not wrap. In the client two
calls, both kinds in every combination, are what a wrong match takes; two answers
are one for each or two for one; one slot lets a send fail; two channels make the
poller's loop go round; the second connection meets calls and answers left over
from the first. The two calls are of the client or of the server in every combination: the server
is what a second client would be to `AnswersMatchCalls`, another sender that counts
from 1, and it adds no second poller (1.1 million states). In
the server three processes are the worker, a child of the
supervisor and one more that has not been waited for; a second Start meets what
the first left.

**Deadlock** is checked for the ring. In the channel both processes may have
ended, and in the worker group all requests may be done: these runs say
`CHECK_DEADLOCK FALSE`. So do those of the life cycle, where every producer may have
gone and the clock stopped, of the placement, which ends, of the server, which may be
stopped, and of the client, whose calls may be done.

**Fairness.** `PhoenixChannel`: weak fairness of a running call's steps and of
the clock, that is, the scheduler runs both threads and time passes. Nobody is
obliged to start a call, and no process is obliged to live. `WorkerRecovery`:
weak fairness of each worker thread and of the supervisor. A crash is never
obliged to happen, and the number of crashes without cause is bounded: a worker
that could die at will for ever would never finish anything. Dispatch has no
fairness. `ChannelLifecycle` and `SegmentLayout` have none: their properties are
invariants. `IpcServer`: weak fairness of the supervisor, the collector, Stop once
it is past its first test, and of children that are ending. `IpcClient`: weak
fairness of the poller and of a worker's step after it has queued an answer. In
both nothing obliges anybody to call anything or to interrupt Reset.

## 4. What disagrees with the documentation

* `channel_fifo`: `DoReceive` pops and then reads the header
  (`phoenix_consumer.cpp:161`, `165`). With a full queue a waiting producer can
  refill the slot in between: the receive that popped message 1 returns header 3,
  and the next one header 2.
* `workers_pushers`: server and clients push to the same request queues without a
  lock (`ipc_server.cpp:306`, `ipc_client.cpp:314`), although `README.md:189` recommends
  WorkerChannel for several producers. Two threads that loaded the same write index
  use one slot: a request that was accepted is overwritten by the other one's.
* `workers_live`: the supervisor takes the unset `worker_pid_` for a dead worker
  (`ipc_server.cpp:234`) and recovers while the worker runs. `README.md:472` describes a
  time-stamp test and a second look before a worker counts as crashed, which the code
  does not have. The worker pops the message it was in, recovery skips the next one,
  and that was never attempted (`README.md:551`: at least once). A worker whose pid the
  supervisor has overwritten with its child's is exposed to it ten times a second.
  `QueuesIntact` says that these two, overlapping pushes and the recovery of a live
  thread in a transaction, are the only ways a queue is spoilt.
* `client_numbers`: the server (`ipc_server.cpp:174`) and every client
  (`ipc_client.cpp:135`) number their requests from 1, into the same queues, while
  `README.md:319` has globally unique numbers tell which request an answer belongs to.
  The answer to the server's request 1 completes the client's call 1.
  `AnswersMatchCalls` says that the confusion is with another sender, never among the
  calls of one.
* `segment_vip`: the VIP rings are placed with the stride of the normal ones
  (`phoenix_shm_layout.hpp:108`): three of the four begin at or behind the end of what
  `RequiredSize` counts ("needed for all queues", line 61). `NormalQueuesFit` proves
  that the flaw is in that group alone, `QueuesDisjoint` that no ring overwrites
  another.
* `client_silent`: an asynchronous call never gets its answer, because nothing
  notifies the poller (`ipc_client.cpp:222`, `README.md:463`).

More disagreements are stated exactly by a property that holds, with the code's
behaviour as the exception:

* a Receive returns nullopt from a queue with messages when the producer has exited
  (`phoenix_consumer.cpp:119`, against `phoenix_consumer.hpp:70`), and for no other reason:
  `ReceiveFindsMessage`;
* a crash between EndTransaction and Pop makes a finished message be processed again
  (`README.md:479` excludes it), at most once per death and worker:
  `RepeatsArePaidByDeaths`;
* after one crash there is no worker any more (`ipc_server.cpp:257`), while
  `README.md:479` has queued messages continue: `EveryMessageLeaves` excepts it;
* a worker whose pid the supervisor has overwritten is not killed by Stop
  (`ipc_server.cpp:123`, "Kill worker if running"): `StopKillsWorker` excepts it, and
  nothing else;
* all queued messages share `GetPayload(0)` (`phoenix_producer.cpp:158`): with two queued,
  the first is received with the second one's payload. `LoneMessageIntact` says what
  remains true, that one message at a time is received intact;
* a blocking call with a timeout of 0 gives up at its first test, while
  `phoenix_consumer.hpp:77` and `phoenix_producer.hpp:85` say "0 = no timeout".
  `CallsReturn` states what the code does: such a call returns like any other.

The segment's name, "unique" by its comment (`coordination_file.hpp:123`), is not so
for two producers of one process and second: `SegmentsSharedOnlyByTwins` and the
properties around it bound the damage.

Modelling showed more that no document speaks of, so that no run is made of it:
a producer that fails or closes deletes the coordination file of another on its path
(`LostFilesWereContested`); a consumer that failed to attach unlinks the segment of a
live producer (`UnlinkedWasRead`); a segment of which nobody read is never unlinked;
Stop and Disconnect block in Reset (`linux_eventfd.hpp:83`); a worker reaped by
waitpid(-1) before its pid is stored is never missed, which is why
`DeathsAreDetected` speaks of rounds that begin later; after a failed fork in the
supervisor Stop can call kill and waitpid with -1, which is why
`StopReachesReset` excepts it; a call that is overtaken by Disconnect faults, or
loses its notification to the poller of the next connection.

## 5. What is proved

`RingIndexProofs` proves the arithmetic: what `Advance`, `Used` and `SlotOf`
return, how they compose, and that two distances smaller than the capacity give
different slots. It needs the two assumptions of `RingIndex` and division with
remainder.

`SpscRingBufferProofs` proves for every capacity, index range and element set
that `Spec` implies `[]TypeOK`, `[]ObservationsStayTrue`,
`[]PublishedAreConstructed`, `[]NoSlotRace` and `HeldElementIsStable`.
The inductive invariant `IndInv` is the first three with two facts on what the
threads keep to themselves: the slot being pushed holds the item once it is
constructed, and what the consumer has read is what its slot still holds.
`NoSlotRace` is not inductive by itself. It follows because the producer's slot
is `Used` places after the consumer's and `Used` is neither 0 nor `Capacity`
while both are inside an operation; that is what `ObservationsStayTrue` keeps.
The steps are grouped by what they touch: those that only observe, those that
write the slot, the one that publishes, those that release.

The same module proves `Spec => ImplementsFifo`, the refinement the `ring` run checks
on four slots. `IndInv` says that the published slots are a sequence of elements;
`PushPublish` appends the constructed element to it, `PopRelease` takes the head,
`ForceAdvanceReadIndex` discards what it skips, and every other step leaves each
published slot as it is. That a slot under construction is not a published one is
`SlotOf` of two distances smaller than the capacity again.

`PhoenixChannelProofs` proves all five invariants of the `channel` run for every
capacity, payload size, index range and number of messages. The invariant `Channel`
relates the positions to the counters: the write index counts the messages sent, the
read index the messages popped, their distance is at most the capacity, and the slot
of each queued position holds the header that was pushed there. `QueuedHeadersSurvive`
and `PositionsHandedOutOnce` need nothing about payloads. `LoneMessageIntact` needs
that while no later call is past its loop the payload buffer holds the last message, as
far as the producer has copied it, and that the consumer's copy is a prefix of it.

`WorkerRecoveryProofs` proves the six invariants of the `workers` run and the action
property `SkippedStaySkipped` for every number of workers, dispatching threads,
messages, crashes and recoveries, of dead and of live workers, and every queue
capacity. The inductive invariant `Recovery` is:

* `Numbers`, `Belongs`: every message is sent by one call to one queue, so that, as there
  are fewer messages than indices, the pigeonhole principle keeps the indices of a
  queue from wrapping: without it nothing about `Used` of two indices could be said. And
  whatever is read from a queue, spoilt or not, is a message sent to it.
* `QueuesSound`, `Sized`, `Alone`: on a queue in `Undisturbed` the write index is the
  number of messages pushed, every slot between the indices holds its message, and
  what Pop or ForceAdvanceReadIndex has loaded is the read index; a call no other one
  overlapped has seen sizes that have only shrunk.
* `Transactions`: a monitor says Processing only if the thread is between
  BeginTransaction and EndTransaction on the front message, or the process is down and
  recovery has not got past this worker; and recovery is inside a queue only if that
  process is down or the queue is in `mistaken`. This is what makes the skip of
  `RecoverCrashedWorkers`, which does not look at the queue, hit the message that was
  interrupted, and what keeps a recovery of a live process from a queue whose thread is
  in no transaction. It gives `Attempted` and `Untouched` (what is behind the front
  message was never begun).
* `Paid`: the repetitions of a queue are at most the deaths, with one death left over
  while the front message has been finished and is there to be processed again. This is
  the strengthening `RepeatsArePaidByDeaths` needs.

On larger instances than the run's TLC had refuted an earlier form of that property,
which counted poison messages instead of deaths. It held in the run only because two
threads could not overlap long enough to queue the poison message twice.

`IpcServerProofs` proves the three invariants of the `server` run for every number of
processes, Starts and failing forks. `Threads` says which thread exists at each
position of Start and Stop: the segment stays mapped as long as either may be in its
loop, and both have ended before Stop returns. `WorkerKnown` says where the pid of a
running worker is held that the supervisor has not overwritten: in Start's hands, then in
`worker_pid_`, and nowhere once Stop has told it to end. That gives `StopKills`.

`IpcClientProofs` proves all six invariants of the `client` run for any number of
channels, calls, answers and connections and a server that sends, five of them also
for any number of clients on one layout. `Moves` states what an action does to the fields the invariants speak
of; every step lemma uses only that.

1. `Table` holds however many clients there are. `PollerJoined` gives `PollerMapped`;
   `Entries` and `Taken` are inductive together: a call is entered once, while it has no
   answer, and the poller that erases an entry is the only one to hold it, so that
   `PromisesCorrect` and `EntriesCorrect` hold also where requests are answered twice or
   the answer of another client is taken for one's own. `Numbered` bounds `next_seq_id_`
   by the calls begun; `Reading` keeps the index between Peek and Pop within the queue.
2. `Matched`, also for any number of clients: the calls of one sender have different
   numbers (`OwnNumbers`), what the poller has found has the number of the answer it has
   read (`FoundMatches`), and what is in a queue was sent. This gives `AnswersCorrect`:
   a wrong answer is one to another sender, never to another call of one's own.
3. `Private` assumes `Alone`, that no other client polls the queues; the server may
   send. The queues have a single reader then (`OnlyReader`), a registered call is in the
   table, in the poller's hands, answered or abandoned (`Followed`), and what was popped
   was dealt with (`Behind`). This gives `AsyncCorrect`. The assumption is necessary:
   another client's poller can take an answer off the queue and drop it.

`ChannelLifecycleProofs` proves all seven invariants of the `lifecycle` run, for all
sets of producers, processes, consumers and files, any assignment of producers to
processes and any bound on the clock. None is inductive alone. The lemma `StepMoves`
looks at each action once and states what a step can do to each part of the state
(`ProducerMoves`, `SegmentMoves`, `FileMoves`, `LinkedMoves`, `ConsumerMoves`, `ReadMoves`);
every later step of the proof uses only that. The invariants are a ladder:

1. `Shape`: types; who maps a segment has been given the name of the segment's
   producer, which contains its own process; a linked name, a file and a name that
   was read all belong to a producer that was created. It gives `TypeCorrect`,
   `StaleFiles` and `SharedByTwins`, and with one more conjunct each `LostFiles` and
   `UnlinkedRead`.
2. `Progress`: by `SharedByTwins` nobody else writes the segment of a producer without
   a twin, so its header is as far as its producer. With `FilesComplete` (what is in a
   file is complete, also after its producer has died) this gives `Published`.
3. `ReadsComplete` carries `FilesComplete` over to names that were read from a file that
   may be gone by now, and `PidsAreOwners` says that no segment ever holds a foreign
   pid. Both together give `AttachedWatches`.

`SegmentLayoutProofs` proves for all worker counts, capacities and sizes that no two
rings share a byte (`QueuesDisjoint`), that those of the normal workers lie in the
segment (`NormalQueuesFit`), and that the queue and the payload of a
`SimplifiedShmLayout` lie within the size it asks for (`SimplifiedAreasFit`). The
invariant is that a ring with a buffer is at its `Place` and no larger than the stride;
the rest is arithmetic on strides.

**Assumptions.** The theorems use the named assumptions of their modules and nothing
else, and TLC evaluates them on the runs' instances: sizes are positive, bounds are
natural numbers, the capacity divides the index range and is smaller than it
(`spsc_ring_buffer.hpp`, the two `static_assert`s), and in `PhoenixChannel` and
`WorkerRecovery` fewer messages are sent than there are indices. A module's own
abstractions hold of its theorems too; in `IpcClient` that sends are serialised and
that no slot of a response queue is used twice.

**Only model-checked.** Liveness (`CallsReturn`, `ReceiveFindsMessage`,
`EveryMessageLeaves`, `StopReachesReset`, `DeathsAreDetected`, `AnsweredCallsComplete`),
which is outside what this prover handles. Every other property of a passing run is a
theorem. There is no recursive definition and no proof by induction over data.

## 6. What is not modelled, and the plan

Not modelled: the text format of the coordination file and `Touch`, `Exists`,
`IsProducerAlive` and `GetDefaultCoordFile`, which nothing in the library calls;
logging, statistics, CPU affinity, the interface headers, message contents beyond an
identity and a length. That a client follows buffer addresses of the server's process
(`spsc_ring_buffer.hpp:325`) is noted under "hazards" and abstracted from: the code
neither asks for nor tests the place of a mapping. A `SendAsync` or `GetStats` of the
server before Start or during Stop is left out; it dereferences a null or unmapped
layout. Each module takes the rest of the system by its interface: the client's module
has sets for the request queues that `WorkerRecovery` has in detail, and the channel's
messages start where `ChannelLifecycle` ends.

Planned, in this order:

1. Abstract specifications and proofs that the components implement them: for the client,
   a table of calls that are open, answered or given up; for the header queue of the
   channel, `FifoQueue` with a consumer that may lose what it has taken.
2. What remains true of the queues of `WorkerRecovery` on which pushes did overlap.
3. The callers of the server against Start and Stop.
