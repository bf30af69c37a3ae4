------------------------------ MODULE IpcServer ------------------------------
(***************************************************************************)
(* IpcServer's threads: the one that calls Start and Stop, SupervisorMain  *)
(* and ResponseCollectorMain, over worker_pid_, which two of them read and *)
(* write without a lock, and over the children of the process.  fork,      *)
(* waitpid and kill are those of the operating system.                     *)
(*                                                                         *)
(* Each access to worker_pid_ and each system call is a step.  What        *)
(* recovery does to the queues is in module WorkerRecovery.                *)
(***************************************************************************)
EXTENDS Integers, FiniteSets

CONSTANTS
    Pids,             \* process ids the system gives to children
    MaxStarts,        \* bound on the calls of Start
    MaxForkFailures   \* bound on the calls of fork that fail

ASSUME PidsAssumption == Pids \subseteq Nat \ {0} /\ IsFiniteSet(Pids)
ASSUME MaxStartsAssumption == MaxStarts \in Nat
ASSUME MaxForkFailuresAssumption == MaxForkFailures \in Nat

NoPid == -1   \* initial worker_pid_, what fork and waitpid return when they fail,
              \* and "any child" as an argument of waitpid

VARIABLES
    running,     \* running_
    state,       \* state_
    workerPid,   \* worker_pid_
    child,       \* the children of the process
    workers,     \* those that execute the worker program
    main,        \* the thread in Start or Stop: [pc, pid]
    supervisor,  \* SupervisorMain: [pc, pid]
    collector,   \* ResponseCollectorMain runs
    starts,      \* calls of Start so far
    failures,    \* failures of fork so far
    forgotten    \* history: the workers over whose pid the supervisor has stored another

vars == <<running, state, workerPid, child, workers, main, supervisor, collector, starts, failures, forgotten>>

Main == [pc  : {"idle", "spawning", "collecting", "forking", "storing", "testing", "up",
                "stopping", "looking", "killing", "loading", "reaping", "forgetting", "joining",
                "resetting", "unmapped"},
         pid : Pids \cup {NoPid}]   \* what fork returned, argument of waitpid

Supervisor == [pc  : {"off", "ended", "testing", "loading", "waiting", "comparing",
                      "recovering", "forking", "storing", "restarted"},
               pid : Pids \cup {NoPid, 0}]   \* argument, result of waitpid, result of fork

TypeOK ==
    /\ running \in BOOLEAN
    /\ state \in {"Disconnected", "Connecting", "Connected", "Crashed"}
    /\ workerPid \in Pids \cup {NoPid}
    /\ child \in [Pids -> {"none", "running", "terminating", "zombie"}]
    /\ workers \subseteq {p \in Pids : child[p] # "none"}
    /\ main \in Main
    /\ supervisor \in Supervisor
    /\ collector \in BOOLEAN
    /\ starts \in 0 .. MaxStarts
    /\ failures \in 0 .. MaxForkFailures
    /\ forgotten \subseteq workers

Init ==
    /\ running = FALSE /\ state = "Disconnected" /\ workerPid = NoPid
    /\ child = [p \in Pids |-> "none"] /\ workers = {}
    /\ main = [pc |-> "idle", pid |-> NoPid]
    /\ supervisor = [pc |-> "off", pid |-> NoPid]
    /\ collector = FALSE
    /\ starts = 0 /\ failures = 0 /\ forgotten = {}

\* The segment is mapped from the beginning of Start to the end of Stop.
Mapped == main.pc \notin {"idle", "unmapped"}

----------------------------------------------------------------------------
\* The operating system

\* The outcomes of waitpid(p): the child reaped, NoPid if there is none to wait for,
\* 0 if none of them has ended.
Awaited(p) == {q \in Pids : child[q] # "none" /\ p \in {q, NoPid}}

WaitOutcomes(p) ==
    LET ended == {q \in Awaited(p) : child[q] = "zombie"}
    IN  IF ended # {} THEN ended ELSE IF Awaited(p) = {} THEN {NoPid} ELSE {0}

Reap(result) ==
    /\ child' = [q \in Pids |-> IF q = result THEN "none" ELSE child[q]]
    /\ workers' = workers \ {result}
    /\ forgotten' = forgotten \ {result}

\* fork succeeds with any free process id, or fails.
ForkOutcomes ==
    {p \in Pids : child[p] = "none"} \cup (IF failures < MaxForkFailures THEN {NoPid} ELSE {})

Fork(result, isWorker) ==
    /\ child' = [q \in Pids |-> IF q = result THEN "running" ELSE child[q]]
    /\ workers' = IF isWorker THEN workers \cup ({result} \ {NoPid}) ELSE workers
    /\ failures' = failures + IF result = NoPid THEN 1 ELSE 0

\* kill(p, SIGTERM); NoPid is every process.
Terminated(p) ==
    [q \in Pids |-> IF p \in {q, NoPid} /\ child[q] = "running" THEN "terminating" ELSE child[q]]

----------------------------------------------------------------------------
\* Start

MainGoes(to) == main' = [main EXCEPT !.pc = to]

\* Segment, layout and signal created, running_ and state_ set; a failure before that
\* returns false.  After a Stop that found running_ cleared Start must not be called
\* again: the threads are still to be joined and their assignment would end the process.
Start ==
    /\ main.pc = "idle" /\ ~running /\ starts < MaxStarts
    /\ running' = TRUE /\ state' = "Connecting" /\ starts' = starts + 1
    /\ MainGoes("spawning")
    /\ UNCHANGED <<workerPid, child, workers, supervisor, collector, failures, forgotten>>

SpawnSupervisor ==
    /\ main.pc = "spawning"
    /\ supervisor' = [pc |-> "testing", pid |-> NoPid]
    /\ MainGoes("collecting")
    /\ UNCHANGED <<running, state, workerPid, child, workers, collector, starts, failures, forgotten>>

SpawnCollector ==
    /\ main.pc = "collecting"
    /\ collector' = TRUE
    /\ MainGoes("forking")
    /\ UNCHANGED <<running, state, workerPid, child, workers, supervisor, starts, failures, forgotten>>

ForkWorker ==
    /\ main.pc = "forking"
    /\ \E p \in ForkOutcomes : Fork(p, TRUE) /\ main' = [pc |-> "storing", pid |-> p]
    /\ UNCHANGED <<running, state, workerPid, supervisor, collector, starts, forgotten>>

StoreWorker ==
    /\ main.pc = "storing"
    /\ workerPid' = main.pid
    /\ main' = [pc |-> "testing", pid |-> NoPid]
    /\ UNCHANGED <<running, state, child, workers, supervisor, collector, starts, failures, forgotten>>

\* Start looks at worker_pid_ again, not at what fork returned to it.
StartReturns ==
    /\ main.pc = "testing"
    /\ MainGoes(IF workerPid = NoPid THEN "stopping" ELSE "up")
    /\ state' = IF workerPid = NoPid THEN state ELSE "Connected"
    /\ UNCHANGED <<running, workerPid, child, workers, supervisor, collector, starts, failures, forgotten>>

----------------------------------------------------------------------------
\* Stop

Stop ==
    /\ main.pc = "up" /\ running
    /\ MainGoes("stopping")
    /\ UNCHANGED <<running, state, workerPid, child, workers, supervisor, collector, starts, failures, forgotten>>

\* After Start's own failure Stop tests running_ first, like any other.
ClearRunning ==
    /\ main.pc = "stopping"
    /\ MainGoes(IF running THEN "looking" ELSE "up")
    /\ running' = FALSE
    /\ UNCHANGED <<state, workerPid, child, workers, supervisor, collector, starts, failures, forgotten>>

\* Slip: the test of worker_pid_ the wrong way round.
LookForWorkerReversed ==
    /\ main.pc = "looking"
    /\ MainGoes(IF workerPid = NoPid THEN "killing" ELSE "joining")
    /\ UNCHANGED <<running, state, workerPid, child, workers, supervisor, collector, starts, failures, forgotten>>

LookForWorker ==
    /\ main.pc = "looking"
    /\ MainGoes(IF workerPid = NoPid THEN "joining" ELSE "killing")
    /\ UNCHANGED <<running, state, workerPid, child, workers, supervisor, collector, starts, failures, forgotten>>

\* Slip: the worker is awaited without being told to end.
KillWorkerForgotten ==
    /\ main.pc = "killing"
    /\ MainGoes("loading")
    /\ UNCHANGED <<running, state, workerPid, child, workers, supervisor, collector, starts, failures, forgotten>>

KillWorker ==
    /\ main.pc = "killing"
    /\ child' = Terminated(workerPid)
    /\ MainGoes("loading")
    /\ UNCHANGED <<running, state, workerPid, workers, supervisor, collector, starts, failures, forgotten>>

\* worker_pid_, read again, as the argument of waitpid
AwaitWorker ==
    /\ main.pc = "loading"
    /\ main' = [pc |-> "reaping", pid |-> workerPid]
    /\ UNCHANGED <<running, state, workerPid, child, workers, supervisor, collector, starts, failures, forgotten>>

\* waitpid without WNOHANG returns when it can.
ReapWorker ==
    /\ main.pc = "reaping"
    /\ \E result \in WaitOutcomes(main.pid) \ {0} : Reap(result)
    /\ main' = [pc |-> "forgetting", pid |-> NoPid]
    /\ UNCHANGED <<running, state, workerPid, supervisor, collector, starts, failures>>

ForgetWorker ==
    /\ main.pc = "forgetting"
    /\ workerPid' = NoPid
    /\ MainGoes("joining")
    /\ UNCHANGED <<running, state, child, workers, supervisor, collector, starts, failures, forgotten>>

\* Slip: the supervisor is left to itself.
JoinCollectorOnly ==
    /\ main.pc = "joining" /\ ~collector
    /\ MainGoes("resetting")
    /\ UNCHANGED <<running, state, workerPid, child, workers, supervisor, collector, starts, failures, forgotten>>

Join ==
    /\ main.pc = "joining" /\ supervisor.pc = "ended" /\ ~collector
    /\ MainGoes("resetting")
    /\ supervisor' = [supervisor EXCEPT !.pc = "off"]
    /\ UNCHANGED <<running, state, workerPid, child, workers, collector, starts, failures, forgotten>>

\* Reset ends only when a signal handler of the program interrupts its read; then the
\* segment is unmapped and unlinked.
Unmap ==
    /\ main.pc = "resetting"
    /\ MainGoes("unmapped")
    /\ UNCHANGED <<running, state, workerPid, child, workers, supervisor, collector, starts, failures, forgotten>>

StopReturns ==
    /\ main.pc = "unmapped"
    /\ state' = "Disconnected"
    /\ MainGoes("idle")
    /\ UNCHANGED <<running, workerPid, child, workers, supervisor, collector, starts, failures, forgotten>>

----------------------------------------------------------------------------
\* SupervisorMain

SupervisorGoes(to) == supervisor' = [supervisor EXCEPT !.pc = to]

SupervisorTests ==
    /\ supervisor.pc = "testing"
    /\ SupervisorGoes(IF running THEN "loading" ELSE "ended")
    /\ UNCHANGED <<running, state, workerPid, child, workers, main, collector, starts, failures, forgotten>>

\* worker_pid_ as the argument of waitpid
SupervisorLoads ==
    /\ supervisor.pc = "loading"
    /\ supervisor' = [pc |-> "waiting", pid |-> workerPid]
    /\ UNCHANGED <<running, state, workerPid, child, workers, main, collector, starts, failures, forgotten>>

\* Slip: the answer of waitpid is put into worker_pid_ itself.
SupervisorWaitsInPlace ==
    /\ supervisor.pc = "waiting"
    /\ \E result \in WaitOutcomes(supervisor.pid) :
           /\ Reap(result) /\ workerPid' = result
           /\ supervisor' = [pc |-> "comparing", pid |-> result]
    /\ UNCHANGED <<running, state, main, collector, starts, failures>>

SupervisorWaits ==
    /\ supervisor.pc = "waiting"
    /\ \E result \in WaitOutcomes(supervisor.pid) :
           Reap(result) /\ supervisor' = [pc |-> "comparing", pid |-> result]
    /\ UNCHANGED <<running, state, workerPid, main, collector, starts, failures>>

\* Slip: waitpid's answer is taken for a death when it is "not yet".
SupervisorComparesReversed ==
    /\ supervisor.pc = "comparing"
    /\ supervisor' = [pc |-> IF supervisor.pid = 0 THEN "recovering" ELSE "testing", pid |-> NoPid]
    /\ UNCHANGED <<running, state, workerPid, child, workers, main, collector, starts, failures, forgotten>>

\* result == worker_pid_, which is read again
SupervisorCompares ==
    /\ supervisor.pc = "comparing"
    /\ IF supervisor.pid = workerPid
       THEN SupervisorGoes("recovering")
       ELSE supervisor' = [pc |-> "testing", pid |-> NoPid]
    /\ UNCHANGED <<running, state, workerPid, child, workers, main, collector, starts, failures, forgotten>>

\* crashes_detected_, state_ and RecoverFromCrash
SupervisorRecovers ==
    /\ supervisor.pc = "recovering"
    /\ state' = "Crashed"
    /\ supervisor' = [pc |-> "forking", pid |-> NoPid]
    /\ UNCHANGED <<running, workerPid, child, workers, main, collector, starts, failures, forgotten>>

\* The child does not execute the worker program, it exits.
SupervisorForks ==
    /\ supervisor.pc = "forking"
    /\ \E p \in ForkOutcomes : Fork(p, FALSE) /\ supervisor' = [pc |-> "storing", pid |-> p]
    /\ UNCHANGED <<running, state, workerPid, main, collector, starts, forgotten>>

SupervisorStores ==
    /\ supervisor.pc = "storing"
    /\ workerPid' = supervisor.pid
    /\ supervisor' = [pc |-> "restarted", pid |-> NoPid]
    /\ forgotten' = forgotten \cup ({workerPid} \cap workers)
    /\ UNCHANGED <<running, state, child, workers, main, collector, starts, failures>>

SupervisorRestarted ==
    /\ supervisor.pc = "restarted"
    /\ SupervisorGoes(IF workerPid = NoPid THEN "ended" ELSE "testing")
    /\ running' = (running /\ workerPid # NoPid)
    /\ state' = IF workerPid = NoPid THEN state ELSE "Connected"
    /\ UNCHANGED <<workerPid, child, workers, main, collector, starts, failures, forgotten>>

CollectorEnds ==
    /\ collector /\ ~running
    /\ collector' = FALSE
    /\ UNCHANGED <<running, state, workerPid, child, workers, main, supervisor, starts, failures, forgotten>>

----------------------------------------------------------------------------
\* The children

\* A child that was told to end does, and one that is not a worker exits at once.
ChildExits(p) ==
    /\ child[p] = "terminating" \/ (child[p] = "running" /\ p \notin workers)
    /\ child' = [child EXCEPT ![p] = "zombie"]
    /\ UNCHANGED <<running, state, workerPid, workers, main, supervisor, collector, starts, failures, forgotten>>

WorkerDies(p) ==
    /\ child[p] = "running" /\ p \in workers
    /\ child' = [child EXCEPT ![p] = "zombie"]
    /\ UNCHANGED <<running, state, workerPid, workers, main, supervisor, collector, starts, failures, forgotten>>

----------------------------------------------------------------------------
Starting ==
    \/ Start \/ SpawnSupervisor \/ SpawnCollector \/ ForkWorker \/ StoreWorker \/ StartReturns

Stopping ==
    \/ ClearRunning \/ LookForWorker \/ KillWorker \/ AwaitWorker \/ ReapWorker
    \/ ForgetWorker \/ Join

Supervise ==
    \/ SupervisorTests \/ SupervisorLoads \/ SupervisorWaits \/ SupervisorCompares
    \/ SupervisorRecovers \/ SupervisorForks \/ SupervisorStores \/ SupervisorRestarted

Next ==
    \/ Starting \/ Stop \/ Stopping \/ Unmap \/ StopReturns
    \/ Supervise \/ CollectorEnds
    \/ \E p \in Pids : ChildExits(p) \/ WorkerDies(p)

\* Threads and ending children run.  Nobody has to call Start or Stop, no worker has to
\* die, and nothing has to interrupt Reset.
Fairness ==
    /\ WF_vars(Stopping) /\ WF_vars(Supervise) /\ WF_vars(CollectorEnds)
    /\ \A p \in Pids : WF_vars(ChildExits(p))

Spec == Init /\ [][Next]_vars /\ Fairness

----------------------------------------------------------------------------
(***************************************************************************)
(* The supervisor looks into the queues only while the segment is mapped.  *)
(***************************************************************************)
RecoveryWhileMapped == supervisor.pc = "recovering" => Mapped

(***************************************************************************)
(* Stop gets as far as Reset, whatever the supervisor does to worker_pid_  *)
(* and to the children in the meantime, unless a fork fails: the           *)
(* supervisor's failure stored between Stop's reads of worker_pid_ makes   *)
(* it wait for any child, also for a worker it has not told to end.        *)
(***************************************************************************)
StopReachesReset ==
    main.pc = "looking" ~> main.pc = "resetting" \/ failures > 0

(***************************************************************************)
(* ipc_server.hpp:27, "Monitor child process health": when the child that  *)
(* worker_pid_ names has ended, the supervisor finds out, provided it      *)
(* begins its round after worker_pid_ was stored.                          *)
(***************************************************************************)
DeathsAreDetected ==
    main.pc = "up" /\ supervisor.pc = "testing" /\ workerPid # NoPid /\ child[workerPid] = "zombie"
        ~> supervisor.pc = "recovering" \/ ~running

(***************************************************************************)
(* ipc_server.cpp:123, "Kill worker if running": when Stop is through with *)
(* the worker and the threads, every worker that still runs is one whose   *)
(* pid the supervisor has overwritten with that of its own child, which it *)
(* forks also when it takes a live worker for dead.                        *)
(***************************************************************************)
StopKillsWorker ==
    main.pc = "resetting" => \A p \in workers \ forgotten : child[p] # "running"
=============================================================================
