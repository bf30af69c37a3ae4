---------------------------- MODULE IpcServerProofs ----------------------------
(***************************************************************************)
(* The safety properties of module IpcServer for every set of process ids  *)
(* and any number of calls of Start and of failures of fork.               *)
(*                                                                         *)
(* The code keeps its two threads apart from Start and Stop by joining     *)
(* them and by clearing running_ before it does.  ThreadsJoined and        *)
(* RunningCleared say what that achieves at each position of Start and     *)
(* Stop; together they are inductive.  WorkerKnown says at each position   *)
(* where the pid of the worker that may still run is held.  The            *)
(* properties are read off.                                                *)
(***************************************************************************)
EXTENDS IpcServer, TLAPS

(* SupervisorMain is a joinable thread from its start to the join, ended   *)
(* or not, and ResponseCollectorMain runs only in between.                 *)
ThreadsJoined ==
    /\ supervisor.pc = "off" <=> main.pc \in {"idle", "spawning", "resetting", "unmapped"}
    /\ collector => main.pc \in {"forking", "storing", "testing", "up", "stopping", "looking",
                                 "killing", "loading", "reaping", "forgetting", "joining"}

(* From the moment Stop has cleared running_ to the next Start it stays    *)
(* cleared.                                                                *)
RunningCleared ==
    running => main.pc \in {"spawning", "collecting", "forking", "storing", "testing", "up",
                            "stopping"}

(* What fork returned to the supervisor is a process id or -1, never the   *)
(* 0 that waitpid may have put into the same variable before.              *)
ForkResultStored == supervisor.pc = "storing" => supervisor.pid # 0

Threads == TypeOK /\ ThreadsJoined /\ RunningCleared /\ ForkResultStored

(* The workers that run and whose pid the supervisor has not overwritten.  *)
Unforgotten == {p \in workers \ forgotten : child[p] = "running"}

(* Start has the pid fork returned, then worker_pid_ holds it until the    *)
(* worker is told to end.                                                  *)
WorkerKnown ==
    Unforgotten \subseteq
        IF main.pc = "storing" THEN {main.pid}
        ELSE IF main.pc \in {"testing", "up", "stopping", "looking", "killing"} THEN {workerPid}
        ELSE {}
-----------------------------------------------------------------------------
(* The parts of TypeOK the operating system and the threads work on.       *)
ChildrenTyped ==
    /\ child \in [Pids -> {"none", "running", "terminating", "zombie"}]
    /\ workers \subseteq {p \in Pids : child[p] # "none"}
    /\ forgotten \subseteq workers

(* fork makes a child of a free process id, and its failures are counted.  *)
LEMMA ForkTyped ==
    ASSUME TypeOK, NEW isWorker, NEW p \in ForkOutcomes, Fork(p, isWorker),
           forgotten' = forgotten
    PROVE  /\ p \in Pids \cup {NoPid} /\ p # 0
           /\ ChildrenTyped'
           /\ failures' \in 0 .. MaxForkFailures
<1>1. p \in Pids \cup {NoPid} /\ p # 0
  BY PidsAssumption DEF ForkOutcomes, NoPid
<1>2. child' = [q \in Pids |-> IF q = p THEN "running" ELSE child[q]]
  BY DEF Fork
<1>3. child' \in [Pids -> {"none", "running", "terminating", "zombie"}]
  BY <1>2 DEF TypeOK
<1>4. workers' \subseteq workers \cup ({p} \ {NoPid})
  BY DEF Fork
<1>5. workers' \subseteq {q \in Pids : child'[q] # "none"}
  BY <1>1, <1>2, <1>4 DEF TypeOK
<1>6. p = NoPid => failures < MaxForkFailures
  BY PidsAssumption DEF ForkOutcomes, NoPid
<1>7. failures' \in 0 .. MaxForkFailures
  BY <1>6, MaxForkFailuresAssumption DEF TypeOK, Fork
<1>8. forgotten' \subseteq workers'
  BY DEF TypeOK, Fork
<1> QED
  BY <1>1, <1>3, <1>5, <1>7, <1>8 DEF ChildrenTyped

(* waitpid answers with a process id, 0 or -1, and the child it reaped is  *)
(* gone.                                                                   *)
LEMMA WaitTyped ==
    ASSUME TypeOK, NEW p, NEW result \in WaitOutcomes(p), Reap(result)
    PROVE  result \in Pids \cup {NoPid, 0} /\ ChildrenTyped'
<1>1. result \in Pids \cup {NoPid, 0}
  BY DEF WaitOutcomes, Awaited
<1>2. child' = [q \in Pids |-> IF q = result THEN "none" ELSE child[q]]
  BY DEF Reap
<1>3. child' \in [Pids -> {"none", "running", "terminating", "zombie"}]
  BY <1>2 DEF TypeOK
<1>4. workers' \subseteq {q \in Pids : child'[q] # "none"}
  BY <1>2 DEF TypeOK, Reap
<1>5. forgotten' \subseteq workers'
  BY DEF TypeOK, Reap
<1> QED
  BY <1>1, <1>3, <1>4, <1>5 DEF ChildrenTyped
-----------------------------------------------------------------------------
(* No thread runs before the first Start.                                  *)
LEMMA ThreadsInit == Init => Threads
<1> SUFFICES ASSUME Init PROVE Threads
  OBVIOUS
<1>1. main \in Main /\ supervisor \in Supervisor
  BY DEF Init, Main, Supervisor
<1>2. starts \in 0 .. MaxStarts /\ failures \in 0 .. MaxForkFailures
  BY MaxStartsAssumption, MaxForkFailuresAssumption DEF Init
<1>3. TypeOK
  BY <1>1, <1>2 DEF Init, TypeOK
<1> QED
  BY <1>3 DEF Init, Threads, ThreadsJoined, RunningCleared, ForkResultStored

(* Start, up to its return.                                                *)
LEMMA StartingKeepsThreads ==
    ASSUME Threads, Starting
    PROVE  Threads'
<1> USE DEF Threads, TypeOK, ThreadsJoined, RunningCleared, ForkResultStored, Main,
            Supervisor, MainGoes
<1>1. CASE Start
  BY <1>1, MaxStartsAssumption DEF Start
<1>2. CASE SpawnSupervisor
  BY <1>2 DEF SpawnSupervisor
<1>3. CASE SpawnCollector
  BY <1>3 DEF SpawnCollector
<1>4. CASE ForkWorker
  <2>1. PICK p \in ForkOutcomes : Fork(p, TRUE) /\ main' = [pc |-> "storing", pid |-> p]
    BY <1>4 DEF ForkWorker
  <2>2. ChildrenTyped' /\ failures' \in 0 .. MaxForkFailures /\ p \in Pids \cup {NoPid}
    BY <1>4, <2>1, ForkTyped DEF ForkWorker
  <2> QED
    BY <1>4, <2>1, <2>2 DEF ForkWorker, ChildrenTyped
<1>5. CASE StoreWorker
  BY <1>5 DEF StoreWorker
<1>6. CASE StartReturns
  BY <1>6 DEF StartReturns
<1> QED
  BY <1>1, <1>2, <1>3, <1>4, <1>5, <1>6 DEF Starting

(* Stop, and the way from Reset to its return.                             *)
LEMMA StoppingKeepsThreads ==
    ASSUME Threads, Stop \/ Stopping \/ Unmap \/ StopReturns
    PROVE  Threads'
<1> USE DEF Threads, TypeOK, ThreadsJoined, RunningCleared, ForkResultStored, Main,
            Supervisor, MainGoes
<1>1. CASE Stop
  BY <1>1 DEF Stop
<1>2. CASE ClearRunning
  BY <1>2 DEF ClearRunning
<1>3. CASE LookForWorker
  BY <1>3 DEF LookForWorker
<1>4. CASE KillWorker
  <2>1. /\ child' \in [Pids -> {"none", "running", "terminating", "zombie"}]
        /\ \A p \in Pids : child'[p] = "none" <=> child[p] = "none"
    BY <1>4 DEF KillWorker, Terminated
  <2> QED
    BY <1>4, <2>1 DEF KillWorker
<1>5. CASE ReapWorker
  <2>1. PICK result \in WaitOutcomes(main.pid) \ {0} : Reap(result)
    BY <1>5 DEF ReapWorker
  <2>2. ChildrenTyped'
    BY <2>1, WaitTyped
  <2> QED
    BY <1>5, <2>2 DEF ReapWorker, ChildrenTyped
<1>6. CASE ForgetWorker
  BY <1>6 DEF ForgetWorker
<1>7. CASE Join
  BY <1>7 DEF Join
<1>8. CASE Unmap
  BY <1>8 DEF Unmap
<1>9. CASE StopReturns
  BY <1>9 DEF StopReturns
<1>10. CASE AwaitWorker
  BY <1>10 DEF AwaitWorker
<1> QED
  BY <1>1, <1>2, <1>3, <1>4, <1>5, <1>6, <1>7, <1>8, <1>9, <1>10 DEF Stopping

(* The supervisor moves only while Stop has not joined it: whatever it     *)
(* stores, it stores before Stop goes on.                                  *)
LEMMA SupervisingKeepsThreads ==
    ASSUME Threads, Supervise
    PROVE  Threads'
<1> USE DEF Threads, TypeOK, ThreadsJoined, RunningCleared, ForkResultStored, Main,
            Supervisor, SupervisorGoes
<1>1. CASE SupervisorTests
  BY <1>1 DEF SupervisorTests
<1>2. CASE SupervisorLoads
  BY <1>2 DEF SupervisorLoads
<1>3. CASE SupervisorWaits
  <2>1. PICK result \in WaitOutcomes(supervisor.pid) :
            Reap(result) /\ supervisor' = [pc |-> "comparing", pid |-> result]
    BY <1>3 DEF SupervisorWaits
  <2>2. ChildrenTyped' /\ result \in Pids \cup {NoPid, 0}
    BY <2>1, WaitTyped
  <2>3. supervisor' \in Supervisor /\ supervisor'.pc = "comparing"
    BY <2>1, <2>2
  <2> QED
    BY <1>3, <2>2, <2>3 DEF SupervisorWaits, ChildrenTyped
<1>4. CASE SupervisorCompares
  BY <1>4 DEF SupervisorCompares
<1>5. CASE SupervisorRecovers
  BY <1>5 DEF SupervisorRecovers
<1>6. CASE SupervisorForks
  <2>1. PICK p \in ForkOutcomes :
            Fork(p, FALSE) /\ supervisor' = [pc |-> "storing", pid |-> p]
    BY <1>6 DEF SupervisorForks
  <2>2. /\ ChildrenTyped' /\ failures' \in 0 .. MaxForkFailures
        /\ p \in Pids \cup {NoPid} /\ p # 0
    BY <1>6, <2>1, ForkTyped DEF SupervisorForks
  <2> QED
    BY <1>6, <2>1, <2>2 DEF SupervisorForks, ChildrenTyped
<1>7. CASE SupervisorStores
  BY <1>7 DEF SupervisorStores
<1>8. CASE SupervisorRestarted
  BY <1>8 DEF SupervisorRestarted
<1> QED
  BY <1>1, <1>2, <1>3, <1>4, <1>5, <1>6, <1>7, <1>8 DEF Supervise

(* The collector only leaves.                                              *)
LEMMA CollectingKeepsThreads ==
    ASSUME Threads, CollectorEnds
    PROVE  Threads'
  BY DEF Threads, TypeOK, ThreadsJoined, RunningCleared, ForkResultStored,
         CollectorEnds

(* The end of a child is nothing the threads see.                          *)
LEMMA ChildEndsKeepsThreads ==
    ASSUME Threads, NEW p \in Pids, ChildExits(p) \/ WorkerDies(p)
    PROVE  Threads'
<1>1. child' = [child EXCEPT ![p] = "zombie"] /\ child[p] # "none"
  BY DEF ChildExits, WorkerDies
<1>2. ChildrenTyped'
  <2>1. workers' = workers /\ forgotten' = forgotten
    BY DEF ChildExits, WorkerDies
  <2> QED
    BY <1>1, <2>1 DEF Threads, TypeOK, ChildrenTyped
<1>3. UNCHANGED <<running, state, workerPid, main, supervisor, collector, starts,
                  failures, forgotten>>
  BY DEF ChildExits, WorkerDies
<1> QED
  BY <1>2, <1>3 DEF Threads, TypeOK, ThreadsJoined, RunningCleared, ForkResultStored,
                    ChildrenTyped

(* Between them the actions keep the threads apart.                        *)
LEMMA ThreadsInvariant == Spec => []Threads
<1>1. Threads /\ [Next]_vars => Threads'
  <2> SUFFICES ASSUME Threads, [Next]_vars PROVE Threads'
    OBVIOUS
  <2>1. CASE UNCHANGED vars
    BY <2>1 DEF vars, Threads, TypeOK, ThreadsJoined, RunningCleared, ForkResultStored
  <2> QED
    BY <2>1, StartingKeepsThreads, StoppingKeepsThreads, SupervisingKeepsThreads,
       CollectingKeepsThreads, ChildEndsKeepsThreads DEF Next
<1> QED
  BY ThreadsInit, <1>1, PTL DEF Spec
-----------------------------------------------------------------------------
(* worker_pid_ holds a process id or -1, every worker is a child, and the  *)
(* positions and results of the three threads are those of the code.       *)
THEOREM TypeCorrect == Spec => []TypeOK
<1>1. Threads => TypeOK
  BY DEF Threads
<1> QED
  BY <1>1, ThreadsInvariant, PTL

(* SupervisorMain is inside RecoverFromCrash only while the segment it     *)
(* works on is mapped: Stop unmaps after it has joined the thread.         *)
THEOREM RecoveryMapped == Spec => []RecoveryWhileMapped
<1>1. Threads => RecoveryWhileMapped
  BY DEF Threads, ThreadsJoined, RecoveryWhileMapped, Mapped
<1> QED
  BY <1>1, ThreadsInvariant, PTL

-----------------------------------------------------------------------------
(* waitpid and the end of a child never add to the workers that run.       *)
LEMMA ReapForgets ==
    ASSUME TypeOK, NEW result, Reap(result)
    PROVE  Unforgotten' \subseteq Unforgotten
  BY DEF TypeOK, Reap, Unforgotten

(* A step that leaves Start, Stop and worker_pid_ where they are and adds  *)
(* no worker keeps WorkerKnown.                                            *)
LEMMA NoNewWorker ==
    ASSUME WorkerKnown, UNCHANGED <<main, workerPid>>, Unforgotten' \subseteq Unforgotten
    PROVE  WorkerKnown'
  BY DEF WorkerKnown

(* Start begins without a worker, and the one it forks is the only one.    *)
LEMMA StartingKeepsWorker ==
    ASSUME TypeOK, WorkerKnown, Starting
    PROVE  WorkerKnown'
<1> USE DEF TypeOK, Main, MainGoes, WorkerKnown, Unforgotten
<1>1. CASE Start
  BY <1>1 DEF Start
<1>2. CASE SpawnSupervisor
  BY <1>2 DEF SpawnSupervisor
<1>3. CASE SpawnCollector
  BY <1>3 DEF SpawnCollector
<1>4. CASE ForkWorker
  <2>1. PICK p \in ForkOutcomes : Fork(p, TRUE) /\ main' = [pc |-> "storing", pid |-> p]
    BY <1>4 DEF ForkWorker
  <2>2. Unforgotten = {} /\ forgotten' = forgotten
    BY <1>4 DEF ForkWorker
  <2>3. Unforgotten' \subseteq {p}
    BY <2>1, <2>2 DEF Fork
  <2> QED
    BY <2>1, <2>3
<1>5. CASE StoreWorker
  BY <1>5 DEF StoreWorker
<1>6. CASE StartReturns
  BY <1>6 DEF StartReturns
<1> QED
  BY <1>1, <1>2, <1>3, <1>4, <1>5, <1>6 DEF Starting

(* Stop tells the worker that worker_pid_ names to end, and every child    *)
(* when worker_pid_ is -1 by then.                                         *)
LEMMA StoppingKeepsWorker ==
    ASSUME TypeOK, WorkerKnown, Stop \/ Stopping \/ Unmap \/ StopReturns
    PROVE  WorkerKnown'
<1> USE DEF TypeOK, Main, MainGoes, WorkerKnown, Unforgotten
<1>1. CASE Stop
  BY <1>1 DEF Stop
<1>2. CASE ClearRunning
  BY <1>2 DEF ClearRunning
<1>3. CASE LookForWorker
  BY <1>3, PidsAssumption DEF LookForWorker, NoPid
<1>4. CASE KillWorker
  <2>1. /\ main' = [main EXCEPT !.pc = "loading"] /\ main.pc = "killing"
        /\ UNCHANGED <<workers, forgotten>>
    BY <1>4 DEF KillWorker
  <2>2. \A q \in Pids : child'[q] = "running" => child[q] = "running" /\ q # workerPid
    BY <1>4 DEF KillWorker, Terminated
  <2>3. Unforgotten \subseteq {workerPid}
    BY <2>1
  <2>4. Unforgotten' \subseteq Unforgotten \ {workerPid}
    BY <2>1, <2>2
  <2> QED
    BY <2>1, <2>3, <2>4
<1>5. CASE ReapWorker
  <2>1. PICK result \in WaitOutcomes(main.pid) \ {0} : Reap(result)
    BY <1>5 DEF ReapWorker
  <2>2. Unforgotten' \subseteq Unforgotten
    BY <2>1, ReapForgets
  <2> QED
    BY <1>5, <2>2 DEF ReapWorker
<1>6. CASE ForgetWorker
  BY <1>6 DEF ForgetWorker
<1>7. CASE Join
  BY <1>7 DEF Join
<1>8. CASE Unmap
  BY <1>8 DEF Unmap
<1>9. CASE StopReturns
  BY <1>9 DEF StopReturns
<1>10. CASE AwaitWorker
  BY <1>10 DEF AwaitWorker
<1> QED
  BY <1>1, <1>2, <1>3, <1>4, <1>5, <1>6, <1>7, <1>8, <1>9, <1>10 DEF Stopping

(* The supervisor's child is no worker, and the worker whose pid it        *)
(* overwrites is forgotten.                                                *)
LEMMA SupervisingKeepsWorker ==
    ASSUME TypeOK, WorkerKnown, Supervise
    PROVE  WorkerKnown'
<1>1. CASE SupervisorStores
  <2>1. /\ UNCHANGED <<main, child, workers>>
        /\ forgotten' = forgotten \cup ({workerPid} \cap workers)
    BY <1>1 DEF SupervisorStores
  <2>2. Unforgotten' \subseteq Unforgotten \ {workerPid}
    BY <2>1 DEF Unforgotten
  <2> QED
    BY <2>1, <2>2 DEF WorkerKnown
<1>2. CASE SupervisorWaits
  <2>1. PICK result \in WaitOutcomes(supervisor.pid) : Reap(result)
    BY <1>2 DEF SupervisorWaits
  <2>2. Unforgotten' \subseteq Unforgotten
    BY <2>1, ReapForgets
  <2> QED
    BY <1>2, <2>2, NoNewWorker DEF SupervisorWaits
<1>3. CASE SupervisorForks
  <2>1. PICK p \in ForkOutcomes : Fork(p, FALSE)
    BY <1>3 DEF SupervisorForks
  <2>2. p \notin workers
    BY PidsAssumption DEF TypeOK, ForkOutcomes, NoPid
  <2>3. Unforgotten' \subseteq Unforgotten
    BY <1>3, <2>1, <2>2 DEF TypeOK, SupervisorForks, Fork, Unforgotten
  <2> QED
    BY <1>3, <2>3, NoNewWorker DEF SupervisorForks
<1>4. CASE SupervisorTests \/ SupervisorLoads \/ SupervisorCompares
           \/ SupervisorRecovers \/ SupervisorRestarted
  <2>1. UNCHANGED <<main, workerPid, child, workers, forgotten>>
    BY <1>4 DEF SupervisorTests, SupervisorLoads, SupervisorCompares, SupervisorRecovers,
                SupervisorRestarted
  <2> QED
    BY <2>1, NoNewWorker DEF Unforgotten
<1> QED
  BY <1>1, <1>2, <1>3, <1>4 DEF Supervise

(* A child that ends is one fewer that runs.                               *)
LEMMA ChildEndsKeepsWorker ==
    ASSUME TypeOK, WorkerKnown, NEW p \in Pids, ChildExits(p) \/ WorkerDies(p)
    PROVE  WorkerKnown'
<1>1. /\ child' = [child EXCEPT ![p] = "zombie"]
      /\ UNCHANGED <<main, workerPid, workers, forgotten>>
  BY DEF ChildExits, WorkerDies
<1>2. Unforgotten' \subseteq Unforgotten
  BY <1>1 DEF TypeOK, Unforgotten
<1> QED
  BY <1>1, <1>2, NoNewWorker

(* No action loses a worker but the supervisor's store.                    *)
LEMMA WorkerInvariant == Spec => []WorkerKnown
<1>1. Init => WorkerKnown
  BY DEF Init, WorkerKnown, Unforgotten
<1>2. TypeOK /\ WorkerKnown /\ [Next]_vars => WorkerKnown'
  <2> SUFFICES ASSUME TypeOK, WorkerKnown, [Next]_vars PROVE WorkerKnown'
    OBVIOUS
  <2>1. CASE UNCHANGED vars
    BY <2>1, NoNewWorker DEF vars, Unforgotten
  <2>2. CASE CollectorEnds
    BY <2>2, NoNewWorker DEF CollectorEnds, Unforgotten
  <2> QED
    BY <2>1, <2>2, StartingKeepsWorker, StoppingKeepsWorker, SupervisingKeepsWorker,
       ChildEndsKeepsWorker DEF Next
<1> QED
  BY <1>1, <1>2, TypeCorrect, PTL DEF Spec

(* When Stop has killed its worker and joined the threads, no worker runs  *)
(* but those whose pid the supervisor has overwritten in worker_pid_.      *)
THEOREM StopKills == Spec => []StopKillsWorker
<1>1. WorkerKnown => StopKillsWorker
  BY DEF WorkerKnown, Unforgotten, StopKillsWorker
<1> QED
  BY <1>1, WorkerInvariant, PTL
=============================================================================
