\* One worker, a queue of two, two requests, one thread that sends, no crash at
\* all: recovery starts because worker_pid_ is still -1.
SPECIFICATION Spec
CONSTANTS
    WorkerCount = 1
    Capacity = 2
    IndexRange = 8
    MaxMessages = 2
    MaxRivals = 0
    MaxCrashes = 0
    MaxAlarms = 1
    Poison = {}
    Dispatchers = {server}
    Server = server
INVARIANTS
    AcceptedRequestsAttempted
CHECK_DEADLOCK FALSE
