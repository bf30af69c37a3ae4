\* Two threads push to the same queue at the same time.
SPECIFICATION Spec
CONSTANTS
    WorkerCount = 2
    Capacity = 2
    IndexRange = 4
    MaxMessages = 2
    MaxRivals = 2
    MaxCrashes = 0
    MaxAlarms = 0
    Poison = {}
    Dispatchers = {server, client}
    Server = server
INVARIANTS
    AcceptedRequestsStay
CHECK_DEADLOCK FALSE
