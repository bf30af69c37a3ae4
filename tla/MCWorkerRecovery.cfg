\* Two workers, queues of two, five requests (one more than fit) of which the
\* first kills its worker, one crash out of the blue; two threads send the first
\* two requests, one the rest.
SPECIFICATION Spec
CONSTANTS
    WorkerCount = 2
    Capacity = 2
    IndexRange = 8
    MaxMessages = 5
    MaxRivals = 2
    MaxCrashes = 1
    MaxAlarms = 1
    Poison = {1}
    Dispatchers = {server, client}
    Server = server
INVARIANTS
    TypeOK
    QueuesIntact
    ConsumedWereAttempted
    RepeatsArePaidByDeaths
    OpenTransactionsHaveOwners
    DispatchUsesRoom
PROPERTIES
    SkippedStaySkipped
    EveryMessageLeaves
CHECK_DEADLOCK FALSE
