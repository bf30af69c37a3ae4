\* Nobody notifies the client, as in the code.
SPECIFICATION Spec
CONSTANTS
    Clients = {c1}
    Server = server
    WorkerCount = 2
    Capacity = 1
    MaxCalls = 2
    MaxAnswers = 2
    MaxConnects = 1
    Notified = FALSE
PROPERTIES
    AnsweredCallsComplete
CHECK_DEADLOCK FALSE
