\* One call of the client and one of the server; nobody notifies, as in the code.
SPECIFICATION Spec
CONSTANTS
    Clients = {c1}
    Server = server
    WorkerCount = 1
    Capacity = 2
    MaxCalls = 2
    MaxAnswers = 2
    MaxConnects = 1
    Notified = FALSE
INVARIANTS
    AnswersIdentifyCalls
CHECK_DEADLOCK FALSE
