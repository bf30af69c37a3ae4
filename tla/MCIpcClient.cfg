\* One client that can disconnect and connect again, two channels with room for
\* one request, two calls, each of the client or of the server, and two answers, which
\* may be to the same request.
SPECIFICATION Spec
CONSTANTS
    Clients = {c1}
    Server = server
    WorkerCount = 2
    Capacity = 1
    MaxCalls = 2
    MaxAnswers = 2
    MaxConnects = 2
    Notified = TRUE
INVARIANTS
    TypeOK
    AnswersMatchCalls
    PromisesSetOnce
    EntriesHaveCallers
    AsyncAnswersArrive
    PollerStaysMapped
PROPERTIES
    AnsweredCallsComplete
CHECK_DEADLOCK FALSE
