\* Three producers in two processes, one coordination file, two consumers and a
\* clock that turns once.
SPECIFICATION Spec
CONSTANTS
    q1 = q1
    q2 = q2
    q3 = q3
    pid1 = pid1
    pid2 = pid2
    c1 = c1
    c2 = c2
    Producers <- MCProducers
    Processes <- MCProcesses
    ProcOf <- MCProcOf
    NoSegment = none
    NoPid = pid0
    Consumers <- MCConsumers
    Paths = {f1}
    MaxTime = 1
SYMMETRY MCSymmetry
INVARIANTS
    TypeOK
    SegmentsSharedOnlyByTwins
    PublishedIsComplete
    AttachedWatchesOwner
    StaleFilesAreOfTheDead
    LostFilesWereContested
    UnlinkedWasRead
CHECK_DEADLOCK FALSE
