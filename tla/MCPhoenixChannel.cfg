\* Two slots, a payload buffer of two cells, three messages: one more than fit,
\* so that a slot and the payload buffer are used again.
SPECIFICATION Spec
CONSTANTS
    Capacity = 2
    IndexRange = 6
    PayloadSize = 2
    Lengths = {0, 2, 3}
    MaxSends = 3
INVARIANTS
    TypeOK
    QueuedHeadersSurvive
    LoopTestsStayTrue
    LoneMessageIntact
    PositionsHandedOutOnce
PROPERTIES
    CallsReturn
    ReceiveFindsMessage
CHECK_DEADLOCK FALSE
