\* ReceivedInFifoOrder does not hold of the code.
SPECIFICATION Spec
CONSTANTS
    Capacity = 2
    IndexRange = 6
    PayloadSize = 2
    Lengths = {0, 2, 3}
    MaxSends = 3
INVARIANT
    ReceivedInFifoOrder
CHECK_DEADLOCK FALSE
