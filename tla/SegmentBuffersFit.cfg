\* The numbers of the code.
SPECIFICATION Spec
CONSTANTS
    NormalWorkerCount = 4
    NormalQueueCapacity = 1024
    VipWorkerCount = 2
    VipQueueCapacity = 256
    HeaderSize = 16
    LayoutSize = 1536
INVARIANTS
    BuffersFit
CHECK_DEADLOCK FALSE
