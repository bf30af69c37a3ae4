\* Three process ids, a second Start after an interrupted Reset, one fork that fails.
SPECIFICATION Spec
CONSTANTS
    Pids = {1, 2, 3}
    MaxStarts = 2
    MaxForkFailures = 1
INVARIANTS
    TypeOK
    RecoveryWhileMapped
    StopKillsWorker
PROPERTIES
    StopReachesReset
    DeathsAreDetected
CHECK_DEADLOCK FALSE
