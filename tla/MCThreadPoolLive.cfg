\* Both workers are waiting when the first job is submitted.
CONSTANTS
    NThreads = 2
    QueueSize = 1
    JobTicks = 1
    Jobs = {j1, j2, j3}
    NoJob = NoJob
SPECIFICATION WarmFairSpec
PROPERTIES
    JobsFinish
    SettledShutdownCompletes
CHECK_DEADLOCK FALSE
