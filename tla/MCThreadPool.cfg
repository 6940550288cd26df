\* Cold start: two workers that may not have run yet, four jobs.
CONSTANTS
    NThreads = 2
    QueueSize = 2
    JobTicks = 1
    Jobs = {j1, j2, j3, j4}
    NoJob = NoJob
SPECIFICATION Spec
SYMMETRY JobSymmetry
INVARIANTS
    OneOwner
    JobUseSafe
    NoStaleCancel
PROPERTIES
    OutcomeFinal
    ImplementsJobPool
\* The pool stops: after ThreadPool_done there is nothing left to do.
CHECK_DEADLOCK FALSE
