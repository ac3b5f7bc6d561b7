\* Reliable workers, no timeouts: the master against the job it promises.
CONSTANTS
    NFiles = 2
    NReduce = 2
    Workers = {w1, w2}
    MaxCrashes = 0
    MaxReclaims = 0
    NoFile = NoFile
SPECIFICATION Spec
SYMMETRY WorkerSymmetry
PROPERTY ImplementsJob
CHECK_DEADLOCK FALSE
