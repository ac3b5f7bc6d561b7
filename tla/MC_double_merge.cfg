\* One timeout sweep: a reclaimed Map task is reported twice.
CONSTANTS
    NFiles = 2
    NReduce = 1
    Workers = {w1, w2}
    MaxCrashes = 0
    MaxReclaims = 1
    NoFile = NoFile
SPECIFICATION Spec
SYMMETRY WorkerSymmetry
INVARIANT MergeAtMostOnce
CHECK_DEADLOCK FALSE
