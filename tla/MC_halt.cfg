\* One timeout sweep: stale Map tasks left in TaskQueue when the Reduce tasks are pushed.
CONSTANTS
    NFiles = 2
    NReduce = 1
    Workers = {w1, w2}
    MaxCrashes = 0
    MaxReclaims = 1
    NoFile = NoFile
SPECIFICATION Spec
SYMMETRY WorkerSymmetry
INVARIANT MasterServes
CHECK_DEADLOCK FALSE
