\* Reliable workers, no timeouts: the processTaskResult goroutines alone.
CONSTANTS
    NFiles = 2
    NReduce = 2
    Workers = {w1, w2}
    MaxCrashes = 0
    MaxReclaims = 0
    NoFile = NoFile
SPECIFICATION Spec
SYMMETRY WorkerSymmetry
INVARIANT OutputCorrectAtDone
CHECK_DEADLOCK FALSE
