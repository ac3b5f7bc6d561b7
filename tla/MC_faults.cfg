\* Two input files, one bucket, two workers; one worker death and two
\* timeout sweep.  Safety only.
CONSTANTS
    NFiles = 2
    NReduce = 1
    Workers = {w1, w2}
    MaxCrashes = 1
    MaxReclaims = 1
    NoFile = NoFile
SPECIFICATION Spec
SYMMETRY WorkerSymmetry
INVARIANT TypeOK
INVARIANT ResultsOnDisk
INVARIANT SweepHasRoom
CHECK_DEADLOCK FALSE
