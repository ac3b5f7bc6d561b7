\* Two input files, two buckets, two workers that never die and always
\* report within the staleness threshold.  Liveness under weak fairness;
\* no symmetry (it is unsound for liveness).
CONSTANTS
    NFiles = 2
    NReduce = 2
    Workers = {w1, w2}
    MaxCrashes = 0
    MaxReclaims = 0
    NoFile = NoFile
SPECIFICATION FairSpec
PROPERTY Termination
CHECK_DEADLOCK FALSE
