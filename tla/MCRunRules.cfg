\* Three targets on two CPUs; MCWork has sites before, after and between rules.
CONSTANTS
    NumTargets = 3
    GOMAXPROCS = 2
    Work <- MCWork
    NoError = NoError
SPECIFICATION FairSpec
INVARIANTS
    AtMostOnePerCPU
    FewLateCalls
PROPERTIES
    ImplementsSequentialScan
    EveryScanEnds
    FailureEndsTheRun
