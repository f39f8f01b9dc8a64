SPECIFICATION FairSpec
CONSTANTS
    Workers = {w1, w2}
    NumFiles = 3
    FixEvenUnparsable = FALSE
    MaxDeaths = 1
INVARIANTS SkipCountExact QuietEnd FixesReachDisk
PROPERTIES ImplementsLintPromise Termination
