CONSTANTS
    N = 3
    InitFiles <- MCFiles
    Segments <- MCSegments
SPECIFICATION Spec
INVARIANTS
    CallsOnlyEntryLaunch
