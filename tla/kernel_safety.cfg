CONSTANTS
    N = 3
    InitFiles <- MCFiles
    Segments <- MCSegments
SPECIFICATION Spec
INVARIANTS
    TypeOK
    FrameMutex
    CoreIdReadable
    LevelOwner
    LevelsBalanced
    MainMasksInts
    BootBarrier
    JoinsLoadedSpace
PROPERTIES
    StatusStable
