CONSTANTS
    N = 3
    InitFiles <- MCSharedProgram
    Segments <- MCSegments
SPECIFICATION Spec
INVARIANTS
    RunsOwnProgram
