CONSTANTS
    N = 2
    InitFiles <- MCOneProgram
    Segments <- MCSegments
SPECIFICATION FairSpec
PROPERTIES
    AwokenCoresRun
