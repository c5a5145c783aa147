CONSTANTS
    N = 3
    InitFiles <- MCLaunch
    Segments <- MCSegments
SPECIFICATION FairSpec
PROPERTIES
    BootCompletes
    LaunchedCoreEnds
