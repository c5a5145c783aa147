CONSTANTS
    Core = {0, 1}
    Boot = 0
    Exceptions = {17, 127}
    MaxDepth = 3
SPECIFICATION FairSpec
INVARIANTS
    TypeOK
    LevelCountsLogs
    ReturnAligned
PROPERTIES
    MaskedNotInterrupted
    PrintComesBack
