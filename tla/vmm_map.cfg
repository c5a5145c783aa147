CONSTANTS
    N = 6
    PageSize = 4
    StackPage = 4
    FrameCount = 48
    Scripts <- AllScripts
SPECIFICATION FairSpec
INVARIANTS
    TypeOK
    TreeOK
    MapsRange
    SearchesFree
    UnmapsRange
PROPERTIES
    WalksEnd
