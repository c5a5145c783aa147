CONSTANTS
    Memmaps <- MCTight
    PageSize = 4
    WordBits = 2
SPECIFICATION Spec
INVARIANTS
    BootFramesKept
