CONSTANTS
    Memmaps <- MCRoomy
    PageSize = 4
    WordBits = 2
SPECIFICATION Spec
INVARIANTS
    TypeOK
    Exclusive
    BitmapExact
    PanicOnlyWhenFull
PROPERTIES
    Implements
