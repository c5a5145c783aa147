CONSTANTS
    Width = 2
    Height = 2
    TabStop = 2
    Irqs = {0, 1, 12}
    MaxRaise = 1
    MaxNmi = 2
    Text <- ExceptionText
    PageWidth = 4
    PageHeight = 3
    PageTab = 2
    Formats <- MCFormats
    Args <- MCArgs
    Bits = 12
    Values <- MCValues
SPECIFICATION BootSpec
\* The boot stage ends in a halt, a reset or a wild jump, sprintf at the end of
\* its format.
CHECK_DEADLOCK FALSE
INVARIANTS
    BootTypeOK
    IrqsServed
    SprintfMeaning
    NumbersExact
PROPERTIES
    ScreenImplements
