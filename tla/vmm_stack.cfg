CONSTANTS
    N = 6
    PageSize = 4
    StackPage = 4
    FrameCount = 48
    Scripts <- StackScripts
SPECIFICATION Spec
INVARIANT StackUsable
