CONSTANTS
    LowInt <- MCLowInt
    HighInt = 536870911
    Junk = 77
    Program <- MCProgram
    Blocks <- MCBlocks
    Chunks <- MCChunks
    Menus <- MCMenus
    Contexts <- MCContexts
    LongNames = {"VERYLONG"}
    Twin <- MCTwin
    Seconds <- MCSeconds
SPECIFICATION ExecSpec
INVARIANT RangeExact
CHECK_DEADLOCK FALSE
