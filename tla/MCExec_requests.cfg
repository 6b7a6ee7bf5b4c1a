CONSTANTS
    LowInt <- MCLowInt
    HighInt = 536870911
    Junk = 77
    Program <- MCProgram
    Blocks <- MCBlocks
    Chunks <- MCChunks
    Menus <- MCMenus
    Contexts <- MCContexts
    LongNames = {"VERYLONG"}
    Twin <- MCTwin
    Seconds <- MCSeconds
SPECIFICATION ExecSpec
INVARIANTS PlanIsRequest AllOrNothing FailureShown Composed AudioLaws DownCause EvalMatchesPipe
PROPERTY RequestEnds
CHECK_DEADLOCK FALSE
