CONSTANTS
    NumCommands = 2
    Capacity = 1
    MaxMessage = 2
    Requests <- MCRequests
    Commands <- MCCommands
SPECIFICATION Spec
CHECK_DEADLOCK FALSE
INVARIANTS
    TypeOK
    AnswersAreWhole
    EndedCallsLeaveNoShell
PROPERTIES
    EachCommandHasItsTurn
