SPECIFICATION DialogueSpec
CONSTANTS
    MaxLines = 3
    Buffer = 7
INVARIANTS
    SuccessInStep
    IncorrectForAReason
CHECK_DEADLOCK FALSE
