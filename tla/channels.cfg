SPECIFICATION Spec
CONSTANTS
    MaxOpens <- MCOpens
    MaxOps = 4
    MaxStrays <- MCStrays
    Writes = {1, 2, 3}
    Window = 2
INVARIANTS
    TypeOK
    NoCrossTalk
    TablesAgree
    CloseCompletes
    OpenersAnswered
    EofLast
    GlobalsInStep
    AnswersInOrder
    EndsExplained
CHECK_DEADLOCK FALSE
