SPECIFICATION Spec
CONSTANTS
    Content <- MCContent
    MinChunk = 6
    Scenarios <- MCScenarios
INVARIANTS RowIsWholeFile InOrder
PROPERTIES Answered
\* An upload ends.
CHECK_DEADLOCK FALSE
