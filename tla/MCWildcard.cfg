SPECIFICATION FairSpec
CONSTANTS
    a = a
    b = b
    Star = Star
    Question = Question
    Bytes <- MCBytes
    Patterns <- MCPatterns
    Subjects <- MCSubjects
INVARIANTS
    Exact
    FunctionAgrees
PROPERTIES
    Terminates
CHECK_DEADLOCK FALSE
