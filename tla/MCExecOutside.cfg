SPECIFICATION Spec
CONSTANTS
    NSecrets = 2
INVARIANTS
    NeverOutside
CHECK_DEADLOCK FALSE
