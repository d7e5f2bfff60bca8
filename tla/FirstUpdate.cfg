SPECIFICATION Spec
CONSTANTS
    Callers = {a, b}
    None = None
    MAX_POLLING_ERRORS = 1
    MaxChanges = 3
    MaxErrors = 2
INVARIANTS
    NoLostFirstUpdate
    NoChangeForgotten
PROPERTIES
    ChangeIsSeen
    CallersReturn
CHECK_DEADLOCK FALSE
