SPECIFICATION Spec
CONSTANTS
    Interfaces = {i1}
    Callers = {a, b}
    TheKeeper = a
    Keeper <- MCKeeper
    MaxCalls = 3
    MaxChanges = 2
INVARIANTS
    ClaimTellsTruth
    NothingKeptUnclaimed
PROPERTIES
    ForceOnlyWhenAsked
    UnclaimedIsNotUsed
    CallReturns
CHECK_DEADLOCK FALSE
