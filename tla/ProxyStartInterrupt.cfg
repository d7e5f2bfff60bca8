SPECIFICATION Spec
CONSTANTS
    None = None
    Starters = {s1, s2, s3}
    NativeThreads = {n1, n2, n3}
    EarlyWakers = {s1}
INVARIANT
    RunningIsKnown
CHECK_DEADLOCK FALSE
