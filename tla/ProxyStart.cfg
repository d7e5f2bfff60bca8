SPECIFICATION FairSpec
CONSTANTS
    None = None
    Starters = {s1, s2, s3}
    NativeThreads = {n1, n2, n3}
    EarlyWakers = {s1}
INVARIANTS
    OneProxyThread
    NoStrayThread
PROPERTIES
    StartTellsTruth
    StarterServed
CHECK_DEADLOCK FALSE
