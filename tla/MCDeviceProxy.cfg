SPECIFICATION Spec
CONSTANTS
    r1 = r1
    r2 = r2
    r3 = r3
    c1 = c1
    p1 = p1
    None = None
    Proxy = Proxy
    Requests = {r1, r2, c1}
    UrbRequests = {r1, r2}
    IsoRequests = {r2}
    Claims = {c1}
    Addrs = {a1, a2}
    Pipes = {p1}
    PipeOf <- MCPipeOf
    Aborters = {ab1}
SYMMETRY Symmetric
INVARIANTS
    UrbAccounting
    NoTransferAfterCompletion
    FlagMeansSettled
    CompletedOnce
    LiveRequestTracked
    AbortedAreCompleted
PROPERTIES
    ImplementsContract
CHECK_DEADLOCK FALSE
