SPECIFICATION FairSpec
CONSTANTS
    r1 = r1
    r2 = r2
    r3 = r3
    c1 = c1
    p1 = p1
    None = None
    Proxy = Proxy
    Requests = {r1, c1}
    UrbRequests = {r1}
    IsoRequests = {}
    Claims = {c1}
    Addrs = {a1}
    Pipes = {p1}
    PipeOf <- MCPipeOf
    Aborters = {ab1}
PROPERTIES
    AbortReturns
    RequestServed
    FinishedReaped
    AbortReachesKernel
CHECK_DEADLOCK FALSE
