SPECIFICATION Spec
CONSTANTS
    r1 = r1
    r2 = r2
    r3 = r3
    c1 = c1
    p1 = p1
    None = None
    Proxy = Proxy
    Requests = {r1, r2}
    UrbRequests = {r1, r2}
    IsoRequests = {}
    Claims = {}
    Addrs = {a1}
    Pipes = {p1}
    PipeOf <- MCPipeOf
    Aborters = {ab1}
PROPERTY
    DiscardHitsItsRequest
CHECK_DEADLOCK FALSE
