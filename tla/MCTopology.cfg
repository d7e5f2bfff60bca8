SPECIFICATION FairSpec
CONSTANTS
    hc1 = hc1
    hc2 = hc2
    h = h
    g = g
    m = m
    n = n
    x = x
    RootHub = RootHub
    None = None
    Devices <- MCDevices
    ParentOf <- MCParentOf
    PortOf <- MCPortOf
    KeyOf <- MCKeyOf
    DescOf <- MCDescOf
    Objects = {1, 2, 3, 4, 5, 6, 7, 8}
    MaxChanges = 5
INVARIANTS
    PortHoldsOne
    TreeRooted
    UpdateIsFaithful
    EventsMatchTree
PROPERTIES
    SteadyDevicesKept
    TreeSettles
