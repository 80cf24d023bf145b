SPECIFICATION Spec
CONSTANTS
    Channels = {c1, c2}
    Names = {n1, n2}
    Ports = {1, 2}
    Conns = {k1, k2}
    Objs = {1, 2, 3}
    MaxDialogs = 3
    RetryMax = 2
    MaxRegisterCount = 3
    Upstreams = {u1, u2}
    Calls = {1, 2, 3}
    MaxSinks = 1
    None = None
    Scenarios <- MCScenarios
INVARIANTS  OneByePerDialog ForwardsAccounted
CHECK_DEADLOCK FALSE
PROPERTIES CallsReturn ClosedConnLeaves
