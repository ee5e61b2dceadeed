SPECIFICATION ResyncSpec
CONSTANTS
    None = None
    Nodes = {n1}
    Specs = {s1}
    Registered = {s1}
    Fixed = {}
    Revisions = {r1, r2}
    Interfaces = {}
    Uids = {u1}
    PodIds = {p1, p2}
    NadModes = {FALSE}
    Graceful = FALSE
    FinalizerSets = {{}}
    ForeignHashes = {r1}
    Resyncs = TRUE
    MaxLag = 2
    MaxEdits = 2
    MaxFaults = 1
PROPERTIES
    Converges
CHECK_DEADLOCK FALSE
