SPECIFICATION FairSpec
CONSTANTS
    None = None
    Nodes = {n1}
    Specs = {s1}
    Registered = {s1}
    Fixed = {}
    Revisions = {r1, r2}
    Interfaces = {}
    Uids = {u1}
    PodIds = {p1, p2}
    NadModes = {FALSE}
    Graceful = TRUE
    FinalizerSets = {{"nodedeployer"}}
    ForeignHashes = {}
    Resyncs = FALSE
    MaxLag = 2
    MaxEdits = 2
    MaxFaults = 1
PROPERTIES
    Settles
CHECK_DEADLOCK FALSE
