SPECIFICATION Spec
CONSTANTS
    None = None
    Nodes = {n1}
    Specs = {s1}
    Registered = {s1}
    Fixed = {s1}
    Revisions = {r1}
    Interfaces = {}
    Uids = {u1}
    PodIds = {p1, p2}
    NadModes = {FALSE}
    Graceful = FALSE
    FinalizerSets = {{"nodedeployer"}}
    ForeignHashes = {}
    Resyncs = FALSE
    MaxLag = 2
    MaxEdits = 2
    MaxFaults = 0
SYMMETRY Symmetry
INVARIANTS
    PodVisible
CHECK_DEADLOCK FALSE
