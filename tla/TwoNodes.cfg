SPECIFICATION Spec
CONSTANTS
    None = None
    Nodes = {n1, n2}
    Specs = {s1}
    Registered = {s1}
    Fixed = {}
    Revisions = {r1}
    Interfaces = {}
    Uids = {u1}
    PodIds = {p1, p2}
    NadModes = {FALSE}
    Graceful = TRUE
    FinalizerSets = {{"nodedeployer"}}
    ForeignHashes = {None, r1}
    Resyncs = FALSE
    MaxLag = 2
    MaxEdits = 2
    MaxFaults = 0
SYMMETRY Symmetry
INVARIANTS
    IInv
PROPERTIES
    KeepsPromise
CHECK_DEADLOCK FALSE
