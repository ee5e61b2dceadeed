SPECIFICATION Spec
CONSTANTS
    None = None
    Nodes = {n1}
    Specs = {s1, s2}
    Registered = {s1, s2}
    Fixed = {s1, s2}
    Revisions = {r1, r2}
    Interfaces = {}
    Uids = {u1}
    PodIds = {p1, p2}
    NadModes = {FALSE}
    Graceful = FALSE
    FinalizerSets = {{}}
    ForeignHashes = {}
    Resyncs = FALSE
    MaxLag = 3
    MaxEdits = 2
    MaxFaults = 0
SYMMETRY Symmetry
INVARIANTS
    DeletesOnlyChangedPod
CHECK_DEADLOCK FALSE
