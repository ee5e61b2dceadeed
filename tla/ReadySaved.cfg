SPECIFICATION Spec
CONSTANTS
    None = None
    Nodes = {n1}
    Specs = {s1}
    Registered = {s1}
    Fixed = {s1}
    Revisions = {r1}
    Interfaces = {}
    Uids = {u1}
    PodIds = {p1, p2}
    NadModes = {FALSE}
    Graceful = FALSE
    FinalizerSets = {{}}
    ForeignHashes = {}
    Resyncs = FALSE
    MaxLag = 2
    MaxEdits = 1
    MaxFaults = 2
SYMMETRY Symmetry
INVARIANTS
    ReadyIsSaved
CHECK_DEADLOCK FALSE
