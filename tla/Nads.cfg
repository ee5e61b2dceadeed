SPECIFICATION Spec
CONSTANTS
    None = None
    Nodes = {n1}
    Specs = {s1, s2}
    Registered = {s1}
    Fixed = {s1}
    Revisions = {r1}
    Interfaces = {e1, e2}
    Uids = {u1, u2}
    PodIds = {p1, p2}
    NadModes = {FALSE, TRUE}
    Graceful = FALSE
    FinalizerSets = {{}}
    ForeignHashes = {}
    Resyncs = FALSE
    MaxLag = 2
    MaxEdits = 2
    MaxFaults = 2
SYMMETRY Symmetry
INVARIANTS
    ReadyNads
    FailuresAreReal
    NadsBeforePod
CHECK_DEADLOCK FALSE
