SPECIFICATION Spec
CONSTANTS
    None = None
    Nodes = {n1}
    Specs = {s1, s2}
    Registered = {s1, s2}
    Fixed = {s1, s2}
    Revisions = {r1, r2}
    Interfaces = {}
    Uids = {u1, u2}
    PodIds = {p1, p2}
    NadModes = {FALSE}
    Graceful = FALSE
    FinalizerSets = {{}, {"nodedeployer", "other"}}
    ForeignHashes = {None}
    Resyncs = FALSE
    MaxLag = 2
    MaxEdits = 2
    MaxFaults = 1
SYMMETRY Symmetry
INVARIANTS
    TypeOK
    NoLostWakeup
    ReadyIsTrue
PROPERTIES
    StatusForReadNode
CHECK_DEADLOCK FALSE
