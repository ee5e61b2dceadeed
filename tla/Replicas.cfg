SPECIFICATION Spec
CONSTANTS
    None = None
    Nodes = {n1}
    Specs = {s1, s2}
    Registered = {s1}
    Fixed = {s1, s2}
    Revisions = {r1, r2}
    Interfaces = {e1}
    Uids = {u1, u2}
    PodIds = {p1, p2}
    NadModes = {FALSE, TRUE}
    Graceful = FALSE
    FinalizerSets = {{"nodedeployer"}}
    ForeignHashes = {}
    Resyncs = FALSE
    MaxLag = 1
    MaxEdits = 2
    MaxFaults = 1
SYMMETRY Symmetry
VIEW Unordered
CONSTRAINT OneTrouble
ACTION_CONSTRAINT OneKind
INVARIANTS
    NoNodeForgotten
    BothReadyIsTrue
    BothReadyNads
PROPERTIES
    StatusForReadNodes
CHECK_DEADLOCK FALSE
