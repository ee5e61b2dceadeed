SPECIFICATION FairSpec
CONSTANTS
    None = None
    NotFound = NotFound
    Secrets <- MCSecrets
    MaxRotations = 2
    MaxFaults = 2
INVARIANTS
    TypeOK
    BlocksAreWhole
    OneProfile
PROPERTIES
    KeepsContract
    RotationArrives
