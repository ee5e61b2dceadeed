SPECIFICATION Spec
CONSTANTS
    None = None
    Crs <- MCCrs
    Namespaces = {"lab", "operator"}
    PodNamespace = "operator"
    Names = {"leaf1", "default"}
    Specs <- MCSpecs
    Models = {"m1", "m2"}
    DefaultModel <- MCDefaultModel
    MaxEdits = 1
PROPERTIES
    ListsOwnNamespace
