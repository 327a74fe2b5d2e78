CONSTANTS
    Order <- MCOrder
    Unknown = 0
    Manifests <- MCManifests
CHECK_DEADLOCK FALSE
SPECIFICATION Spec
INVARIANTS
    GraphAlgorithmsExact
    SavedConfigBuilds
