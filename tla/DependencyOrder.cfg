SPECIFICATION Spec
CONSTANTS
    Listed = 4
    Gone = 3
    MaxDeps = 2
INVARIANTS
    DependenciesFirst
    OnlyCyclesMissing
    LoopIsTopologicalOrder
PROPERTY
    OrderEnds
CHECK_DEADLOCK FALSE
