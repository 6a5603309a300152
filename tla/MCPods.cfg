\* A replica and its successor under a FluentPVC that is edited.
SPECIFICATION FairSpec
CONSTANTS
    FluentPVCs     <- MCFluentPVCs
    PodSpecs       <- MCPodSpecs
    StorageClasses <- MCStorageClasses
    MaxPods        = 2
    MaxEdits       = 1
INVARIANT PodsAreInjected
PROPERTY OnlyBrokenPodsAreDeleted
PROPERTY BrokenPodsAreDeleted
CHECK_DEADLOCK FALSE
