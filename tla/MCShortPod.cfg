\* A pod that is over before the operator has seen it.
SPECIFICATION Spec
CONSTANTS
    Names      = {n1}
    NamedPods  = {}
    NoUID      = NoUID
    Lagging    = {}
    FaultKinds = {}
    MaxFaults  = 0
    DryRuns    = {FALSE}
PROPERTY RanClaimsAreFinalized
CHECK_DEADLOCK FALSE
