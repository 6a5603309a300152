\* The pass that releases a claim stops half-way.
SPECIFICATION FairClaimSpec
CONSTANTS
    Names      = {n1}
    NamedPods  = {}
    NoUID      = NoUID
    Lagging    = {"binding", "pvc"}
    FaultKinds = {"pvcPassFails"}
    MaxFaults  = 1
    DryRuns    = {FALSE}
PROPERTY ClaimsAreReleased
CHECK_DEADLOCK FALSE
