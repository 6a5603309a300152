\* A failed job is replaced in place.
SPECIFICATION FairClaimSpec
CONSTANTS
    Names      = {n1}
    NamedPods  = {}
    NoUID      = NoUID
    Lagging    = {}
    FaultKinds = {"jobFails", "jobReplaced"}
    MaxFaults  = 2
    DryRuns    = {FALSE}
PROPERTY ClaimsAreReleased
CHECK_DEADLOCK FALSE
