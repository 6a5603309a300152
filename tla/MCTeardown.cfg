\* A FluentPVC is deleted while its claims are in use.
SPECIFICATION TeardownSpec
CONSTANTS
    Names      = {n1}
    NamedPods  = {}
    NoUID      = NoUID
    Lagging    = {"binding"}
    FaultKinds = {"fluentPVCDeleted"}
    MaxFaults  = 1
    DryRuns    = {FALSE}
PROPERTY FluentPVCGoes
CHECK_DEADLOCK FALSE
