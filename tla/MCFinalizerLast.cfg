\* A second request while the FluentPVC reconciler is between its list and its
\* update.
SPECIFICATION Spec
CONSTANTS
    Names      = {n1, n2}
    NamedPods  = {}
    NoUID      = NoUID
    Lagging    = {}
    FaultKinds = {}
    MaxFaults  = 0
    DryRuns    = {FALSE}
PROPERTY FluentPVCFinalizerLast
CHECK_DEADLOCK FALSE
