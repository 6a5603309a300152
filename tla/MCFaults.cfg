\* One request, stale bindings, any two of the ordinary adverse events.
SPECIFICATION Spec
CONSTANTS
    Names      = {n1}
    NamedPods  = {}
    NoUID      = NoUID
    Lagging    = {"binding"}
    FaultKinds = {"pvcPassFails", "bindingPassFails", "claimDeleted", "claimTouched",
                  "bindingDeleted", "jobFails", "jobRemoved", "jobReplaced",
                  "podRejected"}
    MaxFaults  = 2
    DryRuns    = {FALSE}
INVARIANT BindingOutlivesClaim
INVARIANT ConditionsInOrder
INVARIANT NoSpuriousUnknown
INVARIANT ReleaseInv
PROPERTY ClaimLifeSpec
CHECK_DEADLOCK FALSE
