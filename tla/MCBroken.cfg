\* One request, and what makes a binding Unknown or an orphan: its volume is lost,
\* its claim forced away or replaced, its FluentPVC deleted and made again; or a
\* pass stops on the way.
SPECIFICATION Spec
CONSTANTS
    Names      = {n1}
    NamedPods  = {}
    NoUID      = NoUID
    Lagging    = {"fluentpvc"}
    FaultKinds = {"volumeLost", "claimForced", "foreignClaim", "extraJob",
                  "bindingPassFails", "pvcPassFails",
                  "fluentPVCDeleted", "fluentPVCRecreated", "fluentPVCPassFails"}
    MaxFaults  = 2
    DryRuns    = {TRUE, FALSE}
INVARIANT BindingOutlivesClaim
INVARIANT ConditionsInOrder
INVARIANT KeepInv
PROPERTY ForeignClaimUntouched
PROPERTY ReleaseAfterFinalization
CHECK_DEADLOCK FALSE
