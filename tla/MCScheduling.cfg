\* A queue and its requeues start the passes, with any one fault on the way.
SPECIFICATION FairSchedulingSpec
CONSTANTS
    Names      = {n1}
    NamedPods  = {}
    NoUID      = NoUID
    Lagging    = {}
    FaultKinds = {"restart", "admissionFails", "podRejected", "bindingPassFails",
                  "pvcPassFails", "bindingDeleted", "jobRemoved", "claimTouched",
                  "foreignClaim"}
    MaxFaults  = 1
    DryRuns    = {TRUE, FALSE}
INVARIANT NoClaimForgotten
INVARIANT SafeInv
PROPERTY PassesKeepStarting
PROPERTY ClaimsAreGivenUp
CHECK_DEADLOCK FALSE
