\* One request, every cache of the life cycle stale, passes that start from their
\* queue, and one adverse event: a claim is late in the cache, another one takes
\* the place of a claim given up, or a pass has to be made again.
SPECIFICATION SchedulingSpec
CONSTANTS
    Names      = {n1}
    NamedPods  = {}
    NoUID      = NoUID
    Lagging    = {"binding", "pvc", "job", "pod"}
    FaultKinds = {"foreignClaim", "claimLate", "claimTouched", "claimDeleted",
                  "bindingPassFails", "pvcPassFails"}
    MaxFaults  = 1
    DryRuns    = {FALSE}
INVARIANT TypeOK
INVARIANT UseInv
INVARIANT NoFinalizationInUse
INVARIANT NoSpuriousUnknown
INVARIANT ForeignClaimUnprocessed
INVARIANT JobsLeftInv
INVARIANT ReasonInv
INVARIANT ProcessedInv
INVARIANT ReportInv
INVARIANT QueueInv
INVARIANT NoClaimForgotten
PROPERTY ForeignClaimUntouched
PROPERTY ClaimLifeSpec
CHECK_DEADLOCK FALSE
