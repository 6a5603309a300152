\* Two requests for pods of one fixed name: a replica and its successor.
SPECIFICATION ClaimSpec
CONSTANTS
    Names      = {n1, n2}
    NamedPods  = {n1, n2}
    NoUID      = NoUID
    Lagging    = {"pod"}
    FaultKinds = {}
    MaxFaults  = 0
    DryRuns    = {FALSE}
SYMMETRY Symmetry
INVARIANT UseInv
INVARIANT ConditionsInOrder
PROPERTY ClaimLifeSpec
CHECK_DEADLOCK FALSE
