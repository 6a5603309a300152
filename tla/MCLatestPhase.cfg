\* Two conditions become True in the same second.
SPECIFICATION Spec
CONSTANTS
    Second   = 4
    MaxTicks = 28
INVARIANT PhaseIsLatest
CHECK_DEADLOCK FALSE
