CONSTANTS
    ValidFor = 12
    Period = 4
    Timeout = 1
    Earlier = 2
    Linger = 2
    MaxStrays = 1
SPECIFICATION Spec
INVARIANTS
    UnwantedLeaseEnds
    WantedLeaseHolds
    RenewalsDoNotOverlap
