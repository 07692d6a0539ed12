SPECIFICATION BudgetSpec
CONSTANTS
    LeaseTicks <- Lease180
    IdleTicks <- Idle30
    MaxAttempts = 5
    MaxWork <- Work60
INVARIANTS
    ExpiredLeaseIsReclaimed
