CONSTANTS
    u = u
    Runs = {r1}
    Counters <- MCCounters
    Core <- MCCore
    Snell <- MCSnell
    Owner <- MCOwner
    Quota = 2
    Slack = 0
    MaxMoved = 2
    MaxOld = 1
    Faults <- AllButReconcile
SPECIFICATION FairSpec
INVARIANTS
    TypeOK
    NeverOverbilled
    NothingLost
    NoneCutOffEarly
    

    
