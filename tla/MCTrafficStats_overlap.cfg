CONSTANTS
    u = u
    Runs = {r1, r2}
    Counters <- OneCounter
    Core <- OneCore
    Snell <- NoSnell
    Owner <- OneOwner
    Quota = 9
    Slack = 16
    MaxMoved = 3
    MaxOld = 0
    Faults <- NoFaults
SPECIFICATION Spec
INVARIANT
    NeverOverbilled
