CONSTANTS
    rows1 = rows1
    rows2 = rows2
    clients1 = clients1
    clients2 = clients2
    c1 = c1
    c2 = c2
    cRejected = cRejected
    NoRows = NoRows
    BuildError = BuildError
    NoFile = NoFile
    Torn = Torn
    Down = Down
    Waiting = Waiting
    InboundRows <- MCInboundRows
    ClientRows <- MCClientRows
    Configs <- MCConfigs
    Valid <- MCValid
    Render <- MCRender
    Procs = {p1, p2}
    Faults <- AllFaults
SPECIFICATION Spec
SYMMETRY MCSymmetry
INVARIANTS
    TypeOK
    InSync
    OnlyCheckedRuns
