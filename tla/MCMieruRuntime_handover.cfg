CONSTANTS
    i1 = i1
    i2 = i2
    a1 = a1
    a2 = a2
    refused = refused
    Broken = Broken
    NoFile = NoFile
    Torn = Torn
    Down = Down
    Waiting = Waiting
    Procs = {p1}
    Ids <- MCIds
    Docs <- MCDocs
    Startable <- MCStartable
    Renderings <- HandoverDocs
    Port <- SharedPort
    Faults <- NoFaults
SPECIFICATION RetrySpec
PROPERTY
    Converges
