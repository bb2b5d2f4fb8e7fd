SPECIFICATION FairScanSpec
CONSTANTS
    Ips = {i1}
    Macs = {}
    None = None
    Keep = Keep
    Bad = Bad
    Slots = {s1}
    Requests = {r1}
    Ops <- AllOps
    SaveErrors = 0
    Answering = {i1}
INVARIANT UndisturbedScanExact
PROPERTY ScansCatchUp
