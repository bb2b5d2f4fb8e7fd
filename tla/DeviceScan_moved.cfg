SPECIFICATION ScanSpec
CONSTANTS
    Ips = {i1, i2}
    Macs = {}
    None = None
    Keep = Keep
    Bad = Bad
    Slots = {s1}
    Requests = {r1}
    Ops <- AddressOps
    SaveErrors = 0
    Answering = {}
PROPERTY LeftAddressGone
