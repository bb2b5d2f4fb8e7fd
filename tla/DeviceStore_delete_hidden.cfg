SPECIFICATION Spec
CONSTANTS
    Ips = {i1}
    Macs = {}
    None = None
    Keep = Keep
    Bad = Bad
    Slots = {s1}
    Requests = {r1}
    Ops <- HidingOps
    SaveErrors = 0
SYMMETRY Symmetry
INVARIANT DeleteKept
