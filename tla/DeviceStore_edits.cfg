SPECIFICATION RSpec
CONSTANTS
    r1 = r1
    r2 = r2
    i1 = i1
    Ips = {i1}
    Macs = {m1}
    None = None
    Keep = Keep
    Bad = Bad
    Slots = {s1, s2}
    Requests = {r1, r2}
    Ops <- TwoOps
    SaveErrors = 1
SYMMETRY Symmetry
CONSTRAINT Bound
INVARIANT TypeOK
 
INVARIANT ChangeKept
PROPERTY HiddenFollows
