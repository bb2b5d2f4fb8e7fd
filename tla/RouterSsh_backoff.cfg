SPECIFICATION RoSpec
CONSTANTS
    RoCallers = {c1, c2}
    RoConns = {k1, k2, k3}
    RoNone = none
    RoBase = 1
    RoTop = 2
    RoMaxTime = 2
INVARIANT BackoffKept
CHECK_DEADLOCK FALSE
