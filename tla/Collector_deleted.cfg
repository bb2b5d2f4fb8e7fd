SPECIFICATION Spec
CONSTANTS
    Rows = {a}
    Names = {a}
    NameOf <- OwnName
    SlowTasks = {t1}
    Requests = {}
    NoTask = NoTask
INVARIANT DeletedStaysGone
