SPECIFICATION AFairSpec
CONSTANTS
    Rows = {a}
    Names = {a}
    NameOf <- OwnName
    SlowTasks = {t1, t2}
    Requests = {r1, r2}
    NoTask = NoTask
INVARIANT RoundsExclusive
INVARIANT SummaryMatchesRows
PROPERTY AnswersFresh
PROPERTY OverviewCatchesUp
PROPERTY SlowRoundsGoOn
