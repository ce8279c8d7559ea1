SPECIFICATION FairSpec
CONSTANTS
    Tools = {t1, t2}
    Views = {v1, v2}
INVARIANTS
    SummaryTrue
    EveryToolAccounted
PROPERTIES
    SummaryAppears
CHECK_DEADLOCK FALSE
