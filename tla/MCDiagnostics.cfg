SPECIFICATION MCSpec
CONSTANTS
    Approvers = {p1}
    Updates = {u1, u2}
    Views = {v1, v2}
    NoJob = NoJob
INVARIANTS
    SucceededMeansRan
    TelegramApprovesOnce
PROPERTIES
    CancelStands
    CalmSessionEnds
