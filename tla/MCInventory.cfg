SPECIFICATION MCSpec
CONSTANTS
    Scans = {k1, k2}
    Profiles <- MCProfiles
    Paths = {"app", "sub"}
    Parts = {"unit"}
    Findings = {"risk", "leak"}
    Inside <- MCInside
    Offers <- MCOffers
    Reviews = {"approved", "ignored"}
    Marks = {"acknowledged"}
    Values = {"", "unknown", "php", "python", "node", "laravel", "django", "active"}
    Earlier = Earlier
    Nothing = Nothing
    Rebuilders = {r1, r2}
    Writers = {w1, w2}
    Drafts = {d1, d2}
    Internal = {d1}
    Bucket <- MCBucket
    Sections <- MCSections
    Advised = 1
SYMMETRY Symmetry
INVARIANTS
    SummaryWhole
    ConversionSound
    CalmFrameworkBest
    CalmGroupsSingle
PROPERTIES
    ApprovalStands
CHECK_DEADLOCK FALSE
