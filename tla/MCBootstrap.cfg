SPECIFICATION BootstrapSpec
CONSTANTS
    Runs = {r1, r2}
    Secrets = 2
    Nothing = Nothing
SYMMETRY Symmetry
INVARIANTS
    CredentialsDestroyed
    InstalledMeansSeen
PROPERTIES
    NoLateRegistration
CHECK_DEADLOCK FALSE
