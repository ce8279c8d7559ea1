SPECIFICATION CatalogSpec
CONSTANTS
    Runs = {r1}
    Params <- MCParams
    Form <- MCForm
INVARIANTS
    AdmittedIsAllowed
    DryRunTells
    RunsAreSafe

CHECK_DEADLOCK FALSE
