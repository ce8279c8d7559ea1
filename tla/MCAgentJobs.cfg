SPECIFICATION Spec
CONSTANTS
    j1 = j1
    j2 = j2
    a1 = a1
    a2 = a2
    w1 = w1
    w2 = w2
    w3 = w3
    t1 = t1
    t2 = t2
    Jobs = {j1}
    Agents = {a1, a2}
    Workers = {w1, w2, w3}
    Requests = {r1, r2}
    Tools = {t1}
    AgentOf <- OneJobAgentOf
    RunsFor <- ThreeWorkersRunsFor
    ToolOf <- OneJobToolOf
    StaticTools = {}
    Outcomes = {"succeeded", "rejected"}
    Oversized = {j1}
    ClaimExpiry = 1
    NoJob = NoJob
SYMMETRY Symmetric
INVARIANTS
    RunAgrees
    ClaimsHonoured
    ClaimsExclusive
PROPERTIES
    ImplementsLifecycle
