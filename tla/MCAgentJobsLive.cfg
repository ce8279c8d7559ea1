SPECIFICATION FairSpec
CONSTANTS
    j1 = j1
    j2 = j2
    a1 = a1
    a2 = a2
    w1 = w1
    w2 = w2
    w3 = w3
    t1 = t1
    t2 = t2
    Jobs = {j1, j2}
    Agents = {a1}
    Workers = {w1}
    Requests = {r1}
    Tools = {t1, t2}
    AgentOf <- TwoJobsAgentOf
    RunsFor <- OneWorkerRunsFor
    ToolOf <- TwoJobsToolOf
    StaticTools = {t2}
    Outcomes = {"succeeded", "rejected"}
    Oversized = {}
    ClaimExpiry = 1
    NoJob = NoJob
PROPERTIES
    JobsSettle
