----------------------------- MODULE MCAgentJobs -----------------------------
(* AgentJobs on small instances. *)
EXTENDS AgentJobs, TLC

CONSTANTS j1, j2, a1, a2, w1, w2, w3, t1, t2

(* Safety: one job of the first server, whose token is shared by the       *)
(* service and an operator's "once"; the third process polls for another   *)
(* server.                                                                 *)
OneJobAgentOf == j1 :> a1
OneJobToolOf == j1 :> t1
ThreeWorkersRunsFor == (w1 :> a1) @@ (w2 :> a1) @@ (w3 :> a2)

\* Slots are interchangeable, and so are the two processes of a1.
Symmetric == Permutations(Requests) \cup Permutations({w1, w2})

(* Liveness: two jobs of one server, one process; t2 is a static tool.     *)
TwoJobsAgentOf == (j1 :> a1) @@ (j2 :> a1)
TwoJobsToolOf == (j1 :> t1) @@ (j2 :> t2)
OneWorkerRunsFor == w1 :> a1
=============================================================================
