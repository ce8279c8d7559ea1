---------------------------- MODULE JobLifecycle ----------------------------
(***************************************************************************)
(* What the control plane promises about a read-only tool execution, seen  *)
(* from the services that asked for it (baseline scans, diagnostics, chat  *)
(* tool requests): an AgentJob and the ToolRun that mirrors it are opened  *)
(* together, are closed together by at most one recorded result, and are   *)
(* never touched again.  The one exception the code makes is a job that is *)
(* closed without a result (rejected while being claimed, or cancelled in  *)
(* the admin site): its ToolRun stays queued.                              *)
(*                                                                         *)
(* AgentJobs implements this specification; BaselineScan, Diagnostics,     *)
(* ChatTools and ChatBundle are written against it.                        *)
(***************************************************************************)

CONSTANT Jobs   \* identities of AgentJob / ToolRun pairs

VARIABLES
    phase,      \* [Jobs -> Phases], what became of the AgentJob
    run         \* [Jobs -> RunStatuses], ToolRun.status

lifecycleVars == <<phase, run>>

\* The statuses a result submission may record: AgentJob.Status values that
\* submit_job_result accepts, mapped one to one by update_tool_run_from_job.
Results == {"succeeded", "failed", "rejected", "timeout"}

Phases == {"absent", "open", "closed", "dropped"}

RunStatuses == {"absent", "queued"} \cup Results

LifecycleInit ==
    /\ phase = [j \in Jobs |-> "absent"]
    /\ run = [j \in Jobs |-> "absent"]

\* create_tool_run_job: the ToolRun and the AgentJob are created in one
\* transaction, which its caller may extend to a set S of jobs.
Open(S) ==
    /\ S # {}
    /\ \A j \in S : phase[j] = "absent"
    /\ phase' = [j \in Jobs |-> IF j \in S THEN "open" ELSE phase[j]]
    /\ run' = [j \in Jobs |-> IF j \in S THEN "queued" ELSE run[j]]

\* submit_job_result: the job and its mirror take the result in one
\* transaction.
Settle(j, s) ==
    /\ phase[j] = "open"
    /\ phase' = [phase EXCEPT ![j] = "closed"]
    /\ run' = [run EXCEPT ![j] = s]

\* claim_next_job's rejection and the admin site's cancellation: the job is
\* terminal and nobody updates the ToolRun.
Discard(j) ==
    /\ phase[j] = "open"
    /\ phase' = [phase EXCEPT ![j] = "dropped"]
    /\ UNCHANGED run

LifecycleNext ==
    \/ \E S \in SUBSET Jobs : Open(S)
    \/ \E j \in Jobs : Discard(j) \/ \E s \in Results : Settle(j, s)

LifecycleSpec == LifecycleInit /\ [][LifecycleNext]_lifecycleVars

=============================================================================
