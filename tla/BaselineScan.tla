---------------------------- MODULE BaselineScan ----------------------------
(***************************************************************************)
(* One baseline scan (apps/servers/baseline.py): admin requests start it,  *)
(* the tools of its profile are enqueued as jobs, and every result that    *)
(* the API records makes its request ingest the results there are.         *)
(*                                                                         *)
(* The jobs themselves follow JobLifecycle, which AgentJobs implements.    *)
(* A step owns at most one job (unique_baseline_scan_step; a transaction   *)
(* rolled back leaves none), so a step's key names its job too.            *)
(*                                                                         *)
(* Nothing here runs in one transaction but the creation of the steps:     *)
(* each read and each save of the scan and its steps is a step of its own, *)
(* and any number of requests interleave between them.                     *)
(***************************************************************************)

CONSTANTS
    Steps,        \* the tool keys of the scan's profile
    Starters      \* requests that call start_baseline_scan for this scan

VARIABLES
    scan,         \* BaselineScan.status
    label,        \* BaselineScan.current_step
    step,         \* [Steps -> BaselineScanStep.status, or "absent"]
    phase,        \* JobLifecycle: what became of the step's job
    run,          \* JobLifecycle: ToolRun.status
    starter,      \* [Starters -> how far the request is]
    ingest        \* [Steps -> the ingestion by the request with its result]

vars == <<scan, label, step, phase, run, starter, ingest>>

Job == INSTANCE JobLifecycle WITH Jobs <- Steps

-----------------------------------------------------------------------------

ScanStatuses == {"pending", "running", "succeeded", "failed"}

\* read: the status allowed a start; marked: saved as running; enqueueing:
\* read again and still running; created: the steps are committed.
StarterPhases == {"idle", "read", "marked", "enqueueing", "created", "done"}

\* called: the result is recorded, the ingestion about to begin; saving: the
\* finished runs have been read, those in todo are not stored yet; judged: the
\* steps have been read again and call for the verdict.
Ingestion == [phase : {"none", "called", "saving", "judged", "done"},
              todo : SUBSET Steps, verdict : {"none", "succeeded", "failed"}]

TypeOK ==
    /\ scan \in ScanStatuses
    /\ label \in {"", "enqueue_baseline_tools", "waiting_for_agent_results", "completed"}
    /\ step \in [Steps -> {"absent", "queued", "succeeded", "failed"}]
    /\ phase \in [Steps -> Job!Phases]
    /\ run \in [Steps -> Job!RunStatuses]
    /\ starter \in [Starters -> StarterPhases]
    /\ ingest \in [Steps -> Ingestion]

Init ==
    /\ scan = "pending"
    /\ label = ""
    /\ step = [k \in Steps |-> "absent"]
    /\ Job!LifecycleInit
    /\ starter = [s \in Starters |-> "idle"]
    /\ ingest = [k \in Steps |-> [phase |-> "none", todo |-> {}, verdict |-> "none"]]

-----------------------------------------------------------------------------
(* start_baseline_scan and enqueue_next_baseline_tools, by one request.    *)
(* Both preflights, and the policy gates of each job, read tables that an  *)
(* administrator edits: whether they pass is a choice.                     *)

Move(s, from, to) ==
    /\ starter[s] = from
    /\ starter' = [starter EXCEPT ![s] = to]

StartRead(s) ==
    /\ Move(s, "idle", IF scan \in {"pending", "failed"} THEN "read" ELSE "done")
    /\ UNCHANGED <<scan, label, step, phase, run, ingest>>

StartDenied(s) ==
    /\ Move(s, "read", "done")
    /\ scan' = "failed"
    /\ UNCHANGED <<label, step, phase, run, ingest>>

MarkRunning(s) ==
    /\ Move(s, "read", "marked")
    /\ scan' = "running"
    /\ label' = "enqueue_baseline_tools"
    /\ UNCHANGED <<step, phase, run, ingest>>

EnqueueRead(s) ==
    /\ Move(s, "marked", IF scan = "running" THEN "enqueueing" ELSE "done")
    /\ UNCHANGED <<scan, label, step, phase, run, ingest>>

\* A gate denies a tool: the transaction rolls back, and the scan fails.
EnqueueDenied(s) ==
    /\ Move(s, "enqueueing", "done")
    /\ scan' = "failed"
    /\ UNCHANGED <<label, step, phase, run, ingest>>

Missing == {k \in Steps : step[k] = "absent"}

\* Mutant: each tool is enqueued in a transaction of its own.
EnqueueOne(s) ==
    /\ \E k \in Missing :
          /\ IF Missing = {k} THEN Move(s, "enqueueing", "created")
             ELSE Move(s, "enqueueing", "enqueueing")
          /\ step' = [step EXCEPT ![k] = "queued"]
          /\ Job!Open({k})
    /\ UNCHANGED <<scan, label, ingest>>

\* One transaction, with the scan's row locked.
Enqueue(s) ==
    /\ Move(s, "enqueueing", "created")
    /\ step' = [k \in Steps |-> IF k \in Missing THEN "queued" ELSE step[k]]
    /\ IF Missing = {} THEN UNCHANGED <<phase, run>> ELSE Job!Open(Missing)
    /\ UNCHANGED <<scan, label, ingest>>

\* Mutant: the request saves all of the scan it has read, not one field.
LabelSavesScan(s) ==
    /\ Move(s, "created", "done")
    /\ scan' = "running"
    /\ label' = "waiting_for_agent_results"
    /\ UNCHANGED <<step, phase, run, ingest>>

\* Outside the transaction, but only this field is saved.
Label(s) ==
    /\ Move(s, "created", "done")
    /\ label' = "waiting_for_agent_results"
    /\ UNCHANGED <<scan, step, phase, run, ingest>>

\* The request dies between two of its transactions.
StarterDies(s) ==
    /\ starter[s] \notin {"idle", "done"}
    /\ starter' = [starter EXCEPT ![s] = "done"]
    /\ UNCHANGED <<scan, label, step, phase, run, ingest>>

-----------------------------------------------------------------------------
(* What happens to the jobs.                                               *)

\* Mutant: only a success is ingested.
SubmitIngestsSuccess(k) ==
    /\ \E s \in Job!Results :
          /\ Job!Settle(k, s)
          /\ ingest' = IF s = "succeeded"
                       THEN [ingest EXCEPT ![k].phase = "called"] ELSE ingest
    /\ UNCHANGED <<scan, label, step, starter>>

\* job_result: the result is recorded, then the request ingests.
Submit(k) ==
    /\ \E s \in Job!Results : Job!Settle(k, s)
    /\ ingest' = [ingest EXCEPT ![k].phase = "called"]
    /\ UNCHANGED <<scan, label, step, starter>>

\* job_result after the claim has expired: the timeout is recorded, but the
\* error that submit_job_result raises comes before the ingestion.
Expire(k) ==
    /\ Job!Settle(k, "timeout")
    /\ UNCHANGED <<scan, label, step, starter, ingest>>

\* The job is closed without a result; no request is there to ingest.
Discard(k) ==
    /\ Job!Discard(k)
    /\ UNCHANGED <<scan, label, step, starter, ingest>>

-----------------------------------------------------------------------------
(* ingest_completed_tool_runs, in the request that recorded k's result.    *)

\* A run that has a result keeps it (TerminalIsFinal), so that reading it
\* again when its step is saved gives what was read here.
Finished == {t \in Steps : step[t] # "absent" /\ run[t] \in Job!Results}

IngestRead(k) ==
    /\ ingest[k].phase = "called"
    /\ ingest' = [ingest EXCEPT ![k].phase = "saving", ![k].todo = Finished]
    /\ UNCHANGED <<scan, label, step, phase, run, starter>>

SaveStep(k) ==
    /\ ingest[k].phase = "saving"
    /\ \E t \in ingest[k].todo :
          /\ step' = [step EXCEPT ![t] =
                        IF run[t] = "succeeded" THEN "succeeded" ELSE "failed"]
          /\ ingest' = [ingest EXCEPT ![k].todo = @ \ {t}]
    /\ UNCHANGED <<scan, label, phase, run, starter>>

\* The steps are read again: all there are have succeeded, or one has failed.
Existing == {t \in Steps : step[t] # "absent"}

Verdict ==
    IF Existing # {} /\ \A t \in Existing : step[t] = "succeeded" THEN "succeeded"
    ELSE IF \E t \in Existing : step[t] = "failed" THEN "failed" ELSE "none"

Judge(k) ==
    /\ ingest[k].phase = "saving"
    /\ ingest[k].todo = {}
    /\ ingest' = [ingest EXCEPT
                    ![k].phase = IF Verdict = "none" THEN "done" ELSE "judged",
                    ![k].verdict = Verdict]
    /\ UNCHANGED <<scan, label, step, phase, run, starter>>

\* Saved without looking at the scan's status again.
SaveVerdict(k) ==
    /\ ingest[k].phase = "judged"
    /\ scan' = ingest[k].verdict
    /\ label' = IF ingest[k].verdict = "succeeded" THEN "completed" ELSE label
    /\ ingest' = [ingest EXCEPT ![k].phase = "done"]
    /\ UNCHANGED <<step, phase, run, starter>>

\* The request dies, or the data of a result raises an exception, which
\* job_result swallows.
IngestAborts(k) ==
    /\ ingest[k].phase \in {"called", "saving", "judged"}
    /\ ingest' = [ingest EXCEPT ![k].phase = "done", ![k].todo = {}]
    /\ UNCHANGED <<scan, label, step, phase, run, starter>>

-----------------------------------------------------------------------------

Start(s) ==
    \/ StartRead(s) \/ StartDenied(s) \/ MarkRunning(s) \/ EnqueueRead(s)
    \/ EnqueueDenied(s) \/ Enqueue(s) \/ Label(s)

Ingest(k) == IngestRead(k) \/ SaveStep(k) \/ Judge(k) \/ SaveVerdict(k)

Failure ==
    \/ \E s \in Starters : StarterDies(s)
    \/ \E k \in Steps : Expire(k) \/ Discard(k) \/ IngestAborts(k)

Progress ==
    \/ \E s \in Starters : Start(s)
    \/ \E k \in Steps : Submit(k) \/ Ingest(k)

Next == Progress \/ Failure

Spec == Init /\ [][Next]_vars

-----------------------------------------------------------------------------
(* Properties *)

\* A scan that is reported as succeeded has run every tool of its profile and
\* each of them succeeded, whoever started it, however often, and in whatever
\* order the results came and were ingested.
SucceededMeansAll ==
    scan = "succeeded" => \A k \in Steps : run[k] = "succeeded"

\* A step shows a result only when its ToolRun has it, although ingestions
\* overlap and store the steps from what each of them read before.
StepsFollowRuns ==
    \A k \in Steps :
        /\ step[k] = "succeeded" => run[k] = "succeeded"
        /\ step[k] = "failed" => run[k] \in Job!Results \ {"succeeded"}
        /\ step[k] = "absent" <=> phase[k] = "absent"

=============================================================================
