------------------------------ MODULE AgentJobs ------------------------------
(***************************************************************************)
(* The agent job protocol of the scanner control plane: jobs are created   *)
(* by the services (apps/tools/services.py), polled and claimed, executed  *)
(* and answered by the scanner runtimes (scanner_runtime/prototype.py)     *)
(* over HTTP, and settled by the API (apps/servers/services.py, views.py). *)
(*                                                                         *)
(* An HTTP request is three steps of its own (sent, authenticated,         *)
(* handled), because authenticate_agent_token reads the agent before the   *)
(* handler's transaction begins and nothing locks it.  A handler's         *)
(* transaction holds the row lock of the one job it changes, so it is one  *)
(* action.  Requests and responses are lost or delayed, runtimes give up   *)
(* on a request, crash and restart; a request given up may still be        *)
(* handled later.                                                          *)
(*                                                                         *)
(* Time.  A claim is described by the time it has left (claim_expires_at   *)
(* minus now): ClaimExpiry when granted, 0 at the very instant of expiry,  *)
(* -1 once that instant has passed.  Everything that refers to a claim (a  *)
(* worker, a message) carries the time that claim has left as well; this   *)
(* is history, the program never looks at it.                              *)
(***************************************************************************)
EXTENDS Integers, Sequences, FiniteSets

CONSTANTS
    Jobs,         \* AgentJob rows
    Agents,       \* ScannerAgent rows, one for each server
    Workers,      \* runtime processes (the service, an operator's "once")
    Requests,     \* slots for HTTP requests in flight
    Tools,        \* tool keys
    AgentOf,      \* [Jobs -> Agents], AgentJob.agent
    RunsFor,      \* [Workers -> Agents], whose token the process uses
    ToolOf,       \* [Jobs -> Tools], AgentJob.tool_key
    StaticTools,  \* tool_allowlist.ALLOWED_TOOL_KEYS
    Outcomes,     \* the result statuses execute_job returns for these tools
    Oversized,    \* jobs whose output exceeds AgentJob.max_output_bytes
    ClaimExpiry,  \* DEFAULT_CLAIM_EXPIRY, in ticks of the clock
    NoJob         \* the empty answer of the next-job endpoint

ASSUME JobsAssumption ==
    /\ AgentOf \in [Jobs -> Agents]
    /\ RunsFor \in [Workers -> Agents]
    /\ ToolOf \in [Jobs -> Tools]
    /\ StaticTools \subseteq Tools
    /\ Oversized \subseteq Jobs
    /\ ClaimExpiry \in Nat \ {0}
    /\ Outcomes \subseteq {"succeeded", "failed", "rejected", "timeout"}
    /\ NoJob \notin Jobs

VARIABLES
    eligible,     \* [Agents -> BOOLEAN], ScannerAgent.is_active_for_api
    runnable,     \* the tools an enabled registry entry lets agents run
    job,          \* [Jobs -> [status, left]], the AgentJob rows
    queue,        \* the created jobs in created_at order
    run,          \* [Jobs -> RunStatuses], ToolRun.status of the job's run
    gated,        \* jobs whose creation passed the policy gates
    req,          \* [Requests -> the request in that slot]
    worker        \* [Workers -> what the runtime process is doing]

vars == <<eligible, runnable, job, queue, run, gated, req, worker>>

-----------------------------------------------------------------------------
(* Values *)

Results == {"succeeded", "failed", "rejected", "timeout"}

\* AgentJob.TERMINAL_STATUSES
Terminal == Results \cup {"cancelled"}

\* AgentJob.Status and "absent".  No code assigns "running".
JobStatuses == {"absent", "pending", "claimed"} \cup Terminal

RunStatuses == {"absent", "queued"} \cup Results

\* The time a claim has left; -1 stands for every instant after the expiry.
Left == -1 .. ClaimExpiry

Job == [status : JobStatuses, left : Left]

\* A request in flight.  kind: the endpoint; job, left: the claimed job the
\* answer of a poll carries, or the job a submission is about; result: the
\* status it submits.
Free == [phase |-> "free"]
Request == [phase : {"sent", "authed", "answered"},
            kind : {"poll", "submit"}, by : Workers, job : Jobs \cup {NoJob},
            result : Results, left : Left]

\* idle: between two iterations of the service loop; waiting: in urlopen();
\* executing: in execute_job(); done: its result at hand, not yet submitted.
Idle == [phase |-> "idle"]
Worker == [phase : {"waiting"}, awaits : Requests]
          \cup [phase : {"executing", "done"}, job : Jobs,
                result : Results, left : Left]

TypeOK ==
    /\ eligible \in [Agents -> BOOLEAN]
    /\ runnable \subseteq Tools
    /\ job \in [Jobs -> Job]
    /\ queue \in Seq(Jobs)
    /\ run \in [Jobs -> RunStatuses]
    /\ gated \subseteq Jobs
    /\ req \in [Requests -> Request \cup {Free}]
    /\ worker \in [Workers -> Worker \cup {Idle}]

Init ==
    /\ eligible = [a \in Agents |-> TRUE]
    /\ runnable = Tools
    /\ job = [j \in Jobs |-> [status |-> "absent", left |-> -1]]
    /\ queue = <<>>
    /\ run = [j \in Jobs |-> "absent"]
    /\ gated = {}
    /\ req = [r \in Requests |-> Free]
    /\ worker = [w \in Workers |-> Idle]

-----------------------------------------------------------------------------
(* Creation of a job (apps/tools/services.py, create_tool_run_job).  The   *)
(* gates read the agent, and the transaction that creates the rows begins  *)
(* later: the agent may be revoked in between.  What the gates decide      *)
(* about the tool itself is independent of what is_allowed_tool decides    *)
(* when the job is claimed.                                                *)

PassGates(j) ==
    /\ job[j].status = "absent"
    /\ eligible[AgentOf[j]]
    /\ gated' = gated \cup {j}
    /\ UNCHANGED <<eligible, runnable, job, queue, run, req, worker>>

CreateJob(j) ==
    /\ j \in gated
    /\ job[j].status = "absent"
    /\ gated' = gated \ {j}
    /\ job' = [job EXCEPT ![j].status = "pending"]
    /\ queue' = Append(queue, j)
    /\ run' = [run EXCEPT ![j] = "queued"]
    /\ UNCHANGED <<eligible, runnable, req, worker>>

-----------------------------------------------------------------------------
(* The runtime (scanner_runtime/prototype.py).                             *)

Send(w, r, message) ==
    /\ req[r] = Free
    /\ req' = [req EXCEPT ![r] = message]
    /\ worker' = [worker EXCEPT ![w] = [phase |-> "waiting", awaits |-> r]]
    /\ UNCHANGED <<eligible, runnable, job, queue, run, gated>>

StartPoll(w, r) ==
    /\ worker[w].phase = "idle"
    /\ Send(w, r, [phase |-> "sent", kind |-> "poll", by |-> w,
                   job |-> NoJob, result |-> "failed", left |-> -1])

StartSubmit(w, r) ==
    /\ worker[w].phase = "done"
    /\ Send(w, r, [phase |-> "sent", kind |-> "submit", by |-> w,
                   job |-> worker[w].job, result |-> worker[w].result,
                   left |-> worker[w].left])

\* The response arrives while the process still waits for it: it starts on
\* the job, or ends its iteration (no job, an error, a result delivered).
Receive(r) ==
    /\ req[r].phase = "answered"
    /\ worker[req[r].by] = [phase |-> "waiting", awaits |-> r]
    /\ worker' = [worker EXCEPT ![req[r].by] =
          IF req[r].kind = "poll" /\ req[r].job # NoJob
          THEN [phase |-> "executing", job |-> req[r].job,
                result |-> "failed", left |-> req[r].left]
          ELSE Idle]
    /\ req' = [req EXCEPT ![r] = Free]
    /\ UNCHANGED <<eligible, runnable, job, queue, run, gated>>

Execute(w) ==
    /\ worker[w].phase = "executing"
    /\ \E s \in Outcomes :
          worker' = [worker EXCEPT ![w].phase = "done", ![w].result = s]
    /\ UNCHANGED <<eligible, runnable, job, queue, run, gated, req>>

\* urlopen() times out or fails; the request may still be on its way.
GiveUp(w) ==
    /\ worker[w].phase = "waiting"
    /\ worker' = [worker EXCEPT ![w] = Idle]
    /\ UNCHANGED <<eligible, runnable, job, queue, run, gated, req>>

\* The process dies, or an exception ends its iteration: nothing of the job
\* in hand is stored on the server.
Restart(w) ==
    /\ worker[w].phase \in {"executing", "done"}
    /\ worker' = [worker EXCEPT ![w] = Idle]
    /\ UNCHANGED <<eligible, runnable, job, queue, run, gated, req>>

-----------------------------------------------------------------------------
(* The API (apps/servers/views.py and services.py).                        *)

\* authenticate_agent_token; the agent it returns is not read again.
Authenticate(r) ==
    /\ req[r].phase = "sent"
    /\ req' = [req EXCEPT ![r].phase =
          IF eligible[RunsFor[req[r].by]] THEN "authed" ELSE "answered"]
    /\ UNCHANGED <<eligible, runnable, job, queue, run, gated, worker>>

IsAllowedTool(t) == t \in runnable \cup StaticTools

\* Mutant: a claimed job is handed out whether its claim has expired or not.
ClaimableUnexpired(a, j) == AgentOf[j] = a /\ job[j].status \in {"pending", "claimed"}

\* Mutant: a job that timed out is retried.
ClaimableTimedOut(a, j) ==
    /\ AgentOf[j] = a
    /\ \/ job[j].status \in {"pending", "timeout"}
       \/ job[j].status = "claimed" /\ job[j].left < 0

\* Mutant: an expired claim does not give the job back.
ClaimableOnce(a, j) == AgentOf[j] = a /\ job[j].status = "pending"

Claimable(a, j) ==
    /\ AgentOf[j] = a
    /\ \/ job[j].status = "pending"
       \/ job[j].status = "claimed" /\ job[j].left < 0

\* The job claim_next_job selects for agent a: the oldest claimable one.  (A
\* row that another handler has locked is skipped: that handler leaves it
\* unclaimable, so the two are as if one came after the other.)
Selects(a, j) ==
    \E i \in DOMAIN queue :
        /\ queue[i] = j
        /\ Claimable(a, j)
        /\ \A k \in 1 .. (i - 1) : ~ Claimable(a, queue[k])

AnswerNoJob(r) ==
    /\ req' = [req EXCEPT ![r].phase = "answered"]
    /\ UNCHANGED <<eligible, runnable, queue, run, gated, worker>>

FindNoJob(r) ==
    /\ req[r].phase = "authed" /\ req[r].kind = "poll"
    /\ \A j \in Jobs : ~ Selects(RunsFor[req[r].by], j)
    /\ AnswerNoJob(r)
    /\ UNCHANGED job

Claim(r) ==
    /\ req[r].phase = "authed" /\ req[r].kind = "poll"
    /\ \E j \in Jobs :
        /\ Selects(RunsFor[req[r].by], j)
        /\ IsAllowedTool(ToolOf[j])
        /\ job' = [job EXCEPT ![j] = [status |-> "claimed", left |-> ClaimExpiry]]
        /\ req' = [req EXCEPT ![r].phase = "answered", ![r].job = j,
                              ![r].left = ClaimExpiry]
    /\ UNCHANGED <<eligible, runnable, queue, run, gated, worker>>

\* The tool is not allowlisted any more: the job is closed, the runtime is
\* told there is no job, and the ToolRun is not updated.
RejectOnClaim(r) ==
    /\ req[r].phase = "authed" /\ req[r].kind = "poll"
    /\ \E j \in Jobs :
        /\ Selects(RunsFor[req[r].by], j)
        /\ ~ IsAllowedTool(ToolOf[j])
        /\ job' = [job EXCEPT ![j].status = "rejected"]
    /\ AnswerNoJob(r)

\* submit_job_result's errors that leave the job as it is.
Refused(a, j, s) ==
    \/ AgentOf[j] # a
    \/ job[j].status # "claimed"
    \/ job[j].left > 0 /\ s = "succeeded" /\ j \in Oversized

\* Mutant: a claimed job whose result is too large is put back for a retry.
RefuseAndRequeue(r) ==
    /\ req[r].phase = "authed" /\ req[r].kind = "submit"
    /\ Refused(RunsFor[req[r].by], req[r].job, req[r].result)
    /\ job' = [job EXCEPT ![req[r].job].status =
          IF @ = "claimed" THEN "pending" ELSE @]
    /\ req' = [req EXCEPT ![r].phase = "answered"]
    /\ UNCHANGED <<eligible, runnable, queue, run, gated, worker>>

RefuseResult(r) ==
    /\ req[r].phase = "authed" /\ req[r].kind = "submit"
    /\ Refused(RunsFor[req[r].by], req[r].job, req[r].result)
    /\ req' = [req EXCEPT ![r].phase = "answered"]
    /\ UNCHANGED <<eligible, runnable, job, queue, run, gated, worker>>

\* Mutant: an expired claim closes the job and forgets its ToolRun.
AcceptWithoutMirror(r) ==
    /\ req[r].phase = "authed" /\ req[r].kind = "submit"
    /\ ~ Refused(RunsFor[req[r].by], req[r].job, req[r].result)
    /\ LET j == req[r].job
           late == job[j].left <= 0
           s == IF late THEN "timeout" ELSE req[r].result
       IN  /\ job' = [job EXCEPT ![j].status = s]
           /\ run' = IF late THEN run ELSE [run EXCEPT ![j] = s]
    /\ req' = [req EXCEPT ![r].phase = "answered"]
    /\ UNCHANGED <<eligible, runnable, queue, gated, worker>>

\* The claim has expired (the job becomes "timeout", whatever the result), or
\* it has not and the result is recorded; update_tool_run_from_job copies the
\* status to the ToolRun in the same transaction.
AcceptResult(r) ==
    /\ req[r].phase = "authed" /\ req[r].kind = "submit"
    /\ ~ Refused(RunsFor[req[r].by], req[r].job, req[r].result)
    /\ LET j == req[r].job
           s == IF job[j].left <= 0 THEN "timeout" ELSE req[r].result
       IN  /\ job' = [job EXCEPT ![j].status = s]
           /\ run' = [run EXCEPT ![j] = s]
    /\ req' = [req EXCEPT ![r].phase = "answered"]
    /\ UNCHANGED <<eligible, runnable, queue, gated, worker>>

-----------------------------------------------------------------------------
(* The environment.                                                        *)

\* The request, its handler (before the commit) or its response is lost.
Lose(r) ==
    /\ req[r] # Free
    /\ req' = [req EXCEPT ![r] = Free]
    /\ UNCHANGED <<eligible, runnable, job, queue, run, gated, worker>>

Elapsed(left) == IF left < 0 THEN left ELSE left - 1

Tick ==
    /\ job' = [j \in Jobs |-> [job[j] EXCEPT !.left = Elapsed(@)]]
    /\ req' = [r \in Requests |-> IF req[r] = Free THEN Free
                                  ELSE [req[r] EXCEPT !.left = Elapsed(@)]]
    /\ worker' = [w \in Workers |->
          IF worker[w].phase \in {"executing", "done"}
          THEN [worker[w] EXCEPT !.left = Elapsed(@)] ELSE worker[w]]
    /\ UNCHANGED <<eligible, runnable, queue, run, gated>>

\* An administrator revokes, suspends, archives or restores what
\* is_active_for_api looks at.
AdminToggleAgent(a) ==
    /\ eligible' = [eligible EXCEPT ![a] = ~ @]
    /\ UNCHANGED <<runnable, job, queue, run, gated, req, worker>>

\* An administrator edits the registry entry, template or policy of a tool;
\* a static tool stays allowed whatever the registry says.
AdminToggleTool(t) ==
    /\ runnable' = IF t \in runnable THEN runnable \ {t} ELSE runnable \cup {t}
    /\ UNCHANGED <<eligible, job, queue, run, gated, req, worker>>

\* The admin site's AgentJob form, used to stop a job: only it assigns
\* "cancelled".  (The form could overwrite any field of any job.)
AdminCancelJob(j) ==
    /\ job[j].status \in {"pending", "claimed"}
    /\ job' = [job EXCEPT ![j].status = "cancelled"]
    /\ UNCHANGED <<eligible, runnable, queue, run, gated, req, worker>>

-----------------------------------------------------------------------------

Handle(r) ==
    \/ FindNoJob(r) \/ Claim(r) \/ RejectOnClaim(r)
    \/ RefuseResult(r) \/ AcceptResult(r)

Next ==
    \/ \E j \in Jobs : PassGates(j) \/ CreateJob(j) \/ AdminCancelJob(j)
    \/ \E w \in Workers : Execute(w) \/ GiveUp(w) \/ Restart(w)
    \/ \E w \in Workers, r \in Requests : StartPoll(w, r) \/ StartSubmit(w, r)
    \/ \E r \in Requests : Authenticate(r) \/ Handle(r) \/ Receive(r) \/ Lose(r)
    \/ Tick
    \/ \E a \in Agents : AdminToggleAgent(a)
    \/ \E t \in Tools \ StaticTools : AdminToggleTool(t)

Spec == Init /\ [][Next]_vars

-----------------------------------------------------------------------------
(* Properties *)

\* A ToolRun that shows a result shows the result of its job, and a job that
\* ended by a submission (succeeded, failed, timeout) has told its ToolRun.  A
\* cancelled job has not, and a rejected one only when the runtime rejected it.
RunAgrees ==
    \A j \in Jobs :
        /\ run[j] \in Results => job[j].status = run[j]
        /\ job[j].status \in Results \ {"rejected"} => run[j] = job[j].status
        /\ run[j] = "absent" <=> job[j].status = "absent"

\* A poll carries a job only once it is answered; a submission always does.
Carried ==
    \A r \in Requests : req[r] # Free =>
        /\ req[r].kind = "poll" /\ req[r].phase # "answered" => req[r].job = NoJob
        /\ req[r].kind = "submit" => req[r].job \in Jobs

\* What still refers to a claim of j: the answer of a poll on its way, the
\* worker that executes j, and the submission it sends.
AnswerHolds(r, j) ==
    /\ req[r].phase = "answered" /\ req[r].kind = "poll" /\ req[r].job = j
    /\ req[r].left > 0

SubmissionHolds(r, j) ==
    /\ req[r] # Free /\ req[r].kind = "submit" /\ req[r].job = j
    /\ req[r].left > 0

WorkerHolds(w, j) ==
    /\ worker[w].phase \in {"executing", "done"} /\ worker[w].job = j
    /\ worker[w].left > 0

\* An unexpired claim is honoured: as long as it lasts the job is claimed
\* until that very instant, or it has been closed; it is never handed out
\* again or back to pending under the worker that holds it.
Honoured(j, left) ==
    \/ job[j].status \in Terminal
    \/ job[j].status = "claimed" /\ job[j].left = left

ClaimsHonoured ==
    \A j \in Jobs :
        /\ \A w \in Workers : WorkerHolds(w, j) => Honoured(j, worker[w].left)
        /\ \A r \in Requests : AnswerHolds(r, j) \/ SubmissionHolds(r, j)
                                  => Honoured(j, req[r].left)

\* claim_next_job's row lock and expiry make a claim exclusive: two unexpired
\* claims of one job never exist at once, so two runtimes execute the same
\* job only when the first has outlived its claim.
ClaimsExclusive ==
    \A j \in Jobs :
        /\ \A v, w \in Workers : WorkerHolds(v, j) /\ WorkerHolds(w, j) => v = w
        /\ \A q, r \in Requests : AnswerHolds(q, j) /\ AnswerHolds(r, j) => q = r
        /\ \A q, r \in Requests :
              SubmissionHolds(q, j) /\ SubmissionHolds(r, j) => q = r
        /\ \A r \in Requests, w \in Workers :
              AnswerHolds(r, j) \/ SubmissionHolds(r, j) => ~ WorkerHolds(w, j)
        /\ \A q, r \in Requests : AnswerHolds(q, j) => ~ SubmissionHolds(r, j)

\* Tenant isolation of the job endpoints: what a runtime executes, submits or
\* is about to receive is a job of the server its token was issued for.
OwnServerOnly ==
    /\ \A w \in Workers : worker[w].phase \in {"executing", "done"}
          => AgentOf[worker[w].job] = RunsFor[w]
    /\ \A r \in Requests : req[r] # Free /\ req[r].job # NoJob
          => AgentOf[req[r].job] = RunsFor[req[r].by]

\* Terminal statuses are final: a repeated, delayed or reordered submission,
\* a late poll or an expired claim changes neither the job nor its ToolRun.
TerminalIsFinal ==
    [][\A j \in Jobs : job[j].status \in Terminal =>
          job'[j].status = job[j].status /\ run'[j] = run[j]]_vars

\* The protocol keeps the promise of JobLifecycle.
Phase(j) ==
    IF job[j].status = "absent" THEN "absent"
    ELSE IF job[j].status \in {"pending", "claimed"} THEN "open"
    ELSE IF run[j] = "queued" THEN "dropped" ELSE "closed"

Lifecycle == INSTANCE JobLifecycle WITH phase <- [j \in Jobs |-> Phase(j)]

ImplementsLifecycle == Lifecycle!LifecycleSpec

-----------------------------------------------------------------------------
(* Liveness.  The service loop never stops by itself, systemd restarts it, *)
(* urlopen() times out, the web server handles what it receives, and the   *)
(* clock advances: weak fairness of each.  Nothing settles a job while     *)
(* every attempt is lost, so the assumption on failures is that they cease *)
(* in the end: no request is lost or given up while the other side still   *)
(* works on it, and no process dies with a job in hand.                    *)

Awaited(r) ==
    /\ req[r] # Free
    /\ worker[req[r].by] = [phase |-> "waiting", awaits |-> r]

Failure ==
    \/ \E r \in Requests : Lose(r) /\ Awaited(r)
    \/ \E w \in Workers : \/ Restart(w)
                          \/ /\ GiveUp(w)
                             /\ \E r \in Requests : Awaited(r) /\ req[r].by = w

FailuresCease == <>[][~ Failure]_vars

Fairness ==
    /\ WF_vars(Tick)
    /\ \A w \in Workers :
          /\ WF_vars(GiveUp(w))
          /\ WF_vars(Execute(w))
          /\ WF_vars(\E r \in Requests : StartPoll(w, r) \/ StartSubmit(w, r))
    /\ \A r \in Requests :
          /\ WF_vars(Authenticate(r))
          /\ WF_vars(Handle(r))
          /\ WF_vars(Receive(r))
          /\ WF_vars(~ Awaited(r) /\ Lose(r))

FairSpec == Spec /\ Fairness /\ FailuresCease

\* Recovery: whatever was lost, given up or killed before, once failures cease
\* and while the agent stays eligible every created job is settled, by a
\* result, by its expiry, or by the allowlist.  (Checked where Oversized is
\* empty: a job whose output is always refused as too large is claimed and
\* executed again for ever, and as the oldest job it may keep the others
\* waiting when each round outlasts the claim.)
JobsSettle ==
    \A j \in Jobs :
        job[j].status = "pending" ~>
            (job[j].status \in Terminal \/ ~ eligible[AgentOf[j]])

=============================================================================
