-------------------------- MODULE AgentJobs_proofs --------------------------
(***************************************************************************)
(* Proofs about AgentJobs, for every set of jobs, agents, workers and      *)
(* request slots, every assignment of jobs and workers to agents, and      *)
(* every claim expiry.                                                     *)
(***************************************************************************)
EXTENDS AgentJobs, TLAPS, SequenceTheorems

-----------------------------------------------------------------------------
(* Typing *)

\* Every variable keeps its type, and a message names a job exactly when its
\* kind and phase say so; the second fact is needed for the first (a result
\* is recorded for the job that a submission names).
Typed == TypeOK /\ Carried

LEMMA InitTyped == Init => Typed
  <1> SUFFICES ASSUME Init PROVE Typed
    OBVIOUS
  <1>1. TypeOK
    BY JobsAssumption DEF Init, TypeOK, Job, Left, JobStatuses, RunStatuses
  <1>2. Carried
    BY DEF Init, Carried
  <1> QED
    BY <1>1, <1>2 DEF Typed

LEMMA ElapsedType ==
  ASSUME NEW t \in Left PROVE Elapsed(t) \in Left
  BY JobsAssumption DEF Left, Elapsed

LEMMA TickTyped ==
  ASSUME Typed, Tick
  PROVE  Typed'
  <1> USE DEF Typed, TypeOK, Carried
  <1>1. job' \in [Jobs -> Job]
    BY ElapsedType DEF Tick, Job
  <1>2. ASSUME NEW r \in Requests
        PROVE  /\ req'[r] \in Request \cup {Free}
               /\ req[r] = Free => req'[r] = Free
               /\ req[r] # Free => /\ req'[r].kind = req[r].kind
                                   /\ req'[r].phase = req[r].phase
                                   /\ req'[r].job = req[r].job
    <2>1. CASE req[r] = Free
      BY <2>1 DEF Tick
    <2>2. CASE req[r] # Free
      <3>1. req[r] \in Request /\ Elapsed(req[r].left) \in Left
        BY <2>2, ElapsedType DEF Request
      <3>2. req'[r] = [req[r] EXCEPT !.left = Elapsed(req[r].left)]
        BY <2>2 DEF Tick
      <3> QED
        BY <2>2, <3>1, <3>2 DEF Request
    <2> QED
      BY <2>1, <2>2
  <1>3. req' \in [Requests -> Request \cup {Free}]
    BY <1>2 DEF Tick
  <1>4. Carried'
    BY <1>2
  <1>5. ASSUME NEW w \in Workers
        PROVE  worker'[w] \in Worker \cup {Idle}
    <2>1. CASE worker[w].phase \in {"executing", "done"}
      <3>1. worker[w] \in [phase : {"executing", "done"}, job : Jobs,
                           result : Results, left : Left]
        BY <2>1 DEF Worker, Idle
      <3>2. Elapsed(worker[w].left) \in Left
        BY <3>1, ElapsedType
      <3>3. worker'[w] = [worker[w] EXCEPT !.left = Elapsed(worker[w].left)]
        BY <2>1 DEF Tick
      <3> QED
        BY <3>1, <3>2, <3>3 DEF Worker
    <2>2. CASE worker[w].phase \notin {"executing", "done"}
      BY <2>2 DEF Tick
    <2> QED
      BY <2>1, <2>2
  <1>6. worker' \in [Workers -> Worker \cup {Idle}]
    BY <1>5 DEF Tick
  <1> QED
    BY <1>1, <1>3, <1>4, <1>6 DEF Tick

\* What answering a request without a job leaves of the message.
LEMMA Answered ==
  ASSUME Typed, NEW r \in Requests, req[r].phase \in {"sent", "authed"},
         req' = [req EXCEPT ![r].phase = "answered"]
  PROVE  /\ req' \in [Requests -> Request \cup {Free}]
         /\ Carried'
         /\ req[r] # Free /\ req'[r] # Free
         /\ req'[r].phase = "answered" /\ req'[r].kind = req[r].kind
         /\ req'[r].job = req[r].job /\ req'[r].by = req[r].by
         /\ req'[r].left = req[r].left
         /\ \A q \in Requests \ {r} : req'[q] = req[q]
  BY DEF Typed, TypeOK, Carried, Request, Free

LEMMA NextTyped == Typed /\ [Next]_vars => Typed'
  <1> SUFFICES ASSUME Typed, [Next]_vars PROVE Typed'
    OBVIOUS
  <1> USE DEF Typed, TypeOK, Carried
  <1>1. ASSUME NEW j \in Jobs, PassGates(j) PROVE Typed'
    BY <1>1 DEF PassGates
  <1>2. ASSUME NEW j \in Jobs, CreateJob(j) PROVE Typed'
    <2>1. job' \in [Jobs -> Job] /\ run' \in [Jobs -> RunStatuses]
      BY <1>2 DEF CreateJob, Job, JobStatuses, RunStatuses
    <2>2. queue' \in Seq(Jobs)
      BY <1>2, AppendProperties DEF CreateJob
    <2> QED
      BY <1>2, <2>1, <2>2 DEF CreateJob
  <1>3. ASSUME NEW j \in Jobs, AdminCancelJob(j) PROVE Typed'
    <2>1. job' \in [Jobs -> Job]
      BY <1>3 DEF AdminCancelJob, Job, JobStatuses, Terminal
    <2> QED
      BY <1>3, <2>1 DEF AdminCancelJob
  <1>4. ASSUME NEW w \in Workers, Execute(w) PROVE Typed'
    <2>1. PICK s \in Outcomes :
              worker' = [worker EXCEPT ![w].phase = "done", ![w].result = s]
      BY <1>4 DEF Execute
    <2>2. worker[w] \in [phase : {"executing", "done"}, job : Jobs,
                         result : Results, left : Left]
      BY <1>4 DEF Execute, Worker, Idle
    <2>3. [worker[w] EXCEPT !.phase = "done", !.result = s]
             \in [phase : {"executing", "done"}, job : Jobs,
                  result : Results, left : Left]
      BY <2>2, JobsAssumption DEF Results
    <2>4. worker' = [worker EXCEPT
                       ![w] = [worker[w] EXCEPT !.phase = "done", !.result = s]]
      BY <2>1
    <2>5. worker' \in [Workers -> Worker \cup {Idle}]
      BY <2>3, <2>4 DEF Worker
    <2> QED
      BY <1>4, <2>5 DEF Execute
  <1>5. ASSUME NEW w \in Workers, GiveUp(w) \/ Restart(w) PROVE Typed'
    BY <1>5 DEF GiveUp, Restart
  <1>6. ASSUME NEW w \in Workers, NEW r \in Requests, StartPoll(w, r)
        PROVE  Typed'
    BY <1>6, JobsAssumption DEF StartPoll, Send, Request, Free, Worker, Results, Left
  <1>7. ASSUME NEW w \in Workers, NEW r \in Requests, StartSubmit(w, r)
        PROVE  Typed'
    BY <1>7 DEF StartSubmit, Send, Request, Free, Worker, Idle
  <1>8. ASSUME NEW r \in Requests, Receive(r) PROVE Typed'
    BY <1>8, JobsAssumption DEF Receive, Request, Free, Worker, Idle, Results
  <1>9. ASSUME NEW r \in Requests, Authenticate(r) PROVE Typed'
    BY <1>9, JobsAssumption DEF Authenticate, Request, Free
  <1>10. ASSUME NEW r \in Requests, Lose(r) PROVE Typed'
    BY <1>10 DEF Lose
  <1>11. ASSUME NEW r \in Requests, FindNoJob(r) \/ RefuseResult(r)
         PROVE  Typed'
    BY <1>11 DEF FindNoJob, AnswerNoJob, RefuseResult, Request, Free
  <1>12. ASSUME NEW r \in Requests, Claim(r) PROVE Typed'
    <2>1. PICK k \in Jobs :
              /\ job' = [job EXCEPT ![k] = [status |-> "claimed", left |-> ClaimExpiry]]
              /\ req' = [req EXCEPT ![r].phase = "answered", ![r].job = k,
                                    ![r].left = ClaimExpiry]
      BY <1>12 DEF Claim
    <2>2. ClaimExpiry \in Left
      BY JobsAssumption DEF Left
    <2>3. job' \in [Jobs -> Job]
      BY <2>1, <2>2 DEF Job, JobStatuses
    <2>4. req[r] \in Request /\ req[r].kind = "poll"
      BY <1>12 DEF Claim, Free
    <2>5. [req[r] EXCEPT !.phase = "answered", !.job = k, !.left = ClaimExpiry]
             \in Request
      BY <2>2, <2>4 DEF Request
    <2>6. req' = [req EXCEPT ![r] = [req[r] EXCEPT !.phase = "answered",
                                        !.job = k, !.left = ClaimExpiry]]
      BY <2>1
    <2>7. req' \in [Requests -> Request \cup {Free}]
      BY <2>5, <2>6
    <2>8. Carried'
      BY <2>4, <2>5, <2>6 DEF Request
    <2> QED
      BY <1>12, <2>3, <2>7, <2>8 DEF Claim
  <1>13. ASSUME NEW r \in Requests, RejectOnClaim(r) PROVE Typed'
    <2>1. job' \in [Jobs -> Job]
      <3>1. PICK j \in Jobs : job' = [job EXCEPT ![j].status = "rejected"]
        BY <1>13 DEF RejectOnClaim
      <3>2. [job[j] EXCEPT !.status = "rejected"] \in Job
        BY DEF Job, JobStatuses, Terminal, Results
      <3> QED
        BY <3>1, <3>2
    <2>2. req' \in [Requests -> Request \cup {Free}] /\ Carried'
      BY <1>13, Answered DEF RejectOnClaim, AnswerNoJob
    <2> QED
      BY <1>13, <2>1, <2>2 DEF RejectOnClaim, AnswerNoJob
  <1>14. ASSUME NEW r \in Requests, AcceptResult(r) PROVE Typed'
    <2>1. req[r] \in Request /\ req[r].kind = "submit" /\ req[r].job \in Jobs
      BY <1>14 DEF AcceptResult, Free
    <2> DEFINE s == IF job[req[r].job].left <= 0 THEN "timeout" ELSE req[r].result
    <2>2. s \in Results
      BY <2>1 DEF Request, Results
    <2>3. /\ job' = [job EXCEPT ![req[r].job].status = s]
          /\ run' = [run EXCEPT ![req[r].job] = s]
      BY <1>14 DEF AcceptResult
    <2> HIDE DEF s
    <2>4. job' \in [Jobs -> Job] /\ run' \in [Jobs -> RunStatuses]
      BY <2>1, <2>2, <2>3 DEF Job, JobStatuses, Terminal, RunStatuses
    <2>5. req' \in [Requests -> Request \cup {Free}] /\ Carried'
      BY <1>14, Answered DEF AcceptResult
    <2> QED
      BY <1>14, <2>4, <2>5 DEF AcceptResult
  <1>15. CASE Tick
    BY <1>15, TickTyped
  <1>16. ASSUME NEW a \in Agents, AdminToggleAgent(a) PROVE Typed'
    BY <1>16 DEF AdminToggleAgent
  <1>17. ASSUME NEW t \in Tools, AdminToggleTool(t) PROVE Typed'
    BY <1>17 DEF AdminToggleTool
  <1>18. CASE UNCHANGED vars
    BY <1>18 DEF vars
  <1> QED
    BY <1>1, <1>2, <1>3, <1>4, <1>5, <1>6, <1>7, <1>8, <1>9, <1>10, <1>11,
       <1>12, <1>13, <1>14, <1>15, <1>16, <1>17, <1>18 DEF Next, Handle

\* Type correctness of the protocol (TypeOK), for all its parameters.
THEOREM TypeCorrect == Spec => [](TypeOK /\ Carried)
  <1>1. Init => Typed
    BY InitTyped
  <1>2. Typed /\ [Next]_vars => Typed'
    BY NextTyped
  <1> QED
    BY <1>1, <1>2, PTL DEF Spec, Typed

-----------------------------------------------------------------------------
(* The jobs and their ToolRuns *)

\* What a step does to one job: it is created, claimed, closed without a
\* result, closed by a result, or keeps its status; its ToolRun changes only
\* when the job is created or a result recorded.
JobStep(j) ==
    \/ /\ job[j].status = "absent" /\ job'[j].status = "pending"
       /\ run'[j] = "queued"
    \/ /\ job[j].status \in {"pending", "claimed"}
       /\ job'[j].status \in {"claimed", "rejected", "cancelled"}
       /\ run'[j] = run[j]
    \/ /\ job[j].status = "claimed" /\ job'[j].status \in Results
       /\ run'[j] = job'[j].status
    \/ job'[j].status = job[j].status /\ run'[j] = run[j]

LEMMA EveryJobStep ==
  ASSUME Typed, [Next]_vars, NEW j \in Jobs
  PROVE  JobStep(j)
  <1> USE DEF Typed, TypeOK
  <1>1. CASE UNCHANGED <<job, run>>
    BY <1>1 DEF JobStep
  <1>2. ASSUME NEW k \in Jobs, CreateJob(k) PROVE JobStep(j)
    BY <1>2 DEF CreateJob, JobStep, Job
  <1>3. ASSUME NEW k \in Jobs, AdminCancelJob(k) PROVE JobStep(j)
    BY <1>3 DEF AdminCancelJob, JobStep, Job
  <1>4. ASSUME NEW r \in Requests, Claim(r) PROVE JobStep(j)
    BY <1>4 DEF Claim, Selects, Claimable, JobStep, Job
  <1>5. ASSUME NEW r \in Requests, RejectOnClaim(r) PROVE JobStep(j)
    BY <1>5 DEF RejectOnClaim, AnswerNoJob, Selects, Claimable, JobStep, Job
  <1>6. ASSUME NEW r \in Requests, AcceptResult(r) PROVE JobStep(j)
    <2>1. req[r] \in Request /\ req[r].job \in Jobs
      BY <1>6 DEF AcceptResult, Free, Carried
    <2> DEFINE s == IF job[req[r].job].left <= 0 THEN "timeout" ELSE req[r].result
    <2>2. s \in Results
      BY <2>1 DEF Request, Results
    <2>3. /\ job' = [job EXCEPT ![req[r].job].status = s]
          /\ run' = [run EXCEPT ![req[r].job] = s]
          /\ job[req[r].job].status = "claimed"
      BY <1>6 DEF AcceptResult, Refused
    <2> HIDE DEF s
    <2> QED
      BY <2>1, <2>2, <2>3 DEF JobStep, Job
  <1>7. CASE Tick
    BY <1>7 DEF Tick, JobStep, Job
  <1> QED
    BY <1>1, <1>2, <1>3, <1>4, <1>5, <1>6, <1>7
       DEF Next, Handle, vars, PassGates, Execute, GiveUp, Restart, StartPoll,
           StartSubmit, Send, Authenticate, FindNoJob, AnswerNoJob, RefuseResult,
           Receive, Lose, AdminToggleAgent, AdminToggleTool

LEMMA NextRunAgrees == Typed /\ RunAgrees /\ [Next]_vars => RunAgrees'
  <1> SUFFICES ASSUME Typed, RunAgrees, [Next]_vars, NEW j \in Jobs
               PROVE  /\ run'[j] \in Results => job'[j].status = run'[j]
                      /\ job'[j].status \in Results \ {"rejected"}
                            => run'[j] = job'[j].status
                      /\ run'[j] = "absent" <=> job'[j].status = "absent"
    BY DEF RunAgrees
  <1>1. JobStep(j)
    BY EveryJobStep
  <1> QED
    BY <1>1 DEF JobStep, RunAgrees, Results

\* The ToolRun that the services read never shows a result its AgentJob does
\* not have, and shows every result that was submitted (RunAgrees).
THEOREM RunAgreesHolds == Spec => []RunAgrees
  <1>1. Init => RunAgrees
    BY DEF Init, RunAgrees, Results
  <1>2. Typed /\ RunAgrees /\ [Next]_vars => RunAgrees'
    BY NextRunAgrees
  <1> QED
    BY <1>1, <1>2, TypeCorrect, PTL DEF Spec, Typed

\* Terminal statuses are final, whatever is repeated, delayed or reordered
\* (TerminalIsFinal).
THEOREM TerminalIsFinalHolds == Spec => TerminalIsFinal
  <1>1. ASSUME Typed, [Next]_vars, NEW j \in Jobs, job[j].status \in Terminal
        PROVE  job'[j].status = job[j].status /\ run'[j] = run[j]
    BY <1>1, EveryJobStep DEF JobStep, Terminal, Results
  <1>2. Typed /\ [Next]_vars =>
          [\A j \in Jobs : job[j].status \in Terminal =>
              job'[j].status = job[j].status /\ run'[j] = run[j]]_vars
    BY <1>1
  <1> QED
    BY <1>2, TypeCorrect, PTL DEF Spec, Typed, TerminalIsFinal

-----------------------------------------------------------------------------
(* The implementation of JobLifecycle *)

LEMMA LifecycleStep ==
  ASSUME Typed, RunAgrees, [Next]_vars
  PROVE  [Lifecycle!LifecycleNext]_(Lifecycle!lifecycleVars)
  <1> DEFINE ph == [j \in Jobs |-> Phase(j)]
  <1> USE DEF Typed, TypeOK
  <1>1. ASSUME NEW S, NEW k \in Jobs, ph'[k] = S,
               \A j \in Jobs \ {k} : Phase(j)' = Phase(j)
        PROVE  ph' = [ph EXCEPT ![k] = S]
    BY <1>1
  <1>2. ASSUME NEW k \in Jobs, CreateJob(k) PROVE Lifecycle!Open({k})
    <2>1. /\ job[k].status = "absent"
          /\ job' = [job EXCEPT ![k].status = "pending"]
          /\ run' = [run EXCEPT ![k] = "queued"]
      BY <1>2 DEF CreateJob
    <2>2. ph[k] = "absent"
      BY <2>1 DEF Phase
    <2>3. ph' = [j \in Jobs |-> IF j \in {k} THEN "open" ELSE ph[j]]
      BY <2>1 DEF Phase, Job
    <2>4. run' = [j \in Jobs |-> IF j \in {k} THEN "queued" ELSE run[j]]
      BY <2>1
    <2> QED
      BY <2>2, <2>3, <2>4 DEF Lifecycle!Open
  <1>3. ASSUME NEW k \in Jobs, job[k].status \in {"pending", "claimed"},
               NEW s \in {"rejected", "cancelled"},
               job' = [job EXCEPT ![k].status = s], run' = run
        PROVE  Lifecycle!Discard(k)
    <2>1. run[k] = "queued"
      BY <1>3 DEF RunAgrees, RunStatuses, Results
    <2>2. \A j \in Jobs \ {k} : Phase(j)' = Phase(j)
      BY <1>3 DEF Phase
    <2>3. ph[k] = "open" /\ ph'[k] = "dropped"
      BY <1>3, <2>1 DEF Phase, Job
    <2> QED
      BY <1>1, <1>3, <2>2, <2>3 DEF Lifecycle!Discard
  <1>4. ASSUME NEW k \in Jobs, AdminCancelJob(k) PROVE Lifecycle!Discard(k)
    BY <1>3, <1>4 DEF AdminCancelJob
  <1>5. ASSUME NEW r \in Requests, RejectOnClaim(r)
        PROVE  \E k \in Jobs : Lifecycle!Discard(k)
    <2>1. PICK k \in Jobs : /\ Selects(RunsFor[req[r].by], k)
                            /\ job' = [job EXCEPT ![k].status = "rejected"]
      BY <1>5 DEF RejectOnClaim
    <2>2. job[k].status \in {"pending", "claimed"} /\ run' = run
      BY <1>5, <2>1 DEF RejectOnClaim, AnswerNoJob, Selects, Claimable
    <2> QED
      BY <1>3, <2>1, <2>2
  <1>6. ASSUME NEW r \in Requests, AcceptResult(r)
        PROVE  \E k \in Jobs, s \in Lifecycle!Results : Lifecycle!Settle(k, s)
    <2>1. req[r] \in Request /\ req[r].job \in Jobs
      BY <1>6 DEF AcceptResult, Free, Carried
    <2> DEFINE k == req[r].job
               s == IF job[k].left <= 0 THEN "timeout" ELSE req[r].result
    <2>2. s \in Results
      BY <2>1 DEF Request, Results
    <2>3. /\ job' = [job EXCEPT ![k].status = s]
          /\ run' = [run EXCEPT ![k] = s]
          /\ job[k].status = "claimed"
      BY <1>6 DEF AcceptResult, Refused
    <2> HIDE DEF s, k
    <2>4. k \in Jobs
      BY <2>1 DEF k
    <2>5. \A j \in Jobs \ {k} : Phase(j)' = Phase(j)
      BY <2>3, <2>4 DEF Phase
    <2>6. ph[k] = "open" /\ ph'[k] = "closed"
      BY <2>2, <2>3, <2>4 DEF Phase, Job, Results
    <2>7. s \in Lifecycle!Results
      BY <2>2 DEF Results, Lifecycle!Results
    <2> QED
      BY <1>1, <2>3, <2>4, <2>5, <2>6, <2>7 DEF Lifecycle!Settle
  <1>7. ASSUME NEW r \in Requests, Claim(r) PROVE ph' = ph /\ run' = run
    <2>1. PICK k \in Jobs :
            /\ Selects(RunsFor[req[r].by], k)
            /\ job' = [job EXCEPT ![k] = [status |-> "claimed", left |-> ClaimExpiry]]
      BY <1>7 DEF Claim
    <2>2. job[k].status \in {"pending", "claimed"}
      BY <2>1 DEF Selects, Claimable
    <2>3. \A j \in Jobs : Phase(j)' = Phase(j)
      BY <1>7, <2>1, <2>2 DEF Claim, Phase
    <2> QED
      BY <1>7, <2>3 DEF Claim
  <1>8. CASE Tick
    <2>1. \A j \in Jobs : Phase(j)' = Phase(j)
      BY <1>8 DEF Tick, Phase, Job
    <2>2. ph' = ph /\ run' = run
      BY <1>8, <2>1 DEF Tick
    <2> QED
      BY <2>2 DEF Lifecycle!lifecycleVars
  <1>9. CASE UNCHANGED <<job, run>>
    <2>1. ph' = ph
      BY <1>9 DEF Phase
    <2> QED
      BY <1>9, <2>1 DEF Lifecycle!lifecycleVars
  <1> QED
    BY <1>2, <1>4, <1>5, <1>6, <1>7, <1>8, <1>9
       DEF Next, Handle, vars, PassGates, Execute, GiveUp, Restart, StartPoll,
           StartSubmit, Send, Authenticate, FindNoJob, AnswerNoJob, RefuseResult,
           Receive, Lose, AdminToggleAgent, AdminToggleTool,
           Lifecycle!LifecycleNext, Lifecycle!lifecycleVars

\* The protocol implements the abstract life cycle that its callers rely on
\* (ImplementsLifecycle).
THEOREM LifecycleImplemented == Spec => ImplementsLifecycle
  <1>1. Init => Lifecycle!LifecycleInit
    BY DEF Init, Lifecycle!LifecycleInit, Phase
  <1>2. Typed /\ RunAgrees /\ [Next]_vars
          => [Lifecycle!LifecycleNext]_(Lifecycle!lifecycleVars)
    BY LifecycleStep
  <1> QED
    BY <1>1, <1>2, TypeCorrect, RunAgreesHolds, PTL
       DEF Spec, Typed, ImplementsLifecycle, Lifecycle!LifecycleSpec

-----------------------------------------------------------------------------
(* Tenant isolation *)

LEMMA NextOwnServer == Typed /\ OwnServerOnly /\ [Next]_vars => OwnServerOnly'
  <1> SUFFICES ASSUME Typed, OwnServerOnly, [Next]_vars PROVE OwnServerOnly'
    OBVIOUS
  <1> USE DEF Typed, TypeOK, OwnServerOnly
  <1>1. ASSUME NEW w \in Workers, Execute(w) \/ GiveUp(w) \/ Restart(w)
        PROVE  OwnServerOnly'
    BY <1>1 DEF Execute, GiveUp, Restart, Worker, Idle
  <1>2. ASSUME NEW w \in Workers, NEW r \in Requests, StartPoll(w, r)
        PROVE  OwnServerOnly'
    BY <1>2 DEF StartPoll, Send
  <1>3. ASSUME NEW w \in Workers, NEW r \in Requests, StartSubmit(w, r)
        PROVE  OwnServerOnly'
    BY <1>3 DEF StartSubmit, Send
  <1>4. ASSUME NEW r \in Requests, Receive(r) PROVE OwnServerOnly'
    BY <1>4 DEF Receive, Request, Free, Idle
  <1>5. ASSUME NEW r \in Requests, Lose(r) PROVE OwnServerOnly'
    BY <1>5 DEF Lose
  <1>6. ASSUME NEW r \in Requests, NEW m \in Request,
               req' = [req EXCEPT ![r] = m], worker' = worker,
               m.job # NoJob => AgentOf[m.job] = RunsFor[m.by]
        PROVE  OwnServerOnly'
    BY <1>6
  <1>7. ASSUME NEW r \in Requests, NEW p \in {"authed", "answered"}, req[r] # Free,
               req' = [req EXCEPT ![r].phase = p], worker' = worker
        PROVE  OwnServerOnly'
    <2>1. /\ [req[r] EXCEPT !.phase = p] \in Request
          /\ [req[r] EXCEPT !.phase = p].job = req[r].job
          /\ [req[r] EXCEPT !.phase = p].by = req[r].by
      BY <1>7 DEF Request
    <2>2. req' = [req EXCEPT ![r] = [req[r] EXCEPT !.phase = p]]
      BY <1>7
    <2> QED
      BY <1>6, <1>7, <2>1, <2>2
  <1>8. ASSUME NEW r \in Requests, Authenticate(r) PROVE OwnServerOnly'
    BY <1>7, <1>8 DEF Authenticate, Free
  <1>9. ASSUME NEW r \in Requests,
               FindNoJob(r) \/ RejectOnClaim(r) \/ RefuseResult(r) \/ AcceptResult(r)
        PROVE  OwnServerOnly'
    BY <1>7, <1>9
       DEF FindNoJob, RejectOnClaim, AnswerNoJob, RefuseResult, AcceptResult, Free
  <1>10. ASSUME NEW r \in Requests, Claim(r) PROVE OwnServerOnly'
    <2>1. PICK k \in Jobs :
            /\ Selects(RunsFor[req[r].by], k)
            /\ req' = [req EXCEPT ![r].phase = "answered", ![r].job = k,
                                  ![r].left = ClaimExpiry]
      BY <1>10 DEF Claim
    <2>2. AgentOf[k] = RunsFor[req[r].by]
      BY <2>1 DEF Selects, Claimable
    <2>3. req[r] \in Request /\ ClaimExpiry \in Left
      BY <1>10, JobsAssumption DEF Claim, Free, Left
    <2>4. [req[r] EXCEPT !.phase = "answered", !.job = k, !.left = ClaimExpiry]
             \in Request
      BY <2>3 DEF Request
    <2>5. req' = [req EXCEPT ![r] = [req[r] EXCEPT !.phase = "answered", !.job = k,
                                                   !.left = ClaimExpiry]]
      BY <2>1
    <2> QED
      BY <1>6, <1>10, <2>2, <2>3, <2>4, <2>5 DEF Claim, Request
  <1>11. CASE Tick
    <2>1. ASSUME NEW r \in Requests, req'[r] # Free
          PROVE  req[r] # Free /\ req'[r].job = req[r].job /\ req'[r].by = req[r].by
      BY <1>11, <2>1 DEF Tick, Request
    <2>2. ASSUME NEW w \in Workers, worker'[w].phase \in {"executing", "done"}
          PROVE  worker[w].phase \in {"executing", "done"} /\ worker'[w].job = worker[w].job
      BY <1>11, <2>2 DEF Tick, Worker, Idle
    <2> QED
      BY <2>1, <2>2
  <1>12. CASE UNCHANGED <<req, worker>>
    BY <1>12
  <1> QED
    BY <1>1, <1>2, <1>3, <1>4, <1>5, <1>8, <1>9, <1>10, <1>11, <1>12
       DEF Next, Handle, vars, PassGates, CreateJob, AdminCancelJob,
           AdminToggleAgent, AdminToggleTool

\* A runtime only ever handles jobs of the server its token was issued for
\* (OwnServerOnly).
THEOREM OwnServerOnlyHolds == Spec => []OwnServerOnly
  <1>1. Init => OwnServerOnly
    BY DEF Init, OwnServerOnly, Idle
  <1>2. Typed /\ OwnServerOnly /\ [Next]_vars => OwnServerOnly'
    BY NextOwnServer
  <1> QED
    BY <1>1, <1>2, TypeCorrect, PTL DEF Spec, Typed

-----------------------------------------------------------------------------
(* Claims: the two invariants hold each other up.  A job is claimed again   *)
(* only after its claim has expired, and then, by ClaimsHonoured, nobody    *)
(* holds an unexpired claim of it; so the new claim is the only one.        *)

Claims == ClaimsHonoured /\ ClaimsExclusive

\* A step after which nobody holds a claim that it did not hold before, and
\* which closes jobs or leaves them claimed as they were.
LEMMA ClaimsShrink ==
  ASSUME Typed, Claims,
         \A j \in Jobs, w \in Workers : WorkerHolds(w, j)'
            => WorkerHolds(w, j) /\ worker'[w].left = worker[w].left,
         \A j \in Jobs, r \in Requests : AnswerHolds(r, j)'
            => AnswerHolds(r, j) /\ req'[r].left = req[r].left,
         \A j \in Jobs, r \in Requests : SubmissionHolds(r, j)'
            => SubmissionHolds(r, j) /\ req'[r].left = req[r].left,
         \A j \in Jobs : \/ job'[j] = job[j]
                         \/ job'[j].status \in Terminal
                         \/ job[j].status = "absent"
  PROVE  Claims'
  <1>1. ASSUME NEW j \in Jobs, NEW left, Honoured(j, left)
        PROVE  Honoured(j, left)'
    BY <1>1 DEF Honoured, Terminal, Results
  <1>2. ClaimsHonoured'
    BY <1>1 DEF Claims, ClaimsHonoured
  <1>3. ClaimsExclusive'
    BY DEF Claims, ClaimsExclusive
  <1> QED
    BY <1>2, <1>3 DEF Claims

\* Answering a request, or letting it pass authentication, gives nobody a claim.
LEMMA RequestShrinks ==
  ASSUME Typed, NEW r \in Requests, req[r] # Free, NEW p \in {"authed", "answered"},
         req[r].phase \in {"sent", "authed"},
         req' = [req EXCEPT ![r].phase = p], NEW j \in Jobs, NEW q \in Requests
  PROVE  /\ AnswerHolds(q, j)' => AnswerHolds(q, j) /\ req'[q].left = req[q].left
         /\ SubmissionHolds(q, j)' => SubmissionHolds(q, j) /\ req'[q].left = req[q].left
  <1>1. CASE q = r
    <2>1. req[r] \in Request
      BY DEF Typed, TypeOK
    <2>2. req'[r] = [req[r] EXCEPT !.phase = p]
      BY DEF Typed, TypeOK
    <2>3. /\ req'[r].kind = req[r].kind /\ req'[r].job = req[r].job
          /\ req'[r].left = req[r].left
      BY <2>1, <2>2 DEF Request
    <2>4. ~ AnswerHolds(r, j)'
      <3>1. req[r].kind = "poll" => req[r].job \notin Jobs
        BY JobsAssumption DEF Typed, Carried
      <3> QED
        BY <2>3, <3>1 DEF AnswerHolds
    <2>5. SubmissionHolds(r, j)' => SubmissionHolds(r, j)
      BY <2>3 DEF SubmissionHolds
    <2> QED
      BY <1>1, <2>3, <2>4, <2>5
  <1>2. CASE q # r
    BY <1>2 DEF Typed, TypeOK, AnswerHolds, SubmissionHolds
  <1> QED
    BY <1>1, <1>2

LEMMA ClaimClaims ==
  ASSUME Typed, Claims, NEW r \in Requests, Claim(r)
  PROVE  Claims'
  <1>1. PICK k \in Jobs :
          /\ Selects(RunsFor[req[r].by], k)
          /\ job' = [job EXCEPT ![k] = [status |-> "claimed", left |-> ClaimExpiry]]
          /\ req' = [req EXCEPT ![r].phase = "answered", ![r].job = k,
                                ![r].left = ClaimExpiry]
    BY DEF Claim
  <1>2. job[k].status = "pending" \/ (job[k].status = "claimed" /\ job[k].left < 0)
    BY <1>1 DEF Selects, Claimable
  <1>3. req[r] # Free /\ req[r].kind = "poll" /\ req[r].job = NoJob /\ worker' = worker
    BY DEF Claim, Typed, Carried, Free
  <1>4. ASSUME NEW left \in Left, left > 0 PROVE ~ Honoured(k, left)
    BY <1>2, <1>4 DEF Honoured, Terminal, Results, Left
  <1>5. /\ \A w \in Workers : ~ WorkerHolds(w, k)
        /\ \A q \in Requests : ~ AnswerHolds(q, k) /\ ~ SubmissionHolds(q, k)
    BY <1>4 DEF Claims, ClaimsHonoured, WorkerHolds, AnswerHolds, SubmissionHolds,
                Typed, TypeOK, Request, Worker, Idle, Free
  <1>6. req'[r] = [req[r] EXCEPT !.phase = "answered", !.job = k, !.left = ClaimExpiry]
    BY <1>1 DEF Typed, TypeOK
  <1>7. /\ req'[r].kind = "poll" /\ req'[r].job = k /\ req'[r].left = ClaimExpiry
        /\ req'[r].phase = "answered"
    BY <1>3, <1>6 DEF Typed, TypeOK, Request
  <1>8. \A q \in Requests \ {r} : req'[q] = req[q]
    BY <1>1 DEF Typed, TypeOK
  <1>9. \A j \in Jobs, w \in Workers : WorkerHolds(w, j)' <=> WorkerHolds(w, j)
    BY <1>3 DEF WorkerHolds
  <1>10. \A j \in Jobs, q \in Requests :
            /\ SubmissionHolds(q, j)' => SubmissionHolds(q, j) /\ q # r
            /\ AnswerHolds(q, j)' => \/ q = r /\ j = k
                                     \/ q # r /\ AnswerHolds(q, j)
    BY <1>7, <1>8 DEF SubmissionHolds, AnswerHolds
  <1>11. \A j \in Jobs \ {k} : job'[j] = job[j]
    BY <1>1 DEF Typed, TypeOK
  <1>12. job'[k] = [status |-> "claimed", left |-> ClaimExpiry]
    BY <1>1 DEF Typed, TypeOK
  <1>13. ClaimsHonoured'
    <2> SUFFICES ASSUME NEW j \in Jobs
                 PROVE  /\ \A w \in Workers :
                              WorkerHolds(w, j)' => Honoured(j, worker[w].left)'
                        /\ \A q \in Requests :
                              AnswerHolds(q, j)' \/ SubmissionHolds(q, j)'
                                 => Honoured(j, req[q].left)'
      BY DEF ClaimsHonoured
    <2>1. CASE j = k
      BY <1>5, <1>7, <1>9, <1>10, <1>12, <2>1 DEF Honoured
    <2>2. CASE j # k
      BY <1>3, <1>8, <1>9, <1>10, <1>11, <2>2 DEF Honoured, Claims, ClaimsHonoured
    <2> QED
      BY <2>1, <2>2
  <1>14. ClaimsExclusive'
    BY <1>5, <1>9, <1>10 DEF Claims, ClaimsExclusive
  <1> QED
    BY <1>13, <1>14 DEF Claims

LEMMA TickClaims ==
  ASSUME Typed, Claims, Tick
  PROVE  Claims'
  <1> USE DEF Typed, TypeOK
  <1>1. ASSUME NEW t \in Left, Elapsed(t) > 0 PROVE t > 0 /\ Elapsed(t) = t - 1
    BY <1>1, JobsAssumption DEF Elapsed, Left
  <1>2. ASSUME NEW j \in Jobs, NEW w \in Workers, WorkerHolds(w, j)'
        PROVE  WorkerHolds(w, j) /\ worker'[w].left = worker[w].left - 1
    <2>1. worker[w].phase \in {"executing", "done"}
      BY <1>2 DEF WorkerHolds, Tick
    <2>2. worker[w] \in [phase : {"executing", "done"}, job : Jobs,
                         result : Results, left : Left]
      BY <2>1 DEF Worker, Idle
    <2>3. worker'[w] = [worker[w] EXCEPT !.left = Elapsed(worker[w].left)]
      BY <2>1 DEF Tick
    <2>4. worker'[w].left = Elapsed(worker[w].left) /\ worker'[w].job = worker[w].job
      BY <2>2, <2>3
    <2> QED
      BY <1>1, <1>2, <2>1, <2>2, <2>4 DEF WorkerHolds
  <1>3. ASSUME NEW r \in Requests, req'[r] # Free
        PROVE  /\ req[r] # Free /\ req[r].left \in Left
               /\ req'[r].phase = req[r].phase /\ req'[r].kind = req[r].kind
               /\ req'[r].job = req[r].job /\ req'[r].left = Elapsed(req[r].left)
    BY <1>3 DEF Tick, Request
  <1>4. ASSUME NEW j \in Jobs, NEW r \in Requests
        PROVE  /\ AnswerHolds(r, j)' =>
                     AnswerHolds(r, j) /\ req'[r].left = req[r].left - 1
               /\ SubmissionHolds(r, j)' =>
                     SubmissionHolds(r, j) /\ req'[r].left = req[r].left - 1
    BY <1>1, <1>3 DEF AnswerHolds, SubmissionHolds, Free
  <1>5. ASSUME NEW j \in Jobs, NEW left \in Left, left > 0, Honoured(j, left)
        PROVE  \/ job'[j].status \in Terminal
               \/ job'[j].status = "claimed" /\ job'[j].left = left - 1
    <2>1. job'[j] = [job[j] EXCEPT !.left = Elapsed(job[j].left)] /\ job[j] \in Job
      BY <1>5 DEF Tick
    <2>2. job'[j].status = job[j].status /\ job'[j].left = Elapsed(job[j].left)
      BY <2>1 DEF Job
    <2> QED
      BY <1>5, <2>2 DEF Honoured, Elapsed, Left
  <1>6. ASSUME NEW j \in Jobs, NEW w \in Workers, WorkerHolds(w, j)
        PROVE  worker[w].left \in Left /\ worker[w].left > 0
    BY <1>6 DEF WorkerHolds, Worker, Idle
  <1>7. ASSUME NEW j \in Jobs, NEW r \in Requests, AnswerHolds(r, j) \/ SubmissionHolds(r, j)
        PROVE  req[r].left \in Left /\ req[r].left > 0
    BY <1>7 DEF AnswerHolds, SubmissionHolds, Request, Free
  <1>8. ClaimsHonoured'
    <2>1. ASSUME NEW j \in Jobs, NEW w \in Workers, WorkerHolds(w, j)'
          PROVE  Honoured(j, worker[w].left)'
      <3>1. Honoured(j, worker[w].left)
        BY <1>2, <2>1 DEF Claims, ClaimsHonoured
      <3>2. /\ worker[w].left \in Left /\ worker[w].left > 0
            /\ worker'[w].left = worker[w].left - 1
        BY <1>2, <1>6, <2>1
      <3> QED
        BY <1>5, <3>1, <3>2 DEF Honoured
    <2>2. ASSUME NEW j \in Jobs, NEW r \in Requests,
                 AnswerHolds(r, j)' \/ SubmissionHolds(r, j)'
          PROVE  Honoured(j, req[r].left)'
      <3>1. Honoured(j, req[r].left)
        BY <1>4, <2>2 DEF Claims, ClaimsHonoured
      <3>2. /\ req[r].left \in Left /\ req[r].left > 0
            /\ req'[r].left = req[r].left - 1
        BY <1>4, <1>7, <2>2
      <3> QED
        BY <1>5, <3>1, <3>2 DEF Honoured
    <2> QED
      BY <2>1, <2>2 DEF ClaimsHonoured
  <1>9. ClaimsExclusive'
    BY <1>2, <1>4 DEF Claims, ClaimsExclusive
  <1> QED
    BY <1>8, <1>9 DEF Claims

\* A claim that changes hands: the one that held it holds it no more.
LEMMA ReceiveClaims ==
  ASSUME Typed, Claims, NEW r \in Requests, Receive(r)
  PROVE  Claims'
  <1> DEFINE w == req[r].by
  <1> USE DEF Typed, TypeOK
  <1>1. /\ req[r] \in Request /\ req[r].phase = "answered" /\ w \in Workers
        /\ worker[w].phase = "waiting" /\ job' = job
        /\ req'[r] = Free /\ \A q \in Requests \ {r} : req'[q] = req[q]
        /\ \A v \in Workers \ {w} : worker'[v] = worker[v]
    BY DEF Receive, Request, Free
  <1>2. \A j \in Jobs : ~ WorkerHolds(w, j)
    BY <1>1 DEF WorkerHolds
  <1>3. ASSUME NEW j \in Jobs, NEW q \in Requests
        PROVE  /\ AnswerHolds(q, j)' => AnswerHolds(q, j) /\ q # r /\ req'[q] = req[q]
               /\ SubmissionHolds(q, j)' => SubmissionHolds(q, j) /\ q # r /\ req'[q] = req[q]
    BY <1>1 DEF AnswerHolds, SubmissionHolds, Free
  <1>4. ASSUME NEW j \in Jobs, NEW v \in Workers, WorkerHolds(v, j)'
        PROVE  \/ v # w /\ WorkerHolds(v, j) /\ worker'[v] = worker[v]
               \/ v = w /\ AnswerHolds(r, j) /\ worker'[v].left = req[r].left
    <2>1. CASE v # w
      BY <1>1, <1>4, <2>1 DEF WorkerHolds
    <2>2. CASE v = w
      <3>1. req[r].kind = "poll" /\ req[r].job # NoJob
        BY <1>4, <2>2 DEF Receive, WorkerHolds, Idle
      <3>2. worker'[w] = [phase |-> "executing", job |-> req[r].job,
                          result |-> "failed", left |-> req[r].left]
        BY <1>1, <3>1 DEF Receive
      <3> QED
        BY <1>1, <1>4, <2>2, <3>1, <3>2 DEF WorkerHolds, AnswerHolds
    <2> QED
      BY <2>1, <2>2
  <1> HIDE DEF w
  <1>5. ClaimsHonoured'
    <2>1. ASSUME NEW j \in Jobs, NEW v \in Workers, WorkerHolds(v, j)'
          PROVE  Honoured(j, worker[v].left)'
      <3>1. Honoured(j, worker'[v].left)
        BY <1>4, <2>1 DEF Claims, ClaimsHonoured
      <3> QED
        BY <1>1, <3>1 DEF Honoured
    <2>2. ASSUME NEW j \in Jobs, NEW q \in Requests,
                 AnswerHolds(q, j)' \/ SubmissionHolds(q, j)'
          PROVE  Honoured(j, req[q].left)'
      <3>1. Honoured(j, req'[q].left)
        BY <1>3, <2>2 DEF Claims, ClaimsHonoured
      <3> QED
        BY <1>1, <3>1 DEF Honoured
    <2> QED
      BY <2>1, <2>2 DEF ClaimsHonoured
  <1>6. ClaimsExclusive'
    BY <1>1, <1>2, <1>3, <1>4 DEF Claims, ClaimsExclusive
  <1> QED
    BY <1>5, <1>6 DEF Claims

LEMMA SendClaims ==
  ASSUME Typed, Claims, NEW w \in Workers, NEW r \in Requests,
         StartPoll(w, r) \/ StartSubmit(w, r)
  PROVE  Claims'
  <1> USE DEF Typed, TypeOK
  <1>1. /\ req[r] = Free /\ job' = job
        /\ worker'[w].phase = "waiting"
        /\ \A q \in Requests \ {r} : req'[q] = req[q]
        /\ \A v \in Workers \ {w} : worker'[v] = worker[v]
    BY DEF StartPoll, StartSubmit, Send
  <1>2. \A j \in Jobs : ~ AnswerHolds(r, j) /\ ~ SubmissionHolds(r, j)
    BY <1>1 DEF AnswerHolds, SubmissionHolds, Free
  <1>3. ASSUME NEW j \in Jobs, NEW v \in Workers, WorkerHolds(v, j)'
        PROVE  v # w /\ WorkerHolds(v, j) /\ worker'[v] = worker[v]
    BY <1>1, <1>3 DEF WorkerHolds
  <1>4. ASSUME NEW j \in Jobs, NEW q \in Requests, AnswerHolds(q, j)'
        PROVE  q # r /\ AnswerHolds(q, j) /\ req'[q] = req[q]
    BY <1>1, <1>4 DEF AnswerHolds, StartPoll, StartSubmit, Send
  <1>5. ASSUME NEW j \in Jobs, NEW q \in Requests, SubmissionHolds(q, j)'
        PROVE  \/ q # r /\ SubmissionHolds(q, j) /\ req'[q] = req[q]
               \/ q = r /\ WorkerHolds(w, j) /\ req'[q].left = worker[w].left
    <2>1. CASE q # r
      BY <1>1, <1>5, <2>1 DEF SubmissionHolds
    <2>2. CASE q = r
      BY <1>5, <2>2 DEF SubmissionHolds, WorkerHolds, StartPoll, StartSubmit, Send, Free
    <2> QED
      BY <2>1, <2>2
  <1>6. ClaimsHonoured'
    <2>1. ASSUME NEW j \in Jobs, NEW v \in Workers, WorkerHolds(v, j)'
          PROVE  Honoured(j, worker[v].left)'
      <3>1. Honoured(j, worker'[v].left)
        BY <1>3, <2>1 DEF Claims, ClaimsHonoured
      <3> QED
        BY <1>1, <3>1 DEF Honoured
    <2>2. ASSUME NEW j \in Jobs, NEW q \in Requests,
                 AnswerHolds(q, j)' \/ SubmissionHolds(q, j)'
          PROVE  Honoured(j, req[q].left)'
      <3>1. Honoured(j, req'[q].left)
        BY <1>4, <1>5, <2>2 DEF Claims, ClaimsHonoured
      <3> QED
        BY <1>1, <3>1 DEF Honoured
    <2> QED
      BY <2>1, <2>2 DEF ClaimsHonoured
  <1>7. ClaimsExclusive'
    BY <1>2, <1>3, <1>4, <1>5 DEF Claims, ClaimsExclusive
  <1> QED
    BY <1>6, <1>7 DEF Claims

LEMMA NextClaims == Typed /\ Claims /\ [Next]_vars => Claims'
  <1> SUFFICES ASSUME Typed, Claims, [Next]_vars PROVE Claims'
    OBVIOUS
  <1> USE DEF Typed, TypeOK
  <1>1. ASSUME UNCHANGED <<req, worker>>,
               \A j \in Jobs : \/ job'[j] = job[j] \/ job'[j].status \in Terminal
                               \/ job[j].status = "absent"
        PROVE  Claims'
    BY <1>1, ClaimsShrink DEF WorkerHolds, AnswerHolds, SubmissionHolds
  <1>2. ASSUME NEW j \in Jobs, CreateJob(j) \/ AdminCancelJob(j) PROVE Claims'
    <2>1. \A k \in Jobs : \/ job'[k] = job[k] \/ job'[k].status \in Terminal
                          \/ job[k].status = "absent"
      BY <1>2 DEF CreateJob, AdminCancelJob, Terminal, Job
    <2> QED
      BY <1>1, <1>2, <2>1 DEF CreateJob, AdminCancelJob
  <1>3. ASSUME NEW w \in Workers, Execute(w) \/ GiveUp(w) \/ Restart(w)
        PROVE  Claims'
    <2>1. UNCHANGED <<req, job>>
      BY <1>3 DEF Execute, GiveUp, Restart
    <2>2. ASSUME NEW j \in Jobs, NEW v \in Workers, WorkerHolds(v, j)'
          PROVE  WorkerHolds(v, j) /\ worker'[v].left = worker[v].left
      BY <1>3, <2>2 DEF Execute, GiveUp, Restart, WorkerHolds, Worker, Idle
    <2> QED
      BY <2>1, <2>2, ClaimsShrink DEF AnswerHolds, SubmissionHolds
  <1>4. ASSUME NEW r \in Requests, Lose(r) PROVE Claims'
    <2>1. req'[r] = Free /\ UNCHANGED <<job, worker>>
          /\ \A q \in Requests \ {r} : req'[q] = req[q]
      BY <1>4 DEF Lose
    <2> QED
      BY <2>1, ClaimsShrink DEF AnswerHolds, SubmissionHolds, WorkerHolds, Free
  <1>5. ASSUME NEW r \in Requests, NEW p \in {"authed", "answered"}, req[r] # Free,
               req[r].phase \in {"sent", "authed"},
               req' = [req EXCEPT ![r].phase = p], worker' = worker,
               \A j \in Jobs : job'[j] = job[j] \/ job'[j].status \in Terminal
        PROVE  Claims'
    <2>1. \A j \in Jobs, q \in Requests :
             /\ AnswerHolds(q, j)' => AnswerHolds(q, j) /\ req'[q].left = req[q].left
             /\ SubmissionHolds(q, j)'
                   => SubmissionHolds(q, j) /\ req'[q].left = req[q].left
      BY <1>5, RequestShrinks
    <2> QED
      BY <1>5, <2>1, ClaimsShrink DEF WorkerHolds
  <1>6. ASSUME NEW r \in Requests, Authenticate(r) PROVE Claims'
    <2>1. req[r] # Free /\ req[r].phase \in {"sent", "authed"} /\ UNCHANGED <<job, worker>>
      BY <1>6 DEF Authenticate, Free
    <2>2. PICK p \in {"authed", "answered"} : req' = [req EXCEPT ![r].phase = p]
      BY <1>6 DEF Authenticate
    <2> QED
      BY <1>5, <2>1, <2>2
  <1>7. ASSUME NEW r \in Requests, FindNoJob(r) \/ RefuseResult(r) PROVE Claims'
    <2>1. req[r] # Free /\ req[r].phase \in {"sent", "authed"} /\ UNCHANGED <<job, worker>>
      BY <1>7 DEF FindNoJob, AnswerNoJob, RefuseResult, Free
    <2>2. req' = [req EXCEPT ![r].phase = "answered"]
      BY <1>7 DEF FindNoJob, AnswerNoJob, RefuseResult
    <2> QED
      BY <1>5, <2>1, <2>2
  <1>8. ASSUME NEW r \in Requests, RejectOnClaim(r) PROVE Claims'
    <2>1. \A j \in Jobs : job'[j] = job[j] \/ job'[j].status \in Terminal
      BY <1>8 DEF RejectOnClaim, Terminal, Results, Job
    <2> QED
      <3>1. req[r] # Free /\ req[r].phase \in {"sent", "authed"} /\ worker' = worker
        BY <1>8 DEF RejectOnClaim, AnswerNoJob, Free
      <3>2. req' = [req EXCEPT ![r].phase = "answered"]
        BY <1>8 DEF RejectOnClaim, AnswerNoJob
      <3> QED
        BY <1>5, <2>1, <3>1, <3>2
  <1>9. ASSUME NEW r \in Requests, AcceptResult(r) PROVE Claims'
    <2>1. req[r] \in Request /\ req[r].job \in Jobs
      BY <1>9 DEF AcceptResult, Free, Carried
    <2>2. PICK s \in Results : job' = [job EXCEPT ![req[r].job].status = s]
      <3>1. (IF job[req[r].job].left <= 0 THEN "timeout" ELSE req[r].result) \in Results
        BY <2>1 DEF Request, Results
      <3> QED
        BY <1>9, <3>1 DEF AcceptResult
    <2>3. \A j \in Jobs : job'[j] = job[j] \/ job'[j].status \in Terminal
      BY <2>1, <2>2 DEF Terminal, Job
    <2> QED
      <3>1. req[r] # Free /\ req[r].phase \in {"sent", "authed"} /\ worker' = worker
        BY <1>9 DEF AcceptResult, Free
      <3>2. req' = [req EXCEPT ![r].phase = "answered"]
        BY <1>9 DEF AcceptResult
      <3> QED
        BY <1>5, <2>3, <3>1, <3>2
  <1>10. ASSUME NEW r \in Requests, Claim(r) PROVE Claims'
    BY <1>10, ClaimClaims
  <1>11. ASSUME NEW r \in Requests, Receive(r) PROVE Claims'
    BY <1>11, ReceiveClaims
  <1>12. ASSUME NEW w \in Workers, NEW r \in Requests,
                StartPoll(w, r) \/ StartSubmit(w, r)
         PROVE  Claims'
    BY <1>12, SendClaims
  <1>13. CASE Tick
    BY <1>13, TickClaims
  <1>14. CASE UNCHANGED <<job, req, worker>>
    BY <1>1, <1>14
  <1> QED
    BY <1>2, <1>3, <1>4, <1>6, <1>7, <1>8, <1>9, <1>10, <1>11, <1>12, <1>13, <1>14
       DEF Next, Handle, vars, PassGates, AdminToggleAgent, AdminToggleTool

LEMMA ClaimsInvariant == Spec => []Claims
  <1>1. Init => Claims
    BY DEF Init, Claims, ClaimsHonoured, ClaimsExclusive, WorkerHolds, AnswerHolds,
           SubmissionHolds, Idle, Free
  <1>2. Typed /\ Claims /\ [Next]_vars => Claims'
    BY NextClaims
  <1> QED
    BY <1>1, <1>2, TypeCorrect, PTL DEF Spec, Typed

\* An unexpired claim is honoured until it expires or its job is closed
\* (ClaimsHonoured).
THEOREM ClaimsHonouredHolds == Spec => []ClaimsHonoured
  <1>1. Claims => ClaimsHonoured
    BY DEF Claims
  <1> QED
    BY <1>1, ClaimsInvariant, PTL

\* No two unexpired claims of a job exist at once (ClaimsExclusive), whatever
\* is lost, delayed, retried or restarted.
THEOREM ClaimsExclusiveHolds == Spec => []ClaimsExclusive
  <1>1. Claims => ClaimsExclusive
    BY DEF Claims
  <1> QED
    BY <1>1, ClaimsInvariant, PTL

=============================================================================
