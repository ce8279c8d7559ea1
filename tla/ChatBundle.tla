----------------------------- MODULE ChatBundle -----------------------------
(***************************************************************************)
(* One execution of a diagnostic bundle in the admin chat (apps/ai_chat):  *)
(* a streaming request starts the bundle's tools one after the other,      *)
(* polls them until all have ended or its deadline passes, and records one *)
(* summary.  Status pages that look at the chat meanwhile recover a        *)
(* summary which the stream has not recorded.                              *)
(*                                                                         *)
(* The jobs follow JobLifecycle, which AgentJobs implements.  A tool of    *)
(* the bundle has one request and at most one job, so its key names both.  *)
(* Every query and every save outside a transaction is a step of its own;  *)
(* here that is all of them but the recording of a job's result.           *)
(*                                                                         *)
(* The buttons that approve or reject a suggested request are left out: a  *)
(* request of a bundle is suggested only while the stream approves it.     *)
(***************************************************************************)

EXTENDS Naturals, Sequences

CONSTANTS
    Tools,        \* DiagnosticBundle.tool_keys
    Views         \* status pages that poll while the bundle runs

VARIABLES
    stage,        \* how far the stream is
    todo,         \* its loop: the available tools not started yet
    skipped,      \* its list of the tools that could not be started
    running,      \* the message "running": what it lists as tool_keys, skipped
    request,      \* [Tools -> AdminChatToolRequest.status, or "absent"]
    linked,       \* the requests whose tool_run is saved
    phase,        \* JobLifecycle: what became of the tool's job
    run,          \* JobLifecycle: ToolRun.status
    writer,       \* [Writers -> how far it is with a summary]
    results       \* the summary messages, in the order of their creation

vars == <<stage, todo, skipped, running, request, linked, phase, run,
          writer, results>>

Job == INSTANCE JobLifecycle WITH Jobs <- Tools

Writers == Views \cup {"stream"}

-----------------------------------------------------------------------------

\* requested: the request of one tool is created; opened: its job is too;
\* polling, late: all are started, before and after the deadline; concluding:
\* none was started.
Stages == {"idle", "starting", "requested", "opened", "polling", "late",
           "concluding", "done"}

RequestStatuses == {"absent", "suggested", "queued", "succeeded", "failed"}

\* One line of a summary: a tool and its state.  A tool that has not ended
\* ("pending") is reported as a timeout, but with the status "running".
Outcomes == Tools \X {"succeeded", "failed", "timeout", "pending", "skipped"}

\* requests: the requests and their runs are read; ready: the running message
\* is read too and calls for a summary; found: the summary to update has been
\* looked up, 0 if there is none.
Writer == [phase : {"idle", "requests", "ready", "found"},
           outcomes : SUBSET Outcomes, target : Nat]

Has(p, outcomes) == [phase |-> p, outcomes |-> outcomes, target |-> 0]

IdleWriter == Has("idle", {})

TypeOK ==
    /\ stage \in Stages
    /\ todo \subseteq Tools
    /\ skipped \subseteq Tools
    /\ running \in [tools : SUBSET Tools, skipped : SUBSET Tools]
    /\ request \in [Tools -> RequestStatuses]
    /\ linked \subseteq Tools
    /\ phase \in [Tools -> Job!Phases]
    /\ run \in [Tools -> Job!RunStatuses]
    /\ writer \in [Writers -> Writer]
    /\ results \in Seq(SUBSET Outcomes)

Init ==
    /\ stage = "idle"
    /\ todo = {}
    /\ skipped = {}
    /\ running = [tools |-> {}, skipped |-> {}]
    /\ request = [t \in Tools |-> "absent"]
    /\ linked = {}
    /\ Job!LifecycleInit
    /\ writer = [w \in Writers |-> IdleWriter]
    /\ results = <<>>

-----------------------------------------------------------------------------
(* execute_diagnostic_bundle_for_item.  Whether a tool is available, and   *)
(* whether the gates of its job pass, is decided by tables that            *)
(* administrators edit at any time: it is a choice.                        *)

\* Nothing is recorded for this execution yet: the tools are validated, and
\* the message lists those available before any of them is started.
Announce ==
    /\ stage = "idle"
    /\ results = <<>>
    /\ \E available \in SUBSET Tools :
          /\ todo' = available
          /\ skipped' = Tools \ available
          /\ running' = [tools |-> available, skipped |-> Tools \ available]
    /\ stage' = "starting"
    /\ UNCHANGED <<request, linked, phase, run, writer, results>>

\* The tool is validated again, and is no longer available.
SkipTool(t) ==
    /\ stage = "starting"
    /\ t \in todo
    /\ todo' = todo \ {t}
    /\ skipped' = skipped \cup {t}
    /\ UNCHANGED <<stage, running, request, linked, phase, run, writer, results>>

RequestTool(t) ==
    /\ stage = "starting"
    /\ t \in todo
    /\ request' = [request EXCEPT ![t] = "suggested"]
    /\ stage' = "requested"
    /\ UNCHANGED <<todo, skipped, running, linked, phase, run, writer, results>>

\* approve_tool_request: a gate denies the job.
DenyTool(t) ==
    /\ stage = "requested"
    /\ request[t] = "suggested"
    /\ request' = [request EXCEPT ![t] = "failed"]
    /\ todo' = todo \ {t}
    /\ skipped' = skipped \cup {t}
    /\ stage' = "starting"
    /\ UNCHANGED <<running, linked, phase, run, writer, results>>

\* approve_tool_request: create_tool_run_job has committed.
OpenTool(t) ==
    /\ stage = "requested"
    /\ request[t] = "suggested"
    /\ Job!Open({t})
    /\ stage' = "opened"
    /\ UNCHANGED <<todo, skipped, running, request, linked, writer, results>>

\* approve_tool_request: the request is saved as queued, with its run, whatever
\* has become of the run by now.
LinkTool(t) ==
    /\ stage = "opened"
    /\ request[t] = "suggested"
    /\ request' = [request EXCEPT ![t] = "queued"]
    /\ linked' = linked \cup {t}
    /\ todo' = todo \ {t}
    /\ stage' = "starting"
    /\ UNCHANGED <<skipped, running, phase, run, writer, results>>

\* The message lists what was really started.  If that is nothing, the summary
\* of the skipped tools is recorded at once.
Announced ==
    /\ stage = "starting"
    /\ todo = {}
    /\ running' = [tools |-> linked, skipped |-> skipped]
    /\ IF linked = {}
       THEN /\ stage' = "concluding"
            /\ writer' = [writer EXCEPT !["stream"] =
                            Has("ready", skipped \X {"skipped"})]
       ELSE /\ stage' = "polling"
            /\ UNCHANGED writer
    /\ UNCHANGED <<todo, skipped, request, linked, phase, run, results>>

\* The web process dies, or while it polls the reader goes away.
StreamDies ==
    /\ stage \notin {"idle", "done"}
    /\ stage' = "done"
    /\ writer' = [writer EXCEPT !["stream"] = IdleWriter]
    /\ UNCHANGED <<todo, skipped, running, request, linked, phase, run, results>>

\* The deadline is looked at between two polls.
Deadline ==
    /\ stage = "polling"
    /\ writer["stream"].phase = "idle"
    /\ stage' = "late"
    /\ UNCHANGED <<todo, skipped, running, request, linked, phase, run,
                   writer, results>>

-----------------------------------------------------------------------------
(* What happens to the jobs.                                               *)

\* The result is recorded; sync_chat_tool_requests_for_tool_run, in the same
\* transaction, updates the request if it is linked already, and leaves the
\* summary to the stream.
Submit(t) ==
    /\ \E s \in Job!Results :
          /\ Job!Settle(t, s)
          /\ request' = IF t \in linked
                        THEN [request EXCEPT ![t] =
                                IF s = "succeeded" THEN "succeeded" ELSE "failed"]
                        ELSE request
    /\ UNCHANGED <<stage, todo, skipped, running, linked, writer, results>>

\* The job is closed without a result; its run stays queued.
Discard(t) ==
    /\ Job!Discard(t)
    /\ UNCHANGED <<stage, todo, skipped, running, request, linked, writer, results>>

-----------------------------------------------------------------------------
(* Summaries: get_diagnostic_bundle_progress and what is done with it.     *)

\* Mutant: a request whose run is not linked yet counts as failed.
OutcomeUnlinkedFails(t) ==
    CASE t \notin linked \/ run[t] \in {"failed", "rejected"} -> "failed"
      [] t \in linked /\ run[t] \in {"succeeded", "timeout"} -> run[t]
      [] OTHER -> "pending"

\* _terminal_tool_outcome, of a run that has ended and that its request names.
Outcome(t) ==
    CASE t \in linked /\ run[t] \in {"failed", "rejected"} -> "failed"
      [] t \in linked /\ run[t] \in {"succeeded", "timeout"} -> run[t]
      [] OTHER -> "pending"

MayWrite(w) == IF w = "stream" THEN stage \in {"polling", "late"}
               ELSE stage # "idle"

\* _diagnostic_bundle_requests: without a request there is no progress.
ReadRequests(w) ==
    /\ MayWrite(w)
    /\ writer[w].phase = "idle"
    /\ \E t \in Tools : request[t] # "absent"
    /\ writer' = [writer EXCEPT ![w] = Has("requests",
                     {<<t, Outcome(t)>> : t \in {u \in Tools : request[u] # "absent"}})]
    /\ UNCHANGED <<stage, todo, skipped, running, request, linked, phase, run, results>>

Named(outcomes) == {o[1] : o \in outcomes}

Pending(outcomes) == \E o \in outcomes : o[2] = "pending"

\* Mutant: that there is a request for each expected tool is not asked.
AllTerminalSoFar(outcomes) == ~Pending(outcomes)

\* Mutant: all tools of the bundle are expected, those skipped too.
AllTerminalOfBundle(outcomes) ==
    Named(outcomes) = Tools /\ ~Pending(outcomes)

\* all_terminal
AllTerminal(outcomes) ==
    Named(outcomes) = running.tools /\ ~Pending(outcomes)

\* The running message is read.  finalize_diagnostic_bundle_if_ready records
\* a summary if all have ended; finalize_diagnostic_bundle_with_timeout, after
\* the deadline, in any case.  (The stream asks twice whether all have ended:
\* what has ended stays so.)
ReadRunning(w) ==
    /\ writer[w].phase = "requests"
    /\ IF AllTerminal(writer[w].outcomes) \/ (w = "stream" /\ stage = "late")
       THEN writer' = [writer EXCEPT ![w] = Has("ready",
                          writer[w].outcomes \cup (running.skipped \X {"skipped"}))]
       ELSE writer' = [writer EXCEPT ![w] = IdleWriter]
    /\ UNCHANGED <<stage, todo, skipped, running, request, linked, phase, run, results>>

\* _find_existing_chatkit_message: the newest with the summary's item id.
FindSummary(w) ==
    /\ writer[w].phase = "ready"
    /\ writer' = [writer EXCEPT ![w].phase = "found", ![w].target = Len(results)]
    /\ UNCHANGED <<stage, todo, skipped, running, request, linked, phase, run, results>>

\* _record_bundle_message: it is updated, or a new one is created.
SaveSummary(w) ==
    /\ writer[w].phase = "found"
    /\ results' = IF writer[w].target = 0
                  THEN Append(results, writer[w].outcomes)
                  ELSE [results EXCEPT ![writer[w].target] = writer[w].outcomes]
    /\ writer' = [writer EXCEPT ![w] = IdleWriter]
    /\ stage' = IF w = "stream" THEN "done" ELSE stage
    /\ UNCHANGED <<todo, skipped, running, request, linked, phase, run>>

-----------------------------------------------------------------------------

StartTools ==
    \/ Announce \/ Announced
    \/ \E t \in Tools : SkipTool(t) \/ RequestTool(t) \/ DenyTool(t)
                        \/ OpenTool(t) \/ LinkTool(t)

Summarise(w) ==
    ReadRequests(w) \/ ReadRunning(w) \/ FindSummary(w) \/ SaveSummary(w)

Next ==
    \/ StartTools \/ StreamDies \/ Deadline
    \/ \E t \in Tools : Submit(t) \/ Discard(t)
    \/ \E w \in Writers : Summarise(w)

Spec == Init /\ [][Next]_vars

-----------------------------------------------------------------------------
(* Properties *)

Summaries == {results[i] : i \in DOMAIN results}

\* Whatever a summary says of a tool is true when it is shown, although it was
\* put together from several reads while tools ended and others were started:
\* a result it reports is the result of the run, and a tool it reports as
\* skipped has no job.  (What it reports as pending may have ended since.)
SummaryTrue ==
    \A s \in Summaries : \A o \in s :
        CASE o[2] = "failed" -> run[o[1]] \in {"failed", "rejected"}
          [] o[2] \in {"succeeded", "timeout"} -> run[o[1]] = o[2]
          [] o[2] = "skipped" -> phase[o[1]] = "absent"
          [] OTHER -> TRUE

\* A summary leaves no tool of the bundle out, not even when a status page
\* recovers it while the stream is still starting tools.
EveryToolAccounted == \A s \in Summaries : Named(s) = Tools

\* _bundle_state: when a summary is headed as a success.
BundleSucceeded(s) ==
    /\ \E o \in s : o[2] # "skipped"
    /\ \A o \in s : o[2] = "succeeded"

\* A bundle reported as succeeded has run all its tools, and all succeeded.
SucceededMeansAll ==
    \A s \in Summaries :
        BundleSucceeded(s) => \A t \in Tools : run[t] = "succeeded"

\* "ToolRun completion now finalizes one combined summary only after every
\* expected bundle run reaches a terminal state": only the stream, when its
\* deadline has passed, writes a summary that has a pending tool in it.
WholeUnlessLate ==
    [][ \A i \in DOMAIN results' :
          /\ Pending(results'[i])
          /\ i \in DOMAIN results => results'[i] # results[i]
          => stage = "late" /\ stage' = "done" ]_vars

-----------------------------------------------------------------------------
(* Liveness.  A request runs on unless it dies, the deadline passes, a job *)
(* gets its result (JobsSettle of AgentJobs) unless it is dropped, and a   *)
(* page that shows a running bundle goes on polling.                       *)

Fairness ==
    /\ WF_vars(StartTools)
    /\ SF_vars(Deadline)
    /\ \A t \in Tools : WF_vars(Submit(t))
    /\ \A w \in Writers : WF_vars(Summarise(w))

FairSpec == Spec /\ Fairness

Denied == \E t \in Tools : request[t] = "failed" /\ t \notin linked

Dropped == \E t \in Tools : phase[t] = "dropped"

\* Once all its tools are started a bundle gets its summary, even if the stream
\* dies before it records one: then a status page does.  Two cases are beyond
\* it: a request that was denied, for which recovery waits for ever, and a job
\* closed without a result.
SummaryAppears ==
    stage = "polling" /\ ~Denied ~> results # <<>> \/ Dropped

=============================================================================
