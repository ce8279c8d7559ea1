------------------------------ MODULE ChatTools ------------------------------
(***************************************************************************)
(* Single tool requests in the admin chat (apps/ai_chat): a Live AI answer *)
(* proposes read-only tools, and the request that streams the answer runs  *)
(* them one after the other, waits for each and tells the chat how it      *)
(* ended; administrators request tools by hand, and approve or reject      *)
(* requests with buttons.  Results are mirrored into the requests and the  *)
(* chat when they are submitted.                                           *)
(*                                                                         *)
(* The jobs follow JobLifecycle, which AgentJobs implements.  An approver  *)
(* opens at most one job for a request, so a job is named by the request   *)
(* the stream runs, or by the button that was pressed.  Every query and    *)
(* every save outside a transaction is a step of its own.                  *)
(*                                                                         *)
(* Left out: the messages that announce a start, and the one that lists    *)
(* the outcomes of several proposals again at the end of the stream        *)
(* (nothing reads them back to decide), and the rows of AdminChatDecision, *)
(* which nothing reads.                                                    *)
(***************************************************************************)

EXTENDS Naturals, Sequences, FiniteSets, SequencesExt

CONSTANTS
    Requests,     \* the requests of one message or of the session
    Tools,        \* keys of the allowlisted tools
    Buttons,      \* presses of "approve" and "reject"
    Nothing       \* no run, no request

ASSUME NothingAssumption == Nothing \notin Requests \cup Buttons

ASSUME NamesAssumption == Requests \cap Buttons = {}

VARIABLES
    request,      \* [Requests -> AdminChatToolRequest]
    live,         \* the stream that executes the answer's proposals
    button,       \* [Buttons -> how far the press is]
    noted,        \* [Jobs -> what the submission of its result has read]
    phase,        \* JobLifecycle: what became of the job
    run,          \* JobLifecycle: ToolRun.status
    messages      \* the result messages, in the order of their creation

vars == <<request, live, button, noted, phase, run, messages>>

Jobs == Requests \cup Buttons

Job == INSTANCE JobLifecycle

-----------------------------------------------------------------------------

RequestStatuses == {"suggested", "queued", "succeeded", "failed", "cancelled"}

\* source: "live_ai_tool_proposal", or none if the request was made by hand.
Request ==
    [status : {"absent"} \cup RequestStatuses, tool : Tools \cup {Nothing},
     source : {"live", "manual"}, run : Jobs \cup {Nothing}]

NoRequest == [status |-> "absent", tool |-> Nothing, source |-> "manual",
              run |-> Nothing]

\* What the stream finds out about a tool.
States == {"succeeded", "failed", "timeout", "not_started"}

\* approving: the gates are being asked; opened: the job is created; waiting:
\* the run is polled; ended: an outcome is known; saved: the request has it;
\* found: the message to update has been looked up, 0 if there is none.
Executor ==
    [stage : {"choosing", "approving", "opened", "waiting", "ended", "saved",
              "found", "done", "dead"},
     on : Requests \cup {Nothing}, state : States \cup {"none"}, target : Nat]

At(stage, r, state, target) ==
    [stage |-> stage, on |-> r, state |-> state, target |-> target]

Press ==
    [stage : {"idle", "approving", "opened", "rejecting", "done"},
     on : Requests \cup {Nothing}]

Note == [read : BOOLEAN, links : SUBSET Requests]

NoNote == [read |-> FALSE, links |-> {}]

Message == [request : Requests, state : States, run : Jobs \cup {Nothing}]

TypeOK ==
    /\ request \in [Requests -> Request]
    /\ live \in Executor
    /\ button \in [Buttons -> Press]
    /\ noted \in [Jobs -> Note]
    /\ phase \in [Jobs -> Job!Phases]
    /\ run \in [Jobs -> Job!RunStatuses]
    /\ messages \in Seq(Message)

Init ==
    /\ request = [r \in Requests |-> NoRequest]
    /\ live = At("choosing", Nothing, "none", 0)
    /\ button = [b \in Buttons |-> [stage |-> "idle", on |-> Nothing]]
    /\ noted = [j \in Jobs |-> NoNote]
    /\ Job!LifecycleInit
    /\ messages = <<>>

-----------------------------------------------------------------------------
(* Requests made by hand and decided with buttons.                         *)

\* create_tool_request, for a tool of the session's safe context.
RequestByHand(r) ==
    /\ request[r] = NoRequest
    /\ \E t \in Tools :
          request' = [request EXCEPT ![r] =
              [status |-> "suggested", tool |-> t, source |-> "manual",
               run |-> Nothing]]
    /\ UNCHANGED <<live, button, noted, phase, run, messages>>

\* approve_tool_request and reject_tool_request read the request, without a
\* lock, and go on if it is suggested.
PressButton(b, r) ==
    /\ button[b].stage = "idle"
    /\ request[r].status = "suggested"
    /\ \E what \in {"approving", "rejecting"} :
          button' = [button EXCEPT ![b] = [stage |-> what, on |-> r]]
    /\ UNCHANGED <<request, live, noted, phase, run, messages>>

\* create_tool_run_job raises ToolPolicyDenied: approve_tool_request saves the
\* request as failed.
Denied(r) == [request EXCEPT ![r].status = "failed"]

ButtonDenied(b) ==
    /\ button[b].stage = "approving"
    /\ request' = Denied(button[b].on)
    /\ button' = [button EXCEPT ![b].stage = "done"]
    /\ UNCHANGED <<live, noted, phase, run, messages>>

ButtonOpens(b) ==
    /\ button[b].stage = "approving"
    /\ Job!Open({b})
    /\ button' = [button EXCEPT ![b].stage = "opened"]
    /\ UNCHANGED <<request, live, noted, messages>>

\* approve_tool_request saves the request as queued with its run, whatever has
\* become of either by now.
Queued(r, j) ==
    [request EXCEPT ![r] = [@ EXCEPT !.status = "queued", !.run = j]]

ButtonLinks(b) ==
    /\ button[b].stage = "opened"
    /\ request' = Queued(button[b].on, b)
    /\ button' = [button EXCEPT ![b].stage = "done"]
    /\ UNCHANGED <<live, noted, phase, run, messages>>

ButtonRejects(b) ==
    /\ button[b].stage = "rejecting"
    /\ request' = [request EXCEPT ![button[b].on].status = "cancelled"]
    /\ button' = [button EXCEPT ![b].stage = "done"]
    /\ UNCHANGED <<live, noted, phase, run, messages>>

\* The press is refused (the tool is no longer available to the session), or
\* the web process dies.
ButtonStops(b) ==
    /\ button[b].stage \in {"approving", "opened", "rejecting"}
    /\ button' = [button EXCEPT ![b].stage = "done"]
    /\ UNCHANGED <<request, live, noted, phase, run, messages>>

-----------------------------------------------------------------------------
(* The stream: create_ai_tool_requests_from_proposals.                     *)

\* create_ai_tool_request_from_proposal.  A proposal is passed over if the tool
\* is not available or the message has a suggested request for it already; the
\* request is approved at once, on the object just created.
Propose(r) ==
    /\ live.stage = "choosing"
    /\ request[r] = NoRequest
    /\ \E t \in Tools :
          /\ ~ \E q \in Requests : /\ request[q].source = "live"
                                   /\ request[q].tool = t
                                   /\ request[q].status = "suggested"
          /\ request' = [request EXCEPT ![r] =
                [status |-> "suggested", tool |-> t, source |-> "live",
                 run |-> Nothing]]
    /\ live' = At("approving", r, "none", 0)
    /\ UNCHANGED <<button, noted, phase, run, messages>>

LiveOpens ==
    /\ live.stage = "approving"
    /\ Job!Open({live.on})
    /\ live' = [live EXCEPT !.stage = "opened"]
    /\ UNCHANGED <<request, button, noted, messages>>

LiveLinks ==
    /\ live.stage = "opened"
    /\ request' = Queued(live.on, live.on)
    /\ live' = [live EXCEPT !.stage = "waiting"]
    /\ UNCHANGED <<button, noted, phase, run, messages>>

\* A gate of create_tool_run_job denies the job.
LiveDenied ==
    /\ live.stage = "approving"
    /\ request' = Denied(live.on)
    /\ live' = At("saved", live.on, "not_started", 0)
    /\ UNCHANGED <<button, noted, phase, run, messages>>

\* The tool's definition is no longer valid: approve_tool_request raises, and
\* the request is saved as failed if it is still suggested.
LiveRefused ==
    /\ live.stage = "approving"
    /\ request' = IF request[live.on].status = "suggested"
                  THEN Denied(live.on) ELSE request
    /\ live' = At("saved", live.on, "not_started", 0)
    /\ UNCHANGED <<button, noted, phase, run, messages>>

\* Mutant: what is not "failed" or late is a success.
OutcomeStateUnlessFailed(s) ==
    IF s \in {"failed", "timeout"} THEN s ELSE "succeeded"

\* _terminal_tool_outcome
OutcomeState(s) ==
    CASE s = "succeeded" -> "succeeded"
      [] s \in {"failed", "rejected"} -> "failed"
      [] s = "timeout" -> "timeout"

\* wait_for_tool_execution_result: a poll finds that the run has ended.
SeeEnd ==
    /\ live.stage = "waiting"
    /\ run[live.on] \in Job!Results
    /\ live' = [live EXCEPT !.stage = "ended", !.state = OutcomeState(run[live.on])]
    /\ UNCHANGED <<request, button, noted, phase, run, messages>>

\* Mutant: there is no deadline.
GiveUpNever == FALSE

\* ... or the last look, after the deadline and a grace, finds it has not.
GiveUp ==
    /\ live.stage = "waiting"
    /\ run[live.on] \notin Job!Results
    /\ live' = [live EXCEPT !.stage = "ended", !.state = "timeout"]
    /\ UNCHANGED <<request, button, noted, phase, run, messages>>

\* Mutant: only a success ends the request.
StatusForOutcomeOnlySuccess(state) ==
    IF state = "succeeded" THEN "succeeded" ELSE "queued"

\* A timeout is saved as "queued", also when it is the run that timed out.
StatusForOutcome(state) ==
    CASE state = "succeeded" -> "succeeded"
      [] state = "failed" -> "failed"
      [] OTHER -> "queued"

SaveOutcome ==
    /\ live.stage = "ended"
    /\ request' = [request EXCEPT ![live.on].status = StatusForOutcome(live.state)]
    /\ live' = [live EXCEPT !.stage = "saved"]
    /\ UNCHANGED <<button, noted, phase, run, messages>>

\* _find_existing_tool_result_message: the newest of the request, since all of
\* them have its item id.
NewestMessage(r) == SelectLastInSeq(messages, LAMBDA m : m.request = r)

FindMessage ==
    /\ live.stage = "saved"
    /\ live' = [live EXCEPT !.stage = "found", !.target = NewestMessage(live.on)]
    /\ UNCHANGED <<request, button, noted, phase, run, messages>>

\* _record_tool_followup_message: it is updated, or a new one is created.
SaveMessage ==
    /\ live.stage = "found"
    /\ LET m == [request |-> live.on, state |-> live.state,
                 run |-> IF live.state = "not_started" THEN Nothing ELSE live.on]
       IN messages' = IF live.target = 0 THEN Append(messages, m)
                      ELSE [messages EXCEPT ![live.target] = m]
    /\ live' = At("choosing", Nothing, "none", 0)
    /\ UNCHANGED <<request, button, noted, phase, run>>

\* No proposal is left.
LiveEnds ==
    /\ live.stage = "choosing"
    /\ live' = At("done", Nothing, "none", 0)
    /\ UNCHANGED <<request, button, noted, phase, run, messages>>

\* The web process dies, or the reader of the stream goes away.
LiveDies ==
    /\ live.stage \notin {"done", "dead"}
    /\ live' = [live EXCEPT !.stage = "dead"]
    /\ UNCHANGED <<request, button, noted, phase, run, messages>>

-----------------------------------------------------------------------------
(* Results: sync_chat_tool_requests_for_tool_run.                          *)

\* terminal_status_map
StatusForRun(s) == IF s = "succeeded" THEN "succeeded" ELSE "failed"

\* The submission reads which requests name the run: a request linked after
\* that is not updated.
NoteLinks(j) ==
    /\ phase[j] = "open"
    /\ ~noted[j].read
    /\ noted' = [noted EXCEPT ![j] =
          [read |-> TRUE, links |-> {r \in Requests : request[r].run = j}]]
    /\ UNCHANGED <<request, live, button, phase, run, messages>>

\* Mutant: the summary is posted only if the request has no message yet.
SubmitOneMessage(j) ==
    /\ noted[j].read
    /\ \E s \in Job!Results :
          /\ Job!Settle(j, s)
          /\ request' = [r \in Requests |->
                IF r \in noted[j].links
                THEN [request[r] EXCEPT !.status = StatusForRun(s)] ELSE request[r]]
          /\ messages' = messages \o SetToSeq(
                {[request |-> r, state |-> OutcomeState(s), run |-> j] :
                    r \in {q \in noted[j].links : NewestMessage(q) = 0}})
    /\ UNCHANGED <<live, button, noted>>

\* The result is committed, with the requests and their summaries.  The lookup
\* of an earlier summary of the same run finds none: the stream writes one only
\* after this commit, unless it gave up, and then under another source.
Submit(j) ==
    /\ noted[j].read
    /\ \E s \in Job!Results :
          /\ Job!Settle(j, s)
          /\ request' = [r \in Requests |->
                IF r \in noted[j].links
                THEN [request[r] EXCEPT !.status = StatusForRun(s)] ELSE request[r]]
          /\ messages' = messages \o SetToSeq(
                {[request |-> r, state |-> OutcomeState(s), run |-> j] : r \in noted[j].links})
    /\ UNCHANGED <<live, button, noted>>

\* The web process dies before it commits: the runtime will submit again.
RollBack(j) ==
    /\ phase[j] = "open"
    /\ noted[j].read
    /\ noted' = [noted EXCEPT ![j] = NoNote]
    /\ UNCHANGED <<request, live, button, phase, run, messages>>

\* The job is closed without a result; its run stays queued.
Discard(j) ==
    /\ ~noted[j].read
    /\ Job!Discard(j)
    /\ UNCHANGED <<request, live, button, noted, messages>>

-----------------------------------------------------------------------------

LiveStep ==
    \/ \E r \in Requests : Propose(r)
    \/ LiveOpens \/ LiveLinks \/ LiveDenied \/ LiveRefused
    \/ SeeEnd \/ GiveUp \/ SaveOutcome \/ FindMessage \/ SaveMessage \/ LiveEnds

ButtonStep(b) ==
    \/ \E r \in Requests : PressButton(b, r)
    \/ ButtonDenied(b) \/ ButtonOpens(b) \/ ButtonLinks(b)
    \/ ButtonRejects(b) \/ ButtonStops(b)

JobStep(j) == NoteLinks(j) \/ Submit(j) \/ RollBack(j) \/ Discard(j)

\* The administrators and the runtime.
Others ==
    \/ \E r \in Requests : RequestByHand(r)
    \/ \E b \in Buttons : ButtonStep(b)
    \/ \E j \in Jobs : JobStep(j)

Next == LiveStep \/ LiveDies \/ Others

Spec == Init /\ [][Next]_vars

-----------------------------------------------------------------------------
(* Properties *)

\* Who has taken the request to decide it.
DecidedBy(r) ==
    {b \in Buttons : button[b].on = r}
    \cup {q \in {r} : request[q].source = "live"}

\* Nobody is at work on the request.
Quiet(r) ==
    /\ live.on = r => live.stage = "dead"
    /\ \A b \in Buttons : button[b].on = r => button[b].stage = "done"

\* The stream has given up waiting for the request, or its run timed out.
GaveUp(r) ==
    /\ request[r].source = "live"
    /\ \/ live.on = r /\ live.state = "timeout"
       \/ \E i \in DOMAIN messages :
             messages[i].request = r /\ messages[i].state = "timeout"

\* Somebody who knows the result has told the request: its submission, which
\* has seen the link, or the stream, which has waited.
Informed(r, j) ==
    r \in noted[j].links \/ (request[r].source = "live" /\ live.stage # "dead")

\* What the chat says of a tool is what happened, although a message may be
\* written over by another writer: a result it names is the result of the run it
\* names, and a tool it calls "not started" was not started by the stream.
MessagesTrue ==
    \A i \in DOMAIN messages : LET m == messages[i] IN
        CASE m.state = "succeeded" -> run[m.run] = "succeeded"
          [] m.state = "failed" -> run[m.run] \in {"failed", "rejected"}
          [] m.state = "timeout" -> phase[m.run] # "absent"
          [] m.state = "not_started" -> phase[m.request] = "absent"

\* A request that one person, or the stream, has decided ends as its run ended,
\* in whatever order the link, the result and the follow-up are saved.  Left
\* out is what the stream gave up on: it saves "queued" over what the result
\* may have stored, for ever.
StatusFollowsRun ==
    \A r \in Requests, j \in Jobs :
        /\ Quiet(r) /\ DecidedBy(r) = {j} /\ request[r].run = j
        /\ run[j] \in Job!Results
        /\ Informed(r, j) /\ ~GaveUp(r)
        => request[r].status = StatusForRun(run[j])

\* The chat has a message with the result of the request's run.
Tells(r, j) ==
    \E i \in DOMAIN messages :
        /\ messages[i].request = r /\ messages[i].run = j
        /\ messages[i].state = OutcomeState(run[j])

\* A result is told together with its recording, also when the stream has
\* already written that the tool did not end in time, and only the follow-up
\* that the stream is about to write can take it away.
ResultTold ==
    [][ \A r \in Requests, j \in Jobs :
          /\ run'[j] \in Job!Results /\ r \in noted[j].links
          /\ run[j] \in Job!Results => Tells(r, j)
          /\ ~(live.stage = "found" /\ live.on = r)
          => Tells(r, j)' ]_vars

-----------------------------------------------------------------------------
(* Liveness, under the fairness that LiveAnswer states.                    *)

\* Every tool that the stream requests gets its message, if the stream lives.
FollowUpAppears ==
    \A r \in Requests :
        live.on = r ~> live.stage = "dead"
                       \/ \E i \in DOMAIN messages : messages[i].request = r

=============================================================================
