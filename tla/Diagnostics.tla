---------------------------- MODULE Diagnostics ----------------------------
(***************************************************************************)
(* One diagnostic session (apps/diagnostics/services.py) as the portal     *)
(* (apps/diagnostics/views.py) and a Telegram chat                         *)
(* (apps/telegram_integration/services.py) drive it: it is started with    *)
(* one tool step that awaits approval, an approval creates the step's job, *)
(* and whoever looks at the session copies the job's result to the step    *)
(* and ends the session.                                                   *)
(*                                                                         *)
(* A Telegram approval is one transaction that locks the chat's state, the *)
(* session and the step: one action.  A portal approval and the            *)
(* synchronisation lock nothing and commit after every save: each of their *)
(* reads and saves is an action.  Every approval that gets that far opens  *)
(* a job of its own, so the request names its job.                         *)
(***************************************************************************)
EXTENDS Naturals, FiniteSets

CONSTANTS
    Approvers,    \* portal requests that approve the step
    Updates,      \* Telegram updates that approve the next step
    Views,        \* requests that show the session (portal page, /session)
    NoJob         \* a step's tool_run before it has one

Jobs == Approvers \cup Updates

ASSUME DiagnosticsAssumption ==
    NoJob \notin Jobs /\ Approvers \cap Updates = {}

VARIABLES
    session,      \* DiagnosticSession.status, or "none"
    limited,      \* max_tool_runs was set to 0 by an administrator
    step,         \* the tool step: [status, run]
    reports,      \* how many final report steps the session has
    chat,         \* TelegramDiagnosticState.state of the session's chat
    seen,         \* the session status that a /cancel has read
    phase,        \* JobLifecycle: what became of each job
    run,          \* JobLifecycle: ToolRun.status
    approver,     \* [Approvers -> how far the request is]
    view          \* [Views -> how far the synchronisation is]

vars == <<session, limited, step, reports, chat, seen, phase, run, approver, view>>

Job == INSTANCE JobLifecycle

-----------------------------------------------------------------------------

SessionStatuses ==
    {"none", "waiting_for_approval", "running", "succeeded", "failed", "cancelled"}

StepStatuses ==
    {"none", "awaiting_approval", "queued", "succeeded", "failed", "cancelled"}

\* checked: the step is the one that awaits approval; created: the job is
\* committed; queued: the step is saved; denied, limited: the first of the
\* two saves that record a refusal is done.
ApproverPhases ==
    {"idle", "checked", "limit", "created", "queued", "denied", "limited", "done"}

\* changed: a step has another status (target) now; saved: it is stored;
\* finalizing, failing: the verdict; reporting: the session is stored.
View == [phase : {"idle", "changed", "saved", "finalizing", "failing", "reporting"},
         target : {"none", "queued", "succeeded", "failed"}]

IdleView == [phase |-> "idle", target |-> "none"]

TypeOK ==
    /\ session \in SessionStatuses
    /\ limited \in BOOLEAN
    /\ step \in [status : StepStatuses, run : Jobs \cup {NoJob}]
    /\ reports \in Nat
    /\ chat \in {"none", "active", "cancelling", "cancelled", "expired"}
    /\ seen \in SessionStatuses
    /\ phase \in [Jobs -> Job!Phases]
    /\ run \in [Jobs -> Job!RunStatuses]
    /\ approver \in [Approvers -> ApproverPhases]
    /\ view \in [Views -> View]

Init ==
    /\ session = "none"
    /\ limited = FALSE
    /\ step = [status |-> "none", run |-> NoJob]
    /\ reports = 0
    /\ chat = "none"
    /\ seen = "none"
    /\ Job!LifecycleInit
    /\ approver = [p \in Approvers |-> "idle"]
    /\ view = [v \in Views |-> IdleView]

-----------------------------------------------------------------------------
(* start_diagnostic_session, from the portal or by the confirmation of the *)
(* Telegram dialogue, plans the first tool in the same transaction; no     *)
(* code plans another one.                                                 *)

Start ==
    /\ session = "none"
    /\ session' = "waiting_for_approval"
    /\ step' = [status |-> "awaiting_approval", run |-> NoJob]
    /\ chat' \in {"none", "active"}
    /\ UNCHANGED <<limited, reports, seen, phase, run, approver, view>>

\* The admin form of the session.  (With the default of 10 one tool step
\* never reaches the limit.)
AdminSetLimit ==
    /\ limited' = ~ limited
    /\ UNCHANGED <<session, step, reports, chat, seen, phase, run, approver, view>>

-----------------------------------------------------------------------------
(* diagnostic_step_approve and approve_diagnostic_step, in the portal.     *)

Move(p, from, to) ==
    /\ approver[p] = from
    /\ approver' = [approver EXCEPT ![p] = to]

Check(p) ==
    /\ session # "none"
    /\ Move(p, "idle", IF step.status # "awaiting_approval" THEN "done"
                       ELSE IF limited THEN "limit" ELSE "checked")
    /\ UNCHANGED <<session, limited, step, reports, chat, seen, phase, run, view>>

LimitSession(p) ==
    /\ Move(p, "limit", "limited")
    /\ session' = "failed"
    /\ UNCHANGED <<limited, step, reports, chat, seen, phase, run, view>>

\* The policy gates refuse the tool; deny() commits nothing of the job.
DenyStep(p) ==
    /\ Move(p, "checked", "denied")
    /\ step' = [step EXCEPT !.status = "failed"]
    /\ UNCHANGED <<session, limited, reports, chat, seen, phase, run, view>>

DenySession(p) ==
    /\ Move(p, "denied", "done")
    /\ session' = "failed"
    /\ UNCHANGED <<limited, step, reports, chat, seen, phase, run, view>>

LimitStep(p) ==
    /\ Move(p, "limited", "done")
    /\ step' = [step EXCEPT !.status = "failed"]
    /\ UNCHANGED <<session, limited, reports, chat, seen, phase, run, view>>

CreateJob(p) ==
    /\ Move(p, "checked", "created")
    /\ Job!Open({p})
    /\ UNCHANGED <<session, limited, step, reports, chat, seen, view>>

QueueStep(p) ==
    /\ Move(p, "created", "queued")
    /\ step' = [status |-> "queued", run |-> p]
    /\ UNCHANGED <<session, limited, reports, chat, seen, phase, run, view>>

\* Whatever the session has become meanwhile.
RunSession(p) ==
    /\ Move(p, "queued", "done")
    /\ session' = "running"
    /\ UNCHANGED <<limited, step, reports, chat, seen, phase, run, view>>

ApproverDies(p) ==
    /\ approver[p] \notin {"idle", "done"}
    /\ approver' = [approver EXCEPT ![p] = "done"]
    /\ UNCHANGED <<session, limited, step, reports, chat, seen, phase, run, view>>

-----------------------------------------------------------------------------
(* The Telegram chat: approve_active_diagnostic_step, which calls          *)
(* approve_diagnostic_step, cancel_diagnostic_state, and the expiry that   *)
(* active_diagnostic_state stores.                                         *)

Granted(u) ==
    /\ Job!Open({u})
    /\ step' = [status |-> "queued", run |-> u]
    /\ session' = "running"

Refused ==
    /\ step' = [step EXCEPT !.status = "failed"]
    /\ session' = "failed"
    /\ UNCHANGED <<phase, run>>

\* Mutant: the session's status decides, not the step's.
ChatApproveRunning(u) ==
    /\ chat = "active"
    /\ session \in {"waiting_for_approval", "running"}
    /\ (~ limited /\ Granted(u)) \/ Refused
    /\ UNCHANGED <<limited, reports, chat, seen, approver, view>>

ChatApprove(u) ==
    /\ chat = "active"
    /\ step.status = "awaiting_approval"
    /\ (~ limited /\ Granted(u)) \/ Refused
    /\ UNCHANGED <<limited, reports, chat, seen, approver, view>>

\* The chat's state is locked; the session is only read.
CancelRead ==
    /\ chat = "active"
    /\ chat' = "cancelling"
    /\ seen' = session
    /\ UNCHANGED <<session, limited, step, reports, phase, run, approver, view>>

\* Mutant: a session whose tool is already running is cancelled too.
CancelWriteRunning ==
    /\ chat = "cancelling"
    /\ chat' = "cancelled"
    /\ IF seen \in {"waiting_for_approval", "running"}
       THEN /\ session' = "cancelled"
            /\ step' = IF step.status = "awaiting_approval"
                       THEN [step EXCEPT !.status = "cancelled"] ELSE step
       ELSE UNCHANGED <<session, step>>
    /\ UNCHANGED <<limited, reports, seen, phase, run, approver, view>>

CancelWrite ==
    /\ chat = "cancelling"
    /\ chat' = "cancelled"
    /\ IF seen = "waiting_for_approval"
       THEN /\ session' = "cancelled"
            /\ step' = IF step.status = "awaiting_approval"
                       THEN [step EXCEPT !.status = "cancelled"] ELSE step
       ELSE UNCHANGED <<session, step>>
    /\ UNCHANGED <<limited, reports, seen, phase, run, approver, view>>

CancelDies ==
    /\ chat = "cancelling"
    /\ chat' = "active"
    /\ UNCHANGED <<session, limited, step, reports, seen, phase, run, approver, view>>

ChatExpires ==
    /\ chat = "active"
    /\ chat' = "expired"
    /\ UNCHANGED <<session, limited, step, reports, seen, phase, run, approver, view>>

-----------------------------------------------------------------------------
(* What happens to the jobs.                                               *)

Settle(j) ==
    /\ \E s \in Job!Results : Job!Settle(j, s)
    /\ UNCHANGED <<session, limited, step, reports, chat, seen, approver, view>>

Discard(j) ==
    /\ Job!Discard(j)
    /\ UNCHANGED <<session, limited, step, reports, chat, seen, approver, view>>

-----------------------------------------------------------------------------
(* sync_completed_tool_runs and finalize_session.                          *)

\* Mutant: whatever did not fail has succeeded.
StepStatusUnlessFailed(status) ==
    CASE status = "failed" -> "failed"
      [] status \in {"absent", "queued"} -> "queued"
      [] OTHER -> "succeeded"

\* terminal_status_map and active_status_map.
StepStatusFor(status) ==
    CASE status = "succeeded" -> "succeeded"
      [] status \in {"failed", "rejected", "timeout"} -> "failed"
      [] OTHER -> "queued"

SyncRead(v) ==
    /\ view[v].phase = "idle"
    /\ step.run # NoJob
    /\ step.status # StepStatusFor(run[step.run])
    /\ view' = [view EXCEPT ![v] =
                  [phase |-> "changed", target |-> StepStatusFor(run[step.run])]]
    /\ UNCHANGED <<session, limited, step, reports, chat, seen, phase, run, approver>>

SyncSaveStep(v) ==
    /\ view[v].phase = "changed"
    /\ step' = [step EXCEPT !.status = view[v].target]
    /\ view' = [view EXCEPT ![v].phase = "saved"]
    /\ UNCHANGED <<session, limited, reports, chat, seen, phase, run, approver>>

\* Mutant: a failed step ends nothing.
SyncJudgeSuccess(v) ==
    /\ view[v].phase = "saved"
    /\ view' = [view EXCEPT ![v] =
          IF step.status = "succeeded" THEN [IdleView EXCEPT !.phase = "finalizing"]
          ELSE IdleView]
    /\ UNCHANGED <<session, limited, step, reports, chat, seen, phase, run, approver>>

\* The steps are read again; the final report steps there are have succeeded.
SyncJudge(v) ==
    /\ view[v].phase = "saved"
    /\ view' = [view EXCEPT ![v] =
          IF step.status = "succeeded" THEN [IdleView EXCEPT !.phase = "finalizing"]
          ELSE IF step.status = "failed" THEN [IdleView EXCEPT !.phase = "failing"]
          ELSE IdleView]
    /\ UNCHANGED <<session, limited, step, reports, chat, seen, phase, run, approver>>

FailSession(v) ==
    /\ view[v].phase = "failing"
    /\ session' = "failed"
    /\ view' = [view EXCEPT ![v] = IdleView]
    /\ UNCHANGED <<limited, step, reports, chat, seen, phase, run, approver>>

FinalizeSession(v) ==
    /\ view[v].phase = "finalizing"
    /\ session' = "succeeded"
    /\ view' = [view EXCEPT ![v].phase = "reporting"]
    /\ UNCHANGED <<limited, step, reports, chat, seen, phase, run, approver>>

CreateReport(v) ==
    /\ view[v].phase = "reporting"
    /\ reports' = reports + 1
    /\ view' = [view EXCEPT ![v] = IdleView]
    /\ UNCHANGED <<session, limited, step, chat, seen, phase, run, approver>>

ViewDies(v) ==
    /\ view[v].phase # "idle"
    /\ view' = [view EXCEPT ![v] = IdleView]
    /\ UNCHANGED <<session, limited, step, reports, chat, seen, phase, run, approver>>

-----------------------------------------------------------------------------

Approve(p) ==
    \/ Check(p) \/ CreateJob(p) \/ QueueStep(p) \/ RunSession(p)
    \/ DenyStep(p) \/ DenySession(p) \/ LimitSession(p) \/ LimitStep(p)

Sync(v) ==
    \/ SyncRead(v) \/ SyncSaveStep(v) \/ SyncJudge(v)
    \/ FailSession(v) \/ FinalizeSession(v) \/ CreateReport(v)

Progress ==
    \/ Start \/ AdminSetLimit
    \/ \E p \in Approvers : Approve(p)
    \/ \E u \in Updates : ChatApprove(u)
    \/ CancelRead \/ CancelWrite \/ ChatExpires
    \/ \E j \in Jobs : Settle(j)
    \/ \E v \in Views : Sync(v)

Failure ==
    \/ \E p \in Approvers : ApproverDies(p)
    \/ CancelDies
    \/ \E j \in Jobs : Discard(j)
    \/ \E v \in Views : ViewDies(v)

Next == Progress \/ Failure

Spec == Init /\ [][Next]_vars

-----------------------------------------------------------------------------
(* Properties *)

\* A session that is reported as succeeded, or that has a final report, has
\* had a tool run that succeeded, in whatever order approvals, results and
\* views came; and so has a step that is shown as succeeded.
SucceededMeansRan ==
    session = "succeeded" \/ reports > 0 \/ step.status = "succeeded"
        => \E j \in Jobs : run[j] = "succeeded"

\* tests/unit/test_sprint9_telegram_diagnostics.py: "repeated approval does
\* not duplicate jobs": /approve creates one job at most, however often it is
\* sent, also while the portal approves, refuses or shows the same step.
TelegramApprovesOnce ==
    \A u \in Updates : phase[u] # "absent" =>
        /\ step.status # "awaiting_approval"
        /\ \A t \in Updates \ {u} : phase[t] = "absent"

\* Without an approval under way in the portal a cancelled session stays
\* cancelled: neither the chat, nor a result, nor a late view revives it.
PortalIdle == \A p \in Approvers : approver[p] = "idle"

CancelStands ==
    [][session = "cancelled" /\ session' # "cancelled" => ~ PortalIdle]_vars

=============================================================================
