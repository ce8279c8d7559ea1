------------------------- MODULE Diagnostics_proofs -------------------------
(***************************************************************************)
(* Proofs about Diagnostics, for all sets of portal approvals, Telegram    *)
(* updates and views.                                                      *)
(*                                                                         *)
(* What a view is about to save was read earlier: ViewsRight says that it  *)
(* is still true, because a result never changes (Closed).  That a         *)
(* cancellation stands rests on Quiet: as long as the session waits for    *)
(* approval, nothing that could change it later has begun, unless in the   *)
(* portal; and the lock that /cancel holds keeps it so until it saves.     *)
(***************************************************************************)
EXTENDS Diagnostics, TLAPS

Ran == \E j \in Jobs : run[j] = "succeeded"

Closed == \A j \in Jobs : run[j] = "succeeded" => phase[j] = "closed"

ViewsRight == \A v \in Views :
    /\ view[v].phase = "changed" => view[v].target # "none"
    /\ view[v].phase = "changed" /\ view[v].target = "succeeded" => Ran
    /\ view[v].phase \in {"finalizing", "reporting"} => Ran

Quiet == step.run = NoJob /\ \A v \in Views : view[v].phase = "idle"

NotStarted == session = "none" =>
    /\ Quiet /\ PortalIdle
    /\ \A j \in Jobs : phase[j] = "absent"

CancelSafe ==
    /\ session = "cancelled" => chat = "cancelled"
    /\ /\ PortalIdle
       /\ \/ session \in {"waiting_for_approval", "cancelled"}
          \/ chat = "cancelling" /\ seen = "waiting_for_approval"
       => Quiet

Inv == /\ TypeOK
       /\ Closed
       /\ ViewsRight
       /\ SucceededMeansRan
       /\ NotStarted
       /\ TelegramApprovesOnce
       /\ CancelSafe

LEMMA InitInv == Init => Inv
  <1> SUFFICES ASSUME Init PROVE Inv
    OBVIOUS
  <1>1. TypeOK
    BY DEF Init, TypeOK, SessionStatuses, StepStatuses, ApproverPhases, View, IdleView,
           Job!LifecycleInit, Job!Phases, Job!RunStatuses
  <1>2. \A j \in Jobs : run[j] = "absent" /\ phase[j] = "absent"
    BY DEF Init, Job!LifecycleInit
  <1>3. Closed /\ ViewsRight /\ SucceededMeansRan
    BY <1>2 DEF Init, Closed, ViewsRight, SucceededMeansRan, IdleView
  <1>4. NotStarted /\ CancelSafe
    BY <1>2 DEF Init, NotStarted, CancelSafe, Quiet, PortalIdle, IdleView
  <1>5. TelegramApprovesOnce
    BY <1>2 DEF TelegramApprovesOnce, Jobs
  <1> QED
    BY <1>1, <1>3, <1>4, <1>5 DEF Inv

\* A job that is opened is new, and has no result to lose.
LEMMA OpenJob ==
  ASSUME Inv, NEW j \in Jobs, Job!Open({j})
  PROVE  /\ phase[j] = "absent" /\ phase'[j] = "open" /\ run'[j] = "queued"
         /\ \A i \in Jobs \ {j} : phase'[i] = phase[i] /\ run'[i] = run[i]
         /\ phase' \in [Jobs -> Job!Phases] /\ run' \in [Jobs -> Job!RunStatuses]
         /\ Closed'
         /\ Ran => Ran'
  <1>1. /\ phase[j] = "absent"
        /\ phase' = [i \in Jobs |-> IF i = j THEN "open" ELSE phase[i]]
        /\ run' = [i \in Jobs |-> IF i = j THEN "queued" ELSE run[i]]
    BY DEF Job!Open
  <1>2. run[j] # "succeeded"
    BY <1>1 DEF Inv, Closed
  <1>3. phase' \in [Jobs -> Job!Phases] /\ run' \in [Jobs -> Job!RunStatuses]
    BY <1>1 DEF Inv, TypeOK, Job!Phases, Job!RunStatuses
  <1>4. Closed' /\ (Ran => Ran')
    BY <1>1, <1>2 DEF Inv, Closed, Ran
  <1> QED
    BY <1>1, <1>3, <1>4

LEMMA ApproverInv ==
  ASSUME DiagnosticsAssumption, Inv, NEW p \in Approvers, Approve(p) \/ ApproverDies(p)
  PROVE  Inv'
  <1>1. /\ session # "none"
        /\ ~ PortalIdle'
        /\ approver' \in [Approvers -> ApproverPhases]
    <2>1. approver[p] # "idle" => session # "none"
      BY DEF Inv, NotStarted, PortalIdle
    <2>2. CASE Approve(p)
      BY <2>1, <2>2 DEF Approve, Check, CreateJob, QueueStep, RunSession, DenyStep,
         DenySession, LimitSession, LimitStep, Move, Inv, TypeOK, PortalIdle, ApproverPhases
    <2>3. CASE ApproverDies(p)
      BY <2>1, <2>3 DEF ApproverDies, Inv, TypeOK, PortalIdle, ApproverPhases
    <2> QED
      BY <2>2, <2>3
  <1>2. /\ UNCHANGED <<limited, reports, chat, seen, view>>
        /\ session' \in {session, "failed", "running"}
        /\ \/ step' = step
           \/ step' = [step EXCEPT !.status = "failed"]
           \/ step' = [status |-> "queued", run |-> p]
    BY DEF Approve, ApproverDies, Check, CreateJob, QueueStep, RunSession, DenyStep,
           DenySession, LimitSession, LimitStep
  <1>3. p \in Jobs /\ p \notin Updates
    BY DEF DiagnosticsAssumption, Jobs
  <1>4. /\ phase' \in [Jobs -> Job!Phases] /\ run' \in [Jobs -> Job!RunStatuses]
        /\ Closed' /\ (Ran => Ran')
        /\ \A u \in Updates : phase'[u] = phase[u]
    <2>1. CASE CreateJob(p)
      <3>1. Job!Open({p})
        BY <2>1 DEF CreateJob
      <3> QED
        BY <1>3, <3>1, OpenJob DEF Jobs
    <2>2. CASE UNCHANGED <<phase, run>>
      BY <2>2 DEF Inv, TypeOK, Closed, Ran
    <2> QED
      BY <2>1, <2>2 DEF Approve, ApproverDies, Check, QueueStep, RunSession, DenyStep,
         DenySession, LimitSession, LimitStep
  <1>5. /\ step' \in [status : StepStatuses, run : Jobs \cup {NoJob}]
        /\ step'.status \in {step.status, "failed", "queued"}
    BY <1>2, <1>3 DEF Inv, TypeOK, StepStatuses
  <1>6. TypeOK'
    BY <1>1, <1>2, <1>4, <1>5 DEF Inv, TypeOK, SessionStatuses
  <1>7. ViewsRight' /\ SucceededMeansRan'
    BY <1>2, <1>4, <1>5 DEF Inv, ViewsRight, SucceededMeansRan, Ran
  <1>8. NotStarted' /\ CancelSafe'
    BY <1>1, <1>2 DEF Inv, NotStarted, CancelSafe
  <1>9. TelegramApprovesOnce'
    BY <1>4, <1>5 DEF Inv, TelegramApprovesOnce
  <1> QED
    BY <1>4, <1>6, <1>7, <1>8, <1>9 DEF Inv

LEMMA ChatApproveInv ==
  ASSUME DiagnosticsAssumption, Inv, NEW u \in Updates, ChatApprove(u)
  PROVE  Inv'
  <1>1. /\ UNCHANGED <<limited, reports, chat, seen, approver, view>>
        /\ chat = "active" /\ step.status = "awaiting_approval"
    BY DEF ChatApprove
  <1>2. \A t \in Updates : phase[t] = "absent"
    BY <1>1 DEF Inv, TelegramApprovesOnce
  <1>3. u \in Jobs
    BY DEF Jobs
  <1>4. CASE Granted(u)
    <2>1. /\ Job!Open({u}) /\ session' = "running"
          /\ step' = [status |-> "queued", run |-> u]
      BY <1>4 DEF Granted
    <2>2. /\ \A i \in Jobs \ {u} : phase'[i] = phase[i]
          /\ phase' \in [Jobs -> Job!Phases] /\ run' \in [Jobs -> Job!RunStatuses]
          /\ Closed' /\ (Ran => Ran')
      BY <1>3, <2>1, OpenJob
    <2>3. TypeOK'
      BY <1>1, <1>3, <2>1, <2>2 DEF Inv, TypeOK, SessionStatuses, StepStatuses
    <2>4. ViewsRight' /\ SucceededMeansRan'
      BY <1>1, <2>1, <2>2 DEF Inv, ViewsRight, SucceededMeansRan, Ran
    <2>5. NotStarted' /\ CancelSafe'
      BY <1>1, <2>1 DEF NotStarted, CancelSafe
    <2>6. TelegramApprovesOnce'
      BY <1>2, <2>1, <2>2 DEF TelegramApprovesOnce, Jobs
    <2> QED
      BY <2>2, <2>3, <2>4, <2>5, <2>6 DEF Inv
  <1>5. CASE Refused
    <2>1. /\ UNCHANGED <<phase, run>> /\ session' = "failed"
          /\ step' = [step EXCEPT !.status = "failed"]
      BY <1>5 DEF Refused
    <2>2. step' \in [status : StepStatuses, run : Jobs \cup {NoJob}] /\ step'.status = "failed"
      BY <2>1 DEF Inv, TypeOK, StepStatuses
    <2>3. TypeOK'
      BY <1>1, <2>1, <2>2 DEF Inv, TypeOK, SessionStatuses
    <2>4. Closed' /\ ViewsRight' /\ SucceededMeansRan'
      BY <1>1, <2>1, <2>2 DEF Inv, Closed, ViewsRight, SucceededMeansRan, Ran
    <2>5. NotStarted' /\ CancelSafe'
      BY <1>1, <2>1 DEF NotStarted, CancelSafe
    <2>6. TelegramApprovesOnce'
      BY <2>1, <2>2 DEF Inv, TelegramApprovesOnce
    <2> QED
      BY <2>3, <2>4, <2>5, <2>6 DEF Inv
  <1> QED
    BY <1>4, <1>5 DEF ChatApprove

\* The steps of the chat and of the administrator that leave the jobs, the
\* approvals and the views alone.
LEMMA ChatInv ==
  ASSUME Inv, \/ Start \/ AdminSetLimit \/ CancelRead \/ CancelWrite
              \/ CancelDies \/ ChatExpires
  PROVE  Inv'
  <1>1. UNCHANGED <<reports, phase, run, approver, view>>
    BY DEF Start, AdminSetLimit, CancelRead, CancelWrite, CancelDies, ChatExpires
  <1>2. Closed' /\ ViewsRight'
    BY <1>1 DEF Inv, Closed, ViewsRight, Ran
  <1>3. CASE Start
    <2>1. TypeOK'
      BY <1>1, <1>3 DEF Start, Inv, TypeOK, SessionStatuses, StepStatuses
    <2>2. SucceededMeansRan'
      BY <1>1, <1>3 DEF Start, Inv, SucceededMeansRan
    <2>3. NotStarted' /\ CancelSafe'
      BY <1>1, <1>3 DEF Start, Inv, NotStarted, CancelSafe, Quiet, PortalIdle
    <2>4. TelegramApprovesOnce'
      BY <1>1, <1>3 DEF Start, Inv, NotStarted, TelegramApprovesOnce, Jobs
    <2> QED
      BY <1>2, <2>1, <2>2, <2>3, <2>4 DEF Inv
  <1>4. CASE CancelWrite
    <2>1. /\ step' \in [status : StepStatuses, run : Jobs \cup {NoJob}]
          /\ step'.run = step.run
          /\ step'.status \in {step.status, "cancelled"}
      BY <1>4 DEF CancelWrite, Inv, TypeOK, StepStatuses
    <2>2. /\ chat = "cancelling" /\ chat' = "cancelled"
          /\ UNCHANGED <<limited, seen>>
          /\ session' = (IF seen = "waiting_for_approval" THEN "cancelled" ELSE session)
      BY <1>4 DEF CancelWrite
    <2>3. TypeOK'
      BY <1>1, <2>1, <2>2 DEF Inv, TypeOK, SessionStatuses
    <2>4. SucceededMeansRan' /\ TelegramApprovesOnce'
      BY <1>1, <2>1, <2>2 DEF Inv, SucceededMeansRan, TelegramApprovesOnce
    <2>5. NotStarted' /\ CancelSafe'
      BY <1>1, <2>1, <2>2 DEF Inv, NotStarted, CancelSafe, Quiet, PortalIdle
    <2> QED
      BY <1>2, <2>3, <2>4, <2>5 DEF Inv
  <1>5. CASE AdminSetLimit \/ CancelRead \/ CancelDies \/ ChatExpires
    <2>1. UNCHANGED <<session, step>>
      BY <1>5 DEF AdminSetLimit, CancelRead, CancelDies, ChatExpires
    <2>2. TypeOK'
      BY <1>1, <1>5, <2>1
         DEF AdminSetLimit, CancelRead, CancelDies, ChatExpires, Inv, TypeOK
    <2>3. SucceededMeansRan' /\ TelegramApprovesOnce'
      BY <1>1, <2>1 DEF Inv, SucceededMeansRan, TelegramApprovesOnce
    <2>4. NotStarted' /\ CancelSafe'
      BY <1>1, <1>5, <2>1 DEF AdminSetLimit, CancelRead, CancelDies, ChatExpires,
         Inv, NotStarted, CancelSafe, Quiet, PortalIdle
    <2> QED
      BY <1>2, <2>2, <2>3, <2>4 DEF Inv
  <1> QED
    BY <1>3, <1>4, <1>5

\* A job is settled, or closed without a result.
LEMMA JobInv ==
  ASSUME Inv, NEW j \in Jobs, Settle(j) \/ Discard(j)
  PROVE  Inv'
  <1>1. /\ UNCHANGED <<session, limited, step, reports, chat, seen, approver, view>>
        /\ phase[j] = "open"
        /\ \A i \in Jobs \ {j} : run'[i] = run[i] /\ phase'[i] = phase[i]
        /\ \/ phase'[j] = "closed"
           \/ phase'[j] = "dropped" /\ run'[j] = run[j]
        /\ phase' \in [Jobs -> Job!Phases] /\ run' \in [Jobs -> Job!RunStatuses]
    BY DEF Settle, Discard, Job!Settle, Job!Discard, Inv, TypeOK, Job!Phases,
           Job!RunStatuses
  <1>2. run[j] # "succeeded"
    BY <1>1 DEF Inv, Closed
  <1>3. Closed' /\ (Ran => Ran')
    BY <1>1, <1>2 DEF Inv, Closed, Ran
  <1>4. TypeOK'
    BY <1>1 DEF Inv, TypeOK
  <1>5. ViewsRight' /\ SucceededMeansRan'
    BY <1>1, <1>3 DEF Inv, ViewsRight, SucceededMeansRan, Ran
  <1>6. NotStarted' /\ CancelSafe'
    BY <1>1 DEF Inv, NotStarted, CancelSafe, Quiet, PortalIdle
  <1>7. TelegramApprovesOnce'
    BY <1>1 DEF Inv, TelegramApprovesOnce, Jobs
  <1> QED
    BY <1>3, <1>4, <1>5, <1>6, <1>7 DEF Inv

\* A view of a session that has nothing to show does nothing.
LEMMA SyncNotQuiet ==
  ASSUME Inv, NEW v \in Views, Sync(v) \/ ViewDies(v)
  PROVE  ~ Quiet
  BY DEF Sync, ViewDies, SyncRead, SyncSaveStep, SyncJudge, FailSession,
         FinalizeSession, CreateReport, Quiet

LEMMA SyncInv ==
  ASSUME Inv, NEW v \in Views, Sync(v) \/ ViewDies(v)
  PROVE  Inv'
  <1>1. UNCHANGED <<limited, chat, seen, phase, run, approver>>
    BY DEF Sync, ViewDies, SyncRead, SyncSaveStep, SyncJudge, FailSession,
           FinalizeSession, CreateReport
  <1>2. view[v] \in View
    BY DEF Inv, TypeOK
  <1>3. IdleView \in View /\ IdleView.phase = "idle"
    BY DEF View, IdleView
  <1>4. ASSUME NEW w \in View, view' = [view EXCEPT ![v] = w],
               w.phase = "changed" => w.target # "none",
               w.phase = "changed" /\ w.target = "succeeded" => Ran,
               w.phase \in {"finalizing", "reporting"} => Ran
        PROVE  view' \in [Views -> View] /\ ViewsRight'
    <2>1. Ran' <=> Ran
      BY <1>1 DEF Ran
    <2> QED
      BY <1>4, <2>1 DEF Inv, TypeOK, ViewsRight
  <1>5. ASSUME view' \in [Views -> View], ViewsRight',
               step' \in [status : StepStatuses, run : Jobs \cup {NoJob}],
               step'.status \in {step.status, "queued", "succeeded", "failed"},
               session' \in {session, "succeeded", "failed"},
               reports' \in Nat,
               session' = "succeeded" \/ reports' > 0 \/ step'.status = "succeeded" => Ran
        PROVE  Inv'
    <2>1. TypeOK' /\ Closed'
      BY <1>1, <1>5 DEF Inv, TypeOK, Closed, SessionStatuses
    <2>2. SucceededMeansRan' /\ TelegramApprovesOnce'
      BY <1>1, <1>5 DEF Inv, SucceededMeansRan, TelegramApprovesOnce, Ran
    <2>3. NotStarted' /\ CancelSafe'
      BY <1>1, <1>5, SyncNotQuiet DEF Inv, NotStarted, CancelSafe, PortalIdle
    <2> QED
      BY <1>5, <2>1, <2>2, <2>3 DEF Inv
  <1>6. /\ SucceededMeansRan /\ step \in [status : StepStatuses, run : Jobs \cup {NoJob}]
        /\ reports \in Nat
    BY DEF Inv, TypeOK
  <1>7. CASE SyncRead(v)
    <2> DEFINE w == [phase |-> "changed", target |-> StepStatusFor(run[step.run])]
    <2>1. w \in View /\ w.target # "none" /\ w.phase = "changed"
      BY DEF View, StepStatusFor
    <2>2. w.target = "succeeded" => Ran
      BY <1>6, <1>7 DEF SyncRead, StepStatusFor, Ran
    <2>3. view' \in [Views -> View] /\ ViewsRight'
      BY <1>4, <1>7, <2>1, <2>2 DEF SyncRead
    <2> QED
      BY <1>5, <1>6, <1>7, <2>3 DEF SyncRead, SucceededMeansRan, Ran
  <1>8. CASE SyncSaveStep(v)
    <2> DEFINE w == [view[v] EXCEPT !.phase = "saved"]
    <2>1. w \in View /\ w.phase = "saved" /\ view' = [view EXCEPT ![v] = w]
      BY <1>2, <1>8 DEF SyncSaveStep, View
    <2>2. view' \in [Views -> View] /\ ViewsRight'
      BY <1>4, <2>1
    <2>3. /\ view[v].target \in {"queued", "succeeded", "failed"}
          /\ view[v].target = "succeeded" => Ran
      BY <1>2, <1>8 DEF SyncSaveStep, Inv, ViewsRight, View
    <2>4. step' \in [status : StepStatuses, run : Jobs \cup {NoJob}]
          /\ step'.status = view[v].target
      BY <1>6, <1>8, <2>3 DEF SyncSaveStep, StepStatuses
    <2> QED
      BY <1>5, <1>6, <1>8, <2>2, <2>3, <2>4 DEF SyncSaveStep, SucceededMeansRan, Ran
  <1>9. CASE SyncJudge(v)
    <2>1. step.status = "succeeded" => Ran
      BY <1>6 DEF SucceededMeansRan, Ran
    <2>2. PICK w \in {IdleView, [IdleView EXCEPT !.phase = "finalizing"],
                      [IdleView EXCEPT !.phase = "failing"]} :
            /\ view' = [view EXCEPT ![v] = w]
            /\ w.phase = "finalizing" => Ran
      BY <1>9, <2>1 DEF SyncJudge, IdleView
    <2>3. w \in View /\ w.phase \in {"idle", "finalizing", "failing"}
      BY <2>2 DEF View, IdleView
    <2>4. view' \in [Views -> View] /\ ViewsRight'
      BY <1>4, <2>2, <2>3
    <2> QED
      BY <1>5, <1>6, <1>9, <2>4 DEF SyncJudge, SucceededMeansRan, Ran
  <1>10. CASE FinalizeSession(v)
    <2> DEFINE w == [view[v] EXCEPT !.phase = "reporting"]
    <2>1. w \in View /\ w.phase = "reporting" /\ view' = [view EXCEPT ![v] = w]
      BY <1>2, <1>10 DEF FinalizeSession, View
    <2>2. Ran
      BY <1>10 DEF FinalizeSession, Inv, ViewsRight
    <2>3. view' \in [Views -> View] /\ ViewsRight'
      BY <1>4, <2>1, <2>2
    <2> QED
      BY <1>5, <1>6, <1>10, <2>2, <2>3 DEF FinalizeSession
  <1>11. CASE FailSession(v) \/ CreateReport(v) \/ ViewDies(v)
    <2>1. view' = [view EXCEPT ![v] = IdleView]
      BY <1>11 DEF FailSession, CreateReport, ViewDies
    <2>2. view' \in [Views -> View] /\ ViewsRight'
      BY <1>3, <1>4, <2>1
    <2>3. CreateReport(v) => Ran
      BY DEF CreateReport, Inv, ViewsRight
    <2> QED
      BY <1>5, <1>6, <1>11, <2>2, <2>3
         DEF FailSession, CreateReport, ViewDies, SucceededMeansRan, Ran
  <1> QED
    BY <1>7, <1>8, <1>9, <1>10, <1>11 DEF Sync

LEMMA NextInv == Inv /\ [Next]_vars => Inv'
  <1> SUFFICES ASSUME Inv, [Next]_vars PROVE Inv'
    OBVIOUS
  <1>1. ASSUME NEW p \in Approvers, Approve(p) \/ ApproverDies(p) PROVE Inv'
    BY <1>1, ApproverInv, DiagnosticsAssumption
  <1>2. ASSUME NEW u \in Updates, ChatApprove(u) PROVE Inv'
    BY <1>2, ChatApproveInv, DiagnosticsAssumption
  <1>3. ASSUME NEW j \in Jobs, Settle(j) \/ Discard(j) PROVE Inv'
    BY <1>3, JobInv
  <1>4. ASSUME NEW v \in Views, Sync(v) \/ ViewDies(v) PROVE Inv'
    BY <1>4, SyncInv
  <1>5. CASE UNCHANGED vars
    BY <1>5 DEF vars, Inv, TypeOK, Closed, ViewsRight, Ran, SucceededMeansRan, NotStarted,
                Quiet, PortalIdle, TelegramApprovesOnce, CancelSafe
  <1> QED
    BY <1>1, <1>2, <1>3, <1>4, <1>5, ChatInv DEF Next, Progress, Failure

LEMMA Invariance == Spec => []Inv
  BY InitInv, NextInv, PTL DEF Spec

\* Type correctness (TypeOK) of the session, its step, jobs and requests.
THEOREM TypeCorrect == Spec => []TypeOK
  <1>1. Inv => TypeOK
    BY DEF Inv
  <1> QED
    BY <1>1, Invariance, PTL

\* However many portal approvals, Telegram updates and views overlap, die or
\* come late, success is reported only after a tool run that succeeded.
THEOREM SucceededMeansRanHolds == Spec => []SucceededMeansRan
  <1>1. Inv => SucceededMeansRan
    BY DEF Inv
  <1> QED
    BY <1>1, Invariance, PTL

\* However often /approve is sent, Telegram opens one job at most.
THEOREM TelegramApprovesOnceHolds == Spec => []TelegramApprovesOnce
  <1>1. Inv => TelegramApprovesOnce
    BY DEF Inv
  <1> QED
    BY <1>1, Invariance, PTL

\* A cancellation is undone by nothing but an approval in the portal.
THEOREM CancelStandsHolds == Spec => CancelStands
  <1> DEFINE Stands == session = "cancelled" /\ session' # "cancelled" => ~ PortalIdle
  <1>1. Inv /\ [Next]_vars => [Stands]_vars
    <2> SUFFICES ASSUME Inv, [Next]_vars, session = "cancelled", session' # "cancelled",
                        PortalIdle
                 PROVE  FALSE
      OBVIOUS
    <2>1. chat = "cancelled" /\ Quiet
      BY DEF Inv, CancelSafe
    <2>2. ASSUME NEW p \in Approvers, Approve(p) \/ ApproverDies(p) PROVE FALSE
      BY <2>2 DEF Approve, ApproverDies, Check, CreateJob, QueueStep, RunSession, DenyStep,
                  DenySession, LimitSession, LimitStep, Move, PortalIdle
    <2>3. ASSUME NEW v \in Views, Sync(v) \/ ViewDies(v) PROVE FALSE
      BY <2>1, <2>3, SyncNotQuiet
    <2>4. CASE \/ \E u \in Updates : ChatApprove(u)
               \/ \E j \in Jobs : Settle(j) \/ Discard(j)
               \/ Start \/ AdminSetLimit \/ CancelRead \/ CancelWrite \/ CancelDies
               \/ ChatExpires
      BY <2>1, <2>4 DEF ChatApprove, Settle, Discard, Start, AdminSetLimit, CancelRead,
                        CancelWrite, CancelDies, ChatExpires
    <2>5. CASE UNCHANGED vars
      BY <2>5 DEF vars
    <2> QED
      BY <2>2, <2>3, <2>4, <2>5 DEF Next, Progress, Failure
  <1> HIDE DEF Stands
  <1>2. Spec => [][Stands]_vars
    BY <1>1, Invariance, PTL DEF Spec
  <1> QED
    BY <1>2 DEF CancelStands, Stands

-----------------------------------------------------------------------------
(* The jobs of a session are those that AgentJobs promises.                *)

\* A portal request that is about to create its job has none yet, and neither has
\* an /approve that finds a step to approve: that Job!Open asks for it forbids
\* them nothing.
OpensNew ==
    /\ \A p \in Approvers : approver[p] = "checked" => phase[p] = "absent"
    /\ \A u \in Updates : step.status = "awaiting_approval" => phase[u] = "absent"

\* Inductive: an approval opens its job once, on its way from the check.
Unopened ==
    \A p \in Approvers : approver[p] \in {"idle", "checked"} => phase[p] = "absent"

LEMMA UnopenedStep == TypeOK /\ Unopened /\ [Next]_vars => Unopened'
  <1> SUFFICES ASSUME TypeOK, Unopened, [Next]_vars, NEW p \in Approvers,
                      approver'[p] \in {"idle", "checked"}
               PROVE  phase'[p] = "absent"
    BY DEF Unopened
  <1> USE DEF TypeOK
  <1>1. ASSUME NEW q \in Approvers, Approve(q) \/ ApproverDies(q)
        PROVE  phase'[p] = "absent"
    <2>1. CASE CreateJob(q)
      <3>1. q # p /\ approver[p] \in {"idle", "checked"}
        BY <2>1 DEF CreateJob, Move
      <3> QED
        BY <2>1, <3>1 DEF CreateJob, Job!Open, Unopened, Jobs
    <2>2. CASE Check(q)
      <3>1. approver[p] \in {"idle", "checked"}
        BY <2>2 DEF Check, Move
      <3> QED
        BY <2>2, <3>1 DEF Check, Unopened
    <2>3. CASE \/ QueueStep(q) \/ RunSession(q) \/ DenyStep(q) \/ DenySession(q)
               \/ LimitSession(q) \/ LimitStep(q) \/ ApproverDies(q)
      <3>1. approver[p] \in {"idle", "checked"} /\ phase' = phase
        BY <2>3 DEF QueueStep, RunSession, DenyStep, DenySession, LimitSession, LimitStep,
                    ApproverDies, Move
      <3> QED
        BY <3>1 DEF Unopened
    <2> QED
      BY <1>1, <2>1, <2>2, <2>3 DEF Approve
  <1>2. ASSUME NEW u \in Updates, ChatApprove(u) PROVE phase'[p] = "absent"
    <2>1. p # u /\ p \in Jobs
      BY DiagnosticsAssumption DEF Jobs
    <2>2. phase'[p] = phase[p] /\ approver' = approver
      BY <1>2, <2>1 DEF ChatApprove, Granted, Refused, Job!Open
    <2> QED
      BY <2>2 DEF Unopened
  <1>3. ASSUME NEW j \in Jobs, Settle(j) \/ Discard(j) PROVE phase'[p] = "absent"
    <2>1. phase[p] = "absent" /\ phase[j] = "open" /\ p \in Jobs
      BY <1>3 DEF Settle, Discard, Job!Settle, Job!Discard, Unopened, Jobs
    <2> QED
      BY <1>3, <2>1 DEF Settle, Discard, Job!Settle, Job!Discard
  <1>4. CASE UNCHANGED <<approver, phase>>
    BY <1>4 DEF Unopened
  <1> QED
    BY <1>1, <1>2, <1>3, <1>4
       DEF Next, Progress, Failure, Start, AdminSetLimit, CancelRead, CancelWrite, CancelDies,
           ChatExpires, Sync, SyncRead, SyncSaveStep, SyncJudge, FailSession,
           FinalizeSession, CreateReport, ViewDies, vars

LEMMA LifecycleStep ==
  ASSUME [Next]_vars
  PROVE  [Job!LifecycleNext]_(Job!lifecycleVars)
  <1>1. ASSUME NEW p \in Approvers, CreateJob(p) PROVE Job!LifecycleNext
    BY <1>1 DEF CreateJob, Jobs, Job!LifecycleNext
  <1>2. ASSUME NEW u \in Updates, ChatApprove(u)
        PROVE  [Job!LifecycleNext]_(Job!lifecycleVars)
    BY <1>2 DEF ChatApprove, Granted, Refused, Jobs, Job!LifecycleNext, Job!lifecycleVars
  <1>3. ASSUME NEW j \in Jobs, Settle(j) \/ Discard(j) PROVE Job!LifecycleNext
    BY <1>3 DEF Settle, Discard, Job!LifecycleNext
  <1>4. CASE UNCHANGED <<phase, run>>
    BY <1>4 DEF Job!lifecycleVars
  <1> QED
    BY <1>1, <1>2, <1>3, <1>4
       DEF Next, Progress, Failure, Start, AdminSetLimit, Approve, Check, QueueStep,
           RunSession, DenyStep, DenySession, LimitSession, LimitStep, ApproverDies,
           CancelRead, CancelWrite, CancelDies, ChatExpires, Sync, SyncRead,
           SyncSaveStep, SyncJudge, FailSession, FinalizeSession, CreateReport,
           ViewDies, vars

\* A session does nothing with its jobs but what AgentJobs was shown to do with
\* them (LifecycleImplemented), and no approval opens a job twice.
THEOREM JobsKept == Spec => Job!LifecycleSpec /\ []OpensNew
  <1>1. Init => Job!LifecycleInit
    BY DEF Init
  <1>2. Init => Unopened
    BY DEF Init, Unopened, Job!LifecycleInit, Jobs
  <1>3. Inv /\ Unopened => OpensNew
    BY DEF Inv, TelegramApprovesOnce, Unopened, OpensNew
  <1>4. Spec => Job!LifecycleSpec
    BY <1>1, LifecycleStep, PTL DEF Spec, Job!LifecycleSpec
  <1>5. Spec => []OpensNew
    BY <1>2, <1>3, UnopenedStep, TypeCorrect, Invariance, PTL DEF Spec
  <1> QED
    BY <1>4, <1>5

=============================================================================
