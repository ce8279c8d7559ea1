--------------------------- MODULE MCDiagnostics ---------------------------
(* Diagnostics on a small instance.  One run asks both questions: what     *)
(* holds whatever fails and however the requests overlap, and that a       *)
(* session whose tool runs ends when it is driven by Telegram and nothing  *)
(* fails.                                                                  *)
EXTENDS Diagnostics, TLC

VARIABLE calm     \* chosen at the start: is the session left undisturbed?

allVars == <<vars, calm>>

MCInit == Init /\ calm \in BOOLEAN

\* Undisturbed: no approval in the portal, whose RunSession may come after
\* the session has ended; nobody dies; no job is discarded.
CalmStep ==
    \/ Start \/ AdminSetLimit
    \/ \E u \in Updates : ChatApprove(u)
    \/ CancelRead \/ CancelWrite \/ ChatExpires
    \/ \E j \in Jobs : Settle(j)
    \/ \E v \in Views : Sync(v)

MCNext ==
    /\ IF calm THEN CalmStep ELSE Next
    /\ UNCHANGED calm

\* Jobs are settled (JobsSettle of AgentJobs), and somebody keeps looking at
\* the session.
MCSpec ==
    /\ MCInit /\ [][MCNext]_allVars
    /\ \A j \in Jobs : WF_allVars(calm /\ Settle(j) /\ UNCHANGED calm)
    /\ \A v \in Views : WF_allVars(calm /\ Sync(v) /\ UNCHANGED calm)

\* A session whose tool is running ends, although its views overlap and act
\* on what they read before.
CalmSessionEnds ==
    calm /\ session = "running" ~> session \in {"succeeded", "failed"}
=============================================================================
