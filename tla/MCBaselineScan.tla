-------------------------- MODULE MCBaselineScan --------------------------
(* BaselineScan on a small instance.  One run asks both questions: what    *)
(* holds whatever fails and however starts overlap, and that a scan ends   *)
(* when one request starts it and nothing fails.                           *)
EXTENDS BaselineScan, TLC

CONSTANT Only     \* the request that starts a scan nobody disturbs

ASSUME OnlyAssumption == Only \in Starters

VARIABLE calm     \* chosen at the start: is the scan left undisturbed?

allVars == <<vars, calm>>

MCInit == Init /\ calm \in BOOLEAN

CalmStep == (\E k \in Steps : Submit(k) \/ Ingest(k)) \/ Start(Only)

MCNext ==
    /\ IF calm THEN CalmStep ELSE Next
    /\ UNCHANGED calm

MCSafe == MCInit /\ [][MCNext]_allVars

\* Requests run on until they end, and jobs get results in time.
MCSpec ==
    /\ MCSafe
    /\ WF_allVars(calm /\ Start(Only) /\ UNCHANGED calm)
    /\ \A k \in Steps :
          /\ WF_allVars(calm /\ Submit(k) /\ UNCHANGED calm)
          /\ WF_allVars(calm /\ Ingest(k) /\ UNCHANGED calm)

\* However the results and their ingestions interleave, a scan that runs
\* ends: the ingestion that begins last sees all the results.
CalmScanEnds == calm /\ scan = "running" ~> scan \in {"succeeded", "failed"}

\* The late saves of an undisturbed scan do not undo its success.
CalmSuccessIsFinal ==
    [][calm /\ scan = "succeeded" => scan' = "succeeded"]_allVars
=============================================================================
