------------------------ MODULE BaselineScan_proofs ------------------------
(***************************************************************************)
(* Proofs about BaselineScan, for every profile (set of steps) and every   *)
(* set of start requests, and about ToolCatalog, the gates that the tools  *)
(* of a scan pass, for every command template and its parameters.          *)
(*                                                                         *)
(* That a succeeded scan has run all of its tools is not inductive: the    *)
(* verdict is formed by one request from the steps it happens to find, and *)
(* saved later.  It is true because the steps come into being all at once  *)
(* (AllOrNone), because a result never changes (Closed), so that what an   *)
(* ingestion still has to store stays right (TodoFinished), and because a  *)
(* verdict, once true, stays true (Verdicts).                              *)
(*                                                                         *)
(* That a path is safe by whatever detour rests on what ToolParams folds   *)
(* over its components: CanonicalIsReached, by induction over the numbers  *)
(* (Counted), with what is left after the first m components (Left).  That *)
(* the path is still there in the queued command, whatever the other       *)
(* parameters hold, is RenderedPath.                                       *)
(***************************************************************************)
EXTENDS MCBaselineScan, ToolCatalog, FiniteSetTheorems, SequenceTheorems,
        WellFoundedInduction, TLAPS

AllOrNone == \A k, l \in Steps : step[k] = "absent" => step[l] = "absent"

Closed == \A k \in Steps :
    /\ run[k] \in Job!Results => phase[k] = "closed"
    /\ run[k] = "absent" <=> phase[k] = "absent"

TodoFinished == \A k \in Steps : \A t \in ingest[k].todo : run[t] \in Job!Results

Verdicts == \A k \in Steps :
    /\ ingest[k].verdict = "succeeded" => \A t \in Steps : run[t] = "succeeded"
    /\ ingest[k].phase = "judged" => ingest[k].verdict # "none"

Inv == /\ TypeOK
       /\ StepsFollowRuns
       /\ AllOrNone
       /\ Closed
       /\ TodoFinished
       /\ Verdicts
       /\ SucceededMeansAll

LEMMA InitInv == Init => Inv
  <1> SUFFICES ASSUME Init PROVE Inv
    OBVIOUS
  <1>1. TypeOK
    BY DEF Init, TypeOK, ScanStatuses, StarterPhases, Ingestion,
           Job!LifecycleInit, Job!Phases, Job!RunStatuses
  <1>2. StepsFollowRuns /\ AllOrNone /\ Closed
    BY DEF Init, StepsFollowRuns, AllOrNone, Closed, Job!LifecycleInit, Job!Results
  <1>3. TodoFinished /\ Verdicts /\ SucceededMeansAll
    BY DEF Init, TodoFinished, Verdicts, SucceededMeansAll
  <1> QED
    BY <1>1, <1>2, <1>3 DEF Inv

\* The steps of a start request that touch neither the steps nor the jobs.
LEMMA StarterStep ==
  ASSUME Inv, scan' \in {scan, "running", "failed"}, label' \in
           {label, "enqueue_baseline_tools", "waiting_for_agent_results"},
         starter' \in [Starters -> StarterPhases],
         UNCHANGED <<step, phase, run, ingest>>
  PROVE  Inv'
  BY DEF Inv, TypeOK, StepsFollowRuns, AllOrNone, Closed, TodoFinished, Verdicts,
         SucceededMeansAll, ScanStatuses

LEMMA StartInv ==
  ASSUME Inv, NEW s \in Starters, Start(s)
  PROVE  Inv'
  <1>1. starter' \in [Starters -> StarterPhases]
    BY DEF Inv, TypeOK, Start, StartRead, StartDenied, MarkRunning, EnqueueRead,
           EnqueueDenied, Enqueue, Label, Move, StarterPhases
  <1>2. CASE Enqueue(s)
    <2>1. UNCHANGED <<scan, label, ingest>>
      BY <1>2 DEF Enqueue
    <2>2. step' = [k \in Steps |-> IF step[k] = "absent" THEN "queued" ELSE step[k]]
      BY <1>2 DEF Enqueue, Missing
    <2>3. /\ phase' = [k \in Steps |-> IF step[k] = "absent" THEN "open" ELSE phase[k]]
          /\ run' = [k \in Steps |-> IF step[k] = "absent" THEN "queued" ELSE run[k]]
      BY <1>2 DEF Enqueue, Missing, Job!Open, Inv, TypeOK
    <2>4. \A k \in Steps : step[k] = "absent" => run[k] = "absent"
      BY DEF Inv, StepsFollowRuns, Closed
    <2>5. TypeOK'
      BY <1>1, <2>1, <2>2, <2>3 DEF Inv, TypeOK, Job!Phases, Job!RunStatuses
    <2>6. StepsFollowRuns' /\ AllOrNone' /\ Closed'
      BY <2>2, <2>3 DEF Inv, TypeOK, StepsFollowRuns, AllOrNone, Closed, Job!Results
    <2>7. TodoFinished' /\ Verdicts' /\ SucceededMeansAll'
      BY <2>1, <2>3, <2>4
         DEF Inv, TypeOK, TodoFinished, Verdicts, SucceededMeansAll, Job!Results, Ingestion
    <2> QED
      BY <2>5, <2>6, <2>7 DEF Inv
  <1>3. CASE ~ Enqueue(s)
    BY <1>1, <1>3, StarterStep
       DEF Start, StartRead, StartDenied, MarkRunning, EnqueueRead,
           EnqueueDenied, Label
  <1> QED
    BY <1>2, <1>3

\* A job is settled, or closed without a result.
LEMMA JobInv ==
  ASSUME Inv, NEW k \in Steps,
         (\E s \in Job!Results : Job!Settle(k, s)) \/ Job!Discard(k),
         ingest' \in {ingest, [ingest EXCEPT ![k].phase = "called"]},
         UNCHANGED <<scan, label, step, starter>>
  PROVE  Inv'
  <1>1. /\ phase[k] = "open"
        /\ \A t \in Steps \ {k} : run'[t] = run[t] /\ phase'[t] = phase[t]
        /\ \/ phase'[k] = "closed" /\ run'[k] \in Job!Results
           \/ phase'[k] = "dropped" /\ run'[k] = run[k]
    BY DEF Job!Settle, Job!Discard, Inv, TypeOK
  <1>2. run[k] \notin Job!Results /\ run[k] # "absent"
    BY <1>1 DEF Inv, Closed
  <1>3. /\ phase' \in [Steps -> Job!Phases]
        /\ run' \in [Steps -> Job!RunStatuses]
    <2>1. phase \in [Steps -> Job!Phases] /\ run \in [Steps -> Job!RunStatuses]
      BY DEF Inv, TypeOK
    <2>2. PICK p \in Job!Phases : phase' = [phase EXCEPT ![k] = p]
      BY DEF Job!Settle, Job!Discard, Job!Phases
    <2>3. PICK s \in Job!RunStatuses : run' = [run EXCEPT ![k] = s] \/ run' = run
      BY DEF Job!Settle, Job!Discard, Job!RunStatuses, Job!Results
    <2> QED
      BY <2>1, <2>2, <2>3
  <1>4. \A t \in Steps : /\ ingest'[t] \in Ingestion
                         /\ ingest'[t].todo = ingest[t].todo
                         /\ ingest'[t].verdict = ingest[t].verdict
                         /\ ingest'[t].phase \in {ingest[t].phase, "called"}
    <2>1. CASE ingest' = ingest
      BY <2>1 DEF Inv, TypeOK
    <2>2. CASE ingest' = [ingest EXCEPT ![k].phase = "called"]
      <3>1. ingest' = [ingest EXCEPT ![k] = [ingest[k] EXCEPT !.phase = "called"]]
        BY <2>2
      <3>2. ingest[k] \in Ingestion
        BY DEF Inv, TypeOK
      <3>3. /\ [ingest[k] EXCEPT !.phase = "called"] \in Ingestion
            /\ [ingest[k] EXCEPT !.phase = "called"].todo = ingest[k].todo
            /\ [ingest[k] EXCEPT !.phase = "called"].verdict = ingest[k].verdict
            /\ [ingest[k] EXCEPT !.phase = "called"].phase = "called"
        BY <3>2 DEF Ingestion
      <3> QED
        BY <3>1, <3>3 DEF Inv, TypeOK
    <2> QED
      BY <2>1, <2>2
  <1>5. TypeOK'
    BY <1>3, <1>4 DEF Inv, TypeOK
  <1>6. StepsFollowRuns' /\ AllOrNone' /\ Closed'
    <2>1. step[k] \notin {"succeeded", "failed", "absent"}
      BY <1>1, <1>2 DEF Inv, StepsFollowRuns, Job!Results
    <2>2. StepsFollowRuns'
      BY <1>1, <2>1 DEF Inv, StepsFollowRuns
    <2>3. AllOrNone'
      BY DEF Inv, AllOrNone
    <2>4. Closed'
      BY <1>1, <1>2 DEF Inv, Closed, Job!Results
    <2> QED
      BY <2>2, <2>3, <2>4
  <1>7. TodoFinished'
    BY <1>1, <1>2, <1>4 DEF Inv, TypeOK, TodoFinished, Ingestion
  <1>8. Verdicts' /\ SucceededMeansAll'
    BY <1>1, <1>2, <1>4 DEF Inv, Verdicts, SucceededMeansAll, Job!Results
  <1> QED
    BY <1>5, <1>6, <1>7, <1>8 DEF Inv

LEMMA IngestInv ==
  ASSUME Inv, NEW k \in Steps, Ingest(k) \/ IngestAborts(k)
  PROVE  Inv'
  <1>1. ASSUME NEW i \in Ingestion, ingest' = [ingest EXCEPT ![k] = i],
               \A t \in i.todo : run[t] \in Job!Results,
               i.verdict = "succeeded" => \A t \in Steps : run[t] = "succeeded",
               i.phase = "judged" => i.verdict # "none",
               UNCHANGED <<phase, run>>
        PROVE  /\ ingest' \in [Steps -> Ingestion]
               /\ TodoFinished' /\ Verdicts' /\ Closed'
    BY <1>1 DEF Inv, TypeOK, TodoFinished, Verdicts, Closed
  <1>2. ingest[k] \in Ingestion
    BY DEF Inv, TypeOK
  <1>3. CASE IngestRead(k)
    <2>1. ingest' = [ingest EXCEPT ![k] =
                        [ingest[k] EXCEPT !.phase = "saving", !.todo = Finished]]
      BY <1>3 DEF IngestRead
    <2>2. [ingest[k] EXCEPT !.phase = "saving", !.todo = Finished] \in Ingestion
      BY <1>2 DEF Ingestion, Finished
    <2>3. TypeOK' /\ TodoFinished' /\ Verdicts' /\ Closed'
      BY <1>1, <1>2, <1>3, <2>1, <2>2
         DEF IngestRead, Finished, Ingestion, Inv, TypeOK, Verdicts
    <2> QED
      BY <1>3, <2>3 DEF IngestRead, Inv, StepsFollowRuns, AllOrNone, SucceededMeansAll
  <1>4. CASE SaveStep(k)
    <2>1. PICK t \in ingest[k].todo :
            /\ step' = [step EXCEPT ![t] =
                          IF run[t] = "succeeded" THEN "succeeded" ELSE "failed"]
            /\ ingest' = [ingest EXCEPT ![k].todo = @ \ {t}]
      BY <1>4 DEF SaveStep
    <2>2. t \in Steps /\ run[t] \in Job!Results /\ phase[t] = "closed"
      BY <1>2 DEF Inv, TodoFinished, Closed, Ingestion
    <2>3. ingest' = [ingest EXCEPT ![k] =
                        [ingest[k] EXCEPT !.todo = ingest[k].todo \ {t}]]
      BY <2>1
    <2>4. [ingest[k] EXCEPT !.todo = ingest[k].todo \ {t}] \in Ingestion
      BY <1>2 DEF Ingestion
    <2>5. ingest' \in [Steps -> Ingestion] /\ TodoFinished' /\ Verdicts' /\ Closed'
      BY <1>1, <1>2, <1>4, <2>3, <2>4
         DEF SaveStep, Ingestion, Inv, TodoFinished, Verdicts
    <2>6. TypeOK'
      BY <1>4, <2>1, <2>2, <2>5 DEF SaveStep, Inv, TypeOK
    <2>7. StepsFollowRuns' /\ AllOrNone'
      BY <1>4, <2>1, <2>2 DEF SaveStep, Inv, TypeOK, StepsFollowRuns, AllOrNone
    <2> QED
      BY <1>4, <2>5, <2>6, <2>7 DEF SaveStep, Inv, SucceededMeansAll
  <1>5. CASE Judge(k)
    <2> DEFINE p == IF Verdict = "none" THEN "done" ELSE "judged"
    <2>1. Verdict \in {"none", "succeeded", "failed"}
      BY DEF Verdict
    <2>2. Verdict = "succeeded" => \A t \in Steps : run[t] = "succeeded"
      <3>1. SUFFICES ASSUME Verdict = "succeeded", NEW t \in Steps
                     PROVE  run[t] = "succeeded"
        OBVIOUS
      <3>2. step[t] # "absent"
        BY <3>1 DEF Verdict, Existing, Inv, AllOrNone
      <3> QED
        BY <3>1, <3>2 DEF Verdict, Existing, Inv, StepsFollowRuns
    <2>3. ingest' = [ingest EXCEPT ![k] =
                        [ingest[k] EXCEPT !.phase = p, !.verdict = Verdict]]
      BY <1>5 DEF Judge
    <2>4. [ingest[k] EXCEPT !.phase = p, !.verdict = Verdict] \in Ingestion
      BY <1>2, <2>1 DEF Ingestion
    <2>5. TypeOK' /\ TodoFinished' /\ Verdicts' /\ Closed'
      BY <1>1, <1>2, <1>5, <2>2, <2>3, <2>4
         DEF Judge, Ingestion, Inv, TypeOK, TodoFinished
    <2> QED
      BY <1>5, <2>5 DEF Judge, Inv, StepsFollowRuns, AllOrNone, SucceededMeansAll
  <1>6. CASE SaveVerdict(k)
    <2>1. scan' = ingest[k].verdict /\ ingest[k].verdict \in {"succeeded", "failed"}
      BY <1>2, <1>6 DEF SaveVerdict, Inv, Verdicts, Ingestion
    <2>2. ingest' = [ingest EXCEPT ![k] = [ingest[k] EXCEPT !.phase = "done"]]
      BY <1>6 DEF SaveVerdict
    <2>3. [ingest[k] EXCEPT !.phase = "done"] \in Ingestion
      BY <1>2 DEF Ingestion
    <2>4. ingest' \in [Steps -> Ingestion] /\ TodoFinished' /\ Verdicts' /\ Closed'
      BY <1>1, <1>2, <1>6, <2>2, <2>3
         DEF SaveVerdict, Ingestion, Inv, TodoFinished, Verdicts
    <2>5. TypeOK'
      BY <1>6, <2>1, <2>4 DEF SaveVerdict, Inv, TypeOK, ScanStatuses
    <2>6. SucceededMeansAll'
      BY <1>6, <2>1 DEF SaveVerdict, Inv, Verdicts, SucceededMeansAll
    <2> QED
      BY <1>6, <2>4, <2>5, <2>6 DEF SaveVerdict, Inv, StepsFollowRuns, AllOrNone
  <1>7. CASE IngestAborts(k)
    <2>1. ingest' = [ingest EXCEPT ![k] =
                        [ingest[k] EXCEPT !.phase = "done", !.todo = {}]]
      BY <1>7 DEF IngestAborts
    <2>2. [ingest[k] EXCEPT !.phase = "done", !.todo = {}] \in Ingestion
      BY <1>2 DEF Ingestion
    <2>3. TypeOK' /\ TodoFinished' /\ Verdicts' /\ Closed'
      BY <1>1, <1>2, <1>7, <2>1, <2>2
         DEF IngestAborts, Ingestion, Inv, TypeOK, Verdicts
    <2> QED
      BY <1>7, <2>3 DEF IngestAborts, Inv, StepsFollowRuns, AllOrNone, SucceededMeansAll
  <1> QED
    BY <1>3, <1>4, <1>5, <1>6, <1>7 DEF Ingest

LEMMA NextInv == Inv /\ [Next]_vars => Inv'
  <1> SUFFICES ASSUME Inv, [Next]_vars PROVE Inv'
    OBVIOUS
  <1>1. ASSUME NEW s \in Starters, Start(s) PROVE Inv'
    BY <1>1, StartInv
  <1>2. ASSUME NEW s \in Starters, StarterDies(s) PROVE Inv'
    <2>1. starter' \in [Starters -> StarterPhases]
      BY <1>2 DEF StarterDies, Inv, TypeOK, StarterPhases
    <2> QED
      BY <1>2, <2>1, StarterStep DEF StarterDies
  <1>3. ASSUME NEW k \in Steps, Submit(k) \/ Expire(k) \/ Discard(k) PROVE Inv'
    <2>1. "timeout" \in Job!Results
      BY DEF Job!Results
    <2> QED
      BY <1>3, <2>1, JobInv DEF Submit, Expire, Discard
  <1>4. ASSUME NEW k \in Steps, Ingest(k) \/ IngestAborts(k) PROVE Inv'
    BY <1>4, IngestInv
  <1>5. CASE UNCHANGED vars
    BY <1>5 DEF vars, Inv, TypeOK, StepsFollowRuns, AllOrNone, Closed,
                TodoFinished, Verdicts, SucceededMeansAll
  <1> QED
    BY <1>1, <1>2, <1>3, <1>4, <1>5 DEF Next, Progress, Failure

\* Type correctness (TypeOK), for every profile and all start requests.
THEOREM TypeCorrect == Spec => []TypeOK
  <1>1. Inv => TypeOK
    BY DEF Inv
  <1> QED
    BY <1>1, InitInv, NextInv, PTL DEF Spec

\* A scan reported as succeeded has run every tool of its profile with
\* success (SucceededMeansAll), however its start requests, its results and
\* their ingestions interleave or die.
THEOREM SucceededMeansAllHolds == Spec => []SucceededMeansAll
  <1>1. Inv => SucceededMeansAll
    BY DEF Inv
  <1> QED
    BY <1>1, InitInv, NextInv, PTL DEF Spec

\* A step never shows a result that its ToolRun does not have
\* (StepsFollowRuns).
THEOREM StepsFollowRunsHolds == Spec => []StepsFollowRuns
  <1>1. Inv => StepsFollowRuns
    BY DEF Inv
  <1> QED
    BY <1>1, InitInv, NextInv, PTL DEF Spec

-----------------------------------------------------------------------------
(* The jobs of a scan are those that AgentJobs promises.                   *)

\* What a start request is about to create is new: that Job!Open asks for it
\* forbids the request nothing.
OpensNew ==
    \A s \in Starters : starter[s] = "enqueueing" =>
        \A k \in Missing : phase[k] = "absent"

LEMMA LifecycleStep ==
  ASSUME [Next]_vars
  PROVE  [Job!LifecycleNext]_(Job!lifecycleVars)
  <1>1. ASSUME NEW s \in Starters, Enqueue(s)
        PROVE  [Job!LifecycleNext]_(Job!lifecycleVars)
    <2>1. CASE Missing = {}
      BY <1>1, <2>1 DEF Enqueue, Job!lifecycleVars
    <2>2. CASE Missing # {}
      <3>1. Job!Open(Missing) /\ Missing \in SUBSET Steps
        BY <1>1, <2>2 DEF Enqueue, Missing
      <3> QED
        BY <3>1 DEF Job!LifecycleNext
    <2> QED
      BY <2>1, <2>2
  <1>2. ASSUME NEW k \in Steps, Submit(k) \/ Expire(k) \/ Discard(k)
        PROVE  Job!LifecycleNext
    <2>1. "timeout" \in Job!Results
      BY DEF Job!Results
    <2> QED
      BY <1>2, <2>1 DEF Submit, Expire, Discard, Job!LifecycleNext
  <1>3. CASE UNCHANGED <<phase, run>>
    BY <1>3 DEF Job!lifecycleVars
  <1> QED
    BY <1>1, <1>2, <1>3
       DEF Next, Progress, Failure, Start, StartRead, StartDenied, MarkRunning, EnqueueRead,
           EnqueueDenied, Label, StarterDies, Ingest, IngestRead, SaveStep, Judge,
           SaveVerdict, IngestAborts, vars

\* A scan does nothing with its jobs but what AgentJobs was shown to do with
\* them (LifecycleImplemented), and never asks for one that it has already.
THEOREM JobsKept == Spec => Job!LifecycleSpec /\ []OpensNew
  <1>1. Init => Job!LifecycleInit
    BY DEF Init
  <1>2. Inv => OpensNew
    BY DEF Inv, StepsFollowRuns, OpensNew, Missing
  <1>3. Spec => Job!LifecycleSpec
    BY <1>1, LifecycleStep, PTL DEF Spec, Job!LifecycleSpec
  <1>4. Spec => []OpensNew
    BY <1>2, InitInv, NextInv, PTL DEF Spec
  <1> QED
    BY <1>3, <1>4

-----------------------------------------------------------------------------
(* A scan that one request starts, and that nothing disturbs.              *)

\* A verdict "failed" in hand means that a tool has a result and not success.
FailureFound == \A k \in Steps :
    ingest[k].verdict = "failed" =>
        \E t \in Steps : run[t] \in Job!Results \ {"succeeded"}

\* Until the request has created the steps, nothing else has begun.
CalmStarts == calm =>
    /\ \A s \in Starters \ {Only} : starter[s] = "idle"
    /\ starter[Only] \notin {"created", "done"} =>
          /\ scan # "succeeded"
          /\ \A k \in Steps : phase[k] = "absent" /\ ingest[k].phase = "none"

CalmInv == Inv /\ FailureFound /\ CalmStarts

\* Every step of the scan, disturbed or not, is one of BaselineScan.
LEMMA CalmStepIsNext == [MCNext]_allVars => [Next]_vars /\ UNCHANGED calm
  BY OnlyAssumption DEF MCNext, allVars, vars, CalmStep, Next, Progress

LEMMA FailureFoundKept ==
  ASSUME Inv, FailureFound, [Next]_vars
  PROVE  FailureFound'
  <1>1. ASSUME NEW t \in Steps, run[t] \in Job!Results
        PROVE  run'[t] = run[t]
    <2>1. phase[t] = "closed"
      BY <1>1 DEF Inv, Closed
    <2>2. ASSUME NEW k \in Steps, NEW s, Job!Settle(k, s) \/ Job!Discard(k)
          PROVE  run'[t] = run[t]
      BY <2>1, <2>2 DEF Job!Settle, Job!Discard, Inv, TypeOK
    <2>3. ASSUME NEW s \in Starters, Enqueue(s) PROVE run'[t] = run[t]
      BY <2>1, <2>3 DEF Enqueue, Missing, Job!Open, Inv, TypeOK, StepsFollowRuns
    <2> QED
      BY <2>2, <2>3
         DEF vars, Next, Progress, Failure, Start, StartRead, StartDenied,
             MarkRunning, EnqueueRead, EnqueueDenied, Label, StarterDies, Submit,
             Expire, Discard, IngestAborts, Ingest, IngestRead, SaveStep, Judge,
             SaveVerdict
  <1>2. SUFFICES ASSUME NEW k \in Steps, ingest'[k].verdict = "failed"
                 PROVE  \E t \in Steps : run'[t] \in Job!Results \ {"succeeded"}
    BY DEF FailureFound
  <1>3. CASE ingest[k].verdict = "failed"
    BY <1>1, <1>3 DEF FailureFound
  <1>4. CASE ingest[k].verdict # "failed"
    <2>1. ingest[k] \in Ingestion
      BY DEF Inv, TypeOK
    <2>2. Judge(k) /\ Verdict = "failed"
      <3>1. ASSUME NEW l \in Steps, NEW i,
                   ingest' = [ingest EXCEPT ![l] = i],
                   i.verdict = ingest[l].verdict
            PROVE  ingest'[k].verdict = ingest[k].verdict
        BY <3>1 DEF Inv, TypeOK
      <3>2. \A l \in Steps : ingest[l] \in Ingestion
        BY DEF Inv, TypeOK
      <3>3. ASSUME NEW l \in Steps, IngestRead(l)
            PROVE  ingest'[k].verdict = ingest[k].verdict
        <4>1. ingest' = [ingest EXCEPT ![l] =
                 [ingest[l] EXCEPT !.phase = "saving", !.todo = Finished]]
          BY <3>3 DEF IngestRead
        <4> QED
          BY <3>1, <3>2, <4>1 DEF Ingestion
      <3>4. ASSUME NEW l \in Steps, SaveStep(l)
            PROVE  ingest'[k].verdict = ingest[k].verdict
        <4>1. PICK t : ingest' = [ingest EXCEPT ![l] =
                 [ingest[l] EXCEPT !.todo = ingest[l].todo \ {t}]]
          BY <3>4 DEF SaveStep
        <4> QED
          BY <3>1, <3>2, <4>1 DEF Ingestion
      <3>5. ASSUME NEW l \in Steps, SaveVerdict(l)
            PROVE  ingest'[k].verdict = ingest[k].verdict
        <4>1. ingest' = [ingest EXCEPT ![l] = [ingest[l] EXCEPT !.phase = "done"]]
          BY <3>5 DEF SaveVerdict
        <4> QED
          BY <3>1, <3>2, <4>1 DEF Ingestion
      <3>6. ASSUME NEW l \in Steps, IngestAborts(l)
            PROVE  ingest'[k].verdict = ingest[k].verdict
        <4>1. ingest' = [ingest EXCEPT ![l] =
                 [ingest[l] EXCEPT !.phase = "done", !.todo = {}]]
          BY <3>6 DEF IngestAborts
        <4> QED
          BY <3>1, <3>2, <4>1 DEF Ingestion
      <3>7. ASSUME NEW l \in Steps, Submit(l)
            PROVE  ingest'[k].verdict = ingest[k].verdict
        <4>1. ingest' = [ingest EXCEPT ![l] = [ingest[l] EXCEPT !.phase = "called"]]
          BY <3>7 DEF Submit
        <4> QED
          BY <3>1, <3>2, <4>1 DEF Ingestion
      <3>8. ASSUME NEW l \in Steps, Judge(l), l # k
            PROVE  ingest'[k].verdict = ingest[k].verdict
        BY <3>8 DEF Judge, Inv, TypeOK
      <3>9. ASSUME Judge(k) PROVE ingest'[k].verdict = Verdict
        <4> DEFINE p == IF Verdict = "none" THEN "done" ELSE "judged"
        <4>1. ingest' = [ingest EXCEPT ![k] =
                 [ingest[k] EXCEPT !.phase = p, !.verdict = Verdict]]
          BY <3>9 DEF Judge
        <4> HIDE DEF p
        <4>2. [ingest[k] EXCEPT !.phase = p, !.verdict = Verdict].verdict = Verdict
          BY <3>2 DEF Ingestion
        <4> QED
          BY <4>1, <4>2 DEF Inv, TypeOK
      <3>10. ingest' # ingest
        BY <1>2, <1>4
      <3>11. \E l \in Steps : Ingest(l) \/ IngestAborts(l) \/ Submit(l)
        BY <3>10 DEF vars, Next, Progress, Failure, Start, StartRead, StartDenied,
             MarkRunning, EnqueueRead, EnqueueDenied, Enqueue, Label, StarterDies,
             Expire, Discard
      <3> QED
        BY <1>2, <1>4, <3>3, <3>4, <3>5, <3>6, <3>7, <3>8, <3>9, <3>11 DEF Ingest
    <2>3. PICK t \in Steps : step[t] = "failed"
      BY <2>2 DEF Verdict, Existing
    <2> QED
      BY <1>1, <2>3 DEF Inv, StepsFollowRuns
  <1> QED
    BY <1>3, <1>4

LEMMA CalmStartsKept ==
  ASSUME CalmInv, [MCNext]_allVars
  PROVE  CalmStarts'
  <1> SUFFICES ASSUME calm' PROVE CalmStarts'
    BY DEF CalmStarts
  <1>1. calm
    BY CalmStepIsNext
  <1>2. TypeOK /\ Only \in Starters
    BY OnlyAssumption DEF CalmInv, Inv
  <1>3. CASE Start(Only)
    <2>1. CASE starter[Only] \in {"created", "done"}
      <3>1. starter' = [starter EXCEPT ![Only] = "done"]
        BY <1>3, <2>1
           DEF Start, StartRead, StartDenied, MarkRunning, EnqueueRead, EnqueueDenied,
               Enqueue, Label, Move
      <3> QED
        BY <1>1, <1>2, <3>1 DEF CalmInv, CalmStarts, TypeOK
    <2>2. CASE starter[Only] \notin {"created", "done"}
      <3>1. /\ scan # "succeeded"
            /\ \A k \in Steps : phase[k] = "absent" /\ ingest[k].phase = "none"
        BY <1>1, <2>2 DEF CalmInv, CalmStarts
      <3>2. PICK to \in StarterPhases : starter' = [starter EXCEPT ![Only] = to]
        BY <1>3
           DEF Start, StartRead, StartDenied, MarkRunning, EnqueueRead, EnqueueDenied,
               Enqueue, Label, Move, StarterPhases
      <3>3. /\ \A s \in Starters \ {Only} : starter'[s] = "idle"
            /\ starter'[Only] = to
        BY <1>1, <1>2, <3>2 DEF CalmInv, CalmStarts, TypeOK
      <3>4. CASE Enqueue(Only)
        <4>1. starter'[Only] = "created"
          BY <1>2, <3>4 DEF Enqueue, Move, TypeOK
        <4> QED
          BY <3>3, <4>1 DEF CalmStarts
      <3>5. CASE ~ Enqueue(Only)
        <4>1. scan' # "succeeded" /\ UNCHANGED <<phase, ingest>>
          BY <1>3, <2>2, <3>1, <3>5
             DEF Start, StartRead, StartDenied, MarkRunning, EnqueueRead, EnqueueDenied,
                 Label, Move
        <4> QED
          BY <3>1, <3>3, <4>1 DEF CalmStarts
      <3> QED
        BY <3>4, <3>5
    <2> QED
      BY <2>1, <2>2
  <1>4. ASSUME NEW k \in Steps, Submit(k) \/ Ingest(k)
        PROVE  CalmStarts'
    <2>1. starter[Only] \in {"created", "done"} /\ starter' = starter
      BY <1>1, <1>4
         DEF CalmInv, CalmStarts, Submit, Ingest, IngestRead, SaveStep, Judge,
             SaveVerdict, Job!Settle
    <2> QED
      BY <1>1, <2>1 DEF CalmInv, CalmStarts
  <1>5. CASE UNCHANGED allVars
    BY <1>1, <1>5 DEF CalmInv, CalmStarts, allVars, vars
  <1> QED
    BY <1>1, <1>3, <1>4, <1>5 DEF MCNext, CalmStep

LEMMA CalmAlways == MCSafe => []CalmInv
  <1>1. MCInit => CalmInv
    <2>1. Init => FailureFound
      <3> SUFFICES ASSUME Init, NEW k \in Steps PROVE ingest[k].verdict = "none"
        BY DEF FailureFound
      <3> QED
        BY DEF Init
    <2>2. Init => CalmStarts
      <3> SUFFICES ASSUME Init
                   PROVE  /\ \A s \in Starters : starter[s] = "idle"
                          /\ scan # "succeeded"
                          /\ \A k \in Steps : phase[k] = "absent"
                                             /\ ingest[k].phase = "none"
        BY DEF CalmStarts
      <3> QED
        BY DEF Init, Job!LifecycleInit
    <2> QED
      BY <2>1, <2>2, InitInv DEF MCInit, CalmInv
  <1>2. CalmInv /\ [MCNext]_allVars => CalmInv'
    BY CalmStepIsNext, NextInv, FailureFoundKept, CalmStartsKept DEF CalmInv
  <1> QED
    BY <1>1, <1>2, PTL DEF MCSafe

\* The success of a scan that one request starts, and that nothing disturbs, is
\* final (CalmSuccessIsFinal): of the verdicts that are saved late none is a
\* failure, and the request saves its label but not the status.
THEOREM CalmSuccessIsFinalHolds == MCSpec => CalmSuccessIsFinal
  <1>1. CalmInv /\ [MCNext]_allVars =>
           [calm /\ scan = "succeeded" => scan' = "succeeded"]_allVars
    <2> SUFFICES ASSUME CalmInv, MCNext, calm, scan = "succeeded"
                 PROVE  scan' = "succeeded"
      OBVIOUS
    <2>1. \A t \in Steps : run[t] = "succeeded"
      BY DEF CalmInv, Inv, SucceededMeansAll
    <2>2. starter[Only] \in {"created", "done"}
      BY DEF CalmInv, CalmStarts
    <2>3. CASE Start(Only)
      BY <2>2, <2>3 DEF Start, StartRead, StartDenied, MarkRunning, EnqueueRead,
                        EnqueueDenied, Enqueue, Label, Move
    <2>4. ASSUME NEW k \in Steps, SaveVerdict(k) PROVE scan' = "succeeded"
      <3>1. ingest[k].verdict \in {"none", "succeeded", "failed"}
        BY DEF CalmInv, Inv, TypeOK, Ingestion
      <3> QED
        BY <2>1, <2>4, <3>1
           DEF SaveVerdict, CalmInv, FailureFound, Inv, Verdicts
    <2>5. ASSUME NEW k \in Steps, Submit(k) \/ Ingest(k) PROVE scan' = "succeeded"
      BY <2>4, <2>5 DEF Submit, Ingest, IngestRead, SaveStep, Judge
    <2> QED
      BY <2>3, <2>5 DEF MCNext, CalmStep
  <1>2. MCSpec => MCSafe
    BY PTL DEF MCSpec
  <1> QED
    BY <1>1, <1>2, CalmAlways, PTL DEF MCSafe, CalmSuccessIsFinal

-----------------------------------------------------------------------------
(* Paths (ToolParams): canonicalize_path gets where a path leads.          *)

\* Induction, from the well-foundedness of <.
LEMMA Counted ==
  ASSUME NEW T, 0 \in T, \A m \in Nat : m \in T => m + 1 \in T
  PROVE  \A m \in Nat : m \in T
  <1> DEFINE R == {p \in Nat \X Nat : p[1] < p[2]}
             Rest == Nat \ T
  <1>1. R = OpToRel(<, Nat)
    BY Zenon DEF OpToRel
  <1>2. IsWellFoundedOn(R, Nat)
    <2> HIDE DEF R
    <2> QED BY <1>1, NatLessThanWellFounded, Zenon
  <1>3. ASSUME Rest # {} PROVE FALSE
    <2>1. Rest \subseteq Nat
      OBVIOUS
    <2>2. PICK x \in Rest : \A y \in Rest : ~ (<<y, x>> \in R)
      <3> HIDE DEF R, Rest
      <3> QED BY <1>2, <1>3, <2>1, WFMin
    <2>3. x \in Nat /\ x # 0 /\ x - 1 \in Nat /\ x - 1 \notin T
      <3>1. x \in Nat /\ x \notin T
        OBVIOUS
      <3>2. x # 0
        BY <3>1
      <3>3. x - 1 \in Nat /\ (x - 1) + 1 = x
        BY <3>1, <3>2
      <3> QED
        BY <3>1, <3>2, <3>3
    <2>4. x - 1 \in Rest /\ <<x - 1, x>> \in R
      BY <2>3
    <2> QED
      BY <2>2, <2>4
  <1> QED
    BY <1>3

LEMMA MaxOfSome ==
  ASSUME NEW n \in Nat, NEW s \in SUBSET (1 .. n), s # {}
  PROVE  Max(s) \in s
  <1> DEFINE T == {m \in Nat : \A t \in SUBSET (1 .. m) : t # {} =>
                                  \E x \in t : \A y \in t : x >= y}
  <1>1. 0 \in T
    <2>1. 1 .. 0 = {}
      OBVIOUS
    <2> QED
      BY <2>1
  <1>2. ASSUME NEW m \in Nat, m \in T PROVE m + 1 \in T
    <2> SUFFICES ASSUME NEW t \in SUBSET (1 .. m + 1), t # {}
                 PROVE  \E x \in t : \A y \in t : x >= y
      OBVIOUS
    <2>1. CASE m + 1 \in t
      BY <2>1
    <2>2. CASE m + 1 \notin t
      <3>1. t \in SUBSET (1 .. m)
        BY <2>2
      <3> QED
        BY <1>2, <3>1
    <2> QED
      BY <2>1, <2>2
  <1>3. n \in T
    <2> HIDE DEF T
    <2> QED BY <1>1, <1>2, Counted
  <1>4. \E x \in s : \A y \in s : x >= y
    BY <1>3
  <1> QED
    BY <1>4 DEF Max

LEMMA MaxIsTop ==
  ASSUME NEW m \in Nat, NEW s \in SUBSET (1 .. m + 1), m + 1 \in s
  PROVE  Max(s) = m + 1
  <1>1. \A y \in s : m + 1 >= y
    OBVIOUS
  <1>2. \A x \in s : (\A y \in s : x >= y) => x = m + 1
    OBVIOUS
  <1> QED
    BY <1>1, <1>2 DEF Max

\* The fold of canonicalize_path, as the recursive function that it is.
Walk(path, f, n) ==
  f = [s \in SUBSET (1 .. n) |->
          IF s = {} THEN << >>
          ELSE LET x == Max(s) IN Step(f[s \ {x}], path[x])]

LEMMA CanonicalIsWalk ==
  ASSUME NEW path, NEW n, DOMAIN path = 1 .. n
  PROVE  Canonical(path) = (CHOOSE f : Walk(path, f, n))[1 .. n]
  BY Zenon DEF Canonical, FoldLeft, MapThenFoldSet, Walk

LEMMA WalkExists ==
  ASSUME NEW path, NEW n \in Nat
  PROVE  \E f : Walk(path, f, n)
  <1> DEFINE T == {m \in Nat : \E f : Walk(path, f, m)}
  <1>1. 0 \in T
    <2> DEFINE f == [s \in SUBSET (1 .. 0) |-> << >>]
    <2>1. \A s \in SUBSET (1 .. 0) : s = {}
      OBVIOUS
    <2>2. Walk(path, f, 0)
      BY <2>1 DEF Walk
    <2> QED
      BY <2>2
  <1>2. ASSUME NEW m \in Nat, m \in T PROVE m + 1 \in T
    <2>1. PICK f : Walk(path, f, m)
      BY <1>2
    <2> DEFINE g == [s \in SUBSET (1 .. m + 1) |->
                       IF m + 1 \in s THEN Step(f[s \ {m + 1}], path[m + 1]) ELSE f[s]]
               G(s) == IF s = {} THEN << >>
                       ELSE LET x == Max(s) IN Step(g[s \ {x}], path[x])
    <2>2. ASSUME NEW s \in SUBSET (1 .. m + 1) PROVE g[s] = G(s)
      <3>1. CASE m + 1 \in s
        <4>1. /\ s \ {m + 1} \in SUBSET (1 .. m + 1)
              /\ m + 1 \notin s \ {m + 1}
          OBVIOUS
        <4>2. g[s \ {m + 1}] = f[s \ {m + 1}]
          BY <4>1
        <4>3. g[s] = Step(f[s \ {m + 1}], path[m + 1])
          BY <3>1
        <4>4. Max(s) = m + 1 /\ s # {}
          BY <3>1, MaxIsTop
        <4> HIDE DEF g
        <4> QED
          BY <4>2, <4>3, <4>4
      <3>2. CASE m + 1 \notin s
        <4>1. s \in SUBSET (1 .. m) /\ g[s] = f[s]
          BY <3>2
        <4>2. CASE s = {}
          BY <2>1, <4>1, <4>2 DEF Walk
        <4>3. CASE s # {}
          <5>1. Max(s) \in s
            BY <4>1, <4>3, MaxOfSome
          <5>2. s \ {Max(s)} \in SUBSET (1 .. m + 1) /\ m + 1 \notin s \ {Max(s)}
            BY <3>2
          <5>3. g[s \ {Max(s)}] = f[s \ {Max(s)}]
            BY <5>2
          <5>4. f[s] = Step(f[s \ {Max(s)}], path[Max(s)])
            BY <2>1, <4>1, <4>3 DEF Walk
          <5> HIDE DEF g
          <5> QED
            BY <4>1, <4>3, <5>3, <5>4
        <4> QED
          BY <4>2, <4>3
      <3> QED
        BY <3>1, <3>2
    <2>3. g = [s \in SUBSET (1 .. m + 1) |-> g[s]]
      OBVIOUS
    <2>4. g = [s \in SUBSET (1 .. m + 1) |-> G(s)]
      <3> HIDE DEF g
      <3> QED BY <2>2, <2>3, Zenon
    <2>5. Walk(path, g, m + 1)
      <3> HIDE DEF g
      <3> QED BY <2>4, Zenon DEF Walk
    <2> QED
      BY <2>5
  <1> HIDE DEF T
  <1>3. n \in T
    BY <1>1, <1>2, Counted
  <1> QED
    BY <1>3 DEF T

\* What is walked after each component.
LEMMA Walked ==
  ASSUME NEW path, NEW n \in Nat, DOMAIN path = 1 .. n
  PROVE  \E w : /\ w[0] = << >>
                /\ \A m \in 0 .. n - 1 : w[m + 1] = Step(w[m], path[m + 1])
                /\ Canonical(path) = w[n]
  <1> DEFINE f == CHOOSE f : Walk(path, f, n)
             w == [m \in 0 .. n |-> f[1 .. m]]
  <1>1. Walk(path, f, n)
    BY WalkExists
  <1>2. Canonical(path) = f[1 .. n]
    BY CanonicalIsWalk
  <1> HIDE DEF f
  <1>3. w[0] = << >>
    <2>1. 1 .. 0 = {} /\ {} \in SUBSET (1 .. n)
      OBVIOUS
    <2>2. f[{}] = << >>
      BY <1>1, <2>1 DEF Walk
    <2> QED
      BY <2>1, <2>2
  <1>4. ASSUME NEW m \in 0 .. n - 1 PROVE w[m + 1] = Step(w[m], path[m + 1])
    <2>1. /\ m \in Nat /\ m + 1 \in 0 .. n /\ m \in 0 .. n
          /\ 1 .. m + 1 \in SUBSET (1 .. n) /\ m + 1 \in 1 .. m + 1
          /\ (1 .. m + 1) \ {m + 1} = 1 .. m
      OBVIOUS
    <2>2. Max(1 .. m + 1) = m + 1
      BY <2>1, MaxIsTop
    <2>3. f[1 .. m + 1] = Step(f[(1 .. m + 1) \ {Max(1 .. m + 1)}], path[Max(1 .. m + 1)])
      BY <1>1, <2>1 DEF Walk
    <2>4. f[1 .. m + 1] = Step(f[1 .. m], path[m + 1])
      BY <2>1, <2>2, <2>3
    <2> QED
      BY <2>1, <2>4
  <1>5. Canonical(path) = w[n]
    BY <1>2
  <1> HIDE DEF w
  <1> QED
    BY <1>3, <1>4, <1>5

\* How often a kind of component comes between two places.
Number(path, i, j, kind) == Cardinality({k \in i .. j : path[k] \in kind})

\* By how much the names after i outnumber the parents, up to j.
Height(path, i, j) ==
  (j - i) - Number(path, i + 1, j, {".", ".."}) - Number(path, i + 1, j, {".."})

IsName(part) == part \notin {".", ".."}

LEMMA NumberStep ==
  ASSUME NEW path, NEW kind, NEW i \in Nat, NEW j \in Nat, i <= j + 1
  PROVE  /\ Number(path, i, j, kind) \in Nat
         /\ Number(path, i, j + 1, kind) =
               Number(path, i, j, kind) + (IF path[j + 1] \in kind THEN 1 ELSE 0)
  <1> DEFINE S == {k \in i .. j : path[k] \in kind}
             T == {k \in i .. j + 1 : path[k] \in kind}
  <1>1. IsFiniteSet(S)
    <2>1. S \in SUBSET (i .. j)
      OBVIOUS
    <2>2. IsFiniteSet(i .. j)
      BY FS_Interval
    <2> HIDE DEF S
    <2> QED
      BY <2>1, <2>2, FS_Subset
  <1>2. Cardinality(S) \in Nat
    BY <1>1, FS_CardinalityType
  <1>3. CASE path[j + 1] \in kind
    <2>1. T = S \cup {j + 1} /\ j + 1 \notin S
      BY <1>3
    <2> HIDE DEF S, T
    <2>2. Cardinality(T) = Cardinality(S) + 1
      BY <1>1, <2>1, FS_AddElement
    <2> QED
      BY <1>2, <1>3, <2>2 DEF Number, S, T
  <1>4. CASE path[j + 1] \notin kind
    <2>1. T = S
      BY <1>4
    <2> HIDE DEF S, T
    <2>2. Cardinality(T) = Cardinality(S) + 0
      BY <1>2, <2>1
    <2> QED
      BY <1>2, <1>4, <2>2 DEF Number, S, T
  <1> QED
    BY <1>3, <1>4

LEMMA NumberOfNone ==
  ASSUME NEW path, NEW kind, NEW i \in Nat
  PROVE  Number(path, i + 1, i, kind) = 0
  <1>1. {k \in i + 1 .. i : path[k] \in kind} = {}
    OBVIOUS
  <1> QED
    BY <1>1, FS_EmptySet DEF Number

LEMMA HeightStep ==
  ASSUME NEW path, NEW i \in Nat, NEW m \in Nat, i <= m
  PROVE  /\ Height(path, i, m) \in Int
         /\ Height(path, i, i) = 0
         /\ Height(path, i, m + 1) =
              Height(path, i, m)
              + (IF path[m + 1] = "." THEN 0 ELSE IF path[m + 1] = ".." THEN 0 - 1 ELSE 1)
  <1>1. \A kind :
          /\ Number(path, i + 1, m, kind) \in Nat
          /\ Number(path, i + 1, m + 1, kind) =
               Number(path, i + 1, m, kind) + (IF path[m + 1] \in kind THEN 1 ELSE 0)
    BY NumberStep
  <1>2. Height(path, i, i) = 0
    BY NumberOfNone DEF Height
  <1>3. "." # ".."
    OBVIOUS
  <1> QED
    BY <1>1, <1>2, <1>3 DEF Height

\* The places in I are those of the names that no parent takes away, up to m.
Leaves(path, I, m) ==
  \A i \in 1 .. m :
     (\E a \in 1 .. Len(I) : I[a] = i)
     <=> IsName(path[i]) /\ \A j \in i + 1 .. m : Height(path, i, j) >= 0

\* The components that are left after the first m are those at the places in I.
Left(path, walked, I, m) ==
  /\ I \in Seq(1 .. m)
  /\ \A a, b \in 1 .. Len(I) : a < b => I[a] < I[b]
  /\ walked = [a \in 1 .. Len(I) |-> path[I[a]]]
  /\ Leaves(path, I, m)
  /\ \A a \in 1 .. Len(I) : Height(path, I[a], m) = Len(I) - a

LEMMA StepStays ==
  ASSUME NEW path, NEW m \in Nat, NEW walked, NEW I, Left(path, walked, I, m),
         path[m + 1] = "."
  PROVE  Left(path, Step(walked, path[m + 1]), I, m + 1)
  <1>1. Step(walked, path[m + 1]) = walked
    BY DEF Step
  <1>2. \A i \in 1 .. m : Height(path, i, m + 1) = Height(path, i, m)
                          /\ Height(path, i, i) = 0
    BY HeightStep
  <1>3. I \in Seq(1 .. m + 1) /\ Len(I) \in Nat /\ \A a \in 1 .. Len(I) : I[a] \in 1 .. m
    BY DEF Left
  <1>4. ASSUME NEW i \in 1 .. m + 1
        PROVE  (\E a \in 1 .. Len(I) : I[a] = i)
               <=> IsName(path[i]) /\ \A j \in i + 1 .. m + 1 : Height(path, i, j) >= 0
    <2>1. CASE i = m + 1
      BY <1>3, <2>1 DEF IsName
    <2>2. CASE i \in 1 .. m
      <3>1. Height(path, i, m) >= 0 \/ m \in i + 1 .. m
        BY <1>2, <2>2
      <3>2. (\A j \in i + 1 .. m : Height(path, i, j) >= 0)
            <=> \A j \in i + 1 .. m + 1 : Height(path, i, j) >= 0
        BY <1>2, <2>2, <3>1
      <3> QED
        BY <2>2, <3>2 DEF Left, Leaves
    <2> QED
      BY <2>1, <2>2
  <1>5. \A a \in 1 .. Len(I) : Height(path, I[a], m + 1) = Len(I) - a
    BY <1>2, <1>3 DEF Left
  <1> QED
    BY <1>1, <1>3, <1>4, <1>5 DEF Left, Leaves

LEMMA StepNames ==
  ASSUME NEW path, NEW m \in Nat, NEW walked, NEW I, Left(path, walked, I, m),
         IsName(path[m + 1])
  PROVE  Left(path, Step(walked, path[m + 1]), Append(I, m + 1), m + 1)
  <1> DEFINE N == Append(I, m + 1)
  <1>1. I \in Seq(1 .. m + 1) /\ Len(I) \in Nat /\ \A a \in 1 .. Len(I) : I[a] \in 1 .. m
    BY DEF Left
  <1>2. /\ N \in Seq(1 .. m + 1) /\ Len(N) = Len(I) + 1
        /\ N[Len(N)] = m + 1 /\ \A a \in 1 .. Len(I) : N[a] = I[a]
    BY <1>1
  <1> HIDE DEF N
  <1>3. \A i \in 1 .. m : Height(path, i, m + 1) = Height(path, i, m) + 1
                          /\ Height(path, i, m) \in Int /\ Height(path, i, i) = 0
    BY HeightStep DEF IsName
  <1>4. Height(path, m + 1, m + 1) = 0
    BY HeightStep
  <1>5. ASSUME NEW i \in 1 .. m + 1
        PROVE  (\E a \in 1 .. Len(N) : N[a] = i)
               <=> IsName(path[i]) /\ \A j \in i + 1 .. m + 1 : Height(path, i, j) >= 0
    <2>1. CASE i = m + 1
      BY <1>2, <2>1
    <2>2. CASE i \in 1 .. m
      <3>1. Height(path, i, m) >= 0 \/ m \in i + 1 .. m
        BY <1>3, <2>2
      <3>2. (\A j \in i + 1 .. m : Height(path, i, j) >= 0)
            <=> \A j \in i + 1 .. m + 1 : Height(path, i, j) >= 0
        BY <1>3, <2>2, <3>1
      <3>3. ASSUME NEW a \in 1 .. Len(N), N[a] = i PROVE a \in 1 .. Len(I) /\ I[a] = i
        <4>1. a # Len(N)
          BY <1>2, <2>2, <3>3
        <4>2. a \in 1 .. Len(I)
          BY <1>1, <1>2, <4>1
        <4> QED
          BY <1>2, <3>3, <4>2
      <3>4. ASSUME NEW a \in 1 .. Len(I), I[a] = i PROVE a \in 1 .. Len(N) /\ N[a] = i
        BY <1>1, <1>2, <3>4
      <3>5. (\E a \in 1 .. Len(I) : I[a] = i)
            <=> IsName(path[i]) /\ \A j \in i + 1 .. m : Height(path, i, j) >= 0
        BY <2>2 DEF Left, Leaves
      <3> QED
        BY <3>2, <3>3, <3>4, <3>5
    <2> QED
      BY <2>1, <2>2
  <1>6. ASSUME NEW a \in 1 .. Len(N)
        PROVE  /\ Height(path, N[a], m + 1) = Len(N) - a
               /\ \A b \in 1 .. Len(N) : b < a => N[b] < N[a]
    <2>1. CASE a \in 1 .. Len(I)
      <3>1. Height(path, I[a], m) = Len(I) - a
        BY <2>1 DEF Left
      <3>2. \A b \in 1 .. Len(I) : b < a => I[b] < I[a]
        BY <2>1 DEF Left
      <3>3. I[a] \in 1 .. m /\ N[a] = I[a]
        BY <1>1, <1>2, <2>1
      <3>4. \A b \in 1 .. Len(N) : b < a => b \in 1 .. Len(I) /\ N[b] = I[b]
        BY <1>1, <1>2, <2>1
      <3> QED
        BY <1>1, <1>2, <1>3, <2>1, <3>1, <3>2, <3>3, <3>4
    <2>2. CASE a = Len(N)
      <3>1. ASSUME NEW b \in 1 .. Len(N), b < a PROVE N[b] \in 1 .. m
        <4>1. b \in 1 .. Len(I)
          BY <1>1, <1>2, <2>2, <3>1
        <4> QED
          BY <1>1, <1>2, <4>1
      <3> QED
        BY <1>1, <1>2, <1>4, <2>2, <3>1
    <2> QED
      BY <1>1, <1>2, <2>1, <2>2
  <1>7. \A a, b \in 1 .. Len(N) : a < b => N[a] < N[b]
    BY <1>6
  <1>8. Step(walked, path[m + 1]) = [a \in 1 .. Len(N) |-> path[N[a]]]
    <2>1. Step(walked, path[m + 1]) = Append(walked, path[m + 1])
      BY DEF Step, IsName
    <2> DEFINE u == [a \in 1 .. Len(I) |-> path[I[a]]]
               P == {path[k] : k \in 1 .. m + 1}
    <2>2. walked = u /\ u \in Seq(P) /\ Len(u) = Len(I)
      BY <1>1 DEF Left
    <2>3. path[m + 1] \in P
      OBVIOUS
    <2> HIDE DEF u, P
    <2>4. /\ Append(u, path[m + 1]) \in Seq(P)
          /\ Len(Append(u, path[m + 1])) = Len(N)
          /\ Append(u, path[m + 1])[Len(N)] = path[m + 1]
          /\ \A a \in 1 .. Len(I) : Append(u, path[m + 1])[a] = u[a]
      BY <1>1, <1>2, <2>2, <2>3
    <2>5. \A a \in 1 .. Len(N) : Append(u, path[m + 1])[a] = path[N[a]]
      BY <1>1, <1>2, <2>4 DEF u
    <2>6. DOMAIN Append(u, path[m + 1]) = 1 .. Len(N)
      BY <2>4
    <2>7. Append(u, path[m + 1]) = [a \in 1 .. Len(N) |-> Append(u, path[m + 1])[a]]
      BY <2>4, <2>6
    <2> QED
      BY <2>1, <2>2, <2>5, <2>7
  <1> QED
    BY <1>2, <1>5, <1>6, <1>7, <1>8 DEF Left, Leaves, N

LEMMA StepParent ==
  ASSUME NEW path, NEW m \in Nat, NEW walked, NEW I, Left(path, walked, I, m),
         path[m + 1] = ".."
  PROVE  \E N : Left(path, Step(walked, path[m + 1]), N, m + 1)
  <1>1. /\ I \in Seq(1 .. m) /\ Len(I) \in Nat
        /\ \A a \in 1 .. Len(I) : I[a] \in 1 .. m
    BY DEF Left
  <1>2. \A i \in 1 .. m : Height(path, i, m + 1) = Height(path, i, m) - 1
                          /\ Height(path, i, m) \in Int /\ Height(path, i, i) = 0
    BY HeightStep
  <1>3. "." # ".."
    OBVIOUS
  <1> DEFINE u == [a \in 1 .. Len(I) |-> path[I[a]]]
             P == {path[k] : k \in 1 .. m}
  <1>4. walked = u /\ u \in Seq(P) /\ Len(u) = Len(I) /\ (u = << >> <=> Len(I) = 0)
    <2>1. walked = u /\ u \in Seq(P) /\ Len(u) = Len(I)
      BY <1>1 DEF Left
    <2> QED
      BY <2>1
  <1>5. ASSUME NEW n \in Nat, n = Len(I) - 1 \/ (n = 0 /\ Len(I) = 0)
        PROVE  LET N == SubSeq(I, 1, n)
               IN  /\ N \in Seq(1 .. m + 1) /\ Len(N) = n /\ \A a \in 1 .. n : N[a] = I[a]
                   /\ Leaves(path, N, m + 1)
    <2> DEFINE N == SubSeq(I, 1, n)
    <2>1. N \in Seq(1 .. m) /\ Len(N) = n /\ \A a \in 1 .. n : N[a] = I[a]
      BY <1>1, <1>5
    <2> HIDE DEF N
    <2>2. ASSUME NEW i \in 1 .. m + 1
          PROVE  (\E a \in 1 .. Len(N) : N[a] = i)
                 <=> IsName(path[i]) /\ \A j \in i + 1 .. m + 1 : Height(path, i, j) >= 0
      <3>1. CASE i = m + 1
        BY <1>3, <2>1, <3>1 DEF IsName
      <3>2. CASE i \in 1 .. m
        <4>1. ASSUME NEW a \in 1 .. Len(N), N[a] = i
              PROVE  IsName(path[i]) /\ \A j \in i + 1 .. m + 1 : Height(path, i, j) >= 0
          <5>1. I[a] = i /\ a \in 1 .. Len(I) /\ a < Len(I)
            BY <1>1, <1>5, <2>1, <4>1
          <5>2. IsName(path[i]) /\ \A j \in i + 1 .. m : Height(path, i, j) >= 0
            BY <3>2, <5>1 DEF Left, Leaves
          <5>3. Height(path, i, m) = Len(I) - a
            BY <5>1 DEF Left
          <5>4. Height(path, i, m + 1) >= 0
            BY <1>1, <1>2, <3>2, <5>1, <5>3
          <5> QED
            BY <5>2, <5>4
        <4>2. ASSUME IsName(path[i]), \A j \in i + 1 .. m + 1 : Height(path, i, j) >= 0
              PROVE  \E a \in 1 .. Len(N) : N[a] = i
          <5>1. PICK a \in 1 .. Len(I) : I[a] = i
            BY <3>2, <4>2 DEF Left, Leaves
          <5>2. Height(path, i, m) = Len(I) - a
            BY <5>1 DEF Left
          <5>3. Height(path, i, m + 1) >= 0
            BY <3>2, <4>2
          <5>4. a < Len(I)
            BY <1>1, <1>2, <3>2, <5>1, <5>2, <5>3
          <5> QED
            BY <1>1, <1>5, <2>1, <5>1, <5>4
        <4> QED
          BY <4>1, <4>2
      <3> QED
        BY <3>1, <3>2
    <2> QED
      BY <2>1, <2>2 DEF Leaves, N
  <1> HIDE DEF u, P
  <1>6. CASE Len(I) = 0
    <2> DEFINE N == SubSeq(I, 1, 0)
    <2>1. Len(N) = 0 /\ N = SubSeq(I, 1, 0) /\ 0 \in Nat
      BY <1>1
    <2> HIDE DEF N
    <2>2. Step(walked, path[m + 1]) = << >>
      BY <1>3, <1>4, <1>6 DEF Step
    <2>3. << >> = [a \in 1 .. Len(N) |-> path[N[a]]]
      BY <2>1
    <2>4. /\ N \in Seq(1 .. m + 1)
          /\ Leaves(path, N, m + 1)
      BY <1>5, <1>6, <2>1
    <2>5. /\ \A a, b \in 1 .. Len(N) : a < b => N[a] < N[b]
          /\ \A a \in 1 .. Len(N) : Height(path, N[a], m + 1) = Len(N) - a
      BY <2>1
    <2>6. Left(path, Step(walked, path[m + 1]), N, m + 1)
      BY <2>2, <2>3, <2>4, <2>5 DEF Left
    <2> QED
      BY <2>6
  <1>7. CASE Len(I) # 0
    <2>1. PICK n \in Nat : n = Len(I) - 1
      BY <1>1, <1>7
    <2> DEFINE N == SubSeq(I, 1, n)
    <2>0. N = SubSeq(I, 1, n)
      OBVIOUS
    <2> HIDE DEF N
    <2>2. /\ N \in Seq(1 .. m + 1) /\ Len(N) = n /\ \A a \in 1 .. n : N[a] = I[a]
          /\ Leaves(path, N, m + 1)
      <3>1. n = Len(I) - 1 \/ (n = 0 /\ Len(I) = 0)
        BY <2>1
      <3> QED
        BY <1>5, <2>0, <3>1
    <2>3. Step(walked, path[m + 1]) = SubSeq(u, 1, n)
      <3>1. Step(walked, path[m + 1]) = Front(u)
        BY <1>3, <1>4, <1>7 DEF Step
      <3> QED
        BY <1>4, <2>1, <3>1 DEF Front
    <2>4. SubSeq(u, 1, n) = [a \in 1 .. Len(N) |-> path[N[a]]]
      <3>1. SubSeq(u, 1, n) = [a \in 1 .. n |-> u[a]]
        BY <1>1, <1>4, <2>1
      <3>2. ASSUME NEW a \in 1 .. n PROVE u[a] = path[N[a]]
        <4>1. a \in 1 .. Len(I)
          BY <1>1, <2>1
        <4>2. N[a] = I[a]
          BY <2>2
        <4>3. u[a] = path[I[a]]
          BY <4>1 DEF u
        <4> QED
          BY <4>2, <4>3
      <3> QED
        BY <2>2, <3>1, <3>2
    <2>5. ASSUME NEW a \in 1 .. Len(N)
          PROVE  a \in 1 .. Len(I) /\ N[a] = I[a] /\ I[a] \in 1 .. m
      <3>1. a \in 1 .. n
        BY <2>2
      <3>2. a \in 1 .. Len(I)
        BY <1>1, <2>1, <3>1
      <3>3. N[a] = I[a]
        BY <2>2, <3>1
      <3> QED
        BY <1>1, <3>2, <3>3
    <2>6. ASSUME NEW a \in 1 .. Len(N), NEW b \in 1 .. Len(N), a < b PROVE N[a] < N[b]
      <3>1. a \in 1 .. Len(I) /\ b \in 1 .. Len(I) /\ N[a] = I[a] /\ N[b] = I[b]
        BY <2>5
      <3> QED
        BY <2>6, <3>1 DEF Left
    <2>7. ASSUME NEW a \in 1 .. Len(N) PROVE Height(path, N[a], m + 1) = Len(N) - a
      <3>1. a \in 1 .. Len(I) /\ N[a] = I[a] /\ I[a] \in 1 .. m
        BY <2>5
      <3>2. Height(path, I[a], m) = Len(I) - a
        BY <3>1 DEF Left
      <3>3. Height(path, I[a], m + 1) = Height(path, I[a], m) - 1
        BY <1>2, <3>1
      <3>4. Len(N) = Len(I) - 1
        BY <2>1, <2>2
      <3> QED
        BY <1>1, <3>1, <3>2, <3>3, <3>4
    <2>8. Left(path, Step(walked, path[m + 1]), N, m + 1)
      BY <2>2, <2>3, <2>4, <2>6, <2>7 DEF Left
    <2> QED
      BY <2>8
  <1> QED
    BY <1>6, <1>7

LEMMA LeftAtLast ==
  ASSUME NEW path, NEW n \in Nat, DOMAIN path = 1 .. n
  PROVE  \E I : Left(path, Canonical(path), I, n)
  <1>1. PICK w : /\ w[0] = << >>
                 /\ \A m \in 0 .. n - 1 : w[m + 1] = Step(w[m], path[m + 1])
                 /\ Canonical(path) = w[n]
    BY Walked
  <1> DEFINE T == {m \in Nat : m <= n => \E I : Left(path, w[m], I, m)}
  <1>2. 0 \in T
    <2> DEFINE I == << >>
    <2>1. I \in Seq(1 .. 0) /\ Len(I) = 0
      OBVIOUS
    <2>2. w[0] = [a \in 1 .. Len(I) |-> path[I[a]]]
      BY <1>1, <2>1
    <2> HIDE DEF I
    <2>3. Left(path, w[0], I, 0)
      BY <2>1, <2>2 DEF Left, Leaves
    <2> QED
      BY <2>3
  <1>3. ASSUME NEW m \in Nat, m \in T PROVE m + 1 \in T
    <2> SUFFICES ASSUME m + 1 <= n PROVE \E I : Left(path, w[m + 1], I, m + 1)
      OBVIOUS
    <2>1. PICK I : Left(path, w[m], I, m)
      BY <1>3
    <2>2. w[m + 1] = Step(w[m], path[m + 1])
      BY <1>1
    <2>3. \/ path[m + 1] = "."
          \/ path[m + 1] = ".."
          \/ IsName(path[m + 1])
      BY DEF IsName
    <2>4. \E N : Left(path, Step(w[m], path[m + 1]), N, m + 1)
      BY <2>1, <2>3, StepStays, StepNames, StepParent
    <2> QED
      BY <2>2, <2>4
  <1> HIDE DEF T
  <1>4. n \in T
    BY <1>2, <1>3, Counted
  <1> QED
    BY <1>1, <1>4 DEF T

\* The places of Reached.
Places(path) ==
  {i \in DOMAIN path :
      /\ path[i] \notin {".", ".."}
      /\ \A j \in i + 1 .. Len(path) :
            Number(path, i + 1, j, {".."}) <= (j - i) - Number(path, i + 1, j, {".", ".."})}

LEMMA ReachedIsPlaces ==
  ASSUME NEW path
  PROVE  Reached(path) =
           [a \in 1 .. Cardinality(Places(path)) |->
              path[CHOOSE i \in Places(path) :
                      Cardinality({k \in Places(path) : k <= i}) = a]]
  BY Zenon DEF Reached, Places, Number

LEMMA FirstOfIncreasing ==
  ASSUME NEW I, NEW n \in Nat, I \in Seq(1 .. n),
         \A a, b \in 1 .. Len(I) : a < b => I[a] < I[b],
         NEW c \in 0 .. Len(I)
  PROVE  /\ IsFiniteSet({I[a] : a \in 1 .. c})
         /\ Cardinality({I[a] : a \in 1 .. c}) = c
  <1> DEFINE S == {I[a] : a \in 1 .. c}
             f == [a \in 1 .. c |-> I[a]]
  <1>1. \A a, b \in 1 .. c : I[a] = I[b] => a = b
    <2> SUFFICES ASSUME NEW a \in 1 .. c, NEW b \in 1 .. c, I[a] = I[b] PROVE a = b
      OBVIOUS
    <2>1. I[a] \in 1 .. n /\ I[b] \in 1 .. n /\ a \in 1 .. Len(I) /\ b \in 1 .. Len(I)
      OBVIOUS
    <2>2. ~ (a < b) /\ ~ (b < a)
      BY <2>1
    <2> QED
      BY <2>1, <2>2
  <1>2. f \in Bijection(1 .. c, S)
    BY <1>1 DEF Bijection, Injection, Surjection, IsInjective
  <1>3. ExistsBijection(1 .. c, S)
    BY <1>2 DEF ExistsBijection
  <1>4. IsFiniteSet(1 .. c) /\ Cardinality(1 .. c) = c
    BY FS_Interval
  <1> HIDE DEF S
  <1>5. IsFiniteSet(S) /\ Cardinality(S) = Cardinality(1 .. c)
    BY <1>3, <1>4, FS_Bijection
  <1> QED
    BY <1>4, <1>5 DEF S

\* Where canonicalize_path gets by taking the components one by one is where the
\* path leads, said by counting (Reached): by induction over its beginnings, what
\* is left after each of them are its names at some places (Left).
THEOREM CanonicalIsReached ==
  ASSUME NEW path, path \in Seq(Range(path))
  PROVE  Canonical(path) = Reached(path)
  <1> DEFINE n == Len(path)
             S == Places(path)
  <1>1. n \in Nat /\ DOMAIN path = 1 .. n
    OBVIOUS
  <1>2. PICK I : Left(path, Canonical(path), I, n)
    BY <1>1, LeftAtLast
  <1>3. /\ I \in Seq(1 .. n) /\ Len(I) \in Nat
        /\ \A a, b \in 1 .. Len(I) : a < b => I[a] < I[b]
        /\ Canonical(path) = [a \in 1 .. Len(I) |-> path[I[a]]]
        /\ Leaves(path, I, n)
    BY <1>2 DEF Left
  <1> HIDE DEF n
  <1>4. ASSUME NEW i PROVE i \in S <=> \E a \in 1 .. Len(I) : I[a] = i
    <2>1. CASE i \in 1 .. n
      <3>1. ASSUME NEW j \in i + 1 .. n
            PROVE  Height(path, i, j) >= 0 <=>
                   Number(path, i + 1, j, {".."})
                     <= (j - i) - Number(path, i + 1, j, {".", ".."})
        <4>1. /\ Number(path, i + 1, j, {".."}) \in Nat
              /\ Number(path, i + 1, j, {".", ".."}) \in Nat
          BY <1>1, <2>1, NumberStep
        <4> QED
          BY <1>1, <2>1, <4>1 DEF Height
      <3>2. i \in S <=> IsName(path[i]) /\ \A j \in i + 1 .. n : Height(path, i, j) >= 0
        BY <1>1, <2>1, <3>1 DEF Places, IsName, n
      <3> QED
        BY <1>3, <2>1, <3>2 DEF Leaves
    <2>2. CASE i \notin 1 .. n
      BY <1>1, <1>3, <2>2 DEF Places
    <2> QED
      BY <2>1, <2>2
  <1> HIDE DEF S
  <1>5. S = {I[a] : a \in 1 .. Len(I)} /\ Cardinality(S) = Len(I)
    <2>1. S = {I[a] : a \in 1 .. Len(I)}
      BY <1>4
    <2>2. Len(I) \in 0 .. Len(I)
      BY <1>3
    <2>3. Cardinality({I[a] : a \in 1 .. Len(I)}) = Len(I)
      BY <1>1, <1>3, <2>2, FirstOfIncreasing
    <2> QED
      BY <2>1, <2>3
  <1>6. ASSUME NEW b \in 1 .. Len(I)
        PROVE  Cardinality({k \in S : k <= I[b]}) = b
    <2>1. ASSUME NEW a \in 1 .. Len(I) PROVE I[a] <= I[b] <=> a <= b
      <3>1. I[a] \in 1 .. n /\ I[b] \in 1 .. n
        <4>1. I \in Seq(1 .. n)
          BY <1>3
        <4>2. \A c \in 1 .. Len(I) : I[c] \in 1 .. n
          BY <4>1, ElementOfSeq
        <4> QED
          BY <4>2
      <3>2. (a < b => I[a] < I[b]) /\ (b < a => I[b] < I[a])
        BY <1>3
      <3> QED
        BY <1>1, <1>3, <3>1, <3>2
    <2>2. {k \in S : k <= I[b]} = {I[a] : a \in 1 .. b}
      <3>1. ASSUME NEW k \in S, k <= I[b] PROVE k \in {I[a] : a \in 1 .. b}
        <4>1. PICK a \in 1 .. Len(I) : I[a] = k
          BY <1>4
        <4>2. a <= b
          BY <2>1, <3>1, <4>1
        <4>3. a \in 1 .. b
          BY <1>3, <4>2
        <4> QED
          BY <4>1, <4>3
      <3>2. ASSUME NEW a \in 1 .. b PROVE I[a] \in S /\ I[a] <= I[b]
        <4>1. a \in 1 .. Len(I) /\ a <= b
          BY <1>3
        <4> QED
          BY <1>4, <2>1, <4>1
      <3> QED
        BY <3>1, <3>2
    <2>3. b \in 0 .. Len(I)
      BY <1>3
    <2>4. Cardinality({I[a] : a \in 1 .. b}) = b
      BY <1>1, <1>3, <2>3, FirstOfIncreasing
    <2> QED
      BY <2>2, <2>4
  <1>7. ASSUME NEW b \in 1 .. Len(I)
        PROVE  (CHOOSE i \in S : Cardinality({k \in S : k <= i}) = b) = I[b]
    <2>1. I[b] \in S
      BY <1>4
    <2>2. ASSUME NEW i \in S, Cardinality({k \in S : k <= i}) = b PROVE i = I[b]
      <3>1. PICK a \in 1 .. Len(I) : I[a] = i
        BY <1>4
      <3>2. Cardinality({k \in S : k <= I[a]}) = a
        BY <1>6
      <3>3. a = b
        BY <2>2, <3>1, <3>2
      <3> QED
        BY <3>1, <3>3
    <2>3. Cardinality({k \in S : k <= I[b]}) = b
      BY <1>6
    <2> QED
      BY <2>1, <2>2, <2>3, Zenon
  <1>8. Reached(path) =
          [b \in 1 .. Len(I) |->
             path[CHOOSE i \in S : Cardinality({k \in S : k <= i}) = b]]
    BY <1>5, ReachedIsPlaces, Zenon DEF S
  <1>9. \A b \in 1 .. Len(I) :
          path[CHOOSE i \in S : Cardinality({k \in S : k <= i}) = b] = path[I[b]]
    BY <1>7, Zenon
  <1> QED
    BY <1>3, <1>8, <1>9, Zenon

-----------------------------------------------------------------------------
(* The gates of a tool run (ToolCatalog).                                  *)

Registered(t) == t.status # "missing" /\ t.template # "missing" /\ t.policy # "missing"

\* The rows of a discovery tool are created in one transaction.
DiscoveryWhole == key = "discovery" => tool = Unregistered \/ Registered(tool)

\* What is queued: the command that the checked parameters make, for a template.
Queued(c, k) ==
    LET command == Command(Form, Checked(c.request.params).params)
    IN  IF k = "command" THEN command.ok /\ c.payload = Template(command)
        ELSE c.payload = Handler

\* Only the identity tool is registered on demand, and the parameters of a
\* command are checked before its job is created.
CallsRight == \A r \in Runs :
    /\ call[r].stage = "ensuring" => key = "identity"
    /\ call[r].stage \in {"planned", "created"} /\ key = "command" =>
          Checked(call[r].request.params).ok
    /\ call[r].stage = "created" => Queued(call[r], key)

CatalogInv == CatalogTypeOK /\ DiscoveryWhole /\ CallsRight

Calls == [stage : Stages, at : 0 .. 3, request : Requests, payload : Payloads]

LEMMA CatalogInitInv == CatalogInit => CatalogInv
  <1> SUFFICES ASSUME CatalogInit PROVE CatalogInv
    OBVIOUS
  <1>1. tool \in {Unregistered, Converted} /\ (tool = Converted <=> key = "command")
    BY DEF CatalogInit
  <1>2. tool \in Rows
    <2>1. Unregistered \in Rows
      BY DEF Unregistered, Rows, Policies
    <2>2. Converted \in Rows
      BY <2>1 DEF Converted, Rows, Policies
    <2> QED
      BY <1>1, <2>1, <2>2
  <1>3. account \in [subscribed : BOOLEAN, agent : BOOLEAN] /\ key \in Keys
    BY DEF CatalogInit
  <1>4. ASSUME NEW request \in Requests
        PROVE  IdleRun(request) \in Calls /\ IdleRun(request).stage = "idle"
    BY DEF IdleRun, Calls, Stages, Payloads
  <1>5. call \in [Runs -> Calls] /\ \A r \in Runs : call[r].stage = "idle"
    BY <1>4 DEF CatalogInit
  <1>6. tool = Unregistered \/ key # "discovery"
    BY <1>1
  <1> QED
    BY <1>2, <1>3, <1>5, <1>6
       DEF CatalogInv, CatalogTypeOK, Calls, DiscoveryWhole, CallsRight

\* One call goes on to what is right for it.
LEMMA CallGoes ==
  ASSUME CatalogInv, NEW r \in Runs, NEW c \in Calls,
         call' = [call EXCEPT ![r] = c],
         c.stage = "ensuring" => key = "identity",
         c.stage \in {"planned", "created"} /\ key = "command" => Checked(c.request.params).ok,
         c.stage = "created" => Queued(c, key),
         UNCHANGED <<key, account>>, tool' \in Rows, DiscoveryWhole'
  PROVE  CatalogInv'
  BY DEF CatalogInv, CatalogTypeOK, CallsRight, Calls

LEMMA StageGoes ==
  ASSUME CatalogInv, NEW r \in Runs, NEW s \in Stages, To(r, s), s # "created",
         s = "ensuring" => key = "identity",
         s = "planned" /\ key = "command" => Checked(call[r].request.params).ok,
         UNCHANGED <<key, tool, account>>
  PROVE  CatalogInv'
  <1> DEFINE c == [call[r] EXCEPT !.stage = s]
  <1>1. call[r] \in Calls
    BY DEF CatalogInv, CatalogTypeOK, Calls
  <1>2. c \in Calls /\ c.stage = s /\ c.request = call[r].request
    BY <1>1 DEF Calls
  <1>3. call' = [call EXCEPT ![r] = c]
    BY DEF To
  <1>4. tool' \in Rows /\ DiscoveryWhole'
    BY DEF CatalogInv, CatalogTypeOK, DiscoveryWhole
  <1> QED
    BY <1>2, <1>3, <1>4, CallGoes

LEMMA RowEnsuredTyped ==
  ASSUME NEW t \in Rows, NEW n \in 0 .. 3
  PROVE  RowEnsured(t, n) \in Rows
  <1>1. CASE n = 2
    <2>1. GetOrCreate(t.policy, "open") \in Policies
      BY DEF GetOrCreate, Rows, Policies
    <2>2. (t.policy = "missing" \/ t.active) \in BOOLEAN
      OBVIOUS
    <2>3. ASSUME NEW p \in Policies, NEW a \in BOOLEAN
          PROVE  [t EXCEPT !.policy = p, !.active = a] \in Rows
      BY DEF Rows
    <2>4. [t EXCEPT !.policy = GetOrCreate(t.policy, "open"),
                    !.active = (t.policy = "missing" \/ t.active)] \in Rows
      BY <2>1, <2>2, <2>3
    <2> QED
      BY <1>1, <2>4 DEF RowEnsured
  <1>2. CASE n = 0
    BY <1>2 DEF RowEnsured, GetOrCreate, Rows
  <1>3. CASE n = 1
    BY <1>3 DEF RowEnsured, GetOrCreate, Rows
  <1>4. CASE n = 3
    BY <1>4 DEF RowEnsured, Rows
  <1> QED
    BY <1>1, <1>2, <1>3, <1>4

\* The administrator and the two commands.
LEMMA ToolInv ==
  ASSUME CatalogInv, EnablePhase2 \/ EnableCommand \/ EnsureBaseline \/ AdminEdits
  PROVE  CatalogInv'
  <1>1. UNCHANGED <<key, account, call>>
    BY DEF EnablePhase2, EnableCommand, EnsureBaseline, AdminEdits
  <1>2. tool \in Rows
    BY DEF CatalogInv, CatalogTypeOK
  <1>3. CASE EnablePhase2
    <2>1. tool' = Phase2Applied(tool)
      BY <1>3 DEF EnablePhase2
    <2>2. WithContract(tool) \in Rows /\ Registered(WithContract(tool))
      BY <1>2 DEF WithContract, GetOrCreate, Rows, Policies, Registered
    <2>3. tool' \in Rows /\ Registered(tool')
      BY <2>1, <2>2 DEF Phase2Applied, Opened, Rows, Policies, Registered
    <2> QED
      BY <1>1, <2>3
         DEF CatalogInv, CatalogTypeOK, DiscoveryWhole, CallsRight, Payloads, Commands
  <1>4. CASE EnableCommand \/ EnsureBaseline
    <2>1. tool' \in Rows
      <3>1. CASE EnableCommand
        BY <1>2, <3>1 DEF EnableCommand, Opened, Rows, Policies
      <3>2. CASE EnsureBaseline
        <4>1. PICK n \in 0 .. 2 : tool' = RowEnsured(tool, n)
          BY <3>2 DEF EnsureBaseline
        <4> QED
          BY <1>2, <4>1, RowEnsuredTyped
      <3> QED
        BY <1>4, <3>1, <3>2
    <2>2. key # "discovery"
      BY <1>4 DEF EnableCommand, EnsureBaseline
    <2> QED
      BY <1>1, <2>1, <2>2 DEF CatalogInv, CatalogTypeOK, DiscoveryWhole, CallsRight
  <1>5. CASE AdminEdits
    <2>1. tool' \in Rows /\ (Registered(tool) => Registered(tool'))
      BY <1>2, <1>5 DEF AdminEdits, Rows, Registered
    <2>2. tool = Unregistered => FALSE
      BY <1>5 DEF AdminEdits, Unregistered
    <2> QED
      BY <1>1, <2>1, <2>2 DEF CatalogInv, CatalogTypeOK, DiscoveryWhole, CallsRight
  <1> QED
    BY <1>3, <1>4, <1>5

LEMMA EnsureRowInv ==
  ASSUME CatalogInv, NEW r \in Runs, EnsureRow(r)
  PROVE  CatalogInv'
  <1>1. call[r] \in Calls /\ tool \in Rows /\ key = "identity"
    BY DEF CatalogInv, CatalogTypeOK, CallsRight, EnsureRow, Calls
  <1> DEFINE c == IF call[r].at = 3 THEN [call[r] EXCEPT !.stage = "idle", !.at = 0]
                  ELSE [call[r] EXCEPT !.at = call[r].at + 1]
  <1>2. c \in Calls
    <2>1. ASSUME NEW s \in Stages, NEW n \in 0 .. 3
          PROVE  [call[r] EXCEPT !.stage = s, !.at = n] \in Calls
      BY <1>1 DEF Calls
    <2>2. CASE call[r].at = 3
      BY <2>1, <2>2 DEF Stages
    <2>3. CASE call[r].at # 3
      BY <1>1, <2>3 DEF Calls
    <2> QED
      BY <2>2, <2>3
  <1>3. call' = [call EXCEPT ![r] = c]
    BY DEF EnsureRow
  <1>4. tool' \in Rows
    BY <1>1, RowEnsuredTyped DEF EnsureRow, Calls
  <1>5. UNCHANGED <<key, account>> /\ DiscoveryWhole'
    BY <1>1 DEF EnsureRow, DiscoveryWhole
  <1>6. c.stage \in {"idle", "ensuring"}
    BY <1>1 DEF EnsureRow, Calls
  <1> HIDE DEF c
  <1> QED
    BY <1>1, <1>2, <1>3, <1>4, <1>5, <1>6, CallGoes

LEMMA CreateJobInv ==
  ASSUME CatalogInv, NEW r \in Runs, CreateJob(r)
  PROVE  CatalogInv'
  <1>1. call[r] \in Calls /\ call[r].stage = "planned"
    BY DEF CatalogInv, CatalogTypeOK, CreateJob, Calls
  <1> DEFINE payload == Payload(call[r].request.params)
             c == [call[r] EXCEPT !.stage = "created", !.payload = payload.payload]
  <1>2. CASE account.agent /\ payload.ok
    <2>1. payload.payload \in Payloads
      <3>1. CASE key # "command"
        BY <3>1 DEF Payload, Payloads
      <3>2. CASE key = "command"
        <4> DEFINE params == call[r].request.params
                   command == Command(Form, Checked(params).params)
        <4>1. params \in Params /\ Checked(params).ok
          BY <1>1, <3>2 DEF CatalogInv, CallsRight, Calls, Requests
        <4>2. command \in Commands
          BY <4>1 DEF Commands
        <4> HIDE DEF command
        <4>3. payload = IF command.ok THEN [ok |-> TRUE, payload |-> Template(command)]
                        ELSE Failed
          BY <3>2 DEF Payload, command
        <4>4. command.ok /\ payload.payload = Template(command)
          BY <1>2, <4>3 DEF Failed
        <4> QED
          BY <4>2, <4>4 DEF Payloads
      <3> QED
        BY <3>1, <3>2
    <2>2. call' = [call EXCEPT ![r] = c]
      BY <1>2 DEF CreateJob
    <2>7. IF key = "command"
          THEN LET command == Command(Form, Checked(call[r].request.params).params)
               IN  command.ok /\ payload.payload = Template(command)
          ELSE payload.payload = Handler
      BY <1>2 DEF Payload, Failed
    <2> HIDE DEF payload
    <2>3. c \in Calls /\ c.stage = "created" /\ c.request = call[r].request
      BY <1>1, <2>1 DEF Calls, Stages
    <2>8. Queued(c, key)
      <3>1. c.payload = payload.payload
        BY <1>1 DEF Calls
      <3> HIDE DEF c
      <3> QED BY <2>3, <2>7, <3>1 DEF Queued
    <2>6. key = "command" => Checked(c.request.params).ok
      BY <1>1, <2>3 DEF CatalogInv, CallsRight
    <2>4. UNCHANGED <<key, tool, account>>
      BY DEF CreateJob
    <2>5. tool' \in Rows /\ DiscoveryWhole'
      BY <2>4 DEF CatalogInv, CatalogTypeOK, DiscoveryWhole
    <2> QED
      BY <2>2, <2>3, <2>4, <2>5, <2>6, <2>8, CallGoes
  <1>3. CASE ~ (account.agent /\ payload.ok)
    <2>1. To(r, "denied") /\ UNCHANGED <<key, tool, account>>
      BY <1>3 DEF CreateJob
    <2> QED
      BY <2>1, StageGoes DEF Stages
  <1> QED
    BY <1>2, <1>3

LEMMA CallInv ==
  ASSUME CatalogInv, NEW r \in Runs,
         \/ Ensure(r) \/ Dies(r) \/ ReadDefinition(r) \/ ReadPolicy(r)
         \/ ReadSubscription(r) \/ ReadPlan(r) \/ HandOut(r) \/ Execute(r)
  PROVE  CatalogInv'
  <1>1. UNCHANGED <<key, tool, account>>
    BY DEF Ensure, Dies, ReadDefinition, ReadPolicy, ReadSubscription, ReadPlan,
           HandOut, Execute
  <1>2. tool' \in Rows /\ DiscoveryWhole'
    BY <1>1 DEF CatalogInv, CatalogTypeOK, DiscoveryWhole
  <1>3. call[r] \in Calls
    BY DEF CatalogInv, CatalogTypeOK, Calls
  <1>4. CASE Dies(r)
    <2> DEFINE c == [call[r] EXCEPT !.stage = "denied", !.at = 0]
    <2>1. ASSUME NEW s \in Stages, NEW n \in 0 .. 3
          PROVE  LET d == [call[r] EXCEPT !.stage = s, !.at = n]
                 IN  d \in Calls /\ d.stage = s
      BY <1>3 DEF Calls
    <2>2. c \in Calls /\ c.stage = "denied"
      BY <2>1 DEF Stages
    <2>3. call' = [call EXCEPT ![r] = c]
      BY <1>4 DEF Dies
    <2> QED
      BY <1>1, <1>2, <2>2, <2>3, CallGoes
  <1>5. CASE HandOut(r) /\ IsAllowed(tool)
    <2> DEFINE c == [call[r] EXCEPT !.stage = "handed", !.payload = NoPayload]
    <2>1. c \in Calls /\ c.stage = "handed"
      BY <1>3 DEF Calls, Stages, Payloads
    <2>2. call' = [call EXCEPT ![r] = c]
      BY <1>5 DEF HandOut
    <2> QED
      BY <1>1, <1>2, <2>1, <2>2, CallGoes
  <1>6. CASE HandOut(r) /\ ~ IsAllowed(tool)
    <2>1. To(r, "rejected")
      BY <1>6 DEF HandOut
    <2> QED
      BY <1>1, <2>1, StageGoes DEF Stages
  <1>7. CASE Ensure(r)
    BY <1>1, <1>7, StageGoes DEF Ensure, Stages
  <1>8. CASE ReadDefinition(r) \/ ReadPolicy(r) \/ ReadSubscription(r)
    <2>1. PICK s \in {"defined", "permitted", "subscribed", "denied"} : To(r, s)
      BY <1>8 DEF ReadDefinition, ReadPolicy, ReadSubscription, Either
    <2> QED
      BY <1>1, <2>1, StageGoes DEF Stages
  <1>9. CASE ReadPlan(r)
    <2> DEFINE params == call[r].request.params
               accepted == IF key = "command" THEN Checked(params).ok
                           ELSE DOMAIN params = {}
               s == IF tool.plan = "on" /\ accepted THEN "planned" ELSE "denied"
    <2>1. To(r, s)
      BY <1>9 DEF ReadPlan, Either
    <2>2. s \in {"planned", "denied"}
          /\ (s = "planned" /\ key = "command" => Checked(params).ok)
      OBVIOUS
    <2> HIDE DEF s
    <2> QED
      BY <1>1, <2>1, <2>2, StageGoes DEF Stages
  <1>10. CASE Execute(r)
    <2>1. PICK s \in {"succeeded", "failed", "rejected", "unknown"} : To(r, s)
      BY <1>10, <1>3 DEF Execute, CommandOutcomes, CatalogInv, CatalogTypeOK, Keys
    <2> QED
      BY <1>1, <2>1, StageGoes DEF Stages
  <1> QED
    BY <1>4, <1>5, <1>6, <1>7, <1>8, <1>9, <1>10

LEMMA CatalogStep == CatalogInv /\ [CatalogNext]_catalogVars => CatalogInv'
  <1> SUFFICES ASSUME CatalogInv, [CatalogNext]_catalogVars PROVE CatalogInv'
    OBVIOUS
  <1>1. CASE AccountLoses
    BY <1>1 DEF AccountLoses, CatalogInv, CatalogTypeOK, DiscoveryWhole, CallsRight
  <1>2. CASE UNCHANGED catalogVars
    BY <1>2 DEF catalogVars, CatalogInv, CatalogTypeOK, DiscoveryWhole, CallsRight
  <1> QED
    BY <1>1, <1>2, ToolInv, EnsureRowInv, CreateJobInv, CallInv DEF CatalogNext

LEMMA CatalogAlways == CatalogSpec => []CatalogInv
  BY CatalogInitInv, CatalogStep, PTL DEF CatalogSpec

\* The types of ToolCatalog (CatalogTypeOK). A job that is queued has nothing to
\* execute but the handler, or the command that its checked parameters make.
THEOREM CatalogTypeCorrect == CatalogSpec => []CatalogTypeOK
  <1>1. CatalogInv => CatalogTypeOK
    BY DEF CatalogInv
  <1> QED
    BY <1>1, CatalogAlways, PTL

\* What create_tool_run_job admits, is_allowed_tool hands out
\* (AdmittedIsAllowed): whoever may ask for a tool, the system may too.
THEOREM AdmittedIsAllowedHolds == CatalogSpec => []AdmittedIsAllowed
  <1>1. CatalogInv => AdmittedIsAllowed
    BY DEF AdmittedIsAllowed, Permits, IsAllowed, Allows
  <1> QED
    BY <1>1, CatalogAlways, PTL

\* The dry runs announce what the commands change (DryRunTells): a tool that is
\* not safe, and gets nothing but its missing rows, misses none.
THEOREM DryRunTellsHolds == CatalogSpec => []DryRunTells
  <1>1. CatalogInv => DryRunTells
    <2> SUFFICES ASSUME CatalogInv PROVE DryRunTells
      OBVIOUS
    <2>1. tool \in Rows
      BY DEF CatalogInv, CatalogTypeOK
    <2>2. ASSUME NEW policy \in Policies
          PROVE  (Differences(tool, policy) = {}) <=> (Opened(tool, policy) = tool)
      BY <2>1 DEF Differences, Opened, Rows
    <2>3. CASE key = "discovery" /\ Registered(tool)
      <3>1. WithContract(tool) = tool
        BY <2>1, <2>3 DEF WithContract, GetOrCreate, Registered, Rows
      <3>2. /\ Phase2Planned(tool) = IF tool.safe THEN Differences(tool, "pilot") ELSE {}
            /\ Phase2Applied(tool) = IF tool.safe THEN Opened(tool, "pilot") ELSE tool
        BY <2>1, <2>3, <3>1 DEF Phase2Planned, Phase2Applied, Registered, Rows
      <3>3. /\ "plan" \in Differences(tool, "pilot") <=> tool.plan # "on"
            /\ "status" \in Differences(tool, "pilot") <=> tool.status # "enabled"
        BY DEF Differences
      <3>4. /\ Opened(tool, "pilot").plan = "on"
            /\ Opened(tool, "pilot").status = "enabled"
        BY <2>1 DEF Opened, Rows
      <3> QED
        BY <2>2, <2>3, <3>2, <3>3, <3>4 DEF DryRunTells, Policies
    <2>4. CASE key = "discovery" /\ tool = Unregistered
      BY <2>4 DEF DryRunTells, Phase2Planned, Phase2Applied, WithContract, GetOrCreate,
                  Opened, Unregistered
    <2>5. CASE key # "discovery"
      BY <2>2, <2>5 DEF DryRunTells, Policies
    <2> QED
      BY <2>3, <2>4, <2>5 DEF CatalogInv, DiscoveryWhole
  <1> QED
    BY <1>1, CatalogAlways, PTL

\* Texts whose pieces are put together again are what they were.
LEMMA FlattenLetters ==
  ASSUME NEW S, NEW text \in Seq(S)
  PROVE  FlattenSeq([i \in 1 .. Len(text) |-> << text[i] >>]) = text
  <1> DEFINE n == Len(text)
             seqs == [i \in 1 .. n |-> << text[i] >>]
             Is(f) == f = [i \in 1 .. n |-> IF i = 1 THEN seqs[i] ELSE f[i - 1] \o seqs[i]]
             g == [i \in 1 .. n |-> SubSeq(text, 1, i)]
             flatten == CHOOSE f : Is(f)
  <1>1. n \in Nat /\ Len(seqs) = n
    OBVIOUS
  <1>2. CASE n = 0
    BY <1>1, <1>2 DEF FlattenSeq
  <1>3. CASE n # 0
    <2>1. ASSUME NEW i \in 1 .. n
          PROVE  SubSeq(text, 1, i) =
                   IF i = 1 THEN << text[i] >> ELSE SubSeq(text, 1, i - 1) \o << text[i] >>
      <3>1. CASE i = 1
        <4>1. Len(SubSeq(text, 1, 1)) = 1 /\ SubSeq(text, 1, 1)[1] = text[1]
          BY <1>1, <3>1
        <4>2. SubSeq(text, 1, 1) \in Seq(S) /\ << text[1] >> \in Seq(S)
          BY <1>1, <3>1
        <4>3. Len(<< text[1] >>) = 1 /\ << text[1] >>[1] = text[1]
          OBVIOUS
        <4>4. \A j \in 1 .. 1 : SubSeq(text, 1, 1)[j] = << text[1] >>[j]
          BY <4>1, <4>3
        <4>5. SubSeq(text, 1, 1) = << text[1] >>
          BY <4>1, <4>2, <4>3, <4>4, SeqEqual
        <4> QED
          BY <3>1, <4>5
      <3>2. CASE i # 1
        <4>1. 1 \in 1 .. Len(text) /\ i \in 1 .. Len(text)
          BY <1>1, <1>3
        <4> QED
          BY <3>2, <4>1, SubSeqRecursiveSecond
      <3> QED
        BY <3>1, <3>2
    <2>2. Is(g)
      <3>1. ASSUME NEW i \in 1 .. n
            PROVE  g[i] = IF i = 1 THEN seqs[i] ELSE g[i - 1] \o seqs[i]
        <4>1. i # 1 => i - 1 \in 1 .. n
          BY <1>1
        <4> QED
          BY <2>1, <4>1
      <3>2. g = [i \in 1 .. n |-> g[i]]
        OBVIOUS
      <3> HIDE DEF g, seqs
      <3> QED BY <3>1, <3>2, Zenon
    <2>3. Is(flatten)
      <3> HIDE DEF Is, g
      <3> QED BY <2>2
    <2>4. FlattenSeq(seqs) = flatten[n]
      BY <1>1, <1>3 DEF FlattenSeq
    <2>5. \A i \in 1 .. n : flatten[i] = IF i = 1 THEN seqs[i] ELSE flatten[i - 1] \o seqs[i]
      <3> HIDE DEF flatten, seqs
      <3> QED BY <2>3
    <2> HIDE DEF flatten
    <2> DEFINE T == {i \in Nat : i \in 1 .. n => flatten[i] = SubSeq(text, 1, i)}
    <2>6. 0 \in T
      OBVIOUS
    <2>7. ASSUME NEW i \in Nat, i \in T PROVE i + 1 \in T
      <3> SUFFICES ASSUME i + 1 \in 1 .. n PROVE flatten[i + 1] = SubSeq(text, 1, i + 1)
        OBVIOUS
      <3>1. flatten[i + 1] = IF i = 0 THEN << text[i + 1] >> ELSE flatten[i] \o << text[i + 1] >>
        BY <2>5
      <3>2. SubSeq(text, 1, i + 1) =
              IF i = 0 THEN << text[i + 1] >> ELSE SubSeq(text, 1, i) \o << text[i + 1] >>
        BY <2>1
      <3>3. i # 0 => flatten[i] = SubSeq(text, 1, i)
        BY <1>1, <2>7
      <3> QED
        BY <3>1, <3>2, <3>3
    <2> HIDE DEF T
    <2>8. n \in T
      BY <1>1, <2>6, <2>7, Counted
    <2>9. flatten[n] = SubSeq(text, 1, n)
      BY <1>1, <1>3, <2>8 DEF T
    <2>10. SubSeq(text, 1, n) = text
      OBVIOUS
    <2> QED
      BY <2>4, <2>9, <2>10
  <1> QED
    BY <1>2, <1>3

\* A text without the placeholder stays as it is.
LEMMA FillNothing ==
  ASSUME NEW S, NEW text \in Seq(S), NEW hole, hole \notin Range(text), NEW value
  PROVE  Fill(text, hole, value) = text
  <1>1. \A i \in 1 .. Len(text) : text[i] # hole
    BY DEF Range
  <1>2. [i \in 1 .. Len(text) |-> IF text[i] = hole THEN value ELSE << text[i] >>]
          = [i \in 1 .. Len(text) |-> << text[i] >>]
    BY <1>1
  <1> QED
    BY <1>2, FlattenLetters, Zenon DEF Fill

\* The placeholder alone becomes the value.
LEMMA FillHole ==
  ASSUME NEW hole, NEW value
  PROVE  Fill(<< hole >>, hole, value) = value
  <1> DEFINE seqs == << value >>
             Is(f) == f = [i \in 1 .. 1 |-> IF i = 1 THEN seqs[i] ELSE f[i - 1] \o seqs[i]]
             flatten == CHOOSE f : Is(f)
  <1>1. [i \in 1 .. Len(<< hole >>) |->
            IF << hole >>[i] = hole THEN value ELSE << << hole >>[i] >>] = seqs
    OBVIOUS
  <1>2. Fill(<< hole >>, hole, value) = FlattenSeq(seqs)
    BY <1>1, Zenon DEF Fill
  <1>3. Len(seqs) = 1
    OBVIOUS
  <1>4. FlattenSeq(seqs) = flatten[1]
    BY <1>3 DEF FlattenSeq
  <1>5. Is([i \in 1 .. 1 |-> value])
    OBVIOUS
  <1>6. Is(flatten)
    <2> HIDE DEF Is
    <2> QED BY <1>5
  <1>7. flatten[1] = value
    <2> HIDE DEF flatten
    <2> QED BY <1>6
  <1> QED
    BY <1>2, <1>4, <1>7

\* Filled in, a path's placeholder is the path's text, if it has no placeholder
\* itself, however many parameters are filled in before and after it; or it is
\* left as it is.
LEMMA RenderedPath ==
  ASSUME NEW params, NEW n \in DOMAIN params, params[n].type = "path",
         n \in DOMAIN Form.holes,
         Range(params[n].value) \cap Range(Form.holes) = {},
         params[n].value \in Seq(Range(params[n].value))
  PROVE  Render(Form, << Form.holes[n] >>, params)
            \in {PathText(params[n].value), << Form.holes[n] >>}
  <1> DEFINE order == Form.schema.order
             N == Len(order)
             hole == << Form.holes[n] >>
             text == PathText(params[n].value)
             Next1(f, k) == IF k = 0 THEN hole
                            ELSE IF order[k] \notin DOMAIN params THEN f[k - 1]
                            ELSE Fill(f[k - 1], Form.holes[order[k]], ValueText(params[order[k]]))
             Is(f) == f = [k \in 0 .. N |-> Next1(f, k)]
             Now(k) == IF \E j \in 1 .. k : order[j] = n THEN text ELSE hole
             g == [k \in 0 .. N |-> Now(k)]
             filled == CHOOSE f : Is(f)
  <1>1. N \in Nat /\ \A k \in 1 .. N : order[k] \in DOMAIN Form.holes
    <2>1. order \in Seq(DOMAIN Form.holes)
      BY CatalogAssumption
    <2> QED
      BY <2>1, ElementOfSeq
  <1>2. \A k \in 1 .. N : Form.holes[order[k]] \in Range(Form.holes)
    BY <1>1 DEF Range
  <1>3. text \in Seq({"/"} \cup Range(params[n].value)) /\ Range(text) \cap Range(Form.holes) = {}
    <2> DEFINE path == params[n].value
               S == {"/"} \cup Range(path)
    <2>1. path \in Seq(Range(path)) /\ Len(path) \in Nat
      OBVIOUS
    <2> HIDE DEF path
    <2>2. \A i \in 1 .. Len(path) : path[i] \in S
      BY <2>1 DEF Range
    <2>3. PathText(path) \in Seq(S)
      <3>1. CASE path = << >>
        BY <3>1 DEF PathText
      <3>2. CASE path # << >>
        <4> DEFINE t == [i \in 1 .. 2 * Len(path) |-> IF i % 2 = 1 THEN "/" ELSE path[i \div 2]]
        <4>1. ASSUME NEW i \in 1 .. 2 * Len(path) PROVE t[i] \in S
          <5>1. CASE i % 2 = 1
            BY <5>1
          <5>2. CASE i % 2 # 1
            <6>1. i \div 2 \in 1 .. Len(path)
              BY <2>1, <5>2
            <6> QED
              BY <2>2, <5>2, <6>1
          <5> QED
            BY <5>1, <5>2
        <4>2. 2 * Len(path) \in Nat
          BY <2>1
        <4> HIDE DEF S
        <4>3. t \in Seq(S)
          BY <4>1, <4>2
        <4> QED
          BY <3>2, <4>3 DEF PathText
      <3> QED
        BY <3>1, <3>2
    <2>4. Range(PathText(path)) \subseteq S
      BY <2>3, ElementOfSeq DEF Range
    <2>5. S \cap Range(Form.holes) = {}
      BY CatalogAssumption DEF path
    <2> QED
      BY <2>3, <2>4, <2>5 DEF path
  <1> HIDE DEF text
  <1>5. ASSUME NEW k \in 1 .. N, NEW before, before = Now(k - 1)
        PROVE  Now(k) = IF order[k] \notin DOMAIN params THEN before
                        ELSE Fill(before, Form.holes[order[k]], ValueText(params[order[k]]))
    <2>1. CASE order[k] # n
      <3>1. Now(k) = before
        BY <1>1, <1>5, <2>1
      <3>2. Form.holes[order[k]] # Form.holes[n]
        BY <1>1, <2>1, CatalogAssumption
      <3>3. hole \in Seq({Form.holes[n]}) /\ Range(hole) = {Form.holes[n]}
        BY DEF Range
      <3>4. Fill(hole, Form.holes[order[k]], ValueText(params[order[k]])) = hole
        BY <3>2, <3>3, FillNothing
      <3>5. Fill(text, Form.holes[order[k]], ValueText(params[order[k]])) = text
        BY <1>2, <1>3, FillNothing
      <3>6. before \in {hole, text}
        BY <1>5
      <3> HIDE DEF Now, hole
      <3> QED
        BY <3>1, <3>4, <3>5, <3>6
    <2>2. CASE order[k] = n
      <3>1. Now(k) = text
        BY <1>1, <2>2
      <3>2. ValueText(params[order[k]]) = text
        BY <2>2 DEF ValueText, text
      <3>3. Fill(hole, Form.holes[n], text) = text
        BY FillHole
      <3>4. Fill(text, Form.holes[n], text) = text
        BY <1>2, <1>3, <2>2, FillNothing
      <3>5. before \in {hole, text}
        BY <1>5
      <3> HIDE DEF Now, hole
      <3> QED
        BY <2>2, <3>1, <3>2, <3>3, <3>4, <3>5
    <2> QED
      BY <2>1, <2>2
  <1>6. Now(0) = hole
    BY <1>1
  <1>7. Is(g)
    <2>1. ASSUME NEW k \in 0 .. N PROVE g[k] = Next1(g, k)
      <3>1. CASE k = 0
        BY <1>6, <3>1
      <3>2. CASE k # 0
        <4>1. k \in 1 .. N /\ k - 1 \in 0 .. N
          BY <1>1, <3>2
        <4>2. g[k] = Now(k) /\ g[k - 1] = Now(k - 1)
          BY <4>1
        <4> HIDE DEF g, Now
        <4> QED
          BY <1>5, <3>2, <4>1, <4>2
      <3> QED
        BY <3>1, <3>2
    <2>2. g = [k \in 0 .. N |-> g[k]]
      OBVIOUS
    <2> HIDE DEF g, Next1
    <2> QED BY <2>1, <2>2, Zenon
  <1>8. Is(filled)
    <2> HIDE DEF Is, g
    <2> QED BY <1>7
  <1>9. Render(Form, hole, params) = filled[N]
    BY Zenon DEF Render
  <1>10. \A k \in 0 .. N : filled[k] = Next1(filled, k)
    <2> HIDE DEF filled, Next1
    <2> QED BY <1>8
  <1> HIDE DEF filled
  <1> DEFINE T == {k \in Nat : k \in 0 .. N => filled[k] = Now(k)}
  <1>11. 0 \in T
    BY <1>1, <1>6, <1>10
  <1>12. ASSUME NEW k \in Nat, k \in T PROVE k + 1 \in T
    <2> SUFFICES ASSUME k + 1 \in 0 .. N PROVE filled[k + 1] = Now(k + 1)
      OBVIOUS
    <2>1. k + 1 \in 1 .. N /\ k \in 0 .. N /\ (k + 1) - 1 = k /\ k + 1 # 0
      BY <1>1
    <2>2. filled[k] = Now(k)
      BY <1>12, <2>1
    <2> HIDE DEF Now
    <2> QED
      BY <1>5, <1>10, <2>1, <2>2
  <1> HIDE DEF T
  <1>13. N \in T
    BY <1>1, <1>11, <1>12, Counted
  <1>14. filled[N] = Now(N)
    BY <1>1, <1>13 DEF T
  <1> QED
    BY <1>9, <1>14 DEF text

LEMMA WithoutStarIsPath ==
  ASSUME NEW prefix, prefix \in Seq(Range(prefix))
  PROVE  WithoutStar(prefix) \in Seq(Range(WithoutStar(prefix)))
  <1>1. CASE WithoutStar(prefix) = prefix
    BY <1>1
  <1>2. CASE WithoutStar(prefix) # prefix
    <2> DEFINE n == Len(prefix) - 1
               front == SubSeq(prefix, 1, n)
    <2>1. prefix # << >> /\ WithoutStar(prefix) = Front(prefix)
      BY <1>2 DEF WithoutStar
    <2>2. n \in Nat
      BY <2>1
    <2>3. WithoutStar(prefix) = front
      BY <2>1 DEF Front
    <2>4. Len(front) = n /\ DOMAIN front = 1 .. n /\ front \in Seq(Range(prefix))
      BY <2>2
    <2>5. \A a \in 1 .. n : front[a] \in Range(front)
      BY <2>4 DEF Range
    <2>6. front = [a \in 1 .. n |-> front[a]]
      BY <2>4
    <2> HIDE DEF front, n
    <2>7. front \in Seq(Range(front))
      BY <2>2, <2>5, <2>6, IsASeq
    <2> QED
      BY <2>3, <2>7
  <1> QED
    BY <1>1, <1>2

LEMMA UnderIsCovers ==
  ASSUME NEW prefix, prefix \in Seq(Range(prefix)),
         NEW place, place \in Seq(Range(place)), "//" \notin Range(place)
  PROVE  Under(place, prefix) <=> Covers(prefix, place)
  <1>1. Base(prefix) = Reached(WithoutStar(prefix))
    BY WithoutStarIsPath, CanonicalIsReached DEF Base
  <1>2. ~ (place # << >> /\ Head(place) = "//")
    BY DEF Range
  <1> QED
    BY <1>1, <1>2, Zenon DEF Under, Covers

\* The names that a path leads to are a path again.
LEMMA ReachedIsPath ==
  ASSUME NEW path, path \in Seq(Range(path))
  PROVE  Reached(path) \in Seq(Range(Reached(path)))
  <1> DEFINE place == Reached(path)
  <1>1. PICK I : Left(path, Canonical(path), I, Len(path))
    BY LeftAtLast
  <1>2. Len(I) \in Nat /\ place = [a \in 1 .. Len(I) |-> path[I[a]]]
    BY <1>1, CanonicalIsReached DEF Left
  <1> HIDE DEF place
  <1>3. \A a \in 1 .. Len(I) : place[a] \in Range(place)
    BY <1>2 DEF Range
  <1>4. place = [a \in 1 .. Len(I) |-> place[a]]
    BY <1>2
  <1> QED
    BY <1>2, <1>3, <1>4, IsASeq DEF place

\* Of the checked parameters a literal path has become the place it leads to, and
\* is permitted by what the prefixes stand for.
LEMMA CheckedPath ==
  ASSUME NEW params \in Params, Checked(params).ok, NEW n \in DOMAIN params,
         params[n].type = "path", Literal(Reached(params[n].value))
  PROVE  LET place == Reached(params[n].value)
             checked == Checked(params).params
         IN  /\ n \in DOMAIN checked /\ n \in DOMAIN Form.holes
             /\ checked[n].type = "path" /\ checked[n].value = place
             /\ place \in Seq(Range(place))
             /\ \A prefix \in Form.blocked : ~ Covers(prefix, place)
             /\ Form.restricted =>
                   \E prefix \in Range(Form.allowed) : Covers(prefix, place)
  <1> DEFINE place == Reached(params[n].value)
  <1>1. /\ ParamsPermitted(Form, Validated(params))
        /\ Checked(params).params = Validated(params)
        /\ Accepts(Form.schema, params)
    BY DEF Checked, Failed
  <1>2. n \in DOMAIN Form.holes
    BY <1>1, CatalogAssumption DEF Accepts
  <1>3. params[n].value \in Seq(Range(params[n].value))
    BY PathsAssumption
  <1>4. Canonical(params[n].value) = place /\ place \in Seq(Range(place))
    BY <1>3, CanonicalIsReached, ReachedIsPath
  <1>5. "//" \notin Range(place)
    BY DEF Literal
  <1> HIDE DEF place
  <1>6. /\ DOMAIN Validated(params) = DOMAIN params
        /\ Validated(params)[n].type = "path"
        /\ Validated(params)[n].value = place
    <2>1. DOMAIN params[n] = {"type", "value"}
      BY PathsAssumption
    <2>2. /\ DOMAIN Validated(params) = DOMAIN params
          /\ Validated(params)[n] = [params[n] EXCEPT !.value = Canonical(params[n].value)]
      BY Zenon DEF Validated
    <2> QED
      BY <1>4, <2>1, <2>2
  <1>7. PathPermitted(Form, place)
    BY <1>1, <1>6 DEF ParamsPermitted
  <1>8. ASSUME NEW prefix \in Form.blocked PROVE ~ Covers(prefix, place)
    <2>1. prefix \in Seq(Range(prefix))
      BY PathsAssumption
    <2>2. ~ Under(place, prefix)
      BY <1>7 DEF PathPermitted
    <2> QED
      BY <1>4, <1>5, <2>1, <2>2, UnderIsCovers
  <1>9. ASSUME Form.restricted
        PROVE  \E prefix \in Range(Form.allowed) : Covers(prefix, place)
    <2>1. PICK i \in DOMAIN Form.allowed : Under(place, Form.allowed[i])
      BY <1>7, <1>9 DEF PathPermitted
    <2>2. Form.allowed[i] \in Range(Form.allowed)
      BY <2>1 DEF Range
    <2>3. Form.allowed[i] \in Seq(Range(Form.allowed[i]))
      BY <2>2, PathsAssumption
    <2> QED
      BY <1>4, <1>5, <2>1, <2>2, <2>3, UnderIsCovers
  <1> QED
    BY <1>1, <1>2, <1>4, <1>6, <1>8, <1>9 DEF place

LEMMA QueuedPathsSafe == CatalogInv => RunsAreSafe
  <1> SUFFICES ASSUME CatalogInv, NEW r \in Runs,
                      call[r].stage = "created",
                      call[r].payload.type = "command_template",
                      NEW i \in DOMAIN Form.argv,
                      NEW n \in DOMAIN call[r].request.params,
                      call[r].request.params[n].type = "path",
                      Form.argv[i] = << Form.holes[n] >>,
                      Literal(Reached(call[r].request.params[n].value))
               PROVE  LET place == Reached(call[r].request.params[n].value)
                      IN  /\ call[r].payload.argv[i] = PathText(place)
                          /\ \A prefix \in Form.blocked : ~ Covers(prefix, place)
                          /\ Form.restricted =>
                                \E prefix \in Range(Form.allowed) : Covers(prefix, place)
    BY Zenon DEF RunsAreSafe
  <1> DEFINE params == call[r].request.params
             checked == Checked(params).params
             place == Reached(params[n].value)
             command == Command(Form, checked)
             argv == [a \in DOMAIN Form.argv |-> Render(Form, Form.argv[a], checked)]
  <1>1. key = "command" /\ command.ok /\ call[r].payload = Template(command)
    <2>1. Queued(call[r], key)
      BY DEF CatalogInv, CallsRight
    <2>2. key = "command"
      BY <2>1 DEF Queued, Handler
    <2> QED
      BY <2>1, <2>2 DEF Queued
  <1>2. params \in Params /\ Checked(params).ok
    BY <1>1 DEF CatalogInv, CatalogTypeOK, CallsRight, Calls, Requests
  <1>3. /\ n \in DOMAIN checked /\ n \in DOMAIN Form.holes
        /\ checked[n].type = "path" /\ checked[n].value = place
        /\ place \in Seq(Range(place))
        /\ \A prefix \in Form.blocked : ~ Covers(prefix, place)
        /\ Form.restricted => \E prefix \in Range(Form.allowed) : Covers(prefix, place)
    <2> HIDE DEF params
    <2>1. /\ n \in DOMAIN params /\ params[n].type = "path"
          /\ Literal(Reached(params[n].value))
      BY DEF params
    <2> QED
      BY <1>2, <2>1, CheckedPath
  <1> HIDE DEF params, checked, place
  <1>4. command = [ok |-> TRUE, argv |-> argv] /\ ~ Unsafe(Form, argv[i])
    BY <1>1 DEF Command, Failed
  <1>5. call[r].payload.argv[i] = Render(Form, << Form.holes[n] >>, checked)
    <2>1. argv[i] = Render(Form, << Form.holes[n] >>, checked)
      OBVIOUS
    <2> HIDE DEF argv, command
    <2> QED
      BY <1>1, <1>4, <2>1 DEF Template
  <1>6. Range(place) \cap Range(Form.holes) = {}
    BY DEF Literal, place, params
  <1>7. Render(Form, << Form.holes[n] >>, checked) \in {PathText(place), << Form.holes[n] >>}
    BY <1>3, <1>6, RenderedPath
  <1>8. Render(Form, << Form.holes[n] >>, checked) # << Form.holes[n] >>
    <2>1. Form.holes[n] \in Range(<< Form.holes[n] >>) /\ Form.holes[n] \in Range(Form.holes)
      BY <1>3 DEF Range
    <2>2. Unsafe(Form, << Form.holes[n] >>)
      BY <2>1 DEF Unsafe
    <2>3. argv[i] = Render(Form, << Form.holes[n] >>, checked)
      OBVIOUS
    <2> HIDE DEF argv
    <2> QED
      BY <1>4, <2>2, <2>3
  <1> QED
    BY <1>3, <1>5, <1>7, <1>8 DEF place, params

\* The argument that is queued for a literal path is the text of the place to which
\* the path leads, whatever detour it takes and whatever the other parameters hold,
\* and that place is in no blocked directory, and in an allowed one if the tool is
\* restricted to some (RunsAreSafe); for every template and all parameters.
THEOREM RunsAreSafeHolds == CatalogSpec => []RunsAreSafe
  BY QueuedPathsSafe, CatalogAlways, PTL

=============================================================================
