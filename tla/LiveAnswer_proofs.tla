-------------------------- MODULE LiveAnswer_proofs --------------------------
(***************************************************************************)
(* Proofs about ChatTools and LiveAnswer, for all sets of requests and     *)
(* buttons and for whatever the model's texts are.                         *)
(*                                                                         *)
(* A job's result reaches the request by two ways, the submission and the  *)
(* live stream, and neither looks at what the other has written.  Inv says *)
(* when the request nevertheless tells of its run.  LinkRight: whatever is *)
(* linked to a request was queued by a button or by its stream.  ResultKept*)
(* and StreamKept: as long as only one run was ever made of the request,   *)
(* and its stream did not give up waiting, what the last writer left is    *)
(* the status of that run.  ...Persist are what no step takes back.        *)
(*                                                                         *)
(* The lemmas on texts say that cutting, redacting and stripping a text    *)
(* lead to a text again, whatever it is.  AnswerInv says what the row is   *)
(* at each stage of the answer: the final text, or the empty row in its    *)
(* place.                                                                  *)
(***************************************************************************)
EXTENDS LiveAnswer, TLAPS, FiniteSetTheorems, SequenceTheorems

\* The requests that were made.
Made == {r \in Requests : request[r] # NoRequest}

\* Only finitely many requests are ever made and linked, so that the summaries of a
\* job can be written one after the other.
FewRequests ==
    /\ IsFiniteSet(Made)
    /\ \A j \in Jobs : IsFiniteSet(noted[j].links)

\* A result is given by closing the job, and a job that bears a request's name is
\* the one that the request's stream has queued.
JobsRight ==
    \A j \in Jobs :
        /\ run[j] \in Job!Results => phase[j] = "closed"
        /\ j \in Requests /\ phase[j] # "absent" => request[j].source = "live"

\* A button that was pressed belongs to a request that was made.
ButtonsRight ==
    \A b \in Buttons :
        IF button[b].stage = "idle" THEN button[b].on = Nothing
        ELSE button[b].on \in Requests /\ request[button[b].on] # NoRequest

\* The state is what became of the run j, or the stream has not started r.
StateTrue(state, r, j) ==
    /\ state = "succeeded" => run[j] = "succeeded"
    /\ state = "failed" => run[j] \in {"failed", "rejected"}
    /\ state = "timeout" => phase[j] # "absent"
    /\ state = "not_started" => phase[r] = "absent"
    /\ state \in States

\* The stages at which the stream has a request in hand.
AtWork == {"approving", "opened", "waiting", "ended", "saved", "found"}

\* What the stream knows of that request at each stage: it has queued no job before
\* "opened", what it waited for is true of the run, and the message that it is about
\* to update is one of that request.
LiveRight ==
    /\ live.stage \in AtWork =>
          live.on \in Requests /\ request[live.on].source = "live"
    /\ live.stage \in {"choosing", "done"} => live.on = Nothing
    /\ live.stage \in {"approving", "opened", "waiting"} => live.state = "none"
    /\ live.stage = "approving" => phase[live.on] = "absent"
    /\ live.stage \in {"opened", "waiting"} => phase[live.on] # "absent"
    /\ live.stage \in {"ended", "saved", "found"} =>
          StateTrue(live.state, live.on, live.on)
    /\ live.stage = "ended" => live.state # "not_started"
    /\ live.stage = "found" /\ live.target # 0 =>
          /\ live.target \in DOMAIN messages
          /\ messages[live.target].request = live.on

\* A message is true of its run, now and from now on: one that tells that nothing
\* was started is about a request that no stream is about to start.
MessageRight(m) ==
    /\ StateTrue(m.state, m.request, m.run)
    /\ m.state # "not_started" => m.run \in Jobs
    /\ m.state = "not_started" =>
          /\ request[m.request].source = "live"
          /\ ~ (live.stage = "approving" /\ live.on = m.request)

\* Every message on record is a true one.
MessagesRight == \A i \in DOMAIN messages : MessageRight(messages[i])

\* Two rows tell of the run of a request: the request's and the job's.
Linked(r, j) == request[r].run = j \/ r \in noted[j].links

\* What is linked to r was queued by a button of r that is done, or by the stream of
\* r, which has then passed the commit of the link.
LinkRight(r, j) ==
    Linked(r, j) =>
        \/ j \in Buttons /\ button[j].stage = "done" /\ button[j].on = r
        \/ /\ j = r /\ request[r].source = "live"
           /\ ~ (live.stage \in {"approving", "opened"} /\ live.on = r)

\* The stream of r gave up waiting: it says so now, or has said so in a message.
LiveGave(r) ==
    \/ live.on = r /\ live.state = "timeout"
    \/ /\ live.on # r
       /\ \E i \in DOMAIN messages :
             messages[i].request = r /\ messages[i].state = "timeout"

\* No run but j was ever made, or will be, of r.
Alone(r, j) ==
    /\ \A b \in Buttons : button[b].on = r => b = j
    /\ request[r].source = "live" => j = r

\* A job that has its result and is linked to the request has told the request so,
\* unless another run or the stream that gave up has written the status.
ResultKept(r, j) ==
    /\ r \in noted[j].links /\ run[j] \in Job!Results
    /\ Alone(r, j) /\ ~ (request[r].source = "live" /\ LiveGave(r))
    => request[r].status = StatusForRun(run[j])

\* So has the stream that saw the result, once it has saved what it saw.
StreamKept(r) ==
    /\ request[r].source = "live" /\ request[r].run = r
    /\ Alone(r, r) /\ ~LiveGave(r)
    /\ live.on = r => live.stage \in {"saved", "found"}
    => /\ run[r] \in Job!Results
       /\ request[r].status = StatusForRun(run[r])

\* The inductive invariant of the tool requests ...
Inv == /\ TypeOK
       /\ FewRequests
       /\ JobsRight
       /\ ButtonsRight
       /\ LiveRight
       /\ MessagesRight
       /\ \A r \in Requests, j \in Jobs : LinkRight(r, j) /\ ResultKept(r, j)
       /\ \A r \in Requests : StreamKept(r)

\* What is known at each stage of the text, the outcome and the log.
TextRight ==
    /\ answer.stage = "asked" => answer = Asked
    /\ answer.stage \in {"asked", "streaming"} => answer.outcome = "none"
    /\ answer.stage \notin {"asked", "streaming", "gone"} => answer.outcome # "none"
    /\ answer.stage = "streaming" \/ answer.outcome = "completed" =>
          answer.text \in Texts /\ answer.got \in 0 .. Len(answer.text)

\* The log is written once, after the outcome is known.
LogRight ==
    /\ answer.stage \in {"asked", "streaming", "answered"} => answer.log = "pending"
    /\ answer.log = "succeeded" => answer.outcome = "completed"

\* The empty row that is put in place of the answer first.
RowKept == row.there /\ row.text = <<>> /\ row.suppressed

\* The row of the final text; no row is made of an empty one.
RowStands == (row.there /\ row.text = Final) \/ Final = <<>>

\* Which of the two the row is at each stage, hence what Fill and Finish find.
RowRight ==
    /\ answer.stage \in {"asked", "streaming", "answered", "logged"} => ~row.there
    /\ answer.stage = "placed" => ToolsFirst /\ RowKept
    /\ answer.stage = "delivered" => answer.mode = "plain" /\ RowStands
    /\ answer.stage = "executing" =>
          \/ answer.mode = "direct" /\ RowKept
          \/ answer.mode = "plain" /\ RowStands
    /\ answer.stage = "ran" => answer.mode # "plain" /\ RowKept
    /\ answer.stage = "filled" =>
          /\ answer.mode # "plain"
          /\ IF answer.started THEN RowKept ELSE RowStands

\* What a direct request counts as started is a job that was queued.
StartedRight ==
    answer.mode = "direct" /\ answer.started => \E r \in Requests : phase[r] # "absent"

\* ... and that of the answer, which holds next to it.
AnswerInv == /\ AnswerTypeOK
             /\ TextRight
             /\ LogRight
             /\ RowRight
             /\ StartedRight
             /\ AnswerStands

-----------------------------------------------------------------------------

\* The least of a set of naturals, from the well-foundedness of <.
LEMMA LeastExists ==
  ASSUME NEW T, T \subseteq Nat, T # {}
  PROVE  \E x \in T : \A y \in T : x <= y
  <1> DEFINE R == {p \in Nat \X Nat : p[1] < p[2]}
  <1>1. R = OpToRel(<, Nat)
    BY Zenon DEF OpToRel
  <1>2. IsWellFoundedOn(R, Nat)
    <2> HIDE DEF R
    <2> QED BY <1>1, NatLessThanWellFounded, Zenon
  <1>3. PICK x \in T : \A y \in T : ~ (<<y, x>> \in R)
    <2> HIDE DEF R
    <2> QED BY <1>2, WFMin
  <1>4. ASSUME NEW y \in T PROVE x <= y
    <2>1. x \in Nat /\ y \in Nat
      OBVIOUS
    <2>2. <<y, x>> \notin R
      <3> HIDE DEF R
      <3> QED BY <1>3
    <2>3. ~ (y < x)
      BY <2>1, <2>2
    <2> QED
      <3> HIDE DEF R
      <3> QED BY <2>1, <2>3
  <1> QED
    BY <1>4

\* Max is chosen: it is a member when there is a largest one.
LEMMA MaxIsMember ==
  ASSUME NEW n \in Nat, NEW S, S \subseteq 1 .. n, S # {}
  PROVE  Max(S) \in S
  <1> DEFINE T == {n - i : i \in S}
  <1>1. \A i \in S : i \in Nat /\ i <= n /\ n - i \in Nat
    OBVIOUS
  <1>2. T \subseteq Nat /\ T # {}
    BY <1>1
  <1>3. PICK x \in T : \A y \in T : x <= y
    <2> HIDE DEF T
    <2> QED BY <1>2, LeastExists
  <1>4. PICK i \in S : x = n - i
    BY <1>3
  <1>5. \A j \in S : i >= j
    BY <1>1, <1>3, <1>4
  <1> QED
    BY <1>5 DEF Max

\* The message that the follow-up finds is one of the request.
LEMMA NewestIsOfRequest ==
  ASSUME messages \in Seq(Message), NEW r
  PROVE  /\ NewestMessage(r) \in Nat
         /\ NewestMessage(r) # 0 =>
               /\ NewestMessage(r) \in DOMAIN messages
               /\ messages[NewestMessage(r)].request = r
  <1> DEFINE I == {i \in 1 .. Len(messages) : messages[i].request = r}
  <1>1. NewestMessage(r) = IF I # {} THEN Max(I) ELSE 0
    BY DEF NewestMessage, SelectLastInSeq
  <1>2. Len(messages) \in Nat /\ DOMAIN messages = 1 .. Len(messages)
    OBVIOUS
  <1>3. I # {} => Max(I) \in I
    BY <1>2, MaxIsMember
  <1> QED
    BY <1>1, <1>2, <1>3

\* SetToSeq is chosen: it lists the set when the set is finite.
LEMMA SeqOfFiniteSet ==
  ASSUME NEW S, IsFiniteSet(S)
  PROVE  /\ SetToSeq(S) \in Seq(S)
         /\ \A x \in S : \E i \in DOMAIN SetToSeq(S) : SetToSeq(S)[i] = x
  <1> DEFINE n == Cardinality(S)
             P(f) == f \in [1 .. n -> S] /\ IsInjective(f)
  <1>1. n \in Nat /\ ExistsBijection(1 .. n, S)
    BY FS_CardinalityType
  <1>2. PICK g \in Bijection(1 .. n, S) : TRUE
    BY <1>1 DEF ExistsBijection
  <1>3. g \in [1 .. n -> S] /\ IsInjective(g)
    BY <1>2 DEF Bijection, Injection
  <1>4. SetToSeq(S) \in [1 .. n -> S] /\ IsInjective(SetToSeq(S))
    BY <1>3 DEF SetToSeq
  <1>5. SetToSeq(S) \in Injection(1 .. n, S)
    BY <1>4 DEF Injection
  <1>6. IsFiniteSet(1 .. n) /\ Cardinality(1 .. n) = n
    BY <1>1, FS_Interval
  <1>7. SetToSeq(S) \in Surjection(1 .. n, S)
    BY <1>5, <1>6, FS_Injection
  <1>8. SetToSeq(S) \in Seq(S)
    BY <1>1, <1>4
  <1> QED
    BY <1>4, <1>7, <1>8 DEF Surjection

-----------------------------------------------------------------------------

LEMMA InitInv == Init => Inv
  <1> SUFFICES ASSUME Init PROVE Inv
    OBVIOUS
  <1> USE DEF Init
  <1>1. NoRequest \in Request /\ NoNote \in Note
    BY DEF NoRequest, Request, NoNote, Note
  <1>2. TypeOK
    <2>1. live \in Executor
      BY DEF At, Executor
    <2>2. button \in [Buttons -> Press]
      BY DEF Press
    <2>3. /\ phase \in [Jobs -> Job!Phases]
          /\ run \in [Jobs -> Job!RunStatuses]
      BY DEF Job!LifecycleInit, Job!Phases, Job!RunStatuses
    <2> QED
      BY <1>1, <2>1, <2>2, <2>3 DEF TypeOK
  <1>3. FewRequests
    <2>1. Made = {} /\ \A j \in Jobs : noted[j].links = {}
      BY DEF Made, NoNote
    <2> QED
      BY <2>1, FS_EmptySet DEF FewRequests
  <1>4. JobsRight
    BY DEF JobsRight, Job!LifecycleInit, Job!Results
  <1>5. ButtonsRight
    BY DEF ButtonsRight
  <1>6. LiveRight /\ MessagesRight
    BY DEF LiveRight, MessagesRight, At, AtWork
  <1>7. ASSUME NEW r \in Requests, NEW j \in Jobs
        PROVE  LinkRight(r, j) /\ ResultKept(r, j)
    <2>1. request[r].run = Nothing /\ j # Nothing /\ noted[j].links = {}
      BY <1>7, NothingAssumption DEF NoRequest, NoNote, Jobs
    <2> QED
      BY <2>1 DEF LinkRight, Linked, ResultKept
  <1>8. ASSUME NEW r \in Requests PROVE StreamKept(r)
    BY <1>8 DEF StreamKept, NoRequest
  <1> QED
    BY <1>2, <1>3, <1>4, <1>5, <1>6, <1>7, <1>8 DEF Inv

-----------------------------------------------------------------------------
(* Types.                                                                  *)

\* Types of what the steps assign, one lemma for each kind of row.
LEMMA StatusType ==
  ASSUME TypeOK, NEW r \in Requests, NEW s \in RequestStatuses
  PROVE  [request EXCEPT ![r].status = s] \in [Requests -> Request]
  BY DEF TypeOK, Request

LEMMA QueuedType ==
  ASSUME TypeOK, NEW r \in Requests, NEW j \in Jobs
  PROVE  Queued(r, j) \in [Requests -> Request]
  <1> DEFINE q == [request[r] EXCEPT !.status = "queued", !.run = j]
  <1>1. q \in Request
    BY DEF TypeOK, Request, RequestStatuses
  <1>2. Queued(r, j) = [request EXCEPT ![r] = q]
    BY DEF Queued
  <1> QED
    BY <1>1, <1>2 DEF TypeOK

LEMMA OutcomeType ==
  /\ \A s \in Job!Results :
        OutcomeState(s) \in States /\ StatusForRun(s) \in RequestStatuses
  /\ \A s \in States : StatusForOutcome(s) \in RequestStatuses
  BY DEF Job!Results, OutcomeState, States, StatusForRun, StatusForOutcome, RequestStatuses

LEMMA ButtonType ==
  ASSUME Inv, NEW b \in Buttons, ButtonStep(b)
  PROVE  TypeOK'
  <1> USE DEF Inv
  <1>1. b \in Jobs /\ button[b] \in Press
    BY DEF TypeOK, Jobs
  <1>2. button[b].stage # "idle" => button[b].on \in Requests
    BY DEF ButtonsRight
  <1>3. ASSUME NEW r \in Requests, PressButton(b, r) PROVE TypeOK'
    BY <1>1, <1>3 DEF PressButton, TypeOK, Press
  <1>4. [button EXCEPT ![b].stage = "done"] \in [Buttons -> Press]
    BY DEF TypeOK, Press
  <1>5. CASE ButtonDenied(b)
    <2>1. request' \in [Requests -> Request]
      BY <1>2, <1>5, StatusType DEF ButtonDenied, Denied, RequestStatuses
    <2> QED
      BY <1>4, <1>5, <2>1 DEF ButtonDenied, TypeOK
  <1>6. CASE ButtonOpens(b)
    BY <1>1, <1>6 DEF ButtonOpens, Job!Open, TypeOK, Press, Job!Phases, Job!RunStatuses
  <1>7. CASE ButtonLinks(b)
    <2>1. request' \in [Requests -> Request]
      BY <1>1, <1>2, <1>7, QueuedType DEF ButtonLinks
    <2> QED
      BY <1>4, <1>7, <2>1 DEF ButtonLinks, TypeOK
  <1>8. CASE ButtonRejects(b)
    <2>1. request' \in [Requests -> Request]
      BY <1>2, <1>8, StatusType DEF ButtonRejects, RequestStatuses
    <2> QED
      BY <1>4, <1>8, <2>1 DEF ButtonRejects, TypeOK
  <1>9. CASE ButtonStops(b)
    BY <1>4, <1>9 DEF ButtonStops, TypeOK
  <1> QED
    BY <1>3, <1>5, <1>6, <1>7, <1>8, <1>9 DEF ButtonStep

\* What a submission appends to the chat.
Summaries(j, s) ==
    {[request |-> r, state |-> OutcomeState(s), run |-> j] : r \in noted[j].links}

\* The submission appends the summaries of the requests of the job, all of them.
LEMMA SummariesRight ==
  ASSUME Inv, NEW j \in Jobs, NEW s \in Job!Results
  PROVE  /\ SetToSeq(Summaries(j, s)) \in Seq(Summaries(j, s))
         /\ Summaries(j, s) \subseteq Message
         /\ messages \o SetToSeq(Summaries(j, s)) \in Seq(Message)
         /\ \A m \in Summaries(j, s) :
               \E i \in DOMAIN SetToSeq(Summaries(j, s)) :
                  SetToSeq(Summaries(j, s))[i] = m
  <1> DEFINE L == noted[j].links
             f == [r \in L |-> [request |-> r, state |-> OutcomeState(s), run |-> j]]
  <1>1. IsFiniteSet(L) /\ L \subseteq Requests
    BY DEF Inv, FewRequests, TypeOK, Note
  <1>2. f \in Surjection(L, Summaries(j, s))
    BY DEF Surjection, Summaries
  <1>3. IsFiniteSet(Summaries(j, s))
    <2> HIDE DEF f, L
    <2> QED BY <1>1, <1>2, FS_Surjection
  <1>4. Summaries(j, s) \subseteq Message
    BY <1>1, OutcomeType DEF Summaries, Message
  <1>5. SetToSeq(Summaries(j, s)) \in Seq(Message)
    BY <1>3, <1>4, SeqOfFiniteSet
  <1>6. messages \in Seq(Message)
    BY DEF Inv, TypeOK
  <1> QED
    BY <1>3, <1>4, <1>5, <1>6, SeqOfFiniteSet

\* A submission, with its result named.
SubmitAs(j, s) ==
    /\ noted[j].read
    /\ Job!Settle(j, s)
    /\ request' = [r \in Requests |->
          IF r \in noted[j].links
          THEN [request[r] EXCEPT !.status = StatusForRun(s)] ELSE request[r]]
    /\ messages' = messages \o SetToSeq(Summaries(j, s))
    /\ UNCHANGED <<live, button, noted>>

LEMMA SubmitHasResult ==
  ASSUME NEW j \in Jobs, Submit(j)
  PROVE  \E s \in Job!Results : SubmitAs(j, s)
  BY DEF Submit, SubmitAs, Summaries

LEMMA JobType ==
  ASSUME Inv, NEW j \in Jobs, JobStep(j)
  PROVE  TypeOK'
  <1> USE DEF Inv
  <1>1. CASE NoteLinks(j)
    BY <1>1 DEF NoteLinks, TypeOK, Note
  <1>2. CASE Submit(j)
    <2>1. PICK s \in Job!Results : SubmitAs(j, s)
      BY <1>2, SubmitHasResult
    <2>2. request' \in [Requests -> Request]
      <3>1. /\ request \in [Requests -> Request]
            /\ StatusForRun(s) \in RequestStatuses
        BY OutcomeType DEF TypeOK
      <3>2. \A q \in Request : [q EXCEPT !.status = StatusForRun(s)] \in Request
        BY <3>1 DEF Request
      <3> QED
        BY <2>1, <3>1, <3>2 DEF SubmitAs
    <2>3. messages' \in Seq(Message)
      BY <2>1, SummariesRight DEF SubmitAs
    <2>4. /\ phase' \in [Jobs -> Job!Phases]
          /\ run' \in [Jobs -> Job!RunStatuses]
      BY <2>1 DEF SubmitAs, Job!Settle, TypeOK, Job!Phases, Job!RunStatuses
    <2> QED
      BY <2>1, <2>2, <2>3, <2>4 DEF SubmitAs, TypeOK
  <1>3. CASE RollBack(j)
    BY <1>3 DEF RollBack, TypeOK, Note, NoNote
  <1>4. CASE Discard(j)
    BY <1>4 DEF Discard, Job!Discard, TypeOK, Job!Phases
  <1> QED
    BY <1>1, <1>2, <1>3, <1>4 DEF JobStep

LEMMA LiveType ==
  ASSUME Inv, LiveStep \/ LiveDies
  PROVE  TypeOK'
  <1> USE DEF Inv
  <1>1. ASSUME NEW r \in Requests, Propose(r) PROVE TypeOK'
    <2>1. PICK t \in Tools : request' = [request EXCEPT ![r] =
             [status |-> "suggested", tool |-> t, source |-> "live",
              run |-> Nothing]]
      BY <1>1 DEF Propose
    <2>2. request' \in [Requests -> Request]
      BY <2>1 DEF TypeOK, Request, RequestStatuses
    <2>3. live' \in Executor
      BY <1>1 DEF Propose, At, Executor
    <2> QED
      BY <1>1, <2>2, <2>3 DEF Propose, TypeOK
  <1>2. CASE LiveOpens
    <2>1. live' \in Executor
      BY <1>2 DEF LiveOpens, TypeOK, Executor
    <2> QED
      BY <1>2, <2>1 DEF LiveOpens, Job!Open, TypeOK, Job!Phases, Job!RunStatuses
  <1>3. CASE LiveLinks
    <2>1. live.on \in Requests
      BY <1>3 DEF LiveLinks, LiveRight, AtWork
    <2>2. request' \in [Requests -> Request]
      BY <1>3, <2>1, QueuedType DEF LiveLinks, Jobs
    <2>3. live' \in Executor
      BY <1>3 DEF LiveLinks, TypeOK, Executor
    <2> QED
      BY <1>3, <2>2, <2>3 DEF LiveLinks, TypeOK
  <1>4. CASE LiveDenied \/ LiveRefused
    <2>1. live.on \in Requests
      BY <1>4 DEF LiveDenied, LiveRefused, LiveRight, AtWork
    <2>2. request' \in [Requests -> Request]
      BY <1>4, <2>1, StatusType
      DEF LiveDenied, LiveRefused, Denied, RequestStatuses, TypeOK
    <2>3. live' \in Executor
      BY <1>4, <2>1 DEF LiveDenied, LiveRefused, At, Executor, States
    <2> QED
      BY <1>4, <2>2, <2>3 DEF LiveDenied, LiveRefused, TypeOK
  <1>5. CASE SeeEnd \/ GiveUp
    <2>1. live' \in Executor
      BY <1>5, OutcomeType DEF SeeEnd, GiveUp, TypeOK, Executor, States
    <2> QED
      BY <1>5, <2>1 DEF SeeEnd, GiveUp, TypeOK
  <1>6. CASE SaveOutcome
    <2>1. live.on \in Requests /\ live.state \in States
      BY <1>6 DEF SaveOutcome, LiveRight, AtWork, StateTrue
    <2>2. request' \in [Requests -> Request]
      BY <1>6, <2>1, StatusType, OutcomeType DEF SaveOutcome
    <2>3. live' \in Executor
      BY <1>6 DEF SaveOutcome, TypeOK, Executor
    <2> QED
      BY <1>6, <2>2, <2>3 DEF SaveOutcome, TypeOK
  <1>7. CASE FindMessage
    <2>1. live' \in Executor
      BY <1>7, NewestIsOfRequest DEF FindMessage, TypeOK, Executor
    <2> QED
      BY <1>7, <2>1 DEF FindMessage, TypeOK
  <1>8. CASE SaveMessage
    <2>1. PICK m : /\ m = [request |-> live.on, state |-> live.state,
                           run |-> IF live.state = "not_started" THEN Nothing
                                   ELSE live.on]
                   /\ messages' = IF live.target = 0 THEN Append(messages, m)
                                  ELSE [messages EXCEPT ![live.target] = m]
      BY <1>8 DEF SaveMessage
    <2>2. m \in Message
      BY <1>8, <2>1 DEF SaveMessage, LiveRight, AtWork, StateTrue, Message, Jobs
    <2>3. messages' \in Seq(Message)
      <3>1. CASE live.target = 0
        BY <2>1, <2>2, <3>1 DEF TypeOK
      <3>2. CASE live.target # 0
        <4>1. messages \in [1 .. Len(messages) -> Message] /\ Len(messages) \in Nat
          BY DEF TypeOK
        <4>2. messages' \in [1 .. Len(messages) -> Message]
          BY <2>1, <2>2, <3>2, <4>1
        <4> QED
          BY <4>1, <4>2
      <3> QED
        BY <3>1, <3>2
    <2>4. live' \in Executor
      BY <1>8 DEF SaveMessage, At, Executor
    <2> QED
      BY <1>8, <2>3, <2>4 DEF SaveMessage, TypeOK
  <1>9. CASE LiveEnds \/ LiveDies
    <2>1. live' \in Executor
      BY <1>9 DEF LiveEnds, LiveDies, At, TypeOK, Executor
    <2> QED
      BY <1>9, <2>1 DEF LiveEnds, LiveDies, TypeOK
  <1> QED
    BY <1>1, <1>2, <1>3, <1>4, <1>5, <1>6, <1>7, <1>8, <1>9 DEF LiveStep

LEMMA TypeStep ==
  ASSUME Inv, Next
  PROVE  TypeOK'
  <1>1. ASSUME NEW r \in Requests, RequestByHand(r) PROVE TypeOK'
    <2>1. PICK t \in Tools : request' = [request EXCEPT ![r] =
             [status |-> "suggested", tool |-> t, source |-> "manual",
              run |-> Nothing]]
      BY <1>1 DEF RequestByHand
    <2>2. request' \in [Requests -> Request]
      BY <2>1 DEF Inv, TypeOK, Request, RequestStatuses
    <2> QED
      BY <1>1, <2>2 DEF RequestByHand, Inv, TypeOK
  <1> QED
    BY <1>1, ButtonType, JobType, LiveType DEF Next, Others

-----------------------------------------------------------------------------
(* What no step takes back.                                                *)

\* What no step takes back: where a request came from, and that it was made;
RequestsPersist ==
    \A r \in Requests : request[r] # NoRequest =>
        request'[r] # NoRequest /\ request'[r].source = request[r].source

\* which request a button is for, and that it is done;
ButtonsPersist ==
    \A b \in Buttons :
        /\ button[b].stage # "idle" =>
              button'[b].stage # "idle" /\ button'[b].on = button[b].on
        /\ button[b].stage = "done" => button'[b].stage = "done"

\* that a job was queued, and its result.
JobsPersist ==
    \A j \in Jobs :
        /\ phase[j] # "absent" => phase'[j] # "absent"
        /\ run[j] \in Job!Results => run'[j] = run[j]

\* Only the status and the run of a request that is there are ever changed.
OnlyStatus ==
    \A r \in Requests :
        \/ request'[r] = request[r]
        \/ /\ request'[r].source = request[r].source
           /\ request'[r].status # "absent"

LEMMA StatusPersists ==
  ASSUME OnlyStatus
  PROVE  RequestsPersist
  BY DEF OnlyStatus, RequestsPersist, NoRequest

LEMMA StepRequests ==
  ASSUME Inv, Next
  PROVE  RequestsPersist
  <1> USE DEF Inv, TypeOK
  <1>1. ASSUME UNCHANGED request PROVE RequestsPersist
    BY <1>1 DEF RequestsPersist
  <1>2. ASSUME NEW r \in Requests, RequestByHand(r) \/ Propose(r)
        PROVE  RequestsPersist
    BY <1>2 DEF RequestByHand, Propose, RequestsPersist
  <1>3. ASSUME NEW b \in Buttons, ButtonStep(b) PROVE RequestsPersist
    <2>1. CASE ButtonDenied(b) \/ ButtonRejects(b)
      <3>1. OnlyStatus
        BY <2>1 DEF ButtonDenied, ButtonRejects, Denied, OnlyStatus, Request
      <3> QED
        BY <3>1, StatusPersists
    <2>2. CASE ButtonLinks(b)
      <3>1. OnlyStatus
        BY <2>2 DEF ButtonLinks, Queued, OnlyStatus, Request
      <3> QED
        BY <3>1, StatusPersists
    <2> QED
      BY <1>1, <1>3, <2>1, <2>2
      DEF ButtonStep, PressButton, ButtonOpens, ButtonStops
  <1>4. CASE LiveLinks
    <2>1. OnlyStatus
      BY <1>4 DEF LiveLinks, Queued, OnlyStatus, Request
    <2> QED
      BY <2>1, StatusPersists
  <1>5. CASE LiveDenied \/ LiveRefused
    <2>1. OnlyStatus
      BY <1>5 DEF LiveDenied, LiveRefused, Denied, OnlyStatus, Request
    <2> QED
      BY <2>1, StatusPersists
  <1>6. CASE SaveOutcome
    <2>1. StatusForOutcome(live.state) # "absent"
      BY DEF StatusForOutcome
    <2>2. OnlyStatus
      BY <1>6, <2>1 DEF SaveOutcome, OnlyStatus, Request
    <2> QED
      BY <2>2, StatusPersists
  <1>7. ASSUME NEW j \in Jobs, Submit(j) PROVE RequestsPersist
    <2>1. PICK s \in Job!Results : SubmitAs(j, s)
      BY <1>7, SubmitHasResult
    <2>2. OnlyStatus
      BY <2>1 DEF SubmitAs, StatusForRun, OnlyStatus, Request
    <2> QED
      BY <2>2, StatusPersists
  <1> QED
    BY <1>1, <1>2, <1>3, <1>4, <1>5, <1>6, <1>7
    DEF Next, LiveStep, Others, JobStep, LiveOpens, SeeEnd, GiveUp, FindMessage,
        SaveMessage, LiveEnds, LiveDies, NoteLinks, RollBack, Discard

LEMMA StepButtons ==
  ASSUME Inv, Next
  PROVE  ButtonsPersist
  <1> USE DEF Inv, TypeOK
  <1>1. ASSUME UNCHANGED button PROVE ButtonsPersist
    BY <1>1 DEF ButtonsPersist
  <1>2. ASSUME NEW b \in Buttons, ButtonStep(b) PROVE ButtonsPersist
    <2>1. ASSUME NEW r \in Requests, PressButton(b, r) PROVE ButtonsPersist
      BY <2>1 DEF PressButton, ButtonsPersist
    <2>2. CASE ButtonOpens(b)
      BY <2>2 DEF ButtonOpens, ButtonsPersist, Press
    <2>3. ASSUME button[b].stage # "idle",
                 button' = [button EXCEPT ![b].stage = "done"]
          PROVE  ButtonsPersist
      BY <2>3 DEF ButtonsPersist, Press
    <2> QED
      BY <1>2, <2>1, <2>2, <2>3
      DEF ButtonStep, ButtonDenied, ButtonLinks, ButtonRejects, ButtonStops
  <1> QED
    BY <1>1, <1>2
    DEF Next, LiveStep, Others, JobStep, Propose, LiveOpens, LiveLinks,
        LiveDenied, LiveRefused, SeeEnd, GiveUp, SaveOutcome, FindMessage,
        SaveMessage, LiveEnds, LiveDies, RequestByHand, NoteLinks, Submit,
        RollBack, Discard

\* The steps that open or close a job.
LEMMA StepJobs ==
  ASSUME Inv, Next
  PROVE  \/ UNCHANGED <<phase, run>>
         \/ \E b \in Buttons : ButtonOpens(b)
         \/ LiveOpens
         \/ \E j \in Jobs : Discard(j)
         \/ \E j \in Jobs : Submit(j)
  BY DEF Next, LiveStep, Others, ButtonStep, JobStep, Propose, LiveLinks,
         LiveDenied, LiveRefused, SeeEnd, GiveUp, SaveOutcome, FindMessage,
         SaveMessage, LiveEnds, LiveDies, RequestByHand, NoteLinks, RollBack,
         PressButton, ButtonDenied, ButtonLinks, ButtonRejects, ButtonStops

LEMMA StepJobsPersist ==
  ASSUME Inv, Next
  PROVE  JobsPersist
  <1> USE DEF Inv, TypeOK, JobsRight, JobsPersist
  <1>1. CASE UNCHANGED <<phase, run>>
    BY <1>1
  <1>2. ASSUME NEW b \in Buttons, ButtonOpens(b) PROVE JobsPersist
    BY <1>2 DEF ButtonOpens, Job!Open, Job!Results
  <1>3. CASE LiveOpens
    BY <1>3 DEF LiveOpens, Job!Open, Job!Results
  <1>4. ASSUME NEW j \in Jobs, Discard(j) PROVE JobsPersist
    BY <1>4 DEF Discard, Job!Discard
  <1>5. ASSUME NEW j \in Jobs, Submit(j) PROVE JobsPersist
    BY <1>5 DEF Submit, Job!Settle
  <1> QED
    BY <1>1, <1>2, <1>3, <1>4, <1>5, StepJobs

-----------------------------------------------------------------------------
(* One lemma per part of the invariant.                                    *)

LEMMA JobsRightStep ==
  ASSUME Inv, Next, RequestsPersist
  PROVE  JobsRight'
  <1> USE DEF Inv, TypeOK, JobsRight
  <1>1. \A r \in Requests :
           request[r].source = "live" => request'[r].source = "live"
    BY DEF RequestsPersist, NoRequest
  <1>2. CASE UNCHANGED <<phase, run>>
    BY <1>1, <1>2
  <1>3. ASSUME NEW b \in Buttons, ButtonOpens(b) PROVE JobsRight'
    <2>1. b \notin Requests
      BY NamesAssumption
    <2> QED
      BY <1>1, <1>3, <2>1 DEF ButtonOpens, Job!Open, Job!Results
  <1>4. CASE LiveOpens
    <2>1. request[live.on].source = "live"
      BY <1>4 DEF LiveOpens, LiveRight, AtWork
    <2> QED
      BY <1>1, <1>4, <2>1 DEF LiveOpens, Job!Open, Job!Results
  <1>5. ASSUME NEW j \in Jobs, Discard(j) PROVE JobsRight'
    BY <1>1, <1>5 DEF Discard, Job!Discard
  <1>6. ASSUME NEW j \in Jobs, Submit(j) PROVE JobsRight'
    BY <1>1, <1>6 DEF Submit, Job!Settle
  <1> QED
    BY <1>2, <1>3, <1>4, <1>5, <1>6, StepJobs

LEMMA ButtonsRightStep ==
  ASSUME Inv, Next, RequestsPersist, ButtonsPersist
  PROVE  ButtonsRight'
  <1> USE DEF Inv, TypeOK, ButtonsRight
  <1>1. ASSUME NEW b \in Buttons, NEW r \in Requests, PressButton(b, r)
        PROVE  ButtonsRight'
    BY <1>1 DEF PressButton, NoRequest
  <1>2. ASSUME \A b \in Buttons : button[b].stage = "idle" => button'[b] = button[b]
        PROVE  ButtonsRight'
    BY <1>2 DEF RequestsPersist, ButtonsPersist
  <1>3. ASSUME UNCHANGED button PROVE ButtonsRight'
    BY <1>2, <1>3
  <1>4. ASSUME NEW b \in Buttons, ButtonStep(b) PROVE ButtonsRight'
    <2>1. CASE \E r \in Requests : PressButton(b, r)
      BY <1>1, <2>1
    <2>2. ASSUME NEW s, button' = [button EXCEPT ![b].stage = s],
                 button[b].stage # "idle"
          PROVE  ButtonsRight'
      BY <1>2, <2>2
    <2> QED
      BY <1>4, <2>1, <2>2
      DEF ButtonStep, ButtonDenied, ButtonOpens, ButtonLinks, ButtonRejects, ButtonStops
  <1> QED
    BY <1>3, <1>4
    DEF Next, LiveStep, Others, JobStep, Propose, LiveOpens, LiveLinks,
        LiveDenied, LiveRefused, SeeEnd, GiveUp, SaveOutcome, FindMessage,
        SaveMessage, LiveEnds, LiveDies, RequestByHand, NoteLinks, Submit,
        RollBack, Discard

\* A step makes one request more, or none.
LEMMA MadeStep ==
  ASSUME Inv, Next
  PROVE  IsFiniteSet(Made')
  <1> USE DEF Inv, TypeOK
  <1>0. IsFiniteSet(Made)
    BY DEF FewRequests
  <1>1. ASSUME NEW r, \A q \in Requests : q = r \/ request'[q] = request[q]
        PROVE  IsFiniteSet(Made')
    <2>1. Made' \subseteq Made \cup {r}
      BY <1>1 DEF Made
    <2>2. IsFiniteSet(Made \cup {r})
      BY <1>0, FS_AddElement
    <2> QED
      BY <2>1, <2>2, FS_Subset
  <1>2. ASSUME NEW r, NEW v, request' = [request EXCEPT ![r] = v]
        PROVE  IsFiniteSet(Made')
    BY <1>1, <1>2
  <1>3. ASSUME UNCHANGED request PROVE IsFiniteSet(Made')
    BY <1>0, <1>3 DEF Made
  <1>4. ASSUME NEW j \in Jobs, Submit(j) PROVE IsFiniteSet(Made')
    <2>1. Made' \subseteq Made \cup noted[j].links
      BY <1>4 DEF Submit, Made
    <2>2. IsFiniteSet(Made \cup noted[j].links)
      BY <1>0, FS_Union DEF FewRequests
    <2> QED
      BY <2>1, <2>2, FS_Subset
  <1>5. ASSUME NEW r, NEW s, request' = [request EXCEPT ![r].status = s]
        PROVE  IsFiniteSet(Made')
    BY <1>1, <1>5
  <1>6. ASSUME NEW r, NEW j, request' = Queued(r, j) PROVE IsFiniteSet(Made')
    BY <1>1, <1>6 DEF Queued
  <1>7. ASSUME NEW b \in Buttons, ButtonStep(b) PROVE IsFiniteSet(Made')
    BY <1>3, <1>5, <1>6, <1>7
    DEF ButtonStep, PressButton, ButtonDenied, ButtonOpens, ButtonLinks,
        ButtonRejects, ButtonStops, Denied
  <1>8. ASSUME NEW j \in Jobs, JobStep(j) PROVE IsFiniteSet(Made')
    BY <1>3, <1>4, <1>8 DEF JobStep, NoteLinks, RollBack, Discard
  <1>9. ASSUME NEW r \in Requests, RequestByHand(r) \/ Propose(r)
        PROVE  IsFiniteSet(Made')
    BY <1>2, <1>9 DEF RequestByHand, Propose
  <1>10. ASSUME LiveStep \/ LiveDies PROVE IsFiniteSet(Made')
    BY <1>3, <1>5, <1>6, <1>9, <1>10
    DEF LiveStep, LiveOpens, LiveLinks, LiveDenied, LiveRefused, SeeEnd, GiveUp,
        SaveOutcome, FindMessage, SaveMessage, LiveEnds, LiveDies, Denied
  <1> QED
    BY <1>7, <1>8, <1>9, <1>10 DEF Next, Others

\* A step makes one request at most, and links a job to one at most.
LEMMA FewRequestsStep ==
  ASSUME Inv, Next
  PROVE  FewRequests'
  <1> USE DEF Inv, TypeOK
  <1>1. ASSUME UNCHANGED noted
        PROVE  \A j \in Jobs : IsFiniteSet(noted'[j].links)
    BY <1>1 DEF FewRequests
  <1>2. ASSUME NEW j \in Jobs, NoteLinks(j)
        PROVE  \A k \in Jobs : IsFiniteSet(noted'[k].links)
    <2>1. {r \in Requests : request[r].run = j} \subseteq Made
      BY NothingAssumption DEF Made, NoRequest, Jobs
    <2>2. IsFiniteSet({r \in Requests : request[r].run = j})
      BY <2>1, FS_Subset DEF FewRequests
    <2> QED
      BY <1>2, <2>2 DEF NoteLinks, FewRequests
  <1>3. ASSUME NEW j \in Jobs, RollBack(j)
        PROVE  \A k \in Jobs : IsFiniteSet(noted'[k].links)
    BY <1>3, FS_EmptySet DEF RollBack, NoNote, FewRequests
  <1>4. \A j \in Jobs : IsFiniteSet(noted'[j].links)
    BY <1>1, <1>2, <1>3
    DEF Next, LiveStep, Others, ButtonStep, JobStep, Propose, LiveOpens,
        LiveLinks, LiveDenied, LiveRefused, SeeEnd, GiveUp, SaveOutcome,
        FindMessage, SaveMessage, LiveEnds, LiveDies, RequestByHand, Submit,
        Discard, PressButton, ButtonDenied, ButtonOpens, ButtonLinks,
        ButtonRejects, ButtonStops
  <1> QED
    BY <1>4, MadeStep DEF FewRequests

LEMMA SourcePersists ==
  ASSUME RequestsPersist, NEW r \in Requests, request[r].source = "live"
  PROVE  request'[r].source = "live"
  BY DEF RequestsPersist, NoRequest

\* A tool that the stream is not about to start is not started.
LEMMA NotStarted ==
  ASSUME Inv, Next, NEW r \in Requests, phase[r] = "absent",
         UNCHANGED live \/ ~ (live.stage = "approving" /\ live.on = r)
  PROVE  phase'[r] = "absent"
  <1> USE DEF Inv, TypeOK
  <1>1. ASSUME NEW b \in Buttons, ButtonOpens(b) PROVE phase'[r] = "absent"
    BY <1>1, NamesAssumption DEF ButtonOpens, Job!Open, Jobs
  <1>2. CASE LiveOpens
    BY <1>2 DEF LiveOpens, Job!Open, Jobs, Executor
  <1>3. ASSUME NEW j \in Jobs, Discard(j) \/ Submit(j) PROVE phase'[r] = "absent"
    BY <1>3 DEF Discard, Submit, Job!Discard, Job!Settle, Jobs
  <1> QED
    BY <1>1, <1>2, <1>3, StepJobs

\* What was said of a run stays true of it.
LEMMA StatePersists ==
  ASSUME JobsPersist, NEW state, NEW r \in Requests, NEW j,
         state # "not_started" => j \in Jobs,
         state = "not_started" => phase'[r] = "absent",
         StateTrue(state, r, j)
  PROVE  StateTrue(state, r, j)'
  BY DEF StateTrue, JobsPersist, Job!Results

LEMMA OthersKeepLive ==
  ASSUME Others
  PROVE  UNCHANGED live
  BY DEF Others, ButtonStep, JobStep, RequestByHand, NoteLinks, Submit, RollBack,
         Discard, PressButton, ButtonDenied, ButtonOpens, ButtonLinks,
         ButtonRejects, ButtonStops

\* Only Propose begins a stream's work on a request, ...
LEMMA StepLive ==
  ASSUME Inv, Next
  PROVE  \/ UNCHANGED live
         \/ \E r \in Requests : Propose(r)
         \/ live'.stage # "approving"
  <1> USE DEF Inv, TypeOK, Executor
  <1>1. CASE LiveOpens \/ LiveLinks \/ SaveOutcome \/ LiveDies
    BY <1>1 DEF LiveOpens, LiveLinks, SaveOutcome, LiveDies
  <1>2. CASE LiveDenied \/ LiveRefused \/ SaveMessage \/ LiveEnds
    BY <1>2 DEF LiveDenied, LiveRefused, SaveMessage, LiveEnds, At
  <1>3. CASE SeeEnd \/ GiveUp
    BY <1>3 DEF SeeEnd, GiveUp
  <1>4. CASE FindMessage
    BY <1>4 DEF FindMessage
  <1> QED
    BY <1>1, <1>2, <1>3, <1>4, OthersKeepLive DEF Next, LiveStep

\* ... and only the approval opens it.
LEMMA StepOpened ==
  ASSUME Inv, Next, live'.stage = "opened"
  PROVE  live'.on = live.on /\ live.stage \in {"approving", "opened"}
  <1> USE DEF Inv, TypeOK, Executor
  <1>1. CASE LiveOpens \/ LiveLinks \/ SaveOutcome \/ LiveDies
    BY <1>1 DEF LiveOpens, LiveLinks, SaveOutcome, LiveDies
  <1>2. CASE \/ LiveDenied \/ LiveRefused \/ SaveMessage \/ LiveEnds
             \/ \E r \in Requests : Propose(r)
    BY <1>2 DEF LiveDenied, LiveRefused, SaveMessage, LiveEnds, Propose, At
  <1>3. CASE SeeEnd \/ GiveUp
    BY <1>3 DEF SeeEnd, GiveUp
  <1>4. CASE FindMessage
    BY <1>4 DEF FindMessage
  <1> QED
    BY <1>1, <1>2, <1>3, <1>4, OthersKeepLive DEF Next, LiveStep

\* The stream takes up a request only when it proposes it.
LEMMA OnStep ==
  ASSUME Inv, Next, NEW r \in Requests, request[r].source = "live",
         live.on # r
  PROVE  live'.on # r
  <1> USE DEF Inv, TypeOK, Executor
  <1>1. r # Nothing
    BY NothingAssumption
  <1>2. CASE LiveOpens \/ LiveLinks \/ SaveOutcome \/ LiveDies
    BY <1>2 DEF LiveOpens, LiveLinks, SaveOutcome, LiveDies
  <1>3. CASE LiveDenied \/ LiveRefused \/ SaveMessage \/ LiveEnds
    BY <1>1, <1>3 DEF LiveDenied, LiveRefused, SaveMessage, LiveEnds, At
  <1>4. CASE SeeEnd \/ GiveUp
    BY <1>4 DEF SeeEnd, GiveUp
  <1>5. CASE FindMessage
    BY <1>5 DEF FindMessage
  <1>6. ASSUME NEW q \in Requests, Propose(q) PROVE live'.on # r
    BY <1>6 DEF Propose, At, NoRequest
  <1> QED
    BY <1>2, <1>3, <1>4, <1>5, <1>6, OthersKeepLive DEF Next, LiveStep

\* Hence a true message stays true, ...
LEMMA MessagePersists ==
  ASSUME Inv, Next, RequestsPersist, JobsPersist,
         NEW m \in Message, MessageRight(m)
  PROVE  MessageRight(m)'
  <1> USE DEF Inv, TypeOK
  <1>1. m.request \in Requests
    BY DEF Message
  <1>2. m.state = "not_started" => phase'[m.request] = "absent"
    BY <1>1, NotStarted DEF MessageRight, StateTrue
  <1>3. StateTrue(m.state, m.request, m.run)'
    BY <1>1, <1>2, StatePersists DEF MessageRight
  <1>4. ASSUME m.state = "not_started",
               live'.stage = "approving", live'.on = m.request
        PROVE  FALSE
    <2>1. request[m.request].source = "live"
      BY <1>4 DEF MessageRight
    <2>2. ~ \E r \in Requests : Propose(r)
      BY <1>1, <1>4, <2>1 DEF Propose, At, NoRequest
    <2>3. live' # live
      BY <1>4 DEF MessageRight
    <2>4. live'.stage # "approving"
      BY <2>2, <2>3, StepLive
    <2> QED
      BY <1>4, <2>4
  <1> QED
    BY <1>1, <1>3, <1>4, SourcePersists DEF MessageRight

\* The messages stay as they are, but that the stream writes one of its own
\* request over, and that new ones come after them.
MessagesPersist ==
    \A i \in DOMAIN messages :
        /\ i \in DOMAIN messages'
        /\ \/ messages'[i] = messages[i]
           \/ SaveMessage /\ i = live.target

\* ... and stays in its place, for the request it was about.
LEMMA StepMessages ==
  ASSUME Inv, Next
  PROVE  MessagesPersist
  <1> USE DEF Inv, TypeOK
  <1>1. CASE UNCHANGED messages
    BY <1>1 DEF MessagesPersist
  <1>2. CASE SaveMessage
    BY <1>2 DEF SaveMessage, MessagesPersist
  <1>3. ASSUME NEW j \in Jobs, Submit(j) PROVE MessagesPersist
    <2>1. PICK s \in Job!Results : SubmitAs(j, s)
      BY <1>3, SubmitHasResult
    <2>2. SetToSeq(Summaries(j, s)) \in Seq(Summaries(j, s))
      BY SummariesRight
    <2> QED
      BY <2>1, <2>2 DEF SubmitAs, MessagesPersist
  <1> QED
    BY <1>1, <1>2, <1>3
    DEF Next, LiveStep, Others, ButtonStep, JobStep, Propose, LiveOpens,
        LiveLinks, LiveDenied, LiveRefused, SeeEnd, GiveUp, SaveOutcome,
        FindMessage, LiveEnds, LiveDies, RequestByHand, NoteLinks, RollBack,
        Discard, PressButton, ButtonDenied, ButtonOpens, ButtonLinks,
        ButtonRejects, ButtonStops

\* The two writers of messages write true ones: the submission, ...
LEMMA SummaryRight ==
  ASSUME Inv, NEW j \in Jobs, NEW s \in Job!Results, SubmitAs(j, s),
         NEW m \in Summaries(j, s)
  PROVE  MessageRight(m)'
  <1> USE DEF Inv, TypeOK
  <1>1. m.run = j /\ m.state = OutcomeState(s)
    BY DEF Summaries
  <1>2. phase'[j] = "closed" /\ run'[j] = s
    BY DEF SubmitAs, Job!Settle
  <1>3. m.state \in {"succeeded", "failed", "timeout"}
    BY <1>1 DEF OutcomeState, Job!Results
  <1>4. StateTrue(m.state, m.request, m.run)'
    BY <1>1, <1>2, <1>3 DEF StateTrue, OutcomeState, Job!Results, States
  <1> QED
    BY <1>1, <1>3, <1>4 DEF MessageRight

\* ... and the stream's follow-up.
LEMMA FollowUpRight ==
  ASSUME Inv, SaveMessage, NEW m,
         m = [request |-> live.on, state |-> live.state,
              run |-> IF live.state = "not_started" THEN Nothing ELSE live.on]
  PROVE  m \in Message /\ MessageRight(m)'
  <1> USE DEF Inv, TypeOK
  <1>1. /\ live.on \in Requests /\ request[live.on].source = "live"
        /\ StateTrue(live.state, live.on, live.on)
    BY DEF SaveMessage, LiveRight, AtWork
  <1>2. m \in Message
    BY <1>1 DEF StateTrue, Message, Jobs
  <1>3. UNCHANGED <<request, phase, run>> /\ live'.stage = "choosing"
    BY DEF SaveMessage, At
  <1>4. StateTrue(m.state, m.request, m.run)'
    BY <1>1, <1>3 DEF StateTrue
  <1> QED
    BY <1>1, <1>2, <1>3, <1>4 DEF MessageRight, Jobs

LEMMA MessagesRightStep ==
  ASSUME Inv, Next, RequestsPersist, JobsPersist
  PROVE  MessagesRight'
  <1> USE DEF Inv, TypeOK
  <1>1. ASSUME NEW i \in DOMAIN messages, NEW m, m = messages[i]
        PROVE  MessageRight(m)'
    <2>1. m \in Message /\ MessageRight(m)
      BY <1>1 DEF MessagesRight
    <2> QED
      BY <2>1, MessagePersists
  <1>2. ASSUME NEW i \in DOMAIN messages', NEW m, m = messages'[i]
        PROVE  MessageRight(m)'
    <2>1. CASE UNCHANGED messages
      BY <1>1, <1>2, <2>1
    <2>2. CASE SaveMessage
      <3>1. PICK n : n = [request |-> live.on, state |-> live.state,
                          run |-> IF live.state = "not_started" THEN Nothing
                                  ELSE live.on]
        OBVIOUS
      <3>2. MessageRight(n)'
        BY <2>2, <3>1, FollowUpRight
      <3>3. \/ i \in DOMAIN messages /\ m = messages[i]
            \/ m = n
        BY <1>2, <2>2, <3>1 DEF SaveMessage
      <3> QED
        BY <1>1, <3>2, <3>3
    <2>3. ASSUME NEW j \in Jobs, Submit(j) PROVE MessageRight(m)'
      <3>1. PICK s \in Job!Results : SubmitAs(j, s)
        BY <2>3, SubmitHasResult
      <3>2. SetToSeq(Summaries(j, s)) \in Seq(Summaries(j, s))
        BY SummariesRight
      <3>3. \/ i \in DOMAIN messages /\ m = messages[i]
            \/ m \in Summaries(j, s)
        BY <1>2, <3>1, <3>2 DEF SubmitAs
      <3> QED
        BY <1>1, <3>1, <3>3, SummaryRight
    <2> QED
      BY <2>1, <2>2, <2>3
      DEF Next, LiveStep, Others, ButtonStep, JobStep, Propose, LiveOpens,
          LiveLinks, LiveDenied, LiveRefused, SeeEnd, GiveUp, SaveOutcome,
          FindMessage, LiveEnds, LiveDies, RequestByHand, NoteLinks, RollBack,
          Discard, PressButton, ButtonDenied, ButtonOpens, ButtonLinks,
          ButtonRejects, ButtonStops
  <1>3. ASSUME NEW i \in DOMAIN messages'
        PROVE  MessageRight(messages[i])'
    <2>1. PICK m : m = messages'[i]
      OBVIOUS
    <2>2. MessageRight(m)'
      BY <1>2, <2>1
    <2> QED
      BY <2>1, <2>2 DEF MessageRight, StateTrue
  <1> QED
    BY <1>3 DEF MessagesRight

\* The steps of the others leave what the stream knows true.
LEMMA LiveRightStands ==
  ASSUME Inv, Next, RequestsPersist, JobsPersist, MessagesPersist, UNCHANGED live
  PROVE  LiveRight'
  <1> USE DEF Inv, TypeOK
  <1>1. live.stage \in AtWork => request'[live.on].source = "live"
    BY SourcePersists DEF LiveRight
  <1>2. live.stage = "approving" => phase'[live.on] = "absent"
    BY NotStarted DEF LiveRight, AtWork
  <1>3. live.stage \in {"opened", "waiting"} => phase'[live.on] # "absent"
    BY DEF LiveRight, AtWork, JobsPersist, Jobs
  <1>4. ASSUME live.stage \in {"ended", "saved", "found"},
               NEW state, state = live.state, NEW r, r = live.on
        PROVE  StateTrue(state, r, r)'
    <2>1. r \in Requests /\ StateTrue(state, r, r)
      BY <1>4 DEF LiveRight, AtWork
    <2>2. state = "not_started" => phase'[r] = "absent"
      BY <1>4, <2>1, NotStarted DEF StateTrue
    <2> QED
      BY <2>1, <2>2, StatePersists DEF Jobs
  <1>5. live.stage \in {"ended", "saved", "found"} =>
           StateTrue(live.state, live.on, live.on)'
    BY <1>4 DEF StateTrue
  <1>6. ASSUME live.stage = "found", live.target # 0
        PROVE  /\ live.target \in DOMAIN messages'
               /\ messages'[live.target].request = live.on
    <2>1. ~ SaveMessage
      BY <1>6 DEF SaveMessage, At
    <2> QED
      BY <1>6, <2>1 DEF LiveRight, MessagesPersist
  <1> QED
    BY <1>1, <1>2, <1>3, <1>5, <1>6 DEF LiveRight, AtWork

LEMMA LiveRightStep ==
  ASSUME Inv, Next, RequestsPersist, JobsPersist, MessagesPersist
  PROVE  LiveRight'
  <1> USE DEF Inv, TypeOK
  <1>1. CASE UNCHANGED live
    BY <1>1, LiveRightStands
  <1>2. ASSUME NEW r \in Requests, Propose(r) PROVE LiveRight'
    <2>1. phase[r] = "absent"
      BY <1>2 DEF Propose, JobsRight, NoRequest, Jobs
    <2> QED
      BY <1>2, <2>1 DEF Propose, At, LiveRight, AtWork
  <1>3. CASE LiveOpens
    <2>1. live.on \in Requests /\ request[live.on].source = "live" /\ live.state = "none"
      BY <1>3 DEF LiveOpens, LiveRight, AtWork
    <2> QED
      BY <1>3, <2>1 DEF LiveOpens, Job!Open, Jobs, Executor, LiveRight, AtWork
  <1>4. CASE LiveLinks
    <2>1. /\ live.on \in Requests /\ request'[live.on].source = "live"
          /\ live.state = "none" /\ phase[live.on] # "absent"
      BY <1>4, SourcePersists DEF LiveLinks, LiveRight, AtWork
    <2> QED
      BY <1>4, <2>1 DEF LiveLinks, Executor, LiveRight, AtWork
  <1>5. CASE LiveDenied \/ LiveRefused
    <2>1. /\ live.on \in Requests /\ request'[live.on].source = "live"
          /\ phase[live.on] = "absent"
      BY <1>5, SourcePersists DEF LiveDenied, LiveRefused, LiveRight, AtWork
    <2> QED
      BY <1>5, <2>1
      DEF LiveDenied, LiveRefused, At, LiveRight, AtWork, StateTrue, States
  <1>6. CASE SeeEnd
    <2>1. /\ live.on \in Requests /\ request[live.on].source = "live"
          /\ phase[live.on] # "absent"
      BY <1>6 DEF SeeEnd, LiveRight, AtWork
    <2>2. live' = [live EXCEPT !.stage = "ended", !.state = OutcomeState(run[live.on])]
      BY <1>6 DEF SeeEnd
    <2>3. /\ live'.stage = "ended" /\ live'.on = live.on
          /\ live'.state = OutcomeState(run[live.on])
      BY <2>2 DEF Executor
    <2>4. StateTrue(live.state, live.on, live.on)'
      BY <1>6, <2>1, <2>3
      DEF SeeEnd, OutcomeState, StateTrue, States, Job!Results
    <2>5. live'.state # "not_started"
      BY <1>6, <2>3 DEF SeeEnd, OutcomeState, Job!Results
    <2> QED
      BY <1>6, <2>1, <2>3, <2>4, <2>5 DEF SeeEnd, LiveRight, AtWork
  <1>7. CASE GiveUp
    <2>1. /\ live.on \in Requests /\ request[live.on].source = "live"
          /\ phase[live.on] # "absent"
      BY <1>7 DEF GiveUp, LiveRight, AtWork
    <2> QED
      BY <1>7, <2>1 DEF GiveUp, Executor, LiveRight, AtWork, StateTrue, States
  <1>8. CASE SaveOutcome
    <2>1. /\ live.on \in Requests /\ request'[live.on].source = "live"
          /\ StateTrue(live.state, live.on, live.on)
      BY <1>8, SourcePersists DEF SaveOutcome, LiveRight, AtWork
    <2> QED
      BY <1>8, <2>1 DEF SaveOutcome, Executor, LiveRight, AtWork, StateTrue
  <1>9. CASE FindMessage
    <2>1. /\ live.on \in Requests /\ request[live.on].source = "live"
          /\ StateTrue(live.state, live.on, live.on)
      BY <1>9 DEF FindMessage, LiveRight, AtWork
    <2>2. /\ live'.stage = "found" /\ live'.on = live.on /\ live'.state = live.state
          /\ live'.target = NewestMessage(live.on)
      BY <1>9 DEF FindMessage, Executor
    <2>3. live'.target # 0 => /\ live'.target \in DOMAIN messages
                              /\ messages[live'.target].request = live.on
      BY <2>2, NewestIsOfRequest
    <2> QED
      BY <1>9, <2>1, <2>2, <2>3 DEF FindMessage, LiveRight, AtWork, StateTrue
  <1>10. CASE SaveMessage \/ LiveEnds \/ LiveDies
    BY <1>10 DEF SaveMessage, LiveEnds, LiveDies, At, Executor, LiveRight, AtWork
  <1> QED
    BY <1>1, <1>2, <1>3, <1>4, <1>5, <1>6, <1>7, <1>8, <1>9, <1>10, OthersKeepLive
    DEF Next, LiveStep

-----------------------------------------------------------------------------
(* Requests and the results of their runs.                                 *)

\* Who changes the status of a request.
LEMMA StatusStep ==
  ASSUME Inv, Next, NEW r \in Requests, request'[r].status # request[r].status
  PROVE  \/ request[r] = NoRequest
         \/ \E b \in Buttons : /\ button[b].on = r
                               /\ button[b].stage \in {"approving", "opened", "rejecting"}
         \/ /\ live.on = r
            /\ \/ live.stage \in {"approving", "opened"}
               \/ SaveOutcome
         \/ \E j \in Jobs : phase[j] = "open" /\ r \in noted[j].links
  <1> USE DEF Inv, TypeOK
  <1>1. ~ UNCHANGED request
    OBVIOUS
  <1>2. ASSUME NEW q \in Requests, RequestByHand(q) \/ Propose(q)
        PROVE  request[r] = NoRequest
    BY <1>2 DEF RequestByHand, Propose
  <1>3. ASSUME NEW b \in Buttons, ButtonStep(b)
        PROVE  /\ button[b].on = r
               /\ button[b].stage \in {"approving", "opened", "rejecting"}
    BY <1>1, <1>3
    DEF ButtonStep, PressButton, ButtonDenied, ButtonOpens, ButtonLinks,
        ButtonRejects, ButtonStops, Denied, Queued
  <1>4. ASSUME NEW j \in Jobs, JobStep(j)
        PROVE  phase[j] = "open" /\ r \in noted[j].links
    BY <1>1, <1>4 DEF JobStep, NoteLinks, Submit, RollBack, Discard, Job!Settle
  <1>5. CASE LiveLinks \/ LiveDenied \/ LiveRefused \/ SaveOutcome
    BY <1>5 DEF LiveLinks, LiveDenied, LiveRefused, SaveOutcome, Denied, Queued
  <1> QED
    BY <1>1, <1>2, <1>3, <1>4, <1>5
    DEF Next, LiveStep, Others, LiveOpens, SeeEnd, GiveUp, FindMessage,
        SaveMessage, LiveEnds, LiveDies

\* Who says which run a request has.
LEMMA RunStep ==
  ASSUME Inv, Next, NEW r \in Requests, NEW j \in Jobs,
         request'[r].run = j, request[r].run # j
  PROVE  \/ j \in Buttons /\ button[j].on = r /\ ButtonLinks(j)
         \/ j = r /\ live.on = r /\ LiveLinks
  <1> USE DEF Inv, TypeOK
  <1>1. ~ UNCHANGED request
    OBVIOUS
  <1>2. j # Nothing
    BY NothingAssumption DEF Jobs
  <1>3. ASSUME NEW q \in Requests, RequestByHand(q) \/ Propose(q) PROVE FALSE
    BY <1>2, <1>3 DEF RequestByHand, Propose
  <1>4. ASSUME NEW b \in Buttons, ButtonStep(b), ~ ButtonLinks(b) PROVE FALSE
    <2>1. ASSUME NEW q, NEW s, request' = [request EXCEPT ![q].status = s]
          PROVE  FALSE
      BY <2>1 DEF Request
    <2> QED
      BY <1>1, <1>4, <2>1
      DEF ButtonStep, PressButton, ButtonDenied, ButtonOpens, ButtonRejects,
          ButtonStops, Denied
  <1>5. ASSUME NEW b \in Buttons, ButtonLinks(b) PROVE j = b /\ button[b].on = r
    BY <1>5 DEF ButtonLinks, Queued, Request
  <1>6. CASE LiveLinks
    BY <1>6 DEF LiveLinks, Queued, Request
  <1>7. ASSUME LiveDenied \/ LiveRefused \/ SaveOutcome PROVE FALSE
    BY <1>7 DEF LiveDenied, LiveRefused, SaveOutcome, Denied, Request
  <1>8. ASSUME NEW k \in Jobs, JobStep(k) PROVE FALSE
    BY <1>1, <1>8
    DEF JobStep, NoteLinks, Submit, RollBack, Discard, Request
  <1> QED
    BY <1>1, <1>3, <1>4, <1>5, <1>6, <1>7, <1>8
    DEF Next, LiveStep, Others, LiveOpens, SeeEnd, GiveUp, FindMessage,
        SaveMessage, LiveEnds, LiveDies

\* Who links a request to a run.
LEMMA LinkStep ==
  ASSUME Inv, Next, NEW r \in Requests, NEW j \in Jobs, Linked(r, j)'
  PROVE  \/ Linked(r, j)
         \/ j \in Buttons /\ button[j].on = r /\ ButtonLinks(j)
         \/ j = r /\ live.on = r /\ LiveLinks
  <1> USE DEF Inv, TypeOK
  <1>1. ASSUME request'[r].run = j, request[r].run # j
        PROVE  \/ j \in Buttons /\ button[j].on = r /\ ButtonLinks(j)
               \/ j = r /\ live.on = r /\ LiveLinks
    BY <1>1, RunStep
  <1>2. ASSUME r \in noted'[j].links, r \notin noted[j].links
        PROVE  request[r].run = j
    <2>1. ASSUME NEW k \in Jobs, NoteLinks(k) \/ RollBack(k) PROVE request[r].run = j
      BY <1>2, <2>1 DEF NoteLinks, RollBack, NoNote, Note
    <2>2. ~ UNCHANGED noted
      BY <1>2
    <2> QED
      BY <2>1, <2>2
      DEF Next, LiveStep, Others, ButtonStep, JobStep, Propose, LiveOpens,
          LiveLinks, LiveDenied, LiveRefused, SeeEnd, GiveUp, SaveOutcome,
          FindMessage, SaveMessage, LiveEnds, LiveDies, RequestByHand, Submit,
          Discard, PressButton, ButtonDenied, ButtonOpens, ButtonLinks,
          ButtonRejects, ButtonStops
  <1> QED
    BY <1>1, <1>2 DEF Linked

LEMMA LinkRightStep ==
  ASSUME Inv, Next, RequestsPersist, ButtonsPersist,
         NEW r \in Requests, NEW j \in Jobs
  PROVE  LinkRight(r, j)'
  <1> USE DEF Inv, TypeOK
  <1> SUFFICES ASSUME Linked(r, j)'
               PROVE  \/ /\ j \in Buttons
                         /\ button'[j].stage = "done" /\ button'[j].on = r
                      \/ /\ j = r /\ request'[r].source = "live"
                         /\ ~ (live'.stage \in {"approving", "opened"} /\ live'.on = r)
    BY DEF LinkRight
  <1>1. CASE j \in Buttons /\ button[j].on = r /\ ButtonLinks(j)
    BY <1>1 DEF ButtonLinks, Press
  <1>2. CASE j = r /\ live.on = r /\ LiveLinks
    <2>1. request[r].source = "live"
      BY <1>2 DEF LiveLinks, LiveRight, AtWork
    <2> QED
      BY <1>2, <2>1, SourcePersists DEF LiveLinks, Executor
  <1>3. CASE Linked(r, j)
    <2>1. CASE j \in Buttons /\ button[j].stage = "done" /\ button[j].on = r
      BY <2>1 DEF ButtonsPersist
    <2>2. CASE /\ j = r /\ request[r].source = "live"
               /\ ~ (live.stage \in {"approving", "opened"} /\ live.on = r)
      <3>1. request'[r].source = "live"
        BY <2>2, SourcePersists
      <3>2. ASSUME live'.stage = "approving", live'.on = r PROVE FALSE
        BY <2>2, <3>2, StepLive DEF Propose, At, NoRequest
      <3>3. ASSUME live'.stage = "opened", live'.on = r PROVE FALSE
        BY <2>2, <3>3, StepOpened
      <3> QED
        BY <2>2, <3>1, <3>2, <3>3
    <2> QED
      BY <1>3, <2>1, <2>2 DEF LinkRight
  <1> QED
    BY <1>1, <1>2, <1>3, LinkStep

\* Once the stream has given up on a request, this stays so.
LEMMA GaveStep ==
  ASSUME Inv, Next, MessagesPersist,
         NEW r \in Requests, request[r].source = "live", LiveGave(r)
  PROVE  LiveGave(r)'
  <1> USE DEF Inv, TypeOK
  <1>1. r # Nothing
    BY NothingAssumption
  <1>2. CASE live.on = r /\ live.state = "timeout"
    <2>1. live.stage \in {"ended", "saved", "found", "dead"}
      BY <1>1, <1>2 DEF LiveRight, Executor
    <2>2. CASE SaveMessage
      <3>1. PICK m : /\ m = [request |-> live.on, state |-> live.state,
                             run |-> IF live.state = "not_started" THEN Nothing
                                     ELSE live.on]
                     /\ messages' = IF live.target = 0 THEN Append(messages, m)
                                    ELSE [messages EXCEPT ![live.target] = m]
        BY <2>2 DEF SaveMessage
      <3>2. \E i \in DOMAIN messages' : messages'[i] = m
        <4>1. CASE live.target = 0
          <5>1. /\ Len(messages) + 1 \in DOMAIN messages'
                /\ messages'[Len(messages) + 1] = m
            BY <3>1, <4>1
          <5> QED
            BY <5>1
        <4>2. CASE live.target # 0
          <5>1. live.target \in DOMAIN messages
            BY <2>2, <4>2 DEF SaveMessage, LiveRight
          <5> QED
            BY <3>1, <4>2, <5>1
        <4> QED
          BY <4>1, <4>2
      <3>3. m.request = r /\ m.state = "timeout"
        BY <1>2, <3>1
      <3>4. live'.on # r
        BY <1>1, <2>2 DEF SaveMessage, At
      <3> QED
        BY <3>2, <3>3, <3>4 DEF LiveGave
    <2>3. CASE SaveOutcome \/ LiveDies
      BY <1>2, <2>3 DEF SaveOutcome, LiveDies, Executor, LiveGave
    <2>4. CASE FindMessage
      BY <1>2, <2>4 DEF FindMessage, Executor, LiveGave
    <2>5. CASE UNCHANGED live
      BY <1>2, <2>5 DEF LiveGave
    <2> QED
      BY <2>1, <2>2, <2>3, <2>4, <2>5, OthersKeepLive
      DEF Next, LiveStep, Propose, LiveOpens, LiveLinks, LiveDenied,
          LiveRefused, SeeEnd, GiveUp, LiveEnds
  <1>3. ASSUME live.on # r, NEW i \in DOMAIN messages,
               messages[i].request = r, messages[i].state = "timeout"
        PROVE  LiveGave(r)'
    <2>1. i \in DOMAIN messages' /\ messages'[i] = messages[i]
      <3>1. ~ (SaveMessage /\ i = live.target)
        BY <1>3 DEF SaveMessage, LiveRight, MessagesPersist
      <3> QED
        BY <3>1 DEF MessagesPersist
    <2>2. live'.on # r
      BY <1>3, OnStep
    <2> QED
      BY <1>3, <2>1, <2>2 DEF LiveGave
  <1> QED
    BY <1>2, <1>3 DEF LiveGave

\* Runs are only added: alone after a step is alone before it.
LEMMA AlonePersists ==
  ASSUME Inv, RequestsPersist, ButtonsPersist,
         NEW r \in Requests, NEW j, Alone(r, j)'
  PROVE  Alone(r, j)
  <1>1. r # Nothing
    BY NothingAssumption
  <1> QED
    BY <1>1, SourcePersists DEF Alone, ButtonsPersist, Inv, ButtonsRight

\* The stream that did not give up saves the run's own result.
LEMMA OutcomeSaved ==
  ASSUME Inv, SaveOutcome, NEW r \in Requests, live.on = r, live.state # "timeout"
  PROVE  run[r] \in Job!Results /\ request'[r].status = StatusForRun(run[r])
  <1> USE DEF Inv, TypeOK
  <1>1. StateTrue(live.state, r, r) /\ live.state # "not_started"
    BY DEF SaveOutcome, LiveRight
  <1>2. CASE live.state = "succeeded"
    <2>1. run[r] = "succeeded"
      BY <1>1, <1>2 DEF StateTrue
    <2>2. request'[r].status = "succeeded"
      BY <1>2 DEF SaveOutcome, StatusForOutcome, Request
    <2> QED
      BY <2>1, <2>2 DEF StatusForRun, Job!Results
  <1>3. CASE live.state = "failed"
    <2>1. run[r] \in {"failed", "rejected"}
      BY <1>1, <1>3 DEF StateTrue
    <2>2. request'[r].status = "failed"
      BY <1>3 DEF SaveOutcome, StatusForOutcome, Request
    <2> QED
      BY <2>1, <2>2 DEF StatusForRun, Job!Results
  <1> QED
    BY <1>1, <1>2, <1>3 DEF StateTrue, States

\* A run takes its result from the submission, and keeps it.
LEMMA ResultsFromSubmit ==
  ASSUME Inv, Next, NEW j \in Jobs, run'[j] \in Job!Results
  PROVE  Submit(j) \/ run'[j] = run[j]
  <1> USE DEF Inv, TypeOK
  <1>1. ASSUME NEW b \in Buttons, ButtonOpens(b) PROVE run'[j] = run[j]
    BY <1>1 DEF ButtonOpens, Job!Open, Job!Results
  <1>2. ASSUME LiveOpens PROVE run'[j] = run[j]
    BY <1>2 DEF LiveOpens, Job!Open, Job!Results
  <1>3. ASSUME NEW k \in Jobs, Discard(k) PROVE run'[j] = run[j]
    BY <1>3 DEF Discard, Job!Discard
  <1>4. ASSUME NEW k \in Jobs, Submit(k), k # j PROVE run'[j] = run[j]
    <2>1. PICK s \in Job!Results : SubmitAs(k, s)
      BY <1>4, SubmitHasResult
    <2> QED
      BY <1>4, <2>1 DEF SubmitAs, Job!Settle
  <1> QED
    BY <1>1, <1>2, <1>3, <1>4, StepJobs

LEMMA ResultKeptStep ==
  ASSUME Inv, Next, RequestsPersist, ButtonsPersist, JobsPersist, MessagesPersist,
         NEW r \in Requests, NEW j \in Jobs
  PROVE  ResultKept(r, j)'
  <1> USE DEF Inv, TypeOK
  <1> SUFFICES ASSUME r \in noted'[j].links, run'[j] \in Job!Results,
                      Alone(r, j)',
                      ~ (request'[r].source = "live" /\ LiveGave(r)')
               PROVE  request'[r].status = StatusForRun(run'[j])
    BY DEF ResultKept, StatusForRun
  <1>1. Alone(r, j) /\ ~ (request[r].source = "live" /\ LiveGave(r))
    BY AlonePersists, GaveStep, SourcePersists
  <1>2. CASE Submit(j)
    <2>1. PICK s \in Job!Results : SubmitAs(j, s)
      BY <1>2, SubmitHasResult
    <2> QED
      BY <2>1 DEF SubmitAs, Job!Settle, Request
  <1>3. CASE ~ Submit(j)
    <2>1. run[j] \in Job!Results /\ run'[j] = run[j] /\ phase[j] = "closed"
      BY <1>3, ResultsFromSubmit DEF JobsRight
    <2>2. r \in noted[j].links
      <3>1. ASSUME NEW k \in Jobs, NoteLinks(k) PROVE r \in noted[j].links
        BY <2>1, <3>1 DEF NoteLinks
      <3>2. ASSUME NEW k \in Jobs, RollBack(k) PROVE r \in noted[j].links
        BY <2>1, <3>2 DEF RollBack
      <3> QED
        BY <3>1, <3>2
        DEF Next, LiveStep, Others, ButtonStep, JobStep, Propose, LiveOpens,
            LiveLinks, LiveDenied, LiveRefused, SeeEnd, GiveUp, SaveOutcome,
            FindMessage, SaveMessage, LiveEnds, LiveDies, RequestByHand, Submit,
            Discard, PressButton, ButtonDenied, ButtonOpens, ButtonLinks,
            ButtonRejects, ButtonStops
    <2>3. request[r].status = StatusForRun(run[j])
      BY <1>1, <2>1, <2>2 DEF ResultKept
    <2>4. \/ j \in Buttons /\ button[j].stage = "done" /\ button[j].on = r
          \/ /\ j = r /\ request[r].source = "live"
             /\ ~ (live.stage \in {"approving", "opened"} /\ live.on = r)
      BY <2>2 DEF LinkRight, Linked
    <2>5. CASE request'[r].status = request[r].status
      BY <2>1, <2>3, <2>5
    <2>6. request[r] # NoRequest
      BY <2>4 DEF ButtonsRight, NoRequest
    <2>7. ASSUME NEW b \in Buttons, button[b].on = r,
                 button[b].stage \in {"approving", "opened", "rejecting"}
          PROVE  FALSE
      BY <1>1, <2>4, <2>7, NamesAssumption DEF Alone
    <2>8. ASSUME live.on = r, live.stage \in {"approving", "opened"} PROVE FALSE
      <3>1. request[r].source = "live"
        BY <2>8 DEF LiveRight, AtWork
      <3> QED
        BY <1>1, <2>4, <2>8, <3>1, NamesAssumption DEF Alone
    <2>9. CASE live.on = r /\ SaveOutcome
      <3>1. request[r].source = "live"
        BY <2>9 DEF SaveOutcome, LiveRight, AtWork
      <3>2. j = r /\ live.state # "timeout"
        BY <1>1, <2>9, <3>1 DEF Alone, LiveGave
      <3> QED
        BY <2>1, <2>9, <3>2, OutcomeSaved
    <2>10. ASSUME NEW k \in Jobs, phase[k] = "open", r \in noted[k].links
           PROVE  FALSE
      <3>1. \/ k \in Buttons /\ button[k].on = r
            \/ k = r /\ request[r].source = "live"
        BY <2>10 DEF LinkRight, Linked
      <3>2. k = j
        BY <1>1, <3>1 DEF Alone
      <3> QED
        BY <2>1, <2>10, <3>2
    <2> QED
      BY <2>5, <2>6, <2>7, <2>8, <2>9, <2>10, StatusStep
  <1> QED
    BY <1>2, <1>3

LEMMA StreamKeptStep ==
  ASSUME Inv, Next, RequestsPersist, ButtonsPersist, JobsPersist, MessagesPersist,
         NEW r \in Requests
  PROVE  StreamKept(r)'
  <1> USE DEF Inv, TypeOK
  <1> SUFFICES ASSUME request'[r].source = "live", request'[r].run = r,
                      Alone(r, r)', ~ LiveGave(r)',
                      live'.on = r => live'.stage \in {"saved", "found"}
               PROVE  /\ run'[r] \in Job!Results
                      /\ request'[r].status = StatusForRun(run'[r])
    BY DEF StreamKept, StatusForRun
  <1>1. r \in Jobs /\ r # Nothing /\ r \notin Buttons
    BY NothingAssumption, NamesAssumption DEF Jobs
  <1>2. Alone(r, r)
    BY AlonePersists
  <1>3. request[r].run = r
    <2>1. ~ (live.on = r /\ LiveLinks)
      BY DEF LiveLinks, Executor
    <2> QED
      BY <1>1, <2>1, RunStep
  <1>4. request[r].source = "live" /\ request[r] # NoRequest
    BY <1>1, <1>3 DEF LinkRight, Linked, NoRequest
  <1>5. ~ LiveGave(r)
    BY <1>4, GaveStep
  <1>6. ~ (live.stage \in {"approving", "opened"} /\ live.on = r)
    BY <1>1, <1>3 DEF LinkRight, Linked
  <1>7. CASE live.on = r /\ SaveOutcome
    <2>1. live.state # "timeout"
      BY <1>5, <1>7 DEF LiveGave
    <2>2. run'[r] = run[r]
      BY <1>7 DEF SaveOutcome
    <2> QED
      BY <1>7, <2>1, <2>2, OutcomeSaved
  <1>8. ASSUME ~ (live.on = r /\ SaveOutcome), live.on = r
        PROVE  live.stage \in {"saved", "found"}
    BY <1>1, <1>6, <1>8, OthersKeepLive
    DEF Next, LiveStep, Propose, LiveOpens, LiveLinks, LiveDenied, LiveRefused,
        SeeEnd, GiveUp, SaveOutcome, FindMessage, SaveMessage, LiveEnds,
        LiveDies, LiveRight, Executor, At
  <1>9. CASE ~ (live.on = r /\ SaveOutcome)
    <2>1. /\ run[r] \in Job!Results /\ phase[r] = "closed"
          /\ request[r].status = StatusForRun(run[r])
      BY <1>1, <1>2, <1>3, <1>4, <1>5, <1>8, <1>9 DEF StreamKept, JobsRight
    <2>2. run'[r] = run[r]
      BY <1>1, <2>1 DEF JobsPersist
    <2>3. ASSUME NEW b \in Buttons, button[b].on = r PROVE FALSE
      BY <1>1, <1>2, <2>3 DEF Alone
    <2>4. ASSUME NEW k \in Jobs, phase[k] = "open", r \in noted[k].links
          PROVE  FALSE
      <3>1. k = r
        BY <2>3, <2>4 DEF LinkRight, Linked
      <3> QED
        BY <2>1, <2>4, <3>1
    <2>5. request'[r].status = request[r].status
      BY <1>4, <1>6, <1>9, <2>3, <2>4, StatusStep
    <2> QED
      BY <2>1, <2>2, <2>5
  <1> QED
    BY <1>7, <1>9

LEMMA InvStep ==
  ASSUME Inv, [Next]_vars
  PROVE  Inv'
  <1>1. CASE Next
    <2>1. RequestsPersist /\ ButtonsPersist /\ JobsPersist /\ MessagesPersist
      BY <1>1, StepRequests, StepButtons, StepJobsPersist, StepMessages
    <2>2. TypeOK' /\ FewRequests' /\ JobsRight' /\ ButtonsRight'
      BY <1>1, <2>1, TypeStep, FewRequestsStep, JobsRightStep, ButtonsRightStep
    <2>3. LiveRight' /\ MessagesRight'
      BY <1>1, <2>1, LiveRightStep, MessagesRightStep
    <2>4. \A r \in Requests, j \in Jobs : LinkRight(r, j)' /\ ResultKept(r, j)'
      BY <1>1, <2>1, LinkRightStep, ResultKeptStep
    <2>5. \A r \in Requests : StreamKept(r)'
      BY <1>1, <2>1, StreamKeptStep
    <2> QED
      BY <2>2, <2>3, <2>4, <2>5 DEF Inv
  <1>2. CASE UNCHANGED vars
    BY <1>2
    DEF vars, Inv, TypeOK, FewRequests, Made, JobsRight, ButtonsRight, LiveRight,
        MessagesRight, MessageRight, StateTrue, LinkRight, Linked, ResultKept,
        StreamKept, Alone, LiveGave, StatusForRun
  <1> QED
    BY <1>1, <1>2

-----------------------------------------------------------------------------
(* Theorems of the tools (ChatTools).                                      *)

LEMMA ToolsInv == Spec => []Inv
  BY InitInv, InvStep, PTL DEF Spec

\* Every state of the requests, the stream, the presses, the jobs and the
\* messages is well-typed.
THEOREM ToolsTypeCorrect == Spec => []TypeOK
  <1>1. Inv => TypeOK
    BY DEF Inv
  <1> QED
    BY <1>1, ToolsInv, PTL

\* What the chat says of a tool is what happened, in whatever order the stream
\* and the submissions write.
THEOREM MessagesTrueHolds == Spec => []MessagesTrue
  <1>1. Inv => MessagesTrue
    <2> SUFFICES ASSUME Inv, NEW i \in DOMAIN messages
                 PROVE  LET m == messages[i] IN
                        /\ m.state \in States
                        /\ m.state = "succeeded" => run[m.run] = "succeeded"
                        /\ m.state = "failed" => run[m.run] \in {"failed", "rejected"}
                        /\ m.state = "timeout" => phase[m.run] # "absent"
                        /\ m.state = "not_started" => phase[m.request] = "absent"
      BY DEF MessagesTrue, States
    <2> QED
      BY DEF Inv, MessagesRight, MessageRight, StateTrue
  <1> QED
    BY <1>1, ToolsInv, PTL

\* A request that one person, or the stream, has decided ends as its run ended.
THEOREM StatusFollowsRunHolds == Spec => []StatusFollowsRun
  <1>1. Inv => StatusFollowsRun
    <2> SUFFICES ASSUME Inv, NEW r \in Requests, NEW j \in Jobs,
                        Quiet(r), DecidedBy(r) = {j}, request[r].run = j,
                        run[j] \in Job!Results, Informed(r, j), ~GaveUp(r)
                 PROVE  request[r].status = StatusForRun(run[j])
      BY DEF StatusFollowsRun
    <2>1. Alone(r, j)
      BY DEF DecidedBy, Alone
    <2>2. ~ (request[r].source = "live" /\ LiveGave(r))
      BY DEF GaveUp, LiveGave
    <2>3. CASE r \in noted[j].links
      BY <2>1, <2>2, <2>3 DEF Inv, ResultKept
    <2>4. CASE request[r].source = "live" /\ live.stage # "dead"
      <3>1. live.on # r
        BY <2>4 DEF Quiet
      <3>2. j = r
        BY <2>1, <2>4 DEF Alone
      <3> QED
        BY <2>1, <2>2, <2>4, <3>1, <3>2 DEF Inv, StreamKept
    <2> QED
      BY <2>3, <2>4 DEF Informed
  <1> QED
    BY <1>1, ToolsInv, PTL

\* A result is told in the step that records it.
LEMMA SubmissionTells ==
  ASSUME Inv, NEW j \in Jobs, Submit(j), NEW r \in noted[j].links
  PROVE  Tells(r, j)'
  <1> USE DEF Inv, TypeOK
  <1>1. PICK s \in Job!Results : SubmitAs(j, s)
    BY SubmitHasResult
  <1>2. PICK m : m = [request |-> r, state |-> OutcomeState(s), run |-> j]
    OBVIOUS
  <1>3. m \in Summaries(j, s)
    BY <1>2 DEF Summaries
  <1> DEFINE new == SetToSeq(Summaries(j, s))
  <1>4. new \in Seq(Message) /\ \E i \in DOMAIN new : new[i] = m
    BY <1>3, SummariesRight
  <1>5. messages' = messages \o new
    BY <1>1 DEF SubmitAs
  <1>6. \E i \in DOMAIN messages' : messages'[i] = m
    <2> HIDE DEF new
    <2>1. PICK i \in DOMAIN new : new[i] = m
      BY <1>4
    <2>2. /\ Len(messages) + i \in DOMAIN messages'
          /\ messages'[Len(messages) + i] = m
      BY <1>4, <1>5, <2>1
    <2> QED
      BY <2>2
  <1>7. run'[j] = s
    BY <1>1 DEF SubmitAs, Job!Settle
  <1>8. PICK i \in DOMAIN messages' : messages'[i] = m
    BY <1>6
  <1>9. m.state = OutcomeState(run[j])'
    BY <1>2, <1>7 DEF OutcomeState
  <1> HIDE DEF new
  <1> QED
    BY <1>2, <1>8, <1>9 DEF Tells

\* A result is told together with its recording, and only the follow-up that
\* the stream is about to write can take it away.
THEOREM ResultToldHolds == Spec => ResultTold
  <1> DEFINE P == \A r \in Requests, j \in Jobs :
          /\ run'[j] \in Job!Results /\ r \in noted[j].links
          /\ run[j] \in Job!Results => Tells(r, j)
          /\ ~(live.stage = "found" /\ live.on = r)
          => Tells(r, j)'
  <1>1. Inv /\ [Next]_vars => [P]_vars
    <2> SUFFICES ASSUME Inv, Next, NEW r \in Requests, NEW j \in Jobs,
                        run'[j] \in Job!Results, r \in noted[j].links,
                        run[j] \in Job!Results => Tells(r, j),
                        ~(live.stage = "found" /\ live.on = r)
                 PROVE  Tells(r, j)'
      OBVIOUS
    <2>1. CASE run[j] \in Job!Results
      <3>1. run'[j] = run[j]
        BY <2>1, StepJobsPersist DEF JobsPersist
      <3>2. PICK i \in DOMAIN messages :
               /\ messages[i].request = r /\ messages[i].run = j
               /\ messages[i].state = OutcomeState(run[j])
        BY <2>1 DEF Tells
      <3>3. i \in DOMAIN messages' /\ messages'[i] = messages[i]
        <4>1. ~ (SaveMessage /\ i = live.target)
          BY <3>2 DEF SaveMessage, Inv, LiveRight
        <4> QED
          BY <4>1, StepMessages DEF MessagesPersist
      <3> QED
        BY <3>1, <3>2, <3>3 DEF Tells, OutcomeState
    <2>2. CASE run[j] \notin Job!Results
      <3>1. Submit(j)
        BY <2>2, ResultsFromSubmit
      <3> QED
        BY <3>1, SubmissionTells
    <2> QED
      BY <2>1, <2>2
  <1> QED
    BY <1>1, ToolsInv, PTL DEF Spec, ResultTold

-----------------------------------------------------------------------------
(* Texts.                                                                  *)

\* A part of a text is a text.
LEMMA PartType ==
  ASSUME NEW S, NEW s \in Seq(S), NEW m \in Nat \ {0}, NEW n \in Int, n <= Len(s)
  PROVE  SubSeq(s, m, n) \in Seq(S)
  <1>1. \A i \in m .. n : s[i] \in S
    BY ElementOfSeq
  <1> QED
    BY <1>1, SubSeqProperties

\* FlattenSeq is a recursive function: that there is one follows by taking the
\* shortest beginning of the list for which there is none.
LEMMA FlattenType ==
  ASSUME NEW S, NEW seqs \in Seq(Seq(S))
  PROVE  FlattenSeq(seqs) \in Seq(S)
  <1> DEFINE n == Len(seqs)
             Next1(f, i) == IF i = 1 THEN seqs[i] ELSE f[i - 1] \o seqs[i]
             Flat(f, m) == \A i \in 1 .. m : f[i] = Next1(f, i)
             NoFlat(m) == \A f \in [1 .. m -> Seq(S)] : ~ Flat(f, m)
             T == {m \in 1 .. n : NoFlat(m)}
  <1>0. n \in Nat /\ \A i \in 1 .. n : seqs[i] \in Seq(S)
    BY ElementOfSeq
  <1>1. T = {}
    <2> SUFFICES ASSUME T # {} PROVE FALSE
      OBVIOUS
    <2>1. PICK m \in T : \A k \in T : m <= k
      <3>1. T \subseteq Nat
        BY <1>0
      <3> HIDE DEF T
      <3> QED BY <3>1, LeastExists
    <2>2. m \in 1 .. n /\ NoFlat(m)
      BY <2>1
    <2>3. CASE m = 1
      <3>1. [i \in 1 .. m |-> seqs[i]] \in [1 .. m -> Seq(S)]
        BY <1>0, <2>2
      <3>2. Flat([i \in 1 .. m |-> seqs[i]], m)
        BY <2>3
      <3> QED
        BY <2>2, <3>1, <3>2
    <2>4. CASE m # 1
      <3>1. m - 1 \in 1 .. n /\ m - 1 < m
        BY <1>0, <2>2, <2>4
      <3>2. ~ NoFlat(m - 1)
        <4> HIDE DEF NoFlat
        <4>1. NoFlat(m - 1) => m <= m - 1
          BY <2>1, <3>1
        <4> QED
          BY <2>2, <4>1
      <3>3. PICK f \in [1 .. m - 1 -> Seq(S)] : Flat(f, m - 1)
        BY <3>2
      <3> DEFINE g == [i \in 1 .. m |-> IF i = m THEN f[m - 1] \o seqs[m] ELSE f[i]]
      <3>4. g \in [1 .. m -> Seq(S)]
        <4>1. f[m - 1] \in Seq(S) /\ seqs[m] \in Seq(S)
          BY <1>0, <2>2, <3>1, <3>3
        <4>2. f[m - 1] \o seqs[m] \in Seq(S)
          BY <4>1
        <4>3. \A i \in 1 .. m : i # m => f[i] \in Seq(S)
          BY <2>2, <3>3
        <4> QED
          BY <4>2, <4>3
      <3>5. Flat(g, m)
        <4> SUFFICES ASSUME NEW i \in 1 .. m PROVE g[i] = Next1(g, i)
          OBVIOUS
        <4>1. CASE i = m
          <5>1. m \in 1 .. m /\ m - 1 \in 1 .. m /\ m - 1 # m
            BY <2>2, <2>4, <3>1
          <5>2. g[m] = f[m - 1] \o seqs[m] /\ g[m - 1] = f[m - 1]
            BY <5>1
          <5> HIDE DEF g
          <5> QED
            BY <2>4, <4>1, <5>2
        <4>2. CASE i # m
          <5>1. i \in 1 .. m - 1
            BY <2>2, <4>2
          <5>2. f[i] = Next1(f, i)
            BY <3>3, <5>1
          <5>3. i # 1 => i - 1 \in 1 .. m /\ i - 1 # m
            BY <2>2, <5>1
          <5> QED
            BY <4>2, <5>1, <5>2, <5>3
        <4> QED
          BY <4>1, <4>2
      <3> QED
        BY <2>2, <3>4, <3>5
    <2> QED
      BY <2>3, <2>4
  <1>2. CASE n = 0
    BY <1>2 DEF FlattenSeq
  <1>3. CASE n # 0
    <2> DEFINE Is(f) == f = [i \in 1 .. n |-> Next1(f, i)]
               flatten == CHOOSE f : Is(f)
    <2>1. \E f : Is(f)
      <3>1. ~ NoFlat(n)
        <4>1. n \in 1 .. n
          BY <1>0, <1>3
        <4> HIDE DEF NoFlat
        <4> QED BY <1>1, <4>1
      <3>2. PICK f \in [1 .. n -> Seq(S)] : Flat(f, n)
        BY <3>1
      <3>3. Is(f)
        BY <3>2
      <3> QED
        BY <3>3
    <2>2. Is(flatten)
      <3> HIDE DEF Is
      <3> QED BY <2>1
    <2>3. FlattenSeq(seqs) = flatten[n]
      BY <1>3 DEF FlattenSeq
    <2> DEFINE U == {i \in 1 .. n : flatten[i] \notin Seq(S)}
    <2>4. \A i \in 1 .. n : flatten[i] = Next1(flatten, i)
      <3> HIDE DEF flatten
      <3> QED BY <2>2
    <2> HIDE DEF flatten
    <2>5. U = {}
      <3> SUFFICES ASSUME U # {} PROVE FALSE
        OBVIOUS
      <3>1. PICK i \in U : \A k \in U : i <= k
        <4>1. U \subseteq Nat
          BY <1>0
        <4> HIDE DEF U
        <4> QED BY <4>1, LeastExists
      <3>2. i \in 1 .. n /\ flatten[i] \notin Seq(S)
        BY <3>1
      <3>3. i # 1 => flatten[i - 1] \in Seq(S)
        <4> SUFFICES ASSUME i # 1 PROVE flatten[i - 1] \in Seq(S)
          OBVIOUS
        <4>1. i - 1 \in 1 .. n /\ i - 1 < i
          BY <1>0, <3>2
        <4> QED
          BY <3>1, <4>1
      <3>4. flatten[i] = Next1(flatten, i) /\ seqs[i] \in Seq(S)
        BY <1>0, <2>4, <3>2
      <3> QED
        BY <3>2, <3>3, <3>4
    <2> QED
      BY <1>0, <1>3, <2>3, <2>5
  <1> QED
    BY <1>2, <1>3

LEMMA MaskType == Mask \in Seq(Letters)
  <1>1. Mask \in Seq(Range(Mask)) /\ Range(Mask) \subseteq Letters
    BY TextsAssumption DEF Letters
  <1> QED
    BY <1>1

LEMMA RedactType ==
  ASSUME NEW text \in Seq(Letters)
  PROVE  Redact(text) \in Seq(Letters)
  <1> DEFINE pieces == [i \in 1 .. Len(text) |->
        IF ~InSecret(text, i) THEN <<text[i]>>
        ELSE IF i > 1 /\ InSecret(text, i - 1) THEN <<>> ELSE Mask]
  <1>1. ASSUME NEW i \in 1 .. Len(text) PROVE pieces[i] \in Seq(Letters)
    <2>1. text[i] \in Letters
      BY ElementOfSeq
    <2>2. <<text[i]>> \in Seq(Letters) /\ <<>> \in Seq(Letters)
      BY <2>1
    <2>3. pieces[i] \in {<<text[i]>>, <<>>, Mask}
      OBVIOUS
    <2> QED
      BY <2>2, <2>3, MaskType
  <1>2. pieces \in Seq(Seq(Letters))
    <2>1. Len(text) \in Nat
      OBVIOUS
    <2> QED
      BY <1>1, <2>1
  <1>3. Redact(text) = FlattenSeq(pieces)
    BY DEF Redact
  <1> HIDE DEF pieces
  <1> QED
    BY <1>2, <1>3, FlattenType

LEMMA StripType ==
  ASSUME NEW text \in Seq(Letters)
  PROVE  Strip(text) \in Seq(Letters)
  <1> DEFINE inked == {i \in 1 .. Len(text) : text[i] \notin Blanks}
  <1>1. CASE inked = {}
    BY <1>1 DEF Strip
  <1>2. CASE inked # {}
    <2>1. Len(text) \in Nat /\ inked \subseteq 1 .. Len(text) /\ inked \subseteq Nat
      OBVIOUS
    <2>2. Max(inked) \in inked
      <3> HIDE DEF inked
      <3> QED BY <1>2, <2>1, MaxIsMember
    <2>3. Min(inked) \in inked
      <3>1. PICK x \in inked : \A y \in inked : x <= y
        <4> HIDE DEF inked
        <4> QED BY <1>2, <2>1, LeastExists
      <3> HIDE DEF inked
      <3> QED BY <3>1 DEF Min
    <2>4. Strip(text) = SubSeq(text, Min(inked), Max(inked))
      BY <1>2 DEF Strip
    <2>5. Min(inked) \in Nat \ {0} /\ Max(inked) \in Int /\ Max(inked) <= Len(text)
      BY <2>1, <2>2, <2>3
    <2> HIDE DEF inked
    <2> QED
      BY <2>4, <2>5, PartType
  <1> QED
    BY <1>1, <1>2

\* The search for the marker finds a place in the text.
LEMMA MarkerFound ==
  ASSUME NEW text \in Seq(Letters), HasMarker(text)
  PROVE  IndexFirstSubSeq(Marker, text) \in Int
  <1> DEFINE Holds(i) == Marker \in SubSeqs(SubSeq(text, 1, i))
             T == {i \in 0 .. Len(text) : Holds(i)}
             P(i) == Holds(i) /\ \A j \in 0 .. i - 1 : ~ Holds(j)
             last == CHOOSE i \in 0 .. Len(text) : P(i)
  <1>0. Len(text) \in Nat /\ Len(Marker) \in Nat
    BY TextsAssumption
  <1>1. Holds(Len(text))
    <2>1. SubSeq(text, 1, Len(text)) = text
      OBVIOUS
    <2> QED
      BY <2>1 DEF HasMarker
  <1>2. PICK i \in T : \A j \in T : i <= j
    <2>1. T # {} /\ T \subseteq Nat
      BY <1>0, <1>1
    <2> HIDE DEF T
    <2> QED BY <2>1, LeastExists
  <1>3. i \in 0 .. Len(text) /\ P(i)
    <2>1. i \in 0 .. Len(text) /\ Holds(i)
      BY <1>2
    <2>2. \A j \in 0 .. i - 1 : j \in 0 .. Len(text) /\ ~ (i <= j)
      BY <1>0, <2>1
    <2>3. \A j \in 0 .. i - 1 : ~ Holds(j)
      <3> HIDE DEF Holds
      <3> QED BY <1>2, <2>2
    <2> QED
      BY <2>1, <2>3
  <1>4. last \in 0 .. Len(text)
    <2> HIDE DEF P
    <2> QED BY <1>3
  <1>5. IndexFirstSubSeq(Marker, text) = last - (Len(Marker) - 1)
    BY DEF IndexFirstSubSeq
  <1> HIDE DEF last
  <1> QED
    BY <1>0, <1>4, <1>5

LEMMA BeforeMarkerType ==
  ASSUME NEW text \in Seq(Letters)
  PROVE  BeforeMarker(text) \in Seq(Letters)
  <1>1. CASE ~ HasMarker(text)
    BY <1>1 DEF BeforeMarker
  <1>2. CASE HasMarker(text)
    <2> DEFINE before == IndexFirstSubSeq(Marker, text) - 1
               cut == before + Growth(SubSeq(text, 1, before))
    <2>1. before \in Int /\ Len(text) \in Nat
      BY <1>2, MarkerFound
    <2>2. Growth(SubSeq(text, 1, before)) \in Nat
      <3> DEFINE grown == {i \in DOMAIN SubSeq(text, 1, before) :
                              SubSeq(text, 1, before)[i] \in Growing}
      <3> HIDE DEF before
      <3>1. DOMAIN SubSeq(text, 1, before) = 1 .. before
        BY <2>1
      <3>2. IsFiniteSet(1 .. before)
        BY <2>1, FS_Interval
      <3>3. IsFiniteSet(grown)
        BY <3>1, <3>2, FS_Subset
      <3> QED
        BY <3>3, FS_CardinalityType DEF Growth
    <2>3. cut \in Int
      <3> HIDE DEF before
      <3> QED BY <2>1, <2>2
    <2> DEFINE last == Min({cut, Len(text)})
    <2>4. last \in Int /\ last <= Len(text)
      <3> HIDE DEF cut
      <3>1. \E x \in {cut, Len(text)} : \A y \in {cut, Len(text)} : x <= y
        BY <2>1, <2>3
      <3> QED
        BY <2>1, <2>3, <3>1 DEF Min
    <2>5. BeforeMarker(text) = SubSeq(text, 1, last)
      BY <1>2 DEF BeforeMarker
    <2> HIDE DEF last
    <2> QED
      BY <2>4, <2>5, PartType
  <1> QED
    BY <1>1, <1>2

\* What is visible of a text is a text.
LEMMA VisibleType ==
  ASSUME NEW text \in Seq(Letters)
  PROVE  Visible(text) \in Seq(Letters)
  <1>1. BeforeMarker(text) \in Seq(Letters)
    BY BeforeMarkerType
  <1>2. Redact(BeforeMarker(text)) \in Seq(Letters)
    BY <1>1, RedactType
  <1> QED
    BY <1>2, StripType DEF Visible

LEMMA MaxOfTwo ==
  ASSUME NEW a \in Int, NEW b \in Int
  PROVE  Max({a, b}) = IF a >= b THEN a ELSE b
  <1>1. CASE a >= b
    <2>1. a \in {a, b} /\ \A y \in {a, b} : a >= y
      BY <1>1
    <2>2. ASSUME NEW x \in {a, b}, \A y \in {a, b} : x >= y PROVE x = a
      BY <1>1, <2>2
    <2> QED
      BY <1>1, <2>1, <2>2 DEF Max
  <1>2. CASE b > a
    <2>1. b \in {a, b} /\ \A y \in {a, b} : b >= y
      BY <1>2
    <2>2. ASSUME NEW x \in {a, b}, \A y \in {a, b} : x >= y PROVE x = b
      BY <1>2, <2>2
    <2> QED
      BY <1>2, <2>1, <2>2 DEF Max
  <1> QED
    BY <1>1, <1>2

\* What may be streamed is some of what is visible.
LEMMA StreamableType ==
  ASSUME NEW text \in Seq(Letters)
  PROVE  Streamable(text) \in 0 .. Len(Visible(text))
  <1>1. Len(Visible(text)) \in Nat /\ Len(Marker) \in Nat
    BY VisibleType, TextsAssumption
  <1>2. Max({0, Len(Visible(text)) - Len(Marker)})
           = IF 0 >= Len(Visible(text)) - Len(Marker) THEN 0
             ELSE Len(Visible(text)) - Len(Marker)
    BY <1>1, MaxOfTwo
  <1> QED
    BY <1>1, <1>2 DEF Streamable

-----------------------------------------------------------------------------
(* The answer.                                                             *)

\* Every step of the answer is a step of ChatTools, or none.
LEMMA AnswerStepIsToolStep ==
  ASSUME [AnswerNext]_<<vars, answerVars>>
  PROVE  [Next]_vars
  BY DEF AnswerNext, AnswerStep, ToolsRun, Next, Refuse, Begin, Delta, EndStream,
         FailStream, Disconnect, Break, WriteLog, Place, Deliver, StartTools,
         ToolsRan, BundleRan, Fill, Finish, RetryDeletes

\* The answer with its tools implements the tools alone: what is proved of the
\* requests above is true of them while an answer asks for them.
THEOREM AnswerImplementsTools == AnswerSpec => Spec
  <1>1. AnswerInit => Init
    BY DEF AnswerInit
  <1> QED
    BY <1>1, AnswerStepIsToolStep, PTL DEF AnswerSpec, Spec

-----------------------------------------------------------------------------
(* The jobs of the tools are those that AgentJobs promises.                *)

\* A press that is about to create its job has none yet, and neither has the
\* request that the stream is about to start: that Job!Open asks for it forbids
\* them nothing.
OpensNew ==
    /\ \A b \in Buttons : button[b].stage = "approving" => phase[b] = "absent"
    /\ live.stage = "approving" => phase[live.on] = "absent"

\* Inductive: a press opens its job once, on its way from the reading.
Unopened ==
    \A b \in Buttons : button[b].stage \in {"idle", "approving"} => phase[b] = "absent"

LEMMA UnopenedStep == Inv /\ Unopened /\ [Next]_vars => Unopened'
  <1> SUFFICES ASSUME Inv, Unopened, [Next]_vars, NEW b \in Buttons,
                      button'[b].stage \in {"idle", "approving"}
               PROVE  phase'[b] = "absent"
    BY DEF Unopened
  <1> USE DEF Inv, TypeOK, Press
  <1>1. b \in Jobs
    BY DEF Jobs
  <1>2. ASSUME NEW c \in Buttons, ButtonStep(c), ~ ButtonOpens(c)
        PROVE  phase'[b] = "absent"
    <2>1. phase' = phase /\ button[b].stage \in {"idle", "approving"}
      BY <1>2 DEF ButtonStep, PressButton, ButtonDenied, ButtonLinks, ButtonRejects,
                  ButtonStops
    <2> QED
      BY <2>1 DEF Unopened
  <1>3. ASSUME NEW c \in Buttons, ButtonOpens(c) PROVE phase'[b] = "absent"
    <2>1. c # b /\ button[b].stage \in {"idle", "approving"}
      BY <1>3 DEF ButtonOpens
    <2> QED
      BY <1>1, <1>3, <2>1 DEF ButtonOpens, Job!Open, Unopened
  <1>4. CASE LiveOpens
    <2>1. live.on # b /\ button' = button
      BY <1>4, NamesAssumption DEF LiveOpens, LiveRight, AtWork
    <2> QED
      BY <1>1, <1>4, <2>1 DEF LiveOpens, Job!Open, Unopened
  <1>5. ASSUME NEW j \in Jobs, Discard(j) \/ Submit(j) PROVE phase'[b] = "absent"
    <2>1. phase[b] = "absent" /\ phase[j] = "open"
      BY <1>5 DEF Discard, Submit, Job!Discard, Job!Settle, Unopened
    <2> QED
      BY <1>1, <1>5, <2>1 DEF Discard, Submit, Job!Discard, Job!Settle
  <1>6. CASE UNCHANGED <<button, phase>>
    BY <1>6 DEF Unopened
  <1> QED
    BY <1>2, <1>3, <1>4, <1>5, <1>6
       DEF Next, Others, JobStep, LiveStep, LiveDies, RequestByHand, NoteLinks, RollBack,
           Propose, LiveLinks, LiveDenied, LiveRefused, SeeEnd, GiveUp, SaveOutcome,
           FindMessage, SaveMessage, LiveEnds, vars

LEMMA LifecycleStep ==
  ASSUME Inv, [Next]_vars
  PROVE  [Job!LifecycleNext]_(Job!lifecycleVars)
  <1>1. ASSUME NEW b \in Buttons, ButtonOpens(b) PROVE Job!LifecycleNext
    BY <1>1 DEF ButtonOpens, Jobs, Job!LifecycleNext
  <1>2. CASE LiveOpens
    <2>1. live.on \in Jobs
      BY <1>2 DEF LiveOpens, Inv, LiveRight, AtWork, Jobs
    <2> QED
      BY <1>2, <2>1 DEF LiveOpens, Job!LifecycleNext
  <1>3. ASSUME NEW j \in Jobs, Discard(j) \/ Submit(j) PROVE Job!LifecycleNext
    BY <1>3 DEF Discard, Submit, Job!LifecycleNext
  <1>4. CASE UNCHANGED <<phase, run>>
    BY <1>4 DEF Job!lifecycleVars
  <1> QED
    BY <1>1, <1>2, <1>3, <1>4, StepJobs DEF vars

\* The chat does nothing with its jobs but what AgentJobs was shown to do with
\* them (LifecycleImplemented), neither alone nor while an answer is streamed, and
\* neither a press nor a proposal opens a job twice.
THEOREM JobsKept ==
    /\ Spec => Job!LifecycleSpec /\ []OpensNew
    /\ AnswerSpec => Job!LifecycleSpec /\ []OpensNew
  <1>1. Init => Job!LifecycleInit
    BY DEF Init
  <1>2. Init => Unopened
    BY DEF Init, Unopened, Job!LifecycleInit, Jobs
  <1>3. Inv /\ Unopened => OpensNew
    BY DEF Inv, LiveRight, Unopened, OpensNew
  <1>4. Spec => Job!LifecycleSpec
    BY <1>1, LifecycleStep, ToolsInv, PTL DEF Spec, Job!LifecycleSpec
  <1>5. Spec => []OpensNew
    BY <1>2, <1>3, UnopenedStep, ToolsInv, PTL DEF Spec
  <1> QED
    BY <1>4, <1>5, AnswerImplementsTools

-----------------------------------------------------------------------------

LEMMA LettersOfTexts ==
  ASSUME NEW text \in Texts
  PROVE  text \in Seq(Letters)
  <1>1. Range(text) \subseteq Letters
    BY DEF Letters
  <1> QED
    BY <1>1, TextsAssumption

LEMMA SafeErrorType == SafeError \in Seq(Letters)
  BY DEF SafeError, Letters, Range

LEMMA FinalType ==
  ASSUME AnswerTypeOK
  PROVE  Final \in Seq(Letters)
  <1>1. answer.output \in Seq(Letters)
    BY DEF AnswerTypeOK
  <1> QED
    BY <1>1, SafeErrorType, VisibleType DEF Final

LEMMA AnswerInitInv == AnswerInit => AnswerInv
  <1> SUFFICES ASSUME AnswerInit PROVE AnswerInv
    OBVIOUS
  <1> USE DEF AnswerInit, Asked
  <1>1. AnswerTypeOK
    BY DEF AnswerTypeOK, NoRow, Stages, Modes, Logs
  <1>2. TextRight /\ LogRight /\ StartedRight /\ AnswerStands
    BY DEF TextRight, LogRight, StartedRight, AnswerStands
  <1>3. RowRight
    BY DEF RowRight, NoRow
  <1> QED
    BY <1>1, <1>2, <1>3 DEF AnswerInv

\* A job that was started stays started.
LEMMA StartedStays ==
  ASSUME Inv, [Next]_vars, \E r \in Requests : phase[r] # "absent"
  PROVE  \E r \in Requests : phase'[r] # "absent"
  <1>1. PICK r \in Requests : phase[r] # "absent"
    OBVIOUS
  <1>2. CASE Next
    BY <1>1, <1>2, StepJobsPersist DEF JobsPersist, Jobs
  <1>3. CASE UNCHANGED vars
    BY <1>1, <1>3 DEF vars
  <1> QED
    BY <1>2, <1>3

\* The steps of the tools leave the answer as it is.
LEMMA OthersKeepAnswer ==
  ASSUME Inv, AnswerInv, [Next]_vars, UNCHANGED answerVars
  PROVE  AnswerInv'
  <1> USE DEF answerVars, AnswerInv
  <1>1. AnswerTypeOK' /\ TextRight' /\ LogRight'
    BY DEF AnswerTypeOK, TextRight, LogRight
  <1>2. Final' = Final /\ (ToolsFirst' <=> ToolsFirst)
    BY DEF Final, ToolsFirst
  <1>3. RowRight'
    BY <1>2 DEF RowRight, RowKept, RowStands
  <1>4. StartedRight'
    BY StartedStays DEF StartedRight
  <1>5. AnswerStands'
    BY <1>2, StartedStays DEF AnswerStands
  <1> QED
    BY <1>1, <1>3, <1>4, <1>5

\* Steps up to the end of the stream.
LEMMA StreamKeepsInv ==
  ASSUME AnswerInv,
         Refuse \/ Begin \/ Delta \/ EndStream \/ FailStream \/ Disconnect
  PROVE  AnswerInv'
  <1> USE DEF AnswerInv
  <1>1. CASE Refuse \/ Disconnect
    <2>1. /\ answer'.stage = "gone" /\ answer'.log \in {"denied", "failed"}
          /\ answer'.outcome = "none" /\ answer'.started = answer.started
          /\ answer'.mode = answer.mode
          /\ UNCHANGED <<row, vars>>
      <3>1. answer.stage \in {"asked", "streaming"} /\ answer.outcome = "none"
        BY <1>1 DEF Refuse, Disconnect, TextRight
      <3>2. PICK log \in {"denied", "failed"} :
              answer' = [answer EXCEPT !.stage = "gone", !.log = log]
        BY <1>1 DEF Refuse, Disconnect
      <3>3. UNCHANGED <<row, vars>>
        BY <1>1 DEF Refuse, Disconnect
      <3> QED
        BY <3>1, <3>2, <3>3 DEF AnswerTypeOK
    <2>2. AnswerTypeOK'
      <3>1. PICK log \in Logs : answer' = [answer EXCEPT !.stage = "gone", !.log = log]
        BY <1>1 DEF Refuse, Disconnect, Logs
      <3>2. UNCHANGED row
        BY <1>1 DEF Refuse, Disconnect
      <3> QED
        BY <3>1, <3>2 DEF AnswerTypeOK, Stages
    <2> QED
      BY <2>1, <2>2
      DEF TextRight, LogRight, RowRight, StartedRight, AnswerStands, vars
  <1>2. CASE Begin
    <2>1. PICK mode \in Modes, text \in Texts :
             answer' = [answer EXCEPT !.stage = "streaming", !.mode = mode, !.text = text]
      BY <1>2 DEF Begin
    <2>2. answer = Asked /\ ~row.there /\ UNCHANGED row
      BY <1>2 DEF Begin, TextRight, RowRight
    <2>3. answer' = [Asked EXCEPT !.stage = "streaming", !.mode = mode, !.text = text]
      BY <2>1, <2>2
    <2>4. Len(text) \in Nat
      BY TextsAssumption
    <2>7. AnswerTypeOK'
      BY <2>2, <2>3 DEF AnswerTypeOK, Asked, Stages, Logs
    <2>8. TextRight' /\ LogRight' /\ StartedRight'
      BY <2>3, <2>4 DEF Asked, TextRight, LogRight, StartedRight
    <2>9. RowRight' /\ AnswerStands'
      BY <2>2, <2>3 DEF Asked, RowRight, AnswerStands
    <2> QED
      BY <2>7, <2>8, <2>9
  <1>3. CASE Delta
    <2> DEFINE Part(got)   == SubSeq(answer.text, answer.got + 1, got)
               Come(got)   == answer.output \o Redact(Part(got))
    <2>0. PICK got \in (answer.got + 1) .. Len(answer.text) :
             answer' = [answer EXCEPT
                  !.got = got, !.output = Come(got), !.sent = Streamable(Come(got)),
                  !.shown = IF answer.mode = "plain"
                            THEN @ \o SubSeq(Visible(Come(got)), answer.sent + 1,
                                             Streamable(Come(got)))
                            ELSE @]
      BY <1>3 DEF Delta
    <2>1. PICK output : output = Come(got)
      OBVIOUS
    <2>1a. PICK sent : sent = Streamable(output)
      OBVIOUS
    <2>1b. answer' = [answer EXCEPT
                  !.got = got, !.output = output, !.sent = sent,
                  !.shown = IF answer.mode = "plain"
                            THEN answer.shown \o SubSeq(Visible(output), answer.sent + 1, sent)
                            ELSE answer.shown]
      BY <2>0, <2>1, <2>1a
    <2> HIDE DEF Come
    <2>2. PICK text \in Texts : text = answer.text
      BY <1>3 DEF Delta, TextRight
    <2>3. /\ answer.stage = "streaming" /\ answer.outcome = "none"
          /\ answer.log = "pending" /\ ~row.there /\ UNCHANGED <<row, vars>>
      BY <1>3 DEF Delta, TextRight, LogRight, RowRight
    <2>4. /\ Len(text) \in Nat /\ answer.got \in 0 .. Len(text)
          /\ got \in 0 .. Len(text) /\ answer.got + 1 \in Nat \ {0}
      BY <2>0, <2>2, <2>3, TextsAssumption DEF TextRight
    <2>5. output \in Seq(Letters)
      <3>1. SubSeq(text, answer.got + 1, got) \in Seq(Letters)
        BY <2>4, LettersOfTexts, PartType
      <3>2. Redact(SubSeq(text, answer.got + 1, got)) \in Seq(Letters)
        BY <3>1, RedactType
      <3>3. answer.output \in Seq(Letters)
        BY DEF AnswerTypeOK
      <3> QED
        BY <2>1, <2>2, <3>2, <3>3 DEF Come
    <2>6. sent \in 0 .. Len(Visible(output)) /\ Visible(output) \in Seq(Letters)
      BY <2>1a, <2>5, StreamableType, VisibleType
    <2>7. PICK shown \in Seq(Letters) :
             shown = IF answer.mode = "plain"
                     THEN answer.shown \o SubSeq(Visible(output), answer.sent + 1, sent)
                     ELSE answer.shown
      <3>1. answer.sent + 1 \in Nat \ {0} /\ answer.shown \in Seq(Letters)
        BY DEF AnswerTypeOK
      <3>2. SubSeq(Visible(output), answer.sent + 1, sent) \in Seq(Letters)
        BY <2>6, <3>1, PartType
      <3>3. answer.shown \o SubSeq(Visible(output), answer.sent + 1, sent) \in Seq(Letters)
        BY <3>1, <3>2
      <3>4. CASE answer.mode = "plain"
        BY <3>3, <3>4
      <3>5. CASE answer.mode # "plain"
        BY <3>1, <3>5
      <3> QED
        BY <3>4, <3>5
    <2>8. answer' = [answer EXCEPT !.got = got, !.output = output, !.sent = sent,
                                   !.shown = shown]
      BY <2>1b, <2>7
    <2>9. AnswerTypeOK'
      <3>1. got \in Nat /\ sent \in Nat
        BY <2>4, <2>6
      <3> QED
        BY <2>3, <2>5, <2>8, <3>1 DEF AnswerTypeOK
    <2>10. /\ answer'.stage = "streaming" /\ answer'.outcome = "none"
           /\ answer'.log = "pending" /\ answer'.text = text /\ answer'.got = got
           /\ answer'.mode = answer.mode /\ answer'.started = answer.started
      BY <2>2, <2>3, <2>8 DEF AnswerTypeOK
    <2>11. TextRight' /\ LogRight' /\ RowRight' /\ StartedRight' /\ AnswerStands'
      BY <2>3, <2>4, <2>10
      DEF TextRight, LogRight, RowRight, StartedRight, AnswerStands, vars
    <2> QED
      BY <2>9, <2>11
  <1>4. CASE EndStream
    <2>1. PICK text \in Texts : text = answer.text
      BY <1>4 DEF EndStream, TextRight
    <2>2. /\ answer.stage = "streaming" /\ answer.log = "pending"
          /\ ~row.there /\ UNCHANGED <<row, vars>>
      BY <1>4 DEF EndStream, LogRight, RowRight
    <2>3. /\ answer'.stage = "answered" /\ answer'.outcome = "completed"
          /\ answer'.text = text /\ answer'.got = answer.got
          /\ answer'.log = "pending"
          /\ answer'.mode = answer.mode /\ answer'.started = answer.started
      BY <1>4, <2>1, <2>2 DEF EndStream, AnswerTypeOK
    <2>4. Len(text) \in Nat /\ answer.got \in 0 .. Len(text)
      BY <2>1, <2>2, TextsAssumption DEF TextRight
    <2>5. AnswerTypeOK'
      BY <1>4 DEF EndStream, AnswerTypeOK, Stages
    <2>9. TextRight' /\ LogRight' /\ RowRight' /\ StartedRight' /\ AnswerStands'
      BY <2>2, <2>3, <2>4
      DEF TextRight, LogRight, RowRight, StartedRight, AnswerStands, vars
    <2> QED
      BY <2>5, <2>9
  <1>5. CASE FailStream
    <2>1. /\ answer.log = "pending" /\ ~row.there /\ UNCHANGED <<row, vars>>
      BY <1>5 DEF FailStream, LogRight, RowRight
    <2>2. /\ answer'.stage = "answered" /\ answer'.outcome = "failed"
          /\ answer'.log = "pending" /\ answer'.mode = answer.mode
          /\ answer'.started = answer.started
      BY <1>5, <2>1 DEF FailStream, AnswerTypeOK
    <2>3. AnswerTypeOK'
      <3>1. answer.shown \o SafeError \in Seq(Letters)
        BY SafeErrorType DEF AnswerTypeOK
      <3> QED
        BY <1>5, <3>1 DEF FailStream, AnswerTypeOK, Stages
    <2> QED
      BY <2>1, <2>2, <2>3
      DEF TextRight, LogRight, RowRight, StartedRight, AnswerStands, vars
  <1> QED
    BY <1>1, <1>2, <1>3, <1>4, <1>5

\* The answer's text and outcome stand once the stream has ended.
LEMMA SameFinal ==
  ASSUME answer'.output = answer.output, answer'.outcome = answer.outcome
  PROVE  Final' = Final
  BY DEF Final

\* Steps that change the stage, the log and what was started only.
LEMMA StageKeepsInv ==
  ASSUME AnswerInv, NEW stage \in Stages, NEW log \in Logs, NEW started \in BOOLEAN,
         answer' = [answer EXCEPT !.stage = stage, !.log = log, !.started = started],
         answer.stage \notin {"asked", "streaming", "done", "gone"},
         stage \notin {"asked", "streaming", "answered"},
         log = "succeeded" => answer.outcome = "completed",
         RowRight', StartedRight', AnswerStands',
         row' \in [there : BOOLEAN, text : Seq(Letters), suppressed : BOOLEAN]
  PROVE  AnswerInv'
  <1> USE DEF AnswerInv
  <1>1. /\ answer'.stage = stage /\ answer'.log = log /\ answer'.started = started
        /\ answer'.mode = answer.mode /\ answer'.text = answer.text
        /\ answer'.got = answer.got /\ answer'.shown = answer.shown
        /\ answer'.outcome = answer.outcome
    BY DEF AnswerTypeOK
  <1>2. AnswerTypeOK'
    BY DEF AnswerTypeOK
  <1>3. TextRight' /\ LogRight'
    BY <1>1 DEF TextRight, LogRight
  <1> QED
    BY <1>2, <1>3

\* The same when the log is left alone.
LEMMA StageOnlyKeepsInv ==
  ASSUME AnswerInv, NEW stage \in Stages, NEW started \in BOOLEAN,
         answer' = [answer EXCEPT !.stage = stage, !.started = started],
         answer.stage \notin {"asked", "streaming", "done", "gone"},
         stage \notin {"asked", "streaming", "answered"},
         RowRight', StartedRight', AnswerStands',
         row' \in [there : BOOLEAN, text : Seq(Letters), suppressed : BOOLEAN]
  PROVE  AnswerInv'
  <1>1. AnswerTypeOK /\ LogRight
    BY DEF AnswerInv
  <1>2. answer.log \in Logs /\ (answer.log = "succeeded" => answer.outcome = "completed")
    BY <1>1 DEF AnswerTypeOK, LogRight
  <1>3. PICK log \in Logs : log = answer.log
    BY <1>2
  <1>4. answer' = [answer EXCEPT !.stage = stage, !.log = log, !.started = started]
    BY <1>1, <1>3 DEF AnswerTypeOK
  <1> QED
    BY <1>2, <1>3, <1>4, StageKeepsInv

\* What was started is a Boolean, as is kept by an assignment to the stage alone.
LEMMA StartedKept ==
  ASSUME AnswerInv, NEW stage, answer' = [answer EXCEPT !.stage = stage]
  PROVE  \E started \in BOOLEAN :
           answer' = [answer EXCEPT !.stage = stage, !.started = started]
  <1>1. AnswerTypeOK
    BY DEF AnswerInv
  <1>2. answer.started \in BOOLEAN
    BY <1>1 DEF AnswerTypeOK
  <1>3. answer' = [answer EXCEPT !.stage = stage, !.started = answer.started]
    BY <1>1 DEF AnswerTypeOK
  <1> QED
    BY <1>2, <1>3

\* The process that answers dies.
LEMMA BreakKeepsInv ==
  ASSUME Inv, AnswerInv, [Next]_vars, Break
  PROVE  AnswerInv'
  <1> USE DEF AnswerInv
  <1>1. PICK s \in {answer.log, "failed"} :
           answer' = [answer EXCEPT !.stage = "gone", !.log = s]
    BY DEF Break
  <1>2. /\ answer'.stage = "gone" /\ answer'.log = s
        /\ answer'.mode = answer.mode /\ answer'.text = answer.text
        /\ answer'.got = answer.got /\ answer'.shown = answer.shown
        /\ answer'.outcome = answer.outcome /\ answer'.started = answer.started
        /\ UNCHANGED row
    BY <1>1 DEF AnswerTypeOK, Break
  <1>3. AnswerTypeOK'
    BY <1>1, <1>2 DEF AnswerTypeOK, Stages, Logs
  <1>4. TextRight' /\ LogRight'
    BY <1>2 DEF TextRight, LogRight
  <1>5. RowRight' /\ AnswerStands'
    BY <1>2 DEF RowRight, AnswerStands
  <1>6. StartedRight'
    BY <1>2, StartedStays DEF StartedRight
  <1> QED
    BY <1>3, <1>4, <1>5, <1>6

\* The steps up to the tools.
LEMMA RowKeepsInv ==
  ASSUME AnswerInv, WriteLog \/ Place \/ Deliver \/ StartTools
  PROVE  AnswerInv'
  <1> USE DEF AnswerInv
  <1>0. /\ UNCHANGED vars
        /\ answer.stage \notin {"asked", "streaming", "done", "gone"}
    BY DEF WriteLog, Place, Deliver, StartTools
  <1>1. CASE WriteLog
    <2>1. PICK log \in Logs :
             /\ answer' = [answer EXCEPT !.stage = "logged", !.log = log]
             /\ log = "succeeded" => answer.outcome = "completed"
      BY <1>1 DEF WriteLog, Logs
    <2>2. /\ answer.stage = "answered" /\ UNCHANGED row /\ ~row.there
      BY <1>1 DEF WriteLog, RowRight
    <2>3. answer' = [answer EXCEPT !.stage = "logged", !.log = log,
                                   !.started = answer.started]
      BY <2>1 DEF AnswerTypeOK
    <2>4. /\ answer'.stage = "logged" /\ answer'.mode = answer.mode
          /\ answer'.started = answer.started
      BY <2>1 DEF AnswerTypeOK
    <2>5. RowRight' /\ StartedRight' /\ AnswerStands'
      BY <1>0, <2>2, <2>4 DEF RowRight, StartedRight, AnswerStands, vars
    <2> QED
      BY <1>0, <2>1, <2>2, <2>3, <2>5, StageKeepsInv DEF AnswerTypeOK, Stages
  <1>2. ASSUME NEW stage \in {"placed", "delivered", "executing", "done"},
               answer' = [answer EXCEPT !.stage = stage],
               row' \in [there : BOOLEAN, text : Seq(Letters), suppressed : BOOLEAN],
               RowRight', AnswerStands'
        PROVE  AnswerInv'
    <2>1. PICK started \in BOOLEAN :
             answer' = [answer EXCEPT !.stage = stage, !.started = started]
      BY <1>2, StartedKept
    <2>4. stage \in Stages /\ stage \notin {"asked", "streaming", "answered"}
      BY DEF Stages
    <2>2. answer'.mode = answer.mode /\ answer'.started = answer.started
      BY <1>2 DEF AnswerTypeOK
    <2>3. StartedRight'
      BY <1>0, <2>2 DEF StartedRight, vars
    <2> QED
      BY <1>0, <1>2, <2>1, <2>3, <2>4, StageOnlyKeepsInv
  <1>3. CASE Place
    <2>1. /\ answer' = [answer EXCEPT !.stage = "placed"] /\ ToolsFirst
          /\ row' = [there |-> TRUE, text |-> <<>>, suppressed |-> TRUE]
      BY <1>3 DEF Place, RowRight
    <2>2. /\ answer'.stage = "placed" /\ answer'.mode = answer.mode
          /\ answer'.outcome = answer.outcome
      BY <2>1 DEF AnswerTypeOK
    <2>3. RowRight' /\ AnswerStands'
      BY <2>1, <2>2 DEF RowRight, AnswerStands, ToolsFirst, RowKept
    <2>4. row' \in [there : BOOLEAN, text : Seq(Letters), suppressed : BOOLEAN]
      BY <2>1
    <2> QED
      BY <1>2, <2>1, <2>3, <2>4
  <1>4. CASE Deliver
    <2>1. PICK stage \in {"delivered", "done"} :
             /\ answer' = [answer EXCEPT !.stage = stage]
             /\ stage = "delivered" => answer.outcome = "completed"
      BY <1>4 DEF Deliver
    <2>2. /\ row' = [there |-> TRUE, text |-> Final, suppressed |-> FALSE]
          /\ ~ToolsFirst
      BY <1>4 DEF Deliver, Stored, RowRight
    <2>3. Final \in Seq(Letters)
      BY <1>0, FinalType
    <2>4. /\ answer'.stage = stage /\ answer'.mode = answer.mode
          /\ answer'.text = answer.text /\ answer'.got = answer.got
          /\ answer'.output = answer.output
          /\ answer'.outcome = answer.outcome
      BY <2>1 DEF AnswerTypeOK
    <2>5. Final' = Final
      BY <2>4, SameFinal
    <2>6. stage = "delivered" => answer.mode = "plain"
      BY <2>1, <2>2 DEF ToolsFirst, AnswerTypeOK, Modes
    <2>7. row'.there /\ row'.text = Final'
      BY <2>2, <2>5
    <2>8. RowRight' /\ AnswerStands'
      BY <2>4, <2>6, <2>7 DEF RowRight, RowStands, AnswerStands
    <2>9. row' \in [there : BOOLEAN, text : Seq(Letters), suppressed : BOOLEAN]
      BY <2>2, <2>3
    <2> QED
      BY <1>2, <2>1, <2>8, <2>9
  <1>5. CASE StartTools
    <2>1. /\ answer' = [answer EXCEPT !.stage = "executing"] /\ UNCHANGED row
          /\ \/ answer.mode = "direct" /\ RowKept
             \/ answer.mode = "plain" /\ RowStands
      BY <1>5 DEF StartTools, RowRight
    <2>2. /\ answer'.stage = "executing" /\ answer'.mode = answer.mode
          /\ answer'.text = answer.text /\ answer'.got = answer.got
          /\ answer'.output = answer.output
          /\ answer'.outcome = answer.outcome
      BY <2>1 DEF AnswerTypeOK
    <2>3. Final' = Final
      BY <2>2, SameFinal
    <2>4. RowRight' /\ AnswerStands'
      BY <2>1, <2>2, <2>3 DEF RowRight, RowKept, RowStands, AnswerStands
    <2>5. row' \in [there : BOOLEAN, text : Seq(Letters), suppressed : BOOLEAN]
      BY <2>1 DEF AnswerTypeOK
    <2> QED
      BY <1>2, <2>1, <2>4, <2>5
  <1> QED
    BY <1>1, <1>3, <1>4, <1>5

\* The steps from the tools on.
LEMMA EndKeepsInv ==
  ASSUME AnswerInv, ToolsRan \/ BundleRan \/ Fill \/ Finish \/ RetryDeletes
  PROVE  AnswerInv'
  <1> USE DEF AnswerInv
  <1>0. UNCHANGED vars
    BY DEF ToolsRan, BundleRan, Fill, Finish, RetryDeletes
  <1>1. CASE ToolsRan
    <2>1. PICK stage \in {"ran", "done"}, started \in BOOLEAN :
             /\ answer' = [answer EXCEPT !.stage = stage, !.started = started]
             /\ IF answer.mode = "direct"
                THEN stage = "ran" /\ (started => \E r \in Requests : phase[r] # "absent")
                ELSE stage = "done" /\ started = answer.started
      <3>1. CASE answer.mode = "direct"
        BY <1>1, <3>1 DEF ToolsRan, Started
      <3>2. CASE answer.mode # "direct"
        <4>1. answer' = [answer EXCEPT !.stage = "done", !.started = answer.started]
          BY <1>1, <3>2 DEF ToolsRan, AnswerTypeOK
        <4> QED
          BY <3>2, <4>1 DEF AnswerTypeOK
      <3> QED
        BY <3>1, <3>2
    <2>2. /\ answer.stage = "executing" /\ UNCHANGED row
          /\ \/ answer.mode = "direct" /\ RowKept
             \/ answer.mode = "plain" /\ RowStands
      BY <1>1 DEF ToolsRan, RowRight
    <2>3. /\ answer'.stage = stage /\ answer'.mode = answer.mode
          /\ answer'.text = answer.text /\ answer'.got = answer.got
          /\ answer'.output = answer.output
          /\ answer'.outcome = answer.outcome /\ answer'.started = started
      BY <2>1 DEF AnswerTypeOK
    <2>4. Final' = Final
      BY <2>3, SameFinal
    <2>5. RowRight' /\ AnswerStands'
      BY <2>1, <2>2, <2>3, <2>4 DEF RowRight, RowKept, RowStands, AnswerStands
    <2>6. StartedRight'
      BY <1>0, <2>1, <2>3 DEF StartedRight, vars
    <2>7. /\ stage \in Stages /\ stage \notin {"asked", "streaming", "answered"}
          /\ row' \in [there : BOOLEAN, text : Seq(Letters), suppressed : BOOLEAN]
      BY <2>1, <2>2 DEF Stages, AnswerTypeOK
    <2> QED
      BY <2>1, <2>2, <2>5, <2>6, <2>7, StageOnlyKeepsInv
  <1>2. CASE BundleRan
    <2>1. PICK started \in BOOLEAN :
             answer' = [answer EXCEPT !.stage = "ran", !.started = started]
      BY <1>2 DEF BundleRan
    <2>2. answer.stage = "placed" /\ answer.mode = "bundle" /\ UNCHANGED row /\ RowKept
      BY <1>2 DEF BundleRan, RowRight
    <2>3. answer'.stage = "ran" /\ answer'.mode = "bundle"
      BY <2>1, <2>2 DEF AnswerTypeOK
    <2>4. RowRight' /\ AnswerStands' /\ StartedRight'
      BY <2>2, <2>3 DEF RowRight, RowKept, AnswerStands, StartedRight
    <2>5. /\ "ran" \in Stages
          /\ row' \in [there : BOOLEAN, text : Seq(Letters), suppressed : BOOLEAN]
      BY <2>2 DEF Stages, AnswerTypeOK
    <2> QED
      BY <2>1, <2>2, <2>4, <2>5, StageOnlyKeepsInv
  <1>3. CASE Fill
    <2>1. /\ answer.stage = "ran" /\ answer' = [answer EXCEPT !.stage = "filled"]
          /\ answer.mode # "plain" /\ RowKept
      BY <1>3 DEF Fill, RowRight
    <2>2. /\ answer'.stage = "filled" /\ answer'.mode = answer.mode
          /\ answer'.text = answer.text /\ answer'.got = answer.got
          /\ answer'.output = answer.output
          /\ answer'.outcome = answer.outcome /\ answer'.started = answer.started
      BY <2>1 DEF AnswerTypeOK
    <2>3. Final' = Final /\ Final \in Seq(Letters)
      BY <2>1, <2>2, SameFinal, FinalType
    <2>4. /\ row' \in [there : BOOLEAN, text : Seq(Letters), suppressed : BOOLEAN]
          /\ IF answer.started THEN row' = row ELSE row'.there /\ row'.text = Final
      <3>1. CASE answer.started
        BY <1>3, <3>1 DEF Fill, AnswerTypeOK
      <3>2. CASE ~answer.started
        <4>1. row' = [row EXCEPT !.text = Final, !.suppressed = FALSE]
          BY <1>3, <2>1, <3>2 DEF Fill, RowKept
        <4>2. row' = [there |-> row.there, text |-> Final, suppressed |-> FALSE]
          BY <4>1 DEF AnswerTypeOK
        <4> QED
          BY <2>1, <2>3, <3>2, <4>2 DEF RowKept, AnswerTypeOK
      <3> QED
        BY <3>1, <3>2
    <2>5. RowRight' /\ AnswerStands'
      BY <2>1, <2>2, <2>3, <2>4 DEF RowRight, RowKept, RowStands, AnswerStands
    <2>6. StartedRight'
      BY <1>0, <2>2 DEF StartedRight, vars
    <2>7. PICK started \in BOOLEAN :
             answer' = [answer EXCEPT !.stage = "filled", !.started = started]
      BY <2>1, StartedKept
    <2>8. "filled" \in Stages
      BY DEF Stages
    <2> QED
      BY <2>1, <2>4, <2>5, <2>6, <2>7, <2>8, StageOnlyKeepsInv
  <1>4. CASE Finish
    <2>1. PICK text : /\ text = IF answer.started THEN <<>> ELSE Final
                      /\ answer' = [answer EXCEPT !.stage = "done",
                                                  !.shown = answer.shown \o text]
                      /\ row' = Stored(text)
      BY <1>4 DEF Finish
    <2>2. /\ answer.stage = "filled" /\ answer.mode # "plain"
          /\ IF answer.started THEN RowKept ELSE RowStands
      BY <1>4 DEF Finish, RowRight
    <2>3. Final \in Seq(Letters)
      BY <2>2, FinalType
    <2>4. /\ answer'.stage = "done" /\ answer'.mode = answer.mode
          /\ answer'.text = answer.text /\ answer'.got = answer.got
          /\ answer'.output = answer.output
          /\ answer'.outcome = answer.outcome /\ answer'.started = answer.started
          /\ answer'.log = answer.log /\ answer'.shown = answer.shown \o text
      BY <2>1 DEF AnswerTypeOK
    <2>5. Final' = Final
      BY <2>4, SameFinal
    <2>6. text \in Seq(Letters) /\ answer.shown \o text \in Seq(Letters)
      BY <2>1, <2>3 DEF AnswerTypeOK
    <2>7. row' \in [there : BOOLEAN, text : Seq(Letters), suppressed : BOOLEAN]
      BY <2>1, <2>6 DEF Stored, AnswerTypeOK
    <2>8. AnswerTypeOK'
      BY <2>1, <2>6, <2>7 DEF AnswerTypeOK, Stages
    <2>9. TextRight' /\ LogRight' /\ RowRight'
      BY <2>2, <2>4 DEF TextRight, LogRight, RowRight
    <2>10. StartedRight'
      BY <1>0, <2>4 DEF StartedRight, vars
    <2>13. AnswerStands'
      <3>1. CASE answer.started
        <4>1. answer.mode = "direct" => \E r \in Requests : phase'[r] # "absent"
          BY <1>0, <3>1 DEF StartedRight, vars
        <4>2. answer.mode \in {"direct", "bundle"}
          BY <2>2 DEF AnswerTypeOK, Modes
        <4> QED
          BY <2>4, <3>1, <4>1, <4>2 DEF AnswerStands
      <3>2. CASE ~answer.started
        <4>1. Final = <<>> \/ (row'.there /\ row'.text = Final)
          BY <2>1, <2>2, <3>2 DEF RowStands, Stored
        <4> QED
          BY <2>5, <4>1 DEF AnswerStands
      <3> QED
        BY <3>1, <3>2
    <2> QED
      BY <2>8, <2>9, <2>10, <2>13
  <1>5. CASE RetryDeletes
    <2>1. /\ row.there /\ row.text = <<>> /\ ~row.suppressed
          /\ row' = NoRow /\ UNCHANGED answer
      BY <1>5 DEF RetryDeletes
    <2>2. Final' = Final /\ (ToolsFirst' <=> ToolsFirst)
      BY <2>1, SameFinal DEF ToolsFirst
    <2>3. AnswerTypeOK' /\ TextRight' /\ LogRight' /\ StartedRight'
      BY <1>0, <2>1, <2>2
      DEF AnswerTypeOK, TextRight, LogRight, StartedRight, NoRow, vars
    <2>4. RowRight'
      BY <2>1, <2>2 DEF RowRight, RowKept, RowStands, NoRow
    <2>5. AnswerStands'
      BY <1>0, <2>1, <2>2 DEF AnswerStands, vars
    <2> QED
      BY <2>3, <2>4, <2>5
  <1> QED
    BY <1>1, <1>2, <1>3, <1>4, <1>5

LEMMA AnswerInvStep ==
  ASSUME Inv, AnswerInv, [AnswerNext]_<<vars, answerVars>>
  PROVE  AnswerInv'
  <1>1. [Next]_vars
    BY AnswerStepIsToolStep
  <1>2. CASE UNCHANGED answerVars
    BY <1>1, <1>2, OthersKeepAnswer
  <1>3. CASE AnswerStep
    BY <1>1, <1>3, StreamKeepsInv, BreakKeepsInv, RowKeepsInv, EndKeepsInv DEF AnswerStep
  <1> QED
    BY <1>2, <1>3 DEF AnswerNext, ToolsRun

LEMMA AnswerAlways == AnswerSpec => []AnswerInv
  <1>1. AnswerSpec => []Inv
    BY AnswerImplementsTools, ToolsInv, PTL
  <1>2. AnswerInit => AnswerInv
    BY AnswerInitInv
  <1>3. Inv /\ AnswerInv /\ [AnswerNext]_<<vars, answerVars>> => AnswerInv'
    BY AnswerInvStep
  <1> QED
    BY <1>1, <1>2, <1>3, PTL DEF AnswerSpec

-----------------------------------------------------------------------------
(* Theorems of the answer (LiveAnswer).                                    *)

\* The answer and its row are well-typed: no text is cut or joined beyond the
\* letters that the provider may send.
THEOREM AnswerTypeCorrect == AnswerSpec => []AnswerTypeOK
  <1>1. AnswerInv => AnswerTypeOK
    BY DEF AnswerInv
  <1> QED
    BY <1>1, AnswerAlways, PTL

\* A request that is logged as a success has left the admin the answer's text,
\* or tools at work in its place.
THEOREM AnswerStandsHolds == AnswerSpec => []AnswerStands
  <1>1. AnswerInv => AnswerStands
    BY DEF AnswerInv
  <1> QED
    BY <1>1, AnswerAlways, PTL

=============================================================================
