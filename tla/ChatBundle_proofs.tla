------------------------- MODULE ChatBundle_proofs --------------------------
(***************************************************************************)
(* Proofs about ChatBundle, for all sets of tools and status pages.        *)
(*                                                                         *)
(* A summary is put together from what was read earlier.  It stays true    *)
(* because results do not change (Closed) and because a tool that the      *)
(* stream has skipped is never started (Books).  It is complete because    *)
(* the running message and the stream's own lists always cover the bundle. *)
(***************************************************************************)
EXTENDS ChatBundle, TLAPS

\* A line of a summary, once true, stays true.
Right(o) ==
    /\ o[2] = "failed" => run[o[1]] \in {"failed", "rejected"}
    /\ o[2] \in {"succeeded", "timeout"} => run[o[1]] = o[2]
    /\ o[2] = "skipped" => o[1] \in skipped

Closed == \A t \in Tools : run[t] \in Job!Results => phase[t] = "closed"

Untouched == stage = "idle" =>
    /\ skipped = {}
    /\ \A t \in Tools : request[t] = "absent" /\ phase[t] = "absent"
    /\ \A w \in Writers : writer[w].phase = "idle"

Starting == stage \in {"starting", "requested", "opened"}

Books ==
    /\ todo \cap skipped = {} /\ todo \cap linked = {}
    /\ \A t \in skipped : phase[t] = "absent"
    /\ \A t \in linked : request[t] # "absent"
    /\ \A t \in todo : phase[t] # "absent" =>
          stage \in {"opened", "done"} /\ request[t] = "suggested"
    /\ stage = "starting" => \A t \in Tools : request[t] # "suggested"
    /\ Starting => \A t, u \in Tools :
          request[t] = "suggested" =>
            t \in todo /\ (request[u] = "suggested" => u = t)
    /\ stage \notin {"idle", "done"} => todo \cup skipped \cup linked = Tools
    /\ stage \in {"polling", "late"} => todo = {} /\ running.skipped = skipped
    /\ stage # "idle" =>
          running.tools \cup running.skipped = Tools /\ running.skipped \subseteq skipped

WritersRight == \A w \in Writers :
    /\ writer[w].phase = "found" => writer[w].target <= Len(results)
    /\ \A o \in writer[w].outcomes : Right(o)
    /\ writer[w].phase \in {"ready", "found"} =>
          /\ Named(writer[w].outcomes) = Tools
          /\ Pending(writer[w].outcomes) => w = "stream" /\ stage = "late"

StreamRight ==
    /\ writer["stream"].phase # "idle" => stage \in {"polling", "late", "concluding"}
    /\ writer["stream"].phase = "requests" =>
          stage \in {"polling", "late"} /\ linked \subseteq Named(writer["stream"].outcomes)

Recorded == \A i \in DOMAIN results :
    Named(results[i]) = Tools /\ \A o \in results[i] : Right(o)

Inv == /\ TypeOK
       /\ Closed
       /\ Untouched
       /\ Books
       /\ WritersRight
       /\ StreamRight
       /\ Recorded

-----------------------------------------------------------------------------

LEMMA InitInv == Init => Inv
  <1> SUFFICES ASSUME Init PROVE Inv
    OBVIOUS
  <1>1. TypeOK
    BY DEF Init, TypeOK, Stages, RequestStatuses, Writer, IdleWriter, Has, Outcomes,
           Job!LifecycleInit, Job!Phases, Job!RunStatuses
  <1>2. Closed /\ Untouched
    BY DEF Init, Closed, Untouched, IdleWriter, Has, Job!LifecycleInit, Job!Results
  <1>3. Books
    BY DEF Init, Books, Starting
  <1>4. WritersRight /\ StreamRight
    BY DEF Init, WritersRight, StreamRight, IdleWriter, Has, Writers
  <1>5. Recorded
    BY DEF Init, Recorded
  <1> QED
    BY <1>1, <1>2, <1>3, <1>4, <1>5 DEF Inv

\* What is right stays right as long as results are kept and what is skipped
\* stays so.
LEMMA RightStays ==
  ASSUME NEW o \in Outcomes, Right(o), skipped \subseteq skipped',
         \A t \in Tools : run[t] \in Job!Results => run'[t] = run[t]
  PROVE  Right(o)'
  <1>1. o[1] \in Tools
    BY DEF Outcomes
  <1> QED
    BY <1>1 DEF Right, Job!Results

\* What the job's steps do to one job, and leave alone in the others.
LEMMA JobStep ==
  ASSUME Inv, NEW t \in Tools,
         Job!Open({t}) \/ Job!Discard(t) \/ \E s \in Job!Results : Job!Settle(t, s)
  PROVE  /\ phase' \in [Tools -> Job!Phases]
         /\ run' \in [Tools -> Job!RunStatuses]
         /\ \A u \in Tools \ {t} : phase'[u] = phase[u]
         /\ phase[t] = "absent" <=> Job!Open({t})
         /\ Closed'
         /\ \A u \in Tools : run[u] \in Job!Results => run'[u] = run[u]
  <1>1. CASE Job!Open({t})
    <2>1. /\ phase[t] = "absent"
          /\ phase' = [u \in Tools |-> IF u = t THEN "open" ELSE phase[u]]
          /\ run' = [u \in Tools |-> IF u = t THEN "queued" ELSE run[u]]
      BY <1>1 DEF Job!Open
    <2>2. run[t] \notin Job!Results
      BY <2>1 DEF Inv, Closed
    <2>3. "queued" \notin Job!Results
      BY DEF Job!Results
    <2> QED
      BY <1>1, <2>1, <2>2, <2>3 DEF Inv, TypeOK, Closed, Job!Phases, Job!RunStatuses
  <1>2. CASE Job!Discard(t)
    <2>1. phase[t] = "open" /\ phase' = [phase EXCEPT ![t] = "dropped"] /\ run' = run
      BY <1>2 DEF Job!Discard
    <2>2. run[t] \notin Job!Results
      BY <2>1 DEF Inv, Closed
    <2>3. ~ Job!Open({t})
      BY <2>1 DEF Job!Open
    <2> QED
      BY <2>1, <2>2, <2>3 DEF Inv, TypeOK, Closed, Job!Phases
  <1>3. CASE \E s \in Job!Results : Job!Settle(t, s)
    <2>1. PICK s \in Job!Results : Job!Settle(t, s)
      BY <1>3
    <2>2. phase[t] = "open" /\ phase' = [phase EXCEPT ![t] = "closed"]
          /\ run' = [run EXCEPT ![t] = s]
      BY <2>1 DEF Job!Settle
    <2>3. run[t] \notin Job!Results
      BY <2>2 DEF Inv, Closed
    <2>4. ~ Job!Open({t})
      BY <2>2 DEF Job!Open
    <2> QED
      BY <2>2, <2>3, <2>4 DEF Inv, TypeOK, Closed, Job!Phases, Job!RunStatuses
  <1> QED
    BY <1>1, <1>2, <1>3

\* A step that touches neither summaries nor those who write them keeps what
\* is said of them, if it does not end a stream that is writing.
LEMMA SummariesKept ==
  ASSUME Inv, UNCHANGED <<writer, results>>, skipped \subseteq skipped',
         \A t \in Tools : run[t] \in Job!Results => run'[t] = run[t],
         writer["stream"].phase = "idle" \/ UNCHANGED <<stage, linked>>
  PROVE  WritersRight' /\ StreamRight' /\ Recorded'
  <1>1. ASSUME NEW w \in Writers, NEW o \in writer[w].outcomes
        PROVE  Right(o)'
    <2>1. o \in Outcomes
      BY DEF Inv, TypeOK, Writer
    <2>2. Right(o)
      BY DEF Inv, WritersRight
    <2> QED
      BY <2>1, <2>2, RightStays
  <1>2. ASSUME NEW i \in DOMAIN results, NEW o \in results[i]
        PROVE  Right(o)'
    <2>1. o \in Outcomes
      BY DEF Inv, TypeOK
    <2>2. Right(o)
      BY DEF Inv, Recorded
    <2> QED
      BY <2>1, <2>2, RightStays
  <1>3. WritersRight'
    BY <1>1 DEF Inv, WritersRight, Named, Pending
  <1>4. StreamRight'
    BY DEF Inv, StreamRight, Named
  <1>5. Recorded'
    BY <1>2 DEF Inv, Recorded, Named
  <1> QED
    BY <1>3, <1>4, <1>5

-----------------------------------------------------------------------------
(* The stream starts the tools.                                            *)

LEMMA AnnounceInv ==
  ASSUME Inv, Announce
  PROVE  Inv'
  <1>1. /\ stage = "idle" /\ stage' = "starting"
        /\ UNCHANGED <<request, linked, phase, run, writer, results>>
        /\ todo' \subseteq Tools /\ skipped' = Tools \ todo'
        /\ running' = [tools |-> todo', skipped |-> skipped']
    BY DEF Announce
  <1>2. skipped = {} /\ \A t \in Tools : request[t] = "absent" /\ phase[t] = "absent"
    BY <1>1 DEF Inv, Untouched
  <1>3. TypeOK'
    BY <1>1 DEF Inv, TypeOK, Stages
  <1>4. Closed' /\ Untouched'
    BY <1>1 DEF Inv, Closed, Untouched
  <1>5. Books'
    BY <1>1, <1>2 DEF Inv, TypeOK, Books, Starting
  <1>6. writer["stream"].phase = "idle"
    BY <1>1 DEF Inv, StreamRight
  <1>7. WritersRight' /\ StreamRight' /\ Recorded'
    BY <1>1, <1>2, <1>6, SummariesKept
  <1> QED
    BY <1>3, <1>4, <1>5, <1>7 DEF Inv

LEMMA StartToolInv ==
  ASSUME Inv, NEW t \in Tools,
         SkipTool(t) \/ RequestTool(t) \/ DenyTool(t) \/ OpenTool(t) \/ LinkTool(t)
  PROVE  Inv'
  <1>1. Starting /\ Starting' /\ stage' # "idle" /\ UNCHANGED <<running, writer, results>>
    BY DEF SkipTool, RequestTool, DenyTool, OpenTool, LinkTool, Starting
  <1>2. t \in todo
    BY <1>1 DEF SkipTool, RequestTool, DenyTool, OpenTool, LinkTool, Inv, Books
  <1>3. writer["stream"].phase = "idle"
    BY <1>1 DEF Inv, StreamRight, Starting
  <1>4. CASE SkipTool(t)
    <2>1. TypeOK' /\ Closed' /\ Untouched'
      BY <1>1, <1>4 DEF SkipTool, Inv, TypeOK, Closed, Untouched
    <2>2. Books'
      <3>1. phase[t] = "absent" /\ stage = "starting"
        BY <1>2, <1>4 DEF SkipTool, Inv, Books
      <3> QED
        BY <1>1, <1>2, <1>4, <3>1 DEF SkipTool, Inv, TypeOK, Books, Starting
    <2>3. WritersRight' /\ StreamRight' /\ Recorded'
      BY <1>1, <1>3, <1>4, SummariesKept DEF SkipTool
    <2> QED
      BY <2>1, <2>2, <2>3 DEF Inv
  <1>5. CASE RequestTool(t)
    <2>1. TypeOK' /\ Closed' /\ Untouched'
      BY <1>1, <1>5 DEF RequestTool, Inv, TypeOK, Closed, Untouched, RequestStatuses, Stages
    <2>2. Books'
      <3>1. \A u \in Tools : request'[u] = IF u = t THEN "suggested" ELSE request[u]
        BY <1>5 DEF RequestTool, Inv, TypeOK
      <3>2. /\ stage = "starting" /\ stage' = "requested"
            /\ UNCHANGED <<todo, skipped, running, linked, phase>>
        BY <1>5 DEF RequestTool
      <3>3. todo \subseteq Tools /\ linked \subseteq Tools
        BY DEF Inv, TypeOK
      <3> QED
        BY <1>2, <3>1, <3>2, <3>3 DEF Inv, Books, Starting
    <2>3. WritersRight' /\ StreamRight' /\ Recorded'
      BY <1>1, <1>3, <1>5, SummariesKept DEF RequestTool
    <2> QED
      BY <2>1, <2>2, <2>3 DEF Inv
  <1>6. CASE DenyTool(t)
    <2>1. TypeOK' /\ Closed' /\ Untouched'
      BY <1>1, <1>6 DEF DenyTool, Inv, TypeOK, Closed, Untouched, RequestStatuses, Stages
    <2>2. Books'
      <3>1. \A u \in Tools : request'[u] = IF u = t THEN "failed" ELSE request[u]
        BY <1>6 DEF DenyTool, Inv, TypeOK
      <3>2. /\ stage = "requested" /\ stage' = "starting" /\ request[t] = "suggested"
            /\ todo' = todo \ {t} /\ skipped' = skipped \cup {t}
            /\ UNCHANGED <<running, linked, phase>>
        BY <1>6 DEF DenyTool
      <3>3. todo \subseteq Tools /\ linked \subseteq Tools
        BY DEF Inv, TypeOK
      <3>4. phase[t] = "absent"
        BY <1>2, <3>2 DEF Inv, Books
      <3> QED
        BY <1>2, <3>1, <3>2, <3>3, <3>4 DEF Inv, Books, Starting
    <2>3. WritersRight' /\ StreamRight' /\ Recorded'
      BY <1>1, <1>3, <1>6, SummariesKept DEF DenyTool
    <2> QED
      BY <2>1, <2>2, <2>3 DEF Inv
  <1>7. CASE OpenTool(t)
    <2>1. /\ stage = "requested" /\ stage' = "opened" /\ request[t] = "suggested"
          /\ Job!Open({t})
          /\ UNCHANGED <<todo, skipped, running, request, linked>>
      BY <1>7 DEF OpenTool
    <2>2. /\ phase' \in [Tools -> Job!Phases] /\ run' \in [Tools -> Job!RunStatuses]
          /\ \A u \in Tools \ {t} : phase'[u] = phase[u]
          /\ Closed'
          /\ \A u \in Tools : run[u] \in Job!Results => run'[u] = run[u]
      BY <2>1, JobStep
    <2>3. TypeOK' /\ Untouched'
      BY <1>1, <2>1, <2>2 DEF Inv, TypeOK, Untouched, Stages
    <2>4. Books'
      <3>1. todo \subseteq Tools /\ skipped \subseteq Tools /\ t \notin skipped
        BY <1>2 DEF Inv, TypeOK, Books
      <3> QED
        BY <1>2, <2>1, <2>2, <3>1 DEF Inv, Books, Starting
    <2>5. WritersRight' /\ StreamRight' /\ Recorded'
      BY <1>1, <1>3, <2>1, <2>2, SummariesKept
    <2> QED
      BY <2>2, <2>3, <2>4, <2>5 DEF Inv
  <1>8. CASE LinkTool(t)
    <2>1. TypeOK' /\ Closed' /\ Untouched'
      BY <1>1, <1>8 DEF LinkTool, Inv, TypeOK, Closed, Untouched, RequestStatuses, Stages
    <2>2. Books'
      <3>1. \A u \in Tools : request'[u] = IF u = t THEN "queued" ELSE request[u]
        BY <1>8 DEF LinkTool, Inv, TypeOK
      <3>2. /\ stage = "opened" /\ stage' = "starting" /\ request[t] = "suggested"
            /\ todo' = todo \ {t} /\ linked' = linked \cup {t}
            /\ UNCHANGED <<skipped, running, phase>>
        BY <1>8 DEF LinkTool
      <3>3. todo \subseteq Tools /\ linked \subseteq Tools
        BY DEF Inv, TypeOK
      <3> QED
        BY <1>2, <3>1, <3>2, <3>3 DEF Inv, Books, Starting
    <2>3. WritersRight' /\ StreamRight' /\ Recorded'
      BY <1>1, <1>3, <1>8, SummariesKept DEF LinkTool
    <2> QED
      BY <2>1, <2>2, <2>3 DEF Inv
  <1> QED
    BY <1>4, <1>5, <1>6, <1>7, <1>8

\* A writer is given the record r, the summaries stay.
LEMMA WriterMoves ==
  ASSUME Inv, NEW w \in Writers, NEW r \in Writer,
         writer' = [writer EXCEPT ![w] = r],
         UNCHANGED <<results, run, skipped>>,
         r.phase = "found" => r.target <= Len(results),
         \A o \in r.outcomes : Right(o),
         r.phase \in {"ready", "found"} =>
            /\ Named(r.outcomes) = Tools
            /\ Pending(r.outcomes) => w = "stream" /\ stage' = "late",
         w = "stream" \/ UNCHANGED stage
  PROVE  WritersRight' /\ Recorded' /\ writer' \in [Writers -> Writer]
  <1>1. \A x \in Writers : writer'[x] = IF x = w THEN r ELSE writer[x]
    BY DEF Inv, TypeOK
  <1>2. ASSUME NEW o PROVE Right(o) => Right(o)'
    BY DEF Right
  <1>3. WritersRight'
    BY <1>1, <1>2 DEF Inv, WritersRight, Named, Pending
  <1>4. Recorded'
    BY <1>2 DEF Inv, Recorded, Named
  <1> QED
    BY <1>3, <1>4 DEF Inv, TypeOK

\* The lines that report the tools of S as skipped.
LEMMA SkippedLines ==
  ASSUME NEW S
  PROVE  Named(S \X {"skipped"}) = S /\ ~ Pending(S \X {"skipped"})
  <1>1. ASSUME NEW t \in S PROVE t \in Named(S \X {"skipped"})
    <2>1. <<t, "skipped">> \in S \X {"skipped"} /\ <<t, "skipped">>[1] = t
      OBVIOUS
    <2> QED
      BY <2>1 DEF Named
  <1>2. ASSUME NEW o \in S \X {"skipped"} PROVE o[1] \in S /\ o[2] # "pending"
    OBVIOUS
  <1>3. Named(S \X {"skipped"}) \subseteq S
    BY <1>2 DEF Named
  <1> QED
    BY <1>1, <1>2, <1>3 DEF Pending

LEMMA AnnouncedInv ==
  ASSUME Inv, Announced
  PROVE  Inv'
  <1> DEFINE ready == [phase |-> "ready", outcomes |-> skipped \X {"skipped"}, target |-> 0]
  <1>1. /\ stage = "starting" /\ todo = {}
        /\ running' = [tools |-> linked, skipped |-> skipped]
        /\ UNCHANGED <<todo, skipped, request, linked, phase, run, results>>
        /\ \/ /\ linked = {} /\ stage' = "concluding"
              /\ writer' = [writer EXCEPT !["stream"] = ready]
           \/ stage' = "polling" /\ writer' = writer
    BY DEF Announced, Has
  <1>2. skipped \cup linked = Tools
    BY <1>1 DEF Inv, Books
  <1>3. writer["stream"].phase = "idle" /\ "stream" \in Writers
    BY <1>1 DEF Inv, StreamRight, Writers
  <1>4. ready \in Writer
    BY DEF Inv, TypeOK, Writer, Outcomes
  <1>5. TypeOK'
    BY <1>1, <1>4 DEF Inv, TypeOK, Stages
  <1>6. Closed' /\ Untouched'
    BY <1>1 DEF Inv, Closed, Untouched
  <1>7. Books'
    BY <1>1, <1>2 DEF Inv, TypeOK, Books, Starting
  <1>8. WritersRight' /\ StreamRight' /\ Recorded'
    <2>1. CASE linked = {} /\ stage' = "concluding" /\ writer' = [writer EXCEPT !["stream"] = ready]
      <3>1. Named(ready.outcomes) = Tools /\ ~ Pending(ready.outcomes)
        BY <1>2, <2>1, SkippedLines
      <3>2. \A o \in ready.outcomes : Right(o)
        BY DEF Right
      <3>3. WritersRight' /\ Recorded'
        BY <1>1, <1>3, <1>4, <2>1, <3>1, <3>2, WriterMoves
      <3>4. StreamRight'
        BY <1>3, <2>1 DEF Inv, TypeOK, StreamRight
      <3> QED
        BY <3>3, <3>4
    <2>2. CASE stage' = "polling" /\ writer' = writer
      BY <1>1, <1>3, <2>2, SummariesKept
    <2> QED
      BY <1>1, <2>1, <2>2
  <1> QED
    BY <1>5, <1>6, <1>7, <1>8 DEF Inv

LEMMA StreamDiesInv ==
  ASSUME Inv, StreamDies
  PROVE  Inv'
  <1>1. /\ stage \notin {"idle", "done"} /\ stage' = "done"
        /\ writer' = [writer EXCEPT !["stream"] = IdleWriter]
        /\ UNCHANGED <<todo, skipped, running, request, linked, phase, run, results>>
    BY DEF StreamDies
  <1>2. "stream" \in Writers /\ IdleWriter \in Writer
    BY DEF Writers, Writer, IdleWriter, Has
  <1>3. WritersRight' /\ Recorded' /\ writer' \in [Writers -> Writer]
    <2>1. IdleWriter.phase = "idle" /\ IdleWriter.outcomes = {}
      BY DEF IdleWriter, Has
    <2> QED
      BY <1>1, <1>2, <2>1, WriterMoves
  <1>4. StreamRight'
    BY <1>1, <1>2 DEF Inv, TypeOK, StreamRight, IdleWriter, Has
  <1>5. TypeOK' /\ Closed' /\ Untouched'
    BY <1>1, <1>3 DEF Inv, TypeOK, Stages, Closed, Untouched
  <1>6. Books'
    BY <1>1 DEF Inv, Books, Starting
  <1> QED
    BY <1>3, <1>4, <1>5, <1>6 DEF Inv

LEMMA DeadlineInv ==
  ASSUME Inv, Deadline
  PROVE  Inv'
  <1>1. /\ stage = "polling" /\ stage' = "late" /\ writer["stream"].phase = "idle"
        /\ UNCHANGED <<todo, skipped, running, request, linked, phase, run, writer, results>>
    BY DEF Deadline
  <1>2. TypeOK' /\ Closed' /\ Untouched'
    BY <1>1 DEF Inv, TypeOK, Stages, Closed, Untouched
  <1>3. Books'
    BY <1>1 DEF Inv, Books, Starting
  <1>4. WritersRight' /\ StreamRight' /\ Recorded'
    BY <1>1, SummariesKept
  <1> QED
    BY <1>2, <1>3, <1>4 DEF Inv

-----------------------------------------------------------------------------
(* The jobs.                                                               *)

LEMMA JobInv ==
  ASSUME Inv, NEW t \in Tools, Submit(t) \/ Discard(t)
  PROVE  Inv'
  <1>1. /\ Job!Discard(t) \/ \E s \in Job!Results : Job!Settle(t, s)
        /\ UNCHANGED <<stage, todo, skipped, running, linked, writer, results>>
    BY DEF Submit, Discard
  <1>2. /\ request' \in [Tools -> RequestStatuses]
        /\ \A u \in Tools \ linked : request'[u] = request[u]
        /\ \A u \in linked : request'[u] \in {request[u], "succeeded", "failed"}
    BY DEF Submit, Discard, Inv, TypeOK, RequestStatuses
  <1>3. /\ phase' \in [Tools -> Job!Phases] /\ run' \in [Tools -> Job!RunStatuses]
        /\ \A u \in Tools \ {t} : phase'[u] = phase[u]
        /\ phase[t] # "absent"
        /\ Closed'
        /\ \A u \in Tools : run[u] \in Job!Results => run'[u] = run[u]
    <2>1. phase[t] = "open"
      BY <1>1 DEF Job!Discard, Job!Settle
    <2> QED
      BY <1>1, <2>1, JobStep
  <1>4. TypeOK' /\ Untouched'
    BY <1>1, <1>2, <1>3 DEF Inv, TypeOK, Untouched
  <1>5. todo \subseteq Tools /\ skipped \subseteq Tools /\ linked \subseteq Tools
    BY DEF Inv, TypeOK
  <1>6. Books'
    BY <1>1, <1>2, <1>3, <1>5 DEF Inv, Books, Starting
  <1>7. WritersRight' /\ StreamRight' /\ Recorded'
    BY <1>1, <1>3, SummariesKept
  <1> QED
    BY <1>3, <1>4, <1>6, <1>7 DEF Inv

-----------------------------------------------------------------------------
(* The summaries.                                                          *)

\* A step of a writer that leaves the books alone, and the stream's stage.
LEMMA BooksKept ==
  ASSUME Inv, stage # "idle",
         UNCHANGED <<stage, todo, skipped, running, request, linked, phase, run>>
  PROVE  Closed' /\ Untouched' /\ Books'
  BY DEF Inv, Closed, Untouched, Books, Starting

LEMMA OutcomeRight ==
  ASSUME Inv, NEW t \in Tools
  PROVE  <<t, Outcome(t)>> \in Outcomes /\ Right(<<t, Outcome(t)>>)
  <1>1. CASE t \notin linked
    <2>1. Outcome(t) = "pending"
      BY <1>1 DEF Outcome
    <2> QED
      BY <2>1 DEF Outcomes, Right
  <1>2. CASE t \in linked /\ run[t] \in {"failed", "rejected"}
    <2>1. Outcome(t) = "failed"
      BY <1>2 DEF Outcome
    <2> QED
      BY <1>2, <2>1 DEF Outcomes, Right
  <1>3. CASE t \in linked /\ run[t] \in {"succeeded", "timeout"}
    <2>1. Outcome(t) = run[t]
      BY <1>3 DEF Outcome
    <2> QED
      BY <1>3, <2>1 DEF Outcomes, Right
  <1>4. CASE t \in linked /\ run[t] \notin {"failed", "rejected", "succeeded", "timeout"}
    <2>1. Outcome(t) = "pending"
      BY <1>4 DEF Outcome
    <2> QED
      BY <2>1 DEF Outcomes, Right
  <1> QED
    BY <1>1, <1>2, <1>3, <1>4

LEMMA ReadRequestsInv ==
  ASSUME Inv, NEW w \in Writers, ReadRequests(w)
  PROVE  Inv'
  <1> DEFINE requested == {t \in Tools : request[t] # "absent"}
             lines == {<<t, Outcome(t)>> : t \in requested}
             r == [phase |-> "requests", outcomes |-> lines, target |-> 0]
  <1>1. /\ MayWrite(w)
        /\ writer' = [writer EXCEPT ![w] = r]
        /\ UNCHANGED <<stage, todo, skipped, running, request, linked, phase, run, results>>
        /\ stage # "idle"
    <2>1. /\ MayWrite(w)
          /\ writer' = [writer EXCEPT ![w] = r]
          /\ UNCHANGED <<stage, todo, skipped, running, request, linked, phase, run, results>>
      BY DEF ReadRequests, Has
    <2>2. stage # "idle"
      BY <2>1 DEF MayWrite
    <2> QED
      BY <2>1, <2>2
  <1>2. \A o \in lines : o \in Outcomes /\ Right(o)
    BY OutcomeRight
  <1>3. r \in Writer
    BY <1>2 DEF Inv, TypeOK, Writer
  <1>4. WritersRight' /\ Recorded' /\ writer' \in [Writers -> Writer]
    <2>1. r.phase = "requests" /\ r.outcomes = lines
      OBVIOUS
    <2> HIDE DEF r, lines
    <2> QED
      BY <1>1, <1>2, <1>3, <2>1, WriterMoves
  <1>5. StreamRight'
    <2>1. CASE w = "stream"
      <3>1. stage \in {"polling", "late"}
        BY <1>1, <2>1 DEF MayWrite
      <3>2. linked \subseteq requested
        BY DEF Inv, TypeOK, Books
      <3>3. requested \subseteq Named(lines)
        <4>1. ASSUME NEW t \in requested PROVE t \in Named(lines)
          <5>1. <<t, Outcome(t)>> \in lines /\ <<t, Outcome(t)>>[1] = t
            OBVIOUS
          <5> QED
            BY <5>1 DEF Named
        <4> QED
          BY <4>1
      <3>4. writer'["stream"].outcomes = lines /\ writer'["stream"].phase = "requests"
        BY <1>1, <2>1 DEF Inv, TypeOK
      <3>5. linked \subseteq Named(writer'["stream"].outcomes)
        BY <3>2, <3>3, <3>4
      <3> QED
        BY <1>1, <3>1, <3>4, <3>5 DEF StreamRight, Named
    <2>2. CASE w # "stream"
      <3>1. writer'["stream"] = writer["stream"]
        BY <1>1, <2>2 DEF Inv, TypeOK, Writers
      <3> QED
        BY <1>1, <3>1 DEF Inv, StreamRight, Named
    <2> QED
      BY <2>1, <2>2
  <1>6. TypeOK'
    BY <1>1, <1>4 DEF Inv, TypeOK
  <1> QED
    BY <1>1, <1>4, <1>5, <1>6, BooksKept DEF Inv

LEMMA ReadRunningInv ==
  ASSUME Inv, NEW w \in Writers, ReadRunning(w)
  PROVE  Inv'
  <1> DEFINE seen == writer[w].outcomes
             skips == running.skipped \X {"skipped"}
             r == [phase |-> "ready", outcomes |-> seen \cup skips,
                   target |-> 0]
  <1>1. /\ writer[w].phase = "requests"
        /\ UNCHANGED <<stage, todo, skipped, running, request, linked, phase, run, results>>
        /\ \/ /\ AllTerminal(seen) \/ (w = "stream" /\ stage = "late")
              /\ writer' = [writer EXCEPT ![w] = r]
           \/ writer' = [writer EXCEPT ![w] = IdleWriter]
    BY DEF ReadRunning, Has
  <1>2. running.skipped \subseteq Tools /\ running.tools \subseteq Tools
    BY DEF Inv, TypeOK
  <1>3. r \in Writer /\ IdleWriter \in Writer
    BY <1>2 DEF Inv, TypeOK, Writer, Outcomes, IdleWriter, Has
  <1>4. stage # "idle"
    BY <1>1 DEF Inv, Untouched
  <1>5. CASE /\ AllTerminal(seen) \/ (w = "stream" /\ stage = "late")
             /\ writer' = [writer EXCEPT ![w] = r]
    <2>1. Named(r.outcomes) = Named(seen) \cup running.skipped
      <3>1. Named(r.outcomes) = Named(seen) \cup Named(skips)
        BY DEF Named
      <3> QED
        BY <3>1, SkippedLines
    <2>2. Named(seen) \subseteq Tools
      BY DEF Inv, TypeOK, Writer, Outcomes, Named
    <2>3. Named(seen) \cup running.skipped = Tools
      <3>1. CASE AllTerminal(seen)
        BY <1>4, <3>1 DEF AllTerminal, Inv, Books
      <3>2. CASE w = "stream" /\ stage = "late"
        <4>1. linked \subseteq Named(seen)
          BY <1>1, <3>2 DEF Inv, StreamRight
        <4>2. skipped \cup linked = Tools /\ running.skipped = skipped
          BY <3>2 DEF Inv, Books
        <4> QED
          BY <2>2, <4>1, <4>2
      <3> QED
        BY <1>5, <3>1, <3>2
    <2>4. Pending(r.outcomes) => w = "stream" /\ stage' = "late"
      <3>1. Pending(r.outcomes) => Pending(seen)
        BY SkippedLines DEF Pending
      <3> QED
        BY <1>1, <1>5, <3>1 DEF AllTerminal
    <2>5. \A o \in r.outcomes : Right(o)
      <3>1. \A o \in seen : Right(o)
        BY DEF Inv, WritersRight
      <3>2. running.skipped \subseteq skipped
        BY <1>4 DEF Inv, Books
      <3>3. \A o \in skips : o[2] = "skipped" /\ o[1] \in skipped
        BY <3>2
      <3> QED
        BY <3>1, <3>3 DEF Right
    <2>6. WritersRight' /\ Recorded' /\ writer' \in [Writers -> Writer]
      <3>1. r.phase = "ready"
        OBVIOUS
      <3> HIDE DEF r
      <3> QED
        BY <1>1, <1>3, <1>5, <2>1, <2>3, <2>4, <2>5, <3>1, WriterMoves
    <2>7. StreamRight'
      BY <1>1, <1>5 DEF Inv, TypeOK, StreamRight, Named
    <2>8. TypeOK'
      BY <1>1, <2>6 DEF Inv, TypeOK
    <2> QED
      BY <1>1, <1>4, <2>6, <2>7, <2>8, BooksKept DEF Inv
  <1>6. CASE writer' = [writer EXCEPT ![w] = IdleWriter]
    <2>1. WritersRight' /\ Recorded' /\ writer' \in [Writers -> Writer]
      <3>1. IdleWriter.phase = "idle" /\ IdleWriter.outcomes = {}
        BY DEF IdleWriter, Has
      <3> QED
        BY <1>1, <1>3, <1>6, <3>1, WriterMoves
    <2>2. StreamRight'
      BY <1>1, <1>6 DEF Inv, TypeOK, StreamRight, IdleWriter, Has, Named
    <2>3. TypeOK'
      BY <1>1, <2>1 DEF Inv, TypeOK
    <2> QED
      BY <1>1, <1>4, <2>1, <2>2, <2>3, BooksKept DEF Inv
  <1> QED
    BY <1>1, <1>5, <1>6

LEMMA FindSummaryInv ==
  ASSUME Inv, NEW w \in Writers, FindSummary(w)
  PROVE  Inv'
  <1>1. /\ writer[w].phase = "ready"
        /\ writer' = [writer EXCEPT ![w].phase = "found", ![w].target = Len(results)]
        /\ UNCHANGED <<stage, todo, skipped, running, request, linked, phase, run, results>>
    BY DEF FindSummary
  <1>2. Len(results) \in Nat
    BY DEF Inv, TypeOK
  <1>3. /\ writer' \in [Writers -> Writer]
        /\ \A x \in Writers : writer'[x].outcomes = writer[x].outcomes
        /\ \A x \in Writers \ {w} : writer'[x] = writer[x]
        /\ writer'[w].phase = "found" /\ writer'[w].target = Len(results)
    BY <1>1, <1>2 DEF Inv, TypeOK, Writer
  <1>4. WritersRight'
    <2>1. ASSUME NEW x \in Writers
          PROVE  /\ \A o \in writer'[x].outcomes : Right(o)'
                 /\ writer'[x].phase = "found" => writer'[x].target <= Len(results)
                 /\ writer'[x].phase \in {"ready", "found"} =>
                      /\ Named(writer[x].outcomes) = Tools
                      /\ Pending(writer[x].outcomes) => x = "stream" /\ stage = "late"
      BY <1>1, <1>2, <1>3 DEF Inv, WritersRight, Right
    <2> QED
      BY <1>1, <1>3, <2>1 DEF WritersRight, Named, Pending
  <1>5. Recorded'
    BY <1>1 DEF Inv, Recorded, Right, Named
  <1>6. StreamRight'
    BY <1>1, <1>3 DEF Inv, StreamRight, Named, Writers
  <1>7. TypeOK'
    BY <1>1, <1>3 DEF Inv, TypeOK
  <1>8. stage # "idle"
    BY <1>1 DEF Inv, Untouched
  <1> QED
    BY <1>1, <1>4, <1>5, <1>6, <1>7, <1>8, BooksKept DEF Inv

\* What the save of a summary does to the messages.
LEMMA SavedResults ==
  ASSUME Inv, NEW w \in Writers, SaveSummary(w)
  PROVE  /\ results' \in Seq(SUBSET Outcomes)
         /\ Len(results) <= Len(results')
         /\ \A i \in DOMAIN results' :
              \/ results'[i] = writer[w].outcomes
              \/ i \in DOMAIN results /\ results'[i] = results[i]
  <1>1. /\ writer[w].phase = "found"
        /\ writer[w].outcomes \in SUBSET Outcomes
        /\ writer[w].target \in Nat /\ writer[w].target <= Len(results)
        /\ results \in Seq(SUBSET Outcomes)
    BY DEF SaveSummary, Inv, TypeOK, WritersRight, Writer
  <1>2. CASE writer[w].target = 0
    <2>1. results' = Append(results, writer[w].outcomes)
      BY <1>2 DEF SaveSummary
    <2> QED
      BY <1>1, <2>1
  <1>3. CASE writer[w].target # 0
    <2>1. results' = [results EXCEPT ![writer[w].target] = writer[w].outcomes]
      BY <1>3 DEF SaveSummary
    <2> QED
      BY <1>1, <1>3, <2>1
  <1> QED
    BY <1>2, <1>3

LEMMA SaveSummaryInv ==
  ASSUME Inv, NEW w \in Writers, SaveSummary(w)
  PROVE  Inv'
  <1>1. /\ writer[w].phase = "found"
        /\ writer' = [writer EXCEPT ![w] = IdleWriter]
        /\ stage' = IF w = "stream" THEN "done" ELSE stage
        /\ UNCHANGED <<todo, skipped, running, request, linked, phase, run>>
    BY DEF SaveSummary
  <1>2. /\ results' \in Seq(SUBSET Outcomes)
        /\ Len(results) <= Len(results')
        /\ Len(results) \in Nat /\ Len(results') \in Nat
        /\ \A i \in DOMAIN results' :
             \/ results'[i] = writer[w].outcomes
             \/ i \in DOMAIN results /\ results'[i] = results[i]
    BY SavedResults DEF Inv, TypeOK
  <1>3. /\ writer' \in [Writers -> Writer]
        /\ writer'[w].phase = "idle" /\ writer'[w].outcomes = {}
        /\ \A x \in Writers \ {w} : writer'[x] = writer[x]
    BY <1>1 DEF Inv, TypeOK, Writer, IdleWriter, Has
  <1>4. stage # "idle" /\ stage' # "idle"
    BY <1>1 DEF Inv, Untouched
  <1>5. TypeOK' /\ Closed' /\ Untouched'
    BY <1>1, <1>2, <1>3, <1>4 DEF Inv, TypeOK, Stages, Closed, Untouched
  <1>6. Books'
    BY <1>1, <1>4 DEF Inv, Books, Starting
  <1>7. WritersRight'
    <2>1. ASSUME NEW x \in Writers \ {w}
          PROVE  /\ \A o \in writer[x].outcomes : Right(o)'
                 /\ writer[x].phase = "found" => writer[x].target <= Len(results')
                 /\ writer[x].phase \in {"ready", "found"} =>
                      /\ Named(writer[x].outcomes) = Tools
                      /\ Pending(writer[x].outcomes) => x = "stream" /\ stage' = "late"
      <3>1. writer[x].target \in Nat
        BY DEF Inv, TypeOK, Writer
      <3> QED
        BY <1>1, <1>2, <3>1 DEF Inv, WritersRight, Right
    <2> QED
      BY <1>3, <2>1 DEF WritersRight, Named, Pending
  <1>8. StreamRight'
    BY <1>1, <1>3 DEF Inv, StreamRight, Named, Writers
  <1>9. Recorded'
    <2>1. ASSUME NEW i \in DOMAIN results'
          PROVE  Named(results'[i]) = Tools /\ \A o \in results'[i] : Right(o)
      BY <1>1, <1>2 DEF Inv, WritersRight, Recorded
    <2> QED
      BY <1>1, <2>1 DEF Recorded, Right, Named
  <1> QED
    BY <1>5, <1>6, <1>7, <1>8, <1>9 DEF Inv

-----------------------------------------------------------------------------

LEMMA NextInv == Inv /\ [Next]_vars => Inv'
  <1> SUFFICES ASSUME Inv, [Next]_vars PROVE Inv'
    OBVIOUS
  <1>1. CASE StartTools
    BY <1>1, AnnounceInv, AnnouncedInv, StartToolInv DEF StartTools
  <1>2. CASE StreamDies
    BY <1>2, StreamDiesInv
  <1>3. CASE Deadline
    BY <1>3, DeadlineInv
  <1>4. CASE \E t \in Tools : Submit(t) \/ Discard(t)
    BY <1>4, JobInv
  <1>5. CASE \E w \in Writers : Summarise(w)
    BY <1>5, ReadRequestsInv, ReadRunningInv, FindSummaryInv, SaveSummaryInv DEF Summarise
  <1>6. CASE UNCHANGED vars
    <2>1. TypeOK' /\ Closed' /\ Untouched' /\ Books'
      BY <1>6 DEF vars, Inv, TypeOK, Closed, Untouched, Books, Starting
    <2>2. WritersRight' /\ StreamRight' /\ Recorded'
      BY <1>6, SummariesKept DEF vars
    <2> QED
      BY <2>1, <2>2 DEF Inv
  <1> QED
    BY <1>1, <1>2, <1>3, <1>4, <1>5, <1>6 DEF Next

LEMMA AlwaysInv == Spec => []Inv
  BY InitInv, NextInv, PTL DEF Spec

\* Every reachable state of a bundle's execution is well typed: a summary that
\* is updated exists, and states are those that the chat knows.
THEOREM TypeCorrect == Spec => []TypeOK
  <1>1. Inv => TypeOK
    BY DEF Inv
  <1> QED
    BY <1>1, AlwaysInv, PTL

\* What a summary reports of a tool is the tool's result, and what it reports
\* as skipped never had a job.
THEOREM SummaryTrueHolds == Spec => []SummaryTrue
  <1>1. Inv => SummaryTrue
    <2> SUFFICES ASSUME Inv, NEW i \in DOMAIN results, NEW o \in results[i]
                 PROVE  /\ o[2] = "failed" => run[o[1]] \in {"failed", "rejected"}
                        /\ o[2] \in {"succeeded", "timeout"} => run[o[1]] = o[2]
                        /\ o[2] = "skipped" => phase[o[1]] = "absent"
      BY DEF SummaryTrue, Summaries
    <2>1. Right(o)
      BY DEF Inv, Recorded
    <2> QED
      BY <2>1 DEF Right, Inv, Books
  <1> QED
    BY <1>1, AlwaysInv, PTL

\* No summary leaves a tool of the bundle out.
THEOREM EveryToolAccountedHolds == Spec => []EveryToolAccounted
  <1>1. Inv => EveryToolAccounted
    BY DEF Inv, Recorded, EveryToolAccounted, Summaries
  <1> QED
    BY <1>1, AlwaysInv, PTL

\* A bundle that is reported as succeeded has run all its tools with success.
THEOREM SucceededMeansAllHolds == Spec => []SucceededMeansAll
  <1>1. Inv => SucceededMeansAll
    <2> SUFFICES ASSUME Inv, NEW i \in DOMAIN results, BundleSucceeded(results[i]),
                        NEW t \in Tools
                 PROVE  run[t] = "succeeded"
      BY DEF SucceededMeansAll, Summaries
    <2>1. PICK o \in results[i] : o[1] = t
      BY DEF Inv, Recorded, Named
    <2>2. o[2] = "succeeded" /\ Right(o)
      BY DEF BundleSucceeded, Inv, Recorded
    <2> QED
      BY <2>1, <2>2 DEF Right
  <1> QED
    BY <1>1, AlwaysInv, PTL

\* Only the stream after its deadline writes a summary with a pending tool.
THEOREM WholeUnlessLateHolds == Spec => WholeUnlessLate
  <1>1. Inv /\ [Next]_vars =>
          [\A i \in DOMAIN results' :
             /\ Pending(results'[i])
             /\ i \in DOMAIN results => results'[i] # results[i]
             => stage = "late" /\ stage' = "done"]_vars
    <2> SUFFICES ASSUME Inv, Next, NEW i \in DOMAIN results', Pending(results'[i]),
                        i \in DOMAIN results => results'[i] # results[i]
                 PROVE  stage = "late" /\ stage' = "done"
      OBVIOUS
    <2>1. CASE \E w \in Writers : SaveSummary(w)
      <3>1. PICK w \in Writers : SaveSummary(w)
        BY <2>1
      <3>2. results'[i] = writer[w].outcomes
        BY <3>1, SavedResults
      <3>3. Pending(writer[w].outcomes)
        BY <3>2
      <3>4. w = "stream" /\ stage = "late"
        BY <3>1, <3>3 DEF SaveSummary, Inv, WritersRight
      <3> QED
        BY <3>1, <3>4 DEF SaveSummary
    <2>2. CASE UNCHANGED results
      BY <2>2
    <2> QED
      BY <2>1, <2>2 DEF Next, StartTools, Announce, Announced, SkipTool, RequestTool,
         DenyTool, OpenTool, LinkTool, StreamDies, Deadline, Submit, Discard,
         Summarise, ReadRequests, ReadRunning, FindSummary
  <1> QED
    BY <1>1, AlwaysInv, PTL DEF Spec, WholeUnlessLate

-----------------------------------------------------------------------------
(* The jobs of a bundle are those that AgentJobs promises.                 *)

\* The tool that the stream is about to start has no job yet: that Job!Open asks
\* for it forbids the stream nothing.
OpensNew ==
    \A t \in Tools :
        stage = "requested" /\ request[t] = "suggested" => phase[t] = "absent"

LEMMA LifecycleStep ==
  ASSUME [Next]_vars
  PROVE  [Job!LifecycleNext]_(Job!lifecycleVars)
  <1>1. ASSUME NEW t \in Tools, OpenTool(t) PROVE Job!LifecycleNext
    BY <1>1 DEF OpenTool, Job!LifecycleNext
  <1>2. ASSUME NEW t \in Tools, Submit(t) \/ Discard(t) PROVE Job!LifecycleNext
    BY <1>2 DEF Submit, Discard, Job!LifecycleNext
  <1>3. CASE UNCHANGED <<phase, run>>
    BY <1>3 DEF Job!lifecycleVars
  <1> QED
    BY <1>1, <1>2, <1>3
       DEF Next, StartTools, Announce, Announced, SkipTool, RequestTool, DenyTool,
           LinkTool, StreamDies, Deadline, Summarise, ReadRequests, ReadRunning,
           FindSummary, SaveSummary, vars

\* A bundle does nothing with its jobs but what AgentJobs was shown to do with
\* them (LifecycleImplemented), and no tool is started twice.
THEOREM JobsKept == Spec => Job!LifecycleSpec /\ []OpensNew
  <1>1. Init => Job!LifecycleInit
    BY DEF Init
  <1>2. Inv => OpensNew
    <2> SUFFICES ASSUME Inv, NEW t \in Tools, stage = "requested",
                        request[t] = "suggested"
                 PROVE  phase[t] = "absent"
      BY DEF OpensNew
    <2>1. t \in todo
      BY DEF Inv, Books, Starting
    <2> QED
      BY <2>1 DEF Inv, Books
  <1>3. Spec => Job!LifecycleSpec
    BY <1>1, LifecycleStep, PTL DEF Spec, Job!LifecycleSpec
  <1>4. Spec => []OpensNew
    BY <1>2, AlwaysInv, PTL
  <1> QED
    BY <1>3, <1>4

=============================================================================
