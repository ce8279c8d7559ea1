----------------------------- MODULE MCChatTools -----------------------------
(* ChatTools and LiveAnswer with one request, in two scenarios: the tools of *)
(* an answer that is delivered, beside requests by hand and two presses; and *)
(* an answer from the question on, with nobody else at work.                 *)
EXTENDS LiveAnswer

VARIABLE scenario

MCMarker == <<"<", "T", "R">>
MCPayload == <<" ", "p">>
MCBlock == MCMarker \o MCPayload
MCMask == <<"*", "*">>

Plain == <<"a", "b", "c", "d", "e">>

\* Blanks, letters that grow and secrets before a block, or with no block; a secret
\* that runs on into the block; and one that only its last letter makes one.
MCTexts ==
    {Plain, MCBlock, <<"a", "b", " ">> \o MCBlock, <<"ss", "a">> \o MCBlock,
     <<"k", "b", " ">> \o MCBlock, <<"k", "b">> \o MCBlock \o <<"p", "p", "p">>,
     <<"k", "a", "b", "c", "d", "e", " ", "a">>,
     <<" ", "[", "a", "b", "c", "d", "]", "e">>,
     <<"[", "a", "b", "c", "]">> \o MCBlock}

Delivered ==
    [Asked EXCEPT !.stage = "executing", !.text = Plain, !.got = 5, !.output = Plain,
                  !.outcome = "completed", !.log = "succeeded"]

MCInit ==
    /\ Init
    /\ \/ /\ scenario = "requests"
          /\ answer = Delivered
          /\ row = [there |-> TRUE, text |-> Delivered.text, suppressed |-> FALSE]
       \/ /\ scenario = "answer"
          /\ answer = Asked /\ row = NoRow

MCNext ==
    /\ UNCHANGED scenario
    /\ AnswerNext
    /\ IF scenario = "requests" THEN answer'.log = answer.log
       ELSE /\ UNCHANGED button
            /\ \A r \in Requests : request'[r].source = "manual" =>
                  request'[r].status = "absent"

MCVars == <<vars, answerVars, scenario>>

MCSpec == MCInit /\ [][MCNext]_MCVars /\ WF_MCVars(ToolsRun /\ UNCHANGED scenario)
=============================================================================
