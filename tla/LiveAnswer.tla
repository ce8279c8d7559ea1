----------------------------- MODULE LiveAnswer -----------------------------
(***************************************************************************)
(* One answer of the Live AI (apps/ai_chat/live_ai.py, chatkit_store.py    *)
(* and the view internal_chat_live): the log of the request, the text that *)
(* the provider streams, what of it is passed on while the hidden block    *)
(* with the tool proposal is held back, the row that keeps the answer, and *)
(* the tools that are run before or after it is delivered.  The tools are  *)
(* those of ChatTools; a bundle's execution is ChatBundle, of which only   *)
(* whether it started is looked at here.                                   *)
(*                                                                         *)
(* A text is a sequence of letters, some of which are blank.  Redaction    *)
(* (core/redaction.py) is of two kinds: what follows a key word up to the  *)
(* next blank, as in "token=...", and what stands between two brackets, as *)
(* a private key does.  It is applied to every delta, and again to all     *)
(* that has come whenever the visible text is computed, so that letters    *)
(* which complete a secret change what was visible before.                 *)
(*                                                                         *)
(* Left out: secrets that are known by their length or their last word,    *)
(* upper and lower case of the marker, the dots after a visible text that  *)
(* redaction makes longer than 3000 letters, the notice that a             *)
(* disconnected stream leaves in the chat.  The tools that are run are     *)
(* those that the newest question of the session asks for, which is        *)
(* another one if somebody else has asked in the meantime: the mode is any.*)
(***************************************************************************)

EXTENDS ChatTools

CONSTANTS
    Texts,      \* what the provider may answer
    Marker,     \* TOOL_REQUEST_PROPOSAL_START
    Payload,    \* the rest of a block that holds a proposal
    Growing,    \* letters that are two in upper case, as the German sharp s
    Blanks,     \* white space
    Keys,       \* after these, what follows up to the next blank is redacted
    Opening,    \* from this bracket ...
    Closing,    \* ... to this one too, with the brackets
    Mask        \* "[REDACTED]"

Block == Marker \o Payload

\* The letters of text that grow.
Growth(text) == Cardinality({i \in DOMAIN text : text[i] \in Growing})

ASSUME TextsAssumption ==
    /\ Marker \in Seq(Range(Marker) \ (Blanks \cup Keys))
    /\ Mask \in Seq(Range(Mask))
    /\ \A text \in Texts : /\ text \in Seq(Range(text)) \ {<<>>}
                           /\ Growth(text) < Len(Marker)

VARIABLES
    answer,     \* the request and its stream
    row         \* the AdminChatMessage with the answer's item id

answerVars == <<answer, row>>

-----------------------------------------------------------------------------
(* Texts.                                                                  *)

HasMarker(text) == Marker \in SubSeqs(text)

HasProposal(text) == Block \in SubSeqs(text)

\* The text is cut where the marker is in its upper-case form, which may be a few
\* letters further on.  TextsAssumption: not a whole block further, so that
\* strip_tool_request_proposals finds none.
BeforeMarker(text) ==
    IF HasMarker(text)
    THEN LET before == IndexFirstSubSeq(Marker, text) - 1
             cut == before + Growth(SubSeq(text, 1, before))
         IN  SubSeq(text, 1, Min({cut, Len(text)}))
    ELSE text

\* What SECRET_PATTERNS match of a text: the rest of the word after a key, ...
AfterKey(text, i) ==
    \E k \in 1 .. i - 1 :
        text[k] \in Keys /\ \A j \in k + 1 .. i : text[j] \notin Blanks

\* ... and from an opening to the next closing, of what is left.
Enclosed(text, i) ==
    LET at(letter) == {k \in 1 .. Len(text) : text[k] = letter /\ ~AfterKey(text, k)}
    IN  \E k \in at(Opening), l \in at(Closing) :
            /\ k <= i /\ i <= l
            /\ at(Closing) \cap (k .. l - 1) = {}

InSecret(text, i) == AfterKey(text, i) \/ Enclosed(text, i)

\* redact_secrets: the first letter of a secret becomes the mask, the others go.
Redact(text) ==
    FlattenSeq([i \in 1 .. Len(text) |->
        IF ~InSecret(text, i) THEN <<text[i]>>
        ELSE IF i > 1 /\ InSecret(text, i - 1) THEN <<>> ELSE Mask])

\* str.strip
Strip(text) ==
    LET inked == {i \in 1 .. Len(text) : text[i] \notin Blanks}
    IN  IF inked = {} THEN <<>> ELSE SubSeq(text, Min(inked), Max(inked))

\* _visible_live_ai_output: what is before the block, redacted and stripped as a
\* whole.
Visible(text) == Strip(Redact(BeforeMarker(text)))

\* Mutant: nothing is held back.
StreamableWhole(text) == Len(Visible(text))

\* _streamable_visible_length: as long as there is no marker, as many letters
\* are held back as a marker has.
Streamable(text) ==
    IF HasMarker(text) THEN Len(Visible(text))
    ELSE Max({0, Len(Visible(text)) - Len(Marker)})

\* LIVE_AI_SAFE_ERROR_MESSAGE
SafeError == <<"error">>

-----------------------------------------------------------------------------
(* State.                                                                  *)

\* asked: logged and with ChatKit; streaming: the provider answers; answered:
\* the text is complete, or an error; logged: the log says which; placed: the
\* suppressed row is there; delivered: the answer is, tools are to be run;
\* executing: they are; ran: they, or a bundle, have been; filled: the row has
\* the text if nothing was started; gone: the request broke off.
Stages == {"asked", "streaming", "answered", "logged", "placed", "delivered",
           "executing", "ran", "filled", "done", "gone"}

\* What the newest question asks for: a text, certain tools, or a bundle.
Modes == {"plain", "direct", "bundle"}

Logs == {"pending", "succeeded", "failed", "denied"}

\* got: letters received; output: what each delta was redacted to; sent:
\* streamed_visible_length; shown: what the updates of the item added up to;
\* outcome: stream_status, when it is known.
Letters == (UNION {Range(text) : text \in Texts}) \cup Range(Mask) \cup Range(SafeError)

AnswerTypeOK ==
    /\ answer \in [stage : Stages, mode : Modes, text : Texts \cup {<<>>},
                   got : Nat, output : Seq(Letters), sent : Nat,
                   shown : Seq(Letters),
                   outcome : {"none", "completed", "failed"}, log : Logs,
                   started : BOOLEAN]
    /\ row \in [there : BOOLEAN, text : Seq(Letters), suppressed : BOOLEAN]

NoRow == [there |-> FALSE, text |-> <<>>, suppressed |-> FALSE]

\* create_live_ai_request_log
Asked ==
    [stage |-> "asked", mode |-> "plain", text |-> <<>>, got |-> 0,
     output |-> <<>>, sent |-> 0, shown |-> <<>>, outcome |-> "none",
     log |-> "pending", started |-> FALSE]

AnswerInit == Init /\ answer = Asked /\ row = NoRow

\* The text the admin is to see of the output.
Final == IF answer.outcome = "failed" THEN SafeError ELSE Visible(answer.output)

-----------------------------------------------------------------------------
(* The stream.                                                             *)

\* internal_chat_live refuses: switched off, not configured, not permitted, or
\* ChatKit raises before it streams.
Refuse ==
    /\ answer.stage = "asked"
    /\ \E s \in {"denied", "failed"} :
          answer' = [answer EXCEPT !.stage = "gone", !.log = s]
    /\ UNCHANGED <<row, vars>>

\* The question is analysed and the provider called.
Begin ==
    /\ answer.stage = "asked"
    /\ \E mode \in Modes, text \in Texts :
          answer' = [answer EXCEPT !.stage = "streaming", !.mode = mode, !.text = text]
    /\ UNCHANGED <<row, vars>>

\* The next letters arrive, and what is safe of the visible text by now is passed
\* on from where the last update ended, unless tools will answer.
Delta ==
    /\ answer.stage = "streaming"
    /\ \E got \in (answer.got + 1) .. Len(answer.text) :
          LET delta == SubSeq(answer.text, answer.got + 1, got)
              output == answer.output \o Redact(delta)
              sent == Streamable(output)
          IN  answer' = [answer EXCEPT
                !.got = got, !.output = output, !.sent = sent,
                !.shown = IF answer.mode = "plain"
                          THEN @ \o SubSeq(Visible(output), answer.sent + 1, sent)
                          ELSE @]
    /\ UNCHANGED <<row, vars>>

\* The text ends, wherever the provider, its limit of tokens or the limit of
\* 3000 letters ends it.
EndStream ==
    /\ answer.stage = "streaming"
    /\ Strip(answer.output) # <<>>
    /\ answer' = [answer EXCEPT !.stage = "answered", !.outcome = "completed"]
    /\ UNCHANGED <<row, vars>>

\* The rate limit, a timeout, an error of the provider, or an empty answer.
FailStream ==
    /\ answer.stage \in {"asked", "streaming"}
    /\ answer' = [answer EXCEPT !.stage = "answered", !.outcome = "failed",
                                !.shown = @ \o SafeError]
    /\ UNCHANGED <<row, vars>>

\* The reader goes away while the provider is waited for: _record_disconnect.
Disconnect ==
    /\ answer.stage \in {"asked", "streaming"}
    /\ answer' = [answer EXCEPT !.stage = "gone", !.log = "failed"]
    /\ UNCHANGED <<row, vars>>

\* The web process dies, the reader goes away elsewhere, or an exception passes
\* through ChatKit or is caught by _stream_live_ai_result, which logs it.
Break ==
    /\ answer.stage \notin {"done", "gone"}
    /\ \E s \in {answer.log, "failed"} :
          answer' = [answer EXCEPT !.stage = "gone", !.log = s]
    /\ IF answer.stage = "executing" /\ live.stage # "done"
       THEN LiveDies ELSE UNCHANGED vars
    /\ UNCHANGED row

WriteLog ==
    /\ answer.stage = "answered"
    /\ answer' = [answer EXCEPT !.stage = "logged",
          !.log = IF answer.outcome = "completed" THEN "succeeded" ELSE "failed"]
    /\ UNCHANGED <<row, vars>>

-----------------------------------------------------------------------------
(* The row of the answer.                                                  *)

\* AdminChatKitStore.add_thread_item, when an item is done: a row that is there
\* is left as it is.
Stored(text) ==
    IF row.there THEN row
    ELSE [there |-> TRUE, text |-> text, suppressed |-> FALSE]

\* A bundle, even if the provider failed, or tools are run first.
ToolsFirst ==
    \/ answer.mode = "bundle"
    \/ answer.mode = "direct" /\ answer.outcome = "completed"

\* _record_direct_execution_ai_message: an empty row that is not hydrated.
Place ==
    /\ answer.stage = "logged"
    /\ ToolsFirst
    /\ row' = IF row.there THEN row
              ELSE [there |-> TRUE, text |-> <<>>, suppressed |-> TRUE]
    /\ answer' = [answer EXCEPT !.stage = "placed"]
    /\ UNCHANGED vars

\* The item is done, and tools may follow.
Deliver ==
    /\ answer.stage = "logged"
    /\ ~ToolsFirst
    /\ row' = Stored(Final)
    /\ answer' = [answer EXCEPT !.stage =
          IF answer.outcome = "completed" /\ HasProposal(answer.output)
          THEN "delivered" ELSE "done"]
    /\ UNCHANGED vars

\* _execute_tool_proposals_for_item looks the row up; without it, it raises.
StartTools ==
    /\ answer.stage = "delivered" \/ (answer.stage = "placed" /\ answer.mode = "direct")
    /\ row.there
    /\ answer' = [answer EXCEPT !.stage = "executing"]
    /\ UNCHANGED <<row, vars>>

ToolsRun ==
    /\ answer.stage = "executing"
    /\ LiveStep
    /\ UNCHANGED answerVars

\* Mutant: a request counts, whether its tool was started or denied.
StartedIfRequested == \E r \in Requests : request[r].source = "live"

\* execution_started: of a tool that the stream has opened a job for, and said so.
Started == \E r \in Requests : phase[r] # "absent"

ToolsRan ==
    /\ answer.stage = "executing"
    /\ live.stage = "done"
    /\ answer' = IF answer.mode = "direct"
                 THEN [answer EXCEPT !.stage = "ran", !.started = Started]
                 ELSE [answer EXCEPT !.stage = "done"]
    /\ UNCHANGED <<row, vars>>

\* execute_diagnostic_bundle_for_item: some tool was started, or none.
BundleRan ==
    /\ answer.stage = "placed"
    /\ answer.mode = "bundle"
    /\ row.there
    /\ \E started \in BOOLEAN :
          answer' = [answer EXCEPT !.stage = "ran", !.started = started]
    /\ UNCHANGED <<row, vars>>

\* If nothing was started the text goes into the row, if it is there still.
Fill ==
    /\ answer.stage = "ran"
    /\ row' = IF ~answer.started /\ row.there
              THEN [row EXCEPT !.text = Final, !.suppressed = FALSE] ELSE row
    /\ answer' = [answer EXCEPT !.stage = "filled"]
    /\ UNCHANGED vars

\* The item is done: with the text, or without it if tools are at work.
Finish ==
    /\ answer.stage = "filled"
    /\ LET text == IF answer.started THEN <<>> ELSE Final
       IN  /\ answer' = [answer EXCEPT !.stage = "done", !.shown = @ \o text]
           /\ row' = Stored(text)
    /\ UNCHANGED vars

\* A retry of the question removes the items after it: of the rows that are
\* hydrated those without a text (_is_deletable_placeholder).
RetryDeletes ==
    /\ row.there /\ row.text = <<>> /\ ~row.suppressed
    /\ row' = NoRow
    /\ UNCHANGED <<answer, vars>>

-----------------------------------------------------------------------------

AnswerStep ==
    \/ Refuse \/ Begin \/ Delta \/ EndStream \/ FailStream \/ Disconnect \/ Break
    \/ WriteLog \/ Place \/ Deliver \/ StartTools \/ ToolsRan \/ BundleRan
    \/ Fill \/ Finish \/ RetryDeletes

AnswerNext ==
    \/ AnswerStep
    \/ ToolsRun
    \/ Others /\ UNCHANGED answerVars

\* The stream runs its tools unless it dies; nothing is assumed of the provider,
\* the runtime, or the administrators.
AnswerSpec ==
    /\ AnswerInit
    /\ [][AnswerNext]_<<vars, answerVars>>
    /\ WF_<<vars, answerVars>>(ToolsRun)

-----------------------------------------------------------------------------
(* Properties *)

\* How many letters of a block a text has.
HiddenIn(text) == Cardinality({i \in DOMAIN text : text[i] \in Range(Block) \ Blanks})

\* No secret of the text runs on into the marker.
MarkerClear(text) ==
    \A i \in 1 .. Len(text) - Len(Marker) + 1 :
        SubSeq(text, i, i + Len(Marker) - 1) = Marker => ~InSecret(text, i)

\* "hidden internal block": however the provider's deltas cut the marker and the
\* secrets before it, and although the visible text may shrink and be passed on
\* again from an earlier letter, no letter of the block is streamed, nor stored in
\* the row.  Letters that grow let as many letters of the block through; a text that
\* ends within the marker is no block to the code, and is shown in the end; and a
\* secret that runs on into the marker hides the marker from the code.
HiddenStaysHidden ==
    MarkerClear(answer.text) =>
        /\ answer.mode = "plain" \/ HasMarker(answer.output) =>
              HiddenIn(answer.shown) <= Growth(answer.output)
        /\ HasMarker(answer.output) => HiddenIn(row.text) <= Growth(answer.output)

\* A request that is logged as a success and has come to its end has left the
\* admin the answer's text, if it has any, or tools at work in its place: the
\* empty row that was put there first is filled whenever no tool was started.
AnswerStands ==
    answer.stage = "done" /\ answer.log = "succeeded" =>
        \/ row.there /\ row.text = Final
        \/ Final = <<>>
        \/ answer.mode = "direct" /\ \E r \in Requests : phase[r] # "absent"
        \/ answer.mode = "bundle" /\ answer.started

=============================================================================
