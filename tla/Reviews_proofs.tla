---------------------------- MODULE Reviews_proofs -----------------------------
(***************************************************************************)
(* Proofs about what administrators and customers review: proposals of new *)
(* tools (ToolBuilder), the inventory (Inventory) and report drafts        *)
(* (Reports), for all sets of requests and for whatever is reported.       *)
(*                                                                         *)
(* ToolBuilder: everything that an administrator's action does goes by a   *)
(* copy that may be old.  EditorRight says what an old copy still vouches  *)
(* for: approved means that a review is on record, since reviews are never *)
(* taken back; converted means that the proposal is converted, since that  *)
(* mark is never removed; and what is about to be converted is valid,      *)
(* because the conversion converts the very copy it has validated.         *)
(*                                                                         *)
(* Inventory: ingestions of one scan run over each other.  What makes the  *)
(* summary whole is an order that each of them keeps: rows before steps    *)
(* (RowsFirst), steps before the verdict (HandRight), the verdict before   *)
(* the scan (VerdictsRight); and nothing of it is taken back (Persists).   *)
(*                                                                         *)
(* Reports: consent to a draft is never withdrawn (WritersRight), and the  *)
(* report that a converted draft names is finished, so that no section is  *)
(* added to it (DraftsRight).                                              *)
(*                                                                         *)
(* MCInventory: its scenarios are behaviours of this server, so that all   *)
(* of the above holds in them.  Where rebuilds, or ingestions, do not      *)
(* overlap, what one of them has read is still so when it writes           *)
(* (RebuildsAlone, CalmRight).                                             *)
(***************************************************************************)
EXTENDS ToolBuilder, MCInventory, SequenceTheorems, WellFoundedInduction, TLAPS

-----------------------------------------------------------------------------
(* The tool builder.                                                       *)

Generating(a, p) == At(a, "generate", 0) /\ editor[a].of = p

\* The proposal that is being generated is nobody else's business yet.
OneGenerator ==
    \A a, b \in Editors :
        /\ At(a, "generate", 0)
        /\ editor[b] # Idle /\ editor[b].of = editor[a].of
        => b = a

EditorRight(a) ==
    LET p == editor[a].of
        copy == editor[a].copy
    IN  editor[a] # Idle =>
        /\ Exists(p) <=> ~At(a, "generate", 0)
        /\ copy.status = "approved" => p \in reviews
        /\ copy.status = "converted" => Exists(p) /\ proposal[p].converted
        /\ editor[a].action = "generate" =>
              copy.status \notin {"approved", "converted"} /\ copy.converted = FALSE
        /\ At(a, "approve", 1) => p \in reviews
        /\ At(a, "convert", 1) => p \in reviews /\ Errors(copy.content) = {}

ApprovedReviewed ==
    \A p \in Proposals : Exists(p) /\ proposal[p].status = "approved" => p \in reviews

\* The management command has found a definition, and none is deleted.
CommandRight == enabler.stage # "idle" => definition # Absent

Inv == /\ TypeOK
       /\ request.content \in Requested
       /\ OneGenerator
       /\ \A a \in Editors : EditorRight(a)
       /\ ApprovedReviewed
       /\ CommandRight
       /\ BuiltIsSound
       /\ ConvertedHasTool

-----------------------------------------------------------------------------
(* Contents of proposals.                                                  *)

ContentShape ==
    [type : {"runtime_handler", "command_template", "script_template"},
     handler : {"known", "unknown"},
     argv : {"none", "plain", "redacted", "secret", "shell", "forbidden"},
     binary : {"allowlisted", "other"},
     status : {"draft", "pending_review", "enabled"},
     policy : {"inactive", "active"}]

LEMMA SanitizedShape ==
  ASSUME NEW c \in ContentShape
  PROVE  /\ Sanitized(c) \in ContentShape
         /\ Payload(c) \in ContentShape
         /\ Sanitized(Sanitized(c)) = Sanitized(c)
         /\ Sanitized(c).argv # "secret"
         /\ c.argv # "secret" => Sanitized(c) = c
  <1>1. /\ c.argv = "secret" => Sanitized(c) = [c EXCEPT !.argv = "redacted"]
        /\ c.argv # "secret" => Sanitized(c) = c
    BY DEF ContentShape, Sanitized
  <1>2. PICK a \in {c.argv, "redacted"} : a # "secret" /\ Sanitized(c) = [c EXCEPT !.argv = a]
    BY <1>1 DEF ContentShape
  <1>3. PICK d \in ContentShape : d = Sanitized(c) /\ d.argv # "secret"
    BY <1>2 DEF ContentShape
  <1>4. Sanitized(d) = d
    BY <1>3 DEF ContentShape, Sanitized
  <1>5. Payload(c) \in ContentShape
    <2>1. PICK t \in {"command_template", "runtime_handler"} :
            Payload(c) = [d EXCEPT !.type = t, !.status = "draft", !.policy = "inactive"]
      BY <1>3 DEF Payload, ContentShape
    <2> QED
      BY <2>1 DEF ContentShape
  <1> QED
    BY <1>1, <1>3, <1>4, <1>5

LEMMA ContentsShape == BuilderAssumption => Contents \subseteq ContentShape
  BY SanitizedShape DEF Contents, BuilderAssumption, ContentShape

\* To redact a content twice is to redact it once, so that a proposal that is
\* validated again stays within the contents.
LEMMA ContentsClosed ==
  ASSUME BuilderAssumption, NEW c \in Contents
  PROVE  Sanitized(c) \in Contents
  <1> DEFINE Proposed == Requested \cup {Payload(d) : d \in Requested} \cup Entered
  <1>1. Contents = Proposed \cup {Sanitized(d) : d \in Proposed}
    BY DEF Contents
  <1>2. Proposed \subseteq ContentShape
    BY SanitizedShape DEF BuilderAssumption, ContentShape
  <1> HIDE DEF Proposed
  <1>3. CASE c \in Proposed
    BY <1>1, <1>3
  <1>4. CASE \E d \in Proposed : c = Sanitized(d)
    BY <1>1, <1>2, <1>4, SanitizedShape
  <1> QED
    BY <1>1, <1>3, <1>4

\* What the conversion converts is what it has validated, redacted: a content
\* without errors has no secret to redact, or its command is not looked at.
LEMMA SanitizedValid ==
  ASSUME BuilderAssumption, NEW c \in Contents, Errors(c) = {}
  PROVE  Errors(Sanitized(c)) = {}
  <1>1. c \in ContentShape
    BY ContentsShape
  <1>2. CASE c.argv # "secret"
    BY <1>1, <1>2, SanitizedShape
  <1>3. CASE c.argv = "secret"
    <2>1. c.type # "command_template"
      <3>1. "secret" \in CommandErrors(c)
        BY <1>3 DEF CommandErrors
      <3> QED
        BY <3>1 DEF Errors
    <2>2. /\ Sanitized(c).type = c.type /\ Sanitized(c).handler = c.handler
          /\ Sanitized(c).status = c.status /\ Sanitized(c).policy = c.policy
      BY <1>1 DEF Sanitized, ContentShape
    <2> QED
      BY <2>1, <2>2 DEF Errors
  <1> QED
    BY <1>2, <1>3

-----------------------------------------------------------------------------

LEMMA InitInv == BuilderAssumption /\ Init => Inv
  <1> SUFFICES ASSUME BuilderAssumption, Init PROVE Inv
    OBVIOUS
  <1>1. request.content \in Requested /\ request.content \in Contents
    BY DEF Init, Contents
  <1>2. TypeOK
    BY <1>1 DEF Init, TypeOK, NoCommand
  <1>3. \A a \in Editors : editor[a] = Idle /\ editor[a].action = "none"
    BY DEF Init, Idle
  <1>4. OneGenerator /\ \A a \in Editors : EditorRight(a)
    BY <1>3 DEF OneGenerator, EditorRight
  <1>5. ApprovedReviewed /\ CommandRight /\ BuiltIsSound /\ ConvertedHasTool
    BY DEF Init, ApprovedReviewed, CommandRight, BuiltIsSound, BuiltWasApproved,
           BuiltIsValid, ConvertedHasTool, Exists, NoCommand
  <1> QED
    BY <1>1, <1>2, <1>4, <1>5 DEF Inv

\* An action that is under way is at one of its commits.
LEMMA UnderWay ==
  ASSUME Inv, NEW a \in Editors, NEW action \in Actions, editor[a].action = action
  PROVE  /\ editor[a] # Idle /\ editor[a] \in Acting
         /\ editor[a].of \in Proposals /\ editor[a].copy \in Proposal
         /\ editor[a].copy.content \in Contents
  <1>1. editor[a] # Idle
    BY DEF Idle, Actions
  <1>2. editor[a] \in Acting
    BY <1>1 DEF Inv, TypeOK
  <1> QED
    BY <1>1, <1>2 DEF Acting, Proposal

\* No review is withdrawn, no proposal deleted, no conversion undone.
Grows == /\ reviews \subseteq reviews'
         /\ \A p \in Proposals : Exists(p) =>
               Exists(p)' /\ (proposal[p].converted => proposal'[p].converted)

\* What the copies of the others vouch for stays true, as long as the proposals
\* they generate are left to them.
LEMMA OthersRight ==
  ASSUME Inv, NEW b \in Editors, editor'[b] = editor[b], Grows,
         \A p \in Proposals : Generating(b, p) => Exists(p)' = Exists(p)
  PROVE  EditorRight(b)'
  <1>1. CASE editor[b] = Idle
    BY <1>1 DEF EditorRight
  <1>2. CASE editor[b] # Idle
    <2>1. editor[b].of \in Proposals
      BY <1>2 DEF Inv, TypeOK, Acting
    <2>2. EditorRight(b)
      BY DEF Inv
    <2> QED
      BY <1>2, <2>1, <2>2 DEF EditorRight, Grows, At, Generating
  <1> QED
    BY <1>1, <1>2

\* The next commit of an action.
LEMMA GoesOn ==
  ASSUME TypeOK, NEW a \in Editors, editor[a] \in Acting, editor[a].at < 2,
         NEW copy \in Proposal, Goes(a, copy)
  PROVE  /\ editor' \in [Editors -> {Idle} \cup Acting]
         /\ editor'[a] \in Acting /\ editor'[a] # Idle
         /\ editor'[a].action = editor[a].action /\ editor'[a].of = editor[a].of
         /\ editor'[a].at = editor[a].at + 1 /\ editor'[a].copy = copy
         /\ \A b \in Editors \ {a} : editor'[b] = editor[b]
  <1>1. editor'[a] = [editor[a] EXCEPT !.at = @ + 1, !.copy = copy]
    BY DEF Goes, TypeOK
  <1>2. /\ editor'[a] \in Acting
        /\ editor'[a].action = editor[a].action /\ editor'[a].of = editor[a].of
        /\ editor'[a].at = editor[a].at + 1 /\ editor'[a].copy = copy
    <2>1. editor[a].at + 1 \in 0 .. 2
      BY DEF Acting
    <2>2. editor'[a] = [action |-> editor[a].action, at |-> editor[a].at + 1,
                        of |-> editor[a].of, copy |-> copy]
      BY <1>1 DEF Acting
    <2> QED
      BY <2>1, <2>2 DEF Acting
  <1>3. editor'[a] # Idle
    BY <1>2 DEF Acting, Actions, Idle
  <1>4. \A b \in Editors \ {a} : editor'[b] = editor[b]
    BY DEF Goes, TypeOK
  <1>5. editor' \in [Editors -> {Idle} \cup Acting]
    BY <1>2 DEF Goes, TypeOK
  <1> QED
    BY <1>2, <1>3, <1>4, <1>5

\* The end of an action.
LEMMA EndsThere ==
  ASSUME TypeOK, NEW a \in Editors, Ends(a)
  PROVE  /\ editor' \in [Editors -> {Idle} \cup Acting]
         /\ editor'[a] = Idle
         /\ \A b \in Editors \ {a} : editor'[b] = editor[b]
         /\ EditorRight(a)'
         /\ OneGenerator => OneGenerator'
  <1>1. /\ editor' \in [Editors -> {Idle} \cup Acting]
        /\ editor'[a] = Idle
        /\ \A b \in Editors \ {a} : editor'[b] = editor[b]
    BY DEF Ends, TypeOK
  <1>2. EditorRight(a)'
    BY <1>1 DEF EditorRight
  <1>3. ~At(a, "generate", 0)'
    BY <1>1 DEF At, Idle
  <1>4. OneGenerator => OneGenerator'
    BY <1>1, <1>3 DEF OneGenerator, At
  <1> QED
    BY <1>1, <1>2, <1>4

\* A row of a proposal is no missing row.
LEMMA RowExists == \A saved \in Proposal : saved # Absent
  BY DEF Proposal, ProposalStatuses, Absent

\* The object that a validation leaves.
LEMMA ValidatedRow ==
  ASSUME BuilderAssumption, NEW copy \in Proposal
  PROVE  /\ Validated(copy) \in Proposal
         /\ Validated(copy).status \notin {"approved", "converted"}
         /\ Validated(copy).converted = copy.converted
         /\ Passes(copy) => Errors(Validated(copy).content) = {}
  <1>1. copy.content \in Contents
    BY DEF Proposal
  <1>2. Sanitized(copy.content) \in Contents
    BY <1>1, ContentsClosed
  <1>3. CASE Errors(copy.content) = {}
    <2>1. Validated(copy) = [copy EXCEPT !.content = Sanitized(copy.content),
                                         !.errors = FALSE, !.status = "pending_review"]
      BY <1>3 DEF Validated
    <2>2. Errors(Sanitized(copy.content)) = {}
      BY <1>1, <1>3, SanitizedValid
    <2> QED
      BY <1>2, <2>1, <2>2 DEF Proposal, ProposalStatuses
  <1>4. CASE Errors(copy.content) # {}
    <2>1. Validated(copy) = [copy EXCEPT !.content = Sanitized(copy.content),
                                         !.errors = TRUE, !.status = "validation_failed"]
      BY <1>4 DEF Validated
    <2> QED
      BY <1>2, <1>4, <2>1 DEF Proposal, ProposalStatuses, Passes
  <1> QED
    BY <1>3, <1>4

\* Its save: the proposal is no longer approved, and is converted if it was.
LEMMA Saved ==
  ASSUME BuilderAssumption, Inv, NEW p \in Proposals, Exists(p), NEW copy \in Proposal,
         SaveValidated(p, copy), UNCHANGED <<request, reviews, definition, enabler>>
  PROVE  /\ proposal' \in [Proposals -> Proposal \cup {Absent}]
         /\ Grows
         /\ \A q \in Proposals : Exists(q)' = Exists(q)
         /\ ApprovedReviewed' /\ CommandRight' /\ BuiltIsSound' /\ ConvertedHasTool'
  <1>1. proposal[p] \in Proposal
    BY DEF Inv, TypeOK, Exists
  <1>2. proposal[p].converted \in BOOLEAN
    BY <1>1 DEF Proposal
  <1> DEFINE saved == [Validated(copy) EXCEPT !.converted = proposal[p].converted]
  <1>3. /\ saved \in Proposal /\ saved.converted = proposal[p].converted
        /\ saved.status \notin {"approved", "converted"}
    BY <1>2, ValidatedRow DEF Proposal
  <1>4. proposal' = [proposal EXCEPT ![p] = saved]
    BY DEF SaveValidated
  <1> HIDE DEF saved
  <1>5. /\ proposal' \in [Proposals -> Proposal \cup {Absent}]
        /\ proposal'[p] = saved
        /\ \A q \in Proposals \ {p} : proposal'[q] = proposal[q]
    BY <1>3, <1>4 DEF Inv, TypeOK
  <1>6. \A q \in Proposals : Exists(q)' = Exists(q)
    BY <1>3, <1>5, RowExists DEF Exists
  <1>7. Grows
    BY <1>3, <1>5, <1>6 DEF Grows
  <1>8. ApprovedReviewed' /\ ConvertedHasTool'
    BY <1>3, <1>5, <1>6 DEF Inv, ApprovedReviewed, ConvertedHasTool
  <1>9. CommandRight' /\ BuiltIsSound'
    BY DEF Inv, CommandRight, BuiltIsSound, BuiltWasApproved, BuiltIsValid
  <1> QED
    BY <1>5, <1>6, <1>7, <1>8, <1>9

-----------------------------------------------------------------------------
(* One lemma for each action, or for actions that do alike.                *)

\* The copies of a generated proposal.
LEMMA GeneratedRow ==
  ASSUME BuilderAssumption, Inv
  PROVE  [status |-> "draft", content |-> Payload(request.content), errors |-> FALSE,
          converted |-> FALSE] \in Proposal
  <1>1. Payload(request.content) \in Contents
    BY DEF Inv, Contents
  <1> QED
    BY <1>1 DEF Proposal, ProposalStatuses

LEMMA SubmitInv ==
  ASSUME BuilderAssumption, Inv, NEW a \in Editors, Submit(a)
  PROVE  Inv'
  <1>1. PICK p \in Proposals :
          /\ ~Exists(p)
          /\ \A b \in Editors : ~(editor[b].action = "generate" /\ editor[b].of = p)
          /\ editor' = [editor EXCEPT ![a] =
                [action |-> "generate", at |-> 0, of |-> p,
                 copy |-> [status |-> "draft", content |-> Payload(request.content),
                           errors |-> FALSE, converted |-> FALSE]]]
    BY DEF Submit
  <1>2. /\ UNCHANGED <<proposal, reviews, definition, enabler>>
        /\ request' = [request EXCEPT !.status = "submitted"]
    BY DEF Submit
  <1>3. /\ editor' \in [Editors -> {Idle} \cup Acting]
        /\ editor'[a].action = "generate" /\ editor'[a].at = 0
        /\ editor'[a].of = p
        /\ editor'[a].copy.status = "draft" /\ editor'[a].copy.converted = FALSE
        /\ \A b \in Editors \ {a} : editor'[b] = editor[b]
    BY <1>1, GeneratedRow DEF Inv, TypeOK, Acting, Actions
  <1>4. /\ request'.content = request.content
        /\ request' \in [status : {"draft", "submitted", "proposed"}, content : Contents]
    BY <1>2 DEF Inv, TypeOK
  <1>5. TypeOK'
    BY <1>2, <1>3, <1>4 DEF Inv, TypeOK
  <1>6. \A b \in Editors \ {a} : editor[b] # Idle => editor[b].of # p
    BY <1>1 DEF Inv, EditorRight, At
  <1>7. OneGenerator'
    <2> SUFFICES ASSUME NEW b \in Editors, NEW c \in Editors, At(b, "generate", 0)',
                        editor'[c] # Idle, editor'[c].of = editor'[b].of
                 PROVE  c = b
      BY DEF OneGenerator
    <2>1. CASE b # a /\ c # a
      BY <1>3, <2>1 DEF Inv, OneGenerator, At
    <2>2. CASE b = a /\ c # a
      BY <1>3, <1>6, <2>2
    <2>3. CASE b # a /\ c = a
      BY <1>3, <1>6, <2>3 DEF At, Idle
    <2> QED
      BY <2>1, <2>2, <2>3
  <1>8. \A b \in Editors : EditorRight(b)'
    <2>1. EditorRight(a)'
      BY <1>1, <1>2, <1>3 DEF EditorRight, At, Exists
    <2>2. Grows
      BY <1>2 DEF Grows, Exists
    <2>3. \A b \in Editors \ {a} : EditorRight(b)'
      BY <1>2, <1>3, <2>2, OthersRight DEF Exists
    <2> QED
      BY <2>1, <2>3
  <1>9. ApprovedReviewed' /\ CommandRight' /\ BuiltIsSound' /\ ConvertedHasTool'
    BY <1>2 DEF Inv, ApprovedReviewed, CommandRight, BuiltIsSound, BuiltWasApproved,
       BuiltIsValid, ConvertedHasTool, Exists
  <1> QED
    BY <1>4, <1>5, <1>7, <1>8, <1>9 DEF Inv

\* An action that goes on, but not to its first commit, leaves the proposals
\* that are being generated to their generators.
LEMMA OneGeneratorLeft ==
  ASSUME OneGenerator, NEW a \in Editors, editor[a] # Idle,
         \A b \in Editors \ {a} : editor'[b] = editor[b],
         editor'[a].of = editor[a].of, ~At(a, "generate", 0)'
  PROVE  OneGenerator'
  <1> SUFFICES ASSUME NEW b \in Editors, NEW c \in Editors, At(b, "generate", 0)',
                      editor'[c] # Idle, editor'[c].of = editor'[b].of
               PROVE  c = b
    BY DEF OneGenerator
  <1>1. b # a /\ At(b, "generate", 0) /\ editor'[b] = editor[b]
    BY DEF At
  <1> QED
    BY <1>1 DEF OneGenerator

LEMMA CreateInv ==
  ASSUME BuilderAssumption, Inv, NEW a \in Editors, Create(a)
  PROVE  Inv'
  <1>1. At(a, "generate", 0) /\ editor[a] \in Acting /\ editor[a] # Idle
    BY UnderWay DEF Create, At, Actions
  <1>2. PICK p \in Proposals, copy \in Proposal :
          p = editor[a].of /\ copy = editor[a].copy
    BY <1>1 DEF Acting
  <1>3. /\ UNCHANGED <<request, reviews, definition, enabler>>
        /\ proposal' = [proposal EXCEPT ![p] = copy]
        /\ Goes(a, copy)
    BY <1>2 DEF Create
  <1>4. ~Exists(p) /\ copy.status \notin {"approved", "converted"}
        /\ copy.converted = FALSE
    BY <1>1, <1>2 DEF Inv, EditorRight, At
  <1>5. /\ editor' \in [Editors -> {Idle} \cup Acting]
        /\ editor'[a] # Idle /\ editor'[a].action = "generate"
        /\ editor'[a].of = p /\ editor'[a].at = 1 /\ editor'[a].copy = copy
        /\ \A b \in Editors \ {a} : editor'[b] = editor[b]
    BY <1>1, <1>2, <1>3, GoesOn DEF Inv, At
  <1>6. /\ proposal' \in [Proposals -> Proposal \cup {Absent}]
        /\ proposal'[p] = copy
        /\ \A q \in Proposals \ {p} : proposal'[q] = proposal[q]
    BY <1>2, <1>3 DEF Inv, TypeOK
  <1>7. TypeOK'
    BY <1>3, <1>5, <1>6 DEF Inv, TypeOK
  <1>8. Exists(p)'
    BY <1>2, <1>6, RowExists DEF Exists
  <1>9. OneGenerator'
    <2>1. ~At(a, "generate", 0)'
      BY <1>5 DEF At
    <2> QED
      BY <1>1, <1>2, <1>5, <2>1, OneGeneratorLeft DEF Inv
  <1>10. \A b \in Editors : EditorRight(b)'
    <2>1. EditorRight(a)'
      BY <1>3, <1>4, <1>5, <1>8 DEF EditorRight, At
    <2>2. Grows
      BY <1>3, <1>4, <1>6, <1>8 DEF Grows, Exists
    <2>3. ASSUME NEW b \in Editors \ {a} PROVE EditorRight(b)'
      <3>1. ~Generating(b, p)
        BY <1>1, <1>2 DEF Inv, OneGenerator, Generating, At, Idle
      <3>2. \A q \in Proposals : Generating(b, q) => Exists(q)' = Exists(q)
        BY <1>6, <3>1 DEF Exists
      <3> QED
        BY <1>5, <2>2, <3>2, OthersRight
    <2> QED
      BY <2>1, <2>3
  <1>11. ApprovedReviewed' /\ ConvertedHasTool'
    BY <1>3, <1>4, <1>6 DEF Inv, ApprovedReviewed, ConvertedHasTool, Exists
  <1>12. CommandRight' /\ BuiltIsSound'
    BY <1>3 DEF Inv, CommandRight, BuiltIsSound, BuiltWasApproved, BuiltIsValid
  <1> QED
    BY <1>3, <1>7, <1>9, <1>10, <1>11, <1>12 DEF Inv

\* What the actions that create no proposal have in common: where they end, ...
LEMMA EditorsEnd ==
  ASSUME Inv, NEW a \in Editors, Ends(a), Grows,
         \A q \in Proposals : Exists(q)' = Exists(q)
  PROVE  /\ editor' \in [Editors -> {Idle} \cup Acting]
         /\ OneGenerator'
         /\ \A b \in Editors : EditorRight(b)'
  <1>1. /\ editor' \in [Editors -> {Idle} \cup Acting]
        /\ \A b \in Editors \ {a} : editor'[b] = editor[b]
        /\ EditorRight(a)' /\ OneGenerator'
    BY EndsThere DEF Inv
  <1>2. \A b \in Editors \ {a} : EditorRight(b)'
    BY <1>1, OthersRight
  <1> QED
    BY <1>1, <1>2

\* ... and where they go on.
LEMMA EditorsGo ==
  ASSUME Inv, NEW a \in Editors, editor[a] \in Acting, editor[a] # Idle, editor[a].at < 2,
         NEW copy \in Proposal, Goes(a, copy), EditorRight(a)', Grows,
         \A q \in Proposals : Exists(q)' = Exists(q)
  PROVE  /\ editor' \in [Editors -> {Idle} \cup Acting]
         /\ OneGenerator'
         /\ \A b \in Editors : EditorRight(b)'
  <1>1. /\ editor' \in [Editors -> {Idle} \cup Acting]
        /\ editor'[a].of = editor[a].of /\ editor'[a].at = editor[a].at + 1
        /\ \A b \in Editors \ {a} : editor'[b] = editor[b]
    BY GoesOn DEF Inv
  <1>2. ~At(a, "generate", 0)'
    BY <1>1 DEF At, Acting
  <1>3. OneGenerator'
    BY <1>1, <1>2, OneGeneratorLeft DEF Inv
  <1>4. \A b \in Editors \ {a} : EditorRight(b)'
    BY <1>1, OthersRight
  <1> QED
    BY <1>1, <1>3, <1>4

\* An action that writes no proposal.
LEMMA NothingWritten ==
  ASSUME Inv, UNCHANGED <<proposal, definition, enabler>>, reviews \subseteq reviews'
  PROVE  /\ Grows
         /\ \A q \in Proposals : Exists(q)' = Exists(q)
         /\ ApprovedReviewed' /\ CommandRight' /\ BuiltIsSound' /\ ConvertedHasTool'
  BY DEF Inv, Grows, Exists, ApprovedReviewed, CommandRight, BuiltIsSound,
     BuiltWasApproved, BuiltIsValid, ConvertedHasTool

\* The copy that an action works with.
LEMMA CopyAtHand ==
  ASSUME Inv, NEW a \in Editors, NEW action \in Actions, editor[a].action = action,
         ~At(a, "generate", 0)
  PROVE  \E p \in Proposals, copy \in Proposal :
            p = editor[a].of /\ copy = editor[a].copy /\ Exists(p)
  <1>1. editor[a] # Idle /\ editor[a].of \in Proposals /\ editor[a].copy \in Proposal
    BY UnderWay
  <1>2. Exists(editor[a].of)
    BY <1>1 DEF Inv, EditorRight
  <1> QED
    BY <1>1, <1>2

LEMMA ValidateNewInv ==
  ASSUME BuilderAssumption, Inv, NEW a \in Editors, ValidateNew(a)
  PROVE  Inv'
  <1>1. /\ editor[a].action = "generate" /\ editor[a].at = 1 /\ ~At(a, "generate", 0)
        /\ editor[a] \in Acting /\ editor[a] # Idle
    BY UnderWay DEF ValidateNew, At, Actions
  <1>2. PICK p \in Proposals, copy \in Proposal :
          p = editor[a].of /\ copy = editor[a].copy /\ Exists(p)
    BY <1>1, CopyAtHand DEF Actions
  <1>3. /\ UNCHANGED <<request, reviews, definition, enabler>>
        /\ SaveValidated(p, copy)
        /\ Goes(a, Validated(copy))
    BY <1>2 DEF ValidateNew
  <1>4. /\ proposal' \in [Proposals -> Proposal \cup {Absent}]
        /\ Grows
        /\ \A q \in Proposals : Exists(q)' = Exists(q)
        /\ ApprovedReviewed' /\ CommandRight' /\ BuiltIsSound' /\ ConvertedHasTool'
    BY <1>2, <1>3, Saved
  <1>5. /\ Validated(copy) \in Proposal
        /\ Validated(copy).status \notin {"approved", "converted"}
        /\ Validated(copy).converted = FALSE
    BY <1>1, <1>2, ValidatedRow DEF Inv, EditorRight
  <1>6. /\ editor'[a].action = "generate" /\ editor'[a].of = p /\ editor'[a].at = 2
        /\ editor'[a].copy = Validated(copy)
    BY <1>1, <1>2, <1>3, <1>5, GoesOn DEF Inv
  <1>7. EditorRight(a)'
    BY <1>2, <1>4, <1>5, <1>6 DEF EditorRight, At
  <1>8. /\ editor' \in [Editors -> {Idle} \cup Acting]
        /\ OneGenerator'
        /\ \A b \in Editors : EditorRight(b)'
    BY <1>1, <1>3, <1>4, <1>5, <1>7, EditorsGo
  <1>9. TypeOK'
    BY <1>3, <1>4, <1>8 DEF Inv, TypeOK
  <1> QED
    BY <1>3, <1>4, <1>8, <1>9 DEF Inv

\* The steps that only end an action: the proposal is announced in the request,
\* the conversion is refused, the action dies.
LEMMA EndingInv ==
  ASSUME Inv, NEW a \in Editors, Propose(a) \/ RefuseConversion(a) \/ Dies(a)
  PROVE  Inv'
  <1>1. /\ UNCHANGED <<proposal, reviews, definition, enabler>> /\ Ends(a)
        /\ request' \in {request, [request EXCEPT !.status = "proposed"]}
    BY DEF Propose, RefuseConversion, Dies
  <1>2. /\ Grows
        /\ \A q \in Proposals : Exists(q)' = Exists(q)
        /\ ApprovedReviewed' /\ CommandRight' /\ BuiltIsSound' /\ ConvertedHasTool'
    BY <1>1, NothingWritten
  <1>3. /\ editor' \in [Editors -> {Idle} \cup Acting]
        /\ OneGenerator'
        /\ \A b \in Editors : EditorRight(b)'
    BY <1>1, <1>2, EditorsEnd
  <1>4. /\ request' \in [status : {"draft", "submitted", "proposed"}, content : Contents]
        /\ request'.content = request.content
    BY <1>1 DEF Inv, TypeOK
  <1>5. TypeOK'
    BY <1>1, <1>3, <1>4 DEF Inv, TypeOK
  <1> QED
    BY <1>2, <1>3, <1>4, <1>5 DEF Inv

\* What is read of a proposal is true of it at that time.
LEMMA SelectInv ==
  ASSUME BuilderAssumption, Inv, NEW a \in Editors, Select(a)
  PROVE  Inv'
  <1>1. PICK p \in Proposals, action \in Actions \ {"generate"} :
          /\ Exists(p)
          /\ editor' = [editor EXCEPT ![a] =
                [action |-> action, at |-> 0, of |-> p,
                 copy |-> Copy(action, proposal[p])]]
    BY DEF Select
  <1>2. UNCHANGED <<request, proposal, reviews, definition, enabler>>
    BY DEF Select
  <1>3. proposal[p] \in Proposal
    BY <1>1 DEF Inv, TypeOK, Exists
  <1>4. Payload(request.content) \in Contents
    BY DEF Inv, Contents
  <1>5. /\ Copy(action, proposal[p]) \in Proposal
        /\ Copy(action, proposal[p]).status \in {proposal[p].status, "draft"}
    <2>1. (action = "approve" /\ proposal[p].errors) \in BOOLEAN
      OBVIOUS
    <2> QED
      BY <1>3, <1>4, <2>1 DEF Copy, Proposal, ProposalStatuses
  <1>6. /\ editor' \in [Editors -> {Idle} \cup Acting]
        /\ editor'[a] = [action |-> action, at |-> 0, of |-> p,
                         copy |-> Copy(action, proposal[p])]
        /\ \A b \in Editors \ {a} : editor'[b] = editor[b]
    BY <1>1, <1>5 DEF Inv, TypeOK, Acting
  <1>7. /\ editor'[a].action = action /\ editor'[a].at = 0 /\ editor'[a].of = p
        /\ editor'[a].copy = Copy(action, proposal[p])
        /\ action # "generate"
    BY <1>6
  <1>8. /\ Grows
        /\ \A q \in Proposals : Exists(q)' = Exists(q)
        /\ ApprovedReviewed' /\ CommandRight' /\ BuiltIsSound' /\ ConvertedHasTool'
    BY <1>2, NothingWritten
  <1>9. EditorRight(a)'
    <2>1. /\ proposal[p].status = "approved" => p \in reviews
          /\ proposal[p].status = "converted" => proposal[p].converted
      BY <1>1 DEF Inv, ApprovedReviewed, ConvertedHasTool
    <2> QED
      BY <1>1, <1>2, <1>5, <1>7, <1>8, <2>1 DEF EditorRight, At
  <1>10. \A b \in Editors \ {a} : EditorRight(b)'
    BY <1>6, <1>8, OthersRight
  <1>11. OneGenerator'
    <2> SUFFICES ASSUME NEW b \in Editors, NEW c \in Editors, At(b, "generate", 0)',
                        editor'[c] # Idle, editor'[c].of = editor'[b].of
                 PROVE  c = b
      BY DEF OneGenerator
    <2>1. b # a /\ At(b, "generate", 0) /\ editor'[b] = editor[b] /\ editor[b] # Idle
      BY <1>6, <1>7 DEF At, Idle
    <2>2. ~Exists(editor[b].of)
      BY <2>1 DEF Inv, EditorRight
    <2>3. c # a
      BY <1>1, <1>7, <2>1, <2>2
    <2> QED
      BY <1>6, <2>1, <2>3 DEF Inv, OneGenerator
  <1>12. TypeOK'
    BY <1>2, <1>6 DEF Inv, TypeOK
  <1> QED
    BY <1>2, <1>8, <1>9, <1>10, <1>11, <1>12 DEF Inv

LEMMA ValidateInv ==
  ASSUME BuilderAssumption, Inv, NEW a \in Editors, Validate(a)
  PROVE  Inv'
  <1>1. PICK p \in Proposals, copy \in Proposal :
          p = editor[a].of /\ copy = editor[a].copy /\ Exists(p)
    BY CopyAtHand DEF Validate, At, Actions
  <1>2. /\ UNCHANGED <<request, reviews, definition, enabler>>
        /\ SaveValidated(p, copy) /\ Ends(a)
    BY <1>1 DEF Validate
  <1>3. /\ proposal' \in [Proposals -> Proposal \cup {Absent}]
        /\ Grows
        /\ \A q \in Proposals : Exists(q)' = Exists(q)
        /\ ApprovedReviewed' /\ CommandRight' /\ BuiltIsSound' /\ ConvertedHasTool'
    BY <1>1, <1>2, Saved
  <1>4. /\ editor' \in [Editors -> {Idle} \cup Acting]
        /\ OneGenerator'
        /\ \A b \in Editors : EditorRight(b)'
    BY <1>2, <1>3, EditorsEnd
  <1>5. TypeOK'
    BY <1>2, <1>3, <1>4 DEF Inv, TypeOK
  <1> QED
    BY <1>2, <1>3, <1>4, <1>5 DEF Inv

\* A write to one proposal that exists, of a status that its review and its
\* conversion justify.
LEMMA Rewritten ==
  ASSUME Inv, NEW p \in Proposals, Exists(p), NEW saved \in Proposal,
         proposal' = [proposal EXCEPT ![p] = saved],
         saved.converted = proposal[p].converted,
         saved.status = "approved" => p \in reviews,
         saved.status = "converted" => saved.converted,
         UNCHANGED <<reviews, definition, enabler>>
  PROVE  /\ proposal' \in [Proposals -> Proposal \cup {Absent}]
         /\ Grows
         /\ \A q \in Proposals : Exists(q)' = Exists(q)
         /\ ApprovedReviewed' /\ CommandRight' /\ BuiltIsSound' /\ ConvertedHasTool'
  <1>1. /\ proposal' \in [Proposals -> Proposal \cup {Absent}]
        /\ proposal'[p] = saved
        /\ \A q \in Proposals \ {p} : proposal'[q] = proposal[q]
    BY DEF Inv, TypeOK
  <1>2. \A q \in Proposals : Exists(q)' = Exists(q)
    BY <1>1, RowExists DEF Exists
  <1>3. Grows
    BY <1>1, <1>2 DEF Grows
  <1>4. ApprovedReviewed' /\ ConvertedHasTool'
    BY <1>1, <1>2 DEF Inv, ApprovedReviewed, ConvertedHasTool
  <1>5. CommandRight' /\ BuiltIsSound'
    BY DEF Inv, CommandRight, BuiltIsSound, BuiltWasApproved, BuiltIsValid
  <1> QED
    BY <1>1, <1>2, <1>3, <1>4, <1>5

LEMMA EditInv ==
  ASSUME BuilderAssumption, Inv, NEW a \in Editors, Edit(a)
  PROVE  Inv'
  <1>1. PICK p \in Proposals, copy \in Proposal :
          p = editor[a].of /\ copy = editor[a].copy /\ Exists(p)
    BY CopyAtHand DEF Edit, At, Actions
  <1>2. PICK content \in Entered :
          proposal' = [proposal EXCEPT ![p] =
              [@ EXCEPT !.status = copy.status, !.content = content]]
    BY <1>1 DEF Edit
  <1>3. UNCHANGED <<request, reviews, definition, enabler>> /\ Ends(a)
    BY DEF Edit
  <1>4. PICK saved : saved = [proposal[p] EXCEPT !.status = copy.status, !.content = content]
    OBVIOUS
  <1>5. proposal' = [proposal EXCEPT ![p] = saved]
    BY <1>2, <1>4
  <1>6. proposal[p] \in Proposal /\ content \in Contents
    BY <1>1 DEF Inv, TypeOK, Exists, Contents
  <1>7. /\ saved \in Proposal /\ saved.converted = proposal[p].converted
        /\ saved.status = copy.status
    BY <1>4, <1>6 DEF Proposal
  <1>8. /\ copy.status = "approved" => p \in reviews
        /\ copy.status = "converted" => proposal[p].converted
    <2>1. editor[a] # Idle
      BY DEF Edit, At, Idle
    <2> QED
      BY <1>1, <2>1 DEF Inv, EditorRight
  <1>9. /\ proposal' \in [Proposals -> Proposal \cup {Absent}]
        /\ Grows
        /\ \A q \in Proposals : Exists(q)' = Exists(q)
        /\ ApprovedReviewed' /\ CommandRight' /\ BuiltIsSound' /\ ConvertedHasTool'
    BY <1>1, <1>3, <1>5, <1>7, <1>8, Rewritten
  <1>10. /\ editor' \in [Editors -> {Idle} \cup Acting]
         /\ OneGenerator'
         /\ \A b \in Editors : EditorRight(b)'
    BY <1>3, <1>9, EditorsEnd
  <1>11. TypeOK'
    BY <1>3, <1>9, <1>10 DEF Inv, TypeOK
  <1> QED
    BY <1>3, <1>9, <1>10, <1>11 DEF Inv

\* The review is on record before the proposal is approved.
LEMMA ReviewInv ==
  ASSUME Inv, NEW a \in Editors, Review(a)
  PROVE  Inv'
  <1>1. PICK action \in {"approve", "reject"} :
          /\ editor[a].action = action /\ editor[a].at = 0
          /\ reviews' = IF action = "approve" THEN reviews \cup {editor[a].of}
                        ELSE reviews
    BY DEF Review, At
  <1>2. /\ editor[a] \in Acting /\ editor[a] # Idle /\ action \in Actions
        /\ ~At(a, "generate", 0)
    BY <1>1, UnderWay DEF At, Actions
  <1>3. PICK p \in Proposals, copy \in Proposal :
          p = editor[a].of /\ copy = editor[a].copy /\ Exists(p)
    BY <1>1, <1>2, CopyAtHand
  <1>4. UNCHANGED <<request, proposal, definition, enabler>> /\ Goes(a, copy)
    BY <1>3 DEF Review
  <1>5. /\ reviews \subseteq reviews' /\ reviews' \subseteq Proposals
        /\ action = "approve" => p \in reviews'
    BY <1>1, <1>3 DEF Inv, TypeOK
  <1>6. /\ Grows
        /\ \A q \in Proposals : Exists(q)' = Exists(q)
        /\ ApprovedReviewed' /\ CommandRight' /\ BuiltIsSound' /\ ConvertedHasTool'
    BY <1>4, <1>5, NothingWritten
  <1>7. /\ editor'[a].action = action /\ editor'[a].of = p /\ editor'[a].at = 1
        /\ editor'[a].copy = copy
    BY <1>1, <1>2, <1>3, <1>4, GoesOn DEF Inv
  <1>8. EditorRight(a)'
    BY <1>1, <1>2, <1>3, <1>4, <1>5, <1>6, <1>7 DEF Inv, EditorRight, At
  <1>9. /\ editor' \in [Editors -> {Idle} \cup Acting]
        /\ OneGenerator'
        /\ \A b \in Editors : EditorRight(b)'
    BY <1>1, <1>2, <1>4, <1>6, <1>8, EditorsGo
  <1>10. TypeOK'
    BY <1>4, <1>5, <1>9 DEF Inv, TypeOK
  <1> QED
    BY <1>4, <1>6, <1>9, <1>10 DEF Inv

LEMMA DecideInv ==
  ASSUME Inv, NEW a \in Editors, Decide(a)
  PROVE  Inv'
  <1>1. PICK action \in {"approve", "reject"} :
          /\ At(a, action, 1)
          /\ IF MayDecide(action, editor[a].copy)
             THEN proposal' = [proposal EXCEPT ![editor[a].of].status = Decision(action)]
             ELSE proposal' = proposal
          /\ Ends(a)
          /\ UNCHANGED <<request, reviews, definition, enabler>>
    BY DEF Decide
  <1>2. PICK p \in Proposals, copy \in Proposal :
          p = editor[a].of /\ copy = editor[a].copy /\ Exists(p)
    BY <1>1, CopyAtHand DEF At, Actions
  <1>3. /\ proposal' \in [Proposals -> Proposal \cup {Absent}]
        /\ Grows
        /\ \A q \in Proposals : Exists(q)' = Exists(q)
        /\ ApprovedReviewed' /\ CommandRight' /\ BuiltIsSound' /\ ConvertedHasTool'
    <2>1. CASE MayDecide(action, copy)
      <3>1. PICK saved : saved = [proposal[p] EXCEPT !.status = Decision(action)]
        OBVIOUS
      <3>2. proposal' = [proposal EXCEPT ![p] = saved]
        BY <1>1, <1>2, <2>1, <3>1
      <3>3. proposal[p] \in Proposal
        BY <1>2 DEF Inv, TypeOK, Exists
      <3>4. /\ saved \in Proposal /\ saved.converted = proposal[p].converted
            /\ saved.status = Decision(action) /\ saved.status # "converted"
        BY <3>1, <3>3 DEF Proposal, ProposalStatuses, Decision
      <3>5. saved.status = "approved" => p \in reviews
        <4>1. editor[a] # Idle
          BY <1>1 DEF At, Idle
        <4> QED
          BY <1>1, <1>2, <3>4, <4>1 DEF Inv, EditorRight, Decision
      <3> QED
        BY <1>1, <1>2, <3>2, <3>4, <3>5, Rewritten
    <2>2. CASE ~MayDecide(action, copy)
      <3>1. UNCHANGED <<proposal, reviews, definition, enabler>>
        BY <1>1, <1>2, <2>2
      <3> QED
        BY <3>1, NothingWritten DEF Inv, TypeOK
    <2> QED
      BY <2>1, <2>2
  <1>4. /\ editor' \in [Editors -> {Idle} \cup Acting]
        /\ OneGenerator'
        /\ \A b \in Editors : EditorRight(b)'
    BY <1>1, <1>3, EditorsEnd
  <1>5. TypeOK'
    BY <1>1, <1>3, <1>4 DEF Inv, TypeOK
  <1> QED
    BY <1>1, <1>3, <1>4, <1>5 DEF Inv

\* The conversion validates the copy it converts.
LEMMA RevalidateInv ==
  ASSUME BuilderAssumption, Inv, NEW a \in Editors, Revalidate(a)
  PROVE  Inv'
  <1>1. /\ editor[a].action = "convert" /\ editor[a].at = 0 /\ ~At(a, "generate", 0)
        /\ editor[a] \in Acting /\ editor[a] # Idle
    BY UnderWay DEF Revalidate, At, Actions
  <1>2. PICK p \in Proposals, copy \in Proposal :
          p = editor[a].of /\ copy = editor[a].copy /\ Exists(p)
    BY <1>1, CopyAtHand DEF Actions
  <1>3. /\ UNCHANGED <<request, reviews, definition, enabler>>
        /\ SaveValidated(p, copy)
        /\ copy.status = "approved"
        /\ IF Passes(copy) THEN Goes(a, Validated(copy)) ELSE Ends(a)
    BY <1>2 DEF Revalidate, Convertible
  <1>4. /\ proposal' \in [Proposals -> Proposal \cup {Absent}]
        /\ Grows
        /\ \A q \in Proposals : Exists(q)' = Exists(q)
        /\ ApprovedReviewed' /\ CommandRight' /\ BuiltIsSound' /\ ConvertedHasTool'
    BY <1>2, <1>3, Saved
  <1>5. /\ editor' \in [Editors -> {Idle} \cup Acting]
        /\ OneGenerator'
        /\ \A b \in Editors : EditorRight(b)'
    <2>1. CASE ~Passes(copy)
      BY <1>3, <1>4, <2>1, EditorsEnd
    <2>2. CASE Passes(copy)
      <3>1. /\ Validated(copy) \in Proposal
            /\ Validated(copy).status \notin {"approved", "converted"}
            /\ Errors(Validated(copy).content) = {}
        BY <2>2, ValidatedRow
      <3>2. /\ editor'[a].action = "convert" /\ editor'[a].of = p
            /\ editor'[a].at = 1 /\ editor'[a].copy = Validated(copy)
        BY <1>1, <1>2, <1>3, <2>2, <3>1, GoesOn DEF Inv
      <3>3. p \in reviews
        BY <1>1, <1>2, <1>3 DEF Inv, EditorRight
      <3>4. EditorRight(a)'
        BY <1>2, <1>3, <1>4, <3>1, <3>2, <3>3 DEF EditorRight, At
      <3> QED
        BY <1>1, <1>3, <1>4, <2>2, <3>1, <3>4, EditorsGo
    <2> QED
      BY <2>1, <2>2
  <1>6. TypeOK'
    BY <1>3, <1>4, <1>5 DEF Inv, TypeOK
  <1> QED
    BY <1>3, <1>4, <1>5, <1>6 DEF Inv

LEMMA ConvertInv ==
  ASSUME Inv, NEW a \in Editors, Convert(a)
  PROVE  Inv'
  <1>1. /\ editor[a].action = "convert" /\ At(a, "convert", 1) /\ ~At(a, "generate", 0)
        /\ editor[a] # Idle
    BY UnderWay DEF Convert, At, Actions
  <1>2. PICK p \in Proposals, copy \in Proposal :
          p = editor[a].of /\ copy = editor[a].copy /\ Exists(p)
    BY <1>1, CopyAtHand DEF Actions
  <1>3. UNCHANGED <<request, reviews, enabler>> /\ Ends(a)
    BY DEF Convert
  <1>4. CASE definition # Absent
    <2>1. UNCHANGED <<proposal, reviews, definition, enabler>>
      BY <1>3, <1>4 DEF Convert, KeyIsFree
    <2>2. /\ Grows
          /\ \A q \in Proposals : Exists(q)' = Exists(q)
          /\ ApprovedReviewed' /\ CommandRight' /\ BuiltIsSound' /\ ConvertedHasTool'
      BY <2>1, NothingWritten
    <2>3. /\ editor' \in [Editors -> {Idle} \cup Acting]
          /\ OneGenerator'
          /\ \A b \in Editors : EditorRight(b)'
      BY <1>3, <2>2, EditorsEnd
    <2>4. TypeOK'
      BY <1>3, <2>1, <2>3 DEF Inv, TypeOK
    <2> QED
      BY <1>3, <2>2, <2>3, <2>4 DEF Inv
  <1>5. CASE definition = Absent
    <2>1. /\ definition' = [status |-> "draft", from |-> p, content |-> copy.content,
                            open |-> FALSE]
          /\ proposal' = [proposal EXCEPT ![p] =
                [@ EXCEPT !.status = "converted", !.converted = TRUE]]
      BY <1>2, <1>5 DEF Convert, KeyIsFree, Draft
    <2>2. PICK saved : saved = [proposal[p] EXCEPT !.status = "converted", !.converted = TRUE]
      OBVIOUS
    <2>3. proposal[p] \in Proposal /\ copy.content \in Contents
      BY <1>2 DEF Inv, TypeOK, Exists, Proposal
    <2>4. saved \in Proposal /\ saved.converted = TRUE /\ saved.status = "converted"
      BY <2>2, <2>3 DEF Proposal, ProposalStatuses
    <2>5. /\ proposal' \in [Proposals -> Proposal \cup {Absent}]
          /\ proposal'[p] = saved
          /\ \A q \in Proposals \ {p} : proposal'[q] = proposal[q]
      BY <2>1, <2>2, <2>4 DEF Inv, TypeOK
    <2>6. /\ definition' \in Definition /\ definition' # Absent
          /\ definition'.from = p /\ definition'.content = copy.content
      BY <2>1, <2>3 DEF Definition, Absent
    <2>7. p \in reviews /\ Errors(copy.content) = {}
      BY <1>1, <1>2 DEF Inv, EditorRight
    <2>8. \A q \in Proposals : Exists(q)' = Exists(q)
      BY <1>2, <2>4, <2>5, RowExists DEF Exists
    <2>9. Grows
      BY <1>3, <2>4, <2>5, <2>8 DEF Grows
    <2>10. /\ editor' \in [Editors -> {Idle} \cup Acting]
           /\ OneGenerator'
           /\ \A b \in Editors : EditorRight(b)'
      BY <1>3, <2>8, <2>9, EditorsEnd
    <2>11. TypeOK'
      BY <1>3, <2>5, <2>6, <2>10 DEF Inv, TypeOK
    <2>12. ApprovedReviewed'
      BY <1>3, <2>4, <2>5, <2>8 DEF Inv, ApprovedReviewed
    <2>13. CommandRight'
      BY <1>3, <1>5 DEF Inv, CommandRight
    <2>14. BuiltIsSound'
      BY <1>3, <2>6, <2>7 DEF BuiltIsSound, BuiltWasApproved, BuiltIsValid
    <2>15. ConvertedHasTool'
      BY <1>5, <2>4, <2>5, <2>6, <2>8 DEF Inv, ConvertedHasTool
    <2> QED
      BY <1>3, <2>10, <2>11, <2>12, <2>13, <2>14, <2>15 DEF Inv
  <1> QED
    BY <1>4, <1>5

\* What the command has in hand.
LEMMA CommandRow ==
  ASSUME TypeOK
  PROVE  /\ NoCommand \in [stage : {"idle", "found", "checked"}, enabled : BOOLEAN]
         /\ [enabler EXCEPT !.stage = "checked"]
               \in [stage : {"idle", "found", "checked"}, enabled : BOOLEAN]
  <1>1. NoCommand \in [stage : {"idle", "found", "checked"}, enabled : BOOLEAN]
    BY DEF NoCommand
  <1>2. [enabler EXCEPT !.stage = "checked"]
           \in [stage : {"idle", "found", "checked"}, enabled : BOOLEAN]
    BY DEF TypeOK
  <1> QED
    BY <1>1, <1>2

\* What the proposals and the editors are does not depend on the command.
LEMMA EditorsKept ==
  ASSUME Inv, UNCHANGED <<request, proposal, reviews, editor>>
  PROVE  /\ (request.content \in Requested)' /\ OneGenerator'
         /\ \A a \in Editors : EditorRight(a)'
         /\ ApprovedReviewed'
  <1>1. (request.content \in Requested)' /\ ApprovedReviewed'
    BY DEF Inv, ApprovedReviewed, Exists
  <1>2. OneGenerator'
    BY DEF Inv, OneGenerator, At
  <1>3. \A a \in Editors : EditorRight(a)'
    <2> SUFFICES ASSUME NEW a \in Editors PROVE EditorRight(a)'
      OBVIOUS
    <2>1. EditorRight(a)
      BY DEF Inv
    <2> QED
      BY <2>1 DEF EditorRight, At, Exists
  <1> QED
    BY <1>1, <1>2, <1>3

\* The command and the administrator that disables the tool leave its origin
\* and its content alone.
LEMMA EnablingInv ==
  ASSUME Inv, FindTool \/ CheckOrigin \/ ApplyChanges \/ Disable
  PROVE  Inv'
  <1>1. UNCHANGED <<request, proposal, reviews, editor>>
    BY DEF FindTool, CheckOrigin, ApplyChanges, Disable
  <1>2. CASE FindTool \/ CheckOrigin
    <2>1. /\ definition' = definition
          /\ enabler' \in [stage : {"idle", "found", "checked"}, enabled : BOOLEAN]
      <3>1. CASE FindTool
        <4>1. (definition.status = "enabled") \in BOOLEAN
          OBVIOUS
        <4> QED
          BY <3>1, <4>1 DEF FindTool
      <3>2. CASE CheckOrigin
        BY <3>2, CommandRow DEF CheckOrigin, Inv
      <3> QED
        BY <1>2, <3>1, <3>2
    <2>2. CommandRight'
      BY <1>2, <2>1 DEF FindTool, CheckOrigin, MayEnable, Inv, CommandRight
    <2>3. TypeOK'
      BY <1>1, <2>1 DEF Inv, TypeOK
    <2>4. BuiltIsSound' /\ ConvertedHasTool'
      BY <1>1, <2>1 DEF Inv, BuiltIsSound, BuiltWasApproved, BuiltIsValid,
         ConvertedHasTool, Exists
    <2> QED
      BY <1>1, <2>2, <2>3, <2>4, EditorsKept DEF Inv
  <1>3. CASE ApplyChanges \/ Disable
    <2>1. definition \in Definition
      BY <1>3 DEF ApplyChanges, Disable, Inv, TypeOK, CommandRight
    <2>2. /\ definition' \in Definition
          /\ definition'.from = definition.from
          /\ definition'.content = definition.content
      BY <1>3, <2>1 DEF ApplyChanges, Disable, Definition
    <2>3. definition # Absent /\ definition' # Absent
      BY <1>3, <2>2 DEF ApplyChanges, Disable, Inv, CommandRight, Definition, Absent
    <2>4. enabler' \in {enabler, NoCommand}
      BY <1>3 DEF ApplyChanges, Disable
    <2>5. TypeOK'
      BY <1>1, <2>2, <2>4, CommandRow DEF Inv, TypeOK
    <2>6. CommandRight'
      BY <2>2, <2>3, <2>4 DEF Inv, CommandRight, NoCommand
    <2>7. BuiltIsSound' /\ ConvertedHasTool'
      BY <1>1, <2>2, <2>3 DEF Inv, BuiltIsSound, BuiltWasApproved, BuiltIsValid,
         ConvertedHasTool, Exists
    <2> QED
      BY <1>1, <2>5, <2>6, <2>7, EditorsKept DEF Inv
  <1> QED
    BY <1>2, <1>3

LEMMA NextInv == BuilderAssumption /\ Inv /\ [Next]_vars => Inv'
  <1> SUFFICES ASSUME BuilderAssumption, Inv, [Next]_vars PROVE Inv'
    OBVIOUS
  <1>1. CASE UNCHANGED vars
    <2>1. UNCHANGED <<request, proposal, reviews, editor, definition, enabler>>
      BY <1>1 DEF vars
    <2>2. TypeOK' /\ CommandRight'
      BY <2>1 DEF Inv, TypeOK, CommandRight
    <2>3. BuiltIsSound' /\ ConvertedHasTool'
      BY <2>1 DEF Inv, BuiltIsSound, BuiltWasApproved, BuiltIsValid,
         ConvertedHasTool, Exists
    <2> QED
      BY <2>1, <2>2, <2>3, EditorsKept DEF Inv
  <1>2. ASSUME NEW a \in Editors,
               \/ Submit(a) \/ Create(a) \/ ValidateNew(a) \/ Propose(a)
               \/ Select(a) \/ Validate(a) \/ Edit(a) \/ Review(a) \/ Decide(a)
               \/ RefuseConversion(a) \/ Revalidate(a) \/ Convert(a) \/ Dies(a)
        PROVE  Inv'
    BY <1>2, SubmitInv, CreateInv, ValidateNewInv, EndingInv, SelectInv, ValidateInv,
       EditInv, ReviewInv, DecideInv, RevalidateInv, ConvertInv
  <1>3. CASE FindTool \/ CheckOrigin \/ ApplyChanges \/ Disable
    BY <1>3, EnablingInv
  <1> QED
    BY <1>1, <1>2, <1>3 DEF Next

LEMMA AlwaysInv == Spec => []Inv
  <1>1. Init => Inv
    BY InitInv, BuilderAssumption
  <1>2. Inv /\ [Next]_vars => Inv'
    BY NextInv, BuilderAssumption
  <1> QED
    BY <1>1, <1>2, PTL DEF Spec

-----------------------------------------------------------------------------

\* Every reachable state of the tool builder is well typed: what is entered,
\* requested or redacted stays within the contents, and an action has a copy of
\* a proposal in its hands.
THEOREM TypeCorrect == Spec => []TypeOK
  <1>1. Inv => TypeOK
    BY DEF Inv
  <1> QED
    BY <1>1, AlwaysInv, PTL

\* A tool that was built comes from an approved proposal and is valid, for any
\* number of administrators whose actions overlap.
THEOREM BuiltIsSoundHolds == Spec => []BuiltIsSound
  <1>1. Inv => BuiltIsSound
    BY DEF Inv
  <1> QED
    BY <1>1, AlwaysInv, PTL

\* The proposal that says it was converted is the one the tool comes from.
THEOREM ConvertedHasToolHolds == Spec => []ConvertedHasTool
  <1>1. Inv => ConvertedHasTool
    BY DEF Inv
  <1> QED
    BY <1>1, AlwaysInv, PTL

-----------------------------------------------------------------------------
(* The inventory.                                                          *)

Ingestion == [phase : Phases, todo : SUBSET Nat, items : SUBSET Item,
              read : {Nothing} \cup [item : Item, was : Row] \cup SUBSET Keys]

InventoryTyped ==
    /\ InventoryTypeOK
    /\ row \in [Keys -> Row \cup {Nothing}]
    /\ output \in [Scans -> [Tools -> SUBSET Item]]
    /\ ingest \in [Scans -> [Tools -> Ingestion]]
    /\ \A k \in Scans, t \in Tools : ingest[k][t].todo \subseteq DOMAIN profile[k]

\* A step follows its run, and only a run that succeeded has an output.
StepsFollow == \A k \in Scans, t \in Tools :
    /\ t \notin Range(profile[k]) => run[k][t] = "none"
    /\ step[k][t] = "none" <=> run[k][t] = "none"
    /\ step[k][t] \in {"succeeded", "failed"} => run[k][t] = step[k][t]
    /\ output[k][t] # {} => run[k][t] = "succeeded"

\* Another scan has reported the row as well.
Elsewhere(k, x) == \E j \in Scans \ {k}, u \in Tools : \E y \in output[j][u] : y.key = x

Stored(k, x) == row[x] # Nothing /\ (row[x].scan = k \/ Elsewhere(k, x))

\* The rows of a step are there before the step is saved.
RowsFirst == \A k \in Scans, t \in Tools :
    step[k][t] = "succeeded" => \A x \in Reported(k, t) : Stored(k, x)

AllSaved(k) == \A t \in Tools : step[k][t] \in {"none", "succeeded"}

Sums(k, S) == \A t \in Tools : \A x \in Reported(k, t) : x \in S \/ Elsewhere(k, x)

\* What an ingestion g of scan k stores next.
NextTool(k, g) == profile[k][Min(g.todo)]

Storing(k, g) ==
    LET u == NextTool(k, g)
    IN  /\ g.todo # {} /\ run[k][u] = "succeeded" /\ g.items \subseteq output[k][u]
        /\ \A x \in Reported(k, u) : Stored(k, x) \/ \E y \in g.items : y.key = x

Holding(k, g) ==
    /\ g.read \in [item : Item, was : Row] /\ g.read.item \in g.items
    /\ row[g.read.item.key] # Nothing
    /\ NextTool(k, g) \in Merging \cup LegacyApps \cup Phase2Apps

\* What an ingestion has in hand: a row that it holds is there for ever.
HandRight(k, g) ==
    /\ \A i \in g.todo : run[k][profile[k][i]] # "queued"
    /\ g.phase \in {"tool", "holding"} => Storing(k, g)
    /\ g.phase = "holding" => Holding(k, g)
    /\ g.phase \in {"judged", "counted"} => AllSaved(k)
    /\ g.phase = "counted" => g.read \in SUBSET Keys /\ Sums(k, g.read)

HandsRight == \A k \in Scans, t \in Tools : HandRight(k, ingest[k][t])

\* A verdict stands on steps that are all saved, and these on their rows.
VerdictsRight == \A k \in Scans :
    scan[k] = "succeeded" => AllSaved(k) /\ Sums(k, summary[k])

InventoryInv == InventoryTyped /\ StepsFollow /\ RowsFirst /\ HandsRight /\ VerdictsRight

\* A function of two arguments is changed in one place.
LEMMA Put ==
  ASSUME NEW S, NEW T, NEW V, NEW f \in [S -> [T -> V]],
         NEW a \in S, NEW b \in T, NEW v \in V
  PROVE  /\ [f EXCEPT ![a][b] = v] \in [S -> [T -> V]]
         /\ [f EXCEPT ![a][b] = v][a][b] = v
         /\ \A c \in S, d \in T :
               c # a \/ d # b => [f EXCEPT ![a][b] = v][c][d] = f[c][d]
  OBVIOUS

\* The least of a set of naturals, from the well-foundedness of <.
LEMMA LeastExists ==
  ASSUME NEW T, T \subseteq Nat, T # {}
  PROVE  \E x \in T : \A y \in T : x <= y
  <1> DEFINE R == {p \in Nat \X Nat : p[1] < p[2]}
  <1>1. R = OpToRel(<, Nat)
    BY Zenon DEF OpToRel
  <1>2. IsWellFoundedOn(R, Nat)
    <2> HIDE DEF R
    <2> QED BY <1>1, NatLessThanWellFounded, Zenon
  <1>3. PICK x \in T : \A y \in T : ~ (<<y, x>> \in R)
    <2> HIDE DEF R
    <2> QED BY <1>2, WFMin
  <1>4. ASSUME NEW y \in T PROVE x <= y
    <2>1. x \in Nat /\ y \in Nat
      OBVIOUS
    <2>2. ~ (y < x)
      BY <1>3, <2>1
    <2> QED
      BY <2>1, <2>2
  <1> QED
    BY <1>4

LEMMA MinIsMember ==
  ASSUME NEW T, T \subseteq Nat, T # {}
  PROVE  Min(T) \in T
  BY LeastExists DEF Min

LEMMA NextToolTyped ==
  ASSUME InventoryTyped, NEW k \in Scans, NEW g \in Ingestion,
         g.todo \subseteq DOMAIN profile[k], g.todo # {}
  PROVE  Min(g.todo) \in g.todo /\ NextTool(k, g) \in Tools
  <1>1. g.todo \subseteq Nat
    BY DEF Ingestion
  <1>2. Min(g.todo) \in g.todo
    BY <1>1, MinIsMember
  <1>3. profile[k] \in Seq(Tools)
    BY ProfilesAssumption DEF InventoryTyped, InventoryTypeOK
  <1> QED
    BY <1>2, <1>3 DEF NextTool

LEMMA ReportedKeys ==
  ASSUME InventoryTyped, NEW k \in Scans, NEW t \in Tools
  PROVE  Reported(k, t) \subseteq Keys
  BY DEF Reported, Required, InventoryTyped, Item

-----------------------------------------------------------------------------

\* What no step takes back.
Persists ==
    /\ profile' = profile
    /\ \A k \in Scans, t \in Tools :
          /\ run[k][t] # "queued" => run'[k][t] = run[k][t] /\ output'[k][t] = output[k][t]
          /\ output[k][t] \subseteq output'[k][t]
          /\ step[k][t] \in {"none", "succeeded"} => step'[k][t] = step[k][t]
    /\ \A x \in Keys : row[x] # Nothing => row'[x] # Nothing
    /\ \A k \in Scans, x \in Keys : Stored(k, x) => Stored(k, x)'

LEMMA ElsewhereStays ==
  ASSUME Persists, NEW k \in Scans, NEW x, Elsewhere(k, x)
  PROVE  Elsewhere(k, x)'
  BY DEF Persists, Elsewhere

LEMMA ReportedStays ==
  ASSUME Persists, NEW k \in Scans, NEW t \in Tools, run[k][t] # "queued"
  PROVE  Reported(k, t)' = Reported(k, t)
  BY DEF Persists, Reported, Required

LEMMA SavedStays ==
  ASSUME Persists, StepsFollow, NEW k \in Scans, AllSaved(k)
  PROVE  AllSaved(k)' /\ \A S : Sums(k, S) => Sums(k, S)'
  <1>1. AllSaved(k)'
    BY DEF AllSaved, Persists
  <1>2. ASSUME NEW t \in Tools PROVE run[k][t] # "queued"
    BY DEF AllSaved, StepsFollow
  <1>3. ASSUME NEW S, Sums(k, S) PROVE Sums(k, S)'
    BY <1>2, <1>3, ReportedStays, ElsewhereStays DEF Sums
  <1> QED
    BY <1>1, <1>3

LEMMA HandStays ==
  ASSUME InventoryTyped, StepsFollow, Persists, NEW k \in Scans, NEW g \in Ingestion,
         g.todo \subseteq DOMAIN profile[k], HandRight(k, g)
  PROVE  HandRight(k, g)'
  <1>1. \A i \in g.todo : run'[k][profile'[k][i]] # "queued"
    <2>1. ASSUME NEW i \in g.todo PROVE profile[k][i] \in Tools
      BY ProfilesAssumption DEF InventoryTyped, InventoryTypeOK
    <2> QED
      BY <2>1 DEF HandRight, Persists
  <1>2. ASSUME Storing(k, g) PROVE Storing(k, g)'
    <2>1. NextTool(k, g) \in Tools /\ NextTool(k, g)' = NextTool(k, g)
      BY <1>2, NextToolTyped DEF Storing, Persists, NextTool
    <2>2. /\ Reported(k, NextTool(k, g))' = Reported(k, NextTool(k, g))
          /\ Reported(k, NextTool(k, g)) \subseteq Keys
      BY <1>2, <2>1, ReportedStays, ReportedKeys DEF Storing
    <2>3. PICK u \in Tools : u = NextTool(k, g)
      BY <2>1
    <2> QED
      BY <1>2, <2>1, <2>2, <2>3 DEF Storing, Persists
  <1>3. ASSUME Holding(k, g) PROVE Holding(k, g)'
    <2>1. g.read.item.key \in Keys
      BY <1>3 DEF Holding, Item
    <2> QED
      BY <1>3, <2>1 DEF Holding, Persists, NextTool
  <1>4. ASSUME AllSaved(k) PROVE AllSaved(k)' /\ (Sums(k, g.read) => Sums(k, g.read)')
    BY <1>4, SavedStays
  <1> QED
    BY <1>1, <1>2, <1>3, <1>4 DEF HandRight

\* An ingestion goes on: the others are left alone.
LEMMA MovesOn ==
  ASSUME InventoryInv, Persists, NEW k \in Scans, NEW t \in Tools, NEW h \in Ingestion,
         Proceeds(k, t, h), h.todo \subseteq DOMAIN profile[k], HandRight(k, h)'
  PROVE  /\ ingest' \in [Scans -> [Tools -> Ingestion]]
         /\ \A j \in Scans, u \in Tools : ingest'[j][u].todo \subseteq DOMAIN profile'[j]
         /\ HandsRight'
  <1>1. ingest \in [Scans -> [Tools -> Ingestion]]
    BY DEF InventoryInv, InventoryTyped
  <1>2. /\ ingest' \in [Scans -> [Tools -> Ingestion]]
        /\ ingest'[k][t] = h
        /\ \A j \in Scans, u \in Tools : j # k \/ u # t => ingest'[j][u] = ingest[j][u]
    BY <1>1, Put DEF Proceeds
  <1>3. ASSUME NEW j \in Scans, NEW u \in Tools, j # k \/ u # t
        PROVE  HandRight(j, ingest[j][u])'
    <2>1. /\ ingest[j][u] \in Ingestion /\ HandRight(j, ingest[j][u])
          /\ ingest[j][u].todo \subseteq DOMAIN profile[j]
      BY <1>1 DEF InventoryInv, InventoryTyped, HandsRight
    <2>2. PICK g \in Ingestion : g = ingest[j][u]
      BY <2>1
    <2>3. HandRight(j, g)'
      BY <2>1, <2>2, HandStays DEF InventoryInv
    <2>4. ingest'[j][u] = g
      BY <1>2, <1>3, <2>2
    <2> QED
      BY <2>3, <2>4
  <1>4. HandRight(k, ingest[k][t])'
    BY <1>2
  <1>5. HandsRight'
    BY <1>3, <1>4 DEF HandsRight
  <1>6. ASSUME NEW j \in Scans, NEW u \in Tools
        PROVE  ingest'[j][u].todo \subseteq DOMAIN profile'[j]
    <2>1. profile' = profile /\ ingest[j][u].todo \subseteq DOMAIN profile[j]
      BY DEF InventoryInv, InventoryTyped, Persists
    <2>2. CASE j = k /\ u = t
      BY <1>2, <2>1, <2>2
    <2>3. CASE j # k \/ u # t
      BY <1>2, <2>1, <2>3
    <2> QED
      BY <2>2, <2>3
  <1> QED
    BY <1>2, <1>5, <1>6

\* The steps and the verdicts that a step of the system leaves alone.
LEMMA StepsStay ==
  ASSUME InventoryInv, Persists, UNCHANGED step
  PROVE  RowsFirst'
  <1> SUFFICES ASSUME NEW k \in Scans, NEW t \in Tools, step[k][t] = "succeeded",
                      NEW x \in Reported(k, t)'
               PROVE  Stored(k, x)'
    BY DEF RowsFirst
  <1>1. x \in Reported(k, t) /\ x \in Keys
    BY ReportedStays, ReportedKeys DEF InventoryInv, StepsFollow
  <1> QED
    BY <1>1 DEF InventoryInv, RowsFirst, Persists

LEMMA VerdictsStay ==
  ASSUME InventoryInv, Persists, UNCHANGED <<scan, summary>>
  PROVE  VerdictsRight'
  <1> SUFFICES ASSUME NEW k \in Scans, scan[k] = "succeeded"
               PROVE  AllSaved(k)' /\ Sums(k, summary[k])'
    BY DEF VerdictsRight
  <1>1. AllSaved(k) /\ Sums(k, summary[k])
    BY DEF InventoryInv, VerdictsRight
  <1>2. PICK S : S = summary[k]
    OBVIOUS
  <1>3. AllSaved(k)' /\ Sums(k, S)'
    BY <1>1, <1>2, SavedStays DEF InventoryInv
  <1> QED
    BY <1>2, <1>3

\* A step that only moves an ingestion.
LEMMA QuietStep ==
  ASSUME InventoryInv, NEW k \in Scans, NEW t \in Tools, NEW h \in Ingestion,
         Proceeds(k, t, h), h.todo \subseteq DOMAIN profile[k], HandRight(k, h),
         UNCHANGED <<profile, scanVars, row>>
  PROVE  InventoryInv'
  <1>1. Persists
    BY DEF Persists, scanVars, Stored, Elsewhere
  <1>2. HandRight(k, h)'
    BY <1>1, HandStays DEF InventoryInv
  <1>3. RowsFirst' /\ VerdictsRight'
    BY <1>1, StepsStay, VerdictsStay DEF scanVars
  <1>4. /\ ingest' \in [Scans -> [Tools -> Ingestion]] /\ HandsRight'
        /\ \A j \in Scans, u \in Tools : ingest'[j][u].todo \subseteq DOMAIN profile'[j]
    BY <1>1, <1>2, MovesOn
  <1>5. InventoryTyped'
    BY <1>4 DEF InventoryInv, InventoryTyped, InventoryTypeOK, scanVars, Ingestion
  <1>6. StepsFollow'
    BY DEF InventoryInv, StepsFollow, scanVars
  <1> QED
    BY <1>3, <1>4, <1>5, <1>6 DEF InventoryInv

\* A row is written, by a scan that reported it or without changing its scan.
LEMMA RowWritten ==
  ASSUME InventoryInv, NEW x \in Keys, NEW r \in Row, row' = [row EXCEPT ![x] = r],
         UNCHANGED <<profile, scanVars>>,
         \A k \in Scans : Stored(k, x) => r.scan = k \/ Elsewhere(k, x)
  PROVE  /\ Persists
         /\ row' \in [Keys -> Row \cup {Nothing}]
         /\ StepsFollow' /\ RowsFirst' /\ VerdictsRight'
  <1>1. r # Nothing
    BY NothingAssumption
  <1>2. /\ row' \in [Keys -> Row \cup {Nothing}] /\ row'[x] = r
        /\ \A y \in Keys \ {x} : row'[y] = row[y]
    BY DEF InventoryInv, InventoryTyped
  <1>3. \A k \in Scans : \A y : Elsewhere(k, y)' <=> Elsewhere(k, y)
    BY DEF Elsewhere, scanVars
  <1>4. \A k \in Scans, y \in Keys : Stored(k, y) => Stored(k, y)'
    BY <1>1, <1>2, <1>3 DEF Stored
  <1>5. Persists
    BY <1>1, <1>2, <1>4 DEF Persists, scanVars
  <1>6. RowsFirst' /\ VerdictsRight'
    BY <1>5, StepsStay, VerdictsStay DEF scanVars
  <1>7. StepsFollow'
    BY DEF InventoryInv, StepsFollow, scanVars
  <1> QED
    BY <1>2, <1>5, <1>6, <1>7

\* An ingestion writes a row.
LEMMA StoreStep ==
  ASSUME InventoryInv, NEW k \in Scans, NEW t \in Tools, NEW h \in Ingestion,
         NEW u \in Tools, NEW x \in output[k][u], NEW r \in Row,
         row' = [row EXCEPT ![x.key] = r], r.scan = k,
         Proceeds(k, t, h), h.todo \subseteq DOMAIN profile[k],
         UNCHANGED <<profile, scanVars>>,
         Persists => HandRight(k, h)'
  PROVE  InventoryInv'
  <1>1. x \in Item /\ x.key \in Keys
    BY DEF InventoryInv, InventoryTyped, Item
  <1>2. \A j \in Scans : j = k \/ Elsewhere(j, x.key)
    BY DEF Elsewhere
  <1>3. /\ Persists /\ row' \in [Keys -> Row \cup {Nothing}]
        /\ StepsFollow' /\ RowsFirst' /\ VerdictsRight'
    BY <1>1, <1>2, RowWritten
  <1>4. /\ ingest' \in [Scans -> [Tools -> Ingestion]] /\ HandsRight'
        /\ \A j \in Scans, v \in Tools : ingest'[j][v].todo \subseteq DOMAIN profile'[j]
    BY <1>3, MovesOn
  <1>5. InventoryTyped'
    BY <1>3, <1>4 DEF InventoryInv, InventoryTyped, InventoryTypeOK, scanVars, Ingestion
  <1> QED
    BY <1>3, <1>4, <1>5 DEF InventoryInv

LEMMA InHand ==
  ASSUME InventoryInv, NEW k \in Scans, NEW t \in Tools
  PROVE  /\ ingest[k][t] \in Ingestion /\ HandRight(k, ingest[k][t])
         /\ ingest[k][t].todo \subseteq DOMAIN profile[k]
         /\ Current(k, t) = NextTool(k, ingest[k][t])
  BY DEF InventoryInv, InventoryTyped, HandsRight, Current, NextTool

LEMMA RestTyped ==
  ASSUME NEW g \in Ingestion
  PROVE  Rest(g.todo) \subseteq g.todo /\ Rest(g.todo) \in SUBSET Nat
  BY DEF Ingestion, Rest

LEMMA ReadStepsInv ==
  ASSUME InventoryInv, NEW k \in Scans, NEW t \in Tools, ReadSteps(k, t)
  PROVE  InventoryInv'
  <1>1. PICK g : g = ingest[k][t]
    OBVIOUS
  <1> DEFINE T == {i \in DOMAIN profile[k] : run[k][profile[k][i]] # "queued"}
             h == [g EXCEPT !.phase = "between", !.todo = T]
  <1>2. g \in Ingestion
    BY <1>1, InHand
  <1>3. profile[k] \in Seq(Tools)
    BY ProfilesAssumption DEF InventoryInv, InventoryTyped, InventoryTypeOK
  <1>4. T \in SUBSET Nat /\ T \subseteq DOMAIN profile[k]
    BY <1>3
  <1>5. h \in Ingestion /\ h.phase = "between" /\ h.todo = T
    BY <1>2, <1>4 DEF Ingestion, Phases
  <1>6. Proceeds(k, t, h) /\ UNCHANGED <<profile, scanVars, row>>
    BY <1>1 DEF ReadSteps
  <1>7. HandRight(k, h)
    BY <1>5 DEF HandRight
  <1> HIDE DEF h
  <1> QED
    BY <1>4, <1>5, <1>6, <1>7, QuietStep

LEMMA OpenToolInv ==
  ASSUME InventoryInv, NEW k \in Scans, NEW t \in Tools, OpenTool(k, t)
  PROVE  InventoryInv'
  <1>1. PICK g : g = ingest[k][t]
    OBVIOUS
  <1>2. PICK u : u = Current(k, t)
    OBVIOUS
  <1> DEFINE I == {x \in output[k][u] :
                     ~ (u = "opt_apps_discovery" /\ Nested(k, output[k][u], x))}
             h == [g EXCEPT !.phase = "tool", !.items = I]
  <1>3. /\ g \in Ingestion /\ HandRight(k, g) /\ u = NextTool(k, g)
        /\ g.todo \subseteq DOMAIN profile[k]
    BY <1>1, <1>2, InHand
  <1>4. g.todo # {} /\ run[k][u] = "succeeded"
    BY <1>1, <1>2 DEF OpenTool
  <1>5. u \in Tools
    BY <1>3, <1>4, NextToolTyped DEF InventoryInv
  <1>6. I \in SUBSET Item /\ I \subseteq output[k][u]
    BY <1>5 DEF InventoryInv, InventoryTyped
  <1>7. h \in Ingestion /\ h.phase = "tool" /\ h.todo = g.todo /\ h.items = I
    BY <1>3, <1>6 DEF Ingestion, Phases
  <1>8. Proceeds(k, t, h) /\ UNCHANGED <<profile, scanVars, row>>
    BY <1>1, <1>2 DEF OpenTool
  <1>9. \A x \in Reported(k, u) : \E y \in I : y.key = x
    BY DEF Reported, Required, Nested
  <1>10. NextTool(k, h) = u
    BY <1>3, <1>7 DEF NextTool
  <1>11. Storing(k, h)
    BY <1>4, <1>6, <1>7, <1>9, <1>10 DEF Storing
  <1>12. HandRight(k, h)
    BY <1>3, <1>7, <1>11 DEF HandRight
  <1> HIDE DEF h
  <1> QED
    BY <1>3, <1>7, <1>8, <1>12, QuietStep

LEMMA JudgeInv ==
  ASSUME InventoryInv, NEW k \in Scans, NEW t \in Tools, Judge(k, t)
  PROVE  InventoryInv'
  <1>1. PICK g : g = ingest[k][t]
    OBVIOUS
  <1> DEFINE ph == IF AnyStep(k, "failed") THEN "failing"
                   ELSE IF AnyStep(k, "queued") THEN "done" ELSE "judged"
             h == [g EXCEPT !.phase = ph]
  <1>2. g \in Ingestion /\ HandRight(k, g) /\ g.todo \subseteq DOMAIN profile[k]
    BY <1>1, InHand
  <1>3. h \in Ingestion /\ h.phase = ph /\ h.todo = g.todo
    BY <1>2 DEF Ingestion, Phases
  <1>4. Proceeds(k, t, h) /\ UNCHANGED <<profile, scanVars, row>>
    BY <1>1 DEF Judge
  <1>5. ASSUME ph = "judged" PROVE AllSaved(k)
    <2> SUFFICES ASSUME NEW u \in Tools PROVE step[k][u] \in {"none", "succeeded"}
      BY DEF AllSaved
    <2>1. CASE u \in Range(profile[k])
      <3>1. step[k][u] # "failed" /\ step[k][u] # "queued"
        BY <1>5, <2>1 DEF AnyStep
      <3> QED
        BY <3>1 DEF InventoryInv, InventoryTyped, InventoryTypeOK
    <2>2. CASE u \notin Range(profile[k])
      BY <2>2 DEF InventoryInv, StepsFollow
    <2> QED
      BY <2>1, <2>2
  <1>6. HandRight(k, h)
    BY <1>2, <1>3, <1>5 DEF HandRight
  <1> HIDE DEF h
  <1> QED
    BY <1>2, <1>3, <1>4, <1>6, QuietStep

LEMMA CountedRight ==
  ASSUME InventoryInv, NEW k \in Scans, AllSaved(k)
  PROVE  Counted(k) \in SUBSET Keys /\ Sums(k, Counted(k))
  <1>1. ASSUME NEW t \in Tools, NEW x \in Reported(k, t)
        PROVE  x \in Counted(k) \/ Elsewhere(k, x)
    <2>1. run[k][t] = "succeeded"
      BY DEF Reported, Required, InventoryInv, StepsFollow
    <2>2. step[k][t] = "succeeded"
      BY <2>1 DEF InventoryInv, StepsFollow, AllSaved
    <2>3. Stored(k, x) /\ x \in Keys
      BY <2>2, ReportedKeys DEF InventoryInv, RowsFirst
    <2> QED
      BY <2>3 DEF Stored, Counted
  <1> QED
    BY <1>1 DEF Sums, Counted, Keys

LEMMA CountInv ==
  ASSUME InventoryInv, NEW k \in Scans, NEW t \in Tools, Count(k, t)
  PROVE  InventoryInv'
  <1>1. PICK g : g = ingest[k][t]
    OBVIOUS
  <1> DEFINE h == [g EXCEPT !.phase = "counted", !.read = Counted(k)]
  <1>2. g \in Ingestion /\ HandRight(k, g) /\ g.todo \subseteq DOMAIN profile[k]
    BY <1>1, InHand
  <1>3. AllSaved(k)
    BY <1>1, <1>2 DEF Count, HandRight
  <1>4. Counted(k) \in SUBSET Keys /\ Sums(k, Counted(k))
    BY <1>3, CountedRight
  <1>5. /\ h \in Ingestion /\ h.phase = "counted" /\ h.todo = g.todo
        /\ h.read = Counted(k)
    BY <1>2, <1>4 DEF Ingestion, Phases
  <1>6. Proceeds(k, t, h) /\ UNCHANGED <<profile, scanVars, row>>
    BY <1>1 DEF Count
  <1>7. HandRight(k, h)
    BY <1>2, <1>3, <1>4, <1>5 DEF HandRight
  <1> HIDE DEF h
  <1> QED
    BY <1>2, <1>5, <1>6, <1>7, QuietStep

\* A step is saved as its run ended.
LEMMA StepSaved ==
  ASSUME InventoryInv, NEW k \in Scans, NEW t \in Tools, NEW u \in Tools,
         NEW s \in {"succeeded", "failed"}, run[k][u] = s,
         s = "succeeded" => \A x \in Reported(k, u) : Stored(k, x),
         NEW h \in Ingestion, Proceeds(k, t, h), h.todo \subseteq DOMAIN profile[k],
         HandRight(k, h),
         step' = [step EXCEPT ![k][u] = s],
         UNCHANGED <<profile, run, output, scan, summary, row>>
  PROVE  InventoryInv'
  <1>1. step \in [Scans -> [Tools -> {"none", "queued", "succeeded", "failed"}]]
    BY DEF InventoryInv, InventoryTyped, InventoryTypeOK
  <1>2. /\ step' \in [Scans -> [Tools -> {"none", "queued", "succeeded", "failed"}]]
        /\ step'[k][u] = s
        /\ \A c \in Scans, d \in Tools : c # k \/ d # u => step'[c][d] = step[c][d]
    BY <1>1, Put
  <1>3. step[k][u] # "none" /\ (step[k][u] = "succeeded" => s = "succeeded")
    BY DEF InventoryInv, StepsFollow
  <1>4. /\ \A j \in Scans : \A x : Elsewhere(j, x)' <=> Elsewhere(j, x)
        /\ \A j \in Scans : \A x : Stored(j, x)' <=> Stored(j, x)
        /\ \A j \in Scans, d \in Tools : Reported(j, d)' = Reported(j, d)
    BY DEF Elsewhere, Stored, Reported, Required
  <1>5. Persists
    BY <1>2, <1>3, <1>4 DEF Persists
  <1>6. StepsFollow'
    <2> SUFFICES ASSUME NEW c \in Scans, NEW d \in Tools
                 PROVE  /\ d \notin Range(profile[c]) => run[c][d] = "none"
                        /\ step'[c][d] = "none" <=> run[c][d] = "none"
                        /\ step'[c][d] \in {"succeeded", "failed"} => run[c][d] = step'[c][d]
                        /\ output[c][d] # {} => run[c][d] = "succeeded"
      BY DEF StepsFollow
    <2> QED
      BY <1>2 DEF InventoryInv, StepsFollow
  <1>7. RowsFirst'
    <2> SUFFICES ASSUME NEW c \in Scans, NEW d \in Tools, step'[c][d] = "succeeded",
                        NEW x \in Reported(c, d)
                 PROVE  Stored(c, x)
      BY <1>4 DEF RowsFirst
    <2> QED
      BY <1>2 DEF InventoryInv, RowsFirst
  <1>8. VerdictsRight'
    BY <1>5, VerdictsStay
  <1>9. HandRight(k, h)'
    BY <1>5, HandStays DEF InventoryInv
  <1>10. /\ ingest' \in [Scans -> [Tools -> Ingestion]] /\ HandsRight'
         /\ \A j \in Scans, v \in Tools : ingest'[j][v].todo \subseteq DOMAIN profile'[j]
    BY <1>5, <1>9, MovesOn
  <1>11. InventoryTyped'
    BY <1>2, <1>10 DEF InventoryInv, InventoryTyped, InventoryTypeOK, Ingestion
  <1> QED
    BY <1>6, <1>7, <1>8, <1>10, <1>11 DEF InventoryInv

LEMMA FailStepInv ==
  ASSUME InventoryInv, NEW k \in Scans, NEW t \in Tools, FailStep(k, t)
  PROVE  InventoryInv'
  <1>1. PICK g : g = ingest[k][t]
    OBVIOUS
  <1>2. PICK u : u = Current(k, t)
    OBVIOUS
  <1> DEFINE h == [g EXCEPT !.todo = Rest(@)]
  <1>3. /\ g \in Ingestion /\ HandRight(k, g) /\ u = NextTool(k, g)
        /\ g.todo \subseteq DOMAIN profile[k]
    BY <1>1, <1>2, InHand
  <1>4. g.phase = "between" /\ g.todo # {} /\ run[k][u] = "failed"
    BY <1>1, <1>2 DEF FailStep
  <1>5. u \in Tools
    BY <1>3, <1>4, NextToolTyped DEF InventoryInv
  <1>6. Rest(g.todo) \subseteq g.todo /\ Rest(g.todo) \in SUBSET Nat
    BY <1>3, RestTyped
  <1>7. h \in Ingestion /\ h.phase = "between" /\ h.todo = Rest(g.todo)
    BY <1>3, <1>4, <1>6 DEF Ingestion, Phases
  <1>8. /\ Proceeds(k, t, h) /\ step' = [step EXCEPT ![k][u] = "failed"]
        /\ UNCHANGED <<profile, run, output, scan, summary, row>>
    BY <1>1, <1>2 DEF FailStep
  <1>9. HandRight(k, h)
    BY <1>3, <1>6, <1>7 DEF HandRight
  <1> HIDE DEF h
  <1> QED
    BY <1>3, <1>4, <1>5, <1>6, <1>7, <1>8, <1>9, StepSaved

LEMMA CloseStepInv ==
  ASSUME InventoryInv, NEW k \in Scans, NEW t \in Tools, CloseStep(k, t)
  PROVE  InventoryInv'
  <1>1. PICK g : g = ingest[k][t]
    OBVIOUS
  <1>2. PICK u : u = Current(k, t)
    OBVIOUS
  <1> DEFINE h == [g EXCEPT !.phase = "between", !.todo = Rest(@)]
  <1>3. /\ g \in Ingestion /\ HandRight(k, g) /\ u = NextTool(k, g)
        /\ g.todo \subseteq DOMAIN profile[k]
    BY <1>1, <1>2, InHand
  <1>4. g.phase = "tool" /\ g.items = {}
    BY <1>1, <1>2 DEF CloseStep
  <1>5. Storing(k, g)
    BY <1>3, <1>4 DEF HandRight
  <1>6. u \in Tools
    BY <1>3, <1>5, NextToolTyped DEF InventoryInv, Storing
  <1>7. run[k][u] = "succeeded" /\ \A x \in Reported(k, u) : Stored(k, x)
    BY <1>3, <1>4, <1>5 DEF Storing
  <1>8. Rest(g.todo) \subseteq g.todo /\ Rest(g.todo) \in SUBSET Nat
    BY <1>3, RestTyped
  <1>9. h \in Ingestion /\ h.phase = "between" /\ h.todo = Rest(g.todo)
    BY <1>3, <1>8 DEF Ingestion, Phases
  <1>10. /\ Proceeds(k, t, h) /\ step' = [step EXCEPT ![k][u] = "succeeded"]
         /\ UNCHANGED <<profile, run, output, scan, summary, row>>
    BY <1>1, <1>2 DEF CloseStep
  <1>11. HandRight(k, h)
    BY <1>3, <1>8, <1>9 DEF HandRight
  <1> HIDE DEF h
  <1> QED
    BY <1>3, <1>6, <1>7, <1>8, <1>9, <1>10, <1>11, StepSaved

LEMMA EndedTyped ==
  ASSUME NEW ph \in Phases, ph \notin {"tool", "holding", "judged", "counted"}
  PROVE  \E h \in Ingestion :
            /\ h = [NoIngestion EXCEPT !.phase = ph] /\ h.todo = {}
            /\ \A k \in Scans : HandRight(k, h) /\ HandRight(k, h)'
  <1> DEFINE h == [NoIngestion EXCEPT !.phase = ph]
  <1>1. h = [phase |-> ph, todo |-> {}, items |-> {}, read |-> Nothing]
    BY DEF NoIngestion
  <1>2. h \in Ingestion /\ h.todo = {} /\ h.phase = ph
    BY <1>1 DEF Ingestion
  <1>3. \A k \in Scans : HandRight(k, h) /\ HandRight(k, h)'
    BY <1>2 DEF HandRight
  <1> QED
    BY <1>2, <1>3

LEMMA SaveScanInv ==
  ASSUME InventoryInv, NEW k \in Scans, NEW t \in Tools, SaveScan(k, t)
  PROVE  InventoryInv'
  <1>1. PICK g : g = ingest[k][t]
    OBVIOUS
  <1>2. g \in Ingestion /\ HandRight(k, g)
    BY <1>1, InHand
  <1>3. PICK h \in Ingestion :
          /\ h = [NoIngestion EXCEPT !.phase = "done"] /\ h.todo = {}
          /\ HandRight(k, h)'
    BY EndedTyped DEF Phases
  <1>4. /\ Proceeds(k, t, h)
        /\ UNCHANGED <<profile, run, output, step, row>>
    BY <1>3 DEF SaveScan
  <1>5. Persists
    BY <1>4 DEF Persists, Stored, Elsewhere
  <1>6. /\ scan' \in [Scans -> {"running", "succeeded", "failed"}]
        /\ summary' \in [Scans -> SUBSET Keys]
        /\ \A j \in Scans : scan'[j] = "succeeded" =>
              \/ scan[j] = "succeeded" /\ summary'[j] = summary[j]
              \/ j = k /\ g.phase = "counted" /\ summary'[k] = g.read
    <2>1. CASE g.phase = "counted"
      BY <1>1, <1>2, <2>1
         DEF SaveScan, HandRight, InventoryInv, InventoryTyped, InventoryTypeOK
    <2>2. CASE g.phase = "failing"
      BY <1>1, <2>2 DEF SaveScan, InventoryInv, InventoryTyped, InventoryTypeOK
    <2> QED
      BY <1>1, <2>1, <2>2 DEF SaveScan
  <1>7. VerdictsRight'
    <2> SUFFICES ASSUME NEW j \in Scans, scan'[j] = "succeeded"
                 PROVE  AllSaved(j)' /\ Sums(j, summary[j])'
      BY DEF VerdictsRight
    <2>1. PICK S : S = summary'[j]
      OBVIOUS
    <2>2. AllSaved(j) /\ Sums(j, S)
      <3>1. CASE scan[j] = "succeeded" /\ summary'[j] = summary[j]
        BY <2>1, <3>1 DEF InventoryInv, VerdictsRight
      <3>2. CASE j = k /\ g.phase = "counted" /\ summary'[k] = g.read
        BY <1>2, <2>1, <3>2 DEF HandRight
      <3> QED
        BY <1>6, <3>1, <3>2
    <2>3. AllSaved(j)' /\ Sums(j, S)'
      BY <1>5, <2>2, SavedStays DEF InventoryInv
    <2> QED
      BY <2>1, <2>3
  <1>8. RowsFirst' /\ StepsFollow'
    BY <1>4, <1>5, StepsStay DEF InventoryInv, StepsFollow
  <1>9. /\ ingest' \in [Scans -> [Tools -> Ingestion]] /\ HandsRight'
        /\ \A j \in Scans, v \in Tools : ingest'[j][v].todo \subseteq DOMAIN profile'[j]
    BY <1>3, <1>4, <1>5, MovesOn
  <1>10. InventoryTyped'
    BY <1>4, <1>6, <1>9 DEF InventoryInv, InventoryTyped, InventoryTypeOK, Ingestion
  <1> QED
    BY <1>7, <1>8, <1>9, <1>10 DEF InventoryInv

\* The output of a run that ends.
LEMMA FinishInv ==
  ASSUME InventoryInv, NEW k \in Scans, NEW t \in Tools, Finish(k, t)
  PROVE  InventoryInv'
  <1>1. PICK s \in {"succeeded", "failed"}, items \in Offers[t] \cup {{}} :
          /\ run' = [run EXCEPT ![k][t] = s]
          /\ output' = [output EXCEPT ![k][t] = items]
          /\ s = "failed" => items = {}
    <2>1. output[k][t] = {} /\ output = [output EXCEPT ![k][t] = {}]
      BY DEF Finish, InventoryInv, StepsFollow, InventoryTyped
    <2> QED
      BY <2>1 DEF Finish
  <1>2. items \in SUBSET Item
    BY OffersAssumption
  <1>3. run[k][t] = "queued" /\ UNCHANGED <<profile, step, scan, summary, row>>
    BY DEF Finish
  <1>4. PICK h \in Ingestion :
          /\ h = [NoIngestion EXCEPT !.phase = "called"] /\ h.todo = {}
          /\ HandRight(k, h)'
    BY EndedTyped DEF Phases
  <1>5. Proceeds(k, t, h)
    BY <1>4 DEF Finish
  <1>6. /\ run' \in [Scans -> [Tools -> {"none", "queued", "succeeded", "failed"}]]
        /\ run'[k][t] = s
        /\ \A c \in Scans, d \in Tools : c # k \/ d # t => run'[c][d] = run[c][d]
    BY <1>1, Put DEF InventoryInv, InventoryTyped, InventoryTypeOK
  <1>7. /\ output' \in [Scans -> [Tools -> SUBSET Item]]
        /\ output'[k][t] = items
        /\ \A c \in Scans, d \in Tools : c # k \/ d # t => output'[c][d] = output[c][d]
    BY <1>1, <1>2, Put DEF InventoryInv, InventoryTyped
  <1>8. output[k][t] = {} /\ step[k][t] = "queued"
    <2>1. step[k][t] \in {"none", "queued", "succeeded", "failed"}
      BY DEF InventoryInv, InventoryTyped, InventoryTypeOK
    <2>2. output[k][t] = {} /\ step[k][t] \notin {"none", "succeeded", "failed"}
      BY <1>3 DEF InventoryInv, StepsFollow
    <2> QED
      BY <2>1, <2>2
  <1>9. \A c \in Scans, d \in Tools : output[c][d] \subseteq output'[c][d]
    BY <1>7, <1>8
  <1>10. \A j \in Scans : \A x : Elsewhere(j, x) => Elsewhere(j, x)'
    BY <1>9 DEF Elsewhere
  <1>11. Persists
    BY <1>3, <1>6, <1>7, <1>9, <1>10 DEF Persists, Stored
  <1>12. RowsFirst' /\ VerdictsRight'
    BY <1>3, <1>11, StepsStay, VerdictsStay
  <1>13. StepsFollow'
    <2> SUFFICES ASSUME NEW c \in Scans, NEW d \in Tools
                 PROVE  /\ d \notin Range(profile[c]) => run'[c][d] = "none"
                        /\ step[c][d] = "none" <=> run'[c][d] = "none"
                        /\ step[c][d] \in {"succeeded", "failed"} => run'[c][d] = step[c][d]
                        /\ output'[c][d] # {} => run'[c][d] = "succeeded"
      BY <1>3 DEF StepsFollow
    <2>1. CASE c = k /\ d = t
      BY <1>1, <1>3, <1>6, <1>7, <1>8, <2>1 DEF InventoryInv, StepsFollow
    <2>2. CASE c # k \/ d # t
      BY <1>6, <1>7, <2>2 DEF InventoryInv, StepsFollow
    <2> QED
      BY <2>1, <2>2
  <1>14. /\ ingest' \in [Scans -> [Tools -> Ingestion]] /\ HandsRight'
         /\ \A j \in Scans, v \in Tools : ingest'[j][v].todo \subseteq DOMAIN profile'[j]
    BY <1>4, <1>5, <1>11, MovesOn
  <1>15. \A c \in Scans, d \in Tools :
            output'[c][d] \in Offers[d] \cup {{}} /\ ingest'[c][d].phase \in Phases
    BY <1>1, <1>7, <1>14 DEF InventoryInv, InventoryTyped, InventoryTypeOK, Ingestion
  <1>16. InventoryTyped'
    BY <1>3, <1>6, <1>7, <1>14, <1>15 DEF InventoryInv, InventoryTyped, InventoryTypeOK
  <1> QED
    BY <1>12, <1>13, <1>14, <1>16 DEF InventoryInv

-----------------------------------------------------------------------------

LEMMA IncomingTyped ==
  ASSUME NEW u \in Tools, NEW x \in Item
  PROVE  Incoming(u, x) \in Values /\ x.value \in Values /\ x.key \in Keys
  BY ValuesAssumption DEF Incoming, Item

LEMMA StatusTyped == \A key : StatusOf(key) \in RowStatuses
  BY DEF StatusOf, RowStatuses

\* An item's row is stored, and the item is done with.
LEMMA ItemStored ==
  ASSUME InventoryInv, NEW k \in Scans, NEW t \in Tools, NEW g, g = ingest[k][t],
         g.phase \in {"tool", "holding"}, NEW x \in g.items,
         NEW r \in Row, r.scan = k, row' = [row EXCEPT ![x.key] = r],
         NEW h \in Ingestion, Proceeds(k, t, h),
         h.phase = "tool", h.todo = g.todo, h.items = g.items \ {x},
         UNCHANGED <<profile, scanVars>>
  PROVE  InventoryInv'
  <1> DEFINE u == NextTool(k, g)
  <1>1. /\ g \in Ingestion /\ HandRight(k, g) /\ g.todo \subseteq DOMAIN profile[k]
    BY InHand
  <1>2. Storing(k, g)
    BY <1>1 DEF HandRight
  <1>3. u \in Tools /\ x \in output[k][u]
    BY <1>1, <1>2, NextToolTyped DEF InventoryInv, Storing
  <1>4. x.key \in Keys
    BY <1>3 DEF InventoryInv, InventoryTyped, Item
  <1>5. Stored(k, x.key)'
    <2>1. row'[x.key] = r /\ r # Nothing
      BY <1>4, NothingAssumption DEF InventoryInv, InventoryTyped
    <2> QED
      BY <2>1 DEF Stored
  <1>6. ASSUME Persists PROVE HandRight(k, h)'
    <2>1. HandRight(k, g)'
      BY <1>1, <1>6, HandStays DEF InventoryInv
    <2>2. Storing(k, g)'
      BY <2>1 DEF HandRight
    <2>3. NextTool(k, h)' = NextTool(k, g)'
      BY DEF NextTool
    <2>4. ASSUME NEW z \in Reported(k, NextTool(k, g))'
          PROVE  Stored(k, z)' \/ \E y \in h.items : y.key = z
      BY <1>5, <2>2 DEF Storing
    <2>5. Storing(k, h)'
      BY <2>2, <2>3, <2>4 DEF Storing
    <2> QED
      BY <2>1, <2>5 DEF HandRight
  <1> HIDE DEF u
  <1> QED
    BY <1>1, <1>3, <1>6, StoreStep

LEMMA UpdateOrCreateInv ==
  ASSUME InventoryInv, NEW k \in Scans, NEW t \in Tools, NEW x, UpdateOrCreate(k, t, x)
  PROVE  InventoryInv'
  <1>1. PICK g : g = ingest[k][t]
    OBVIOUS
  <1> DEFINE r == [scan |-> k, value |-> x.value, status |-> StatusOf(x.key)]
             h == [g EXCEPT !.items = @ \ {x}]
  <1>2. g \in Ingestion
    BY <1>1, InHand
  <1>3. g.phase = "tool" /\ x \in g.items /\ x \in Item
    BY <1>1, <1>2 DEF UpdateOrCreate, Ingestion
  <1>4. r \in Row /\ r.scan = k
    BY <1>3, StatusTyped DEF Row, Item
  <1>5. /\ h \in Ingestion /\ h.phase = "tool" /\ h.todo = g.todo
        /\ h.items = g.items \ {x}
    BY <1>2, <1>3 DEF Ingestion
  <1>6. /\ row' = [row EXCEPT ![x.key] = r] /\ Proceeds(k, t, h)
        /\ UNCHANGED <<profile, scanVars>>
    BY <1>1 DEF UpdateOrCreate
  <1> HIDE DEF r, h
  <1> QED
    BY <1>1, <1>3, <1>4, <1>5, <1>6, ItemStored

LEMMA GetOrCreateInv ==
  ASSUME InventoryInv, NEW k \in Scans, NEW t \in Tools, NEW x, GetOrCreate(k, t, x),
         Current(k, t) \in Merging \cup LegacyApps \cup Phase2Apps
  PROVE  InventoryInv'
  <1>1. PICK g : g = ingest[k][t]
    OBVIOUS
  <1>2. PICK u : u = Current(k, t)
    OBVIOUS
  <1>3. /\ g \in Ingestion /\ HandRight(k, g) /\ u = NextTool(k, g)
        /\ g.todo \subseteq DOMAIN profile[k]
    BY <1>1, <1>2, InHand
  <1>4. g.phase = "tool" /\ x \in g.items /\ x \in Item /\ x.key \in Keys
    BY <1>1, <1>3 DEF GetOrCreate, Ingestion, Item
  <1>5. Storing(k, g)
    BY <1>3, <1>4 DEF HandRight
  <1>6. u \in Tools
    BY <1>3, <1>5, NextToolTyped DEF InventoryInv, Storing
  <1>7. CASE row[x.key] = Nothing
    <2> DEFINE r == [scan |-> k, value |-> Incoming(u, x), status |-> StatusOf(x.key)]
               h == [g EXCEPT !.items = @ \ {x}]
    <2>1. r \in Row /\ r.scan = k
      BY <1>4, <1>6, StatusTyped, IncomingTyped DEF Row
    <2>2. /\ h \in Ingestion /\ h.phase = "tool" /\ h.todo = g.todo
          /\ h.items = g.items \ {x}
      BY <1>3, <1>4 DEF Ingestion
    <2>3. /\ row' = [row EXCEPT ![x.key] = r] /\ Proceeds(k, t, h)
          /\ UNCHANGED <<profile, scanVars>>
      BY <1>1, <1>2, <1>7 DEF GetOrCreate
    <2> HIDE DEF r, h
    <2> QED
      BY <1>1, <1>4, <2>1, <2>2, <2>3, ItemStored
  <1>8. CASE row[x.key] # Nothing
    <2> DEFINE h == [g EXCEPT !.phase = "holding",
                              !.read = [item |-> x, was |-> row[x.key]]]
    <2>1. row[x.key] \in Row
      BY <1>4, <1>8 DEF InventoryInv, InventoryTyped
    <2>2. [item |-> x, was |-> row[x.key]] \in [item : Item, was : Row]
      BY <1>4, <2>1
    <2>3. /\ h \in Ingestion /\ h.phase = "holding" /\ h.todo = g.todo
          /\ h.items = g.items /\ h.read = [item |-> x, was |-> row[x.key]]
      BY <1>3, <2>2 DEF Ingestion, Phases
    <2>4. Proceeds(k, t, h) /\ UNCHANGED <<profile, scanVars, row>>
      BY <1>1, <1>8 DEF GetOrCreate
    <2> HIDE DEF h
    <2>5. NextTool(k, h) = u
      BY <1>3, <2>3 DEF NextTool
    <2>6. Storing(k, h)
      BY <1>3, <1>5, <2>3, <2>5 DEF Storing
    <2>7. Holding(k, h)
      BY <1>2, <1>4, <1>8, <2>2, <2>3, <2>5 DEF Holding
    <2>8. HandRight(k, h)
      BY <1>3, <2>3, <2>6, <2>7 DEF HandRight
    <2> QED
      BY <1>3, <2>3, <2>4, <2>8, QuietStep
  <1> QED
    BY <1>7, <1>8

\* What a save writes belongs to the scan.
LEMMA UpdatedTyped ==
  ASSUME NEW k \in Scans, NEW u \in Merging \cup LegacyApps \cup Phase2Apps,
         u \in Tools, NEW x \in Item, NEW was \in Row, NEW r \in Row
  PROVE  Updated(k, u, x, was, r) \in Row /\ Updated(k, u, x, was, r).scan = k
  <1> DEFINE new == Incoming(u, x)
  <1>1. new \in Values /\ was.value \in Values /\ r.value \in Values
    BY IncomingTyped DEF Row
  <1>2. \A v \in Values : [r EXCEPT !.scan = k, !.value = v] \in Row
    BY DEF Row
  <1>3. CASE u \in Merging
    BY <1>1, <1>3
       DEF Updated, Merging, LegacyApps, Phase2Apps, Phase2Services, Row
  <1>4. CASE u \notin Merging /\ ~ Settled(was)
    <2>1. Preferred(was.value, new) \in Values
      BY <1>1 DEF Preferred
    <2>2. PICK v \in Values :
            Updated(k, u, x, was, r) = [scan |-> k, status |-> "pending", value |-> v]
      BY <1>1, <1>4, <2>1 DEF Updated
    <2>3. "pending" \in RowStatuses
      BY DEF RowStatuses
    <2>4. [scan |-> k, status |-> "pending", value |-> v] \in Row
      BY <2>3 DEF Row
    <2> QED
      BY <2>2, <2>4
  <1>5. CASE u \in LegacyApps /\ Settled(was)
    BY <1>1, <1>5
       DEF Updated, Merging, LegacyApps, Phase2Apps, Phase2Services, Row
  <1>6. CASE u \in Phase2Apps /\ Settled(was)
    BY <1>1, <1>6
       DEF Updated, Merging, LegacyApps, Phase2Apps, Phase2Services, Row
  <1> QED
    BY <1>3, <1>4, <1>5, <1>6

LEMMA SaveRowInv ==
  ASSUME InventoryInv, NEW k \in Scans, NEW t \in Tools, SaveRow(k, t)
  PROVE  InventoryInv'
  <1>1. PICK g : g = ingest[k][t]
    OBVIOUS
  <1>2. PICK u : u = Current(k, t)
    OBVIOUS
  <1>3. /\ g \in Ingestion /\ HandRight(k, g) /\ u = NextTool(k, g)
        /\ g.todo \subseteq DOMAIN profile[k]
    BY <1>1, <1>2, InHand
  <1>4. g.phase = "holding"
    BY <1>1 DEF SaveRow
  <1>5. Storing(k, g) /\ Holding(k, g)
    BY <1>3, <1>4 DEF HandRight
  <1>6. u \in Tools /\ u \in Merging \cup LegacyApps \cup Phase2Apps
    BY <1>3, <1>5, NextToolTyped DEF InventoryInv, Storing, Holding
  <1>7. PICK x \in g.items : x = g.read.item
    BY <1>5 DEF Holding
  <1>8. x \in Item /\ x.key \in Keys /\ g.read.was \in Row /\ row[x.key] \in Row
    BY <1>3, <1>5, <1>7 DEF Holding, Ingestion, Item, InventoryInv, InventoryTyped
  <1> DEFINE r == Updated(k, u, x, g.read.was, row[x.key])
             h == [g EXCEPT !.phase = "tool", !.items = @ \ {x}, !.read = Nothing]
  <1>9. r \in Row /\ r.scan = k
    BY <1>6, <1>8, UpdatedTyped
  <1>10. /\ h \in Ingestion /\ h.phase = "tool" /\ h.todo = g.todo
         /\ h.items = g.items \ {x}
    BY <1>3 DEF Ingestion, Phases
  <1>11. /\ row' = [row EXCEPT ![x.key] = r] /\ Proceeds(k, t, h)
         /\ UNCHANGED <<profile, scanVars>>
    BY <1>1, <1>2, <1>7 DEF SaveRow
  <1> HIDE DEF r, h
  <1> QED
    BY <1>1, <1>4, <1>9, <1>10, <1>11, ItemStored

\* An item is stored by one of the two ways that its tool's function has.
Storer(k, t, x) ==
    \/ Current(k, t) \in Overwriting /\ UpdateOrCreate(k, t, x)
    \/ /\ Current(k, t) \in Merging \cup LegacyApps \cup Phase2Apps
       /\ GetOrCreate(k, t, x)

LEMMA StoringSteps ==
  ASSUME NEW k \in Scans, NEW t \in Tools, Ingest(k, t)
  PROVE  \/ ReadSteps(k, t) \/ OpenTool(k, t) \/ FailStep(k, t)
         \/ \E x \in ingest[k][t].items : Storer(k, t, x)
         \/ SaveRow(k, t) \/ CloseStep(k, t)
         \/ Judge(k, t) \/ Count(k, t) \/ SaveScan(k, t)
  <1>1. ASSUME NEW x,
               \/ IngestServices(k, t, x) \/ IngestDomains(k, t, x)
               \/ IngestLogSources(k, t, x) \/ IngestFindings(k, t, x)
        PROVE  Storer(k, t, x)
    BY <1>1 DEF Storer, Overwriting, IngestServices, IngestDomains,
                IngestLogSources, IngestFindings
  <1>2. ASSUME NEW x,
               \/ IngestPhase2Services(k, t, x) \/ IngestPhase2Domains(k, t, x)
               \/ IngestPhase2LogSources(k, t, x)
               \/ IngestApplications(k, t, x) \/ IngestPhase2Applications(k, t, x)
        PROVE  Storer(k, t, x)
    BY <1>2 DEF Storer, Merging, IngestPhase2Services, IngestPhase2Domains,
                IngestPhase2LogSources, IngestApplications, IngestPhase2Applications
  <1> QED
    BY <1>1, <1>2 DEF Ingest

LEMMA IngestInv ==
  ASSUME InventoryInv, NEW k \in Scans, NEW t \in Tools, Ingest(k, t)
  PROVE  InventoryInv'
  <1>1. CASE \E x \in ingest[k][t].items : Storer(k, t, x)
    BY <1>1, UpdateOrCreateInv, GetOrCreateInv DEF Storer
  <1> QED
    BY <1>1, StoringSteps, ReadStepsInv, OpenToolInv, FailStepInv, SaveRowInv,
       CloseStepInv, JudgeInv, CountInv, SaveScanInv

LEMMA HandsStay ==
  ASSUME InventoryInv, Persists, UNCHANGED ingest
  PROVE  HandsRight'
  <1> SUFFICES ASSUME NEW k \in Scans, NEW t \in Tools
               PROVE  HandRight(k, ingest[k][t])'
    BY DEF HandsRight
  <1>1. PICK g : g = ingest[k][t]
    OBVIOUS
  <1>2. HandRight(k, g)'
    BY <1>1, InHand, HandStays DEF InventoryInv
  <1>3. ingest'[k][t] = g
    BY <1>1
  <1> QED
    BY <1>2, <1>3

\* A review writes the status alone.
LEMMA ReviewRowInv ==
  ASSUME InventoryInv, NEW x \in Keys, NEW s \in RowStatuses, row[x] # Nothing,
         row' = [row EXCEPT ![x].status = s], UNCHANGED <<profile, scanVars, ingest>>
  PROVE  InventoryInv'
  <1> DEFINE r == [row[x] EXCEPT !.status = s]
  <1>1. row[x] \in Row
    BY DEF InventoryInv, InventoryTyped
  <1>2. r \in Row /\ r.scan = row[x].scan
    BY <1>1 DEF Row
  <1>3. row' = [row EXCEPT ![x] = r]
    OBVIOUS
  <1>4. \A k \in Scans : Stored(k, x) => r.scan = k \/ Elsewhere(k, x)
    BY <1>2 DEF Stored
  <1> HIDE DEF r
  <1>5. /\ Persists /\ row' \in [Keys -> Row \cup {Nothing}]
        /\ StepsFollow' /\ RowsFirst' /\ VerdictsRight'
    BY <1>2, <1>3, <1>4, RowWritten
  <1>6. HandsRight'
    BY <1>5, HandsStay
  <1>7. InventoryTyped'
    BY <1>5 DEF InventoryInv, InventoryTyped, InventoryTypeOK, scanVars
  <1> QED
    BY <1>5, <1>6, <1>7 DEF InventoryInv

LEMMA PortalInv ==
  ASSUME InventoryInv, Portal
  PROVE  InventoryInv'
  <1>1. PICK x \in Keys, s \in RowStatuses :
          /\ row[x] # Nothing /\ row' = [row EXCEPT ![x].status = s]
          /\ UNCHANGED <<profile, scanVars, ingest>>
    <2>1. CASE \E p \in Paths, s \in Reviews : ReviewApplication(p, s)
      BY <2>1, DecisionsAssumption DEF ReviewApplication, Keys, RowStatuses
    <2>2. CASE \E f \in Findings, s \in Marks : MarkFinding(f, s)
      BY <2>2, DecisionsAssumption DEF MarkFinding, Keys, RowStatuses
    <2> QED
      BY <2>1, <2>2 DEF Portal
  <1> QED
    BY <1>1, ReviewRowInv

LEMMA InventoryStutters ==
  ASSUME InventoryInv, UNCHANGED inventoryVars
  PROVE  InventoryInv'
  <1>1. Persists
    BY DEF Persists, Stored, Elsewhere, inventoryVars, scanVars
  <1>2. HandsRight' /\ RowsFirst' /\ VerdictsRight'
    BY <1>1, HandsStay, StepsStay, VerdictsStay DEF inventoryVars, scanVars
  <1>3. InventoryTyped' /\ StepsFollow'
    BY DEF InventoryInv, InventoryTyped, InventoryTypeOK, StepsFollow,
           inventoryVars, scanVars
  <1> QED
    BY <1>2, <1>3 DEF InventoryInv

LEMMA ReportsLeaveInventory == ReportsNext => UNCHANGED inventoryVars
  BY DEF ReportsNext, ReadFindings, LookForGroups, CommitGroups,
         WriteBaselineReport, WriteDiagnosticReport, WriteHealthSummary, WriteReport,
         WriteFindings, AddSection, ListAdvice, Recommend, CreateChatReport, ReadDraft,
         CreateReport, MarkConverted, CreateDraft, ReviewDraft

LEMMA InventoryStep == InventoryInv /\ [ServerNext]_serverVars => InventoryInv'
  <1> SUFFICES ASSUME InventoryInv, [ServerNext]_serverVars PROVE InventoryInv'
    OBVIOUS
  <1>1. CASE InventoryNext
    BY <1>1, FinishInv, IngestInv, PortalInv DEF InventoryNext
  <1>2. CASE UNCHANGED inventoryVars
    BY <1>2, InventoryStutters
  <1> QED
    BY <1>1, <1>2, ReportsLeaveInventory DEF ServerNext, serverVars

LEMMA InventoryStarts == ReportsInit => InventoryInv
  <1> SUFFICES ASSUME ReportsInit PROVE InventoryInv
    OBVIOUS
  <1>1. InventoryInit
    BY DEF ReportsInit
  <1>2. /\ profile \in [Scans -> Profiles]
        /\ run = [k \in Scans |-> [t \in Tools |->
                    IF t \in Range(profile[k]) THEN "queued" ELSE "none"]]
        /\ output = [k \in Scans |-> [t \in Tools |-> {}]] /\ step = run
        /\ scan = [k \in Scans |-> "running"] /\ summary = [k \in Scans |-> {}]
        /\ ingest = [k \in Scans |-> [t \in Tools |-> NoIngestion]]
    BY <1>1 DEF InventoryInit
  <1>3. NoIngestion \in Ingestion /\ NoIngestion.phase = "none" /\ NoIngestion.todo = {}
    BY DEF NoIngestion, Ingestion, Phases
  <1>4. row \in [Keys -> Row \cup {Nothing}]
    <2>1. ASSUME NEW x
          PROVE  [scan |-> Earlier, value |-> "unknown",
                  status |-> IF x \in Paths THEN "pending" ELSE "open"] \in Row
      <3>1. (IF x \in Paths THEN "pending" ELSE "open") \in RowStatuses
        BY DEF RowStatuses
      <3> QED
        BY <3>1, ValuesAssumption DEF Row
    <2>2. CASE row = [x \in Keys |-> Nothing]
      BY <2>2
    <2>3. CASE row = [x \in Keys |-> IF x \in Parts THEN Nothing
                   ELSE [scan |-> Earlier, value |-> "unknown",
                         status |-> IF x \in Paths THEN "pending" ELSE "open"]]
      BY <2>1, <2>3
    <2> QED
      BY <1>1, <2>2, <2>3 DEF InventoryInit
  <1>5. /\ run \in [Scans -> [Tools -> {"none", "queued", "succeeded", "failed"}]]
        /\ \A k \in Scans, t \in Tools :
              run[k][t] = IF t \in Range(profile[k]) THEN "queued" ELSE "none"
    BY <1>2
  <1>6. InventoryTyped
    BY <1>2, <1>3, <1>4, <1>5 DEF InventoryTyped, InventoryTypeOK, Ingestion
  <1>7. StepsFollow /\ RowsFirst
    BY <1>2, <1>5 DEF StepsFollow, RowsFirst
  <1>8. HandsRight
    BY <1>2, <1>3 DEF HandsRight, HandRight
  <1>9. VerdictsRight
    BY <1>2 DEF VerdictsRight
  <1> QED
    BY <1>6, <1>7, <1>8, <1>9 DEF InventoryInv

LEMMA InventoryAlways == ServerSpec => []InventoryInv
  BY InventoryStarts, InventoryStep, PTL DEF ServerSpec

\* The types of the rows, the runs, the steps and the ingestions.
THEOREM InventoryTypeCorrect == ServerSpec => []InventoryTypeOK
  <1>1. InventoryInv => InventoryTypeOK
    BY DEF InventoryInv, InventoryTyped
  <1> QED
    BY <1>1, InventoryAlways, PTL

\* A scan that succeeded has counted what its tools reported (baseline.py:344):
\* however ingestions overlap, and whoever takes the verdict.
THEOREM SummaryWholeHolds == ServerSpec => []SummaryWhole
  <1>1. InventoryInv => SummaryWhole
    BY DEF InventoryInv, VerdictsRight, Sums, Elsewhere, SummaryWhole
  <1> QED
    BY <1>1, InventoryAlways, PTL

LEMMA PathsFromAppTools ==
  ASSUME InventoryInv, NEW k \in Scans, NEW u \in Tools, NEW x \in output[k][u],
         x.key \in Paths
  PROVE  u \in LegacyApps \cup Phase2Apps
  BY OffersAssumption DEF InventoryInv, InventoryTyped, InventoryTypeOK

LEMMA RowUntouched ==
  ASSUME NEW p \in Paths, row'[p] = row[p]
  PROVE  ApprovalRespected(p)
  BY DEF ApprovalRespected

\* A save writes over an approval only if it has not read it.
LEMMA SaveRowRespects ==
  ASSUME InventoryInv, NEW k \in Scans, NEW t \in Tools, SaveRow(k, t),
         NEW p \in Paths, Approved(p)
  PROVE  ApprovalRespected(p)
  <1>1. PICK g : g = ingest[k][t]
    OBVIOUS
  <1>2. PICK u : u = Current(k, t)
    OBVIOUS
  <1>3. /\ g \in Ingestion /\ HandRight(k, g) /\ u = NextTool(k, g)
        /\ g.todo \subseteq DOMAIN profile[k]
    BY <1>1, <1>2, InHand
  <1>4. g.phase = "holding"
    BY <1>1 DEF SaveRow
  <1>5. Storing(k, g) /\ Holding(k, g)
    BY <1>3, <1>4 DEF HandRight
  <1>6. u \in Tools
    BY <1>3, <1>5, NextToolTyped DEF InventoryInv, Storing
  <1>7. PICK x \in g.items : x = g.read.item
    BY <1>5 DEF Holding
  <1>8. x \in output[k][u] /\ x.key \in Keys
    BY <1>3, <1>5, <1>7 DEF Storing, Ingestion, Item
  <1>9. PICK was \in Row : was = g.read.was
    BY <1>5 DEF Holding
  <1> DEFINE h == [g EXCEPT !.phase = "tool", !.items = @ \ {x}, !.read = Nothing]
  <1>10. /\ row' = [row EXCEPT ![x.key] = Updated(k, u, x, was, row[x.key])]
         /\ Proceeds(k, t, h)
    BY <1>1, <1>2, <1>7, <1>9 DEF SaveRow
  <1>11. h \in Ingestion /\ h.phase = "tool"
    BY <1>3 DEF Ingestion, Phases
  <1>12. ingest'[k][t].phase = "tool"
    <2> HIDE DEF h
    <2> QED
      BY <1>10, <1>11, Put DEF Proceeds, InventoryInv, InventoryTyped
  <1>13. CASE x.key # p
    <2>1. row'[p] = row[p]
      BY <1>10, <1>13 DEF InventoryInv, InventoryTyped, Keys
    <2> QED
      BY <2>1, RowUntouched
  <1>14. CASE x.key = p /\ (was.status # "approved" \/ was.value # row[p].value)
    BY <1>1, <1>4, <1>7, <1>9, <1>12, <1>14 DEF ApprovalRespected
  <1>15. CASE x.key = p /\ was.status = "approved" /\ was.value = row[p].value
    <2>1. u \in LegacyApps \cup Phase2Apps /\ u \notin Merging
      BY <1>6, <1>8, <1>15, PathsFromAppTools
         DEF LegacyApps, Phase2Apps, Merging, Phase2Services
    <2>2. row[p] \in Row /\ row'[p] = Updated(k, u, x, was, row[p])
      BY <1>8, <1>10, <1>15 DEF Approved, InventoryInv, InventoryTyped
    <2>3. PICK r \in Row : r = row[p]
      BY <2>2
    <2>4. /\ Updated(k, u, x, was, r).status = r.status
          /\ r.value = "" \/ Updated(k, u, x, was, r).value = r.value
      BY <1>15, <2>1, <2>3
         DEF Updated, Settled, LegacyApps, Phase2Apps, Merging, Phase2Services, Row
    <2> QED
      BY <2>2, <2>3, <2>4 DEF ApprovalRespected
  <1> QED
    BY <1>13, <1>14, <1>15

\* The other ways of storing do not touch an application that is there.
LEMMA StorerRespects ==
  ASSUME InventoryInv, NEW k \in Scans, NEW t \in Tools, NEW x, Storer(k, t, x),
         x \in ingest[k][t].items, NEW p \in Paths, Approved(p)
  PROVE  ApprovalRespected(p)
  <1>1. PICK g : g = ingest[k][t]
    OBVIOUS
  <1>2. PICK u : u = Current(k, t)
    OBVIOUS
  <1>3. /\ g \in Ingestion /\ HandRight(k, g) /\ u = NextTool(k, g)
        /\ g.todo \subseteq DOMAIN profile[k]
    BY <1>1, <1>2, InHand
  <1>4. g.phase = "tool"
    BY <1>1 DEF Storer, UpdateOrCreate, GetOrCreate
  <1>5. Storing(k, g)
    BY <1>3, <1>4 DEF HandRight
  <1>6. u \in Tools /\ x \in output[k][u]
    BY <1>1, <1>3, <1>5, NextToolTyped DEF InventoryInv, Storing
  <1>7. p \in Keys /\ row \in [Keys -> Row \cup {Nothing}]
    BY DEF Keys, InventoryInv, InventoryTyped
  <1>8. CASE u \in Overwriting /\ UpdateOrCreate(k, t, x)
    <2>1. x.key # p
      BY <1>6, <1>8, PathsFromAppTools DEF Overwriting, LegacyApps, Phase2Apps
    <2>2. row'[p] = row[p]
      BY <1>7, <1>8, <2>1 DEF UpdateOrCreate
    <2> QED
      BY <2>2, RowUntouched
  <1>9. CASE GetOrCreate(k, t, x)
    <2>1. row[x.key] = Nothing => x.key # p
      BY DEF Approved
    <2>2. row'[p] = row[p]
      BY <1>7, <1>9, <2>1 DEF GetOrCreate
    <2> QED
      BY <2>2, RowUntouched
  <1> QED
    BY <1>2, <1>8, <1>9 DEF Storer

\* An approved application loses its approval or its framework to nobody but
\* an ingestion that read the row before (baseline.py:521, 573), however many
\* ingestions, scans and reviews overlap.
THEOREM ApprovalStandsHolds == ServerSpec => ApprovalStands
  <1>1. ASSUME InventoryInv, [ServerNext]_serverVars
        PROVE  [\A p \in Paths : Approved(p) => ApprovalRespected(p)]_inventoryVars
    <2>1. CASE UNCHANGED inventoryVars
      BY <2>1
    <2> SUFFICES ASSUME InventoryNext, NEW p \in Paths, Approved(p)
                 PROVE  ApprovalRespected(p)
      BY <1>1, <2>1, ReportsLeaveInventory DEF ServerNext, serverVars
    <2>2. CASE Portal
      BY <2>2 DEF Portal, ReviewApplication, MarkFinding, ApprovalRespected
    <2>3. CASE \E k \in Scans, t \in Tools : Finish(k, t)
      BY <2>3, RowUntouched DEF Finish
    <2>4. ASSUME NEW k \in Scans, NEW t \in Tools, Ingest(k, t)
          PROVE  ApprovalRespected(p)
      <3>1. CASE \E x \in ingest[k][t].items : Storer(k, t, x)
        BY <1>1, <3>1, StorerRespects
      <3>2. CASE SaveRow(k, t)
        BY <1>1, <3>2, SaveRowRespects
      <3>3. CASE \/ ReadSteps(k, t) \/ OpenTool(k, t) \/ FailStep(k, t) \/ CloseStep(k, t)
                 \/ Judge(k, t) \/ Count(k, t) \/ SaveScan(k, t)
        BY <3>3, RowUntouched DEF ReadSteps, OpenTool, FailStep, CloseStep, Judge,
                                  Count, SaveScan
      <3> QED
        BY <2>4, <3>1, <3>2, <3>3, StoringSteps
    <2> QED
      BY <2>2, <2>3, <2>4 DEF InventoryNext
  <1> QED
    BY <1>1, InventoryAlways, PTL DEF ServerSpec, ApprovalStands

-----------------------------------------------------------------------------
(* Report drafts (Reports).                                                *)

\* Somebody agreed to the draft, or its session's writer asked for the report.
Consented(d) == draft[d].agreed \/ draft[d].direct

DraftsTyped ==
    /\ report \in [Writers -> Report]
    /\ draft \in [Drafts -> ChatDraft]

WritersRight == \A w \in Writers :
    /\ report[w].draft # Nothing => Consented(report[w].draft)
    /\ report[w].phase = "sections" => report[w].type \in Types

\* The report of a converted draft is finished, so that nothing is added to it.
DraftsRight == \A d \in Drafts :
    /\ draft[d].status = "approved" => draft[d].agreed
    /\ draft[d].status = "converted" =>
          LET w == draft[d].report
          IN  /\ w # Nothing /\ report[w].draft = d /\ report[w].phase = "done"
              /\ report[w].made = Sections[report[w].type]
              /\ Consented(d)

DraftsInv == DraftsTyped /\ WritersRight /\ DraftsRight

LEMMA DraftsInit == ReportsInit => DraftsInv
  <1> SUFFICES ASSUME ReportsInit PROVE DraftsInv
    OBVIOUS
  <1> DEFINE blank == [phase |-> "none", type |-> Nothing, draft |-> Nothing,
                       made |-> 0, advise |-> {}, advised |-> {}]
             fresh == [status |-> "none", report |-> Nothing, agreed |-> FALSE,
                       direct |-> FALSE]
  <1>1. blank \in Report /\ fresh \in ChatDraft
    BY DEF Report, ChatDraft
  <1>2. report = [w \in Writers |-> blank] /\ draft = [d \in Drafts |-> fresh]
    BY DEF ReportsInit
  <1> QED
    BY <1>1, <1>2 DEF DraftsInv, DraftsTyped, WritersRight, DraftsRight

\* A report that is not finished goes on.
LEMMA ReportMoves ==
  ASSUME DraftsInv, NEW w \in Writers, NEW c \in Report,
         report' = [report EXCEPT ![w] = c], UNCHANGED draft,
         report[w].phase # "done",
         c.draft # Nothing => c.draft = report[w].draft \/ Consented(c.draft),
         c.phase = "sections" => c.type \in Types
  PROVE  DraftsInv'
  <1>1. DraftsTyped'
    BY DEF DraftsInv, DraftsTyped
  <1>2. \A d \in Drafts : Consented(d)' <=> Consented(d)
    BY DEF Consented
  <1>3. c.draft # Nothing => Consented(c.draft)
    BY DEF DraftsInv, WritersRight
  <1>4. WritersRight'
    BY <1>3 DEF DraftsInv, DraftsTyped, WritersRight, Consented
  <1>5. ASSUME NEW v \in Writers, report[v].phase = "done"
        PROVE  report'[v] = report[v]
    BY <1>5 DEF DraftsInv, DraftsTyped
  <1>6. DraftsRight'
    <2>1. ASSUME NEW d \in Drafts, draft[d].status = "converted"
          PROVE  draft[d].report \in Writers /\ report[draft[d].report].phase = "done"
      BY <2>1 DEF DraftsInv, DraftsTyped, DraftsRight, ChatDraft
    <2> QED
      BY <1>5, <2>1 DEF DraftsInv, DraftsRight, Consented
  <1> QED
    BY <1>1, <1>4, <1>6 DEF DraftsInv

\* A draft changes; consent to it is not taken back.
LEMMA DraftMoves ==
  ASSUME DraftsInv, NEW d \in Drafts, NEW c \in ChatDraft,
         draft' = [draft EXCEPT ![d] = c], UNCHANGED report,
         Consented(d) => c.agreed \/ c.direct,
         c.status = "approved" => c.agreed,
         c.status # "converted"
  PROVE  DraftsInv'
  <1>1. DraftsTyped'
    BY DEF DraftsInv, DraftsTyped
  <1>2. draft'[d] = c /\ \A e \in Drafts \ {d} : draft'[e] = draft[e]
    BY DEF DraftsInv, DraftsTyped
  <1>3. \A e \in Drafts : Consented(e) => Consented(e)'
    BY <1>2 DEF Consented
  <1>4. WritersRight'
    BY <1>3 DEF DraftsInv, DraftsTyped, WritersRight, Report
  <1>5. DraftsRight'
    BY <1>2, <1>3 DEF DraftsInv, DraftsRight
  <1> QED
    BY <1>1, <1>4, <1>5 DEF DraftsInv

\* A report is opened, with the draft that the request has at hand or with none.
LEMMA OpensInv ==
  ASSUME DraftsInv, NEW w \in Writers, NEW type \in Types, NEW d \in Drafts \cup {Nothing},
         Opens(w, type, d), report[w].phase # "done", UNCHANGED draft,
         d = Nothing \/ d = report[w].draft
  PROVE  DraftsInv'
  <1> DEFINE c == [report[w] EXCEPT !.phase = "sections", !.type = type, !.draft = d]
  <1>1. report[w] \in Report
    BY DEF DraftsInv, DraftsTyped
  <1>2. c \in Report /\ c.draft = d /\ c.type = type
    BY <1>1 DEF Report
  <1>3. report' = [report EXCEPT ![w] = c]
    BY DEF Opens
  <1> HIDE DEF c
  <1> QED
    BY <1>2, <1>3, ReportMoves

LEMMA BeginsInv ==
  ASSUME DraftsInv, NEW w \in Writers,
         \/ WriteBaselineReport(w) \/ WriteDiagnosticReport(w) \/ WriteHealthSummary(w)
         \/ \E r \in Rebuilders : WriteFindings(w, r)
  PROVE  DraftsInv'
  <1>1. PICK type \in {"baseline_report", "diagnostic_report",
                       "server_health_summary", "findings_summary"} :
           Opens(w, type, Nothing) /\ report[w].phase = "none" /\ UNCHANGED draft
    BY DEF WriteBaselineReport, WriteDiagnosticReport, WriteHealthSummary,
           WriteReport, WriteFindings
  <1> QED
    BY <1>1, OpensInv DEF Types

LEMMA ReadDraftInv ==
  ASSUME DraftsInv, NEW w \in Writers, NEW d \in Drafts, ReadDraft(w, d)
  PROVE  DraftsInv'
  <1> DEFINE c == [report[w] EXCEPT !.phase = "begun", !.draft = d]
  <1>1. report[w] \in Report
    BY DEF DraftsInv, DraftsTyped
  <1>2. c \in Report /\ c.draft = d /\ c.phase = "begun"
    BY <1>1 DEF Report
  <1>3. report' = [report EXCEPT ![w] = c] /\ UNCHANGED draft
    BY DEF ReadDraft
  <1>4. Consented(d)
    BY DEF ReadDraft, Ready, DraftsInv, DraftsRight, Consented
  <1>5. report[w].phase # "done"
    BY DEF ReadDraft
  <1> HIDE DEF c
  <1> QED
    BY <1>2, <1>3, <1>4, <1>5, ReportMoves

LEMMA CreateReportInv ==
  ASSUME DraftsInv, NEW w \in Writers, CreateReport(w)
  PROVE  DraftsInv'
  <1>1. PICK type \in {"customer_summary", "technical_internal"} :
           Opens(w, type, report[w].draft)
    BY DEF CreateReport
  <1>2. report[w].draft \in Drafts \cup {Nothing}
    BY DEF DraftsInv, DraftsTyped, Report
  <1>3. report[w].phase # "done" /\ UNCHANGED draft
    BY DEF CreateReport
  <1> QED
    BY <1>1, <1>2, <1>3, OpensInv DEF Types

LEMMA AdviceTyped ==
  ASSUME NEW type, NEW few \in Advice(type)
  PROVE  few \subseteq Findings
  <1>1. ASSUME NEW all \in SUBSET Findings, NEW f \in FirstFew(all)
        PROVE  f \subseteq Findings
    BY <1>1 DEF FirstFew
  <1> DEFINE open == {f \in Existing : row[f].status = "open"}
  <1>2. open \subseteq Findings
    BY DEF Existing
  <1>3. CASE type = "baseline_report"
    <2>1. PICK k \in Scans : few \in FirstFew({f \in open : row[f].scan = k})
      BY <1>3 DEF Advice
    <2> QED
      BY <1>1, <1>2, <2>1
  <1>4. CASE type = "diagnostic_report"
    BY <1>1, <1>2, <1>4 DEF Advice
  <1>5. CASE type \notin {"baseline_report", "diagnostic_report"}
    BY <1>5 DEF Advice
  <1> QED
    BY <1>3, <1>4, <1>5

\* A report's sections and recommendations.
LEMMA WritingInv ==
  ASSUME DraftsInv, NEW w \in Writers, AddSection(w) \/ ListAdvice(w) \/ Recommend(w)
  PROVE  DraftsInv'
  <1>1. report[w] \in Report
    BY DEF DraftsInv, DraftsTyped
  <1>2. UNCHANGED draft /\ report[w].phase # "done"
    BY DEF AddSection, ListAdvice, Recommend
  <1>3. report[w].phase = "sections" => report[w].type \in Types
    BY DEF DraftsInv, WritersRight
  <1>4. CASE AddSection(w)
    <2> DEFINE c == [report[w] EXCEPT !.made = report[w].made + 1]
    <2>1. report[w].made + 1 \in 0 .. 5
      BY <1>1, <1>3, <1>4, SectionsAssumption DEF AddSection, Report
    <2>2. c \in Report /\ c.draft = report[w].draft /\ c.type = report[w].type
      BY <1>1, <2>1 DEF Report
    <2>3. report' = [report EXCEPT ![w] = c]
      BY <1>4 DEF AddSection
    <2>4. report[w].phase = "sections"
      BY <1>4 DEF AddSection
    <2> HIDE DEF c
    <2> QED
      BY <1>2, <1>3, <2>2, <2>3, <2>4, ReportMoves
  <1>5. CASE ListAdvice(w)
    <2>1. PICK few \in Advice(report[w].type) :
             report' = [report EXCEPT ![w].phase = "advice", ![w].advise = few]
      BY <1>5 DEF ListAdvice
    <2> DEFINE c == [report[w] EXCEPT !.phase = "advice", !.advise = few]
    <2>2. few \subseteq Findings
      BY <2>1, AdviceTyped
    <2>3. c \in Report /\ c.draft = report[w].draft /\ c.phase = "advice"
      BY <1>1, <2>2 DEF Report
    <2>4. report' = [report EXCEPT ![w] = c]
      BY <2>1
    <2> HIDE DEF c
    <2> QED
      BY <1>2, <2>3, <2>4, ReportMoves
  <1>6. CASE Recommend(w)
    <2>1. PICK f \in report[w].advise : report' = [report EXCEPT
             ![w].advise = @ \ {f}, ![w].advised = @ \cup {f}]
      BY <1>6 DEF Recommend
    <2> DEFINE c == [report[w] EXCEPT !.advise = report[w].advise \ {f},
                                      !.advised = report[w].advised \cup {f}]
    <2>2. f \in Findings
      BY <1>1 DEF Report
    <2>3. c \in Report /\ c.draft = report[w].draft /\ c.phase = "advice"
      <3>1. report[w].advise \ {f} \in SUBSET Findings
            /\ report[w].advised \cup {f} \in SUBSET Findings
        BY <1>1, <2>2 DEF Report
      <3>2. report[w].phase = "advice"
        BY <1>6 DEF Recommend
      <3> QED
        BY <1>1, <3>1, <3>2 DEF Report
    <2>4. report' = [report EXCEPT ![w] = c]
      BY <2>1
    <2> HIDE DEF c
    <2> QED
      BY <1>2, <2>3, <2>4, ReportMoves
  <1> QED
    BY <1>4, <1>5, <1>6

LEMMA CreateDraftInv ==
  ASSUME DraftsInv, NEW d \in Drafts, CreateDraft(d)
  PROVE  DraftsInv'
  <1> DEFINE c == [draft[d] EXCEPT !.status = "pending_review"]
  <1>1. draft[d] \in ChatDraft
    BY DEF DraftsInv, DraftsTyped
  <1>2. /\ c \in ChatDraft /\ c.status = "pending_review"
        /\ c.agreed = draft[d].agreed /\ c.direct = draft[d].direct
    BY <1>1 DEF ChatDraft
  <1>3. draft' = [draft EXCEPT ![d] = c] /\ UNCHANGED report
    BY DEF CreateDraft
  <1> HIDE DEF c
  <1> QED
    BY <1>2, <1>3, DraftMoves DEF Consented

LEMMA ReviewDraftInv ==
  ASSUME DraftsInv, NEW d \in Drafts, NEW s \in {"approved", "rejected"},
         ReviewDraft(d, s)
  PROVE  DraftsInv'
  <1>1. draft[d] \in ChatDraft
    BY DEF DraftsInv, DraftsTyped
  <1> DEFINE a == draft[d].agreed \/ s = "approved"
             c == [draft[d] EXCEPT !.status = s, !.agreed = a]
  <1>2. a \in BOOLEAN /\ (draft[d].agreed => a) /\ (s = "approved" => a)
    OBVIOUS
  <1>3. draft' = [draft EXCEPT ![d] = c] /\ UNCHANGED report
    BY DEF ReviewDraft
  <1> HIDE DEF a
  <1>4. c \in ChatDraft /\ c.status = s /\ c.agreed = a /\ c.direct = draft[d].direct
    BY <1>1, <1>2 DEF ChatDraft
  <1> HIDE DEF c
  <1>5. Consented(d) => c.agreed \/ c.direct
    BY <1>2, <1>4 DEF Consented
  <1>6. c.status = "approved" => c.agreed
    BY <1>2, <1>4
  <1> QED
    BY <1>3, <1>4, <1>5, <1>6, DraftMoves

LEMMA CreateChatReportInv ==
  ASSUME DraftsInv, NEW w \in Writers, NEW d \in Drafts, CreateChatReport(w, d)
  PROVE  DraftsInv'
  <1> DEFINE n == [draft[d] EXCEPT !.status = "pending_review", !.direct = TRUE]
             c == [report[w] EXCEPT !.phase = "begun", !.draft = d]
  <1>1. draft[d] \in ChatDraft /\ report[w] \in Report
    BY DEF DraftsInv, DraftsTyped
  <1>2. n \in ChatDraft /\ n.status = "pending_review" /\ n.direct = TRUE
    BY <1>1 DEF ChatDraft
  <1>3. c \in Report /\ c.phase = "begun" /\ c.draft = d
    BY <1>1 DEF Report
  <1>4. /\ draft' = [draft EXCEPT ![d] = n]
        /\ report' = [report EXCEPT ![w] = c]
        /\ report[w].phase = "none"
    BY DEF CreateChatReport
  <1> HIDE DEF n, c
  <1>5. DraftsTyped'
    BY <1>2, <1>3, <1>4 DEF DraftsInv, DraftsTyped
  <1>6. /\ draft'[d] = n /\ \A e \in Drafts \ {d} : draft'[e] = draft[e]
        /\ report'[w] = c /\ \A v \in Writers \ {w} : report'[v] = report[v]
    BY <1>4 DEF DraftsInv, DraftsTyped
  <1>7. Consented(d)' /\ \A e \in Drafts : Consented(e) => Consented(e)'
    BY <1>2, <1>6 DEF Consented
  <1>8. WritersRight'
    BY <1>3, <1>6, <1>7 DEF DraftsInv, DraftsTyped, WritersRight, Report
  <1>9. DraftsRight'
    <2>1. ASSUME NEW e \in Drafts, draft[e].status = "converted"
          PROVE  draft[e].report \in Writers \ {w}
      BY <1>4, <2>1 DEF DraftsInv, DraftsTyped, DraftsRight, ChatDraft
    <2> QED
      BY <1>2, <1>6, <1>7, <2>1 DEF DraftsInv, DraftsRight
  <1> QED
    BY <1>5, <1>8, <1>9 DEF DraftsInv

LEMMA MarkConvertedInv ==
  ASSUME DraftsInv, NEW w \in Writers, MarkConverted(w)
  PROVE  DraftsInv'
  <1>0. PICK d \in Drafts : d = report[w].draft
    BY DEF DraftsInv, DraftsTyped, MarkConverted, Report
  <1> DEFINE n == [draft[d] EXCEPT !.status = "converted", !.report = w]
             c == [report[w] EXCEPT !.phase = "done"]
  <1>1. report[w] \in Report /\ draft[d] \in ChatDraft
    BY DEF DraftsInv, DraftsTyped
  <1>2. /\ n \in ChatDraft /\ n.status = "converted" /\ n.report = w
        /\ n.agreed = draft[d].agreed /\ n.direct = draft[d].direct
    BY <1>1 DEF ChatDraft
  <1>3. /\ c \in Report /\ c.phase = "done" /\ c.draft = d
        /\ c.made = report[w].made /\ c.type = report[w].type
    BY <1>0, <1>1 DEF Report
  <1>4. /\ draft' = [draft EXCEPT ![d] = n]
        /\ report' = [report EXCEPT ![w] = c]
        /\ report[w].phase = "sections"
        /\ report[w].made = Sections[report[w].type]
    BY <1>0 DEF MarkConverted
  <1>5. Consented(d)
    BY <1>0, AbsentAssumption DEF DraftsInv, WritersRight
  <1> HIDE DEF n, c
  <1>6. DraftsTyped'
    BY <1>1, <1>2, <1>3, <1>4 DEF DraftsInv, DraftsTyped
  <1>7. /\ draft'[d] = n /\ \A e \in Drafts \ {d} : draft'[e] = draft[e]
        /\ report'[w] = c /\ \A v \in Writers \ {w} : report'[v] = report[v]
    BY <1>1, <1>4 DEF DraftsInv, DraftsTyped
  <1>8. Consented(d)' /\ \A e \in Drafts : Consented(e) => Consented(e)'
    BY <1>2, <1>5, <1>7 DEF Consented
  <1>9. WritersRight'
    BY <1>3, <1>7, <1>8 DEF DraftsInv, DraftsTyped, WritersRight, Report
  <1>10. DraftsRight'
    <2>1. ASSUME NEW e \in Drafts \ {d}, draft[e].status = "converted"
          PROVE  draft[e].report \in Writers \ {w}
      BY <1>4, <2>1 DEF DraftsInv, DraftsTyped, DraftsRight, ChatDraft
    <2>2. w # Nothing
      BY AbsentAssumption
    <2> QED
      BY <1>2, <1>3, <1>4, <1>7, <1>8, <2>1, <2>2 DEF DraftsInv, DraftsRight
  <1> QED
    BY <1>6, <1>9, <1>10 DEF DraftsInv

LEMMA DraftsStep == DraftsInv /\ [ServerNext]_serverVars => DraftsInv'
  <1> SUFFICES ASSUME DraftsInv, [ServerNext]_serverVars PROVE DraftsInv'
    OBVIOUS
  <1>1. ASSUME UNCHANGED <<report, draft>> PROVE DraftsInv'
    BY <1>1 DEF DraftsInv, DraftsTyped, WritersRight, DraftsRight, Consented
  <1>2. ASSUME NEW r \in Rebuilders, ReadFindings(r) \/ LookForGroups(r) \/ CommitGroups(r)
        PROVE  DraftsInv'
    BY <1>1, <1>2 DEF ReadFindings, LookForGroups, CommitGroups
  <1>3. CASE (InventoryNext /\ UNCHANGED reportVars) \/ UNCHANGED serverVars
    BY <1>1, <1>3 DEF reportVars, serverVars
  <1> QED
    BY <1>2, <1>3, BeginsInv, WritingInv, CreateChatReportInv, ReadDraftInv,
       CreateReportInv, MarkConvertedInv, CreateDraftInv, ReviewDraftInv
       DEF ServerNext, ReportsNext

LEMMA DraftsAlways == ServerSpec => []DraftsInv
  BY DraftsInit, DraftsStep, PTL DEF ServerSpec

\* A draft is shown as converted only with the finished report and with consent
\* (ConversionSound), although reviews replace its status and two requests may
\* convert it: consent is never taken back, and a finished report stays so.
THEOREM ConversionSoundHolds == ServerSpec => []ConversionSound
  <1>1. DraftsInv => ConversionSound
    BY DEF DraftsInv, DraftsRight, ConversionSound, Consented
  <1> QED
    BY <1>1, DraftsAlways, PTL

-----------------------------------------------------------------------------
(* Groups of findings (Reports).                                           *)

\* A finding has a status of findings, whatever is stored meanwhile.
FindingsMarked == \A f \in Findings : row[f] # Nothing => row[f].status \in FindingStatuses

LEMMA FindingsFromOthers ==
  ASSUME InventoryInv, NEW k \in Scans, NEW u \in Tools, NEW x \in output[k][u],
         x.key \in Findings
  PROVE  u \notin LegacyApps \cup Phase2Apps /\ x.key \notin Paths
  BY OffersAssumption, KeysAssumption DEF InventoryInv, InventoryTyped, InventoryTypeOK

LEMMA StorerMarks ==
  ASSUME InventoryInv, FindingsMarked, NEW k \in Scans, NEW t \in Tools,
         NEW x \in ingest[k][t].items, Storer(k, t, x)
  PROVE  FindingsMarked'
  <1>1. x.key \in Keys
    BY DEF InventoryInv, InventoryTyped, Ingestion, Item
  <1>2. row \in [Keys -> Row \cup {Nothing}] /\ Findings \subseteq Keys
    BY DEF InventoryInv, InventoryTyped, Keys
  <1>3. x.key \in Findings => StatusOf(x.key) = "open"
    BY KeysAssumption DEF StatusOf
  <1>4. PICK v, c : \/ row' = row
                    \/ /\ row' = [row EXCEPT ![x.key] = [scan |-> k, value |-> v, status |-> c]]
                       /\ c = StatusOf(x.key)
    BY DEF Storer, UpdateOrCreate, GetOrCreate
  <1> QED
    BY <1>1, <1>2, <1>3, <1>4 DEF FindingsMarked, FindingStatuses

LEMMA SaveRowMarks ==
  ASSUME InventoryInv, FindingsMarked, NEW k \in Scans, NEW t \in Tools, SaveRow(k, t)
  PROVE  FindingsMarked'
  <1>1. PICK g : g = ingest[k][t]
    OBVIOUS
  <1>2. PICK u : u = Current(k, t)
    OBVIOUS
  <1>3. /\ g \in Ingestion /\ HandRight(k, g) /\ u = NextTool(k, g)
        /\ g.todo \subseteq DOMAIN profile[k]
    BY <1>1, <1>2, InHand
  <1>4. g.phase = "holding"
    BY <1>1 DEF SaveRow
  <1>5. Storing(k, g) /\ Holding(k, g)
    BY <1>3, <1>4 DEF HandRight
  <1>6. u \in Tools /\ u \in Merging \cup LegacyApps \cup Phase2Apps
    BY <1>3, <1>5, NextToolTyped DEF InventoryInv, Storing, Holding
  <1>7. PICK x \in g.items : x = g.read.item
    BY <1>5 DEF Holding
  <1>8. x \in output[k][u] /\ x.key \in Keys
    BY <1>3, <1>5, <1>7 DEF Storing, Ingestion, Item
  <1>9. PICK was : was = g.read.was
    OBVIOUS
  <1>10. row' = [row EXCEPT ![x.key] = Updated(k, u, x, was, row[x.key])]
    BY <1>1, <1>2, <1>7, <1>9 DEF SaveRow
  <1>11. /\ row \in [Keys -> Row \cup {Nothing}] /\ Findings \subseteq Keys
         /\ row[x.key] # Nothing
    BY <1>5, <1>7 DEF Holding, InventoryInv, InventoryTyped, Keys
  <1>12. CASE x.key \in Findings
    <2>1. u \in Merging
      BY <1>6, <1>8, <1>12, FindingsFromOthers
    <2>2. PICK r \in Row : r = row[x.key]
      BY <1>8, <1>11
    <2>3. Updated(k, u, x, was, r).status = r.status
      BY <2>1 DEF Updated, Merging, LegacyApps, Phase2Apps, Phase2Services, Row
    <2> QED
      BY <1>8, <1>10, <1>11, <1>12, <2>2, <2>3 DEF FindingsMarked
  <1>13. CASE x.key \notin Findings
    BY <1>10, <1>11, <1>13 DEF FindingsMarked
  <1> QED
    BY <1>12, <1>13

LEMMA FindingsMarkedStep ==
  InventoryInv /\ FindingsMarked /\ [ServerNext]_serverVars => FindingsMarked'
  <1> SUFFICES ASSUME InventoryInv, FindingsMarked, [ServerNext]_serverVars
               PROVE  FindingsMarked'
    OBVIOUS
  <1>1. CASE UNCHANGED row
    BY <1>1 DEF FindingsMarked
  <1>2. CASE Portal
    <2>1. row \in [Keys -> Row \cup {Nothing}] /\ Paths \cup Findings \subseteq Keys
      BY DEF InventoryInv, InventoryTyped, Keys
    <2>2. CASE \E p \in Paths, s \in Reviews : ReviewApplication(p, s)
      BY <2>1, <2>2, KeysAssumption DEF ReviewApplication, FindingsMarked
    <2>3. ASSUME NEW f \in Findings, NEW s \in Marks, MarkFinding(f, s)
          PROVE  FindingsMarked'
      <3>1. row[f] \in Row /\ s \in FindingStatuses
        BY <2>1, <2>3, DecisionsAssumption DEF MarkFinding, FindingStatuses
      <3>2. row'[f].status = s /\ \A e \in Findings \ {f} : row'[e] = row[e]
        BY <2>1, <2>3, <3>1 DEF MarkFinding, Row
      <3> QED
        BY <3>1, <3>2 DEF FindingsMarked
    <2> QED
      BY <1>2, <2>2, <2>3 DEF Portal
  <1>3. CASE \E k \in Scans, t \in Tools : Finish(k, t)
    BY <1>1, <1>3 DEF Finish
  <1>4. ASSUME NEW k \in Scans, NEW t \in Tools, Ingest(k, t)
        PROVE  FindingsMarked'
    <2>1. CASE \/ ReadSteps(k, t) \/ OpenTool(k, t) \/ FailStep(k, t) \/ CloseStep(k, t)
               \/ Judge(k, t) \/ Count(k, t) \/ SaveScan(k, t)
      BY <1>1, <2>1 DEF ReadSteps, OpenTool, FailStep, CloseStep, Judge, Count, SaveScan
    <2> QED
      BY <1>4, <2>1, StoringSteps, StorerMarks, SaveRowMarks
  <1> QED
    BY <1>1, <1>2, <1>3, <1>4, ReportsLeaveInventory
       DEF ServerNext, InventoryNext, serverVars, inventoryVars

LEMMA FindingsMarkedAlways == ServerSpec => []FindingsMarked
  <1>1. ReportsInit => FindingsMarked
    BY KeysAssumption DEF ReportsInit, InventoryInit, FindingsMarked, FindingStatuses, Keys
  <1> QED
    BY <1>1, InventoryAlways, FindingsMarkedStep, PTL DEF ServerSpec

GroupsTyped ==
    /\ groups \in [Buckets -> Seq(GroupRows)]
    /\ rebuild \in [Rebuilders -> Rebuild]

\* The first of a sequence is replaced, if there is one.
LEMMA FirstReplaced ==
  ASSUME NEW S, NEW s \in Seq(S), NEW e \in S
  PROVE  [s EXCEPT ![1] = e] \in Seq(S) /\ Len([s EXCEPT ![1] = e]) = Len(s)
  <1>1. CASE s = <<>>
    <2>1. 1 \notin DOMAIN s
      BY <1>1
    <2>2. [s EXCEPT ![1] = e] = s
      BY <2>1
    <2> QED
      BY <2>2
  <1>2. CASE s # <<>>
    <2>1. Len(s) \in Nat /\ Len(s) # 0
      BY <1>2, EmptySeq
    <2>2. 1 \in 1 .. Len(s)
      BY <2>1
    <2> QED
      BY <2>2, ExceptSeq
  <1> QED
    BY <1>1, <1>2

\* The rebuild updates the first group of a key, or appends one.
LEMMA CommitGroupsTyped ==
  ASSUME GroupsTyped, NEW r \in Rebuilders, CommitGroups(r)
  PROVE  GroupsTyped'
  <1>1. rebuild[r] \in Rebuild
    BY DEF GroupsTyped
  <1> DEFINE seen == {b \in Buckets :
                        {f \in Findings : Bucket[f] = b /\ rebuild[r].read[f] # "none"} # {}}
  <1>2. PICK new \in [seen -> GroupRows] :
          groups' = [b \in Buckets |->
            CASE b \notin seen -> groups[b]
              [] b \in seen \cap rebuild[r].there -> [groups[b] EXCEPT ![1] = new[b]]
              [] b \in seen \ rebuild[r].there -> Append(groups[b], new[b])]
    BY DEF CommitGroups
  <1> HIDE DEF seen
  <1>3. ASSUME NEW b \in Buckets PROVE groups'[b] \in Seq(GroupRows)
    <2>1. groups[b] \in Seq(GroupRows)
      BY DEF GroupsTyped
    <2>2. CASE b \notin seen
      BY <1>2, <2>1, <2>2
    <2>3. CASE b \in seen \cap rebuild[r].there
      <3>1. groups'[b] = [groups[b] EXCEPT ![1] = new[b]] /\ new[b] \in GroupRows
        BY <1>2, <2>3
      <3>2. [groups[b] EXCEPT ![1] = new[b]] \in Seq(GroupRows)
        BY <2>1, <3>1, FirstReplaced
      <3> QED
        BY <3>1, <3>2
    <2>4. CASE b \in seen \ rebuild[r].there
      <3>1. groups'[b] = Append(groups[b], new[b]) /\ new[b] \in GroupRows
        BY <1>2, <2>4
      <3> QED
        BY <2>1, <3>1
    <2> QED
      BY <2>2, <2>3, <2>4
  <1>4. groups' \in [Buckets -> Seq(GroupRows)]
    BY <1>2, <1>3
  <1>5. rebuild' \in [Rebuilders -> Rebuild]
    BY <1>1 DEF CommitGroups, GroupsTyped, Rebuild
  <1> QED
    BY <1>4, <1>5 DEF GroupsTyped

LEMMA GroupsTypedStep ==
  FindingsMarked /\ GroupsTyped /\ [ServerNext]_serverVars => GroupsTyped'
  <1> SUFFICES ASSUME FindingsMarked, GroupsTyped, [ServerNext]_serverVars
               PROVE  GroupsTyped'
    OBVIOUS
  <1>1. CASE UNCHANGED <<groups, rebuild>>
    BY <1>1 DEF GroupsTyped
  <1>2. ASSUME NEW r \in Rebuilders, ReadFindings(r)
        PROVE  GroupsTyped'
    <2> DEFINE read == [f \in Findings |-> IF f \in Existing THEN row[f].status ELSE "none"]
    <2>1. read \in [Findings -> FindingStatuses \cup {"none"}]
      BY DEF Existing, FindingsMarked
    <2>2. /\ rebuild' = [rebuild EXCEPT ![r].phase = "read", ![r].read = read]
          /\ UNCHANGED groups
      BY <1>2 DEF ReadFindings
    <2> HIDE DEF read
    <2>3. [rebuild[r] EXCEPT !.phase = "read", !.read = read] \in Rebuild
      BY <2>1 DEF GroupsTyped, Rebuild
    <2>4. rebuild' = [rebuild EXCEPT ![r] =
                        [rebuild[r] EXCEPT !.phase = "read", !.read = read]]
      BY <2>2
    <2> QED
      BY <2>2, <2>3, <2>4 DEF GroupsTyped
  <1>3. ASSUME NEW r \in Rebuilders, LookForGroups(r)
        PROVE  GroupsTyped'
    <2> DEFINE there == {b \in Buckets : HasGroup(b)}
    <2>1. /\ rebuild' = [rebuild EXCEPT ![r].phase = "looked", ![r].there = there]
          /\ UNCHANGED groups /\ there \in SUBSET Buckets
      BY <1>3 DEF LookForGroups
    <2> HIDE DEF there
    <2> QED
      BY <2>1 DEF GroupsTyped, Rebuild
  <1>4. ASSUME NEW r \in Rebuilders, NEW w \in Writers, WriteFindings(w, r)
        PROVE  GroupsTyped'
    BY <1>4 DEF WriteFindings, GroupsTyped, Rebuild
  <1>5. ReportsNext =>
          \/ UNCHANGED <<groups, rebuild>>
          \/ \E r \in Rebuilders :
                \/ ReadFindings(r) \/ LookForGroups(r) \/ CommitGroups(r)
                \/ \E w \in Writers : WriteFindings(w, r)
    BY DEF ReportsNext, WriteBaselineReport, WriteDiagnosticReport, WriteHealthSummary,
           WriteReport, AddSection, ListAdvice, Recommend, CreateChatReport, ReadDraft,
           CreateReport, MarkConverted, CreateDraft, ReviewDraft
  <1> QED
    BY <1>1, <1>2, <1>3, <1>4, <1>5, CommitGroupsTyped DEF ServerNext, serverVars, reportVars

LEMMA GroupsTypedAlways == ServerSpec => []GroupsTyped
  <1>1. ReportsInit => GroupsTyped
    BY DEF ReportsInit, GroupsTyped, Rebuild
  <1> QED
    BY <1>1, FindingsMarkedAlways, GroupsTypedStep, PTL DEF ServerSpec

\* The types of groups, rebuilds, reports and drafts: a finding that a rebuild
\* reads has a status of findings, because no tool and no review of another
\* table writes a finding's row.
THEOREM ReportsTypeCorrect == ServerSpec => []ReportsTypeOK
  <1>1. GroupsTyped /\ DraftsInv => ReportsTypeOK
    BY DEF GroupsTyped, DraftsInv, DraftsTyped, ReportsTypeOK
  <1> QED
    BY <1>1, DraftsAlways, GroupsTypedAlways, PTL

-----------------------------------------------------------------------------
(* The scenarios of MCInventory: what holds of every server holds in them, *)
(* and where rebuilds or ingestions do not overlap there is more.          *)

ScenarioKept == scenario \in Scenarios

LEMMA ScenarioStep ==
  ScenarioKept /\ [MCNext]_<<serverVars, scenario>> =>
    ScenarioKept' /\ scenario' = scenario /\ [ServerNext]_serverVars
  <1> SUFFICES ASSUME ScenarioKept, [MCNext]_<<serverVars, scenario>>
               PROVE  scenario' = scenario /\ [ServerNext]_serverVars
    BY DEF ScenarioKept
  <1>1. CASE UNCHANGED <<serverVars, scenario>>
    BY <1>1
  <1>2. CASE MCNext
    <2>1. BusyInventory => InventoryNext
      BY DEF BusyInventory, InventoryNext, Portal
    <2>2. CalmInventory => InventoryNext
      BY DEF CalmInventory, InventoryNext
    <2>3. CalmRisks => InventoryNext
      BY DEF CalmRisks, InventoryNext
    <2>4. MarkRisk => InventoryNext
      BY DEF MarkRisk, InventoryNext, Portal
    <2>5. CASE scenario \in {"inventory", "calm"}
      BY <1>2, <2>1, <2>2, <2>5 DEF MCNext, ServerNext
    <2>6. CASE scenario \in {"reports", "drafts"}
      BY <1>2, <2>3, <2>4, <2>6 DEF MCNext, ServerNext
    <2> QED
      BY <1>2, <2>5, <2>6 DEF ScenarioKept, Scenarios, MCNext
  <1> QED
    BY <1>1, <1>2

\* The scenarios are behaviours of the server.
THEOREM ScenariosAreServers == MCSpec => ServerSpec
  <1>1. MCInit => ReportsInit /\ ScenarioKept
    BY DEF MCInit, ScenarioKept
  <1> QED
    BY <1>1, ScenarioStep, PTL DEF MCSpec, ServerSpec

LEMMA ScenarioAlways == MCSpec => []ScenarioKept
  <1>1. MCInit => ScenarioKept
    BY DEF MCInit, ScenarioKept
  <1> QED
    BY <1>1, ScenarioStep, PTL DEF MCSpec

\* One rebuild at a time: what it found is still so when it commits.
RebuildsAlone ==
    /\ \A q, r \in Rebuilders : AtWork(q) /\ AtWork(r) => q = r
    /\ \A r \in Rebuilders : rebuild[r].phase = "looked" =>
          rebuild[r].there = {b \in Buckets : HasGroup(b)}
    /\ GroupsSingle

LEMMA CommitGroupsSingle ==
  ASSUME GroupsTyped, RebuildsAlone, NEW r \in Rebuilders, CommitGroups(r)
  PROVE  RebuildsAlone'
  <1>1. rebuild[r].phase = "looked" /\ AtWork(r)
    BY DEF CommitGroups, AtWork
  <1>2. rebuild[r].there = {b \in Buckets : groups[b] # <<>>}
    BY <1>1 DEF RebuildsAlone, HasGroup
  <1>3. /\ rebuild'[r].phase = "done"
        /\ \A q \in Rebuilders \ {r} : rebuild'[q] = rebuild[q] /\ ~ AtWork(q)
    BY <1>1 DEF CommitGroups, GroupsTyped, Rebuild, RebuildsAlone
  <1>4. \A q \in Rebuilders : rebuild'[q].phase \notin {"read", "looked"}
    BY <1>3 DEF AtWork
  <1> DEFINE seen == {b \in Buckets :
                        {f \in Findings : Bucket[f] = b /\ rebuild[r].read[f] # "none"} # {}}
  <1>5. PICK new \in [seen -> GroupRows] :
          groups' = [b \in Buckets |->
            CASE b \notin seen -> groups[b]
              [] b \in seen \cap rebuild[r].there -> [groups[b] EXCEPT ![1] = new[b]]
              [] b \in seen \ rebuild[r].there -> Append(groups[b], new[b])]
    BY DEF CommitGroups
  <1> HIDE DEF seen
  <1>6. ASSUME NEW b \in Buckets PROVE Len(groups'[b]) <= 1
    <2>1. groups[b] \in Seq(GroupRows) /\ Len(groups[b]) <= 1
      BY DEF GroupsTyped, RebuildsAlone, GroupsSingle
    <2>2. CASE b \notin seen
      BY <1>5, <2>1, <2>2
    <2>3. CASE b \in seen \cap rebuild[r].there
      <3>1. groups'[b] = [groups[b] EXCEPT ![1] = new[b]] /\ new[b] \in GroupRows
        BY <1>5, <2>3
      <3>2. Len([groups[b] EXCEPT ![1] = new[b]]) = Len(groups[b])
        BY <2>1, <3>1, FirstReplaced
      <3> QED
        BY <2>1, <3>1, <3>2
    <2>4. CASE b \in seen \ rebuild[r].there
      <3>1. groups'[b] = Append(groups[b], new[b]) /\ new[b] \in GroupRows
        BY <1>5, <2>4
      <3>2. groups[b] = <<>>
        BY <1>2, <2>4
      <3> QED
        BY <3>1, <3>2
    <2> QED
      BY <2>2, <2>3, <2>4
  <1> QED
    BY <1>4, <1>6 DEF RebuildsAlone, AtWork, GroupsSingle

LEMMA RebuildsStep ==
  ASSUME GroupsTyped, RebuildsAlone, ReportsNext,
         \A q, r \in Rebuilders : (AtWork(q) /\ AtWork(r))' => q = r
  PROVE  RebuildsAlone'
  <1>1. CASE UNCHANGED <<groups, rebuild>>
    BY <1>1 DEF RebuildsAlone, AtWork, HasGroup, GroupsSingle
  <1>2. ASSUME UNCHANGED groups,
               \A r \in Rebuilders : rebuild'[r].phase = "looked" =>
                  \/ rebuild[r].phase = "looked" /\ rebuild'[r].there = rebuild[r].there
                  \/ rebuild'[r].there = {b \in Buckets : HasGroup(b)}
        PROVE  RebuildsAlone'
    BY <1>2 DEF RebuildsAlone, HasGroup, GroupsSingle
  <1>3. ASSUME NEW r \in Rebuilders,
               \/ ReadFindings(r) \/ LookForGroups(r)
               \/ \E w \in Writers : WriteFindings(w, r)
        PROVE  RebuildsAlone'
    <2>1. /\ UNCHANGED groups
          /\ \A q \in Rebuilders \ {r} : rebuild'[q] = rebuild[q]
      BY <1>3 DEF ReadFindings, LookForGroups, WriteFindings, GroupsTyped
    <2>2. rebuild'[r].phase = "looked" => rebuild'[r].there = {b \in Buckets : HasGroup(b)}
      BY <1>3 DEF ReadFindings, LookForGroups, WriteFindings, GroupsTyped, Rebuild
    <2> QED
      BY <1>2, <2>1, <2>2
  <1>4. \/ UNCHANGED <<groups, rebuild>>
        \/ \E r \in Rebuilders :
              \/ ReadFindings(r) \/ LookForGroups(r) \/ CommitGroups(r)
              \/ \E w \in Writers : WriteFindings(w, r)
    BY DEF ReportsNext, WriteBaselineReport, WriteDiagnosticReport, WriteHealthSummary,
           WriteReport, AddSection, ListAdvice, Recommend, CreateChatReport, ReadDraft,
           CreateReport, MarkConverted, CreateDraft, ReviewDraft
  <1> QED
    BY <1>1, <1>3, <1>4, CommitGroupsSingle

\* Where rebuilds do not overlap a key has one group, for any findings, keys
\* and reports beside them (GroupsSingle; reports/services.py:140).
THEOREM CalmGroupsSingleHolds == MCSpec => []CalmGroupsSingle
  <1> DEFINE Kept == scenario = "reports" => RebuildsAlone
  <1>1. MCInit => Kept
    BY DEF MCInit, ReportsInit, RebuildsAlone, AtWork, GroupsSingle
  <1>2. GroupsTyped /\ ScenarioKept /\ Kept /\ [MCNext]_<<serverVars, scenario>> => Kept'
    <2> SUFFICES ASSUME GroupsTyped, RebuildsAlone, scenario = "reports",
                        [MCNext]_<<serverVars, scenario>>
                 PROVE  RebuildsAlone'
      BY ScenarioStep
    <2>1. CASE UNCHANGED reportVars
      BY <2>1 DEF reportVars, RebuildsAlone, AtWork, HasGroup, GroupsSingle
    <2>2. CASE MCNext
      BY <2>1, <2>2, RebuildsStep DEF MCNext
    <2> QED
      BY <2>1, <2>2 DEF serverVars
  <1>3. Kept => CalmGroupsSingle
    BY DEF RebuildsAlone, CalmGroupsSingle
  <1> HIDE DEF Kept
  <1> QED
    BY <1>1, <1>2, <1>3, GroupsTypedAlways, ScenariosAreServers, ScenarioAlways,
       PTL DEF MCSpec

\* One ingestion at a time, of one scan, and no reviews: what an ingestion holds
\* is still the row when it is saved, and no application is approved.
Busy(k, t) == ingest[k][t].phase \notin {"none", "done"}

OneIngestion ==
    /\ \A j, k \in Scans, t, u \in Tools : Busy(j, t) /\ Busy(k, u) => j = k /\ t = u
    /\ \A j, k \in Scans, t, u \in Tools :
          ingest[j][t].phase # "none" /\ ingest[k][u].phase # "none" => j = k
    /\ \A k \in Scans, t \in Tools : output[k][t] # {} => ingest[k][t].phase # "none"

HeldIsThere == \A k \in Scans, t \in Tools : ingest[k][t].phase = "holding" =>
    ingest[k][t].read.was = row[ingest[k][t].read.item.key]

NoneApproved == \A x \in Keys : row[x] # Nothing => row[x].status # "approved"

\* The row has a framework as good as the one that tool t reports of item x.
Best(t, x) ==
    row[x.key] # Nothing /\ Priority(row[x.key].value) >= Priority(Incoming(t, x))

BestSaved == \A k \in Scans, t \in Phase2Apps \cap Tools :
    step[k][t] = "succeeded" => \A x \in Required(k, t) : Best(t, x)

\* While a tool's items are being stored.
BestStoring(k, g) ==
    g.phase \in {"tool", "holding"} /\ NextTool(k, g) \in Phase2Apps =>
        \A x \in Required(k, NextTool(k, g)) : Best(NextTool(k, g), x) \/ x \in g.items

BestStored == \A k \in Scans, t \in Tools : BestStoring(k, ingest[k][t])

CalmRight == OneIngestion /\ HeldIsThere /\ NoneApproved /\ BestSaved /\ BestStored

LEMMA PriorityIsNat == \A f : Priority(f) \in Nat
  BY DEF Priority

\* No scan has results but the one whose ingestion is under way.
LEMMA OnlyThisScan ==
  ASSUME InventoryInv, OneIngestion, NEW k \in Scans, NEW t \in Tools, Busy(k, t),
         NEW j \in Scans, NEW u \in Tools, output[j][u] # {}
  PROVE  j = k /\ run[k][u] = "succeeded" /\ u \in Range(profile[k])
  BY DEF InventoryInv, StepsFollow, OneIngestion, Busy

\* A step of the ingestions in the calm scenario does not lower a framework.
FrameworksRise ==
    \A k \in Scans, t \in Phase2Apps \cap Tools : output[k][t] # {} =>
        \A p \in Paths : row[p] # Nothing =>
            row'[p] # Nothing /\ Priority(row'[p].value) >= Priority(row[p].value)

LEMMA BestStays ==
  ASSUME InventoryInv, FrameworksRise, NEW k \in Scans, NEW t \in Phase2Apps \cap Tools,
         NEW x \in output[k][t], Best(t, x)
  PROVE  Best(t, x)'
  <1>1. x.key \in Paths
    BY OffersAssumption DEF InventoryInv, InventoryTyped, InventoryTypeOK
  <1>2. /\ row[x.key] # Nothing /\ row'[x.key] # Nothing
        /\ Priority(row'[x.key].value) >= Priority(row[x.key].value)
    BY <1>1 DEF Best, FrameworksRise
  <1> QED
    BY <1>2, PriorityIsNat DEF Best

\* The ingestion that is under way goes on as h.
LEMMA CalmMoves ==
  ASSUME InventoryInv, CalmRight, FrameworksRise, NEW k \in Scans, NEW t \in Tools,
         Busy(k, t), NEW h \in Ingestion, Proceeds(k, t, h), h.phase # "none",
         UNCHANGED <<profile, output>>, NoneApproved',
         h.phase = "holding" => h.read.was = row'[h.read.item.key],
         BestStoring(k, h)',
         \A j \in Scans, u \in Phase2Apps \cap Tools : step'[j][u] = "succeeded" =>
            step[j][u] = "succeeded" \/ \A x \in Required(j, u) : Best(u, x)'
  PROVE  CalmRight'
  <1>1. ingest \in [Scans -> [Tools -> Ingestion]]
    BY DEF InventoryInv, InventoryTyped
  <1>2. /\ ingest'[k][t] = h
        /\ \A j \in Scans, u \in Tools : j # k \/ u # t =>
              ingest'[j][u] = ingest[j][u] /\ ~ Busy(j, u)
    BY <1>1, Put DEF Proceeds, CalmRight, OneIngestion
  <1>3. ingest[k][t].phase # "none"
    BY DEF Busy
  <1>4. \A j \in Scans, u \in Tools :
           (ingest'[j][u].phase # "none") <=> (ingest[j][u].phase # "none")
    BY <1>2, <1>3
  <1>5. \A j \in Scans, u \in Tools : Busy(j, u)' => j = k /\ u = t
    BY <1>2 DEF Busy
  <1>6. OneIngestion'
    BY <1>4, <1>5 DEF CalmRight, OneIngestion
  <1>7. HeldIsThere'
    BY <1>2, <1>5 DEF HeldIsThere, Busy
  <1>8. BestSaved'
    <2> SUFFICES ASSUME NEW j \in Scans, NEW u \in Phase2Apps \cap Tools,
                        step'[j][u] = "succeeded", NEW x \in Required(j, u)
                 PROVE  Best(u, x)'
      BY DEF BestSaved, Required
    <2>1. x \in output[j][u]
      BY DEF Required
    <2>2. step[j][u] = "succeeded" => Best(u, x)
      BY DEF CalmRight, BestSaved
    <2> QED
      BY <2>1, <2>2, BestStays
  <1>9. BestStored'
    <2> SUFFICES ASSUME NEW j \in Scans, NEW u \in Tools
                 PROVE  BestStoring(j, ingest[j][u])'
      BY DEF BestStored
    <2>1. CASE j = k /\ u = t
      BY <1>2, <2>1
    <2>2. CASE j # k \/ u # t
      BY <1>5, <2>2 DEF BestStoring, Busy
    <2> QED
      BY <2>1, <2>2
  <1> QED
    BY <1>6, <1>7, <1>8, <1>9 DEF CalmRight

LEMMA RowsKeepRank ==
  ASSUME UNCHANGED row
  PROVE  FrameworksRise /\ (NoneApproved => NoneApproved')
  BY PriorityIsNat DEF FrameworksRise, NoneApproved

\* The steps that write no row.
LEMMA CalmQuiet ==
  ASSUME InventoryInv, CalmRight, NEW k \in Scans, NEW t \in Tools,
         \/ ReadSteps(k, t) \/ FailStep(k, t) \/ Judge(k, t) \/ Count(k, t)
         \/ SaveScan(k, t)
  PROVE  CalmRight'
  <1>1. PICK g : g = ingest[k][t]
    OBVIOUS
  <1>2. g \in Ingestion /\ Busy(k, t)
    BY <1>1, InHand DEF Busy, ReadSteps, FailStep, Judge, Count, SaveScan
  <1>3. UNCHANGED <<profile, output, row>>
    BY DEF ReadSteps, FailStep, Judge, Count, SaveScan, scanVars
  <1>4. ASSUME NEW j \in Scans, NEW u \in Phase2Apps \cap Tools, step'[j][u] = "succeeded"
        PROVE  step[j][u] = "succeeded"
    <2>1. CASE FailStep(k, t)
      <3>1. PICK v : v = Current(k, t)
        OBVIOUS
      <3>2. v \in Tools
        BY <2>1, <3>1, InHand, NextToolTyped DEF FailStep, InventoryInv
      <3>3. step' = [step EXCEPT ![k][v] = "failed"]
        BY <2>1, <3>1 DEF FailStep
      <3>4. step \in [Scans -> [Tools -> {"none", "queued", "succeeded", "failed"}]]
        BY DEF InventoryInv, InventoryTyped, InventoryTypeOK
      <3>5. /\ step'[k][v] = "failed"
            /\ \A c \in Scans, d \in Tools : c # k \/ d # v => step'[c][d] = step[c][d]
        BY <3>2, <3>3, <3>4, Put
      <3> QED
        BY <1>4, <3>5
    <2>2. CASE ~ FailStep(k, t)
      BY <1>4, <2>2 DEF ReadSteps, Judge, Count, SaveScan, scanVars
    <2> QED
      BY <2>1, <2>2
  <1>5. PICK h : Proceeds(k, t, h) /\ h.phase \notin {"none", "tool", "holding"}
    <2>1. CASE ReadSteps(k, t)
      <3> DEFINE T == {i \in DOMAIN profile[k] : run[k][profile[k][i]] # "queued"}
                 h == [g EXCEPT !.phase = "between", !.todo = T]
      <3>1. h.phase = "between"
        BY <1>2 DEF Ingestion
      <3>2. Proceeds(k, t, h)
        BY <1>1, <2>1 DEF ReadSteps
      <3> HIDE DEF h
      <3> QED
        BY <3>1, <3>2
    <2>2. CASE FailStep(k, t)
      BY <1>1, <1>2, <2>2 DEF FailStep, Ingestion
    <2>3. CASE Judge(k, t)
      BY <1>1, <1>2, <2>3 DEF Judge, Ingestion
    <2>4. CASE Count(k, t)
      <3> DEFINE h == [g EXCEPT !.phase = "counted", !.read = Counted(k)]
      <3>1. h.phase = "counted"
        BY <1>2 DEF Ingestion
      <3>2. Proceeds(k, t, h)
        BY <1>1, <2>4 DEF Count
      <3> HIDE DEF h
      <3> QED
        BY <3>1, <3>2
    <2>5. CASE SaveScan(k, t)
      <3>1. [NoIngestion EXCEPT !.phase = "done"].phase = "done"
        BY DEF NoIngestion
      <3> QED
        BY <2>5, <3>1 DEF SaveScan
    <2> QED
      BY <2>1, <2>2, <2>3, <2>4, <2>5
  <1>6. h \in Ingestion
    <2>1. InventoryInv'
      BY IngestInv DEF Ingest
    <2> QED
      BY <1>5, <2>1 DEF Proceeds, InventoryInv, InventoryTyped
  <1>7. BestStoring(k, h)'
    BY <1>5 DEF BestStoring
  <1> QED
    BY <1>2, <1>3, <1>4, <1>5, <1>6, <1>7, RowsKeepRank, CalmMoves DEF CalmRight

LEMMA CalmOpens ==
  ASSUME InventoryInv, CalmRight, NEW k \in Scans, NEW t \in Tools, OpenTool(k, t)
  PROVE  CalmRight'
  <1>1. PICK g : g = ingest[k][t]
    OBVIOUS
  <1>2. PICK u : u = Current(k, t)
    OBVIOUS
  <1> DEFINE I == {x \in output[k][u] :
                     ~ (u = "opt_apps_discovery" /\ Nested(k, output[k][u], x))}
             held == [g EXCEPT !.phase = "tool", !.items = I]
  <1>3. g \in Ingestion /\ u = NextTool(k, g) /\ g.todo \subseteq DOMAIN profile[k]
    BY <1>1, <1>2, InHand
  <1>4. g.todo # {} /\ Busy(k, t)
    BY <1>1 DEF OpenTool, Busy
  <1>5. u \in Tools
    BY <1>3, <1>4, NextToolTyped DEF InventoryInv
  <1>6. I \in SUBSET Item
    BY <1>5 DEF InventoryInv, InventoryTyped
  <1>7. Required(k, u) \subseteq I
    BY DEF Required, Nested
  <1>8. held \in Ingestion /\ held.phase = "tool" /\ held.todo = g.todo /\ held.items = I
    BY <1>3, <1>6 DEF Ingestion, Phases
  <1>9. Proceeds(k, t, held) /\ UNCHANGED <<profile, run, output, step, row>>
    BY <1>1, <1>2 DEF OpenTool, scanVars
  <1> HIDE DEF held, I
  <1>10. PICK h \in Ingestion :
            /\ Proceeds(k, t, h) /\ h.phase = "tool" /\ h.todo = g.todo
            /\ Required(k, u) \subseteq h.items
    BY <1>7, <1>8, <1>9
  <1>11. NextTool(k, h)' = u /\ Required(k, u)' = Required(k, u)
    BY <1>3, <1>9, <1>10 DEF NextTool, Required
  <1>12. BestStoring(k, h)'
    BY <1>10, <1>11 DEF BestStoring
  <1> QED
    BY <1>4, <1>9, <1>10, <1>12, RowsKeepRank, CalmMoves DEF CalmRight

LEMMA CalmCloses ==
  ASSUME InventoryInv, CalmRight, NEW k \in Scans, NEW t \in Tools, CloseStep(k, t)
  PROVE  CalmRight'
  <1>1. PICK g : g = ingest[k][t]
    OBVIOUS
  <1>2. PICK u : u = Current(k, t)
    OBVIOUS
  <1> DEFINE h == [g EXCEPT !.phase = "between", !.todo = Rest(@)]
  <1>3. /\ g \in Ingestion /\ HandRight(k, g) /\ u = NextTool(k, g)
        /\ g.todo \subseteq DOMAIN profile[k]
    BY <1>1, <1>2, InHand
  <1>4. g.phase = "tool" /\ g.items = {} /\ Busy(k, t)
    BY <1>1 DEF CloseStep, Busy
  <1>5. u \in Tools
    BY <1>3, <1>4, NextToolTyped DEF InventoryInv, HandRight, Storing
  <1>6. Rest(g.todo) \in SUBSET Nat
    BY <1>3, RestTyped
  <1>7. h \in Ingestion /\ h.phase = "between"
    BY <1>3, <1>6 DEF Ingestion, Phases
  <1>8. /\ Proceeds(k, t, h) /\ step' = [step EXCEPT ![k][u] = "succeeded"]
        /\ UNCHANGED <<profile, output, row>>
    BY <1>1, <1>2 DEF CloseStep
  <1> HIDE DEF h
  <1>9. u \in Phase2Apps => \A x \in Required(k, u) : Best(u, x)
    BY <1>1, <1>3, <1>4 DEF CalmRight, BestStored, BestStoring
  <1>10. step \in [Scans -> [Tools -> {"none", "queued", "succeeded", "failed"}]]
    BY DEF InventoryInv, InventoryTyped, InventoryTypeOK
  <1>11. \A j \in Scans, v \in Tools : j # k \/ v # u => step'[j][v] = step[j][v]
    BY <1>5, <1>8, <1>10, Put
  <1>12. ASSUME NEW j \in Scans, NEW v \in Phase2Apps \cap Tools,
                step'[j][v] = "succeeded", step[j][v] # "succeeded", NEW x \in Required(j, v)
         PROVE  Best(v, x)'
    <2>1. j = k /\ v = u
      BY <1>11, <1>12
    <2>2. Best(v, x)
      BY <1>9, <1>12, <2>1
    <2> QED
      BY <1>8, <2>2 DEF Best
  <1>13. BestStoring(k, h)'
    BY <1>7 DEF BestStoring
  <1> QED
    BY <1>4, <1>7, <1>8, <1>12, <1>13, RowsKeepRank, CalmMoves DEF CalmRight

\* A row is written for the item x.
LEMMA CalmStores ==
  ASSUME InventoryInv, CalmRight, NEW k \in Scans, NEW t \in Tools,
         NEW g, g = ingest[k][t], g.phase \in {"tool", "holding"},
         NEW x \in g.items, NEW u, u = NextTool(k, g),
         NEW r \in Row, row' = [row EXCEPT ![x.key] = r], r.status # "approved",
         NEW h \in Ingestion, Proceeds(k, t, h),
         h.phase = "tool", h.todo = g.todo, h.items = g.items \ {x},
         UNCHANGED <<profile, scanVars>>,
         u \in Phase2Apps => Priority(r.value) >= Priority(Incoming(u, x)),
         u \in Phase2Apps /\ row[x.key] # Nothing =>
            Priority(r.value) >= Priority(row[x.key].value)
  PROVE  CalmRight'
  <1>1. /\ g \in Ingestion /\ HandRight(k, g) /\ g.todo \subseteq DOMAIN profile[k]
        /\ Busy(k, t)
    BY InHand DEF Busy
  <1>2. Storing(k, g)
    BY <1>1 DEF HandRight
  <1>3. u \in Tools /\ x \in output[k][u]
    BY <1>1, <1>2, NextToolTyped DEF InventoryInv, Storing
  <1>4. x.key \in Keys /\ r # Nothing
    BY <1>3, NothingAssumption DEF InventoryInv, InventoryTyped, Item
  <1>5. row'[x.key] = r /\ \A y \in Keys \ {x.key} : row'[y] = row[y]
    BY <1>4 DEF InventoryInv, InventoryTyped
  <1>6. FrameworksRise
    <2> SUFFICES ASSUME NEW j \in Scans, NEW v \in Phase2Apps \cap Tools, output[j][v] # {},
                        NEW p \in Paths, row[p] # Nothing
                 PROVE  row'[p] # Nothing /\ Priority(row'[p].value) >= Priority(row[p].value)
      BY DEF FrameworksRise
    <2>1. CASE p # x.key
      BY <1>5, <2>1, PriorityIsNat DEF Keys
    <2>2. CASE p = x.key
      <3>1. u \in LegacyApps \cup Phase2Apps
        BY <1>3, <2>2, PathsFromAppTools
      <3>2. j = k /\ v \in Range(profile[k])
        BY <1>1, OnlyThisScan DEF CalmRight
      <3>3. u \in Range(profile[k])
        BY <1>1, <1>3, OnlyThisScan DEF CalmRight
      <3>4. profile[k] \in Profiles
        BY DEF InventoryInv, InventoryTyped, InventoryTypeOK
      <3>5. u \in Phase2Apps
        BY <3>1, <3>2, <3>3, <3>4, ProfilesAssumption
      <3> QED
        BY <1>4, <1>5, <2>2, <3>5
    <2> QED
      BY <2>1, <2>2
  <1>7. NoneApproved'
    <2> SUFFICES ASSUME NEW y \in Keys, row'[y] # Nothing
                 PROVE  row'[y].status # "approved"
      BY DEF NoneApproved
    <2> QED
      BY <1>5 DEF CalmRight, NoneApproved
  <1>8. BestStoring(k, h)'
    <2>1. NextTool(k, h)' = u /\ Required(k, u)' = Required(k, u)
      BY DEF NextTool, Required, scanVars
    <2> SUFFICES ASSUME u \in Phase2Apps, NEW y \in Required(k, u)
                 PROVE  Best(u, y)' \/ y \in h.items
      BY <2>1 DEF BestStoring
    <2>2. Best(u, y) \/ y \in g.items
      BY DEF CalmRight, BestStored, BestStoring
    <2>3. CASE Best(u, y)
      <3>1. y \in output[k][u]
        BY DEF Required
      <3> QED
        BY <1>3, <1>6, <2>3, <3>1, BestStays
    <2>4. CASE y = x
      <3>1. row'[y.key] = r
        BY <1>5, <2>4
      <3> QED
        BY <1>4, <2>4, <3>1 DEF Best
    <2> QED
      BY <2>2, <2>3, <2>4
  <1> QED
    BY <1>1, <1>6, <1>7, <1>8, CalmMoves DEF scanVars

LEMMA CalmStorer ==
  ASSUME InventoryInv, CalmRight, NEW k \in Scans, NEW t \in Tools,
         NEW x \in ingest[k][t].items, Storer(k, t, x)
  PROVE  CalmRight'
  <1>1. PICK g : g = ingest[k][t]
    OBVIOUS
  <1>2. PICK u : u = Current(k, t)
    OBVIOUS
  <1>3. /\ g \in Ingestion /\ HandRight(k, g) /\ u = NextTool(k, g)
        /\ g.todo \subseteq DOMAIN profile[k]
    BY <1>1, <1>2, InHand
  <1>4. g.phase = "tool" /\ x \in g.items /\ x \in Item /\ x.key \in Keys
    BY <1>1, <1>3 DEF Storer, GetOrCreate, UpdateOrCreate, Ingestion, Item
  <1>5. u \in Tools
    BY <1>3, <1>4, NextToolTyped DEF InventoryInv, HandRight, Storing
  <1>6. StatusOf(x.key) \in RowStatuses /\ StatusOf(x.key) # "approved"
    BY StatusTyped DEF StatusOf
  <1>7. CASE u \in Overwriting /\ UpdateOrCreate(k, t, x)
    <2> DEFINE r == [scan |-> k, value |-> x.value, status |-> StatusOf(x.key)]
               h == [g EXCEPT !.items = @ \ {x}]
    <2>1. r \in Row /\ r.status # "approved"
      BY <1>4, <1>6 DEF Row, Item
    <2>2. /\ h \in Ingestion /\ h.phase = "tool" /\ h.todo = g.todo
          /\ h.items = g.items \ {x}
      BY <1>3, <1>4 DEF Ingestion
    <2>3. /\ row' = [row EXCEPT ![x.key] = r] /\ Proceeds(k, t, h)
          /\ UNCHANGED <<profile, scanVars>>
      BY <1>1, <1>7 DEF UpdateOrCreate
    <2>4. u \notin Phase2Apps
      BY <1>7 DEF Overwriting, Phase2Apps
    <2> HIDE DEF r, h
    <2> QED
      BY <1>1, <1>3, <1>4, <2>1, <2>2, <2>3, <2>4, CalmStores
  <1>8. CASE GetOrCreate(k, t, x) /\ row[x.key] = Nothing
    <2> DEFINE r == [scan |-> k, value |-> Incoming(u, x), status |-> StatusOf(x.key)]
               h == [g EXCEPT !.items = @ \ {x}]
    <2>1. r \in Row /\ r.status # "approved" /\ r.value = Incoming(u, x)
      BY <1>4, <1>5, <1>6, IncomingTyped DEF Row
    <2>2. /\ h \in Ingestion /\ h.phase = "tool" /\ h.todo = g.todo
          /\ h.items = g.items \ {x}
      BY <1>3, <1>4 DEF Ingestion
    <2>3. /\ row' = [row EXCEPT ![x.key] = r] /\ Proceeds(k, t, h)
          /\ UNCHANGED <<profile, scanVars>>
      BY <1>1, <1>2, <1>8 DEF GetOrCreate
    <2> HIDE DEF r, h
    <2>4. Priority(r.value) >= Priority(Incoming(u, x))
      BY <2>1, PriorityIsNat
    <2> QED
      BY <1>1, <1>3, <1>4, <1>8, <2>1, <2>2, <2>3, <2>4, CalmStores
  <1>9. CASE GetOrCreate(k, t, x) /\ row[x.key] # Nothing
    <2> DEFINE held == [g EXCEPT !.phase = "holding",
                                 !.read = [item |-> x, was |-> row[x.key]]]
    <2>1. row[x.key] \in Row
      BY <1>4, <1>9 DEF InventoryInv, InventoryTyped
    <2>2. [item |-> x, was |-> row[x.key]] \in [item : Item, was : Row]
      BY <1>4, <2>1
    <2>3. /\ held \in Ingestion /\ held.phase = "holding" /\ held.todo = g.todo
          /\ held.items = g.items /\ held.read = [item |-> x, was |-> row[x.key]]
      BY <1>3, <2>2 DEF Ingestion, Phases
    <2>4. Proceeds(k, t, held) /\ UNCHANGED <<profile, output, step, row>>
      BY <1>1, <1>9 DEF GetOrCreate, scanVars
    <2> HIDE DEF held
    <2>5. PICK h \in Ingestion :
            /\ Proceeds(k, t, h) /\ h.phase = "holding" /\ h.todo = g.todo
            /\ h.items = g.items /\ h.read = [item |-> x, was |-> row[x.key]]
      BY <2>3, <2>4
    <2>6. BestStoring(k, h)'
      <3>1. BestStoring(k, g)
        BY <1>1 DEF CalmRight, BestStored
      <3>2. NextTool(k, h)' = u /\ Required(k, u)' = Required(k, u)
        BY <1>3, <2>4, <2>5 DEF NextTool, Required
      <3>3. \A y : Best(u, y) => Best(u, y)'
        BY <2>4 DEF Best
      <3> QED
        BY <1>3, <1>4, <2>5, <3>1, <3>2, <3>3 DEF BestStoring
    <2>7. h.read.was = row'[h.read.item.key]
      BY <2>4, <2>5
    <2>8. Busy(k, t)
      BY <1>1, <1>4 DEF Busy
    <2> QED
      BY <2>4, <2>5, <2>6, <2>7, <2>8, RowsKeepRank, CalmMoves DEF CalmRight
  <1> QED
    BY <1>2, <1>7, <1>8, <1>9 DEF Storer

LEMMA CalmSaves ==
  ASSUME InventoryInv, CalmRight, NEW k \in Scans, NEW t \in Tools, SaveRow(k, t)
  PROVE  CalmRight'
  <1>1. PICK g : g = ingest[k][t]
    OBVIOUS
  <1>2. PICK u : u = Current(k, t)
    OBVIOUS
  <1>3. /\ g \in Ingestion /\ HandRight(k, g) /\ u = NextTool(k, g)
        /\ g.todo \subseteq DOMAIN profile[k]
    BY <1>1, <1>2, InHand
  <1>4. g.phase = "holding"
    BY <1>1 DEF SaveRow
  <1>5. Storing(k, g) /\ Holding(k, g)
    BY <1>3, <1>4 DEF HandRight
  <1>6. u \in Tools /\ u \in Merging \cup LegacyApps \cup Phase2Apps
    BY <1>3, <1>5, NextToolTyped DEF InventoryInv, Storing, Holding
  <1>7. PICK x \in g.items : x = g.read.item
    BY <1>5 DEF Holding
  <1>8. x \in Item /\ x.key \in Keys /\ row[x.key] \in Row
    BY <1>3, <1>5, <1>7 DEF Holding, Ingestion, Item, InventoryInv, InventoryTyped
  <1>9. PICK was \in Row : was = row[x.key]
    BY <1>8
  <1>10. g.read.was = was /\ was.status # "approved" /\ ~ Settled(was)
    <2>1. g.read.was = was
      BY <1>1, <1>4, <1>7, <1>9 DEF CalmRight, HeldIsThere
    <2>2. was.status # "approved"
      BY <1>5, <1>7, <1>8, <1>9 DEF Holding, CalmRight, NoneApproved
    <2> QED
      BY <2>1, <2>2 DEF Settled
  <1> DEFINE r == Updated(k, u, x, was, was)
             h == [g EXCEPT !.phase = "tool", !.items = @ \ {x}, !.read = Nothing]
  <1>11. r \in Row
    BY <1>6, <1>8, UpdatedTyped
  <1>12. /\ h \in Ingestion /\ h.phase = "tool" /\ h.todo = g.todo
         /\ h.items = g.items \ {x}
    BY <1>3 DEF Ingestion, Phases
  <1>13. /\ row' = [row EXCEPT ![x.key] = r] /\ Proceeds(k, t, h)
         /\ UNCHANGED <<profile, scanVars>>
    BY <1>1, <1>2, <1>7, <1>9, <1>10 DEF SaveRow
  <1>14. r.status # "approved"
    BY <1>10 DEF Updated, Row
  <1>15. ASSUME u \in Phase2Apps
         PROVE  /\ Priority(r.value) >= Priority(Incoming(u, x))
                /\ Priority(r.value) >= Priority(was.value)
    <2>1. u \notin Merging
      BY <1>15 DEF Merging, Phase2Apps, Phase2Services
    <2>2. r.value = Preferred(was.value, Incoming(u, x))
      BY <1>10, <1>15, <2>1 DEF Updated
    <2> HIDE DEF r
    <2> QED
      BY <2>2, PriorityIsNat DEF Preferred
  <1> HIDE DEF r, h
  <1> QED
    BY <1>1, <1>3, <1>4, <1>9, <1>11, <1>12, <1>13, <1>14, <1>15, CalmStores

LEMMA CalmFinish ==
  ASSUME InventoryInv, CalmRight, NEW k \in Scans, NEW t \in Tools, Alone(k), Finish(k, t)
  PROVE  CalmRight'
  <1>1. UNCHANGED <<profile, step, row>> /\ run[k][t] = "queued"
    BY DEF Finish
  <1>2. PICK h \in Ingestion : Proceeds(k, t, h) /\ h.phase = "called"
    <2>1. [NoIngestion EXCEPT !.phase = "called"] \in Ingestion
      BY DEF NoIngestion, Ingestion, Phases
    <2>2. [NoIngestion EXCEPT !.phase = "called"].phase = "called"
      BY DEF NoIngestion
    <2> QED
      BY <2>1, <2>2 DEF Finish
  <1>3. /\ ingest'[k][t].phase = "called"
        /\ \A c \in Scans, d \in Tools : c # k \/ d # t =>
              /\ ingest'[c][d] = ingest[c][d]
              /\ ingest[c][d].phase \in {"none", "done"}
              /\ c # k => ingest[c][d].phase = "none"
    <2>1. ingest \in [Scans -> [Tools -> Ingestion]]
      BY DEF InventoryInv, InventoryTyped
    <2> QED
      BY <1>2, <2>1, Put DEF Proceeds, Alone
  <1>4. \A c \in Scans, d \in Tools : c # k \/ d # t => output'[c][d] = output[c][d]
    BY DEF Finish, InventoryInv, InventoryTyped
  <1>5. OneIngestion'
    <2>1. \A c \in Scans, d \in Tools : Busy(c, d)' => c = k /\ d = t
      BY <1>3 DEF Busy
    <2>2. \A c \in Scans, d \in Tools : ingest'[c][d].phase # "none" => c = k
      BY <1>3
    <2>3. \A c \in Scans, d \in Tools : output'[c][d] # {} => ingest'[c][d].phase # "none"
      BY <1>3, <1>4 DEF CalmRight, OneIngestion
    <2> QED
      BY <2>1, <2>2, <2>3 DEF OneIngestion
  <1>6. \A c \in Scans, d \in Tools : ingest'[c][d].phase \in {"none", "called", "done"}
    BY <1>3
  <1>7. HeldIsThere' /\ BestStored'
    BY <1>6 DEF HeldIsThere, BestStored, BestStoring
  <1>8. BestSaved'
    <2> SUFFICES ASSUME NEW c \in Scans, NEW d \in Phase2Apps \cap Tools,
                        step[c][d] = "succeeded", NEW x \in Required(c, d)'
                 PROVE  Best(d, x)'
      BY <1>1 DEF BestSaved
    <2>1. c # k \/ d # t
      BY <1>1 DEF InventoryInv, StepsFollow
    <2>2. x \in Required(c, d)
      BY <1>4, <2>1 DEF Required
    <2>3. Best(d, x)
      BY <2>2 DEF CalmRight, BestSaved
    <2> QED
      BY <1>1, <2>3 DEF Best
  <1> QED
    BY <1>1, <1>5, <1>7, <1>8, RowsKeepRank DEF CalmRight

LEMMA CalmStep ==
  ASSUME InventoryInv, CalmRight, CalmInventory
  PROVE  CalmRight'
  <1>1. ASSUME NEW k \in Scans, NEW t \in Tools, Ingest(k, t)
        PROVE  CalmRight'
    BY <1>1, StoringSteps, CalmQuiet, CalmOpens, CalmCloses, CalmStorer, CalmSaves
  <1> QED
    BY <1>1, CalmFinish DEF CalmInventory

LEMMA CalmStutters ==
  ASSUME CalmRight, UNCHANGED inventoryVars
  PROVE  CalmRight'
  <1>1. UNCHANGED <<profile, output, step, row, ingest>>
    BY DEF inventoryVars, scanVars
  <1>2. OneIngestion' /\ HeldIsThere' /\ NoneApproved'
    BY <1>1 DEF CalmRight, OneIngestion, Busy, HeldIsThere, NoneApproved
  <1>3. BestSaved' /\ BestStored'
    BY <1>1 DEF CalmRight, BestSaved, BestStored, BestStoring, Best, Required, NextTool
  <1> QED
    BY <1>2, <1>3 DEF CalmRight

LEMMA CalmStarts == ReportsInit => CalmRight
  <1> SUFFICES ASSUME ReportsInit PROVE CalmRight
    OBVIOUS
  <1>1. \A k \in Scans, t \in Tools : /\ ingest[k][t].phase = "none" /\ output[k][t] = {}
                                      /\ step[k][t] # "succeeded"
    BY DEF ReportsInit, InventoryInit, NoIngestion
  <1>2. NoneApproved
    BY DEF ReportsInit, InventoryInit, NoneApproved
  <1> QED
    BY <1>1, <1>2 DEF CalmRight, OneIngestion, Busy, HeldIsThere, BestSaved, BestStored,
                      BestStoring

\* Where ingestions do not overlap, every application is left with the best
\* framework its tools saw, for any tools, profiles and results (baseline.py:573).
THEOREM CalmFrameworkBestHolds == MCSpec => []CalmFrameworkBest
  <1> DEFINE Calm == scenario = "calm" => CalmRight
  <1>1. MCInit => Calm
    BY CalmStarts DEF MCInit
  <1>2. InventoryInv /\ ScenarioKept /\ Calm /\ [MCNext]_<<serverVars, scenario>> => Calm'
    <2> SUFFICES ASSUME InventoryInv, CalmRight, scenario = "calm",
                        [MCNext]_<<serverVars, scenario>>
                 PROVE  CalmRight'
      BY ScenarioStep
    <2>1. CASE UNCHANGED inventoryVars
      BY <2>1, CalmStutters
    <2>2. CASE MCNext
      BY <2>2, CalmStep DEF MCNext
    <2> QED
      BY <2>1, <2>2 DEF serverVars
  <1>3. InventoryInv /\ Calm => CalmFrameworkBest
    <2> SUFFICES ASSUME InventoryInv, CalmRight, NEW k \in Scans,
                        NEW t \in Phase2Apps \cap Tools, scan[k] = "succeeded",
                        NEW x \in Required(k, t)
                 PROVE  Priority(row[x.key].value) >= Priority(Incoming(t, x))
      BY DEF CalmFrameworkBest, FrameworkBest
    <2>1. run[k][t] = "succeeded"
      BY DEF Required, InventoryInv, StepsFollow
    <2>2. step[k][t] = "succeeded"
      BY <2>1 DEF InventoryInv, VerdictsRight, AllSaved, StepsFollow
    <2> QED
      BY <2>2 DEF CalmRight, BestSaved, Best
  <1> HIDE DEF Calm
  <1> QED
    BY <1>1, <1>2, <1>3, InventoryAlways, ScenariosAreServers, ScenarioAlways,
       PTL DEF MCSpec
=============================================================================
