----------------------------- MODULE ToolBuilder -----------------------------
(***************************************************************************)
(* The tool builder (apps/tools): a request for a tool, made in the chat   *)
(* or by an administrator, generates proposals; a proposal is validated,   *)
(* edited, approved or rejected, and converted into a draft ToolDefinition *)
(* with an inactive policy; a management command then enables the tool for *)
(* the chat and for one plan.                                              *)
(*                                                                         *)
(* An action of the admin site reads all its proposals before it acts on   *)
(* the first, so each of them is handled from a copy that may be stale by  *)
(* then; nothing is locked, and every save outside of the conversion's     *)
(* transaction commits by itself.  The form of a proposal saves the status *)
(* that the page shows.  All the proposals are for one key.                *)
(*                                                                         *)
(* Left out: the rows of ToolTestResult and AuditLog, the decision         *)
(* "needs_changes", which nothing calls, and the deletion of rows.  Left   *)
(* out too is what an administrator may override by hand, since the admin  *)
(* site leaves these fields open: another status of a proposal, a review   *)
(* without a decision, a definition, a policy or a place in a plan that is *)
(* entered or changed in its form (tools/admin.py), except that a tool is  *)
(* disabled.  None of it goes by the steps that are modelled here.         *)
(***************************************************************************)

EXTENDS Naturals, FiniteSets

CONSTANTS
    Proposals,     \* bound: the proposals generated
    Editors,       \* administrators acting at the same time
    Requested,     \* what a request may ask for
    Entered        \* what an administrator may write into a proposal

ASSUME BuilderAssumption ==
    Requested \cup Entered \subseteq
          [type : {"runtime_handler", "command_template", "script_template"},
           handler : {"known", "unknown"},
           argv : {"none", "plain", "redacted", "secret", "shell", "forbidden"},
           binary : {"allowlisted", "other"},
           status : {"draft", "pending_review", "enabled"},
           policy : {"inactive", "active"}]

VARIABLES
    request,       \* ToolBuildRequest: [status, content]
    proposal,      \* [Proposals -> ToolBuildProposal]
    reviews,       \* the proposals that have an approving ToolBuildReview
    editor,        \* [Editors -> the action that is under way]
    definition,    \* the ToolDefinition of the key, with its policy
    enabler        \* the management command

vars == <<request, proposal, reviews, editor, definition, enabler>>

-----------------------------------------------------------------------------
(* What a proposal says, and what is wrong with it.                        *)

\* sanitize_builder_json: a secret in the command is replaced by a marker.
Sanitized(content) ==
    [content EXCEPT !.argv = IF @ = "secret" THEN "redacted" ELSE @]

\* build_definition_payload_from_request: whatever the request says, the
\* definition is a draft and the policy is inactive.
Payload(content) ==
    [Sanitized(content) EXCEPT
        !.type = IF @ = "command_template" THEN @ ELSE "runtime_handler",
        !.status = "draft", !.policy = "inactive"]

\* validate_command_template_proposal.
CommandErrors(content) ==
    {e \in {"argv", "operators", "binary", "forbidden", "secret"} :
        CASE e = "argv"      -> content.argv = "none"
          [] e = "operators" -> content.argv = "shell"
          [] e = "binary"    -> content.argv # "none" /\ content.binary = "other"
          [] e = "forbidden" -> content.argv = "forbidden"
          [] e = "secret"    -> content.argv = "secret"}

\* validate_tool_build_proposal.
Errors(content) ==
    (CASE content.type = "command_template" -> CommandErrors(content)
       [] content.type = "runtime_handler"  ->
            IF content.handler = "unknown" THEN {"handler"} ELSE {}
       [] OTHER -> {"type"})
    \cup (IF content.status = "enabled" THEN {"status"} ELSE {})
    \cup (IF content.policy = "active" THEN {"policy"} ELSE {})

Contents ==
    LET proposed == Requested \cup {Payload(c) : c \in Requested} \cup Entered
    IN  proposed \cup {Sanitized(c) : c \in proposed}

-----------------------------------------------------------------------------

ProposalStatuses ==
    {"draft", "validation_failed", "pending_review", "approved", "rejected", "converted"}

\* converted: converted_tool_definition is set.
Proposal == [status : ProposalStatuses, content : Contents, errors : BOOLEAN,
             converted : BOOLEAN]

Absent == [status |-> "absent"]

Actions == {"generate", "validate", "approve", "reject", "convert", "edit"}

\* at: how many of its commits the action has made; copy: the proposal as it
\* was read.
Idle == [action |-> "none"]
Acting == [action : Actions, at : 0 .. 2, of : Proposals, copy : Proposal]

\* from: the proposal it was converted from; open: its policy is active and
\* allows every kind of run, and it is in the plan.
Definition == [status : {"draft", "enabled", "disabled"}, from : Proposals,
               content : Contents, open : BOOLEAN]

\* enabled: the command's copy of the definition is enabled.
NoCommand == [stage |-> "idle", enabled |-> FALSE]

TypeOK ==
    /\ request \in [status : {"draft", "submitted", "proposed"}, content : Contents]
    /\ proposal \in [Proposals -> Proposal \cup {Absent}]
    /\ reviews \subseteq Proposals
    /\ editor \in [Editors -> {Idle} \cup Acting]
    /\ definition \in {Absent} \cup Definition
    /\ enabler \in [stage : {"idle", "found", "checked"}, enabled : BOOLEAN]

Init ==
    /\ request \in [status : {"draft"}, content : Requested]
    /\ proposal = [p \in Proposals |-> Absent]
    /\ reviews = {}
    /\ editor = [a \in Editors |-> Idle]
    /\ definition = Absent
    /\ enabler = NoCommand

Exists(p) == proposal[p] # Absent

\* The action a of the editor goes on to its next commit, or is over.
Goes(a, copy) == editor' = [editor EXCEPT ![a].at = @ + 1, ![a].copy = copy]
Ends(a) == editor' = [editor EXCEPT ![a] = Idle]

At(a, action, n) == editor[a].action = action /\ editor[a].at = n

-----------------------------------------------------------------------------
(* Generating a proposal.                                                  *)

\* generate_tool_build_proposal, from the chat or for a selected request: the
\* request is submitted, then the proposal created, validated, and the request
\* saved again.
Submit(a) ==
    /\ editor[a] = Idle
    /\ \E p \in Proposals :
        /\ ~Exists(p)
        /\ \A b \in Editors : ~(editor[b].action = "generate" /\ editor[b].of = p)
        /\ editor' = [editor EXCEPT ![a] =
              [action |-> "generate", at |-> 0, of |-> p,
               copy |-> [status |-> "draft", content |-> Payload(request.content),
                         errors |-> FALSE, converted |-> FALSE]]]
    /\ request' = [request EXCEPT !.status = "submitted"]
    /\ UNCHANGED <<proposal, reviews, definition, enabler>>

Create(a) ==
    /\ At(a, "generate", 0)
    /\ proposal' = [proposal EXCEPT ![editor[a].of] = editor[a].copy]
    /\ Goes(a, editor[a].copy)
    /\ UNCHANGED <<request, reviews, definition, enabler>>

\* The object that validate_tool_build_proposal leaves: whatever the status
\* was, it is decided anew.
Validated(copy) ==
    LET content == Sanitized(copy.content)
        errors == Errors(copy.content) # {}
    IN  [copy EXCEPT !.content = content, !.errors = errors,
            !.status = IF errors THEN "validation_failed" ELSE "pending_review"]

\* Its save, which leaves converted_tool_definition alone.
SaveValidated(p, copy) ==
    proposal' = [proposal EXCEPT ![p] =
        [Validated(copy) EXCEPT !.converted = proposal[p].converted]]

ValidateNew(a) ==
    /\ At(a, "generate", 1)
    /\ SaveValidated(editor[a].of, editor[a].copy)
    /\ Goes(a, Validated(editor[a].copy))
    /\ UNCHANGED <<request, reviews, definition, enabler>>

Propose(a) ==
    /\ At(a, "generate", 2)
    /\ request' = [request EXCEPT !.status = "proposed"]
    /\ Ends(a)
    /\ UNCHANGED <<proposal, reviews, definition, enabler>>

-----------------------------------------------------------------------------
(* The actions on proposals.                                               *)

\* What an action goes by of the proposal that it has read.
Copy(action, p) ==
    [status |-> IF action \in {"convert", "edit"} THEN p.status ELSE "draft",
     content |-> IF action \in {"validate", "convert"} THEN p.content
                 ELSE Payload(request.content),
     errors |-> action = "approve" /\ p.errors,
     converted |-> FALSE]

\* The queryset of an action, or the page of a form, reads the proposal.
Select(a) ==
    /\ editor[a] = Idle
    /\ \E p \in Proposals, action \in Actions \ {"generate"} :
        /\ Exists(p)
        /\ editor' = [editor EXCEPT ![a] =
              [action |-> action, at |-> 0, of |-> p,
               copy |-> Copy(action, proposal[p])]]
    /\ UNCHANGED <<request, proposal, reviews, definition, enabler>>

Validate(a) ==
    /\ At(a, "validate", 0)
    /\ SaveValidated(editor[a].of, editor[a].copy)
    /\ Ends(a)
    /\ UNCHANGED <<request, reviews, definition, enabler>>

\* The form writes the status of the page, and what the administrator entered.
Edit(a) ==
    /\ At(a, "edit", 0)
    /\ \E content \in Entered :
        proposal' = [proposal EXCEPT ![editor[a].of] =
            [@ EXCEPT !.status = editor[a].copy.status, !.content = content]]
    /\ Ends(a)
    /\ UNCHANGED <<request, reviews, definition, enabler>>

Decision(action) == IF action = "approve" THEN "approved" ELSE "rejected"

\* review_tool_build_proposal: the review is on record first.
Review(a) ==
    /\ \E action \in {"approve", "reject"} :
        /\ At(a, action, 0)
        /\ reviews' = IF action = "approve" THEN reviews \cup {editor[a].of}
                      ELSE reviews
    /\ Goes(a, editor[a].copy)
    /\ UNCHANGED <<request, proposal, definition, enabler>>

\* Its errors are those of the copy.
MayDecide(action, copy) == action = "approve" => ~copy.errors

Decide(a) ==
    \E action \in {"approve", "reject"} :
        /\ At(a, action, 1)
        /\ IF MayDecide(action, editor[a].copy)
           THEN proposal' = [proposal EXCEPT ![editor[a].of].status = Decision(action)]
           ELSE proposal' = proposal
        /\ Ends(a)
        /\ UNCHANGED <<request, reviews, definition, enabler>>

\* Mutant: a proposal that awaits its review is converted too.
ConvertibleUnapproved(copy) == copy.status \in {"approved", "pending_review"}

\* convert_tool_build_proposal: the copy is approved.
Convertible(copy) == copy.status = "approved"

RefuseConversion(a) ==
    /\ At(a, "convert", 0)
    /\ ~Convertible(editor[a].copy)
    /\ Ends(a)
    /\ UNCHANGED <<request, proposal, reviews, definition, enabler>>

\* What the conversion goes by.
Passes(copy) == Errors(copy.content) = {}

\* The validation's save takes the approval away.
Revalidate(a) ==
    /\ At(a, "convert", 0)
    /\ Convertible(editor[a].copy)
    /\ SaveValidated(editor[a].of, editor[a].copy)
    /\ IF Passes(editor[a].copy) THEN Goes(a, Validated(editor[a].copy)) ELSE Ends(a)
    /\ UNCHANGED <<request, reviews, definition, enabler>>

\* Mutant: the definition is looked up, and created only when it is missing.
KeyIsFreeOrShared(key) == TRUE

\* ToolDefinition.key is unique.
KeyIsFree(key) == key = Absent

\* The definition and its policy, which is inactive and allows nobody.
Draft(p, content) ==
    [status |-> "draft", from |-> p, content |-> content, open |-> FALSE]

\* The transaction.  When the key is taken it fails: the proposal stays as the
\* validation left it.
Convert(a) ==
    LET p == editor[a].of IN
    /\ At(a, "convert", 1)
    /\ IF KeyIsFree(definition)
       THEN /\ definition' = IF definition = Absent THEN Draft(p, editor[a].copy.content)
                             ELSE definition
            /\ proposal' = [proposal EXCEPT ![p] =
                  [@ EXCEPT !.status = "converted", !.converted = TRUE]]
       ELSE UNCHANGED <<definition, proposal>>
    /\ Ends(a)
    /\ UNCHANGED <<request, reviews, enabler>>

\* The administrator's request dies between two commits.
Dies(a) ==
    /\ editor[a] # Idle /\ editor[a].at > 0
    /\ Ends(a)
    /\ UNCHANGED <<request, proposal, reviews, definition, enabler>>

-----------------------------------------------------------------------------
(* Enabling the tool: enable_command_template_pilot_tool.                  *)

\* _validate_enablement_target, as far as it goes by the definition that was
\* read.
MayEnable(tool) == tool.content.type = "command_template" /\ tool.status # "disabled"

FindTool ==
    /\ enabler.stage = "idle"
    /\ definition # Absent
    /\ MayEnable(definition)
    /\ enabler' = [stage |-> "found", enabled |-> definition.status = "enabled"]
    /\ UNCHANGED <<request, proposal, reviews, editor, definition>>

\* The tool comes from a proposal that still is converted.
CheckOrigin ==
    /\ enabler.stage = "found"
    /\ IF \E p \in Proposals : Exists(p) /\ proposal[p].converted
                               /\ proposal[p].status = "converted"
       THEN enabler' = [enabler EXCEPT !.stage = "checked"]
       ELSE enabler' = NoCommand
    /\ UNCHANGED <<request, proposal, reviews, editor, definition>>

\* _apply_changes, in a transaction: the status is saved unless the copy has it.
ApplyChanges ==
    /\ enabler.stage = "checked"
    /\ definition' =
          [definition EXCEPT !.status = IF enabler.enabled THEN @ ELSE "enabled",
                             !.open = TRUE]
    /\ enabler' = NoCommand
    /\ UNCHANGED <<request, proposal, reviews, editor>>

\* The form of the definition disables the tool, whatever it was.
Disable ==
    /\ definition # Absent /\ definition.status # "disabled"
    /\ definition' = [definition EXCEPT !.status = "disabled"]
    /\ UNCHANGED <<request, proposal, reviews, editor, enabler>>

-----------------------------------------------------------------------------

Next ==
    \/ \E a \in Editors :
        \/ Submit(a) \/ Create(a) \/ ValidateNew(a) \/ Propose(a)
        \/ Select(a) \/ Validate(a) \/ Edit(a) \/ Review(a) \/ Decide(a)
        \/ RefuseConversion(a) \/ Revalidate(a) \/ Convert(a) \/ Dies(a)
    \/ FindTool \/ CheckOrigin \/ ApplyChanges \/ Disable

Spec == Init /\ [][Next]_vars

-----------------------------------------------------------------------------
(* Properties.                                                             *)

\* A tool that was built comes from a proposal that an administrator approved,
\* whatever copies the conversion, the validation and the forms have worked
\* with: "Only approved proposals can be converted." (services.py:719).
BuiltWasApproved ==
    definition # Absent => definition.from \in reviews

\* What it runs has passed the validation, although a proposal can be edited
\* after its approval and an approval goes by old errors.
BuiltIsValid == definition # Absent => Errors(definition.content) = {}

\* The two together: approvals, edits, validations and conversions that overlap
\* build no tool that nobody has approved or that is not valid.
BuiltIsSound == BuiltWasApproved /\ BuiltIsValid

\* A proposal that says it was converted is the one the tool comes from; of two
\* proposals for the same key only one gets there.
ConvertedHasTool ==
    \A p \in Proposals :
        Exists(p) =>
        /\ proposal[p].status = "converted" => proposal[p].converted
        /\ proposal[p].converted => definition # Absent /\ definition.from = p

=============================================================================
