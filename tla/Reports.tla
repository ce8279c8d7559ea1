------------------------------ MODULE Reports -------------------------------
(***************************************************************************)
(* What the product writes about the inventory: groups of findings, rebuilt*)
(* on demand, reports with their sections and recommendations              *)
(* (apps/reports/services.py), and report drafts of a chat that a Matrix   *)
(* administrator reviews and converts (apps/ai_chat/services.py).          *)
(*                                                                         *)
(* Every row is committed by itself but the groups of one rebuild; their   *)
(* transaction does not keep another from creating the same group. Texts,  *)
(* severities and dates are left out, and so is the form of a draft, which *)
(* lets an administrator set its status and its type by hand.              *)
(***************************************************************************)
EXTENDS Inventory

CONSTANTS
    Rebuilders,   \* requests that rebuild the groups
    Writers,      \* requests that write a report, each one report
    Drafts,       \* chat report drafts
    Internal,     \* those of them that belong to a session of administrators
    Bucket,       \* [Findings -> the key that a finding is grouped by]
    Sections,     \* how many sections each type of report has
    Advised       \* at most so many recommendations in a report (5)

VARIABLES
    groups,       \* [Buckets -> the FindingGroup rows with that key]
    rebuild,      \* [Rebuilders -> how far the request is]
    report,       \* [Writers -> the writer's report]
    draft         \* [Drafts -> the draft]

reportVars == <<groups, rebuild, report, draft>>
serverVars == <<inventoryVars, reportVars>>

-----------------------------------------------------------------------------

Types == {"baseline_report", "diagnostic_report", "server_health_summary",
          "findings_summary", "technical_internal", "customer_summary"}
Buckets == Range(Bucket)
FindingStatuses == {"open", "acknowledged", "ignored"}

ASSUME SectionsAssumption == Sections \in [Types -> 1 .. 5]
ASSUME AbsentAssumption == Nothing \notin Writers \cup Drafts
ASSUME AdvisedAssumption == Advised \in Nat

GroupRows == [status : FindingStatuses, count : 1 .. Cardinality(Findings)]

\* read: the findings as the rebuild read them; there: the buckets for which
\* its transaction has found a group.
Rebuild == [phase : {"idle", "read", "looked", "done", "reported"},
            read : [Findings -> FindingStatuses \cup {"none"}],
            there : SUBSET Buckets]

\* made: the sections that are stored; advise: findings still to be advised on.
Report == [phase : {"none", "begun", "sections", "advice", "done"},
           type : Types \cup {Nothing}, draft : Drafts \cup {Nothing},
           made : 0 .. 5, advise : SUBSET Findings, advised : SUBSET Findings]

\* agreed: an administrator has approved the draft at some time.
ChatDraft == [status : {"none", "pending_review", "approved", "rejected", "converted"},
          report : Writers \cup {Nothing}, agreed : BOOLEAN, direct : BOOLEAN]

ReportsTypeOK ==
    /\ \A b \in Buckets : groups[b] \in Seq(GroupRows)
    /\ rebuild \in [Rebuilders -> Rebuild]
    /\ report \in [Writers -> Report]
    /\ draft \in [Drafts -> ChatDraft]

ReportsInit ==
    /\ InventoryInit
    /\ groups = [b \in Buckets |-> <<>>]
    /\ rebuild = [r \in Rebuilders |-> [phase |-> "idle",
          read |-> [f \in Findings |-> "none"], there |-> {}]]
    /\ report = [w \in Writers |-> [phase |-> "none", type |-> Nothing,
          draft |-> Nothing, made |-> 0, advise |-> {}, advised |-> {}]]
    /\ draft = [d \in Drafts |-> [status |-> "none", report |-> Nothing,
          agreed |-> FALSE, direct |-> FALSE]]

-----------------------------------------------------------------------------
(* rebuild_finding_groups                                                  *)

Existing == {f \in Findings : row[f] # Nothing}

ReadFindings(r) ==
    /\ rebuild[r].phase = "idle"
    /\ rebuild' = [rebuild EXCEPT ![r].phase = "read", ![r].read =
          [f \in Findings |-> IF f \in Existing THEN row[f].status ELSE "none"]]
    /\ UNCHANGED <<inventoryVars, groups, report, draft>>

\* Mutant: the key without an application is compared with "=", and NULL is
\* equal to nothing.
HasGroupNever(b) == FALSE

\* The transaction looks for the group of each key.
HasGroup(b) == groups[b] # <<>>

LookForGroups(r) ==
    /\ rebuild[r].phase = "read"
    /\ rebuild' = [rebuild EXCEPT ![r].phase = "looked",
                                  ![r].there = {b \in Buckets : HasGroup(b)}]
    /\ UNCHANGED <<inventoryVars, groups, report, draft>>

\* One finding that is open makes the group open; else the latest one decides,
\* and which that is is a choice.
GroupOf(members, read) ==
    {[status |-> IF \E f \in members : read[f] = "open" THEN "open" ELSE read[last],
      count |-> Cardinality(members)] : last \in members}

\* It updates the first group of a key or creates one, and commits.
CommitGroups(r) ==
    LET g == rebuild[r]
        members(b) == {f \in Findings : Bucket[f] = b /\ g.read[f] # "none"}
        seen == {b \in Buckets : members(b) # {}}
    IN  /\ g.phase = "looked"
        /\ \E new \in [seen -> GroupRows] :
              /\ \A b \in seen : new[b] \in GroupOf(members(b), g.read)
              /\ groups' = [b \in Buckets |->
                    CASE b \notin seen -> groups[b]
                      [] b \in seen \cap g.there -> [groups[b] EXCEPT ![1] = new[b]]
                      [] b \in seen \ g.there -> Append(groups[b], new[b])]
        /\ rebuild' = [rebuild EXCEPT ![r].phase = "done"]
        /\ UNCHANGED <<inventoryVars, report, draft>>

-----------------------------------------------------------------------------
(* Reports: the row, then its sections one by one, then recommendations.   *)

Opens(w, type, d) ==
    report' = [report EXCEPT ![w].phase = "sections", ![w].type = type, ![w].draft = d]

\* A report of the inventory begins; its source is read with it.
WriteReport(w, type) ==
    /\ report[w].phase = "none"
    /\ Opens(w, type, Nothing)
    /\ UNCHANGED <<inventoryVars, groups, rebuild, draft>>

WriteBaselineReport(w) == WriteReport(w, "baseline_report")
WriteDiagnosticReport(w) == WriteReport(w, "diagnostic_report")
WriteHealthSummary(w) == WriteReport(w, "server_health_summary")

\* create_findings_summary goes on after the rebuild by the same request.
WriteFindings(w, r) ==
    /\ report[w].phase = "none" /\ rebuild[r].phase = "done"
    /\ Opens(w, "findings_summary", Nothing)
    /\ rebuild' = [rebuild EXCEPT ![r].phase = "reported"]
    /\ UNCHANGED <<inventoryVars, groups, draft>>

AddSection(w) ==
    /\ report[w].phase = "sections" /\ report[w].made < Sections[report[w].type]
    /\ report' = [report EXCEPT ![w].made = @ + 1]
    /\ UNCHANGED <<inventoryVars, groups, rebuild, draft>>

\* The first few of the findings in all.
FirstFew(all) ==
    IF Cardinality(all) <= Advised THEN {all}
    ELSE {few \in SUBSET all : Cardinality(few) = Advised}

\* A baseline report advises on findings of its scan, a diagnostic report on
\* those of the server, if they are open when the list is read.
Advice(type) ==
    LET open == {f \in Existing : row[f].status = "open"}
    IN  CASE type = "baseline_report" ->
               UNION {FirstFew({f \in open : row[f].scan = k}) : k \in Scans}
          [] type = "diagnostic_report" -> FirstFew(open)
          [] OTHER -> {{}}

ListAdvice(w) ==
    /\ report[w].phase = "sections" /\ report[w].draft = Nothing
    /\ report[w].made = Sections[report[w].type]
    /\ \E few \in Advice(report[w].type) :
          report' = [report EXCEPT ![w].phase = "advice", ![w].advise = few]
    /\ UNCHANGED <<inventoryVars, groups, rebuild, draft>>

Recommend(w) ==
    /\ report[w].phase = "advice"
    /\ \E f \in report[w].advise :
          report' = [report EXCEPT ![w].advise = @ \ {f}, ![w].advised = @ \cup {f}]
    /\ UNCHANGED <<inventoryVars, groups, rebuild, draft>>

-----------------------------------------------------------------------------
(* Chat report drafts                                                      *)

\* create_chat_report_draft, in a session of administrators only.
CreateDraft(d) ==
    /\ d \in Internal /\ draft[d].status = "none"
    /\ draft' = [draft EXCEPT ![d].status = "pending_review"]
    /\ UNCHANGED <<inventoryVars, groups, rebuild, report>>

\* create_chat_report: the draft is stored as pending and converted at once.
CreateChatReport(w, d) ==
    /\ report[w].phase = "none" /\ draft[d].status = "none"
    /\ draft' = [draft EXCEPT ![d].status = "pending_review", ![d].direct = TRUE]
    /\ report' = [report EXCEPT ![w].phase = "begun", ![w].draft = d]
    /\ UNCHANGED <<inventoryVars, groups, rebuild>>

\* review_chat_report_draft does not look at the status it replaces.
ReviewDraft(d, decision) ==
    /\ draft[d].status # "none"
    /\ draft' = [draft EXCEPT ![d].status = decision,
                              ![d].agreed = @ \/ decision = "approved"]
    /\ UNCHANGED <<inventoryVars, groups, rebuild, report>>

\* convert_chat_report_draft looks at the draft that its request has read.
Ready(d) == draft[d].status = "approved"

ReadDraft(w, d) ==
    /\ report[w].phase = "none" /\ Ready(d)
    /\ report' = [report EXCEPT ![w].phase = "begun", ![w].draft = d]
    /\ UNCHANGED <<inventoryVars, groups, rebuild, draft>>

\* The portal's sessions have summaries for the customer only.
CreateReport(w) ==
    /\ report[w].phase = "begun"
    /\ \E type \in {"customer_summary"} \cup
             (IF report[w].draft \in Internal THEN {"technical_internal"} ELSE {}) :
          Opens(w, type, report[w].draft)
    /\ UNCHANGED <<inventoryVars, groups, rebuild, draft>>

\* Mutant: the draft is converted as soon as its report exists.
MarkConvertedEarly(w) ==
    LET d == report[w].draft
    IN  /\ report[w].phase = "sections" /\ d # Nothing
        /\ draft' = [draft EXCEPT ![d].status = "converted", ![d].report = w]
        /\ UNCHANGED <<inventoryVars, groups, rebuild, report>>

\* The draft is converted once all its sections are stored.
MarkConverted(w) ==
    LET d == report[w].draft
    IN  /\ report[w].phase = "sections" /\ d # Nothing
        /\ report[w].made = Sections[report[w].type]
        /\ draft' = [draft EXCEPT ![d].status = "converted", ![d].report = w]
        /\ report' = [report EXCEPT ![w].phase = "done"]
        /\ UNCHANGED <<inventoryVars, groups, rebuild>>

-----------------------------------------------------------------------------

ReportsNext ==
    \/ \E r \in Rebuilders : ReadFindings(r) \/ LookForGroups(r) \/ CommitGroups(r)
    \/ \E w \in Writers :
          \/ WriteBaselineReport(w) \/ WriteDiagnosticReport(w) \/ WriteHealthSummary(w)
          \/ \E r \in Rebuilders : WriteFindings(w, r)
          \/ AddSection(w) \/ ListAdvice(w) \/ Recommend(w)
          \/ \E d \in Drafts : CreateChatReport(w, d) \/ ReadDraft(w, d)
          \/ CreateReport(w) \/ MarkConverted(w)
    \/ \E d \in Drafts :
          CreateDraft(d) \/ \E s \in {"approved", "rejected"} : ReviewDraft(d, s)

ServerNext == ReportsNext \/ (InventoryNext /\ UNCHANGED reportVars)

ServerSpec == ReportsInit /\ [][ServerNext]_serverVars

-----------------------------------------------------------------------------

(* A draft is shown as converted only with a report that has all its       *)
(* sections, and only after an administrator approved it, unless the       *)
(* session's writer asked for the report directly. The sections, the       *)
(* status and the reviews are saved one by one, and two requests may       *)
(* convert one draft (ai_chat/services.py:1884).                           *)
ConversionSound ==
    \A d \in Drafts : draft[d].status = "converted" =>
        /\ LET w == draft[d].report
           IN  w # Nothing /\ report[w].draft = d
                 /\ report[w].made = Sections[report[w].type]
        /\ draft[d].agreed \/ draft[d].direct

(* A key has one group. Only two rebuilds that overlap create two: both    *)
(* look for it before either commits (reports/services.py:140).            *)
GroupsSingle == \A b \in Buckets : Len(groups[b]) <= 1
=============================================================================
