----------------------------- MODULE Inventory ------------------------------
(***************************************************************************)
(* What baseline scans find on a server (apps/servers/baseline.py): every  *)
(* result of a tool makes its request ingest the results of ALL finished   *)
(* tools of the scan again, row by row, each row committed on its own.     *)
(* Scans of one server share the rows, and the portal reviews them while   *)
(* they are being rewritten (apps/portal/services.py).                     *)
(*                                                                         *)
(* Services, domains, log sources, applications and findings are rows of   *)
(* one table here, each with the one field a tool reports that matters: an *)
(* application's framework, a service's status, a domain's root. Names,    *)
(* metadata and evidence are left out. BaselineScan has the start of a     *)
(* scan and the failures of its jobs; here a scan is already running.      *)
(***************************************************************************)
EXTENDS Naturals, Sequences, FiniteSets, SequencesExt, Functions

CONSTANTS
    Scans,        \* running scans of the server
    Profiles,     \* the tool keys of each profile, in the order of the steps
    Paths,        \* applications (a domain and a path)
    Parts,        \* services, domains and log sources
    Findings,     \* findings (a fingerprint)
    Inside,       \* the pairs <<p, q>> of Paths where p lies below q
    Offers,       \* [Tools -> the sets of items the tool may report]
    Reviews,      \* decisions on an application: approved, ignored, archived
    Marks,        \* marks of a finding: acknowledged, ignored
    Values,       \* what a tool may report of a row: a framework, a status
    Earlier,      \* a scan of the past
    Nothing       \* no such row

VARIABLES
    profile,      \* [Scans -> the scan's steps]
    run,          \* [Scans -> [Tools -> "none", or the ToolRun's status]]
    output,       \* [Scans -> [Tools -> the items of the tool's result]]
    step,         \* [Scans -> [Tools -> BaselineScanStep.status]]
    scan,         \* [Scans -> BaselineScan.status]
    summary,      \* [Scans -> the rows counted by BaselineScan.summary]
    row,          \* [Keys -> the row in the database, or Nothing]
    ingest        \* [Scans -> [Tools -> the ingestion by the result's request]]

scanVars == <<run, output, step, scan, summary>>
inventoryVars == <<profile, scanVars, row, ingest>>

-----------------------------------------------------------------------------

LegacyApps == {"application_discovery", "laravel_discovery"}
Phase2Apps == {"opt_apps_discovery", "django_apps_discovery"}
Overwriting == {"services_status", "cpanel_domain_scanner",
                "log_sources_discovery", "webroot_risk_checker"}
Phase2Services == {"systemd_services_discovery", "postgres_status_discovery",
                   "gunicorn_uvicorn_services_discovery"}
Merging == Phase2Services \cup {"nginx_sites_discovery", "log_sources_discovery_v2"}
\* They store nothing.
Silent == {"system_identity", "panel_detector"}
Tools == UNION {Range(steps) : steps \in Profiles}
Keys == Paths \cup Parts \cup Findings

\* A row is in one table.
ASSUME KeysAssumption ==
    Paths \cap Parts = {} /\ Paths \cap Findings = {} /\ Parts \cap Findings = {}

\* No profile has application tools of both generations (baseline_profiles.py).
ASSUME ProfilesAssumption ==
    /\ Profiles \subseteq Seq(Tools)
    /\ Tools \subseteq LegacyApps \cup Phase2Apps \cup Overwriting \cup Merging \cup Silent
    /\ \A steps \in Profiles :
          Range(steps) \cap LegacyApps = {} \/ Range(steps) \cap Phase2Apps = {}

ASSUME DecisionsAssumption ==
    /\ Reviews \subseteq {"approved", "ignored", "archived"}
    /\ Marks \subseteq {"acknowledged", "ignored"}

\* FRAMEWORK_PRIORITY; a framework it does not name counts like none.
Priority(f) == CASE f = "unknown" -> 1 [] f = "php" -> 2 [] f = "python" -> 3
                 [] f = "node" -> 4 [] f = "laravel" -> 5 [] f = "django" -> 6
                 [] OTHER -> 0

\* What remains of a tool's list once the items without a usable name or path
\* are left out. inner: two levels deep, with no unit and no marker of its own.
Item == [key : Keys, value : Values, inner : BOOLEAN]

\* These are filled in for tools that report no framework.
ASSUME ValuesAssumption == {"", "unknown", "laravel", "django"} \subseteq Values

\* The tools that look for applications store applications, only these do, and
\* some tools store nothing.
ASSUME OffersAssumption ==
    \A t \in Tools : \A items \in Offers[t] : \A x \in items :
        /\ x \in Item /\ t \notin Silent
        /\ x.key \in Paths <=> t \in LegacyApps \cup Phase2Apps

\* Of applications, of findings, of other rows.
RowStatuses == {"pending", "approved", "ignored", "archived"}
                  \cup {"open", "acknowledged"} \cup {""}

Row == [scan : Scans \cup {Earlier}, value : Values, status : RowStatuses]

ASSUME NothingAssumption == Nothing \notin Row

NoIngestion == [phase |-> "none", todo |-> {}, items |-> {}, read |-> Nothing]

\* called: the result is recorded; between: a tool is finished with; tool: the
\* current tool's items are being stored; holding: a row was read and will be
\* saved; the verdict has been read: judged, failing, or counted. todo: the
\* positions in the profile of the steps that are still to be looked at.
Phases == {"none", "called", "between", "tool", "holding", "judged",
           "counted", "failing", "done"}

InventoryTypeOK ==
    /\ profile \in [Scans -> Profiles]
    /\ run \in [Scans -> [Tools -> {"none", "queued", "succeeded", "failed"}]]
    /\ step \in [Scans -> [Tools -> {"none", "queued", "succeeded", "failed"}]]
    /\ scan \in [Scans -> {"running", "succeeded", "failed"}]
    /\ summary \in [Scans -> SUBSET Keys]
    /\ \A x \in Keys : row[x] \in Row \cup {Nothing}
    /\ \A k \in Scans, t \in Tools :
          /\ output[k][t] \in Offers[t] \cup {{}}
          /\ ingest[k][t].phase \in Phases

\* Applications and findings may be there from an earlier scan.
InventoryInit ==
    /\ profile \in [Scans -> Profiles]
    /\ run = [k \in Scans |-> [t \in Tools |->
                IF t \in Range(profile[k]) THEN "queued" ELSE "none"]]
    /\ output = [k \in Scans |-> [t \in Tools |-> {}]]
    /\ step = run
    /\ scan = [k \in Scans |-> "running"]
    /\ summary = [k \in Scans |-> {}]
    /\ row \in {[x \in Keys |-> Nothing],
                [x \in Keys |-> IF x \in Parts THEN Nothing
                   ELSE [scan |-> Earlier, value |-> "unknown",
                         status |-> IF x \in Paths THEN "pending" ELSE "open"]]}
    /\ ingest = [k \in Scans |-> [t \in Tools |-> NoIngestion]]

-----------------------------------------------------------------------------
(* The ingestion by the request that recorded the result of tool t of scan *)
(* k. It may stop anywhere: nothing obliges it to go on.                   *)

\* The ingestion g of <<k, t>> goes on as h.
Proceeds(k, t, h) == ingest' = [ingest EXCEPT ![k][t] = h]

\* The tool's run ends and the API records its result.
Finish(k, t) ==
    /\ run[k][t] = "queued"
    /\ \/ /\ run' = [run EXCEPT ![k][t] = "succeeded"]
          /\ \E items \in Offers[t] : output' = [output EXCEPT ![k][t] = items]
       \/ /\ run' = [run EXCEPT ![k][t] = "failed"]
          /\ UNCHANGED output
    /\ Proceeds(k, t, [NoIngestion EXCEPT !.phase = "called"])
    /\ UNCHANGED <<profile, step, scan, summary, row>>

\* The steps and their runs are read once, in the order of their creation.
ReadSteps(k, t) ==
    /\ ingest[k][t].phase = "called"
    /\ Proceeds(k, t, [ingest[k][t] EXCEPT
          !.phase = "between",
          !.todo = {i \in DOMAIN profile[k] : run[k][profile[k][i]] # "queued"}])
    /\ UNCHANGED <<profile, scanVars, row>>

\* The tool whose step comes next, and whose items are being stored.
Current(k, t) == profile[k][Min(ingest[k][t].todo)]

Rest(todo) == todo \ {Min(todo)}

\* A candidate below another application of this scan or of this list.
Nested(k, items, x) ==
    /\ x.inner
    /\ \E q \in {y.key : y \in items}
             \cup {p \in Paths : row[p] # Nothing /\ row[p].scan = k} :
          <<x.key, q>> \in Inside

OpenTool(k, t) ==
    LET g == ingest[k][t]
        u == Current(k, t)
    IN  /\ g.phase = "between" /\ g.todo # {} /\ run[k][u] = "succeeded"
        /\ Proceeds(k, t, [g EXCEPT
              !.phase = "tool",
              !.items = {x \in output[k][u] :
                           ~ (u = "opt_apps_discovery" /\ Nested(k, output[k][u], x))}])
        /\ UNCHANGED <<profile, scanVars, row>>

\* A failed run leaves nothing to store.
FailStep(k, t) ==
    LET g == ingest[k][t]
        u == Current(k, t)
    IN  /\ g.phase = "between" /\ g.todo # {} /\ run[k][u] = "failed"
        /\ step' = [step EXCEPT ![k][u] = "failed"]
        /\ Proceeds(k, t, [g EXCEPT !.todo = Rest(@)])
        /\ UNCHANGED <<profile, run, output, scan, summary, row>>

\* The framework that tool u reports of application x.
Incoming(u, x) ==
    CASE u = "laravel_discovery" -> "laravel"
      [] u \in Phase2Apps /\ x.value = "" ->
            IF u = "django_apps_discovery" THEN "django" ELSE "unknown"
      [] OTHER -> x.value

StatusOf(key) ==
    CASE key \in Paths -> "pending" [] key \in Findings -> "open" [] OTHER -> ""

\* update_or_create reads the row under a lock and saves it: one step.
UpdateOrCreate(k, t, x) ==
    LET g == ingest[k][t]
    IN  /\ g.phase = "tool" /\ x \in g.items
        /\ row' = [row EXCEPT ![x.key] =
              [scan |-> k, value |-> x.value, status |-> StatusOf(x.key)]]
        /\ Proceeds(k, t, [g EXCEPT !.items = @ \ {x}])
        /\ UNCHANGED <<profile, scanVars>>

\* get_or_create: a row that is missing is complete at once; one that exists
\* is read, to be saved by SaveRow.
GetOrCreate(k, t, x) ==
    LET g == ingest[k][t]
    IN  /\ g.phase = "tool" /\ x \in g.items
        /\ \/ /\ row[x.key] = Nothing
              /\ row' = [row EXCEPT ![x.key] =
                    [scan |-> k, value |-> Incoming(Current(k, t), x),
                     status |-> StatusOf(x.key)]]
              /\ Proceeds(k, t, [g EXCEPT !.items = @ \ {x}])
           \/ /\ row[x.key] # Nothing
              /\ Proceeds(k, t, [g EXCEPT !.phase = "holding",
                                      !.read = [item |-> x, was |-> row[x.key]]])
              /\ UNCHANGED row
        /\ UNCHANGED <<profile, scanVars>>

IngestServices(k, t, x) ==
    Current(k, t) = "services_status" /\ UpdateOrCreate(k, t, x)

IngestDomains(k, t, x) ==
    Current(k, t) = "cpanel_domain_scanner" /\ UpdateOrCreate(k, t, x)

IngestLogSources(k, t, x) ==
    Current(k, t) = "log_sources_discovery" /\ UpdateOrCreate(k, t, x)

\* A finding is opened again, whatever it was marked as.
IngestFindings(k, t, x) ==
    Current(k, t) = "webroot_risk_checker" /\ UpdateOrCreate(k, t, x)

IngestPhase2Services(k, t, x) ==
    Current(k, t) \in Phase2Services /\ GetOrCreate(k, t, x)

IngestPhase2Domains(k, t, x) ==
    Current(k, t) = "nginx_sites_discovery" /\ GetOrCreate(k, t, x)

IngestPhase2LogSources(k, t, x) ==
    Current(k, t) = "log_sources_discovery_v2" /\ GetOrCreate(k, t, x)

IngestApplications(k, t, x) ==
    Current(k, t) \in LegacyApps /\ GetOrCreate(k, t, x)

IngestPhase2Applications(k, t, x) ==
    Current(k, t) \in Phase2Apps /\ GetOrCreate(k, t, x)

\* Mutant: a framework is filled in only where none is known.
PreferredFirst(existing, incoming) ==
    IF Priority(existing) <= 1 THEN incoming ELSE existing

\* preferred_framework keeps the better of two.
Preferred(existing, incoming) ==
    IF Priority(incoming) > Priority(existing) THEN incoming ELSE existing

\* Mutant: every application that is found again is to be reviewed again.
SettledNever(was) == FALSE

Settled(was) == was.status = "approved"

\* The fields that the save of a row r writes for tool u of scan k, when the
\* row read as was: an approved application keeps its status and framework.
Updated(k, u, x, was, r) ==
    LET new == Incoming(u, x)
    IN  CASE u \in Merging ->
              [r EXCEPT !.scan = k, !.value = IF new = "" THEN was.value ELSE new]
          [] u \notin Merging /\ ~ Settled(was) ->
              [scan |-> k, status |-> "pending",
               value |-> IF u \in Phase2Apps THEN Preferred(was.value, new) ELSE new]
          [] u \in LegacyApps /\ Settled(was) ->
              [r EXCEPT !.scan = k,
                        !.value = IF was.value = "" /\ new # "" THEN new ELSE @]
          [] u \in Phase2Apps /\ Settled(was) -> [r EXCEPT !.scan = k]

SaveRow(k, t) ==
    LET g == ingest[k][t]
        x == g.read.item
    IN  /\ g.phase = "holding"
        /\ row' = [row EXCEPT ![x.key] =
                     Updated(k, Current(k, t), x, g.read.was, @)]
        /\ Proceeds(k, t, [g EXCEPT !.phase = "tool", !.items = @ \ {x},
                                !.read = Nothing])
        /\ UNCHANGED <<profile, scanVars>>

\* The step is saved once its tool's rows are stored.
CloseStep(k, t) ==
    LET g == ingest[k][t]
    IN  /\ g.phase = "tool" /\ g.items = {}
        /\ step' = [step EXCEPT ![k][Current(k, t)] = "succeeded"]
        /\ Proceeds(k, t, [g EXCEPT !.phase = "between", !.todo = Rest(@)])
        /\ UNCHANGED <<profile, run, output, scan, summary, row>>

\* Mutant: a scan is complete when its runs have ended.
AnyStepRun(k, s) == \E u \in Range(profile[k]) : run[k][u] = s

AnyStep(k, s) == \E u \in Range(profile[k]) : step[k][u] = s

\* The steps are read again; a scan is complete when they all are saved.
Judge(k, t) ==
    LET g == ingest[k][t]
    IN  /\ g.phase = "between" /\ g.todo = {}
        /\ Proceeds(k, t, [g EXCEPT !.phase =
              IF AnyStep(k, "failed") THEN "failing"
              ELSE IF AnyStep(k, "queued") THEN "done" ELSE "judged"])
        /\ UNCHANGED <<profile, scanVars, row>>

\* summarize_scan counts the rows of this scan; a legacy scan that has no
\* application counts those of the server. Its queries are merged into one
\* step: no property compares two tables.
Counted(k) ==
    LET mine == {x \in Keys : row[x] # Nothing /\ row[x].scan = k}
    IN  IF mine \cap Paths = {} /\ Range(profile[k]) \cap LegacyApps # {}
        THEN mine \cup {p \in Paths : row[p] # Nothing}
        ELSE mine

Count(k, t) ==
    LET g == ingest[k][t]
    IN  /\ g.phase = "judged"
        /\ Proceeds(k, t, [g EXCEPT !.phase = "counted", !.read = Counted(k)])
        /\ UNCHANGED <<profile, scanVars, row>>

SaveScan(k, t) ==
    LET g == ingest[k][t]
    IN  /\ \/ /\ g.phase = "counted"
              /\ scan' = [scan EXCEPT ![k] = "succeeded"]
              /\ summary' = [summary EXCEPT ![k] = g.read]
           \/ /\ g.phase = "failing"
              /\ scan' = [scan EXCEPT ![k] = "failed"]
              /\ UNCHANGED summary
        /\ Proceeds(k, t, [NoIngestion EXCEPT !.phase = "done"])
        /\ UNCHANGED <<profile, run, output, step, row>>

-----------------------------------------------------------------------------
(* The portal: a view loads a row and saves its status alone.              *)

ReviewApplication(p, status) ==
    /\ row[p] # Nothing
    /\ row' = [row EXCEPT ![p].status = status]
    /\ UNCHANGED <<profile, scanVars, ingest>>

MarkFinding(f, status) ==
    /\ row[f] # Nothing
    /\ row' = [row EXCEPT ![f].status = status]
    /\ UNCHANGED <<profile, scanVars, ingest>>

-----------------------------------------------------------------------------

Ingest(k, t) ==
    \/ ReadSteps(k, t) \/ OpenTool(k, t) \/ FailStep(k, t)
    \/ \E x \in ingest[k][t].items :
          \/ IngestServices(k, t, x) \/ IngestDomains(k, t, x)
          \/ IngestLogSources(k, t, x) \/ IngestFindings(k, t, x)
          \/ IngestPhase2Services(k, t, x) \/ IngestPhase2Domains(k, t, x)
          \/ IngestPhase2LogSources(k, t, x)
          \/ IngestApplications(k, t, x) \/ IngestPhase2Applications(k, t, x)
    \/ SaveRow(k, t) \/ CloseStep(k, t)
    \/ Judge(k, t) \/ Count(k, t) \/ SaveScan(k, t)

Portal ==
    \/ \E p \in Paths, s \in Reviews : ReviewApplication(p, s)
    \/ \E f \in Findings, s \in Marks : MarkFinding(f, s)

InventoryNext ==
    \/ \E k \in Scans, t \in Tools : Finish(k, t) \/ Ingest(k, t)
    \/ Portal

-----------------------------------------------------------------------------

\* The items a tool must leave a row for: only a nested candidate is dropped.
Required(k, t) == {x \in output[k][t] : ~ (t = "opt_apps_discovery" /\ x.inner)}

Reported(k, t) == {x.key : x \in Required(k, t)}

(* A scan that succeeded has counted every row its tools reported, save    *)
(* those that another scan of the server reported too and may have taken.  *)
(* The verdict may come from any of the overlapping ingestions: it holds   *)
(* because a step is saved as succeeded after its rows (baseline.py:344).  *)
SummaryWhole ==
    \A k \in Scans : scan[k] = "succeeded" =>
        \A t \in Tools : \A x \in Reported(k, t) :
            \/ x \in summary[k]
            \/ \E j \in Scans \ {k}, u \in Tools :
                  \E y \in output[j][u] : y.key = x

(* An ingestion takes an application out of "approved", or changes its     *)
(* framework, only if it read the row before the approval, or before the   *)
(* framework was filled in (it saves what it computed then; baseline.py:   *)
(* 521, 573): one that finds the approval leaves both alone.               *)
Approved(p) == row[p] # Nothing /\ row[p].status = "approved"
ApprovalRespected(p) ==
    \/ row'[p].status = row[p].status /\ (row[p].value = "" \/ row'[p].value = row[p].value)
    \/ ingest' = ingest
    \/ \E k \in Scans, t \in Tools :
          /\ ingest[k][t].phase = "holding" /\ ingest[k][t].read.item.key = p
          /\ \/ ingest[k][t].read.was.status # "approved"
             \/ ingest[k][t].read.was.value # row[p].value
          /\ ingest'[k][t].phase = "tool"
ApprovalStands == [][\A p \in Paths : Approved(p) => ApprovalRespected(p)]_inventoryVars

(* A scan of the newer profiles leaves each application that it reported,  *)
(* and that is not approved, with the best framework any of its tools saw, *)
(* in whatever order the results came (FRAMEWORK_PRIORITY).                *)
FrameworkBest ==
    \A k \in Scans, t \in Phase2Apps \cap Tools :
        scan[k] = "succeeded" => \A x \in Required(k, t) :
            ~ Approved(x.key) =>
                Priority(row[x.key].value) >= Priority(Incoming(t, x))
=============================================================================
