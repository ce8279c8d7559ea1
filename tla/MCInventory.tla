---------------------------- MODULE MCInventory -----------------------------
(* The inventory of one server under two scans, and the reports about it,  *)
(* in four scenarios.                                                      *)
EXTENDS Reports

VARIABLE scenario

MCProfiles == {<<"laravel_discovery", "webroot_risk_checker">>,
               <<"opt_apps_discovery", "django_apps_discovery">>,
               <<"application_discovery">>, <<"systemd_services_discovery">>,
               <<"services_status", "cpanel_domain_scanner", "log_sources_discovery">>,
               <<"nginx_sites_discovery", "log_sources_discovery_v2">>,
               <<"system_identity", "panel_detector">>}

It(key, value, inner) == [key |-> key, value |-> value, inner |-> inner]

MCOffers == [t \in Tools |->
    CASE t = "laravel_discovery" -> {{}, {It("app", "", FALSE)}}
      [] t = "application_discovery" -> {{It("app", "", FALSE)}, {It("app", "php", FALSE)}}
      [] t = "opt_apps_discovery" -> {{It("app", "php", FALSE)},
                                      {It("app", "", FALSE), It("sub", "node", TRUE)}}
      [] t = "django_apps_discovery" -> {{It("app", "", FALSE)}, {It("sub", "python", FALSE)}}
      [] t \in Overwriting \ {"webroot_risk_checker"} -> {{It("unit", "", FALSE)}}
      [] t \in Merging -> {{It("unit", "", FALSE)}, {It("unit", "active", FALSE)}}
      [] t = "webroot_risk_checker" -> {{It("risk", "", FALSE)}}
      [] t \in Silent -> {{}}]

MCInside == {<<"sub", "app">>}
MCBucket == [f \in Findings |-> "key"]
MCSections == [t \in Types |-> CASE t \in {"baseline_report", "diagnostic_report"} -> 3
                                 [] t = "findings_summary" -> 1 [] OTHER -> 2]

\* Four scenarios: the two scans and the portal, without reports; one scan
\* whose ingestions do not overlap and which nobody reviews; rebuilds that do
\* not overlap and other reports, beside one such scan; chat reports alone.
Scenarios == {"inventory", "calm", "reports", "drafts"}

\* Tools that are run by the calm scenario only.
Parted == (Overwriting \ {"webroot_risk_checker"})
             \cup {"nginx_sites_discovery", "log_sources_discovery_v2"} \cup Silent

MCInit ==
    /\ ReportsInit
    /\ scenario \in Scenarios
    /\ IF scenario = "inventory"
       THEN /\ \A k \in Scans : Range(profile[k]) \cap Parted = {}
            /\ Cardinality({k \in Scans : Len(profile[k]) > 1}) <= 1
       ELSE \A j, k \in Scans : profile[j] = profile[k]
    /\ scenario = "reports" =>
          \A k \in Scans : "webroot_risk_checker" \in Range(profile[k])

\* No other ingestion is under way, and no other scan has a result.
Alone(k) ==
    /\ \A t \in Tools : ingest[k][t].phase \in {"none", "done"}
    /\ \A j \in Scans \ {k}, t \in Tools : ingest[j][t].phase = "none"

CalmInventory == \E k \in Scans, t \in Tools :
    Ingest(k, t) \/ (Alone(k) /\ Finish(k, t))

\* At most MaxBusy ingestions overlap.
MaxBusy == 2
BusyInventory ==
    /\ \/ \E k \in Scans, t \in Tools : Finish(k, t) \/ Ingest(k, t)
       \/ \E p \in Paths \cap {"app"}, d \in Reviews : ReviewApplication(p, d)
    /\ Cardinality({i \in Scans \X Tools :
          ingest'[i[1]][i[2]].phase \notin {"none", "done"}}) <= MaxBusy

CalmRisks == \E k \in Scans, t \in Tools \cap {"webroot_risk_checker"} :
    Ingest(k, t) \/ (Alone(k) /\ Finish(k, t))

MarkRisk == \E f \in Findings \cap {"risk"}, s \in Marks : MarkFinding(f, s)

AtWork(r) == rebuild[r].phase \in {"read", "looked"}

MCNext ==
    /\ UNCHANGED scenario
    /\ CASE scenario = "inventory" -> BusyInventory /\ UNCHANGED reportVars
         [] scenario = "calm" -> CalmInventory /\ UNCHANGED reportVars
         [] scenario = "reports" ->
              \/ (CalmRisks \/ MarkRisk) /\ UNCHANGED reportVars
              \/ /\ ReportsNext /\ UNCHANGED draft
                 /\ \A q, r \in Rebuilders : (AtWork(q) /\ AtWork(r))' => q = r
         [] scenario = "drafts" ->
              /\ ReportsNext /\ UNCHANGED rebuild
              /\ \A w \in Writers : (report[w].draft # Nothing)'
                    \/ (report[w].phase = "none")'

MCSpec == MCInit /\ [][MCNext]_<<serverVars, scenario>>

Symmetry == Permutations(Scans) \cup Permutations(Writers) \cup Permutations(Rebuilders)

(* Where the ingestions of a scan do not overlap, FrameworkBest holds.     *)
CalmFrameworkBest == scenario = "calm" => FrameworkBest

(* Where rebuilds do not overlap, GroupsSingle holds.                      *)
CalmGroupsSingle == scenario = "reports" => GroupsSingle
=============================================================================
