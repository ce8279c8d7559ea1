----------------------------- MODULE ToolCatalog -----------------------------
(***************************************************************************)
(* One tool of the catalogue (apps/tools), from its registration to a run: *)
(* how its definition, policy and place in the plan come about, how        *)
(* create_tool_run_job admits a run, what the claim and the answer of the  *)
(* server make of the job, and what the runtime makes of the answer.       *)
(*                                                                         *)
(* Which tool it is is chosen at the start: the identity tool, created on  *)
(* demand; a discovery tool, created and enabled by enable_phase2_pilot_   *)
(* tools; or a command template that ToolBuilder's conversion has left,    *)
(* enabled by enable_command_template_pilot_tool.                          *)
(*                                                                         *)
(* create_tool_run_job checks its gates in separate queries; an            *)
(* administrator may turn each of them off or on in between.  The same job *)
(* afterwards, with its claims and timeouts, is in AgentJobs.              *)
(***************************************************************************)

EXTENDS ToolParams, FiniteSets

CONSTANTS
    Runs,          \* bound: the runs asked for
    Params,        \* the parameters that a caller may pass
    Form           \* what the definition of the command template says

ASSUME CatalogAssumption ==
    /\ Params # {}
    /\ {"schema", "blocked", "allowed", "restricted", "argv", "holes", "tokens", "binaries"}
          = DOMAIN Form
    /\ Form.schema.order \in Seq(DOMAIN Form.schema.fields)
    /\ DOMAIN Form.schema.fields \subseteq DOMAIN Form.holes
    /\ \A m, n \in DOMAIN Form.holes : Form.holes[m] = Form.holes[n] => m = n
    /\ "/" \notin Range(Form.holes)

ASSUME PathsAssumption ==
    /\ Form.allowed \in Seq(Range(Form.allowed))
    /\ \A prefix \in Form.blocked \cup Range(Form.allowed) : prefix \in Seq(Range(prefix))
    /\ \A params \in Params : \A n \in DOMAIN params :
          LET path == params[n].value
          IN  /\ DOMAIN params[n] = {"type", "value"}
              /\ params[n].type = "path" => path \in Seq(Range(path))

VARIABLES
    key,           \* which tool this is
    tool,          \* its rows: template, definition, policy, plan
    account,       \* the active subscription, and the server's agent
    call           \* [Runs -> the call of create_tool_run_job, then the job]

catalogVars == <<key, tool, account, call>>

-----------------------------------------------------------------------------
(* The rows.                                                               *)

Keys == {"identity", "discovery", "command"}

\* The policies that the code writes, and whom they let run the tool.
Policies == {"missing", "contract", "pilot", "open"}

\* Mutant: the pilot's policy forgets the agent.
AllowsForgetful(policy) ==
    CASE policy = "open"  -> {"user", "admin", "system"}
      [] policy = "pilot" -> {"admin"}
      [] OTHER            -> {}

Allows(policy) ==
    CASE policy = "open"  -> {"user", "admin", "system"}
      [] policy = "pilot" -> {"admin", "system"}
      [] OTHER            -> {}

\* template: it is active; active: the policy is; plan: the row of PlanTool.
Rows == [template : {"missing", "active", "inactive"},
         status : {"missing", "draft", "approved", "enabled", "disabled"},
         safe : BOOLEAN,
         policy : Policies, active : BOOLEAN,
         plan : {"missing", "off", "on"}]

Unregistered ==
    [template |-> "missing", status |-> "missing", safe |-> TRUE,
     policy |-> "missing", active |-> FALSE, plan |-> "missing"]

\* What convert_tool_build_proposal creates.
Converted ==
    [Unregistered EXCEPT !.template = "active", !.status = "draft",
                         !.policy = "contract"]

Stages ==
    {"idle", "ensuring", "defined", "permitted", "subscribed", "planned", "created",
     "denied", "handed", "succeeded", "failed", "rejected", "unknown"}

\* What is computed for a job.
NoPayload == [type |-> "none"]
Handler == [type |-> "runtime_handler"]
Template(command) == [type |-> "command_template", argv |-> command.argv]

Requests == [by : {"user", "admin", "system"}, role : {"operator", "viewer"},
             server : {"active", "inactive"}, params : Params]

IdleRun(request) ==
    [stage |-> "idle", at |-> 0, request |-> request, payload |-> NoPayload]

CatalogInit ==
    /\ key \in Keys
    /\ tool \in {t \in {Unregistered, Converted} : t = Converted <=> key = "command"}
    /\ account = [subscribed |-> TRUE, agent |-> TRUE]
    /\ call \in [Runs -> {IdleRun(request) : request \in Requests}]

-----------------------------------------------------------------------------
(* Registration.                                                           *)

\* A row that is created unless it is there.
GetOrCreate(row, value) == IF row = "missing" THEN value ELSE row

\* ensure_phase2_discovery_tool_contracts, as the command calls it.
WithContract(t) ==
    [t EXCEPT !.template = GetOrCreate(@, "active"),
              !.status = GetOrCreate(@, "approved"),
              !.policy = GetOrCreate(@, "contract")]

\* Mutant: a policy that exists is left as it is.
OpenedKeeping(t, policy) ==
    [t EXCEPT !.status = "enabled",
              !.active = IF t.policy = "missing" THEN TRUE ELSE @,
              !.policy = GetOrCreate(@, policy), !.plan = "on"]

\* _apply_phase2_changes and _apply_changes, for a tool that they do not skip.
Opened(t, policy) ==
    [t EXCEPT !.status = "enabled", !.policy = policy, !.active = TRUE, !.plan = "on"]

Phase2Applied(t) ==
    LET contract == WithContract(t)
    IN  IF contract.safe THEN Opened(contract, "pilot") ELSE contract

\* The rows that a dry run announces to change, for a tool that exists.
Differences(t, policy) ==
    {row \in {"status", "policy", "plan"} :
        CASE row = "status" -> t.status # "enabled"
          [] row = "policy" -> t.policy # policy \/ ~t.active
          [] row = "plan"   -> t.plan # "on"}

\* _plan_phase2_changes.
Phase2Planned(t) ==
    IF t.status = "missing" THEN {"status", "policy", "plan"}
    ELSE IF ~t.safe THEN {}
    ELSE Differences(t, "pilot")

EnablePhase2 ==
    /\ key = "discovery"
    /\ tool' = Phase2Applied(tool)
    /\ UNCHANGED <<key, account, call>>

\* _validate_enablement_target; ToolBuilder has the rest of it.
MayPilot(t) == t.safe /\ t.status # "disabled"

EnableCommand ==
    /\ key = "command"
    /\ MayPilot(tool)
    /\ tool' = Opened(tool, "open")
    /\ UNCHANGED <<key, account, call>>

\* The administrator turns things off and on.  The risk of the tool can be
\* changed too, but not back: bound.
AdminEdits ==
    /\ \/ tool.template # "missing"
          /\ tool' \in {[tool EXCEPT !.template = v] : v \in {"active", "inactive"}}
       \/ tool.status \notin {"missing", "disabled"}
          /\ tool' = [tool EXCEPT !.status = "disabled"]
       \/ tool.status = "disabled" /\ tool.policy # "missing" /\ key # "command"
          /\ tool' = [tool EXCEPT !.status = "enabled"]
       \/ tool.policy # "missing" /\ tool' = [tool EXCEPT !.active = FALSE]
       \/ tool.plan = "on" /\ tool' = [tool EXCEPT !.plan = "off"]
       \/ tool.status # "missing" /\ tool' = [tool EXCEPT !.safe = FALSE]
    /\ UNCHANGED <<key, account, call>>

\* The subscription ends, or the agent is disabled.
AccountLoses ==
    /\ account' \in {[account EXCEPT !.subscribed = FALSE],
                     [account EXCEPT !.agent = FALSE]}
    /\ UNCHANGED <<key, tool, call>>

-----------------------------------------------------------------------------
(* create_tool_run_job.                                                    *)

To(r, stage) == call' = [call EXCEPT ![r].stage = stage]
Either(r, stage, holds) == To(r, IF holds THEN stage ELSE "denied")

\* ensure_tool saves four rows, one after the other: the n-th of them.
RowEnsured(t, n) ==
    CASE n = 0 -> [t EXCEPT !.template = GetOrCreate(@, "active")]
      [] n = 1 -> [t EXCEPT !.status = GetOrCreate(@, "enabled")]
      [] n = 2 -> [t EXCEPT !.policy = GetOrCreate(@, "open"),
                            !.active = t.policy = "missing" \/ @]
      [] n = 3 -> [t EXCEPT !.plan = "on"]

\* The identity tool is registered when it is missing.
Ensure(r) ==
    /\ key = "identity" /\ call[r].stage = "idle" /\ tool.status = "missing"
    /\ To(r, "ensuring")
    /\ UNCHANGED <<key, tool, account>>

EnsureRow(r) ==
    /\ call[r].stage = "ensuring"
    /\ tool' = RowEnsured(tool, call[r].at)
    /\ call' = [call EXCEPT ![r] =
          IF call[r].at = 3 THEN [call[r] EXCEPT !.stage = "idle", !.at = 0]
          ELSE [call[r] EXCEPT !.at = call[r].at + 1]]
    /\ UNCHANGED <<key, account>>

\* start_baseline_scan sees to the rows as well, but to no plan.
EnsureBaseline ==
    /\ key = "identity"
    /\ \E n \in 0 .. 2 :
        /\ n > 0 => tool.template # "missing"
        /\ n > 1 => tool.status # "missing"
        /\ tool' = RowEnsured(tool, n)
    /\ UNCHANGED <<key, account, call>>

\* The process dies among them.
Dies(r) ==
    /\ call[r].stage = "ensuring"
    /\ call' = [call EXCEPT ![r].stage = "denied", ![r].at = 0]
    /\ UNCHANGED <<key, tool, account>>

\* The definition and its template, which one query reads.
Usable(t) == t.template = "active" /\ t.status = "enabled" /\ t.safe

ReadDefinition(r) ==
    /\ call[r].stage = "idle"
    /\ ~(key = "identity" /\ tool.status = "missing")
    /\ Either(r, "defined", Usable(tool))
    /\ UNCHANGED <<key, tool, account>>

\* The policy, and what it says of the requester and of the server.
Permits(t, request) ==
    /\ t.policy # "missing" /\ t.active
    /\ request.by \in Allows(t.policy)
    /\ request.by = "user" => request.role = "operator"
    /\ request.server = "active"

ReadPolicy(r) ==
    /\ call[r].stage = "defined"
    /\ Either(r, "permitted", Permits(tool, call[r].request))
    /\ UNCHANGED <<key, tool, account>>

ReadSubscription(r) ==
    /\ call[r].stage = "permitted"
    /\ Either(r, "subscribed", account.subscribed)
    /\ UNCHANGED <<key, tool, account>>

\* validate_params and validate_path_policy.
Checked(params) ==
    IF Accepts(Form.schema, params) /\ ParamsPermitted(Form, Validated(params))
    THEN [ok |-> TRUE, params |-> Validated(params)] ELSE Failed

\* The place in the plan, then the parameters.  The tools of the other keys take
\* none.
ReadPlan(r) ==
    LET params == call[r].request.params
        accepted == IF key = "command" THEN Checked(params).ok ELSE DOMAIN params = {}
    IN
    /\ call[r].stage = "subscribed"
    /\ Either(r, "planned", tool.plan = "on" /\ accepted)
    /\ UNCHANGED <<key, tool, account>>

\* build_execution_payload, from the definition that was read.
Payload(params) ==
    IF key # "command" THEN [ok |-> TRUE, payload |-> Handler]
    ELSE LET command == Command(Form, Checked(params).params)
         IN  IF command.ok THEN [ok |-> TRUE, payload |-> Template(command)]
             ELSE Failed

\* The agent is read, the payload built, and the run and the job are created in
\* a transaction.
CreateJob(r) ==
    LET payload == Payload(call[r].request.params) IN
    /\ call[r].stage = "planned"
    /\ IF account.agent /\ payload.ok
       THEN call' = [call EXCEPT ![r].stage = "created", ![r].payload = payload.payload]
       ELSE To(r, "denied")
    /\ UNCHANGED <<key, tool, account>>

-----------------------------------------------------------------------------
(* The job.                                                                *)

\* is_allowed_tool: all in one query; the identity tool always is.
IsAllowed(t) ==
    \/ Usable(t) /\ t.active /\ t.policy # "missing" /\ "system" \in Allows(t.policy)
    \/ key = "identity"

\* claim_next_job, and the answer of next_job: it has the key, the parameters
\* and the limits of the job, but not its payload.
HandOut(r) ==
    /\ call[r].stage = "created"
    /\ IF IsAllowed(tool)
       THEN call' = [call EXCEPT ![r].stage = "handed", ![r].payload = NoPayload]
       ELSE To(r, "rejected")
    /\ UNCHANGED <<key, tool, account>>

\* execute_command_template_payload: what run_fixed_command returns or raises.
CommandOutcomes == {"succeeded", "failed"}

\* execute_job: a command template by its payload, else a handler by the key.
Execute(r) ==
    /\ call[r].stage = "handed"
    /\ \E outcome \in
          CASE call[r].payload.type = "command_template" -> CommandOutcomes
            [] key = "identity"  -> {"succeeded", "rejected"}
            [] key = "discovery" -> {"succeeded", "failed", "rejected"}
            [] OTHER             -> {"unknown"} : To(r, outcome)
    /\ UNCHANGED <<key, tool, account>>

-----------------------------------------------------------------------------

CatalogNext ==
    \/ EnablePhase2 \/ EnableCommand \/ EnsureBaseline
    \/ AdminEdits \/ AccountLoses
    \/ \E r \in Runs :
        \/ Ensure(r) \/ EnsureRow(r) \/ Dies(r)
        \/ ReadDefinition(r) \/ ReadPolicy(r) \/ ReadSubscription(r)
        \/ ReadPlan(r) \/ CreateJob(r) \/ HandOut(r) \/ Execute(r)

CatalogSpec == CatalogInit /\ [][CatalogNext]_catalogVars

-----------------------------------------------------------------------------
(* Properties.                                                             *)

\* What the parameters that pass the checks make of the command.
Commands == {Command(Form, Checked(params).params) :
                 params \in {p \in Params : Checked(p).ok}}

Payloads == {NoPayload, Handler}
                \cup {Template(command) : command \in {c \in Commands : c.ok}}

\* at: how many rows ensure_tool has seen to; payload: what is computed for the
\* job, and then what of it the runtime gets.
CatalogTypeOK ==
    /\ key \in Keys
    /\ tool \in Rows
    /\ account \in [subscribed : BOOLEAN, agent : BOOLEAN]
    /\ call \in [Runs -> [stage : Stages, at : 0 .. 3, request : Requests,
                          payload : Payloads]]

\* What create_tool_run_job admits, is_allowed_tool hands out, as long as nobody
\* touches the tool in between: the two read the same rows in different ways
\* (services.py:288-350, tool_allowlist.py:7-21).
AdmittedIsAllowed ==
    \A request \in {call[r].request : r \in Runs} :
        Usable(tool) /\ Permits(tool, request) => IsAllowed(tool)

\* The dry run of either command announces exactly what the command would change
\* (phase2_enablement.py:74-93, command_template_enablement.py:79-101).
DryRunTells ==
    /\ key = "discovery" =>
        /\ (Phase2Planned(tool) = {}) <=> (Phase2Applied(tool) = tool)
        /\ "plan" \in Phase2Planned(tool) <=> Phase2Applied(tool).plan # tool.plan
        /\ "status" \in Phase2Planned(tool) <=> Phase2Applied(tool).status # tool.status
    /\ key = "command" /\ MayPilot(tool) =>
        (Differences(tool, "open") = {}) <=> (Opened(tool, "open") = tool)

\* What the prefix stands for: all that is in the directory to which it leads, or
\* the root alone.
Covers(prefix, place) ==
    LET directory == Reached(WithoutStar(prefix))
    IN  place = directory \/ (directory # << >> /\ IsPrefix(directory, place))

\* No placeholder in it, and not at "//".
Literal(path) == Range(path) \cap (Range(Form.holes) \cup {"//"}) = {}

\* Where the template has a path, the command that is queued names the place to
\* which the caller's path leads, by whatever detour, and whatever placeholders and
\* tokens the other parameters bring along; and that place is in an allowed
\* directory, if the tool is restricted to some, and in no blocked one
\* (validation.py:19-41, 83-91, services.py:167-181).  It is not so for a path with
\* the placeholder of a later parameter in it, which is filled in after the path
\* was looked at, nor for one that begins with two slashes.
RunsAreSafe ==
    \A r \in Runs :
        LET given == call[r].request.params
            queued == call[r].payload
        IN  call[r].stage = "created" /\ queued.type = "command_template" =>
            \A i \in DOMAIN Form.argv, n \in DOMAIN given :
                LET place == Reached(given[n].value)
                IN  /\ given[n].type = "path"
                    /\ Form.argv[i] = << Form.holes[n] >>
                    /\ Literal(place)
                    => /\ queued.argv[i] = PathText(place)
                       /\ \A prefix \in Form.blocked : ~Covers(prefix, place)
                       /\ Form.restricted =>
                             \E prefix \in Range(Form.allowed) : Covers(prefix, place)

=============================================================================
