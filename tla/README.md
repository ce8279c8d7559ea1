# Formal model of the matrix scanner control plane

TLA+ modules for the stateful core of this repository: the jobs that scanner
agents poll, execute and answer, the registration and the installation of those
agents, the services that ask for jobs and act on their results (scans,
inventory, diagnoses, the chats), and the tools themselves, from a proposal to
an admitted run. TLC checks small instances, TLAPS proves the safety properties
of the core for every instance.

## The system

A Django application (PostgreSQL, autocommit, READ COMMITTED) and a scanner
runtime on each customer server. Requests run in any number of web processes;
there is no background worker. A `save()` outside `transaction.atomic` commits
by itself, so that a service function is as many steps as it has reads and
saves, and a request may die between any two. Transactions and row locks are
used in few places (Telegram's linking and confirmation, a proposal's
conversion, the two enabling commands, the groups of findings, registration,
claim and submission, the portal's start of a diagnosis).

| Component | State | Operations | Interacts with |
|---|---|---|---|
| Agent job protocol (`apps/servers/services.py`, `views.py`, `scanner_runtime/prototype.py`) | `AgentJob`, its mirror `ToolRun`, the runtime's job in hand | create, poll/claim, reject at the claim, execute, submit | HTTP with the runtimes; every submission calls the chat's and the scan's follow-up |
| Registration (`services.py`, `bootstrap/runtime_bundle.py`) | `AgentRegistrationToken`, `ScannerAgent`, the runtime's configuration file | issue, exchange, authenticate, heartbeat, revoke | portal, bootstrap |
| Bootstrap (`apps/bootstrap`) | `BootstrapSession`, `BootstrapCredential`, `AgentInstallation`, the host | install a runtime by SSH, wait for its heartbeat, clean up, expire | registration |
| Baseline scans (`apps/servers/baseline.py`) | `BaselineScan`, `BaselineScanStep` | start, enqueue, ingest, verdict | job protocol, both ways; inventory |
| Inventory (`baseline.py`, `apps/applications`, `apps/portal/services.py`) | services, domains, applications, log sources, findings; a scan's summary | ingest a tool's result, sum up, review | scans, portal, reports |
| Reports (`apps/reports/services.py`, chat report drafts) | finding groups, reports and sections, recommendations, drafts | rebuild, write, draft, review, convert | inventory, portal, chat |
| Diagnostic sessions (`apps/diagnostics`) | `DiagnosticSession`, `DiagnosticStep` | start, approve, synchronise, finalise | job protocol; portal and Telegram |
| Telegram (`apps/telegram_integration`) | link codes, chat links, dialogue states, notifications | link, unlink, dialogue, confirm, approve, cancel, notify | diagnostics |
| AI chat (`apps/ai_chat/services.py`) | chat sessions, tool requests, bundles, messages | request, approve, reject, wait, summarise | job protocol, in the transaction of a submission |
| Live AI (`ai_chat/live_ai.py`, `chatkit_store.py`) | `AdminLiveAIRequestLog`, the answer's stream and row | ask, stream, deliver, run tools, retry | the provider, ChatKit, the AI chat |
| Tool catalogue (`apps/tools`, `servers/tool_allowlist.py`) | templates, definitions, policies, plans | register, enable, gate a run, build its payload | all who create jobs |
| Tool builder (`apps/tools`) | `ToolBuildRequest`, `ToolBuildProposal`, reviews | propose, validate, edit, review, convert, enable | catalogue, chat |
| Portal, AI context, accounts, audit | rows edited or read one at a time | | |

What is hard: runtimes crash, time out and retry while the server still
handles what they sent; claims expire under their holders; a result is
recorded by one request and acted upon by another, and several of those
overlap; most services read a row, decide, and save it later without a lock;
a process may die between two saves. `PROJECT.json` lists these hazards line by
line.

What makes each component correct:

* job protocol: a claim is exclusive and honoured, a terminal status is final,
  the mirror agrees with the job, jobs do not cross servers, every job is
  settled;
* registration: a token is exchanged once, a revocation stands;
* bootstrap: temporary credentials are destroyed, an installation was heard of,
  a failed run's token is void;
* scans: "succeeded" means that all tools of the profile succeeded, a running
  scan ends, a finished one stays so;
* inventory and reports: a summary counts what was reported, an approval is
  kept, the better framework wins, groups are single, a converted draft was
  approved and has its report;
* diagnostics: "succeeded" means that a tool ran and succeeded, approvals are
  not duplicated, a cancellation stands, a running session ends;
* Telegram: a code links once, a linked chat keeps its account, what is
  confirmed fits together (one active dialogue is the database's constraint);
* chats: messages are true, a request's status follows its run, results are
  told, a bundle's summary is true, leaves no tool out, and appears; what is
  hidden in an answer is neither streamed nor stored, and an answer is not lost;
* tools: what is admitted is handed out, a dry run tells what the run does, a
  queued command names paths that are allowed, nothing is built that was not
  approved or is not valid.

## Modules

| Module | Models | Checked by | Proved in |
|---|---|---|---|
| `JobLifecycle` | the abstract promise: a job and its run are opened together, closed by one result, never touched again; or dropped without a result | `ImplementsLifecycle` | the proofs of those who implement and use it |
| `AgentJobs` | the job protocol; implements `JobLifecycle` | `MCAgentJobs` | `AgentJobs_proofs` |
| `AgentRegistry` | the agent of one server, its tokens and runtimes | `MCAgentRegistry` | `AgentRegistry_proofs` |
| `Bootstrap` | one bootstrap session, its runs and credentials, the host | `MCBootstrap` | `AgentRegistry_proofs` |
| `BaselineScan` | one scan; instantiates `JobLifecycle` for its jobs | `MCBaselineScan` | `BaselineScan_proofs` |
| `Inventory` | what the scans of a server store, and the portal's reviews | `MCInventory` | `Reviews_proofs` |
| `Reports` | groups, reports, drafts; extends `Inventory` | `MCInventory` | `Reviews_proofs` |
| `Diagnostics` | one session, driven by portal and Telegram; instantiates `JobLifecycle` | `MCDiagnostics` | `Diagnostics_proofs` |
| `TelegramChat` | one private chat: its link and its dialogue | `MCTelegramChat` | `TelegramChat_proofs` |
| `ToolParams` | parameters, paths and commands, as functions | with `ToolCatalog` | `BaselineScan_proofs` |
| `ToolCatalog` | one tool from its registration to a run; extends `ToolParams` | `MCToolCatalog` | `BaselineScan_proofs` |
| `ToolBuilder` | the proposals for one new tool | `MCToolBuilder` | `Reviews_proofs` |
| `ChatTools` | single tool requests of the admin chat; instantiates `JobLifecycle` | `MCChatTools` | `LiveAnswer_proofs` |
| `LiveAnswer` | one answer of the Live AI, around the tools it runs; extends `ChatTools` | `MCChatTools` | `LiveAnswer_proofs` |
| `ChatBundle` | one execution of a diagnostic bundle in the admin chat; instantiates `JobLifecycle` | `MCChatBundle` | `ChatBundle_proofs` |

The composition goes through `JobLifecycle`. `AgentJobs` shows that the
protocol, with all its losses and expiries, behaves like it (`phase` is
computed from the job's status and the run). The services that use jobs see
no more of them than that, so their modules take `Open`, `Settle` and
`Discard` as the jobs' actions and add what their own code does. That they do
nothing else with a job, and open none twice, is proved of each (`JobsKept`).

### AgentJobs

`job`, `run`, `eligible` and `runnable` are the database (`AgentJob.status` and
`claim_expires_at`, `ToolRun.status`, what `is_active_for_api` and
`is_allowed_tool` read). `req` holds the HTTP requests in flight, `worker` the
runtime processes. A request is sent, authenticated and handled in three steps,
because `authenticate_agent_token` reads the agent outside the handler's
transaction. A handler's transaction holds the row lock of the job it changes
and is one action: `Claim`, `RejectOnClaim`, `FindNoJob`, `AcceptResult`,
`RefuseResult`. `GiveUp` is the 15 s timeout of `urlopen`, and the request may
be handled afterwards; `Lose` covers a handler that dies before its commit as
well. `PassGates` and `CreateJob` are the two halves of `create_tool_run_job`.

Time is relative: `left` is what a claim has left. Messages and workers carry
the time that *their* claim has left as history, which is how
`ClaimsHonoured` and `ClaimsExclusive` tell an old claim of a job from its
newer one.

Left out: parameters, payloads and redaction; `server.agent_status`, time
stamps and audit rows. The admin form of a job could overwrite any field with
a stale value; the model has its intended use, the cancellation.

### AgentRegistry and Bootstrap

`register_agent` locks the registration token together with its account and
server rows (`select_for_update` with `select_related`), hence `Locked`.
Between `RegisterBegin` and `RegisterCommit` other requests, heartbeats and
administrators act. `RecordHeartbeat` saves the fields it names from the agent
that `Authenticate` read (`seen`). Agent tokens are numbered in the order of
issue; hashes are not modelled.

`Bootstrap` has the runs of one session: the admin action reads the selected
sessions first and runs them one by one, so that a run works with an old copy,
and two may overlap. `run[r].stage` is how far a run is; each save of the
session, of the credentials and of the installation is an action, and so are a
command's start and end. The commands are grouped by the status that is saved
before them (`Plan`). The host is what the commands leave on it: whose
configuration is installed, and what the running service has read of it. The
configuration gets there by way of a file in `/tmp` that all runs share
(`uploaded`): `Upload` writes it, and the move that installs it takes it away, so
that it fails when there is none (`Movable`). A deadline is `VerifyTimesOut`,
enabled at any time while the run waits. `seen` has the runs since whose start
the agent's `last_seen_at` was set: a registration sets it (`Register`), as a
heartbeat does, whichever runtime it comes from. The
removal of stale credentials and the end of pending sessions have two steps.
Where the two modules would use one name twice, `Bootstrap`'s is the longer one
(`BootstrapInit`, `runToken`), so that one module can prove theorems about both.

### BaselineScan and Inventory

In `BaselineScan`, `starter` is how far a start request is: the read of the
status, the save of "running", the second read, the transaction that creates
all steps, the label. `ingest[k]` is the ingestion by the request that recorded
the result of step `k`: it reads the finished runs, saves the steps one by one,
reads the steps again and saves the verdict. Expired claims (recorded, but the
error comes before the ingestion), jobs dropped without a result, aborted
ingestions and dying requests are actions too. Policy and preflight are choices.

`Inventory` starts where scans run, and looks into those ingestions: a request
ingests all finished tools of its scan again, in the order of the steps, row by
row. `row` stands for the five tables, since no key is shared among them; a row
has the scan it was last seen by, a status, and the one field that matters.
There are three ways to store an item, and each ingest function is one of them
for its tools: `UpdateOrCreate` overwrites under a lock; `GetOrCreate` reads,
and `SaveRow` saves later what was computed from the read (`Updated` has the
rules: approved applications keep status and framework, the newer tools keep
the better framework, services and domains keep what they had). Items that a
function leaves out (no name, no path, a missing domain) are not offered; a
candidate below another one is, because whether it is dropped depends on what
was stored before. Two tools of the real profiles store nothing (`Silent`). The
queries of `summarize_scan` are one step. A process that
dies stops; nothing in this module is obliged to go on.

### Reports

A rebuild reads the findings, looks for the groups and commits them in one
transaction that does not keep another from creating the same group, hence
three steps. A report is a row, then its sections and recommendations one by
one; which findings are among the first five is a choice. Drafts have a status
that a review replaces whatever it was; a conversion goes by the draft that its
request has read. The draft's page in the Django admin, where its status and type
can be set by hand, is left out.

### Diagnostics and TelegramChat

A portal approval is a sequence of saves (`Check`, `CreateJob`, `QueueStep`,
`RunSession`, or the two saves of a refusal), a Telegram approval is one
transaction under locks, `/cancel` locks the chat's state but only reads the
session, so it is two steps. A view (`sync_completed_tool_runs`) reads the
run, saves the step, reads the steps again and saves the verdict. No code plans
a second tool for a session, so it has one tool step. `tool_run_count` is
abstracted to whether an administrator has set the limit to 0.

`TelegramChat` has what comes before: `update[u]` is a webhook request and what
it has read. `LinkBegins` and `LinkEnds` are `link_chat_with_code` when there is
no link row to lock; when there is one it is a single step. Selections read the
dialogue and save their fields without a lock; the database's constraint on
active rows of a chat (`Conflicts`) refuses a save that would make a second one
active. Expiry is a flag, `late`. The start of the session and what becomes of
it are in `Diagnostics`.

### ToolParams and ToolCatalog

`ToolParams` defines what `validation.py` and the command builder compute. A
path is the sequence of its components; two slashes at its beginning are the
component `"//"`, since pathlib keeps them as a root of another kind. A text is a
sequence of tokens: words, the slash and placeholders. `Canonical` takes the
components one by one, as the code does; `Render` fills the placeholders in the
order of the schema, in the values that were filled in before as well, so that a
path (`PathText`) may change after it was checked. A broken prefix (`/*`) refuses
a path only when its turn comes, which is why the allowed ones are a sequence.

`RunsAreSafe` is about the command that is queued. `Reached` says where the path
that the caller passed leads, in another way than the code, by counting names and
parents; `Covers` says by `Reached` alone what a prefix permits or blocks: the
directory it leads to and all below, or the root alone. The queued argument is to
be that place, in an allowed directory and in no blocked one, whatever the other
parameters bring along. It is asked of paths that are `Literal`; what happens to
the others, those with a placeholder in them and those that begin with two
slashes, is in the observations.

`ToolCatalog` chooses one tool out of three kinds (identity, discovery, command
template). `create_tool_run_job` reads its gates in separate queries, so each is
an action and the administrator may act in between; `Ensure` and `EnsureRow`
are the four saves of `ensure_tool`. `HandOut` is the claim and the answer to
the runtime, `Execute` the runtime's dispatch on what it was given. The two
enabling commands are transactions; their dry runs are `Phase2Planned` and
`Differences`.

### ToolBuilder

`editor[a]` is an administrator's action with the copy of the proposal it was
given when its page was read; `at` is the number of its commits so far. The
validation resets the status, the review is saved before the decision, the
conversion validates once more, and the definition and the proposal are saved
in one transaction. `enabler` is the management command, which checks the
definition and its origin before its transaction; an administrator may disable
the definition at any time. A command line is one of six kinds, by what the
validation finds in it.

The forms of the Django admin let an administrator override all of this: set a
proposal's status by hand, add a review, open a definition, its policy or its
place in the plan without the command. Of these the model has the edit of a
proposal's contents and the disabling of a definition; the rest is left out, so
that `BuiltIsSound` and `ConvertedHasTool` are about the actions of the pages.

### ChatTools, LiveAnswer and ChatBundle

In `ChatTools` the stream executes the proposals of an answer one after the
other (`live`), administrators press buttons on requests (`button`), and a
result is mirrored when it is recorded: `NoteLinks` reads which requests name
the run, `Submit` commits. Messages are their request, run and state. The
stream looks up the message to replace before it writes (`target`).
Announcements, and the one message that lists the outcomes of several proposals
again at the end of the stream, are left out.

`LiveAnswer` is the generator `respond` with what is around it. `answer` has the
stage it has reached, the status of the request's log, and its texts: what
the provider will say, of which `got` letters have arrived, the `output` to which
these were redacted, what the updates of the item have `shown`, and `Final`, what
is to stand there. A text is a sequence of letters, some of which are blank.
`Visible` cuts it before the hidden block, and redacts and strips what is left as a
whole, each time more has come; `Redact` has the two shapes of a secret, a word
after a key and what stands between two brackets. So the visible text may shrink
or change when later letters complete a secret. `Streamable` holds back as many
letters as the marker of the hidden block has. `row` is the
message with the item's id. In the plain mode the item is delivered, which
stores it, and the tools it proposes are run after that; in the direct mode and
for a bundle an empty row is placed, the tools are run, and the row is filled
if none was started. While the stage is `"executing"` the steps are those of
`ChatTools`' stream. `Break` is every way in which the generator ends early
where the code does not note it, `Disconnect` the one that it does.

In `ChatBundle` `stage`, `todo` and `skipped` are the stream: it announces the
tools that are available, starts them one by one (`RequestTool`, then
`DenyTool` or `OpenTool` and `LinkTool`, the two halves of
`approve_tool_request`), announces what was really started, polls, and ends
with a summary, before or after its deadline. `running` is the message that
status pages and the stream read for the tools to expect; `request`, `linked`
are the `AdminChatToolRequest` rows. `writer[w]` is a request that puts a
summary together: the bundle's requests are one query, the running message
another, the summary to update a third, the save a fourth. `results` are the
summary messages, in the order of their creation. A summary is a set of lines,
a tool and its state each; a tool that was not finished is `"pending"` here and
a timeout with the status "running" in the code.

## Runs

| Run | Instance | What it shows |
|---|---|---|
| `agent_jobs` | 1 job, 2 servers, 3 processes (2 share a token), 2 requests in flight, expiry 1 tick, an oversized output | claims honoured and exclusive, `RunAgrees`, the refinement of `JobLifecycle` |
| `agent_jobs_live` | 2 jobs (one tool may be withdrawn), 1 process, 1 slot | `JobsSettle` |
| `agent_registry` | 2 tokens, 3 installations (2 share a file), 2 slots | token and revocation |
| `bootstrap` | 2 runs of a session, 2 credentials, a host that has an agent or not | credentials, installation, late registration |
| `baseline_scan` | 2 tools, 2 start requests, failures; or 1 start request, no failures (`calm`) | scan safety; `CalmScanEnds`, `CalmSuccessIsFinal` |
| `inventory` | 4 scenarios, see below | inventory, groups, reports, drafts |
| `diagnostics` | 1 portal approval, 2 Telegram updates, 2 views; or Telegram and views alone, no failures (`calm`) | session safety; `CalmSessionEnds` |
| `telegram` | 2 accounts with a code each, 2 servers, 1 application, 2 dialogues, 2 updates | links and dialogues |
| `tool_catalog` | 1 run of each of 3 kinds of tool, 20 sets of parameters | gates, dry runs, the paths of queued commands |
| `tool_builder` | 2 proposals, 2 administrators, 3 contents | proposals and conversions, beside the enabling command |
| `chat_tools` | 1 request, by hand or by the stream, 2 presses of buttons; or an answer of 9 texts in any deltas, 1 tool | messages, statuses, results, answers; `FollowUpAppears` |
| `chat_bundle` | 2 tools, the stream, 2 status pages, failures | bundle safety, and `SummaryAppears` |

Why the bounds are enough to be interesting. Two processes on one token and two
requests in flight let a claim expire while its holder executes, a second
holder take over and the first one's submission arrive late; the third process
polls for another server. One tick of expiry gives all three cases of
`claim_expires_at` against now: before, at that instant (`<=` in the submission,
`<` in the claim, which differ), after. Two tools and their ingestions are
what it takes for each of two to see only its own step finished, and for a
verdict to be read before and saved after another one. Two runs of a bootstrap
session with two credentials let one add or destroy what the other uses, and
one's configuration replace the other's. Two updates of a chat are what a
selection needs to be overtaken, by a confirmation or by another selection; a
third party is the chain of updates that follow each other. Two copies of two
proposals of one key let a conversion meet any other action. Two tools let one
of a bundle end, be denied or be skipped while the other is not started yet;
two status pages can each overtake the stream and each other. Nothing else is
bounded: counters (`issued`, `grants`, `reports`) are finite in each instance
because tokens and views are. Symmetry is used in safety runs only.

`MCInventory` has four scenarios, chosen at the start, because the product of
all of them is out of TLC's reach:

* `inventory`: two scans, of which one may have two tools, of the pairs that
  share rows, with at most `MaxBusy` = 2 ingestions at a time and reviews of an
  application: `SummaryWhole`, `ApprovalStands`;
* `calm`: one scan whose ingestions follow each other, under every pair and
  triple of tools, one pair of silent ones included: `CalmFrameworkBest`;
* `reports`: rebuilds that do not overlap and reports, beside findings that
  come and are marked: `CalmGroupsSingle`;
* `drafts`: two drafts, two requests that convert them or write directly,
  reviews at any time: `ConversionSound`.

`Reviews` has an approval and one other decision, `Marks` one mark: archived and
ignored are treated alike by the code modelled. `Advised` is 1 for 5, so that
two findings are one too many.

`MCChatTools` has two scenarios for the same reason: `requests`, with the tools
of an answer that is delivered beside requests by hand and presses, and
`answer`, a whole answer with nobody else at work. Its texts are answers without a
block; a block alone, or after blanks or after a letter that grows in upper case;
a secret before a block, with and without a blank between the two; a secret that
only its last letter completes. The marker has three letters, so that it can be
cut in two places, and each text may end early anywhere.

`MCToolCatalog`'s sets of parameters are good ones, detours that lead to an allowed
file, to a blocked one and to the root, two slashes, placeholders in words and in
paths (of an earlier, a later and no parameter), blocked tokens and secrets, and
what the schema refuses. The command template has a path as an argument of its own
beside two words.

What the exceptions leave out. Some properties name an overlap after which the
code keeps no promise, and they say nothing of it: two rebuilds at once
(`CalmGroupsSingle`), overlapping ingestions (`CalmFrameworkBest`), an approval
between the read and the save of an ingestion (`ApprovalStands`), a second
decider, or a follow-up that gives up (`StatusFollowsRun`), a portal approval that
saves over a cancellation (`CancelStands`), two first links of a chat
(`AccountKept`). What happens there is among the observations; the properties show
that nothing else than these overlaps does it.

Runs whose requests each happen once may stop by themselves and do not check
for deadlock (`CHECK_DEADLOCK FALSE`); `agent_jobs`, `agent_registry` and
`diagnostics` do, and so does `agent_jobs_live`.

## Fairness

* `AgentJobs`: the service loop goes on for ever and is restarted by systemd,
  `urlopen` times out, the web server handles what it receives, time passes.
  `FailuresCease` assumes that at some point awaited requests are no longer
  lost and processes no longer die with a job in hand; before that point
  everything may fail. `JobsSettle` is checked without oversized outputs, for
  which it is false (see the observations).
* `BaselineScan` and `Diagnostics` (the `calm` halves of their runs): requests
  run to their end and jobs are settled, which is `JobsSettle`; somebody keeps
  looking at a session. These exclude failures because the code does not
  recover from them: when the last claim expires, the last ingestion dies, a job
  is dropped at the claim, or a view dies after it saved the step, nobody ends
  the scan or the session. The other halves include all of these.
* `LiveAnswer`: the stream runs the tools unless it dies; nothing is assumed of
  the provider, runtimes and administrators. Its deadline is what makes the wait end.
* `ChatBundle`: the stream runs on unless it dies, its deadline passes (strongly
  fair: it is looked at between two polls, of which there may be any number),
  jobs are settled, and a page that shows a running bundle polls. The run
  includes deaths, denials and jobs that are dropped; `SummaryAppears` names the
  two cases that it does not cover: a denied request, for which recovery waits
  for ever, and a job that ends without a result. A stream that dies while it
  is still starting tools leaves the bundle running for ever, too.
* The other modules state no fairness: a process may die silently anywhere, and
  their properties are about safety.

## Proofs

All theorems hold for arbitrary finite or infinite sets of jobs, agents,
runtimes, requests, scans, rows, drafts, steps, tools, views, updates, proposals, administrators,
runs and parameters, under the modules' named assumptions:

* paths and prefixes are sequences of components, and a parameter has a type and
  a value (`PathsAssumption`); the schema of a command template lists its fields in
  some order, and each has a placeholder of its own, which is no slash
  (`CatalogAssumption`);
* functions of constants have the right domains (`OwnersAssumption`), what is
  requested or entered is a content (`BuilderAssumption`), a profile is a sequence
  of known tools and has application tools of one generation only, like the three
  of `baseline_profiles.py` (`ProfilesAssumption`), a type of report has one to five
  sections (`SectionsAssumption`), and the expiry is positive;
* a row is in one table (`KeysAssumption`) and a tool reports items of its kind
  (`OffersAssumption`): each ingest function writes to one table, so that the
  tools for applications store these, nothing else does, and the silent tools
  store nothing; a decision is one of those of its model (`DecisionsAssumption`), and the values
  include those that are filled in (`ValuesAssumption`);
* a value that stands for nothing is no job, request, draft, report or row
  (`NoJob`, `NothingAssumption`, `AbsentAssumption`), and a request's own job is not a button's
  (`NamesAssumption`: they are two rows);
* `TextsAssumption`: an answer is a sequence of letters that is not empty, and
  fewer of its letters grow in upper case than the marker has. The cut
  of the hidden block moves by that many letters (see the observations);
  answers in which it moves by a whole marker or more are not covered. The marker
  has neither blanks nor keys.

Each proof module follows the same path: an inductive invariant as a
conjunction of named parts, one lemma per action or group of actions, and
theorems that take one part each. The type invariant is the first theorem of
each proof module. The modules that use jobs have `JobsKept` as well: each step
is one of `JobLifecycle` or leaves the jobs alone (a refinement by identity), and
`OpensNew`, that a request for a job always finds it absent, so that the guard
of `Open` forbids nothing that the code would do. Every inductive invariant was model-checked on the instances
of the runs before it was proved.

* `AgentJobs_proofs`. `TypeOK` is inductive with `Carried` (which requests
  carry a job). On top of it `RunAgrees` is inductive, and with the step lemma
  that lists what a step may do to a job it gives `TerminalIsFinal` and the
  refinement: every step of the protocol is an `Open`, `Settle`, `Discard` or a
  stutter of `JobLifecycle`. `ClaimsHonoured` and `ClaimsExclusive` are
  inductive only together: a job is claimed again once its row's expiry has
  passed, so no holder has time left (honoured), and a claim moves from answer
  to worker to submission without being copied (exclusive). `OwnServerOnly`
  follows from which worker polls for which agent.
* `BaselineScan_proofs`. The steps are created all or none (`AllOrNone`); what
  an ingestion saves was read earlier and is still right, because the result of
  a closed job never changes (`Closed`, `TodoFinished`); a verdict "succeeded"
  in hand means that all runs have succeeded, for ever (`Verdicts`), and a
  verdict "failed" that some run never will (`FailureFound`). For a scan that one
  request starts and no failure disturbs, the environment of `MCBaselineScan`,
  `CalmStarts` adds that nothing else has begun before the steps are there:
  `CalmSuccessIsFinal` follows.
  The last part is about `ToolCatalog`. The rows of a discovery tool come
  together (`DiscoveryWhole`), which the dry run relies on. `RunsAreSafe` needs
  that the parameters of a queued command have passed the checks and that it is
  the command that they give (`CallsRight`). Then `RenderedPath`: the argument that
  is to hold a path is the path's text. Fillings before it do not touch its
  placeholder, because names have different ones (`FillNothing`); its own filling
  puts the path there (`FillHole`); and those after it find nothing to fill in a
  path without placeholders. `CheckedPath` says that what the policy lets pass is
  in an allowed directory and in no blocked one, as `Covers` says it. It rests on
  `CanonicalIsReached`, for every path: what is left after the first m
  components are the names at increasing places (`Left`), namely those that no
  parent takes away (`Leaves`), and behind each of them names less parents
  (`Height`) come to as many as are left behind it. Each component keeps
  this, by pushing a place, by taking the last one or by doing nothing
  (`StepNames`, `StepParent`, `StepStays`). The fold of the community modules is
  a recursive function over sets of places; `WalkExists` shows that there is one,
  and the induction is that a non-empty set of numbers has a least element
  (`Counted`, from `NatLessThanWellFounded` and `WFMin`).
* `AgentRegistry_proofs`. At most one registration is between its checks and
  its commit, and its token is fresh (`Exclusion`); a heartbeat in hand was
  authenticated as active, so that it does not write the status (`Authed`).
  The second half is about `Bootstrap`. `CleanOrOwed`: once a session has
  completed or failed, its credentials are gone, or a run is yet to destroy them
  or has died before it could; several runs may end the session, each owes, and
  the first to clean cleans for all. `TokensVoided`: a run says that it has
  failed only after its token was revoked or used, so that what it left on the
  host cannot register late. `HeartbeatsHeard`: a run gets past its verification
  only if a registration or a heartbeat has come since somebody started the
  session. `AgentsKnown`: whoever has been heard of had an agent before or has
  exchanged a token of one of the runs; no step but a registration makes a new
  agent, or forgets one (`HostSteady`).
* `Diagnostics_proofs`. `ViewsRight`: what a view is about to save is still
  true. `CancelSafe`: while a session waits for approval nothing has begun
  that could change it later, unless in the portal, and `/cancel`'s lock keeps
  it so until it saves.
* `ChatBundle_proofs`. Every line of a summary was true when it was read and
  stays so (`Right`): results do not change, and what the stream has skipped it
  never starts (`Books`). Completeness follows from `Books` as well: as long as
  the stream runs, what it has still to start, has skipped and has started is
  the whole bundle, and so is what the running message lists.

* `TelegramChat_proofs`. `CodesRight`: the lock on a code keeps it to one
  update, which has not used it yet, even if the code is revoked meanwhile;
  hence `CodeLinksOnce`. `RequestRight`: what a selection has in hand was right
  for its dialogue when it was read and still is, because a dialogue never
  changes its account and never loses its server. So the late save of a
  selection, even to a dialogue that was cancelled, keeps `DialogueFits`, whose
  half about sessions (`SessionsFit`) is inductive with it. `AccountKept` is an
  action property: only an update that looked before there was a row to lock
  gives an active link to another account.
* `Reviews_proofs`, for `ToolBuilder`. `EditorRight`: what an old copy of a proposal still
  vouches for. Approved means that a review is on record, since reviews are
  never taken back; converted means that the proposal is converted; what is
  about to be converted is valid, since the conversion converts the very copy
  it has validated. `BuiltIsSound` needs the lemma that redaction leaves a valid
  content valid (`SanitizedValid`), `ConvertedHasTool` that a proposal in the
  making is in one pair of hands only (`OneGenerator`).
  For `Inventory`, `SummaryWhole` rests on an order that every ingestion keeps,
  however many overlap: rows before their step (`RowsFirst`), all steps before
  the verdict in hand (`HandRight`), the verdict before the scan
  (`VerdictsRight`). That nothing of it is taken back is one lemma's business
  (`HandStays`, from `Persists`): rows never vanish, a step that succeeded never
  fails, and a row is taken only by a scan that reported it too. For
  `ApprovalStands` the same invariant gives which tool's item an ingestion holds,
  and the assumption on `Offers` that only the tools for applications write
  those; what they save then keeps an approval that they have read (`Updated`).
  For `Reports`: consent to a report draft is never withdrawn (`WritersRight`),
  and the report that a converted draft names is finished, so that no section is
  added to it (`DraftsRight`). `ConversionSound` follows. The type of a rebuild
  rests on `FindingsMarked`: whatever is written to a finding's row, its status
  is one of findings.
  The scenarios of `MCInventory` are behaviours of this server
  (`ScenariosAreServers`), which carries the invariants over to them, and where
  things do not overlap two more hold, for any instance. `RebuildsAlone`: the
  keys that a rebuild found without a group still have none when it commits, so
  that no key gets a second one (`CalmGroupsSingle`). `CalmRight`: only the scan
  of the one ingestion under way has results, what that ingestion holds is still
  the row, and nothing is approved; hence no step lowers a framework
  (`FrameworksRise`), the row of an item that is done with is at least as
  good as its tool reported (`BestStored`), and those of all its items are once
  the tool's step is saved (`BestSaved`): `CalmFrameworkBest`. That no profile mixes the two generations
  is needed here: the older tools write their framework without comparing it.
* `LiveAnswer_proofs`, for `ChatTools` and `LiveAnswer`. A result reaches its
  request twice, by the submission and by the stream, and neither looks at
  what the other has written. `LinkRight` says who can have linked a job to a
  request, `ResultKept` and `StreamKept` that the status is the run's as long as
  there was only one run and the stream did not give up waiting; with that,
  `StatusFollowsRun` and `ResultTold` follow. `MessagesTrue` rests on
  `LiveRight` (what the stream knows at each of its stages) and on what no step
  takes back (`RequestsPersist`, `ButtonsPersist`, `JobsPersist`): a message that
  is true stays true. `FewRequests`: only finitely many requests are ever made,
  which is why the messages of a result can be listed even though `Requests` may
  be infinite.
  The answer implements the tools (`AnswerImplementsTools`: each of its steps is
  one of `ChatTools` or leaves them alone), so that the theorems about the tools
  hold in it. `AnswerStands` rests on what the empty row is at each stage
  (`RowRight`), the log (`LogRight`) and what counts as started
  (`StartedRight`). That what the code cuts, redacts and strips is still a
  text (`BeforeMarkerType`, `RedactType`, `StripType`) is what the type invariant
  needs. `SetToSeq` and `Max` are chosen by CHOOSE, and
  `SeqOfFiniteSet` and `MaxIsMember` show that there is something to choose.

`TerminalIsFinal`, `OwnServerOnly`, `StepsFollowRuns`, `WholeUnlessLate` and
`SucceededMeansAll` of `ChatBundle` are proved and need no run.

Only model-checked:

* liveness (fairness and ENABLED are outside the prover): `JobsSettle`,
  `CalmScanEnds`, `CalmSessionEnds`, `FollowUpAppears`, `SummaryAppears`;
* `HiddenStaysHidden`. It counts the letters
  of a block that are shown, and holds of texts in which these letters occur in
  blocks only, as in the instance. It is false of texts that use the marker's
  letters elsewhere, so that for all texts it is no theorem.

## Observations

What the models show of the code, beside the properties. None of these is
stated as a property: each is the exception that a property names, or lies
behind a condition that it has.

Jobs and agents:

* An output that is too large is refused, and the job is executed again for
  ever (`servers/services.py:234`; docs/API-CONTRACTS.md:121 says "Oversized
  output is truncated safely.").
* A submission under an expired claim passes the check if the job has been
  handed out again, since the check looks at the newer claim (`:206`). An agent
  that is revoked between its authentication and the claim still gets the job.
* `next_job` does not send `execution_payload` (`servers/views.py:109`): a
  runtime rejects the job of a command template as an unknown tool. A policy
  that allows administrators but not agents admits runs that the claim rejects.
* A heartbeat would bring an agent back that was marked offline (`:114`), but
  authentication turns an offline agent away before (`:53`).
* A runtime that dies between its registration and the save of its file tries to
  register with a used token until it is installed again.

Bootstrap:

* A run that starts from a stale copy takes a session that has ended up again
  (`bootstrap/services.py:219`). A second run that fails replaces the
  configuration of the first with one whose token is void.
* `last_seen_at` since the start of the session completes the verification
  (`bootstrap/services.py:209`), and a registration sets it
  (`servers/services.py:86`): an installation is recorded although no heartbeat
  was received. A heartbeat of the agent that was there before will do as well.
* The runtime and its configuration are uploaded to fixed files in `/tmp`: of two
  runs that overlap, one may install the configuration of the other, and one then
  finds nothing to move.
* A pending session is expired by the clean-up although it has a fresh second
  credential. `expire_stale_credentials` and `create_bootstrap_session` have no
  callers but the tests.

Scans, inventory, reports:

* A start that overlaps another one puts a scan that has succeeded back to
  running (`servers/baseline.py:259`). A scan whose last ingestion dies stays
  running (`servers/views.py:148`).
* Every result of a scan ingests the earlier ones again: an application that was
  ignored or archived returns to pending, and a finding that was marked is open
  again. An approval between the read and the save of an ingestion is undone.
* Two ingestions of different tools may lower a framework, since each saves the
  better of what it reported and what it had read.
* Rows belong to the scan that saw them last; an older scan that ends later
  counts without them. A nested candidate is kept or dropped depending on the
  order of the results.
* Two rebuilds that overlap create a group twice; a group whose findings are
  gone is never removed. Two conversions of one draft write two reports, and a
  review after the conversion replaces "converted".

Diagnostics:

* A portal approval that overlaps another one opens two jobs
  (`diagnostics/services.py:169`); one that overlaps a cancellation or the end
  of a session puts it back to running, and nothing ends it. Two views write two
  reports (`:334`). A view that dies after it saved the step leaves the session
  running for ever (`:302`).

Telegram:

* The first link of a chat has no row to lock: two codes of different accounts
  at the same time leave the chat with the later one
  (`telegram_integration/services.py:206`).
* A selection that was read before a cancellation makes the dialogue active
  again, if there is no other. Unlinking leaves the dialogue.

Chat:

* Two approvals of a request at the same time open two jobs
  (`ai_chat/services.py:868`); a rejection may be overtaken by an approval.
* The follow-up that gave up waiting saves "queued" over the status that the
  result has stored (`:1233`). A result that is recorded before the request
  names its run leaves a request made by hand queued, without a message.
* The stream and a page may write a bundle's summary each (`:1271`;
  docs/CURRENT-TASKS.md:122), and a late stream may save what it read over a
  complete summary that a page has recovered meanwhile.
* An answer that ends within the marker of its hidden block, at a limit of
  tokens for example, is shown and stored with that piece of it
  (`ai_chat/live_ai.py:345`). The marker is looked for in the upper-case text
  and cut in the original: a letter that is two in upper case, as the German
  sharp s, moves the cut by one into the block.
* What was streamed may be taken back. The visible text is redacted as a whole each
  time (`:349`), so that letters which complete a secret replace what stood there
  before; a private key is streamed as it comes, up to the letters that are held
  back, until its END line has arrived. White space before the block is dropped
  with it. What is appended to the item continues from a length, not from what is
  there, so that the streamed text and the stored one may differ.
* A secret that runs on into the marker, with no blank between, hides the marker:
  when both come in one delta, the rest of the block is shown as text.
* Which question is answered, and which tools are run, is decided by the newest
  question of the session (`live_ai.py:311`, `:503`), so that two requests at
  the same time may both act on the later one, and a retry of an older question
  acts on the newest.
* A bundle is started also when the provider has failed (`live_ai.py:637`), and
  then its request is logged as a failure. A stream that is closed while its
  letters are being delivered, and not while they are waited for, leaves its
  log pending.

Tools:

* A validation of a converted proposal takes "converted" away
  (`tools/services.py:659`), after which the enabling command refuses the tool.
  An approval that is refused has left its review. A second conversion of a
  taken key fails, and leaves the proposal pending.
* A tool that an administrator disables between the enabling command's check and
  its save is enabled.
* A path with the placeholder of a parameter that comes later in the schema is
  checked as it is, and the placeholder is filled in afterwards
  (`tools/services.py:179`): the queued path is not the one that the policy has
  passed. A path that begins with two slashes keeps them
  (`tools/validation.py:23`), and so is in no blocked directory; it is allowed
  where a prefix leads to the root.
* An allowed or blocked prefix that leads to the root stands for the root alone,
  since paths are compared with `//` then (`tools/validation.py:41`): a tool that
  is allowed `/` is allowed nothing in it. The tests that a blocked prefix comes
  first (tests/unit/test_sprint4_tools_policy.py:135,
  tests/unit/test_sprint10_tool_builder.py:157) allow `/`, and would pass without
  the blocked one. The prefix `/*` refuses every path for which it is looked at
  (`:38`).
* A process that dies between the saves of `ensure_tool` leaves the identity
  tool without a policy (`tools/setup.py:262`): later requests find the
  definition and are denied, until the tools are set up again.

## Not modelled, and the plan

Not modelled:

* Telegram notifications: a notification is one call that sends and saves its
  row, and `send_notification` has no caller in the application.
* The AI context builders, which read and redact; the input that is built from
  them for the language model (of which `LiveAnswer` keeps that any mode and
  text may follow); the rows of `AdminChatDecision`, titles and replaced items
  of the ChatKit store; the announcements of the chat and the message that
  combines several outcomes.
* What the Django admin may set by hand: the status of a proposal, of a report
  draft, of a definition, its policy and plan (but for disabling it). The forms that
  are modelled, those of a bootstrap's credentials and of a job, have the use that
  the code is made for.
* The collectors that read a host's files; the runtime is one of the outcomes of
  `execute_job`.
* Knowledge entries, pages, lists, filters, templates and formatting; accounts
  and plans but for what the gates read; the audit log, which is only written.

Next: an abstract request lifecycle that chat and diagnostics both implement.
