------------------------------ MODULE Bootstrap ------------------------------
(***************************************************************************)
(* A bootstrap session (apps/bootstrap): an administrator installs the     *)
(* scanner's runtime on a server over SSH, with a temporary credential,    *)
(* and waits until the agent is heard of.                                  *)
(*                                                                         *)
(* The administrator's action reads the selected sessions and then runs    *)
(* them one after the other, so that a run starts from a session it has    *)
(* read long ago; nothing prevents a second run of the same session.  A    *)
(* run commits after every save.  The host is modelled as far as the runs  *)
(* act on it: the configuration in /tmp, which all runs share, the         *)
(* installed one, and the service that registers with it, as in            *)
(* AgentRegistry.                                                          *)
(*                                                                         *)
(* Left out: the rows of BootstrapStep and the output of the commands; the *)
(* administrator's form may write any status, and may add a credential to  *)
(* a session that has ended.  Some names say Bootstrap, or runToken, to    *)
(* differ from AgentRegistry's: one module proves theorems about both.     *)
(***************************************************************************)

EXTENDS Naturals, Sequences

CONSTANTS
    Runs,         \* executions of the session
    Secrets,      \* bound: how many credentials the session is given
    Nothing       \* no run

ASSUME RunsAssumption == Nothing \notin Runs

ASSUME SecretsAssumption == Secrets \in Nat \ {0}

\* In the order of their creation.
Credentials == 1 .. Secrets

VARIABLES
    session,        \* BootstrapSession: [status, confirmed, started]
    credential,     \* [Credentials -> BootstrapCredential]
    janitor,        \* expire_stale_credentials
    run,            \* [Runs -> how far the execution is]
    runToken,       \* [Runs -> the AgentRegistrationToken it created]
    installations,  \* the statuses that AgentInstallation rows have
    host,           \* the server: configuration file and service
    seen            \* the runs since whose start the agent's last_seen_at was set

bootstrapVars ==
    <<session, credential, janitor, run, runToken, installations, host, seen>>

-----------------------------------------------------------------------------

Terminal == {"completed", "failed", "cancelled", "expired"}

Statuses ==
    {"pending", "connecting", "probing", "awaiting_package_confirmation",
     "installing", "deploying", "configuring", "starting",
     "verifying_heartbeat"} \cup Terminal

\* The commands of a run that have a status saved before them, in order; each
\* stands for the commands after the one before it too.
Plan ==
    << [key |-> "systemd_detector", status |-> "probing"],
       [key |-> "scanner_dependencies_install", status |-> "installing"],
       [key |-> "bootstrap_directory_prepare", status |-> "deploying"],
       [key |-> "scanner_config_write", status |-> "configuring"],
       [key |-> "systemd_service_start", status |-> "starting"] >>

\* read: the session has been read; expiring: its credential was not usable;
\* ready, executing: before and during a command; deployed: the configuration was
\* uploaded; failing: an exception was caught; revoked, closed, left: what is done
\* about it.
Stages ==
    {"idle", "read", "expiring", "connecting", "ready", "deployed", "executing",
     "verifying", "verified", "installed", "cleaning", "failing", "revoked", "closed", "left",
     "refused", "completed", "failed", "dead"}

\* at: the position in the plan, while the plan is carried out; since: the run
\* that set the started_at that this run goes by; confirmed, expired: what its
\* copy of the session has, while that matters.
Run == [stage : Stages, at : 1 .. Len(Plan) + 1, since : Runs \cup {Nothing},
        confirmed : BOOLEAN, expired : BOOLEAN]

\* uploaded: whose configuration is in /tmp; file: whose configuration is
\* installed, stored: it has an agent token; mem, agent: the same of the service
\* that is running; old: the server had an agent when the session was created.
Host == [uploaded : Runs \cup {Nothing}, file : Runs \cup {Nothing},
         stored : BOOLEAN, running : BOOLEAN, mem : Runs \cup {Nothing},
         agent : BOOLEAN, old : BOOLEAN]

BootstrapTypeOK ==
    /\ session \in
           [status : Statuses, confirmed : BOOLEAN, started : Runs \cup {Nothing}]
    /\ credential \in [Credentials -> {"absent", "usable", "late", "destroyed"}]
    /\ janitor \in {"idle", "expiring"}
    /\ run \in [Runs -> Run]
    /\ runToken \in [Runs -> {"none", "fresh", "used", "void"}]
    /\ installations \subseteq {"installed", "failed"}
    /\ host \in Host
    /\ seen \subseteq Runs

\* create_bootstrap_session, and the administrator's form.  The server may have
\* an agent already.
BootstrapInit ==
    /\ session \in [status : {"pending"}, confirmed : BOOLEAN, started : {Nothing}]
    /\ credential = [c \in Credentials |-> IF c = 1 THEN "usable" ELSE "absent"]
    /\ janitor = "idle"
    /\ run = [r \in Runs |-> [stage |-> "idle", at |-> 1, since |-> Nothing,
                              confirmed |-> FALSE, expired |-> FALSE]]
    /\ runToken = [r \in Runs |-> "none"]
    /\ installations = {}
    /\ \E old \in BOOLEAN :
          host = [uploaded |-> Nothing, file |-> Nothing, stored |-> old,
                  running |-> old, mem |-> Nothing, agent |-> old, old |-> old]
    /\ seen = {}

-----------------------------------------------------------------------------
(* A run.                                                                  *)

Moves(r, from, to) ==
    /\ run[r].stage = from
    /\ run' = [run EXCEPT ![r].stage = to]

\* The run leaves the plan.
Leaves(r, from, to) ==
    /\ run[r].stage \in from
    /\ run' = [run EXCEPT ![r] =
          [stage |-> to, at |-> 1, since |-> run[r].since, confirmed |-> FALSE,
           expired |-> to # "dead" /\ run[r].expired]]

\* The action of the admin site reads the session.
Read(r) ==
    /\ run[r].stage = "idle"
    /\ session.status \notin Terminal
    /\ run' = [run EXCEPT ![r] =
          [@ EXCEPT !.stage = "read", !.since = session.started,
                    !.confirmed = session.confirmed]]
    /\ UNCHANGED <<session, credential, janitor, runToken, installations, host, seen>>

AwaitConfirmation(r) ==
    /\ ~run[r].confirmed
    /\ Moves(r, "read", "refused")
    /\ session' = [session EXCEPT !.status = "awaiting_package_confirmation"]
    /\ UNCHANGED <<credential, janitor, runToken, installations, host, seen>>

Newest ==
    CHOOSE c \in Credentials :
        /\ credential[c] # "absent"
        /\ \A d \in Credentials : d > c => credential[d] = "absent"

\* _usable_credential, and the decryption.
UseCredential(r) ==
    /\ run[r].confirmed
    /\ credential[Newest] = "usable"
    /\ Leaves(r, {"read"}, "connecting")
    /\ UNCHANGED <<session, credential, janitor, runToken, installations, host, seen>>

RefuseCredential(r) ==
    /\ run[r].stage = "read" /\ run[r].confirmed
    /\ credential[Newest] # "usable"
    /\ session' = [session EXCEPT !.status = "expired"]
    /\ run' = [run EXCEPT ![r] =
          [@ EXCEPT !.stage = "expiring", !.confirmed = FALSE, !.expired = TRUE]]
    /\ UNCHANGED <<credential, janitor, runToken, installations, host, seen>>

\* cleanup_session_credentials
Destroyed == [c \in Credentials |->
    IF credential[c] = "absent" THEN "absent" ELSE "destroyed"]

DestroyRefused(r) ==
    /\ Moves(r, "expiring", "failing")
    /\ credential' = Destroyed
    /\ UNCHANGED <<session, janitor, runToken, installations, host, seen>>

\* _set_session_status sets started_at if the copy has none.
Connect(r) ==
    /\ run[r].stage = "connecting"
    /\ LET since == IF run[r].since = Nothing THEN r ELSE run[r].since IN
          /\ run' = [run EXCEPT ![r] = [@ EXCEPT !.stage = "ready", !.since = since]]
          /\ session' = [session EXCEPT !.status = "connecting", !.started =
                IF run[r].since = Nothing THEN r ELSE @]
    /\ UNCHANGED <<credential, janitor, runToken, installations, host, seen>>

Command(r) == Plan[run[r].at].key

\* create_for_server, before the runtime and its configuration are uploaded ...
CreateToken(r) ==
    /\ run[r].stage = "ready"
    /\ run[r].at <= Len(Plan) /\ Command(r) = "scanner_config_write"
    /\ runToken[r] = "none"
    /\ runToken' = [runToken EXCEPT ![r] = "fresh"]
    /\ UNCHANGED <<session, credential, janitor, run, installations, host, seen>>

\* ... to files in /tmp that every run uses, ...
Upload(r) ==
    /\ run[r].at <= Len(Plan) /\ Command(r) = "scanner_config_write"
    /\ runToken[r] # "none"
    /\ Moves(r, "ready", "deployed")
    /\ host' = [host EXCEPT !.uploaded = r]
    /\ UNCHANGED <<session, credential, janitor, runToken, installations, seen>>

\* _run_step saves the status and sends the command ...
StepStarts(r) ==
    /\ run[r].at <= Len(Plan)
    /\ Moves(r, IF Command(r) = "scanner_config_write" THEN "deployed" ELSE "ready",
             "executing")
    /\ session' = [session EXCEPT !.status = Plan[run[r].at].status]
    /\ UNCHANGED <<credential, janitor, runToken, installations, host, seen>>

\* What is to be installed is moved there, so that it is there once.
Movable(r) == Command(r) = "scanner_config_write" => host.uploaded # Nothing

\* What a command does to the host.  "enable --now" does not restart a service
\* that is running.
HostAfter(r) ==
    CASE Command(r) = "scanner_config_write" /\ Movable(r) ->
            [host EXCEPT !.file = host.uploaded, !.uploaded = Nothing, !.stored = FALSE]
      [] Command(r) = "systemd_service_start" /\ ~host.running ->
            [host EXCEPT !.running = TRUE, !.mem = host.file, !.agent = host.stored]
      [] OTHER -> host

\* ... which ends with exit code 0, ...
StepSucceeds(r) ==
    /\ run[r].stage = "executing" /\ Movable(r)
    /\ run' = [run EXCEPT ![r] = [@ EXCEPT !.stage = "ready", !.at = run[r].at + 1]]
    /\ host' = HostAfter(r)
    /\ UNCHANGED <<session, credential, janitor, runToken, installations, seen>>

\* ... or with another, or the connection breaks and its effect is unknown.
StepFails(r) ==
    /\ Leaves(r, {"executing"}, "failing")
    /\ host' \in {host, HostAfter(r)}
    /\ UNCHANGED <<session, credential, janitor, runToken, installations, seen>>

Verify(r) ==
    /\ run[r].at > Len(Plan)
    /\ Leaves(r, {"ready"}, "verifying")
    /\ session' = [session EXCEPT !.status = "verifying_heartbeat"]
    /\ UNCHANGED <<credential, janitor, runToken, installations, host, seen>>

\* Mutant: any agent of the server will do.
HeartbeatSeenEver(r) == host.agent

\* _verify_heartbeat compares last_seen_at with the started_at of the copy.
HeartbeatSeen(r) == run[r].since \in seen

SeeHeartbeat(r) ==
    /\ HeartbeatSeen(r)
    /\ Moves(r, "verifying", "verified")
    /\ UNCHANGED <<session, credential, janitor, runToken, installations, host, seen>>

VerifyTimesOut(r) ==
    /\ Moves(r, "verifying", "failing")
    /\ UNCHANGED <<session, credential, janitor, runToken, installations, host, seen>>

RecordInstallation(r) ==
    /\ Moves(r, "verified", "installed")
    /\ installations' = installations \cup {"installed"}
    /\ UNCHANGED <<session, credential, janitor, runToken, host, seen>>

Complete(r) ==
    /\ Moves(r, "installed", "cleaning")
    /\ session' = [session EXCEPT !.status = "completed"]
    /\ UNCHANGED <<credential, janitor, runToken, installations, host, seen>>

CleanUp(r) ==
    /\ Moves(r, "cleaning", "completed")
    /\ credential' = Destroyed
    /\ UNCHANGED <<session, janitor, runToken, installations, host, seen>>

\* Anything else that raises an exception: the connection, the upload, a package
\* manager that is not supported, the database.
Raises(r) ==
    /\ Leaves(r, {"connecting", "ready", "deployed", "verifying", "verified",
                  "installed"}, "failing")
    /\ UNCHANGED <<session, credential, janitor, runToken, installations, host, seen>>

\* Mutant: only a token that was used is revoked.
RevokeUsed(r) ==
    /\ Moves(r, "failing", "revoked")
    /\ runToken' = [runToken EXCEPT ![r] = IF @ = "used" THEN "void" ELSE @]
    /\ UNCHANGED <<session, credential, janitor, installations, host, seen>>

\* The token is revoked.  (One that was used meanwhile is revoked as well, which
\* changes nothing.)
Revoke(r) ==
    /\ Moves(r, "failing", "revoked")
    /\ runToken' = [runToken EXCEPT ![r] = IF @ = "fresh" THEN "void" ELSE @]
    /\ UNCHANGED <<session, credential, janitor, installations, host, seen>>

\* _finish_session, unless the copy is "expired" already.
Fail(r) ==
    /\ run[r].stage = "revoked"
    /\ run' = [run EXCEPT ![r] = [@ EXCEPT !.stage = "closed", !.expired = FALSE]]
    /\ session' = [session EXCEPT !.status = IF run[r].expired THEN @ ELSE "failed"]
    /\ UNCHANGED <<credential, janitor, runToken, installations, host, seen>>

\* Mutant: a failure keeps the credentials for another run.
CleanUpFailedNot(r) ==
    /\ Moves(r, "closed", "left")
    /\ UNCHANGED <<session, credential, janitor, runToken, installations, host, seen>>

CleanUpFailed(r) ==
    /\ Moves(r, "closed", "left")
    /\ credential' = Destroyed
    /\ UNCHANGED <<session, janitor, runToken, installations, host, seen>>

\* get_or_create: a row of the session will do, also that of another run.
RecordFailure(r) ==
    /\ Moves(r, "left", "failed")
    /\ installations' = IF installations = {} THEN {"failed"} ELSE installations
    /\ UNCHANGED <<session, credential, janitor, runToken, host, seen>>

\* The web process dies.
Dies(r) ==
    /\ Leaves(r, Stages \ {"idle", "refused", "completed", "failed", "dead"}, "dead")
    /\ UNCHANGED <<session, credential, janitor, runToken, installations, host, seen>>

-----------------------------------------------------------------------------
(* Administrators, the clean-up and the host.                              *)

AdminConfirms ==
    /\ session.status \notin Terminal /\ ~session.confirmed
    /\ session' = [session EXCEPT !.confirmed = TRUE]
    /\ UNCHANGED <<credential, janitor, run, runToken, installations, host, seen>>

\* save_model, with another secret.
AdminAddsCredential ==
    /\ session.status \notin Terminal
    /\ \E c \in Credentials :
          /\ credential[c] = "absent" /\ c = Newest + 1
          /\ credential' = [credential EXCEPT ![c] = "usable"]
    /\ UNCHANGED <<session, janitor, run, runToken, installations, host, seen>>

\* expires_at passes.
CredentialExpires(c) ==
    /\ credential[c] = "usable"
    /\ credential' = [credential EXCEPT ![c] = "late"]
    /\ UNCHANGED <<session, janitor, run, runToken, installations, host, seen>>

\* expire_stale_credentials destroys what is late, ...
DestroyLate ==
    /\ janitor = "idle"
    /\ \E c \in Credentials : credential[c] = "late"
    /\ credential' = [c \in Credentials |->
          IF credential[c] = "late" THEN "destroyed" ELSE credential[c]]
    /\ janitor' = "expiring"
    /\ UNCHANGED <<session, run, runToken, installations, host, seen>>

\* ... and closes the session if nothing has started.
ExpirePending ==
    /\ janitor = "expiring"
    /\ session' = [session EXCEPT !.status = IF @ = "pending" THEN "expired" ELSE @]
    /\ janitor' = "idle"
    /\ UNCHANGED <<credential, run, runToken, installations, host, seen>>

\* The runs whose started_at is in the past now.
Begun == {r \in Runs : run[r].since = r}

\* ensure_registered: the service registers with the token it was started with,
\* and saves its configuration, unless the file cannot be written.  register_agent
\* sets last_seen_at as a heartbeat does.
Register ==
    /\ host.running /\ ~host.agent /\ host.mem # Nothing
    /\ runToken[host.mem] = "fresh"
    /\ runToken' = [runToken EXCEPT ![host.mem] = "used"]
    /\ \E written \in BOOLEAN :
          host' = [host EXCEPT !.agent = TRUE,
                               !.file = IF written THEN host.mem ELSE @,
                               !.stored = @ \/ written]
    /\ seen' = seen \cup Begun
    /\ UNCHANGED <<session, credential, janitor, run, installations>>

Heartbeat ==
    /\ host.running /\ host.agent
    /\ ~(Begun \subseteq seen)
    /\ seen' = seen \cup Begun
    /\ UNCHANGED <<session, credential, janitor, run, runToken, installations, host>>

\* The service is started again, and reads its configuration.
ServiceRestarts ==
    /\ host.running
    /\ host' = [host EXCEPT !.mem = host.file, !.agent = host.stored]
    /\ UNCHANGED <<session, credential, janitor, run, runToken, installations, seen>>

-----------------------------------------------------------------------------

RunStep(r) ==
    \/ AwaitConfirmation(r) \/ UseCredential(r) \/ RefuseCredential(r)
    \/ DestroyRefused(r) \/ Connect(r) \/ CreateToken(r) \/ Upload(r)
    \/ StepStarts(r) \/ StepSucceeds(r) \/ StepFails(r)
    \/ Verify(r) \/ SeeHeartbeat(r) \/ VerifyTimesOut(r)
    \/ RecordInstallation(r) \/ Complete(r) \/ CleanUp(r)
    \/ Raises(r) \/ Revoke(r) \/ Fail(r) \/ CleanUpFailed(r) \/ RecordFailure(r)

BootstrapNext ==
    \/ \E r \in Runs : Read(r) \/ RunStep(r) \/ Dies(r)
    \/ AdminConfirms \/ AdminAddsCredential
    \/ \E c \in Credentials : CredentialExpires(c)
    \/ DestroyLate \/ ExpirePending
    \/ Register \/ Heartbeat \/ ServiceRestarts

BootstrapSpec == BootstrapInit /\ [][BootstrapNext]_bootstrapVars

-----------------------------------------------------------------------------
(* Properties *)

\* Nobody is at work on the session, and nobody died over it.
Quiet == \A r \in Runs : run[r].stage \in {"idle", "refused", "completed", "failed"}

\* The temporary credentials do not outlive a session that has completed or
\* failed, although several runs, the clean-up and administrators overlap.
CredentialsDestroyed ==
    Quiet /\ session.status \in {"completed", "failed"} =>
        \A c \in Credentials : credential[c] \in {"absent", "destroyed"}

\* A run that has failed, for example because the heartbeat did not come in
\* time, has voided its token: the runtime that it left on the host does not
\* register late.
NoLateRegistration ==
    [][ \A r \in Runs :
          runToken[r] # "used" /\ runToken'[r] = "used" => run[r].stage # "failed"
      ]_bootstrapVars

\* An installation is recorded only after the agent's row was touched since the
\* session was started, by a registration or a heartbeat: an agent that was there
\* before and is silent does not count.  On a server that had none, a runtime has
\* exchanged the registration token of one of the session's runs for the agent's,
\* whichever run's configuration it was started with.
InstalledMeansSeen ==
    "installed" \in installations =>
        /\ seen # {}
        /\ host.old \/ \E r \in Runs : runToken[r] = "used"

=============================================================================
