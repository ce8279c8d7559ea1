--------------------------- MODULE AgentRegistry ---------------------------
(***************************************************************************)
(* The agent of one server: registration tokens (apps/servers/models.py),  *)
(* their exchange for an agent token and the heartbeats that use it        *)
(* (apps/servers/services.py, views.py), and the runtimes that keep the    *)
(* tokens in a configuration file (apps/bootstrap/runtime_bundle.py).      *)
(*                                                                         *)
(* register_agent locks the registration token's row together with its     *)
(* account and server rows before it looks at any of them, and holds them  *)
(* until it commits; a heartbeat locks nothing and saves the fields it     *)
(* names from the agent that authentication read.  Agent tokens are        *)
(* numbered in the order they are issued; 0 is no token.                   *)
(***************************************************************************)
EXTENDS Naturals, FiniteSets

CONSTANTS
    Tokens,       \* registration tokens of the server
    Runtimes,     \* runtime installations
    Requests,     \* slots for HTTP requests in flight
    TokenOf,      \* [Runtimes -> Tokens], the token in the installed file
    NoRequest     \* what a runtime between two requests awaits

ASSUME RegistryAssumption ==
    TokenOf \in [Runtimes -> Tokens] /\ NoRequest \notin Requests

VARIABLES
    eligible,     \* the account is active and the server not archived
    token,        \* [Tokens -> AgentRegistrationToken state]
    agent,        \* the ScannerAgent row: status, and key for token_hash
    issued,       \* how many agent tokens were issued
    grants,       \* [Tokens -> Nat], history: agent tokens issued for it
    req,          \* [Requests -> the request in that slot]
    runtime       \* [Runtimes -> [file, mem, awaits]]

vars == <<eligible, token, agent, issued, grants, req, runtime>>

-----------------------------------------------------------------------------

AgentStatuses == {"none", "active", "offline", "revoked"}

Key == 0 .. issued

\* kind register: token; kind heartbeat: key.  seen is the agent's status as
\* authentication read it.  An answer to a registration carries the new key.
Free == [phase |-> "free"]
Request == [phase : {"sent", "locked", "authed", "answered"},
            kind : {"register", "heartbeat"}, by : Runtimes,
            token : Tokens, key : Key, seen : AgentStatuses]

TypeOK ==
    /\ eligible \in BOOLEAN
    /\ token \in [Tokens -> {"none", "fresh", "used", "void"}]
    /\ agent \in [status : AgentStatuses, key : Key]
    /\ issued \in Nat
    /\ grants \in [Tokens -> Nat]
    /\ req \in [Requests -> Request \cup {Free}]
    /\ runtime \in [Runtimes -> [file : Key, mem : Key, awaits : Requests \cup {NoRequest}]]

Init ==
    /\ eligible = TRUE
    /\ token = [t \in Tokens |-> "none"]
    /\ agent = [status |-> "none", key |-> 0]
    /\ issued = 0
    /\ grants = [t \in Tokens |-> 0]
    /\ req = [r \in Requests |-> Free]
    /\ runtime = [w \in Runtimes |-> [file |-> 0, mem |-> 0, awaits |-> NoRequest]]

-----------------------------------------------------------------------------
(* The runtime: ensure_registered and the loop of main.                    *)

Send(w, r, kind) ==
    /\ runtime[w].awaits = NoRequest /\ req[r] = Free
    /\ req' = [req EXCEPT ![r] =
                 [phase |-> "sent", kind |-> kind, by |-> w, token |-> TokenOf[w],
                  key |-> runtime[w].mem, seen |-> "none"]]
    /\ runtime' = [runtime EXCEPT ![w].awaits = r]
    /\ UNCHANGED <<eligible, token, agent, issued, grants>>

\* Without an agent token it registers, again and again, with the token of
\* its file; the operator installs the file after the token was issued.
SendRegister(w, r) ==
    /\ runtime[w].mem = 0
    /\ token[TokenOf[w]] # "none"
    /\ Send(w, r, "register")

SendHeartbeat(w, r) ==
    /\ runtime[w].mem # 0
    /\ Send(w, r, "heartbeat")

\* A registration's answer is kept in memory, and save_config writes it to the
\* file, unless the write fails (main carries on) or the process dies first.
Receive(r) ==
    /\ req[r].phase = "answered"
    /\ runtime[req[r].by].awaits = r
    /\ IF req[r].kind = "register" /\ req[r].key # 0
       THEN \E file \in {req[r].key, runtime[req[r].by].file} :
               runtime' = [runtime EXCEPT ![req[r].by] =
                             [file |-> file, mem |-> req[r].key, awaits |-> NoRequest]]
       ELSE runtime' = [runtime EXCEPT ![req[r].by].awaits = NoRequest]
    /\ req' = [req EXCEPT ![r] = Free]
    /\ UNCHANGED <<eligible, token, agent, issued, grants>>

\* The request times out, the next iteration begins.
GiveUp(w) ==
    /\ runtime[w].awaits # NoRequest
    /\ runtime' = [runtime EXCEPT ![w].awaits = NoRequest]
    /\ UNCHANGED <<eligible, token, agent, issued, grants, req>>

Restart(w) ==
    /\ runtime' = [runtime EXCEPT ![w].awaits = NoRequest, ![w].mem = runtime[w].file]
    /\ UNCHANGED <<eligible, token, agent, issued, grants, req>>

-----------------------------------------------------------------------------
(* The API.                                                                *)

\* The server's row is locked by a registration that has not ended.
Locked == \E r \in Requests : req[r].phase = "locked"

\* Mutant: the row of the registration token is read without a lock.
RegisterBeginUnlocked(r) ==
    /\ req[r].phase = "sent" /\ req[r].kind = "register"
    /\ IF token[req[r].token] = "fresh" /\ eligible
       THEN req' = [req EXCEPT ![r].phase = "locked"]
       ELSE req' = [req EXCEPT ![r].phase = "answered"]
    /\ UNCHANGED <<eligible, token, agent, issued, grants, runtime>>

\* Up to the checks: is_usable, and the status of the account and the server.
RegisterBegin(r) ==
    /\ req[r].phase = "sent" /\ req[r].kind = "register"
    /\ ~ Locked
    /\ IF token[req[r].token] = "fresh" /\ eligible
       THEN req' = [req EXCEPT ![r].phase = "locked"]
       ELSE req' = [req EXCEPT ![r].phase = "answered"]
    /\ UNCHANGED <<eligible, token, agent, issued, grants, runtime>>

RegisterCommit(r) ==
    /\ req[r].phase = "locked"
    /\ issued' = issued + 1
    /\ agent' = [status |-> "active", key |-> issued + 1]
    /\ token' = [token EXCEPT ![req[r].token] = "used"]
    /\ grants' = [grants EXCEPT ![req[r].token] = @ + 1]
    /\ req' = [req EXCEPT ![r].phase = "answered", ![r].key = issued + 1]
    /\ UNCHANGED <<eligible, runtime>>

\* authenticate_agent_token: the token's agent, if is_active_for_api.
Authenticate(r) ==
    /\ req[r].phase = "sent" /\ req[r].kind = "heartbeat"
    /\ IF agent.key = req[r].key /\ agent.status = "active" /\ eligible
       THEN req' = [req EXCEPT ![r].phase = "authed", ![r].seen = agent.status]
       ELSE req' = [req EXCEPT ![r].phase = "answered"]
    /\ UNCHANGED <<eligible, token, agent, issued, grants, runtime>>

\* Mutant: all of the agent that was read is saved, not the named fields.
RecordHeartbeatSavesAll(r) ==
    /\ req[r].phase = "authed"
    /\ agent' = [status |-> IF req[r].seen = "offline" THEN "active" ELSE req[r].seen,
                 key |-> req[r].key]
    /\ req' = [req EXCEPT ![r].phase = "answered"]
    /\ UNCHANGED <<eligible, token, issued, grants, runtime>>

\* record_heartbeat: the status is among the saved fields only when the agent
\* that was read is offline.
RecordHeartbeat(r) ==
    /\ req[r].phase = "authed"
    /\ agent' = IF req[r].seen = "offline" THEN [agent EXCEPT !.status = "active"]
                ELSE agent
    /\ req' = [req EXCEPT ![r].phase = "answered"]
    /\ UNCHANGED <<eligible, token, issued, grants, runtime>>

-----------------------------------------------------------------------------
(* The environment.                                                        *)

\* The request, its handler (which then rolls back) or its response is lost.
Lose(r) ==
    /\ req[r] # Free
    /\ req' = [req EXCEPT ![r] = Free]
    /\ UNCHANGED <<eligible, token, agent, issued, grants, runtime>>

\* AgentRegistrationToken.create_for_server, by the portal or the bootstrap.
IssueToken(t) ==
    /\ token[t] = "none"
    /\ token' = [token EXCEPT ![t] = "fresh"]
    /\ UNCHANGED <<eligible, agent, issued, grants, req, runtime>>

\* It expires, or an administrator or a failed bootstrap revokes it.  A save
\* waits for the lock; the expiry does not, but then the token ends up used.
VoidToken(t) ==
    /\ token[t] = "fresh" /\ ~ Locked
    /\ token' = [token EXCEPT ![t] = "void"]
    /\ UNCHANGED <<eligible, agent, issued, grants, req, runtime>>

\* The admin form of the agent, used to stop it.  (The form could also undo a
\* revocation, and a stale one overwrite any field.)
AdminSetStatus(s) ==
    /\ agent.status \notin {"none", s, "revoked"}
    /\ agent' = [agent EXCEPT !.status = s]
    /\ UNCHANGED <<eligible, token, issued, grants, req, runtime>>

\* An administrator suspends the account, archives the server, or undoes it;
\* the save waits for the lock.
AdminToggleServer ==
    /\ ~ Locked
    /\ eligible' = ~ eligible
    /\ UNCHANGED <<token, agent, issued, grants, req, runtime>>

-----------------------------------------------------------------------------

Handle(r) == RegisterBegin(r) \/ RegisterCommit(r) \/ Authenticate(r) \/ RecordHeartbeat(r)

Next ==
    \/ \E w \in Runtimes, r \in Requests : SendRegister(w, r) \/ SendHeartbeat(w, r)
    \/ \E w \in Runtimes : GiveUp(w) \/ Restart(w)
    \/ \E r \in Requests : Handle(r) \/ Receive(r) \/ Lose(r)
    \/ \E t \in Tokens : IssueToken(t) \/ VoidToken(t)
    \/ \E s \in {"offline", "revoked"} : AdminSetStatus(s)
    \/ AdminToggleServer

Spec == Init /\ [][Next]_vars

-----------------------------------------------------------------------------
(* Properties *)

\* docs/API-CONTRACTS.md: "Registration token is one-time use.", also when the
\* same request is sent again while the first is still being handled, or two
\* installations share a file; and never for a token that is not issued or void.
TokenGrantsOnce ==
    \A t \in Tokens : grants[t] = (IF token[t] = "used" THEN 1 ELSE 0)

\* A revocation stands against whatever the agent already has in flight: only
\* another registration makes the agent active again, and an agent token that
\* was replaced does not come back.
RevocationStands ==
    [][/\ agent.status = "revoked" /\ agent'.status # "revoked" => issued' > issued
       /\ agent'.key >= agent.key]_vars

=============================================================================
