------------------------ MODULE AgentRegistry_proofs ------------------------
(***************************************************************************)
(* Proofs about AgentRegistry, for all registration tokens, installations  *)
(* and requests in flight.                                                 *)
(*                                                                         *)
(* That a registration token is used once depends on what the lock of the  *)
(* server's row keeps apart: while a registration is between its checks    *)
(* and its commit, its token is fresh and it is the only one there is      *)
(* (Exclusion).  That a revocation stands depends on what authentication   *)
(* lets through (Authed).                                                  *)
(*                                                                         *)
(* The second half is about Bootstrap, which installs such an agent, for   *)
(* all runs of a session and all credentials.  CleanOrOwed: whoever ends   *)
(* the session is yet to destroy its credentials, and none is added        *)
(* afterwards.  TokensVoided: a run that has failed has voided its token   *)
(* before it says so.  AgentsKnown: on a server that had no agent, nobody  *)
(* acts as one before a token of a run was exchanged.                      *)
(***************************************************************************)
EXTENDS AgentRegistry, Bootstrap, TLAPS

Exclusion ==
    /\ \A r \in Requests : req[r].phase = "locked" => token[req[r].token] = "fresh"
    /\ \A q, r \in Requests :
          req[q].phase = "locked" /\ req[r].phase = "locked" => q = r

Authed == \A r \in Requests : req[r].phase = "authed" => req[r].seen = "active"

Inv == TypeOK /\ TokenGrantsOnce /\ Exclusion /\ Authed

LEMMA InitInv == Init => Inv
  BY RegistryAssumption
     DEF Init, Inv, TypeOK, TokenGrantsOnce, Exclusion, Authed, AgentStatuses, Key, Free

Runtime == [file : Key, mem : Key, awaits : Requests \cup {NoRequest}]

\* Every step but a registration's commit leaves the keys in use as they are.
LEMMA TypeStep ==
  ASSUME TypeOK, issued' = issued,
         eligible' \in BOOLEAN,
         token' \in [Tokens -> {"none", "fresh", "used", "void"}],
         agent' \in [status : AgentStatuses, key : Key],
         grants' \in [Tokens -> Nat],
         req' \in [Requests -> Request \cup {Free}],
         runtime' \in [Runtimes -> Runtime]
  PROVE  TypeOK'
  BY DEF TypeOK, Request, Key, Runtime

\* A step that changes one request, which does not become locked or authed by
\* it, and neither the tokens nor their grants.
LEMMA RequestStep ==
  ASSUME Inv, NEW r \in Requests, NEW m \in Request \cup {Free},
         req' = [req EXCEPT ![r] = m],
         m.phase \notin {"locked", "authed"},
         UNCHANGED <<eligible, token, issued, grants>>,
         agent' \in [status : AgentStatuses, key : Key],
         runtime' \in [Runtimes -> Runtime]
  PROVE  Inv'
  <1>1. req' \in [Requests -> Request \cup {Free}]
    BY DEF Inv, TypeOK
  <1>2. TypeOK'
    BY <1>1, TypeStep DEF Inv, TypeOK
  <1>3. TokenGrantsOnce' /\ Exclusion' /\ Authed'
    BY DEF Inv, TypeOK, TokenGrantsOnce, Exclusion, Authed
  <1> QED
    BY <1>2, <1>3 DEF Inv

LEMMA SendInv ==
  ASSUME Inv, NEW w \in Runtimes, NEW r \in Requests,
         NEW k \in {"register", "heartbeat"}, Send(w, r, k)
  PROVE  Inv'
  <1> DEFINE m == [phase |-> "sent", kind |-> k, by |-> w, token |-> TokenOf[w],
                   key |-> runtime[w].mem, seen |-> "none"]
  <1>1. m \in Request
    BY RegistryAssumption DEF Inv, TypeOK, Request, AgentStatuses
  <1>2. req' = [req EXCEPT ![r] = m]
    BY DEF Send
  <1>3. runtime' \in [Runtimes -> Runtime]
    BY DEF Send, Inv, TypeOK, Runtime
  <1> QED
    BY <1>1, <1>2, <1>3, RequestStep DEF Send, Inv, TypeOK

LEMMA RuntimeInv ==
  ASSUME Inv, NEW w \in Runtimes, GiveUp(w) \/ Restart(w)
  PROVE  Inv'
  <1>1. runtime' \in [Runtimes -> Runtime]
    BY DEF GiveUp, Restart, Inv, TypeOK, Runtime
  <1>2. UNCHANGED <<eligible, token, agent, issued, grants, req>>
    BY DEF GiveUp, Restart
  <1>3. TypeOK'
    BY <1>1, <1>2, TypeStep DEF Inv, TypeOK
  <1> QED
    BY <1>2, <1>3 DEF Inv, TokenGrantsOnce, Exclusion, Authed

LEMMA HandleInv ==
  ASSUME Inv, NEW r \in Requests, Handle(r)
  PROVE  Inv'
  <1>1. req[r] \in Request /\ req[r] # Free
    BY DEF Handle, RegisterBegin, RegisterCommit, Authenticate, RecordHeartbeat,
           Inv, TypeOK, Free
  <1>2. [req[r] EXCEPT !.phase = "answered"] \in Request
    BY <1>1 DEF Request
  <1>3. runtime \in [Runtimes -> Runtime]
    BY DEF Inv, TypeOK, Runtime
  <1>4. ASSUME req' = [req EXCEPT ![r].phase = "answered"],
               UNCHANGED <<eligible, token, issued, grants, runtime>>,
               agent' \in [status : AgentStatuses, key : Key]
        PROVE  Inv'
    <2>1. req' = [req EXCEPT ![r] = [req[r] EXCEPT !.phase = "answered"]]
      BY <1>4
    <2> QED
      BY <1>1, <1>2, <1>3, <1>4, <2>1, RequestStep DEF Request
  <1>5. CASE RegisterBegin(r)
    <2>1. CASE token[req[r].token] = "fresh" /\ eligible
      <3>1. /\ req' = [req EXCEPT ![r].phase = "locked"]
            /\ ~ Locked
            /\ UNCHANGED <<eligible, token, agent, issued, grants, runtime>>
        BY <1>5, <2>1 DEF RegisterBegin
      <3>2. [req[r] EXCEPT !.phase = "locked"] \in Request
        BY <1>1 DEF Request
      <3>3. req' \in [Requests -> Request \cup {Free}]
        BY <3>1, <3>2 DEF Inv, TypeOK
      <3>4. TypeOK'
        BY <1>3, <3>1, <3>3, TypeStep DEF Inv, TypeOK
      <3>5. Exclusion' /\ Authed'
        BY <1>1, <2>1, <3>1 DEF Locked, Exclusion, Authed, Inv, TypeOK, Request
      <3> QED
        BY <3>1, <3>4, <3>5 DEF Inv, TokenGrantsOnce
    <2>2. CASE ~ (token[req[r].token] = "fresh" /\ eligible)
      BY <1>4, <1>5, <2>2 DEF RegisterBegin, Inv, TypeOK
    <2> QED
      BY <2>1, <2>2
  <1>6. CASE RegisterCommit(r)
    <2> DEFINE t == req[r].token
    <2>1. /\ issued' = issued + 1
          /\ agent' = [status |-> "active", key |-> issued + 1]
          /\ token' = [token EXCEPT ![t] = "used"]
          /\ grants' = [grants EXCEPT ![t] = grants[t] + 1]
          /\ req' = [req EXCEPT ![r] = [req[r] EXCEPT !.phase = "answered",
                                                      !.key = issued + 1]]
          /\ UNCHANGED <<eligible, runtime>>
      BY <1>6 DEF RegisterCommit
    <2>2. /\ req[r].phase = "locked"
          /\ t \in Tokens /\ token[t] = "fresh"
          /\ grants[t] = 0
      BY <1>1, <1>6 DEF RegisterCommit, Inv, Exclusion, TokenGrantsOnce, Request
    <2>3. /\ issued \in Nat /\ issued' \in Nat
          /\ \A n \in Key : n \in 0 .. issued'
          /\ issued + 1 \in 0 .. issued'
      BY <2>1 DEF Inv, TypeOK, Key
    <2>4. Key' = 0 .. issued'
      BY DEF Key
    <2>5. \A m \in Request : m \in Request'
      BY <2>3, <2>4 DEF Request
    <2>6. [req[r] EXCEPT !.phase = "answered", !.key = issued + 1] \in Request'
      BY <1>1, <2>3, <2>4 DEF Request
    <2>7. req' \in [Requests -> Request' \cup {Free}]
      BY <2>1, <2>5, <2>6 DEF Inv, TypeOK
    <2>8. runtime' \in [Runtimes -> [file : Key', mem : Key',
                                     awaits : Requests \cup {NoRequest}]]
      BY <1>3, <2>1, <2>3, <2>4 DEF Runtime
    <2>9. TypeOK'
      BY <2>1, <2>2, <2>3, <2>4, <2>7, <2>8 DEF Inv, TypeOK, AgentStatuses
    <2>10. TokenGrantsOnce'
      BY <2>1, <2>2 DEF Inv, TypeOK, TokenGrantsOnce
    <2>11. Exclusion' /\ Authed'
      BY <2>1, <2>2 DEF Inv, TypeOK, Exclusion, Authed
    <2> QED
      BY <2>9, <2>10, <2>11 DEF Inv
  <1>7. CASE Authenticate(r)
    <2>1. CASE agent.key = req[r].key /\ agent.status = "active" /\ eligible
      <3>1. /\ req' = [req EXCEPT ![r] =
                         [req[r] EXCEPT !.phase = "authed", !.seen = "active"]]
            /\ UNCHANGED <<eligible, token, agent, issued, grants, runtime>>
        BY <1>7, <2>1 DEF Authenticate
      <3>2. [req[r] EXCEPT !.phase = "authed", !.seen = "active"] \in Request
        BY <1>1 DEF Request, AgentStatuses
      <3>3. req' \in [Requests -> Request \cup {Free}]
        BY <3>1, <3>2 DEF Inv, TypeOK
      <3>4. TypeOK'
        BY <1>3, <3>1, <3>3, TypeStep DEF Inv, TypeOK
      <3>5. Exclusion' /\ Authed'
        BY <1>1, <3>1 DEF Exclusion, Authed, Inv, TypeOK, Request
      <3> QED
        BY <3>1, <3>4, <3>5 DEF Inv, TokenGrantsOnce
    <2>2. CASE ~ (agent.key = req[r].key /\ agent.status = "active" /\ eligible)
      BY <1>4, <1>7, <2>2 DEF Authenticate, Inv, TypeOK
    <2> QED
      BY <2>1, <2>2
  <1>8. CASE RecordHeartbeat(r)
    <2>1. agent' \in [status : AgentStatuses, key : Key]
      BY <1>8 DEF RecordHeartbeat, Inv, TypeOK, AgentStatuses
    <2> QED
      BY <1>4, <1>8, <2>1 DEF RecordHeartbeat
  <1> QED
    BY <1>5, <1>6, <1>7, <1>8 DEF Handle

LEMMA NextInv == Inv /\ [Next]_vars => Inv'
  <1> SUFFICES ASSUME Inv, [Next]_vars PROVE Inv'
    OBVIOUS
  <1>1. ASSUME NEW w \in Runtimes, NEW r \in Requests,
               SendRegister(w, r) \/ SendHeartbeat(w, r)
        PROVE  Inv'
    BY <1>1, SendInv DEF SendRegister, SendHeartbeat
  <1>2. ASSUME NEW w \in Runtimes, GiveUp(w) \/ Restart(w)
        PROVE  Inv'
    BY <1>2, RuntimeInv
  <1>3. ASSUME NEW r \in Requests, Handle(r) PROVE Inv'
    BY <1>3, HandleInv
  <1>4. ASSUME NEW r \in Requests, Receive(r) PROVE Inv'
    <2>1. req[r] \in Request
      BY <1>4 DEF Receive, Inv, TypeOK, Free
    <2>2. req[r].key \in Key /\ req[r].by \in Runtimes
      BY <2>1 DEF Request
    <2>3. runtime' \in [Runtimes -> Runtime]
      BY <1>4, <2>2 DEF Receive, Inv, TypeOK, Runtime
    <2>4. Free.phase \notin {"locked", "authed"}
      BY DEF Free
    <2> QED
      BY <1>4, <2>3, <2>4, RequestStep DEF Receive, Inv, TypeOK
  <1>5. ASSUME NEW r \in Requests, Lose(r) PROVE Inv'
    <2>1. runtime' \in [Runtimes -> Runtime]
      BY <1>5 DEF Lose, Inv, TypeOK, Runtime
    <2>2. Free.phase \notin {"locked", "authed"}
      BY DEF Free
    <2> QED
      BY <1>5, <2>1, <2>2, RequestStep DEF Lose, Inv, TypeOK
  <1>6. ASSUME NEW t \in Tokens, IssueToken(t) \/ VoidToken(t) PROVE Inv'
    <2>1. /\ UNCHANGED <<eligible, agent, issued, grants, req, runtime>>
          /\ token' \in [Tokens -> {"none", "fresh", "used", "void"}]
          /\ \A u \in Tokens : token'[u] = "used" <=> token[u] = "used"
      BY <1>6 DEF IssueToken, VoidToken, Inv, TypeOK
    <2>2. TypeOK'
      BY <2>1, TypeStep DEF Inv, TypeOK, Runtime
    <2>3. TokenGrantsOnce'
      BY <2>1 DEF Inv, TokenGrantsOnce
    <2>4. Exclusion'
      BY <1>6 DEF IssueToken, VoidToken, Locked, Inv, TypeOK, Exclusion, Request, Free
    <2> QED
      BY <2>1, <2>2, <2>3, <2>4 DEF Inv, Authed
  <1>7. CASE AdminToggleServer
    <2>1. TypeOK'
      BY <1>7, TypeStep DEF AdminToggleServer, Inv, TypeOK, Runtime
    <2> QED
      BY <1>7, <2>1 DEF AdminToggleServer, Inv, TokenGrantsOnce, Exclusion, Authed
  <1>8. ASSUME NEW s \in {"offline", "revoked"}, AdminSetStatus(s) PROVE Inv'
    <2>1. agent' \in [status : AgentStatuses, key : Key]
      BY <1>8 DEF AdminSetStatus, Inv, TypeOK, AgentStatuses
    <2>2. TypeOK'
      BY <1>8, <2>1, TypeStep DEF AdminSetStatus, Inv, TypeOK, Runtime
    <2> QED
      BY <1>8, <2>2 DEF AdminSetStatus, Inv, TokenGrantsOnce, Exclusion, Authed
  <1>9. CASE UNCHANGED vars
    BY <1>9 DEF vars, Inv, TypeOK, TokenGrantsOnce, Exclusion, Authed, Request, Key
  <1> QED
    BY <1>1, <1>2, <1>3, <1>4, <1>5, <1>6, <1>7, <1>8, <1>9 DEF Next

LEMMA Invariance == Spec => []Inv
  BY InitInv, NextInv, PTL DEF Spec

\* Type correctness (TypeOK), for all tokens, installations and requests.
THEOREM TypeCorrect == Spec => []TypeOK
  <1>1. Inv => TypeOK
    BY DEF Inv
  <1> QED
    BY <1>1, Invariance, PTL

\* A registration token is exchanged at most once (TokenGrantsOnce).
THEOREM TokenGrantsOnceHolds == Spec => []TokenGrantsOnce
  <1>1. Inv => TokenGrantsOnce
    BY DEF Inv
  <1> QED
    BY <1>1, Invariance, PTL

\* No heartbeat undoes a revocation or brings back a replaced agent token
\* (RevocationStands).
THEOREM RevocationStandsHolds == Spec => RevocationStands
  <1> DEFINE Stands ==
        /\ agent.status = "revoked" /\ agent'.status # "revoked" => issued' > issued
        /\ agent'.key >= agent.key
  <1>1. ASSUME Inv, [Next]_vars PROVE Stands \/ UNCHANGED vars
    <2>1. agent.key \in Nat /\ issued \in Nat /\ agent.key <= issued
      BY <1>1 DEF Inv, TypeOK, Key
    <2>2. CASE UNCHANGED agent
      BY <2>1, <2>2
    <2>3. ASSUME NEW r \in Requests, RegisterCommit(r) PROVE Stands
      BY <2>1, <2>3 DEF RegisterCommit
    <2>4. ASSUME NEW r \in Requests, RecordHeartbeat(r) PROVE UNCHANGED agent
      BY <1>1, <2>4 DEF RecordHeartbeat, Inv, Authed
    <2>5. ASSUME NEW s \in {"offline", "revoked"}, AdminSetStatus(s) PROVE Stands
      <3>1. agent'.key = agent.key /\ agent.status # "revoked"
        BY <1>1, <2>5 DEF AdminSetStatus, Inv, TypeOK
      <3> QED
        BY <2>1, <3>1
    <2> QED
      BY <1>1, <2>2, <2>3, <2>4, <2>5
         DEF Next, Handle, SendRegister, SendHeartbeat, Send, GiveUp,
             Restart, RegisterBegin, Authenticate, Receive, Lose, IssueToken,
             VoidToken, AdminToggleServer
  <1>2. Inv /\ [Next]_vars => [Stands]_vars
    BY <1>1
  <1> HIDE DEF Stands
  <1>3. Spec => [][Stands]_vars
    BY <1>2, Invariance, PTL DEF Spec
  <1> QED
    BY <1>3 DEF RevocationStands, Stands

-----------------------------------------------------------------------------
(* Bootstrap: the invariant.                                               *)

\* A command is one of the plan's.
CommandsPlanned ==
    \A r \in Runs : run[r].stage = "executing" => run[r].at \in 1 .. 5

\* The stages that follow the revocation of the run's token.
TokensVoided ==
    \A r \in Runs :
        run[r].stage \in {"revoked", "closed", "left", "failed"} => runToken[r] # "fresh"

HeartbeatsHeard ==
    /\ \A r \in Runs : run[r].stage \in {"verified", "installed"} => seen # {}
    /\ "installed" \in installations => seen # {}

\* The server had an agent before, or a runtime has registered.
Known == host.old \/ \E r \in Runs : runToken[r] = "used"

\* Whoever acts as an agent, now or after a restart, is one that is known, and so
\* is whoever has been heard of.
AgentsKnown ==
    /\ host.agent \/ host.stored => Known
    /\ seen # {} => Known

Clean == \A c \in Credentials : credential[c] \in {"absent", "destroyed"}

\* A run that is yet to destroy the credentials, or died before it could.
Owes(r) == run[r].stage \in {"cleaning", "closed", "dead"}

CleanOrOwed ==
    session.status \in {"completed", "failed"} => Clean \/ \E r \in Runs : Owes(r)

BootstrapInv == /\ BootstrapTypeOK
                /\ CommandsPlanned
                /\ TokensVoided
                /\ HeartbeatsHeard
                /\ AgentsKnown
                /\ CleanOrOwed

LEMMA PlanHasFive == Len(Plan) = 5
  BY DEF Plan

LEMMA BootstrapInitInv == BootstrapInit => BootstrapInv
  <1> SUFFICES ASSUME BootstrapInit PROVE BootstrapInv
    OBVIOUS
  <1>1. PICK confirmed \in BOOLEAN :
          session = [status |-> "pending", confirmed |-> confirmed, started |-> Nothing]
    BY DEF BootstrapInit
  <1>2. session \in [status : Statuses, confirmed : BOOLEAN,
                     started : Runs \cup {Nothing}]
    BY <1>1 DEF Statuses
  <1>3. [stage |-> "idle", at |-> 1, since |-> Nothing,
         confirmed |-> FALSE, expired |-> FALSE] \in Run
    BY PlanHasFive DEF Run, Stages
  <1>4. PICK old \in BOOLEAN :
          host = [uploaded |-> Nothing, file |-> Nothing, stored |-> old,
                  running |-> old, mem |-> Nothing, agent |-> old, old |-> old]
    BY DEF BootstrapInit
  <1>5. host \in Host
    BY <1>4 DEF Host
  <1>6. BootstrapTypeOK
    BY <1>2, <1>3, <1>5 DEF BootstrapInit, BootstrapTypeOK
  <1>7. \A r \in Runs : run[r].stage = "idle"
    BY DEF BootstrapInit
  <1>8. session.status = "pending" /\ installations = {}
    BY <1>1 DEF BootstrapInit
  <1>9. AgentsKnown
    BY <1>4 DEF BootstrapInit, AgentsKnown, Known
  <1> QED
    BY <1>6, <1>7, <1>8, <1>9 DEF BootstrapInv, CommandsPlanned, TokensVoided,
         HeartbeatsHeard, CleanOrOwed

\* A step after which no other host acts as an agent.
HostSteady ==
    /\ host' \in Host /\ host'.old = host.old
    /\ host'.agent \/ host'.stored => host.agent \/ host.stored

\* The steps of a run by what they have in common.
LEMMA RunMoves ==
  ASSUME BootstrapInv, NEW r \in Runs, NEW next \in Run,
         run' = [run EXCEPT ![r] = next],
         session' \in [status : Statuses, confirmed : BOOLEAN,
                       started : Runs \cup {Nothing}],
         credential' \in [Credentials
                            -> {"absent", "usable", "late", "destroyed"}],
         runToken' \in [Runs -> {"none", "fresh", "used", "void"}],
         installations' \subseteq {"installed", "failed"},
         HostSteady, UNCHANGED <<janitor, seen>>,
         next.stage = "executing" => next.at \in 1 .. 5,
         next.stage \in {"revoked", "closed", "left", "failed"} =>
            runToken'[r] # "fresh",
         \A q \in Runs \ {r} : runToken'[q] = runToken[q],
         runToken[r] = "used" => runToken'[r] = "used",
         next.stage \in {"verified", "installed"} => seen # {},
         "installed" \in installations' => seen # {},
         \/ next.stage \in {"cleaning", "closed", "dead"}
         \/ Clean'
         \/ session'.status \notin {"completed", "failed"}
         \/ session'.status = session.status /\ credential' = credential /\ ~ Owes(r)
  PROVE  BootstrapInv'
  <1> USE DEF BootstrapInv
  <1>1. run' \in [Runs -> Run]
    BY DEF BootstrapTypeOK
  <1>2. run'[r] = next /\ \A q \in Runs \ {r} : run'[q] = run[q]
    BY DEF BootstrapTypeOK
  <1>3. BootstrapTypeOK'
    BY <1>1 DEF BootstrapTypeOK, HostSteady
  <1>4. CommandsPlanned' /\ TokensVoided' /\ HeartbeatsHeard'
    BY <1>2 DEF CommandsPlanned, TokensVoided, HeartbeatsHeard
  <1>6. AgentsKnown'
    <2>1. Known => Known'
      BY DEF Known, HostSteady
    <2> QED
      BY <2>1 DEF AgentsKnown, HostSteady
  <1>5. CleanOrOwed'
    <2>1. CASE next.stage \in {"cleaning", "closed", "dead"}
      BY <1>2, <2>1 DEF CleanOrOwed, Owes
    <2>2. CASE Clean' \/ session'.status \notin {"completed", "failed"}
      BY <2>2 DEF CleanOrOwed
    <2>3. CASE session'.status = session.status /\ credential' = credential /\ ~ Owes(r)
      BY <1>2, <2>3 DEF CleanOrOwed, Clean, Owes
    <2> QED
      BY <2>1, <2>2, <2>3
  <1> QED
    BY <1>3, <1>4, <1>5, <1>6

\* The fields of a run.
LEMMA RunFields ==
  ASSUME BootstrapInv, NEW r \in Runs
  PROVE  \E stage \in Stages, at \in 1 .. 6, since \in Runs \cup {Nothing},
            confirmed \in BOOLEAN, expired \in BOOLEAN :
            run[r] = [stage |-> stage, at |-> at, since |-> since,
                      confirmed |-> confirmed, expired |-> expired]
  <1>1. run[r] \in Run
    BY DEF BootstrapInv, BootstrapTypeOK
  <1> QED
    BY <1>1, PlanHasFive DEF Run

LEMMA RunRow ==
  ASSUME NEW stage \in Stages,
         NEW at \in 1 .. 6, NEW since \in Runs \cup {Nothing},
         NEW confirmed \in BOOLEAN, NEW expired \in BOOLEAN
  PROVE  [stage |-> stage, at |-> at, since |-> since, confirmed |-> confirmed,
          expired |-> expired] \in Run
  BY PlanHasFive DEF Run

LEMMA MovesTo ==
  ASSUME BootstrapInv, NEW r \in Runs, NEW from, NEW to \in Stages,
         Moves(r, from, to)
  PROVE  \E next \in Run :
            /\ run' = [run EXCEPT ![r] = next]
            /\ next.stage = to /\ next.at = run[r].at
  <1>1. PICK stage \in Stages, at \in 1 .. 6, since \in Runs \cup {Nothing},
             confirmed \in BOOLEAN, expired \in BOOLEAN :
               run[r] = [stage |-> stage, at |-> at, since |-> since,
                         confirmed |-> confirmed, expired |-> expired]
    BY RunFields
  <1>2. PICK next : next = [stage |-> to, at |-> at, since |-> since,
                            confirmed |-> confirmed, expired |-> expired]
    OBVIOUS
  <1>3. next \in Run
    BY <1>2, RunRow
  <1>4. next.stage = to /\ next.at = run[r].at
    BY <1>1, <1>2
  <1>5. [run[r] EXCEPT !.stage = to] = next
    BY <1>1, <1>2
  <1>6. run' = [run EXCEPT ![r] = next]
    BY <1>5, Zenon DEF Moves
  <1> QED
    BY <1>3, <1>4, <1>6

LEMMA LeavesTo ==
  ASSUME BootstrapInv, NEW r \in Runs, NEW from, NEW to \in Stages,
         Leaves(r, from, to)
  PROVE  \E next \in Run :
            run' = [run EXCEPT ![r] = next] /\ next.stage = to
  <1>1. PICK none \in BOOLEAN, still \in BOOLEAN :
             none = FALSE /\ still = (to # "dead" /\ run[r].expired)
    OBVIOUS
  <1>0. run[r].since \in Runs \cup {Nothing}
    BY DEF BootstrapInv, BootstrapTypeOK, Run
  <1>2. PICK since \in Runs \cup {Nothing} : since = run[r].since
    BY <1>0
  <1>3. PICK next : next = [stage |-> to, at |-> 1, since |-> since,
                            confirmed |-> none, expired |-> still]
    OBVIOUS
  <1>4. next \in Run /\ next.stage = to
    BY <1>3, RunRow
  <1>5. run' = [run EXCEPT ![r] = next]
    BY <1>1, <1>2, <1>3, Zenon DEF Leaves
  <1> QED
    BY <1>4, <1>5

LEMMA SessionRow ==
  ASSUME BootstrapInv, NEW status \in Statuses
  PROVE  [session EXCEPT !.status = status]
            \in [status : Statuses, confirmed : BOOLEAN,
                started : Runs \cup {Nothing}]
  <1>1. session \in [status : Statuses, confirmed : BOOLEAN,
                     started : Runs \cup {Nothing}]
    BY DEF BootstrapInv, BootstrapTypeOK
  <1> QED
    BY <1>1

\* Steps that only end a part of the run, which may be the whole.
LEMMA Passes ==
  ASSUME BootstrapInv, NEW r \in Runs, NEW next \in Run,
         run' = [run EXCEPT ![r] = next],
         next.stage \in {"read", "refused", "connecting", "deployed", "failing",
                        "verifying", "dead"}
            \/ (next.stage = "ready" /\ next.at \in 1 .. 6)
            \/ (next.stage = "executing" /\ next.at \in 1 .. 5)
            \/ (next.stage = "verified" /\ seen # {}),
         next.stage # "dead" => ~ Owes(r),
         \/ UNCHANGED session
         \/ \E status \in Statuses \ {"completed", "failed"} :
               session' = [session EXCEPT !.status = status],
         HostSteady,
         UNCHANGED <<credential, janitor, runToken, installations, seen>>
  PROVE  BootstrapInv'
  <1>1. /\ session' \in [status : Statuses, confirmed : BOOLEAN,
                          started : Runs \cup {Nothing}]
        /\ \/ session'.status = session.status
           \/ session'.status \notin {"completed", "failed"}
    <2>1. CASE UNCHANGED session
      BY <2>1 DEF BootstrapInv, BootstrapTypeOK
    <2>2. ASSUME NEW status \in Statuses \ {"completed", "failed"},
                 session' = [session EXCEPT !.status = status]
          PROVE  /\ session' \in [status : Statuses, confirmed : BOOLEAN,
                                   started : Runs \cup {Nothing}]
                 /\ session'.status = status
      BY <2>2, SessionRow DEF BootstrapInv, BootstrapTypeOK
    <2> QED
      BY <2>1, <2>2
  <1>2. /\ credential' \in [Credentials
                              -> {"absent", "usable", "late", "destroyed"}]
        /\ runToken' \in [Runs -> {"none", "fresh", "used", "void"}]
        /\ installations' \subseteq {"installed", "failed"}
        /\ UNCHANGED <<janitor, seen>>
        /\ \A q \in Runs \ {r} : runToken'[q] = runToken[q]
    BY DEF BootstrapInv, BootstrapTypeOK
  <1>3. "installed" \in installations' => seen # {}
    BY DEF BootstrapInv, HeartbeatsHeard
  <1> QED
    BY <1>1, <1>2, <1>3, RunMoves

LEMMA HostKept ==
  ASSUME BootstrapInv, UNCHANGED host
  PROVE  HostSteady
  BY DEF HostSteady, BootstrapInv, BootstrapTypeOK

LEMMA ReadInv ==
  ASSUME BootstrapInv, NEW r \in Runs, Read(r)
  PROVE  BootstrapInv'
  <1>1. PICK confirmed \in BOOLEAN, started \in Runs \cup {Nothing} :
             confirmed = session.confirmed /\ started = session.started
    BY DEF BootstrapInv, BootstrapTypeOK
  <1>2. run[r] \in Run /\ "read" \in Stages
    BY DEF BootstrapInv, BootstrapTypeOK, Stages
  <1>3. PICK next : next = [run[r] EXCEPT !.stage = "read", !.since = started,
                                          !.confirmed = confirmed]
    OBVIOUS
  <1>4. next \in Run
    BY <1>2, <1>3 DEF Run
  <1>5. next.stage = "read"
    BY <1>2, <1>3 DEF Run
  <1>6. run' = [run EXCEPT ![r] = next]
    BY <1>1, <1>3, Zenon DEF Read
  <1>7. run[r].stage = "idle" /\ UNCHANGED <<session, credential, janitor, runToken,
                                            installations, host, seen>>
    BY DEF Read
  <1> QED
    BY <1>4, <1>5, <1>6, <1>7, HostKept, Passes DEF Owes

\* The steps before the plan, and those that leave a stage for the next one.
LEMMA PlainInv ==
  ASSUME BootstrapInv, NEW r \in Runs,
         \/ AwaitConfirmation(r) \/ UseCredential(r)
         \/ Upload(r) \/ StepStarts(r) \/ SeeHeartbeat(r)
         \/ Verify(r) \/ VerifyTimesOut(r)
         \/ Raises(r) \/ Dies(r)
  PROVE  BootstrapInv'
  <1> USE DEF Owes
  <1>0. host \in Host /\ run[r].at \in 1 .. 6
    BY PlanHasFive DEF BootstrapInv, BootstrapTypeOK, Run
  <1>s. {"refused", "connecting", "deployed", "executing", "verified", "verifying", "failing",
         "dead"} \subseteq Stages
    BY DEF Stages
  <1>1. CASE AwaitConfirmation(r)
    <2>1. PICK next \in Run : run' = [run EXCEPT ![r] = next]
                                        /\ next.stage = "refused"
      BY <1>1, <1>s, MovesTo DEF AwaitConfirmation
    <2>2. /\ run[r].stage = "read"
          /\ session' = [session EXCEPT !.status = "awaiting_package_confirmation"]
          /\ UNCHANGED <<credential, janitor, runToken, installations, host, seen>>
      BY <1>1 DEF AwaitConfirmation, Moves
    <2>3. "awaiting_package_confirmation"
             \in Statuses \ {"completed", "failed"}
      BY DEF Statuses
    <2> QED
      BY <2>1, <2>2, <2>3, HostKept, Passes
  <1>2. CASE UseCredential(r)
    <2>1. PICK next \in Run : run' = [run EXCEPT ![r] = next]
                                        /\ next.stage = "connecting"
      BY <1>2, <1>s, LeavesTo DEF UseCredential
    <2>2. /\ run[r].stage = "read" /\ UNCHANGED session
          /\ UNCHANGED <<credential, janitor, runToken, installations, host, seen>>
      BY <1>2 DEF UseCredential, Leaves
    <2> QED
      BY <2>1, <2>2, HostKept, Passes
  <1>9. CASE Upload(r)
    <2>1. PICK next \in Run : run' = [run EXCEPT ![r] = next]
                                        /\ next.stage = "deployed"
      BY <1>9, <1>s, MovesTo DEF Upload
    <2>2. /\ run[r].stage = "ready" /\ UNCHANGED session
          /\ UNCHANGED <<credential, janitor, runToken, installations, seen>>
      BY <1>9 DEF Upload, Moves
    <2>3. HostSteady
      BY <1>0, <1>9 DEF Upload, Host, HostSteady
    <2> QED
      BY <2>1, <2>2, <2>3, Passes
  <1>3. CASE StepStarts(r)
    <2>1. PICK next \in Run :
             run' = [run EXCEPT ![r] = next]
             /\ next.stage = "executing" /\ next.at = run[r].at
      BY <1>3, <1>s, MovesTo DEF StepStarts
    <2>2. run[r].at \in 1 .. 5
      BY <1>0, <1>3, PlanHasFive DEF StepStarts
    <2>3. /\ run[r].stage \in {"ready", "deployed"}
          /\ session' = [session EXCEPT !.status = Plan[run[r].at].status]
          /\ UNCHANGED <<credential, janitor, runToken, installations, host, seen>>
      BY <1>3 DEF StepStarts, Moves
    <2>4. Plan[run[r].at].status
             \in Statuses \ {"completed", "failed"}
      BY <2>2 DEF Plan, Statuses
    <2> QED
      BY <2>1, <2>2, <2>3, <2>4, HostKept, Passes
  <1>4. CASE SeeHeartbeat(r)
    <2>1. PICK next \in Run : run' = [run EXCEPT ![r] = next]
                                        /\ next.stage = "verified"
      BY <1>4, <1>s, MovesTo DEF SeeHeartbeat
    <2>2. /\ run[r].stage = "verifying" /\ UNCHANGED session /\ seen # {}
          /\ UNCHANGED <<credential, janitor, runToken, installations, host, seen>>
      BY <1>4 DEF SeeHeartbeat, HeartbeatSeen, Moves
    <2> QED
      BY <2>1, <2>2, HostKept, Passes
  <1>5. CASE Verify(r)
    <2>1. PICK next \in Run : run' = [run EXCEPT ![r] = next]
                                        /\ next.stage = "verifying"
      BY <1>5, <1>s, LeavesTo DEF Verify
    <2>2. /\ run[r].stage = "ready"
          /\ session' = [session EXCEPT !.status = "verifying_heartbeat"]
          /\ UNCHANGED <<credential, janitor, runToken, installations, host, seen>>
      BY <1>5 DEF Verify, Leaves
    <2>3. "verifying_heartbeat" \in Statuses \ {"completed", "failed"}
      BY DEF Statuses
    <2> QED
      BY <2>1, <2>2, <2>3, HostKept, Passes
  <1>6. CASE VerifyTimesOut(r)
    <2>1. PICK next \in Run : run' = [run EXCEPT ![r] = next]
                                        /\ next.stage = "failing"
      BY <1>6, <1>s, MovesTo DEF VerifyTimesOut
    <2>2. /\ run[r].stage = "verifying" /\ UNCHANGED session
          /\ UNCHANGED <<credential, janitor, runToken, installations, host, seen>>
      BY <1>6 DEF VerifyTimesOut, Moves
    <2> QED
      BY <2>1, <2>2, HostKept, Passes
  <1>7. CASE Raises(r)
    <2>1. PICK next \in Run : run' = [run EXCEPT ![r] = next]
                                        /\ next.stage = "failing"
      BY <1>7, <1>s, LeavesTo DEF Raises
    <2>2. /\ run[r].stage \in {"connecting", "ready", "deployed", "verifying",
                              "verified", "installed"}
          /\ UNCHANGED session
          /\ UNCHANGED <<credential, janitor, runToken, installations, host, seen>>
      BY <1>7 DEF Raises, Leaves
    <2> QED
      BY <2>1, <2>2, HostKept, Passes
  <1>8. CASE Dies(r)
    <2>1. PICK next \in Run : run' = [run EXCEPT ![r] = next]
                                        /\ next.stage = "dead"
      BY <1>8, <1>s, LeavesTo DEF Dies
    <2>2. /\ UNCHANGED session
          /\ UNCHANGED <<credential, janitor, runToken, installations, host, seen>>
      BY <1>8 DEF Dies
    <2> QED
      BY <2>1, <2>2, HostKept, Passes
  <1> QED
    BY <1>1, <1>2, <1>3, <1>4, <1>5, <1>6, <1>7, <1>8, <1>9

LEMMA ConnectInv ==
  ASSUME BootstrapInv, NEW r \in Runs, Connect(r)
  PROVE  BootstrapInv'
  <1>1. run[r] \in Run /\ "ready" \in Stages
        /\ "connecting" \in Statuses \ {"completed", "failed"}
    BY DEF BootstrapInv, BootstrapTypeOK, Stages, Statuses
  <1>2. run[r].since \in Runs \cup {Nothing}
    BY <1>1 DEF Run
  <1>3. PICK since \in Runs \cup {Nothing} :
          since = IF run[r].since = Nothing THEN r ELSE run[r].since
    BY <1>2
  <1>4. PICK next : next = [run[r] EXCEPT !.stage = "ready", !.since = since]
    OBVIOUS
  <1>5. next \in Run
    BY <1>1, <1>4 DEF Run
  <1>6. next.stage = "ready" /\ next.at \in 1 .. 6
    BY <1>1, <1>4, PlanHasFive DEF Run
  <1>7. run' = [run EXCEPT ![r] = next]
    BY <1>3, <1>4 DEF Connect
  <1>8. /\ run[r].stage = "connecting"
        /\ UNCHANGED <<credential, janitor, runToken, installations, host, seen>>
    BY DEF Connect
  <1>9. PICK started \in Runs \cup {Nothing} :
          session' = [session EXCEPT !.status = "connecting", !.started = started]
    <2>1. session.started \in Runs \cup {Nothing}
      BY DEF BootstrapInv, BootstrapTypeOK
    <2> QED
      BY <2>1 DEF Connect
  <1>10. session' \in [status : Statuses, confirmed : BOOLEAN,
                       started : Runs \cup {Nothing}]
         /\ session'.status = "connecting"
    BY <1>1, <1>9 DEF BootstrapInv, BootstrapTypeOK
  <1>11. /\ credential' \in [Credentials
                              -> {"absent", "usable", "late", "destroyed"}]
         /\ runToken' \in [Runs -> {"none", "fresh", "used", "void"}]
         /\ installations' \subseteq {"installed", "failed"}
    BY <1>8 DEF BootstrapInv, BootstrapTypeOK
  <1>12. "installed" \in installations' => seen # {}
    BY <1>8 DEF BootstrapInv, HeartbeatsHeard
  <1> QED
    BY <1>5, <1>6, <1>7, <1>8, <1>10, <1>11, <1>12, HostKept, RunMoves

\* What a command does to the host keeps its type and makes no new agent.
LEMMA HostAfterType ==
  ASSUME BootstrapInv, NEW r \in Runs, host' = HostAfter(r)
  PROVE  HostSteady
  <1>1. host \in Host
    BY DEF BootstrapInv, BootstrapTypeOK
  <1>2. PICK none \in BOOLEAN, full \in BOOLEAN : none = FALSE /\ full = TRUE
    OBVIOUS
  <1>7. PICK moved \in Runs \cup {Nothing} : moved = host.uploaded
    BY <1>1 DEF Host
  <1>8. PICK left \in Runs \cup {Nothing} : left = Nothing
    OBVIOUS
  <1>3. ASSUME host' = [host EXCEPT !.file = moved, !.uploaded = left, !.stored = none]
        PROVE  HostSteady
    BY <1>1, <1>2, <1>3 DEF Host, HostSteady
  <1>4. PICK stored \in BOOLEAN, file \in Runs \cup {Nothing} :
          stored = host.stored /\ file = host.file
    BY <1>1 DEF Host
  <1>5. ASSUME host' = [host EXCEPT !.running = full, !.mem = file, !.agent = stored]
        PROVE  HostSteady
    BY <1>1, <1>4, <1>5 DEF Host, HostSteady
  <1>6. \/ HostAfter(r)
              = [host EXCEPT !.file = moved, !.uploaded = left, !.stored = none]
        \/ HostAfter(r)
              = [host EXCEPT !.running = full, !.mem = file, !.agent = stored]
        \/ HostAfter(r) = host
    BY <1>2, <1>4, <1>7, <1>8, Zenon DEF HostAfter
  <1> QED
    BY <1>3, <1>5, <1>6, HostKept

LEMMA CommandInv ==
  ASSUME BootstrapInv, NEW r \in Runs,
         StepSucceeds(r) \/ StepFails(r)
  PROVE  BootstrapInv'
  <1>0. run[r] \in Run /\ host \in Host
        /\ {"ready", "failing"} \subseteq Stages
    BY DEF BootstrapInv, BootstrapTypeOK, Stages
  <1>1. CASE StepSucceeds(r)
    <2>1. run[r].stage = "executing" /\ HostSteady
          /\ UNCHANGED <<session, credential, janitor, runToken, installations, seen>>
      BY <1>1, HostAfterType DEF StepSucceeds
    <2>2. run[r].at \in 1 .. 5
      BY <2>1 DEF BootstrapInv, CommandsPlanned
    <2>3. PICK at \in 1 .. 6 : at = run[r].at + 1
      BY <2>2
    <2>4. PICK next : next = [run[r] EXCEPT !.stage = "ready", !.at = at]
      OBVIOUS
    <2>5. at \in 1 .. Len(Plan) + 1
      BY PlanHasFive
    <2>7. next \in Run /\ next.stage = "ready" /\ next.at = at
      BY <1>0, <2>4, <2>5 DEF Run
    <2>6. run' = [run EXCEPT ![r] = next]
      BY <1>1, <2>3, <2>4 DEF StepSucceeds
    <2> QED
      BY <2>1, <2>3, <2>6, <2>7, Passes DEF Owes
  <1>2. CASE StepFails(r)
    <2>1. PICK next \in Run : run' = [run EXCEPT ![r] = next]
                                        /\ next.stage = "failing"
      BY <1>0, <1>2, LeavesTo DEF StepFails
    <2>2. /\ run[r].stage = "executing" /\ HostSteady
          /\ UNCHANGED <<session, credential, janitor, runToken, installations, seen>>
      BY <1>2, HostAfterType, HostKept DEF StepFails, Leaves
    <2> QED
      BY <2>1, <2>2, Passes DEF Owes
  <1> QED
    BY <1>1, <1>2

\* What is clean after a step that destroys the credentials.
LEMMA DestroyedClean ==
  ASSUME BootstrapInv, credential' = Destroyed
  PROVE  /\ credential' \in [Credentials
                              -> {"absent", "usable", "late", "destroyed"}]
         /\ Clean'
  BY DEF Destroyed, Clean, BootstrapInv, BootstrapTypeOK, Credentials

\* The types of what a step does not write.
LEMMA KeptTypes ==
  ASSUME BootstrapInv
  PROVE  /\ session \in [status : Statuses, confirmed : BOOLEAN,
                         started : Runs \cup {Nothing}]
         /\ credential \in [Credentials
                              -> {"absent", "usable", "late", "destroyed"}]
         /\ runToken \in [Runs -> {"none", "fresh", "used", "void"}]
         /\ installations \subseteq {"installed", "failed"}
         /\ host \in Host
         /\ "installed" \in installations => seen # {}
  BY DEF BootstrapInv, BootstrapTypeOK, HeartbeatsHeard

\* The steps that end a run with the installation.
LEMMA InstalledInv ==
  ASSUME BootstrapInv, NEW r \in Runs,
         \/ RecordInstallation(r) \/ Complete(r)
         \/ CleanUp(r)
  PROVE  BootstrapInv'
  <1> USE KeptTypes
  <1>s. {"installed", "cleaning", "completed"} \subseteq Stages
        /\ "completed" \in Statuses
    BY DEF Stages, Statuses, Terminal
  <1>1. CASE RecordInstallation(r)
    <2>1. PICK next \in Run : run' = [run EXCEPT ![r] = next]
                                        /\ next.stage = "installed"
      BY <1>1, <1>s, MovesTo DEF RecordInstallation
    <2>2. /\ run[r].stage = "verified" /\ installations' = installations \cup {"installed"}
          /\ UNCHANGED <<session, credential, janitor, runToken, host, seen>>
      BY <1>1 DEF RecordInstallation, Moves
    <2>3. seen # {}
      BY <2>2 DEF BootstrapInv, HeartbeatsHeard
    <2> QED
      BY <2>1, <2>2, <2>3, HostKept, RunMoves DEF Owes
  <1>2. CASE Complete(r)
    <2>1. PICK next \in Run : run' = [run EXCEPT ![r] = next]
                                        /\ next.stage = "cleaning"
      BY <1>2, <1>s, MovesTo DEF Complete
    <2>2. /\ session' = [session EXCEPT !.status = "completed"]
          /\ UNCHANGED <<credential, janitor, runToken, installations, host, seen>>
      BY <1>2 DEF Complete
    <2>3. session' \in [status : Statuses, confirmed : BOOLEAN,
                        started : Runs \cup {Nothing}]
      BY <1>s, <2>2, SessionRow
    <2> QED
      BY <2>1, <2>2, <2>3, HostKept, RunMoves
  <1>3. CASE CleanUp(r)
    <2>1. PICK next \in Run : run' = [run EXCEPT ![r] = next]
                                        /\ next.stage = "completed"
      BY <1>3, <1>s, MovesTo DEF CleanUp
    <2>2. /\ credential' = Destroyed
          /\ UNCHANGED <<session, janitor, runToken, installations, host, seen>>
      BY <1>3 DEF CleanUp
    <2> QED
      BY <2>1, <2>2, DestroyedClean, HostKept, RunMoves
  <1> QED
    BY <1>1, <1>2, <1>3

\* The steps after an exception.
LEMMA FailedInv ==
  ASSUME BootstrapInv, NEW r \in Runs,
         \/ RefuseCredential(r) \/ DestroyRefused(r)
         \/ Revoke(r) \/ Fail(r)
         \/ CleanUpFailed(r) \/ RecordFailure(r)
  PROVE  BootstrapInv'
  <1> USE KeptTypes
  <1>s. /\ {"expiring", "failing", "revoked", "closed", "left", "failed"}
              \subseteq Stages
        /\ {"failed", "expired"} \subseteq Statuses
    BY DEF Stages, Statuses, Terminal
  <1>r. run[r] \in Run
    BY DEF BootstrapInv, BootstrapTypeOK
  <1>b. PICK none \in BOOLEAN, full \in BOOLEAN : none = FALSE /\ full = TRUE
    OBVIOUS
  <1>v. run[r].stage \in {"revoked", "closed", "left"} => runToken[r] # "fresh"
    BY DEF BootstrapInv, TokensVoided
  <1>1. CASE RefuseCredential(r)
    <2>1. PICK next : next = [run[r] EXCEPT !.stage = "expiring", !.confirmed = none,
                                            !.expired = full]
      OBVIOUS
    <2>2. next \in Run /\ next.stage = "expiring"
      BY <1>r, <1>s, <2>1 DEF Run
    <2>3. run' = [run EXCEPT ![r] = next]
      BY <1>1, <1>b, <2>1, Zenon DEF RefuseCredential
    <2>4. /\ session' = [session EXCEPT !.status = "expired"]
          /\ UNCHANGED <<credential, janitor, runToken, installations, host, seen>>
      BY <1>1 DEF RefuseCredential
    <2>5. session' \in [status : Statuses, confirmed : BOOLEAN,
                        started : Runs \cup {Nothing}]
          /\ session'.status = "expired"
      BY <1>s, <2>4, SessionRow
    <2> QED
      BY <2>2, <2>3, <2>4, <2>5, HostKept, RunMoves
  <1>2. CASE DestroyRefused(r)
    <2>1. PICK next \in Run : run' = [run EXCEPT ![r] = next]
                                        /\ next.stage = "failing"
      BY <1>2, <1>s, MovesTo DEF DestroyRefused
    <2>2. /\ credential' = Destroyed
          /\ UNCHANGED <<session, janitor, runToken, installations, host, seen>>
      BY <1>2 DEF DestroyRefused
    <2> QED
      BY <2>1, <2>2, DestroyedClean, HostKept, RunMoves
  <1>3. CASE Revoke(r)
    <2>1. PICK next \in Run : run' = [run EXCEPT ![r] = next]
                                        /\ next.stage = "revoked"
      BY <1>3, <1>s, MovesTo DEF Revoke
    <2>2. /\ run[r].stage = "failing"
          /\ runToken' = [runToken EXCEPT ![r] = IF @ = "fresh" THEN "void" ELSE @]
          /\ UNCHANGED <<session, credential, janitor, installations, host, seen>>
      BY <1>3 DEF Revoke, Moves
    <2>3. /\ runToken' \in [Runs -> {"none", "fresh", "used", "void"}]
          /\ runToken'[r] # "fresh"
          /\ \A q \in Runs \ {r} : runToken'[q] = runToken[q]
          /\ runToken[r] = "used" => runToken'[r] = "used"
      BY <2>2
    <2> QED
      BY <2>1, <2>2, <2>3, HostKept, RunMoves DEF Owes
  <1>4. CASE Fail(r)
    <2>1. PICK next : next = [run[r] EXCEPT !.stage = "closed", !.expired = none]
      OBVIOUS
    <2>2. next \in Run /\ next.stage = "closed"
      BY <1>r, <1>s, <2>1 DEF Run
    <2>3. run' = [run EXCEPT ![r] = next]
      BY <1>4, <1>b, <2>1, Zenon DEF Fail
    <2>4. /\ run[r].stage = "revoked"
          /\ session' = [session EXCEPT !.status = IF run[r].expired THEN @ ELSE "failed"]
          /\ UNCHANGED <<credential, janitor, runToken, installations, host, seen>>
      BY <1>4 DEF Fail
    <2>5. PICK status \in Statuses :
             session' = [session EXCEPT !.status = status]
      BY <1>s, <2>4
    <2>6. session' \in [status : Statuses, confirmed : BOOLEAN,
                        started : Runs \cup {Nothing}]
      BY <2>5, SessionRow
    <2> QED
      BY <1>v, <2>2, <2>3, <2>4, <2>6, HostKept, RunMoves
  <1>5. CASE CleanUpFailed(r)
    <2>1. PICK next \in Run : run' = [run EXCEPT ![r] = next]
                                        /\ next.stage = "left"
      BY <1>5, <1>s, MovesTo DEF CleanUpFailed
    <2>2. /\ credential' = Destroyed /\ run[r].stage = "closed"
          /\ UNCHANGED <<session, janitor, runToken, installations, host, seen>>
      BY <1>5 DEF CleanUpFailed, Moves
    <2> QED
      BY <1>v, <2>1, <2>2, DestroyedClean, HostKept, RunMoves
  <1>6. CASE RecordFailure(r)
    <2>1. PICK next \in Run : run' = [run EXCEPT ![r] = next]
                                        /\ next.stage = "failed"
      BY <1>6, <1>s, MovesTo DEF RecordFailure
    <2>2. /\ run[r].stage = "left"
          /\ installations' = IF installations = {} THEN {"failed"} ELSE installations
          /\ UNCHANGED <<session, credential, janitor, runToken, host, seen>>
      BY <1>6 DEF RecordFailure, Moves
    <2>3. installations' \subseteq {"installed", "failed"}
          /\ ("installed" \in installations' => seen # {})
      BY <2>2
    <2> QED
      BY <1>v, <2>1, <2>2, <2>3, HostKept, RunMoves DEF Owes
  <1> QED
    BY <1>1, <1>2, <1>3, <1>4, <1>5, <1>6

\* The steps of nobody's run: what they write keeps its type, no token is renewed,
\* and an ended session gets no credential.
LEMMA OthersInv ==
  ASSUME BootstrapInv,
         \/ \E r \in Runs : CreateToken(r)
         \/ AdminConfirms \/ AdminAddsCredential
         \/ \E c \in Credentials : CredentialExpires(c)
         \/ DestroyLate \/ ExpirePending
         \/ Register \/ Heartbeat \/ ServiceRestarts
         \/ UNCHANGED bootstrapVars
  PROVE  BootstrapInv'
  <1> USE KeptTypes
  <1>0. BootstrapTypeOK
    BY DEF BootstrapInv
  <1>a. /\ run' = run /\ seen \subseteq seen'
        /\ installations' = installations
    BY <1>0 DEF CreateToken, AdminConfirms,
          AdminAddsCredential, CredentialExpires,
          DestroyLate, ExpirePending, Register,
          Heartbeat, ServiceRestarts, bootstrapVars
  <1>b. seen' \subseteq Runs
    BY <1>0 DEF BootstrapTypeOK, Begun, CreateToken,
          AdminConfirms,
          AdminAddsCredential, CredentialExpires,
          DestroyLate, ExpirePending, Register,
          Heartbeat, ServiceRestarts, bootstrapVars
  <1>c. janitor' \in {"idle", "expiring"}
    BY <1>0 DEF BootstrapTypeOK, CreateToken, AdminConfirms,
          AdminAddsCredential, CredentialExpires,
          DestroyLate, ExpirePending, Register,
          Heartbeat, ServiceRestarts, bootstrapVars
  <1>1. /\ session' \in [status : Statuses, confirmed : BOOLEAN,
                         started : Runs \cup {Nothing}]
        /\ session'.status \in {"completed", "failed"} => session'.status = session.status
    <2>1. CASE UNCHANGED session
      BY <2>1
    <2>2. CASE AdminConfirms
      <3>1. PICK full \in BOOLEAN : session' = [session EXCEPT !.confirmed = full]
        BY <2>2 DEF AdminConfirms
      <3> QED
        BY <3>1
    <2>3. CASE ExpirePending
      <3>1. "expired" \in Statuses
        BY DEF Statuses, Terminal
      <3> QED
        BY <2>3, <3>1 DEF ExpirePending
    <2> QED
      BY <2>1, <2>2, <2>3 DEF CreateToken,
          AdminAddsCredential, CredentialExpires,
          DestroyLate, Register,
          Heartbeat, ServiceRestarts, bootstrapVars
  <1>2. /\ credential' \in [Credentials
                              -> {"absent", "usable", "late", "destroyed"}]
        /\ session.status \in {"completed", "failed"} /\ Clean => Clean'
    <2>1. CASE UNCHANGED credential
      BY <2>1 DEF Clean
    <2>2. CASE AdminAddsCredential
      BY <2>2 DEF AdminAddsCredential, Terminal
    <2>3. ASSUME NEW c \in Credentials, CredentialExpires(c)
          PROVE  /\ credential' \in [Credentials
                                      -> {"absent", "usable", "late", "destroyed"}]
                 /\ ~ Clean
      BY <2>3 DEF CredentialExpires, Clean
    <2>4. CASE DestroyLate
      BY <2>4 DEF DestroyLate, Clean
    <2> QED
      BY <2>1, <2>2, <2>3, <2>4 DEF CreateToken, AdminConfirms,
          ExpirePending, Register,
          Heartbeat, ServiceRestarts, bootstrapVars
  <1>3. /\ runToken' \in [Runs -> {"none", "fresh", "used", "void"}]
        /\ \A r \in Runs : runToken'[r] = "fresh" =>
              runToken[r] = "fresh" \/ run[r].stage = "ready"
    <2>1. CASE UNCHANGED runToken
      BY <2>1
    <2>2. ASSUME NEW r \in Runs, CreateToken(r)
          PROVE  /\ runToken' = [runToken EXCEPT ![r] = "fresh"]
                 /\ run[r].stage = "ready"
      BY <2>2 DEF CreateToken
    <2>3. ASSUME Register
          PROVE  runToken' = [runToken EXCEPT ![host.mem] = "used"]
      BY <2>3 DEF Register
    <2> QED
      BY <2>1, <2>2, <2>3 DEF AdminConfirms,
          AdminAddsCredential, CredentialExpires,
          DestroyLate, ExpirePending,
          Heartbeat, ServiceRestarts, bootstrapVars
  <1>4. host' \in Host
    <2>1. CASE UNCHANGED host
      BY <2>1
    <2>2. CASE Register
      <3>1. PICK written \in BOOLEAN :
               host' = [host EXCEPT !.agent = TRUE,
                                    !.file = IF written THEN host.mem ELSE @,
                                    !.stored = @ \/ written]
        BY <2>2 DEF Register
      <3>2. PICK full \in BOOLEAN, stored \in BOOLEAN, file \in Runs \cup {Nothing} :
               /\ full = TRUE /\ stored = (host.stored \/ written)
               /\ file = IF written THEN host.mem ELSE host.file
        BY DEF Host
      <3>3. host' = [host EXCEPT !.agent = full, !.file = file, !.stored = stored]
        BY <3>1, <3>2, Zenon
      <3> QED
        BY <3>3 DEF Host
    <2>3. CASE ServiceRestarts
      <3>1. PICK stored \in BOOLEAN, file \in Runs \cup {Nothing} :
               stored = host.stored /\ file = host.file
        BY DEF Host
      <3>2. host' = [host EXCEPT !.mem = file, !.agent = stored]
        BY <2>3, <3>1 DEF ServiceRestarts
      <3> QED
        BY <3>2 DEF Host
    <2> QED
      BY <2>1, <2>2, <2>3 DEF CreateToken, AdminConfirms,
          AdminAddsCredential, CredentialExpires,
          DestroyLate, ExpirePending,
          Heartbeat, bootstrapVars
  <1>5. BootstrapTypeOK'
    BY <1>0, <1>a, <1>b, <1>c, <1>1, <1>2, <1>3, <1>4 DEF BootstrapTypeOK
  <1>6. CommandsPlanned' /\ HeartbeatsHeard'
    BY <1>a DEF BootstrapInv, CommandsPlanned, HeartbeatsHeard
  <1>9. AgentsKnown'
    <2> USE DEF BootstrapInv, AgentsKnown, Known
    <2>1. CASE Register
      BY <1>0, <2>1 DEF Register, BootstrapTypeOK, Host
    <2>2. CASE Heartbeat
      BY <2>2 DEF Heartbeat
    <2>3. CASE ServiceRestarts
      <3>1. host'.agent = host.stored /\ host'.stored = host.stored
            /\ host'.old = host.old /\ UNCHANGED <<runToken, seen>>
        BY <1>0, <2>3 DEF ServiceRestarts, BootstrapTypeOK, Host
      <3> QED
        BY <3>1
    <2>4. ASSUME NEW r \in Runs, CreateToken(r) PROVE AgentsKnown'
      <3>1. \A q \in Runs : runToken[q] = "used" => runToken'[q] = "used"
        BY <1>0, <2>4 DEF CreateToken, BootstrapTypeOK
      <3> QED
        BY <2>4, <3>1 DEF CreateToken
    <2>5. CASE UNCHANGED <<host, runToken, seen>>
      BY <2>5
    <2> QED
      BY <2>1, <2>2, <2>3, <2>4, <2>5 DEF AdminConfirms, AdminAddsCredential,
          CredentialExpires, DestroyLate, ExpirePending, bootstrapVars
  <1>7. TokensVoided'
    BY <1>a, <1>3 DEF BootstrapInv, TokensVoided
  <1>8. CleanOrOwed'
    BY <1>a, <1>1, <1>2 DEF BootstrapInv, CleanOrOwed, Owes
  <1> QED
    BY <1>5, <1>6, <1>7, <1>8, <1>9 DEF BootstrapInv

LEMMA BootstrapStep ==
  ASSUME BootstrapInv, [BootstrapNext]_bootstrapVars
  PROVE  BootstrapInv'
  BY ReadInv, PlainInv, ConnectInv, CommandInv, InstalledInv, FailedInv, OthersInv
     DEF BootstrapNext, RunStep

LEMMA BootstrapAlways == BootstrapSpec => []BootstrapInv
  BY BootstrapInitInv, BootstrapStep, PTL DEF BootstrapSpec

-----------------------------------------------------------------------------

\* Every reachable state of a bootstrap session is well typed: a command in
\* execution is one of the plan's.
THEOREM BootstrapTypeCorrect == BootstrapSpec => []BootstrapTypeOK
  <1>1. BootstrapInv => BootstrapTypeOK
    BY DEF BootstrapInv
  <1> QED
    BY <1>1, BootstrapAlways, PTL

\* The temporary credentials do not outlive a session that has completed or
\* failed, for any number of runs and credentials.
THEOREM CredentialsDestroyedHolds == BootstrapSpec => []CredentialsDestroyed
  <1>1. BootstrapInv => CredentialsDestroyed
    BY DEF BootstrapInv, CleanOrOwed, Clean, Owes, CredentialsDestroyed,
           Quiet
  <1> QED
    BY <1>1, BootstrapAlways, PTL

\* An installation is recorded only after a registration or a heartbeat since the
\* start, and on a server that had no agent only after one of the runs' tokens was
\* exchanged.
THEOREM InstalledMeansSeenHolds == BootstrapSpec => []InstalledMeansSeen
  <1>1. BootstrapInv => InstalledMeansSeen
    BY DEF BootstrapInv, HeartbeatsHeard, AgentsKnown, Known, InstalledMeansSeen
  <1> QED
    BY <1>1, BootstrapAlways, PTL

\* The runtime that a failed run has left on the host does not register with the
\* run's token.
THEOREM NoLateRegistrationHolds == BootstrapSpec => NoLateRegistration
  <1> DEFINE Late == \A r \in Runs :
          runToken[r] # "used" /\ runToken'[r] = "used" => run[r].stage # "failed"
  <1>1. ASSUME BootstrapInv, [BootstrapNext]_bootstrapVars
        PROVE  [Late]_bootstrapVars
    <2>1. CASE Register
      BY <1>1, <2>1 DEF Register, BootstrapInv, TokensVoided, BootstrapTypeOK
    <2>2. ASSUME NEW r \in Runs, Revoke(r) PROVE Late
      BY <1>1, <2>2 DEF Revoke, BootstrapInv, BootstrapTypeOK
    <2>3. ASSUME NEW r \in Runs, CreateToken(r) PROVE Late
      BY <1>1, <2>3 DEF CreateToken, BootstrapInv, BootstrapTypeOK
    <2>4. CASE UNCHANGED runToken
      BY <2>4
    <2> QED
      BY <1>1, <2>1, <2>2, <2>3, <2>4
         DEF BootstrapNext, RunStep, Read, Dies,
             AwaitConfirmation, UseCredential,
             RefuseCredential, DestroyRefused, Connect,
             Upload, StepStarts, StepSucceeds, StepFails,
             Verify, SeeHeartbeat, VerifyTimesOut,
             RecordInstallation, Complete, CleanUp,
             Raises, Fail, CleanUpFailed,
             RecordFailure, AdminConfirms,
             AdminAddsCredential, CredentialExpires,
             DestroyLate, ExpirePending, Heartbeat,
             ServiceRestarts
  <1>2. BootstrapInv /\ [BootstrapNext]_bootstrapVars => [Late]_bootstrapVars
    BY <1>1
  <1> HIDE DEF Late
  <1>3. BootstrapSpec => [][Late]_bootstrapVars
    BY <1>2, BootstrapAlways, PTL DEF BootstrapSpec
  <1> QED
    BY <1>3 DEF NoLateRegistration, Late
=============================================================================
