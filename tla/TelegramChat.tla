----------------------------- MODULE TelegramChat -----------------------------
(***************************************************************************)
(* One private Telegram chat (apps/telegram_integration): it is linked to  *)
(* an account with a code from the portal, and then leads the dialogue     *)
(* that ends in a diagnostic session: server, application, kind of         *)
(* problem, description, confirmation.                                     *)
(*                                                                         *)
(* Telegram delivers updates to the webhook, which handles several at the  *)
(* same time.  Linking, the confirmation and /cancel are transactions that *)
(* lock what they read; the start of a dialogue and every selection read   *)
(* in one query and save in another.                                       *)
(*                                                                         *)
(* Left out: groups and the roles of users, which only turn updates away;  *)
(* the commands that only read; what becomes of the session, which is the  *)
(* subject of Diagnostics.                                                 *)
(***************************************************************************)

EXTENDS Naturals

CONSTANTS
    Accounts,
    Tokens,        \* link codes
    Servers,
    Applications,
    Dialogues,     \* rows of TelegramDiagnosticState
    Updates,       \* the webhook requests that may be handled at one time
    Nothing,       \* no account, server, application, dialogue or code
    TokenAccount,  \* [Tokens -> Accounts]
    ServerAccount, \* [Servers -> Accounts]
    AppServer      \* [Applications -> Servers]

ASSUME OwnersAssumption ==
    /\ TokenAccount \in [Tokens -> Accounts]
    /\ ServerAccount \in [Servers -> Accounts]
    /\ AppServer \in [Applications -> Servers]

ASSUME NothingAssumption ==
    Nothing \notin Accounts \cup Tokens \cup Servers \cup Applications \cup Dialogues

VARIABLES
    token,      \* [Tokens -> whether the code can still be used]
    uses,       \* [Tokens -> how often it has linked the chat]
    link,       \* TelegramChatLink: [status, account]
    dialogue,   \* [Dialogues -> TelegramDiagnosticState]
    session,    \* the diagnostic session that was started last
    update      \* [Updates -> how far the request is]

vars == <<token, uses, link, dialogue, session, update>>

-----------------------------------------------------------------------------

Link == [status : {"none", "active", "revoked"}, account : Accounts \cup {Nothing}]

\* The states in which a dialogue waits for a selection.
Selecting ==
    {"selecting_server", "selecting_application", "selecting_problem_type",
     "awaiting_description"}

ActiveStates == Selecting \cup {"awaiting_confirmation", "active"}

\* late: expires_at has passed.
Dialogue ==
    [state : {"absent"} \cup ActiveStates \cup {"cancelled", "expired"},
     account : Accounts \cup {Nothing}, server : Servers \cup {Nothing},
     app : Applications \cup {Nothing}, confirmed : BOOLEAN, late : BOOLEAN]

NoDialogue ==
    [state |-> "absent", account |-> Nothing, server |-> Nothing,
     app |-> Nothing, confirmed |-> FALSE, late |-> FALSE]

Session == [account : Accounts, server : Servers, app : Applications \cup {Nothing}]

\* linked: the chat's link has been read; linking: the code is locked and no
\* link was found; looked: no active dialogue was found; selecting: a dialogue
\* was read in the state "read", and the choice is about to be saved; expiring:
\* a dialogue was read that is late.
Request ==
    [stage : {"idle", "linked", "linking", "looked", "selecting", "expiring"},
     account : Accounts \cup {Nothing}, token : Tokens \cup {Nothing},
     on : Dialogues \cup {Nothing}, read : Selecting \cup {"none"},
     choice : Servers \cup Applications \cup {Nothing}]

Idle == [stage |-> "idle", account |-> Nothing, token |-> Nothing,
         on |-> Nothing, read |-> "none", choice |-> Nothing]

TypeOK ==
    /\ token \in [Tokens -> {"unused", "used", "void"}]
    /\ uses \in [Tokens -> Nat]
    /\ link \in Link
    /\ dialogue \in [Dialogues -> Dialogue]
    /\ session \in Session \cup {Nothing}
    /\ update \in [Updates -> Request]

Init ==
    /\ token = [t \in Tokens |-> "unused"]
    /\ uses = [t \in Tokens |-> 0]
    /\ link = [status |-> "none", account |-> Nothing]
    /\ dialogue = [d \in Dialogues |-> NoDialogue]
    /\ session = Nothing
    /\ update = [u \in Updates |-> Idle]

Goes(u, request) == update' = [update EXCEPT ![u] = request]

-----------------------------------------------------------------------------
(* Linking.                                                                *)

\* The code expires, or is revoked.
VoidToken(t) ==
    /\ token[t] = "unused"
    /\ token' = [token EXCEPT ![t] = "void"]
    /\ UNCHANGED <<uses, link, dialogue, session, update>>

\* update_or_create and mark_used.
Links(t) ==
    /\ link' = [status |-> "active", account |-> TokenAccount[t]]
    /\ token' = [token EXCEPT ![t] = "used"]
    /\ uses' = [uses EXCEPT ![t] = @ + 1]

\* Mutant: the code is read without a lock.
UsableUnlocked(t) == token[t] = "unused"

\* select_for_update waits until no other transaction holds the code.
Usable(t) ==
    /\ token[t] = "unused"
    /\ \A u \in Updates : update[u].token # t

\* Mutant: the account of an active link is not looked at.
MayLinkAnyway(t) == TRUE

\* A chat that is linked keeps its account.
MayLink(t) == link.status = "active" => link.account = TokenAccount[t]

\* link_chat_with_code.  If the chat has a link its row is locked, so that all
\* of it is one step.
LinkAgain(t) ==
    /\ Usable(t)
    /\ link.status # "none"
    /\ MayLink(t)
    /\ Links(t)
    /\ UNCHANGED <<dialogue, session, update>>

\* There is no row to lock: what another update creates from now on is not
\* looked at again ...
LinkBegins(u, t) ==
    /\ update[u].stage = "idle"
    /\ Usable(t)
    /\ link.status = "none"
    /\ Goes(u, [Idle EXCEPT !.stage = "linking", !.token = t])
    /\ UNCHANGED <<token, uses, link, dialogue, session>>

\* ... and is written over.
LinkEnds(u) ==
    /\ update[u].stage = "linking"
    /\ Links(update[u].token)
    /\ Goes(u, Idle)
    /\ UNCHANGED <<dialogue, session>>

\* active_chat_link_for_update and active_chat_link_for_callback: every other
\* command begins with it.
ReadLink(u) ==
    /\ update[u].stage = "idle"
    /\ link.status = "active"
    /\ Goes(u, [Idle EXCEPT !.stage = "linked", !.account = link.account])
    /\ UNCHANGED <<token, uses, link, dialogue, session>>

\* unlink_chat saves the link that was read; the dialogue stays.
Unlink(u) ==
    /\ update[u].stage = "linked"
    /\ link' = [link EXCEPT !.status = "revoked"]
    /\ Goes(u, Idle)
    /\ UNCHANGED <<token, uses, dialogue, session>>

-----------------------------------------------------------------------------
(* The dialogue.                                                           *)

Active(d) == dialogue[d].state \in ActiveStates

\* unique_active_telegram_diagnostic_state_per_chat: the database refuses a
\* second active row of the chat.
Conflicts(d) == \E e \in Dialogues \ {d} : Active(e)

\* expires_at passes.
Tick(d) ==
    /\ Active(d) /\ ~dialogue[d].late
    /\ dialogue' = [dialogue EXCEPT ![d].late = TRUE]
    /\ UNCHANGED <<token, uses, link, session, update>>

\* active_diagnostic_state, without a lock, finds a dialogue that is late, saves
\* it as expired, and answers that there is none.
FindLate(u) ==
    /\ update[u].stage = "linked"
    /\ \E d \in Dialogues :
          /\ Active(d) /\ dialogue[d].late
          /\ Goes(u, [update[u] EXCEPT !.stage = "expiring", !.on = d])
    /\ UNCHANGED <<token, uses, link, dialogue, session>>

SaveExpired(u) ==
    /\ update[u].stage = "expiring"
    /\ dialogue' = [dialogue EXCEPT ![update[u].on].state = "expired"]
    /\ Goes(u, [update[u] EXCEPT !.stage = "looked", !.on = Nothing])
    /\ UNCHANGED <<token, uses, link, session>>

\* handle_diagnose_command: there is no active dialogue ...
DiagnoseLooks(u) ==
    /\ update[u].stage = "linked"
    /\ ~ \E d \in Dialogues : Active(d)
    /\ Goes(u, [update[u] EXCEPT !.stage = "looked"])
    /\ UNCHANGED <<token, uses, link, dialogue, session>>

\* ... so one is created, of the account that the chat was linked to.
DiagnoseCreates(u) ==
    /\ update[u].stage = "looked"
    /\ \E d \in Dialogues :
          /\ dialogue[d] = NoDialogue
          /\ ~Conflicts(d)
          /\ dialogue' = [dialogue EXCEPT ![d] =
                [@ EXCEPT !.state = "selecting_server",
                          !.account = update[u].account]]
    /\ Goes(u, Idle)
    /\ UNCHANGED <<token, uses, link, session>>

\* What may be selected: a server of the account, an application of the server
\* or none.  The kind of problem and the description are left out.
Choices(d) ==
    CASE d.state = "selecting_server" ->
            {s \in Servers : ServerAccount[s] = d.account}
      [] d.state = "selecting_application" ->
            {a \in Applications : AppServer[a] = d.server} \cup {Nothing}
      [] OTHER -> {Nothing}

\* select_server, select_application, select_problem_type and
\* set_problem_description read the dialogue and check what they are given ...
SelectReads(u) ==
    /\ update[u].stage = "linked"
    /\ link.status = "active"
    /\ \E d \in Dialogues :
          /\ dialogue[d].state \in Selecting /\ ~dialogue[d].late
          /\ \E c \in Choices(dialogue[d]) :
                Goes(u, [update[u] EXCEPT !.stage = "selecting", !.on = d,
                                          !.read = dialogue[d].state, !.choice = c])
    /\ UNCHANGED <<token, uses, link, dialogue, session>>

Following(state) ==
    CASE state = "selecting_server" -> "selecting_application"
      [] state = "selecting_application" -> "selecting_problem_type"
      [] state = "selecting_problem_type" -> "awaiting_description"
      [] state = "awaiting_description" -> "awaiting_confirmation"

\* Mutant: the selected server is missing from update_fields.
SelectedStateOnly(d, u) ==
    [d EXCEPT !.state = Following(u.read), !.late = FALSE,
              !.app = IF u.read = "selecting_application" THEN u.choice ELSE @]

\* The fields that a selection saves.
Selected(d, u) ==
    [d EXCEPT !.state = Following(u.read), !.late = FALSE,
              !.server = IF u.read = "selecting_server" THEN u.choice ELSE @,
              !.app = IF u.read = "selecting_application" THEN u.choice ELSE @]

\* ... and save their fields of it, whatever its state is by now.
SelectSaves(u) ==
    /\ update[u].stage = "selecting"
    /\ ~Conflicts(update[u].on)
    /\ dialogue' = [dialogue EXCEPT ![update[u].on] = Selected(@, update[u])]
    /\ Goes(u, Idle)
    /\ UNCHANGED <<token, uses, link, session>>

\* What start_diagnostic_session demands of its arguments; its error leaves the
\* transaction.
Fits(d) ==
    /\ ServerAccount[d.server] = d.account
    /\ d.app # Nothing => AppServer[d.app] = d.server

\* The dialogue that a transaction of the chat has locked.
Locked(d) == Active(d) /\ ~dialogue[d].late

\* confirm_diagnostic_state and create_session_from_state: one transaction.
Confirm(u) ==
    /\ update[u].stage = "linked"
    /\ link.status = "active"
    /\ \E d \in Dialogues : LET row == dialogue[d] IN
          /\ Locked(d) /\ row.state = "awaiting_confirmation"
          /\ Fits(row)
          /\ session' = [account |-> row.account, server |-> row.server,
                         app |-> row.app]
          /\ dialogue' = [dialogue EXCEPT ![d] =
                [@ EXCEPT !.state = "active", !.confirmed = TRUE]]
    /\ Goes(u, Idle)
    /\ UNCHANGED <<token, uses, link>>

\* approve_active_diagnostic_step: one transaction; its effect on the session is
\* in Diagnostics.
Approve(u) ==
    /\ update[u].stage = "linked"
    /\ link.status = "active"
    /\ \E d \in Dialogues : Locked(d) /\ dialogue[d].confirmed
    /\ Goes(u, Idle)
    /\ UNCHANGED <<token, uses, link, dialogue, session>>

\* cancel_diagnostic_state: one transaction, which does not ask for access.
Cancel(u) ==
    /\ update[u].stage = "linked"
    /\ \E d \in Dialogues :
          /\ Locked(d)
          /\ dialogue' = [dialogue EXCEPT ![d] = [@ EXCEPT !.state = "cancelled",
                                                           !.late = TRUE]]
    /\ Goes(u, Idle)
    /\ UNCHANGED <<token, uses, link, session>>

\* A transaction of the chat finds the dialogue late.
LockedExpires(u) ==
    /\ update[u].stage = "linked"
    /\ \E d \in Dialogues :
          /\ Active(d) /\ dialogue[d].late
          /\ dialogue' = [dialogue EXCEPT ![d].state = "expired"]
    /\ Goes(u, Idle)
    /\ UNCHANGED <<token, uses, link, session>>

\* The update is refused, raises an error or only shows something.
Stops(u) ==
    /\ update[u].stage # "idle"
    /\ Goes(u, Idle)
    /\ UNCHANGED <<token, uses, link, dialogue, session>>

-----------------------------------------------------------------------------

Handles(u) ==
    \/ \E t \in Tokens : LinkBegins(u, t)
    \/ LinkEnds(u) \/ ReadLink(u) \/ Unlink(u)
    \/ FindLate(u) \/ SaveExpired(u) \/ LockedExpires(u)
    \/ DiagnoseLooks(u) \/ DiagnoseCreates(u)
    \/ SelectReads(u) \/ SelectSaves(u)
    \/ Confirm(u) \/ Approve(u) \/ Cancel(u)
    \/ Stops(u)

Next ==
    \/ \E u \in Updates : Handles(u)
    \/ \E t \in Tokens : LinkAgain(t) \/ VoidToken(t)
    \/ \E d \in Dialogues : Tick(d)

Spec == Init /\ [][Next]_vars

-----------------------------------------------------------------------------
(* Properties *)

\* "one-time link codes": however many updates bring the same code at the same
\* time, and however often the chat is unlinked in between, a code links once.
CodeLinksOnce == \A t \in Tokens : uses[t] <= 1

\* "This Telegram chat is already linked to another account.": only an update
\* that looked before the chat had its first link can put an active link over to
\* another account.
AccountKept ==
    [][ /\ link.status = "active"
        /\ link'.account # link.account
        => \E u \in Updates : update[u].stage = "linking" ]_vars

\* Whatever selections overlap and save over each other, a dialogue that has
\* left the selection of the server has a server, of its account.
ServerChosen ==
    \A d \in Dialogues :
        Active(d) /\ dialogue[d].state # "selecting_server"
        => /\ dialogue[d].server # Nothing
           /\ ServerAccount[dialogue[d].server] = dialogue[d].account

\* Two selections of a server, with a selection of an application between them,
\* leave a dialogue with the application of another server; no session is
\* started from it.
SessionsFit ==
    session # Nothing =>
        /\ ServerAccount[session.server] = session.account
        /\ session.app # Nothing => AppServer[session.app] = session.server

\* The two together: what is confirmed hangs together, whatever overlaps.
DialogueFits == ServerChosen /\ SessionsFit

=============================================================================
