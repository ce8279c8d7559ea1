------------------------- MODULE TelegramChat_proofs -------------------------
(***************************************************************************)
(* Proofs about TelegramChat, for all accounts, codes, servers,            *)
(* applications and dialogues and any number of updates.                   *)
(*                                                                         *)
(* CodesRight: the lock on a code keeps it to one update, which has not    *)
(* used it yet, even if the code is revoked meanwhile.  RequestRight: what *)
(* a selection has in hand was right for its dialogue when it was read and *)
(* still is, since a dialogue never changes its account and never loses    *)
(* its server; so a save that comes late, even to a dialogue that was      *)
(* cancelled, leaves no dialogue without a server.                         *)
(***************************************************************************)
EXTENDS TelegramChat, TLAPS

Chosen(d) ==
    /\ dialogue[d].server \in Servers
    /\ ServerAccount[dialogue[d].server] = dialogue[d].account

\* The states that follow the selection of the server.
ServersRight ==
    \A d \in Dialogues :
        dialogue[d].state \in ActiveStates \ {"selecting_server"} => Chosen(d)

CodesRight ==
    /\ \A t \in Tokens : token[t] = "unused" => uses[t] = 0
    /\ \A u, v \in Updates :
          /\ update[u].stage = "linking" /\ update[v].stage = "linking"
          /\ update[u].token = update[v].token
          => u = v

SelectionRight(u) ==
    LET d == update[u].on IN
    /\ d \in Dialogues /\ dialogue[d].state # "absent"
    /\ update[u].read \in Selecting
    /\ IF update[u].read = "selecting_server"
       THEN /\ update[u].choice \in Servers
            /\ ServerAccount[update[u].choice] = dialogue[d].account
       ELSE /\ Chosen(d)
            /\ update[u].choice \in Applications \cup {Nothing}

RequestRight(u) ==
    /\ update[u].stage = "linking" =>
          update[u].token \in Tokens /\ uses[update[u].token] = 0
    /\ update[u].stage = "expiring" => update[u].on \in Dialogues
    /\ update[u].stage = "selecting" => SelectionRight(u)

Inv == /\ TypeOK
       /\ CodesRight
       /\ ServersRight
       /\ \A u \in Updates : RequestRight(u)
       /\ CodeLinksOnce
       /\ SessionsFit

-----------------------------------------------------------------------------

LEMMA InitInv == Init => Inv
  <1> SUFFICES ASSUME Init PROVE Inv
    OBVIOUS
  <1>1. NoDialogue \in Dialogue /\ Idle \in Request
    BY DEF NoDialogue, Dialogue, Idle, Request
  <1>2. TypeOK
    BY <1>1 DEF Init, TypeOK, Link
  <1>3. \A d \in Dialogues : dialogue[d].state = "absent"
    BY DEF Init, NoDialogue
  <1>4. \A u \in Updates : update[u].stage = "idle"
    BY DEF Init, Idle
  <1>5. ServersRight
    BY <1>3 DEF ServersRight, ActiveStates, Selecting
  <1>6. CodesRight /\ CodeLinksOnce
    BY <1>4 DEF Init, CodesRight, CodeLinksOnce
  <1>7. \A u \in Updates : RequestRight(u)
    BY <1>4 DEF RequestRight
  <1>8. SessionsFit
    BY DEF Init, SessionsFit
  <1> QED
    BY <1>2, <1>5, <1>6, <1>7, <1>8 DEF Inv

\* A request moves on alone.
LEMMA MovesOn ==
  ASSUME TypeOK, NEW u \in Updates, NEW request \in Request, Goes(u, request)
  PROVE  /\ update' \in [Updates -> Request]
         /\ update'[u] = request
         /\ \A v \in Updates \ {u} : update'[v] = update[v]
  BY DEF Goes, TypeOK

\* A dialogue that was created keeps its account, and its server unless it gets
\* another of the same account.
Persists(d) ==
    dialogue[d].state # "absent" =>
        /\ dialogue'[d].state # "absent"
        /\ dialogue'[d].account = dialogue[d].account
        /\ Chosen(d) => Chosen(d)'

\* What the other requests have in hand stays right.
LEMMA OthersRight ==
  ASSUME Inv, NEW v \in Updates, update'[v] = update[v],
         update[v].stage = "linking" => uses'[update[v].token] = uses[update[v].token],
         \A d \in Dialogues : Persists(d)
  PROVE  RequestRight(v)'
  <1>1. RequestRight(v)
    BY DEF Inv
  <1>2. CASE update[v].stage = "selecting"
    <2>1. PICK d \in Dialogues : d = update[v].on
      BY <1>1, <1>2 DEF RequestRight, SelectionRight
    <2>2. /\ update'[v].on = d /\ update'[v].stage = "selecting"
          /\ Persists(d) /\ SelectionRight(v)
      BY <1>1, <1>2, <2>1 DEF RequestRight
    <2>3. SelectionRight(v)'
      BY <2>1, <2>2 DEF SelectionRight, Persists
    <2> QED
      BY <2>2, <2>3 DEF RequestRight
  <1>3. CASE update[v].stage # "selecting"
    BY <1>1, <1>3 DEF RequestRight
  <1> QED
    BY <1>2, <1>3

\* A request that has no code in hand when it goes on leaves the codes alone.
LEMMA CodesLeft ==
  ASSUME Inv, UNCHANGED <<token, uses>>, NEW u \in Updates,
         update'[u].stage # "linking",
         \A v \in Updates \ {u} : update'[v] = update[v]
  PROVE  CodesRight' /\ CodeLinksOnce'
  BY DEF Inv, CodesRight, CodeLinksOnce

\* The dialogues are left alone.
LEMMA DialoguesLeft ==
  ASSUME Inv, UNCHANGED dialogue
  PROVE  ServersRight' /\ \A d \in Dialogues : Persists(d)
  <1>1. \A d \in Dialogues : Chosen(d)' = Chosen(d)
    BY DEF Chosen
  <1> QED
    BY <1>1 DEF Inv, ServersRight, Persists

\* The request that goes to a stage in which it has neither a code nor a
\* dialogue in hand.
LEMMA EmptyHanded ==
  ASSUME NEW u \in Updates, update'[u].stage \in {"idle", "linked", "looked"}
  PROVE  RequestRight(u)' /\ update'[u].stage # "linking"
  BY DEF RequestRight

LEMMA IdleRequest == Idle \in Request /\ Idle.stage = "idle"
  BY DEF Idle, Request

-----------------------------------------------------------------------------
(* Linking.                                                                *)

\* A code that has not been used links.
LEMMA LinksOnce ==
  ASSUME OwnersAssumption, Inv, NEW t \in Tokens, Links(t), uses[t] = 0
  PROVE  /\ link' \in Link
         /\ token' \in [Tokens -> {"unused", "used", "void"}]
         /\ uses' \in [Tokens -> Nat]
         /\ CodeLinksOnce'
         /\ \A s \in Tokens : token'[s] = "unused" => uses'[s] = 0
         /\ \A s \in Tokens \ {t} : uses'[s] = uses[s]
  <1>1. link' \in Link
    BY DEF Links, Link, OwnersAssumption
  <1>2. /\ token' \in [Tokens -> {"unused", "used", "void"}]
        /\ token'[t] = "used" /\ \A s \in Tokens \ {t} : token'[s] = token[s]
    BY DEF Links, Inv, TypeOK
  <1>3. /\ uses' \in [Tokens -> Nat]
        /\ uses'[t] = 1 /\ \A s \in Tokens \ {t} : uses'[s] = uses[s]
    BY DEF Links, Inv, TypeOK
  <1>4. CodeLinksOnce'
    BY <1>3 DEF Inv, CodeLinksOnce
  <1> QED
    BY <1>1, <1>2, <1>3, <1>4 DEF Inv, CodesRight

LEMMA VoidTokenInv ==
  ASSUME Inv, NEW t \in Tokens, VoidToken(t)
  PROVE  Inv'
  <1>1. UNCHANGED <<uses, link, dialogue, session, update>>
    BY DEF VoidToken
  <1>2. /\ token' \in [Tokens -> {"unused", "used", "void"}]
        /\ \A s \in Tokens : token'[s] = "unused" => token[s] = "unused"
    BY DEF VoidToken, Inv, TypeOK
  <1>3. TypeOK'
    BY <1>1, <1>2 DEF Inv, TypeOK
  <1>4. CodesRight' /\ CodeLinksOnce'
    BY <1>1, <1>2 DEF Inv, CodesRight, CodeLinksOnce
  <1>5. ServersRight' /\ \A u \in Updates : RequestRight(u)'
    BY <1>1, DialoguesLeft, OthersRight
  <1>6. SessionsFit'
    BY <1>1 DEF Inv, SessionsFit
  <1> QED
    BY <1>3, <1>4, <1>5, <1>6 DEF Inv

\* No update holds the code that links.
LEMMA LinkAgainInv ==
  ASSUME OwnersAssumption, NothingAssumption, Inv, NEW t \in Tokens, LinkAgain(t)
  PROVE  Inv'
  <1>1. /\ UNCHANGED <<dialogue, session, update>> /\ Links(t)
        /\ token[t] = "unused" /\ \A u \in Updates : update[u].token # t
    BY DEF LinkAgain, Usable
  <1>2. uses[t] = 0
    BY <1>1 DEF Inv, CodesRight
  <1>3. /\ link' \in Link
        /\ token' \in [Tokens -> {"unused", "used", "void"}]
        /\ uses' \in [Tokens -> Nat]
        /\ CodeLinksOnce'
        /\ \A s \in Tokens : token'[s] = "unused" => uses'[s] = 0
        /\ \A s \in Tokens \ {t} : uses'[s] = uses[s]
    BY <1>1, <1>2, LinksOnce
  <1>4. TypeOK'
    BY <1>1, <1>3 DEF Inv, TypeOK
  <1>5. CodesRight'
    BY <1>1, <1>3 DEF Inv, CodesRight
  <1>6. ServersRight' /\ \A d \in Dialogues : Persists(d)
    BY <1>1, DialoguesLeft
  <1>7. ASSUME NEW u \in Updates PROVE RequestRight(u)'
    <2>1. update[u].stage = "linking" => uses'[update[u].token] = uses[update[u].token]
      BY <1>1, <1>3 DEF Inv, RequestRight
    <2> QED
      BY <1>1, <1>6, <2>1, OthersRight
  <1>8. SessionsFit'
    BY <1>1 DEF Inv, SessionsFit
  <1> QED
    BY <1>3, <1>4, <1>5, <1>6, <1>7, <1>8 DEF Inv

\* Only one update gets the code.
LEMMA LinkBeginsInv ==
  ASSUME Inv, NEW u \in Updates, NEW t \in Tokens, LinkBegins(u, t)
  PROVE  Inv'
  <1> DEFINE request == [Idle EXCEPT !.stage = "linking", !.token = t]
  <1>1. /\ UNCHANGED <<token, uses, link, dialogue, session>> /\ Goes(u, request)
        /\ token[t] = "unused" /\ \A v \in Updates : update[v].token # t
    BY DEF LinkBegins, Usable
  <1>2. request \in Request /\ request.stage = "linking" /\ request.token = t
    BY DEF Idle, Request
  <1> HIDE DEF request
  <1>3. /\ update' \in [Updates -> Request]
        /\ update'[u] = request
        /\ \A v \in Updates \ {u} : update'[v] = update[v]
    BY <1>1, <1>2, MovesOn DEF Inv
  <1>4. TypeOK'
    BY <1>1, <1>3 DEF Inv, TypeOK
  <1>5. CodesRight' /\ CodeLinksOnce'
    <2>1. \A s \in Tokens : token'[s] = "unused" => uses'[s] = 0
      BY <1>1 DEF Inv, CodesRight
    <2>2. ASSUME NEW v \in Updates, NEW w \in Updates,
                 update'[v].stage = "linking", update'[w].stage = "linking",
                 update'[v].token = update'[w].token
          PROVE  v = w
      <3>1. CASE v # u /\ w # u
        BY <1>3, <2>2, <3>1 DEF Inv, CodesRight
      <3>2. CASE v = u \/ w = u
        BY <1>1, <1>2, <1>3, <2>2, <3>2
      <3> QED
        BY <3>1, <3>2
    <2> QED
      BY <1>1, <2>1, <2>2 DEF Inv, CodesRight, CodeLinksOnce
  <1>6. ServersRight' /\ \A d \in Dialogues : Persists(d)
    BY <1>1, DialoguesLeft
  <1>7. RequestRight(u)'
    BY <1>1, <1>2, <1>3 DEF Inv, CodesRight, RequestRight
  <1>8. \A v \in Updates \ {u} : RequestRight(v)'
    BY <1>1, <1>3, <1>6, OthersRight
  <1>9. SessionsFit'
    BY <1>1 DEF Inv, SessionsFit
  <1> QED
    BY <1>4, <1>5, <1>6, <1>7, <1>8, <1>9 DEF Inv

\* The update that has the code uses it, and nobody else has it.
LEMMA LinkEndsInv ==
  ASSUME OwnersAssumption, Inv, NEW u \in Updates, LinkEnds(u)
  PROVE  Inv'
  <1>1. PICK t \in Tokens : t = update[u].token /\ uses[t] = 0
    BY DEF LinkEnds, Inv, RequestRight
  <1>2. /\ UNCHANGED <<dialogue, session>> /\ Links(t) /\ Goes(u, Idle)
        /\ update[u].stage = "linking"
    BY <1>1 DEF LinkEnds
  <1>3. /\ link' \in Link
        /\ token' \in [Tokens -> {"unused", "used", "void"}]
        /\ uses' \in [Tokens -> Nat]
        /\ CodeLinksOnce'
        /\ \A s \in Tokens : token'[s] = "unused" => uses'[s] = 0
        /\ \A s \in Tokens \ {t} : uses'[s] = uses[s]
    BY <1>1, <1>2, LinksOnce
  <1>4. /\ update' \in [Updates -> Request]
        /\ update'[u].stage = "idle"
        /\ \A v \in Updates \ {u} : update'[v] = update[v]
    BY <1>2, IdleRequest, MovesOn DEF Inv
  <1>5. TypeOK'
    BY <1>2, <1>3, <1>4 DEF Inv, TypeOK
  <1>6. CodesRight'
    BY <1>3, <1>4 DEF Inv, CodesRight
  <1>7. ServersRight' /\ \A d \in Dialogues : Persists(d)
    BY <1>2, DialoguesLeft
  <1>8. ASSUME NEW v \in Updates PROVE RequestRight(v)'
    <2>1. CASE v = u
      BY <1>4, <2>1, EmptyHanded
    <2>2. CASE v # u
      <3>1. update[v].stage = "linking" =>
              uses'[update[v].token] = uses[update[v].token]
        BY <1>1, <1>2, <1>3, <2>2 DEF Inv, CodesRight, RequestRight
      <3> QED
        BY <1>4, <1>7, <2>2, <3>1, OthersRight
    <2> QED
      BY <2>1, <2>2
  <1>9. SessionsFit'
    BY <1>2 DEF Inv, SessionsFit
  <1> QED
    BY <1>3, <1>5, <1>6, <1>7, <1>8, <1>9 DEF Inv

-----------------------------------------------------------------------------
(* The dialogue.                                                           *)

\* A step of one request that links nothing: what remains to be shown of it.
LEMMA RequestStep ==
  ASSUME Inv, NEW u \in Updates, NEW request \in Request, Goes(u, request),
         request.stage # "linking", RequestRight(u)',
         UNCHANGED <<token, uses>>, link' \in Link,
         dialogue' \in [Dialogues -> Dialogue], ServersRight',
         \A d \in Dialogues : Persists(d),
         session' \in Session \cup {Nothing}, SessionsFit'
  PROVE  Inv'
  <1>1. /\ update' \in [Updates -> Request]
        /\ update'[u].stage # "linking"
        /\ \A v \in Updates \ {u} : update'[v] = update[v]
    BY MovesOn DEF Inv
  <1>2. TypeOK'
    BY <1>1 DEF Inv, TypeOK
  <1>3. CodesRight' /\ CodeLinksOnce'
    BY <1>1, CodesLeft
  <1>4. \A v \in Updates \ {u} : RequestRight(v)'
    BY <1>1, OthersRight
  <1> QED
    BY <1>2, <1>3, <1>4 DEF Inv

\* The steps that write no dialogue and read none that they go on with.
LEMMA ReadingInv ==
  ASSUME Inv, NEW u \in Updates,
         ReadLink(u) \/ Unlink(u) \/ DiagnoseLooks(u) \/ Approve(u) \/ Stops(u)
  PROVE  Inv'
  <1>1. UNCHANGED <<token, uses, dialogue, session>>
    BY DEF ReadLink, Unlink, DiagnoseLooks, Approve, Stops
  <1>2. link' \in Link
    BY DEF ReadLink, Unlink, DiagnoseLooks, Approve, Stops, Inv, TypeOK, Link
  <1>3. PICK request \in Request :
          Goes(u, request) /\ request.stage \in {"idle", "linked", "looked"}
    <2>1. CASE ReadLink(u)
      <3>1. /\ [Idle EXCEPT !.stage = "linked", !.account = link.account] \in Request
            /\ [Idle EXCEPT !.stage = "linked", !.account = link.account].stage = "linked"
        BY DEF Idle, Request, Inv, TypeOK, Link
      <3> QED
        BY <2>1, <3>1 DEF ReadLink
    <2>2. CASE DiagnoseLooks(u)
      <3>1. /\ [update[u] EXCEPT !.stage = "looked"] \in Request
            /\ [update[u] EXCEPT !.stage = "looked"].stage = "looked"
        BY DEF Request, Inv, TypeOK
      <3> QED
        BY <2>2, <3>1 DEF DiagnoseLooks
    <2>3. CASE Goes(u, Idle)
      BY <2>3, IdleRequest
    <2> QED
      BY <2>1, <2>2, <2>3 DEF Unlink, Approve, Stops
  <1>4. update'[u] = request
    BY <1>3, MovesOn DEF Inv
  <1>5. RequestRight(u)'
    BY <1>3, <1>4, EmptyHanded
  <1>6. ServersRight' /\ \A d \in Dialogues : Persists(d)
    BY <1>1, DialoguesLeft
  <1>7. /\ dialogue' \in [Dialogues -> Dialogue]
        /\ session' \in Session \cup {Nothing} /\ SessionsFit'
    BY <1>1 DEF Inv, TypeOK, SessionsFit
  <1> QED
    BY <1>1, <1>2, <1>3, <1>5, <1>6, <1>7, RequestStep

\* What is read of a dialogue is right when it is read.
LEMMA SelectReadsInv ==
  ASSUME Inv, NEW u \in Updates, SelectReads(u)
  PROVE  Inv'
  <1>1. UNCHANGED <<token, uses, link, dialogue, session>>
    BY DEF SelectReads
  <1>0. PICK d \in Dialogues :
          /\ dialogue[d].state \in Selecting
          /\ \E c \in Choices(dialogue[d]) :
                Goes(u, [update[u] EXCEPT !.stage = "selecting", !.on = d,
                                          !.read = dialogue[d].state, !.choice = c])
    BY DEF SelectReads
  <1>2. PICK c \in Choices(dialogue[d]) :
          /\ dialogue[d].state \in Selecting
          /\ Goes(u, [update[u] EXCEPT !.stage = "selecting", !.on = d,
                                       !.read = dialogue[d].state, !.choice = c])
    BY <1>0
  <1>3. PICK request :
          request = [update[u] EXCEPT !.stage = "selecting", !.on = d,
                                      !.read = dialogue[d].state, !.choice = c]
    OBVIOUS
  <1>4. IF dialogue[d].state = "selecting_server"
        THEN c \in Servers /\ ServerAccount[c] = dialogue[d].account
        ELSE c \in Applications \cup {Nothing}
    BY <1>2 DEF Choices, Selecting
  <1>5. /\ request \in Request /\ request.stage = "selecting" /\ request.on = d
        /\ request.read = dialogue[d].state /\ request.choice = c
    BY <1>2, <1>3, <1>4 DEF Inv, TypeOK, Request
  <1>6. Goes(u, request)
    BY <1>2, <1>3
  <1>7. update'[u] = request
    BY <1>5, <1>6, MovesOn DEF Inv
  <1>8. RequestRight(u)'
    <2>1. dialogue[d].state # "selecting_server" => Chosen(d)
      BY <1>2 DEF Inv, ServersRight, ActiveStates
    <2>2. dialogue[d].state # "absent"
      BY <1>2 DEF Selecting
    <2>3. Chosen(d)' = Chosen(d)
      BY <1>1 DEF Chosen
    <2>4. SelectionRight(u)'
      BY <1>1, <1>2, <1>4, <1>5, <1>7, <2>1, <2>2, <2>3 DEF SelectionRight
    <2> QED
      BY <1>5, <1>7, <2>4 DEF RequestRight
  <1>9. ServersRight' /\ \A e \in Dialogues : Persists(e)
    BY <1>1, DialoguesLeft
  <1>10. /\ dialogue' \in [Dialogues -> Dialogue] /\ link' \in Link
         /\ session' \in Session \cup {Nothing} /\ SessionsFit'
    BY <1>1 DEF Inv, TypeOK, SessionsFit
  <1> QED
    BY <1>1, <1>5, <1>6, <1>8, <1>9, <1>10, RequestStep

LEMMA FindLateInv ==
  ASSUME Inv, NEW u \in Updates, FindLate(u)
  PROVE  Inv'
  <1>1. UNCHANGED <<token, uses, link, dialogue, session>>
    BY DEF FindLate
  <1>2. PICK d \in Dialogues :
          Goes(u, [update[u] EXCEPT !.stage = "expiring", !.on = d])
    BY DEF FindLate
  <1>3. PICK request : request = [update[u] EXCEPT !.stage = "expiring", !.on = d]
    OBVIOUS
  <1>4. request \in Request /\ request.stage = "expiring" /\ request.on = d
    BY <1>3 DEF Inv, TypeOK, Request
  <1>5. Goes(u, request)
    BY <1>2, <1>3
  <1>6. update'[u] = request
    BY <1>4, <1>5, MovesOn DEF Inv
  <1>7. RequestRight(u)'
    BY <1>4, <1>6 DEF RequestRight
  <1>8. ServersRight' /\ \A e \in Dialogues : Persists(e)
    BY <1>1, DialoguesLeft
  <1>9. /\ dialogue' \in [Dialogues -> Dialogue] /\ link' \in Link
        /\ session' \in Session \cup {Nothing} /\ SessionsFit'
    BY <1>1 DEF Inv, TypeOK, SessionsFit
  <1> QED
    BY <1>1, <1>4, <1>5, <1>7, <1>8, <1>9, RequestStep

\* One dialogue is written, and its server, if its state asks for one, is right.
LEMMA Written ==
  ASSUME Inv, NEW d \in Dialogues, NEW row \in Dialogue,
         dialogue' = [dialogue EXCEPT ![d] = row],
         row.state \in ActiveStates \ {"selecting_server"} =>
             row.server \in Servers /\ ServerAccount[row.server] = row.account,
         dialogue[d].state # "absent" =>
             /\ row.state # "absent" /\ row.account = dialogue[d].account
             /\ Chosen(d) => /\ row.server \in Servers
                             /\ ServerAccount[row.server] = row.account
  PROVE  /\ dialogue' \in [Dialogues -> Dialogue] /\ ServersRight'
         /\ \A e \in Dialogues : Persists(e)
  <1>1. /\ dialogue' \in [Dialogues -> Dialogue]
        /\ dialogue'[d] = row
        /\ \A e \in Dialogues \ {d} : dialogue'[e] = dialogue[e]
    BY DEF Inv, TypeOK
  <1>2. \A e \in Dialogues \ {d} : Chosen(e)' = Chosen(e)
    BY <1>1 DEF Chosen
  <1>3. Chosen(d)' <=> row.server \in Servers /\ ServerAccount[row.server] = row.account
    BY <1>1 DEF Chosen
  <1>4. ServersRight'
    BY <1>1, <1>2, <1>3 DEF Inv, ServersRight
  <1>5. \A e \in Dialogues : Persists(e)
    BY <1>1, <1>2, <1>3 DEF Persists
  <1> QED
    BY <1>1, <1>4, <1>5

\* A write that leaves account and server alone and moves no dialogue past the
\* selection of its server.
LEMMA StateWritten ==
  ASSUME Inv, NEW d \in Dialogues, NEW row \in Dialogue,
         dialogue' = [dialogue EXCEPT ![d] = row],
         row.account = dialogue[d].account, row.server = dialogue[d].server,
         row.state # "absent",
         \/ row.state \notin ActiveStates
         \/ dialogue[d].state \in ActiveStates \ {"selecting_server"}
         \/ row.state = "selecting_server"
  PROVE  /\ dialogue' \in [Dialogues -> Dialogue] /\ ServersRight'
         /\ \A e \in Dialogues : Persists(e)
  <1>1. dialogue[d].state \in ActiveStates \ {"selecting_server"} => Chosen(d)
    BY DEF Inv, ServersRight
  <1>2. Chosen(d) => /\ row.server \in Servers
                     /\ ServerAccount[row.server] = row.account
    BY DEF Chosen
  <1> QED
    BY <1>1, <1>2, Written

LEMMA TickInv ==
  ASSUME Inv, NEW d \in Dialogues, Tick(d)
  PROVE  Inv'
  <1>1. /\ UNCHANGED <<token, uses, link, session, update>>
        /\ dialogue[d].state \in ActiveStates
        /\ dialogue' = [dialogue EXCEPT ![d].late = TRUE]
    BY DEF Tick, Active
  <1>2. PICK row : row = [dialogue[d] EXCEPT !.late = TRUE]
    OBVIOUS
  <1>3. /\ row \in Dialogue /\ row.account = dialogue[d].account
        /\ row.server = dialogue[d].server /\ row.state = dialogue[d].state
    BY <1>2 DEF Inv, TypeOK, Dialogue
  <1>4. dialogue' = [dialogue EXCEPT ![d] = row]
    BY <1>1, <1>2
  <1>5. row.state # "absent" /\ (\/ row.state = "selecting_server"
                                 \/ row.state \in ActiveStates \ {"selecting_server"})
    BY <1>1, <1>3 DEF ActiveStates, Selecting
  <1>6. /\ dialogue' \in [Dialogues -> Dialogue] /\ ServersRight'
        /\ \A e \in Dialogues : Persists(e)
    BY <1>3, <1>4, <1>5, StateWritten
  <1>7. \A u \in Updates : RequestRight(u)'
    BY <1>1, <1>6, OthersRight
  <1> QED
    BY <1>1, <1>6, <1>7 DEF Inv, TypeOK, CodesRight, CodeLinksOnce, SessionsFit

\* A dialogue that ends keeps what was selected.
LEMMA DialogueEndsInv ==
  ASSUME Inv, NEW u \in Updates, SaveExpired(u) \/ LockedExpires(u) \/ Cancel(u)
  PROVE  Inv'
  <1>1. UNCHANGED <<token, uses, link, session>>
    BY DEF SaveExpired, LockedExpires, Cancel
  <1>2. PICK request \in Request :
          Goes(u, request) /\ request.stage \in {"idle", "looked"}
    <2>1. CASE SaveExpired(u)
      <3>1. /\ [update[u] EXCEPT !.stage = "looked", !.on = Nothing] \in Request
            /\ [update[u] EXCEPT !.stage = "looked", !.on = Nothing].stage = "looked"
        BY DEF Request, Inv, TypeOK
      <3> QED
        BY <2>1, <3>1 DEF SaveExpired
    <2>2. CASE Goes(u, Idle)
      BY <2>2, IdleRequest
    <2> QED
      BY <2>1, <2>2 DEF LockedExpires, Cancel
  <1>3. RequestRight(u)'
    <2>1. update'[u] = request
      BY <1>2, MovesOn DEF Inv
    <2> QED
      BY <1>2, <2>1, EmptyHanded
  <1>4. PICK d \in Dialogues :
          \/ dialogue' = [dialogue EXCEPT ![d].state = "expired"]
          \/ dialogue' = [dialogue EXCEPT ![d] = [@ EXCEPT !.state = "cancelled",
                                                           !.late = TRUE]]
    <2>1. CASE SaveExpired(u)
      BY <2>1 DEF SaveExpired, Inv, RequestRight
    <2>2. CASE LockedExpires(u) \/ Cancel(u)
      BY <2>2 DEF LockedExpires, Cancel
    <2> QED
      BY <2>1, <2>2
  <1>5. PICK row :
          /\ dialogue' = [dialogue EXCEPT ![d] = row]
          /\ \/ row = [dialogue[d] EXCEPT !.state = "expired"]
             \/ row = [dialogue[d] EXCEPT !.state = "cancelled", !.late = TRUE]
    BY <1>4
  <1>6. dialogue[d] \in Dialogue
    BY DEF Inv, TypeOK
  <1>7. /\ row \in Dialogue /\ row.account = dialogue[d].account
        /\ row.server = dialogue[d].server /\ row.state \in {"expired", "cancelled"}
    <2>1. CASE row = [dialogue[d] EXCEPT !.state = "expired"]
      BY <1>6, <2>1 DEF Dialogue
    <2>2. CASE row = [dialogue[d] EXCEPT !.state = "cancelled", !.late = TRUE]
      BY <1>6, <2>2 DEF Dialogue
    <2> QED
      BY <1>5, <2>1, <2>2
  <1>8. /\ dialogue' \in [Dialogues -> Dialogue] /\ ServersRight'
        /\ \A e \in Dialogues : Persists(e)
    BY <1>5, <1>7, StateWritten DEF ActiveStates, Selecting
  <1>9. link' \in Link /\ session' \in Session \cup {Nothing} /\ SessionsFit'
    BY <1>1 DEF Inv, TypeOK, SessionsFit
  <1> QED
    BY <1>1, <1>2, <1>3, <1>8, <1>9, RequestStep

\* A new dialogue has no server yet, and is in the state that selects one.
LEMMA DiagnoseCreatesInv ==
  ASSUME Inv, NEW u \in Updates, DiagnoseCreates(u)
  PROVE  Inv'
  <1>1. UNCHANGED <<token, uses, link, session>> /\ Goes(u, Idle)
    BY DEF DiagnoseCreates
  <1>2. PICK d \in Dialogues :
          /\ dialogue[d] = NoDialogue
          /\ dialogue' = [dialogue EXCEPT ![d] =
                [@ EXCEPT !.state = "selecting_server", !.account = update[u].account]]
    BY DEF DiagnoseCreates
  <1>3. PICK row : row = [dialogue[d] EXCEPT !.state = "selecting_server",
                                             !.account = update[u].account]
    OBVIOUS
  <1>4. row \in Dialogue /\ row.state = "selecting_server"
    <2>1. update[u].account \in Accounts \cup {Nothing} /\ dialogue[d] \in Dialogue
      BY DEF Inv, TypeOK, Request
    <2> QED
      BY <1>3, <2>1 DEF Dialogue, ActiveStates, Selecting
  <1>5. dialogue' = [dialogue EXCEPT ![d] = row]
    BY <1>2, <1>3
  <1>6. dialogue[d].state = "absent"
    BY <1>2 DEF NoDialogue
  <1>7. /\ dialogue' \in [Dialogues -> Dialogue] /\ ServersRight'
        /\ \A e \in Dialogues : Persists(e)
    BY <1>4, <1>5, <1>6, Written
  <1>8. RequestRight(u)'
    <2>1. update'[u] = Idle
      BY <1>1, IdleRequest, MovesOn DEF Inv
    <2> QED
      BY <2>1, IdleRequest, EmptyHanded
  <1>9. link' \in Link /\ session' \in Session \cup {Nothing} /\ SessionsFit'
    BY <1>1 DEF Inv, TypeOK, SessionsFit
  <1> QED
    BY <1>1, <1>7, <1>8, <1>9, IdleRequest, RequestStep

\* A selection that saves late saves what fits the dialogue as it is now: a
\* server of its account, or a state after the selection of a server that the
\* dialogue still has.
LEMMA SelectSavesInv ==
  ASSUME Inv, NEW u \in Updates, SelectSaves(u)
  PROVE  Inv'
  <1>1. UNCHANGED <<token, uses, link, session>> /\ Goes(u, Idle)
    BY DEF SelectSaves
  <1>2. SelectionRight(u)
    BY DEF SelectSaves, Inv, RequestRight
  <1>3. PICK d \in Dialogues : d = update[u].on
    BY <1>2 DEF SelectionRight
  <1>4. PICK row : row = Selected(dialogue[d], update[u])
    OBVIOUS
  <1>5. dialogue' = [dialogue EXCEPT ![d] = row]
    BY <1>3, <1>4 DEF SelectSaves
  <1>6. Following(update[u].read) \in ActiveStates \ {"selecting_server"}
    BY <1>2 DEF SelectionRight, Following, ActiveStates, Selecting
  <1>7. PICK state \in ActiveStates \ {"selecting_server"} :
          state = Following(update[u].read)
    BY <1>6
  <1>8. dialogue[d] \in Dialogue
    BY DEF Inv, TypeOK
  <1>9. /\ row \in Dialogue /\ row.state = state
        /\ row.account = dialogue[d].account
        /\ row.server = IF update[u].read = "selecting_server" THEN update[u].choice
                        ELSE dialogue[d].server
    <2>1. CASE update[u].read = "selecting_server"
      <3>1. row = [dialogue[d] EXCEPT !.state = state, !.late = FALSE,
                                      !.server = update[u].choice]
        BY <1>4, <1>7, <1>8, <2>1 DEF Selected, Dialogue
      <3>2. update[u].choice \in Servers
        BY <1>2, <2>1 DEF SelectionRight
      <3> QED
        BY <1>8, <2>1, <3>1, <3>2 DEF Dialogue
    <2>2. CASE update[u].read = "selecting_application"
      <3>1. row = [dialogue[d] EXCEPT !.state = state, !.late = FALSE,
                                      !.app = update[u].choice]
        BY <1>4, <1>7, <1>8, <2>2 DEF Selected, Dialogue
      <3>2. update[u].choice \in Applications \cup {Nothing}
        BY <1>2, <2>2 DEF SelectionRight
      <3> QED
        BY <1>8, <2>2, <3>1, <3>2 DEF Dialogue
    <2>3. CASE update[u].read \notin {"selecting_server", "selecting_application"}
      <3>1. row = [dialogue[d] EXCEPT !.state = state, !.late = FALSE]
        BY <1>4, <1>7, <1>8, <2>3 DEF Selected, Dialogue
      <3> QED
        BY <1>8, <2>3, <3>1 DEF Dialogue
    <2> QED
      BY <2>1, <2>2, <2>3
  <1>10. row.server \in Servers /\ ServerAccount[row.server] = row.account
    BY <1>2, <1>3, <1>9 DEF SelectionRight, Chosen
  <1>11. row.state # "absent"
    BY <1>9 DEF ActiveStates, Selecting
  <1>12. /\ dialogue' \in [Dialogues -> Dialogue] /\ ServersRight'
         /\ \A e \in Dialogues : Persists(e)
    BY <1>5, <1>9, <1>10, <1>11, Written
  <1>13. RequestRight(u)'
    <2>1. update'[u] = Idle
      BY <1>1, IdleRequest, MovesOn DEF Inv
    <2> QED
      BY <2>1, IdleRequest, EmptyHanded
  <1>14. link' \in Link /\ session' \in Session \cup {Nothing} /\ SessionsFit'
    BY <1>1 DEF Inv, TypeOK, SessionsFit
  <1> QED
    BY <1>1, <1>12, <1>13, <1>14, IdleRequest, RequestStep

\* The confirmation looks at the application again.
LEMMA ConfirmInv ==
  ASSUME OwnersAssumption, Inv, NEW u \in Updates, Confirm(u)
  PROVE  Inv'
  <1>1. UNCHANGED <<token, uses, link>> /\ Goes(u, Idle)
    BY DEF Confirm
  <1>2. PICK d \in Dialogues :
          /\ dialogue[d].state = "awaiting_confirmation"
          /\ Fits(dialogue[d])
          /\ session' = [account |-> dialogue[d].account, server |-> dialogue[d].server,
                         app |-> dialogue[d].app]
          /\ dialogue' = [dialogue EXCEPT ![d] =
                [@ EXCEPT !.state = "active", !.confirmed = TRUE]]
    BY DEF Confirm
  <1>3. dialogue[d] \in Dialogue
    BY DEF Inv, TypeOK
  <1>4. PICK row : row = [dialogue[d] EXCEPT !.state = "active", !.confirmed = TRUE]
    OBVIOUS
  <1>5. /\ row \in Dialogue /\ row.account = dialogue[d].account
        /\ row.server = dialogue[d].server /\ row.state = "active"
    BY <1>3, <1>4 DEF Dialogue, ActiveStates
  <1>6. dialogue' = [dialogue EXCEPT ![d] = row]
    BY <1>2, <1>4
  <1>7. dialogue[d].state \in ActiveStates \ {"selecting_server"}
    BY <1>2 DEF ActiveStates
  <1>8. /\ dialogue' \in [Dialogues -> Dialogue] /\ ServersRight'
        /\ \A e \in Dialogues : Persists(e)
    BY <1>5, <1>6, <1>7, StateWritten
  <1>9. dialogue[d].server \in Servers /\ dialogue[d].account \in Accounts
    BY <1>7 DEF Inv, ServersRight, Chosen, OwnersAssumption
  <1>10. session' \in Session \cup {Nothing} /\ SessionsFit'
    BY <1>2, <1>3, <1>9 DEF Session, SessionsFit, Fits, Dialogue
  <1>11. RequestRight(u)'
    <2>1. update'[u] = Idle
      BY <1>1, IdleRequest, MovesOn DEF Inv
    <2> QED
      BY <2>1, IdleRequest, EmptyHanded
  <1>12. link' \in Link
    BY <1>1 DEF Inv, TypeOK
  <1> QED
    BY <1>1, <1>8, <1>10, <1>11, <1>12, IdleRequest, RequestStep

LEMMA NextInv == Inv /\ [Next]_vars => Inv'
  <1> SUFFICES ASSUME Inv, [Next]_vars PROVE Inv'
    OBVIOUS
  <1>1. CASE UNCHANGED vars
    <2>1. UNCHANGED <<token, uses, link, dialogue, session, update>>
      BY <1>1 DEF vars
    <2>2. ServersRight' /\ \A u \in Updates : RequestRight(u)'
      BY <2>1, DialoguesLeft, OthersRight
    <2> QED
      BY <2>1, <2>2 DEF Inv, TypeOK, CodesRight, CodeLinksOnce, SessionsFit
  <1>2. ASSUME NEW u \in Updates, Handles(u) PROVE Inv'
    BY <1>2, OwnersAssumption, LinkBeginsInv, LinkEndsInv, ReadingInv, FindLateInv,
       DialogueEndsInv, DiagnoseCreatesInv, SelectReadsInv, SelectSavesInv, ConfirmInv
    DEF Handles
  <1>3. ASSUME NEW t \in Tokens, LinkAgain(t) \/ VoidToken(t) PROVE Inv'
    BY <1>3, OwnersAssumption, NothingAssumption, LinkAgainInv, VoidTokenInv
  <1>4. ASSUME NEW d \in Dialogues, Tick(d) PROVE Inv'
    BY <1>4, TickInv
  <1> QED
    BY <1>1, <1>2, <1>3, <1>4 DEF Next

LEMMA AlwaysInv == Spec => []Inv
  BY InitInv, NextInv, PTL DEF Spec

-----------------------------------------------------------------------------

\* Every reachable state of a chat is well typed: what a selection saves is a
\* server or an application, as its field demands, although it may be saved
\* to a dialogue in another state.
THEOREM TypeCorrect == Spec => []TypeOK
  <1>1. Inv => TypeOK
    BY DEF Inv
  <1> QED
    BY <1>1, AlwaysInv, PTL

\* A code links once, for any number of updates that bring it.
THEOREM CodeLinksOnceHolds == Spec => []CodeLinksOnce
  <1>1. Inv => CodeLinksOnce
    BY DEF Inv
  <1> QED
    BY <1>1, AlwaysInv, PTL

\* A dialogue past the selection of its server has one, of its account, and a
\* session is started only from what hangs together, whatever overlaps.
THEOREM DialogueFitsHolds == Spec => []DialogueFits
  <1>1. Inv => DialogueFits
    <2> SUFFICES ASSUME Inv PROVE DialogueFits
      OBVIOUS
    <2>1. ServerChosen
      BY NothingAssumption DEF ServerChosen, Active, Inv, ServersRight, Chosen
    <2> QED
      BY <2>1 DEF Inv, DialogueFits
  <1> QED
    BY <1>1, AlwaysInv, PTL

\* An active link changes its account only through an update that looked before
\* the chat had its first link.
THEOREM AccountKeptHolds == Spec => AccountKept
  <1>1. Inv /\ [Next]_vars =>
          [/\ link.status = "active"
           /\ link'.account # link.account
           => \E u \in Updates : update[u].stage = "linking"]_vars
    <2> SUFFICES ASSUME Inv, Next, link.status = "active", link'.account # link.account
                 PROVE  \E u \in Updates : update[u].stage = "linking"
      OBVIOUS
    <2>1. ASSUME NEW u \in Updates, Handles(u)
          PROVE  update[u].stage = "linking"
      <3>1. CASE Unlink(u)
        BY <3>1 DEF Unlink, Inv, TypeOK, Link
      <3>2. CASE LinkEnds(u)
        BY <3>2 DEF LinkEnds
      <3>3. CASE link' = link
        BY <3>3
      <3> QED
        BY <2>1, <3>1, <3>2, <3>3 DEF Handles, LinkBegins, ReadLink, FindLate,
           SaveExpired, LockedExpires, DiagnoseLooks, DiagnoseCreates, SelectReads,
           SelectSaves, Confirm, Approve, Cancel, Stops
    <2>2. ~\E t \in Tokens : LinkAgain(t)
      BY DEF LinkAgain, MayLink, Links
    <2> QED
      BY <2>1, <2>2 DEF Next, VoidToken, Tick
  <1> QED
    BY <1>1, AlwaysInv, PTL DEF Spec, AccountKept

=============================================================================
