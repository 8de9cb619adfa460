--------------------------- MODULE AccountsProofs ---------------------------
(***************************************************************************)
(* Whoever plays under a name has given its one password, and a player is  *)
(* let in again where it was last left: what the table of accounts, the    *)
(* requests of the gatekeeper, the sessions made from them and the saves   *)
(* on their way to the table say of one another.                           *)
(***************************************************************************)
EXTENDS Accounts, TLAPS

\* A connection has one client, which has a session, and joins the game once.
JoinsOnce ==
  /\ \A c, d \in Clients : conn[c] # None /\ conn[c] = conn[d] => c = d
  /\ \A c \in Clients :
       /\ conn[c] # None => link[conn[c]] # "unused"
       /\ countdown[c] => session[c] # None
       /\ screen[c] = "Connecting" => conn[c] # None /\ session[c] # None
       /\ Contains(events[c], "StreamCreated") =>
            /\ screen[c] = "Connecting"
            /\ link[conn[c]] \in {"ready", "down"} /\ game[conn[c]] = None
  /\ \A k \in Conns : game[k] # None => link[k] \in {"ready", "down"}

\* What the broker and the database service know of a connection is about the
\* session it has joined with.
InTheGame ==
  /\ \A k \in Conns :
       /\ player[k] # "none" => game[k] # None
       /\ \A s \in Roles : copies[k][s] # None => game[k] # None
       /\ player_map[k] # None => game[k] # None /\ game[k].name = player_map[k]
  /\ \A i \in 1 .. Len(db_queue) :
       /\ game[db_queue[i].conn] # None
       /\ db_queue[i].type = "Register" => db_queue[i].name = game[db_queue[i].conn].name

GameInv == TypeOK /\ JoinsOnce /\ InTheGame

\* There is an account n with the password p.
KnownIn(table, n, p) == \E r \in table : r.name = n /\ r.password = p
Known(n, p) == KnownIn(rows, n, p)

Looking(c, n) == Asked(c, "missing") /\ request[c].name = n

\* Unless two first logins have overlapped, the rows of a name have one
\* password, and whoever is about to create an account is alone and finds none.
OneAccount(n) ==
  /\ \A r, s \in RowsOf(n) : r.password = s.password
  /\ \A c, d \in Clients : Looking(c, n) /\ Looking(d, n) => c = d
  /\ \A c \in Clients : Looking(c, n) => RowsOf(n) = {}

\* A session is made from an account that exists.
FromAccounts ==
  /\ \A c \in Clients :
       /\ Asked(c, "accepted") => Known(request[c].name, Trim[request[c].password])
       /\ session[c] # None => Known(session[c].name, session[c].password)
  /\ \A k \in Conns : game[k] # None => Known(game[k].name, game[k].password)

AccountInv == GameInv /\ FromAccounts /\ \A n \in Names \ raced : OneAccount(n)

SaveAt(i, n) == db_queue[i].type = "Save" /\ game[db_queue[i].conn].name = n

Waiting(n) == \E i \in 1 .. Len(db_queue) : SaveAt(i, n)

\* The last of the saves of n that wait has the place n was left at.
LastIsLatest(n) ==
  \A i \in 1 .. Len(db_queue) :
    SaveAt(i, n) /\ (\A j \in i + 1 .. Len(db_queue) : ~SaveAt(j, n)) =>
      db_queue[i].place = left[n]

\* When none waits, those under way have it; when none is under way, the table.
TableFollows(n) ==
  n \notin blurred /\ ~Waiting(n) =>
    /\ \A u \in saves : u.name = n => u.place = left[n]
    /\ (\A u \in saves : u.name # n) /\ n \notin raced =>
         \A r \in RowsOf(n) : r.place = left[n]

\* Nobody has left under a name without an account.
NewIsAtOrigin(n) == RowsOf(n) = {} => left[n] = Origin /\ \A u \in saves : u.name # n

PlaceInv == AccountInv /\ \A n \in Names : LastIsLatest(n) /\ TableFollows(n) /\ NewIsAtOrigin(n)
----------------------------------------------------------------------------
(***************************************************************************)
(* Types.                                                                  *)
(***************************************************************************)

\* What the client and the table exchange is well formed.
LEMMA RecordTypes ==
  /\ \A ph \in Phases, n \in Names, p \in Passwords, s \in Places :
       Request(ph, n, p, s) \in Requests
  /\ \A n \in Names, p \in Passwords, s \in Places :
       Session(n, Trim[p], s) \in Sessions /\ Row(n, Trim[p], s) \in Sessions
BY DEF Request, Requests, Session, Row, Sessions

\* The fields of a request, an account or a session.
LEMMA RecordFields ==
  /\ \A q \in Requests : /\ q.phase \in Phases /\ q.name \in Names
                         /\ q.password \in Passwords /\ q.place \in Places
  /\ \A s \in Sessions : s.name \in Names /\ s.place \in Places
  /\ None \notin Requests /\ None \notin Sessions
BY AccountsAssumption DEF Requests, Sessions

\* An answer keeps the name and the password that were asked about.
LEMMA AnswerType ==
  ASSUME TypeOK, NEW c \in Clients, NEW phase \in Phases, NEW place \in Places,
         Answered(c, phase, place), request[c] # None
  PROVE  /\ request' \in [Clients -> Requests \cup {None}]
         /\ request'[c] \in Requests
         /\ request'[c].phase = phase /\ request'[c].place = place
         /\ request'[c].name = request[c].name
         /\ request'[c].password = request[c].password
         /\ \A d \in Clients \ {c} : request'[d] = request[d]
<1>1. request[c] \in Requests /\ request \in [Clients -> Requests \cup {None}]
  BY DEF TypeOK
<1>2. [request[c] EXCEPT !.phase = phase, !.place = place] \in Requests
  BY <1>1 DEF Requests
<1> QED
  BY <1>1, <1>2 DEF Answered, Requests

\* An event is appended or nothing is.
LEMMA ReportType ==
  ASSUME TypeOK, NEW k, NEW e \in Deciding \cup {"Connected"}, Reports(k, e)
  PROVE  events' \in [Clients -> Seq(Deciding \cup {"Connected"})]
<1>1. \A c \in Clients : events[c] \in Seq(Deciding \cup {"Connected"})
  BY DEF TypeOK
<1>2. \A c \in Clients : Append(events[c], e) \in Seq(Deciding \cup {"Connected"})
  BY <1>1
<1> QED
  BY <1>1, <1>2 DEF Reports

\* Nothing has happened at first.
LEMMA TypeInit == Init => TypeOK
<1> SUFFICES ASSUME Init PROVE TypeOK
  OBVIOUS
<1>1. NoCopies \in [Roles -> Places \cup {None}]
  BY DEF NoCopies
<1> QED
  BY <1>1, AccountsAssumption DEF Init, TypeOK

\* The connection dialled next has not been used.
LEMMA NextConnIsUnused == Unused # {} => NextConn \in Conns /\ link[NextConn] = "unused"
BY DEF Unused, NextConn

\* The screen poll_net_events asks for.
LEMMA DecidesType == \A q : Decides(q) \in {"Login", "Connecting", "InGame"}
BY DEF Decides

\* The client keeps the types.
LEMMA TypeClient ==
  ASSUME TypeOK, NEW c \in Clients, ClientSteps(c)
  PROVE  TypeOK'
<1> USE RecordTypes, RecordFields, AccountsAssumption
<1>1. ASSUME NEW n \in Names, NEW p \in Passwords, HandleSubmit(c, n, p) PROVE TypeOK'
  <2>1. Request("sent", n, p, Origin) \in Requests
    BY DEF Phases
  <2> QED
    BY <1>1, <2>1 DEF HandleSubmit, TypeOK, gameVars, serviceVars, history
<1>2. ASSUME TakesAnswer(c), screen[c] = "Login"
      PROVE  /\ request' \in [Clients -> Requests \cup {None}]
             /\ session' \in [Clients -> Sessions \cup {None}]
  <2>1. Asked(c, "accepted") => 
          Session(request[c].name, Trim[request[c].password], request[c].place) \in Sessions
    BY DEF Asked, TypeOK
  <2> QED
    BY <1>2, <2>1 DEF TakesAnswer, TypeOK
<1>3. CASE PollJoinTask(c)
  BY <1>2, <1>3 DEF PollJoinTask, TypeOK, gameVars, serviceVars, history
<1>4. CASE TickSuccessTimer(c)
  <2>1. /\ request' \in [Clients -> Requests \cup {None}]
        /\ session' \in [Clients -> Sessions \cup {None}]
        /\ countdown' \in [Clients -> BOOLEAN]
    BY <1>2, <1>4 DEF TickSuccessTimer, TypeOK
  <2>2. StartsConnect(c) /\ NextConn \in Conns
    BY <1>4, NextConnIsUnused DEF TickSuccessTimer, StartsConnect
  <2> QED
    BY <2>1, <2>2 DEF StartsConnect, TypeOK, serviceVars, history
<1>5. CASE Refuse(c)
  <2>1. request' \in [Clients -> Requests \cup {None}]
    BY <1>5, AnswerType DEF Refuse, Asked, Phases
  <2> QED
    BY <1>5, <2>1 DEF Refuse, Gatekeeper, TypeOK, gameVars, serviceVars
<1>6. CASE FindPlayer(c)
  <2>1. request[c] # None /\ request[c].name \in Names
    BY <1>6 DEF FindPlayer, Asked, TypeOK
  <2>2. \E ph \in Phases, s \in Places : Answered(c, ph, s)
    <3>1. \A r \in RowsOf(request[c].name) : r.place \in Places
      BY DEF RowsOf, TypeOK
    <3> QED
      BY <1>6, <3>1 DEF FindPlayer, Phases
  <2>3. request' \in [Clients -> Requests \cup {None}]
    BY <2>1, <2>2, AnswerType
  <2>4. raced' \in SUBSET Names /\ rows' = rows
    BY <1>6, <2>1 DEF FindPlayer, TypeOK
  <2> QED
    BY <1>6, <2>3, <2>4 DEF FindPlayer, Gatekeeper, TypeOK, gameVars, serviceVars
<1>7. CASE CreatePlayer(c)
  <2>1. request[c] # None /\ request[c] \in Requests
    BY <1>7 DEF CreatePlayer, Asked, TypeOK
  <2>2. request' \in [Clients -> Requests \cup {None}]
    BY <1>7, <2>1, AnswerType DEF CreatePlayer, Phases
  <2>3. Row(request[c].name, Trim[request[c].password], Origin) \in Sessions
    BY <2>1
  <2> QED
    BY <1>7, <2>2, <2>3 DEF CreatePlayer, Gatekeeper, TypeOK, gameVars, serviceVars
<1>8. ASSUME NEW expires \in BOOLEAN, Frame(c, expires) PROVE TypeOK'
  <2>1. screen' \in [Clients -> {"Login", "Connecting", "InGame"}]
    <3>1. \E s \in {"Login", Decides(events[c])} : screen' = [screen EXCEPT ![c] = s]
      BY <1>8 DEF Frame
    <3>2. screen \in [Clients -> {"Login", "Connecting", "InGame"}]
      BY DEF TypeOK
    <3> QED
      BY <3>1, <3>2, DecidesType
  <2>2. timeout' \in [Clients -> BOOLEAN]
    BY <1>8 DEF Frame, TypeOK
  <2>3. link' \in [Conns -> {"unused", "dialling", "up", "opening", "ready", "down"}]
    BY <1>8 DEF Frame, TypeOK
  <2>4. /\ player' \in [Conns -> {"none", "sent", "registered", "playing"}]
        /\ game' \in [Conns -> Sessions \cup {None}]
    BY <1>8 DEF Frame, TypeOK
  <2>5. events' \in [Clients -> Seq(Deciding \cup {"Connected"})]
    BY <1>8 DEF Frame, TypeOK
  <2> QED
    BY <1>8, <2>1, <2>2, <2>3, <2>4, <2>5 DEF Frame, TypeOK, serviceVars, history
<1>9. CASE Restart(c)
  BY <1>9 DEF Restart, TypeOK, gameVars, serviceVars, history
<1> QED
  BY <1>1, <1>3, <1>4, <1>5, <1>6, <1>7, <1>8, <1>9 DEF ClientSteps

\* What is sent to the database service.
DbMessages == [type : {"Register"}, conn : Conns, name : Names]
                \cup [type : {"Save"}, conn : Conns, place : Places]

\* A copy of a player that exists has a place, and its player a name.
LEMMA CopyTypes ==
  ASSUME TypeOK, NEW k \in Conns, NEW s \in Roles
  PROVE  /\ copies[k][s] \in Places \cup {None}
         /\ \A p \in Places \cup {None} :
              [copies EXCEPT ![k][s] = p] \in [Conns -> [Roles -> Places \cup {None}]]
BY DEF TypeOK

\* The connections, the broker and the shards keep the types.
LEMMA TypeConn ==
  ASSUME TypeOK, InTheGame, NEW k \in Conns, ConnSteps(k)
  PROVE  TypeOK'
<1> USE RecordFields, AccountsAssumption
<1>1. CASE Connects(k) \/ CannotConnect(k) \/ OpensStream(k) \/ LinkEnds(k)
  <2>1. events' \in [Clients -> Seq(Deciding \cup {"Connected"})]
    BY <1>1, ReportType DEF Connects, CannotConnect, OpensStream, LinkEnds, Deciding
  <2>2. link' \in [Conns -> {"unused", "dialling", "up", "opening", "ready", "down"}]
    BY ZenonT(40), <1>1 DEF Connects, CannotConnect, OpensStream, LinkEnds, TypeOK
  <2>3. Backend
    BY <1>1 DEF Connects, CannotConnect, OpensStream, LinkEnds
  <2> QED
    BY <2>1, <2>2, <2>3 DEF Backend, TypeOK, serviceVars, history
<1>2. CASE Registers(k)
  <2>1. game[k] # None /\ game[k] \in Sessions
    BY <1>2 DEF Registers, InTheGame, TypeOK
  <2>2. RegisterMsg(k, game[k].name) \in DbMessages
    BY <2>1 DEF RegisterMsg, DbMessages
  <2>3. db_queue' \in Seq(DbMessages)
    BY <1>2, <2>2 DEF Registers, TypeOK, DbMessages
  <2> QED
    BY <1>2, <2>3 DEF Registers, InGameVars, clientVars, TypeOK, DbMessages
<1>3. CASE Starts(k)
  <2>1. game[k] # None /\ game[k] \in Sessions
    BY <1>3 DEF Starts, InTheGame, TypeOK
  <2>2. copies' \in [Conns -> [Roles -> Places \cup {None}]]
    BY <1>3, <2>1, CopyTypes DEF Starts, Roles
  <2> QED
    BY <1>3, <2>2 DEF Starts, InGameVars, clientVars, TypeOK
<1>4. ASSUME NEW p \in Places, Moves(k, p) PROVE TypeOK'
  <2>1. copies' \in [Conns -> [Roles -> Places \cup {None}]]
    BY <1>4, CopyTypes DEF Moves, Roles
  <2> QED
    BY <1>4, <2>1 DEF Moves, InGameVars, clientVars, TypeOK
<1>5. CASE Mirrors(k)
  <2>1. copies' \in [Conns -> [Roles -> Places \cup {None}]]
    BY <1>5, CopyTypes DEF Mirrors, Roles
  <2> QED
    BY <1>5, <2>1 DEF Mirrors, InGameVars, clientVars, TypeOK
<1>6. ASSUME NEW s \in Roles, Leaves(k, s) PROVE TypeOK'
  <2>1. copies[k][s] \in Places /\ copies' \in [Conns -> [Roles -> Places \cup {None}]]
    BY <1>6, CopyTypes DEF Leaves
  <2>2. SaveMsg(k, copies[k][s]) \in DbMessages
    BY <2>1 DEF SaveMsg, DbMessages
  <2>3. game[k] # None /\ game[k] \in Sessions
    BY <1>6 DEF Leaves, InTheGame, TypeOK
  <2>4. db_queue' \in Seq(DbMessages) /\ left' \in [Names -> Places]
    BY <1>6, <2>1, <2>2, <2>3 DEF Leaves, TypeOK, DbMessages
  <2> QED
    BY <1>6, <2>1, <2>4 DEF Leaves, InGameVars, clientVars, TypeOK, DbMessages
<1> QED
  BY <1>1, <1>2, <1>3, <1>4, <1>5, <1>6 DEF ConnSteps

\* The service handles messages about players that have a session.
LEMMA QueueTypes ==
  ASSUME TypeOK, InTheGame
  PROVE  /\ db_queue \in Seq(DbMessages)
         /\ \A i \in 1 .. Len(db_queue) :
              /\ db_queue[i] \in DbMessages /\ db_queue[i].conn \in Conns
              /\ db_queue[i].type = "Register" => db_queue[i].name \in Names
              /\ db_queue[i].type = "Save" => db_queue[i].place \in Places
              /\ game[db_queue[i].conn] \in Sessions /\ game[db_queue[i].conn].name \in Names
         /\ db_queue # << >> => /\ 1 \in 1 .. Len(db_queue) /\ Head(db_queue) = db_queue[1]
                               /\ Tail(db_queue) \in Seq(DbMessages)
<1>1. db_queue \in Seq(DbMessages)
  BY DEF TypeOK, DbMessages
<1>2. ASSUME NEW i \in 1 .. Len(db_queue)
      PROVE  /\ db_queue[i] \in DbMessages /\ db_queue[i].conn \in Conns
             /\ game[db_queue[i].conn] \in Sessions /\ game[db_queue[i].conn].name \in Names
             /\ db_queue[i].type = "Register" => db_queue[i].name \in Names
             /\ db_queue[i].type = "Save" => db_queue[i].place \in Places
  <2>1. db_queue[i] \in DbMessages
    BY <1>1
  <2>2. db_queue[i].conn \in Conns /\ game[db_queue[i].conn] # None
    BY <2>1 DEF DbMessages, InTheGame
  <2> QED
    BY <2>1, <2>2, RecordFields DEF DbMessages, TypeOK
<1> QED
  BY <1>1, <1>2

\* The database service keeps the types.
LEMMA TypeService ==
  ASSUME TypeOK, InTheGame, ServiceSteps
  PROVE  TypeOK'
<1> USE RecordFields, AccountsAssumption
<1>1. ASSUME NEW type, HandleMessage(type)
      PROVE  db_queue' \in Seq(DbMessages)
  BY <1>1, QueueTypes DEF HandleMessage
<1>2. CASE HandleRegister
  <2>1. player_map' \in [Conns -> Names \cup {None}]
    BY <1>2, QueueTypes DEF HandleRegister, HandleMessage, TypeOK
  <2> QED
    BY <1>1, <1>2, <2>1 DEF HandleRegister, HandleMessage, TypeOK, DbMessages, clientVars, gameVars
<1>3. CASE HandleQuery
  <2> DEFINE m == Head(db_queue)
  <2>1. /\ m.conn \in Conns /\ m.place \in Places /\ game[m.conn].name \in Names
        /\ player_map[m.conn] \in Names \cup {None}
    BY <1>3, QueueTypes DEF HandleQuery, HandleMessage, TypeOK
  <2>2. saves' \in SUBSET [name : Names, place : Places] /\ blurred' \in SUBSET Names
    BY <1>3, <2>1 DEF HandleQuery, TypeOK
  <2> QED
    BY <1>1, <1>3, <2>2 DEF HandleQuery, HandleMessage, TypeOK, DbMessages, clientVars, gameVars
<1>4. ASSUME NEW u \in saves, Updates(u) \/ UpdateFails(u) PROVE TypeOK'
  <2>1. u \in [name : Names, place : Places] /\ rows \in SUBSET Sessions
    BY DEF TypeOK
  <2>2. \A r \in rows : [r EXCEPT !.place = u.place] \in Sessions
    BY <2>1 DEF Sessions
  <2>3. rows' \in SUBSET Sessions
    <3>1. CASE Updates(u)
      BY <2>1, <2>2, <3>1 DEF Updates
    <3>2. CASE UpdateFails(u)
      BY <2>1, <3>2 DEF UpdateFails
    <3> QED
      BY <1>4, <3>1, <3>2
  <2>4. saves' \in SUBSET [name : Names, place : Places] /\ blurred' \in SUBSET Names
    BY <1>4, <2>1 DEF Updates, UpdateFails, TypeOK, history
  <2> QED
    BY <1>4, <2>3, <2>4 DEF Updates, UpdateFails, TypeOK, clientVars, gameVars, history
<1>5. CASE RestartService
  <2>1. /\ \A u \in saves : u.name \in Names
        /\ \A i \in 1 .. Len(db_queue) : game[db_queue[i].conn].name \in Names
    BY QueueTypes DEF TypeOK
  <2>2. blurred' \in SUBSET Names
    BY <1>5, <2>1 DEF RestartService, TypeOK
  <2> QED
    BY <1>5, <2>2 DEF RestartService, TypeOK, clientVars, gameVars
<1> QED
  BY <1>2, <1>3, <1>4, <1>5 DEF ServiceSteps

\* Every step keeps the types.
LEMMA TypeStep == TypeOK /\ InTheGame /\ [Next]_vars => TypeOK'
<1> SUFFICES ASSUME TypeOK, InTheGame, [Next]_vars PROVE TypeOK'
  OBVIOUS
<1>1. CASE UNCHANGED vars
  BY <1>1 DEF TypeOK, vars, clientVars, gameVars, serviceVars, history
<1> QED
  BY <1>1, TypeClient, TypeConn, TypeService DEF Next
----------------------------------------------------------------------------
(***************************************************************************)
(* The game.                                                               *)
(***************************************************************************)

\* What a report adds to the events of a client.
LEMMA ReportedEvents ==
  ASSUME TypeOK, NEW k, NEW e \in Deciding \cup {"Connected"}, Reports(k, e), NEW c \in Clients,
         Contains(events'[c], "StreamCreated")
  PROVE  \/ Contains(events[c], "StreamCreated")
         \/ e = "StreamCreated" /\ screen[c] = "Connecting" /\ conn[c] = k
<1>1. CASE events'[c] = events[c]
  BY <1>1
<1>2. CASE screen[c] = "Connecting" /\ conn[c] = k /\ events'[c] = Append(events[c], e)
  <2>1. events[c] \in Seq(Deciding \cup {"Connected"})
    BY DEF TypeOK
  <2>2. PICK i \in 1 .. Len(Append(events[c], e)) : Append(events[c], e)[i] = "StreamCreated"
    BY <1>2 DEF Contains
  <2>3. i \in 1 .. Len(events[c]) => events[c][i] = "StreamCreated"
    BY <2>1, <2>2
  <2>4. i = Len(events[c]) + 1 => e = "StreamCreated"
    BY <2>1, <2>2
  <2> QED
    BY <1>2, <2>1, <2>2, <2>3, <2>4 DEF Contains
<1> QED
  BY <1>1, <1>2 DEF Reports

\* Whoever joins has not joined before, and has a session to join with.
LEMMA FrameJoins ==
  ASSUME TypeOK, JoinsOnce, NEW c \in Clients, NEW expires \in BOOLEAN, Frame(c, expires)
  PROVE  /\ conn[c] \in Conns /\ session[c] # None
         /\ \A k \in Conns : \/ game'[k] = game[k]
                             \/ /\ k = conn[c] /\ game[k] = None /\ game'[k] = session[c]
                                /\ link[k] \in {"ready", "down"}
         /\ \A k \in Conns : player'[k] # player[k] => game'[k] # None
         /\ \A k \in Conns : link'[k] = link[k] \/ (link[k] = "up" /\ link'[k] = "opening")
<1>1. screen[c] = "Connecting" /\ conn[c] \in Conns /\ session[c] # None
  BY DEF Frame, JoinsOnce, TypeOK
<1> DEFINE joins == Contains(events[c], "StreamCreated")
<1>2. joins => link[conn[c]] \in {"ready", "down"} /\ game[conn[c]] = None
  BY <1>1 DEF JoinsOnce
<1>3. /\ game' = [game EXCEPT ![conn[c]] = IF joins THEN session[c] ELSE @]
      /\ player' = [player EXCEPT ![conn[c]] =
                      IF joins /\ link[conn[c]] = "ready" THEN "sent" ELSE @]
      /\ link' = [link EXCEPT ![conn[c]] =
                    IF Contains(events[c], "Connected") /\ @ = "up" THEN "opening" ELSE @]
  BY DEF Frame
<1>4. /\ game \in [Conns -> Sessions \cup {None}]
      /\ player \in [Conns -> {"none", "sent", "registered", "playing"}]
      /\ link \in [Conns -> {"unused", "dialling", "up", "opening", "ready", "down"}]
  BY DEF TypeOK
<1> HIDE DEF joins
<1> QED
  BY <1>1, <1>2, <1>3, <1>4

\* A session that has joined the game stays what it is.
LEMMA GameKept ==
  ASSUME TypeOK, JoinsOnce, [Next]_vars, NEW k \in Conns, game[k] # None
  PROVE  game'[k] = game[k]
<1>1. ASSUME NEW c \in Clients, ClientSteps(c) PROVE game'[k] = game[k]
  <2>1. ASSUME NEW expires \in BOOLEAN, Frame(c, expires) PROVE game'[k] = game[k]
    BY <2>1, FrameJoins
  <2>2. game' = game \/ \E expires \in BOOLEAN : Frame(c, expires)
    BY <1>1 DEF ClientSteps, HandleSubmit, PollJoinTask, TickSuccessTimer, StartsConnect, Refuse,
                FindPlayer, CreatePlayer, Gatekeeper, Restart, gameVars
  <2> QED
    BY <2>1, <2>2
<1>2. ASSUME NEW o \in Conns, ConnSteps(o) PROVE game' = game
  BY <1>2 DEF ConnSteps, Connects, CannotConnect, OpensStream, LinkEnds, Backend, Registers,
              Starts, Moves, Mirrors, Leaves, InGameVars
<1>3. ASSUME ServiceSteps PROVE game' = game
  BY <1>3 DEF ServiceSteps, HandleRegister, HandleQuery, HandleMessage, Updates, UpdateFails,
              RestartService, gameVars
<1>4. CASE UNCHANGED vars
  BY <1>4 DEF vars, gameVars
<1> QED
  BY <1>1, <1>2, <1>3, <1>4 DEF Next

\* What JoinsOnce is about.
joinVars == << screen, countdown, session, conn, events, link, game >>

\* A connection is dialled by one client and joined once.
LEMMA JoinsStep ==
  ASSUME TypeOK, JoinsOnce, [Next]_vars
  PROVE  JoinsOnce'
<1> USE RecordFields
<1>0. /\ session \in [Clients -> Sessions \cup {None}] /\ countdown \in [Clients -> BOOLEAN]
      /\ conn \in [Clients -> Conns \cup {None}] /\ None \notin Conns
      /\ link \in [Conns -> {"unused", "dialling", "up", "opening", "ready", "down"}]
      /\ screen \in [Clients -> {"Login", "Connecting", "InGame"}]
      /\ events \in [Clients -> Seq(Deciding \cup {"Connected"})]
  BY AccountsAssumption DEF TypeOK
<1>1. CASE UNCHANGED joinVars
  BY <1>1 DEF joinVars, JoinsOnce
<1>2. ASSUME NEW c \in Clients, TakesAnswer(c)
      PROVE  /\ \A d \in Clients : session[d] # None => session'[d] # None
             /\ Asked(c, "accepted") => session'[c] # None
  <2>1. Asked(c, "accepted") =>
          Session(request[c].name, Trim[request[c].password], request[c].place) \in Sessions
    BY RecordTypes DEF Asked, TypeOK
  <2> QED
    BY <1>0, <1>2, <2>1 DEF TakesAnswer
<1>3. ASSUME NEW c \in Clients, PollJoinTask(c) PROVE JoinsOnce'
  <2>1. /\ \A d \in Clients : session[d] # None => session'[d] # None
        /\ \A d \in Clients : countdown'[d] => countdown[d] \/ session'[d] # None
    BY <1>0, <1>2, <1>3 DEF PollJoinTask
  <2> QED
    BY <1>3, <2>1 DEF PollJoinTask, JoinsOnce, gameVars
<1>4. ASSUME NEW c \in Clients, TickSuccessTimer(c) PROVE JoinsOnce'
  <2>1. /\ session[c] # None /\ session'[c] # None
        /\ \A d \in Clients : session[d] # None => session'[d] # None
        /\ \A d \in Clients : countdown'[d] => countdown[d]
    BY <1>0, <1>2, <1>4 DEF TickSuccessTimer, JoinsOnce
  <2>2. /\ NextConn \in Conns /\ link[NextConn] = "unused"
        /\ screen' = [screen EXCEPT ![c] = "Connecting"]
        /\ conn' = [conn EXCEPT ![c] = NextConn]
        /\ events' = [events EXCEPT ![c] = << >>]
        /\ link' = [link EXCEPT ![NextConn] = "dialling"]
        /\ game' = game
    BY <1>4, NextConnIsUnused DEF TickSuccessTimer, StartsConnect
  <2>3. ~Contains(<< >>, "StreamCreated")
    BY DEF Contains
  <2>4. /\ \A d \in Clients \ {c} : conn'[d] = conn[d] /\ events'[d] = events[d] /\ screen'[d] = screen[d]
        /\ conn'[c] = NextConn /\ events'[c] = << >>
        /\ \A k \in Conns : link'[k] # link[k] => k = NextConn /\ link'[k] = "dialling"
    BY <1>0, <2>2
  <2>5. \A d \in Clients : conn[d] # NextConn
    BY <1>0, <2>2 DEF JoinsOnce
  <2>6. \A k \in Conns : game'[k] # None => link'[k] \in {"ready", "down"}
    BY <1>0, <2>2 DEF JoinsOnce
  <2>7. \A d, e \in Clients : conn'[d] # None /\ conn'[d] = conn'[e] => d = e
    BY <2>4, <2>5 DEF JoinsOnce
  <2>8. \A d \in Clients :
          /\ conn'[d] # None => link'[conn'[d]] # "unused"
          /\ countdown'[d] => session'[d] # None
          /\ screen'[d] = "Connecting" => conn'[d] # None /\ session'[d] # None
    BY <1>0, <2>1, <2>2, <2>4 DEF JoinsOnce
  <2>9. ASSUME NEW d \in Clients, Contains(events'[d], "StreamCreated")
        PROVE  screen'[d] = "Connecting" /\ link'[conn'[d]] \in {"ready", "down"} /\ game'[conn'[d]] = None
    <3>1. d # c /\ Contains(events[d], "StreamCreated")
      BY <2>3, <2>4, <2>9
    <3>2. screen[d] = "Connecting" /\ conn[d] \in Conns
      BY <1>0, <3>1 DEF JoinsOnce
    <3> QED
      BY <2>2, <2>4, <2>5, <3>1, <3>2 DEF JoinsOnce
  <2> QED
    BY <2>6, <2>7, <2>8, <2>9 DEF JoinsOnce
<1>5. ASSUME NEW c \in Clients, NEW expires \in BOOLEAN, Frame(c, expires) PROVE JoinsOnce'
  <2>1. /\ conn[c] \in Conns /\ session[c] # None
        /\ \A k \in Conns : \/ game'[k] = game[k]
                            \/ /\ k = conn[c] /\ game[k] = None /\ game'[k] = session[c]
                               /\ link[k] \in {"ready", "down"}
        /\ \A k \in Conns : link'[k] = link[k] \/ (link[k] = "up" /\ link'[k] = "opening")
    BY <1>5, FrameJoins
  <2>2. /\ \A d \in Clients \ {c} : events'[d] = events[d] /\ screen'[d] = screen[d]
        /\ events'[c] = << >>
        /\ UNCHANGED << countdown, session, conn >>
    BY <1>0, <1>5 DEF Frame
  <2>3. ~Contains(<< >>, "StreamCreated")
    BY DEF Contains
  <2>4. \A k \in Conns : game'[k] # None => link'[k] \in {"ready", "down"}
    BY <2>1 DEF JoinsOnce
  <2>5. \A d \in Clients :
          /\ conn'[d] # None => link'[conn'[d]] # "unused"
          /\ countdown'[d] => session'[d] # None
          /\ screen'[d] = "Connecting" => conn'[d] # None /\ session'[d] # None
    <3>1. \A d \in Clients : screen'[d] = "Connecting" => d = c \/ screen[d] = "Connecting"
      BY <2>2
    <3>2. \A d \in Clients : conn[d] # None => conn[d] \in Conns /\ link'[conn[d]] # "unused"
      BY <1>0, <2>1 DEF JoinsOnce
    <3> QED
      BY <1>0, <2>1, <2>2, <3>1, <3>2 DEF JoinsOnce
  <2>6. ASSUME NEW d \in Clients, Contains(events'[d], "StreamCreated")
        PROVE  screen'[d] = "Connecting" /\ link'[conn'[d]] \in {"ready", "down"} /\ game'[conn'[d]] = None
    <3>1. d # c /\ Contains(events[d], "StreamCreated")
      BY <2>2, <2>3, <2>6
    <3>2. screen[d] = "Connecting" /\ conn[d] \in Conns /\ conn[d] # conn[c]
      BY <1>0, <2>1, <3>1 DEF JoinsOnce
    <3> QED
      BY <2>1, <2>2, <3>1, <3>2 DEF JoinsOnce
  <2> QED
    BY <2>2, <2>4, <2>5, <2>6 DEF JoinsOnce
<1>6. ASSUME NEW c \in Clients, Restart(c) PROVE JoinsOnce'
  <2>1. \A d \in Clients \ {c} : /\ screen'[d] = screen[d] /\ countdown'[d] = countdown[d]
                                 /\ session'[d] = session[d] /\ conn'[d] = conn[d]
    BY <1>0, <1>6 DEF Restart
  <2>2. /\ screen'[c] = "Login" /\ ~countdown'[c] /\ conn'[c] = None
        /\ events' = events /\ link' = link /\ game' = game /\ screen[c] = "InGame"
    BY <1>0, <1>6 DEF Restart, gameVars
  <2>3. \A d \in Clients : conn'[d] # None => d # c /\ conn'[d] = conn[d]
    BY <2>1, <2>2
  <2>4. \A d \in Clients : Contains(events[d], "StreamCreated") => d # c
    BY <2>2 DEF JoinsOnce
  <2>5. \A d, e \in Clients : conn'[d] # None /\ conn'[d] = conn'[e] => d = e
    BY <2>2, <2>3 DEF JoinsOnce
  <2> QED
    BY <2>1, <2>2, <2>3, <2>4, <2>5 DEF JoinsOnce
<1>7. ASSUME NEW k \in Conns, Connects(k) \/ CannotConnect(k) \/ OpensStream(k) \/ LinkEnds(k)
      PROVE  JoinsOnce'
  <2>1. /\ UNCHANGED << screen, countdown, session, conn, game >>
        /\ \A o \in Conns \ {k} : link'[o] = link[o]
        /\ link[k] # "unused" /\ link'[k] # "unused"
        /\ link[k] \in {"ready", "down"} => link'[k] \in {"ready", "down"}
    BY <1>0, <1>7 DEF Connects, CannotConnect, OpensStream, LinkEnds, Backend
  <2>2. PICK e \in Deciding \cup {"Connected"} :
          Reports(k, e) /\ (e = "StreamCreated" => link[k] = "opening" /\ link'[k] = "ready")
    BY <1>0, <1>7 DEF Connects, CannotConnect, OpensStream, LinkEnds, Deciding
  <2>3. ASSUME NEW d \in Clients, Contains(events'[d], "StreamCreated")
        PROVE  screen'[d] = "Connecting" /\ link'[conn'[d]] \in {"ready", "down"} /\ game'[conn'[d]] = None
    <3>1. CASE Contains(events[d], "StreamCreated")
      <4>1. screen[d] = "Connecting" /\ conn[d] \in Conns
        BY <1>0, <3>1 DEF JoinsOnce
      <4> QED
        BY <2>1, <3>1, <4>1 DEF JoinsOnce
    <3>2. CASE e = "StreamCreated" /\ screen[d] = "Connecting" /\ conn[d] = k
      BY <2>1, <2>2, <3>2 DEF JoinsOnce
    <3> QED
      BY <2>2, <2>3, <3>1, <3>2, ReportedEvents
  <2>4. \A o \in Conns : game'[o] # None => link'[o] \in {"ready", "down"}
    BY <2>1 DEF JoinsOnce
  <2>5. \A d \in Clients : conn'[d] # None => link'[conn'[d]] # "unused"
    BY <1>0, <2>1 DEF JoinsOnce
  <2> QED
    BY <2>1, <2>3, <2>4, <2>5 DEF JoinsOnce
<1>8. CASE UNCHANGED vars
  BY <1>1, <1>8 DEF vars, clientVars, gameVars, joinVars
<1>9. ASSUME NEW c \in Clients, ClientSteps(c) PROVE JoinsOnce'
  <2>1. ASSUME NEW n \in Names, NEW p \in Passwords, HandleSubmit(c, n, p) PROVE UNCHANGED joinVars
    BY <2>1 DEF HandleSubmit, joinVars, gameVars
  <2>2. CASE Refuse(c) \/ FindPlayer(c) \/ CreatePlayer(c)
    BY <1>1, <2>2 DEF Refuse, FindPlayer, CreatePlayer, Gatekeeper, joinVars, gameVars
  <2> QED
    BY <1>1, <1>3, <1>4, <1>5, <1>6, <1>9, <2>1, <2>2 DEF ClientSteps
<1>10. ASSUME NEW k \in Conns, ConnSteps(k) PROVE JoinsOnce'
  <2>1. CASE Registers(k) \/ Starts(k) \/ Mirrors(k) \/ (\E p \in Places : Moves(k, p))
                          \/ (\E s \in Roles : Leaves(k, s))
    BY <1>1, <2>1 DEF Registers, Starts, Mirrors, Moves, Leaves, InGameVars, clientVars, joinVars
  <2> QED
    BY <1>7, <1>10, <2>1 DEF ConnSteps
<1>11. CASE ServiceSteps
  BY <1>1, <1>11 DEF ServiceSteps, HandleRegister, HandleQuery, HandleMessage, Updates, UpdateFails,
                     RestartService, clientVars, gameVars, joinVars
<1> QED
  BY <1>8, <1>9, <1>10, <1>11 DEF Next

\* A message put at the end of the queue, or the first one taken.
LEMMA QueueSteps ==
  ASSUME TypeOK, InTheGame
  PROVE  /\ \A m \in DbMessages : \A i \in 1 .. Len(Append(db_queue, m)) :
              \/ i \in 1 .. Len(db_queue) /\ Append(db_queue, m)[i] = db_queue[i]
              \/ i = Len(db_queue) + 1 /\ Append(db_queue, m)[i] = m
         /\ db_queue # << >> => \A i \in 1 .. Len(Tail(db_queue)) :
              i + 1 \in 1 .. Len(db_queue) /\ Tail(db_queue)[i] = db_queue[i + 1]
<1>1. db_queue \in Seq(DbMessages)
  BY QueueTypes
<1>2. ASSUME NEW m \in DbMessages, NEW i \in 1 .. Len(Append(db_queue, m))
      PROVE  \/ i \in 1 .. Len(db_queue) /\ Append(db_queue, m)[i] = db_queue[i]
             \/ i = Len(db_queue) + 1 /\ Append(db_queue, m)[i] = m
  BY <1>1, <1>2
<1>3. ASSUME db_queue # << >>, NEW i \in 1 .. Len(Tail(db_queue))
      PROVE  i + 1 \in 1 .. Len(db_queue) /\ Tail(db_queue)[i] = db_queue[i + 1]
  BY <1>1, <1>3
<1> QED
  BY <1>2, <1>3

\* What InTheGame is about, but for the sessions.
inGameVars == << player, copies, player_map, db_queue >>

\* Whatever is known of a connection stays about the session it joined with.
LEMMA InTheGameStep ==
  ASSUME GameInv, [Next]_vars
  PROVE  InTheGame'
<1> USE RecordFields, AccountsAssumption
<1>0. /\ TypeOK /\ JoinsOnce /\ InTheGame
      /\ \A k \in Conns : game[k] # None => game'[k] = game[k]
      /\ db_queue \in Seq(DbMessages)
      /\ \A i \in 1 .. Len(db_queue) : db_queue[i].conn \in Conns
  BY GameKept, QueueTypes DEF GameInv
<1>1. ASSUME UNCHANGED inGameVars PROVE InTheGame'
  BY <1>0, <1>1 DEF inGameVars, InTheGame
\* A message about a connection that is in the game joins the queue.
<1>2. ASSUME NEW k \in Conns, game[k] # None, NEW m \in DbMessages,
             m.conn = k, m.type = "Register" => m.name = game[k].name,
             db_queue' = Append(db_queue, m),
             player' = player \/ player' = [player EXCEPT ![k] = "registered"],
             copies' = copies \/ \E s \in Roles : copies' = [copies EXCEPT ![k][s] = None],
             player_map' = player_map
      PROVE  InTheGame'
  <2>1. ASSUME NEW i \in 1 .. Len(db_queue')
        PROVE  /\ game'[db_queue'[i].conn] # None
               /\ db_queue'[i].type = "Register" => db_queue'[i].name = game'[db_queue'[i].conn].name
    <3>1. \/ i \in 1 .. Len(db_queue) /\ db_queue'[i] = db_queue[i]
          \/ i = Len(db_queue) + 1 /\ db_queue'[i] = m
      BY <1>0, <1>2, <2>1, QueueSteps
    <3> QED
      BY <1>0, <1>2, <3>1 DEF InTheGame
  <2>2. ASSUME NEW o \in Conns
        PROVE  /\ player'[o] # "none" => game'[o] # None
               /\ \A s \in Roles : copies'[o][s] # None => game'[o] # None
    <3>1. /\ copies \in [Conns -> [Roles -> Places \cup {None}]]
          /\ player \in [Conns -> {"none", "sent", "registered", "playing"}]
      BY <1>0 DEF TypeOK
    <3>2. CASE o = k
      BY <1>0, <1>2, <3>2
    <3>3. CASE o # k
      BY <1>0, <1>2, <3>1, <3>3 DEF InTheGame
    <3> QED
      BY <3>2, <3>3
  <2>3. \A o \in Conns : player_map'[o] # None => game'[o] # None /\ game'[o].name = player_map'[o]
    BY <1>0, <1>2 DEF InTheGame
  <2> QED
    BY <2>1, <2>2, <2>3 DEF InTheGame
<1>3. ASSUME NEW c \in Clients, ClientSteps(c) PROVE InTheGame'
  <2>1. ASSUME NEW expires \in BOOLEAN, Frame(c, expires) PROVE InTheGame'
    <3>1. UNCHANGED << copies, player_map, db_queue >>
      BY <2>1 DEF Frame, serviceVars
    <3>2. \A k \in Conns : player'[k] # player[k] => game'[k] # None
      BY <1>0, <2>1, FrameJoins
    <3> QED
      BY <1>0, <3>1, <3>2 DEF InTheGame
  <2>2. UNCHANGED inGameVars \/ \E expires \in BOOLEAN : Frame(c, expires)
    BY <1>3 DEF ClientSteps, HandleSubmit, PollJoinTask, TickSuccessTimer, StartsConnect, Refuse,
                FindPlayer, CreatePlayer, Gatekeeper, Restart, gameVars, serviceVars, inGameVars
  <2> QED
    BY <1>1, <2>1, <2>2
<1>4. ASSUME NEW k \in Conns, ConnSteps(k) PROVE InTheGame'
  <2>1. CASE Connects(k) \/ CannotConnect(k) \/ OpensStream(k) \/ LinkEnds(k)
    BY <1>1, <2>1 DEF Connects, CannotConnect, OpensStream, LinkEnds, Backend, serviceVars, inGameVars
  <2>2. CASE Registers(k)
    <3>1. game[k] # None /\ game[k] \in Sessions
      BY <1>0, <2>2 DEF Registers, InTheGame, TypeOK
    <3>2. RegisterMsg(k, game[k].name) \in DbMessages
      BY <3>1 DEF RegisterMsg, DbMessages
    <3> QED
      BY <1>2, <2>2, <3>1, <3>2 DEF Registers, RegisterMsg, InGameVars
  <2>3. ASSUME NEW s \in Roles, NEW v \in Places \cup {None}, copies' = [copies EXCEPT ![k][s] = v],
               game[k] # None, UNCHANGED << player_map, db_queue >>,
               \A o \in Conns : player'[o] # "none" => player[o] # "none" \/ o = k
        PROVE  InTheGame'
    <3>1. copies \in [Conns -> [Roles -> Places \cup {None}]]
      BY <1>0 DEF TypeOK
    <3>2. \A o \in Conns \ {k} : copies'[o] = copies[o]
      BY <2>3, <3>1
    <3> QED
      BY <1>0, <2>3, <3>2 DEF InTheGame
  <2>4. CASE Starts(k)
    <3>1. /\ game[k] # None /\ game[k] \in Sessions
          /\ player \in [Conns -> {"none", "sent", "registered", "playing"}]
      BY <1>0, <2>4 DEF Starts, InTheGame, TypeOK
    <3> QED
      BY <2>3, <2>4, <3>1 DEF Starts, InGameVars, Roles
  <2>5. ASSUME NEW p \in Places, Moves(k, p) PROVE InTheGame'
    <3>1. game[k] # None
      BY <1>0, <2>5 DEF Moves, InTheGame, Roles
    <3> QED
      BY <2>3, <2>5, <3>1 DEF Moves, InGameVars, Roles
  <2>6. CASE Mirrors(k)
    <3>1. game[k] # None /\ copies[k]["local"] \in Places
      BY <1>0, <2>6, CopyTypes DEF Mirrors, InTheGame, Roles
    <3> QED
      BY <2>3, <2>6, <3>1 DEF Mirrors, InGameVars, Roles
  <2>7. ASSUME NEW s \in Roles, Leaves(k, s) PROVE InTheGame'
    <3>1. game[k] # None /\ copies[k][s] \in Places
      BY <1>0, <2>7, CopyTypes DEF Leaves, InTheGame
    <3>2. SaveMsg(k, copies[k][s]) \in DbMessages
      BY <3>1 DEF SaveMsg, DbMessages
    <3> QED
      BY <1>2, <2>7, <3>1, <3>2 DEF Leaves, SaveMsg, InGameVars
  <2> QED
    BY <1>4, <2>1, <2>2, <2>4, <2>5, <2>6, <2>7 DEF ConnSteps
<1>5. ASSUME NEW type, HandleMessage(type), UNCHANGED << player, copies >>,
             \A k \in Conns : player_map'[k] # None =>
               \/ player_map'[k] = player_map[k]
               \/ game[k] # None /\ game[k].name = player_map'[k]
      PROVE  InTheGame'
  <2>1. \A i \in 1 .. Len(db_queue') :
           i + 1 \in 1 .. Len(db_queue) /\ db_queue'[i] = db_queue[i + 1]
    BY <1>0, <1>5, QueueSteps DEF HandleMessage
  <2> QED
    BY SMTT(40), <1>0, <1>5, <2>1 DEF InTheGame
<1>6. CASE HandleRegister
  <2> DEFINE m == Head(db_queue)
  <2>1. /\ game[m.conn] # None /\ game[m.conn].name = m.name
        /\ player_map' = [player_map EXCEPT ![m.conn] = m.name]
    BY <1>0, <1>6, QueueTypes DEF HandleRegister, HandleMessage, InTheGame
  <2>2. player_map \in [Conns -> Names \cup {None}]
    BY <1>0 DEF TypeOK
  <2> QED
    BY <1>5, <1>6, <2>1, <2>2 DEF HandleRegister, HandleMessage, gameVars
<1>7. CASE HandleQuery
  BY <1>5, <1>7 DEF HandleQuery, HandleMessage, gameVars
<1>8. CASE RestartService
  <2>1. /\ db_queue' = << >> /\ \A k \in Conns : player_map'[k] = None
        /\ UNCHANGED << player, copies >>
    BY <1>8 DEF RestartService, gameVars
  <2> QED
    BY <1>0, <2>1 DEF InTheGame
<1>9. ASSUME NEW u \in saves, Updates(u) \/ UpdateFails(u) PROVE InTheGame'
  BY <1>1, <1>9 DEF Updates, UpdateFails, gameVars, inGameVars
<1>10. CASE UNCHANGED vars
  BY <1>1, <1>10 DEF vars, gameVars, serviceVars, inGameVars
<1> QED
  BY <1>3, <1>4, <1>6, <1>7, <1>8, <1>9, <1>10 DEF Next, ServiceSteps

\* Nobody plays at first.
LEMMA GameInit == Init => GameInv
<1> SUFFICES ASSUME Init PROVE GameInv
  OBVIOUS
<1>1. JoinsOnce
  BY DEF Init, JoinsOnce, Contains
<1>2. InTheGame
  BY DEF Init, InTheGame, NoCopies
<1> QED
  BY <1>1, <1>2, TypeInit DEF GameInv

\* Every step keeps what is known of the game.
LEMMA GameStep == GameInv /\ [Next]_vars => GameInv'
BY TypeStep, JoinsStep, InTheGameStep DEF GameInv

\* All tables and messages are well formed, whatever the table, the network and
\* the service do: no message is about a connection without a session.
THEOREM AccountsType == Spec => []TypeOK
<1>1. Spec => []GameInv
  BY GameInit, GameStep, PTL DEF Spec
<1> QED
  BY <1>1, PTL DEF GameInv
----------------------------------------------------------------------------
(***************************************************************************)
(* The accounts.                                                           *)
(***************************************************************************)

\* What a step does to the table: accounts keep their password, and only the
\* gatekeeper makes new ones.
LEMMA RowsStep ==
  ASSUME TypeOK, [Next]_vars
  PROVE  /\ \A r \in rows : \E t \in rows' : t.name = r.name /\ t.password = r.password
         /\ \A t \in rows' : \/ \E r \in rows : t.name = r.name /\ t.password = r.password
                             \/ \E c \in Clients :
                                  /\ CreatePlayer(c)
                                  /\ t = Row(request[c].name, Trim[request[c].password], Origin)
<1>1. CASE rows' = rows
  BY <1>1
<1>2. ASSUME NEW c \in Clients, CreatePlayer(c)
      PROVE  rows' = rows \cup {Row(request[c].name, Trim[request[c].password], Origin)}
  BY <1>2 DEF CreatePlayer
<1>3. ASSUME NEW u \in saves, Updates(u)
      PROVE  /\ \A r \in rows : \E t \in rows' : t.name = r.name /\ t.password = r.password
             /\ \A t \in rows' : \E r \in rows : t.name = r.name /\ t.password = r.password
  <2>1. \A r \in rows : /\ [r EXCEPT !.place = u.place].name = r.name
                        /\ [r EXCEPT !.place = u.place].password = r.password
    BY DEF TypeOK, Sessions
  <2>2. rows' = {IF r.name = u.name THEN [r EXCEPT !.place = u.place] ELSE r : r \in rows}
    BY <1>3 DEF Updates
  <2> QED
    BY <2>1, <2>2
<1>4. ASSUME NEW c \in Clients, ClientSteps(c) PROVE rows' = rows \/ CreatePlayer(c)
  BY <1>4 DEF ClientSteps, HandleSubmit, PollJoinTask, TickSuccessTimer, StartsConnect, Refuse,
              FindPlayer, Frame, Restart
<1>5. ASSUME NEW k \in Conns, ConnSteps(k) PROVE rows' = rows
  BY <1>5 DEF ConnSteps, Connects, CannotConnect, OpensStream, LinkEnds, Backend, Registers,
              Starts, Moves, Mirrors, Leaves, InGameVars
<1>6. ASSUME ServiceSteps PROVE rows' = rows \/ \E u \in saves : Updates(u)
  BY <1>6 DEF ServiceSteps, HandleRegister, HandleQuery, HandleMessage, UpdateFails, RestartService
<1>7. CASE UNCHANGED vars
  BY <1>1, <1>7 DEF vars
<1> QED
  BY <1>1, <1>2, <1>3, <1>4, <1>5, <1>6, <1>7 DEF Next

\* What a step does to the requests: only the gatekeeper looks for accounts and
\* accepts.
LEMMA RequestStep ==
  ASSUME TypeOK, [Next]_vars, \A c \in Clients : ~FindPlayer(c) /\ ~CreatePlayer(c)
  PROVE  /\ raced' = raced
         /\ \A d \in Clients : request'[d] = request[d] \/ request'[d] = None
                                 \/ request'[d].phase \in {"sent", "refused"}
<1>1. request \in [Clients -> Requests \cup {None}]
  BY DEF TypeOK
<1>2. CASE request' = request /\ raced' = raced
  BY <1>2
<1>3. ASSUME NEW c \in Clients, NEW n \in Names, NEW p \in Passwords, HandleSubmit(c, n, p)
      PROVE  /\ raced' = raced
             /\ request' = [request EXCEPT ![c] = Request("sent", n, p, Origin)]
  BY <1>3 DEF HandleSubmit, history
<1>4. ASSUME NEW c \in Clients, PollJoinTask(c) \/ TickSuccessTimer(c)
      PROVE  /\ raced' = raced
             /\ request' = request \/ request' = [request EXCEPT ![c] = None]
  BY <1>4 DEF PollJoinTask, TickSuccessTimer, StartsConnect, TakesAnswer, history
<1>5. ASSUME NEW c \in Clients, Refuse(c)
      PROVE  /\ raced' = raced
             /\ \A d \in Clients : d # c => request'[d] = request[d]
             /\ request'[c].phase = "refused"
  BY <1>5, AnswerType, AccountsAssumption DEF Refuse, Asked, Phases
<1>6. ASSUME NEW c \in Clients, Restart(c)
      PROVE  raced' = raced /\ request' = [request EXCEPT ![c] = None]
  BY <1>6 DEF Restart, history
<1>7. ASSUME NEW c \in Clients, NEW expires \in BOOLEAN, Frame(c, expires)
      PROVE  request' = request /\ raced' = raced
  BY <1>7 DEF Frame, history
<1>8. ASSUME NEW k \in Conns, ConnSteps(k) PROVE request' = request /\ raced' = raced
  BY <1>8 DEF ConnSteps, Connects, CannotConnect, OpensStream, LinkEnds, Backend, Registers,
              Starts, Moves, Mirrors, Leaves, InGameVars, clientVars, history
<1>9. ASSUME ServiceSteps PROVE request' = request /\ raced' = raced
  BY <1>9 DEF ServiceSteps, HandleRegister, HandleQuery, HandleMessage, Updates, UpdateFails,
              RestartService, clientVars, history
<1>10. CASE UNCHANGED vars
  BY <1>10 DEF vars, clientVars, history
<1>11. ASSUME NEW c \in Clients, ClientSteps(c)
       PROVE  /\ raced' = raced
              /\ \A d \in Clients : request'[d] = request[d] \/ request'[d] = None
                                      \/ request'[d].phase \in {"sent", "refused"}
  <2>1. \A n \in Names, p \in Passwords : Request("sent", n, p, Origin).phase = "sent"
    BY DEF Request
  <2>2. CASE \E n \in Names, p \in Passwords : HandleSubmit(c, n, p)
    BY <1>1, <1>3, <2>1, <2>2
  <2>3. CASE PollJoinTask(c) \/ TickSuccessTimer(c)
    BY <1>1, <1>4, <2>3
  <2>4. CASE Refuse(c)
    BY <1>5, <2>4
  <2>5. CASE Restart(c)
    BY <1>1, <1>6, <2>5
  <2>6. CASE \E expires \in BOOLEAN : Frame(c, expires)
    BY <1>7, <2>6
  <2> QED
    BY <1>11, <2>2, <2>3, <2>4, <2>5, <2>6 DEF ClientSteps
<1> QED
  BY <1>2, <1>8, <1>9, <1>10, <1>11 DEF Next

\* An answer to one request leaves the rest, the sessions and the game alone.
LEMMA GatekeeperStep ==
  ASSUME TypeOK, NEW c \in Clients, FindPlayer(c) \/ CreatePlayer(c)
  PROVE  /\ request[c] # None /\ request[c] \in Requests /\ request'[c] \in Requests
         /\ request'[c].name = request[c].name /\ request'[c].password = request[c].password
         /\ \A d \in Clients \ {c} : request'[d] = request[d]
         /\ UNCHANGED << session, game, left, blurred, saves, db_queue >>
         /\ raced \subseteq raced'
<1>1. request[c] # None /\ request[c] \in Requests
  BY DEF FindPlayer, CreatePlayer, Asked, TypeOK
<1>2. \E ph \in Phases, s \in Places : Answered(c, ph, s)
  BY <1>1, AccountsAssumption, RecordFields DEF FindPlayer, CreatePlayer, RowsOf, Phases, TypeOK
<1>3. UNCHANGED << session, game, left, blurred, saves, db_queue >> /\ raced \subseteq raced'
  BY DEF FindPlayer, CreatePlayer, Gatekeeper, gameVars, serviceVars
<1> QED
  BY <1>1, <1>2, <1>3, AnswerType

\* An account that exists goes on existing.
LEMMA KnownStays ==
  ASSUME TypeOK, [Next]_vars
  PROVE  \A n, p : KnownIn(rows, n, p) => KnownIn(rows', n, p)
BY RowsStep DEF KnownIn

\* An accepted request has found the account or made it.
LEMMA AcceptedIsKnown ==
  ASSUME AccountInv, [Next]_vars, NEW c \in Clients, Asked(c, "accepted")'
  PROVE  KnownIn(rows', request'[c].name, Trim[request'[c].password])
<1>1. TypeOK /\ FromAccounts
  BY DEF AccountInv, GameInv
<1>2. CASE request'[c] = request[c]
  BY <1>1, <1>2, KnownStays DEF FromAccounts, Asked, Known
<1>3. CASE FindPlayer(c)
  <2>1. /\ request'[c].name = request[c].name /\ request'[c].password = request[c].password
        /\ request[c] # None
    BY <1>1, <1>3, GatekeeperStep
  <2>2. PICK r \in RowsOf(request[c].name) : r.password = Trim[request[c].password]
    <3>1. request'[c].phase = "accepted"
      BY DEF Asked
    <3>2. ~Answered(c, "refused", Origin) /\ ~Answered(c, "missing", Origin)
      BY <1>1, <2>1, <3>1, AnswerType, AccountsAssumption DEF Phases
    <3> QED
      BY <1>3, <3>2 DEF FindPlayer
  <2>3. KnownIn(rows, request[c].name, Trim[request[c].password])
    BY <2>2 DEF KnownIn, RowsOf
  <2> QED
    BY <1>1, <2>1, <2>3, KnownStays
<1>4. CASE CreatePlayer(c)
  <2>1. /\ request'[c].name = request[c].name /\ request'[c].password = request[c].password
    BY <1>1, <1>4, GatekeeperStep
  <2>2. Row(request[c].name, Trim[request[c].password], Origin) \in rows'
    BY <1>4 DEF CreatePlayer
  <2> QED
    BY <2>1, <2>2 DEF KnownIn, Row
<1>5. CASE \A d \in Clients : ~FindPlayer(d) /\ ~CreatePlayer(d)
  <2>1. request'[c] # None /\ request'[c].phase = "accepted"
    BY DEF Asked
  <2>2. request'[c] = request[c]
    BY <1>1, <1>5, <2>1, RequestStep
  <2> QED
    BY <1>2, <2>2
<1>6. ASSUME NEW d \in Clients \ {c}, FindPlayer(d) \/ CreatePlayer(d)
      PROVE  request'[c] = request[c]
  BY <1>1, <1>6, GatekeeperStep
<1> QED
  BY <1>2, <1>3, <1>4, <1>5, <1>6

\* A session is made from an accepted request, and is joined with as it is.
LEMMA SessionStep ==
  ASSUME GameInv, [Next]_vars
  PROVE  /\ \A c \in Clients : session'[c] # None =>
              \/ session'[c] = session[c]
              \/ /\ Asked(c, "accepted") /\ session'[c].name = request[c].name
                 /\ session'[c].password = Trim[request[c].password]
         /\ \A k \in Conns : game'[k] # None =>
              game'[k] = game[k] \/ \E c \in Clients : session[c] # None /\ game'[k] = session[c]
<1>1. TypeOK /\ JoinsOnce /\ session \in [Clients -> Sessions \cup {None}]
  BY DEF GameInv, TypeOK
<1>2. ASSUME NEW c \in Clients, TakesAnswer(c)
      PROVE  \A d \in Clients : session'[d] # None =>
                \/ session'[d] = session[d]
                \/ /\ Asked(d, "accepted") /\ session'[d].name = request[d].name
                   /\ session'[d].password = Trim[request[d].password]
  BY <1>1, <1>2 DEF TakesAnswer, Session
<1>3. CASE UNCHANGED << session, game >>
  BY <1>3
<1>4. ASSUME NEW c \in Clients, ClientSteps(c)
      PROVE  \/ UNCHANGED << session, game >>
             \/ TakesAnswer(c) /\ game' = game
             \/ \E expires \in BOOLEAN : Frame(c, expires)
             \/ Restart(c)
  BY <1>4 DEF ClientSteps, HandleSubmit, PollJoinTask, TickSuccessTimer, StartsConnect, Refuse,
              FindPlayer, CreatePlayer, Gatekeeper, gameVars
<1>5. ASSUME NEW c \in Clients, NEW expires \in BOOLEAN, Frame(c, expires)
      PROVE  /\ session' = session
             /\ \A k \in Conns : game'[k] = game[k] \/ (game'[k] = session[c] /\ session[c] # None)
  BY ZenonT(40), <1>1, <1>5, FrameJoins DEF Frame
<1>6. ASSUME NEW c \in Clients, Restart(c)
      PROVE  game' = game /\ \A d \in Clients : session'[d] # None => session'[d] = session[d]
  BY <1>1, <1>6 DEF Restart, gameVars
<1>7. ASSUME NEW k \in Conns, ConnSteps(k) PROVE UNCHANGED << session, game >>
  BY <1>7 DEF ConnSteps, Connects, CannotConnect, OpensStream, LinkEnds, Backend, Registers,
              Starts, Moves, Mirrors, Leaves, InGameVars, clientVars
<1>8. ASSUME ServiceSteps PROVE UNCHANGED << session, game >>
  BY <1>8 DEF ServiceSteps, HandleRegister, HandleQuery, HandleMessage, Updates, UpdateFails,
              RestartService, clientVars, gameVars
<1>9. CASE UNCHANGED vars
  BY <1>3, <1>9 DEF vars, clientVars, gameVars
<1>10. ASSUME NEW c \in Clients, ClientSteps(c)
       PROVE  /\ \A d \in Clients : session'[d] # None =>
                   \/ session'[d] = session[d]
                   \/ /\ Asked(d, "accepted") /\ session'[d].name = request[d].name
                      /\ session'[d].password = Trim[request[d].password]
              /\ \A k \in Conns : game'[k] # None =>
                   game'[k] = game[k] \/ \E d \in Clients : session[d] # None /\ game'[k] = session[d]
  BY <1>2, <1>4, <1>5, <1>6, <1>10
<1> QED
  BY <1>3, <1>7, <1>8, <1>9, <1>10 DEF Next

\* Every session and everybody who plays goes on having an account.
LEMMA FromAccountsStep == AccountInv /\ [Next]_vars => FromAccounts'
<1> SUFFICES ASSUME AccountInv, [Next]_vars PROVE FromAccounts'
  OBVIOUS
<1>1. TypeOK /\ GameInv /\ FromAccounts
  BY DEF AccountInv, GameInv
<1>2. \A c \in Clients : Asked(c, "accepted")' => KnownIn(rows', request'[c].name, Trim[request'[c].password])
  BY AcceptedIsKnown
<1>3. \A c \in Clients : session'[c] # None => KnownIn(rows, session'[c].name, session'[c].password)
  BY <1>1, SessionStep DEF FromAccounts, Known
<1>4. \A k \in Conns : game'[k] # None => KnownIn(rows, game'[k].name, game'[k].password)
  BY <1>1, SessionStep DEF FromAccounts, Known
<1> QED
  BY <1>1, <1>2, <1>3, <1>4, KnownStays DEF FromAccounts, Known

\* Looking for an account that is not there, and making it, do not lead to a
\* second one unless two of them overlap.
LEMMA OneAccountStep ==
  ASSUME AccountInv, [Next]_vars, NEW n \in Names \ raced'
  PROVE  OneAccount(n)'
<1>1. TypeOK /\ rows \in SUBSET Sessions
  BY DEF AccountInv, GameInv, TypeOK
<1>2. CASE \A c \in Clients : ~FindPlayer(c) /\ ~CreatePlayer(c)
  <2>1. OneAccount(n)
    BY <1>1, <1>2, RequestStep DEF AccountInv
  <2>2. \A d \in Clients : Looking(d, n)' => Looking(d, n)
    BY <1>1, <1>2, RequestStep DEF Looking, Asked
  <2>3. \A t \in RowsOf(n)' : \E r \in RowsOf(n) : t.password = r.password
    BY <1>1, <1>2, RowsStep DEF RowsOf
  <2>4. RowsOf(n) = {} => RowsOf(n)' = {}
    BY <2>3
  <2> QED
    BY <2>1, <2>2, <2>3, <2>4 DEF OneAccount
<1>3. ASSUME NEW c \in Clients, FindPlayer(c) PROVE OneAccount(n)'
  <2>1. /\ request'[c].name = request[c].name /\ request[c] # None
        /\ \A d \in Clients \ {c} : request'[d] = request[d]
        /\ raced \subseteq raced'
    BY <1>1, <1>3, GatekeeperStep
  <2>2. OneAccount(n) /\ rows' = rows
    BY <1>3, <2>1 DEF AccountInv, FindPlayer
  <2>3. \A d \in Clients \ {c} : Looking(d, n)' <=> Looking(d, n)
    BY <2>1 DEF Looking, Asked
  <2>4. ASSUME Looking(c, n)' PROVE RowsOf(n) = {} /\ \A d \in Clients \ {c} : ~Looking(d, n)
    <3>1. request[c].name = n /\ request'[c].phase = "missing"
      BY <2>1, <2>4 DEF Looking, Asked
    <3>2. ASSUME NEW r \in RowsOf(n)
          PROVE  r.place \in Places /\ ~Answered(c, "accepted", r.place)
      <4>1. r.place \in Places
        BY <1>1, RecordFields DEF RowsOf
      <4> QED
        BY <1>1, <2>1, <3>1, <4>1, AnswerType DEF Phases
    <3>3. ~Answered(c, "refused", Origin)
      BY <1>1, <2>1, <3>1, AnswerType, AccountsAssumption DEF Phases
    <3>4. /\ RowsOf(n) = {}
          /\ raced' = IF \E d \in Clients \ {c} : Asked(d, "missing") /\ request[d].name = n
                      THEN raced \cup {n} ELSE raced
      BY <1>3, <3>1, <3>2, <3>3 DEF FindPlayer
    <3> QED
      BY <3>4 DEF Looking
  <2>5. RowsOf(n)' = RowsOf(n)
    BY <2>2 DEF RowsOf
  <2> QED
    BY <2>2, <2>3, <2>4, <2>5 DEF OneAccount
<1>4. ASSUME NEW c \in Clients, CreatePlayer(c) PROVE OneAccount(n)'
  <2>1. /\ request'[c].name = request[c].name /\ request[c] # None
        /\ \A d \in Clients \ {c} : request'[d] = request[d]
        /\ raced \subseteq raced'
    BY <1>1, <1>4, GatekeeperStep
  <2>2. OneAccount(n)
    BY <2>1 DEF AccountInv
  <2>3. ~Looking(c, n)'
    <3>1. request'[c].phase # "missing"
      BY <1>1, <1>4, <2>1, AnswerType, AccountsAssumption DEF CreatePlayer, Phases
    <3> QED
      BY <3>1 DEF Looking, Asked
  <2>4. \A d \in Clients : Looking(d, n)' => Looking(d, n) /\ d # c
    BY <2>1, <2>3 DEF Looking, Asked
  <2> DEFINE row == Row(request[c].name, Trim[request[c].password], Origin)
  <2>5. rows' = rows \cup {row} /\ row.name = request[c].name /\ Asked(c, "missing")
    BY <1>4 DEF CreatePlayer, Row
  <2> HIDE DEF row
  <2>6. CASE request[c].name = n
    <3>1. RowsOf(n) = {} /\ \A d \in Clients : Looking(d, n) => d = c
      BY <2>2, <2>5, <2>6 DEF OneAccount, Looking
    <3>2. RowsOf(n)' = {row}
      BY <2>5, <2>6, <3>1 DEF RowsOf
    <3> QED
      BY <2>4, <3>1, <3>2 DEF OneAccount
  <2>7. CASE request[c].name # n
    <3>1. RowsOf(n)' = RowsOf(n)
      BY <2>5, <2>7 DEF RowsOf
    <3> QED
      BY <2>2, <2>4, <3>1 DEF OneAccount
  <2> QED
    BY <2>6, <2>7
<1> QED
  BY <1>2, <1>3, <1>4

\* There are no accounts at first.
LEMMA AccountInit == Init => AccountInv
<1> SUFFICES ASSUME Init PROVE AccountInv
  OBVIOUS
<1>1. FromAccounts
  BY DEF Init, FromAccounts, Asked
<1>2. \A n : OneAccount(n)
  BY DEF Init, OneAccount, RowsOf, Looking, Asked
<1> QED
  BY <1>1, <1>2, GameInit DEF AccountInv

\* Every step keeps the accounts as they should be.
LEMMA AccountStep == AccountInv /\ [Next]_vars => AccountInv'
<1> SUFFICES ASSUME AccountInv, [Next]_vars PROVE AccountInv'
  OBVIOUS
<1>1. GameInv' /\ FromAccounts'
  BY GameStep, FromAccountsStep DEF AccountInv
<1>2. \A n \in Names \ raced' : OneAccount(n)'
  BY OneAccountStep
<1> QED
  BY <1>1, <1>2 DEF AccountInv

\* Whoever plays under a name, however often and from however many clients, has
\* given one and the same password, unless two first logins under the name have
\* overlapped between find_player and create_player.
THEOREM NamesHaveOnePassword == Spec => []OnePassword
<1>1. Spec => []AccountInv
  BY AccountInit, AccountStep, PTL DEF Spec
<1>2. AccountInv => OnePassword
  <2> SUFFICES ASSUME AccountInv, NEW k \in Conns, NEW o \in Conns,
                      game[k] # None, game[o] # None, game[k].name = game[o].name,
                      game[k].name \notin raced
               PROVE  game[k].password = game[o].password
    BY DEF OnePassword
  <2>1. game[k].name \in Names
    BY RecordFields DEF AccountInv, GameInv, TypeOK
  <2>2. OneAccount(game[k].name)
    BY <2>1 DEF AccountInv
  <2>3. KnownIn(rows, game[k].name, game[k].password) /\ KnownIn(rows, game[o].name, game[o].password)
    BY DEF AccountInv, FromAccounts, Known
  <2> QED
    BY <2>2, <2>3 DEF OneAccount, KnownIn, RowsOf
<1> QED
  BY <1>1, <1>2, PTL
----------------------------------------------------------------------------
(***************************************************************************)
(* The places.                                                             *)
(***************************************************************************)

\* A step that leaves the saves and what was left alone.
LEMMA PlaceQuiet ==
  ASSUME PlaceInv, [Next]_vars, UNCHANGED << db_queue, saves, rows, left, blurred >>, raced \subseteq raced'
  PROVE  \A n \in Names : LastIsLatest(n)' /\ TableFollows(n)' /\ NewIsAtOrigin(n)'
<1>1. /\ TypeOK /\ JoinsOnce /\ InTheGame
      /\ \A k \in Conns : game[k] # None => game'[k] = game[k]
  BY GameKept DEF PlaceInv, AccountInv, GameInv
<1>2. \A i \in 1 .. Len(db_queue) : \A n : SaveAt(i, n)' <=> SaveAt(i, n)
  BY <1>1, QueueTypes DEF InTheGame, SaveAt
<1> SUFFICES ASSUME NEW n \in Names PROVE LastIsLatest(n)' /\ TableFollows(n)' /\ NewIsAtOrigin(n)'
  OBVIOUS
<1>3. LastIsLatest(n) /\ TableFollows(n) /\ NewIsAtOrigin(n)
  BY DEF PlaceInv
<1>4. Waiting(n)' <=> Waiting(n)
  BY <1>2 DEF Waiting
<1>5. LastIsLatest(n)'
  <2> SUFFICES ASSUME NEW i \in 1 .. Len(db_queue), SaveAt(i, n)',
                      \A j \in i + 1 .. Len(db_queue) : ~SaveAt(j, n)'
               PROVE  db_queue[i].place = left[n]
    BY DEF LastIsLatest
  <2>1. Len(db_queue) \in Nat
    BY <1>1, QueueTypes
  <2>2. \A j \in i + 1 .. Len(db_queue) : j \in 1 .. Len(db_queue)
    BY <2>1
  <2> QED
    BY <1>2, <1>3, <2>2 DEF LastIsLatest
<1> QED
  BY <1>3, <1>4, <1>5 DEF TableFollows, NewIsAtOrigin, RowsOf

\* A message is taken from the queue: the saves that wait move up.
LEMMA SavesMoveUp ==
  ASSUME TypeOK, InTheGame, NEW type, HandleMessage(type)
  PROVE  /\ \A i \in 1 .. Len(db_queue') : i + 1 \in 1 .. Len(db_queue)
         /\ \A i \in 1 .. Len(db_queue') : db_queue'[i] = db_queue[i + 1]
         /\ \A i \in 1 .. Len(db_queue') : \A n : SaveAt(i, n)' <=> SaveAt(i + 1, n)
         /\ \A n : Waiting(n) => SaveAt(1, n) \/ Waiting(n)'
         /\ \A n : Waiting(n)' => Waiting(n)
         /\ \A n : LastIsLatest(n) /\ left' = left => LastIsLatest(n)'
         /\ \A n : ~Waiting(n)' => \A i \in 2 .. Len(db_queue) : ~SaveAt(i, n)
<1>1. /\ db_queue \in Seq(DbMessages) /\ db_queue # << >> /\ db_queue' = Tail(db_queue)
      /\ game' = game /\ Len(db_queue) \in Nat /\ Len(db_queue') = Len(db_queue) - 1
  BY QueueTypes DEF HandleMessage, gameVars
<1>2. \A i \in 1 .. Len(db_queue') : i + 1 \in 1 .. Len(db_queue) /\ db_queue'[i] = db_queue[i + 1]
  BY <1>1, QueueSteps
<1>3. \A i \in 1 .. Len(db_queue') : \A n : SaveAt(i, n)' <=> SaveAt(i + 1, n)
  BY <1>1, <1>2 DEF SaveAt
<1>4. \A i \in 2 .. Len(db_queue) : i - 1 \in 1 .. Len(db_queue') /\ (i - 1) + 1 = i
  BY <1>1
<1>5. \A n : ~Waiting(n)' => \A i \in 2 .. Len(db_queue) : ~SaveAt(i, n)
  BY SMTT(40), <1>3, <1>4 DEF Waiting
<1>6. \A n : Waiting(n) => SaveAt(1, n) \/ Waiting(n)'
  BY <1>1, <1>5 DEF Waiting
<1>7. \A n : Waiting(n)' => Waiting(n)
  BY <1>2, <1>3 DEF Waiting
<1>8. ASSUME NEW n, LastIsLatest(n), left' = left PROVE LastIsLatest(n)'
  <2> SUFFICES ASSUME NEW i \in 1 .. Len(db_queue'), SaveAt(i, n)',
                      \A j \in i + 1 .. Len(db_queue') : ~SaveAt(j, n)'
               PROVE  db_queue'[i].place = left'[n]
    BY DEF LastIsLatest
  <2>1. \A j \in (i + 1) + 1 .. Len(db_queue) : ~SaveAt(j, n)
    <3> SUFFICES ASSUME NEW j \in (i + 1) + 1 .. Len(db_queue) PROVE ~SaveAt(j, n)
      OBVIOUS
    <3>1. j - 1 \in i + 1 .. Len(db_queue') /\ j - 1 \in 1 .. Len(db_queue') /\ (j - 1) + 1 = j
      BY <1>1
    <3> QED
      BY <1>3, <3>1
  <2>2. SaveAt(i + 1, n) /\ i + 1 \in 1 .. Len(db_queue)
    BY <1>2, <1>3
  <2>3. db_queue[i + 1].place = left[n]
    BY <1>8, <2>1, <2>2 DEF LastIsLatest
  <2> QED
    BY <1>2, <1>8, <2>3
<1> QED
  BY <1>2, <1>3, <1>5, <1>6, <1>7, <1>8

\* A message is put at the end of the queue: the saves that wait stay.
LEMMA SavesStay ==
  ASSUME TypeOK, InTheGame, NEW m \in DbMessages, db_queue' = Append(db_queue, m), game' = game
  PROVE  /\ Len(db_queue) \in Nat /\ Len(db_queue') = Len(db_queue) + 1
         /\ db_queue'[Len(db_queue) + 1] = m
         /\ \A i \in 1 .. Len(db_queue) : db_queue'[i] = db_queue[i]
         /\ \A i \in 1 .. Len(db_queue') : i \in 1 .. Len(db_queue) \/ i = Len(db_queue) + 1
         /\ \A i \in 1 .. Len(db_queue) : i \in 1 .. Len(db_queue')
         /\ \A i \in 1 .. Len(db_queue) : \A n : SaveAt(i, n)' <=> SaveAt(i, n)
         /\ \A i : i = Len(db_queue) + 1 =>
              \A n : SaveAt(i, n)' <=> m.type = "Save" /\ game[m.conn].name = n
<1>1. db_queue \in Seq(DbMessages)
  BY QueueTypes
<1>2. /\ Len(db_queue) \in Nat /\ Len(db_queue') = Len(db_queue) + 1
      /\ db_queue'[Len(db_queue) + 1] = m
      /\ \A i \in 1 .. Len(db_queue) : db_queue'[i] = db_queue[i]
  BY <1>1
<1>3. /\ \A i \in 1 .. Len(db_queue') : i \in 1 .. Len(db_queue) \/ i = Len(db_queue) + 1
      /\ \A i \in 1 .. Len(db_queue) : i \in 1 .. Len(db_queue')
  BY <1>2
<1>4. \A i \in 1 .. Len(db_queue) : \A n : SaveAt(i, n)' <=> SaveAt(i, n)
  BY <1>2 DEF SaveAt
<1>5. \A i : i = Len(db_queue) + 1 =>
        \A n : SaveAt(i, n)' <=> m.type = "Save" /\ game[m.conn].name = n
  BY <1>2 DEF SaveAt
<1> QED
  BY <1>2, <1>3, <1>4, <1>5

\* For a name that the message put in the queue saves nothing for.
LEMMA OthersStay ==
  ASSUME TypeOK, InTheGame, NEW m \in DbMessages, db_queue' = Append(db_queue, m), game' = game,
         NEW n, ~(m.type = "Save" /\ game[m.conn].name = n), left'[n] = left[n]
  PROVE  /\ Waiting(n)' <=> Waiting(n)
         /\ LastIsLatest(n) => LastIsLatest(n)'
<1>1. \A i \in 1 .. Len(db_queue') : SaveAt(i, n)' => i \in 1 .. Len(db_queue) /\ SaveAt(i, n)
  BY SavesStay
<1>2. \A i \in 1 .. Len(db_queue) : i \in 1 .. Len(db_queue') /\ (SaveAt(i, n) => SaveAt(i, n)')
  BY SavesStay
<1>4. Waiting(n)' <=> Waiting(n)
  BY <1>1, <1>2 DEF Waiting
<1>5. ASSUME LastIsLatest(n) PROVE LastIsLatest(n)'
  <2> SUFFICES ASSUME NEW i \in 1 .. Len(db_queue'), SaveAt(i, n)',
                      \A j \in i + 1 .. Len(db_queue') : ~SaveAt(j, n)'
               PROVE  db_queue'[i].place = left'[n]
    BY DEF LastIsLatest
  <2>1. i \in 1 .. Len(db_queue) /\ SaveAt(i, n)
    BY <1>1
  <2>2. ASSUME NEW j \in i + 1 .. Len(db_queue) PROVE ~SaveAt(j, n)
    <3>1. j \in i + 1 .. Len(db_queue') /\ j \in 1 .. Len(db_queue)
      BY <2>1, SavesStay
    <3> QED
      BY <3>1, SavesStay
  <2>3. db_queue[i].place = left[n]
    BY <1>5, <2>1, <2>2 DEF LastIsLatest
  <2> QED
    BY <2>1, <2>3, SavesStay
<1> QED
  BY <1>4, <1>5

\* A player has an account, so its name has a row.
LEMMA PlayersHaveRows ==
  ASSUME AccountInv, NEW k \in Conns, game[k] # None
  PROVE  RowsOf(game[k].name) # {}
BY DEF AccountInv, FromAccounts, Known, KnownIn, RowsOf

\* The broker passes the name or the place of a player on.
LEMMA PlaceConn ==
  ASSUME PlaceInv, NEW k \in Conns, Registers(k) \/ \E s \in Roles : Leaves(k, s)
  PROVE  \A n \in Names : LastIsLatest(n)' /\ TableFollows(n)' /\ NewIsAtOrigin(n)'
<1>1. /\ TypeOK /\ InTheGame /\ AccountInv
      /\ \A n \in Names : LastIsLatest(n) /\ TableFollows(n) /\ NewIsAtOrigin(n)
  BY DEF PlaceInv, AccountInv, GameInv
<1>2. CASE Registers(k)
  <2> DEFINE m == RegisterMsg(k, game[k].name)
  <2>1. game[k] # None /\ game[k] \in Sessions
    BY <1>1, <1>2 DEF Registers, InTheGame, TypeOK
  <2>2. m \in DbMessages /\ m.type = "Register"
    BY <2>1, RecordFields DEF RegisterMsg, DbMessages
  <2>3. db_queue' = Append(db_queue, m) /\ UNCHANGED << game, saves, rows, raced, left, blurred >>
    BY <1>2 DEF Registers, InGameVars
  <2> HIDE DEF m
  <2>4. \A n \in Names : LastIsLatest(n)' /\ (Waiting(n)' <=> Waiting(n))
    BY <1>1, <2>2, <2>3, OthersStay
  <2> QED
    BY <1>1, <2>3, <2>4 DEF TableFollows, NewIsAtOrigin, RowsOf
<1>3. ASSUME NEW s \in Roles, Leaves(k, s)
      PROVE  \A n \in Names : LastIsLatest(n)' /\ TableFollows(n)' /\ NewIsAtOrigin(n)'
  <2> DEFINE m == SaveMsg(k, copies[k][s])
  <2>1. game[k] # None /\ game[k] \in Sessions /\ copies[k][s] \in Places
    BY <1>1, <1>3, CopyTypes, RecordFields DEF Leaves, InTheGame, TypeOK
  <2> PICK h \in Names : h = game[k].name
    BY <2>1, RecordFields
  <2>2. m \in DbMessages /\ m.type = "Save" /\ m.conn = k /\ m.place = copies[k][s]
    BY <2>1 DEF SaveMsg, DbMessages
  <2>3. /\ db_queue' = Append(db_queue, m) /\ UNCHANGED << game, saves, rows, raced, blurred >>
        /\ left' = [left EXCEPT ![h] = copies[k][s]]
    BY <1>3 DEF Leaves, InGameVars
  <2>4. left'[h] = m.place /\ \A n \in Names \ {h} : left'[n] = left[n]
    BY <1>1, <2>1, <2>2, <2>3 DEF TypeOK
  <2>5. RowsOf(h) # {}
    BY <1>1, <2>1, PlayersHaveRows
  <2> HIDE DEF m
  <2>6. ASSUME NEW n \in Names \ {h} PROVE LastIsLatest(n)' /\ TableFollows(n)' /\ NewIsAtOrigin(n)'
    <3>1. LastIsLatest(n)' /\ (Waiting(n)' <=> Waiting(n))
      BY <1>1, <2>2, <2>3, <2>4, OthersStay
    <3> QED
      BY <1>1, <2>3, <2>4, <3>1 DEF TableFollows, NewIsAtOrigin, RowsOf
  <2>7. LastIsLatest(h)' /\ Waiting(h)'
    <3>1. /\ Len(db_queue) \in Nat /\ Len(db_queue') = Len(db_queue) + 1
          /\ db_queue'[Len(db_queue) + 1] = m
      BY <1>1, <2>2, <2>3, SavesStay
    <3>2. \A i : i = Len(db_queue) + 1 => SaveAt(i, h)' /\ i \in 1 .. Len(db_queue')
      <4>1. \A i : i = Len(db_queue) + 1 => i \in 1 .. Len(db_queue')
        BY <3>1
      <4> QED
        BY <1>1, <2>2, <2>3, <4>1, SavesStay
    <3>3. ASSUME NEW i \in 1 .. Len(db_queue'), (\A j \in i + 1 .. Len(db_queue) : ~SaveAt(j, h))'
          PROVE  i = Len(db_queue) + 1
      <4>1. CASE i \in 1 .. Len(db_queue)
        <5> DEFINE e == Len(db_queue) + 1
        <5>1. e \in i + 1 .. Len(db_queue')
          BY <3>1, <4>1
        <5> QED
          BY <3>2, <3>3, <5>1
      <4> QED
        BY <1>1, <2>2, <2>3, <4>1, SavesStay
    <3>4. LastIsLatest(h)'
      BY <2>3, <2>4, <3>1, <3>3 DEF LastIsLatest
    <3> QED
      BY <3>2, <3>4 DEF Waiting
  <2>8. TableFollows(h)' /\ NewIsAtOrigin(h)'
    BY <2>3, <2>5, <2>7 DEF TableFollows, NewIsAtOrigin, RowsOf
  <2> QED
    BY <2>6, <2>7, <2>8
<1> QED
  BY <1>2, <1>3

\* The database service takes a message of the queue.
LEMMA PlaceMessage ==
  ASSUME PlaceInv, HandleRegister \/ HandleQuery
  PROVE  \A n \in Names : LastIsLatest(n)' /\ TableFollows(n)' /\ NewIsAtOrigin(n)'
<1>1. /\ TypeOK /\ InTheGame /\ AccountInv
      /\ \A n \in Names : LastIsLatest(n) /\ TableFollows(n) /\ NewIsAtOrigin(n)
  BY DEF PlaceInv, AccountInv, GameInv
<1>2. UNCHANGED << game, rows, raced, left >> /\ \E type : HandleMessage(type)
  BY DEF HandleRegister, HandleQuery, HandleMessage, gameVars
<1> SUFFICES ASSUME NEW n \in Names PROVE LastIsLatest(n)' /\ TableFollows(n)' /\ NewIsAtOrigin(n)'
  OBVIOUS
<1>3. LastIsLatest(n)'
  BY <1>1, <1>2, SavesMoveUp
<1>4. /\ Waiting(n) => SaveAt(1, n) \/ Waiting(n)'
      /\ Waiting(n)' => Waiting(n)
      /\ ~Waiting(n)' => \A i \in 2 .. Len(db_queue) : ~SaveAt(i, n)
  BY <1>1, <1>2, SavesMoveUp
<1>5. db_queue # << >> /\ Len(db_queue) \in Nat \ {0} /\ Head(db_queue) = db_queue[1]
  BY <1>1, <1>2, QueueTypes DEF HandleMessage
<1>6. SaveAt(1, n) => db_queue[1].type = "Save" /\ game[db_queue[1].conn].name = n
  BY DEF SaveAt
<1>7. ASSUME ~SaveAt(1, n), UNCHANGED saves, n \in blurred => n \in blurred'
      PROVE  TableFollows(n)' /\ NewIsAtOrigin(n)'
  BY <1>1, <1>2, <1>4, <1>7 DEF TableFollows, NewIsAtOrigin, RowsOf
<1>8. CASE HandleRegister
  <2>1. ~SaveAt(1, n) /\ UNCHANGED << saves, blurred >>
    BY <1>5, <1>6, <1>8 DEF HandleRegister, HandleMessage
  <2> QED
    BY <1>3, <1>7, <2>1
<1>9. CASE HandleQuery
  <2> DEFINE m == db_queue[1]
             others == {u \in saves : u.name = player_map[m.conn] /\ u.place # m.place}
  <2>1. /\ m.type = "Save" /\ m.conn \in Conns /\ m.place \in Places
        /\ 1 \in 1 .. Len(db_queue) /\ m \in DbMessages
    BY <1>1, <1>5, <1>9, QueueTypes DEF HandleQuery, HandleMessage, DbMessages
  <2>2. /\ game[m.conn] # None /\ game[m.conn].name \in Names
        /\ player_map[m.conn] # None => game[m.conn].name = player_map[m.conn]
    BY <1>1, <2>1, RecordFields DEF InTheGame, TypeOK
  <2> PICK h \in Names : h = game[m.conn].name
    BY <2>2
  <2>3. SaveAt(1, n) <=> n = h
    BY <2>1 DEF SaveAt
  <2>4. CASE player_map[m.conn] = None
    <3>1. blurred' = blurred \cup {h} /\ UNCHANGED saves
      BY <1>5, <1>9, <2>4 DEF HandleQuery
    <3>2. CASE n = h
      BY <1>1, <1>2, <1>3, <3>1, <3>2 DEF TableFollows, NewIsAtOrigin, RowsOf
    <3> QED
      BY <1>3, <1>7, <2>3, <3>1, <3>2
  <2>5. CASE player_map[m.conn] # None
    <3>1. /\ saves' = saves \cup {[name |-> h, place |-> m.place]}
          /\ blurred' = IF others = {} THEN blurred \ {h} ELSE blurred \cup {h}
      BY <1>5, <1>9, <2>2, <2>5 DEF HandleQuery
    <3>2. CASE n # h
      <4>1. (n \in blurred' <=> n \in blurred) /\ \A u : u.name = n => (u \in saves' <=> u \in saves)
        BY <3>1, <3>2
      <4>2. Waiting(n)' <=> Waiting(n)
        BY <1>4, <2>3, <3>2
      <4> QED
        BY <1>1, <1>2, <1>3, <3>2, <4>1, <4>2 DEF TableFollows, NewIsAtOrigin, RowsOf
    <3>3. CASE n = h
      <4>1. NewIsAtOrigin(n)'
        <5>1. RowsOf(n) # {}
          BY <1>1, <2>1, <2>2, <3>3, PlayersHaveRows
        <5> QED
          BY <1>2, <5>1 DEF NewIsAtOrigin, RowsOf
      <4>2. ASSUME n \notin blurred', ~Waiting(n)'
            PROVE  /\ \A u \in saves' : u.name = n => u.place = left'[n]
                   /\ ~\A u \in saves' : u.name # n
        <5>1. m.place = left[n]
          <6>1. \A j \in 1 + 1 .. Len(db_queue) : ~SaveAt(j, n)
            BY <1>4, <4>2
          <6> QED
            BY <1>1, <2>1, <2>3, <3>3, <6>1 DEF LastIsLatest
        <5>2. others = {}
          BY <3>1, <3>3, <4>2
        <5>3. \A u \in saves : u.name = n => u.place = m.place
          BY <2>2, <2>5, <3>3, <5>2
        <5> QED
          <6> DEFINE u == [name |-> h, place |-> m.place]
          <6>1. u.name = h /\ u.place = m.place
            OBVIOUS
          <6> HIDE DEF u
          <6>2. saves' = saves \cup {u} /\ left' = left
            BY <1>2, <3>1 DEF u
          <6> QED
            BY <3>3, <5>1, <5>3, <6>1, <6>2
      <4> QED
        BY <1>3, <4>1, <4>2 DEF TableFollows
    <3> QED
      BY <3>2, <3>3
  <2> QED
    BY <2>4, <2>5
<1> QED
  BY <1>8, <1>9

\* An update of the table succeeds or fails, or the service starts again.
LEMMA PlaceUpdate ==
  ASSUME PlaceInv, (\E u \in saves : Updates(u) \/ UpdateFails(u)) \/ RestartService
  PROVE  \A n \in Names : LastIsLatest(n)' /\ TableFollows(n)' /\ NewIsAtOrigin(n)'
<1>1. /\ TypeOK /\ InTheGame
      /\ \A n \in Names : LastIsLatest(n) /\ TableFollows(n) /\ NewIsAtOrigin(n)
  BY DEF PlaceInv, AccountInv, GameInv
<1>2. UNCHANGED << game, raced, left >>
  BY DEF Updates, UpdateFails, RestartService, gameVars, history
<1> SUFFICES ASSUME NEW n \in Names PROVE LastIsLatest(n)' /\ TableFollows(n)' /\ NewIsAtOrigin(n)'
  OBVIOUS
<1>3. ASSUME NEW u \in saves, Updates(u) \/ UpdateFails(u)
      PROVE  LastIsLatest(n)' /\ TableFollows(n)' /\ NewIsAtOrigin(n)'
  <2>1. UNCHANGED << db_queue, game, left >> /\ saves' = saves \ {u}
    BY <1>2, <1>3 DEF Updates, UpdateFails
  <2>2. \A i \in 1 .. Len(db_queue) : SaveAt(i, n)' <=> SaveAt(i, n)
    BY <2>1 DEF SaveAt
  <2>3. LastIsLatest(n)' /\ (Waiting(n)' <=> Waiting(n))
    BY <1>1, <2>1 DEF LastIsLatest, Waiting, SaveAt
  <2>4. CASE Updates(u)
    <3>1. /\ rows' = {IF r.name = u.name THEN [r EXCEPT !.place = u.place] ELSE r : r \in rows}
          /\ UNCHANGED << blurred, raced >>
      BY <2>4 DEF Updates, history
    <3>2. \A r \in rows : [r EXCEPT !.place = u.place].name = r.name
                          /\ [r EXCEPT !.place = u.place].place = u.place
      BY <1>1 DEF TypeOK, Sessions
    <3>3. RowsOf(n)' = {} <=> RowsOf(n) = {}
      <4>1. \A r \in RowsOf(n) : \E q \in rows' : q.name = n
        BY <3>1, <3>2 DEF RowsOf
      <4>2. \A q \in rows' : q.name = n => \E r \in rows : r.name = n
        BY <3>1, <3>2
      <4> QED
        BY <4>1, <4>2 DEF RowsOf
    <3>4. CASE u.name = n
      <4>1. \A r \in RowsOf(n)' : r.place = u.place
        BY <3>1, <3>2, <3>4 DEF RowsOf
      <4>2. n \notin blurred /\ ~Waiting(n) => u.place = left[n]
        BY <1>1, <3>4 DEF TableFollows
      <4> QED
        BY <1>1, <2>1, <2>3, <3>1, <3>3, <3>4, <4>1, <4>2 DEF TableFollows, NewIsAtOrigin
    <3>5. CASE u.name # n
      <4>1. RowsOf(n)' = RowsOf(n)
        BY <3>1, <3>2, <3>5 DEF RowsOf
      <4> QED
        BY <1>1, <2>1, <2>3, <3>1, <3>5, <4>1 DEF TableFollows, NewIsAtOrigin
    <3> QED
      BY <3>4, <3>5
  <2>5. CASE UpdateFails(u)
    <3>1. UNCHANGED << rows, raced >> /\ blurred' = blurred \cup {u.name}
      BY <2>5 DEF UpdateFails
    <3> QED
      BY <1>1, <2>1, <2>3, <3>1 DEF TableFollows, NewIsAtOrigin, RowsOf
  <2> QED
    BY <1>3, <2>4, <2>5
<1>4. CASE RestartService
  <2>1. /\ db_queue' = << >> /\ saves' = {} /\ rows' = rows
        /\ n \notin blurred' => /\ n \notin blurred
                                /\ \A u \in saves : u.name # n
                                /\ \A i \in 1 .. Len(db_queue) : ~SaveAt(i, n)
    BY <1>4 DEF RestartService, SaveAt
  <2>2. LastIsLatest(n)'
    BY <2>1 DEF LastIsLatest
  <2>3. NewIsAtOrigin(n)'
    BY <1>1, <1>2, <2>1 DEF NewIsAtOrigin, RowsOf
  <2>4. TableFollows(n)'
    BY <1>1, <1>2, <2>1 DEF TableFollows, RowsOf, Waiting
  <2> QED
    BY <2>2, <2>3, <2>4
<1> QED
  BY <1>3, <1>4

\* An account is created.
LEMMA PlaceCreate ==
  ASSUME PlaceInv, NEW c \in Clients, CreatePlayer(c)
  PROVE  \A n \in Names : LastIsLatest(n)' /\ TableFollows(n)' /\ NewIsAtOrigin(n)'
<1>1. /\ TypeOK /\ \A n \in Names : LastIsLatest(n) /\ TableFollows(n) /\ NewIsAtOrigin(n)
      /\ \A n \in Names \ raced : OneAccount(n)
  BY DEF PlaceInv, AccountInv, GameInv
<1>2. UNCHANGED << game, db_queue, saves, left, blurred, raced >>
  BY DEF CreatePlayer, Gatekeeper, gameVars, serviceVars
<1> DEFINE row == Row(request[c].name, Trim[request[c].password], Origin)
<1>3. rows' = rows \cup {row} /\ row.name = request[c].name /\ row.place = Origin
  BY DEF CreatePlayer, Row
<1> HIDE DEF row
<1> SUFFICES ASSUME NEW n \in Names PROVE LastIsLatest(n)' /\ TableFollows(n)' /\ NewIsAtOrigin(n)'
  OBVIOUS
<1>4. LastIsLatest(n)' /\ (Waiting(n)' <=> Waiting(n))
  BY <1>1, <1>2 DEF LastIsLatest, Waiting, SaveAt
<1>5. CASE row.name # n
  <2>1. RowsOf(n)' = RowsOf(n)
    BY <1>3, <1>5 DEF RowsOf
  <2> QED
    BY <1>1, <1>2, <1>4, <2>1 DEF TableFollows, NewIsAtOrigin
<1>6. CASE row.name = n
  <2>1. row \in RowsOf(n)' /\ RowsOf(n)' = RowsOf(n) \cup {row}
    BY <1>3, <1>6 DEF RowsOf
  <2>2. n \notin raced => RowsOf(n) = {} /\ left[n] = Origin
    BY <1>1, <1>3, <1>6 DEF OneAccount, Looking, NewIsAtOrigin, CreatePlayer
  <2> QED
    BY <1>1, <1>2, <1>3, <1>4, <2>1, <2>2 DEF TableFollows, NewIsAtOrigin
<1> QED
  BY <1>5, <1>6

\* Everybody is at the origin at first.
LEMMA PlaceInit == Init => PlaceInv
<1> SUFFICES ASSUME Init PROVE PlaceInv
  OBVIOUS
<1>1. ASSUME NEW n \in Names PROVE LastIsLatest(n) /\ TableFollows(n) /\ NewIsAtOrigin(n)
  BY DEF Init, LastIsLatest, TableFollows, NewIsAtOrigin, RowsOf
<1> QED
  BY <1>1, AccountInit DEF PlaceInv

\* Every step keeps the places as they should be.
LEMMA PlaceStep == PlaceInv /\ [Next]_vars => PlaceInv'
<1> SUFFICES ASSUME PlaceInv, [Next]_vars PROVE PlaceInv'
  OBVIOUS
<1> DEFINE Quiet == UNCHANGED << db_queue, saves, rows, left, blurred >> /\ raced \subseteq raced'
<1>1. Quiet => \A n \in Names : LastIsLatest(n)' /\ TableFollows(n)' /\ NewIsAtOrigin(n)'
  BY PlaceQuiet
<1>2. ASSUME NEW c \in Clients, ClientSteps(c) PROVE Quiet \/ CreatePlayer(c)
  BY <1>2 DEF ClientSteps, HandleSubmit, PollJoinTask, TickSuccessTimer, StartsConnect, Refuse,
              FindPlayer, Frame, Restart, Gatekeeper, serviceVars, history
<1>3. ASSUME NEW k \in Conns, ConnSteps(k)
      PROVE  Quiet \/ Registers(k) \/ \E s \in Roles : Leaves(k, s)
  BY <1>3 DEF ConnSteps, Connects, CannotConnect, OpensStream, LinkEnds, Backend, Starts, Moves,
              Mirrors, InGameVars, serviceVars, history
<1>4. ASSUME ServiceSteps
      PROVE  \/ HandleRegister \/ HandleQuery \/ RestartService
             \/ \E u \in saves : Updates(u) \/ UpdateFails(u)
  BY <1>4 DEF ServiceSteps
<1>5. UNCHANGED vars => Quiet
  BY DEF vars, serviceVars, history
<1>6. \A n \in Names : LastIsLatest(n)' /\ TableFollows(n)' /\ NewIsAtOrigin(n)'
  BY <1>1, <1>2, <1>3, <1>4, <1>5, PlaceCreate, PlaceConn, PlaceMessage, PlaceUpdate DEF Next
<1> QED
  BY <1>6, AccountStep DEF PlaceInv

\* An account is let in where it was last left, as soon as that is stored and
\* unless its saves have overlapped or failed or it was created twice.
THEOREM PlayersResumeWhereLeft == Spec => ResumesWhereLeft
<1> DEFINE Resumes(c) ==
      request'[c] # None /\ request'[c].phase = "accepted" /\ ~Asked(c, "accepted") =>
        LET n == request'[c].name
        IN  Stored(n) /\ n \notin blurred \cup raced => request'[c].place = left[n]
<1>1. PlaceInv /\ [Next]_vars => \A c \in Clients : Resumes(c)
  <2> SUFFICES ASSUME PlaceInv, [Next]_vars, NEW c \in Clients,
                      request'[c] # None, request'[c].phase = "accepted", ~Asked(c, "accepted"),
                      NEW n, n = request'[c].name, Stored(n), n \notin blurred \cup raced
               PROVE  request'[c].place = left[n]
    OBVIOUS
  <2>1. /\ TypeOK /\ \A o \in Names : TableFollows(o) /\ NewIsAtOrigin(o)
        /\ \A o \in Names \ raced : OneAccount(o)
    BY DEF PlaceInv, AccountInv, GameInv
  <2>2. FindPlayer(c) \/ CreatePlayer(c)
    <3>1. ~\A d \in Clients : ~FindPlayer(d) /\ ~CreatePlayer(d)
      BY <2>1, RequestStep DEF Asked
    <3> QED
      BY <2>1, <3>1, GatekeeperStep DEF Asked
  <2>3. /\ request[c] # None /\ request[c] \in Requests /\ request[c].name = n /\ n \in Names
    BY <2>1, <2>2, GatekeeperStep, RecordFields
  <2>4. ~Waiting(n) /\ \A u \in saves : u.name # n
    BY DEF Stored, Waiting, SaveAt
  <2>5. CASE FindPlayer(c)
    <3>1. \A p \in {"missing", "refused"} : p # "accepted" /\ p \in Phases
      BY DEF Phases
    <3>2. \A r \in RowsOf(n) : r.place \in Places /\ r.place = left[n]
      BY <2>1, <2>3, <2>4 DEF TableFollows, RowsOf, TypeOK, Sessions
    <3>3. ~Answered(c, "missing", Origin) /\ ~Answered(c, "refused", Origin)
      BY <2>1, <2>3, <3>1, AnswerType, AccountsAssumption
    <3>4. \E r \in RowsOf(n) : Answered(c, "accepted", r.place)
      BY <2>3, <2>5, <3>3 DEF FindPlayer
    <3> QED
      BY <2>1, <2>3, <3>2, <3>4, AnswerType DEF Phases
  <2>6. CASE CreatePlayer(c)
    <3>1. RowsOf(n) = {} /\ left[n] = Origin
      BY <2>1, <2>3, <2>6 DEF OneAccount, Looking, NewIsAtOrigin, CreatePlayer
    <3>2. request'[c].place = Origin
      BY <2>1, <2>3, <2>6, AnswerType, AccountsAssumption DEF CreatePlayer, Phases
    <3> QED
      BY <3>1, <3>2
  <2> QED
    BY <2>2, <2>5, <2>6
<1>2. PlaceInv /\ [Next]_vars => [\A c \in Clients : Resumes(c)]_vars
  BY <1>1
<1> QED
  BY <1>2, PlaceInit, PlaceStep, PTL DEF Spec, ResumesWhereLeft
=============================================================================
