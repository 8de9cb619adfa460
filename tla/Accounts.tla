------------------------------ MODULE Accounts ------------------------------
(***************************************************************************)
(* From the login form to the game and back to the stored position: the    *)
(* client's states Login, Connecting and InGame, the gatekeeper that finds *)
(* or creates the account, the database service that stores the position   *)
(* of a player that has left, and the table of players both of them use.   *)
(*                                                                         *)
(* One action of the client is what one system does in one frame.  The     *)
(* table and the backend of a connection are outside; they may fail at     *)
(* every call.  Nothing keeps a name from having two rows, and rows of one *)
(* name are found in any order.                                            *)
(*                                                                         *)
(* A connection is used once.  The broker handles its messages in order,   *)
(* and sends the database service what it handles in that order, later.    *)
(* Empty fields are refused by the form and change nothing.                *)
(***************************************************************************)
EXTENDS Naturals, Sequences, FiniteSets

CONSTANTS
  Clients, Names,
  Passwords,    \* what can be typed
  Trim,         \* Trim[p]: p without the blanks around it, never empty here
  Places,       \* where a player can be
  Origin,       \* where a new player starts
  None,         \* no value
  MaxConns,     \* bound: connections dialled
  MaxRequests,  \* bound: requests sent
  MaxMoves,     \* bound: movements and mirrorings
  MaxRestarts   \* bound: restarts of the database service

Conns == 1 .. MaxConns
Phases == {"sent", "missing", "accepted", "refused"}
Requests == [phase : Phases, name : Names, password : Passwords, place : Places]
Sessions == [name : Names, password : {Trim[p] : p \in Passwords}, place : Places]

ASSUME AccountsAssumption ==
  /\ DOMAIN Trim = Passwords
  /\ Origin \in Places
  /\ None \notin Places /\ None \notin Names /\ None \notin Conns
  /\ None \notin Requests /\ None \notin Sessions
  /\ MaxConns \in Nat /\ MaxRequests \in Nat /\ MaxMoves \in Nat /\ MaxRestarts \in Nat

VARIABLES
  screen,      \* screen[c]: "Login", "Connecting" or "InGame"
  request,     \* request[c]: the JoinTask and how far its request is, or None
  countdown,   \* countdown[c]: there is a TransitionTimer
  session,     \* session[c]: the GameSession, or None
  conn,        \* conn[c]: the connection of the ActivePeer, or None
  events,      \* events[c]: events of the ActivePeer not polled yet
  timeout,     \* timeout[c]: there is a ConnectTimeout
  link,        \* link[k]: how far the connection is
  player,      \* player[k]: what the broker has handled of the client's messages
  game,        \* game[k]: the session the messages were made from, or None
  copies,      \* copies[k][s]: the place of the copy on one shard or the other
  db_queue,    \* broadcasts on their way to the database service
  player_map,  \* player_map[k]: the name registered for k, or None
  saves,       \* updates of the table under way, each in a task of its own
  rows,        \* the table PlayerInformation
  requests, moves, restarts,  \* counters for the bounds
  raced,       \* history: names created by two requests at once
  left,        \* left[n]: history: the place last published for n on leaving
  blurred      \* history: names with saves that failed, were dropped or overlapped

clientVars  == << screen, request, countdown, session, conn, events, timeout, requests >>
gameVars    == << link, player, game, copies, moves >>
serviceVars == << db_queue, player_map, saves, restarts >>
history     == << raced, left, blurred >>
vars == << clientVars, gameVars, serviceVars, rows, history >>

Request(phase, n, p, place) == [phase |-> phase, name |-> n, password |-> p, place |-> place]
Session(n, p, place) == [name |-> n, password |-> p, place |-> place]
Row(n, p, place) == [name |-> n, password |-> p, place |-> place]

RegisterMsg(k, n) == [type |-> "Register", conn |-> k, name |-> n]
SaveMsg(k, place) == [type |-> "Save", conn |-> k, place |-> place]

Roles == {"local", "ghost"}
Asked(c, phase) == request[c] # None /\ request[c].phase = phase
RowsOf(n) == {r \in rows : r.name = n}
NoCopies == [s \in Roles |-> None]

Init ==
  /\ screen = [c \in Clients |-> "Login"]
  /\ request = [c \in Clients |-> None]
  /\ countdown = [c \in Clients |-> FALSE]
  /\ session = [c \in Clients |-> None]
  /\ conn = [c \in Clients |-> None]
  /\ events = [c \in Clients |-> << >>]
  /\ timeout = [c \in Clients |-> FALSE]
  /\ link = [k \in Conns |-> "unused"]
  /\ player = [k \in Conns |-> "none"]
  /\ game = [k \in Conns |-> None]
  /\ copies = [k \in Conns |-> NoCopies]
  /\ db_queue = << >>
  /\ player_map = [k \in Conns |-> None]
  /\ saves = {}
  /\ rows = {}
  /\ requests = 0 /\ moves = 0 /\ restarts = 0
  /\ raced = {}
  /\ left = [n \in Names |-> Origin]
  /\ blurred = {}
----------------------------------------------------------------------------
(***************************************************************************)
(* The login screen.                                                       *)
(***************************************************************************)

\* One request at a time; a countdown under way does not keep from another.
HandleSubmit(c, n, p) ==
  /\ screen[c] = "Login" /\ request[c] = None /\ requests < MaxRequests
  /\ request' = [request EXCEPT ![c] = Request("sent", n, p, Origin)]
  /\ requests' = requests + 1
  /\ UNCHANGED << screen, countdown, session, conn, events, timeout,
                  gameVars, serviceVars, rows, history >>

\* The session with its place is replaced and the countdown starts anew.
TakesAnswer(c) ==
  /\ request' = [request EXCEPT ![c] = None]
  /\ session' = IF Asked(c, "accepted")
                THEN [session EXCEPT ![c] =
                        Session(request[c].name, Trim[request[c].password], request[c].place)]
                ELSE session

PollJoinTask(c) ==
  /\ screen[c] = "Login" /\ (Asked(c, "accepted") \/ Asked(c, "refused"))
  /\ TakesAnswer(c)
  /\ countdown' = [countdown EXCEPT ![c] = @ \/ Asked(c, "accepted")]
  /\ UNCHANGED << screen, conn, events, timeout, requests, gameVars, serviceVars, rows, history >>

Unused == {k \in Conns : link[k] = "unused"}
NextConn == CHOOSE k \in Unused : TRUE

\* start_connect: a new peer takes the place of the former one.
StartsConnect(c) ==
  /\ Unused # {}
  /\ screen' = [screen EXCEPT ![c] = "Connecting"]
  /\ conn' = [conn EXCEPT ![c] = NextConn]
  /\ events' = [events EXCEPT ![c] = << >>]
  /\ timeout' = [timeout EXCEPT ![c] = TRUE]
  /\ link' = [link EXCEPT ![NextConn] = "dialling"]
  /\ UNCHANGED << requests, player, game, copies, moves, serviceVars, rows, history >>

\* An answer polled in the same frame may set the timer that has been removed.
TickSuccessTimer(c) ==
  /\ screen[c] = "Login" /\ countdown[c]
  /\ StartsConnect(c)
  /\ \/ /\ countdown' = [countdown EXCEPT ![c] = FALSE]
        /\ UNCHANGED << request, session >>
     \/ /\ Asked(c, "accepted")
        /\ TakesAnswer(c)
        /\ UNCHANGED countdown
----------------------------------------------------------------------------
(***************************************************************************)
(* The gatekeeper: find_player, then create_player.                        *)
(***************************************************************************)
Gatekeeper == UNCHANGED << screen, countdown, session, conn, events, timeout, requests,
                           gameVars, serviceVars, left, blurred >>

Answered(c, phase, place) ==
  request' = [request EXCEPT ![c] = [@ EXCEPT !.phase = phase, !.place = place]]

\* The password is blank once trimmed, or the table reports an error.
Refuse(c) ==
  /\ Asked(c, "sent") \/ Asked(c, "missing")
  /\ Answered(c, "refused", Origin)
  /\ Gatekeeper /\ UNCHANGED << rows, raced >>

\* Mutant: any password opens an account that exists.
FindPlayer_AnyPassword(c) ==
  /\ Asked(c, "sent")
  /\ LET n == request[c].name
     IN  \/ \E r \in RowsOf(n) : Answered(c, "accepted", r.place) /\ UNCHANGED raced
         \/ /\ RowsOf(n) = {}
            /\ Answered(c, "missing", Origin)
            /\ raced' = IF \E d \in Clients \ {c} : Asked(d, "missing") /\ request[d].name = n
                        THEN raced \cup {n} ELSE raced
  /\ Gatekeeper /\ UNCHANGED rows

FindPlayer(c) ==
  /\ Asked(c, "sent")
  /\ LET n == request[c].name
     IN  \/ \E r \in RowsOf(n) :
              /\ IF r.password = Trim[request[c].password]
                 THEN Answered(c, "accepted", r.place) ELSE Answered(c, "refused", Origin)
              /\ UNCHANGED raced
         \/ /\ RowsOf(n) = {}
            /\ Answered(c, "missing", Origin)
            /\ raced' = IF \E d \in Clients \ {c} : Asked(d, "missing") /\ request[d].name = n
                        THEN raced \cup {n} ELSE raced
  /\ Gatekeeper /\ UNCHANGED rows

\* The answer of the table may be lost after the row was stored.
CreatePlayer(c) ==
  /\ Asked(c, "missing")
  /\ rows' = rows \cup {Row(request[c].name, Trim[request[c].password], Origin)}
  /\ Answered(c, "accepted", Origin) \/ Answered(c, "refused", Origin)
  /\ Gatekeeper /\ UNCHANGED raced
----------------------------------------------------------------------------
(***************************************************************************)
(* The connection: its backend and the Connecting state of the client.     *)
(***************************************************************************)
Backend == UNCHANGED << screen, request, countdown, session, conn, timeout, requests,
                        player, game, copies, moves, serviceVars, rows, history >>

\* Events are polled on the Connecting screen, from the peer of the client's last
\* connection.  The login screen does not poll; receive_packets of the game polls
\* and ignores them: whatever happens to the connection, the game goes on.
Reports(k, event) ==
  events' = [c \in Clients |-> IF screen[c] = "Connecting" /\ conn[c] = k
                                THEN Append(events[c], event) ELSE events[c]]

Connects(k) ==
  /\ link[k] = "dialling"
  /\ link' = [link EXCEPT ![k] = "up"] /\ Reports(k, "Connected")
  /\ Backend

CannotConnect(k) ==
  /\ link[k] = "dialling"
  /\ link' = [link EXCEPT ![k] = "down"] /\ Reports(k, "Error")
  /\ Backend

OpensStream(k) ==
  /\ link[k] = "opening"
  /\ link' = [link EXCEPT ![k] = "ready"] /\ Reports(k, "StreamCreated")
  /\ Backend

\* The connection ends; the thread of the backend may die of it.
LinkEnds(k) ==
  /\ link[k] \in {"up", "opening", "ready"}
  /\ link' = [link EXCEPT ![k] = "down"]
  /\ \/ Reports(k, "Disconnected")
     \/ link[k] = "opening" /\ Reports(k, "Crashed")
  /\ Backend

Contains(q, event) == \E i \in 1 .. Len(q) : q[i] = event
Deciding == {"StreamCreated", "Disconnected", "Error", "Crashed"}

\* Mutant: a connection that ends is not told from silence.
Decides_Silent(q) ==
  LET set == {i \in 1 .. Len(q) : q[i] \in {"StreamCreated", "Error", "Crashed"}}
  IN  IF set = {} THEN "Connecting"
      ELSE IF q[CHOOSE i \in set : \A j \in set : j <= i] = "StreamCreated"
      THEN "InGame" ELSE "Login"

\* The state poll_net_events asks for: the last event that asks for one.
Decides(q) ==
  LET set == {i \in 1 .. Len(q) : q[i] \in Deciding}
  IN  IF set = {} THEN "Connecting"
      ELSE IF q[CHOOSE i \in set : \A j \in set : j <= i] = "StreamCreated"
      THEN "InGame" ELSE "Login"

\* One frame: all events are polled and the timeout is ticked, in any order;
\* whoever sets the state last wins.
Frame(c, expires) ==
  /\ screen[c] = "Connecting"
  /\ events[c] # << >> \/ expires
  /\ expires => timeout[c]
  /\ LET q == events[c]
         k == conn[c]
         joins == Contains(q, "StreamCreated")
     IN  /\ screen' \in {[screen EXCEPT ![c] = s] :
                           s \in IF ~expires THEN {Decides(q)}
                                 ELSE {"Login", Decides(q)} \ {"Connecting"}}
         /\ timeout' = [timeout EXCEPT ![c] = @ /\ ~expires /\ ~Contains(q, "Connected")]
         /\ link' = [link EXCEPT ![k] =
                       IF Contains(q, "Connected") /\ @ = "up" THEN "opening" ELSE @]
         /\ player' = [player EXCEPT ![k] = IF joins /\ link[k] = "ready" THEN "sent" ELSE @]
         /\ game' = [game EXCEPT ![k] = IF joins THEN session[c] ELSE @]
  /\ events' = [events EXCEPT ![c] = << >>]
  /\ UNCHANGED << request, countdown, session, conn, requests, copies, moves,
                  serviceVars, rows, history >>

\* The program is closed and started again.
Restart(c) ==
  /\ screen[c] = "InGame"
  /\ screen' = [screen EXCEPT ![c] = "Login"]
  /\ request' = [request EXCEPT ![c] = None]
  /\ countdown' = [countdown EXCEPT ![c] = FALSE]
  /\ session' = [session EXCEPT ![c] = None]
  /\ conn' = [conn EXCEPT ![c] = None]
  /\ timeout' = [timeout EXCEPT ![c] = FALSE]
  /\ UNCHANGED << events, requests, gameVars, serviceVars, rows, history >>
----------------------------------------------------------------------------
(***************************************************************************)
(* The broker and the shards.                                              *)
(***************************************************************************)
InGameVars == << clientVars, link, game, player_map, saves, restarts, rows, raced >>

\* The broker passes DbRegisterUsername on.
Registers(k) ==
  /\ player[k] = "sent" /\ link[k] = "ready"
  /\ player' = [player EXCEPT ![k] = "registered"]
  /\ db_queue' = Append(db_queue, RegisterMsg(k, game[k].name))
  /\ UNCHANGED << InGameVars, copies, moves, left, blurred >>

\* The broker passes PlayerStartingPosition on and a shard spawns the player.
Starts(k) ==
  /\ player[k] = "registered" /\ link[k] = "ready"
  /\ player' = [player EXCEPT ![k] = "playing"]
  /\ copies' = [copies EXCEPT ![k]["local"] = game[k].place]
  /\ UNCHANGED << InGameVars, moves, db_queue, left, blurred >>

Moves(k, p) ==
  /\ copies[k]["local"] \notin {None, p} /\ moves < MaxMoves
  /\ copies' = [copies EXCEPT ![k]["local"] = p]
  /\ moves' = moves + 1
  /\ UNCHANGED << InGameVars, player, db_queue, left, blurred >>

\* A neighbouring shard makes a ghost of the player, or moves the one it has.
Mirrors(k) ==
  /\ copies[k]["local"] \notin {None, copies[k]["ghost"]} /\ moves < MaxMoves
  /\ copies' = [copies EXCEPT ![k]["ghost"] = copies[k]["local"]]
  /\ moves' = moves + 1
  /\ UNCHANGED << InGameVars, player, db_queue, left, blurred >>

\* SimCommand::Left on the shard of one copy: its place is published.
Leaves(k, s) ==
  /\ link[k] = "down" /\ copies[k][s] # None
  /\ copies' = [copies EXCEPT ![k][s] = None]
  /\ db_queue' = Append(db_queue, SaveMsg(k, copies[k][s]))
  /\ left' = [left EXCEPT ![game[k].name] = copies[k][s]]
  /\ UNCHANGED << InGameVars, player, moves, blurred >>
----------------------------------------------------------------------------
(***************************************************************************)
(* The database service.                                                   *)
(***************************************************************************)
HandleMessage(type) ==
  /\ db_queue # << >> /\ Head(db_queue).type = type
  /\ db_queue' = Tail(db_queue)
  /\ UNCHANGED << clientVars, gameVars, restarts, rows, raced, left >>

HandleRegister ==
  /\ HandleMessage("Register")
  /\ player_map' = [player_map EXCEPT ![Head(db_queue).conn] = Head(db_queue).name]
  /\ UNCHANGED << saves, blurred >>

\* The update runs in a task: two of one name may be applied in any order.
HandleQuery ==
  /\ HandleMessage("Save")
  /\ LET m == Head(db_queue)
         n == player_map[m.conn]
         others == {u \in saves : u.name = n /\ u.place # m.place}
     IN  IF n = None
         THEN /\ blurred' = blurred \cup {game[m.conn].name}
              /\ UNCHANGED saves
         ELSE /\ saves' = saves \cup {[name |-> n, place |-> m.place]}
              /\ blurred' = IF others = {} THEN blurred \ {n} ELSE blurred \cup {n}
  /\ UNCHANGED player_map

\* Mutant: a name is given its place once and keeps it.
Updates_Once(u) ==
  /\ saves' = saves \ {u}
  /\ rows' = {IF r.name = u.name /\ r.place = Origin THEN [r EXCEPT !.place = u.place] ELSE r
              : r \in rows}
  /\ UNCHANGED << clientVars, gameVars, db_queue, player_map, restarts, history >>

\* Every row of the name is updated.
Updates(u) ==
  /\ saves' = saves \ {u}
  /\ rows' = {IF r.name = u.name THEN [r EXCEPT !.place = u.place] ELSE r : r \in rows}
  /\ UNCHANGED << clientVars, gameVars, db_queue, player_map, restarts, history >>

UpdateFails(u) ==
  /\ saves' = saves \ {u}
  /\ blurred' = blurred \cup {u.name}
  /\ UNCHANGED << clientVars, gameVars, db_queue, player_map, restarts, rows, raced, left >>

\* The names were in memory; what was on its way or under way is lost.
RestartService ==
  /\ restarts < MaxRestarts
  /\ restarts' = restarts + 1
  /\ player_map' = [k \in Conns |-> None]
  /\ db_queue' = << >>
  /\ saves' = {}
  /\ blurred' = blurred \cup {u.name : u \in saves}
                  \cup {game[db_queue[i].conn].name : i \in 1 .. Len(db_queue)}
  /\ UNCHANGED << clientVars, gameVars, rows, raced, left >>
----------------------------------------------------------------------------
ClientSteps(c) ==
  \/ \E n \in Names, p \in Passwords : HandleSubmit(c, n, p)
  \/ PollJoinTask(c)
  \/ TickSuccessTimer(c)
  \/ Refuse(c)
  \/ FindPlayer(c)
  \/ CreatePlayer(c)
  \/ \E expires \in BOOLEAN : Frame(c, expires)
  \/ Restart(c)

ConnSteps(k) ==
  \/ Connects(k)
  \/ CannotConnect(k)
  \/ OpensStream(k)
  \/ LinkEnds(k)
  \/ Registers(k)
  \/ Starts(k)
  \/ \E p \in Places : Moves(k, p)
  \/ Mirrors(k)
  \/ \E s \in Roles : Leaves(k, s)

ServiceSteps ==
  \/ HandleRegister
  \/ HandleQuery
  \/ \E u \in saves : Updates(u) \/ UpdateFails(u)
  \/ RestartService

Next ==
  \/ \E c \in Clients : ClientSteps(c)
  \/ \E k \in Conns : ConnSteps(k)
  \/ ServiceSteps

Spec == Init /\ [][Next]_vars

\* Events are polled, the timeout runs as long as there is one, and a stream is
\* opened or the connection found dead.  Nobody has to answer a dial.
FairSpec ==
  /\ Spec
  /\ \A c \in Clients : WF_vars(Frame(c, FALSE)) /\ WF_vars(Frame(c, TRUE))
  /\ \A k \in Conns : WF_vars(OpensStream(k) \/ (link[k] = "opening" /\ LinkEnds(k)))
----------------------------------------------------------------------------
TypeOK ==
  /\ screen \in [Clients -> {"Login", "Connecting", "InGame"}]
  /\ request \in [Clients -> Requests \cup {None}]
  /\ countdown \in [Clients -> BOOLEAN]
  /\ session \in [Clients -> Sessions \cup {None}]
  /\ conn \in [Clients -> Conns \cup {None}]
  /\ events \in [Clients -> Seq(Deciding \cup {"Connected"})]
  /\ timeout \in [Clients -> BOOLEAN]
  /\ link \in [Conns -> {"unused", "dialling", "up", "opening", "ready", "down"}]
  /\ player \in [Conns -> {"none", "sent", "registered", "playing"}]
  /\ game \in [Conns -> Sessions \cup {None}]
  /\ copies \in [Conns -> [Roles -> Places \cup {None}]]
  /\ db_queue \in Seq([type : {"Register"}, conn : Conns, name : Names]
                        \cup [type : {"Save"}, conn : Conns, place : Places])
  /\ player_map \in [Conns -> Names \cup {None}]
  /\ saves \in SUBSET [name : Names, place : Places]
  /\ rows \in SUBSET Sessions
  /\ requests \in Nat /\ moves \in Nat /\ restarts \in Nat
  /\ raced \in SUBSET Names
  /\ left \in [Names -> Places]
  /\ blurred \in SUBSET Names

\* Whoever plays under a name has given one and the same password, unless two
\* first logins under it have overlapped: join.rs looks for the account and
\* creates it in two calls.
OnePassword ==
  \A k, o \in Conns :
    game[k] # None /\ game[o] # None /\ game[k].name = game[o].name =>
      game[k].password = game[o].password \/ game[k].name \in raced

\* No position of n is on its way to the table.
Stored(n) ==
  /\ \A u \in saves : u.name # n
  /\ \A i \in 1 .. Len(db_queue) : db_queue[i].type = "Save" => game[db_queue[i].conn].name # n

\* An account is let in where it was last left, as soon as that is stored and
\* unless its saves have overlapped or failed.
ResumesWhereLeft ==
  [][\A c \in Clients :
       request'[c] # None /\ request'[c].phase = "accepted" /\ ~Asked(c, "accepted") =>
         LET n == request'[c].name
         IN  Stored(n) /\ n \notin blurred \cup raced => request'[c].place = left[n]]_vars

\* The client does not stay in Connecting: it comes into the game or back to
\* the form, whatever the network does.
LeavesConnecting ==
  \A c \in Clients : (screen[c] = "Connecting") ~> (screen[c] # "Connecting")

\* What net.rs says of ConnectTimeout: the client is sent back to the form only
\* if the connection has not been made or has failed.
TimeoutMeansNoConnection ==
  [][\A c \in Clients :
       screen[c] = "Connecting" /\ screen'[c] = "Login" =>
         ~Contains(events[c], "Connected") \/ Decides(events[c]) = "Login"]_vars
=============================================================================
