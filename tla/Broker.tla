------------------------------- MODULE Broker -------------------------------
(***************************************************************************)
(* The message broker: the connections it has accepted, the ids that were  *)
(* registered for them and the subscriptions.  The broker is one loop over *)
(* the events of the socket library.  The library serves a connection with *)
(* two tasks: one forwards what arrives on the stream, the other reports   *)
(* the end of the connection.  Each keeps its own order and neither waits  *)
(* for the other, so messages may be handled after the end.                *)
(*                                                                         *)
(* Nobody sees a message or an event before the broker handles it, so it   *)
(* is chosen in the step that handles it and no queue is modelled.         *)
(***************************************************************************)
EXTENDS Naturals, FiniteSets

CONSTANTS
  Clients,          \* ids that register: players, shards and services
  Conns,            \* connections, each accepted at most once
  Topics,
  DisconnectTopic,  \* DisconnectTopic[id]: the topic of the end of id
  Sends,            \* Sends[c]: the messages the peer of c may write
  MaxSent,          \* bound: messages written on one connection
  NoConn            \* no entry in connection_map

Messages ==
  [type : {"Connect"}, client : Clients]
    \cup [type : {"Subscribe", "Unsubscribe"}, client : Clients, topic : Topics]
    \cup [type : {"Publish"}, topic : Topics]

ASSUME PeersAssumption ==
  /\ DisconnectTopic \in [Clients -> Topics]
  /\ Sends \in [Conns -> SUBSET Messages]
  /\ MaxSent \in Nat
  /\ NoConn \notin Conns

\* Every service and every client registers one id on its connection.
ASSUME OneIdAssumption ==
  \A c \in Conns : \A m, n \in Sends[c] :
    m.type = "Connect" /\ n.type = "Connect" => m.client = n.client

VARIABLES
  status,          \* status[c]: "new", "open", "lost", "ended"
  sent,            \* sent[c]: messages of c handled so far
  connections,     \* connections accepted and not ended
  connection_map,  \* connection_map[id]: the connection registered for id
  subscriptions,   \* subscriptions[t]: the connections subscribed to t
  heard,           \* heard[c]: topics broadcast to c so far
  late,            \* history: connections with a message handled after their end
  latest           \* history: latest[id]: the connection of the last Connect

vars == << status, sent, connections, connection_map, subscriptions, heard, late, latest >>

Init ==
  /\ status = [c \in Conns |-> "new"]
  /\ sent = [c \in Conns |-> 0]
  /\ connections = {}
  /\ connection_map = [id \in Clients |-> NoConn]
  /\ subscriptions = [t \in Topics |-> {}]
  /\ heard = [c \in Conns |-> {}]
  /\ late = {}
  /\ latest = [id \in Clients |-> NoConn]
----------------------------------------------------------------------------
\* The network or the peer ends the connection; nothing reports it yet.
Lose(c) ==
  /\ status[c] = "open"
  /\ status' = [status EXCEPT ![c] = "lost"]
  /\ UNCHANGED << sent, connections, connection_map, subscriptions, heard, late, latest >>

\* The acceptor reports a connection before it starts the two tasks.
HandleConnected(c) ==
  /\ status[c] = "new"
  /\ status' = [status EXCEPT ![c] = "open"]
  /\ connections' = connections \cup {c}
  /\ UNCHANGED << sent, connection_map, subscriptions, heard, late, latest >>

\* publish: every subscriber of the moment is sent the broadcast.
HeardAfter(t) ==
  [c \in Conns |-> IF c \in subscriptions[t] THEN heard[c] \cup {t} ELSE heard[c]]

\* Mutant: the end of a connection is attributed to the id that opened it.
IdsOf_Opener(c) == {m.client : m \in {n \in Sends[c] : n.type = "Connect"}}

\* Mutant: the search of the map never finds the connection.
IdsOf_None(c) == {id \in Clients : id = c}

\* The ids the search of the map can find for a connection.
IdsOf(c) == {id \in Clients : connection_map[id] = c}

\* Mutant: the subscriptions of a connection outlive it.
Swept_Nothing(c) == subscriptions

\* Mutant: the subscriptions are kept under the client's id once it is gone.
Swept_Ids(c) == [t \in Topics |-> (subscriptions[t] \ {c}) \cup IdsOf(c)]

\* The subscriptions once c is removed from every topic.
Swept(c) == [t \in Topics |-> subscriptions[t] \ {c}]

\* The end is announced under a registered id, the subscriptions are swept and
\* the id is forgotten.  Without an id it is announced under the number of the
\* connection, to which nobody can have subscribed.
HandleDisconnected(c) ==
  /\ status[c] = "lost" /\ c \in connections
  /\ status' = [status EXCEPT ![c] = "ended"]
  /\ connections' = connections \ {c}
  /\ subscriptions' = Swept(c)
  /\ \/ \E id \in IdsOf(c) :
          /\ heard' = HeardAfter(DisconnectTopic[id])
          /\ connection_map' = [connection_map EXCEPT ![id] = NoConn]
     \/ /\ IdsOf(c) = {}
        /\ UNCHANGED << heard, connection_map >>
  /\ UNCHANGED << sent, late, latest >>
----------------------------------------------------------------------------
(***************************************************************************)
(* handle_message: a message the peer of c wrote before the connection was *)
(* lost.                                                                   *)
(***************************************************************************)
Message(c) ==
  /\ status[c] # "new" /\ sent[c] < MaxSent
  /\ sent' = [sent EXCEPT ![c] = @ + 1]
  /\ late' = IF c \in connections THEN late ELSE late \cup {c}
  /\ UNCHANGED << status, connections >>

HandleConnect(c, m) ==
  /\ Message(c) /\ m.type = "Connect"
  /\ connection_map' = [connection_map EXCEPT ![m.client] = c]
  /\ latest' = [latest EXCEPT ![m.client] = c]
  /\ UNCHANGED << subscriptions, heard >>

\* The subscription is made for the connection registered under the id that
\* the message names, whoever sent it, and is dropped if there is none.
HandleSubscribe(c, m) ==
  /\ Message(c) /\ m.type = "Subscribe"
  /\ LET existing == connection_map[m.client]
     IN  subscriptions' = IF existing = NoConn THEN subscriptions
                          ELSE [subscriptions EXCEPT ![m.topic] = @ \cup {existing}]
  /\ UNCHANGED << connection_map, heard, latest >>

HandleUnsubscribe(c, m) ==
  /\ Message(c) /\ m.type = "Unsubscribe"
  /\ subscriptions' = [subscriptions EXCEPT ![m.topic] = @ \ {connection_map[m.client]}]
  /\ UNCHANGED << connection_map, heard, latest >>

HandlePublish(c, m) ==
  /\ Message(c) /\ m.type = "Publish"
  /\ heard' = HeardAfter(m.topic)
  /\ UNCHANGED << connection_map, subscriptions, latest >>
----------------------------------------------------------------------------
HandleMessage(c, m) ==
  \/ HandleConnect(c, m)
  \/ HandleSubscribe(c, m)
  \/ HandleUnsubscribe(c, m)
  \/ HandlePublish(c, m)

Next ==
  \E c \in Conns :
    \/ Lose(c)
    \/ HandleConnected(c)
    \/ HandleDisconnected(c)
    \/ \E m \in Sends[c] : HandleMessage(c, m)

Spec == Init /\ [][Next]_vars

\* The datagram reader of a lost connection ends and the broker keeps polling.
FairSpec == Spec /\ \A c \in Conns : WF_vars(HandleDisconnected(c))
----------------------------------------------------------------------------
TypeOK ==
  /\ status \in [Conns -> {"new", "open", "lost", "ended"}]
  /\ sent \in [Conns -> Nat]
  /\ connections \in SUBSET Conns
  /\ connection_map \in [Clients -> Conns \cup {NoConn}]
  /\ subscriptions \in [Topics -> SUBSET Conns]
  /\ heard \in [Conns -> SUBSET Topics]
  /\ late \in SUBSET Conns
  /\ latest \in [Clients -> Conns \cup {NoConn}]

\* The broker sends only to connections that have not ended, and resolves ids
\* only to such connections, as long as no message of a connection was handled
\* after its end.
LiveSubscribers ==
  late = {} =>
    /\ \A t \in Topics : subscriptions[t] \subseteq connections
    /\ \A id \in Clients : connection_map[id] \in connections \cup {NoConn}

\* A reconnection survives the end of the connection it replaces: the last one
\* to register an id holds it for as long as it is connected.
LatestKeepsId ==
  \A id \in Clients : latest[id] \in connections => connection_map[id] = latest[id]

\* The architecture document: when a connection ends the broker deletes all its
\* subscriptions.  A Subscribe forwarded after the end is the exception.
SweptForGood ==
  \A c \in Conns :
    status[c] = "ended" => \A t \in Topics : c \notin subscriptions[t]

\* Whoever is subscribed to the end of an id hears of it when the connection
\* that holds the id is lost, unless the id is registered again or the
\* subscription ends before.
EndIsAnnounced ==
  \A id \in Clients, c \in Conns : \A w \in Conns \ {c} :
    (/\ status[c] = "lost" /\ connection_map[id] = c
     /\ w \in subscriptions[DisconnectTopic[id]])
      ~> \/ DisconnectTopic[id] \in heard[w]
         \/ w \notin subscriptions[DisconnectTopic[id]]
         \/ connection_map[id] \notin {c, NoConn}
=============================================================================
