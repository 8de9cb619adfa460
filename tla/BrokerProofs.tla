---------------------------- MODULE BrokerProofs ----------------------------
(***************************************************************************)
(* Theorems about Broker for any clients, connections and topics.          *)
(***************************************************************************)
EXTENDS Broker, TLAPS

\* The tables are empty at first.
LEMMA TypeInit == Init => TypeOK
BY DEF Init, TypeOK

\* What a message is made of.
LEMMA MessageFields ==
  ASSUME NEW c \in Conns, NEW m \in Sends[c]
  PROVE  /\ m \in Messages
         /\ m.type \in {"Connect", "Subscribe", "Unsubscribe"} => m.client \in Clients
         /\ m.type \in {"Subscribe", "Unsubscribe", "Publish"} => m.topic \in Topics
BY PeersAssumption DEF Messages

\* What connections have heard of stays a set of topics.
LEMMA HeardType ==
  ASSUME TypeOK, NEW t \in Topics
  PROVE  HeardAfter(t) \in [Conns -> SUBSET Topics]
BY DEF TypeOK, HeardAfter

\* A message handled keeps the types.
LEMMA TypeMessage ==
  ASSUME TypeOK, NEW c \in Conns, NEW m \in Sends[c], HandleMessage(c, m)
  PROVE  TypeOK'
<1>1. Message(c)
  BY DEF HandleMessage, HandleConnect, HandleSubscribe, HandleUnsubscribe, HandlePublish
<1>2. /\ sent' \in [Conns -> Nat] /\ late' \in SUBSET Conns
      /\ status' = status /\ connections' = connections
  BY <1>1 DEF Message, TypeOK
<1>3. CASE HandleConnect(c, m)
  BY <1>2, <1>3, MessageFields DEF HandleConnect, TypeOK
<1>4. CASE HandleSubscribe(c, m)
  <2>1. m.topic \in Topics /\ connection_map[m.client] \in Conns \cup {NoConn}
    BY <1>4, MessageFields DEF HandleSubscribe, TypeOK
  <2> QED
    BY <1>2, <1>4, <2>1 DEF HandleSubscribe, TypeOK
<1>5. CASE HandleUnsubscribe(c, m)
  BY <1>2, <1>5 DEF HandleUnsubscribe, TypeOK
<1>6. CASE HandlePublish(c, m)
  BY <1>2, <1>6, MessageFields, HeardType DEF HandlePublish, TypeOK
<1> QED
  BY <1>3, <1>4, <1>5, <1>6 DEF HandleMessage

\* The end of a connection keeps the types.
LEMMA TypeDisconnected ==
  ASSUME TypeOK, NEW c \in Conns, HandleDisconnected(c)
  PROVE  TypeOK'
<1>1. Swept(c) \in [Topics -> SUBSET Conns]
  BY DEF Swept, TypeOK
<1>2. heard' \in [Conns -> SUBSET Topics]
  <2>1. CASE \E id \in IdsOf(c) : heard' = HeardAfter(DisconnectTopic[id])
    BY <2>1, HeardType, PeersAssumption DEF IdsOf
  <2>2. CASE UNCHANGED heard
    BY <2>2 DEF TypeOK
  <2> QED
    BY <2>1, <2>2 DEF HandleDisconnected
<1> QED
  BY <1>1, <1>2 DEF HandleDisconnected, TypeOK

\* Every step keeps the types.
LEMMA TypeStep == TypeOK /\ [Next]_vars => TypeOK'
<1> SUFFICES ASSUME TypeOK, [Next]_vars PROVE TypeOK'
  OBVIOUS
<1>1. ASSUME NEW c \in Conns, Lose(c) PROVE TypeOK'
  BY <1>1 DEF Lose, TypeOK
<1>2. ASSUME NEW c \in Conns, HandleConnected(c) PROVE TypeOK'
  BY <1>2 DEF HandleConnected, TypeOK
<1>3. ASSUME NEW c \in Conns, HandleDisconnected(c) PROVE TypeOK'
  BY <1>3, TypeDisconnected
<1>4. ASSUME NEW c \in Conns, NEW m \in Sends[c], HandleMessage(c, m) PROVE TypeOK'
  BY <1>4, TypeMessage
<1>5. CASE UNCHANGED vars
  BY <1>5 DEF vars, TypeOK
<1> QED
  BY <1>1, <1>2, <1>3, <1>4, <1>5 DEF Next

\* The tables of the broker keep their types, for any peers.
THEOREM TablesAreTyped == Spec => []TypeOK
BY TypeInit, TypeStep, PTL DEF Spec
----------------------------------------------------------------------------
(***************************************************************************)
(* A connection appears in connection_map only under the id its peer       *)
(* registers, so forgetting one id at its end forgets the connection.      *)
(***************************************************************************)
Registers(c, id) == \E m \in Sends[c] : m.type = "Connect" /\ m.client = id

OwnId == \A id \in Clients : connection_map[id] # NoConn => Registers(connection_map[id], id)

\* Nothing is registered for a connection before it is accepted.
Accepted == \A id \in Clients : latest[id] # NoConn => status[latest[id]] # "new"

BrokerInv == TypeOK /\ OwnId /\ Accepted /\ LiveSubscribers /\ LatestKeepsId

\* Nobody is registered at first.
LEMMA BrokerInit == Init => BrokerInv
BY TypeInit, PeersAssumption
DEF Init, BrokerInv, OwnId, Accepted, LiveSubscribers, LatestKeepsId

\* A connection has only its own id in the table.
LEMMA OneId ==
  ASSUME BrokerInv, NEW c \in Conns, NEW id \in IdsOf(c), NEW other \in IdsOf(c)
  PROVE  id = other
<1>1. /\ id \in Clients /\ other \in Clients
      /\ connection_map[id] = c /\ connection_map[other] = c /\ c # NoConn
  BY PeersAssumption DEF IdsOf
<1>2. Registers(c, id) /\ Registers(c, other)
  BY <1>1 DEF BrokerInv, OwnId
<1> QED
  BY <1>2, OneIdAssumption DEF Registers

\* The sweep takes the subscriptions and the id of the connection that ends.
LEMMA DisconnectedStep ==
  ASSUME BrokerInv, TypeOK', NEW c \in Conns, HandleDisconnected(c)
  PROVE  BrokerInv'
<1>1. /\ connections' = connections \ {c} /\ subscriptions' = Swept(c)
      /\ late' = late /\ latest' = latest
  BY DEF HandleDisconnected
<1>2. /\ c \in connections /\ c # NoConn
      /\ connection_map \in [Clients -> Conns \cup {NoConn}]
  BY PeersAssumption DEF HandleDisconnected, BrokerInv, TypeOK
<1>3. \A id \in Clients : IF connection_map[id] = c THEN connection_map'[id] = NoConn
                          ELSE connection_map'[id] = connection_map[id]
  <2>1. CASE \E id \in IdsOf(c) : connection_map' = [connection_map EXCEPT ![id] = NoConn]
    <3>1. PICK id \in IdsOf(c) : connection_map' = [connection_map EXCEPT ![id] = NoConn]
      BY <2>1
    <3>2. \A other \in Clients : connection_map[other] = c <=> other = id
      BY <3>1, OneId DEF IdsOf
    <3> QED
      BY <1>2, <3>1, <3>2
  <2>2. CASE IdsOf(c) = {} /\ connection_map' = connection_map
    BY <2>2 DEF IdsOf
  <2> QED
    BY <2>1, <2>2 DEF HandleDisconnected
<1>4. OwnId'
  BY <1>3 DEF BrokerInv, OwnId
<1>5. LiveSubscribers'
  BY <1>1, <1>3 DEF BrokerInv, LiveSubscribers, Swept
<1>6. LatestKeepsId'
  BY <1>1, <1>3 DEF BrokerInv, LatestKeepsId
<1>7. Accepted'
  BY <1>1, <1>2 DEF HandleDisconnected, BrokerInv, Accepted, TypeOK
<1> QED
  BY <1>4, <1>5, <1>6, <1>7 DEF BrokerInv

\* Only connections that were accepted send, and register.
LEMMA AcceptedMessage ==
  ASSUME BrokerInv, NEW c \in Conns, NEW m \in Sends[c], HandleMessage(c, m)
  PROVE  Accepted'
<1>1. status' = status /\ status[c] # "new"
  BY DEF HandleMessage, HandleConnect, HandleSubscribe, HandleUnsubscribe, HandlePublish, Message
<1>2. \A id \in Clients : latest'[id] = c \/ latest'[id] = latest[id]
  BY DEF HandleMessage, HandleConnect, HandleSubscribe, HandleUnsubscribe, HandlePublish,
         BrokerInv, TypeOK
<1> QED
  BY <1>1, <1>2 DEF BrokerInv, Accepted

\* A message registers and subscribes its own connection only.
LEMMA MessageStep ==
  ASSUME BrokerInv, TypeOK', NEW c \in Conns, NEW m \in Sends[c], HandleMessage(c, m)
  PROVE  BrokerInv'
<1> USE AcceptedMessage
<1>1. /\ connections' = connections
      /\ late' = IF c \in connections THEN late ELSE late \cup {c}
  BY DEF HandleMessage, HandleConnect, HandleSubscribe, HandleUnsubscribe, HandlePublish, Message
<1>2. /\ m.type \in {"Connect", "Subscribe", "Unsubscribe"} => m.client \in Clients
      /\ m.type \in {"Subscribe", "Unsubscribe", "Publish"} => m.topic \in Topics
  BY MessageFields
<1>3. late' = {} => late = {} /\ c \in connections
  BY <1>1
<1>4. TypeOK
  BY DEF BrokerInv
<1>5. CASE HandleConnect(c, m)
  <2>1. /\ connection_map' = [connection_map EXCEPT ![m.client] = c]
        /\ latest' = [latest EXCEPT ![m.client] = c]
        /\ subscriptions' = subscriptions /\ m.client \in Clients
        /\ Registers(c, m.client)
    BY <1>2, <1>5 DEF HandleConnect, Registers
  <2>2. OwnId'
    BY <1>4, <2>1 DEF BrokerInv, OwnId, TypeOK
  <2>3. LiveSubscribers'
    BY <1>1, <1>3, <1>4, <2>1 DEF BrokerInv, LiveSubscribers, TypeOK
  <2>4. LatestKeepsId'
    BY <1>1, <1>4, <2>1 DEF BrokerInv, LatestKeepsId, TypeOK
  <2> QED
    BY <2>2, <2>3, <2>4 DEF BrokerInv
<1>6. CASE HandleSubscribe(c, m)
  <2>1. UNCHANGED << connection_map, latest >> /\ m.client \in Clients
    BY <1>2, <1>6 DEF HandleSubscribe
  <2>2. LiveSubscribers'
    BY <1>1, <1>3, <1>4, <1>6, <2>1 DEF HandleSubscribe, BrokerInv, LiveSubscribers, TypeOK
  <2> QED
    BY <1>1, <2>1, <2>2 DEF BrokerInv, OwnId, LatestKeepsId
<1>7. CASE HandleUnsubscribe(c, m)
  <2>1. UNCHANGED << connection_map, latest >>
    BY <1>7 DEF HandleUnsubscribe
  <2>2. LiveSubscribers'
    BY <1>1, <1>3, <1>4, <1>7, <2>1 DEF HandleUnsubscribe, BrokerInv, LiveSubscribers, TypeOK
  <2> QED
    BY <1>1, <2>1, <2>2 DEF BrokerInv, OwnId, LatestKeepsId
<1>8. CASE HandlePublish(c, m)
  BY <1>1, <1>3, <1>8 DEF HandlePublish, BrokerInv, OwnId, LiveSubscribers, LatestKeepsId
<1> QED
  BY <1>5, <1>6, <1>7, <1>8 DEF HandleMessage

\* Every step keeps the invariant.
LEMMA BrokerStep == BrokerInv /\ [Next]_vars => BrokerInv'
<1> SUFFICES ASSUME BrokerInv, [Next]_vars PROVE BrokerInv'
  OBVIOUS
<1>1. TypeOK'
  BY TypeStep DEF BrokerInv
<1>2. ASSUME NEW c \in Conns, Lose(c) PROVE BrokerInv'
  BY <1>1, <1>2 DEF Lose, BrokerInv, OwnId, Accepted, LiveSubscribers, LatestKeepsId, TypeOK
<1>3. ASSUME NEW c \in Conns, HandleConnected(c) PROVE BrokerInv'
  <2>1. OwnId' /\ LiveSubscribers'
    BY <1>3 DEF HandleConnected, BrokerInv, OwnId, LiveSubscribers
  <2>2. LatestKeepsId'
    <3>1. \A id \in Clients : latest[id] # c
      BY <1>3, PeersAssumption DEF HandleConnected, BrokerInv, Accepted
    <3> QED
      BY <1>3, <3>1 DEF HandleConnected, BrokerInv, LatestKeepsId
  <2>3. Accepted'
    BY <1>3 DEF HandleConnected, BrokerInv, Accepted, TypeOK
  <2> QED
    BY <1>1, <2>1, <2>2, <2>3 DEF BrokerInv
<1>4. ASSUME NEW c \in Conns, HandleDisconnected(c) PROVE BrokerInv'
  BY <1>1, <1>4, DisconnectedStep
<1>5. ASSUME NEW c \in Conns, NEW m \in Sends[c], HandleMessage(c, m) PROVE BrokerInv'
  BY <1>1, <1>5, MessageStep
<1>6. CASE UNCHANGED vars
  BY <1>1, <1>6 DEF vars, BrokerInv, OwnId, Accepted, LiveSubscribers, LatestKeepsId
<1> QED
  BY <1>2, <1>3, <1>4, <1>5, <1>6 DEF Next

\* The invariant holds in every behaviour.
LEMMA BrokerInvariant == Spec => []BrokerInv
BY BrokerInit, BrokerStep, PTL DEF Spec

\* As long as no message is handled after the end of its connection, the
\* broker sends to no ended connection and resolves no id to one.
THEOREM SubscribersAreLive == Spec => []LiveSubscribers
<1>1. BrokerInv => LiveSubscribers
  BY DEF BrokerInv
<1> QED
  BY <1>1, BrokerInvariant, PTL

\* The end of an old connection never takes an id from the connection that
\* registered it last.
THEOREM ReconnectionKeepsId == Spec => []LatestKeepsId
<1>1. BrokerInv => LatestKeepsId
  BY DEF BrokerInv
<1> QED
  BY <1>1, BrokerInvariant, PTL
=============================================================================
