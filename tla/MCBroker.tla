------------------------------ MODULE MCBroker ------------------------------
(***************************************************************************)
(* A player that connects twice and a service that watches for its end and *)
(* subscribes on its behalf.                                               *)
(***************************************************************************)
EXTENDS Broker

MCClients == {"player", "service"}
MCConns == {"first", "second", "watch"}
MCTopics == {"playerEnds", "serviceEnds"}

MCDisconnectTopic ==
  [id \in MCClients |-> IF id = "player" THEN "playerEnds" ELSE "serviceEnds"]

Connect(id) == [type |-> "Connect", client |-> id]
Subscribe(id, t) == [type |-> "Subscribe", client |-> id, topic |-> t]
Unsubscribe(id, t) == [type |-> "Unsubscribe", client |-> id, topic |-> t]
Publish(t) == [type |-> "Publish", topic |-> t]

MCSends == [c \in MCConns |->
  IF c = "watch"
  THEN {Connect("service"), Subscribe("service", "playerEnds"),
        Unsubscribe("service", "playerEnds"), Subscribe("player", "serviceEnds")}
  ELSE {Connect("player"), Publish("serviceEnds")}]
=============================================================================
