--------------------------- MODULE AreaOfInterest ---------------------------
(***************************************************************************)
(* Whom each client is subscribed to.  The quadtree keeps, for every       *)
(* entity it knows, the position published last and the entities in its    *)
(* area of interest.  Every tick it reads the broadcasts that have         *)
(* arrived, spawns the players that wait, compares every two positions and *)
(* sends the broker the subscriptions that have changed, one message after *)
(* the other, on behalf of the entities' clients.                          *)
(*                                                                         *)
(* Broadcasts to the quadtree arrive in the order in which the broker      *)
(* handled them, later.  A message of the quadtree is handled by the       *)
(* broker in the step that sends it: nothing tells that from a longer way. *)
(* The subscriptions of a client to its own topics are left out; the       *)
(* places stand for positions and shards are not told apart.               *)
(***************************************************************************)
EXTENDS Naturals, Sequences, FiniteSets

CONSTANTS
  Entities,
  Places,    \* where entities can be
  Near,      \* the pairs of places within area_of_interest_radius
  Topics,    \* the topics of an entity in the order they are subscribed to
  Nowhere,   \* no entry in entity_map
  MaxJoins,  \* bound: connections registered
  MaxMoves   \* bound: positions published by the shards

ASSUME InterestAssumption ==
  /\ Near \in SUBSET (Places \X Places)
  /\ \A p, q \in Places : << p, q >> \in Near => << q, p >> \in Near
  /\ Topics \in Seq(STRING) /\ Len(Topics) > 0
  /\ Nowhere \notin Places
  /\ MaxJoins \in Nat /\ MaxMoves \in Nat

VARIABLES
  client,                \* client[e]: "off", "connected" or "started"
  subscriptions,         \* subscriptions[i][e]: the entities whose topic i the
                         \* connection registered for e is subscribed to
  watched,               \* the entities whose topics the quadtree hears
  where,                 \* where[e]: the position published last, or Nowhere
  broadcasts,            \* broadcasts on their way to the quadtree
  step,                  \* what the quadtree is at: "poll", "spawn" or "send"
  pending_players,       \* the players that wait, with their places
  entity_map,            \* entity_map[e]: the position known, or Nowhere
  entities_in_interest,  \* entities_in_interest[e]: as stored by the last tick
  pending_updates,       \* changes of interest not yet sent, or not in full
  joins, moves,          \* counters for the bounds
  returned,              \* history: clients that came back while the quadtree
                         \* still had something of their former connection
  missed,                \* history: clients whose end came before their spawn
  dropped                \* history: players whose waiting timed out

clientVars   == << client, where, joins, moves >>
quadtreeVars == << step, pending_players, entity_map, entities_in_interest, pending_updates >>
history      == << returned, missed, dropped >>
vars == << clientVars, subscriptions, watched, broadcasts, quadtreeVars, history >>

PosMsg(e, p) == [type |-> "Position", entity |-> e, pos |-> p]
StartMsg(e, p) == [type |-> "Start", entity |-> e, pos |-> p]
EndMsg(e) == [type |-> "Disconnect", entity |-> e]

Messages ==
  {PosMsg(e, p) : e \in Entities, p \in Places}
    \cup {StartMsg(e, p) : e \in Entities, p \in Places}
    \cup {EndMsg(e) : e \in Entities}

Known(e) == entity_map[e] # Nowhere

Waits(e) == \E p \in Places : << e, p >> \in pending_players

\* The quadtree has an entry of e or is to make one.
Held(e) ==
  \/ Known(e) \/ Waits(e)
  \/ \E i \in 1 .. Len(broadcasts) : broadcasts[i].type = "Start" /\ broadcasts[i].entity = e

Heard(m) == IF m.entity \in watched THEN Append(broadcasts, m) ELSE broadcasts

Init ==
  /\ client = [e \in Entities |-> "off"]
  /\ subscriptions = [i \in 1 .. Len(Topics) |-> [e \in Entities |-> {}]]
  /\ watched = {}
  /\ where = [e \in Entities |-> Nowhere]
  /\ broadcasts = << >>
  /\ step = "poll"
  /\ pending_players = {}
  /\ entity_map = [e \in Entities |-> Nowhere]
  /\ entities_in_interest = [e \in Entities |-> {}]
  /\ pending_updates = {}
  /\ joins = 0 /\ moves = 0
  /\ returned = {} /\ missed = {} /\ dropped = {}
----------------------------------------------------------------------------
(***************************************************************************)
(* The clients, the shards and the broker.                                 *)
(***************************************************************************)

\* The subscriptions of a connection that is new or has ended.
Unsubscribed(e) ==
  [i \in 1 .. Len(Topics) |-> [subscriptions[i] EXCEPT ![e] = {}]]

\* The id is registered for a new connection.  The former one may not have
\* ended yet; its end is then not announced under the id.
Connect(e) ==
  /\ client[e] # "connected" /\ joins < MaxJoins
  /\ client' = [client EXCEPT ![e] = "connected"]
  /\ joins' = joins + 1
  /\ subscriptions' = Unsubscribed(e)
  /\ returned' = IF Held(e) THEN returned \cup {e} ELSE returned
  /\ missed' = missed \ {e}
  /\ UNCHANGED << where, moves, watched, broadcasts, quadtreeVars, dropped >>

\* The client publishes where it wants to start.
Start(e, p) ==
  /\ client[e] = "connected"
  /\ client' = [client EXCEPT ![e] = "started"]
  /\ broadcasts' = Append(broadcasts, StartMsg(e, p))
  /\ UNCHANGED << where, joins, moves, subscriptions, watched, quadtreeVars, history >>

\* The broker handles the end of the connection of e.
Disconnect(e) ==
  /\ client[e] # "off"
  /\ client' = [client EXCEPT ![e] = "off"]
  /\ subscriptions' = Unsubscribed(e)
  /\ broadcasts' = Heard(EndMsg(e))
  /\ missed' = IF e \in watched THEN missed ELSE missed \cup {e}
  /\ UNCHANGED << where, joins, moves, watched, quadtreeVars, returned, dropped >>

\* A shard publishes the position of an entity it has, its client gone or not.
Move(e, p) ==
  /\ e \in watched /\ p # where[e] /\ moves < MaxMoves
  /\ where' = [where EXCEPT ![e] = p]
  /\ moves' = moves + 1
  /\ broadcasts' = Heard(PosMsg(e, p))
  /\ UNCHANGED << client, joins, subscriptions, watched, quadtreeVars, history >>
----------------------------------------------------------------------------
(***************************************************************************)
(* A tick of the quadtree.                                                 *)
(***************************************************************************)
Poll(type) ==
  /\ step = "poll" /\ broadcasts # << >> /\ Head(broadcasts).type = type
  /\ broadcasts' = Tail(broadcasts)
  /\ UNCHANGED << clientVars, subscriptions, watched, step, pending_updates, returned, dropped >>

\* Mutant: a position makes an entry for an entity that has none.
HandlePosition_Unknown ==
  /\ Poll("Position")
  /\ LET m == Head(broadcasts)
     IN  entity_map' = [entity_map EXCEPT ![m.entity] = m.pos]
  /\ UNCHANGED << pending_players, entities_in_interest, missed >>

\* The position of an entity without an entry is ignored.
HandlePosition ==
  /\ Poll("Position")
  /\ LET m == Head(broadcasts)
     IN  entity_map' = IF Known(m.entity) THEN [entity_map EXCEPT ![m.entity] = m.pos]
                                          ELSE entity_map
  /\ UNCHANGED << pending_players, entities_in_interest, missed >>

HandleStart ==
  /\ Poll("Start")
  /\ LET m == Head(broadcasts)
     IN  pending_players' = pending_players \cup {<< m.entity, m.pos >>}
  /\ UNCHANGED << entity_map, entities_in_interest, missed >>

\* Only the entry of the map is dropped, not the player that waits.
HandleDisconnect ==
  /\ Poll("Disconnect")
  /\ LET e == Head(broadcasts).entity
     IN  /\ entity_map' = [entity_map EXCEPT ![e] = Nowhere]
         /\ entities_in_interest' = [entities_in_interest EXCEPT ![e] = {}]
         /\ missed' = IF Waits(e) THEN missed \cup {e} ELSE missed
  /\ UNCHANGED pending_players

\* The poll finds no further broadcast; others may be on their way.
PollEnds ==
  /\ step = "poll"
  /\ step' = "spawn"
  /\ UNCHANGED << clientVars, subscriptions, watched, broadcasts, pending_players,
                  entity_map, entities_in_interest, pending_updates, history >>

\* Mutant: the interest of the former entry is kept.
SpawnPlayerOnShard_Keep(e, p) ==
  /\ step = "spawn" /\ << e, p >> \in pending_players
  /\ pending_players' = pending_players \ {<< e, p >>}
  /\ where' = [where EXCEPT ![e] = p]
  /\ broadcasts' = Heard(PosMsg(e, p))
  /\ watched' = watched \cup {e}
  /\ entity_map' = [entity_map EXCEPT ![e] = p]
  /\ UNCHANGED << client, joins, moves, subscriptions, step, entities_in_interest,
                  pending_updates, history >>

\* A shard has registered for the place: the position is published, then the
\* quadtree subscribes to the topics of e and makes an entry, new or not.
SpawnPlayerOnShard(e, p) ==
  /\ step = "spawn" /\ << e, p >> \in pending_players
  /\ pending_players' = pending_players \ {<< e, p >>}
  /\ where' = [where EXCEPT ![e] = p]
  /\ broadcasts' = Heard(PosMsg(e, p))
  /\ watched' = watched \cup {e}
  /\ entity_map' = [entity_map EXCEPT ![e] = p]
  /\ entities_in_interest' = [entities_in_interest EXCEPT ![e] = {}]
  /\ UNCHANGED << client, joins, moves, subscriptions, step, pending_updates, history >>

\* No shard has registered within PLAYER_SPAWN_RETRY_TIMEOUT_SECS.
DropPlayer(e, p) ==
  /\ step = "spawn" /\ << e, p >> \in pending_players
  /\ pending_players' = pending_players \ {<< e, p >>}
  /\ dropped' = dropped \cup {e}
  /\ UNCHANGED << clientVars, subscriptions, watched, broadcasts, step, entity_map,
                  entities_in_interest, pending_updates, returned, missed >>
----------------------------------------------------------------------------
(***************************************************************************)
(* apply_area_of_interest.                                                 *)
(***************************************************************************)
\* Mutant: an entity is compared with itself.
Nearby_Self(e) ==
  {o \in Entities :
     Known(e) /\ Known(o) /\ << entity_map[e], entity_map[o] >> \in Near}

Nearby(e) ==
  {o \in Entities \ {e} :
     Known(e) /\ Known(o) /\ << entity_map[e], entity_map[o] >> \in Near}

Change(e, o, subscribes) == [entity |-> e, other |-> o, subscribes |-> subscribes, next |-> 1]

\* Mutant: whoever leaves the area of interest is not unsubscribed from.
Changes_Entering ==
  UNION {{Change(e, o, TRUE) : o \in Nearby(e) \ entities_in_interest[e]} : e \in Entities}

Changes ==
  UNION {{Change(e, o, TRUE) : o \in Nearby(e) \ entities_in_interest[e]}
           \cup {Change(e, o, FALSE) : o \in entities_in_interest[e] \ Nearby(e)}
         : e \in Entities}

\* The new interest is stored before anything is sent.
ApplyAreaOfInterest ==
  /\ step = "spawn"
  /\ pending_updates' = Changes
  /\ entities_in_interest' = [e \in Entities |-> Nearby(e)]
  /\ step' = IF Changes = {} THEN "poll" ELSE "send"
  /\ UNCHANGED << clientVars, subscriptions, watched, broadcasts, pending_players,
                  entity_map, history >>

\* Entities are taken in any order, what enters their area before what leaves
\* it, and the topics of one change after the other.
Due(c) ==
  /\ c.next = 1 => \A d \in pending_updates : d.next = 1
  /\ ~c.subscribes => \A d \in pending_updates : d.entity = c.entity => ~d.subscribes

\* What is left of the pass once the next message of c is sent.
Remaining(c) ==
  (pending_updates \ {c})
    \cup (IF c.next < Len(Topics) THEN {[c EXCEPT !.next = @ + 1]} ELSE {})

\* The broker finds the connection by the id, and ignores the message if there
\* is none.
Subscribed(c) ==
  IF client[c.entity] = "off" THEN subscriptions
  ELSE [subscriptions EXCEPT ![c.next][c.entity] = @ \cup {c.other}]

NotSubscribed(c) ==
  IF client[c.entity] = "off" THEN subscriptions
  ELSE [subscriptions EXCEPT ![c.next][c.entity] = @ \ {c.other}]

Send(c) ==
  /\ step = "send" /\ Due(c)
  /\ pending_updates' = Remaining(c)
  /\ step' = IF Remaining(c) = {} THEN "poll" ELSE "send"
  /\ UNCHANGED << clientVars, watched, broadcasts, pending_players, entity_map,
                  entities_in_interest, history >>

Subscribe(c) == Send(c) /\ c.subscribes /\ subscriptions' = Subscribed(c)

Unsubscribe(c) == Send(c) /\ ~c.subscribes /\ subscriptions' = NotSubscribed(c)
----------------------------------------------------------------------------
Environment ==
  \E e \in Entities :
    \/ Connect(e)
    \/ Disconnect(e)
    \/ \E p \in Places : Start(e, p) \/ Move(e, p)

Spawns == \E e \in Entities, p \in Places : SpawnPlayerOnShard(e, p) \/ DropPlayer(e, p)

Tick ==
  \/ HandlePosition
  \/ HandleStart
  \/ HandleDisconnect
  \/ PollEnds
  \/ ApplyAreaOfInterest
  \/ \E c \in pending_updates : Subscribe(c) \/ Unsubscribe(c)

Next == Environment \/ Spawns \/ Tick

Spec == Init /\ [][Next]_vars

\* The loop of the quadtree goes on, a broadcast that has arrived is read in
\* the end, and a player that waits is spawned or its time is up.
FairSpec ==
  /\ Spec
  /\ WF_vars(Tick)
  /\ SF_vars(HandlePosition \/ HandleStart \/ HandleDisconnect)
  /\ SF_vars(Spawns)
----------------------------------------------------------------------------
TypeOK ==
  /\ client \in [Entities -> {"off", "connected", "started"}]
  /\ subscriptions \in [1 .. Len(Topics) -> [Entities -> SUBSET Entities]]
  /\ watched \in SUBSET Entities
  /\ where \in [Entities -> Places \cup {Nowhere}]
  /\ broadcasts \in Seq(Messages)
  /\ step \in {"poll", "spawn", "send"}
  /\ pending_players \in SUBSET (Entities \X Places)
  /\ entity_map \in [Entities -> Places \cup {Nowhere}]
  /\ entities_in_interest \in [Entities -> SUBSET Entities]
  /\ \A e \in Entities : e \notin entities_in_interest[e]
  /\ \A e \in Entities : ~Known(e) => entities_in_interest[e] = {}
  /\ pending_updates \in SUBSET [entity : Entities, other : Entities,
                                 subscribes : BOOLEAN, next : 1 .. Len(Topics)]
  /\ step = "send" <=> pending_updates # {}
  /\ joins \in Nat /\ moves \in Nat
  /\ returned \in SUBSET Entities
  /\ missed \in SUBSET Entities
  /\ dropped \in SUBSET Entities

\* Between two passes the table of the quadtree and those of the broker agree:
\* a client is subscribed to every topic of exactly the entities in its area
\* of interest, unless it has come back before the quadtree forgot it.
InterestIsSubscribed ==
  \A e \in Entities :
    step # "send" /\ client[e] # "off" /\ e \notin returned =>
      \A i \in 1 .. Len(Topics) : subscriptions[i][e] = entities_in_interest[e]

\* An entity whose client is gone has no entry for longer than the end of the
\* client is on its way, unless the client was gone before the spawn.
EntriesHaveClients ==
  \A e \in Entities :
    Known(e) /\ client[e] = "off" =>
      \/ e \in missed
      \/ \E i \in 1 .. Len(broadcasts) : broadcasts[i] = EndMsg(e)

\* In the end whoever is in play is subscribed to all that are near where they
\* were last, though not sent a position for ever, and to nobody else, unless it
\* has come back before the quadtree forgot it.
InterestSettles ==
  <>[](\A e, o \in Entities :
         e # o /\ client[e] = "started" /\ Known(e) /\ Known(o) /\ e \notin dropped =>
           \A i \in 1 .. Len(Topics) :
             IF << where[e], where[o] >> \in Near THEN o \in subscriptions[i][e]
             ELSE e \in returned \/ o \notin subscriptions[i][e])
=============================================================================
