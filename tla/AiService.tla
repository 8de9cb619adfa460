------------------------------ MODULE AiService ------------------------------
(***************************************************************************)
(* The non-player characters: the service spawns them where the quadtree   *)
(* has its largest leaves, opens a connection for each, drives each with a *)
(* behaviour tree over what the connection has brought, and removes those  *)
(* that were killed.                                                       *)
(*                                                                         *)
(* The world is a line of places, about two hundred units each, and one    *)
(* step is one message read for an NPC or one trigger of its tree; an      *)
(* intent is flushed in the frame in which the tree sets it.               *)
(* Of the messages of a kind that wait for an NPC only the latest counts:  *)
(* it overwrites what the others said.  The server, the ability service    *)
(* and the players are as small as the NPCs can tell; cooldowns and the    *)
(* directions of casts are left out.  The way between two places is        *)
(* straight (Pathing has the others).                                      *)
(***************************************************************************)
EXTENDS Integers, Sequences, FiniteSets

CONSTANTS
  Npcs,          \* ids, each drawn for one NPC
  Players,
  Size,          \* the places are 0 .. Size
  Origin,        \* where the server puts who was killed
  Layouts,       \* the layouts the quadtree may publish: sets of boundaries
  Share,         \* spawn_top_shard_percentage
  Padding,       \* spawn_padding
  MaxAi,         \* max_ai
  Stray,         \* how far from the spawn point the next waypoint may be
  CastRange, ChaseRange, Sight,  \* FIREBALL_RANGE, AGGRO_RANGE, area of interest
  MaxHealth, Damage, Healing, MaxMana, FireballCost, HealCost,
  Nowhere        \* no place

Places   == 0 .. Size
Entities == Npcs \cup Players

ASSUME AiAssumption ==
  /\ {Size, Padding, MaxAi, Stray, CastRange, ChaseRange, Sight} \subseteq Nat
  /\ {MaxHealth, Damage, Healing, MaxMana} \subseteq Nat
  /\ MaxHealth > 0
  /\ FireballCost \in 0 .. MaxMana /\ HealCost \in 0 .. MaxMana
  /\ Share \in 0 .. 100
  /\ \A layout \in Layouts : \A b \in layout : b.min \in Places /\ b.max \in b.min .. Size
  /\ Npcs \cap Players = {} /\ Nowhere \notin Places /\ Origin \in Places

VARIABLES
  boundaries,  \* QuadtreeBoundaries
  agents,      \* the entities with an AiEntity
  client,      \* client[a]: "none", "open", or "removed" from the pool
               \* and Disconnect published
  pos,         \* pos[a]: AiPosition
  nearby,      \* nearby[a]: Perception, in the order of first sight
  known,       \* known[a]: AiStats
  route,       \* route[a]: the waypoints of the PatrolRoute, the current one first
  node,        \* node[a]: the node of the tree to be triggered
  place,       \* place[e]: where the entity is in the world, or Nowhere
  stats,       \* stats[a]: health and mana as the ability service has them
  killed       \* the NPCs whose death has been published

mind  == << pos, nearby, known >>
world == << place, stats, killed >>
vars  == << boundaries, agents, client, mind, route, node, world >>

Least(m, n)    == IF m < n THEN m ELSE n
Greatest(m, n) == IF m < n THEN n ELSE m
Distance(p, q) == IF p < q THEN q - p ELSE p - q

FullStats == [health |-> MaxHealth, mana |-> MaxMana]
Root == "CheckAggroDistance"

Init ==
  /\ boundaries = {} /\ agents = {}
  /\ client = [a \in Npcs |-> "none"]
  /\ pos = [a \in Npcs |-> 0]
  /\ nearby = [a \in Npcs |-> << >>]
  /\ known = [a \in Npcs |-> FullStats]
  /\ route = [a \in Npcs |-> << 0 >>]
  /\ node = [a \in Npcs |-> Root]
  /\ place = [e \in Entities |-> Nowhere]
  /\ stats = [a \in Npcs |-> FullStats]
  /\ killed = {}
----------------------------------------------------------------------------
(***************************************************************************)
(* The master client and the spawn manager.                                *)
(***************************************************************************)
PollMasterClient(layout) ==
  /\ layout # boundaries
  /\ boundaries' = layout
  /\ UNCHANGED << agents, client, mind, route, node, world >>

\* The shards an NPC may be put in: the largest of them.
TopShards ==
  LET count == Cardinality(boundaries)
      top   == Greatest(1, Least(count, (count * Share + 99) \div 100))
  IN  {b \in boundaries :
         Cardinality({c \in boundaries : c.max - c.min > b.max - b.min}) < top}

\* The places of a shard, clear of the borders of the world.
SpawnArea(b) ==
  LET low  == IF \A c \in boundaries : b.min <= c.min THEN b.min + Padding ELSE b.min
      high == IF \A c \in boundaries : b.max >= c.max THEN b.max - Padding ELSE b.max
  IN  IF low > high THEN {(b.min + b.max) \div 2} ELSE low .. high

\* Mutant: the dead count.
Population_Ever == Cardinality({a \in Npcs : a \in agents \/ client[a] = "removed"})

Population == Cardinality(agents)

\* The spawn point is the first waypoint.  The timer may fire at any time.
TickRespawns(a) ==
  /\ a \notin agents /\ client[a] = "none"
  /\ Population < MaxAi
  /\ \E b \in TopShards : \E p \in SpawnArea(b) : \E w \in Places :
       /\ Distance(p, w) <= Stray
       /\ route' = [route EXCEPT ![a] = << p, w >>]
       /\ pos' = [pos EXCEPT ![a] = p]
  /\ agents' = agents \cup {a}
  /\ UNCHANGED << boundaries, client, nearby, known, node, world >>
----------------------------------------------------------------------------
(***************************************************************************)
(* The bridge.                                                             *)
(***************************************************************************)
ConnectNewEntity(a) ==
  /\ a \in agents /\ client[a] = "none"
  /\ client' = [client EXCEPT ![a] = "open"]
  /\ UNCHANGED << boundaries, agents, mind, route, node, world >>

Drains(a) == a \in agents /\ client[a] = "open"

\* The others whose positions the area of interest lets through.
Seen(a) ==
  {e \in Entities \ {a} :
     /\ place[a] # Nowhere /\ place[e] # Nowhere
     /\ Distance(place[e], place[a]) <= Sight}

\* upsert_nearby: an entity keeps the rank of its first sight.
UpsertNearby(seq, e) ==
  IF \E i \in DOMAIN seq : seq[i].who = e
  THEN [i \in DOMAIN seq |-> IF seq[i].who = e THEN [who |-> e, at |-> place[e]] ELSE seq[i]]
  ELSE Append(seq, [who |-> e, at |-> place[e]])

\* What the connection has brought: a position, the attributes.
HearOwnPosition(a) ==
  /\ Drains(a) /\ place[a] \notin {Nowhere, pos[a]}
  /\ pos' = [pos EXCEPT ![a] = place[a]]
  /\ UNCHANGED << boundaries, agents, client, nearby, known, route, node, world >>

HearOtherPosition(a, e) ==
  /\ Drains(a) /\ e \in Seen(a)
  /\ nearby' = [nearby EXCEPT ![a] = UpsertNearby(@, e)]
  /\ UNCHANGED << boundaries, agents, client, pos, known, route, node, world >>

HearAttributes(a) ==
  /\ Drains(a)
  /\ known' = [known EXCEPT ![a] = stats[a]]
  /\ UNCHANGED << boundaries, agents, client, pos, nearby, route, node, world >>

\* EntityKilled and the clean-up at the end of the system.  Disconnect is
\* published for the NPC, which takes it out of the world, but the link is not
\* closed.  The components go with the entity; its tree finds nobody.
HearKilled(a) ==
  /\ Drains(a) /\ a \in killed
  /\ agents' = agents \ {a}
  /\ client' = [client EXCEPT ![a] = "removed"]
  /\ pos' = [pos EXCEPT ![a] = 0]
  /\ nearby' = [nearby EXCEPT ![a] = << >>]
  /\ known' = [known EXCEPT ![a] = FullStats]
  /\ route' = [route EXCEPT ![a] = << 0 >>]
  /\ node' = [node EXCEPT ![a] = Root]
  /\ place' = [place EXCEPT ![a] = Nowhere]
  /\ stats' = [stats EXCEPT ![a] = FullStats]   \* nobody asks for them any more
  /\ UNCHANGED << boundaries, killed >>

\* flush_intents, MoveTo: a PathRequest and an Input towards the next waypoint.
\* The server applies the input.  The first waypoint of a path is where the NPC
\* was when it asked for it, so it may also stand still for now.
MoveTo(a, p) ==
  /\ \/ /\ place[a] # Nowhere /\ pos[a] # p
        /\ place' = [place EXCEPT ![a] = IF p > pos[a] THEN Least(Size, @ + 1)
                                         ELSE Greatest(0, @ - 1)]
     \/ UNCHANGED place
  /\ UNCHANGED << stats, killed >>

Cost(ability) == IF ability = "Heal" THEN HealCost ELSE FireballCost

\* Mutant: the mana is taken and nobody is healed.
AfterCast_NoEffect(s, ability) ==
  IF s.mana >= Cost(ability) THEN [s EXCEPT !.mana = @ - Cost(ability)] ELSE s

\* What the ability service makes of the request.
AfterCast(s, ability) ==
  IF s.mana >= Cost(ability)
  THEN [health |-> IF ability = "Heal" THEN Least(MaxHealth, s.health + Healing) ELSE s.health,
        mana   |-> s.mana - Cost(ability)]
  ELSE s

Cast(a, ability) ==
  /\ stats' = [stats EXCEPT ![a] = AfterCast(@, ability)]
  /\ UNCHANGED << place, killed >>
----------------------------------------------------------------------------
(***************************************************************************)
(* The behaviour tree: one action per trigger, on what the NPC knows then. *)
(***************************************************************************)
Within(a, range) ==
  \E i \in DOMAIN nearby[a] : Distance(nearby[a][i].at, pos[a]) < range

\* An NPC whose tree is about to trigger the node.
At(a, name) == a \in agents /\ client[a] = "open" /\ node[a] = name

\* The answer of a condition selects the next node and changes nothing else.
Answer(a, success, then, otherwise) ==
  /\ node' = [node EXCEPT ![a] = IF success THEN then ELSE otherwise]
  /\ UNCHANGED << boundaries, agents, client, mind, route, world >>

\* An action that succeeds starts the tree over.
StartOver(a) ==
  /\ node' = [node EXCEPT ![a] = Root]
  /\ UNCHANGED << boundaries, agents, client, mind >>

CheckAggroDistance(a) ==
  /\ At(a, "CheckAggroDistance")
  /\ Answer(a, Within(a, CastRange), "CastFireball", "CheckNearby")

CastFireball(a) ==
  /\ At(a, "CastFireball")
  /\ \/ /\ known[a].mana >= FireballCost /\ nearby[a] # << >>
        /\ Cast(a, "Fireball") /\ StartOver(a) /\ UNCHANGED route
     \/ /\ known[a].mana < FireballCost \/ nearby[a] = << >>
        /\ Answer(a, FALSE, Root, "CheckNearby")

CheckNearby(a) ==
  /\ At(a, "CheckNearby")
  /\ Answer(a, Within(a, ChaseRange), "Chase", "CheckLowHealth")

\* The nearest of those that are remembered; there is one by now.
Chase(a) ==
  /\ At(a, "Chase")
  /\ \E i \in DOMAIN nearby[a] :
       /\ \A j \in DOMAIN nearby[a] :
            Distance(nearby[a][i].at, pos[a]) <= Distance(nearby[a][j].at, pos[a])
       /\ MoveTo(a, nearby[a][i].at)
  /\ StartOver(a) /\ UNCHANGED route

Low(s) == s.health < MaxHealth \div 2

CheckLowHealth(a) ==
  /\ At(a, "CheckLowHealth")
  /\ Answer(a, Low(known[a]), "CastHeal", "Patrol")

CastHeal(a) ==
  /\ At(a, "CastHeal")
  /\ Cast(a, "Heal")
  /\ StartOver(a) /\ UNCHANGED route

\* A waypoint that is reached gives way to the next.
Patrol(a) ==
  LET r == IF Head(route[a]) = pos[a] THEN Append(Tail(route[a]), Head(route[a])) ELSE route[a]
  IN  /\ At(a, "Patrol")
      /\ MoveTo(a, Head(r)) /\ StartOver(a)
      /\ route' = [route EXCEPT ![a] = r]

Think(a) ==
  \/ CheckAggroDistance(a) \/ CastFireball(a)
  \/ CheckNearby(a) \/ Chase(a)
  \/ CheckLowHealth(a) \/ CastHeal(a)
  \/ Patrol(a)
----------------------------------------------------------------------------
(***************************************************************************)
(* The world: the shards, the ability service and the players.             *)
(***************************************************************************)
SpawnEntity(a) ==
  /\ client[a] = "open" /\ place[a] = Nowhere
  /\ place' = [place EXCEPT ![a] = pos[a]]
  /\ UNCHANGED << boundaries, agents, client, mind, route, node, stats, killed >>

\* A fireball hits.  Who is killed starts over at the origin, with all it had at
\* first, until the service has heard of it.
Hit(a) ==
  /\ place[a] # Nowhere
  /\ \/ /\ stats[a].health > Damage
        /\ stats' = [stats EXCEPT ![a].health = @ - Damage]
        /\ UNCHANGED << place, killed >>
     \/ /\ stats[a].health <= Damage
        /\ stats' = [stats EXCEPT ![a] = FullStats]
        /\ place' = [place EXCEPT ![a] = Origin]
        /\ killed' = killed \cup {a}
  /\ UNCHANGED << boundaries, agents, client, mind, route, node >>

RegenerateMana(a) ==
  /\ place[a] # Nowhere /\ stats[a].mana < MaxMana
  /\ stats' = [stats EXCEPT ![a].mana = @ + 1]
  /\ UNCHANGED << boundaries, agents, client, mind, route, node, place, killed >>

\* A player logs in, walks or logs out.
PlayerActs(p) ==
  /\ \E q \in Places \cup {Nowhere} :
       /\ q # Nowhere /\ place[p] # Nowhere => Distance(place[p], q) = 1
       /\ q # place[p]
       /\ place' = [place EXCEPT ![p] = q]
  /\ UNCHANGED << boundaries, agents, client, mind, route, node, stats, killed >>
----------------------------------------------------------------------------
Service(a) ==
  \/ TickRespawns(a)
  \/ ConnectNewEntity(a)
  \/ HearOwnPosition(a)
  \/ \E e \in Entities : HearOtherPosition(a, e)
  \/ HearAttributes(a)
  \/ HearKilled(a)
  \/ Think(a)

World(a) == SpawnEntity(a) \/ Hit(a) \/ RegenerateMana(a)

Next ==
  \/ \E layout \in Layouts : PollMasterClient(layout)
  \/ \E a \in Npcs : Service(a) \/ World(a)
  \/ \E p \in Players : PlayerActs(p)

Spec == Init /\ [][Next]_vars

(***************************************************************************)
(* The quadtree publishes a layout, the timer fires, the service keeps     *)
(* running its systems and ticking its trees, the broker delivers, and the *)
(* ability service keeps its ticks.  The steps under one WF exclude each   *)
(* other.                                                                  *)
(***************************************************************************)
Fairness ==
  /\ WF_vars(\/ boundaries = {} /\ \E layout \in Layouts : PollMasterClient(layout)
             \/ \E a \in Npcs : TickRespawns(a))
  /\ \A a \in Npcs :
       /\ WF_vars(ConnectNewEntity(a) \/ SpawnEntity(a) \/ HearKilled(a))
       /\ WF_vars(HearOwnPosition(a))
       /\ WF_vars(HearAttributes(a))
       /\ WF_vars(Think(a))
       /\ WF_vars(RegenerateMana(a))

FairSpec == Spec /\ Fairness
----------------------------------------------------------------------------
TypeOK ==
  /\ boundaries \in Layouts \cup {{}}
  /\ agents \subseteq Npcs
  /\ client \in [Npcs -> {"none", "open", "removed"}]
  /\ pos \in [Npcs -> Places]
  /\ place \in [Entities -> Places \cup {Nowhere}]
  /\ \A a \in Npcs :
       /\ stats[a].health \in 0 .. MaxHealth /\ stats[a].mana \in 0 .. MaxMana
  /\ killed \subseteq Npcs

\* An NPC that is killed leaves, and another takes its turn while there are ids.
KilledIsReplaced ==
  \A a \in Npcs :
    (a \in agents /\ a \in killed)
      ~> \/ client[a] = "removed" /\ Cardinality(agents) = MaxAi
         \/ \A b \in Npcs \ agents : client[b] # "none"

\* A wounded NPC that remembers nobody within its range recovers, unless it is
\* killed: neither the patrol it is on, nor requests made with too little mana,
\* nor a health it has not heard of keep it from healing.
RecoversAlone ==
  \A a \in Npcs :
    (place[a] # Nowhere /\ Low(stats[a]) /\ ~Within(a, ChaseRange))
      ~> ~Low(stats[a]) \/ a \in killed \/ Within(a, ChaseRange)

\* Once nobody else is in the game an NPC goes back to patrolling, as the
\* README has it of a player that is out of sight.
PatrolsAlone ==
  \A a \in Npcs :
    (place[a] # Nowhere /\ \A e \in Entities \ {a} : place[e] = Nowhere)
      ~> \/ node[a] = "Patrol"
         \/ place[a] = Nowhere
         \/ \E e \in Entities \ {a} : place[e] # Nowhere
=============================================================================
