# Formal models of the game backend

TLA+ models of the repository's game backend: who simulates an entity while it
crosses from one game server to the next, what the message broker promises the
services that talk through it and what the socket library under it promises, how
the quadtree divides the world among servers and the orchestrator starts and
stops them, whom each player is shown, how the ability service keeps the score,
how a player logs in and is put back where it was left, how non-player characters
live and how their paths are found. TLC checks the models on small instances;
TLAPS proves the most important invariants, and that the handoff implements an
abstract transfer of ownership, for every value of the constants.

Run a model with `tlc -workers 2 -config MCHandoff.cfg MCHandoff` and a proof
with `tlapm HandoffProofs.tla`.

## The system

| part | state it keeps | operations | what makes it correct |
|---|---|---|---|
| Broker (`broker/`) | connections, id of each connection, subscriptions | Connect, Subscribe, Unsubscribe, Publish; start and end of a connection | sends only to live connections; the end of a connection is announced under its id; an id belongs to the connection that registered last |
| Socket backend (`game_sockets/`) | tables of connections and streams, three channels of one loop, a task per reader | connect, create a stream, send, close, shut down; accept, read, end of a link | nothing sent on an announced stream is dropped; a stream the other side opens becomes one to answer on; every end is reported |
| Quadtree (`quadtree/`) | position and owner of every entity, shards it is ghosted on, layout of the shards, pending destructions, players waiting for a shard | starting position, position update, disconnection, shard created; rebuild, retain, destroy | one owner per entity, followed by the shards; every point of the world covered by a live shard; no shard stopped while it simulates someone |
| Game server, a *shard* (`GameServer/`) | registry (local or ghost), queue of commands, ECS world, subscriptions | spawn, ghost, claim, release, input, cast, death, disconnection; one fixed tick | a local entity in one shard only; the owner hears the entity's inputs; ghosts go away |
| Ability service (`AbilityService/`) | registry of attributes, level, cooldowns | starting position, cast request, hit, mana regeneration | attributes in range; deaths and kills counted once; broadcasts agree with the registry |
| Orchestrator (`Orchestrator/`) | running shards, ports, containers | layout message, heartbeat, expiry | the containers follow the layout; no port used twice |
| AI service (`ai_service/`) | non-player characters, one broker client each, what each has perceived, its behaviour tree | spawn, connect, hear, think, be killed | the killed are replaced; the wounded recover; with nobody in sight they patrol |
| Pathing service (`pathing_service/`) | the map | path request: line of sight, A*, funnel | a shortest route, a string that stays clear of walls, an answer to everything |
| Gatekeeper (`gatekeeper/`) | none (the table) | join: find or create | one account per name, opened by its password only |
| Database service (`database_service/`) | names of the players | register, save a position | a player resumes where it was left |
| Client (`client/`) | state Login, Connecting or InGame, connection, what is displayed | submit, poll, connect, time out, play | never stuck between the form and the game |

Every service except the gatekeeper and the orchestrator talks through the
broker: it subscribes to topics, most of them indexed by an entity's or a
shard's id, and publishes on others. The broker forwards in the order in which
it handles messages and keeps the order of each connection; services never wait
for each other. So the hard behaviours are races between messages on different
connections, state that is changed when a message is read but acted upon at the
next tick, and ends of connections that race with messages.

## The modules

| module | models | TLC instance, proofs |
|---|---|---|
| `Handoff` | `quadtree/src/main.rs` (spawn, ghosting, handoff, disconnection), `GameServer/src/server.rs`, `simulation.rs`, `net.rs` | `MCHandoff`, `HandoffProofs` |
| `Broker` | `broker/src/net.rs`, order of events from `quic_protocol.rs` | `MCBroker`, `BrokerProofs` |
| `AbilityService` | `AbilityService/src/main.rs`, `entity.rs`, `ability.rs` | `MCAbilityService`, `ServicesProofs` |
| `ShardLayout` | `quadtree/src/main.rs` (main loop, rebuild, retained shards, destruction, waiting players) | `MCShardLayout`, `ShardLayoutProofs` |
| `Orchestrator` | `Orchestrator/src/` (`quic_server.rs`, `services/`, Redis and Docker as it uses them) | `MCOrchestrator`, `OrchestratorProofs` |
| `Ownership` | nothing of its own: the abstract specification `Handoff` implements | `AuthorityMoves` in `MCHandoff`, `HandoffProofs` |
| `Fleet` | nothing of its own: the abstract specification `Orchestrator` implements | `LayoutsAreCarriedOut` in `MCOrchestrator`, `OrchestratorProofs` |
| `AreaOfInterest` | `quadtree/src/main.rs` (entries, waiting players, `apply_area_of_interest`), `broker/src/net.rs` (subscriptions) | `MCAreaOfInterest`, `AreaOfInterestProofs` |
| `Transport` | `game_sockets/src/lib.rs`, `protocols/quic_protocol.rs` | `MCTransport`, `TransportProofs` |
| `Accounts` | `client/src/login.rs`, `net.rs`; `gatekeeper/src/routes/join.rs`; `database_service/src/main.rs`; the table behind `common/src/supabase.rs` | `MCAccounts`, `AccountsProofs` |
| `AiService` | `ai_service/src/` (`bridge.rs`, `spawn_manager.rs`, `trees.rs` and its actions) | `MCAiService` |
| `Pathing` | `pathing_service/src/` (`main.rs`, `pathfinding.rs`) | `MCPathing`, `ServicesProofs` |

The modules share no variables. They meet in the quadtree, whose tables each of
them keeps as far as its question needs: `Handoff` has one entity and a fixed
layout, `ShardLayout` the layout and of every entity only its owner,
`AreaOfInterest` the entries and no shards. Where a component meets another that
has a module of its own, it keeps the little of it that it can tell apart:
`Broker` the order of events that `Transport` produces, `ShardLayout` an
orchestrator that starts what it is told, `Accounts` a broker that passes on in
order and a game that publishes a place on leaving, `AiService` a line of places
with straight paths. The comments before the definitions
named `X_Something` mark mutants: variants of `X` with a plausible bug, which
break one of the properties.

### Handoff

One entity, a fixed layout. One entity is enough because no handler reads the
row of another entity in any table it keeps; the layout is fixed because what a
rebuild does is the business of `ShardLayout`. Positions are
abstract: `ShardAt` says which boundary contains a position, `Near[s]` which
ones are within the margin of `s`, `Keep[s]` which within twice the margin (the
distance at which a shard drops a ghost), `Reach` where one movement can go.

* A message sent is handled by the broker in the same step: it is appended to
  the queue of each subscriber of the moment (`Deliver`). Up-links are not
  modelled: the broker picks messages of different connections in any order,
  which the interleaving of the senders' steps covers. Down-links are, one FIFO
  per subscriber (`down`, `qdown`).
* A shard is two actors in one process. `poll_broker_events` changes the registry
  and the subscriptions and sends a `SimCommand` (`HandleReceiveNewPlayer` to
  `HandleReleaseOwnership`). `FixedUpdate` drains the commands and runs
  `spawn_net_entities`, `claim_ghosts`, `despawn_net_entities` and
  `publish_entity_positions` in this order (`Tick`). `mark_locals_as_ghosts` is
  ordered only after the spawn (`simulation.rs:42-48`), so it runs anywhere
  behind it (`MarkTimes`): `Outcomes` has what the tick leaves in each case, a
  late mark may find the copy despawned (`DespawnFirst`), and behind the
  publication its claim follows the position. What a system defers is applied
  before the next one that is ordered after it; left out is a mark applied to a
  copy whose despawn has just been applied, at which Bevy panics. Entities are
  spawned, changed and despawned after the drain, so the order of commands within
  one drain does not matter and `commands` counts them by kind. Nothing of the
  process runs between two systems of a tick that touches the entity, so a tick
  is one step.
* The quadtree handles a position update whole: ghosting from the *stored*
  position, then the new position, then the handoff
  (`HandleEntityPositionUpdate`).
* `races` records four races that the code runs into and does not resolve: two
  releases drained by one tick, a release drained before the shard has the
  entity, a release or a claim drained together with a departure. The safety
  properties say what holds outside of them, so they do not catch these races
  themselves; `MCHandoffTwoClaims` and `MCHandoffOvertakenMark` show two of them.

`Ownership` says what all of this is for, without messages: one shard has the
authority from the entity's spawn until its client has left, and only the one
that has it gives it away. `Handoff` implements it under the mapping `Holder`:
the shard that simulates the entity, or to which a spawn or a claim is on its
way (in a down-link or among the commands of the next tick), has the authority.
A release is therefore the step that passes it on, and the arrival of the claim
is a stutter. `orderly` is that no race has happened; after one, `Ownership`
promises nothing.

Not modelled: a dead entity's block on movement (it only restricts where the
entity moves), positions outside the world, inputs and casts.

### Broker

The broker is one loop, so each event is a step. A message is chosen in the step
that handles it, among those its peer may write (`Sends`): nobody sees it
before, so no queue is needed. `quic_protocol.rs` serves a connection with two
tasks: the reader of the stream forwards messages, the reader of the datagrams
reports the end. They do not wait for each other, so `HandleMessage` stays
enabled after `HandleDisconnected`; `late` records that it happened. The clients
of the repository draw a new id for every connection; the broker takes the id
from the message, and the instance has one id register twice to check what it
does then. `connection_map` finds one of the ids of a connection in the order of
a hash map; with one id per connection (`OneIdAssumption`, which every client
satisfies) there is no choice.

### AbilityService

A step is one broadcast handled, with all it publishes; the loop awaits only its
own publications. `shown` is what a client that has received every broadcast
displays. Time is not counted: `CooldownElapses` ends a cooldown at some later
moment, `RegenerateMana` is the once-a-second loop over all entities. Numbers
are the code's; modifiers are even, so `as i32` never truncates and
`modifier * (1 + level / 2)` is an integer. Hits come from the shards at any time
after the cast: `fireballs` is who has one flying (no system of the game server
despawns a fireball, and it passes through what it hits), `heals` counts heals
cast and not delivered. `Restart` empties the registry, which the code only keeps
in memory. A service registered anew knows nobody, and a caster it does not know
hits like one of level one.

### ShardLayout

A boundary is identified with the places it contains; the tree of boundaries is
a constant (`LayoutAssumption`: two boundaries are nested or disjoint), and
`Leaves(positions)` is the tree `insert` and `remove_empty_leaves` make of the
positions: a node divides above `Capacity` unless it is one of the `Smallest`.

* Messages polled before the rest of a tick are steps of their own; the rest is
  the step `Tick`, since nothing else reads what it changes half way:
  `process_pending_players`, and, if something was flagged, `rebuild`
  (`RebuiltMap`, `StillPending`), `retain_old_shards_during_rebuild`
  (`ParentsKept`, `ChildrenKept`, `MarkedPending`) and
  `handle_shard_destruction` (`HandedOver`). `old_shard_map` is the snapshot the
  loop takes before it polls.
* The order of hash sets and maps is nobody's choice: `Finds` and `ParentsKept`
  leave it open.
* A waiting player may time out at any tick; positions and disconnections come
  in any order, from any shard that is alive, told to stop or not.
* The orchestrator is an environment here: it starts one server for each
  boundary of the layout last sent that has none, its starts do not fail, and
  layouts reach it in order. What it does otherwise is `Orchestrator`'s
  business. `ShardCreated` may come late: a server told to stop while it starts
  may have sent it (`aborted`).
* `mishaps` records what the code runs into and does not resolve:
  `shardForgotten` (a server loses its entry without being marked to go, because
  it reported in the tick that divides its boundary, or because a larger or a
  smaller boundary was kept in its stead), `leafNotReady` (someone on a shard
  that goes stands on a leaf without a server and is not handed over),
  `lateReport` (a server that was stopped is registered).

### Orchestrator

* Each message is put in the channel by a task of its own, so the handler may
  receive any layout that was sent (`HandleShardUpdate(m)` for any `m` waiting)
  — an older one after a newer one.
* It handles one layout at a time. What it awaits is a step: a spawn task is
  `StartContainer`, then `RegisterServer` (key in Redis, then
  `current_shards`); when all have joined, each server to be removed is
  `RemoveServer` (which drops the entry first and looks its container up),
  `StopContainer`, `DeleteKey`. Heartbeats, expiring keys and the ends of
  containers come in between. The ports in use are read from Redis key by key;
  the model takes them as read at one moment, which only leaves out heartbeats
  between two reads.
* A layout is a bag: the quadtree lists a retained boundary once for every new
  leaf that needs it, and the orchestrator starts a server for each listing it
  has none for (`startedTwice`).
* Docker and Redis are modelled from their use: Docker starts no container on a
  taken port, a key set anew keeps its expiry. Requests that fail, heartbeats
  missed for too long, ends of containers and restarts of the orchestrator are
  counted by `MaxFaults` and named in `mishaps`. `Restart` empties the tables;
  what was asked of Docker just before is carried out or not.

`Fleet` says what comes of it, without ports, keys and tasks: a layout is taken up
when the last one has been carried out; then the boundaries that have no server get
one, and only when all of them have, the servers of the others stop. So a boundary
that stays keeps its server, and a division or a merge leaves no moment in which
neither the old servers nor the new run. `Orchestrator` implements it under the
mapping: ordered is the layout handled last, running the containers that run.
`orderly` is that none of `Failures` has happened: everything named in `mishaps` but
an unread port and an expired key, which do no harm until a start fails or a container is
not found.

### AreaOfInterest

* A tick of the quadtree is its broadcasts read one by one (`HandlePosition`,
  `HandleStart`, `HandleDisconnect`, until `PollEnds`), its waiting players
  (`SpawnPlayerOnShard`, `DropPlayer`), the pass over all pairs
  (`ApplyAreaOfInterest`), which stores the new interests, and one step for each
  message sent of it (`Subscribe`, `Unsubscribe`). Entities are taken in any
  order; within one, what enters comes before what leaves.
* A message of the quadtree is handled by the broker in the step that sends it.
  Nothing tells that from a longer way: the quadtree never reads its own
  subscriptions, and a connection that comes or goes on the way is one that came
  or went before the step.
* Broadcasts to the quadtree keep the order of the broker. The broker finds the
  connection by id when it handles the message: one that came back under the id
  gets the subscriptions meant for the one before.
* Shards publish positions of an entity at any time from its spawn on, its client
  gone or not: a shard hears of the end on a connection of its own, later, and a
  second authority left by two claims (see below) never does.
* `returned`, `missed` and `dropped` name the three clients the properties
  except: one that came back before the quadtree read its end keeps
  subscriptions nobody remembers; one that left while it waited is spawned and
  never removed; one whose waiting timed out is not shown to anybody.
* Left out: subscriptions of a client to its own topics, made by the client, and
  what a client displays (a position that arrives after the end of an entity
  shows it again, `client/src/`).

### Transport

* A `GamePeer` is an owner that sends commands and polls events, and a backend
  thread: one loop (`Handle...`), selecting among the channel of accepted
  connections (`conn_reg`), the one of streams (`stream_reg`) and the one of
  commands, and beside it the accept task and the readers of each connection. The
  `select!` takes any channel that is ready, so each branch is an action.
* What the owner learns is a set of events (`told`): it may act on an event in
  the moment it is sent. It creates streams on connections it dialled, and sends
  on a stream that was reported as created, or as the stream of a message, which
  is how `broker/` and the clients use the library. A peer dials or listens, as
  every program of the repository does (`accepting`).
* Failure: a link is cut at any time, a handshake fails (the accept task panics
  and nobody is accepted any more), `CreateStream` on a link that has ended
  panics the loop, and with the loop all its tasks end (`running`).
* `lost` records the Sends that were dropped for want of a connection or stream.
  Payloads, framing and sizes, and errors that are only reported, are left out.

### Accounts

* The client: `HandleSubmit` to `TickSuccessTimer` are systems of the login
  screen, `Frame` is one frame of the Connecting screen: all events polled and
  the timeout ticked, in either order, and whoever sets the next state last
  wins. The systems of a frame have no order between them, hence the second
  disjunct of `TickSuccessTimer`.
* The gatekeeper's `join` is two calls to the table, `FindPlayer` and
  `CreatePlayer`, and another request may come between them (`raced`).
* The database service reads broadcasts in the order the broker handled them, but
  makes every update in a task of its own (`saves`): two of one name are applied
  in any order. `blurred` has the names whose updates overlapped, failed or were
  lost by a restart.
* A player that leaves may have a copy on two shards (`copies`): its authority
  and a ghost. Both publish where they have it, the ghost where it was mirrored
  last, and both are saved. `left` is the place published last.
* Passwords are two that are typed, one with a blank the trim removes. Every call
  to the table may fail; that of `CreatePlayer` after the row was stored.

### AiService

* The spawn manager (`TopShards`, `SpawnArea`, `TickRespawns`), the bridge (one
  connection per NPC, `ConnectNewEntity`; messages, `Hear...`; intents, which are
  flushed in the frame that sets them), and the behaviour tree: one action per
  trigger. `node` is the node to be triggered next; between two triggers the
  bridge goes on reading, so a condition is decided on one perception and the
  action it selects acts on another.
* The world is a line of places. Distances of the code (aggro, cast range, sight)
  are given in places; health and mana are so small that one hit wounds, a second
  kills, one heal restores and one cast empties. Cooldowns and directions of casts are left out.
* Of the messages of a kind waiting for an NPC only the latest counts.
* An NPC that is killed starts over at the origin with all it had at first, as the
  server and the ability service have it, until the service that hears of it
  disconnects it (`killed`, `HearKilled`).

### Pathing

Points are integers, tiles have the code's size and padding, the costs of A*
(floating-point numbers) are counted in thousandths. One action is one turn of a
loop: A* takes one of the cheapest entries of the heap (equal ones in any
order), skips it when it is stale or extends it; the funnel reads one portal.
`Within`, the tiles within some steps, and `CutsInto`, whether a segment enters a
tile, are the reference definitions the answers are measured by. The state
machine has names of its own (`PathingInit`, `PathingNext`, `PathingSpec`), since
`ServicesProofs` extends this module together with `AbilityService`.

## What the runs check

| run | shows | instance |
|---|---|---|
| `handoff` | `OneAuthority`: one copy, command or message at most carries the authority. `AuthorityKept`: it never vanishes on the way. `LocalHearsControl`: who simulates a connected entity is subscribed to it. `OwnerIsAuthority`: when all is quiet the quadtree and the shards agree. `AuthorityMoves`: `Ownership` is implemented. `SettlesOnOwner`: when the entity stops moving, it ends up with the owner the quadtree believes in, and is forwarded to the other shards it is near to, no more and no less | shards A and B, three positions, 1 death, 4 movements, 1 position update in flight per subscriber, 2 commands between ticks |
| `handoff_stuck_ghost` | violates `GhostsFollowMargin` | 2 movements |
| `broker` | `LiveSubscribers`, `LatestKeepsId`, `EndIsAnnounced` | a player's two connections under one id, a service that subscribes for itself and for the player; 3 messages each |
| `ability` | `NobodyStaysDead`, `LevelMatchesKills`, `ShownIsCurrent`, `ManaComesBack`: the registry, its broadcasts and the score agree through deaths, late hits and a restart, and spent mana comes back | a player and a character, 2 joins, 3 casts (enough to be without mana), 2 kills (a level), 1 restart |
| `shard_layout` | `LayoutIsSent`: the orchestrator has the layout the quadtree works with. `PendingIsKept`: a shard that has to go runs until it hands over. `OneShardPerPlace`: the shards divide the world. `OwnersAreKept`: outside the mishaps nobody is left on a server told to stop. `LayoutSettles`: when entities rest, the layout becomes the tree of their positions, served, with older shards gone | a world halved twice along one axis (7 boundaries, 4 places), two entities, 2 arrivals, 1 movement, 2 servers per boundary, capacity 1 |
| `orchestrator` | `NobodyForgotten`: what runs is known, being started or being stopped. `OneServerPerBoundary`, `PortsAreFree`, `FleetFollowsLayout`: the servers known are those of the layout handled last. `LayoutsAreCarriedOut`: `Fleet` is implemented. `FleetSettles`: in the end they run, and no others | a boundary and a part of it, the three layouts of a division (whole, parent kept and listed twice, divided), 3 ports, 3 layouts sent, 1 fault |
| `area_of_interest` | `InterestIsSubscribed`: between two passes the broker's subscriptions are what the quadtree remembers. `EntriesHaveClients`: entries go with their clients. `InterestSettles`: in the end whoever is in play is subscribed to those who are near, and nobody else | two players, two places out of each other's sight, two topics, 3 joins, 2 movements |
| `transport` | `AnnouncedIsCarried`: a message on a stream reported as created on a dialled connection is never dropped. `BecomesReachable`: a stream the other side has opened becomes one to answer on, whatever channel is served first. `EndIsReported`: every link that was reported has its end reported | a dialled and an accepted connection, a reliable and an unreliable stream, 3 commands waiting |
| `accounts` | `OnePassword`: all who play under a name gave its password, unless two first logins overlapped. `ResumesWhereLeft`: a login is answered with the place last left, once it is stored, unless saves overlapped or failed. `LeavesConnecting`: the client comes into the game or back to the form | two clients, one name, two passwords, 2 connections, 2 requests, 2 movements or mirrorings, 1 restart of the database service |
| `ai` | `KilledIsReplaced`: an NPC that is killed is removed and its place taken. `RecoversAlone`: a wounded NPC with nobody within its range heals | an NPC and its successor, a player, three places in two shards, mana for one cast |
| `ai_out_of_sight` | violates `PatrolsAlone` | the same |
| `pathing` | `ShortestRoute`: A* finds a route, and none is shorter by more than a thousandth (on maps of this size, none is shorter); it gives up only if there is none. `CornersAreClear`: the string cuts no wall up to its last corner (a corner put on the wrong portal would; the leg from the last corner to the end may, see `MCPathingLastLeg`). `EveryRequestIsAnswered` | every map of 5 by 3 tiles with one or two walls, and a maze; every pair of tiles, at their centres |

Bounds. In `MCHandoff` four movements let the entity cross the border, come back
and cross again, so a second handoff overtakes the first; three positions are
the fewest at which an owner, a ghost within the margin and a ghost beyond it but
within twice of it all occur. A queue of one position update still lets a shard
fall behind by claims and releases. A tick publishes only when there is room
*or* when the shard cannot receive before it ticks, so the bound never blocks
the system: deadlock is checked. In `MCBroker` three messages are Connect,
Subscribe and one more.

In `MCShardLayout` two entities and capacity 1 divide the world at the second
arrival and merge it again when one leaves or walks across; two levels are the
code's `max_depth` of 2, so a division of a part, a merge of parts of different
depth and a larger or several smaller retained boundaries all occur; a second
server per boundary is what a boundary that returns needs. The world is halved,
not quartered, which only reduces the number of siblings. Entities start at any
of the four places and arrive in any order, so that one movement is enough for a
part to be left for another, near or far, whatever the layout was before. In `MCOrchestrator` three layouts are
division, its completion, and one overtaken by another; one fault at a time is
enough for each `mishap` to be reached. In `MCAreaOfInterest` the third join
lets a client come back while the other stays; two movements separate two
players and bring them together again; of the five topics, which are sent one
after the other, two suffice for a message that finds the connection gone
between them. In `MCTransport` each of the two connections has both kinds of
stream, since the tables and the way of registration differ by kind, and a third
command waiting is a Send behind the CreateStream it depends on and behind one
of another connection; connections and streams do not share anything but the
loop. In `MCAccounts` a second connection and request are what it takes to leave
and come back, or for two clients to meet at one name; two movements make the
place left differ from the first and from the ghost's. In `MCAiService` the
second NPC is the successor of the first, and three places are the fewest with a
place that is in range of a chase and not of a cast. In `MCPathing` five by
three is the smallest map with a way around a wall on either side and a maze
with a dead end and several corners; more walls only take routes away.

Deadlock is checked for `Handoff`, `ShardLayout` (the quadtree always ticks) and
`AreaOfInterest`. The other runs stop when the bounds are used up, all peers are
gone, the loop has ended or the request is answered, an idle state in which the
real programs wait for a message, so it is not checked there. Symmetry is used
only where no liveness is checked.

Fairness. `Handoff`: every shard goes on receiving and ticking and the quadtree
goes on handling messages; each is a loop that runs for as long as its process.
Clients, deaths and movements are never required. `Broker`: the end of a lost
connection is reported some time. `AbilityService`: the loop restores mana on a
timer of its own. `ShardLayout`: the quadtree ticks, the orchestrator starts
what the layout asks for, and a server that is not told to stop reports.
`Orchestrator`: the handler goes on handling layouts and what it awaits of
Docker and Redis is answered, with an error or not; heartbeats, expiry and faults are
never required. `AreaOfInterest`: the main loop goes on, a broadcast that has
arrived is read in the end (the poll reads all there are, so it cannot end
before one that has arrived for ever: strong fairness), and a waiting player is
spawned or its time is up (the code counts seconds). `Transport`: the `select!`
picks among the ready channels at random, so none is passed over for ever, and
the reader of a connection is scheduled; the owner's commands are never
required. `Accounts`: frames follow each other, the timeout runs as long as it
is there, and a stream is opened or the connection found dead; nobody has to
answer a dial, a request or a save. `AiService`: the quadtree publishes a layout,
the service runs its systems and triggers its trees, the broker delivers what
concerns the NPC itself, and the ability service restores mana; what other
entities do is never required. `Pathing`: the service computes.

### What the runs found

1. *Ghosts that stay.* The quadtree stops forwarding positions at the margin, the
   shard drops a ghost only on a position beyond twice the margin
   (`handoff_stuck_ghost`). Only the owner hears Disconnect, so the ghost of
   someone who leaves the game stays in the same way.
2. *NPCs that do not forget.* `upsert_nearby` only adds to what an NPC has
   perceived. When the player has left the game or is out of sight, the NPC goes
   on casting at, or chasing, the place it saw it at last (`ai_out_of_sight`);
   the repository's `README.md:72` says it goes back to patrolling.

Further explorations have a configuration that TLC finds violated, kept to be
looked at (`tlc -config MCHandoffTwoClaims.cfg MCHandoff`, and so on):

* `MCHandoffTwoClaims`, `OneAuthorityAlways`: `mark_locals_as_ghosts` answers
  every release of a tick. An entity that crosses back and forth while its shard
  receives two releases between two ticks ends up local to two shards.
* `MCHandoffOvertakenMark`, `AuthorityKeptOnDeparture`: a shard that drains the
  release of an entity together with the departure of its ghost (as soon as it is
  the owner no more it may be subscribed to the entity as a ghost shard) may
  despawn the copy before `mark_locals_as_ghosts` looks for it. No claim is
  sent, and nobody simulates the player any more.
* `MCBrokerSweep`, `SweptForGood`: subscriptions of a connection that has ended,
  made by messages handled after its end, are never swept.
* `MCShardLayoutOwners`, `OwnersAreKeptAlways`: which boundaries are retained is
  decided with the registrations from before the tick's messages. A shard that
  reports in the tick that divides its boundary (two players waiting for the
  first shard) is not marked to go, so nobody hands its players over when it is
  stopped.
* `MCAccountsLateConnect`, `TimeoutMeansNoConnection`: the timeout and the poll
  of one frame set the next state, and the last wins: a client that has just
  connected may be sent back to the form.
* `MCTransportAnswers`, `AnswersAreCarried`: an answer to a message that arrives
  before the loop has taken in the connection and the stream is dropped
  (the order of the channels is random).
* `MCPathingLastLeg`, `PathIsClear`: the funnel reads no portal for the end point,
  so the last leg of a path may cut a wall.

Met on the way, without a configuration. Quadtree and orchestrator: a shard that
goes hands over only who stands on a registered leaf and does not try again
(`leafNotReady`); a server whose report comes after it was told to stop is
registered (`lateReport`); a boundary that was forgotten and becomes a leaf again
waits for a report that was sent already (the exception in `LayoutSettles`); a
retained boundary listed twice gets two servers when the orchestrator knows
none, and the first is forgotten; the first server of the world, if it fails to
start, is not retried until the layout changes; layouts may overtake each other;
containers of before a restart of the orchestrator are stopped by nobody; a
player who leaves while it waits is spawned all the same. The log line at
`quadtree/src/main.rs:937` calls the position of an unknown entity a new spawn,
the code ignores it. Ability service: the reset of a level at death is not
broadcast; the architecture document gives 50 as the initial health (the code
has 100), and says that empty shards merge (the code merges whenever the parts
fit together within the capacity). Socket library: `CreateStream` on a link that
has ended panics the loop, a failed handshake ends the accept task for good, a
connection stays in the table after its end is reported and is reported again at
shutdown. AI service: the connection of an NPC that was killed is not closed, and
the entity of its tree stays; the architecture document heals first, the tree
casts and chases first. Pathing: an end that cannot be reached is answered by the
straight line, through whatever is in the way; the line of sight passes between
two walls that touch at a corner; a path begins with the point asked from, so an
NPC that has moved on turns back first.

## What is proved

A component's theorems are in a module that extends the component's; the two
services that compute for others, the ability service and the pathing service,
share `ServicesProofs`. They say `Spec => []Inv`, `Spec => [][Action]_vars` or, of the
refinements, `Spec => AuthorityMoves` and `Spec => LayoutsAreCarriedOut`. Each
comes from an inductive invariant whose parts TLC checked on the instance of the
run before they were proved; every action has its step lemma.

`HandoffProofs`, for any shards, positions, layout (`LayoutAssumption`: a
position is near the shard that contains it, near implies keep) and bounds:

* `TypeCorrect`: `Spec => []TypeOK`.
* `AuthorityIsUnique`: `Spec => []OneAuthority`. `OneAuthority` is not inductive:
  before the player is spawned it would hold with an authority waiting somewhere.
  The invariant adds that there is none before (`NoneBeforeSpawn`) and restates
  uniqueness in a form in which a step moves one authority (`OneHolder`): a
  release gives up a copy in the step that sends the only claim.
* `AuthorityHearsControl`: `Spec => []LocalHearsControl`. The strengthening says
  the same of a copy that is about to be local (a claim read but not drained,
  a spawn under way), from the registry's subscriptions on.
* `AuthorityIsKept`: `Spec => []AuthorityKept`. The invariant `KeptInv` joins
  that of `HandoffProofs` with what keeps the authority from being lost: there is
  none before the spawn (`NothingYet`), a spawn still waits for its tick
  (`SpawnWaits`), and what a shard simulates is local in its registry and not
  about to be despawned unless it was told to release it, in which case its
  answer carries the authority on (`Settled`). A tick runs its systems in any of
  the orders the code allows: `OutcomeType` says what all of them keep, at most
  the copies it owned and one less if it marked one, `TickQueues` what they send,
  and `TickRow` that outside the races a release is answered whatever the order.
  A release drained with a departure need not be, which is why that race is one
  the theorem leaves out.
* `HandoffImplementsOwnership`: `Spec => AuthorityMoves`, that is `O!Spec` under
  the mapping above. As long as no race has happened every action is shown to be
  a `Join`, a `Pass`, a `Leave`, a `Drop` or a stutter of `Ownership`
  (`OrderlyStep`; uniqueness makes `Holder` well defined, `AuthorityKept` keeps it
  from becoming `Nobody` too early); from the first race on every step is
  `Disorder` or a stutter.
* `OwnerBecomesAuthority`: `Spec => []OwnerIsAuthority`. The property speaks of the
  states in which no message is left, and says nothing of how they are reached;
  many claims and releases may be under way at a time, since the quadtree decides
  anew with every position. The invariant sees a release that nobody has answered
  (in the queue of its shard, or drained at its next tick) as an edge from the
  shard that is to release to the one that is to claim, and adds one edge back,
  from the owner the quadtree remembers to the shard that holds the authority. These
  edges always form closed circuits: every edge is entered from an edge of
  its own (`Circulates`, an injection). A handoff decided by the quadtree adds
  a release from the old owner to the new and moves the foot of the edge back
  (`CirculatesDivided`); an answered release moves its head (`CirculatesJoined`). When no
  release is left, the edge back can only follow itself, so owner and holder are the
  same shard. Besides, `OwnerInv` has that the quadtree does not hear of the end of a
  client before the client is gone, and has an entry for it until then.

`BrokerProofs`, for any connections, ids and topics (`PeersAssumption`,
`OneIdAssumption`): `TablesAreTyped`, `SubscribersAreLive` and
`ReconnectionKeepsId`. The invariant
adds that a registered id is the connection's own, and that only connections
accepted have sent anything.

`ServicesProofs`, of the ability service, for any entities and bounds:
`AttributesInRange`, `DeathIsFinal`, `KillsAreCounted`, `BroadcastsAreCurrent`,
from one invariant, their conjunction. `ShownIsCurrent` needs the cost to be
within the mana; `NobodyStaysDead` needs the range of the attributes.

`ServicesProofs`, of the pathing service, for any map and request (`MapAssumption`):

* `RoutesAreShort`: `PathingSpec => []ShortestRoute`. The heuristic of the code is
  1.001 times the distance, so A* may find a route that is not the shortest;
  what holds of every map is that it is at most a thousandth longer, and that is
  what `ShortestRoute` says. `SearchInv` has of every tile with a score that it is
  settled (its neighbours have scores no worse than through it) or that an entry
  of the heap with that score waits, and that the end is never settled. So of
  whatever is within k steps of the start (`WithinIsCovered`) either the score is at
  most k, or an entry waits that is cheap enough to get there in k steps. If the
  end is the cheapest entry, its cost is at most that of the one that waits on the
  shortest way (`CheapestIsShort`); if nothing waits, the end is out of
  reach (`NothingWaits`). Stale entries and tiles that are reopened, which the
  overestimate makes possible, are covered. Scores fall along
  `came_from`, so the way back ends, at the start (`BackIsWay`, `WayTo`).
* `ShortestUpToAThousand`: whenever the shortest route has fewer than a thousand
  steps, no route found is longer. The map of the code has 64 by 64 tiles, on
  which only a maze has longer ones.

`Within` and `Back` are recursive functions. That such a function exists, and
what it computes, is shown by induction over a number of steps in the form of
`AllNaturals`, about the set of the numbers for which it is known, since the
library's induction theorems take operators.

`ShardLayoutProofs`, for any tree of boundaries (`LayoutAssumption`,
`TreeAssumption`), entities and bounds: `LayoutType`, `OrchestratorKnowsLayout`,
`PendingShardsAreKept`, `ShardsDivideTheWorld`, `OwnersKeepRunning`.
`OwnersAreKept` says nothing about where an owner is remembered; `LayoutInv` adds
that, without a mishap, an owner is either registered for its boundary or marked to go
(`OwnersAreKnown`), that what is registered was not told to stop (`Registered`,
and `OldRegistered` for the snapshot), that a boundary has one server at a time
(`OneServed`), and that tables and snapshot differ only when a rebuild is due
(`ChangesAreFlagged`).

`OrchestratorProofs`, for any boundaries, layouts, ports and bounds
(`OrchestratorAssumption`): `OrchestratorType`, `NoServerIsForgotten`,
`BoundariesHaveOneServer`, `ServersGetFreePorts`, `FleetIsAsOrdered`.
`OrchestratorInv` adds that spawn tasks carry servers never known before
(`FreshAreUnborn`, `TasksAreNew`), that nothing is stopped while one runs
(`StopsAreLast`), how far a layout has been carried out (`LayoutUnderWay`), and
that what runs has a key or a task that will set it (`RunningHaveKeys`).
`OrchestratorImplementsFleet`: `Spec => LayoutsAreCarriedOut`, that is `F!Spec`
under the mapping above. `FleetRuns` adds that, outside of `Failures`, what is
known runs and what a spawn task has will run; so at rest the layout is
carried out (`CarriedOut`), and from the end of the last spawn task on every
boundary of it is served (`AllServed`). `HandleShardUpdate` is then an `Order`,
`StartContainer` a `Start`, `StopContainer` a `Stop`, and every other step a
stutter, or `Disorder` if something goes wrong.

`AreaOfInterestProofs`, for any entities, places, topics and bounds
(`InterestAssumption`): `InterestType`, `SubscriptionsMatchInterest`,
`NoEntryWithoutClient`. In the middle of a pass the subscriptions are those
remembered except where a message is unsent (`SubscriptionsFollow`), and what is
unsent is what is remembered (`ChangesAreStored`). A client that comes back
starts from nothing only if the quadtree has nothing of it, hence `OneEntry`: the
end of its former connection comes before everything else about it. `EndsAreComing`
extends `EntriesHaveClients` to those who wait and to starts on the way.

`TransportProofs`, for any connections, streams and bound (`TransportAssumption`):
`TransportType` and `TablesNeverLag` (`Spec => []AnnouncedIsCarried`). The
property says nothing of what the tables hold before a Send; `TablesKeepUp` adds
that a dialled connection is in the table from the moment it is reported until
the shutdown that ends the loop (`InTable`), that creations, readers and
registrations of streams concern connections that were reported (`CreatesKnown`,
`ReadsKnown`, `RegistersKnown`), and that a reliable stream reported as created
is in its table until it is closed (`StreamsKnown`). The same does not hold of accepted
connections, which reach the table through a channel (`AnswersAreCarried`).

`AccountsProofs`, for any clients, names, passwords, places
and bounds (`AccountsAssumption`: trimming is defined on the passwords, the
origin is a place, and `None` is none of the values it stands beside):

* `AccountsType`: `Spec => []TypeOK`. Alone it is not inductive: a message about
  a connection is typed only if there is a session to take its name and place from.
  `GameInv` adds that a connection belongs to one client, that has a session, and joins
  once (`JoinsOnce`), and that whatever the broker, the shards and the database
  service know of a connection is of the session it joined with (`InTheGame`).
* `NamesHaveOnePassword`: `Spec => []OnePassword`. The property compares players;
  what keeps it is the table. `AccountInv` adds that every answer, session and
  game is from a row that exists (`FromAccounts`), and, of a name whose first logins
  have not overlapped, that its rows have one password and that whoever has found
  no row and is about to create one is alone and still right (`OneAccount`).
* `PlayersResumeWhereLeft`: `Spec => ResumesWhereLeft`, an action property of the
  step in which the gatekeeper answers. A save is in the queue of the database
  service, then a task, then in the table: `PlaceInv` adds that the last save
  waiting has the place left (`LastIsLatest`), that when none waits the tasks have
  it, and when there is no task the rows (`TableFollows`, outside `blurred` and
  `raced`), and that a name without a row was never left (`NewIsAtOrigin`).

Only model-checked:

* `CornersAreClear`: what the funnel keeps is that no wall lies between its two
  sides, which is geometry over products of variables.
* `AiService`: its properties are temporal.
* Everything temporal (`SettlesOnOwner`, `EndIsAnnounced`, `ManaComesBack`,
  `LayoutSettles`, `FleetSettles`, `InterestSettles`, `BecomesReachable`,
  `EndIsReported`, `LeavesConnecting`, `KilledIsReplaced`, `RecoversAlone`,
  `EveryRequestIsAnswered`), since liveness under fairness is outside the prover.

The type invariants of `Handoff`, `Broker`, `Orchestrator`, `AreaOfInterest`, `Transport` and
`Accounts` are proved and no longer part of a run.

## Plan

Done: `Handoff`, `Broker`, `AbilityService`, `ShardLayout`, `Orchestrator`,
`AreaOfInterest`, `Transport` and `Accounts` with their proofs, `Ownership` and
`Fleet` with the refinements, `Pathing` with the proof of its search, `AiService`
checked by TLC.

Worth doing next:

1. `ShardLayout` composed with `Fleet`, layouts overtaking each other included.
2. The display of the client: positions that arrive after the end of an entity,
   and its interpolation.

## Not modelled

* Physics and the player controller of the game server, and the client's input,
  interpolation and rendering: continuous motion. The models let an entity
  move, and a fireball hit, in any way.
* Serialisation and formats; the loading of the map; HTTP routes that only read;
  `DbNameRequest`, which answers with a name and changes nothing.
* The TCP and UDP backends of the socket library: no program uses them.
* Restarts of the broker, the quadtree or a shard: none keeps anything outside
  memory and none registers again what it knew, so a restart of one is a restart
  of the world. Those of the ability service, the orchestrator, the database
  service and the client, which can be restarted alone, are modelled.
* Loss and reordering within a stream: QUIC streams are reliable and ordered.
* The wall clock: cooldowns that run backwards with it.
