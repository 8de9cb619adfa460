------------------------------ MODULE Handoff ------------------------------
(***************************************************************************)
(* The transfer of one entity's authority between game servers (shards):   *)
(* the quadtree watches the positions the owner publishes, ghosts the      *)
(* entity on the neighbouring shards and moves ownership by publishing     *)
(* ReleaseOwnership to the old shard, which answers with ClaimOwnership    *)
(* to the new one.  All messages go through the broker.                    *)
(*                                                                         *)
(* One entity is enough: no handler modelled here reads another entity's   *)
(* row of a table.  The layout of the shards is fixed in this module and   *)
(* every shard is registered.                                              *)
(*                                                                         *)
(* The broker handles one message at a time and keeps each connection's    *)
(* stream in order, so a publication is appended to the queue of every     *)
(* subscriber in the step that sends it; delivery is a later step.         *)
(***************************************************************************)
EXTENDS Naturals, Sequences, FiniteSets

CONSTANTS
  Shards,       \* the registered game servers
  Positions,    \* the places the entity can be
  Origin,       \* where a dead entity is put back
  ShardAt,      \* ShardAt[p]: the shard whose boundary contains p
  Near,         \* Near[s]: the positions within the margin of s
  Keep,         \* Keep[s]: the positions within twice the margin of s
  Reach,        \* Reach[p]: where one movement can take the entity from p
  Nowhere,      \* no entry in entity_map
  NoShard,      \* no entry in entity_owners
  MaxKills,     \* bound: deaths of the entity
  MaxQueue,     \* bound: position updates on their way to one subscriber
  MaxMoves,     \* bound: movements from one position to another
  MaxCommands   \* bound: commands waiting between two ticks of a shard

ASSUME LayoutAssumption ==
  /\ Origin \in Positions
  /\ ShardAt \in [Positions -> Shards]
  /\ Near \in [Shards -> SUBSET Positions]
  /\ Keep \in [Shards -> SUBSET Positions]
  /\ Reach \in [Positions -> SUBSET Positions]
  /\ \A p \in Positions : p \in Near[ShardAt[p]]
  /\ \A s \in Shards : Near[s] \subseteq Keep[s]
  /\ Nowhere \notin Positions
  /\ NoShard \notin Shards
  /\ MaxKills \in Nat /\ MaxQueue \in Nat /\ MaxMoves \in Nat /\ MaxCommands \in Nat

VARIABLES
  player,              \* "out", "in" or "gone": the client's broker connection
  where,               \* the position simulated by the shard in authority
  kills,               \* deaths so far
  moves,               \* movements so far
  down,                \* down[s]: broadcasts on their way to shard s
  qdown,               \* broadcasts on their way to the quadtree
  posSubs,             \* shards subscribed to EntityPositionUpdate
  ctlSubs,             \* shards subscribed to Input, Disconnect, CastAbility
                       \* and EntityKilled
  entity_map,          \* the quadtree's last position, or Nowhere
  entity_owners,       \* the quadtree's owner, or NoShard
  ghosted_boundaries,  \* shards the quadtree ghosts the entity on
  registry,            \* registry[s]: "absent", "ghost" or "local"
  commands,            \* commands[s]: SimCommands not drained yet, counted
  world,               \* world[s]: the copies of the entity in shard s
  races                \* history: the races the shards have run into

vars == << player, where, kills, moves, down, qdown, posSubs, ctlSubs, entity_map,
           entity_owners, ghosted_boundaries, registry, commands, world, races >>

clientVars   == << player, where, kills, moves >>
quadtreeVars == << entity_map, entity_owners, ghosted_boundaries >>
shardVars    == << registry, commands, world, races >>
----------------------------------------------------------------------------
(***************************************************************************)
(* Messages and commands.                                                  *)
(***************************************************************************)
PosMsg(p) == [type |-> "Position", pos |-> p]
ReleaseMsg(s) == [type |-> "Release", to |-> s]
SpawnMsg == [type |-> "Spawn"]
ClaimMsg == [type |-> "Claim"]
DisconnectMsg == [type |-> "Disconnect"]
KilledMsg == [type |-> "Killed"]

ShardMessages ==
  {PosMsg(p) : p \in Positions} \cup {ReleaseMsg(s) : s \in Shards}
    \cup {SpawnMsg, ClaimMsg, DisconnectMsg, KilledMsg}

QuadtreeMessages == {PosMsg(p) : p \in Positions} \cup {DisconnectMsg}

\* Nothing a shard drains in one tick sees the effect of another command of
\* the same tick (entities are spawned, changed and despawned after the queue
\* is empty), so only how many commands of each kind wait matters.
Commands == [joined : Nat, ghostJoined : Nat, left : Nat, claim : Nat,
             died : Nat, release : [Shards -> Nat]]

NoCommands == [joined |-> 0, ghostJoined |-> 0, left |-> 0, claim |-> 0,
               died |-> 0, release |-> [s \in Shards |-> 0]]

\* The broker delivers m to every subscriber in S.
Deliver(S, m) == [s \in Shards |-> IF s \in S THEN Append(down[s], m) ELSE down[s]]
----------------------------------------------------------------------------
Init ==
  /\ player = "out" /\ where = Origin /\ kills = 0 /\ moves = 0
  /\ down = [s \in Shards |-> << >>] /\ qdown = << >>
  /\ posSubs = {} /\ ctlSubs = {}
  /\ entity_map = Nowhere /\ entity_owners = NoShard /\ ghosted_boundaries = {}
  /\ registry = [s \in Shards |-> "absent"]
  /\ commands = [s \in Shards |-> NoCommands]
  /\ world = [s \in Shards |-> [local |-> 0, ghost |-> 0]]
  /\ races = {}
----------------------------------------------------------------------------
(***************************************************************************)
(* The client and the ability service, as the shards see them.             *)
(***************************************************************************)

\* The client's connection to the broker ends; the broker publishes Disconnect.
ClientDisconnects ==
  /\ player = "in"
  /\ player' = "gone"
  /\ down' = Deliver(ctlSubs, DisconnectMsg)
  /\ qdown' = Append(qdown, DisconnectMsg)
  /\ UNCHANGED << where, kills, moves, posSubs, ctlSubs, quadtreeVars, shardVars >>

\* The ability service finds the entity's health exhausted.
EntityKilled ==
  /\ player = "in" /\ kills < MaxKills
  /\ kills' = kills + 1
  /\ down' = Deliver(ctlSubs, KilledMsg)
  /\ UNCHANGED << player, where, moves, qdown, posSubs, ctlSubs, quadtreeVars, shardVars >>
----------------------------------------------------------------------------
(***************************************************************************)
(* The quadtree.                                                           *)
(***************************************************************************)

\* spawn_player_on_shard: the shard is subscribed and told to spawn the player.
SpawnPlayerOnShard(p) ==
  /\ player = "out"
  /\ player' = "in" /\ where' = p
  /\ ctlSubs' = ctlSubs \cup {ShardAt[p]}
  /\ entity_map' = p
  /\ entity_owners' = ShardAt[p]
  /\ ghosted_boundaries' = {}
  /\ down' = [Deliver(posSubs, PosMsg(p)) EXCEPT ![ShardAt[p]] = Append(@, SpawnMsg)]
  /\ UNCHANGED << kills, moves, qdown, posSubs, shardVars >>

\* check_for_shard_ghosting uses the stored position, not the one just received.
DesiredGhosts == {s \in Shards : s # entity_owners /\ entity_map \in Near[s]}

\* Mutant: the handoff waits until the entity is beyond twice the margin.
NeedsHandoff_TwiceMargin(p) == p \notin Keep[entity_owners]

\* check_for_handoff: the entity is outside the margin of its owner.
NeedsHandoff(p) == p \notin Near[entity_owners]

HandleEntityPositionUpdate ==
  /\ qdown # << >> /\ Head(qdown).type = "Position"
  /\ qdown' = Tail(qdown)
  /\ LET p == Head(qdown).pos
     IN  IF entity_map = Nowhere
         THEN UNCHANGED << down, posSubs, quadtreeVars >>
         ELSE /\ posSubs' = (posSubs \ (ghosted_boundaries \ DesiredGhosts))
                              \cup (DesiredGhosts \ ghosted_boundaries)
              /\ ghosted_boundaries' = DesiredGhosts
              /\ entity_map' = p
              /\ \/ /\ NeedsHandoff(p)
                    /\ down' = Deliver({entity_owners}, ReleaseMsg(ShardAt[p]))
                    /\ entity_owners' = ShardAt[p]
                 \/ /\ ~NeedsHandoff(p)
                    /\ UNCHANGED << down, entity_owners >>
  /\ UNCHANGED << clientVars, ctlSubs, shardVars >>

QuadtreeDisconnect ==
  /\ qdown # << >> /\ Head(qdown).type = "Disconnect"
  /\ qdown' = Tail(qdown)
  /\ entity_map' = Nowhere
  /\ entity_owners' = NoShard
  /\ ghosted_boundaries' = {}
  /\ UNCHANGED << clientVars, down, posSubs, ctlSubs, shardVars >>
----------------------------------------------------------------------------
(***************************************************************************)
(* A shard, network side: one broadcast updates the registry and the       *)
(* subscriptions at once and leaves a command for the simulation.          *)
(***************************************************************************)
Pending(s) ==
  LET c == commands[s]
  IN  c.joined + c.ghostJoined + c.left + c.claim + c.died
        + Cardinality({r \in Shards : c.release[r] > 0})

Receive(s, type) ==
  /\ down[s] # << >> /\ Head(down[s]).type = type
  /\ Pending(s) < MaxCommands
  /\ down' = [down EXCEPT ![s] = Tail(@)]
  /\ UNCHANGED << clientVars, qdown, posSubs, quadtreeVars, world, races >>

HandleReceiveNewPlayer(s) ==
  /\ Receive(s, "Spawn")
  /\ UNCHANGED ctlSubs
  /\ IF registry[s] = "absent"
     THEN /\ registry' = [registry EXCEPT ![s] = "local"]
          /\ commands' = [commands EXCEPT ![s].joined = @ + 1]
     ELSE UNCHANGED << registry, commands >>

\* EntityPositionUpdate: ignored for a local entity, makes an unknown one a
\* ghost, and drops a ghost that is beyond twice the margin.
HandleGhostPosition(s) ==
  /\ Receive(s, "Position")
  /\ UNCHANGED ctlSubs
  /\ \/ /\ registry[s] = "local"
        /\ UNCHANGED << registry, commands >>
     \/ /\ registry[s] = "absent"
        /\ registry' = [registry EXCEPT ![s] = "ghost"]
        /\ commands' = [commands EXCEPT ![s].ghostJoined = @ + 1]
     \/ /\ registry[s] = "ghost" /\ Head(down[s]).pos \notin Keep[s]
        /\ registry' = [registry EXCEPT ![s] = "absent"]
        /\ commands' = [commands EXCEPT ![s].left = @ + 1]
     \/ /\ registry[s] = "ghost" /\ Head(down[s]).pos \in Keep[s]
        /\ UNCHANGED << registry, commands >>

HandleDisconnect(s) ==
  /\ Receive(s, "Disconnect")
  /\ ctlSubs' = ctlSubs \ {s}
  /\ registry' = [registry EXCEPT ![s] = "absent"]
  /\ commands' = [commands EXCEPT ![s].left = @ + 1]

HandleKilled(s) ==
  /\ Receive(s, "Killed")
  /\ commands' = [commands EXCEPT ![s].died = @ + 1]
  /\ UNCHANGED << ctlSubs, registry >>

\* Mutant: the new owner forgets to subscribe to the entity's topics.
HandleClaimOwnership_NoSubscribe(s) ==
  /\ Receive(s, "Claim")
  /\ UNCHANGED ctlSubs
  /\ registry' = [registry EXCEPT ![s] = "local"]
  /\ commands' = [commands EXCEPT ![s].claim = @ + 1]

HandleClaimOwnership(s) ==
  /\ Receive(s, "Claim")
  /\ ctlSubs' = ctlSubs \cup {s}
  /\ registry' = [registry EXCEPT ![s] = "local"]
  /\ commands' = [commands EXCEPT ![s].claim = @ + 1]

HandleReleaseOwnership(s) ==
  /\ Receive(s, "Release")
  /\ UNCHANGED ctlSubs
  /\ registry' = [registry EXCEPT ![s] = "ghost"]
  /\ commands' = [commands EXCEPT ![s].release[Head(down[s]).to] = @ + 1]
----------------------------------------------------------------------------
(***************************************************************************)
(* A shard, simulation side: one FixedUpdate.                              *)
(***************************************************************************)

\* Mutant: a claim that finds no ghost spawns none.
SpawnedGhost_ClaimNeedsGhost(s) == world[s].ghost + commands[s].ghostJoined

\* Copies after spawn_net_entities.  A claim that found no ghost spawns one.
SpawnedLocal(s) == world[s].local + commands[s].joined
SpawnedGhost(s) == world[s].ghost + commands[s].ghostJoined
                     + (IF world[s].ghost = 0 THEN commands[s].claim ELSE 0)

\* Mutant: the claim looks for its ghost before the tick's ghosts are spawned.
Claimed_BeforeSpawn(s) == IF commands[s].claim > 0 /\ world[s].ghost > 0 THEN 1 ELSE 0

\* claim_ghosts: every claim of the tick picks the same first ghost.
Claimed(s) == IF commands[s].claim > 0 /\ SpawnedGhost(s) > 0 THEN 1 ELSE 0

\* A release waits for the tick.
Released(s) == \E r \in Shards : commands[s].release[r] > 0

AfterClaim(s) ==
  [local |-> SpawnedLocal(s) + Claimed(s), ghost |-> SpawnedGhost(s) - Claimed(s)]

\* mark_locals_as_ghosts: every release of the tick picks the same first one of
\* the n copies it sees that are not ghosts.
Marked(s, n) == IF n > 0 /\ Released(s) THEN 1 ELSE 0

Ghosted(w, marked) == [local |-> w.local - marked, ghost |-> w.ghost + marked]

\* despawn_net_entities removes the first copy it finds, of either kind.
AfterDespawn(s, w) ==
  IF commands[s].left = 0 \/ w.local + w.ghost = 0 THEN {w}
  ELSE {v \in {[w EXCEPT !.local = IF @ > 0 THEN @ - 1 ELSE @],
               [w EXCEPT !.ghost = IF @ > 0 THEN @ - 1 ELSE @]} : v # w}

\* The despawn is ordered after the claim and the publication after the despawn,
\* but mark_locals_as_ghosts only after the spawn.  It sees what the systems
\* before it have changed, and the systems after it see the new ghost.  When it
\* runs makes no difference to a tick without a release.  Left out: Bevy panics
\* when it applies a mark to a copy whose despawn it has just applied.
MarkTimes(s) ==
  IF Released(s) THEN {"beforeClaim", "beforeDespawn", "beforePublish", "afterPublish"}
                 ELSE {"beforeClaim"}

\* The mark is ahead of the despawn and sees n copies that are not ghosts.
MarkFirst(s, n) ==
  {[marked |-> Marked(s, n), publishes |-> w.local > 0, world |-> w] :
     w \in AfterDespawn(s, Ghosted(AfterClaim(s), Marked(s, n)))}

\* The mark is behind the despawn, which may have left nothing to mark.  Its
\* ghost is none yet for the publication.
DespawnFirst(s) ==
  {[marked |-> Marked(s, w.local), publishes |-> w.local > 0,
    world |-> Ghosted(w, Marked(s, w.local))] : w \in AfterDespawn(s, AfterClaim(s))}

Outcomes(s, time) ==
  CASE time = "beforeClaim"   -> MarkFirst(s, SpawnedLocal(s))
    [] time = "beforeDespawn" -> MarkFirst(s, SpawnedLocal(s) + Claimed(s))
    [] OTHER                  -> DespawnFirst(s)

Copies(m, n) == [i \in 1..n |-> m]

\* Mutant: a release is answered even when the shard had no copy to mark.
WithClaims_Unmarked(q, s, marked) ==
  [r \in Shards |-> q[r] \o Copies(ClaimMsg, commands[s].release[r])]

\* send_claim_ownership: one claim for every release of the tick.
WithClaims(q, s, marked) ==
  [r \in Shards |-> IF marked = 1 THEN q[r] \o Copies(ClaimMsg, commands[s].release[r]) ELSE q[r]]

WithPosition(q, p) == [r \in Shards |-> IF r \in posSubs THEN Append(q[r], PosMsg(p)) ELSE q[r]]

\* Process a Died command: the first copy goes back to the origin.
DiedTo(s) ==
  IF commands[s].died = 0 \/ world[s].local = 0 THEN {where}
  ELSE IF world[s].ghost = 0 THEN {Origin} ELSE {where, Origin}

RacesOf(s) ==
  LET c        == commands[s]
      released == {r \in Shards : c.release[r] > 0}
  IN  {k \in {"twoReleases", "staleRelease", "releaseAndLeft", "claimAndLeft"} :
         \/ /\ k = "twoReleases"
            /\ \E r, q \in released : r # q \/ c.release[r] > 1
         \/ /\ k = "staleRelease"
            /\ Released(s) /\ SpawnedLocal(s) = 0
         \/ /\ k = "releaseAndLeft"
            /\ c.left > 0 /\ Released(s)
         \/ /\ k = "claimAndLeft"
            /\ c.left > 0 /\ c.claim > 0}

\* Bound: the entity moves at most MaxMoves times.
Moved(p) == {q \in Reach[p] : q # p /\ moves < MaxMoves} \cup {p}

\* Bound: no subscriber is more than MaxQueue position updates behind, unless
\* the shard must tick before it can receive again.
InFlight(q) == Cardinality({i \in 1..Len(q) : q[i].type = "Position"})
HasRoom == InFlight(qdown) < MaxQueue /\ \A r \in posSubs : InFlight(down[r]) < MaxQueue

\* The copies that are not ghosts publish the position, then physics moves them.
Tick(s) ==
  /\ commands' = [commands EXCEPT ![s] = NoCommands]
  /\ races' = races \cup RacesOf(s)
  /\ \E time \in MarkTimes(s), p \in DiedTo(s) : \E o \in Outcomes(s, time) :
       /\ world' = [world EXCEPT ![s] = o.world]
       /\ ctlSubs' = IF o.marked = 1 THEN ctlSubs \ {s} ELSE ctlSubs
       /\ \/ /\ o.publishes
             /\ HasRoom \/ Pending(s) = MaxCommands
             /\ where' \in IF o.world.local > 0 THEN Moved(p) ELSE {p}
             /\ moves' = moves + (IF where' = p THEN 0 ELSE 1)
             /\ qdown' = Append(qdown, PosMsg(p))
             /\ down' = IF time = "afterPublish"
                        THEN WithClaims(WithPosition(down, p), s, o.marked)
                        ELSE WithPosition(WithClaims(down, s, o.marked), p)
          \/ /\ ~o.publishes
             /\ where' = p
             /\ down' = WithClaims(down, s, o.marked)
             /\ UNCHANGED << moves, qdown >>
  /\ UNCHANGED << player, kills, posSubs, quadtreeVars, registry >>
----------------------------------------------------------------------------
ReceiveNext(s) ==
  \/ HandleReceiveNewPlayer(s)
  \/ HandleGhostPosition(s)
  \/ HandleDisconnect(s)
  \/ HandleKilled(s)
  \/ HandleClaimOwnership(s)
  \/ HandleReleaseOwnership(s)

QuadtreeNext == HandleEntityPositionUpdate \/ QuadtreeDisconnect

Next ==
  \/ \E p \in Positions : SpawnPlayerOnShard(p)
  \/ ClientDisconnects
  \/ EntityKilled
  \/ QuadtreeNext
  \/ \E s \in Shards : ReceiveNext(s) \/ Tick(s)

Spec == Init /\ [][Next]_vars
----------------------------------------------------------------------------
(***************************************************************************)
(* Where the authority over the entity is: in a copy that is not a ghost,  *)
(* in a command about to make one, or in a message that will be such a     *)
(* command.                                                                *)
(***************************************************************************)
Held(s) == {<<"copy", s, i>> : i \in 1..world[s].local}
Ordered(s) == {<<"joined", s, i>> : i \in 1..commands[s].joined}
                \cup {<<"claim", s, i>> : i \in 1..commands[s].claim}
Grants(q) == {i \in 1..Len(q) : q[i].type \in {"Spawn", "Claim"}}
Sent(s) == {<<"message", s, i>> : i \in Grants(down[s])}

Authority == UNION {Held(s) \cup Ordered(s) \cup Sent(s) : s \in Shards}

\* The same by counting: what a shard has, and whether it has or will have any.
Owned(s) == world[s].local + commands[s].joined + commands[s].claim

HasAuthority(s) == Owned(s) > 0 \/ Grants(down[s]) # {}

Holder ==
  IF \E s \in Shards : HasAuthority(s) THEN CHOOSE s \in Shards : HasAuthority(s) ELSE NoShard

TypeOK ==
  /\ player \in {"out", "in", "gone"}
  /\ where \in Positions
  /\ kills \in Nat /\ moves \in Nat
  /\ down \in [Shards -> Seq(ShardMessages)]
  /\ qdown \in Seq(QuadtreeMessages)
  /\ posSubs \in SUBSET Shards
  /\ ctlSubs \in SUBSET Shards
  /\ entity_map \in Positions \cup {Nowhere}
  /\ entity_owners \in Shards \cup {NoShard}
  /\ ghosted_boundaries \in SUBSET Shards
  /\ registry \in [Shards -> {"absent", "ghost", "local"}]
  /\ commands \in [Shards -> Commands]
  /\ world \in [Shards -> [local : Nat, ghost : Nat]]
  /\ races \in SUBSET {"twoReleases", "staleRelease", "releaseAndLeft", "claimAndLeft"}

\* A release moves the authority over the entity, it never copies it: at most
\* one shard simulates the entity or is about to, in whatever order messages
\* arrive and shards tick, as long as no tick drained two releases of it.
OneAuthority ==
  "twoReleases" \notin races => \A t, u \in Authority : t = u

\* The comment at the handoff asks for one authority at a time in every run.
\* Two releases drained by one tick of a shard are answered by two claims.
OneAuthorityAlways == \A t, u \in Authority : t = u

\* The authority over a connected entity is never lost on its way from one
\* shard to another, in whatever order the systems of a tick run, as long as no
\* shard drained its release before it had the entity and none drained a claim
\* or a release together with a departure.
AuthorityKept ==
  (player = "in" /\ races = {}) => Authority # {}

\* A release drained together with a departure is not always answered: when
\* despawn_net_entities runs ahead of mark_locals_as_ghosts, the copy is gone
\* before it can be marked, and the authority with it.
AuthorityKeptOnDeparture ==
  (player = "in" /\ races \subseteq {"releaseAndLeft"}) => Authority # {}

\* The shard that simulates a connected entity receives its inputs, casts,
\* deaths and disconnection, although it subscribes when it reads the claim
\* and unsubscribes when it ticks.
LocalHearsControl ==
  \A s \in Shards :
    ("twoReleases" \notin races /\ player = "in" /\ world[s].local > 0)
      => s \in ctlSubs

Quiet == qdown = << >> /\ \A s \in Shards : down[s] = << >> /\ commands[s] = NoCommands

\* Once every message has been handled, the shard the quadtree takes for the
\* owner is the one that simulates the entity.
OwnerIsAuthority ==
  (Quiet /\ player = "in" /\ races = {}) => world[entity_owners].local = 1

\* The handoff by messages implements the transfer of one authority: from its
\* spawn on the entity goes from shard to shard without ever being nowhere, and
\* only the shard that has it gives it away.
O == INSTANCE Ownership WITH Nobody <- NoShard, session <- player, authority <- Holder,
                             orderly <- (races = {})
AuthorityMoves == O!Spec

\* The messages that are sent are handled and the shards keep ticking.
FairSpec ==
  /\ Spec
  /\ WF_vars(QuadtreeNext)
  /\ \A s \in Shards : WF_vars(ReceiveNext(s)) /\ WF_vars(Tick(s))

\* When the entity stops moving the handoff settles: from some time on the owner
\* alone simulates it, the quadtree is not wrong about it, and the entity is
\* forwarded to the shards it is near to, although they are computed from the
\* position before the one received.
SettlesOnOwner ==
  <>[](player = "in" /\ races = {} =>
         /\ world[entity_owners].local = 1
         /\ where \in Near[entity_owners]
         /\ ghosted_boundaries = {s \in Shards : s # entity_owners /\ where \in Near[s]})

\* The comment at check_for_shard_ghosting asks that shards stop simulating
\* ghosts once the entity leaves their margin: when the entity stops moving,
\* only the shards it is near to keep a ghost of it.  The old owner of a
\* handoff keeps one without being subscribed to the positions.
GhostsFollowMargin ==
  <>[](player = "in" /\ races = {} =>
         \A s \in Shards : world[s].ghost > 0 => where \in Near[s])
=============================================================================
