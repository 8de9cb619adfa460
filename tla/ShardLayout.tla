----------------------------- MODULE ShardLayout -----------------------------
(***************************************************************************)
(* The layout of the shards: the quadtree divides the world where it is    *)
(* crowded, asks the orchestrator for one game server per part, learns     *)
(* from ShardCreated which server simulates which part, and keeps the      *)
(* servers of an older layout until the new ones have reported.            *)
(*                                                                         *)
(* A boundary is known by the places it contains; the places are the       *)
(* smallest parts of the world the layout can tell apart.  The main loop   *)
(* polls messages and then does the rest of a tick without another         *)
(* message in between, so a tick is the step Tick and each message polled  *)
(* before it a step of its own.                                            *)
(***************************************************************************)
EXTENDS Naturals, FiniteSets, FiniteSetsExt

CONSTANTS
  Boundaries,   \* the nodes a quadtree can have
  Places,       \* positions, as far as boundaries tell them apart
  Inside,       \* Inside[b]: the places boundary b contains
  Root,         \* the boundary of the world
  Smallest,     \* the boundaries at the maximal depth
  Near,         \* Near[b]: the places within the margin of b
  Reach,        \* Reach[p]: where one position update can take an entity from p
  Starts,       \* the places where entities start
  Capacity,     \* how many entities a node holds before it divides
  Entities,     \* players and other entities with a starting position
  NoShard,      \* an entry without a uuid
  Unlisted,     \* no entry in a shard_map
  TimedOut,     \* the end of a player's patience
  Nowhere,      \* no entry in entity_map or in pending_players
  MaxArrivals,  \* bound: starting positions
  MaxMoves,     \* bound: position updates that change the place
  MaxStarts     \* bound: servers started for one boundary

ASSUME LayoutAssumption ==
  /\ Root \in Boundaries
  /\ Smallest \subseteq Boundaries
  /\ Inside \in [Boundaries -> SUBSET Places]
  /\ Inside[Root] = Places
  /\ \A b \in Boundaries : Inside[b] # {}
  /\ \A a, b \in Boundaries :
       \/ Inside[a] \subseteq Inside[b]
       \/ Inside[b] \subseteq Inside[a]
       \/ Inside[a] \cap Inside[b] = {}
  /\ \A a, b \in Boundaries : Inside[a] = Inside[b] => a = b
  /\ Near \in [Boundaries -> SUBSET Places]
  /\ \A b \in Boundaries : Inside[b] \subseteq Near[b]
  /\ Reach \in [Places -> SUBSET Places]
  /\ {NoShard, Unlisted, TimedOut} \cap (Boundaries \X Nat) = {}
  /\ Starts \subseteq Places
  /\ NoShard # Unlisted /\ NoShard # TimedOut
  /\ Nowhere \notin Places
  /\ Capacity \in Nat /\ MaxArrivals \in Nat /\ MaxMoves \in Nat /\ MaxStarts \in Nat

\* The uuid of a game server: its boundary, and which server for it this is.
Shards == Boundaries \X (1..MaxStarts)
Server(s) == s[1]

VARIABLES
  entity_map,       \* the place of each entity, or Nowhere
  entity_owners,    \* the shard that simulates it, or NoShard
  pending_players,  \* where each player who waits wants to start, or Nowhere
  arrivals,         \* starting positions so far
  moves,            \* position updates so far
  shard_set,        \* the boundaries of the layout, older ones kept included
  shard_map,        \* shard_map[b]: the uuid registered for b, NoShard or Unlisted
  old_shard_map,    \* shard_map as it was when the tick began
  pending_shard_to_destroy,  \* the shards of older layouts that have yet to go
  flagged_for_rebuild, should_handle_pending_destructions,
  ordered,          \* the layout last sent to the orchestrator
  status,           \* status[s]: "unborn", "starting" or "up" (ShardCreated
                    \* handled), "aborted" or "stopping": told to stop before
                    \* or after that
  mishaps           \* history: the races the quadtree has run into

vars == << entity_map, entity_owners, pending_players, arrivals, moves, shard_set,
           shard_map, old_shard_map, pending_shard_to_destroy, flagged_for_rebuild,
           should_handle_pending_destructions, ordered, status, mishaps >>

entityVars == << entity_map, entity_owners, pending_players, arrivals, moves >>
layoutVars == << shard_set, pending_shard_to_destroy, ordered, old_shard_map >>
flags      == << flagged_for_rebuild, should_handle_pending_destructions >>
----------------------------------------------------------------------------
(***************************************************************************)
(* The tree.  A node divides when one more entity than its capacity is     *)
(* inserted, so which nodes divide depends on how many entities are inside *)
(* and not on the order of the insertions.                                 *)
(***************************************************************************)
Ancestors == [b \in Boundaries |-> {a \in Boundaries : Inside[b] \subseteq Inside[a] /\ a # b}]
Larger(a, b) == a \in Ancestors[b]

\* A node that can divide has a child wherever it contains a place, and some
\* node of any set of nodes is above no other.
ASSUME TreeAssumption ==
  /\ \A b \in Boundaries \ Smallest : \A p \in Inside[b] :
       \E c \in Boundaries : p \in Inside[c] /\ Ancestors[c] = Ancestors[b] \cup {b}
  /\ \A D \in SUBSET Boundaries : D # {} => \E d \in D : \A c \in D : ~Larger(d, c)

Population(positions, b) == Cardinality({e \in Entities : positions[e] \in Inside[b]})

Leaves(positions) ==
  LET divided == {b \in Boundaries \ Smallest : Population(positions, b) > Capacity}
  IN  {b \in Boundaries \ divided : Ancestors[b] \subseteq divided}

\* find_shard_for_position: the first entry of the map that contains the place;
\* the order of the map is anybody's guess.
Finds(p) == {b \in Boundaries : shard_map[b] # Unlisted /\ p \in Inside[b]}
----------------------------------------------------------------------------
Init ==
  /\ entity_map = [e \in Entities |-> Nowhere]
  /\ entity_owners = [e \in Entities |-> NoShard]
  /\ pending_players = [e \in Entities |-> Nowhere]
  /\ arrivals = 0 /\ moves = 0
  /\ shard_set = {Root} /\ ordered = {Root}
  /\ shard_map = [b \in Boundaries |-> IF b = Root THEN NoShard ELSE Unlisted]
  /\ old_shard_map = shard_map
  /\ pending_shard_to_destroy = {}
  /\ flagged_for_rebuild = FALSE /\ should_handle_pending_destructions = FALSE
  /\ status = [s \in Shards |-> "unborn"]
  /\ mishaps = {}
----------------------------------------------------------------------------
(***************************************************************************)
(* The orchestrator as the quadtree meets it: it starts a server for each  *)
(* boundary of the layout that has none, and a layout without a boundary   *)
(* is the end of its server, some time later (see Tick).                   *)
(***************************************************************************)
Served(b) == \E s \in Shards : Server(s) = b /\ status[s] \in {"starting", "up"}

SpawnServerForBoundary(b) ==
  /\ b \in ordered /\ ~Served(b)
  /\ \E s \in Shards :
       /\ Server(s) = b /\ status[s] = "unborn"
       /\ \A t \in Shards : Server(t) = b /\ t[2] < s[2] => status[t] # "unborn"
       /\ status' = [status EXCEPT ![s] = "starting"]
  /\ UNCHANGED << entityVars, layoutVars, shard_map, flags, mishaps >>
----------------------------------------------------------------------------
(***************************************************************************)
(* Messages polled by the quadtree.                                        *)
(***************************************************************************)

\* PlayerStartingPosition
HandlePlayerStartingPosition(e, p) ==
  /\ entity_map[e] = Nowhere /\ pending_players[e] = Nowhere /\ arrivals < MaxArrivals
  /\ arrivals' = arrivals + 1
  /\ pending_players' = [pending_players EXCEPT ![e] = p]
  /\ UNCHANGED << entity_map, entity_owners, moves, layoutVars, shard_map, flags, status, mishaps >>

\* ShardCreated, which a server may have sent just before it was stopped.
HandleShardCreated(s) ==
  /\ status[s] \in {"starting", "aborted"}
  /\ status' = [status EXCEPT ![s] = IF @ = "starting" THEN "up" ELSE "stopping"]
  /\ shard_map' = [shard_map EXCEPT ![Server(s)] = s]
  /\ flagged_for_rebuild' = TRUE
  /\ should_handle_pending_destructions' = TRUE
  /\ mishaps' = mishaps \cup {k \in {"lateReport"} : status[s] = "aborted"}
  /\ UNCHANGED << entityVars, layoutVars >>

\* check_for_handoff: a registered owner gives the entity to the boundary the
\* new position was found in, if that one has a server.
AfterHandoff(owner, p, new) ==
  IF shard_map[Server(owner)] = owner /\ p \notin Near[Server(owner)] /\ shard_map[new] \in Shards
  THEN shard_map[new] ELSE owner

\* EntityPositionUpdate, published by the shard in authority.
HandleEntityPositionUpdate(e, p) ==
  /\ entity_map[e] # Nowhere /\ p \in Reach[entity_map[e]]
  /\ status[entity_owners[e]] \in {"up", "stopping"}
  /\ moves < MaxMoves /\ moves' = moves + 1
  /\ \E old \in Finds(entity_map[e]), new \in Finds(p) :
       /\ flagged_for_rebuild' = (flagged_for_rebuild \/ old # new)
       /\ entity_owners' = [entity_owners EXCEPT ![e] = AfterHandoff(@, p, new)]
  /\ entity_map' = [entity_map EXCEPT ![e] = p]
  /\ UNCHANGED << pending_players, arrivals, layoutVars, shard_map,
                  should_handle_pending_destructions, status, mishaps >>

HandleDisconnect(e) ==
  /\ entity_map[e] # Nowhere
  /\ entity_map' = [entity_map EXCEPT ![e] = Nowhere]
  /\ entity_owners' = [entity_owners EXCEPT ![e] = NoShard]
  /\ flagged_for_rebuild' = TRUE
  /\ UNCHANGED << pending_players, arrivals, moves, layoutVars, shard_map,
                  should_handle_pending_destructions, status, mishaps >>
----------------------------------------------------------------------------
(***************************************************************************)
(* The rest of a tick: players who wait, then the layout.                  *)
(***************************************************************************)
Waiting == {e \in Entities : pending_players[e] # Nowhere}

\* What process_pending_players can find for the players who wait: a player
\* whose time is up is dropped, one without a registered shard goes on waiting.
SpawnChoices ==
  {on \in [Waiting -> {shard_map[b] : b \in Boundaries} \cup {TimedOut}] :
     \A e \in Waiting :
       on[e] = TimedOut \/ \E b \in Finds(pending_players[e]) : on[e] = shard_map[b]}

\* Mutant: the entries of boundaries that are no longer leaves stay.
RebuiltMap_KeepsOld(leaves) ==
  [b \in Boundaries |->
     IF \E s \in pending_shard_to_destroy : b \in leaves /\ Server(s) = b
     THEN CHOOSE s \in pending_shard_to_destroy : Server(s) = b
     ELSE IF b \in leaves /\ shard_map[b] = Unlisted THEN NoShard ELSE shard_map[b]]

\* rebuild: leaves keep their uuid, or get it back from the shards that were to go.
RebuiltMap(leaves) ==
  [b \in Boundaries |->
     IF b \notin leaves THEN Unlisted
     ELSE IF \E s \in pending_shard_to_destroy : Server(s) = b
     THEN CHOOSE s \in pending_shard_to_destroy : Server(s) = b
     ELSE IF shard_map[b] = Unlisted THEN NoShard ELSE shard_map[b]]

\* Mutant: a shard that is a leaf again still has to go.
StillPending_All(leaves) == pending_shard_to_destroy

StillPending(leaves) == {s \in pending_shard_to_destroy : Server(s) \notin leaves}

\* retain_old_shards_during_rebuild: for a leaf that had no uuid when the tick
\* began, one larger boundary of the old layout, whichever comes first ...
LargerOld(leaf) == {old \in shard_set : Larger(old, leaf)}

Unregistered(leaves) == {leaf \in leaves : old_shard_map[leaf] \notin Shards}

\* Mutant: nothing larger is kept.
ParentsKept_None(leaves) == {{}}

ParentsKept(leaves) == Choices({LargerOld(leaf) : leaf \in Unregistered(leaves)} \ {{}})

\* ... or all the smaller ones inside.
ChildrenKept(leaves) ==
  {old \in shard_set : \E leaf \in Unregistered(leaves) : LargerOld(leaf) = {} /\ Larger(leaf, old)}

\* What is kept has to go later, if it had a uuid when the tick began.
MarkedPending(kept) == {old_shard_map[b] : b \in kept} \cap Shards

\* handle_shard_destruction: who is on a registered leaf is handed over.
HandedOver(owners, positions, map, gone) ==
  [e \in Entities |->
     IF /\ owners[e] \in gone
        /\ \E b \in Boundaries : positions[e] \in Inside[b] /\ map[b] \in Shards
     THEN map[CHOOSE b \in Boundaries : positions[e] \in Inside[b] /\ map[b] \in Shards]
     ELSE owners[e]]

\* The servers of boundaries outside the layout are told to stop.
StatusAfter(layout) ==
  [s \in Shards |->
     IF Server(s) \in layout THEN status[s]
     ELSE CASE status[s] = "starting" -> "aborted"
            [] status[s] = "up" -> "stopping"
            [] OTHER -> status[s]]

\* Two races: a shard loses its entry unmarked, because it reported in this very
\* tick or because a larger or a smaller boundary was kept in its stead; or
\* somebody on a shard that goes stands where no server has reported yet.
MishapsOf(leaves, kept, positions, owners, gone) ==
  {k \in {"shardForgotten", "leafNotReady"} :
     \/ /\ k = "shardForgotten"
        /\ \E b \in Boundaries \ leaves :
             /\ shard_map[b] \in Shards
             /\ \/ shard_map[b] # old_shard_map[b]
                \/ b \notin kept /\ \E a \in kept : Larger(a, b) \/ Larger(b, a)
     \/ /\ k = "leafNotReady"
        /\ \E e \in Entities, b \in leaves :
             owners[e] \in gone /\ positions[e] \in Inside[b] /\ RebuiltMap(leaves)[b] = NoShard}

\* Mutant: the orchestrator is sent the leaves only.
Sent_Leaves(leaves, kept) == leaves

Sent(leaves, kept) == leaves \cup kept

\* The layout is sent, and whoever had to go and is no longer kept hands over.
Relayout(positions, owners, leaves) ==
  \E parents \in ParentsKept(leaves) :
    \E kept \in {parents \cup ChildrenKept(leaves)} :
      \E pending \in {StillPending(leaves) \cup MarkedPending(kept)} :
        \E gone \in {{s \in pending : Server(s) \notin leaves \cup kept}} :
          /\ shard_set' = leaves \cup kept
          /\ ordered' = Sent(leaves, kept)
          /\ pending_shard_to_destroy' = pending \ gone
          /\ should_handle_pending_destructions' = (pending # gone)
          /\ entity_owners' = HandedOver(owners, positions, shard_map', gone)
          /\ status' = StatusAfter(ordered')
          /\ mishaps' = mishaps \cup MishapsOf(leaves, kept, positions, owners, gone)

Rebuild(positions, owners) ==
  \E leaves \in {Leaves(positions)} :
    /\ shard_map' = RebuiltMap(leaves)
    /\ \/ /\ leaves # shard_set \/ should_handle_pending_destructions
          /\ Relayout(positions, owners, leaves)
       \/ /\ leaves = shard_set /\ ~should_handle_pending_destructions
          /\ entity_owners' = owners
          /\ pending_shard_to_destroy' = StillPending(leaves)
          /\ UNCHANGED << shard_set, ordered, status, mishaps,
                          should_handle_pending_destructions >>

\* Mutant: a place whose shard has not reported yet will do.
Spawned_Unregistered(on) == {e \in Waiting : on[e] # TimedOut}

\* spawn_player_on_shard, for each player whose place has a shard.
Spawned(on) == {e \in Waiting : on[e] \in Shards}

PositionsAfter(on) ==
  [e \in Entities |-> IF e \in Spawned(on) THEN pending_players[e] ELSE entity_map[e]]

OwnersAfter(on) ==
  [e \in Entities |-> IF e \in Spawned(on) THEN on[e] ELSE entity_owners[e]]

\* Mutant: players who are spawned do not make the quadtree divide.
NeedsRebuild_NotOnSpawn(on) == flagged_for_rebuild \/ should_handle_pending_destructions

\* Whether the tick looks at the layout again.
NeedsRebuild(on) ==
  \/ flagged_for_rebuild \/ should_handle_pending_destructions
  \/ /\ Spawned(on) # {}
     /\ Cardinality({e \in Entities : PositionsAfter(on)[e] # Nowhere}) >= Capacity

Tick ==
  \E on \in SpawnChoices :
    \E positions \in {PositionsAfter(on)}, owners \in {OwnersAfter(on)},
       rebuild \in {NeedsRebuild(on)} :
      /\ entity_map' = positions
      /\ pending_players' = [e \in Entities |->
           IF e \in Waiting /\ on[e] = NoShard THEN pending_players[e] ELSE Nowhere]
      /\ \/ rebuild /\ Rebuild(positions, owners)
         \/ /\ ~rebuild /\ entity_owners' = owners
            /\ UNCHANGED << shard_set, shard_map, ordered, pending_shard_to_destroy,
                            should_handle_pending_destructions, status, mishaps >>
      /\ flagged_for_rebuild' = FALSE
      /\ old_shard_map' = shard_map'
      /\ UNCHANGED << arrivals, moves >>
----------------------------------------------------------------------------
Next ==
  \/ Tick
  \/ \E b \in Boundaries : SpawnServerForBoundary(b)
  \/ \E s \in Shards : HandleShardCreated(s)
  \/ \E e \in Entities : HandleDisconnect(e)
  \/ \E e \in Entities, p \in Starts : HandlePlayerStartingPosition(e, p)
  \/ \E e \in Entities, p \in Places : HandleEntityPositionUpdate(e, p)

Spec == Init /\ [][Next]_vars

\* The quadtree ticks; the orchestrator starts what it is asked to start, and a
\* server that is not told to stop reports in the end.
Fairness ==
  /\ WF_vars(Tick)
  /\ WF_vars(\E b \in Boundaries : SpawnServerForBoundary(b))
  /\ WF_vars(\E s \in Shards : status[s] = "starting" /\ HandleShardCreated(s))

FairSpec == Spec /\ Fairness
----------------------------------------------------------------------------
(***************************************************************************)
(* Properties.                                                             *)
(***************************************************************************)
\* What shard_map can hold.
Registrations == [Boundaries -> Shards \cup {NoShard, Unlisted}]

\* Every table of the quadtree holds what its type says: uuids where a uuid is
\* unwrapped, and an owner for exactly the entities that have a position.
TypeOK ==
  /\ entity_map \in [Entities -> Places \cup {Nowhere}]
  /\ entity_owners \in [Entities -> Shards \cup {NoShard}]
  /\ \A e \in Entities : entity_map[e] = Nowhere <=> entity_owners[e] = NoShard
  /\ pending_players \in [Entities -> Places \cup {Nowhere}]
  /\ arrivals \in 0..MaxArrivals /\ moves \in 0..MaxMoves
  /\ shard_set \subseteq Boundaries /\ ordered \subseteq Boundaries
  /\ shard_map \in Registrations /\ old_shard_map \in Registrations
  /\ pending_shard_to_destroy \subseteq Shards
  /\ flagged_for_rebuild \in BOOLEAN /\ should_handle_pending_destructions \in BOOLEAN
  /\ status \in [Shards -> {"unborn", "starting", "up", "aborted", "stopping"}]
  /\ mishaps \subseteq {"lateReport", "shardForgotten", "leafNotReady"}

\* The layout the quadtree works with is the one the orchestrator was sent: the
\* main loop compares the leaves with the old set, but keeps older boundaries
\* only after the comparison.
LayoutIsSent == ordered = shard_set

\* A shard that has to go is kept running until it has handed over: it is in
\* the layout sent, it is not a leaf, and it is the only one for its boundary.
\* Only one that reported after its end may have gone already.
PendingIsKept ==
  /\ \A s \in pending_shard_to_destroy :
       /\ Server(s) \in ordered /\ old_shard_map[Server(s)] = Unlisted
       /\ status[s] = "up" \/ "lateReport" \in mishaps
  /\ \A s, t \in pending_shard_to_destroy : Server(s) = Server(t) => s = t

\* When a tick is over the shards known divide the world: every place is in
\* exactly one boundary of shard_map, so find_shard_for_position has no choice.
OneShardPerPlace ==
  \A p \in Places :
    \E b \in Boundaries :
      \A a \in Boundaries : (old_shard_map[a] # Unlisted /\ p \in Inside[a]) <=> a = b

\* The entity has no position, or the server that simulates it is not told to stop.
OwnerIsUp(e) == entity_map[e] # Nowhere => status[entity_owners[e]] = "up"

\* Nobody is left on a server that is told to stop, unless the quadtree has run
\* into one of the races it does not resolve.
OwnersAreKept == mishaps = {} => \A e \in Entities : OwnerIsUp(e)

\* Nobody is left on a server that is told to stop.
OwnersAreKeptAlways == \A e \in Entities : OwnerIsUp(e)

\* The layout is the tree of the positions and every leaf has a running server.
Settled ==
  /\ shard_set = Leaves(entity_map) /\ pending_shard_to_destroy = {}
  /\ \A b \in shard_set : shard_map[b] \in Shards /\ status[shard_map[b]] = "up"

\* Bound: a boundary of the layout needs one server more than MaxStarts.
OutOfServers ==
  \E b \in ordered : ~Served(b) /\ \A s \in Shards : Server(s) = b => status[s] # "unborn"

\* When entities come to rest, the layout becomes the tree of their positions,
\* every leaf has a server, and older shards are gone, unless a shard was
\* forgotten (its boundary may become a leaf again and wait for a ShardCreated
\* that was sent already) or one that had ended was registered.
LayoutSettles == <>[]Settled \/ <>(mishaps \ {"leafNotReady"} # {}) \/ <>[]OutOfServers
=============================================================================
