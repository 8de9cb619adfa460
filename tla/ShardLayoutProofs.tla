------------------------- MODULE ShardLayoutProofs -------------------------
(***************************************************************************)
(* The safety invariants of the layout, for any tree of boundaries, any    *)
(* sets of entities and places and any bounds.  They are inductive only    *)
(* together with what the quadtree knows of the servers: an entry of       *)
(* shard_map is a server of that boundary which was not told to stop, and  *)
(* a boundary has one such server at a time.                               *)
(***************************************************************************)
EXTENDS ShardLayout, TLAPS

\* A registration that came too late is the one way a stopped server gets in.
Late == "lateReport" \in mishaps

Registered ==
  \A b \in Boundaries : shard_map[b] \in Shards =>
    Server(shard_map[b]) = b /\ (status[shard_map[b]] = "up" \/ Late)

OldRegistered ==
  \A b \in Boundaries : old_shard_map[b] \in Shards =>
    Server(old_shard_map[b]) = b /\ (status[old_shard_map[b]] = "up" \/ Late)

ListedIsSent == \A b \in Boundaries : old_shard_map[b] # Unlisted => b \in shard_set

OneServed ==
  \A s, t \in Shards :
    /\ Server(s) = Server(t)
    /\ status[s] \in {"starting", "up"} /\ status[t] \in {"starting", "up"}
    => s = t

ChangesAreFlagged ==
  /\ ~flagged_for_rebuild => shard_map = old_shard_map
  /\ ~should_handle_pending_destructions =>
       shard_map = old_shard_map /\ pending_shard_to_destroy = {}

\* Whoever has the positions and owners given is on a server that runs and
\* that the quadtree has not lost sight of.
Known(positions, owners) ==
  \A e \in Entities : positions[e] # Nowhere =>
    /\ owners[e] \in Shards /\ status[owners[e]] = "up"
    /\ owners[e] \in pending_shard_to_destroy \/ shard_map[Server(owners[e])] = owners[e]

OwnersAreKnown == mishaps = {} => Known(entity_map, entity_owners)

LayoutInv ==
  /\ TypeOK /\ LayoutIsSent /\ PendingIsKept /\ OneShardPerPlace
  /\ Registered /\ OldRegistered /\ ListedIsSent /\ OneServed
  /\ ChangesAreFlagged /\ OwnersAreKnown
----------------------------------------------------------------------------
\* The shape of a uuid.
LEMMA ShardsAreServers ==
  ASSUME NEW s \in Shards
  PROVE  /\ Server(s) \in Boundaries
         /\ s # NoShard /\ s # Unlisted /\ s # TimedOut
<1>1. s \in Boundaries \X Nat
  BY LayoutAssumption DEF Shards
<1>2. Server(s) \in Boundaries
  BY <1>1 DEF Server
<1>3. {NoShard, Unlisted, TimedOut} \cap (Boundaries \X Nat) = {}
  BY LayoutAssumption
<1>4. s \notin {NoShard, Unlisted, TimedOut}
  <2> DEFINE known == Boundaries \X Nat
  <2> HIDE DEF known
  <2>1. s \in known /\ {NoShard, Unlisted, TimedOut} \cap known = {}
    BY <1>1, <1>3 DEF known
  <2> QED
    BY <2>1
<1> QED
  BY <1>2, <1>4

\* Larger is a strict order that follows the places inside.
LEMMA LargerIsOrder ==
  ASSUME NEW a \in Boundaries, NEW b \in Boundaries, NEW c \in Boundaries
  PROVE  /\ Larger(a, b) <=> Inside[b] \subseteq Inside[a] /\ a # b
         /\ Larger(a, b) => a # b /\ ~Larger(b, a)
         /\ Larger(a, b) /\ Larger(b, c) => Larger(a, c)
<1>1. \A x, y \in Boundaries : Larger(x, y) <=> Inside[y] \subseteq Inside[x] /\ x # y
  BY DEF Larger, Ancestors
<1>2. ASSUME NEW x \in Boundaries, NEW y \in Boundaries,
             Inside[x] \subseteq Inside[y], Inside[y] \subseteq Inside[x]
      PROVE  x = y
  <2>1. Inside[x] = Inside[y]
    BY <1>2
  <2> QED
    BY <2>1, LayoutAssumption
<1> QED
  BY <1>1, <1>2

\* Two boundaries that share a place are on one branch of the tree.
LEMMA SharedPlace ==
  ASSUME NEW a \in Boundaries, NEW b \in Boundaries, NEW p \in Inside[a] \cap Inside[b]
  PROVE  a = b \/ Larger(a, b) \/ Larger(b, a)
BY LayoutAssumption DEF Larger, Ancestors

\* No leaf is inside another.
LEMMA LeavesAreApart ==
  ASSUME NEW positions, NEW a \in Boundaries, NEW b \in Leaves(positions)
  PROVE  /\ b \in Boundaries
         /\ Larger(a, b) => a \notin Leaves(positions)
<1> DEFINE divided == {d \in Boundaries \ Smallest : Population(positions, d) > Capacity}
<1>1. Leaves(positions) = {d \in Boundaries \ divided : Ancestors[d] \subseteq divided}
  BY DEF Leaves
<1> HIDE DEF divided
<1> QED
  BY <1>1 DEF Larger

\* The leaves cover the world.
LEMMA LeavesCover ==
  ASSUME NEW positions, NEW p \in Places
  PROVE  \E b \in Leaves(positions) : p \in Inside[b]
<1> DEFINE divided == {b \in Boundaries \ Smallest : Population(positions, b) > Capacity}
           above == {d \in divided : p \in Inside[d] /\ Ancestors[d] \subseteq divided}
<1>1. Leaves(positions) = {b \in Boundaries \ divided : Ancestors[b] \subseteq divided}
  BY DEF Leaves
<1>2. Root \in Boundaries /\ p \in Inside[Root] /\ Ancestors[Root] = {}
  <2>1. Root \in Boundaries /\ Inside[Root] = Places
    BY LayoutAssumption
  <2>2. ASSUME NEW a \in Boundaries, Inside[Root] \subseteq Inside[a] PROVE a = Root
    <3>1. Inside[a] \subseteq Places
      BY LayoutAssumption
    <3>2. Inside[a] = Inside[Root]
      BY <2>1, <2>2, <3>1
    <3> QED
      BY <2>1, <3>2, LayoutAssumption
  <2> QED
    BY <2>1, <2>2 DEF Ancestors
<1>3. CASE above = {}
  BY <1>1, <1>2, <1>3
<1>4. CASE above # {}
  <2>1. above \in SUBSET Boundaries /\ divided \subseteq Boundaries \ Smallest
    OBVIOUS
  <2>2. PICK d \in above : \A c \in above : ~Larger(d, c)
    <3> HIDE DEF above
    <3> QED
      BY <1>4, <2>1, TreeAssumption
  <2>3. PICK c \in Boundaries : p \in Inside[c] /\ Ancestors[c] = Ancestors[d] \cup {d}
    <3>1. d \in Boundaries \ Smallest /\ p \in Inside[d]
      OBVIOUS
    <3> QED
      BY <3>1, TreeAssumption
  <2>4. Ancestors[c] \subseteq divided
    BY <2>3
  <2>5. c \notin divided
    BY <2>2, <2>3, <2>4 DEF Larger
  <2> QED
    BY <1>1, <2>3, <2>4, <2>5
<1> QED
  BY <1>3, <1>4

\* Every place is in exactly one leaf.
LEMMA OneLeafPerPlace ==
  ASSUME NEW positions, NEW p \in Places
  PROVE  \E b \in Boundaries : \A a \in Boundaries :
           (a \in Leaves(positions) /\ p \in Inside[a]) <=> a = b
<1>1. PICK b \in Leaves(positions) : p \in Inside[b]
  BY LeavesCover
<1>2. b \in Boundaries
  BY DEF Leaves
<1>3. ASSUME NEW a \in Boundaries, a \in Leaves(positions), p \in Inside[a] PROVE a = b
  BY <1>1, <1>2, <1>3, SharedPlace, LeavesAreApart
<1> QED
  BY <1>1, <1>2, <1>3

\* On the branch of a boundary that is no leaf there is a leaf, which shares a
\* place with it.
LEMMA LeafOnBranch ==
  ASSUME NEW positions, NEW b \in Boundaries \ Leaves(positions)
  PROVE  \E c \in Leaves(positions) : \E p \in Places :
           /\ c \in Boundaries /\ p \in Inside[b] /\ p \in Inside[c]
           /\ Larger(b, c) \/ Larger(c, b)
<1>1. PICK p \in Places : p \in Inside[b]
  BY LayoutAssumption
<1>2. PICK c \in Leaves(positions) : p \in Inside[c]
  BY LeavesCover
<1>3. c \in Boundaries
  BY DEF Leaves
<1> QED
  BY <1>1, <1>2, <1>3, SharedPlace
----------------------------------------------------------------------------
\* What the rebuilt map knows: exactly the leaves, each with the server it had
\* or with the one that was to go.
LEMMA RebuiltMapFacts ==
  ASSUME TypeOK, PendingIsKept, NEW leaves \in SUBSET Boundaries
  PROVE  /\ RebuiltMap(leaves) \in Registrations
         /\ \A b \in Boundaries : RebuiltMap(leaves)[b] # Unlisted <=> b \in leaves
         /\ \A b \in Boundaries : RebuiltMap(leaves)[b] \in Shards =>
              \/ RebuiltMap(leaves)[b] = shard_map[b]
              \/ /\ RebuiltMap(leaves)[b] \in pending_shard_to_destroy
                 /\ Server(RebuiltMap(leaves)[b]) = b
         /\ \A s \in pending_shard_to_destroy :
              Server(s) \in leaves => RebuiltMap(leaves)[Server(s)] = s
         /\ \A b \in leaves : shard_map[b] \in Shards =>
              RebuiltMap(leaves)[b] \in pending_shard_to_destroy \cup {shard_map[b]}
<1> DEFINE map == RebuiltMap(leaves)
<1>1. pending_shard_to_destroy \subseteq Shards /\ shard_map \in Registrations
  BY DEF TypeOK
<1>2. NoShard # Unlisted /\ \A s \in Shards : s # Unlisted /\ s # NoShard /\ Server(s) \in Boundaries
  BY ShardsAreServers, LayoutAssumption
<1>3. \A s, t \in pending_shard_to_destroy : Server(s) = Server(t) => s = t
  BY DEF PendingIsKept
<1>4. ASSUME NEW b \in Boundaries, b \notin leaves PROVE map[b] = Unlisted
  BY <1>4 DEF RebuiltMap
<1>5. ASSUME NEW b \in leaves, NEW s \in pending_shard_to_destroy, Server(s) = b
      PROVE  map[b] = s
  <2>1. map[b] = CHOOSE u \in pending_shard_to_destroy : Server(u) = b
    BY <1>5 DEF RebuiltMap
  <2>2. map[b] \in pending_shard_to_destroy /\ Server(map[b]) = b
    BY <1>5, <2>1
  <2> QED
    BY <1>3, <1>5, <2>2
<1>6. ASSUME NEW b \in leaves, \A s \in pending_shard_to_destroy : Server(s) # b
      PROVE  map[b] = IF shard_map[b] = Unlisted THEN NoShard ELSE shard_map[b]
  BY <1>6 DEF RebuiltMap
<1>7. ASSUME NEW b \in Boundaries
      PROVE  \/ b \notin leaves /\ map[b] = Unlisted
             \/ b \in leaves /\ map[b] \in pending_shard_to_destroy /\ Server(map[b]) = b
             \/ b \in leaves /\ map[b] = NoShard /\ shard_map[b] = Unlisted
             \/ b \in leaves /\ map[b] = shard_map[b] /\ map[b] # Unlisted
  BY <1>4, <1>5, <1>6
<1>8. \A b \in Boundaries : shard_map[b] \in Shards \cup {NoShard, Unlisted}
  BY <1>1 DEF Registrations
<1>9. map \in Registrations
  <2>1. map = [b \in Boundaries |-> map[b]]
    BY DEF RebuiltMap
  <2>2. \A b \in Boundaries : map[b] \in Shards \cup {NoShard, Unlisted}
    BY <1>1, <1>7, <1>8
  <2> HIDE DEF map
  <2> QED
    BY <2>1, <2>2 DEF Registrations
<1>10. \A b \in Boundaries : map[b] # Unlisted <=> b \in leaves
  BY <1>1, <1>2, <1>7
<1>11. \A b \in Boundaries : map[b] \in Shards =>
         map[b] = shard_map[b] \/ (map[b] \in pending_shard_to_destroy /\ Server(map[b]) = b)
  BY <1>2, <1>7
<1>12. \A b \in leaves : shard_map[b] \in Shards => map[b] \in pending_shard_to_destroy \cup {shard_map[b]}
  BY <1>2, <1>7
<1> QED
  BY <1>5, <1>9, <1>10, <1>11, <1>12

\* What is kept is old, on the branch of an unregistered leaf, and no leaf; and
\* a leaf with something larger in the old layout has something larger kept.
LEMMA KeptFacts ==
  ASSUME TypeOK, NEW positions, NEW parents \in ParentsKept(Leaves(positions))
  PROVE  /\ parents \cup ChildrenKept(Leaves(positions)) \subseteq shard_set \ Leaves(positions)
         /\ \A c \in Unregistered(Leaves(positions)) : LargerOld(c) # {} =>
              \E b \in parents : Larger(b, c)
<1> DEFINE leaves == Leaves(positions)
           choices == {LargerOld(c) : c \in Unregistered(leaves)} \ {{}}
<1>1. leaves \subseteq Boundaries /\ shard_set \subseteq Boundaries
  BY DEF TypeOK, Leaves
<1>2. PICK f \in [choices -> UNION choices] : /\ \A T \in choices : f[T] \in T
                                              /\ parents = {f[T] : T \in choices}
  BY DEF ParentsKept, Choices, Range
<1>3. ASSUME NEW b \in parents
      PROVE  b \in shard_set /\ \E c \in leaves : Larger(b, c)
  <2>1. PICK T \in choices : b = f[T]
    BY <1>2
  <2>2. PICK c \in Unregistered(leaves) : T = LargerOld(c)
    OBVIOUS
  <2>3. b \in LargerOld(c)
    BY <1>2, <2>1, <2>2
  <2> QED
    BY <2>2, <2>3 DEF LargerOld, Unregistered
<1>4. ASSUME NEW b \in ChildrenKept(leaves)
      PROVE  b \in shard_set /\ \E c \in leaves : Larger(c, b)
  BY DEF ChildrenKept, Unregistered
<1>5. \A b \in parents : b \notin leaves
  BY <1>1, <1>3, LeavesAreApart
<1>6. \A b \in ChildrenKept(leaves) : b \notin leaves
  BY <1>1, <1>4, LeavesAreApart
<1>7. ASSUME NEW c \in Unregistered(leaves), LargerOld(c) # {}
      PROVE  \E b \in parents : Larger(b, c)
  <2>1. LargerOld(c) \in choices
    BY <1>7
  <2>2. f[LargerOld(c)] \in parents /\ f[LargerOld(c)] \in LargerOld(c)
    BY <1>2, <2>1
  <2> QED
    BY <2>2 DEF LargerOld
<1> QED
  BY <1>3, <1>4, <1>5, <1>6, <1>7
----------------------------------------------------------------------------
\* The positions and owners a tick rebuilds from, once players are spawned.
Consistent(positions, owners) ==
  /\ positions \in [Entities -> Places \cup {Nowhere}]
  /\ owners \in [Entities -> Shards \cup {NoShard}]
  /\ \A e \in Entities : positions[e] = Nowhere <=> owners[e] = NoShard

\* What both outcomes of Rebuild have in common: the layout is the leaves and
\* what is kept, and the shards that go are those of neither.
RebuildResult(positions, owners, leaves, kept, gone) ==
  /\ leaves = Leaves(positions)
  /\ kept \subseteq shard_set \ leaves
  /\ shard_map' = RebuiltMap(leaves)
  /\ shard_set' = leaves \cup kept /\ ordered' = shard_set'
  /\ gone = {s \in StillPending(leaves) \cup MarkedPending(kept) : Server(s) \notin leaves \cup kept}
  /\ pending_shard_to_destroy' = (StillPending(leaves) \cup MarkedPending(kept)) \ gone
  /\ should_handle_pending_destructions' \in BOOLEAN
  /\ ~should_handle_pending_destructions' => pending_shard_to_destroy' = {}
  /\ entity_owners' = HandedOver(owners, positions, shard_map', gone)
  /\ status' \in [Shards -> {"unborn", "starting", "up", "aborted", "stopping"}]
  /\ \A s \in Shards : Server(s) \in shard_set' => status'[s] = status[s]
  /\ \A s \in Shards : status'[s] \in {"starting", "up"} => status'[s] = status[s]
  /\ mishaps \subseteq mishaps' /\ mishaps' \subseteq {"lateReport", "shardForgotten", "leafNotReady"}
  /\ mishaps' = {} =>
       /\ \A b \in Boundaries \ leaves : shard_map[b] \in Shards =>
            b \in kept /\ old_shard_map[b] = shard_map[b]
       /\ \A e \in Entities, b \in leaves :
            owners[e] \in gone /\ positions[e] \in Inside[b] => shard_map'[b] # NoShard

\* A registered shard whose boundary is no leaf any more is kept, or its loss
\* is one of the mishaps: its branch has a leaf, which is new.
LEMMA NobodyForgotten ==
  ASSUME LayoutInv, NEW positions, NEW parents \in ParentsKept(Leaves(positions)),
         NEW b \in Boundaries \ Leaves(positions),
         shard_map[b] \in Shards, shard_map[b] = old_shard_map[b],
         b \notin parents \cup ChildrenKept(Leaves(positions))
  PROVE  \E a \in parents \cup ChildrenKept(Leaves(positions)) : Larger(a, b) \/ Larger(b, a)
<1> DEFINE leaves == Leaves(positions)
<1>1. TypeOK /\ OneShardPerPlace /\ ListedIsSent
  BY DEF LayoutInv
<1>2. shard_set \subseteq Boundaries /\ old_shard_map[b] # Unlisted /\ b \in shard_set
  BY <1>1, ShardsAreServers DEF TypeOK, ListedIsSent
<1>3. PICK c \in leaves, p \in Places :
        /\ c \in Boundaries /\ p \in Inside[b] /\ p \in Inside[c]
        /\ Larger(b, c) \/ Larger(c, b)
  BY LeafOnBranch
<1>4. old_shard_map[c] = Unlisted
  <2>1. c # b
    OBVIOUS
  <2> QED
    BY <1>1, <1>2, <1>3, <2>1 DEF OneShardPerPlace
<1>5. c \in Unregistered(leaves)
  BY <1>4, ShardsAreServers DEF Unregistered
<1>6. CASE LargerOld(c) # {}
  <2>1. PICK a \in parents : Larger(a, c)
    BY <1>5, <1>6, KeptFacts, <1>1
  <2>2. a \in Boundaries
    BY <2>1, <1>1, <1>2, KeptFacts
  <2>3. Inside[c] \subseteq Inside[a]
    BY <1>3, <2>1, <2>2, LargerIsOrder
  <2> QED
    BY <1>3, <2>2, <2>3, SharedPlace
<1>7. CASE LargerOld(c) = {}
  <2>1. ~Larger(b, c)
    BY <1>2, <1>7 DEF LargerOld
  <2> QED
    BY <1>2, <1>3, <1>5, <1>7, <2>1 DEF ChildrenKept
<1> QED
  BY <1>6, <1>7

\* What a rebuild leaves in the tables, for one choice of retained boundaries.
LEMMA RebuildHasResult ==
  ASSUME LayoutInv, NEW positions, NEW owners,
         Consistent(positions, owners), Rebuild(positions, owners)
  PROVE  \E leaves, kept, gone : RebuildResult(positions, owners, leaves, kept, gone)
<1> DEFINE leaves == Leaves(positions)
<1>1. TypeOK /\ PendingIsKept /\ LayoutIsSent
  BY DEF LayoutInv
<1>2. shard_map' = RebuiltMap(leaves)
  BY DEF Rebuild
<1>3. CASE Relayout(positions, owners, leaves)
  <2> DEFINE keeps(ps) == ps \cup ChildrenKept(leaves)
             waits(ps) == StillPending(leaves) \cup MarkedPending(keeps(ps))
             goes(ps) == {s \in waits(ps) : Server(s) \notin leaves \cup keeps(ps)}
  <2>0. PICK parents \in ParentsKept(leaves) :
          /\ shard_set' = leaves \cup keeps(parents)
          /\ ordered' = Sent(leaves, keeps(parents))
          /\ pending_shard_to_destroy' = waits(parents) \ goes(parents)
          /\ should_handle_pending_destructions' = (waits(parents) # goes(parents))
          /\ entity_owners' = HandedOver(owners, positions, shard_map', goes(parents))
          /\ status' = StatusAfter(ordered')
          /\ mishaps' = mishaps \cup MishapsOf(leaves, keeps(parents), positions, owners, goes(parents))
    BY ZenonT(40), <1>3 DEF Relayout
  <2> DEFINE kept == keeps(parents)
             pending == waits(parents)
             gone == goes(parents)
  <2>1. /\ shard_set' = leaves \cup kept
        /\ ordered' = Sent(leaves, kept)
        /\ pending_shard_to_destroy' = pending \ gone
        /\ should_handle_pending_destructions' = (pending # gone)
        /\ entity_owners' = HandedOver(owners, positions, shard_map', gone)
        /\ status' = StatusAfter(ordered')
        /\ mishaps' = mishaps \cup MishapsOf(leaves, kept, positions, owners, gone)
    BY <2>0
  <2>2. kept \subseteq shard_set \ leaves
    BY <1>1, KeptFacts
  <2>3. /\ should_handle_pending_destructions' \in BOOLEAN
        /\ ~should_handle_pending_destructions' => pending_shard_to_destroy' = {}
    BY <2>1
  <2>4. ordered' = shard_set'
    BY <2>1 DEF Sent
  <2>5. /\ status' \in [Shards -> {"unborn", "starting", "up", "aborted", "stopping"}]
        /\ \A s \in Shards : Server(s) \in shard_set' => status'[s] = status[s]
        /\ \A s \in Shards : status'[s] \in {"starting", "up"} => status'[s] = status[s]
    <3>1. status \in [Shards -> {"unborn", "starting", "up", "aborted", "stopping"}]
      BY <1>1 DEF TypeOK
    <3>2. status' = StatusAfter(shard_set')
      BY <2>1, <2>4
    <3>3. \A s \in Shards : Server(s) \in shard_set' => status'[s] = status[s]
      BY <3>2 DEF StatusAfter
    <3>4. ASSUME NEW s \in Shards, Server(s) \notin shard_set'
          PROVE  status'[s] = CASE status[s] = "starting" -> "aborted"
                                [] status[s] = "up" -> "stopping"
                                [] OTHER -> status[s]
      BY <3>2, <3>4 DEF StatusAfter
    <3>5. ASSUME NEW s \in Shards
          PROVE  /\ status'[s] \in {"unborn", "starting", "up", "aborted", "stopping"}
                 /\ status'[s] \in {"starting", "up"} => status'[s] = status[s]
      BY <3>1, <3>3, <3>4
    <3>6. status' = [s \in Shards |-> status'[s]]
      BY <3>2 DEF StatusAfter
    <3> QED
      BY <3>3, <3>5, <3>6
  <2>6. mishaps \subseteq mishaps' /\ mishaps' \subseteq {"lateReport", "shardForgotten", "leafNotReady"}
    BY <1>1, <2>1 DEF TypeOK, MishapsOf
  <2>7. ASSUME mishaps' = {}, NEW b \in Boundaries \ leaves, shard_map[b] \in Shards
        PROVE  b \in kept /\ old_shard_map[b] = shard_map[b]
    <3>1. "shardForgotten" \notin MishapsOf(leaves, kept, positions, owners, gone)
      BY <2>1, <2>7
    <3>2. ~(\/ shard_map[b] # old_shard_map[b]
            \/ b \notin kept /\ \E a \in kept : Larger(a, b) \/ Larger(b, a))
      BY <2>7, <3>1 DEF MishapsOf
    <3> QED
      BY <2>7, <3>2, NobodyForgotten
  <2>8. ASSUME mishaps' = {}, NEW e \in Entities, NEW b \in leaves,
               owners[e] \in gone, positions[e] \in Inside[b]
        PROVE  shard_map'[b] # NoShard
    <3>1. "leafNotReady" \notin MishapsOf(leaves, kept, positions, owners, gone)
      BY <2>1, <2>8
    <3> QED
      BY <1>2, <2>8, <3>1 DEF MishapsOf
  <2>9. RebuildResult(positions, owners, leaves, kept, gone)
    BY <1>2, <2>1, <2>2, <2>3, <2>4, <2>5, <2>6, <2>7, <2>8 DEF RebuildResult
  <2> QED
    BY <2>9
<1>4. CASE /\ leaves = shard_set /\ ~should_handle_pending_destructions
           /\ entity_owners' = owners
           /\ pending_shard_to_destroy' = StillPending(leaves)
           /\ UNCHANGED << shard_set, ordered, status, mishaps,
                           should_handle_pending_destructions >>
  <2>1. shard_map = old_shard_map /\ pending_shard_to_destroy = {}
    BY <1>4 DEF LayoutInv, ChangesAreFlagged
  <2>2. StillPending(leaves) = {} /\ MarkedPending({}) = {}
    BY <2>1 DEF StillPending, MarkedPending
  <2>3. HandedOver(owners, positions, shard_map', {}) = owners
    BY DEF HandedOver, Consistent
  <2>4. \A b \in Boundaries \ leaves : shard_map[b] \notin Shards
    BY <1>4, <2>1, ShardsAreServers DEF LayoutInv, ListedIsSent
  <2>5. RebuildResult(positions, owners, leaves, {}, {})
    <3>1. /\ {} \subseteq shard_set \ leaves
          /\ shard_set' = leaves \cup {} /\ ordered' = shard_set'
          /\ {} = {s \in StillPending(leaves) \cup MarkedPending({}) : Server(s) \notin leaves \cup {}}
          /\ pending_shard_to_destroy' = (StillPending(leaves) \cup MarkedPending({})) \ {}
          /\ ~should_handle_pending_destructions' => pending_shard_to_destroy' = {}
      BY <1>1, <1>4, <2>2 DEF LayoutIsSent
    <3>2. /\ should_handle_pending_destructions' \in BOOLEAN
          /\ status' \in [Shards -> {"unborn", "starting", "up", "aborted", "stopping"}]
          /\ mishaps' \subseteq {"lateReport", "shardForgotten", "leafNotReady"}
          /\ mishaps' = mishaps /\ status' = status
      BY <1>1, <1>4 DEF TypeOK
    <3> QED
      BY <1>2, <1>4, <2>3, <2>4, <3>1, <3>2 DEF RebuildResult
  <2> QED
    BY <2>5
<1> QED
  BY <1>3, <1>4 DEF Rebuild

\* The shards that have yet to go after a rebuild.
LEMMA PendingAfterRebuild ==
  ASSUME LayoutInv, NEW positions, NEW owners, NEW leaves, NEW kept, NEW gone,
         RebuildResult(positions, owners, leaves, kept, gone)
  PROVE  /\ \A s \in pending_shard_to_destroy' :
              /\ s \in Shards /\ Server(s) \in shard_set' /\ Server(s) \notin leaves
              /\ status[s] = "up" \/ Late
         /\ \A s, t \in pending_shard_to_destroy' : Server(s) = Server(t) => s = t
<1>1. TypeOK /\ PendingIsKept /\ OldRegistered
  BY DEF LayoutInv
<1>2. kept \subseteq Boundaries /\ kept \cap leaves = {} /\ pending_shard_to_destroy \subseteq Shards
  BY <1>1 DEF TypeOK, RebuildResult
<1>3. ASSUME NEW s \in pending_shard_to_destroy'
      PROVE  /\ Server(s) \in shard_set'
             /\ \/ s \in pending_shard_to_destroy /\ Server(s) \notin leaves
                \/ s \in Shards /\ Server(s) \in kept /\ old_shard_map[Server(s)] = s
  <2>1. /\ s \in StillPending(leaves) \cup MarkedPending(kept)
        /\ Server(s) \in leaves \cup kept
    BY <1>3 DEF RebuildResult
  <2>2. CASE s \in StillPending(leaves)
    BY <2>1, <2>2 DEF StillPending, RebuildResult
  <2>3. CASE s \in MarkedPending(kept)
    <3>1. PICK b \in kept : s = old_shard_map[b]
      BY <2>3 DEF MarkedPending
    <3>2. s \in Shards
      BY <2>3 DEF MarkedPending
    <3>3. Server(s) = b
      BY <1>1, <1>2, <3>1, <3>2 DEF OldRegistered
    <3> QED
      BY <2>1, <3>1, <3>2, <3>3 DEF RebuildResult
  <2> QED
    BY <2>1, <2>2, <2>3
<1>4. ASSUME NEW s \in pending_shard_to_destroy'
      PROVE  s \in Shards /\ Server(s) \notin leaves /\ (status[s] = "up" \/ Late)
  <2>1. CASE s \in pending_shard_to_destroy /\ Server(s) \notin leaves
    BY <1>1, <1>2, <2>1 DEF PendingIsKept, Late
  <2>2. CASE s \in Shards /\ Server(s) \in kept /\ old_shard_map[Server(s)] = s
    BY <1>1, <1>2, <2>2 DEF OldRegistered
  <2> QED
    BY <1>3, <2>1, <2>2
<1>5. ASSUME NEW s \in pending_shard_to_destroy', NEW t \in pending_shard_to_destroy',
             Server(s) = Server(t)
      PROVE  s = t
  <2>1. \A u \in pending_shard_to_destroy : old_shard_map[Server(u)] = Unlisted
    BY <1>1 DEF PendingIsKept
  <2>2. \A u \in Shards : u # Unlisted
    BY ShardsAreServers
  <2>3. \A u, v \in pending_shard_to_destroy : Server(u) = Server(v) => u = v
    BY <1>1 DEF PendingIsKept
  <2> QED
    BY <1>3, <1>5, <2>1, <2>2, <2>3
<1> QED
  BY <1>3, <1>4, <1>5

\* Whoever was on a server the quadtree knows is on one it knows after the
\* rebuild: on the same one, or on the one its place was given.
LEMMA OwnersAfterRebuild ==
  ASSUME LayoutInv, NEW positions, NEW owners, NEW leaves, NEW kept, NEW gone,
         Consistent(positions, owners), mishaps = {} => Known(positions, owners),
         RebuildResult(positions, owners, leaves, kept, gone)
  PROVE  /\ Consistent(positions, entity_owners')
         /\ mishaps' = {} => Known(positions, entity_owners)'
<1>1. TypeOK /\ PendingIsKept /\ Registered /\ OneServed
  BY DEF LayoutInv
<1>2. leaves \subseteq Boundaries /\ shard_map' = RebuiltMap(leaves)
  BY DEF RebuildResult, Leaves
<1>3. /\ \A b \in Boundaries : shard_map'[b] # Unlisted <=> b \in leaves
      /\ \A b \in Boundaries : shard_map'[b] \in Shards =>
           \/ shard_map'[b] = shard_map[b]
           \/ shard_map'[b] \in pending_shard_to_destroy /\ Server(shard_map'[b]) = b
      /\ \A s \in pending_shard_to_destroy : Server(s) \in leaves => shard_map'[Server(s)] = s
      /\ \A b \in leaves : shard_map[b] \in Shards =>
           shard_map'[b] \in pending_shard_to_destroy \cup {shard_map[b]}
      /\ \A b \in Boundaries : shard_map'[b] \in Shards \cup {NoShard, Unlisted}
  BY <1>1, <1>2, RebuiltMapFacts DEF Registrations
<1>4. \A s \in Shards : Server(s) \in Boundaries /\ s # NoShard
  BY ShardsAreServers
<1>5. ASSUME NEW e \in Entities
      PROVE  \/ /\ entity_owners'[e] = owners[e]
                /\ owners[e] \in gone => \A b \in Boundaries :
                     positions[e] \in Inside[b] => shard_map'[b] \notin Shards
             \/ /\ owners[e] \in gone
                /\ \E b \in Boundaries : shard_map'[b] \in Shards /\ entity_owners'[e] = shard_map'[b]
  <2>1. entity_owners' = HandedOver(owners, positions, shard_map', gone)
    BY DEF RebuildResult
  <2> DEFINE P(b) == positions[e] \in Inside[b] /\ shard_map'[b] \in Shards
  <2>2. CASE owners[e] \in gone /\ \E b \in Boundaries : P(b)
    <3>1. entity_owners'[e] = shard_map'[CHOOSE b \in Boundaries : P(b)]
      BY <2>1, <2>2 DEF HandedOver
    <3>2. (CHOOSE b \in Boundaries : P(b)) \in Boundaries /\ P(CHOOSE b \in Boundaries : P(b))
      BY <2>2
    <3> QED
      BY <2>2, <3>1, <3>2
  <2>3. CASE ~(owners[e] \in gone /\ \E b \in Boundaries : P(b))
    BY <2>1, <2>3 DEF HandedOver
  <2> QED
    BY <2>2, <2>3
<1>6. gone \subseteq Shards
  BY <1>1 DEF RebuildResult, StillPending, MarkedPending, TypeOK
<1>7. Consistent(positions, entity_owners')
  <2>1. entity_owners' = [e \in Entities |-> entity_owners'[e]]
    BY DEF RebuildResult, HandedOver
  <2>2. ASSUME NEW e \in Entities
        PROVE  /\ entity_owners'[e] \in Shards \cup {NoShard}
               /\ entity_owners'[e] = NoShard <=> owners[e] = NoShard
    BY <1>4, <1>5, <1>6 DEF Consistent
  <2> QED
    BY <2>1, <2>2 DEF Consistent
<1>8. ASSUME mishaps' = {}, NEW e \in Entities, positions[e] # Nowhere
      PROVE  /\ entity_owners'[e] \in Shards /\ status'[entity_owners'[e]] = "up"
             /\ \/ entity_owners'[e] \in pending_shard_to_destroy'
                \/ shard_map'[Server(entity_owners'[e])] = entity_owners'[e]
  <2> DEFINE o == owners[e]
  <2>1. mishaps = {} /\ ~Late
    BY <1>8 DEF RebuildResult, Late
  <2>2. /\ o \in Shards /\ status[o] = "up"
        /\ o \in pending_shard_to_destroy \/ shard_map[Server(o)] = o
    BY <1>8, <2>1 DEF Known
  <2>3. \A s \in pending_shard_to_destroy : s \in Shards /\ status[s] = "up"
    BY <1>1, <2>1 DEF PendingIsKept, Late, TypeOK
  <2>4. ASSUME NEW b \in Boundaries, shard_map'[b] \in Shards
        PROVE  /\ Server(shard_map'[b]) = b /\ status[shard_map'[b]] = "up"
               /\ b \in leaves /\ status'[shard_map'[b]] = "up"
    <3>1. Server(shard_map'[b]) = b /\ status[shard_map'[b]] = "up"
      BY <1>1, <1>3, <2>1, <2>3, <2>4 DEF Registered
    <3>2. b \in leaves
      BY <1>3, <2>4, ShardsAreServers
    <3> QED
      BY <2>4, <3>1, <3>2 DEF RebuildResult
  <2>5. CASE o \in gone
    <3>1. positions[e] \in Places
      BY <1>8 DEF Consistent
    <3>2. PICK b \in leaves : positions[e] \in Inside[b]
      BY <3>1, LeavesCover DEF RebuildResult
    <3>3. b \in Boundaries /\ shard_map'[b] \in Shards
      BY <1>2, <1>3, <1>8, <2>5, <3>2 DEF RebuildResult
    <3>4. PICK c \in Boundaries : shard_map'[c] \in Shards /\ entity_owners'[e] = shard_map'[c]
      BY <1>5, <2>5, <3>2, <3>3
    <3> QED
      BY <2>4, <3>4
  <2>6. CASE o \notin gone
    <3>1. entity_owners'[e] = o /\ Server(o) \in Boundaries
      BY <1>4, <1>5, <2>2, <2>6
    <3>2. CASE Server(o) \in leaves
      <4>1. shard_map'[Server(o)] = o
        <5>1. CASE o \in pending_shard_to_destroy
          BY <1>3, <3>2, <5>1
        <5>2. CASE shard_map[Server(o)] = o
          <6>1. shard_map'[Server(o)] \in Shards
            BY <1>3, <2>2, <2>3, <3>2, <5>2
          <6>2. /\ Server(shard_map'[Server(o)]) = Server(o)
                /\ status[shard_map'[Server(o)]] = "up"
            BY <2>4, <3>1, <6>1
          <6> QED
            BY <1>1, <2>2, <6>1, <6>2 DEF OneServed
        <5> QED
          BY <2>2, <5>1, <5>2
      <4> QED
        BY <2>2, <2>4, <3>1, <4>1
    <3>3. CASE Server(o) \notin leaves
      <4>1. o \in StillPending(leaves) \cup MarkedPending(kept)
        <5>1. CASE o \in pending_shard_to_destroy
          BY <3>3, <5>1 DEF StillPending
        <5>2. CASE shard_map[Server(o)] = o
          <6>1. Server(o) \in kept /\ old_shard_map[Server(o)] = o
            BY <1>8, <2>2, <3>1, <3>3, <5>2 DEF RebuildResult
          <6> QED
            BY <2>2, <6>1 DEF MarkedPending
        <5> QED
          BY <2>2, <5>1, <5>2
      <4>2. o \in pending_shard_to_destroy' /\ Server(o) \in shard_set'
        BY <2>6, <4>1 DEF RebuildResult
      <4> QED
        BY <2>2, <3>1, <4>2 DEF RebuildResult
    <3> QED
      BY <3>2, <3>3
  <2> QED
    BY <2>5, <2>6
<1>9. mishaps' = {} => Known(positions, entity_owners)'
  BY <1>8 DEF Known
<1> QED
  BY <1>7, <1>9

\* A rebuild keeps the invariant, whatever players were spawned before it.
LEMMA RebuildStep ==
  ASSUME LayoutInv, NEW positions, NEW owners,
         Consistent(positions, owners), mishaps = {} => Known(positions, owners),
         Rebuild(positions, owners),
         entity_map' = positions, old_shard_map' = shard_map', flagged_for_rebuild' = FALSE,
         pending_players' \in [Entities -> Places \cup {Nowhere}], UNCHANGED << arrivals, moves >>
  PROVE  LayoutInv'
<1>1. TypeOK /\ PendingIsKept /\ Registered /\ OneServed
  BY DEF LayoutInv
<1>2. PICK leaves, kept, gone : RebuildResult(positions, owners, leaves, kept, gone)
  BY RebuildHasResult
<1>3. /\ leaves \subseteq Boundaries /\ kept \subseteq Boundaries
      /\ shard_map' = RebuiltMap(leaves) /\ leaves = Leaves(positions)
      /\ shard_set' = leaves \cup kept /\ ordered' = shard_set'
  BY <1>1, <1>2 DEF RebuildResult, Leaves, TypeOK
<1>4. /\ shard_map' \in Registrations
      /\ \A b \in Boundaries : shard_map'[b] # Unlisted <=> b \in leaves
      /\ \A b \in Boundaries : shard_map'[b] \in Shards =>
           \/ shard_map'[b] = shard_map[b]
           \/ shard_map'[b] \in pending_shard_to_destroy /\ Server(shard_map'[b]) = b
  BY <1>1, <1>3, RebuiltMapFacts
<1>5. /\ \A s \in pending_shard_to_destroy' :
           /\ s \in Shards /\ Server(s) \in shard_set' /\ Server(s) \notin leaves
           /\ status[s] = "up" \/ Late
      /\ \A s, t \in pending_shard_to_destroy' : Server(s) = Server(t) => s = t
  BY <1>2, PendingAfterRebuild
<1>6. Late => Late'
  BY <1>2 DEF RebuildResult, Late
<1>7. \A s \in Shards : Server(s) \in shard_set' => status'[s] = status[s]
  BY <1>2 DEF RebuildResult
<1>8. /\ Consistent(positions, entity_owners')
      /\ mishaps' = {} => Known(positions, entity_owners)'
  BY <1>2, OwnersAfterRebuild
<1>9. TypeOK'
  <2>1. /\ should_handle_pending_destructions' \in BOOLEAN
        /\ status' \in [Shards -> {"unborn", "starting", "up", "aborted", "stopping"}]
        /\ mishaps' \subseteq {"lateReport", "shardForgotten", "leafNotReady"}
    BY <1>2 DEF RebuildResult
  <2>2. entity_map' \in [Entities -> Places \cup {Nowhere}]
        /\ entity_owners' \in [Entities -> Shards \cup {NoShard}]
        /\ \A e \in Entities : entity_map'[e] = Nowhere <=> entity_owners'[e] = NoShard
    BY <1>8 DEF Consistent
  <2>3. pending_shard_to_destroy' \subseteq Shards
    BY <1>5
  <2>4. arrivals' \in 0..MaxArrivals /\ moves' \in 0..MaxMoves
    BY <1>1 DEF TypeOK
  <2>5. shard_set' \subseteq Boundaries /\ ordered' \subseteq Boundaries
    BY <1>3
  <2> QED
    BY <1>4, <2>1, <2>2, <2>3, <2>4, <2>5 DEF TypeOK
<1>10. LayoutIsSent'
  BY <1>3 DEF LayoutIsSent
<1>11. PendingIsKept'
  <2>1. ASSUME NEW s \in pending_shard_to_destroy'
        PROVE  /\ Server(s) \in ordered' /\ old_shard_map'[Server(s)] = Unlisted
               /\ status'[s] = "up" \/ "lateReport" \in mishaps'
    BY <1>3, <1>4, <1>5, <1>6, <1>7, ShardsAreServers DEF Late
  <2> QED
    BY <1>5, <2>1 DEF PendingIsKept
<1>12. OneShardPerPlace'
  BY <1>3, <1>4, OneLeafPerPlace DEF OneShardPerPlace
<1>13. Registered'
  <2>1. ASSUME NEW b \in Boundaries, shard_map'[b] \in Shards
        PROVE  Server(shard_map'[b]) = b /\ (status'[shard_map'[b]] = "up" \/ Late')
    <3>1. Server(shard_map'[b]) = b /\ (status[shard_map'[b]] = "up" \/ Late)
      BY <1>1, <1>4, <2>1 DEF Registered, PendingIsKept, Late
    <3>2. b \in shard_set'
      BY <1>3, <1>4, <2>1, ShardsAreServers
    <3> QED
      BY <1>6, <1>7, <2>1, <3>1, <3>2
  <2> QED
    BY <2>1 DEF Registered
<1>14. OldRegistered'
  BY <1>13 DEF Registered, OldRegistered
<1>15. ListedIsSent'
  BY <1>3, <1>4 DEF ListedIsSent
<1>16. OneServed'
  BY <1>1, <1>2 DEF OneServed, RebuildResult
<1>17. ChangesAreFlagged'
  BY <1>2 DEF ChangesAreFlagged, RebuildResult
<1>18. OwnersAreKnown'
  BY <1>8 DEF OwnersAreKnown, Known
<1> QED
  BY <1>9, <1>10, <1>11, <1>12, <1>13, <1>14, <1>15, <1>16, <1>17, <1>18 DEF LayoutInv
----------------------------------------------------------------------------
\* Players who are spawned are on registered servers.
LEMMA SpawnedAreKnown ==
  ASSUME LayoutInv, NEW on \in SpawnChoices
  PROVE  /\ Consistent(PositionsAfter(on), OwnersAfter(on))
         /\ mishaps = {} => Known(PositionsAfter(on), OwnersAfter(on))
<1>1. TypeOK /\ Registered /\ OwnersAreKnown
  BY DEF LayoutInv
<1>2. \A s \in Shards : s # NoShard /\ s # TimedOut
  BY ShardsAreServers
<1>3. ASSUME NEW e \in Spawned(on)
      PROVE  /\ pending_players[e] \in Places /\ pending_players[e] # Nowhere
             /\ on[e] \in Shards /\ \E b \in Boundaries : on[e] = shard_map[b]
  <2>1. e \in Waiting /\ on[e] \in Shards
    BY DEF Spawned
  <2>2. \E b \in Finds(pending_players[e]) : on[e] = shard_map[b]
    BY <1>2, <2>1 DEF SpawnChoices
  <2>3. pending_players[e] \in Places /\ pending_players[e] # Nowhere
    BY <1>1, <2>1 DEF Waiting, TypeOK
  <2> QED
    BY <2>1, <2>2, <2>3 DEF Finds
<1>4. Consistent(PositionsAfter(on), OwnersAfter(on))
  BY <1>1, <1>2, <1>3 DEF Consistent, PositionsAfter, OwnersAfter, TypeOK
<1>5. ASSUME mishaps = {}, NEW e \in Entities, PositionsAfter(on)[e] # Nowhere
      PROVE  /\ OwnersAfter(on)[e] \in Shards /\ status[OwnersAfter(on)[e]] = "up"
             /\ \/ OwnersAfter(on)[e] \in pending_shard_to_destroy
                \/ shard_map[Server(OwnersAfter(on)[e])] = OwnersAfter(on)[e]
  <2>1. CASE e \in Spawned(on)
    <3>1. OwnersAfter(on)[e] = on[e]
      BY <2>1 DEF OwnersAfter
    <3>2. PICK b \in Boundaries : on[e] = shard_map[b]
      BY <1>3, <2>1
    <3>3. on[e] \in Shards
      BY <1>3, <2>1
    <3>4. Server(on[e]) = b /\ status[on[e]] = "up"
      BY <1>1, <1>5, <3>2, <3>3 DEF Registered, Late
    <3> QED
      BY <3>1, <3>2, <3>3, <3>4
  <2>2. CASE e \notin Spawned(on)
    <3>1. OwnersAfter(on)[e] = entity_owners[e] /\ PositionsAfter(on)[e] = entity_map[e]
      BY <2>2 DEF OwnersAfter, PositionsAfter
    <3> QED
      BY <1>1, <1>5, <3>1 DEF OwnersAreKnown, Known
  <2> QED
    BY <2>1, <2>2
<1> QED
  BY <1>4, <1>5 DEF Known

\* A tick keeps the invariant, with a rebuild or without.
LEMMA TickStep == LayoutInv /\ Tick => LayoutInv'
<1> SUFFICES ASSUME LayoutInv, Tick PROVE LayoutInv'
  OBVIOUS
<1>1. PICK on \in SpawnChoices :
        \E positions \in {PositionsAfter(on)}, owners \in {OwnersAfter(on)},
           rebuild \in {NeedsRebuild(on)} :
          /\ entity_map' = positions
          /\ pending_players' = [e \in Entities |->
               IF e \in Waiting /\ on[e] = NoShard THEN pending_players[e] ELSE Nowhere]
          /\ \/ rebuild /\ Rebuild(positions, owners)
             \/ /\ ~rebuild /\ entity_owners' = owners
                /\ UNCHANGED << shard_set, shard_map, ordered, pending_shard_to_destroy,
                                should_handle_pending_destructions, status, mishaps >>
          /\ flagged_for_rebuild' = FALSE
          /\ old_shard_map' = shard_map'
          /\ UNCHANGED << arrivals, moves >>
  BY DEF Tick
<1>2. PICK positions \in {PositionsAfter(on)}, owners \in {OwnersAfter(on)},
           rebuild \in {NeedsRebuild(on)} :
        /\ entity_map' = positions
        /\ pending_players' = [e \in Entities |->
             IF e \in Waiting /\ on[e] = NoShard THEN pending_players[e] ELSE Nowhere]
        /\ \/ rebuild /\ Rebuild(positions, owners)
           \/ /\ ~rebuild /\ entity_owners' = owners
              /\ UNCHANGED << shard_set, shard_map, ordered, pending_shard_to_destroy,
                              should_handle_pending_destructions, status, mishaps >>
        /\ flagged_for_rebuild' = FALSE
        /\ old_shard_map' = shard_map'
        /\ UNCHANGED << arrivals, moves >>
  BY <1>1
<1>3. Consistent(positions, owners) /\ (mishaps = {} => Known(positions, owners))
  BY <1>2, SpawnedAreKnown
<1>4. pending_players' \in [Entities -> Places \cup {Nowhere}]
  BY <1>2 DEF LayoutInv, TypeOK
<1>5. CASE rebuild /\ Rebuild(positions, owners)
  BY <1>2, <1>3, <1>4, <1>5, RebuildStep
<1>6. CASE /\ ~rebuild /\ entity_owners' = owners
           /\ UNCHANGED << shard_set, shard_map, ordered, pending_shard_to_destroy,
                           should_handle_pending_destructions, status, mishaps >>
  <2>1. ~flagged_for_rebuild /\ ~should_handle_pending_destructions
    BY <1>2, <1>6 DEF NeedsRebuild
  <2>2. shard_map = old_shard_map /\ pending_shard_to_destroy = {}
    BY <2>1 DEF LayoutInv, ChangesAreFlagged
  <2>3. old_shard_map' = old_shard_map
    BY <1>2, <1>6, <2>2
  <2>4. TypeOK'
    BY <1>2, <1>3, <1>4, <1>6, <2>3 DEF LayoutInv, TypeOK, Consistent
  <2>5. OwnersAreKnown'
    BY <1>2, <1>3, <1>6 DEF OwnersAreKnown, Known
  <2>6. (LayoutIsSent /\ PendingIsKept /\ OneShardPerPlace)'
    BY <1>6, <2>3 DEF LayoutInv, LayoutIsSent, PendingIsKept, OneShardPerPlace
  <2>7. (Registered /\ OldRegistered /\ ListedIsSent /\ OneServed /\ ChangesAreFlagged)'
    BY <1>2, <1>6, <2>2, <2>3
    DEF LayoutInv, Registered, OldRegistered, ListedIsSent, OneServed, ChangesAreFlagged, Late
  <2> QED
    BY <2>4, <2>5, <2>6, <2>7 DEF LayoutInv
<1> QED
  BY <1>2, <1>5, <1>6

----------------------------------------------------------------------------
\* A server is started only where none is.
LEMMA SpawnServerStep ==
  ASSUME LayoutInv, NEW b \in Boundaries, SpawnServerForBoundary(b)
  PROVE  LayoutInv'
<1>1. PICK s \in Shards : /\ Server(s) = b /\ status[s] = "unborn"
                          /\ status' = [status EXCEPT ![s] = "starting"]
  BY DEF SpawnServerForBoundary
<1>2. /\ \A t \in Shards : t # s => status'[t] = status[t]
      /\ status'[s] = "starting"
      /\ status' \in [Shards -> {"unborn", "starting", "up", "aborted", "stopping"}]
  BY <1>1 DEF LayoutInv, TypeOK
<1>3. \A t \in Shards : status[t] = "up" => status'[t] = "up"
  BY <1>1, <1>2
<1>4. /\ UNCHANGED << entity_map, entity_owners, pending_players, arrivals, moves >>
      /\ UNCHANGED << shard_set, pending_shard_to_destroy, ordered, old_shard_map >>
      /\ UNCHANGED << shard_map, flagged_for_rebuild, should_handle_pending_destructions, mishaps >>
  BY DEF SpawnServerForBoundary, entityVars, layoutVars, flags
<1>5. TypeOK'
  BY <1>2, <1>4 DEF LayoutInv, TypeOK
<1>6. (LayoutIsSent /\ OneShardPerPlace /\ ListedIsSent /\ ChangesAreFlagged)'
  BY <1>4 DEF LayoutInv, LayoutIsSent, OneShardPerPlace, ListedIsSent, ChangesAreFlagged
<1>7. PendingIsKept'
  BY <1>3, <1>4 DEF LayoutInv, PendingIsKept, TypeOK
<1>8. (Registered /\ OldRegistered)'
  BY <1>3, <1>4 DEF LayoutInv, Registered, OldRegistered, Late
<1>9. OneServed'
  <2>1. \A t \in Shards : Server(t) = b => status[t] \notin {"starting", "up"}
    BY DEF SpawnServerForBoundary, Served
  <2> QED
    BY <1>1, <1>2, <2>1 DEF LayoutInv, OneServed
<1>10. OwnersAreKnown'
  BY <1>3, <1>4 DEF LayoutInv, OwnersAreKnown, Known
<1> QED
  BY <1>5, <1>6, <1>7, <1>8, <1>9, <1>10 DEF LayoutInv

\* A server that reports is registered for its boundary, or is late.
LEMMA ShardCreatedStep ==
  ASSUME LayoutInv, NEW s \in Shards, HandleShardCreated(s)
  PROVE  LayoutInv'
<1>1. /\ status[s] \in {"starting", "aborted"}
      /\ status' = [status EXCEPT ![s] = IF @ = "starting" THEN "up" ELSE "stopping"]
      /\ shard_map' = [shard_map EXCEPT ![Server(s)] = s]
      /\ flagged_for_rebuild' = TRUE /\ should_handle_pending_destructions' = TRUE
      /\ mishaps' = mishaps \cup {k \in {"lateReport"} : status[s] = "aborted"}
      /\ UNCHANGED << entity_map, entity_owners, pending_players, arrivals, moves >>
      /\ UNCHANGED << shard_set, pending_shard_to_destroy, ordered, old_shard_map >>
  BY DEF HandleShardCreated, entityVars, layoutVars
<1>2. Server(s) \in Boundaries
  BY ShardsAreServers
<1>3. /\ status' \in [Shards -> {"unborn", "starting", "up", "aborted", "stopping"}]
      /\ \A t \in Shards : t # s => status'[t] = status[t]
      /\ status'[s] = "up" \/ Late'
      /\ status'[s] \in {"starting", "up"} => status[s] = "starting"
      /\ Late => Late'
  BY <1>1 DEF LayoutInv, TypeOK, Late
<1>4. \A t \in Shards : status[t] = "up" => status'[t] = "up"
  BY <1>1, <1>3
<1>5. /\ shard_map' \in Registrations /\ shard_map'[Server(s)] = s
      /\ \A b \in Boundaries : b # Server(s) => shard_map'[b] = shard_map[b]
  BY <1>1, <1>2 DEF LayoutInv, TypeOK, Registrations
<1>6. TypeOK'
  <2>1. mishaps' \subseteq {"lateReport", "shardForgotten", "leafNotReady"}
    BY <1>1 DEF LayoutInv, TypeOK
  <2> QED
    BY <1>1, <1>3, <1>5, <2>1 DEF LayoutInv, TypeOK
<1>7. (LayoutIsSent /\ OneShardPerPlace /\ ListedIsSent /\ ChangesAreFlagged)'
  BY <1>1 DEF LayoutInv, LayoutIsSent, OneShardPerPlace, ListedIsSent, ChangesAreFlagged
<1>8. PendingIsKept'
  BY <1>1, <1>3, <1>4 DEF LayoutInv, PendingIsKept, TypeOK, Late
<1>9. Registered'
  BY <1>3, <1>4, <1>5 DEF LayoutInv, Registered
<1>10. OldRegistered'
  BY <1>1, <1>3, <1>4 DEF LayoutInv, OldRegistered
<1>11. OneServed'
  BY <1>3 DEF LayoutInv, OneServed
<1>12. OwnersAreKnown'
  <2>1. SUFFICES ASSUME mishaps' = {}, NEW e \in Entities, entity_map[e] # Nowhere
                 PROVE  /\ entity_owners[e] \in Shards /\ status'[entity_owners[e]] = "up"
                        /\ \/ entity_owners[e] \in pending_shard_to_destroy
                           \/ shard_map'[Server(entity_owners[e])] = entity_owners[e]
    BY <1>1 DEF OwnersAreKnown, Known
  <2> DEFINE o == entity_owners[e]
  <2>2. /\ mishaps = {} /\ status[s] = "starting"
    BY <1>1, <2>1
  <2>3. /\ o \in Shards /\ status[o] = "up"
        /\ o \in pending_shard_to_destroy \/ shard_map[Server(o)] = o
    BY <2>1, <2>2 DEF LayoutInv, OwnersAreKnown, Known
  <2>4. Server(o) # Server(s)
    BY <2>2, <2>3 DEF LayoutInv, OneServed
  <2> QED
    BY <1>4, <1>5, <2>3, <2>4, ShardsAreServers
<1> QED
  BY <1>6, <1>7, <1>8, <1>9, <1>10, <1>11, <1>12 DEF LayoutInv

\* Steps that leave the layout and the servers alone.
LEMMA EntityStep ==
  ASSUME LayoutInv, TypeOK', OwnersAreKnown',
         UNCHANGED << shard_set, pending_shard_to_destroy, ordered, old_shard_map >>,
         UNCHANGED << shard_map, should_handle_pending_destructions, status, mishaps >>,
         flagged_for_rebuild => flagged_for_rebuild'
  PROVE  LayoutInv'
<1>1. (LayoutIsSent /\ PendingIsKept /\ OneShardPerPlace /\ ListedIsSent)'
  BY DEF LayoutInv, LayoutIsSent, PendingIsKept, OneShardPerPlace, ListedIsSent
<1>2. (Registered /\ OldRegistered /\ OneServed)'
  BY DEF LayoutInv, Registered, OldRegistered, OneServed, Late
<1>3. ChangesAreFlagged'
  BY DEF LayoutInv, ChangesAreFlagged
<1> QED
  BY <1>1, <1>2, <1>3 DEF LayoutInv

\* A player that waits has no owner.
LEMMA StartingPositionStep ==
  ASSUME LayoutInv, NEW e \in Entities, NEW p \in Starts, HandlePlayerStartingPosition(e, p)
  PROVE  LayoutInv'
<1>1. p \in Places
  BY LayoutAssumption
<1>2. TypeOK'
  BY <1>1, LayoutAssumption
  DEF HandlePlayerStartingPosition, layoutVars, flags, LayoutInv, TypeOK
<1>3. OwnersAreKnown'
  BY DEF HandlePlayerStartingPosition, layoutVars, LayoutInv, OwnersAreKnown, Known
<1> QED
  BY <1>2, <1>3, EntityStep DEF HandlePlayerStartingPosition, layoutVars, flags

\* A handoff gives the entity to a server that is registered.
LEMMA PositionUpdateStep ==
  ASSUME LayoutInv, NEW e \in Entities, NEW p \in Places, HandleEntityPositionUpdate(e, p)
  PROVE  LayoutInv'
<1>1. PICK new \in Finds(p) :
        entity_owners' = [entity_owners EXCEPT ![e] = AfterHandoff(@, p, new)]
  BY DEF HandleEntityPositionUpdate
<1>2. new \in Boundaries
  BY <1>1 DEF Finds
<1>3. entity_map[e] # Nowhere /\ entity_map' = [entity_map EXCEPT ![e] = p] /\ p # Nowhere
  BY LayoutAssumption DEF HandleEntityPositionUpdate
<1>4. entity_owners[e] \in Shards /\ \A s \in Shards : s # NoShard
  BY <1>3, ShardsAreServers DEF LayoutInv, TypeOK
<1>5. \/ entity_owners'[e] = entity_owners[e]
      \/ entity_owners'[e] \in Shards /\ entity_owners'[e] = shard_map[new]
  BY <1>1 DEF AfterHandoff, LayoutInv, TypeOK
<1>6. \A d \in Entities : d # e => entity_owners'[d] = entity_owners[d] /\ entity_map'[d] = entity_map[d]
  BY <1>1, <1>3 DEF LayoutInv, TypeOK
<1>7. TypeOK'
  <2>1. entity_map' \in [Entities -> Places \cup {Nowhere}] /\ entity_map'[e] = p
    BY <1>3 DEF LayoutInv, TypeOK
  <2>2. entity_owners' \in [Entities -> Shards \cup {NoShard}]
    BY <1>1, <1>4, <1>5 DEF LayoutInv, TypeOK
  <2>3. \A d \in Entities : entity_map'[d] = Nowhere <=> entity_owners'[d] = NoShard
    BY <1>3, <1>4, <1>5, <1>6, <2>1 DEF LayoutInv, TypeOK
  <2>4. flagged_for_rebuild' \in BOOLEAN
    BY DEF HandleEntityPositionUpdate, LayoutInv, TypeOK
  <2>5. moves' \in 0..MaxMoves
    BY LayoutAssumption DEF HandleEntityPositionUpdate, LayoutInv, TypeOK
  <2> QED
    BY <2>1, <2>2, <2>3, <2>4, <2>5 DEF HandleEntityPositionUpdate, layoutVars, LayoutInv, TypeOK
<1>8. OwnersAreKnown'
  <2>1. /\ UNCHANGED << pending_shard_to_destroy, shard_map, status, mishaps >>
    BY DEF HandleEntityPositionUpdate, layoutVars
  <2>2. SUFFICES ASSUME mishaps = {}, NEW d \in Entities, entity_map'[d] # Nowhere
                 PROVE  /\ entity_owners'[d] \in Shards /\ status[entity_owners'[d]] = "up"
                        /\ \/ entity_owners'[d] \in pending_shard_to_destroy
                           \/ shard_map[Server(entity_owners'[d])] = entity_owners'[d]
    BY <2>1 DEF OwnersAreKnown, Known
  <2>3. Known(entity_map, entity_owners)
    BY <2>2 DEF LayoutInv, OwnersAreKnown
  <2>4. CASE entity_owners'[d] = entity_owners[d] /\ entity_map[d] # Nowhere
    BY <2>3, <2>4 DEF Known
  <2>5. CASE entity_owners'[d] \in Shards /\ entity_owners'[d] = shard_map[new]
    BY <1>2, <2>2, <2>5 DEF LayoutInv, Registered, Late
  <2> QED
    BY <1>3, <1>5, <1>6, <2>2, <2>4, <2>5
<1>9. flagged_for_rebuild => flagged_for_rebuild'
  BY DEF HandleEntityPositionUpdate
<1> QED
  BY <1>7, <1>8, <1>9, EntityStep DEF HandleEntityPositionUpdate, layoutVars

\* Who leaves has no owner.
LEMMA DisconnectStep ==
  ASSUME LayoutInv, NEW e \in Entities, HandleDisconnect(e)
  PROVE  LayoutInv'
<1>1. TypeOK'
  BY DEF HandleDisconnect, layoutVars, LayoutInv, TypeOK
<1>2. OwnersAreKnown'
  BY DEF HandleDisconnect, layoutVars, LayoutInv, TypeOK, OwnersAreKnown, Known
<1> QED
  BY <1>1, <1>2, EntityStep DEF HandleDisconnect, layoutVars
----------------------------------------------------------------------------
\* The world is one boundary without a server at first.
LEMMA LayoutInit == Init => LayoutInv
<1> SUFFICES ASSUME Init PROVE LayoutInv
  OBVIOUS
<1>1. Root \in Boundaries /\ \A p \in Places : p \in Inside[Root]
  BY LayoutAssumption
<1>2. NoShard # Unlisted /\ \A s \in Shards : s # NoShard /\ s # Unlisted
  BY ShardsAreServers, LayoutAssumption
<1>3. \A b \in Boundaries : shard_map[b] = IF b = Root THEN NoShard ELSE Unlisted
  BY DEF Init
<1>4. TypeOK
  <2>1. arrivals \in 0..MaxArrivals /\ moves \in 0..MaxMoves
    BY LayoutAssumption DEF Init
  <2>2. shard_map \in Registrations /\ old_shard_map \in Registrations
    BY DEF Init, Registrations
  <2>3. \A e \in Entities : entity_map[e] = Nowhere /\ entity_owners[e] = NoShard
    BY DEF Init
  <2>4. /\ entity_map \in [Entities -> Places \cup {Nowhere}]
        /\ entity_owners \in [Entities -> Shards \cup {NoShard}]
        /\ pending_players \in [Entities -> Places \cup {Nowhere}]
    BY DEF Init
  <2>5. status \in [Shards -> {"unborn", "starting", "up", "aborted", "stopping"}]
    BY DEF Init
  <2>6. /\ shard_set \subseteq Boundaries /\ ordered \subseteq Boundaries
        /\ pending_shard_to_destroy \subseteq Shards /\ mishaps = {}
        /\ flagged_for_rebuild \in BOOLEAN /\ should_handle_pending_destructions \in BOOLEAN
    BY <1>1 DEF Init
  <2> QED
    BY <2>1, <2>2, <2>3, <2>4, <2>5, <2>6 DEF TypeOK
<1>5. OneShardPerPlace
  BY <1>1, <1>2, <1>3 DEF Init, OneShardPerPlace
<1>6. LayoutIsSent /\ PendingIsKept
  BY DEF Init, LayoutIsSent, PendingIsKept
<1>7. Registered /\ OldRegistered
  BY <1>2, <1>3 DEF Init, Registered, OldRegistered
<1>8. ListedIsSent
  BY <1>3 DEF Init, ListedIsSent
<1>9. OneServed
  BY DEF Init, OneServed
<1>10. ChangesAreFlagged
  BY DEF Init, ChangesAreFlagged
<1>11. OwnersAreKnown
  BY DEF Init, OwnersAreKnown, Known
<1> QED
  BY <1>4, <1>5, <1>6, <1>7, <1>8, <1>9, <1>10, <1>11 DEF LayoutInv

\* Every step keeps the invariant.
LEMMA LayoutStep == LayoutInv /\ [Next]_vars => LayoutInv'
<1> SUFFICES ASSUME LayoutInv, [Next]_vars PROVE LayoutInv'
  OBVIOUS
<1>1. CASE Tick
  BY <1>1, TickStep
<1>2. ASSUME NEW b \in Boundaries, SpawnServerForBoundary(b) PROVE LayoutInv'
  BY <1>2, SpawnServerStep
<1>3. ASSUME NEW s \in Shards, HandleShardCreated(s) PROVE LayoutInv'
  BY <1>3, ShardCreatedStep
<1>4. ASSUME NEW e \in Entities, HandleDisconnect(e) PROVE LayoutInv'
  BY <1>4, DisconnectStep
<1>5. ASSUME NEW e \in Entities, NEW p \in Starts, HandlePlayerStartingPosition(e, p)
      PROVE  LayoutInv'
  BY <1>5, StartingPositionStep
<1>6. ASSUME NEW e \in Entities, NEW p \in Places, HandleEntityPositionUpdate(e, p)
      PROVE  LayoutInv'
  BY <1>6, PositionUpdateStep
<1>7. CASE UNCHANGED vars
  <2>1. TypeOK' /\ OwnersAreKnown'
    BY <1>7 DEF vars, LayoutInv, TypeOK, OwnersAreKnown, Known
  <2> QED
    BY <1>7, <2>1, EntityStep DEF vars
<1> QED
  BY <1>1, <1>2, <1>3, <1>4, <1>5, <1>6, <1>7 DEF Next

\* The invariant holds in every behaviour.
LEMMA LayoutInvariant == Spec => []LayoutInv
BY LayoutInit, LayoutStep, PTL DEF Spec

\* Every table of the quadtree keeps its type, uuids where one is unwrapped
\* included, and exactly the entities with a position have an owner.
THEOREM LayoutType == Spec => []TypeOK
<1>1. LayoutInv => TypeOK
  BY DEF LayoutInv
<1> QED
  BY <1>1, LayoutInvariant, PTL

\* The orchestrator always has the layout the quadtree works with.
THEOREM OrchestratorKnowsLayout == Spec => []LayoutIsSent
<1>1. LayoutInv => LayoutIsSent
  BY DEF LayoutInv
<1> QED
  BY <1>1, LayoutInvariant, PTL

\* A shard that was marked to go is ordered, and runs, until it hands over.
THEOREM PendingShardsAreKept == Spec => []PendingIsKept
<1>1. LayoutInv => PendingIsKept
  BY DEF LayoutInv
<1> QED
  BY <1>1, LayoutInvariant, PTL

\* At the end of a tick the entries of shard_map divide the world.
THEOREM ShardsDivideTheWorld == Spec => []OneShardPerPlace
<1>1. LayoutInv => OneShardPerPlace
  BY DEF LayoutInv
<1> QED
  BY <1>1, LayoutInvariant, PTL

\* Outside the three races nobody is left on a server that is told to stop.
THEOREM OwnersKeepRunning == Spec => []OwnersAreKept
<1>1. LayoutInv => OwnersAreKept
  BY DEF LayoutInv, OwnersAreKnown, Known, OwnersAreKept, OwnerIsUp
<1> QED
  BY <1>1, LayoutInvariant, PTL
=============================================================================
