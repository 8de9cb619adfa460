--------------------------- MODULE HandoffProofs ---------------------------
(***************************************************************************)
(* Theorems about Handoff for every layout and every value of the bounds.  *)
(***************************************************************************)
EXTENDS Handoff, SequenceTheorems, TLAPS

\* The broadcasts a shard can get are well formed.
LEMMA MessageTypes ==
  /\ \A p \in Positions : PosMsg(p) \in ShardMessages /\ PosMsg(p) \in QuadtreeMessages
  /\ \A s \in Shards : ReleaseMsg(s) \in ShardMessages
  /\ {SpawnMsg, ClaimMsg, DisconnectMsg, KilledMsg} \subseteq ShardMessages
  /\ DisconnectMsg \in QuadtreeMessages
BY DEF ShardMessages, QuadtreeMessages

\* What a received broadcast carries.
LEMMA MessageFields ==
  \A m \in ShardMessages :
    /\ m.type = "Position" => m.pos \in Positions
    /\ m.type = "Release" => m.to \in Shards
BY DEF ShardMessages, PosMsg, ReleaseMsg, SpawnMsg, ClaimMsg, DisconnectMsg, KilledMsg

\* A position the quadtree is sent is a position.
LEMMA QuadtreeFields ==
  \A m \in QuadtreeMessages : m.type = "Position" => m.pos \in Positions
BY DEF QuadtreeMessages, PosMsg, DisconnectMsg

\* Delivery appends to the queues of the subscribers.
LEMMA DeliverType ==
  ASSUME NEW S, NEW m \in ShardMessages, down \in [Shards -> Seq(ShardMessages)]
  PROVE  Deliver(S, m) \in [Shards -> Seq(ShardMessages)]
BY DEF Deliver

\* Reading a broadcast leaves a well-formed queue.
LEMMA ReceiveType ==
  ASSUME TypeOK, NEW s \in Shards, NEW k, Receive(s, k)
  PROVE  /\ down' \in [Shards -> Seq(ShardMessages)]
         /\ Head(down[s]) \in ShardMessages
         /\ Head(down[s]).type = k
BY DEF TypeOK, Receive

\* No commands are commands.
LEMMA NoCommandsType == NoCommands \in Commands
BY DEF NoCommands, Commands

\* The copies a shard owns can be counted.
LEMMA OwnedType ==
  ASSUME TypeOK, NEW s \in Shards
  PROVE  /\ world[s].local \in Nat /\ commands[s].joined \in Nat
         /\ commands[s].claim \in Nat /\ Owned(s) \in Nat
<1>1. commands[s] \in Commands /\ world[s] \in [local : Nat, ghost : Nat]
  BY DEF TypeOK
<1>2. commands[s].joined \in Nat /\ commands[s].claim \in Nat /\ world[s].local \in Nat
  BY <1>1 DEF Commands
<1> QED
  BY <1>2 DEF Owned

\* What a tick counts before it marks or despawns anything: no count is
\* negative, and what the claims leave local is what the shard owns.
LEMMA ClaimCounts ==
  ASSUME TypeOK, NEW s \in Shards
  PROVE  /\ SpawnedLocal(s) \in Nat /\ Claimed(s) \in {0, 1}
         /\ AfterClaim(s) \in [local : Nat, ghost : Nat]
         /\ AfterClaim(s).local = SpawnedLocal(s) + Claimed(s)
         /\ AfterClaim(s).local <= Owned(s)
<1>1. commands[s] \in Commands /\ world[s] \in [local : Nat, ghost : Nat]
  BY DEF TypeOK
<1>2. /\ commands[s].joined \in Nat /\ commands[s].ghostJoined \in Nat
      /\ commands[s].claim \in Nat /\ world[s].local \in Nat /\ world[s].ghost \in Nat
  BY <1>1 DEF Commands
<1>3. /\ SpawnedLocal(s) \in Nat /\ SpawnedGhost(s) \in Nat
      /\ Owned(s) = SpawnedLocal(s) + commands[s].claim
  BY <1>2 DEF SpawnedLocal, SpawnedGhost, Owned
<1>4. Claimed(s) \in {0, 1} /\ Claimed(s) <= SpawnedGhost(s) /\ Claimed(s) <= commands[s].claim
  BY <1>2, <1>3 DEF Claimed
<1> QED
  BY <1>2, <1>3, <1>4 DEF AfterClaim

\* Despawning keeps the copies of a world.
LEMMA DespawnType ==
  ASSUME NEW s, NEW w \in [local : Nat, ghost : Nat], NEW v \in AfterDespawn(s, w)
  PROVE  v \in [local : Nat, ghost : Nat] /\ v.local <= w.local
<1> DEFINE L == [w EXCEPT !.local = IF @ > 0 THEN @ - 1 ELSE @]
           G == [w EXCEPT !.ghost = IF @ > 0 THEN @ - 1 ELSE @]
<1>1. /\ L \in [local : Nat, ghost : Nat] /\ L.local <= w.local
      /\ G \in [local : Nat, ghost : Nat] /\ G.local <= w.local
  OBVIOUS
<1> QED
  BY <1>1 DEF AfterDespawn

\* A copy is marked only for a release and only when there is one.
LEMMA MarkedType ==
  ASSUME NEW s, NEW n \in Nat
  PROVE  /\ Marked(s, n) \in {0, 1} /\ Marked(s, n) <= n
         /\ Marked(s, n) = 1 => Released(s)
         /\ Released(s) /\ n > 0 => Marked(s, n) = 1
BY DEF Marked

\* The orders in which a tick can run its systems.
LEMMA OutcomeCases ==
  ASSUME NEW s, NEW time, NEW o \in Outcomes(s, time)
  PROVE  \/ o \in MarkFirst(s, SpawnedLocal(s))
         \/ o \in MarkFirst(s, SpawnedLocal(s) + Claimed(s))
         \/ o \in DespawnFirst(s)
BY DEF Outcomes

\* What the shard keeps after a tick, in whatever order the systems run: at most
\* what it owned and, if it marked a copy, one less.  A position is published
\* only for a copy that is still there or has just been marked.
LEMMA OutcomeType ==
  ASSUME TypeOK, NEW s \in Shards, NEW time, NEW o \in Outcomes(s, time)
  PROVE  /\ o.world \in [local : Nat, ghost : Nat]
         /\ o.marked \in {0, 1}
         /\ o.marked = 1 => Released(s)
         /\ o.world.local + o.marked <= Owned(s)
         /\ o.publishes => o.world.local > 0 \/ o.marked = 1
<1> DEFINE a == AfterClaim(s)
<1>1. /\ SpawnedLocal(s) \in Nat /\ Claimed(s) \in {0, 1}
      /\ a \in [local : Nat, ghost : Nat]
      /\ a.local = SpawnedLocal(s) + Claimed(s) /\ a.local <= Owned(s) /\ Owned(s) \in Nat
  BY ClaimCounts, OwnedType
<1> HIDE DEF a
<1>2. ASSUME NEW w \in [local : Nat, ghost : Nat], NEW m \in {0, 1}, m <= w.local
      PROVE  Ghosted(w, m) \in [local : Nat, ghost : Nat] /\ Ghosted(w, m).local = w.local - m
  BY <1>2 DEF Ghosted
<1>3. ASSUME NEW n \in Nat, n <= a.local, o \in MarkFirst(s, n)
      PROVE  /\ o.world \in [local : Nat, ghost : Nat]
             /\ o.marked \in {0, 1} /\ (o.marked = 1 => Released(s))
             /\ o.world.local + o.marked <= a.local
             /\ o.publishes => o.world.local > 0 \/ o.marked = 1
  <2>1. PICK w \in AfterDespawn(s, Ghosted(a, Marked(s, n))) :
          o = [marked |-> Marked(s, n), publishes |-> w.local > 0, world |-> w]
    BY <1>3 DEF MarkFirst, a
  <2>0. o.marked = Marked(s, n) /\ o.world = w /\ o.publishes = (w.local > 0)
    BY <2>1
  <2>2. /\ Marked(s, n) \in {0, 1} /\ Marked(s, n) <= n
        /\ Marked(s, n) = 1 => Released(s)
    BY MarkedType
  <2>3. Marked(s, n) <= a.local
    BY <1>1, <1>3, <2>2
  <2>4. /\ Ghosted(a, Marked(s, n)) \in [local : Nat, ghost : Nat]
        /\ Ghosted(a, Marked(s, n)).local = a.local - Marked(s, n)
    BY <1>1, <1>2, <2>2, <2>3
  <2>5. w \in [local : Nat, ghost : Nat] /\ w.local <= a.local - Marked(s, n)
    BY <2>4, DespawnType
  <2>6. o.marked \in {0, 1} /\ (o.marked = 1 => Released(s)) /\ o.world \in [local : Nat, ghost : Nat]
    BY <2>0, <2>2, <2>5
  <2>7. o.world.local + o.marked <= a.local
    <3>1. a.local \in Nat /\ w.local \in Nat
      BY <1>1, <2>5
    <3> QED
      BY <2>0, <2>2, <2>5, <3>1
  <2>8. o.publishes => o.world.local > 0
    BY <2>0
  <2> QED
    BY <2>6, <2>7, <2>8
<1>4. ASSUME o \in DespawnFirst(s)
      PROVE  /\ o.world \in [local : Nat, ghost : Nat]
             /\ o.marked \in {0, 1} /\ (o.marked = 1 => Released(s))
             /\ o.world.local + o.marked <= a.local
             /\ o.publishes => o.world.local > 0 \/ o.marked = 1
  <2>1. PICK w \in AfterDespawn(s, a) :
          o = [marked |-> Marked(s, w.local), publishes |-> w.local > 0,
               world |-> Ghosted(w, Marked(s, w.local))]
    BY <1>4 DEF DespawnFirst, a
  <2>0. /\ o.marked = Marked(s, w.local) /\ o.world = Ghosted(w, Marked(s, w.local))
        /\ o.publishes = (w.local > 0)
    BY <2>1
  <2>2. w \in [local : Nat, ghost : Nat] /\ w.local <= a.local
    BY <1>1, DespawnType
  <2>3. /\ Marked(s, w.local) \in {0, 1} /\ Marked(s, w.local) <= w.local
        /\ Marked(s, w.local) = 1 => Released(s)
    BY <2>2, MarkedType
  <2>4. /\ Ghosted(w, Marked(s, w.local)) \in [local : Nat, ghost : Nat]
        /\ Ghosted(w, Marked(s, w.local)).local = w.local - Marked(s, w.local)
    BY <1>2, <2>2, <2>3
  <2>5. o.marked \in {0, 1} /\ (o.marked = 1 => Released(s)) /\ o.world \in [local : Nat, ghost : Nat]
    BY <2>0, <2>3, <2>4
  <2>6. o.world.local + o.marked <= a.local
    <3>1. a.local \in Nat /\ w.local \in Nat
      BY <1>1, <2>2
    <3> QED
      BY <2>0, <2>2, <2>3, <2>4, <3>1
  <2>7. o.publishes => o.world.local > 0 \/ o.marked = 1
    <3>1. CASE w.local > 0 /\ o.marked = 0
      <4>1. o.world.local = w.local - 0 /\ w.local \in Nat
        BY <2>0, <2>2, <2>4, <3>1
      <4> QED
        BY <3>1, <4>1
    <3> QED
      BY <2>0, <2>5, <3>1
  <2> QED
    BY <2>5, <2>6, <2>7
<1>5. SpawnedLocal(s) + Claimed(s) \in Nat /\ SpawnedLocal(s) <= a.local
  BY <1>1
<1>6. o.world.local + o.marked <= a.local => o.world.local + o.marked <= Owned(s)
  <2>1. o.world \in [local : Nat, ghost : Nat] /\ o.marked \in {0, 1}
    BY <1>1, <1>3, <1>4, <1>5, OutcomeCases
  <2> QED
    BY <1>1, <2>1
<1> QED
  BY <1>1, <1>3, <1>4, <1>5, <1>6, OutcomeCases

\* The claims of a tick are claims.
LEMMA CopiesType ==
  ASSUME NEW n \in Nat
  PROVE  /\ Copies(ClaimMsg, n) \in Seq(ShardMessages) /\ Len(Copies(ClaimMsg, n)) = n
         /\ \A j \in 1..n : Copies(ClaimMsg, n)[j].type = "Claim"
<1>1. ClaimMsg \in ShardMessages /\ ClaimMsg.type = "Claim"
  BY MessageTypes DEF ClaimMsg
<1> QED
  BY <1>1 DEF Copies

\* Queues with the claims of a tick are queues.
LEMMA ClaimsType ==
  ASSUME TypeOK, NEW s \in Shards, NEW Q \in [Shards -> Seq(ShardMessages)], NEW marked
  PROVE  WithClaims(Q, s, marked) \in [Shards -> Seq(ShardMessages)]
<1> SUFFICES ASSUME NEW r \in Shards
             PROVE  Q[r] \o Copies(ClaimMsg, commands[s].release[r]) \in Seq(ShardMessages)
  BY DEF WithClaims
<1>1. commands[s].release[r] \in Nat
  BY DEF TypeOK, Commands
<1>2. Copies(ClaimMsg, commands[s].release[r]) \in Seq(ShardMessages)
  BY <1>1, CopiesType
<1> QED
  BY <1>2

\* Queues with the position of a tick are queues.
LEMMA PublishedType ==
  ASSUME NEW Q \in [Shards -> Seq(ShardMessages)], NEW p \in Positions
  PROVE  WithPosition(Q, p) \in [Shards -> Seq(ShardMessages)]
BY MessageTypes DEF WithPosition

\* A tick, with the alternatives that make no difference to what follows merged.
LEMMA TickShape ==
  ASSUME NEW s \in Shards, Tick(s)
  PROVE  \E time, p, o :
           /\ p \in DiedTo(s) /\ o \in Outcomes(s, time)
           /\ world' = [world EXCEPT ![s] = o.world]
           /\ ctlSubs' = IF o.marked = 1 THEN ctlSubs \ {s} ELSE ctlSubs
           /\ \/ /\ o.publishes
                 /\ where' \in Moved(p)
                 /\ moves' = moves + (IF where' = p THEN 0 ELSE 1)
                 /\ qdown' = Append(qdown, PosMsg(p))
                 /\ \/ down' = WithClaims(WithPosition(down, p), s, o.marked)
                    \/ down' = WithPosition(WithClaims(down, s, o.marked), p)
              \/ /\ where' = p
                 /\ down' = WithClaims(down, s, o.marked)
                 /\ UNCHANGED << moves, qdown >>
<1>2. PICK time, p, o :
        /\ p \in DiedTo(s) /\ o \in Outcomes(s, time)
        /\ world' = [world EXCEPT ![s] = o.world]
        /\ ctlSubs' = IF o.marked = 1 THEN ctlSubs \ {s} ELSE ctlSubs
        /\ \/ /\ o.publishes
              /\ where' \in IF o.world.local > 0 THEN Moved(p) ELSE {p}
              /\ moves' = moves + (IF where' = p THEN 0 ELSE 1)
              /\ qdown' = Append(qdown, PosMsg(p))
              /\ down' = IF time = "afterPublish"
                         THEN WithClaims(WithPosition(down, p), s, o.marked)
                         ELSE WithPosition(WithClaims(down, s, o.marked), p)
           \/ /\ where' = p
              /\ down' = WithClaims(down, s, o.marked)
              /\ UNCHANGED << moves, qdown >>
  BY ZenonT(40) DEF Tick
<1>3. where' \in Moved(p)
  <2>1. p \in Moved(p)
    BY DEF Moved
  <2>2. where' \in Moved(p) \/ where' = p
    BY <1>2
  <2> QED
    BY <2>1, <2>2
<1>4. \/ /\ o.publishes
         /\ moves' = moves + (IF where' = p THEN 0 ELSE 1)
         /\ qdown' = Append(qdown, PosMsg(p))
         /\ \/ down' = WithClaims(WithPosition(down, p), s, o.marked)
            \/ down' = WithPosition(WithClaims(down, s, o.marked), p)
      \/ /\ where' = p
         /\ down' = WithClaims(down, s, o.marked)
         /\ UNCHANGED << moves, qdown >>
  BY <1>2
<1> QED
  BY Zenon, <1>2, <1>3, <1>4

\* Where a tick takes the entity is a position.
LEMMA PositionsType ==
  ASSUME TypeOK, NEW s \in Shards, NEW p \in DiedTo(s), NEW q \in Moved(p)
  PROVE  p \in Positions /\ q \in Positions
<1>1. p \in Positions
  BY LayoutAssumption DEF DiedTo, TypeOK
<1> QED
  BY <1>1, LayoutAssumption DEF Moved

\* Nothing is anywhere at first.
LEMMA TypeInit == Init => TypeOK
BY LayoutAssumption, NoCommandsType DEF Init, TypeOK

\* One command more of a kind.
LEMMA CommandTypes ==
  ASSUME TypeOK, NEW s \in Shards
  PROVE  /\ [commands EXCEPT ![s].joined = @ + 1] \in [Shards -> Commands]
         /\ [commands EXCEPT ![s].ghostJoined = @ + 1] \in [Shards -> Commands]
         /\ [commands EXCEPT ![s].left = @ + 1] \in [Shards -> Commands]
         /\ [commands EXCEPT ![s].claim = @ + 1] \in [Shards -> Commands]
         /\ [commands EXCEPT ![s].died = @ + 1] \in [Shards -> Commands]
         /\ \A r \in Shards :
              [commands EXCEPT ![s].release[r] = @ + 1] \in [Shards -> Commands]
<1>1. commands \in [Shards -> Commands] /\ commands[s] \in Commands
  BY DEF TypeOK
<1>2. \A c \in Commands :
        /\ [c EXCEPT !.joined = @ + 1] \in Commands
        /\ [c EXCEPT !.ghostJoined = @ + 1] \in Commands
        /\ [c EXCEPT !.left = @ + 1] \in Commands
        /\ [c EXCEPT !.claim = @ + 1] \in Commands
        /\ [c EXCEPT !.died = @ + 1] \in Commands
  BY DEF Commands
<1>3. \A c \in Commands : \A r \in Shards : [c EXCEPT !.release[r] = @ + 1] \in Commands
  BY DEF Commands
<1> QED
  BY <1>1, <1>2, <1>3

\* A message a shard reads keeps the types.
LEMMA ReceiveNextType ==
  ASSUME TypeOK, NEW s \in Shards, ReceiveNext(s)
  PROVE  TypeOK'
<1> DEFINE Updated == /\ registry' \in [Shards -> {"absent", "ghost", "local"}]
                      /\ commands' \in [Shards -> Commands]
                      /\ ctlSubs' \in SUBSET Shards
<1>1. ASSUME NEW k, Receive(s, k), Updated PROVE TypeOK'
  <2>1. down' \in [Shards -> Seq(ShardMessages)]
    BY <1>1, ReceiveType
  <2> QED
    BY <1>1, <2>1 DEF Receive, TypeOK, clientVars, quadtreeVars
<1>2. /\ commands \in [Shards -> Commands]
      /\ registry \in [Shards -> {"absent", "ghost", "local"}]
      /\ ctlSubs \in SUBSET Shards
  BY DEF TypeOK
<1> USE CommandTypes
<1>3. CASE HandleReceiveNewPlayer(s)
  <2>1. Updated
    BY ZenonT(40), <1>2, <1>3 DEF HandleReceiveNewPlayer
  <2> QED
    BY <1>1, <1>3, <2>1 DEF HandleReceiveNewPlayer
<1>4. CASE HandleGhostPosition(s)
  <2>1. \/ UNCHANGED << registry, commands >>
        \/ /\ registry' = [registry EXCEPT ![s] = "ghost"]
           /\ commands' = [commands EXCEPT ![s].ghostJoined = @ + 1]
        \/ /\ registry' = [registry EXCEPT ![s] = "absent"]
           /\ commands' = [commands EXCEPT ![s].left = @ + 1]
    BY <1>4 DEF HandleGhostPosition
  <2>2. ctlSubs' = ctlSubs
    BY <1>4 DEF HandleGhostPosition
  <2>3. Updated
    BY ZenonT(40), <1>2, <2>1, <2>2
  <2> QED
    BY <1>1, <1>4, <2>3 DEF HandleGhostPosition
<1>5. CASE HandleDisconnect(s)
  <2>1. Updated
    BY <1>2, <1>5 DEF HandleDisconnect
  <2> QED
    BY <1>1, <1>5, <2>1 DEF HandleDisconnect
<1>6. CASE HandleKilled(s)
  <2>1. Updated
    BY <1>2, <1>6 DEF HandleKilled
  <2> QED
    BY <1>1, <1>6, <2>1 DEF HandleKilled
<1>7. CASE HandleClaimOwnership(s)
  <2>1. Updated
    BY <1>2, <1>7 DEF HandleClaimOwnership
  <2> QED
    BY <1>1, <1>7, <2>1 DEF HandleClaimOwnership
<1>8. CASE HandleReleaseOwnership(s)
  <2>1. Head(down[s]) \in ShardMessages /\ Head(down[s]).type = "Release"
    BY <1>8, ReceiveType DEF HandleReleaseOwnership
  <2>2. Head(down[s]).to \in Shards
    BY <2>1, MessageFields
  <2>3. Updated
    BY <1>2, <1>8, <2>2 DEF HandleReleaseOwnership
  <2> QED
    BY <1>1, <1>8, <2>3 DEF HandleReleaseOwnership
<1> QED
  BY <1>3, <1>4, <1>5, <1>6, <1>7, <1>8 DEF ReceiveNext

\* A message the quadtree reads keeps the types.
LEMMA QuadtreeType ==
  ASSUME TypeOK, QuadtreeNext
  PROVE  TypeOK'
<1>1. CASE HandleEntityPositionUpdate
  <2>1. Head(qdown) \in QuadtreeMessages /\ qdown' \in Seq(QuadtreeMessages)
    BY <1>1 DEF HandleEntityPositionUpdate, TypeOK
  <2> DEFINE p == Head(qdown).pos
  <2>2. p \in Positions /\ ShardAt[p] \in Shards
    BY <1>1, <2>1, QuadtreeFields, LayoutAssumption DEF HandleEntityPositionUpdate
  <2>3. Deliver({entity_owners}, ReleaseMsg(ShardAt[p])) \in [Shards -> Seq(ShardMessages)]
    BY <2>2, MessageTypes, DeliverType DEF TypeOK
  <2>4. DesiredGhosts \in SUBSET Shards
    BY DEF DesiredGhosts
  <2> QED
    BY <1>1, <2>1, <2>2, <2>3, <2>4
    DEF HandleEntityPositionUpdate, TypeOK, clientVars, shardVars, quadtreeVars
<1>2. CASE QuadtreeDisconnect
  BY <1>2 DEF QuadtreeDisconnect, TypeOK, clientVars, shardVars
<1> QED
  BY <1>1, <1>2 DEF QuadtreeNext

\* A tick of a shard keeps the types.
LEMMA TickType ==
  ASSUME TypeOK, NEW s \in Shards, Tick(s)
  PROVE  TypeOK'
<1>2. PICK time, p, o :
        /\ p \in DiedTo(s) /\ o \in Outcomes(s, time)
        /\ world' = [world EXCEPT ![s] = o.world]
        /\ ctlSubs' = IF o.marked = 1 THEN ctlSubs \ {s} ELSE ctlSubs
        /\ \/ /\ where' \in Moved(p)
              /\ moves' = moves + (IF where' = p THEN 0 ELSE 1)
              /\ qdown' = Append(qdown, PosMsg(p))
              /\ \/ down' = WithClaims(WithPosition(down, p), s, o.marked)
                 \/ down' = WithPosition(WithClaims(down, s, o.marked), p)
           \/ /\ where' = p
              /\ down' = WithClaims(down, s, o.marked)
              /\ UNCHANGED << moves, qdown >>
  BY TickShape
<1>3. world' \in [Shards -> [local : Nat, ghost : Nat]]
  BY <1>2, OutcomeType DEF TypeOK
<1>4. p \in Positions /\ where' \in Positions
  <2>1. p \in Moved(p)
    BY DEF Moved
  <2> QED
    BY <1>2, <2>1, PositionsType
<1>5. down \in [Shards -> Seq(ShardMessages)] /\ qdown \in Seq(QuadtreeMessages)
  BY DEF TypeOK
<1>6. down' \in [Shards -> Seq(ShardMessages)]
  <2>1. WithPosition(down, p) \in [Shards -> Seq(ShardMessages)]
    BY <1>4, <1>5, PublishedType
  <2>2. WithClaims(down, s, o.marked) \in [Shards -> Seq(ShardMessages)]
    BY <1>5, ClaimsType
  <2>3. /\ WithClaims(WithPosition(down, p), s, o.marked) \in [Shards -> Seq(ShardMessages)]
        /\ WithPosition(WithClaims(down, s, o.marked), p) \in [Shards -> Seq(ShardMessages)]
    BY <1>4, <2>1, <2>2, ClaimsType, PublishedType
  <2> QED
    BY <1>2, <2>2, <2>3
<1>7. qdown' \in Seq(QuadtreeMessages)
  BY <1>2, <1>4, <1>5, MessageTypes
<1>8. races' \in SUBSET {"twoReleases", "staleRelease", "releaseAndLeft", "claimAndLeft"}
  BY DEF Tick, RacesOf, TypeOK
<1>9. commands' \in [Shards -> Commands]
  BY NoCommandsType DEF Tick, TypeOK
<1>10. moves' \in Nat /\ ctlSubs' \in SUBSET Shards
  BY <1>2 DEF TypeOK
<1> QED
  BY <1>3, <1>4, <1>6, <1>7, <1>8, <1>9, <1>10 DEF Tick, TypeOK, quadtreeVars

\* Every step keeps the types.
LEMMA TypeStep == TypeOK /\ [Next]_vars => TypeOK'
<1> SUFFICES ASSUME TypeOK, [Next]_vars PROVE TypeOK'
  OBVIOUS
<1>1. ASSUME NEW p \in Positions, SpawnPlayerOnShard(p) PROVE TypeOK'
  <2>1. ShardAt[p] \in Shards
    BY LayoutAssumption
  <2>2. Deliver(posSubs, PosMsg(p)) \in [Shards -> Seq(ShardMessages)]
    BY MessageTypes, DeliverType DEF TypeOK
  <2> QED
    BY SMTT(40), <1>1, <2>1, <2>2, MessageTypes DEF SpawnPlayerOnShard, TypeOK, shardVars
<1>2. CASE ClientDisconnects
  <2>1. /\ Deliver(ctlSubs, DisconnectMsg) \in [Shards -> Seq(ShardMessages)]
        /\ Append(qdown, DisconnectMsg) \in Seq(QuadtreeMessages)
    BY MessageTypes, DeliverType DEF TypeOK
  <2> QED
    BY <1>2, <2>1 DEF ClientDisconnects, TypeOK, quadtreeVars, shardVars
<1>3. CASE EntityKilled
  BY <1>3, MessageTypes, DeliverType DEF EntityKilled, TypeOK, quadtreeVars, shardVars
<1>4. CASE QuadtreeNext
  BY <1>4, QuadtreeType
<1>5. ASSUME NEW s \in Shards, ReceiveNext(s) PROVE TypeOK'
  BY <1>5, ReceiveNextType
<1>6. ASSUME NEW s \in Shards, Tick(s) PROVE TypeOK'
  BY <1>6, TickType
<1>7. CASE UNCHANGED vars
  BY <1>7 DEF vars, TypeOK
<1> QED
  BY <1>1, <1>2, <1>3, <1>4, <1>5, <1>6, <1>7 DEF Next

\* Every variable keeps its type; in particular no shard ever counts less than
\* zero copies of the entity.
THEOREM TypeCorrect == Spec => []TypeOK
BY TypeInit, TypeStep, PTL DEF Spec
----------------------------------------------------------------------------
(***************************************************************************)
(* One authority.  The invariant counts, for each shard, the copies and    *)
(* the commands about to make one, and says where a message that grants    *)
(* the authority may be.                                                   *)
(***************************************************************************)
Single(S) == \A i, j \in S : i = j

OneAt(s) ==
  /\ Owned(s) <= 1
  /\ Single(Grants(down[s]))
  /\ Grants(down[s]) # {} => Owned(s) = 0

OneHolder ==
  "twoReleases" \notin races =>
    /\ \A s \in Shards : OneAt(s)
    /\ \A s, r \in Shards : HasAuthority(s) /\ HasAuthority(r) => s = r

\* Before the player is spawned nobody has the authority.
NoneBeforeSpawn == player = "out" => \A s \in Shards : ~HasAuthority(s)

AuthorityInv == TypeOK /\ OneHolder /\ NoneBeforeSpawn

\* A message more counts for itself.
LEMMA GrantsAppend ==
  ASSUME NEW q \in Seq(ShardMessages), NEW m \in ShardMessages
  PROVE  /\ m.type \in {"Spawn", "Claim"} => Grants(Append(q, m)) = Grants(q) \cup {Len(q) + 1}
         /\ m.type \notin {"Spawn", "Claim"} => Grants(Append(q, m)) = Grants(q)
<1>1. Len(Append(q, m)) = Len(q) + 1 /\ Append(q, m)[Len(q) + 1] = m
  OBVIOUS
<1>2. \A i \in 1..Len(q) : Append(q, m)[i] = q[i]
  OBVIOUS
<1>3. Len(q) \in Nat
  OBVIOUS
<1>4. 1..(Len(q) + 1) = (1..Len(q)) \cup {Len(q) + 1}
  BY <1>3
<1> QED
  BY <1>1, <1>2, <1>3, <1>4 DEF Grants

\* A message read counts no more.
LEMMA GrantsTail ==
  ASSUME NEW q \in Seq(ShardMessages), q # << >>
  PROVE  /\ Head(q).type \in {"Spawn", "Claim"} => 1 \in Grants(q)
         /\ \A i \in Grants(Tail(q)) : i \in Nat /\ i + 1 \in Grants(q)
         /\ Head(q).type \in {"Spawn", "Claim"} /\ Single(Grants(q)) => Grants(Tail(q)) = {}
         /\ Single(Grants(q)) => Single(Grants(Tail(q)))
<1>1. Len(q) \in Nat /\ Len(q) > 0 /\ Head(q) = q[1] /\ Len(Tail(q)) = Len(q) - 1
  OBVIOUS
<1>2. \A i \in 1..Len(Tail(q)) : Tail(q)[i] = q[i + 1]
  OBVIOUS
<1>3. Head(q).type \in {"Spawn", "Claim"} => 1 \in Grants(q)
  BY <1>1 DEF Grants
<1>4. \A i \in Grants(Tail(q)) : i \in Nat /\ i >= 1 /\ i + 1 \in Grants(q)
  BY <1>1, <1>2 DEF Grants
<1> QED
  BY <1>3, <1>4 DEF Single

\* Delivering anything else gives nobody the authority.
LEMMA DeliverGrants ==
  ASSUME TypeOK, NEW S, NEW m \in ShardMessages, m.type \notin {"Spawn", "Claim"},
         NEW r \in Shards
  PROVE  Grants(Deliver(S, m)[r]) = Grants(down[r])
BY GrantsAppend DEF Deliver, TypeOK

\* The messages by their types.
LEMMA MessageKinds ==
  /\ \A p \in Positions : PosMsg(p).type = "Position"
  /\ \A s \in Shards : ReleaseMsg(s).type = "Release"
  /\ SpawnMsg.type = "Spawn" /\ ClaimMsg.type = "Claim"
  /\ DisconnectMsg.type = "Disconnect" /\ KilledMsg.type = "Killed"
BY DEF PosMsg, ReleaseMsg, SpawnMsg, ClaimMsg, DisconnectMsg, KilledMsg

\* A step that changes the holdings of one shard only, and gives it nothing
\* it could not have had, keeps the invariant.
LEMMA OneShardStep ==
  ASSUME AuthorityInv, TypeOK', NEW s \in Shards, races \subseteq races',
         player' = "out" => player = "out",
         \A r \in Shards : r # s => Owned(r)' = Owned(r) /\ Grants(down[r])' = Grants(down[r]),
         OneAt(s) => OneAt(s)',
         HasAuthority(s)' => HasAuthority(s)
  PROVE  AuthorityInv'
<1>1. \A r \in Shards : r # s => (OneAt(r)' <=> OneAt(r)) /\ (HasAuthority(r)' <=> HasAuthority(r))
  BY DEF OneAt, HasAuthority
<1>2. OneHolder'
  BY <1>1 DEF AuthorityInv, OneHolder
<1>3. NoneBeforeSpawn'
  BY <1>1 DEF AuthorityInv, NoneBeforeSpawn
<1> QED
  BY <1>2, <1>3 DEF AuthorityInv

\* A step that changes nobody's holdings.
LEMMA NoHoldingStep ==
  ASSUME AuthorityInv, TypeOK', races \subseteq races', player' = "out" => player = "out",
         \A r \in Shards : Owned(r)' = Owned(r) /\ Grants(down[r])' = Grants(down[r])
  PROVE  AuthorityInv'
<1>1. \A r \in Shards : (OneAt(r)' <=> OneAt(r)) /\ (HasAuthority(r)' <=> HasAuthority(r))
  BY DEF OneAt, HasAuthority
<1> QED
  BY <1>1 DEF AuthorityInv, OneHolder, NoneBeforeSpawn

\* A received broadcast that grants nothing leaves the holdings as they are.
LEMMA PlainReceive ==
  ASSUME AuthorityInv, TypeOK', NEW s \in Shards,
         NEW k \in {"Position", "Disconnect", "Killed", "Release"}, Receive(s, k),
         \A r \in Shards : Owned(r)' = Owned(r)
  PROVE  AuthorityInv'
<1>1. down[s] \in Seq(ShardMessages) /\ down[s] # << >>
  BY DEF Receive, AuthorityInv, TypeOK
<1>2. \A r \in Shards : r # s => down'[r] = down[r]
  BY DEF Receive, AuthorityInv, TypeOK
<1>3. down'[s] = Tail(down[s])
  BY DEF Receive, AuthorityInv, TypeOK
<1>4. /\ \A i \in Grants(Tail(down[s])) : i + 1 \in Grants(down[s])
      /\ Single(Grants(down[s])) => Single(Grants(Tail(down[s])))
  BY <1>1, GrantsTail
<1>5. OneAt(s) => OneAt(s)'
  BY <1>3, <1>4 DEF OneAt
<1>6. HasAuthority(s)' => HasAuthority(s)
  BY <1>3, <1>4 DEF HasAuthority
<1>7. races' = races /\ player' = player
  BY DEF Receive, clientVars
<1> QED
  BY <1>2, <1>5, <1>6, <1>7, OneShardStep

\* A broadcast that grants the authority turns into at most one command.
LEMMA GrantReceive ==
  ASSUME AuthorityInv, TypeOK', NEW s \in Shards,
         NEW k \in {"Spawn", "Claim"}, Receive(s, k),
         \A r \in Shards : r # s => Owned(r)' = Owned(r),
         Owned(s)' <= Owned(s) + 1
  PROVE  AuthorityInv'
<1>1. down[s] \in Seq(ShardMessages) /\ down[s] # << >> /\ Head(down[s]).type = k
  BY DEF Receive, AuthorityInv, TypeOK
<1>2. \A r \in Shards : r # s => down'[r] = down[r]
  BY DEF Receive, AuthorityInv, TypeOK
<1>3. down'[s] = Tail(down[s])
  BY DEF Receive, AuthorityInv, TypeOK
<1>4. /\ 1 \in Grants(down[s])
      /\ Single(Grants(down[s])) => Grants(Tail(down[s])) = {}
  BY <1>1, GrantsTail
<1>5. OneAt(s) => OneAt(s)'
  BY <1>3, <1>4 DEF OneAt, Single
<1>6. HasAuthority(s)
  BY <1>4 DEF HasAuthority
<1>7. races' = races /\ player' = player
  BY DEF Receive, clientVars
<1> QED
  BY <1>2, <1>5, <1>6, <1>7, OneShardStep

\* Reading a message moves the authority from the queue to a command.
LEMMA AuthorityReceive ==
  ASSUME AuthorityInv, NEW s \in Shards, ReceiveNext(s)
  PROVE  AuthorityInv'
<1>1. TypeOK /\ TypeOK'
  BY ReceiveNextType DEF AuthorityInv
<1>2. /\ commands \in [Shards -> Commands]
      /\ \A r \in Shards : /\ commands[r] \in Commands
                           /\ world[r].local \in Nat /\ commands[r].joined \in Nat
                           /\ commands[r].claim \in Nat /\ Owned(r) \in Nat
  BY <1>1, OwnedType DEF TypeOK
<1>3. CASE HandleReceiveNewPlayer(s)
  <2>1. world' = world /\ \/ commands' = commands
                          \/ commands' = [commands EXCEPT ![s].joined = @ + 1]
    BY <1>3 DEF HandleReceiveNewPlayer, Receive
  <2>2. \A r \in Shards : r # s => Owned(r)' = Owned(r)
    BY <1>2, <2>1 DEF Owned
  <2>3. Owned(s)' <= Owned(s) + 1
    BY <1>2, <2>1 DEF Owned, Commands
  <2> QED
    BY <1>1, <1>3, <2>2, <2>3, GrantReceive DEF HandleReceiveNewPlayer
<1>4. CASE HandleGhostPosition(s)
  <2>1. world' = world /\ \/ commands' = commands
                          \/ commands' = [commands EXCEPT ![s].ghostJoined = @ + 1]
                          \/ commands' = [commands EXCEPT ![s].left = @ + 1]
    BY <1>4 DEF HandleGhostPosition, Receive
  <2>2. \A r \in Shards : Owned(r)' = Owned(r)
    <3>1. CASE commands' = commands
      BY <2>1, <3>1 DEF Owned
    <3>2. CASE commands' = [commands EXCEPT ![s].ghostJoined = @ + 1]
      BY <1>2, <2>1, <3>2 DEF Owned, Commands
    <3>3. CASE commands' = [commands EXCEPT ![s].left = @ + 1]
      BY <1>2, <2>1, <3>3 DEF Owned, Commands
    <3> QED
      BY <2>1, <3>1, <3>2, <3>3
  <2> QED
    BY <1>1, <1>4, <2>2, PlainReceive DEF HandleGhostPosition
<1>5. CASE HandleDisconnect(s)
  <2>1. world' = world /\ commands' = [commands EXCEPT ![s].left = @ + 1]
    BY <1>5 DEF HandleDisconnect, Receive
  <2>2. \A r \in Shards : Owned(r)' = Owned(r)
    BY <1>2, <2>1 DEF Owned, Commands
  <2> QED
    BY <1>1, <1>5, <2>2, PlainReceive DEF HandleDisconnect
<1>6. CASE HandleKilled(s)
  <2>1. world' = world /\ commands' = [commands EXCEPT ![s].died = @ + 1]
    BY <1>6 DEF HandleKilled, Receive
  <2>2. \A r \in Shards : Owned(r)' = Owned(r)
    BY <1>2, <2>1 DEF Owned, Commands
  <2> QED
    BY <1>1, <1>6, <2>2, PlainReceive DEF HandleKilled
<1>7. CASE HandleClaimOwnership(s)
  <2>1. world' = world /\ commands' = [commands EXCEPT ![s].claim = @ + 1]
    BY <1>7 DEF HandleClaimOwnership, Receive
  <2>2. \A r \in Shards : r # s => Owned(r)' = Owned(r)
    BY <1>2, <2>1 DEF Owned
  <2>3. Owned(s)' <= Owned(s) + 1
    BY <1>2, <2>1 DEF Owned, Commands
  <2> QED
    BY <1>1, <1>7, <2>2, <2>3, GrantReceive DEF HandleClaimOwnership
<1>8. CASE HandleReleaseOwnership(s)
  <2>1. /\ world' = world
        /\ commands' = [commands EXCEPT ![s].release[Head(down[s]).to] = @ + 1]
    BY <1>8 DEF HandleReleaseOwnership, Receive
  <2>2. \A r \in Shards : /\ commands'[r].joined = commands[r].joined
                            /\ commands'[r].claim = commands[r].claim
    BY <1>2, <2>1 DEF Commands
  <2>3. \A r \in Shards : Owned(r)' = Owned(r)
    BY <2>1, <2>2 DEF Owned
  <2> QED
    BY <1>1, <1>8, <2>3, PlainReceive DEF HandleReleaseOwnership
<1> QED
  BY <1>3, <1>4, <1>5, <1>6, <1>7, <1>8 DEF ReceiveNext

Has(q, k) == \E i \in 1..Len(q) : q[i].type = k

\* What a queue has after one message more.
LEMMA HasAppend ==
  ASSUME NEW q \in Seq(ShardMessages), NEW m \in ShardMessages, NEW k, m.type # k
  PROVE  Has(Append(q, m), k) => Has(q, k)
<1>1. Len(Append(q, m)) = Len(q) + 1 /\ Append(q, m)[Len(q) + 1] = m /\ Len(q) \in Nat
  OBVIOUS
<1>2. \A i \in 1..Len(q) : Append(q, m)[i] = q[i]
  OBVIOUS
<1> QED
  BY <1>1, <1>2 DEF Has

\* What two queues have one after the other.
LEMMA HasConcat ==
  ASSUME NEW q \in Seq(ShardMessages), NEW c \in Seq(ShardMessages), NEW k,
         \A i \in 1..Len(c) : c[i].type # k
  PROVE  Has(q \o c, k) => Has(q, k)
<1>1. Len(q) \in Nat /\ Len(c) \in Nat /\ Len(q \o c) = Len(q) + Len(c)
  BY ConcatProperties
<1>2. \A i \in 1..(Len(q) + Len(c)) : (q \o c)[i] = IF i <= Len(q) THEN q[i] ELSE c[i - Len(q)]
  BY <1>1, ConcatProperties
<1>3. \A i \in 1..(Len(q) + Len(c)) : i <= Len(q) => i \in 1..Len(q)
  BY <1>1
<1>4. \A i \in 1..(Len(q) + Len(c)) : ~(i <= Len(q)) => i - Len(q) \in 1..Len(c)
  BY <1>1
<1> QED
  BY <1>1, <1>2, <1>3, <1>4 DEF Has

\* A message that is waiting stays the first one.
LEMMA FirstStays ==
  ASSUME NEW q \in Seq(ShardMessages), q # << >>, NEW c \in Seq(ShardMessages),
         NEW m \in ShardMessages
  PROVE  Head(q \o c) = Head(q) /\ Head(Append(q, m)) = Head(q) /\ q \o c # << >>
<1>1. Len(q) \in Nat \ {0} /\ Len(c) \in Nat
  OBVIOUS
<1>2. Len(q \o c) = Len(q) + Len(c) /\ (q \o c)[1] = q[1] /\ q \o c \in Seq(ShardMessages)
  BY <1>1, ConcatProperties
<1> QED
  BY <1>1, <1>2

\* The queue q became has one grant more.
OneGrantMore(q, became) == \E i : Grants(became) = Grants(q) \cup {i}

\* The claim that answers a release is the one grant more for the shard named.
LEMMA ClaimGrants ==
  ASSUME NEW s \in Shards, NEW Q \in [Shards -> Seq(ShardMessages)], NEW r \in Shards,
         commands[s].release[r] = 1
  PROVE  OneGrantMore(Q[r], WithClaims(Q, s, 1)[r])
<1> DEFINE q == Q[r]
<1>1. q \in Seq(ShardMessages) /\ ClaimMsg \in ShardMessages /\ ClaimMsg.type = "Claim"
  BY MessageTypes, MessageKinds
<1>2. WithClaims(Q, s, 1)[r] = q \o << ClaimMsg >>
  <2>1. Copies(ClaimMsg, 1) = << ClaimMsg >>
    BY DEF Copies
  <2> QED
    BY <2>1 DEF WithClaims
<1> HIDE DEF q
<1>3. q \o << ClaimMsg >> = Append(q, ClaimMsg)
  BY <1>1, AppendIsConcat
<1>4. Grants(Append(q, ClaimMsg)) = Grants(q) \cup {Len(q) + 1}
  BY <1>1, GrantsAppend
<1> QED
  BY <1>2, <1>3, <1>4 DEF q, OneGrantMore

\* What the claims of a tick add to a queue: nothing if nothing is marked or no
\* release names the shard, and no message of another kind.
LEMMA ClaimsQueues ==
  ASSUME TypeOK, NEW s \in Shards, NEW Q \in [Shards -> Seq(ShardMessages)], NEW marked, NEW r \in Shards
  PROVE  /\ marked # 1 \/ commands[s].release[r] = 0 => WithClaims(Q, s, marked)[r] = Q[r]
         /\ \A k \in {"Spawn", "Disconnect"} : Has(WithClaims(Q, s, marked)[r], k) => Has(Q[r], k)
         /\ Q[r] # << >> => WithClaims(Q, s, marked)[r] # << >> /\ Head(WithClaims(Q, s, marked)[r]) = Head(Q[r])
<1> DEFINE q == Q[r]
           c == Copies(ClaimMsg, commands[s].release[r])
<1>1. q \in Seq(ShardMessages) /\ ClaimMsg \in ShardMessages
  BY MessageTypes
<1>2. commands[s].release[r] \in Nat
  BY DEF TypeOK, Commands
<1>3. c \in Seq(ShardMessages) /\ \A i \in 1..Len(c) : c[i].type = "Claim"
  BY <1>2, CopiesType
<1>4. commands[s].release[r] = 0 => c = << >>
  BY DEF Copies
<1>5. WithClaims(Q, s, marked)[r] = IF marked = 1 THEN q \o c ELSE q
  BY DEF WithClaims
<1> HIDE DEF q, c
<1>6. q \o << >> = q
  BY <1>1, ConcatEmptySeq
<1>7. \A k \in {"Spawn", "Disconnect"} : Has(q \o c, k) => Has(q, k)
  BY <1>1, <1>3, HasConcat
<1>8. q # << >> => Head(q \o c) = Head(q) /\ q \o c # << >>
  BY <1>1, <1>3, FirstStays
<1>9. marked # 1 \/ commands[s].release[r] = 0 => WithClaims(Q, s, marked)[r] = q
  BY <1>4, <1>5, <1>6
<1> QED
  BY <1>5, <1>7, <1>8, <1>9 DEF q

\* What the position of a tick adds to a queue: nothing but itself.
LEMMA PositionQueues ==
  ASSUME NEW Q \in [Shards -> Seq(ShardMessages)], NEW p \in Positions, NEW r \in Shards
  PROVE  /\ Grants(WithPosition(Q, p)[r]) = Grants(Q[r])
         /\ \A k \in {"Spawn", "Disconnect"} : Has(WithPosition(Q, p)[r], k) => Has(Q[r], k)
         /\ Q[r] # << >> => WithPosition(Q, p)[r] # << >> /\ Head(WithPosition(Q, p)[r]) = Head(Q[r])
<1> DEFINE q == Q[r]
<1>1. q \in Seq(ShardMessages) /\ PosMsg(p) \in ShardMessages /\ PosMsg(p).type = "Position"
  BY MessageTypes, MessageKinds
<1>2. WithPosition(Q, p)[r] = IF r \in posSubs THEN Append(q, PosMsg(p)) ELSE q
  BY DEF WithPosition
<1> HIDE DEF q
<1>3. Grants(Append(q, PosMsg(p))) = Grants(q)
  BY <1>1, GrantsAppend
<1>4. \A k \in {"Spawn", "Disconnect"} : Has(Append(q, PosMsg(p)), k) => Has(q, k)
  BY <1>1, HasAppend
<1>5. q # << >> => Head(Append(q, PosMsg(p))) = Head(q) /\ Append(q, PosMsg(p)) # << >>
  BY <1>1, FirstStays
<1> QED
  BY <1>2, <1>3, <1>4, <1>5 DEF q

\* What a tick does to the copies, the subscriptions and the queues.
LEMMA TickQueues ==
  ASSUME TypeOK, NEW s \in Shards, Tick(s)
  PROVE  \E time, o :
           /\ o \in Outcomes(s, time)
           /\ world' = [world EXCEPT ![s] = o.world]
           /\ ctlSubs' = IF o.marked = 1 THEN ctlSubs \ {s} ELSE ctlSubs
           /\ \A r \in Shards :
                /\ o.marked # 1 \/ commands[s].release[r] = 0 => Grants(down'[r]) = Grants(down[r])
                /\ o.marked = 1 /\ commands[s].release[r] = 1
                     => OneGrantMore(down[r], down'[r])
                /\ \A k \in {"Spawn", "Disconnect"} : Has(down'[r], k) => Has(down[r], k)
                /\ down[r] # << >> => Head(down'[r]) = Head(down[r])
           /\ o.world.local = 0 /\ o.marked # 1 => down' = down /\ qdown' = qdown
<1>2. PICK time, p, o :
        /\ p \in DiedTo(s) /\ o \in Outcomes(s, time)
        /\ world' = [world EXCEPT ![s] = o.world]
        /\ ctlSubs' = IF o.marked = 1 THEN ctlSubs \ {s} ELSE ctlSubs
        /\ \/ /\ o.publishes
              /\ \/ down' = WithClaims(WithPosition(down, p), s, o.marked)
                 \/ down' = WithPosition(WithClaims(down, s, o.marked), p)
           \/ down' = WithClaims(down, s, o.marked) /\ qdown' = qdown
  BY TickShape
<1>3. p \in Positions /\ down \in [Shards -> Seq(ShardMessages)]
  <2>1. p \in Moved(p)
    BY DEF Moved
  <2> QED
    BY <1>2, <2>1, PositionsType DEF TypeOK
<1> DEFINE m == o.marked
           P == WithPosition(down, p)
           C == WithClaims(down, s, m)
<1>4. P \in [Shards -> Seq(ShardMessages)] /\ C \in [Shards -> Seq(ShardMessages)]
  BY <1>3, PublishedType, ClaimsType
<1>5. down' = WithClaims(P, s, m) \/ down' = WithPosition(C, p) \/ down' = C
  BY <1>2
<1> HIDE DEF m, P, C
<1>6. ASSUME NEW r \in Shards
      PROVE  /\ m # 1 \/ commands[s].release[r] = 0 => Grants(down'[r]) = Grants(down[r])
             /\ m = 1 /\ commands[s].release[r] = 1
                  => OneGrantMore(down[r], down'[r])
             /\ \A k \in {"Spawn", "Disconnect"} : Has(down'[r], k) => Has(down[r], k)
             /\ down[r] # << >> => Head(down'[r]) = Head(down[r])
  <2>1. /\ Grants(P[r]) = Grants(down[r])
        /\ \A k \in {"Spawn", "Disconnect"} : Has(P[r], k) => Has(down[r], k)
        /\ down[r] # << >> => P[r] # << >> /\ Head(P[r]) = Head(down[r])
    BY <1>3, PositionQueues DEF P
  <2>2. /\ m # 1 \/ commands[s].release[r] = 0 => C[r] = down[r]
        /\ \A k \in {"Spawn", "Disconnect"} : Has(C[r], k) => Has(down[r], k)
        /\ down[r] # << >> => C[r] # << >> /\ Head(C[r]) = Head(down[r])
    BY <1>3, ClaimsQueues DEF C
  <2>6. m = 1 /\ commands[s].release[r] = 1 => OneGrantMore(down[r], C[r])
    BY <1>3, ClaimGrants DEF C
  <2>3. CASE down' = C
    BY <2>2, <2>3, <2>6
  <2>4. CASE down' = WithPosition(C, p)
    <3>1. /\ Grants(down'[r]) = Grants(C[r])
          /\ \A k \in {"Spawn", "Disconnect"} : Has(down'[r], k) => Has(C[r], k)
          /\ C[r] # << >> => Head(down'[r]) = Head(C[r])
      <4>1. /\ Grants(WithPosition(C, p)[r]) = Grants(C[r])
            /\ \A k \in {"Spawn", "Disconnect"} : Has(WithPosition(C, p)[r], k) => Has(C[r], k)
            /\ C[r] # << >> => Head(WithPosition(C, p)[r]) = Head(C[r])
        BY <1>3, <1>4, PositionQueues
      <4> QED
        BY <2>4, <4>1
    <3> QED
      BY <2>2, <2>6, <3>1 DEF OneGrantMore
  <2>5. CASE down' = WithClaims(P, s, m)
    <3>1. /\ m # 1 \/ commands[s].release[r] = 0 => down'[r] = P[r]
          /\ m = 1 /\ commands[s].release[r] = 1
               => OneGrantMore(P[r], down'[r])
          /\ \A k \in {"Spawn", "Disconnect"} : Has(down'[r], k) => Has(P[r], k)
          /\ P[r] # << >> => Head(down'[r]) = Head(P[r])
      <4>0. P \in [Shards -> Seq(ShardMessages)]
        BY <1>4
      <4>1. m # 1 \/ commands[s].release[r] = 0 => WithClaims(P, s, m)[r] = P[r]
        BY <4>0, ClaimsQueues
      <4>2. m = 1 /\ commands[s].release[r] = 1
              => OneGrantMore(P[r], WithClaims(P, s, m)[r])
        BY <4>0, ClaimGrants
      <4>3. \A k \in {"Spawn", "Disconnect"} : Has(WithClaims(P, s, m)[r], k) => Has(P[r], k)
        BY <4>0, ClaimsQueues
      <4>4. P[r] # << >> => Head(WithClaims(P, s, m)[r]) = Head(P[r])
        BY <4>0, ClaimsQueues
      <4> QED
        BY <2>5, <4>1, <4>2, <4>3, <4>4
    <3> QED
      BY <2>1, <3>1 DEF OneGrantMore
  <2> QED
    BY <1>5, <2>3, <2>4, <2>5
<1>7. ASSUME o.world.local = 0, m # 1 PROVE down' = down /\ qdown' = qdown
  <2>1. ~o.publishes
    BY <1>2, <1>7, OutcomeType DEF m
  <2>2. down' = C /\ qdown' = qdown
    BY <1>2, <2>1 DEF C, m
  <2>3. C = down
    <3>1. C = [r \in Shards |-> down[r]]
      BY <1>7 DEF C, WithClaims
    <3> QED
      BY <1>3, <3>1
  <2> QED
    BY <2>2, <2>3
<1> QED
  BY <1>2, <1>6, <1>7 DEF m

\* What a tick leaves to each shard.
LEMMA TickOwned ==
  ASSUME TypeOK, NEW s \in Shards, Tick(s), NEW time, NEW o \in Outcomes(s, time),
         world' = [world EXCEPT ![s] = o.world]
  PROVE  /\ Owned(s)' = o.world.local
         /\ \A r \in Shards : r # s => Owned(r)' = Owned(r)
         /\ \A r \in Shards : Owned(r) \in Nat
         /\ o.world.local \in Nat /\ o.marked \in {0, 1} /\ o.world.local + o.marked <= Owned(s)
<1>1. commands' = [commands EXCEPT ![s] = NoCommands]
  BY DEF Tick
<1>2. o.world \in [local : Nat, ghost : Nat]
  BY OutcomeType
<1>3. world'[s] = o.world /\ commands'[s] = NoCommands
  BY <1>1 DEF TypeOK
<1>4. Owned(s)' = o.world.local
  BY <1>2, <1>3 DEF Owned, NoCommands
<1>5. \A r \in Shards : r # s => Owned(r)' = Owned(r)
  BY <1>1 DEF Owned, TypeOK
<1> QED
  BY <1>2, <1>4, <1>5, OutcomeType, OwnedType

\* A tick moves the authority between commands, copies and the claim it sends.
LEMMA AuthorityTick ==
  ASSUME AuthorityInv, NEW s \in Shards, Tick(s)
  PROVE  AuthorityInv'
<1>1. TypeOK /\ TypeOK'
  BY TickType DEF AuthorityInv
<1>3. PICK time, o :
        /\ o \in Outcomes(s, time)
        /\ world' = [world EXCEPT ![s] = o.world]
        /\ \A r \in Shards :
             /\ o.marked # 1 \/ commands[s].release[r] = 0 => Grants(down'[r]) = Grants(down[r])
             /\ o.marked = 1 /\ commands[s].release[r] = 1
                  => OneGrantMore(down[r], down'[r])
  BY <1>1, TickQueues
<1>4. races' = races \cup RacesOf(s) /\ player' = player
  BY DEF Tick
<1>5. /\ Owned(s)' = o.world.local
      /\ \A r \in Shards : r # s => Owned(r)' = Owned(r)
      /\ \A r \in Shards : Owned(r) \in Nat
      /\ o.world.local \in Nat /\ o.marked \in {0, 1} /\ o.world.local + o.marked <= Owned(s)
  BY <1>1, <1>3, TickOwned
<1>6. CASE o.marked # 1
  <2>1. \A r \in Shards : Grants(down'[r]) = Grants(down[r])
    BY <1>3, <1>6
  <2>2. OneAt(s) => OneAt(s)'
    BY <1>5, <2>1 DEF OneAt
  <2>3. HasAuthority(s)' => HasAuthority(s)
    BY <1>5, <2>1 DEF HasAuthority
  <2> QED
    BY <1>1, <1>4, <1>5, <2>1, <2>2, <2>3, OneShardStep
<1>7. CASE o.marked = 1
  <2>1. HasAuthority(s)
    BY <1>5, <1>7 DEF HasAuthority
  <2>2. NoneBeforeSpawn'
    BY <1>4, <2>1 DEF AuthorityInv, NoneBeforeSpawn
  <2>3. ASSUME "twoReleases" \notin races'
        PROVE  /\ \A r \in Shards : OneAt(r)'
               /\ \A q, r \in Shards : HasAuthority(q)' /\ HasAuthority(r)' => q = r
    <3>1. OneAt(s) /\ \A r \in Shards : r # s => OneAt(r) /\ ~HasAuthority(r)
      BY <1>4, <2>1, <2>3 DEF AuthorityInv, OneHolder
    <3>2. Owned(s) = 1 /\ Owned(s)' = 0 /\ Grants(down[s]) = {}
      BY <1>5, <1>7, <3>1 DEF OneAt
    <3>3. \A r \in Shards : Owned(r)' = 0 /\ Grants(down[r]) = {}
      BY <1>5, <3>1, <3>2 DEF HasAuthority
    <3>4. PICK r0 \in Shards : commands[s].release[r0] > 0
      BY <1>1, <1>3, <1>7, OutcomeType DEF Released
    <3>5. \A r \in Shards : commands[s].release[r] \in Nat
      BY <1>1 DEF TypeOK, Commands
    <3>6. commands[s].release[r0] = 1 /\ \A r \in Shards : r # r0 => commands[s].release[r] = 0
      <4>1. "twoReleases" \notin RacesOf(s)
        BY <1>4, <2>3
      <4> QED
        BY <3>4, <3>5, <4>1 DEF RacesOf
    <3>7. PICK i : Grants(down'[r0]) = {i}
      BY <1>3, <1>7, <3>3, <3>6 DEF OneGrantMore
    <3>8. \A r \in Shards : r # r0 => Grants(down'[r]) = {}
      BY <1>3, <3>3, <3>6
    <3>9. \A r \in Shards : OneAt(r)'
      BY <3>3, <3>7, <3>8 DEF OneAt, Single
    <3> QED
      BY <3>3, <3>8, <3>9 DEF HasAuthority
  <2> QED
    BY <1>1, <2>2, <2>3 DEF AuthorityInv, OneHolder
<1> QED
  BY <1>6, <1>7

\* The spawn brings the one authority there is.
LEMMA AuthoritySpawn ==
  ASSUME AuthorityInv, NEW p \in Positions, SpawnPlayerOnShard(p), TypeOK'
  PROVE  AuthorityInv'
<1> DEFINE s == ShardAt[p]
<1>1. /\ s \in Shards /\ player = "out" /\ player' = "in"
      /\ down' = [Deliver(posSubs, PosMsg(p)) EXCEPT ![s] = Append(@, SpawnMsg)]
      /\ UNCHANGED << commands, world, races >>
  BY LayoutAssumption DEF SpawnPlayerOnShard, shardVars
<1>2. \A r \in Shards : Owned(r) = 0 /\ Owned(r)' = 0 /\ Grants(down[r]) = {}
  <2>1. \A r \in Shards : ~HasAuthority(r) /\ Owned(r) \in Nat
    BY <1>1, OwnedType DEF AuthorityInv, NoneBeforeSpawn
  <2>2. \A r \in Shards : Owned(r)' = Owned(r)
    BY <1>1 DEF Owned
  <2> QED
    BY <2>1, <2>2 DEF HasAuthority
<1>3. /\ Deliver(posSubs, PosMsg(p)) \in [Shards -> Seq(ShardMessages)]
      /\ \A r \in Shards : Grants(Deliver(posSubs, PosMsg(p))[r]) = {}
  <2>1. TypeOK /\ down \in [Shards -> Seq(ShardMessages)]
    BY DEF AuthorityInv, TypeOK
  <2>2. PosMsg(p) \in ShardMessages /\ PosMsg(p).type = "Position"
    BY MessageTypes, MessageKinds
  <2>3. Deliver(posSubs, PosMsg(p)) \in [Shards -> Seq(ShardMessages)]
    BY <2>1, <2>2, DeliverType
  <2>4. \A r \in Shards : Grants(Deliver(posSubs, PosMsg(p))[r]) = Grants(down[r])
    BY <2>1, <2>2, DeliverGrants
  <2> QED
    BY <1>2, <2>3, <2>4
<1>4. \A r \in Shards : r # s => Grants(down'[r]) = {}
  BY <1>1, <1>3
<1>5. Single(Grants(down'[s]))
  <2> DEFINE q == Deliver(posSubs, PosMsg(p))[s]
  <2>1. q \in Seq(ShardMessages) /\ Grants(q) = {} /\ down'[s] = Append(q, SpawnMsg)
    BY <1>1, <1>3
  <2>2. Grants(Append(q, SpawnMsg)) = Grants(q) \cup {Len(q) + 1}
    BY <2>1, GrantsAppend, MessageTypes, MessageKinds
  <2> QED
    BY <2>1, <2>2 DEF Single
<1>6. \A r \in Shards : OneAt(r)'
  BY <1>2, <1>4, <1>5 DEF OneAt, Single
<1> QED
  BY <1>1, <1>2, <1>4, <1>6 DEF AuthorityInv, OneHolder, NoneBeforeSpawn, HasAuthority

\* There is no authority at first.
LEMMA AuthorityInit == Init => AuthorityInv
<1> SUFFICES ASSUME Init PROVE AuthorityInv
  OBVIOUS
<1>1. \A s \in Shards : Owned(s) = 0 /\ Grants(down[s]) = {}
  BY DEF Init, Owned, NoCommands, Grants
<1> QED
  BY <1>1, TypeInit DEF AuthorityInv, OneHolder, NoneBeforeSpawn, OneAt, HasAuthority, Single

\* Every step keeps the authority unique.
LEMMA AuthorityStep == AuthorityInv /\ [Next]_vars => AuthorityInv'
<1> SUFFICES ASSUME AuthorityInv, [Next]_vars PROVE AuthorityInv'
  OBVIOUS
<1>1. TypeOK /\ TypeOK'
  BY TypeStep DEF AuthorityInv
<1>2. ASSUME NEW p \in Positions, SpawnPlayerOnShard(p) PROVE AuthorityInv'
  BY <1>1, <1>2, AuthoritySpawn
<1>3. CASE ClientDisconnects
  <2>1. \A r \in Shards : Grants(down'[r]) = Grants(down[r])
    BY <1>1, <1>3, MessageTypes, MessageKinds, DeliverGrants DEF ClientDisconnects
  <2>2. /\ \A r \in Shards : Owned(r)' = Owned(r)
        /\ races' = races /\ player' # "out"
    BY <1>3 DEF ClientDisconnects, shardVars, Owned
  <2> QED
    BY <1>1, <2>1, <2>2, NoHoldingStep
<1>4. CASE EntityKilled
  <2>1. \A r \in Shards : Grants(down'[r]) = Grants(down[r])
    BY <1>1, <1>4, MessageTypes, MessageKinds, DeliverGrants DEF EntityKilled
  <2>2. /\ \A r \in Shards : Owned(r)' = Owned(r)
        /\ races' = races /\ player' = player
    BY <1>4 DEF EntityKilled, shardVars, Owned
  <2> QED
    BY <1>1, <2>1, <2>2, NoHoldingStep
<1>5. CASE QuadtreeNext
  <2>1. \A r \in Shards : Grants(down'[r]) = Grants(down[r])
    <3>1. CASE down' = down
      BY <3>1
    <3>2. CASE /\ HandleEntityPositionUpdate
               /\ down' = Deliver({entity_owners}, ReleaseMsg(ShardAt[Head(qdown).pos]))
      <4>1. Head(qdown) \in QuadtreeMessages /\ Head(qdown).type = "Position"
        BY <1>1, <3>2 DEF HandleEntityPositionUpdate, TypeOK
      <4>2. ShardAt[Head(qdown).pos] \in Shards
        BY <4>1, QuadtreeFields, LayoutAssumption
      <4> QED
        BY <1>1, <3>2, <4>2, MessageTypes, MessageKinds, DeliverGrants
    <3> QED
      BY <1>5, <3>1, <3>2 DEF QuadtreeNext, HandleEntityPositionUpdate, QuadtreeDisconnect,
                              quadtreeVars
  <2>2. /\ \A r \in Shards : Owned(r)' = Owned(r)
        /\ races' = races /\ player' = player
    BY <1>5 DEF QuadtreeNext, HandleEntityPositionUpdate, QuadtreeDisconnect, shardVars,
                clientVars, Owned
  <2> QED
    BY <1>1, <2>1, <2>2, NoHoldingStep
<1>6. ASSUME NEW s \in Shards, ReceiveNext(s) PROVE AuthorityInv'
  BY <1>6, AuthorityReceive
<1>7. ASSUME NEW s \in Shards, Tick(s) PROVE AuthorityInv'
  BY <1>7, AuthorityTick
<1>8. CASE UNCHANGED vars
  BY <1>1, <1>8, NoHoldingStep DEF vars, Owned
<1> QED
  BY <1>2, <1>3, <1>4, <1>5, <1>6, <1>7, <1>8 DEF Next

\* The invariant leaves room for one copy, one command or one message.
LEMMA HolderIsUnique == AuthorityInv => OneAuthority
<1> SUFFICES ASSUME AuthorityInv, "twoReleases" \notin races,
                    NEW t \in Authority, NEW u \in Authority
             PROVE  t = u
  BY DEF OneAuthority
<1>1. TypeOK /\ \A s \in Shards : OneAt(s)
  BY DEF AuthorityInv, OneHolder
<1> DEFINE Of(s) == Held(s) \cup Ordered(s) \cup Sent(s)
<1>2. PICK s \in Shards : t \in Of(s)
  BY DEF Authority
<1>3. PICK r \in Shards : u \in Of(r)
  BY DEF Authority
<1>4. \A q \in Shards : /\ world[q].local \in Nat /\ commands[q].joined \in Nat
                        /\ commands[q].claim \in Nat /\ Owned(q) \in Nat
  BY <1>1, OwnedType
<1>5. \A q \in Shards : Of(q) # {} => HasAuthority(q)
  BY <1>4 DEF Held, Ordered, Sent, Owned, HasAuthority
<1>6. s = r
  BY <1>2, <1>3, <1>5 DEF AuthorityInv, OneHolder
<1>7. CASE Owned(s) = 0
  <2>1. t \in Sent(s) /\ u \in Sent(s)
    BY <1>2, <1>3, <1>4, <1>6, <1>7 DEF Held, Ordered, Owned
  <2> QED
    BY <1>1, <2>1 DEF Sent, OneAt, Single
<1>8. CASE Owned(s) = 1
  <2>1. Sent(s) = {}
    BY <1>1, <1>8 DEF OneAt, Sent
  <2>2. t \in Held(s) \cup Ordered(s) /\ u \in Held(s) \cup Ordered(s)
    BY <1>2, <1>3, <1>6, <2>1
  <2>3. \/ world[s].local = 1 /\ commands[s].joined = 0 /\ commands[s].claim = 0
        \/ world[s].local = 0 /\ commands[s].joined = 1 /\ commands[s].claim = 0
        \/ world[s].local = 0 /\ commands[s].joined = 0 /\ commands[s].claim = 1
    <3> DEFINE l == world[s].local
               j == commands[s].joined
               c == commands[s].claim
    <3>1. l \in Nat /\ j \in Nat /\ c \in Nat
      BY <1>4
    <3>2. l + j + c = 1
      BY <1>8 DEF Owned
    <3> HIDE DEF l, j, c
    <3>3. \/ l = 1 /\ j = 0 /\ c = 0
          \/ l = 0 /\ j = 1 /\ c = 0
          \/ l = 0 /\ j = 0 /\ c = 1
      BY <3>1, <3>2
    <3> QED
      BY <3>3 DEF l, j, c
  <2>4. 1..0 = {} /\ 1..1 = {1}
    OBVIOUS
  <2>5. /\ world[s].local = 0 => Held(s) = {}
        /\ world[s].local = 1 => Held(s) = {<<"copy", s, 1>>}
    BY <2>4 DEF Held
  <2>6. /\ commands[s].joined = 0 /\ commands[s].claim = 0 => Ordered(s) = {}
        /\ commands[s].joined = 1 /\ commands[s].claim = 0 => Ordered(s) = {<<"joined", s, 1>>}
        /\ commands[s].joined = 0 /\ commands[s].claim = 1 => Ordered(s) = {<<"claim", s, 1>>}
    BY <2>4, Zenon DEF Ordered
  <2> QED
    BY <2>2, <2>3, <2>5, <2>6
<1>9. Owned(s) = 0 \/ Owned(s) = 1
  BY <1>1, <1>4 DEF OneAt
<1> QED
  BY <1>7, <1>8, <1>9

\* Whatever the layout, the order of the messages and the ticks of the shards,
\* two shards hold the authority over the entity only after a tick that drained
\* two releases of it.
THEOREM AuthorityIsUnique == Spec => []OneAuthority
<1>1. Spec => []AuthorityInv
  BY AuthorityInit, AuthorityStep, PTL DEF Spec
<1> QED
  BY <1>1, HolderIsUnique, PTL
----------------------------------------------------------------------------
(***************************************************************************)
(* The shard in authority hears the entity's control topics.  It has       *)
(* subscribed to them since it was told to spawn the entity or read the    *)
(* claim, and it unsubscribes only in the tick that gives the copy away.   *)
(***************************************************************************)
Controls(s) == Owned(s) > 0 \/ Has(down[s], "Spawn")

ControlInv ==
  /\ AuthorityInv
  /\ player # "gone" => \A s \in Shards : ~Has(down[s], "Disconnect")
  /\ (player # "gone" /\ "twoReleases" \notin races)
       => \A s \in Shards : Controls(s) => s \in ctlSubs

\* What a queue has after its head was read.
LEMMA HasTail ==
  ASSUME NEW q \in Seq(ShardMessages), q # << >>, NEW k
  PROVE  /\ Has(Tail(q), k) => Has(q, k)
         /\ Head(q).type = k => Has(q, k)
<1>1. Len(q) \in Nat /\ Len(q) > 0 /\ Head(q) = q[1] /\ Len(Tail(q)) = Len(q) - 1
  OBVIOUS
<1>2. \A i \in 1..Len(Tail(q)) : Tail(q)[i] = q[i + 1]
  OBVIOUS
<1> QED
  BY <1>1, <1>2 DEF Has

\* What queues have after a delivery.
LEMMA DeliverHas ==
  ASSUME TypeOK, NEW S, NEW m \in ShardMessages, NEW k, m.type # k, NEW r \in Shards
  PROVE  Has(Deliver(S, m)[r], k) => Has(down[r], k)
BY HasAppend DEF Deliver, TypeOK

\* A step that leaves holdings and subscriptions alone and sends neither a
\* Spawn nor a Disconnect.
LEMMA QuietControlStep ==
  ASSUME ControlInv, AuthorityInv', races \subseteq races', ctlSubs' = ctlSubs, player' = player,
         \A r \in Shards : /\ Owned(r)' = Owned(r)
                           /\ Has(down'[r], "Spawn") => Has(down[r], "Spawn")
                           /\ Has(down'[r], "Disconnect") => Has(down[r], "Disconnect")
  PROVE  ControlInv'
BY DEF ControlInv, Controls

\* Reading a message subscribes before the copy can become local.
LEMMA ControlReceive ==
  ASSUME ControlInv, AuthorityInv', NEW s \in Shards, ReceiveNext(s)
  PROVE  ControlInv'
<1>1. /\ TypeOK /\ TypeOK' /\ commands \in [Shards -> Commands]
      /\ \A r \in Shards : commands[r] \in Commands /\ Owned(r) \in Nat
  BY OwnedType DEF ControlInv, AuthorityInv, TypeOK
<1>2. PICK k : Receive(s, k)
  BY DEF ReceiveNext, HandleReceiveNewPlayer, HandleGhostPosition, HandleDisconnect,
         HandleKilled, HandleClaimOwnership, HandleReleaseOwnership
<1>3. /\ world' = world /\ races' = races /\ player' = player
      /\ down[s] \in Seq(ShardMessages) /\ down[s] # << >>
      /\ down' = [down EXCEPT ![s] = Tail(@)]
  BY <1>1, <1>2 DEF Receive, clientVars, TypeOK
<1>4. \A r \in Shards, j \in {"Spawn", "Disconnect"} : Has(down'[r], j) => Has(down[r], j)
  BY <1>1, <1>3, HasTail DEF TypeOK
<1>5. \A r \in Shards : r # s => Owned(r)' = Owned(r)
  <2>1. \A r \in Shards : r # s => commands'[r] = commands[r]
    BY <1>1 DEF ReceiveNext, HandleReceiveNewPlayer, HandleGhostPosition, HandleDisconnect,
                HandleKilled, HandleClaimOwnership, HandleReleaseOwnership
  <2> QED
    BY <1>3, <2>1 DEF Owned
<1>6. CASE HandleReceiveNewPlayer(s)
  <2>1. Has(down[s], "Spawn") /\ ctlSubs' = ctlSubs
    BY <1>3, <1>6, HasTail DEF HandleReceiveNewPlayer, Receive
  <2> QED
    BY <1>3, <1>4, <1>5, <2>1 DEF ControlInv, Controls
<1>7. CASE HandleDisconnect(s)
  <2>1. Has(down[s], "Disconnect")
    BY <1>3, <1>7, HasTail DEF HandleDisconnect, Receive
  <2> QED
    BY <1>3, <2>1 DEF ControlInv
<1>8. CASE HandleClaimOwnership(s)
  <2>1. ctlSubs' = ctlSubs \cup {s}
    BY <1>8 DEF HandleClaimOwnership
  <2> QED
    BY <1>3, <1>4, <1>5, <2>1 DEF ControlInv, Controls
<1>9. CASE HandleGhostPosition(s) \/ HandleKilled(s) \/ HandleReleaseOwnership(s)
  <2>1. ctlSubs' = ctlSubs
    BY <1>9 DEF HandleGhostPosition, HandleKilled, HandleReleaseOwnership
  <2>2. commands'[s].joined = commands[s].joined /\ commands'[s].claim = commands[s].claim
    <3>1. CASE HandleGhostPosition(s)
      <4>1. \/ commands' = commands
            \/ commands' = [commands EXCEPT ![s].ghostJoined = @ + 1]
            \/ commands' = [commands EXCEPT ![s].left = @ + 1]
        BY <3>1 DEF HandleGhostPosition
      <4> QED
        BY <1>1, <4>1 DEF Commands
    <3>2. CASE HandleKilled(s)
      BY <1>1, <3>2 DEF HandleKilled, Commands
    <3>3. CASE HandleReleaseOwnership(s)
      BY <1>1, <3>3 DEF HandleReleaseOwnership, Commands
    <3> QED
      BY <1>9, <3>1, <3>2, <3>3
  <2>3. Owned(s)' = Owned(s)
    BY <1>3, <2>2 DEF Owned
  <2> QED
    BY <1>3, <1>4, <1>5, <2>1, <2>3, QuietControlStep
<1> QED
  BY <1>6, <1>7, <1>8, <1>9 DEF ReceiveNext

\* A tick makes local only what was subscribed when the message was read.
LEMMA ControlTick ==
  ASSUME ControlInv, AuthorityInv', NEW s \in Shards, Tick(s)
  PROVE  ControlInv'
<1>1. TypeOK /\ TypeOK' /\ AuthorityInv
  BY DEF ControlInv, AuthorityInv
<1>3. PICK time, o :
        /\ o \in Outcomes(s, time)
        /\ world' = [world EXCEPT ![s] = o.world]
        /\ ctlSubs' = IF o.marked = 1 THEN ctlSubs \ {s} ELSE ctlSubs
        /\ \A r \in Shards, k \in {"Spawn", "Disconnect"} : Has(down'[r], k) => Has(down[r], k)
  BY <1>1, TickQueues
<1>4. races' = races \cup RacesOf(s) /\ player' = player
  BY DEF Tick
<1>5. /\ Owned(s)' = o.world.local
      /\ \A r \in Shards : r # s => Owned(r)' = Owned(r)
      /\ \A r \in Shards : Owned(r) \in Nat
      /\ o.world.local \in Nat /\ o.marked \in {0, 1} /\ o.world.local + o.marked <= Owned(s)
  BY <1>1, <1>3, TickOwned
<1>6. player' # "gone" => \A r \in Shards : ~Has(down'[r], "Disconnect")
  BY <1>3, <1>4 DEF ControlInv
<1>7. ASSUME player' # "gone", "twoReleases" \notin races', NEW r \in Shards, Controls(r)'
      PROVE  r \in ctlSubs'
  <2>1. Controls(r)
    BY <1>3, <1>5, <1>7 DEF Controls
  <2>2. r \in ctlSubs
    BY <1>4, <1>7, <2>1 DEF ControlInv
  <2>3. CASE r # s
    BY <1>3, <2>2, <2>3
  <2>4. CASE r = s
    <3>1. o.marked # 1
      <4> SUFFICES ASSUME o.marked = 1 PROVE FALSE
        OBVIOUS
      <4>1. OneAt(s)
        BY <1>4, <1>7 DEF ControlInv, AuthorityInv, OneHolder
      <4>2. Owned(s) = 1 /\ Owned(s)' = 0 /\ Grants(down[s]) = {}
        BY <1>5, <4>1 DEF OneAt
      <4>3. Has(down'[s], "Spawn")
        BY <1>7, <2>4, <4>2 DEF Controls
      <4>4. Has(down[s], "Spawn")
        BY <1>3, <4>3
      <4> QED
        BY <4>2, <4>4 DEF Has, Grants
    <3> QED
      BY <1>3, <2>2, <2>4, <3>1
  <2> QED
    BY <2>3, <2>4
<1> QED
  BY <1>6, <1>7 DEF ControlInv

\* The spawn makes nobody local.
LEMMA ControlSpawn ==
  ASSUME ControlInv, AuthorityInv', NEW p \in Positions, SpawnPlayerOnShard(p)
  PROVE  ControlInv'
<1> DEFINE s == ShardAt[p]
           d == Deliver(posSubs, PosMsg(p))
<1>1. /\ s \in Shards /\ player = "out" /\ player' = "in"
      /\ down' = [d EXCEPT ![s] = Append(@, SpawnMsg)]
      /\ ctlSubs' = ctlSubs \cup {s}
      /\ UNCHANGED << commands, world, races >>
  BY LayoutAssumption DEF SpawnPlayerOnShard, shardVars
<1>2. TypeOK /\ PosMsg(p) \in ShardMessages /\ PosMsg(p).type = "Position"
      /\ SpawnMsg \in ShardMessages /\ SpawnMsg.type = "Spawn"
  BY MessageTypes, MessageKinds DEF ControlInv, AuthorityInv
<1>3. d \in [Shards -> Seq(ShardMessages)]
  BY <1>2, DeliverType DEF TypeOK
<1>4. \A r \in Shards, k \in {"Spawn", "Disconnect"} : Has(d[r], k) => Has(down[r], k)
  BY <1>2, DeliverHas
<1> HIDE DEF s, d
<1>5. \A r \in Shards : r # s => (Has(down'[r], "Spawn") => Has(down[r], "Spawn"))
  BY <1>1, <1>3, <1>4
<1>6. \A r \in Shards : Has(down'[r], "Disconnect") => Has(down[r], "Disconnect")
  <2>1. Has(Append(d[s], SpawnMsg), "Disconnect") => Has(d[s], "Disconnect")
    BY <1>1, <1>2, <1>3, HasAppend
  <2> QED
    BY <1>1, <1>3, <1>4, <2>1
<1>7. \A r \in Shards : Owned(r)' = Owned(r)
  BY <1>1 DEF Owned
<1> QED
  BY <1>1, <1>5, <1>6, <1>7 DEF ControlInv, Controls

\* Nobody is local at first.
LEMMA ControlInit == Init => ControlInv
<1> SUFFICES ASSUME Init PROVE ControlInv
  OBVIOUS
<1>1. \A s \in Shards, k \in {"Spawn", "Disconnect"} : Owned(s) = 0 /\ ~Has(down[s], k)
  BY DEF Init, Owned, NoCommands, Has
<1> QED
  BY <1>1, AuthorityInit DEF ControlInv, Controls

\* Every step keeps whoever is local subscribed.
LEMMA ControlStep == ControlInv /\ [Next]_vars => ControlInv'
<1> SUFFICES ASSUME ControlInv, [Next]_vars PROVE ControlInv'
  OBVIOUS
<1>1. AuthorityInv /\ AuthorityInv' /\ TypeOK
  BY AuthorityStep DEF ControlInv, AuthorityInv
<1>2. ASSUME NEW p \in Positions, SpawnPlayerOnShard(p) PROVE ControlInv'
  BY <1>1, <1>2, ControlSpawn
<1>3. CASE ClientDisconnects
  BY <1>1, <1>3 DEF ClientDisconnects, ControlInv
<1>4. CASE EntityKilled
  <2>1. \A r \in Shards, k \in {"Spawn", "Disconnect"} : Has(down'[r], k) => Has(down[r], k)
    BY <1>1, <1>4, MessageTypes, MessageKinds, DeliverHas DEF EntityKilled
  <2>2. /\ \A r \in Shards : Owned(r)' = Owned(r)
        /\ races' = races /\ player' = player /\ ctlSubs' = ctlSubs
    BY <1>4 DEF EntityKilled, shardVars, Owned
  <2> QED
    BY <1>1, <2>1, <2>2, QuietControlStep
<1>5. CASE QuadtreeNext
  <2>1. \A r \in Shards, k \in {"Spawn", "Disconnect"} : Has(down'[r], k) => Has(down[r], k)
    <3>1. CASE down' = down
      BY <3>1
    <3>2. CASE /\ HandleEntityPositionUpdate
               /\ down' = Deliver({entity_owners}, ReleaseMsg(ShardAt[Head(qdown).pos]))
      <4>1. Head(qdown) \in QuadtreeMessages /\ Head(qdown).type = "Position"
        BY <1>1, <3>2 DEF HandleEntityPositionUpdate, TypeOK
      <4>2. ShardAt[Head(qdown).pos] \in Shards
        BY <4>1, QuadtreeFields, LayoutAssumption
      <4> QED
        BY <1>1, <3>2, <4>2, MessageTypes, MessageKinds, DeliverHas
    <3> QED
      BY <1>5, <3>1, <3>2 DEF QuadtreeNext, HandleEntityPositionUpdate, QuadtreeDisconnect,
                              quadtreeVars
  <2>2. /\ \A r \in Shards : Owned(r)' = Owned(r)
        /\ races' = races /\ player' = player /\ ctlSubs' = ctlSubs
    BY <1>5 DEF QuadtreeNext, HandleEntityPositionUpdate, QuadtreeDisconnect, shardVars,
                clientVars, Owned
  <2> QED
    BY <1>1, <2>1, <2>2, QuietControlStep
<1>6. ASSUME NEW s \in Shards, ReceiveNext(s) PROVE ControlInv'
  BY <1>1, <1>6, ControlReceive
<1>7. ASSUME NEW s \in Shards, Tick(s) PROVE ControlInv'
  BY <1>1, <1>7, ControlTick
<1>8. CASE UNCHANGED vars
  BY <1>1, <1>8, QuietControlStep DEF vars, Owned
<1> QED
  BY <1>2, <1>3, <1>4, <1>5, <1>6, <1>7, <1>8 DEF Next

\* Until the player disconnects, the shard that simulates it is subscribed to
\* its Input, CastAbility, EntityKilled and Disconnect topics.
THEOREM AuthorityHearsControl == Spec => []LocalHearsControl
<1>1. Spec => []ControlInv
  BY ControlInit, ControlStep, PTL DEF Spec
<1>2. ControlInv => LocalHearsControl
  BY OwnedType DEF ControlInv, AuthorityInv, LocalHearsControl, Controls, Owned
<1> QED
  BY <1>1, <1>2, PTL
----------------------------------------------------------------------------
(***************************************************************************)
(* The authority is kept.  It is never lost in a handoff, and the handoff  *)
(* by messages implements the transfer of one authority (Ownership).       *)
(* Nothing but a release that a shard has not answered yet may contradict  *)
(* what the shard believes about the entity it simulates.                  *)
(***************************************************************************)
\* Nothing has happened before the player is spawned.
NothingYet ==
  player = "out" =>
    /\ races = {} /\ qdown = << >> /\ posSubs = {}
    /\ \A s \in Shards : /\ down[s] = << >>
                         /\ registry[s] = "absent"
                         /\ commands[s] = NoCommands

\* The order to spawn the player finds a shard that does not know it.
SpawnWaits(s) ==
  Has(down[s], "Spawn") =>
    /\ Head(down[s]).type = "Spawn"
    /\ registry[s] = "absent"
    /\ commands[s].left = 0

\* What s simulates is local for its registry and not about to be despawned,
\* unless it has been told to release it.
Settled(s) ==
  /\ SpawnedLocal(s) > 0 /\ (registry[s] # "local" \/ commands[s].left > 0) => Released(s)
  /\ commands[s].claim > 0 /\ registry[s] # "local" => Released(s)

SomeAuthority == \E s \in Shards : HasAuthority(s)

KeptInv ==
  /\ ControlInv
  /\ NothingYet
  /\ races = {} => \A s \in Shards : SpawnWaits(s)
  /\ player = "in" /\ races = {} => SomeAuthority /\ \A s \in Shards : Settled(s)
----------------------------------------------------------------------------
(***************************************************************************)
(* Queues.                                                                 *)
(***************************************************************************)

\* Reading a message that grants nothing leaves what grants.
LEMMA GrantsStay ==
  ASSUME NEW q \in Seq(ShardMessages), q # << >>, Head(q).type \notin {"Spawn", "Claim"},
         Grants(q) # {}
  PROVE  Grants(Tail(q)) # {}
<1>1. PICK i \in 1..Len(q) : q[i].type \in {"Spawn", "Claim"}
  BY DEF Grants
<1>2. i # 1 /\ Len(q) \in Nat /\ Len(Tail(q)) = Len(q) - 1
  BY <1>1
<1>3. i - 1 \in 1..Len(Tail(q)) /\ Tail(q)[i - 1] = q[i]
  BY <1>1, <1>2
<1> QED
  BY <1>1, <1>3 DEF Grants

----------------------------------------------------------------------------
(***************************************************************************)
(* The invariant is kept.                                                  *)
(***************************************************************************)

\* Nothing contradicts anything at first.
LEMMA KeptInit == Init => KeptInv
<1> SUFFICES ASSUME Init PROVE KeptInv
  OBVIOUS
<1>1. NothingYet /\ \A s \in Shards : ~Has(down[s], "Spawn")
  BY DEF Init, NothingYet, Has
<1>2. player = "out"
  BY DEF Init
<1> QED
  BY <1>1, <1>2, ControlInit DEF KeptInv, SpawnWaits

\* A step of the client, the ability service or the quadtree: it adds messages
\* that grant nothing behind those that wait.
LEMMA KeptQuiet ==
  ASSUME KeptInv, ControlInv', player # "out", player' \in {player, "gone"},
         UNCHANGED << commands, world, registry, races >>,
         \A r \in Shards : /\ Grants(down'[r]) = Grants(down[r])
                           /\ Has(down'[r], "Spawn") => Has(down[r], "Spawn")
                           /\ down[r] # << >> => Head(down'[r]) = Head(down[r])
  PROVE  KeptInv'
<1>1. player' # "out" /\ (player' = "in" => player = "in")
  OBVIOUS
<1>2. \A r \in Shards : SpawnWaits(r) => SpawnWaits(r)'
  <2>1. \A r \in Shards : Has(down[r], "Spawn") => down[r] # << >>
    BY DEF Has
  <2> QED
    BY <2>1 DEF SpawnWaits
<1>3. \A r \in Shards : Settled(r) => Settled(r)'
  BY DEF Settled, SpawnedLocal, Released
<1>4. \A r \in Shards : HasAuthority(r) => HasAuthority(r)'
  BY DEF HasAuthority, Owned
<1> QED
  BY <1>1, <1>2, <1>3, <1>4 DEF KeptInv, NothingYet, SomeAuthority

\* The spawn waits alone in the queue of a shard that knows nothing.
LEMMA KeptSpawn ==
  ASSUME KeptInv, ControlInv', NEW p \in Positions, SpawnPlayerOnShard(p)
  PROVE  KeptInv'
<1> DEFINE s == ShardAt[p]
<1>1. /\ s \in Shards /\ player = "out" /\ player' = "in"
      /\ down' = [Deliver(posSubs, PosMsg(p)) EXCEPT ![s] = Append(@, SpawnMsg)]
      /\ UNCHANGED << commands, world, registry, races >>
  BY LayoutAssumption DEF SpawnPlayerOnShard, shardVars
<1>2. /\ posSubs = {}
      /\ \A r \in Shards : down[r] = << >> /\ registry[r] = "absent" /\ commands[r] = NoCommands
  BY <1>1 DEF KeptInv, NothingYet
<1>3. \A r \in Shards : down'[r] = IF r = s THEN << SpawnMsg >> ELSE << >>
  <2> DEFINE d == Deliver(posSubs, PosMsg(p))
  <2>1. d = [r \in Shards |-> << >>]
    BY <1>2 DEF Deliver
  <2> HIDE DEF d
  <2>2. down' = [d EXCEPT ![s] = Append(d[s], SpawnMsg)]
    BY <1>1 DEF d
  <2>3. Append(<< >>, SpawnMsg) = << SpawnMsg >>
    OBVIOUS
  <2> HIDE DEF s
  <2> QED
    BY <1>1, <2>1, <2>2, <2>3
<1>4. \A r \in Shards : SpawnWaits(r)'
  <2>1. \A r \in Shards : Has(down'[r], "Spawn") => Head(down'[r]).type = "Spawn"
    <3>1. Len(<< >>) = 0 /\ Head(<< SpawnMsg >>) = SpawnMsg
      OBVIOUS
    <3>2. ~Has(<< >>, "Spawn")
      BY <3>1 DEF Has
    <3> QED
      BY <1>3, <3>1, <3>2, MessageKinds
  <2>2. \A r \in Shards : registry'[r] = "absent" /\ commands'[r].left = 0
    BY <1>1, <1>2 DEF NoCommands
  <2> QED
    BY <2>1, <2>2 DEF SpawnWaits
<1>5. \A r \in Shards : Settled(r)'
  <2>1. \A r \in Shards : Owned(r) = 0 /\ world[r].local \in Nat
    BY <1>1, OwnedType DEF KeptInv, ControlInv, AuthorityInv, NoneBeforeSpawn, HasAuthority
  <2>2. \A r \in Shards : world[r].local = 0
    BY <1>2, <2>1 DEF Owned, NoCommands
  <2> QED
    BY <1>1, <1>2, <2>2 DEF Settled, SpawnedLocal, NoCommands
<1>6. 1 \in Grants(down'[s])
  <2>1. down'[s] = << SpawnMsg >> /\ Len(<< SpawnMsg >>) = 1 /\ << SpawnMsg >>[1] = SpawnMsg
    BY <1>1, <1>3
  <2> QED
    BY <2>1, MessageKinds DEF Grants
<1> QED
  BY <1>1, <1>4, <1>5, <1>6 DEF KeptInv, NothingYet, SomeAuthority, HasAuthority

\* What reading a message does to the authority, for the shard that reads it.
LEMMA ReceiveHoldings ==
  ASSUME TypeOK, NEW s \in Shards, ReceiveNext(s)
  PROVE  /\ world' = world /\ races' = races /\ player' = player
         /\ down[s] \in Seq(ShardMessages) /\ down[s] # << >>
         /\ down' = [down EXCEPT ![s] = Tail(@)]
         /\ \A r \in Shards : r # s => commands'[r] = commands[r] /\ registry'[r] = registry[r]
<1>1. PICK k : Receive(s, k)
  BY DEF ReceiveNext, HandleReceiveNewPlayer, HandleGhostPosition, HandleDisconnect,
         HandleKilled, HandleClaimOwnership, HandleReleaseOwnership
<1>2. /\ world' = world /\ races' = races /\ player' = player
      /\ down[s] \in Seq(ShardMessages) /\ down[s] # << >>
      /\ down' = [down EXCEPT ![s] = Tail(@)]
  BY <1>1 DEF Receive, clientVars, TypeOK
<1>3. /\ commands \in [Shards -> Commands]
      /\ registry \in [Shards -> {"absent", "ghost", "local"}]
  BY DEF TypeOK
<1>4. \A r \in Shards : r # s => commands'[r] = commands[r] /\ registry'[r] = registry[r]
  BY <1>3 DEF ReceiveNext, HandleReceiveNewPlayer, HandleGhostPosition, HandleDisconnect,
              HandleKilled, HandleClaimOwnership, HandleReleaseOwnership
<1> QED
  BY <1>2, <1>4

\* The shard that reads a message: what it has is as settled as before, and it
\* has or will have the authority if and only if it did.
LEMMA ReceiveRow ==
  ASSUME KeptInv, races = {}, NEW s \in Shards, ReceiveNext(s)
  PROVE  /\ HasAuthority(s)' <=> HasAuthority(s)
         /\ player = "in" => Settled(s)'
<1>1. /\ TypeOK /\ TypeOK' /\ OneAt(s) /\ SpawnWaits(s)
      /\ commands \in [Shards -> Commands] /\ commands[s] \in Commands
      /\ registry \in [Shards -> {"absent", "ghost", "local"}]
      /\ player = "in" => Settled(s)
      /\ player = "in" => ~Has(down[s], "Disconnect")
  <2>1. TypeOK
    BY DEF KeptInv, ControlInv, AuthorityInv
  <2>2. TypeOK'
    BY <2>1, ReceiveNextType
  <2>3. OneAt(s) /\ (player = "in" => ~Has(down[s], "Disconnect"))
    BY DEF KeptInv, ControlInv, AuthorityInv, OneHolder
  <2>4. SpawnWaits(s) /\ (player = "in" => Settled(s))
    BY DEF KeptInv
  <2>5. /\ commands \in [Shards -> Commands] /\ commands[s] \in Commands
        /\ registry \in [Shards -> {"absent", "ghost", "local"}]
    BY <2>1 DEF TypeOK
  <2> QED
    BY <2>1, <2>2, <2>3, <2>4, <2>5
<1>2. /\ world' = world /\ down[s] \in Seq(ShardMessages) /\ down[s] # << >>
      /\ down'[s] = Tail(down[s])
  <2>1. /\ world' = world /\ down[s] \in Seq(ShardMessages) /\ down[s] # << >>
        /\ down' = [down EXCEPT ![s] = Tail(@)]
    BY <1>1, ReceiveHoldings
  <2>2. down \in [Shards -> Seq(ShardMessages)]
    BY <1>1 DEF TypeOK
  <2> QED
    BY <2>1, <2>2
<1>3. /\ world[s].local \in Nat /\ commands[s].joined \in Nat /\ commands[s].claim \in Nat
      /\ commands[s].left \in Nat /\ Owned(s) \in Nat
      /\ \A r \in Shards : commands[s].release[r] \in Nat
  BY <1>1, OwnedType DEF Commands
\* A message that grants nothing.
<1>4. ASSUME Head(down[s]).type \notin {"Spawn", "Claim"},
             commands'[s].joined = commands[s].joined, commands'[s].claim = commands[s].claim
      PROVE  (HasAuthority(s)' <=> HasAuthority(s)) /\ SpawnedLocal(s)' = SpawnedLocal(s)
  <2>1. Owned(s)' = Owned(s) /\ SpawnedLocal(s)' = SpawnedLocal(s)
    BY <1>2, <1>4 DEF Owned, SpawnedLocal
  <2>2. Grants(down[s]) # {} => Grants(down'[s]) # {}
    BY <1>2, <1>4, GrantsStay
  <2>3. Grants(down'[s]) # {} => Grants(down[s]) # {}
    BY <1>2, GrantsTail
  <2> QED
    BY <2>1, <2>2, <2>3 DEF HasAuthority
\* A message that grants the authority.
<1>5. ASSUME Head(down[s]).type \in {"Spawn", "Claim"}
      PROVE  HasAuthority(s) /\ Owned(s) = 0
  BY <1>1, <1>2, <1>5, GrantsTail DEF OneAt, HasAuthority
<1>6. CASE HandleReceiveNewPlayer(s)
  <2>1. Head(down[s]).type = "Spawn"
    BY <1>6 DEF HandleReceiveNewPlayer, Receive
  <2>2. registry[s] = "absent" /\ commands[s].left = 0
    BY <1>1, <1>2, <2>1, HasTail DEF SpawnWaits
  <2>3. /\ registry'[s] = "local"
        /\ commands' = [commands EXCEPT ![s].joined = @ + 1]
    BY <1>1, <1>6, <2>2 DEF HandleReceiveNewPlayer
  <2>4. /\ commands'[s].joined = commands[s].joined + 1
        /\ commands'[s].left = 0 /\ commands'[s].claim = commands[s].claim
    BY <1>1, <2>2, <2>3 DEF Commands
  <2>5. Owned(s)' > 0
    BY SMTT(40), <1>2, <1>3, <2>4 DEF Owned
  <2> QED
    BY <1>5, <2>1, <2>3, <2>4, <2>5 DEF HasAuthority, Settled
<1>7. CASE HandleClaimOwnership(s)
  <2>1. Head(down[s]).type = "Claim"
    BY <1>7 DEF HandleClaimOwnership, Receive
  <2>2. /\ registry'[s] = "local"
        /\ commands' = [commands EXCEPT ![s].claim = @ + 1]
    BY <1>1, <1>7 DEF HandleClaimOwnership
  <2>3. /\ commands'[s].joined = commands[s].joined
        /\ commands'[s].claim = commands[s].claim + 1
    BY <1>1, <2>2 DEF Commands
  <2>4. Owned(s)' > 0
    BY <1>2, <1>3, <2>3 DEF Owned
  <2>5. world[s].local = 0 /\ commands[s].joined = 0
    BY <1>3, <1>5, <2>1 DEF Owned
  <2>6. SpawnedLocal(s)' = 0
    BY <1>2, <2>3, <2>5 DEF SpawnedLocal
  <2> QED
    BY <1>5, <2>1, <2>2, <2>4, <2>6 DEF HasAuthority, Settled
<1>8. CASE HandleGhostPosition(s)
  <2>1. Head(down[s]).type = "Position"
    BY <1>8 DEF HandleGhostPosition, Receive
  <2>2. \/ registry'[s] = registry[s] /\ commands' = commands
        \/ registry[s] # "local" /\ commands' = [commands EXCEPT ![s].ghostJoined = @ + 1]
        \/ registry[s] # "local" /\ commands' = [commands EXCEPT ![s].left = @ + 1]
    BY <1>1, <1>8 DEF HandleGhostPosition
  <2>3. /\ commands'[s].joined = commands[s].joined /\ commands'[s].claim = commands[s].claim
        /\ commands'[s].release = commands[s].release
        /\ \/ registry[s] # "local"
           \/ registry'[s] = registry[s] /\ commands'[s] = commands[s]
    BY <1>1, <2>2 DEF Commands
  <2>4. (HasAuthority(s)' <=> HasAuthority(s)) /\ SpawnedLocal(s)' = SpawnedLocal(s)
    BY <1>4, <2>1, <2>3
  <2>5. Released(s)' <=> Released(s)
    BY <2>3 DEF Released
  <2>6. Settled(s) => Settled(s)'
    BY <2>3, <2>4, <2>5 DEF Settled
  <2> QED
    BY <1>1, <2>4, <2>6
<1>9. CASE HandleDisconnect(s)
  <2>1. Head(down[s]).type = "Disconnect" /\ commands' = [commands EXCEPT ![s].left = @ + 1]
    BY <1>9 DEF HandleDisconnect, Receive
  <2>2. commands'[s].joined = commands[s].joined /\ commands'[s].claim = commands[s].claim
    BY <1>1, <2>1 DEF Commands
  <2>3. Has(down[s], "Disconnect")
    BY <1>2, <2>1, HasTail
  <2> QED
    BY <1>1, <1>4, <2>1, <2>2, <2>3
<1>10. CASE HandleKilled(s)
  <2>1. /\ Head(down[s]).type = "Killed" /\ commands' = [commands EXCEPT ![s].died = @ + 1]
        /\ registry' = registry
    BY <1>10 DEF HandleKilled, Receive
  <2>2. /\ commands'[s].joined = commands[s].joined /\ commands'[s].claim = commands[s].claim
        /\ commands'[s].release = commands[s].release /\ commands'[s].left = commands[s].left
    BY <1>1, <2>1 DEF Commands
  <2>3. (HasAuthority(s)' <=> HasAuthority(s)) /\ SpawnedLocal(s)' = SpawnedLocal(s)
    BY <1>4, <2>1, <2>2
  <2>4. Settled(s) => Settled(s)'
    BY <2>1, <2>2, <2>3 DEF Settled, Released
  <2> QED
    BY <1>1, <2>3, <2>4
<1>11. CASE HandleReleaseOwnership(s)
  <2> DEFINE to == Head(down[s]).to
  <2>1. /\ Head(down[s]).type = "Release"
        /\ commands' = [commands EXCEPT ![s].release[to] = @ + 1]
    BY <1>11 DEF HandleReleaseOwnership, Receive
  <2>2. to \in Shards
    BY <1>2, <2>1, MessageFields
  <2> HIDE DEF to
  <2>3. /\ commands'[s].joined = commands[s].joined /\ commands'[s].claim = commands[s].claim
        /\ commands'[s].release[to] = commands[s].release[to] + 1
    BY <1>1, <2>1, <2>2 DEF Commands
  <2>4. Released(s)'
    BY <1>3, <2>2, <2>3 DEF Released
  <2> QED
    BY <1>4, <2>1, <2>3, <2>4 DEF Settled
<1> QED
  BY <1>6, <1>7, <1>8, <1>9, <1>10, <1>11 DEF ReceiveNext

\* Reading a message keeps the invariant.
LEMMA KeptReceive ==
  ASSUME KeptInv, ControlInv', NEW s \in Shards, ReceiveNext(s)
  PROVE  KeptInv' /\ (races = {} => \A r \in Shards : HasAuthority(r)' <=> HasAuthority(r))
<1>1. TypeOK
  BY DEF KeptInv, ControlInv, AuthorityInv
<1>2. /\ world' = world /\ races' = races /\ player' = player
      /\ down[s] \in Seq(ShardMessages) /\ down[s] # << >>
      /\ down' = [down EXCEPT ![s] = Tail(@)] /\ down \in [Shards -> Seq(ShardMessages)]
      /\ \A r \in Shards : r # s => commands'[r] = commands[r] /\ registry'[r] = registry[r]
  BY <1>1, ReceiveHoldings DEF TypeOK
<1>3. player # "out"
  BY <1>2 DEF KeptInv, NothingYet
<1>4. \A r \in Shards : r # s => /\ SpawnWaits(r)' <=> SpawnWaits(r)
                                 /\ Settled(r)' <=> Settled(r)
                                 /\ HasAuthority(r)' <=> HasAuthority(r)
  BY <1>2 DEF SpawnWaits, Settled, SpawnedLocal, Released, HasAuthority, Owned
<1>5. ASSUME races = {} PROVE SpawnWaits(s)'
  <2> SUFFICES ASSUME Has(Tail(down[s]), "Spawn") PROVE FALSE
    BY <1>2 DEF SpawnWaits
  <2>1. Has(down[s], "Spawn")
    BY <1>2, HasTail
  <2>2. Head(down[s]).type = "Spawn" /\ Single(Grants(down[s]))
    BY <1>5, <2>1 DEF KeptInv, SpawnWaits, ControlInv, AuthorityInv, OneHolder, OneAt
  <2>3. Grants(Tail(down[s])) = {}
    BY <1>2, <2>2, GrantsTail
  <2> QED
    BY <2>3 DEF Has, Grants
<1>6. races = {} => (HasAuthority(s)' <=> HasAuthority(s)) /\ (player = "in" => Settled(s)')
  BY ReceiveRow
<1> QED
  BY <1>2, <1>3, <1>4, <1>5, <1>6 DEF KeptInv, NothingYet, SomeAuthority

\* A tick answers its release unless it races with another command: only then
\* may the despawn, or a claim still to come, leave nothing to mark.
LEMMA TickRow ==
  ASSUME TypeOK, NEW s \in Shards, NEW time, NEW o \in Outcomes(s, time),
         OneAt(s), Settled(s), RacesOf(s) = {}
  PROVE  /\ o.world.local > 0 => registry[s] = "local"
         /\ Owned(s) > 0 => o.world.local > 0 \/ o.marked = 1
         /\ Released(s) => o.marked = 1
<1> DEFINE a == AfterClaim(s)
<1>1. /\ world[s].local \in Nat /\ world[s].ghost \in Nat /\ commands[s].joined \in Nat
      /\ commands[s].ghostJoined \in Nat /\ commands[s].claim \in Nat /\ commands[s].left \in Nat
  <2>1. commands[s] \in Commands /\ world[s] \in [local : Nat, ghost : Nat]
    BY DEF TypeOK
  <2> QED
    BY <2>1 DEF Commands
<1>2. SpawnedLocal(s) \in Nat /\ Owned(s) = SpawnedLocal(s) + commands[s].claim
  BY <1>1 DEF SpawnedLocal, Owned
<1>3. Owned(s) <= 1
  BY DEF OneAt
<1>4. /\ Released(s) => SpawnedLocal(s) > 0 /\ commands[s].left = 0
      /\ ~(commands[s].left > 0 /\ commands[s].claim > 0)
  <2>1. /\ "staleRelease" \notin RacesOf(s) /\ "releaseAndLeft" \notin RacesOf(s)
        /\ "claimAndLeft" \notin RacesOf(s)
    OBVIOUS
  <2>2. Released(s) => SpawnedLocal(s) # 0
    BY <2>1 DEF RacesOf
  <2>3. ~(commands[s].left > 0 /\ Released(s))
    BY <2>1 DEF RacesOf
  <2>4. ~(commands[s].left > 0 /\ commands[s].claim > 0)
    BY <2>1 DEF RacesOf
  <2> QED
    BY <1>1, <1>2, <2>2, <2>3, <2>4
<1>5. Claimed(s) = IF commands[s].claim > 0 THEN 1 ELSE 0
  <2>1. commands[s].claim > 0 => SpawnedGhost(s) > 0
    BY <1>1 DEF SpawnedGhost
  <2> QED
    BY <2>1 DEF Claimed
<1>6. a \in [local : Nat, ghost : Nat] /\ a.local = SpawnedLocal(s) + Claimed(s)
  BY ClaimCounts
<1> HIDE DEF a
<1>7. /\ o.world.local \in Nat /\ o.marked \in {0, 1}
      /\ o.marked = 1 <=> Released(s)
      /\ o.world.local <= a.local - o.marked
      /\ commands[s].left = 0 => o.world.local = a.local - o.marked
  <2>1. ASSUME NEW n \in Nat, n >= SpawnedLocal(s), n <= a.local, o \in MarkFirst(s, n)
        PROVE  /\ o.world.local \in Nat /\ o.marked \in {0, 1}
               /\ o.marked = 1 <=> Released(s)
               /\ o.world.local <= a.local - o.marked
               /\ commands[s].left = 0 => o.world.local = a.local - o.marked
    <3> DEFINE m == Marked(s, n)
               g == Ghosted(a, m)
    <3>1. PICK w \in AfterDespawn(s, g) : o.marked = m /\ o.world = w
      BY <2>1 DEF MarkFirst, a
    <3>2. m \in {0, 1} /\ m <= n /\ (m = 1 <=> Released(s))
      BY <1>2, <1>4, <2>1, MarkedType
    <3> HIDE DEF m
    <3>3. g \in [local : Nat, ghost : Nat] /\ g.local = a.local - m
      BY <1>6, <2>1, <3>2 DEF Ghosted
    <3> HIDE DEF g
    <3>4. w \in [local : Nat, ghost : Nat] /\ w.local <= g.local
      BY <3>3, DespawnType
    <3>5. commands[s].left = 0 => w = g
      BY <3>1 DEF AfterDespawn
    <3> QED
      BY <3>1, <3>2, <3>3, <3>4, <3>5
  <2>2. ASSUME o \in DespawnFirst(s)
        PROVE  /\ o.world.local \in Nat /\ o.marked \in {0, 1}
               /\ o.marked = 1 <=> Released(s)
               /\ o.world.local <= a.local - o.marked
               /\ commands[s].left = 0 => o.world.local = a.local - o.marked
    <3>1. PICK w \in AfterDespawn(s, a) :
            o.marked = Marked(s, w.local) /\ o.world = Ghosted(w, Marked(s, w.local))
      BY <2>2 DEF DespawnFirst, a
    <3>2. w \in [local : Nat, ghost : Nat] /\ w.local <= a.local
      BY <1>6, DespawnType
    <3>3. commands[s].left = 0 => w = a
      BY <3>1 DEF AfterDespawn
    <3>4. Released(s) => w.local > 0
      BY <1>2, <1>4, <1>5, <1>6, <3>3
    <3> DEFINE m == Marked(s, w.local)
    <3>5. m \in {0, 1} /\ m <= w.local /\ (m = 1 <=> Released(s))
      BY <3>2, <3>4, MarkedType
    <3>6. o.marked = m /\ o.world = Ghosted(w, m)
      BY <3>1
    <3> HIDE DEF m
    <3>7. o.world.local = w.local - m
      BY <3>6 DEF Ghosted
    <3>8. o.world.local \in Nat /\ o.world.local <= a.local - m
      BY <1>6, <3>2, <3>5, <3>7
    <3> QED
      BY <3>3, <3>5, <3>6, <3>7, <3>8
  <2>3. /\ SpawnedLocal(s) + Claimed(s) \in Nat /\ SpawnedLocal(s) <= a.local
        /\ SpawnedLocal(s) <= SpawnedLocal(s) + Claimed(s)
    BY <1>2, <1>5, <1>6
  <2> QED
    BY <1>2, <1>6, <2>1, <2>2, <2>3, OutcomeCases
<1>8. ASSUME o.world.local > 0 PROVE registry[s] = "local"
  <2>0. Claimed(s) \in {0, 1} /\ Claimed(s) <= commands[s].claim /\ commands[s].claim \in Nat
    BY <1>1, <1>5
  <2>1. SpawnedLocal(s) + commands[s].claim = 1 /\ o.marked # 1
    BY <1>2, <1>3, <1>6, <1>7, <1>8, <2>0
  <2>2. ~Released(s)
    BY <1>7, <2>1
  <2> QED
    BY <1>1, <1>2, <2>1, <2>2 DEF Settled
<1>9. ASSUME Owned(s) > 0, ~Released(s) PROVE o.world.local > 0
  <2>1. commands[s].left = 0
    BY <1>1, <1>2, <1>4, <1>9 DEF Settled
  <2>2. o.marked = 0
    BY <1>7, <1>9
  <2> QED
    BY <1>1, <1>2, <1>5, <1>6, <1>7, <1>9, <2>1, <2>2
<1> QED
  BY <1>7, <1>8, <1>9

\* A tick keeps the invariant.
LEMMA KeptTick ==
  ASSUME KeptInv, ControlInv', NEW s \in Shards, Tick(s)
  PROVE  /\ KeptInv'
         /\ SomeAuthority' => SomeAuthority
<1>1. TypeOK /\ TypeOK' /\ AuthorityInv
  BY DEF KeptInv, ControlInv, AuthorityInv
<1>2. PICK time, o :
        /\ o \in Outcomes(s, time)
        /\ world' = [world EXCEPT ![s] = o.world]
        /\ \A r \in Shards :
             /\ o.marked # 1 \/ commands[s].release[r] = 0 => Grants(down'[r]) = Grants(down[r])
             /\ o.marked = 1 /\ commands[s].release[r] = 1
                  => OneGrantMore(down[r], down'[r])
             /\ Has(down'[r], "Spawn") => Has(down[r], "Spawn")
             /\ down[r] # << >> => Head(down'[r]) = Head(down[r])
        /\ o.world.local = 0 /\ o.marked # 1 => down' = down /\ qdown' = qdown
  BY <1>1, TickQueues
<1>3. /\ commands' = [commands EXCEPT ![s] = NoCommands] /\ races' = races \cup RacesOf(s)
      /\ player' = player /\ registry' = registry /\ posSubs' = posSubs
  BY DEF Tick
<1>4. /\ commands'[s] = NoCommands
      /\ \A r \in Shards : r # s => commands'[r] = commands[r] /\ world'[r] = world[r]
  BY <1>1, <1>2, <1>3 DEF TypeOK
<1>5. /\ Owned(s)' = o.world.local
      /\ \A r \in Shards : r # s => Owned(r)' = Owned(r)
      /\ \A r \in Shards : Owned(r) \in Nat
      /\ o.world.local \in Nat /\ o.marked \in {0, 1} /\ o.world.local + o.marked <= Owned(s)
  BY <1>1, <1>2, TickOwned
<1>6. SpawnedLocal(s)' = o.world.local
  <2>1. world'[s] = o.world
    BY <1>1, <1>2 DEF TypeOK
  <2> QED
    BY <1>4, <1>5, <2>1 DEF SpawnedLocal, NoCommands
<1>7. o.marked # 1 => \A r \in Shards : Grants(down'[r]) = Grants(down[r])
  BY <1>2
<1>9. NothingYet'
  <2> SUFFICES ASSUME player = "out" PROVE NothingYet'
    BY <1>3 DEF NothingYet
  <2>1. /\ races = {} /\ qdown = << >> /\ posSubs = {}
        /\ \A r \in Shards : down[r] = << >> /\ registry[r] = "absent" /\ commands[r] = NoCommands
    BY DEF KeptInv, NothingYet
  <2>2. Owned(s) = 0
    BY <1>1, <1>5 DEF AuthorityInv, NoneBeforeSpawn, HasAuthority
  <2>3. o.world.local = 0 /\ o.marked # 1
    BY <1>5, <2>2
  <2>4. qdown' = << >> /\ \A r \in Shards : down'[r] = << >>
    BY <1>2, <2>1, <2>3
  <2>5. RacesOf(s) = {}
    BY <2>1 DEF RacesOf, Released, NoCommands
  <2>6. \A r \in Shards : commands'[r] = NoCommands
    BY <1>4, <2>1
  <2> QED
    BY <1>3, <2>1, <2>4, <2>5, <2>6 DEF NothingYet
<1>10. ASSUME races' = {}, NEW r \in Shards PROVE SpawnWaits(r)'
  <2> SUFFICES ASSUME Has(down'[r], "Spawn") PROVE SpawnWaits(r)'
    BY DEF SpawnWaits
  <2>1. Has(down[r], "Spawn") /\ down[r] # << >>
    BY <1>2 DEF Has
  <2>2. Head(down[r]).type = "Spawn" /\ registry[r] = "absent" /\ commands[r].left = 0
    BY <1>3, <1>10, <2>1 DEF KeptInv, SpawnWaits
  <2>3. commands'[r].left = 0
    BY <1>4, <2>2 DEF NoCommands
  <2> QED
    BY <1>2, <1>3, <2>1, <2>2, <2>3 DEF SpawnWaits
<1>11. ASSUME player' = "in", races' = {} PROVE SomeAuthority' /\ \A r \in Shards : Settled(r)'
  <2>1. /\ races = {} /\ RacesOf(s) = {} /\ OneAt(s) /\ SomeAuthority
        /\ \A r \in Shards : Settled(r)
    BY <1>1, <1>3, <1>11 DEF KeptInv, AuthorityInv, OneHolder
  <2>2. /\ o.world.local > 0 => registry[s] = "local"
        /\ Owned(s) > 0 => o.world.local > 0 \/ o.marked = 1
    BY <1>1, <1>2, <2>1, TickRow
  <2>3. Settled(s)'
    BY <1>3, <1>4, <1>6, <2>2 DEF Settled, NoCommands
  <2>4. \A r \in Shards : r # s => Settled(r)'
    BY <1>3, <1>4, <2>1 DEF Settled, SpawnedLocal, Released
  <2>5. SomeAuthority'
    <3>1. CASE o.marked # 1
      <4>1. \A r \in Shards : HasAuthority(r) => HasAuthority(r)'
        BY <1>5, <1>7, <2>2, <3>1 DEF HasAuthority
      <4> QED
        BY <2>1, <4>1 DEF SomeAuthority
    <3>2. CASE o.marked = 1
      <4>1. PICK r \in Shards : commands[s].release[r] > 0
        BY <1>1, <1>2, <3>2, OutcomeType DEF Released
      <4>2. commands[s].release[r] = 1
        <5>1. commands[s].release[r] \in Nat
          BY <1>1 DEF TypeOK, Commands
        <5>2. "twoReleases" \notin RacesOf(s)
          BY <2>1
        <5> QED
          BY <4>1, <5>1, <5>2 DEF RacesOf
      <4>3. Grants(down'[r]) # {}
        BY <1>2, <3>2, <4>2 DEF OneGrantMore
      <4> QED
        BY <4>3 DEF SomeAuthority, HasAuthority
    <3> QED
      BY <3>1, <3>2
  <2> QED
    BY <2>3, <2>4, <2>5
<1>12. SomeAuthority' => SomeAuthority
  <2>1. CASE o.marked # 1
    <3>1. \A r \in Shards : HasAuthority(r)' => HasAuthority(r)
      BY <1>5, <1>7, <2>1 DEF HasAuthority
    <3> QED
      BY <3>1 DEF SomeAuthority
  <2>2. CASE o.marked = 1
    BY <1>5, <2>2 DEF SomeAuthority, HasAuthority
  <2> QED
    BY <2>1, <2>2
<1>13. races' = {} => races = {}
  BY <1>3
<1> QED
  BY <1>9, <1>10, <1>11, <1>12, <1>13 DEF KeptInv

\* Deliveries leave the first message of a queue.
LEMMA DeliverFirst ==
  ASSUME TypeOK, NEW S, NEW m \in ShardMessages, NEW r \in Shards, down[r] # << >>
  PROVE  Head(Deliver(S, m)[r]) = Head(down[r])
<1>1. down[r] \in Seq(ShardMessages)
  BY DEF TypeOK
<1>2. Head(Append(down[r], m)) = Head(down[r])
  BY <1>1, FirstStays
<1> QED
  BY <1>2 DEF Deliver

\* A step of the client, the ability service or the quadtree delivers at most
\* one message, and none that grants the authority.
LEMMA OutsideStep ==
  ASSUME TypeOK, ClientDisconnects \/ EntityKilled \/ QuadtreeNext
  PROVE  /\ UNCHANGED << commands, world, registry, races >>
         /\ \/ player' = player
            \/ player = "in" /\ player' = "gone" /\ ClientDisconnects
         /\ player = "out" => qdown # << >>
         /\ \A r \in Shards : /\ Grants(down'[r]) = Grants(down[r])
                              /\ Has(down'[r], "Spawn") => Has(down[r], "Spawn")
                              /\ down[r] # << >> => Head(down'[r]) = Head(down[r])
<1>1. ASSUME NEW S, NEW m \in ShardMessages, m.type \notin {"Spawn", "Claim"},
             down' = Deliver(S, m), NEW r \in Shards
      PROVE  /\ Grants(down'[r]) = Grants(down[r])
             /\ Has(down'[r], "Spawn") => Has(down[r], "Spawn")
             /\ down[r] # << >> => Head(down'[r]) = Head(down[r])
  BY <1>1, DeliverGrants, DeliverHas, DeliverFirst
<1>2. CASE ClientDisconnects
  BY <1>1, <1>2, MessageTypes, MessageKinds DEF ClientDisconnects, shardVars
<1>3. CASE EntityKilled
  BY <1>1, <1>3, MessageTypes, MessageKinds DEF EntityKilled, shardVars
<1>4. CASE QuadtreeNext
  <2>1. /\ UNCHANGED << commands, world, registry, races >> /\ player' = player /\ qdown # << >>
    BY <1>4 DEF QuadtreeNext, HandleEntityPositionUpdate, QuadtreeDisconnect, shardVars, clientVars
  <2>2. CASE down' = down
    BY <2>1, <2>2
  <2>3. CASE /\ HandleEntityPositionUpdate
             /\ down' = Deliver({entity_owners}, ReleaseMsg(ShardAt[Head(qdown).pos]))
    <3>1. Head(qdown) \in QuadtreeMessages /\ Head(qdown).type = "Position"
      BY <2>3 DEF HandleEntityPositionUpdate, TypeOK
    <3>2. ShardAt[Head(qdown).pos] \in Shards
      BY <3>1, QuadtreeFields, LayoutAssumption
    <3>3. ReleaseMsg(ShardAt[Head(qdown).pos]) \in ShardMessages
          /\ ReleaseMsg(ShardAt[Head(qdown).pos]).type = "Release"
      BY <3>2, MessageTypes, MessageKinds
    <3> QED
      BY <1>1, <2>1, <2>3, <3>3
  <2> QED
    BY <1>4, <2>2, <2>3 DEF QuadtreeNext, HandleEntityPositionUpdate, QuadtreeDisconnect,
                            quadtreeVars
<1> QED
  BY <1>2, <1>3, <1>4

\* Every step keeps the invariant.
LEMMA KeptStep == KeptInv /\ [Next]_vars => KeptInv'
<1> SUFFICES ASSUME KeptInv, [Next]_vars PROVE KeptInv'
  OBVIOUS
<1>1. TypeOK /\ ControlInv'
  BY ControlStep DEF KeptInv, ControlInv, AuthorityInv
<1>2. ASSUME NEW p \in Positions, SpawnPlayerOnShard(p) PROVE KeptInv'
  BY <1>1, <1>2, KeptSpawn
<1>3. CASE ClientDisconnects \/ EntityKilled \/ QuadtreeNext
  <2>1. player # "out"
    BY <1>1, <1>3, OutsideStep DEF KeptInv, NothingYet
  <2> QED
    BY <1>1, <1>3, <2>1, OutsideStep, KeptQuiet
<1>4. ASSUME NEW s \in Shards, ReceiveNext(s) PROVE KeptInv'
  BY <1>1, <1>4, KeptReceive
<1>5. ASSUME NEW s \in Shards, Tick(s) PROVE KeptInv'
  BY <1>1, <1>5, KeptTick
<1>6. CASE UNCHANGED vars
  BY <1>1, <1>6 DEF vars, KeptInv, NothingYet, SpawnWaits, Settled, SpawnedLocal, Released,
                    SomeAuthority, HasAuthority, Owned
<1> QED
  BY <1>2, <1>3, <1>4, <1>5, <1>6 DEF Next

\* Whoever has authority shows up in the authority of the model.
LEMMA AuthorityIsSomewhere == TypeOK /\ SomeAuthority => Authority # {}
<1> SUFFICES ASSUME TypeOK, NEW s \in Shards, HasAuthority(s) PROVE Authority # {}
  BY DEF SomeAuthority
<1>1. Held(s) \cup Ordered(s) \cup Sent(s) \subseteq Authority
  BY DEF Authority
<1>2. /\ world[s].local \in Nat /\ commands[s].joined \in Nat /\ commands[s].claim \in Nat
  BY OwnedType
<1>3. CASE Grants(down[s]) # {}
  BY <1>1, <1>3 DEF Sent
<1>4. CASE Owned(s) > 0
  <2>1. world[s].local >= 1 \/ commands[s].joined >= 1 \/ commands[s].claim >= 1
    BY <1>2, <1>4 DEF Owned
  <2>2. \/ 1 \in 1..world[s].local \/ 1 \in 1..commands[s].joined \/ 1 \in 1..commands[s].claim
    BY <1>2, <2>1
  <2> QED
    BY <1>1, <2>2 DEF Held, Ordered
<1> QED
  BY <1>3, <1>4 DEF HasAuthority

\* The authority over an entity whose client is connected is never lost on its
\* way from shard to shard, outside the races of a tick.
THEOREM AuthorityIsKept == Spec => []AuthorityKept
<1>1. Spec => []KeptInv
  BY KeptInit, KeptStep, PTL DEF Spec
<1>2. KeptInv => AuthorityKept
  BY AuthorityIsSomewhere DEF KeptInv, ControlInv, AuthorityInv, AuthorityKept
<1> QED
  BY <1>1, <1>2, PTL
----------------------------------------------------------------------------
(***************************************************************************)
(* The handoff by messages implements the transfer of one authority.       *)
(***************************************************************************)

\* The holder is a shard if there is any authority.
LEMMA HolderType ==
  /\ SomeAuthority => Holder \in Shards
  /\ ~SomeAuthority => Holder = NoShard
  /\ SomeAuthority' => Holder' \in Shards
  /\ ~SomeAuthority' => Holder' = NoShard
BY DEF Holder, SomeAuthority

\* A step that changes nobody's authority leaves the holder.
LEMMA HolderStays ==
  ASSUME \A s \in Shards : HasAuthority(s)' <=> HasAuthority(s)
  PROVE  Holder' = Holder /\ (SomeAuthority' <=> SomeAuthority)
BY DEF Holder, SomeAuthority

\* The first state is one of the abstract specification.
LEMMA AbstractInit == Init => O!Init
<1> SUFFICES ASSUME Init PROVE O!Init
  OBVIOUS
<1>1. AuthorityInv /\ player = "out" /\ races = {}
  BY AuthorityInit DEF Init
<1>2. ~SomeAuthority
  BY <1>1 DEF AuthorityInv, NoneBeforeSpawn, SomeAuthority
<1> QED
  BY <1>1, <1>2, HolderType DEF O!Init

\* A step without races is one of the abstract specification or a stutter.
LEMMA OrderlyStep ==
  ASSUME KeptInv, KeptInv', [Next]_vars, races = {}, races' = {}
  PROVE  [O!Next]_(O!vars)
<1>1. TypeOK /\ NoShard \notin Shards
  BY LayoutAssumption DEF KeptInv, ControlInv, AuthorityInv
<1>2. ASSUME NEW p \in Positions, SpawnPlayerOnShard(p) PROVE O!Next
  <2>1. player = "out" /\ player' = "in"
    BY <1>2 DEF SpawnPlayerOnShard
  <2>2. SomeAuthority'
    BY <2>1 DEF KeptInv
  <2>3. O!Join(Holder')
    BY <2>1 DEF O!Join
  <2> QED
    BY <2>2, <2>3, HolderType DEF O!Next
<1>3. CASE ClientDisconnects \/ EntityKilled \/ QuadtreeNext
  <2>1. \A r \in Shards : HasAuthority(r)' <=> HasAuthority(r)
    BY <1>1, <1>3, OutsideStep DEF HasAuthority, Owned
  <2>2. Holder' = Holder
    BY <2>1, HolderStays
  <2>3. CASE player' = player
    BY <2>2, <2>3 DEF O!vars
  <2>4. CASE player = "in" /\ player' = "gone"
    BY <2>2, <2>4 DEF O!Next, O!Leave
  <2> QED
    BY <1>1, <1>3, <2>3, <2>4, OutsideStep
<1>4. ASSUME NEW s \in Shards, ReceiveNext(s) PROVE UNCHANGED O!vars
  <2>1. \A r \in Shards : HasAuthority(r)' <=> HasAuthority(r)
    BY <1>4, KeptReceive DEF KeptInv
  <2>2. Holder' = Holder
    BY <2>1, HolderStays
  <2>3. player' = player
    BY <1>1, <1>4, ReceiveHoldings
  <2> QED
    BY <2>2, <2>3 DEF O!vars
<1>5. ASSUME NEW s \in Shards, Tick(s) PROVE [O!Next]_(O!vars)
  <2>1. player' = player /\ (SomeAuthority' => SomeAuthority)
    BY <1>5, KeptTick DEF Tick, KeptInv
  <2>2. CASE SomeAuthority'
    <3>1. Holder \in Shards /\ Holder' \in Shards
      BY <2>1, <2>2, HolderType
    <3>2. O!Pass(Holder')
      BY <1>1, <2>1, <3>1 DEF O!Pass
    <3> QED
      BY <3>1, <3>2 DEF O!Next
  <2>3. CASE ~SomeAuthority'
    <3>1. Holder' = NoShard /\ player # "in"
      BY <2>1, <2>3, HolderType DEF KeptInv
    <3>2. CASE player = "gone"
      BY <2>1, <3>1, <3>2 DEF O!Next, O!Drop
    <3>3. CASE player = "out"
      <4>1. ~SomeAuthority
        BY <3>3 DEF KeptInv, ControlInv, AuthorityInv, NoneBeforeSpawn, SomeAuthority
      <4> QED
        BY <2>1, <3>1, <4>1, HolderType DEF O!vars
    <3> QED
      BY <1>1, <3>1, <3>2, <3>3 DEF TypeOK
  <2> QED
    BY <2>2, <2>3
<1>6. CASE UNCHANGED vars
  <2>1. \A r \in Shards : HasAuthority(r)' <=> HasAuthority(r)
    BY <1>6 DEF vars, HasAuthority, Owned
  <2> QED
    BY <1>6, <2>1, HolderStays DEF vars, O!vars
<1> QED
  BY <1>2, <1>3, <1>4, <1>5, <1>6 DEF Next

\* What a step does to the client and to the history of races.
LEMMA SessionStep ==
  ASSUME TypeOK, [Next]_vars
  PROVE  /\ \/ player' = player
            \/ player = "in" /\ player' = "gone"
            \/ player = "out" /\ player' = "in" /\ races' = races
         /\ races \subseteq races'
<1>1. ASSUME NEW p \in Positions, SpawnPlayerOnShard(p)
      PROVE  player = "out" /\ player' = "in" /\ races' = races
  BY <1>1 DEF SpawnPlayerOnShard, shardVars
<1>2. CASE ClientDisconnects \/ EntityKilled \/ QuadtreeNext
  BY <1>2, OutsideStep
<1>3. ASSUME NEW s \in Shards, ReceiveNext(s) PROVE player' = player /\ races' = races
  BY <1>3, ReceiveHoldings
<1>4. ASSUME NEW s \in Shards, Tick(s) PROVE player' = player /\ races \subseteq races'
  BY <1>4 DEF Tick
<1>5. CASE UNCHANGED vars
  BY <1>5 DEF vars
<1> QED
  BY <1>1, <1>2, <1>3, <1>4, <1>5 DEF Next

\* Every step maps to a step or a stutter.
LEMMA AbstractStep == KeptInv /\ [Next]_vars => [O!Next]_(O!vars)
<1> SUFFICES ASSUME KeptInv, [Next]_vars PROVE [O!Next]_(O!vars)
  OBVIOUS
<1>1. KeptInv' /\ TypeOK
  BY KeptStep DEF KeptInv, ControlInv, AuthorityInv
<1>2. /\ \/ player' = player
         \/ player = "in" /\ player' = "gone"
         \/ player = "out" /\ player' = "in" /\ races' = races
      /\ races \subseteq races'
  BY <1>1, SessionStep
<1>3. CASE races' = {}
  BY <1>1, <1>2, <1>3, OrderlyStep
<1>4. CASE races' # {}
  <2>1. player # "out"
    BY <1>1, <1>2, <1>4 DEF KeptInv, NothingYet
  <2>2. Holder' \in Shards \cup {NoShard}
    BY HolderType
  <2>3. O!Disorder
    BY <1>2, <1>4, <2>1, <2>2 DEF O!Disorder
  <2> QED
    BY <2>3 DEF O!Next
<1> QED
  BY <1>3, <1>4

\* The handoff implements Ownership: the entity is passed from shard to shard,
\* only by the shard that has it, from its spawn until its client has left.
THEOREM HandoffImplementsOwnership == Spec => AuthorityMoves
<1>1. Spec => []KeptInv
  BY KeptInit, KeptStep, PTL DEF Spec
<1> QED
  BY <1>1, AbstractInit, AbstractStep, PTL DEF Spec, O!Spec, AuthorityMoves
----------------------------------------------------------------------------
(***************************************************************************)
(* The owner.  Every release that has not been answered yet is an edge     *)
(* from the shard that is to answer it to the shard it is to claim the     *)
(* entity, and one edge more leads back from the quadtree's owner to the   *)
(* holder of the authority.  Every edge is entered from an edge of its     *)
(* own, so when no release is left the owner and the holder are the same.  *)
(***************************************************************************)
Edge(k, s, r, i) == [kind |-> k, from |-> s, to |-> r, n |-> i]

Releases == [kind : {"message", "command"}, from : Shards, to : Shards, n : Nat]

\* The i-th message of q is a release to r.
Asks(q, i, r) == i \in 1 .. Len(q) /\ q[i] = ReleaseMsg(r)

\* The release waits in the queue of the shard, or for its next tick.
Waits(e) ==
  \/ e.kind = "message" /\ Asks(down[e.from], e.n, e.to)
  \/ e.kind = "command" /\ e.n \in 1 .. commands[e.from].release[e.to]

Waiting == {e \in Releases : Waits(e)}

Back == Edge("back", entity_owners, Holder, 0)

\* Every edge of E is entered from an edge of its own.
Circulates(E) ==
  \E g \in [E -> E] : /\ \A e \in E : g[e].to = e.from
                      /\ \A e, f \in E : g[e] = g[f] => e = f

OwnerInv ==
  /\ KeptInv
  /\ player # "gone" => ~Has(qdown, "Disconnect")
  /\ player = "in" => entity_map # Nowhere /\ entity_owners \in Shards
  /\ player = "in" /\ races = {} => Circulates(Waiting \cup {Back})

\* Edges may be named otherwise.
LEMMA CirculatesRenamed ==
  ASSUME NEW E, NEW F, Circulates(E), NEW h \in [E -> F], NEW k \in [F -> E],
         \A e \in E : k[h[e]] = e /\ h[e].from = e.from /\ h[e].to = e.to,
         \A f \in F : h[k[f]] = f
  PROVE  Circulates(F)
<1>1. PICK g \in [E -> E] : /\ \A e \in E : g[e].to = e.from
                            /\ \A e, f \in E : g[e] = g[f] => e = f
  BY DEF Circulates
<1> DEFINE G == [f \in F |-> h[g[k[f]]]]
<1>2. \A f \in F : k[f] \in E /\ g[k[f]] \in E /\ G[f] \in F
  BY <1>1
<1>3. \A f \in F : k[f].from = f.from
  OBVIOUS
<1>4. \A f \in F : G[f].to = f.from
  BY <1>1, <1>2, <1>3
<1>5. \A e, f \in F : G[e] = G[f] => e = f
  BY <1>1, <1>2
<1>6. G \in [F -> F]
  BY <1>2
<1> HIDE DEF G
<1> QED
  BY <1>4, <1>5, <1>6 DEF Circulates

\* An edge b may be divided into an edge t and an edge c behind it.
LEMMA CirculatesDivided ==
  ASSUME NEW E, Circulates(E), NEW b \in E, NEW t, NEW c,
         t \notin E, c \notin E \ {b}, c # t,
         t.from = b.from, c.from = t.to, c.to = b.to
  PROVE  Circulates((E \ {b}) \cup {c, t})
<1>1. PICK g \in [E -> E] : /\ \A e \in E : g[e].to = e.from
                            /\ \A e, f \in E : g[e] = g[f] => e = f
  BY DEF Circulates
<1> DEFINE F == (E \ {b}) \cup {c, t}
           R(e) == IF e = b THEN c ELSE e
           G == [f \in F |-> IF f = c THEN t ELSE IF f = t THEN R(g[b]) ELSE R(g[f])]
<1>2. \A e \in E : /\ R(e) \in F \ {t} /\ R(e).to = e.to
                   /\ \A f \in E : R(e) = R(f) => e = f
  OBVIOUS
<1>3. \A f \in F : f # c /\ f # t => f \in E /\ f # b
  OBVIOUS
<1> HIDE DEF R
<1>4. G \in [F -> F]
  BY <1>1, <1>2, <1>3
<1>5. \A f \in F : G[f].to = f.from
  BY <1>1, <1>2, <1>3
<1>6. \A e, f \in F : G[e] = G[f] => e = f
  BY <1>1, <1>2, <1>3
<1> HIDE DEF G
<1> QED
  BY <1>4, <1>5, <1>6 DEF Circulates

\* An edge b and an edge t behind it may be joined to one edge c.
LEMMA CirculatesJoined ==
  ASSUME NEW E, Circulates(E), NEW b \in E, NEW t \in E, NEW c,
         b # t, c \notin E \ {b},
         b.to = t.from, c.from = b.from, c.to = t.to
  PROVE  Circulates((E \ {b, t}) \cup {c})
<1>1. PICK g \in [E -> E] : /\ \A e \in E : g[e].to = e.from
                            /\ \A e, f \in E : g[e] = g[f] => e = f
  BY DEF Circulates
<1> DEFINE F == (E \ {b, t}) \cup {c}
           X(f) == IF f = c THEN b ELSE f
           Y(e) == IF g[e] = b THEN g[t] ELSE g[e]
           R(e) == IF e = t THEN c ELSE e
           G == [f \in F |-> R(Y(X(f)))]
<1>2. \A f \in F : /\ X(f) \in E \ {t} /\ X(f).from = f.from
                   /\ \A e \in F : X(e) = X(f) => e = f
  OBVIOUS
<1>3. \A e \in E \ {t} : Y(e) \in E \ {b} /\ Y(e).to = e.from
  BY <1>1
<1>4. \A e, f \in E \ {t} : Y(e) = Y(f) => e = f
  BY <1>1
<1>5. \A e \in E \ {b} : /\ R(e) \in F /\ R(e).to = e.to
                         /\ \A f \in E \ {b} : R(e) = R(f) => e = f
  OBVIOUS
<1> HIDE DEF X, Y, R
<1>6. G \in [F -> F]
  BY <1>2, <1>3, <1>5
<1>7. \A f \in F : G[f].to = f.from
  BY <1>2, <1>3, <1>5
<1>8. \A e, f \in F : G[e] = G[f] => e = f
  BY <1>2, <1>3, <1>4, <1>5
<1> HIDE DEF G
<1> QED
  BY <1>6, <1>7, <1>8 DEF Circulates

\* A release says where to, and nothing else is one.
LEMMA ReleaseKinds ==
  /\ \A r, s : ReleaseMsg(r) = ReleaseMsg(s) => r = s
  /\ \A r : ReleaseMsg(r).type = "Release" /\ ReleaseMsg(r).to = r
  /\ \A m \in ShardMessages : m.type = "Release" => m.to \in Shards /\ m = ReleaseMsg(m.to)
BY DEF ShardMessages, PosMsg, ReleaseMsg, SpawnMsg, ClaimMsg, DisconnectMsg, KilledMsg

\* What a queue asks for after one message more.
LEMMA AsksAppend ==
  ASSUME NEW q \in Seq(ShardMessages), NEW m \in ShardMessages, NEW i, NEW r
  PROVE  Asks(Append(q, m), i, r) <=> Asks(q, i, r) \/ (i = Len(q) + 1 /\ m = ReleaseMsg(r))
<1>1. Len(Append(q, m)) = Len(q) + 1 /\ Append(q, m)[Len(q) + 1] = m /\ Len(q) \in Nat
  OBVIOUS
<1>2. \A j \in 1 .. Len(q) : Append(q, m)[j] = q[j]
  OBVIOUS
<1>3. i \in 1 .. Len(q) + 1 <=> i \in 1 .. Len(q) \/ i = Len(q) + 1
  BY <1>1
<1>4. ~(Len(q) + 1 \in 1 .. Len(q))
  BY <1>1
<1> QED
  BY <1>1, <1>2, <1>3, <1>4 DEF Asks

\* What a queue asks for after its head was read.
LEMMA AsksTail ==
  ASSUME NEW q \in Seq(ShardMessages), q # << >>
  PROVE  /\ \A r : \A i \in Nat : Asks(Tail(q), i, r) => Asks(q, i + 1, r)
         /\ \A r : \A i \in Nat : Asks(q, i, r) /\ i # 1 => i - 1 \in Nat /\ Asks(Tail(q), i - 1, r)
         /\ \A r : Asks(q, 1, r) <=> Head(q) = ReleaseMsg(r)
         /\ \A r : ~Asks(Tail(q), 0, r)
<1>1. Len(q) \in Nat /\ Len(q) > 0 /\ Head(q) = q[1] /\ Len(Tail(q)) = Len(q) - 1
  OBVIOUS
<1>2. \A i \in 1 .. Len(Tail(q)) : Tail(q)[i] = q[i + 1] /\ i + 1 \in 1 .. Len(q)
  OBVIOUS
<1>3. \A i \in 1 .. Len(q) : i # 1 => i - 1 \in 1 .. Len(Tail(q)) /\ Tail(q)[i - 1] = q[i]
  OBVIOUS
<1>4. \A r : \A i \in Nat : Asks(Tail(q), i, r) => Asks(q, i + 1, r)
  BY <1>2 DEF Asks
<1>5. \A r : \A i \in Nat : Asks(q, i, r) /\ i # 1 => i - 1 \in Nat /\ Asks(Tail(q), i - 1, r)
  BY <1>1, <1>3 DEF Asks
<1>6. 1 \in 1 .. Len(q) /\ ~(0 \in 1 .. Len(Tail(q)))
  BY <1>1
<1> QED
  BY <1>1, <1>4, <1>5, <1>6 DEF Asks

\* Claims ask for nothing.
LEMMA AsksClaims ==
  ASSUME TypeOK, NEW s \in Shards, NEW Q \in [Shards -> Seq(ShardMessages)], NEW marked,
         NEW x \in Shards, NEW i, NEW r
  PROVE  Asks(WithClaims(Q, s, marked)[x], i, r) <=> Asks(Q[x], i, r)
<1> DEFINE c == Copies(ClaimMsg, commands[s].release[x])
           q == Q[x]
<1>1. q \in Seq(ShardMessages) /\ ClaimMsg \in ShardMessages /\ ClaimMsg.type = "Claim"
  BY MessageTypes, MessageKinds
<1>2. commands[s].release[x] \in Nat
  BY DEF TypeOK, Commands
<1>3. c \in Seq(ShardMessages) /\ \A j \in 1 .. Len(c) : c[j].type = "Claim"
  BY <1>2, CopiesType
<1> HIDE DEF c, q
<1>4. Asks(q \o c, i, r) <=> Asks(q, i, r)
  <2>1. Len(q) \in Nat /\ Len(c) \in Nat /\ Len(q \o c) = Len(q) + Len(c)
    BY <1>1, <1>3, ConcatProperties
  <2>2. \A j \in 1 .. Len(q) + Len(c) : (q \o c)[j] = IF j <= Len(q) THEN q[j] ELSE c[j - Len(q)]
    BY <1>1, <1>3, <2>1, ConcatProperties
  <2>3. \A j \in 1 .. Len(q) : j \in 1 .. Len(q) + Len(c) /\ (q \o c)[j] = q[j]
    BY <2>1, <2>2
  <2>4. \A j \in 1 .. Len(q) + Len(c) : j \in 1 .. Len(q) \/ (q \o c)[j].type = "Claim"
    <3>1. \A j \in 1 .. Len(q) + Len(c) : j \in 1 .. Len(q) \/ j - Len(q) \in 1 .. Len(c)
      BY <2>1
    <3>2. \A j \in 1 .. Len(q) + Len(c) : j \in 1 .. Len(q) \/ ~(j <= Len(q))
      BY <2>1
    <3> QED
      BY <1>3, <2>2, <3>1, <3>2
  <2> QED
    BY <2>1, <2>3, <2>4, ReleaseKinds DEF Asks
<1> QED
  BY <1>4 DEF WithClaims, c, q

\* Positions ask for nothing.
LEMMA AsksPosition ==
  ASSUME NEW Q \in [Shards -> Seq(ShardMessages)], NEW p \in Positions,
         NEW x \in Shards, NEW i, NEW r
  PROVE  Asks(WithPosition(Q, p)[x], i, r) <=> Asks(Q[x], i, r)
<1>1. /\ Q[x] \in Seq(ShardMessages) /\ PosMsg(p) \in ShardMessages
      /\ PosMsg(p) # ReleaseMsg(r)
  BY MessageTypes, MessageKinds, ReleaseKinds
<1>2. Asks(Append(Q[x], PosMsg(p)), i, r) <=> Asks(Q[x], i, r)
  BY <1>1, AsksAppend
<1> QED
  BY <1>2 DEF WithPosition

\* What a tick sends asks for nothing and disconnects nobody.
LEMMA AsksTick ==
  ASSUME TypeOK, NEW s \in Shards, Tick(s)
  PROVE  /\ \A x \in Shards : \A i, r : Asks(down'[x], i, r) <=> Asks(down[x], i, r)
         /\ Has(qdown', "Disconnect") => Has(qdown, "Disconnect")
<1>2. PICK p, m :
        /\ p \in DiedTo(s)
        /\ \/ down' = WithClaims(WithPosition(down, p), s, m)
           \/ down' = WithPosition(WithClaims(down, s, m), p)
           \/ down' = WithClaims(down, s, m)
        /\ qdown' = Append(qdown, PosMsg(p)) \/ qdown' = qdown
  BY TickShape
<1>3. p \in Positions /\ down \in [Shards -> Seq(ShardMessages)]
  <2>1. p \in Moved(p)
    BY DEF Moved
  <2> QED
    BY <1>2, <2>1, PositionsType DEF TypeOK
<1>4. /\ WithPosition(down, p) \in [Shards -> Seq(ShardMessages)]
      /\ WithClaims(down, s, m) \in [Shards -> Seq(ShardMessages)]
  BY <1>3, PublishedType, ClaimsType
<1>5. ASSUME NEW x \in Shards, NEW i, NEW r PROVE Asks(down'[x], i, r) <=> Asks(down[x], i, r)
  <2>1. Asks(WithClaims(down, s, m)[x], i, r) <=> Asks(down[x], i, r)
    BY <1>3, AsksClaims
  <2>2. Asks(WithPosition(WithClaims(down, s, m), p)[x], i, r)
          <=> Asks(WithClaims(down, s, m)[x], i, r)
    BY <1>3, <1>4, AsksPosition
  <2>3. Asks(WithPosition(down, p)[x], i, r) <=> Asks(down[x], i, r)
    BY <1>3, AsksPosition
  <2>4. Asks(WithClaims(WithPosition(down, p), s, m)[x], i, r)
          <=> Asks(WithPosition(down, p)[x], i, r)
    BY <1>4, AsksClaims
  <2> QED
    BY <1>2, <2>1, <2>2, <2>3, <2>4
<1>6. Has(qdown', "Disconnect") => Has(qdown, "Disconnect")
  <2>1. /\ qdown \in Seq(QuadtreeMessages) /\ PosMsg(p) \in QuadtreeMessages
        /\ PosMsg(p).type = "Position"
    BY <1>3, MessageTypes, MessageKinds DEF TypeOK
  <2>2. /\ Len(Append(qdown, PosMsg(p))) = Len(qdown) + 1
        /\ \A j \in 1 .. Len(qdown) + 1 :
             Append(qdown, PosMsg(p))[j] = IF j = Len(qdown) + 1 THEN PosMsg(p) ELSE qdown[j]
        /\ Len(qdown) \in Nat
    BY <2>1
  <2>3. \A j \in 1 .. Len(qdown) + 1 : j = Len(qdown) + 1 \/ j \in 1 .. Len(qdown)
    BY <2>2
  <2>4. Has(Append(qdown, PosMsg(p)), "Disconnect") => Has(qdown, "Disconnect")
    BY <2>1, <2>2, <2>3 DEF Has
  <2> QED
    BY <1>2, <2>4
<1> QED
  BY <1>5, <1>6

\* A step that leaves the releases that wait.
LEMMA WaitingStays ==
  ASSUME \A x \in Shards, i \in Nat, r \in Shards : Asks(down'[x], i, r) <=> Asks(down[x], i, r),
         \A x, r \in Shards : commands'[x].release[r] = commands[x].release[r]
  PROVE  Waiting' = Waiting
<1>1. \A e \in Releases : Waits(e)' <=> Waits(e)
  BY DEF Releases, Waits
<1> QED
  BY <1>1 DEF Waiting

\* The edge that leads back is none of the releases.
LEMMA BackIsApart ==
  /\ Back \notin Waiting /\ Back' \notin Waiting'
  /\ Back.from = entity_owners /\ Back.to = Holder
  /\ Back'.from = entity_owners' /\ Back'.to = Holder'
BY DEF Back, Edge, Waiting, Releases

\* What is sent to the shards by the ability service asks for nothing.
LEMMA OwnerKilled ==
  ASSUME OwnerInv, KeptInv', EntityKilled
  PROVE  OwnerInv'
<1>1. TypeOK
  BY DEF OwnerInv, KeptInv, ControlInv, AuthorityInv
<1>2. /\ UNCHANGED << player, qdown, entity_map, entity_owners, commands, races >>
      /\ down' = Deliver(ctlSubs, KilledMsg)
  BY DEF EntityKilled, quadtreeVars, shardVars
<1>3. KilledMsg \in ShardMessages /\ \A r : KilledMsg # ReleaseMsg(r)
  BY MessageTypes, MessageKinds, ReleaseKinds
<1>4. \A x \in Shards, i \in Nat, r \in Shards : Asks(down'[x], i, r) <=> Asks(down[x], i, r)
  <2> SUFFICES ASSUME NEW x \in Shards, NEW i \in Nat, NEW r \in Shards
               PROVE  Asks(down'[x], i, r) <=> Asks(down[x], i, r)
    OBVIOUS
  <2>1. down[x] \in Seq(ShardMessages)
    BY <1>1 DEF TypeOK
  <2>2. down'[x] = down[x] \/ down'[x] = Append(down[x], KilledMsg)
    BY <1>2 DEF Deliver
  <2>3. Asks(Append(down[x], KilledMsg), i, r) <=> Asks(down[x], i, r)
    BY <1>3, <2>1, AsksAppend
  <2> QED
    BY <2>2, <2>3
<1>5. Waiting' = Waiting
  BY <1>2, <1>4, WaitingStays
<1>6. Holder' = Holder
  <2>1. \A r \in Shards : HasAuthority(r)' <=> HasAuthority(r)
    BY <1>1, OutsideStep DEF HasAuthority, Owned
  <2> QED
    BY <2>1, HolderStays
<1>7. Back' = Back
  BY <1>2, <1>6 DEF Back
<1> QED
  BY <1>2, <1>5, <1>7 DEF OwnerInv

\* The quadtree gives the owner away: the edge that leads back is divided.
LEMMA OwnerQuadtree ==
  ASSUME OwnerInv, KeptInv', QuadtreeNext
  PROVE  OwnerInv'
<1>1. TypeOK /\ qdown \in Seq(QuadtreeMessages) /\ qdown # << >> /\ player' = player /\ player # "out"
  BY OutsideStep DEF OwnerInv, KeptInv, ControlInv, AuthorityInv, NothingYet, QuadtreeNext,
     HandleEntityPositionUpdate, QuadtreeDisconnect, clientVars, TypeOK
<1> SUFFICES ASSUME player = "in" PROVE OwnerInv'
  BY <1>1 DEF OwnerInv, TypeOK
<1>2. ~Has(qdown, "Disconnect") /\ Head(qdown).type # "Disconnect" /\ ~Has(Tail(qdown), "Disconnect")
  <2>1. ~Has(qdown, "Disconnect")
    BY DEF OwnerInv
  <2>2. qdown \in Seq(ShardMessages)
    <3>1. QuadtreeMessages \subseteq ShardMessages
      BY DEF QuadtreeMessages, ShardMessages
    <3> QED
      BY <1>1, <3>1
  <2> QED
    BY <1>1, <2>1, <2>2, HasTail
<1>3. HandleEntityPositionUpdate /\ Head(qdown).type = "Position" /\ qdown' = Tail(qdown)
  BY <1>2 DEF QuadtreeNext, QuadtreeDisconnect, HandleEntityPositionUpdate
<1> DEFINE p == Head(qdown).pos
<1>4. p \in Positions /\ ShardAt[p] \in Shards
  BY <1>1, <1>3, QuadtreeFields, LayoutAssumption
<1>5. entity_map # Nowhere /\ entity_owners \in Shards
  BY DEF OwnerInv
<1>6. /\ entity_map' = p /\ UNCHANGED << commands, races >>
      /\ \/ UNCHANGED << down, entity_owners >>
         \/ /\ down' = Deliver({entity_owners}, ReleaseMsg(ShardAt[p]))
            /\ entity_owners' = ShardAt[p]
  BY <1>3, <1>5 DEF HandleEntityPositionUpdate, shardVars
<1>7. Holder' = Holder
  <2>1. \A r \in Shards : HasAuthority(r)' <=> HasAuthority(r)
    BY <1>1, OutsideStep DEF HasAuthority, Owned
  <2> QED
    BY <2>1, HolderStays
<1>8. entity_map' # Nowhere /\ entity_owners' \in Shards
  BY <1>4, <1>5, <1>6, LayoutAssumption
<1>9. ASSUME races = {} PROVE Circulates(Waiting' \cup {Back'})
  <2>1. Circulates(Waiting \cup {Back})
    BY <1>9 DEF OwnerInv
  <2>2. CASE UNCHANGED << down, entity_owners >>
    <3>1. Waiting' = Waiting /\ Back' = Back
      BY <1>6, <1>7, <2>2 DEF Waiting, Waits, Back
    <3> QED
      BY <2>1, <3>1
  <2>3. CASE /\ down' = Deliver({entity_owners}, ReleaseMsg(ShardAt[p]))
             /\ entity_owners' = ShardAt[p]
    <3> PICK o \in Shards : o = entity_owners
      BY <1>5
    <3> PICK n \in Shards : n = ShardAt[p]
      BY <1>4
    <3> PICK j : j = Len(down[o]) + 1
      OBVIOUS
    <3> DEFINE t == Edge("message", o, n, j)
    <3>1. down[o] \in Seq(ShardMessages) /\ ReleaseMsg(n) \in ShardMessages /\ Len(down[o]) \in Nat
      BY <1>1, MessageTypes DEF TypeOK
    <3>2. /\ down'[o] = Append(down[o], ReleaseMsg(n))
          /\ \A x \in Shards : x # o => down'[x] = down[x]
      BY <2>3 DEF Deliver
    <3>3. \A i, r : Asks(down'[o], i, r) <=> Asks(down[o], i, r) \/ (i = j /\ r = n)
      BY <3>1, <3>2, AsksAppend, ReleaseKinds
    <3>4. t \in Releases /\ t.kind = "message" /\ t.from = o /\ t.to = n /\ t.n = j
      BY <3>1 DEF Edge, Releases
    <3>5. \A e \in Releases : e.kind = "message" /\ e.from = o /\ e.to = n /\ e.n = j => e = t
      BY DEF Edge, Releases
    <3>6. ~Asks(down[o], j, n)
      BY <3>1 DEF Asks
    <3> HIDE DEF t
    <3>7. ASSUME NEW e \in Releases PROVE Waits(e)' <=> Waits(e) \/ e = t
      <4>1. e.kind \in {"message", "command"} /\ e.from \in Shards
        BY DEF Releases
      <4>2. CASE e.kind = "command"
        <5>1. e # t
          BY <3>4, <4>2
        <5> QED
          BY <1>6, <4>2, <5>1 DEF Waits
      <4>3. CASE e.kind = "message" /\ e.from # o
        <5>1. e # t /\ down'[e.from] = down[e.from]
          BY <3>2, <3>4, <4>1, <4>3
        <5> QED
          BY <4>3, <5>1 DEF Waits, Asks
      <4>4. CASE e.kind = "message" /\ e.from = o
        <5>1. e = t <=> e.n = j /\ e.to = n
          BY <3>4, <3>5, <4>4
        <5>2. /\ Waits(e)' <=> Asks(down'[o], e.n, e.to)
              /\ Waits(e) <=> Asks(down[o], e.n, e.to)
          BY <4>4 DEF Waits, Asks
        <5> QED
          BY <3>3, <5>1, <5>2
      <4> QED
        BY <4>1, <4>2, <4>3, <4>4
    <3>8. Waiting' = Waiting \cup {t} /\ t \notin Waiting
      BY <3>4, <3>6, <3>7 DEF Waiting, Waits
    <3>9. t # Back /\ t # Back'
      <4>1. Back.kind = "back" /\ Back'.kind = "back"
        BY DEF Back, Edge
      <4> QED
        BY <3>4, <4>1
    <3>10. /\ ((Waiting \cup {Back}) \ {Back}) \cup {Back', t} = Waiting' \cup {Back'}
           /\ Back' \notin (Waiting \cup {Back}) \ {Back}
      BY <3>8, BackIsApart
    <3>11. t.from = Back.from /\ Back'.from = t.to /\ Back'.to = Back.to
      BY <1>7, <2>3, <3>4, BackIsApart
    <3> QED
      BY <2>1, <3>8, <3>9, <3>10, <3>11, CirculatesDivided
  <2> QED
    BY <1>6, <2>2, <2>3
<1> QED
  BY <1>1, <1>2, <1>3, <1>6, <1>8, <1>9 DEF OwnerInv

\* What reading a message does to the releases that wait for the next tick.
LEMMA ReceiveReleases ==
  ASSUME TypeOK, NEW s \in Shards, ReceiveNext(s), NEW x \in Shards, NEW r \in Shards
  PROVE  commands'[x].release[r] =
           IF x = s /\ Head(down[s]) = ReleaseMsg(r) THEN commands[x].release[r] + 1
                                                     ELSE commands[x].release[r]
<1>1. commands \in [Shards -> Commands] /\ commands[s] \in Commands /\ commands[x] \in Commands
  BY DEF TypeOK
<1>2. CASE x # s
  BY <1>2, ReceiveHoldings
<1> SUFFICES ASSUME x = s
             PROVE  commands'[s].release[r] =
                      IF Head(down[s]) = ReleaseMsg(r) THEN commands[s].release[r] + 1
                                                       ELSE commands[s].release[r]
  BY <1>2
<1>3. CASE HandleReleaseOwnership(s)
  <2>1. Head(down[s]) \in ShardMessages /\ Head(down[s]).type = "Release"
    BY <1>3, ReceiveType DEF HandleReleaseOwnership
  <2> PICK y \in Shards : y = Head(down[s]).to /\ Head(down[s]) = ReleaseMsg(y)
    BY <2>1, ReleaseKinds
  <2>2. commands' = [commands EXCEPT ![s].release[y] = @ + 1]
    BY <1>3 DEF HandleReleaseOwnership
  <2>3. commands'[s].release[r] = IF r = y THEN commands[s].release[r] + 1 ELSE commands[s].release[r]
    BY <1>1, <2>2 DEF Commands
  <2>4. Head(down[s]) = ReleaseMsg(r) <=> r = y
    BY ReleaseKinds
  <2> QED
    BY <2>3, <2>4
<1>4. CASE \/ HandleReceiveNewPlayer(s) \/ HandleGhostPosition(s) \/ HandleDisconnect(s)
           \/ HandleKilled(s) \/ HandleClaimOwnership(s)
  <2>1. Head(down[s]) # ReleaseMsg(r)
    BY <1>4, ReleaseKinds DEF HandleReceiveNewPlayer, HandleGhostPosition, HandleDisconnect,
                              HandleKilled, HandleClaimOwnership, Receive
  <2>2. commands'[s].release = commands[s].release
    <3>1. \/ commands' = commands
          \/ commands' = [commands EXCEPT ![s].joined = @ + 1]
          \/ commands' = [commands EXCEPT ![s].ghostJoined = @ + 1]
          \/ commands' = [commands EXCEPT ![s].left = @ + 1]
          \/ commands' = [commands EXCEPT ![s].claim = @ + 1]
          \/ commands' = [commands EXCEPT ![s].died = @ + 1]
      BY <1>4 DEF HandleReceiveNewPlayer, HandleGhostPosition, HandleDisconnect, HandleKilled,
                  HandleClaimOwnership
    <3> QED
      BY <1>1, <3>1 DEF Commands
  <2> QED
    BY <2>1, <2>2
<1> QED
  BY <1>3, <1>4 DEF ReceiveNext

\* A release that is read goes on waiting, for the next tick; those behind it
\* in the queue move up.
LEMMA OwnerReceive ==
  ASSUME OwnerInv, KeptInv', NEW s \in Shards, ReceiveNext(s)
  PROVE  OwnerInv'
<1>1. TypeOK /\ ControlInv'
  BY DEF OwnerInv, KeptInv, ControlInv, AuthorityInv
<1>2. /\ races' = races /\ player' = player
      /\ down[s] \in Seq(ShardMessages) /\ down[s] # << >>
      /\ down' = [down EXCEPT ![s] = Tail(@)] /\ down \in [Shards -> Seq(ShardMessages)]
      /\ UNCHANGED << qdown, entity_map, entity_owners >>
  <2>1. \E k : Receive(s, k)
    BY DEF ReceiveNext, HandleReceiveNewPlayer, HandleGhostPosition, HandleDisconnect,
           HandleKilled, HandleClaimOwnership, HandleReleaseOwnership
  <2> QED
    BY <1>1, <2>1, ReceiveHoldings DEF Receive, quadtreeVars, TypeOK
<1> SUFFICES ASSUME player = "in", races = {}, Circulates(Waiting \cup {Back})
             PROVE  Circulates(Waiting' \cup {Back'})
  BY <1>2 DEF OwnerInv
<1>3. Back' = Back
  BY <1>1, <1>2, KeptReceive, HolderStays DEF OwnerInv, Back
<1>4. /\ down'[s] = Tail(down[s])
      /\ \A x \in Shards : x # s => down'[x] = down[x]
  BY <1>2
<1>5. \A x, r \in Shards : commands[x].release[r] \in Nat
  BY <1>1 DEF TypeOK, Commands
\* The release that is read, before and after.
<1> DEFINE First(e) == e.kind = "message" /\ e.from = s /\ e.n = 1
<1> PICK head : head = Head(down[s])
  OBVIOUS
<1> PICK count \in [Shards -> Nat] : \A r \in Shards : count[r] = commands[s].release[r]
  <2>1. [r \in Shards |-> commands[s].release[r]] \in [Shards -> Nat]
    BY <1>5
  <2> QED
    BY <2>1
<1> DEFINE Last(e) == /\ e.kind = "command" /\ e.from = s /\ head = ReleaseMsg(e.to)
                      /\ e.n = count[e.to] + 1
           Ahead(e) == IF First(e) THEN Edge("command", s, e.to, count[e.to] + 1)
                       ELSE IF e.kind = "message" /\ e.from = s
                       THEN Edge("message", s, e.to, e.n - 1) ELSE e
           Behind(e) == IF Last(e) THEN Edge("message", s, e.to, 1)
                        ELSE IF e.kind = "message" /\ e.from = s
                        THEN Edge("message", s, e.to, e.n + 1) ELSE e
<1>6. \A x, r \in Shards : commands'[x].release[r] =
        IF x = s /\ head = ReleaseMsg(r) THEN count[r] + 1 ELSE commands[x].release[r]
  BY <1>1, ReceiveReleases
<1>7. /\ \A r : \A i \in Nat : Asks(down'[s], i, r) => Asks(down[s], i + 1, r)
      /\ \A r : \A i \in Nat : Asks(down[s], i, r) /\ i # 1 => i - 1 \in Nat /\ Asks(down'[s], i - 1, r)
      /\ \A r : Asks(down[s], 1, r) <=> head = ReleaseMsg(r)
      /\ \A r : ~Asks(down'[s], 0, r)
  BY <1>2, <1>4, AsksTail
<1>8. ASSUME NEW e \in Waiting
      PROVE  /\ Ahead(e) \in Waiting' /\ Behind(Ahead(e)) = e
             /\ Ahead(e).from = e.from /\ Ahead(e).to = e.to
  <2>1. /\ e \in Releases /\ e.kind \in {"message", "command"} /\ e.from \in Shards
        /\ e.to \in Shards /\ e.n \in Nat /\ e = Edge(e.kind, e.from, e.to, e.n) /\ Waits(e)
    BY DEF Waiting, Releases, Edge
  <2>2. CASE First(e)
    <3> DEFINE f == Edge("command", s, e.to, count[e.to] + 1)
    <3>1. Ahead(e) = f /\ head = ReleaseMsg(e.to)
      BY <1>7, <2>1, <2>2 DEF Waits
    <3>2. f \in Releases /\ f.kind = "command" /\ f.from = s /\ f.to = e.to /\ f.n = count[e.to] + 1
      BY <2>1 DEF Releases, Edge
    <3> HIDE DEF f
    <3>3. Waits(f)'
      BY <1>6, <2>1, <3>1, <3>2 DEF Waits
    <3>4. Behind(f) = e
      BY <2>1, <2>2, <3>1, <3>2
    <3> QED
      BY <2>2, <3>1, <3>2, <3>3, <3>4 DEF Waiting
  <2>3. CASE ~First(e) /\ e.kind = "message" /\ e.from = s
    <3> DEFINE f == Edge("message", s, e.to, e.n - 1)
    <3>1. Ahead(e) = f
      BY <2>3
    <3>2. e.n - 1 \in Nat /\ Asks(down'[s], e.n - 1, e.to)
      BY <1>7, <2>1, <2>3 DEF Waits
    <3>3. f \in Releases /\ f.kind = "message" /\ f.from = s /\ f.to = e.to /\ f.n = e.n - 1
      BY <2>1, <3>2 DEF Releases, Edge
    <3>4. (e.n - 1) + 1 = e.n
      BY <2>1
    <3> HIDE DEF f
    <3>5. Behind(f) = e
      BY <2>1, <2>3, <3>3, <3>4
    <3> QED
      BY <2>3, <3>1, <3>2, <3>3, <3>5 DEF Waiting, Waits
  <2>4. CASE ~(e.kind = "message" /\ e.from = s)
    <3>1. Ahead(e) = e
      BY <2>4
    <3>2. e.kind = "command" => e.n \in 1 .. commands'[e.from].release[e.to]
      BY <1>5, <1>6, <2>1 DEF Waits
    <3>3. ~Last(e)
      BY <2>1 DEF Waits
    <3>4. Behind(e) = e
      BY <2>4, <3>3
    <3> QED
      BY <1>4, <2>1, <2>4, <3>1, <3>2, <3>4 DEF Waiting, Waits
  <2> QED
    BY <2>2, <2>3, <2>4
<1>9. ASSUME NEW f \in Waiting'
      PROVE  Behind(f) \in Waiting /\ Ahead(Behind(f)) = f
  <2>1. /\ f \in Releases /\ f.kind \in {"message", "command"} /\ f.from \in Shards
        /\ f.to \in Shards /\ f.n \in Nat /\ f = Edge(f.kind, f.from, f.to, f.n) /\ Waits(f)'
    BY DEF Waiting, Releases, Edge
  <2>2. CASE Last(f)
    <3> DEFINE e == Edge("message", s, f.to, 1)
    <3>1. Behind(f) = e
      BY <2>2
    <3>2. e \in Releases /\ e.kind = "message" /\ e.from = s /\ e.to = f.to /\ e.n = 1
      BY <2>1 DEF Releases, Edge
    <3> HIDE DEF e
    <3>3. Waits(e)
      BY <1>7, <2>2, <3>2 DEF Waits
    <3>4. Ahead(e) = f
      BY <2>1, <2>2, <3>2
    <3> QED
      BY <3>1, <3>2, <3>3, <3>4 DEF Waiting
  <2>3. CASE f.kind = "message" /\ f.from = s
    <3> DEFINE e == Edge("message", s, f.to, f.n + 1)
    <3>1. Behind(f) = e
      BY <2>3
    <3>2. Asks(down[s], f.n + 1, f.to) /\ f.n # 0
      BY <1>7, <2>1, <2>3 DEF Waits
    <3>3. e \in Releases /\ e.kind = "message" /\ e.from = s /\ e.to = f.to /\ e.n = f.n + 1
      BY <2>1 DEF Releases, Edge
    <3>4. (f.n + 1) - 1 = f.n /\ f.n + 1 # 1
      BY <2>1, <3>2
    <3> HIDE DEF e
    <3>5. Ahead(e) = f
      BY <2>1, <2>3, <3>3, <3>4
    <3> QED
      BY <3>1, <3>2, <3>3, <3>5 DEF Waiting, Waits
  <2>4. CASE ~Last(f) /\ ~(f.kind = "message" /\ f.from = s)
    <3>1. Behind(f) = f /\ Ahead(f) = f
      BY <2>4
    <3>2. ASSUME f.kind = "command" PROVE f.n \in 1 .. commands[f.from].release[f.to]
      <4>1. f.n \in 1 .. commands'[f.from].release[f.to]
        BY <2>1, <3>2 DEF Waits
      <4>2. CASE f.from = s /\ head = ReleaseMsg(f.to)
        <5>1. f.n \in 1 .. count[f.to] + 1 /\ f.n # count[f.to] + 1 /\ count[f.to] \in Nat
          BY <1>6, <2>1, <2>4, <3>2, <4>1, <4>2
        <5>2. count[f.to] = commands[f.from].release[f.to]
          BY <2>1, <4>2
        <5> QED
          BY <2>1, <5>1, <5>2
      <4>3. CASE ~(f.from = s /\ head = ReleaseMsg(f.to))
        BY <1>6, <2>1, <4>1, <4>3
      <4> QED
        BY <4>2, <4>3
    <3> QED
      BY <1>4, <2>1, <2>4, <3>1, <3>2 DEF Waiting, Waits
  <2> QED
    BY <2>2, <2>3, <2>4
<1>10. Ahead(Back) = Back /\ Behind(Back) = Back
  BY DEF Back, Edge
<1> HIDE DEF Ahead, Behind, First, Last
<1> DEFINE E == Waiting \cup {Back}
           F == Waiting' \cup {Back'}
           h == [e \in E |-> Ahead(e)]
           k == [f \in F |-> Behind(f)]
<1>11. h \in [E -> F] /\ k \in [F -> E]
  BY <1>3, <1>8, <1>9, <1>10
<1>12. /\ \A e \in E : k[h[e]] = e /\ h[e].from = e.from /\ h[e].to = e.to
       /\ \A f \in F : h[k[f]] = f
  BY <1>3, <1>8, <1>9, <1>10
<1> HIDE DEF h, k
<1> QED
  BY <1>11, <1>12, CirculatesRenamed

\* The spawn is the only edge: the owner the quadtree writes down is the shard
\* that is told.
LEMMA OwnerSpawn ==
  ASSUME OwnerInv, KeptInv', NEW p \in Positions, SpawnPlayerOnShard(p)
  PROVE  OwnerInv'
<1> PICK s \in Shards : s = ShardAt[p]
  BY LayoutAssumption
<1>1. /\ TypeOK /\ TypeOK' /\ KeptInv /\ player = "out" /\ player' = "in"
      /\ down' = [Deliver(posSubs, PosMsg(p)) EXCEPT ![s] = Append(@, SpawnMsg)]
      /\ entity_map' = p /\ entity_owners' = s /\ qdown' = qdown
      /\ UNCHANGED << commands, world, registry, races >>
  BY DEF SpawnPlayerOnShard, shardVars, OwnerInv, KeptInv, ControlInv, AuthorityInv
<1>2. /\ races = {} /\ posSubs = {} /\ qdown = << >>
      /\ \A r \in Shards : down[r] = << >> /\ commands[r] = NoCommands
  BY <1>1 DEF KeptInv, NothingYet
<1>3. \A r \in Shards : down'[r] = IF r = s THEN << SpawnMsg >> ELSE << >>
  <2> DEFINE d == Deliver(posSubs, PosMsg(p))
  <2>1. d = [r \in Shards |-> << >>]
    BY <1>2 DEF Deliver
  <2> HIDE DEF d
  <2>2. down' = [d EXCEPT ![s] = Append(d[s], SpawnMsg)]
    BY <1>1 DEF d
  <2>3. Append(<< >>, SpawnMsg) = << SpawnMsg >>
    OBVIOUS
  <2> QED
    BY <2>1, <2>2, <2>3
<1>4. Waiting' = {}
  <2>1. \A r \in Shards : \A i, q : ~Asks(down'[r], i, q)
    <3>1. Len(<< >>) = 0 /\ Len(<< SpawnMsg >>) = 1 /\ << SpawnMsg >>[1] = SpawnMsg
      OBVIOUS
    <3>2. \A i, q : ~Asks(<< >>, i, q) /\ ~Asks(<< SpawnMsg >>, i, q)
      BY <3>1, MessageKinds, ReleaseKinds DEF Asks
    <3> QED
      BY <1>3, <3>2
  <2>2. \A r, q \in Shards : commands'[r].release[q] = 0
    BY <1>1, <1>2 DEF NoCommands
  <2>3. \A e \in Releases : ~Waits(e)'
    BY <2>1, <2>2 DEF Waits, Releases
  <2> QED
    BY <2>3 DEF Waiting
<1>5. Holder' = s
  <2>1. \A r \in Shards : r # s => ~HasAuthority(r)'
    <3>1. \A r \in Shards : Owned(r)' = Owned(r) /\ Owned(r) = 0
      BY <1>1, OwnedType DEF KeptInv, ControlInv, AuthorityInv, NoneBeforeSpawn, HasAuthority, Owned
    <3>2. Len(<< >>) = 0
      OBVIOUS
    <3>3. \A r \in Shards : r # s => Grants(down'[r]) = {}
      BY <1>3, <3>2 DEF Grants
    <3> QED
      BY <3>1, <3>3 DEF HasAuthority
  <2>2. SomeAuthority'
    BY <1>1, <1>2 DEF KeptInv
  <2> QED
    BY <2>1, <2>2 DEF Holder, SomeAuthority
<1>6. Circulates(Waiting' \cup {Back'})
  <2> PICK b : b = Back' /\ b.from = b.to
    BY <1>1, <1>5, BackIsApart
  <2> DEFINE g == [e \in {b} |-> b]
  <2>1. g \in [{b} -> {b}] /\ \A e \in {b} : g[e] = b
    OBVIOUS
  <2> HIDE DEF g
  <2>2. Circulates({b})
    BY <2>1 DEF Circulates
  <2> QED
    BY <1>4, <2>2
<1>7. entity_map' # Nowhere /\ ~Has(qdown', "Disconnect")
  BY <1>1, <1>2, LayoutAssumption DEF Has
<1> QED
  BY <1>1, <1>6, <1>7 DEF OwnerInv

\* A tick keeps the holder, or the holder answers its only release and the
\* shard the release names is the holder next.
LEMMA TickHolder ==
  ASSUME KeptInv, KeptInv', NEW s \in Shards, Tick(s), player = "in", races' = {}
  PROVE  \/ /\ \A r \in Shards : commands[s].release[r] = 0
            /\ Holder' = Holder
         \/ /\ Holder = s
            /\ commands[s].release[Holder'] = 1 /\ Holder' \in Shards
            /\ \A r \in Shards : r # Holder' => commands[s].release[r] = 0
<1>1. /\ TypeOK /\ TypeOK' /\ AuthorityInv /\ AuthorityInv'
      /\ races = {} /\ RacesOf(s) = {} /\ OneAt(s) /\ Settled(s) /\ SomeAuthority /\ SomeAuthority'
      /\ commands[s] \in Commands /\ player' = "in"
  <2>1. races' = races \cup RacesOf(s) /\ player' = player
    BY DEF Tick
  <2> QED
    BY <2>1 DEF KeptInv, ControlInv, AuthorityInv, OneHolder, TypeOK
<1>2. PICK time, o :
        /\ o \in Outcomes(s, time)
        /\ world' = [world EXCEPT ![s] = o.world]
        /\ \A r \in Shards :
             /\ o.marked # 1 \/ commands[s].release[r] = 0 => Grants(down'[r]) = Grants(down[r])
             /\ o.marked = 1 /\ commands[s].release[r] = 1
                  => OneGrantMore(down[r], down'[r])
  BY <1>1, TickQueues
<1>3. /\ Owned(s)' = o.world.local
      /\ \A r \in Shards : r # s => Owned(r)' = Owned(r)
      /\ \A r \in Shards : Owned(r) \in Nat
      /\ o.world.local \in Nat /\ o.marked \in {0, 1} /\ o.world.local + o.marked <= Owned(s)
  BY <1>1, <1>2, TickOwned
<1>4. /\ Owned(s) > 0 => o.world.local > 0 \/ o.marked = 1
      /\ Released(s) => o.marked = 1
      /\ o.marked = 1 => Released(s)
  BY <1>1, <1>2, TickRow, OutcomeType
<1>5. \A r \in Shards : commands[s].release[r] \in Nat
  BY <1>1 DEF Commands
<1>6. CASE \A r \in Shards : commands[s].release[r] = 0
  <2>1. o.marked # 1
    BY <1>4, <1>6 DEF Released
  <2>2. \A r \in Shards : Grants(down'[r]) = Grants(down[r])
    BY <1>2, <2>1
  <2>3. \A r \in Shards : HasAuthority(r)' <=> HasAuthority(r)
    BY <1>3, <1>4, <2>1, <2>2 DEF HasAuthority
  <2> QED
    BY <1>6, <2>3, HolderStays
<1>7. ASSUME NEW r \in Shards, commands[s].release[r] # 0
      PROVE  /\ Holder = s /\ Holder' = r
             /\ commands[s].release[r] = 1
             /\ \A q \in Shards : q # r => commands[s].release[q] = 0
  <2>1. commands[s].release[r] > 0
    BY <1>5, <1>7
  <2>2. /\ commands[s].release[r] = 1
        /\ \A q \in Shards : q # r => commands[s].release[q] = 0
    <3>1. "twoReleases" \notin RacesOf(s)
      BY <1>1
    <3> QED
      BY <1>5, <2>1, <3>1 DEF RacesOf
  <2>3. o.marked = 1
    BY <1>4, <2>1 DEF Released
  <2>4. HasAuthority(s)
    BY <1>3, <2>3 DEF HasAuthority
  <2>5. HasAuthority(r)'
    BY <1>2, <2>2, <2>3 DEF HasAuthority, OneGrantMore
  <2>6. Holder = s
    BY <1>1, <2>4 DEF AuthorityInv, OneHolder, Holder
  <2>7. \A q \in Shards : HasAuthority(q)' => q = r
    BY <1>1, <2>5 DEF AuthorityInv, OneHolder
  <2>8. Holder' = r
    BY <2>5, <2>7 DEF Holder
  <2> QED
    BY <2>2, <2>6, <2>8
<1> QED
  BY <1>6, <1>7

\* The holder answers a release: its edge and the edge back are joined.
LEMMA OwnerTick ==
  ASSUME OwnerInv, KeptInv', NEW s \in Shards, Tick(s)
  PROVE  OwnerInv'
<1>1. /\ TypeOK /\ KeptInv /\ player' = player
      /\ commands' = [commands EXCEPT ![s] = NoCommands] /\ commands \in [Shards -> Commands]
      /\ entity_owners' = entity_owners /\ entity_map' = entity_map
  BY DEF Tick, OwnerInv, KeptInv, ControlInv, AuthorityInv, quadtreeVars, TypeOK
<1>2. /\ \A x \in Shards : \A i, r : Asks(down'[x], i, r) <=> Asks(down[x], i, r)
      /\ Has(qdown', "Disconnect") => Has(qdown, "Disconnect")
  BY <1>1, AsksTick
<1>3. \A x, r \in Shards : commands'[x].release[r] = IF x = s THEN 0 ELSE commands[x].release[r]
  BY <1>1 DEF NoCommands
<1>4. ASSUME player = "in", races' = {} PROVE Circulates(Waiting' \cup {Back'})
  <2>1. races = {} /\ Circulates(Waiting \cup {Back})
    BY <1>4 DEF Tick, OwnerInv
  <2>2. CASE (\A r \in Shards : commands[s].release[r] = 0) /\ Holder' = Holder
    <3>1. \A x, r \in Shards : commands'[x].release[r] = commands[x].release[r]
      BY <1>3, <2>2
    <3>2. Waiting' = Waiting
      BY <1>2, <3>1, WaitingStays
    <3>3. Back' = Back
      BY <1>1, <2>2 DEF Back
    <3> QED
      BY <2>1, <3>2, <3>3
  <2>3. ASSUME Holder = s, NEW r \in Shards, r = Holder', commands[s].release[r] = 1,
               \A q \in Shards : q # r => commands[s].release[q] = 0
        PROVE  Circulates(Waiting' \cup {Back'})
    <3> DEFINE t == Edge("command", s, r, 1)
    <3>1. t \in Releases /\ t.kind = "command" /\ t.from = s /\ t.to = r /\ t.n = 1
      BY DEF Edge, Releases
    <3>2. \A e \in Releases : e.kind = "command" /\ e.from = s /\ e.to = r /\ e.n = 1 => e = t
      BY DEF Edge, Releases
    <3> HIDE DEF t
    <3>3. \A e \in Releases : Waits(e)' <=> Waits(e) /\ e # t
      <4> SUFFICES ASSUME NEW e \in Releases PROVE Waits(e)' <=> Waits(e) /\ e # t
        OBVIOUS
      <4>1. e.kind \in {"message", "command"} /\ e.from \in Shards /\ e.to \in Shards /\ e.n \in Nat
        BY DEF Releases
      <4>2. CASE e.kind = "message"
        BY <1>2, <3>1, <4>1, <4>2 DEF Waits
      <4>3. CASE e.kind = "command" /\ e.from # s
        BY <1>3, <3>1, <4>1, <4>3 DEF Waits
      <4>4. CASE e.kind = "command" /\ e.from = s
        <5>1. ~Waits(e)'
          BY <1>3, <4>1, <4>4 DEF Waits
        <5>2. Waits(e) => e.to = r /\ e.n = 1
          BY <2>3, <4>1, <4>4 DEF Waits
        <5> QED
          BY <3>2, <4>4, <5>1, <5>2
      <4> QED
        BY <4>1, <4>2, <4>3, <4>4
    <3>4. Waits(t)
      BY <2>3, <3>1 DEF Waits
    <3>5. t \in Waiting /\ Waiting' = Waiting \ {t}
      BY <3>1, <3>3, <3>4 DEF Waiting
    <3>6. Back # t /\ Back' # t /\ Back' \notin Waiting
      <4>1. Back.kind = "back" /\ Back'.kind = "back"
        BY DEF Back, Edge
      <4> QED
        BY <3>1, <4>1 DEF Waiting, Releases
    <3>7. /\ ((Waiting \cup {Back}) \ {Back, t}) \cup {Back'} = Waiting' \cup {Back'}
          /\ Back' \notin (Waiting \cup {Back}) \ {Back}
      BY <3>5, <3>6, BackIsApart
    <3>8. Back.to = t.from /\ Back'.from = Back.from /\ Back'.to = t.to
      BY <1>1, <2>3, <3>1, BackIsApart
    <3> QED
      BY <2>1, <3>5, <3>6, <3>7, <3>8, CirculatesJoined
  <2> QED
    BY <1>1, <1>4, <2>2, <2>3, TickHolder
<1> QED
  BY <1>1, <1>2, <1>4 DEF OwnerInv

\* Nobody owns anything at first.
LEMMA OwnerInit == Init => OwnerInv
<1> SUFFICES ASSUME Init PROVE OwnerInv
  OBVIOUS
<1>1. player = "out" /\ ~Has(qdown, "Disconnect")
  BY DEF Init, Has
<1> QED
  BY <1>1, KeptInit DEF OwnerInv

\* Every step keeps a way through the releases from the holder to the owner.
LEMMA OwnerStep == OwnerInv /\ [Next]_vars => OwnerInv'
<1> SUFFICES ASSUME OwnerInv, [Next]_vars PROVE OwnerInv'
  OBVIOUS
<1>1. KeptInv'
  BY KeptStep DEF OwnerInv
<1>2. CASE ClientDisconnects
  <2>1. player' = "gone"
    BY <1>2 DEF ClientDisconnects
  <2> QED
    BY <1>1, <2>1 DEF OwnerInv
<1>3. CASE UNCHANGED vars
  <2>1. \A r \in Shards : HasAuthority(r)' <=> HasAuthority(r)
    BY <1>3 DEF vars, HasAuthority, Owned
  <2>2. Back' = Back
    BY <1>3, <2>1, HolderStays DEF vars, Back
  <2>3. Waiting' = Waiting
    BY <1>3 DEF vars, Waiting, Waits
  <2> QED
    BY <1>1, <1>3, <2>2, <2>3 DEF vars, OwnerInv
<1> QED
  BY <1>1, <1>2, <1>3, OwnerSpawn, OwnerKilled, OwnerQuadtree, OwnerReceive, OwnerTick DEF Next

\* Once every message has been handled, the shard the quadtree takes for the
\* owner simulates the entity, however the releases have crossed on their way.
THEOREM OwnerBecomesAuthority == Spec => []OwnerIsAuthority
<1>1. Spec => []OwnerInv
  BY OwnerInit, OwnerStep, PTL DEF Spec
<1>2. OwnerInv => OwnerIsAuthority
  <2> SUFFICES ASSUME OwnerInv, Quiet, player = "in", races = {}
               PROVE  world[entity_owners].local = 1
    BY DEF OwnerIsAuthority
  <2>1. /\ TypeOK /\ OneHolder /\ SomeAuthority /\ entity_owners \in Shards
        /\ Circulates(Waiting \cup {Back})
    BY DEF OwnerInv, KeptInv, ControlInv, AuthorityInv
  <2>2. \A s \in Shards : down[s] = << >> /\ commands[s] = NoCommands
    BY DEF Quiet
  <2>3. Waiting = {}
    BY <2>2 DEF Waiting, Releases, Waits, Asks, NoCommands
  <2>4. Back.from = Back.to
    BY <2>1, <2>3 DEF Circulates
  <2>5. HasAuthority(entity_owners)
    <3>1. Holder = entity_owners
      BY <2>4, BackIsApart
    <3> QED
      BY <2>1, <3>1 DEF Holder, SomeAuthority
  <2>6. Grants(down[entity_owners]) = {}
    BY <2>1, <2>2 DEF Grants
  <2>7. Owned(entity_owners) = world[entity_owners].local /\ world[entity_owners].local \in Nat
    BY <2>1, <2>2, OwnedType DEF Owned, NoCommands
  <2>8. world[entity_owners].local <= 1 /\ world[entity_owners].local > 0
    BY <2>1, <2>5, <2>6, <2>7 DEF OneHolder, OneAt, HasAuthority
  <2> QED
    BY <2>7, <2>8
<1> QED
  BY <1>1, <1>2, PTL
=============================================================================
