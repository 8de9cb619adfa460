--------------------------- MODULE ServicesProofs ---------------------------
(***************************************************************************)
(* Theorems about the two services that compute for the others, each of    *)
(* them for itself: the ability service, for any entities and bounds, and  *)
(* the pathing service, for any map and any request.  The names of the     *)
(* state machine of the second begin with Pathing.                         *)
(***************************************************************************)
EXTENDS AbilityService, Pathing, FiniteSetTheorems, WellFoundedInduction, TLAPS

(***************************************************************************)
(* The ability service.  Its invariants are inductive together: that the   *)
(* registry and the broadcasts agree needs the cost of a cast to be within *)
(* the mana, and that nobody stays dead needs the attributes to be in      *)
(* their range.                                                            *)
(***************************************************************************)
AbilityInv == TypeOK /\ NobodyStaysDead /\ LevelMatchesKills /\ ShownIsCurrent

\* update_attribute returns a value of the attribute's range.
LEMMA ClampedInRange ==
  ASSUME NEW value \in Int
  PROVE  /\ Clamped(value) \in 0..MaxValue
         /\ value \in 0..MaxValue => Clamped(value) = value
  BY DEF Clamped, MaxValue

\* The effect of a hit is an integer, whoever cast it.
LEMMA EffectIsInteger ==
  ASSUME TypeOK, NEW c \in Entities, NEW a \in Abilities
  PROVE  Effect(c, a) \in Int
<1>1. CasterLevel(c) \in Nat
  BY DEF TypeOK, CasterLevel, Registered, Entity
<1>2. Modifier[a] \in Int /\ Modifier[a] \div 2 \in Int
  BY DEF Modifier, Abilities
<1> QED
  BY <1>1, <1>2 DEF Effect

\* A kill is worth the same whether or not it completes a level.
LEMMA RaisedByKill ==
  ASSUME NEW r \in Entity, r.xp < LevelXP
  PROVE  /\ Raised(r) \in Entity
         /\ Raised(r).hp = r.hp /\ Raised(r).mp = r.mp
         /\ Raised(r).xp < LevelXP
         /\ LevelXP * Raised(r).level + Raised(r).xp
              = LevelXP * r.level + r.xp + KillXP
<1>1. r.xp \in Nat /\ r.level \in Nat
  BY DEF Entity
<1>2. CASE r.xp + KillXP >= LevelXP
  <2> DEFINE xp == (r.xp + KillXP) - LevelXP
             level == r.level + 1
  <2>1. xp \in Nat /\ level \in Nat /\ xp < LevelXP
    BY <1>1, <1>2 DEF LevelXP, KillXP
  <2>2. LevelXP * level + xp = LevelXP * r.level + r.xp + KillXP
    BY <1>1 DEF LevelXP, KillXP
  <2>3. Raised(r) = [r EXCEPT !.level = level, !.xp = xp]
    BY <1>2 DEF Raised, Entity
  <2> HIDE DEF xp, level
  <2>4. /\ Raised(r) \in Entity
        /\ Raised(r).hp = r.hp /\ Raised(r).mp = r.mp
        /\ Raised(r).xp = xp /\ Raised(r).level = level
    BY <2>1, <2>3 DEF Entity
  <2> QED
    BY <2>1, <2>2, <2>4
<1>3. CASE ~(r.xp + KillXP >= LevelXP)
  <2> DEFINE xp == r.xp + KillXP
  <2>1. xp \in Nat /\ xp < LevelXP
    BY <1>1, <1>3 DEF LevelXP, KillXP
  <2>2. LevelXP * r.level + xp = LevelXP * r.level + r.xp + KillXP
    BY <1>1 DEF LevelXP, KillXP
  <2>3. Raised(r) = [r EXCEPT !.xp = xp]
    BY <1>3 DEF Raised, Entity
  <2> HIDE DEF xp
  <2>4. /\ Raised(r) \in Entity
        /\ Raised(r).hp = r.hp /\ Raised(r).mp = r.mp
        /\ Raised(r).xp = xp /\ Raised(r).level = r.level
    BY <2>1, <2>3 DEF Entity
  <2> QED
    BY <2>1, <2>2, <2>4
<1> QED
  BY <1>2, <1>3

\* The default entity is alive, with full mana and no experience.
LEMMA DefaultIsEntity ==
  Default \in Entity /\ Default.hp = MaxValue /\ Default.mp = MaxValue
    /\ Default.xp = 0 /\ Default.level = 0
  BY DEF Default, Entity, MaxValue

\* Broadcasting full health and mana leaves the statistics well typed.
LEMMA ResetStats ==
  ASSUME NEW s \in [Entities -> Stats], NEW v \in Entities
  PROVE  [s EXCEPT ![v].hp = MaxValue, ![v].mp = MaxValue] \in [Entities -> Stats]
<1> DEFINE row == [s[v] EXCEPT !.hp = MaxValue, !.mp = MaxValue]
<1>1. row \in Stats
  <2>1. s[v] \in Stats /\ MaxValue \in Int
    BY DEF MaxValue
  <2> QED
    BY <2>1 DEF Stats
<1>2. [s EXCEPT ![v].hp = MaxValue, ![v].mp = MaxValue] = [s EXCEPT ![v] = row]
  OBVIOUS
<1> QED
  BY <1>1, <1>2

\* So does broadcasting a level and an experience.
LEMMA ScoredStats ==
  ASSUME NEW s \in [Entities -> Stats], NEW c \in Entities, NEW xp \in Nat, NEW level \in Nat
  PROVE  [s EXCEPT ![c].xp = xp, ![c].level = level] \in [Entities -> Stats]
<1> DEFINE row == [s[c] EXCEPT !.xp = xp, !.level = level]
<1>1. row \in Stats
  BY DEF Stats
<1>2. [s EXCEPT ![c].xp = xp, ![c].level = level] = [s EXCEPT ![c] = row]
  OBVIOUS
<1> QED
  BY <1>1, <1>2

\* Nobody is registered at the start.
LEMMA InitAbilityInv == Init => AbilityInv
<1> SUFFICES ASSUME Init PROVE AbilityInv
  OBVIOUS
<1>1. TypeOK
  BY DEF Init, TypeOK, MaxValue, Stats
<1> QED
  BY <1>1 DEF Init, AbilityInv, NobodyStaysDead, LevelMatchesKills, ShownIsCurrent, Registered

----------------------------------------------------------------------------
\* The invariant, entity by entity.
EntityInv(e) ==
  Registered(e) =>
    /\ entity_registry[e].hp > 0
    /\ entity_registry[e].xp < LevelXP
    /\ LevelXP * entity_registry[e].level + entity_registry[e].xp = KillXP * kills[e]
    /\ shown[e].hp = entity_registry[e].hp
    /\ shown[e].mp = entity_registry[e].mp

\* The invariant is the one of each row.
LEMMA ByEntity == AbilityInv <=> TypeOK /\ \A e \in Entities : EntityInv(e)
  BY DEF AbilityInv, EntityInv, NobodyStaysDead, LevelMatchesKills, ShownIsCurrent

\* A row that a step leaves alone keeps its invariant.
LEMMA RowKept ==
  ASSUME NEW d \in Entities, EntityInv(d),
         entity_registry'[d] = entity_registry[d], kills'[d] = kills[d],
         shown'[d].hp = shown[d].hp, shown'[d].mp = shown[d].mp
  PROVE  EntityInv(d)'
  BY DEF EntityInv, Registered

\* So does one that starts again.
LEMMA RowReset ==
  ASSUME NEW d \in Entities,
         entity_registry'[d] = Default, kills'[d] = 0,
         shown'[d].hp = MaxValue, shown'[d].mp = MaxValue
  PROVE  EntityInv(d)'
  BY DefaultIsEntity DEF EntityInv, Registered, MaxValue, LevelXP, KillXP

\* A starting position resets one row.
LEMMA JoinKeeps ==
  ASSUME AbilityInv, NEW e \in Entities, PlayerStartingPosition(e)
  PROVE  AbilityInv'
<1> USE DEF AbilityInv
<1>1. TypeOK'
  <2>1. entity_registry' \in [Entities -> Entity \cup {Unknown}]
    BY DefaultIsEntity DEF TypeOK, PlayerStartingPosition
  <2>2. shown' \in [Entities -> Stats]
    BY ResetStats DEF TypeOK, PlayerStartingPosition
  <2>3. kills' \in [Entities -> Nat] /\ joins' \in Nat
    BY DEF TypeOK, PlayerStartingPosition
  <2> QED
    BY <2>1, <2>2, <2>3 DEF TypeOK, PlayerStartingPosition
<1>2. ASSUME NEW d \in Entities PROVE EntityInv(d)'
  <2>1. CASE d = e
    BY <2>1, RowReset DEF TypeOK, PlayerStartingPosition
  <2>2. CASE d # e
    <3>1. EntityInv(d)
      BY ByEntity
    <3> QED
      BY <2>2, <3>1, RowKept DEF TypeOK, PlayerStartingPosition
  <2> QED
    BY <2>1, <2>2
<1> QED
  BY <1>1, <1>2 DEF AbilityInv, EntityInv, NobodyStaysDead, LevelMatchesKills, ShownIsCurrent

\* Spending no more than there is leaves an attribute in its range.
LEMMA SpentInRange ==
  ASSUME NEW m \in 0..MaxValue, NEW cost \in 0..MaxValue, m >= cost
  PROVE  m - cost \in 0..MaxValue
  BY DEF MaxValue

\* A cast costs no more than the mana there is, so what is published is stored.
LEMMA CastKeeps ==
  ASSUME AbilityInv, NEW e \in Entities, NEW a \in Abilities, RequestCastAbility(e, a)
  PROVE  AbilityInv'
<1> USE DEF AbilityInv
<1> DEFINE mana == entity_registry[e].mp - ManaCost[a]
<1>1. entity_registry[e] \in Entity /\ Registered(e)
  BY DEF TypeOK, RequestCastAbility, CanCast, Registered
<1>2. mana \in 0..MaxValue /\ Clamped(mana) = mana
  <2>1. ManaCost[a] \in 0..MaxValue
    BY DEF ManaCost, Abilities, MaxValue
  <2>2. mana \in 0..MaxValue
    <3>1. entity_registry[e].mp \in 0..MaxValue
      BY <1>1 DEF Entity
    <3>2. entity_registry[e].mp >= ManaCost[a]
      BY DEF RequestCastAbility, CanCast
    <3> QED
      BY <2>1, <3>1, <3>2, SpentInRange
  <2> QED
    BY <2>2, ClampedInRange DEF MaxValue
<1> DEFINE after == [entity_registry[e] EXCEPT !.cooling = @ \cup {a}, !.mp = mana]
<1>3. /\ entity_registry' = [entity_registry EXCEPT ![e] = after]
      /\ shown' = [shown EXCEPT ![e].mp = mana]
  BY <1>2 DEF RequestCastAbility
<1>4. after \in Entity
  BY <1>1, <1>2 DEF Entity
<1>5. TypeOK'
  <2>1. entity_registry' \in [Entities -> Entity \cup {Unknown}]
    BY <1>3, <1>4 DEF TypeOK
  <2>2. shown' \in [Entities -> Stats]
    BY <1>3, <1>2 DEF TypeOK, MaxValue, Stats
  <2>3. fireballs' \in SUBSET Entities /\ heals' \in [Entities -> Nat]
    <3>1. CASE a = "Fireball"
      BY <3>1 DEF TypeOK, RequestCastAbility
    <3>2. CASE a = "Heal"
      BY <3>2 DEF TypeOK, RequestCastAbility
    <3> QED
      BY <3>1, <3>2 DEF Abilities
  <2>4. kills' = kills /\ joins' = joins /\ casts' = casts + 1 /\ restarts' = restarts
    BY DEF RequestCastAbility
  <2> QED
    BY <2>1, <2>2, <2>3, <2>4 DEF TypeOK
<1>6. ASSUME NEW d \in Entities PROVE EntityInv(d)'
  <2>1. kills' = kills
    BY DEF RequestCastAbility
  <2>2. EntityInv(d)
    BY ByEntity
  <2>3. CASE d # e
    BY <1>3, <2>1, <2>2, <2>3 DEF EntityInv, Registered, TypeOK
  <2>4. CASE d = e
    <3>1. entity_registry'[e] = after
      BY <1>3 DEF TypeOK
    <3>2. shown'[e].mp = mana /\ shown'[e].hp = shown[e].hp
      BY <1>3 DEF TypeOK
    <3>3. /\ after.hp = entity_registry[e].hp /\ after.mp = mana
          /\ after.xp = entity_registry[e].xp /\ after.level = entity_registry[e].level
      BY <1>1 DEF Entity
    <3> HIDE DEF after, mana
    <3> QED
      BY <1>1, <2>1, <2>2, <2>4, <3>1, <3>2, <3>3 DEF EntityInv, Registered
  <2> QED
    BY <2>3, <2>4
<1> QED
  BY <1>5, <1>6 DEF AbilityInv, EntityInv, NobodyStaysDead, LevelMatchesKills, ShownIsCurrent

\* The end of a cooldown changes no attribute.
LEMMA CooldownKeeps ==
  ASSUME AbilityInv, NEW e \in Entities, NEW a \in Abilities, CooldownElapses(e, a)
  PROVE  AbilityInv'
<1> USE DEF AbilityInv
<1> DEFINE after == [entity_registry[e] EXCEPT !.cooling = @ \ {a}]
<1>1. entity_registry[e] \in Entity /\ Registered(e)
  BY DEF TypeOK, CooldownElapses, Registered
<1>2. /\ after \in Entity
      /\ after.hp = entity_registry[e].hp /\ after.mp = entity_registry[e].mp
      /\ after.xp = entity_registry[e].xp /\ after.level = entity_registry[e].level
  BY <1>1 DEF Entity
<1>3. entity_registry' = [entity_registry EXCEPT ![e] = after]
  BY DEF CooldownElapses
<1> HIDE DEF after
<1>4. TypeOK'
  BY <1>2, <1>3 DEF TypeOK, CooldownElapses
<1>5. ASSUME NEW d \in Entities PROVE EntityInv(d)'
  <2>1. EntityInv(d)
    BY ByEntity
  <2>2. CASE d = e
    BY <1>1, <1>2, <1>3, <2>1, <2>2 DEF EntityInv, Registered, TypeOK, CooldownElapses
  <2>3. CASE d # e
    BY <1>3, <2>1, <2>3, RowKept DEF TypeOK, CooldownElapses
  <2> QED
    BY <2>2, <2>3
<1> QED
  BY <1>4, <1>5 DEF AbilityInv, EntityInv, NobodyStaysDead, LevelMatchesKills, ShownIsCurrent

\* A fireball leaves heals alone, a heal takes one of the caster's.
LEMMA HitsType ==
  ASSUME TypeOK, NEW c \in Entities, NEW v \in Entities, NEW a \in Abilities, Hits(c, v, a)
  PROVE  heals' \in [Entities -> Nat]
<1>1. CASE heals' = heals
  BY <1>1 DEF TypeOK
<1>2. CASE heals[c] > 0 /\ heals' = [heals EXCEPT ![c] = @ - 1]
  <2>1. heals[c] - 1 \in Nat
    BY <1>2 DEF TypeOK
  <2> QED
    BY <1>2, <2>1 DEF TypeOK
<1> QED
  BY <1>1, <1>2 DEF Hits

\* A hit on an unknown entity changes nothing but the heals under way.
LEMMA HitUnknownKeeps ==
  ASSUME AbilityInv, NEW c \in Entities, NEW v \in Entities, NEW a \in Abilities,
         HitUnknown(c, v, a)
  PROVE  AbilityInv'
<1>1. TypeOK'
  BY HitsType DEF AbilityInv, TypeOK, HitUnknown
<1> QED
  BY <1>1 DEF AbilityInv, HitUnknown, NobodyStaysDead, LevelMatchesKills, ShownIsCurrent,
     Registered

\* A hit that leaves health publishes the clamped value it stores.
LEMMA HitSurvivedKeeps ==
  ASSUME AbilityInv, NEW c \in Entities, NEW v \in Entities, NEW a \in Abilities,
         HitSurvived(c, v, a)
  PROVE  AbilityInv'
<1> USE DEF AbilityInv
<1> DEFINE hp == Clamped(entity_registry[v].hp + Effect(c, a))
           after == [entity_registry[v] EXCEPT !.hp = hp]
<1>1. entity_registry[v] \in Entity /\ Registered(v)
  BY DEF TypeOK, HitSurvived, Registered
<1>2. hp \in 0..MaxValue /\ hp > 0
  <2>1. entity_registry[v].hp + Effect(c, a) \in Int
    BY <1>1, EffectIsInteger DEF Entity, MaxValue
  <2>2. hp \in 0..MaxValue
    BY <2>1, ClampedInRange
  <2>3. ~Killed(hp)
    BY DEF HitSurvived
  <2> QED
    BY <2>2, <2>3 DEF Killed, MaxValue
<1>3. /\ entity_registry' = [entity_registry EXCEPT ![v] = after]
      /\ shown' = [shown EXCEPT ![v].hp = hp]
      /\ kills' = kills
  BY DEF HitSurvived
<1> HIDE DEF hp
<1>4. /\ after \in Entity
      /\ after.hp = hp /\ after.mp = entity_registry[v].mp
      /\ after.xp = entity_registry[v].xp /\ after.level = entity_registry[v].level
  BY <1>1, <1>2 DEF Entity
<1> HIDE DEF after
<1>5. TypeOK'
  <2>1. entity_registry' \in [Entities -> Entity \cup {Unknown}]
    BY <1>3, <1>4 DEF TypeOK
  <2>2. shown' \in [Entities -> Stats]
    BY <1>2, <1>3 DEF TypeOK, MaxValue, Stats
  <2>3. heals' \in [Entities -> Nat]
    BY HitsType DEF HitSurvived
  <2> QED
    BY <2>1, <2>2, <2>3 DEF TypeOK, HitSurvived
<1>6. ASSUME NEW d \in Entities PROVE EntityInv(d)'
  <2>1. EntityInv(d)
    BY ByEntity
  <2>2. CASE d = v
    <3>1. /\ entity_registry'[v] = after
          /\ shown'[v].hp = hp /\ shown'[v].mp = shown[v].mp
      BY <1>3 DEF TypeOK
    <3> QED
      BY <1>1, <1>2, <1>3, <1>4, <2>1, <2>2, <3>1 DEF EntityInv, Registered
  <2>3. CASE d # v
    BY <1>3, <2>1, <2>3, RowKept DEF TypeOK
  <2> QED
    BY <2>2, <2>3
<1> QED
  BY <1>5, <1>6 DEF AbilityInv, EntityInv, NobodyStaysDead, LevelMatchesKills, ShownIsCurrent

\* A kill resets the victim's row and adds one kill to the caster's.
LEMMA HitKilledKeeps ==
  ASSUME AbilityInv, NEW c \in Entities, NEW v \in Entities, NEW a \in Abilities,
         HitKilled(c, v, a)
  PROVE  AbilityInv'
<1> USE DEF AbilityInv
<1>1. heals' \in [Entities -> Nat]
  BY HitsType DEF HitKilled
<1>2. c # v /\ UNCHANGED << fireballs, joins, casts, restarts >>
  BY DEF HitKilled
<1>3. ASSUME NEW d \in Entities PROVE EntityInv(d)
  BY ByEntity
<1>4. CASE Registered(c)
  <2> DEFINE raised == Raised(entity_registry[c])
  <2>1. /\ entity_registry' = [entity_registry EXCEPT ![v] = Default, ![c] = raised]
        /\ shown' = [shown EXCEPT ![v].hp = MaxValue, ![v].mp = MaxValue,
                                  ![c].xp = raised.xp, ![c].level = raised.level]
        /\ kills' = [kills EXCEPT ![v] = 0, ![c] = @ + 1]
    BY <1>4 DEF HitKilled
  <2>2. entity_registry[c] \in Entity /\ entity_registry[c].xp < LevelXP
    BY <1>3, <1>4 DEF TypeOK, Registered, EntityInv
  <2>3. /\ raised \in Entity
        /\ raised.hp = entity_registry[c].hp /\ raised.mp = entity_registry[c].mp
        /\ raised.xp < LevelXP
        /\ LevelXP * raised.level + raised.xp
             = LevelXP * entity_registry[c].level + entity_registry[c].xp + KillXP
    BY <2>2, RaisedByKill
  <2> HIDE DEF raised
  <2>4. TypeOK'
    <3>1. entity_registry' \in [Entities -> Entity \cup {Unknown}]
      BY <2>1, <2>3, DefaultIsEntity DEF TypeOK
    <3>2. shown' \in [Entities -> Stats]
      <4>1. raised.xp \in Nat /\ raised.level \in Nat
        BY <2>3 DEF Entity
      <4> DEFINE reset == [shown EXCEPT ![v].hp = MaxValue, ![v].mp = MaxValue]
      <4>2. reset \in [Entities -> Stats]
        BY ResetStats DEF TypeOK
      <4>3. shown' = [reset EXCEPT ![c].xp = raised.xp, ![c].level = raised.level]
        BY <2>1
      <4> HIDE DEF reset
      <4> QED
        BY <4>1, <4>2, <4>3, ScoredStats
    <3>3. kills' \in [Entities -> Nat]
      BY <2>1 DEF TypeOK
    <3> QED
      BY <1>1, <1>2, <3>1, <3>2, <3>3 DEF TypeOK
  <2>5. ASSUME NEW d \in Entities PROVE EntityInv(d)'
    <3>1. CASE d = v
      <4>1. entity_registry'[v] = Default /\ kills'[v] = 0
        BY <1>2, <2>1 DEF TypeOK
      <4>2. shown'[v].hp = MaxValue /\ shown'[v].mp = MaxValue
        BY <1>2, <2>1 DEF TypeOK, Stats
      <4> QED
        BY <3>1, <4>1, <4>2, RowReset
    <3>2. CASE d = c
      <4>1. /\ entity_registry'[c] = raised /\ kills'[c] = kills[c] + 1
            /\ shown'[c].hp = shown[c].hp /\ shown'[c].mp = shown[c].mp
        BY <1>2, <2>1 DEF TypeOK
      <4>2. /\ entity_registry[c].hp > 0
            /\ LevelXP * entity_registry[c].level + entity_registry[c].xp = KillXP * kills[c]
            /\ shown[c].hp = entity_registry[c].hp /\ shown[c].mp = entity_registry[c].mp
        BY <1>3, <1>4 DEF EntityInv
      <4>3. LevelXP * raised.level + raised.xp = KillXP * (kills[c] + 1)
        <5>1. kills[c] \in Nat
          BY DEF TypeOK
        <5> QED
          BY <2>3, <4>2, <5>1 DEF KillXP
      <4> QED
        BY <2>3, <3>2, <4>1, <4>2, <4>3 DEF EntityInv
    <3>3. CASE d # v /\ d # c
      BY <1>3, <2>1, <3>3, RowKept DEF TypeOK
    <3> QED
      BY <3>1, <3>2, <3>3
  <2> QED
    BY <2>4, <2>5 DEF AbilityInv, EntityInv, NobodyStaysDead, LevelMatchesKills, ShownIsCurrent
<1>5. CASE ~Registered(c)
  <2>1. /\ entity_registry' = [entity_registry EXCEPT ![v] = Default]
        /\ shown' = [shown EXCEPT ![v].hp = MaxValue, ![v].mp = MaxValue]
        /\ kills' = [kills EXCEPT ![v] = 0]
    BY <1>5 DEF HitKilled
  <2>2. TypeOK'
    <3>1. entity_registry' \in [Entities -> Entity \cup {Unknown}]
      BY <2>1, DefaultIsEntity DEF TypeOK
    <3>2. shown' \in [Entities -> Stats]
      BY <2>1, ResetStats DEF TypeOK
    <3>3. kills' \in [Entities -> Nat]
      BY <2>1 DEF TypeOK
    <3> QED
      BY <1>1, <1>2, <3>1, <3>2, <3>3 DEF TypeOK
  <2>3. ASSUME NEW d \in Entities PROVE EntityInv(d)'
    <3>1. CASE d = v
      BY <2>1, <3>1, RowReset DEF TypeOK
    <3>2. CASE d # v
      BY <1>3, <2>1, <3>2, RowKept DEF TypeOK
    <3> QED
      BY <3>1, <3>2
  <2> QED
    BY <2>2, <2>3 DEF AbilityInv, EntityInv, NobodyStaysDead, LevelMatchesKills, ShownIsCurrent
<1> QED
  BY <1>4, <1>5

\* The regeneration publishes the clamped mana it stores.
LEMMA RegenerateKeeps ==
  ASSUME AbilityInv, RegenerateMana
  PROVE  AbilityInv'
<1> USE DEF AbilityInv
<1>1. ASSUME NEW d \in Entities, NeedsMana(d)
      PROVE  /\ Restored(d) \in 0..MaxValue
             /\ entity_registry[d] \in Entity /\ Registered(d)
             /\ entity_registry'[d] = [entity_registry[d] EXCEPT !.mp = Restored(d)]
             /\ shown'[d] = [shown[d] EXCEPT !.mp = Restored(d)]
  <2>1. entity_registry[d] \in Entity /\ Registered(d)
    BY <1>1 DEF TypeOK, NeedsMana, Registered
  <2>2. entity_registry[d].mp + 5 \in Int
    BY <2>1 DEF Entity, MaxValue
  <2> QED
    BY <1>1, <2>1, <2>2, ClampedInRange DEF Restored, RegenerateMana
<1>2. ASSUME NEW d \in Entities, ~NeedsMana(d)
      PROVE  entity_registry'[d] = entity_registry[d] /\ shown'[d] = shown[d]
  BY <1>2 DEF RegenerateMana
<1>3. kills' = kills /\ UNCHANGED << fireballs, heals, joins, casts, restarts >>
  BY DEF RegenerateMana
<1>4. ASSUME NEW d \in Entities
      PROVE  /\ entity_registry'[d] \in Entity \cup {Unknown}
             /\ shown'[d] \in Stats
  <2>1. CASE NeedsMana(d)
    <3>1. entity_registry'[d] \in Entity
      BY <1>1, <2>1 DEF Entity
    <3>2. Restored(d) \in Int /\ shown[d] \in Stats
      <4>1. Restored(d) \in 0..MaxValue
        BY <1>1, <2>1
      <4>2. Restored(d) \in Int
        BY <4>1 DEF MaxValue
      <4> QED
        BY <4>2 DEF TypeOK
    <3>3. [shown[d] EXCEPT !.mp = Restored(d)] \in Stats
      BY <3>2 DEF Stats
    <3> QED
      BY <1>1, <2>1, <3>1, <3>3
  <2>2. CASE ~NeedsMana(d)
    BY <1>2, <2>2 DEF TypeOK
  <2> QED
    BY <2>1, <2>2
<1>5. TypeOK'
  <2>1. entity_registry' \in [Entities -> Entity \cup {Unknown}]
    <3>1. entity_registry' = [d \in Entities |-> entity_registry'[d]]
      BY DEF RegenerateMana
    <3> QED
      BY <1>4, <3>1
  <2>2. shown' \in [Entities -> Stats]
    <3>1. shown' = [d \in Entities |-> shown'[d]]
      BY DEF RegenerateMana
    <3> QED
      BY <1>4, <3>1
  <2> QED
    BY <1>3, <2>1, <2>2 DEF TypeOK
<1>6. ASSUME NEW d \in Entities PROVE EntityInv(d)'
  <2>1. EntityInv(d)
    BY ByEntity
  <2>2. CASE NeedsMana(d)
    <3>1. shown[d] \in Stats
      BY DEF TypeOK
    <3>2. /\ entity_registry'[d].hp = entity_registry[d].hp
          /\ entity_registry'[d].mp = Restored(d)
          /\ entity_registry'[d].xp = entity_registry[d].xp
          /\ entity_registry'[d].level = entity_registry[d].level
      BY <1>1, <2>2 DEF Entity
    <3>3. shown'[d].hp = shown[d].hp /\ shown'[d].mp = Restored(d)
      BY <1>1, <2>2, <3>1 DEF Stats
    <3> QED
      BY <1>1, <1>3, <2>1, <2>2, <3>2, <3>3 DEF EntityInv
  <2>3. CASE ~NeedsMana(d)
    BY <1>2, <1>3, <2>1, <2>3, RowKept
  <2> QED
    BY <2>2, <2>3
<1> QED
  BY <1>5, <1>6 DEF AbilityInv, EntityInv, NobodyStaysDead, LevelMatchesKills, ShownIsCurrent

\* After a restart nobody is registered.
LEMMA RestartKeeps ==
  ASSUME AbilityInv, Restart
  PROVE  AbilityInv'
<1>1. TypeOK'
  BY DEF AbilityInv, TypeOK, Restart
<1> QED
  BY <1>1 DEF AbilityInv, Restart, NobodyStaysDead, LevelMatchesKills, ShownIsCurrent, Registered
----------------------------------------------------------------------------
\* Every step keeps the invariant.
LEMMA NextKeeps == AbilityInv /\ [Next]_vars => AbilityInv'
<1> SUFFICES ASSUME AbilityInv, [Next]_vars PROVE AbilityInv'
  OBVIOUS
<1>1. ASSUME NEW e \in Entities, PlayerStartingPosition(e) PROVE AbilityInv'
  BY <1>1, JoinKeeps
<1>2. ASSUME NEW e \in Entities, NEW a \in Abilities, RequestCastAbility(e, a)
      PROVE  AbilityInv'
  BY <1>2, CastKeeps
<1>3. ASSUME NEW e \in Entities, NEW a \in Abilities, CooldownElapses(e, a)
      PROVE  AbilityInv'
  BY <1>3, CooldownKeeps
<1>4. ASSUME NEW c \in Entities, NEW v \in Entities, NEW a \in Abilities,
             AbilityHitEntity(c, v, a)
      PROVE  AbilityInv'
  BY <1>4, HitUnknownKeeps, HitSurvivedKeeps, HitKilledKeeps DEF AbilityHitEntity
<1>5. CASE RegenerateMana
  BY <1>5, RegenerateKeeps
<1>6. CASE Restart
  BY <1>6, RestartKeeps
<1>7. CASE UNCHANGED vars
  BY <1>7 DEF vars, AbilityInv, TypeOK, NobodyStaysDead, LevelMatchesKills, ShownIsCurrent,
     Registered
<1> QED
  BY <1>1, <1>2, <1>3, <1>4, <1>5, <1>6, <1>7 DEF Next

\* The strengthened invariant holds of every behaviour.
THEOREM InvariantHolds == Spec => []AbilityInv
<1>1. Init => AbilityInv
  BY InitAbilityInv
<1>2. AbilityInv /\ [Next]_vars => AbilityInv'
  BY NextKeeps
<1> QED
  BY <1>1, <1>2, PTL DEF Spec

\* Health and mana stay within the range of an attribute, whatever the order of
\* hits, heals, casts, deaths and restarts.
THEOREM AttributesInRange == Spec => []TypeOK
<1>1. AbilityInv => TypeOK
  BY DEF AbilityInv
<1> QED
  BY <1>1, InvariantHolds, PTL

\* No entity is left in the registry without health.
THEOREM DeathIsFinal == Spec => []NobodyStaysDead
<1>1. AbilityInv => NobodyStaysDead
  BY DEF AbilityInv
<1> QED
  BY <1>1, InvariantHolds, PTL

\* Levels and experience are the kills announced since the last reset.
THEOREM KillsAreCounted == Spec => []LevelMatchesKills
<1>1. AbilityInv => LevelMatchesKills
  BY DEF AbilityInv
<1> QED
  BY <1>1, InvariantHolds, PTL

\* The last broadcast health and mana are the ones of the registry.
THEOREM BroadcastsAreCurrent == Spec => []ShownIsCurrent
<1>1. AbilityInv => ShownIsCurrent
  BY DEF AbilityInv
<1> QED
  BY <1>1, InvariantHolds, PTL
----------------------------------------------------------------------------
(***************************************************************************)
(* The pathing service.  Induction first: what is shown step by step about *)
(* recursive functions is shown of the set of the numbers it holds for.    *)
(***************************************************************************)

\* A set of naturals that is not empty has a least element.
LEMMA Least ==
  ASSUME NEW T \in SUBSET Nat, T # {}
  PROVE  \E k \in T : \A j \in T : k <= j
<1>1. PICK k \in T : \A j \in T : << j, k >> \notin OpToRel(<, Nat)
  BY NatLessThanWellFounded, WFMin
<1>2. ASSUME NEW j \in T PROVE k <= j
  <2>1. j < k => << j, k >> \in OpToRel(<, Nat)
    BY DEF OpToRel
  <2>2. ~(j < k)
    BY <1>1, <2>1
  <2> QED
    BY <2>2
<1> QED
  BY <1>2

\* Induction over the naturals, for the elements of a set.
LEMMA AllNaturals ==
  ASSUME NEW T, 0 \in T, \A k \in Nat : k \in T => k + 1 \in T
  PROVE  Nat \subseteq T
<1> SUFFICES ASSUME Nat \ T # {} PROVE FALSE
  OBVIOUS
<1>1. PICK k \in Nat \ T : \A j \in Nat \ T : k <= j
  BY Least
<1>2. k - 1 \in Nat /\ k - 1 \notin Nat \ T
  BY <1>1
<1> QED
  BY <1>1, <1>2
----------------------------------------------------------------------------
\* Tiles are pairs of integers.
LEMMA Coordinates ==
  ASSUME NEW n \in Tiles
  PROVE  n[1] \in Int /\ n[2] \in Int /\ n = << n[1], n[2] >>
BY MapAssumption DEF Tiles

\* Manhattan is a distance.
LEMMA Distance ==
  ASSUME NEW n \in Tiles, NEW m \in Tiles
  PROVE  /\ Manhattan(n, m) \in Nat
         /\ Manhattan(n, m) = 0 <=> n = m
         /\ \A o \in Tiles : Manhattan(n, o) <= Manhattan(n, m) + Manhattan(m, o)
<1>1. /\ n[1] \in Int /\ n[2] \in Int /\ n = << n[1], n[2] >>
      /\ m[1] \in Int /\ m[2] \in Int /\ m = << m[1], m[2] >>
  BY Coordinates
<1>2. Manhattan(n, m) \in Nat
  BY <1>1 DEF Manhattan, Abs
<1>3. Manhattan(n, m) = 0 <=> n[1] = m[1] /\ n[2] = m[2]
  BY <1>1 DEF Manhattan, Abs
<1>4. ASSUME NEW o \in Tiles
      PROVE  Manhattan(n, o) <= Manhattan(n, m) + Manhattan(m, o)
  <2>1. o[1] \in Int /\ o[2] \in Int
    BY Coordinates
  <2>2. \A x, y, z \in Int : Abs(x - z) <= Abs(x - y) + Abs(y - z) /\ Abs(x - z) \in Int
    BY DEF Abs
  <2>3. /\ Abs(n[1] - o[1]) <= Abs(n[1] - m[1]) + Abs(m[1] - o[1])
        /\ Abs(n[2] - o[2]) <= Abs(n[2] - m[2]) + Abs(m[2] - o[2])
    BY <1>1, <2>1, <2>2
  <2>4. /\ Abs(n[1] - m[1]) \in Int /\ Abs(m[1] - o[1]) \in Int /\ Abs(n[1] - o[1]) \in Int
        /\ Abs(n[2] - m[2]) \in Int /\ Abs(m[2] - o[2]) \in Int /\ Abs(n[2] - o[2]) \in Int
    BY <1>1, <2>1, <2>2
  <2> QED
    BY <2>3, <2>4 DEF Manhattan
<1> QED
  BY <1>1, <1>2, <1>3, <1>4

\* There are finitely many free tiles.
LEMMA FreeTiles == Free \subseteq Tiles /\ Cardinality(Free) \in Nat
<1>1. IsFiniteSet(0 .. Width - 1) /\ IsFiniteSet(0 .. Height - 1)
  BY MapAssumption, FS_Interval
<1>2. IsFiniteSet(Tiles)
  BY <1>1, FS_Product DEF Tiles
<1>3. Free \in SUBSET Tiles
  BY DEF Free
<1> QED
  BY <1>2, <1>3, FS_Subset, FS_CardinalityType
----------------------------------------------------------------------------
\* Balls are what their recursion says.
Balls(n, k, ball) ==
  ball = [j \in 0 .. k |-> IF j = 0 THEN {n} \cap Free
                           ELSE UNION {{o \in Free : Manhattan(m, o) <= 1} : m \in ball[j - 1]}]

\* There are the balls Within speaks of.
LEMMA WithinIsBall ==
  ASSUME NEW n, NEW k \in Nat
  PROVE  \E ball : Balls(n, k, ball) /\ Within(n, k) = ball[k]
<1> DEFINE T == {i \in Nat : \E ball : Balls(n, i, ball)}
<1>1. 0 \in T
  <2>1. Balls(n, 0, [j \in 0 .. 0 |-> {n} \cap Free])
    BY DEF Balls
  <2> QED
    BY <2>1
<1>2. ASSUME NEW i \in Nat, i \in T PROVE i + 1 \in T
  <2>1. PICK ball : Balls(n, i, ball)
    BY <1>2
  <2> DEFINE next == [j \in 0 .. i + 1 |->
                        IF j = 0 THEN {n} \cap Free
                        ELSE UNION {{o \in Free : Manhattan(m, o) <= 1} : m \in ball[j - 1]}]
  <2>2. ASSUME NEW j \in 0 .. i PROVE next[j] = ball[j]
    <3>1. ball[j] = IF j = 0 THEN {n} \cap Free
                    ELSE UNION {{o \in Free : Manhattan(m, o) <= 1} : m \in ball[j - 1]}
      BY <2>1 DEF Balls
    <3>2. j \in 0 .. i + 1
      OBVIOUS
    <3> QED
      BY <3>1, <3>2
  <2>3. \A j \in 0 .. i + 1 : j # 0 => j - 1 \in 0 .. i
    OBVIOUS
  <2>4. next = [j \in 0 .. i + 1 |->
                  IF j = 0 THEN {n} \cap Free
                  ELSE UNION {{o \in Free : Manhattan(m, o) <= 1} : m \in next[j - 1]}]
    BY <2>2, <2>3
  <2>5. Balls(n, i + 1, next)
    BY <2>4 DEF Balls
  <2> QED
    BY <2>5
<1>3. k \in T
  <2> HIDE DEF T
  <2> QED
    BY <1>1, <1>2, AllNaturals
<1>4. Balls(n, k, CHOOSE ball : Balls(n, k, ball))
  BY <1>3
<1>5. Within(n, k) = (CHOOSE ball : Balls(n, k, ball))[k]
  BY DEF Within, Balls
<1> QED
  BY <1>4, <1>5

\* Nothing but free tiles is within reach.
LEMMA WithinIsFree ==
  ASSUME NEW n, NEW k \in Nat
  PROVE  Within(n, k) \subseteq Free
<1>1. PICK ball : Balls(n, k, ball) /\ Within(n, k) = ball[k]
  BY WithinIsBall
<1>2. CASE k = 0
  BY <1>1, <1>2 DEF Balls
<1>3. CASE k # 0
  BY <1>1, <1>3 DEF Balls
<1> QED
  BY <1>2, <1>3

\* What is within reach depends on the walls only.
LEMMA WithinKept ==
  ASSUME walls' = walls, NEW n, NEW k
  PROVE  Within(n, k)' = Within(n, k)
<1> DEFINE W(free) ==
      LET ball[j \in 0 .. k] ==
            IF j = 0 THEN {n} \cap free
            ELSE UNION {{o \in free : Manhattan(m, o) <= 1} : m \in ball[j - 1]}
      IN  ball[k]
<1>1. Within(n, k) = W(Free)
  BY DEF Within
<1>2. Within(n, k)' = W(Free')
  BY DEF Within
<1>3. Free' = Free
  BY DEF Free
<1> HIDE DEF W
<1> QED
  BY <1>1, <1>2, <1>3
----------------------------------------------------------------------------
(***************************************************************************)
(* The invariant of the search.  A tile with a score is settled, when its  *)
(* neighbours have scores no worse than through it, or an entry of the     *)
(* heap with its score waits; the end is never settled.                    *)
(***************************************************************************)
Scored == DOMAIN g_score
Settled(n) ==
  /\ n # TileOf(end)
  /\ \A o \in Neighbors(n) : o \in Scored /\ g_score[o] <= g_score[n] + 1
Waits(n) == \E c \in open : c.node = n /\ c.g = g_score[n]

\* Entries cost what Cost says, but for the first one.
Entry(c) ==
  /\ c.g \in Nat /\ c.node \in Scored /\ g_score[c.node] <= c.g
  /\ \/ c.node \in Free /\ c.f = Cost(c.node, c.g)
     \/ c.node = TileOf(start) /\ c.g = 0 /\ c.f = 0

\* came_from[n] is next to n and has been reached before it.
Parent(n) ==
  /\ n \in Free /\ n \in Scored
  /\ came_from[n] \in Free /\ came_from[n] \in Scored
  /\ Manhattan(came_from[n], n) = 1
  /\ g_score[came_from[n]] + 1 <= g_score[n]

SearchInv ==
  /\ \A c \in open : Entry(c)
  /\ \A n \in Scored : g_score[n] \in Nat
  /\ \E bound \in Nat : \A n \in Scored : g_score[n] <= bound
  /\ TileOf(start) \in Scored /\ g_score[TileOf(start)] = 0
  /\ Scored = DOMAIN came_from \cup {TileOf(start)}
  /\ TileOf(start) \notin DOMAIN came_from
  /\ \A n \in DOMAIN came_from : Parent(n)
  /\ \A n \in Scored : Settled(n) \/ Waits(n)

\* What is k steps away is settled, or not far from where an entry waits.
Covered(n, k) ==
  \/ n \in Scored /\ g_score[n] <= k /\ Settled(n)
  \/ \E c \in open : c.node \in Free /\ c.g + Manhattan(c.node, n) <= k

\* One step further.
LEMMA CoveredStep ==
  ASSUME SearchInv, NEW k \in Nat, NEW m \in Free, Covered(m, k),
         NEW n \in Free, Manhattan(m, n) <= 1
  PROVE  Covered(n, k + 1)
<1>1. m \in Tiles /\ n \in Tiles
  BY FreeTiles
<1>2. Manhattan(m, n) \in Nat /\ (Manhattan(m, n) = 0 <=> m = n)
  BY <1>1, Distance
<1>3. CASE \E c \in open : c.node \in Free /\ c.g + Manhattan(c.node, m) <= k
  <2>1. PICK c \in open : c.node \in Free /\ c.g + Manhattan(c.node, m) <= k
    BY <1>3
  <2>2. c.g \in Nat /\ c.node \in Tiles
    BY <2>1, FreeTiles DEF SearchInv, Entry
  <2>3. /\ Manhattan(c.node, n) <= Manhattan(c.node, m) + Manhattan(m, n)
        /\ Manhattan(c.node, n) \in Nat /\ Manhattan(c.node, m) \in Nat
    BY <1>1, <2>2, Distance
  <2>4. c.g + Manhattan(c.node, n) <= k + 1
    BY <1>2, <2>1, <2>2, <2>3
  <2> QED
    BY <2>1, <2>4 DEF Covered
<1>4. CASE m \in Scored /\ g_score[m] <= k /\ Settled(m)
  <2>1. g_score[m] \in Nat
    BY <1>4 DEF SearchInv
  <2>2. CASE m = n
    <3>1. g_score[m] <= k + 1
      BY <1>4, <2>1
    <3> QED
      BY <1>4, <2>2, <3>1 DEF Covered
  <2>3. CASE m # n
    <3>1. n \in Neighbors(m)
      BY <1>2, <2>3 DEF Neighbors
    <3>2. n \in Scored /\ g_score[n] <= g_score[m] + 1
      BY <1>4, <3>1 DEF Settled
    <3>3. g_score[n] \in Nat /\ g_score[n] <= k + 1
      BY <1>4, <2>1, <3>2 DEF SearchInv
    <3>4. CASE Settled(n)
      BY <3>2, <3>3, <3>4 DEF Covered
    <3>5. CASE Waits(n)
      <4>1. PICK c \in open : c.node = n /\ c.g = g_score[n]
        BY <3>5 DEF Waits
      <4>2. Manhattan(c.node, n) = 0
        BY <1>1, <4>1, Distance
      <4>3. c.g + Manhattan(c.node, n) <= k + 1
        BY <3>3, <4>1, <4>2
      <4> QED
        BY <4>1, <4>3 DEF Covered
    <3> QED
      BY <3>2, <3>4, <3>5 DEF SearchInv
  <2> QED
    BY <2>2, <2>3
<1> QED
  BY <1>3, <1>4 DEF Covered

\* Every tile within reach is covered.
LEMMA WithinIsCovered ==
  ASSUME SearchInv, NEW k \in Nat, NEW n \in Within(TileOf(start), k)
  PROVE  Covered(n, k)
<1>1. PICK ball : Balls(TileOf(start), k, ball) /\ Within(TileOf(start), k) = ball[k]
  BY WithinIsBall
<1> DEFINE T == {j \in Nat : j <= k => \A m \in ball[j] : m \in Free /\ Covered(m, j)}
<1>2. 0 \in T
  <2> SUFFICES ASSUME NEW m \in ball[0] PROVE m \in Free /\ Covered(m, 0)
    OBVIOUS
  <2>1. m = TileOf(start) /\ m \in Free
    BY <1>1 DEF Balls
  <2>2. m \in Scored /\ g_score[m] = 0
    BY <2>1 DEF SearchInv
  <2>3. CASE Settled(m)
    BY <2>1, <2>2, <2>3 DEF Covered
  <2>4. CASE Waits(m)
    <3>1. PICK c \in open : c.node = m /\ c.g = 0
      BY <2>2, <2>4 DEF Waits
    <3>2. Manhattan(c.node, m) = 0
      BY <2>1, <3>1, FreeTiles, Distance
    <3> QED
      BY <2>1, <3>1, <3>2 DEF Covered
  <2> QED
    BY <2>1, <2>2, <2>3, <2>4 DEF SearchInv
<1>3. ASSUME NEW j \in Nat, j \in T PROVE j + 1 \in T
  <2> SUFFICES ASSUME j + 1 <= k, NEW p \in ball[j + 1]
               PROVE  p \in Free /\ Covered(p, j + 1)
    OBVIOUS
  <2>1. ball[j + 1] = UNION {{o \in Free : Manhattan(m, o) <= 1} : m \in ball[j]}
    <3>1. j + 1 \in 0 .. k /\ j + 1 # 0 /\ (j + 1) - 1 = j
      OBVIOUS
    <3> QED
      BY <1>1, <3>1 DEF Balls
  <2>2. PICK m \in ball[j] : p \in Free /\ Manhattan(m, p) <= 1
    BY <2>1
  <2>3. m \in Free /\ Covered(m, j)
    BY <1>3
  <2> QED
    BY <2>2, <2>3, CoveredStep
<1>4. k \in T
  <2> HIDE DEF T
  <2> QED
    BY <1>2, <1>3, AllNaturals
<1> QED
  BY <1>1, <1>4

\* The cheapest entry, if it is the end, is at most a thousandth dearer than
\* the shortest way there.
LEMMA CheapestIsShort ==
  ASSUME SearchInv, NEW c \in Cheapest, c.node = TileOf(end), TileOf(end) \in Free,
         NEW k \in Nat, TileOf(end) \in Within(TileOf(start), k)
  PROVE  1000 * c.g <= 1001 * k
<1>1. PICK o \in open : o.node \in Free /\ o.g + Manhattan(o.node, TileOf(end)) <= k
  BY WithinIsCovered DEF Covered, Settled
<1>2. /\ c.g \in Nat /\ Manhattan(c.node, TileOf(end)) = 0 /\ c.f <= o.f
      /\ o.g \in Nat /\ Manhattan(o.node, TileOf(end)) \in Nat
  BY <1>1, FreeTiles, Distance DEF Cheapest, SearchInv, Entry
<1>3. Entry(c) /\ Entry(o)
  BY <1>1 DEF Cheapest, SearchInv
<1>4. c.f = 1000 * c.g
  <2>1. Cost(c.node, c.g) = 1000 * c.g
    BY <1>2 DEF Cost
  <2> QED
    BY <1>2, <1>3, <2>1 DEF Entry
<1>5. o.f <= 1000 * o.g + 1001 * Manhattan(o.node, TileOf(end)) /\ o.f \in Int
  <2>1. /\ Cost(o.node, o.g) = 1000 * o.g + 1001 * Manhattan(o.node, TileOf(end))
        /\ Cost(o.node, o.g) \in Nat
    BY <1>2 DEF Cost
  <2> QED
    BY <1>2, <1>3, <2>1 DEF Entry
<1> QED
  BY <1>1, <1>2, <1>4, <1>5

\* When nothing waits the end is out of reach.
LEMMA NothingWaits ==
  ASSUME SearchInv, open = {}, NEW k \in Nat
  PROVE  TileOf(end) \notin Within(TileOf(start), k)
BY WithinIsCovered DEF Covered, Settled
----------------------------------------------------------------------------
(***************************************************************************)
(* The way back along came_from ends, since the scores fall.               *)
(***************************************************************************)
Ways(to) ==
  to = [n \in Tiles |-> IF n \in DOMAIN came_from THEN Append(to[came_from[n]], n) ELSE << n >>]

\* There is the function Back speaks of.
LEMMA BackIsWay ==
  ASSUME SearchInv
  PROVE  \E to : Ways(to) /\ Back = to[TileOf(end)]
<1> DEFINE Longer(to, n) == IF n \in DOMAIN came_from THEN Append(to[came_from[n]], n) ELSE << n >>
           UpTo(n, k) == n \in DOMAIN came_from => g_score[n] <= k
           T == {k \in Nat : \E to : \A n \in Tiles : UpTo(n, k) => to[n] = Longer(to, n)}
<1>1. \A n \in DOMAIN came_from :
        /\ came_from[n] \in Tiles
        /\ g_score[n] \in Nat /\ g_score[came_from[n]] \in Nat
        /\ g_score[came_from[n]] + 1 <= g_score[n]
  BY FreeTiles DEF SearchInv, Parent
<1>2. 0 \in T
  <2> DEFINE to == [n \in Tiles |-> << n >>]
  <2>1. ASSUME NEW n \in Tiles, UpTo(n, 0) PROVE to[n] = Longer(to, n)
    BY <1>1, <2>1
  <2> QED
    BY <2>1
<1>3. ASSUME NEW k \in Nat, k \in T PROVE k + 1 \in T
  <2>1. PICK to : \A n \in Tiles : UpTo(n, k) => to[n] = Longer(to, n)
    BY <1>3
  <2> DEFINE longer == [n \in Tiles |-> Longer(to, n)]
  <2>2. ASSUME NEW n \in Tiles, UpTo(n, k + 1) PROVE longer[n] = Longer(longer, n)
    <3>1. CASE n \in DOMAIN came_from
      <4>1. came_from[n] \in Tiles /\ UpTo(came_from[n], k)
        BY <1>1, <2>2, <3>1
      <4>2. longer[came_from[n]] = to[came_from[n]]
        BY <2>1, <4>1
      <4> QED
        BY <3>1, <4>2
    <3>2. CASE n \notin DOMAIN came_from
      BY <3>2
    <3> QED
      BY <3>1, <3>2
  <2>3. \E f : \A n \in Tiles : UpTo(n, k + 1) => f[n] = Longer(f, n)
    <3> HIDE DEF longer
    <3> QED
      BY <2>2
  <2> QED
    BY <2>3
<1>4. PICK bound \in Nat : \A n \in DOMAIN came_from : g_score[n] <= bound
  BY DEF SearchInv
<1>5. bound \in T
  <2> HIDE DEF T
  <2> QED
    BY <1>2, <1>3, AllNaturals
<1>6. PICK to : \A n \in Tiles : to[n] = Longer(to, n)
  BY <1>4, <1>5
<1>7. Ways([n \in Tiles |-> to[n]])
  BY <1>1, <1>6 DEF Ways
<1>8. Ways(CHOOSE f : Ways(f))
  BY <1>7
<1>9. Back = (CHOOSE f : Ways(f))[TileOf(end)]
  BY DEF Back, Ways
<1> QED
  BY <1>8, <1>9

\* A way from the start to n over free tiles, no longer than the score of n.
Way(w, n) ==
  /\ w \in Seq(Free) /\ Len(w) >= 1 /\ Len(w) - 1 <= g_score[n]
  /\ w[1] = TileOf(start) /\ w[Len(w)] = n
  /\ \A j \in 1 .. Len(w) - 1 : Manhattan(w[j], w[j + 1]) = 1

\* It leads from the start to every tile that has a score.
LEMMA WayTo ==
  ASSUME SearchInv, NEW to, Ways(to), NEW n \in Free, n \in Scored
  PROVE  Way(to[n], n)
<1> DEFINE T == {k \in Nat : \A m \in Free : m \in Scored /\ g_score[m] <= k => Way(to[m], m)}
<1>1. ASSUME NEW m \in Free, m \in Scored, m \notin DOMAIN came_from PROVE Way(to[m], m)
  <2>1. m = TileOf(start) /\ g_score[m] = 0
    BY <1>1 DEF SearchInv
  <2>2. to[m] = << m >>
    BY <1>1, FreeTiles DEF Ways
  <2> QED
    BY <2>1, <2>2 DEF Way
<1>2. 0 \in T
  <2> SUFFICES ASSUME NEW m \in Free, m \in Scored, g_score[m] <= 0 PROVE Way(to[m], m)
    OBVIOUS
  <2>1. m \notin DOMAIN came_from
    <3> SUFFICES ASSUME m \in DOMAIN came_from PROVE FALSE
      OBVIOUS
    <3>1. Parent(m)
      BY DEF SearchInv
    <3>2. g_score[came_from[m]] \in Nat /\ g_score[m] \in Nat
      BY <3>1 DEF SearchInv, Parent
    <3> QED
      BY <3>1, <3>2 DEF Parent
  <2> QED
    BY <1>1, <2>1
<1>3. ASSUME NEW k \in Nat, k \in T PROVE k + 1 \in T
  <2> SUFFICES ASSUME NEW m \in Free, m \in Scored, g_score[m] <= k + 1, m \in DOMAIN came_from
               PROVE  Way(to[m], m)
    BY <1>1
  <2> DEFINE before == came_from[m]
  <2>1. /\ before \in Free /\ before \in Scored /\ Manhattan(before, m) = 1
        /\ g_score[before] \in Nat /\ g_score[m] \in Nat /\ g_score[before] + 1 <= g_score[m]
    BY DEF SearchInv, Parent
  <2>2. Way(to[before], before)
    BY <1>3, <2>1
  <2>3. to[m] = Append(to[before], m)
    BY FreeTiles DEF Ways
  <2> DEFINE w == to[before]
  <2> HIDE DEF before
  <2>4. /\ w \in Seq(Free) /\ Len(w) \in Nat /\ Len(w) >= 1 /\ Len(w) - 1 <= g_score[before]
        /\ w[1] = TileOf(start) /\ w[Len(w)] = before
        /\ \A j \in 1 .. Len(w) - 1 : Manhattan(w[j], w[j + 1]) = 1
    BY <2>2 DEF Way
  <2> HIDE DEF w
  <2>5. /\ Append(w, m) \in Seq(Free) /\ Len(Append(w, m)) = Len(w) + 1
        /\ \A j \in 1 .. Len(w) : Append(w, m)[j] = w[j]
        /\ Append(w, m)[Len(w) + 1] = m
    BY <2>4
  <2>6. \A j \in 1 .. Len(w) : Manhattan(Append(w, m)[j], Append(w, m)[j + 1]) = 1
    <3> TAKE j \in 1 .. Len(w)
    <3>1. CASE j = Len(w)
      BY <2>1, <2>4, <2>5, <3>1
    <3>2. CASE j # Len(w)
      <4>1. j \in 1 .. Len(w) - 1 /\ j + 1 \in 1 .. Len(w)
        BY <2>4, <3>2
      <4> QED
        BY <2>4, <2>5, <4>1
    <3> QED
      BY <3>1, <3>2
  <2>7. to[m] = Append(w, m)
    BY <2>3 DEF w
  <2> QED
    BY <2>1, <2>4, <2>5, <2>6, <2>7 DEF Way
<1>4. g_score[n] \in T
  <2>1. g_score[n] \in Nat
    BY DEF SearchInv
  <2> HIDE DEF T
  <2> QED
    BY <1>2, <1>3, <2>1, AllNaturals
<1> QED
  BY <1>4
----------------------------------------------------------------------------
(***************************************************************************)
(* The steps of the search.                                                *)
(***************************************************************************)

\* A request starts the search at its tile.
LEMMA SearchStarts ==
  ASSUME came_from = [n \in {} |-> n], NEW s, NEW e, HandlePathRequest(s, e), phase' = "search"
  PROVE  SearchInv'
<1>1. /\ start' = s /\ end' = e /\ walls' = walls /\ came_from' = came_from
      /\ open' = {[node |-> TileOf(s), f |-> 0, g |-> 0]}
      /\ g_score' = [n \in {TileOf(s)} |-> 0]
  BY DEF HandlePathRequest
<1>2. /\ TileOf(start') = TileOf(s) /\ DOMAIN came_from' = {}
      /\ DOMAIN g_score' = {TileOf(s)} /\ g_score'[TileOf(s)] = 0
  BY <1>1
<1>3. TileOf(start)' = TileOf(s)
  BY <1>1 DEF TileOf
<1>4. Waits(TileOf(s))'
  BY <1>1, <1>2 DEF Waits
<1>5. \A c \in open' : Entry(c)'
  BY <1>1, <1>2, <1>3 DEF Entry, Scored
<1> QED
  BY <1>2, <1>3, <1>4, <1>5 DEF SearchInv, Scored

\* The search changes nothing of the request and the map.
LEMMA SearchKeeps ==
  ASSUME UNCHANGED << walls, start, end >>
  PROVE  /\ TileOf(start)' = TileOf(start) /\ TileOf(end)' = TileOf(end) /\ Free' = Free
         /\ \A n : Neighbors(n)' = Neighbors(n)
         /\ \A n, g : Cost(n, g)' = Cost(n, g)
BY DEF TileOf, Free, Neighbors, Cost

\* A stale entry waits for nothing.
LEMMA SkipKeeps ==
  ASSUME SearchInv, NEW c \in open, Skip(c)
  PROVE  SearchInv'
<1>1. /\ open' = open \ {c} /\ UNCHANGED << g_score, came_from, walls, start, end >>
      /\ c.g > g_score[c.node]
  BY DEF Skip, Searches, Stale
<1>2. /\ c.g \in Nat /\ g_score[c.node] \in Nat
  BY DEF SearchInv, Entry
<1>3. \A n \in Scored : Waits(n) => Waits(n)'
  BY <1>1, <1>2 DEF Waits
<1>4. \A n \in Scored : Settled(n) => Settled(n)'
  BY <1>1, SearchKeeps DEF Settled, Scored
<1>5. \A o \in open' : Entry(o)'
  BY <1>1, SearchKeeps DEF SearchInv, Entry, Scored
<1>6. \A n \in DOMAIN came_from : Parent(n)'
  BY <1>1, SearchKeeps DEF SearchInv, Parent, Scored
<1> QED
  BY <1>1, <1>3, <1>4, <1>5, <1>6, SearchKeeps DEF SearchInv, Scored

\* An entry is expanded: its tile is settled, and the neighbours it improves wait.
LEMMA ExpandKeeps ==
  ASSUME SearchInv, NEW c \in open, Expand(c)
  PROVE  SearchInv'
<1> DEFINE new == Improved(c)
           entry(n) == [node |-> n, f |-> Cost(n, c.g + 1), g |-> c.g + 1]
<1>1. /\ open' = (open \ {c}) \cup {entry(n) : n \in new}
      /\ g_score' = Extend(g_score, new, c.g + 1)
      /\ came_from' = Extend(came_from, new, c.node)
      /\ UNCHANGED << walls, start, end >>
      /\ c.node # TileOf(end) /\ ~(c.g > g_score[c.node])
  BY DEF Expand, Searches, Stale
<1>2. /\ c.g \in Nat /\ c.node \in Scored /\ c.g = g_score[c.node]
  BY <1>1 DEF SearchInv, Entry
<1>3. /\ \A n \in new : /\ n \in Free /\ c.node \in Free /\ Manhattan(c.node, n) = 1
                        /\ n \in Scored => c.g + 1 < g_score[n]
  BY DEF Improved, Neighbors, Scored
<1> HIDE DEF new
<1>4. /\ Scored' = Scored \cup new
      /\ \A n \in new : g_score'[n] = c.g + 1
      /\ \A n \in Scored \ new : g_score'[n] = g_score[n]
  <2> DEFINE f == Extend(g_score, new, c.g + 1)
  <2>1. /\ DOMAIN f = DOMAIN g_score \cup new
        /\ \A n \in new : f[n] = c.g + 1
        /\ \A n \in DOMAIN g_score \ new : f[n] = g_score[n]
    BY DEF Extend
  <2> HIDE DEF f
  <2>2. g_score' = f
    BY <1>1 DEF f
  <2> QED
    BY <2>1, <2>2 DEF Scored
<1>5. /\ DOMAIN came_from' = DOMAIN came_from \cup new
      /\ \A n \in new : came_from'[n] = c.node
      /\ \A n \in DOMAIN came_from \ new : came_from'[n] = came_from[n]
  <2> DEFINE f == Extend(came_from, new, c.node)
  <2>1. /\ DOMAIN f = DOMAIN came_from \cup new
        /\ \A n \in new : f[n] = c.node
        /\ \A n \in DOMAIN came_from \ new : f[n] = came_from[n]
    BY DEF Extend
  <2> HIDE DEF f
  <2>2. came_from' = f
    BY <1>1 DEF f
  <2> QED
    BY <2>1, <2>2
<1>6. \A n \in Scored : g_score[n] \in Nat
  BY DEF SearchInv
<1>7. /\ \A n \in Scored : g_score'[n] \in Nat /\ g_score'[n] <= g_score[n]
      /\ \A n \in Scored' : g_score'[n] \in Nat
  BY <1>2, <1>3, <1>4, <1>6
<1>8. c.node \notin new
  BY <1>2, <1>3, <1>6
<1>9. TileOf(start) \in Scored /\ TileOf(start) \notin new /\ g_score[TileOf(start)] = 0
  BY <1>2, <1>3 DEF SearchInv
<1>10. \A o \in open' : Entry(o)'
  <2> SUFFICES ASSUME NEW o \in open' PROVE Entry(o)'
    OBVIOUS
  <2>1. CASE o \in open
    <3>1. Entry(o)
      BY <2>1 DEF SearchInv
    <3>2. o.g \in Nat /\ o.node \in Scored' /\ g_score'[o.node] <= o.g
      BY <1>4, <1>6, <1>7, <3>1 DEF Entry
    <3> QED
      BY <1>1, <3>1, <3>2, SearchKeeps DEF Entry
  <2>2. CASE \E n \in new : o = entry(n)
    <3>1. PICK n \in new : o = entry(n)
      BY <2>2
    <3>2. o.node = n /\ o.g = c.g + 1 /\ o.f = Cost(n, c.g + 1)
      BY <3>1
    <3> QED
      BY <1>1, <1>2, <1>3, <1>4, <3>2, SearchKeeps DEF Entry
  <2> QED
    BY <1>1, <2>1, <2>2
<1>11. \E bound \in Nat : \A n \in Scored' : g_score'[n] <= bound
  <2>1. PICK bound \in Nat : \A n \in Scored : g_score[n] <= bound
    BY DEF SearchInv
  <2>2. \A n \in Scored' : g_score'[n] <= bound + c.g + 1
    BY <1>2, <1>4, <1>6, <2>1
  <2> QED
    BY <1>2, <2>2
<1>12. \A n \in DOMAIN came_from' : Parent(n)'
  <2> SUFFICES ASSUME NEW n \in DOMAIN came_from' PROVE Parent(n)'
    OBVIOUS
  <2>1. CASE n \in new
    <3>1. g_score'[c.node] + 1 <= g_score'[n] /\ c.node \in Scored'
      BY <1>2, <1>4, <1>8, <2>1
    <3> QED
      BY <1>1, <1>3, <1>4, <1>5, <2>1, <3>1, SearchKeeps DEF Parent
  <2>2. CASE n \notin new
    <3>1. n \in DOMAIN came_from /\ came_from'[n] = came_from[n] /\ Parent(n)
      BY <1>5, <2>2 DEF SearchInv
    <3>2. g_score'[came_from[n]] + 1 <= g_score'[n]
      BY <1>4, <1>6, <1>7, <2>2, <3>1 DEF Parent
    <3> QED
      BY <1>1, <1>4, <3>1, <3>2, SearchKeeps DEF Parent
  <2> QED
    BY <2>1, <2>2
<1>13. \A n \in Scored' : Settled(n)' \/ Waits(n)'
  <2> SUFFICES ASSUME NEW n \in Scored' PROVE Settled(n)' \/ Waits(n)'
    OBVIOUS
  <2>1. CASE n \in new
    <3>1. entry(n) \in open' /\ entry(n).node = n /\ entry(n).g = g_score'[n]
      BY <1>1, <1>4, <2>1
    <3> QED
      BY <3>1 DEF Waits
  <2>2. CASE n = c.node
    <3>1. ASSUME NEW o \in Neighbors(n) PROVE o \in Scored' /\ g_score'[o] <= g_score'[n] + 1
      <4>1. o \in new \/ (o \in Scored /\ ~(c.g + 1 < g_score[o]))
        BY <2>2, <3>1 DEF new, Improved, Scored
      <4> QED
        BY <1>2, <1>4, <1>6, <1>8, <2>2, <4>1
    <3> QED
      BY <1>1, <2>2, <3>1, SearchKeeps DEF Settled
  <2>3. CASE n \notin new /\ n # c.node
    <3>1. n \in Scored /\ g_score'[n] = g_score[n]
      BY <1>4, <2>3
    <3>2. CASE Waits(n)
      BY <1>1, <2>3, <3>1, <3>2 DEF Waits
    <3>3. CASE Settled(n)
      <4>1. ASSUME NEW o \in Neighbors(n) PROVE o \in Scored' /\ g_score'[o] <= g_score'[n] + 1
        <5>1. o \in Scored /\ g_score[o] <= g_score[n] + 1
          BY <3>3, <4>1 DEF Settled
        <5> QED
          BY <1>4, <1>6, <1>7, <3>1, <5>1
      <4> QED
        BY <1>1, <3>3, <4>1, SearchKeeps DEF Settled
    <3> QED
      BY <3>1, <3>2, <3>3 DEF SearchInv
  <2> QED
    BY <2>1, <2>2, <2>3
<1>14. /\ TileOf(start)' \in Scored' /\ g_score'[TileOf(start)'] = 0
       /\ Scored' = DOMAIN came_from' \cup {TileOf(start)'}
       /\ TileOf(start)' \notin DOMAIN came_from'
  <2>1. TileOf(start)' = TileOf(start)
    BY <1>1, SearchKeeps
  <2> QED
    BY <1>4, <1>5, <1>9, <2>1 DEF SearchInv
<1> QED
  BY <1>7, <1>10, <1>11, <1>12, <1>13, <1>14 DEF SearchInv
----------------------------------------------------------------------------
\* The search has its invariant, and what follows has a route.
PathInv ==
  /\ phase \in {"idle", "search", "funnel", "done"}
  /\ phase = "idle" => came_from = [n \in {} |-> n]
  /\ phase = "search" => SearchInv
  /\ phase \in {"idle", "search"} => route = << >>
  /\ phase = "funnel" => route # << >>
  /\ ShortestRoute

\* An entry for the end makes a route, which is among the shortest.
LEMMA RouteFound ==
  ASSUME PathInv, NEW c \in open, Reconstruct(c)
  PROVE  PathInv'
<1>1. /\ route' = Back /\ phase' = "funnel" /\ UNCHANGED << walls, start, end >>
      /\ c \in Cheapest /\ c.node = TileOf(end) /\ TileOf(end) \in Free
      /\ SearchInv
  BY DEF Reconstruct, Searches, PathInv
<1>2. PICK to : Ways(to) /\ Back = to[TileOf(end)]
  BY <1>1, BackIsWay
<1>3. Entry(c)
  BY <1>1 DEF SearchInv
<1>4. Way(Back, TileOf(end))
  BY <1>1, <1>2, <1>3, WayTo DEF Entry
<1>5. /\ route' \in Seq(Free) /\ Len(route') \in Nat /\ Len(route') >= 1
      /\ route'[1] = TileOf(start) /\ route'[Len(route')] = TileOf(end)
      /\ \A j \in 1 .. Len(route') : route'[j] \in Free
      /\ \A j \in 1 .. Len(route') - 1 : Manhattan(route'[j], route'[j + 1]) = 1
      /\ Len(route') - 1 <= g_score[TileOf(end)]
  BY <1>1, <1>4 DEF Way
<1>6. g_score[TileOf(end)] \in Nat /\ c.g \in Nat /\ g_score[TileOf(end)] <= c.g
  BY <1>1, <1>3 DEF SearchInv, Entry
<1>7. ASSUME NEW k \in 0 .. Len(route') - 2, TileOf(end) \in Within(TileOf(start), k)
      PROVE  1000 * (Len(route') - 1) <= 1001 * k
  <2>1. 1000 * c.g <= 1001 * k
    BY <1>1, <1>7, CheapestIsShort
  <2> QED
    BY <1>5, <1>6, <2>1
<1>8. /\ TileOf(start)' = TileOf(start) /\ TileOf(end)' = TileOf(end) /\ Free' = Free
      /\ \A k : (TileOf(end) \in Within(TileOf(start), k))'
                  <=> TileOf(end) \in Within(TileOf(start), k)
  <2>1. TileOf(start)' = TileOf(start) /\ TileOf(end)' = TileOf(end) /\ Free' = Free
    BY <1>1, SearchKeeps
  <2> QED
    BY <1>1, <2>1, WithinKept
<1>9. ShortestRoute'
  BY <1>1, <1>5, <1>7, <1>8 DEF ShortestRoute
<1> QED
  BY <1>1, <1>5, <1>9 DEF PathInv

\* The search is given up: no route of any length leads to the end.
LEMMA RouteMissing ==
  ASSUME PathInv, GiveUp
  PROVE  PathInv'
<1>1. /\ UNCHANGED << walls, start, end, route >> /\ phase' = "done" /\ route = << >>
      /\ TileOf(end) \notin Free \/ open = {}
      /\ SearchInv
  BY DEF GiveUp, Searches, PathInv
<1>2. Cardinality(Free) \in Nat
  BY FreeTiles
<1>3. TileOf(end) \notin Within(TileOf(start), Cardinality(Free))
  BY <1>1, <1>2, NothingWaits, WithinIsFree
<1>4. Within(TileOf(start), Cardinality(Free))' = Within(TileOf(start), Cardinality(Free))
  <2>1. TileOf(start)' = TileOf(start) /\ Cardinality(Free)' = Cardinality(Free)
    BY <1>1, SearchKeeps
  <2> QED
    BY <1>1, <2>1, WithinKept
<1>5. TileOf(end)' = TileOf(end)
  BY <1>1, SearchKeeps
<1>6. ShortestRoute'
  BY <1>1, <1>3, <1>4, <1>5 DEF ShortestRoute
<1> QED
  BY <1>1, <1>6 DEF PathInv

\* A step that leaves the request, the map and the route as they are.
LEMMA RouteKept ==
  ASSUME ShortestRoute, UNCHANGED << walls, start, end, route >>,
         phase' = "done" /\ route = << >> => phase = "done"
  PROVE  ShortestRoute'
<1>1. /\ TileOf(start)' = TileOf(start) /\ TileOf(end)' = TileOf(end) /\ Free' = Free
      /\ \A k : Within(TileOf(start), k)' = Within(TileOf(start), k)
  <2>1. TileOf(start)' = TileOf(start) /\ TileOf(end)' = TileOf(end) /\ Free' = Free
    BY SearchKeeps
  <2> QED
    BY <2>1, WithinKept
<1>2. HasLineOfSight(TileOf(start), TileOf(end))' <=> HasLineOfSight(TileOf(start), TileOf(end))
  BY <1>1 DEF HasLineOfSight
<1>3. Cardinality(Free)' = Cardinality(Free)
  BY <1>1
<1> QED
  BY <1>1, <1>2, <1>3 DEF ShortestRoute

\* A request on the line is answered at once, another one begins the search.
LEMMA RequestStep ==
  ASSUME PathInv, NEW s, NEW e, HandlePathRequest(s, e)
  PROVE  PathInv'
<1>1. /\ phase = "idle" /\ route = << >> /\ route' = << >> /\ came_from = [n \in {} |-> n]
      /\ walls' = walls /\ start' = s /\ end' = e
  BY DEF HandlePathRequest, PathInv
<1>2. CASE HasLineOfSight(TileOf(s), TileOf(e))
  <2>1. phase' = "done"
    BY <1>2 DEF HandlePathRequest
  <2>2. HasLineOfSight(TileOf(start), TileOf(end))'
    BY <1>1, <1>2 DEF HasLineOfSight, TileOf, Free
  <2> QED
    BY <1>1, <2>1, <2>2 DEF PathInv, ShortestRoute
<1>3. CASE ~HasLineOfSight(TileOf(s), TileOf(e))
  <2>1. phase' = "search"
    BY <1>3 DEF HandlePathRequest
  <2>2. SearchInv'
    BY <1>1, <2>1, SearchStarts
  <2> QED
    BY <1>1, <2>1, <2>2 DEF PathInv, ShortestRoute
<1> QED
  BY <1>2, <1>3

\* The funnel leaves the route alone.
LEMMA FunnelStep ==
  ASSUME PathInv, TurnLeft \/ TurnRight \/ GoStraight \/ Answer
  PROVE  PathInv'
<1>1. /\ phase = "funnel" /\ phase' \in {"funnel", "done"}
      /\ UNCHANGED << walls, start, end, route >>
  BY DEF TurnLeft, TurnRight, GoStraight, Answer, Turns, Pulls
<1>2. ShortestRoute'
  BY <1>1, RouteKept DEF PathInv
<1> QED
  BY <1>1, <1>2 DEF PathInv

\* Every step keeps the invariant.
LEMMA PathStep == PathInv /\ [PathingNext]_pathingVars => PathInv'
<1> SUFFICES ASSUME PathInv, [PathingNext]_pathingVars PROVE PathInv'
  OBVIOUS
<1>1. CASE Requests
  BY <1>1, RequestStep DEF Requests
<1>2. ASSUME NEW c \in open, Skip(c) \/ Expand(c) PROVE PathInv'
  <2>1. /\ phase = "search" /\ phase' = "search"
        /\ UNCHANGED << walls, start, end, route >>
    BY <1>2 DEF Skip, Expand, Searches
  <2>2. SearchInv'
    BY <1>2, <2>1, SkipKeeps, ExpandKeeps DEF PathInv
  <2>3. ShortestRoute'
    BY <2>1, RouteKept DEF PathInv
  <2> QED
    BY <2>1, <2>2, <2>3 DEF PathInv
<1>3. ASSUME NEW c \in open, Reconstruct(c) PROVE PathInv'
  BY <1>3, RouteFound
<1>4. CASE GiveUp
  BY <1>4, RouteMissing
<1>5. CASE TurnLeft \/ TurnRight \/ GoStraight \/ Answer
  BY <1>5, FunnelStep
<1>6. CASE UNCHANGED pathingVars
  <2>1. UNCHANGED << walls, phase, start, end, open, g_score, came_from, route >>
    BY <1>6 DEF pathingVars, searchVars
  <2>2. ShortestRoute'
    BY <2>1, RouteKept DEF PathInv
  <2>3. SearchInv => SearchInv'
    BY <2>1, SearchKeeps DEF SearchInv, Entry, Parent, Settled, Waits, Scored
  <2> QED
    BY <2>1, <2>2, <2>3 DEF PathInv
<1> QED
  BY <1>1, <1>2, <1>3, <1>4, <1>5, <1>6 DEF PathingNext, Turn

\* At first nothing has been asked.
LEMMA PathInit == PathingInit => PathInv
BY DEF PathingInit, PathInv, ShortestRoute

\* On every map and for every request: A* finds a route of free tiles, step by
\* step, at most a thousandth longer than the shortest one, though entries of
\* its heap go stale and its heuristic overestimates; and gives up only what
\* cannot be reached.
THEOREM RoutesAreShort == PathingSpec => []ShortestRoute
<1>1. PathInv => ShortestRoute
  BY DEF PathInv
<1> QED
  BY <1>1, PathInit, PathStep, PTL DEF PathingSpec

\* So a route is the shortest unless another one has a thousand steps or more.
COROLLARY ShortestUpToAThousand ==
  ASSUME ShortestRoute, Len(route) \in Nat \ {0},
         NEW k \in Nat, TileOf(end) \in Within(TileOf(start), k), k < 1000
  PROVE  Len(route) - 1 <= k
<1> SUFFICES ASSUME k \in 0 .. Len(route) - 2 PROVE FALSE
  OBVIOUS
<1>1. route # << >>
  OBVIOUS
<1>2. 1000 * (Len(route) - 1) <= 1001 * k
  BY <1>1 DEF ShortestRoute
<1> QED
  BY <1>2
=============================================================================
