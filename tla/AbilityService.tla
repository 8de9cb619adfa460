--------------------------- MODULE AbilityService ---------------------------
(***************************************************************************)
(* The ability service: the registry of the entities' health, mana,        *)
(* experience and cooldowns, and what it broadcasts about them.  It is one *)
(* loop that handles the broadcasts it is sent one after the other and     *)
(* restores mana once a second; every publication follows the change it    *)
(* reports in the same step.                                               *)
(*                                                                         *)
(* Time is not counted: a cooldown that has begun elapses at some later    *)
(* moment.  Hits come from the shards, any time after the cast.            *)
(***************************************************************************)
EXTENDS Integers

CONSTANTS
  Entities,
  Unknown,     \* no entry in entity_registry
  MaxJoins,    \* bound: starting positions published
  MaxCasts,    \* bound: casts accepted
  MaxKills,    \* bound: kills by one entity
  MaxRestarts  \* bound: restarts of the service

ASSUME BoundsAssumption ==
  MaxJoins \in Nat /\ MaxCasts \in Nat /\ MaxKills \in Nat /\ MaxRestarts \in Nat

Abilities == {"Fireball", "Heal"}
ManaCost == [a \in Abilities |-> IF a = "Fireball" THEN 25 ELSE 35]
Modifier == [a \in Abilities |-> IF a = "Fireball" THEN -20 ELSE 50]

MaxValue == 100
KillXP == 50
LevelXP == 100

VARIABLES
  entity_registry,  \* an entity's attributes, level and running cooldowns
  shown,            \* what the broadcasts so far say of it
  fireballs,        \* entities with a fireball flying in a shard
  heals,            \* heals[e]: hits of accepted heals not delivered yet
  kills,            \* history: kills[e]: kills announced since e was reset
  joins, casts, restarts  \* counters for the bounds

vars == << entity_registry, shown, fireballs, heals, kills, joins, casts, restarts >>

Default == [hp |-> MaxValue, mp |-> MaxValue, xp |-> 0, level |-> 0, cooling |-> {}]

Registered(e) == entity_registry[e] # Unknown

Init ==
  /\ entity_registry = [e \in Entities |-> Unknown]
  /\ shown = [e \in Entities |-> [hp |-> MaxValue, mp |-> MaxValue, xp |-> 0, level |-> 0]]
  /\ fireballs = {}
  /\ heals = [e \in Entities |-> 0]
  /\ kills = [e \in Entities |-> 0]
  /\ joins = 0 /\ casts = 0 /\ restarts = 0
----------------------------------------------------------------------------
\* The registry is only kept in memory; fireballs and heals are the shards'.
Restart ==
  /\ restarts < MaxRestarts
  /\ restarts' = restarts + 1
  /\ entity_registry' = [e \in Entities |-> Unknown]
  /\ kills' = [e \in Entities |-> 0]
  /\ UNCHANGED << shown, fireballs, heals, joins, casts >>

\* Mutant: the range of an attribute is not enforced.
Clamped_Not(value) == value

\* update_attribute keeps an attribute between its minimum and its maximum.
Clamped(value) == IF value > MaxValue THEN MaxValue ELSE IF value < 0 THEN 0 ELSE value

\* The default entity overwrites the one of the same id, if any.
PlayerStartingPosition(e) ==
  /\ joins < MaxJoins
  /\ joins' = joins + 1
  /\ entity_registry' = [entity_registry EXCEPT ![e] = Default]
  /\ shown' = [shown EXCEPT ![e].hp = MaxValue, ![e].mp = MaxValue]
  /\ kills' = [kills EXCEPT ![e] = 0]
  /\ UNCHANGED << fireballs, heals, casts, restarts >>

\* Mutant: the mana is not compared with the cost of the ability.
CanCast_AnyMana(e, a) == Registered(e) /\ a \notin entity_registry[e].cooling

CanCast(e, a) ==
  /\ Registered(e)
  /\ entity_registry[e].mp >= ManaCost[a]
  /\ a \notin entity_registry[e].cooling

\* The mana that is published is the difference, before update_attribute.
RequestCastAbility(e, a) ==
  /\ CanCast(e, a) /\ casts < MaxCasts
  /\ casts' = casts + 1
  /\ LET mana == entity_registry[e].mp - ManaCost[a]
     IN  /\ entity_registry' = [entity_registry EXCEPT ![e].cooling = @ \cup {a},
                                                       ![e].mp = Clamped(mana)]
         /\ shown' = [shown EXCEPT ![e].mp = mana]
  /\ \/ a = "Fireball" /\ fireballs' = fireballs \cup {e} /\ UNCHANGED heals
     \/ a = "Heal" /\ heals' = [heals EXCEPT ![e] = @ + 1] /\ UNCHANGED fireballs
  /\ UNCHANGED << kills, joins, restarts >>

CooldownElapses(e, a) ==
  /\ Registered(e) /\ a \in entity_registry[e].cooling
  /\ entity_registry' = [entity_registry EXCEPT ![e].cooling = @ \ {a}]
  /\ UNCHANGED << shown, fireballs, heals, kills, joins, casts, restarts >>
----------------------------------------------------------------------------
(***************************************************************************)
(* AbilityHitEntity.                                                       *)
(***************************************************************************)

\* An unregistered caster counts as one of level 1.
CasterLevel(c) == IF Registered(c) THEN entity_registry[c].level ELSE 1

\* modifier * (1 + level / 2); every modifier is even, so nothing is truncated.
Effect(c, a) == (Modifier[a] \div 2) * (2 + CasterLevel(c))

\* Mutant: an entity without health is not taken for dead.
Killed_Below(hp) == hp < 0

Killed(hp) == hp <= 0

\* Mutant: exactly the experience of a level does not complete it.
Raised_Above(entity) ==
  LET xp == entity.xp + KillXP
  IN  IF xp > LevelXP THEN [entity EXCEPT !.level = @ + 1, !.xp = xp - LevelXP]
                      ELSE [entity EXCEPT !.xp = xp]

\* A kill is worth half a level, so the loop that raises levels runs at most once.
Raised(entity) ==
  LET xp == entity.xp + KillXP
  IN  IF xp >= LevelXP THEN [entity EXCEPT !.level = @ + 1, !.xp = xp - LevelXP]
                       ELSE [entity EXCEPT !.xp = xp]

\* A fireball passes through its caster and through everyone else it touches
\* until it is gone; a heal hits its caster once.
Hits(c, v, a) ==
  \/ a = "Fireball" /\ c # v /\ c \in fireballs /\ UNCHANGED heals
  \/ a = "Heal" /\ c = v /\ heals[c] > 0 /\ heals' = [heals EXCEPT ![c] = @ - 1]

HitUnknown(c, v, a) ==
  /\ Hits(c, v, a) /\ ~Registered(v)
  /\ UNCHANGED << entity_registry, shown, fireballs, kills, joins, casts, restarts >>

HitSurvived(c, v, a) ==
  /\ Hits(c, v, a) /\ Registered(v)
  /\ LET hp == Clamped(entity_registry[v].hp + Effect(c, a))
     IN  /\ ~Killed(hp)
         /\ entity_registry' = [entity_registry EXCEPT ![v].hp = hp]
         /\ shown' = [shown EXCEPT ![v].hp = hp]
  /\ UNCHANGED << fireballs, kills, joins, casts, restarts >>

\* The victim starts again as the default entity, and only its health and mana
\* are published; then the caster, if registered, earns the kill.
HitKilled(c, v, a) ==
  /\ Hits(c, v, a) /\ Registered(v) /\ c # v
  /\ Killed(Clamped(entity_registry[v].hp + Effect(c, a)))
  /\ kills[c] < MaxKills
  /\ LET raised == Raised(entity_registry[c])
     IN  \/ /\ Registered(c)
            /\ entity_registry' = [entity_registry EXCEPT ![v] = Default, ![c] = raised]
            /\ shown' = [shown EXCEPT ![v].hp = MaxValue, ![v].mp = MaxValue,
                                      ![c].xp = raised.xp, ![c].level = raised.level]
            /\ kills' = [kills EXCEPT ![v] = 0, ![c] = @ + 1]
         \/ /\ ~Registered(c)
            /\ entity_registry' = [entity_registry EXCEPT ![v] = Default]
            /\ shown' = [shown EXCEPT ![v].hp = MaxValue, ![v].mp = MaxValue]
            /\ kills' = [kills EXCEPT ![v] = 0]
  /\ UNCHANGED << fireballs, joins, casts, restarts >>

----------------------------------------------------------------------------
\* Mutant: mana is restored only to those who have none left.
NeedsMana_Empty(e) == Registered(e) /\ entity_registry[e].mp = 0

NeedsMana(e) == Registered(e) /\ entity_registry[e].mp < MaxValue

\* Once a second every entity is given five points of mana, up to its maximum.
Restored(e) == Clamped(entity_registry[e].mp + 5)

RegenerateMana ==
  /\ \E e \in Entities : NeedsMana(e)
  /\ entity_registry' = [e \in Entities |-> IF NeedsMana(e)
       THEN [entity_registry[e] EXCEPT !.mp = Restored(e)] ELSE entity_registry[e]]
  /\ shown' = [e \in Entities |-> IF NeedsMana(e)
       THEN [shown[e] EXCEPT !.mp = Restored(e)] ELSE shown[e]]
  /\ UNCHANGED << fireballs, heals, kills, joins, casts, restarts >>
----------------------------------------------------------------------------
AbilityHitEntity(c, v, a) ==
  HitUnknown(c, v, a) \/ HitSurvived(c, v, a) \/ HitKilled(c, v, a)

Next ==
  \/ \E e \in Entities : PlayerStartingPosition(e)
  \/ \E e \in Entities, a \in Abilities : RequestCastAbility(e, a) \/ CooldownElapses(e, a)
  \/ \E c, v \in Entities, a \in Abilities : AbilityHitEntity(c, v, a)
  \/ RegenerateMana
  \/ Restart

Spec == Init /\ [][Next]_vars

\* The loop runs every 50 ms and restores mana on its own, whatever it is sent.
FairSpec == Spec /\ WF_vars(RegenerateMana)
----------------------------------------------------------------------------
Entity == [hp : 0..MaxValue, mp : 0..MaxValue, xp : Nat, level : Nat,
           cooling : SUBSET Abilities]

Stats == [hp : Int, mp : Int, xp : Nat, level : Nat]

TypeOK ==
  /\ entity_registry \in [Entities -> Entity \cup {Unknown}]
  /\ shown \in [Entities -> Stats]
  /\ fireballs \in SUBSET Entities
  /\ heals \in [Entities -> Nat]
  /\ kills \in [Entities -> Nat]
  /\ joins \in Nat /\ casts \in Nat /\ restarts \in Nat

\* No entity is left in the registry without health: whatever order hits and
\* heals arrive in, the hit that exhausts it kills it and starts it again.
NobodyStaysDead ==
  \A e \in Entities : Registered(e) => entity_registry[e].hp > 0

\* The level of an entity is what the kills announced in its name since it was
\* last reset are worth: no kill is counted twice, lost at the change of a level
\* or carried over a death.
LevelMatchesKills ==
  \A e \in Entities :
    Registered(e) => /\ entity_registry[e].xp < LevelXP
                     /\ LevelXP * entity_registry[e].level + entity_registry[e].xp
                          = KillXP * kills[e]

\* The health and mana that were last broadcast are the ones of the registry,
\* although a cast broadcasts the difference and not the clamped attribute.
ShownIsCurrent ==
  \A e \in Entities :
    Registered(e) => /\ shown[e].hp = entity_registry[e].hp
                     /\ shown[e].mp = entity_registry[e].mp

\* Whoever has spent the mana for a fireball gets it back, casts and hits of
\* others notwithstanding, unless the service is restarted.
ManaComesBack ==
  \A e \in Entities :
    (Registered(e) /\ entity_registry[e].mp < ManaCost["Fireball"])
      ~> (Registered(e) => entity_registry[e].mp >= ManaCost["Fireball"])
=============================================================================
