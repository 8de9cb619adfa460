-------------------------- MODULE MCAbilityService --------------------------
(***************************************************************************)
(* A player and a non-player character that fight.                         *)
(***************************************************************************)
EXTENDS AbilityService

CONSTANTS player, npc

MCEntities == {player, npc}
=============================================================================
