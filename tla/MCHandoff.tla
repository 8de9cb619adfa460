----------------------------- MODULE MCHandoff -----------------------------
(***************************************************************************)
(* Two neighbouring shards on a line: home is deep in A, edge is just      *)
(* across the border in B and within the margin of A, deep is further into *)
(* B, beyond the margin of A but within twice of it.                       *)
(***************************************************************************)
EXTENDS Handoff

MCShards == {"A", "B"}
MCPositions == {"home", "edge", "deep"}

MCShardAt == [p \in MCPositions |-> IF p = "home" THEN "A" ELSE "B"]

MCNear == [s \in MCShards |-> IF s = "A" THEN {"home", "edge"} ELSE {"edge", "deep"}]

MCKeep == [s \in MCShards |-> IF s = "A" THEN MCPositions ELSE {"edge", "deep"}]

MCReach == [p \in MCPositions |->
  IF p = "edge" THEN {"home", "deep"} ELSE {"edge"}]
=============================================================================
