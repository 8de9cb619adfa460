--------------------------- MODULE MCShardLayout ---------------------------
(***************************************************************************)
(* A world from -1024 to 1024 halved twice along one axis, with a margin   *)
(* of 100.  The places are the points -600, -50, 50 and 600, one in each   *)
(* of the smallest boundaries.                                             *)
(***************************************************************************)
EXTENDS ShardLayout

InsideDef ==
  [World |-> {"nw", "ne", "sw", "se"}, North |-> {"nw", "ne"}, South |-> {"sw", "se"},
   NW |-> {"nw"}, NE |-> {"ne"}, SW |-> {"sw"}, SE |-> {"se"}]

NearDef ==
  [World |-> {"nw", "ne", "sw", "se"}, North |-> {"nw", "ne", "sw"},
   South |-> {"ne", "sw", "se"}, NW |-> {"nw"}, NE |-> {"nw", "ne", "sw"},
   SW |-> {"ne", "sw", "se"}, SE |-> {"se"}]

ReachDef == [nw |-> {"ne"}, ne |-> {"nw", "sw"}, sw |-> {"ne", "se"}, se |-> {"sw"}]
=============================================================================
