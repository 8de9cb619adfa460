--------------------------- MODULE MCOrchestrator ---------------------------
(***************************************************************************)
(* A boundary that divides, and one of its parts; the others would be      *)
(* started and stopped like this one.  While the part starts, the parent   *)
(* is kept, and listed once for each part without a server.                *)
(***************************************************************************)
EXTENDS Orchestrator

MCBoundaries == {"parent", "part"}

Whole   == [parent |-> 1, part |-> 0]
Kept    == [parent |-> 2, part |-> 1]
Divided == [parent |-> 0, part |-> 1]

MCLayouts == {Whole, Kept, Divided}
MCPorts == 7777..7779
=============================================================================
