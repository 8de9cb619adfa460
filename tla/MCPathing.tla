----------------------------- MODULE MCPathing -----------------------------
(***************************************************************************)
(* Every map of five by three tiles with two walls, and one with a maze;   *)
(* the sizes are those of the code.                                        *)
(***************************************************************************)
EXTENDS Pathing

MCMaps == {{n, o} : n, o \in Tiles}
            \cup {{<< 0, 1 >>, << 1, 0 >>, << 1, 2 >>, << 4, 0 >>, << 4, 1 >>}}
MCSpots == {<< 16, 16 >>}
=============================================================================
