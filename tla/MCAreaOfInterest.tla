-------------------------- MODULE MCAreaOfInterest --------------------------
(***************************************************************************)
(* Two players on two places that are out of each other's sight, with the  *)
(* first two of the five topics: the other three are sent after them in    *)
(* the same way.                                                           *)
(***************************************************************************)
EXTENDS AreaOfInterest

MCEntities == {"ann", "bob"}
MCPlaces == {"west", "east"}
MCNear == {<< p, p >> : p \in MCPlaces}
MCTopics == << "EntityPositionUpdate", "Disconnect" >>
=============================================================================
