------------------------- MODULE MCProductionUpdate -------------------------
(* Releases whose numbers have one and two digits and two or three parts.    *)
EXTENDS ProductionUpdate, TLC

MCRank == <<0, 2>> :> 1 @@ <<0, 2, 0>> :> 1 @@ <<0, 2, 1>> :> 2 @@ <<0, 10>> :> 3
MCReleases == DOMAIN MCRank
=============================================================================
