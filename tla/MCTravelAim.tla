----------------------------- MODULE MCTravelAim -----------------------------
(* Small instances of TravelAim. *)
EXTENDS TravelAim

CONSTANTS repair, spot, rift, post, trainer

MCPlaceOf == [g \in Guards |-> spot]

\* One owner for each of the book's rules.
MCWants ==
    [o \in Owners |->
       CASE o = "Run" -> {spot}
         [] o = "Exit" -> {spot}
         [] o = "CatchUp" -> {rift}
         [] o = "TrainingStop" -> {trainer}
         [] o = "TownTrip" -> {repair}
         [] OTHER -> {}]

=============================================================================
