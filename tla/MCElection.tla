----------------------------- MODULE MCElection -----------------------------
(* Small instances of SubnetController. *)
EXTENDS SubnetController, TLC

OneSCs     == {1}
OneRanks   == [n \in {1} |-> 1]
TwoSCs     == {1, 2}
TwoRanks   == 1 :> 2 @@ 2 :> 1

\* Device designators are above the SCs'; 64 is a comfort sensor's equipment
\* type, 16 an indoor unit's; a house may have two sensors.
NoDevs     == {}
NoKind     == [d \in {} |-> 0]
SensorDevs == {8}
SensorKind == 8 :> 64
TwinDevs   == {8, 9}
TwinKind   == [d \in TwinDevs |-> 64]
MixDevs    == {8, 9}
MixKind    == 8 :> 64 @@ 9 :> 16

\* A new site; one where SC 2 archived SC 1, which had acknowledged an assignment
\* meant for a sensor that was off; and one where both SCs archived a sensor too.
NewSite    == [d \in {} |-> 0]
OldSite    == 1 :> 64
MovedSite  == 1 :> 64 @@ 8 :> 64

\* The sensor announces itself on the old site, or the operator and passive's
\* deadline step in on the other: with all of it there are too many states.
Undisturbed == INSTANCE SubnetController
  WITH Installed <- OldSite, MaxCommand <- 0, MaxDeadline <- 0
Unannounced == INSTANCE SubnetController WITH MaxAnnounce <- 0

ApartSpec == (Undisturbed!Init \/ Unannounced!Init) /\ [][Next]_vars
=============================================================================
