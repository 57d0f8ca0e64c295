------------------------------ MODULE MCGrants ------------------------------
(* Grant requests only: the grant worker and the remediator against        *)
(* decisions, time and faults.  All ask for the same role.                 *)
EXTENDS GovLensProperties

CONSTANTS g1, g2, reader, none

TwoGuids  == {g1, g2}
Texts     == {reader, none}
Requested == {reader}
TextOf    == [t \in TwoGuids |-> reader]
AsAsked   == [l \in Texts |-> l]
=============================================================================
