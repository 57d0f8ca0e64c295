------------------------------ MODULE MCExpiry ------------------------------
(* One grant whose assignment users can see and mark, against its expiry.  *)
EXTENDS GovLensProperties

CONSTANTS g1, g2, reader, none

Assignments == {g1, g2}
Texts       == {reader, none}
Requested   == {reader}
TextOf      == [t \in Assignments |-> reader]
AsAsked     == [l \in Texts |-> l]
=============================================================================
