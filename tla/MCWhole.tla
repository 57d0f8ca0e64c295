------------------------------- MODULE MCWhole ------------------------------
(* Every process at once: an assignment the grant worker can create and    *)
(* one that comes and goes in the portal.  Users ask for the text of       *)
(* either, so the portal's may pass for a grant; its text may be guarded.  *)
EXTENDS GovLensProperties

CONSTANTS g1, out, reader, owner, none

Assignments == {g1, out}
Provisioned == {g1}
InPortal    == {out}
Texts       == {reader, owner, none}
Requested   == {reader, owner}
Watched     == {owner}
TextOf      == [t \in Assignments |-> IF t = g1 THEN reader ELSE owner]
AsAsked     == [l \in Texts |-> l]
=============================================================================
