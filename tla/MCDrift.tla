------------------------------- MODULE MCDrift ------------------------------
(* The collector and drift review: a conditional access policy that was    *)
(* always there, and cannot be removed, and an assignment that comes and   *)
(* goes in the portal, whose names do not always resolve.                  *)
EXTENDS GovLensProperties, TLC

CONSTANTS old, out, policy, reader, ids, none

Assignments == {old, out}
Initially   == {old}
InPortal    == {out}
Texts       == {policy, reader, ids, none}
TextOf      == [t \in Assignments |-> IF t = old THEN policy ELSE reader]
Unresolved  == [t \in Assignments |-> IF t = old THEN policy ELSE ids]
AsAsked     == [l \in Texts |-> l]
=============================================================================
