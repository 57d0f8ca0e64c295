------------------------------ MODULE MCWorkers -----------------------------
(* Both workers at once, without the collector: grant requests, and        *)
(* removals of two Global Administrators, which are guarded from time to   *)
(* time, and which an earlier run's page calls by the name of a            *)
(* break-glass account.                                                    *)
EXTENDS GovLensProperties, TLC

CONSTANTS g1, g2, ga1, ga2, reader, admin, account, none

Provisioned == {g1, g2}
Admins      == {ga1, ga2}
Assignments == Provisioned \cup Admins
Texts       == {reader, admin, account, none}
Requested   == {reader}
AdminTexts  == {admin, account}
Watched     == {admin}
Accounts    == {account}
TextOf      == [t \in Assignments |-> IF t \in Admins THEN admin ELSE reader]
AsAsked     == [l \in Texts |-> l]
OldForms    == Admins \X Accounts
Symmetry    == Permutations(Provisioned) \cup Permutations(Admins)
=============================================================================
