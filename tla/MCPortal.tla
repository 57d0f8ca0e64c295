------------------------------ MODULE MCPortal ------------------------------
(* An administrator by configuration, a user with changing roles, one      *)
(* subscription and the scope of the whole tenant.                         *)
EXTENDS Portal

CONSTANTS ada, sam, s1, reader

TwoUsers == {ada, sam}

Row(u, s, name) == [user |-> u, grant |-> [scope |-> s, role |-> name]]

SamsRows == {Row(sam, s1, "admin"), Row(sam, Global, "approver")}

ReadDefinition == [actions |-> {"read"}, dataActions |-> {}]
OtherDefinition == [actions |-> {"read", "other"}, dataActions |-> {}]
EmptyDefinition == [actions |-> {}, dataActions |-> {}]
SomeDefinitions == {ReadDefinition, EmptyDefinition}
AllWorkers == [r \in {reader} |-> OtherDefinition]

Save(self, default, max, permanent, approver) ==
  [Policy(self, default, max, permanent, approver) EXCEPT !.acked = TRUE]

\* A default above the maximum, for tenant-wide approvers.
SomePolicies == {Save(TRUE, 30, 7, FALSE, "global")}
=============================================================================
