------------------------------- MODULE Tiering ------------------------------
(***************************************************************************)
(* Tiers of roles and the policy of each tier: ClassifyTier, the tables    *)
(* role_catalog, catalog_override and grant_tier_policy, and the expiry a  *)
(* policy allows.                                                          *)
(***************************************************************************)
EXTENDS Access, Integers

CONSTANTS
  Roles,         \* role definitions of the tenant
  Deprecated,    \* roles the collector marks deprecated
  Allowed,       \* catalog_override 'allow', written by hand
  Denied,        \* catalog_override 'deny', written by hand
  Definitions,   \* permissions a role definition may be changed to
  FirstSeen,     \* FirstSeen[r]: those of r when the collector first saw it
  PolicyInputs   \* the settings an administrator saves for a tier

Tiers == {"low", "medium", "privileged"}

(***************************************************************************)
(* An action of a role definition, as far as ClassifyTier tells actions    *)
(* apart: "authorization/write" is a write or delete below                 *)
(* Microsoft.Authorization, "read" ends in /read, "other" is neither.      *)
(***************************************************************************)
Privileged == {"*", "authorization/*", "authorization/write"}
ReadOnly   == {"read", "authorization/read", "blank"}
ActionKinds == Privileged \cup ReadOnly \cup {"other"}

Policies ==
  [selfService : BOOLEAN, default : Nat, max : Nat, permanent : BOOLEAN,
   approver : {"scoped", "global", "blocked"}, acked : BOOLEAN]

Permissions == [actions : SUBSET ActionKinds, dataActions : SUBSET ActionKinds]

ASSUME TieringAssumption ==
  /\ Deprecated \cup Allowed \cup Denied \subseteq Roles
  /\ Definitions \subseteq Permissions
  /\ FirstSeen \in [Roles -> Permissions]
  /\ PolicyInputs \subseteq {p \in Policies : p.acked /\ p.approver # "blocked"}

VARIABLES
  catalog,   \* catalog[r]: the tier of r in role_catalog, or "absent"
  seeded,    \* grant_tier_policy has its three rows
  policy     \* policy[t]: the row of tier t

tieringVars == <<catalog, seeded, policy>>

\* A mutant: a definition without actions is of no known tier.
ClassifyUnknown(actions, dataActions) ==
  IF actions \cup dataActions = {} THEN "unknown"
    ELSE IF actions \cap Privileged # {} THEN "privileged"
    ELSE IF actions \cup dataActions \subseteq ReadOnly THEN "low" ELSE "medium"

\* Fail-closed: what is neither clearly privileged nor read-only is medium.
ClassifyTier(actions, dataActions) ==
  IF actions \cup dataActions = {} \/ actions \cap Privileged # {}
    THEN "privileged"
    ELSE IF actions \cup dataActions \subseteq ReadOnly THEN "low" ELSE "medium"

Policy(self, default, max, permanent, approver) ==
  [selfService |-> self, default |-> default, max |-> max,
   permanent |-> permanent, approver |-> approver, acked |-> FALSE]

\* 0 stands for NULL: no default, no maximum.
TierDefaults ==
  [t \in Tiers |->
     CASE t = "low"        -> Policy(TRUE, 90, 0, TRUE, "scoped")
       [] t = "medium"     -> Policy(TRUE, 30, 90, FALSE, "scoped")
       [] t = "privileged" -> Policy(FALSE, 7, 7, FALSE, "global")]

\* A role that is in no tier is treated like a privileged one.
FailClosed == Policy(FALSE, 7, 7, FALSE, "global")

TieringTypeOK ==
  /\ catalog \in [Roles -> Tiers \cup {"absent"}]
  /\ seeded \in BOOLEAN
  /\ policy \in [Tiers -> Policies]

\* The collector has seen the roles; the administration page was never
\* opened, or every tier is as seeded, or every tier was reviewed.
TieringInit ==
  /\ catalog = [r \in Roles |->
       ClassifyTier(FirstSeen[r].actions, FirstSeen[r].dataActions)]
  /\ seeded \in BOOLEAN
  /\ \E acked \in BOOLEAN :
       /\ acked => seeded
       /\ policy = [t \in Tiers |-> [TierDefaults[t] EXCEPT !.acked = acked]]

-----------------------------------------------------------------------------
TierPolicyFor(r) ==
  IF seeded /\ catalog[r] \in Tiers THEN policy[catalog[r]] ELSE FailClosed

\* store.IsGrantable, and the filter of RequestableRoles.
IsGrantable(r) ==
  /\ catalog[r] # "absent"
  /\ r \notin Deprecated \cup Denied
  /\ r \in Allowed \/ (seeded /\ policy[catalog[r]].selfService)

\* No row lacks ack_by, as when there is none.
AllTiersAcknowledged == seeded => \A t \in Tiers : policy[t].acked

\* What is answered: the error of the count is dropped and nothing counted.
TiersAck == {AllTiersAcknowledged, TRUE}

\* EnsureTierDefaults: three INSERT ... ON CONFLICT DO NOTHING.
EnsureTierDefaults ==
  /\ seeded' = TRUE
  /\ policy' = IF seeded THEN policy ELSE TierDefaults

\* An UPDATE, which also stamps the acknowledgement.
SetTierPolicy(t, p) ==
  /\ policy' = IF seeded THEN [policy EXCEPT ![t] = p] ELSE policy
  /\ UNCHANGED seeded

\* The collector's upsert of one role definition into role_catalog.
UpsertCatalog(r, def) ==
  /\ catalog' = [catalog EXCEPT ![r] = ClassifyTier(def.actions, def.dataActions)]
  /\ UNCHANGED <<seeded, policy>>

-----------------------------------------------------------------------------
(***************************************************************************)
(* time.Duration(d) * 24h is a signed 64-bit number of nanoseconds: it     *)
(* holds 106751 days, and a larger number of days wraps around.            *)
(***************************************************************************)
HalfRange == 106752
Duration(days) == ((days + HalfRange) % (2 * HalfRange)) - HalfRange

FirstPositive(a, b) == IF a > 0 THEN a ELSE b

\* A mutant: the default is taken as it is.
UnclampedDefault(p, days) ==
  IF days = 0 THEN FirstPositive(p.default, 30)
  ELSE IF p.max > 0 /\ days > p.max THEN p.max ELSE days

\* The days an approval is given for, out of those the approver entered.
ClampedDays(p, days) ==
  LET d == FirstPositive(FirstPositive(days, p.default), 30)
  IN  IF p.max > 0 /\ d > p.max THEN p.max ELSE d
=============================================================================
