-------------------------------- MODULE Azure -------------------------------
(***************************************************************************)
(* The tenant's role assignments, as internal/collect uses them: a PUT     *)
(* under a fresh random name creates one, a DELETE removes one, and people *)
(* with portal access change them behind GovLens's back.                   *)
(***************************************************************************)
EXTENDS AccessRequests

CONSTANTS
  Existing,      \* assignments there at the start
  Guids,         \* random names a PUT can draw
  Outside,       \* assignments people add and remove in the portal
  GlobalAdmins,  \* directory roles that confer Global Administrator
  CaPolicies,    \* conditional access policies, which are not removable
  Label,         \* Label[t]: the text of t when its names are resolved
  RawLabel,      \* RawLabel[t]: its text when they are not
  Spelling       \* Spelling[l]: the text the tenant has for what a grant
                 \* request calls l

ASSUME AzureAssumption ==
  /\ Existing \subseteq Targets
  /\ Outside \subseteq Targets
  /\ GlobalAdmins \subseteq Targets
  /\ CaPolicies \subseteq Targets \ GlobalAdmins
  /\ Guids \subseteq Targets \ (Existing \cup Outside \cup GlobalAdmins \cup CaPolicies)
  /\ Label \in [Targets -> Labels] /\ RawLabel \in [Targets -> Labels]
  /\ Spelling \in [Labels -> Labels]

Kinds == {"rbac", "entra_role", "ca_policy"}

Kind(t) == CASE t \in GlobalAdmins -> "entra_role"
             [] t \in CaPolicies   -> "ca_policy"
             [] OTHER              -> "rbac"

VARIABLES
  live,     \* assignments that exist now
  origin    \* origin[t]: the grant request whose PUT created t, 0 if none

azureVars == <<live, origin>>

AzureTypeOK ==
  /\ live \in SUBSET Targets
  /\ origin \in [Targets -> 0..MaxRequests]

AzureInit ==
  /\ live = Existing
  /\ origin = [t \in Targets |-> 0]

\* PUT roleAssignments/<new guid> on behalf of request i takes effect.
Create(t, i) ==
  /\ t \in Guids /\ Label[t] = Spelling[req[i].label]
  /\ origin[t] = 0
  /\ live' = live \cup {t}
  /\ origin' = [origin EXCEPT ![t] = i]

\* DELETE takes effect; a 404 counts as success too.
Delete(t) ==
  /\ live' = live \ {t}
  /\ UNCHANGED origin

PortalAdd(t)    == t \in Outside \ live /\ live' = live \cup {t} /\ UNCHANGED origin
PortalRemove(t) == t \in Outside \cap live /\ Delete(t)
=============================================================================
