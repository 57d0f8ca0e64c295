-------------------------------- MODULE Policy ------------------------------
(***************************************************************************)
(* What administrators set and every other component reads: whether the    *)
(* role is requestable (role_catalog and grant_tier_policy) and what is    *)
(* guarded against removal.  Guards are rules about text, so each label    *)
(* has one:                                                                *)
(*   "protected"  the role is in protected_roles or the principal matches  *)
(*                a protected_principals pattern;                          *)
(*   "blocked"    the principal type has type policy 'blocked';            *)
(*   "open"       neither.                                                 *)
(***************************************************************************)
EXTENDS Azure

CONSTANTS
  Guardable,      \* labels whose guard is not always "open"
  PolicyChanges   \* what administrators change while others work

ASSUME PolicyAssumption ==
  /\ Guardable \subseteq Labels
  /\ PolicyChanges \subseteq {"tier", "guard"}

VARIABLES
  requestable,   \* store.IsGrantable of the role
  guard          \* guard[l]: see above

policyVars == <<requestable, guard>>

Guards == {"open", "protected", "blocked"}

PolicyTypeOK ==
  /\ requestable \in BOOLEAN
  /\ guard \in [Labels -> Guards]

PolicyInit ==
  /\ requestable = TRUE
  /\ guard \in {g \in [Labels -> Guards] : \A l \in Labels \ Guardable : g[l] = "open"}

SetTierPolicy ==
  /\ "tier" \in PolicyChanges
  /\ requestable' = ~requestable
  /\ UNCHANGED guard

\* /admin/protect, /admin/unprotect, /admin/type-policy
SetGuard(l, g) ==
  /\ "guard" \in PolicyChanges
  /\ guard' = [guard EXCEPT ![l] = g]
  /\ UNCHANGED requestable

(***************************************************************************)
(* The web application lets a text through when its guard is one of these; *)
(* the error of that read is dropped, and then nothing is guarded.         *)
(***************************************************************************)
Passes(label, guards) ==
  \/ guard[label] \in guards /\ NoFault
  \/ guard[label] \notin guards /\ Fault("db")

PolicyNext ==
  \/ SetTierPolicy
  \/ \E l \in Guardable, g \in Guards : SetGuard(l, g)
=============================================================================
