------------------------------ MODULE Readiness -----------------------------
(***************************************************************************)
(* Whether self-service is open: the state of the module, the grant        *)
(* service principal and its probe, the opt-ins of subscriptions, and the  *)
(* handlers of internal/web/admin.go that set them.                        *)
(***************************************************************************)
EXTENDS Tiering

VARIABLES
  module,      \* module_settings('*').state: "live", or one of the others
  configured,  \* grant_sp has a row
  verified,    \* its last successful probe is younger than 24 hours
  optIns       \* subscriptions with module_settings.enabled

readinessVars == <<module, configured, verified, optIns>>

\* Off, configuring and disabled differ in what the pages say.
ModuleStates == {"closed", "live"}

ReadinessTypeOK ==
  /\ module \in ModuleStates
  /\ configured \in BOOLEAN
  /\ verified \in BOOLEAN
  /\ optIns \subseteq Subs

\* Self-service was never set up, or is set up and open if all is reviewed.
ReadinessInit ==
  \/ module = "closed" /\ configured = FALSE /\ verified = FALSE /\ optIns = {}
  \/ /\ seeded /\ configured = TRUE /\ verified = TRUE /\ optIns = Subs
     /\ module = IF AllTiersAcknowledged THEN "live" ELSE "closed"

(***************************************************************************)
(* GrantReadinessAt, by what it reads of the tiers: every gate but the     *)
(* state of the module.  A failed read of another gate leaves it red.      *)
(***************************************************************************)
GatesGreen(acked) ==
  /\ verified
  /\ acked
  /\ \E r \in Roles : IsGrantable(r)
  /\ optIns # {}

IsLive == module = "live" /\ GatesGreen(AllTiersAcknowledged)

-----------------------------------------------------------------------------
(***************************************************************************)
(* Handlers of the administration page, for a user whose request has       *)
(* arrived.  Only loading the page creates the tier rows; its forms can be *)
(* posted before anybody did.                                              *)
(***************************************************************************)
AdminPage(u) ==
  /\ IsAnyAdmin(granted[u])
  /\ EnsureTierDefaults
  /\ Refuse(u)
  /\ UNCHANGED <<catalog, readinessVars>>

ByAdmin(u) == IsAdmin(granted[u]) /\ Leave(u)

AdminModule(u, state) ==
  /\ ByAdmin(u)
  /\ state = "live" => \E acked \in TiersAck : GatesGreen(acked)
  /\ module' = state
  /\ Edit
  /\ UNCHANGED <<roles, tieringVars, configured, verified, optIns>>

\* Recording a service principal clears its verification.
AdminGrantSP(u) ==
  /\ ByAdmin(u)
  /\ configured' = TRUE
  /\ verified' = FALSE
  /\ Edit
  /\ UNCHANGED <<roles, tieringVars, module, optIns>>

\* MarkGrantSPProbe: an UPDATE, which does nothing without a row.
MarkGrantSPProbe(ok) ==
  /\ configured
  /\ verified' = ok
  /\ UNCHANGED <<module, configured, optIns>>

AdminGrantSPProbe(u) ==
  /\ ByAdmin(u)
  /\ \E ok \in BOOLEAN : MarkGrantSPProbe(ok)
  /\ Edit
  /\ UNCHANGED <<roles, tieringVars>>

AdminTierPolicy(u, t, p) ==
  /\ ByAdmin(u)
  /\ SetTierPolicy(t, p)
  /\ Edit
  /\ UNCHANGED <<roles, catalog, readinessVars>>

AdminScopeOptIn(u, s, on) ==
  /\ CanAdminScope(granted[u], s)
  /\ Leave(u)
  /\ optIns' = IF on THEN optIns \cup {s} ELSE optIns \ {s}
  /\ Edit
  /\ UNCHANGED <<roles, tieringVars, module, configured, verified>>

AdminStep(u) ==
  \/ AdminPage(u)
  \/ \E state \in ModuleStates : AdminModule(u, state)
  \/ AdminGrantSP(u)
  \/ AdminGrantSPProbe(u)
  \/ \E t \in Tiers, p \in PolicyInputs : AdminTierPolicy(u, t, p)
  \/ \E s \in Subs, on \in BOOLEAN : AdminScopeOptIn(u, s, on)

-----------------------------------------------------------------------------
(***************************************************************************)
(* What happens to these tables without a user: the grant worker probes in *)
(* every cycle, a day passes, the collector sees a role definition.        *)
(***************************************************************************)
WorkerProbe ==
  /\ \E ok \in BOOLEAN : MarkGrantSPProbe(ok)
  /\ Edit
  /\ UNCHANGED <<roles, calling, granted, tieringVars>>

ProbeLapses ==
  /\ verified
  /\ verified' = FALSE
  /\ Edit
  /\ UNCHANGED <<roles, calling, granted, tieringVars, module, configured, optIns>>

CollectRole(r) ==
  /\ \E def \in Definitions : UpsertCatalog(r, def)
  /\ Edit
  /\ UNCHANGED <<roles, calling, granted, readinessVars>>
=============================================================================
