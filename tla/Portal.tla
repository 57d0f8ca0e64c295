------------------------------- MODULE Portal -------------------------------
(***************************************************************************)
(* The web application with its users, administrators and approvers, and   *)
(* what is promised about their decisions.                                 *)
(***************************************************************************)
EXTENDS Intake

VARIABLES
  heldGrants,   \* heldGrants[u]: what u held at any time since u's request
                \* arrived (history)
  heldPolicies  \* heldPolicies[u]: the policies over the request u is
                \* deciding, for that page, since it was read (history)

history == <<heldGrants, heldPolicies>>

vars == <<accessVars, tieringVars, readinessVars, intakeVars, history>>

TypeOK ==
  /\ AccessTypeOK
  /\ TieringTypeOK
  /\ ReadinessTypeOK
  /\ IntakeTypeOK
  /\ heldGrants \in [Users -> SUBSET Grants]
  /\ heldPolicies \in [Users -> SUBSET Policies]

Init ==
  /\ AccessInit
  /\ TieringInit
  /\ ReadinessInit
  /\ IntakeInit
  /\ heldGrants = [u \in Users |-> {}]
  /\ heldPolicies = [u \in Users |-> {}]

\* The policy over what u is deciding.
PolicyNow(u) == PolicyOver(page[u], reading[u])

\* Keeps the history, in every step.
Observe ==
  /\ heldGrants' = [u \in Users |->
       CASE u \notin calling'               -> {}
         [] u \in calling' /\ u \notin calling -> GrantsFor(u)'
         [] OTHER                           -> heldGrants[u] \cup GrantsFor(u)']
  /\ heldPolicies' = [u \in Users |->
       CASE reading'[u] = 0                   -> {}
         [] reading'[u] # 0 /\ reading[u] = 0 -> {PolicyNow(u)'}
         [] OTHER              -> heldPolicies[u] \cup {PolicyNow(u)'}]

\* A handler that is not deciding anything.
Handler(u) == u \in calling /\ page[u] = "none"

Reads(u) ==
  \E i \in Asks, p \in Pages, fails \in BOOLEAN : ReadForDecision(u, i, p, fails)

UserStep(u) ==
  \/ Enter(u) /\ UNCHANGED <<adminVars, asks, deciderVars>>
  \/ /\ Handler(u)
     /\ \/ Refuse(u) /\ UNCHANGED <<adminVars, asks, deciderVars>>
        \/ /\ \E row \in RoleRows : AdminGrant(u, row) \/ AdminRevoke(u, row)
           /\ UNCHANGED <<adminVars, asks, deciderVars>>
        \/ AdminStep(u) /\ UNCHANGED <<intakeVars>>
        \/ \E p \in {"scoped", "global", "blocked"} : AdminTypePolicy(u, p)
  \/ /\ Reads(u) \/ WriteDecision(u) \/ EndBulk(u)
     /\ UNCHANGED <<tieringVars, readinessVars>>

QueueStep ==
  /\ \/ \E r \in Roles, s \in Subs, permanent \in BOOLEAN :
          RequestSubmit(r, s, permanent)
     \/ \E s \in Scopes : MarkRevoke(s) \/ OpenDrift(s)
  /\ UNCHANGED <<accessVars, tieringVars, readinessVars>>

BackgroundStep ==
  /\ WorkerProbe \/ ProbeLapses \/ \E r \in Roles : CollectRole(r)
  /\ UNCHANGED intakeVars

Next ==
  /\ \/ \E u \in Users : UserStep(u)
     \/ QueueStep
     \/ BackgroundStep
  /\ Observe

Spec == Init /\ [][Next]_vars

-----------------------------------------------------------------------------
Decides(u, i) ==
  /\ reading[u] = i /\ reading'[u] = 0
  /\ asks[i].status = "pending" /\ asks'[i].status # "pending"

Holds(g, s, names) == \E name \in names : [scope |-> s, role |-> name] \in g

\* Enough for a request about scope s, by the policy's approver.
Enough(g, approver, s) ==
  \/ approver # "blocked" /\ Holds(g, Global, RoleNames)
  \/ approver = "scoped"  /\ Holds(g, s, RoleNames)

(***************************************************************************)
(* Whoever decides a request had, at some time while it was being handled, *)
(* the authority that the policy its page goes by asked for at some time   *)
(* after the request was read: a tenant-wide role where the tier or the    *)
(* principal type wants one, else one for its subscription or tenant-wide; *)
(* nobody decides under a blocked principal type.  Where the read of the   *)
(* policy failed, authority over the request's own scope is the least.     *)
(***************************************************************************)
DecidedWithAuthority ==
  [][\A u \in Users, i \in Asks : Decides(u, i) =>
       \/ \E p \in heldPolicies[u] : Enough(heldGrants[u], p.approver, asks[i].scope)
       \/ unread[u] /\ Enough(heldGrants[u], "scoped", asks[i].scope)]_vars

(***************************************************************************)
(* A role is only handed out by someone who administered its scope, or the *)
(* whole tenant, while asking for it: an administrator of one subscription *)
(* never makes another one's, let alone a tenant-wide one.                 *)
(***************************************************************************)
RolesAreDelegated ==
  [][\A row \in RoleRows : row \in roles' \ roles =>
       \E u \in calling \ calling' :
         Holds(heldGrants[u], row.grant.scope, {"admin"})
           \/ Holds(heldGrants[u], Global, {"admin"})]_vars

(***************************************************************************)
(* A grant approved on the page of grants lasts no longer than its tier    *)
(* allowed while it was being decided, and has no end only where that was  *)
(* allowed; where the tier could not be read, than a privileged one would. *)
(***************************************************************************)
GrantedWithinTier ==
  [][\A u \in Users, i \in Asks :
       Decides(u, i) /\ page[u] = "grant" /\ asks'[i].status = "approved" =>
         \E p \in heldPolicies[u] \cup (IF unread[u] THEN {FailClosed} ELSE {}) :
           /\ ~asks'[i].ends => p.permanent
           /\ p.max > 0 => asks'[i].days <= p.max]_vars

(***************************************************************************)
(* "Ceiling the approver cannot exceed": while nobody changes tiers, no    *)
(* grant is approved for longer than its tier's maximum.                   *)
(***************************************************************************)
MaxDaysIsCeiling ==
  [][\A i \in Asks :
       asks[i].action = "grant" /\ asks[i].status = "pending" /\ asks'[i].status = "approved"
         /\ edits = 0 /\ TierPolicyFor(asks[i].role).max > 0 =>
           asks'[i].ends /\ asks'[i].days <= TierPolicyFor(asks[i].role).max]_vars

(***************************************************************************)
(* "Intake is open only when the module is live": a request is accepted    *)
(* while every gate is green.                                              *)
(***************************************************************************)
AcceptedOnlyWhileLive ==
  [][\A i \in Asks :
       asks[i].status = "absent" /\ asks'[i].status = "pending"
         /\ asks'[i].action = "grant" => IsLive]_vars
=============================================================================
