------------------------------- MODULE Access -------------------------------
(***************************************************************************)
(* Who is asking: the roles of the application's users (internal/auth, the *)
(* table user_scope_roles) and the handlers that change them.              *)
(*                                                                         *)
(* The middleware resolves a user's grants once, when the HTTP request     *)
(* arrives; the handler works with that copy while others change the       *)
(* table.  A user is in one handler at a time: bounds the model.           *)
(***************************************************************************)
EXTENDS Naturals

CONSTANTS
  Users,      \* people who sign in
  Subs,       \* subscriptions
  Global,     \* the scope '*', and the scope of a directory-level request
  Bootstrap,  \* GOVLENS_ADMIN_EMAILS: global admins whatever the table says
  RoleRows,   \* the rows administrators add to and take from the table
  MaxEdits    \* changes of settings in one behaviour: bounds the model

Scopes    == Subs \cup {Global}
RoleNames == {"admin", "approver"}
Grants    == [scope : Scopes, role : RoleNames]

ASSUME AccessAssumption ==
  /\ Global \notin Subs
  /\ Bootstrap \subseteq Users
  /\ RoleRows \subseteq [user : Users, grant : Grants]
  /\ MaxEdits \in Nat

VARIABLES
  roles,     \* rows of user_scope_roles
  calling,   \* the users whose HTTP request is being handled
  granted,   \* granted[u]: the grants the middleware resolved for that request
  edits      \* changes of settings, roles and probes so far

accessVars == <<roles, calling, granted, edits>>

AccessTypeOK ==
  /\ roles \subseteq RoleRows
  /\ calling \subseteq Users
  /\ granted \in [Users -> SUBSET Grants]
  /\ edits \in 0..MaxEdits

\* Whatever a bootstrap administrator has set up before.
AccessInit ==
  /\ roles \in SUBSET RoleRows
  /\ calling = {}
  /\ granted = [u \in Users |-> {}]
  /\ edits = 0

Edit   == edits < MaxEdits /\ edits' = edits + 1
NoEdit == UNCHANGED edits

-----------------------------------------------------------------------------
(***************************************************************************)
(* auth.User: what a set of grants allows.                                 *)
(***************************************************************************)
Has(g, scope, role) == [scope |-> scope, role |-> role] \in g

IsAdmin(g)        == Has(g, Global, "admin")
IsApprover(g)     == Has(g, Global, "approver") \/ IsAdmin(g)
IsAnyAdmin(g)     == \E s \in Scopes : Has(g, s, "admin")
IsAdminOf(g, s)   == IsAdmin(g) \/ Has(g, s, "admin")

\* A mutant: any role in any subscription will do.
CanApproveAnywhere(g, s) ==
  IsApprover(g) \/ \E t \in Subs, role \in RoleNames : Has(g, t, role)

\* A directory-level request belongs to no subscription.
CanApprove(g, s) ==
  \/ IsApprover(g)
  \/ s \in Subs /\ \E role \in RoleNames : Has(g, s, role)

\* A mutant: who administers some subscription administers all of them.
AdminsAnything(g, s) == IsAnyAdmin(g)

CanAdminScope(g, s) == IF s = Global THEN IsAdmin(g) ELSE IsAdminOf(g, s)

GrantsFor(u) ==
  {r.grant : r \in {x \in roles : x.user = u}}
    \cup {[scope |-> Global, role |-> "admin"] : b \in Bootstrap \cap {u}}

-----------------------------------------------------------------------------
(***************************************************************************)
(* A request of u arrives with a valid session; Leave(u) is the end of its *)
(* handler, Refuse(u) an end without any effect (403, 400, a failed        *)
(* check).                                                                 *)
(***************************************************************************)
Enter(u) ==
  /\ u \notin calling
  /\ calling' = calling \cup {u}
  /\ granted' = [granted EXCEPT ![u] = GrantsFor(u)]
  /\ NoEdit
  /\ UNCHANGED roles

Leave(u) ==
  /\ u \in calling
  /\ calling' = calling \ {u}
  /\ granted' = [granted EXCEPT ![u] = {}]

Stay(u) == u \in calling /\ UNCHANGED <<calling, granted>>

Refuse(u) == Leave(u) /\ NoEdit /\ UNCHANGED roles

(***************************************************************************)
(* POST /admin/grant and /admin/revoke: requireRole "anyadmin" is implied  *)
(* by CanAdminScope.                                                       *)
(***************************************************************************)
AdminGrant(u, row) ==
  /\ CanAdminScope(granted[u], row.grant.scope)
  /\ roles' = roles \cup {row}
  /\ Edit
  /\ Leave(u)

AdminRevoke(u, row) ==
  /\ CanAdminScope(granted[u], row.grant.scope)
  /\ row \in roles
  /\ roles' = roles \ {row}
  /\ Edit
  /\ Leave(u)
=============================================================================
