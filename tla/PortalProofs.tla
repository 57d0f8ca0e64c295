---------------------------- MODULE PortalProofs ----------------------------
(***************************************************************************)
(* Who decides, who hands out roles, and under which settings: the         *)
(* promises of module Portal, for any number of users, subscriptions,      *)
(* roles, requests and administrative changes.                             *)
(*                                                                         *)
(* The handlers act on copies: of the user's grants and, once a request    *)
(* was read, of the policy over it.  The invariant says what a copy still  *)
(* tells when it is used: the user held those grants, that policy was over *)
(* the request, and the one was enough for the other.                      *)
(***************************************************************************)
EXTENDS Portal, TLAPS

\* A request has its kind, scope, status and length.
Shaped(ask) == {"action", "scope", "status", "ends", "days"} \subseteq DOMAIN ask

\* The shape of what the handlers work with.
CopiesTyped ==
  /\ DOMAIN granted = Users
  /\ page \in [Users -> Pages \cup {"none"}]
  /\ reading \in [Users -> Asks \cup {0}]
  /\ DOMAIN ruling = Users
  /\ DOMAIN unread = Users
  /\ DOMAIN asks = Asks
  /\ \A i \in Asks : Shaped(asks[i])
  /\ policy \in [Tiers -> Policies]

\* A user held the grants its handler works with.
GrantsWereHeld == \A u \in Users \cap calling : granted[u] \subseteq heldGrants[u]

\* What a handler goes by was over its request, or is what takes the place of
\* a policy it could not read.
Grounded(u) ==
  \/ ruling[u] \in heldPolicies[u]
  \/ unread[u] /\ ruling[u] = (IF page[u] = "grant" THEN FailClosed ELSE Bare("scoped"))

\* Who is deciding was allowed to, by the policy its handler goes by.
RulingsStand ==
  \A u \in Users : reading[u] # 0 =>
    /\ u \in calling
    /\ page[u] # "none"
    /\ asks[reading[u]].status # "absent"
    /\ Grounded(u)
    /\ MayDecide(granted[u], ruling[u], asks[reading[u]].scope)
    /\ page[u] = "grant" => ruling[u] \in Policies

PortalInv ==
  /\ CopiesTyped
  /\ GrantsWereHeld
  /\ RulingsStand

-----------------------------------------------------------------------------
(***************************************************************************)
(* The steps of the portal, as far as handlers and their copies go.        *)
(***************************************************************************)

\* A request keeps its kind and scope for ever.
AsksKept ==
  /\ DOMAIN asks' = DOMAIN asks
  /\ \A i \in Asks : Shaped(asks'[i])
  /\ \A i \in Asks : asks[i].status # "absent" =>
       /\ asks'[i].status # "absent"
       /\ asks'[i].scope = asks[i].scope
       /\ asks'[i].action = asks[i].action

Arrives(u) ==
  /\ Enter(u)
  /\ UNCHANGED <<asks, deciderVars>>

Leaves(u) ==
  /\ reading[u] = 0
  /\ Leave(u)
  /\ page' = page \/ page' = [page EXCEPT ![u] = "none"]
  /\ UNCHANGED <<asks, reading, ruling, unread>>

TakesUp(u) == Reads(u) /\ UNCHANGED tieringVars

Writes(u) == WriteDecision(u) /\ UNCHANGED tieringVars

Elsewhere == UNCHANGED <<calling, granted, deciderVars>>

LEMMA StepMoves ==
  ASSUME RulingsStand, Next
  PROVE  \/ \E u \in Users : Arrives(u) \/ Leaves(u) \/ TakesUp(u) \/ Writes(u)
         \/ Elsewhere
<1>1. ASSUME NEW u \in Users, UserStep(u)
      PROVE  Arrives(u) \/ Leaves(u) \/ TakesUp(u) \/ Writes(u)
  <2>1. CASE Enter(u) /\ UNCHANGED <<adminVars, asks, deciderVars>>
    BY <2>1 DEF Arrives
  <2>2. Handler(u) => reading[u] = 0
    BY DEF Handler, RulingsStand
  <2>3. CASE Handler(u) /\ Refuse(u) /\ UNCHANGED <<adminVars, asks, deciderVars>>
    BY <2>2, <2>3 DEF Leaves, Refuse, deciderVars
  <2>4. ASSUME NEW row \in RoleRows, Handler(u), AdminGrant(u, row) \/ AdminRevoke(u, row),
               UNCHANGED <<adminVars, asks, deciderVars>>
        PROVE  Leaves(u)
    BY <2>2, <2>4 DEF Leaves, AdminGrant, AdminRevoke, deciderVars
  <2>5. CASE Handler(u) /\ AdminStep(u) /\ UNCHANGED intakeVars
    BY <2>2, <2>5 DEF Leaves, AdminStep, AdminPage, AdminModule, AdminGrantSP, AdminGrantSPProbe,
         AdminTierPolicy, AdminScopeOptIn, ByAdmin, Refuse, intakeVars, deciderVars
  <2>6. ASSUME NEW p \in {"scoped", "global", "blocked"}, Handler(u), AdminTypePolicy(u, p)
        PROVE  Leaves(u)
    BY <2>2, <2>6 DEF Leaves, AdminTypePolicy, deciderVars
  <2>7. CASE Reads(u) /\ UNCHANGED <<tieringVars, readinessVars>>
    BY <2>7 DEF TakesUp
  <2>8. CASE WriteDecision(u) /\ UNCHANGED <<tieringVars, readinessVars>>
    BY <2>8 DEF Writes
  <2>9. CASE EndBulk(u) /\ UNCHANGED <<tieringVars, readinessVars>>
    BY <2>9 DEF Leaves, EndBulk, Refuse
  <2> QED
    BY <1>1, <2>1, <2>3, <2>4, <2>5, <2>6, <2>7, <2>8, <2>9 DEF UserStep
<1>2. CASE QueueStep
  BY <1>2 DEF QueueStep, Elsewhere, RequestSubmit, MarkRevoke, OpenDrift, accessVars
<1>3. CASE BackgroundStep
  BY <1>3 DEF BackgroundStep, Elsewhere, WorkerProbe, ProbeLapses, CollectRole,
       accessVars, intakeVars
<1> QED
  BY <1>1, <1>2, <1>3 DEF Next

\* A decision changes the status of a request that is there, not what it is.
LEMMA WritingKeepsKind ==
  ASSUME CopiesTyped, NEW u \in Users, WriteDecision(u)
  PROVE  /\ DOMAIN asks' = DOMAIN asks
         /\ \A i \in Asks : /\ Shaped(asks'[i])
                            /\ asks'[i].status # "absent" <=> asks[i].status # "absent"
                            /\ asks'[i].scope = asks[i].scope
                            /\ asks'[i].action = asks[i].action
<1> DEFINE r == reading[u]
<1>1. r \in Asks
  BY DEF WriteDecision, CopiesTyped
<1>2. CASE UNCHANGED asks
  BY <1>2 DEF CopiesTyped
<1>3. ASSUME NEW status \in {"approved", "rejected"}, NEW length, asks[r].status = "pending",
             asks' = [asks EXCEPT ![r] = Decision(r, status, length)]
      PROVE  /\ DOMAIN asks' = DOMAIN asks
             /\ \A i \in Asks : /\ Shaped(asks'[i])
                                /\ asks'[i].status # "absent" <=> asks[i].status # "absent"
                                /\ asks'[i].scope = asks[i].scope
                                /\ asks'[i].action = asks[i].action
  <2>1. /\ Shaped(Decision(r, status, length))
        /\ Decision(r, status, length).status = status
        /\ Decision(r, status, length).scope = asks[r].scope
        /\ Decision(r, status, length).action = asks[r].action
    BY <1>1 DEF Decision, Shaped, CopiesTyped
  <2> QED
    BY <1>1, <1>3, <2>1 DEF CopiesTyped
<1> QED
  BY <1>1, <1>2, <1>3 DEF WriteDecision, WriteRow

LEMMA AsksAreKept ==
  ASSUME CopiesTyped, Next
  PROVE  AsksKept
<1> USE DEF AsksKept, CopiesTyped
<1>1. CASE UNCHANGED asks
  BY <1>1
<1>2. ASSUME NEW ask, Shaped(ask), OpenAsk(ask)
      PROVE  AsksKept
  BY <1>2 DEF OpenAsk
<1>3. ASSUME NEW u \in Users, WriteDecision(u)
      PROVE  AsksKept
  BY <1>3, WritingKeepsKind
<1>4. CASE QueueStep
  <2>1. \A action, scope, role : Shaped(NewAsk(action, scope, role, "pending"))
    BY DEF NewAsk, Shaped
  <2> QED
    BY <1>1, <1>2, <1>4, <2>1 DEF QueueStep, RequestSubmit, MarkRevoke, OpenDrift
<1>5. CASE BackgroundStep
  BY <1>1, <1>5 DEF BackgroundStep, intakeVars
<1>6. ASSUME NEW u \in Users, UserStep(u)
      PROVE  AsksKept
  BY <1>1, <1>3, <1>6 DEF UserStep, AdminTypePolicy, Reads, ReadForDecision, EndBulk,
     intakeVars
<1> QED
  BY <1>4, <1>5, <1>6 DEF Next
-----------------------------------------------------------------------------
LEMMA DefaultsTyped == TierDefaults \in [Tiers -> Policies] /\ FailClosed \in Policies
<1>1. ASSUME NEW self \in BOOLEAN, NEW default \in Nat, NEW max \in Nat,
             NEW permanent \in BOOLEAN, NEW approver \in {"scoped", "global", "blocked"}
      PROVE  Policy(self, default, max, permanent, approver) \in Policies
  BY DEF Policy, Policies
<1>2. /\ Policy(TRUE, 90, 0, TRUE, "scoped") \in Policies
      /\ Policy(TRUE, 30, 90, FALSE, "scoped") \in Policies
      /\ Policy(FALSE, 7, 7, FALSE, "global") \in Policies
  BY <1>1
<1> QED
  BY <1>2 DEF TierDefaults, FailClosed, Tiers

LEMMA PortalInvInit == ASSUME Init PROVE PortalInv
<1>1. CopiesTyped /\ GrantsWereHeld
  <2>1. policy \in [Tiers -> Policies]
    <3>1. PICK acked \in BOOLEAN : policy = [t \in Tiers |-> [TierDefaults[t] EXCEPT !.acked = acked]]
      BY DEF Init, TieringInit
    <3>2. \A t \in Tiers : [TierDefaults[t] EXCEPT !.acked = acked] \in Policies
      BY DefaultsTyped DEF Policies
    <3> QED
      BY <3>1, <3>2
  <2>2. DOMAIN asks = Asks /\ \A i \in Asks : Shaped(asks[i])
    BY DEF Init, IntakeInit, NewAsk, Shaped
  <2> QED
    BY <2>1, <2>2 DEF Init, AccessInit, IntakeInit, CopiesTyped, GrantsWereHeld
<1>2. RulingsStand
  BY DEF Init, IntakeInit, RulingsStand
<1> QED
  BY <1>1, <1>2 DEF PortalInv

\* How the history grows.
LEMMA HistoryKept ==
  ASSUME Observe, NEW u \in Users
  PROVE  /\ u \in calling' /\ u \notin calling => heldGrants'[u] = GrantsFor(u)'
         /\ u \in calling' /\ u \in calling => heldGrants[u] \subseteq heldGrants'[u]
         /\ reading'[u] # 0 /\ reading[u] = 0 => PolicyNow(u)' \in heldPolicies'[u]
         /\ reading'[u] # 0 /\ reading[u] # 0 => heldPolicies[u] \subseteq heldPolicies'[u]
<1>1. heldGrants'[u] = CASE u \notin calling'               -> {}
                         [] u \in calling' /\ u \notin calling -> GrantsFor(u)'
                         [] OTHER                           -> heldGrants[u] \cup GrantsFor(u)'
  BY DEF Observe
<1>2. heldPolicies'[u] = CASE reading'[u] = 0                   -> {}
           [] reading'[u] # 0 /\ reading[u] = 0 -> {PolicyNow(u)'}
           [] OTHER              -> heldPolicies[u] \cup {PolicyNow(u)'}
  BY DEF Observe
<1> QED
  BY <1>1, <1>2

LEMMA CopiesTypedNext ==
  ASSUME CopiesTyped, RulingsStand, Next
  PROVE  CopiesTyped'
<1>1. /\ DOMAIN granted' = Users /\ DOMAIN ruling' = Users /\ DOMAIN unread' = Users
      /\ reading' \in [Users -> Asks \cup {0}]
      /\ page' \in [Users -> Pages \cup {"none"}]
  <2>1. ASSUME NEW u \in Users, TakesUp(u)
        PROVE  /\ DOMAIN granted' = Users /\ DOMAIN ruling' = Users /\ DOMAIN unread' = Users
               /\ reading' \in [Users -> Asks \cup {0}]
               /\ page' \in [Users -> Pages \cup {"none"}]
    BY <2>1 DEF CopiesTyped, TakesUp, Reads, ReadForDecision, accessVars
  <2> QED
    BY <2>1, StepMoves DEF CopiesTyped, Arrives, Leaves, Writes, Elsewhere, Enter, Leave, Stay,
       WriteDecision, accessVars, deciderVars
<1>2. DOMAIN asks' = Asks /\ \A i \in Asks : Shaped(asks[i])'
  BY AsksAreKept DEF CopiesTyped, AsksKept, Shaped
<1>3. policy' \in [Tiers -> Policies]
  BY DefaultsTyped, TieringAssumption DEF CopiesTyped, Next, UserStep, QueueStep, BackgroundStep, adminVars, tieringVars,
     AdminStep, AdminPage, AdminModule, AdminGrantSP, AdminGrantSPProbe, AdminTierPolicy,
     AdminScopeOptIn, AdminTypePolicy, EnsureTierDefaults, SetTierPolicy, TierDefaults,
     WorkerProbe, ProbeLapses, CollectRole, UpsertCatalog
<1> QED
  BY <1>1, <1>2, <1>3 DEF CopiesTyped

LEMMA GrantsWereHeldNext ==
  ASSUME CopiesTyped, RulingsStand, GrantsWereHeld, Next
  PROVE  GrantsWereHeld'
<1> SUFFICES ASSUME NEW u \in Users, u \in calling'
             PROVE  granted'[u] \subseteq heldGrants'[u]
  BY DEF GrantsWereHeld
<1>1. CASE u \notin calling
  <2>1. Enter(u)
    BY <1>1, StepMoves DEF Arrives, Leaves, TakesUp, Reads, Writes, Elsewhere, Enter, Leave, Stay,
       ReadForDecision, WriteDecision, accessVars
  <2>2. granted'[u] = GrantsFor(u)'
    BY <2>1 DEF Enter, GrantsFor, CopiesTyped
  <2> QED
    BY <1>1, <2>2, HistoryKept DEF Next
<1>2. CASE u \in calling
  <2>1. granted'[u] = granted[u]
    BY <1>2, StepMoves DEF Arrives, Leaves, TakesUp, Reads, Writes, Elsewhere, Enter, Leave, Stay,
       ReadForDecision, WriteDecision, accessVars, CopiesTyped
  <2> QED
    BY <1>2, <2>1, HistoryKept DEF GrantsWereHeld, Next
<1> QED
  BY <1>1, <1>2

\* What a step does to a decision that is under way after it.
LEMMA DecisionMoves ==
  ASSUME CopiesTyped, RulingsStand, Next, NEW u \in Users, reading'[u] # 0
  PROVE  /\ u \in calling /\ u \in calling' /\ granted'[u] = granted[u]
         /\ \/ /\ reading[u] = 0 /\ UNCHANGED tieringVars
               /\ \E i \in Asks, p \in Pages, fails \in BOOLEAN : ReadForDecision(u, i, p, fails)
            \/ /\ reading'[u] = reading[u] /\ ruling'[u] = ruling[u]
               /\ page'[u] = page[u] /\ unread'[u] = unread[u]
<1> DEFINE Kept == /\ reading'[u] = reading[u] /\ ruling'[u] = ruling[u]
                   /\ page'[u] = page[u] /\ unread'[u] = unread[u]
<1>1. ASSUME NEW v \in Users, Arrives(v) \/ Leaves(v)
      PROVE  u # v /\ u \in calling /\ u \in calling' /\ granted'[u] = granted[u] /\ Kept
  BY <1>1 DEF Arrives, Leaves, Enter, Leave, RulingsStand, CopiesTyped, deciderVars
<1>2. ASSUME NEW v \in Users, TakesUp(v)
      PROVE  /\ u \in calling /\ u \in calling' /\ granted'[u] = granted[u]
             /\ \/ /\ reading[u] = 0 /\ UNCHANGED tieringVars
                   /\ \E i \in Asks, p \in Pages, fails \in BOOLEAN : ReadForDecision(u, i, p, fails)
                \/ Kept
  <2>1. PICK i \in Asks, p \in Pages, fails \in BOOLEAN :
          ReadForDecision(v, i, p, fails) /\ UNCHANGED tieringVars
    BY <1>2 DEF TakesUp, Reads
  <2>2. UNCHANGED <<calling, granted>> /\ v \in calling /\ reading[v] = 0
    BY <2>1 DEF ReadForDecision, accessVars
  <2>3. u # v => Kept
    BY <2>1 DEF ReadForDecision, CopiesTyped
  <2>4. CASE u = v
    BY <2>1, <2>2, <2>4
  <2>5. CASE u # v
    BY <2>2, <2>3, <2>5 DEF RulingsStand
  <2> QED
    BY <2>4, <2>5
<1>3. ASSUME NEW v \in Users, Writes(v)
      PROVE  u # v /\ u \in calling /\ u \in calling' /\ granted'[u] = granted[u] /\ Kept
  BY <1>3 DEF Writes, WriteDecision, Leave, Stay, RulingsStand, CopiesTyped
<1>4. CASE Elsewhere
  BY <1>4 DEF Elsewhere, RulingsStand, deciderVars
<1> QED
  BY <1>1, <1>2, <1>3, <1>4, StepMoves

LEMMA RulingsStandNext ==
  ASSUME CopiesTyped, RulingsStand, Next
  PROVE  RulingsStand'
<1> SUFFICES ASSUME NEW u \in Users, reading'[u] # 0
             PROVE  /\ u \in calling' /\ page'[u] # "none"
                    /\ asks'[reading'[u]].status # "absent"
                    /\ Grounded(u)'
                    /\ MayDecide(granted'[u], ruling'[u], asks'[reading'[u]].scope)
                    /\ page'[u] = "grant" => ruling'[u] \in Policies
  BY DEF RulingsStand, MayDecide
<1>1. ASSUME NEW i \in Asks, NEW p \in Pages, NEW fails \in BOOLEAN,
             ReadForDecision(u, i, p, fails), UNCHANGED tieringVars
      PROVE  /\ u \in calling' /\ page'[u] # "none"
             /\ asks'[reading'[u]].status # "absent"
             /\ Grounded(u)'
             /\ MayDecide(granted'[u], ruling'[u], asks'[reading'[u]].scope)
             /\ page'[u] = "grant" => ruling'[u] \in Policies
  <2>1. /\ page'[u] = p /\ reading'[u] = i /\ unread'[u] = fails
        /\ ruling'[u] = PolicyRead(p, i, fails)
    BY <1>1 DEF ReadForDecision, CopiesTyped
  <2>2. UNCHANGED <<asks, typePolicy, granted, calling>> /\ u \in calling /\ reading[u] = 0
    BY <1>1 DEF ReadForDecision, accessVars
  <2>3. MayDecide(granted[u], PolicyRead(p, i, fails), asks[i].scope) /\ asks[i].status # "absent"
    BY <1>1 DEF ReadForDecision
  <2>4. p # "none"
    BY DEF Pages
  <2>5. PolicyNow(u)' \in heldPolicies'[u]
    BY <2>2, HistoryKept DEF Next
  <2>6. PolicyNow(u)' = PolicyOver(p, i)
    BY <1>1, <2>1, <2>2 DEF PolicyNow, PolicyOver, TierPolicyFor, tieringVars
  <2>7. ASSUME ~fails \/ p = "drift"
        PROVE  Grounded(u)'
    <3>1. PolicyRead(p, i, fails) = PolicyOver(p, i)
      BY <2>7 DEF PolicyRead, PolicyOver, TypePolicy, Pages
    <3> QED
      BY <2>1, <2>5, <2>6, <3>1 DEF Grounded
  <2>8. ASSUME fails, p # "drift"
        PROVE  Grounded(u)'
    BY <2>1, <2>8 DEF Grounded, PolicyRead, TypePolicy, Pages
  <2>9. p = "grant" => PolicyRead(p, i, fails) \in Policies
    BY DefaultsTyped DEF PolicyRead, TierPolicyFor, CopiesTyped
  <2>10. MayDecide(granted'[u], ruling'[u], asks'[reading'[u]].scope)
    BY <2>1, <2>2, <2>3
  <2>11. Grounded(u)'
    BY <2>7, <2>8
  <2> QED
    BY <2>1, <2>2, <2>3, <2>4, <2>9, <2>10, <2>11
<1>2. CASE /\ reading'[u] = reading[u] /\ ruling'[u] = ruling[u]
           /\ page'[u] = page[u] /\ unread'[u] = unread[u]
  <2>1. AsksKept /\ reading[u] \in Asks
    BY <1>2, AsksAreKept DEF CopiesTyped
  <2>2. /\ asks'[reading'[u]].status # "absent"
        /\ asks'[reading'[u]].scope = asks[reading[u]].scope
    BY <1>2, <2>1 DEF AsksKept, RulingsStand
  <2>3. Grounded(u)'
    BY <1>2, HistoryKept DEF RulingsStand, Grounded, Next
  <2> QED
    BY <1>2, <2>2, <2>3, DecisionMoves DEF RulingsStand
<1> QED
  BY <1>1, <1>2, DecisionMoves

LEMMA PortalInvNext == ASSUME PortalInv, [Next]_vars PROVE PortalInv'
<1>1. CASE Next
  BY <1>1, CopiesTypedNext, GrantsWereHeldNext, RulingsStandNext DEF PortalInv
<1>2. CASE UNCHANGED vars
  BY <1>2 DEF vars, accessVars, tieringVars, readinessVars, intakeVars, deciderVars, history,
     PortalInv, CopiesTyped, GrantsWereHeld, RulingsStand, Grounded, MayDecide, Shaped
<1> QED
  BY <1>1, <1>2

-----------------------------------------------------------------------------
\* Enough to decide under a policy is enough for the promise.
LEMMA AuthorityIsHeld ==
  ASSUME NEW g, NEW h, g \subseteq h, NEW p, NEW s, MayDecide(g, p, s)
  PROVE  Enough(h, p.approver, s)
  BY DEF MayDecide, CanApprove, IsApprover, IsAdmin, Has, Holds, RoleNames, Enough

\* A role is added by one handler, which ends with it.
LEMMA RolesGrow ==
  ASSUME Next, NEW row \in RoleRows, row \in roles' \ roles
  PROVE  \E u \in Users \cap (calling \ calling') : CanAdminScope(granted[u], row.grant.scope)
<1>1. ASSUME NEW u \in Users, NEW r \in RoleRows, AdminGrant(u, r)
      PROVE  u \in calling \ calling' /\ CanAdminScope(granted[u], row.grant.scope)
  BY <1>1 DEF AdminGrant, Leave
<1>2. ASSUME NEW u \in Users, UserStep(u)
      PROVE  \E r \in RoleRows : AdminGrant(u, r)
  BY <1>2 DEF UserStep, Enter, Refuse, AdminRevoke, AdminStep, AdminPage, AdminModule,
     AdminGrantSP, AdminGrantSPProbe, AdminTierPolicy, AdminScopeOptIn, AdminTypePolicy,
     Reads, ReadForDecision, WriteDecision, EndBulk, accessVars
<1>3. ~QueueStep /\ ~BackgroundStep
  BY DEF QueueStep, BackgroundStep, WorkerProbe, ProbeLapses, CollectRole, accessVars
<1> QED
  BY <1>1, <1>2, <1>3 DEF Next

(***************************************************************************)
(* Whoever decides a request had the authority it needs: the handlers      *)
(* compare a copy of the user's grants with a copy of the policy their     *)
(* page goes by, and both were true while the request was handled; a       *)
(* policy that cannot be read still asks for authority over the scope      *)
(* (web/grants.go, revoke.go, drift.go).                                   *)
(***************************************************************************)
THEOREM DecisionsAreAuthorised == Spec => DecidedWithAuthority
<1>1. ASSUME PortalInv, Next, NEW u \in Users, NEW i \in Asks, Decides(u, i)
      PROVE  \/ \E p \in heldPolicies[u] : Enough(heldGrants[u], p.approver, asks[i].scope)
             \/ unread[u] /\ Enough(heldGrants[u], "scoped", asks[i].scope)
  <2>1. i # 0 /\ reading[u] = i
    BY <1>1, IntakeAssumption DEF Decides, Asks
  <2>2. /\ u \in calling /\ Grounded(u)
        /\ MayDecide(granted[u], ruling[u], asks[i].scope)
    BY <1>1, <2>1 DEF PortalInv, RulingsStand
  <2>3. granted[u] \subseteq heldGrants[u]
    BY <1>1, <2>2 DEF PortalInv, GrantsWereHeld
  <2>4. Enough(heldGrants[u], ruling[u].approver, asks[i].scope)
    BY <2>2, <2>3, AuthorityIsHeld
  <2>5. FailClosed.approver = "global" /\ Bare("scoped").approver = "scoped"
    BY DEF FailClosed, Bare, Policy
  <2> QED
    BY <2>2, <2>4, <2>5 DEF Grounded, Enough
<1>2. ASSUME NEW u \in Users, NEW i \in Asks, UNCHANGED vars
      PROVE  ~Decides(u, i)
  BY <1>2 DEF vars, intakeVars, Decides
<1>3. PortalInv /\ [Next]_vars =>
        [\A u \in Users, i \in Asks : Decides(u, i) =>
           \/ \E p \in heldPolicies[u] : Enough(heldGrants[u], p.approver, asks[i].scope)
           \/ unread[u] /\ Enough(heldGrants[u], "scoped", asks[i].scope)]_vars
  BY <1>1, <1>2
<1> QED
  BY <1>3, PortalInvInit, PortalInvNext, PTL DEF Spec, DecidedWithAuthority

(***************************************************************************)
(* Roles are handed out by those who administer their scope, or the whole  *)
(* tenant, while they ask for it (web/admin.go adminGrant).                *)
(***************************************************************************)
THEOREM RolesAreHandedOutByAdmins == Spec => RolesAreDelegated
<1>1. ASSUME PortalInv, Next, NEW row \in RoleRows, row \in roles' \ roles
      PROVE  \E u \in calling \ calling' :
               Holds(heldGrants[u], row.grant.scope, {"admin"})
                 \/ Holds(heldGrants[u], Global, {"admin"})
  <2>1. PICK u \in Users \cap (calling \ calling') :
          CanAdminScope(granted[u], row.grant.scope)
    BY <1>1, RolesGrow
  <2>2. granted[u] \subseteq heldGrants[u]
    BY <1>1, <2>1 DEF PortalInv, GrantsWereHeld
  <2> QED
    BY <2>1, <2>2 DEF CanAdminScope, IsAdminOf, IsAdmin, Has, Holds
<1>2. PortalInv /\ [Next]_vars =>
        [\A row \in RoleRows : row \in roles' \ roles =>
           \E u \in calling \ calling' :
             Holds(heldGrants[u], row.grant.scope, {"admin"})
               \/ Holds(heldGrants[u], Global, {"admin"})]_vars
  BY <1>1
<1> QED
  BY <1>2, PortalInvInit, PortalInvNext, PTL DEF Spec, RolesAreDelegated

-----------------------------------------------------------------------------
\* Wrapping around only makes a length shorter.
LEMMA DurationShrinks == \A d \in Nat : Duration(d) <= d
  BY DEF Duration, HalfRange

LEMMA LengthWithinTier ==
  ASSUME NEW p \in Policies, NEW d \in Nat, p.max > 0
  PROVE  Duration(ClampedDays(p, d)) <= p.max
<1>1. p.max \in Nat /\ p.default \in Nat
  BY DEF Policies
<1>2. ClampedDays(p, d) \in Nat /\ ClampedDays(p, d) <= p.max
  BY <1>1 DEF ClampedDays, FirstPositive
<1>3. Duration(ClampedDays(p, d)) <= ClampedDays(p, d)
  BY <1>2, DurationShrinks
<1>4. Duration(ClampedDays(p, d)) \in Int
  BY <1>2 DEF Duration, HalfRange
<1> QED
  BY <1>1, <1>2, <1>3, <1>4

(***************************************************************************)
(* No grant is approved on its page for longer than its tier allows,       *)
(* whatever the approver enters: the clamping comes before the             *)
(* multiplication that may wrap (web/grants.go applyGrantDecision).        *)
(***************************************************************************)
THEOREM GrantsStayWithinTier == Spec => GrantedWithinTier
<1> DEFINE Known(u) == heldPolicies[u] \cup (IF unread[u] THEN {FailClosed} ELSE {})
<1>1. ASSUME PortalInv, Next, NEW u \in Users, NEW i \in Asks, Decides(u, i),
             page[u] = "grant", asks'[i].status = "approved"
      PROVE  \E p \in Known(u) :
               /\ ~asks'[i].ends => p.permanent
               /\ p.max > 0 => asks'[i].days <= p.max
  <2> USE DEF PortalInv
  <2>1. i # 0 /\ reading[u] = i /\ reading'[u] = 0
    BY <1>1, IntakeAssumption DEF Decides, Asks
  <2>2. WriteDecision(u)
    <3>1. \A v \in Users : Writes(v) => reading'[u] = reading[u] \/ u = v
      BY DEF Writes, WriteDecision, CopiesTyped
    <3>2. \A v \in Users : ~TakesUp(v)
      <4> SUFFICES ASSUME NEW v \in Users, NEW j \in Asks, NEW p \in Pages, NEW fails \in BOOLEAN,
                          ReadForDecision(v, j, p, fails)
                   PROVE  FALSE
        BY DEF TakesUp, Reads
      <4>1. v # u
        BY <2>1 DEF ReadForDecision
      <4> QED
        BY <2>1, <4>1 DEF ReadForDecision, CopiesTyped
    <3>3. \A v \in Users : ~Arrives(v) /\ ~Leaves(v)
      BY <2>1 DEF Arrives, Leaves, deciderVars
    <3>4. ~Elsewhere
      BY <2>1 DEF Elsewhere, deciderVars
    <3> QED
      BY <1>1, <2>1, <3>1, <3>2, <3>3, <3>4, StepMoves DEF Writes
  <2>3. ruling[u] \in Known(u) /\ ruling[u] \in Policies
    BY <1>1, <2>1 DEF RulingsStand, Grounded
  <2>4. PICK length \in Lengths("grant", ruling[u]) :
          asks' = [asks EXCEPT ![i] = Decision(i, "approved", length)]
    <3>1. Decision(i, "rejected", NoEnd).status = "rejected"
      BY <1>1 DEF Decision, CopiesTyped, Shaped
    <3> QED
      BY <1>1, <2>1, <2>2, <3>1 DEF WriteDecision, WriteRow, Decides, CopiesTyped
  <2>5. asks'[i].ends = length.ends /\ asks'[i].days = length.days
    BY <1>1, <2>4 DEF Decision, CopiesTyped, Shaped
  <2>6. \/ \E d \in DayInputs : length = For(ClampedDays(ruling[u], d))
        \/ ruling[u].permanent /\ length = NoEnd
    BY <2>4 DEF Lengths
  <2>7. CASE \E d \in DayInputs : length = For(ClampedDays(ruling[u], d))
    BY <2>3, <2>5, <2>7, LengthWithinTier, IntakeAssumption DEF For
  <2>8. CASE ruling[u].permanent /\ length = NoEnd
    BY <2>3, <2>5, <2>8 DEF NoEnd, Policies
  <2> QED
    BY <2>6, <2>7, <2>8
<1>2. ASSUME NEW u \in Users, NEW i \in Asks, UNCHANGED vars
      PROVE  ~Decides(u, i)
  BY <1>2 DEF vars, intakeVars, Decides
<1>3. PortalInv /\ [Next]_vars =>
        [\A u \in Users, i \in Asks :
           Decides(u, i) /\ page[u] = "grant" /\ asks'[i].status = "approved" =>
             \E p \in heldPolicies[u] \cup (IF unread[u] THEN {FailClosed} ELSE {}) :
               /\ ~asks'[i].ends => p.permanent
               /\ p.max > 0 => asks'[i].days <= p.max]_vars
  BY <1>1, <1>2
<1> QED
  BY <1>3, PortalInvInit, PortalInvNext, PTL DEF Spec, GrantedWithinTier
-----------------------------------------------------------------------------
(***************************************************************************)
(* Types.  An approval wraps around but stays an integer, and whatever is  *)
(* read as the policy over a request is one.                               *)
(***************************************************************************)

\* Every grant a user has is a role in a scope.
LEMMA GrantsForTyped ==
  ASSUME AccessTypeOK, NEW u
  PROVE  GrantsFor(u) \in SUBSET Grants
  BY AccessAssumption DEF AccessTypeOK, GrantsFor, Grants, Scopes, RoleNames

LEMMA AccessTyped ==
  ASSUME AccessTypeOK, Next
  PROVE  AccessTypeOK'
<1> USE DEF AccessTypeOK
<1>1. ASSUME NEW u \in Users, Enter(u)
      PROVE  AccessTypeOK'
  BY <1>1, GrantsForTyped DEF Enter, NoEdit
<1>2. ASSUME NEW u \in Users, Leave(u) \/ Stay(u) \/ UNCHANGED <<calling, granted>>,
             Edit \/ NoEdit,
             UNCHANGED roles \/ \E row \in RoleRows : roles' \in {roles \cup {row}, roles \ {row}}
      PROVE  AccessTypeOK'
  <2>1. edits' \in 0..MaxEdits
    BY <1>2, AccessAssumption DEF Edit, NoEdit
  <2>2. roles' \subseteq RoleRows
    BY <1>2
  <2>3. calling' \subseteq Users /\ granted' \in [Users -> SUBSET Grants]
    BY <1>2 DEF Leave, Stay
  <2> QED
    BY <2>1, <2>2, <2>3
<1>3. CASE UNCHANGED accessVars
  BY <1>3 DEF accessVars
<1>4. ASSUME NEW u \in Users, UserStep(u)
      PROVE  AccessTypeOK'
  <2>1. CASE \E row \in RoleRows : AdminGrant(u, row) \/ AdminRevoke(u, row)
    BY <1>2, <2>1 DEF AdminGrant, AdminRevoke
  <2>2. CASE AdminStep(u)
    BY <1>2, <2>2 DEF AdminStep, AdminPage, AdminModule, AdminGrantSP, AdminGrantSPProbe,
       AdminTierPolicy, AdminScopeOptIn, ByAdmin, Refuse
  <2>3. CASE \E p \in {"scoped", "global", "blocked"} : AdminTypePolicy(u, p)
    BY <1>2, <2>3 DEF AdminTypePolicy
  <2>4. CASE WriteDecision(u) \/ EndBulk(u)
    BY <1>2, <2>4 DEF WriteDecision, EndBulk, Refuse
  <2>5. CASE Reads(u)
    BY <1>3, <2>5 DEF Reads, ReadForDecision
  <2> QED
    BY <1>1, <1>2, <1>3, <1>4, <2>1, <2>2, <2>3, <2>4, <2>5 DEF UserStep, Refuse
<1>5. CASE QueueStep
  BY <1>3, <1>5 DEF QueueStep
<1>6. CASE BackgroundStep
  <2>1. ASSUME NEW r \in Roles, CollectRole(r)
        PROVE  AccessTypeOK'
    BY <2>1, AccessAssumption DEF CollectRole, Edit
  <2>2. CASE WorkerProbe \/ ProbeLapses
    BY <2>2, AccessAssumption DEF WorkerProbe, ProbeLapses, Edit
  <2> QED
    BY <1>6, <2>1, <2>2 DEF BackgroundStep
<1> QED
  BY <1>4, <1>5, <1>6 DEF Next
\* Every definition of a role has a tier.
LEMMA ClassifiedTyped == \A actions, dataActions : ClassifyTier(actions, dataActions) \in Tiers
  BY DEF ClassifyTier, Tiers

LEMMA TieringTyped ==
  ASSUME TieringTypeOK, Next
  PROVE  TieringTypeOK'
<1> USE DEF TieringTypeOK
<1>1. CASE UNCHANGED tieringVars
  BY <1>1 DEF tieringVars
<1>2. ASSUME NEW u \in Users, AdminStep(u)
      PROVE  TieringTypeOK'
  <2>1. CASE AdminPage(u)
    BY <2>1, DefaultsTyped DEF AdminPage, EnsureTierDefaults
  <2>2. ASSUME NEW t \in Tiers, NEW p \in PolicyInputs, AdminTierPolicy(u, t, p)
        PROVE  TieringTypeOK'
    BY <2>2, TieringAssumption DEF AdminTierPolicy, SetTierPolicy
  <2> QED
    BY <1>1, <1>2, <2>1, <2>2 DEF AdminStep, AdminModule, AdminGrantSP, AdminGrantSPProbe,
       AdminScopeOptIn
<1>3. ASSUME NEW u \in Users, UserStep(u)
      PROVE  TieringTypeOK'
  BY <1>1, <1>2, <1>3 DEF UserStep, AdminTypePolicy, adminVars
<1>4. CASE QueueStep
  BY <1>1, <1>4 DEF QueueStep
<1>5. CASE BackgroundStep
  <2>1. ASSUME NEW r \in Roles, CollectRole(r)
        PROVE  TieringTypeOK'
    BY <2>1, ClassifiedTyped DEF CollectRole, UpsertCatalog
  <2> QED
    BY <1>1, <1>5, <2>1 DEF BackgroundStep, WorkerProbe, ProbeLapses
<1> QED
  BY <1>3, <1>4, <1>5 DEF Next

LEMMA ReadinessTyped ==
  ASSUME ReadinessTypeOK, Next
  PROVE  ReadinessTypeOK'
<1> USE DEF ReadinessTypeOK
<1>1. CASE UNCHANGED readinessVars
  BY <1>1 DEF readinessVars
<1>2. ASSUME NEW ok \in BOOLEAN, MarkGrantSPProbe(ok)
      PROVE  ReadinessTypeOK'
  BY <1>2 DEF MarkGrantSPProbe
<1>3. ASSUME NEW u \in Users, AdminStep(u)
      PROVE  ReadinessTypeOK'
  BY <1>1, <1>2, <1>3 DEF AdminStep, AdminPage, AdminModule, AdminGrantSP, AdminGrantSPProbe,
     AdminTierPolicy, AdminScopeOptIn
<1>4. ASSUME NEW u \in Users, UserStep(u)
      PROVE  ReadinessTypeOK'
  BY <1>1, <1>3, <1>4 DEF UserStep, AdminTypePolicy, adminVars
<1>5. CASE QueueStep
  BY <1>1, <1>5 DEF QueueStep
<1>6. CASE BackgroundStep
  BY <1>1, <1>2, <1>6 DEF BackgroundStep, WorkerProbe, ProbeLapses, CollectRole
<1> QED
  BY <1>4, <1>5, <1>6 DEF Next

-----------------------------------------------------------------------------
\* The days of an approval, whatever was entered, are an integer.
LEMMA LengthsTyped ==
  ASSUME NEW p \in Pages, NEW pol \in Policies, NEW length \in Lengths(p, pol)
  PROVE  length.ends \in BOOLEAN /\ length.days \in Int
<1>1. pol.max \in Nat /\ pol.default \in Nat
  BY DEF Policies
<1>2. \A d \in Nat : ClampedDays(pol, d) \in Nat
  BY <1>1 DEF ClampedDays, FirstPositive
<1>3. \A d \in Nat : Duration(d) \in Int
  BY DEF Duration, HalfRange
<1>4. \A d \in Nat : For(d).ends \in BOOLEAN /\ For(d).days \in Int
  BY <1>3 DEF For
<1>5. NoEnd.ends \in BOOLEAN /\ NoEnd.days \in Int
  BY DEF NoEnd
<1>6. \/ length = NoEnd
      \/ \E d \in DayInputs : length = For(d) \/ length = For(ClampedDays(pol, d))
  BY DEF Lengths, Pages
<1> QED
  BY <1>2, <1>4, <1>5, <1>6, IntakeAssumption

\* Whatever a handler reads, or could have read, is a policy.
LEMMA PoliciesTyped ==
  ASSUME TieringTypeOK, IntakeTypeOK, NEW p \in Pages, NEW i
  PROVE  /\ PolicyOver(p, i) \in Policies
         /\ \A fails \in BOOLEAN : PolicyRead(p, i, fails) \in Policies
<1>1. \A approver \in {"scoped", "global", "blocked"} : Bare(approver) \in Policies
  BY DEF Bare, Policy, Policies
<1>2. \A r : TierPolicyFor(r) \in Policies
  BY DefaultsTyped DEF TierPolicyFor, TieringTypeOK
<1>3. \A fails \in BOOLEAN : TypePolicy(fails) \in {"scoped", "global", "blocked"}
  BY DEF TypePolicy, IntakeTypeOK
<1> QED
  BY <1>1, <1>2, <1>3, DefaultsTyped DEF PolicyOver, PolicyRead, IntakeTypeOK, Pages

LEMMA DecisionTyped ==
  ASSUME TieringTypeOK, IntakeTypeOK, NEW u \in Users, WriteDecision(u), page[u] # "none"
  PROVE  asks' \in [Asks -> Ask]
<1> DEFINE i == reading[u]
<1>1. i \in Asks /\ ruling[u] \in Policies /\ page[u] \in Pages
  BY IntakeAssumption DEF IntakeTypeOK, WriteDecision, Asks
<1>2. ASSUME NEW status \in {"approved", "rejected"}, NEW length,
             length.ends \in BOOLEAN, length.days \in Int
      PROVE  Decision(i, status, length) \in Ask
  <2>1. ASSUME NEW ask \in Ask, NEW ends \in BOOLEAN, NEW days \in Int
        PROVE  [ask EXCEPT !.status = status, !.ends = ends, !.days = days] \in Ask
    BY <1>2, <2>1 DEF Ask
  <2>2. asks[i] \in Ask
    BY <1>1 DEF IntakeTypeOK
  <2> QED
    BY <1>2, <2>1, <2>2 DEF Decision
<1>3. NoEnd.ends \in BOOLEAN /\ NoEnd.days \in Int
  BY DEF NoEnd
<1>4. /\ Decision(i, "rejected", NoEnd) \in Ask
      /\ \A length \in Lengths(page[u], ruling[u]) : Decision(i, "approved", length) \in Ask
  BY <1>1, <1>2, <1>3, LengthsTyped
<1> QED
  BY <1>1, <1>4 DEF WriteDecision, WriteRow, IntakeTypeOK

LEMMA IntakeTyped ==
  ASSUME TieringTypeOK, IntakeTypeOK, RulingsStand, Next
  PROVE  IntakeTypeOK'
<1> USE DEF deciderVars
<1>1. CASE UNCHANGED intakeVars
  BY <1>1 DEF intakeVars, IntakeTypeOK
<1>2. ASSUME NEW ask \in Ask, OpenAsk(ask), UNCHANGED <<typePolicy, deciderVars>>
      PROVE  IntakeTypeOK'
  BY <1>2 DEF OpenAsk, IntakeTypeOK
<1>3. ASSUME NEW u \in Users, NEW i \in Asks, NEW p \in Pages, NEW fails \in BOOLEAN,
             ReadForDecision(u, i, p, fails)
      PROVE  IntakeTypeOK'
  <2>1. unread' \in [Users -> BOOLEAN]
    BY <1>3, Zenon DEF ReadForDecision, IntakeTypeOK
  <2>2. PolicyRead(p, i, fails) \in Policies
    BY PoliciesTyped
  <2>3. /\ page' = [page EXCEPT ![u] = p] /\ reading' = [reading EXCEPT ![u] = i]
        /\ ruling' = [ruling EXCEPT ![u] = PolicyRead(p, i, fails)]
        /\ UNCHANGED <<asks, typePolicy>>
    BY <1>3 DEF ReadForDecision
  <2> QED
    BY <2>1, <2>2, <2>3 DEF IntakeTypeOK, Asks
<1>4. ASSUME NEW u \in Users, WriteDecision(u)
      PROVE  IntakeTypeOK'
  <2>1. /\ reading' \in [Users -> 0..MaxAsks] /\ ruling' \in [Users -> Policies]
        /\ unread' \in [Users -> BOOLEAN] /\ page' \in [Users -> Pages \cup {"none"}]
    BY <1>4, DefaultsTyped, IntakeAssumption DEF WriteDecision, IntakeTypeOK
  <2>2. page[u] # "none"
    BY <1>4 DEF WriteDecision, RulingsStand
  <2> QED
    BY <1>4, <2>1, <2>2, DecisionTyped DEF WriteDecision, IntakeTypeOK
<1>5. ASSUME NEW u \in Users, NEW p \in {"scoped", "global", "blocked"}, AdminTypePolicy(u, p)
      PROVE  IntakeTypeOK'
  BY <1>5 DEF AdminTypePolicy, IntakeTypeOK
<1>6. ASSUME NEW u \in Users, EndBulk(u)
      PROVE  IntakeTypeOK'
  BY <1>6 DEF EndBulk, IntakeTypeOK
<1>7. ASSUME NEW u \in Users, UserStep(u)
      PROVE  IntakeTypeOK'
  BY <1>1, <1>3, <1>4, <1>5, <1>6, <1>7 DEF UserStep, Reads, adminVars, intakeVars
<1>8. CASE QueueStep
  <2>1. \A action \in {"grant", "revoke", "drift"}, s \in Scopes, r \in Roles \cup {NoRole} :
          NewAsk(action, s, r, "pending") \in Ask
    BY DEF NewAsk, Ask
  <2>2. ASSUME NEW r \in Roles, NEW s \in Subs, NEW permanent \in BOOLEAN,
               RequestSubmit(r, s, permanent)
        PROVE  IntakeTypeOK'
    BY <1>2, <2>1, <2>2 DEF RequestSubmit, Scopes
  <2>3. ASSUME NEW s \in Scopes, MarkRevoke(s) \/ OpenDrift(s)
        PROVE  IntakeTypeOK'
    BY <1>2, <2>1, <2>3 DEF MarkRevoke, OpenDrift
  <2> QED
    BY <1>8, <2>2, <2>3 DEF QueueStep
<1>9. CASE BackgroundStep
  BY <1>1, <1>9 DEF BackgroundStep
<1> QED
  BY <1>7, <1>8, <1>9 DEF Next

\* What is remembered of a handler is what it could read.
LEMMA HistoryTyped ==
  ASSUME TypeOK, Next, AccessTypeOK', TieringTypeOK', IntakeTypeOK', RulingsStand'
  PROVE  /\ heldGrants' \in [Users -> SUBSET Grants]
         /\ heldPolicies' \in [Users -> SUBSET Policies]
<1>1. \A u \in Users : GrantsFor(u)' \in SUBSET Grants
  BY AccessAssumption DEF AccessTypeOK, GrantsFor, Grants, Scopes, RoleNames
<1>2. heldGrants' \in [Users -> SUBSET Grants]
  BY <1>1 DEF Next, Observe, TypeOK
<1>3. ASSUME NEW u \in Users, reading'[u] # 0
      PROVE  PolicyNow(u)' \in Policies
  <2>1. \A approver \in {"scoped", "global", "blocked"} : Bare(approver) \in Policies
    BY DEF Bare, Policy, Policies
  <2>2. page'[u] \in Pages
    BY <1>3 DEF IntakeTypeOK, RulingsStand
  <2>3. \A r : TierPolicyFor(r)' \in Policies
    BY DefaultsTyped DEF TierPolicyFor, TieringTypeOK
  <2>4. typePolicy' \in {"scoped", "global", "blocked"}
    BY DEF IntakeTypeOK
  <2> QED
    BY <2>1, <2>2, <2>3, <2>4 DEF PolicyNow, PolicyOver, Pages
<1>4. ASSUME NEW u \in Users
      PROVE  heldPolicies'[u] \in SUBSET Policies
  <2>1. heldPolicies'[u] = CASE reading'[u] = 0              -> {}
             [] reading'[u] # 0 /\ reading[u] = 0 -> {PolicyNow(u)'}
             [] OTHER              -> heldPolicies[u] \cup {PolicyNow(u)'}
    BY DEF Next, Observe
  <2> QED
    BY <1>3, <2>1 DEF TypeOK
<1>5. heldPolicies' = [u \in Users |-> heldPolicies'[u]]
  BY DEF Next, Observe
<1> QED
  BY <1>2, <1>4, <1>5

LEMMA TypesInit == ASSUME Init PROVE TypeOK
<1>1. AccessTypeOK
  BY AccessAssumption DEF Init, AccessInit, AccessTypeOK
<1>2. TieringTypeOK
  <2>1. policy \in [Tiers -> Policies]
    BY PortalInvInit DEF PortalInv, CopiesTyped
  <2> QED
    BY <2>1, ClassifiedTyped DEF Init, TieringInit, TieringTypeOK
<1>3. ReadinessTypeOK
  BY DEF Init, ReadinessInit, ReadinessTypeOK, ModuleStates
<1>4. IntakeTypeOK
  <2>1. NewAsk("drift", Global, NoRole, "absent") \in Ask
    BY DEF NewAsk, Ask, Scopes
  <2>2. asks \in [Asks -> Ask]
    BY <2>1 DEF Init, IntakeInit
  <2>3. ruling \in [Users -> Policies] /\ reading \in [Users -> 0..MaxAsks]
    BY DefaultsTyped, IntakeAssumption DEF Init, IntakeInit
  <2> QED
    BY <2>2, <2>3 DEF Init, IntakeInit, IntakeTypeOK
<1> QED
  BY <1>1, <1>2, <1>3, <1>4 DEF Init, TypeOK

(***************************************************************************)
(* Every variable of the portal keeps its type: a row is always one the    *)
(* table can hold, with a length that is an integer after wrapping.        *)
(***************************************************************************)
THEOREM PortalTypeCorrect == Spec => []TypeOK
<1>1. ASSUME TypeOK, PortalInv, PortalInv', Next
      PROVE  TypeOK'
  <2>1. AccessTypeOK' /\ TieringTypeOK' /\ ReadinessTypeOK' /\ IntakeTypeOK'
    BY <1>1, AccessTyped, TieringTyped, ReadinessTyped, IntakeTyped DEF TypeOK, PortalInv
  <2> QED
    BY <1>1, <2>1, HistoryTyped DEF TypeOK, PortalInv
<1>2. ASSUME TypeOK, UNCHANGED vars
      PROVE  TypeOK'
  BY <1>2 DEF TypeOK, vars, accessVars, tieringVars, readinessVars, intakeVars, deciderVars,
     history, AccessTypeOK, TieringTypeOK, ReadinessTypeOK, IntakeTypeOK
<1>3. TypeOK /\ PortalInv /\ [Next]_vars => TypeOK' /\ PortalInv'
  BY <1>1, <1>2, PortalInvNext
<1>4. Init => TypeOK /\ PortalInv
  BY TypesInit, PortalInvInit
<1> QED
  BY <1>3, <1>4, PTL DEF Spec
=============================================================================
