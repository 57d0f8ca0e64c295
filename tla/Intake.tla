------------------------------- MODULE Intake -------------------------------
(***************************************************************************)
(* Requests and their review, seen from who may do what and under which    *)
(* policy (internal/web/grants.go, revoke.go, drift.go).  What becomes of  *)
(* an approved request is the subject of module GovLens.                   *)
(*                                                                         *)
(* A decision is three steps: the HTTP request arrives (Enter), the        *)
(* handler reads the row and a policy and checks the user's grants         *)
(* (ReadForDecision), the conditional UPDATE writes (WriteDecision).  Each *)
(* of the three pages has a handler of its own: /grant/decide takes rows   *)
(* of its action, /drift/decide pending ones of its action, and            *)
(* /revoke/decide any row.                                                 *)
(***************************************************************************)
EXTENDS Readiness

CONSTANTS
  MaxAsks,     \* requests the queue can hold: bounds the model
  NoRole,      \* the role of a request that is not a grant
  DayInputs    \* what an approver enters as days; 0 is empty

Asks  == 1..MaxAsks
Pages == {"grant", "revoke", "drift"}

ASSUME IntakeAssumption ==
  /\ MaxAsks \in Nat
  /\ NoRole \notin Roles
  /\ DayInputs \subseteq Nat

VARIABLES
  asks,       \* asks[i]: the request with id i
  typePolicy, \* type_policies of the principal type of the requests
  page,       \* page[u]: the page whose handler u's request is in, or "none"
  reading,    \* reading[u]: the request u is deciding, 0 if none
  ruling,     \* ruling[u]: the policy that handler goes by
  unread      \* unread[u]: its read of the policy failed

deciderVars == <<page, reading, ruling, unread>>
intakeVars  == <<asks, typePolicy, deciderVars>>
adminVars   == <<tieringVars, readinessVars, typePolicy>>

\* ends, days: whether the access has an end, and after how many days.
Ask == [action : {"grant", "revoke", "drift"}, scope : Scopes,
        role : Roles \cup {NoRole},
        status : {"absent", "pending", "approved", "rejected"},
        ends : BOOLEAN, days : Int]

NoEnd   == [ends |-> FALSE, days |-> 0]
For(d)  == [ends |-> TRUE, days |-> Duration(d)]

NewAsk(action, scope, role, status) ==
  [action |-> action, scope |-> scope, role |-> role, status |-> status,
   ends |-> FALSE, days |-> 0]

IntakeTypeOK ==
  /\ asks \in [Asks -> Ask]
  /\ typePolicy \in {"scoped", "global", "blocked"}
  /\ page \in [Users -> Pages \cup {"none"}]
  /\ reading \in [Users -> 0..MaxAsks]
  /\ ruling \in [Users -> Policies]
  /\ unread \in [Users -> BOOLEAN]

IntakeInit ==
  /\ asks = [i \in Asks |-> NewAsk("drift", Global, NoRole, "absent")]
  /\ typePolicy = "scoped"
  /\ page = [u \in Users |-> "none"]
  /\ reading = [u \in Users |-> 0]
  /\ ruling = [u \in Users |-> FailClosed]
  /\ unread = [u \in Users |-> FALSE]

-----------------------------------------------------------------------------
OpenAsk(ask) ==
  \E i \in Asks :
    /\ asks[i].status = "absent"
    /\ \A j \in Asks : j < i => asks[j].status # "absent"
    /\ asks' = [asks EXCEPT ![i] = ask]

(***************************************************************************)
(* POST /request/submit: the role is requestable, the subscription opted   *)
(* in, and no end asked for only where the tier allows it.  Whether        *)
(* self-service is live is asked by the page with the form alone.          *)
(***************************************************************************)
RequestSubmit(r, s, permanent) ==
  /\ IsGrantable(r)
  /\ s \in optIns
  /\ permanent => TierPolicyFor(r).permanent
  /\ OpenAsk(NewAsk("grant", s, r, "pending"))
  /\ UNCHANGED <<typePolicy, deciderVars>>

\* store.TypePolicy: a failed read is no policy, which is scoped approval.
TypePolicy(fails) == IF fails THEN "scoped" ELSE typePolicy

\* POST /revoke/mark, unless the principal type is blocked.
MarkRevoke(s) ==
  /\ \E fails \in BOOLEAN : TypePolicy(fails) # "blocked"
  /\ OpenAsk(NewAsk("revoke", s, NoRole, "pending"))
  /\ UNCHANGED <<typePolicy, deciderVars>>

\* The collector found an out-of-band assignment.
OpenDrift(s) ==
  /\ OpenAsk(NewAsk("drift", s, NoRole, "pending"))
  /\ UNCHANGED <<typePolicy, deciderVars>>

AdminTypePolicy(u, p) ==
  /\ IsAdmin(granted[u]) /\ Leave(u)
  /\ typePolicy' = p
  /\ Edit
  /\ UNCHANGED <<roles, tieringVars, readinessVars, asks, deciderVars>>

-----------------------------------------------------------------------------
\* A policy that says who decides and nothing else.
Bare(approver) == Policy(FALSE, 0, 0, TRUE, approver)

(***************************************************************************)
(* The policy a page goes by: the tier of the role for a grant, the        *)
(* principal type on the page of removals, none on that of drift.          *)
(***************************************************************************)
PolicyOver(p, i) ==
  CASE p = "grant"  -> TierPolicyFor(asks[i].role)
    [] p = "revoke" -> Bare(typePolicy)
    [] p = "drift"  -> Bare("scoped")

\* What it goes by when the read may fail.
PolicyRead(p, i, fails) ==
  CASE p = "grant"  -> IF fails THEN FailClosed ELSE TierPolicyFor(asks[i].role)
    [] p = "revoke" -> Bare(TypePolicy(fails))
    [] p = "drift"  -> Bare("scoped")

MayDecide(g, p, s) ==
  \/ p.approver = "global" /\ IsApprover(g)
  \/ p.approver = "scoped" /\ CanApprove(g, s)

\* The rows a page's handler goes on with.
Takes(p, ask) ==
  CASE p = "grant"  -> ask.action = "grant"
    [] p = "revoke" -> TRUE
    [] p = "drift"  -> ask.action = "drift" /\ ask.status = "pending"

ReadForDecision(u, i, p, fails) ==
  /\ u \in calling
  /\ page[u] \in {"none", p} /\ reading[u] = 0
  /\ asks[i].status # "absent" /\ Takes(p, asks[i])
  /\ fails => p # "drift"
  /\ MayDecide(granted[u], PolicyRead(p, i, fails), asks[i].scope)
  /\ page' = [page EXCEPT ![u] = p]
  /\ reading' = [reading EXCEPT ![u] = i]
  /\ ruling' = [ruling EXCEPT ![u] = PolicyRead(p, i, fails)]
  /\ unread' = [unread EXCEPT ![u] = fails]
  /\ UNCHANGED <<accessVars, asks, typePolicy>>

\* How long an approval is for: on the page of removals nothing is said of
\* it, drift may be kept for good, a grant is bound by its tier.
Lengths(p, pol) ==
  CASE p = "revoke" -> {NoEnd}
    [] p = "drift"  -> {NoEnd} \cup {For(d) : d \in DayInputs \ {0}}
    [] p = "grant"  -> {For(ClampedDays(pol, d)) : d \in DayInputs}
                         \cup (IF pol.permanent THEN {NoEnd} ELSE {})

Decision(i, status, length) ==
  [asks[i] EXCEPT !.status = status, !.ends = length.ends, !.days = length.days]

\* Nothing if the row was decided meanwhile, or the statement fails.
WriteRow(i, p, pol) ==
  \/ UNCHANGED asks
  \/ /\ asks[i].status = "pending"
     /\ \/ asks' = [asks EXCEPT ![i] = Decision(i, "rejected", NoEnd)]
        \/ \E length \in Lengths(p, pol) :
             asks' = [asks EXCEPT ![i] = Decision(i, "approved", length)]

\* A bulk decision goes on to the next row it was given.
WriteDecision(u) ==
  /\ reading[u] # 0
  /\ WriteRow(reading[u], page[u], ruling[u])
  /\ reading' = [reading EXCEPT ![u] = 0]
  /\ ruling' = [ruling EXCEPT ![u] = FailClosed]
  /\ unread' = [unread EXCEPT ![u] = FALSE]
  /\ \/ Leave(u) /\ page' = [page EXCEPT ![u] = "none"]
     \/ Stay(u) /\ UNCHANGED page
  /\ NoEdit
  /\ UNCHANGED <<roles, typePolicy>>

\* The last of them was skipped.
EndBulk(u) ==
  /\ page[u] # "none" /\ reading[u] = 0
  /\ Refuse(u)
  /\ page' = [page EXCEPT ![u] = "none"]
  /\ UNCHANGED <<asks, typePolicy, reading, ruling, unread>>
=============================================================================
