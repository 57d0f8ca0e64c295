-------------------------- MODULE RequestLifecycle --------------------------
(***************************************************************************)
(* The life of a request as the comment on access_requests in schema.sql   *)
(* tells it: a human review, then a worker that claims an approved request *)
(* before it acts on it.  A request never goes back, is decided at most    *)
(* once, and is acted on only after an approval.  No worker acts on drift: *)
(* to keep it is to change its status, and drift approved the way removals *)
(* are stays approved.  Several requests may move in one step (a rejection *)
(* in drift review queues a removal).                                      *)
(***************************************************************************)
CONSTANT Ids

VARIABLES
  action,    \* what each request asks for
  status,    \* where it stands
  decider    \* who decided it

Lifecycle == <<action, status, decider>>

Init ==
  /\ action  = [i \in Ids |-> "revoke"]
  /\ status  = [i \in Ids |-> "absent"]
  /\ decider = [i \in Ids |-> "nobody"]

Moves(i, from, to) == status[i] \in from /\ status'[i] \in to

KeepsDecision(i) == action'[i] = action[i] /\ decider'[i] = decider[i]

\* A user or the collector opens a request for review.
Submitted(i) ==
  /\ Moves(i, {"absent"}, {"pending"})
  /\ action'[i] \in {"grant", "revoke", "drift"}
  /\ decider'[i] = "nobody"

\* A removal that needs no second review: an expired grant, a rejected drift.
Queued(i) ==
  /\ Moves(i, {"absent"}, {"approved"})
  /\ action'[i] = "revoke"
  /\ decider'[i] \in {"grant-expiry", "nobody"}

Decided(i) ==
  /\ \/ Moves(i, {"pending"}, {"approved", "rejected"})
     \/ action[i] = "drift" /\ Moves(i, {"pending"}, {"blessed", "granted"})
  /\ action'[i] = action[i]
  /\ decider'[i] = "approver"

Claimed(i) ==
  /\ action[i] # "drift"
  /\ Moves(i, {"approved"}, {"processing"})
  /\ KeepsDecision(i)

\* The worker's gate turns an approved request down.
TurnedDown(i) ==
  /\ \/ action[i] # "drift" /\ Moves(i, {"approved"}, {"skipped"})
     \/ action[i] = "revoke" /\ Moves(i, {"approved"}, {"failed"})
  /\ KeepsDecision(i)

Carried(i) ==
  /\ \/ action[i] = "grant"  /\ Moves(i, {"processing"}, {"granted", "failed"})
     \/ action[i] = "revoke" /\ Moves(i, {"processing"}, {"done", "failed"})
  /\ KeepsDecision(i)

Swept(i) ==
  /\ action[i] # "revoke"
  /\ Moves(i, {"granted"}, {"expired"})
  /\ KeepsDecision(i)

Stays(i) == status'[i] = status[i] /\ KeepsDecision(i)

Next ==
  \A i \in Ids :
    \/ Stays(i) \/ Submitted(i) \/ Queued(i) \/ Decided(i)
    \/ Claimed(i) \/ TurnedDown(i) \/ Carried(i) \/ Swept(i)

Spec == Init /\ [][Next]_Lifecycle
=============================================================================
