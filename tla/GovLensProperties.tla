-------------------------- MODULE GovLensProperties -------------------------
(***************************************************************************)
(* What the access lifecycle of GovLens promises.                          *)
(***************************************************************************)
EXTENDS GovLens

(***************************************************************************)
(* Safety                                                                  *)
(***************************************************************************)

(***************************************************************************)
(* Access that the grant worker created rests on a request an approver     *)
(* approved, and the approval is still on the record: whatever decisions,  *)
(* crashes, lost responses and failed statements come in between.          *)
(***************************************************************************)
AccessNeedsApproval ==
  \A t \in Targets : origin[t] # 0 =>
    LET r == req[origin[t]] IN
      /\ r.action = "grant"
      /\ r.decidedBy = "approver"
      /\ r.status \notin {"absent", "pending", "rejected"}

(***************************************************************************)
(* A grant request creates at most one assignment, whenever the worker     *)
(* crashes or loses a response: the claim (status 'processing') is written *)
(* before the PUT.                                                         *)
(***************************************************************************)
OneAssignmentPerGrant ==
  \A t, u \in Targets : origin[t] # 0 /\ origin[t] = origin[u] => t = u

(***************************************************************************)
(* No assignment has two open requests, although only INSERTs look at the  *)
(* index: no UPDATE of a worker or of a decision may open a second one.    *)
(***************************************************************************)
OneOpenRowPerTarget ==
  \A i, j \in Ids :
    /\ IsOpen(i) /\ IsOpen(j)
    /\ req[i].target = req[j].target /\ req[i].target # NoTarget
    => i = j

(***************************************************************************)
(* What may be removed: an approver approved its removal, rejected it in   *)
(* drift review, or its time-bound grant ran out.                          *)
(***************************************************************************)
RemovalApproved(t) ==
  \E i \in Ids :
    /\ req[i].target = t
    /\ \/ /\ req[i].action = "revoke" /\ req[i].decidedBy = "approver"
          /\ req[i].status \notin {"absent", "pending", "rejected"}
       \/ req[i].action = "drift" /\ req[i].status = "rejected"
       \/ /\ req[i].action # "revoke" /\ req[i].expires = "past"
          /\ req[i].status \in {"granted", "expired"}

\* A step of the remediator's (a portal removal leaves rmPc alone).
RemovedByRemediator(t) == t \in live /\ t \notin live' /\ rmPc' # rmPc

(***************************************************************************)
(* The remediator removes nothing else, although it acts on a list it read *)
(* before and on rows that other processes insert already approved.        *)
(***************************************************************************)
RemovalAuthorised ==
  [][\A t \in Targets : RemovedByRemediator(t) => RemovalApproved(t)]_vars

(***************************************************************************)
(* A grant is only marked expired once there is a removal request for its  *)
(* access, whatever statement fails and wherever the worker dies.  That    *)
(* request need not be the sweep's own, nor approved (ExpiredMeansQueued). *)
(* Holds when the names of own grants resolve to what they asked for.      *)
(***************************************************************************)
ExpiredHasRevoke ==
  \A i \in Ids : req[i].status = "expired" =>
    \E k \in Ids : /\ req[k].action = "revoke" /\ Exists(k)
                   /\ req[k].target = req[i].target

(***************************************************************************)
(* The number of Global Administrators never drops below the floor, except *)
(* by the deletions whose response was lost: the remediator takes those    *)
(* for failed, does not count them, and goes by a count that is too high   *)
(* for the rest of the batch.  Each costs one administrator, however many  *)
(* are still to be removed.  Holds when nobody removes them in the portal. *)
(***************************************************************************)
GlobalAdminFloor == LiveGlobalAdmins + losses >= MinGlobalAdmins

(***************************************************************************)
(* The remediator never removes an assignment that is guarded at that      *)
(* moment, although its gate knows the assignment only by the text of the  *)
(* row, which the sweep and drift review copied from rows and runs.  Holds *)
(* when names resolve and forms agree with the tenant, and guards are read *)
(* and stay as they are.                                                   *)
(***************************************************************************)
GuardedNeverRevoked ==
  [][\A t \in Targets : RemovedByRemediator(t) =>
       guard[Label[t]] = "open" /\ Label[t] \notin BreakGlass]_vars

\* The table goes through the documented life of a request.
Lifecycle == INSTANCE RequestLifecycle WITH
  action  <- [i \in Ids |-> req[i].action],
  status  <- [i \in Ids |-> req[i].status],
  decider <- [i \in Ids |-> req[i].decidedBy]

(***************************************************************************)
(* Every row follows the documented life of a request, with the workers    *)
(* writing statuses unconditionally by id: no step takes a request back,   *)
(* decides it twice or carries it out unclaimed.                           *)
(***************************************************************************)
FollowsLifecycle == Lifecycle!Spec

(***************************************************************************)
(* An assignment that has been there since the first run is never reported *)
(* as added out of band.  Holds as long as a listing fails as a whole: a   *)
(* missing source suspends the comparison.                                 *)
(***************************************************************************)
NoPhantomDrift ==
  \A i \in Ids : req[i].action = "drift" => req[i].target \notin Existing \ Outside

(***************************************************************************)
(* Once the collector has reconciled, every assignment of the latest run   *)
(* was there in the first run, or a request names it, or it passes for     *)
(* what an approved grant asked for, because it has the same text.         *)
(* Nothing else that people add in the portal escapes review.              *)
(***************************************************************************)
NamedByRequest(t) == \E i \in Ids : Exists(i) /\ req[i].target = t

PassesForGrant(t) ==
  \E i \in Ids : /\ req[i].action = "grant"
                 /\ req[i].status \notin {"absent", "pending", "rejected"}
                 /\ req[i].label \in {Label[t], RawLabel[t]}

Reviewable(t) == t \in Existing \/ NamedByRequest(t) \/ PassesForGrant(t)

OutOfBandReviewed == colPc = "idle" => \A t \in newer.seen : Reviewable(t)

(***************************************************************************)
(* What the grant worker creates is never reported as added out of band,   *)
(* although a run may see the assignment before the request names it.      *)
(* Holds as long as no response is lost, and the tenant's names for the    *)
(* assignment resolve to those the request was made with.                  *)
(***************************************************************************)
OwnGrantsAreNotDrift ==
  \A i \in Ids : req[i].action = "drift" => origin[req[i].target] = 0

-----------------------------------------------------------------------------
(***************************************************************************)
(* Liveness, under FairSpec                                                *)
(***************************************************************************)

(***************************************************************************)
(* No approved grant or removal is forgotten, on whichever page it was     *)
(* approved and however often its worker dies, loses a response or fails   *)
(* to write: the worker's next cycle lists it again.  Drift approved on    *)
(* the page of removals is listed by no worker.                            *)
(***************************************************************************)
ApprovedIsTakenUp ==
  \A i \in Ids : (req[i].status = "approved" /\ req[i].action # "drift")
                  ~> req[i].status # "approved"

(***************************************************************************)
(* A grant that ran out is swept, whatever fails in between.               *)
(***************************************************************************)
ExpiryIsSwept ==
  \A i \in Ids : (req[i].status = "granted" /\ req[i].expires = "past")
                  ~> req[i].status = "expired"

HasRemovalRequest(t) ==
  \E k \in Ids : Exists(k) /\ req[k].action = "revoke" /\ req[k].target = t

(***************************************************************************)
(* When a grant's time is up, the access it created ends, or at least its  *)
(* removal is in the queue.                                                *)
(***************************************************************************)
TimeBoundAccessIsSwept ==
  \A t \in Targets :
    (t \in live /\ origin[t] # 0 /\ req[origin[t]].expires = "past")
      ~> (t \notin live \/ HasRemovalRequest(t))

(***************************************************************************)
(* An expired grant's removal has been approved, so the remediator takes   *)
(* it up: what "expired - revocation queued" tells the reader.             *)
(***************************************************************************)
ExpiredMeansQueued ==
  \A i \in Ids : req[i].status = "expired" =>
    \E k \in Ids : /\ req[k].action = "revoke" /\ req[k].target = req[i].target
                   /\ req[k].status \notin {"absent", "pending", "rejected"}
=============================================================================
