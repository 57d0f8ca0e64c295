-------------------------- MODULE GovLensInvariant --------------------------
(***************************************************************************)
(* The moves a row of access_requests can make, and the inductive          *)
(* invariants behind the safety properties: what holds always, what holds  *)
(* when statements succeed, what holds of the runs, what the remediator's  *)
(* gate relies on.                                                         *)
(***************************************************************************)
EXTENDS GovLensProperties

Acted == Statuses \ {"absent", "pending", "rejected"}

\* A worker may act on the row: it is approved, or claimed and not finished.
OnWork(i) == req[i].status \in {"approved", "processing"}

\* A grant request that an approver approved.
ApprovedGrant(i) ==
  /\ req[i].action = "grant" /\ req[i].decidedBy = "approver"
  /\ req[i].status \in Acted

ApprovedRevoke(i) == req[i].action = "revoke" /\ req[i].status \in Acted

\* A grant or governed drift whose time is up, not yet marked expired.
RanOut(i) ==
  /\ req[i].action \in {"grant", "drift"}
  /\ req[i].status = "granted" /\ req[i].expires = "past"

-----------------------------------------------------------------------------
(***************************************************************************)
(* Access and removals rest on decisions.                                  *)
(***************************************************************************)

\* What the workers hold in their lists is still what they listed.
ProvisionsApproved ==
  gwPc \in {"gate", "put", "record", "fail"} =>
    \A i \in gwBatch : ApprovedGrant(i) /\ OnWork(i)

SweepsRanOut == gwPc \in {"enqueue", "mark"} => \A i \in gwBatch : RanOut(i)

RemovesApproved == \A i \in rmBatch : ApprovedRevoke(i) /\ OnWork(i)

\* A grant is acted on only with an approver's decision on the record.
GrantsDecided ==
  \A i \in Ids : req[i].action = "grant" /\ req[i].status \in Acted => ApprovedGrant(i)

\* Every removal that is or was in the remediator's hands has its reason.
RemovalsJustified ==
  \A i \in Ids : ApprovedRevoke(i) => RemovalApproved(req[i].target)

Inv ==
  /\ TypeOK
  /\ ProvisionsApproved /\ SweepsRanOut /\ RemovesApproved
  /\ GrantsDecided /\ RemovalsJustified
  /\ AccessNeedsApproval

-----------------------------------------------------------------------------
(***************************************************************************)
(* Requests and the assignments they name.                                 *)
(***************************************************************************)

\* Row i speaks for assignment t, other than asking for its removal.
Names(i, t) == Exists(i) /\ req[i].action # "revoke" /\ req[i].target = t

\* A grant names an assignment once it is provisioned, and drift always does.
GrantsNamedLate ==
  \A i \in Ids : Exists(i) =>
    /\ req[i].action = "grant" =>
         IF req[i].status \in {"granted", "expired"}
         THEN req[i].target \in Guids ELSE req[i].target = NoTarget
    /\ req[i].action = "drift" => req[i].target \in Targets

\* Nothing is seen or named under an ident of the worker's before its PUT.
SeenWasCreated ==
  \A t \in Guids :
    t \in live \cup found.seen \cup newer.seen \cup older.seen => origin[t] # 0

NamedWasCreated == \A i \in Ids : req[i].target \in Guids => origin[req[i].target] # 0

\* The ident about to be recorded belongs to the request in hand.
RecordsItsOwn ==
  gwPc = "record" => gwIdent \in Guids /\ Current(gwBatch, origin[gwIdent])

\* What a request created has the text the tenant has for what it asked.
CreatedAsAsked ==
  \A t \in Targets : origin[t] # 0 => Label[t] = Spelling[req[origin[t]].label]

TableInv ==
  /\ Inv
  /\ GrantsNamedLate /\ SeenWasCreated /\ NamedWasCreated
  /\ RecordsItsOwn /\ CreatedAsAsked /\ OneOpenRowPerTarget

-----------------------------------------------------------------------------
(***************************************************************************)
(* When names resolve, requests and runs call an assignment what it is.    *)
(***************************************************************************)
NamesAgree ==
  /\ "names" \notin FaultKinds
  /\ \A l \in Labels : Spelling[l] = l
  /\ \A t \in Targets, l \in Labels : <<t, l>> \in Forms => l = Label[t]

RunsResolved == found.raw = {} /\ newer.raw = {} /\ older.raw = {}

RowsTellTheText ==
  \A i \in Ids : req[i].target \in Targets => req[i].label = Label[req[i].target]

\* Until it is recorded, no other request speaks for what was created.
RecordsUnnamed == gwPc = "record" => \A k \in Ids : ~Names(k, gwIdent)

NamedOnce ==
  \A i, j \in Ids, t \in Targets : Names(i, t) /\ Names(j, t) => i = j

\* The grant about to be marked expired has its removal in the queue.
SweptHasRemoval ==
  gwPc = "mark" =>
    \A i \in gwBatch : Current(gwBatch, i) => HasRemovalRequest(req[i].target)

NameInv ==
  /\ TableInv
  /\ RunsResolved /\ RowsTellTheText /\ RecordsUnnamed
  /\ NamedOnce /\ SweptHasRemoval /\ ExpiredHasRevoke

-----------------------------------------------------------------------------
(***************************************************************************)
(* When no statement fails, a claim is written before the call it is for.  *)
(***************************************************************************)
StatementsSucceed == "db" \notin FaultKinds

\* In a list, the request in hand has this status and the others are approved.
InHand(batch, status) ==
  \A i \in batch : req[i].status = IF Current(batch, i) THEN status ELSE "approved"

GrantsClaimed ==
  /\ gwPc = "gate" => InHand(gwBatch, "approved")
  /\ gwPc \in {"put", "record", "fail"} => InHand(gwBatch, "processing")

RemovalsClaimed ==
  /\ rmPc \in {"policies", "count", "gate"} => InHand(rmBatch, "approved")
  /\ rmPc \in {"delete", "done", "fail"} => InHand(rmBatch, "processing")

\* No PUT was made for a request that is not claimed, or whose PUT comes next.
ClaimPrecedesPut ==
  \A t \in Targets : origin[t] # 0 =>
    /\ req[origin[t]].status \notin {"absent", "pending", "approved"}
    /\ gwPc = "put" => ~Current(gwBatch, origin[t])

ClaimInv ==
  /\ TableInv
  /\ GrantsClaimed /\ RemovalsClaimed /\ ClaimPrecedesPut
  /\ OneAssignmentPerGrant

-----------------------------------------------------------------------------
(***************************************************************************)
(* When no response is lost either, a request always accounts for what the *)
(* grant worker created.                                                   *)
(***************************************************************************)
ResponsesArrive == "lost" \notin FaultKinds

\* A PUT that is taken to have failed has failed.
FailureIsReal ==
  gwPc = "fail" => \A t \in Targets : origin[t] # 0 => ~Current(gwBatch, origin[t])

OwnAccountedFor ==
  \A t \in Targets : origin[t] # 0 =>
    \/ req[origin[t]].status = "processing"
    \/ req[origin[t]].status \in {"granted", "expired"} /\ req[origin[t]].target = t

DriftIsThere == \A i \in Ids : req[i].action = "drift" => Exists(i)

OwnInv ==
  /\ ClaimInv /\ NameInv
  /\ FailureIsReal /\ OwnAccountedFor /\ DriftIsThere
  /\ OwnGrantsAreNotDrift

-----------------------------------------------------------------------------
(***************************************************************************)
(* Runs and drift.                                                         *)
(***************************************************************************)

\* A subscription is never missed on its own, or hides nothing that was there.
ListingsFailAsAWhole ==
  "sub" \in FaultKinds => \A t \in Existing \ Outside : Kind(t) # "rbac"

\* An assignment nobody can add again: seen later, it was seen before.
SeenSince(seen, t, run) == t \in seen /\ Kind(t) \in run.sources => t \in run.seen

OldIsSeenBefore ==
  \A t \in Existing \ Outside :
    /\ SeenSince(live, t, found) /\ SeenSince(live, t, newer)
    /\ SeenSince(found.seen, t, newer) /\ SeenSince(newer.seen, t, older)

PhantomInv == Inv /\ OldIsSeenBefore /\ NoPhantomDrift

\* The collector dies nowhere, lists every kind and gets its statements through.
CollectorCompletes == FaultKinds \subseteq {"sub", "names", "lost"}

Accounted(seen) == \A t \in seen : Reviewable(t)

\* Between storing and reconciling, the run before is the one accounted for.
RunsAccountedFor ==
  /\ newer.sources = Kinds
  /\ colPc # "reconcile" => Accounted(newer.seen)
  /\ colPc = "store" => found.sources = Kinds
  /\ colPc = "reconcile" => older.sources = Kinds /\ Accounted(older.seen)

ReviewInv == TableInv /\ RunsAccountedFor /\ OutOfBandReviewed

-----------------------------------------------------------------------------
(***************************************************************************)
(* The remediator's gate.                                                  *)
(***************************************************************************)

\* People leave Global Administrators alone, forms call them what they are, and
\* there are enough to begin with.
FloorAtStart ==
  /\ Outside \cap GlobalAdmins = {}
  /\ \A t \in GlobalAdmins, l \in Labels : <<t, l>> \in Forms => l \in AdminText
  /\ Cardinality(Existing \cap GlobalAdmins) >= MinGlobalAdmins

\* A row about a Global Administrator says that it is.
AdminRowsSaySo ==
  \A i \in Ids : req[i].target \in GlobalAdmins => req[i].label \in AdminText

IsAdminInHand == \E i \in rmBatch : Current(rmBatch, i) /\ req[i].target \in GlobalAdmins

\* gaCount exceeds the number there is by the deletions it was not told of at
\* most, once the removal in hand is counted.
CountIsSafe ==
  /\ rmPc = "done" /\ IsAdminInHand => rmAdmins - 1 <= LiveGlobalAdmins + losses
  /\ ~(rmPc = "done" /\ IsAdminInHand) => rmAdmins <= LiveGlobalAdmins + losses
  /\ rmPc = "delete" /\ IsAdminInHand => rmAdmins > MinGlobalAdmins

FloorInv == TableInv /\ AdminRowsSaySo /\ CountIsSafe /\ GlobalAdminFloor

\* The guards stay as they are while the remediator works with its copy.
PolicyIsStable == "guard" \notin PolicyChanges /\ StatementsSucceed

GateHolds ==
  /\ rmPc \in {"count", "gate", "delete", "done", "fail"} => rmGuard = guard
  /\ rmPc = "delete" => \A i \in rmBatch : Current(rmBatch, i) => ~Guarded(i)

GuardInv == NameInv /\ GateHolds

-----------------------------------------------------------------------------
(***************************************************************************)
(* What one step may do to row i.                                          *)
(***************************************************************************)
Untouched(i) == req'[i] = req[i]

Opened(i) ==
  /\ req[i].status = "absent"
  /\ \E a \in Actions, t \in Targets \cup {NoTarget}, l \in Labels :
       /\ req'[i] = NewRow(a, t, l, "pending", "nobody")
       /\ a = "grant"  => t = NoTarget
       /\ a = "revoke" => t \in Targets /\ OnDisplay(t, l) /\ ~HasOpenRow(t)
       /\ a = "drift"  => t \in OutOfBand /\ l = LabelIn(newer, t)

\* The removal copies the target and the text of the row that justifies it.
RemovalQueued(i) ==
  /\ req[i].status = "absent"
  /\ \E k \in Ids, t \in Targets \cup {NoTarget}, d \in {"nobody", "grant-expiry"} :
       /\ Exists(k) /\ req[k].target = t
       /\ req'[i] = NewRow("revoke", t, req[k].label, "approved", d)
       /\ RemovalApproved(t)'
       /\ HasOpenRow(t) => IsOpen(k) /\ ~IsOpen(k)'

Reviewed(i) ==
  /\ IsPending(i)
  /\ req'[i].decidedBy = "approver"
  /\ req'[i].action = req[i].action /\ req'[i].target = req[i].target
  /\ req'[i].label = req[i].label
  /\ req'[i].status \in IF req[i].action = "drift"
                        THEN {"approved", "rejected", "blessed", "granted"}
                        ELSE {"approved", "rejected"}

Aged(i) == req[i].expires = "ahead" /\ req'[i] = [req[i] EXCEPT !.expires = "past"]

\* The grant worker's moves of the request in hand.
Recorded(i) ==
  /\ gwPc = "record" /\ i \notin gwBatch'
  /\ req'[i].status = "granted" /\ req'[i].target = gwIdent

Handled(i) ==
  /\ \/ gwPc = "gate" /\ gwPc' = "put" /\ req'[i].status = "processing"
     \/ gwPc = "gate" /\ i \notin gwBatch' /\ req'[i].status = "skipped"
     \/ gwPc = "fail" /\ i \notin gwBatch' /\ req'[i].status = "failed"
  /\ req'[i].target = req[i].target

ProvisionMoved(i) ==
  /\ ApprovedGrant(i) /\ OnWork(i) /\ Current(gwBatch, i)
  /\ req'[i].action = "grant" /\ req'[i].decidedBy = "approver"
  /\ req'[i].label = req[i].label
  /\ Recorded(i) \/ Handled(i)

MarkedExpired(i) ==
  /\ RanOut(i) /\ gwPc = "mark" /\ Current(gwBatch, i) /\ i \notin gwBatch'
  /\ req'[i] = [req[i] EXCEPT !.status = "expired"]

\* The remediator's.
Removed(i) ==
  /\ ApprovedRevoke(i) /\ OnWork(i) /\ Current(rmBatch, i)
  /\ \E s \in {"processing", "done", "failed", "skipped"} :
       /\ req'[i] = [req[i] EXCEPT !.status = s]
       /\ IF s = "processing" THEN rmPc = "gate" /\ rmPc' = "delete" ELSE i \notin rmBatch'
       /\ s = "skipped" => rmPc = "gate"
       /\ s = "failed"  => rmPc \in {"gate", "fail"}
       /\ s = "done"    => rmPc = "done"

RowMoves(i) ==
  \/ Untouched(i) \/ Opened(i) \/ RemovalQueued(i) \/ Reviewed(i)
  \/ Aged(i) \/ ProvisionMoved(i) \/ MarkedExpired(i) \/ Removed(i)

\* Rows inserted by one step are about different assignments.
Fresh(i) == ~Exists(i) /\ Exists(i)'

FreshApart ==
  \A i, j \in Ids :
    /\ Fresh(i) /\ Fresh(j)
    /\ req'[i].target = req'[j].target /\ req'[i].target # NoTarget
    => i = j

RowsMove == (\A i \in Ids : RowMoves(i)) /\ FreshApart

RowsMoveAlways == [][RowsMove]_vars
=============================================================================
