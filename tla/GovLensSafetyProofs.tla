------------------------- MODULE GovLensSafetyProofs ------------------------
(***************************************************************************)
(* AccessNeedsApproval and RemovalAuthorised.  Every step moves each row   *)
(* of the table in one of the ways RowMoves lists (one lemma per           *)
(* component); the invariant follows from these moves alone and from what  *)
(* the workers do with their lists.                                        *)
(***************************************************************************)
EXTENDS GovLensTypeProofs

\* A row written by id: the others stay, and so may this one.
LEMMA WriteMoves ==
  ASSUME TableTypeOK, NEW i \in Ids, NEW row, Write(i, row)
  PROVE  /\ \A j \in Ids \ {i} : Untouched(j)
         /\ Untouched(i) \/ req'[i] = row
BY DEF Write, TableTypeOK, Untouched

\* The same for a status the workers write.
LEMMA StatusMoves ==
  ASSUME TableTypeOK, NEW i \in Ids, NEW s, SetRequestStatus(i, s)
  PROVE  /\ \A j \in Ids \ {i} : Untouched(j)
         /\ Untouched(i) \/ req'[i] = [req[i] EXCEPT !.status = s]
BY WriteMoves DEF SetRequestStatus

\* An insert fills one absent row and leaves the others alone.
LEMMA InsertMoves ==
  ASSUME TableTypeOK, NEW i \in Ids, NEW row, Insert(i, row)
  PROVE  /\ req[i].status = "absent"
         /\ req'[i] = row
         /\ \A j \in Ids \ {i} : Untouched(j)
BY DEF Insert, IsNextId, Exists, TableTypeOK, Untouched

-----------------------------------------------------------------------------
\* A step that moves one row, and does not insert it, moves the table.
LEMMA OneRowMoves ==
  ASSUME NEW i \in Ids, RowMoves(i), ~Fresh(i), \A j \in Ids \ {i} : Untouched(j)
  PROVE  RowsMove
<1>1. \A j \in Ids : RowMoves(j)
  BY DEF RowMoves
<1>2. \A j \in Ids : ~Fresh(j)
  BY DEF Fresh, Exists, Untouched
<1> QED  BY <1>1, <1>2 DEF RowsMove, FreshApart

\* So does a step that inserts one row.
LEMMA OneInsertMoves ==
  ASSUME NEW i \in Ids, RowMoves(i), \A j \in Ids \ {i} : RowMoves(j) /\ ~Fresh(j)
  PROVE  RowsMove
<1>1. \A j, k \in Ids : Fresh(j) /\ Fresh(k) => j = k
  OBVIOUS
<1> QED  BY <1>1 DEF RowsMove, FreshApart

\* And one that leaves the table alone.
LEMMA NoRowMoves ==
  ASSUME UNCHANGED req
  PROVE  RowsMove
BY DEF RowsMove, RowMoves, Untouched, FreshApart, Fresh, Exists

-----------------------------------------------------------------------------
\* A submission opens a row for review.
LEMMA SubmitMoves ==
  ASSUME TableTypeOK, NEW a \in {"grant", "revoke"}, NEW t \in Targets \cup {NoTarget},
         NEW l \in Labels,
         a = "grant" => t = NoTarget,
         a = "revoke" => t \in Targets /\ OnDisplay(t, l) /\ ~HasOpenRow(t),
         Submit(NewRow(a, t, l, "pending", "nobody"))
  PROVE  RowsMove
<1> DEFINE row == NewRow(a, t, l, "pending", "nobody")
<1>1. PICK i \in Ids : Insert(i, row)
  BY DEF Submit
<1>2. req[i].status = "absent" /\ req'[i] = row /\ \A j \in Ids \ {i} : Untouched(j)
  <2> HIDE DEF row
  <2> QED  BY <1>1, InsertMoves
<1>3. Opened(i)
  BY <1>2 DEF Opened, Actions
<1>4. \A j \in Ids \ {i} : RowMoves(j) /\ ~Fresh(j)
  BY <1>2 DEF RowMoves, Untouched, Fresh, Exists
<1> QED  BY <1>3, <1>4, OneInsertMoves DEF RowMoves

\* A decision reviews its row.
LEMMA DecisionMoves ==
  ASSUME TableTypeOK, NEW i \in Ids, IsPending(i),
         NEW s \in IF req[i].action = "drift"
                 THEN {"approved", "rejected", "blessed", "granted"}
                 ELSE {"approved", "rejected"},
         NEW e \in Expiries \cup {req[i].expires},
         req' = [req EXCEPT ![i] = [Decided(i, s) EXCEPT !.expires = e]]
  PROVE  RowsMove
<1>1. Reviewed(i)
  BY DEF Reviewed, IsPending, Decided, TableTypeOK, Row
<1>2. \A j \in Ids \ {i} : Untouched(j)
  BY DEF Untouched, TableTypeOK
<1> QED  BY <1>1, <1>2, OneRowMoves DEF RowMoves, Fresh, Exists, IsPending

\* Rejecting drift reviews one row and queues the removal it justifies.
LEMMA RejectDriftMoves ==
  ASSUME TableTypeOK, NEW i \in OnPage("drift"), RejectDrift(i)
  PROVE  RowsMove
<1>1. i \in Ids /\ req[i].status = "pending" /\ req[i].action = "drift"
  BY DEF OnPage, RejectDrift, IsPending
<1>2. PICK k \in Ids :
        /\ IsNextId(k)
        /\ req' = [req EXCEPT ![i] = Decided(i, "rejected"),
                              ![k] = NewRow("revoke", req[i].target, req[i].label, "approved", "nobody")]
  BY DEF RejectDrift
<1>3. k # i /\ req[k].status = "absent"
  BY <1>1, <1>2 DEF IsNextId, Exists
<1>4. /\ req'[i] = Decided(i, "rejected")
      /\ req'[k] = NewRow("revoke", req[i].target, req[i].label, "approved", "nobody")
      /\ \A j \in Ids \ {i, k} : Untouched(j)
  BY <1>1, <1>2, <1>3 DEF TableTypeOK, Untouched
<1>5. /\ req'[i].target = req[i].target /\ req'[i].action = "drift"
      /\ req'[i].label = req[i].label
      /\ req'[i].status = "rejected" /\ req'[i].decidedBy = "approver"
  BY <1>1, <1>4 DEF Decided, TableTypeOK, Row
<1>6. Reviewed(i)
  BY <1>1, <1>5 DEF Reviewed, IsPending
<1>7. RemovalQueued(k)
  <2>1. PICK t \in Targets \cup {NoTarget} : t = req[i].target
    BY <1>1 DEF TableTypeOK, Row
  <2>2. RemovalApproved(t)'
    BY <1>1, <1>5, <2>1 DEF RemovalApproved
  <2>3. Exists(i) /\ IsOpen(i) /\ ~IsOpen(i)'
    BY <1>1, <1>5 DEF Exists, IsOpen, OpenStatuses
  <2> QED  BY <1>1, <1>3, <1>4, <2>1, <2>2, <2>3 DEF RemovalQueued
<1>8. \A j \in Ids \ {k} : RowMoves(j) /\ ~Fresh(j)
  BY <1>1, <1>4, <1>6 DEF RowMoves, Fresh, Exists, Untouched
<1> QED  BY <1>7, <1>8, OneInsertMoves DEF RowMoves

\* The web application moves rows by these steps only.
LEMMA ReviewMoves ==
  ASSUME TypeOK, Review
  PROVE  RowsMove
<1> USE DEF TypeOK
<1>1. CASE RequestSubmit
  <2>1. PICK l \in Labels : Submit(NewRow("grant", NoTarget, l, "pending", "nobody"))
    BY <1>1, ReviewAssumption DEF RequestSubmit
  <2> QED  BY <2>1, SubmitMoves
<1>2. CASE Mark
  <2>1. PICK t \in Targets, l \in Labels : OnDisplay(t, l) /\ RevokeMark(t, l)
    BY <1>2 DEF Mark
  <2>2. Submit(NewRow("revoke", t, l, "pending", "nobody")) /\ ~HasOpenRow(t)
    BY <2>1 DEF RevokeMark
  <2> QED  BY <2>1, <2>2, SubmitMoves
<1>3. ASSUME NEW i \in Ids, NEW s \in Statuses
      PROVE  Decided(i, s) = [Decided(i, s) EXCEPT !.expires = req[i].expires]
  BY DEF TableTypeOK, Row, Decided
<1>4. ASSUME NEW i \in OnPage("grant"), DecideGrantRequest(i)
      PROVE  RowsMove
  <2>1. i \in Ids /\ IsPending(i) /\ req[i].action = "grant"
    BY <1>4 DEF OnPage, DecideGrantRequest
  <2>2. CASE req' = [req EXCEPT ![i] = Decided(i, "rejected")]
    BY <1>3, <2>1, <2>2, DecisionMoves DEF Statuses
  <2>3. ASSUME NEW e \in {"none", "ahead"},
               req' = [req EXCEPT ![i] = [Decided(i, "approved") EXCEPT !.expires = e]]
        PROVE  RowsMove
    BY <2>1, <2>3, DecisionMoves DEF Statuses, Expiries
  <2> QED  BY <1>4, <2>2, <2>3 DEF DecideGrantRequest, UpdateRow
<1>5. ASSUME NEW i \in Ids, DecideRevokeRequest(i)
      PROVE  RowsMove
  <2>1. IsPending(i)
    BY <1>5 DEF DecideRevokeRequest
  <2>2. PICK s \in {"approved", "rejected"} : req' = [req EXCEPT ![i] = Decided(i, s)]
    BY <1>5 DEF DecideRevokeRequest, UpdateRow
  <2>3. req' = [req EXCEPT ![i] = [Decided(i, s) EXCEPT !.expires = req[i].expires]]
    BY <1>3, <2>2 DEF Statuses
  <2>4. req[i].expires \in Expiries \cup {req[i].expires}
    OBVIOUS
  <2>5. s \in IF req[i].action = "drift" THEN {"approved", "rejected", "blessed", "granted"}
              ELSE {"approved", "rejected"}
    BY <2>2
  <2> QED  BY <2>1, <2>3, <2>4, <2>5, DecisionMoves
<1>6. ASSUME NEW i \in OnPage("drift"), KeepDrift(i)
      PROVE  RowsMove
  <2>1. i \in Ids /\ IsPending(i) /\ req[i].action = "drift"
    BY <1>6 DEF OnPage, KeepDrift
  <2>2. CASE req' = [req EXCEPT ![i] = Decided(i, "blessed")]
    BY <1>3, <2>1, <2>2, DecisionMoves DEF Statuses
  <2>3. CASE req' = [req EXCEPT ![i] = [Decided(i, "granted") EXCEPT !.expires = "ahead"]]
    BY <2>1, <2>3, DecisionMoves DEF Statuses, Expiries
  <2> QED  BY <1>6, <2>2, <2>3 DEF KeepDrift, UpdateRow
<1>7. ASSUME NEW i \in OnPage("drift"), RejectDrift(i)
      PROVE  RowsMove
  BY <1>7, RejectDriftMoves
<1> QED  BY <1>1, <1>2, <1>4, <1>5, <1>6, <1>7 DEF Review, ReviewNext

-----------------------------------------------------------------------------
\* The grant worker provisions what it listed.
LEMMA GwStatusMoves ==
  ASSUME TypeOK, ProvisionsApproved, NEW i \in gwBatch, Current(gwBatch, i),
         NEW s \in {"processing", "failed", "skipped"},
         SetRequestStatus(i, s) \/ req' = [req EXCEPT ![i].status = s],
         \/ gwPc = "gate" /\ gwPc' = "put" /\ s = "processing"
         \/ gwPc = "gate" /\ i \notin gwBatch' /\ s = "skipped"
         \/ gwPc = "fail" /\ i \notin gwBatch' /\ s = "failed"
  PROVE  RowsMove
<1>1. i \in Ids
  BY DEF TypeOK, GwTypeOK
<1>2. TableTypeOK
  BY DEF TypeOK
<1>3. ApprovedGrant(i) /\ OnWork(i)
  BY DEF ProvisionsApproved
<1>4. /\ \A j \in Ids \ {i} : Untouched(j)
      /\ Untouched(i) \/ req'[i] = [req[i] EXCEPT !.status = s]
  BY <1>1, <1>2, StatusMoves DEF TableTypeOK, Untouched
<1>5. CASE req'[i] = [req[i] EXCEPT !.status = s]
  <2>1. /\ req'[i].action = req[i].action /\ req'[i].target = req[i].target
        /\ req'[i].label = req[i].label /\ req'[i].decidedBy = req[i].decidedBy /\ req'[i].status = s
    BY <1>1, <1>2, <1>5 DEF TableTypeOK, Row
  <2>2. Handled(i)
    BY <2>1 DEF Handled
  <2>3. ProvisionMoved(i)
    BY <1>3, <2>1, <2>2 DEF ProvisionMoved, ApprovedGrant
  <2> QED  BY <1>1, <1>3, <1>4, <2>3, OneRowMoves DEF RowMoves, Fresh, Exists, OnWork
<1>6. CASE Untouched(i)
  BY <1>1, <1>4, <1>6, OneRowMoves DEF RowMoves, Fresh, Exists, Untouched
<1> QED  BY <1>4, <1>5, <1>6

\* Recording the ident ends the worker's hold on the row.
LEMMA GwRecordMoves ==
  ASSUME TypeOK, ProvisionsApproved, NEW i \in gwBatch, GwRecord(i)
  PROVE  RowsMove
<1> DEFINE row == [req[i] EXCEPT !.status = "granted", !.target = gwIdent]
<1>1. i \in Ids /\ TableTypeOK
  BY DEF TypeOK, GwTypeOK
<1>2. ApprovedGrant(i) /\ OnWork(i)
  BY DEF ProvisionsApproved, GwRecord
<1>3. /\ \A j \in Ids \ {i} : Untouched(j)
      /\ Untouched(i) \/ req'[i] = row
  <2>1. Write(i, row)
    BY DEF GwRecord, SetGrantProvisioned
  <2> HIDE DEF row
  <2> QED  BY <1>1, <2>1, WriteMoves
<1>4. CASE req'[i] = row
  <2>1. /\ row.status = "granted" /\ row.action = req[i].action
        /\ row.label = req[i].label
        /\ row.decidedBy = req[i].decidedBy /\ row.target = gwIdent
    BY <1>1 DEF TableTypeOK, Row
  <2>2. i \notin gwBatch' /\ gwPc = "record" /\ Current(gwBatch, i)
    BY DEF GwRecord
  <2> HIDE DEF row
  <2>3. ProvisionMoved(i)
    BY <1>2, <1>4, <2>1, <2>2 DEF ProvisionMoved, ApprovedGrant, Recorded
  <2> QED  BY <1>1, <1>2, <1>3, <2>3, OneRowMoves DEF RowMoves, Fresh, Exists, OnWork
<1>5. CASE Untouched(i)
  BY <1>1, <1>3, <1>5, OneRowMoves DEF RowMoves, Fresh, Exists, Untouched
<1> QED  BY <1>3, <1>4, <1>5

\* The removal of a grant that ran out is queued with its reason.
LEMMA GwEnqueueMoves ==
  ASSUME TypeOK, SweepsRanOut, NEW i \in gwBatch, GwEnqueue(i)
  PROVE  RowsMove
<1> DEFINE row == NewRow("revoke", req[i].target, req[i].label, "approved", "grant-expiry")
<1>1. i \in Ids /\ TableTypeOK
  BY DEF TypeOK, GwTypeOK
<1>2. RanOut(i)
  BY DEF SweepsRanOut, GwEnqueue
<1>3. CASE UNCHANGED req
  BY <1>3, NoRowMoves
<1>4. ASSUME NEW k \in Ids, Insert(k, row), ~HasOpenRow(req[i].target)
      PROVE  RowsMove
  <2>1. /\ req[k].status = "absent" /\ req'[k] = row
        /\ \A j \in Ids \ {k} : Untouched(j)
    <3> HIDE DEF row
    <3> QED  BY <1>1, <1>4, InsertMoves
  <2>2. req'[i] = req[i]
    BY <1>1, <1>2, <2>1 DEF RanOut, Untouched
  <2>3. req[i].target \in Targets \cup {NoTarget}
    BY <1>1 DEF TableTypeOK, Row
  <2>4. PICK t : t = req[i].target
    OBVIOUS
  <2>5. RemovalApproved(t)'
    BY <1>1, <1>2, <2>2, <2>4 DEF RemovalApproved, RanOut
  <2>6. Exists(i)
    BY <1>2 DEF RanOut, Exists
  <2>7. RemovalQueued(k)
    BY <1>1, <1>4, <2>1, <2>3, <2>4, <2>5, <2>6 DEF RemovalQueued
  <2>8. \A j \in Ids \ {k} : RowMoves(j) /\ ~Fresh(j)
    BY <2>1 DEF RowMoves, Untouched, Fresh, Exists
  <2> QED  BY <2>7, <2>8, OneInsertMoves DEF RowMoves
<1>5. row.target = req[i].target
  BY DEF NewRow
<1> QED  BY <1>3, <1>4, <1>5 DEF GwEnqueue, EnqueueExpiryRevoke, InsertUnlessOpen

\* A swept grant is marked expired and leaves the list.
LEMMA GwMarkMoves ==
  ASSUME TypeOK, SweepsRanOut, NEW i \in gwBatch, GwMark(i)
  PROVE  RowsMove
<1>1. i \in Ids /\ TableTypeOK
  BY DEF TypeOK, GwTypeOK
<1>2. RanOut(i) /\ gwPc = "mark" /\ Current(gwBatch, i) /\ i \notin gwBatch'
  BY DEF SweepsRanOut, GwMark, GwGoto
<1>3. /\ \A j \in Ids \ {i} : Untouched(j)
      /\ Untouched(i) \/ req'[i] = [req[i] EXCEPT !.status = "expired"]
  BY <1>1, StatusMoves DEF GwMark, MarkGrantExpired
<1>4. RowMoves(i)
  BY <1>2, <1>3 DEF RowMoves, MarkedExpired
<1> QED  BY <1>1, <1>2, <1>3, <1>4, OneRowMoves DEF RanOut, Fresh, Exists

\* The grant worker moves rows by these steps only.
LEMMA ProvisionMoves ==
  ASSUME TypeOK, ProvisionsApproved, SweepsRanOut, Provision
  PROVE  RowsMove
<1>1. CASE UNCHANGED req
  BY <1>1, NoRowMoves
<1>2. ASSUME NEW i \in gwBatch, GwSkip(i) \/ GwSkipUnread(i) \/ GwClaim(i) \/ GwFail(i)
      PROVE  RowsMove
  BY <1>2, GwStatusMoves DEF GwSkip, GwSkipUnread, GwClaim, GwFail, GwGoto
<1>3. ASSUME NEW i \in gwBatch, GwRecord(i) \/ GwEnqueue(i) \/ GwMark(i)
      PROVE  RowsMove
  BY <1>3, GwRecordMoves, GwEnqueueMoves, GwMarkMoves
<1>4. CASE GwPutStep \/ GwCrash
  BY <1>1, <1>4 DEF GwPutStep, GwPut, GwPutRefused, GwPutLost, GwCrash
<1>5. CASE GwQueueStep
  BY <1>1, <1>2, <1>3, <1>5
  DEF GwQueueStep, GwProbeOk, GwProbeFail, GwList, GwProvisioned, GwExpired, GwSwept
<1> QED  BY <1>4, <1>5 DEF Provision, GwNext, GwStep

-----------------------------------------------------------------------------
\* The remediator only writes the status of what it listed.
LEMMA RmStatusMoves ==
  ASSUME TypeOK, RemovesApproved, NEW i \in rmBatch, Current(rmBatch, i),
         NEW s \in {"processing", "done", "failed", "skipped"}, SetRequestStatus(i, s),
         IF s = "processing" THEN rmPc = "gate" /\ rmPc' = "delete" ELSE i \notin rmBatch',
         s = "skipped" => rmPc = "gate",
         s = "failed"  => rmPc \in {"gate", "fail"},
         s = "done"    => rmPc = "done"
  PROVE  RowsMove
<1>1. i \in Ids /\ TableTypeOK
  BY DEF TypeOK, RmTypeOK
<1>2. ApprovedRevoke(i) /\ OnWork(i)
  BY DEF RemovesApproved
<1>3. /\ \A j \in Ids \ {i} : Untouched(j)
      /\ Untouched(i) \/ req'[i] = [req[i] EXCEPT !.status = s]
  BY <1>1, StatusMoves
<1>4. RowMoves(i)
  BY <1>2, <1>3 DEF RowMoves, Removed
<1> QED  BY <1>1, <1>2, <1>3, <1>4, OneRowMoves DEF OnWork, Fresh, Exists

\* The remediator moves rows by these steps only.
LEMMA RemediateMoves ==
  ASSUME TypeOK, RemovesApproved, Remediate
  PROVE  RowsMove
<1>1. CASE UNCHANGED req
  BY <1>1, NoRowMoves
<1>2. ASSUME NEW i \in rmBatch,
             RmSkip(i) \/ RmUnverified(i) \/ RmClaim(i) \/ RmDone(i) \/ RmFail(i)
      PROVE  RowsMove
  BY <1>2, RmStatusMoves DEF RmSkip, RmUnverified, RmClaim, RmDone, RmFail, RmGoto
<1>3. CASE RmDeleteStep \/ RmCrash
  BY <1>1, <1>3 DEF RmDeleteStep, RmDelete, RmDeleteRefused, RmDeleteLost, RmCrash
<1>4. CASE RmQueueStep
  BY <1>1, <1>2, <1>4 DEF RmQueueStep, RmList, RmPolicies, RmCount, RmFinish
<1> QED  BY <1>3, <1>4 DEF Remediate, RmNext, RmStep

-----------------------------------------------------------------------------
\* The collector only opens rows for review.
LEMMA CollectMoves ==
  ASSUME TypeOK, Collect
  PROVE  RowsMove
<1>1. CASE UNCHANGED req
  BY <1>1, NoRowMoves
<1>2. CASE InsertDrift(OutOfBand)
  <2>1. PICK new \in SUBSET Ids : \E pick \in [new -> OutOfBand] :
          /\ AreNextIds(new)
          /\ \A i, j \in new : pick[i] = pick[j] => i = j
          /\ req' = [i \in Ids |-> IF i \in new
                                   THEN NewRow("drift", pick[i], LabelIn(newer, pick[i]),
                                               "pending", "nobody")
                                   ELSE req[i]]
    BY <1>2 DEF InsertDrift
  <2>2. PICK pick \in [new -> OutOfBand] :
          /\ AreNextIds(new)
          /\ \A i, j \in new : pick[i] = pick[j] => i = j
          /\ req' = [i \in Ids |-> IF i \in new
                                   THEN NewRow("drift", pick[i], LabelIn(newer, pick[i]),
                                               "pending", "nobody")
                                   ELSE req[i]]
    BY <2>1
  <2>3. \A t \in OutOfBand : t \in Targets
    BY DEF OutOfBand, TypeOK, ColTypeOK, Run
  <2>4. ASSUME NEW i \in new
        PROVE  /\ req[i].status = "absent"
               /\ req'[i] = NewRow("drift", pick[i], LabelIn(newer, pick[i]),
                                     "pending", "nobody")
               /\ pick[i] \in OutOfBand /\ pick[i] \in Targets
               /\ LabelIn(newer, pick[i]) \in Labels
    BY <2>2, <2>3, <2>4, AzureAssumption DEF AreNextIds, Exists, LabelIn
  <2>5. ASSUME NEW i \in new
        PROVE  RowMoves(i)
    BY <2>4, <2>5 DEF Opened, RowMoves, Actions
  <2>6. ASSUME NEW i \in Ids \ new
        PROVE  RowMoves(i) /\ ~Fresh(i)
    BY <2>2, <2>6 DEF RowMoves, Untouched, Fresh, Exists
  <2>7. \A i, j \in new : req'[i].target = req'[j].target => i = j
    BY <2>2, <2>4 DEF NewRow
  <2> QED  BY <2>5, <2>6, <2>7 DEF RowsMove, FreshApart
<1> QED
  BY <1>1, <1>2 DEF Collect, ColNext, ColStep, ColRead, ReplaceRun, ReconcileDrift, ColCrash

\* Every step of the system moves every row by one of these steps.
LEMMA StepMoves ==
  ASSUME TypeOK, ProvisionsApproved, SweepsRanOut, RemovesApproved, [Next]_vars
  PROVE  RowsMove
<1>1. CASE UNCHANGED req
  BY <1>1, NoRowMoves
<1>2. ASSUME NEW i \in Ids, Expire(i)
      PROVE  RowsMove
  <2>1. Aged(i) /\ \A j \in Ids \ {i} : Untouched(j)
    BY <1>2 DEF Expire, ReachExpiry, TypeOK, TableTypeOK, Untouched, Aged
  <2>2. ~Fresh(i)
    BY <2>1 DEF Aged, Fresh, Exists, TypeOK, TableTypeOK, Row
  <2> QED  BY <2>1, <2>2, OneRowMoves DEF RowMoves
<1>3. CASE Administer \/ Portal \/ UNCHANGED vars
  BY <1>1, <1>3 DEF Administer, Portal, vars
<1> QED
  BY <1>2, <1>3, ReviewMoves, ProvisionMoves, RemediateMoves, CollectMoves DEF Next

-----------------------------------------------------------------------------
(***************************************************************************)
(* What the moves of the rows preserve.                                    *)
(***************************************************************************)
USE DEF RowMoves, Untouched, Opened, RemovalQueued, Reviewed, Aged, ProvisionMoved, Handled,
        Recorded, MarkedExpired, Removed, NewRow, OnWork, IsPending

\* A grant request, once approved, stays approved.
LEMMA GrantStaysApproved ==
  ASSUME TypeOK, NEW i \in Ids, RowMoves(i), ApprovedGrant(i)
  PROVE  ApprovedGrant(i)'
BY DEF TypeOK, TableTypeOK, Row, ApprovedGrant, ApprovedRevoke, RanOut, Acted, Statuses

\* So does a removal.
LEMMA RevokeStaysApproved ==
  ASSUME TypeOK, NEW i \in Ids, RowMoves(i), ApprovedRevoke(i)
  PROVE  ApprovedRevoke(i)' /\ req'[i].target = req[i].target
BY DEF TypeOK, TableTypeOK, Row, ApprovedGrant, ApprovedRevoke, RanOut, Acted, Statuses

\* The reason for a removal never goes away.
LEMMA ReasonStays ==
  ASSUME TypeOK, RowsMove, NEW t, RemovalApproved(t)
  PROVE  RemovalApproved(t)'
<1>1. PICK i \in Ids :
        /\ req[i].target = t
        /\ \/ /\ req[i].action = "revoke" /\ req[i].decidedBy = "approver"
              /\ req[i].status \notin {"absent", "pending", "rejected"}
           \/ req[i].action = "drift" /\ req[i].status = "rejected"
           \/ /\ req[i].action # "revoke" /\ req[i].expires = "past"
              /\ req[i].status \in {"granted", "expired"}
  BY DEF RemovalApproved
<1>2. RowMoves(i)
  BY DEF RowsMove
<1>3. /\ req'[i].target = t
      /\ \/ /\ req'[i].action = "revoke" /\ req'[i].decidedBy = "approver"
            /\ req'[i].status \notin {"absent", "pending", "rejected"}
         \/ req'[i].action = "drift" /\ req'[i].status = "rejected"
         \/ /\ req'[i].action # "revoke" /\ req'[i].expires = "past"
            /\ req'[i].status \in {"granted", "expired"}
  BY <1>1, <1>2
  DEF TypeOK, TableTypeOK, Row, ApprovedGrant, ApprovedRevoke, RanOut, Acted, Statuses
<1> QED  BY <1>3 DEF RemovalApproved

\* No step makes a grant acted on without its decision.
LEMMA GrantsDecidedStep ==
  ASSUME TypeOK, TypeOK', GrantsDecided, RowsMove
  PROVE  GrantsDecided'
<1> SUFFICES ASSUME NEW i \in Ids, (req[i].action = "grant" /\ req[i].status \in Acted)'
             PROVE  ApprovedGrant(i)'
  BY DEF GrantsDecided
<1>1. RowMoves(i)
  BY DEF RowsMove
<1>2. CASE ApprovedGrant(i)
  BY <1>1, <1>2, GrantStaysApproved
<1>3. CASE ~ApprovedGrant(i)
  <2>1. ~(req[i].action = "grant" /\ req[i].status \in Acted)
    BY <1>3 DEF GrantsDecided
  <2> QED
    BY <1>1, <1>3, <2>1
    DEF TypeOK, TableTypeOK, Row, ApprovedGrant, ApprovedRevoke, RanOut, Acted, Statuses
<1> QED  BY <1>2, <1>3

\* No step makes a removal acted on without its reason.
LEMMA RemovalsJustifiedStep ==
  ASSUME TypeOK, TypeOK', RemovalsJustified, RowsMove
  PROVE  RemovalsJustified'
<1> SUFFICES ASSUME NEW i \in Ids, ApprovedRevoke(i)'
             PROVE  RemovalApproved(req[i].target)'
  BY DEF RemovalsJustified
<1>1. RowMoves(i)
  BY DEF RowsMove
<1>2. CASE ApprovedRevoke(i)
  <2>1. RemovalApproved(req[i].target)
    BY <1>2 DEF RemovalsJustified
  <2>2. req'[i].target = req[i].target
    BY <1>1, <1>2, RevokeStaysApproved
  <2>3. PICK t : t = req[i].target
    OBVIOUS
  <2>4. RemovalApproved(t)'
    BY <2>1, <2>3, ReasonStays
  <2> QED  BY <2>2, <2>3, <2>4 DEF RemovalApproved
<1>3. CASE ~ApprovedRevoke(i)
  <2>1. CASE RemovalQueued(i)
    BY <2>1 DEF RemovalApproved
  <2>2. CASE Reviewed(i)
    BY <2>2 DEF RemovalApproved, ApprovedRevoke, Acted
  <2>3. ~(\/ Untouched(i) \/ Opened(i) \/ Aged(i) \/ ProvisionMoved(i)
          \/ MarkedExpired(i) \/ Removed(i))
    BY <1>3 DEF TypeOK, TableTypeOK, Row, ApprovedGrant, ApprovedRevoke, RanOut, Acted, Statuses
  <2> QED  BY <1>1, <2>1, <2>2, <2>3
<1> QED  BY <1>2, <1>3

-----------------------------------------------------------------------------
(***************************************************************************)
(* What the workers do with their lists.                                   *)
(***************************************************************************)
Provisioning == {"gate", "put", "record", "fail"}
Sweeping     == {"enqueue", "mark"}

\* A list only shrinks, except when it is read anew.
GwListMoves ==
  \/ /\ gwBatch' \subseteq gwBatch
     /\ gwPc' \in Provisioning => gwPc \in Provisioning
     /\ gwPc' \in Sweeping => gwPc \in Sweeping
  \/ /\ UNCHANGED req /\ gwPc' = "gate"
     /\ gwBatch' = ListByStatus("grant", "approved")
  \/ UNCHANGED req /\ gwPc' = "enqueue" /\ gwBatch' = ExpiredGrants

\* How a step changes the grant worker's list: kept, emptied, shortened or read anew.
LEMMA GwStepLists ==
  ASSUME [Next]_vars
  PROVE  GwListMoves
<1>1. CASE UNCHANGED gwVars
  BY <1>1 DEF gwVars, GwListMoves
<1>2. CASE Provision
  <2>1. CASE GwPutStep \/ GwCrash
    BY <2>1 DEF GwPutStep, GwPut, GwPutRefused, GwPutLost, GwCrash, GwGoto,
                GwListMoves, Provisioning, Sweeping
  <2>2. CASE GwList \/ GwExpired
    BY <2>2 DEF GwList, GwExpired, GwGoto, GwListMoves, Provisioning, Sweeping
  <2>3. CASE GwProbeOk \/ GwProbeFail \/ GwProvisioned \/ GwSwept
    BY <2>3 DEF GwProbeOk, GwProbeFail, GwProvisioned, GwSwept, GwGoto,
                GwListMoves, Provisioning, Sweeping
  <2>4. ASSUME NEW i \in gwBatch,
               \/ GwSkip(i) \/ GwSkipUnread(i) \/ GwClaim(i) \/ GwRecord(i) \/ GwFail(i)
               \/ GwEnqueue(i) \/ GwMark(i)
        PROVE  GwListMoves
    BY <2>4 DEF GwSkip, GwSkipUnread, GwClaim, GwRecord, GwFail, GwEnqueue, GwMark, GwGoto,
                GwListMoves, Provisioning, Sweeping
  <2> QED  BY <1>2, <2>1, <2>2, <2>3, <2>4 DEF Provision, GwNext, GwStep, GwQueueStep
<1> QED
  BY <1>1, <1>2
  DEF Next, Review, Administer, Remediate, Collect, Portal, Expire, vars

\* The same for the remediator's.
LEMMA RmStepLists ==
  ASSUME [Next]_vars
  PROVE  \/ rmBatch' \subseteq rmBatch
         \/ UNCHANGED req /\ rmBatch' = ListByStatus("revoke", "approved")
<1>1. CASE UNCHANGED rmVars
  BY <1>1 DEF rmVars
<1>2. CASE Remediate
  BY <1>2 DEF Remediate, RmNext, RmStep, RmDeleteStep, RmQueueStep, RmDelete,
              RmDeleteRefused, RmDeleteLost, RmList, RmPolicies, RmCount, RmFinish,
              RmSkip, RmUnverified, RmClaim, RmDone, RmFail, RmCrash, RmGoto
<1> QED
  BY <1>1, <1>2
  DEF Next, Review, Administer, Provision, Collect, Portal, Expire, vars

\* The list to provision stays approved while others write.
LEMMA ProvisionsApprovedStep ==
  ASSUME TypeOK, ProvisionsApproved, GrantsDecided, RowsMove, GwListMoves
  PROVE  ProvisionsApproved'
<1> SUFFICES ASSUME gwPc' \in Provisioning, NEW i \in gwBatch'
             PROVE  (ApprovedGrant(i) /\ req[i].status \in {"approved", "processing"})'
  BY DEF ProvisionsApproved, Provisioning
<1>1. CASE gwBatch' = ListByStatus("grant", "approved") /\ UNCHANGED req
  BY <1>1 DEF ListByStatus, GrantsDecided, ApprovedGrant, Acted, Statuses
<1>2. CASE i \in gwBatch /\ gwPc \in Provisioning
  <2>1. ApprovedGrant(i) /\ req[i].status \in {"approved", "processing"}
    BY <1>2 DEF ProvisionsApproved, Provisioning
  <2>2. i \in Ids /\ RowMoves(i)
    BY <1>2 DEF TypeOK, GwTypeOK, RowsMove
  <2>3. ApprovedGrant(i)'
    BY <2>1, <2>2, GrantStaysApproved
  <2>4. req'[i].status \in {"approved", "processing"}
    BY <2>1, <2>2
    DEF TypeOK, TableTypeOK, Row, ApprovedGrant, ApprovedRevoke, RanOut
  <2> QED  BY <2>3, <2>4
<1> QED  BY <1>1, <1>2 DEF GwListMoves, Provisioning

\* The list to sweep stays expired while others write.
LEMMA SweepsRanOutStep ==
  ASSUME TypeOK, SweepsRanOut, RowsMove, GwListMoves
  PROVE  SweepsRanOut'
<1> SUFFICES ASSUME gwPc' \in Sweeping, NEW i \in gwBatch'
             PROVE  RanOut(i)'
  BY DEF SweepsRanOut, Sweeping
<1>1. CASE gwBatch' = ExpiredGrants /\ UNCHANGED req
  BY <1>1 DEF ExpiredGrants, RanOut
<1>2. CASE i \in gwBatch /\ gwPc \in Sweeping
  <2>1. RanOut(i)
    BY <1>2 DEF SweepsRanOut, Sweeping
  <2>2. i \in Ids /\ RowMoves(i)
    BY <1>2 DEF TypeOK, GwTypeOK, RowsMove
  <2> QED
    BY <2>1, <2>2 DEF TypeOK, TableTypeOK, Row, ApprovedGrant, ApprovedRevoke, RanOut
<1> QED  BY <1>1, <1>2 DEF GwListMoves, Sweeping

\* The list to remove stays approved while others write.
LEMMA RemovesApprovedStep ==
  ASSUME TypeOK, RemovesApproved, RowsMove, [Next]_vars
  PROVE  RemovesApproved'
<1> SUFFICES ASSUME NEW i \in rmBatch'
             PROVE  (ApprovedRevoke(i) /\ OnWork(i))'
  BY DEF RemovesApproved
<1>1. CASE rmBatch' = ListByStatus("revoke", "approved") /\ UNCHANGED req
  BY <1>1 DEF ListByStatus, ApprovedRevoke, Acted, Statuses
<1>2. CASE i \in rmBatch
  <2>1. i \in Ids /\ RowMoves(i) /\ ApprovedRevoke(i) /\ OnWork(i)
    BY <1>2 DEF RemovesApproved, TypeOK, RmTypeOK, RowsMove
  <2>2. ApprovedRevoke(i)'
    BY <2>1, RevokeStaysApproved
  <2>3. OnWork(i)'
    BY <2>1 DEF TypeOK, TableTypeOK, Row, ApprovedRevoke, ApprovedGrant, RanOut
  <2> QED  BY <2>2, <2>3
<1> QED  BY <1>1, <1>2, RmStepLists

-----------------------------------------------------------------------------
\* Only the PUT of the request in hand gives an assignment an origin, and only one.
LEMMA OriginMoves ==
  ASSUME TypeOK, [Next]_vars, NEW t \in Targets, origin'[t] # origin[t]
  PROVE  /\ gwPc = "put" /\ gwPc' \in {"record", "fail"}
         /\ gwPc' = "record" => gwIdent' = t
         /\ gwPc' = "fail" => "lost" \in FaultKinds
         /\ t \in Guids /\ origin[t] = 0 /\ Current(gwBatch, origin'[t])
         /\ UNCHANGED <<req, gwBatch>>
         /\ \A u \in Targets : origin'[u] # origin[u] => u = t
<1>1. PICK i \in gwBatch : GwPut(i) \/ GwPutLost(i)
  BY DEF Next, Review, Administer, Provision, GwNext, GwStep, GwPutStep, GwPutRefused,
         Remediate, RmNext, RmStep, RmDeleteStep, RmDelete, RmDeleteRefused, RmDeleteLost,
         Collect, Portal, PortalAdd, PortalRemove, Delete, Expire, azureVars, vars
<1>2. i \in Ids /\ Current(gwBatch, i) /\ gwPc = "put" /\ UNCHANGED <<req, gwBatch>>
  BY <1>1 DEF GwPut, GwPutLost, GwGoto, TypeOK, GwTypeOK
<1>3. ASSUME NEW u \in Guids, Create(u, i)
      PROVE  /\ t = u /\ origin[t] = 0 /\ origin'[t] = i
             /\ \A v \in Targets : origin'[v] # origin[v] => v = t
  BY <1>3, AzureAssumption DEF Create, TypeOK, AzureTypeOK
<1>4. CASE GwPut(i)
  <2>1. PICK u \in Guids : Create(u, i) /\ gwPc' = "record" /\ gwIdent' = u
    BY <1>4 DEF GwPut
  <2> QED  BY <1>2, <1>3, <2>1
<1>5. CASE GwPutLost(i)
  <2>1. PICK u \in Guids : Create(u, i)
    BY <1>5 DEF GwPutLost
  <2>2. gwPc' = "fail" /\ "lost" \in FaultKinds
    BY <1>5 DEF GwPutLost, GwGoto, Fault
  <2> QED  BY <1>2, <1>3, <2>1, <2>2
<1> QED  BY <1>1, <1>4, <1>5

\* No step leaves an assignment without its approval.
LEMMA AccessStep ==
  ASSUME TypeOK, TypeOK', ProvisionsApproved, AccessNeedsApproval, RowsMove, [Next]_vars
  PROVE  AccessNeedsApproval'
<1> SUFFICES ASSUME NEW t \in Targets, origin'[t] # 0
             PROVE  ApprovedGrant(origin[t])'
  BY DEF AccessNeedsApproval, ApprovedGrant, Acted
<1>1. CASE origin'[t] = origin[t]
  <2>1. origin[t] \in Ids
    BY <1>1, TableAssumption DEF TypeOK, AzureTypeOK, Ids
  <2>2. ApprovedGrant(origin[t])
    BY <1>1, <2>1 DEF AccessNeedsApproval, ApprovedGrant, Acted, TypeOK, TableTypeOK, Row
  <2>3. PICK i \in Ids : i = origin[t]
    BY <2>1
  <2>4. ApprovedGrant(i)'
    BY <2>2, <2>3, GrantStaysApproved DEF RowsMove
  <2> QED  BY <1>1, <2>3, <2>4 DEF ApprovedGrant
<1>2. CASE origin'[t] # origin[t]
  <2>1. ApprovedGrant(origin'[t])
    BY <1>2, OriginMoves DEF ProvisionsApproved, Current
  <2> QED  BY <1>2, <2>1, OriginMoves DEF ApprovedGrant
<1> QED  BY <1>1, <1>2

-----------------------------------------------------------------------------
\* The invariant holds at the start.
LEMMA InitInv == Init => Inv
<1> SUFFICES ASSUME Init PROVE Inv
  OBVIOUS
<1>1. TypeOK
  BY InitTyped
<1>2. \A i \in Ids : req[i].status = "absent"
  BY DEF Init, TableInit, NoRow, NewRow
<1>3. AccessNeedsApproval
  BY DEF Init, AzureInit, AccessNeedsApproval
<1>4. ProvisionsApproved /\ SweepsRanOut /\ RemovesApproved
  BY DEF Init, GwInit, RmInit, ProvisionsApproved, SweepsRanOut, RemovesApproved
<1>5. GrantsDecided /\ RemovalsJustified
  BY <1>2 DEF GrantsDecided, RemovalsJustified, ApprovedRevoke, Acted
<1> QED  BY <1>1, <1>3, <1>4, <1>5 DEF Inv

\* Every step keeps it.
LEMMA StepInv == Inv /\ [Next]_vars => Inv'
<1> SUFFICES ASSUME Inv, [Next]_vars PROVE Inv'
  OBVIOUS
<1> USE DEF Inv
<1>1. TypeOK'
  BY StepTyped
<1>2. RowsMove
  BY StepMoves
<1>3. GwListMoves
  BY GwStepLists
<1>4. ProvisionsApproved' /\ SweepsRanOut' /\ RemovesApproved'
  BY <1>2, <1>3, ProvisionsApprovedStep, SweepsRanOutStep, RemovesApprovedStep
<1>5. GrantsDecided' /\ RemovalsJustified'
  BY <1>1, <1>2, GrantsDecidedStep, RemovalsJustifiedStep
<1>6. AccessNeedsApproval'
  BY <1>1, <1>2, AccessStep
<1> QED  BY <1>1, <1>4, <1>5, <1>6

(***************************************************************************)
(* The inductive invariant holds in every behaviour.                       *)
(***************************************************************************)
THEOREM Invariance == Spec => []Inv
BY InitInv, StepInv, PTL DEF Spec

(***************************************************************************)
(* Whatever crashes, fails or gets lost, every assignment the grant worker *)
(* ever created rests on a request that an approver approved and that      *)
(* still says so.                                                          *)
(***************************************************************************)
THEOREM AccessIsApproved == Spec => []AccessNeedsApproval
<1>1. Inv => AccessNeedsApproval
  BY DEF Inv
<1> QED  BY <1>1, Invariance, PTL

(***************************************************************************)
(* The remediator, working from a list that may be out of date, only ever  *)
(* deletes an assignment whose removal an approver approved, that drift    *)
(* review rejected, or whose time was up.                                  *)
(***************************************************************************)
THEOREM RemovalsAreAuthorised == Spec => RemovalAuthorised
<1>1. ASSUME Inv, [Next]_vars, NEW t \in Targets, RemovedByRemediator(t)
      PROVE  RemovalApproved(t)
  <2>1. PICK i \in rmBatch : RmDelete(i) \/ RmDeleteLost(i)
    BY <1>1 DEF RemovedByRemediator, Next, Review, Administer, Provision, Remediate,
                RmNext, RmStep, RmDeleteStep, RmDeleteRefused, Collect, Portal, Expire,
                azureVars, rmVars, vars
  <2>2. t = req[i].target
    BY <1>1, <2>1 DEF RemovedByRemediator, RmDelete, RmDeleteLost, Delete
  <2>3. ApprovedRevoke(i) /\ i \in Ids
    BY <1>1 DEF Inv, RemovesApproved, TypeOK, RmTypeOK
  <2> QED  BY <1>1, <2>2, <2>3 DEF Inv, RemovalsJustified
<1>2. Inv /\ [Next]_vars => [\A t \in Targets : RemovedByRemediator(t) => RemovalApproved(t)]_vars
  BY <1>1
<1> QED  BY <1>2, Invariance, PTL DEF Spec, RemovalAuthorised
=============================================================================
