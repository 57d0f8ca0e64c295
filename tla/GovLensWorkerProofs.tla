------------------------ MODULE GovLensWorkerProofs ------------------------
(***************************************************************************)
(* What the workers promise when the statements they write succeed: a      *)
(* claim precedes the call it is for, so a request creates one assignment  *)
(* and the table follows the documented life of a request; and what the    *)
(* remediator's gate keeps: the floor of Global Administrators and the     *)
(* guards.                                                                 *)
(***************************************************************************)
EXTENDS GovLensTableProofs, FiniteSetTheorems

\* A statement that cannot fail writes its row.
LEMMA WritesSucceed ==
  ASSUME StatementsSucceed, TableTypeOK, NEW i \in Ids, NEW s, SetRequestStatus(i, s)
  PROVE  /\ req'[i].status = s /\ req'[i].target = req[i].target
         /\ \A j \in Ids \ {i} : req'[j] = req[j]
<1>1. req' = [req EXCEPT ![i] = [req[i] EXCEPT !.status = s]]
  BY DEF SetRequestStatus, Write, Fault, StatementsSucceed
<1> QED  BY <1>1 DEF TableTypeOK, Row

\* Without its first request, a list in hand is a list of approved requests.
LEMMA RestOfTheList ==
  ASSUME NEW batch, NEW status, NEW i \in batch, Current(batch, i), InHand(batch, status),
         batch \subseteq Ids, \A j \in batch \ {i} : req'[j] = req[j]
  PROVE  InHand(batch \ {i}, "approved")'
BY TableAssumption DEF InHand, Current, Ids

\* Who writes to a request that the grant worker holds, but the worker itself.
LEMMA HeldGrantStays ==
  ASSUME TypeOK, NEW i \in Ids, ApprovedGrant(i), OnWork(i), RowMoves(i), UNCHANGED gwVars
  PROVE  req'[i].status = req[i].status
<1>1. ~ProvisionMoved(i)
  BY DEF ProvisionMoved, Recorded, Handled, Current, gwVars
<1> QED
  BY <1>1 DEF RowMoves, Untouched, Opened, RemovalQueued, Reviewed, Aged, MarkedExpired,
       Removed, OnWork, IsPending, ApprovedGrant, ApprovedRevoke, RanOut, TypeOK, TableTypeOK,
       Row

\* And to one the remediator holds.
LEMMA HeldRemovalStays ==
  ASSUME TypeOK, NEW i \in Ids, ApprovedRevoke(i), OnWork(i), RowMoves(i), UNCHANGED rmVars
  PROVE  req'[i].status = req[i].status
<1>1. ~Removed(i)
  BY DEF Removed, Current, rmVars
<1> QED
  BY <1>1 DEF RowMoves, Untouched, Opened, RemovalQueued, Reviewed, Aged, MarkedExpired,
       ProvisionMoved, OnWork, IsPending, ApprovedGrant, ApprovedRevoke, RanOut, TypeOK,
       TableTypeOK, Row

\* A request that was acted on is not approved or pending again.
LEMMA ActedOnStays ==
  ASSUME TypeOK, NEW i \in Ids, RowMoves(i),
         req[i].status \notin {"absent", "pending", "approved"}
  PROVE  req'[i].status \notin {"absent", "pending", "approved"}
BY DEF RowMoves, Untouched, Opened, RemovalQueued, Reviewed, Aged, MarkedExpired,
       ProvisionMoved, Recorded, Handled, Removed, IsPending, RanOut, TypeOK, TableTypeOK, Row

-----------------------------------------------------------------------------
(***************************************************************************)
(* What the worker holds is claimed, or approved and waiting.              *)
(***************************************************************************)

\* The request in hand is claimed before its PUT, the others are approved.
LEMMA GrantsClaimedStep ==
  ASSUME StatementsSucceed, TypeOK, ProvisionsApproved, GrantsClaimed, RowsMove, [Next]_vars
  PROVE  GrantsClaimed'
<1>1. TableTypeOK /\ gwBatch \subseteq Ids
  BY DEF TypeOK, GwTypeOK
<1>2. CASE UNCHANGED gwVars
  <2>1. ASSUME NEW s, gwPc \in {"gate", "put", "record", "fail"}, InHand(gwBatch, s)
        PROVE  InHand(gwBatch, s)'
    <3>1. \A i \in gwBatch : req'[i].status = req[i].status
      BY <1>1, <1>2, <2>1, HeldGrantStays DEF ProvisionsApproved, RowsMove
    <3> QED  BY <1>2, <2>1, <3>1 DEF InHand, Current, gwVars
  <2> QED  BY <1>2, <2>1 DEF GrantsClaimed, gwVars
<1>3. CASE GwPutStep
  BY <1>3 DEF GwPutStep, GwPut, GwPutRefused, GwPutLost, GwGoto, GrantsClaimed, InHand, Current
<1>4. CASE GwList
  BY <1>4 DEF GwList, GwGoto, ListByStatus, GrantsClaimed, InHand
<1>5. CASE \/ GwProbeOk \/ GwProbeFail \/ GwProvisioned \/ GwExpired \/ GwSwept \/ GwCrash
           \/ \E i \in gwBatch : GwEnqueue(i) \/ GwMark(i)
  BY <1>5 DEF GwProbeOk, GwProbeFail, GwProvisioned, GwExpired, GwSwept, GwCrash, GwEnqueue,
              GwMark, GwGoto, GrantsClaimed
<1>6. ASSUME NEW i \in gwBatch, GwSkip(i) \/ GwRecord(i) \/ GwFail(i)
      PROVE  GrantsClaimed'
  <2>1. /\ gwPc \in {"gate", "record", "fail"} /\ Current(gwBatch, i)
        /\ gwPc' = "gate" /\ gwBatch' = gwBatch \ {i}
    BY <1>6 DEF GwSkip, GwRecord, GwFail, GwGoto
  <2>2. \A j \in gwBatch \ {i} : req'[j] = req[j]
    BY <1>1, <1>6, StatusMoves, WriteMoves
    DEF GwSkip, GwRecord, GwFail, SetGrantProvisioned, Untouched
  <2>3. InHand(gwBatch \ {i}, "approved")'
    <3>1. InHand(gwBatch, "approved") \/ InHand(gwBatch, "processing")
      BY <2>1 DEF GrantsClaimed
    <3> QED  BY <1>1, <2>1, <2>2, <3>1, RestOfTheList
  <2> QED  BY <2>1, <2>3 DEF GrantsClaimed, InHand, Current
<1>7. ASSUME NEW i \in gwBatch, GwClaim(i)
      PROVE  GrantsClaimed'
  <2>1. /\ gwPc = "gate" /\ Current(gwBatch, i) /\ SetRequestStatus(i, "processing")
        /\ gwPc' = "put" /\ gwBatch' = gwBatch
    BY <1>7 DEF GwClaim, GwGoto
  <2>2. req'[i].status = "processing" /\ \A j \in gwBatch \ {i} : req'[j] = req[j]
    BY <1>1, <2>1, WritesSucceed
  <2>3. \A j \in gwBatch : Current(gwBatch, j) <=> j = i
    BY <2>1, OneInHand DEF TypeOK
  <2>4. \A j \in gwBatch \ {i} : req[j].status = "approved"
    BY <2>1, <2>3 DEF GrantsClaimed, InHand
  <2> QED  BY <2>1, <2>2, <2>3, <2>4 DEF GrantsClaimed, InHand, Current
<1>8. \A i \in gwBatch : ~GwSkipUnread(i)
  BY DEF GwSkipUnread, Fault, StatementsSucceed
<1> QED
  BY <1>2, <1>3, <1>4, <1>5, <1>6, <1>7, <1>8
  DEF Next, Review, Administer, Provision, GwNext, GwStep, GwQueueStep, Remediate, Collect,
      Portal, Expire, vars

\* The same for the removals.
LEMMA RemovalsClaimedStep ==
  ASSUME StatementsSucceed, TypeOK, RemovesApproved, RemovalsClaimed, RowsMove, [Next]_vars
  PROVE  RemovalsClaimed'
<1>1. TableTypeOK /\ rmBatch \subseteq Ids
  BY DEF TypeOK, RmTypeOK
<1>2. CASE UNCHANGED rmVars
  <2>1. \A i \in rmBatch : req'[i].status = req[i].status
    BY <1>1, <1>2, HeldRemovalStays DEF RemovesApproved, RowsMove
  <2> QED  BY <1>2, <2>1 DEF RemovalsClaimed, InHand, Current, rmVars
<1>3. CASE RmDeleteStep
  BY <1>3 DEF RmDeleteStep, RmDelete, RmDeleteRefused, RmDeleteLost, RmGoto, RemovalsClaimed,
              InHand, Current
<1>4. CASE RmList
  BY <1>4 DEF RmList, RmGoto, ListByStatus, RemovalsClaimed, InHand
<1>5. CASE RmPolicies \/ RmCount
  BY <1>5 DEF RmPolicies, RmCount, RemovalsClaimed, InHand, Current
<1>6. CASE RmFinish \/ RmCrash
  BY <1>6 DEF RmFinish, RmCrash, RemovalsClaimed
<1>7. ASSUME NEW i \in rmBatch, RmSkip(i) \/ RmUnverified(i) \/ RmDone(i) \/ RmFail(i)
      PROVE  RemovalsClaimed'
  <2>1. /\ rmPc \in {"gate", "done", "fail"} /\ Current(rmBatch, i)
        /\ rmPc' = "gate" /\ rmBatch' = rmBatch \ {i}
    BY <1>7 DEF RmSkip, RmUnverified, RmDone, RmFail, RmGoto
  <2>2. \A j \in rmBatch \ {i} : req'[j] = req[j]
    BY <1>1, <1>7, StatusMoves DEF RmSkip, RmUnverified, RmDone, RmFail, Untouched
  <2>3. InHand(rmBatch \ {i}, "approved")'
    <3>1. InHand(rmBatch, "approved") \/ InHand(rmBatch, "processing")
      BY <2>1 DEF RemovalsClaimed
    <3> QED  BY <1>1, <2>1, <2>2, <3>1, RestOfTheList
  <2> QED  BY <2>1, <2>3 DEF RemovalsClaimed, InHand, Current
<1>8. ASSUME NEW i \in rmBatch, RmClaim(i)
      PROVE  RemovalsClaimed'
  <2>1. /\ rmPc = "gate" /\ Current(rmBatch, i) /\ SetRequestStatus(i, "processing")
        /\ rmPc' = "delete" /\ rmBatch' = rmBatch
    BY <1>8 DEF RmClaim, RmGoto
  <2>2. req'[i].status = "processing" /\ \A j \in rmBatch \ {i} : req'[j] = req[j]
    BY <1>1, <2>1, WritesSucceed
  <2>3. \A j \in rmBatch : Current(rmBatch, j) <=> j = i
    BY <1>1, <2>1, TableAssumption DEF Current, Ids
  <2>4. \A j \in rmBatch \ {i} : req[j].status = "approved"
    BY <2>1, <2>3 DEF RemovalsClaimed, InHand
  <2> QED  BY <2>1, <2>2, <2>3, <2>4 DEF RemovalsClaimed, InHand, Current
<1> QED
  BY <1>2, <1>3, <1>4, <1>5, <1>6, <1>7, <1>8
  DEF Next, Review, Administer, Provision, Remediate, RmNext, RmStep, RmQueueStep, Collect,
      Portal, Expire, vars

-----------------------------------------------------------------------------
(***************************************************************************)
(* One assignment per grant.                                               *)
(***************************************************************************)

\* The worker is about to PUT only after a claim.
LEMMA PutEntered ==
  ASSUME [Next]_vars, gwPc' = "put"
  PROVE  (\E i \in gwBatch : GwClaim(i)) \/ UNCHANGED gwVars
<1>1. CASE Provision
  BY <1>1 DEF Provision, GwNext, GwStep, GwPutStep, GwQueueStep, GwPut, GwPutRefused,
       GwPutLost, GwCrash, GwProbeOk, GwProbeFail, GwList, GwProvisioned, GwExpired, GwSwept,
       GwSkip, GwSkipUnread, GwRecord, GwFail, GwEnqueue, GwMark, GwGoto
<1>2. CASE UNCHANGED gwVars
  BY <1>2
<1> QED
  BY <1>1, <1>2 DEF Next, Review, Administer, Remediate, Collect, Portal, Expire, vars

\* A request that created something is claimed, and its PUT does not come again.
LEMMA ClaimPrecedesPutStep ==
  ASSUME TypeOK, GrantsClaimed, ClaimPrecedesPut, RowsMove, [Next]_vars
  PROVE  ClaimPrecedesPut'
<1> SUFFICES ASSUME NEW t \in Targets, origin'[t] # 0
             PROVE  /\ req'[origin'[t]].status \notin {"absent", "pending", "approved"}
                    /\ gwPc' = "put" => ~Current(gwBatch', origin'[t])
  BY DEF ClaimPrecedesPut, Current
<1>1. CASE origin'[t] # origin[t]
  <2>1. PICK i \in Ids : i = origin'[t] /\ i \in gwBatch /\ Current(gwBatch, i)
    BY <1>1, OriginMoves DEF Current, TypeOK, GwTypeOK
  <2>2. req[i].status = "processing" /\ UNCHANGED req /\ gwPc' # "put"
    BY <1>1, <2>1, OriginMoves DEF GrantsClaimed, InHand
  <2> QED  BY <2>1, <2>2
<1>2. CASE origin'[t] = origin[t]
  <2>1. PICK i \in Ids : i = origin'[t] /\ i = origin[t]
    BY <1>2, TableAssumption DEF TypeOK, AzureTypeOK, Ids
  <2>2. req[i].status \notin {"absent", "pending", "approved"}
    BY <2>1 DEF ClaimPrecedesPut
  <2>3. req'[i].status \notin {"absent", "pending", "approved"}
    BY <2>2, ActedOnStays DEF RowsMove
  <2>4. ASSUME gwPc' = "put", Current(gwBatch', i)
        PROVE  FALSE
    <3>1. ASSUME NEW j \in gwBatch, GwClaim(j)
          PROVE  FALSE
      <4>1. gwPc = "gate" /\ gwBatch' = gwBatch
        BY <3>1 DEF GwClaim, GwGoto
      <4> QED  BY <2>2, <2>4, <4>1 DEF GrantsClaimed, InHand, Current
    <3>2. CASE UNCHANGED gwVars
      BY <2>1, <2>4, <3>2 DEF gwVars, ClaimPrecedesPut
    <3> QED  BY <2>4, <3>1, <3>2, PutEntered
  <2> QED  BY <2>1, <2>3, <2>4
<1> QED  BY <1>1, <1>2

\* So no request creates a second assignment.
LEMMA OneAssignmentStep ==
  ASSUME TypeOK, ClaimPrecedesPut, OneAssignmentPerGrant, [Next]_vars
  PROVE  OneAssignmentPerGrant'
<1> SUFFICES ASSUME NEW t \in Targets, NEW u \in Targets,
                    origin'[t] # 0, origin'[t] = origin'[u]
             PROVE  t = u
  BY DEF OneAssignmentPerGrant
<1>1. ASSUME NEW v \in Targets, NEW w \in Targets, origin'[v] # origin[v],
             origin'[w] = origin[w], origin'[v] = origin'[w], origin'[v] # 0
      PROVE  FALSE
  BY <1>1, OriginMoves DEF ClaimPrecedesPut
<1>2. CASE origin'[t] = origin[t] /\ origin'[u] = origin[u]
  BY <1>2 DEF OneAssignmentPerGrant
<1>3. CASE origin'[t] # origin[t] /\ origin'[u] # origin[u]
  BY <1>3, OriginMoves
<1> QED  BY <1>1, <1>2, <1>3

\* The invariant holds at the start.
LEMMA InitClaimInv == Init => ClaimInv
<1> SUFFICES ASSUME Init PROVE ClaimInv
  OBVIOUS
<1>1. \A t \in Targets : origin[t] = 0
  BY DEF Init, AzureInit
<1>2. gwPc = "idle" /\ rmPc = "idle"
  BY DEF Init, GwInit, RmInit
<1> QED
  BY <1>1, <1>2, InitTableInv
  DEF ClaimInv, GrantsClaimed, RemovalsClaimed, ClaimPrecedesPut, OneAssignmentPerGrant

\* Every step keeps it.
LEMMA StepClaimInv ==
  ASSUME StatementsSucceed
  PROVE  ClaimInv /\ [Next]_vars => ClaimInv'
<1> SUFFICES ASSUME ClaimInv, [Next]_vars PROVE ClaimInv'
  OBVIOUS
<1>1. /\ TableInv /\ Inv /\ TypeOK /\ ProvisionsApproved /\ SweepsRanOut /\ RemovesApproved
      /\ GrantsClaimed /\ RemovalsClaimed /\ ClaimPrecedesPut /\ OneAssignmentPerGrant
  BY DEF ClaimInv, TableInv, Inv
<1>2. RowsMove /\ TableInv'
  BY <1>1, StepMoves, StepTableInv
<1>3. GrantsClaimed' /\ RemovalsClaimed'
  BY <1>1, <1>2, GrantsClaimedStep, RemovalsClaimedStep
<1>4. ClaimPrecedesPut' /\ OneAssignmentPerGrant'
  BY <1>1, <1>2, ClaimPrecedesPutStep, OneAssignmentStep
<1> QED  BY <1>2, <1>3, <1>4 DEF ClaimInv

(***************************************************************************)
(* When statements succeed, nothing is called before its claim is written. *)
(***************************************************************************)
THEOREM ClaimInvariance ==
  ASSUME StatementsSucceed
  PROVE  Spec => []ClaimInv
BY InitClaimInv, StepClaimInv, PTL DEF Spec

(***************************************************************************)
(* When statements succeed, a grant request creates at most one            *)
(* assignment, wherever the worker dies and whatever response it loses.    *)
(***************************************************************************)
THEOREM GrantsCreateOnce ==
  ASSUME StatementsSucceed
  PROVE  Spec => []OneAssignmentPerGrant
<1>1. ClaimInv => OneAssignmentPerGrant
  BY DEF ClaimInv
<1> QED  BY <1>1, ClaimInvariance, PTL
-----------------------------------------------------------------------------
(***************************************************************************)
(* The table implements the documented life of a request.                  *)
(***************************************************************************)

\* The columns of a row, as the abstract life of a request sees them.
LEMMA LifecycleColumns ==
  ASSUME TypeOK, NEW i \in Ids
  PROVE  /\ [k \in Ids |-> req[k].action][i] = req[i].action
         /\ [k \in Ids |-> req[k].status][i] = req[i].status
         /\ [k \in Ids |-> req[k].decidedBy][i] = req[i].decidedBy
         /\ [k \in Ids |-> req[k].action]'[i] = req'[i].action
         /\ [k \in Ids |-> req[k].status]'[i] = req'[i].status
         /\ [k \in Ids |-> req[k].decidedBy]'[i] = req'[i].decidedBy
OBVIOUS

\* The move of a row is a move of its request, or none.
LEMMA RowFollowsLifecycle ==
  ASSUME TypeOK, GrantsClaimed, RemovalsClaimed, NEW i \in Ids, RowMoves(i)
  PROVE  \/ Lifecycle!Stays(i) \/ Lifecycle!Submitted(i) \/ Lifecycle!Queued(i)
         \/ Lifecycle!Decided(i) \/ Lifecycle!Claimed(i) \/ Lifecycle!TurnedDown(i)
         \/ Lifecycle!Carried(i) \/ Lifecycle!Swept(i)
<1> USE LifecycleColumns DEF Lifecycle!Moves, Lifecycle!KeepsDecision
<1>1. CASE Untouched(i) \/ Aged(i)
  BY <1>1 DEF Untouched, Aged, Lifecycle!Stays, TypeOK, TableTypeOK, Row
<1>2. CASE Opened(i)
  BY <1>2, OpenedRow DEF Lifecycle!Submitted, Actions
<1>3. CASE RemovalQueued(i)
  BY <1>3, QueuedRow DEF Lifecycle!Queued
<1>4. CASE Reviewed(i)
  BY <1>4 DEF Reviewed, IsPending, Lifecycle!Decided
<1>5. CASE ProvisionMoved(i)
  <2>1. /\ i \in gwBatch /\ Current(gwBatch, i)
        /\ req[i].action = "grant" /\ req'[i].action = "grant"
        /\ req[i].decidedBy = "approver" /\ req'[i].decidedBy = "approver"
    BY <1>5 DEF ProvisionMoved, ApprovedGrant, Current
  <2>2. CASE Recorded(i)
    BY <2>1, <2>2 DEF Recorded, GrantsClaimed, InHand, Lifecycle!Carried
  <2>3. CASE Handled(i)
    BY <2>1, <2>3 DEF Handled, GrantsClaimed, InHand, Lifecycle!Claimed,
         Lifecycle!TurnedDown, Lifecycle!Carried
  <2> QED  BY <1>5, <2>2, <2>3 DEF ProvisionMoved
<1>6. CASE MarkedExpired(i)
  BY <1>6 DEF MarkedExpired, RanOut, Lifecycle!Swept, TypeOK, TableTypeOK, Row
<1>7. CASE Removed(i)
  <2>1. i \in rmBatch /\ Current(rmBatch, i) /\ req[i].action = "revoke"
    BY <1>7 DEF Removed, ApprovedRevoke, Current
  <2>2. PICK s \in {"processing", "done", "failed", "skipped"} :
          /\ req'[i] = [req[i] EXCEPT !.status = s]
          /\ s = "processing" => rmPc = "gate"
          /\ s = "skipped" => rmPc = "gate"
          /\ s = "failed"  => rmPc \in {"gate", "fail"}
          /\ s = "done"    => rmPc = "done"
    BY <1>7 DEF Removed
  <2>3. req'[i].status = s /\ Lifecycle!KeepsDecision(i)
    BY <2>2 DEF TypeOK, TableTypeOK, Row
  <2> QED
    BY <2>1, <2>2, <2>3
    DEF RemovalsClaimed, InHand, Lifecycle!Claimed, Lifecycle!TurnedDown, Lifecycle!Carried
<1> QED  BY <1>1, <1>2, <1>3, <1>4, <1>5, <1>6, <1>7 DEF RowMoves

\* The table starts as the documented life of every request does.
LEMMA InitFollowsLifecycle == Init => Lifecycle!Init
BY DEF Init, TableInit, NoRow, NewRow, Lifecycle!Init

\* Every step of the system is a step of it, or leaves it alone.
LEMMA StepFollowsLifecycle ==
  ASSUME ClaimInv, [Next]_vars
  PROVE  [Lifecycle!Next]_(Lifecycle!Lifecycle)
<1>1. TypeOK /\ GrantsClaimed /\ RemovalsClaimed /\ RowsMove
  BY StepMoves DEF ClaimInv, TableInv, Inv
<1>2. Lifecycle!Next
  BY <1>1, RowFollowsLifecycle DEF RowsMove, Lifecycle!Next
<1> QED  BY <1>2

(***************************************************************************)
(* When statements succeed, every row of access_requests goes through the  *)
(* life that schema.sql documents, although the workers write statuses     *)
(* unconditionally by id.                                                  *)
(***************************************************************************)
THEOREM TableFollowsLifecycle ==
  ASSUME StatementsSucceed
  PROVE  Spec => FollowsLifecycle
<1>1. ClaimInv /\ [Next]_vars => [Lifecycle!Next]_(Lifecycle!Lifecycle)
  BY StepFollowsLifecycle
<1> QED
  BY <1>1, InitFollowsLifecycle, ClaimInvariance, PTL DEF Spec, FollowsLifecycle, Lifecycle!Spec
-----------------------------------------------------------------------------
(***************************************************************************)
(* The remediator's gate.                                                  *)
(***************************************************************************)

\* A step loses one response at most, and losses are never forgotten.
LEMMA LossesCounted ==
  ASSUME [Next]_vars
  PROVE  losses' = losses \/ (losses' = losses + 1 /\ ~ResponsesArrive)
<1> DEFINE Counted == losses' = losses \/ (losses' = losses + 1 /\ ~ResponsesArrive)
<1>1. ASSUME NoFault \/ \E kind : Fault(kind) PROVE Counted
  BY <1>1 DEF NoFault, faultVars, Fault, ResponsesArrive
<1>2. ASSUME NEW i, NEW row, Write(i, row) PROVE Counted
  BY <1>1, <1>2 DEF Write
<1>3. ASSUME NEW i, NEW s, SetRequestStatus(i, s) PROVE Counted
  BY <1>2, <1>3 DEF SetRequestStatus
<1>4. CASE Review
  BY <1>1, <1>4 DEF Review, ReviewNext, Mark, RequestSubmit, RevokeMark, Passes,
     DecideGrantRequest, DecideRevokeRequest, KeepDrift, RejectDrift
<1>5. CASE Provision
  <2>1. ASSUME NEW i \in gwBatch,
               GwSkip(i) \/ GwClaim(i) \/ GwRecord(i) \/ GwFail(i) \/ GwMark(i)
        PROVE  Counted
    BY <1>2, <1>3, <2>1 DEF GwSkip, GwClaim, GwRecord, GwFail, GwMark, SetGrantProvisioned,
       MarkGrantExpired
  <2>2. ASSUME NEW i \in gwBatch,
               \/ GwSkipUnread(i) \/ GwEnqueue(i) \/ GwPut(i) \/ GwPutRefused(i) \/ GwPutLost(i)
        PROVE  Counted
    BY <1>1, <2>2 DEF GwSkipUnread, GwEnqueue, GwPut, GwPutRefused, GwPutLost
  <2> QED
    BY <1>1, <1>5, <2>1, <2>2 DEF Provision, GwNext, GwStep, GwPutStep, GwQueueStep, GwProbeOk,
       GwProbeFail, GwList, GwProvisioned, GwExpired, GwSwept, GwCrash
<1>6. CASE Remediate
  <2>1. ASSUME NEW i \in rmBatch,
               RmSkip(i) \/ RmUnverified(i) \/ RmClaim(i) \/ RmDone(i) \/ RmFail(i)
        PROVE  Counted
    BY <1>3, <2>1 DEF RmSkip, RmUnverified, RmClaim, RmDone, RmFail
  <2>2. ASSUME NEW i \in rmBatch, RmDelete(i) \/ RmDeleteRefused(i) \/ RmDeleteLost(i)
        PROVE  Counted
    BY <1>1, <2>2 DEF RmDelete, RmDeleteRefused, RmDeleteLost
  <2> QED
    BY <1>1, <1>6, <2>1, <2>2 DEF Remediate, RmNext, RmStep, RmDeleteStep, RmQueueStep, RmList,
       RmPolicies, RmCount, RmFinish, RmCrash
<1>7. CASE Collect
  BY <1>1, <1>7 DEF Collect, ColNext, ColStep, ColRead, ReplaceRun, ReconcileDrift, ColCrash
<1>8. CASE Administer \/ Portal \/ (\E i \in Ids : Expire(i)) \/ UNCHANGED vars
  BY <1>8 DEF Administer, Portal, Expire, vars, faultVars
<1> QED  BY <1>4, <1>5, <1>6, <1>7, <1>8 DEF Next

\* So what the count may miss only grows, and by a lost DELETE.
LEMMA LossesGrow ==
  ASSUME TypeOK, [Next]_vars
  PROVE  /\ losses \in Nat /\ losses' \in Nat /\ losses <= losses'
         /\ ResponsesArrive => losses' = losses
         /\ \A i : RmDeleteLost(i) => losses' = losses + 1
<1>1. losses \in Nat
  BY FaultsAssumption DEF TypeOK, FaultsTypeOK
<1> QED  BY <1>1, LossesCounted DEF RmDeleteLost, Fault

\* Only a DELETE of the remediator's changes which Global Administrators there are.
LEMMA AdminsStay ==
  ASSUME FloorAtStart, TypeOK, [Next]_vars
  PROVE  \/ live' \cap GlobalAdmins = live \cap GlobalAdmins
         \/ \E i \in rmBatch : RmDelete(i) \/ RmDeleteLost(i)
<1>1. CASE UNCHANGED live
  BY <1>1
<1>2. CASE Provision
  <2>1. UNCHANGED live \/ \E t \in Guids : live' = live \cup {t}
    BY <1>2 DEF Provision, GwNext, GwStep, GwPutStep, GwPut, GwPutRefused, GwPutLost, Create,
                azureVars
  <2> QED  BY <2>1, AzureAssumption
<1>3. CASE Portal
  <2>1. PICK t \in Outside : live' = live \cup {t} \/ live' = live \ {t}
    BY <1>3 DEF Portal, PortalAdd, PortalRemove, Delete
  <2> QED  BY <2>1 DEF FloorAtStart
<1>4. CASE Remediate
  BY <1>1, <1>4 DEF Remediate, RmNext, RmStep, RmDeleteStep, RmDeleteRefused, azureVars
<1> QED
  BY <1>1, <1>2, <1>3, <1>4
  DEF Next, Review, Administer, Collect, Expire, azureVars, vars

\* The number of Global Administrators after one less is there, or is not.
LEMMA AdminsCounted ==
  ASSUME TypeOK
  PROVE  /\ LiveGlobalAdmins \in Nat
         /\ \A t : (live' = live \ {t}) =>
              /\ t \notin GlobalAdmins => LiveGlobalAdmins' = LiveGlobalAdmins
              /\ LiveGlobalAdmins' \in {LiveGlobalAdmins, LiveGlobalAdmins - 1}
<1> DEFINE S == live \cap GlobalAdmins
<1>1. IsFiniteSet(S)
  BY FS_Subset, RemediatorAssumption DEF TypeOK, AzureTypeOK
<1>2. Cardinality(S) \in Nat
  BY <1>1, FS_CardinalityType
<1>3. ASSUME NEW t, live' = live \ {t}
      PROVE  /\ t \notin GlobalAdmins => LiveGlobalAdmins' = LiveGlobalAdmins
             /\ LiveGlobalAdmins' \in {LiveGlobalAdmins, LiveGlobalAdmins - 1}
  <2>1. CASE t \in S
    <3>1. Cardinality(S \ {t}) = Cardinality(S) - 1
      BY <1>1, <2>1, FS_RemoveElement
    <3>2. live' \cap GlobalAdmins = S \ {t}
      BY <1>3
    <3> QED  BY <2>1, <3>1, <3>2 DEF LiveGlobalAdmins
  <2>2. CASE t \notin S
    <3>1. live' \cap GlobalAdmins = S
      BY <1>3, <2>2
    <3> QED  BY <3>1 DEF LiveGlobalAdmins
  <2> QED  BY <2>1, <2>2
<1> QED  BY <1>2, <1>3 DEF LiveGlobalAdmins

\* What the remediator may believe: those that are there, and the deletions it missed.
LEMMA BelievableStays ==
  ASSUME FloorAtStart, TypeOK, [Next]_vars
  PROVE  /\ LiveGlobalAdmins \in Nat /\ LiveGlobalAdmins' \in Int
         /\ losses \in Nat /\ losses' \in Nat
         /\ (~\E i \in rmBatch : RmDelete(i)) =>
              LiveGlobalAdmins + losses <= LiveGlobalAdmins' + losses'
<1>1. /\ LiveGlobalAdmins \in Nat /\ losses \in Nat /\ losses' \in Nat
      /\ losses <= losses'
  BY AdminsCounted, LossesGrow
<1>2. live' \cap GlobalAdmins = live \cap GlobalAdmins => LiveGlobalAdmins' = LiveGlobalAdmins
  BY DEF LiveGlobalAdmins
<1>3. \A i \in rmBatch : RmDelete(i) => LiveGlobalAdmins' \in {LiveGlobalAdmins, LiveGlobalAdmins - 1}
  BY AdminsCounted DEF RmDelete, Delete
<1>4. ASSUME NEW i \in rmBatch, RmDeleteLost(i)
      PROVE  /\ LiveGlobalAdmins' \in {LiveGlobalAdmins, LiveGlobalAdmins - 1}
             /\ losses' = losses + 1
  BY <1>4, AdminsCounted, LossesGrow DEF RmDeleteLost, Delete
<1> DEFINE Kept == LiveGlobalAdmins' = LiveGlobalAdmins
           Lost == /\ LiveGlobalAdmins' \in {LiveGlobalAdmins, LiveGlobalAdmins - 1}
                   /\ losses' = losses + 1
<1>5. Kept \/ Lost \/ \E i \in rmBatch : RmDelete(i)
  BY <1>2, <1>4, AdminsStay
<1>6. Kept \/ Lost => LiveGlobalAdmins' \in Int
                      /\ LiveGlobalAdmins + losses <= LiveGlobalAdmins' + losses'
  BY <1>1
<1>7. LiveGlobalAdmins' \in {LiveGlobalAdmins, LiveGlobalAdmins - 1} => LiveGlobalAdmins' \in Int
  BY <1>1
<1> HIDE DEF Kept, Lost
<1> QED  BY <1>1, <1>3, <1>5, <1>6, <1>7, Zenon

\* A DELETE costs one of them at most, and none unless it names one.
LEMMA DeleteBelieved ==
  ASSUME TypeOK, [Next]_vars
  PROVE  \A t : live' = live \ {t} =>
           /\ (LiveGlobalAdmins + losses) - 1 <= LiveGlobalAdmins' + losses'
           /\ t \notin GlobalAdmins =>
                LiveGlobalAdmins + losses <= LiveGlobalAdmins' + losses'
<1> SUFFICES ASSUME NEW t, live' = live \ {t}
             PROVE  /\ (LiveGlobalAdmins + losses) - 1 <= LiveGlobalAdmins' + losses'
                    /\ t \notin GlobalAdmins =>
                         LiveGlobalAdmins + losses <= LiveGlobalAdmins' + losses'
  OBVIOUS
<1>1. /\ LiveGlobalAdmins \in Nat
      /\ LiveGlobalAdmins' = LiveGlobalAdmins \/ LiveGlobalAdmins' = LiveGlobalAdmins - 1
      /\ t \notin GlobalAdmins => LiveGlobalAdmins' = LiveGlobalAdmins
  BY AdminsCounted
<1>2. losses \in Nat /\ losses' \in Nat /\ losses <= losses'
  BY LossesGrow
<1> QED  BY <1>1, <1>2

\* What the remediator holds goes on naming the same assignment by the same text.
LEMMA HeldRemovalsKeepTarget ==
  ASSUME TypeOK, RemovesApproved, RowsMove
  PROVE  \A i \in rmBatch : req'[i].target = req[i].target /\ req'[i].label = req[i].label
<1> SUFFICES ASSUME NEW i \in rmBatch
             PROVE  req'[i].target = req[i].target /\ req'[i].label = req[i].label
  OBVIOUS
<1>1. i \in Ids /\ ApprovedRevoke(i) /\ Exists(i)
  BY DEF RemovesApproved, TypeOK, RmTypeOK, OnWork, Exists
<1>2. req'[i].target = req[i].target
  BY <1>1, RevokeStaysApproved DEF RowsMove
<1>3. req'[i].label = req[i].label
  BY <1>1, RowsKeepTheirTarget DEF RowsMove
<1> QED  BY <1>2, <1>3

\* A row about a Global Administrator goes on saying so.
LEMMA AdminRowsSaySoStep ==
  ASSUME FloorAtStart, TypeOK, RecordsItsOwn, AdminRowsSaySo, RowsMove
  PROVE  AdminRowsSaySo'
<1> SUFFICES ASSUME NEW i \in Ids, req'[i].target \in GlobalAdmins
             PROVE  req'[i].label \in AdminText
  BY DEF AdminRowsSaySo
<1>1. RowMoves(i)
  BY DEF RowsMove
<1>2. \A run : \A t \in GlobalAdmins : LabelIn(run, t) \in AdminText
  BY RemediatorAssumption DEF LabelIn
<1>3. CASE Exists(i)
  <2>1. ~Recorded(i)
    BY AzureAssumption DEF Recorded, RecordsItsOwn
  <2> QED  BY <1>1, <1>3, <2>1, RowsKeepTheirTarget DEF AdminRowsSaySo
<1>4. CASE Fresh(i)
  <2>1. CASE Opened(i)
    <3>1. CASE req'[i].action = "revoke"
      <4>1. OnDisplay(req'[i].target, req'[i].label) /\ req'[i].label \in Labels
        BY <2>1, <3>1, OpenedRow DEF Opened, NewRow
      <4> QED  BY <1>2, <4>1 DEF OnDisplay, FloorAtStart
    <3>2. CASE req'[i].action = "drift"
      BY <1>2, <2>1, <3>2, OpenedRow
    <3>3. req'[i].action # "grant"
      BY <2>1, OpenedRow, AzureAssumption, TableAssumption
    <3> QED  BY <2>1, <3>1, <3>2, <3>3, OpenedRow DEF Actions
  <2>2. CASE RemovalQueued(i)
    BY <2>2, QueuedRow DEF AdminRowsSaySo
  <2> QED  BY <1>1, <1>4, <2>1, <2>2, NewRowsAreInserted
<1>5. CASE ~Exists(i) /\ ~Exists(i)'
  BY <1>1, <1>5, AbsentKeepsItsTarget DEF AdminRowsSaySo
<1> QED  BY <1>3, <1>4, <1>5 DEF Fresh

\* A step of another process leaves the remediator alone.
LEMMA RemediatorSteps ==
  ASSUME [Next]_vars
  PROVE  \/ UNCHANGED rmVars
         \/ RmList \/ RmPolicies \/ RmCount \/ RmFinish \/ RmCrash
         \/ \E i \in rmBatch : \/ RmSkip(i) \/ RmUnverified(i) \/ RmClaim(i) \/ RmDone(i)
                               \/ RmFail(i) \/ RmDelete(i) \/ RmDeleteRefused(i)
                               \/ RmDeleteLost(i)
BY DEF Next, Review, Administer, Provision, Remediate, RmNext, RmStep, RmQueueStep,
       RmDeleteStep, Collect, Portal, Expire, vars

\* The remediator never believes in more than that.
LEMMA CountStep ==
  ASSUME FloorAtStart, TypeOK, RemovesApproved, AdminRowsSaySo, CountIsSafe, RowsMove,
         [Next]_vars
  PROVE  CountIsSafe'
<1> DEFINE L == LiveGlobalAdmins + losses
<1> DEFINE M == LiveGlobalAdmins' + losses'
<1>1. L \in Nat /\ M \in Int /\ rmAdmins \in Int /\ MinGlobalAdmins \in Nat
  BY BelievableStays, RemediatorAssumption DEF TypeOK, RmTypeOK
<1>0. rmBatch \subseteq 1 .. MaxRequests /\ MaxRequests \in Nat
  BY TableAssumption DEF TypeOK, RmTypeOK, Ids
<1>2. /\ \A i \in rmBatch : req'[i].target = req[i].target
      /\ \A i \in rmBatch : req[i].target \in GlobalAdmins => req[i].label \in AdminText
  BY HeldRemovalsKeepTarget DEF AdminRowsSaySo, TypeOK, RmTypeOK
<1>3. ASSUME NEW i \in rmBatch, Current(rmBatch, i)
      PROVE  IsAdminInHand <=> req[i].target \in GlobalAdmins
  BY <1>0, <1>3 DEF IsAdminInHand, Current
<1>4. ASSUME NEW i \in rmBatch, Current(rmBatch, i), rmBatch' = rmBatch
      PROVE  IsAdminInHand' <=> req[i].target \in GlobalAdmins
  BY <1>0, <1>2, <1>4 DEF IsAdminInHand, Current
<1>5. CASE UNCHANGED rmVars
  <2>1. UNCHANGED <<rmPc, rmBatch, rmAdmins>> /\ ~\E i \in rmBatch : RmDelete(i)
    BY <1>5 DEF rmVars, RmDelete, RmGoto
  <2>2. L <= M
    BY <2>1, BelievableStays
  <2>3. IsAdminInHand' <=> IsAdminInHand
    BY <1>2, <2>1 DEF IsAdminInHand, Current
  <2> QED  BY <1>1, <2>1, <2>2, <2>3 DEF CountIsSafe
<1>6. CASE RmList \/ RmPolicies
  <2>1. /\ rmPc \in {"idle", "policies"} /\ rmPc' \in {"policies", "count"}
        /\ rmAdmins' = rmAdmins /\ ~\E i \in rmBatch : RmDelete(i)
    BY <1>6 DEF RmList, RmPolicies, RmGoto, RmDelete
  <2>2. L <= M
    BY <2>1, BelievableStays
  <2> QED  BY <1>1, <2>1, <2>2 DEF CountIsSafe
<1>7. CASE RmCount \/ RmFinish \/ RmCrash
  <2>1. /\ rmPc' \in {"gate", "idle"} /\ (rmAdmins' = LiveGlobalAdmins \/ rmAdmins' = -1)
        /\ ~\E i \in rmBatch : RmDelete(i)
    BY <1>7 DEF RmCount, RmFinish, RmCrash, RmDelete, RmGoto
  <2>2. L <= M
    BY <2>1, BelievableStays
  <2>3. rmAdmins' <= M
    BY <1>1, <2>1, <2>2, BelievableStays
  <2> QED  BY <2>1, <2>3 DEF CountIsSafe
<1>8. ASSUME NEW i \in rmBatch,
             \/ RmSkip(i) \/ RmUnverified(i) \/ RmFail(i)
             \/ RmDeleteRefused(i) \/ RmDeleteLost(i)
      PROVE  CountIsSafe'
  <2>1. /\ rmPc # "done" /\ rmPc' \in {"gate", "fail"} /\ rmAdmins' = rmAdmins
        /\ ~\E k \in rmBatch : RmDelete(k)
    BY <1>8 DEF RmSkip, RmUnverified, RmFail, RmDeleteRefused, RmDeleteLost, RmDelete, RmGoto
  <2>2. L <= M
    BY <2>1, BelievableStays
  <2> QED  BY <1>1, <2>1, <2>2 DEF CountIsSafe
<1>9. ASSUME NEW i \in rmBatch, RmClaim(i)
      PROVE  CountIsSafe'
  <2>1. /\ rmPc = "gate" /\ rmPc' = "delete" /\ rmAdmins' = rmAdmins /\ rmBatch' = rmBatch
        /\ Current(rmBatch, i) /\ ~AtFloor(i) /\ ~\E k \in rmBatch : RmDelete(k)
    BY <1>9 DEF RmClaim, RmDelete, RmGoto
  <2>2. L <= M
    BY <2>1, BelievableStays
  <2>3. req[i].target \in GlobalAdmins => rmAdmins > MinGlobalAdmins
    BY <1>1, <1>2, <2>1 DEF AtFloor, IsAdminRow
  <2> QED  BY <1>1, <1>4, <2>1, <2>2, <2>3 DEF CountIsSafe
<1>10. ASSUME NEW i \in rmBatch, RmDelete(i)
       PROVE  CountIsSafe'
  <2>1. /\ rmPc = "delete" /\ rmPc' = "done" /\ rmAdmins' = rmAdmins /\ rmBatch' = rmBatch
        /\ Current(rmBatch, i) /\ live' = live \ {req[i].target}
    BY <1>10 DEF RmDelete, RmGoto, Delete
  <2>2. L - 1 <= M /\ (req[i].target \notin GlobalAdmins => L <= M)
    BY <2>1, DeleteBelieved, Zenon
  <2> QED  BY <1>1, <1>3, <1>4, <2>1, <2>2 DEF CountIsSafe
<1>11. ASSUME NEW i \in rmBatch, RmDone(i)
       PROVE  CountIsSafe'
  <2>1. /\ rmPc = "done" /\ rmPc' = "gate" /\ Current(rmBatch, i)
        /\ req[i].target \in GlobalAdmins => rmAdmins' = rmAdmins - 1
        /\ rmAdmins' <= rmAdmins /\ rmAdmins' \in Int
        /\ ~\E k \in rmBatch : RmDelete(k)
    BY <1>1, <1>2, <1>11 DEF RmDone, RmDelete
  <2>2. L <= M
    BY <2>1, BelievableStays
  <2> QED  BY <1>1, <1>3, <2>1, <2>2 DEF CountIsSafe
<1> QED
  BY <1>5, <1>6, <1>7, <1>8, <1>9, <1>10, <1>11, RemediatorSteps

\* So it removes none too many, but for the deletions it missed.
LEMMA FloorStep ==
  ASSUME FloorAtStart, TypeOK, CountIsSafe, GlobalAdminFloor, [Next]_vars
  PROVE  GlobalAdminFloor'
<1> DEFINE L == LiveGlobalAdmins + losses
<1> DEFINE M == LiveGlobalAdmins' + losses'
<1>1. L \in Nat /\ M \in Int /\ rmAdmins \in Int /\ MinGlobalAdmins \in Nat
  BY BelievableStays, RemediatorAssumption DEF TypeOK, RmTypeOK
<1>2. ASSUME NEW i \in rmBatch, RmDelete(i)
      PROVE  GlobalAdminFloor'
  <2>1. rmPc = "delete" /\ Current(rmBatch, i) /\ live' = live \ {req[i].target}
    BY <1>2 DEF RmDelete, Delete
  <2>2. L - 1 <= M /\ (req[i].target \notin GlobalAdmins => L <= M)
    BY <2>1, DeleteBelieved, Zenon
  <2>3. req[i].target \in GlobalAdmins => rmAdmins > MinGlobalAdmins /\ rmAdmins <= L
    BY <2>1 DEF CountIsSafe, IsAdminInHand
  <2> QED  BY <1>1, <2>2, <2>3 DEF GlobalAdminFloor
<1>3. ASSUME \A i \in rmBatch : ~RmDelete(i)
      PROVE  GlobalAdminFloor'
  <2>1. L <= M
    BY <1>3, BelievableStays
  <2> QED  BY <1>1, <2>1 DEF GlobalAdminFloor
<1> QED  BY <1>2, <1>3

\* The invariant holds at the start.
LEMMA InitFloorInv ==
  ASSUME FloorAtStart
  PROVE  Init => FloorInv
<1> SUFFICES ASSUME Init PROVE FloorInv
  OBVIOUS
<1>1. LiveGlobalAdmins \in Nat /\ MinGlobalAdmins \in Nat
  BY InitTyped, AdminsCounted, RemediatorAssumption
<1>2. LiveGlobalAdmins >= MinGlobalAdmins
  BY DEF Init, AzureInit, LiveGlobalAdmins, FloorAtStart
<1>3. rmPc = "idle" /\ rmAdmins = -1 /\ losses = 0
  BY DEF Init, RmInit, FaultsInit
<1>4. CountIsSafe
  BY <1>1, <1>3 DEF CountIsSafe
<1>5. AdminRowsSaySo
  BY AzureAssumption, TableAssumption DEF Init, TableInit, NoRow, NewRow, AdminRowsSaySo
<1> QED  BY <1>1, <1>2, <1>3, <1>4, <1>5, InitTableInv DEF FloorInv, GlobalAdminFloor

\* Every step keeps it.
LEMMA StepFloorInv ==
  ASSUME FloorAtStart
  PROVE  FloorInv /\ [Next]_vars => FloorInv'
<1> SUFFICES ASSUME FloorInv, [Next]_vars PROVE FloorInv'
  OBVIOUS
<1>1. /\ TypeOK /\ RemovesApproved /\ RecordsItsOwn /\ TableInv
      /\ AdminRowsSaySo /\ CountIsSafe /\ GlobalAdminFloor
  BY DEF FloorInv, TableInv, Inv
<1>2. RowsMove
  BY StepMoves DEF FloorInv, TableInv, Inv
<1>3. TableInv' /\ AdminRowsSaySo'
  BY <1>1, <1>2, StepTableInv, AdminRowsSaySoStep
<1>4. CountIsSafe' /\ GlobalAdminFloor'
  BY <1>1, <1>2, CountStep, FloorStep
<1> QED  BY <1>3, <1>4 DEF FloorInv

(***************************************************************************)
(* When the number of Global Administrators is at or above the floor to    *)
(* begin with, people leave them alone and the forms call them what they   *)
(* are, every lost response costs at most one of them and nothing else     *)
(* does: the remediator, which counts them only once per cycle and never   *)
(* learns of such a deletion, removes no more than that, in however many   *)
(* cycles. Its gate reads the role from the row (cmd/remediator/main.go    *)
(* 136-145), which a form that says otherwise would mislead.               *)
(***************************************************************************)
THEOREM FloorIsKept ==
  ASSUME FloorAtStart
  PROVE  Spec => []GlobalAdminFloor
<1>1. FloorInv => GlobalAdminFloor
  BY DEF FloorInv
<1> QED  BY <1>1, InitFloorInv, StepFloorInv, PTL DEF Spec

\* So the floor holds as it stands when no response is lost, whatever else fails.
COROLLARY FloorIsKeptWithoutLosses ==
  ASSUME FloorAtStart, ResponsesArrive
  PROVE  Spec => [](LiveGlobalAdmins >= MinGlobalAdmins)
<1> DEFINE Kept == TypeOK /\ losses = 0
<1>1. Init => Kept
  BY InitTyped DEF Init, FaultsInit
<1>2. Kept /\ [Next]_vars => Kept'
  BY StepTyped, LossesGrow
<1>3. Kept /\ GlobalAdminFloor => LiveGlobalAdmins >= MinGlobalAdmins
  <2> SUFFICES ASSUME Kept, GlobalAdminFloor PROVE LiveGlobalAdmins >= MinGlobalAdmins
    OBVIOUS
  <2>1. LiveGlobalAdmins \in Nat
    BY AdminsCounted
  <2> QED  BY <2>1 DEF GlobalAdminFloor
<1> QED  BY <1>1, <1>2, <1>3, FloorIsKept, PTL DEF Spec

-----------------------------------------------------------------------------
\* The guards stay while the policy is stable.
LEMMA GuardStays ==
  ASSUME PolicyIsStable, [Next]_vars
  PROVE  guard' = guard
BY DEF PolicyIsStable, Next, Review, Administer, PolicyNext, SetTierPolicy, SetGuard,
       Provision, Remediate, Collect, Portal, Expire, policyVars, vars

\* The remediator works with the guards there are.
LEMMA GateHoldsStep ==
  ASSUME PolicyIsStable, TypeOK, RemovesApproved, GateHolds, RowsMove, [Next]_vars
  PROVE  GateHolds'
<1>1. guard' = guard
  BY GuardStays
<1>2. rmBatch \subseteq Ids /\ \A i \in rmBatch : req'[i].label = req[i].label
  BY HeldRemovalsKeepTarget DEF TypeOK, RmTypeOK
<1>3. CASE UNCHANGED rmVars
  BY <1>1, <1>2, <1>3 DEF rmVars, GateHolds, Guarded, Current
<1>4. CASE RmList \/ RmFinish \/ RmCrash
  BY <1>4 DEF RmList, RmFinish, RmCrash, RmGoto, GateHolds
<1>5. CASE RmPolicies
  BY <1>1, <1>5 DEF RmPolicies, Fault, PolicyIsStable, StatementsSucceed, GateHolds
<1>6. CASE RmCount
  BY <1>1, <1>6 DEF RmCount, GateHolds
<1>7. ASSUME NEW i \in rmBatch,
             \/ RmSkip(i) \/ RmUnverified(i) \/ RmDone(i) \/ RmFail(i)
             \/ RmDelete(i) \/ RmDeleteRefused(i) \/ RmDeleteLost(i)
      PROVE  GateHolds'
  BY <1>1, <1>7
  DEF RmSkip, RmUnverified, RmDone, RmFail, RmDelete, RmDeleteRefused, RmDeleteLost, RmGoto,
      GateHolds
<1>8. ASSUME NEW i \in rmBatch, RmClaim(i)
      PROVE  GateHolds'
  <2>1. /\ rmPc = "gate" /\ rmPc' = "delete" /\ rmBatch' = rmBatch /\ rmGuard' = rmGuard
        /\ Current(rmBatch, i) /\ ~Guarded(i)
    BY <1>8 DEF RmClaim, RmGoto
  <2>2. \A j \in rmBatch : Current(rmBatch, j) => j = i
    BY <1>2, <2>1, TableAssumption DEF Current, Ids
  <2> QED  BY <1>1, <1>2, <2>1, <2>2 DEF GateHolds, Guarded, Current
<1> QED  BY <1>3, <1>4, <1>5, <1>6, <1>7, <1>8, RemediatorSteps

\* The invariant holds at the start, and every step keeps it.
LEMMA GuardInvariance ==
  ASSUME PolicyIsStable, NamesAgree
  PROVE  Spec => []GuardInv
<1>1. Init => GuardInv
  BY InitNameInv DEF Init, RmInit, GuardInv, GateHolds
<1>2. GuardInv /\ [Next]_vars => GuardInv'
  <2> SUFFICES ASSUME GuardInv, [Next]_vars PROVE GuardInv'
    OBVIOUS
  <2>1. TypeOK /\ RemovesApproved /\ RowsMove /\ NameInv /\ GateHolds
    BY StepMoves DEF GuardInv, NameInv, TableInv, Inv
  <2>2. NameInv' /\ GateHolds'
    BY <2>1, StepNameInv, GateHoldsStep
  <2> QED  BY <2>2 DEF GuardInv
<1> QED  BY <1>1, <1>2, PTL DEF Spec

(***************************************************************************)
(* While administrators leave the guards as they are, the policy can be    *)
(* read, names resolve and forms agree with the tenant, the remediator     *)
(* never removes an assignment that is guarded.                            *)
(***************************************************************************)
THEOREM GuardsAreKept ==
  ASSUME PolicyIsStable, NamesAgree
  PROVE  Spec => GuardedNeverRevoked
<1>1. ASSUME GuardInv, [Next]_vars, NEW t \in Targets, RemovedByRemediator(t)
      PROVE  guard[Label[t]] = "open" /\ Label[t] \notin BreakGlass
  <2>1. PICK i \in rmBatch : RmDelete(i) \/ RmDeleteLost(i)
    BY <1>1 DEF RemovedByRemediator, Next, Review, Administer, Provision, Remediate,
                RmNext, RmStep, RmDeleteStep, RmDeleteRefused, Collect, Portal, Expire,
                azureVars, rmVars, vars
  <2>2. t = req[i].target /\ rmPc = "delete" /\ Current(rmBatch, i)
    BY <1>1, <2>1 DEF RemovedByRemediator, RmDelete, RmDeleteLost, Delete
  <2>3. i \in Ids /\ req[i].label = Label[t]
    BY <1>1, <2>2 DEF GuardInv, NameInv, TableInv, Inv, TypeOK, RmTypeOK, RowsTellTheText
  <2> QED  BY <1>1, <2>2, <2>3 DEF GuardInv, GateHolds, Guarded
<1>2. GuardInv /\ [Next]_vars =>
        [\A t \in Targets : RemovedByRemediator(t) =>
           guard[Label[t]] = "open" /\ Label[t] \notin BreakGlass]_vars
  BY <1>1
<1> QED  BY <1>2, GuardInvariance, PTL DEF Spec, GuardedNeverRevoked
=============================================================================
