-------------------------- MODULE GovLensTypeProofs -------------------------
(***************************************************************************)
(* Type correctness of the composed system, one lemma per component.       *)
(***************************************************************************)
EXTENDS GovLensInvariant, FiniteSetTheorems, TLAPS

\* A row written by id leaves the table and the fault counter well typed.
LEMMA WriteTyped ==
  ASSUME TableTypeOK, FaultsTypeOK, NEW i \in Ids, NEW row \in Row, Write(i, row)
  PROVE  TableTypeOK' /\ FaultsTypeOK'
BY FaultsAssumption DEF TableTypeOK, FaultsTypeOK, Write, NoFault, Fault, faultVars

\* So does a status the workers write.
LEMMA StatusTyped ==
  ASSUME TableTypeOK, FaultsTypeOK, NEW i \in Ids, NEW s \in Statuses,
         SetRequestStatus(i, s)
  PROVE  TableTypeOK' /\ FaultsTypeOK'
<1>1. [req[i] EXCEPT !.status = s] \in Row
  BY DEF TableTypeOK, Row
<1>2. Write(i, [req[i] EXCEPT !.status = s])
  BY DEF SetRequestStatus
<1> QED  BY <1>1, <1>2, WriteTyped

\* A failure is counted within its bound.
LEMMA FaultTyped ==
  ASSUME FaultsTypeOK, NEW kind, NoFault \/ Fault(kind)
  PROVE  FaultsTypeOK'
BY FaultsAssumption DEF FaultsTypeOK, NoFault, Fault, faultVars

\* A new row has a row's type.
LEMMA NewRowTyped ==
  ASSUME NEW a \in Actions, NEW t \in Targets \cup {NoTarget}, NEW l \in Labels,
         NEW s \in Statuses, NEW d \in Deciders
  PROVE  NewRow(a, t, l, s, d) \in Row
BY DEF NewRow, Row, Expiries

\* Inserting it leaves the table well typed.
LEMMA InsertTyped ==
  ASSUME TableTypeOK, NEW i \in Ids, NEW row \in Row, Insert(i, row)
  PROVE  TableTypeOK'
BY DEF TableTypeOK, Insert

-----------------------------------------------------------------------------
\* The initial state has its type.
LEMMA InitTyped == Init => TypeOK
<1> SUFFICES ASSUME Init PROVE TypeOK
  OBVIOUS
<1>1. TableTypeOK
  <2>1. NoRow \in Row
    BY NewRowTyped, TableAssumption DEF NoRow, Actions, Statuses, Deciders
  <2> QED  BY <2>1 DEF Init, TableInit, TableTypeOK
<1>2. FaultsTypeOK
  BY FaultsAssumption DEF Init, FaultsInit, FaultsTypeOK
<1>3. AzureTypeOK
  BY AzureAssumption, TableAssumption DEF Init, AzureInit, AzureTypeOK
<1>4. PolicyTypeOK
  BY DEF Init, PolicyInit, PolicyTypeOK
<1>5. GwTypeOK
  BY DEF Init, GwInit, GwTypeOK
<1>6. RmTypeOK
  BY DEF Init, RmInit, RmTypeOK, NoGuards, Guards
<1>7. ColTypeOK
  BY AzureAssumption DEF Init, ColInit, ColTypeOK, NoRun, Run
<1> QED  BY <1>1, <1>2, <1>3, <1>4, <1>5, <1>6, <1>7 DEF TypeOK

-----------------------------------------------------------------------------
\* The web application.
LEMMA ReviewTyped ==
  ASSUME TableTypeOK, PolicyTypeOK, ReviewNext
  PROVE  TableTypeOK'
<1>1. CASE RequestSubmit
  <2>1. PICK l \in Labels : Submit(NewRow("grant", NoTarget, l, "pending", "nobody"))
    BY <1>1, ReviewAssumption DEF RequestSubmit
  <2>2. NewRow("grant", NoTarget, l, "pending", "nobody") \in Row
    BY NewRowTyped DEF Actions, Statuses, Deciders
  <2> QED  BY <2>1, <2>2, InsertTyped DEF Submit
<1>2. ASSUME NEW i \in Ids, NEW s \in Statuses
      PROVE  /\ Decided(i, s) \in Row
             /\ [Decided(i, s) EXCEPT !.expires = "ahead"] \in Row
             /\ [Decided(i, s) EXCEPT !.expires = "none"] \in Row
  BY DEF TableTypeOK, Row, Decided, Deciders, Expiries
<1>3. ASSUME NEW i \in OnPage("grant"), DecideGrantRequest(i)
      PROVE  TableTypeOK'
  <2>1. i \in Ids
    BY DEF OnPage
  <2>2. /\ Decided(i, "rejected") \in Row
        /\ [Decided(i, "approved") EXCEPT !.expires = "ahead"] \in Row
        /\ [Decided(i, "approved") EXCEPT !.expires = "none"] \in Row
    BY <1>2, <2>1 DEF Statuses
  <2> QED
    BY <1>3, <2>1, <2>2 DEF DecideGrantRequest, UpdateRow, TableTypeOK
<1>4. ASSUME NEW i \in Ids, DecideRevokeRequest(i)
      PROVE  TableTypeOK'
  <2>1. Decided(i, "rejected") \in Row /\ Decided(i, "approved") \in Row
    BY <1>2 DEF Statuses
  <2> QED
    BY <1>4, <2>1 DEF DecideRevokeRequest, UpdateRow, TableTypeOK
<1>5. ASSUME NEW i \in OnPage("drift"), KeepDrift(i)
      PROVE  TableTypeOK'
  <2>1. i \in Ids
    BY DEF OnPage
  <2>2. /\ Decided(i, "blessed") \in Row
        /\ [Decided(i, "granted") EXCEPT !.expires = "ahead"] \in Row
    BY <1>2, <2>1 DEF Statuses
  <2> QED
    BY <1>5, <2>1, <2>2 DEF KeepDrift, UpdateRow, TableTypeOK
<1>6. ASSUME NEW i \in OnPage("drift"), RejectDrift(i)
      PROVE  TableTypeOK'
  <2>1. i \in Ids
    BY DEF OnPage
  <2>2. Decided(i, "rejected") \in Row
    BY <1>2, <2>1 DEF Statuses
  <2>3. NewRow("revoke", req[i].target, req[i].label, "approved", "nobody") \in Row
    <3>1. req[i].target \in Targets \cup {NoTarget} /\ req[i].label \in Labels
      BY <2>1 DEF TableTypeOK, Row
    <3> QED  BY <3>1, NewRowTyped DEF Actions, Statuses, Deciders
  <2> QED
    BY <1>6, <2>1, <2>2, <2>3 DEF RejectDrift, TableTypeOK
<1> QED  BY <1>1, <1>3, <1>4, <1>5, <1>6 DEF ReviewNext

\* Marking an assignment for removal.
LEMMA MarkTyped ==
  ASSUME TableTypeOK, Mark
  PROVE  TableTypeOK'
<1>1. PICK t \in Targets, l \in Labels : RevokeMark(t, l)
  BY DEF Mark
<1>2. NewRow("revoke", t, l, "pending", "nobody") \in Row
  BY NewRowTyped DEF Actions, Statuses, Deciders
<1> QED  BY <1>1, <1>2, InsertTyped DEF RevokeMark, Submit

-----------------------------------------------------------------------------
\* The expiry sweep's INSERT ... ON CONFLICT DO NOTHING.
LEMMA EnqueueTyped ==
  ASSUME TableTypeOK, NEW i \in Ids, EnqueueExpiryRevoke(i)
  PROVE  TableTypeOK'
<1> DEFINE row == NewRow("revoke", req[i].target, req[i].label, "approved", "grant-expiry")
<1>1. req[i].target \in Targets \cup {NoTarget} /\ req[i].label \in Labels
  BY DEF TableTypeOK, Row
<1>2. row \in Row
  BY <1>1, NewRowTyped DEF Actions, Statuses, Deciders
<1>3. InsertUnlessOpen(row)
  BY DEF EnqueueExpiryRevoke
<1> HIDE DEF row
<1>4. CASE UNCHANGED req
  BY <1>4 DEF TableTypeOK
<1>5. CASE \E k \in Ids : Insert(k, row)
  BY <1>2, <1>5, InsertTyped
<1> QED  BY <1>3, <1>4, <1>5 DEF InsertUnlessOpen

\* What the grant worker's queue steps touch.
GwTyped == TableTypeOK /\ FaultsTypeOK /\ AzureTypeOK /\ GwTypeOK

\* The PUT, its refusal and its lost response.
LEMMA GwPutTyped ==
  ASSUME GwTyped, GwPutStep
  PROVE  GwTyped'
<1> USE DEF GwTyped
<1>1. PICK i \in Ids : /\ i \in gwBatch
                       /\ GwPut(i) \/ GwPutRefused(i) \/ GwPutLost(i)
  BY DEF GwPutStep, GwTypeOK
<1>2. FaultsTypeOK'
  BY <1>1, FaultTyped DEF GwPut, GwPutRefused, GwPutLost
<1>3. TableTypeOK'
  BY <1>1 DEF GwPut, GwPutRefused, GwPutLost, TableTypeOK
<1>4. AzureTypeOK'
  <2>1. ASSUME NEW t \in Guids, Create(t, i)
        PROVE  AzureTypeOK'
    BY <2>1, AzureAssumption, TableAssumption DEF Create, AzureTypeOK, Ids
  <2>2. CASE UNCHANGED azureVars
    BY <2>2 DEF azureVars, AzureTypeOK
  <2> QED  BY <1>1, <2>1, <2>2 DEF GwPut, GwPutRefused, GwPutLost
<1>5. GwTypeOK'
  BY <1>1, AzureAssumption DEF GwPut, GwPutRefused, GwPutLost, GwGoto, GwTypeOK
<1> QED  BY <1>2, <1>3, <1>4, <1>5

\* Every step of the grant worker's that leaves Azure alone.
LEMMA GwQueueTyped ==
  ASSUME GwTyped, GwQueueStep
  PROVE  TableTypeOK' /\ FaultsTypeOK' /\ GwTypeOK'
<1> USE DEF GwTyped
<1>1. CASE GwProbeOk \/ GwProbeFail \/ GwProvisioned \/ GwSwept \/ GwList \/ GwExpired
  <2>1. TableTypeOK' /\ FaultsTypeOK'
    BY <1>1, FaultTyped
    DEF GwProbeOk, GwProbeFail, GwProvisioned, GwSwept, GwList, GwExpired, TableTypeOK
  <2>2. GwTypeOK'
    BY <1>1 DEF GwProbeOk, GwProbeFail, GwProvisioned, GwSwept, GwList, GwExpired,
                GwGoto, GwTypeOK, ListByStatus, ExpiredGrants
  <2> QED  BY <2>1, <2>2
<1>2. ASSUME NEW i \in gwBatch,
             GwSkip(i) \/ GwClaim(i) \/ GwFail(i) \/ GwMark(i)
      PROVE  TableTypeOK' /\ FaultsTypeOK' /\ GwTypeOK'
  <2>1. i \in Ids
    BY DEF GwTypeOK
  <2>2. \E s \in Statuses : SetRequestStatus(i, s)
    BY <1>2 DEF GwSkip, GwClaim, GwFail, GwMark, MarkGrantExpired, Statuses
  <2>3. GwTypeOK'
    BY <1>2 DEF GwSkip, GwClaim, GwFail, GwMark, GwGoto, GwTypeOK
  <2> QED  BY <2>1, <2>2, <2>3, StatusTyped
<1>3. ASSUME NEW i \in gwBatch, GwSkipUnread(i)
      PROVE  TableTypeOK' /\ FaultsTypeOK' /\ GwTypeOK'
  <2>1. [req[i] EXCEPT !.status = "skipped"] \in Row /\ i \in Ids
    BY DEF GwTypeOK, TableTypeOK, Row, Statuses
  <2>2. TableTypeOK'
    BY <1>3, <2>1 DEF GwSkipUnread, TableTypeOK
  <2>3. FaultsTypeOK' /\ GwTypeOK'
    BY <1>3, FaultTyped DEF GwSkipUnread, GwGoto, GwTypeOK
  <2> QED  BY <2>2, <2>3
<1>4. ASSUME NEW i \in gwBatch, GwRecord(i)
      PROVE  TableTypeOK' /\ FaultsTypeOK' /\ GwTypeOK'
  <2>1. i \in Ids
    BY DEF GwTypeOK
  <2>2. [req[i] EXCEPT !.status = "granted", !.target = gwIdent] \in Row
    BY <2>1 DEF TableTypeOK, Row, GwTypeOK, Statuses
  <2>3. TableTypeOK' /\ FaultsTypeOK'
    BY <1>4, <2>1, <2>2, WriteTyped DEF GwRecord, SetGrantProvisioned
  <2>4. GwTypeOK'
    BY <1>4 DEF GwRecord, GwTypeOK
  <2> QED  BY <2>3, <2>4
<1>5. ASSUME NEW i \in gwBatch, GwEnqueue(i)
      PROVE  TableTypeOK' /\ FaultsTypeOK' /\ GwTypeOK'
  <2>1. i \in Ids
    BY DEF GwTypeOK
  <2>2. FaultsTypeOK'
    BY <1>5, FaultTyped DEF GwEnqueue
  <2>3. TableTypeOK'
    <3>1. CASE UNCHANGED req
      BY <3>1 DEF TableTypeOK
    <3> QED  BY <1>5, <2>1, <3>1, EnqueueTyped DEF GwEnqueue
  <2>4. GwTypeOK'
    BY <1>5 DEF GwEnqueue, GwGoto, GwTypeOK
  <2> QED  BY <2>2, <2>3, <2>4
<1> QED  BY <1>1, <1>2, <1>3, <1>4, <1>5 DEF GwQueueStep

\* The grant worker as a whole.
LEMMA ProvisionTyped ==
  ASSUME TypeOK, Provision
  PROVE  TypeOK'
<1> USE DEF TypeOK
<1>1. PolicyTypeOK' /\ RmTypeOK' /\ ColTypeOK'
  BY DEF Provision, policyVars, rmVars, colVars, PolicyTypeOK, RmTypeOK, ColTypeOK
<1>2. CASE UNCHANGED azureVars /\ (GwQueueStep \/ GwCrash)
  <2>1. AzureTypeOK'
    BY <1>2 DEF azureVars, AzureTypeOK
  <2>2. CASE GwCrash
    <3>1. TableTypeOK' /\ GwTypeOK'
      BY <2>2 DEF GwCrash, TableTypeOK, GwTypeOK
    <3>2. FaultsTypeOK'
      BY <2>2, FaultTyped DEF GwCrash
    <3> QED  BY <1>1, <2>1, <3>1, <3>2
  <2>3. CASE GwQueueStep
    BY <1>1, <2>1, <2>3, GwQueueTyped DEF GwTyped
  <2> QED  BY <1>2, <2>2, <2>3
<1>3. CASE GwPutStep
  BY <1>1, <1>3, GwPutTyped DEF GwTyped
<1> QED  BY <1>2, <1>3 DEF Provision, GwNext, GwStep

-----------------------------------------------------------------------------
\* gaCount is an integer, because there are finitely many assignments.
LEMMA GlobalAdminsCounted == LiveGlobalAdmins \in Nat
<1>1. live \cap GlobalAdmins \in SUBSET Targets
  BY AzureAssumption
<1>2. IsFiniteSet(live \cap GlobalAdmins)
  BY <1>1, FS_Subset, RemediatorAssumption
<1> QED  BY <1>2, FS_CardinalityType DEF LiveGlobalAdmins

RmTyped == TableTypeOK /\ FaultsTypeOK /\ AzureTypeOK /\ PolicyTypeOK /\ RmTypeOK

\* The DELETE, its refusal and its lost response.
LEMMA RmDeleteTyped ==
  ASSUME RmTyped, RmDeleteStep
  PROVE  TableTypeOK' /\ FaultsTypeOK' /\ AzureTypeOK' /\ RmTypeOK'
<1> USE DEF RmTyped
<1>1. PICK i \in rmBatch : RmDelete(i) \/ RmDeleteRefused(i) \/ RmDeleteLost(i)
  BY DEF RmDeleteStep
<1>2. FaultsTypeOK'
  BY <1>1, FaultTyped DEF RmDelete, RmDeleteRefused, RmDeleteLost
<1>3. TableTypeOK' /\ AzureTypeOK'
  BY <1>1 DEF RmDelete, RmDeleteRefused, RmDeleteLost, Delete, azureVars,
              TableTypeOK, AzureTypeOK
<1>4. RmTypeOK'
  BY <1>1 DEF RmDelete, RmDeleteRefused, RmDeleteLost, RmGoto, RmTypeOK
<1> QED  BY <1>2, <1>3, <1>4

\* Every step of the remediator's that leaves Azure alone.
LEMMA RmQueueTyped ==
  ASSUME RmTyped, RmQueueStep
  PROVE  TableTypeOK' /\ FaultsTypeOK' /\ RmTypeOK'
<1> USE DEF RmTyped
<1>1. CASE RmList \/ RmFinish
  <2>1. TableTypeOK' /\ FaultsTypeOK'
    BY <1>1, FaultTyped DEF RmList, RmFinish, TableTypeOK
  <2>2. RmTypeOK'
    BY <1>1 DEF RmList, RmFinish, RmGoto, RmTypeOK, ListByStatus, NoGuards, Guards
  <2> QED  BY <2>1, <2>2
<1>2. CASE RmPolicies
  <2>1. TableTypeOK' /\ FaultsTypeOK'
    BY <1>2, FaultTyped DEF RmPolicies, TableTypeOK
  <2>2. rmGuard' \in [Labels -> Guards]
    BY <1>2 DEF RmPolicies, PolicyTypeOK, Guards
  <2> QED  BY <1>2, <2>1, <2>2 DEF RmPolicies, RmTypeOK
<1>3. CASE RmCount
  <2>1. TableTypeOK' /\ FaultsTypeOK'
    BY <1>3, FaultTyped DEF RmCount, TableTypeOK
  <2>2. rmAdmins' \in Int
    BY <1>3, GlobalAdminsCounted DEF RmCount
  <2> QED  BY <1>3, <2>1, <2>2 DEF RmCount, RmTypeOK
<1>4. ASSUME NEW i \in rmBatch,
             RmSkip(i) \/ RmUnverified(i) \/ RmClaim(i) \/ RmDone(i) \/ RmFail(i)
      PROVE  TableTypeOK' /\ FaultsTypeOK' /\ RmTypeOK'
  <2>1. i \in Ids
    BY DEF RmTypeOK
  <2>2. \E s \in Statuses : SetRequestStatus(i, s)
    BY <1>4 DEF RmSkip, RmUnverified, RmClaim, RmDone, RmFail, Statuses
  <2>3. RmTypeOK'
    BY <1>4 DEF RmSkip, RmUnverified, RmClaim, RmDone, RmFail, RmGoto, RmTypeOK
  <2> QED  BY <2>1, <2>2, <2>3, StatusTyped
<1> QED  BY <1>1, <1>2, <1>3, <1>4 DEF RmQueueStep

\* The remediator as a whole.
LEMMA RemediateTyped ==
  ASSUME TypeOK, Remediate
  PROVE  TypeOK'
<1> USE DEF TypeOK
<1>1. PolicyTypeOK' /\ GwTypeOK' /\ ColTypeOK'
  BY DEF Remediate, policyVars, gwVars, colVars, PolicyTypeOK, GwTypeOK, ColTypeOK
<1>2. CASE RmDeleteStep
  BY <1>1, <1>2, RmDeleteTyped DEF RmTyped
<1>3. CASE UNCHANGED azureVars /\ (RmQueueStep \/ RmCrash)
  <2>1. AzureTypeOK'
    BY <1>3 DEF azureVars, AzureTypeOK
  <2>2. CASE RmCrash
    <3>1. TableTypeOK' /\ RmTypeOK'
      BY <2>2 DEF RmCrash, TableTypeOK, RmTypeOK, NoGuards, Guards
    <3>2. FaultsTypeOK'
      BY <2>2, FaultTyped DEF RmCrash
    <3> QED  BY <1>1, <2>1, <3>1, <3>2
  <2>3. CASE RmQueueStep
    BY <1>1, <2>1, <2>3, RmQueueTyped DEF RmTyped
  <2> QED  BY <1>3, <2>2, <2>3
<1> QED  BY <1>2, <1>3 DEF Remediate, RmNext, RmStep

-----------------------------------------------------------------------------
\* The rows of one INSERT ... SELECT are drift requests.
LEMMA ReconcileTyped ==
  ASSUME TableTypeOK, ColTypeOK, InsertDrift(OutOfBand)
  PROVE  TableTypeOK'
<1>1. OutOfBand \subseteq Targets
  BY DEF OutOfBand, ColTypeOK, Run
<1>2. PICK new \in SUBSET Ids : \E pick \in [new -> OutOfBand] :
        req' = [i \in Ids |-> IF i \in new
                              THEN NewRow("drift", pick[i], LabelIn(newer, pick[i]),
                                          "pending", "nobody")
                              ELSE req[i]]
  BY DEF InsertDrift
<1>3. PICK pick \in [new -> OutOfBand] :
        req' = [i \in Ids |-> IF i \in new
                              THEN NewRow("drift", pick[i], LabelIn(newer, pick[i]),
                                          "pending", "nobody")
                              ELSE req[i]]
  BY <1>2
<1>4. ASSUME NEW i \in new
      PROVE  NewRow("drift", pick[i], LabelIn(newer, pick[i]),
                    "pending", "nobody") \in Row
  <2>1. pick[i] \in Targets
    BY <1>1, <1>4
  <2>2. LabelIn(newer, pick[i]) \in Labels
    BY <2>1, AzureAssumption DEF LabelIn
  <2> QED  BY <2>1, <2>2, NewRowTyped DEF Actions, Statuses, Deciders
<1> QED  BY <1>3, <1>4 DEF TableTypeOK

\* The collector as a whole.
LEMMA CollectTyped ==
  ASSUME TypeOK, Collect
  PROVE  TypeOK'
<1> USE DEF TypeOK
<1>1. AzureTypeOK' /\ PolicyTypeOK' /\ GwTypeOK' /\ RmTypeOK'
  BY DEF Collect, azureVars, policyVars, gwVars, rmVars,
         AzureTypeOK, PolicyTypeOK, GwTypeOK, RmTypeOK
<1>2. FaultsTypeOK'
  BY FaultTyped DEF Collect, ColNext, ColStep, ColRead, ReplaceRun, ReconcileDrift, ColCrash
<1>3. TableTypeOK'
  <2>1. CASE UNCHANGED req
    BY <2>1 DEF TableTypeOK
  <2> QED
    BY <2>1, ReconcileTyped
    DEF Collect, ColNext, ColStep, ColRead, ReplaceRun, ReconcileDrift, ColCrash
<1>4. ColTypeOK'
  <2>1. CASE ColRead
    <3>1. found' \in Run
      BY <2>1 DEF ColRead, OfKinds, AzureTypeOK, Run
    <3> QED  BY <2>1, <3>1 DEF ColRead, ColTypeOK
  <2>2. CASE ReplaceRun \/ ReconcileDrift \/ ColCrash
    BY <2>2 DEF ReplaceRun, ReconcileDrift, ColCrash, ColTypeOK, NoRun, Run
  <2> QED  BY <2>1, <2>2 DEF Collect, ColNext, ColStep
<1> QED  BY <1>1, <1>2, <1>3, <1>4

-----------------------------------------------------------------------------
\* Every step of the system keeps the type.
LEMMA StepTyped == TypeOK /\ [Next]_vars => TypeOK'
<1> SUFFICES ASSUME TypeOK, [Next]_vars PROVE TypeOK'
  OBVIOUS
<1> USE DEF TypeOK
<1>1. CASE Review
  <2>1. TableTypeOK'
    BY <1>1, ReviewTyped, MarkTyped DEF Review
  <2>2. FaultsTypeOK'
    BY <1>1, FaultTyped
    DEF Review, ReviewNext, Mark, RequestSubmit, RevokeMark, DecideGrantRequest,
        DecideRevokeRequest, KeepDrift, RejectDrift, Passes
  <2>3. /\ AzureTypeOK' /\ PolicyTypeOK'
        /\ GwTypeOK' /\ RmTypeOK' /\ ColTypeOK'
    BY <1>1 DEF Review, azureVars, policyVars, gwVars, rmVars, colVars,
                AzureTypeOK, PolicyTypeOK, GwTypeOK, RmTypeOK, ColTypeOK
  <2> QED  BY <2>1, <2>2, <2>3
<1>2. CASE Administer
  <2>1. PolicyTypeOK'
    BY <1>2, PolicyAssumption DEF Administer, PolicyNext, SetTierPolicy, SetGuard, PolicyTypeOK
  <2>2. /\ TableTypeOK' /\ FaultsTypeOK' /\ AzureTypeOK'
        /\ GwTypeOK' /\ RmTypeOK' /\ ColTypeOK'
    BY <1>2 DEF Administer, azureVars, gwVars, rmVars, colVars, TableTypeOK, FaultsTypeOK, faultVars,
                AzureTypeOK, GwTypeOK, RmTypeOK, ColTypeOK
  <2> QED  BY <2>1, <2>2
<1>3. CASE Provision
  BY <1>3, ProvisionTyped
<1>4. CASE Remediate
  BY <1>4, RemediateTyped
<1>5. CASE Collect
  BY <1>5, CollectTyped
<1>6. CASE Portal
  <2>1. AzureTypeOK'
    BY <1>6, AzureAssumption DEF Portal, PortalAdd, PortalRemove, Delete, AzureTypeOK
  <2>2. /\ TableTypeOK' /\ FaultsTypeOK' /\ PolicyTypeOK'
        /\ GwTypeOK' /\ RmTypeOK' /\ ColTypeOK'
    BY <1>6 DEF Portal, policyVars, gwVars, rmVars, colVars, TableTypeOK, FaultsTypeOK, faultVars,
                PolicyTypeOK, GwTypeOK, RmTypeOK, ColTypeOK
  <2> QED  BY <2>1, <2>2
<1>7. ASSUME NEW i \in Ids, Expire(i)
      PROVE  TypeOK'
  <2>1. TableTypeOK'
    BY <1>7 DEF Expire, ReachExpiry, TableTypeOK, Row, Expiries
  <2>2. /\ FaultsTypeOK' /\ AzureTypeOK' /\ PolicyTypeOK'
        /\ GwTypeOK' /\ RmTypeOK' /\ ColTypeOK'
    BY <1>7 DEF Expire, azureVars, policyVars, gwVars, rmVars, colVars, FaultsTypeOK, faultVars,
                AzureTypeOK, PolicyTypeOK, GwTypeOK, RmTypeOK, ColTypeOK
  <2> QED  BY <2>1, <2>2
<1>8. CASE UNCHANGED vars
  BY <1>8 DEF vars, azureVars, policyVars, gwVars, rmVars, colVars, TableTypeOK,
              FaultsTypeOK, faultVars, AzureTypeOK, PolicyTypeOK, GwTypeOK, RmTypeOK, ColTypeOK
<1> QED  BY <1>1, <1>2, <1>3, <1>4, <1>5, <1>6, <1>7, <1>8 DEF Next

(***************************************************************************)
(* Every variable keeps its type whatever the handlers, workers and the    *)
(* collector do, for any number of rows, assignments and faults: no        *)
(* statement writes a status, a decider or an ident the table has no       *)
(* meaning for.                                                            *)
(***************************************************************************)
THEOREM TypeCorrect == Spec => []TypeOK
BY InitTyped, StepTyped, PTL DEF Spec
=============================================================================
