------------------------- MODULE GovLensTableProofs -------------------------
(***************************************************************************)
(* OneOpenRowPerTarget, for every choice of inputs and failures, and       *)
(* ExpiredHasRevoke when names agree.  The latter rests on what a row      *)
(* names: a grant names only what the worker just created for it, drift    *)
(* only what nothing else accounts for, so no two requests other than      *)
(* removals name one assignment.                                           *)
(***************************************************************************)
EXTENDS GovLensSafetyProofs

\* The idents a PUT draws are idents, and neither is the empty one.
LEMMA GuidsAreTargets == /\ \A t \in Guids : t \in Targets /\ t # NoTarget
                         /\ \A t \in Targets : t # NoTarget
BY TableAssumption, AzureAssumption

\* The request in hand is one of the list, and only one.
LEMMA OneInHand ==
  ASSUME GwTypeOK, NEW i, NEW j, Current(gwBatch, i), Current(gwBatch, j)
  PROVE  i \in Ids /\ i \in gwBatch /\ i = j
BY TableAssumption DEF GwTypeOK, Current, Ids

-----------------------------------------------------------------------------
(***************************************************************************)
(* What the moves of a row do to what it names.                            *)
(***************************************************************************)

\* A row that is there stays, asks for the same in the same words, and names the
\* same assignment unless the ident of a new one is recorded in it.
LEMMA RowsKeepTheirTarget ==
  ASSUME TypeOK, NEW i \in Ids, RowMoves(i), Exists(i)
  PROVE  /\ Exists(i)' /\ req'[i].action = req[i].action
         /\ req'[i].label = req[i].label
         /\ \/ req'[i].target = req[i].target
            \/ ApprovedGrant(i) /\ OnWork(i) /\ Current(gwBatch, i) /\ Recorded(i)
BY DEF RowMoves, Untouched, Opened, RemovalQueued, Reviewed, Aged, ProvisionMoved, Handled,
       Recorded, MarkedExpired, Removed, Exists, TypeOK, TableTypeOK, Row, IsPending, OnWork,
       ApprovedGrant, ApprovedRevoke, RanOut

\* A row that was not there is a submission or a removal.
LEMMA NewRowsAreInserted ==
  ASSUME TypeOK, NEW i \in Ids, RowMoves(i), Fresh(i)
  PROVE  Opened(i) \/ RemovalQueued(i)
BY DEF RowMoves, Untouched, Reviewed, Aged, ProvisionMoved, MarkedExpired, Removed, Fresh,
       Exists, TypeOK, TableTypeOK, Row, IsPending, OnWork, RanOut

\* A row opened for review, column by column.
LEMMA OpenedRow ==
  ASSUME NEW i \in Ids, Opened(i)
  PROVE  /\ req[i].status = "absent" /\ req'[i].status = "pending"
         /\ req'[i].action \in Actions /\ req'[i].decidedBy = "nobody"
         /\ req'[i].action = "grant" => req'[i].target = NoTarget
         /\ req'[i].action = "revoke" =>
              /\ req'[i].target \in Targets /\ ~HasOpenRow(req'[i].target)
              /\ OnDisplay(req'[i].target, req'[i].label)
         /\ req'[i].action = "drift" =>
              /\ req'[i].target \in OutOfBand
              /\ req'[i].label = LabelIn(newer, req'[i].target)
<1>1. PICK a \in Actions, t \in Targets \cup {NoTarget}, l \in Labels :
        /\ req'[i] = NewRow(a, t, l, "pending", "nobody")
        /\ a = "grant"  => t = NoTarget
        /\ a = "revoke" => t \in Targets /\ OnDisplay(t, l) /\ ~HasOpenRow(t)
        /\ a = "drift"  => t \in OutOfBand /\ l = LabelIn(newer, t)
  BY DEF Opened
<1>2. /\ req'[i].action = a /\ req'[i].target = t /\ req'[i].label = l
      /\ req'[i].status = "pending" /\ req'[i].decidedBy = "nobody"
  BY <1>1 DEF NewRow
<1> QED  BY <1>1, <1>2 DEF Opened

\* A removal queued approved, column by column.
LEMMA QueuedRow ==
  ASSUME NEW i \in Ids, RemovalQueued(i)
  PROVE  /\ req[i].status = "absent"
         /\ req'[i].status = "approved" /\ req'[i].action = "revoke"
         /\ req'[i].decidedBy \in {"nobody", "grant-expiry"}
         /\ \E k \in Ids : /\ Exists(k) /\ req'[i].target = req[k].target
                           /\ req'[i].label = req[k].label
<1>1. PICK k \in Ids, t \in Targets \cup {NoTarget}, d \in {"nobody", "grant-expiry"} :
        /\ Exists(k) /\ req[k].target = t
        /\ req'[i] = NewRow("revoke", t, req[k].label, "approved", d)
  BY DEF RemovalQueued
<1>2. /\ req'[i].action = "revoke" /\ req'[i].target = t /\ req'[i].label = req[k].label
      /\ req'[i].status = "approved" /\ req'[i].decidedBy = d
  BY <1>1 DEF NewRow
<1> QED  BY <1>1, <1>2 DEF RemovalQueued

\* It takes the place of an open row about the assignment, if there is one.
LEMMA QueuedFreesTarget ==
  ASSUME NEW i \in Ids, RemovalQueued(i), HasOpenRow(req'[i].target)
  PROVE  \E k \in Ids : req[k].target = req'[i].target /\ IsOpen(k) /\ ~IsOpen(k)'
<1>1. PICK k \in Ids, t \in Targets \cup {NoTarget}, d \in {"nobody", "grant-expiry"} :
        /\ req[k].target = t
        /\ req'[i] = NewRow("revoke", t, req[k].label, "approved", d)
        /\ HasOpenRow(t) => IsOpen(k) /\ ~IsOpen(k)'
  BY DEF RemovalQueued, IsOpen
<1>2. req'[i].target = t
  BY <1>1 DEF NewRow
<1> QED  BY <1>1, <1>2 DEF IsOpen

\* A row that is not there names nothing new.
LEMMA AbsentKeepsItsTarget ==
  ASSUME TypeOK, NEW i \in Ids, RowMoves(i), ~Exists(i), ~Exists(i)'
  PROVE  req'[i].target = req[i].target /\ req'[i].label = req[i].label
<1>1. CASE Untouched(i) \/ Aged(i)
  BY <1>1 DEF Untouched, Aged, TypeOK, TableTypeOK, Row
<1>2. ~Opened(i) /\ ~RemovalQueued(i)
  BY OpenedRow, QueuedRow DEF Exists
<1>3. ~(Reviewed(i) \/ ProvisionMoved(i) \/ MarkedExpired(i) \/ Removed(i))
  BY DEF Reviewed, ProvisionMoved, MarkedExpired, Removed, Exists, IsPending, OnWork, RanOut
<1> QED  BY <1>1, <1>2, <1>3 DEF RowMoves

\* A row that is open afterwards and was there before was open before.
LEMMA OpenWasOpen ==
  ASSUME TypeOK, NEW i \in Ids, RowMoves(i), Exists(i), IsOpen(i)'
  PROVE  IsOpen(i) /\ req'[i].target = req[i].target
BY DEF RowMoves, Untouched, Opened, RemovalQueued, Reviewed, Aged, ProvisionMoved, Handled,
       Recorded, MarkedExpired, Removed, Exists, TypeOK, TableTypeOK, Row, IsPending, OnWork,
       ApprovedGrant, ApprovedRevoke, RanOut, IsOpen, OpenStatuses

\* A removal request never goes away.
LEMMA RemovalRequestStays ==
  ASSUME TypeOK, RowsMove, NEW t, HasRemovalRequest(t)
  PROVE  HasRemovalRequest(t)'
<1>1. PICK k \in Ids : Exists(k) /\ req[k].action = "revoke" /\ req[k].target = t
  BY DEF HasRemovalRequest
<1>2. Exists(k)' /\ req'[k].action = "revoke" /\ req'[k].target = t
  BY <1>1, RowsKeepTheirTarget DEF RowsMove, ApprovedGrant
<1> QED  BY <1>2 DEF HasRemovalRequest

-----------------------------------------------------------------------------
(***************************************************************************)
(* What the steps do to what was created and seen.                         *)
(***************************************************************************)

\* What an assignment was created for is never rewritten.
LEMMA OriginStays ==
  ASSUME TypeOK, [Next]_vars, NEW t \in Targets, origin[t] # 0
  PROVE  origin'[t] = origin[t]
<1> SUFFICES ASSUME origin'[t] # origin[t] PROVE FALSE
  OBVIOUS
<1>1. PICK i \in gwBatch : GwPut(i) \/ GwPutLost(i)
  BY DEF Next, Review, Administer, Provision, GwNext, GwStep, GwPutStep, GwPutRefused,
         Remediate, RmNext, RmStep, RmDeleteStep, RmDelete, RmDeleteRefused, RmDeleteLost,
         Collect, Portal, PortalAdd, PortalRemove, Delete, Expire, azureVars, vars
<1>2. PICK u \in Guids : Create(u, i)
  BY <1>1 DEF GwPut, GwPutLost
<1> QED  BY <1>2 DEF Create, TypeOK, AzureTypeOK

\* Nothing shows up under an ident of the worker's but by its PUT.
LEMMA SeenStep ==
  ASSUME TypeOK, SeenWasCreated, [Next]_vars
  PROVE  SeenWasCreated'
<1> DEFINE Seen == live \cup found.seen \cup newer.seen \cup older.seen
<1> SUFFICES ASSUME NEW t \in Guids, t \in Seen'
             PROVE  origin'[t] # 0
  BY DEF SeenWasCreated
<1>1. t \in Targets
  BY GuidsAreTargets
<1>2. CASE t \in Seen
  BY <1>1, <1>2, OriginStays DEF SeenWasCreated
<1>3. CASE t \notin Seen
  <2>1. CASE t \in live'
    <3>1. CASE Provision
      <4>1. PICK i \in gwBatch : GwPut(i) \/ GwPutLost(i)
        BY <1>3, <2>1, <3>1 DEF Provision, GwNext, GwStep, GwPutStep, GwPutRefused, azureVars
      <4>2. PICK u \in Guids : Create(u, i)
        BY <4>1 DEF GwPut, GwPutLost
      <4>3. i \in Ids /\ i # 0
        BY TableAssumption DEF TypeOK, GwTypeOK, Ids
      <4> QED  BY <1>1, <1>3, <2>1, <4>2, <4>3 DEF Create, TypeOK, AzureTypeOK
    <3>2. CASE Portal
      BY <1>3, <2>1, <3>2, AzureAssumption DEF Portal, PortalAdd, PortalRemove, Delete
    <3>3. ~(Provision \/ Portal) => live' \subseteq live
      BY DEF Next, Review, Administer, Remediate, RmNext, RmStep, RmDeleteStep, RmDelete,
             RmDeleteRefused, RmDeleteLost, Delete, Collect, Expire, azureVars, vars
    <3> QED  BY <1>3, <2>1, <3>1, <3>2, <3>3
  <2>2. ASSUME t \notin live'
        PROVE  FALSE
    <3>1. CASE Collect
      BY <1>3, <2>2, <3>1 DEF Collect, ColNext, ColStep, ColRead, OfKinds, ReplaceRun,
                              ReconcileDrift, ColCrash, NoRun, azureVars
    <3>2. CASE UNCHANGED colVars
      BY <1>3, <2>2, <3>2 DEF colVars
    <3> QED
      BY <3>1, <3>2
      DEF Next, Review, Administer, Provision, Remediate, Portal, Expire, vars
  <2> QED  BY <2>1, <2>2
<1> QED  BY <1>2, <1>3

-----------------------------------------------------------------------------
(***************************************************************************)
(* The parts of TableInv, one by one.                                      *)
(***************************************************************************)

\* A row names its assignment late.
LEMMA GrantsNamedLateStep ==
  ASSUME TypeOK, TypeOK', GrantsNamedLate, RecordsItsOwn, RowsMove
  PROVE  GrantsNamedLate'
<1> DEFINE Late(i) ==
      /\ req[i].action = "grant" =>
           IF req[i].status \in {"granted", "expired"}
           THEN req[i].target \in Guids ELSE req[i].target = NoTarget
      /\ req[i].action = "drift" => req[i].target \in Targets
<1> SUFFICES ASSUME NEW i \in Ids, Exists(i)'
             PROVE  Late(i)'
  BY DEF GrantsNamedLate
<1>1. RowMoves(i)
  BY DEF RowsMove
<1>2. CASE ~Exists(i)
  <2>1. Opened(i) \/ RemovalQueued(i)
    BY <1>1, <1>2, NewRowsAreInserted DEF Fresh
  <2>2. \A t \in OutOfBand : t \in Targets
    BY DEF OutOfBand, TypeOK, ColTypeOK, Run
  <2> QED  BY <2>1, <2>2, OpenedRow, QueuedRow
<1>3. CASE Exists(i)
  <2>1. Late(i)
    BY <1>3 DEF GrantsNamedLate
  <2>2. CASE Untouched(i) \/ Reviewed(i) \/ Aged(i) \/ MarkedExpired(i) \/ Removed(i)
    BY <1>3, <2>1, <2>2 DEF Untouched, Reviewed, Aged, MarkedExpired, Removed, IsPending,
         TypeOK, TableTypeOK, Row, RanOut, ApprovedRevoke
  <2>3. CASE ProvisionMoved(i)
    BY <2>1, <2>3 DEF ProvisionMoved, Recorded, Handled, OnWork, ApprovedGrant, RecordsItsOwn
  <2>4. ~Opened(i) /\ ~RemovalQueued(i)
    BY <1>3 DEF Opened, RemovalQueued, Exists
  <2> QED  BY <1>1, <2>2, <2>3, <2>4 DEF RowMoves
<1> QED  BY <1>2, <1>3

\* A row names no ident of the worker's before its PUT.
LEMMA NamedWasCreatedStep ==
  ASSUME TypeOK, SeenWasCreated, NamedWasCreated, RecordsItsOwn, RowsMove, [Next]_vars
  PROVE  NamedWasCreated'
<1> SUFFICES ASSUME NEW i \in Ids, req'[i].target \in Guids
             PROVE  origin'[req'[i].target] # 0
  BY DEF NamedWasCreated
<1>1. RowMoves(i)
  BY DEF RowsMove
<1>2. PICK t \in Targets : t = req'[i].target /\ t \in Guids /\ t # NoTarget
  BY GuidsAreTargets
<1>3. origin[t] # 0
  <2>1. CASE Exists(i)
    <3>1. CASE req'[i].target = req[i].target
      BY <1>2, <3>1 DEF NamedWasCreated
    <3>2. CASE Current(gwBatch, i) /\ Recorded(i)
      <4>1. t = gwIdent /\ origin[t] = i /\ i # 0
        BY <1>2, <3>2, OneInHand, TableAssumption DEF Recorded, RecordsItsOwn, TypeOK, Ids
      <4> QED  BY <4>1
    <3> QED  BY <1>1, <2>1, <3>1, <3>2, RowsKeepTheirTarget
  <2>2. CASE Fresh(i)
    <3>1. CASE Opened(i)
      <4>1. req'[i].action \in {"revoke", "drift"}
        BY <1>2, <3>1, OpenedRow DEF Actions
      <4>2. t \in newer.seen \cup older.seen
        BY <1>2, <3>1, <4>1, OpenedRow, ReviewAssumption DEF OutOfBand, OnDisplay
      <4> QED  BY <1>2, <4>2 DEF SeenWasCreated
    <3>2. CASE RemovalQueued(i)
      BY <1>2, <3>2, QueuedRow DEF NamedWasCreated
    <3> QED  BY <1>1, <2>2, <3>1, <3>2, NewRowsAreInserted
  <2>3. CASE ~Exists(i) /\ ~Exists(i)'
    <3>1. req'[i].target = req[i].target
      BY <1>1, <2>3, AbsentKeepsItsTarget
    <3> QED  BY <1>2, <3>1 DEF NamedWasCreated
  <2> QED  BY <2>1, <2>2, <2>3 DEF Fresh
<1> QED  BY <1>2, <1>3, OriginStays

\* The worker has an ident to record only after its PUT.
LEMMA RecordEntered ==
  ASSUME [Next]_vars, gwPc' = "record"
  PROVE  (\E i \in gwBatch : GwPut(i)) \/ UNCHANGED gwVars
<1>1. CASE Provision
  BY <1>1 DEF Provision, GwNext, GwStep, GwPutStep, GwQueueStep, GwPut, GwPutRefused,
       GwPutLost, GwCrash, GwProbeOk, GwProbeFail, GwList, GwProvisioned, GwExpired, GwSwept,
       GwSkip, GwSkipUnread, GwClaim, GwRecord, GwFail, GwEnqueue, GwMark, GwGoto
<1>2. CASE UNCHANGED gwVars
  BY <1>2
<1> QED
  BY <1>1, <1>2 DEF Next, Review, Administer, Remediate, Collect, Portal, Expire, vars

\* The ident in hand belongs to the request in hand.
LEMMA RecordsItsOwnStep ==
  ASSUME TypeOK, RecordsItsOwn, [Next]_vars
  PROVE  RecordsItsOwn'
<1> SUFFICES ASSUME gwPc' = "record"
             PROVE  gwIdent' \in Guids /\ Current(gwBatch', origin'[gwIdent'])
  BY DEF RecordsItsOwn, Current
<1>1. ASSUME NEW i \in gwBatch, GwPut(i)
      PROVE  gwIdent' \in Guids /\ Current(gwBatch', origin'[gwIdent'])
  <2>1. PICK t \in Guids : Create(t, i) /\ gwIdent' = t
    BY <1>1 DEF GwPut
  <2>2. t \in Targets /\ origin'[t] = i
    BY <2>1, GuidsAreTargets DEF Create, TypeOK, AzureTypeOK
  <2>3. gwBatch' = gwBatch /\ Current(gwBatch, i)
    BY <1>1 DEF GwPut
  <2> QED  BY <2>1, <2>2, <2>3
<1>2. CASE UNCHANGED gwVars
  <2>1. gwPc = "record" /\ gwIdent' = gwIdent /\ gwBatch' = gwBatch
    BY <1>2 DEF gwVars
  <2>2. gwIdent \in Guids /\ gwIdent \in Targets /\ Current(gwBatch, origin[gwIdent])
    BY <2>1, GuidsAreTargets DEF RecordsItsOwn
  <2>3. origin[gwIdent] # 0
    BY <2>2, TableAssumption DEF Current, TypeOK, GwTypeOK, Ids
  <2> QED  BY <2>1, <2>2, <2>3, OriginStays
<1> QED  BY <1>1, <1>2, RecordEntered

\* A PUT carries the text of its request, and no request changes its text.
LEMMA CreatedAsAskedStep ==
  ASSUME TypeOK, AccessNeedsApproval, CreatedAsAsked, RowsMove, [Next]_vars
  PROVE  CreatedAsAsked'
<1> SUFFICES ASSUME NEW t \in Targets, origin'[t] # 0
             PROVE  Label[t] = Spelling[req'[origin'[t]].label]
  BY DEF CreatedAsAsked
<1>1. CASE origin[t] # 0
  <2>1. origin'[t] = origin[t]
    BY <1>1, OriginStays
  <2>2. PICK i \in Ids : i = origin[t]
    BY <1>1, TableAssumption DEF TypeOK, AzureTypeOK, Ids
  <2>3. Exists(i)
    BY <1>1, <2>2 DEF AccessNeedsApproval, Exists
  <2>4. req'[i].label = req[i].label
    BY <2>3, RowsKeepTheirTarget DEF RowsMove
  <2> QED  BY <1>1, <2>1, <2>2, <2>4 DEF CreatedAsAsked
<1>2. CASE origin[t] = 0
  <2>1. PICK i \in gwBatch : GwPut(i) \/ GwPutLost(i)
    BY <1>2 DEF Next, Review, Administer, Provision, GwNext, GwStep, GwPutStep, GwPutRefused,
           Remediate, RmNext, RmStep, RmDeleteStep, RmDelete, RmDeleteRefused, RmDeleteLost,
           Collect, Portal, PortalAdd, PortalRemove, Delete, Expire, azureVars, vars
  <2>2. PICK u \in Guids : Create(u, i)
    BY <2>1 DEF GwPut, GwPutLost
  <2>3. req' = req
    BY <2>1 DEF GwPut, GwPutLost
  <2> QED  BY <1>2, <2>2, <2>3 DEF Create, TypeOK, AzureTypeOK
<1> QED  BY <1>1, <1>2

\* No step opens a second row for an assignment.
LEMMA OneOpenRowStep ==
  ASSUME TypeOK, OneOpenRowPerTarget, RowsMove
  PROVE  OneOpenRowPerTarget'
<1> SUFFICES ASSUME NEW i \in Ids, NEW j \in Ids, IsOpen(i)', IsOpen(j)',
                    req'[i].target = req'[j].target, req'[i].target # NoTarget
             PROVE  i = j
  BY DEF OneOpenRowPerTarget
<1>1. RowMoves(i) /\ RowMoves(j) /\ Exists(i)' /\ Exists(j)'
  BY DEF RowsMove, IsOpen, OpenStatuses, Exists
<1>2. ASSUME NEW k \in Ids, NEW l \in Ids, IsOpen(k)', IsOpen(l)', Fresh(k), Exists(l),
             req'[k].target = req'[l].target, req'[k].target # NoTarget
      PROVE  FALSE
  <2>1. IsOpen(l) /\ req[l].target = req'[k].target
    BY <1>2, OpenWasOpen DEF RowsMove
  <2>2. HasOpenRow(req'[k].target) /\ Attributed(req'[k].target)
    BY <1>2, <2>1 DEF HasOpenRow, Attributed
  <2>3. ~Opened(k)
    BY <1>2, <2>2, OpenedRow DEF Actions, OutOfBand
  <2>4. RemovalQueued(k)
    BY <1>2, <2>3, NewRowsAreInserted DEF RowsMove
  <2>5. PICK s \in Ids : /\ req[s].target = req'[k].target
                         /\ IsOpen(s) /\ ~IsOpen(s)'
    BY <2>2, <2>4, QueuedFreesTarget
  <2>6. s = l
    BY <1>2, <2>1, <2>5 DEF OneOpenRowPerTarget
  <2> QED  BY <1>2, <2>5, <2>6
<1>3. CASE Exists(i) /\ Exists(j)
  BY <1>1, <1>3, OpenWasOpen DEF OneOpenRowPerTarget
<1>4. CASE Fresh(i) /\ Fresh(j)
  BY <1>4 DEF RowsMove, FreshApart
<1> QED  BY <1>1, <1>2, <1>3, <1>4 DEF Fresh

-----------------------------------------------------------------------------
\* The invariant holds at the start.
LEMMA InitTableInv == Init => TableInv
<1> SUFFICES ASSUME Init PROVE TableInv
  OBVIOUS
<1>1. \A i \in Ids : req[i].status = "absent" /\ req[i].target = NoTarget
  BY DEF Init, TableInit, NoRow, NewRow
<1>2. RecordsItsOwn /\ CreatedAsAsked
  BY DEF Init, GwInit, AzureInit, RecordsItsOwn, CreatedAsAsked
<1>3. SeenWasCreated
  BY AzureAssumption DEF Init, AzureInit, ColInit, NoRun, SeenWasCreated
<1>4. NamedWasCreated
  BY <1>1, GuidsAreTargets DEF NamedWasCreated
<1>5. GrantsNamedLate /\ OneOpenRowPerTarget
  BY <1>1 DEF GrantsNamedLate, OneOpenRowPerTarget, IsOpen, OpenStatuses, Exists
<1> QED  BY <1>2, <1>3, <1>4, <1>5, InitInv DEF TableInv

\* Every step keeps it.
LEMMA StepTableInv == TableInv /\ [Next]_vars => TableInv'
<1> SUFFICES ASSUME TableInv, [Next]_vars PROVE TableInv'
  OBVIOUS
<1> USE DEF TableInv
<1>1. Inv' /\ TypeOK /\ TypeOK' /\ AccessNeedsApproval
      /\ ProvisionsApproved /\ SweepsRanOut /\ RemovesApproved
  BY StepInv DEF Inv
<1>2. RowsMove
  BY <1>1, StepMoves
<1>3. GrantsNamedLate' /\ SeenWasCreated' /\ NamedWasCreated'
  BY <1>1, <1>2, GrantsNamedLateStep, SeenStep, NamedWasCreatedStep
<1>4. RecordsItsOwn' /\ CreatedAsAsked'
  BY <1>1, <1>2, RecordsItsOwnStep, CreatedAsAskedStep
<1>5. OneOpenRowPerTarget'
  BY <1>1, <1>2, OneOpenRowStep
<1> QED  BY <1>1, <1>3, <1>4, <1>5

(***************************************************************************)
(* The inductive invariant of the table holds in every behaviour.          *)
(***************************************************************************)
THEOREM TableInvariance == Spec => []TableInv
BY InitTableInv, StepTableInv, PTL DEF Spec

(***************************************************************************)
(* No assignment ever has two open requests, although only the INSERTs     *)
(* look at the partial unique index and the UPDATEs of decisions and       *)
(* workers do not.                                                         *)
(***************************************************************************)
THEOREM OpenRowsAreApart == Spec => []OneOpenRowPerTarget
<1>1. TableInv => OneOpenRowPerTarget
  BY DEF TableInv
<1> QED  BY <1>1, TableInvariance, PTL

-----------------------------------------------------------------------------
(***************************************************************************)
(* The parts of NameInv, one by one: when names agree.                     *)
(***************************************************************************)

\* Every run has its names.
LEMMA RunsResolvedStep ==
  ASSUME NamesAgree, RunsResolved, [Next]_vars
  PROVE  RunsResolved'
<1>1. CASE Collect
  <2>1. CASE ColRead
    <3>1. ~Fault("names")
      BY DEF Fault, NamesAgree
    <3>2. \E s, k : found' = [seen |-> s, raw |-> {}, sources |-> k]
      BY <2>1, <3>1, Zenon DEF ColRead
    <3>3. found'.raw = {}
      BY <3>2
    <3> QED  BY <2>1, <3>3 DEF ColRead, RunsResolved
  <2>2. CASE ReplaceRun
    BY <2>2 DEF ReplaceRun, NoRun, RunsResolved
  <2>3. CASE ReconcileDrift \/ ColCrash
    BY <2>3 DEF ReconcileDrift, ColCrash, NoRun, RunsResolved
  <2> QED  BY <1>1, <2>1, <2>2, <2>3 DEF Collect, ColNext, ColStep
<1>2. CASE UNCHANGED colVars
  BY <1>2 DEF colVars, RunsResolved
<1> QED
  BY <1>1, <1>2 DEF Next, Review, Administer, Provision, Remediate, Portal, Expire, vars

\* What the request in hand created has the text of the request.
LEMMA IdentHasItsText ==
  ASSUME TypeOK, NamesAgree, RecordsItsOwn, CreatedAsAsked, gwPc = "record"
  PROVE  \E i \in Ids : /\ i = origin[gwIdent] /\ Current(gwBatch, i)
                        /\ gwIdent \in Targets /\ req[i].label = Label[gwIdent]
<1>1. gwIdent \in Targets /\ Current(gwBatch, origin[gwIdent])
  BY GuidsAreTargets DEF RecordsItsOwn
<1>2. PICK i \in Ids : i = origin[gwIdent] /\ i # 0
  <2>1. origin[gwIdent] \in Ids
    BY <1>1 DEF Current, TypeOK, GwTypeOK
  <2> QED  BY <2>1, TableAssumption DEF Ids
<1>3. req[i].label \in Labels
  BY DEF TypeOK, TableTypeOK, Row
<1>4. Label[gwIdent] = Spelling[req[i].label]
  BY <1>1, <1>2 DEF CreatedAsAsked
<1> QED  BY <1>1, <1>2, <1>3, <1>4 DEF NamesAgree

\* Every row calls its assignment what the tenant calls it.
LEMMA RowsTellTheTextStep ==
  ASSUME TypeOK, NamesAgree, RunsResolved, RecordsItsOwn, CreatedAsAsked, RowsTellTheText,
         RowsMove
  PROVE  RowsTellTheText'
<1> SUFFICES ASSUME NEW i \in Ids, req'[i].target \in Targets
             PROVE  req'[i].label = Label[req'[i].target]
  BY DEF RowsTellTheText
<1>1. RowMoves(i)
  BY DEF RowsMove
<1>2. CASE Exists(i)
  <2>1. CASE req'[i].target = req[i].target
    BY <1>1, <1>2, <2>1, RowsKeepTheirTarget DEF RowsTellTheText
  <2>2. CASE Current(gwBatch, i) /\ Recorded(i)
    <3>1. gwPc = "record" /\ req'[i].target = gwIdent
      BY <2>2 DEF Recorded
    <3>2. req[i].label = Label[gwIdent]
      BY <2>2, <3>1, IdentHasItsText, OneInHand DEF TypeOK
    <3> QED  BY <1>1, <1>2, <3>1, <3>2, RowsKeepTheirTarget
  <2> QED  BY <1>1, <1>2, <2>1, <2>2, RowsKeepTheirTarget
<1>3. CASE Fresh(i)
  <2>1. CASE Opened(i)
    <3>1. CASE req'[i].action = "revoke"
      <4>1. OnDisplay(req'[i].target, req'[i].label) /\ req'[i].label \in Labels
        BY <2>1, <3>1, OpenedRow DEF Opened, NewRow
      <4> QED  BY <4>1 DEF OnDisplay, LabelIn, RunsResolved, NamesAgree
    <3>2. CASE req'[i].action = "drift"
      BY <2>1, <3>2, OpenedRow DEF LabelIn, RunsResolved
    <3>3. req'[i].action # "grant"
      BY <2>1, OpenedRow, GuidsAreTargets
    <3> QED  BY <2>1, <3>1, <3>2, <3>3, OpenedRow DEF Actions
  <2>2. CASE RemovalQueued(i)
    BY <2>2, QueuedRow DEF RowsTellTheText
  <2> QED  BY <1>1, <1>3, <2>1, <2>2, NewRowsAreInserted
<1>4. CASE ~Exists(i) /\ ~Exists(i)'
  BY <1>1, <1>4, AbsentKeepsItsTarget DEF RowsTellTheText
<1> QED  BY <1>2, <1>3, <1>4 DEF Fresh

\* What is accounted for is not out of band.
LEMMA IdentInHandIsAccountedFor ==
  ASSUME TypeOK, NamesAgree, RunsResolved, ProvisionsApproved, RecordsItsOwn, CreatedAsAsked,
         gwPc = "record"
  PROVE  gwIdent \notin OutOfBand
<1>1. PICK i \in Ids : Current(gwBatch, i) /\ req[i].label = Label[gwIdent]
  BY IdentHasItsText
<1>2. ApprovedGrant(i) /\ OnWork(i)
  BY <1>1 DEF ProvisionsApproved, Current
<1>3. LabelIn(newer, gwIdent) = Label[gwIdent]
  BY DEF LabelIn, RunsResolved
<1> QED  BY <1>1, <1>2, <1>3 DEF OutOfBand, Attributed, ApprovedGrant, OnWork, Exists

\* Nobody names what the worker is about to record.
LEMMA RecordsUnnamedStep ==
  ASSUME TypeOK, NamesAgree, RunsResolved, ProvisionsApproved, NamedWasCreated,
         RecordsItsOwn, CreatedAsAsked, RecordsUnnamed, RowsMove, [Next]_vars
  PROVE  RecordsUnnamed'
<1> SUFFICES ASSUME gwPc' = "record"
             PROVE  \A k \in Ids : ~Names(k, gwIdent)'
  BY DEF RecordsUnnamed
<1>1. ASSUME NEW i \in gwBatch, GwPut(i)
      PROVE  \A k \in Ids : ~Names(k, gwIdent)'
  <2>1. PICK t \in Guids : Create(t, i) /\ gwIdent' = t
    BY <1>1 DEF GwPut
  <2>2. \A k \in Ids : req[k].target # t
    BY <2>1 DEF Create, NamedWasCreated
  <2>3. req' = req
    BY <1>1 DEF GwPut
  <2> QED  BY <2>1, <2>2, <2>3 DEF Names
<1>2. ASSUME UNCHANGED gwVars, NEW k \in Ids, Names(k, gwIdent)'
      PROVE  FALSE
  <2>1. gwPc = "record" /\ gwIdent' = gwIdent /\ gwBatch' = gwBatch
    BY <1>2 DEF gwVars
  <2>2. RowMoves(k) /\ ~Names(k, gwIdent)
    BY <2>1 DEF RowsMove, RecordsUnnamed
  <2>3. Exists(k)' /\ req'[k].action # "revoke" /\ req'[k].target = gwIdent
    BY <1>2, <2>1 DEF Names
  <2>4. gwIdent # NoTarget
    BY <2>1, GuidsAreTargets DEF RecordsItsOwn
  <2>5. CASE Exists(k)
    <3>1. ~(Current(gwBatch, k) /\ Recorded(k))
      BY <2>1 DEF Recorded, Current
    <3> QED  BY <2>2, <2>3, <2>5, <3>1, RowsKeepTheirTarget DEF Names
  <2>6. CASE Fresh(k)
    <3>1. gwIdent \notin OutOfBand
      BY <2>1, IdentInHandIsAccountedFor
    <3>2. ~RemovalQueued(k)
      BY <2>3, QueuedRow
    <3>3. ~Opened(k)
      BY <2>3, <2>4, <3>1, OpenedRow DEF Actions
    <3> QED  BY <2>2, <2>6, <3>2, <3>3, NewRowsAreInserted
  <2> QED  BY <2>3, <2>5, <2>6 DEF Fresh
<1> QED  BY <1>1, <1>2, RecordEntered

\* Who names an assignment after a step did before it, has just recorded it, or
\* is drift that nothing else accounted for.
LEMMA NamesBefore ==
  ASSUME TypeOK, NEW i \in Ids, RowMoves(i), NEW t, Names(i, t)'
  PROVE  \/ Names(i, t)
         \/ gwPc = "record" /\ t = gwIdent /\ Current(gwBatch, i)
         \/ Fresh(i) /\ t = NoTarget
         \/ Fresh(i) /\ t \in OutOfBand
<1>1. Exists(i)' /\ req'[i].action # "revoke" /\ req'[i].target = t
  BY DEF Names
<1>2. CASE Exists(i)
  BY <1>1, <1>2, RowsKeepTheirTarget DEF Names, Recorded
<1>3. CASE Fresh(i)
  <2>1. ~RemovalQueued(i)
    BY <1>1, QueuedRow
  <2>2. Opened(i)
    BY <1>3, <2>1, NewRowsAreInserted
  <2> QED  BY <1>1, <1>3, <2>2, OpenedRow DEF Actions
<1> QED  BY <1>1, <1>2, <1>3 DEF Fresh

\* No two requests other than removals name one assignment.
LEMMA NamedOnceStep ==
  ASSUME TypeOK, NamesAgree, RunsResolved, ProvisionsApproved, RecordsItsOwn, CreatedAsAsked,
         RecordsUnnamed, NamedOnce, RowsMove
  PROVE  NamedOnce'
<1> SUFFICES ASSUME NEW i \in Ids, NEW j \in Ids, NEW t \in Targets,
                    Names(i, t)', Names(j, t)'
             PROVE  i = j
  BY DEF NamedOnce
<1> DEFINE Recording(k) == gwPc = "record" /\ t = gwIdent /\ Current(gwBatch, k)
           Drifting(k)  == Fresh(k) /\ t \in OutOfBand
<1>1. \A k \in Ids : Names(k, t)' => Names(k, t) \/ Recording(k) \/ Drifting(k)
  BY GuidsAreTargets, NamesBefore DEF RowsMove
<1>2. ASSUME NEW k \in Ids, Names(k, t)
      PROVE  \A l \in Ids : ~Recording(l) /\ ~Drifting(l)
  BY <1>2 DEF RecordsUnnamed, OutOfBand, Attributed, Names
<1>3. ASSUME NEW k \in Ids, Recording(k)
      PROVE  t \notin OutOfBand
  BY <1>3, IdentInHandIsAccountedFor
<1>4. CASE Names(i, t)
  BY <1>1, <1>2, <1>4 DEF NamedOnce
<1>5. CASE Recording(i)
  <2>1. Recording(j)
    BY <1>1, <1>2, <1>3, <1>5
  <2> QED  BY <1>5, <2>1, OneInHand DEF TypeOK
<1>6. CASE Drifting(i)
  <2>1. Drifting(j)
    BY <1>1, <1>2, <1>3, <1>6
  <2>2. req'[i].target = t /\ req'[j].target = t /\ t # NoTarget
    BY GuidsAreTargets DEF Names
  <2> QED  BY <1>6, <2>1, <2>2 DEF RowsMove, FreshApart
<1> QED  BY <1>1, <1>4, <1>5, <1>6

\* A row in the sweep's hands names an assignment.
LEMMA SweptIsNamed ==
  ASSUME TypeOK, GrantsNamedLate, NEW i \in Ids, RanOut(i)
  PROVE  req[i].target \in Targets /\ Names(i, req[i].target)
BY GuidsAreTargets DEF GrantsNamedLate, RanOut, Names, Exists

\* The worker is about to mark a grant only after it queued its removal.
LEMMA MarkEntered ==
  ASSUME [Next]_vars, gwPc' = "mark"
  PROVE  (\E i \in gwBatch : GwEnqueue(i)) \/ UNCHANGED gwVars
<1>1. CASE Provision
  BY <1>1 DEF Provision, GwNext, GwStep, GwPutStep, GwQueueStep, GwPut, GwPutRefused,
       GwPutLost, GwCrash, GwProbeOk, GwProbeFail, GwList, GwProvisioned, GwExpired, GwSwept,
       GwSkip, GwSkipUnread, GwClaim, GwRecord, GwFail, GwMark, GwGoto
<1>2. CASE UNCHANGED gwVars
  BY <1>2
<1> QED
  BY <1>1, <1>2 DEF Next, Review, Administer, Remediate, Collect, Portal, Expire, vars

\* An open row in the way of the removal is a removal itself.
LEMMA EnqueueLeavesRemoval ==
  ASSUME TypeOK, GrantsNamedLate, NamedOnce, NEW i \in Ids, RanOut(i), EnqueueExpiryRevoke(i)
  PROVE  HasRemovalRequest(req[i].target)' /\ req'[i] = req[i]
<1> DEFINE t   == req[i].target
           row == NewRow("revoke", t, req[i].label, "approved", "grant-expiry")
<1>1. row.target = t /\ row.action = "revoke" /\ row.status = "approved"
  BY DEF NewRow
<1>2. CASE HasOpenRow(t) /\ UNCHANGED req
  <2>1. PICK k \in Ids : req[k].target = t /\ IsOpen(k)
    BY <1>2 DEF HasOpenRow
  <2>2. k # i /\ Exists(k)
    BY <2>1 DEF RanOut, IsOpen, OpenStatuses, Exists
  <2>3. ~Names(k, t)
    BY <2>2, SweptIsNamed DEF NamedOnce
  <2>4. req[k].action = "revoke"
    BY <2>1, <2>2, <2>3 DEF Names
  <2> QED  BY <1>2, <2>1, <2>2, <2>4 DEF HasRemovalRequest, Exists
<1>3. ASSUME NEW k \in Ids, Insert(k, row)
      PROVE  HasRemovalRequest(t)' /\ req'[i] = req[i]
  <2>1. req[k].status = "absent" /\ req'[k] = row /\ \A j \in Ids \ {k} : Untouched(j)
    <3> HIDE DEF row
    <3> QED  BY <1>3, InsertMoves DEF TypeOK
  <2>2. i # k /\ req'[i] = req[i]
    BY <2>1 DEF RanOut, Untouched
  <2> QED  BY <1>1, <2>1, <2>2 DEF HasRemovalRequest, Exists
<1> QED  BY <1>1, <1>2, <1>3 DEF EnqueueExpiryRevoke, InsertUnlessOpen

\* The removal is in the queue before the grant is marked.
LEMMA SweptHasRemovalStep ==
  ASSUME TypeOK, SweepsRanOut, GrantsNamedLate, NamedOnce, SweptHasRemoval, RowsMove,
         [Next]_vars
  PROVE  SweptHasRemoval'
<1> SUFFICES ASSUME gwPc' = "mark", NEW j \in gwBatch', Current(gwBatch, j)'
             PROVE  HasRemovalRequest(req[j].target)'
  BY DEF SweptHasRemoval
<1>1. ASSUME NEW i \in gwBatch, GwEnqueue(i)
      PROVE  HasRemovalRequest(req[j].target)'
  <2>1. /\ Current(gwBatch, i) /\ EnqueueExpiryRevoke(i) /\ gwBatch' = gwBatch
        /\ gwPc = "enqueue"
    BY <1>1 DEF GwEnqueue, GwGoto
  <2>2. i = j /\ i \in Ids
    BY <2>1, OneInHand DEF TypeOK, Current
  <2>3. RanOut(i)
    BY <2>1 DEF SweepsRanOut
  <2> QED  BY <2>1, <2>2, <2>3, EnqueueLeavesRemoval DEF HasRemovalRequest
<1>2. CASE UNCHANGED gwVars
  <2>1. gwPc = "mark" /\ j \in gwBatch /\ Current(gwBatch, j) /\ j \in Ids
    BY <1>2 DEF gwVars, Current, TypeOK, GwTypeOK
  <2>2. HasRemovalRequest(req[j].target) /\ RanOut(j)
    BY <2>1 DEF SweptHasRemoval, SweepsRanOut
  <2>3. req'[j].target = req[j].target
    BY <2>1, <2>2, RowsKeepTheirTarget DEF RowsMove, RanOut, Exists, Recorded
  <2>4. PICK t : t = req[j].target
    OBVIOUS
  <2>5. HasRemovalRequest(t)'
    BY <2>2, <2>4, RemovalRequestStays
  <2> QED  BY <2>3, <2>4, <2>5 DEF HasRemovalRequest
<1> QED  BY <1>1, <1>2, MarkEntered

\* No step marks a grant expired whose removal is not in the queue.
LEMMA ExpiredHasRevokeStep ==
  ASSUME TypeOK, SweptHasRemoval, ExpiredHasRevoke, RowsMove
  PROVE  ExpiredHasRevoke'
<1> SUFFICES ASSUME NEW i \in Ids, req'[i].status = "expired"
             PROVE  HasRemovalRequest(req[i].target)'
  BY DEF ExpiredHasRevoke, HasRemovalRequest
<1>1. RowMoves(i)
  BY DEF RowsMove
<1>2. ~Opened(i) /\ ~RemovalQueued(i)
  BY OpenedRow, QueuedRow
<1>3. /\ req'[i].target = req[i].target
      /\ req[i].status = "expired" \/ MarkedExpired(i)
  BY <1>1, <1>2 DEF RowMoves, Untouched, Reviewed, Aged, ProvisionMoved, Handled, Recorded,
       MarkedExpired, Removed, TypeOK, TableTypeOK, Row
<1>4. HasRemovalRequest(req[i].target)
  BY <1>3 DEF ExpiredHasRevoke, HasRemovalRequest, MarkedExpired, SweptHasRemoval, Current
<1>5. PICK t : t = req[i].target
  OBVIOUS
<1>6. HasRemovalRequest(t)'
  BY <1>4, <1>5, RemovalRequestStays
<1> QED  BY <1>3, <1>5, <1>6 DEF HasRemovalRequest

-----------------------------------------------------------------------------
\* The invariant holds at the start.
LEMMA InitNameInv == Init => NameInv
<1> SUFFICES ASSUME Init PROVE NameInv
  OBVIOUS
<1>1. \A i \in Ids : req[i].status = "absent" /\ req[i].target = NoTarget
  BY DEF Init, TableInit, NoRow, NewRow
<1>2. RecordsUnnamed /\ SweptHasRemoval
  BY DEF Init, GwInit, RecordsUnnamed, SweptHasRemoval
<1>3. RunsResolved
  BY DEF Init, ColInit, NoRun, RunsResolved
<1>4. RowsTellTheText
  BY <1>1, GuidsAreTargets DEF RowsTellTheText
<1>5. NamedOnce /\ ExpiredHasRevoke
  BY <1>1 DEF NamedOnce, Names, ExpiredHasRevoke, Exists
<1> QED  BY <1>2, <1>3, <1>4, <1>5, InitTableInv DEF NameInv

\* Every step keeps it.
LEMMA StepNameInv ==
  ASSUME NamesAgree, NameInv, [Next]_vars
  PROVE  NameInv'
<1>1. TableInv' /\ RunsResolved'
  BY StepTableInv, RunsResolvedStep DEF NameInv
<1>2. TypeOK /\ ProvisionsApproved /\ SweepsRanOut /\ RemovesApproved
  BY DEF NameInv, TableInv, Inv
<1>3. RowsMove
  BY <1>2, StepMoves
<1>4. RowsTellTheText' /\ RecordsUnnamed'
  BY <1>2, <1>3, RowsTellTheTextStep, RecordsUnnamedStep DEF NameInv, TableInv
<1>5. NamedOnce'
  BY <1>2, <1>3, NamedOnceStep DEF NameInv, TableInv
<1>6. SweptHasRemoval' /\ ExpiredHasRevoke'
  BY <1>2, <1>3, SweptHasRemovalStep, ExpiredHasRevokeStep DEF NameInv, TableInv
<1> QED  BY <1>1, <1>4, <1>5, <1>6 DEF NameInv

(***************************************************************************)
(* What rests on names holds in every behaviour in which they agree.       *)
(***************************************************************************)
THEOREM NameInvariance ==
  ASSUME NamesAgree
  PROVE  Spec => []NameInv
<1>1. NameInv /\ [Next]_vars => NameInv'
  BY StepNameInv
<1> QED  BY <1>1, InitNameInv, PTL DEF Spec

(***************************************************************************)
(* A grant is marked expired only when there is a removal request for its  *)
(* access, whatever crashes, fails or gets lost, as long as what the grant *)
(* worker created is called what its request called it.                    *)
(***************************************************************************)
THEOREM ExpiryHasItsRemoval ==
  ASSUME NamesAgree
  PROVE  Spec => []ExpiredHasRevoke
<1>1. NameInv => ExpiredHasRevoke
  BY DEF NameInv
<1> QED  BY <1>1, NameInvariance, PTL
=============================================================================
