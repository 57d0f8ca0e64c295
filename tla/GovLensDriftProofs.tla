------------------------- MODULE GovLensDriftProofs -------------------------
(***************************************************************************)
(* What the comparison of two runs reports: nothing that was there all     *)
(* along, nothing of the grant worker's own, and everything else.          *)
(***************************************************************************)
EXTENDS GovLensWorkerProofs

\* A drift row was one before, or has just been opened.
LEMMA DriftBefore ==
  ASSUME TypeOK, NEW i \in Ids, RowMoves(i), req'[i].action = "drift"
  PROVE  \/ req[i].action = "drift" /\ req'[i].target = req[i].target
         \/ Opened(i) /\ req'[i].target \in OutOfBand
<1>1. CASE Opened(i)
  BY <1>1, OpenedRow
<1>2. ~RemovalQueued(i)
  BY QueuedRow
<1>3. CASE \/ Untouched(i) \/ Reviewed(i) \/ Aged(i) \/ ProvisionMoved(i)
           \/ MarkedExpired(i) \/ Removed(i)
  BY <1>3 DEF Untouched, Reviewed, Aged, ProvisionMoved, MarkedExpired, Removed, TypeOK,
              TableTypeOK, Row
<1> QED  BY <1>1, <1>2, <1>3 DEF RowMoves

\* What is out of band was seen in the newer run, and not in the older.
LEMMA OutOfBandAreTargets ==
  ASSUME TypeOK
  PROVE  OutOfBand \subseteq Targets
BY DEF OutOfBand, TypeOK, ColTypeOK, Run

\* What the steps of the collector are.
LEMMA CollectorSteps ==
  ASSUME [Next]_vars
  PROVE  UNCHANGED colVars \/ ColRead \/ ReplaceRun \/ ReconcileDrift \/ ColCrash
BY DEF Next, Review, Administer, Provision, Remediate, Collect, ColNext, ColStep, Portal,
       Expire, vars

-----------------------------------------------------------------------------
(***************************************************************************)
(* No phantom drift.                                                       *)
(***************************************************************************)

\* An assignment that only the start put there never comes back.
LEMMA OldOnlyGoes ==
  ASSUME [Next]_vars, NEW t \in Existing \ Outside, t \in live'
  PROVE  t \in live
<1>1. t \notin Guids
  BY AzureAssumption
<1> QED
  BY <1>1 DEF Next, Review, Administer, Provision, GwNext, GwStep, GwPutStep, GwPut,
       GwPutRefused, GwPutLost, Create, Remediate, RmNext, RmStep, RmDeleteStep, RmDelete,
       RmDeleteRefused, RmDeleteLost, Delete, Collect, Portal, PortalAdd, PortalRemove,
       Expire, azureVars, vars

\* The runs go on showing it for as long as it is there.
LEMMA OldIsSeenBeforeStep ==
  ASSUME ListingsFailAsAWhole, OldIsSeenBefore, [Next]_vars
  PROVE  OldIsSeenBefore'
<1> SUFFICES ASSUME NEW t \in Existing \ Outside
             PROVE  /\ SeenSince(live', t, found') /\ SeenSince(live', t, newer')
                    /\ SeenSince(found'.seen, t, newer') /\ SeenSince(newer'.seen, t, older')
  BY DEF OldIsSeenBefore, SeenSince
<1> USE DEF SeenSince
<1>1. /\ SeenSince(live, t, found) /\ SeenSince(live, t, newer)
      /\ SeenSince(found.seen, t, newer) /\ SeenSince(newer.seen, t, older)
      /\ t \in live' => t \in live
  BY OldOnlyGoes DEF OldIsSeenBefore
<1>2. CASE UNCHANGED colVars
  BY <1>1, <1>2 DEF colVars
<1>3. CASE ColRead
  <2>1. UNCHANGED <<newer, older>> /\ found'.seen \subseteq live
    BY <1>3 DEF ColRead, OfKinds
  <2>2. SeenSince(live, t, found')
    <3>1. CASE found' = [seen |-> live, raw |-> {}, sources |-> Kinds]
      BY <3>1
    <3>2. ASSUME NEW k \in Kinds,
                 found' = [seen |-> OfKinds(Kinds \ {k}), raw |-> {},
                           sources |-> Kinds \ {k}]
          PROVE  SeenSince(live, t, found')
      BY <3>2 DEF OfKinds
    <3>3. ASSUME NEW missed \in SUBSET OfKinds({"rbac"}), "sub" \in FaultKinds,
                 found' = [seen |-> live \ missed, raw |-> {}, sources |-> Kinds]
          PROVE  SeenSince(live, t, found')
      BY <3>3 DEF OfKinds, ListingsFailAsAWhole
    <3>4. ASSUME NEW raw \in SUBSET {u \in live : RawLabel[u] # Label[u]},
                 found' = [seen |-> live, raw |-> raw, sources |-> Kinds]
          PROVE  SeenSince(live, t, found')
      BY <3>4
    <3> QED  BY <1>3, <3>1, <3>2, <3>3, <3>4 DEF ColRead, Fault
  <2> QED  BY <1>1, <2>1, <2>2
<1>4. CASE ReplaceRun
  BY <1>1, <1>4 DEF ReplaceRun, NoRun
<1>5. CASE ReconcileDrift
  BY <1>1, <1>5 DEF ReconcileDrift
<1>6. CASE ColCrash
  BY <1>1, <1>6 DEF ColCrash, NoRun
<1> QED  BY <1>2, <1>3, <1>4, <1>5, <1>6, CollectorSteps

\* So the comparison never reports it.
LEMMA NoPhantomStep ==
  ASSUME TypeOK, OldIsSeenBefore, NoPhantomDrift, RowsMove
  PROVE  NoPhantomDrift'
<1> SUFFICES ASSUME NEW i \in Ids, req'[i].action = "drift"
             PROVE  req'[i].target \notin Existing \ Outside
  BY DEF NoPhantomDrift
<1>1. \A t \in OutOfBand : t \notin Existing \ Outside
  BY DEF OutOfBand, OldIsSeenBefore, SeenSince
<1> QED  BY <1>1, DriftBefore DEF RowsMove, NoPhantomDrift

\* The invariant holds at the start.
LEMMA InitPhantomInv == Init => PhantomInv
<1> SUFFICES ASSUME Init PROVE PhantomInv
  OBVIOUS
<1>1. NoPhantomDrift
  BY DEF Init, TableInit, NoRow, NewRow, NoPhantomDrift
<1>2. OldIsSeenBefore
  BY DEF Init, ColInit, NoRun, OldIsSeenBefore, SeenSince
<1> QED  BY <1>1, <1>2, InitInv DEF PhantomInv

\* Every step keeps it.
LEMMA StepPhantomInv ==
  ASSUME ListingsFailAsAWhole
  PROVE  PhantomInv /\ [Next]_vars => PhantomInv'
<1> SUFFICES ASSUME PhantomInv, [Next]_vars PROVE PhantomInv'
  OBVIOUS
<1>1. Inv /\ TypeOK /\ RowsMove /\ OldIsSeenBefore /\ NoPhantomDrift
  BY StepMoves DEF PhantomInv, Inv
<1> QED  BY <1>1, StepInv, OldIsSeenBeforeStep, NoPhantomStep DEF PhantomInv

(***************************************************************************)
(* As long as a listing fails as a whole, an assignment that was there     *)
(* from the start is never reported as added out of band, whichever        *)
(* listings fail and wherever the collector dies.                          *)
(***************************************************************************)
THEOREM DriftIsNoPhantom ==
  ASSUME ListingsFailAsAWhole
  PROVE  Spec => []NoPhantomDrift
<1>1. PhantomInv => NoPhantomDrift
  BY DEF PhantomInv
<1> QED  BY <1>1, InitPhantomInv, StepPhantomInv, PTL DEF Spec

-----------------------------------------------------------------------------
(***************************************************************************)
(* The worker's own grants.                                                *)
(***************************************************************************)

\* The worker takes a PUT to have failed only after a refusal.
LEMMA FailEntered ==
  ASSUME ResponsesArrive, [Next]_vars, gwPc' = "fail"
  PROVE  (\E i \in gwBatch : GwPutRefused(i)) \/ UNCHANGED gwVars
<1>1. CASE Provision
  BY <1>1 DEF Provision, GwNext, GwStep, GwPutStep, GwQueueStep, GwPut, GwPutLost, Fault,
       ResponsesArrive, GwCrash, GwProbeOk, GwProbeFail, GwList, GwProvisioned, GwExpired,
       GwSwept, GwSkip, GwSkipUnread, GwClaim, GwRecord, GwFail, GwEnqueue, GwMark, GwGoto
<1>2. CASE UNCHANGED gwVars
  BY <1>2
<1> QED
  BY <1>1, <1>2 DEF Next, Review, Administer, Remediate, Collect, Portal, Expire, vars

\* A request whose PUT failed created nothing.
LEMMA FailureIsRealStep ==
  ASSUME ResponsesArrive, TypeOK, ClaimPrecedesPut, FailureIsReal, [Next]_vars
  PROVE  FailureIsReal'
<1> SUFFICES ASSUME gwPc' = "fail", NEW t \in Targets, origin'[t] # 0
             PROVE  ~Current(gwBatch', origin'[t])
  BY DEF FailureIsReal, Current
<1>1. origin'[t] = origin[t]
  BY OriginMoves DEF ResponsesArrive
<1>2. ASSUME NEW i \in gwBatch, GwPutRefused(i)
      PROVE  ~Current(gwBatch', origin'[t])
  BY <1>1, <1>2 DEF GwPutRefused, GwGoto, ClaimPrecedesPut
<1>3. CASE UNCHANGED gwVars
  BY <1>1, <1>3 DEF gwVars, FailureIsReal
<1> QED  BY <1>2, <1>3, FailEntered

\* The request accounts for what was created on its behalf.
LEMMA OwnAccountedForStep ==
  ASSUME TypeOK, AccessNeedsApproval, RecordsItsOwn, GrantsClaimed, OneAssignmentPerGrant,
         FailureIsReal, OwnAccountedFor, RowsMove, [Next]_vars
  PROVE  OwnAccountedFor'
<1> SUFFICES ASSUME NEW t \in Targets, origin'[t] # 0
             PROVE  \/ req'[origin'[t]].status = "processing"
                    \/ /\ req'[origin'[t]].status \in {"granted", "expired"}
                       /\ req'[origin'[t]].target = t
  BY DEF OwnAccountedFor
<1>1. CASE origin'[t] # origin[t]
  BY <1>1, OriginMoves DEF GrantsClaimed, InHand, Current
<1>2. CASE origin'[t] = origin[t]
  <2>1. PICK i \in Ids : i = origin'[t] /\ i = origin[t]
    BY <1>2, TableAssumption DEF TypeOK, AzureTypeOK, Ids
  <2>2. /\ req[i].action = "grant" /\ RowMoves(i)
        /\ \/ req[i].status = "processing"
           \/ req[i].status \in {"granted", "expired"} /\ req[i].target = t
    BY <2>1 DEF AccessNeedsApproval, OwnAccountedFor, RowsMove
  <2>3. CASE ProvisionMoved(i)
    <3>1. req[i].status = "processing" /\ Current(gwBatch, i) /\ i \in gwBatch
      BY <2>2, <2>3 DEF ProvisionMoved, OnWork, Current
    <3>2. ~Handled(i)
      BY <2>1, <3>1 DEF Handled, GrantsClaimed, InHand, FailureIsReal
    <3>3. Recorded(i)
      BY <2>3, <3>2 DEF ProvisionMoved
    <3>4. gwIdent = t
      <4>1. gwIdent \in Targets /\ Current(gwBatch, origin[gwIdent])
        BY <3>3, GuidsAreTargets DEF Recorded, RecordsItsOwn
      <4>2. origin[gwIdent] = i
        BY <3>1, <4>1, OneInHand DEF TypeOK
      <4> QED  BY <2>1, <4>1, <4>2 DEF OneAssignmentPerGrant
    <3> QED  BY <2>1, <3>3, <3>4 DEF Recorded
  <2>4. ~(Opened(i) \/ RemovalQueued(i) \/ Reviewed(i) \/ Removed(i))
    BY <2>2, OpenedRow, QueuedRow DEF Reviewed, IsPending, Removed, ApprovedRevoke
  <2>5. CASE Untouched(i) \/ Aged(i) \/ MarkedExpired(i)
    BY <2>1, <2>2, <2>5 DEF Untouched, Aged, MarkedExpired, RanOut, TypeOK, TableTypeOK, Row
  <2> QED  BY <2>2, <2>3, <2>4, <2>5 DEF RowMoves
<1> QED  BY <1>1, <1>2

\* A row about drift is there.
LEMMA DriftIsThereStep ==
  ASSUME TypeOK, DriftIsThere, RowsMove
  PROVE  DriftIsThere'
<1> SUFFICES ASSUME NEW i \in Ids, req'[i].action = "drift"
             PROVE  Exists(i)'
  BY DEF DriftIsThere
<1>1. CASE req[i].action = "drift"
  BY <1>1, RowsKeepTheirTarget DEF DriftIsThere, RowsMove
<1>2. CASE Opened(i)
  BY <1>2, OpenedRow DEF Exists
<1> QED  BY <1>1, <1>2, DriftBefore DEF RowsMove

\* What was created on a request's behalf is attributed to it: by its ident once
\* that is recorded, by its text until then.
LEMMA OwnIsAttributed ==
  ASSUME NamesAgree, RunsResolved, TypeOK, AccessNeedsApproval, CreatedAsAsked,
         OwnAccountedFor, NEW t \in Targets, origin[t] # 0
  PROVE  Attributed(t)
<1>1. PICK i \in Ids : i = origin[t]
  BY TableAssumption DEF TypeOK, AzureTypeOK, Ids
<1>2. req[i].label \in Labels /\ Label[t] = Spelling[req[i].label]
  BY <1>1 DEF CreatedAsAsked, TypeOK, TableTypeOK, Row
<1>3. req[i].label = LabelIn(newer, t)
  BY <1>2 DEF NamesAgree, RunsResolved, LabelIn
<1>4. req[i].action = "grant"
  BY <1>1 DEF AccessNeedsApproval
<1>5. \/ req[i].status = "processing"
      \/ req[i].status \in {"granted", "expired"} /\ req[i].target = t
  BY <1>1 DEF OwnAccountedFor
<1> QED  BY <1>3, <1>4, <1>5 DEF Attributed, Exists

\* So it is not drift.
LEMMA OwnGrantsStep ==
  ASSUME NamesAgree, RunsResolved, TypeOK, AccessNeedsApproval, CreatedAsAsked,
         GrantsNamedLate, NamedWasCreated, OwnAccountedFor, DriftIsThere,
         OwnGrantsAreNotDrift, RowsMove, [Next]_vars
  PROVE  OwnGrantsAreNotDrift'
<1> SUFFICES ASSUME NEW i \in Ids, req'[i].action = "drift"
             PROVE  origin'[req'[i].target] = 0
  BY DEF OwnGrantsAreNotDrift
<1>1. CASE req[i].action = "drift" /\ req'[i].target = req[i].target
  <2>1. req[i].target \in Targets /\ origin[req[i].target] = 0
    BY <1>1 DEF DriftIsThere, GrantsNamedLate, OwnGrantsAreNotDrift
  <2>2. origin'[req[i].target] = origin[req[i].target]
    BY <2>1, OriginMoves DEF NamedWasCreated
  <2> QED  BY <1>1, <2>1, <2>2
<1>2. CASE Opened(i) /\ req'[i].target \in OutOfBand
  <2>1. PICK t \in Targets : t = req'[i].target /\ t \in OutOfBand
    BY <1>2, OutOfBandAreTargets
  <2>2. origin[t] = 0
    BY <2>1, OwnIsAttributed DEF OutOfBand
  <2>3. origin'[t] = origin[t]
    <3>1. req' # req
      BY <1>2, OpenedRow
    <3> QED  BY <3>1, OriginMoves
  <2> QED  BY <2>1, <2>2, <2>3
<1> QED  BY <1>1, <1>2, DriftBefore DEF RowsMove

\* The invariant holds at the start.
LEMMA InitOwnInv == Init => OwnInv
<1> SUFFICES ASSUME Init PROVE OwnInv
  OBVIOUS
<1>1. \A t \in Targets : origin[t] = 0
  BY DEF Init, AzureInit
<1>2. \A i \in Ids : req[i].action = "revoke"
  BY DEF Init, TableInit, NoRow, NewRow
<1>3. FailureIsReal /\ OwnAccountedFor
  BY <1>1 DEF FailureIsReal, OwnAccountedFor
<1>4. DriftIsThere /\ OwnGrantsAreNotDrift
  BY <1>2 DEF DriftIsThere, OwnGrantsAreNotDrift
<1> QED  BY <1>3, <1>4, InitClaimInv, InitNameInv DEF OwnInv

\* Every step keeps it.
LEMMA StepOwnInv ==
  ASSUME StatementsSucceed, ResponsesArrive, NamesAgree
  PROVE  OwnInv /\ [Next]_vars => OwnInv'
<1> SUFFICES ASSUME OwnInv, [Next]_vars PROVE OwnInv'
  OBVIOUS
<1>1. /\ ClaimInv /\ NameInv /\ Inv /\ TypeOK /\ AccessNeedsApproval /\ GrantsNamedLate
      /\ NamedWasCreated /\ RecordsItsOwn /\ CreatedAsAsked /\ RunsResolved
      /\ GrantsClaimed /\ ClaimPrecedesPut /\ OneAssignmentPerGrant /\ FailureIsReal
      /\ OwnAccountedFor /\ DriftIsThere /\ OwnGrantsAreNotDrift /\ RowsMove
  BY StepMoves DEF OwnInv, ClaimInv, NameInv, TableInv, Inv
<1>2. ClaimInv' /\ NameInv'
  BY <1>1, StepClaimInv, StepNameInv
<1>3. FailureIsReal' /\ OwnAccountedFor'
  BY <1>1, FailureIsRealStep, OwnAccountedForStep
<1>4. DriftIsThere' /\ OwnGrantsAreNotDrift'
  BY <1>1, DriftIsThereStep, OwnGrantsStep
<1> QED  BY <1>2, <1>3, <1>4 DEF OwnInv

(***************************************************************************)
(* When statements succeed, no response is lost and names resolve to what  *)
(* requests call them, what the grant worker creates is never reported as  *)
(* added out of band, although a run may see it before its request names   *)
(* it.                                                                     *)
(***************************************************************************)
THEOREM OwnGrantsAreKnown ==
  ASSUME StatementsSucceed, ResponsesArrive, NamesAgree
  PROVE  Spec => []OwnGrantsAreNotDrift
<1>1. OwnInv => OwnGrantsAreNotDrift
  BY DEF OwnInv
<1> QED  BY <1>1, InitOwnInv, StepOwnInv, PTL DEF Spec
-----------------------------------------------------------------------------
(***************************************************************************)
(* Everything else is reported.                                            *)
(***************************************************************************)

\* A row that names an assignment goes on naming it.
LEMMA NamedStays ==
  ASSUME TypeOK, GrantsNamedLate, RowsMove, NEW t \in Targets, NamedByRequest(t)
  PROVE  NamedByRequest(t)'
<1>1. PICK i \in Ids : Exists(i) /\ req[i].target = t
  BY DEF NamedByRequest
<1>2. ~(ApprovedGrant(i) /\ OnWork(i))
  BY <1>1, GuidsAreTargets DEF GrantsNamedLate, ApprovedGrant, OnWork
<1>3. Exists(i)' /\ req'[i].target = t
  BY <1>1, <1>2, RowsKeepTheirTarget DEF RowsMove
<1> QED  BY <1>3 DEF NamedByRequest

\* A grant that was acted on stays so, in the same words.
LEMMA PassingStays ==
  ASSUME TypeOK, GrantsDecided, RowsMove, NEW t \in Targets, PassesForGrant(t)
  PROVE  PassesForGrant(t)'
<1>1. PICK i \in Ids : /\ req[i].action = "grant"
                       /\ req[i].status \notin {"absent", "pending", "rejected"}
                       /\ req[i].label \in {Label[t], RawLabel[t]}
  BY DEF PassesForGrant
<1>2. ApprovedGrant(i)
  BY <1>1 DEF GrantsDecided, TypeOK, TableTypeOK, Row, Acted
<1>3. ApprovedGrant(i)'
  BY <1>2, GrantStaysApproved DEF RowsMove
<1>4. req'[i].label = req[i].label
  BY <1>1, RowsKeepTheirTarget DEF RowsMove, Exists
<1> QED  BY <1>1, <1>3, <1>4 DEF PassesForGrant, ApprovedGrant, Acted

\* What has a request, or passes for having one, keeps it.
LEMMA ReviewableStays ==
  ASSUME TypeOK, GrantsNamedLate, GrantsDecided, RowsMove, NEW t \in Targets, Reviewable(t)
  PROVE  Reviewable(t)'
BY NamedStays, PassingStays DEF Reviewable

\* What the comparison leaves out has one, or passes for having one.
LEMMA AttributedIsReviewable ==
  ASSUME TypeOK, NEW t \in Targets, Attributed(t)
  PROVE  Reviewable(t)
BY DEF Attributed, Reviewable, NamedByRequest, PassesForGrant, LabelIn

\* What it does not leave out gets one.
LEMMA ReconciledIsAccounted ==
  ASSUME TypeOK, newer.sources = Kinds, older.sources = Kinds, Accounted(older.seen),
         \A t \in Targets : Reviewable(t) => Reviewable(t)',
         InsertDrift(OutOfBand), UNCHANGED newer
  PROVE  Accounted(newer.seen)'
<1> SUFFICES ASSUME NEW t \in newer.seen
             PROVE  Reviewable(t)'
  BY DEF Accounted
<1>1. t \in Targets
  BY DEF TypeOK, ColTypeOK, Run
<1>2. CASE Reviewable(t)
  BY <1>1, <1>2
<1>3. CASE ~Reviewable(t)
  <2>1. t \notin older.seen
    BY <1>3 DEF Accounted
  <2>2. Kind(t) \in Kinds
    BY DEF Kind, Kinds
  <2>3. t \in OutOfBand
    BY <1>1, <1>3, <2>1, <2>2, AttributedIsReviewable DEF OutOfBand
  <2>4. PICK rows \in SUBSET Ids :
          \E pick \in [rows -> OutOfBand] :
            /\ \A u \in OutOfBand : \E i \in rows : pick[i] = u
            /\ req' = [i \in Ids |-> IF i \in rows
                                     THEN NewRow("drift", pick[i], LabelIn(newer, pick[i]),
                                                 "pending", "nobody")
                                     ELSE req[i]]
    BY DEF InsertDrift
  <2>5. PICK pick \in [rows -> OutOfBand] :
          /\ \A u \in OutOfBand : \E i \in rows : pick[i] = u
          /\ req' = [i \in Ids |-> IF i \in rows
                                   THEN NewRow("drift", pick[i], LabelIn(newer, pick[i]),
                                               "pending", "nobody")
                                   ELSE req[i]]
    BY <2>4
  <2>6. PICK i \in rows : pick[i] = t
    BY <2>3, <2>5
  <2>7. i \in Ids /\ req'[i].target = t /\ req'[i].status = "pending"
    BY <2>5, <2>6 DEF NewRow
  <2> QED  BY <2>7 DEF Reviewable, NamedByRequest, Exists
<1> QED  BY <1>2, <1>3

\* The run on display is accounted for, but between its store and its comparison.
LEMMA RunsAccountedForStep ==
  ASSUME CollectorCompletes, TypeOK, RunsAccountedFor, [Next]_vars,
         \A t \in Targets : Reviewable(t) => Reviewable(t)'
  PROVE  RunsAccountedFor'
<1>1. ASSUME NEW seen \in SUBSET Targets, Accounted(seen)
      PROVE  \A t \in seen : Reviewable(t)'
  BY <1>1 DEF Accounted
<1>2. newer.seen \in SUBSET Targets /\ older.seen \in SUBSET Targets
  BY DEF TypeOK, ColTypeOK, Run
<1>3. CASE UNCHANGED colVars
  BY <1>1, <1>2, <1>3 DEF colVars, RunsAccountedFor, Accounted
<1>4. CASE ColRead
  <2>1. found'.sources = Kinds /\ colPc = "idle" /\ colPc' = "store"
    BY <1>4 DEF ColRead, Fault, CollectorCompletes
  <2>2. newer' = newer
    BY <1>4 DEF ColRead
  <2> QED  BY <1>1, <1>2, <2>1, <2>2 DEF RunsAccountedFor, Accounted
<1>5. CASE ReplaceRun
  <2>1. /\ colPc = "store" /\ colPc' = "reconcile"
        /\ older' = newer /\ newer' = found
    BY <1>5 DEF ReplaceRun
  <2> QED  BY <1>1, <1>2, <2>1 DEF RunsAccountedFor, Accounted
<1>6. CASE ReconcileDrift
  <2>1. /\ colPc = "reconcile" /\ colPc' = "idle" /\ newer' = newer
        /\ InsertDrift(OutOfBand)
    BY <1>6 DEF ReconcileDrift, Fault, CollectorCompletes
  <2>2. Accounted(newer.seen)'
    BY <2>1, ReconciledIsAccounted DEF RunsAccountedFor
  <2> QED  BY <2>1, <2>2 DEF RunsAccountedFor
<1>7. ~ColCrash
  BY DEF ColCrash, Fault, CollectorCompletes
<1> QED  BY <1>3, <1>4, <1>5, <1>6, <1>7, CollectorSteps

\* The invariant holds at the start.
LEMMA InitReviewInv == Init => ReviewInv
<1> SUFFICES ASSUME Init PROVE ReviewInv
  OBVIOUS
<1>1. colPc = "idle" /\ newer.seen = Existing /\ newer.sources = Kinds
  BY DEF Init, ColInit
<1> QED
  BY <1>1, InitTableInv
     DEF ReviewInv, RunsAccountedFor, Accounted, Reviewable, OutOfBandReviewed

\* Every step keeps it.
LEMMA StepReviewInv ==
  ASSUME CollectorCompletes
  PROVE  ReviewInv /\ [Next]_vars => ReviewInv'
<1> SUFFICES ASSUME ReviewInv, [Next]_vars PROVE ReviewInv'
  OBVIOUS
<1>1. TableInv /\ TypeOK /\ GrantsNamedLate /\ GrantsDecided /\ RunsAccountedFor /\ RowsMove
  BY StepMoves DEF ReviewInv, TableInv, Inv
<1>2. \A t \in Targets : Reviewable(t) => Reviewable(t)'
  BY <1>1, ReviewableStays
<1>3. RunsAccountedFor'
  BY <1>1, <1>2, RunsAccountedForStep
<1>4. OutOfBandReviewed'
  BY <1>3 DEF RunsAccountedFor, OutOfBandReviewed, Accounted
<1> QED  BY <1>1, <1>3, <1>4, StepTableInv DEF ReviewInv

(***************************************************************************)
(* When every kind is listed and the collector neither dies nor fails to   *)
(* write, every assignment of the latest run was there in the first run,   *)
(* is named by a request, or passes for what an approved grant asked for   *)
(* because of the same text: whatever names are not resolved, and whatever *)
(* single subscriptions are missed.                                        *)
(***************************************************************************)
THEOREM OutOfBandIsReviewed ==
  ASSUME CollectorCompletes
  PROVE  Spec => []OutOfBandReviewed
<1>1. ReviewInv => OutOfBandReviewed
  BY DEF ReviewInv
<1> QED  BY <1>1, InitReviewInv, StepReviewInv, PTL DEF Spec
=============================================================================
